--------------------------- MODULE Trigger_proofs ---------------------------
(***************************************************************************)
(* Proofs about Trigger, for every set of requests, every length of the    *)
(* topic and every budget of faults: its type invariant, and that every    *)
(* forced command that was published has a run of its own, but for those a *)
(* clock that falls back takes.                                            *)
(***************************************************************************)
EXTENDS Trigger, GitHub_proofs, FiniteSetTheorems

(***************************************************************************)
(* Type correctness.                                                       *)
(***************************************************************************)

LEMMA FaultType ==
    ASSUME TypeOK, NEW kind \in TriggerFaultKinds, Fault(kind)
    PROVE  triggerBudget' \in [TriggerFaultKinds -> Nat]
BY DEF Fault, TypeOK

LEMMA NotNoJob == \A d \in Details : d # NoJob
BY TriggerAssumption

LEMMA CurrentType ==
    ASSUME TypeOK, Pending
    PROVE  /\ offset \in Nat
           /\ offset + 1 \in 1 .. Len(topic)
           /\ Current \in Command
           /\ Current.pr \in PRs
<1>1. offset \in Nat /\ offset + 1 \in 1 .. Len(topic)
  BY DEF TypeOK, Pending
<1>2. Current \in Command
  BY <1>1 DEF TypeOK, Current
<1>3. QED
  BY <1>1, <1>2 DEF Command

LEMMA CommandIDType ==
    ASSUME TypeOK, exec # NoJob
    PROVE  commandID \in TaskIDs /\ exec.commit.spec \in Nat
<1>1. Pending /\ exec \in Details /\ exec.sha \in Nat /\ exec.commit.spec \in Nat
  BY DEF TypeOK, Pending, Details, Sha, Commit
<1>2. Nonce \in Nat
  BY DEF TypeOK, Nonce
<1>3. QED
  BY <1>1, <1>2, CurrentType
  DEF commandID, DeriveTaskID, DeriveTaskIDForce, TaskIDs, QueuedKey, NoNonce

LEMMA CreateTaskType ==
    ASSUME ControllerTypeOK, NEW id \in TaskIDs, NEW spec \in Nat,
           CreateTask(id, spec)
    PROVE  ControllerTypeOK'
BY DEF ControllerTypeOK, CreateTask

LEMMA DoneType ==
    ASSUME TypeOK, Pending, Done, topic' = topic
    PROVE  /\ offset' \in 0 .. Len(topic')
           /\ exec' \in Details \cup {NoJob}
           /\ exec' # NoJob => offset' < Len(topic')
BY DEF TypeOK, Pending, Done

LEMMA InitType == Init => TypeOK
BY GitHubInitType, TriggerAssumption
DEF Init, ControllerInit, ControllerTypeOK, TypeOK

LEMMA RequestType ==
    ASSUME TypeOK, NEW c \in Requests, Request(c)
    PROVE  TypeOK'
<1>1. c \in Command
  BY TriggerAssumption
<1>2. topic' \in Seq(Command) /\ Len(topic') = Len(topic) + 1 /\ Len(topic) \in Nat
  BY <1>1 DEF TypeOK, Request
<1>3. offset' \in 0 .. Len(topic') /\ served' \subseteq 1 .. Len(topic')
  BY <1>2 DEF TypeOK, Request
<1>4. exec' # NoJob => offset' < Len(topic')
  BY <1>2 DEF TypeOK, Request
<1>5. QED
  BY <1>2, <1>3, <1>4
  DEF TypeOK, Request, githubVars, GitHubTypeOK, ControllerTypeOK

LEMMA SkipType ==
    ASSUME TypeOK, SkipInvalid \/ SkipNonCandidate
    PROVE  TypeOK'
<1>1. Pending
  BY DEF SkipInvalid, SkipNonCandidate, Pending, TypeOK
<1>2. Done /\ UNCHANGED <<githubVars, runs, topic, now, served, triggerBudget>>
  BY DEF SkipInvalid, SkipNonCandidate
<1>3. QED
  BY <1>1, <1>2, DoneType DEF TypeOK, githubVars, GitHubTypeOK, ControllerTypeOK

LEMMA ReadDetailsType ==
    ASSUME TypeOK, ReadDetails
    PROVE  TypeOK'
<1>1. exec' \in Details
  BY CurrentType, GitHubReadsTyped DEF TypeOK, ReadDetails
<1>2. QED
  BY <1>1 DEF TypeOK, ReadDetails, Pending, githubVars, GitHubTypeOK, ControllerTypeOK

LEMMA FaultsType ==
    ASSUME TypeOK, ReadFails \/ Restart
    PROVE  TypeOK'
<1>1. triggerBudget' \in [TriggerFaultKinds -> Nat]
  BY FaultType DEF ReadFails, Restart, TriggerFaultKinds
<1>2. offset' \in 0 .. Len(topic) /\ exec' = NoJob
  BY DEF ReadFails, Restart, InitialOffset, TypeOK
<1>3. QED
  BY <1>1, <1>2
  DEF ReadFails, Restart, TypeOK, githubVars, GitHubTypeOK, ControllerTypeOK

LEMMA ClockType ==
    ASSUME TypeOK, ClockFallsBack
    PROVE  TypeOK'
<1>1. triggerBudget' \in [TriggerFaultKinds -> Nat]
  BY FaultType DEF ClockFallsBack, TriggerFaultKinds
<1>2. now' \in Nat
  BY DEF ClockFallsBack, TypeOK
<1>3. QED
  BY <1>1, <1>2 DEF ClockFallsBack, TypeOK, githubVars, GitHubTypeOK, ControllerTypeOK

LEMMA SendType ==
    ASSUME TypeOK, Send
    PROVE  TypeOK'
<1>1. exec # NoJob /\ Pending
  BY DEF Send, TypeOK, Pending
<1>2. ControllerTypeOK'
  BY <1>1, CommandIDType, CreateTaskType DEF Send, TypeOK
<1>3. now' \in Nat /\ served' \subseteq 1 .. Len(topic')
  BY <1>1, CurrentType DEF Send, TypeOK, Nonce
<1>4. QED
  BY <1>1, <1>2, <1>3, DoneType DEF Send, TypeOK, githubVars, GitHubTypeOK

LEMMA SendFailsType ==
    ASSUME TypeOK, SendFails
    PROVE  TypeOK'
<1>1. ControllerTypeOK'
  BY CommandIDType, CreateTaskType DEF SendFails, TypeOK, ControllerTypeOK
<1>2. now' \in Nat
  BY DEF SendFails, TypeOK, Nonce
<1>3. triggerBudget' \in [TriggerFaultKinds -> Nat]
  BY FaultType DEF SendFails, TriggerFaultKinds
<1>4. QED
  BY <1>1, <1>2, <1>3 DEF SendFails, TypeOK, githubVars, GitHubTypeOK

LEMMA NextType == TypeOK /\ [Next]_vars => TypeOK'
<1> SUFFICES ASSUME TypeOK, [Next]_vars PROVE TypeOK'
  OBVIOUS
<1>1. CASE World
  BY <1>1, GitHubTypeCorrect DEF World, triggerVars, TypeOK, ControllerTypeOK
<1>2. CASE UNCHANGED vars
  BY <1>2 DEF vars, triggerVars, githubVars, TypeOK, GitHubTypeOK, ControllerTypeOK
<1>3. QED
  BY <1>1, <1>2, RequestType, SkipType, ReadDetailsType, FaultsType, ClockType,
     SendType, SendFailsType
  DEF Next, ExecStep

\* In every behaviour of the consumer all variables keep their types, and the
\* offset stays inside the topic.
THEOREM TypeCorrect == Spec => []TypeOK
BY InitType, NextType, PTL DEF Spec

(***************************************************************************)
(* Forced commands have their runs.  The next reading of the clock gives   *)
(* an identifier the controller has seen only if a forced run has a nonce  *)
(* ahead of the clock.  Every such nonce stands for a microsecond the      *)
(* clock fell back; the reading that repeats it uses it up.                *)
(***************************************************************************)

Ahead(p) == {n \in Nat : n > now /\ \E r \in ForcedRuns(p) : r.id.nonce = n}

\* A nonce ahead of the clock is a run that a command to come may lose.
ForcedInv ==
    /\ IsFiniteSet(runs)
    /\ \A p \in PRs :
          Cardinality(ForcedServed(p)) + Cardinality(Ahead(p))
             <= Cardinality(ForcedRuns(p)) + ClockLosses

LEMMA ForcedServedFinite ==
    ASSUME TypeOK, NEW p \in PRs
    PROVE  IsFiniteSet(ForcedServed(p)) /\ Cardinality(ForcedServed(p)) \in Nat
<1>1. Len(topic) \in Nat
  BY DEF TypeOK
<1>2. IsFiniteSet(1 .. Len(topic))
  BY <1>1, FS_Interval
<1>3. ForcedServed(p) \in SUBSET (1 .. Len(topic))
  BY DEF ForcedServed, TypeOK
<1>4. IsFiniteSet(ForcedServed(p))
  BY <1>2, <1>3, FS_Subset
<1>5. QED
  BY <1>4, FS_CardinalityType

LEMMA ForcedRunsFinite ==
    ASSUME IsFiniteSet(runs), NEW p \in PRs
    PROVE  IsFiniteSet(ForcedRuns(p)) /\ Cardinality(ForcedRuns(p)) \in Nat
<1>1. ForcedRuns(p) \in SUBSET runs
  BY DEF ForcedRuns
<1>2. IsFiniteSet(ForcedRuns(p))
  BY <1>1, FS_Subset
<1>3. QED
  BY <1>2, FS_CardinalityType

LEMMA NoncesFinite ==
    ASSUME NEW S, IsFiniteSet(S), NEW N, \A n \in N : \E q \in S : q.id.nonce = n
    PROVE  IsFiniteSet(N) /\ Cardinality(N) \in Nat
<1> DEFINE T == {q \in S : q.id.nonce \in N}
           f == [q \in T |-> q.id.nonce]
<1>1. IsFiniteSet(T)
  BY FS_Subset, T \in SUBSET S
<1>2. f \in Surjection(T, N)
  BY DEF Surjection
<1>3. IsFiniteSet(N)
  BY <1>1, <1>2, FS_Surjection
<1>4. QED
  BY <1>3, FS_CardinalityType

\* The nonces ahead of the clock are among those of the forced runs.
LEMMA AheadFinite ==
    ASSUME IsFiniteSet(runs), NEW p \in PRs
    PROVE  IsFiniteSet(Ahead(p)) /\ Cardinality(Ahead(p)) \in Nat
<1>1. \A n \in Ahead(p) : \E q \in ForcedRuns(p) : q.id.nonce = n
  BY DEF Ahead
<1>2. QED
  BY <1>1, ForcedRunsFinite, NoncesFinite

LEMMA LossesType == TypeOK => ClockLosses \in Int
BY TriggerAssumption DEF TypeOK, ClockLosses, TriggerFaultKinds

\* A fault of another kind does not move the clock.
LEMMA ClockOnlyLoss ==
    ASSUME TypeOK, \/ UNCHANGED triggerBudget
                   \/ \E kind \in TriggerFaultKinds \ {"clock"} : Fault(kind)
    PROVE  ClockLosses' = ClockLosses
BY DEF ClockLosses, Fault, TypeOK, TriggerFaultKinds

LEMMA InitForced == Init => ForcedInv
<1> SUFFICES ASSUME Init PROVE ForcedInv
  OBVIOUS
<1>1. runs = {} /\ served = {} /\ triggerBudget = TriggerFaults
  BY DEF Init, ControllerInit
<1>2. \A p \in PRs : ForcedRuns(p) = {} /\ ForcedServed(p) = {} /\ Ahead(p) = {}
  BY <1>1 DEF ForcedRuns, ForcedServed, Ahead
<1>3. ClockLosses = 0
  BY <1>1, TriggerAssumption DEF ClockLosses, TriggerFaultKinds
<1>4. QED
  BY <1>1, <1>2, <1>3, FS_EmptySet DEF ForcedInv

\* What reading the clock, and creating a task or none with what was read, does
\* to the forced runs and to the nonces ahead of the clock.
LEMMA ReadingStep ==
    ASSUME TypeOK, IsFiniteSet(runs), exec # NoJob,
           \/ UNCHANGED runs
           \/ CreateTask(commandID, exec.commit.spec),
           now' = IF Current.force THEN Nonce ELSE now,
           NEW p \in PRs
    PROVE  /\ IsFiniteSet(runs')
           /\ Cardinality(ForcedRuns(p)') \in Nat /\ Cardinality(Ahead(p)') \in Nat
           /\ Cardinality(ForcedRuns(p)') >= Cardinality(ForcedRuns(p))
           /\ Cardinality(Ahead(p)') <= Cardinality(Ahead(p))
<1> DEFINE r == [id |-> commandID, spec |-> exec.commit.spec]
<1>1. /\ Pending /\ commandID \in TaskIDs /\ now \in Nat
      /\ \A q \in runs : q.id \in TaskIDs /\ q.id.nonce \in Nat
  BY CommandIDType DEF TypeOK, Pending, ControllerTypeOK, TaskIDs
<1>2. commandID.nonce = IF Current.force THEN now + 1 ELSE 0
  BY <1>1 DEF commandID, DeriveTaskID, DeriveTaskIDForce, Nonce, NoNonce
<1>3. runs' = runs \/ runs' = runs \cup {r}
  BY DEF CreateTask
<1>4. IsFiniteSet(runs')
  BY <1>3, FS_AddElement
<1>5. ForcedRuns(p)' = {q \in runs' : q.id.pr = p /\ q.id.nonce # NoNonce}
  BY DEF ForcedRuns
<1>6. /\ IsFiniteSet(ForcedRuns(p)')
      /\ Cardinality(ForcedRuns(p)') \in Nat
      /\ Cardinality(ForcedRuns(p)') >= Cardinality(ForcedRuns(p))
  <2>1. ForcedRuns(p)' \in SUBSET runs'
    BY <1>5
  <2>2. IsFiniteSet(ForcedRuns(p)')
    BY <1>4, <2>1, FS_Subset
  <2>3. ForcedRuns(p) \in SUBSET (ForcedRuns(p)')
    BY <1>3, <1>5 DEF ForcedRuns
  <2>4. /\ Cardinality(ForcedRuns(p)) <= Cardinality(ForcedRuns(p)')
        /\ Cardinality(ForcedRuns(p)) \in Nat /\ Cardinality(ForcedRuns(p)') \in Nat
    BY <2>2, <2>3, FS_Subset, FS_CardinalityType, ForcedRunsFinite
  <2>5. QED
    BY <2>2, <2>4
<1>7. Cardinality(Ahead(p)') \in Nat /\ Cardinality(Ahead(p)') <= Cardinality(Ahead(p))
  <2>1. now' \in Nat /\ now <= now' /\ (r.id.nonce <= now' \/ r.id.nonce = NoNonce)
    BY <1>1, <1>2 DEF Nonce
  <2>2. ASSUME NEW n \in Ahead(p)' PROVE n \in Ahead(p)
    <3>1. /\ n \in Nat /\ n > now'
          /\ \E q \in ForcedRuns(p)' : q.id.nonce = n
      BY <2>2 DEF Ahead
    <3>2. PICK q \in ForcedRuns(p)' : q.id.nonce = n
      BY <3>1
    <3>3. q \in runs' /\ q.id.pr = p /\ q.id.nonce # NoNonce
      BY <1>5, <3>2
    <3>4. q \in runs
      BY <1>3, <2>1, <3>1, <3>2, <3>3
    <3>5. q \in ForcedRuns(p) /\ n > now
      BY <1>1, <2>1, <3>1, <3>3, <3>4 DEF ForcedRuns
    <3>6. QED
      BY <3>1, <3>2, <3>5 DEF Ahead
  <2>3. Ahead(p)' \in SUBSET Ahead(p)
    BY <2>2
  <2>4. /\ IsFiniteSet(Ahead(p)')
        /\ Cardinality(Ahead(p)') <= Cardinality(Ahead(p))
    BY <2>3, AheadFinite, FS_Subset
  <2>5. QED
    BY <2>4, FS_CardinalityType
<1>8. QED
  BY <1>4, <1>6, <1>7

\* A forced command that is sent adds a run, or uses up a nonce that was ahead.
LEMMA ForcedSendCounts ==
    ASSUME TypeOK, IsFiniteSet(runs), exec # NoJob,
           CreateTask(commandID, exec.commit.spec),
           Current.force, now' = Nonce, NEW p \in PRs, p = Current.pr
    PROVE  Cardinality(ForcedRuns(p)) + Cardinality(Ahead(p)') + 1
              <= Cardinality(ForcedRuns(p)') + Cardinality(Ahead(p))
<1> DEFINE r == [id |-> commandID, spec |-> exec.commit.spec]
           f0 == Cardinality(ForcedRuns(p))
           f1 == Cardinality(ForcedRuns(p)')
           a0 == Cardinality(Ahead(p))
           a1 == Cardinality(Ahead(p)')
<1>1. now \in Nat /\ now' = now + 1 /\ (\A q \in runs : q.id.nonce \in Nat)
  BY DEF TypeOK, Nonce, ControllerTypeOK, TaskIDs
<1>2. f1 \in Nat /\ a1 \in Nat /\ f1 >= f0 /\ a1 <= a0
  BY ReadingStep
<1>3. f0 \in Nat /\ a0 \in Nat /\ IsFiniteSet(ForcedRuns(p)) /\ IsFiniteSet(Ahead(p))
  BY ForcedRunsFinite, AheadFinite
<1>4. ForcedRuns(p)' = {q \in runs' : q.id.pr = p /\ q.id.nonce # NoNonce}
  BY DEF ForcedRuns
<1>5. commandID.pr = p /\ commandID.nonce = now + 1 /\ commandID.nonce # NoNonce
  BY <1>1 DEF commandID, DeriveTaskIDForce, Nonce, NoNonce
<1>6. CASE commandID \in Created
  <2>1. runs' = runs
    BY <1>6 DEF CreateTask
  <2>2. PICK q \in runs : q.id = commandID
    BY <1>6 DEF Created
  <2>3. q \in ForcedRuns(p) /\ q.id.nonce = now + 1
    BY <1>5, <2>2 DEF ForcedRuns
  <2>4. now + 1 \in Ahead(p)
    BY <1>1, <2>3 DEF Ahead
  <2>5. Ahead(p)' \in SUBSET (Ahead(p) \ {now + 1})
    <3>1. ForcedRuns(p)' = ForcedRuns(p)
      BY <1>4, <2>1 DEF ForcedRuns
    <3>2. Ahead(p)' = {n \in Nat : n > now + 1 /\ \E s \in ForcedRuns(p) : s.id.nonce = n}
      BY <1>1, <3>1 DEF Ahead
    <3>3. QED
      BY <1>1, <3>2 DEF Ahead
  <2>6. /\ IsFiniteSet(Ahead(p) \ {now + 1})
        /\ Cardinality(Ahead(p) \ {now + 1}) = a0 - 1
    BY <1>3, <2>4, FS_RemoveElement
  <2>7. a1 <= a0 - 1 /\ a1 \in Nat
    BY <1>3, <2>5, <2>6, FS_Subset, FS_CardinalityType
  <2>8. QED
    BY <1>2, <1>3, <2>7
<1>7. CASE commandID \notin Created
  <2>1. runs' = runs \cup {r} /\ r \notin runs
    BY <1>7 DEF CreateTask, Created
  <2>2. ForcedRuns(p)' = ForcedRuns(p) \cup {r} /\ r \notin ForcedRuns(p)
    BY <1>4, <1>5, <2>1 DEF ForcedRuns
  <2>3. f1 = f0 + 1
    BY <1>3, <2>2, FS_AddElement
  <2>4. QED
    BY <1>2, <1>3, <2>3
<1>8. QED
  BY <1>6, <1>7

\* A step that sends nothing leaves the forced commands as they were, also if
\* it puts another command on the topic.
LEMMA QuietStep ==
    ASSUME TypeOK, ForcedInv, UNCHANGED <<runs, now, served>>,
           \/ UNCHANGED triggerBudget
           \/ \E kind \in TriggerFaultKinds \ {"clock"} : Fault(kind),
           topic' = topic \/ \E c \in Requests : topic' = Append(topic, c)
    PROVE  ForcedInv'
<1>1. \A i \in served : topic'[i] = topic[i]
  <2>1. CASE topic' = topic
    BY <2>1
  <2>2. ASSUME NEW c \in Requests, topic' = Append(topic, c)
        PROVE  \A i \in served : topic'[i] = topic[i]
    <3>1. c \in Command /\ topic \in Seq(Command) /\ served \subseteq 1 .. Len(topic)
      BY TriggerAssumption DEF TypeOK
    <3>2. QED
      BY <2>2, <3>1
  <2>3. QED
    BY <2>1, <2>2
<1>2. \A p \in PRs : /\ ForcedServed(p)' = ForcedServed(p)
                     /\ ForcedRuns(p)' = ForcedRuns(p)
                     /\ Ahead(p)' = Ahead(p)
  BY <1>1 DEF ForcedServed, ForcedRuns, Ahead
<1>3. ClockLosses' = ClockLosses
  BY ClockOnlyLoss
<1>4. QED
  BY <1>2, <1>3 DEF ForcedInv

\* A microsecond the clock falls back puts one nonce ahead of it.
LEMMA ClockForced ==
    ASSUME TypeOK, ForcedInv, ClockFallsBack
    PROVE  ForcedInv'
<1>1. /\ now \in Nat /\ now > 0 /\ now' = now - 1
      /\ runs' = runs /\ served' = served /\ topic' = topic
  BY DEF ClockFallsBack, TypeOK
<1>2. ClockLosses' = ClockLosses + 1 /\ ClockLosses \in Int
  BY LossesType, TriggerAssumption
  DEF ClockFallsBack, Fault, TypeOK, ClockLosses, TriggerFaultKinds
<1>3. ASSUME NEW p \in PRs
      PROVE  Cardinality(ForcedServed(p)') + Cardinality(Ahead(p)')
                <= Cardinality(ForcedRuns(p)') + ClockLosses'
  <2>1. ForcedServed(p)' = ForcedServed(p) /\ ForcedRuns(p)' = ForcedRuns(p)
    BY <1>1 DEF ForcedServed, ForcedRuns
  <2>2. Ahead(p)' = {n \in Nat : n > now - 1 /\ \E r \in ForcedRuns(p) : r.id.nonce = n}
    BY <1>1, <2>1 DEF Ahead
  <2>3. Ahead(p)' \in SUBSET (Ahead(p) \cup {now})
    BY <1>1, <2>2 DEF Ahead
  <2>4. IsFiniteSet(Ahead(p)) /\ Cardinality(Ahead(p)) \in Nat
    BY AheadFinite DEF ForcedInv
  <2>5. /\ IsFiniteSet(Ahead(p) \cup {now})
        /\ Cardinality(Ahead(p) \cup {now}) \in Nat
        /\ Cardinality(Ahead(p) \cup {now}) <= Cardinality(Ahead(p)) + 1
    <3>1. /\ IsFiniteSet(Ahead(p) \cup {now})
          /\ Cardinality(Ahead(p) \cup {now})
                \in {Cardinality(Ahead(p)), Cardinality(Ahead(p)) + 1}
      BY <2>4, FS_AddElement
    <3>2. QED
      BY <2>4, <3>1
  <2>6. Cardinality(Ahead(p)') \in Nat /\ Cardinality(Ahead(p)') <= Cardinality(Ahead(p)) + 1
    <3>1. /\ Cardinality(Ahead(p)') \in Nat
          /\ Cardinality(Ahead(p)') <= Cardinality(Ahead(p) \cup {now})
      BY <2>3, <2>5, FS_Subset, FS_CardinalityType
    <3>2. QED
      BY <2>4, <2>5, <3>1
  <2>7. Cardinality(ForcedServed(p)) \in Nat /\ Cardinality(ForcedRuns(p)) \in Nat
    BY ForcedServedFinite, ForcedRunsFinite DEF ForcedInv
  <2>8. Cardinality(ForcedServed(p)) + Cardinality(Ahead(p))
           <= Cardinality(ForcedRuns(p)) + ClockLosses
    BY DEF ForcedInv
  <2>9. QED
    BY <1>2, <2>1, <2>4, <2>6, <2>7, <2>8
<1>4. QED
  BY <1>1, <1>3 DEF ForcedInv

LEMMA SendForced ==
    ASSUME TypeOK, ForcedInv, Send
    PROVE  ForcedInv'
<1>1. /\ exec # NoJob /\ Pending /\ topic' = topic
      /\ CreateTask(commandID, exec.commit.spec)
      /\ now' = IF Current.force THEN Nonce ELSE now
      /\ served' = served \cup {offset + 1}
      /\ UNCHANGED triggerBudget
  BY DEF Send, TypeOK, Pending
<1>2. IsFiniteSet(runs) /\ IsFiniteSet(runs')
  <2>1. PRs # {}
    BY <1>1, CurrentType
  <2>2. QED
    BY <1>1, <2>1, ReadingStep DEF ForcedInv
<1>3. ClockLosses' = ClockLosses /\ ClockLosses \in Int
  BY <1>1, ClockOnlyLoss, LossesType
<1>4. ASSUME NEW p \in PRs
      PROVE  Cardinality(ForcedServed(p)') + Cardinality(Ahead(p)')
                <= Cardinality(ForcedRuns(p)') + ClockLosses'
  <2> DEFINE s0 == Cardinality(ForcedServed(p))
             s1 == Cardinality(ForcedServed(p)')
             f0 == Cardinality(ForcedRuns(p))
             f1 == Cardinality(ForcedRuns(p)')
             a0 == Cardinality(Ahead(p))
             a1 == Cardinality(Ahead(p)')
  <2>1. ForcedServed(p)' = {i \in served' : topic[i].pr = p /\ topic[i].force}
    BY <1>1 DEF ForcedServed
  <2>2. s0 \in Nat /\ f0 \in Nat /\ a0 \in Nat /\ IsFiniteSet(ForcedServed(p))
    BY <1>2, ForcedServedFinite, ForcedRunsFinite, AheadFinite
  <2>3. f1 \in Nat /\ a1 \in Nat
    BY <1>1, <1>2, ReadingStep
  <2>4. s0 + a0 <= f0 + ClockLosses
    BY DEF ForcedInv
  <2>5. CASE Current.force /\ p = Current.pr
    <3>1. ForcedServed(p)' = ForcedServed(p) \cup {offset + 1}
      BY <1>1, <2>1, <2>5 DEF ForcedServed, Current
    <3>2. s1 \in {s0, s0 + 1}
      BY <2>2, <3>1, FS_AddElement
    <3>3. f0 + a1 + 1 <= f1 + a0
      BY <1>1, <1>2, <2>5, ForcedSendCounts
    <3>4. QED
      BY <1>3, <2>2, <2>3, <2>4, <3>2, <3>3
  <2>6. CASE ~(Current.force /\ p = Current.pr)
    <3>1. ForcedServed(p)' = ForcedServed(p)
      BY <1>1, <2>1, <2>6 DEF ForcedServed, Current
    <3>2. f1 >= f0 /\ a1 <= a0
      BY <1>1, <1>2, ReadingStep
    <3>3. QED
      BY <1>3, <2>2, <2>3, <2>4, <3>1, <3>2
  <2>7. QED
    BY <2>5, <2>6
<1>5. QED
  BY <1>2, <1>4 DEF ForcedInv

LEMMA SendFailsForced ==
    ASSUME TypeOK, ForcedInv, SendFails
    PROVE  ForcedInv'
<1>1. /\ exec # NoJob /\ Pending /\ topic' = topic /\ served' = served
      /\ now' = IF Current.force THEN Nonce ELSE now
      /\ UNCHANGED runs \/ CreateTask(commandID, exec.commit.spec)
      /\ \E kind \in TriggerFaultKinds \ {"clock"} : Fault(kind)
  BY DEF SendFails, TypeOK, Pending, TriggerFaultKinds
<1>2. IsFiniteSet(runs) /\ IsFiniteSet(runs')
  <2>1. PRs # {}
    BY <1>1, CurrentType
  <2>2. QED
    BY <1>1, <2>1, ReadingStep DEF ForcedInv
<1>3. ClockLosses' = ClockLosses /\ ClockLosses \in Int
  BY <1>1, ClockOnlyLoss, LossesType
<1>4. ASSUME NEW p \in PRs
      PROVE  Cardinality(ForcedServed(p)') + Cardinality(Ahead(p)')
                <= Cardinality(ForcedRuns(p)') + ClockLosses'
  <2>1. ForcedServed(p)' = ForcedServed(p)
    BY <1>1 DEF ForcedServed
  <2>2. /\ Cardinality(ForcedRuns(p)') >= Cardinality(ForcedRuns(p))
        /\ Cardinality(Ahead(p)') <= Cardinality(Ahead(p))
    BY <1>1, <1>2, ReadingStep
  <2>3. /\ Cardinality(ForcedServed(p)) \in Nat /\ Cardinality(ForcedRuns(p)) \in Nat
        /\ Cardinality(Ahead(p)) \in Nat
    BY <1>2, ForcedServedFinite, ForcedRunsFinite, AheadFinite
  <2>4. Cardinality(ForcedRuns(p)') \in Nat /\ Cardinality(Ahead(p)') \in Nat
    BY <1>1, <1>2, ReadingStep
  <2>5. Cardinality(ForcedServed(p)) + Cardinality(Ahead(p))
           <= Cardinality(ForcedRuns(p)) + ClockLosses
    BY DEF ForcedInv
  <2>6. QED
    BY <1>3, <2>1, <2>2, <2>3, <2>4, <2>5
<1>5. QED
  BY <1>2, <1>4 DEF ForcedInv

LEMMA NextForced == TypeOK /\ ForcedInv /\ [Next]_vars => ForcedInv'
<1> SUFFICES ASSUME TypeOK, ForcedInv, [Next]_vars PROVE ForcedInv'
  OBVIOUS
<1>1. CASE World \/ SkipInvalid \/ ReadDetails \/ SkipNonCandidate \/ UNCHANGED vars
  BY <1>1, QuietStep
  DEF World, SkipInvalid, ReadDetails, SkipNonCandidate, vars, triggerVars
<1>2. CASE ReadFails \/ Restart
  <2>1. \E kind \in TriggerFaultKinds \ {"clock"} : Fault(kind)
    BY <1>2 DEF ReadFails, Restart, TriggerFaultKinds
  <2>2. QED
    BY <1>2, <2>1, QuietStep DEF ReadFails, Restart
<1>3. CASE \E c \in Requests : Request(c)
  BY <1>3, QuietStep DEF Request
<1>4. QED
  BY <1>1, <1>2, <1>3, ClockForced, SendForced, SendFailsForced DEF Next, ExecStep

\* Whatever fails, is redelivered or replayed: a pull request has a forced run
\* for each of its forced commands that was published, but for one at most per
\* microsecond by which the clock fell back.
THEOREM ForcedCommandsAlwaysRun == Spec => []ForcedCommandsRun
<1>1. Init => TypeOK /\ ForcedInv
  BY InitType, InitForced
<1>2. TypeOK /\ ForcedInv /\ [Next]_vars => TypeOK' /\ ForcedInv'
  BY NextType, NextForced
<1>3. TypeOK /\ ForcedInv => ForcedCommandsRun
  <2> SUFFICES ASSUME TypeOK, ForcedInv, NEW p \in PRs
               PROVE  Cardinality(ForcedServed(p)) <= Cardinality(ForcedRuns(p)) + ClockLosses
    BY DEF ForcedCommandsRun
  <2>1. /\ Cardinality(ForcedServed(p)) \in Nat /\ Cardinality(Ahead(p)) \in Nat
        /\ Cardinality(ForcedRuns(p)) \in Nat /\ ClockLosses \in Int
    BY ForcedServedFinite, AheadFinite, ForcedRunsFinite, LossesType DEF ForcedInv
  <2>2. Cardinality(ForcedServed(p)) + Cardinality(Ahead(p))
           <= Cardinality(ForcedRuns(p)) + ClockLosses
    BY DEF ForcedInv
  <2>3. QED
    BY <2>1, <2>2
<1>4. QED
  BY <1>1, <1>2, <1>3, PTL DEF Spec

(***************************************************************************)
(* The offset passes no command over.                                      *)
(***************************************************************************)

\* After a command was sent there is a run for it: its own, or the one whose
\* identifier made the controller drop it.
LEMMA SentHasRun ==
    ASSUME TypeOK, exec # NoJob, CreateTask(commandID, exec.commit.spec)
    PROVE  \E r \in runs' : r.id.pr = Current.pr /\ (Current.force => r.id.nonce # NoNonce)
<1>1. /\ commandID.pr = Current.pr
      /\ Current.force => commandID.nonce # NoNonce
  BY DEF commandID, DeriveTaskID, DeriveTaskIDForce, Nonce, NoNonce, TypeOK
<1>2. CASE commandID \in Created
  <2>1. PICK r \in runs : r.id = commandID
    BY <1>2 DEF Created
  <2>2. QED
    BY <1>1, <1>2, <2>1 DEF CreateTask
<1>3. CASE commandID \notin Created
  <2> DEFINE r == [id |-> commandID, spec |-> exec.commit.spec]
  <2>1. r \in runs' /\ r.id = commandID
    BY <1>3 DEF CreateTask
  <2>2. QED
    BY <1>1, <2>1
<1>4. QED
  BY <1>2, <1>3

\* What a step passes over: the current command at most.
LEMMA PassedIsCurrent ==
    ASSUME TypeOK, offset' = offset + 1, NEW i \in offset + 1 .. offset'
    PROVE  i = offset + 1 /\ topic[i] = Current
BY DEF TypeOK, Current

\* Where the offset does not move on, nothing is passed over.
LEMMA NothingPassed ==
    ASSUME TypeOK, offset' = offset \/ offset' = 0
    PROVE  offset + 1 .. offset' = {}
BY DEF TypeOK

LEMMA StepPassesNoCommand ==
    ASSUME TypeOK, [Next]_vars, NEW i \in offset + 1 .. offset'
    PROVE  \/ ~topic[i].valid
           \/ i = offset + 1 /\ exec # NoJob /\ Verdict # Keep
           \/ i \in served' /\ RunFor(topic[i])'
<1>1. CASE SkipInvalid
  <2>1. offset' = offset + 1 /\ ~Current.valid
    BY <1>1 DEF SkipInvalid, Done
  <2>2. QED
    BY <2>1, PassedIsCurrent
<1>2. CASE SkipNonCandidate
  <2>1. offset' = offset + 1 /\ exec # NoJob /\ Verdict # Keep
    BY <1>2 DEF SkipNonCandidate, Done
  <2>2. QED
    BY <2>1, PassedIsCurrent
<1>3. CASE Send
  <2>1. /\ offset' = offset + 1 /\ exec # NoJob /\ topic' = topic
        /\ served' = served \cup {offset + 1}
        /\ CreateTask(commandID, exec.commit.spec)
    BY <1>3 DEF Send, Done
  <2>2. i = offset + 1 /\ topic[i] = Current
    BY <2>1, PassedIsCurrent
  <2>3. \E r \in runs' : r.id.pr = Current.pr /\ (Current.force => r.id.nonce # NoNonce)
    BY <2>1, SentHasRun
  <2>4. \E r \in runs' : r.id.pr = topic'[i].pr /\ (topic'[i].force => r.id.nonce # NoNonce)
    BY <2>1, <2>2, <2>3
  <2>5. QED
    BY <2>1, <2>2, <2>4 DEF RunFor
<1>4. CASE Restart
  BY <1>4, NothingPassed DEF Restart, InitialOffset
<1>5. CASE \/ World \/ ReadDetails \/ ReadFails \/ SendFails
           \/ ClockFallsBack
           \/ \E c \in Requests : Request(c)
           \/ UNCHANGED vars
  <2>1. offset' = offset
    BY <1>5
    DEF World, ReadDetails, ReadFails, SendFails, ClockFallsBack, Request, vars,
        triggerVars
  <2>2. QED
    BY <2>1, NothingPassed
<1>6. QED
  BY <1>1, <1>2, <1>3, <1>4, <1>5 DEF Next, ExecStep

\* In every process, whatever fails and wherever it ends, the offset moves past
\* a valid command only when its pull request was no candidate or has its run
\* (trigger_executor.go:29-36): this is what is safe of EveryRequestServed.
THEOREM NoCommandIsPassedOver == Spec => NoCommandPassedOver
<1>1. ASSUME TypeOK, [Next]_vars
      PROVE  \A i \in offset + 1 .. offset' :
                \/ ~topic[i].valid
                \/ i = offset + 1 /\ exec # NoJob /\ Verdict # Keep
                \/ i \in served' /\ RunFor(topic[i])'
  BY <1>1, StepPassesNoCommand
<1>2. QED
  BY <1>1, TypeCorrect, PTL DEF Spec, NoCommandPassedOver
=============================================================================
