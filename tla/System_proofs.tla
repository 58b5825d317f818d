---------------------------- MODULE System_proofs ---------------------------
(***************************************************************************)
(* The invariants of Watcher in the company of the command consumer: what  *)
(* the consumer publishes under the same identifiers never takes the task  *)
(* away from behind a cursor's entry, and a queued phase gets no run that  *)
(* nobody asked for.  And the bound on the runs of forced commands.        *)
(*                                                                         *)
(* System takes the consumer's actions from Trigger, as T; the facts about *)
(* them come from Trigger_proofs, as TP.  Both name the same formulas, and *)
(* a step expands the names where it has to see that.                      *)
(***************************************************************************)
EXTENDS System, QueuedPhase_proofs, Watermark_proofs, FiniteSetTheorems

TP == INSTANCE Trigger_proofs

\* What the facts about Trigger assume holds of the constants given to it.
LEMMA TriggerConstants == TP!GitHubAssumption /\ TP!TriggerAssumption
BY GitHubAssumption, SystemAssumption
DEF Commit, Stages, Sha, TP!GitHubAssumption, TP!TriggerAssumption, TP!Command, TP!TriggerFaultKinds, TP!Details,
    TP!Commit, TP!Sha, TP!Stages, T!Command, T!TriggerFaultKinds, T!Details,
    T!Commit, T!Sha, T!Stages

SystemTypeOK == TypeOK /\ TP!TypeOK

LEMMA SameInit == T!Init => TP!Init
BY DEF T!Init, T!GitHubInit, T!ControllerInit,
       TP!Init, TP!GitHubInit, TP!ControllerInit

LEMMA SystemInitType == SystemInit => SystemTypeOK
<1> SUFFICES ASSUME SystemInit PROVE SystemTypeOK
  OBVIOUS
<1>1. TP!TypeOK
  BY SameInit, TriggerConstants, TP!InitType
  DEF SystemInit, TP!GitHubAssumption, TP!TriggerAssumption
<1>2. QED
  BY <1>1, InitType DEF SystemInit, SystemTypeOK

\* A step of the poll's side is one of Watcher, and so is the end of the process.
LEMMA PollSideNext == PollSide => [Next]_vars
BY DEF PollSide, Next

LEMMA ProcessEndsNext == ProcessEnds => [Next]_vars
BY DEF ProcessEnds, Next

\* A step of the commands' side is one of Trigger.
LEMMA SameRequest ==
    ASSUME NEW c \in Requests, T!Request(c)
    PROVE  TP!Next
BY DEF T!Request, T!githubVars, TP!Next, TP!Request, TP!githubVars

LEMMA SameExecStep ==
    ASSUME T!ExecStep
    PROVE  TP!Next
<1>1. CASE T!SkipInvalid
  BY <1>1
  DEF T!SkipInvalid, T!Pending, T!Current, T!Done, T!githubVars, TP!Next,
      TP!ExecStep, TP!SkipInvalid, TP!Pending, TP!Current, TP!Done, TP!githubVars
<1>2. CASE T!ReadDetails
  BY <1>2
  DEF T!ReadDetails, T!Pending, T!Current, T!GetPRDetails, T!githubVars, TP!Next,
      TP!ExecStep, TP!ReadDetails, TP!Pending, TP!Current, TP!GetPRDetails,
      TP!githubVars
<1>3. T!Verdict = TP!Verdict /\ T!Keep = TP!Keep
  BY DEF T!Verdict, T!Current, T!ListPRFilesHasSpec, T!Evaluate, T!Keep,
         T!specApprovedNotCompleted, TP!Verdict, TP!Current, TP!ListPRFilesHasSpec,
         TP!Evaluate, TP!Keep, TP!specApprovedNotCompleted
<1>4. CASE T!SkipNonCandidate
  BY <1>3, <1>4
  DEF T!SkipNonCandidate, T!Done, T!githubVars, TP!Next, TP!ExecStep,
      TP!SkipNonCandidate, TP!Done, TP!githubVars
<1>5. CASE T!Send
  BY <1>3, <1>5
  DEF T!Send, T!Done, T!githubVars, T!Current, T!Nonce, T!CreateTask, T!Created,
      T!commandID, T!DeriveTaskID, T!DeriveTaskIDForce, T!QueuedKey, T!NoNonce,
      TP!Next, TP!ExecStep,
      TP!Send, TP!Done, TP!githubVars, TP!Current, TP!Nonce, TP!CreateTask,
      TP!Created, TP!commandID, TP!DeriveTaskID, TP!DeriveTaskIDForce,
      TP!QueuedKey, TP!NoNonce
<1>6. QED
  BY <1>1, <1>2, <1>4, <1>5 DEF T!ExecStep

LEMMA SameFaults ==
    ASSUME T!ReadFails \/ T!SendFails \/ T!ClockFallsBack
    PROVE  TP!Next
<1>1. CASE T!ReadFails
  BY <1>1
  DEF T!ReadFails, T!Pending, T!Current, T!EvaluateReads, T!Fault, T!githubVars,
      TP!Next, TP!ReadFails, TP!Pending, TP!Current, TP!EvaluateReads, TP!Fault,
      TP!githubVars
<1>2. T!Verdict = TP!Verdict /\ T!Keep = TP!Keep
  BY DEF T!Verdict, T!Current, T!ListPRFilesHasSpec, T!Evaluate, T!Keep,
         T!specApprovedNotCompleted, TP!Verdict, TP!Current, TP!ListPRFilesHasSpec,
         TP!Evaluate, TP!Keep, TP!specApprovedNotCompleted
<1>3. CASE T!SendFails
  BY <1>2, <1>3
  DEF T!SendFails, T!Fault, T!githubVars, T!Current, T!Nonce, T!CreateTask,
      T!Created, T!commandID, T!DeriveTaskID, T!DeriveTaskIDForce, T!QueuedKey,
      T!NoNonce, TP!Next, TP!SendFails, TP!Fault, TP!githubVars, TP!Current,
      TP!Nonce, TP!CreateTask, TP!Created, TP!commandID, TP!DeriveTaskID,
      TP!DeriveTaskIDForce, TP!QueuedKey, TP!NoNonce
<1>4. CASE T!ClockFallsBack
  BY <1>4
  DEF T!ClockFallsBack, T!Fault, T!githubVars, TP!Next, TP!ClockFallsBack, TP!Fault,
      TP!githubVars
<1>5. QED
  BY <1>1, <1>3, <1>4

LEMMA CommandSideNext ==
    ASSUME CommandSide
    PROVE  TP!Next /\ UNCHANGED watcherVars
BY SameRequest, SameExecStep, SameFaults DEF CommandSide

(***************************************************************************)
(* Type correctness of the whole process.                                  *)
(***************************************************************************)

\* The consumer's types, where GitHub and the tasks change in a typed way.
LEMMA ConsumerKeepsType ==
    ASSUME SystemTypeOK, TypeOK', topic' = topic, offset' \in 0 .. Len(topic),
           exec' = exec \/ exec' = NoJob, offset' = offset \/ exec' = NoJob,
           UNCHANGED <<now, served, triggerBudget>>
    PROVE  TP!TypeOK'
<1>1. TP!GitHubTypeOK' /\ TP!ControllerTypeOK'
  BY DEF TypeOK, GitHubTypeOK, ControllerTypeOK, PullRequest, Commit, Stages, Sha,
         TaskIDs, TP!GitHubTypeOK, TP!ControllerTypeOK, TP!PullRequest, TP!Commit,
         TP!Stages, TP!Sha, TP!TaskIDs
<1>2. QED
  BY <1>1 DEF SystemTypeOK, TP!TypeOK

LEMMA SystemNextType == SystemTypeOK /\ [SystemNext]_systemVars => SystemTypeOK'
<1> SUFFICES ASSUME SystemTypeOK, [SystemNext]_systemVars PROVE SystemTypeOK'
  OBVIOUS
<1>1. CASE PollSide
  <2>1. TypeOK'
    BY <1>1, PollSideNext, NextType DEF SystemTypeOK
  <2>2. offset' \in 0 .. Len(topic) /\ UNCHANGED consumerVars
    BY <1>1 DEF PollSide, consumerVars, SystemTypeOK, TP!TypeOK
  <2>3. QED
    BY <2>1, <2>2, ConsumerKeepsType DEF consumerVars, SystemTypeOK
<1>2. CASE ProcessEnds
  <2>1. TypeOK'
    BY <1>2, ProcessEndsNext, NextType DEF SystemTypeOK
  <2>2. /\ offset' = 0 /\ exec' = NoJob /\ offset' \in 0 .. Len(topic)
        /\ UNCHANGED <<topic, now, served, triggerBudget>>
    BY <1>2
    DEF ProcessEnds, ConsumerStarts, T!InitialOffset, SystemTypeOK, TP!TypeOK
  <2>3. QED
    BY <2>1, <2>2, ConsumerKeepsType DEF SystemTypeOK
<1>3. CASE CommandSide
  <2>1. TP!TypeOK'
    BY <1>3, CommandSideNext, TriggerConstants, TP!NextType
    DEF SystemTypeOK, TP!GitHubAssumption, TP!TriggerAssumption
  <2>2. GitHubTypeOK' /\ ControllerTypeOK'
    BY <2>1
    DEF GitHubTypeOK, ControllerTypeOK, PullRequest, Commit, Stages, Sha,
        TaskIDs, TP!TypeOK, TP!GitHubTypeOK, TP!ControllerTypeOK,
        TP!PullRequest, TP!Commit, TP!Stages, TP!Sha, TP!TaskIDs
  <2>3. TypeOK'
    BY <1>3, <2>2, CommandSideNext DEF watcherVars, TypeOK, SystemTypeOK
  <2>4. QED
    BY <2>1, <2>3 DEF SystemTypeOK
<1>4. CASE UNCHANGED systemVars
  <2>1. UNCHANGED vars /\ UNCHANGED consumerVars
    BY <1>4 DEF systemVars
  <2>2. TypeOK'
    BY <2>1, NextType DEF SystemTypeOK
  <2>3. offset' \in 0 .. Len(topic)
    BY <2>1 DEF consumerVars, SystemTypeOK, TP!TypeOK
  <2>4. QED
    BY <2>1, <2>2, <2>3, ConsumerKeepsType DEF consumerVars, SystemTypeOK
<1>5. QED
  BY <1>1, <1>2, <1>3, <1>4 DEF SystemNext

(***************************************************************************)
(* Soundness of the suppression.                                           *)
(***************************************************************************)

\* The consumer adds tasks and takes none away, and it touches no cursor.
LEMMA CommandSideSound ==
    ASSUME SystemTypeOK, SuppressionSound, CommandSide
    PROVE  SuppressionSound'
<1>1. CASE T!ExecStep \/ T!SendFails
  <2>1. Created \subseteq Created'
    BY <1>1
    DEF T!ExecStep, T!SkipInvalid, T!ReadDetails, T!SkipNonCandidate, T!Send,
        T!SendFails, T!CreateTask, Created
  <2>2. UNCHANGED watcherVars
    BY CommandSideNext
  <2>3. QED
    BY <2>1, <2>2, BackedGrows DEF SuppressionSound, watcherVars
<1>2. CASE T!ReadFails \/ T!ClockFallsBack \/ \E c \in Requests : T!Request(c)
  <2>1. Created' = Created
    BY <1>2 DEF T!ReadFails, T!ClockFallsBack, T!Request, Created
  <2>2. UNCHANGED watcherVars
    BY CommandSideNext
  <2>3. QED
    BY <2>1, <2>2 DEF SuppressionSound, watcherVars
<1>3. QED
  BY <1>1, <1>2 DEF CommandSide

LEMMA SystemNextSound ==
    SystemTypeOK /\ SuppressionSound /\ [SystemNext]_systemVars => SuppressionSound'
<1> SUFFICES ASSUME SystemTypeOK, SuppressionSound, [SystemNext]_systemVars
             PROVE  SuppressionSound'
  OBVIOUS
<1>1. CASE PollSide \/ ProcessEnds \/ UNCHANGED systemVars
  <2>1. [Next]_vars
    BY <1>1, PollSideNext, ProcessEndsNext DEF systemVars
  <2>2. QED
    BY <2>1, NextSuppressionSound DEF SystemTypeOK
<1>2. QED
  BY <1>1, CommandSideSound DEF SystemNext

\* In every behaviour of the process, with any commands on the topic: what a
\* cursor suppresses has a task behind it, whichever publisher created it.
THEOREM SystemSuppressionIsSound == SystemSpec => []SuppressionSound
<1>1. SystemInit => SystemTypeOK /\ SuppressionSound
  BY SystemInitType, InitSuppressionSound DEF SystemInit
<1>2. SystemTypeOK /\ SuppressionSound /\ [SystemNext]_systemVars
        => SystemTypeOK' /\ SuppressionSound'
  BY SystemNextType, SystemNextSound
<1>3. QED
  BY <1>1, <1>2, PTL DEF SystemSpec

(***************************************************************************)
(* The runs of forced commands.  Each is booked to a process that executed *)
(* the command before, to this process, or to an acknowledgement that was  *)
(* lost; a process that ends leaves no more than its commands behind.      *)
(***************************************************************************)

\* The processes before this one: a cancelled one has not ended yet.
Ended == Used("restart") + Used("crash") + Used("cancel")
           - (IF cancelled THEN 1 ELSE 0)

\* The forced commands this process is done with.
Executed(p) == {i \in ForcedCommands(p) : i <= offset}

Booked(p) ==
    Cardinality(T!ForcedRuns(p)) <=
        Ended * Cardinality(ForcedCommands(p)) + Cardinality(Executed(p)) + AcksLost

RunsInv ==
    /\ IsFiniteSet(runs)
    /\ exec # NoJob => topic[offset + 1].valid
    /\ Ended \in Nat
    /\ AcksLost \in Nat
    /\ \A p \in PRs : Booked(p)

LEMMA Products ==
    ASSUME NEW a \in Nat, NEW b \in Nat, NEW c \in Nat, NEW d \in Nat, a <= b, c <= d
    PROVE  a * c \in Nat /\ b * d \in Nat /\ a * c <= b * d
<1>1. PICK k \in Nat : b = a + k
  <2>1. b - a \in Nat /\ b = a + (b - a)
    OBVIOUS
  <2>2. QED
    BY <2>1
<1>2. PICK l \in Nat : d = c + l
  <2>1. d - c \in Nat /\ d = c + (d - c)
    OBVIOUS
  <2>2. QED
    BY <2>1
<1>3. b * d = a * c + a * l + k * c + k * l
  BY <1>1, <1>2
<1>4. a * c \in Nat /\ a * l \in Nat /\ k * c \in Nat /\ k * l \in Nat
  BY <1>1, <1>2
<1>5. QED
  BY <1>3, <1>4

LEMMA SumOfThree ==
    \A r, x, d, a, y, e, b \in Nat :
        r <= x + d + a /\ x <= y /\ d <= e /\ a <= b => r <= y + e + b
OBVIOUS

LEMMA SumOfThreeAndOne ==
    \A r, s, x, d, a, y, e, b \in Nat :
        r <= x + d + a /\ s <= r + 1 /\ x <= y /\ d + a + 1 <= e + b => s <= y + e + b
OBVIOUS

LEMMA SumOfTwo ==
    \A r, x, d, c, a, y, e, b \in Nat :
        r <= x + d + a /\ d <= c /\ x + c <= y /\ a <= b => r <= y + e + b
OBVIOUS

LEMMA ProductsAndMore ==
    ASSUME NEW a \in Nat, NEW b \in Nat, NEW c \in Nat, NEW d \in Nat,
           a + 1 <= b, c <= d
    PROVE  a * c + c <= b * d
<1>1. (a + 1) * c = a * c + c
  OBVIOUS
<1>2. (a + 1) * c <= b * d
  <2>1. a + 1 \in Nat
    OBVIOUS
  <2>2. QED
    BY <2>1, Products
<1>3. QED
  BY <1>1, <1>2

-----------------------------------------------------------------------------
\* What is counted is finite.
Countable ==
    \A p \in PRs :
        /\ IsFiniteSet(ForcedCommands(p)) /\ IsFiniteSet(Executed(p))
        /\ Cardinality(ForcedCommands(p)) \in Nat
        /\ Cardinality(Executed(p)) \in Nat
        /\ Cardinality(Executed(p)) <= Cardinality(ForcedCommands(p))

LEMMA CommandsCounted == SystemTypeOK => Countable
<1> SUFFICES ASSUME SystemTypeOK, NEW p \in PRs
             PROVE  /\ IsFiniteSet(ForcedCommands(p)) /\ IsFiniteSet(Executed(p))
                    /\ Cardinality(ForcedCommands(p)) \in Nat
                    /\ Cardinality(Executed(p)) \in Nat
                    /\ Cardinality(Executed(p)) <= Cardinality(ForcedCommands(p))
  BY DEF Countable
<1>1. Len(topic) \in Nat
  BY DEF SystemTypeOK, TP!TypeOK
<1>2. IsFiniteSet(1 .. Len(topic))
  BY <1>1, FS_Interval
<1>3. ForcedCommands(p) \in SUBSET (1 .. Len(topic))
  BY DEF ForcedCommands
<1>4. IsFiniteSet(ForcedCommands(p))
  BY <1>2, <1>3, FS_Subset
<1>5. Executed(p) \in SUBSET ForcedCommands(p)
  BY DEF Executed
<1>6. QED
  BY <1>4, <1>5, FS_Subset, FS_CardinalityType

LEMMA RunsCounted ==
    ASSUME IsFiniteSet(runs), NEW p \in PRs
    PROVE  IsFiniteSet(T!ForcedRuns(p)) /\ Cardinality(T!ForcedRuns(p)) \in Nat
<1>1. T!ForcedRuns(p) \in SUBSET runs
  BY DEF T!ForcedRuns
<1>2. QED
  BY <1>1, FS_Subset, FS_CardinalityType

\* A run more is a forced run more only under an identifier with a nonce.
LEMMA RunAdded ==
    ASSUME IsFiniteSet(runs), NEW r, runs' = runs \/ runs' = runs \cup {r}
    PROVE  /\ IsFiniteSet(runs')
           /\ \A p \in PRs :
                /\ Cardinality(T!ForcedRuns(p)') \in Nat
                /\ Cardinality(T!ForcedRuns(p)') <= Cardinality(T!ForcedRuns(p)) + 1
                /\ r.id.pr # p \/ r.id.nonce = NoNonce
                    => Cardinality(T!ForcedRuns(p)') = Cardinality(T!ForcedRuns(p))
<1>1. IsFiniteSet(runs')
  BY FS_AddElement
<1>2. ASSUME NEW p \in PRs
      PROVE  /\ Cardinality(T!ForcedRuns(p)') \in Nat
             /\ Cardinality(T!ForcedRuns(p)') <= Cardinality(T!ForcedRuns(p)) + 1
             /\ r.id.pr # p \/ r.id.nonce = NoNonce
                 => Cardinality(T!ForcedRuns(p)') = Cardinality(T!ForcedRuns(p))
  <2>1. T!ForcedRuns(p)' = {q \in runs' : q.id.pr = p /\ q.id.nonce # NoNonce}
    BY DEF T!ForcedRuns, T!NoNonce, NoNonce
  <2>2. T!ForcedRuns(p) = {q \in runs : q.id.pr = p /\ q.id.nonce # NoNonce}
    BY DEF T!ForcedRuns, T!NoNonce, NoNonce
  <2>3. IsFiniteSet(T!ForcedRuns(p)) /\ Cardinality(T!ForcedRuns(p)) \in Nat
    BY RunsCounted
  <2>4. CASE T!ForcedRuns(p)' = T!ForcedRuns(p)
    BY <2>3, <2>4
  <2>5. CASE T!ForcedRuns(p)' = T!ForcedRuns(p) \cup {r} /\ r.id.pr = p
                /\ r.id.nonce # NoNonce
    <3>1. Cardinality(T!ForcedRuns(p) \cup {r})
            \in {Cardinality(T!ForcedRuns(p)), Cardinality(T!ForcedRuns(p)) + 1}
      BY <2>3, FS_AddElement
    <3>2. QED
      BY <2>3, <2>5, <3>1
  <2>6. QED
    BY <2>1, <2>2, <2>4, <2>5
<1>3. QED
  BY <1>1, <1>2

LEMMA BothCounted == SystemTypeOK /\ SystemTypeOK' => Countable /\ Countable'
BY CommandsCounted, PTL

-----------------------------------------------------------------------------
(***************************************************************************)
(* The steps.                                                              *)
(***************************************************************************)

LEMMA BookedNext ==
    ASSUME SystemTypeOK, SystemTypeOK', RunsInv, NEW p \in PRs,
           Cardinality(T!ForcedRuns(p)') \in Nat,
           Ended' \in Nat, AcksLost' \in Nat, Ended <= Ended', AcksLost <= AcksLost',
           ForcedCommands(p) \subseteq ForcedCommands(p)',
           \/ /\ Cardinality(T!ForcedRuns(p)') = Cardinality(T!ForcedRuns(p))
              /\ Executed(p) \subseteq Executed(p)' \/ Ended + 1 <= Ended'
           \/ /\ Cardinality(T!ForcedRuns(p)') <= Cardinality(T!ForcedRuns(p)) + 1
              /\ \/ AcksLost' = AcksLost + 1 /\ Executed(p)' = Executed(p)
                 \/ \E i : i \notin Executed(p) /\ Executed(p)' = Executed(p) \cup {i}
    PROVE  Booked(p)'
<1>1. Countable /\ Countable'
  BY BothCounted
<1>2. /\ Cardinality(ForcedCommands(p)) \in Nat
      /\ IsFiniteSet(Executed(p)) /\ Cardinality(Executed(p)) \in Nat
      /\ Cardinality(Executed(p)) <= Cardinality(ForcedCommands(p))
      /\ IsFiniteSet(ForcedCommands(p)') /\ Cardinality(ForcedCommands(p)') \in Nat
      /\ IsFiniteSet(Executed(p)') /\ Cardinality(Executed(p)') \in Nat
  BY <1>1 DEF Countable
<1>3. Cardinality(T!ForcedRuns(p)) \in Nat
  BY RunsCounted DEF RunsInv
<1>4. Cardinality(ForcedCommands(p)) <= Cardinality(ForcedCommands(p)')
  BY <1>2, FS_Subset
<1>5. Executed(p) \subseteq Executed(p)'
        => Cardinality(Executed(p)) <= Cardinality(Executed(p)')
  BY <1>2, FS_Subset
<1>6. ASSUME NEW i, i \notin Executed(p), Executed(p)' = Executed(p) \cup {i}
      PROVE  Cardinality(Executed(p)') = Cardinality(Executed(p)) + 1
  BY <1>2, <1>6, FS_AddElement
<1>7. Ended \in Nat /\ AcksLost \in Nat /\ Booked(p)
  BY DEF RunsInv
<1>8. Cardinality(T!ForcedRuns(p)') <=
          Ended' * Cardinality(ForcedCommands(p)')
              + Cardinality(Executed(p)') + AcksLost'
  <2> DEFINE r0 == Cardinality(T!ForcedRuns(p))
             r1 == Cardinality(T!ForcedRuns(p)')
             c0 == Cardinality(ForcedCommands(p))
             c1 == Cardinality(ForcedCommands(p)')
             d0 == Cardinality(Executed(p))
             d1 == Cardinality(Executed(p)')
  <2>1. /\ r0 \in Nat /\ r1 \in Nat /\ c0 \in Nat /\ c1 \in Nat
        /\ d0 \in Nat /\ d1 \in Nat /\ c0 <= c1 /\ d0 <= c0
    BY <1>2, <1>3, <1>4
  <2>2. r0 <= Ended * c0 + d0 + AcksLost
    BY <1>7 DEF Booked
  <2>3. \/ r1 = r0 /\ d0 <= d1
        \/ r1 <= r0 + 1 /\ d0 + AcksLost + 1 <= d1 + AcksLost'
        \/ r1 = r0 /\ d0 <= c0 /\ Ended + 1 <= Ended'
    <3>1. CASE r1 = r0 /\ Executed(p) \subseteq Executed(p)'
      BY <1>5, <3>1
    <3>2. CASE r1 = r0 /\ Ended + 1 <= Ended'
      BY <2>1, <3>2
    <3>3. CASE r1 <= r0 + 1 /\ AcksLost' = AcksLost + 1 /\ Executed(p)' = Executed(p)
      BY <1>7, <2>1, <3>3
    <3>4. CASE r1 <= r0 + 1 /\ \E i : i \notin Executed(p) /\ Executed(p)' = Executed(p) \cup {i}
      <4>1. d1 = d0 + 1
        BY <1>6, <3>4
      <4>2. QED
        BY <1>7, <2>1, <3>4, <4>1
    <3>5. QED
      BY <3>1, <3>2, <3>3, <3>4
  <2> HIDE DEF r0, r1, c0, c1, d0, d1
  <2> DEFINE x0 == Ended * c0
             x1 == Ended' * c1
  <2>4. x0 \in Nat /\ x1 \in Nat /\ x0 <= x1
    BY <1>7, <2>1, Products
  <2>5. Ended + 1 <= Ended' => x0 + c0 <= x1
    BY <1>7, <2>1, ProductsAndMore
  <2> HIDE DEF x0, x1
  <2>6. r0 <= x0 + d0 + AcksLost
    BY <2>2 DEF x0
  <2>7. r1 <= x1 + d1 + AcksLost'
    <3>1. AcksLost \in Nat /\ AcksLost' \in Nat /\ AcksLost <= AcksLost'
      BY <1>7
    <3>2. CASE r1 = r0 /\ d0 <= d1
      BY <2>1, <2>4, <2>6, <3>1, <3>2, SumOfThree
    <3>3. CASE r1 <= r0 + 1 /\ d0 + AcksLost + 1 <= d1 + AcksLost'
      BY <2>1, <2>4, <2>6, <3>1, <3>3, SumOfThreeAndOne
    <3>4. CASE r1 = r0 /\ d0 <= c0 /\ Ended + 1 <= Ended'
      BY <2>1, <2>4, <2>5, <2>6, <3>1, <3>4, SumOfTwo
    <3>5. QED
      BY <2>3, <3>2, <3>3, <3>4
  <2>8. QED
    BY <2>7 DEF r1, c1, d1, x1
<1>9. QED
  BY <1>8 DEF Booked

\* The poll's runs have no nonce.
LEMMA PollRuns ==
    ASSUME [Next]_vars
    PROVE  \E r : r.id.nonce = NoNonce /\ (runs' = runs \/ runs' = runs \cup {r})
<1>1. ASSUME NEW j, SendCommand(j)
      PROVE  \E r : r.id.nonce = NoNonce /\ (runs' = runs \/ runs' = runs \cup {r})
  <2> DEFINE r == [id |-> taskID(j.hit.pr, j.details), spec |-> j.details.commit.spec]
  <2>1. r.id.nonce = NoNonce
    BY DEF taskID, DeriveTaskID
  <2>2. QED
    BY <1>1, <2>1 DEF SendCommand, CreateTask
<1>2. ASSUME runs' = runs
      PROVE  \E r : r.id.nonce = NoNonce /\ (runs' = runs \/ runs' = runs \cup {r})
  <2> DEFINE r == [id |-> [nonce |-> NoNonce]]
  <2>1. r.id.nonce = NoNonce
    OBVIOUS
  <2>2. QED
    BY <1>2, <2>1
<1>3. runs' = runs \/ \E j : SendCommand(j)
  BY DEF Next, World, PollStep, FaultStep, BeginPoll, Search, SkipOutOfScope, ReadDetails,
         SkipPR, Suppress, Publish, Save, SearchMisses, AbortSearch, DetailsFail,
         EvaluateFails, PublishFails, SaveFails, Cancel, Exit, Crash, Restart,
         StartProcess, vars
<1>4. QED
  BY <1>1, <1>2, <1>3

LEMMA FaultUses ==
    ASSUME TypeOK, NEW kind \in FaultKinds, Fault(kind)
    PROVE  \A k \in FaultKinds :
              /\ Used(k) \in Int
              /\ Used(k)' = IF k = kind THEN Used(k) + 1 ELSE Used(k)
<1>1. budget \in [FaultKinds -> Nat] /\ FaultBudget \in [FaultKinds -> Nat]
  BY WatcherAssumption DEF TypeOK
<1>2. budget' = [budget EXCEPT ![kind] = budget[kind] - 1]
  BY DEF Fault
<1>3. ASSUME NEW k \in FaultKinds
      PROVE  /\ Used(k) \in Int
             /\ Used(k)' = IF k = kind THEN Used(k) + 1 ELSE Used(k)
  <2>1. /\ budget[k] \in Nat /\ FaultBudget[k] \in Nat
        /\ budget'[k] = IF k = kind THEN budget[k] - 1 ELSE budget[k]
    BY <1>1, <1>2
  <2>2. Used(k) = FaultBudget[k] - budget[k] /\ Used(k)' = FaultBudget[k] - budget'[k]
    BY DEF Used
  <2>3. QED
    BY <2>1, <2>2
<1>4. QED
  BY <1>3

LEMMA PollSideEnded ==
    ASSUME SystemTypeOK, Ended \in Nat, PollSide \/ UNCHANGED systemVars
    PROVE  Ended' = Ended
<1>1. TypeOK
  BY DEF SystemTypeOK
<1>2. ASSUME cancelled' = cancelled,
             \/ budget' = budget
             \/ \E k \in FaultKinds \ {"restart", "crash", "cancel"} : Fault(k)
      PROVE  Ended' = Ended
  <2>1. \A k \in {"restart", "crash", "cancel"} : Used(k)' = Used(k)
    <3>1. CASE budget' = budget
      BY <3>1 DEF Used
    <3>2. CASE \E k \in FaultKinds \ {"restart", "crash", "cancel"} : Fault(k)
      BY <1>1, <3>2, FaultUses DEF FaultKinds
    <3>3. QED
      BY <1>2, <3>1, <3>2
  <2>2. QED
    BY <1>2, <2>1 DEF Ended
<1>3. CASE Cancel
  <2>1. /\ cancelled = FALSE /\ cancelled' = TRUE
        /\ Used("restart")' = Used("restart") /\ Used("crash")' = Used("crash")
        /\ Used("cancel")' = Used("cancel") + 1
    BY <1>1, <1>3, FaultUses DEF Cancel, FaultKinds, TypeOK
  <2>2. \A k \in FaultKinds : Used(k) \in Int
    BY <1>1, <1>3, FaultUses DEF Cancel, FaultKinds
  <2>3. Used("restart") \in Int /\ Used("crash") \in Int /\ Used("cancel") \in Int
    BY <2>2 DEF FaultKinds
  <2>4. QED
    BY <2>1, <2>3 DEF Ended
<1>4. CASE World \/ UNCHANGED systemVars
  BY <1>2, <1>4 DEF World, watcherVars, systemVars, vars
<1>5. ASSUME NEW w \in Pollers, PollStep(w) PROVE Ended' = Ended
  BY <1>2, <1>5
  DEF PollStep, BeginPoll, Search, SkipOutOfScope, ReadDetails, SkipPR, Suppress,
      Publish, Save
<1>6. ASSUME NEW w \in Pollers, FaultStep(w) PROVE Ended' = Ended
  <2>1. /\ cancelled' = cancelled
        /\ \/ budget' = budget
           \/ \E k \in {"index", "search", "read", "send", "ack", "save", "tear"} :
                 Fault(k)
    BY <1>6
    DEF FaultStep, SearchMisses, AbortSearch, DetailsFail, EvaluateFails, PublishFails,
        SaveFails, SaveIsLost, SaveTears
  <2>2. QED
    BY <1>2, <2>1 DEF FaultKinds
<1>7. QED
  BY <1>3, <1>4, <1>5, <1>6 DEF PollSide

LEMMA ProcessEndsEnded ==
    ASSUME SystemTypeOK, Ended \in Nat, ProcessEnds
    PROVE  Ended' \in Nat /\ Ended + 1 <= Ended'
<1>1. TypeOK /\ cancelled \in BOOLEAN
  BY DEF SystemTypeOK, TypeOK
<1>2. \A k \in FaultKinds : Used(k) \in Int
  BY <1>1, WatcherAssumption DEF TypeOK, Used
<1>3. Used("restart") \in Int /\ Used("crash") \in Int /\ Used("cancel") \in Int
  BY <1>2 DEF FaultKinds
<1>4. cancelled' = FALSE
  BY DEF ProcessEnds, Exit, Crash, Restart, StartProcess
<1>5. CASE Exit
  <2>1. cancelled = TRUE /\ \A k \in FaultKinds : Used(k)' = Used(k)
    BY <1>1, <1>5 DEF Exit, Used
  <2>2. Ended' = Ended + 1
    BY <1>3, <1>4, <2>1 DEF Ended, FaultKinds
  <2>3. QED
    BY <2>2
<1>6. ASSUME NEW kind \in {"crash", "restart"}, Fault(kind)
      PROVE  Ended' \in Nat /\ Ended + 1 <= Ended'
  <2>1. /\ Used("cancel")' = Used("cancel")
        /\ \/ Used("restart")' = Used("restart") + 1 /\ Used("crash")' = Used("crash")
           \/ Used("crash")' = Used("crash") + 1 /\ Used("restart")' = Used("restart")
    BY <1>1, <1>6, FaultUses DEF FaultKinds
  <2>2. Ended' = Used("restart")' + Used("crash")' + Used("cancel")'
    BY <1>3, <1>4, <2>1 DEF Ended
  <2>3. Ended' = Ended + 1 \/ Ended' = Ended + 2
    BY <1>1, <1>3, <2>1, <2>2 DEF Ended
  <2>4. QED
    BY <2>3
<1>7. QED
  BY <1>5, <1>6 DEF ProcessEnds, Crash, Restart

LEMMA PollSideRuns ==
    ASSUME SystemTypeOK, SystemTypeOK', RunsInv,
           PollSide \/ ProcessEnds \/ UNCHANGED systemVars
    PROVE  RunsInv'
<1>1. PICK r : r.id.nonce = NoNonce /\ (runs' = runs \/ runs' = runs \cup {r})
  BY PollRuns, PollSideNext, ProcessEndsNext DEF systemVars
<1>2. /\ IsFiniteSet(runs')
      /\ \A p \in PRs :
            /\ Cardinality(T!ForcedRuns(p)') \in Nat
            /\ Cardinality(T!ForcedRuns(p)') = Cardinality(T!ForcedRuns(p))
  BY <1>1, RunAdded DEF RunsInv
<1>3. topic' = topic /\ triggerBudget' = triggerBudget
  BY DEF PollSide, ProcessEnds, consumerVars, systemVars
<1>4. AcksLost' = AcksLost /\ AcksLost \in Nat /\ Ended \in Nat
  BY <1>3 DEF AcksLost, RunsInv
<1>5. \A p \in PRs : ForcedCommands(p)' = ForcedCommands(p)
  BY <1>3 DEF ForcedCommands
<1>6. CASE PollSide \/ UNCHANGED systemVars
  <2>1. exec' = exec /\ offset' = offset
    BY <1>6 DEF PollSide, consumerVars, systemVars
  <2>2. Ended' = Ended
    BY <1>4, <1>6, PollSideEnded
  <2>3. \A p \in PRs : Executed(p)' = Executed(p)
    BY <1>5, <2>1 DEF Executed
  <2>4. \A p \in PRs : Booked(p)'
    BY <1>2, <1>4, <1>5, <2>2, <2>3, BookedNext
  <2>5. QED
    BY <1>2, <1>3, <1>4, <2>1, <2>2, <2>4 DEF RunsInv
<1>7. CASE ProcessEnds
  <2>1. exec' = NoJob
    BY <1>7 DEF ProcessEnds, ConsumerStarts
  <2>2. Ended' \in Nat /\ Ended + 1 <= Ended'
    BY <1>4, <1>7, ProcessEndsEnded
  <2>3. Ended <= Ended'
    BY <1>4, <2>2
  <2>4. \A p \in PRs : Booked(p)'
    BY <1>2, <1>4, <1>5, <2>2, <2>3, BookedNext
  <2>5. QED
    BY <1>2, <1>4, <2>1, <2>2, <2>4 DEF RunsInv
<1>8. QED
  BY <1>6, <1>7

\* What the executor sends is a forced run only for a forced command.
LEMMA SentRun ==
    ASSUME T!CreateTask(T!commandID, exec.commit.spec)
    PROVE  \E r : /\ runs' = runs \/ runs' = runs \cup {r}
                  /\ \/ r.id.nonce = NoNonce
                     \/ topic[offset + 1].force /\ r.id.pr = topic[offset + 1].pr
<1> DEFINE r == [id |-> T!commandID, spec |-> exec.commit.spec]
<1>1. runs' = runs \/ runs' = runs \cup {r}
  BY DEF T!CreateTask
<1>2. \/ r.id.nonce = NoNonce
      \/ topic[offset + 1].force /\ r.id.pr = topic[offset + 1].pr
  BY DEF T!commandID, T!Current, T!DeriveTaskID, T!DeriveTaskIDForce, T!NoNonce, NoNonce
<1>3. QED
  BY <1>1, <1>2

\* The command that is executed joins those that are done, if it is forced.
LEMMA OffsetAdvances ==
    ASSUME SystemTypeOK, offset < Len(topic), offset' = offset + 1, topic' = topic,
           NEW p \in PRs
    PROVE  /\ ForcedCommands(p)' = ForcedCommands(p)
           /\ Executed(p) \subseteq Executed(p)'
           /\ offset + 1 \in ForcedCommands(p)
                => /\ offset + 1 \notin Executed(p)
                   /\ Executed(p)' = Executed(p) \cup {offset + 1}
<1>1. offset \in Nat /\ Len(topic) \in Nat
  BY DEF SystemTypeOK, TP!TypeOK
<1>2. ForcedCommands(p)' = ForcedCommands(p)
  BY DEF ForcedCommands
<1>3. ForcedCommands(p) \subseteq Nat
  BY <1>1 DEF ForcedCommands
<1>4. QED
  BY <1>1, <1>2, <1>3 DEF Executed

LEMMA CommandSideRuns ==
    ASSUME SystemTypeOK, SystemTypeOK', RunsInv, CommandSide
    PROVE  RunsInv'
<1>1. UNCHANGED watcherVars
  BY CommandSideNext
<1>2. Ended' = Ended /\ Ended \in Nat /\ AcksLost \in Nat
  BY <1>1 DEF watcherVars, Ended, Used, RunsInv
<1>3. offset \in Nat /\ Len(topic) \in Nat /\ topic \in Seq(TP!Command)
  BY DEF SystemTypeOK, TP!TypeOK
<1>4. exec # NoJob => offset < Len(topic)
  BY DEF SystemTypeOK, TP!TypeOK
<1>5. ASSUME runs' = runs
      PROVE  /\ IsFiniteSet(runs')
             /\ \A p \in PRs : /\ Cardinality(T!ForcedRuns(p)') \in Nat
                               /\ Cardinality(T!ForcedRuns(p)') = Cardinality(T!ForcedRuns(p))
  BY <1>5, RunsCounted DEF RunsInv, T!ForcedRuns
<1>6. ASSUME \/ T!Fault("read") \/ T!Fault("send") \/ T!Fault("clock")
             \/ UNCHANGED triggerBudget
      PROVE  AcksLost' = AcksLost
  BY <1>6 DEF T!Fault, AcksLost, SystemTypeOK, TP!TypeOK, TP!TriggerFaultKinds
<1>7. ASSUME T!Fault("ack")
      PROVE  AcksLost' = AcksLost + 1
  <2>1. triggerBudget["ack"] \in Nat /\ triggerBudget'["ack"] = triggerBudget["ack"] - 1
    BY <1>7 DEF T!Fault, SystemTypeOK, TP!TypeOK, TP!TriggerFaultKinds
  <2>2. TriggerFaults["ack"] \in Nat
    BY SystemAssumption DEF T!TriggerFaultKinds
  <2>3. QED
    BY <2>1, <2>2 DEF AcksLost
<1>8. ASSUME NEW c \in Requests, T!Request(c)
      PROVE  RunsInv'
  <2>1. /\ topic' = Append(topic, c) /\ runs' = runs /\ exec' = exec
        /\ offset' = offset /\ triggerBudget' = triggerBudget
    BY <1>8 DEF T!Request
  <2>2. \A i \in 1 .. Len(topic) : i \in 1 .. Len(topic') /\ topic'[i] = topic[i]
    BY <1>3, <2>1
  <2>3. \A p \in PRs : ForcedCommands(p) \subseteq ForcedCommands(p)'
    BY <2>2 DEF ForcedCommands
  <2>4. \A p \in PRs : Executed(p) \subseteq Executed(p)'
    BY <2>1, <2>3 DEF Executed
  <2>5. exec' # NoJob => topic'[offset' + 1].valid
    <3>1. exec # NoJob => offset + 1 \in 1 .. Len(topic)
      BY <1>3, <1>4
    <3>2. QED
      BY <2>1, <2>2, <3>1 DEF RunsInv
  <2>6. AcksLost' = AcksLost
    BY <1>6, <2>1
  <2>7. \A p \in PRs : Booked(p)'
    BY <1>2, <1>5, <2>1, <2>3, <2>4, <2>6, BookedNext
  <2>8. QED
    BY <1>2, <1>5, <2>1, <2>5, <2>6, <2>7 DEF RunsInv
<1>9. ASSUME runs' = runs, topic' = topic, offset' = offset, AcksLost' = AcksLost,
             exec' # NoJob => topic[offset + 1].valid
      PROVE  RunsInv'
  <2>1. \A p \in PRs : /\ ForcedCommands(p)' = ForcedCommands(p)
                       /\ Executed(p)' = Executed(p)
    BY <1>9 DEF ForcedCommands, Executed
  <2>2. \A p \in PRs : Booked(p)'
    BY <1>2, <1>5, <1>9, <2>1, BookedNext
  <2>3. QED
    BY <1>2, <1>5, <1>9, <2>2 DEF RunsInv
<1>10. CASE T!ReadDetails
  BY <1>6, <1>9, <1>10 DEF T!ReadDetails, T!Current
<1>11. CASE T!ReadFails
  BY <1>6, <1>9, <1>11 DEF T!ReadFails
<1>12. CASE T!ClockFallsBack
  <2>1. /\ runs' = runs /\ topic' = topic /\ offset' = offset /\ exec' = exec
        /\ T!Fault("clock")
    BY <1>12 DEF T!ClockFallsBack
  <2>2. exec' # NoJob => topic[offset + 1].valid
    BY <2>1 DEF RunsInv
  <2>3. QED
    BY <1>6, <1>9, <2>1, <2>2
<1>13. CASE T!SkipInvalid \/ T!SkipNonCandidate
  <2>1. /\ runs' = runs /\ topic' = topic /\ offset' = offset + 1 /\ exec' = NoJob
        /\ offset < Len(topic) /\ AcksLost' = AcksLost
    BY <1>4, <1>6, <1>13
    DEF T!SkipInvalid, T!SkipNonCandidate, T!Done, T!Pending
  <2>2. \A p \in PRs : /\ ForcedCommands(p)' = ForcedCommands(p)
                       /\ Executed(p) \subseteq Executed(p)'
    BY <2>1, OffsetAdvances
  <2>3. \A p \in PRs : Booked(p)'
    BY <1>2, <1>5, <2>1, <2>2, BookedNext
  <2>4. QED
    BY <1>2, <1>5, <2>1, <2>3 DEF RunsInv
<1>14. CASE T!Send
  <2>1. /\ exec # NoJob /\ topic' = topic /\ offset' = offset + 1 /\ exec' = NoJob
        /\ T!CreateTask(T!commandID, exec.commit.spec) /\ triggerBudget' = triggerBudget
    BY <1>14 DEF T!Send, T!Done
  <2>2. AcksLost' = AcksLost
    BY <1>6, <2>1
  <2>3. PICK r : /\ runs' = runs \/ runs' = runs \cup {r}
                 /\ \/ r.id.nonce = NoNonce
                    \/ topic[offset + 1].force /\ r.id.pr = topic[offset + 1].pr
    BY <2>1, SentRun
  <2>4. IsFiniteSet(runs')
    BY <2>3, RunAdded DEF RunsInv
  <2>5. ASSUME NEW p \in PRs PROVE Booked(p)'
    <3>1. /\ Cardinality(T!ForcedRuns(p)') \in Nat
          /\ Cardinality(T!ForcedRuns(p)') <= Cardinality(T!ForcedRuns(p)) + 1
          /\ r.id.pr # p \/ r.id.nonce = NoNonce
              => Cardinality(T!ForcedRuns(p)') = Cardinality(T!ForcedRuns(p))
      BY <2>3, RunAdded DEF RunsInv
    <3>2. /\ ForcedCommands(p)' = ForcedCommands(p)
          /\ Executed(p) \subseteq Executed(p)'
          /\ offset + 1 \in ForcedCommands(p)
               => /\ offset + 1 \notin Executed(p)
                  /\ Executed(p)' = Executed(p) \cup {offset + 1}
      BY <1>4, <2>1, OffsetAdvances
    <3>3. CASE r.id.pr # p \/ r.id.nonce = NoNonce
      BY <1>2, <2>2, <3>1, <3>2, <3>3, BookedNext
    <3>4. CASE topic[offset + 1].force /\ topic[offset + 1].pr = p
      <4>1. offset + 1 \in ForcedCommands(p)
        BY <1>3, <1>4, <2>1, <3>4 DEF ForcedCommands, Forced, RunsInv
      <4>2. QED
        BY <1>2, <2>2, <3>1, <3>2, <4>1, BookedNext
    <3>5. QED
      BY <2>3, <3>3, <3>4
  <2>6. QED
    BY <1>2, <2>1, <2>2, <2>4, <2>5 DEF RunsInv
<1>15. CASE T!SendFails
  <2>1. exec' = NoJob /\ topic' = topic /\ offset' = offset
    BY <1>15 DEF T!SendFails
  <2>2. CASE T!Fault("send") /\ UNCHANGED runs
    BY <1>6, <1>9, <2>1, <2>2
  <2>3. CASE T!Fault("ack") /\ T!CreateTask(T!commandID, exec.commit.spec)
    <3>1. AcksLost' = AcksLost + 1
      BY <1>7, <2>3
    <3>2. PICK r : runs' = runs \/ runs' = runs \cup {r}
      BY <2>3, SentRun
    <3>3. IsFiniteSet(runs')
      BY <3>2, RunAdded DEF RunsInv
    <3>4. \A p \in PRs :
            /\ Cardinality(T!ForcedRuns(p)') \in Nat
            /\ Cardinality(T!ForcedRuns(p)') <= Cardinality(T!ForcedRuns(p)) + 1
      BY <3>2, RunAdded DEF RunsInv
    <3>5. \A p \in PRs : /\ ForcedCommands(p)' = ForcedCommands(p)
                         /\ Executed(p)' = Executed(p)
      BY <2>1 DEF ForcedCommands, Executed
    <3>6. AcksLost' \in Nat /\ AcksLost <= AcksLost'
      BY <1>2, <3>1
    <3>7. \A p \in PRs : Booked(p)'
      BY <1>2, <3>1, <3>4, <3>5, <3>6, BookedNext
    <3>8. QED
      BY <1>2, <2>1, <3>3, <3>6, <3>7 DEF RunsInv
  <2>4. QED
    BY <1>15, <2>2, <2>3 DEF T!SendFails
<1>16. QED
  BY <1>8, <1>10, <1>11, <1>12, <1>13, <1>14, <1>15 DEF CommandSide, T!ExecStep

LEMMA SystemInitRuns == SystemInit => RunsInv
<1> SUFFICES ASSUME SystemInit PROVE RunsInv
  OBVIOUS
<1>1. /\ runs = {} /\ topic = <<>> /\ exec = NoJob /\ cancelled = FALSE
      /\ budget = FaultBudget /\ triggerBudget = TriggerFaults
  BY DEF SystemInit, Init, ControllerInit, T!Init
<1>2. Ended = 0 /\ AcksLost = 0
  <2>1. \A k \in FaultKinds : Used(k) = 0
    BY <1>1, WatcherAssumption DEF Used
  <2>2. TriggerFaults["ack"] \in Nat
    BY SystemAssumption DEF T!TriggerFaultKinds
  <2>3. QED
    BY <1>1, <2>1, <2>2 DEF Ended, AcksLost, FaultKinds
<1>3. ASSUME NEW p \in PRs PROVE Booked(p)
  <2>1. T!ForcedRuns(p) = {} /\ ForcedCommands(p) = {} /\ Executed(p) = {}
    BY <1>1 DEF T!ForcedRuns, ForcedCommands, Executed
  <2>2. QED
    BY <1>2, <2>1, FS_EmptySet DEF Booked
<1>4. QED
  BY <1>1, <1>2, <1>3, FS_EmptySet DEF RunsInv

\* What is booked is within the bound: the commands of this process are some of
\* all, and a cancelled process has not ended.
LEMMA BookedBounded == SystemTypeOK /\ RunsInv => ForcedRunsBounded
<1> SUFFICES ASSUME SystemTypeOK, RunsInv, NEW p \in PRs
             PROVE  Cardinality(T!ForcedRuns(p)) <=
                        Processes * Cardinality(ForcedCommands(p)) + AcksLost
  BY DEF ForcedRunsBounded
<1> DEFINE r == Cardinality(T!ForcedRuns(p))
           c == Cardinality(ForcedCommands(p))
           d == Cardinality(Executed(p))
<1>1. r \in Nat /\ c \in Nat /\ d \in Nat /\ d <= c
  BY CommandsCounted, RunsCounted DEF Countable, RunsInv
<1>2. Ended \in Nat /\ AcksLost \in Nat /\ r <= Ended * c + d + AcksLost
  BY DEF RunsInv, Booked
<1>3. Processes \in Nat /\ Ended + 1 <= Processes
  <2>1. \A k \in FaultKinds : Used(k) \in Int
    BY WatcherAssumption DEF SystemTypeOK, TypeOK, Used
  <2>2. Used("restart") \in Int /\ Used("crash") \in Int /\ Used("cancel") \in Int
    BY <2>1 DEF FaultKinds
  <2>3. QED
    BY <1>2, <2>2 DEF Ended, Processes
<1> HIDE DEF r, c, d
<1>4. Ended * c \in Nat /\ Processes * c \in Nat /\ Ended * c + c <= Processes * c
  BY <1>1, <1>2, <1>3, Products, ProductsAndMore
<1>5. r <= Processes * c + 0 + AcksLost
  BY <1>1, <1>2, <1>4, SumOfTwo
<1>6. r <= Processes * c + AcksLost
  BY <1>2, <1>4, <1>5
<1>7. QED
  BY <1>6 DEF r, c

\* However the poll, the commands, failed sends and ends of the process are
\* mixed: a forced command has no more runs than there were processes to execute
\* it and acknowledgements that were lost.
THEOREM ForcedRunsAreBounded == SystemSpec => []ForcedRunsBounded
<1>1. SystemInit => SystemTypeOK /\ RunsInv
  BY SystemInitType, SystemInitRuns
<1>2. SystemTypeOK /\ RunsInv /\ [SystemNext]_systemVars => SystemTypeOK' /\ RunsInv'
  BY SystemNextType, PollSideRuns, CommandSideRuns DEF SystemNext
<1>3. QED
  BY <1>1, <1>2, BookedBounded, PTL DEF SystemSpec

(***************************************************************************)
(* No run that nobody asked for.  PhaseInv holds for the pull requests for *)
(* which no unforced command was sent: a forced run is no queued run, and  *)
(* the markers and the poller's copy are out of the consumer's reach.      *)
(***************************************************************************)
Unasked == {p \in PRs : ~UnforcedSent(p)}

\* What was sent stays sent.
LEMMA SentStaysSent ==
    ASSUME topic \in Seq(TP!Command), AcksLost \in Nat, AcksLost' \in Nat,
           topic' = topic \/ \E c \in Requests : topic' = Append(topic, c),
           served \subseteq served', AcksLost <= AcksLost'
    PROVE  Unasked' \subseteq Unasked
<1>1. Len(topic) \in Nat
  OBVIOUS
<1>2. \A i \in 1 .. Len(topic) : i \in 1 .. Len(topic') /\ topic'[i] = topic[i]
  BY <1>1
<1>3. \A p : UnforcedSent(p) => UnforcedSent(p)'
  BY <1>2 DEF UnforcedSent
<1>4. QED
  BY <1>3 DEF Unasked

\* A run that a command adds is forced, or that of an unforced command.
LEMMA CommandRun ==
    ASSUME SystemTypeOK, T!CreateTask(T!commandID, exec.commit.spec), exec # NoJob,
           topic' = topic,
           offset + 1 \in served' \/ (AcksLost' \in Nat /\ AcksLost' > 0)
    PROVE  \A r \in runs' \ runs : r.id.nonce # NoNonce \/ UnforcedSent(r.id.pr)'
<1> DEFINE c == topic[offset + 1]
           q == [id |-> T!commandID, spec |-> exec.commit.spec]
<1>1. \A r \in runs' \ runs : r = q
  BY DEF T!CreateTask
<1>2. offset \in Nat /\ offset + 1 \in 1 .. Len(topic) /\ now \in Nat
  BY DEF SystemTypeOK, TP!TypeOK
<1>3. q.id.pr = c.pr /\ (c.force => q.id.nonce = now + 1)
  BY DEF T!commandID, T!Current, T!DeriveTaskID, T!DeriveTaskIDForce, T!Nonce
<1>4. c.force => q.id.nonce # NoNonce
  BY <1>2, <1>3 DEF NoNonce
<1>5. PICK p : p = c.pr
  OBVIOUS
<1>6. ~c.force => UnforcedSent(p)'
  BY <1>2, <1>5 DEF UnforcedSent
<1> HIDE DEF q
<1>7. ASSUME NEW r \in runs' \ runs
      PROVE  r.id.nonce # NoNonce \/ UnforcedSent(r.id.pr)'
  <2>1. r = q /\ r.id.pr = p
    BY <1>1, <1>3, <1>5, <1>7
  <2>2. CASE c.force
    BY <1>4, <2>1, <2>2
  <2>3. CASE ~c.force
    BY <1>6, <2>1, <2>3
  <2>4. QED
    BY <2>2, <2>3
<1>8. QED
  BY <1>7

\* The counters that UnforcedSent looks at only grow.
LEMMA AcksOnlyGrow ==
    ASSUME SystemTypeOK,
           \/ \E k \in {"ack", "read", "send", "clock"} : T!Fault(k)
           \/ UNCHANGED triggerBudget
    PROVE  /\ AcksLost \in Int /\ AcksLost' \in Int /\ AcksLost <= AcksLost'
           /\ T!Fault("ack") => AcksLost' = AcksLost + 1
<1>1. TriggerFaults["ack"] \in Nat
  BY SystemAssumption DEF T!TriggerFaultKinds
<1>2. triggerBudget \in [TP!TriggerFaultKinds -> Nat] /\ triggerBudget["ack"] \in Nat
  BY DEF SystemTypeOK, TP!TypeOK, TP!TriggerFaultKinds
<1>3. CASE T!Fault("ack")
  <2>1. triggerBudget'["ack"] = triggerBudget["ack"] - 1
    BY <1>2, <1>3 DEF T!Fault, TP!TriggerFaultKinds
  <2>2. QED
    BY <1>1, <1>2, <2>1 DEF AcksLost
<1>4. CASE ~T!Fault("ack")
  <2>1. CASE UNCHANGED triggerBudget
    BY <1>1, <1>2, <1>4, <2>1 DEF AcksLost
  <2>2. ASSUME NEW k \in {"read", "send", "clock"}, T!Fault(k)
        PROVE  triggerBudget'["ack"] = triggerBudget["ack"]
    BY <1>2, <2>2 DEF T!Fault, TP!TriggerFaultKinds
  <2>3. triggerBudget'["ack"] = triggerBudget["ack"]
    BY <1>4, <2>2
  <2>4. QED
    BY <1>1, <1>2, <1>4, <2>3 DEF AcksLost
<1>5. QED
  BY <1>3, <1>4

LEMMA CommandSideSends ==
    ASSUME SystemTypeOK, AcksLost \in Nat, CommandSide
    PROVE  /\ AcksLost' \in Nat
           /\ Unasked' \subseteq Unasked
           /\ \A r \in runs' \ runs : r.id.nonce # NoNonce \/ UnforcedSent(r.id.pr)'
<1>1. topic \in Seq(TP!Command) /\ Len(topic) \in Nat
  BY DEF SystemTypeOK, TP!TypeOK
<1>2. /\ topic' = topic \/ \E c \in Requests : topic' = Append(topic, c)
      /\ served \subseteq served'
      /\ \/ \E k \in {"ack", "read", "send", "clock"} : T!Fault(k)
         \/ UNCHANGED triggerBudget
  BY DEF CommandSide, T!ExecStep, T!SkipInvalid, T!ReadDetails, T!SkipNonCandidate,
         T!Send, T!SendFails, T!ReadFails, T!ClockFallsBack, T!Request
<1>3. AcksLost' \in Nat /\ AcksLost <= AcksLost'
  BY <1>2, AcksOnlyGrow
<1>4. Unasked' \subseteq Unasked
  BY <1>1, <1>2, <1>3, SentStaysSent
<1>5. CASE runs' = runs
  BY <1>3, <1>4, <1>5
<1>6. CASE T!Send
  <2>1. /\ T!CreateTask(T!commandID, exec.commit.spec) /\ exec # NoJob
        /\ topic' = topic /\ offset + 1 \in served'
    BY <1>6 DEF T!Send
  <2>2. QED
    BY <1>3, <1>4, <2>1, CommandRun
<1>7. CASE T!SendFails /\ ~UNCHANGED runs
  <2>1. /\ T!CreateTask(T!commandID, exec.commit.spec) /\ exec # NoJob
        /\ topic' = topic /\ T!Fault("ack")
    BY <1>7 DEF T!SendFails
  <2>2. AcksLost' > 0
    BY <2>1, AcksOnlyGrow
  <2>3. QED
    BY <1>3, <1>4, <2>1, <2>2, CommandRun
<1>8. runs' = runs \/ T!Send \/ (T!SendFails /\ ~UNCHANGED runs)
  BY DEF CommandSide, T!ExecStep, T!SkipInvalid, T!ReadDetails, T!SkipNonCandidate,
         T!ReadFails, T!ClockFallsBack, T!Request
<1>9. QED
  BY <1>5, <1>6, <1>7, <1>8

\* PhaseInv for fewer pull requests, after a step that adds no run of theirs.
LEMMA PhaseOfFewer ==
    ASSUME NEW P, NEW Q, Q \subseteq P, PhaseInv(P), UNCHANGED watcherVars, pr' = pr,
           \A r \in runs' \ runs : r.id.nonce # NoNonce \/ r.id.pr \notin Q
    PROVE  PhaseInv(Q)'
<1>1. \A p, spec : WatchedRun(Q, p, spec)' => WatchedRun(P, p, spec)
  BY DEF WatchedRun, QueuedRun, QueuedID
<1>2. UNCHANGED <<poll, file, cancelled, budget>>
  BY DEF watcherVars
<1>3. NothingLost' /\ ApprovedInDiff' /\ RunsReached(Q)'
  BY <1>1, <1>2 DEF PhaseInv, NothingLost, ApprovedInDiff, RunsReached, Reached
<1>4. ASSUME NEW w \in Pollers PROVE PollerInv(Q, poll[w], file)'
  <2>1. PollerInv(P, poll[w], file)
    BY DEF PhaseInv
  <2>2. MarkersHeld(Q, poll[w], file)'
    BY <1>1, <1>2, <2>1 DEF PollerInv, MarkersHeld, Holds, MarkersOf, Over
  <2>3. ASSUME poll[w].pc = "evaluate" PROVE JobFits(Q, poll[w])'
    <3>1. JobFits(P, poll[w]) /\ poll' = poll
      BY <1>2, <2>1, <2>3 DEF PollerInv
    <3>2. PICK s : s = poll[w] /\ s = poll'[w]
      BY <3>1
    <3>3. JobFits(P, s)
      BY <3>1, <3>2
    <3>4. /\ After(pr'[s.job.hit.pr], s.job.details)
          /\ \A spec \in Nat :
                WatchedRun(Q, s.job.hit.pr, spec)' =>
                    /\ Reached(s.job.details, spec)
                    /\ \/ Over(s.job.details, spec)
                       \/ s.job.hit.pr \in s.cursor.queuedMarkers
      BY <1>1, <3>3 DEF JobFits
    <3>5. JobFits(Q, s)'
      BY <3>4 DEF JobFits
    <3>6. QED
      BY <3>2, <3>5
  <2>4. QED
    BY <1>2, <2>2, <2>3 DEF PollerInv
<1>5. QED
  BY <1>3, <1>4 DEF PhaseInv

UnaskedInv == AcksLost \in Nat /\ PhaseInv(Unasked)

LEMMA UnaskedStep ==
    ASSUME OnePoll, SystemTypeOK, UnaskedInv, [SystemNext]_systemVars
    PROVE  /\ UnaskedInv'
           /\ \A r \in runs' \ runs :
                QueuedRun(r.id.pr, r.spec)
                    => r.id.nonce # NoNonce \/ UnforcedSent(r.id.pr)'
<1>1. PICK P : P = Unasked
  OBVIOUS
<1>2. PICK Q : Q = Unasked'
  OBVIOUS
<1>3. TypeOK /\ PhaseInv(P) /\ AcksLost \in Nat
  BY <1>1 DEF SystemTypeOK, UnaskedInv
<1>4. CASE PollSide \/ ProcessEnds \/ UNCHANGED systemVars
  <2>1. [Next]_vars
    BY <1>4, PollSideNext, ProcessEndsNext DEF systemVars
  <2>2. UNCHANGED <<topic, served, triggerBudget>>
    BY <1>4 DEF PollSide, ProcessEnds, consumerVars, systemVars
  <2>3. Q = P /\ AcksLost' = AcksLost /\ \A p : UnforcedSent(p)' <=> UnforcedSent(p)
    BY <1>1, <1>2, <2>2 DEF Unasked, UnforcedSent, AcksLost
  <2>4. PhaseInv(P)' /\ RunsOnce(P)
    BY <1>3, <2>1, StepPhase, StepRunsOnce
  <2>5. UnaskedInv'
    BY <1>2, <1>3, <2>3, <2>4 DEF UnaskedInv
  <2>6. QED
    BY <1>1, <2>3, <2>4, <2>5 DEF RunsOnce, WatchedRun, Unasked
<1>5. CASE CommandSide
  <2>1. /\ AcksLost' \in Nat /\ Q \subseteq P
        /\ \A r \in runs' \ runs : r.id.nonce # NoNonce \/ UnforcedSent(r.id.pr)'
    BY <1>1, <1>2, <1>3, <1>5, CommandSideSends
  <2>2. \A r \in runs' \ runs : r.id.nonce # NoNonce \/ r.id.pr \notin Q
    BY <1>2, <2>1 DEF Unasked
  <2>3. UNCHANGED watcherVars /\ pr' = pr
    BY <1>5, CommandSideNext
    DEF CommandSide, T!ExecStep, T!SkipInvalid, T!ReadDetails, T!SkipNonCandidate,
        T!Send, T!SendFails, T!ReadFails, T!ClockFallsBack, T!Request, T!githubVars
  <2>4. PhaseInv(Q)'
    BY <1>3, <2>1, <2>2, <2>3, PhaseOfFewer
  <2>5. QED
    BY <1>2, <2>1, <2>4 DEF UnaskedInv
<1>6. QED
  BY <1>4, <1>5 DEF SystemNext

\* With one poller, and as long as no fault of the poll loses a marker, a spec
\* whose queued phase was handed over gets no run beside those of commands, for
\* any commands, replays and lost acknowledgements of the consumer.
THEOREM NoRunIsUnasked ==
    ASSUME OnePoll PROVE SystemSpec => NoRunUnasked
<1>1. SystemInit => SystemTypeOK /\ UnaskedInv
  <2>1. SystemInit => SystemTypeOK /\ AcksLost \in Nat
    BY SystemInitType, SystemInitRuns DEF RunsInv
  <2>2. ASSUME SystemInit PROVE PhaseInv(Unasked)
    <3>1. PICK P : P = Unasked
      OBVIOUS
    <3>2. PhaseInv(P)
      BY <2>2, OnePoll, InitPhase DEF SystemInit
    <3>3. QED
      BY <3>1, <3>2
  <2>3. QED
    BY <2>1, <2>2 DEF UnaskedInv
<1>2. SystemTypeOK /\ UnaskedInv /\ [SystemNext]_systemVars
        => SystemTypeOK' /\ UnaskedInv'
  BY OnePoll, SystemNextType, UnaskedStep
<1>3. SystemTypeOK /\ UnaskedInv /\ [SystemNext]_systemVars
        => [\A r \in runs' \ runs :
              QueuedRun(r.id.pr, r.spec)
                  => r.id.nonce # NoNonce \/ UnforcedSent(r.id.pr)']_systemVars
  BY OnePoll, UnaskedStep
<1>4. QED
  BY <1>1, <1>2, <1>3, PTL DEF SystemSpec, NoRunUnasked

(***************************************************************************)
(* The watermark beside the commands.  A command adds runs of the one spec *)
(* and touches neither a cursor nor GitHub, so that what is due becomes    *)
(* less and stays where it was.                                            *)
(***************************************************************************)
ExecSane == exec # NoJob => exec.commit.spec = 1

SystemWatermarkInv == SuppressionSound /\ WatermarkInv /\ ExecSane

LEMMA CommandsAddOneSpec ==
    ASSUME SystemTypeOK, Sane, ExecSane, CommandSide
    PROVE  /\ runs \subseteq runs' /\ \A r \in runs' : r.spec = 1
           /\ UNCHANGED <<githubVars, watcherVars>>
           /\ ExecSane'
<1>1. UNCHANGED <<githubVars, watcherVars>>
  BY CommandSideNext
  DEF CommandSide, T!ExecStep, T!SkipInvalid, T!ReadDetails, T!SkipNonCandidate,
      T!Send, T!SendFails, T!ReadFails, T!ClockFallsBack, T!Request, T!githubVars, githubVars
<1>2. \/ runs' = runs
      \/ exec # NoJob /\ T!CreateTask(T!commandID, exec.commit.spec)
  BY DEF CommandSide, T!ExecStep, T!SkipInvalid, T!ReadDetails, T!SkipNonCandidate,
         T!Send, T!SendFails, T!ReadFails, T!ClockFallsBack, T!Request
<1>3. runs \subseteq runs' /\ \A r \in runs' : r.spec = 1
  <2>1. CASE runs' = runs
    BY <2>1 DEF Sane
  <2>2. CASE exec # NoJob /\ T!CreateTask(T!commandID, exec.commit.spec)
    BY <2>2 DEF T!CreateTask, Sane, ExecSane
  <2>3. QED
    BY <1>2, <2>1, <2>2
<1>4. ExecSane'
  <2>1. CASE T!ReadDetails
    <3>1. T!Pending /\ exec' = T!GetPRDetails(T!Current.pr)
      BY <2>1 DEF T!ReadDetails
    <3>2. T!Current.pr \in PRs
      <4>1. topic \in Seq(TP!Command) /\ offset \in 0 .. Len(topic)
        BY DEF SystemTypeOK, TP!TypeOK
      <4>2. offset + 1 \in 1 .. Len(topic)
        BY <3>1, <4>1 DEF T!Pending
      <4>3. topic[offset + 1] \in TP!Command
        BY <4>1, <4>2
      <4>4. QED
        BY <4>3 DEF T!Current, TP!Command
    <3>3. exec'.commit.spec = 1
      BY <3>1, <3>2 DEF T!GetPRDetails, Sane
    <3>4. QED
      BY <3>3 DEF ExecSane
  <2>2. CASE exec' = exec \/ exec' = NoJob
    BY <2>2 DEF ExecSane
  <2>3. T!ReadDetails \/ exec' = exec \/ exec' = NoJob
    BY DEF CommandSide, T!ExecStep, T!SkipInvalid, T!SkipNonCandidate,
           T!Send, T!SendFails, T!ReadFails, T!ClockFallsBack, T!Request, T!Done
  <2>4. QED
    BY <2>1, <2>2, <2>3
<1>5. QED
  BY <1>1, <1>3, <1>4

LEMMA CommandsKeepWatermark ==
    ASSUME WatermarkInv, runs \subseteq runs', \A r \in runs' : r.spec = 1,
           UNCHANGED <<githubVars, watcherVars>>
    PROVE  WatermarkInv'
<1>1. UNCHANGED <<pr, clock, file, poll, startTime, cancelled, budget>>
  BY DEF githubVars, watcherVars
<1>2. Sane'
  BY <1>1 DEF WatermarkInv, Sane, PollerSane
<1>3. BudgetFalls' /\ (NoHitFailed' => NoHitFailed)
  BY <1>1 DEF WatermarkInv, BudgetFalls, NoHitFailed
<1>4. ASSUME Covered({}) PROVE Covered({})'
  <2>1. \A p \in PRs : Due(p)' => Due(p)
    BY <1>1, DueShrinks
  <2>2. FileCovers({}, file)'
    BY <1>1, <1>4, <2>1 DEF Covered, FileCovers
  <2>3. ASSUME NEW w \in Pollers PROVE PollerCovers({}, poll[w])'
    <3>1. poll'[w] = poll[w] /\ PollerCovers({}, poll[w])
      BY <1>1, <1>4 DEF Covered
    <3>2. QED
      BY <1>1, <2>1, <3>1 DEF PollerCovers, Recent, Awaits, InHand, GetPRDetails
  <2>4. QED
    BY <2>2, <2>3 DEF Covered
<1>5. QED
  BY <1>1, <1>2, <1>3, <1>4 DEF WatermarkInv

LEMMA SystemStepWatermark ==
    ASSUME OneSpecInBackfill, SystemTypeOK, SystemWatermarkInv, [SystemNext]_systemVars
    PROVE  SystemWatermarkInv'
<1>1. SuppressionSound'
  BY SystemNextSound DEF SystemWatermarkInv
<1>2. CASE PollSide \/ ProcessEnds \/ UNCHANGED systemVars
  <2>1. [Next]_vars
    BY <1>2, PollSideNext, ProcessEndsNext DEF systemVars
  <2>2. WatermarkInv'
    BY <2>1, StepWatermark DEF SystemTypeOK, SystemWatermarkInv
  <2>3. exec' = exec \/ exec' = NoJob
    BY <1>2 DEF PollSide, ProcessEnds, ConsumerStarts, consumerVars, systemVars
  <2>4. QED
    BY <1>1, <2>2, <2>3 DEF SystemWatermarkInv, ExecSane
<1>3. CASE CommandSide
  <2>1. Sane /\ ExecSane /\ WatermarkInv
    BY DEF SystemWatermarkInv, WatermarkInv
  <2>2. QED
    BY <1>1, <1>3, <2>1, CommandsAddOneSpec, CommandsKeepWatermark DEF SystemWatermarkInv
<1>4. QED
  BY <1>2, <1>3 DEF SystemNext

\* With commands beside the polls, forced or not, replayed or retried: unless a
\* hit of a poll failed or was missed, a candidate that is too old for the next
\* search has its run (watcher.go:142-147).
THEOREM SystemWatermarkHidesNoWork ==
    ASSUME OneSpecInBackfill PROVE SystemSpec => []WatermarkCoversCandidates
<1>1. SystemInit => SystemTypeOK /\ SystemWatermarkInv
  <2>1. SystemInit => ExecSane
    BY DEF SystemInit, T!Init, ExecSane
  <2>2. QED
    BY OneSpecInBackfill, SystemInitType, InitSuppressionSound, InitWatermark, <2>1
    DEF SystemInit, SystemWatermarkInv, OneSpecInBackfill
<1>2. SystemTypeOK /\ SystemWatermarkInv /\ [SystemNext]_systemVars
        => SystemTypeOK' /\ SystemWatermarkInv'
  BY OneSpecInBackfill, SystemNextType, SystemStepWatermark
<1>3. SystemTypeOK /\ SystemWatermarkInv => WatermarkCoversCandidates
  BY NoWorkHidden DEF SystemTypeOK, SystemWatermarkInv
<1>4. QED
  BY <1>1, <1>2, <1>3, PTL DEF SystemSpec
=============================================================================
