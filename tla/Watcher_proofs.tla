--------------------------- MODULE Watcher_proofs ---------------------------
(***************************************************************************)
(* Proofs about Watcher, for every set of pull requests, every set of      *)
(* pollers and every fault budget: its type invariant, and that nothing is *)
(* ever suppressed without a task behind it.                               *)
(***************************************************************************)
EXTENDS Watcher, GitHub_proofs

(***************************************************************************)
(* Types of what the actions are built from.                               *)
(***************************************************************************)

LEMMA TaskIDType ==
    ASSUME NEW p \in PRs, NEW d \in Details
    PROVE  taskID(p, d) \in TaskIDs
BY DEF taskID, DeriveTaskID, TaskIDs, Details, Sha, Commit, QueuedKey, NoNonce

LEMMA QueuedIDType == \A p \in PRs : QueuedID(p) \in TaskIDs
BY DEF QueuedID, TaskIDs, QueuedKey, NoNonce

LEMMA CursorTypes ==
    ASSUME NEW c \in Cursor, NEW p \in PRs, NEW d \in Details
    PROVE  /\ \A start \in Nat : newCursor(start) \in Cursor
           /\ DropMarker(c, p) \in Cursor
           /\ RecordPublish(c, p, d) \in Cursor
<1>1. \A start \in Nat : newCursor(start) \in Cursor
  BY DEF newCursor, Cursor
<1>2. DropMarker(c, p) \in Cursor
  BY DEF DropMarker, Cursor
<1>3. RecordPublish(c, p, d) \in Cursor
  BY TaskIDType DEF RecordPublish, Cursor, queuedMarkerKey
<1>4. QED
  BY <1>1, <1>2, <1>3

LEMMA IdlePollType == IdlePoll \in PollState /\ IdlePoll.pc = "idle"
BY DEF IdlePoll, PollState, newCursor, Cursor

LEMMA LaterType == \A t, u \in Nat : Later(t, u) \in Nat
BY DEF Later

LEMMA FinalCursorType == \A s \in PollState : FinalCursor(s) \in Cursor
BY LaterType DEF FinalCursor, PollState, Cursor

LEMMA AfterHitTypes ==
    ASSUME NEW s \in PollState, s.job \in Job, NEW c \in Cursor
    PROVE  /\ NotAdvanced(s) \in PollState
           /\ NotAdvanced(s).pc = "scan"
           /\ [NotAdvanced(s) EXCEPT !.cursor = c] \in PollState
           /\ [NotAdvanced(s) EXCEPT !.cursor = c].pc = "scan"
           /\ Advanced(s) \in PollState
           /\ Advanced(s).pc = "scan"
           /\ [Advanced(s) EXCEPT !.cursor = c] \in PollState
           /\ [Advanced(s) EXCEPT !.cursor = c].pc = "scan"
<1>1. /\ s.job.hit \in SearchHit /\ s.job.details \in Details
      /\ s.job.hit.pr \in PRs /\ s.job.hit.updated \in Nat
  BY DEF Job, SearchHit
<1>2. taskID(s.job.hit.pr, s.job.details) \in TaskIDs
  BY <1>1, TaskIDType
<1>3. Later(s.maxUpdatedAt, s.job.hit.updated) \in Nat
  BY <1>1, LaterType DEF PollState
<1>4. QED
  BY <1>2, <1>3 DEF NotAdvanced, Advanced, PollState

LEMMA FaultType ==
    ASSUME budget \in [FaultKinds -> Nat], NEW kind \in FaultKinds, Fault(kind)
    PROVE  budget' \in [FaultKinds -> Nat]
BY DEF Fault

\* A save that fails: some polls are over, and the file is as it was or torn.
LEMMA SaveFailsSteps ==
    ASSUME TypeOK, NEW w \in Pollers, SaveFails(w)
    PROVE  /\ poll' \in [Pollers -> PollState]
           /\ \A v \in Pollers : poll'[v] = poll[v] \/ poll'[v] = IdlePoll
           /\ file' = file \/ file' = TornFile
           /\ UNCHANGED <<githubVars, runs, startTime, cancelled>>
           /\ Fault("save") \/ Fault("tear")
<1>1. poll \in [Pollers -> PollState]
  BY DEF TypeOK
<1>2. AtSave(w) /\ UNCHANGED <<githubVars, runs, startTime, cancelled>>
  BY DEF SaveFails
<1>3. CASE SaveIsLost(w)
  BY <1>1, <1>2, <1>3, IdlePollType DEF SaveIsLost
<1>4. CASE SaveTears(w)
  <2>1. PICK over \in SUBSET Pollers :
          poll' = [u \in Pollers |-> IF u \in over THEN IdlePoll ELSE poll[u]]
    BY <1>4 DEF SaveTears
  <2>2. QED
    BY <1>1, <1>2, <1>4, <2>1, IdlePollType DEF SaveTears
<1>5. QED
  BY <1>3, <1>4 DEF SaveFails

LEMMA SendType ==
    ASSUME ControllerTypeOK, NEW j \in Job, SendCommand(j)
    PROVE  ControllerTypeOK'
<1>1. j.hit.pr \in PRs /\ j.details \in Details /\ j.details.commit.spec \in Nat
  BY DEF Job, SearchHit, Details, Commit
<1>2. taskID(j.hit.pr, j.details) \in TaskIDs
  BY <1>1, TaskIDType
<1>3. QED
  BY <1>1, <1>2 DEF SendCommand, CreateTask, ControllerTypeOK

\* One poller's state changes to a well-typed one.
LEMMA PollUpdate ==
    ASSUME poll \in [Pollers -> PollState],
           \A v \in Pollers : poll[v].pc = "evaluate" => poll[v].job \in Job,
           NEW w \in Pollers, NEW s \in PollState,
           s.pc = "evaluate" => s.job \in Job,
           poll' = [poll EXCEPT ![w] = s]
    PROVE  /\ poll' \in [Pollers -> PollState]
           /\ \A v \in Pollers : poll'[v].pc = "evaluate" => poll'[v].job \in Job
OBVIOUS

LEMMA StartProcessType ==
    ASSUME TypeOK, StartProcess
    PROVE  /\ poll' \in [Pollers -> PollState]
           /\ \A w \in Pollers : poll'[w].pc = "evaluate" => poll'[w].job \in Job
           /\ startTime' \in Nat
           /\ cancelled' \in BOOLEAN
<1>1. poll' = [w \in Pollers |-> IdlePoll]
  BY DEF StartProcess
<1>2. startTime' \in Nat
  BY WatcherAssumption DEF StartProcess, TypeOK, GitHubTypeOK
<1>3. QED
  BY <1>1, <1>2, IdlePollType DEF StartProcess

(***************************************************************************)
(* Type correctness.                                                       *)
(***************************************************************************)

LEMMA InitType == Init => TypeOK
<1> SUFFICES ASSUME Init PROVE TypeOK
  OBVIOUS
<1>1. GitHubTypeOK
  BY GitHubInitType DEF Init
<1>2. ControllerTypeOK
  BY DEF Init, ControllerInit, ControllerTypeOK
<1>3. QED
  BY <1>1, <1>2, IdlePollType, WatcherAssumption DEF Init, TypeOK

LEMMA NextType == TypeOK /\ [Next]_vars => TypeOK'
<1> SUFFICES ASSUME TypeOK, [Next]_vars PROVE TypeOK'
  OBVIOUS
<1> USE DEF TypeOK
<1>1. CASE World
  BY <1>1, GitHubTypeCorrect DEF World, watcherVars, ControllerTypeOK
<1>2. ASSUME NEW w \in Pollers, BeginPoll(w)
      PROVE  TypeOK'
  <2> DEFINE s == [IdlePoll EXCEPT !.pc = "search",
                                   !.cursor = LoadCursor(file, startTime)]
  <2>1. LoadCursor(file, startTime) \in Cursor
    BY DEF LoadCursor, Unreadable, newCursor, Cursor
  <2>2. s \in PollState /\ s.pc = "search"
    BY <2>1, IdlePollType DEF PollState
  <2>3. poll' = [poll EXCEPT ![w] = s]
    BY <1>2 DEF BeginPoll
  <2>4. QED
    BY <1>2, <2>2, <2>3, PollUpdate
    DEF BeginPoll, githubVars, GitHubTypeOK, ControllerTypeOK
<1>3. ASSUME NEW w \in Pollers, Search(w)
      PROVE  TypeOK'
  <2> DEFINE since == poll[w].cursor.lastUpdatedAt
             s == [poll[w] EXCEPT !.pc = "scan", !.batch = SearchPRs(since),
                                  !.maxUpdatedAt = since]
  <2>1. since \in Nat
    BY DEF PollState, Cursor
  <2>2. s \in PollState /\ s.pc = "scan"
    BY <2>1, GitHubReadsTyped DEF PollState
  <2>3. poll' = [poll EXCEPT ![w] = s]
    BY <1>3 DEF Search
  <2>4. QED
    BY <1>3, <2>2, <2>3, PollUpdate
    DEF Search, githubVars, GitHubTypeOK, ControllerTypeOK
<1>4. ASSUME NEW w \in Pollers, SkipOutOfScope(w)
      PROVE  TypeOK'
  <2>1. PICK h \in poll[w].batch :
          /\ poll[w].pc = "scan"
          /\ poll' = [poll EXCEPT ![w] =
                        [poll[w] EXCEPT !.batch = poll[w].batch \ {h}]]
    BY <1>4 DEF SkipOutOfScope
  <2> DEFINE s == [poll[w] EXCEPT !.batch = poll[w].batch \ {h}]
  <2>2. s \in PollState /\ s.pc = "scan"
    BY <2>1 DEF PollState
  <2>3. QED
    BY <1>4, <2>1, <2>2, PollUpdate
    DEF SkipOutOfScope, githubVars, GitHubTypeOK, ControllerTypeOK
<1>5. ASSUME NEW w \in Pollers, ReadDetails(w)
      PROVE  TypeOK'
  <2>1. PICK h \in poll[w].batch :
          poll' = [poll EXCEPT ![w] =
                     [poll[w] EXCEPT !.pc = "evaluate",
                                     !.batch = poll[w].batch \ {h},
                                     !.job = [hit |-> h,
                                              details |-> GetPRDetails(h.pr)]]]
    BY <1>5 DEF ReadDetails
  <2> DEFINE j == [hit |-> h, details |-> GetPRDetails(h.pr)]
             s == [poll[w] EXCEPT !.pc = "evaluate",
                                  !.batch = poll[w].batch \ {h}, !.job = j]
  <2>2. h \in SearchHit /\ h.pr \in PRs
    BY DEF PollState, SearchHit
  <2>3. j \in Job
    BY <2>2, GitHubReadsTyped DEF Job
  <2>4. s \in PollState /\ s.job \in Job
    BY <2>3 DEF PollState
  <2>5. QED
    BY <1>5, <2>1, <2>4, PollUpdate
    DEF ReadDetails, githubVars, GitHubTypeOK, ControllerTypeOK
<1>6. ASSUME NEW w \in Pollers, SkipPR(w)
      PROVE  TypeOK'
  <2> DEFINE c == IF EndsQueuedPhase(Verdict(poll[w]))
                  THEN DropMarker(poll[w].cursor, poll[w].job.hit.pr)
                  ELSE poll[w].cursor
             s == [NotAdvanced(poll[w]) EXCEPT !.cursor = c]
  <2>1. poll[w] \in PollState /\ poll[w].job \in Job
    BY <1>6 DEF SkipPR
  <2>2. c \in Cursor
    BY DEF PollState, DropMarker, Cursor
  <2>3. s \in PollState /\ s.pc = "scan"
    BY <2>1, <2>2, AfterHitTypes
  <2>4. poll' = [poll EXCEPT ![w] = s]
    BY <1>6 DEF SkipPR
  <2>5. QED
    BY <1>6, <2>3, <2>4, PollUpdate
    DEF SkipPR, githubVars, GitHubTypeOK, ControllerTypeOK
<1>7. ASSUME NEW w \in Pollers, Suppress(w)
      PROVE  TypeOK'
  <2>1. poll[w] \in PollState /\ poll[w].job \in Job /\ poll[w].cursor \in Cursor
    BY <1>7 DEF Suppress, PollState
  <2>2. Advanced(poll[w]) \in PollState /\ Advanced(poll[w]).pc = "scan"
    BY <2>1, AfterHitTypes
  <2>3. poll' = [poll EXCEPT ![w] = Advanced(poll[w])]
    BY <1>7 DEF Suppress
  <2>4. QED
    BY <1>7, <2>2, <2>3, PollUpdate
    DEF Suppress, githubVars, GitHubTypeOK, ControllerTypeOK
<1>8. ASSUME NEW w \in Pollers, Publish(w)
      PROVE  TypeOK'
  <2> DEFINE c == RecordPublish(poll[w].cursor, poll[w].job.hit.pr,
                                poll[w].job.details)
             s == [Advanced(poll[w]) EXCEPT !.cursor = c]
  <2>1. /\ poll[w] \in PollState /\ poll[w].job \in Job /\ poll[w].cursor \in Cursor
        /\ poll[w].job.hit.pr \in PRs /\ poll[w].job.details \in Details
    BY <1>8 DEF Publish, MayPublish, PollState, Job, SearchHit
  <2>2. c \in Cursor
    BY <2>1, CursorTypes
  <2>3. s \in PollState /\ s.pc = "scan"
    BY <2>1, <2>2, AfterHitTypes
  <2>4. poll' = [poll EXCEPT ![w] = s]
    BY <1>8 DEF Publish
  <2>5. ControllerTypeOK'
    BY <1>8, <2>1, SendType DEF Publish
  <2>6. QED
    BY <1>8, <2>3, <2>4, <2>5, PollUpdate DEF Publish, githubVars, GitHubTypeOK
<1>9. ASSUME NEW w \in Pollers, Save(w)
      PROVE  TypeOK'
  <2>1. file' \in Cursor
    BY <1>9, FinalCursorType DEF Save
  <2>2. poll' = [poll EXCEPT ![w] = IdlePoll]
    BY <1>9 DEF Save
  <2>3. QED
    BY <1>9, <2>1, <2>2, IdlePollType, PollUpdate
    DEF Save, githubVars, GitHubTypeOK, ControllerTypeOK
<1>10. ASSUME NEW w \in Pollers, AbortSearch(w)
       PROVE  TypeOK'
  <2>1. budget' \in [FaultKinds -> Nat]
    BY <1>10, FaultType DEF AbortSearch, FaultKinds
  <2>2. poll' = [poll EXCEPT ![w] = IdlePoll]
    BY <1>10 DEF AbortSearch
  <2>3. QED
    BY <1>10, <2>1, <2>2, IdlePollType, PollUpdate
    DEF AbortSearch, githubVars, GitHubTypeOK, ControllerTypeOK
<1>11. ASSUME NEW w \in Pollers, DetailsFail(w)
       PROVE  TypeOK'
  <2>1. PICK h \in poll[w].batch :
          /\ poll[w].pc = "scan"
          /\ Fault("read")
          /\ poll' = [poll EXCEPT ![w] =
                        [poll[w] EXCEPT !.batch = poll[w].batch \ {h}]]
    BY <1>11 DEF DetailsFail
  <2> DEFINE s == [poll[w] EXCEPT !.batch = poll[w].batch \ {h}]
  <2>2. s \in PollState /\ s.pc = "scan"
    BY <2>1 DEF PollState
  <2>3. budget' \in [FaultKinds -> Nat]
    BY <2>1, FaultType DEF FaultKinds
  <2>4. QED
    BY <1>11, <2>1, <2>2, <2>3, PollUpdate
    DEF DetailsFail, githubVars, GitHubTypeOK, ControllerTypeOK
<1>12. ASSUME NEW w \in Pollers, EvaluateFails(w)
       PROVE  TypeOK'
  <2>1. poll[w] \in PollState /\ poll[w].job \in Job /\ poll[w].cursor \in Cursor
    BY <1>12 DEF EvaluateFails, PollState
  <2>2. NotAdvanced(poll[w]) \in PollState /\ NotAdvanced(poll[w]).pc = "scan"
    BY <2>1, AfterHitTypes
  <2>3. budget' \in [FaultKinds -> Nat]
    BY <1>12, FaultType DEF EvaluateFails, FaultKinds
  <2>4. poll' = [poll EXCEPT ![w] = NotAdvanced(poll[w])]
    BY <1>12 DEF EvaluateFails
  <2>5. QED
    BY <1>12, <2>2, <2>3, <2>4, PollUpdate
    DEF EvaluateFails, githubVars, GitHubTypeOK, ControllerTypeOK
<1>13. ASSUME NEW w \in Pollers, PublishFails(w)
       PROVE  TypeOK'
  <2>1. poll[w] \in PollState /\ poll[w].job \in Job /\ poll[w].cursor \in Cursor
    BY <1>13 DEF PublishFails, MayPublish, PollState
  <2>2. NotAdvanced(poll[w]) \in PollState /\ NotAdvanced(poll[w]).pc = "scan"
    BY <2>1, AfterHitTypes
  <2>3. budget' \in [FaultKinds -> Nat]
    BY <1>13, FaultType DEF PublishFails, FaultKinds
  <2>4. ControllerTypeOK'
    BY <1>13, <2>1, SendType DEF PublishFails, ControllerTypeOK
  <2>5. poll' = [poll EXCEPT ![w] = NotAdvanced(poll[w])]
    BY <1>13 DEF PublishFails
  <2>6. QED
    BY <1>13, <2>2, <2>3, <2>4, <2>5, PollUpdate
    DEF PublishFails, githubVars, GitHubTypeOK
<1>14. ASSUME NEW w \in Pollers, SaveFails(w)
       PROVE  TypeOK'
  <2>1. /\ poll' \in [Pollers -> PollState]
        /\ \A v \in Pollers : poll'[v] = poll[v] \/ poll'[v] = IdlePoll
        /\ file' = file \/ file' = TornFile
        /\ UNCHANGED <<githubVars, runs, startTime, cancelled>>
        /\ Fault("save") \/ Fault("tear")
    BY <1>14, SaveFailsSteps
  <2>2. budget' \in [FaultKinds -> Nat]
    BY <2>1, FaultType DEF FaultKinds
  <2>3. \A v \in Pollers : poll'[v].pc = "evaluate" => poll'[v].job \in Job
    BY <2>1, IdlePollType
  <2>4. QED
    BY <2>1, <2>2, <2>3 DEF githubVars, GitHubTypeOK, ControllerTypeOK
<1>15. CASE Cancel
  BY <1>15, FaultType
  DEF Cancel, FaultKinds, githubVars, GitHubTypeOK, ControllerTypeOK
<1>16. CASE Exit
  BY <1>16, StartProcessType
  DEF Exit, StartProcess, githubVars, GitHubTypeOK, ControllerTypeOK
<1>17. CASE Crash
  BY <1>17, StartProcessType, FaultType
  DEF Crash, StartProcess, FaultKinds, githubVars, GitHubTypeOK, ControllerTypeOK
<1>18. CASE Restart
  BY <1>18, StartProcessType, FaultType
  DEF Restart, StartProcess, FaultKinds, githubVars, GitHubTypeOK, ControllerTypeOK
<1>19. CASE UNCHANGED vars
  BY <1>19 DEF vars, watcherVars, githubVars, GitHubTypeOK, ControllerTypeOK
<1>20. ASSUME NEW w \in Pollers, SearchMisses(w)
       PROVE  TypeOK'
  <2> DEFINE since == poll[w].cursor.lastUpdatedAt
  <2>1. PICK hits \in SUBSET SearchPRs(since) :
          poll' = [poll EXCEPT ![w] =
                     [poll[w] EXCEPT !.pc = "scan", !.batch = hits,
                                     !.maxUpdatedAt = since]]
    BY <1>20 DEF SearchMisses
  <2> DEFINE s == [poll[w] EXCEPT !.pc = "scan", !.batch = hits,
                                  !.maxUpdatedAt = since]
  <2>2. since \in Nat /\ hits \in SUBSET SearchHit
    BY GitHubReadsTyped DEF PollState, Cursor
  <2>3. s \in PollState /\ s.pc = "scan"
    BY <2>2 DEF PollState
  <2>4. budget' \in [FaultKinds -> Nat]
    BY <1>20, FaultType DEF SearchMisses, FaultKinds
  <2>5. QED
    BY <1>20, <2>1, <2>3, <2>4, PollUpdate
    DEF SearchMisses, githubVars, GitHubTypeOK, ControllerTypeOK
<1>21. QED
  BY <1>1, <1>2, <1>3, <1>4, <1>5, <1>6, <1>7, <1>8, <1>9, <1>10, <1>11, <1>12,
     <1>13, <1>14, <1>15, <1>16, <1>17, <1>18, <1>19, <1>20
  DEF Next, PollStep, FaultStep

\* The type invariant holds in every behaviour.
THEOREM TypeCorrect == Spec => []TypeOK
BY InitType, NextType, PTL DEF Spec

(***************************************************************************)
(* Suppression is sound.  SuppressionSound is inductive relative to TypeOK:*)
(* tasks are never removed, a marker and an identifier enter a cursor only *)
(* where a task was created or a backed marker was found, and the file is  *)
(* only ever replaced by the cursor of a poller.                           *)
(***************************************************************************)

LEMMA BackedGrows ==
    ASSUME NEW S, NEW T, S \subseteq T
    PROVE  /\ \A c : BackedCursor(c, S) => BackedCursor(c, T)
           /\ \A s : BackedPoll(s, S) => BackedPoll(s, T)
BY DEF BackedPoll, BackedCursor, BackedID

LEMMA EmptyBacked ==
    ASSUME NEW T
    PROVE  /\ \A start : BackedCursor(newCursor(start), T)
           /\ BackedPoll(IdlePoll, T)
BY DEF BackedPoll, BackedCursor, newCursor, IdlePoll

LEMMA SendCreates ==
    ASSUME NEW j, SendCommand(j)
    PROVE  /\ Created \subseteq Created'
           /\ taskID(j.hit.pr, j.details) \in Created'
<1> DEFINE id == taskID(j.hit.pr, j.details)
           spec == j.details.commit.spec
<1>1. CASE id \in Created
  BY <1>1 DEF SendCommand, CreateTask, Created
<1>2. CASE id \notin Created
  <2>1. runs' = runs \cup {[id |-> id, spec |-> spec]}
    BY <1>2 DEF SendCommand, CreateTask
  <2>2. [id |-> id, spec |-> spec] \in runs' /\ [id |-> id, spec |-> spec].id = id
    BY <2>1
  <2>3. QED
    BY <2>1, <2>2 DEF Created
<1>3. QED
  BY <1>1, <1>2

\* A poller moves to a backed state while the file stays as it is.
LEMMA BackedUpdate ==
    ASSUME TypeOK, SuppressionSound, Created \subseteq Created', file' = file,
           NEW w \in Pollers, NEW s, BackedPoll(s, Created'),
           poll' = [poll EXCEPT ![w] = s]
    PROVE  SuppressionSound'
<1>1. file' \in Cursor => BackedCursor(file', Created')
  BY BackedGrows DEF SuppressionSound
<1>2. ASSUME NEW v \in Pollers
      PROVE  BackedPoll(poll'[v], Created')
  <2>1. CASE v = w
    BY <2>1 DEF TypeOK
  <2>2. CASE v # w
    BY <2>2, BackedGrows DEF TypeOK, SuppressionSound
  <2>3. QED
    BY <2>1, <2>2
<1>3. QED
  BY <1>1, <1>2 DEF SuppressionSound

LEMMA NotAdvancedBacked ==
    ASSUME NEW s \in PollState, NEW T, BackedPoll(s, T)
    PROVE  BackedPoll(NotAdvanced(s), T)
BY DEF NotAdvanced, BackedPoll, PollState

\* Advancing is sound once the identifier of the hit is backed.
LEMMA AdvancedBacked ==
    ASSUME NEW s \in PollState, s.job \in Job, NEW T, BackedPoll(s, T),
           BackedID(taskID(s.job.hit.pr, s.job.details), T)
    PROVE  /\ BackedPoll(Advanced(s), T)
           /\ \A c \in Cursor : BackedCursor(c, T) =>
                  BackedPoll([Advanced(s) EXCEPT !.cursor = c], T)
<1> DEFINE id == taskID(s.job.hit.pr, s.job.details)
<1>1. /\ Advanced(s).newHeadSHAs = s.newHeadSHAs \cup {id}
      /\ Advanced(s).cursor = s.cursor
  BY DEF Advanced, PollState
<1>2. \A c : /\ [Advanced(s) EXCEPT !.cursor = c].newHeadSHAs
                      = s.newHeadSHAs \cup {id}
             /\ [Advanced(s) EXCEPT !.cursor = c].cursor = c
  BY DEF Advanced, PollState
<1>3. QED
  BY <1>1, <1>2 DEF BackedPoll

LEMMA StartBacked ==
    ASSUME SuppressionSound, StartProcess
    PROVE  SuppressionSound'
<1>1. Created' = Created
  BY DEF StartProcess, Created
<1>2. \A w \in Pollers : BackedPoll(poll'[w], Created')
  BY EmptyBacked DEF StartProcess
<1>3. QED
  BY <1>1, <1>2 DEF SuppressionSound, StartProcess

LEMMA InitSuppressionSound == Init => SuppressionSound
BY EmptyBacked, NoFileAssumption DEF Init, SuppressionSound

LEMMA NextSuppressionSound ==
    TypeOK /\ SuppressionSound /\ [Next]_vars => SuppressionSound'
<1> SUFFICES ASSUME TypeOK, SuppressionSound, [Next]_vars
             PROVE  SuppressionSound'
  OBVIOUS
<1>1. CASE World
  BY <1>1 DEF World, watcherVars, SuppressionSound, Created
<1>2. ASSUME NEW w \in Pollers, BeginPoll(w)
      PROVE  SuppressionSound'
  <2> DEFINE c == LoadCursor(file, startTime)
             s == [IdlePoll EXCEPT !.pc = "search", !.cursor = c]
  <2>1. BackedCursor(c, Created)
    BY EmptyBacked DEF LoadCursor, Unreadable, TypeOK, SuppressionSound
  <2>2. s.cursor = c /\ s.newHeadSHAs = {}
    BY DEF IdlePoll
  <2>3. BackedPoll(s, Created)
    BY <2>1, <2>2 DEF BackedPoll
  <2>4. Created' = Created /\ file' = file /\ poll' = [poll EXCEPT ![w] = s]
    BY <1>2 DEF BeginPoll, Created
  <2>5. QED
    BY <2>3, <2>4, BackedUpdate
<1>3. ASSUME NEW w \in Pollers, Search(w)
      PROVE  SuppressionSound'
  <2> DEFINE since == poll[w].cursor.lastUpdatedAt
             s == [poll[w] EXCEPT !.pc = "scan", !.batch = SearchPRs(since),
                                  !.maxUpdatedAt = since]
  <2>1. BackedPoll(s, Created)
    BY DEF SuppressionSound, BackedPoll, TypeOK, PollState
  <2>2. Created' = Created /\ file' = file /\ poll' = [poll EXCEPT ![w] = s]
    BY <1>3 DEF Search, Created
  <2>3. QED
    BY <2>1, <2>2, BackedUpdate
<1>4. ASSUME NEW w \in Pollers, SkipOutOfScope(w) \/ DetailsFail(w)
      PROVE  SuppressionSound'
  <2>1. PICK h \in poll[w].batch :
          /\ poll' = [poll EXCEPT ![w] =
                        [poll[w] EXCEPT !.batch = poll[w].batch \ {h}]]
          /\ runs' = runs /\ file' = file
    BY <1>4 DEF SkipOutOfScope, DetailsFail
  <2> DEFINE s == [poll[w] EXCEPT !.batch = poll[w].batch \ {h}]
  <2>2. BackedPoll(s, Created)
    BY DEF SuppressionSound, BackedPoll, TypeOK, PollState
  <2>3. Created' = Created
    BY <2>1 DEF Created
  <2>4. QED
    BY <2>1, <2>2, <2>3, BackedUpdate
<1>5. ASSUME NEW w \in Pollers, ReadDetails(w)
      PROVE  SuppressionSound'
  <2>1. PICK h \in poll[w].batch :
          poll' = [poll EXCEPT ![w] =
                     [poll[w] EXCEPT !.pc = "evaluate",
                                     !.batch = poll[w].batch \ {h},
                                     !.job = [hit |-> h,
                                              details |-> GetPRDetails(h.pr)]]]
    BY <1>5 DEF ReadDetails
  <2> DEFINE j == [hit |-> h, details |-> GetPRDetails(h.pr)]
             s == [poll[w] EXCEPT !.pc = "evaluate",
                                  !.batch = poll[w].batch \ {h}, !.job = j]
  <2>2. BackedPoll(s, Created)
    BY DEF SuppressionSound, BackedPoll, TypeOK, PollState
  <2>3. Created' = Created /\ file' = file
    BY <1>5 DEF ReadDetails, Created
  <2>4. QED
    BY <2>1, <2>2, <2>3, BackedUpdate
<1>6. ASSUME NEW w \in Pollers, SkipPR(w)
      PROVE  SuppressionSound'
  <2> DEFINE c == IF EndsQueuedPhase(Verdict(poll[w]))
                  THEN DropMarker(poll[w].cursor, poll[w].job.hit.pr)
                  ELSE poll[w].cursor
             s == [NotAdvanced(poll[w]) EXCEPT !.cursor = c]
  <2>1. poll[w] \in PollState /\ poll[w].cursor \in Cursor
    BY DEF TypeOK, PollState
  <2>2. BackedCursor(c, Created)
    BY <2>1 DEF SuppressionSound, BackedPoll, BackedCursor, DropMarker, Cursor
  <2>3. s.cursor = c /\ s.newHeadSHAs = poll[w].newHeadSHAs
    BY <2>1 DEF NotAdvanced, PollState
  <2>4. BackedPoll(s, Created)
    BY <2>2, <2>3 DEF SuppressionSound, BackedPoll
  <2>5. Created' = Created /\ file' = file /\ poll' = [poll EXCEPT ![w] = s]
    BY <1>6 DEF SkipPR, Created
  <2>6. QED
    BY <2>4, <2>5, BackedUpdate
<1>7. ASSUME NEW w \in Pollers, Suppress(w)
      PROVE  SuppressionSound'
  <2> DEFINE s == poll[w]
             p == s.job.hit.pr
             id == taskID(p, s.job.details)
  <2>1. s \in PollState /\ s.job \in Job /\ BackedPoll(s, Created)
    BY <1>7 DEF TypeOK, Suppress, SuppressionSound
  <2>2. id.pr = p
    BY DEF taskID, DeriveTaskID
  <2>3. BackedID(id, Created)
    <3>1. CASE Known(s)
      BY <2>1, <3>1 DEF Known, BackedPoll, BackedCursor
    <3>2. CASE Marked(s)
      BY <2>1, <2>2, <3>2
      DEF Marked, queuedMarkerKey, BackedPoll, BackedCursor, BackedID
    <3>3. QED
      BY <1>7, <3>1, <3>2 DEF Suppress
  <2>4. BackedPoll(Advanced(s), Created)
    BY <2>1, <2>3, AdvancedBacked
  <2>5. Created' = Created /\ file' = file /\ poll' = [poll EXCEPT ![w] = Advanced(s)]
    BY <1>7 DEF Suppress, Created
  <2>6. QED
    BY <2>4, <2>5, BackedUpdate
<1>8. ASSUME NEW w \in Pollers, Publish(w)
      PROVE  SuppressionSound'
  <2> DEFINE s == poll[w]
             p == s.job.hit.pr
             d == s.job.details
             id == taskID(p, d)
             c == RecordPublish(s.cursor, p, d)
  <2>1. /\ s \in PollState /\ s.job \in Job /\ s.cursor \in Cursor
        /\ p \in PRs /\ d \in Details
    BY <1>8 DEF TypeOK, Publish, MayPublish, PollState, Job, SearchHit
  <2>2. Created \subseteq Created' /\ id \in Created'
    BY <1>8, SendCreates DEF Publish
  <2>3. BackedPoll(s, Created')
    BY <2>2, BackedGrows DEF SuppressionSound
  <2>4. BackedID(id, Created')
    BY <2>2 DEF BackedID
  <2>5. d.commit.queued => id = QueuedID(p)
    BY DEF taskID, DeriveTaskID, QueuedID
  <2>6. c \in Cursor
    BY <2>1, CursorTypes
  <2>7. BackedCursor(c, Created')
    <3>1. ASSUME NEW i \in c.headSHAs PROVE BackedID(i, Created')
      BY <2>1, <2>3, <2>4, <3>1 DEF RecordPublish, Cursor, BackedPoll, BackedCursor
    <3>2. ASSUME NEW q \in c.queuedMarkers PROVE QueuedID(q) \in Created'
      BY <2>1, <2>2, <2>3, <2>5, <3>2
      DEF RecordPublish, Cursor, queuedMarkerKey, BackedPoll, BackedCursor
    <3>3. QED
      BY <3>1, <3>2 DEF BackedCursor
  <2>8. BackedPoll([Advanced(s) EXCEPT !.cursor = c], Created')
    BY <2>1, <2>3, <2>4, <2>6, <2>7, AdvancedBacked
  <2>9. file' = file /\ poll' = [poll EXCEPT ![w] = [Advanced(s) EXCEPT !.cursor = c]]
    BY <1>8 DEF Publish
  <2>10. QED
    BY <2>2, <2>8, <2>9, BackedUpdate
<1>9. ASSUME NEW w \in Pollers, Save(w)
      PROVE  SuppressionSound'
  <2>1. BackedCursor(FinalCursor(poll[w]), Created)
    BY DEF SuppressionSound, FinalCursor, BackedPoll, BackedCursor
  <2>2. Created' = Created /\ file' = FinalCursor(poll[w])
        /\ poll' = [poll EXCEPT ![w] = IdlePoll]
    BY <1>9 DEF Save, Created
  <2>3. \A v \in Pollers : BackedPoll(poll'[v], Created')
    BY <2>2, EmptyBacked DEF SuppressionSound, TypeOK
  <2>4. QED
    BY <2>1, <2>2, <2>3 DEF SuppressionSound
<1>10. ASSUME NEW w \in Pollers, AbortSearch(w)
       PROVE  SuppressionSound'
  <2>1. Created' = Created /\ file' = file /\ poll' = [poll EXCEPT ![w] = IdlePoll]
    BY <1>10 DEF AbortSearch, Created
  <2>2. QED
    BY <2>1, EmptyBacked, BackedUpdate
<1>11. ASSUME NEW w \in Pollers, EvaluateFails(w)
       PROVE  SuppressionSound'
  <2>1. BackedPoll(NotAdvanced(poll[w]), Created)
    BY NotAdvancedBacked DEF TypeOK, SuppressionSound
  <2>2. Created' = Created /\ file' = file
        /\ poll' = [poll EXCEPT ![w] = NotAdvanced(poll[w])]
    BY <1>11 DEF EvaluateFails, Created
  <2>3. QED
    BY <2>1, <2>2, BackedUpdate
<1>12. ASSUME NEW w \in Pollers, PublishFails(w)
       PROVE  SuppressionSound'
  <2>1. Created \subseteq Created'
    BY <1>12, SendCreates DEF PublishFails, Created
  <2>2. BackedPoll(NotAdvanced(poll[w]), Created')
    BY <2>1, BackedGrows, NotAdvancedBacked DEF TypeOK, SuppressionSound
  <2>3. file' = file /\ poll' = [poll EXCEPT ![w] = NotAdvanced(poll[w])]
    BY <1>12 DEF PublishFails
  <2>4. QED
    BY <2>1, <2>2, <2>3, BackedUpdate
<1>13. CASE Cancel
  BY <1>13 DEF Cancel, SuppressionSound, Created
<1>14. CASE Exit \/ Crash \/ Restart
  BY <1>14, StartBacked DEF Exit, Crash, Restart
<1>15. CASE UNCHANGED vars
  BY <1>15 DEF vars, watcherVars, SuppressionSound, Created
<1>16. ASSUME NEW w \in Pollers, SearchMisses(w)
       PROVE  SuppressionSound'
  <2> DEFINE since == poll[w].cursor.lastUpdatedAt
  <2>1. PICK hits \in SUBSET SearchPRs(since) :
          /\ poll' = [poll EXCEPT ![w] =
                        [poll[w] EXCEPT !.pc = "scan", !.batch = hits,
                                        !.maxUpdatedAt = since]]
          /\ runs' = runs /\ file' = file
    BY <1>16 DEF SearchMisses
  <2> DEFINE s == [poll[w] EXCEPT !.pc = "scan", !.batch = hits,
                                  !.maxUpdatedAt = since]
  <2>2. BackedPoll(s, Created)
    BY DEF SuppressionSound, BackedPoll, TypeOK, PollState
  <2>3. Created' = Created
    BY <2>1 DEF Created
  <2>4. QED
    BY <2>1, <2>2, <2>3, BackedUpdate
<1>17. ASSUME NEW w \in Pollers, SaveFails(w)
       PROVE  SuppressionSound'
  <2>1. /\ \A v \in Pollers : poll'[v] = poll[v] \/ poll'[v] = IdlePoll
        /\ file' = file \/ file' = TornFile
        /\ Created' = Created
    BY <1>17, SaveFailsSteps DEF Created
  <2>2. \A v \in Pollers : BackedPoll(poll'[v], Created')
    BY <2>1, EmptyBacked DEF SuppressionSound
  <2>3. file' \in Cursor => BackedCursor(file', Created')
    BY <2>1, NoFileAssumption DEF SuppressionSound
  <2>4. QED
    BY <2>2, <2>3 DEF SuppressionSound
<1>18. QED
  BY <1>1, <1>2, <1>3, <1>4, <1>5, <1>6, <1>7, <1>8, <1>9, <1>10, <1>11, <1>12,
     <1>13, <1>14, <1>15, <1>16, <1>17
  DEF Next, PollStep, FaultStep

\* In every behaviour, whatever fails and however the pollers interleave,
\* what a cursor suppresses has a task behind it.
THEOREM SuppressionIsSound == Spec => []SuppressionSound
BY InitType, NextType, InitSuppressionSound, NextSuppressionSound, PTL DEF Spec
=============================================================================
