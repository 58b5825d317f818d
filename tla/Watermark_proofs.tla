--------------------------- MODULE Watermark_proofs --------------------------
(***************************************************************************)
(* What the watermark hides: for any number of pull requests and pollers,  *)
(* with crashes, restarts, cancellations, failed searches and failed saves *)
(* at any time, only the pull requests whose last hit came to nothing, and *)
(* so none as long as no hit failed or was missed.  It needs OneSpec, for  *)
(* a later spec of a branch can be lost to the identifier of an earlier    *)
(* one, and for the second statement a backfill that reaches back to the   *)
(* start, for a cold start looks back no further.                          *)
(*                                                                         *)
(* The argument is about the pull requests that are due: candidates that   *)
(* were not handed over.  One that is due, and not lost, is no older than  *)
(* where the next search starts; within a poll, it awaits its turn in the  *)
(* batch, or is in the poller's hand as it is now, or has changed since    *)
(* the search, and then no hit of the batch is newer.                      *)
(***************************************************************************)
EXTENDS Watcher_proofs, Losses

OneSpec == \A c \in Commits : c.spec = 1

OneSpecInBackfill == OneSpec /\ Backfill >= MaxClock

-----------------------------------------------------------------------------
(***************************************************************************)
(* What holds whatever fails: nothing is from the future, and all is about *)
(* the one spec.                                                           *)
(***************************************************************************)
PollerSane(s) ==
    /\ s.cursor.lastUpdatedAt <= clock
    /\ s.maxUpdatedAt <= clock
    /\ \A h \in s.batch : h.updated <= clock
    /\ s.pc = "evaluate" =>
        s.job.hit.updated <= clock /\ s.job.details.commit.spec = 1

Sane ==
    /\ clock <= MaxClock
    /\ startTime <= clock
    /\ \A p \in PRs : pr[p].updated <= clock /\ pr[p].commit.spec = 1
    /\ \A r \in runs : r.spec = 1
    /\ file \in Cursor => file.lastUpdatedAt <= clock
    /\ \A w \in Pollers : PollerSane(poll[w])

LEMMA InitSane == OneSpec /\ Init => Sane
  <1> SUFFICES ASSUME OneSpec, Init PROVE Sane
    OBVIOUS
  <1>1. MaxClock \in Nat
    BY GitHubAssumption
  <1>2. \A w \in Pollers : PollerSane(poll[w])
    BY DEF Init, GitHubInit, IdlePoll, newCursor, PollerSane
  <1> QED
    BY <1>1, <1>2, NoFileAssumption DEF Init, GitHubInit, ControllerInit, Sane

\* A pull request that changes carries the current second.
LEMMA ChangesAreNow ==
    ASSUME OneSpec, GitHubTypeOK, GitHubNext
    PROVE  /\ clock' \in Nat /\ clock' >= clock
           /\ clock <= MaxClock => clock' <= MaxClock
           /\ \A p \in PRs :
                \/ pr'[p] = pr[p]
                \/ /\ pr'[p].updated = clock /\ clock' = clock
                   /\ pr'[p].commit = pr[p].commit \/ pr'[p].commit.spec = 1
  <1>1. clock \in Nat /\ MaxClock \in Nat /\ pr \in [PRs -> PullRequest]
    BY GitHubAssumption DEF GitHubTypeOK
  <1>2. CASE Tick
    BY <1>1, <1>2 DEF Tick
  <1>3. ASSUME NEW q \in PRs, NEW c \in Commits, Push(q, c), NEW p \in PRs
        PROVE  \/ pr'[p] = pr[p]
               \/ pr'[p].updated = clock /\ pr'[p].commit.spec = 1
    BY <1>1, <1>3 DEF Push, PullRequest, OneSpec
  <1>4. ASSUME NEW q \in PRs, Touch(q) \/ ToggleDraft(q) \/ Close(q) \/ Reopen(q),
               NEW p \in PRs
        PROVE  \/ pr'[p] = pr[p]
               \/ pr'[p].updated = clock /\ pr'[p].commit = pr[p].commit
    BY <1>4, NoPush
  <1>5. Tick \/ clock' = clock
    BY DEF GitHubNext, Push, Touch, ToggleDraft, Close, Reopen
  <1> QED
    BY <1>1, <1>2, <1>3, <1>4, <1>5 DEF GitHubNext

\* A step of one poller.
LEMMA PollerStaysSane ==
    ASSUME TypeOK, Sane, NEW w \in Pollers, NEW s,
           poll' = [poll EXCEPT ![w] = s], UNCHANGED <<githubVars, startTime>>,
           \A r \in runs' \ runs : r.spec = 1,
           file' = file \/ (file' \in Cursor => file'.lastUpdatedAt <= clock),
           PollerSane(s)
    PROVE  Sane'
  <1>1. pr' = pr /\ clock' = clock /\ startTime' = startTime
    BY DEF githubVars
  <1>2. \A v \in Pollers : poll'[v] = IF v = w THEN s ELSE poll[v]
    BY DEF TypeOK
  <1>3. \A v \in Pollers : PollerSane(poll[v])'
    BY <1>1, <1>2 DEF Sane, PollerSane
  <1> QED
    BY <1>1, <1>3 DEF Sane

LEMMA StartsSane ==
    ASSUME OneSpec, TypeOK, Sane, StartProcess
    PROVE  Sane'
  <1>1. /\ clock \in Nat /\ Backfill \in Nat /\ MaxClock \in Nat
        /\ pr' = pr /\ clock' = clock /\ runs' = runs /\ file' = file
    BY WatcherAssumption, GitHubAssumption
    DEF StartProcess, githubVars, TypeOK, GitHubTypeOK
  <1>2. startTime' <= clock
    BY <1>1 DEF StartProcess
  <1>3. \A w \in Pollers : PollerSane(poll[w])'
    BY <1>1 DEF StartProcess, IdlePoll, newCursor, PollerSane
  <1> QED
    BY <1>1, <1>2, <1>3 DEF Sane

LEMMA StepSane ==
    ASSUME OneSpec, TypeOK, Sane, [Next]_vars
    PROVE  Sane'
  <1>1. /\ clock \in Nat /\ startTime <= clock
        /\ \A w \in Pollers :
            /\ poll[w] \in PollState /\ poll[w].cursor \in Cursor
            /\ poll[w].cursor.lastUpdatedAt \in Nat /\ poll[w].maxUpdatedAt \in Nat
            /\ poll[w].batch \subseteq SearchHit
            /\ PollerSane(poll[w])
    BY DEF TypeOK, GitHubTypeOK, PollState, Cursor, Sane
  <1>2. PollerSane(IdlePoll)
    BY <1>1 DEF PollerSane, IdlePoll, newCursor
  <1>3. ASSUME NEW w \in Pollers, BeginPoll(w) PROVE Sane'
    <2> DEFINE s == [IdlePoll EXCEPT !.pc = "search",
                                     !.cursor = LoadCursor(file, startTime)]
    <2>1. /\ poll' = [poll EXCEPT ![w] = s]
          /\ UNCHANGED <<githubVars, runs, file, startTime>>
      BY <1>3 DEF BeginPoll
    <2>2. LoadCursor(file, startTime).lastUpdatedAt <= clock
      BY <1>1 DEF LoadCursor, Unreadable, newCursor, Sane, TypeOK
    <2>3. PollerSane(s)
      BY <1>1, <2>2 DEF PollerSane, IdlePoll
    <2> HIDE DEF s
    <2> QED
      BY <2>1, <2>3, PollerStaysSane
  <1>4. ASSUME NEW w \in Pollers, Search(w) \/ SearchMisses(w) PROVE Sane'
    <2> DEFINE since == poll[w].cursor.lastUpdatedAt
    <2>1. PICK hits \in SUBSET SearchPRs(since) :
            poll' = [poll EXCEPT ![w] =
                       [poll[w] EXCEPT !.pc = "scan", !.batch = hits,
                                       !.maxUpdatedAt = since]]
      BY <1>4 DEF Search, SearchMisses
    <2> DEFINE s == [poll[w] EXCEPT !.pc = "scan", !.batch = hits,
                                    !.maxUpdatedAt = since]
    <2>2. poll' = [poll EXCEPT ![w] = s] /\ UNCHANGED <<githubVars, runs, file, startTime>>
      BY <1>4, <2>1 DEF Search, SearchMisses
    <2>3. s.pc = "scan" /\ s.cursor = poll[w].cursor /\ s.batch = hits
            /\ s.maxUpdatedAt = since
      BY <1>1 DEF PollState
    <2>4. \A h \in hits : h.updated <= clock
      BY DEF SearchPRs, Sane
    <2> HIDE DEF s
    <2>5. PollerSane(s)
      BY <1>1, <2>3, <2>4 DEF PollerSane
    <2> QED
      BY <2>2, <2>5, PollerStaysSane
  <1>5. ASSUME NEW w \in Pollers, AbortSearch(w) PROVE Sane'
    <2>1. poll' = [poll EXCEPT ![w] = IdlePoll]
          /\ UNCHANGED <<githubVars, runs, file, startTime>>
      BY <1>5 DEF AbortSearch
    <2> QED
      BY <1>2, <2>1, PollerStaysSane
  <1>6. ASSUME NEW w \in Pollers, SkipOutOfScope(w) \/ DetailsFail(w) PROVE Sane'
    <2>1. PICK h \in poll[w].batch :
            poll' = [poll EXCEPT ![w] =
                       [poll[w] EXCEPT !.batch = poll[w].batch \ {h}]]
      BY <1>6 DEF SkipOutOfScope, DetailsFail
    <2> DEFINE s == [poll[w] EXCEPT !.batch = poll[w].batch \ {h}]
    <2>2. poll' = [poll EXCEPT ![w] = s] /\ UNCHANGED <<githubVars, runs, file, startTime>>
      BY <1>6, <2>1 DEF SkipOutOfScope, DetailsFail
    <2>3. PollerSane(s)
      BY <1>1 DEF PollerSane, PollState
    <2> HIDE DEF s
    <2> QED
      BY <2>2, <2>3, PollerStaysSane
  <1>7. ASSUME NEW w \in Pollers, ReadDetails(w) PROVE Sane'
    <2>1. PICK h \in poll[w].batch :
            poll' = [poll EXCEPT ![w] =
                       [poll[w] EXCEPT !.pc = "evaluate",
                                       !.batch = poll[w].batch \ {h},
                                       !.job = [hit |-> h,
                                                details |-> GetPRDetails(h.pr)]]]
      BY <1>7 DEF ReadDetails
    <2> DEFINE j == [hit |-> h, details |-> GetPRDetails(h.pr)]
               s == [poll[w] EXCEPT !.pc = "evaluate",
                                    !.batch = poll[w].batch \ {h}, !.job = j]
    <2>2. poll' = [poll EXCEPT ![w] = s] /\ UNCHANGED <<githubVars, runs, file, startTime>>
      BY <1>7, <2>1 DEF ReadDetails
    <2>3. h.pr \in PRs /\ GetPRDetails(h.pr).commit = pr[h.pr].commit
      BY <1>1 DEF SearchHit, GetPRDetails
    <2>4. j.hit.updated <= clock /\ j.details.commit.spec = 1
      BY <1>1, <2>3 DEF PollerSane, Sane
    <2>5. s.job = j /\ s.batch = poll[w].batch \ {h} /\ s.cursor = poll[w].cursor
            /\ s.maxUpdatedAt = poll[w].maxUpdatedAt
      BY <1>1 DEF PollState
    <2> HIDE DEF s, j
    <2>6. PollerSane(s)
      BY <1>1, <2>4, <2>5 DEF PollerSane
    <2> QED
      BY <2>2, <2>6, PollerStaysSane
  <1>8. ASSUME NEW w \in Pollers, NEW s, NEW c \in Cursor, poll[w].pc = "evaluate",
               \/ s = [NotAdvanced(poll[w]) EXCEPT !.cursor = c]
               \/ s = [Advanced(poll[w]) EXCEPT !.cursor = c],
               c.lastUpdatedAt = poll[w].cursor.lastUpdatedAt
        PROVE  PollerSane(s)
    <2>1. /\ poll[w].job.hit.updated <= clock /\ poll[w].job.hit.updated \in Nat
      BY <1>1, <1>8 DEF PollerSane, TypeOK, Job, SearchHit
    <2>2. /\ s.pc = "scan" /\ s.cursor = c /\ s.batch = poll[w].batch
          /\ \/ s.maxUpdatedAt = poll[w].maxUpdatedAt
             \/ s.maxUpdatedAt = Later(poll[w].maxUpdatedAt, poll[w].job.hit.updated)
      BY <1>1, <1>8 DEF NotAdvanced, Advanced, PollState
    <2> QED
      BY <1>1, <1>8, <2>1, <2>2 DEF PollerSane, Later
  <1>9. ASSUME NEW w \in Pollers, poll[w].pc = "evaluate"
        PROVE  PollerSane(NotAdvanced(poll[w])) /\ PollerSane(Advanced(poll[w]))
    <2> DEFINE c == poll[w].cursor
    <2>1. /\ NotAdvanced(poll[w]) = [NotAdvanced(poll[w]) EXCEPT !.cursor = c]
          /\ Advanced(poll[w]) = [Advanced(poll[w]) EXCEPT !.cursor = c]
      BY <1>1 DEF NotAdvanced, Advanced, PollState
    <2> QED
      BY <1>1, <1>8, <1>9, <2>1
  <1>10. ASSUME NEW w \in Pollers, EvaluateFails(w) \/ Suppress(w) PROVE Sane'
    <2>1. PICK s \in {NotAdvanced(poll[w]), Advanced(poll[w])} :
            poll' = [poll EXCEPT ![w] = s]
      BY <1>10 DEF EvaluateFails, Suppress
    <2>2. poll[w].pc = "evaluate" /\ UNCHANGED <<githubVars, runs, file, startTime>>
      BY <1>10 DEF EvaluateFails, Suppress
    <2> QED
      BY <1>9, <2>1, <2>2, PollerStaysSane
  <1>11. ASSUME NEW w \in Pollers, SkipPR(w) PROVE Sane'
    <2> DEFINE c == IF EndsQueuedPhase(Verdict(poll[w]))
                    THEN DropMarker(poll[w].cursor, poll[w].job.hit.pr)
                    ELSE poll[w].cursor
               s == [NotAdvanced(poll[w]) EXCEPT !.cursor = c]
    <2>1. poll[w].pc = "evaluate" /\ poll' = [poll EXCEPT ![w] = s]
          /\ UNCHANGED <<githubVars, runs, file, startTime>>
      BY <1>11 DEF SkipPR
    <2>2. c \in Cursor /\ c.lastUpdatedAt = poll[w].cursor.lastUpdatedAt
      BY <1>1 DEF DropMarker, Cursor
    <2> HIDE DEF c
    <2>3. PollerSane(s)
      BY <1>8, <2>1, <2>2
    <2> HIDE DEF s
    <2> QED
      BY <2>1, <2>3, PollerStaysSane
  <1>12. ASSUME NEW w \in Pollers, poll[w].pc = "evaluate", SendCommand(poll[w].job)
         PROVE  \A r \in runs' \ runs : r.spec = 1
    BY <1>1, <1>12 DEF PollerSane, SendCommand, CreateTask
  <1>13. ASSUME NEW w \in Pollers, Publish(w) PROVE Sane'
    <2> DEFINE c == RecordPublish(poll[w].cursor, poll[w].job.hit.pr,
                                  poll[w].job.details)
               s == [Advanced(poll[w]) EXCEPT !.cursor = c]
    <2>1. poll[w].pc = "evaluate" /\ SendCommand(poll[w].job)
          /\ poll' = [poll EXCEPT ![w] = s] /\ UNCHANGED <<githubVars, file, startTime>>
      BY <1>13 DEF Publish, MayPublish
    <2>2. poll[w].job.hit.pr \in PRs /\ poll[w].job.details \in Details
      BY <2>1 DEF TypeOK, Job, SearchHit
    <2>3. c \in Cursor
      BY <1>1, <2>2, CursorTypes
    <2>4. c.lastUpdatedAt = poll[w].cursor.lastUpdatedAt
      BY <1>1 DEF RecordPublish, Cursor
    <2> HIDE DEF c
    <2>5. PollerSane(s)
      BY <1>8, <2>1, <2>3, <2>4
    <2> HIDE DEF s
    <2> QED
      BY <1>12, <2>1, <2>5, PollerStaysSane
  <1>14. ASSUME NEW w \in Pollers, PublishFails(w) PROVE Sane'
    <2>1. /\ poll[w].pc = "evaluate" /\ (SendCommand(poll[w].job) \/ runs' = runs)
          /\ poll' = [poll EXCEPT ![w] = NotAdvanced(poll[w])]
          /\ UNCHANGED <<githubVars, file, startTime>>
      BY <1>14 DEF PublishFails, MayPublish
    <2>2. \A r \in runs' \ runs : r.spec = 1
      BY <1>12, <2>1
    <2> QED
      BY <1>9, <2>1, <2>2, PollerStaysSane
  <1>15. ASSUME NEW w \in Pollers, Save(w) PROVE Sane'
    <2>1. /\ poll' = [poll EXCEPT ![w] = IdlePoll] /\ file' = FinalCursor(poll[w])
          /\ UNCHANGED <<githubVars, runs, startTime>>
      BY <1>15 DEF Save
    <2>2. file'.lastUpdatedAt <= clock
      BY <1>1, <2>1 DEF FinalCursor, Later, PollerSane
    <2> QED
      BY <1>2, <2>1, <2>2, PollerStaysSane
  <1>16. CASE World
    <2>1. /\ GitHubTypeOK /\ GitHubNext
          /\ UNCHANGED <<runs, file, poll, startTime>>
      BY <1>16 DEF World, watcherVars, TypeOK
    <2>2. \A p \in PRs : pr'[p].updated <= clock' /\ pr'[p].commit.spec = 1
      BY <1>1, <2>1, ChangesAreNow DEF Sane, GitHubTypeOK, PullRequest
    <2>3. clock' <= MaxClock /\ clock' >= clock /\ clock' \in Nat
      BY <2>1, ChangesAreNow DEF Sane
    <2>4. file \in Cursor => file.lastUpdatedAt \in Nat
      BY DEF TypeOK, Cursor
    <2>5. file' \in Cursor => file'.lastUpdatedAt <= clock'
      BY <1>1, <2>1, <2>3, <2>4 DEF Sane
    <2>6. ASSUME NEW w \in Pollers PROVE PollerSane(poll[w])'
      <3>1. /\ \A h \in poll[w].batch : h.updated \in Nat
            /\ poll[w].pc = "evaluate" => poll[w].job.hit.updated \in Nat
        BY <1>1 DEF TypeOK, Job, SearchHit
      <3> QED
        BY <1>1, <2>1, <2>3, <3>1 DEF PollerSane
    <2>7. startTime' <= clock'
      BY <1>1, <2>1, <2>3 DEF TypeOK
    <2> QED
      BY <2>1, <2>2, <2>3, <2>5, <2>6, <2>7 DEF Sane
  <1>17. CASE Exit \/ Crash \/ Restart
    BY <1>17, StartsSane DEF Exit, Crash, Restart
  <1>18. CASE Cancel \/ UNCHANGED vars
    <2>1. UNCHANGED <<pr, clock, runs, file, poll, startTime>>
      BY <1>18 DEF Cancel, vars, watcherVars, githubVars
    <2> QED
      BY <2>1 DEF Sane, PollerSane
  <1>19. ASSUME NEW w \in Pollers, SaveFails(w) PROVE Sane'
    <2>1. /\ \A v \in Pollers : poll'[v] = poll[v] \/ poll'[v] = IdlePoll
          /\ file' = file \/ file' = TornFile
          /\ UNCHANGED <<pr, clock, runs, startTime>>
      BY <1>19, SaveFailsSteps DEF githubVars
    <2>2. \A v \in Pollers : PollerSane(poll[v])'
      BY <1>1, <1>2, <2>1 DEF PollerSane
    <2>3. file' \in Cursor => file'.lastUpdatedAt <= clock
      BY <2>1, NoFileAssumption DEF Sane
    <2> QED
      BY <2>1, <2>2, <2>3 DEF Sane
  <1> QED
    BY <1>3, <1>4, <1>5, <1>6, <1>7, <1>10, <1>11, <1>13, <1>14, <1>15, <1>16, <1>17,
       <1>18, <1>19
    DEF Next, PollStep, FaultStep

-----------------------------------------------------------------------------
(***************************************************************************)
(* The pull requests that are due, and where they are.                     *)
(***************************************************************************)
Due(p) == p \in Allowed /\ IsCandidate(p) /\ ~Handled(p)

\* No hit of this batch is newer.
Recent(p, s) ==
    /\ s.maxUpdatedAt <= pr[p].updated
    /\ \A h \in s.batch : h.updated <= pr[p].updated
    /\ s.pc = "evaluate" => s.job.hit.updated <= pr[p].updated

Awaits(p, s) == \E h \in s.batch : h.pr = p

InHand(p, s) ==
    /\ s.pc = "evaluate"
    /\ s.job.hit.pr = p
    /\ s.job.details = GetPRDetails(p)

PollerCovers(M, s) ==
    \A p \in PRs \ M : Due(p) =>
        /\ s.pc # "idle" => s.cursor.lastUpdatedAt <= pr[p].updated
        /\ s.pc \in {"scan", "evaluate"} =>
                Recent(p, s) \/ Awaits(p, s) \/ InHand(p, s)

\* Where the next search starts, with the cursor f as the file.
FileCovers(M, f) ==
    f \in Cursor => \A p \in PRs \ M : Due(p) => f.lastUpdatedAt <= pr[p].updated

\* All but the pull requests in M.
Covered(M) ==
    /\ FileCovers(M, file)
    /\ \A w \in Pollers : PollerCovers(M, poll[w])

BudgetFalls == \A k \in FaultKinds : budget[k] <= FaultBudget[k]

\* startTime: the backfill reaches back to the beginning.
WatermarkInv ==
    /\ Sane
    /\ BudgetFalls
    /\ startTime = 0
    /\ NoHitFailed => ~cancelled /\ Covered({})

HitFaults == {"index", "read", "send", "ack", "cancel"}

LEMMA InitCovered == ASSUME Init, NEW M PROVE Covered(M)
  <1>1. \A p \in PRs : pr[p].updated = 0
    BY DEF Init, GitHubInit
  <1>2. file \notin Cursor
    BY NoFileAssumption DEF Init
  <1>3. \A w \in Pollers : poll[w].pc = "idle"
    BY DEF Init, IdlePoll
  <1> QED
    BY <1>1, <1>2, <1>3 DEF Covered, FileCovers, PollerCovers

LEMMA InitWatermark == OneSpec /\ Init => WatermarkInv
  <1> SUFFICES ASSUME OneSpec, Init PROVE WatermarkInv
    OBVIOUS
  <1>1. BudgetFalls
    BY WatcherAssumption DEF Init, BudgetFalls
  <1>2. ~cancelled /\ Covered({})
    BY InitCovered DEF Init
  <1> QED
    BY <1>1, <1>2, InitSane DEF Init, WatermarkInv

\* A fault that costs a hit is remembered.
LEMMA HitFaultsShow ==
    ASSUME TypeOK, BudgetFalls, NEW k \in FaultKinds, Fault(k)
    PROVE  /\ BudgetFalls'
           /\ NoHitFailed' => NoHitFailed /\ k \notin HitFaults
  <1>1. /\ budget \in [FaultKinds -> Nat] /\ FaultBudget \in [FaultKinds -> Nat]
        /\ HitFaults \subseteq FaultKinds
    BY WatcherAssumption DEF TypeOK, HitFaults, FaultKinds
  <1>2. \A l \in FaultKinds :
          budget'[l] = IF l = k THEN budget[l] - 1 ELSE budget[l]
    BY <1>1 DEF Fault
  <1>3. BudgetFalls'
    BY <1>1, <1>2 DEF BudgetFalls
  <1>4. NoHitFailed' => k \notin HitFaults
    BY <1>1, <1>2 DEF BudgetFalls, NoHitFailed, HitFaults
  <1>5. NoHitFailed' => NoHitFailed
    BY <1>1, <1>2, <1>4 DEF NoHitFailed, HitFaults
  <1> QED
    BY <1>3, <1>4, <1>5

\* Nothing becomes due but by a change on GitHub.
LEMMA DueShrinks ==
    ASSUME pr' = pr, runs \subseteq runs', NEW p \in PRs, Due(p)'
    PROVE  Due(p)
  BY DEF Due, IsCandidate, Handled, GetPRDetails, ListPRFilesHasSpec

\* A step of one poller.
LEMMA PollerStaysCovered ==
    ASSUME TypeOK, NEW M, Covered(M), NEW w \in Pollers, NEW s,
           poll' = [poll EXCEPT ![w] = s], UNCHANGED <<githubVars, startTime>>,
           runs \subseteq runs',
           file' = file \/ FileCovers(M, file'),
           \A p \in PRs \ M : Due(p)' =>
                /\ s.pc # "idle" => s.cursor.lastUpdatedAt <= pr[p].updated
                /\ s.pc \in {"scan", "evaluate"} =>
                        Recent(p, s) \/ Awaits(p, s) \/ InHand(p, s)
    PROVE  Covered(M)'
  <1>1. pr' = pr /\ startTime' = startTime
    BY DEF githubVars
  <1>2. \A v \in Pollers : poll'[v] = IF v = w THEN s ELSE poll[v]
    BY DEF TypeOK
  <1>3. \A p \in PRs : Due(p)' => Due(p)
    BY <1>1, DueShrinks
  <1>4. FileCovers(M, file)'
    <2>1. FileCovers(M, file')
      BY DEF Covered
    <2> QED
      BY <1>1, <1>3, <2>1 DEF FileCovers
  <1>5. ASSUME NEW v \in Pollers PROVE PollerCovers(M, poll[v])'
    <2>1. CASE v = w
      BY <1>1, <1>2, <2>1 DEF PollerCovers, Recent, Awaits, InHand, GetPRDetails
    <2>2. CASE v # w
      <3>1. poll'[v] = poll[v] /\ PollerCovers(M, poll[v])
        BY <1>2, <2>2 DEF Covered
      <3> QED
        BY <1>1, <1>3, <3>1 DEF PollerCovers, Recent, Awaits, InHand, GetPRDetails
    <2> QED
      BY <2>1, <2>2
  <1> QED
    BY <1>4, <1>5 DEF Covered

LEMMA IdleIsCovered ==
    ASSUME TypeOK, NEW M, Covered(M), NEW w \in Pollers,
           poll' = [poll EXCEPT ![w] = IdlePoll],
           UNCHANGED <<githubVars, runs, startTime>>,
           file' = file \/ FileCovers(M, file')
    PROVE  Covered(M)'
  <1>1. IdlePoll.pc \notin {"search", "scan", "evaluate"} /\ IdlePoll.pc = "idle"
    BY DEF IdlePoll
  <1>2. runs \subseteq runs'
    OBVIOUS
  <1>3. ASSUME NEW p \in PRs \ M, Due(p)'
        PROVE  /\ IdlePoll.pc # "idle" => IdlePoll.cursor.lastUpdatedAt <= pr[p].updated
               /\ IdlePoll.pc \in {"scan", "evaluate"} =>
                     Recent(p, IdlePoll) \/ Awaits(p, IdlePoll) \/ InHand(p, IdlePoll)
    BY <1>1
  <1> QED
    BY <1>2, <1>3, PollerStaysCovered

-----------------------------------------------------------------------------
(***************************************************************************)
(* Steps of GitHub, and the verdict on a hit in hand.                      *)
(***************************************************************************)
LEMMA WorldCovered ==
    ASSUME OneSpec, TypeOK, Sane, NEW L, Covered(L), World,
           NEW M, \A p \in PRs \ M : pr'[p] # pr[p] \/ p \notin L
    PROVE  Covered(M)'
  <1>1. /\ GitHubTypeOK /\ GitHubNext
        /\ UNCHANGED <<runs, file, poll, startTime>>
    BY DEF World, watcherVars, TypeOK
  <1>2. \A p \in PRs \ M : (p \notin L /\ pr'[p] = pr[p]) \/ pr'[p].updated = clock
    BY <1>1, ChangesAreNow
  <1>3. ASSUME NEW p \in PRs, Due(p)', pr'[p] = pr[p] PROVE Due(p)
    BY <1>1, <1>3 DEF Due, IsCandidate, Handled, GetPRDetails, ListPRFilesHasSpec
  <1>4. FileCovers(M, file)'
    <2>1. file \in Cursor => file.lastUpdatedAt <= clock
      BY DEF Sane
    <2> QED
      BY <1>1, <1>2, <1>3, <2>1 DEF Covered, FileCovers
  <1>5. ASSUME NEW w \in Pollers PROVE PollerCovers(M, poll[w])'
    <2> SUFFICES ASSUME NEW p \in PRs \ M, Due(p)'
                 PROVE  /\ poll[w].pc # "idle" =>
                              poll[w].cursor.lastUpdatedAt <= pr'[p].updated
                        /\ poll[w].pc \in {"scan", "evaluate"} =>
                              \/ Recent(p, poll[w])'
                              \/ Awaits(p, poll[w])
                              \/ InHand(p, poll[w])'
      BY <1>1 DEF PollerCovers, Awaits
    <2>1. PollerSane(poll[w]) /\ PollerCovers(L, poll[w]) /\ poll' = poll
      BY <1>1 DEF Sane, Covered
    <2>2. CASE pr'[p].updated = clock
      BY <2>1, <2>2 DEF PollerSane, Recent
    <2>3. CASE p \notin L /\ pr'[p] = pr[p]
      <3>1. Due(p)
        BY <1>3, <2>3
      <3> QED
        BY <2>1, <2>3, <3>1 DEF PollerCovers, Recent, Awaits, InHand, GetPRDetails
    <2> QED
      BY <1>2, <2>2, <2>3
  <1> QED
    BY <1>1, <1>4, <1>5 DEF Covered

\* A cursor that suppresses what it has in hand speaks for a run of its spec.
LEMMA SuppressedIsHandled ==
    ASSUME TypeOK, Sane, SuppressionSound, NEW w \in Pollers, NEW p \in PRs,
           InHand(p, poll[w]), Known(poll[w]) \/ Marked(poll[w])
    PROVE  Handled(p)
  <1> DEFINE id == taskID(p, GetPRDetails(p))
  <1>1. /\ Known(poll[w]) => id \in poll[w].cursor.headSHAs
        /\ Marked(poll[w]) => p \in poll[w].cursor.queuedMarkers
    BY DEF InHand, Known, Marked, queuedMarkerKey
  <1>2. id.pr = p
    BY DEF taskID, DeriveTaskID
  <1>3. id \in Created \/ QueuedID(p) \in Created
    BY <1>1, <1>2 DEF SuppressionSound, BackedPoll, BackedCursor, BackedID
  <1>4. PICK r \in runs : r.id = id \/ r.id = QueuedID(p)
    BY <1>3 DEF Created
  <1>5. r.spec = 1 /\ pr[p].commit.spec = 1
    BY DEF Sane
  <1> QED
    BY <1>4, <1>5 DEF Handled

\* What was sent is handled.
LEMMA SentIsHandled ==
    ASSUME Sane, NEW w \in Pollers, NEW p \in PRs, InHand(p, poll[w]),
           SendCommand(poll[w].job), pr' = pr
    PROVE  Handled(p)'
  <1> DEFINE id == taskID(p, GetPRDetails(p))
  <1>1. /\ runs' = IF id \in Created THEN runs
                   ELSE runs \cup {[id |-> id, spec |-> pr[p].commit.spec]}
        /\ pr[p].commit.spec = 1
    BY DEF InHand, SendCommand, CreateTask, GetPRDetails, Sane
  <1>2. id = taskID(p, GetPRDetails(p))'
    BY DEF GetPRDetails, taskID, DeriveTaskID
  <1> HIDE DEF id
  <1>3. CASE id \in Created
    <2>1. PICK r \in runs : r.id = id
      BY <1>3 DEF Created
    <2>2. r \in runs' /\ r.spec = 1
      BY <1>1, <1>3, <2>1 DEF Sane
    <2> QED
      BY <1>1, <1>2, <2>1, <2>2 DEF Handled
  <1>4. CASE id \notin Created
    <2> DEFINE r == [id |-> id, spec |-> pr[p].commit.spec]
    <2>1. r \in runs' /\ r.id = id /\ r.spec = pr[p].commit.spec
      BY <1>1, <1>4
    <2> QED
      BY <1>2, <2>1 DEF Handled
  <1> QED
    BY <1>3, <1>4

\* After a hit: the hit's time may count now, and whatever was due and in hand
\* is due no more.
LEMMA HitIsCovered ==
    ASSUME TypeOK, Sane, NEW M, Covered(M), NEW w \in Pollers, poll[w].pc = "evaluate",
           NEW s, s.pc = "scan", s.batch = poll[w].batch,
           s.cursor.lastUpdatedAt = poll[w].cursor.lastUpdatedAt,
           \/ s.maxUpdatedAt = poll[w].maxUpdatedAt
           \/ s.maxUpdatedAt = Later(poll[w].maxUpdatedAt, poll[w].job.hit.updated),
           poll' = [poll EXCEPT ![w] = s],
           UNCHANGED <<githubVars, file, startTime>>, runs \subseteq runs',
           \A p \in PRs \ M : InHand(p, poll[w]) => ~Due(p)'
    PROVE  Covered(M)'
  <1>1. ASSUME NEW p \in PRs \ M, Due(p)'
        PROVE  /\ s.cursor.lastUpdatedAt <= pr[p].updated
               /\ Recent(p, s) \/ Awaits(p, s)
    <2>1. Due(p) /\ ~InHand(p, poll[w]) /\ PollerCovers(M, poll[w])
      BY <1>1, DueShrinks DEF githubVars, Covered
    <2>2. /\ poll[w].cursor.lastUpdatedAt <= pr[p].updated
          /\ Recent(p, poll[w]) \/ Awaits(p, poll[w])
      BY <2>1 DEF PollerCovers
    <2> QED
      BY <2>2 DEF Recent, Awaits, Later
  <1> QED
    BY <1>1, PollerStaysCovered

-----------------------------------------------------------------------------
(***************************************************************************)
(* Every step, and the theorem.                                            *)
(***************************************************************************)
\* Nothing is lost of p in this step.
Spared(p) == \A w \in Pollers : ~StartsBehind(w, p) /\ ~Loses(w, p)

LEMMA StepCovered ==
    ASSUME OneSpec, TypeOK, SuppressionSound, Sane, [Next]_vars,
           NEW M, Covered(M), \A p \in PRs \ M : Spared(p)
    PROVE  Covered(M)'
  <1>1. /\ \A w \in Pollers :
            /\ poll[w] \in PollState /\ poll[w].cursor \in Cursor
            /\ poll[w].batch \subseteq SearchHit
            /\ PollerCovers(M, poll[w])
    BY DEF TypeOK, PollState, Covered
  <1>2. \A p \in PRs \ M, w \in Pollers : ~StartsBehind(w, p) /\ ~Loses(w, p)
    BY DEF Spared
  <1>3. ASSUME NEW w \in Pollers, BeginPoll(w) PROVE Covered(M)'
    <2> DEFINE s == [IdlePoll EXCEPT !.pc = "search",
                                     !.cursor = LoadCursor(file, startTime)]
    <2>1. /\ poll' = [poll EXCEPT ![w] = s]
          /\ UNCHANGED <<githubVars, runs, file, startTime>> /\ runs \subseteq runs'
      BY <1>3 DEF BeginPoll
    <2>2. s.pc = "search" /\ s.cursor = LoadCursor(file, startTime)
      BY DEF IdlePoll
    <2>3. ASSUME NEW p \in PRs \ M, Due(p)'
          PROVE  LoadCursor(file, startTime).lastUpdatedAt <= pr[p].updated
      <3>1. Due(p)
        BY <2>1, <2>3, DueShrinks DEF githubVars
      <3>2. CASE Unreadable(file)
        <4>1. startTime \in Nat /\ pr[p].updated \in Nat
          BY DEF TypeOK, GitHubTypeOK, PullRequest
        <4> QED
          BY <1>2, <1>3, <3>2, <4>1 DEF StartsBehind, InWindow, LoadCursor, newCursor
      <3>3. CASE ~Unreadable(file)
        BY <3>1, <3>3 DEF Covered, FileCovers, LoadCursor, Unreadable, TypeOK
      <3> QED
        BY <3>2, <3>3
    <2> HIDE DEF s
    <2> QED
      BY <2>1, <2>2, <2>3, PollerStaysCovered
  <1>4. ASSUME NEW w \in Pollers, Search(w) \/ SearchMisses(w) PROVE Covered(M)'
    <2> DEFINE since == poll[w].cursor.lastUpdatedAt
    <2>1. PICK hits :
            /\ poll' = [poll EXCEPT ![w] = [poll[w] EXCEPT !.pc = "scan", !.batch = hits,
                                                           !.maxUpdatedAt = since]]
            /\ hits = SearchPRs(since) \/ SearchMisses(w)
      BY <1>4 DEF Search, SearchMisses
    <2> DEFINE s == [poll[w] EXCEPT !.pc = "scan", !.batch = hits,
                                    !.maxUpdatedAt = since]
    <2>2. /\ poll' = [poll EXCEPT ![w] = s] /\ poll[w].pc = "search"
          /\ UNCHANGED <<githubVars, runs, file, startTime>> /\ runs \subseteq runs'
      BY <1>4, <2>1 DEF Search, SearchMisses
    <2>3. /\ s.pc = "scan" /\ s.cursor = poll[w].cursor /\ s.batch = hits
          /\ poll'[w] = s
      BY <1>1, <2>2 DEF PollState, TypeOK
    <2> HIDE DEF s
    <2>4. ASSUME NEW p \in PRs \ M, Due(p)'
          PROVE  since <= pr[p].updated /\ Awaits(p, s)
      <3> DEFINE h == [pr |-> p, updated |-> pr[p].updated]
      <3>1. Due(p)
        BY <2>2, <2>4, DueShrinks DEF githubVars
      <3>2. since <= pr[p].updated /\ pr[p].open
        BY <1>1, <2>2, <3>1
        DEF PollerCovers, Due, IsCandidate, Evaluate, GetPRDetails, Keep
      <3>3. since \in Nat /\ pr[p].updated \in Nat
        BY <1>1 DEF Cursor, TypeOK, GitHubTypeOK, PullRequest
      <3>4. h \in SearchPRs(since)
        BY <3>2, <3>3 DEF SearchPRs, InWindow
      <3>5. h.pr = p
        OBVIOUS
      <3> HIDE DEF h
      <3>6. h \in hits
        BY <1>2, <2>1, <2>3, <3>4, <3>5 DEF Loses, PRsOf
      <3> QED
        BY <2>3, <3>2, <3>5, <3>6 DEF Awaits
    <2> QED
      BY <2>2, <2>3, <2>4, PollerStaysCovered
  <1>5. ASSUME NEW w \in Pollers, AbortSearch(w) PROVE Covered(M)'
    BY <1>5, IdleIsCovered DEF AbortSearch
  <1>6. ASSUME NEW w \in Pollers, SkipOutOfScope(w) \/ DetailsFail(w) PROVE Covered(M)'
    <2>1. PICK h \in poll[w].batch :
            /\ h.pr \notin Allowed \/ DetailsFail(w)
            /\ poll[w].pc = "scan"
            /\ poll' = [poll EXCEPT ![w] =
                          [poll[w] EXCEPT !.batch = poll[w].batch \ {h}]]
            /\ UNCHANGED <<githubVars, runs, file, startTime>>
      BY <1>6 DEF SkipOutOfScope, DetailsFail
    <2> DEFINE s == [poll[w] EXCEPT !.batch = poll[w].batch \ {h}]
    <2>2. /\ s.pc = "scan" /\ s.cursor = poll[w].cursor
          /\ s.batch = poll[w].batch \ {h} /\ s.maxUpdatedAt = poll[w].maxUpdatedAt
          /\ poll' = [poll EXCEPT ![w] = s] /\ runs \subseteq runs'
      BY <1>1, <2>1 DEF PollState
    <2>3. poll'[w] = s
      BY <2>2 DEF TypeOK
    <2> HIDE DEF s
    <2>4. ASSUME NEW p \in PRs \ M, Due(p)'
          PROVE  /\ s.cursor.lastUpdatedAt <= pr[p].updated
                 /\ Recent(p, s) \/ Awaits(p, s)
      <3>1. Due(p) /\ p \in Allowed
        BY <2>1, <2>2, <2>4, DueShrinks DEF githubVars, Due
      <3>2. p # h.pr
        BY <1>2, <2>1, <2>2, <2>3, <3>1 DEF Loses, PRsOf
      <3> QED
        BY <1>1, <2>1, <2>2, <3>1, <3>2 DEF PollerCovers, Recent, Awaits, InHand
    <2> QED
      BY <2>1, <2>2, <2>4, PollerStaysCovered
  <1>7. ASSUME NEW w \in Pollers, ReadDetails(w) PROVE Covered(M)'
    <2>1. PICK h \in poll[w].batch :
            /\ poll[w].pc = "scan"
            /\ poll' = [poll EXCEPT ![w] =
                       [poll[w] EXCEPT !.pc = "evaluate",
                                       !.batch = poll[w].batch \ {h},
                                       !.job = [hit |-> h,
                                                details |-> GetPRDetails(h.pr)]]]
            /\ UNCHANGED <<githubVars, runs, file, startTime>>
      BY <1>7 DEF ReadDetails
    <2> DEFINE j == [hit |-> h, details |-> GetPRDetails(h.pr)]
               s == [poll[w] EXCEPT !.pc = "evaluate",
                                    !.batch = poll[w].batch \ {h}, !.job = j]
    <2>2. /\ s.pc = "evaluate" /\ s.job = j /\ s.cursor = poll[w].cursor
          /\ s.batch = poll[w].batch \ {h} /\ s.maxUpdatedAt = poll[w].maxUpdatedAt
          /\ poll' = [poll EXCEPT ![w] = s] /\ runs \subseteq runs'
      BY <1>1, <2>1 DEF PollState
    <2>3. j.hit = h /\ j.details = GetPRDetails(h.pr)
      OBVIOUS
    <2> HIDE DEF s, j
    <2>4. ASSUME NEW p \in PRs \ M, Due(p)'
          PROVE  /\ s.cursor.lastUpdatedAt <= pr[p].updated
                 /\ Recent(p, s) \/ Awaits(p, s) \/ InHand(p, s)
      <3>1. Due(p)
        BY <2>1, <2>4, DueShrinks DEF githubVars
      <3>2. /\ poll[w].cursor.lastUpdatedAt <= pr[p].updated
            /\ Recent(p, poll[w]) \/ Awaits(p, poll[w])
        BY <1>1, <2>1, <3>1 DEF PollerCovers, InHand
      <3>3. CASE Recent(p, poll[w])
        BY <2>1, <2>2, <2>3, <3>2, <3>3 DEF Recent
      <3>4. CASE Awaits(p, poll[w])
        BY <2>2, <2>3, <3>2, <3>4 DEF Awaits, InHand
      <3> QED
        BY <3>2, <3>3, <3>4
    <2> QED
      BY <2>1, <2>2, <2>4, PollerStaysCovered
  <1>8. ASSUME NEW w \in Pollers, SkipPR(w) PROVE Covered(M)'
    <2> DEFINE c == IF EndsQueuedPhase(Verdict(poll[w]))
                    THEN DropMarker(poll[w].cursor, poll[w].job.hit.pr)
                    ELSE poll[w].cursor
               s == [NotAdvanced(poll[w]) EXCEPT !.cursor = c]
    <2>1. /\ poll[w].pc = "evaluate" /\ poll' = [poll EXCEPT ![w] = s]
          /\ Verdict(poll[w]) # Keep
          /\ UNCHANGED <<githubVars, runs, file, startTime>> /\ runs \subseteq runs'
      BY <1>8 DEF SkipPR
    <2>2. c.lastUpdatedAt = poll[w].cursor.lastUpdatedAt
      BY <1>1 DEF DropMarker, Cursor
    <2>3. /\ s.pc = "scan" /\ s.batch = poll[w].batch /\ s.cursor = c
          /\ s.maxUpdatedAt = poll[w].maxUpdatedAt
      BY <1>1 DEF NotAdvanced, PollState
    <2> HIDE DEF c
    <2>4. ASSUME NEW p \in PRs \ M, InHand(p, poll[w]) PROVE ~Due(p)'
      <3>1. ~IsCandidate(p)
        BY <2>1, <2>4 DEF InHand, Verdict, IsCandidate
      <3> QED
        BY <2>1, <3>1, DueShrinks DEF Due, githubVars
    <2> HIDE DEF s
    <2> QED
      BY <2>1, <2>2, <2>3, <2>4, HitIsCovered
  <1>9. ASSUME NEW w \in Pollers, Suppress(w) PROVE Covered(M)'
    <2> DEFINE s == Advanced(poll[w])
    <2>1. /\ poll[w].pc = "evaluate" /\ poll' = [poll EXCEPT ![w] = s]
          /\ Known(poll[w]) \/ Marked(poll[w])
          /\ UNCHANGED <<githubVars, runs, file, startTime>> /\ runs \subseteq runs'
      BY <1>9 DEF Suppress
    <2>2. /\ s.pc = "scan" /\ s.batch = poll[w].batch /\ s.cursor = poll[w].cursor
          /\ s.maxUpdatedAt = Later(poll[w].maxUpdatedAt, poll[w].job.hit.updated)
      BY <1>1 DEF Advanced, PollState
    <2>3. ASSUME NEW p \in PRs \ M, InHand(p, poll[w]) PROVE ~Due(p)'
      <3>1. Handled(p)
        BY <2>1, <2>3, SuppressedIsHandled
      <3> QED
        BY <2>1, <3>1, DueShrinks DEF Due, githubVars
    <2> HIDE DEF s
    <2> QED
      BY <2>1, <2>2, <2>3, HitIsCovered
  <1>10. ASSUME NEW w \in Pollers, Publish(w) PROVE Covered(M)'
    <2> DEFINE c == RecordPublish(poll[w].cursor, poll[w].job.hit.pr,
                                  poll[w].job.details)
               s == [Advanced(poll[w]) EXCEPT !.cursor = c]
    <2>1. /\ poll[w].pc = "evaluate" /\ poll' = [poll EXCEPT ![w] = s]
          /\ SendCommand(poll[w].job) /\ UNCHANGED <<githubVars, file, startTime>>
      BY <1>10 DEF Publish, MayPublish
    <2>2. runs \subseteq runs'
      BY <2>1 DEF SendCommand, CreateTask
    <2>3. c.lastUpdatedAt = poll[w].cursor.lastUpdatedAt
      BY <1>1 DEF RecordPublish, Cursor
    <2>4. /\ s.pc = "scan" /\ s.batch = poll[w].batch /\ s.cursor = c
          /\ s.maxUpdatedAt = Later(poll[w].maxUpdatedAt, poll[w].job.hit.updated)
      BY <1>1 DEF Advanced, PollState
    <2>5. ASSUME NEW p \in PRs \ M, InHand(p, poll[w]) PROVE ~Due(p)'
      BY <2>1, <2>5, SentIsHandled DEF Due, githubVars
    <2> HIDE DEF s, c
    <2> QED
      BY <2>1, <2>2, <2>3, <2>4, <2>5, HitIsCovered
  <1>11. ASSUME NEW w \in Pollers, EvaluateFails(w) \/ PublishFails(w) PROVE Covered(M)'
    <2> DEFINE s == NotAdvanced(poll[w])
    <2>1. /\ poll[w].pc = "evaluate" /\ poll' = [poll EXCEPT ![w] = s]
          /\ UNCHANGED <<githubVars, file, startTime>>
          /\ runs' = runs \/ SendCommand(poll[w].job)
      BY <1>11 DEF EvaluateFails, PublishFails, MayPublish
    <2>2. runs \subseteq runs'
      BY <2>1 DEF SendCommand, CreateTask
    <2>3. /\ s.pc = "scan" /\ s.batch = poll[w].batch /\ s.cursor = poll[w].cursor
          /\ s.maxUpdatedAt = poll[w].maxUpdatedAt
      BY <1>1 DEF NotAdvanced, PollState
    <2>4. \A p \in PRs \ M : ~InHand(p, poll[w])
      BY <1>2, <1>11 DEF Loses, InHand
    <2> HIDE DEF s
    <2> QED
      BY <2>1, <2>2, <2>3, <2>4, HitIsCovered
  <1>12. ASSUME NEW w \in Pollers, Save(w) PROVE Covered(M)'
    <2>1. /\ poll' = [poll EXCEPT ![w] = IdlePoll] /\ file' = FinalCursor(poll[w])
          /\ poll[w].pc = "scan"
          /\ UNCHANGED <<githubVars, runs, startTime>>
      BY <1>12 DEF Save, AtSave
    <2>2. \A p \in PRs \ M : ~Awaits(p, poll[w])
      BY <1>2, <1>12 DEF Loses, PRsOf, Awaits
    <2>3. ASSUME NEW p \in PRs \ M, Due(p)
          PROVE  FinalCursor(poll[w]).lastUpdatedAt <= pr[p].updated
      BY <1>1, <2>1, <2>2, <2>3
      DEF PollerCovers, Recent, InHand, FinalCursor, Later
    <2>4. FileCovers(M, file')
      BY <2>1, <2>3 DEF FileCovers
    <2> QED
      BY <2>1, <2>4, IdleIsCovered
  <1>13. CASE Cancel \/ UNCHANGED vars
    <2>1. UNCHANGED <<pr, runs, file, poll, startTime>>
      BY <1>13 DEF Cancel, vars, watcherVars, githubVars
    <2> QED
      BY <2>1
      DEF Covered, FileCovers, PollerCovers, Due, IsCandidate, Handled, GetPRDetails,
          ListPRFilesHasSpec, Recent, Awaits, InHand
  <1>14. CASE Exit \/ Crash \/ Restart
    <2>1. /\ poll' = [w \in Pollers |-> IdlePoll]
          /\ pr' = pr /\ runs' = runs /\ file' = file
      BY <1>14 DEF Exit, Crash, Restart, StartProcess, githubVars
    <2>2. \A p \in PRs : Due(p)' => Due(p)
      BY <2>1, DueShrinks
    <2>3. \A w \in Pollers : PollerCovers(M, poll[w])'
      BY <2>1 DEF PollerCovers, IdlePoll
    <2>4. FileCovers(M, file)'
      BY <2>1, <2>2 DEF Covered, FileCovers
    <2> QED
      BY <2>3, <2>4 DEF Covered
  <1>15. CASE World
    BY <1>15, WorldCovered
  <1>16. ASSUME NEW w \in Pollers, SaveFails(w) PROVE Covered(M)'
    <2>1. /\ \A v \in Pollers : poll'[v] = poll[v] \/ poll'[v] = IdlePoll
          /\ file' = file \/ file' = TornFile
          /\ pr' = pr /\ runs' = runs
      BY <1>16, SaveFailsSteps DEF githubVars
    <2>2. \A p \in PRs : Due(p)' => Due(p)
      BY <2>1, DueShrinks
    <2>3. FileCovers(M, file)'
      BY <2>1, <2>2, NoFileAssumption DEF Covered, FileCovers
    <2>4. ASSUME NEW v \in Pollers PROVE PollerCovers(M, poll[v])'
      <3>1. CASE poll'[v] = IdlePoll
        BY <3>1 DEF PollerCovers, IdlePoll
      <3>2. CASE poll'[v] = poll[v]
        BY <1>1, <2>1, <2>2, <3>2
        DEF PollerCovers, Recent, Awaits, InHand, GetPRDetails
      <3> QED
        BY <2>1, <3>1, <3>2
    <2> QED
      BY <2>3, <2>4 DEF Covered
  <1> QED
    BY <1>3, <1>4, <1>5, <1>6, <1>7, <1>8, <1>9, <1>10, <1>11, <1>12, <1>13, <1>14,
       <1>15, <1>16
    DEF Next, PollStep, FaultStep

\* The budget only shrinks, and what was spent on a hit stays spent.
LEMMA StepBudget ==
    ASSUME TypeOK, BudgetFalls, [Next]_vars
    PROVE  BudgetFalls' /\ (NoHitFailed' => NoHitFailed)
  <1>1. CASE budget' = budget
    BY <1>1 DEF BudgetFalls, NoHitFailed
  <1>2. CASE \E k \in FaultKinds : Fault(k)
    BY <1>2, HitFaultsShow
  <1>3. ASSUME NEW w \in Pollers, PollStep(w) PROVE budget' = budget
    BY <1>3
    DEF PollStep, BeginPoll, Search, SkipOutOfScope, ReadDetails, SkipPR, Suppress,
        Publish, Save
  <1>4. ASSUME NEW w \in Pollers, FaultStep(w)
        PROVE  budget' = budget \/ \E k \in FaultKinds : Fault(k)
    BY <1>4
    DEF FaultStep, SearchMisses, AbortSearch, DetailsFail, EvaluateFails, PublishFails,
        SaveFails, SaveIsLost, SaveTears, FaultKinds
  <1>5. CASE Cancel \/ Exit \/ Crash \/ Restart
    BY <1>1, <1>2, <1>5 DEF Cancel, Exit, Crash, Restart, FaultKinds
  <1>6. CASE World \/ UNCHANGED vars
    BY <1>1, <1>6 DEF World, vars, watcherVars
  <1> QED
    BY <1>1, <1>2, <1>3, <1>4, <1>5, <1>6 DEF Next

\* As long as no hit failed or was missed nothing is lost, and no poll is
\* cancelled; a cold start looks back to the beginning.
LEMMA NoHitLost ==
    ASSUME OneSpecInBackfill, TypeOK, Sane, BudgetFalls, startTime = 0,
           NoHitFailed', ~cancelled, [Next]_vars
    PROVE  ~cancelled' /\ \A p \in PRs : Spared(p)
  <1>1. \A k \in HitFaults : ~Fault(k)
    BY HitFaultsShow DEF HitFaults, FaultKinds
  <1>2. ASSUME NEW w \in Pollers, NEW p PROVE ~Loses(w, p)
    <2>1. ~SearchMisses(w) /\ ~DetailsFail(w) /\ ~EvaluateFails(w) /\ ~PublishFails(w)
      BY <1>1 DEF SearchMisses, DetailsFail, EvaluateFails, PublishFails, HitFaults
    <2>2. Save(w) => poll[w].batch = {}
      BY DEF Save, AtSave
    <2> QED
      BY <2>1, <2>2 DEF Loses, PRsOf
  <1>3. ASSUME NEW w \in Pollers, NEW p \in PRs PROVE ~StartsBehind(w, p)
    <2>1. pr[p].updated \in Nat
      BY DEF TypeOK, GitHubTypeOK, PullRequest
    <2> QED
      BY <2>1 DEF StartsBehind, InWindow
  <1>4. ~cancelled'
    <2>1. ~Cancel
      BY <1>1 DEF Cancel, HitFaults
    <2>2. ASSUME NEW w \in Pollers, PollStep(w) \/ FaultStep(w) PROVE cancelled' = cancelled
      BY <2>2
      DEF PollStep, FaultStep, BeginPoll, Search, SkipOutOfScope, ReadDetails, SkipPR,
          Suppress, Publish, Save, SearchMisses, AbortSearch, DetailsFail, EvaluateFails,
          PublishFails, SaveFails
    <2>3. CASE Exit \/ Crash \/ Restart
      BY <2>3 DEF Exit, Crash, Restart, StartProcess
    <2>4. CASE World \/ UNCHANGED vars
      BY <2>4 DEF World, vars, watcherVars
    <2> QED
      BY <2>1, <2>2, <2>3, <2>4 DEF Next
  <1> QED
    BY <1>2, <1>3, <1>4 DEF Spared

\* A cold start looks back to the beginning.
LEMMA StartsAtZero ==
    ASSUME OneSpecInBackfill, TypeOK, Sane, startTime = 0, [Next]_vars
    PROVE  startTime' = 0
  <1>1. clock \in Nat /\ Backfill \in Nat /\ MaxClock \in Nat
    BY WatcherAssumption, GitHubAssumption DEF TypeOK, GitHubTypeOK
  <1>2. CASE Exit \/ Crash \/ Restart
    BY <1>1, <1>2 DEF Exit, Crash, Restart, StartProcess, OneSpecInBackfill, Sane
  <1>3. ASSUME NEW w \in Pollers, PollStep(w) \/ FaultStep(w) PROVE startTime' = startTime
    BY <1>3
    DEF PollStep, FaultStep, BeginPoll, Search, SkipOutOfScope, ReadDetails, SkipPR,
        Suppress, Publish, Save, SearchMisses, AbortSearch, DetailsFail, EvaluateFails,
        PublishFails, SaveFails
  <1>4. CASE World \/ Cancel \/ UNCHANGED vars
    BY <1>4 DEF World, Cancel, vars, watcherVars
  <1> QED
    BY <1>2, <1>3, <1>4 DEF Next

LEMMA StepWatermark ==
    ASSUME OneSpecInBackfill, TypeOK, SuppressionSound, WatermarkInv, [Next]_vars
    PROVE  WatermarkInv'
  <1>1. Sane' /\ BudgetFalls' /\ (NoHitFailed' => NoHitFailed)
    BY StepSane, StepBudget DEF WatermarkInv, OneSpecInBackfill
  <1>3. startTime' = 0
    BY StartsAtZero DEF WatermarkInv
  <1>2. ASSUME NoHitFailed' PROVE ~cancelled' /\ Covered({})'
    <2>1. Sane /\ BudgetFalls /\ ~cancelled /\ Covered({}) /\ OneSpec
      BY <1>1, <1>2 DEF WatermarkInv, OneSpecInBackfill
    <2>4. startTime = 0
      BY DEF WatermarkInv
    <2>2. ~cancelled' /\ \A p \in PRs : Spared(p)
      BY <1>2, <2>1, <2>4, NoHitLost
    <2>3. Covered({})'
      BY <2>1, <2>2, StepCovered
    <2> QED
      BY <2>2, <2>3
  <1> QED
    BY <1>1, <1>2, <1>3 DEF WatermarkInv

LEMMA NoWorkHidden ==
    ASSUME TypeOK, WatermarkInv PROVE WatermarkCoversCandidates
  <1> SUFFICES ASSUME NoHitFailed, NEW p \in Allowed,
                      IsCandidate(p), ~InWindow(pr[p].updated, NextSince)
               PROVE  Handled(p)
    BY DEF WatermarkCoversCandidates
  <1>1. p \in PRs
    BY WatcherAssumption
  <1>2. pr[p].updated \in Nat /\ NextSince \in Nat
    BY <1>1
    DEF TypeOK, GitHubTypeOK, PullRequest, Cursor, NextSince, LoadCursor, Unreadable,
        newCursor
  <1>3. Due(p) => NextSince <= pr[p].updated
    BY <1>1, <1>2
    DEF WatermarkInv, Covered, FileCovers, NextSince, LoadCursor, Unreadable, newCursor,
        TypeOK
  <1> QED
    BY <1>2, <1>3 DEF InWindow, Due

\* Unless a hit failed or was missed, a candidate that is too old for the next
\* search has its run (watcher.go:142-147), however many pollers there are and
\* wherever the process dies.
THEOREM WatermarkHidesNoWork ==
    ASSUME OneSpecInBackfill PROVE Spec => []WatermarkCoversCandidates
  <1> DEFINE Inv == TypeOK /\ SuppressionSound /\ WatermarkInv
  <1>1. Init => Inv
    BY OneSpecInBackfill, InitType, InitSuppressionSound, InitWatermark
    DEF OneSpecInBackfill
  <1>2. Inv /\ [Next]_vars => Inv'
    BY OneSpecInBackfill, NextType, NextSuppressionSound, StepWatermark
  <1>3. Inv => WatermarkCoversCandidates
    BY NoWorkHidden
  <1> HIDE DEF Inv
  <1> QED
    BY <1>1, <1>2, <1>3, PTL DEF Spec

-----------------------------------------------------------------------------
(***************************************************************************)
(* What is hidden is lost.                                                 *)
(***************************************************************************)
LEMMA OnlyWorldMoves == ASSUME Next, ~World PROVE pr' = pr
  <1>1. ASSUME NEW w \in Pollers, PollStep(w) \/ FaultStep(w) PROVE pr' = pr
    BY <1>1
    DEF PollStep, FaultStep, BeginPoll, Search, SkipOutOfScope, ReadDetails, SkipPR,
        Suppress, Publish, Save, SearchMisses, AbortSearch, DetailsFail, EvaluateFails,
        PublishFails, SaveFails, githubVars
  <1>2. CASE Cancel \/ Exit \/ Crash \/ Restart
    BY <1>2 DEF Cancel, Exit, Crash, Restart, StartProcess, githubVars
  <1> QED
    BY <1>1, <1>2 DEF Next

LEMMA StepLosses ==
    ASSUME OneSpec, TypeOK, SuppressionSound, Sane, Covered(lost), [LossNext]_lossVars
    PROVE  Covered(lost)'
  <1>1. PICK M : M = lost'
    OBVIOUS
  <1>2. CASE UNCHANGED lossVars
    <2>1. UNCHANGED <<pr, runs, file, poll, startTime, lost>>
      BY <1>2 DEF lossVars, vars, watcherVars, githubVars
    <2> QED
      BY <2>1
      DEF Covered, FileCovers, PollerCovers, Due, IsCandidate, Handled, GetPRDetails,
          ListPRFilesHasSpec, Recent, Awaits, InHand
  <1>3. CASE LossNext
    <2>1. Next /\ \A p \in PRs \ M : pr'[p] # pr[p] \/ (p \notin lost /\ Spared(p))
      <3>1. Next /\ M = {p \in PRs : Lost(p) /\ pr'[p] = pr[p]}
        BY <1>1, <1>3 DEF LossNext
      <3>2. ASSUME NEW p \in PRs \ M, pr'[p] = pr[p] PROVE p \notin lost /\ Spared(p)
        <4>1. ~Lost(p)
          BY <3>1, <3>2
        <4> QED
          BY <4>1 DEF Lost, Spared
      <3> QED
        BY <3>1, <3>2
    <2>2. PICK L : L = lost
      OBVIOUS
    <2>3. Covered(L)
      BY <2>2
    <2>4. CASE World
      <3>1. \A p \in PRs \ M : pr'[p] # pr[p] \/ p \notin L
        BY <2>1, <2>2
      <3>2. Covered(M)'
        BY <2>3, <2>4, <3>1, WorldCovered
      <3> QED
        BY <1>1, <3>2 DEF Covered, FileCovers, PollerCovers
    <2>5. CASE ~World
      <3>1. pr' = pr
        BY <2>1, <2>5, OnlyWorldMoves
      <3>2. \A p \in PRs \ M : p \notin L /\ Spared(p)
        BY <2>1, <2>2, <3>1
      <3>3. Covered(M)
        BY <2>3, <3>2 DEF Covered, FileCovers, PollerCovers
      <3>4. Covered(M)'
        BY <2>1, <3>2, <3>3, StepCovered
      <3> QED
        BY <1>1, <3>4 DEF Covered, FileCovers, PollerCovers
    <2> QED
      BY <2>4, <2>5
  <1> QED
    BY <1>2, <1>3

\* A hit that fails costs no pull request but its own, and that one only until
\* it changes (watcher.go:142-172): for any number of pollers and any faults.
THEOREM OnlyLossesAreHidden ==
    ASSUME OneSpec PROVE LossSpec => []WatermarkHidesOnlyLosses
  <1> DEFINE Inv == TypeOK /\ SuppressionSound /\ Sane /\ Covered(lost)
  <1>1. LossInit => Inv
    <2> SUFFICES ASSUME LossInit PROVE Inv
      OBVIOUS
    <2>1. Init
      BY DEF LossInit
    <2> QED
      BY OneSpec, <2>1, InitType, InitSuppressionSound, InitSane, InitCovered
  <1>2. Inv /\ [LossNext]_lossVars => Inv'
    <2> SUFFICES ASSUME Inv, [LossNext]_lossVars PROVE Inv'
      OBVIOUS
    <2>1. [Next]_vars
      BY DEF LossNext, lossVars
    <2> QED
      BY OneSpec, <2>1, NextType, NextSuppressionSound, StepSane, StepLosses
  <1>3. Inv => WatermarkHidesOnlyLosses
    <2> SUFFICES ASSUME Inv, NEW p \in Allowed \ lost, file \in Cursor,
                        IsCandidate(p), ~InWindow(pr[p].updated, file.lastUpdatedAt)
                 PROVE  Handled(p)
      BY DEF WatermarkHidesOnlyLosses
    <2>1. p \in PRs
      BY WatcherAssumption
    <2>2. pr[p].updated \in Nat /\ file.lastUpdatedAt \in Nat
      BY <2>1 DEF TypeOK, GitHubTypeOK, PullRequest, Cursor
    <2>3. Due(p) => file.lastUpdatedAt <= pr[p].updated
      BY <2>1 DEF Covered, FileCovers
    <2> QED
      BY <2>2, <2>3 DEF InWindow, Due
  <1> HIDE DEF Inv
  <1> QED
    BY <1>1, <1>2, <1>3, PTL DEF LossSpec

-----------------------------------------------------------------------------
(***************************************************************************)
(* The watermark never goes back where one poller saves: what it has in    *)
(* hand between its load and its save is not behind the file.              *)
(***************************************************************************)
OnlyPoller == \A v, w \in Pollers : v = w

Ahead ==
    ~Unreadable(file) =>
        \A w \in Pollers :
            poll[w].pc # "idle" => file.lastUpdatedAt <= poll[w].cursor.lastUpdatedAt

\* What a poller makes of the watermark in its hand, step by step.
KeepsMark(s, t) == t.pc # "idle" => s.pc # "idle"
                                  /\ t.cursor.lastUpdatedAt = s.cursor.lastUpdatedAt

LEMMA HitKeepsMark ==
    ASSUME NEW s \in PollState, s.pc = "evaluate", NEW p
    PROVE  /\ KeepsMark(s, NotAdvanced(s))
           /\ KeepsMark(s, [NotAdvanced(s) EXCEPT !.cursor = s.cursor])
           /\ KeepsMark(s, [NotAdvanced(s) EXCEPT !.cursor = DropMarker(s.cursor, p)])
           /\ KeepsMark(s, Advanced(s))
           /\ \A d : KeepsMark(s, [Advanced(s) EXCEPT !.cursor = RecordPublish(s.cursor, p, d)])
  BY DEF KeepsMark, NotAdvanced, Advanced, DropMarker, RecordPublish, PollState, Cursor

\* Only a load takes up a watermark; every other step of the poller keeps the
\* one in its hand or lets go of it.
LEMMA PollerKeepsMark ==
    ASSUME OnlyPoller, TypeOK, NEW v \in Pollers,
           \/ Search(v) \/ SkipOutOfScope(v) \/ ReadDetails(v) \/ SkipPR(v)
           \/ Suppress(v) \/ Publish(v) \/ FaultStep(v)
    PROVE  \E t : poll' = [poll EXCEPT ![v] = t] /\ KeepsMark(poll[v], t) /\ file' = file
  <1>1. poll[v] \in PollState
    BY DEF TypeOK
  <1>2. CASE Search(v) \/ SearchMisses(v) \/ SkipOutOfScope(v) \/ ReadDetails(v) \/ DetailsFail(v)
    <2> DEFINE Takes(t) == /\ poll' = [poll EXCEPT ![v] = t] /\ file' = file
                           /\ poll[v].pc # "idle" /\ t.cursor = poll[v].cursor
    <2>1. CASE Search(v)
      <3>1. Takes([poll[v] EXCEPT !.pc = "scan",
                                  !.batch = SearchPRs(poll[v].cursor.lastUpdatedAt),
                                  !.maxUpdatedAt = poll[v].cursor.lastUpdatedAt])
        BY <1>1, <2>1 DEF Search, PollState
      <3> QED
        BY <3>1 DEF KeepsMark
    <2>2. CASE SearchMisses(v)
      <3>1. PICK hits : Takes([poll[v] EXCEPT !.pc = "scan", !.batch = hits,
                                 !.maxUpdatedAt = poll[v].cursor.lastUpdatedAt])
        BY <1>1, <2>2 DEF SearchMisses, PollState
      <3> QED
        BY <3>1 DEF KeepsMark
    <2>3. CASE SkipOutOfScope(v) \/ DetailsFail(v)
      <3>1. PICK h : Takes([poll[v] EXCEPT !.batch = poll[v].batch \ {h}])
        BY <1>1, <2>3 DEF SkipOutOfScope, DetailsFail, PollState
      <3> QED
        BY <3>1 DEF KeepsMark
    <2>4. CASE ReadDetails(v)
      <3>1. PICK h : Takes([poll[v] EXCEPT !.pc = "evaluate",
                              !.batch = poll[v].batch \ {h},
                              !.job = [hit |-> h, details |-> GetPRDetails(h.pr)]])
        BY <1>1, <2>4 DEF ReadDetails, PollState
      <3> QED
        BY <3>1 DEF KeepsMark
    <2> QED
      BY <1>2, <2>1, <2>2, <2>3, <2>4
  <1>3. CASE AbortSearch(v) \/ SaveFails(v)
    <2>1. poll' = [poll EXCEPT ![v] = IdlePoll] /\ file' = file
      BY <1>3 DEF OnlyPoller, AbortSearch, SaveFails, SaveIsLost, SaveTears
    <2>2. KeepsMark(poll[v], IdlePoll)
      BY DEF KeepsMark, IdlePoll
    <2> QED
      BY <2>1, <2>2
  <1>4. CASE EvaluateFails(v) \/ PublishFails(v)
    <2>1. /\ poll' = [poll EXCEPT ![v] = NotAdvanced(poll[v])] /\ file' = file
          /\ poll[v].pc = "evaluate"
      BY <1>4 DEF EvaluateFails, PublishFails, MayPublish
    <2>2. KeepsMark(poll[v], NotAdvanced(poll[v]))
      BY <1>1, <2>1, HitKeepsMark
    <2> QED
      BY <2>1, <2>2
  <1>5. CASE SkipPR(v)
    <2>1. PICK c \in {poll[v].cursor, DropMarker(poll[v].cursor, poll[v].job.hit.pr)} :
            /\ poll' = [poll EXCEPT ![v] = [NotAdvanced(poll[v]) EXCEPT !.cursor = c]]
            /\ file' = file /\ poll[v].pc = "evaluate"
      BY <1>5 DEF SkipPR
    <2>2. KeepsMark(poll[v], [NotAdvanced(poll[v]) EXCEPT !.cursor = c])
      BY <1>1, <2>1, HitKeepsMark
    <2> QED
      BY <2>1, <2>2
  <1>6. CASE Suppress(v)
    <2>1. /\ poll' = [poll EXCEPT ![v] = Advanced(poll[v])] /\ file' = file
          /\ poll[v].pc = "evaluate"
      BY <1>6 DEF Suppress
    <2>2. KeepsMark(poll[v], Advanced(poll[v]))
      BY <1>1, <2>1, HitKeepsMark
    <2> QED
      BY <2>1, <2>2
  <1>7. CASE Publish(v)
    <2> DEFINE c == RecordPublish(poll[v].cursor, poll[v].job.hit.pr, poll[v].job.details)
    <2>1. /\ poll' = [poll EXCEPT ![v] = [Advanced(poll[v]) EXCEPT !.cursor = c]]
          /\ file' = file /\ poll[v].pc = "evaluate"
      BY <1>7 DEF Publish, MayPublish
    <2>2. KeepsMark(poll[v], [Advanced(poll[v]) EXCEPT !.cursor = c])
      BY <1>1, <2>1, HitKeepsMark
    <2> QED
      BY <2>1, <2>2
  <1> QED
    BY <1>2, <1>3, <1>4, <1>5, <1>6, <1>7 DEF FaultStep

\* A step keeps the poller ahead of the file, and moves the file forward.
LEMMA StepAhead ==
    ASSUME OnlyPoller, TypeOK, Ahead, [Next]_vars
    PROVE  /\ Ahead'
           /\ ~Unreadable(file) =>
                /\ ~Unreadable(file')
                /\ file'.lastUpdatedAt >= file.lastUpdatedAt
  <1>0. ~Unreadable(file) => file \in Cursor /\ file.lastUpdatedAt \in Nat
    BY DEF TypeOK, Cursor, Unreadable
  <1>1. ASSUME NEW v \in Pollers, BeginPoll(v)
        PROVE  Ahead' /\ file' = file
    <2>1. /\ poll'[v].cursor = LoadCursor(file, startTime) /\ file' = file
          /\ \A w \in Pollers : w = v
      BY <1>1 DEF OnlyPoller, BeginPoll, IdlePoll, TypeOK
    <2> QED
      BY <1>0, <2>1 DEF Ahead, LoadCursor
  <1>2. ASSUME NEW v \in Pollers,
               \/ Search(v) \/ SkipOutOfScope(v) \/ ReadDetails(v) \/ SkipPR(v)
               \/ Suppress(v) \/ Publish(v) \/ FaultStep(v)
        PROVE  Ahead' /\ file' = file
    <2>1. PICK t : poll' = [poll EXCEPT ![v] = t] /\ KeepsMark(poll[v], t) /\ file' = file
      BY <1>2, PollerKeepsMark
    <2>2. poll'[v] = t /\ \A w \in Pollers : w = v
      BY <2>1 DEF OnlyPoller, TypeOK
    <2> QED
      BY <2>1, <2>2 DEF Ahead, KeepsMark
  <1>3. ASSUME NEW v \in Pollers, Save(v)
        PROVE  /\ Ahead'
               /\ ~Unreadable(file) =>
                    /\ ~Unreadable(file')
                    /\ file'.lastUpdatedAt >= file.lastUpdatedAt
    <2>1. /\ poll[v].pc # "idle" /\ file' = FinalCursor(poll[v])
          /\ poll' = [poll EXCEPT ![v] = IdlePoll] /\ poll[v] \in PollState
      BY <1>3 DEF Save, AtSave, TypeOK
    <2>2. Ahead'
      <3>1. \A w \in Pollers : w = v /\ poll'[w].pc = "idle"
        BY <2>1 DEF OnlyPoller, TypeOK, IdlePoll
      <3> QED
        BY <3>1 DEF Ahead
    <2>3. ~Unreadable(file')
      BY <2>1, FinalCursorType, NoFileAssumption DEF Unreadable
    <2>4. file'.lastUpdatedAt >= poll[v].cursor.lastUpdatedAt
          /\ file'.lastUpdatedAt \in Nat /\ poll[v].cursor.lastUpdatedAt \in Nat
      BY <2>1 DEF FinalCursor, Later, PollState, Cursor
    <2> QED
      BY <1>0, <2>1, <2>2, <2>3, <2>4 DEF Ahead
  <1>4. CASE World \/ Cancel \/ UNCHANGED vars
    <2>1. poll' = poll /\ file' = file
      BY <1>4 DEF World, Cancel, vars, watcherVars
    <2> QED
      BY <1>0, <2>1 DEF Ahead
  <1>5. CASE Exit \/ Crash \/ Restart
    <2>1. file' = file /\ \A w \in Pollers : poll'[w].pc = "idle"
      BY <1>5 DEF Exit, Crash, Restart, StartProcess, IdlePoll
    <2> QED
      BY <1>0, <2>1 DEF Ahead
  <1> QED
    BY <1>0, <1>1, <1>2, <1>3, <1>4, <1>5 DEF Next, PollStep

\* Where one poller saves, the watermark never goes back and the file never goes
\* away, through faults of every kind, exits in the middle of a batch and new
\* processes with an earlier start time (cursor.go:59-66, watcher.go:97-98).
THEOREM WatermarkOnlyRises ==
    ASSUME OnlyPoller PROVE Spec => WatermarkNeverBack
  <1>1. Init => TypeOK /\ Ahead
    BY InitType DEF Init, Ahead, Unreadable
  <1>2. TypeOK /\ Ahead /\ [Next]_vars => TypeOK' /\ Ahead'
    BY OnlyPoller, NextType, StepAhead
  <1>3. TypeOK /\ Ahead /\ [Next]_vars =>
          (~Unreadable(file) =>
              /\ ~Unreadable(file')
              /\ file'.lastUpdatedAt >= file.lastUpdatedAt)
    BY OnlyPoller, StepAhead
  <1> QED
    BY <1>1, <1>2, <1>3, PTL DEF Spec, WatermarkNeverBack
=============================================================================
