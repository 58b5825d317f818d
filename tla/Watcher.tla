------------------------------ MODULE Watcher -------------------------------
(***************************************************************************)
(* The poll cycle of pkg/watcher.go.  A poller loads the cursor file,      *)
(* searches GitHub from the cursor's watermark on, takes the hits one by   *)
(* one - scope filter, details, candidate gate, deduplication, publish -   *)
(* and saves the cursor.  Two pollers exist in the program: the ticker     *)
(* loop and the /check endpoint (main.go:299-335); nothing orders them.    *)
(*                                                                         *)
(* Steps of different pollers, of the process and of GitHub interleave     *)
(* between the actions below; each action holds one read or write of       *)
(* shared state.  One poller's save replaces the cursor file as a whole;   *)
(* two at the same moment share one temporary file and may leave one that  *)
(* does not parse.  CursorFile looks inside SaveCursor.                    *)
(***************************************************************************)
EXTENDS GitHub, Controller, Candidate, FiniteSets

CONSTANTS
    Pollers,      \* "loop" is the ticker's, any other one polls for /check
    Allowed,      \* the pull requests whose repository the allowlist admits
    Backfill,     \* BACKFILL_DURATION in seconds
    FaultBudget,  \* bound: how often each kind of fault strikes in a behaviour
    NoFile,       \* the cursor file does not exist
    TornFile,     \* the cursor file exists and does not parse
    NoJob         \* the poller has no hit in hand

VARIABLES
    file,         \* the cursor file
    poll,         \* the state of each poller's Poll call
    startTime,    \* watcher.startTime, fixed when the process starts
    cancelled,    \* the context is done: SIGTERM, or a run.Func finished
    budget        \* the faults left

watcherVars == <<file, poll, startTime, cancelled, budget>>
vars == <<githubVars, runs, watcherVars>>

FaultKinds == {"search", "index", "read", "send", "ack", "save", "tear",
               "cancel", "restart", "crash"}

ASSUME WatcherAssumption ==
    /\ Allowed \subseteq PRs
    /\ Backfill \in Nat
    /\ FaultBudget \in [FaultKinds -> Nat]

\* The keys of the maps HeadSHAs and QueuedMarkers; no code reads the values.
Cursor == [lastUpdatedAt : Nat, headSHAs : SUBSET TaskIDs,
           queuedMarkers : SUBSET PRs]

ASSUME NoFileAssumption ==
    NoFile \notin Cursor /\ TornFile \notin Cursor /\ NoFile # TornFile

Job == [hit : SearchHit, details : Details]

PollState == [pc : {"idle", "search", "scan", "evaluate"},
              cursor : Cursor,
              batch : SUBSET SearchHit,
              newHeadSHAs : SUBSET TaskIDs,
              maxUpdatedAt : Nat,
              job : Job \cup {NoJob}]

\* Every variable has its type, and a poller that evaluates has a hit in hand.
TypeOK ==
    /\ GitHubTypeOK
    /\ ControllerTypeOK
    /\ file \in Cursor \cup {NoFile, TornFile}
    /\ poll \in [Pollers -> PollState]
    /\ \A w \in Pollers : poll[w].pc = "evaluate" => poll[w].job \in Job
    /\ startTime \in Nat
    /\ cancelled \in BOOLEAN
    /\ budget \in [FaultKinds -> Nat]

-----------------------------------------------------------------------------
(***************************************************************************)
(* The helpers of the code.                                                *)
(***************************************************************************)

newCursor(start) ==
    [lastUpdatedAt |-> start, headSHAs |-> {}, queuedMarkers |-> {}]

Unreadable(f) == f \in {NoFile, TornFile}

\* Mutations of LoadCursor: the maps of a cold start are not made; the
\* markers of an existing file are made anew; every start is a cold one.
LoadCursorNilMaps(f, start) == f
LoadCursorWithoutMarkers(f, start) ==
    IF Unreadable(f) THEN newCursor(start) ELSE [f EXCEPT !.queuedMarkers = {}]
LoadCursorCold(f, start) == newCursor(start)

\* A file that is missing, or does not parse, is a cold start.  Any other read
\* error makes Poll return before it has changed anything, which no action
\* needs to say.
LoadCursor(f, start) == IF Unreadable(f) THEN newCursor(start) ELSE f

queuedMarkerKey(p) == p

\* The identifier a poll uses for a pull request at the head it read.
taskID(p, d) == DeriveTaskID(p, d.sha, d.commit.queued)

Later(t, u) == IF u > t THEN u ELSE t

\* The verdicts after which the queued phase counts as over.
EndsQueuedPhase(verdict) == verdict \in {"no_spec_in_diff", "not_open"}

DropMarker(c, p) ==
    [c EXCEPT !.queuedMarkers = c.queuedMarkers \ {queuedMarkerKey(p)}]

\* Mutation of RecordPublish: every publish sets the marker.
RecordPublishAlwaysMarks(c, p, d) ==
    [c EXCEPT !.headSHAs = c.headSHAs \cup {taskID(p, d)},
              !.queuedMarkers = c.queuedMarkers \cup {queuedMarkerKey(p)}]

RecordPublish(c, p, d) ==
    [c EXCEPT !.headSHAs = c.headSHAs \cup {taskID(p, d)},
              !.queuedMarkers = IF d.commit.queued
                                THEN c.queuedMarkers \cup {queuedMarkerKey(p)}
                                ELSE c.queuedMarkers]

\* Mutation of FinalCursor: the markers are rebuilt from the batch, as the
\* head SHAs are.
FinalCursorBatchMarkers(s) ==
    [lastUpdatedAt |-> Later(s.cursor.lastUpdatedAt, s.maxUpdatedAt),
     headSHAs      |-> s.newHeadSHAs,
     queuedMarkers |-> {p \in s.cursor.queuedMarkers :
                            \E id \in s.newHeadSHAs : id.pr = p}]

\* Mutation of FinalCursor: the watermark is the time of the save.
FinalCursorOfNow(s) ==
    [lastUpdatedAt |-> clock,
     headSHAs      |-> s.newHeadSHAs,
     queuedMarkers |-> s.cursor.queuedMarkers]

\* What processPRs and Poll leave in the cursor before it is saved: only the
\* head SHAs of this batch, every marker, and the watermark moved forward.
FinalCursor(s) ==
    [lastUpdatedAt |-> Later(s.cursor.lastUpdatedAt, s.maxUpdatedAt),
     headSHAs      |-> s.newHeadSHAs,
     queuedMarkers |-> s.cursor.queuedMarkers]

IdlePoll == [pc |-> "idle", cursor |-> newCursor(0), batch |-> {},
             newHeadSHAs |-> {}, maxUpdatedAt |-> 0, job |-> NoJob]

\* Mutation of NotAdvanced: a hit that failed enters the next cursor.
NotAdvancedRemembers(s) ==
    [s EXCEPT !.pc = "scan", !.job = NoJob,
              !.newHeadSHAs = s.newHeadSHAs \cup {taskID(s.job.hit.pr, s.job.details)}]

\* processPR returns (zero, false): on to the next hit, nothing advances.
NotAdvanced(s) == [s EXCEPT !.pc = "scan", !.job = NoJob]

\* processPR returns (pr.UpdatedAt, true): the hit's time counts, and the
\* identifier stays in the next cursor.
Advanced(s) ==
    [s EXCEPT !.pc = "scan", !.job = NoJob,
              !.newHeadSHAs = s.newHeadSHAs \cup {taskID(s.job.hit.pr, s.job.details)},
              !.maxUpdatedAt = Later(s.maxUpdatedAt, s.job.hit.updated)]

Fault(kind) ==
    /\ budget[kind] > 0
    /\ budget' = [budget EXCEPT ![kind] = budget[kind] - 1]

-----------------------------------------------------------------------------
(***************************************************************************)
(* Poll: load, search, and the ways out before the first hit.              *)
(***************************************************************************)

BeginPoll(w) ==
    /\ poll[w].pc = "idle"
    /\ ~cancelled
    /\ poll' = [poll EXCEPT ![w] =
                  [IdlePoll EXCEPT !.pc = "search",
                                   !.cursor = LoadCursor(file, startTime)]]
    /\ UNCHANGED <<githubVars, runs, file, startTime, cancelled, budget>>

Search(w) ==
    /\ poll[w].pc = "search"
    /\ ~cancelled
    /\ LET since == poll[w].cursor.lastUpdatedAt
       IN  poll' = [poll EXCEPT ![w] =
                      [poll[w] EXCEPT !.pc = "scan",
                                      !.batch = SearchPRs(since),
                                      !.maxUpdatedAt = since]]
    /\ UNCHANGED <<githubVars, runs, file, startTime, cancelled, budget>>

\* Hits are missing: the index behind the search lags, or the listing moved
\* while its pages were read (Fetch looks inside).
SearchMisses(w) ==
    LET since == poll[w].cursor.lastUpdatedAt
    IN  /\ poll[w].pc = "search"
        /\ ~cancelled
        /\ Fault("index")
        /\ \E hits \in SUBSET SearchPRs(since) :
            /\ hits # SearchPRs(since)
            /\ poll' = [poll EXCEPT ![w] =
                          [poll[w] EXCEPT !.pc = "scan",
                                          !.batch = hits,
                                          !.maxUpdatedAt = since]]
        /\ UNCHANGED <<githubVars, runs, file, startTime, cancelled>>

\* A failed page, or a cancelled context: no hit is processed, nothing saved.
AbortSearch(w) ==
    /\ poll[w].pc = "search"
    /\ \/ cancelled /\ UNCHANGED budget
       \/ Fault("search")
    /\ poll' = [poll EXCEPT ![w] = IdlePoll]
    /\ UNCHANGED <<githubVars, runs, file, startTime, cancelled>>

-----------------------------------------------------------------------------
(***************************************************************************)
(* processPR: the scope filter and the details.                            *)
(***************************************************************************)

SkipOutOfScope(w) ==
    \E h \in poll[w].batch :
        /\ poll[w].pc = "scan"
        /\ ~cancelled
        /\ h.pr \notin Allowed
        /\ poll' = [poll EXCEPT ![w] =
                      [poll[w] EXCEPT !.batch = poll[w].batch \ {h}]]
        /\ UNCHANGED <<githubVars, runs, file, startTime, cancelled, budget>>

ReadDetails(w) ==
    \E h \in poll[w].batch :
        /\ poll[w].pc = "scan"
        /\ ~cancelled
        /\ h.pr \in Allowed
        /\ poll' = [poll EXCEPT ![w] =
                      [poll[w] EXCEPT !.pc = "evaluate",
                                      !.batch = poll[w].batch \ {h},
                                      !.job = [hit |-> h,
                                               details |-> GetPRDetails(h.pr)]]]
        /\ UNCHANGED <<githubVars, runs, file, startTime, cancelled, budget>>

\* details_error, or an answer without a head SHA (empty_sha).
DetailsFail(w) ==
    \E h \in poll[w].batch :
        /\ poll[w].pc = "scan"
        /\ ~cancelled
        /\ h.pr \in Allowed
        /\ Fault("read")
        /\ poll' = [poll EXCEPT ![w] =
                      [poll[w] EXCEPT !.batch = poll[w].batch \ {h}]]
        /\ UNCHANGED <<githubVars, runs, file, startTime, cancelled>>

-----------------------------------------------------------------------------
(***************************************************************************)
(* processPR: the candidate gate and what follows from its verdict.  The   *)
(* gate's only read that is not pinned to a SHA is the list of the diff's  *)
(* files; the decision and the publish depend on nothing that changes      *)
(* after it, so the rest of processPR is one step.                         *)
(***************************************************************************)

Verdict(s) == Evaluate(s.job.details, ListPRFilesHasSpec(s.job.hit.pr))

Known(s) == taskID(s.job.hit.pr, s.job.details) \in s.cursor.headSHAs
Marked(s) == queuedMarkerKey(s.job.hit.pr) \in s.cursor.queuedMarkers

\* A cancelled context makes the gate's requests fail too.
EvaluateFails(w) ==
    /\ poll[w].pc = "evaluate"
    /\ EvaluateReads(poll[w].job.details)
    /\ \/ cancelled /\ UNCHANGED budget
       \/ Fault("read")
    /\ poll' = [poll EXCEPT ![w] = NotAdvanced(poll[w])]
    /\ UNCHANGED <<githubVars, runs, file, startTime, cancelled>>

SkipPR(w) ==
    LET s == poll[w]
        c == IF EndsQueuedPhase(Verdict(s)) THEN DropMarker(s.cursor, s.job.hit.pr)
             ELSE s.cursor
    IN  /\ s.pc = "evaluate"
        /\ Verdict(s) # Keep
        /\ poll' = [poll EXCEPT ![w] = [NotAdvanced(s) EXCEPT !.cursor = c]]
        /\ UNCHANGED <<githubVars, runs, file, startTime, cancelled, budget>>

\* The identifier is in the cursor, or the marker is: nothing is published.
Suppress(w) ==
    LET s == poll[w]
    IN  /\ s.pc = "evaluate"
        /\ Verdict(s) = Keep
        /\ Known(s) \/ Marked(s)
        /\ poll' = [poll EXCEPT ![w] = Advanced(s)]
        /\ UNCHANGED <<githubVars, runs, file, startTime, cancelled, budget>>

MayPublish(s) ==
    /\ s.pc = "evaluate"
    /\ Verdict(s) = Keep
    /\ ~Known(s)
    /\ ~Marked(s)

SendCommand(j) == CreateTask(taskID(j.hit.pr, j.details), j.details.commit.spec)

Publish(w) ==
    LET s == poll[w]
        c == RecordPublish(s.cursor, s.job.hit.pr, s.job.details)
    IN  /\ MayPublish(s)
        /\ SendCommand(s.job)
        /\ poll' = [poll EXCEPT ![w] = [Advanced(s) EXCEPT !.cursor = c]]
        /\ UNCHANGED <<githubVars, file, startTime, cancelled, budget>>

\* SendCommand returns an error: the command is lost ("send"), or it is in
\* the topic and only its acknowledgement is lost ("ack").  When Run returns
\* it closes the producer under a poll that is still going on (main.go
\* 233-237).
PublishFails(w) ==
    LET s == poll[w]
    IN  /\ MayPublish(s)
        /\ \/ Fault("send") /\ UNCHANGED runs
           \/ Fault("ack") /\ SendCommand(s.job)
           \/ cancelled /\ UNCHANGED <<runs, budget>>
        /\ poll' = [poll EXCEPT ![w] = NotAdvanced(s)]
        /\ UNCHANGED <<githubVars, file, startTime, cancelled>>

-----------------------------------------------------------------------------
(***************************************************************************)
(* The end of Poll.  A context cancelled in the middle of the batch leaves *)
(* the loop, and what was collected so far is saved all the same.          *)
(***************************************************************************)

AtSave(w) ==
    /\ poll[w].pc = "scan"
    /\ poll[w].batch = {} \/ cancelled

Save(w) ==
    /\ AtSave(w)
    /\ file' = FinalCursor(poll[w])
    /\ poll' = [poll EXCEPT ![w] = IdlePoll]
    /\ UNCHANGED <<githubVars, runs, startTime, cancelled, budget>>

\* The error is logged and the cycle counts as a success.
SaveIsLost(w) ==
    /\ Fault("save")
    /\ poll' = [poll EXCEPT ![w] = IdlePoll]
    /\ UNCHANGED file

\* Another poller saves at the same moment, through the same temporary file:
\* what is renamed does not parse.  It stays so when both saves are over (the
\* shorter cursor was written over the longer), or until the other one, which
\* still writes to it, saves or fails in its turn.
SaveTears(w) ==
    /\ Fault("tear")
    /\ file' = TornFile
    /\ \E v \in Pollers \ {w} :
          /\ AtSave(v)
          /\ \E over \in {{w}, {v, w}} :
                poll' = [u \in Pollers |-> IF u \in over THEN IdlePoll ELSE poll[u]]

\* What the file holds afterwards is not the cursor of this poll.
SaveFails(w) ==
    /\ AtSave(w)
    /\ SaveIsLost(w) \/ SaveTears(w)
    /\ UNCHANGED <<githubVars, runs, startTime, cancelled>>

-----------------------------------------------------------------------------
(***************************************************************************)
(* The process.  run.CancelOnFirstFinish cancels the context and returns   *)
(* without waiting for the other functions, so that once cancelled the     *)
(* process may end in the middle of a poll, exactly as in a crash.         *)
(***************************************************************************)

Cancel ==
    /\ ~cancelled
    /\ Fault("cancel")
    /\ cancelled' = TRUE
    /\ UNCHANGED <<githubVars, runs, file, poll, startTime>>

\* The process ends and a new one starts: memory is lost, the file is not.
StartProcess ==
    /\ poll' = [w \in Pollers |-> IdlePoll]
    /\ startTime' = IF clock > Backfill THEN clock - Backfill ELSE 0
    /\ cancelled' = FALSE
    /\ UNCHANGED <<githubVars, runs, file>>

Exit == cancelled /\ StartProcess /\ UNCHANGED budget

Crash == Fault("crash") /\ StartProcess

\* A restart that finds no poll in progress.
Restart ==
    /\ \A w \in Pollers : poll[w].pc = "idle"
    /\ Fault("restart")
    /\ StartProcess

-----------------------------------------------------------------------------
Init ==
    /\ GitHubInit
    /\ ControllerInit
    /\ file = NoFile
    /\ poll = [w \in Pollers |-> IdlePoll]
    /\ startTime = 0
    /\ cancelled = FALSE
    /\ budget = FaultBudget

PollStep(w) ==
    \/ BeginPoll(w) \/ Search(w) \/ SkipOutOfScope(w) \/ ReadDetails(w)
    \/ SkipPR(w) \/ Suppress(w) \/ Publish(w) \/ Save(w)

FaultStep(w) ==
    \/ SearchMisses(w) \/ AbortSearch(w) \/ DetailsFail(w) \/ EvaluateFails(w)
    \/ PublishFails(w) \/ SaveFails(w)

World == GitHubNext /\ UNCHANGED <<runs, watcherVars>>

Next ==
    \/ World
    \/ \E w \in Pollers : PollStep(w) \/ FaultStep(w)
    \/ Cancel \/ Exit \/ Crash \/ Restart

Spec == Init /\ [][Next]_vars

\* The ticker keeps starting polls and a poll that was started goes on; a
\* cancelled process ends and is started again.  Nothing makes people push,
\* make /check be called, or make a fault happen.
Fairness ==
    /\ WF_vars("loop" \in Pollers /\ PollStep("loop"))
    /\ WF_vars(Exit)

FairSpec == Spec /\ Fairness

-----------------------------------------------------------------------------
(***************************************************************************)
(* Properties.                                                             *)
(***************************************************************************)

\* A pull request that the gate would keep at this moment.
IsCandidate(p) ==
    Evaluate(GetPRDetails(p), ListPRFilesHasSpec(p)) = Keep

QueuedRun(p, spec) == [id |-> QueuedID(p), spec |-> spec] \in runs

\* The spec a candidate asks for has its run: under the identifier of the
\* head, or under the one pinned for the queued phase.
Handled(p) ==
    \E r \in runs :
        /\ r.spec = pr[p].commit.spec
        /\ r.id \in {taskID(p, GetPRDetails(p)), QueuedID(p)}

\* An entry of a cursor never suppresses what no task was created for: a
\* marker has a queued-phase task behind it, and an identifier has the task
\* it names or the queued-phase task whose marker let it in (watcher.go
\* 237-250).  Holds for the file and for every cursor in memory, whatever
\* fails and however the pollers interleave.
BackedID(id, created) == id \in created \/ QueuedID(id.pr) \in created

BackedCursor(c, created) ==
    /\ \A id \in c.headSHAs : BackedID(id, created)
    /\ \A p \in c.queuedMarkers : QueuedID(p) \in created

BackedPoll(s, created) ==
    /\ BackedCursor(s.cursor, created)
    /\ \A id \in s.newHeadSHAs : BackedID(id, created)

SuppressionSound ==
    /\ file \in Cursor => BackedCursor(file, Created)
    /\ \A w \in Pollers : BackedPoll(poll[w], Created)

\* Once a pull request's queued phase was handed to an agent, that spec gets
\* no second run: not from the commits the agent makes, not after the queue
\* has drained (cursor.go:23-29, taskid.go:25-35).
QueuedPhaseRunsOnce ==
    [][\A r \in runs' \ runs : ~QueuedRun(r.id.pr, r.spec)]_vars

\* Between polls the file holds the marker, for the next poll to load, of every
\* queued phase that was handed over and whose spec is still to be completed,
\* even for a pull request that the last batches did not contain
\* (cursor.go:23-29).
MarkerPersisted ==
    \A p \in PRs :
        /\ \A w \in Pollers : poll[w].pc = "idle"
        /\ IsCandidate(p)
        /\ QueuedRun(p, pr[p].commit.spec)
        => queuedMarkerKey(p) \in LoadCursor(file, startTime).queuedMarkers

\* The watermark hides no work: unless a pull request of some batch failed or
\* was missed, a candidate that is too old for the next search has its run
\* (watcher.go:142-147, "on the next successful poll they are re-evaluated and
\* (if still a candidate) re-published").
NextSince == LoadCursor(file, startTime).lastUpdatedAt

NoHitFailed ==
    \A k \in {"index", "read", "send", "ack", "cancel"} : budget[k] = FaultBudget[k]

WatermarkCoversCandidates ==
    NoHitFailed => \A p \in Allowed :
        IsCandidate(p) /\ ~InWindow(pr[p].updated, NextSince)
            => Handled(p)

\* The watermark never goes back and the file never goes away: not when the
\* context is cancelled in the middle of a batch and the rest is saved, not
\* when a save fails, and not in a new process, whose start time may lie before
\* the watermark (cursor.go, LoadCursor; watcher.go, Poll).  For one poller: a
\* second one may save the older cursor it loaded.
WatermarkNeverBack ==
    [][~Unreadable(file) =>
         /\ ~Unreadable(file')
         /\ file'.lastUpdatedAt >= file.lastUpdatedAt]_vars

\* A pull request that stays a candidate is eventually handed to an agent.
EveryCandidateRuns ==
    \A p \in Allowed : []<>(~IsCandidate(p) \/ Handled(p))
=============================================================================
