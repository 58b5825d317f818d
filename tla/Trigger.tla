------------------------------ MODULE Trigger -------------------------------
(***************************************************************************)
(* The /trigger command consumer: pkg/command/trigger_executor.go behind   *)
(* the in-memory offset store of pkg/memdb.go.                             *)
(*                                                                         *)
(* The request topic is an immutable sequence of commands and an offset    *)
(* into it.  An executor that returns nil or ErrCommandObjectSkipped moves *)
(* the offset on; any other error leaves it, and the command is delivered  *)
(* again (trigger_executor.go:29-36).  The offset lives in the process, so *)
(* a restart reads the topic from its oldest command (main.go:268-271).    *)
(***************************************************************************)
EXTENDS GitHub, Controller, Candidate, Sequences, FiniteSets

CONSTANTS
    Requests,       \* the commands that may be requested
    MaxRequests,    \* bound on the length of the topic
    TriggerFaults,  \* bound: how often each kind of fault strikes
    NoJob           \* no command is being executed

VARIABLES
    topic,          \* the request topic
    offset,         \* how many of its commands are done, in this process
    exec,           \* what GetPRDetails returned for the current command
    now,            \* what the nonce last read from the clock, in microseconds
    served,         \* history: the commands that were ever published
    triggerBudget   \* the faults left

triggerVars == <<topic, offset, exec, now, served, triggerBudget>>
vars == <<githubVars, runs, triggerVars>>

TriggerFaultKinds == {"read", "send", "ack", "restart", "clock"}

\* valid: the payload decodes and its URL names a GitHub pull request.
Command == [pr : PRs, force : BOOLEAN, valid : BOOLEAN]

ASSUME TriggerAssumption ==
    /\ Requests \subseteq Command
    /\ MaxRequests \in Nat
    /\ TriggerFaults \in [TriggerFaultKinds -> Nat]
    /\ NoJob \notin Details

\* Every variable has its type, and the offset stays inside the topic.
TypeOK ==
    /\ GitHubTypeOK
    /\ ControllerTypeOK
    /\ topic \in Seq(Command)
    /\ offset \in 0 .. Len(topic)
    /\ exec \in Details \cup {NoJob}
    /\ exec # NoJob => offset < Len(topic)
    /\ now \in Nat
    /\ served \subseteq 1 .. Len(topic)
    /\ triggerBudget \in [TriggerFaultKinds -> Nat]

-----------------------------------------------------------------------------
Current == topic[offset + 1]
Pending == offset < Len(topic)

Verdict == Evaluate(exec, ListPRFilesHasSpec(Current.pr))

\* Mutation of Nonce: a clock of one-second resolution.
NonceInSeconds == clock + 1

\* The clock moves on between two readings, unless ClockFallsBack.
Nonce == now + 1

commandID ==
    IF Current.force THEN DeriveTaskIDForce(Current.pr, exec.sha, Nonce)
    ELSE DeriveTaskID(Current.pr, exec.sha, exec.commit.queued)

\* Mutation of InitialOffset: OffsetNewest.
NewestOffset(t) == Len(t)

\* Where a new process starts to read: OffsetOldest.
InitialOffset(t) == 0

Fault(kind) ==
    /\ triggerBudget[kind] > 0
    /\ triggerBudget' = [triggerBudget EXCEPT ![kind] = triggerBudget[kind] - 1]

\* Mutation of Done: what was read for this command is kept for the next.
DoneKeepingDetails == offset' = offset + 1 /\ exec' = exec

\* Mutation of Done: the offset is not stored.
DoneNotStored == offset' = offset /\ exec' = NoJob

\* The command is done and the offset stored.
Done == offset' = offset + 1 /\ exec' = NoJob

-----------------------------------------------------------------------------
(***************************************************************************)
(* The executor.                                                           *)
(***************************************************************************)

\* The gateway's /trigger handler puts a command on the topic.
Request(c) ==
    /\ Len(topic) < MaxRequests
    /\ topic' = Append(topic, c)
    /\ UNCHANGED <<githubVars, runs, offset, exec, now, served, triggerBudget>>

\* unmarshalAndValidate or ParsePRURL rejects the command.
SkipInvalid ==
    /\ Pending
    /\ exec = NoJob
    /\ ~Current.valid
    /\ Done
    /\ UNCHANGED <<githubVars, runs, topic, now, served, triggerBudget>>

ReadDetails ==
    /\ Pending
    /\ exec = NoJob
    /\ Current.valid
    /\ exec' = GetPRDetails(Current.pr)
    /\ UNCHANGED <<githubVars, runs, topic, offset, now, served, triggerBudget>>

\* GetPRDetails or the gate fails: transient, the command comes again.
ReadFails ==
    /\ Pending
    /\ Current.valid
    /\ exec # NoJob => EvaluateReads(exec)
    /\ Fault("read")
    /\ exec' = NoJob
    /\ UNCHANGED <<githubVars, runs, topic, offset, now, served>>

SkipNonCandidate ==
    /\ exec # NoJob
    /\ Verdict # Keep
    /\ Done
    /\ UNCHANGED <<githubVars, runs, topic, now, served, triggerBudget>>

Send ==
    /\ exec # NoJob
    /\ Verdict = Keep
    /\ CreateTask(commandID, exec.commit.spec)
    /\ now' = IF Current.force THEN Nonce ELSE now
    /\ served' = served \cup {offset + 1}
    /\ Done
    /\ UNCHANGED <<githubVars, topic, triggerBudget>>

\* The command is lost ("send"), or only its acknowledgement is ("ack").
SendFails ==
    /\ exec # NoJob
    /\ Verdict = Keep
    /\ \/ Fault("send") /\ UNCHANGED runs
       \/ Fault("ack") /\ CreateTask(commandID, exec.commit.spec)
    /\ now' = IF Current.force THEN Nonce ELSE now
    /\ exec' = NoJob
    /\ UNCHANGED <<githubVars, topic, offset, served>>

\* The process ends anywhere and a new one starts with an empty offset store.
Restart ==
    /\ Fault("restart")
    /\ offset' = InitialOffset(topic)
    /\ exec' = NoJob
    /\ UNCHANGED <<githubVars, runs, topic, now, served>>

\* The next nonce is not above the last one: the clock is set back, or it has
\* not moved on since it was read (taskid.go:51-54).
ClockFallsBack ==
    /\ now > 0
    /\ Fault("clock")
    /\ now' = now - 1
    /\ UNCHANGED <<githubVars, runs, topic, offset, exec, served>>

-----------------------------------------------------------------------------
Init ==
    /\ GitHubInit
    /\ ControllerInit
    /\ topic = <<>>
    /\ offset = 0
    /\ exec = NoJob
    /\ now = 0
    /\ served = {}
    /\ triggerBudget = TriggerFaults

ExecStep == SkipInvalid \/ ReadDetails \/ SkipNonCandidate \/ Send

World == GitHubNext /\ UNCHANGED <<runs, triggerVars>>

Next ==
    \/ World
    \/ \E c \in Requests : Request(c)
    \/ ExecStep
    \/ ReadFails \/ SendFails \/ Restart \/ ClockFallsBack

Spec == Init /\ [][Next]_vars

\* The consumer keeps reading its topic; nobody has to request anything.
FairSpec == Spec /\ WF_vars(ExecStep)

-----------------------------------------------------------------------------
(***************************************************************************)
(* Properties.                                                             *)
(***************************************************************************)

IsCandidate(p) == Evaluate(GetPRDetails(p), ListPRFilesHasSpec(p)) = Keep

ForcedRuns(p) == {r \in runs : r.id.pr = p /\ r.id.nonce # NoNonce}
ForcedServed(p) == {i \in served : topic[i].pr = p /\ topic[i].force}

\* By how many microseconds the clock fell back.
ClockLosses == TriggerFaults["clock"] - triggerBudget["clock"]

\* Each forced command gets a run of its own: the controller's deduplication
\* swallows one only for a reading of the clock that repeats an earlier one,
\* at most one for every microsecond the clock fell back, and never for a run
\* the poll or an unforced command started (taskid.go:44-54).
ForcedCommandsRun ==
    \A p \in PRs :
        Cardinality(ForcedServed(p)) <= Cardinality(ForcedRuns(p)) + ClockLosses

\* No valid command is lost to an error or a restart: its pull request gets
\* a run, a forced one if that was asked for, unless it stops being a
\* candidate for good (trigger_executor.go:29-36, "transient, retried").
\* One that becomes a candidate again after its command was skipped has to
\* be requested again, so the property is for pushes only.
Waiting(i) ==
    /\ i <= Len(topic)
    /\ topic[i].valid
    /\ IsCandidate(topic[i].pr)
    /\ \A r \in runs : r.id.pr = topic[i].pr
                          => topic[i].force /\ r.id.nonce = NoNonce

EveryRequestServed == \A i \in 1 .. MaxRequests : []<>~Waiting(i)

\* The offset passes no command over: it moves past one that is invalid, that
\* was no candidate when it was looked at, or that has a run by then, a forced
\* one if that was asked for.  A command that failed, or that waited when the
\* process ended, stays in front of it (trigger_executor.go:29-36, 210-214;
\* main.go:268-271).
RunFor(c) == \E r \in runs : r.id.pr = c.pr /\ (c.force => r.id.nonce # NoNonce)

NoCommandPassedOver ==
    [][\A i \in offset + 1 .. offset' :
          \/ ~topic[i].valid
          \/ i = offset + 1 /\ exec # NoJob /\ Verdict # Keep
          \/ i \in served' /\ RunFor(topic[i])']_vars

\* Executing a command again after a restart creates nothing new
\* (main.go:268-271, memdb.go:57-59, "safe because CreateTaskCommand is
\* idempotent via the derived task_id").
ReplayIdempotent ==
    [][offset + 1 \in served /\ offset' = offset + 1 => runs' = runs]_vars
=============================================================================
