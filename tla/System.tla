------------------------------- MODULE System -------------------------------
(***************************************************************************)
(* The process of main.go with both of its publishers: the poll of Watcher *)
(* and the /trigger consumer of Trigger, three run functions side by side  *)
(* (main.go:289-296).  They share the client, hence GitHub, and the sender,*)
(* hence the controller; the cursor belongs to the poll alone and the      *)
(* offset store to the consumer.  A process that ends takes both along.    *)
(***************************************************************************)
EXTENDS Watcher, Sequences

CONSTANTS
    Requests,       \* the commands that may be requested
    MaxRequests,    \* bound on the length of the topic
    TriggerFaults   \* bound: how often each kind of fault strikes the consumer

VARIABLES topic, offset, exec, now, served, triggerBudget

T == INSTANCE Trigger

ASSUME SystemAssumption ==
    /\ Requests \subseteq T!Command
    /\ MaxRequests \in Nat
    /\ TriggerFaults \in [T!TriggerFaultKinds -> Nat]
    /\ NoJob \notin T!Details

consumerVars == <<topic, offset, exec, now, served, triggerBudget>>
systemVars == <<vars, consumerVars>>

-----------------------------------------------------------------------------
SystemInit == Init /\ T!Init

\* A poll, a change on GitHub or the cancellation of the context.
PollSide ==
    /\ \/ World
       \/ Cancel
       \/ \E w \in Pollers : PollStep(w) \/ FaultStep(w)
    /\ UNCHANGED consumerVars

\* The consumer's context is the pollers' context: once it is done, no command
\* is begun, but one that was read may still be sent.
CommandSide ==
    /\ \/ \E c \in Requests : T!Request(c)
       \/ (cancelled => exec # NoJob) /\ (T!ExecStep \/ T!ReadFails \/ T!SendFails)
       \/ T!ClockFallsBack
    /\ UNCHANGED watcherVars

\* The consumer of a new process: an empty offset store, no command begun.
ConsumerStarts ==
    /\ offset' = T!InitialOffset(topic)
    /\ exec' = NoJob

ProcessEnds ==
    /\ Exit \/ Crash \/ Restart
    /\ ConsumerStarts
    /\ UNCHANGED <<topic, now, served, triggerBudget>>

SystemNext == PollSide \/ CommandSide \/ ProcessEnds

SystemSpec == SystemInit /\ [][SystemNext]_systemVars

-----------------------------------------------------------------------------
(***************************************************************************)
(* Properties.                                                             *)
(***************************************************************************)

Forced(c) == c.valid /\ c.force

AcksLost == TriggerFaults["ack"] - triggerBudget["ack"]

\* An unforced command was sent, as far as the acknowledgements tell.
UnforcedSent(p) ==
    \E i \in 1 .. Len(topic) :
        /\ topic[i].pr = p /\ ~topic[i].force
        /\ i \in served \/ AcksLost > 0

\* Once a pull request's queued phase was handed over, the spec gets no second
\* run that nobody asked for: a forced command adds its own and leaves the
\* poll's marker and identifiers alone.  Only an unforced command is excepted.
\* It keeps no marker, so that the poll runs the spec again after the drain
\* (trigger_executor.go:43-47 declares the command itself an override).
NoRunUnasked ==
    [][\A r \in runs' \ runs :
          QueuedRun(r.id.pr, r.spec)
              => r.id.nonce # NoNonce \/ UnforcedSent(r.id.pr)']_systemVars

\* A command is executed once in every process, and once more for each
\* acknowledgement that is lost: a forced one has no more runs than that
\* (main.go:268-271, trigger_executor.go:205-208), whatever was retried for
\* another reason and whatever the poll does beside it.
Used(kind) == FaultBudget[kind] - budget[kind]

Processes == 1 + Used("restart") + Used("crash") + Used("cancel")

ForcedCommands(p) == {i \in 1 .. Len(topic) : Forced(topic[i]) /\ topic[i].pr = p}

ForcedRunsBounded ==
    \A p \in PRs :
        Cardinality(T!ForcedRuns(p)) <=
            Processes * Cardinality(ForcedCommands(p)) + AcksLost
=============================================================================
