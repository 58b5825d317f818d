----------------------------- MODULE Controller -----------------------------
(***************************************************************************)
(* The agent controller that consumes CreateTaskCommands.  It is another   *)
(* service; pkg/watcher.go:142-147 relies on one thing of it: commands are *)
(* deduplicated by their task_identifier, the first one creates a task and *)
(* the others are no-ops.  A created task is one agent run on the pull     *)
(* request's branch, for the spec whose approval made it a candidate.      *)
(***************************************************************************)
EXTENDS TaskID

VARIABLE runs    \* the tasks created so far: [id, spec] records

ControllerTypeOK == runs \subseteq [id : TaskIDs, spec : Nat]

ControllerInit == runs = {}

Created == {r.id : r \in runs}

CreateTask(id, spec) ==
    runs' = IF id \in Created THEN runs
            ELSE runs \cup {[id |-> id, spec |-> spec]}
=============================================================================
