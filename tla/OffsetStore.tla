---------------------------- MODULE OffsetStore -----------------------------
(***************************************************************************)
(* What the command consumer needs of pkg/memdb.go: for each partition, a  *)
(* counter of the commands that are done.  A consumer is delivered the     *)
(* command at the counter; when it is done the counter moves on by one, as *)
(* a whole, and whatever the consumers of the other partitions do.  A      *)
(* transaction that fails makes its consumer ask again.  Only the end of   *)
(* the process, or of the database, takes the counters back to 0.          *)
(*                                                                         *)
(* MemDB implements it (Components).                                       *)
(***************************************************************************)
EXTENDS Naturals

CONSTANT Partitions    \* each with a consumer of its own

VARIABLES
    open,      \* the database is open
    stored,    \* the offset of each partition
    held       \* the offset each consumer goes on from: one or none

Oldest == [p \in Partitions |-> 0]

Init ==
    /\ open = TRUE
    /\ stored = Oldest
    /\ held = [p \in Partitions |-> {}]

Deliver(p) ==
    /\ held' = [held EXCEPT ![p] = {stored[p]}]
    /\ UNCHANGED <<open, stored>>

Commit(p) ==
    /\ open
    /\ stored' = [stored EXCEPT ![p] = stored[p] + 1]
    /\ \E next \in {{}, {stored[p] + 1}} : held' = [held EXCEPT ![p] = next]
    /\ UNCHANGED open

Forget(p) ==
    /\ held' = [held EXCEPT ![p] = {}]
    /\ UNCHANGED <<open, stored>>

Close ==
    /\ open
    /\ open' = FALSE
    /\ stored' = Oldest
    /\ UNCHANGED held

\* A new process: an empty database, and nobody holds anything.
Restart ==
    /\ open' = TRUE
    /\ stored' = Oldest
    /\ held' = [p \in Partitions |-> {}]

Next ==
    \/ \E p \in Partitions : Deliver(p) \/ Commit(p) \/ Forget(p)
    \/ Close
    \/ Restart

Spec == Init /\ [][Next]_<<open, stored, held>>
=============================================================================
