------------------------------ MODULE MCSystem ------------------------------
(***************************************************************************)
(* A small instance of System: one pull request of one spec, the ticker's  *)
(* poll, two commands.                                                     *)
(***************************************************************************)
EXTENDS MCWatcher, System

BothKinds == [pr : PRs, force : BOOLEAN, valid : {TRUE}]

PollFaults == OneOf({"restart"})
AckFault == [read |-> 0, send |-> 0, ack |-> 1, restart |-> 0, clock |-> 0]
=============================================================================
