------------------------------- MODULE TaskID -------------------------------
(***************************************************************************)
(* The task identifiers of pkg/taskid.go.  The code hashes a key string    *)
(* with UUID5; equal keys give equal identifiers and, SHA-1 collisions     *)
(* aside, only equal keys do, so an identifier is modelled by the parts    *)
(* its key is built from:                                                  *)
(*                                                                         *)
(*   "o/r#n@<sha>"           [pr |-> p, key |-> sha,       nonce |-> 0]    *)
(*   "o/r#n@queued"          [pr |-> p, key |-> QueuedKey, nonce |-> 0]    *)
(*   "o/r#n@<sha>!<nonce>"   [pr |-> p, key |-> sha,       nonce |-> n]    *)
(*                                                                         *)
(* A head SHA is a positive number, so that no SHA is the word "queued";   *)
(* a nonce is a positive number (microseconds since the epoch).            *)
(***************************************************************************)
EXTENDS Naturals

CONSTANT PRs    \* the pull requests: (owner, repo, number) triples

QueuedKey == 0
NoNonce == 0

Sha == Nat \ {0}
TaskIDs == [pr : PRs, key : Nat, nonce : Nat]

DeriveTaskID(p, sha, promptsQueued) ==
    [pr    |-> p,
     key   |-> IF promptsQueued THEN QueuedKey ELSE sha,
     nonce |-> NoNonce]

\* Mutation of DeriveTaskIDForce: the nonce is left out of the key.
DeriveTaskIDUnsalted(p, sha, nonce) ==
    [pr |-> p, key |-> sha, nonce |-> NoNonce]

DeriveTaskIDForce(p, sha, nonce) ==
    [pr |-> p, key |-> sha, nonce |-> nonce]

\* The identifier pinned for a pull request's whole queued phase.
QueuedID(p) == [pr |-> p, key |-> QueuedKey, nonce |-> NoNonce]
=============================================================================
