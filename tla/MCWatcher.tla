----------------------------- MODULE MCWatcher ------------------------------
(***************************************************************************)
(* Small instances of Watcher: the commits that can be pushed and the      *)
(* faults that can strike, named for the .cfg files.                       *)
(***************************************************************************)
EXTENDS Watcher, TLC

CONSTANTS p1, p2

At(spec, stage, queued) ==
    [config |-> TRUE, spec |-> spec, stage |-> stage, inDiff |-> TRUE,
     queued |-> queued]

\* One spec: prompts queued, queue drained, completed.
OneSpec == {At(1, "approved", TRUE), At(1, "approved", FALSE),
            At(1, "completed", FALSE)}

\* A spec that is not completed yet.
OpenSpec == {At(1, "approved", TRUE), At(1, "approved", FALSE)}

\* One spec, and heads that are no candidates but end nothing: the spec
\* before its approval, and a branch without the config file.
PausedSpec ==
    OneSpec \cup
    {At(1, "proposed", FALSE), [At(1, "approved", TRUE) EXCEPT !.config = FALSE]}

\* A second spec on the branch after the first.
TwoSpecs == OneSpec \cup {At(2, "approved", TRUE), At(2, "approved", FALSE)}

Each(kinds) == [p \in PRs |-> kinds]

Pushed == Each({"push"})
Touched == Each({"touch"})
Drafted == Each({"draft"})
PushedAndTouched == Each({"push", "touch"})

\* One pull request moves on, the others keep the time they had.
OnePushed == [p \in PRs |-> IF p = p1 THEN {"push"} ELSE {}]

\* What happens to the pull requests out of scope is of no interest.
InScope == [p \in PRs |-> IF p \in Allowed THEN {"push", "close", "reopen"} ELSE {}]

NoFaults == [k \in FaultKinds |-> 0]
OneOf(kinds) == [k \in FaultKinds |-> IF k \in kinds THEN 1 ELSE 0]

SafeFaults == OneOf({"index", "send", "restart"})
LiveFaults == OneOf({"index", "read", "save", "cancel", "crash", "restart"})
RaceFaults == OneOf({"ack", "tear", "crash"})
ReadFault == OneOf({"read"})

Symmetry == Permutations(PRs)
PollerSymmetry == Permutations(Pollers)
=============================================================================
