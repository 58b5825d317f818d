----------------------------- MODULE Candidate ------------------------------
(***************************************************************************)
(* The candidate gate, darkfactory.Evaluate in pkg/darkfactory/candidate.go*)
(* over the abstract commits of GitHub.tla: which verdict a pull request   *)
(* gets, in the order of the code's early returns.  d is what GetPRDetails *)
(* returned; diffHasSpec is whether the diff listed by ListPRFiles, read   *)
(* after the details and not pinned to their SHA, touches the spec file.   *)
(***************************************************************************)

Keep == "keep"

\* `approved:` is set and `completed:` is not.
specApprovedNotCompleted(c) == c.stage = "approved"

Evaluate(d, diffHasSpec) ==
    IF ~d.draft THEN "not_draft"
    ELSE IF ~d.open THEN "not_open"
    ELSE IF ~d.commit.config THEN "no_dark_factory_yaml"
    ELSE IF ~(diffHasSpec /\ specApprovedNotCompleted(d.commit))
         THEN "no_spec_in_diff"
    ELSE Keep

\* Only past these two checks does the gate read GitHub, and can it fail.
EvaluateReads(d) == d.draft /\ d.open
=============================================================================
