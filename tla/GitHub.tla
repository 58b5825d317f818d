------------------------------- MODULE GitHub -------------------------------
(***************************************************************************)
(* GitHub as the watcher sees it through pkg/githubclient.go: pull         *)
(* requests that people and agents keep changing, a search over them, and  *)
(* the details of one of them.  The changes themselves happen outside the  *)
(* repository and are modelled from what the code reads.                   *)
(*                                                                         *)
(* A head commit is reduced to what the candidate gate reads at that SHA:  *)
(*   config   .dark-factory.yaml is present,                               *)
(*   spec     which spec the branch works on (specs are done in turn),     *)
(*   stage    that spec's frontmatter: proposed, approved or completed,    *)
(*   inDiff   the pull request's diff touches it,                          *)
(*   queued   prompts/in-progress/ holds a *.md file.                      *)
(*                                                                         *)
(* Time is counted in whole seconds, the resolution of GitHub's updated_at,*)
(* so that several changes can carry the same timestamp.                   *)
(***************************************************************************)
EXTENDS TaskID

CONSTANTS
    Commits,     \* the head commits a push may produce
    MaxSha,      \* bound: head SHAs of one pull request are 1..MaxSha
    MaxClock,    \* bound on the clock
    Activity     \* which kinds of change happen to a pull request

VARIABLES
    pr,          \* the state of every pull request
    clock        \* the current second

githubVars == <<pr, clock>>

Stages == {"proposed", "approved", "completed"}

Commit == [config : BOOLEAN, spec : Nat, stage : Stages, inDiff : BOOLEAN,
           queued : BOOLEAN]

PullRequest == [open : BOOLEAN, draft : BOOLEAN, sha : Sha,
                updated : Nat, commit : Commit]

Details == [open : BOOLEAN, draft : BOOLEAN, sha : Sha, commit : Commit]

SearchHit == [pr : PRs, updated : Nat]

ASSUME GitHubAssumption ==
    /\ Commits \subseteq Commit
    /\ MaxSha \in Nat
    /\ MaxClock \in Nat
    /\ Activity \in [PRs -> SUBSET {"push", "touch", "draft", "close", "reopen"}]

GitHubTypeOK ==
    /\ pr \in [PRs -> PullRequest]
    /\ clock \in Nat

(***************************************************************************)
(* What the client returns.                                                *)
(***************************************************************************)

\* Mutation of InWindow: "updated:>", which drops the second of the watermark.
InWindowExclusive(updated, since) == updated > since

\* The "updated:>=<since>" term of the search query.
InWindow(updated, since) == updated >= since

\* SearchPRs: the open pull requests updated since a time, as one listing.
SearchPRs(since) ==
    {[pr |-> p, updated |-> pr[p].updated] :
        p \in {q \in PRs : pr[q].open /\ InWindow(pr[q].updated, since)}}

\* GetPRDetails, together with the content that the returned SHA pins.
GetPRDetails(p) ==
    [open |-> pr[p].open, draft |-> pr[p].draft, sha |-> pr[p].sha,
     commit |-> pr[p].commit]

\* ListPRFiles answers for the head at the time of the call, not for a SHA.
ListPRFilesHasSpec(p) == pr[p].commit.inDiff

(***************************************************************************)
(* What happens on GitHub.                                                 *)
(***************************************************************************)

StageAfter == [proposed  |-> Stages,
               approved  |-> {"approved", "completed"},
               completed |-> {"completed"}]

\* A branch finishes a spec before it starts the next one.
CommitFollows(old, new) ==
    \/ new.spec = old.spec /\ new.stage \in StageAfter[old.stage]
    \/ new.spec = old.spec + 1 /\ old.stage = "completed"

GitHubInit ==
    /\ pr \in [PRs -> {[open |-> TRUE, draft |-> TRUE, sha |-> 1,
                        updated |-> 0, commit |-> c] :
                            c \in {d \in Commits : d.spec = 1}}]
    /\ clock = 0

Tick ==
    /\ clock < MaxClock
    /\ clock' = clock + 1
    /\ UNCHANGED pr

Push(p, c) ==
    /\ "push" \in Activity[p]
    /\ pr[p].open
    /\ pr[p].sha < MaxSha
    /\ CommitFollows(pr[p].commit, c)
    /\ pr' = [pr EXCEPT ![p] = [pr[p] EXCEPT !.sha = pr[p].sha + 1,
                                             !.commit = c,
                                             !.updated = clock]]
    /\ UNCHANGED clock

\* A comment, a label, a review: updated_at moves and nothing else does.
Touch(p) ==
    /\ "touch" \in Activity[p]
    /\ pr[p].updated < clock
    /\ pr' = [pr EXCEPT ![p] = [pr[p] EXCEPT !.updated = clock]]
    /\ UNCHANGED clock

ToggleDraft(p) ==
    /\ "draft" \in Activity[p]
    /\ pr[p].open
    /\ pr' = [pr EXCEPT ![p] = [pr[p] EXCEPT !.draft = ~pr[p].draft,
                                             !.updated = clock]]
    /\ UNCHANGED clock

Close(p) ==
    /\ "close" \in Activity[p]
    /\ pr[p].open
    /\ pr' = [pr EXCEPT ![p] = [pr[p] EXCEPT !.open = FALSE, !.updated = clock]]
    /\ UNCHANGED clock

Reopen(p) ==
    /\ "reopen" \in Activity[p]
    /\ ~pr[p].open
    /\ pr' = [pr EXCEPT ![p] = [pr[p] EXCEPT !.open = TRUE, !.updated = clock]]
    /\ UNCHANGED clock

GitHubNext ==
    \/ Tick
    \/ \E p \in PRs :
        \/ \E c \in Commits : Push(p, c)
        \/ Touch(p)
        \/ ToggleDraft(p)
        \/ Close(p)
        \/ Reopen(p)
=============================================================================
