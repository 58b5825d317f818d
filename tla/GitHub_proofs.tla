---------------------------- MODULE GitHub_proofs ---------------------------
(***************************************************************************)
(* What the proofs about Watcher and Trigger share: the types of GitHub's  *)
(* state and of what the client reads of it.                               *)
(***************************************************************************)
EXTENDS GitHub, TLAPS

LEMMA GitHubReadsTyped ==
    ASSUME GitHubTypeOK
    PROVE  /\ \A p \in PRs : GetPRDetails(p) \in Details
           /\ \A since \in Nat : SearchPRs(since) \subseteq SearchHit
BY DEF GitHubTypeOK, GetPRDetails, PullRequest, Details, SearchPRs, SearchHit

LEMMA GitHubInitType ==
    ASSUME GitHubInit
    PROVE  GitHubTypeOK
<1>1. ASSUME NEW c \in {d \in Commits : d.spec = 1}
      PROVE  [open |-> TRUE, draft |-> TRUE, sha |-> 1, updated |-> 0,
              commit |-> c] \in PullRequest
  BY GitHubAssumption DEF PullRequest, Sha
<1>2. pr \in [PRs -> PullRequest]
  BY <1>1 DEF GitHubInit
<1>3. QED
  BY <1>2 DEF GitHubInit, GitHubTypeOK

LEMMA GitHubTypeCorrect ==
    ASSUME GitHubTypeOK, GitHubNext
    PROVE  GitHubTypeOK'
<1>1. CASE Tick
  BY <1>1 DEF Tick, GitHubTypeOK
<1>2. ASSUME NEW p \in PRs, NEW c \in Commits, Push(p, c)
      PROVE  GitHubTypeOK'
  <2>1. pr[p] \in PullRequest /\ c \in Commit /\ pr[p].sha + 1 \in Sha
    BY GitHubAssumption DEF GitHubTypeOK, PullRequest, Sha
  <2>2. [pr[p] EXCEPT !.sha = pr[p].sha + 1, !.commit = c, !.updated = clock]
            \in PullRequest
    BY <2>1 DEF PullRequest, GitHubTypeOK
  <2>3. QED
    BY <1>2, <2>2 DEF Push, GitHubTypeOK
<1>3. ASSUME NEW p \in PRs, Touch(p)
      PROVE  GitHubTypeOK'
  BY <1>3 DEF Touch, GitHubTypeOK, PullRequest
<1>4. ASSUME NEW p \in PRs, ToggleDraft(p)
      PROVE  GitHubTypeOK'
  BY <1>4 DEF ToggleDraft, GitHubTypeOK, PullRequest
<1>5. ASSUME NEW p \in PRs, Close(p)
      PROVE  GitHubTypeOK'
  BY <1>5 DEF Close, GitHubTypeOK, PullRequest
<1>6. ASSUME NEW p \in PRs, Reopen(p)
      PROVE  GitHubTypeOK'
  BY <1>6 DEF Reopen, GitHubTypeOK, PullRequest
<1>7. QED
  BY <1>1, <1>2, <1>3, <1>4, <1>5, <1>6 DEF GitHubNext

\* Whatever else happens to a pull request leaves its commit alone.
LEMMA NoPush ==
    ASSUME GitHubTypeOK, NEW q \in PRs,
           Touch(q) \/ ToggleDraft(q) \/ Close(q) \/ Reopen(q), NEW p \in PRs
    PROVE  \/ pr'[p] = pr[p]
           \/ pr'[p].updated = clock /\ pr'[p].commit = pr[p].commit
<1>1. pr \in [PRs -> PullRequest] /\ pr[p] \in PullRequest /\ pr[q] \in PullRequest
  BY DEF GitHubTypeOK
<1>2. CASE p # q
  BY <1>1, <1>2 DEF Touch, ToggleDraft, Close, Reopen
<1>3. CASE p = q
  <2>1. CASE Touch(q)
    BY <1>1, <1>3, <2>1 DEF Touch, PullRequest
  <2>2. CASE ToggleDraft(q)
    BY <1>1, <1>3, <2>2 DEF ToggleDraft, PullRequest
  <2>3. CASE Close(q)
    BY <1>1, <1>3, <2>3 DEF Close, PullRequest
  <2>4. CASE Reopen(q)
    BY <1>1, <1>3, <2>4 DEF Reopen, PullRequest
  <2>5. QED
    BY <2>1, <2>2, <2>3, <2>4
<1>4. QED
  BY <1>2, <1>3
=============================================================================
