-------------------------- MODULE QueuedPhase_proofs -------------------------
(***************************************************************************)
(* A spec whose queued phase was handed to an agent gets no second run,    *)
(* for any number of pull requests, commits, failed reads, missed hits,    *)
(* lost commands and restarts between polls.  It needs what OnePoll says,  *)
(* and each conjunct of it is one of the ways in which the program loses a *)
(* marker.                                                                 *)
(*                                                                         *)
(* The argument follows the marker.  As long as the spec is not over, the  *)
(* marker is in the cursor that counts: the file between polls, the        *)
(* poller's own copy within one.  A verdict that drops it was reached for  *)
(* a pull request that was over when it was read, and what is over stays   *)
(* over.  A publish for the same spec would need a candidate that was read *)
(* before it was over, and then the marker was still there.                *)
(***************************************************************************)
EXTENDS Watcher_proofs

\* The faults that lose a marker.
LosesMarkers == {"ack", "save", "cancel", "crash"}

OnePoll ==
    /\ \E w \in Pollers : Pollers = {w}
    /\ \A k \in LosesMarkers : FaultBudget[k] = 0
    /\ \A p \in PRs : "reopen" \notin Activity[p]
    /\ \A c \in Commits : c.stage = "approved" => c.inDiff

-----------------------------------------------------------------------------
(***************************************************************************)
(* The history of a pull request, seen by somebody who is interested in    *)
(* one spec.  x and y are what is known of it at some time: its state, or  *)
(* the details that were read.                                             *)
(***************************************************************************)

\* The spec was approved by then, or the branch is past it.
Reached(x, spec) ==
    \/ x.commit.spec > spec
    \/ x.commit.spec = spec /\ x.commit.stage # "proposed"

\* Nothing will make it a candidate any more.
Over(x, spec) ==
    \/ ~x.open
    \/ x.commit.spec > spec
    \/ x.commit.spec = spec /\ x.commit.stage = "completed"

\* x is the pull request as it was, or as it may be later than y.
After(x, y) ==
    /\ x.open => y.open
    /\ \/ x.commit.spec > y.commit.spec
       \/ /\ x.commit.spec = y.commit.spec
          /\ x.commit.stage \in StageAfter[y.commit.stage]

Seen(x) == x.open \in BOOLEAN /\ x.commit \in Commit

LEMMA StagesInOrder ==
    /\ StageAfter["proposed"] = Stages
    /\ StageAfter["approved"] = {"approved", "completed"}
    /\ StageAfter["completed"] = {"completed"}
  BY DEF StageAfter

LEMMA CommitParts ==
    ASSUME NEW c \in Commit
    PROVE  c.spec \in Nat /\ c.stage \in Stages /\ c.inDiff \in BOOLEAN
  BY DEF Commit

LEMMA AfterIsReflexive ==
    ASSUME NEW x, Seen(x) PROVE After(x, x)
  BY StagesInOrder, CommitParts DEF Seen, After, Stages

LEMMA AfterIsTransitive ==
    ASSUME NEW x, NEW y, NEW z, Seen(x), Seen(y), Seen(z),
           After(x, y), After(y, z)
    PROVE  After(x, z)
  <1>1. /\ x.commit.spec \in Nat /\ y.commit.spec \in Nat /\ z.commit.spec \in Nat
        /\ x.commit.stage \in Stages /\ y.commit.stage \in Stages
        /\ z.commit.stage \in Stages
    BY CommitParts DEF Seen
  <1> QED
    BY <1>1, StagesInOrder DEF After, Stages

LEMMA AfterKeeps ==
    ASSUME NEW x, NEW y, Seen(x), Seen(y), After(x, y), NEW spec \in Nat
    PROVE  /\ Reached(y, spec) => Reached(x, spec)
           /\ Over(y, spec) => Over(x, spec)
  <1>1. /\ x.commit.spec \in Nat /\ y.commit.spec \in Nat
        /\ x.commit.stage \in Stages /\ y.commit.stage \in Stages
    BY CommitParts DEF Seen
  <1> QED
    BY <1>1, StagesInOrder DEF After, Reached, Over, Stages

\* Time runs one way on GitHub too, as long as nobody reopens.
LEMMA WorldGoesOn ==
    ASSUME OnePoll, GitHubTypeOK, GitHubNext, NEW p \in PRs
    PROVE  /\ Seen(pr[p]) /\ Seen(pr'[p])
           /\ After(pr'[p], pr[p])
  <1>1. Seen(pr[p]) /\ Seen(pr'[p])
    <2>1. GitHubTypeOK'
      BY GitHubTypeCorrect
    <2>2. pr[p] \in PullRequest /\ pr'[p] \in PullRequest
      BY <2>1 DEF GitHubTypeOK
    <2> QED
      BY <2>2 DEF PullRequest, Seen
  <1>2. After(pr[p], pr[p])
    BY <1>1, AfterIsReflexive
  <1>3. ASSUME pr'[p].commit = pr[p].commit, pr'[p].open => pr[p].open
        PROVE  After(pr'[p], pr[p])
    BY <1>2, <1>3 DEF After
  <1>4. CASE Tick
    BY <1>1, <1>3, <1>4 DEF Tick
  <1>5. ASSUME NEW q \in PRs, NEW c \in Commits, Push(q, c)
        PROVE  After(pr'[p], pr[p])
    <2>1. CASE p = q
      <3>1. pr'[p].commit = c /\ pr'[p].open = pr[p].open /\ CommitFollows(pr[p].commit, c)
        BY <1>5, <2>1 DEF Push, GitHubTypeOK, PullRequest
      <3>2. c.spec = pr[p].commit.spec + 1 => c.spec > pr[p].commit.spec
        BY <1>1, CommitParts DEF Seen
      <3> QED
        BY <3>1, <3>2 DEF CommitFollows, After
    <2>2. CASE p # q
      BY <1>3, <1>5, <2>2 DEF Push, GitHubTypeOK
    <2> QED
      BY <2>1, <2>2
  <1>6. ASSUME NEW q \in PRs, Touch(q) \/ ToggleDraft(q) \/ Close(q)
        PROVE  After(pr'[p], pr[p])
    <2>1. CASE p = q
      BY <1>3, <1>6, <2>1 DEF Touch, ToggleDraft, Close, GitHubTypeOK, PullRequest
    <2>2. CASE p # q
      BY <1>3, <1>6, <2>2 DEF Touch, ToggleDraft, Close, GitHubTypeOK
    <2> QED
      BY <2>1, <2>2
  <1>7. ASSUME NEW q \in PRs PROVE ~Reopen(q)
    BY DEF OnePoll, Reopen
  <1> QED
    BY <1>1, <1>4, <1>5, <1>6, <1>7 DEF GitHubNext

-----------------------------------------------------------------------------
(***************************************************************************)
(* The invariant.                                                          *)
(***************************************************************************)

\* None of the faults that lose a marker has struck.
NothingLost == ~cancelled /\ \A k \in LosesMarkers : budget[k] = 0

\* What is approved shows in the diff.
ApprovedInDiff ==
    \A p \in PRs : pr[p].commit.stage = "approved" => pr[p].commit.inDiff

\* The pull requests of P are those nobody but the poll hands over.
WatchedRun(P, p, spec) == p \in P /\ QueuedRun(p, spec)

\* Only approved specs were handed over.
RunsReached(P) ==
    \A p \in PRs, spec \in Nat : WatchedRun(P, p, spec) => Reached(pr[p], spec)

MarkersOf(f) == IF Unreadable(f) THEN {} ELSE f.queuedMarkers

\* The marker is where the poller will find it.
Holds(s, f, p) ==
    /\ s.pc \in {"idle", "search"} => p \in MarkersOf(f)
    /\ s.pc # "idle" => p \in s.cursor.queuedMarkers

MarkersHeld(P, s, f) ==
    \A p \in PRs, spec \in Nat :
        WatchedRun(P, p, spec) /\ ~Over(pr[p], spec) => Holds(s, f, p)

\* What a poller has in hand was read after every run there is, and shows the
\* spec over if its marker is gone.
JobFits(P, s) ==
    LET p == s.job.hit.pr
        d == s.job.details
    IN  /\ After(pr[p], d)
        /\ \A spec \in Nat :
            WatchedRun(P, p, spec) =>
                /\ Reached(d, spec)
                /\ Over(d, spec) \/ p \in s.cursor.queuedMarkers

PollerInv(P, s, f) ==
    /\ MarkersHeld(P, s, f)
    /\ s.pc = "evaluate" => JobFits(P, s)

PhaseInv(P) ==
    /\ NothingLost
    /\ ApprovedInDiff
    /\ RunsReached(P)
    /\ \A w \in Pollers : PollerInv(P, poll[w], file)

LEMMA InitPhase ==
    ASSUME OnePoll, Init, NEW P PROVE PhaseInv(P)
  <1>1. NothingLost
    BY DEF Init, OnePoll, NothingLost
  <1>2. ApprovedInDiff
    BY DEF Init, GitHubInit, OnePoll, ApprovedInDiff
  <1>3. \A p, spec : ~WatchedRun(P, p, spec)
    BY DEF Init, ControllerInit, WatchedRun, QueuedRun
  <1>4. \A w \in Pollers : poll[w].pc = "idle"
    BY DEF Init, IdlePoll
  <1> QED
    BY <1>1, <1>2, <1>3, <1>4 DEF PhaseInv, RunsReached, PollerInv, MarkersHeld

-----------------------------------------------------------------------------
(***************************************************************************)
(* Steps of GitHub.                                                        *)
(***************************************************************************)
LEMMA WorldPhase ==
    ASSUME OnePoll, TypeOK, NEW P, PhaseInv(P), World
    PROVE  PhaseInv(P)'
  <1>1. /\ GitHubTypeOK /\ GitHubNext
        /\ UNCHANGED <<runs, file, poll, startTime, cancelled, budget>>
    BY DEF World, watcherVars, TypeOK
  <1>2. \A p \in PRs :
          /\ Seen(pr[p]) /\ Seen(pr'[p])
          /\ After(pr'[p], pr[p])
    BY <1>1, WorldGoesOn
  <1>3. \A p, spec : WatchedRun(P, p, spec)' <=> WatchedRun(P, p, spec)
    BY <1>1 DEF WatchedRun, QueuedRun
  <1>4. NothingLost'
    BY <1>1 DEF PhaseInv, NothingLost
  <1>5. ApprovedInDiff'
    <2>1. ASSUME NEW p \in PRs
          PROVE  pr'[p].commit = pr[p].commit \/ pr'[p].commit \in Commits
      <3>1. ASSUME NEW q \in PRs, NEW c \in Commits, Push(q, c)
            PROVE  pr'[p].commit \in {pr[p].commit, c}
        BY <1>1, <3>1 DEF Push, GitHubTypeOK, PullRequest
      <3>2. ASSUME NEW q \in PRs, Touch(q) \/ ToggleDraft(q) \/ Close(q) \/ Reopen(q)
            PROVE  pr'[p].commit = pr[p].commit
        BY <1>1, <3>2, NoPush
      <3> QED
        BY <1>1, <3>1, <3>2 DEF GitHubNext, Tick
    <2> QED
      BY <2>1 DEF OnePoll, PhaseInv, ApprovedInDiff
  <1>6. RunsReached(P)'
    BY <1>2, <1>3, AfterKeeps DEF PhaseInv, RunsReached
  <1>7. ASSUME NEW w \in Pollers PROVE PollerInv(P, poll[w], file)'
    <2>1. PollerInv(P, poll[w], file) /\ poll' = poll /\ file' = file
      BY <1>1 DEF PhaseInv
    <2>2. MarkersHeld(P, poll[w], file)'
      BY <1>2, <1>3, <2>1, AfterKeeps DEF PollerInv, MarkersHeld, Holds, MarkersOf
    <2>3. ASSUME poll[w].pc = "evaluate" PROVE JobFits(P, poll[w])'
      <3>1. poll[w].job \in Job
        BY <2>3 DEF TypeOK
      <3>2. poll[w].job.hit.pr \in PRs /\ Seen(poll[w].job.details)
        BY <3>1 DEF Job, SearchHit, Details, Seen
      <3>3. After(pr'[poll[w].job.hit.pr], poll[w].job.details)
        BY <1>2, <2>1, <2>3, <3>2, AfterIsTransitive DEF PollerInv, JobFits
      <3> QED
        BY <1>3, <2>1, <2>3, <3>3 DEF PollerInv, JobFits
    <2> QED
      BY <2>1, <2>2, <2>3 DEF PollerInv
  <1> QED
    BY <1>4, <1>5, <1>6, <1>7 DEF PhaseInv

-----------------------------------------------------------------------------
(***************************************************************************)
(* Steps of the poller.                                                    *)
(***************************************************************************)

LEMMA HarmlessFault ==
    ASSUME TypeOK, NothingLost, NEW k \in FaultKinds, Fault(k)
    PROVE  /\ k \notin LosesMarkers
           /\ \A l \in LosesMarkers : budget'[l] = 0
  <1>1. budget \in [FaultKinds -> Nat] /\ LosesMarkers \subseteq FaultKinds
    BY DEF TypeOK, LosesMarkers, FaultKinds
  <1>2. k \notin LosesMarkers
    BY <1>1 DEF NothingLost, Fault
  <1> QED
    BY <1>1, <1>2 DEF NothingLost, Fault

\* A step of the one poller that creates no run.
LEMMA PollerPhase ==
    ASSUME OnePoll, TypeOK, NEW P, PhaseInv(P), NEW w \in Pollers, NEW s,
           poll' = [poll EXCEPT ![w] = s],
           UNCHANGED <<githubVars, runs>>, NothingLost',
           PollerInv(P, s, file')
    PROVE  PhaseInv(P)'
  <1>1. \A v \in Pollers : v = w
    BY DEF OnePoll
  <1>2. pr' = pr /\ runs' = runs /\ poll'[w] = s
    BY DEF githubVars, TypeOK
  <1>3. PollerInv(P, poll[w], file)'
    BY <1>2 DEF PollerInv, MarkersHeld, Holds, MarkersOf, JobFits, WatchedRun, QueuedRun
  <1> QED
    BY <1>1, <1>2, <1>3 DEF PhaseInv, ApprovedInDiff, RunsReached, WatchedRun, QueuedRun

\* A step that moves on without touching the markers.
LEMMA MovesOn ==
    ASSUME TypeOK, NEW P, PhaseInv(P), NEW w \in Pollers, NEW s,
           poll[w].pc # "idle", s.pc = "scan",
           s.cursor.queuedMarkers = poll[w].cursor.queuedMarkers
    PROVE  PollerInv(P, s, file)
  BY DEF PhaseInv, PollerInv, MarkersHeld, Holds

\* The parts of a job that is being evaluated.
LEMMA JobParts ==
    ASSUME TypeOK, NEW w \in Pollers, poll[w].pc = "evaluate"
    PROVE  /\ poll[w] \in PollState
           /\ poll[w].job.hit.pr \in PRs
           /\ poll[w].job.details \in Details
           /\ Seen(poll[w].job.details)
           /\ Seen(pr[poll[w].job.hit.pr])
  <1>1. poll[w].job \in Job /\ poll[w] \in PollState
    BY DEF TypeOK
  <1>2. poll[w].job.hit.pr \in PRs /\ poll[w].job.details \in Details
    BY <1>1 DEF Job, SearchHit
  <1>3. pr[poll[w].job.hit.pr] \in PullRequest
    BY <1>2 DEF TypeOK, GitHubTypeOK
  <1> QED
    BY <1>1, <1>2, <1>3 DEF Details, PullRequest, Seen

LEMMA LoadedMarkers ==
    LoadCursor(file, startTime).queuedMarkers = MarkersOf(file)
  BY DEF LoadCursor, newCursor, MarkersOf

\* What is read now fits every run there is.
LEMMA ReadFits ==
    ASSUME TypeOK, NEW P, PhaseInv(P), NEW w \in Pollers, poll[w].pc = "scan", NEW s,
           NEW h \in SearchHit, s.job = [hit |-> h, details |-> GetPRDetails(h.pr)],
           s.cursor = poll[w].cursor
    PROVE  JobFits(P, s)
  <1> DEFINE p == h.pr
             d == GetPRDetails(h.pr)
  <1>1. p \in PRs /\ pr[p] \in PullRequest
    BY DEF SearchHit, TypeOK, GitHubTypeOK
  <1>2. Seen(pr[p]) /\ d.open = pr[p].open /\ d.commit = pr[p].commit
    BY <1>1 DEF PullRequest, Seen, GetPRDetails
  <1>3. After(pr[p], d)
    BY <1>2, AfterIsReflexive DEF After
  <1>4. ASSUME NEW spec \in Nat, WatchedRun(P, p, spec)
        PROVE  /\ Reached(d, spec)
               /\ Over(d, spec) \/ p \in s.cursor.queuedMarkers
    <2>1. Reached(pr[p], spec)
      BY <1>1, <1>4 DEF PhaseInv, RunsReached
    <2>2. MarkersHeld(P, poll[w], file)
      BY DEF PhaseInv, PollerInv
    <2>3. Over(pr[p], spec) \/ Holds(poll[w], file, p)
      BY <1>1, <1>4, <2>2 DEF MarkersHeld
    <2>4. Over(pr[p], spec) \/ p \in s.cursor.queuedMarkers
      BY <2>3 DEF Holds
    <2> QED
      BY <1>2, <2>1, <2>4 DEF Reached, Over
  <1>5. s.job.hit.pr = p /\ s.job.details = d
    OBVIOUS
  <1> QED
    BY <1>3, <1>4, <1>5 DEF JobFits

\* A verdict that ends the queued phase comes for a pull request that is over,
\* as far as any queued run of it is concerned.
LEMMA DroppedWhenOver ==
    ASSUME TypeOK, NEW P, PhaseInv(P), NEW w \in Pollers, poll[w].pc = "evaluate",
           EndsQueuedPhase(Verdict(poll[w])),
           NEW spec \in Nat, WatchedRun(P, poll[w].job.hit.pr, spec)
    PROVE  Over(pr[poll[w].job.hit.pr], spec)
  <1> DEFINE p == poll[w].job.hit.pr
             d == poll[w].job.details
  <1>1. /\ Seen(pr[p]) /\ Seen(d) /\ p \in PRs
        /\ After(pr[p], d) /\ Reached(d, spec)
    BY JobParts DEF PhaseInv, PollerInv, JobFits
  <1>2. /\ d.commit.spec \in Nat /\ d.commit.stage \in Stages
        /\ pr[p].commit.spec \in Nat /\ pr[p].commit.stage \in Stages
    BY <1>1, CommitParts DEF Seen
  <1>3. CASE Over(d, spec)
    BY <1>1, <1>3, AfterKeeps
  <1>4. CASE ~Over(d, spec)
    <2>1. d.open /\ d.commit.spec = spec /\ d.commit.stage = "approved"
      BY <1>1, <1>2, <1>4 DEF Over, Reached, Stages
    <2>2. ~pr[p].commit.inDiff
      BY <2>1
      DEF EndsQueuedPhase, Verdict, Evaluate, specApprovedNotCompleted,
          ListPRFilesHasSpec, Keep
    <2>3. pr[p].commit.stage # "approved"
      BY <1>1, <2>2 DEF PhaseInv, ApprovedInDiff
    <2> QED
      BY <1>1, <1>2, <2>1, <2>3, StagesInOrder DEF After, Over
  <1> QED
    BY <1>3, <1>4

LEMMA SkipPhase ==
    ASSUME OnePoll, TypeOK, NEW P, PhaseInv(P), NEW w \in Pollers, SkipPR(w)
    PROVE  PhaseInv(P)'
  <1> DEFINE p == poll[w].job.hit.pr
             c == IF EndsQueuedPhase(Verdict(poll[w])) THEN DropMarker(poll[w].cursor, p)
                  ELSE poll[w].cursor
             s == [NotAdvanced(poll[w]) EXCEPT !.cursor = c]
  <1>1. /\ poll' = [poll EXCEPT ![w] = s] /\ poll[w].pc = "evaluate"
        /\ UNCHANGED <<githubVars, runs, file, cancelled, budget>>
    BY DEF SkipPR
  <1>2. poll[w] \in PollState /\ poll[w].cursor \in Cursor
    BY DEF TypeOK, PollState
  <1>3. s.pc = "scan" /\ s.cursor = c
    BY <1>2 DEF NotAdvanced, PollState
  <1>4. ASSUME NEW q \in PRs, NEW spec \in Nat, WatchedRun(P, q, spec), ~Over(pr[q], spec)
        PROVE  Holds(s, file, q)
    <2>1. q \in poll[w].cursor.queuedMarkers
      BY <1>1, <1>4 DEF PhaseInv, PollerInv, MarkersHeld, Holds
    <2>2. CASE EndsQueuedPhase(Verdict(poll[w]))
      <3>1. q # p
        BY <1>1, <1>4, <2>2, DroppedWhenOver
      <3>2. c.queuedMarkers = poll[w].cursor.queuedMarkers \ {p}
        BY <1>2, <2>2 DEF DropMarker, Cursor, queuedMarkerKey
      <3> QED
        BY <1>3, <2>1, <3>1, <3>2 DEF Holds
    <2>3. CASE ~EndsQueuedPhase(Verdict(poll[w]))
      BY <1>3, <2>1, <2>3 DEF Holds
    <2> QED
      BY <2>2, <2>3
  <1>5. PollerInv(P, s, file) /\ file' = file /\ NothingLost'
    BY <1>1, <1>3, <1>4 DEF PollerInv, MarkersHeld, PhaseInv, NothingLost
  <1> HIDE DEF s
  <1> QED
    BY <1>1, <1>5, PollerPhase

-----------------------------------------------------------------------------
(***************************************************************************)
(* The publish.                                                            *)
(***************************************************************************)

\* What may be published is approved, and has had no queued run.
LEMMA PublishedOnce ==
    ASSUME TypeOK, NEW P, PhaseInv(P), NEW w \in Pollers, MayPublish(poll[w])
    PROVE  LET p == poll[w].job.hit.pr
               d == poll[w].job.details
           IN  /\ d.commit.stage = "approved"
               /\ ~WatchedRun(P, p, d.commit.spec)
  <1> DEFINE p == poll[w].job.hit.pr
             d == poll[w].job.details
  <1>1. poll[w].pc = "evaluate" /\ p \notin poll[w].cursor.queuedMarkers
    BY DEF MayPublish, Marked, queuedMarkerKey
  <1>2. d.open /\ d.commit.stage = "approved"
    BY DEF MayPublish, Verdict, Evaluate, specApprovedNotCompleted, Keep
  <1>3. d.commit.spec \in Nat
    BY <1>1, JobParts, CommitParts DEF Seen
  <1>4. ~Over(d, d.commit.spec)
    BY <1>2, <1>3 DEF Over
  <1>5. JobFits(P, poll[w])
    BY <1>1 DEF PhaseInv, PollerInv
  <1>6. ~WatchedRun(P, p, d.commit.spec)
    BY <1>1, <1>3, <1>4, <1>5 DEF JobFits
  <1> QED
    BY <1>2, <1>6

\* The run that a command adds, if it adds one.
LEMMA SendAdds ==
    ASSUME NEW P, NEW j \in Job, SendCommand(j)
    PROVE  /\ \A r \in runs' \ runs :
                r.id.pr = j.hit.pr /\ r.spec = j.details.commit.spec
           /\ \A p, spec : WatchedRun(P, p, spec)' =>
                \/ WatchedRun(P, p, spec)
                \/ /\ p = j.hit.pr
                   /\ spec = j.details.commit.spec
                   /\ j.details.commit.queued
  <1> DEFINE r == [id |-> taskID(j.hit.pr, j.details), spec |-> j.details.commit.spec]
  <1>1. runs' \subseteq runs \cup {r}
    BY DEF SendCommand, CreateTask
  <1>2. r.id.pr = j.hit.pr /\ r.spec = j.details.commit.spec
    BY DEF taskID, DeriveTaskID
  <1>3. ASSUME NEW p, NEW spec, r = [id |-> QueuedID(p), spec |-> spec]
        PROVE  /\ p = j.hit.pr
               /\ spec = j.details.commit.spec
               /\ j.details.commit.queued
    <2>1. r.id = QueuedID(p) /\ r.spec = spec
      BY <1>3
    <2>2. r.id.key = 0 /\ r.id.pr = p
      BY <2>1 DEF QueuedID, QueuedKey
    <2>3. j.details.sha \in Nat \ {0}
      BY DEF Job, Details, Sha
    <2>4. j.details.commit.queued
      BY <2>2, <2>3 DEF taskID, DeriveTaskID
    <2> QED
      BY <1>2, <2>1, <2>2, <2>4
  <1>4. ASSUME NEW p, NEW spec, WatchedRun(P, p, spec)', ~WatchedRun(P, p, spec)
        PROVE  r = [id |-> QueuedID(p), spec |-> spec]
    BY <1>1, <1>4 DEF WatchedRun, QueuedRun
  <1> HIDE DEF r
  <1>5. \A q \in runs' \ runs :
            q.id.pr = j.hit.pr /\ q.spec = j.details.commit.spec
    BY <1>1, <1>2
  <1>6. \A p, spec : WatchedRun(P, p, spec)' =>
            \/ WatchedRun(P, p, spec)
            \/ /\ p = j.hit.pr
               /\ spec = j.details.commit.spec
               /\ j.details.commit.queued
    BY <1>3, <1>4
  <1> QED
    BY <1>5, <1>6

LEMMA PublishPhase ==
    ASSUME OnePoll, TypeOK, NEW P, PhaseInv(P), NEW w \in Pollers, Publish(w)
    PROVE  PhaseInv(P)'
  <1> DEFINE j == poll[w].job
             p == j.hit.pr
             d == j.details
             c == RecordPublish(poll[w].cursor, p, d)
             s == [Advanced(poll[w]) EXCEPT !.cursor = c]
  <1>1. /\ MayPublish(poll[w]) /\ SendCommand(j) /\ poll[w].pc = "evaluate"
        /\ poll' = [poll EXCEPT ![w] = s]
        /\ UNCHANGED <<pr, file, cancelled, budget>>
    BY DEF Publish, MayPublish, githubVars
  <1>2. /\ j \in Job /\ p \in PRs /\ Seen(d) /\ Seen(pr[p])
        /\ poll[w] \in PollState /\ poll[w].cursor \in Cursor
    BY <1>1, JobParts DEF TypeOK, PollState
  <1>3. s.pc = "scan" /\ s.cursor = c
    BY <1>2 DEF Advanced, PollState
  <1>4. /\ poll[w].cursor.queuedMarkers \subseteq c.queuedMarkers
        /\ d.commit.queued => p \in c.queuedMarkers
    BY <1>2 DEF RecordPublish, queuedMarkerKey, Cursor
  <1>5. \A q, spec : WatchedRun(P, q, spec)' =>
            \/ WatchedRun(P, q, spec)
            \/ q = p /\ spec = d.commit.spec /\ d.commit.queued
    <2>1. j \in Job /\ SendCommand(j)
      BY <1>1, <1>2
    <2> HIDE DEF j
    <2>2. \A q, spec : WatchedRun(P, q, spec)' =>
              \/ WatchedRun(P, q, spec)
              \/ /\ q = j.hit.pr
                 /\ spec = j.details.commit.spec
                 /\ j.details.commit.queued
      BY <2>1, SendAdds
    <2> QED
      BY <2>2
  <1>6. Reached(pr[p], d.commit.spec)
    <2>1. d.commit.stage = "approved" /\ d.commit.spec \in Nat
      BY <1>1, <1>2, PublishedOnce, CommitParts DEF Seen
    <2>2. Reached(d, d.commit.spec) /\ After(pr[p], d)
      BY <1>1, <2>1 DEF Reached, PhaseInv, PollerInv, JobFits
    <2>3. Seen(pr[p]) /\ Seen(d)
      BY <1>2
    <2>4. Reached(d, d.commit.spec) => Reached(pr[p], d.commit.spec)
      <3> DEFINE y == d
                 spec == d.commit.spec
                 x == pr[p]
      <3>1. Seen(x) /\ Seen(y) /\ After(x, y) /\ spec \in Nat
        BY <2>1, <2>2, <2>3
      <3> HIDE DEF x, y, spec
      <3>2. Reached(y, spec) => Reached(x, spec)
        BY <3>1, AfterKeeps
      <3> QED
        BY <3>2 DEF x, y, spec
    <2> QED
      BY <2>2, <2>4
  <1>7. NothingLost' /\ ApprovedInDiff'
    BY <1>1 DEF PhaseInv, NothingLost, ApprovedInDiff
  <1>8. RunsReached(P)'
    <2> SUFFICES ASSUME NEW q \in PRs, NEW spec \in Nat, WatchedRun(P, q, spec)'
                 PROVE  Reached(pr[q], spec)
      BY <1>1 DEF RunsReached, Reached
    <2>1. CASE WatchedRun(P, q, spec)
      BY <2>1 DEF PhaseInv, RunsReached
    <2>2. CASE q = p /\ spec = d.commit.spec
      BY <1>6, <2>2
    <2> QED
      BY <1>5, <2>1, <2>2
  <1>9. ASSUME NEW q \in PRs, NEW spec \in Nat, WatchedRun(P, q, spec)', ~Over(pr[q], spec)
        PROVE  q \in c.queuedMarkers
    <2>1. CASE WatchedRun(P, q, spec)
      <3>1. q \in poll[w].cursor.queuedMarkers
        BY <1>1, <1>9, <2>1 DEF PhaseInv, PollerInv, MarkersHeld, Holds
      <3> QED
        BY <1>4, <3>1
    <2>2. CASE q = p /\ d.commit.queued
      BY <1>4, <2>2
    <2> QED
      BY <1>5, <1>9, <2>1, <2>2
  <1>10. ASSUME NEW v \in Pollers PROVE PollerInv(P, poll[v], file)'
    <2>1. v = w /\ poll'[v] = s
      BY <1>1 DEF OnePoll, TypeOK
    <2>2. poll'[v].pc = "scan" /\ poll'[v].cursor = c
      BY <1>3, <2>1
    <2> HIDE DEF s, c
    <2>3. MarkersHeld(P, poll[v], file)'
      BY <1>1, <1>9, <2>2 DEF MarkersHeld, Holds, Over
    <2> QED
      BY <2>2, <2>3 DEF PollerInv
  <1> QED
    BY <1>7, <1>8, <1>10 DEF PhaseInv

-----------------------------------------------------------------------------
(***************************************************************************)
(* Every step, and the theorems.                                           *)
(***************************************************************************)
LEMMA StepPhase ==
    ASSUME OnePoll, TypeOK, NEW P, PhaseInv(P), [Next]_vars
    PROVE  PhaseInv(P)'
  <1>1. /\ \A w \in Pollers : poll[w] \in PollState /\ poll[w].cursor \in Cursor
        /\ \A w \in Pollers : PollerInv(P, poll[w], file)
        /\ NothingLost
    BY DEF TypeOK, PollState, PhaseInv
  <1>2. ASSUME NEW w \in Pollers, BeginPoll(w) PROVE PhaseInv(P)'
    <2> DEFINE s == [IdlePoll EXCEPT !.pc = "search",
                                     !.cursor = LoadCursor(file, startTime)]
    <2>1. /\ poll' = [poll EXCEPT ![w] = s] /\ poll[w].pc = "idle"
          /\ UNCHANGED <<githubVars, runs, file, cancelled, budget>>
      BY <1>2 DEF BeginPoll
    <2>2. s.pc = "search" /\ s.cursor.queuedMarkers = MarkersOf(file)
      BY LoadedMarkers DEF IdlePoll
    <2> HIDE DEF s
    <2>3. PollerInv(P, s, file') /\ NothingLost'
      BY <1>1, <2>1, <2>2 DEF PollerInv, MarkersHeld, Holds, NothingLost
    <2> QED
      BY <2>1, <2>3, PollerPhase
  <1>3. ASSUME NEW w \in Pollers, Search(w) PROVE PhaseInv(P)'
    <2> DEFINE since == poll[w].cursor.lastUpdatedAt
               s == [poll[w] EXCEPT !.pc = "scan", !.batch = SearchPRs(since),
                                    !.maxUpdatedAt = since]
    <2>1. /\ poll' = [poll EXCEPT ![w] = s] /\ poll[w].pc = "search"
          /\ UNCHANGED <<githubVars, runs, file, cancelled, budget>>
      BY <1>3 DEF Search
    <2>2. s.pc = "scan" /\ s.cursor = poll[w].cursor
      BY <1>1 DEF PollState
    <2> HIDE DEF s
    <2>3. PollerInv(P, s, file') /\ NothingLost'
      BY <1>1, <2>1, <2>2, MovesOn DEF NothingLost
    <2> QED
      BY <2>1, <2>3, PollerPhase
  <1>4. ASSUME NEW w \in Pollers, SearchMisses(w) PROVE PhaseInv(P)'
    <2> DEFINE since == poll[w].cursor.lastUpdatedAt
    <2>1. PICK hits \in SUBSET SearchPRs(since) :
            poll' = [poll EXCEPT ![w] =
                       [poll[w] EXCEPT !.pc = "scan", !.batch = hits,
                                       !.maxUpdatedAt = since]]
      BY <1>4 DEF SearchMisses
    <2> DEFINE s == [poll[w] EXCEPT !.pc = "scan", !.batch = hits,
                                    !.maxUpdatedAt = since]
    <2>2. /\ poll' = [poll EXCEPT ![w] = s] /\ poll[w].pc = "search"
          /\ UNCHANGED <<githubVars, runs, file, cancelled>> /\ Fault("index")
      BY <1>4, <2>1 DEF SearchMisses
    <2>3. s.pc = "scan" /\ s.cursor = poll[w].cursor
      BY <1>1 DEF PollState
    <2> HIDE DEF s
    <2>4. NothingLost'
      BY <1>1, <2>2, HarmlessFault DEF NothingLost, FaultKinds
    <2>5. PollerInv(P, s, file')
      BY <2>2, <2>3, MovesOn
    <2> QED
      BY <2>2, <2>4, <2>5, PollerPhase
  <1>5. ASSUME NEW w \in Pollers, AbortSearch(w) PROVE PhaseInv(P)'
    <2>1. /\ poll' = [poll EXCEPT ![w] = IdlePoll] /\ poll[w].pc = "search"
          /\ UNCHANGED <<githubVars, runs, file, cancelled>>
          /\ Fault("search")
      BY <1>1, <1>5 DEF AbortSearch, NothingLost
    <2>2. NothingLost'
      BY <1>1, <2>1, HarmlessFault DEF NothingLost, FaultKinds
    <2>3. PollerInv(P, IdlePoll, file')
      BY <1>1, <2>1 DEF PollerInv, MarkersHeld, Holds, IdlePoll
    <2> QED
      BY <2>1, <2>2, <2>3, PollerPhase
  <1>6. ASSUME NEW w \in Pollers, SkipOutOfScope(w) \/ DetailsFail(w) PROVE PhaseInv(P)'
    <2>1. PICK h \in poll[w].batch :
            /\ poll' = [poll EXCEPT ![w] =
                          [poll[w] EXCEPT !.batch = poll[w].batch \ {h}]]
            /\ poll[w].pc = "scan"
            /\ UNCHANGED <<githubVars, runs, file, cancelled>>
            /\ UNCHANGED budget \/ Fault("read")
      BY <1>6 DEF SkipOutOfScope, DetailsFail
    <2> DEFINE s == [poll[w] EXCEPT !.batch = poll[w].batch \ {h}]
    <2>2. s.pc = "scan" /\ s.cursor = poll[w].cursor
      BY <1>1, <2>1 DEF PollState
    <2>3. poll' = [poll EXCEPT ![w] = s]
      BY <2>1
    <2> HIDE DEF s
    <2>4. NothingLost'
      BY <1>1, <2>1, HarmlessFault DEF NothingLost, FaultKinds
    <2>5. PollerInv(P, s, file')
      BY <2>1, <2>2, MovesOn
    <2> QED
      BY <2>1, <2>3, <2>4, <2>5, PollerPhase
  <1>7. ASSUME NEW w \in Pollers, ReadDetails(w) PROVE PhaseInv(P)'
    <2>1. PICK h \in poll[w].batch :
            /\ poll' = [poll EXCEPT ![w] =
                          [poll[w] EXCEPT !.pc = "evaluate",
                                          !.batch = poll[w].batch \ {h},
                                          !.job = [hit |-> h,
                                                   details |-> GetPRDetails(h.pr)]]]
            /\ poll[w].pc = "scan"
            /\ UNCHANGED <<githubVars, runs, file, cancelled, budget>>
      BY <1>7 DEF ReadDetails
    <2> DEFINE j == [hit |-> h, details |-> GetPRDetails(h.pr)]
               s == [poll[w] EXCEPT !.pc = "evaluate",
                                    !.batch = poll[w].batch \ {h}, !.job = j]
    <2>2. poll' = [poll EXCEPT ![w] = s] /\ h \in SearchHit
      BY <1>1, <2>1 DEF PollState
    <2>3. s.pc = "evaluate" /\ s.job = j /\ s.cursor = poll[w].cursor
      BY <1>1 DEF PollState
    <2> HIDE DEF s
    <2>4. JobFits(P, s)
      BY <2>1, <2>2, <2>3, ReadFits
    <2>5. MarkersHeld(P, s, file)
      BY <1>1, <2>1, <2>3 DEF PollerInv, MarkersHeld, Holds
    <2>6. PollerInv(P, s, file') /\ NothingLost'
      BY <1>1, <2>1, <2>4, <2>5 DEF PollerInv, NothingLost
    <2> QED
      BY <2>1, <2>2, <2>6, PollerPhase
  <1>8. ASSUME NEW w \in Pollers, EvaluateFails(w) \/ PublishFails(w) PROVE PhaseInv(P)'
    <2>1. /\ poll' = [poll EXCEPT ![w] = NotAdvanced(poll[w])]
          /\ poll[w].pc = "evaluate"
          /\ UNCHANGED <<githubVars, file, cancelled>>
      BY <1>8 DEF EvaluateFails, PublishFails, MayPublish
    <2>2. \/ UNCHANGED runs /\ (Fault("read") \/ Fault("send"))
          \/ Fault("ack")
      BY <1>1, <1>8 DEF EvaluateFails, PublishFails, NothingLost
    <2>3. ~Fault("ack")
      BY <1>1 DEF NothingLost, LosesMarkers, Fault
    <2>4. NothingLost'
      BY <1>1, <2>1, <2>2, <2>3, HarmlessFault DEF NothingLost, FaultKinds
    <2>5. NotAdvanced(poll[w]).pc = "scan" /\ NotAdvanced(poll[w]).cursor = poll[w].cursor
      BY <1>1 DEF NotAdvanced, PollState
    <2>6. PollerInv(P, NotAdvanced(poll[w]), file')
      BY <2>1, <2>5, MovesOn
    <2> QED
      BY <2>1, <2>2, <2>3, <2>4, <2>6, PollerPhase
  <1>9. ASSUME NEW w \in Pollers, SkipPR(w) PROVE PhaseInv(P)'
    BY <1>9, SkipPhase
  <1>10. ASSUME NEW w \in Pollers, Suppress(w) PROVE PhaseInv(P)'
    <2>1. /\ poll' = [poll EXCEPT ![w] = Advanced(poll[w])]
          /\ poll[w].pc = "evaluate"
          /\ UNCHANGED <<githubVars, runs, file, cancelled, budget>>
      BY <1>10 DEF Suppress
    <2>2. Advanced(poll[w]).pc = "scan" /\ Advanced(poll[w]).cursor = poll[w].cursor
      BY <1>1 DEF Advanced, PollState
    <2>3. PollerInv(P, Advanced(poll[w]), file') /\ NothingLost'
      BY <1>1, <2>1, <2>2, MovesOn DEF NothingLost
    <2> QED
      BY <2>1, <2>3, PollerPhase
  <1>11. ASSUME NEW w \in Pollers, Publish(w) PROVE PhaseInv(P)'
    BY <1>11, PublishPhase
  <1>12. ASSUME NEW w \in Pollers, Save(w) PROVE PhaseInv(P)'
    <2>1. /\ poll' = [poll EXCEPT ![w] = IdlePoll] /\ poll[w].pc = "scan"
          /\ file' = FinalCursor(poll[w])
          /\ UNCHANGED <<githubVars, runs, cancelled, budget>>
      BY <1>12 DEF Save, AtSave
    <2>2. file' \in Cursor /\ file'.queuedMarkers = poll[w].cursor.queuedMarkers
      BY <1>1, <2>1, FinalCursorType DEF FinalCursor
    <2>3. MarkersOf(file') = poll[w].cursor.queuedMarkers
      BY <2>2, NoFileAssumption DEF MarkersOf, Unreadable
    <2>4. PollerInv(P, IdlePoll, file') /\ NothingLost'
      BY <1>1, <2>1, <2>3 DEF PollerInv, MarkersHeld, Holds, IdlePoll, NothingLost
    <2> QED
      BY <2>1, <2>4, PollerPhase
  <1>13. ASSUME NEW w \in Pollers PROVE ~SaveFails(w)
    <2>1. ~SaveIsLost(w)
      BY <1>1 DEF SaveIsLost, NothingLost, LosesMarkers, Fault
    <2>2. ~SaveTears(w)
      BY DEF OnePoll, SaveTears
    <2> QED
      BY <2>1, <2>2 DEF SaveFails
  <1>14. ~Cancel /\ ~Exit /\ ~Crash
    BY <1>1 DEF Cancel, Exit, Crash, NothingLost, LosesMarkers, Fault
  <1>15. CASE Restart
    <2>1. PICK w \in Pollers : Pollers = {w}
      BY DEF OnePoll
    <2>2. /\ poll' = [poll EXCEPT ![w] = IdlePoll] /\ poll[w].pc = "idle"
          /\ UNCHANGED <<githubVars, runs, file>> /\ ~cancelled' /\ Fault("restart")
      BY <1>15, <2>1 DEF Restart, StartProcess, TypeOK
    <2>3. NothingLost'
      BY <1>1, <2>2, HarmlessFault DEF NothingLost, FaultKinds
    <2>4. PollerInv(P, IdlePoll, file')
      BY <1>1, <2>2 DEF PollerInv, MarkersHeld, Holds, IdlePoll
    <2> QED
      BY <2>2, <2>3, <2>4, PollerPhase
  <1>16. CASE World
    BY <1>16, WorldPhase
  <1>17. CASE UNCHANGED vars
    <2>1. /\ pr' = pr /\ runs' = runs /\ file' = file /\ poll' = poll
          /\ cancelled' = cancelled /\ budget' = budget
      BY <1>17 DEF vars, watcherVars, githubVars
    <2>2. NothingLost' /\ ApprovedInDiff'
      BY <2>1 DEF PhaseInv, NothingLost, ApprovedInDiff
    <2>3. RunsReached(P)'
      BY <2>1 DEF PhaseInv, RunsReached, WatchedRun, QueuedRun, Reached
    <2>4. ASSUME NEW w \in Pollers PROVE PollerInv(P, poll[w], file)'
      <3>1. PollerInv(P, poll[w], file)
        BY DEF PhaseInv
      <3>2. MarkersHeld(P, poll[w], file)'
        BY <2>1, <3>1
        DEF PollerInv, MarkersHeld, Holds, MarkersOf, WatchedRun, QueuedRun, Over, Reached
      <3>3. poll[w].pc = "evaluate" => JobFits(P, poll[w])'
        BY <2>1, <3>1 DEF PollerInv, JobFits, Holds, WatchedRun, QueuedRun, Over, Reached, After
      <3> QED
        BY <2>1, <3>2, <3>3 DEF PollerInv
    <2> QED
      BY <2>2, <2>3, <2>4 DEF PhaseInv
  <1> QED
    BY <1>2, <1>3, <1>4, <1>5, <1>6, <1>7, <1>8, <1>9, <1>10, <1>11, <1>12, <1>13,
       <1>14, <1>15, <1>16, <1>17
    DEF Next, PollStep, FaultStep

\* What is new is no second run of a spec in its queued phase.
RunsOnce(P) ==
    \A r \in runs' \ runs : r.id.pr \in PRs /\ ~WatchedRun(P, r.id.pr, r.spec)

\* Only a publish creates a run.
LEMMA StepRunsOnce ==
    ASSUME OnePoll, TypeOK, NEW P, PhaseInv(P), [Next]_vars
    PROVE  RunsOnce(P)
  <1>1. ASSUME NEW w \in Pollers, MayPublish(poll[w]), SendCommand(poll[w].job)
        PROVE  RunsOnce(P)
    <2>1. poll[w].job \in Job /\ poll[w].job.hit.pr \in PRs
      BY <1>1, JobParts DEF MayPublish, TypeOK
    <2> QED
      BY <1>1, <2>1, SendAdds, PublishedOnce DEF RunsOnce
  <1>2. ASSUME NEW w \in Pollers, PollStep(w) \/ FaultStep(w)
        PROVE  \/ runs' = runs
               \/ MayPublish(poll[w]) /\ SendCommand(poll[w].job)
    BY <1>2
    DEF PollStep, FaultStep, BeginPoll, Search, SearchMisses, AbortSearch,
        SkipOutOfScope, ReadDetails, DetailsFail, EvaluateFails, SkipPR, Suppress,
        Publish, PublishFails, Save, SaveFails
  <1>3. CASE World \/ Cancel \/ Exit \/ Crash \/ Restart \/ UNCHANGED vars
    <2>1. runs' = runs
      BY <1>3 DEF World, Cancel, Exit, Crash, Restart, StartProcess, vars
    <2> QED
      BY <2>1 DEF RunsOnce
  <1> QED
    BY <1>1, <1>2, <1>3 DEF Next, RunsOnce

\* With one poller, and as long as no fault loses a marker, a spec whose queued
\* phase was handed to an agent gets no second run (cursor.go:23-29).
THEOREM QueuedPhaseHasOneRun ==
    ASSUME OnePoll PROVE Spec => QueuedPhaseRunsOnce
  <1>1. Init => TypeOK /\ PhaseInv(PRs)
    BY OnePoll, InitType, InitPhase
  <1>2. TypeOK /\ PhaseInv(PRs) /\ [Next]_vars => TypeOK' /\ PhaseInv(PRs)'
    BY OnePoll, NextType, StepPhase
  <1>3. TypeOK /\ PhaseInv(PRs) /\ [Next]_vars
            => [\A r \in runs' \ runs : ~QueuedRun(r.id.pr, r.spec)]_vars
    BY OnePoll, StepRunsOnce DEF RunsOnce, WatchedRun
  <1> QED
    BY <1>1, <1>2, <1>3, PTL DEF Spec, QueuedPhaseRunsOnce

\* Under the same conditions the file holds, between polls, the marker of every
\* queued phase that was handed over and whose spec is still to be completed,
\* whatever the batches since then contained (cursor.go:23-29).
THEOREM MarkersArePersisted ==
    ASSUME OnePoll PROVE Spec => []MarkerPersisted
  <1>1. Init => TypeOK /\ PhaseInv(PRs)
    BY OnePoll, InitType, InitPhase
  <1>2. TypeOK /\ PhaseInv(PRs) /\ [Next]_vars => TypeOK' /\ PhaseInv(PRs)'
    BY OnePoll, NextType, StepPhase
  <1>3. TypeOK /\ PhaseInv(PRs) => MarkerPersisted
    <2> SUFFICES ASSUME TypeOK, PhaseInv(PRs), NEW p \in PRs,
                        \A w \in Pollers : poll[w].pc = "idle",
                        IsCandidate(p), QueuedRun(p, pr[p].commit.spec)
                 PROVE  p \in LoadCursor(file, startTime).queuedMarkers
      BY DEF MarkerPersisted, queuedMarkerKey
    <2>1. pr[p].open /\ pr[p].commit.stage = "approved"
      BY DEF IsCandidate, Evaluate, GetPRDetails, specApprovedNotCompleted, Keep
    <2>2. pr[p].commit.spec \in Nat
      BY CommitParts DEF TypeOK, GitHubTypeOK, PullRequest
    <2>3. ~Over(pr[p], pr[p].commit.spec)
      BY <2>1, <2>2 DEF Over
    <2>4. PICK w \in Pollers : Pollers = {w}
      BY OnePoll DEF OnePoll
    <2>5. p \in MarkersOf(file)
      BY <2>2, <2>3 DEF PhaseInv, PollerInv, MarkersHeld, Holds, WatchedRun
    <2> QED
      BY <2>5, LoadedMarkers
  <1> QED
    BY <1>1, <1>2, <1>3, PTL DEF Spec
=============================================================================
