------------------------------- MODULE Losses -------------------------------
(***************************************************************************)
(* What a failed hit costs.  The next search starts at the watermark, and  *)
(* whatever became of a hit, a newer one of the same batch may move the    *)
(* watermark past it.  lost records the pull requests that may have gone   *)
(* that way: their last hit came to nothing, or a poll started cold behind *)
(* them, and they have not changed since.  It is history, and restricts no *)
(* step of Watcher.                                                        *)
(***************************************************************************)
EXTENDS Watcher

VARIABLE lost

PRsOf(hits) == {h.pr : h \in hits}

\* A hit of p comes to nothing in this step: the search misses it, reading or
\* publishing it fails, or the poll is cancelled before its turn.
Loses(w, p) ==
    \/ SearchMisses(w) /\ p \in PRsOf(SearchPRs(poll[w].cursor.lastUpdatedAt)
                                        \ poll'[w].batch)
    \/ DetailsFail(w) /\ p \in PRsOf(poll[w].batch \ poll'[w].batch)
    \/ (EvaluateFails(w) \/ PublishFails(w)) /\ p = poll[w].job.hit.pr
    \/ Save(w) /\ p \in PRsOf(poll[w].batch)

\* A poll finds no cursor, or one that does not parse, and the process was
\* started too late for its search to go back to p.
StartsBehind(w, p) ==
    /\ BeginPoll(w)
    /\ Unreadable(file)
    /\ ~InWindow(pr[p].updated, startTime)

Lost(p) == p \in lost \/ \E w \in Pollers : StartsBehind(w, p) \/ Loses(w, p)

LossInit == Init /\ lost = {}

LossNext ==
    /\ Next
    /\ lost' = {p \in PRs : Lost(p) /\ pr'[p] = pr[p]}

lossVars == <<vars, lost>>

LossSpec == LossInit /\ [][LossNext]_lossVars

-----------------------------------------------------------------------------
\* A hit that fails costs no pull request but its own, and that one only until
\* it changes: a candidate that is not lost, and is too old for the next
\* search, has its run, whatever failed for others, however often the pollers
\* were cancelled, crashed or overtook one another (watcher.go:142-172;
\* cursor.go, LoadCursor; main.go:187-197).
WatermarkHidesOnlyLosses ==
    \A p \in Allowed \ lost :
        /\ file \in Cursor
        /\ IsCandidate(p)
        /\ ~InWindow(pr[p].updated, file.lastUpdatedAt)
        => Handled(p)
=============================================================================
