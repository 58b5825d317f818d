SPECIFICATION LossSpec
CONSTANTS
    p1 = p1
    p2 = p2
    NoFile = NoFile
    TornFile = TornFile
    NoJob = NoJob
    PRs = {p1, p2}
    Allowed = {p1, p2}
    Pollers = {"loop"}
    Commits <- PausedSpec
    FaultBudget <- SafeFaults
    Backfill = 1
    MaxSha = 2
    MaxClock = 1
    Activity <- PushedAndTouched
CHECK_DEADLOCK FALSE
SYMMETRY Symmetry
INVARIANTS MarkerPersisted WatermarkCoversCandidates WatermarkHidesOnlyLosses
PROPERTY QueuedPhaseRunsOnce
