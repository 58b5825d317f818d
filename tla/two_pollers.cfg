SPECIFICATION LossSpec
CONSTANTS
    p1 = p1
    p2 = p2
    NoFile = NoFile
    TornFile = TornFile
    NoJob = NoJob
    PRs = {p1, p2}
    Allowed = {p1, p2}
    Pollers = {loop, check}
    Commits <- OpenSpec
    FaultBudget <- RaceFaults
    Backfill = 0
    MaxSha = 2
    MaxClock = 1
    Activity <- OnePushed
CHECK_DEADLOCK FALSE
SYMMETRY PollerSymmetry
INVARIANTS TypeOK SuppressionSound WatermarkHidesOnlyLosses
