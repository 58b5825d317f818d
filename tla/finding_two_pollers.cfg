SPECIFICATION Spec
CONSTANTS
    p1 = p1
    p2 = p2
    NoFile = NoFile
    TornFile = TornFile
    NoJob = NoJob
    PRs = {p1}
    Allowed = {p1}
    Pollers = {"loop", "check"}
    Commits <- OpenSpec
    FaultBudget <- NoFaults
    Backfill = 2
    MaxSha = 1
    MaxClock = 1
    Activity <- Drafted
CHECK_DEADLOCK FALSE
INVARIANT MarkerPersisted
