SPECIFICATION FairSpec
CONSTANTS
    p1 = p1
    p2 = p2
    NoFile = NoFile
    TornFile = TornFile
    NoJob = NoJob
    PRs = {p1}
    Allowed = {p1}
    Pollers = {"loop"}
    Commits <- TwoSpecs
    FaultBudget <- NoFaults
    Backfill = 2
    MaxSha = 3
    MaxClock = 1
    Activity <- Pushed
CHECK_DEADLOCK FALSE
PROPERTY EveryCandidateRuns
