SPECIFICATION FairSpec
CONSTANTS
    p1 = p1
    p2 = p2
    NoFile = NoFile
    TornFile = TornFile
    NoJob = NoJob
    PRs = {p1, p2}
    Allowed = {p1, p2}
    Pollers = {"loop"}
    Commits <- OneSpec
    FaultBudget <- ReadFault
    Backfill = 2
    MaxSha = 1
    MaxClock = 1
    Activity <- Touched
CHECK_DEADLOCK FALSE
PROPERTY EveryCandidateRuns
