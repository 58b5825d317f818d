SPECIFICATION FairSpec
CONSTANTS
    p1 = p1
    p2 = p2
    NoFile = NoFile
    TornFile = TornFile
    NoJob = NoJob
    PRs = {p1, p2}
    Allowed = {p1}
    Pollers = {"loop"}
    Commits <- OpenSpec
    FaultBudget <- LiveFaults
    Backfill = 2
    MaxSha = 2
    MaxClock = 1
    Activity <- InScope
CHECK_DEADLOCK FALSE
PROPERTIES EveryCandidateRuns WatermarkNeverBack
