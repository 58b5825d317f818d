SPECIFICATION SystemSpec
CONSTANTS
    p1 = p1
    p2 = p2
    NoFile = NoFile
    TornFile = TornFile
    NoJob = NoJob
    PRs = {p1}
    Allowed = {p1}
    Pollers = {"loop"}
    Commits <- OneSpec
    FaultBudget <- PollFaults
    Backfill = 1
    Requests <- BothKinds
    MaxRequests = 2
    TriggerFaults <- AckFault
    MaxSha = 3
    MaxClock = 1
    Activity <- Pushed
CHECK_DEADLOCK FALSE
INVARIANTS SuppressionSound ForcedRunsBounded
PROPERTY NoRunUnasked
