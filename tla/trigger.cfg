SPECIFICATION FairSpec
CONSTANTS
    p1 = p1
    NoJob = NoJob
    PRs = {p1}
    Commits <- OneSpec
    Requests <- AllRequests
    MaxRequests = 3
    TriggerFaults <- OneFaultEach
    MaxSha = 2
    MaxClock = 0
    Activity <- Pushed
CHECK_DEADLOCK FALSE
INVARIANTS TypeOK ForcedCommandsRun
PROPERTIES EveryRequestServed NoCommandPassedOver
