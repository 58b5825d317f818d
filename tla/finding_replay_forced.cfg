SPECIFICATION Spec
CONSTANTS
    p1 = p1
    NoJob = NoJob
    PRs = {p1}
    Commits <- OneSpec
    Requests <- Forced
    MaxRequests = 1
    TriggerFaults <- OneRestart
    MaxSha = 2
    MaxClock = 1
    Activity <- PushedAndDrafted
CHECK_DEADLOCK FALSE
PROPERTY ReplayIdempotent
