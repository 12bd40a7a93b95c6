CONSTANTS
    r1 = r1
    r2 = r2
    Ids = {r1, r2}
    Users = {"ann", "rob", "ada"}
    Targets = {"vpn", "fail-box"}
    FailingTargets = {"fail-box"}
    Nil = Nil
    DefaultReviewer = "rob"
    ReminderAfter = 1
    RetryBase = 1
    MaxAttempts = 2
    Fresh = {c1,c2}
    Calls <- AllCalls
    Traffic <- ApproveTraffic
    Workers = {}
    BatchSize = 1
    MaxTime = 0
    MaxFaults = 1
SPECIFICATION WarmSpec
SYMMETRY FreshSymmetry
CHECK_DEADLOCK FALSE
INVARIANT AcknowledgedIsAudited
