CONSTANTS
    r1 = r1
    r2 = r2
    Ids = {r1, r2}
    Users = {"ann", "rob", "ada"}
    Targets = {"vpn", "fail-box"}
    FailingTargets = {"fail-box"}
    Nil = Nil
    DefaultReviewer = "rob"
    ReminderAfter = 1
    RetryBase = 1
    MaxAttempts = 2
    Fresh = {}
    Calls <- AllCalls
    Traffic <- ApproveTraffic
    Workers = {w1,w2}
    BatchSize = 2
    MaxTime = 3
    MaxFaults = 1
SPECIFICATION WarmSpec
SYMMETRY WorkerSymmetry
INVARIANTS
    AuditComplete
    ExecutionsAreCounted
    ExecutionsAreBounded
PROPERTIES
    RemindersAreSpaced
