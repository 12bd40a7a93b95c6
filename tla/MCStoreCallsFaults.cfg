CONSTANTS
    r1 = r1
    r2 = r2
    Ids = {r1, r2}
    Users = {"ann", "rob", "ada"}
    Targets = {"vpn", "fail-box"}
    FailingTargets = {"fail-box"}
    Nil = Nil
    DefaultReviewer = "rob"
    ReminderAfter = 1
    RetryBase = 1
    MaxAttempts = 2
    Fresh = {c1,c2}
    Calls <- AllCalls
    Traffic <- ReportTraffic
    Workers = {w1}
    BatchSize = 2
    MaxTime = 1
    MaxFaults = 1
SPECIFICATION RecordedWarmSpec
SYMMETRY FreshSymmetry
INVARIANTS
    NoLostUpdate
    ExecutionsAreCounted
    AuditIsTruthful
    ScheduleMatchesStatus
    StoreCallsExpected
    RefusalsChangeNothing
PROPERTIES
    HistoryIsKept
