CONSTANTS
    Ids = {r1}
    Users = {"ann", "rob", "ada"}
    Targets = {"vpn", "fail-box"}
    FailingTargets = {"fail-box"}
    Nil = Nil
    DefaultReviewer = "rob"
    ReminderAfter = 1
    RetryBase = 1
    MaxAttempts = 2
    Calls = {c1,c2,c3}
    Traffic <- LifeTraffic
    Workers = {w1}
    BatchSize = 1
    MaxTime = 3
    MaxFaults = 0
SPECIFICATION Spec
SYMMETRY CallSymmetry
INVARIANTS
    ScheduleMatchesStatus
    JobRunsAgree
PROPERTIES
    RefinesLifecycle
