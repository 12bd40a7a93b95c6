CONSTANTS
    Ids = {r1}
    Users = {"ann", "rob", "ada"}
    Targets = {"vpn"}
    FailingTargets = {}
    Nil = Nil
    DefaultReviewer = "rob"
    ReminderAfter = 1
    RetryBase = 1
    MaxAttempts = 2
    Calls = {c1,c2,c3,c4}
    Traffic <- OddTraffic
    Workers = {}
    BatchSize = 1
    MaxTime = 0
    MaxFaults = 1
SPECIFICATION Spec
SYMMETRY CallSymmetry
CHECK_DEADLOCK FALSE
INVARIANTS
    TypeOK
    NoLostUpdate
    OneDecision
    DecidedByReviewer
    KeyHeldOnce
    AuditComplete
    AuditIsTruthful
PROPERTIES
    RefinesLifecycle
    HistoryIsKept
