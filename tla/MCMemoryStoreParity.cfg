\* The in-memory store and the contract of the Postgres store.
CONSTANTS
    Ids = {r1, r2}
    Users <- MCUsers
    Targets <- MCTargets
    FailingTargets <- MCTargets
    Nil = Nil
    DefaultReviewer = "bob"
    ReminderAfter = 1
    RetryBase = 1
    MaxAttempts = 2
    Keys = {k1}
    MaxVersion = 3
    MaxEntries = 2
    MaxTime = 1

SPECIFICATION Spec

SYMMETRY Requests

INVARIANTS
    ListingsAgree
    ExecutionsListedAlike
    RemindersListedAlike

PROPERTY MemoryImplementsPostgres

CHECK_DEADLOCK FALSE
