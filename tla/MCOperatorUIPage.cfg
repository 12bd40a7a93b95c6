CONSTANTS
    r1 = r1
    r2 = r2
    Ids = {r1, r2}
    Users = {"ann", "rob", "ada"}
    Targets = {"vpn"}
    FailingTargets = {}
    Nil = Nil
    DefaultReviewer = "rob"
    ReminderAfter = 0
    RetryBase = 1
    MaxAttempts = 2
    Personas <- MCPersonas
    StatusFilters = {"", "pending_review"}
    MaxEvents = 2
    MaxElsewhere = 2
SPECIFICATION OpenedSpec
CHECK_DEADLOCK FALSE
INVARIANTS
    PageTypeOK
    ListedCanBeOpened
    SettledPage
    AckedIsShown
    OfferedIsAllowed
