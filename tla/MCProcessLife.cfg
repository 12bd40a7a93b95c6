\* One process and its restarts, in every environment.
CONSTANTS
    Names <- MCNames
    Unset = Unset
    Blank = Blank
    Junk = Junk
    NaN = NaN
    Environments <- MCEnvironments
    Files = 2
    MaxDue = 3
    MaxCalls = 2

SPECIFICATION FairSpec

INVARIANTS
    ProcessTypeOK
    ServesMigrated
    ServesSoundly
    UnrecordedAtMostBatch

PROPERTIES
    CallsCutOffForCause
    SignalledProcessEnds

CHECK_DEADLOCK FALSE
