\* One helper at a time.
SPECIFICATION Spec
CONSTANTS
    p1 = p1
    p2 = p2
    h1 = h1
    Procs <- MCProcs
    NoOne = NoOne
    Windows = TRUE
    Helpers <- MCHelpers
    MaxVersion = 3
    Bad <- MCBad
    KeepCount = 2
INVARIANTS TypeOK OneInLock Recoverable
PROPERTIES RefusedForAReason
CHECK_DEADLOCK FALSE
