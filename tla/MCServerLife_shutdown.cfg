\* Three clients, two statements, and every call may fail.
SPECIFICATION LifeFairSpec
CHECK_DEADLOCK FALSE
CONSTANTS
    c1 = c1
    c2 = c2
    c3 = c3
    Clients = {c1, c2, c3}
    NumOps = 2
    Faults = TRUE
INVARIANTS
    LifeTypeOK
    NoRequestLost
    NothingLeftOpen
PROPERTY
    SignalExits
