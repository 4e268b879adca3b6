SPECIFICATION Spec
CONSTANTS
    w1 = w1
    w2 = w2
    phone = phone
    Hwids <- MCHwids
    None = None
    Workers <- MCWorkers
    MaxAttempts = 2
    MaxCommands = 2
    MaxExpiry = 1
    MaxFaults = 1
INVARIANTS
    TypeOK
    NoOrphanUser
PROPERTIES
    SettledIsFinal
    GivesUpLast
    EveryCommandSettles
CHECK_DEADLOCK FALSE
