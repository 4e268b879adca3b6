SPECIFICATION Spec
CONSTANTS
    w1 = w1
    w2 = w2
    phone = phone
    Hwids <- MCHwids
    None = None
    Workers <- MCWorkers
    MaxAttempts = 2
    MaxCommands = 2
    MaxExpiry = 2
    MaxFaults = 1
INVARIANTS
    SettledMeansDesired
CHECK_DEADLOCK FALSE
