SPECIFICATION Spec
CONSTANTS
    u1 = u1
    q1 = q1
    q2 = q2
    k1 = k1
    k2 = k2
    w1 = w1
    w2 = w2
    basic = basic
    pro = pro
    t1 = t1
    None = None
    User = u1
    Requests <- MCRequests
    KeysOf <- MCKeysOf
    Workers <- MCWorkers
    Prices <- MCPrices
    Amount <- MCAmount
    Days <- MCDays
    Version <- MCVersion
    TopUps <- MCTopUps
    Value <- MCValue
    Retry = 1
    MaxTime = 2
    MaxCrashes = 1
PROPERTIES
    NoRenewalWhileDisabled
CHECK_DEADLOCK FALSE
