SPECIFICATION Spec
CONSTANTS
    u1 = u1
    k1 = k1
    u2 = u2
    r1 = r1
    r2 = r2
    None = None
    Users <- MCUsers
    Keys <- MCKeys
    Requests <- MCRequests
    Amounts <- MCAmounts
INVARIANTS
    TypeOK
    StatusMatchesLedger
    CreditIsBacked
    OneCheckoutPerKey
    BalanceIsConfirmedTopUps
PROPERTIES
    SettledOnlyChargesBack
    KeepsPromise
CHECK_DEADLOCK FALSE
