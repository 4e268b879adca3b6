SPECIFICATION Spec
CONSTANTS
    c1 = c1
    c2 = c2
    alice = alice
    bob = bob
    a1 = a1
    a2 = a2
    b1 = b1
    x = x
    y = y
    None = None
    Clients <- MCClients
    Users <- MCUsers
    Intents <- MCIntents
    UserOf <- MCUserOf
    Contents <- MCContents
    Uploads <- MCUploads
    Limits <- MCLimits
    PerUserLimit = 1
SYMMETRY MCSymmetry
INVARIANTS
    TypeOK
    PromoLimitsHold
    EvidenceKept
CHECK_DEADLOCK FALSE
