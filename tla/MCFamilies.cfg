SPECIFICATION Spec
CONSTANTS
    c1 = c1
    c2 = c2
    u1 = u1
    u2 = u2
    u3 = u3
    None = None
    Clients <- MCClients
    Users <- MCUsers
    MemberLimit = 2
    MaxInvitations = 2
SYMMETRY MCSymmetry
INVARIANTS
    TypeOK
    SeatsReserved
    AccessByMembership
PROPERTIES
    InvitationsSettleOnce
CHECK_DEADLOCK FALSE
