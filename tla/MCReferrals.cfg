SPECIFICATION ReferralSpec
CONSTANTS
    c1 = c1
    w1 = w1
    w2 = w2
    u1 = u1
    u2 = u2
    u3 = u3
    Nobody = Nobody
    Clients <- MCClients
    Workers <- MCWorkers
    Customers <- MCCustomers
    Buyers <- MCBuyers
    Blockable <- MCBlockable
    Days <- MCDays
    UsageLimit = 1
    MaxFaults = 1
INVARIANTS
    ReferralsAddUp
PROPERTIES
    QualifiedIsSettled
