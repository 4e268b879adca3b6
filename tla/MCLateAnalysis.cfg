SPECIFICATION Spec
CONSTANTS
    p1 = p1
    p2 = p2
    u1 = u1
    u2 = u2
    op = op
    w1 = w1
    w2 = w2
    r1 = r1
    None = None
    Payments <- MCPayments
    Owner <- MCOwner
    Amount <- MCAmount
    Discount <- MCDiscount
    Operations <- MCOperations
    Workers <- MCWorkers
    Reviewers <- MCReviewers
    MaxAttempts = 2
    MaxFaults = 1
PROPERTIES
    StaleResultsFenced
CHECK_DEADLOCK FALSE
