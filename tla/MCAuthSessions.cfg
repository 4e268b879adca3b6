SPECIFICATION Spec
CONSTANTS
    c1 = c1
    c2 = c2
    email = email
    telegram = telegram
    google = google
    None = None
    Clients <- MCClients
    Emails <- MCEmails
    Telegrams <- MCTelegrams
    Googles <- MCGoogles
    EmailOf <- MCEmailOf
    MaxAttempts = 1
    MaxSessions = 3
    MaxOtps = 2
    MaxChallenges = 1
SYMMETRY MCSymmetry
CONSTRAINT MCRows
INVARIANTS
    TypeOK
    CodesWorkOnce
    BlockedStaysOut
PROPERTIES
    AccountsKept
    KeepsFamilies
CHECK_DEADLOCK FALSE
