SPECIFICATION DeskSpec
CONSTANTS
    p1 = p1
    p2 = p2
    k1 = k1
    chat1 = chat1
    chat2 = chat2
    Customer = Customer
    Null = Null
    People <- MCPeople
    Owner = p1
    Keys <- MCKeys
    Chats <- MCChats
    MaxStaffInvitations = 2
    MaxSubscriptions = 2
    MaxLeases = 2
    MessageLimit = 2
    MaxMessages = 3
    MaxTickets = 1
    MaxVersion = 2
INVARIANTS
    ConversationAddsUp
    VersionsTellChanges
CHECK_DEADLOCK FALSE

CONSTRAINT MCApart
SYMMETRY MCSymmetry
