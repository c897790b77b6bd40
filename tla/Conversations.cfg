SPECIFICATION FairSpec
CONSTANTS
    r1 = r1
    r2 = r2
    m1 = m1
    c1 = c1
    c2 = c2
    Global = Global
    NoOne = NoOne
    Requests <- MCRequests
    Scopes <- MCScopes
    Mailboxes <- MCMailboxes
    Consumers <- MCConsumers
    Budget = 2
    Page = 1
    MaxFaults = 1
PROPERTIES
    RepliesStand
    TurnSettles
    GlobalMessagesFanOut
CHECK_DEADLOCK FALSE
