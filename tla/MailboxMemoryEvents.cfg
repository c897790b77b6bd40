SPECIFICATION FairSpec
CONSTANTS
    mail = mail
    w1 = w1
    w2 = w2
    Events <- MCEvents
    Emails <- MCEvents
    Parts <- MCParts
    Workers <- MCWorkers
    MaxTroubles = 2
    MaxRequests = 2
    MaxReconnects = 1
INVARIANTS
    BankTellsTruth
    OneWorkerSettles
PROPERTIES
    SettledIsFinal
    EventsAreDelivered
