SPECIFICATION Spec
CONSTANTS
    mail = mail
    w1 = w1
    w2 = w2
    Events <- MCEvents
    Emails <- MCEvents
    Parts <- MCParts
    Workers <- OneWorker
    MaxTroubles = 0
    MaxRequests = 2
    MaxReconnects = 1
PROPERTIES
    DeletedMeansGone
