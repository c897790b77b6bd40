SPECIFICATION FairSpec
CONSTANTS
    d1 = d1
    d2 = d2
    k1 = k1
    k2 = k2
    Devices <- MCDevices
    Workers <- MCWorkers
    MaxAttempts = 2
    MaxChanges = 1
    MaxCrashes = 1
INVARIANTS
    NotificationsAreSound
PROPERTIES
    HistoryStands
    NotificationSettles
CHECK_DEADLOCK FALSE
