SPECIFICATION FairSpec
CONSTANTS
    c1 = c1
    c2 = c2
    k1 = k1
    k2 = k2
    Consumers <- MCConsumers
    Keys <- MCKeys
    Shapes <- OneShape
    Resumptions = {"web"}
    MaxAttempts = 2
    MaxRuns = 2
    MaxQueued = 1
    MaxFaults = 0
    MaxChanges = 0
PROPERTY AnswerResumesWork
CHECK_DEADLOCK FALSE
