SPECIFICATION ProgressSpec
CONSTANTS
    Workers = {w1, w2}
    Total = 2
    Existing = 1
    RecentLimit = 2
    PollLimit = 1
    MaxFailures = 1
    Logins = {s1}
    AccessRequests = {q1}
    Recoveries = {m1}
    MailSchedulers = {d1, d2}
    MaxMailAttempts = 2
    MaxPasswords = 1
    MaxMishaps = 2
    t1 = t1
    HostedTasks = {t1, t2}
    TaskWorkers = {w1, w2}
    NoOne = NoOne
    MaxClaims = 2
    MaxLeased = 1
    MaxPending = 2
    MaxTroubles = 1
    Mutations = {c1, c2}
    Drafts = {c2}
    Executors = {e1, e2}
    MaxFaults = 2
INVARIANTS
    Consistent
    ArrivalsAreSound
    
    ReportsAreHonest
PROPERTIES
    MailComesThrough
    
CHECK_DEADLOCK FALSE
