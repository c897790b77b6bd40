SPECIFICATION ControlSpec
CONSTANTS
    OwnerApprovals = {o1}
    Requests = {r1}
    Handlers = {h1, h2}
    MaxVersion = 2
    MaxCrashes = 1
    Logins = {s1, s2}
    AccessRequests = {q1}
    Recoveries = {m1, m2}
    MailSchedulers = {d1}
    MaxMailAttempts = 1
    MaxPasswords = 2
    MaxMishaps = 0
    Connections = {k1, k2}
    MaxRevisions = 4
    MaxGeneration = 2
    Actions = {a1, a2}
    NoAction = NoAction
    MaxRuns = 3
    MaxEvents = 2
    MaxRevision = 2
    MaxRecords = 3
    Users = {u1, u2}
    Callers = {c1, c2}
    MaxSessions = 1
    MaxEntries = 2
    MaxConfigurations = 2
SYMMETRY Symmetry
INVARIANTS
    SendOutcomesAreTrue
    OneFlowPerDraft
    AccessIsCurrent
    HistoryAgrees
    SessionsAreSound
PROPERTIES
    KeepsPromise
    RefusedStaysRefused
CHECK_DEADLOCK FALSE
