SPECIFICATION Spec
CONSTANTS
    a1 = a1  a2 = a2  m1 = m1  v1 = v1  e1 = e1  e2 = e2
    Actions = {a1}
    Executors = {e1, e2}
    Accounts = {m1}
    Activities = {v1}
    AccountOf <- OneAccountOf
    ActivityOf <- OneActivityOf
    KindsOf <- JustArchive
    Preconditioned = {}
    Already = {}
    MaxAttempts = 1
    Pages = 2
    RateNum = 1
    RateDen = 2
    MaxCrashes = 0
    Interventions = {}
INVARIANTS IncorrectMeansAbsent
CHECK_DEADLOCK FALSE
