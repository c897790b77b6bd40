SPECIFICATION Spec
CONSTANTS
    a1 = a1  a2 = a2  m1 = m1  v1 = v1  e1 = e1  e2 = e2
    Actions = {a1}
    Executors = {e1}
    Accounts = {m1}
    Activities = {v1}
    AccountOf <- OneAccountOf
    ActivityOf <- OneActivityOf
    KindsOf <- JustDraftEdit
    Preconditioned = {}
    Already = {}
    MaxAttempts = 1
    Pages = 1
    RateNum = 1
    RateDen = 2
    MaxCrashes = 1
    Interventions = {}
INVARIANTS VerifiedMeansInPlace
CHECK_DEADLOCK FALSE
