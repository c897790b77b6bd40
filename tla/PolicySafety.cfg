SPECIFICATION FairSpec
CONSTANTS
    a1 = a1  a2 = a2  m1 = m1  v1 = v1  e1 = e1  e2 = e2
    Actions = {a1, a2}
    Executors = {e1}
    Accounts = {m1}
    Activities = {v1}
    AccountOf <- TwoAccountOf
    ActivityOf <- TwoActivityOf
    KindsOf <- TwoArchives
    Preconditioned = {}
    Already = {a1}
    MaxAttempts = 1
    Pages = 1
    RateNum = 1
    RateDen = 2
    MaxCrashes = 1
    Interventions = {"pause_all"}
INVARIANTS ResolvedMeansVerified
PROPERTIES CrossingPausesOnce UncertainSettles
CHECK_DEADLOCK FALSE
