SPECIFICATION Spec
CONSTANTS
    a1 = a1  a2 = a2  m1 = m1  v1 = v1  e1 = e1  e2 = e2
    Actions = {a1}
    Executors = {e1, e2}
    Accounts = {m1}
    Activities = {v1}
    AccountOf <- OneAccountOf
    ActivityOf <- OneActivityOf
    KindsOf <- AnyKindOf
    Preconditioned = {a1}
    Already = {}
    MaxAttempts = 2
    Pages = 2
    RateNum = 1
    RateDen = 2
    MaxCrashes = 1
    Interventions = {"pause", "revoke", "disconnect"}
SYMMETRY ExecutorSymmetry
INVARIANTS
    TypeOK
    OutcomesAreTrue
PROPERTIES FirstOutcomeStands StartsUnderAuthority KeepsPromise
CHECK_DEADLOCK FALSE
