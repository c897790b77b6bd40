SPECIFICATION ServicesSpec
CONSTANTS
    c2 = c2
    y1 = y1
    k1 = k1
    k2 = k2
    p1 = p1
    f1 = f1
    x1 = x1
    r1 = r1
    g1 = g1
    g2 = g2
    w1 = w1
    w2 = w2
    o1 = o1
    o2 = o2
    fam = fam
    b1 = b1
    s1 = s1
    t1 = t1
    a1 = a1
    a2 = a2
    a3 = a3
    u1 = u1
    u2 = u2
    i1 = i1
    i2 = i2
    c1 = c1
    z1 = z1
    v1 = v1
    v2 = v2
    n1 = n1
    n2 = n2
    m1 = m1
    m2 = m2
    e1 = e1
    e2 = e2
    MaxSources = 2
    Thread <- MCThread
    Preparers = {e1, e2}
    PageSize = 1
    MaxLosses = 0
    Entries <- MCEntries
    MaxRecalled = 3
    MaxEntries = 2
    MaxLength = 7
    Accounts = {m1, m2}
    Readings <- MCReadings
    Window = 2
    PageLimits = {1, 2}
    MaxMail = 3
    MaxRemoved = 1
    MaxOutages = 2
    MaxBoots = 2
    SweepWorkers = {w1, w2}
    DueRows = {o1, o2, fam}
    Sweep <- MCSweep
    SentRows = {}
    TaskRows = {}
    Families = {fam}
    Family <- MCFamily
    Limit = 1
    MaxSetbacks = 1
    MaxReturns = 0
    MailboxRequests = {a1, a2, a3}
    Owner <- MCOwner
    Named <- MCNamed
    Managers = {"mastra", "hosted"}
    MaxAsks = 3
    MaxRevised = 1
    Initializes = {i1, i2}
    ToolCalls = {y1}
    Deletes = {z1}
    Identity <- MCIdentity
    MaxListed = 1
    MaxInflight = 2
    MaxPerSession = 1
    Downloads = {n1, n2}
    MaxDeaths = 1
    Clients = {p1}
    MemoryCalls = {f1, x1, r1}
    Host <- MCHost
    Files = {f1}
    Texts = {x1}
    MaxStarts = 3
    MaxWrongs = 2
    Generations = {g1, g2}
    Consumers <- MCConsumers
    Keys <- MCKeys
    Shapes <- MCShapes
    Resumptions = {"web", "workflow"}
    MaxAttempts = 3
    MaxRuns = 2
    MaxQueued = 1
    MaxFaults = 1
    MaxChanges = 1
INVARIANTS
    PlansHold
    AnswersAreTrue
    EvidenceIsTrue
    ReadinessIsTrue
    SweepsAreSound
    RequestsAreSound
PROPERTIES
    FirstDecisionStands
    MailboxesStand
    ServicesFinish
CHECK_DEADLOCK FALSE
