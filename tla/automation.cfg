CONSTANTS
    None = None
    Gone = Gone
    w1 = w1
    w2 = w2
    u1 = u1
    u2 = u2
    a1 = a1
    s1 = s1
    Agents = {a1}
    Sectors = {s1}
    Queues = {}
    SectorOf <- NoSectorOf
    Users = {w1, w2, u1, u2}
    Workers = {w1, w2}
    RuleBook <- MCRuleBook
    Workloads <- MCWorkloads
    Totals = {1}
    MaxDeals = 2
    MaxPipes = 2
    MaxStages = 3
    BudgetMax = 2
    MaxDepth = 3
    MaxRetry = 3
SPECIFICATION Spec
INVARIANTS TypeOK FiredOnce NoFeedback BudgetHolds DealSound StagesKept
SYMMETRY Interchangeable
CHECK_DEADLOCK FALSE
