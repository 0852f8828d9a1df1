CONSTANTS
    a1 = a1
    a2 = a2
    boss = boss
    s1 = s1
    w1 = w1
    None = None
    Free = Free
    Agents = {a1}
    Sectors = {s1}
    Queues = {}
    SectorOf <- MCSectorOf
    Convs = {c1, c2}
    Workers = {w1, w2}
    Actors = {boss}
    AllScope = {boss}
    AgentSectors <- MCAgentSectors
    Active = {a1}
    MaxChats <- MCMaxChats
    Rank <- MCRank
    Kinds <- AssignsOnly
    Keep = Keep
    Patches <- MCPatches
    MaxUnread = 0
    Outlive = FALSE
SPECIFICATION Spec
INVARIANTS CapacityRespected
SYMMETRY Interchangeable
