CONSTANTS
    m1 = m1
    m2 = m2
    p1 = p1
    g1 = g1
    k1 = k1
    k2 = k2
    None = None
    Free = Free
    Agents = {a1}
    Sectors = {}
    Queues = {}
    SectorOf <- NoSectorOf
    Workers = {w1, w2}
    Messages = {m1, m2}
    Peers = {p1, g1}
    Groups = {g1}
    Attended = {}
    PeerOf <- FromBoth
    Conns = {k1}
    ConnsOf <- Anywhere
    UsesProtocol = {}
    Noticing = {k1}
    Editors = {e1}
    MaxContacts = 3
    MaxConvs = 4
    MaxFaults = 1
    Outlive = FALSE
SPECIFICATION FairSpec
PROPERTIES EventuallyAcked
