CONSTANTS
    m1 = m1
    m2 = m2
    p1 = p1
    g1 = g1
    k1 = k1
    k2 = k2
    None = None
    Free = Free
    Agents = {}
    Sectors = {}
    Queues = {}
    SectorOf <- NoSectorOf
    Workers = {w1, w2}
    Messages = {m1, m2}
    Peers = {p1}
    Groups = {}
    Attended = {}
    PeerOf <- FromCustomer
    Conns = {k1, k2}
    ConnsOf <- Anywhere
    UsesProtocol = {k2}
    Noticing = {k1}
    Editors = {}
    MaxContacts = 3
    MaxConvs = 4
    MaxFaults = 1
    Outlive = FALSE
SPECIFICATION Spec
INVARIANTS TypeOK AckedIsStored StoredOnce LedgerPointsToMessage
    ProtocolsUnique OneNotice
SYMMETRY Interchangeable
