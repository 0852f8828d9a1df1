CONSTANTS
    m1 = m1
    m2 = m2
    p1 = p1
    g1 = g1
    k1 = k1
    k2 = k2
    None = None
    Free = Free
    Agents = {}
    Sectors = {}
    Queues = {}
    SectorOf <- NoSectorOf
    Workers = {w1, w2}
    Messages = {m1, m2}
    Peers = {p1}
    Groups = {}
    Attended = {}
    PeerOf <- FromCustomer
    Conns = {k2}
    ConnsOf <- Anywhere
    UsesProtocol = {k2}
    Noticing = {}
    Editors = {e1}
    MaxContacts = 3
    MaxConvs = 4
    MaxFaults = 0
    Outlive = FALSE
SPECIFICATION Spec
PROPERTIES ProtocolNotReopened
