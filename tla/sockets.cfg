CONSTANTS
    c1 = c1
    c2 = c2
    Api = Api
    Watcher = Watcher
    Clients = {c1, c2}
    Events <- MCEvents
    BufferSize = 1
    Workloads <- MCWorkloads
SPECIFICATION Spec
INVARIANTS TypeOK PresenceAgrees
PROPERTIES FeedSpec
CHECK_DEADLOCK FALSE
