CONSTANTS
    o1 = o1
    s1 = s1
    s2 = s2
    r1 = r1
    NoSector = NoSector
    Occurrences = {o1}
    Subs = {s1, s2}
    Workers = {w1, w2}
    MaxAttempts = 2
    MaxShutdowns = 1
    TypeOf <- MCTypeOf
    SectorAt <- MCSectorAt
    Wants <- MCWants
    Scopes <- MCScopes
SPECIFICATION FairSpec
INVARIANTS TypeOK OneTask AttemptsAreExact AttemptPending
PROPERTIES SilentAfterSuccess Settles
\* Once the event is dispatched and its delivery settled there is nothing to do.
CHECK_DEADLOCK FALSE
