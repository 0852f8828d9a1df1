CONSTANTS
    p1 = p1
    p2 = p2
    k1 = k1
    NoKey = NoKey
    Workers = {w1, w2}
    Keys = {k1}
    Passwords = {p1, p2}
    MaxAccounts = 4
    MaxTokens = 6
    Workloads <- MCWorkloads
SPECIFICATION Spec
INVARIANTS TypeOK DoneOnce SessionsEnd
CHECK_DEADLOCK FALSE
