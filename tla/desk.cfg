CONSTANTS
    None = None
    w1 = w1
    w2 = w2
    Agents = {a1}
    Sectors = {}
    Queues = {}
    SectorOf <- NoSectorOf
    Workers = {w1, w2}
    Workloads <- MCWorkloads
    DueAt <- MCDueAt
    WarnAt <- MCWarnAt
    Pauses = TRUE
    PatchTo = {"waiting_customer", "resolved"}
    Receipts = {"delivered", "read", "failed"}
    MaxRetry = 1
SPECIFICATION Spec
INVARIANTS TypeOK SnapshotCurrent UnreadKept AlertsAgree OneSurvey AnswerKept SurveyMovesOn
SYMMETRY Interchangeable
CHECK_DEADLOCK FALSE
