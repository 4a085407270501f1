CONSTANTS
    p1 = p1
    p2 = p2
    b1 = b1
    b2 = b2
    NoLeader = NoLeader
    Missing = Missing
    None = None
    Callers = {c1, c2}
    Partitions = {p1}
    Brokers = {b1}
    Idempotent = TRUE
    Faults = {"lostRequest", "refused"}
    MetaFaults = {}
    StopOnError = FALSE
    MaxAttempts = 2
    MaxCalls = 2
    MaxRecords = 2
    MaxMoves = 0
    LogStart = 3
SPECIFICATION SharedSpec
SYMMETRY Symmetry
INVARIANTS
    SharedAckedIsStored
    SharedSequencesAgree
    PlainNoDuplicates
CHECK_DEADLOCK FALSE
