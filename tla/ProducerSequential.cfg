CONSTANTS
    c1 = c1  c2 = c2  p1 = p1  p2 = p2  b1 = b1  b2 = b2
    NoLeader = NoLeader Missing = Missing None = None
    Callers <- MCOneCaller
    Partitions <- MCTwoPartitions
    Brokers <- MCTwoBrokers
    Idempotent = TRUE
    Faults = {"lostRequest", "lostReply", "lateRequest", "afterAppend", "refused"}
    MetaFaults = {NoLeader, Missing}
    StopOnError = TRUE
    MaxAttempts = 2
    MaxCalls = 2
    MaxRecords = 2
    MaxMoves = 1
    LogStart = 3
SPECIFICATION Spec
SYMMETRY Symmetry
INVARIANTS
    AckedIsStored
    NoDuplicates
    OnePartitionPerRecord
    InOrder
CHECK_DEADLOCK FALSE
