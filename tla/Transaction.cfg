SPECIFICATION SituationSpec
CONSTANTS
    p1 = p1  b1 = b1  b2 = b2
    Partitions = {p1, p2}
    Offsets = Offsets
    Brokers = {b1}
    None = None
    TV2 = FALSE
    Faults = {"lostRequest", "lostReply", "busy", "noLeader", "rival", "timeout", "crash"}
    AbortOnError = TRUE
    Abandon = FALSE
    MaxTxns = 2
    MaxCalls = 2
    MaxEnds = 1
    MaxAttempts = 2
    MaxDisturbances = 2
SYMMETRY Interchangeable
INVARIANTS
    CommittedIsComplete
    AbortedIsInvisible
    AllOrNothing
    OwnEpoch
    RegisteredFirst
CHECK_DEADLOCK FALSE
