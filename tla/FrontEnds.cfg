SPECIFICATION FrontSpec
CONSTANTS
    Records = {1, 2, 3, 4}
    Pair = {w1, w2}
    Workers = {w1}
    BatchSize = 2
    ChannelBuffer = 1
    MayFail = TRUE
    MayClose = TRUE
    MayCancel = TRUE
    MaxFlushes = 2
CHECK_DEADLOCK FALSE
INVARIANTS StoredOnce ReportsAreTrue StoredInSendOrder
PROPERTIES AcceptedIsReported RunEnds EverythingIsFlushed
