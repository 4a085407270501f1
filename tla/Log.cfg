CONSTANTS
  p = p
  q = q
  None = None
  Conns = {c1, c2}
  Parts = {a1, a2}
  Ops = {"faults"}
  MaxLen = 2
  MaxRequests = 2
  MaxFaults = 1
  MaxTopics = 1
SPECIFICATION MCSpec
INVARIANTS KeepsItsWord PollReadsExactly AssignedOnce
PROPERTY VisibleIsRead
CHECK_DEADLOCK FALSE
