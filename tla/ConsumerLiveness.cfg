SPECIFICATION LiveSpec
CONSTANTS
  b1 = b1  h1 = h1
  Partitions = {p1}
  Brokers = {b1, b2}
  App = App
  Beats = {h1}
  None = None
  Free = Free
  LogStart = 0
  LogEnd = 1
  Markers = {}
  ResetTo = 0
  MaxPoll = 1
  Cooperative = FALSE
  Listener = FALSE
  CommitInListener = FALSE
  Ops = {"poll", "commit"}
  Shares = {{p1}}
  Moves = {}
  Faults = {"request", "lost", "stale", "rebalance", "unstable"}
  JoinAttempts = 2
  CommitAttempts = 2
  FetchAttempts = 2
  MaxGen = 2
  MaxIds = 2
  MaxFaults = 0
  MaxCalls = 1
  MaxMoves = 0
CHECK_DEADLOCK FALSE
PROPERTIES CallsReturn EverythingIsDelivered FencedMemberRejoins
