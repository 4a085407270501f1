SPECIFICATION MembersSpec
CONSTANTS
  App = App  a2 = a2  h1 = h1  h2 = h2  h3 = h3
  p1 = p1  p2 = p2  b1 = b1  b2 = b2  g1 = g1  g2 = g2
  Partitions = {p1, p2}
  Brokers = {b1}
  Beats = {h1}
  None = None
  Free = Free
  LogStart = 0
  LogEnd = 3
  Markers = {1}
  ResetTo = 0
  MaxPoll = 1
  Cooperative = FALSE
  Listener = FALSE
  CommitInListener = FALSE
  Ops = {"poll", "commit"}
  Shares = {{p1}, {p2}}
  Moves = {"other"}
  Faults = {"request", "lost", "stale", "rebalance", "unstable"}
  JoinAttempts = 2
  CommitAttempts = 2
  FetchAttempts = 2
  MaxGen = 2
  MaxIds = 1
  MaxFaults = 0
  MaxCalls = 1
  MaxMoves = 1
SYMMETRY Interchangeable
CHECK_DEADLOCK FALSE
INVARIANTS CommitsWereDelivered PositionsWereDelivered OneLiveBeat WordsAreKept AcceptedWereDelivered KeptOwnsWhatItWasGranted
