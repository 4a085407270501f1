SPECIFICATION ClientSpec
CONSTANTS
    Callers = {1, 2}
    None = None
    Error = Error
    Faults = {"timeout", "break", "dial", "close"}
    MaxRequests = 2
    MaxConns = 2
    s1 = s1
    s2 = s2
    MaxDeaths = 1
CHECK_DEADLOCK FALSE
INVARIANT RefreshSurvives
