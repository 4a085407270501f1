SPECIFICATION Spec
CONSTANTS
    Callers = {c1, c2}
    None = None
    Error = Error
    Faults = {"timeout"}
    MaxRequests = 1
    MaxConns = 2
INVARIANT OwnResponse
