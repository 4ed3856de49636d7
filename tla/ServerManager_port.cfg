CONSTANTS
    Admins = {a1}
    Ports = {p1, p2}
    FirstPort = p1
    NoSocket = NoSocket
    Orders = {"START_UP"}
    MaxRuns = 1
    MaxCalls = 1
SPECIFICATION Spec
CHECK_DEADLOCK TRUE
INVARIANT PortInForce
