CONSTANTS
    Admins = {a1, a2}
    Ports = {p1, p2}
    FirstPort = p1
    NoSocket = NoSocket
    Orders = {"OFF", "RUNNING", "START_UP"}
    MaxRuns = 2
    MaxCalls = 3
SPECIFICATION FairSpec
CHECK_DEADLOCK TRUE
INVARIANT TypeOK
INVARIANT OneListener
INVARIANT ContextUsable
PROPERTY PortSignalled
PROPERTY OffReturns
