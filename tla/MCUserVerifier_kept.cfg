CONSTANTS
    Conns = {c1, c2}
    Gone = Gone
    Orders = {"RUNNING", "RESET"}
SPECIFICATION Spec
CHECK_DEADLOCK TRUE
INVARIANT VerifiedKept
