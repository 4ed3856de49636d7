CONSTANTS
    Conns = {c1, c2}
    Gone = Gone
    Orders <- AnyOrder
SPECIFICATION FairSpec
CHECK_DEADLOCK TRUE
INVARIANT TypeOK
INVARIANT SingleHolder
INVARIANT PendingExclusive
PROPERTY ImplementsDesk
PROPERTY VerifiedServed
