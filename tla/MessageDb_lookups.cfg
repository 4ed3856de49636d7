CONSTANTS
    Columns = 2
    MaxRows = 2
    MaxRead = 3
    MaxLookups = 2
SPECIFICATION FairSpec
CHECK_DEADLOCK TRUE
INVARIANT TypeOK
INVARIANT AloneExact
INVARIANT OverlapsAreFinds
PROPERTY LookupEnds
