CONSTANTS
    Columns = 2
    MaxRows = 1
    MaxRead = 2
    MaxLookups = 1
SPECIFICATION Spec
CHECK_DEADLOCK TRUE
INVARIANT ReplyOwnRows
