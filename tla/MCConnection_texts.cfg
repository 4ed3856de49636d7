CONSTANTS
    Streams <- LoginAndRequest
    MaxReceived = 3
    MaxReplies = 0
SPECIFICATION Spec
CHECK_DEADLOCK TRUE
PROPERTY TextsParsed
