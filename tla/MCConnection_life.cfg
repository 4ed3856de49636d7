CONSTANTS
    Streams <- Short
    MaxReceived = 3
    MaxReplies = 2
SPECIFICATION FairSpec
CHECK_DEADLOCK TRUE
INVARIANT TypeOK
INVARIANT PeerSeesReplies
INVARIANT EchoedOnce
INVARIANT ReleasedOnce
PROPERTY RepliesOffered
PROPERTY StopReleases
