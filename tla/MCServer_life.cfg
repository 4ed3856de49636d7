CONSTANTS
    alice = alice
    bob = bob
    Clients = {alice, bob}
    Nobody = Nobody
    HandedId <- LostIds
    Placeholders = 2
    Sent = {"100", "202"}
    Orders = {"RUNNING", "OFF", "RESET"}
    MaxTexts <- TwoAndOne
    MaxStored = 1
SPECIFICATION FairSpec
CHECK_DEADLOCK FALSE
INVARIANT ReplyOrder
INVARIANT UniqueLogin
INVARIANT HandlerEntry
INVARIANT ResetStable
PROPERTY StopCompletes
