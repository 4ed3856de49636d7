CONSTANTS
    alice = alice
    bob = bob
    Clients = {alice, bob}
    Nobody = Nobody
    HandedId <- OwnIds
    Placeholders = 4
    Sent = {"other"}
    Orders = {"RUNNING"}
    MaxTexts <- TwoAndOne
    MaxStored = 0
SPECIFICATION FairSpec
CHECK_DEADLOCK TRUE
INVARIANT TypeOK
INVARIANT InOrder
INVARIANT QueuePointersValid
PROPERTY QueueServed
