CONSTANTS
    alice = alice
    bob = bob
    Clients = {alice}
    Nobody = Nobody
    HandedId <- LostIds
    Placeholders = 2
    Sent = {"202"}
    Orders <- AllStates
    MaxTexts <- One
    MaxStored = 0
SPECIFICATION FairSpec
CHECK_DEADLOCK FALSE
PROPERTY ResetCompletes
