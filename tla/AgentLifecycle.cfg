SPECIFICATION FairSpec
CONSTANTS
    MaxCreates = 2
    MaxSpawns = 3
    MaxCommands = 3
    MaxFaults = 1
INVARIANTS
    Inv
PROPERTIES
    ProvisioningInOrder
    AgentsSettle
