SPECIFICATION FairSpec
CONSTANTS
    Sections <- MCSections
    Topology <- MCTopology
    Values <- MCValues
    Template <- MCTemplate
    Documents <- MCDocuments
    PeerTuple = 1
    KeepN = 1
    MaxAttempts = 2
    MaxCalls = 2
    MaxCommands = 1
    MaxFaults = 1
INVARIANTS
    Inv
PROPERTIES
    HistoryIsKept
    DriftIsSeen
CHECK_DEADLOCK FALSE
