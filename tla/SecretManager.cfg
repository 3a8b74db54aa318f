SPECIFICATION ManagerFairSpec
CONSTANTS
    AgentRefs = {s1, s2}
    Appliers = {a1, a2}
    NoEntry = NoEntry
    TTL = 1
    MaxTime = 3
INVARIANTS
    ManagerInv
PROPERTIES
    EvictionIsExact
