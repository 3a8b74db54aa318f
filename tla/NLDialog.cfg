SPECIFICATION FairSpec
CONSTANTS
    r1 = r1
    r2 = r2
    u1 = u1
    u2 = u2
    NoName = NoName
    SessionTTL = 1
    Window = 2
    MaxRetries = 2
    Keys <- MCKeys
    Deployments <- MCDeployments
    Topology <- MCTopology
    Commands <- MCCommands
INVARIANTS
    Inv
    ConversationsKept
PROPERTIES
    ContextIsOwn
    OnlyConfirmedRuns
    ProviderIsCurrent
    DialogProgresses
