SPECIFICATION FairSpec
CONSTANTS
    Users = {alice, bob, mallory}
    AdminSenders = {alice, bob}
    Ops = {agents_delete, agents_list}
    gatedActions = {agents_delete}
    ApprovalIDs = {i1}
    Workers = {w1, w2}
    None = None
    DefaultTTL = 1
    MaxTime = 3
    MaxCrashes = 1
INVARIANTS
    Inv
    FourEyes
PROPERTIES
    DecisionsAreFinal
    ImplementsLifecycle
    ApprovedEventuallyRuns
