SPECIFICATION FairSpec
CONSTANTS
    StepKeys <- MCStepKeys
    MaxExpansions = 8
    MaxNesting = 2
    MaxCounted = 4
    DefaultMaxIterations = 2
    Deployments <- MCDeployments
CHECK_DEADLOCK FALSE
INVARIANTS
    Inv
    LoopsKeepApart
    CallsWithinBudget
    ConfigurationDecides
PROPERTIES
    RunEnds
