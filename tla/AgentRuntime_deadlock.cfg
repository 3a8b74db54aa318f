SPECIFICATION FairSpec
CONSTANTS
    a = a
    g = g
    s = s
    c1 = c1
    c2 = c2
    s1 = s1
    s2 = s2
    key = key
    var = var
    ConfigRequests = {c1, c2}
    SecretRequests = {s1, s2}
    SecretNames = {key}
    EnvVars = {var}
    McpNames = {a}
    MaxWatchers = 2
    GwNames = {g}
    Slots = {1, 2}
    CronNames = {s}
    RowIds = {1, 2}
    MinutesPerHour = 2
    HoursPerDay = 3
    Horizon = 5
    MaxTime = 3
    Callers <- MCCallers
    UserEdits <- MCUserEdits
    Deployments <- MCDeployments
CHECK_DEADLOCK FALSE
INVARIANT GoroutineNeverNeedsLock
