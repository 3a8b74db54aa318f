SPECIFICATION Spec
CONSTANTS
    gated = gated
    plain = plain
    send = send
    r1 = r1
    r2 = r2
    u1 = u1
    u2 = u2
    c1 = c1
    c2 = c2
    d1 = d1
    d2 = d2
    d3 = d3
    d4 = d4
    d5 = d5
    SendTool = send
    DefaultTTL = 2
    SendWindow = 2
    Window = 1
    ProxyLimit = 1
    MaxRounds = 2
    CacheTTL = 1
    Calls = {c1, c2}
    Deliveries = {d1, d2, d3, d4, d5}
    Turns <- MCTurns
    Executors <- MCExecutors
    Deployments <- SignedOnly
CHECK_DEADLOCK FALSE
PROPERTY
    ForwardedIsAuthenticated
