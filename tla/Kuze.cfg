SPECIFICATION KuzeFairSpec
CONSTANTS
    Tokens = {t1}
    SecretNames = {ref}
    Agents = {a1, a2}
    None = None
    Requests = {r1, r2, r3}
    HumanTTL = 1
    AgentTTL = 1
    TicksPerSecond = 2
    MaxTicks = 5
    MaxFaults = 1
INVARIANTS
    KuzeInv
PROPERTIES
    LinksDieOnTime
    UsedTokensArePruned
