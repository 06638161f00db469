SPECIFICATION Spec
CONSTANTS
    n1 = n1
    n2 = n2
    n3 = n3
    k1 = k1
    k2 = k2
    k3 = k3
    c1 = c1
    c2 = c2
    r1 = r1
    r2 = r2
    Nodes = {n1, n2, n3}
    Keys = {k1, k2, k3}
    NoKey = NoKey
    FirstKey = k1
    Rows = {r1}
    Calls = {c1, c2}
    DefaultTTL = 1
    Overlap = 1
    Lag = 1
    MaxTime = 3
    MaxEpoch = 2
    Scenarios <- MCScenarios
INVARIANTS
    StoredSecretsOpen
    CookiesOpenUntilExpiry
PROPERTIES
    RewrapKeepsContent
CHECK_DEADLOCK FALSE
