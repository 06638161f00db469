SPECIFICATION Spec
CONSTANTS
    c1 = c1
    c2 = c2
    q1 = q1
    q2 = q2
    g1 = g1
    a1 = a1
    a2 = a2
    NoCall = NoCall
    Calls = {c1, c2}
    Requests = {q1, q2}
    Grants = {g1}
    Accounts = {a1, a2}
    MaxGrants = 1
    MaxVersion = 3
    Scenarios <- MCScenarios
    MaxTokens = 3
SYMMETRY Symmetry
INVARIANTS
    NoSecretReuse
    ReadyTokenIsLive
    DeliveredAccountIsConsented
PROPERTIES
    RevokedStaysRevoked
CHECK_DEADLOCK FALSE
