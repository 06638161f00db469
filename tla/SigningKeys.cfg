SPECIFICATION Spec
CONSTANTS
    k1 = k1
    k2 = k2
    k3 = k3
    w1 = w1
    w2 = w2
    s1 = s1
    Kids = {k1, k2, k3}
    NoKid = NoKid
    Workers = {w1, w2}
    Signers = {s1}
    CacheAge = 2
    Lifetime = 2
    Period = 3
    MaxDelay = 1
    MaxTime = 9
SYMMETRY Symmetry
INVARIANTS
    TokensVerifiable
    OneActiveKey
PROPERTY
    PublishedBeforeUse
CHECK_DEADLOCK FALSE
