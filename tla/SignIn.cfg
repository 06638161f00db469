CONSTANTS
    Users = {u1, u2}
    Owner = u1
    Calls = {c1, c2, c3}
    Interactions = {i1, i2}
    Inits = {s1, s2}
    Parent = parent
    Upstreams = {x1}
    None = None
    OTPLimit = 2
    MaxChanges = 1
SPECIFICATION Spec
SYMMETRY Symmetry
INVARIANTS FactorsAreCurrent OneSessionPerProof ForcedMFA LogoutFollowsReplacement
CHECK_DEADLOCK FALSE
