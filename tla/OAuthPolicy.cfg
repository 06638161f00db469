SPECIFICATION Spec
CONSTANTS
    s1 = s1
    s2 = s2
    u1 = u1
    c1 = c1
    c2 = c2
    g1 = g1
    g2 = g2
    a1 = a1
    a2 = a2
    a3 = a3
    a4 = a4
    Sessions = {s1}
    Subjects = {u1}
    Clients = {c1}
    Grants = {g1}
    Attempts = {a1, a2}
    NoAttempt = NoAttempt
    SubjectOf <- MCSubjectOf
    SidOf <- OneSidOf
    ClientOf <- OneClientOf
    MaxRevision = 2
    MaxExpiries = 0
SYMMETRY AttemptSymmetry
INVARIANT
    TypeOK
PROPERTY
    MintUnderCurrentPolicy
CHECK_DEADLOCK FALSE
