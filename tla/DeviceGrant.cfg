\* One device code, an approver with and one without a second factor, two polls.
SPECIFICATION Spec
CONSTANTS
    d1 = d1
    s1 = s1
    s2 = s2
    u1 = u1
    u2 = u2
    c1 = c1
    c2 = c2
    Devices = {d1}
    Sessions = {s1, s2}
    Subjects = {u1, u2}
    Calls = {c1, c2}
    NoCall = NoCall
    NoSubject = NoSubject
    SubjectOf <- MCSubjectOf
    MfaSessions = {s1}
    MaxRevision = 1
SYMMETRY CallSymmetry
INVARIANTS
    MintOnce
    LogoutStopsDevices
    TokenNamesApprover
CHECK_DEADLOCK FALSE
