SPECIFICATION Spec
CONSTANTS
    r1 = r1
    r2 = r2
    Replicas = {r1, r2}
    NoReplica = NoReplica
    Versions = {1, 2}
    MaxAttempts = 2
    Scenarios <- NewUser
    MaxFaults = 0
INVARIANT
    DeletedUserIsDeletedRemotely
