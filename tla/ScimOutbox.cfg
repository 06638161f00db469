SPECIFICATION Spec
CONSTANTS
    r1 = r1
    r2 = r2
    Replicas = {r1, r2}
    NoReplica = NoReplica
    Versions = {1, 2}
    MaxAttempts = 2
    Scenarios <- Changes
    MaxFaults = 1
INVARIANTS
    NoOrphanGroup
    AcknowledgedIsApplied
    TombstoneIsSettled
PROPERTIES
    DeleteSparesRecreated
    ProviderConverges
