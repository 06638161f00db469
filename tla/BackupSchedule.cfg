SPECIFICATION Spec
CONSTANTS
    n1 = n1
    n2 = n2
    n3 = n3
    Nodes = {n1, n2}
    Nobody = Nobody
    Stale = Stale
    MaxSlot = 3
    MaxFaults = 3
INVARIANTS
    LeaseProtectsRunner
    SuccessOnce
    MarkWasBackedUp
PROPERTY
    WatermarkMonotone
    LeaseReturns
CHECK_DEADLOCK FALSE
