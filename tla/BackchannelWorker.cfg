SPECIFICATION WorkerSpec
CONSTANTS
    r1 = r1
    r2 = r2
    p1 = p1
    p2 = p2
    p3 = p3
    Rows = {r1}
    Steps = {p1, p2, p3}
    NoStep = NoStep
    LostStep = LostStep
    NoRow = NoRow
    MaxAttempts = 3
    MaxWorkerFaults = 4
INVARIANTS
    OneEventAtLimit
    DeliveredWasReceived
PROPERTY
    OutcomeIsFinal
    EventuallySettled
CHECK_DEADLOCK FALSE
