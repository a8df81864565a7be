SPECIFICATION FairSpec
CONSTANTS
    o1 = o1  o2 = o2
    c = c  d = d
    r = r
    q1 = q1  q2 = q2
    None = None
    Orders = {o1, o2}
    Consumers = {c, d}
    Couriers = {r}
    Outcomes <- FailOrSkip
    Requests = {q1, q2}
    BatchLimit = 2
    MaxFaults = 1
INVARIANTS
    AcknowledgedIsStored
    ReportedIsReceived
PROPERTIES
    DecidedOnce
    EveryCompletionIsReported
CHECK_DEADLOCK FALSE
