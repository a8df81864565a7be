SPECIFICATION Spec
CONSTANTS
    j = j  chat = chat
    d = d  e = e
    None = None
    Unknown = Unknown
    Documents = {d, e}
    Newest <- Revised
    Queries <- Asked
    Searches = {j, chat}
    Jobs = {j}
    Snapshots <- ThreeSnapshots
    RouteLimit = 2
    HitLimit = 2
    MaxFindings = 2
INVARIANTS
    HitsWereInForce
    BestHitsKept
    VerdictIsProven
PROPERTIES
    EvidenceWasInForce
CONSTRAINT ChatsComeFirst
CHECK_DEADLOCK FALSE
