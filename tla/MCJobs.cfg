SPECIFICATION FairSpec
CONSTANTS
    j1 = j1  j2 = j2
    a = a  b = b
    None = None
    Jobs = {j1, j2}
    Workers = {a, b}
    Inspectable = {j1}
    ModelVerdicts = {"PASS"}
    BatchLimit = 2
    LeaseTimeout = 1
    MaxAttempts = 3
    BaseDelay = 1
    DelayCap = 12
    GatewayRetries = 1
    Survivor = a
    MaxRun = 1
INVARIANTS
    TypeOK
    EarlyFailureIsSettled
    CallsPerAttempt
    StatusMatchesResult
    LeaseProtects
PROPERTIES
    ResultsAreFinal
    EveryJobEnds
