SPECIFICATION FairSpec
CONSTANTS
    Chunks = {chunk1, chunk2}
    MaxRetries = 2
    RequestTimeout = 240
    LlmTimeout = 120
    ToolTimeout = 20
    ToolTimes = {0, 20}
    SearchTimes = {0, 120}
    CallTimes = {0, 100, 120}
    ToolLimit = 20
    SearchLimit = 120
    CallLimit = 120
INVARIANTS
    OnlyTheExhaustedFallBack
    FailuresAreDisclosed
PROPERTIES
    EveryRequestEnds
CHECK_DEADLOCK FALSE
