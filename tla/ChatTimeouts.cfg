SPECIFICATION Spec
CONSTANTS
    Chunks = {chunk1, chunk2}
    MaxRetries = 2
    RequestTimeout = 240
    LlmTimeout = 120
    ToolTimeout = 20
    ToolTimes = {0}
    SearchTimes = {0}
    CallTimes = {0, 120}
    ToolLimit = 20
    SearchLimit = 120
    CallLimit = 120
INVARIANTS
    TimeoutsFallBack
CHECK_DEADLOCK FALSE
