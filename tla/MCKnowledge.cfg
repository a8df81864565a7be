SPECIFICATION FairSpec
CONSTANTS
    a = a  b = b  i = i
    c1 = c1  c2 = c2
    old = old  new = new
    None = None
    Versions <- TwoVersions
    Chunks = {c1, c2}
    Sections <- Growing
    Contents = {old, new}
    Workers = {a, b}
    Ingestors = {i}
    BatchLimit = 2
    MaxRetries = 1
    MaxFaults = 1
INVARIANTS
    OwnedOnce
    ChunksFollowDocument
    InForceIsEmbedded
    NoLostActivation
PROPERTIES
    OneNewestVersion
    EveryVersionSettles
CHECK_DEADLOCK FALSE
