SPECIFICATION FairSpec
CONSTANTS
    embedding = embedding  provider = provider  database = database
    workOrders = workOrders  events = events  callbacks = callbacks
    embed = embed  process = process  intake = intake  report = report
    t1 = t1  t2 = t2
    Resources = {embedding, provider, database, workOrders, events, callbacks}
    BuildOrder <- Built
    AbandonOrder <- Abandoned
    EmbeddingLoop = embed
    RetrievalOwned <- Retrieval
    QualityLoops <- Inspecting
    QualityOwned <- Quality
    Uses <- WorksWith
    Tenants <- Served
INVARIANTS
    NothingUsedAfterClose
PROPERTIES
    EndingReleasesAll
    EveryTenantIsServed
CHECK_DEADLOCK FALSE
