SPECIFICATION FairSpec
CONSTANTS
    p1 = p1  p2 = p2
    w1 = w1
    k1 = k1  k2 = k2
    r1 = r1  r2 = r2
    ann = ann
    None = None
    Proposals = {p1, p2}
    WorkOrders = {w1}
    ClientNumbers = {}
    Keys = {k1, k2}
    Users = {ann}
    Requests = {r1, r2}
    RolesOf <- MCRolesOf
    InitialOrders <- MCInitialOrders
    Offered <- MCOffered
    ProposalLifetime = 1
    QualityLifetime = 2
    MaxClock = 0
    SessionCache = TRUE
PROPERTIES
    EveryCallAnswered
