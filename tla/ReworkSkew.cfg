SPECIFICATION Spec
CONSTANTS
    p1 = p1  p2 = p2
    w1 = w1  w2 = w2
    k1 = k1  k2 = k2
    r1 = r1  r2 = r2
    reviewer = reviewer
    None = None
    Proposals = {p1, p2}
    WorkOrders = {w1, w2}
    ClientNumbers = {}
    Keys = {k1, k2}
    Users = {reviewer}
    Requests = {r1, r2}
    RolesOf <- MCRolesOf
    InitialOrders <- MCInitialOrders
    Offered <- MCOffered
    ProposalLifetime = 1
    QualityLifetime = 2
    MaxClock = 0
    SessionCache = TRUE
SYMMETRY Symmetry
PROPERTIES
    ReworkOnlyOfThePreviewedVersion
