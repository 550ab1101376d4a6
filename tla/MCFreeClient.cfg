SPECIFICATION Spec
CONSTANTS
    agy = agy
    claude = claude
    b1 = b1
    b2 = b2
    best = best
    glm = glm
    m1 = m1
    m2 = m2
    mglm = mglm
    research = research
    planning = planning
    vision = vision
    nolane = nolane
    h1 = h1
    h2 = h2
    NoModel = NoModel
    NoFile = NoFile
    Partial = Partial
    NoRouter = NoRouter
    NoKey = NoKey
    NoReq = NoReq
    Exports <- MCExports
    Committed <- MCCommitted
    PortedHash = h1
    Claude = {claude}
    Glm = glm
    Prefixed = {}
    GlmModels = {mglm}
    MaxSyncs = 2
    Models = {m1, m2, mglm}
    Listings <- MCListings
    Cards <- MCCards
    FreeCard = "free"
    Payers = {c1}
    PaidRequests <- MCPaidRequests
    Actors = {c1, c2}
    Lanes = {research, planning, vision, nolane}
    Special = {vision}
    RouterKeys = {k1}
    Plans = {"free", "paid"}
INVARIANTS
    GeneratedIsSafe
    OneRouterPerKey
    OnlyWhatTheHarnessOffers
    
    GivesUpForAReason
    

    
CHECK_DEADLOCK FALSE
