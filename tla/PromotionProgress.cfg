\* Promotion.
SPECIFICATION QueuedSpec
CHECK_DEADLOCK FALSE
CONSTANTS
    r1 = r1
    r2 = r2
    k1 = k1
    Rank <- MCRank
    RPs = {r1}
    CRPs = {k1}
    Creators = {}
    Deleters = {}
    Orphaners = {}
    ClientSide = {}
    Invalid = {}
    Unrenderable = {}
    BareObjectValid = TRUE
    UserDeletes = {}
    Preexisting = {TRUE}
    OutOfBand = {}
    MaxOutOfBand = 0
    MaxFailures = 0
    FailuresEnd = TRUE
    Prompt = {r1, k1, "SR", "CSR"}
    Reauthorize = TRUE
PROPERTY PromotionCompletes
