\* Promotion of a target that the ResourcePatch creates.
SPECIFICATION Spec
CHECK_DEADLOCK FALSE
CONSTANTS
    r1 = r1
    r2 = r2
    k1 = k1
    Rank <- MCRank
    RPs = {r1}
    CRPs = {k1}
    Creators = {r1}
    Deleters = {r1}
    Orphaners = {}
    ClientSide = {}
    Invalid = {}
    Unrenderable = {}
    BareObjectValid = TRUE
    UserDeletes = {}
    Preexisting = {FALSE}
    OutOfBand = {}
    MaxOutOfBand = 0
    MaxFailures = 0
    FailuresEnd = FALSE
    Prompt = {r1, k1, "SR", "CSR"}
PROPERTY FenceDurable
PROPERTY CreatorKept
PROPERTY RetiredOnlyAdopted
