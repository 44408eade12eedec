\* A client-side creator, an orphaning ResourcePatch and an invalid
\* ClusterResourcePatch, with one out-of-band change of the target.
SPECIFICATION Spec
CHECK_DEADLOCK FALSE
CONSTANTS
    r1 = r1
    r2 = r2
    k1 = k1
    Rank <- MCRank
    RPs = {r1, r2}
    CRPs = {k1}
    Creators = {r1}
    Deleters = {r1}
    Orphaners = {r2}
    ClientSide = {r1}
    Invalid = {k1}
    Unrenderable = {}
    BareObjectValid = TRUE
    UserDeletes = {r1, r2}
    Preexisting = {FALSE}
    OutOfBand = {"deleteTarget", "createTarget"}
    MaxOutOfBand = 1
    MaxFailures = 0
    FailuresEnd = FALSE
    Prompt = {r1, r2, k1, "SR"}
INVARIANT TypeOK
INVARIANT ReadyLeavesNothing
PROPERTY DeletedOnlyUnused
