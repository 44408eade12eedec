\* Two ResourcePatches, one of which creates the target and asks for its
\* deletion, joining and leaving in any order.  The caches of the tracker and
\* of r1 lag freely, and any reconcile may fail at any call.
SPECIFICATION Spec
CHECK_DEADLOCK FALSE
CONSTANTS
    r1 = r1
    r2 = r2
    k1 = k1
    Rank <- MCRank
    RPs = {r1, r2}
    CRPs = {}
    Creators = {r1}
    Deleters = {r1}
    Orphaners = {}
    ClientSide = {}
    Invalid = {}
    Unrenderable = {}
    BareObjectValid = TRUE
    UserDeletes = {r1, r2}
    Preexisting = {TRUE, FALSE}
    OutOfBand = {}
    MaxOutOfBand = 0
    MaxFailures = 0
    FailuresEnd = FALSE
    Prompt = {r2}
INVARIANT FreshCopiesAgree
PROPERTY CreatorKept
PROPERTY ImplementsSharedObject
