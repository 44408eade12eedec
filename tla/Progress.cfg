\* A ResourcePatch creates the target and stays, another joins and leaves;
\* somebody may delete the tracker, and one reconcile may fail.
SPECIFICATION QueuedSpec
CHECK_DEADLOCK FALSE
CONSTANTS
    r1 = r1
    r2 = r2
    k1 = k1
    Rank <- MCRank
    RPs = {r1, r2}
    CRPs = {}
    Creators = {r1}
    Deleters = {r1}
    Orphaners = {}
    ClientSide = {}
    Invalid = {}
    Unrenderable = {}
    BareObjectValid = TRUE
    UserDeletes = {r2}
    Preexisting = {FALSE}
    OutOfBand = {"deleteTracker"}
    MaxOutOfBand = 1
    MaxFailures = 1
    FailuresEnd = TRUE
    Prompt = {r1, r2, "SR"}
    Reauthorize = TRUE
PROPERTY ReleaseCompletes
PROPERTY Converges
