\* A ResourcePatch and a ClusterResourcePatch, two users whose rights change.
SPECIFICATION Spec
CHECK_DEADLOCK FALSE
CONSTANTS
    rp = rp
    crp = crp
    alice = alice
    bob = bob
    op = op
    None = None
    Contributors = {rp, crp}
    Predating = {rp}
    Namespace <- MCNamespace
    Specs <- MCSpecs
    Users = {alice, bob, op}
    Operator = op
    Rights <- MCRights
    ClusterKinds = {"node"}
    OwnKinds = {"ResourcePatch"}
    Mapped = {"cm", "node"}
    Matching <- MCMatching
    MaxTargets = 3
    MaxRequests = 2
    MaxRightChanges = 1
INVARIANT RecordedIsAuthor
INVARIANT AlwaysRecheckable
INVARIANT Contained
INVARIANT AuthorMayWrite
PROPERTY VerdictFollowsRights
PROPERTY DeletionCompletes
