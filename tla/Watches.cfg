\* Room for one of two kinds, a third is disabled.  Nobody re-authorizes the
\* contributors of the trackers that share a kind.
SPECIFICATION Spec
CONSTANTS
    s1 = s1
    s2 = s2
    k1 = k1
    k2 = k2
    Trackers = {s1, s2, k1, k2}
    OwnerOf <- MCOwnerOf
    KindOf <- MCKindOf
    MaxGVKs = 1
    Disabled = {"g3"}
    Timed = {s2, k2}
    NoTracker = NoTracker
    NoOwner = NoOwner
    MaxDrifted = 1
    MaxFailures = 1
INVARIANT TypeOK
INVARIANT CapHolds
INVARIANT EnsureKeptItsWord
PROPERTY DriftRepaired
