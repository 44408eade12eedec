--------------------------- MODULE OperatorState ---------------------------
(***************************************************************************)
(* The state the controllers of the patch operator share: the objects in   *)
(* the API server, the informer caches they are read through, and what     *)
(* each reconcile holds in memory between two calls.                       *)
(*                                                                         *)
(* The model follows ONE namespaced target.  Its contributors are the      *)
(* ResourcePatches of the target's namespace (RPs) and the                 *)
(* ClusterResourcePatches that name it (CRPs); its tracker is a            *)
(* SharedResource ("SR") or a ClusterSharedResource ("CSR").  Both tracker *)
(* names are deterministic (scope.TrackerName), so there is at most one    *)
(* object of each kind.                                                    *)
(*                                                                         *)
(* resourceVersions are modelled without counters.  Every object has a set *)
(* of holders whose copy is at the object's current resourceVersion; a     *)
(* write empties the set, and an Update is accepted only from a holder in  *)
(* it.                                                                     *)
(***************************************************************************)
EXTENDS Naturals, FiniteSets

CONSTANTS
    RPs,            \* the ResourcePatches that claim the target
    CRPs,           \* the ClusterResourcePatches that claim the target
    Rank,           \* [Contributors -> Nat], the order of sortContributors
    Creators,       \* spec.lifecycle.onMissing = Create
    Deleters,       \* spec.lifecycle.onRelease = Delete
    Orphaners,      \* spec.lifecycle.onRelease = Orphan (the rest: Revert)
    ClientSide,     \* spec.apply.mode = ClientSideApply (the rest: SSA)
    Invalid,        \* rejected by scope.Validate
    Unrenderable,   \* accepted by scope.Validate, rejected by render.Render
    BareObjectValid \* the API server accepts an object of the target's kind
                    \* that carries nothing but its identity

Contributors == RPs \cup CRPs
Trackers == {"SR", "CSR"}
Kinds == {"RP", "CRP"}

KindOf(c) == IF c \in RPs THEN "RP" ELSE "CRP"

\* The tracker that contributor c calls for, as long as it is the only one.
TrackerKindFor(c) == IF c \in RPs THEN "SR" ELSE "CSR"

\* "nobody" stands for a nil CreatorPatchRef, and for the author of no object.
NoOne == "nobody"
NoTracker == "unregistered"

\* The order in which a pass takes the contributors of a set.
First(S) == CHOOSE c \in S : \A d \in S : Rank[c] <= Rank[d]

ASSUME ContributorsAssumption ==
    /\ RPs \cap CRPs = {}
    /\ NoOne \notin RPs \cup CRPs
    /\ Rank \in [RPs \cup CRPs -> Nat]
    /\ \A c, d \in RPs \cup CRPs : Rank[c] = Rank[d] => c = d

\* validateLifecycle rejects onRelease: Delete without onMissing: Create.
ASSUME PoliciesAssumption ==
    /\ Creators \subseteq RPs \cup CRPs
    /\ Deleters \subseteq Creators
    /\ Orphaners \subseteq (RPs \cup CRPs) \ Deleters
    /\ ClientSide \subseteq RPs \cup CRPs
    /\ Invalid \subseteq RPs \cup CRPs
    /\ Unrenderable \subseteq (RPs \cup CRPs) \ Invalid
    /\ BareObjectValid \in BOOLEAN

VARIABLES
    contrib,      \* contributor objects in the API server
    contribCache, \* the same, as the informer cache shows them
    trk,          \* tracker objects in the API server
    trkCache,     \* the same, as the informer cache shows them
    freshC,       \* freshC[c]: the holders at contrib[c]'s resourceVersion
    freshT,       \* freshT[t]: the holders at trk[t]'s resourceVersion
    target,       \* the target object
    worker,       \* the reconcile in progress of each contributor kind
    pass          \* the reconcile in progress of each tracker

storeVars == <<contrib, trk, freshC, freshT>>
cacheVars == <<contribCache, trkCache>>
vars == <<contrib, contribCache, trk, trkCache, freshC, freshT, target,
          worker, pass>>

-----------------------------------------------------------------------------
(* Objects *)

\* ref is the single entry of status.sharedResourceRefs (the target is one
\* object), ready the Ready condition.
ContribObject ==
    [phase : {"none", "live", "terminating", "gone"},
     fin   : BOOLEAN,
     ref   : Trackers \cup {NoTracker},
     ready : BOOLEAN]

NoContrib == [phase |-> "none", fin |-> FALSE, ref |-> NoTracker,
              ready |-> FALSE]

Exists(o) == o.phase \in {"live", "terminating"}

\* A contributor record's State; "none" means there is no record.
RecordState == {"none", "waiting", "applied"}

\* fence is status.promotedTo: nil, set, set with adopted = true.  creator is
\* status.creatorPatchRef; createdByOperator is set in the same writes, so it
\* is creator # NoOne.  releasing is phase = Releasing, the one phase the code
\* ever tests for.  owned are the client-side contributors whose record carries
\* ownedPaths; the paths of the others are never read back.
TrackerStatus ==
    [fence     : {"none", "fenced", "adopted"},
     releasing : BOOLEAN,
     recs      : [Contributors -> RecordState],
     owned     : SUBSET ClientSide,
     creator   : Contributors \cup {NoOne}]

NoRecords == [c \in Contributors |-> "none"]

EmptyStatus == [fence |-> "none", releasing |-> FALSE, recs |-> NoRecords,
                owned |-> {}, creator |-> NoOne]

TrackerObject ==
    [exists : BOOLEAN, deleting : BOOLEAN, fin : BOOLEAN, st : TrackerStatus]

NoTrackerObject == [exists |-> FALSE, deleting |-> FALSE, fin |-> FALSE,
                    st |-> EmptyStatus]

\* newTracker followed by AddFinalizer: a tracker is born with its finalizer.
NewTrackerObject == [NoTrackerObject EXCEPT !.exists = TRUE, !.fin = TRUE]

IsFenced(st) == st.fence # "none"
Registered(st, c) == st.recs[c] # "none"

\* fields are the contributors whose contribution the object carries.  maker
\* is an observation the program does not keep: who created this incarnation
\* of the object ("foreign" for anyone but the operator, "shell" for a revert
\* that created it).
Foreign == "foreign"
Shell == "shell"
TargetObject == [exists : BOOLEAN, fields : SUBSET Contributors,
                 maker : Contributors \cup {NoOne, Foreign, Shell}]

NoTarget == [exists |-> FALSE, fields |-> {}, maker |-> NoOne]
NewTarget(fields, maker) ==
    [exists |-> TRUE, fields |-> fields, maker |-> maker]

-----------------------------------------------------------------------------
(* Reconciles in progress *)

WorkerPC == {"idle", "setInvalid", "addFin", "dropFin", "fence", "readOld",
             "createSuccessor", "adopt", "flag", "lookup", "lookupOwn",
             "create", "sync"}

\* c is the contributor being reconciled, ref the tracker ensureTracker settled
\* on, old the namespaced tracker's status as promotion read it.  The copy of
\* the contributor is not kept: it is only ever written back, which the API
\* server accepts only while it is current (freshC), and then it is contrib[c].
Worker == [pc : WorkerPC, c : Contributors \cup {NoOne},
           ref : Trackers \cup {NoTracker}, old : TrackerStatus]

IdleWorker == [pc |-> "idle", c |-> NoOne, ref |-> NoTracker,
               old |-> EmptyStatus]

PassPC == {"idle", "unfence", "addFin", "dropFin", "deleteSelf", "release",
           "deleteTarget", "exists", "apply", "provenance", "status"}

\* st is the tracker's status as the pass holds it, releasing and active the
\* two halves of the contributor list, todo the contributors still to be
\* visited in the current loop, seen what the applier's Get left it with, waiting
\* the contributors whose Apply returned NotFound, owned the ownedPaths carried
\* into the contributor list when it was built, teardown that the tracker itself is
\* being deleted.
Pass == [pc : PassPC, st : TrackerStatus, owned : SUBSET ClientSide,
         releasing : SUBSET Contributors, active : SUBSET Contributors,
         todo : SUBSET Contributors, seen : TargetObject,
         waiting : SUBSET Contributors, teardown : BOOLEAN]

IdlePass == [pc |-> "idle", st |-> EmptyStatus, owned |-> {},
             releasing |-> {}, active |-> {}, todo |-> {}, seen |-> NoTarget,
             waiting |-> {}, teardown |-> FALSE]

TypeOK ==
    /\ contrib \in [Contributors -> ContribObject]
    /\ contribCache \in [Contributors -> ContribObject]
    /\ trk \in [Trackers -> TrackerObject]
    /\ trkCache \in [Trackers -> TrackerObject]
    /\ freshC \in [Contributors -> SUBSET {"cache", "worker"}]
    /\ freshT \in [Trackers -> SUBSET {"cache", "pass"}]
    /\ target \in TargetObject
    /\ worker \in [Kinds -> Worker]
    /\ pass \in [Trackers -> Pass]

-----------------------------------------------------------------------------
(* The API server *)

\* Mutant: writes without a resourceVersion precondition.
StillFresh_Unconditional(t, o) == freshT[t]

\* The holders still at tracker t's resourceVersion after o is written to it:
\* a write that changes nothing leaves the resourceVersion alone.
StillFresh(t, o) == IF o = trk[t] THEN freshT[t] ELSE {}

\* A write by the contributor controller, from a read made in the same retry
\* attempt: the attempt that succeeds is atomic.
WriteTracker(t, o) ==
    /\ trk' = [trk EXCEPT ![t] = o]
    /\ freshT' = [freshT EXCEPT ![t] = StillFresh(t, o)]

\* A write by tracker t's own pass, which goes on holding its copy or ends.
PassWrite(t, o, stays) ==
    /\ trk' = [trk EXCEPT ![t] = o]
    /\ freshT' = [freshT EXCEPT ![t] =
                    (StillFresh(t, o) \ {"pass"})
                        \cup (IF stays THEN {"pass"} ELSE {})]

\* A write of contributor c.  Every write the operator makes to a contributor
\* is the last one of its reconcile, except for the Authorized condition of
\* reauthorize, which changes nothing that is modelled here.
WriteContrib(c, o) ==
    /\ contrib' = [contrib EXCEPT ![c] = o]
    /\ freshC' = [freshC EXCEPT ![c] =
                    IF o = contrib[c] THEN @ \ {"worker"} ELSE {}]

\* Create with AlreadyExists ignored.
CreateTracker(t) ==
    IF trk[t].exists
    THEN UNCHANGED <<trk, freshT>>
    ELSE WriteTracker(t, NewTrackerObject)

\* An Update or Status().Update of tracker t from its pass's copy: accepted at
\* the current resourceVersion, after which the pass is q; refused with an
\* error that ends the pass otherwise.
UpdateTracker(t, o, q) ==
    /\ IF trk[t].exists /\ "pass" \in freshT[t]
       THEN /\ PassWrite(t, o, FALSE)
            /\ pass' = [pass EXCEPT ![t] = q]
       ELSE /\ freshT' = [freshT EXCEPT ![t] = @ \ {"pass"}]
            /\ pass' = [pass EXCEPT ![t] = IdlePass]
            /\ UNCHANGED trk
    /\ UNCHANGED <<contrib, contribCache, trkCache, freshC, target, worker>>

\* What is left of a tracker once its finalizer is removed, and what a Delete
\* leaves: the object goes when it is both deleted and free of finalizers.
WithoutFinalizer(o) ==
    IF o.deleting THEN NoTrackerObject ELSE [o EXCEPT !.fin = FALSE]
Deleted(o) ==
    IF o.fin THEN [o EXCEPT !.deleting = TRUE] ELSE NoTrackerObject

\* A watch event reaches the informer: the cache moves to the current version.
SyncTracker(t) ==
    /\ "cache" \notin freshT[t]
    /\ trkCache' = [trkCache EXCEPT ![t] = trk[t]]
    /\ freshT' = [freshT EXCEPT ![t] = @ \cup {"cache"}]
    /\ UNCHANGED <<contrib, contribCache, trk, freshC, target, worker, pass>>

SyncContributor(c) ==
    /\ "cache" \notin freshC[c]
    /\ contribCache' = [contribCache EXCEPT ![c] = contrib[c]]
    /\ freshC' = [freshC EXCEPT ![c] = @ \cup {"cache"}]
    /\ UNCHANGED <<contrib, trk, trkCache, freshT, target, worker, pass>>

=============================================================================
