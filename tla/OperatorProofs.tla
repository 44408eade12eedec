--------------------------- MODULE OperatorProofs ---------------------------
(***************************************************************************)
(* Proofs about module Operator, for any number of contributors with any   *)
(* policies, caches that lag without bound and reconciles that fail at any *)
(* call.                                                                   *)
(***************************************************************************)
EXTENDS Operator, WellFoundedInduction, TLAPS

\* What is inductive: the types, what each reconcile in progress holds, and
\* that a copy which passes for current is.
Inv == TypeOK /\ FreshCopiesAgree /\ ReconcilesEquipped

\* A pass the model can be in.
PassOK(p) ==
    /\ p \in Pass
    /\ p.pc \in {"release", "exists", "apply", "provenance"} => p.todo # {}

-----------------------------------------------------------------------------
(* The operators the actions are built from *)

\* Every nonempty set of naturals has a least element.
LEMMA LeastNatural ==
    ASSUME NEW T, T \subseteq Nat, T # {}
    PROVE  \E m \in T : \A n \in T : m <= n
<1>1. IsWellFoundedOn(OpToRel(<, Nat), Nat)
  BY NatLessThanWellFounded
<1>2. PICK m \in T : \A n \in T : <<n, m>> \notin OpToRel(<, Nat)
  BY <1>1, WFMin
<1>3. \A n \in T : ~(n < m)
  BY <1>2 DEF OpToRel
<1> QED
  BY <1>3

\* The contributor a loop visits is one of those it has left to visit.
LEMMA FirstIn ==
    ASSUME NEW S \in SUBSET Contributors, S # {}
    PROVE  First(S) \in S
<1> DEFINE ranks == {Rank[c] : c \in S}
<1>1. ranks \subseteq Nat /\ ranks # {}
  BY ContributorsAssumption DEF Contributors
<1>2. PICK r \in ranks : \A q \in ranks : r <= q
  BY <1>1, LeastNatural
<1>3. PICK c \in S : \A d \in S : Rank[c] <= Rank[d]
  BY <1>2
<1> QED
  BY <1>3 DEF First

\* The records the model starts from have their types.
LEMMA Empties ==
    /\ NoContrib \in ContribObject
    /\ EmptyStatus \in TrackerStatus
    /\ NoTrackerObject \in TrackerObject
    /\ NewTrackerObject \in TrackerObject
    /\ IdleWorker \in Worker
    /\ NoTarget \in TargetObject
    /\ PassOK(IdlePass)
<1>1. EmptyStatus \in TrackerStatus
  BY DEF EmptyStatus, TrackerStatus, NoRecords, RecordState
<1>2. NoTarget \in TargetObject
  BY DEF NoTarget, TargetObject
<1> QED
  BY <1>1, <1>2 DEF NoContrib, ContribObject, NoTrackerObject, TrackerObject,
     NewTrackerObject, IdleWorker, Worker, WorkerPC, PassOK, IdlePass, Pass,
     PassPC, Trackers

\* adoptStatus merges two statuses into one.
LEMMA AdoptStatusType ==
    ASSUME NEW dst \in TrackerStatus, NEW src \in TrackerStatus
    PROVE  AdoptStatus(dst, src) \in TrackerStatus
  BY DEF AdoptStatus, TrackerStatus, RecordState

\* The mutations patchStatus is called with turn a status into a status.
LEMMA MutationTypes ==
    ASSUME NEW st \in TrackerStatus, NEW p \in Pass
    PROVE  /\ \A c \in Contributors : WithCreator(st, c) \in TrackerStatus
           /\ WithKnownCreator(st, p) \in TrackerStatus
           /\ WithRecords(st, p) \in TrackerStatus
           /\ WithPhase(st, p) \in TrackerStatus
<1>1. \A c \in Contributors : WithCreator(st, c) \in TrackerStatus
  BY DEF WithCreator, TrackerStatus
<1>2. WithKnownCreator(st, p) \in TrackerStatus
  BY DEF WithKnownCreator, TrackerStatus, Pass
<1>3. WithPhase(st, p) \in TrackerStatus
  BY <1>2 DEF WithPhase, TrackerStatus, Pass
<1>4. /\ NewRecords(p) \in [Contributors -> RecordState]
      /\ NoRecords \in [Contributors -> RecordState]
      /\ NewOwned(p) \in SUBSET ClientSide
  BY DEF NewRecords, NoRecords, NewOwned, RecordState, Pass
<1>5. WithRecords(st, p) \in TrackerStatus
  BY <1>2, <1>4 DEF WithRecords, TrackerStatus
<1> QED
  BY <1>1, <1>2, <1>3, <1>5

\* Where a pass goes at the end of a loop it takes its copy of the tracker
\* along, and a loop it enters is not empty.
LEMMA PassMovesOn ==
    ASSUME NEW p \in Pass
    PROVE  /\ PassOK(AfterApplies(p)) /\ AfterApplies(p).st = p.st
           /\ PassOK(AfterDecision(p)) /\ AfterDecision(p).st = p.st
           /\ PassOK(AfterReleases(p)) /\ AfterReleases(p).st = p.st
           /\ PassOK(ReconcileEmpty(p)) /\ ReconcileEmpty(p).st = p.st
<1>1. PassOK(AfterApplies(p)) /\ AfterApplies(p).st = p.st
  BY DEF AfterApplies, PassOK, Pass, PassPC
<1>2. PassOK(AfterDecision(p)) /\ AfterDecision(p).st = p.st
  BY <1>1 DEF AfterDecision, PassOK, Pass, PassPC
<1>3. PassOK(AfterReleases(p)) /\ AfterReleases(p).st = p.st
  BY <1>2 DEF AfterReleases, PassOK, Pass, PassPC
<1>4. PassOK(ReconcileEmpty(p)) /\ ReconcileEmpty(p).st = p.st
  BY DEF ReconcileEmpty, PassOK, Pass, PassPC
<1> QED
  BY <1>1, <1>2, <1>3, <1>4

LEMMA PassVisits ==
    ASSUME NEW p \in Pass, p.todo # {}
    PROVE  /\ PassOK(Visited(p)) /\ Visited(p).st = p.st
           /\ PassOK(NotFound(p)) /\ NotFound(p).st = p.st
           /\ PassOK(Applied(p)) /\ Applied(p).st = p.st
<1>1. \A q \in Pass : PassOK(Visited(q)) /\ Visited(q).st = q.st
  <2> SUFFICES ASSUME NEW q \in Pass
               PROVE  PassOK(Visited(q)) /\ Visited(q).st = q.st
    OBVIOUS
  <2> DEFINE r == [q EXCEPT !.todo = @ \ {First(q.todo)}, !.seen = NoTarget]
  <2>1. r \in Pass /\ r.st = q.st
    BY Empties DEF Pass
  <2>2. CASE r.todo = {}
    BY <2>1, <2>2, PassMovesOn DEF Visited
  <2>3. CASE r.todo # {}
    BY <2>1, <2>3 DEF Visited, PassOK, Pass, PassPC
  <2> QED
    BY <2>2, <2>3
<1>2. [p EXCEPT !.waiting = @ \cup {First(p.todo)}] \in Pass
  BY FirstIn DEF Pass
<1>3. PassOK(NotFound(p)) /\ NotFound(p).st = p.st
  BY <1>1, <1>2 DEF NotFound, Pass
<1>4. PassOK(Applied(p)) /\ Applied(p).st = p.st
  BY <1>1 DEF Applied, PassOK, Pass, PassPC
<1> QED
  BY <1>1, <1>3, <1>4

LEMMA FinishPromotionStep ==
    ASSUME TypeOK, NEW o \in TrackerObject
    PROVE  FinishPromotion(o) \in {"unfence", "idle", "dropFin", "deleteSelf"}
  BY DEF FinishPromotion, TypeOK, Trackers, TrackerObject

\* A pass begins with the tracker's status as it was read.
LEMMA DispatchOK ==
    ASSUME TypeOK, NEW o \in TrackerObject, NEW L \in SUBSET Contributors
    PROVE  PassOK(Dispatch(o, L)) /\ Dispatch(o, L).st = o.st
<1> DEFINE p == [IdlePass EXCEPT !.st = o.st, !.owned = o.st.owned]
           q == [p EXCEPT !.releasing = Releasing(L), !.active = L \ Releasing(L)]
           d == [p EXCEPT !.releasing = L, !.teardown = TRUE]
           Release(r) == IF r.releasing = {} THEN AfterReleases(r)
                         ELSE [r EXCEPT !.pc = "release", !.todo = r.releasing]
<1>1. p \in Pass /\ p.st = o.st /\ p.pc = "idle"
  BY Empties DEF IdlePass, Pass, PassPC, TrackerObject, TrackerStatus
<1>2. q \in Pass /\ q.st = o.st
  BY <1>1 DEF Pass, Releasing
<1>3. d \in Pass /\ d.st = o.st
  BY <1>1 DEF Pass
<1>4. ASSUME NEW r \in Pass
      PROVE  PassOK(Release(r)) /\ Release(r).st = r.st
  <2>1. CASE r.releasing = {}
    BY <2>1, PassMovesOn
  <2>2. CASE r.releasing # {}
    BY <2>2 DEF PassOK, Pass, PassPC
  <2> QED
    BY <2>1, <2>2
<1> HIDE DEF p, q, d, Release
<1>5. CASE IsFenced(o.st)
  <2>1. Dispatch(o, L) = [p EXCEPT !.pc = FinishPromotion(o)]
    BY <1>5 DEF Dispatch, p
  <2> QED
    BY <2>1, <1>1, FinishPromotionStep DEF PassOK, Pass, PassPC
<1>6. CASE ~IsFenced(o.st) /\ o.deleting
  <2>1. Dispatch(o, L) = Release(d)
    BY <1>6 DEF Dispatch, Release, d, p
  <2> QED
    BY <2>1, <1>3, <1>4
<1>7. CASE ~IsFenced(o.st) /\ ~o.deleting /\ ~o.fin
  <2>1. Dispatch(o, L) = [p EXCEPT !.pc = "addFin"]
    BY <1>7 DEF Dispatch, p
  <2> QED
    BY <2>1, <1>1 DEF PassOK, Pass, PassPC
<1>8. CASE ~IsFenced(o.st) /\ ~o.deleting /\ o.fin /\ L = {}
  <2>1. Dispatch(o, L) = ReconcileEmpty(p)
    BY <1>8 DEF Dispatch, p
  <2> QED
    BY <2>1, <1>1, PassMovesOn
<1>9. CASE ~IsFenced(o.st) /\ ~o.deleting /\ o.fin /\ L # {}
  <2>1. Dispatch(o, L) = Release(q)
    BY <1>9 DEF Dispatch, Release, q, p
  <2> QED
    BY <2>1, <1>2, <1>4
<1> QED
  BY <1>5, <1>6, <1>7, <1>8, <1>9 DEF TrackerObject

-----------------------------------------------------------------------------
(* The shapes of step *)

\* A step of tracker t's pass that leaves the tracker alone.
LEMMA PassContinues ==
    ASSUME Inv, NEW t \in Trackers, NEW p, PassOK(p),
           "pass" \in freshT[t] => p.st = pass[t].st,
           Continue(t, p), target' \in TargetObject,
           UNCHANGED <<contrib, trk, freshC, cacheVars, worker>>
    PROVE  Inv'
<1> USE Empties DEF Inv, Continue, cacheVars
<1>1. TypeOK'
  BY DEF TypeOK, PassOK
<1>2. FreshCopiesAgree'
  BY DEF FreshCopiesAgree, TypeOK, IdlePass
<1>3. ReconcilesEquipped'
  BY DEF ReconcilesEquipped, TypeOK, PassOK, IdlePass
<1> QED
  BY <1>1, <1>2, <1>3

\* An Update of tracker t from its pass's copy.
LEMMA PassUpdates ==
    ASSUME Inv, NEW t \in Trackers, NEW o \in TrackerObject, NEW q, PassOK(q),
           UpdateTracker(t, o, q)
    PROVE  Inv'
<1> USE Empties DEF Inv, UpdateTracker, PassWrite, StillFresh
<1>1. TypeOK'
  BY DEF TypeOK, PassOK
<1>2. FreshCopiesAgree'
  BY DEF FreshCopiesAgree, TypeOK, IdlePass
<1>3. ReconcilesEquipped'
  BY DEF ReconcilesEquipped, TypeOK, PassOK, IdlePass
<1> QED
  BY <1>1, <1>2, <1>3

\* A status write of tracker t by its pass.
LEMMA PassPatches ==
    ASSUME Inv, NEW t \in Trackers, NEW own \in TrackerStatus,
           NEW reread \in TrackerStatus, NEW stays \in BOOLEAN,
           stays => pass[t].todo # {},
           PatchStatus(t, pass[t], own, reread, stays)
    PROVE  Inv'
<1> DEFINE p == pass[t]
           q == Retried(t, p, own, reread)
           r == [p EXCEPT !.st = own]
<1> USE Empties DEF Inv
<1>1. p \in Pass /\ trk[t] \in TrackerObject
  BY DEF TypeOK
<1>2. /\ q \in Pass /\ q.st \in TrackerStatus /\ q.todo = p.todo
      /\ r \in Pass /\ r.st = own /\ r.todo = p.todo
  BY <1>1 DEF Retried, Pass
<1>3. stays => /\ PassOK(Visited(q)) /\ Visited(q).st = q.st
               /\ PassOK(Visited(r)) /\ Visited(r).st = r.st
  BY <1>2, PassVisits
<1>4. [trk[t] EXCEPT !.st = q.st] \in TrackerObject
  BY <1>1, <1>2 DEF TrackerObject
<1> HIDE DEF q, r
<1>5. TypeOK'
  BY <1>3, <1>4 DEF TypeOK, PatchStatus, PassWrite, StillFresh, PassOK, q, r
<1>6. FreshCopiesAgree'
  <2> DEFINE missing == ~trk[t].exists
                \/ ("pass" \notin freshT[t] /\ ~trkCache[t].exists)
             o == [trk[t] EXCEPT !.st = q.st]
  <2>1. UNCHANGED trkCache
    BY DEF PatchStatus
  <2>2. CASE missing
    <3>1. "pass" \notin freshT[t]
      BY <2>2 DEF FreshCopiesAgree
    <3>2. UNCHANGED trk
      BY <2>2 DEF PatchStatus
    <3>3. freshT' \in {freshT, [freshT EXCEPT ![t] = @ \ {"pass"}]}
      BY <2>2 DEF PatchStatus
    <3>4. \A s \in Trackers \ {t} : pass'[s] = pass[s]
      BY <2>2 DEF PatchStatus, TypeOK
    <3> QED
      BY <2>1, <3>1, <3>2, <3>3, <3>4 DEF FreshCopiesAgree, TypeOK
  <2>3. CASE ~missing
    <3>1. PassWrite(t, o, stays)
      BY <2>3 DEF PatchStatus, q
    <3>2. pass' = [pass EXCEPT ![t] = IF stays THEN Visited(q) ELSE IdlePass]
      BY <2>3 DEF PatchStatus, q
    <3>3. o.exists /\ o.st = q.st
      BY <1>1, <2>3 DEF TrackerObject
    <3> HIDE DEF o
    <3>4. /\ trk' = [trk EXCEPT ![t] = o]
          /\ "cache" \in freshT'[t] => o = trk[t] /\ "cache" \in freshT[t]
          /\ "pass" \in freshT'[t] => stays
          /\ \A s \in Trackers \ {t} : freshT'[s] = freshT[s]
      BY <3>1 DEF PassWrite, StillFresh, TypeOK
    <3> QED
      BY <1>3, <2>1, <3>2, <3>3, <3>4 DEF FreshCopiesAgree, TypeOK
  <2> QED
    BY <2>2, <2>3
<1>7. ReconcilesEquipped'
  BY <1>3 DEF ReconcilesEquipped, TypeOK, PatchStatus, PassOK, IdlePass, q, r
<1> QED
  BY <1>5, <1>6, <1>7

\* A step of kind k's worker that writes no object.
LEMMA WorkerContinues ==
    ASSUME Inv, NEW k \in Kinds, NEW w \in Worker,
           w.pc # "idle" => w.c \in Contributors,
           w.pc = "create" => w.ref \in Trackers,
           worker' = [worker EXCEPT ![k] = w],
           freshC' \in [Contributors -> SUBSET {"cache", "worker"}],
           UNCHANGED <<contrib, trk, freshT, cacheVars, target, pass>>
    PROVE  Inv'
  BY DEF Inv, TypeOK, FreshCopiesAgree, ReconcilesEquipped, cacheVars

\* A step of kind k's worker that writes tracker t.
LEMMA WorkerWrites ==
    ASSUME Inv, NEW k \in Kinds, NEW w \in Worker,
           w.pc # "idle" => w.c \in Contributors,
           w.pc = "create" => w.ref \in Trackers,
           worker' = [worker EXCEPT ![k] = w],
           NEW t \in Trackers, NEW o \in TrackerObject, WriteTracker(t, o),
           UNCHANGED <<contrib, freshC, cacheVars, target, pass>>
    PROVE  Inv'
  BY DEF Inv, TypeOK, FreshCopiesAgree, ReconcilesEquipped, cacheVars,
     WriteTracker, StillFresh

\* An Update of the contributor from kind k's worker's copy.
LEMMA WorkerUpdates ==
    ASSUME Inv, NEW k \in Kinds, worker[k].pc # "idle",
           NEW o \in ContribObject, UpdateContributor(k, o)
    PROVE  Inv'
<1> USE Empties DEF Inv, UpdateContributor, WriteContrib
<1>1. worker[k].c \in Contributors
  BY DEF ReconcilesEquipped
<1>2. TypeOK'
  BY <1>1 DEF TypeOK
<1>3. FreshCopiesAgree'
  BY DEF FreshCopiesAgree
<1>4. ReconcilesEquipped'
  BY DEF ReconcilesEquipped, IdleWorker, TypeOK
<1> QED
  BY <1>2, <1>3, <1>4

-----------------------------------------------------------------------------
(* The contributor controller *)

LEMMA StartReconcileInv ==
    ASSUME Inv, NEW c \in Contributors, StartReconcile(c)
    PROVE  Inv'
<1> DEFINE k == KindOf(c)
           w == [IdleWorker EXCEPT !.pc = FirstStep(c, contribCache[c]), !.c = c]
<1>1. k \in Kinds
  BY DEF KindOf, Kinds
<1>2. /\ contribCache[c] \in ContribObject
      /\ contribCache[c].phase \in {"live", "terminating"}
  BY DEF Inv, TypeOK, StartReconcile, Exists
<1>3. FirstStep(c, contribCache[c]) \in
        {"idle", "dropFin", "setInvalid", "addFin", "fence", "lookup"}
  BY <1>2 DEF FirstStep, ContribObject, Contributors
<1>4. w \in Worker /\ w.c = c /\ w.pc # "create"
  BY <1>3, Empties DEF IdleWorker, Worker, WorkerPC
<1>5. freshC' \in [Contributors -> SUBSET {"cache", "worker"}]
  BY DEF Inv, TypeOK, StartReconcile
<1>6. worker' = [worker EXCEPT ![k] = w]
  BY DEF StartReconcile
<1> HIDE DEF k, w
<1> QED
  BY <1>1, <1>4, <1>5, <1>6, WorkerContinues DEF StartReconcile

LEMMA ContributorStepInv ==
    ASSUME Inv, NEW k \in Kinds, ContributorStep(k)
    PROVE  Inv'
<1> DEFINE w == worker[k]
<1>1. w \in Worker
  BY DEF Inv, TypeOK
<1>2. w.pc # "idle" => w.c \in Contributors /\ contrib[w.c] \in ContribObject
  BY DEF Inv, ReconcilesEquipped, TypeOK
<1>3. CASE SetInvalid(k)
  <2>1. [contrib[w.c] EXCEPT !.ready = FALSE] \in ContribObject
    BY <1>2, <1>3 DEF SetInvalid, ContribObject
  <2> QED
    BY <1>3, <2>1, WorkerUpdates DEF SetInvalid
<1>4. CASE AddFinalizer(k)
  <2>1. [contrib[w.c] EXCEPT !.fin = TRUE] \in ContribObject
    BY <1>2, <1>4 DEF AddFinalizer, ContribObject
  <2> QED
    BY <1>4, <2>1, WorkerUpdates DEF AddFinalizer
<1>5. CASE DropFinalizer(k)
  <2>1. [contrib[w.c] EXCEPT !.fin = FALSE, !.phase = "gone",
                             !.ref = NoTracker] \in ContribObject
    BY <1>2, <1>5 DEF DropFinalizer, ContribObject
  <2> QED
    BY <1>5, <2>1, WorkerUpdates DEF DropFinalizer
<1>6. CASE CreateTrackerFor(k)
  <2> DEFINE v == [w EXCEPT !.pc = "sync"]
  <2>1. v \in Worker /\ v.pc = "sync" /\ v.c \in Contributors
    BY <1>1, <1>2, <1>6 DEF CreateTrackerFor, Worker, WorkerPC
  <2>2. worker' = [worker EXCEPT ![k] = v]
    BY <1>6 DEF CreateTrackerFor, Inv, TypeOK
  <2>3. w.ref \in Trackers
    BY <1>6 DEF CreateTrackerFor, Inv, ReconcilesEquipped
  <2> HIDE DEF v
  <2>4. CASE trk[w.ref].exists
    BY <1>6, <2>1, <2>2, <2>4, WorkerContinues
       DEF CreateTrackerFor, CreateTracker, cacheVars, Inv, TypeOK
  <2>5. CASE ~trk[w.ref].exists
    <3>1. WriteTracker(w.ref, NewTrackerObject)
      BY <1>6, <2>5 DEF CreateTrackerFor, CreateTracker
    <3> QED
      BY <1>6, <2>1, <2>2, <2>3, <3>1, Empties, WorkerWrites
         DEF CreateTrackerFor, cacheVars
  <2> QED
    BY <2>4, <2>5
<1>7. CASE SyncStatus(k)
  <2> DEFINE ready == trkCache[w.ref].exists
                      /\ trkCache[w.ref].st.recs[w.c] = "applied"
             o == [contrib[w.c] EXCEPT !.ref = w.ref, !.ready = ready]
  <2>1. ready \in BOOLEAN
    OBVIOUS
  <2> HIDE DEF ready
  <2>2. o \in ContribObject
    BY <1>1, <1>2, <1>7, <2>1 DEF SyncStatus, ContribObject, Worker
  <2> QED
    BY <1>7, <2>2, WorkerUpdates DEF SyncStatus, ready
<1> QED
  BY <1>3, <1>4, <1>5, <1>6, <1>7 DEF ContributorStep

LEMMA LookupInv ==
    ASSUME Inv, LookupClusterTracker \/ LookupOwnTracker
    PROVE  Inv'
<1> DEFINE w == worker["RP"] v == worker'["RP"]
<1>1. w \in Worker /\ w.c \in Contributors /\ "RP" \in Kinds
  BY DEF Inv, TypeOK, ReconcilesEquipped, Kinds, LookupClusterTracker,
     LookupOwnTracker
<1>2. v \in Worker /\ v.c = w.c /\ (v.pc = "create" => v.ref \in Trackers)
  <2>1. CASE LookupClusterTracker
    BY <1>1, <2>1 DEF LookupClusterTracker, Worker, WorkerPC, Trackers, Inv, TypeOK
  <2>2. CASE LookupOwnTracker
    BY <1>1, <2>2 DEF LookupOwnTracker, Worker, WorkerPC, Trackers, Inv, TypeOK
  <2> QED
    BY <2>1, <2>2
<1>3. worker' = [worker EXCEPT !["RP"] = v]
  BY <1>1 DEF LookupClusterTracker, LookupOwnTracker, Inv, TypeOK
<1>4. UNCHANGED <<contrib, trk, freshC, freshT, cacheVars, target, pass>>
  BY DEF LookupClusterTracker, LookupOwnTracker, storeVars
<1> HIDE DEF v
<1> QED
  BY <1>1, <1>2, <1>3, <1>4, WorkerContinues DEF Inv, TypeOK

LEMMA AbortWorkerInv ==
    ASSUME Inv, NEW k \in Kinds, AbortWorker(k)
    PROVE  Inv'
<1>1. freshC' \in [Contributors -> SUBSET {"cache", "worker"}]
  BY DEF Inv, TypeOK, AbortWorker, EndWorker
<1> QED
  BY <1>1, Empties, WorkerContinues DEF AbortWorker, EndWorker, IdleWorker

-----------------------------------------------------------------------------
(* Promotion *)

LEMMA EnsureClusterTrackerOK ==
    ASSUME Inv, NEW w \in Worker, w.c \in Contributors
    PROVE  LET v == EnsureClusterTracker(w) IN
           v \in Worker /\ v.c = w.c /\ v.ref \in Trackers
  BY Empties DEF EnsureClusterTracker, Worker, WorkerPC, Trackers

LEMMA PromotionStepInv ==
    ASSUME Inv, PromotionStep
    PROVE  Inv'
<1> DEFINE w == worker["CRP"] sr == trk["SR"] csr == trk["CSR"]
<1>1. /\ w \in Worker /\ w.c \in Contributors /\ "CRP" \in Kinds
      /\ sr \in TrackerObject /\ csr \in TrackerObject
      /\ "SR" \in Trackers /\ "CSR" \in Trackers
  BY DEF Inv, TypeOK, ReconcilesEquipped, Kinds, Trackers, PromotionStep,
     FenceTracker, ReadPredecessor, CreateSuccessor, AdoptPredecessor, FlagAdopted
<1> DEFINE e == EnsureClusterTracker(w)
<1>2. e \in Worker /\ e.c = w.c /\ e.ref \in Trackers
  BY <1>1, EnsureClusterTrackerOK
<1> HIDE DEF e
<1>3. ASSUME NEW v \in Worker, v.c = w.c, v.pc = "create" => v.ref \in Trackers,
             worker' = [worker EXCEPT !["CRP"] = v],
             UNCHANGED <<trk, freshT>>,
             UNCHANGED <<contrib, contribCache, trkCache, freshC, target, pass>>
      PROVE  Inv'
  BY <1>1, <1>3, WorkerContinues DEF Inv, TypeOK, cacheVars
<1>4. ASSUME NEW v \in Worker, v.c = w.c, v.pc = "create" => v.ref \in Trackers,
             worker' = [worker EXCEPT !["CRP"] = v],
             NEW t \in Trackers, NEW o \in TrackerObject, WriteTracker(t, o),
             UNCHANGED <<contrib, contribCache, trkCache, freshC, target, pass>>
      PROVE  Inv'
  BY <1>1, <1>4, WorkerWrites DEF cacheVars
<1>5. CASE FenceTracker
  <2> DEFINE v == [w EXCEPT !.pc = "readOld"]
             o == [sr EXCEPT !.st.fence = "fenced", !.st.releasing = FALSE]
  <2>1. v \in Worker /\ v.c = w.c /\ v.pc = "readOld"
    BY <1>1 DEF Worker, WorkerPC
  <2>2. o \in TrackerObject
    BY <1>1 DEF TrackerObject, TrackerStatus
  <2>3. CASE ~sr.exists
    BY <1>2, <1>3, <1>5, <2>3 DEF FenceTracker, e
  <2>4. CASE sr.exists
    <3>1. worker' = [worker EXCEPT !["CRP"] = v]
      BY <1>1, <1>5, <2>4 DEF FenceTracker, Inv, TypeOK
    <3> HIDE DEF v, o
    <3>2. CASE IsFenced(sr.st)
      BY <1>3, <1>5, <2>1, <2>4, <3>1, <3>2 DEF FenceTracker
    <3>3. CASE ~IsFenced(sr.st)
      <4>1. WriteTracker("SR", o)
        BY <1>5, <2>4, <3>3 DEF FenceTracker, o
      <4> QED
        BY <1>1, <1>4, <1>5, <2>1, <2>2, <3>1, <4>1 DEF FenceTracker
    <3> QED
      BY <3>2, <3>3
  <2> QED
    BY <2>3, <2>4
<1>6. CASE ReadPredecessor
  <2> DEFINE old == [sr.st EXCEPT !.fence = "none", !.releasing = FALSE]
             pc == IF sr.st.fence = "adopted" THEN "flag"
                   ELSE IF trkCache["CSR"].exists THEN "adopt"
                   ELSE "createSuccessor"
             v == [w EXCEPT !.pc = pc, !.old = old]
  <2>1. old \in TrackerStatus
    BY <1>1 DEF TrackerObject, TrackerStatus
  <2>2. pc \in WorkerPC \ {"create"}
    BY DEF WorkerPC
  <2>3. worker' = [worker EXCEPT !["CRP"] = IF ~sr.exists THEN e ELSE v]
    BY <1>6 DEF ReadPredecessor, e
  <2> HIDE DEF old, pc
  <2>4. v \in Worker /\ v.c = w.c /\ v.pc # "create"
    BY <1>1, <2>1, <2>2 DEF Worker
  <2> HIDE DEF v
  <2>5. UNCHANGED <<contrib, trk, freshC, freshT, contribCache, trkCache,
                    target, pass>>
    BY <1>6 DEF ReadPredecessor, storeVars, cacheVars
  <2> QED
    BY <1>2, <1>3, <2>3, <2>4, <2>5
<1>7. CASE CreateSuccessor
  <2> DEFINE v == [w EXCEPT !.pc = "adopt"]
  <2>1. v \in Worker /\ v.c = w.c /\ v.pc = "adopt"
    BY <1>1 DEF Worker, WorkerPC
  <2>2. worker' = [worker EXCEPT !["CRP"] = v]
    BY <1>1, <1>7 DEF CreateSuccessor, Inv, TypeOK
  <2> HIDE DEF v
  <2>3. CASE csr.exists
    BY <1>3, <1>7, <2>1, <2>2, <2>3 DEF CreateSuccessor, CreateTracker
  <2>4. CASE ~csr.exists
    BY <1>1, <1>4, <1>7, <2>1, <2>2, <2>4, Empties DEF CreateSuccessor, CreateTracker
  <2> QED
    BY <2>3, <2>4
<1>8. CASE AdoptPredecessor
  <2> DEFINE v == [w EXCEPT !.pc = "flag"]
             o == [csr EXCEPT !.st = AdoptStatus(csr.st, w.old)]
  <2>1. v \in Worker /\ v.c = w.c /\ v.pc = "flag"
    BY <1>1 DEF Worker, WorkerPC
  <2>2. o \in TrackerObject
    BY <1>1, AdoptStatusType DEF TrackerObject, Worker
  <2>3. CASE csr.exists
    <3>1. worker' = [worker EXCEPT !["CRP"] = v]
      BY <1>1, <1>8, <2>3 DEF AdoptPredecessor, Inv, TypeOK
    <3>2. WriteTracker("CSR", o)
      BY <1>8, <2>3 DEF AdoptPredecessor
    <3> HIDE DEF v, o
    <3> QED
      BY <1>1, <1>4, <1>8, <2>1, <2>2, <2>3, <3>1, <3>2 DEF AdoptPredecessor
  <2>4. CASE ~csr.exists
    <3>1. freshC' \in [Contributors -> SUBSET {"cache", "worker"}]
      BY <1>8, <2>4 DEF Inv, TypeOK, AdoptPredecessor, EndWorker
    <3> QED
      BY <1>1, <1>8, <2>4, <3>1, Empties, WorkerContinues
         DEF AdoptPredecessor, EndWorker, IdleWorker, cacheVars
  <2> QED
    BY <2>3, <2>4
<1>9. CASE FlagAdopted
  <2> DEFINE o == [sr EXCEPT !.st.fence = "adopted"]
  <2>1. o \in TrackerObject
    BY <1>1 DEF TrackerObject, TrackerStatus
  <2>2. worker' = [worker EXCEPT !["CRP"] = e]
    BY <1>1, <1>9 DEF FlagAdopted, Inv, TypeOK, e
  <2>3. CASE sr.exists /\ sr.st.fence = "fenced"
    <3>1. WriteTracker("SR", o)
      BY <1>9, <2>3 DEF FlagAdopted
    <3> HIDE DEF o
    <3> QED
      BY <1>1, <1>2, <1>4, <1>9, <2>1, <2>2, <3>1 DEF FlagAdopted
  <2>4. CASE ~(sr.exists /\ sr.st.fence = "fenced")
    BY <1>2, <1>3, <1>9, <2>2, <2>4 DEF FlagAdopted
  <2> QED
    BY <2>3, <2>4
<1> QED
  BY <1>5, <1>6, <1>7, <1>8, <1>9 DEF PromotionStep

-----------------------------------------------------------------------------
(* The tracker controller *)

LEMMA StartPassInv ==
    ASSUME Inv, NEW t \in Trackers, StartPass(t)
    PROVE  Inv'
<1> DEFINE p == Dispatch(trkCache[t], ListContributors(t))
<1>1. trkCache[t] \in TrackerObject /\ ListContributors(t) \in SUBSET Contributors
  BY DEF Inv, TypeOK, ListContributors, Contributors
<1>2. PassOK(p) /\ p.st = trkCache[t].st
  BY <1>1, DispatchOK DEF Inv
<1>3. /\ trkCache[t].exists
      /\ pass' = [pass EXCEPT ![t] = p]
      /\ freshT' = [freshT EXCEPT ![t] =
            IF "cache" \in @ THEN @ \cup {"pass"} ELSE @ \ {"pass"}]
      /\ UNCHANGED <<contrib, trk, freshC, contribCache, trkCache, target, worker>>
  BY DEF StartPass, cacheVars
<1> HIDE DEF p
<1>4. TypeOK'
  BY <1>2, <1>3 DEF Inv, TypeOK, PassOK
<1>5. FreshCopiesAgree'
  BY <1>2, <1>3 DEF Inv, TypeOK, FreshCopiesAgree
<1>6. ReconcilesEquipped'
  BY <1>2, <1>3 DEF Inv, TypeOK, ReconcilesEquipped, PassOK
<1> QED
  BY <1>4, <1>5, <1>6 DEF Inv

\* What the operator may make of the target.
LEMMA TargetTypes ==
    ASSUME Inv, NEW c \in Contributors
    PROVE  /\ \A p \in Pass : Reverted(c, p) \in TargetObject
           /\ NoTarget \in TargetObject
           /\ [target EXCEPT !.fields = @ \cup {c}] \in TargetObject
           /\ NewTarget({c}, c) \in TargetObject
           /\ NewTarget({}, Foreign) \in TargetObject
  BY DEF Inv, TypeOK, Reverted, NoTarget, NewTarget, TargetObject, Pass,
     Contributors

\* A pass that ends, whatever it did to the target, gives up its copy.
LEMMA PassEnds ==
    ASSUME Inv, NEW t \in Trackers, Continue(t, IdlePass),
           target' \in TargetObject,
           UNCHANGED <<contrib, trk, freshC, cacheVars, worker>>
    PROVE  Inv'
<1>1. /\ pass' = [pass EXCEPT ![t] = IdlePass]
      /\ freshT' = [freshT EXCEPT ![t] = @ \ {"pass"}]
      /\ UNCHANGED <<contrib, trk, freshC, contribCache, trkCache, worker>>
  BY DEF Continue, IdlePass, cacheVars
<1>2. IdlePass \in Pass /\ IdlePass.pc = "idle"
  BY Empties DEF PassOK, IdlePass
<1>3. TypeOK'
  BY <1>1, <1>2 DEF Inv, TypeOK
<1>4. FreshCopiesAgree'
  BY <1>1 DEF Inv, TypeOK, FreshCopiesAgree
<1>5. ReconcilesEquipped'
  BY <1>1, <1>2 DEF Inv, TypeOK, ReconcilesEquipped
<1> QED
  BY <1>3, <1>4, <1>5 DEF Inv

LEMMA PassStepInv ==
    ASSUME Inv, NEW t \in Trackers, PassStep(t)
    PROVE  Inv'
<1> DEFINE p == pass[t] c == First(p.todo)
<1>1. p \in Pass /\ PassOK(p) /\ trk[t] \in TrackerObject
      /\ trkCache[t] \in TrackerObject /\ target \in TargetObject
  BY DEF Inv, TypeOK, ReconcilesEquipped, PassOK
<1>2. ASSUME p.todo # {} PROVE c \in Contributors
  BY <1>1, <1>2, FirstIn DEF Pass
<1>3. PassOK(IdlePass)
  BY Empties
<1>4. CASE ReleaseContributor(t)
  <2> DEFINE q == [p EXCEPT !.todo = @ \ {c}]
             r == IF q.todo = {} THEN AfterReleases(q) ELSE q
  <2>1. p.pc = "release" /\ c \in Contributors
    BY <1>1, <1>2, <1>4 DEF ReleaseContributor, PassOK
  <2>2. q \in Pass /\ q.st = p.st /\ q.pc = "release"
    BY <1>1, <2>1 DEF Pass
  <2>3. PassOK(r) /\ r.st = p.st
    BY <2>2, PassMovesOn DEF PassOK
  <2>4. target' \in TargetObject
    BY <1>1, <1>4, <2>1, TargetTypes DEF ReleaseContributor
  <2>5. IF c \notin Orphaners /\ RevertFails(c) THEN Continue(t, IdlePass)
        ELSE Continue(t, r)
    BY <1>4 DEF ReleaseContributor
  <2>6. UNCHANGED <<contrib, trk, freshC, cacheVars, worker>>
    BY <1>4 DEF ReleaseContributor
  <2> HIDE DEF q, r, c
  <2>7. CASE Continue(t, r)
    BY <2>3, <2>4, <2>6, <2>7, PassContinues
  <2>8. CASE Continue(t, IdlePass)
    BY <2>4, <2>6, <2>8, PassEnds
  <2> QED
    BY <2>5, <2>7, <2>8
<1>5. CASE DeleteTarget(t)
  <2>1. PassOK(AfterDecision(p)) /\ AfterDecision(p).st = p.st
    BY <1>1, PassMovesOn
  <2>2. NoTarget \in TargetObject
    BY DEF NoTarget, TargetObject
  <2> QED
    BY <1>5, <2>1, <2>2, PassContinues DEF DeleteTarget
<1>6. CASE CheckTarget(t)
  <2> DEFINE q == [p EXCEPT !.pc = "apply", !.seen = Seen(c)]
             r == IF ~target.exists /\ c \notin Creators THEN NotFound(p) ELSE q
  <2>1. p.todo # {}
    BY <1>1, <1>6 DEF CheckTarget, PassOK
  <2>2. PassOK(q) /\ q.st = p.st
    <3>1. Seen(c) \in TargetObject
      BY DEF Seen, NoTarget, TargetObject, Inv, TypeOK
    <3> QED
      BY <1>1, <2>1, <3>1 DEF Pass, PassPC, PassOK
  <2>3. PassOK(r) /\ r.st = p.st
    BY <1>1, <2>1, <2>2, PassVisits
  <2>4. Continue(t, r)
    BY <1>6 DEF CheckTarget
  <2> HIDE DEF r
  <2> QED
    BY <1>1, <1>6, <2>3, <2>4, PassContinues DEF CheckTarget
<1>7. CASE ApplyContribution(t)
  <2>1. p.todo # {} /\ c \in Contributors
    BY <1>1, <1>2, <1>7 DEF ApplyContribution, PassOK
  <2>2. /\ PassOK(Applied(p)) /\ Applied(p).st = p.st
        /\ PassOK(NotFound(p)) /\ NotFound(p).st = p.st
    BY <1>1, <2>1, PassVisits
  <2>3. target' \in TargetObject
    <3>1. \/ target' = target
          \/ target' = NewTarget({c}, c)
          \/ target' = [target EXCEPT !.fields = @ \cup {c}]
      BY <1>7 DEF ApplyContribution, ServerSideApply, ClientSideApply
    <3> QED
      BY <2>1, <3>1, TargetTypes DEF Inv, TypeOK
  <2>4. \/ Continue(t, Applied(p))
        \/ Continue(t, NotFound(p))
        \/ Continue(t, IdlePass)
    BY <1>7 DEF ApplyContribution, ServerSideApply, ClientSideApply
  <2>5. UNCHANGED <<contrib, trk, freshC, cacheVars, worker>>
    BY <1>7 DEF ApplyContribution
  <2>6. CASE Continue(t, IdlePass)
    BY <2>3, <2>5, <2>6, PassEnds
  <2> QED
    BY <2>2, <2>3, <2>4, <2>5, <2>6, PassContinues
<1>8. CASE RecordProvenance(t)
  <2>1. p.todo # {} /\ c \in Contributors
    BY <1>1, <1>2, <1>8 DEF RecordProvenance, PassOK
  <2>2. /\ WithCreator(p.st, c) \in TrackerStatus
        /\ WithCreator(trkCache[t].st, c) \in TrackerStatus
    BY <1>1, <2>1, MutationTypes DEF Pass, TrackerObject
  <2> QED
    BY <1>8, <2>1, <2>2, PassPatches DEF RecordProvenance
<1>9. CASE WriteStatus(t)
  <2>1. /\ WithRecords(p.st, p) \in TrackerStatus
        /\ WithRecords(trkCache[t].st, p) \in TrackerStatus
    BY <1>1, MutationTypes DEF Pass, TrackerObject
  <2> QED
    BY <1>9, <2>1, PassPatches DEF WriteStatus
<1>10. CASE AddTrackerFinalizer(t)
  <2>1. [trk[t] EXCEPT !.fin = TRUE] \in TrackerObject
    BY <1>1 DEF TrackerObject
  <2> QED
    BY <1>3, <1>10, <2>1, PassUpdates DEF AddTrackerFinalizer
<1>11. CASE DropTrackerFinalizer(t)
  <2> DEFINE q == IF p.teardown THEN IdlePass
                  ELSE [IdlePass EXCEPT !.pc = "deleteSelf"]
  <2>1. WithoutFinalizer(trk[t]) \in TrackerObject
    BY <1>1, Empties DEF WithoutFinalizer, TrackerObject
  <2>2. PassOK(q)
    BY <1>3 DEF PassOK, Pass, PassPC
  <2>3. UpdateTracker(t, WithoutFinalizer(trk[t]), q)
    BY <1>11 DEF DropTrackerFinalizer
  <2> HIDE DEF q
  <2> QED
    BY <2>1, <2>2, <2>3, PassUpdates
<1>12. CASE DeleteSelf(t)
  <2> DEFINE o == IF trk[t].exists THEN Deleted(trk[t]) ELSE trk[t]
  <2>1. o \in TrackerObject
    BY <1>1, Empties DEF Deleted, TrackerObject
  <2>2. /\ PassWrite(t, o, FALSE)
        /\ pass' = [pass EXCEPT ![t] = IdlePass]
        /\ UNCHANGED <<contrib, contribCache, trkCache, freshC, target, worker>>
    BY <1>12 DEF DeleteSelf
  <2> HIDE DEF o
  <2>3. TypeOK'
    BY <1>3, <2>1, <2>2 DEF Inv, TypeOK, PassWrite, StillFresh, PassOK
  <2>4. FreshCopiesAgree'
    BY <2>2 DEF Inv, TypeOK, FreshCopiesAgree, PassWrite, StillFresh
  <2>5. ReconcilesEquipped'
    BY <2>2 DEF Inv, TypeOK, ReconcilesEquipped, IdlePass
  <2> QED
    BY <2>3, <2>4, <2>5 DEF Inv
<1>13. CASE Unfence(t)
  <2>1. [trk[t] EXCEPT !.st = [p.st EXCEPT !.fence = "none",
                                           !.releasing = FALSE]] \in TrackerObject
    BY <1>1 DEF TrackerObject, TrackerStatus, Pass
  <2> QED
    BY <1>3, <1>13, <2>1, PassUpdates DEF Unfence
<1> QED
  BY <1>4, <1>5, <1>6, <1>7, <1>8, <1>9, <1>10, <1>11, <1>12, <1>13 DEF PassStep

LEMMA AbortPassInv ==
    ASSUME Inv, NEW t \in Trackers, AbortPass(t) \/ ReportFailure(t)
    PROVE  Inv'
<1>1. CASE AbortPass(t)
  BY <1>1, Empties DEF AbortPass, Inv, TypeOK, FreshCopiesAgree,
     ReconcilesEquipped, PassOK, IdlePass, cacheVars
<1>2. CASE ReportFailure(t)
  <2> DEFINE p == pass[t]
  <2>1. p \in Pass /\ trkCache[t] \in TrackerObject
    BY DEF Inv, TypeOK
  <2>2. /\ WithPhase(p.st, p) \in TrackerStatus
        /\ WithPhase(trkCache[t].st, p) \in TrackerStatus
    BY <2>1, MutationTypes DEF Pass, TrackerObject
  <2> QED
    BY <1>2, <2>2, PassPatches DEF ReportFailure
<1> QED
  BY <1>1, <1>2

-----------------------------------------------------------------------------
(* The environment *)

LEMMA SyncInv ==
    ASSUME Inv,
           \/ \E c \in Contributors : SyncContributor(c)
           \/ \E t \in Trackers : SyncTracker(t)
    PROVE  Inv'
  BY DEF Inv, TypeOK, FreshCopiesAgree, ReconcilesEquipped, SyncContributor,
     SyncTracker

LEMMA UserInv ==
    ASSUME Inv, UserStep
    PROVE  Inv'
<1> PICK c \in Contributors : CreateContributor(c) \/ DeleteContributor(c)
  BY DEF UserStep
<1>1. PICK o \in ContribObject : WriteContrib(c, o)
  <2>1. contrib[c] \in ContribObject
    BY DEF Inv, TypeOK
  <2>2. /\ [NoContrib EXCEPT !.phase = "live"] \in ContribObject
        /\ [contrib[c] EXCEPT !.phase = "terminating"] \in ContribObject
        /\ [contrib[c] EXCEPT !.phase = "gone", !.ref = NoTracker]
             \in ContribObject
    BY <2>1, Empties DEF ContribObject, NoContrib
  <2> QED
    BY <2>2 DEF CreateContributor, DeleteContributor
<1>2. UNCHANGED <<contribCache, trk, trkCache, freshT, target, worker, pass>>
  BY DEF CreateContributor, DeleteContributor, cacheVars
<1> QED
  BY <1>1, <1>2 DEF WriteContrib, Inv, TypeOK, FreshCopiesAgree,
     ReconcilesEquipped

LEMMA OutOfBandInv ==
    ASSUME Inv, OutOfBandStep
    PROVE  Inv'
<1>1. CASE ChangeTarget
  <2>1. target' \in TargetObject
    BY <1>1 DEF ChangeTarget, NoTarget, NewTarget, TargetObject, Foreign
  <2> QED
    BY <1>1, <2>1 DEF ChangeTarget, storeVars, cacheVars, Inv, TypeOK,
       FreshCopiesAgree, ReconcilesEquipped
<1>2. ASSUME NEW t \in Trackers, UserDeletesTracker(t) PROVE Inv'
  <2> DEFINE o == Deleted(trk[t])
  <2>1. o \in TrackerObject
    BY Empties DEF Inv, TypeOK, Deleted, TrackerObject
  <2>2. WriteTracker(t, o) /\ UNCHANGED <<contrib, freshC, contribCache,
                                          trkCache, target, worker, pass>>
    BY <1>2 DEF UserDeletesTracker, cacheVars
  <2> HIDE DEF o
  <2> QED
    BY <2>1, <2>2 DEF WriteTracker, StillFresh, Inv, TypeOK, FreshCopiesAgree,
       ReconcilesEquipped
<1> QED
  BY <1>1, <1>2 DEF OutOfBandStep

-----------------------------------------------------------------------------
(* The theorems *)

LEMMA InitInv == Init => Inv
<1> SUFFICES ASSUME Init PROVE Inv
  OBVIOUS
<1>1. target \in TargetObject
  <2>1. NoTarget \in TargetObject /\ NewTarget({}, Foreign) \in TargetObject
    BY DEF NoTarget, NewTarget, TargetObject, Foreign
  <2>2. target = NoTarget \/ target = NewTarget({}, Foreign)
    BY DEF Init
  <2> QED
    BY <2>1, <2>2
<1> QED
  BY <1>1, Empties DEF Init, Inv, TypeOK, FreshCopiesAgree, ReconcilesEquipped,
     PassOK, IdlePass, IdleWorker

LEMMA NextInv == Inv /\ [Next]_allVars => Inv'
<1> SUFFICES ASSUME Inv, [Next]_allVars PROVE Inv'
  OBVIOUS
<1>1. CASE UNCHANGED allVars
  BY <1>1 DEF allVars, vars, Inv, TypeOK, FreshCopiesAgree, ReconcilesEquipped
<1>2. CASE SyncStep
  BY <1>2, SyncInv DEF SyncStep
<1>3. CASE UserStep
  BY <1>3, UserInv
<1>4. CASE OutOfBandStep
  BY <1>4, OutOfBandInv
<1>5. CASE AbortStep
  BY <1>5, AbortWorkerInv, AbortPassInv DEF AbortStep
<1>6. ASSUME NEW c \in Contributors, StartWorker(c) PROVE Inv'
  BY <1>6, StartReconcileInv DEF StartWorker
<1>7. ASSUME NEW k \in Kinds, WorkerStep(k) PROVE Inv'
  BY <1>7, ContributorStepInv, LookupInv, PromotionStepInv DEF WorkerStep
<1>8. ASSUME NEW t \in Trackers, StartTracker(t) \/ TrackerStep(t) PROVE Inv'
  BY <1>8, StartPassInv, PassStepInv DEF StartTracker, TrackerStep
<1> QED
  BY <1>1, <1>2, <1>3, <1>4, <1>5, <1>6, <1>7, <1>8 DEF Next

\* What a status write must not lose: the fence and the creator.
Carries(st, new) ==
    /\ new.fence = st.fence
    /\ st.creator # NoOne => new.creator = st.creator

\* A tracker that lives through a step keeps its creator; the SharedResource
\* loses its fence only to its own unfencing pass.
Keeps(t) ==
    trk[t].exists /\ trk'[t].exists =>
        /\ trk[t].st.creator # NoOne
                => trk'[t].st.creator = trk[t].st.creator
        /\ t = "SR" /\ IsFenced(trk[t].st) /\ ~IsFenced(trk'[t].st)
                => pass[t].pc = "unfence"

LEMMA UnwrittenKeeps ==
    ASSUME UNCHANGED trk
    PROVE  \A t \in Trackers : Keeps(t)
  BY DEF Keeps

\* One tracker written, its status carried over or the tracker new.
LEMMA WrittenKeeps ==
    ASSUME Inv, NEW s \in Trackers, NEW o, trk' = [trk EXCEPT ![s] = o],
           trk[s].exists /\ o.exists => Carries(trk[s].st, o.st)
    PROVE  \A t \in Trackers : Keeps(t)
  BY DEF Inv, TypeOK, Keeps, Carries, IsFenced

\* patchStatus sends a mutation of the status the API server holds: the copy
\* of the pass while that is current, the cached one once it has caught up.
LEMMA PatchKeeps ==
    ASSUME Inv, NEW t \in Trackers, NEW own, NEW reread, NEW stays \in BOOLEAN,
           Carries(pass[t].st, own), Carries(trkCache[t].st, reread),
           PatchStatus(t, pass[t], own, reread, stays)
    PROVE  \A s \in Trackers : Keeps(s)
<1> DEFINE q == Retried(t, pass[t], own, reread)
           o == [trk[t] EXCEPT !.st = q.st]
           missing == ~trk[t].exists
                \/ ("pass" \notin freshT[t] /\ ~trkCache[t].exists)
<1>1. CASE missing
  BY <1>1, UnwrittenKeeps DEF PatchStatus
<1>2. CASE ~missing
  <2>1. trk' = [trk EXCEPT ![t] = o]
    BY <1>2 DEF PatchStatus, PassWrite
  <2>2. pass[t] \in Pass /\ trk[t] \in TrackerObject
    BY DEF Inv, TypeOK
  <2>3. o.st = q.st /\ q.st = IF "pass" \in freshT[t] THEN own ELSE reread
    BY <2>2 DEF Retried, Pass, TrackerObject
  <2>4. freshT[t] # {} /\ freshT[t] \in SUBSET {"cache", "pass"}
    BY <1>2 DEF PatchStatus, Inv, TypeOK
  <2>5. CASE "pass" \in freshT[t]
    <3>1. pass[t].st = trk[t].st
      BY <2>5 DEF Inv, FreshCopiesAgree
    <3> HIDE DEF o, q
    <3> QED
      BY <2>1, <2>3, <2>5, <3>1, WrittenKeeps
  <2>6. CASE "pass" \notin freshT[t]
    <3>1. trkCache[t].st = trk[t].st
      BY <2>4, <2>6 DEF Inv, FreshCopiesAgree
    <3> HIDE DEF o, q
    <3> QED
      BY <2>1, <2>3, <2>6, <3>1, WrittenKeeps
  <2> QED
    BY <2>5, <2>6
<1> QED
  BY <1>1, <1>2

\* The four mutations patchStatus is given carry the status over, on the
\* pass's own copy and on the re-read one alike.
LEMMA MutationsCarry ==
    ASSUME NEW st \in TrackerStatus, NEW p \in Pass
    PROVE  /\ \A c \in Contributors : Carries(st, WithCreator(st, c))
           /\ Carries(st, WithKnownCreator(st, p))
           /\ Carries(st, WithPhase(st, p))
           /\ Carries(st, WithRecords(st, p))
<1>1. \A c \in Contributors : Carries(st, WithCreator(st, c))
  BY DEF Carries, WithCreator, TrackerStatus
<1>2. /\ Carries(st, WithKnownCreator(st, p))
      /\ WithKnownCreator(st, p) \in TrackerStatus
  BY MutationTypes DEF Carries, WithKnownCreator, TrackerStatus
<1>3. Carries(st, WithPhase(st, p))
  BY <1>2 DEF Carries, WithPhase, TrackerStatus
<1>4. Carries(st, WithRecords(st, p))
  BY <1>2 DEF Carries, WithRecords, TrackerStatus
<1> QED
  BY <1>1, <1>2, <1>3, <1>4

\* An Update of a pass: accepted only at the current resourceVersion.
LEMMA UpdateKeeps ==
    ASSUME Inv, NEW t \in Trackers, NEW o, NEW q, UpdateTracker(t, o, q),
           o.exists => Carries(trk[t].st, o.st)
    PROVE  \A s \in Trackers : Keeps(s)
<1>1. CASE trk[t].exists /\ "pass" \in freshT[t]
  BY <1>1, WrittenKeeps DEF UpdateTracker, PassWrite
<1>2. CASE ~(trk[t].exists /\ "pass" \in freshT[t])
  BY <1>2, UnwrittenKeeps DEF UpdateTracker
<1> QED
  BY <1>1, <1>2

LEMMA WorkerKeeps ==
    ASSUME Inv, NEW k \in Kinds, WorkerStep(k)
    PROVE  \A t \in Trackers : Keeps(t)
<1> DEFINE sr == trk["SR"] csr == trk["CSR"]
<1>1. /\ sr \in TrackerObject /\ csr \in TrackerObject
      /\ "SR" \in Trackers /\ "CSR" \in Trackers
  BY DEF Inv, TypeOK, Trackers
<1>2. ASSUME NEW t \in Trackers, CreateTracker(t)
      PROVE  \A s \in Trackers : Keeps(s)
  <2>1. CASE trk[t].exists
    BY <1>2, <2>1, UnwrittenKeeps DEF CreateTracker
  <2>2. CASE ~trk[t].exists
    BY <1>2, <2>2, WrittenKeeps DEF CreateTracker, WriteTracker
  <2> QED
    BY <2>1, <2>2
<1>3. CASE ContributorStep(k)
  <2>1. CASE CreateTrackerFor(k)
    BY <1>2, <2>1 DEF CreateTrackerFor, Inv, ReconcilesEquipped
  <2>2. CASE ~CreateTrackerFor(k)
    <3>1. UNCHANGED trk
      BY <1>3, <2>2 DEF ContributorStep, SetInvalid, AddFinalizer,
         DropFinalizer, SyncStatus, UpdateContributor
    <3> QED
      BY <3>1, UnwrittenKeeps
  <2> QED
    BY <2>1, <2>2
<1>4. CASE LookupClusterTracker \/ LookupOwnTracker \/ ReadPredecessor
  BY <1>4, UnwrittenKeeps DEF LookupClusterTracker, LookupOwnTracker,
     ReadPredecessor, storeVars
<1>5. CASE FenceTracker
  <2> DEFINE o == [sr EXCEPT !.st.fence = "fenced", !.st.releasing = FALSE]
  <2>1. CASE sr.exists /\ ~IsFenced(sr.st)
    <3>1. trk' = [trk EXCEPT !["SR"] = o]
      BY <1>5, <2>1 DEF FenceTracker, WriteTracker
    <3>2. o.st.creator = sr.st.creator
      BY <1>1 DEF TrackerObject, TrackerStatus
    <3> HIDE DEF o
    <3> QED
      BY <2>1, <3>1, <3>2 DEF Inv, TypeOK, Keeps, Trackers
  <2>2. CASE ~(sr.exists /\ ~IsFenced(sr.st))
    BY <1>5, <2>2, UnwrittenKeeps DEF FenceTracker
  <2> QED
    BY <2>1, <2>2
<1>6. CASE CreateSuccessor
  BY <1>1, <1>2, <1>6 DEF CreateSuccessor
<1>7. CASE AdoptPredecessor
  <2> DEFINE w == worker["CRP"]
             o == [csr EXCEPT !.st = AdoptStatus(csr.st, w.old)]
  <2>1. CASE csr.exists
    <3>1. trk' = [trk EXCEPT !["CSR"] = o]
      BY <1>7, <2>1 DEF AdoptPredecessor, WriteTracker
    <3>2. csr.st.creator # NoOne => o.st.creator = csr.st.creator
      BY <1>1 DEF TrackerObject, TrackerStatus, AdoptStatus
    <3> HIDE DEF o
    <3> QED
      BY <3>1, <3>2 DEF Inv, TypeOK, Keeps, Trackers
  <2>2. CASE ~csr.exists
    BY <1>7, <2>2, UnwrittenKeeps DEF AdoptPredecessor
  <2> QED
    BY <2>1, <2>2
<1>8. CASE FlagAdopted
  <2> DEFINE o == [sr EXCEPT !.st.fence = "adopted"]
  <2>1. CASE sr.exists /\ sr.st.fence = "fenced"
    <3>1. trk' = [trk EXCEPT !["SR"] = o]
      BY <1>8, <2>1 DEF FlagAdopted, WriteTracker
    <3>2. o.st.creator = sr.st.creator /\ o.st.fence = "adopted"
      BY <1>1 DEF TrackerObject, TrackerStatus
    <3> HIDE DEF o
    <3> QED
      BY <3>1, <3>2 DEF Inv, TypeOK, Keeps, Trackers, IsFenced
  <2>2. CASE ~(sr.exists /\ sr.st.fence = "fenced")
    BY <1>8, <2>2, UnwrittenKeeps DEF FlagAdopted
  <2> QED
    BY <2>1, <2>2
<1> QED
  BY <1>3, <1>4, <1>5, <1>6, <1>7, <1>8 DEF WorkerStep, PromotionStep

LEMMA PassKeeps ==
    ASSUME Inv, NEW t \in Trackers, PassStep(t) \/ ReportFailure(t)
    PROVE  \A s \in Trackers : Keeps(s)
<1> DEFINE p == pass[t] c == First(p.todo)
<1>1. /\ p \in Pass /\ p.st \in TrackerStatus
      /\ trk[t] \in TrackerObject /\ trkCache[t].st \in TrackerStatus
  BY DEF Inv, TypeOK, Pass, TrackerObject
<1>2. CASE \/ ReleaseContributor(t) \/ DeleteTarget(t)
           \/ CheckTarget(t) \/ ApplyContribution(t)
  BY <1>2, UnwrittenKeeps DEF ReleaseContributor, DeleteTarget, CheckTarget,
     ApplyContribution
<1>3. CASE RecordProvenance(t)
  <2>1. c \in Contributors
    BY <1>1, <1>3, FirstIn DEF RecordProvenance, Inv, ReconcilesEquipped, Pass
  <2>2. /\ Carries(p.st, WithCreator(p.st, c))
        /\ Carries(trkCache[t].st, WithCreator(trkCache[t].st, c))
    BY <1>1, <2>1, MutationsCarry
  <2> QED
    BY <1>3, <2>2, PatchKeeps DEF RecordProvenance
<1>4. CASE WriteStatus(t)
  BY <1>1, <1>4, MutationsCarry, PatchKeeps DEF WriteStatus
<1>5. CASE ReportFailure(t)
  BY <1>1, <1>5, MutationsCarry, PatchKeeps DEF ReportFailure
<1>6. CASE AddTrackerFinalizer(t)
  <2>1. Carries(trk[t].st, [trk[t] EXCEPT !.fin = TRUE].st)
    BY <1>1 DEF Carries, TrackerObject
  <2> QED
    BY <1>6, <2>1, UpdateKeeps DEF AddTrackerFinalizer
<1>7. CASE DropTrackerFinalizer(t)
  <2>1. WithoutFinalizer(trk[t]).exists
            => Carries(trk[t].st, WithoutFinalizer(trk[t]).st)
    BY <1>1 DEF Carries, WithoutFinalizer, NoTrackerObject, TrackerObject
  <2> QED
    BY <1>7, <2>1, UpdateKeeps DEF DropTrackerFinalizer
<1>8. CASE DeleteSelf(t)
  <2> DEFINE o == IF trk[t].exists THEN Deleted(trk[t]) ELSE trk[t]
  <2>1. o.exists => Carries(trk[t].st, o.st)
    BY <1>1 DEF Carries, Deleted, NoTrackerObject, TrackerObject
  <2>2. trk' = [trk EXCEPT ![t] = o]
    BY <1>8 DEF DeleteSelf, PassWrite
  <2> HIDE DEF o
  <2> QED
    BY <2>1, <2>2, WrittenKeeps
<1>9. CASE Unfence(t)
  <2> DEFINE o == [trk[t] EXCEPT !.st = [p.st EXCEPT !.fence = "none",
                                                     !.releasing = FALSE]]
  <2>1. CASE trk[t].exists /\ "pass" \in freshT[t]
    <3>1. trk' = [trk EXCEPT ![t] = o] /\ p.pc = "unfence"
      BY <1>9, <2>1 DEF Unfence, UpdateTracker, PassWrite
    <3>2. o.st.creator = trk[t].st.creator
      BY <1>1, <2>1 DEF Inv, FreshCopiesAgree, TrackerObject, TrackerStatus
    <3> HIDE DEF o
    <3> QED
      BY <3>1, <3>2 DEF Inv, TypeOK, Keeps
  <2>2. CASE ~(trk[t].exists /\ "pass" \in freshT[t])
    BY <1>9, <2>2, UnwrittenKeeps DEF Unfence, UpdateTracker
  <2> QED
    BY <2>1, <2>2
<1> QED
  BY <1>2, <1>3, <1>4, <1>5, <1>6, <1>7, <1>8, <1>9 DEF PassStep

LEMMA StepKeeps ==
    ASSUME Inv, [Next]_allVars
    PROVE  \A t \in Trackers : Keeps(t)
<1>1. CASE UNCHANGED allVars \/ SyncStep \/ UserStep
           \/ (\E c \in Contributors : StartWorker(c))
           \/ (\E t \in Trackers : StartTracker(t))
           \/ (\E k \in Kinds : AbortWorker(k))
           \/ (\E t \in Trackers : AbortPass(t))
           \/ ChangeTarget
  <2>1. UNCHANGED trk
    BY <1>1 DEF allVars, vars, SyncStep, SyncContributor, SyncTracker, UserStep,
       CreateContributor, DeleteContributor, StartWorker, StartReconcile,
       StartTracker, StartPass, AbortWorker, AbortPass, ChangeTarget, storeVars
  <2> QED
    BY <2>1, UnwrittenKeeps
<1>2. ASSUME NEW s \in Trackers, UserDeletesTracker(s)
      PROVE  \A t \in Trackers : Keeps(t)
  <2> DEFINE o == Deleted(trk[s])
  <2>1. o.exists => Carries(trk[s].st, o.st)
    BY DEF Inv, TypeOK, Carries, Deleted, NoTrackerObject, TrackerObject
  <2>2. trk' = [trk EXCEPT ![s] = o]
    BY <1>2 DEF UserDeletesTracker, WriteTracker
  <2> HIDE DEF o
  <2> QED
    BY <2>1, <2>2, WrittenKeeps
<1>3. ASSUME NEW k \in Kinds, WorkerStep(k) PROVE \A t \in Trackers : Keeps(t)
  BY <1>3, WorkerKeeps
<1>4. ASSUME NEW s \in Trackers, TrackerStep(s) \/ ReportFailure(s)
      PROVE  \A t \in Trackers : Keeps(t)
  BY <1>4, PassKeeps DEF TrackerStep
<1> QED
  BY <1>1, <1>2, <1>3, <1>4 DEF Next, OutOfBandStep, AbortStep

\* The inductive invariant holds in every state of the operator.
THEOREM Invariance == Spec => []Inv
  BY InitInv, NextInv, PTL DEF Spec

\* Every variable keeps its type.
THEOREM TypeCorrectness == Spec => []TypeOK
<1>1. Inv => TypeOK
  BY DEF Inv
<1> QED
  BY <1>1, Invariance, PTL

\* A pass that may still update its tracker holds the status the API server
\* holds: no status write of tracker_controller.go works from a stale copy.
THEOREM OptimisticLocking == Spec => []FreshCopiesAgree
<1>1. Inv => FreshCopiesAgree
  BY DEF Inv
<1> QED
  BY <1>1, Invariance, PTL

\* Once promotion.go has committed its fence no status write of an in-flight
\* pass of tracker_controller.go clears it, whatever the pass had read: the
\* fence goes only when finishPromotion finds no successor.
THEOREM FenceIsDurable == Spec => FenceDurable
<1>1. Inv /\ [Next]_allVars =>
        [ /\ trk["SR"].exists /\ trk'["SR"].exists
          /\ IsFenced(trk["SR"].st) /\ ~IsFenced(trk'["SR"].st)
          => pass["SR"].pc = "unfence" ]_allVars
  BY StepKeeps DEF Keeps, Trackers
<1> QED
  BY <1>1, Invariance, PTL DEF Spec, FenceDurable

\* The creator a tracker has on record is never replaced or forgotten while the
\* tracker lives, neither by patchStatus's re-reads nor by adoptStatus.
THEOREM CreatorIsKept == Spec => CreatorKept
<1>1. Inv /\ [Next]_allVars =>
        [ \A t \in Trackers :
            trk[t].exists /\ trk'[t].exists /\ trk[t].st.creator # NoOne
            => trk'[t].st.creator = trk[t].st.creator ]_allVars
  BY StepKeeps DEF Keeps
<1> QED
  BY <1>1, Invariance, PTL DEF Spec, CreatorKept

-----------------------------------------------------------------------------
(***************************************************************************)
(* Why a promoted SharedResource does not take its bookkeeping with it:    *)
(* finishPromotion and reconcileEmpty give up a tracker only once its      *)
(* status has been adopted or lists nobody.                                *)
(***************************************************************************)

\* Nobody but the operator deletes trackers.
TrackersLeftAlone == "deleteTracker" \notin OutOfBand

\* Nothing is lost with a tracker whose status lists nobody, or has been
\* adopted.
Settled(st) == st.recs = NoRecords \/ st.fence = "adopted"

\* The last pass is about to delete a tracker that had lost its finalizer
\* when it was read: it saw the adoption, perhaps in a copy long superseded.
SawAdoption(p) == "SR" \notin Prompt /\ p.st.fence = "adopted"

\* What the SharedResource's pass p knows of the tracker o it gives up.  A
\* teardown is of a tracker that is not fenced; a finalizer is dropped, and
\* the tracker deleted, when it is settled.
MayRetire(p, o) ==
    /\ p.pc \in {"release", "deleteTarget", "dropFin"} /\ p.teardown
            => ~IsFenced(p.st)
    /\ p.pc = "dropFin" /\ ~p.teardown => Settled(p.st)
    /\ p.pc = "deleteSelf" /\ o.exists => Settled(o.st) \/ SawAdoption(p)

RetireInv == Inv /\ MayRetire(pass["SR"], trk["SR"])

\* A settled tracker stays settled while others write it.
StaysSettled(o, n) == n.exists /\ (o.exists => Settled(o.st)) => Settled(n.st)

\* The SharedResource goes in this step, fenced and with contributors on its
\* list that nobody has adopted.
LostUnadopted ==
    /\ trk["SR"].exists /\ ~trk'["SR"].exists
    /\ IsFenced(trk["SR"].st) /\ ~Settled(trk["SR"].st)

-----------------------------------------------------------------------------
(* The pass of the SharedResource *)

\* Where the loops lead: to the finalizer only in a teardown.
LEMMA RetiresAfterLoops ==
    ASSUME NEW p \in Pass, NEW o, p.teardown => ~IsFenced(p.st)
    PROVE  /\ MayRetire(AfterDecision(p), o)
           /\ MayRetire(AfterReleases(p), o)
           /\ MayRetire([p EXCEPT !.pc = "release"], o)
<1>1. MayRetire(AfterDecision(p), o)
  BY DEF AfterDecision, AfterApplies, MayRetire, Pass
<1>2. MayRetire(AfterReleases(p), o)
  BY <1>1 DEF AfterReleases, MayRetire, Pass
<1>3. MayRetire([p EXCEPT !.pc = "release"], o)
  BY DEF MayRetire, Pass
<1> QED
  BY <1>1, <1>2, <1>3

\* A pass in the apply loop goes on to the next contributor or to the status.
LEMMA RetiresNotWhileApplying ==
    ASSUME NEW p \in Pass, NEW o
    PROVE  /\ MayRetire(Visited(p), o)
           /\ MayRetire(NotFound(p), o)
           /\ MayRetire(Applied(p), o)
           /\ MayRetire(IdlePass, o)
<1>1. \A q \in Pass : MayRetire(Visited(q), o)
  <2> SUFFICES ASSUME NEW q \in Pass PROVE MayRetire(Visited(q), o)
    OBVIOUS
  <2>1. Visited(q).pc \in {"status", "exists"}
    BY DEF Visited, AfterApplies, Pass
  <2> QED
    BY <2>1 DEF MayRetire
<1>2. [p EXCEPT !.waiting = @ \cup {First(p.todo)}].pc = p.pc
  BY DEF Pass
<1>3. MayRetire(NotFound(p), o)
  <2>1. NotFound(p).pc \in {"status", "exists"}
    BY DEF NotFound, Visited, AfterApplies, Pass
  <2> QED
    BY <2>1 DEF MayRetire
<1>4. MayRetire(Applied(p), o)
  <2>1. CASE ~p.seen.exists /\ p.st.creator = NoOne
    <3>1. Applied(p).pc = "provenance"
      BY <2>1 DEF Applied, Pass
    <3> QED
      BY <3>1 DEF MayRetire
  <2>2. CASE ~(~p.seen.exists /\ p.st.creator = NoOne)
    BY <1>1, <2>2 DEF Applied
  <2> QED
    BY <2>1, <2>2
<1>5. MayRetire(IdlePass, o)
  BY DEF MayRetire, IdlePass
<1> QED
  BY <1>1, <1>3, <1>4, <1>5

\* What a pass begins with, on a tracker it read as o while the API server
\* held n: the same one, where watch events of the tracker are prompt.
LEMMA RetiresFromDispatch ==
    ASSUME TypeOK, NEW o \in TrackerObject, NEW n \in TrackerObject,
           "SR" \in Prompt => o = n, NEW L \in SUBSET Contributors
    PROVE  MayRetire(Dispatch(o, L), n)
<1> DEFINE p == [IdlePass EXCEPT !.st = o.st, !.owned = o.st.owned]
           q == [p EXCEPT !.releasing = Releasing(L), !.active = L \ Releasing(L)]
           d == [p EXCEPT !.releasing = L, !.teardown = TRUE]
           Release(r) == IF r.releasing = {} THEN AfterReleases(r)
                         ELSE [r EXCEPT !.pc = "release", !.todo = r.releasing]
<1>1. p \in Pass /\ p.st = o.st /\ p.pc = "idle" /\ ~p.teardown
  BY Empties DEF IdlePass, Pass, PassPC, TrackerObject, TrackerStatus
<1>2. q \in Pass /\ q.st = o.st /\ ~q.teardown
  BY <1>1 DEF Pass, Releasing
<1>3. d \in Pass /\ d.st = o.st
  BY <1>1 DEF Pass
<1>4. ASSUME NEW r \in Pass, r.teardown => ~IsFenced(r.st)
      PROVE  MayRetire(Release(r), n)
  <2> DEFINE s == [r EXCEPT !.todo = r.releasing]
  <2>1. s \in Pass /\ s.st = r.st /\ s.teardown = r.teardown
    BY DEF Pass
  <2>2. [r EXCEPT !.pc = "release", !.todo = r.releasing]
            = [s EXCEPT !.pc = "release"]
    BY DEF Pass
  <2> HIDE DEF s
  <2> QED
    BY <1>4, <2>1, <2>2, RetiresAfterLoops
<1> HIDE DEF p, q, d, Release
<1>5. CASE IsFenced(o.st)
  <2> DEFINE r == [p EXCEPT !.pc = FinishPromotion(o)]
  <2>1. Dispatch(o, L) = r
    BY <1>5 DEF Dispatch, p
  <2>2. r.st = o.st /\ r.pc = FinishPromotion(o) /\ ~r.teardown
    BY <1>1 DEF Pass
  <2>3. FinishPromotion(o) \in {"dropFin", "deleteSelf"} => o.st.fence = "adopted"
    BY DEF FinishPromotion, TypeOK, Trackers, TrackerObject
  <2>4. FinishPromotion(o) \in {"unfence", "idle", "dropFin", "deleteSelf"}
    BY FinishPromotionStep
  <2> HIDE DEF r
  <2> QED
    BY <2>1, <2>2, <2>3, <2>4 DEF MayRetire, Settled, SawAdoption
<1>6. CASE ~IsFenced(o.st) /\ o.deleting
  <2>1. Dispatch(o, L) = Release(d)
    BY <1>6 DEF Dispatch, Release, d, p
  <2> QED
    BY <2>1, <1>3, <1>4, <1>6
<1>7. CASE ~IsFenced(o.st) /\ ~o.deleting /\ ~o.fin
  <2>1. Dispatch(o, L) = [p EXCEPT !.pc = "addFin"]
    BY <1>7 DEF Dispatch, p
  <2> QED
    BY <2>1, <1>1 DEF MayRetire, Pass
<1>8. CASE ~IsFenced(o.st) /\ ~o.deleting /\ o.fin /\ L = {}
  <2>1. Dispatch(o, L) = ReconcileEmpty(p)
    BY <1>8 DEF Dispatch, p
  <2>2. MayRetire(ReconcileEmpty(p), n)
    BY <1>1 DEF ReconcileEmpty, MayRetire, Settled, Pass
  <2> QED
    BY <2>1, <2>2
<1>9. CASE ~IsFenced(o.st) /\ ~o.deleting /\ o.fin /\ L # {}
  <2>1. Dispatch(o, L) = Release(q)
    BY <1>9 DEF Dispatch, Release, q, p
  <2> QED
    BY <2>1, <1>2, <1>4
<1> QED
  BY <1>5, <1>6, <1>7, <1>8, <1>9 DEF TrackerObject

\* Steps that leave the SharedResource and its pass alone.
LEMMA RetiresElsewhere ==
    ASSUME RetireInv, trk'["SR"] = trk["SR"], pass'["SR"] = pass["SR"]
    PROVE  MayRetire(pass["SR"], trk["SR"])' /\ ~LostUnadopted
<1>1. trk["SR"] \in TrackerObject
  BY DEF RetireInv, Inv, TypeOK, Trackers
<1> QED
  BY <1>1 DEF RetireInv, MayRetire, LostUnadopted, TrackerObject, Settled,
     SawAdoption

\* A worker writes the SharedResource, its pass standing still.
LEMMA RetiresUnderWrites ==
    ASSUME RetireInv, NEW o, trk'["SR"] = o, pass'["SR"] = pass["SR"],
           trk["SR"].exists => o.exists, StaysSettled(trk["SR"], o)
    PROVE  MayRetire(pass["SR"], trk["SR"])' /\ ~LostUnadopted
  BY DEF RetireInv, MayRetire, LostUnadopted, StaysSettled, SawAdoption, Settled

\* What contributors' workers write into the SharedResource unsettles nothing.
LEMMA RetiresUnderWorkers ==
    ASSUME RetireInv, NEW k \in Kinds, WorkerStep(k)
    PROVE  MayRetire(pass["SR"], trk["SR"])' /\ ~LostUnadopted
<1> DEFINE sr == trk["SR"]
<1>1. sr \in TrackerObject /\ trk \in [Trackers -> TrackerObject]
  BY DEF RetireInv, Inv, TypeOK, Trackers
<1>2. pass' = pass
  BY DEF WorkerStep, ContributorStep, SetInvalid, AddFinalizer, DropFinalizer,
     CreateTrackerFor, SyncStatus, UpdateContributor, LookupClusterTracker,
     LookupOwnTracker, PromotionStep, FenceTracker, ReadPredecessor,
     CreateSuccessor, AdoptPredecessor, FlagAdopted
<1>3. ASSUME NEW t \in Trackers, CreateTracker(t)
      PROVE  MayRetire(pass["SR"], trk["SR"])' /\ ~LostUnadopted
  <2>1. CASE trk[t].exists \/ t # "SR"
    <3>1. trk'["SR"] = sr
      BY <1>1, <1>3, <2>1 DEF CreateTracker, WriteTracker, Trackers
    <3> QED
      BY <1>2, <3>1, RetiresElsewhere
  <2>2. CASE ~trk[t].exists /\ t = "SR"
    <3>1. trk'["SR"] = NewTrackerObject
      BY <1>1, <1>3, <2>2 DEF CreateTracker, WriteTracker, Trackers
    <3>2. NewTrackerObject.exists /\ NewTrackerObject.st.recs = NoRecords
      BY DEF NewTrackerObject, NoTrackerObject, EmptyStatus
    <3> QED
      BY <1>2, <2>2, <3>1, <3>2, RetiresUnderWrites DEF StaysSettled, Settled
  <2> QED
    BY <2>1, <2>2
<1>4. CASE UNCHANGED trk
  BY <1>2, <1>4, RetiresElsewhere
<1>5. CASE CreateTrackerFor(k) \/ CreateSuccessor
  BY <1>3, <1>5 DEF CreateTrackerFor, CreateSuccessor, RetireInv, Inv,
     ReconcilesEquipped, Trackers
<1>6. CASE FenceTracker
  <2> DEFINE o == [sr EXCEPT !.st.fence = "fenced", !.st.releasing = FALSE]
  <2>1. CASE sr.exists /\ ~IsFenced(sr.st)
    <3>1. trk'["SR"] = o
      BY <1>1, <1>6, <2>1 DEF FenceTracker, WriteTracker, Trackers
    <3>2. o.st.recs = sr.st.recs /\ o.exists
      BY <1>1, <2>1 DEF TrackerObject, TrackerStatus
    <3>3. sr.st.fence # "adopted"
      BY <2>1 DEF IsFenced
    <3> HIDE DEF o
    <3> QED
      BY <1>2, <2>1, <3>1, <3>2, <3>3, RetiresUnderWrites DEF StaysSettled, Settled
  <2>2. CASE ~(sr.exists /\ ~IsFenced(sr.st))
    BY <1>4, <1>6, <2>2 DEF FenceTracker
  <2> QED
    BY <2>1, <2>2
<1>7. CASE AdoptPredecessor
  <2>1. trk'["SR"] = sr
    BY <1>1, <1>7 DEF AdoptPredecessor, WriteTracker, Trackers
  <2> QED
    BY <1>2, <2>1, RetiresElsewhere
<1>8. CASE FlagAdopted
  <2> DEFINE o == [sr EXCEPT !.st.fence = "adopted"]
  <2>1. CASE sr.exists /\ sr.st.fence = "fenced"
    <3>1. trk'["SR"] = o
      BY <1>1, <1>8, <2>1 DEF FlagAdopted, WriteTracker, Trackers
    <3>2. o.st.fence = "adopted" /\ o.exists
      BY <1>1, <2>1 DEF TrackerObject, TrackerStatus
    <3> HIDE DEF o
    <3> QED
      BY <1>2, <2>1, <3>1, <3>2, RetiresUnderWrites DEF StaysSettled, Settled
  <2>2. CASE ~(sr.exists /\ sr.st.fence = "fenced")
    BY <1>4, <1>8, <2>2 DEF FlagAdopted
  <2> QED
    BY <2>1, <2>2
<1>9. \/ UNCHANGED trk \/ CreateTrackerFor(k) \/ CreateSuccessor
      \/ FenceTracker \/ AdoptPredecessor \/ FlagAdopted
  BY DEF WorkerStep, ContributorStep, SetInvalid, AddFinalizer, DropFinalizer,
     SyncStatus, UpdateContributor, LookupClusterTracker, LookupOwnTracker,
     PromotionStep, ReadPredecessor, storeVars
<1> QED
  BY <1>4, <1>5, <1>6, <1>7, <1>8, <1>9

\* A step of the SharedResource's pass that does not write the tracker.
LEMMA RetiresOn ==
    ASSUME RetireInv, NEW p \in Pass, MayRetire(p, trk["SR"]),
           Continue("SR", p), UNCHANGED trk
    PROVE  MayRetire(pass["SR"], trk["SR"])' /\ ~LostUnadopted
<1>1. pass'["SR"] \in {p, IdlePass}
  BY DEF Continue, RetireInv, Inv, TypeOK, Trackers
<1>2. trk["SR"] \in TrackerObject
  BY DEF RetireInv, Inv, TypeOK, Trackers
<1> QED
  BY <1>1, <1>2, RetiresNotWhileApplying DEF LostUnadopted, TrackerObject,
     MayRetire, SawAdoption, Settled

\* A status write of the SharedResource's pass, which ends or goes on to the
\* next contributor.
LEMMA RetiresNotByPatch ==
    ASSUME RetireInv, NEW own \in TrackerStatus, NEW reread \in TrackerStatus,
           NEW stays \in BOOLEAN,
           PatchStatus("SR", pass["SR"], own, reread, stays)
    PROVE  MayRetire(pass["SR"], trk["SR"])' /\ ~LostUnadopted
<1> DEFINE p == pass["SR"] sr == trk["SR"]
           q == Retried("SR", p, own, reread)
           r == [p EXCEPT !.st = own]
<1>1. /\ p \in Pass /\ sr \in TrackerObject
      /\ pass \in [Trackers -> Pass] /\ trk \in [Trackers -> TrackerObject]
      /\ "SR" \in Trackers
  BY DEF RetireInv, Inv, TypeOK, Trackers
<1>2. q \in Pass /\ r \in Pass
  BY <1>1 DEF Retried, Pass
<1>3. trk'["SR"].exists = sr.exists
  BY <1>1 DEF PatchStatus, PassWrite, TrackerObject
<1> HIDE DEF q, r
<1>4. pass'["SR"] \in {Visited(q), Visited(r), IdlePass}
  BY <1>1 DEF PatchStatus, q, r
<1>5. \A x \in {Visited(q), Visited(r), IdlePass} : MayRetire(x, trk'["SR"])
  BY <1>2, RetiresNotWhileApplying
<1> QED
  BY <1>3, <1>4, <1>5 DEF LostUnadopted, MayRetire, SawAdoption, Settled

\* An Update of the SharedResource that leaves it there.
LEMMA RetiresNotByUpdate ==
    ASSUME RetireInv, NEW o, UpdateTracker("SR", o, IdlePass), o.exists
    PROVE  MayRetire(pass["SR"], trk["SR"])' /\ ~LostUnadopted
<1>1. /\ pass'["SR"] = IdlePass
      /\ trk["SR"].exists => trk'["SR"].exists
  BY DEF UpdateTracker, PassWrite, RetireInv, Inv, TypeOK, Trackers
<1> QED
  BY <1>1 DEF LostUnadopted, MayRetire, IdlePass


\* The step is one finishPromotion's pass may take on what it has seen.
OnlySeen == LostUnadopted => pass["SR"].pc = "deleteSelf" /\ SawAdoption(pass["SR"])

\* The SharedResource's own pass gives it up when it is settled, or has seen it
\* adopted.
LEMMA RetiresInPass ==
    ASSUME RetireInv, PassStep("SR") \/ ReportFailure("SR")
    PROVE  MayRetire(pass["SR"], trk["SR"])' /\ OnlySeen
<1> DEFINE p == pass["SR"] sr == trk["SR"] c == First(p.todo)
<1>1. /\ p \in Pass /\ PassOK(p) /\ p.st \in TrackerStatus
      /\ sr \in TrackerObject /\ trkCache["SR"].st \in TrackerStatus
      /\ pass \in [Trackers -> Pass] /\ trk \in [Trackers -> TrackerObject]
      /\ "SR" \in Trackers
  BY DEF RetireInv, Inv, TypeOK, ReconcilesEquipped, PassOK, Pass,
     TrackerObject, Trackers
<1>2. CASE ReleaseContributor("SR")
  <2> DEFINE q == [p EXCEPT !.todo = @ \ {c}]
             n == IF q.todo = {} THEN AfterReleases(q) ELSE q
  <2>1. p.pc = "release" /\ UNCHANGED trk
    BY <1>2 DEF ReleaseContributor
  <2>2. p.teardown => ~IsFenced(p.st)
    BY <2>1 DEF RetireInv, MayRetire
  <2>3. q \in Pass /\ q.st = p.st /\ q.teardown = p.teardown /\ q.pc = "release"
    BY <1>1, <2>1 DEF Pass
  <2>4. Continue("SR", IdlePass) \/ Continue("SR", n)
    BY <1>2 DEF ReleaseContributor
  <2> HIDE DEF q
  <2>5. n \in Pass /\ MayRetire(n, sr)
    BY <2>2, <2>3, PassMovesOn, RetiresAfterLoops DEF MayRetire, PassOK
  <2>6. IdlePass \in Pass /\ MayRetire(IdlePass, sr)
    BY <1>1, Empties, RetiresNotWhileApplying DEF PassOK
  <2> HIDE DEF n
  <2> QED
    BY <2>1, <2>4, <2>5, <2>6, RetiresOn DEF OnlySeen
<1>3. CASE DeleteTarget("SR")
  <2>1. /\ p.pc = "deleteTarget" /\ UNCHANGED trk
        /\ Continue("SR", AfterDecision(p))
    BY <1>3 DEF DeleteTarget
  <2>2. p.teardown => ~IsFenced(p.st)
    BY <2>1 DEF RetireInv, MayRetire
  <2>3. AfterDecision(p) \in Pass /\ MayRetire(AfterDecision(p), sr)
    BY <1>1, <2>2, PassMovesOn, RetiresAfterLoops DEF PassOK
  <2> QED
    BY <2>1, <2>3, RetiresOn DEF OnlySeen
<1>4. CASE CheckTarget("SR")
  <2> DEFINE n == [p EXCEPT !.pc = "apply", !.seen = Seen(c)]
  <2>1. /\ p.pc = "exists" /\ UNCHANGED trk /\ p.todo # {}
        /\ Continue("SR", NotFound(p)) \/ Continue("SR", n)
    BY <1>1, <1>4 DEF CheckTarget, PassOK
  <2>2. Seen(c) \in TargetObject
    BY Empties DEF Seen, RetireInv, Inv, TypeOK, TargetObject
  <2>3. n \in Pass /\ n.pc = "apply"
    BY <1>1, <2>2 DEF Pass, PassPC
  <2>4. NotFound(p) \in Pass /\ MayRetire(NotFound(p), sr)
    BY <1>1, <2>1, PassVisits, RetiresNotWhileApplying DEF PassOK
  <2> HIDE DEF n
  <2>5. MayRetire(n, sr)
    BY <2>3 DEF MayRetire
  <2> QED
    BY <2>1, <2>3, <2>4, <2>5, RetiresOn DEF OnlySeen
<1>5. CASE ApplyContribution("SR")
  <2>1. p.pc = "apply" /\ UNCHANGED trk /\ p.todo # {}
    BY <1>1, <1>5 DEF ApplyContribution, PassOK
  <2>2. \/ Continue("SR", Applied(p)) \/ Continue("SR", NotFound(p))
        \/ Continue("SR", IdlePass)
    BY <1>5 DEF ApplyContribution, ClientSideApply, ServerSideApply
  <2>3. /\ Applied(p) \in Pass /\ NotFound(p) \in Pass /\ IdlePass \in Pass
        /\ MayRetire(Applied(p), sr) /\ MayRetire(NotFound(p), sr)
        /\ MayRetire(IdlePass, sr)
    BY <1>1, <2>1, Empties, PassVisits, RetiresNotWhileApplying DEF PassOK
  <2> QED
    BY <2>1, <2>2, <2>3, RetiresOn DEF OnlySeen
<1>6. CASE RecordProvenance("SR")
  <2>1. c \in Contributors
    BY <1>1, <1>6, FirstIn DEF RecordProvenance, PassOK, Pass
  <2>2. /\ WithCreator(p.st, c) \in TrackerStatus
        /\ WithCreator(trkCache["SR"].st, c) \in TrackerStatus
    BY <1>1, <2>1, MutationTypes
  <2> QED
    BY <1>6, <2>2, RetiresNotByPatch DEF RecordProvenance, OnlySeen
<1>7. CASE WriteStatus("SR") \/ ReportFailure("SR")
  <2>1. /\ WithRecords(p.st, p) \in TrackerStatus
        /\ WithRecords(trkCache["SR"].st, p) \in TrackerStatus
        /\ WithPhase(p.st, p) \in TrackerStatus
        /\ WithPhase(trkCache["SR"].st, p) \in TrackerStatus
    BY <1>1, MutationTypes
  <2> QED
    BY <1>7, <2>1, RetiresNotByPatch DEF WriteStatus, ReportFailure, OnlySeen
<1>8. CASE AddTrackerFinalizer("SR")
  <2>1. CASE sr.exists
    <3>1. [sr EXCEPT !.fin = TRUE].exists
      BY <1>1, <2>1 DEF TrackerObject
    <3> QED
      BY <1>8, <3>1, RetiresNotByUpdate DEF AddTrackerFinalizer, OnlySeen
  <2>2. CASE ~sr.exists
    <3>1. pass'["SR"] = IdlePass
      BY <1>1, <1>8, <2>2 DEF AddTrackerFinalizer, UpdateTracker
    <3> QED
      BY <2>2, <3>1 DEF LostUnadopted, OnlySeen, MayRetire, IdlePass
  <2> QED
    BY <2>1, <2>2
<1>9. CASE Unfence("SR")
  <2> DEFINE o == [sr EXCEPT !.st = [p.st EXCEPT !.fence = "none",
                                                 !.releasing = FALSE]]
  <2>1. pass'["SR"] = IdlePass
    BY <1>1, <1>9 DEF Unfence, UpdateTracker
  <2>2. o.exists = sr.exists
    BY <1>1 DEF TrackerObject
  <2>3. trk'["SR"] \in {o, sr}
    BY <1>1, <1>9 DEF Unfence, UpdateTracker, PassWrite
  <2> HIDE DEF o
  <2> QED
    BY <2>1, <2>2, <2>3 DEF LostUnadopted, OnlySeen, MayRetire, IdlePass
<1>10. CASE DropTrackerFinalizer("SR")
  <2> DEFINE o == WithoutFinalizer(sr)
             n == [IdlePass EXCEPT !.pc = "deleteSelf"]
  <2>1. p.pc = "dropFin"
    BY <1>10 DEF DropTrackerFinalizer
  <2>2. CASE ~(sr.exists /\ "pass" \in freshT["SR"])
    <3>1. pass'["SR"] = IdlePass /\ UNCHANGED trk
      BY <1>1, <1>10, <2>2 DEF DropTrackerFinalizer, UpdateTracker
    <3> QED
      BY <1>1, <3>1 DEF LostUnadopted, OnlySeen, MayRetire, IdlePass, TrackerObject
  <2>3. CASE sr.exists /\ "pass" \in freshT["SR"]
    <3>1. /\ trk'["SR"] = o
          /\ pass'["SR"] = IF p.teardown THEN IdlePass ELSE n
      BY <1>1, <1>10, <2>3 DEF DropTrackerFinalizer, UpdateTracker, PassWrite
    <3>2. p.st = sr.st
      BY <1>1, <2>3 DEF RetireInv, Inv, FreshCopiesAgree
    <3>3. /\ p.teardown => ~IsFenced(sr.st)
          /\ ~p.teardown => Settled(sr.st)
      BY <2>1, <3>2 DEF RetireInv, MayRetire
    <3>4. ~LostUnadopted
      BY <1>1, <3>3 DEF LostUnadopted, Pass
    <3>5. o.exists => o.st = sr.st
      BY <1>1 DEF WithoutFinalizer, NoTrackerObject, TrackerObject
    <3>6. n.pc = "deleteSelf"
      BY DEF IdlePass
    <3> HIDE DEF o, n
    <3>7. CASE p.teardown
      BY <3>1, <3>4, <3>7 DEF MayRetire, IdlePass, OnlySeen
    <3>8. CASE ~p.teardown
      BY <3>1, <3>3, <3>4, <3>5, <3>6, <3>8 DEF MayRetire, OnlySeen, Settled,
         SawAdoption
    <3> QED
      BY <3>7, <3>8
  <2> QED
    BY <2>2, <2>3
<1>11. CASE DeleteSelf("SR")
  <2>1. p.pc = "deleteSelf" /\ pass'["SR"] = IdlePass
    BY <1>1, <1>11 DEF DeleteSelf
  <2> QED
    BY <2>1 DEF LostUnadopted, OnlySeen, MayRetire, RetireInv, IdlePass
<1> QED
  BY <1>2, <1>3, <1>4, <1>5, <1>6, <1>7, <1>8, <1>9, <1>10, <1>11 DEF PassStep

\* The invariant, and what a step may do to the tracker.
LEMMA RetireInvInductive ==
    ASSUME TrackersLeftAlone
    PROVE  /\ Init => RetireInv
           /\ RetireInv /\ [Next]_allVars => RetireInv' /\ OnlySeen
<1>1. ASSUME Init PROVE RetireInv
  BY <1>1, InitInv, RetiresNotWhileApplying, Empties
     DEF Init, RetireInv, Trackers, MayRetire, IdlePass
<1>2. ASSUME RetireInv, [Next]_allVars
      PROVE  MayRetire(pass["SR"], trk["SR"])' /\ OnlySeen
  <2>1. /\ pass \in [Trackers -> Pass] /\ trk \in [Trackers -> TrackerObject]
        /\ "SR" \in Trackers /\ "CSR" \in Trackers
        /\ \A t \in Trackers : t # "SR" => t = "CSR"
    BY <1>2 DEF RetireInv, Inv, TypeOK, Trackers
  <2>2. CASE trk'["SR"] = trk["SR"] /\ pass'["SR"] = pass["SR"]
    BY <1>2, <2>2, RetiresElsewhere DEF OnlySeen
  <2>3. CASE UNCHANGED allVars \/ SyncStep \/ UserStep \/ ChangeTarget
             \/ (\E c \in Contributors : StartWorker(c))
             \/ (\E k \in Kinds : AbortWorker(k))
    <3>1. UNCHANGED <<trk, pass>>
      BY <2>3 DEF allVars, vars, SyncStep, SyncContributor, SyncTracker,
         UserStep, CreateContributor, DeleteContributor, StartWorker,
         StartReconcile, AbortWorker, ChangeTarget, storeVars
    <3> QED
      BY <2>2, <3>1
  <2>4. ASSUME NEW k \in Kinds, WorkerStep(k)
        PROVE  MayRetire(pass["SR"], trk["SR"])' /\ OnlySeen
    BY <1>2, <2>4, RetiresUnderWorkers DEF OnlySeen
  <2>5. ASSUME \/ StartTracker("CSR") \/ TrackerStep("CSR")
               \/ AbortPass("CSR") \/ ReportFailure("CSR")
        PROVE  MayRetire(pass["SR"], trk["SR"])' /\ OnlySeen
    <3>1. trk'["SR"] = trk["SR"] /\ pass'["SR"] = pass["SR"]
      BY <2>1, <2>5 DEF StartTracker, StartPass, TrackerStep, PassStep,
         AbortPass, ReportFailure, ReleaseContributor, DeleteTarget, CheckTarget,
         ApplyContribution, ClientSideApply, ServerSideApply, RecordProvenance,
         WriteStatus, AddTrackerFinalizer, DropTrackerFinalizer, DeleteSelf,
         Unfence, Continue, PatchStatus, UpdateTracker, PassWrite
    <3> QED
      BY <2>2, <3>1
  <2>6. ASSUME StartTracker("SR"), Delivered
        PROVE  MayRetire(pass["SR"], trk["SR"])' /\ OnlySeen
    <3> DEFINE o == trkCache["SR"] L == ListContributors("SR")
    <3>1. /\ pass'["SR"] = Dispatch(o, L) /\ UNCHANGED trk
          /\ o \in TrackerObject /\ L \in SUBSET Contributors
      BY <1>2, <2>1, <2>6 DEF StartTracker, StartPass, RetireInv, Inv, TypeOK,
         ListContributors, Contributors
    <3>2. "SR" \in Prompt => o = trk["SR"]
      BY <1>2, <2>1, <2>6 DEF Delivered, RetireInv, Inv, FreshCopiesAgree
    <3> HIDE DEF o, L
    <3>3. MayRetire(Dispatch(o, L), trk["SR"])
      BY <1>2, <2>1, <3>1, <3>2, RetiresFromDispatch DEF RetireInv, Inv
    <3> QED
      BY <2>1, <3>1, <3>3 DEF LostUnadopted, OnlySeen, MayRetire, SawAdoption,
         Settled
  <2>7. ASSUME TrackerStep("SR") \/ ReportFailure("SR")
        PROVE  MayRetire(pass["SR"], trk["SR"])' /\ OnlySeen
    BY <1>2, <2>7, RetiresInPass DEF TrackerStep
  <2>8. CASE AbortPass("SR")
    <3>1. pass'["SR"] = IdlePass /\ UNCHANGED trk
      BY <2>1, <2>8 DEF AbortPass
    <3> QED
      BY <2>1, <3>1 DEF LostUnadopted, OnlySeen, MayRetire, IdlePass
  <2>9. ~(\E t \in Trackers : UserDeletesTracker(t))
    BY DEF UserDeletesTracker, TrackersLeftAlone
  <2> QED
    BY <1>2, <2>1, <2>3, <2>4, <2>5, <2>6, <2>7, <2>8, <2>9
       DEF Next, OutOfBandStep, AbortStep
<1>3. ASSUME RetireInv, [Next]_allVars PROVE RetireInv'
  BY <1>2, <1>3, NextInv DEF RetireInv
<1> QED
  BY <1>1, <1>2, <1>3

-----------------------------------------------------------------------------
(* The theorems *)

\* A fenced SharedResource that still lists contributors goes, before its
\* adoption is on record, in one way only: to the unconditional Delete of a
\* finishPromotion that has read the adoption, and the finalizer's absence,
\* from a cache that lags.
RetiredHavingSeen ==
    [][ LostUnadopted => /\ pass["SR"].pc = "deleteSelf"
                         /\ pass["SR"].st.fence = "adopted" ]_allVars

\* However far the caches lag, finishPromotion gives up a fenced tracker only
\* having seen that the successor adopted its state.
THEOREM RetirementHasSeenAdoption ==
    ASSUME TrackersLeftAlone
    PROVE  Spec => RetiredHavingSeen
<1>1. RetireInv /\ [Next]_allVars =>
        [ LostUnadopted => /\ pass["SR"].pc = "deleteSelf"
                           /\ pass["SR"].st.fence = "adopted" ]_allVars
  BY RetireInvInductive DEF OnlySeen, SawAdoption
<1>2. /\ Init => RetireInv
      /\ RetireInv /\ [Next]_allVars => RetireInv'
  BY RetireInvInductive
<1> QED
  BY <1>1, <1>2, PTL DEF Spec, RetiredHavingSeen

\* Where the SharedResource's own watch events are delivered before its next
\* pass, it goes only once its adoption is on record.
THEOREM RetirementIsAdopted ==
    ASSUME TrackersLeftAlone, "SR" \in Prompt
    PROVE  Spec => RetiredOnlyAdopted
<1>1. RetireInv /\ [Next]_allVars =>
        [ /\ trk["SR"].exists /\ ~trk'["SR"].exists
          /\ IsFenced(trk["SR"].st) /\ trk["SR"].st.recs # NoRecords
          => trk["SR"].st.fence = "adopted" ]_allVars
  BY RetireInvInductive DEF OnlySeen, SawAdoption, LostUnadopted, Settled
<1>2. /\ Init => RetireInv
      /\ RetireInv /\ [Next]_allVars => RetireInv'
  BY RetireInvInductive
<1> QED
  BY <1>1, <1>2, PTL DEF Spec, RetiredOnlyAdopted

=============================================================================
