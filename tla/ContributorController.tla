----------------------- MODULE ContributorController -----------------------
(***************************************************************************)
(* internal/controller/contributor_controller.go: the reconciler of        *)
(* ResourcePatch and of ClusterResourcePatch.  It writes no target.  It    *)
(* holds the contributor's finalizer, makes sure a tracker of the right    *)
(* kind exists, records where the contributor is registered and mirrors    *)
(* the tracker's verdict.                                                  *)
(*                                                                         *)
(* Each kind has one worker.  The contributor and the trackers are read    *)
(* from the informer cache, except where the code asks the APIReader.      *)
(***************************************************************************)
EXTENDS Promotion

\* Mutant: the finalizer is not held for the tracker.
StillRegistered_NotAsked(c, o) == FALSE

\* reconcileDelete: the tracker recorded in status, as the cache shows it,
\* still lists the contributor.  A tracker that is not there does not.
StillRegistered(c, o) ==
    /\ o.ref # NoTracker
    /\ trkCache[o.ref].exists
    /\ Registered(trkCache[o.ref].st, c)

\* The first write of a reconcile of contributor c read as o, or "idle" when
\* it makes none.  A terminating contributor that is still registered is
\* looked at again two seconds later.
FirstStep(c, o) ==
    CASE o.phase = "terminating" /\ ~o.fin                 -> "idle"
      [] o.phase = "terminating" /\ StillRegistered(c, o)  -> "idle"
      [] o.phase = "terminating" /\ o.fin
                                 /\ ~StillRegistered(c, o) -> "dropFin"
      [] o.phase = "live" /\ c \in Invalid                 -> "setInvalid"
      [] o.phase = "live" /\ c \notin Invalid /\ ~o.fin    -> "addFin"
      [] o.phase = "live" /\ c \in CRPs \ Invalid /\ o.fin -> "fence"
      [] o.phase = "live" /\ c \in RPs \ Invalid /\ o.fin  -> "lookup"

\* Reconcile: read the contributor from the cache and dispatch.
StartReconcile(c) ==
    LET k == KindOf(c) o == contribCache[c] IN
    /\ worker[k].pc = "idle"
    /\ Exists(o)
    /\ FirstStep(c, o) # "idle"
    /\ worker' = [worker EXCEPT ![k] =
            [IdleWorker EXCEPT !.pc = FirstStep(c, o), !.c = c]]
    /\ freshC' = [freshC EXCEPT ![c] =
            IF "cache" \in @ THEN @ \cup {"worker"} ELSE @ \ {"worker"}]
    /\ UNCHANGED <<contrib, trk, freshT, cacheVars, target, pass>>

\* An Update or Status().Update of the contributor from the worker's copy:
\* accepted only at the current resourceVersion, refused with an error that
\* ends the reconcile otherwise.
UpdateContributor(k, o) ==
    LET c == worker[k].c IN
    /\ IF Exists(contrib[c]) /\ "worker" \in freshC[c]
       THEN WriteContrib(c, o)
       ELSE /\ freshC' = [freshC EXCEPT ![c] = @ \ {"worker"}]
            /\ UNCHANGED contrib
    /\ worker' = [worker EXCEPT ![k] = IdleWorker]
    /\ UNCHANGED <<contribCache, trk, trkCache, freshT, target, pass>>

SetInvalid(k) ==
    /\ worker[k].pc = "setInvalid"
    /\ UpdateContributor(k, [contrib[worker[k].c] EXCEPT !.ready = FALSE])

\* The finalizer lands in a reconcile of its own, before any registration.
AddFinalizer(k) ==
    /\ worker[k].pc = "addFin"
    /\ UpdateContributor(k, [contrib[worker[k].c] EXCEPT !.fin = TRUE])

\* The last finalizer goes, and a terminating object with it.
DropFinalizer(k) ==
    /\ worker[k].pc = "dropFin"
    /\ UpdateContributor(k, [contrib[worker[k].c] EXCEPT !.fin = FALSE,
                                !.phase = "gone", !.ref = NoTracker])

\* ensureTracker for a ResourcePatch: an existing ClusterSharedResource, read
\* uncached, is joined.
LookupClusterTracker ==
    /\ worker["RP"].pc = "lookup"
    /\ worker' = [worker EXCEPT !["RP"] =
            IF trk["CSR"].exists THEN [@ EXCEPT !.pc = "sync", !.ref = "CSR"]
            ELSE [@ EXCEPT !.pc = "lookupOwn"]]
    /\ UNCHANGED <<storeVars, cacheVars, target, pass>>

\* Otherwise the SharedResource is looked up in the cache, a fenced one
\* pointing on to its successor, and created when the cache does not show it.
LookupOwnTracker ==
    LET sr == trkCache["SR"] IN
    /\ worker["RP"].pc = "lookupOwn"
    /\ worker' = [worker EXCEPT !["RP"] = [@ EXCEPT
            !.pc  = IF sr.exists THEN "sync" ELSE "create",
            !.ref = IF sr.exists /\ IsFenced(sr.st) THEN "CSR" ELSE "SR"]]
    /\ UNCHANGED <<storeVars, cacheVars, target, pass>>

\* Create, with AlreadyExists taken as success.
CreateTrackerFor(k) ==
    LET w == worker[k] IN
    /\ w.pc = "create"
    /\ CreateTracker(w.ref)
    /\ worker' = [worker EXCEPT ![k].pc = "sync"]
    /\ UNCHANGED <<contrib, contribCache, trkCache, freshC, target, pass>>

\* syncStatus: record the registration, and mirror the tracker's verdict as
\* the cache shows it.  A missing tracker or record counts as waiting.  (The
\* cached read is taken together with the write: a cache that lags stands for
\* a read that was made earlier.)
SyncStatus(k) ==
    LET w == worker[k] t == trkCache[w.ref] IN
    /\ w.pc = "sync"
    /\ UpdateContributor(k, [contrib[w.c] EXCEPT !.ref = w.ref,
            !.ready = t.exists /\ t.st.recs[w.c] = "applied"])

\* Any call may fail, and the process may die between any two of them.  The
\* reconcile is dropped and the contributor queued again.
AbortWorker(k) ==
    /\ worker[k].pc # "idle"
    /\ EndWorker(k, worker[k].c)
    /\ UNCHANGED <<contrib, trk, freshT, cacheVars, target, pass>>

ContributorStep(k) ==
    \/ SetInvalid(k)
    \/ AddFinalizer(k)
    \/ DropFinalizer(k)
    \/ CreateTrackerFor(k)
    \/ SyncStatus(k)

PromotionStep ==
    \/ FenceTracker
    \/ ReadPredecessor
    \/ CreateSuccessor
    \/ AdoptPredecessor
    \/ FlagAdopted

=============================================================================
