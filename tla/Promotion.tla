----------------------------- MODULE Promotion -----------------------------
(***************************************************************************)
(* internal/controller/promotion.go: the migration of a target from its    *)
(* SharedResource to a ClusterSharedResource once a ClusterResourcePatch   *)
(* joins it.                                                               *)
(*                                                                         *)
(* Two processes take part.  The worker of the ClusterResourcePatch kind   *)
(* runs promoteIfNeeded: fence, copy, flag.  The SharedResource's own pass *)
(* runs finishPromotion: it retires the fenced tracker once adoption is    *)
(* flagged, or unfences it when it finds no successor.                     *)
(***************************************************************************)
EXTENDS OperatorState

\* Mutant: the predecessor's provenance replaces the successor's.
AdoptStatus_Overwrites(dst, src) ==
    [dst EXCEPT
        !.fence   = "none",
        !.recs    = [c \in Contributors |->
                        IF dst.recs[c] = "none" THEN src.recs[c] ELSE dst.recs[c]],
        !.owned   = @ \cup src.owned,
        !.creator = src.creator]

\* adoptStatus: what the successor cannot work out for itself is filled in
\* from the predecessor, what it already has is kept, and it is never fenced.
AdoptStatus(dst, src) ==
    [dst EXCEPT
        !.fence   = "none",
        !.recs    = [c \in Contributors |->
                        IF dst.recs[c] = "none" THEN src.recs[c] ELSE dst.recs[c]],
        !.owned   = @ \cup src.owned,
        !.creator = IF @ = NoOne THEN src.creator ELSE @]

\* The reconcile of kind k ends, dropping the copy of the contributor it held.
EndWorker(k, c) ==
    /\ worker' = [worker EXCEPT ![k] = IdleWorker]
    /\ freshC' = [freshC EXCEPT ![c] = @ \ {"worker"}]

\* ensureTracker after promoteIfNeeded: the cluster tracker is looked up in
\* the cache, and created when the cache does not show it.
EnsureClusterTracker(w) ==
    IF trkCache["CSR"].exists
    THEN [w EXCEPT !.pc = "sync", !.ref = "CSR", !.old = EmptyStatus]
    ELSE [w EXCEPT !.pc = "create", !.ref = "CSR", !.old = EmptyStatus]

\* Step 1.  The fence is read and written against the API server, retrying on
\* conflict.  With no SharedResource there is nothing to promote.
FenceTracker ==
    LET w == worker["CRP"] sr == trk["SR"] IN
    /\ w.pc = "fence"
    /\ IF ~sr.exists
       THEN /\ worker' = [worker EXCEPT !["CRP"] = EnsureClusterTracker(w)]
            /\ UNCHANGED <<trk, freshT>>
       ELSE /\ worker' = [worker EXCEPT !["CRP"].pc = "readOld"]
            /\ IF IsFenced(sr.st)
               THEN UNCHANGED <<trk, freshT>>
               ELSE WriteTracker("SR", [sr EXCEPT !.st.fence = "fenced",
                                                  !.st.releasing = FALSE])
    /\ UNCHANGED <<contrib, contribCache, trkCache, freshC, target, pass>>

\* Step 2 reads the tracker afresh, and goes on with whatever it finds: the
\* fence is not looked at again.  createSuccessor returns at once when
\* adoption is already flagged; otherwise it looks for the successor in the
\* cache.
ReadPredecessor ==
    LET w == worker["CRP"] sr == trk["SR"] IN
    /\ w.pc = "readOld"
    /\ worker' = [worker EXCEPT !["CRP"] =
            IF ~sr.exists THEN EnsureClusterTracker(w)
            ELSE [w EXCEPT
                    !.pc = IF sr.st.fence = "adopted" THEN "flag"
                           ELSE IF trkCache["CSR"].exists THEN "adopt"
                           ELSE "createSuccessor",
                    !.old = [sr.st EXCEPT !.fence = "none", !.releasing = FALSE]]]
    /\ UNCHANGED <<storeVars, cacheVars, target, pass>>

CreateSuccessor ==
    /\ worker["CRP"].pc = "createSuccessor"
    /\ CreateTracker("CSR")
    /\ worker' = [worker EXCEPT !["CRP"].pc = "adopt"]
    /\ UNCHANGED <<contrib, contribCache, trkCache, freshC, target, pass>>

\* The copy, against an uncached read of the successor.  A successor that is
\* gone is an error, which ends the reconcile.
AdoptPredecessor ==
    LET w == worker["CRP"] csr == trk["CSR"] IN
    /\ w.pc = "adopt"
    /\ IF csr.exists
       THEN /\ WriteTracker("CSR", [csr EXCEPT
                    !.st = AdoptStatus(csr.st, w.old)])
            /\ worker' = [worker EXCEPT !["CRP"].pc = "flag"]
            /\ UNCHANGED freshC
       ELSE /\ EndWorker("CRP", w.c)
            /\ UNCHANGED <<trk, freshT>>
    /\ UNCHANGED <<contrib, contribCache, trkCache, target, pass>>

\* Mutant: adoption is never flagged.
FlagAdopted_Forgotten ==
    /\ worker["CRP"].pc = "flag"
    /\ worker' = [worker EXCEPT !["CRP"] = EnsureClusterTracker(@)]
    /\ UNCHANGED <<storeVars, cacheVars, target, pass>>

\* Step 3.  A tracker that is gone, unfenced or already flagged is left alone.
FlagAdopted ==
    LET sr == trk["SR"] IN
    /\ worker["CRP"].pc = "flag"
    /\ IF sr.exists /\ sr.st.fence = "fenced"
       THEN WriteTracker("SR", [sr EXCEPT !.st.fence = "adopted"])
       ELSE UNCHANGED <<trk, freshT>>
    /\ worker' = [worker EXCEPT !["CRP"] = EnsureClusterTracker(@)]
    /\ UNCHANGED <<contrib, contribCache, trkCache, freshC, target, pass>>

-----------------------------------------------------------------------------
(* finishPromotion *)

\* Mutant: the fenced tracker retires without waiting for the flag.
FinishPromotion_Unflagged(o) ==
    CASE ~trkCache["CSR"].exists -> "unfence"
      [] trkCache["CSR"].exists -> IF o.fin THEN "dropFin" ELSE "deleteSelf"

\* What a pass that found its tracker o fenced does next: unfence when the
\* cache shows no successor; otherwise wait for the flag, then drop the
\* finalizer and delete.
FinishPromotion(o) ==
    CASE ~trkCache["CSR"].exists -> "unfence"
      [] trkCache["CSR"].exists /\ o.st.fence # "adopted" -> "idle"
      [] trkCache["CSR"].exists /\ o.st.fence = "adopted" ->
            IF o.fin THEN "dropFin" ELSE "deleteSelf"

\* The status as read is written back without the fence: an Update, accepted
\* only if the tracker has not changed since.
Unfence(t) ==
    /\ pass[t].pc = "unfence"
    /\ UpdateTracker(t, [trk[t] EXCEPT
            !.st = [pass[t].st EXCEPT !.fence = "none",
                                      !.releasing = FALSE]], IdlePass)

=============================================================================
