------------------------------ MODULE Operator ------------------------------
(***************************************************************************)
(* The whole operator on one target: the two contributor workers, the two  *)
(* tracker controllers, the informers, the users who create and delete     *)
(* contributors, and what happens to the target out of band.               *)
(***************************************************************************)
EXTENDS ContributorController, TrackerController

CONSTANTS
    UserDeletes,   \* the contributors users may delete
    Preexisting,   \* the values target.exists may start with
    OutOfBand,     \* what others may do: see OutOfBandActions
    MaxOutOfBand,  \* bound on the number of out-of-band actions
    MaxFailures,   \* bound on the number of failed reconciles, where
    FailuresEnd,   \* FailuresEnd says there is one
    Prompt         \* the objects whose watch events are delivered before
                   \* anything else happens: a bound on how far caches lag

VARIABLES
    outOfBand,     \* how many have happened
    failures       \* failed reconciles so far, if they are bounded

OutOfBandActions == {"deleteTarget", "createTarget", "deleteTracker"}

ASSUME EnvironmentAssumption ==
    /\ UserDeletes \subseteq RPs \cup CRPs
    /\ Preexisting \subseteq BOOLEAN
    /\ OutOfBand \subseteq OutOfBandActions
    /\ MaxOutOfBand \in Nat
    /\ MaxFailures \in Nat
    /\ FailuresEnd \in BOOLEAN
    /\ Prompt \subseteq Trackers \cup RPs \cup CRPs

allVars == <<vars, outOfBand, failures>>
envVars == <<outOfBand, failures>>

Init ==
    /\ contrib = [c \in Contributors |-> NoContrib]
    /\ contribCache = contrib
    /\ trk = [t \in Trackers |-> NoTrackerObject]
    /\ trkCache = trk
    /\ freshC = [c \in Contributors |-> {"cache"}]
    /\ freshT = [t \in Trackers |-> {"cache"}]
    /\ target \in {IF e THEN NewTarget({}, Foreign) ELSE NoTarget :
                    e \in Preexisting}
    /\ worker = [k \in Kinds |-> IdleWorker]
    /\ pass = [t \in Trackers |-> IdlePass]
    /\ outOfBand = 0
    /\ failures = 0

-----------------------------------------------------------------------------
(* The environment *)

CreateContributor(c) ==
    /\ contrib[c].phase = "none"
    /\ WriteContrib(c, [NoContrib EXCEPT !.phase = "live"])
    /\ UNCHANGED <<trk, freshT, cacheVars, target, worker, pass, envVars>>

\* Without a finalizer the object goes at once.
DeleteContributor(c) ==
    /\ c \in UserDeletes
    /\ contrib[c].phase = "live"
    /\ WriteContrib(c,
            IF contrib[c].fin THEN [contrib[c] EXCEPT !.phase = "terminating"]
            ELSE [contrib[c] EXCEPT !.phase = "gone", !.ref = NoTracker])
    /\ UNCHANGED <<trk, freshT, cacheVars, target, worker, pass, envVars>>

ChangeTarget ==
    /\ target' = IF target.exists THEN NoTarget ELSE NewTarget({}, Foreign)
    /\ (IF target.exists THEN "deleteTarget" ELSE "createTarget") \in OutOfBand
    /\ UNCHANGED <<storeVars, cacheVars, worker, pass>>

UserDeletesTracker(t) ==
    /\ "deleteTracker" \in OutOfBand
    /\ trk[t].exists /\ ~trk[t].deleting
    /\ WriteTracker(t, Deleted(trk[t]))
    /\ UNCHANGED <<contrib, freshC, cacheVars, target, worker, pass>>

OutOfBandStep ==
    /\ outOfBand < MaxOutOfBand
    /\ outOfBand' = outOfBand + 1
    /\ ChangeTarget \/ \E t \in Trackers : UserDeletesTracker(t)
    /\ UNCHANGED failures

UserStep ==
    \E c \in Contributors : CreateContributor(c) \/ DeleteContributor(c)

-----------------------------------------------------------------------------

StartWorker(c) == StartReconcile(c) /\ UNCHANGED envVars

WorkerStep(k) ==
    /\ \/ ContributorStep(k)
       \/ k = "RP" /\ (LookupClusterTracker \/ LookupOwnTracker)
       \/ k = "CRP" /\ PromotionStep
    /\ UNCHANGED envVars

StartTracker(t) == StartPass(t) /\ UNCHANGED envVars
TrackerStep(t) == PassStep(t) /\ UNCHANGED envVars

SyncStep ==
    /\ \/ \E c \in Contributors : SyncContributor(c)
       \/ \E t \in Trackers : SyncTracker(t)
    /\ UNCHANGED envVars

\* A failed call, or the death of the process, ends a reconcile.  Without a
\* bound it may happen at any time; a run that asks what must eventually happen
\* bounds it.
AbortStep ==
    /\ FailuresEnd => failures < MaxFailures
    /\ failures' = IF FailuresEnd THEN failures + 1 ELSE failures
    /\ \/ \E k \in Kinds : AbortWorker(k)
       \/ \E t \in Trackers : AbortPass(t) \/ ReportFailure(t)
    /\ UNCHANGED outOfBand

Delivered ==
    /\ \A t \in Trackers \cap Prompt : "cache" \in freshT[t]
    /\ \A c \in Contributors \cap Prompt : "cache" \in freshC[c]

Next ==
    \/ SyncStep
    \/ /\ Delivered
       /\ \/ UserStep
          \/ OutOfBandStep
          \/ AbortStep
          \/ \E c \in Contributors : StartWorker(c)
          \/ \E k \in Kinds : WorkerStep(k)
          \/ \E t \in Trackers : StartTracker(t) \/ TrackerStep(t)

Spec == Init /\ [][Next]_allVars

-----------------------------------------------------------------------------
(* Properties *)

\* Optimistic concurrency does its work: the pass that may still update a
\* tracker's status holds the status the API server holds, of a tracker that
\* exists, and the cache it would re-read is current if it passes for it.
\* Everything the status writes promise (the fence survives, the creator is
\* kept) rests on it.
FreshCopiesAgree ==
    \A t \in Trackers :
        /\ "cache" \in freshT[t] => trkCache[t] = trk[t]
        /\ "pass" \in freshT[t] => trk[t].exists /\ pass[t].st = trk[t].st

\* What a reconcile in progress needs it has: a worker its contributor and,
\* once it is settled, the tracker to create; a pass in a loop somebody to
\* visit.
ReconcilesEquipped ==
    /\ \A k \in Kinds :
        /\ worker[k].pc # "idle" => worker[k].c \in Contributors
        /\ worker[k].pc = "create" => worker[k].ref \in Trackers
    /\ \A t \in Trackers :
        pass[t].pc \in {"release", "exists", "apply", "provenance"}
            => pass[t].todo # {}

\* A committed fence stays.  No status write of an in-flight pass clears it,
\* however stale its copy: only finishPromotion lifts it, having found no
\* successor.
FenceDurable ==
    [][ /\ trk["SR"].exists /\ trk'["SR"].exists
        /\ IsFenced(trk["SR"].st) /\ ~IsFenced(trk'["SR"].st)
        => pass["SR"].pc = "unfence" ]_allVars

\* The creator of the target is recorded once.  For as long as the tracker
\* lives no pass, re-read or adoption replaces or forgets it.
CreatorKept ==
    [][ \A t \in Trackers :
            trk[t].exists /\ trk'[t].exists /\ trk[t].st.creator # NoOne
            => trk'[t].st.creator = trk[t].st.creator ]_allVars

\* A fenced tracker that still lists contributors goes only once the successor
\* is known to have adopted its state.
RetiredOnlyAdopted ==
    [][ /\ trk["SR"].exists /\ ~trk'["SR"].exists
        /\ IsFenced(trk["SR"].st) /\ trk["SR"].st.recs # NoRecords
        => trk["SR"].st.fence = "adopted" ]_allVars

\* A contributor that had reported Ready takes its fields with it: once its
\* object is gone, the target carries nothing of it (unless it asked to leave
\* its fields).
ReadyLeavesNothing ==
    \A c \in Contributors \ Orphaners :
        contrib[c].phase = "gone" /\ contrib[c].ready => c \notin target.fields

\* The operator never deletes an object that carries the fields of a
\* contributor nobody has deleted: the reference count is not an undercount.
DeletedOnlyUnused ==
    [][ \A t \in Trackers : pass[t].pc = "deleteTarget" /\ target' # target
            => \A c \in target.fields : contrib[c].phase # "live" ]_allVars

-----------------------------------------------------------------------------
(* What the operator promises, seen without the machinery *)

Shared == INSTANCE SharedObject WITH
            phase  <- [c \in Contributors |-> contrib[c].phase],
            ready  <- [c \in Contributors |-> contrib[c].ready],
            object <- target,
            Nobody <- NoOne

\* Trackers, caches and reconciles together behave as one shared object whose
\* contributors are told the truth and whose deletion waits for the last of them.
ImplementsSharedObject == Shared!Spec

=============================================================================
