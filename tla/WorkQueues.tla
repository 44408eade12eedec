----------------------------- MODULE WorkQueues -----------------------------
(***************************************************************************)
(* What wakes the controllers.  In module Operator any object may be       *)
(* reconciled at any moment, which is right for what must never happen and *)
(* wrong for what must happen: a reconcile runs only when a watch event,   *)
(* filtered by the controllers' predicates, or a requeue has queued its    *)
(* object.  This module adds the work queues to Operator and asks what     *)
(* eventually happens.                                                     *)
(*                                                                         *)
(* The watch on target kinds is left out: it has a cap, and a kind may be  *)
(* excluded from it, so nothing may depend on it.  The informers' resync   *)
(* is left out as well: it replays unchanged objects hours apart, and a    *)
(* controller's predicate drops the replays of its own kind.  What does    *)
(* bring a contributor back is the re-authorization, every ten minutes     *)
(* unless it is switched off.                                              *)
(***************************************************************************)
EXTENDS Operator

CONSTANT
    Reauthorize    \* --reauthorize-after is not zero (by default it is not)

ASSUME ReauthorizeAssumption == Reauthorize \in BOOLEAN

VARIABLE
    queue          \* the objects waiting to be reconciled

queuedVars == <<allVars, queue>>

QueuedInit == Init /\ queue = {}

-----------------------------------------------------------------------------
(* Watch events *)

\* generationOrFinalizerChanged: an event of a contributor queues it, unless
\* the operator's own status write is all that changed.
ContributorChanged(old, new) == old.phase # new.phase \/ old.fin # new.fin

\* trackerChanged: an event of a tracker queues it when the tracker appears or
\* goes, and on a change of what drives its decisions.
CountOf(st) == Cardinality({c \in Contributors : Registered(st, c)})

TrackerChanged(old, new) ==
    \/ old.exists # new.exists
    \/ old.deleting # new.deleting
    \/ old.fin # new.fin
    \/ old.st.fence # new.st.fence
    \/ CountOf(old.st) # CountOf(new.st)

\* Mutant: no watch on contributors.
TrackersOfContributor_Unwatched(c, o) == {}

\* trackersOfContributor: every event of a contributor queues the tracker it is
\* registered with and, for the reconciler of the other kind, which finds no
\* registration, the tracker its own kind calls for.
TrackersOfContributor(c, o) ==
    IF Exists(o) THEN {TrackerKindFor(c)} \cup ({o.ref} \ {NoTracker})
    ELSE {}

\* contributorsOfTracker: every event of a tracker queues whom it lists.
ContributorsOfTracker(o) ==
    {c \in Contributors : o.exists /\ Registered(o.st, c)}

ContributorEvent(c) ==
    LET old == contribCache[c] new == contrib[c] IN
    /\ SyncContributor(c)
    /\ queue' = queue \cup {d \in {c} : ContributorChanged(old, new)}
                      \cup TrackersOfContributor(c, old)
                      \cup TrackersOfContributor(c, new)
    /\ UNCHANGED envVars

TrackerEvent(t) ==
    LET old == trkCache[t] new == trk[t] IN
    /\ SyncTracker(t)
    /\ queue' = queue \cup {s \in {t} : TrackerChanged(old, new)}
                      \cup ContributorsOfTracker(old)
                      \cup ContributorsOfTracker(new)
    /\ UNCHANGED envVars

-----------------------------------------------------------------------------
(* Reconciles *)

\* A reconcile takes its object from the queue.  One that only asks to be
\* called again (a terminating contributor that is still registered, a fenced
\* tracker whose adoption is not flagged) leaves everything as it is, the queue
\* included.
Waits(c) ==
    LET o == contribCache[c] IN
    o.phase = "terminating" /\ o.fin /\ StillRegistered(c, o)

ServeContributor(c) ==
    /\ c \in queue
    /\ worker[KindOf(c)].pc = "idle"
    /\ queue' = queue \ {c}
    /\ \/ StartReconcile(c)
       \/ /\ Exists(contribCache[c]) =>
                FirstStep(c, contribCache[c]) = "idle" /\ ~Waits(c)
          /\ UNCHANGED vars
    /\ UNCHANGED envVars

ServeTracker(t) ==
    /\ t \in queue
    /\ pass[t].pc = "idle"
    /\ queue' = queue \ {t}
    /\ StartPass(t) \/ (~trkCache[t].exists /\ UNCHANGED vars)
    /\ UNCHANGED envVars

\* A reconcile that ends with an error, or asks for it, is queued again.  The
\* one that adds a finalizer asks for it; a write at a stale resourceVersion
\* and an adoption whose successor is gone are errors.  A reconcile that runs to
\* its end asks for the next re-authorization, if that is on.
WorkerRequeues(k) ==
    \/ worker[k].pc \in {"addFin", "adopt"}
    \/ Reauthorize /\ worker[k].pc = "sync"
    \/ Exists(contrib[worker[k].c]) /\ "worker" \notin freshC[worker[k].c]

QueuedWorkerStep(k) ==
    /\ WorkerStep(k)
    /\ queue' = IF worker'[k].pc = "idle" /\ WorkerRequeues(k)
                THEN queue \cup {worker[k].c} ELSE queue

\* A pass asks to be called again when it unfenced its tracker, gave it a
\* finalizer, met a target that changed under it or left a contributor waiting
\* for the target; a failed revert and a stale write are errors.
PassRequeues(t) ==
    \/ pass[t].pc \in {"unfence", "addFin", "release", "apply"}
    \/ pass[t].pc = "status" /\ pass[t].waiting # {}
    \/ pass[t].pc = "dropFin" /\ trk[t].exists /\ "pass" \notin freshT[t]

QueuedTrackerStep(t) ==
    /\ TrackerStep(t)
    /\ queue' = IF pass'[t].pc = "idle" /\ PassRequeues(t)
                THEN queue \cup {t} ELSE queue

QueuedAbort ==
    /\ AbortStep
    /\ queue' = queue
            \cup {worker[k].c : k \in {j \in Kinds : worker'[j] # worker[j]}}
            \cup {t \in Trackers : pass'[t] # pass[t]}

QueuedEnvironment == (UserStep \/ OutOfBandStep) /\ UNCHANGED queue

EventStep ==
    \/ \E c \in Contributors : ContributorEvent(c)
    \/ \E t \in Trackers : TrackerEvent(t)

QueuedNext ==
    \/ EventStep
    \/ /\ Delivered
       /\ \/ QueuedEnvironment
          \/ QueuedAbort
          \/ \E c \in Contributors : ServeContributor(c)
          \/ \E k \in Kinds : QueuedWorkerStep(k)
          \/ \E t \in Trackers : ServeTracker(t) \/ QueuedTrackerStep(t)

\* Watch events arrive, a reconcile that has begun goes on, and what is queued is
\* served.  A kind's one worker takes its contributors from a queue, so each
\* one's turn comes although the worker is often busy: strong fairness.
Fairness ==
    /\ WF_queuedVars(EventStep)
    /\ \A c \in Contributors : SF_queuedVars(ServeContributor(c))
    /\ \A k \in Kinds : WF_queuedVars(QueuedWorkerStep(k))
    /\ \A t \in Trackers : /\ WF_queuedVars(ServeTracker(t))
                            /\ WF_queuedVars(QueuedTrackerStep(t))

QueuedSpec == QueuedInit /\ [][QueuedNext]_queuedVars /\ Fairness

-----------------------------------------------------------------------------
(* Properties *)

\* A contributor that is deleted eventually goes: its finalizer is not held for
\* ever by a tracker that is never woken to release it.
ReleaseCompletes ==
    \A c \in Contributors :
        contrib[c].phase = "terminating" ~> contrib[c].phase = "gone"

\* A contributor that stays, on a target that exists or that a contributor who
\* stays may create, ends up on the target, and says so.
Converges ==
    \A c \in Contributors :
        <>[](/\ contrib[c].phase = "live"
             /\ target.exists \/ \E d \in Creators : contrib[d].phase = "live")
            => <>[](c \in target.fields /\ contrib[c].ready)

\* A target that a ClusterResourcePatch goes on claiming is eventually tracked
\* by the ClusterSharedResource alone, and stays so.
PromotionCompletes ==
    <>[](\E c \in CRPs : contrib[c].phase = "live")
        => <>[](trk["CSR"].exists /\ ~trk["SR"].exists)

=============================================================================
