---------------------------- MODULE TargetCache ----------------------------
(***************************************************************************)
(* The manager of target watches, shared by the two tracker controllers,   *)
(* and the drift it is there to correct.                                   *)
(*                                                                         *)
(* A pass of a tracker asks for a watch on its target's kind and then       *)
(* repairs the target.  The informers of the kinds are bounded by a cap;    *)
(* a registration belongs to one controller.  A target that is changed out *)
(* of band wakes its tracker through the controller's own registration,    *)
(* and otherwise nothing does but the re-authorization of its              *)
(* contributors, whose status write is an event for the tracker.           *)
(***************************************************************************)
EXTENDS Integers, FiniteSets

CONSTANTS
    Trackers,      \* trackers with something to apply
    OwnerOf,       \* the controller (the tracker kind) of each
    KindOf,        \* the kind of the target of each
    MaxGVKs,       \* --max-watched-target-kinds
    Disabled,      \* kinds that are not watched at all
    Timed,         \* the trackers with a contributor whose re-authorization
                   \* is on, recorded and granted
    NoTracker,
    NoOwner,
    MaxDrifted,    \* bound on the targets that have drifted at one time
    MaxFailures    \* bound on failed registrations and restarts

DefaultMaxGVKs == 50

\* New: zero or less means the default.
Cap == IF MaxGVKs <= 0 THEN DefaultMaxGVKs ELSE MaxGVKs

Owners == {OwnerOf[t] : t \in Trackers}
GVKs == {KindOf[t] : t \in Trackers}

ASSUME WatchAssumption ==
    /\ IsFiniteSet(Trackers)
    /\ NoTracker \notin Trackers
    /\ NoOwner \notin Owners
    /\ MaxGVKs \in Int
    /\ Timed \subseteq Trackers
    /\ MaxDrifted \in Nat
    /\ MaxFailures \in Nat

VARIABLES
    watched,       \* the registrations: pairs of a controller and a kind
    mu,            \* who holds the manager's mutex
    worker,        \* per controller its reconcile: tracker and step
    outcome,       \* per tracker what Ensure last said to it
    queue,         \* the trackers waiting to be reconciled
    drifted,       \* the trackers whose target is not as they want it
    failures

vars == <<watched, mu, worker, outcome, queue, drifted, failures>>

Outcomes == {"none", "disabled", "watching", "refused", "failed"}
Steps == {"idle", "lock", "check", "watch", "apply"}
Idle == [t |-> NoTracker, pc |-> "idle"]

Init ==
    /\ watched = {}
    /\ mu = NoOwner
    /\ worker = [o \in Owners |-> Idle]
    /\ outcome = [t \in Trackers |-> "none"]
    /\ queue = Trackers
    /\ drifted = {}
    /\ failures = 0

-----------------------------------------------------------------------------
(* Ensure *)

WatchKey(t) == <<OwnerOf[t], KindOf[t]>>

\* distinctGVKsLocked counts kinds, not registrations: the controllers share
\* the informer of a kind.
WatchedKinds == {k[2] : k \in watched}

GvkWatched(g) == g \in WatchedKinds

\* Mutant: the kind alone is the key.
AlreadyWatched_ByKind(t) == GvkWatched(KindOf[t])

AlreadyWatched(t) == WatchKey(t) \in watched

Full == Cardinality(WatchedKinds) >= Cap

Goto(o, pc) == worker' = [worker EXCEPT ![o] = [t |-> worker[o].t, pc |-> pc]]

\* Reconcile: ensureTargetWatch comes first, and a kind that is disabled is
\* not watched.
StartPass(t) ==
    LET o == OwnerOf[t] IN
    /\ t \in queue /\ worker[o].pc = "idle"
    /\ queue' = queue \ {t}
    /\ IF KindOf[t] \in Disabled
       THEN /\ worker' = [worker EXCEPT ![o] = [t |-> t, pc |-> "apply"]]
            /\ outcome' = [outcome EXCEPT ![t] = "disabled"]
       ELSE /\ worker' = [worker EXCEPT ![o] = [t |-> t, pc |-> "lock"]]
            /\ UNCHANGED outcome
    /\ UNCHANGED <<watched, mu, drifted, failures>>

\* Mutant: the mutex is not taken.
Lock_Not(o) ==
    /\ worker[o].pc = "lock"
    /\ Goto(o, "check")
    /\ UNCHANGED <<watched, mu, outcome, queue, drifted, failures>>

Lock(o) ==
    /\ worker[o].pc = "lock"
    /\ mu = NoOwner
    /\ mu' = o
    /\ Goto(o, "check")
    /\ UNCHANGED <<watched, outcome, queue, drifted, failures>>

\* The mutex is released and the caller goes on, whatever the answer was: it is
\* only logged.
Return(o, answer) ==
    /\ outcome' = [outcome EXCEPT ![worker[o].t] = answer]
    /\ mu' = NoOwner
    /\ Goto(o, "apply")

Check(o) ==
    LET t == worker[o].t IN
    /\ worker[o].pc = "check"
    /\ \/ AlreadyWatched(t) /\ Return(o, "watching")
       \/ /\ ~AlreadyWatched(t) /\ Full /\ ~GvkWatched(KindOf[t])
          /\ Return(o, "refused")
       \/ /\ ~AlreadyWatched(t) /\ (~Full \/ GvkWatched(KindOf[t]))
          /\ Goto(o, "watch")
          /\ UNCHANGED <<mu, outcome>>
    /\ UNCHANGED <<watched, queue, drifted, failures>>

\* watchFn: the informer's list is an event for every tracker of the kind.
Watch(o) ==
    LET t == worker[o].t IN
    /\ worker[o].pc = "watch"
    /\ watched' = watched \cup {WatchKey(t)}
    /\ queue' = queue \cup {s \in Trackers : WatchKey(s) = WatchKey(t)}
    /\ Return(o, "watching")
    /\ UNCHANGED <<drifted, failures>>

Fail == failures < MaxFailures /\ failures' = failures + 1

\* A failed registration is not recorded.
WatchFails(o) ==
    /\ worker[o].pc = "watch"
    /\ Fail
    /\ Return(o, "failed")
    /\ UNCHANGED <<watched, queue, drifted>>

\* The rest of the pass brings the target to what the contributors want.  A
\* pass that has applied everything does not ask to be called again.
Repair(o) ==
    /\ worker[o].pc = "apply"
    /\ drifted' = drifted \ {worker[o].t}
    /\ worker' = [worker EXCEPT ![o] = Idle]
    /\ UNCHANGED <<watched, mu, outcome, queue, failures>>

PassStep(o) == Lock(o) \/ Check(o) \/ Watch(o) \/ Repair(o)

-----------------------------------------------------------------------------
(* The rest of the world *)

\* Mutants: only one of the tracker kinds a target can have is tried; no probe
\* whether there is a tracker.
MapFn_Namespaced(t) == {s \in {t} : WatchKey(s) \in watched /\ OwnerOf[s] = "SR"}
MapFn_NoProbe(t) == {t, NoTracker}

\* ensureTargetWatch's mapFn: a change of a target reaches its tracker through
\* the registration of the tracker's own controller.
MapFn(t) == {s \in {t} : WatchKey(s) \in watched}

Drift(t) ==
    /\ t \notin drifted /\ Cardinality(drifted) < MaxDrifted
    /\ drifted' = drifted \cup {t}
    /\ queue' = queue \cup MapFn(t)
    /\ UNCHANGED <<watched, mu, worker, outcome, failures>>

\* reauthorize: the time written into a contributor's status is an event that
\* queues its tracker.
Reauthorized(t) ==
    /\ t \in Timed \ queue
    /\ queue' = queue \cup {t}
    /\ UNCHANGED <<watched, mu, worker, outcome, drifted, failures>>

\* A new process watches nothing and reconciles everything.
Restart ==
    /\ Fail
    /\ watched' = {} /\ mu' = NoOwner
    /\ worker' = [o \in Owners |-> Idle]
    /\ outcome' = [t \in Trackers |-> "none"]
    /\ queue' = Trackers
    /\ UNCHANGED drifted

Next ==
    \/ \E o \in Owners : PassStep(o) \/ WatchFails(o)
    \/ \E t \in Trackers : StartPass(t) \/ Drift(t) \/ Reauthorized(t)
    \/ Restart

\* A pass goes on, what is queued is served in turn, a mutex that is free time
\* and again is obtained, and the timer of the re-authorization fires.
Fairness ==
    /\ \A o \in Owners : WF_vars(Check(o) \/ Watch(o) \/ Repair(o)) /\ SF_vars(Lock(o))
    /\ \A t \in Trackers : SF_vars(StartPass(t)) /\ WF_vars(Reauthorized(t))

Spec == Init /\ [][Next]_vars /\ Fairness

-----------------------------------------------------------------------------
(* Properties *)

TypeOK ==
    /\ watched \in SUBSET (Owners \X GVKs)
    /\ mu \in Owners \cup {NoOwner}
    /\ worker \in [Owners -> [t : Trackers \cup {NoTracker}, pc : Steps]]
    /\ outcome \in [Trackers -> Outcomes]
    /\ queue \in SUBSET Trackers
    /\ drifted \in SUBSET Trackers
    /\ failures \in 0..MaxFailures

\* There are never more informers than the cap allows, although two controllers
\* ask for them at the same time.
CapHolds == Cardinality(WatchedKinds) <= Cap

\* What Ensure said stays true.  A tracker that was told it is watching has the
\* registration of its own controller, whoever asked for the kind before it;
\* one that was refused is of a kind that nobody got.
EnsureKeptItsWord ==
    \A t \in Trackers :
        /\ outcome[t] = "watching" => WatchKey(t) \in watched
        /\ outcome[t] = "refused" => ~GvkWatched(KindOf[t])

\* Drift is repaired.  Under a watch the change itself sees to it; beyond the
\* cap, for a disabled kind and after a failed registration the re-authorization
\* does.
DriftRepaired ==
    \A t \in Trackers :
        t \in drifted /\ (t \in Timed \/ WatchKey(t) \in watched) ~> t \notin drifted

=============================================================================
