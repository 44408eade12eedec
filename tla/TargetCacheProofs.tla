------------------------- MODULE TargetCacheProofs -------------------------
(***************************************************************************)
(* For any trackers, kinds and cap: the cap holds and Ensure keeps its     *)
(* word.                                                                   *)
(*                                                                         *)
(* Both rest on the mutex.  The strengthening says that whoever is between *)
(* the check and the record holds it, so that what the check found is      *)
(* still so; and that a tracker that was refused found the manager full,   *)
(* from where on no new kind can come in.                                  *)
(***************************************************************************)
EXTENDS TargetCache, FiniteSetTheorems, TLAPS

Exclusive ==
    \A o \in Owners : worker[o].pc \in {"check", "watch"} => mu = o

Occupied ==
    \A o \in Owners : worker[o].pc # "idle" => worker[o].t \in Trackers

RoomFor(g) == Cardinality(WatchedKinds) < Cap \/ g \in WatchedKinds

Checked ==
    \A o \in Owners : worker[o].pc = "watch" => RoomFor(KindOf[worker[o].t])

FullOnceRefused ==
    \A t \in Trackers : outcome[t] = "refused" => Cardinality(WatchedKinds) >= Cap

IInv ==
    /\ TypeOK
    /\ Exclusive /\ Occupied /\ Checked
    /\ CapHolds
    /\ FullOnceRefused
    /\ EnsureKeptItsWord

-----------------------------------------------------------------------------

LEMMA CapType == Cap \in Nat \ {0}
  BY WatchAssumption DEF Cap, DefaultMaxGVKs

LEMMA OwnerType ==
  ASSUME NEW t \in Trackers
  PROVE  OwnerOf[t] \in Owners /\ KindOf[t] \in GVKs /\ WatchKey(t) \in Owners \X GVKs
  BY DEF Owners, GVKs, WatchKey

LEMMA FiniteKinds ==
  ASSUME TypeOK
  PROVE  IsFiniteSet(WatchedKinds) /\ Cardinality(WatchedKinds) \in Nat
  <1>1. IsFiniteSet(GVKs)
    <2> DEFINE f == [t \in Trackers |-> KindOf[t]]
    <2>1. f \in Surjection(Trackers, GVKs)  BY DEF GVKs, Surjection
    <2> QED  BY <2>1, WatchAssumption, FS_Surjection
  <1>2. WatchedKinds \subseteq GVKs  BY DEF WatchedKinds, TypeOK
  <1> QED  BY <1>1, <1>2, FS_Subset, FS_CardinalityType

LEMMA KindsStay == UNCHANGED watched => WatchedKinds' = WatchedKinds
  BY DEF WatchedKinds

LEMMA OneMoreKind ==
  ASSUME TypeOK, NEW t \in Trackers, watched' = watched \cup {WatchKey(t)}
  PROVE  /\ WatchedKinds' = WatchedKinds \cup {KindOf[t]}
         /\ Cardinality(WatchedKinds') =
                IF KindOf[t] \in WatchedKinds THEN Cardinality(WatchedKinds)
                ELSE Cardinality(WatchedKinds) + 1
  <1>1. WatchKey(t)[2] = KindOf[t]  BY DEF WatchKey
  <1>2. WatchedKinds' = WatchedKinds \cup {KindOf[t]}
    BY <1>1, Zenon DEF WatchedKinds
  <1> QED  BY <1>2, FiniteKinds, FS_AddElement

LEMMA InitInv == Init => IInv
  <1> SUFFICES ASSUME Init PROVE IInv  OBVIOUS
  <1>1. TypeOK  BY WatchAssumption DEF Init, TypeOK, Idle, Steps, Outcomes
  <1>2. WatchedKinds = {}  BY DEF Init, WatchedKinds
  <1>3. Cardinality(WatchedKinds) = 0  BY <1>2, FS_EmptySet
  <1>4. CapHolds  BY <1>3, CapType DEF CapHolds
  <1>5. Exclusive /\ Occupied /\ Checked  BY DEF Init, Exclusive, Occupied, Checked, Idle
  <1>6. FullOnceRefused /\ EnsureKeptItsWord
    BY DEF Init, FullOnceRefused, EnsureKeptItsWord
  <1> QED  BY <1>1, <1>4, <1>5, <1>6 DEF IInv

\* A step that leaves the registrations and the answers alone.
LEMMA SameWatches ==
  ASSUME IInv, UNCHANGED <<watched, outcome>>
  PROVE  CapHolds' /\ FullOnceRefused' /\ EnsureKeptItsWord'
  BY KindsStay DEF IInv, CapHolds, FullOnceRefused, EnsureKeptItsWord, GvkWatched

LEMMA TypeKept ==
  ASSUME IInv, [Next]_vars
  PROVE  TypeOK'
<1> USE DEF IInv, TypeOK, Steps, Outcomes
<1>1. ASSUME NEW t \in Trackers, StartPass(t) PROVE TypeOK'
  <2>1. OwnerOf[t] \in Owners  BY OwnerType
  <2>2. CASE KindOf[t] \in Disabled  BY <1>1, <2>1, <2>2 DEF StartPass
  <2>3. CASE KindOf[t] \notin Disabled  BY <1>1, <2>1, <2>3 DEF StartPass
  <2> QED  BY <2>2, <2>3
<1>2. ASSUME NEW o \in Owners, Lock(o) PROVE TypeOK'
  BY <1>2 DEF Lock, Goto
<1>3. ASSUME NEW o \in Owners, NEW a \in Outcomes, Return(o, a)
      PROVE  /\ outcome' \in [Trackers -> Outcomes] /\ mu' \in Owners \cup {NoOwner}
             /\ worker' \in [Owners -> [t : Trackers \cup {NoTracker}, pc : Steps]]
  BY <1>3 DEF Return, Goto
<1>4. ASSUME NEW o \in Owners, Check(o) PROVE TypeOK'
  <2>1. CASE Return(o, "watching") \/ Return(o, "refused")
    BY <1>3, <1>4, <2>1 DEF Check
  <2>2. CASE Goto(o, "watch") /\ UNCHANGED <<mu, outcome>>
    BY <1>4, <2>2 DEF Check, Goto
  <2> QED  BY <1>4, <2>1, <2>2 DEF Check
<1>5. ASSUME NEW o \in Owners, Watch(o) PROVE TypeOK'
  <2>1. worker[o].t \in Trackers  BY <1>5 DEF Watch, Occupied
  <2>2. watched' \in SUBSET (Owners \X GVKs)  BY <1>5, <2>1, OwnerType DEF Watch
  <2>3. queue' \in SUBSET Trackers  BY <1>5 DEF Watch
  <2> QED  BY <1>3, <1>5, <2>2, <2>3 DEF Watch
<1>6. ASSUME NEW o \in Owners, WatchFails(o) PROVE TypeOK'
  BY <1>3, <1>6, WatchAssumption DEF WatchFails, Fail
<1>7. ASSUME NEW o \in Owners, Repair(o) PROVE TypeOK'
  BY <1>7 DEF Repair, Idle
<1>8. ASSUME NEW t \in Trackers, Drift(t) \/ Reauthorized(t) PROVE TypeOK'
  BY <1>8, WatchAssumption DEF Drift, Reauthorized, MapFn
<1>9. CASE Restart
  BY <1>9, WatchAssumption DEF Restart, Fail, Idle
<1>10. CASE UNCHANGED vars
  BY <1>10 DEF vars
<1> QED
  BY <1>1, <1>2, <1>4, <1>5, <1>6, <1>7, <1>8, <1>9, <1>10 DEF Next, PassStep

\* The part of the invariant that speaks of the workers, when one of them, o,
\* moves.
LEMMA WorkersKept ==
  ASSUME IInv, NEW o \in Owners, NEW w, worker' = [worker EXCEPT ![o] = w],
         w.pc # "idle" => w.t \in Trackers,
         w.pc \in {"check", "watch"} => mu' = o,
         w.pc = "watch" => RoomFor(KindOf[w.t])',
         mu' = mu \/ mu = o \/ mu = NoOwner,
         UNCHANGED watched
  PROVE  Exclusive' /\ Occupied' /\ Checked'
  <1>1. worker \in [Owners -> [t : Trackers \cup {NoTracker}, pc : Steps]]
    BY DEF IInv, TypeOK
  <1>2. worker'[o] = w /\ \A q \in Owners \ {o} : worker'[q] = worker[q]  BY <1>1
  <1>3. \A g : RoomFor(g)' <=> RoomFor(g)  BY KindsStay DEF RoomFor
  <1>4. Exclusive'  BY <1>2, WatchAssumption DEF IInv, Exclusive
  <1>5. Occupied'  BY <1>2 DEF IInv, Occupied
  <1>6. ASSUME NEW q \in Owners, worker'[q].pc = "watch"
        PROVE  RoomFor(KindOf[worker[q].t])'
    <2>1. CASE q = o
      <3>1. worker'[q].t = w.t /\ RoomFor(KindOf[w.t])'  BY <1>2, <1>6, <2>1
      <3> QED  BY <3>1 DEF RoomFor
    <2>2. CASE q # o
      <3>1. RoomFor(KindOf[worker[q].t]) /\ worker'[q] = worker[q]
        BY <1>2, <1>6, <2>2 DEF IInv, Checked
      <3> QED  BY <3>1, KindsStay DEF RoomFor
    <2> QED  BY <2>1, <2>2
  <1> QED  BY <1>4, <1>5, <1>6 DEF Checked

\* Ensure answers t without a registration of its own making.
LEMMA Answered ==
  ASSUME IInv, NEW t \in Trackers, NEW a \in Outcomes,
         outcome' = [outcome EXCEPT ![t] = a], UNCHANGED watched,
         a = "watching" => WatchKey(t) \in watched,
         a = "refused" => Full /\ ~GvkWatched(KindOf[t])
  PROVE  CapHolds' /\ FullOnceRefused' /\ EnsureKeptItsWord'
  <1>1. outcome \in [Trackers -> Outcomes]  BY DEF IInv, TypeOK
  <1>2. outcome'[t] = a /\ \A u \in Trackers \ {t} : outcome'[u] = outcome[u]  BY <1>1
  <1>3. CapHolds'  BY KindsStay DEF IInv, CapHolds
  <1>4. FullOnceRefused'  BY <1>2, KindsStay DEF IInv, FullOnceRefused, Full
  <1>5. EnsureKeptItsWord'
    BY <1>2, KindsStay DEF IInv, EnsureKeptItsWord, GvkWatched
  <1> QED  BY <1>3, <1>4, <1>5

LEMMA InvKept ==
  ASSUME IInv, [Next]_vars
  PROVE  IInv'
<1>w. worker \in [Owners -> [t : Trackers \cup {NoTracker}, pc : Steps]]
  BY DEF IInv, TypeOK
<1>t. TypeOK'  BY TypeKept
<1> SUFFICES /\ Exclusive' /\ Occupied' /\ Checked'
             /\ CapHolds' /\ FullOnceRefused' /\ EnsureKeptItsWord'
  BY <1>t DEF IInv
<1>1. ASSUME NEW t \in Trackers, StartPass(t)
      PROVE  /\ Exclusive' /\ Occupied' /\ Checked'
             /\ CapHolds' /\ FullOnceRefused' /\ EnsureKeptItsWord'
  <2> DEFINE o == OwnerOf[t]
  <2>1. o \in Owners  BY OwnerType
  <2>2. CASE KindOf[t] \in Disabled
    <3>1. /\ worker' = [worker EXCEPT ![o] = [t |-> t, pc |-> "apply"]]
          /\ outcome' = [outcome EXCEPT ![t] = "disabled"]
          /\ UNCHANGED <<watched, mu>>
      BY <1>1, <2>2 DEF StartPass
    <3>2. Exclusive' /\ Occupied' /\ Checked'  BY <2>1, <3>1, WorkersKept
    <3>3. CapHolds' /\ FullOnceRefused' /\ EnsureKeptItsWord'
      BY <3>1, Answered DEF Outcomes
    <3> QED  BY <3>2, <3>3
  <2>3. CASE KindOf[t] \notin Disabled
    <3>1. /\ worker' = [worker EXCEPT ![o] = [t |-> t, pc |-> "lock"]]
          /\ UNCHANGED <<watched, mu, outcome>>
      BY <1>1, <2>3 DEF StartPass
    <3>2. Exclusive' /\ Occupied' /\ Checked'  BY <2>1, <3>1, WorkersKept
    <3> QED  BY <3>1, <3>2, SameWatches
  <2> QED  BY <2>2, <2>3
<1>2. ASSUME NEW o \in Owners, Lock(o)
      PROVE  /\ Exclusive' /\ Occupied' /\ Checked'
             /\ CapHolds' /\ FullOnceRefused' /\ EnsureKeptItsWord'
  <2>1. worker' = [worker EXCEPT ![o] = [t |-> worker[o].t, pc |-> "check"]]
    BY <1>2, <1>w DEF Lock, Goto
  <2>2. worker[o].t \in Trackers  BY <1>2 DEF Lock, IInv, Occupied
  <2>3. mu = NoOwner /\ mu' = o /\ UNCHANGED <<watched, outcome>>  BY <1>2 DEF Lock
  <2>4. Exclusive' /\ Occupied' /\ Checked'  BY <2>1, <2>2, <2>3, WorkersKept
  <2> QED  BY <2>3, <2>4, SameWatches
<1>3. ASSUME NEW o \in Owners, NEW a, Return(o, a), worker[o].pc \in {"check", "watch"},
             UNCHANGED watched
      PROVE  Exclusive' /\ Occupied' /\ Checked'
  <2>1. worker' = [worker EXCEPT ![o] = [t |-> worker[o].t, pc |-> "apply"]]
    BY <1>3, <1>w DEF Return, Goto
  <2>2. worker[o].t \in Trackers /\ mu = o  BY <1>3 DEF IInv, Occupied, Exclusive
  <2> QED  BY <2>1, <2>2, <1>3, WorkersKept
<1>4. ASSUME NEW o \in Owners, Check(o)
      PROVE  /\ Exclusive' /\ Occupied' /\ Checked'
             /\ CapHolds' /\ FullOnceRefused' /\ EnsureKeptItsWord'
  <2> DEFINE t == worker[o].t
  <2>1. t \in Trackers /\ mu = o  BY <1>4 DEF Check, IInv, Occupied, Exclusive
  <2>2. CASE \/ AlreadyWatched(t) /\ Return(o, "watching")
             \/ Full /\ ~GvkWatched(KindOf[t]) /\ Return(o, "refused")
    <3>1. PICK a \in {"watching", "refused"} :
             /\ Return(o, a)
             /\ a = "watching" => AlreadyWatched(t)
             /\ a = "refused" => Full /\ ~GvkWatched(KindOf[t])
      BY <2>2
    <3>2. UNCHANGED watched /\ worker[o].pc = "check"  BY <1>4 DEF Check
    <3>3. Exclusive' /\ Occupied' /\ Checked'  BY <1>3, <3>1, <3>2
    <3>4. CapHolds' /\ FullOnceRefused' /\ EnsureKeptItsWord'
      BY <2>1, <3>1, <3>2, Answered DEF Return, AlreadyWatched, Outcomes
    <3> QED  BY <3>3, <3>4
  <2>3. CASE /\ ~Full \/ GvkWatched(KindOf[t])
             /\ Goto(o, "watch") /\ UNCHANGED <<mu, outcome>>
    <3>1. worker' = [worker EXCEPT ![o] = [t |-> t, pc |-> "watch"]]
      BY <2>3, <1>w DEF Goto
    <3>2. UNCHANGED watched  BY <1>4 DEF Check
    <3>3. RoomFor(KindOf[t])
      BY <2>3, FiniteKinds, CapType DEF RoomFor, Full, GvkWatched, IInv
    <3>4. Cardinality(WatchedKinds') < Cap \/ KindOf[t] \in WatchedKinds'
      BY <3>2, <3>3, KindsStay DEF RoomFor
    <3>5. Exclusive' /\ Occupied' /\ Checked'
      BY <2>1, <2>3, <3>1, <3>2, <3>4, WorkersKept DEF RoomFor
    <3> QED  BY <2>3, <3>2, <3>5, SameWatches
  <2> QED  BY <1>4, <2>2, <2>3 DEF Check
<1>5. ASSUME NEW o \in Owners, Watch(o)
      PROVE  /\ Exclusive' /\ Occupied' /\ Checked'
             /\ CapHolds' /\ FullOnceRefused' /\ EnsureKeptItsWord'
  <2> DEFINE t == worker[o].t
  <2>1. t \in Trackers /\ mu = o /\ RoomFor(KindOf[t])
    BY <1>5 DEF Watch, IInv, Occupied, Exclusive, Checked
  <2>2. worker' = [worker EXCEPT ![o] = [t |-> t, pc |-> "apply"]] /\ mu' = NoOwner
    BY <1>5, <1>w DEF Watch, Return, Goto
  <2>3. \A q \in Owners \ {o} : worker'[q] = worker[q] /\ worker[q].pc \notin {"check", "watch"}
    BY <2>1, <2>2, <1>w DEF IInv, Exclusive
  <2>4. worker'[o].pc = "apply" /\ worker'[o].t = t  BY <2>2, <1>w
  <2>5. Exclusive' /\ Occupied' /\ Checked'
    BY <2>1, <2>3, <2>4 DEF IInv, Exclusive, Occupied, Checked
  <2>6. watched' = watched \cup {WatchKey(t)}  BY <1>5 DEF Watch
  <2>7. /\ WatchedKinds' = WatchedKinds \cup {KindOf[t]}
        /\ Cardinality(WatchedKinds') =
              IF KindOf[t] \in WatchedKinds THEN Cardinality(WatchedKinds)
              ELSE Cardinality(WatchedKinds) + 1
    BY <2>1, <2>6, OneMoreKind DEF IInv
  <2>8. Cardinality(WatchedKinds) \in Nat /\ Cap \in Nat
    BY FiniteKinds, CapType DEF IInv
  <2>9. CapHolds'
    BY <2>1, <2>7, <2>8 DEF CapHolds, RoomFor, IInv
  <2>10. /\ outcome \in [Trackers -> Outcomes]
         /\ outcome' = [outcome EXCEPT ![t] = "watching"]
    BY <1>5 DEF Watch, Return, IInv, TypeOK
  <2>11. ASSUME NEW u \in Trackers, outcome'[u] = "refused"
         PROVE  /\ Cardinality(WatchedKinds') >= Cap
                /\ KindOf[u] \notin WatchedKinds'
    <3>1. outcome[u] = "refused"  BY <2>10, <2>11
    <3>2. Cardinality(WatchedKinds) >= Cap /\ KindOf[u] \notin WatchedKinds
      BY <3>1 DEF IInv, FullOnceRefused, EnsureKeptItsWord, GvkWatched
    <3>3. KindOf[t] \in WatchedKinds  BY <2>1, <2>8, <3>2 DEF RoomFor
    <3> QED  BY <2>7, <3>2, <3>3
  <2>12. ASSUME NEW u \in Trackers, outcome'[u] = "watching"
         PROVE  WatchKey(u) \in watched'
    BY <2>6, <2>10, <2>12 DEF IInv, EnsureKeptItsWord
  <2> QED
    BY <2>5, <2>9, <2>11, <2>12 DEF FullOnceRefused, EnsureKeptItsWord, GvkWatched
<1>6. ASSUME NEW o \in Owners, WatchFails(o)
      PROVE  /\ Exclusive' /\ Occupied' /\ Checked'
             /\ CapHolds' /\ FullOnceRefused' /\ EnsureKeptItsWord'
  <2>1. worker[o].t \in Trackers  BY <1>6 DEF WatchFails, IInv, Occupied
  <2>2. Exclusive' /\ Occupied' /\ Checked'  BY <1>3, <1>6 DEF WatchFails
  <2> QED  BY <1>6, <2>1, <2>2, Answered DEF WatchFails, Return, Outcomes
<1>7. ASSUME NEW o \in Owners, Repair(o)
      PROVE  /\ Exclusive' /\ Occupied' /\ Checked'
             /\ CapHolds' /\ FullOnceRefused' /\ EnsureKeptItsWord'
  <2>1. Exclusive' /\ Occupied' /\ Checked'  BY <1>7, WorkersKept DEF Repair, Idle
  <2> QED  BY <1>7, <2>1, SameWatches DEF Repair
<1>8. ASSUME UNCHANGED <<watched, mu, worker, outcome>>
      PROVE  /\ Exclusive' /\ Occupied' /\ Checked'
             /\ CapHolds' /\ FullOnceRefused' /\ EnsureKeptItsWord'
  <2>1. Exclusive' /\ Occupied' /\ Checked'
    BY <1>8, KindsStay DEF IInv, Exclusive, Occupied, Checked, RoomFor
  <2> QED  BY <1>8, <2>1, SameWatches
<1>9. ASSUME NEW t \in Trackers, Drift(t) \/ Reauthorized(t)
      PROVE  /\ Exclusive' /\ Occupied' /\ Checked'
             /\ CapHolds' /\ FullOnceRefused' /\ EnsureKeptItsWord'
  BY <1>8, <1>9 DEF Drift, Reauthorized
<1>10. CASE Restart
  <2>1. WatchedKinds' = {}  BY <1>10 DEF Restart, WatchedKinds
  <2>2. CapHolds'  BY <2>1, FS_EmptySet, CapType DEF CapHolds
  <2>3. Exclusive' /\ Occupied' /\ Checked'
    BY <1>10 DEF Restart, Idle, Exclusive, Occupied, Checked
  <2>4. FullOnceRefused' /\ EnsureKeptItsWord'
    BY <1>10 DEF Restart, FullOnceRefused, EnsureKeptItsWord
  <2> QED  BY <2>2, <2>3, <2>4
<1>11. CASE UNCHANGED vars
  BY <1>8, <1>11 DEF vars
<1> QED
  BY <1>1, <1>2, <1>4, <1>5, <1>6, <1>7, <1>9, <1>10, <1>11 DEF Next, PassStep

\* Every variable of the watch manager and of its workers keeps its type; the
\* failures stay within their bound.
THEOREM WatchTypes == Spec => []TypeOK
  <1>1. IInv => TypeOK  BY DEF IInv
  <1> QED  BY <1>1, InitInv, InvKept, PTL DEF Spec

\* For any cap and any number of controllers, kinds and trackers, concurrent
\* calls of Ensure never start more informers than the cap allows.
THEOREM CapIsKept == Spec => []CapHolds
  <1>1. IInv => CapHolds  BY DEF IInv
  <1> QED  BY <1>1, InitInv, InvKept, PTL DEF Spec

\* What Ensure tells a tracker stays true until the process ends: no controller
\* takes another's registration for its own, and no kind that was refused to one
\* tracker is given to another.
THEOREM EnsureIsHonest == Spec => []EnsureKeptItsWord
  <1>1. IInv => EnsureKeptItsWord  BY DEF IInv
  <1> QED  BY <1>1, InitInv, InvKept, PTL DEF Spec

=============================================================================
