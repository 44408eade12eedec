------------------------ MODULE SharedObjectProofs ------------------------
(***************************************************************************)
(* Trackers, caches and reconciles together implement SharedObject, for    *)
(* any number of ResourcePatches.                                          *)
(*                                                                         *)
(* Beyond what module ReleaseProofs establishes, this takes                *)
(* provenance: the object a pass deletes is the one the recorded creator   *)
(* made.  The record outlives the object, in the tracker, in the cache and *)
(* in a pass under way; what keeps it true is that an object deleted with  *)
(* its creator comes back, as long as that creator is being released, only *)
(* as the shell its own withdrawal leaves.                                 *)
(***************************************************************************)
EXTENDS ReleaseProofs, WorkQueues

\* Whoever asks for the object's deletion applies server-side.  A client-side
\* withdrawal leaves no shell: after a deletion that was not recorded, an
\* object made by another contributor passes for the creator's.
DeletersApplyServerSide == ClientSide \cap Deleters = {}

\* The target, if it is there, was made by c, or by a withdrawal.
MadeBy(c) == target.exists => target.maker \in {c, Shell}

Recorded == {SR.st.creator, SRCache.st.creator, SRPass.st.creator}

\* What holds of a creator on record, wherever the record is.  As long as c is
\* not known to leave, its object is there; a pass overlooks c only when it has
\* gone.
CreatorInv(c) ==
    c \in Recorded =>
        /\ c \in RPs /\ Known(c)
        /\ contribCache[c].phase = "live" \/ c \in SRPass.active
                => target.exists /\ MadeBy(c)
        /\ contribCache[c].phase = "terminating" => MadeBy(c)
        /\ SRPass.pc \in Listing /\ c \notin SRPass.active \cup SRPass.releasing
                => contribCache[c].phase = "gone"

\* Where a pass stands with the target: what it saw is what there is, what it
\* is about to record as its creation is, and a creator it has released left an
\* object behind.
StandsInv ==
    LET p == SRPass IN
    /\ ~target.exists => target = NoTarget
    /\ p.pc = "apply" => p.seen.exists = target.exists
    /\ p.pc = "provenance" => target.exists /\ target.maker = First(p.todo)
    /\ p.pc \in {"exists", "apply", "provenance"} /\ p.releasing \cap Deleters # {}
            => target.exists
    /\ p.pc = "release" /\ (p.releasing \cap Deleters) \ p.todo # {}
            => target.exists
    /\ p.pc = "deleteTarget" => WantsDelete(p.st, p.releasing)
    /\ p.pc \in {"release", "deleteTarget"} /\ WantsDelete(p.st, p.releasing)
            => MadeBy(p.st.creator)

MadeInv == StandsInv /\ \A c \in Deleters : CreatorInv(c)

\* Only an invalid contributor is told so.
ToldInvalid == \A k \in Kinds : worker[k].pc = "setInvalid" => worker[k].c \in Invalid

-----------------------------------------------------------------------------
(* Provenance *)

\* What a withdrawal does to the object: a server-side one leaves an object, its
\* shell if there was none.
LEMMA RevertedMaker ==
    ASSUME target \in TargetObject, ~target.exists => target = NoTarget,
           NEW c, NEW p, NEW t, t = Reverted(c, p)
    PROVE  /\ target.exists => t.exists /\ t.maker = target.maker
           /\ ~t.exists => t = NoTarget
           /\ ~target.exists /\ t.exists => t.maker = Shell
           /\ c \notin ClientSide => t.exists
<1>1. CASE c \in ClientSide
  <2>1. t = [target EXCEPT !.fields = @ \ ({c} \cap p.owned)]
    BY <1>1 DEF Reverted
  <2>2. t.exists = target.exists /\ t.maker = target.maker
    BY <2>1 DEF TargetObject
  <2>3. CASE ~target.exists
    <3>1. target.fields = {}
      BY <2>3 DEF NoTarget
    <3>2. t = [target EXCEPT !.fields = {}]
      BY <2>1, <3>1
    <3>3. t = target
      BY <3>1, <3>2 DEF TargetObject
    <3> QED
      BY <1>1, <2>2, <2>3, <3>3
  <2> QED
    BY <1>1, <2>2, <2>3
<1>2. CASE c \notin ClientSide /\ target.exists
  BY <1>2 DEF Reverted, TargetObject
<1>3. CASE c \notin ClientSide /\ ~target.exists
  BY <1>3 DEF Reverted, NewTarget
<1> QED
  BY <1>1, <1>2, <1>3

\* A creator comes on record only with recordProvenance.
LEMMA RecordedFrom ==
    ASSUME ReleaseInv, PassShape, NEW c \in Deleters, c \in Recorded'
    PROVE  c \in Recorded \/ (Records /\ c = First(SRPass.todo))
<1> DEFINE p == SRPass q == SRPass' d == First(SRPass.todo)
<1>1. /\ SR \in TrackerObject /\ SR.st \in TrackerStatus /\ SRCache.st \in TrackerStatus
      /\ p \in Pass /\ p.st \in TrackerStatus
  BY DEF ReleaseInv, Inv, TypeOK, SR, SRCache, SRPass, Trackers, TrackerObject, Pass
<1>2. c # NoOne
  BY ContributorsAssumption, PoliciesAssumption
<1>3. UNCHANGED SRCache
  BY DEF PassShape, Same, SRCache
<1>4. /\ IdlePass.st.creator = NoOne /\ NoTrackerObject.st.creator = NoOne
      /\ [IdlePass EXCEPT !.pc = "deleteSelf"].st.creator = NoOne
  BY DEF IdlePass, NoTrackerObject, EmptyStatus
<1>5. \A st \in TrackerStatus : WithCreator(st, d).creator \in {st.creator, d}
  BY DEF WithCreator, TrackerStatus
<1>6. /\ WithRecords(SR.st, p).creator \in {SR.st.creator, p.st.creator}
      /\ WithPhase(SR.st, p).creator \in {SR.st.creator, p.st.creator}
  BY <1>1 DEF WithRecords, WithPhase, WithKnownCreator, TrackerStatus
<1>7. ASSUME NEW new, Writes(new) PROVE SR'.st.creator \in {SR.st.creator, new.creator}
  BY <1>1, <1>7 DEF Writes, TrackerObject
<1>8. ASSUME UNCHANGED SR, q.st.creator \in {p.st.creator, SRCache.st.creator, NoOne}
      PROVE  c \in Recorded
  BY <1>2, <1>3, <1>8 DEF Recorded
<1>9. CASE Starts \/ Ends \/ Releases \/ Deletes \/ Looks \/ Misses \/ Applies
  <2>1. UNCHANGED SR
    BY <1>9 DEF Starts, Ends, Releases, Deletes, Looks, Misses, Applies
  <2>2. q.st \in {p.st, SRCache.st} \/ q = IdlePass
    BY <1>9 DEF Starts, Ends, Releases, Deletes, Looks, Misses, Applies, ReleasedAll,
       Decided
  <2> QED
    BY <1>4, <1>8, <2>1, <2>2
<1>10. CASE Records
  <2>1. SR'.st.creator \in {SR.st.creator, d}
    BY <1>1, <1>5, <1>7, <1>10 DEF Records
  <2>2. q.st.creator \in {p.st.creator, SRCache.st.creator, d}
    BY <1>1, <1>5, <1>10 DEF Records
  <2> QED
    BY <1>3, <1>10, <2>1, <2>2 DEF Recorded
<1>11. CASE Reports
  <2>1. SR'.st.creator \in {SR.st.creator, p.st.creator}
    BY <1>6, <1>7, <1>11 DEF Reports
  <2>2. q = IdlePass
    BY <1>11 DEF Reports
  <2> QED
    BY <1>2, <1>3, <1>4, <2>1, <2>2 DEF Recorded
<1>12. CASE AddsFinalizer \/ DropsFinalizer \/ Retires
  <2>1. SR'.st.creator \in {SR.st.creator, NoOne}
    BY <1>1, <1>4, <1>12 DEF AddsFinalizer, DropsFinalizer, Retires, TrackerObject
  <2>2. q.st.creator = NoOne
    BY <1>4, <1>12 DEF AddsFinalizer, DropsFinalizer, Retires
  <2> QED
    BY <1>2, <1>3, <2>1, <2>2 DEF Recorded
<1> QED
  BY <1>9, <1>10, <1>11, <1>12 DEF PassShape

\* The target through a step of the pass.
LEMMA TargetSteps ==
    ASSUME ReleaseInv, ReadyInv, Quiet, StandsInv, PassShape
    PROVE  /\ \/ UNCHANGED target
              \/ Releases /\ target' = Reverted(First(SRPass.todo), SRPass)
              \/ Deletes
              \/ Applies /\ target.exists /\ target'.exists /\ target'.maker = target.maker
              \/ Applies /\ ~target.exists
                 /\ target' = NewTarget({First(SRPass.todo)}, First(SRPass.todo))
           /\ Applies => target'.exists
           /\ ~target'.exists => target' = NoTarget
<1> DEFINE c == First(SRPass.todo)
<1>1. target \in TargetObject /\ (~target.exists => target = NoTarget)
  BY DEF ReleaseInv, Inv, TypeOK, StandsInv
<1>2. CASE Applies
  <2>1. c \in SRPass.seen.fields => target.exists
    <3>1. c \in RPs
      BY <1>2 DEF Applies, ReleaseInv, FieldInv
    <3>2. AppliedInv(c) /\ SRPass.pc = "apply"
      BY <1>2, <3>1 DEF ReadyInv, Applies
    <3> QED
      BY <1>1, <3>2 DEF AppliedInv, NoTarget
  <2>2. CASE target.exists /\ target' = [target EXCEPT !.fields = @ \cup {c}]
    BY <1>1, <1>2, <2>2 DEF TargetObject
  <2>3. CASE ~target.exists /\ target' = NewTarget({c}, c)
    BY <1>2, <2>3 DEF NewTarget
  <2>4. CASE target.exists /\ UNCHANGED target
    BY <2>4
  <2> QED
    BY <1>2, <2>1, <2>2, <2>3, <2>4 DEF Applies
<1>3. CASE Releases
  BY <1>1, <1>3, RevertedMaker DEF Releases, Applies
<1>4. CASE Deletes
  BY <1>4 DEF Deletes, Applies
<1>5. CASE \/ Starts \/ Ends \/ Looks \/ Misses \/ Records \/ Reports
           \/ AddsFinalizer \/ DropsFinalizer \/ Retires
  <2>1. UNCHANGED target
    BY <1>5 DEF Starts, Ends, Looks, Misses, Records, Reports, AddsFinalizer,
       DropsFinalizer, Retires
  <2> QED
    BY <1>1, <1>2, <2>1
<1> QED
  BY <1>2, <1>3, <1>4, <1>5 DEF PassShape


\* Where the pass stands with the target after a step of its own.
LEMMA PassKeepsStands ==
    ASSUME DeletersApplyServerSide, Quiet, ReleaseInv, ReadyInv, MadeInv, PassShape
    PROVE  StandsInv'
<1> DEFINE p == SRPass q == SRPass' c == First(SRPass.todo)
           MadeNow(d) == target'.exists => target'.maker \in {d, Shell}
           Rest == /\ q.pc = "apply" => q.seen.exists = target'.exists
                   /\ q.pc = "provenance" => target'.exists /\ target'.maker = First(q.todo)
                   /\ q.pc \in {"exists", "apply", "provenance"} /\ q.releasing \cap Deleters # {}
                           => target'.exists
                   /\ q.pc = "release" /\ (q.releasing \cap Deleters) \ q.todo # {}
                           => target'.exists
                   /\ q.pc = "deleteTarget" => WantsDelete(q.st, q.releasing)
                   /\ q.pc \in {"release", "deleteTarget"} /\ WantsDelete(q.st, q.releasing)
                           => MadeNow(q.st.creator)
<1>1. /\ StandsInv
      /\ ~target'.exists => target' = NoTarget
      /\ target \in TargetObject
  BY TargetSteps DEF MadeInv, ReleaseInv, Inv, TypeOK
<1>2. SUFFICES Rest
  BY <1>1 DEF StandsInv, MadeBy
<1>3. CASE Starts
  <2>1. UNCHANGED target /\ q.st = SRCache.st /\ q.pc \in {"addFin", "dropFin", "release", "exists", "status"}
    BY <1>3 DEF Starts
  <2>2. q.pc = "exists" => q.releasing = {}
    BY <1>3 DEF Starts
  <2>3. q.pc = "release" => q.todo = q.releasing
    BY <1>3 DEF Starts
  <2>4. ASSUME q.pc = "release", WantsDelete(q.st, q.releasing)
        PROVE  MadeNow(q.st.creator)
    <3> DEFINE d == q.st.creator
    <3>1. d \in Deleters /\ d \in Recorded /\ contribCache[d].phase = "terminating"
      BY <1>3, <2>1, <2>4 DEF Starts, WantsDelete, Recorded
    <3>2. MadeBy(SRCache.st.creator)
      BY <2>1, <3>1 DEF MadeInv, CreatorInv
    <3> QED
      BY <2>1, <3>2 DEF MadeBy
  <2> QED
    BY <2>1, <2>2, <2>3, <2>4
<1>4. CASE q.pc \in {"idle", "deleteSelf"}
  BY <1>4
<1>5. CASE Releases
  <2>1. /\ p.pc = "release" /\ c \in p.todo
        /\ target' = IF c \in Orphaners THEN target ELSE Reverted(c, p)
        /\ q.releasing = p.releasing /\ q.st = p.st
    BY <1>5 DEF Releases, ReleasedAll, Decided, SameLists
  <2>2. /\ target.exists => target'.exists /\ target'.maker = target.maker
        /\ ~target.exists /\ target'.exists => target'.maker = Shell
        /\ c \in Deleters => target'.exists
    <3>1. c \in Deleters => c \notin Orphaners /\ c \notin ClientSide
      BY PoliciesAssumption DEF DeletersApplyServerSide
    <3>2. CASE c \in Orphaners
      BY <2>1, <3>1, <3>2
    <3>3. CASE c \notin Orphaners
      BY <1>1, <2>1, <3>1, <3>3, RevertedMaker DEF StandsInv
    <3> QED
      BY <3>2, <3>3
  <2>3. WantsDelete(p.st, p.releasing) => MadeNow(p.st.creator)
    BY <1>1, <2>1, <2>2 DEF StandsInv, MadeBy
  <2>4. CASE q.pc = "release" /\ q.todo = p.todo \ {c}
    <3>1. (q.releasing \cap Deleters) \ q.todo # {} => target'.exists
      BY <1>1, <2>1, <2>2, <2>4 DEF StandsInv
    <3> QED
      BY <2>1, <2>3, <2>4, <3>1
  <2>5. CASE p.todo = {c} /\ ReleasedAll(p, q)
    <3>1. q.releasing \cap Deleters # {} => target'.exists
      BY <1>1, <2>1, <2>2, <2>5 DEF StandsInv
    <3>2. q.pc \in {"exists", "status", "deleteTarget"}
      BY <2>5 DEF ReleasedAll, Decided
    <3>3. q.pc = "deleteTarget" => WantsDelete(q.st, q.releasing)
      BY <2>1, <2>5 DEF ReleasedAll, Decided
    <3> QED
      BY <2>1, <2>3, <3>1, <3>2, <3>3
  <2> QED
    BY <1>5, <2>4, <2>5 DEF Releases
<1>6. CASE Deletes
  <2>1. q.pc = "status"
    BY <1>6 DEF Deletes, Decided, ReleaseInv, FieldInv
  <2> QED
    BY <2>1
<1>7. CASE Looks
  <2>1. /\ p.pc = "exists" /\ q.pc = "apply" /\ UNCHANGED target
        /\ q.seen = Seen(c) /\ q.releasing = p.releasing
    BY <1>7 DEF Looks, SameLists
  <2>2. Seen(c).exists = target.exists
    BY <1>1 DEF Seen, NoTarget
  <2> QED
    BY <1>1, <2>1, <2>2 DEF StandsInv
<1>8. CASE Misses \/ Records
  <2>1. /\ p.pc \in {"exists", "apply", "provenance"} /\ q.pc \in {"exists", "status"}
        /\ UNCHANGED target /\ q.releasing = p.releasing
    BY <1>8 DEF Misses, Records, MovedPast, SameLists
  <2> QED
    BY <1>1, <2>1 DEF StandsInv
<1>9. CASE Applies
  <2>1. /\ p.pc = "apply" /\ q.pc \in {"exists", "status", "provenance"}
        /\ target'.exists
        /\ q.pc = "provenance" => ~p.seen.exists /\ q.todo = p.todo
    BY <1>1, <1>9, TargetSteps DEF Applies, MovedPast, MadeInv
  <2>2. q.pc = "provenance" => target'.maker = First(q.todo)
    <3> SUFFICES ASSUME q.pc = "provenance" PROVE target'.maker = First(q.todo)
      OBVIOUS
    <3>1. ~target.exists
      BY <1>1, <2>1 DEF StandsInv
    <3>2. target' = NewTarget({c}, c)
      BY <2>1, <3>1, <1>9, TargetSteps DEF MadeInv, Releases, Deletes
    <3> QED
      BY <2>1, <3>2 DEF NewTarget
  <2> QED
    BY <2>1, <2>2
<1> QED
  <2>1. CASE Ends \/ Reports \/ AddsFinalizer \/ DropsFinalizer \/ Retires
    BY <1>4, <2>1 DEF Ends, Reports, AddsFinalizer, DropsFinalizer, Retires, IdlePass
  <2> QED
    BY <1>3, <1>5, <1>6, <1>7, <1>8, <1>9, <2>1 DEF PassShape

\* What a creator on record can count on after a step of the pass.
LEMMA PassKeepsCreator ==
    ASSUME Quiet, ReleaseInv, ReadyInv, MadeInv, PassShape, NEW c \in Deleters
    PROVE  CreatorInv(c)'
<1> DEFINE p == SRPass q == SRPass'
<1> SUFFICES ASSUME c \in Recorded' PROVE
        /\ c \in RPs /\ Known(c)
        /\ contribCache[c].phase = "live" \/ c \in q.active
                => target'.exists /\ MadeBy(c)'
        /\ contribCache[c].phase = "terminating" => MadeBy(c)'
        /\ q.pc \in Listing /\ c \notin q.active \cup q.releasing
                => contribCache[c].phase = "gone"
  BY DEF CreatorInv, PassShape, Same, Known
<1>1. CASE Records /\ c = First(p.todo)
  <2>1. /\ p.pc = "provenance" /\ c \in p.todo /\ UNCHANGED target
        /\ q.active = p.active
    BY <1>1 DEF Records, MovedPast, SameLists
  <2>2. target.exists /\ target.maker = c
    BY <1>1, <2>1 DEF MadeInv, StandsInv
  <2>3. c \in p.active /\ c \in RPs /\ Known(c)
    BY <2>1 DEF ReleaseInv, FieldInv
  <2> QED
    BY <2>1, <2>2, <2>3 DEF MadeBy
<1>2. CASE c \in Recorded
  <2>1. /\ c \in RPs /\ Known(c)
        /\ contribCache[c].phase = "live" \/ c \in p.active => target.exists /\ MadeBy(c)
        /\ contribCache[c].phase = "terminating" => MadeBy(c)
        /\ p.pc \in Listing /\ c \notin p.active \cup p.releasing
                => contribCache[c].phase = "gone"
        /\ c \in p.releasing => Leaving(c)
        /\ contribCache[c] \in ContribObject
    BY <1>2 DEF MadeInv, CreatorInv, ReleaseInv, FieldInv, Inv, TypeOK, Contributors
  <2>2. q.pc \in Listing /\ c \notin q.active \cup q.releasing => contribCache[c].phase = "gone"
    <3>1. CASE Starts
      BY <2>1, <3>1 DEF Starts, Listing, Known, ContribObject
    <3>2. CASE IsOver
      BY <3>2 DEF IsOver, Listing
    <3>3. CASE GoesOn
      BY <2>1, <3>3 DEF GoesOn
    <3> QED
      BY <3>1, <3>2, <3>3, PassSummary DEF ReleaseInv
  <2>3. c \in q.active => contribCache[c].phase = "live" \/ c \in p.active
    <3>1. CASE Starts
      BY <3>1 DEF Starts
    <3>2. CASE IsOver \/ GoesOn
      BY <3>2 DEF IsOver, GoesOn
    <3> QED
      BY <3>1, <3>2, PassSummary DEF ReleaseInv
  <2>4. CASE /\ target.exists => target'.exists /\ target'.maker = target.maker
             /\ ~target.exists /\ target'.exists => target'.maker = Shell
    BY <2>1, <2>2, <2>3, <2>4 DEF MadeBy
  <2>5. CASE Deletes
    <3>1. p.pc \in Listing /\ p.active = {} /\ target' = NoTarget
      BY <2>5 DEF Deletes, Listing, ReleaseInv, FieldInv
    <3>2. contribCache[c].phase # "live"
      BY <2>1, <3>1 DEF Leaving
    <3> QED
      BY <2>1, <2>2, <2>3, <3>1, <3>2 DEF MadeBy, NoTarget
  <2>6. CASE Applies /\ ~target.exists
    <3>1. p.pc \in Listing /\ p.pc = "apply"
      BY <2>6 DEF Applies, Listing
    <3>2. c \notin p.releasing
      BY <2>6, <3>1 DEF MadeInv, StandsInv
    <3>3. contribCache[c].phase = "gone" /\ c \notin p.active
      BY <2>1, <2>6, <3>1, <3>2
    <3> QED
      BY <2>1, <2>2, <2>3, <3>3
  <2>7. target \in TargetObject /\ (~target.exists => target = NoTarget)
    BY DEF ReleaseInv, Inv, TypeOK, MadeInv, StandsInv
  <2>8. CASE target' = Reverted(First(SRPass.todo), SRPass)
    BY <2>4, <2>7, <2>8, RevertedMaker
  <2> QED
    BY <2>4, <2>5, <2>6, <2>8, TargetSteps DEF MadeInv
<1> QED
  BY <1>1, <1>2, RecordedFrom

\* Nothing else that happens bears on it.
LEMMA AsideKeepsMade ==
    ASSUME Quiet, ReleaseInv, MadeInv, Aside
    PROVE  MadeInv'
<1>1. UNCHANGED <<SRPass, target>> /\ SR'.st = SR.st /\ SRCache'.st \in {SR.st, SRCache.st}
  BY DEF Aside, Quiet
<1>2. \A c \in Contributors : Later(contribCache[c], contribCache'[c])
  BY DEF Aside, Moves, Later
<1>3. StandsInv'
  BY <1>1 DEF MadeInv, StandsInv, MadeBy
<1>4. ASSUME NEW c \in Deleters PROVE CreatorInv(c)'
  <2>1. CreatorInv(c) /\ c \in Contributors /\ contribCache[c] \in ContribObject
    BY PoliciesAssumption DEF MadeInv, Contributors, ReleaseInv, Inv, TypeOK
  <2>2. c \in Recorded' => c \in Recorded
    BY <1>1 DEF Recorded
  <2> QED
    BY <1>1, <1>2, <2>1, <2>2 DEF CreatorInv, Known, Later, MadeBy, ContribObject
<1> QED
  BY <1>3, <1>4 DEF MadeInv


\* A reconcile reports a contributor invalid only when it is.
LEMMA ToldInvalidInductive ==
    ASSUME TrackersLeftAlone
    PROVE  /\ Init => ToldInvalid
           /\ Inv /\ Solo /\ ToldInvalid /\ [Next]_allVars => ToldInvalid'
<1>1. Init => ToldInvalid
  BY DEF Init, ToldInvalid, IdleWorker
<1>2. ASSUME Inv, Solo, ToldInvalid, [Next]_allVars PROVE ToldInvalid'
  <2>1. worker \in [Kinds -> Worker] /\ IdleWorker.pc = "idle"
    BY <1>2 DEF Inv, TypeOK, IdleWorker
  <2>2. ASSUME NEW c \in Contributors, StartReconcile(c) PROVE ToldInvalid'
    <3> DEFINE w == [IdleWorker EXCEPT !.pc = FirstStep(c, contribCache[c]), !.c = c]
    <3>1. w.pc = FirstStep(c, contribCache[c]) /\ w.c = c
      BY DEF IdleWorker
    <3>2. FirstStep(c, contribCache[c]) = "setInvalid" => c \in Invalid
      BY <1>2, <2>2 DEF FirstStep, StartReconcile, Exists, Inv, TypeOK, ContribObject,
         Contributors
    <3>3. worker' = [worker EXCEPT ![KindOf(c)] = w]
      BY <2>2 DEF StartReconcile
    <3> HIDE DEF w
    <3> QED
      BY <1>2, <2>1, <3>1, <3>2, <3>3 DEF ToldInvalid
  <2>3. ASSUME NEW k \in Kinds, SetInvalid(k) \/ AddFinalizer(k) \/ DropFinalizer(k)
                                \/ SyncStatus(k) \/ AbortWorker(k)
        PROVE  ToldInvalid'
    <3>1. worker' = [worker EXCEPT ![k] = IdleWorker]
      BY <2>3 DEF SetInvalid, AddFinalizer, DropFinalizer, SyncStatus, AbortWorker,
         UpdateContributor, EndWorker
    <3> QED
      BY <1>2, <2>1, <3>1 DEF ToldInvalid
  <2>4. CASE \/ LookupClusterTracker \/ LookupOwnTracker
             \/ \E k \in Kinds : CreateTrackerFor(k)
    <3>1. \A k \in Kinds : worker'[k] = worker[k] \/ worker'[k].pc # "setInvalid"
      BY <2>1, <2>4 DEF LookupClusterTracker, LookupOwnTracker, CreateTrackerFor, Worker,
         Kinds
    <3> QED
      BY <1>2, <3>1 DEF ToldInvalid
  <2>5. CASE UNCHANGED worker
    BY <1>2, <2>5 DEF ToldInvalid
  <2>6. CASE PassMoves
    BY <1>2, <2>5, <2>6, PassHasShape DEF PassMoves, PassShape, Same
  <2>7. CASE UserMoves \/ (\E t \in Trackers : SyncTracker(t)) \/ ChangeTarget
             \/ UNCHANGED allVars
    BY <2>5, <2>7 DEF UserMoves, CreateContributor, DeleteContributor, SyncContributor,
       SyncTracker, ChangeTarget, allVars, vars
  <2> QED
    BY <1>2, <2>2, <2>3, <2>4, <2>6, <2>7, StepsAre DEF WorkerMoves
<1> QED
  BY <1>1, <1>2

-----------------------------------------------------------------------------
(* The refinement *)

\* What is inductive.
ShareInv == ReleaseInv /\ ReadyInv /\ MadeInv /\ ToldInvalid

\* ShareInv is inductive.
LEMMA ShareInvInductive ==
    ASSUME NoPromotion, EverythingRenders, Quiet, DeletersApplyServerSide
    PROVE  /\ Init => ShareInv
           /\ ShareInv /\ [Next]_allVars => ShareInv'
<1>1. TrackersLeftAlone /\ PathsAreKept
  BY DEF TrackersLeftAlone, PathsAreKept, Quiet
<1>2. ASSUME Init PROVE MadeInv
  <2>1. SRPass = IdlePass /\ SR = NoTrackerObject /\ SRCache = NoTrackerObject
    BY <1>2 DEF Init, SRPass, SR, SRCache, Trackers
  <2>2. ~target.exists => target = NoTarget
    BY <1>2 DEF Init, NewTarget
  <2>3. Recorded = {NoOne}
    BY <2>1 DEF Recorded, IdlePass, NoTrackerObject, EmptyStatus
  <2>4. NoOne \notin Deleters
    BY ContributorsAssumption, PoliciesAssumption
  <2>5. StandsInv
    BY <2>1, <2>2 DEF StandsInv, IdlePass
  <2> QED
    BY <2>3, <2>4, <2>5 DEF MadeInv, CreatorInv
<1>3. Init => ShareInv
  BY <1>1, <1>2, ReleaseInvInductive, ReadyInvInductive, ToldInvalidInductive DEF ShareInv
<1>4. ASSUME ShareInv, [Next]_allVars PROVE ShareInv'
  <2>1. ReleaseInv' /\ (PassShape \/ Aside)
    BY <1>1, <1>4, ReleaseInvInductive DEF ShareInv
  <2>2. ReadyInv'
    BY <1>1, <1>4, ReadyInvInductive DEF ShareInv
  <2>3. ToldInvalid'
    BY <1>1, <1>4, ToldInvalidInductive DEF ShareInv, ReleaseInv
  <2>4. CASE PassShape
    <3>1. StandsInv'
      BY <1>4, <2>4, PassKeepsStands DEF ShareInv
    <3>2. \A c \in Deleters : CreatorInv(c)'
      BY <1>4, <2>4, PassKeepsCreator DEF ShareInv
    <3> QED
      BY <2>1, <2>2, <2>3, <3>1, <3>2 DEF ShareInv, MadeInv
  <2>5. CASE Aside
    BY <1>4, <2>1, <2>2, <2>3, <2>5, AsideKeepsMade DEF ShareInv
  <2> QED
    BY <2>1, <2>4, <2>5
<1> QED
  BY <1>3, <1>4

Phase == [c \in Contributors |-> contrib[c].phase]
Ready == [c \in Contributors |-> contrib[c].ready]

\* A write of contributor d, as SharedObject sees it.
LEMMA SeenWrite ==
    ASSUME TypeOK, NEW d \in Contributors, NEW o, contrib' = [contrib EXCEPT ![d] = o]
    PROVE  /\ Phase[d] = contrib[d].phase /\ Ready[d] = contrib[d].ready
           /\ Phase' = [Phase EXCEPT ![d] = o.phase]
           /\ Ready' = [Ready EXCEPT ![d] = o.ready]
           /\ o.phase = contrib[d].phase => Phase' = Phase
           /\ o.ready = contrib[d].ready => Ready' = Ready
<1>1. contrib \in [Contributors -> ContribObject]
  BY DEF TypeOK
<1>2. /\ Phase[d] = contrib[d].phase /\ Ready[d] = contrib[d].ready
  BY DEF Phase, Ready
<1>3. Phase' = [Phase EXCEPT ![d] = o.phase]
  BY <1>1 DEF Phase
<1>4. Ready' = [Ready EXCEPT ![d] = o.ready]
  BY <1>1 DEF Ready
<1>5. o.phase = contrib[d].phase => Phase' = Phase
  BY <1>1 DEF Phase
<1>6. o.ready = contrib[d].ready => Ready' = Ready
  BY <1>1 DEF Ready
<1> QED
  BY <1>2, <1>3, <1>4, <1>5, <1>6

\* A step of the pass is a Withdraw, an Apply or a Delete, or nothing that shows.
LEMMA PassImplements ==
    ASSUME ShareInv, Quiet, PassShape
    PROVE  \/ UNCHANGED <<Phase, Ready, target>>
           \/ Shared!Next
<1> DEFINE p == SRPass c == First(SRPass.todo)
<1>1. UNCHANGED <<Phase, Ready>> /\ target \in TargetObject
      /\ (~target.exists => target = NoTarget)
  BY DEF PassShape, Same, Phase, Ready, ShareInv, ReleaseInv, Inv, TypeOK, MadeInv,
     StandsInv
<1>2. \A d \in RPs : /\ d \in Contributors
                     /\ Known(d) => Phase[d] # "none"
                     /\ Leaving(d) => Phase[d] \in {"terminating", "gone"}
  BY DEF ShareInv, ReleaseInv, ContributorsInv, ContributorInv, Later, Known, Leaving,
     Phase, Contributors, Inv, TypeOK, ContribObject
<1>3. CASE Releases /\ target' # target
  <2>1. c \in RPs /\ Leaving(c)
    BY <1>3 DEF Releases, ShareInv, ReleaseInv, FieldInv
  <2>2. target' = Reverted(c, p)
    BY <1>3 DEF Releases
  <2>3. target' = IF target.exists THEN [target EXCEPT !.fields = @ \ {c}]
                  ELSE [exists |-> TRUE, fields |-> {}, maker |-> Shell]
    <3>1. CASE c \in ClientSide
      <4>1. target' = [target EXCEPT !.fields = @ \ ({c} \cap p.owned)]
        BY <2>2, <3>1 DEF Reverted
      <4>2. CASE c \in p.owned
        <5>1. {c} \cap p.owned = {c}
          BY <4>2
        <5>2. target' = [target EXCEPT !.fields = @ \ {c}]
          BY <4>1, <5>1
        <5>3. ~target.exists => target' = target
          BY <1>1, <5>2 DEF NoTarget, TargetObject
        <5> QED
          BY <1>3, <5>2, <5>3
      <4>3. CASE c \notin p.owned
        <5>1. target' = target
          BY <1>1, <4>1, <4>3 DEF TargetObject
        <5> QED
          BY <1>3, <5>1
      <4> QED
        BY <4>2, <4>3
    <3>2. CASE c \notin ClientSide
      BY <2>2, <3>2 DEF Reverted, NewTarget
    <3> QED
      BY <3>1, <3>2
  <2>4. c \in Contributors /\ Phase[c] \in {"terminating", "gone"}
    BY <1>2, <2>1
  <2>5. Shared!Withdraw(c)
    BY <1>1, <2>3, <2>4 DEF Shared!Withdraw, Phase, Ready
  <2> QED
    BY <2>4, <2>5 DEF Shared!Next
<1>4. CASE Deletes /\ target' # target
  <2>1. /\ p.pc = "deleteTarget" /\ target' = NoTarget /\ target.exists
    BY <1>1, <1>4 DEF Deletes
  <2>2. p.active = {} /\ WantsDelete(p.st, p.releasing) /\ MadeBy(p.st.creator)
    BY <2>1 DEF ShareInv, ReleaseInv, FieldInv, MadeInv, StandsInv
  <2>3. \A d \in target.fields : d \in RPs /\ Leaving(d)
    BY <2>1, <2>2 DEF ShareInv, ReleaseInv, FieldInv, Listing
  <2>4. p.st.creator \in RPs /\ Leaving(p.st.creator) /\ p.st.creator \in Deleters
    BY <2>2 DEF WantsDelete, ShareInv, ReleaseInv, FieldInv
  <2>5. target.maker \in {p.st.creator, Shell}
    BY <2>1, <2>2 DEF MadeBy
  <2>6. Shared!Delete
    <3>1. \A d \in target.fields : Phase[d] # "live"
      BY <1>2, <2>3
    <3>2. \/ target.maker = Shell
          \/ target.maker \in Deleters /\ Phase[target.maker] # "live"
      BY <1>2, <2>4, <2>5
    <3> QED
      BY <1>1, <2>1, <3>1, <3>2 DEF Shared!Delete, Shared!NoObject, NoTarget, Phase, Ready
  <2> QED
    BY <2>6 DEF Shared!Next
<1>5. CASE Applies /\ target' # target
  <2>1. c \in p.active /\ c \in RPs /\ Known(c)
    BY <1>5 DEF Applies, ShareInv, ReleaseInv, FieldInv
  <2>2. c \in Contributors /\ Phase[c] # "none"
    BY <1>2, <2>1
  <2>3. ~(Phase[c] = "gone" /\ Ready[c] /\ c \notin Orphaners)
    <3>1. ViewsInv(c)
      BY <2>1 DEF ShareInv, ReadyInv
    <3> QED
      BY <2>1, <2>2, <3>1 DEF ViewsInv, Clean, Phase, Ready
  <2>4. target' = IF target.exists THEN [target EXCEPT !.fields = @ \cup {c}]
                  ELSE [exists |-> TRUE, fields |-> {c}, maker |-> c]
    BY <1>5 DEF Applies, NewTarget
  <2>5. Shared!Apply(c)
    BY <1>1, <2>2, <2>3, <2>4 DEF Shared!Apply, Phase, Ready
  <2> QED
    BY <2>2, <2>5 DEF Shared!Next
<1>6. \/ UNCHANGED target \/ Releases \/ Deletes \/ Applies
  BY DEF PassShape, Starts, Ends, Looks, Misses, Records, Reports, AddsFinalizer,
     DropsFinalizer, Retires
<1> QED
  BY <1>1, <1>3, <1>4, <1>5, <1>6


\* A contributor that is live has its fields on the target when its tracker, as
\* the cache shows it, lists it as applied, and is listed so when it is Ready.
LEMMA LiveIsTold ==
    ASSUME ShareInv, Quiet, NEW d \in RPs, contrib[d].phase = "live"
    PROVE  /\ SRCache.st.recs[d] = "applied" => d \in target.fields
           /\ contrib[d].ready => SRCache.exists /\ SRCache.st.recs[d] = "applied"
<1>1. /\ ~Leaving(d) /\ ViewsInv(d) /\ AppliedInv(d)
      /\ ~SRCache.exists => SRCache = NoTrackerObject
  BY DEF ShareInv, ReleaseInv, ReadyInv, ContributorsInv, ContributorInv, Later, Leaving,
     Contributors, Solo, Unfenced
<1>2. Bound(d) /\ ~Clean(d)
  BY <1>1 DEF Bound, Clean
<1>3. SRCache.st.recs[d] = "applied" => d \in target.fields
  BY <1>1, <1>2 DEF ViewsInv, AppliedInv, Kept
<1>4. contrib[d].ready => SRCache.st.recs[d] = "applied"
  BY <1>1, <1>2 DEF ViewsInv, Kept
<1>5. NoTrackerObject.st.recs[d] # "applied"
  BY DEF NoTrackerObject, EmptyStatus, NoRecords, Contributors
<1> QED
  BY <1>1, <1>3, <1>4, <1>5

\* The worker's write of a contributor, accepted or refused.
LEMMA WorkerImplements ==
    ASSUME ShareInv, Quiet, NEW k \in Kinds,
           SetInvalid(k) \/ AddFinalizer(k) \/ DropFinalizer(k) \/ SyncStatus(k)
    PROVE  \/ UNCHANGED <<Phase, Ready, target>>
           \/ Shared!Next
<1> DEFINE w == worker[k]
<1>1. /\ w.pc \in {"setInvalid", "addFin", "dropFin", "sync"}
      /\ UNCHANGED target
  BY DEF SetInvalid, AddFinalizer, DropFinalizer, SyncStatus, UpdateContributor
<1> PICK d \in Contributors : d = worker[k].c
  BY <1>1 DEF ShareInv, ReleaseInv, Inv, ReconcilesEquipped
<1> DEFINE Held == Exists(contrib[d]) /\ "worker" \in freshC[d]
<1>2. d \in Contributors /\ KindOf(d) = k /\ TypeOK /\ contrib[d] \in ContribObject
  BY <1>1 DEF ShareInv, ReleaseInv, Inv, ReconcilesEquipped, Solo, TypeOK
<1>3. CASE ~Held
  <2>1. UNCHANGED contrib
    BY <1>3 DEF SetInvalid, AddFinalizer, DropFinalizer, SyncStatus, UpdateContributor
  <2> QED
    BY <1>1, <2>1 DEF Phase, Ready
<1>4. ASSUME Held, NEW o, UpdateContributor(k, o) PROVE contrib' = [contrib EXCEPT ![d] = o]
  BY <1>4 DEF UpdateContributor, WriteContrib
<1>5. Held => /\ contrib[d].phase = IF w.pc = "dropFin" THEN "terminating" ELSE "live"
              /\ ReadyIsHeld(d, contrib[d])
  BY <1>1, <1>2 DEF ShareInv, ReleaseInv, ContributorsInv, ContributorInv, Reconciling,
     CopyTells
<1>6. ASSUME NEW o, contrib' = [contrib EXCEPT ![d] = o]
       PROVE  /\ Phase[d] = contrib[d].phase /\ Ready[d] = contrib[d].ready
              /\ Phase' = [Phase EXCEPT ![d] = o.phase]
              /\ Ready' = [Ready EXCEPT ![d] = o.ready]
              /\ o.phase = contrib[d].phase => Phase' = Phase
              /\ o.ready = contrib[d].ready => Ready' = Ready
  BY <1>2, <1>6, SeenWrite
<1>7. CASE Held /\ SetInvalid(k)
  <2> DEFINE o == [contrib[d] EXCEPT !.ready = FALSE]
  <2>1. UpdateContributor(k, o) /\ w.pc = "setInvalid"
    BY <1>7 DEF SetInvalid
  <2>2. ~contrib[d].ready
    BY <1>5, <1>7, <2>1 DEF ReadyIsHeld, ShareInv, ToldInvalid
  <2>3. o.phase = contrib[d].phase /\ o.ready = FALSE
    BY <1>2 DEF ContribObject
  <2>4. o.ready = contrib[d].ready
    BY <1>2, <2>2, <2>3 DEF ContribObject
  <2>5. contrib' = [contrib EXCEPT ![d] = o]
    BY <1>4, <1>7, <2>1
  <2> HIDE DEF o
  <2> QED
    BY <1>1, <1>2, <2>3, <2>4, <2>5, <1>6
<1>8. CASE Held /\ AddFinalizer(k)
  <2> DEFINE o == [contrib[d] EXCEPT !.fin = TRUE]
  <2>1. UpdateContributor(k, o)
    BY <1>8 DEF AddFinalizer
  <2>2. o.phase = contrib[d].phase /\ o.ready = contrib[d].ready
    BY <1>2 DEF ContribObject
  <2>3. contrib' = [contrib EXCEPT ![d] = o]
    BY <1>4, <1>8, <2>1
  <2> HIDE DEF o
  <2> QED
    BY <1>1, <1>2, <2>2, <2>3, <1>6
<1>9. CASE Held /\ DropFinalizer(k)
  <2> DEFINE o == [contrib[d] EXCEPT !.fin = FALSE, !.phase = "gone", !.ref = NoTracker]
  <2>1. UpdateContributor(k, o) /\ w.pc = "dropFin"
    BY <1>9 DEF DropFinalizer
  <2>2. o.phase = "gone" /\ o.ready = contrib[d].ready
    BY <1>2 DEF ContribObject
  <2>3. contrib' = [contrib EXCEPT ![d] = o]
    BY <1>4, <1>9, <2>1
  <2>4. contrib[d].phase = "terminating"
    BY <1>5, <1>9, <2>1
  <2>5. contrib[d].ready => d \in Orphaners \/ d \notin target.fields
    <3>1. Dropping(d)
      BY <1>2, <1>9, <2>1 DEF Dropping, Reconciling
    <3>2. CASE d \in RPs
      BY <3>1, <3>2 DEF ShareInv, ReadyInv, ViewsInv, Clean
    <3>3. CASE d \notin RPs
      BY <3>3 DEF ShareInv, ReleaseInv, FieldInv
    <3> QED
      BY <3>2, <3>3
  <2> HIDE DEF o
  <2>6. /\ Phase[d] = "terminating" /\ Ready[d] = contrib[d].ready
        /\ Phase' = [Phase EXCEPT ![d] = "gone"] /\ Ready' = Ready
    <3>1. Phase[d] = "terminating" /\ Ready[d] = contrib[d].ready
      BY <2>3, <2>4, <1>6
    <3>2. Phase' = [Phase EXCEPT ![d] = "gone"]
      BY <2>2, <2>3, <1>6
    <3>3. Ready' = Ready
      BY <2>2, <2>3, <1>6
    <3> QED
      BY <3>1, <3>2, <3>3
  <2>7. Shared!Go(d)
    BY <1>1, <2>5, <2>6 DEF Shared!Go, Phase, Ready
  <2> QED
    BY <1>2, <2>7 DEF Shared!Next
<1>10. CASE Held /\ SyncStatus(k)
  <2> DEFINE ready == SRCache.exists /\ SRCache.st.recs[d] = "applied"
             o == [contrib[d] EXCEPT !.ref = w.ref, !.ready = ready]
  <2>1. w.pc = "sync" /\ w.ref = "SR" /\ k = "RP"
    BY <1>10 DEF SyncStatus, ShareInv, ReleaseInv, Solo, Kinds
  <2>2. UpdateContributor(k, o)
    BY <1>10, <2>1 DEF SyncStatus, SRCache
  <2>3. d \in RPs /\ contrib[d].phase = "live"
    BY <1>2, <1>5, <1>10, <2>1 DEF KindOf
  <2>4. /\ ready => d \in target.fields
        /\ contrib[d].ready => ready
        /\ ready \in BOOLEAN
    BY <2>3, LiveIsTold
  <2> HIDE DEF ready
  <2>5. o.phase = contrib[d].phase /\ o.ready = ready
    BY <1>2 DEF ContribObject
  <2>6. contrib' = [contrib EXCEPT ![d] = o]
    BY <1>4, <1>10, <2>2
  <2> HIDE DEF o
  <2>7. CASE ready = contrib[d].ready
    BY <1>1, <1>2, <2>5, <2>6, <2>7, <1>6
  <2>8. CASE ready # contrib[d].ready
    <3>1. ready = TRUE
      BY <1>2, <2>4, <2>8 DEF ContribObject
    <3>2. /\ Phase[d] = "live" /\ Phase' = Phase /\ Ready' = [Ready EXCEPT ![d] = TRUE]
      BY <1>2, <2>3, <2>5, <2>6, <3>1, <1>6
    <3>3. Shared!Acknowledge(d)
      BY <1>1, <2>4, <3>1, <3>2 DEF Shared!Acknowledge, Phase, Ready
    <3> QED
      BY <1>2, <3>3 DEF Shared!Next
  <2> QED
    BY <2>7, <2>8
<1> QED
  BY <1>3, <1>7, <1>8, <1>9, <1>10

\* Users join and leave.
LEMMA UserImplements ==
    ASSUME ShareInv, NEW d \in Contributors, CreateContributor(d) \/ DeleteContributor(d)
    PROVE  Shared!Next
<1>1. TypeOK /\ contrib[d] \in ContribObject /\ UNCHANGED target
      /\ ReadyIsHeld(d, contrib[d])
  BY DEF ShareInv, ReleaseInv, Inv, TypeOK, CreateContributor, DeleteContributor,
     ContributorsInv, ContributorInv
<1>2. ASSUME NEW o, contrib' = [contrib EXCEPT ![d] = o], o.ready = contrib[d].ready
      PROVE  /\ Phase[d] = contrib[d].phase /\ Ready[d] = contrib[d].ready
             /\ Phase' = [Phase EXCEPT ![d] = o.phase] /\ Ready' = Ready
  BY <1>1, <1>2, SeenWrite
<1>3. CASE CreateContributor(d)
  <2> DEFINE o == [NoContrib EXCEPT !.phase = "live"]
  <2>1. contrib' = [contrib EXCEPT ![d] = o] /\ contrib[d].phase = "none"
    BY <1>3 DEF CreateContributor, WriteContrib
  <2>2. o.phase = "live" /\ o.ready = FALSE
    BY DEF NoContrib
  <2>3. contrib[d].ready = FALSE
    BY <1>1, <2>1 DEF ReadyIsHeld, ContribObject
  <2> HIDE DEF o
  <2>4. Phase[d] = "none" /\ Phase' = [Phase EXCEPT ![d] = "live"] /\ Ready' = Ready
    BY <1>2, <2>1, <2>2, <2>3
  <2>5. Shared!Join(d)
    BY <1>1, <2>4 DEF Shared!Join, Phase, Ready
  <2> QED
    BY <2>5 DEF Shared!Next
<1>4. CASE DeleteContributor(d) /\ contrib[d].fin
  <2> DEFINE o == [contrib[d] EXCEPT !.phase = "terminating"]
  <2>1. contrib' = [contrib EXCEPT ![d] = o] /\ contrib[d].phase = "live"
    BY <1>4 DEF DeleteContributor, WriteContrib
  <2>2. o.phase = "terminating" /\ o.ready = contrib[d].ready
    BY <1>1 DEF ContribObject
  <2> HIDE DEF o
  <2>3. Phase[d] = "live" /\ Phase' = [Phase EXCEPT ![d] = "terminating"] /\ Ready' = Ready
    BY <1>2, <2>1, <2>2
  <2>4. Shared!Leave(d)
    BY <1>1, <2>3 DEF Shared!Leave, Phase, Ready
  <2> QED
    BY <2>4 DEF Shared!Next
<1>5. CASE DeleteContributor(d) /\ ~contrib[d].fin
  <2> DEFINE o == [contrib[d] EXCEPT !.phase = "gone", !.ref = NoTracker]
  <2>1. contrib' = [contrib EXCEPT ![d] = o] /\ contrib[d].phase = "live"
    BY <1>5 DEF DeleteContributor, WriteContrib
  <2>2. o.phase = "gone" /\ o.ready = contrib[d].ready
    BY <1>1 DEF ContribObject
  <2>3. ~contrib[d].ready
    BY <1>1, <1>5, <2>1 DEF ReadyIsHeld
  <2> HIDE DEF o
  <2>4. /\ Phase[d] = "live" /\ ~Ready[d]
        /\ Phase' = [Phase EXCEPT ![d] = "gone"] /\ Ready' = Ready
    BY <1>2, <2>1, <2>2, <2>3
  <2>5. Shared!Go(d)
    BY <1>1, <2>4 DEF Shared!Go, Phase, Ready
  <2> QED
    BY <2>5 DEF Shared!Next
<1> QED
  BY <1>1, <1>3, <1>4, <1>5 DEF ContribObject

\* Every step of the operator is a step of SharedObject or a stutter.
LEMMA StepImplements ==
    ASSUME Quiet, ShareInv, [Next]_allVars
    PROVE  UNCHANGED <<Phase, Ready, target>> \/ Shared!Next
<1>1. Inv /\ Solo /\ TrackersLeftAlone
  BY DEF ShareInv, ReleaseInv, TrackersLeftAlone, Quiet
<1>2. CASE UNCHANGED <<contrib, target>>
  BY <1>2 DEF Phase, Ready
<1>3. CASE PassMoves
  BY <1>1, <1>3, PassHasShape, PassImplements DEF PassMoves
<1>4. CASE WorkerMoves
  <2>1. \/ UNCHANGED <<contrib, target>>
        \/ \E k \in Kinds : SetInvalid(k) \/ AddFinalizer(k) \/ DropFinalizer(k)
                            \/ SyncStatus(k)
    BY <1>4 DEF WorkerMoves, StartReconcile, CreateTrackerFor, AbortWorker,
       LookupClusterTracker, LookupOwnTracker, storeVars
  <2> QED
    BY <1>2, <2>1, WorkerImplements
<1>5. CASE UserMoves
  <2>1. \/ UNCHANGED <<contrib, target>>
        \/ \E d \in Contributors : CreateContributor(d) \/ DeleteContributor(d)
    BY <1>5 DEF UserMoves, SyncContributor
  <2> QED
    BY <1>2, <2>1, UserImplements
<1>6. ASSUME NEW t \in Trackers, SyncTracker(t) PROVE UNCHANGED <<contrib, target>>
  BY <1>6 DEF SyncTracker
<1>7. ~ChangeTarget
  BY DEF ChangeTarget, Quiet
<1>8. CASE UNCHANGED allVars
  BY <1>2, <1>8 DEF allVars, vars
<1> QED
  BY <1>1, <1>2, <1>3, <1>4, <1>5, <1>6, <1>7, <1>8, StepsAre

\* Module Operator implements SharedObject, whatever the number of contributors,
\* their policies and their order, however far the caches lag and wherever
\* reconciles fail: who is told Ready has its fields on the object and keeps
\* them until it leaves, who was told so goes without leaving any, and the
\* object is deleted only with its creator and when nobody else has fields on
\* it.  It takes that the two kinds do not meet, that everything renders, that
\* nobody else touches the target or the trackers, and that whoever asks for
\* deletion applies server-side.
THEOREM OperatorImplementsSharedObject ==
    ASSUME NoPromotion, EverythingRenders, Quiet, DeletersApplyServerSide
    PROVE  Spec => ImplementsSharedObject
<1>1. Init => Shared!Init
  <2> SUFFICES ASSUME Init PROVE Shared!Init
    OBVIOUS
  <2>1. Phase = [c \in Contributors |-> "none"] /\ Ready = [c \in Contributors |-> FALSE]
    BY DEF Init, Phase, Ready, NoContrib
  <2>2. target.exists \in BOOLEAN /\ target.fields = {}
    <3>1. target \in {NoTarget, NewTarget({}, Foreign)}
      BY DEF Init
    <3>2. CASE target = NoTarget
      BY <3>2 DEF NoTarget
    <3>3. CASE target = NewTarget({}, Foreign)
      BY <3>3 DEF NewTarget
    <3> QED
      BY <3>1, <3>2, <3>3
  <2> QED
    BY <2>1, <2>2 DEF Shared!Init, Phase, Ready
<1>2. ShareInv /\ [Next]_allVars => [Shared!Next]_(Shared!sharedVars)
  BY StepImplements DEF Shared!sharedVars, Phase, Ready
<1>3. /\ Init => ShareInv
      /\ ShareInv /\ [Next]_allVars => ShareInv'
  BY ShareInvInductive
<1> QED
  BY <1>1, <1>2, <1>3, PTL DEF Spec, ImplementsSharedObject, Shared!Spec

-----------------------------------------------------------------------------
(* With the work queues *)

\* A step of the queued system is a step of Operator, or of the queue alone.
LEMMA QueuedStep ==
    ASSUME [QueuedNext]_queuedVars
    PROVE  [Next]_allVars
<1>1. CASE EventStep
  BY <1>1 DEF EventStep, ContributorEvent, TrackerEvent, Next, SyncStep
<1>2. CASE Delivered /\ QueuedEnvironment
  BY <1>2 DEF QueuedEnvironment, Next
<1>3. CASE Delivered /\ QueuedAbort
  BY <1>3 DEF QueuedAbort, Next
<1>4. ASSUME NEW c \in Contributors, Delivered, ServeContributor(c) PROVE [Next]_allVars
  <2>1. CASE StartReconcile(c)
    BY <1>4, <2>1 DEF ServeContributor, Next, StartWorker
  <2>2. CASE UNCHANGED vars
    BY <1>4, <2>2 DEF ServeContributor, allVars, envVars
  <2> QED
    BY <1>4, <2>1, <2>2 DEF ServeContributor
<1>5. ASSUME NEW k \in Kinds, Delivered, QueuedWorkerStep(k) PROVE [Next]_allVars
  BY <1>5 DEF QueuedWorkerStep, Next
<1>6. ASSUME NEW t \in Trackers, Delivered, ServeTracker(t) \/ QueuedTrackerStep(t)
      PROVE  [Next]_allVars
  <2>1. CASE StartPass(t) /\ UNCHANGED envVars
    BY <1>6, <2>1 DEF Next, StartTracker
  <2>2. CASE UNCHANGED <<vars, envVars>>
    BY <2>2 DEF allVars, envVars
  <2>3. CASE TrackerStep(t)
    BY <1>6, <2>3 DEF Next
  <2> QED
    BY <1>6, <2>1, <2>2, <2>3 DEF ServeTracker, QueuedTrackerStep
<1>7. CASE UNCHANGED queuedVars
  BY <1>7 DEF queuedVars
<1> QED
  BY <1>1, <1>2, <1>3, <1>4, <1>5, <1>6, <1>7 DEF QueuedNext

\* The predicates, the mapping functions and the requeues choose among what
\* Operator allows: with them the operator does nothing that Operator does not,
\* so that every safety theorem about Operator holds with the work queues.
THEOREM QueuesImplementOperator == QueuedSpec => Spec
<1>1. QueuedInit => Init
  BY DEF QueuedInit
<1>2. [QueuedNext]_queuedVars => [Next]_allVars
  BY QueuedStep
<1> QED
  BY <1>1, <1>2, PTL DEF QueuedSpec, Spec


=============================================================================
