--------------------------- MODULE ReleaseProofs ---------------------------
(***************************************************************************)
(* What the operator does to a target that only ResourcePatches claim, for *)
(* any number of them with any policies, caches that lag without bound and *)
(* reconciles that fail at any call: it never deletes an object that still *)
(* carries what somebody contributes, and a contributor that was told that *)
(* it is Ready goes only once its fields are gone.                         *)
(*                                                                         *)
(* Neither follows from a lock.  The tracker's pass works from two caches, *)
(* each of which may be any number of versions behind; what makes it sound *)
(* is that passes of one tracker are serialised and that a cache never     *)
(* goes back: a pass that starts later has seen at least as much.          *)
(***************************************************************************)
EXTENDS OperatorProofs

\* The two kinds of contributors do not meet: there is no valid
\* ClusterResourcePatch, so that there is no promotion.
NoPromotion == CRPs \subseteq Invalid

SR == trk["SR"]
SRCache == trkCache["SR"]
SRPass == pass["SR"]

\* The steps of a pass that has built its contributor list.
Listing == {"release", "deleteTarget", "exists", "apply", "provenance", "status"}

\* As the cache shows it: the contributor has been seen, and it is on its way out.
Known(c) == contribCache[c].phase # "none"
Leaving(c) == contribCache[c].phase \in {"terminating", "gone"}

-----------------------------------------------------------------------------
(* The SharedResource without promotion *)

Unfenced(o) ==
    /\ ~o.deleting /\ ~IsFenced(o.st)
    /\ ~o.exists => o = NoTrackerObject

\* The ClusterSharedResource never comes into being, and the SharedResource goes
\* only by its own hand, when it lists nobody.
Solo ==
    /\ \A c \in CRPs : ~contrib[c].fin /\ ~contribCache[c].fin
    /\ worker["CRP"].pc \in {"idle", "setInvalid"}
    /\ worker["RP"].pc \in {"idle", "setInvalid", "addFin", "dropFin", "lookup",
                            "lookupOwn", "create", "sync"}
    /\ worker["RP"].pc \in {"create", "sync"} => worker["RP"].ref = "SR"
    /\ \A k \in Kinds : worker[k].pc # "idle" => KindOf(worker[k].c) = k
    /\ ~trk["CSR"].exists /\ ~trkCache["CSR"].exists /\ pass["CSR"].pc = "idle"
    /\ Unfenced(SR) /\ Unfenced(SRCache)
    /\ ~SRPass.teardown /\ ~IsFenced(SRPass.st) /\ SRPass.pc # "unfence"
    /\ SRPass.pc = "dropFin" => SRPass.st.recs = NoRecords
    /\ SRPass.pc = "deleteSelf" => SR.exists /\ ~SR.fin /\ SR.st.recs = NoRecords

-----------------------------------------------------------------------------
(* The steps of a pass, by what they do to the tracker, the target and the *)
(* pass itself                                                             *)

\* q goes on with the contributor list of p.
SameLists(p, q) ==
    /\ q.active = p.active /\ q.releasing = p.releasing
    /\ q.owned = p.owned /\ ~q.teardown

\* q is p after the object-level decision.
Decided(p, q) ==
    /\ SameLists(p, q) /\ q.st = p.st /\ q.waiting = p.waiting
    /\ \/ q.pc = "exists" /\ q.todo = p.active /\ p.active # {}
       \/ /\ q.pc = "status" /\ q.todo = {}
          /\ p.active = {} \/ ~RenderAll(p.active)

\* q is p after the last release.
ReleasedAll(p, q) ==
    \/ Decided(p, q)
    \/ /\ SameLists(p, q) /\ q.st = p.st /\ q.waiting = p.waiting
       /\ q.pc = "deleteTarget" /\ p.active = {} /\ WantsDelete(p.st, p.releasing)

\* q is p after contributor c has been visited.
MovedPast(p, q, c) ==
    /\ SameLists(p, q)
    /\ q.todo = p.todo \ {c}
    /\ q.pc = IF q.todo = {} THEN "status" ELSE "exists"

\* AfterDecision takes the object-level decision Decided describes.
LEMMA DecidedIs ==
    ASSUME NEW p \in Pass, ~p.teardown
    PROVE  Decided(p, AfterDecision(p))
  BY DEF AfterDecision, AfterApplies, Decided, SameLists, Pass

\* AfterReleases goes on as ReleasedAll describes.
LEMMA ReleasedAllIs ==
    ASSUME NEW p \in Pass, ~p.teardown
    PROVE  ReleasedAll(p, AfterReleases(p))
<1>1. CASE p.active = {} /\ WantsDelete(p.st, p.releasing)
  BY <1>1 DEF AfterReleases, ReleasedAll, SameLists, Pass
<1>2. CASE ~(p.active = {} /\ WantsDelete(p.st, p.releasing))
  BY <1>2, DecidedIs DEF AfterReleases, ReleasedAll
<1> QED
  BY <1>1, <1>2

\* Visited takes the contributor off the todo list and goes to the next or on.
LEMMA MovedPastIs ==
    ASSUME NEW p \in Pass, ~p.teardown
    PROVE  /\ MovedPast(p, Visited(p), First(p.todo))
           /\ Visited(p).st = p.st /\ Visited(p).waiting = p.waiting
  BY DEF Visited, AfterApplies, MovedPast, SameLists, Pass

\* A contributor whose target is missing joins those who wait.
LEMMA NotFoundIs ==
    ASSUME NEW p \in Pass, ~p.teardown, p.todo # {}
    PROVE  LET c == First(p.todo) q == NotFound(p) IN
           MovedPast(p, q, c) /\ q.st = p.st /\ q.waiting = p.waiting \cup {c}
<1> DEFINE r == [p EXCEPT !.waiting = @ \cup {First(p.todo)}]
<1>1. r \in Pass /\ ~r.teardown /\ r.todo = p.todo /\ r.st = p.st
      /\ r.waiting = p.waiting \cup {First(p.todo)}
      /\ SameLists(p, r)
  BY FirstIn DEF Pass, SameLists
<1>2. MovedPast(r, Visited(r), First(p.todo)) /\ Visited(r).st = r.st
      /\ Visited(r).waiting = r.waiting
  BY <1>1, MovedPastIs
<1> HIDE DEF r
<1> QED
  BY <1>1, <1>2 DEF NotFound, r, MovedPast, SameLists

Same == UNCHANGED <<contrib, contribCache, freshC, worker, trkCache, trk["CSR"], pass["CSR"]>>

Starts ==
    /\ SRPass.pc = "idle" /\ SRCache.exists
    /\ UNCHANGED <<SR, target>>
    /\ LET q == SRPass' IN
       /\ q.st = SRCache.st /\ q.owned = SRCache.st.owned
       /\ q.waiting = {} /\ ~q.teardown
       /\ \/ q.pc = "addFin" /\ q.active = {} /\ q.releasing = {}
          \/ q.pc = "dropFin" /\ q.active = {} /\ q.releasing = {} /\ q.st.recs = NoRecords
          \/ /\ q.active = {c \in RPs : contribCache[c].phase = "live"}
             /\ q.releasing = {c \in RPs : contribCache[c].phase = "terminating"}
             /\ \/ q.pc = "release" /\ q.todo = q.releasing
                \/ q.pc = "exists" /\ q.todo = q.active /\ q.releasing = {}
                \/ /\ q.pc = "status" /\ q.todo = {} /\ q.releasing = {}
                   /\ q.active = {} \/ ~RenderAll(q.active)

Ends == SRPass' = IdlePass /\ UNCHANGED <<SR, target>>

Releases ==
    LET p == SRPass q == SRPass' c == First(SRPass.todo) IN
    /\ p.pc = "release" /\ c \in p.todo
    /\ UNCHANGED SR
    /\ target' = IF c \in Orphaners THEN target ELSE Reverted(c, p)
    /\ \/ /\ q.pc = "release" /\ q.todo = p.todo \ {c}
          /\ SameLists(p, q) /\ q.st = p.st /\ q.waiting = p.waiting
       \/ p.todo = {c} /\ ReleasedAll(p, q)

Deletes ==
    /\ SRPass.pc = "deleteTarget"
    /\ target' = NoTarget
    /\ UNCHANGED SR
    /\ Decided(SRPass, SRPass')

\* The applier's Get.
Looks ==
    LET p == SRPass q == SRPass' c == First(SRPass.todo) IN
    /\ p.pc = "exists" /\ c \in p.todo
    /\ UNCHANGED <<SR, target>>
    /\ SameLists(p, q) /\ q.st = p.st /\ q.waiting = p.waiting
    /\ q.pc = "apply" /\ q.todo = p.todo /\ q.seen = Seen(c)

\* The target was missing.
Misses ==
    LET p == SRPass q == SRPass' c == First(SRPass.todo) IN
    /\ p.pc \in {"exists", "apply"} /\ c \in p.todo
    /\ ~target.exists
    /\ UNCHANGED <<SR, target>>
    /\ MovedPast(p, q, c) /\ q.st = p.st /\ q.waiting = p.waiting \cup {c}

Applies ==
    LET p == SRPass q == SRPass' c == First(SRPass.todo) IN
    /\ p.pc = "apply" /\ c \in p.todo
    /\ UNCHANGED SR
    /\ \/ target.exists /\ target' = [target EXCEPT !.fields = @ \cup {c}]
       \/ ~target.exists /\ target' = NewTarget({c}, c)
       \/ c \in p.seen.fields /\ UNCHANGED target
    /\ q.st = p.st /\ q.waiting = p.waiting
    /\ \/ MovedPast(p, q, c)
       \/ /\ q.pc = "provenance" /\ q.todo = p.todo /\ SameLists(p, q)
          /\ ~p.seen.exists

\* A status write that is sent on top of what the API server holds, or not at
\* all.
Writes(new) == UNCHANGED SR \/ (SR.exists /\ SR' = [SR EXCEPT !.st = new])

Records ==
    LET p == SRPass q == SRPass' c == First(SRPass.todo) IN
    /\ p.pc = "provenance" /\ c \in p.todo
    /\ UNCHANGED target
    /\ Writes(WithCreator(SR.st, c))
    /\ \E st \in {p.st, SRCache.st} : q.st = WithCreator(st, c)
    /\ MovedPast(p, q, c) /\ q.waiting = p.waiting

Reports ==
    /\ SRPass.pc \in {"exists", "apply", "status"}
    /\ UNCHANGED target
    /\ SRPass' = IdlePass
    /\ \/ SRPass.pc = "status" /\ Writes(WithRecords(SR.st, SRPass))
       \/ SRPass.pc # "status" /\ Writes(WithPhase(SR.st, SRPass))

AddsFinalizer ==
    /\ SRPass.pc = "addFin"
    /\ UNCHANGED target
    /\ SRPass' = IdlePass
    /\ SR.exists /\ SR' = [SR EXCEPT !.fin = TRUE]

DropsFinalizer ==
    /\ SRPass.pc = "dropFin"
    /\ UNCHANGED target
    /\ SR.exists /\ SRPass.st = SR.st
    /\ SR' = [SR EXCEPT !.fin = FALSE]
    /\ SRPass' = [IdlePass EXCEPT !.pc = "deleteSelf"]

Retires ==
    /\ SRPass.pc = "deleteSelf"
    /\ UNCHANGED target
    /\ SR' = NoTrackerObject
    /\ SRPass' = IdlePass

PassShape ==
    /\ Same
    /\ \/ Starts \/ Ends \/ Releases \/ Deletes \/ Looks \/ Misses \/ Applies
       \/ Records \/ Reports \/ AddsFinalizer \/ DropsFinalizer \/ Retires

\* patchStatus sends its mutation on top of what the API server holds: that is
\* what the pass holds while its copy is current, and the cache once it is.
LEMMA PatchHasShape ==
    ASSUME Inv, NEW own, NEW reread, NEW stays \in BOOLEAN, NEW new,
           PatchStatus("SR", SRPass, own, reread, stays),
           SRPass.st = SR.st => own = new,
           SRCache.st = SR.st => reread = new
    PROVE  /\ Writes(new)
           /\ UNCHANGED <<target, trk["CSR"], pass["CSR"]>>
           /\ ~stays => SRPass' = IdlePass
           /\ stays => \E st \in {own, reread} :
                            SRPass' = Visited([SRPass EXCEPT !.st = st])
<1> USE DEF SR, SRCache, SRPass
<1> DEFINE q == Retried("SR", SRPass, own, reread)
           missing == ~SR.exists
                      \/ ("pass" \notin freshT["SR"] /\ ~SRCache.exists)
<1>1. /\ SRPass \in Pass /\ SR \in TrackerObject
      /\ freshT["SR"] \in SUBSET {"cache", "pass"}
  BY DEF Inv, TypeOK, Trackers
<1>2. \A r : pass' = [pass EXCEPT !["SR"] = r] => SRPass' = r /\ UNCHANGED pass["CSR"]
  BY DEF Inv, TypeOK, Trackers
<1>3. \A o : trk' = [trk EXCEPT !["SR"] = o] => SR' = o /\ UNCHANGED trk["CSR"]
  BY DEF Inv, TypeOK, Trackers
<1>4. UNCHANGED target
  BY DEF PatchStatus
<1>5. CASE missing
  <2>1. UNCHANGED trk
    BY <1>5 DEF PatchStatus
  <2>2. pass' = [pass EXCEPT !["SR"] =
                    IF stays THEN Visited([SRPass EXCEPT !.st = own]) ELSE IdlePass]
    BY <1>5 DEF PatchStatus
  <2> QED
    BY <1>2, <1>4, <2>1, <2>2 DEF Writes
<1>6. CASE ~missing
  <2>1. PassWrite("SR", [SR EXCEPT !.st = q.st], stays)
    BY <1>6 DEF PatchStatus
  <2>2. pass' = [pass EXCEPT !["SR"] = IF stays THEN Visited(q) ELSE IdlePass]
    BY <1>6 DEF PatchStatus
  <2>3. freshT["SR"] # {}
    BY <1>6 DEF PatchStatus
  <2>4. q = [SRPass EXCEPT !.st = IF "pass" \in freshT["SR"] THEN own ELSE reread]
    BY DEF Retried
  <2>5. q.st = new
    <3>1. CASE "pass" \in freshT["SR"]
      <4>1. SRPass.st = SR.st
        BY <3>1 DEF Inv, FreshCopiesAgree, Trackers
      <4> QED
        BY <1>1, <2>4, <3>1, <4>1 DEF Pass
    <3>2. CASE "pass" \notin freshT["SR"]
      <4>1. SRCache.st = SR.st
        BY <1>1, <2>3, <3>2 DEF Inv, FreshCopiesAgree, Trackers
      <4> QED
        BY <1>1, <2>4, <3>2, <4>1 DEF Pass
    <3> QED
      BY <3>1, <3>2
  <2>6. Writes(new)
    BY <1>3, <1>6, <2>1, <2>5 DEF Writes, PassWrite
  <2>7. UNCHANGED trk["CSR"]
    BY <1>3, <2>1 DEF PassWrite
  <2> HIDE DEF q
  <2> QED
    BY <1>2, <1>4, <2>2, <2>4, <2>6, <2>7
<1> QED
  BY <1>5, <1>6

\* The steps of the trackers' passes have no other shapes.
LEMMA PassHasShape ==
    ASSUME Inv, Solo, NEW t \in Trackers,
           StartPass(t) \/ PassStep(t) \/ AbortPass(t) \/ ReportFailure(t)
    PROVE  PassShape
<1> DEFINE p == SRPass c == First(SRPass.todo)
<1> USE DEF SR, SRCache, SRPass
<1>1. t = "SR"
  BY DEF Solo, StartPass, PassStep, AbortPass, ReportFailure, ReleaseContributor,
     DeleteTarget, CheckTarget, ApplyContribution, RecordProvenance, WriteStatus,
     AddTrackerFinalizer, DropTrackerFinalizer, DeleteSelf, Unfence, Trackers
<1>2. /\ p \in Pass /\ PassOK(p) /\ SR \in TrackerObject /\ SRCache \in TrackerObject
      /\ target \in TargetObject /\ ~p.teardown
  BY DEF Inv, TypeOK, ReconcilesEquipped, PassOK, Trackers, Solo
<1>3. p.todo # {} => c \in p.todo
  BY <1>2, FirstIn DEF Pass
<1>4. \A q : pass' = [pass EXCEPT !["SR"] = q] => SRPass' = q /\ UNCHANGED pass["CSR"]
  BY DEF Inv, TypeOK, Trackers
<1>5. \A o : trk' = [trk EXCEPT !["SR"] = o] => SR' = o /\ UNCHANGED trk["CSR"]
  BY DEF Inv, TypeOK, Trackers
<1>6. \A q : Continue("SR", q) => /\ SRPass' = IF q.pc = "idle" THEN IdlePass ELSE q
                                  /\ UNCHANGED pass["CSR"]
  BY <1>4 DEF Continue
<1>7. IdlePass.pc = "idle"
  BY DEF IdlePass
<1> HIDE DEF p, c
<1>8. UNCHANGED <<contrib, contribCache, freshC, worker, trkCache>>
  BY DEF StartPass, PassStep, AbortPass, ReportFailure, ReleaseContributor,
     DeleteTarget, CheckTarget, ApplyContribution, RecordProvenance, WriteStatus,
     AddTrackerFinalizer, DropTrackerFinalizer, DeleteSelf, Unfence,
     UpdateTracker, PatchStatus, cacheVars
<1>9. CASE StartPass("SR")
  <2> DEFINE L == ListContributors("SR")
             q == Dispatch(SRCache, L)
             e == [IdlePass EXCEPT !.st = SRCache.st, !.owned = SRCache.st.owned]
             r == [e EXCEPT !.releasing = Releasing(L), !.active = L \ Releasing(L)]
  <2>1. /\ p.pc = "idle" /\ SRCache.exists
        /\ SRPass' = q /\ UNCHANGED <<SR, target, trk["CSR"], pass["CSR"]>>
    BY <1>4, <1>9 DEF StartPass, p
  <2>2. e \in Pass /\ r \in Pass
    BY <1>2, Empties DEF PassOK, Pass, TrackerObject, TrackerStatus, Releasing,
       ListContributors, Contributors
  <2>3. /\ L = {c1 \in RPs : contribCache[c1].phase \in {"live", "terminating"}}
        /\ Releasing(L) = {c1 \in RPs : contribCache[c1].phase = "terminating"}
        /\ L \ Releasing(L) = {c1 \in RPs : contribCache[c1].phase = "live"}
    BY DEF ListContributors, Exists, Releasing
  <2>4. ~IsFenced(SRCache.st) /\ ~SRCache.deleting
    BY DEF Solo, Unfenced
  <2>5. CASE ~SRCache.fin
    <3>1. q = [e EXCEPT !.pc = "addFin"]
      BY <2>4, <2>5 DEF Dispatch
    <3>2. /\ q.st = SRCache.st /\ q.owned = SRCache.st.owned /\ q.waiting = {}
          /\ ~q.teardown /\ q.pc = "addFin" /\ q.active = {} /\ q.releasing = {}
      BY <3>1 DEF IdlePass
    <3> HIDE DEF q
    <3>3. Starts
      BY <2>1, <3>2 DEF Starts, p
    <3> QED
      BY <1>8, <2>1, <3>3 DEF PassShape, Same
  <2>6. CASE SRCache.fin /\ L = {}
    <3>1. q = ReconcileEmpty(e)
      BY <2>4, <2>6 DEF Dispatch
    <3>2. /\ e.st = SRCache.st /\ e.owned = SRCache.st.owned /\ e.waiting = {}
          /\ ~e.teardown /\ e.active = {} /\ e.releasing = {} /\ e.todo = {}
      BY DEF IdlePass
    <3>3. {c1 \in RPs : contribCache[c1].phase = "terminating"} = {}
          /\ {c1 \in RPs : contribCache[c1].phase = "live"} = {}
      BY <2>3, <2>6
    <3> HIDE DEF e, L
    <3> QED
      BY <1>8, <2>1, <2>2, <3>1, <3>2, <3>3
         DEF PassShape, Same, Starts, Pass, ReconcileEmpty, p
  <2>7. CASE SRCache.fin /\ L # {}
    <3>1. q = IF r.releasing = {} THEN AfterReleases(r)
              ELSE [r EXCEPT !.pc = "release", !.todo = r.releasing]
      BY <2>4, <2>7 DEF Dispatch
    <3>2. /\ r.st = SRCache.st /\ r.owned = SRCache.st.owned /\ r.waiting = {}
          /\ ~r.teardown /\ r.active = L \ Releasing(L) /\ r.releasing = Releasing(L)
      BY DEF IdlePass
    <3> HIDE DEF r, L
    <3>3. CASE r.releasing = {}
      <4>1. ReleasedAll(r, q)
        BY <2>2, <3>1, <3>2, <3>3, ReleasedAllIs
      <4>2. ~WantsDelete(r.st, r.releasing)
        BY <3>3 DEF WantsDelete
      <4>3. Decided(r, q)
        BY <4>1, <4>2 DEF ReleasedAll
      <4> HIDE DEF q
      <4> QED
        BY <1>8, <2>1, <2>3, <3>2, <3>3, <4>3
           DEF PassShape, Same, Starts, Decided, SameLists, p
    <3>4. CASE r.releasing # {}
      <4>1. /\ q.st = r.st /\ q.owned = r.owned /\ q.waiting = r.waiting
            /\ ~q.teardown /\ q.active = r.active /\ q.releasing = r.releasing
            /\ q.pc = "release" /\ q.todo = r.releasing
        BY <2>2, <3>1, <3>2, <3>4 DEF Pass
      <4> HIDE DEF q
      <4>2. Starts
        BY <2>1, <2>3, <3>2, <4>1 DEF Starts, p
      <4> QED
        BY <1>8, <2>1, <4>2 DEF PassShape, Same
    <3> QED
      BY <3>3, <3>4
  <2> QED
    BY <1>2, <2>5, <2>6, <2>7 DEF TrackerObject
<1>10. ASSUME Continue("SR", IdlePass), UNCHANGED <<trk, target>>
       PROVE  PassShape
  BY <1>6, <1>7, <1>8, <1>10 DEF PassShape, Same, Ends
<1>11. CASE AbortPass("SR")
  BY <1>4, <1>8, <1>11 DEF AbortPass, PassShape, Same, Ends
<1>12. CASE ReleaseContributor("SR")
  <2> DEFINE q == [p EXCEPT !.todo = @ \ {c}]
             r == IF q.todo = {} THEN AfterReleases(q) ELSE q
  <2>1. p.pc = "release" /\ c \in p.todo /\ UNCHANGED trk
    BY <1>2, <1>3, <1>12 DEF ReleaseContributor, PassOK, p
  <2>2. CASE c \notin Orphaners /\ RevertFails(c)
    BY <1>10, <1>12, <2>1, <2>2 DEF ReleaseContributor, p, c
  <2>3. CASE ~(c \notin Orphaners /\ RevertFails(c))
    <3>1. /\ q \in Pass /\ q.todo = p.todo \ {c} /\ q.pc = "release"
          /\ SameLists(p, q) /\ q.st = p.st /\ q.waiting = p.waiting /\ ~q.teardown
      BY <1>2, <2>1 DEF Pass, SameLists
    <3>2. Continue("SR", r) /\ target' = IF c \in Orphaners THEN target ELSE Reverted(c, p)
      BY <1>12, <2>3 DEF ReleaseContributor, p, c
    <3> HIDE DEF q
    <3>3. CASE q.todo = {}
      <4>1. ReleasedAll(q, r)
        BY <3>1, <3>3, ReleasedAllIs
      <4>2. ReleasedAll(p, r)
        BY <3>1, <4>1 DEF ReleasedAll, Decided, SameLists
      <4>3. r.pc # "idle"
        BY <4>2 DEF ReleasedAll, Decided
      <4>4. p.todo = {c}
        BY <2>1, <3>1, <3>3
      <4>5. SRPass' = r /\ UNCHANGED pass["CSR"]
        BY <1>6, <3>2, <4>3
      <4> HIDE DEF r
      <4>6. Releases
        BY <2>1, <3>2, <4>2, <4>4, <4>5 DEF Releases, p, c
      <4> QED
        BY <1>8, <2>1, <4>5, <4>6 DEF PassShape, Same
    <3>4. CASE q.todo # {}
      <4>1. SRPass' = q /\ UNCHANGED pass["CSR"]
        BY <1>6, <3>1, <3>2, <3>4
      <4>2. Releases
        BY <2>1, <3>1, <3>2, <4>1 DEF Releases, p, c
      <4> QED
        BY <1>8, <2>1, <4>1, <4>2 DEF PassShape, Same
    <3> QED
      BY <3>3, <3>4
  <2> QED
    BY <2>2, <2>3
<1>13. CASE DeleteTarget("SR")
  <2>1. Decided(p, AfterDecision(p))
    BY <1>2, DecidedIs
  <2>2. AfterDecision(p).pc # "idle"
    BY <2>1 DEF Decided
  <2>3. SRPass' = AfterDecision(p) /\ UNCHANGED pass["CSR"]
    BY <1>6, <1>13, <2>2 DEF DeleteTarget, p
  <2> QED
    BY <1>8, <1>13, <2>1, <2>3 DEF DeleteTarget, PassShape, Same, Deletes, p
<1>14. CASE CheckTarget("SR")
  <2>1. p.pc = "exists" /\ c \in p.todo /\ UNCHANGED <<trk, target>>
    BY <1>2, <1>3, <1>14 DEF CheckTarget, PassOK, p
  <2>2. CASE ~target.exists /\ c \notin Creators
    <3>1. /\ MovedPast(p, NotFound(p), c) /\ NotFound(p).st = p.st
          /\ NotFound(p).waiting = p.waiting \cup {c}
      BY <1>2, <2>1, NotFoundIs DEF c, p
    <3>2. SRPass' = NotFound(p) /\ UNCHANGED pass["CSR"]
      BY <1>6, <1>14, <2>2, <3>1 DEF CheckTarget, MovedPast, p, c
    <3> QED
      BY <1>8, <2>1, <2>2, <3>1, <3>2 DEF PassShape, Same, Misses, p, c
  <2>3. CASE ~(~target.exists /\ c \notin Creators)
    <3> DEFINE q == [p EXCEPT !.pc = "apply", !.seen = Seen(c)]
    <3>1. /\ SameLists(p, q) /\ q.st = p.st /\ q.waiting = p.waiting
          /\ q.pc = "apply" /\ q.todo = p.todo /\ q.seen = Seen(c)
      BY <1>2 DEF Pass, SameLists
    <3>2. Continue("SR", q)
      BY <1>14, <2>3 DEF CheckTarget, p, c
    <3> HIDE DEF q
    <3>3. SRPass' = q /\ UNCHANGED pass["CSR"]
      BY <1>6, <3>1, <3>2
    <3> QED
      BY <1>8, <2>1, <3>1, <3>3 DEF PassShape, Same, Looks, p, c
  <2> QED
    BY <2>2, <2>3
<1>15. CASE ApplyContribution("SR")
  <2>1. p.pc = "apply" /\ c \in p.todo /\ UNCHANGED trk
    BY <1>2, <1>3, <1>15 DEF ApplyContribution, PassOK, p
  <2>2. ASSUME Continue("SR", Applied(p)),
               \/ target.exists /\ target' = [target EXCEPT !.fields = @ \cup {c}]
               \/ ~target.exists /\ target' = NewTarget({c}, c)
               \/ c \in p.seen.fields /\ UNCHANGED target
        PROVE  PassShape
    <3> DEFINE q == Applied(p)
    <3>1. /\ q.st = p.st /\ q.waiting = p.waiting
          /\ \/ MovedPast(p, q, c)
             \/ /\ q.pc = "provenance" /\ q.todo = p.todo /\ SameLists(p, q)
                /\ ~p.seen.exists
      <4>1. CASE ~p.seen.exists /\ p.st.creator = NoOne
        BY <1>2, <4>1 DEF Applied, SameLists, Pass
      <4>2. CASE ~(~p.seen.exists /\ p.st.creator = NoOne)
        BY <1>2, <4>2, MovedPastIs DEF Applied, c, p
      <4> QED
        BY <4>1, <4>2
    <3>2. q.pc # "idle"
      BY <3>1 DEF MovedPast
    <3>3. SRPass' = q /\ UNCHANGED pass["CSR"]
      BY <1>6, <2>2, <3>2
    <3> HIDE DEF q
    <3> QED
      BY <1>8, <2>1, <2>2, <3>1, <3>3 DEF PassShape, Same, Applies, p, c
  <2>3. ASSUME Continue("SR", NotFound(p)), ~target.exists, UNCHANGED target
        PROVE  PassShape
    <3>1. /\ MovedPast(p, NotFound(p), c) /\ NotFound(p).st = p.st
          /\ NotFound(p).waiting = p.waiting \cup {c}
      BY <1>2, <2>1, NotFoundIs DEF c, p
    <3>2. SRPass' = NotFound(p) /\ UNCHANGED pass["CSR"]
      BY <1>6, <2>3, <3>1 DEF MovedPast
    <3> QED
      BY <1>8, <2>1, <2>3, <3>1, <3>2 DEF PassShape, Same, Misses, p, c
  <2>4. CASE c \in ClientSide
    <3>1. ClientSideApply("SR", p, c)
      BY <1>15, <2>4 DEF ApplyContribution, p, c
    <3> QED
      BY <1>2, <1>10, <2>1, <2>2, <2>3, <3>1 DEF ClientSideApply, TargetObject
  <2>5. CASE c \notin ClientSide
    <3>1. ServerSideApply("SR", p, c)
      BY <1>15, <2>5 DEF ApplyContribution, p, c
    <3> QED
      BY <1>2, <2>2, <3>1 DEF ServerSideApply, TargetObject
  <2> QED
    BY <2>4, <2>5
<1>16. CASE RecordProvenance("SR")
  <2>1. p.pc = "provenance" /\ c \in p.todo
    BY <1>2, <1>3, <1>16 DEF RecordProvenance, PassOK, p
  <2>2. PatchStatus("SR", SRPass, WithCreator(p.st, c), WithCreator(SRCache.st, c), TRUE)
    BY <1>16 DEF RecordProvenance, p, c
  <2>3. /\ Writes(WithCreator(SR.st, c))
        /\ UNCHANGED <<target, trk["CSR"], pass["CSR"]>>
        /\ \E st \in {WithCreator(p.st, c), WithCreator(SRCache.st, c)} :
                SRPass' = Visited([SRPass EXCEPT !.st = st])
    <3>1. /\ SRPass.st = SR.st => WithCreator(p.st, c) = WithCreator(SR.st, c)
          /\ SRCache.st = SR.st => WithCreator(SRCache.st, c) = WithCreator(SR.st, c)
      BY DEF p
    <3> DEFINE own == WithCreator(p.st, c) reread == WithCreator(SRCache.st, c)
               new == WithCreator(SR.st, c) stays == TRUE
    <3>2. PatchStatus("SR", SRPass, own, reread, stays) /\ stays \in BOOLEAN
      BY <2>2
    <3> HIDE DEF own, reread, new, stays
    <3>3. /\ Writes(new)
          /\ UNCHANGED <<target, trk["CSR"], pass["CSR"]>>
          /\ stays => \E st \in {own, reread} :
                        SRPass' = Visited([SRPass EXCEPT !.st = st])
      BY <3>2, <3>1, PatchHasShape DEF own, reread, new
    <3> QED
      BY <3>3 DEF own, reread, new, stays
  <2>4. PICK st \in {p.st, SRCache.st} :
            SRPass' = Visited([SRPass EXCEPT !.st = WithCreator(st, c)])
    BY <2>3
  <2> DEFINE r == [p EXCEPT !.st = WithCreator(st, c)]
  <2>5. c \in Contributors /\ p.st \in TrackerStatus /\ SRCache.st \in TrackerStatus
    BY <1>2, <2>1 DEF Pass, TrackerObject
  <2>6. WithCreator(st, c) \in TrackerStatus
    BY <1>2, <2>5, MutationTypes
  <2>7. /\ r \in Pass /\ ~r.teardown /\ r.st = WithCreator(st, c) /\ r.todo = p.todo
        /\ r.waiting = p.waiting /\ SameLists(p, r)
    BY <1>2, <2>6 DEF Pass, SameLists
  <2> HIDE DEF r
  <2>8. MovedPast(r, Visited(r), c) /\ Visited(r).st = r.st /\ Visited(r).waiting = r.waiting
    BY <2>7, MovedPastIs DEF c, p
  <2>9. SRPass' = Visited(r)
    BY <2>4 DEF r, p
  <2>10. MovedPast(p, SRPass', c) /\ SRPass'.st = WithCreator(st, c)
         /\ SRPass'.waiting = p.waiting
    BY <2>7, <2>8, <2>9 DEF MovedPast, SameLists
  <2>11. Records
    BY <2>1, <2>3, <2>10 DEF Records, p, c
  <2> QED
    BY <1>8, <2>3, <2>11 DEF PassShape, Same
<1>17. CASE WriteStatus("SR")
  <2>1. p.pc = "status"
        /\ PatchStatus("SR", SRPass, WithRecords(p.st, p), WithRecords(SRCache.st, p), FALSE)
    BY <1>17 DEF WriteStatus, p
  <2>2. /\ Writes(WithRecords(SR.st, p)) /\ SRPass' = IdlePass
        /\ UNCHANGED <<target, trk["CSR"], pass["CSR"]>>
    BY <2>1, PatchHasShape DEF p
  <2> QED
    BY <1>8, <2>1, <2>2 DEF PassShape, Same, Reports, p
<1>18. CASE ReportFailure("SR")
  <2>1. p.pc \in {"exists", "apply"}
        /\ PatchStatus("SR", SRPass, WithPhase(p.st, p), WithPhase(SRCache.st, p), FALSE)
    BY <1>18 DEF ReportFailure, p
  <2>2. /\ Writes(WithPhase(SR.st, p)) /\ SRPass' = IdlePass
        /\ UNCHANGED <<target, trk["CSR"], pass["CSR"]>>
    BY <2>1, PatchHasShape DEF p
  <2> QED
    BY <1>8, <2>1, <2>2 DEF PassShape, Same, Reports, p
<1>19. ASSUME NEW o, NEW q, UpdateTracker("SR", o, q)
       PROVE  /\ UNCHANGED <<target, trk["CSR"], pass["CSR"]>>
              /\ \/ SRPass' = IdlePass /\ UNCHANGED SR
                 \/ SRPass' = q /\ SR' = o /\ SR.exists /\ p.st = SR.st
  <2>1. CASE SR.exists /\ "pass" \in freshT["SR"]
    <3>1. p.st = SR.st
      BY <2>1 DEF Inv, FreshCopiesAgree, Trackers, p
    <3> QED
      BY <1>4, <1>5, <1>19, <2>1, <3>1 DEF UpdateTracker, PassWrite
  <2>2. CASE ~(SR.exists /\ "pass" \in freshT["SR"])
    BY <1>4, <1>19, <2>2 DEF UpdateTracker
  <2> QED
    BY <2>1, <2>2
<1>20. CASE AddTrackerFinalizer("SR")
  BY <1>8, <1>19, <1>20 DEF AddTrackerFinalizer, PassShape, Same, Ends, AddsFinalizer
<1>21. CASE DropTrackerFinalizer("SR")
  <2>1. WithoutFinalizer(SR) = [SR EXCEPT !.fin = FALSE]
    BY DEF WithoutFinalizer, Solo, Unfenced
  <2>2. UpdateTracker("SR", [SR EXCEPT !.fin = FALSE], [IdlePass EXCEPT !.pc = "deleteSelf"])
    BY <1>2, <1>21, <2>1 DEF DropTrackerFinalizer, p
  <2> QED
    BY <1>8, <1>19, <1>21, <2>2
       DEF DropTrackerFinalizer, PassShape, Same, Ends, DropsFinalizer, p
<1>22. CASE DeleteSelf("SR")
  <2>1. SR.exists /\ ~SR.fin
    BY <1>22 DEF DeleteSelf, Solo
  <2>2. SR' = NoTrackerObject /\ UNCHANGED trk["CSR"]
    BY <1>5, <1>22, <2>1 DEF DeleteSelf, PassWrite, Deleted
  <2> QED
    BY <1>4, <1>8, <1>22, <2>2 DEF DeleteSelf, PassShape, Same, Retires
<1>23. ~Unfence("SR")
  BY DEF Unfence, Solo
<1> QED
  BY <1>1, <1>9, <1>11, <1>12, <1>13, <1>14, <1>15, <1>16, <1>17, <1>18, <1>20,
     <1>21, <1>22, <1>23 DEF PassStep

-----------------------------------------------------------------------------
(* The other steps *)

PassMoves ==
    \E t \in Trackers : StartPass(t) \/ PassStep(t) \/ AbortPass(t) \/ ReportFailure(t)

WorkerMoves ==
    \/ \E c \in Contributors : StartReconcile(c)
    \/ \E k \in Kinds :
            \/ SetInvalid(k) \/ AddFinalizer(k) \/ DropFinalizer(k)
            \/ CreateTrackerFor(k) \/ SyncStatus(k) \/ AbortWorker(k)
    \/ LookupClusterTracker
    \/ LookupOwnTracker

UserMoves ==
    \E c \in Contributors :
        CreateContributor(c) \/ DeleteContributor(c) \/ SyncContributor(c)

\* Without promotion and with the trackers left alone there are no others.
LEMMA StepsAre ==
    ASSUME Solo, TrackersLeftAlone, Next
    PROVE  \/ PassMoves \/ WorkerMoves \/ UserMoves
           \/ \E t \in Trackers : SyncTracker(t)
           \/ ChangeTarget
<1>1. ~PromotionStep
  BY DEF Solo, PromotionStep, FenceTracker, ReadPredecessor, CreateSuccessor,
     AdoptPredecessor, FlagAdopted
<1>2. \A t : ~UserDeletesTracker(t)
  BY DEF TrackersLeftAlone, UserDeletesTracker
<1> QED
  BY <1>1, <1>2 DEF Next, SyncStep, UserStep, OutOfBandStep, AbortStep, StartWorker,
     WorkerStep, StartTracker, TrackerStep, ContributorStep, PassMoves, WorkerMoves,
     UserMoves

-----------------------------------------------------------------------------
(* Solo is inductive *)

\* No status write of a pass touches the fence, the finalizer or the deletion
\* mark.
LEMMA WritesKeepUnfenced ==
    ASSUME Unfenced(SR), SR \in TrackerObject,
           NEW new \in TrackerStatus, new.fence = SR.st.fence, Writes(new)
    PROVE  Unfenced(SR')
<1>1. CASE UNCHANGED SR
  BY <1>1
<1>2. CASE SR.exists /\ SR' = [SR EXCEPT !.st = new]
  BY <1>2 DEF Unfenced, IsFenced, TrackerObject
<1> QED
  BY <1>1, <1>2 DEF Writes

\* The mutations a pass sends to patchStatus leave the fence as it is.
LEMMA MutationsKeepFence ==
    ASSUME NEW st \in TrackerStatus, NEW p \in Pass
    PROVE  /\ \A c : WithCreator(st, c).fence = st.fence
           /\ WithRecords(st, p).fence = st.fence
           /\ WithPhase(st, p).fence = st.fence
  BY DEF WithCreator, WithRecords, WithPhase, WithKnownCreator, TrackerStatus

\* A pass of the SharedResource brings no second tracker and no fence.
LEMMA PassKeepsSolo ==
    ASSUME Inv, Solo, PassShape
    PROVE  Solo'
<1> USE DEF SR, SRCache, SRPass
<1> DEFINE p == SRPass
<1>1. /\ p \in Pass /\ SR \in TrackerObject /\ SRCache \in TrackerObject
      /\ SR.st \in TrackerStatus /\ SRCache.st \in TrackerStatus /\ p.st \in TrackerStatus
      /\ p.todo \subseteq Contributors
  BY DEF Inv, TypeOK, Trackers, TrackerObject, Pass
<1>2. /\ Unfenced(SR) /\ Unfenced(SRCache) /\ ~IsFenced(p.st) /\ ~p.teardown
      /\ p.pc = "dropFin" => p.st.recs = NoRecords
      /\ p.pc = "deleteSelf" => SR.exists /\ ~SR.fin /\ SR.st.recs = NoRecords
  BY DEF Solo
<1>3. /\ IdlePass.pc = "idle" /\ ~IdlePass.teardown /\ ~IsFenced(IdlePass.st)
      /\ Unfenced(NoTrackerObject)
  BY DEF IdlePass, EmptyStatus, IsFenced, Unfenced, NoTrackerObject
<1> DEFINE Good == /\ Unfenced(SR')
                   /\ ~SRPass'.teardown /\ ~IsFenced(SRPass'.st) /\ SRPass'.pc # "unfence"
                   /\ SRPass'.pc = "dropFin" => SRPass'.st.recs = NoRecords
                   /\ SRPass'.pc = "deleteSelf"
                        => SR'.exists /\ ~SR'.fin /\ SR'.st.recs = NoRecords
<1>4. SUFFICES Good
  BY DEF Solo, PassShape, Same, Unfenced, IsFenced
<1>5. CASE Starts
  BY <1>2, <1>5 DEF Starts, Unfenced
<1>6. CASE Ends
  BY <1>2, <1>3, <1>6 DEF Ends
<1>7. CASE Releases
  BY <1>2, <1>7 DEF Releases, ReleasedAll, Decided, SameLists
<1>8. CASE Deletes
  BY <1>2, <1>8 DEF Deletes, Decided, SameLists
<1>9. CASE Looks \/ Misses \/ Applies
  BY <1>2, <1>9 DEF Looks, Misses, Applies, MovedPast, SameLists
<1>10. CASE Records
  <2> DEFINE c == First(p.todo)
  <2>1. c \in Contributors
    BY <1>1, <1>10 DEF Records
  <2> HIDE DEF c
  <2>2. /\ WithCreator(SR.st, c) \in TrackerStatus
        /\ WithCreator(SR.st, c).fence = SR.st.fence
    BY <1>1, <2>1, MutationTypes, MutationsKeepFence
  <2>3. Unfenced(SR')
    BY <1>1, <1>2, <1>10, <2>2, WritesKeepUnfenced DEF Records, c
  <2>4. PICK st \in {p.st, SRCache.st} : SRPass'.st = WithCreator(st, c)
    BY <1>10 DEF Records, c
  <2>5. SRPass'.st.fence = st.fence
    BY <1>1, <2>1, <2>4, MutationsKeepFence
  <2> QED
    BY <1>2, <1>10, <2>3, <2>5 DEF Records, MovedPast, SameLists, IsFenced, Unfenced
<1>11. CASE Reports
  <2>1. \E new \in {WithRecords(SR.st, p), WithPhase(SR.st, p)} : Writes(new)
    BY <1>11 DEF Reports
  <2>2. \A new \in {WithRecords(SR.st, p), WithPhase(SR.st, p)} :
            new \in TrackerStatus /\ new.fence = SR.st.fence
    <3>1. WithRecords(SR.st, p) \in TrackerStatus /\ WithPhase(SR.st, p) \in TrackerStatus
      BY <1>1, MutationTypes
    <3>2. WithRecords(SR.st, p).fence = SR.st.fence /\ WithPhase(SR.st, p).fence = SR.st.fence
      BY <1>1, MutationsKeepFence
    <3> QED
      BY <3>1, <3>2
  <2>3. Unfenced(SR')
    BY <1>1, <1>2, <2>1, <2>2, WritesKeepUnfenced
  <2> QED
    BY <1>3, <1>11, <2>3 DEF Reports
<1>12. CASE AddsFinalizer
  BY <1>1, <1>2, <1>3, <1>12 DEF AddsFinalizer, Unfenced, TrackerObject
<1>13. CASE DropsFinalizer
  <2>1. ~SRPass'.teardown /\ ~IsFenced(SRPass'.st) /\ SRPass'.pc = "deleteSelf"
    BY <1>13 DEF DropsFinalizer, IdlePass, EmptyStatus, IsFenced
  <2>2. /\ SR'.exists /\ ~SR'.fin /\ SR'.st = SR.st /\ ~SR'.deleting
        /\ SR.st.recs = NoRecords
    BY <1>1, <1>2, <1>13 DEF DropsFinalizer, TrackerObject, Unfenced
  <2> QED
    BY <1>2, <2>1, <2>2 DEF Unfenced
<1>14. CASE Retires
  BY <1>3, <1>14 DEF Retires
<1> QED
  BY <1>5, <1>6, <1>7, <1>8, <1>9, <1>10, <1>11, <1>12, <1>13, <1>14 DEF PassShape


\* The ResourcePatch worker's steps end where Solo wants them.
LEMMA WorkerKeepsSolo ==
    ASSUME NoPromotion, Inv, Solo, WorkerMoves
    PROVE  Solo'
<1> USE DEF SR, SRCache, SRPass
<1> DEFINE Idle(k) == worker' = [worker EXCEPT ![k] = IdleWorker]
           FinsKept == \A c \in CRPs : ~contrib'[c].fin
           RestKept == UNCHANGED <<contribCache, trkCache, trk, pass>>
<1>1. /\ worker \in [Kinds -> Worker] /\ contrib \in [Contributors -> ContribObject]
      /\ trk \in [Trackers -> TrackerObject]
  BY DEF Inv, TypeOK
<1>2. IdleWorker.pc = "idle"
  BY DEF IdleWorker
<1>3. \A c : ~(c \in RPs /\ c \in CRPs)
  BY ContributorsAssumption
<1>4. ASSUME NEW k \in Kinds, Idle(k), FinsKept, RestKept
      PROVE  Solo'
  BY <1>1, <1>2, <1>4 DEF Solo, Kinds, Unfenced, IsFenced
<1>5. ASSUME NEW k \in Kinds, NEW o, UpdateContributor(k, o), worker[k].pc # "idle",
             worker[k].c \in CRPs => ~o.fin
      PROVE  Solo'
  <2>1. FinsKept
    BY <1>1, <1>5 DEF UpdateContributor, WriteContrib, Solo, Contributors
  <2> QED
    BY <1>4, <1>5, <2>1 DEF UpdateContributor
<1>6. ASSUME NEW w, worker' = [worker EXCEPT !["RP"] = w], RestKept, UNCHANGED contrib,
             w.c = worker["RP"].c, w.pc \in {"lookupOwn", "create", "sync"},
             w.pc \in {"create", "sync"} => w.ref = "SR", worker["RP"].pc # "idle"
      PROVE  Solo'
  BY <1>1, <1>6 DEF Solo, Kinds, Unfenced, IsFenced
<1>7. ASSUME NEW c \in Contributors, StartReconcile(c) PROVE Solo'
  <2> DEFINE k == KindOf(c) w == [IdleWorker EXCEPT !.pc = FirstStep(c, contribCache[c]), !.c = c]
  <2>1. w.pc = FirstStep(c, contribCache[c]) /\ w.c = c
    BY DEF IdleWorker
  <2>2. /\ worker' = [worker EXCEPT ![k] = w] /\ UNCHANGED contrib /\ RestKept
        /\ contribCache[c].phase \in {"live", "terminating"}
        /\ w.pc # "idle"
    BY <1>7, <2>1 DEF StartReconcile, cacheVars, Exists
  <2>3. k \in Kinds
    BY DEF KindOf, Kinds
  <2>4. CASE c \in CRPs
    <3>1. c \in Invalid /\ ~contribCache[c].fin /\ k = "CRP"
      BY <1>3, <2>4 DEF NoPromotion, Solo, KindOf
    <3>2. FirstStep(c, contribCache[c]) \in {"idle", "setInvalid"}
      BY <2>2, <3>1 DEF FirstStep
    <3> HIDE DEF w, k
    <3> QED
      BY <1>1, <2>1, <2>2, <3>1, <3>2 DEF Solo, Kinds, Unfenced, IsFenced, k
  <2>5. CASE c \in RPs
    <3>1. k = "RP" /\ c \notin CRPs
      BY <1>3, <2>5 DEF KindOf
    <3>2. contribCache[c].fin \in BOOLEAN
      BY DEF Inv, TypeOK, ContribObject
    <3>3. FirstStep(c, contribCache[c])
                \in {"idle", "setInvalid", "addFin", "dropFin", "lookup"}
      BY <2>2, <2>5, <3>1, <3>2 DEF FirstStep
    <3> HIDE DEF w, k
    <3> QED
      BY <1>1, <2>1, <2>2, <3>1, <3>3 DEF Solo, Kinds, Unfenced, IsFenced, k
  <2> QED
    BY <2>4, <2>5 DEF Contributors
<1>8. ASSUME NEW k \in Kinds, SetInvalid(k) \/ AddFinalizer(k) \/ DropFinalizer(k)
                              \/ SyncStatus(k)
      PROVE  Solo'
  <2> DEFINE c == worker[k].c
  <2>1. worker[k].pc # "idle" /\ KindOf(c) = k
    BY <1>8 DEF Solo, SetInvalid, AddFinalizer, DropFinalizer, SyncStatus
  <2>2. c \in Contributors /\ contrib[c] \in ContribObject
    BY <2>1 DEF Inv, TypeOK, ReconcilesEquipped
  <2>3. c \in CRPs => ~contrib[c].fin /\ ~AddFinalizer(k)
    BY <1>3, <2>1 DEF Solo, KindOf, AddFinalizer
  <2>4. CASE SetInvalid(k)
    BY <1>5, <2>1, <2>2, <2>3, <2>4 DEF SetInvalid, ContribObject
  <2>5. CASE AddFinalizer(k)
    BY <1>5, <2>1, <2>2, <2>3, <2>5 DEF AddFinalizer, ContribObject
  <2>6. CASE DropFinalizer(k)
    BY <1>5, <2>1, <2>2, <2>3, <2>6 DEF DropFinalizer, ContribObject
  <2>7. CASE SyncStatus(k)
    <3> DEFINE o == [contrib[c] EXCEPT !.ref = worker[k].ref,
            !.ready = trkCache[worker[k].ref].exists
                      /\ trkCache[worker[k].ref].st.recs[c] = "applied"]
    <3>1. UpdateContributor(k, o)
      BY <2>7 DEF SyncStatus
    <3>2. o.fin = contrib[c].fin
      BY <2>2 DEF ContribObject
    <3> HIDE DEF o
    <3> QED
      BY <1>5, <2>1, <2>2, <2>3, <3>1, <3>2
  <2> QED
    BY <1>8, <2>4, <2>5, <2>6, <2>7
<1>9. ASSUME NEW k \in Kinds, AbortWorker(k) PROVE Solo'
  <2>1. FinsKept
    BY <1>9 DEF AbortWorker, Solo
  <2> QED
    BY <1>4, <1>9, <2>1 DEF AbortWorker, EndWorker, cacheVars
<1>10. CASE LookupClusterTracker
  <2> DEFINE w == [worker["RP"] EXCEPT !.pc = "lookupOwn"]
  <2>1. worker["RP"].pc = "lookup" /\ worker' = [worker EXCEPT !["RP"] = w]
        /\ UNCHANGED contrib /\ RestKept
    BY <1>10 DEF LookupClusterTracker, Solo, storeVars, cacheVars
  <2>2. w.pc = "lookupOwn" /\ w.c = worker["RP"].c
    BY <1>1 DEF Worker, Kinds
  <2> HIDE DEF w
  <2> QED
    BY <1>6, <2>1, <2>2
<1>11. CASE LookupOwnTracker
  <2> DEFINE w == [worker["RP"] EXCEPT !.pc = IF SRCache.exists THEN "sync" ELSE "create",
                                       !.ref = "SR"]
  <2>1. worker["RP"].pc = "lookupOwn" /\ worker' = [worker EXCEPT !["RP"] = w]
        /\ UNCHANGED contrib /\ RestKept
    BY <1>11 DEF LookupOwnTracker, Solo, Unfenced, storeVars, cacheVars
  <2>2. w.pc \in {"sync", "create"} /\ w.c = worker["RP"].c /\ w.ref = "SR"
    BY <1>1 DEF Worker, Kinds
  <2> HIDE DEF w
  <2> QED
    BY <1>6, <2>1, <2>2
<1>12. ASSUME NEW k \in Kinds, CreateTrackerFor(k) PROVE Solo'
  <2>1. k = "RP" /\ worker["RP"].pc = "create" /\ worker["RP"].ref = "SR"
    BY <1>12 DEF Solo, CreateTrackerFor, Kinds
  <2>2. /\ worker'["RP"].pc = "sync" /\ worker'["RP"].c = worker["RP"].c
        /\ worker'["RP"].ref = "SR" /\ UNCHANGED worker["CRP"]
    BY <1>1, <1>12, <2>1 DEF CreateTrackerFor, Worker, Kinds
  <2>3. /\ UNCHANGED trk["CSR"]
        /\ UNCHANGED SR \/ (~SR.exists /\ SR' = NewTrackerObject)
    BY <1>1, <1>12, <2>1 DEF CreateTrackerFor, CreateTracker, WriteTracker, Trackers
  <2>4. Unfenced(SR')
    <3>1. Unfenced(NewTrackerObject)
      BY DEF Unfenced, IsFenced, NewTrackerObject, NoTrackerObject, EmptyStatus
    <3>2. Unfenced(SR)
      BY DEF Solo
    <3> QED
      BY <2>3, <3>1, <3>2
  <2>5. SRPass.pc = "deleteSelf" => UNCHANGED SR
    BY <2>3 DEF Solo
  <2>6. UNCHANGED <<contrib, contribCache, trkCache, pass>>
    BY <1>12 DEF CreateTrackerFor
  <2>7. \A j \in Kinds : worker'[j].pc # "idle" => KindOf(worker'[j].c) = j
    BY <2>1, <2>2 DEF Solo, Kinds
  <2> QED
    BY <2>1, <2>2, <2>3, <2>4, <2>5, <2>6, <2>7 DEF Solo, Unfenced, IsFenced
<1> QED
  BY <1>7, <1>8, <1>9, <1>10, <1>11, <1>12 DEF WorkerMoves

\* Without promotion the SharedResource stays the only tracker.
LEMMA SoloInductive ==
    ASSUME NoPromotion, TrackersLeftAlone
    PROVE  /\ Init => Solo
           /\ Inv /\ Solo /\ [Next]_allVars => Solo'
<1> USE DEF SR, SRCache, SRPass
<1>1. ASSUME Init PROVE Solo
  BY <1>1 DEF Init, Solo, Contributors, NoContrib, Trackers, Kinds, IdleWorker, IdlePass,
     Unfenced, IsFenced, NoTrackerObject, EmptyStatus
<1> SUFFICES ASSUME Inv, Solo, [Next]_allVars PROVE Solo'
  BY <1>1
<1>2. CASE PassMoves
  BY <1>2, PassHasShape, PassKeepsSolo DEF PassMoves
<1>3. CASE WorkerMoves
  BY <1>3, WorkerKeepsSolo
<1>4. CASE UserMoves
  <2>1. /\ UNCHANGED <<worker, trk, trkCache, pass>>
        /\ \A c \in CRPs : ~contrib'[c].fin /\ ~contribCache'[c].fin
    <3> PICK c \in Contributors :
            CreateContributor(c) \/ DeleteContributor(c) \/ SyncContributor(c)
      BY <1>4 DEF UserMoves
    <3>1. /\ contrib \in [Contributors -> ContribObject]
          /\ contribCache \in [Contributors -> ContribObject]
          /\ contrib[c] \in ContribObject
      BY DEF Inv, TypeOK
    <3>2. \A d \in CRPs : d \in Contributors /\ ~contrib[d].fin /\ ~contribCache[d].fin
      BY DEF Solo, Contributors
    <3>3. CASE CreateContributor(c)
      BY <3>1, <3>2, <3>3
         DEF CreateContributor, WriteContrib, NoContrib, cacheVars, envVars
    <3>4. CASE DeleteContributor(c)
      <4> DEFINE o == IF contrib[c].fin THEN [contrib[c] EXCEPT !.phase = "terminating"]
                      ELSE [contrib[c] EXCEPT !.phase = "gone", !.ref = NoTracker]
      <4>1. o.fin = contrib[c].fin
        BY <3>1 DEF ContribObject
      <4>2. contrib' = [contrib EXCEPT ![c] = o]
            /\ UNCHANGED <<worker, trk, trkCache, contribCache, pass>>
        BY <3>4 DEF DeleteContributor, WriteContrib, cacheVars
      <4> HIDE DEF o
      <4> QED
        BY <3>1, <3>2, <4>1, <4>2
    <3>5. CASE SyncContributor(c)
      BY <3>1, <3>2, <3>5 DEF SyncContributor
    <3> QED
      BY <3>3, <3>4, <3>5
  <2> QED
    BY <2>1 DEF Solo, Unfenced, IsFenced
<1>5. ASSUME NEW t \in Trackers, SyncTracker(t) PROVE Solo'
  BY <1>5 DEF SyncTracker, Solo, Unfenced, IsFenced, Inv, TypeOK, Trackers
<1>6. CASE ChangeTarget
  BY <1>6 DEF ChangeTarget, Solo, Unfenced, IsFenced, storeVars, cacheVars
<1>7. CASE UNCHANGED allVars
  BY <1>7 DEF allVars, vars, Solo, Unfenced, IsFenced
<1> QED
  BY <1>2, <1>3, <1>4, <1>5, <1>6, <1>7, StepsAre

-----------------------------------------------------------------------------
(* The contributors *)

\* An object that is deleted stays deleted.
Later(o, n) ==
    /\ o.phase # "none" => n.phase # "none"
    /\ o.phase = "terminating" => n.phase \in {"terminating", "gone"}
    /\ o.phase = "gone" => n.phase = "gone"

\* A contributor that was told that it is Ready is valid, and while it exists
\* it has its finalizer and knows its tracker: the finalizer is there before
\* the registration, and the registration before the verdict.
ReadyIsHeld(c, o) ==
    o.ready => /\ c \notin Invalid /\ o.phase # "none"
               /\ o.phase = "gone" \/ (o.fin /\ o.ref = "SR")

\* What the worker knows of the contributor as long as its copy is current.
Reconciling(c) ==
    LET w == worker[KindOf(c)] IN w.pc # "idle" /\ w.c = c /\ "worker" \in freshC[c]
CopyTells(c, w) ==
    /\ contrib[c].phase = IF w.pc = "dropFin" THEN "terminating" ELSE "live"
    /\ w.pc \in {"lookup", "lookupOwn", "create", "sync"} => contrib[c].fin /\ c \notin Invalid

ContributorInv(c) ==
    /\ "cache" \in freshC[c] => contribCache[c] = contrib[c]
    /\ Later(contribCache[c], contrib[c])
    /\ ReadyIsHeld(c, contrib[c])
    /\ Reconciling(c) => CopyTells(c, worker[KindOf(c)])

\* The finalizer of c is about to go.
Dropping(c) == Reconciling(c) /\ worker[KindOf(c)].pc = "dropFin"

\* How a contributor moves while no tracker pass does.
Moves(c) ==
    /\ Later(contribCache[c], contribCache'[c])
    /\ contrib'[c].ready => \/ contrib[c].ready
                            \/ contrib[c].phase = "live" /\ SRCache.st.recs[c] = "applied"
    /\ contrib'[c].ready /\ contrib'[c].phase = "gone" =>
            contrib[c].ready /\ (contrib[c].phase = "gone" \/ Dropping(c))
    /\ contrib'[c].ready /\ Dropping(c)' =>
            contrib[c].ready /\ (Dropping(c) \/ SRCache.st.recs[c] = "none")

\* A write of a contributor by whoever makes it.
LEMMA WrittenContributor ==
    ASSUME NEW c \in Contributors, ContributorInv(c), Inv,
           NEW o, contrib'[c] = o, UNCHANGED contribCache,
           freshC'[c] = IF o = contrib[c] THEN freshC[c] \ {"worker"} ELSE {},
           Later(contrib[c], o), ReadyIsHeld(c, o)
    PROVE  ContributorInv(c)'
<1>1. ~Reconciling(c)'
  BY DEF Reconciling
<1>2. Later(contribCache'[c], contrib'[c])
  BY DEF ContributorInv, Later
<1>3. "cache" \in freshC'[c] => contribCache'[c] = contrib'[c]
  BY DEF ContributorInv
<1>4. ReadyIsHeld(c, contrib'[c])
  OBVIOUS
<1> QED
  BY <1>1, <1>2, <1>3, <1>4 DEF ContributorInv, ReadyIsHeld, Later

\* A step that is about other contributors.
LEMMA UntouchedContributor ==
    ASSUME NEW c \in Contributors, ContributorInv(c),
           contrib'[c] = contrib[c], contribCache'[c] = contribCache[c],
           freshC'[c] \ {"worker"} = freshC[c] \ {"worker"},
           Reconciling(c)' => Reconciling(c) /\ worker'[KindOf(c)].pc = worker[KindOf(c)].pc
    PROVE  ContributorInv(c)' /\ Moves(c)
<1>1. "cache" \in freshC'[c] => "cache" \in freshC[c]
  OBVIOUS
<1>2. Moves(c)
  BY DEF Moves, Dropping, Later
<1>3. Reconciling(c)' => CopyTells(c, worker[KindOf(c)])'
  BY DEF ContributorInv, CopyTells
<1> QED
  BY <1>1, <1>2, <1>3 DEF ContributorInv, Later, ReadyIsHeld


\* The worker's write, accepted or refused.
LEMMA UpdatedContributor ==
    ASSUME Inv, Solo, NEW c \in Contributors, ContributorInv(c),
           NEW k \in Kinds, NEW o, UpdateContributor(k, o), worker[k].pc # "idle",
           worker[k].c = c /\ Reconciling(c) =>
                /\ Later(contrib[c], o) /\ ReadyIsHeld(c, o)
                /\ o.ready => contrib[c].ready \/ (contrib[c].phase = "live"
                                                   /\ SRCache.st.recs[c] = "applied")
                /\ o.ready /\ o.phase = "gone" => contrib[c].ready /\ Dropping(c)
    PROVE  ContributorInv(c)' /\ Moves(c)
<1> DEFINE d == worker[k].c
<1>1. /\ worker \in [Kinds -> Worker] /\ contrib \in [Contributors -> ContribObject]
      /\ freshC \in [Contributors -> SUBSET {"cache", "worker"}]
      /\ d \in Contributors /\ KindOf(d) = k /\ KindOf(c) \in Kinds
  BY DEF Inv, TypeOK, ReconcilesEquipped, Solo, KindOf, Kinds
<1>2. IdleWorker.pc = "idle" /\ worker' = [worker EXCEPT ![k] = IdleWorker]
      /\ UNCHANGED contribCache
  BY DEF IdleWorker, UpdateContributor
<1>3. KindOf(c) = k => ~Reconciling(c)'
  BY <1>1, <1>2 DEF Reconciling
<1>4. KindOf(c) # k => UNCHANGED worker[KindOf(c)]
  BY <1>1, <1>2
<1>5. CASE d # c
  <2>1. UNCHANGED <<contrib[c], freshC[c]>>
    BY <1>1, <1>5 DEF UpdateContributor, WriteContrib
  <2>2. Reconciling(c)' => Reconciling(c) /\ worker'[KindOf(c)].pc = worker[KindOf(c)].pc
    BY <1>3, <1>4, <2>1 DEF Reconciling
  <2> QED
    BY <1>2, <2>1, <2>2, UntouchedContributor
<1>6. CASE d = c /\ Reconciling(c) /\ Exists(contrib[c])
  <2>1. /\ contrib'[c] = o
        /\ freshC'[c] = IF o = contrib[c] THEN freshC[c] \ {"worker"} ELSE {}
    BY <1>1, <1>6 DEF UpdateContributor, WriteContrib, Reconciling
  <2>2. ContributorInv(c)'
    BY <1>2, <1>6, <2>1, WrittenContributor
  <2>3. ~Dropping(c)'
    BY <1>1, <1>3, <1>6 DEF Dropping
  <2>4. Moves(c)
    BY <1>2, <1>6, <2>1, <2>3 DEF Moves, Later
  <2> QED
    BY <2>2, <2>4
<1>7. CASE d = c /\ ~(Reconciling(c) /\ Exists(contrib[c]))
  <2>1. UNCHANGED contrib /\ freshC'[c] = freshC[c] \ {"worker"}
    BY <1>1, <1>7 DEF UpdateContributor, Reconciling
  <2> QED
    BY <1>1, <1>2, <1>3, <1>7, <2>1, UntouchedContributor
<1> QED
  BY <1>5, <1>6, <1>7

\* StartReconcile reads the contributor from the cache.
LEMMA StartedContributor ==
    ASSUME NoPromotion, Inv, Solo, NEW c \in Contributors, ContributorInv(c),
           NEW d \in Contributors, StartReconcile(d)
    PROVE  ContributorInv(c)' /\ Moves(c)
<1> DEFINE k == KindOf(d) w == [IdleWorker EXCEPT !.pc = FirstStep(d, contribCache[d]), !.c = d]
<1>1. /\ worker \in [Kinds -> Worker] /\ contribCache \in [Contributors -> ContribObject]
      /\ freshC \in [Contributors -> SUBSET {"cache", "worker"}]
      /\ k \in Kinds /\ KindOf(c) \in Kinds
  BY DEF Inv, TypeOK, KindOf, Kinds
<1>2. w.pc = FirstStep(d, contribCache[d]) /\ w.c = d
  BY DEF IdleWorker
<1>3. /\ worker' = [worker EXCEPT ![k] = w] /\ UNCHANGED <<contrib, contribCache>>
      /\ freshC' = [freshC EXCEPT ![d] =
            IF "cache" \in @ THEN @ \cup {"worker"} ELSE @ \ {"worker"}]
      /\ contribCache[d].phase \in {"live", "terminating"}
      /\ w.pc # "idle"
  BY <1>2 DEF StartReconcile, cacheVars, Exists
<1> HIDE DEF w, k
<1>4. CASE d # c
  <2>1. freshC'[c] = freshC[c]
    BY <1>1, <1>3, <1>4
  <2>2. Reconciling(c)' => Reconciling(c) /\ worker'[KindOf(c)].pc = worker[KindOf(c)].pc
    <3>1. CASE KindOf(c) = k
      BY <1>1, <1>2, <1>3, <1>4, <3>1 DEF Reconciling
    <3>2. CASE KindOf(c) # k
      BY <1>1, <1>3, <2>1, <3>2 DEF Reconciling
    <3> QED
      BY <3>1, <3>2
  <2> QED
    BY <1>3, <2>1, <2>2, UntouchedContributor
<1>5. CASE d = c
  <2>1. /\ "cache" \in freshC'[c] => "cache" \in freshC[c]
        /\ "worker" \in freshC'[c] => "cache" \in freshC[c]
        /\ worker'[KindOf(c)] = w
    BY <1>1, <1>3, <1>5 DEF k
  <2>2. Reconciling(c)' => contrib[c] = contribCache[c]
    BY <2>1 DEF Reconciling, ContributorInv
  <2>3. contribCache[c].fin \in BOOLEAN
    BY <1>1 DEF ContribObject
  <2>4. /\ contribCache[c].phase = IF w.pc = "dropFin" THEN "terminating" ELSE "live"
        /\ w.pc = "lookup" => contribCache[c].fin /\ c \notin Invalid
        /\ w.pc \notin {"lookupOwn", "create", "sync"}
        /\ w.pc = "dropFin" => ~StillRegistered(c, contribCache[c])
    <3>1. c \in CRPs => c \in Invalid
      BY DEF NoPromotion
    <3> QED
      BY <1>2, <1>3, <1>5, <2>3, <3>1 DEF FirstStep, Contributors
  <2>5. Reconciling(c)' => CopyTells(c, worker[KindOf(c)])'
    BY <1>3, <2>1, <2>2, <2>4 DEF CopyTells
  <2>6. ContributorInv(c)'
    BY <1>3, <2>1, <2>5 DEF ContributorInv, Later, ReadyIsHeld
  <2>7. contrib[c].ready /\ Dropping(c)' => SRCache.st.recs[c] = "none"
    <3> SUFFICES ASSUME contrib[c].ready, Dropping(c)' PROVE SRCache.st.recs[c] = "none"
      OBVIOUS
    <3>1. contrib[c] = contribCache[c] /\ w.pc = "dropFin"
      BY <2>1, <2>2 DEF Dropping
    <3>2. contrib[c].ref = "SR" /\ contrib[c].phase = "terminating"
      BY <2>4, <3>1 DEF ContributorInv, ReadyIsHeld
    <3>3. ~StillRegistered(c, contribCache[c])
      BY <2>4, <3>1
    <3>4. ~SRCache.exists \/ SRCache.st.recs[c] = "none"
      BY <3>1, <3>2, <3>3 DEF StillRegistered, Registered, SRCache, NoTracker
    <3>5. ~SRCache.exists => SRCache = NoTrackerObject
      BY DEF Solo, Unfenced
    <3> QED
      BY <3>4, <3>5 DEF NoTrackerObject, EmptyStatus, NoRecords
  <2>8. Moves(c)
    BY <1>3, <2>7 DEF Moves, Later
  <2> QED
    BY <2>6, <2>8
<1> QED
  BY <1>4, <1>5


\* A worker's step keeps what the contributors' invariant says of each of them.
LEMMA WorkerMovesContributor ==
    ASSUME NoPromotion, Inv, Solo, NEW c \in Contributors, ContributorInv(c), WorkerMoves
    PROVE  ContributorInv(c)' /\ Moves(c)
<1>1. /\ worker \in [Kinds -> Worker] /\ contrib[c] \in ContribObject
      /\ freshC \in [Contributors -> SUBSET {"cache", "worker"}]
      /\ KindOf(c) \in Kinds
  BY DEF Inv, TypeOK, KindOf, Kinds
<1>2. ASSUME NEW k \in Kinds, worker[k].pc # "idle", worker[k].c = c, Reconciling(c)
      PROVE  /\ worker[k] = worker[KindOf(c)]
             /\ contrib[c].phase = IF worker[k].pc = "dropFin" THEN "terminating" ELSE "live"
             /\ worker[k].pc = "sync" => contrib[c].fin /\ c \notin Invalid
  BY <1>2 DEF Solo, ContributorInv, CopyTells, Reconciling, Kinds, KindOf
<1>3. ReadyIsHeld(c, contrib[c])
  BY DEF ContributorInv
<1>4. ASSUME NEW d \in Contributors, StartReconcile(d) PROVE ContributorInv(c)' /\ Moves(c)
  BY <1>4, StartedContributor
<1>5. ASSUME NEW k \in Kinds, SetInvalid(k) PROVE ContributorInv(c)' /\ Moves(c)
  <2> DEFINE o == [contrib[worker[k].c] EXCEPT !.ready = FALSE]
  <2>1. UpdateContributor(k, o) /\ worker[k].pc = "setInvalid"
    BY <1>5 DEF SetInvalid
  <2>2. worker[k].c = c => ~o.ready /\ Later(contrib[c], o)
    BY <1>1 DEF ContribObject, Later
  <2> HIDE DEF o
  <2> QED
    BY <2>1, <2>2, UpdatedContributor DEF ReadyIsHeld
<1>6. ASSUME NEW k \in Kinds, AddFinalizer(k) PROVE ContributorInv(c)' /\ Moves(c)
  <2> DEFINE o == [contrib[worker[k].c] EXCEPT !.fin = TRUE]
  <2>1. UpdateContributor(k, o) /\ worker[k].pc = "addFin"
    BY <1>6 DEF AddFinalizer
  <2>2. worker[k].c = c => /\ o.fin /\ o.ready = contrib[c].ready
                           /\ o.phase = contrib[c].phase /\ o.ref = contrib[c].ref
    BY <1>1 DEF ContribObject
  <2>3. worker[k].c = c => Later(contrib[c], o)
    BY <1>1, <2>2 DEF ContribObject, Later
  <2> HIDE DEF o
  <2> QED
    BY <1>2, <1>3, <2>1, <2>2, <2>3, UpdatedContributor DEF ReadyIsHeld
<1>7. ASSUME NEW k \in Kinds, DropFinalizer(k) PROVE ContributorInv(c)' /\ Moves(c)
  <2> DEFINE o == [contrib[worker[k].c] EXCEPT !.fin = FALSE, !.phase = "gone", !.ref = NoTracker]
  <2>1. UpdateContributor(k, o) /\ worker[k].pc = "dropFin"
    BY <1>7 DEF DropFinalizer
  <2>2. worker[k].c = c => o.ready = contrib[c].ready /\ o.phase = "gone"
    BY <1>1 DEF ContribObject
  <2> HIDE DEF o
  <2>3. worker[k].c = c => Later(contrib[c], o) /\ ReadyIsHeld(c, o)
    BY <1>3, <2>2 DEF Later, ReadyIsHeld
  <2>4. worker[k].c = c /\ Reconciling(c) => Dropping(c)
    BY <1>2, <2>1 DEF Dropping
  <2> QED
    BY <2>1, <2>2, <2>3, <2>4, UpdatedContributor
<1>8. ASSUME NEW k \in Kinds, SyncStatus(k) PROVE ContributorInv(c)' /\ Moves(c)
  <2> DEFINE d == worker[k].c
             o == [contrib[d] EXCEPT !.ref = worker[k].ref,
                     !.ready = trkCache[worker[k].ref].exists
                               /\ trkCache[worker[k].ref].st.recs[d] = "applied"]
  <2>1. UpdateContributor(k, o) /\ worker[k].pc = "sync"
    BY <1>8 DEF SyncStatus
  <2>2. worker[k].ref = "SR"
    BY <2>1 DEF Solo, Kinds
  <2>3. d = c => /\ o.phase = contrib[c].phase /\ o.fin = contrib[c].fin /\ o.ref = "SR"
                 /\ o.ready => SRCache.st.recs[c] = "applied"
    BY <1>1, <2>2 DEF ContribObject, SRCache
  <2> HIDE DEF o
  <2>4. d = c => Later(contrib[c], o)
    BY <1>1, <2>3 DEF Later, ContribObject
  <2>5. d = c /\ Reconciling(c) => contrib[c].phase = "live" /\ contrib[c].fin /\ c \notin Invalid
    BY <1>2, <2>1
  <2> QED
    BY <2>1, <2>3, <2>4, <2>5, UpdatedContributor DEF ReadyIsHeld
<1>9. ASSUME NEW k \in Kinds, AbortWorker(k) PROVE ContributorInv(c)' /\ Moves(c)
  <2> DEFINE d == worker[k].c
  <2>1. /\ worker' = [worker EXCEPT ![k] = IdleWorker]
        /\ freshC' = [freshC EXCEPT ![d] = @ \ {"worker"}]
        /\ UNCHANGED <<contrib, contribCache>>
    BY <1>9 DEF AbortWorker, EndWorker, cacheVars
  <2>2. freshC'[c] \ {"worker"} = freshC[c] \ {"worker"} /\ freshC'[c] \subseteq freshC[c]
    BY <1>1, <2>1
  <2>3. Reconciling(c)' => Reconciling(c) /\ worker'[KindOf(c)].pc = worker[KindOf(c)].pc
    BY <1>1, <2>1, <2>2 DEF Reconciling, IdleWorker
  <2> QED
    BY <2>1, <2>2, <2>3, UntouchedContributor
<1>10. ASSUME UNCHANGED <<contrib, contribCache, freshC, worker["CRP"]>>,
              worker'["RP"].c = worker["RP"].c,
              \/ worker["RP"].pc = "lookup" /\ worker'["RP"].pc = "lookupOwn"
              \/ worker["RP"].pc = "lookupOwn" /\ worker'["RP"].pc \in {"create", "sync"}
              \/ worker["RP"].pc = "create" /\ worker'["RP"].pc = "sync"
       PROVE  ContributorInv(c)' /\ Moves(c)
  <2>1. Reconciling(c)' = Reconciling(c)
    <3>1. CASE KindOf(c) = "RP"
      BY <1>10, <3>1 DEF Reconciling
    <3>2. CASE KindOf(c) = "CRP"
      BY <1>10, <3>2 DEF Reconciling
    <3> QED
      BY <3>1, <3>2 DEF KindOf
  <2>2. Reconciling(c)' => CopyTells(c, worker[KindOf(c)])'
    <3>1. CASE KindOf(c) = "RP"
      BY <1>10, <2>1, <3>1 DEF ContributorInv, CopyTells
    <3>2. CASE KindOf(c) = "CRP"
      BY <1>10, <2>1, <3>2 DEF ContributorInv, CopyTells
    <3> QED
      BY <3>1, <3>2 DEF KindOf
  <2>3. ContributorInv(c)'
    BY <1>10, <2>2 DEF ContributorInv, Later, ReadyIsHeld
  <2>4. ~Dropping(c)' \/ Dropping(c)
    BY <1>10, <2>1 DEF Dropping, KindOf
  <2> QED
    BY <1>10, <2>3, <2>4 DEF Moves, Later
<1>11. CASE LookupClusterTracker
  <2>1. worker["RP"].pc = "lookup" /\ UNCHANGED <<contrib, contribCache, freshC, worker["CRP"]>>
    BY <1>1, <1>11 DEF LookupClusterTracker, storeVars, cacheVars, Kinds
  <2>2. worker'["RP"] = [worker["RP"] EXCEPT !.pc = "lookupOwn"]
    BY <1>1, <1>11 DEF LookupClusterTracker, Solo, Kinds
  <2> QED
    BY <1>1, <1>10, <2>1, <2>2 DEF Worker, Kinds
<1>12. CASE LookupOwnTracker
  <2>1. worker["RP"].pc = "lookupOwn" /\ UNCHANGED <<contrib, contribCache, freshC, worker["CRP"]>>
    BY <1>1, <1>12 DEF LookupOwnTracker, storeVars, cacheVars, Kinds
  <2>2. worker'["RP"].pc \in {"create", "sync"} /\ worker'["RP"].c = worker["RP"].c
    BY <1>1, <1>12 DEF LookupOwnTracker, Kinds, Worker
  <2> QED
    BY <1>10, <2>1, <2>2
<1>13. ASSUME NEW k \in Kinds, CreateTrackerFor(k) PROVE ContributorInv(c)' /\ Moves(c)
  <2>1. k = "RP" /\ worker["RP"].pc = "create"
    BY <1>13 DEF Solo, CreateTrackerFor, Kinds
  <2>2. /\ worker'["RP"].pc = "sync" /\ worker'["RP"].c = worker["RP"].c
        /\ UNCHANGED <<contrib, contribCache, freshC, worker["CRP"]>>
    BY <1>1, <1>13, <2>1 DEF CreateTrackerFor, Worker, Kinds
  <2> QED
    BY <1>10, <2>1, <2>2
<1> QED
  BY <1>4, <1>5, <1>6, <1>7, <1>8, <1>9, <1>11, <1>12, <1>13 DEF WorkerMoves

\* So does a user's step, and a watch event.
LEMMA UserMovesContributor ==
    ASSUME Inv, NEW c \in Contributors, ContributorInv(c), UserMoves
    PROVE  ContributorInv(c)' /\ Moves(c)
<1> PICK d \in Contributors :
        CreateContributor(d) \/ DeleteContributor(d) \/ SyncContributor(d)
  BY DEF UserMoves
<1>1. /\ contrib \in [Contributors -> ContribObject]
      /\ contribCache \in [Contributors -> ContribObject]
      /\ freshC \in [Contributors -> SUBSET {"cache", "worker"}]
      /\ contrib[c] \in ContribObject
  BY DEF Inv, TypeOK
<1>2. UNCHANGED worker
  BY DEF CreateContributor, DeleteContributor, SyncContributor
<1>3. CASE d # c
  <2>1. UNCHANGED <<contrib[c], contribCache[c], freshC[c]>>
    BY <1>1, <1>3 DEF CreateContributor, DeleteContributor, SyncContributor, WriteContrib,
       cacheVars
  <2> QED
    BY <1>2, <2>1, UntouchedContributor DEF Reconciling
<1>4. ASSUME NEW o, WriteContrib(c, o), UNCHANGED contribCache,
             Later(contrib[c], o), ReadyIsHeld(c, o), o.ready => contrib[c].ready,
             o.ready => o.phase # "gone"
      PROVE  ContributorInv(c)' /\ Moves(c)
  <2>1. /\ contrib'[c] = o
        /\ freshC'[c] = IF o = contrib[c] THEN freshC[c] \ {"worker"} ELSE {}
    BY <1>1, <1>4 DEF WriteContrib
  <2>2. ContributorInv(c)'
    BY <1>4, <2>1, WrittenContributor
  <2>3. ~Dropping(c)'
    BY <2>1 DEF Dropping, Reconciling
  <2> QED
    BY <1>4, <2>1, <2>2, <2>3 DEF Moves, Later
<1>5. CASE d = c /\ CreateContributor(c)
  <2> DEFINE o == [NoContrib EXCEPT !.phase = "live"]
  <2>1. o.phase = "live" /\ ~o.ready
    BY DEF NoContrib
  <2>2. WriteContrib(c, o) /\ UNCHANGED contribCache /\ contrib[c].phase = "none"
    BY <1>5 DEF CreateContributor, cacheVars
  <2> HIDE DEF o
  <2> QED
    BY <1>4, <2>1, <2>2 DEF Later, ReadyIsHeld
<1>6. CASE d = c /\ DeleteContributor(c)
  <2> DEFINE o == IF contrib[c].fin THEN [contrib[c] EXCEPT !.phase = "terminating"]
                  ELSE [contrib[c] EXCEPT !.phase = "gone", !.ref = NoTracker]
  <2>1. WriteContrib(c, o) /\ UNCHANGED contribCache /\ contrib[c].phase = "live"
    BY <1>6 DEF DeleteContributor, cacheVars
  <2>2. ReadyIsHeld(c, contrib[c])
    BY DEF ContributorInv
  <2>3. CASE contrib[c].fin
    <3>1. /\ o.phase = "terminating" /\ o.fin = contrib[c].fin /\ o.ref = contrib[c].ref
          /\ o.ready = contrib[c].ready
      BY <1>1, <2>3 DEF ContribObject
    <3> HIDE DEF o
    <3> QED
      BY <1>4, <2>1, <2>2, <3>1 DEF Later, ReadyIsHeld
  <2>4. CASE ~contrib[c].fin
    <3>1. o.phase = "gone" /\ o.ready = contrib[c].ready
      BY <1>1, <2>4 DEF ContribObject
    <3>2. ~contrib[c].ready
      BY <2>1, <2>2, <2>4 DEF ReadyIsHeld
    <3> HIDE DEF o
    <3> QED
      BY <1>4, <2>1, <3>1, <3>2 DEF Later, ReadyIsHeld
  <2> QED
    BY <2>3, <2>4
<1>7. CASE d = c /\ SyncContributor(c)
  <2>1. /\ contribCache'[c] = contrib[c] /\ UNCHANGED contrib
        /\ "worker" \in freshC'[c] <=> "worker" \in freshC[c]
    BY <1>1, <1>7 DEF SyncContributor
  <2>2. Reconciling(c)' = Reconciling(c)
    BY <1>2, <2>1 DEF Reconciling
  <2>3. ContributorInv(c)'
    BY <1>1, <1>2, <2>1, <2>2
       DEF ContributorInv, Later, ReadyIsHeld, CopyTells, ContribObject
  <2>4. Moves(c)
    BY <1>2, <2>1, <2>2 DEF Moves, Dropping, ContributorInv
  <2> QED
    BY <2>3, <2>4
<1> QED
  BY <1>3, <1>5, <1>6, <1>7


ContributorsInv == \A c \in Contributors : ContributorInv(c)

\* Everything but the steps of a pass: what contributors and their worker do, a
\* watch event about the tracker, or what somebody else does to the target.
Aside ==
    /\ UNCHANGED SRPass
    /\ \/ /\ UNCHANGED <<SRCache, target>> /\ SR'.st = SR.st
          /\ \A c \in Contributors : Moves(c)
       \/ /\ UNCHANGED <<contrib, contribCache, freshC, worker, SR, target>>
          /\ SRCache' = SR
       \/ /\ UNCHANGED <<contrib, contribCache, freshC, worker, SR, SRCache>>
          /\ OutOfBand # {}
          /\ target' \in {NoTarget, NewTarget({}, Foreign)}

\* Every step is a step of the pass or aside from it, and keeps what is known
\* of the contributors.
LEMMA StepShape ==
    ASSUME NoPromotion, TrackersLeftAlone, Inv, Solo, ContributorsInv, [Next]_allVars
    PROVE  ContributorsInv' /\ (PassShape \/ Aside)
<1> USE DEF SR, SRCache, SRPass
<1>1. ASSUME NEW c \in Contributors, UNCHANGED <<contrib, contribCache, freshC, worker>>
      PROVE  ContributorInv(c)' /\ Moves(c)
  BY <1>1, UntouchedContributor DEF ContributorsInv, Reconciling
<1>2. CASE PassMoves
  <2>1. PassShape
    BY <1>2, PassHasShape DEF PassMoves
  <2> QED
    BY <1>1, <2>1 DEF PassShape, Same, ContributorsInv
<1>3. CASE WorkerMoves
  <2>1. \A c \in Contributors : ContributorInv(c)' /\ Moves(c)
    BY <1>3, WorkerMovesContributor DEF ContributorsInv
  <2>2. UNCHANGED <<SRPass, SRCache, target>>
    BY <1>3 DEF WorkerMoves, StartReconcile, SetInvalid, AddFinalizer, DropFinalizer,
       CreateTrackerFor, SyncStatus, AbortWorker, LookupClusterTracker, LookupOwnTracker,
       UpdateContributor, cacheVars, EndWorker
  <2>3. UNCHANGED trk \/ \E k \in Kinds : CreateTrackerFor(k)
    BY <1>3 DEF WorkerMoves, StartReconcile, SetInvalid, AddFinalizer, DropFinalizer,
       SyncStatus, AbortWorker, LookupClusterTracker, LookupOwnTracker,
       UpdateContributor, storeVars, EndWorker
  <2>4. SR'.st = SR.st
    <3>1. CASE UNCHANGED trk
      BY <3>1
    <3>2. ASSUME NEW k \in Kinds, CreateTrackerFor(k) PROVE SR'.st = SR.st
      <4>1. UNCHANGED trk \/ (~trk[worker[k].ref].exists
                              /\ trk' = [trk EXCEPT ![worker[k].ref] = NewTrackerObject])
        BY <3>2 DEF CreateTrackerFor, CreateTracker, WriteTracker
      <4>2. worker[k].ref = "SR"
        BY <3>2 DEF CreateTrackerFor, Solo, Kinds
      <4>3. UNCHANGED SR \/ (~SR.exists /\ SR' = NewTrackerObject)
        BY <4>1, <4>2 DEF Inv, TypeOK, Trackers
      <4>4. ~SR.exists => SR = NoTrackerObject
        BY DEF Solo, Unfenced
      <4>5. NewTrackerObject.st = NoTrackerObject.st
        BY DEF NewTrackerObject, NoTrackerObject
      <4> QED
        BY <4>3, <4>4, <4>5
    <3> QED
      BY <2>3, <3>1, <3>2
  <2> QED
    BY <2>1, <2>2, <2>4 DEF ContributorsInv, Aside
<1>4. CASE UserMoves
  <2>1. \A c \in Contributors : ContributorInv(c)' /\ Moves(c)
    BY <1>4, UserMovesContributor DEF ContributorsInv
  <2>2. UNCHANGED <<SRPass, SR, SRCache, target>>
    BY <1>4 DEF UserMoves, CreateContributor, DeleteContributor, SyncContributor, cacheVars
  <2> QED
    BY <2>1, <2>2 DEF ContributorsInv, Aside
<1>5. ASSUME NEW t \in Trackers, SyncTracker(t) PROVE ContributorsInv' /\ Aside
  <2>1. UNCHANGED <<contrib, contribCache, freshC, worker, trk, target, pass>>
    BY <1>5 DEF SyncTracker
  <2>2. SRCache' = SR \/ UNCHANGED SRCache
    BY <1>5 DEF SyncTracker, Inv, TypeOK, Trackers
  <2> QED
    BY <1>1, <2>1, <2>2 DEF ContributorsInv, Aside
<1>6. CASE ChangeTarget
  <2>1. /\ UNCHANGED <<contrib, contribCache, freshC, worker, trk, trkCache, pass>>
        /\ OutOfBand # {} /\ target' \in {NoTarget, NewTarget({}, Foreign)}
    BY <1>6 DEF ChangeTarget, storeVars, cacheVars
  <2> QED
    BY <1>1, <2>1 DEF ContributorsInv, Aside
<1>7. CASE UNCHANGED allVars
  BY <1>1, <1>7 DEF ContributorsInv, Aside, allVars, vars
<1> QED
  BY <1>2, <1>3, <1>4, <1>5, <1>6, <1>7, StepsAre

\* Initially no contributor exists, in the API server or in a cache.
LEMMA ContributorsInvInit == Init => ContributorsInv
  BY DEF Init, ContributorsInv, ContributorInv, Later, ReadyIsHeld, Reconciling, NoContrib,
     IdleWorker, KindOf, Kinds

-----------------------------------------------------------------------------
(* What is on the target *)

\* What the target carries comes from contributors the cache has shown.  A pass
\* that has built its list counts all of them, except those the cache shows to
\* be on their way out.
FieldInv ==
    LET p == SRPass IN
    /\ ~target.exists => target.fields = {}
    /\ \A c \in target.fields \cup p.active \cup p.releasing : c \in RPs /\ Known(c)
    /\ \A c \in p.releasing : Leaving(c)
    /\ p.active \cap p.releasing = {}
    /\ p.pc = "release" => p.todo \subseteq p.releasing
    /\ p.pc \in {"exists", "apply", "provenance"} => p.todo \subseteq p.active
    /\ p.pc = "status" => p.todo = {}
    /\ p.pc = "deleteTarget" => p.active = {}
    /\ p.pc \in Listing => \A c \in target.fields : c \in p.active \/ Leaving(c)

\* The count stands while caches move on and others change the target.
LEMMA AsideKeepsFieldInv ==
    ASSUME Inv, FieldInv, Aside
    PROVE  FieldInv'
<1>1. /\ target.fields \subseteq Contributors /\ SRPass.active \subseteq Contributors
      /\ SRPass.releasing \subseteq Contributors
      /\ contribCache \in [Contributors -> ContribObject]
  BY DEF Inv, TypeOK, SRPass, Trackers, Pass, TargetObject
<1>2. \A c \in Contributors : /\ Known(c) => Known(c)'
                              /\ Leaving(c) => Leaving(c)'
  <2>1. CASE \A c \in Contributors : Moves(c)
    BY <1>1, <2>1 DEF Moves, Later, Known, Leaving
  <2>2. CASE UNCHANGED contribCache
    BY <2>2 DEF Known, Leaving
  <2> QED
    BY <2>1, <2>2 DEF Aside
<1>3. UNCHANGED SRPass
  BY DEF Aside
<1>4. UNCHANGED target \/ (target'.fields = {})
  BY DEF Aside, NoTarget, NewTarget
<1>5. CASE UNCHANGED target
  BY <1>1, <1>2, <1>3, <1>5 DEF FieldInv
<1>6. CASE target'.fields = {}
  BY <1>1, <1>2, <1>3, <1>6 DEF FieldInv
<1> QED
  BY <1>4, <1>5, <1>6


\* What the steps of a pass do to the target.
LEMMA RevertedIs ==
    ASSUME target \in TargetObject, ~target.exists => target.fields = {},
           NEW c, NEW p, NEW t, t = Reverted(c, p)
    PROVE  /\ ~t.exists => t.fields = {}
           /\ t.fields \subseteq target.fields
           /\ \A d \in target.fields : d # c => d \in t.fields
           /\ c \in t.fields => c \in ClientSide /\ c \notin p.owned
<1>1. CASE c \in ClientSide
  BY <1>1 DEF Reverted, TargetObject
<1>2. CASE c \notin ClientSide /\ target.exists
  BY <1>2 DEF Reverted, TargetObject
<1>3. CASE c \notin ClientSide /\ ~target.exists
  BY <1>3 DEF Reverted, NewTarget
<1> QED
  BY <1>1, <1>2, <1>3

\* The count stands at every step of a pass: its list is built from a cache that
\* has seen everybody with fields on the target.
LEMMA PassKeepsFieldInv ==
    ASSUME Inv, Inv', FieldInv, PassShape
    PROVE  FieldInv'
<1> DEFINE p == SRPass q == SRPass' f == target.fields
<1>1. /\ p \in Pass /\ q \in Pass /\ target \in TargetObject /\ target' \in TargetObject
  BY DEF Inv, TypeOK, SRPass, Trackers
<1>2. \A c : Known(c)' = Known(c) /\ Leaving(c)' = Leaving(c)
  BY DEF PassShape, Same, Known, Leaving
<1>3. /\ ~target.exists => f = {}
      /\ \A c \in f \cup p.active \cup p.releasing : c \in RPs /\ Known(c)
      /\ \A c \in p.releasing : Leaving(c)
      /\ p.active \cap p.releasing = {}
      /\ p.pc = "release" => p.todo \subseteq p.releasing
      /\ p.pc \in {"exists", "apply", "provenance"} => p.todo \subseteq p.active
      /\ p.pc = "status" => p.todo = {}
      /\ p.pc = "deleteTarget" => p.active = {}
      /\ p.pc \in Listing => \A c \in f : c \in p.active \/ Leaving(c)
  BY DEF FieldInv
<1> DEFINE Lists == /\ \A c \in q.active \cup q.releasing : c \in RPs /\ Known(c)
                    /\ \A c \in q.releasing : Leaving(c)
                    /\ q.active \cap q.releasing = {}
           Todo  == /\ q.pc = "release" => q.todo \subseteq q.releasing
                    /\ q.pc \in {"exists", "apply", "provenance"} => q.todo \subseteq q.active
                    /\ q.pc = "status" => q.todo = {}
                    /\ q.pc = "deleteTarget" => q.active = {}
           Fields == /\ ~target'.exists => target'.fields = {}
                     /\ \A c \in target'.fields : c \in RPs /\ Known(c)
                     /\ q.pc \in Listing => \A c \in target'.fields : c \in q.active \/ Leaving(c)
<1>4. SUFFICES Lists /\ Todo /\ Fields
  BY <1>2 DEF FieldInv
<1>5. ASSUME q.active = p.active /\ q.releasing = p.releasing PROVE Lists
  BY <1>3, <1>5
<1> HIDE DEF p, q, f
<1> USE DEF Listing
<1>6. IdlePass.pc = "idle" /\ IdlePass.active = {} /\ IdlePass.releasing = {}
      /\ [IdlePass EXCEPT !.pc = "deleteSelf"].pc = "deleteSelf"
      /\ [IdlePass EXCEPT !.pc = "deleteSelf"].active = {}
      /\ [IdlePass EXCEPT !.pc = "deleteSelf"].releasing = {}
  BY DEF IdlePass
<1>7. ASSUME q \in {IdlePass, [IdlePass EXCEPT !.pc = "deleteSelf"]}, UNCHANGED target
      PROVE  Lists /\ Todo /\ Fields
  BY <1>3, <1>6, <1>7 DEF f
<1>8. CASE Starts
  <2>1. /\ UNCHANGED target
        /\ \/ q.pc \in {"addFin", "dropFin"} /\ q.active = {} /\ q.releasing = {}
           \/ /\ q.active = {c \in RPs : contribCache[c].phase = "live"}
              /\ q.releasing = {c \in RPs : contribCache[c].phase = "terminating"}
              /\ \/ q.pc = "release" /\ q.todo = q.releasing
                 \/ q.pc = "exists" /\ q.todo = q.active
                 \/ q.pc = "status" /\ q.todo = {}
    BY <1>8 DEF Starts, q
  <2>2. q.pc \in Listing => \A c \in f : c \in q.active \/ Leaving(c)
    <3> SUFFICES ASSUME q.pc \in Listing, NEW c \in f PROVE c \in q.active \/ Leaving(c)
      OBVIOUS
    <3>1. Known(c) /\ contribCache[c] \in ContribObject /\ c \in RPs
      BY <1>3 DEF Inv, TypeOK, Contributors
    <3>2. contribCache[c].phase \in {"live", "terminating", "gone"}
      BY <3>1 DEF Known, ContribObject
    <3> QED
      BY <2>1, <3>1, <3>2 DEF Leaving
  <2> QED
    BY <1>3, <2>1, <2>2 DEF Known, Leaving, f
<1>9. CASE Ends
  BY <1>7, <1>9 DEF Ends, q
<1>10. CASE Releases
  <2> DEFINE c == First(p.todo)
  <2>1. /\ p.pc = "release" /\ c \in p.todo
        /\ target' = target \/ target' = Reverted(c, p)
        /\ q.active = p.active /\ q.releasing = p.releasing
        /\ \/ q.pc = "release" /\ q.todo = p.todo \ {c}
           \/ q.pc = "exists" /\ q.todo = p.active
           \/ q.pc = "status" /\ q.todo = {}
           \/ q.pc = "deleteTarget" /\ p.active = {}
    BY <1>10 DEF Releases, ReleasedAll, Decided, SameLists, p, q
  <2>2. target'.fields \subseteq f /\ (~target'.exists => target'.fields = {})
    BY <1>1, <1>3, <2>1, RevertedIs DEF f
  <2> QED
    BY <1>3, <1>5, <2>1, <2>2
<1>11. CASE Deletes
  <2>1. /\ target'.fields = {}
        /\ q.active = p.active /\ q.releasing = p.releasing
        /\ \/ q.pc = "exists" /\ q.todo = p.active
           \/ q.pc = "status" /\ q.todo = {}
    BY <1>11 DEF Deletes, Decided, SameLists, NoTarget, p, q
  <2> QED
    BY <1>3, <1>5, <2>1
<1>12. CASE Looks \/ Misses \/ Records
  <2> DEFINE c == First(p.todo)
  <2>1. /\ p.pc \in {"exists", "apply", "provenance"} /\ c \in p.todo
        /\ UNCHANGED target
        /\ q.active = p.active /\ q.releasing = p.releasing
        /\ q.pc \in {"apply", "status", "exists"}
        /\ q.todo \subseteq p.todo /\ (q.pc = "status" => q.todo = {})
    BY <1>12 DEF Looks, Misses, Records, MovedPast, SameLists, p, q
  <2> QED
    BY <1>3, <1>5, <2>1 DEF f
<1>13. CASE Applies
  <2> DEFINE c == First(p.todo)
  <2>1. /\ p.pc = "apply" /\ c \in p.todo
        /\ \/ target.exists /\ target' = [target EXCEPT !.fields = @ \cup {c}]
           \/ ~target.exists /\ target' = NewTarget({c}, c)
           \/ UNCHANGED target
        /\ q.active = p.active /\ q.releasing = p.releasing
        /\ q.pc \in {"provenance", "status", "exists"}
        /\ q.todo \subseteq p.todo /\ (q.pc = "status" => q.todo = {})
    BY <1>13 DEF Applies, MovedPast, SameLists, p, q
  <2>2. /\ ~target'.exists => target'.fields = {}
        /\ \A d \in target'.fields : d \in f \/ d = c
    BY <1>1, <1>3, <2>1 DEF TargetObject, NewTarget, f
  <2> QED
    BY <1>3, <1>5, <2>1, <2>2
<1>14. CASE Reports \/ AddsFinalizer \/ DropsFinalizer \/ Retires
  BY <1>7, <1>14 DEF Reports, AddsFinalizer, DropsFinalizer, Retires, q
<1> QED
  BY <1>8, <1>9, <1>10, <1>11, <1>12, <1>13, <1>14 DEF PassShape


\* What has been inductive so far.
ReleaseInv == Inv /\ Solo /\ ContributorsInv /\ FieldInv

\* ReleaseInv is inductive.
LEMMA ReleaseInvInductive ==
    ASSUME NoPromotion, TrackersLeftAlone
    PROVE  /\ Init => ReleaseInv
           /\ ReleaseInv /\ [Next]_allVars => ReleaseInv' /\ (PassShape \/ Aside)
<1>1. Init => FieldInv
  BY DEF Init, FieldInv, SRPass, IdlePass, Trackers, Listing, NoTarget, NewTarget
<1>2. Init => ReleaseInv
  BY <1>1, InitInv, SoloInductive, ContributorsInvInit DEF ReleaseInv
<1>3. ASSUME ReleaseInv, [Next]_allVars
      PROVE  ReleaseInv' /\ (PassShape \/ Aside)
  <2>1. Inv' /\ Solo' /\ ContributorsInv' /\ (PassShape \/ Aside)
    BY <1>3, NextInv, SoloInductive, StepShape DEF ReleaseInv
  <2>2. FieldInv'
    BY <1>3, <2>1, PassKeepsFieldInv, AsideKeepsFieldInv DEF ReleaseInv
  <2> QED
    BY <2>1, <2>2 DEF ReleaseInv
<1> QED
  BY <1>2, <1>3

\* As long as nobody meddles with the trackers and no promotion takes place,
\* maybeDeleteTarget deletes no object that carries the fields of a contributor
\* that has not been deleted: the list the pass has built from its cache, however
\* old, is not an undercount of those who still need the object.
THEOREM DeletionIsSafe ==
    ASSUME NoPromotion, TrackersLeftAlone
    PROVE  Spec => DeletedOnlyUnused
<1>1. ReleaseInv /\ [Next]_allVars =>
        [ \A t \in Trackers : pass[t].pc = "deleteTarget" /\ target' # target
            => \A c \in target.fields : contrib[c].phase # "live" ]_allVars
  <2> SUFFICES ASSUME ReleaseInv, NEW t \in Trackers, pass[t].pc = "deleteTarget",
                      NEW c \in target.fields
               PROVE  contrib[c].phase # "live"
    OBVIOUS
  <2>1. t = "SR"
    BY DEF ReleaseInv, Solo, Trackers
  <2>2. Leaving(c)
    BY <2>1 DEF ReleaseInv, FieldInv, SRPass, Listing
  <2>3. c \in Contributors
    BY DEF ReleaseInv, FieldInv, Contributors
  <2> QED
    BY <2>2, <2>3 DEF ReleaseInv, ContributorsInv, ContributorInv, Later, Leaving
<1> QED
  BY <1>1, ReleaseInvInductive, PTL DEF Spec, DeletedOnlyUnused

-----------------------------------------------------------------------------
(***************************************************************************)
(* A contributor that was told that it is Ready takes its fields with it.  *)
(*                                                                         *)
(* The finalizer goes when the cached tracker no longer lists the          *)
(* contributor.  That this is late enough takes an argument across three   *)
(* views of the same list: whoever is Ready is listed by the cache or has  *)
(* been withdrawn, whoever the cache lists is listed by the API server or  *)
(* has been withdrawn, and a pass that takes somebody off the list has     *)
(* withdrawn him.                                                          *)
(***************************************************************************)

EverythingRenders == Unrenderable = {}

\* Nobody but the operator touches the target.
Quiet == OutOfBand = {}

\* A client-side apply is undone from the paths its record holds.  Where others
\* remove and remake the target, a pass that read the tracker before the paths
\* were recorded writes a waiting record without them; if the next one applies
\* and dies before its status write, nobody can withdraw what it applied.
PathsAreKept == Quiet \/ ClientSide = {}

\* Nothing of c is on the target, and no pass can put anything of it there.
Clean(c) == c \notin target.fields /\ c \notin SRPass.active /\ Leaving(c)

\* c is on the list, with its fields on the target if nobody else removes them.
Kept(st, c) == st.recs[c] # "none" /\ (Quiet => st.recs[c] = "applied")

\* The lists matter for those who stay and for those who wait to be withdrawn.
Bound(c) == ~Leaving(c) \/ (contrib[c].ready /\ c \notin Orphaners)

\* The records name contributors the cache has shown, and a pass overlooks only
\* those of them that it has seen go; an applied record has its paths.
ListInv(c) ==
    /\ SR.st.recs[c] # "none" \/ SRCache.st.recs[c] # "none" => Known(c)
    /\ SRPass.pc \in Listing /\ c \notin SRPass.active \cup SRPass.releasing
            /\ SR.st.recs[c] # "none" => contribCache[c].phase = "gone"
    /\ \A st \in {SR.st, SRCache.st} :
            st.recs[c] = "applied" /\ c \in ClientSide => c \in st.owned

\* A pass withdraws before it goes on.
WithdrawnInv(c) ==
    contrib[c].ready /\ c \notin Orphaners /\ c \in SRPass.releasing =>
        /\ SRPass.pc \in Listing /\ (SRPass.pc = "release" => c \notin SRPass.todo)
                => c \notin target.fields
        /\ SRPass.pc = "release" /\ c \in ClientSide
                => c \in SRPass.owned \/ c \notin target.fields

\* The three views of the list.
ViewsInv(c) ==
    /\ contrib[c].ready /\ Bound(c) => Clean(c) \/ Kept(SRCache.st, c)
    /\ Bound(c) /\ Kept(SRCache.st, c) => Clean(c) \/ Kept(SR.st, c)
    /\ contrib[c].ready /\ c \notin Orphaners
            /\ (contrib[c].phase = "gone" \/ Dropping(c)) => Clean(c)

\* With the target left alone: what is recorded as applied is on it, and a pass
\* finds missing only what was never recorded as applied.
AppliedInv(c) ==
    LET p == SRPass IN
    /\ SR.st.recs[c] = "applied" /\ (c \in p.active \/ ~Leaving(c)) => c \in target.fields
    /\ p.pc \in {"exists", "apply", "provenance", "status"}
            /\ c \in p.active \ (p.waiting \cup p.todo) => c \in target.fields
    /\ p.pc = "provenance" /\ c = First(p.todo) => c \in target.fields
    /\ p.pc \in Listing /\ c \in p.waiting => SR.st.recs[c] # "applied"
    /\ p.pc = "apply" => p.seen.fields \subseteq target.fields

ReadyInv ==
    /\ \A c \in RPs : ListInv(c) /\ WithdrawnInv(c) /\ ViewsInv(c)
    /\ Quiet => \A c \in RPs : AppliedInv(c)

-----------------------------------------------------------------------------
(* Steps of the pass, once more: what becomes of its lists and its records *)

\* The pass goes on with its lists.
GoesOn ==
    /\ SRPass.pc \in Listing /\ SRPass'.pc \in Listing
    /\ SRPass'.active = SRPass.active /\ SRPass'.releasing = SRPass.releasing
    /\ SRPass'.owned = SRPass.owned
    /\ SR'.st.recs = SR.st.recs

\* The pass is over.
IsOver ==
    /\ SRPass'.pc \in {"idle", "deleteSelf"}
    /\ SRPass'.active = {} /\ SRPass'.releasing = {}
    /\ UNCHANGED target

StatusWritten ==
    /\ SRPass.pc = "status" /\ SRPass' = IdlePass
    /\ UNCHANGED target
    /\ SR' = [SR EXCEPT !.st = WithRecords(SR.st, SRPass)]

RecordsKept ==
    /\ SR'.st.recs = SR.st.recs
    /\ SR'.st.owned = SR.st.owned \/ SR'.st.recs = NoRecords

\* A pass starts, goes on with its lists or is over; it writes the records it has
\* computed or leaves them.
LEMMA PassSummary ==
    ASSUME Inv, Solo, PassShape
    PROVE  /\ Starts \/ IsOver \/ GoesOn
           /\ StatusWritten \/ RecordsKept
<1>1. SR \in TrackerObject /\ SR.st \in TrackerStatus
  BY DEF Inv, TypeOK, SR, Trackers, TrackerObject
<1>2. \A p, c : /\ WithCreator(SR.st, c).recs = SR.st.recs
                /\ WithCreator(SR.st, c).owned = SR.st.owned
                /\ WithPhase(SR.st, p).recs = SR.st.recs
                /\ WithPhase(SR.st, p).owned = SR.st.owned
  BY <1>1 DEF WithCreator, WithPhase, WithKnownCreator, TrackerStatus
<1>3. ASSUME NEW new, Writes(new), new.recs = SR.st.recs, new.owned = SR.st.owned
      PROVE  RecordsKept
  BY <1>1, <1>3 DEF Writes, RecordsKept, TrackerObject
<1>4. ASSUME UNCHANGED SR PROVE RecordsKept
  BY <1>4 DEF RecordsKept
<1>5. /\ IdlePass.pc = "idle" /\ IdlePass.active = {} /\ IdlePass.releasing = {}
      /\ [IdlePass EXCEPT !.pc = "deleteSelf"].pc = "deleteSelf"
      /\ [IdlePass EXCEPT !.pc = "deleteSelf"].active = {}
      /\ [IdlePass EXCEPT !.pc = "deleteSelf"].releasing = {}
  BY DEF IdlePass
<1>6. CASE Starts
  BY <1>4, <1>6 DEF Starts
<1>7. CASE Ends
  BY <1>4, <1>5, <1>7 DEF Ends, IsOver
<1>8. CASE Releases \/ Deletes \/ Looks \/ Misses \/ Applies
  <2>1. RecordsKept
    BY <1>4, <1>8 DEF Releases, Deletes, Looks, Misses, Applies
  <2> QED
    BY <1>8, <2>1 DEF Releases, Deletes, Looks, Misses, Applies, ReleasedAll, Decided,
       MovedPast, SameLists, GoesOn, Listing, RecordsKept
<1>9. CASE Records
  <2>1. RecordsKept
    BY <1>2, <1>3, <1>9 DEF Records
  <2> QED
    BY <1>9, <2>1 DEF Records, MovedPast, SameLists, GoesOn, Listing, RecordsKept
<1>10. CASE Reports
  <2>1. IsOver
    BY <1>5, <1>10 DEF Reports, IsOver
  <2>2. CASE SRPass.pc = "status"
    BY <1>4, <1>10, <2>1, <2>2 DEF Reports, Writes, StatusWritten
  <2>3. CASE SRPass.pc # "status"
    BY <1>2, <1>3, <1>10, <2>1, <2>3 DEF Reports
  <2> QED
    BY <2>2, <2>3
<1>11. CASE AddsFinalizer \/ DropsFinalizer
  <2>1. SR'.st = SR.st
    BY <1>1, <1>11 DEF AddsFinalizer, DropsFinalizer, TrackerObject
  <2> QED
    BY <1>5, <1>11, <2>1 DEF AddsFinalizer, DropsFinalizer, IsOver, RecordsKept
<1>12. CASE Retires
  <2>1. SR.st.recs = NoRecords /\ SR'.st.recs = NoRecords
    BY <1>12 DEF Solo, Retires, NoTrackerObject, EmptyStatus
  <2> QED
    BY <1>5, <1>12, <2>1 DEF Retires, IsOver, RecordsKept
<1> QED
  BY <1>6, <1>7, <1>8, <1>9, <1>10, <1>11, <1>12 DEF PassShape

\* The shapes of a pass that goes on.
LEMMA GoingOn ==
    ASSUME PassShape, GoesOn
    PROVE  Releases \/ Deletes \/ Applies \/ Looks \/ Misses \/ Records
<1>1. SRPass.pc \in Listing /\ SRPass'.pc \in Listing
  BY DEF GoesOn
<1>2. ~Starts
  BY <1>1 DEF Starts, Listing
<1>3. SRPass' # IdlePass /\ SRPass' # [IdlePass EXCEPT !.pc = "deleteSelf"]
  BY <1>1 DEF IdlePass, Listing
<1> QED
  BY <1>2, <1>3 DEF PassShape, Ends, Reports, AddsFinalizer, DropsFinalizer, Retires

\* The records a pass leaves behind when everything renders.
LEMMA StatusWrittenIs ==
    ASSUME EverythingRenders, Inv, StatusWritten
    PROVE  LET p == SRPass IN
           \/ RecordsKept /\ p.active = {} /\ p.releasing = {}
           \/ /\ SR'.st.recs = NewRecords(p)
              /\ SR'.st.owned = NewOwned(p)
<1> DEFINE p == SRPass
<1>1. SR \in TrackerObject /\ SR.st \in TrackerStatus
  BY DEF Inv, TypeOK, SR, Trackers, TrackerObject
<1>2. SR'.st = WithRecords(SR.st, p)
  BY <1>1 DEF StatusWritten, TrackerObject
<1>3. RenderAll(p.active)
  BY DEF EverythingRenders, RenderAll
<1> HIDE DEF p
<1>4. CASE p.active = {} /\ p.releasing = {}
  <2>1. SR'.st.recs = SR.st.recs /\ SR'.st.owned = SR.st.owned
    BY <1>1, <1>2, <1>4 DEF WithRecords, WithKnownCreator, TrackerStatus
  <2> QED
    BY <1>4, <2>1 DEF RecordsKept, p
<1>5. CASE ~(p.active = {} /\ p.releasing = {})
  <2>1. SR'.st.recs = NewRecords(p) /\ SR'.st.owned = NewOwned(p)
    BY <1>1, <1>2, <1>3, <1>5 DEF WithRecords, WithKnownCreator, TrackerStatus
  <2> QED
    BY <2>1 DEF p
<1> QED
  BY <1>4, <1>5

-----------------------------------------------------------------------------
(* Each part is kept by every step *)

\* Nothing comes back.
LEMMA CleanStays ==
    ASSUME ReleaseInv, NEW c \in RPs, Clean(c), PassShape \/ Aside
    PROVE  Clean(c)'
<1> DEFINE p == SRPass q == SRPass'
<1>1. target \in TargetObject /\ c \in Contributors
  BY DEF ReleaseInv, Inv, TypeOK, Contributors
<1>2. CASE Aside
  <2>1. Leaving(c)'
    BY <1>1, <1>2 DEF Aside, Moves, Later, Leaving, Clean
  <2>2. c \notin target'.fields
    BY <1>2 DEF Aside, Clean, NoTarget, NewTarget
  <2> QED
    BY <1>2, <2>1, <2>2 DEF Aside, Clean
<1>3. CASE PassShape
  <2>1. Leaving(c)'
    BY <1>3 DEF PassShape, Same, Leaving, Clean
  <2>2. c \notin q.active
    <3>1. CASE Starts
      BY <3>1 DEF Starts, Clean, Leaving
    <3>2. CASE IsOver \/ GoesOn
      BY <3>2 DEF IsOver, GoesOn, Clean
    <3> QED
      BY <1>3, <3>1, <3>2, PassSummary DEF ReleaseInv
  <2>3. c \notin target'.fields
    <3>1. CASE UNCHANGED target
      BY <3>1 DEF Clean
    <3>2. CASE Releases
      <4>1. ~target.exists => target.fields = {}
        BY DEF ReleaseInv, FieldInv
      <4>2. UNCHANGED target \/ target' = Reverted(First(p.todo), p)
        BY <3>2 DEF Releases
      <4> QED
        BY <1>1, <4>1, <4>2, RevertedIs DEF Clean
    <3>3. CASE Deletes
      BY <3>3 DEF Deletes, NoTarget
    <3>4. CASE Applies
      <4>1. First(p.todo) \in p.active
        BY <3>4 DEF Applies, ReleaseInv, FieldInv
      <4>2. target'.fields \subseteq target.fields \cup {First(p.todo)}
        BY <1>1, <3>4 DEF Applies, TargetObject, NewTarget
      <4> QED
        BY <4>1, <4>2 DEF Clean
    <3> QED
      BY <1>3, <3>1, <3>2, <3>3, <3>4 DEF PassShape, Starts, Ends, Looks, Misses, Records,
         Reports, AddsFinalizer, DropsFinalizer, Retires
  <2> QED
    BY <2>1, <2>2, <2>3 DEF Clean
<1> QED
  BY <1>2, <1>3

\* The steps of a pass touch neither the contributors nor the caches.
LEMMA PassLeavesViews ==
    ASSUME PassShape, NEW c
    PROVE  /\ Known(c)' = Known(c) /\ Leaving(c)' = Leaving(c) /\ Bound(c)' = Bound(c)
           /\ UNCHANGED <<contrib, contribCache, SRCache>>
           /\ Dropping(c)' = Dropping(c)
  BY DEF PassShape, Same, Known, Leaving, Bound, SRCache, Dropping, Reconciling

\* A pass names in its status only contributors it has seen.
LEMMA PassKeepsList ==
    ASSUME EverythingRenders, ReleaseInv, ReadyInv, PassShape, NEW c \in RPs
    PROVE  ListInv(c)'
<1> DEFINE p == SRPass q == SRPass'
<1>1. /\ ListInv(c) /\ c \in Contributors
      /\ SR.st.recs[c] \in RecordState
  BY DEF ReadyInv, Contributors, ReleaseInv, Inv, TypeOK, SR, Trackers, TrackerObject,
     TrackerStatus
<1>2. /\ Known(c)' = Known(c) /\ UNCHANGED <<contribCache, SRCache>>
  BY PassLeavesViews
<1>3. (Starts \/ IsOver \/ GoesOn) /\ (StatusWritten \/ RecordsKept)
  BY PassSummary DEF ReleaseInv
<1>4. \/ /\ RecordsKept
      \/ /\ IsOver
         /\ SR'.st.recs[c] # "none" => c \in p.active
         /\ SR'.st.recs[c] = "applied" /\ c \in ClientSide => c \in SR'.st.owned
  <2>1. CASE StatusWritten /\ ~RecordsKept
    <3>1. SR'.st.recs = NewRecords(p) /\ SR'.st.owned = NewOwned(p)
      BY <2>1, StatusWrittenIs DEF ReleaseInv
    <3>2. IsOver
      BY <2>1 DEF StatusWritten, IsOver, IdlePass
    <3> QED
      BY <1>1, <3>1, <3>2 DEF NewRecords, NewOwned
  <2> QED
    BY <1>3, <2>1
<1>5. SR'.st.recs[c] # "none" \/ SRCache'.st.recs[c] # "none" => Known(c)'
  <2>1. c \in p.active => Known(c)
    BY DEF ReleaseInv, FieldInv
  <2> QED
    BY <1>1, <1>2, <1>4, <2>1 DEF ListInv, RecordsKept
<1>6. \A st \in {SR'.st, SRCache'.st} :
            st.recs[c] = "applied" /\ c \in ClientSide => c \in st.owned
  BY <1>1, <1>2, <1>4 DEF ListInv, RecordsKept, NoRecords
<1>7. q.pc \in Listing /\ c \notin q.active \cup q.releasing /\ SR'.st.recs[c] # "none"
        => contribCache'[c].phase = "gone"
  <2>1. CASE IsOver
    BY <2>1 DEF IsOver, Listing
  <2>2. CASE GoesOn
    BY <1>1, <1>2, <2>2 DEF GoesOn, ListInv
  <2>3. CASE Starts
    <3> SUFFICES ASSUME q.pc \in Listing, c \notin q.active \cup q.releasing,
                        SR'.st.recs[c] # "none"
                 PROVE  contribCache[c].phase = "gone"
      BY <1>2
    <3>1. /\ q.active = {d \in RPs : contribCache[d].phase = "live"}
          /\ q.releasing = {d \in RPs : contribCache[d].phase = "terminating"}
          /\ UNCHANGED SR
      BY <2>3 DEF Starts, Listing
    <3>2. Known(c) /\ contribCache[c] \in ContribObject
      BY <1>1, <3>1 DEF ListInv, ReleaseInv, Inv, TypeOK
    <3> QED
      BY <3>1, <3>2 DEF Known, ContribObject
  <2> QED
    BY <1>3, <2>1, <2>2, <2>3
<1> QED
  BY <1>5, <1>6, <1>7 DEF ListInv

\* A pass withdraws everybody it releases before it leaves the release loop.
LEMMA PassKeepsWithdrawn ==
    ASSUME PathsAreKept, ReleaseInv, ReadyInv, PassShape, NEW c \in RPs
    PROVE  WithdrawnInv(c)'
<1> DEFINE p == SRPass q == SRPass'
<1> SUFFICES ASSUME contrib[c].ready, c \notin Orphaners, c \in q.releasing
             PROVE  /\ q.pc \in Listing /\ (q.pc = "release" => c \notin q.todo)
                            => c \notin target'.fields
                    /\ q.pc = "release" /\ c \in ClientSide
                            => c \in q.owned \/ c \notin target'.fields
  BY PassLeavesViews DEF WithdrawnInv
<1>1. /\ WithdrawnInv(c) /\ ListInv(c) /\ ViewsInv(c) /\ target \in TargetObject
      /\ ~target.exists => target.fields = {}
  BY DEF ReadyInv, ReleaseInv, Inv, TypeOK, FieldInv
<1>2. Starts \/ GoesOn
  BY PassSummary DEF IsOver, ReleaseInv
<1>3. CASE Starts
  <2>1. /\ q.pc = "release" /\ q.todo = q.releasing /\ q.owned = SRCache.st.owned
        /\ UNCHANGED target /\ Leaving(c)
    BY <1>3 DEF Starts, Leaving
  <2>2. Clean(c) \/ Kept(SRCache.st, c)
    BY <1>1, <2>1 DEF ViewsInv, Bound
  <2>3. c \in ClientSide => Quiet
    BY DEF PathsAreKept
  <2> QED
    BY <1>1, <2>1, <2>2, <2>3 DEF Clean, Kept, ListInv
<1>4. CASE GoesOn
  <2>1. /\ c \in p.releasing /\ c \notin p.active
        /\ p.pc \in Listing /\ (p.pc = "release" => c \notin p.todo) => c \notin target.fields
        /\ p.pc = "release" /\ c \in ClientSide => c \in p.owned \/ c \notin target.fields
        /\ q.owned = p.owned
    BY <1>1, <1>4 DEF GoesOn, WithdrawnInv, ReleaseInv, FieldInv
  <2>2. CASE Releases
    <3> DEFINE d == First(p.todo)
    <3>1. /\ p.pc = "release" /\ d \in p.todo
          /\ target' = IF d \in Orphaners THEN target ELSE Reverted(d, p)
          /\ q.pc = "release" => q.todo = p.todo \ {d}
          /\ q.pc # "release" => p.todo = {d}
      BY <2>2 DEF Releases, ReleasedAll, Decided
    <3>2. target'.fields \subseteq target.fields
      BY <1>1, <3>1, RevertedIs
    <3>3. c = d => c \notin target'.fields
      BY <1>1, <2>1, <3>1, <3>2, RevertedIs
    <3> QED
      BY <2>1, <3>1, <3>2, <3>3 DEF Listing
  <2>3. CASE Deletes
    BY <2>3 DEF Deletes, NoTarget
  <2>4. CASE Applies
    <3>1. First(p.todo) \in p.active /\ p.pc = "apply" /\ q.pc # "release"
      BY <2>4 DEF Applies, ReleaseInv, FieldInv, MovedPast
    <3>2. target'.fields \subseteq target.fields \cup {First(p.todo)}
      BY <1>1, <2>4 DEF Applies, TargetObject, NewTarget
    <3> QED
      BY <2>1, <3>1, <3>2 DEF Listing
  <2>5. CASE Looks \/ Misses \/ Records
    <3>1. p.pc \in Listing \ {"release"} /\ q.pc # "release" /\ UNCHANGED target
      BY <2>5 DEF Looks, Misses, Records, MovedPast, Listing
    <3> QED
      BY <2>1, <3>1
  <2>6. \/ Releases \/ Deletes \/ Applies \/ Looks \/ Misses \/ Records
    BY <1>4, GoingOn
  <2> QED
    BY <2>2, <2>3, <2>4, <2>5, <2>6
<1> QED
  BY <1>2, <1>3, <1>4


\* The three views agree after a step of the pass, its status write included.
LEMMA PassKeepsViews ==
    ASSUME EverythingRenders, ReleaseInv, ReadyInv, PassShape, NEW c \in RPs
    PROVE  ViewsInv(c)'
<1> DEFINE p == SRPass
<1>1. /\ ListInv(c) /\ WithdrawnInv(c) /\ ViewsInv(c)
      /\ Quiet => AppliedInv(c)
      /\ c \in Contributors
  BY DEF ReadyInv, Contributors
<1>2. /\ Leaving(c)' = Leaving(c) /\ Bound(c)' = Bound(c) /\ Dropping(c)' = Dropping(c)
      /\ UNCHANGED <<contrib, contribCache, SRCache>>
  BY PassLeavesViews
<1>3. Clean(c) => Clean(c)'
  BY CleanStays
<1>4. ASSUME Bound(c), Kept(SRCache.st, c) PROVE Clean(c)' \/ Kept(SR'.st, c)
  <2>1. Clean(c) \/ Kept(SR.st, c)
    BY <1>1, <1>4 DEF ViewsInv
  <2>2. CASE RecordsKept
    BY <1>3, <2>1, <2>2 DEF RecordsKept, Kept
  <2>3. CASE StatusWritten /\ SR'.st.recs = NewRecords(p) /\ ~Clean(c)
    <3>1. Kept(SR.st, c) /\ p.pc = "status" /\ p.pc \in Listing
      BY <2>1, <2>3 DEF StatusWritten, Listing
    <3>2. c \in p.active
      <4>1. CASE c \in p.releasing
        <5>1. Leaving(c) /\ c \notin p.active
          BY <4>1 DEF ReleaseInv, FieldInv
        <5>2. contrib[c].ready /\ c \notin Orphaners
          BY <1>4, <5>1 DEF Bound
        <5>3. c \notin target.fields
          BY <1>1, <3>1, <4>1, <5>2 DEF WithdrawnInv
        <5> QED
          BY <2>3, <5>1, <5>3 DEF Clean
      <4>2. CASE c \notin p.active \cup p.releasing
        <5>1. contribCache[c].phase = "gone"
          BY <1>1, <3>1, <4>2 DEF ListInv, Kept
        <5>2. contrib[c].phase = "gone"
          BY <1>1, <5>1 DEF ReleaseInv, ContributorsInv, ContributorInv, Later
        <5>3. contrib[c].ready /\ c \notin Orphaners
          BY <1>4, <5>1 DEF Bound, Leaving
        <5> QED
          BY <1>1, <2>3, <5>2, <5>3 DEF ViewsInv
      <4> QED
        BY <4>1, <4>2
    <3>3. SR'.st.recs[c] = IF c \in p.waiting THEN "waiting" ELSE "applied"
      BY <1>1, <2>3, <3>2 DEF NewRecords
    <3>4. Quiet => c \notin p.waiting
      BY <1>1, <3>1 DEF AppliedInv, Kept
    <3> QED
      BY <3>3, <3>4 DEF Kept
  <2>4. StatusWritten => RecordsKept \/ SR'.st.recs = NewRecords(p)
    BY StatusWrittenIs DEF ReleaseInv
  <2> QED
    BY <1>3, <2>2, <2>3, <2>4, PassSummary DEF ReleaseInv
<1>5. contrib'[c].ready /\ Bound(c)' => Clean(c)' \/ Kept(SRCache'.st, c)
  BY <1>1, <1>2, <1>3 DEF ViewsInv
<1>6. contrib'[c].ready /\ c \notin Orphaners
            /\ (contrib'[c].phase = "gone" \/ Dropping(c)') => Clean(c)'
  BY <1>1, <1>2, <1>3 DEF ViewsInv
<1>7. Bound(c)' /\ Kept(SRCache'.st, c) => Clean(c)' \/ Kept(SR'.st, c)
  BY <1>2, <1>4
<1> QED
  BY <1>5, <1>6, <1>7 DEF ViewsInv, Kept

\* With the target left alone, a pass records as applied only what is on it.
LEMMA PassKeepsApplied ==
    ASSUME EverythingRenders, Quiet, ReleaseInv, ReadyInv, PassShape, NEW c \in RPs
    PROVE  AppliedInv(c)'
<1> DEFINE p == SRPass q == SRPass' f == target.fields d == First(SRPass.todo)
           Recorded == SR'.st.recs[c] = "applied" /\ (c \in q.active \/ ~Leaving(c))
                            => c \in target'.fields
           Applied1 == q.pc \in {"exists", "apply", "provenance", "status"}
                            /\ c \in q.active \ (q.waiting \cup q.todo) => c \in target'.fields
           Made == q.pc = "provenance" /\ c = First(q.todo) => c \in target'.fields
           Missed == q.pc \in Listing /\ c \in q.waiting => SR'.st.recs[c] # "applied"
           Looked == q.pc = "apply" => q.seen.fields \subseteq target'.fields
<1>1. SUFFICES Recorded /\ Applied1 /\ Made /\ Missed /\ Looked
  BY PassLeavesViews DEF AppliedInv
<1>2. /\ ListInv(c) /\ c \in Contributors /\ target \in TargetObject
      /\ SR.st.recs[c] = "applied" /\ (c \in p.active \/ ~Leaving(c)) => c \in f
      /\ p.pc \in {"exists", "apply", "provenance", "status"}
            /\ c \in p.active \ (p.waiting \cup p.todo) => c \in f
      /\ p.pc = "provenance" /\ c = d => c \in f
      /\ p.pc \in Listing /\ c \in p.waiting => SR.st.recs[c] # "applied"
      /\ p.pc = "apply" => p.seen.fields \subseteq f
  BY DEF ReadyInv, Contributors, AppliedInv, ReleaseInv, Inv, TypeOK
<1>3. /\ ~target.exists => f = {}
      /\ \A e \in p.releasing : Leaving(e) /\ e \notin p.active
      /\ p.pc = "release" => p.todo \subseteq p.releasing
      /\ p.pc \in {"exists", "apply", "provenance"} => p.todo \subseteq p.active
      /\ p.pc = "status" => p.todo = {}
      /\ p.pc = "deleteTarget" => p.active = {}
  BY DEF ReleaseInv, FieldInv
<1>4. \A S : RenderAll(S)
  BY DEF EverythingRenders, RenderAll
<1> HIDE DEF p, q, f, d
<1> USE DEF Listing
<1>5. CASE Starts
  <2>1. /\ UNCHANGED <<SR, target>> /\ q.waiting = {}
        /\ \A e \in q.active : ~Leaving(e)
        /\ q.pc \in {"addFin", "dropFin", "release", "exists", "status"}
        /\ q.pc = "exists" => q.todo = q.active
        /\ q.pc = "status" => q.active = {}
    BY <1>4, <1>5 DEF Starts, Leaving, q
  <2> QED
    BY <1>2, <2>1 DEF f
<1>6. CASE IsOver
  <2>1. Applied1 /\ Made /\ Missed /\ Looked
    BY <1>6 DEF IsOver, q
  <2>2. q.active = {} /\ UNCHANGED target
    BY <1>6 DEF IsOver, q
  <2>3. Recorded
    <3>1. CASE RecordsKept
      BY <1>2, <2>2, <3>1 DEF RecordsKept, f
    <3>2. CASE StatusWritten /\ SR'.st.recs = NewRecords(p)
      BY <1>2, <1>3, <2>2, <3>2 DEF StatusWritten, NewRecords, f, p
    <3>3. StatusWritten => RecordsKept \/ SR'.st.recs = NewRecords(p)
      BY StatusWrittenIs DEF ReleaseInv, p
    <3> QED
      BY <3>1, <3>2, <3>3, PassSummary DEF ReleaseInv
  <2> QED
    BY <2>1, <2>3
<1>7. ASSUME GoesOn PROVE q.active = p.active /\ q.releasing = p.releasing
                          /\ SR'.st.recs = SR.st.recs
  BY <1>7 DEF GoesOn, p, q
<1>8. CASE GoesOn /\ Releases
  <2>1. /\ p.pc = "release" /\ d \in p.todo /\ q.waiting = p.waiting
        /\ target' = target \/ target' = Reverted(d, p)
        /\ \/ q.pc \in {"release", "deleteTarget"}
           \/ q.pc = "exists" /\ q.todo = p.active
           \/ q.pc = "status" /\ (p.active = {} \/ ~RenderAll(p.active))
    BY <1>8 DEF Releases, ReleasedAll, Decided, SameLists, p, q, d
  <2>2. \A e \in f : e # d => e \in target'.fields
    BY <1>2, <1>3, <2>1, RevertedIs DEF f
  <2>3. Leaving(d) /\ d \notin p.active
    BY <1>3, <2>1
  <2> QED
    BY <1>2, <1>4, <1>7, <1>8, <2>1, <2>2, <2>3
<1>9. CASE GoesOn /\ Deletes
  <2>1. /\ p.pc = "deleteTarget" /\ p.active = {} /\ q.active = {} /\ q.waiting = p.waiting
        /\ q.pc \in {"exists", "status"}
    BY <1>3, <1>7, <1>9 DEF Deletes, Decided, SameLists, p, q
  <2>2. SR.st.recs[c] = "applied" => Leaving(c)
    <3>1. c \in p.releasing => Leaving(c)
      BY <1>3
    <3>2. c \notin p.active \cup p.releasing /\ SR.st.recs[c] = "applied" => Leaving(c)
      BY <1>2, <2>1 DEF ListInv, Leaving, p
    <3> QED
      BY <2>1, <3>1, <3>2
  <2> QED
    BY <1>2, <1>7, <1>9, <2>1, <2>2
<1>10. CASE GoesOn /\ Looks
  <2>1. /\ p.pc = "exists" /\ UNCHANGED target /\ q.pc = "apply" /\ q.todo = p.todo
        /\ q.waiting = p.waiting /\ q.seen = Seen(d)
    BY <1>10 DEF Looks, p, q, d
  <2>2. Seen(d).fields \subseteq f
    BY <1>2 DEF Seen, NoTarget, TargetObject, f
  <2> QED
    BY <1>2, <1>7, <1>10, <2>1, <2>2 DEF f
<1>11. CASE GoesOn /\ Misses
  <2>1. /\ p.pc \in {"exists", "apply"} /\ d \in p.todo /\ ~target.exists /\ UNCHANGED target
        /\ q.todo = p.todo \ {d} /\ q.waiting = p.waiting \cup {d}
        /\ q.pc \in {"exists", "status"}
    BY <1>11 DEF Misses, MovedPast, p, q, d
  <2>2. c = d => SR.st.recs[c] # "applied"
    BY <1>2, <1>3, <2>1
  <2> QED
    BY <1>2, <1>7, <1>11, <2>1, <2>2 DEF f
<1>12. CASE GoesOn /\ Applies
  <2>1. /\ p.pc = "apply" /\ d \in p.todo
        /\ q.waiting = p.waiting
        /\ \/ q.todo = p.todo \ {d} /\ q.pc \in {"exists", "status"}
           \/ q.todo = p.todo /\ q.pc = "provenance" 
    BY <1>12 DEF Applies, MovedPast, p, q, d
  <2>2. /\ f \subseteq target'.fields /\ d \in target'.fields
    <3>1. \/ target.exists /\ target' = [target EXCEPT !.fields = @ \cup {d}]
          \/ ~target.exists /\ target' = NewTarget({d}, d)
          \/ d \in p.seen.fields /\ UNCHANGED target
      BY <1>12 DEF Applies, p, d
    <3> QED
      BY <1>2, <1>3, <2>1, <3>1 DEF TargetObject, NewTarget, f
  <2>3. Made
    BY <2>1, <2>2 DEF d, p, q
  <2> QED
    BY <1>2, <1>7, <1>12, <2>1, <2>2, <2>3
<1>13. CASE GoesOn /\ Records
  <2>1. /\ p.pc = "provenance" /\ d \in p.todo /\ UNCHANGED target
        /\ q.todo = p.todo \ {d} /\ q.waiting = p.waiting
        /\ q.pc \in {"exists", "status"}
    BY <1>13 DEF Records, MovedPast, p, q, d
  <2> QED
    BY <1>2, <1>7, <1>13, <2>1 DEF f
<1>14. GoesOn => \/ Releases \/ Deletes \/ Applies \/ Looks \/ Misses \/ Records
  BY GoingOn
<1> QED
  BY <1>5, <1>6, <1>8, <1>9, <1>10, <1>11, <1>12, <1>13, <1>14, PassSummary DEF ReleaseInv


\* What goes on besides the passes.
LEMMA AsideKeepsReady ==
    ASSUME ReleaseInv, ReleaseInv', ReadyInv, Aside, NEW c \in RPs
    PROVE  ListInv(c)' /\ WithdrawnInv(c)' /\ ViewsInv(c)'
<1>1. /\ ListInv(c) /\ WithdrawnInv(c) /\ ViewsInv(c) /\ ContributorInv(c)
      /\ c \in Contributors
      /\ c \in SRPass.releasing => Leaving(c)
      /\ SR.st.recs[c] \in RecordState
  BY DEF ReadyInv, ReleaseInv, FieldInv, Contributors, ContributorsInv,
     Inv, TypeOK, SR, Trackers, TrackerObject, TrackerStatus
<1>2. Clean(c) => Clean(c)'
  BY CleanStays
<1>3. UNCHANGED SRPass
  BY DEF Aside
<1>4. CASE UNCHANGED <<SRCache, target>> /\ SR'.st = SR.st /\ Moves(c)
  <2>1. /\ Known(c) => Known(c)'
        /\ Leaving(c) => Leaving(c)'
        /\ contribCache[c].phase = "gone" => contribCache'[c].phase = "gone"
    BY <1>1, <1>4 DEF Moves, Later, Known, Leaving
  <2>2. ListInv(c)'
    BY <1>1, <1>3, <1>4, <2>1 DEF ListInv
  <2>3. contrib'[c].ready => contrib[c].ready \/ (~Leaving(c) /\ SRCache.st.recs[c] = "applied")
    BY <1>1, <1>4 DEF Moves, ContributorInv, Later, Leaving
  <2>4. WithdrawnInv(c)'
    BY <1>1, <1>3, <1>4, <2>3 DEF WithdrawnInv
  <2>5. Bound(c)' => Bound(c)
    BY <2>1, <2>3 DEF Bound
  <2>6. contrib'[c].ready /\ Bound(c)' => Clean(c)' \/ Kept(SRCache'.st, c)
    BY <1>1, <1>2, <1>4, <2>3, <2>5 DEF ViewsInv, Kept
  <2>7. Bound(c)' /\ Kept(SRCache'.st, c) => Clean(c)' \/ Kept(SR'.st, c)
    BY <1>1, <1>2, <1>4, <2>5 DEF ViewsInv, Kept
  <2>8. contrib'[c].ready /\ c \notin Orphaners
            /\ (contrib'[c].phase = "gone" \/ Dropping(c)') => Clean(c)'
    <3> SUFFICES ASSUME contrib'[c].ready, c \notin Orphaners,
                        contrib'[c].phase = "gone" \/ Dropping(c)'
                 PROVE  Clean(c)
      BY <1>2
    <3>1. /\ contrib[c].ready
          /\ contrib[c].phase = "gone" \/ Dropping(c) \/ SRCache.st.recs[c] = "none"
      BY <1>4 DEF Moves
    <3> QED
      BY <1>1, <3>1 DEF ViewsInv, Bound, Kept
  <2> QED
    BY <2>2, <2>4, <2>6, <2>7, <2>8 DEF ViewsInv, Kept
<1>5. CASE UNCHANGED <<contrib, contribCache, freshC, worker, SR>>
           /\ \/ SRCache' = SR /\ UNCHANGED target
              \/ UNCHANGED SRCache /\ target'.fields = {}
  <2>1. /\ Known(c)' = Known(c) /\ Leaving(c)' = Leaving(c) /\ Bound(c)' = Bound(c)
        /\ Dropping(c)' = Dropping(c)
    BY <1>5 DEF Known, Leaving, Bound, Dropping, Reconciling
  <2>2. ListInv(c)'
    BY <1>1, <1>3, <1>5, <2>1 DEF ListInv
  <2>3. WithdrawnInv(c)'
    BY <1>1, <1>3, <1>5 DEF WithdrawnInv
  <2>4. contrib'[c].ready /\ Bound(c)' => Clean(c)' \/ Kept(SRCache'.st, c)
    BY <1>1, <1>2, <1>5, <2>1 DEF ViewsInv, Kept
  <2>5. Bound(c)' /\ Kept(SRCache'.st, c) => Clean(c)' \/ Kept(SR'.st, c)
    BY <1>1, <1>2, <1>5, <2>1 DEF ViewsInv, Kept
  <2>6. contrib'[c].ready /\ c \notin Orphaners
            /\ (contrib'[c].phase = "gone" \/ Dropping(c)') => Clean(c)'
    BY <1>1, <1>2, <1>5, <2>1 DEF ViewsInv
  <2> QED
    BY <2>2, <2>3, <2>4, <2>5, <2>6 DEF ViewsInv, Kept
<1> QED
  BY <1>1, <1>4, <1>5 DEF Aside, NoTarget, NewTarget

\* Nothing else takes fields off a target that is left alone.
LEMMA AsideKeepsApplied ==
    ASSUME Quiet, ReleaseInv, ReadyInv, Aside, NEW c \in RPs
    PROVE  AppliedInv(c)'
<1>1. AppliedInv(c) /\ c \in Contributors
  BY DEF ReadyInv, Contributors
<1>2. UNCHANGED <<SRPass, target>> /\ SR'.st = SR.st
  BY DEF Aside, Quiet
<1>3. Leaving(c) => Leaving(c)'
  BY <1>1 DEF Aside, Moves, Later, Leaving
<1> QED
  BY <1>1, <1>2, <1>3 DEF AppliedInv

\* ReadyInv is inductive, given ReleaseInv.
LEMMA ReadyInvInductive ==
    ASSUME NoPromotion, TrackersLeftAlone, EverythingRenders, PathsAreKept
    PROVE  /\ Init => ReadyInv
           /\ ReleaseInv /\ ReadyInv /\ [Next]_allVars => ReadyInv'
<1>1. ASSUME Init PROVE ReadyInv
  <2>1. /\ SR = NoTrackerObject /\ SRCache = NoTrackerObject /\ SRPass = IdlePass
        /\ \A c \in Contributors : contrib[c] = NoContrib /\ contribCache[c] = NoContrib
        /\ \A k \in Kinds : worker[k] = IdleWorker
    BY <1>1 DEF Init, SR, SRCache, SRPass, Trackers
  <2>2. /\ \A c \in Contributors : NoTrackerObject.st.recs[c] = "none"
        /\ IdlePass.pc = "idle" /\ IdlePass.releasing = {} /\ IdlePass.active = {}
        /\ ~NoContrib.ready /\ NoContrib.phase = "none"
        /\ IdleWorker.pc = "idle"
    BY DEF NoTrackerObject, EmptyStatus, NoRecords, IdlePass, NoContrib, IdleWorker
  <2> QED
    BY <2>1, <2>2 DEF ReadyInv, ListInv, WithdrawnInv, ViewsInv, AppliedInv, Listing,
       Kept, Contributors
<1>2. ASSUME ReleaseInv, ReadyInv, [Next]_allVars PROVE ReadyInv'
  <2>1. ReleaseInv' /\ (PassShape \/ Aside)
    BY <1>2, ReleaseInvInductive
  <2>2. ASSUME NEW c \in RPs PROVE ListInv(c)' /\ WithdrawnInv(c)' /\ ViewsInv(c)'
    BY <1>2, <2>1, <2>2, PassKeepsList, PassKeepsWithdrawn, PassKeepsViews, AsideKeepsReady
  <2>3. ASSUME Quiet, NEW c \in RPs PROVE AppliedInv(c)'
    BY <1>2, <2>1, <2>3, PassKeepsApplied, AsideKeepsApplied
  <2> QED
    BY <2>2, <2>3 DEF ReadyInv, Quiet
<1> QED
  BY <1>1, <1>2

\* A contributor that was told that it is Ready leaves nothing: its finalizer
\* goes, in reconcileDelete, only after a pass has withdrawn its fields, and no
\* pass that is still under way puts them back.  For any number of
\* ResourcePatches with any release policies and caches that lag without bound,
\* as long as everything renders, there is no promotion, nobody deletes the
\* trackers, and whoever applies client-side has the target to itself.
THEOREM ReadyLeavesNothingProved ==
    ASSUME NoPromotion, TrackersLeftAlone, EverythingRenders, PathsAreKept
    PROVE  Spec => []ReadyLeavesNothing
<1>1. ReleaseInv /\ ReadyInv => ReadyLeavesNothing
  <2> SUFFICES ASSUME ReleaseInv, ReadyInv, NEW c \in Contributors, c \notin Orphaners,
                      contrib[c].phase = "gone", contrib[c].ready
               PROVE  c \notin target.fields
    BY DEF ReadyLeavesNothing
  <2>1. CASE c \in RPs
    BY <2>1 DEF ReadyInv, ViewsInv, Clean
  <2>2. CASE c \notin RPs
    BY <2>2 DEF ReleaseInv, FieldInv
  <2> QED
    BY <2>1, <2>2
<1> QED
  BY <1>1, ReleaseInvInductive, ReadyInvInductive, PTL DEF Spec


=============================================================================
