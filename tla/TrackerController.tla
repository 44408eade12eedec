------------------------- MODULE TrackerController -------------------------
(***************************************************************************)
(* internal/controller/tracker_controller.go: the reconciler of            *)
(* SharedResource and ClusterSharedResource, the only one that writes      *)
(* targets.  A pass reads the tracker and the contributors from the cache, *)
(* withdraws the contributors that are being deleted, applies the others,  *)
(* and writes the tracker's status.  Passes of one tracker are serialised; *)
(* nothing serialises the passes of the two trackers.                      *)
(*                                                                         *)
(* The target is read and written through to the API server.  The          *)
(* contributions of different contributors are disjoint here; contested    *)
(* fields are not part of this module.                                     *)
(***************************************************************************)
EXTENDS Promotion

\* Mutant: contributors that are being deleted are not listed.
ListContributors_LiveOnly(t) ==
    {c \in (IF t = "SR" THEN RPs ELSE Contributors) :
        contribCache[c].phase = "live"}

\* listContributors: every contributor that names the target and is in the
\* cache, whatever its finalizer, registration or validity.  A SharedResource
\* sees only the ResourcePatches of its namespace.
ListContributors(t) ==
    {c \in (IF t = "SR" THEN RPs ELSE Contributors) : Exists(contribCache[c])}

Releasing(L) == {c \in L : contribCache[c].phase = "terminating"}

\* maybeDeleteTarget: the operator created the object, and among the
\* contributors that leave is its recorded creator, asking for deletion.
WantsDelete(st, leaving) == st.creator \in leaving \cap Deleters

\* renderAll succeeds: it renders every active contribution or none.
RenderAll(active) == active \cap Unrenderable = {}

\* Where a pass goes when the loop it is in has no contributor left: from the
\* releases to the object-level decision, from there to the applies, from
\* there to the status.  A contributor that cannot be rendered sends the pass
\* to the status before anything is applied.
AfterApplies(p) == [p EXCEPT !.pc = "status", !.todo = {}]

AfterDecision(p) ==
    CASE p.teardown  -> [p EXCEPT !.pc = "dropFin"]
      [] ~p.teardown /\ p.active # {} /\ RenderAll(p.active)
                     -> [p EXCEPT !.pc = "exists", !.todo = p.active]
      [] OTHER       -> AfterApplies(p)

\* Mutant: the creator takes the object with it although others remain.
AfterReleases_AnyTime(p) ==
    IF WantsDelete(p.st, p.releasing) THEN [p EXCEPT !.pc = "deleteTarget"]
    ELSE AfterDecision(p)

AfterReleases(p) ==
    IF (p.teardown \/ p.active = {}) /\ WantsDelete(p.st, p.releasing)
    THEN [p EXCEPT !.pc = "deleteTarget"]
    ELSE AfterDecision(p)

\* reconcileEmpty: nothing claims the target.  A tracker whose status lists
\* nobody retires; one whose status still lists somebody only notes that it
\* is releasing.
ReconcileEmpty(p) ==
    IF p.st.recs = NoRecords /\ ~p.st.releasing
    THEN [p EXCEPT !.pc = "dropFin"]
    ELSE [p EXCEPT !.pc = "status"]

\* Reconcile: what a pass that read the tracker as o and the contributors as
\* L does first.
Dispatch(o, L) ==
    LET p == [IdlePass EXCEPT !.st = o.st, !.owned = o.st.owned]
        q == [p EXCEPT !.releasing = Releasing(L),
                       !.active = L \ Releasing(L)]
        d == [p EXCEPT !.releasing = L, !.teardown = TRUE]
        Release(r) == IF r.releasing = {} THEN AfterReleases(r)
                      ELSE [r EXCEPT !.pc = "release", !.todo = r.releasing]
    IN CASE IsFenced(o.st) -> [p EXCEPT !.pc = FinishPromotion(o)]
         [] ~IsFenced(o.st) /\ o.deleting -> Release(d)
         [] ~IsFenced(o.st) /\ ~o.deleting /\ ~o.fin ->
                [p EXCEPT !.pc = "addFin"]
         [] ~IsFenced(o.st) /\ ~o.deleting /\ o.fin /\ L = {} ->
                ReconcileEmpty(p)
         [] ~IsFenced(o.st) /\ ~o.deleting /\ o.fin /\ L # {} -> Release(q)

StartPass(t) ==
    LET p == Dispatch(trkCache[t], ListContributors(t)) IN
    /\ pass[t].pc = "idle"
    /\ trkCache[t].exists
    /\ p.pc # "idle"
    /\ pass' = [pass EXCEPT ![t] = p]
    /\ freshT' = [freshT EXCEPT ![t] =
            IF "cache" \in @ THEN @ \cup {"pass"} ELSE @ \ {"pass"}]
    /\ UNCHANGED <<contrib, trk, freshC, cacheVars, target, worker>>

\* The pass of t moves on to p; one that has nothing left to do gives up its
\* copy of the tracker.
Continue(t, p) ==
    IF p.pc = "idle"
    THEN /\ pass' = [pass EXCEPT ![t] = IdlePass]
         /\ freshT' = [freshT EXCEPT ![t] = @ \ {"pass"}]
    ELSE /\ pass' = [pass EXCEPT ![t] = p]
         /\ UNCHANGED freshT

-----------------------------------------------------------------------------
(* Withdrawing contributions *)

\* Revert.  Client-side apply removes the recorded paths from an object that
\* exists.  Server-side apply applies an object that claims nothing, which
\* drops the manager's fields, and creates the object if it is absent.
Reverted(c, p) ==
    CASE c \in ClientSide ->
            [target EXCEPT !.fields = @ \ ({c} \cap p.owned)]
      [] c \notin ClientSide /\ target.exists ->
            [target EXCEPT !.fields = @ \ {c}]
      [] OTHER -> NewTarget({}, Shell)

\* A server-side revert of an absent target whose bare identity the API server
\* rejects is an error, which ends the pass.
RevertFails(c) ==
    c \notin ClientSide /\ ~target.exists /\ ~BareObjectValid

ReleaseContributor(t) ==
    LET p == pass[t]
        c == First(p.todo)
        q == [p EXCEPT !.todo = @ \ {c}] IN
    /\ p.pc = "release"
    /\ IF c \notin Orphaners /\ RevertFails(c)
       THEN Continue(t, IdlePass)
       ELSE Continue(t, IF q.todo = {} THEN AfterReleases(q) ELSE q)
    /\ target' = IF c \in Orphaners \/ RevertFails(c) THEN target
                 ELSE Reverted(c, p)
    /\ UNCHANGED <<contrib, trk, freshC, cacheVars, worker>>

\* Delete by name: whichever object is there.
DeleteTarget(t) ==
    /\ pass[t].pc = "deleteTarget"
    /\ target' = NoTarget
    /\ Continue(t, AfterDecision(pass[t]))
    /\ UNCHANGED <<contrib, trk, freshC, cacheVars, worker>>

-----------------------------------------------------------------------------
(* Applying contributions *)

Visited(p) ==
    LET q == [p EXCEPT !.todo = @ \ {First(p.todo)}, !.seen = NoTarget] IN
    IF q.todo = {} THEN AfterApplies(q) ELSE [q EXCEPT !.pc = "exists"]

NotFound(p) == Visited([p EXCEPT !.waiting = @ \cup {First(p.todo)}])

\* What the applier's Get leaves it with: a client-side apply holds the object,
\* a server-side one only remembers whether there was one.
Seen(c) ==
    IF c \in ClientSide THEN target
    ELSE [NoTarget EXCEPT !.exists = target.exists]

\* The applier's Get.  A contributor that may not create waits for the target.
CheckTarget(t) ==
    LET p == pass[t] c == First(p.todo) IN
    /\ p.pc = "exists"
    /\ Continue(t, IF ~target.exists /\ c \notin Creators THEN NotFound(p)
                   ELSE [p EXCEPT !.pc = "apply", !.seen = Seen(c)])
    /\ UNCHANGED <<contrib, trk, freshC, cacheVars, target, worker>>

\* The write landed.  The pass that believes it created the target records
\* that before it goes on, unless a creator is already known.
Applied(p) ==
    IF ~p.seen.exists /\ p.st.creator = NoOne
    THEN [p EXCEPT !.pc = "provenance"]
    ELSE Visited(p)

\* A server-side apply updates or creates, whichever the target now calls for.
ServerSideApply(t, p, c) ==
    /\ target' = IF target.exists
                 THEN [target EXCEPT !.fields = @ \cup {c}]
                 ELSE NewTarget({c}, c)
    /\ Continue(t, Applied(p))

\* A client-side apply creates or updates as its Get decided.  A create that
\* finds the object, and an update that finds it changed, end the pass; an
\* update that finds none makes the contributor wait.  An object that already
\* carries the contribution is not written at all.
ClientSideApply(t, p, c) ==
    CASE ~p.seen.exists /\ ~target.exists ->
            /\ target' = NewTarget({c}, c)
            /\ Continue(t, Applied(p))
      [] p.seen.exists /\ c \in p.seen.fields ->
            /\ UNCHANGED target
            /\ Continue(t, Applied(p))
      [] p.seen.exists /\ c \notin p.seen.fields /\ target = p.seen ->
            /\ target' = [target EXCEPT !.fields = @ \cup {c}]
            /\ Continue(t, Applied(p))
      [] p.seen.exists /\ c \notin p.seen.fields /\ ~target.exists ->
            /\ UNCHANGED target
            /\ Continue(t, NotFound(p))
      [] OTHER ->
            /\ UNCHANGED target
            /\ Continue(t, IdlePass)

ApplyContribution(t) ==
    LET p == pass[t]
        c == First(p.todo) IN
    /\ p.pc = "apply"
    /\ IF c \in ClientSide THEN ClientSideApply(t, p, c)
       ELSE ServerSideApply(t, p, c)
    /\ UNCHANGED <<contrib, trk, freshC, cacheVars, worker>>

-----------------------------------------------------------------------------
(* Writing the tracker *)

\* Mutant: the whole status is sent again.
Retried_WholeStatus(t, p, own, reread) == [p EXCEPT !.st = own]

\* What patchStatus writes, given its mutation of the pass's copy and of the
\* cached object: the first while the copy is current, and on a conflict the
\* second, which then replaces the copy.
Retried(t, p, own, reread) ==
    [p EXCEPT !.st = IF "pass" \in freshT[t] THEN own ELSE reread]

\* patchStatus.  The retries go on until the cache is current; conflicts that
\* outlast them end the pass (AbortPass).  A tracker that is gone, in the API
\* server or in the cache, counts as written.
PatchStatus(t, p, own, reread, stays) ==
    LET q == Retried(t, p, own, reread)
        missing == ~trk[t].exists
                   \/ ("pass" \notin freshT[t] /\ ~trkCache[t].exists) IN
    /\ missing \/ freshT[t] # {}
    /\ IF missing
       THEN IF stays
            THEN /\ pass' = [pass EXCEPT ![t] = Visited([p EXCEPT !.st = own])]
                 /\ UNCHANGED <<trk, freshT>>
            ELSE /\ pass' = [pass EXCEPT ![t] = IdlePass]
                 /\ freshT' = [freshT EXCEPT ![t] = @ \ {"pass"}]
                 /\ UNCHANGED trk
       ELSE /\ PassWrite(t, [trk[t] EXCEPT !.st = q.st], stays)
            /\ pass' = [pass EXCEPT ![t] = IF stays THEN Visited(q)
                                           ELSE IdlePass]
    /\ UNCHANGED <<contrib, contribCache, trkCache, freshC, target, worker>>

\* recordProvenance, the moment the creation is learned.
WithCreator(st, c) ==
    [st EXCEPT !.creator = IF @ = NoOne THEN c ELSE @]

RecordProvenance(t) ==
    LET p == pass[t] c == First(p.todo) IN
    /\ p.pc = "provenance"
    /\ PatchStatus(t, p, WithCreator(p.st, c), WithCreator(trkCache[t].st, c),
                   TRUE)

\* Mutant: contributors that leave stay on the list, in a state of their own.
NewRecords_KeepLeaving(p) ==
    [c \in Contributors |->
        IF c \in p.releasing THEN "releasing"
        ELSE IF c \notin p.active THEN "none"
        ELSE IF c \in p.waiting THEN "waiting" ELSE "applied"]

\* Mutant: the paths are written back as the list was built with them.
NewOwned_AsRead(p) == p.owned

\* The record of a visited contributor: applied with its paths, or waiting
\* with whatever paths it had.
NewRecords(p) ==
    [c \in Contributors |->
        IF c \notin p.active THEN "none"
        ELSE IF c \in p.waiting THEN "waiting" ELSE "applied"]
NewOwned(p) ==
    (ClientSide \cap (p.active \ p.waiting)) \cup (p.waiting \cap p.owned)

\* Mutant: the creator is written as the pass believes it to be.
WithKnownCreator_AsRead(st, p) == [st EXCEPT !.creator = p.st.creator]

\* writeStatus on what the pass knows of the target's creator.
WithKnownCreator(st, p) ==
    [st EXCEPT !.creator = IF @ = NoOne THEN p.st.creator ELSE @]

\* writeStatus.  The contributor list is replaced: by the active contributors,
\* or by an empty list when one of them could not be rendered.  A pass that
\* found no contributors leaves the list alone and only sets the phase.
\* The fence is never touched, the creator never replaced.
WithRecords(st, p) ==
    LET known == WithKnownCreator(st, p) IN
    IF p.active = {} /\ p.releasing = {}
    THEN [known EXCEPT !.releasing = TRUE]
    ELSE [known EXCEPT !.releasing = FALSE,
                       !.recs = IF RenderAll(p.active)
                                THEN NewRecords(p) ELSE NoRecords,
                       !.owned = IF RenderAll(p.active)
                                 THEN NewOwned(p) ELSE {}]

WriteStatus(t) ==
    LET p == pass[t] IN
    /\ p.pc = "status"
    /\ PatchStatus(t, p, WithRecords(p.st, p), WithRecords(trkCache[t].st, p),
                   FALSE)

\* An apply that fails for any other reason than a missing or a changed target
\* leaves the contributor list alone, writes the phase the pass read, and ends
\* the pass.
WithPhase(st, p) ==
    [WithKnownCreator(st, p) EXCEPT !.releasing = p.st.releasing]

ReportFailure(t) ==
    LET p == pass[t] IN
    /\ p.pc \in {"exists", "apply"}
    /\ PatchStatus(t, p, WithPhase(p.st, p), WithPhase(trkCache[t].st, p), FALSE)

AddTrackerFinalizer(t) ==
    /\ pass[t].pc = "addFin"
    /\ UpdateTracker(t, [trk[t] EXCEPT !.fin = TRUE], IdlePass)

\* reconcileEmpty and finishPromotion go on to Delete; reconcileDelete is done.
DropTrackerFinalizer(t) ==
    /\ pass[t].pc = "dropFin"
    /\ UpdateTracker(t, WithoutFinalizer(trk[t]),
            IF pass[t].teardown THEN IdlePass
            ELSE [IdlePass EXCEPT !.pc = "deleteSelf"])

\* Delete by name, whatever has become of the tracker since.
DeleteSelf(t) ==
    /\ pass[t].pc = "deleteSelf"
    /\ PassWrite(t, IF trk[t].exists THEN Deleted(trk[t]) ELSE trk[t], FALSE)
    /\ pass' = [pass EXCEPT ![t] = IdlePass]
    /\ UNCHANGED <<contrib, contribCache, trkCache, freshC, target, worker>>

\* Any call may fail, and the process may die between any two of them.
AbortPass(t) ==
    /\ pass[t].pc # "idle"
    /\ pass' = [pass EXCEPT ![t] = IdlePass]
    /\ freshT' = [freshT EXCEPT ![t] = @ \ {"pass"}]
    /\ UNCHANGED <<contrib, trk, freshC, cacheVars, target, worker>>

PassStep(t) ==
    \/ ReleaseContributor(t)
    \/ DeleteTarget(t)
    \/ CheckTarget(t)
    \/ ApplyContribution(t)
    \/ RecordProvenance(t)
    \/ WriteStatus(t)
    \/ AddTrackerFinalizer(t)
    \/ DropTrackerFinalizer(t)
    \/ DeleteSelf(t)
    \/ Unfence(t)

=============================================================================
