----------------------------- MODULE ClientSide -----------------------------
(***************************************************************************)
(* internal/apply/csa.go: contributors that patch one target through the   *)
(* client-side applier.  The tracker remembers, in its status, the paths a *)
(* contributor owns and the values these held before it first wrote them,  *)
(* and puts them back when the contributor gives up a path or leaves.      *)
(*                                                                         *)
(* A pass of the tracker takes the tracker from the informer's cache,      *)
(* which may lag behind, withdraws the leaving contributors, applies the   *)
(* others, and then writes the status: a write that is refused because the *)
(* tracker has changed is repeated with the same records.  Each write of   *)
(* the target is a read and an Update at the version that was read.  A     *)
(* pass may be interrupted, and its status then lost.                      *)
(* The target is there throughout, nobody's paths overlap (Arbitration is  *)
(* about those that do), every patch fits the target's shape (Set does not *)
(* fail), and leaving means onRelease Revert.                              *)
(***************************************************************************)
EXTENDS FieldPaths

CONSTANTS
    Contributors,   \* numbered in the order of sortContributors
    Patches,        \* the patches a contributor's spec may hold
    Rendered,       \* what each patch renders to: an object, and paths in it
    Original,       \* the target before anybody patches it
    Trees,          \* what may become of it
    ForeignPath,    \* a path that somebody else writes
    ForeignValues,  \* the values it may be given
    Others,         \* the other paths that nobody here claims
    MaxChanges,     \* bound on the changes of specs
    MaxForeign,     \* bound on the writes of somebody else
    MaxLost,        \* bound on the passes whose status write is lost
    MaxStale        \* bound on the passes that begin with an old tracker

ASSUME ContributorsAssumption == Contributors \subseteq Nat

\* The paths c may claim, with any of its patches.
Claimable(c) == UNION {Range(Rendered[h].paths) : h \in Patches[c]}
AllClaimable == UNION {Claimable(c) : c \in Contributors}

\* A patch claims paths that are in its object, and nobody's paths overlap.
ASSUME PatchesAssumption ==
    /\ \A c \in Contributors : \A h \in Patches[c] :
        /\ Rendered[h].paths \in Seq(Claimable(c))
        /\ \A p \in Range(Rendered[h].paths) : Has(Rendered[h].object, p)
    /\ \A c, d \in Contributors : c # d => Claimable(c) \cap Claimable(d) = {}
    /\ ForeignPath \notin AllClaimable
    /\ Others \cap (AllClaimable \cup {ForeignPath}) = {}

VARIABLES
    obj,     \* the contributors: phase and patch
    live,    \* the target
    theirs,  \* what somebody else last wrote
    rec,     \* status.contributors, for those it lists
    seen,    \* the same, as the informer's cache has it
    pass,    \* the tracker's pass
    left,    \* what the bounds leave
    missed   \* history: a pass may not have known what an earlier one applied

vars == <<obj, live, theirs, rec, seen, pass, left, missed>>

FreshRecord == [owned |-> <<>>, priors |-> <<>>, captured |-> FALSE, hash |-> <<>>]
IdlePass == [pc |-> "idle", todo |-> {}, copy |-> Mistake, snap |-> <<>>,
             known |-> <<>>, out |-> <<>>]

\* What a contributor claims; status keeps paths as text.
Contribution(o) == Rendered[o.patch]
Texts(paths) == [i \in DOMAIN paths |-> String(paths[i])]
ParsePaths(texts) == [i \in DOMAIN texts |-> Parse(texts[i])]

-----------------------------------------------------------------------------
(* The applier *)

\* restoreOrDelete
RestoreOrDelete(n, p, priors) ==
    LET t == String(p)
        restored == IF t \in DOMAIN priors THEN SetIn(n, p, priors[t]) ELSE Mistake
    IN  IF restored = Mistake THEN Delete(n, p) ELSE restored

\* The owned paths, one after the other, but for those that stay claimed.
Withdraw(n, paths, claimed, priors) ==
    LET at[i \in 0..Len(paths)] ==
            IF i = 0 THEN n
            ELSE IF String(paths[i]) \in claimed THEN at[i - 1]
            ELSE RestoreOrDelete(at[i - 1], paths[i], priors)
    IN  at[Len(paths)]

\* The claimed paths, one after the other.
SetPaths(n, con) ==
    LET at[i \in 0..Len(con.paths)] ==
            IF i = 0 THEN n
            ELSE SetIn(at[i - 1], con.paths[i], Get(con.object, con.paths[i]))
    IN  at[Len(con.paths)]

\* Mutant: whatever the target holds is taken for a prior.
IsPrior_Any(n, p, con, r) == String(p) \notin DOMAIN r.priors /\ Has(n, p)

\* A value is a prior when none is recorded for the path and it is not what the
\* contributor is about to write.
IsPrior(n, p, con, r) ==
    /\ String(p) \notin DOMAIN r.priors
    /\ Has(n, p)
    /\ Get(n, p) # Get(con.object, p)

\* The priors are captured once.
Capture(n, con, r) ==
    LET new == IF r.captured THEN {}
               ELSE {p \in Range(con.paths) : IsPrior(n, p, con, r)}
    IN  [t \in DOMAIN r.priors \cup {String(p) : p \in new} |->
            IF t \in DOMAIN r.priors THEN r.priors[t]
            ELSE Get(n, CHOOSE p \in new : String(p) = t)]

\* update: what becomes of the target.  What was owned last time and is claimed no
\* more is withdrawn first.
Merged(n, con, r) ==
    SetPaths(Withdraw(n, ParsePaths(r.owned), Range(Texts(con.paths)), Capture(n, con, r)),
             con)

\* update: what is recorded of it.  The patch stands for its hash.
RecordOf(n, con, r, patch) ==
    LET priors == Capture(n, con, r)
        dropped == Range(Texts(ParsePaths(r.owned))) \ Range(Texts(con.paths))
    IN  [owned |-> Texts(con.paths), captured |-> TRUE, hash |-> patch,
         priors |-> [t \in DOMAIN priors \ dropped |-> priors[t]]]

-----------------------------------------------------------------------------
(* The tracker's pass *)

\* Mutant: the record is begun anew.
RecordFor_Fresh(c) == FreshRecord

\* recordFor: a contributor that the pass finds listed keeps its record.
RecordFor(c) == IF c \in DOMAIN pass.known THEN pass.known[c] ELSE FreshRecord

\* The informer brings the tracker.
Sync ==
    /\ seen # rec
    /\ seen' = rec
    /\ UNCHANGED <<obj, live, theirs, rec, pass, left, missed>>

\* Reconcile, listContributors: the tracker comes from the cache.
StartPass ==
    /\ pass.pc = "idle"
    /\ seen # rec => left.stale > 0
    /\ left' = IF seen = rec THEN left ELSE [left EXCEPT !.stale = @ - 1]
    /\ missed' = (missed \/ seen # rec)
    /\ pass' = [IdlePass EXCEPT !.pc = "read", !.snap = obj, !.known = seen,
                    !.todo = {c \in Contributors : obj[c].phase \in {"live", "leaving"}}]
    /\ UNCHANGED <<obj, live, theirs, rec, seen>>

\* Those that leave come first.
Turn ==
    LET leaving == {c \in pass.todo : pass.snap[c].phase = "leaving"}
        first == IF leaving # {} THEN leaving ELSE pass.todo
    IN  CHOOSE c \in first : \A d \in first : c <= d

\* Apply, Revert: the target is read.
Read ==
    /\ pass.pc = "read"
    /\ pass.todo # {}
    /\ pass' = [pass EXCEPT !.pc = "update", !.copy = live]
    /\ UNCHANGED <<obj, live, theirs, rec, seen, left, missed>>

\* What the target is to become, from the copy that was read.
Desired(c) ==
    IF pass.snap[c].phase = "leaving"
    THEN Withdraw(pass.copy, ParsePaths(RecordFor(c).owned), {}, RecordFor(c).priors)
    ELSE Merged(pass.copy, Contribution(pass.snap[c]), RecordFor(c))

\* Mutant: the write carries no resourceVersion.
Accepted_Always == TRUE

\* The API server takes the Update when the target is still what was read.
Accepted == live = pass.copy

\* An unchanged target is not written.
Update(c) ==
    /\ pass.pc = "update" /\ c = Turn
    /\ Desired(c) = pass.copy \/ Accepted
    /\ live' = IF Desired(c) = pass.copy THEN live ELSE Desired(c)
    /\ UNCHANGED <<obj, theirs, rec, seen, left, missed>>

\* An Update that is refused ends the pass, without a status write.
Refused ==
    /\ pass.pc = "update"
    /\ Desired(Turn) # pass.copy /\ ~Accepted
    /\ pass' = IdlePass
    /\ missed' = (missed \/ pass.out # <<>>)
    /\ UNCHANGED <<obj, live, theirs, rec, seen, left>>

\* Revert
Release(c) ==
    /\ Update(c)
    /\ pass.snap[c].phase = "leaving"
    /\ pass' = [pass EXCEPT !.pc = "read", !.todo = @ \ {c}, !.copy = Mistake]

\* Apply, update
Apply(c) ==
    LET o == pass.snap[c] IN
    /\ Update(c)
    /\ o.phase = "live"
    /\ pass' = [pass EXCEPT !.pc = "read", !.todo = @ \ {c}, !.copy = Mistake,
            !.out = [d \in DOMAIN pass.out \cup {c} |->
                        IF d = c THEN RecordOf(pass.copy, Contribution(o), RecordFor(c), o.patch)
                        ELSE pass.out[d]]]

\* writeStatus, patchStatus: the pass's records replace what the tracker lists,
\* whichever version it has by now; those that were released are not listed any more.
\* A write of an old version conflicts, and is repeated on what the cache then has.
WriteStatus ==
    /\ pass.pc = "read" /\ pass.todo = {}
    /\ seen = rec
    /\ rec' = pass.out
    /\ pass' = IdlePass
    /\ UNCHANGED <<obj, live, theirs, seen, left, missed>>

\* The pass is interrupted, its status write fails, or conflicts as often as it is
\* repeated.
LoseStatus ==
    /\ pass.pc # "idle"
    /\ left.lost > 0
    /\ left' = [left EXCEPT !.lost = @ - 1]
    /\ pass' = IdlePass
    /\ missed' = (missed \/ pass.out # <<>>)
    /\ UNCHANGED <<obj, live, theirs, rec, seen>>

-----------------------------------------------------------------------------
(* Users, and the contributor's finalizer *)

\* The contributor's spec shows as applied: its controller, too, has the tracker from
\* the cache.
Settled(c) ==
    /\ pass.pc = "idle"
    /\ obj[c].phase = "live"
    /\ c \in DOMAIN seen
    /\ seen[c].hash = obj[c].patch

Create(c) ==
    /\ obj[c].phase = "absent"
    /\ obj' = [obj EXCEPT ![c].phase = "live"]
    /\ UNCHANGED <<live, theirs, rec, seen, pass, left, missed>>

\* A user waits until the last change shows as applied.
Change(c) ==
    /\ left.changes > 0
    /\ Settled(c)
    /\ \E p \in Patches[c] \ {obj[c].patch} : obj' = [obj EXCEPT ![c].patch = p]
    /\ left' = [left EXCEPT !.changes = @ - 1]
    /\ UNCHANGED <<live, theirs, rec, seen, pass, missed>>

Leave(c) ==
    /\ Settled(c)
    /\ obj' = [obj EXCEPT ![c].phase = "leaving"]
    /\ UNCHANGED <<live, theirs, rec, seen, pass, left, missed>>

\* reconcileDelete: the finalizer goes when the tracker, as cached, lists it no more.
Go(c) ==
    /\ obj[c].phase = "leaving"
    /\ c \notin DOMAIN seen
    /\ obj' = [obj EXCEPT ![c].phase = "gone"]
    /\ UNCHANGED <<live, theirs, rec, seen, pass, left, missed>>

\* Somebody else writes a field of the target.
ForeignWrite(v) ==
    /\ left.foreign > 0
    /\ v # theirs
    /\ theirs' = v
    /\ live' = SetIn(live, ForeignPath, v)
    /\ left' = [left EXCEPT !.foreign = @ - 1]
    /\ UNCHANGED <<obj, rec, seen, pass, missed>>

-----------------------------------------------------------------------------
Init ==
    /\ obj \in [Contributors -> [phase : {"absent"}, patch : UNION {Patches[c] : c \in Contributors}]]
    /\ \A c \in Contributors : obj[c].patch \in Patches[c]
    /\ live = Original
    /\ theirs = Get(Original, ForeignPath)
    /\ rec = <<>>
    /\ seen = <<>>
    /\ pass = IdlePass
    /\ left = [changes |-> MaxChanges, foreign |-> MaxForeign, lost |-> MaxLost,
               stale |-> MaxStale]
    /\ missed = FALSE

Next ==
    \/ Sync
    \/ StartPass
    \/ Read
    \/ Refused
    \/ WriteStatus
    \/ LoseStatus
    \/ \E v \in ForeignValues : ForeignWrite(v)
    \/ \E c \in Contributors :
        Release(c) \/ Apply(c) \/ Create(c) \/ Change(c) \/ Leave(c) \/ Go(c)

Spec == Init /\ [][Next]_vars

-----------------------------------------------------------------------------
(* Properties *)

\* A contributor whose spec shows as applied has its fields in the target.  What
\* an earlier spec of its set, and all that a contributor that has gone ever set,
\* is back to what it was, or gone when a pass was lost or began with an old tracker:
\* whichever status writes are lost, or overwrite what they do not know of, a
\* contributor's own value is never taken for the value that was there before
\* (csa.go, update, Revert and restoreOrDelete; tracker_controller.go, recordFor).
FieldsAsRecorded ==
    \A c \in Contributors :
        LET con == Contribution(obj[c])
            claimed == IF Settled(c) THEN Range(con.paths) ELSE {}
        IN
        Settled(c) \/ obj[c].phase = "gone" =>
            /\ \A p \in claimed : Get(live, p) = Get(con.object, p)
            /\ \A p \in Claimable(c) \ claimed :
                \/ Get(live, p) = Get(Original, p)
                \/ missed /\ ~Has(live, p)

AllGone == \A c \in Contributors : obj[c].phase \in {"absent", "gone"}

\* The target is what it was, but for what somebody else wrote.
AsBefore == live = SetIn(Original, ForeignPath, theirs)

\* Once every contributor has gone, and every pass that applied something wrote its
\* status and was known to the next, the target is what it was (csa.go, Revert).
Restored == AllGone /\ ~missed => AsBefore

\* Once every contributor has gone the target is what it was: "a contributor that
\* overwrote a pre-existing annotation must put the original back" (csa.go).
AlwaysRestored == AllGone => AsBefore

\* What nobody claims is never touched: a write of somebody else that races an
\* apply or a revert is not lost, and elements of a list that others own stay as
\* they are (csa.go, the resourceVersion precondition; fieldpath.go).
OthersKept ==
    /\ Get(live, ForeignPath) = theirs
    /\ \A p \in Others : Get(live, p) = Get(Original, p)

-----------------------------------------------------------------------------
(* The paths of trees *)

\* What the operator, or somebody else, may set p to.
Settable(p) ==
    IF p = ForeignPath THEN ForeignValues
    ELSE {Get(Rendered[h].object, p) :
            h \in {g \in UNION {Patches[c] : c \in Contributors} : p \in Range(Rendered[g].paths)}}
         \cup ({Get(Original, p)} \ {Mistake})

\* n and m agree at every path that is looked at, other than p.
SameBut(n, m, p) ==
    \A q \in (AllClaimable \cup Others \cup {ForeignPath}) \ {p} : Get(m, q) = Get(n, q)

\* Set puts its value where Get finds it and touches nothing else.
SetLaw ==
    \A n \in Trees : \A p \in AllClaimable \cup {ForeignPath} : \A v \in Settable(p) :
        LET m == SetIn(n, p, v) IN m \in Trees /\ Get(m, p) = v /\ SameBut(n, m, p)

\* Delete leaves nothing at its path and touches nothing else.
DeleteLaw ==
    \A n \in Trees : \A p \in AllClaimable :
        LET m == Delete(n, p) IN m \in Trees /\ ~Has(m, p) /\ SameBut(n, m, p)

\* The text of a path is read back as that path.
TextLaw == \A p \in AllClaimable : Parse(String(p)) = p

\* A tree that has what was there before at every path that may be claimed is what
\* it was, but for what somebody else wrote.
NoLitter ==
    \A n \in Trees :
        (\A p \in AllClaimable : Get(n, p) = Get(Original, p)) =>
            n = SetIn(Original, ForeignPath, Get(n, ForeignPath))

\* What the proofs use of trees and paths.
PathLaws ==
    /\ Original \in Trees /\ Mistake \notin Trees
    /\ SetLaw /\ DeleteLaw /\ TextLaw /\ NoLitter

\* Whatever becomes of the target, its paths are lawful: Set puts its value where Get
\* finds it, Delete leaves nothing there, neither disturbs what another path
\* selects, no parent made for a value stays behind without it, and a path that was
\* stored as text is read back as itself (fieldpath.go: Get, Set, Delete with
\* pruneEmpty, Parse, Path.String).
PathsLawful == live \in Trees /\ PathLaws

=============================================================================
