---------------------------- MODULE Arbitration ----------------------------
(***************************************************************************)
(* Contributors that want different values in the same fields of a target. *)
(*                                                                         *)
(* A tracker's pass sees all contributions at once, decides who is          *)
(* superseded, and lets each of the others apply its fields server-side    *)
(* under a field manager of its own, by its conflict policy.  Each call to *)
(* the API server is a step: users change their contributions and a foreign *)
(* controller writes its fields between any two of them.  The target exists *)
(* throughout; creating and deleting it, and the fence, are module         *)
(* Operator's.                                                             *)
(***************************************************************************)
EXTENDS Integers

CONSTANTS
    Contributors,
    Foreign,       \* the field manager of a controller that is not ours
    Paths,         \* field paths
    Values,
    NoValue,       \* a path that is not claimed, or not on the target
    Specs,         \* the specs each contributor may have
    Rank,          \* creation order, UID order within it
    ForeignClaim,  \* what the foreign controller insists on
    MaxDisturbed   \* bound on the number of changed specs and failed passes

Policies == {"Fail", "Priority", "Force"}
Claim == [Paths -> Values \cup {NoValue}]
PatchSpec == [claim : Claim, priority : Int, policy : Policies]

ASSUME ArbitrationAssumption ==
    /\ Foreign \notin Contributors
    /\ NoValue \notin Values
    /\ Specs \in [Contributors -> SUBSET PatchSpec]
    /\ Rank \in [Contributors -> Int]
    /\ \A c, d \in Contributors : c # d => Rank[c] # Rank[d]
    /\ ForeignClaim \in Claim
    /\ MaxDisturbed \in Nat

VARIABLES
    obj,           \* the contributors, as the API server has them
    cache,         \* the contributors, as the tracker controller reads them
    field,         \* the target: per path its value and its managers
    state,         \* the tracker's status: per contributor its state
    pass,          \* the tracker's reconcile
    due,           \* the tracker is queued, or an event that queues it is on
                   \* its way
    disturbed      \* changed specs and failed passes so far

vars == <<obj, cache, field, state, pass, due, disturbed>>

-----------------------------------------------------------------------------
(* What a pass computes from the contributors it has listed *)

Phases == {"none", "live", "terminating", "gone"}
States == {"none", "Applied", "Superseded", "Conflicted"}
Contributor == [phase : Phases, spec : PatchSpec]
Field == [val : Values \cup {NoValue}, mgrs : SUBSET (Contributors \cup {Foreign})]
Unset == [val |-> NoValue, mgrs |-> {}]
NoStates == [c \in Contributors |-> "none"]
Nothing == [p \in Paths |-> NoValue]
NoContributors ==
    [c \in Contributors |->
        [phase |-> "none",
         spec |-> [claim |-> Nothing, priority |-> 0, policy |-> "Fail"]]]

\* splitReleasing
Releasing(snap) == {c \in Contributors : snap[c].phase = "terminating"}
Active(snap) == {c \in Contributors : snap[c].phase = "live"}

Wants(snap, c, p) == snap[c].spec.claim[p]

\* sortContributors: priority descending, then creation time, then UID.
Before(snap, c, d) ==
    \/ snap[c].spec.priority > snap[d].spec.priority
    \/ snap[c].spec.priority = snap[d].spec.priority /\ Rank[c] < Rank[d]

Turn(snap, S, c) == c \in S /\ \A d \in S \ {c} : Before(snap, c, d)

\* detectPathConflicts: the same path with the same value is redundancy and
\* allowed.
Contested(snap, p) ==
    \E c, d \in Active(snap) :
        /\ Wants(snap, c, p) # NoValue /\ Wants(snap, d, p) # NoValue
        /\ Wants(snap, c, p) # Wants(snap, d, p)

\* isSupersededOn: c loses everything when a claimant of higher priority is on a
\* contested path of c's.
IsSuperseded(snap, c) ==
    /\ snap[c].spec.policy = "Priority"
    /\ \E p \in Paths : \E d \in Active(snap) \ {c} :
        /\ Contested(snap, p)
        /\ Wants(snap, c, p) # NoValue /\ Wants(snap, d, p) # NoValue
        /\ snap[d].spec.priority > snap[c].spec.priority

-----------------------------------------------------------------------------
(* Server-side apply *)

\* The managers the API server names when it rejects an apply that is not
\* forced.
ConflictingManagers(c, claim) ==
    {m \in Contributors \cup {Foreign} :
        \E p \in Paths : /\ m # c /\ m \in field[p].mgrs
                         /\ claim[p] # NoValue /\ claim[p] # field[p].val}

\* What the applied path p becomes: a manager that agrees is joined, one that
\* does not is forced out, and a field that nobody manages any more is removed.
AppliedField(c, claim, p) ==
    LET others == field[p].mgrs \ {c} IN
    IF claim[p] # NoValue
    THEN [val |-> claim[p],
          mgrs |-> {c} \cup {m \in others : field[p].val = claim[p]}]
    ELSE IF others = {} THEN Unset ELSE [field[p] EXCEPT !.mgrs = others]

\* A change of the target comes back as an event of the target watch.
ApplyFields(m, claim) ==
    /\ field' = [p \in Paths |-> AppliedField(m, claim, p)]
    /\ due' = (due \/ field' # field)

\* IsOurManager, AllOurs
AllOurs(ms) == ms # {} /\ ms \subseteq Contributors

\* Mutant: every conflict is resolved by force.
MayForce_Foreign(policy, ms) == policy = "Priority"

\* patch: against other managers of ours the declared priority decides, a
\* foreign one is left alone.
MayForce(policy, ms) == policy = "Priority" /\ AllOurs(ms)

-----------------------------------------------------------------------------
(* The pass *)

IdlePass == [pc |-> "idle", snap |-> NoContributors, todo |-> {}, out |-> NoStates]

InLoop(pc, next, snap, todo, out) ==
    [pc |-> IF todo = {} THEN next ELSE pc, snap |-> snap, todo |-> todo,
     out |-> out]

ApplyLoop(snap) == InLoop("apply", "status", snap, Active(snap), NoStates)

StartPass ==
    /\ due /\ pass.pc = "idle"
    /\ due' = FALSE
    /\ pass' = IF Active(cache) \cup Releasing(cache) = {} THEN IdlePass
               ELSE IF Releasing(cache) = {} THEN ApplyLoop(cache)
               ELSE InLoop("release", "status", cache, Releasing(cache), NoStates)
    /\ UNCHANGED <<obj, cache, field, state, disturbed>>

\* releaseContributor, Revert: an apply that claims nothing.
Release(c) ==
    /\ pass.pc = "release" /\ Turn(pass.snap, pass.todo, c)
    /\ ApplyFields(c, Nothing)
    /\ pass' = IF pass.todo = {c} THEN ApplyLoop(pass.snap)
               ELSE [pass EXCEPT !.todo = @ \ {c}]
    /\ UNCHANGED <<obj, cache, state, disturbed>>

Visited(c, s) ==
    pass' = InLoop("apply", "status", pass.snap, pass.todo \ {c},
                   [pass.out EXCEPT ![c] = s])

\* The loser is reported and nothing of it is written.
Supersede(c) ==
    /\ pass.pc = "apply" /\ Turn(pass.snap, pass.todo, c)
    /\ IsSuperseded(pass.snap, c)
    /\ Visited(c, "Superseded")
    /\ UNCHANGED <<obj, cache, field, state, due, disturbed>>

\* Apply, patch: the first call, forced only under policy Force.
Apply(c) ==
    LET spec == pass.snap[c].spec
        ms == ConflictingManagers(c, spec.claim) IN
    /\ pass.pc = "apply" /\ Turn(pass.snap, pass.todo, c)
    /\ ~IsSuperseded(pass.snap, c)
    /\ \/ /\ spec.policy = "Force" \/ ms = {}
          /\ ApplyFields(c, spec.claim)
          /\ Visited(c, "Applied")
       \/ /\ spec.policy # "Force" /\ ms # {}
          /\ IF MayForce(spec.policy, ms) THEN pass' = [pass EXCEPT !.pc = "force"]
             ELSE Visited(c, "Conflicted")
          /\ UNCHANGED <<field, due>>
    /\ UNCHANGED <<obj, cache, state, disturbed>>

\* patch: the second call.
ForceApply(c) ==
    /\ pass.pc = "force" /\ Turn(pass.snap, pass.todo, c)
    /\ ApplyFields(c, pass.snap[c].spec.claim)
    /\ Visited(c, "Applied")
    /\ UNCHANGED <<obj, cache, state, disturbed>>

\* Mutant: what happened to the target meanwhile is taken for an echo of the
\* pass's own writes.
WriteStatus_Echo ==
    /\ pass.pc = "status"
    /\ state' = pass.out
    /\ pass' = IdlePass
    /\ due' = FALSE
    /\ UNCHANGED <<obj, cache, field, disturbed>>

\* Mutant: a released contributor stays in the list.
WriteStatus_KeepLeaving ==
    /\ pass.pc = "status"
    /\ state' = [c \in Contributors |->
                    IF c \in Releasing(pass.snap) THEN "Releasing" ELSE pass.out[c]]
    /\ pass' = IdlePass
    /\ UNCHANGED <<obj, cache, field, due, disturbed>>

\* writeStatus: the released contributors are dropped from the list.
WriteStatus ==
    /\ pass.pc = "status"
    /\ state' = pass.out
    /\ pass' = IdlePass
    /\ UNCHANGED <<obj, cache, field, due, disturbed>>

Disturb == disturbed < MaxDisturbed /\ disturbed' = disturbed + 1

\* A call that fails ends the pass without a status, and it is retried.
AbortPass ==
    /\ pass.pc # "idle"
    /\ Disturb
    /\ pass' = IdlePass
    /\ due' = TRUE
    /\ UNCHANGED <<obj, cache, field, state>>

PassStep ==
    \/ StartPass
    \/ WriteStatus
    \/ \E c \in Contributors : Release(c) \/ Supersede(c) \/ Apply(c) \/ ForceApply(c)

-----------------------------------------------------------------------------
(* The rest of the world *)

Create(c) ==
    /\ obj[c].phase = "none"
    /\ \E s \in Specs[c] : obj' = [obj EXCEPT ![c] = [phase |-> "live", spec |-> s]]
    /\ UNCHANGED <<cache, field, state, pass, due, disturbed>>

Change(c) ==
    /\ obj[c].phase = "live"
    /\ Disturb
    /\ \E s \in Specs[c] : obj' = [obj EXCEPT ![c].spec = s]
    /\ UNCHANGED <<cache, field, state, pass, due>>

Delete(c) ==
    /\ obj[c].phase = "live"
    /\ obj' = [obj EXCEPT ![c].phase = "terminating"]
    /\ UNCHANGED <<cache, field, state, pass, due, disturbed>>

\* The contributor's finalizer goes once the tracker no longer lists it.
Go(c) ==
    /\ obj[c].phase = "terminating"
    /\ state[c] = "none"
    /\ obj' = [obj EXCEPT ![c].phase = "gone"]
    /\ UNCHANGED <<cache, field, state, pass, due, disturbed>>

\* trackersOfContributor: an event of a contributor queues its tracker.
Event(c) ==
    /\ cache[c] # obj[c]
    /\ cache' = [cache EXCEPT ![c] = obj[c]]
    /\ due' = TRUE
    /\ UNCHANGED <<obj, field, state, pass, disturbed>>

\* The foreign controller asserts its value with force, as a plain update does.
ForeignWrite(p) ==
    /\ ForeignClaim[p] # NoValue
    /\ field' = [field EXCEPT ![p] = AppliedField(Foreign, ForeignClaim, p)]
    /\ field' # field
    /\ due' = TRUE
    /\ UNCHANGED <<obj, cache, state, pass, disturbed>>

Init ==
    /\ obj = NoContributors
    /\ cache = obj
    /\ field = [p \in Paths |-> Unset]
    /\ state = NoStates
    /\ pass = IdlePass
    /\ due = FALSE
    /\ disturbed = 0

Next ==
    \/ PassStep
    \/ AbortPass
    \/ \E c \in Contributors : Create(c) \/ Change(c) \/ Delete(c) \/ Go(c) \/ Event(c)
    \/ \E p \in Paths : ForeignWrite(p)

\* Events arrive and the tracker's worker serves its queue.  Nothing is assumed
\* of the foreign controller: it may stop insisting at any time, or never.
Fairness == WF_vars(PassStep) /\ \A c \in Contributors : WF_vars(Event(c))

Spec == Init /\ [][Next]_vars /\ Fairness

-----------------------------------------------------------------------------
(* Properties *)

TypeOK ==
    /\ obj \in [Contributors -> Contributor]
    /\ cache \in [Contributors -> Contributor]
    /\ field \in [Paths -> Field]
    /\ state \in [Contributors -> States]
    /\ pass \in [pc : {"idle", "release", "apply", "force", "status"},
                 snap : [Contributors -> Contributor],
                 todo : SUBSET Contributors,
                 out : [Contributors -> States]]
    /\ due \in BOOLEAN
    /\ disturbed \in 0..MaxDisturbed

\* Nothing is queued, under way or still to be heard of.
Quiet == pass.pc = "idle" /\ ~due /\ cache = obj

Holds(c, claim) ==
    \A p \in Paths : claim[p] # NoValue
        => field[p].val = claim[p] /\ c \in field[p].mgrs

\* Somebody else manages one of c's fields with another value; under policy
\* Priority somebody foreign.
Blocked(c, spec) ==
    LET ms == ConflictingManagers(c, spec.claim) IN
    /\ spec.policy # "Force"
    /\ ms # {}
    /\ spec.policy = "Priority" => Foreign \in ms

OutrankedOnAField(c) ==
    \E p \in Paths : \E d \in Contributors :
        /\ obj[d].phase = "live"
        /\ obj[d].spec.priority > obj[c].spec.priority
        /\ obj[d].spec.claim[p] # NoValue /\ obj[c].spec.claim[p] # NoValue

\* When the operator is at rest its status is true of the target.  A contributor
\* called Applied has every field it claims, with its values; one called
\* Superseded is outranked on a field it claims; one called Conflicted is kept
\* out by a manager it may not force; and nobody who stays is missing.
StatusIsTrue ==
    Quiet => \A c \in Contributors : obj[c].phase = "live" =>
        \/ state[c] = "Applied" /\ Holds(c, obj[c].spec.claim)
        \/ state[c] = "Superseded" /\ OutrankedOnAField(c)
        \/ state[c] = "Conflicted" /\ Blocked(c, obj[c].spec)

\* Whatever contributors want and whatever a foreign controller insists on, the
\* target does not flap: the operator comes to rest.
Settles == <>[]Quiet

=============================================================================
