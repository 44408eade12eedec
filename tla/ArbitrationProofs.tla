------------------------- MODULE ArbitrationProofs -------------------------
(***************************************************************************)
(* For any number of contributors, paths, values, priorities and policies: *)
(* the types of module Arbitration, and that the tracker's status is true  *)
(* whenever the operator is at rest.                                       *)
(*                                                                         *)
(* StatusIsTrue speaks of a state at rest, so it is not inductive.  The    *)
(* strengthening says what has been established at each point of a pass    *)
(* that nothing has overtaken: as long as no event is due, the pass works  *)
(* on what the cache holds, and its judgement of everybody it has visited  *)
(* is true of the target as it is now.                                     *)
(***************************************************************************)
EXTENDS Arbitration, TLAPS

Judged(c, s) ==
    \/ s = "Applied" /\ Holds(c, cache[c].spec.claim)
    \/ s = "Superseded" /\ IsSuperseded(cache, c)
    \/ s = "Conflicted" /\ Blocked(c, cache[c].spec)

\* The pass that nothing has overtaken.
PassSound ==
    pass.pc # "idle" /\ ~due =>
        /\ pass.snap = cache
        /\ pass.pc # "release" =>
            \A c \in Active(cache) \ pass.todo : Judged(c, pass.out[c])
        /\ pass.pc = "status" => pass.todo = {}

RestSound ==
    pass.pc = "idle" /\ ~due => \A c \in Active(cache) : Judged(c, state[c])

IInv == TypeOK /\ PassSound /\ RestSound

-----------------------------------------------------------------------------
(* Types *)

LEMMA NoContributorsType == NoContributors \in [Contributors -> Contributor]
  BY ArbitrationAssumption
  DEF NoContributors, Contributor, Phases, PatchSpec, Nothing, Claim, Policies

LEMMA NoStatesType == NoStates \in [Contributors -> States]
  BY DEF NoStates, States

LEMMA AppliedFieldType ==
  ASSUME NEW m \in Contributors \cup {Foreign}, NEW claim \in Claim, NEW p \in Paths,
         field \in [Paths -> Field]
  PROVE  AppliedField(m, claim, p) \in Field
  <1>1. claim[p] \in Values \cup {NoValue}  BY DEF Claim
  <1>2. field[p] \in Field  OBVIOUS
  <1> QED  BY <1>1, <1>2 DEF AppliedField, Field, Unset

LEMMA NothingType == Nothing \in Claim
  BY DEF Nothing, Claim

LEMMA ApplyFieldsType ==
  ASSUME NEW m \in Contributors \cup {Foreign}, NEW claim \in Claim,
         field \in [Paths -> Field], due \in BOOLEAN, ApplyFields(m, claim)
  PROVE  field' \in [Paths -> Field] /\ due' \in BOOLEAN
  BY AppliedFieldType DEF ApplyFields

PassType == [pc : {"idle", "release", "apply", "force", "status"},
             snap : [Contributors -> Contributor],
             todo : SUBSET Contributors,
             out : [Contributors -> States]]

LEMMA InLoopType ==
  ASSUME NEW pc \in {"release", "apply"}, NEW snap \in [Contributors -> Contributor],
         NEW todo \in SUBSET Contributors, NEW out \in [Contributors -> States]
  PROVE  InLoop(pc, "status", snap, todo, out) \in PassType
  BY DEF InLoop, PassType

LEMMA IdlePassType == IdlePass \in PassType
  BY NoContributorsType, NoStatesType DEF IdlePass, PassType

LEMMA SpecType ==
  ASSUME NEW c \in Contributors, NEW s \in Specs[c]
  PROVE  s \in PatchSpec
  BY ArbitrationAssumption

LEMMA ClaimType ==
  ASSUME NEW snap \in [Contributors -> Contributor], NEW c \in Contributors
  PROVE  snap[c].spec.claim \in Claim
  BY DEF Contributor, PatchSpec

LEMMA InitType == Init => TypeOK
  <1> SUFFICES ASSUME Init PROVE TypeOK  OBVIOUS
  <1>1. Unset \in Field  BY DEF Unset, Field
  <1>2. pass \in PassType  BY IdlePassType DEF Init
  <1>3. disturbed \in 0..MaxDisturbed  BY ArbitrationAssumption DEF Init
  <1> QED
    BY <1>1, <1>2, <1>3, NoContributorsType, NoStatesType DEF Init, TypeOK, PassType

LEMMA VisitedType ==
  ASSUME TypeOK, NEW c \in Contributors, NEW s \in States, Visited(c, s)
  PROVE  pass' \in PassType
  <1>1. pass \in PassType  BY DEF TypeOK, PassType
  <1>2. /\ pass.todo \ {c} \in SUBSET Contributors
        /\ [pass.out EXCEPT ![c] = s] \in [Contributors -> States]
        /\ pass.snap \in [Contributors -> Contributor]
    BY <1>1 DEF PassType
  <1> QED  BY <1>2, InLoopType DEF Visited

LEMMA ApplyLoopType ==
  ASSUME NEW snap \in [Contributors -> Contributor]
  PROVE  ApplyLoop(snap) \in PassType
  BY InLoopType, NoStatesType DEF ApplyLoop, Active

LEMMA NextType ==
  ASSUME TypeOK, [Next]_vars
  PROVE  TypeOK'
<1> USE DEF TypeOK
<1>p. pass \in PassType  BY DEF PassType
<1>c. pass.snap \in [Contributors -> Contributor]  BY <1>p DEF PassType
<1>1. CASE StartPass
  <2>1. pass' \in PassType
    <3>1. Releasing(cache) \in SUBSET Contributors  BY DEF Releasing
    <3> QED  BY <1>1, <3>1, ApplyLoopType, IdlePassType, InLoopType, NoStatesType
             DEF StartPass
  <2> QED  BY <1>1, <2>1 DEF StartPass, PassType
<1>2. CASE WriteStatus
  BY <1>2, <1>p, IdlePassType DEF WriteStatus, PassType
<1>3. CASE AbortPass
  BY <1>3, IdlePassType, ArbitrationAssumption DEF AbortPass, Disturb, PassType
<1>4. ASSUME NEW c \in Contributors, Release(c) PROVE TypeOK'
  <2>1. pass' \in PassType
    <3>1. CASE pass.todo = {c}
      BY <1>4, <3>1, <1>c, ApplyLoopType DEF Release
    <3>2. CASE pass.todo # {c}
      BY <1>4, <3>2, <1>p DEF Release, PassType
    <3> QED  BY <3>1, <3>2
  <2> QED  BY <1>4, <2>1, ApplyFieldsType, NothingType DEF Release, PassType
<1>5. ASSUME NEW c \in Contributors, Supersede(c) PROVE TypeOK'
  <2>1. pass' \in PassType  BY <1>5, VisitedType DEF Supersede, States
  <2> QED  BY <1>5, <2>1 DEF Supersede, PassType
<1>6. ASSUME NEW c \in Contributors, Apply(c) PROVE TypeOK'
  <2>1. pass' \in PassType
    <3>1. CASE pass' = [pass EXCEPT !.pc = "force"]
      BY <3>1, <1>p DEF PassType
    <3>2. CASE Visited(c, "Applied") \/ Visited(c, "Conflicted")
      BY <3>2, VisitedType DEF States
    <3> QED  BY <1>6, <3>1, <3>2 DEF Apply
  <2>2. field' \in [Paths -> Field] /\ due' \in BOOLEAN
    BY <1>6, <1>c, ClaimType, ApplyFieldsType DEF Apply
  <2> QED  BY <1>6, <2>1, <2>2 DEF Apply, PassType
<1>7. ASSUME NEW c \in Contributors, ForceApply(c) PROVE TypeOK'
  <2>1. pass' \in PassType  BY <1>7, VisitedType DEF ForceApply, States
  <2>2. field' \in [Paths -> Field] /\ due' \in BOOLEAN
    BY <1>7, <1>c, ClaimType, ApplyFieldsType DEF ForceApply
  <2> QED  BY <1>7, <2>1, <2>2 DEF ForceApply, PassType
<1>8. ASSUME NEW c \in Contributors, Create(c) PROVE TypeOK'
  BY <1>8, SpecType DEF Create, Contributor, Phases
<1>9. ASSUME NEW c \in Contributors, Change(c) PROVE TypeOK'
  <2>1. PICK s \in Specs[c] : obj' = [obj EXCEPT ![c].spec = s]  BY <1>9 DEF Change
  <2>2. obj' \in [Contributors -> Contributor]
    BY <2>1, SpecType DEF Contributor
  <2>3. disturbed' \in 0..MaxDisturbed
    BY <1>9, ArbitrationAssumption DEF Change, Disturb
  <2> QED  BY <1>9, <2>2, <2>3 DEF Change
<1>10. ASSUME NEW c \in Contributors, Delete(c) \/ Go(c) PROVE TypeOK'
  <2>1. obj' \in [Contributors -> Contributor]
    <3>1. CASE Delete(c)  BY <3>1 DEF Delete, Contributor, Phases
    <3>2. CASE Go(c)  BY <3>2 DEF Go, Contributor, Phases
    <3> QED  BY <1>10, <3>1, <3>2
  <2> QED  BY <1>10, <2>1 DEF Delete, Go
<1>11. ASSUME NEW c \in Contributors, Event(c) PROVE TypeOK'
  BY <1>11 DEF Event
<1>12. ASSUME NEW p \in Paths, ForeignWrite(p) PROVE TypeOK'
  <2>1. AppliedField(Foreign, ForeignClaim, p) \in Field
    BY AppliedFieldType, ArbitrationAssumption
  <2> QED  BY <1>12, <2>1 DEF ForeignWrite
<1>13. CASE UNCHANGED vars
  BY <1>13 DEF vars
<1> QED
  BY <1>1, <1>2, <1>3, <1>4, <1>5, <1>6, <1>7, <1>8, <1>9, <1>10, <1>11, <1>12, <1>13
  DEF Next, PassStep

\* Every variable keeps its type, for all specs users may write and all a
\* foreign controller may do.
THEOREM ArbitrationTypes == Spec => []TypeOK
  <1>1. Init => TypeOK  BY InitType
  <1>2. TypeOK /\ [Next]_vars => TypeOK'  BY NextType
  <1> QED  BY <1>1, <1>2, PTL DEF Spec

-----------------------------------------------------------------------------
(* The status is true at rest *)

LEMMA TruthStays ==
  ASSUME NEW c \in Contributors, UNCHANGED <<field, cache>>
  PROVE  /\ Holds(c, cache[c].spec.claim)' <=> Holds(c, cache[c].spec.claim)
         /\ IsSuperseded(cache, c)' <=> IsSuperseded(cache, c)
         /\ Blocked(c, cache[c].spec)' <=> Blocked(c, cache[c].spec)
  <1>1. Holds(c, cache[c].spec.claim)' <=> Holds(c, cache[c].spec.claim)
    BY DEF Holds
  <1>2. IsSuperseded(cache, c)' <=> IsSuperseded(cache, c)
    BY DEF IsSuperseded, Contested, Active, Wants
  <1>3. Blocked(c, cache[c].spec)' <=> Blocked(c, cache[c].spec)
    BY DEF Blocked, ConflictingManagers
  <1> QED  BY <1>1, <1>2, <1>3

LEMMA ActiveStays == UNCHANGED cache => Active(cache)' = Active(cache)
  BY DEF Active

LEMMA AppliedAsWanted ==
  ASSUME NEW c, NEW claim, NEW p, claim[p] # NoValue
  PROVE  /\ AppliedField(c, claim, p).val = claim[p]
         /\ c \in AppliedField(c, claim, p).mgrs
  BY DEF AppliedField

LEMMA Undisturbed ==
  ASSUME due \in BOOLEAN, NEW m, NEW claim, ApplyFields(m, claim), ~due'
  PROVE  ~due /\ field' = field
  BY DEF ApplyFields

\* A visit extends the judgement of a pass by one contributor.
LEMMA VisitSound ==
  ASSUME IInv, NEW c \in Contributors, NEW s \in States, Visited(c, s),
         pass.pc \in {"apply", "force"}, UNCHANGED cache,
         ~due' => ~due /\ field' = field /\ Judged(c, s)'
  PROVE  PassSound' /\ RestSound'
  <1>1. pass' = [pc |-> IF pass.todo \ {c} = {} THEN "status" ELSE "apply",
                 snap |-> pass.snap, todo |-> pass.todo \ {c},
                 out |-> [pass.out EXCEPT ![c] = s]]
    BY DEF Visited, InLoop
  <1>2. pass.out \in [Contributors -> States]  BY DEF IInv, TypeOK
  <1>3. RestSound'  BY <1>1 DEF RestSound
  <1>4. ASSUME ~due'
        PROVE  /\ pass'.snap = cache'
               /\ \A d \in Active(cache)' \ pass'.todo : Judged(d, pass.out[d])'
               /\ pass'.pc = "status" => pass'.todo = {}
    <2>1. ~due /\ UNCHANGED <<field, cache>> /\ Judged(c, s)'  BY <1>4
    <2>2. /\ pass.snap = cache
          /\ \A d \in Active(cache) \ pass.todo : Judged(d, pass.out[d])
      BY <2>1 DEF IInv, PassSound
    <2>3. ASSUME NEW d \in Active(cache)' \ pass'.todo
          PROVE  Judged(d, pass.out[d])'
      <3>1. d \in Active(cache) /\ d \in Contributors  BY ActiveStays DEF Active
      <3>2. CASE d = c
        <4>1. pass'.out[d] = s  BY <3>2, <1>1, <1>2
        <4> QED  BY <4>1, <3>2, <2>1 DEF Judged
      <3>3. CASE d # c
        <4>1. Judged(d, pass.out[d])  BY <3>1, <3>3, <1>1, <2>2
        <4>2. pass'.out[d] = pass.out[d]  BY <3>1, <3>3, <1>1, <1>2
        <4> QED  BY <4>1, <4>2, <2>1, <3>1, TruthStays DEF Judged
      <3> QED  BY <3>2, <3>3
    <2> QED  BY <1>1, <2>1, <2>2, <2>3
  <1> QED  BY <1>3, <1>4 DEF PassSound

LEMMA LoopStart ==
  ASSUME NEW snap
  PROVE  /\ ApplyLoop(snap).pc \in {"apply", "status"}
         /\ ApplyLoop(snap).snap = snap
         /\ ApplyLoop(snap).todo = Active(snap)
         /\ ApplyLoop(snap).pc = "status" => ApplyLoop(snap).todo = {}
  BY DEF ApplyLoop, InLoop

LEMMA SoundnessKept ==
  ASSUME IInv, [Next]_vars
  PROVE  PassSound' /\ RestSound'
<1>t. due \in BOOLEAN /\ field \in [Paths -> Field]
      /\ pass.snap \in [Contributors -> Contributor]
  BY DEF IInv, TypeOK
<1>0. ASSUME due' PROVE PassSound' /\ RestSound'
  BY <1>0 DEF PassSound, RestSound
<1>1. CASE StartPass
  <2>1. CASE Active(cache) \cup Releasing(cache) = {}
    <3>1. pass'.pc = "idle" /\ Active(cache)' = {}
      BY <1>1, <2>1, ActiveStays DEF StartPass, IdlePass
    <3> QED  BY <3>1 DEF PassSound, RestSound
  <2>2. CASE Active(cache) \cup Releasing(cache) # {} /\ Releasing(cache) = {}
    <3>1. pass' = ApplyLoop(cache) /\ UNCHANGED cache  BY <1>1, <2>2 DEF StartPass
    <3> QED  BY <3>1, LoopStart, ActiveStays DEF PassSound, RestSound
  <2>3. CASE Releasing(cache) # {}
    <3>1. /\ pass'.pc = "release" /\ pass'.snap = cache
          /\ UNCHANGED cache
      BY <1>1, <2>3 DEF StartPass, InLoop
    <3> QED  BY <3>1 DEF PassSound, RestSound
  <2> QED  BY <2>1, <2>2, <2>3
<1>2. CASE WriteStatus
  <2>1. pass'.pc = "idle" /\ state' = pass.out /\ UNCHANGED <<cache, field, due>>
    BY <1>2 DEF WriteStatus, IdlePass
  <2>2. ASSUME ~due, NEW c \in Active(cache)'  PROVE Judged(c, state[c])'
    <3>1. c \in Active(cache) /\ c \in Contributors  BY <2>1, ActiveStays DEF Active
    <3>2. Judged(c, pass.out[c])
      BY <1>2, <2>2, <3>1 DEF WriteStatus, IInv, PassSound
    <3> QED  BY <2>1, <3>1, <3>2, TruthStays DEF Judged
  <2> QED  BY <2>1, <2>2 DEF PassSound, RestSound
<1>3. CASE AbortPass
  BY <1>3, <1>0 DEF AbortPass
<1>4. ASSUME NEW c \in Contributors, Release(c) PROVE PassSound' /\ RestSound'
  <2>1. UNCHANGED cache /\ pass.pc = "release"  BY <1>4 DEF Release
  <2>2. ASSUME ~due' PROVE pass.snap = cache
    BY <1>4, <1>t, <2>1, <2>2, Undisturbed DEF Release, IInv, PassSound
  <2>3. CASE pass.todo = {c}
    <3>1. pass' = ApplyLoop(pass.snap)  BY <1>4, <2>3 DEF Release
    <3> QED  BY <3>1, <2>1, <2>2, LoopStart, ActiveStays DEF PassSound, RestSound
  <2>4. CASE pass.todo # {c}
    <3>1. pass'.pc = "release" /\ pass'.snap = pass.snap
      BY <1>4, <2>1, <2>4 DEF Release, IInv, TypeOK
    <3> QED  BY <3>1, <2>1, <2>2 DEF PassSound, RestSound
  <2> QED  BY <2>3, <2>4
<1>5. ASSUME NEW c \in Contributors, Supersede(c) PROVE PassSound' /\ RestSound'
  <2>1. ASSUME ~due' PROVE ~due /\ field' = field /\ Judged(c, "Superseded")'
    <3>1. ~due /\ UNCHANGED <<field, cache>> /\ IsSuperseded(pass.snap, c)
      BY <1>5, <2>1 DEF Supersede
    <3>2. pass.snap = cache  BY <1>5, <3>1 DEF Supersede, IInv, PassSound
    <3> QED  BY <3>1, <3>2, TruthStays DEF Judged
  <2> QED  BY <1>5, <2>1, VisitSound DEF Supersede, States
<1>6. ASSUME NEW c \in Contributors, ApplyFields(c, pass.snap[c].spec.claim),
             Visited(c, "Applied"), pass.pc \in {"apply", "force"}, UNCHANGED cache
      PROVE  PassSound' /\ RestSound'
  <2>1. ASSUME ~due' PROVE ~due /\ field' = field /\ Judged(c, "Applied")'
    <3>1. ~due /\ field' = field  BY <1>6, <1>t, <2>1, Undisturbed
    <3>2. pass.snap = cache  BY <1>6, <3>1 DEF IInv, PassSound
    <3>3. Holds(c, pass.snap[c].spec.claim)
      <4>1. \A p \in Paths : field[p] = AppliedField(c, pass.snap[c].spec.claim, p)
        BY <1>6, <3>1 DEF ApplyFields
      <4>2. ASSUME NEW p \in Paths, pass.snap[c].spec.claim[p] # NoValue
            PROVE  /\ field[p].val = pass.snap[c].spec.claim[p]
                   /\ c \in field[p].mgrs
        BY <4>1, <4>2, AppliedAsWanted
      <4> QED  BY <4>2 DEF Holds
    <3> QED  BY <1>6, <3>1, <3>2, <3>3, TruthStays DEF Judged
  <2> QED  BY <1>6, <2>1, VisitSound DEF States
<1>7. ASSUME NEW c \in Contributors, Apply(c) PROVE PassSound' /\ RestSound'
  <2> DEFINE spec == pass.snap[c].spec
             ms == ConflictingManagers(c, spec.claim)
  <2>1. CASE ApplyFields(c, spec.claim) /\ Visited(c, "Applied")
    BY <1>6, <1>7, <2>1 DEF Apply
  <2>2. CASE pass' = [pass EXCEPT !.pc = "force"] /\ UNCHANGED <<field, due>>
    <3>1. /\ pass'.pc = "force" /\ pass'.snap = pass.snap
          /\ pass'.todo = pass.todo /\ pass'.out = pass.out
      BY <2>2 DEF IInv, TypeOK
    <3>2. pass.pc = "apply" /\ UNCHANGED <<field, due, cache>>  BY <1>7, <2>2 DEF Apply
    <3>3. ASSUME ~due, NEW d \in Active(cache)' \ pass'.todo
          PROVE  Judged(d, pass.out[d])'
      <4>1. d \in Active(cache) \ pass.todo /\ d \in Contributors
        BY <3>1, <3>2, <3>3, ActiveStays DEF Active
      <4>2. Judged(d, pass.out[d])  BY <4>1, <3>2, <3>3 DEF IInv, PassSound
      <4> QED  BY <4>1, <4>2, <3>1, <3>2, TruthStays DEF Judged
    <3> QED  BY <3>1, <3>2, <3>3 DEF IInv, PassSound, RestSound
  <2>3. CASE /\ Visited(c, "Conflicted") /\ UNCHANGED <<field, due>>
             /\ spec.policy # "Force" /\ ms # {} /\ ~MayForce(spec.policy, ms)
    <3>1. ASSUME ~due' PROVE ~due /\ field' = field /\ Judged(c, "Conflicted")'
      <4>1. ~due /\ UNCHANGED <<field, cache>>  BY <1>7, <2>3, <3>1 DEF Apply
      <4>2. pass.snap = cache  BY <1>7, <4>1 DEF Apply, IInv, PassSound
      <4>3. Blocked(c, spec)
        BY <2>3 DEF Blocked, MayForce, AllOurs, ConflictingManagers
      <4> QED  BY <4>1, <4>2, <4>3, TruthStays DEF Judged
    <3> QED  BY <1>7, <2>3, <3>1, VisitSound DEF Apply, States
  <2> QED  BY <1>7, <2>1, <2>2, <2>3 DEF Apply
<1>8. ASSUME NEW c \in Contributors, ForceApply(c) PROVE PassSound' /\ RestSound'
  BY <1>6, <1>8 DEF ForceApply
<1>9. ASSUME UNCHANGED <<cache, field, state, pass, due>>
      PROVE  PassSound' /\ RestSound'
  <2>1. PassSound'
    <3> SUFFICES ASSUME pass.pc # "idle", ~due
                 PROVE  /\ pass.snap = cache
                        /\ pass.pc # "release" =>
                             \A c \in Active(cache)' \ pass.todo : Judged(c, pass.out[c])'
                        /\ pass.pc = "status" => pass.todo = {}
      BY <1>9 DEF PassSound
    <3>1. ASSUME pass.pc # "release", NEW c \in Active(cache)' \ pass.todo
          PROVE  Judged(c, pass.out[c])'
      <4>1. c \in Active(cache) \ pass.todo /\ c \in Contributors
        BY <1>9, ActiveStays, <3>1 DEF Active
      <4>2. Judged(c, pass.out[c])  BY <3>1, <4>1 DEF IInv, PassSound
      <4> QED  BY <1>9, <4>1, <4>2, TruthStays DEF Judged
    <3> QED  BY <3>1 DEF IInv, PassSound
  <2>2. RestSound'
    <3> SUFFICES ASSUME pass.pc = "idle", ~due, NEW c \in Active(cache)'
                 PROVE  Judged(c, state[c])'
      BY <1>9 DEF RestSound
    <3>1. c \in Active(cache) /\ c \in Contributors  BY <1>9, ActiveStays DEF Active
    <3>2. Judged(c, state[c])  BY <3>1 DEF IInv, RestSound
    <3> QED  BY <1>9, <3>1, <3>2, TruthStays DEF Judged
  <2> QED  BY <2>1, <2>2
<1>10. ASSUME NEW c \in Contributors, Create(c) \/ Change(c) \/ Delete(c) \/ Go(c)
       PROVE  PassSound' /\ RestSound'
  BY <1>9, <1>10 DEF Create, Change, Delete, Go
<1>11. ASSUME NEW c \in Contributors, Event(c) PROVE PassSound' /\ RestSound'
  BY <1>0, <1>11 DEF Event
<1>12. ASSUME NEW p \in Paths, ForeignWrite(p) PROVE PassSound' /\ RestSound'
  BY <1>0, <1>12 DEF ForeignWrite
<1>13. CASE UNCHANGED vars
  BY <1>9, <1>13 DEF vars
<1> QED
  BY <1>1, <1>2, <1>3, <1>4, <1>5, <1>7, <1>8, <1>10, <1>11, <1>12, <1>13
  DEF Next, PassStep

LEMMA SoundAtFirst == Init => PassSound /\ RestSound
  BY DEF Init, IdlePass, PassSound, RestSound, Active, NoContributors

LEMMA SoundIsTrue == IInv => StatusIsTrue
  <1> SUFFICES ASSUME IInv, Quiet, NEW c \in Contributors, obj[c].phase = "live"
               PROVE  \/ state[c] = "Applied" /\ Holds(c, obj[c].spec.claim)
                      \/ state[c] = "Superseded" /\ OutrankedOnAField(c)
                      \/ state[c] = "Conflicted" /\ Blocked(c, obj[c].spec)
    BY DEF StatusIsTrue
  <1>1. cache = obj /\ c \in Active(cache)  BY DEF Quiet, Active
  <1>2. Judged(c, state[c])  BY <1>1 DEF IInv, RestSound, Quiet
  <1>3. IsSuperseded(cache, c) => OutrankedOnAField(c)
    BY <1>1 DEF IsSuperseded, OutrankedOnAField, Active, Wants
  <1> QED  BY <1>1, <1>2, <1>3 DEF Judged

\* At rest, what the tracker's status says of each contributor is true of the
\* target, for any number of contributors and paths, any priorities and policies,
\* and whatever a foreign controller wrote between the calls of a pass.
THEOREM StatusTruth == Spec => []StatusIsTrue
  <1>1. Init => IInv  BY InitType, SoundAtFirst DEF IInv
  <1>2. IInv /\ [Next]_vars => IInv'
    <2> SUFFICES ASSUME IInv, [Next]_vars PROVE IInv'  OBVIOUS
    <2>1. TypeOK'  BY NextType DEF IInv
    <2> QED  BY <2>1, SoundnessKept DEF IInv
  <1>3. IInv => StatusIsTrue  BY SoundIsTrue
  <1> QED  BY <1>1, <1>2, <1>3, PTL DEF Spec

=============================================================================
