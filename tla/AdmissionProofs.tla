--------------------------- MODULE AdmissionProofs ---------------------------
(***************************************************************************)
(* Proofs about Admission: whose identity is on record, where a            *)
(* ResourcePatch may be registered, and what its author may write, for all *)
(* contributors, specs, users and rights.                                  *)
(***************************************************************************)
EXTENDS Admission, TLAPS

\* The set of the contributors' records.
Objects ==
    [phase : {"absent", "live", "terminating"}, spec : AllSpecs \cup {None},
     fin : BOOLEAN, recorded : Users \cup {None},
     verdict : {"none", "true", "false"}, recent : BOOLEAN, keys : SUBSET Keys]

\* The record of an absent contributor is a record.
LEMMA AbsentIsObject == Absent \in Objects
BY DEF Absent, Objects

\* What a request records is a user: the sender, or the identity that is sent.
LEMMA RecordedType ==
    ASSUME NEW u \in Users, NEW c \in Contributors, NEW s, NEW sent \in Users \cup {None}
    PROVE  Recorded(u, c, s, sent) \in Users
BY DEF Recorded, ShouldRecord

\* The cluster-scoped kinds that specs name are installed before the operator runs.
ClusterKindsKnown ==
    \A c \in Contributors : \A s \in Specs[c] : s.kind \in ClusterKinds => s.kind \in Mapped

\* The part of the invariant that is about one contributor: types, the identity on
\* record, containment.  kp says whether updates have sent the identity along.
Good(c, o, a, kp) ==
    /\ o \in Objects
    /\ o.phase # "absent" => o.spec \in AllSpecs
    /\ a \in Users \cup {None}
    /\ kp \in BOOLEAN
    /\ a # None /\ kp => o.recorded = a
    /\ a # None \/ o.fin \/ o.keys # {} => o.recorded # None
    /\ ClusterKindsKnown /\ ~IsClusterScoped(c) =>
           \A k \in o.keys : k.ns = Namespace[c] /\ k.kind \notin ClusterKinds

\* The invariant that is inductive.
IInv ==
    /\ TypeOK
    /\ \A c \in Contributors : Good(c, obj[c], author[c], kept[c])

\* A step that changes one contributor, and leaves it good, keeps the invariant.
LEMMA OneChanges ==
    ASSUME IInv, NEW c \in Contributors, NEW o, NEW a, NEW kp, Good(c, o, a, kp),
           obj' = [obj EXCEPT ![c] = o], author' = [author EXCEPT ![c] = a],
           kept' = [kept EXCEPT ![c] = kp], Mapped \subseteq mapped'
    PROVE  IInv'
<1>1. \A d \in Contributors : Good(d, obj[d], author[d], kept[d])
  BY DEF IInv
<1>2. /\ obj \in [Contributors -> Objects] /\ author \in [Contributors -> Users \cup {None}]
      /\ kept \in [Contributors -> BOOLEAN]
  BY DEF IInv, TypeOK, Objects
<1>3. \A d \in Contributors : Good(d, obj'[d], author'[d], kept'[d])
  <2> SUFFICES ASSUME NEW d \in Contributors
               PROVE  Good(d, obj'[d], author'[d], kept'[d])
    OBVIOUS
  <2>1. CASE d = c
    BY <1>2, <2>1
  <2>2. CASE d # c
    <3>1. obj'[d] = obj[d] /\ author'[d] = author[d] /\ kept'[d] = kept[d]
      BY <1>2, <2>2
    <3> QED BY <1>1, <3>1
  <2> QED BY <2>1, <2>2
<1>4. /\ obj' \in [Contributors -> Objects] /\ author' \in [Contributors -> Users \cup {None}]
      /\ kept' \in [Contributors -> BOOLEAN]
  BY <1>2 DEF Good
<1>5. \A d \in Contributors : obj'[d].phase # "absent" => obj'[d].spec \in AllSpecs
  BY <1>3 DEF Good
<1>6. TypeOK'
  BY <1>4, <1>5 DEF TypeOK, Objects
<1>7. (\A d \in Contributors : Good(d, obj[d], author[d], kept[d]))'
  BY <1>3 DEF Good
<1> QED BY <1>6, <1>7 DEF IInv

\* What a valid ResourcePatch's targets resolve to lies in its namespace.
LEMMA TargetsAreContained ==
    ASSUME ClusterKindsKnown, Mapped \subseteq mapped,
           NEW c \in Contributors, NEW s \in AllSpecs, ~IsClusterScoped(c), Validate(c, s)
    PROVE  \A k \in Targets(c, s) : k.ns = Namespace[c] /\ k.kind \notin ClusterKinds
<1>1. s.kind \notin ClusterKinds
  BY DEF ClusterKindsKnown, AllSpecs, Validate, ValidNamespaced, IsClusterKind
<1> QED BY <1>1 DEF Targets, Selected, TargetKeyFor, ResolveTargetNamespace

\* The invariant holds at first.
LEMMA InitIInv == Init => IInv
<1> SUFFICES ASSUME Init PROVE IInv
  OBVIOUS
<1>1. \A c \in Contributors : obj[c] = Absent \/ \E s \in AllSpecs : obj[c] = Older(s)
  <2> TAKE c \in Contributors
  <2>1. obj[c] \in {Absent} \cup {Older(s) : s \in UNION {Specs[d] : d \in Predating}}
    BY DEF Init
  <2>2. CASE obj[c] # Absent
    <3>1. obj[c].spec \in Specs[c]
      BY <2>2 DEF Init
    <3>2. PICK s : obj[c] = Older(s)
      BY <2>1, <2>2
    <3>3. obj[c].spec = s
      BY <3>2 DEF Older, Absent
    <3> QED BY <3>1, <3>2, <3>3 DEF AllSpecs
  <2> QED BY <2>2
<1>2. \A c \in Contributors : Good(c, obj[c], None, TRUE)
  <2> TAKE c \in Contributors
  <2>1. CASE obj[c] = Absent
    BY <2>1, AbsentIsObject DEF Good, Absent
  <2>2. ASSUME NEW s \in AllSpecs, obj[c] = Older(s)
        PROVE  Good(c, obj[c], None, TRUE)
    BY <2>2 DEF Good, Older, Absent, Objects
  <2> QED BY <1>1, <2>1, <2>2
<1>3. \A c \in Contributors : author[c] = None /\ kept[c] = TRUE
  BY DEF Init
<1>4. TypeOK
  <2>1. obj \in [Contributors -> Objects]
    <3>1. \A c \in Contributors : obj[c] \in Objects
      BY <1>2 DEF Good
    <3> QED BY <3>1 DEF Init
  <2>2. \A c \in Contributors : obj[c].phase # "absent" => obj[c].spec \in AllSpecs
    BY <1>2 DEF Good
  <2> QED BY <2>1, <2>2 DEF Init, TypeOK, Objects
<1> QED BY <1>2, <1>3, <1>4 DEF IInv

\* Every step keeps the invariant.
LEMMA StepIInv == IInv /\ [Next]_vars => IInv'
<1> SUFFICES ASSUME IInv, [Next]_vars PROVE IInv'
  OBVIOUS
<1>t. /\ obj \in [Contributors -> Objects] /\ author \in [Contributors -> Users \cup {None}]
      /\ kept \in [Contributors -> BOOLEAN] /\ Mapped \subseteq mapped
  BY DEF IInv, TypeOK, Objects
<1>g. \A c \in Contributors : Good(c, obj[c], author[c], kept[c])
  BY DEF IInv
<1>k. ASSUME NEW c \in Contributors, UNCHANGED kept PROVE kept' = [kept EXCEPT ![c] = kept[c]]
  BY <1>t, <1>k
<1>1. ASSUME NEW c \in Contributors, NEW u \in Users, NEW s \in Specs[c], Create(u, c, s)
      PROVE  IInv'
  <2> DEFINE o == [Absent EXCEPT !.phase = "live", !.spec = s,
                                 !.recorded = Recorded(u, c, s, None)]
  <2>1. Recorded(u, c, s, None) = u
    BY DEF Recorded, ShouldRecord
  <2>2. Good(c, o, u, TRUE)
    BY <2>1, NoneAssumption DEF Good, Absent, Objects, AllSpecs
  <2>3. /\ obj' = [obj EXCEPT ![c] = o] /\ author' = [author EXCEPT ![c] = u]
        /\ kept' = [kept EXCEPT ![c] = TRUE] /\ Mapped \subseteq mapped'
    BY <1>1, <1>t DEF Create, Request
  <2> QED BY <2>2, <2>3, OneChanges
<1>2. ASSUME NEW c \in Contributors, NEW u \in Users, NEW s \in Specs[c],
             NEW sent \in Users \cup {None}, Update(u, c, s, sent)
      PROVE  IInv'
  <2> DEFINE r == Recorded(u, c, s, sent)
             o == [obj[c] EXCEPT !.spec = s, !.recorded = r]
             same == s = obj[c].spec
             a == IF same THEN author[c] ELSE u
             kp == IF same THEN kept[c] /\ sent = obj[c].recorded ELSE TRUE
  <2>1. a # None /\ kp => r = a
    BY <1>2, <1>g DEF Good, Recorded, ShouldRecord, Update
  <2>2. r \in Users /\ r # None /\ a \in Users \cup {None} /\ kp \in BOOLEAN
    <3>1. kp \in BOOLEAN
      <4>1. kept[c] \in BOOLEAN
        BY <1>t
      <4> QED BY <4>1, Zenon
    <3>2. r \in Users /\ r # None
      BY RecordedType, NoneAssumption
    <3>3. a \in Users \cup {None}
      BY <1>t
    <3> QED BY <3>1, <3>2, <3>3
  <2>3. obj[c] \in Objects /\ s \in AllSpecs
    BY <1>t DEF AllSpecs
  <2>4. o \in Objects /\ o.recorded = r /\ o.keys = obj[c].keys /\ o.spec = s
    <3> HIDE DEF r
    <3> QED BY <2>2, <2>3 DEF Objects
  <2>5. Good(c, o, a, kp)
    <3> HIDE DEF o, a, kp, r
    <3> QED BY <1>g, <2>1, <2>2, <2>3, <2>4 DEF Good
  <2>6. /\ obj' = [obj EXCEPT ![c] = o] /\ author' = [author EXCEPT ![c] = a]
        /\ kept' = [kept EXCEPT ![c] = kp] /\ Mapped \subseteq mapped'
    BY <1>2, <1>t DEF Update, Request
  <2> QED BY <2>5, <2>6, OneChanges
<1>3. ASSUME NEW c \in Contributors, NEW u \in Users, Delete(u, c)
      PROVE  IInv'
  <2> DEFINE o == IF obj[c].fin THEN [obj[c] EXCEPT !.phase = "terminating"] ELSE Absent
             a == IF obj[c].fin THEN author[c] ELSE None
  <2>1. Good(c, o, a, kept[c])
    <3>1. CASE obj[c].fin
      <4>1. obj[c] \in Objects /\ obj[c].spec \in AllSpecs
        BY <1>t, <1>g, <1>3 DEF Delete, Good
      <4> QED BY <1>g, <3>1, <4>1 DEF Good, Objects
    <3>2. CASE ~obj[c].fin
      BY <3>2, <1>t, AbsentIsObject DEF Good, Absent
    <3> QED BY <3>1, <3>2
  <2>2. /\ obj' = [obj EXCEPT ![c] = o] /\ author' = [author EXCEPT ![c] = a]
        /\ kept' = [kept EXCEPT ![c] = kept[c]] /\ Mapped \subseteq mapped'
    BY <1>3, <1>t DEF Delete, Request
  <2> QED BY <2>1, <2>2, OneChanges
<1>4. ASSUME NEW c \in Contributors, Reconcile(c)
      PROVE  IInv'
  <2>a. author' = [author EXCEPT ![c] = IF obj[c].phase = "terminating" THEN None ELSE author[c]]
    BY <1>4, <1>t DEF Reconcile
  <2>k. kept' = [kept EXCEPT ![c] = kept[c]] /\ Mapped \subseteq mapped'
    BY <1>4, <1>t DEF Reconcile
  <2>o. obj[c] \in Objects /\ Good(c, obj[c], author[c], kept[c])
    BY <1>t, <1>g
  <2>1. CASE AddFinalizer(c)
    <3> DEFINE r == Recorded(Operator, c, obj[c].spec, obj[c].recorded)
               o == [obj[c] EXCEPT !.fin = TRUE, !.recorded = r]
    <3>1. author[c] # None /\ kept[c] => r = author[c]
      BY <2>1, <2>o DEF Good, Recorded, ShouldRecord, AddFinalizer
    <3>2. r \in Users /\ r # None
      <4>1. obj[c].recorded \in Users \cup {None}
        BY <2>o DEF Objects
      <4> QED BY <4>1, RecordedType, OperatorAssumption, NoneAssumption
    <3>3. o \in Objects /\ o.recorded = r /\ o.keys = obj[c].keys
             /\ o.spec = obj[c].spec /\ o.phase = obj[c].phase
      <4> HIDE DEF r
      <4> QED BY <2>o, <3>2 DEF Objects
    <3>4. Good(c, o, author[c], kept[c])
      <4> HIDE DEF o, r
      <4> QED BY <2>o, <3>1, <3>2, <3>3 DEF Good
    <3>5. obj' = [obj EXCEPT ![c] = o] /\ author' = [author EXCEPT ![c] = author[c]]
      BY <2>1, <2>a DEF AddFinalizer, UpdateFinalizer
    <3> QED BY <3>4, <3>5, <2>k, OneChanges
  <2>2. CASE DropFinalizer(c)
    <3>1. Good(c, Absent, None, kept[c])
      BY AbsentIsObject, <2>o DEF Good, Absent
    <3>2. obj' = [obj EXCEPT ![c] = Absent] /\ author' = [author EXCEPT ![c] = None]
      BY <2>2, <2>a DEF DropFinalizer, UpdateFinalizer
    <3> QED BY <3>1, <3>2, <2>k, OneChanges
  <2>3. CASE SetInvalid(c)
    <3>1. obj' = [obj EXCEPT ![c] = obj[c]] /\ author' = [author EXCEPT ![c] = author[c]]
      BY <2>3, <2>a, <1>t DEF SetInvalid
    <3> QED BY <2>o, <3>1, <2>k, OneChanges
  <2>4. CASE Register(c)
    <3> DEFINE s == obj[c].spec
               v == Verdict(c)
               ks == IF Resolvable(c, s) THEN Targets(c, s) ELSE obj[c].keys
               o == [obj[c] EXCEPT !.verdict = v,
                        !.recent = obj[c].recorded # None /\ v = "true", !.keys = ks]
    <3>1. s \in AllSpecs
      BY <2>4, <2>o DEF Register, Good
    <3>2. v \in {"none", "true", "false"}
      BY <2>o DEF Verdict, Objects
    <3>3. ks \in SUBSET Keys
      BY <2>o, <3>1 DEF Objects, Keys
    <3>4. ClusterKindsKnown /\ ~IsClusterScoped(c) =>
              \A k \in ks : k.ns = Namespace[c] /\ k.kind \notin ClusterKinds
      BY <2>4, <2>o, <3>1, <1>t, TargetsAreContained DEF Good, Register
    <3>5. o \in Objects /\ o.recorded = obj[c].recorded /\ o.keys = ks
             /\ o.spec = obj[c].spec /\ o.phase = obj[c].phase /\ o.fin = obj[c].fin
      <4> HIDE DEF v, ks
      <4> QED BY <2>o, <3>2, <3>3 DEF Objects
    <3>6. Good(c, o, author[c], kept[c])
      <4> HIDE DEF o, ks
      <4>1. obj[c].fin /\ obj[c].recorded # None
        BY <2>4, <2>o DEF Register, Good
      <4> QED BY <2>o, <3>4, <3>5, <4>1 DEF Good
    <3>7. obj' = [obj EXCEPT ![c] = o] /\ author' = [author EXCEPT ![c] = author[c]]
      BY <2>4, <2>a, <1>t DEF Register
    <3> QED BY <3>6, <3>7, <2>k, OneChanges
  <2> QED BY <1>4, <2>1, <2>2, <2>3, <2>4 DEF Reconcile
<1>5. ASSUME NEW c \in Contributors, Expire(c)
      PROVE  IInv'
  <2> DEFINE o == [obj[c] EXCEPT !.recent = FALSE]
  <2>1. Good(c, o, author[c], kept[c])
    BY <1>g, <1>t DEF Good, Objects
  <2>2. obj' = [obj EXCEPT ![c] = o] /\ author' = [author EXCEPT ![c] = author[c]]
    BY <1>5, <1>t DEF Expire
  <2>3. kept' = [kept EXCEPT ![c] = kept[c]] /\ Mapped \subseteq mapped'
    BY <1>5, <1>t DEF Expire
  <2> QED BY <2>1, <2>2, <2>3, OneChanges
<1>6. ASSUME UNCHANGED <<obj, author, kept>>, Mapped \subseteq mapped'
      PROVE  IInv'
  <2>1. (\A c \in Contributors : Good(c, obj[c], author[c], kept[c]))'
    BY <1>6, <1>g DEF Good
  <2> QED BY <1>6, <2>1 DEF IInv, TypeOK
<1>7. ASSUME NEW k, InstallKind(k) PROVE IInv'
  BY <1>6, <1>7, <1>t DEF InstallKind
<1>8. ASSUME NEW u, NEW g, ChangeRights(u, g) PROVE IInv'
  BY <1>6, <1>8, <1>t DEF ChangeRights
<1>9. CASE UNCHANGED vars
  BY <1>6, <1>9, <1>t DEF vars
<1> QED BY <1>1, <1>2, <1>3, <1>4, <1>5, <1>7, <1>8, <1>9 DEF Next

\* The invariant always holds.
LEMMA IInvAlways == Spec => []IInv
BY InitIInv, StepIInv, PTL DEF Spec

\* The identity on record is that of the user who last gave the spec, as long as
\* updates that leave the spec alone send the identity they found: the operator's
\* finalizer updates always do.
THEOREM IdentityIsKept == Spec => []RecordedIsAuthor
<1>1. IInv => RecordedIsAuthor
  BY DEF IInv, Good, RecordedIsAuthor
<1> QED BY <1>1, IInvAlways, PTL

\* Whatever identities are sent, a contributor that admission has seen, or that is
\* registered, has one on record: the re-check cannot be turned off.
THEOREM RecheckIsPossible == Spec => []AlwaysRecheckable
<1>1. IInv => AlwaysRecheckable
  BY DEF IInv, Good, AlwaysRecheckable
<1> QED BY <1>1, IInvAlways, PTL

\* A ResourcePatch is only ever registered for objects of its own namespace, with
\* any spec, admitted or not, provided that no cluster-scoped kind that a spec names
\* is installed late.
THEOREM ContainmentHolds ==
    ASSUME ClusterKindsKnown
    PROVE  Spec => []Contained
<1>1. IInv => Contained
  <2> SUFFICES ASSUME IInv, NEW c \in Contributors, ~IsClusterScoped(c),
                      NEW k \in obj[c].keys
               PROVE  WrittenIn(k) = Namespace[c]
    BY DEF Contained
  <2>1. k.ns = Namespace[c] /\ k.kind \notin ClusterKinds
    BY DEF IInv, Good
  <2> QED BY <2>1 DEF WrittenIn
<1> QED BY <1>1, IInvAlways, PTL

-----------------------------------------------------------------------------
(* Who gave a spec may make its writes.                                    *)

\* A selector of a ClusterResourcePatch ranges over all namespaces, whatever the
\* spec's own: admission asks about that one.
SelectorsNameNoNamespace ==
    \A c \in Contributors : IsClusterScoped(c) =>
        \A s \in Specs[c] : s.mode = "Selector" => s.ns = None

\* The writes that a spec leads to, for one of its targets.
WriteVerbs(s) ==
    {"update", "patch"} \cup (IF s.onMissing = "Create" THEN {"create"} ELSE {})
                       \cup (IF s.onRelease = "Delete" THEN {"delete"} ELSE {})

\* A user with these rights may make this write.
MayDo(granted, v, k) ==
    \E g \in granted :
        /\ g.verb = v
        /\ g.kind \in {None, k.kind}
        /\ g.ns \in {None, WrittenIn(k)}
        /\ g.name \in {None, k.name}

\* A user with these rights may make them.
MayWrite(granted, c, s) ==
    \A k \in Targets(c, s) : \A v \in WriteVerbs(s) : MayDo(granted, v, k)

\* What the bounds leave, and the property itself, are inductive together.
Granted ==
    /\ left \in [requests : Int, rights : Int]
    /\ left.rights <= MaxRightChanges
    /\ AuthorMayWrite

\* The property in those terms, now and after a step.
LEMMA GrantedNow ==
    ASSUME AuthorMayWrite, left.rights = MaxRightChanges,
           NEW c \in Contributors, author[c] # None
    PROVE  MayWrite(rights[author[c]], c, obj[c].spec)
<1> DEFINE s == obj[c].spec
<1> SUFFICES ASSUME NEW k \in Targets(c, s), NEW v \in WriteVerbs(s)
             PROVE  MayDo(rights[author[c]], v, k)
  BY DEF MayWrite
<1>1. Authorize(author[c], {[verb |-> w, kind |-> k.kind, ns |-> WrittenIn(k),
                             name |-> k.name] : w \in WriteVerbs(s)})
  BY DEF AuthorMayWrite, WriteVerbs
<1>2. Allowed(author[c], [verb |-> v, kind |-> k.kind, ns |-> WrittenIn(k),
                          name |-> k.name])
  BY <1>1 DEF Authorize
<1> QED BY <1>2 DEF Allowed, MayDo

\* To show it of the state after a step, contributor by contributor.
LEMMA GrantedNext ==
    ASSUME left' \in [requests : Int, rights : Int], left'.rights <= MaxRightChanges,
           left'.rights = MaxRightChanges =>
             \A c \in Contributors :
                author'[c] # None => MayWrite(rights'[author'[c]], c, obj'[c].spec)
    PROVE  Granted'
<1>1. AuthorMayWrite'
  BY DEF AuthorMayWrite, Authorize, Allowed, MayWrite, MayDo, WriteVerbs
<1> QED BY <1>1 DEF Granted

\* What admission asks of the user covers what the controller will resolve.
LEMMA AdmittedCovers ==
    ASSUME SelectorsNameNoNamespace, ClusterKindsKnown, Mapped \subseteq mapped,
           NEW c \in Contributors, NEW s \in Specs[c], NEW u,
           Validate(c, s), Authorize(u, ChecksForSpec(c, s))
    PROVE  MayWrite(rights[u], c, s)
<1> DEFINE ns == IF IsClusterKind(s.kind) THEN None ELSE ResolveTargetNamespace(c, s)
           name == IF s.mode = "Selector" THEN None ELSE s.name
<1> SUFFICES ASSUME NEW k \in Targets(c, s), NEW v \in WriteVerbs(s)
             PROVE  MayDo(rights[u], v, k)
  BY DEF MayWrite
<1>1. [verb |-> v, kind |-> s.kind, name |-> name, ns |-> ns] \in ChecksForSpec(c, s)
  <2>1. v \in {"update", "patch"}
            \cup (IF s.onMissing = "Create" THEN {"create"} ELSE {})
            \cup (IF s.onRelease = "Delete" THEN {"delete"} ELSE {})
    BY DEF WriteVerbs
  <2> QED BY <2>1 DEF ChecksForSpec, TargetChecks
<1>2. Allowed(u, [verb |-> v, kind |-> s.kind, name |-> name, ns |-> ns])
  BY <1>1 DEF Authorize
<1>3. s.mode \in {"Single", "Selector"}
  BY ModeAssumption
<1>4. name \in {None, k.name}
  BY <1>3 DEF Targets, TargetKeyFor
<1>5. k.kind = s.kind
  BY DEF Targets, TargetKeyFor, Selected
<1>6. ns \in {None, WrittenIn(k)}
  <2>1. CASE s.kind \in ClusterKinds
    BY <2>1 DEF ClusterKindsKnown, IsClusterKind
  <2>2. CASE s.kind \notin ClusterKinds
    <3>0. WrittenIn(k) = k.ns /\ ns = ResolveTargetNamespace(c, s)
      BY <1>5, <2>2 DEF WrittenIn, IsClusterKind
    <3>1. CASE s.mode = "Single"
      BY <3>0, <3>1 DEF Targets, TargetKeyFor
    <3>2. CASE s.mode = "Selector" /\ IsClusterScoped(c)
      BY <3>0, <3>2 DEF SelectorsNameNoNamespace, ResolveTargetNamespace
    <3>3. CASE s.mode = "Selector" /\ ~IsClusterScoped(c)
      BY <3>0, <3>3 DEF ResolveTargetNamespace, Targets, Selected
    <3> QED BY <1>3, <3>1, <3>2, <3>3
  <2> QED BY <2>1, <2>2
<1> HIDE DEF ns, name
<1> QED BY <1>2, <1>4, <1>5, <1>6 DEF Allowed, MayDo

\* Every step keeps it.
LEMMA GrantedStep ==
    ASSUME SelectorsNameNoNamespace, ClusterKindsKnown, IInv, Granted, [Next]_vars
    PROVE  Granted'
<1> DEFINE Fits(c) == author'[c] # None => MayWrite(rights'[author'[c]], c, obj'[c].spec)
<1>t. /\ obj \in [Contributors -> Objects]
      /\ author \in [Contributors -> Users \cup {None}]
      /\ Mapped \subseteq mapped
  BY DEF IInv, TypeOK, Objects
<1>g. /\ left \in [requests : Int, rights : Int]
      /\ left.rights <= MaxRightChanges
      /\ left.rights = MaxRightChanges =>
             \A c \in Contributors :
                author[c] # None => MayWrite(rights[author[c]], c, obj[c].spec)
  BY GrantedNow DEF Granted
\* The rights are as they were: only the contributor that changes matters.
<1>o. ASSUME NEW c \in Contributors, UNCHANGED rights,
             left' \in [requests : Int, rights : Int], left'.rights = left.rights,
             \A d \in Contributors \ {c} : obj'[d] = obj[d] /\ author'[d] = author[d],
             left.rights = MaxRightChanges => Fits(c)
      PROVE  Granted'
  <2>1. left'.rights = MaxRightChanges => \A d \in Contributors : Fits(d)
    BY <1>g, <1>o
  <2> QED BY <1>g, <1>o, <2>1, GrantedNext
<1>q. ASSUME NEW woken, Request(woken)
      PROVE  /\ UNCHANGED rights
             /\ left' \in [requests : Int, rights : Int] /\ left'.rights = left.rights
  BY <1>q, <1>g DEF Request
<1>1. ASSUME NEW c \in Contributors, NEW u \in Users, NEW s \in Specs[c], Create(u, c, s)
      PROVE  Granted'
  <2>1. author'[c] = u /\ obj'[c].spec = s
    BY <1>1, <1>t DEF Create, Absent
  <2>2. MayWrite(rights[u], c, s)
    <3>1. Validate(c, s) /\ Authorize(u, ChecksForSpec(c, s))
      BY <1>1 DEF Create, Admitted, ChecksFor
    <3> QED BY <3>1, <1>t, AdmittedCovers
  <2>3. \A d \in Contributors \ {c} : obj'[d] = obj[d] /\ author'[d] = author[d]
    BY <1>1, <1>t DEF Create
  <2>4. Request({c})
    BY <1>1 DEF Create
  <2> QED BY <2>1, <2>2, <2>3, <2>4, <1>q, <1>o
<1>2. ASSUME NEW c \in Contributors, NEW u \in Users, NEW s \in Specs[c],
             NEW sent \in Users \cup {None}, Update(u, c, s, sent)
      PROVE  Granted'
  <2>1. obj'[c].spec = s /\ author'[c] = IF s = obj[c].spec THEN author[c] ELSE u
    BY <1>2, <1>t DEF Update, Objects
  <2>2. MayWrite(rights[u], c, s)
    <3>1. Validate(c, s) /\ Authorize(u, ChecksForSpec(c, s))
      BY <1>2 DEF Update, Admitted, ChecksFor, Authorize
    <3> QED BY <3>1, <1>t, AdmittedCovers
  <2>3. left.rights = MaxRightChanges => Fits(c)
    BY <1>2, <2>1, <2>2, <1>g DEF Update, Request
  <2>4. \A d \in Contributors \ {c} : obj'[d] = obj[d] /\ author'[d] = author[d]
    BY <1>2, <1>t DEF Update
  <2>5. Request(IF s = obj[c].spec THEN {} ELSE {c})
    BY <1>2 DEF Update
  <2> QED BY <2>3, <2>4, <2>5, <1>q, <1>o
<1>3. ASSUME NEW c \in Contributors, NEW u \in Users, Delete(u, c)
      PROVE  Granted'
  <2>1. author'[c] # None => author'[c] = author[c] /\ obj'[c].spec = obj[c].spec
    BY <1>3, <1>t DEF Delete, Objects
  <2>2. left.rights = MaxRightChanges => Fits(c)
    BY <1>3, <2>1, <1>g DEF Delete, Request
  <2>3. \A d \in Contributors \ {c} : obj'[d] = obj[d] /\ author'[d] = author[d]
    BY <1>3, <1>t DEF Delete
  <2>4. Request({c})
    BY <1>3 DEF Delete
  <2> QED BY <2>2, <2>3, <2>4, <1>q, <1>o
<1>4. ASSUME NEW c \in Contributors, Reconcile(c)
      PROVE  Granted'
  <2>1. UNCHANGED <<rights, left>>
    BY <1>4 DEF Reconcile
  <2>2. \A d \in Contributors \ {c} : obj'[d] = obj[d] /\ author'[d] = author[d]
    BY <1>4, <1>t DEF Reconcile, AddFinalizer, DropFinalizer, UpdateFinalizer,
                     SetInvalid, Register
  <2>3. author'[c] # None => author'[c] = author[c] /\ obj[c].phase # "terminating"
    BY <1>4, <1>t DEF Reconcile
  <2>4. obj[c].phase # "terminating" => obj'[c].spec = obj[c].spec
    <3>1. CASE AddFinalizer(c)
      BY <3>1, <1>t DEF AddFinalizer, UpdateFinalizer, Objects
    <3>2. CASE DropFinalizer(c)
      BY <3>2 DEF DropFinalizer
    <3>3. CASE SetInvalid(c)
      BY <3>3 DEF SetInvalid
    <3>4. CASE Register(c)
      BY <3>4, <1>t DEF Register, Objects
    <3> QED BY <1>4, <3>1, <3>2, <3>3, <3>4 DEF Reconcile
  <2>5. left.rights = MaxRightChanges => Fits(c)
    BY <2>1, <2>3, <2>4, <1>g
  <2> QED BY <2>1, <2>2, <2>5, <1>g, <1>o
<1>5. ASSUME NEW c \in Contributors, Expire(c)
      PROVE  Granted'
  <2>1. UNCHANGED <<rights, left, author>>
    BY <1>5 DEF Expire
  <2>2. \A d \in Contributors : obj'[d].spec = obj[d].spec
    BY <1>5, <1>t DEF Expire, Objects
  <2> QED BY <2>1, <2>2, <1>g, GrantedNext
<1>6. ASSUME UNCHANGED <<obj, author, rights, left>>
      PROVE  Granted'
  BY <1>6, <1>g, GrantedNext
<1>7. ASSUME NEW k, InstallKind(k) PROVE Granted'
  BY <1>6, <1>7 DEF InstallKind
<1>8. ASSUME NEW u, NEW h, ChangeRights(u, h) PROVE Granted'
  BY <1>8, <1>g, BoundsAssumption DEF ChangeRights, Granted, AuthorMayWrite
<1>9. CASE UNCHANGED vars
  BY <1>6, <1>9 DEF vars
<1> QED BY <1>1, <1>2, <1>3, <1>4, <1>5, <1>7, <1>8, <1>9 DEF Next

\* As long as no right has changed, whoever gave a spec may make every write that
\* the controller's resolution of it leads to, provided that no cluster-scoped kind
\* that a spec names is installed late, and that the selectors of
\* ClusterResourcePatches name no namespace.
THEOREM AuthorsMayWrite ==
    ASSUME SelectorsNameNoNamespace, ClusterKindsKnown
    PROVE  Spec => []AuthorMayWrite
<1>1. Init => Granted
  BY BoundsAssumption DEF Init, Granted, AuthorMayWrite
<1>2. IInv /\ Granted /\ [Next]_vars => Granted'
  BY GrantedStep
<1>3. Granted => AuthorMayWrite
  BY DEF Granted
<1> QED BY <1>1, <1>2, <1>3, IInvAlways, PTL DEF Spec

=============================================================================
