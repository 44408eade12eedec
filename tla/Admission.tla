----------------------------- MODULE Admission -----------------------------
(***************************************************************************)
(* Packages webhook and scope, and the re-check of authorization in the    *)
(* contributor controller.  Every request to write a contributor passes    *)
(* the mutating webhook, which records who asked, and then the validating  *)
(* one, which checks the spec and asks the API server whether the          *)
(* requester may make the writes the spec implies.  The operator's own     *)
(* finalizer updates are such requests too.  Rights change later: the      *)
(* controller asks again, for the identity that was recorded, each time    *)
(* its TTL has passed.  Objects that are older than the webhooks have      *)
(* never been checked, and carry no identity.                              *)
(***************************************************************************)
EXTENDS Integers, FiniteSets

CONSTANTS
    Contributors,
    Namespace,       \* a contributor's namespace, None for a ClusterResourcePatch
    Specs,           \* the specs a contributor may be given
    Predating,       \* the contributors that may be older than the webhooks
    Users,
    Operator,        \* the operator's ServiceAccount, one of the users
    Rights,          \* the rights a user may be granted, and has at first
    None,
    ClusterKinds,    \* kinds that are cluster-scoped
    OwnKinds,        \* the kinds of this operator
    Mapped,          \* kinds the RESTMapper knows from the start
    Matching,        \* the objects that a selector matches
    MaxTargets,      \* the cap of a selector that states none
    MaxRequests,     \* bound on the requests of users
    MaxRightChanges  \* bound on the changes of rights

ASSUME OperatorAssumption == Operator \in Users
ASSUME NoneAssumption == None \notin Users
\* The API server accepts no other mode.
ASSUME ModeAssumption ==
    \A c \in Contributors : \A s \in Specs[c] : s.mode \in {"Single", "Selector"}
ASSUME BoundsAssumption == MaxRequests \in Nat /\ MaxRightChanges \in Nat

VARIABLES
    obj,      \* the contributors
    rights,   \* what each user may do
    mapped,   \* the kinds the RESTMapper knows
    due,      \* contributors that are queued, or whose timer is set
    author,   \* history: who last gave the spec, None when nobody was asked
    kept,     \* history: updates since then sent the recorded identity along
    left      \* what the bounds leave

vars == <<obj, rights, mapped, due, author, kept, left>>

IsClusterScoped(c) == Namespace[c] = None

Absent == [phase |-> "absent", spec |-> None, fin |-> FALSE, recorded |-> None,
           verdict |-> "none", recent |-> FALSE, keys |-> {}]

-----------------------------------------------------------------------------
(* Package scope *)

IsNamespacedKind(k) == k \in mapped \ ClusterKinds
IsClusterKind(k) == k \in mapped \cap ClusterKinds

ValidMode(s) ==
    IF s.mode = "Single" THEN s.name # None /\ ~s.selector /\ ~s.nsSelector
    ELSE s.name = None /\ (s.selector \/ s.nsSelector) /\ s.maxTargets >= 0

ValidLifecycle(s) ==
    /\ s.mode = "Selector" => s.onMissing # "Create" /\ s.onRelease # "Delete"
    /\ s.onRelease = "Delete" => s.onMissing = "Create"
    /\ s.onMissing = "Create" => s.base
    /\ ~s.enforceBase

ValidPatch(s) ==
    /\ s.value = (s.type # "JSON6902")
    /\ s.ops = (s.type = "JSON6902")
    /\ s.mergeKeys # "none" => s.mergeKeys = "complete" /\ s.apply = "ClientSideApply"

\* Mutant: a cluster-scoped kind is accepted.
ValidNamespaced_AnyKind(c, s) ==
    s.ns \in {None, Namespace[c]} /\ ~s.nsSelector /\ s.saNamespace \in {None, Namespace[c]}

ValidNamespaced(c, s) ==
    /\ s.ns \in {None, Namespace[c]}
    /\ ~IsClusterKind(s.kind)
    /\ ~s.nsSelector
    /\ s.saNamespace \in {None, Namespace[c]}

ValidClusterScoped(s) ==
    /\ IsNamespacedKind(s.kind) /\ s.mode = "Single" => s.ns # None
    /\ IsClusterKind(s.kind) => s.ns = None

Validate(c, s) ==
    /\ s.kind # None
    /\ ValidMode(s) /\ ValidLifecycle(s) /\ ValidPatch(s)
    /\ IF IsClusterScoped(c) THEN ValidClusterScoped(s) ELSE ValidNamespaced(c, s)
    /\ s.kind \notin OwnKinds

ResolveTargetNamespace(c, s) == IF IsClusterScoped(c) THEN s.ns ELSE Namespace[c]

TargetKeyFor(c, s) ==
    [kind |-> s.kind, ns |-> ResolveTargetNamespace(c, s), name |-> s.name]

\* resolveSelector, selectorNamespaces
Selected(c, s) ==
    {k \in Matching : k.kind = s.kind /\ (IsClusterScoped(c) \/ k.ns = Namespace[c])}

Resolvable(c, s) ==
    \/ s.mode = "Single"
    \/ Cardinality(Selected(c, s)) <= IF s.maxTargets > 0 THEN s.maxTargets ELSE MaxTargets

\* resolveTargets
Targets(c, s) == IF s.mode = "Single" THEN {TargetKeyFor(c, s)} ELSE Selected(c, s)

\* The namespace that a write to k reaches: the client leaves it out for a kind that
\* has none.
WrittenIn(k) == IF k.kind \in ClusterKinds THEN None ELSE k.ns

-----------------------------------------------------------------------------
(* Package webhook *)

\* targetChecks: a selector asks about every name.
TargetChecks(c, s, verbs) ==
    {[verb |-> v, kind |-> s.kind, name |-> IF s.mode = "Selector" THEN None ELSE s.name,
      ns |-> IF IsClusterKind(s.kind) THEN None ELSE ResolveTargetNamespace(c, s)] :
        v \in verbs}

ChecksForSpec(c, s) ==
    TargetChecks(c, s, {"update", "patch"}
        \cup (IF s.onMissing = "Create" THEN {"create"} ELSE {})
        \cup (IF s.onRelease = "Delete" THEN {"delete"} ELSE {}))
    \cup (IF s.sa = None THEN {}
          ELSE {[verb |-> "impersonate", kind |-> "ServiceAccount", name |-> s.sa,
                 ns |-> IF IsClusterScoped(c) THEN s.saNamespace ELSE Namespace[c]]})

TargetChanged(old, s) ==
    old.kind # s.kind \/ old.name # s.name \/ old.ns # s.ns \/ old.mode # s.mode

\* Mutant: updates ask nothing.
ChecksFor_NoUpdate(op, c, s, old) ==
    IF op = "UPDATE" THEN {} ELSE ChecksForSpec(c, s)

\* ChecksFor: s is the new spec, or the one that is deleted.
ChecksFor(op, c, s, old) ==
    CASE op = "CREATE" -> ChecksForSpec(c, s)
      [] op = "UPDATE" ->
            ChecksForSpec(c, s)
                \cup (IF TargetChanged(old, s) THEN ChecksForSpec(c, old) ELSE {})
      [] op = "DELETE" ->
            CASE s.onRelease = "Orphan" -> {}
              [] s.onRelease = "Delete" -> TargetChecks(c, s, {"delete"})
              [] OTHER -> TargetChecks(c, s, {"update", "patch"})

\* The API server's answer to a SubjectAccessReview: a right to no particular kind,
\* namespace or name holds for all.
Allowed(u, check) ==
    \E g \in rights[u] :
        /\ g.verb = check.verb
        /\ g.kind \in {None, check.kind}
        /\ g.ns \in {None, check.ns}
        /\ g.name \in {None, check.name}

\* Authorize
Authorize(u, checks) == \A k \in checks : Allowed(u, k)

\* ContributorValidator.Handle: what cannot be answered is refused.
Admitted(op, u, c, s) ==
    /\ op # "DELETE" => Validate(c, s)
    /\ Authorize(u, ChecksFor(op, c, s, obj[c].spec))

\* Mutant: every update is recorded.
ShouldRecord_Always(c, s, sent) == TRUE

\* Mutant: the stored object is asked for an identity, not the one that is sent.
ShouldRecord_Stored(c, s, sent) ==
    obj[c].phase = "absent" \/ obj[c].recorded = None \/ obj[c].spec # s

\* shouldRecord: sent is the identity in the annotations of the object that is sent.
ShouldRecord(c, s, sent) == obj[c].phase = "absent" \/ sent = None \/ obj[c].spec # s

\* PrincipalRecorder.Handle
Recorded(u, c, s, sent) == IF ShouldRecord(c, s, sent) THEN u ELSE sent

-----------------------------------------------------------------------------
(* Requests *)

\* The controller is woken for those of woken.
Request(woken) ==
    /\ left.requests > 0
    /\ left' = [left EXCEPT !.requests = @ - 1]
    /\ due' = due \cup woken
    /\ UNCHANGED <<rights, mapped>>

Create(u, c, s) ==
    /\ obj[c].phase = "absent"
    /\ Admitted("CREATE", u, c, s)
    /\ obj' = [obj EXCEPT ![c] = [Absent EXCEPT !.phase = "live", !.spec = s,
                                      !.recorded = Recorded(u, c, s, None)]]
    /\ author' = [author EXCEPT ![c] = u]
    /\ kept' = [kept EXCEPT ![c] = TRUE]
    /\ Request({c})

\* The object is replaced by the one that is sent, which may leave the spec as it is
\* and may carry any identity, or none.  generationOrFinalizerChanged drops the event
\* of an update that leaves the spec alone.
Update(u, c, s, sent) ==
    LET same == s = obj[c].spec IN
    /\ obj[c].phase # "absent"
    /\ Admitted("UPDATE", u, c, s)
    /\ obj' = [obj EXCEPT ![c].spec = s, ![c].recorded = Recorded(u, c, s, sent)]
    /\ author' = [author EXCEPT ![c] = IF same THEN @ ELSE u]
    /\ kept' = [kept EXCEPT ![c] = IF same THEN @ /\ sent = obj[c].recorded ELSE TRUE]
    /\ Request(IF same THEN {} ELSE {c})

Delete(u, c) ==
    /\ obj[c].phase = "live"
    /\ Admitted("DELETE", u, c, obj[c].spec)
    /\ obj' = [obj EXCEPT ![c] = IF @.fin THEN [@ EXCEPT !.phase = "terminating"] ELSE Absent]
    /\ author' = [author EXCEPT ![c] = IF obj[c].fin THEN @ ELSE None]
    /\ Request({c})
    /\ UNCHANGED kept

\* A right is taken away, or given back.
ChangeRights(u, g) ==
    /\ left.rights > 0
    /\ left' = [left EXCEPT !.rights = @ - 1]
    /\ rights' = [rights EXCEPT ![u] = IF g \in @ THEN @ \ {g} ELSE @ \cup {g}]
    /\ UNCHANGED <<obj, mapped, due, author, kept>>

\* A kind is installed.
InstallKind(k) ==
    /\ k \notin mapped
    /\ mapped' = mapped \cup {k}
    /\ UNCHANGED <<obj, rights, due, author, kept, left>>

-----------------------------------------------------------------------------
(* The contributor controller *)

\* Mutant: the finalizer is updated as the recorded identity.
UpdateFinalizer_AsRecorded(c, o) ==
    /\ Admitted("UPDATE", IF obj[c].recorded = None THEN Operator ELSE obj[c].recorded,
                c, obj[c].spec)
    /\ obj' = [obj EXCEPT ![c] = o]

\* The operator's Update of its finalizer, a request like any other, which sends the
\* annotations it has read.
UpdateFinalizer(c, o) ==
    /\ Admitted("UPDATE", Operator, c, obj[c].spec)
    /\ obj' = [obj EXCEPT ![c] = o]

AddFinalizer(c) ==
    /\ obj[c].phase = "live"
    /\ Validate(c, obj[c].spec)
    /\ ~obj[c].fin
    /\ UpdateFinalizer(c, [obj[c] EXCEPT !.fin = TRUE,
                               !.recorded = Recorded(Operator, c, obj[c].spec, obj[c].recorded)])
    /\ UNCHANGED due

\* reconcileDelete, once the tracker has let go.
DropFinalizer(c) ==
    /\ obj[c].phase = "terminating"
    /\ UpdateFinalizer(c, Absent)
    /\ due' = due \ {c}

\* A spec that is invalid is reported, and waits for the next event.
SetInvalid(c) ==
    /\ obj[c].phase = "live"
    /\ ~Validate(c, obj[c].spec)
    /\ due' = due \ {c}
    /\ UNCHANGED obj

\* Mutant: the answer is asked for once.
Verdict_Once(c) ==
    IF obj[c].recorded = None \/ obj[c].verdict # "none" THEN obj[c].verdict
    ELSE IF Authorize(obj[c].recorded, ChecksFor("CREATE", c, obj[c].spec, None))
    THEN "true" ELSE "false"

\* reauthorize: within the TTL of the last success nothing is asked.
Verdict(c) ==
    IF obj[c].recorded = None \/ obj[c].recent THEN obj[c].verdict
    ELSE IF Authorize(obj[c].recorded, ChecksFor("CREATE", c, obj[c].spec, None))
    THEN "true" ELSE "false"

\* The rest of Reconcile: re-check, resolve the targets, register.  The result
\* sets the timer, unless the targets cannot be resolved.
Register(c) ==
    LET s == obj[c].spec IN
    /\ obj[c].phase = "live"
    /\ Validate(c, s)
    /\ obj[c].fin
    /\ obj' = [obj EXCEPT ![c].verdict = Verdict(c),
            ![c].recent = obj[c].recorded # None /\ Verdict(c) = "true",
            ![c].keys = IF Resolvable(c, s) THEN Targets(c, s) ELSE @]
    /\ due' = IF Resolvable(c, s) THEN due ELSE due \ {c}

Reconcile(c) ==
    /\ c \in due
    /\ AddFinalizer(c) \/ DropFinalizer(c) \/ SetInvalid(c) \/ Register(c)
    /\ author' = [author EXCEPT ![c] = IF obj[c].phase = "terminating" THEN None ELSE @]
    /\ UNCHANGED <<rights, mapped, kept, left>>

\* The TTL passes.
Expire(c) ==
    /\ obj[c].recent
    /\ obj' = [obj EXCEPT ![c].recent = FALSE]
    /\ UNCHANGED <<rights, mapped, due, author, kept, left>>

-----------------------------------------------------------------------------
\* An object may be older than the webhooks, with any spec.
Older(s) == [Absent EXCEPT !.phase = "live", !.spec = s]

Init ==
    /\ obj \in [Contributors -> {Absent} \cup {Older(s) : s \in UNION {Specs[c] : c \in Predating}}]
    /\ \A c \in Contributors : obj[c] # Absent => c \in Predating /\ obj[c].spec \in Specs[c]
    /\ rights = Rights
    /\ mapped = Mapped
    /\ due = {c \in Contributors : obj[c] # Absent}
    /\ author = [c \in Contributors |-> None]
    /\ kept = [c \in Contributors |-> TRUE]
    /\ left = [requests |-> MaxRequests, rights |-> MaxRightChanges]

Kinds(c) == {s.kind : s \in Specs[c]}

Next ==
    \/ \E c \in Contributors :
        \/ \E u \in Users \ {Operator} :
            \/ \E s \in Specs[c] :
                Create(u, c, s) \/ \E sent \in Users \cup {None} : Update(u, c, s, sent)
            \/ Delete(u, c)
        \/ Reconcile(c)
        \/ Expire(c)
        \/ \E k \in Kinds(c) : InstallKind(k)
    \/ \E u \in Users \ {Operator} : \E g \in Rights[u] : ChangeRights(u, g)

Fairness == \A c \in Contributors : WF_vars(Reconcile(c)) /\ WF_vars(Expire(c))

Spec == Init /\ [][Next]_vars /\ Fairness

-----------------------------------------------------------------------------
(* Properties *)

AllSpecs == UNION {Specs[c] : c \in Contributors}
Keys == UNION {Targets(c, s) : c \in Contributors, s \in AllSpecs}

TypeOK ==
    /\ obj \in [Contributors ->
            [phase : {"absent", "live", "terminating"}, spec : AllSpecs \cup {None},
             fin : BOOLEAN, recorded : Users \cup {None},
             verdict : {"none", "true", "false"}, recent : BOOLEAN, keys : SUBSET Keys]]
    /\ \A c \in Contributors : obj[c].phase # "absent" => obj[c].spec \in AllSpecs
    /\ author \in [Contributors -> Users \cup {None}]
    /\ kept \in [Contributors -> BOOLEAN]
    /\ Mapped \subseteq mapped

\* The identity on record is that of the user who last gave the spec, as long as
\* updates that leave the spec alone send the identity they found: the operator's own
\* do, whoever sends the others (mutator.go, shouldRecord).
RecordedIsAuthor ==
    \A c \in Contributors : author[c] # None /\ kept[c] => obj[c].recorded = author[c]

\* Whatever is sent, what admission has seen, and whatever is registered, has an
\* identity on record: "a missing annotation disables the re-check entirely"
\* (mutator.go, shouldRecord; contributor_controller.go, reauthorize).
AlwaysRecheckable ==
    \A c \in Contributors :
        author[c] # None \/ obj[c].keys # {} => obj[c].recorded # None

\* "A principal a submitter writes into their own manifest is never believed"
\* (docs/security.md): an update records its sender, or leaves the record alone.
NeverBelieved ==
    [][\A c \in Contributors : \A u \in Users : \A s \in Specs[c] :
        \A sent \in Users \cup {None} :
            Update(u, c, s, sent) => obj'[c].recorded \in {obj[c].recorded, u}]_vars

\* What a ResourcePatch is registered for are objects of its own namespace, once
\* their kind is there to be written, also when its spec never passed admission
\* (scope.go, validateNamespaced and ResolveTargetNamespace; the controller's
\* resolveSelector and its call of Validate).
Contained ==
    \A c \in Contributors :
        ~IsClusterScoped(c) =>
            \A k \in obj[c].keys : k.kind \in mapped => WrittenIn(k) = Namespace[c]

\* As long as no right has changed, whoever gave a spec may make the writes it
\* leads to: what the controller resolves is covered by what admission asked
\* (sar.go, ChecksFor; validator.go, Handle).
AuthorMayWrite ==
    left.rights = MaxRightChanges =>
        \A c \in Contributors : author[c] # None =>
            \A k \in Targets(c, obj[c].spec) :
                Authorize(author[c],
                    {[verb |-> v, kind |-> k.kind, ns |-> WrittenIn(k), name |-> k.name] :
                        v \in {"update", "patch"}
                            \cup (IF obj[c].spec.onMissing = "Create" THEN {"create"} ELSE {})
                            \cup (IF obj[c].spec.onRelease = "Delete" THEN {"delete"} ELSE {})})

\* In the end the Authorized condition says what is true of the recorded identity,
\* however rights and specs changed (contributor_controller.go, reauthorize).  A
\* contributor whose targets cannot be resolved has no timer.
VerdictFollowsRights ==
    <>[](\A c \in Contributors :
            LET o == obj[c] IN
            o.phase = "live" /\ o.recorded # None /\ Validate(c, o.spec)
                    /\ Resolvable(c, o.spec) =>
                o.verdict = IF Authorize(o.recorded, ChecksFor("CREATE", c, o.spec, None))
                            THEN "true" ELSE "false")

\* A contributor that is deleted goes, though its author may have lost every right
\* meanwhile (contributor_controller.go, reconcileDelete).
DeletionCompletes ==
    \A c \in Contributors : (obj[c].phase = "terminating") ~> (obj[c].phase # "terminating")

=============================================================================
