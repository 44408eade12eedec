----------------------------- MODULE MCAdmission -----------------------------
(***************************************************************************)
(* An instance of Admission: a ResourcePatch in namespace a and a          *)
(* ClusterResourcePatch, and a user with rights in namespace a only beside *)
(* one with rights everywhere.                                             *)
(***************************************************************************)
EXTENDS Admission

CONSTANTS rp, crp, alice, bob, op

MCNamespace == [c \in Contributors |-> IF c = rp THEN "a" ELSE None]

Plain ==
    [kind |-> "cm", ns |-> None, name |-> "x", mode |-> "Single", selector |-> FALSE,
     nsSelector |-> FALSE, onMissing |-> "Wait", onRelease |-> "Revert", base |-> FALSE,
     sa |-> None, saNamespace |-> None, type |-> "Merge", value |-> TRUE, ops |-> FALSE,
     mergeKeys |-> "none", apply |-> "ServerSideApply", maxTargets |-> 0,
     enforceBase |-> FALSE]
Selecting == [Plain EXCEPT !.mode = "Selector", !.name = None, !.selector = TRUE]
Creating == [Plain EXCEPT !.onMissing = "Create", !.base = TRUE, !.onRelease = "Delete"]

\* Specs of the ResourcePatch: one per rule that matters, invalid ones included.
RPSpecs == {Plain, Creating, Selecting,
            [Plain EXCEPT !.ns = "b"],
            [Plain EXCEPT !.kind = "node"],
            [Plain EXCEPT !.kind = "widget", !.onRelease = "Orphan"]}
CRPSpecs == {[Plain EXCEPT !.ns = "b"],
             [Plain EXCEPT !.kind = "node", !.sa = "s", !.saNamespace = "a"],
             [Selecting EXCEPT !.nsSelector = TRUE]}
MCSpecs == [c \in Contributors |-> IF c = rp THEN RPSpecs ELSE CRPSpecs]

Right(ns, verbs) == {[verb |-> v, kind |-> None, ns |-> ns, name |-> None] : v \in verbs}
Verbs == {"update", "patch", "create", "delete", "impersonate"}
MCRights == [u \in Users |->
    IF u = alice THEN Right("a", {"update", "patch", "delete"}) ELSE Right(None, Verbs)]

MCMatching == {[kind |-> "cm", ns |-> n, name |-> m] : n \in {"a", "b"}, m \in {"x", "y"}}

=============================================================================
