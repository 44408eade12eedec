--------------------------- MODULE MCTargetCache ---------------------------
(***************************************************************************)
(* Module TargetCache with four trackers of two controllers on three kinds. *)
(***************************************************************************)
EXTENDS TargetCache

CONSTANTS s1, s2, k1, k2   \* two SharedResources, two ClusterSharedResources

\* One kind is shared between the controllers.
MCOwnerOf == [t \in Trackers |-> IF t \in {s1, s2} THEN "SR" ELSE "CSR"]
MCKindOf ==
    [t \in Trackers |-> CASE t \in {s1, k1} -> "g1" [] t = s2 -> "g2" [] t = k2 -> "g3"]

=============================================================================
