--------------------------- MODULE MCArbitration ---------------------------
(***************************************************************************)
(* Module Arbitration with two or three contributors on two fields.        *)
(***************************************************************************)
EXTENDS Arbitration, TLC

CONSTANTS
    a, b, c,       \* contributors
    p, q,          \* paths
    EqualPriority, \* whether all have the default priority
    Forcers,       \* who may choose policy Force, at p
    Insists        \* what the foreign controller wants at q

MCRank == [x \in Contributors |-> CASE x = a -> 1 [] x = b -> 2 [] x = c -> 3]

SpecOf(x, v, o) ==
    [claim |-> (p :> MCRank[x]) @@ (q :> v),
     priority |-> IF EqualPriority THEN 100 ELSE MCRank[x],
     policy |-> o]

\* At p everybody wants a value of its own, at q the same as the others or
\* nothing.  The last to come has the highest priority.
MCSpecs ==
    [x \in Contributors |->
        {SpecOf(x, v, o) : v \in {0, 1}, o \in {"Fail", "Priority"}}
        \cup {SpecOf(y, 0, "Force") : y \in Forcers \cap {x}}]

MCForeignClaim == (p :> 0) @@ (q :> Insists)

=============================================================================
