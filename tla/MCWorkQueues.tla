---------------------------- MODULE MCWorkQueues ----------------------------
(***************************************************************************)
(* Module WorkQueues with up to two ResourcePatches and one                *)
(* ClusterResourcePatch.  The .cfg files choose which of them exist, their *)
(* policies, and how many failures there may be.                           *)
(***************************************************************************)
EXTENDS WorkQueues

CONSTANTS r1, r2, k1   \* two ResourcePatches and a ClusterResourcePatch

\* sortContributors: the ResourcePatches were created first, r1 before r2.
MCRank == [c \in Contributors |->
                CASE c = r1 -> 1 [] c = r2 -> 2 [] c = k1 -> 3]

=============================================================================
