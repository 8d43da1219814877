-------------------------- MODULE MCTrackedChanges --------------------------
(* Tracked changes of one file: one peer alone, or two who share it.       *)
EXTENDS TrackedChanges

CONSTANTS p, q, a, b

Symmetry == Permutations(Peers) \union Permutations(Authors)
=============================================================================
