-------------------------- MODULE MCConsistentHash --------------------------
(* ConsistentHash for TLC: nodes are interchangeable. *)
EXTENDS ConsistentHash, TLC
CONSTANTS a, b, c
Symmetry == Permutations({a, b, c})
=============================================================================
