----------------------------- MODULE MCOrderIds -----------------------------
(* Instances of OrderIds for TLC. *)
EXTENDS OrderIds, TLC

Symmetry == Permutations(Radio) \cup Permutations(NodeNumber \ Radio) \cup Permutations(Tab)

=============================================================================
