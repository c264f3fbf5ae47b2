-------------------------- MODULE MCOrderReplicas ---------------------------
(* Instances of OrderReplicas for TLC. *)
EXTENDS OrderReplicas, TLC

CONSTANTS n1, n2

\* All clocks agree.
NoSkew == [n \in Node |-> 0]

\* n2 is one tick ahead of n1.
OneAhead == [n \in Node |-> IF n = n2 THEN 1 ELSE 0]

IdSymmetry == Permutations(Id)

=============================================================================
