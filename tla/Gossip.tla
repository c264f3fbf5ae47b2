------------------------------- MODULE Gossip -------------------------------
(***************************************************************************)
(* What the anti-entropy promises of a version vector: it is the set of    *)
(* the orders a node has had, which only grows, by orders that somebody    *)
(* composed, until a new connection of the radio empties it.               *)
(***************************************************************************)
CONSTANTS Node, Id

VARIABLES known,    \* the orders each node knows it has had
          issued    \* the orders composed so far

Init == /\ known = [n \in Node |-> {}]
        /\ issued = {}

Issue(n, i) == /\ i \notin issued
               /\ issued' = issued \cup {i}
               /\ known' = [known EXCEPT ![n] = @ \cup {i}]

Learn(n, I) == /\ I \subseteq issued
               /\ known' = [known EXCEPT ![n] = @ \cup I]
               /\ UNCHANGED issued

StartOver(n) == known' = [known EXCEPT ![n] = {}] /\ UNCHANGED issued

Next == \E n \in Node : \/ \E i \in Id : Issue(n, i)
                        \/ \E I \in SUBSET Id : Learn(n, I)
                        \/ StartOver(n)

Spec == Init /\ [][Next]_<<known, issued>>
=============================================================================
