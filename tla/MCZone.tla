------------------------------- MODULE MCZone -------------------------------
EXTENDS Zone, TLC

CONSTANTS n1, n2

\* Fits MaxPayload to the byte, but not inside an envelope.
Line == [kind |-> "graphic", polygon |-> FALSE, label |-> 2,
         points |-> <<<<0, 0>>, <<30, 21>>, <<61, 10>>, <<90, 41>>, <<101, 80>>, <<123, 75>>>>]
Plot == [kind |-> "waypoint", at |-> <<33, -70>>, name |-> 4]
Removal == [kind |-> "remove", target |-> <<n1, 0>>]
Erasure == [kind |-> "clear", before |-> 1]
Box == [kind |-> "graphic", polygon |-> TRUE, label |-> 0,
        points |-> <<<<0, 0>>, <<90, 0>>, <<90, 40>>, <<1, 40>>, <<0, 0>>>>]

SomeDrafts == (n1 :> {Line, Plot, Box}) @@ (n2 :> {Removal})
SameCell == (n1 :> <<10, 10>>) @@ (n2 :> <<-20, 31>>)
Once2 == (n1 :> 0) @@ (n2 :> 1)
Two1 == (n1 :> 2) @@ (n2 :> 0)
=============================================================================
