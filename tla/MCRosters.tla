----------------------------- MODULE MCRosters ------------------------------
(* Instances of Rosters for TLC.                                           *)
EXTENDS Rosters, TLC

CONSTANTS p1, p2,
          MaxQueue  \* bound of the model: events under way to a phone

NameSymmetry == Permutations(MemberId) \cup Permutations(Socket)

\* The first phone has trouble, the second watches.
Faulty == [p \in Phone |-> IF p = p1 THEN {"drop", "reload", "slow"} ELSE {}]

Located(p) ==
  /\ session[p] # None
  /\ roster[p][session[p]] # Absent
  /\ roster[p][session[p]].pos # None

(* Members come and go, the ghosts of others among them; or two of them    *)
(* move, on a connection each; or an answer comes too late.                *)
VARIABLE regime

StandStill == /\ \A m \in Present' : member'[m].card.pos = None
              /\ \A p \in Phone : ~Located(p)'

Two == Cardinality(issued') <= 2 /\ Cardinality(live') <= 2

InRegime ==
  \/ regime = "replacements" /\ StandStill /\ missed' = {}
  \/ regime = "positions" /\ Two /\ missed' = {} /\ ~Located(p2)'
  \/ regime = "late" /\ Two /\ StandStill

RegimeInit == Init /\ regime \in {"replacements", "positions", "late"}

RegimeNext ==
  /\ Next
  /\ InRegime
  /\ \A p \in Phone : Len(down'[p]) <= MaxQueue
  /\ UNCHANGED regime

RegimeSpec == RegimeInit /\ [][RegimeNext]_<<vars, regime>>

=============================================================================
