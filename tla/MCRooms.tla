------------------------------ MODULE MCRooms -------------------------------
(* Instances of Rooms for TLC. *)
EXTENDS Rooms, TLC

NameSymmetry == Permutations(MemberId) \cup Permutations(Socket) \cup Permutations(Callsign)

(* The server restarts, or the clock runs: a lastSeen read back from the   *)
(* snapshot of before a crash is of no help against the clock.  While the  *)
(* clock runs there are two rooms and nobody holds a post of his own.      *)
VARIABLE regime

RegimeInit == Init /\ regime \in {"restarts", "clock"}

InRegime ==
  \/ regime = "restarts" /\ now' = now /\ Cardinality({c \in Code : emptySince'[c] # Absent}) <= 1
  \/ regime = "clock" /\ running' /\ disk' = disk /\ \A m \in Present(member') : member'[m].post = GV

RegimeNext == Next /\ InRegime /\ UNCHANGED regime

RegimeSpec == RegimeInit /\ [][RegimeNext]_<<vars, regime>>

=============================================================================
