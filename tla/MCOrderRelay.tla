--------------------------- MODULE MCOrderRelay ----------------------------
(* Instances of OrderRelay for TLC. *)
EXTENDS OrderRelay

CONSTANTS c1, c2

\* The connection of c1 may be lost once, that of c2 holds.
C1Twice == [c \in Client |-> IF c = c1 THEN 2 ELSE 1]

\* Only c1 has trouble.
C1Faulty == [c \in Client |-> IF c = c1 THEN {"drop", "reload", "slow", "throttle"} ELSE {}]

\* Some order of a client may be refused for the quota.
Throttled == [c \in Client |-> {"throttle"}]

NoFaults == [c \in Client |-> {}]

\* No connection is lost.
Once == [c \in Client |-> 1]

\* Every connection may be lost twice.
Thrice == [c \in Client |-> 3]

=============================================================================
