----------------------------- MODULE MCLocalMap -----------------------------
(* Instances of LocalMap for TLC.                                          *)
EXTENDS LocalMap

CONSTANTS r1, r2, cover, fix, x, y

\* The first room has a plot of another member, the second is empty.
OnePlot == [r \in Room |-> IF r = r1 THEN {x} ELSE {}]

Sketch(mode, mission) == [mode |-> mode, mission |-> mission]

Phone(pens, codes, n, radios) ==
  [tools |-> pens, rooms |-> codes, orders |-> n, attaches |-> radios]

Pens == {Sketch("measure", None), Sketch("line", None), Sketch("polygon", None),
         Sketch("arrow", None), Sketch("mission", cover), Sketch("mission", fix)}

\* Every tool and one room; two rooms; a module; a module attached twice.
Users == {Phone(Pens, {r1}, 3, 0), Phone({}, {r1, r2}, 2, 0),
          Phone({}, {r1}, 2, 1), Phone({}, {r1}, 1, 2)}
=============================================================================
