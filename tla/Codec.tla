------------------------------- MODULE Codec -------------------------------
(***************************************************************************)
(* What becomes of an order on the radio (shared/src/mesh/codec.ts, with   *)
(* geo.ts and bytes.ts): a frame holds offsets in metres from an anchor    *)
(* and seconds from an epoch, elides its author, and has a size in bytes   *)
(* that must stay within a budget.                                         *)
(*                                                                         *)
(* Applicative places count half metres and instants half seconds, so that *)
(* the rounding of the codec shows; a string is its length in bytes, and   *)
(* colours and symbols are left out.  A room is an anchor, in metres, and  *)
(* an epoch, in seconds.                                                   *)
(***************************************************************************)
EXTENDS Integers, SequencesExt

CONSTANTS None,
          MaxPayload,   \* MESH_MAX_PAYLOAD
          AnchorRange   \* ANCHOR_RANGE_M

RelayOverhead == 5
RelayInnerBudget == MaxPayload - RelayOverhead

Abs(v) == IF v < 0 THEN -v ELSE v

\* Math.round of half a unit
Rounded(halves) == (halves + 1) \div 2

ZigzagWidth(v) ==
  LET u == IF v < 0 THEN -2 * v - 1 ELSE 2 * v
  IN  CASE u < 128 -> 1 [] u >= 128 /\ u < 16384 -> 2
        [] u >= 16384 /\ u < 2097152 -> 3 [] OTHER -> 4

\* A string of at most max bytes, after its length.
Cut(length, max) == Min({length, max})
-----------------------------------------------------------------------------
\* encodeOffset and decodeOffset, on places <<east, north>>
Offset(anchor, p) == [i \in 1 .. 2 |-> Rounded(p[i] - 2 * anchor[i])]
InRange(o) == \A i \in 1 .. 2 : Abs(o[i]) <= AnchorRange
Place(anchor, o) == [i \in 1 .. 2 |-> 2 * (anchor[i] + o[i])]

\* asRect: four corners, or five when the line is closed, with sides along
\* the axes to the metre, that 16 bits hold (32767, as ANCHOR_RANGE_M).
Corners(offs) ==
  IF Len(offs) = 5 /\ offs[1] = offs[5] THEN SubSeq(offs, 1, 4) ELSE offs

IsRect(offs) ==
  LET c == Corners(offs)
      near(i, j, axis) == Abs(c[i][axis] - c[j][axis]) <= 1
      along(a, b) == near(1, 2, a) /\ near(2, 3, b) /\ near(3, 4, a) /\ near(4, 1, b)
  IN  /\ Len(c) = 4 /\ (along(2, 1) \/ along(1, 2))
      /\ \A axis \in 1 .. 2 : Abs(c[3][axis] - c[1][axis]) <= AnchorRange

\* writeGeometry and readGeometry: two corners, or one place and the steps
\* from each to the next.
Geometry(g, offs) ==
  IF g.polygon /\ IsRect(offs)
    THEN [rect |-> TRUE, offs |-> <<offs[1], offs[3]>>, size |-> 8]
    ELSE [rect |-> FALSE, offs |-> offs,
          size |-> 5 + FoldFunctionOnSet(+, 0,
                         [i \in 2 .. Len(offs) |->
                            ZigzagWidth(offs[i][1] - offs[i - 1][1])
                            + ZigzagWidth(offs[i][2] - offs[i - 1][2])],
                         2 .. Len(offs))]

Vertices(geom) ==
  IF geom.rect
    THEN LET a == geom.offs[1]
             c == geom.offs[2]
         IN  <<a, <<c[1], a[2]>>, c, <<a[1], c[2]>>, a>>
    ELSE geom.offs
-----------------------------------------------------------------------------
\* The head of a frame, and what its kind adds, or None when they do not fit.
Sized(order, room, content, size, budget) ==
  LET dt == Rounded(order.ts) - room.epoch
      total == 3 + ZigzagWidth(dt) + size
  IN  IF total <= budget
        THEN [op |-> order.payload.kind, seq |-> order.id[2], dt |-> dt,
              content |-> content, size |-> total]
        ELSE None

\* writeRef: four bytes less when the target is of the author of the order.
Ref(order) ==
  LET own == order.payload.target[1] = order.id[1]
  IN  [own |-> own, node |-> IF own THEN None ELSE order.payload.target[1],
       seq |-> order.payload.target[2], size |-> IF own THEN 3 ELSE 7]

\* encodeOrder: a frame, or None.
EncodeOrder(order, room, budget) ==
  LET p == order.payload
  IN  CASE p.kind = "waypoint" ->
             LET off == Offset(room.anchor, p.at)
             IN  IF InRange(off)
                   THEN Sized(order, room, [off |-> off, name |-> Cut(p.name, 48)],
                              6 + Cut(p.name, 48), budget)
                   ELSE None
        [] p.kind = "graphic" ->
             LET offs == [i \in 1 .. Len(p.points) |-> Offset(room.anchor, p.points[i])]
                 geom == Geometry(p, offs)
             IN  IF Len(offs) >= 2 /\ \A i \in 1 .. Len(offs) : InRange(offs[i])
                   THEN Sized(order, room,
                              [geom |-> geom, polygon |-> p.polygon, label |-> Cut(p.label, 32)],
                              2 + geom.size
                              + (IF p.label > 0 THEN 1 + Cut(p.label, 32) ELSE 0), budget)
                   ELSE None
        [] p.kind \in {"remove", "ack"} ->
             Sized(order, room, Ref(order), Ref(order).size, budget)
        [] p.kind = "text" ->
             Sized(order, room, Cut(p.body, 180), 1 + Cut(p.body, 180), budget)
        [] p.kind = "clear" ->
             LET before == Rounded(p.before) - room.epoch
             IN  Sized(order, room, before, ZigzagWidth(before), budget)

\* triangleArea, twice
Area(a, b, c) == Abs((b[1] - a[1]) * (c[2] - a[2]) - (c[1] - a[1]) * (b[2] - a[2]))

\* A bug that may take an end of the line.
DropAnywhere(pts) ==
  IF Len(pts) <= 3 THEN pts ELSE Tail(pts)

\* The first inner vertex whose removal changes the line least.
DropLeastSignificant(pts) ==
  LET inner == 2 .. Len(pts) - 1
      area(i) == Area(pts[i - 1], pts[i], pts[i + 1])
      least == Min({i \in inner : \A j \in inner : area(i) <= area(j)})
  IN  IF Len(pts) <= 3 THEN pts ELSE RemoveAt(pts, least)

\* encodeOrderFitted: vertices go one by one until the frame fits.
EncodeOrderFitted(order, room, budget) ==
  IF order.payload.kind # "graphic" THEN EncodeOrder(order, room, budget)
  ELSE LET n == Len(order.payload.points)
           thinned[k \in 0 .. n] ==
             IF k = 0 THEN order.payload.points ELSE DropLeastSignificant(thinned[k - 1])
           encoded(k) == EncodeOrder([order EXCEPT !.payload.points = thinned[k]], room, budget)
           firstFit(k) == encoded(k) # None /\ \A j \in 0 .. k - 1 : encoded(j) = None
       IN  IF \E k \in 0 .. n : firstFit(k)
             THEN encoded(CHOOSE k \in 0 .. n : firstFit(k)) ELSE None

EncodeRelay(author, inner) ==
  [op |-> "relay", author |-> author, inner |-> inner, size |-> inner.size + RelayOverhead]

\* Bugs: a budget without the envelope; no envelope at all.
EncodedWithoutRoom(n, order, room) ==
  LET inner == EncodeOrderFitted(order, room, MaxPayload)
  IN  IF order.id[1] = n \/ inner = None THEN inner ELSE EncodeRelay(order.id[1], inner)
EncodedAsOwn(n, order, room) == EncodeOrderFitted(order, room, MaxPayload)

\* A frame of our own goes as it is, a frame of another author in an envelope.
EncodedBy(n, order, room) ==
  IF order.id[1] = n
    THEN EncodeOrderFitted(order, room, MaxPayload)
    ELSE LET inner == EncodeOrderFitted(order, room, RelayInnerBudget)
         IN  IF inner = None THEN None ELSE EncodeRelay(order.id[1], inner)

DecodePayload(f, room, author) ==
  LET c == f.content
  IN  CASE f.op = "waypoint" ->
             [kind |-> f.op, at |-> Place(room.anchor, c.off), name |-> c.name]
        [] f.op = "graphic" ->
             [kind |-> f.op, polygon |-> c.polygon, label |-> c.label,
              points |-> [i \in 1 .. Len(Vertices(c.geom)) |->
                            Place(room.anchor, Vertices(c.geom)[i])]]
        [] f.op \in {"remove", "ack"} ->
             [kind |-> f.op, target |-> <<IF c.own THEN author ELSE c.node, c.seq>>]
        [] f.op = "text" -> [kind |-> f.op, body |-> c]
        [] f.op = "clear" -> [kind |-> f.op, before |-> 2 * (room.epoch + c)]

\* decodeFrame: the author is the sender, unless the frame is a relay.
DecodeOrder(frame, room, from) ==
  LET relayed == frame.op = "relay"
      f == IF relayed THEN frame.inner ELSE frame
      author == IF relayed THEN frame.author ELSE from
  IN  [id |-> <<author, f.seq>>, ts |-> 2 * (room.epoch + f.dt),
       payload |-> DecodePayload(f, room, author)]
=============================================================================
