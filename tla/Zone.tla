-------------------------------- MODULE Zone --------------------------------
(***************************************************************************)
(* The transport of a node on the mesh (client/src/transport/              *)
(* meshTransport.ts): the room in which it reads and writes frames, that   *)
(* is an anchor and an epoch, the orders that wait for one, the orders and *)
(* positions it exchanges through module Codec, and the register of        *)
(* positions (client/src/crdt/positions.ts).  When a frame may leave is    *)
(* module Governor's affair, what is sent again module AntiEntropy's.      *)
(*                                                                         *)
(* The air keeps what was sent: a frame is heard never, once or more, and  *)
(* late.  Time counts half seconds, places half metres.                    *)
(***************************************************************************)
EXTENDS Codec

CONSTANTS Node,
          Where,        \* where each node stands
          Cell,         \* canonicalAnchor: the grid of the anchors, in metres
          Drafts,       \* the payloads each node may compose
          MaxOrders,    \* bound: the orders each node composes
          MaxTime,      \* bound: the clock stops there
          InSession,    \* the nodes that have a callsign to announce
          MaxFixes,     \* bound: the positions each node sends
          MaxAttach     \* bound: further connections of the radio of each node

Point == Int \X Int

\* OrderPayload; finishSketch wants two points.
Payload ==
  [kind : {"waypoint"}, at : Point, name : Nat]
    \cup [kind : {"graphic"}, polygon : BOOLEAN, label : Nat,
          points : {s \in Seq(Point) : Len(s) >= 2}]
    \cup [kind : {"remove", "ack"}, target : Node \X Nat]
    \cup [kind : {"text"}, body : Nat]
    \cup [kind : {"clear"}, before : Int]

\* A position travels beside the frames of the codec: its size is not counted.
Fix == [op : {"position"}, at : Point, ts : Nat, size : {0}]

\* The length of an anchor's frame.
AnchorBytes == 14

ASSUME ZoneAssumption ==
  /\ Cell \in Nat \ {0} /\ AnchorRange \in Nat
  /\ MaxPayload \in Nat /\ MaxPayload >= AnchorBytes
  /\ Where \in [Node -> Point]
  /\ Drafts \in [Node -> SUBSET Payload] /\ MaxOrders \in Nat
  /\ None \notin Fix
  /\ MaxTime \in Nat /\ InSession \subseteq Node
  /\ MaxFixes \in [Node -> Nat] /\ MaxAttach \in [Node -> Nat]

VARIABLES time,
          rooms,      \* the room of each node, or None
          pending,    \* the orders that wait for a room
          orders,     \* state.orders
          air,        \* the frames sent, with their sender
          unread,     \* the kinds of frame each node could not read (rx.errors)
          register,   \* PositionRegister: the last position of each node
          known,      \* state.members, as far as the radio makes them
          shown,      \* lastPosition of each member
          fixes,      \* how many positions each node has sent
          attaches,
          authored    \* a history: the orders as they were composed

transport == <<rooms, pending, orders, unread, register, known, shown>>
vars == <<time, transport, air, fixes, attaches, authored>>

Room == [anchor : Point, epoch : Nat]
Author(i) == i[1]
ById(set, i) == CHOOSE o \in set : o.id = i
Ids(set) == {o.id : o \in set}

Init ==
  /\ time = 0
  /\ rooms = [n \in Node |-> None]
  /\ pending = [n \in Node |-> <<>>]
  /\ orders = [n \in Node |-> {}]
  /\ air = {} /\ authored = {}
  /\ unread = [n \in Node |-> {}]
  /\ register = [n \in Node |-> [m \in Node |-> None]]
  /\ known = [n \in Node |-> {}]
  /\ shown = [n \in Node |-> [m \in Node |-> None]]
  /\ fixes = [n \in Node |-> 0]
  /\ attaches = [n \in Node |-> 0]

\* mergeOrder: a version that is not newer changes nothing.
Merged(store, o) ==
  IF o.id \notin Ids(store) THEN store \cup {o}
  ELSE IF ById(store, o.id).ts >= o.ts THEN store
  ELSE (store \ {ById(store, o.id)}) \cup {o}
-----------------------------------------------------------------------------
\* What n sends of the orders in the list; what cannot be encoded is dropped.
FramesOf(n, list, room) ==
  {[from |-> n, frame |-> f] : f \in {EncodedBy(n, o, room) : o \in ToSet(list)} \ {None}}

CanonicalAnchor(p) ==
  [i \in 1 .. 2 |-> Cell * ((p[i] + Cell) \div (2 * Cell))]

AnchorFrame(room) ==
  [op |-> "anchor", anchor |-> room.anchor, epoch |-> room.epoch, size |-> AnchorBytes]

RoomAt(n) == [anchor |-> CanonicalAnchor(Where[n]), epoch |-> time \div 2]

\* ensureAnchor of a node without a room: the anchor, then what waited; the
\* frames of more leave after them.
Established(n, more) ==
  /\ rooms' = [rooms EXCEPT ![n] = RoomAt(n)]
  /\ air' = air \cup {[from |-> n, frame |-> f] : f \in more \cup {AnchorFrame(RoomAt(n))}}
                \cup FramesOf(n, pending[n], RoomAt(n))
  /\ pending' = [pending EXCEPT ![n] = <<>>]

EnsureAnchor(n, more) ==
  IF rooms[n] = None THEN Established(n, more)
  ELSE air' = air \cup {[from |-> n, frame |-> f] : f \in more} /\ UNCHANGED <<rooms, pending>>

\* A fix that was acquired before the module was attached.
FirstFix(n) ==
  /\ rooms[n] = None
  /\ EnsureAnchor(n, {})
  /\ UNCHANGED <<time, orders, unread, register, known, shown, fixes, attaches, authored>>

\* POSITION_APP goes beside the frames of the codec, and needs no room to be
\* read; the cadence that spaces positions is PositionInterval of Governor.
PositionFrame(n) == [op |-> "position", at |-> Where[n], ts |-> Rounded(time), size |-> 0]

SendPosition(n) ==
  /\ fixes[n] < MaxFixes[n]
  /\ fixes' = [fixes EXCEPT ![n] = @ + 1]
  /\ EnsureAnchor(n, {PositionFrame(n)})
  /\ UNCHANGED <<time, orders, unread, register, known, shown, attaches, authored>>

\* toggleMesh, with a session: the module takes our callsign and tells it.
Announce(n) ==
  /\ n \in InSession
  /\ air' = air \cup {[from |-> n, frame |-> [op |-> "user", size |-> 0]]}
  /\ UNCHANGED <<time, transport, fixes, attaches, authored>>

\* sendOrder of order o: it waits for a room, or leaves.
Submitted(n, o) ==
  IF rooms[n] = None
    THEN pending' = [pending EXCEPT ![n] = Append(@, o)] /\ UNCHANGED air
    ELSE air' = air \cup FramesOf(n, <<o>>, rooms[n]) /\ UNCHANGED pending

Composed(n) == {o \in authored : Author(o.id) = n}

\* sendGraphic, deleteOrder, sendChat...: what is removed or acknowledged is
\* on the card.
Compose(n) ==
  /\ Cardinality(Composed(n)) < MaxOrders
  /\ \E p \in Drafts[n] :
       LET o == [id |-> <<n, Cardinality(Composed(n))>>, ts |-> time, payload |-> p]
       IN  /\ p.kind \in {"remove", "ack"} => p.target \in Ids(orders[n])
           /\ authored' = authored \cup {o}
           /\ orders' = [orders EXCEPT ![n] = Merged(@, o)]
           /\ Submitted(n, o)
  /\ UNCHANGED <<time, rooms, unread, register, known, shown, fixes, attaches>>

\* The anti-entropy has one of the orders held sent again.
Resend(n) ==
  /\ rooms[n] # None
  /\ \E o \in orders[n] : Submitted(n, o)
  /\ UNCHANGED <<time, rooms, orders, unread, register, known, shown, fixes, attaches, authored>>
-----------------------------------------------------------------------------
\* onPrivate: without a room nothing can be read, whatever the frame.
Unreadable(n, p) ==
  /\ rooms[n] = None
  /\ unread' = [unread EXCEPT ![n] = @ \cup {p.frame.op}]
  /\ UNCHANGED <<rooms, pending, orders>>

\* An anchor is adopted by who has none, which never reads one.
OnAnchor(n, f) ==
  /\ rooms[n] # None
  /\ UNCHANGED <<rooms, pending, orders, unread>>

OnOrder(n, p) ==
  /\ rooms[n] # None
  /\ orders' = [orders EXCEPT ![n] = Merged(@, DecodeOrder(p.frame, rooms[n], p.from))]
  /\ UNCHANGED <<rooms, pending, unread>>

HearPrivate(n, p) ==
  /\ p.from # n /\ p.frame.op \notin {"position", "user"}
  /\ \/ Unreadable(n, p)
     \/ p.frame.op = "anchor" /\ OnAnchor(n, p.frame)
     \/ p.frame.op # "anchor" /\ OnOrder(n, p)
  /\ UNCHANGED <<time, register, known, shown, air, fixes, attaches, authored>>

\* A bug that lets the last to arrive win.
AnyReplaces(current, f) == current = None \/ current # f

\* apply: the fix that is newest by its own clock.  The origin, which would
\* decide between equal ones, is always the member itself.
Replaces(current, f) == IF current = None THEN TRUE ELSE f.ts > current.ts

HearPosition(n, p) ==
  /\ p.from # n /\ p.frame.op = "position"
  /\ Replaces(register[n][p.from], p.frame)
  /\ register' = [register EXCEPT ![n][p.from] = p.frame]
  /\ shown' = IF p.from \in known[n] THEN [shown EXCEPT ![n][p.from] = p.frame] ELSE shown
  /\ UNCHANGED <<time, rooms, pending, orders, unread, known, air, fixes, attaches, authored>>

\* A bug that shows a new member without the position that came first.
NoPosition(n, m) == None

FirstShown(n, m) == register[n][m]

HearUser(n, p) ==
  /\ p.from \notin known[n] \cup {n} /\ p.frame.op = "user"
  /\ known' = [known EXCEPT ![n] = @ \cup {p.from}]
  /\ shown' = [shown EXCEPT ![n][p.from] = FirstShown(n, p.from)]
  /\ UNCHANGED <<time, rooms, pending, orders, unread, register, air, fixes, attaches, authored>>

\* detachMesh and attachMeshRadio: a new transport, with the store of before.
Attach(n) ==
  /\ attaches[n] < MaxAttach[n]
  /\ attaches' = [attaches EXCEPT ![n] = @ + 1]
  /\ rooms' = [rooms EXCEPT ![n] = None]
  /\ pending' = [pending EXCEPT ![n] = <<>>]
  /\ unread' = [unread EXCEPT ![n] = {}]
  /\ register' = [register EXCEPT ![n] = [m \in Node |-> None]]
  /\ UNCHANGED <<time, orders, known, shown, air, fixes, authored>>

Pass == /\ time < MaxTime
        /\ time' = time + 1
        /\ UNCHANGED <<transport, air, fixes, attaches, authored>>

Next == \/ \E n \in Node : \/ FirstFix(n) \/ SendPosition(n) \/ Announce(n) \/ Compose(n)
                           \/ Resend(n) \/ Attach(n)
        \/ \E n \in Node, p \in air : HearPrivate(n, p) \/ HearPosition(n, p) \/ HearUser(n, p)
        \/ Pass

Spec == Init /\ [][Next]_vars
-----------------------------------------------------------------------------
TypeOK ==
  /\ time \in 0 .. MaxTime
  /\ \A n \in Node :
       /\ rooms[n] = None \/ rooms[n] \in Room
       /\ rooms[n] # None => pending[n] = <<>>
       /\ \A o, p \in orders[n] : o.id = p.id => o = p
       /\ \A op \in unread[n] : \E p \in air : p.frame.op = op
       /\ known[n] \subseteq Node \ {n}
       /\ fixes[n] \in 0 .. MaxFixes[n]

(***************************************************************************)
(* Every frame fits the radio, the envelope of a relay included, although  *)
(* the line it carries fitted exactly when its author sent it              *)
(* (codec.ts:446).                                                         *)
(***************************************************************************)
FramesFit == \A p \in air : p.frame.size <= MaxPayload

(***************************************************************************)
(* Types; and whoever holds an order holds it under its true author, and a *)
(* removal means the object its author meant, however many nodes relayed   *)
(* it and whatever rooms they read it in: otherwise « un remove viserait   *)
(* le mauvais figuré » (meshTransport.ts:262).                             *)
(***************************************************************************)
AuthorsKept ==
  /\ TypeOK
  /\ \A n \in Node : \A o \in orders[n] :
       /\ o.id \in Ids(authored)
       /\ LET a == ById(authored, o.id).payload
          IN  /\ o.payload.kind = a.kind
              /\ a.kind \in {"remove", "ack"} => o.payload.target = a.target

Near(p, q) == \A i \in 1 .. 2 : Abs(p[i] - q[i]) <= 1

\* All rooms established so far are the same.
Agreed ==
  \A p, q \in air : p.frame.op = "anchor" /\ q.frame.op = "anchor" => p.frame = q.frame

(***************************************************************************)
(* As long as all rooms are the same, places and instants are those that   *)
(* the author meant, to the half metre and half second, also after several *)
(* encodings, and a line keeps its two ends however much it was thinned    *)
(* (codec.ts:464).                                                         *)
(***************************************************************************)
ReadAsMeant ==
  Agreed =>
    \A n \in Node : \A o \in orders[n] :
      LET a == ById(authored, o.id)
          p == o.payload
          q == a.payload
      IN  /\ Abs(o.ts - a.ts) <= 1
          /\ q.kind = "waypoint" => Near(p.at, q.at)
          /\ q.kind = "clear" => Abs(p.before - q.before) <= 1
          /\ q.kind = "graphic" =>
               /\ Near(p.points[1], q.points[1])
               /\ ~q.polygon => Near(Last(p.points), Last(q.points))

(***************************************************************************)
(* The marker of a member is at the newest position heard of it, be it     *)
(* before or after the member was (meshTransport.ts:228).                  *)
(***************************************************************************)
ShownIsNewest ==
  \A n \in Node, m \in Node :
    m \in known[n] /\ register[n][m] # None => shown[n][m] = register[n][m]

(***************************************************************************)
(* The marker of a member never goes back in time once the transport has   *)
(* heard of it (positions.ts:21).  After a new connection it may: the      *)
(* register starts empty and a delayed position is taken for a new one.    *)
(***************************************************************************)
MarkersAdvance ==
  [][attaches' = attaches =>
       \A n, m \in Node :
         shown[n][m] # None /\ register[n][m] # None =>
           shown'[n][m] # None /\ shown'[n][m].ts >= shown[n][m].ts]_vars

(***************************************************************************)
(* « On adopte l'ancre annoncée si on n'en avait pas » (meshTransport.ts:  *)
(* 179): no anchor is lost on a node that has none.  It is: a node without *)
(* a room reads no frame at all.                                           *)
(***************************************************************************)
AnchorsAreRead == \A n \in Node : "anchor" \notin unread[n]

(***************************************************************************)
(* « une trame reçue deux fois (réémission d'un pair [...]) ne change rien *)
(* la seconde fois » (orders.ts:20): the author of an order keeps it as it *)
(* composed it.  It does not: an instant that was rounded up makes the     *)
(* version of the radio, thinned and quantised, the newer one.             *)
(***************************************************************************)
OwnOrdersUnchanged ==
  \A n \in Node : \A o \in orders[n] : Author(o.id) = n => o \in authored
=============================================================================
