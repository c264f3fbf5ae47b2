--------------------------- MODULE OrderReplicas ----------------------------
(***************************************************************************)
(* The replicas of the OR-Set on a LoRa mesh without a server: each node   *)
(* composes orders (mapView, commsPanel), applies them locally and puts    *)
(* them on the air (transport/index.ts sendOrder), merges the frames it    *)
(* hears (meshTransport.ts onPrivate) and compacts its store whenever the  *)
(* deferred save fires (meshStore.ts).                                     *)
(*                                                                         *)
(* The air keeps every frame ever sent: a frame may be heard by a node     *)
(* never, once or several times (a peer's re-emission), in any order, and  *)
(* until it is MaxDelay old.                                               *)
(***************************************************************************)
EXTENDS Orders

CONSTANTS Node,      \* the nodes of the mesh, which are the authors
          Skew,      \* how far each node's clock is ahead of the slowest one
          Grain,     \* clock ticks in one second, the grain of a frame's timestamp
          Ttl,       \* TOMBSTONE_TTL_MS, in ticks
          MaxDelay,  \* the age up to which a frame may still be heard, in ticks
          MaxTime,   \* bound of the model: the clock stops there
          MaxFrames  \* bound of the model: no order is composed beyond these frames

ASSUME ReplicasAssumption ==
  /\ Node \subseteq Author
  /\ Skew \in [Node -> Nat]
  /\ Grain \in Nat \ {0}
  /\ Ttl \in Nat \ {0}
  /\ MaxDelay \in Nat
  /\ MaxTime \in Nat
  /\ MaxFrames \in Nat
  /\ \A n \in Node : MaxDelay + Skew[n] <= Ttl

VARIABLES
  time,       \* the slowest clock, in ticks
  store,      \* state.orders of each node
  air,        \* the frames sent so far, as a receiver decodes them
  dirty,      \* nodes whose deferred save is pending
  seen,       \* history: what each node has merged, as it merged it
  compacted   \* history: nodes whose compactions have dropped something

vars == <<time, store, air, dirty, seen, compacted>>

Message == [id : Id, order : Order]

Msg(i, o) == [id |-> i, order |-> o]

Clock(n) == time + Skew[n]

\* Mutant: the epoch of the room is not added back when a frame is decoded.
SecondsFromEpoch(t) == ((t + (Grain \div 2)) \div Grain) * Grain - Grain

\* Math.round to the second: writeOrderHeader and the bound of a CLEAR_ALL.
Seconds(t) == ((t + (Grain \div 2)) \div Grain) * Grain

\* decodeFrame of encodeOrder: exact but for the timestamps.
OnAir(o) == [o EXCEPT !.ts = Seconds(@), !.beforeTs = Seconds(@)]

Fresh == Id \ {m.id : m \in air}

TypeOK ==
  /\ time \in 0 .. MaxTime
  /\ store \in [Node -> Store]
  /\ air \subseteq Message
  /\ dirty \subseteq Node
  /\ seen \in [Node -> SUBSET Message]
  /\ compacted \subseteq Node

Init ==
  /\ time = 0
  /\ store = [n \in Node |-> EmptyStore]
  /\ air = {}
  /\ dirty = {}
  /\ seen = [n \in Node |-> {}]
  /\ compacted = {}

-----------------------------------------------------------------------------
(* Merging at n: an 'orders' event, hence a deferred save, only when the   *)
(* store has changed.                                                      *)
Apply(n, i, o) ==
  LET merged == MergeOrder(store[n], i, o) IN
  /\ store' = [store EXCEPT ![n] = merged]
  /\ dirty' = IF merged = store[n] THEN dirty ELSE dirty \cup {n}
  /\ seen' = [seen EXCEPT ![n] = @ \cup {Msg(i, o)}]

(* sendOrder: applied at once here, encoded for the others. *)
Submit(n, i, o) ==
  /\ Cardinality(air) < MaxFrames
  /\ Apply(n, i, o)
  /\ air' = air \cup {Msg(i, OnAir(o))}
  /\ UNCHANGED <<time, compacted>>

DrawObject(n) == \E i \in Fresh : Submit(n, i, Object(Clock(n), n))

\* A text or an ack is composed in a room of the server, and goes on the air too.
SendNote(n) == \E i \in Fresh : Submit(n, i, Note(Clock(n), n))

(* The edit menus keep the id; the object may have been removed by someone *)
(* else since the menu was opened, so it need not be visible any more.     *)
EditObject(n, i) ==
  /\ i \in OfKind(store[n], "object")
  /\ Submit(n, i, Object(Clock(n), n))

DeleteOrder(n, i) ==
  /\ i \in OfKind(store[n], "object")
  /\ \E r \in Fresh : Submit(n, r, Remove(Clock(n), i, n))

(* The two readings of the clock in clearWholeMap, for ts and for beforeTs, *)
(* are taken as one.                                                        *)
ClearWholeMap(n) ==
  /\ Visible(store[n]) # {}
  /\ \E c \in Fresh : Submit(n, c, Clear(Clock(n), n))

(* A frame may come back to its own author, by way of a relay. *)
Receive(n, m) ==
  /\ m \in air
  /\ time - m.order.ts < MaxDelay
  /\ Apply(n, m.id, m.order)
  /\ UNCHANGED <<time, air, compacted>>

(* saveMeshOrders compacts the live store in place before it writes it. *)
Save(n) ==
  LET kept == CompactOrders(store[n], Clock(n) - Ttl) IN
  /\ n \in dirty
  /\ store' = [store EXCEPT ![n] = kept]
  /\ compacted' = IF kept = store[n] THEN compacted ELSE compacted \cup {n}
  /\ dirty' = dirty \ {n}
  /\ UNCHANGED <<time, air, seen>>

Tick ==
  /\ time < MaxTime
  /\ time' = time + 1
  /\ UNCHANGED <<store, air, dirty, seen, compacted>>

Next ==
  \/ \E n \in Node :
       \/ DrawObject(n)
       \/ SendNote(n)
       \/ \E i \in Id : EditObject(n, i) \/ DeleteOrder(n, i)
       \/ ClearWholeMap(n)
       \/ \E m \in air : Receive(n, m)
       \/ Save(n)
  \/ Tick

Spec == Init /\ [][Next]_vars

-----------------------------------------------------------------------------
(* What a set of messages says of the card, in whatever order they came:   *)
(* an object shows when one of its versions is newer than every tombstone  *)
(* that covers it.                                                         *)
Covers(t, i) == \/ t.order.kind = "remove" /\ t.order.target = i
                \/ t.order.kind = "clear"

Reach(t) == IF t.order.kind = "clear" THEN t.order.beforeTs ELSE t.order.ts

Card(messages) ==
  {i \in Id : \E m \in messages :
     /\ m.id = i
     /\ m.order.kind = "object"
     /\ \A t \in messages : Covers(t, i) => Reach(t) < m.order.ts}

(* The card of a node that has dropped nothing is the add-wins card of     *)
(* what it has merged: duplicates and the order of arrival do not matter,  *)
(* an update newer than the removals wins, nothing else comes back         *)
(* (mergeOrder, suppression and isHidden together).                        *)
CardIsAddWins ==
  \A n \in Node \ compacted : Visible(store[n]) = Card(seen[n])

(* Once a node has merged a removal, no version that the removal covers    *)
(* shows on its card again, even after a compaction has dropped the        *)
(* tombstone and a late frame brings the old version back (mergeOrder,     *)
(* compactOrders and the TTL together; clocks may be skewed).              *)
NoResurrection ==
  \A n \in Node : \A t \in seen[n] : \A i \in OfKind(store[n], "object") :
    Covers(t, i) /\ store[n][i].ts <= Reach(t) => IsHidden(store[n], i)

(* A compaction never makes an object appear (compactOrders takes a        *)
(* tombstone and what it masks together).                                  *)
SaveRevealsNothing ==
  [][\A n \in Node : Save(n) => Visible(store'[n]) \subseteq Visible(store[n])]_vars

(* Deleting an object hides it at once from the one who deletes it, unless *)
(* its version comes from a clock ahead of theirs: the deletion right      *)
(* after the creation acts (isHidden, equality goes to the deletion).      *)
DeletionActs ==
  [][\A n \in Node, i \in Id :
       DeleteOrder(n, i) /\ store[n][i].ts <= Clock(n) => i \notin Visible(store'[n])]_vars

(* Claimed by the comment of compactOrders, "Purge les tombstones expirés, *)
(* et ce qu'ils masquaient": a compaction drops no object that shows.      *)
SaveKeepsTheCard ==
  [][\A n \in Node : Save(n) => Visible(store[n]) \subseteq Visible(store'[n])]_vars

=============================================================================
