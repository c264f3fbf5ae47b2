------------------------------- MODULE Orders -------------------------------
(***************************************************************************)
(* The OR-Set of orders (client/src/crdt/orders.ts): what a replica holds, *)
(* how an incoming order is merged, what a tombstone hides and what a      *)
(* compaction drops.  Pure operators on one replica's store; the replicas  *)
(* and the air between them are in OrderReplicas.                          *)
(*                                                                         *)
(* A store maps an order id to the version held, or to Absent.  Payloads   *)
(* are kept as far as the masking rule reads them:                         *)
(*   "object"  a graphic or a waypoint (by: who composed its content)      *)
(*   "note"    a text or an ack, dropped once expired                      *)
(*   "remove"  a tombstone for the order target                            *)
(*   "clear"   a tombstone for everything up to beforeTs                   *)
(***************************************************************************)
EXTENDS Integers, FiniteSets

CONSTANTS Id,       \* order identifiers
          Author,   \* who may compose an order
          NoId,     \* the target of an order that is not a remove
          Absent    \* the value of a store where it holds no order

Kind == {"object", "note", "remove", "clear"}

Order == [kind : Kind, ts : Nat, target : Id \cup {NoId},
          beforeTs : Nat, by : Author]

Store == [Id -> Order \cup {Absent}]

ASSUME OrdersAssumption == /\ NoId \notin Id
                           /\ Absent \notin Order

Object(t, a)    == [kind |-> "object", ts |-> t, target |-> NoId, beforeTs |-> 0, by |-> a]
Note(t, a)      == [kind |-> "note",   ts |-> t, target |-> NoId, beforeTs |-> 0, by |-> a]
Remove(t, i, a) == [kind |-> "remove", ts |-> t, target |-> i,    beforeTs |-> 0, by |-> a]
Clear(t, a)     == [kind |-> "clear",  ts |-> t, target |-> NoId, beforeTs |-> t, by |-> a]

EmptyStore == [i \in Id |-> Absent]

Held(store) == {i \in Id : store[i] # Absent}

OfKind(store, k) == {i \in Held(store) : store[i].kind = k}

-----------------------------------------------------------------------------
(* mergeOrder: the newest version of an id wins, the one held wins a tie.  *)

\* Mutant: the last frame received wins, whatever its timestamp.
MergeLastReceived(store, id, o) == [store EXCEPT ![id] = o]

MergeOrder(store, id, o) ==
  IF id \in Held(store) /\ store[id].ts >= o.ts
  THEN store
  ELSE [store EXCEPT ![id] = o]

-----------------------------------------------------------------------------
(* suppression and isHidden.  The code keeps the newest remove of each     *)
(* target and the largest beforeTs and compares with these maxima; some    *)
(* tombstone reaches the order exactly when the maximum does.              *)

\* Mutant: a remove of the same instant as its target no longer hides it.
RemovedStrictly(store, id) ==
  \E r \in OfKind(store, "remove") :
    store[r].target = id /\ store[id].ts < store[r].ts

Removed(store, id) ==
  \E r \in OfKind(store, "remove") :
    store[r].target = id /\ store[id].ts <= store[r].ts

Cleared(store, id) ==
  \E c \in OfKind(store, "clear") : store[id].ts <= store[c].beforeTs

IsHidden(store, id) == Cleared(store, id) \/ Removed(store, id)

(* visibleGraphics and visibleWaypoints: the card shown to the user.       *)
Visible(store) == {i \in OfKind(store, "object") : ~IsHidden(store, i)}

-----------------------------------------------------------------------------
(* compactOrders.                                                          *)

\* Mutant: an expired tombstone goes alone and leaves its targets behind.
DoomedAlone(store, e) ==
  IF store[e].kind = "object" THEN {} ELSE {e}

\* What the expired order e takes with it.
DoomedBy(store, e) ==
  CASE store[e].kind = "remove" -> {e, store[e].target}
    [] store[e].kind = "clear"  -> {e} \cup {i \in Held(store) : store[i].ts <= store[e].beforeTs}
    [] store[e].kind = "note"   -> {e}
    [] OTHER                    -> {}

\* The targets of the removes that have not expired, which a compaction spares.
Protected(store, cutoff) ==
  {store[r].target : r \in {q \in OfKind(store, "remove") : store[q].ts > cutoff}}

Doomed(store, cutoff) ==
  (UNION {DoomedBy(store, e) : e \in {h \in Held(store) : store[h].ts <= cutoff}})
    \ Protected(store, cutoff)

CompactOrders(store, cutoff) ==
  [i \in Id |-> IF i \in Doomed(store, cutoff) THEN Absent ELSE store[i]]

=============================================================================
