------------------------ MODULE OrderReplicasProofs -------------------------
(***************************************************************************)
(* Proofs about OrderReplicas, for every set of nodes, every skew, grain   *)
(* and TTL allowed by ReplicasAssumption:                                  *)
(*   TypeCorrect       Spec => []TypeOK                                    *)
(*   NoOrderComesBack  Spec => []NoResurrection                            *)
(*   AddWins           Spec => []CardIsAddWins                             *)
(*   NothingIsRevealed Spec => SaveRevealsNothing                          *)
(*   DeletionsAct      Spec => DeletionActs                                *)
(* and about OrderIds, which justifies that OrderReplicas takes the id of  *)
(* a new order for one that no order has (Fresh):                          *)
(*   FreshWithOneRadio SpecIds => []NextIsFresh                            *)
(***************************************************************************)
EXTENDS OrderReplicas, OrderIds, TLAPS

(* Decoding gives a timestamp back, whatever the grain. *)
LEMMA SecondsType ==
  ASSUME NEW t \in Nat
  PROVE  Seconds(t) \in Nat
<1> DEFINE h == Grain \div 2
           q == (t + h) \div Grain
<1>1. Grain \in Nat /\ Grain > 0
  BY ReplicasAssumption
<1>2. h \in Nat
  BY <1>1
<1>3. q \in Nat
  BY <1>1, <1>2
<1>4. q * Grain \in Nat
  BY <1>1, <1>3
<1> QED
  BY <1>4 DEF Seconds

LEMMA ClockType ==
  ASSUME TypeOK, NEW n \in Node
  PROVE  Clock(n) \in Nat
BY ReplicasAssumption DEF TypeOK, Clock

LEMMA OnAirType ==
  ASSUME NEW o \in Order
  PROVE  OnAir(o) \in Order
BY SecondsType DEF OnAir, Order

LEMMA MergeType ==
  ASSUME NEW S \in Store, NEW i \in Id, NEW o \in Order
  PROVE  MergeOrder(S, i, o) \in Store
BY DEF MergeOrder, Store

LEMMA CompactType ==
  ASSUME NEW S \in Store, NEW cutoff \in Int
  PROVE  CompactOrders(S, cutoff) \in Store
BY DEF CompactOrders, Store

LEMMA PayloadType ==
  ASSUME NEW t \in Nat, NEW n \in Node, NEW i \in Id
  PROVE  /\ Object(t, n) \in Order
         /\ Note(t, n) \in Order
         /\ Remove(t, i, n) \in Order
         /\ Clear(t, n) \in Order
BY ReplicasAssumption DEF Object, Note, Remove, Clear, Order, Kind

LEMMA ApplyType ==
  ASSUME TypeOK, NEW n \in Node, NEW i \in Id, NEW o \in Order, Apply(n, i, o)
  PROVE  /\ store' \in [Node -> Store]
         /\ dirty' \subseteq Node
         /\ seen' \in [Node -> SUBSET Message]
<1>1. store[n] \in Store
  BY DEF TypeOK
<1>2. store' \in [Node -> Store]
  BY <1>1, MergeType DEF Apply, TypeOK
<1>3. dirty' \subseteq Node
  BY DEF Apply, TypeOK
<1>4. Msg(i, o) \in Message
  BY DEF Msg, Message
<1>5. seen' \in [Node -> SUBSET Message]
  BY <1>4 DEF Apply, TypeOK
<1> QED
  BY <1>2, <1>3, <1>5

LEMMA SubmitType ==
  ASSUME TypeOK, NEW n \in Node, NEW i \in Id, NEW o \in Order, Submit(n, i, o)
  PROVE  TypeOK'
<1>1. Msg(i, OnAir(o)) \in Message
  BY OnAirType DEF Msg, Message
<1>2. Apply(n, i, o) /\ air' = air \cup {Msg(i, OnAir(o))} /\ UNCHANGED <<time, compacted>>
  BY DEF Submit
<1> QED
  BY <1>1, <1>2, ApplyType DEF TypeOK

LEMMA TypeStep == TypeOK /\ [Next]_vars => TypeOK'
<1> SUFFICES ASSUME TypeOK, [Next]_vars
             PROVE  TypeOK'
  OBVIOUS
<1>1. ASSUME NEW n \in Node, DrawObject(n)
      PROVE  TypeOK'
  BY <1>1, ClockType, PayloadType, SubmitType DEF DrawObject, Fresh
<1>2. ASSUME NEW n \in Node, SendNote(n)
      PROVE  TypeOK'
  BY <1>2, ClockType, PayloadType, SubmitType DEF SendNote, Fresh
<1>3. ASSUME NEW n \in Node, NEW i \in Id, EditObject(n, i)
      PROVE  TypeOK'
  BY <1>3, ClockType, PayloadType, SubmitType DEF EditObject
<1>4. ASSUME NEW n \in Node, NEW i \in Id, DeleteOrder(n, i)
      PROVE  TypeOK'
  BY <1>4, ClockType, PayloadType, SubmitType DEF DeleteOrder, Fresh
<1>5. ASSUME NEW n \in Node, ClearWholeMap(n)
      PROVE  TypeOK'
  <2>1. PICK c \in Fresh : Submit(n, c, Clear(Clock(n), n))
    BY <1>5 DEF ClearWholeMap
  <2>2. c \in Id
    BY DEF Fresh
  <2> QED
    BY <2>1, <2>2, ClockType, PayloadType, SubmitType
<1>6. ASSUME NEW n \in Node, NEW m \in air, Receive(n, m)
      PROVE  TypeOK'
  <2>1. m.id \in Id /\ m.order \in Order
    BY DEF TypeOK, Message
  <2>2. Apply(n, m.id, m.order) /\ UNCHANGED <<time, air, compacted>>
    BY <1>6 DEF Receive
  <2> QED
    BY <2>1, <2>2, ApplyType DEF TypeOK
<1>7. ASSUME NEW n \in Node, Save(n)
      PROVE  TypeOK'
  <2>1. Clock(n) - Ttl \in Int /\ store[n] \in Store
    BY ClockType, ReplicasAssumption DEF TypeOK
  <2>2. CompactOrders(store[n], Clock(n) - Ttl) \in Store
    BY <2>1, CompactType
  <2> QED
    BY <1>7, <2>2 DEF Save, TypeOK
<1>8. CASE Tick
  BY <1>8, ReplicasAssumption DEF Tick, TypeOK
<1>9. CASE UNCHANGED vars
  BY <1>9 DEF vars, TypeOK
<1> QED
  BY <1>1, <1>2, <1>3, <1>4, <1>5, <1>6, <1>7, <1>8, <1>9 DEF Next

(* Every replica stays well formed: timestamps and bounds are natural      *)
(* numbers whatever is composed, encoded, heard or compacted.              *)
THEOREM TypeCorrect == Spec => []TypeOK
<1>1. Init => TypeOK
  BY ReplicasAssumption DEF Init, TypeOK, EmptyStore, Store
<1> QED
  BY <1>1, TypeStep, PTL DEF Spec

-----------------------------------------------------------------------------
(* The inductive invariant.  NoResurrection alone is not inductive: that a *)
(* late frame cannot bring an order back rests on where the tombstones are *)
(* (Kept), on an id never changing its kind (AirOf, OneKind), and on a     *)
(* remove never aiming at a tombstone (RemovesObjects): otherwise an       *)
(* expired remove would take a live tombstone with it.                     *)

Tombstone(o) == o.kind \in {"remove", "clear"}

SameRole(o, p) == o.kind = p.kind /\ o.target = p.target

\* What a node holds, it has merged.
StoreSeen ==
  \A n \in Node : \A i \in Held(store[n]) : Msg(i, store[n][i]) \in seen[n]

\* What a node has merged is, but for its timestamp, on the air.
AirOf ==
  \A n \in Node : \A m \in seen[n] :
    \E a \in air : a.id = m.id /\ SameRole(a.order, m.order)

OneKind ==
  \A a, b \in air : a.id = b.id => SameRole(a.order, b.order)

RemovesObjects ==
  \A a \in air : a.order.kind = "remove" =>
    \E b \in air : b.id = a.order.target /\ b.order.kind = "object"

\* The bound of a clear is its timestamp, and an object has no target.
WellBuilt(o) == /\ o.kind = "clear" => o.beforeTs = o.ts
                /\ o.kind = "object" => o.target = NoId

AllWellBuilt ==
  /\ \A a \in air : WellBuilt(a.order)
  /\ \A n \in Node : \A m \in seen[n] : WellBuilt(m.order)

\* A merged version is held, or a newer one is, unless a compaction may have
\* dropped it since; without a compaction every version is, not only tombstones.
Kept ==
  \A n \in Node : \A m \in seen[n] :
    \/ m.id \in Held(store[n]) /\ store[n][m.id].ts >= m.order.ts
    \/ /\ n \in compacted
       /\ Tombstone(m.order) => m.order.ts <= Clock(n) - Ttl

IInv ==
  /\ TypeOK
  /\ StoreSeen
  /\ AirOf
  /\ OneKind
  /\ RemovesObjects
  /\ AllWellBuilt
  /\ Kept
  /\ NoResurrection

(* Everything a node has merged under one id has one role. *)
LEMMA RoleStable ==
  ASSUME AirOf, OneKind, NEW n \in Node, NEW p \in Node,
         NEW m \in seen[n], NEW t \in seen[p], m.id = t.id
  PROVE  SameRole(m.order, t.order)
<1>1. PICK a \in air : a.id = m.id /\ SameRole(a.order, m.order)
  BY DEF AirOf
<1>2. PICK b \in air : b.id = t.id /\ SameRole(b.order, t.order)
  BY DEF AirOf
<1>3. SameRole(a.order, b.order)
  BY <1>1, <1>2 DEF OneKind
<1> QED
  BY <1>1, <1>2, <1>3 DEF SameRole

(* Whatever is held under the id of a merged message has its role. *)
LEMMA HeldRole ==
  ASSUME TypeOK, StoreSeen, AirOf, OneKind, NEW n \in Node, NEW m \in seen[n],
         m.id \in Held(store[n])
  PROVE  SameRole(store[n][m.id], m.order)
<1>1. Msg(m.id, store[n][m.id]) \in seen[n]
  BY DEF StoreSeen
<1> QED
  BY <1>1, RoleStable DEF Msg

(* Types of the stores, once and for all. *)
LEMMA StoreFacts ==
  ASSUME TypeOK, NEW n \in Node
  PROVE  /\ store[n] \in Store
         /\ \A i \in Held(store[n]) : store[n][i] \in Order
         /\ \A m \in seen[n] : m.id \in Id /\ m.order \in Order
         /\ \A m \in air : m.id \in Id /\ m.order \in Order
BY DEF TypeOK, Store, Held, Message

-----------------------------------------------------------------------------
(* What a compaction keeps, on a well-formed store. *)

WellFormed(S) ==
  /\ \A r \in OfKind(S, "remove") : S[r].target \in Held(S) => S[S[r].target].kind = "object"
  /\ \A c \in Held(S) : WellBuilt(S[c])

(* A tombstone that has not expired is never taken by a compaction.        *)
LEMMA CompactSpares ==
  ASSUME NEW S \in Store, NEW cutoff \in Int, WellFormed(S),
         NEW t \in Held(S), Tombstone(S[t]), S[t].ts > cutoff
  PROVE  /\ t \in Held(CompactOrders(S, cutoff))
         /\ CompactOrders(S, cutoff)[t] = S[t]
<1>1. ASSUME NEW e \in Held(S), S[e].ts <= cutoff, t \in DoomedBy(S, e)
      PROVE  FALSE
  <2>1. S[e] \in Order /\ S[t] \in Order
    BY DEF Held, Store
  <2>2. t # e
    BY <1>1, <2>1 DEF Order
  <2>3. CASE S[e].kind = "remove"
    <3>1. t = S[e].target
      BY <1>1, <2>2, <2>3 DEF DoomedBy
    <3>2. S[t].kind = "object"
      BY <2>3, <3>1 DEF WellFormed, OfKind
    <3> QED
      BY <3>2 DEF Tombstone
  <2>4. CASE S[e].kind = "clear"
    <3>1. S[t].ts <= S[e].beforeTs
      BY <1>1, <2>2, <2>4 DEF DoomedBy
    <3>2. S[e].beforeTs = S[e].ts
      BY <2>4 DEF WellFormed, WellBuilt
    <3> QED
      BY <1>1, <2>1, <3>1, <3>2 DEF Order
  <2>5. CASE S[e].kind \in {"note", "object"}
    BY <1>1, <2>2, <2>5 DEF DoomedBy
  <2> QED
    BY <2>1, <2>3, <2>4, <2>5 DEF Order, Kind
<1>2. t \notin Doomed(S, cutoff)
  BY <1>1 DEF Doomed
<1> QED
  BY <1>2 DEF CompactOrders, Held

(* What a tombstone hid before a compaction is gone or still hidden after. *)
LEMMA CompactHides ==
  ASSUME NEW S \in Store, NEW cutoff \in Int, WellFormed(S),
         NEW i \in Held(CompactOrders(S, cutoff)), IsHidden(S, i)
  PROVE  IsHidden(CompactOrders(S, cutoff), i)
<1> DEFINE C == CompactOrders(S, cutoff)
<1>1. i \in Held(S) /\ C[i] = S[i] /\ i \notin Doomed(S, cutoff)
  BY DEF CompactOrders, Held
<1>2. \A k \in Held(S) : S[k] \in Order
  BY DEF Held, Store
<1>3. ASSUME NEW e \in Held(S), S[e].ts <= cutoff, i \in DoomedBy(S, e), S[i].ts <= S[e].ts
      PROVE  IsHidden(C, i)
  <2>0. i \in UNION {DoomedBy(S, f) : f \in {h \in Held(S) : S[h].ts <= cutoff}}
    BY <1>3
  <2>1. i \in Protected(S, cutoff)
    BY <1>1, <2>0 DEF Doomed
  <2>2. PICK q \in OfKind(S, "remove") : S[q].ts > cutoff /\ S[q].target = i
    BY <2>1 DEF Protected
  <2>3. q \in Held(S) /\ Tombstone(S[q])
    BY <2>2 DEF OfKind, Tombstone
  <2>4. q \in Held(C) /\ C[q] = S[q]
    BY <2>2, <2>3, CompactSpares
  <2>5. S[i].ts <= S[q].ts
    BY <1>1, <1>2, <1>3, <2>2, <2>3 DEF Order
  <2> QED
    BY <1>1, <2>2, <2>4, <2>5 DEF IsHidden, Removed, OfKind
<1>4. CASE Cleared(S, i)
  <2>1. PICK c \in OfKind(S, "clear") : S[i].ts <= S[c].beforeTs
    BY <1>4 DEF Cleared
  <2>2. c \in Held(S) /\ S[c].kind = "clear" /\ Tombstone(S[c]) /\ S[c].beforeTs = S[c].ts
    BY <2>1 DEF OfKind, Tombstone, WellFormed, WellBuilt
  <2>3. CASE S[c].ts > cutoff
    <3>1. c \in Held(C) /\ C[c] = S[c]
      BY <2>2, <2>3, CompactSpares
    <3> QED
      BY <1>1, <2>1, <2>2, <3>1 DEF IsHidden, Cleared, OfKind
  <2>4. CASE S[c].ts <= cutoff
    <3>1. i \in DoomedBy(S, c)
      BY <1>1, <2>1, <2>2 DEF DoomedBy
    <3> QED
      BY <1>3, <2>1, <2>2, <2>4, <3>1
  <2> QED
    BY <1>2, <2>2, <2>3, <2>4 DEF Order
<1>5. CASE Removed(S, i)
  <2>1. PICK r \in OfKind(S, "remove") : S[r].target = i /\ S[i].ts <= S[r].ts
    BY <1>5 DEF Removed
  <2>2. r \in Held(S) /\ S[r].kind = "remove" /\ Tombstone(S[r])
    BY <2>1 DEF OfKind, Tombstone
  <2>3. CASE S[r].ts > cutoff
    <3>1. r \in Held(C) /\ C[r] = S[r]
      BY <2>2, <2>3, CompactSpares
    <3> QED
      BY <1>1, <2>1, <2>2, <3>1 DEF IsHidden, Removed, OfKind
  <2>4. CASE S[r].ts <= cutoff
    <3>1. i \in DoomedBy(S, r)
      BY <2>1, <2>2 DEF DoomedBy
    <3> QED
      BY <1>3, <2>1, <2>2, <2>4, <3>1
  <2> QED
    BY <1>2, <2>2, <2>3, <2>4 DEF Order
<1> QED
  BY <1>4, <1>5 DEF IsHidden

(* A version that a merge leaves in place stays hidden if it was.          *)
LEMMA MergeHides ==
  ASSUME NEW S \in Store, NEW i \in Id, NEW o \in Order,
         i \in Held(S) => SameRole(S[i], o), WellBuilt(o),
         \A c \in Held(S) : WellBuilt(S[c]),
         NEW j \in Held(S), MergeOrder(S, i, o)[j] = S[j], IsHidden(S, j)
  PROVE  IsHidden(MergeOrder(S, i, o), j)
<1> DEFINE M == MergeOrder(S, i, o)
<1>1. \A k \in Held(S) : S[k] \in Order
  BY DEF Held, Store
<1>2. \A k \in Held(S) : k \in Held(M) /\ SameRole(M[k], S[k])
                         /\ M[k].ts >= S[k].ts /\ WellBuilt(M[k])
  <2> SUFFICES ASSUME NEW k \in Held(S)
               PROVE  k \in Held(M) /\ SameRole(M[k], S[k])
                      /\ M[k].ts >= S[k].ts /\ WellBuilt(M[k])
    OBVIOUS
  <2>1. CASE M[k] = S[k]
    BY <1>1, <2>1 DEF Held, SameRole, Order
  <2>2. CASE M[k] # S[k]
    <3>1. k = i /\ M[k] = o /\ ~(S[i].ts >= o.ts)
      BY <2>2 DEF MergeOrder, Store, Held
    <3> QED
      BY <1>1, <3>1, OrdersAssumption DEF Held, SameRole, Order
  <2> QED
    BY <2>1, <2>2
<1>3. CASE Cleared(S, j)
  <2>1. PICK c \in OfKind(S, "clear") : S[j].ts <= S[c].beforeTs
    BY <1>3 DEF Cleared
  <2>2. c \in Held(S) /\ S[c].kind = "clear"
    BY <2>1 DEF OfKind
  <2>3. c \in Held(M) /\ M[c].kind = "clear"
    BY <1>2, <2>2 DEF SameRole
  <2>4. M[c].beforeTs >= S[c].beforeTs
    BY <1>2, <2>2, <2>3 DEF WellBuilt
  <2>5. M[c] \in Order
    BY <2>3, MergeType DEF Held, Store
  <2>6. M[j].ts <= M[c].beforeTs
    BY <1>1, <2>1, <2>2, <2>4, <2>5 DEF Order
  <2> QED
    BY <2>3, <2>6 DEF IsHidden, Cleared, OfKind
<1>4. CASE Removed(S, j)
  <2>1. PICK r \in OfKind(S, "remove") : S[r].target = j /\ S[j].ts <= S[r].ts
    BY <1>4 DEF Removed
  <2>2. r \in Held(S) /\ S[r].kind = "remove"
    BY <2>1 DEF OfKind
  <2>3. r \in Held(M) /\ M[r].kind = "remove" /\ M[r].target = j /\ M[r].ts >= S[r].ts
    BY <1>2, <2>1, <2>2 DEF SameRole
  <2>4. M[r] \in Order
    BY <2>3, MergeType DEF Held, Store
  <2>5. M[j].ts <= M[r].ts
    BY <1>1, <2>1, <2>2, <2>3, <2>4 DEF Order
  <2> QED
    BY <2>3, <2>5 DEF IsHidden, Removed, OfKind
<1> QED
  BY <1>3, <1>4 DEF IsHidden

(* A tombstone in the store hides whatever it covers and reaches.          *)
LEMMA HeldTombstoneHides ==
  ASSUME NEW S \in Store, NEW t \in Message, NEW j \in Held(S), Covers(t, j),
         t.id \in Held(S), SameRole(S[t.id], t.order), S[t.id].ts >= t.order.ts,
         WellBuilt(t.order), WellBuilt(S[t.id]), S[j].ts <= Reach(t)
  PROVE  IsHidden(S, j)
<1>1. S[t.id] \in Order /\ S[j] \in Order /\ t.order \in Order
  BY DEF Held, Store, Message
<1>2. CASE t.order.kind = "clear"
  BY <1>1, <1>2 DEF IsHidden, Cleared, OfKind, SameRole, WellBuilt, Reach, Order
<1>3. CASE t.order.kind = "remove"
  BY <1>1, <1>3 DEF IsHidden, Removed, OfKind, SameRole, Covers, Reach, Order
<1> QED
  BY <1>2, <1>3 DEF Covers

-----------------------------------------------------------------------------
(* A merge at one node, of its own order or of a frame not older than the  *)
(* node's TTL, preserves the invariant.                                    *)
LEMMA ApplyInv ==
  ASSUME IInv, NEW n \in Node, NEW i \in Id, NEW o \in Order, Apply(n, i, o),
         UNCHANGED <<time, compacted>>, TypeOK',
         air \subseteq air', \E a \in air' : a.id = i /\ SameRole(a.order, o),
         OneKind', RemovesObjects', \A a \in air' : WellBuilt(a.order),
         WellBuilt(o), o.ts > Clock(n) - Ttl
  PROVE  IInv'
<1> DEFINE S == store[n]
           M == MergeOrder(S, i, o)
<1>1. S \in Store /\ M \in Store /\ \A k \in Held(S) : S[k] \in Order
  BY StoreFacts, MergeType DEF IInv
<1>2. /\ store'[n] = M
      /\ \A p \in Node \ {n} : store'[p] = store[p]
      /\ seen'[n] = seen[n] \cup {Msg(i, o)}
      /\ \A p \in Node \ {n} : seen'[p] = seen[p]
  BY DEF Apply, IInv, TypeOK
<1>3. \A p \in Node : Clock(p)' = Clock(p)
  BY DEF Clock
<1>4. \A k \in Id : \/ M[k] = S[k] /\ (k = i => i \in Held(S) /\ S[i].ts >= o.ts)
                    \/ k = i /\ M[k] = o /\ (i \in Held(S) => ~(S[i].ts >= o.ts))
  BY <1>1 DEF MergeOrder, Store
<1>5. StoreSeen'
  <2> SUFFICES ASSUME NEW p \in Node, NEW k \in Held(store'[p])
               PROVE  Msg(k, store'[p][k]) \in seen'[p]
    BY DEF StoreSeen
  <2>1. CASE p # n
    BY <1>2, <2>1 DEF IInv, StoreSeen
  <2>2. CASE p = n /\ M[k] = S[k]
    BY <1>2, <2>2 DEF IInv, StoreSeen, Held
  <2>3. CASE p = n /\ M[k] # S[k]
    BY <1>2, <1>4, <2>3 DEF Held
  <2> QED
    BY <2>1, <2>2, <2>3
<1>6. AirOf'
  <2> SUFFICES ASSUME NEW p \in Node, NEW m \in seen'[p]
               PROVE  \E a \in air' : a.id = m.id /\ SameRole(a.order, m.order)
    BY DEF AirOf
  <2>1. CASE m \in seen[p]
    BY <2>1 DEF IInv, AirOf
  <2>2. CASE m = Msg(i, o)
    BY <2>2 DEF Msg
  <2> QED
    BY <1>2, <2>1, <2>2
<1>7. AllWellBuilt'
  <2>1. \A p \in Node : \A m \in seen'[p] : WellBuilt(m.order)
    BY <1>2 DEF IInv, AllWellBuilt, Msg
  <2> QED
    BY <2>1 DEF AllWellBuilt
<1>8. i \in Held(S) => SameRole(S[i], o)
  <2> SUFFICES ASSUME i \in Held(S)
               PROVE  SameRole(S[i], o)
    OBVIOUS
  <2>1. Msg(i, S[i]) \in seen[n]
    BY DEF IInv, StoreSeen
  <2>2. PICK a \in air : a.id = i /\ SameRole(a.order, S[i])
    BY <2>1 DEF IInv, AirOf, Msg
  <2>3. PICK b \in air' : b.id = i /\ SameRole(b.order, o)
    OBVIOUS
  <2>4. SameRole(a.order, b.order)
    BY <2>2, <2>3 DEF OneKind
  <2> QED
    BY <2>2, <2>3, <2>4 DEF SameRole
<1>9. Kept'
  <2> SUFFICES ASSUME NEW p \in Node, NEW m \in seen'[p]
               PROVE  \/ m.id \in Held(store'[p]) /\ store'[p][m.id].ts >= m.order.ts
                      \/ /\ p \in compacted'
                         /\ Tombstone(m.order) => m.order.ts <= Clock(p)' - Ttl
    BY DEF Kept
  <2>1. CASE p # n
    BY <1>2, <1>3, <2>1 DEF IInv, Kept
  <2>2. CASE p = n /\ m = Msg(i, o)
    <3>1. m.id = i /\ m.order = o
      BY <2>2 DEF Msg
    <3>2. M[i] = o \/ (M[i] = S[i] /\ i \in Held(S) /\ S[i].ts >= o.ts)
      BY <1>4
    <3>3. o # Absent /\ o.ts >= o.ts
      BY OrdersAssumption DEF Order
    <3> QED
      BY <1>2, <2>2, <3>1, <3>2, <3>3 DEF Held
  <2>3. CASE p = n /\ m \in seen[n]
    <3>1. CASE m.id \in Held(S) /\ S[m.id].ts >= m.order.ts
      <4>1. m.order \in Order /\ m.id \in Id /\ S[m.id] \in Order
        BY <1>1, <2>3, <3>1, StoreFacts DEF IInv
      <4>2. CASE M[m.id] = S[m.id]
        BY <1>2, <2>3, <3>1, <4>2 DEF Held
      <4>3. CASE M[m.id] # S[m.id]
        <5>1. m.id = i /\ M[i] = o /\ ~(S[i].ts >= o.ts)
          BY <1>4, <3>1, <4>1, <4>3
        <5>2. o.ts >= m.order.ts /\ o # Absent
          BY <3>1, <4>1, <5>1, OrdersAssumption DEF Order
        <5> QED
          BY <1>2, <2>3, <4>1, <5>1, <5>2 DEF Held
      <4> QED
        BY <4>2, <4>3
    <3>2. CASE ~(m.id \in Held(S) /\ S[m.id].ts >= m.order.ts)
      BY <1>3, <2>3, <3>2 DEF IInv, Kept
    <3> QED
      BY <3>1, <3>2
  <2> QED
    BY <1>2, <2>1, <2>2, <2>3
<1>10. NoResurrection'
  <2> SUFFICES ASSUME NEW p \in Node, NEW t \in seen'[p],
                      NEW j \in OfKind(store'[p], "object"),
                      Covers(t, j), store'[p][j].ts <= Reach(t)
               PROVE  IsHidden(store'[p], j)
    BY DEF NoResurrection, Covers, Reach
  <2>1. CASE p # n
    BY <1>2, <2>1 DEF IInv, NoResurrection
  <2>2. CASE p = n
    <3>1. j \in Held(M) /\ M[j] \in Order /\ t \in Message /\ t.order \in Order /\ t.id \in Id
      BY <1>1, <1>2, <2>2 DEF OfKind, Held, Store, TypeOK, Message
    <3>2. Tombstone(t.order) /\ WellBuilt(t.order) /\ Reach(t) = t.order.ts
      BY <1>7, <2>2 DEF Covers, Tombstone, AllWellBuilt, WellBuilt, Reach
    <3>3. CASE t.id \in Held(M) /\ M[t.id].ts >= t.order.ts
      <4>1. Msg(t.id, M[t.id]) \in seen'[n]
        BY <1>2, <1>5, <3>3 DEF StoreSeen
      <4>2. WellBuilt(M[t.id])
        BY <1>7, <4>1 DEF AllWellBuilt, Msg
      <4>3. SameRole(M[t.id], t.order)
        <5>1. PICK a \in air' : a.id = t.id /\ SameRole(a.order, M[t.id])
          BY <1>6, <4>1 DEF AirOf, Msg
        <5>2. PICK b \in air' : b.id = t.id /\ SameRole(b.order, t.order)
          BY <1>6, <2>2 DEF AirOf
        <5>3. SameRole(a.order, b.order)
          BY <5>1, <5>2 DEF OneKind
        <5> QED
          BY <5>1, <5>2, <5>3 DEF SameRole
      <4> QED
        BY <1>1, <1>2, <2>2, <3>1, <3>2, <3>3, <4>2, <4>3, HeldTombstoneHides
    <3>4. CASE t.order.ts <= Clock(n) - Ttl
      <4>1. Clock(n) - Ttl \in Int
        BY ClockType, ReplicasAssumption DEF IInv
      <4>2. t # Msg(i, o) /\ M[j] # o
        BY <1>2, <2>2, <3>1, <3>2, <3>4, <4>1 DEF Msg, Order
      <4>3. t \in seen[n] /\ M[j] = S[j] /\ j \in Held(S)
        BY <1>2, <1>4, <2>2, <3>1, <4>2 DEF Held
      <4>4. j \in OfKind(S, "object") /\ S[j].ts <= Reach(t)
        BY <1>2, <2>2, <4>3 DEF OfKind
      <4>5. IsHidden(S, j)
        BY <4>3, <4>4 DEF IInv, NoResurrection
      <4>6. \A c \in Held(S) : WellBuilt(S[c])
        BY DEF IInv, StoreSeen, AllWellBuilt, Msg
      <4> QED
        BY <1>1, <1>2, <1>8, <2>2, <4>3, <4>5, <4>6, MergeHides
    <3> QED
      BY <1>2, <1>3, <1>9, <2>2, <3>2, <3>3, <3>4 DEF Kept
  <2> QED
    BY <2>1, <2>2
<1> QED
  BY <1>5, <1>6, <1>7, <1>9, <1>10 DEF IInv

(* Composing an order: an id of one's own, or that of an object held.      *)
LEMMA SubmitInv ==
  ASSUME IInv, NEW n \in Node, NEW i \in Id, NEW o \in Order, Submit(n, i, o), TypeOK',
         o.ts = Clock(n), WellBuilt(o),
         i \in Fresh \/ \E a \in air : a.id = i /\ SameRole(a.order, o),
         o.kind = "remove" => \E b \in air : b.id = o.target /\ b.order.kind = "object"
  PROVE  IInv'
<1> DEFINE f == Msg(i, OnAir(o))
<1>1. /\ Apply(n, i, o)
      /\ UNCHANGED <<time, compacted>>
      /\ air' = air \cup {f}
  BY DEF Submit
<1>2. f.id = i /\ f.order = OnAir(o) /\ SameRole(f.order, o) /\ WellBuilt(f.order)
  BY DEF Msg, OnAir, SameRole, Order, WellBuilt
<1>3. \A a \in air : a.id = i => SameRole(a.order, o)
  BY DEF IInv, OneKind, Fresh, SameRole
<1>4. OneKind'
  BY <1>1, <1>2, <1>3 DEF IInv, OneKind, SameRole
<1>5. RemovesObjects'
  BY <1>1, <1>2 DEF IInv, RemovesObjects, SameRole
<1>6. \A a \in air' : WellBuilt(a.order)
  BY <1>1, <1>2 DEF IInv, AllWellBuilt
<1>7. o.ts > Clock(n) - Ttl
  BY ClockType, ReplicasAssumption DEF IInv
<1> QED
  BY <1>1, <1>2, <1>4, <1>5, <1>6, <1>7, ApplyInv

(* A removal that is held aims at an object, a clear carries its own date. *)
LEMMA StoreIsWellFormed ==
  ASSUME IInv, NEW n \in Node
  PROVE  WellFormed(store[n])
<1> DEFINE S == store[n]
<1>1. ASSUME NEW r \in OfKind(S, "remove"), S[r].target \in Held(S)
      PROVE  S[S[r].target].kind = "object"
  <2>1. Msg(r, S[r]) \in seen[n] /\ Msg(S[r].target, S[S[r].target]) \in seen[n]
    BY <1>1 DEF IInv, StoreSeen, OfKind
  <2>2. PICK a \in air : SameRole(a.order, S[r])
    BY <2>1 DEF IInv, AirOf, Msg
  <2>3. PICK b \in air : b.id = S[r].target /\ b.order.kind = "object"
    BY <1>1, <2>2 DEF IInv, RemovesObjects, SameRole, OfKind
  <2>4. PICK d \in air : d.id = S[r].target /\ SameRole(d.order, S[S[r].target])
    BY <2>1 DEF IInv, AirOf, Msg
  <2> QED
    BY <2>3, <2>4 DEF IInv, OneKind, SameRole
<1>2. ASSUME NEW c \in Held(S)
      PROVE  WellBuilt(S[c])
  BY <1>2 DEF IInv, StoreSeen, AllWellBuilt, Msg
<1> QED
  BY <1>1, <1>2 DEF WellFormed

(* A compaction preserves the invariant. *)
LEMMA SaveInv ==
  ASSUME IInv, NEW n \in Node, Save(n), TypeOK'
  PROVE  IInv'
<1> DEFINE S == store[n]
           cutoff == Clock(n) - Ttl
           C == CompactOrders(S, cutoff)
<1>1. S \in Store /\ \A k \in Held(S) : S[k] \in Order
  BY StoreFacts DEF IInv
<1>2. cutoff \in Int
  BY ClockType, ReplicasAssumption DEF IInv
<1>3. /\ store'[n] = C
      /\ \A p \in Node \ {n} : store'[p] = store[p]
      /\ UNCHANGED <<time, air, seen>>
      /\ compacted \subseteq compacted'
      /\ C # S => n \in compacted'
      /\ \A p \in Node : Clock(p)' = Clock(p)
  BY DEF Save, IInv, TypeOK, Clock
<1>4. \A k \in Id : C[k] = S[k] \/ C[k] = Absent
  BY DEF CompactOrders
<1>5. Held(C) \subseteq Held(S) /\ \A k \in Held(C) : C[k] = S[k]
  BY <1>4 DEF Held
<1>6. WellFormed(S)
  BY StoreIsWellFormed
<1>7. StoreSeen'
  BY <1>3, <1>5 DEF IInv, StoreSeen
<1>8. AirOf' /\ OneKind' /\ RemovesObjects' /\ AllWellBuilt'
  BY <1>3 DEF IInv, AirOf, OneKind, RemovesObjects, AllWellBuilt
<1>9. Kept'
  <2> SUFFICES ASSUME NEW p \in Node, NEW m \in seen[p]
               PROVE  \/ m.id \in Held(store'[p]) /\ store'[p][m.id].ts >= m.order.ts
                      \/ /\ p \in compacted'
                         /\ Tombstone(m.order) => m.order.ts <= Clock(p) - Ttl
    BY <1>3 DEF Kept
  <2>1. CASE p # n
    BY <1>3, <2>1 DEF IInv, Kept
  <2>2. CASE p = n /\ ~(m.id \in Held(S) /\ S[m.id].ts >= m.order.ts)
    BY <1>3, <2>2 DEF IInv, Kept
  <2>3. CASE p = n /\ m.id \in Held(S) /\ S[m.id].ts >= m.order.ts
    <3>1. CASE m.id \in Held(C)
      BY <1>3, <1>5, <2>3, <3>1
    <3>2. CASE m.id \notin Held(C)
      <4>1. n \in compacted'
        BY <1>3, <2>3, <3>2
      <4>2. ASSUME Tombstone(m.order)
            PROVE  m.order.ts <= cutoff
        <5>1. SameRole(S[m.id], m.order)
          BY <2>3, HeldRole DEF IInv
        <5>2. Tombstone(S[m.id])
          BY <4>2, <5>1 DEF Tombstone, SameRole
        <5>3. ~(S[m.id].ts > cutoff)
          BY <1>1, <1>2, <1>6, <2>3, <3>2, <5>2, CompactSpares
        <5>4. m.order \in Order /\ S[m.id] \in Order
          BY <1>1, <2>3, StoreFacts DEF IInv
        <5> QED
          BY <1>2, <2>3, <5>3, <5>4 DEF Order
      <4> QED
        BY <2>3, <4>1, <4>2
    <3> QED
      BY <3>1, <3>2
  <2> QED
    BY <2>1, <2>2, <2>3
<1>10. NoResurrection'
  <2> SUFFICES ASSUME NEW p \in Node, NEW t \in seen[p],
                      NEW j \in OfKind(store'[p], "object"),
                      Covers(t, j), store'[p][j].ts <= Reach(t)
               PROVE  IsHidden(store'[p], j)
    BY <1>3 DEF NoResurrection, Covers, Reach
  <2>1. CASE p # n
    BY <1>3, <2>1 DEF IInv, NoResurrection
  <2>2. CASE p = n
    <3>1. j \in Held(C) /\ C[j] = S[j] /\ j \in OfKind(S, "object")
      BY <1>3, <1>5, <2>2 DEF OfKind
    <3>2. IsHidden(S, j)
      BY <1>3, <2>2, <3>1 DEF IInv, NoResurrection
    <3> QED
      BY <1>1, <1>2, <1>3, <1>6, <2>2, <3>1, <3>2, CompactHides
  <2> QED
    BY <2>1, <2>2
<1> QED
  BY <1>7, <1>8, <1>9, <1>10 DEF IInv

(* Time only makes more tombstones expire. *)
LEMMA TickInv ==
  ASSUME IInv, Tick, TypeOK'
  PROVE  IInv'
<1>1. UNCHANGED <<store, air, dirty, seen, compacted>> /\ time' = time + 1
  BY DEF Tick
<1>2. StoreSeen' /\ AirOf' /\ OneKind' /\ RemovesObjects' /\ AllWellBuilt' /\ NoResurrection'
  BY <1>1 DEF IInv, StoreSeen, AirOf, OneKind, RemovesObjects, AllWellBuilt, NoResurrection
<1>3. Kept'
  <2> SUFFICES ASSUME NEW p \in Node, NEW m \in seen[p]
               PROVE  \/ m.id \in Held(store[p]) /\ store[p][m.id].ts >= m.order.ts
                      \/ /\ p \in compacted
                         /\ Tombstone(m.order) => m.order.ts <= Clock(p)' - Ttl
    BY <1>1 DEF Kept
  <2>1. m.order.ts \in Nat
    BY StoreFacts DEF IInv, Order
  <2>2. Clock(p) \in Nat /\ Clock(p)' = Clock(p) + 1
    BY <1>1, ClockType, ReplicasAssumption DEF IInv, TypeOK, Clock
  <2> QED
    BY <2>1, <2>2, ReplicasAssumption DEF IInv, Kept
<1> QED
  BY <1>2, <1>3 DEF IInv

LEMMA IInvStep == IInv /\ [Next]_vars => IInv'
<1> SUFFICES ASSUME IInv, [Next]_vars
             PROVE  IInv'
  OBVIOUS
<1>1. TypeOK /\ TypeOK'
  BY TypeStep DEF IInv
<1>2. ASSUME NEW n \in Node, DrawObject(n)
      PROVE  IInv'
  <2>1. PICK i \in Fresh : Submit(n, i, Object(Clock(n), n))
    BY <1>2 DEF DrawObject
  <2> QED
    BY <1>1, <2>1, ClockType, PayloadType, SubmitInv DEF Fresh, Object, WellBuilt
<1>3. ASSUME NEW n \in Node, SendNote(n)
      PROVE  IInv'
  <2>1. PICK i \in Fresh : Submit(n, i, Note(Clock(n), n))
    BY <1>3 DEF SendNote
  <2> QED
    BY <1>1, <2>1, ClockType, PayloadType, SubmitInv DEF Fresh, Note, WellBuilt
<1>4. ASSUME NEW n \in Node, NEW i \in Id, EditObject(n, i)
      PROVE  IInv'
  <2>1. i \in Held(store[n]) /\ store[n][i].kind = "object" /\ Submit(n, i, Object(Clock(n), n))
    BY <1>4 DEF EditObject, OfKind
  <2>2. \E a \in air : a.id = i /\ SameRole(a.order, store[n][i])
    BY <2>1 DEF IInv, StoreSeen, AirOf, Msg
  <2>3. store[n][i].target = NoId
    BY <2>1 DEF IInv, StoreSeen, AllWellBuilt, WellBuilt, Msg
  <2> QED
    BY <1>1, <2>1, <2>2, <2>3, ClockType, PayloadType, SubmitInv DEF Object, WellBuilt, SameRole
<1>5. ASSUME NEW n \in Node, NEW i \in Id, DeleteOrder(n, i)
      PROVE  IInv'
  <2>1. PICK r \in Fresh : Submit(n, r, Remove(Clock(n), i, n))
    BY <1>5 DEF DeleteOrder
  <2>2. i \in Held(store[n]) /\ store[n][i].kind = "object"
    BY <1>5 DEF DeleteOrder, OfKind
  <2>3. \E b \in air : b.id = i /\ b.order.kind = "object"
    BY <2>2 DEF IInv, StoreSeen, AirOf, Msg, SameRole
  <2> QED
    BY <1>1, <2>1, <2>3, ClockType, PayloadType, SubmitInv DEF Fresh, Remove, WellBuilt
<1>6. ASSUME NEW n \in Node, ClearWholeMap(n)
      PROVE  IInv'
  <2>1. PICK c \in Fresh : Submit(n, c, Clear(Clock(n), n))
    BY <1>6 DEF ClearWholeMap
  <2> QED
    BY <1>1, <2>1, ClockType, PayloadType, SubmitInv DEF Fresh, Clear, WellBuilt
<1>7. ASSUME NEW n \in Node, NEW m \in air, Receive(n, m)
      PROVE  IInv'
  <2>1. m.id \in Id /\ m.order \in Order
    BY <1>1 DEF TypeOK, Message
  <2>2. Apply(n, m.id, m.order) /\ UNCHANGED <<time, air, compacted>> /\ time - m.order.ts < MaxDelay
    BY <1>7 DEF Receive
  <2>3. m.order.ts > Clock(n) - Ttl
    BY <1>1, <2>1, <2>2, ReplicasAssumption DEF Clock, TypeOK, Order
  <2>4. OneKind' /\ RemovesObjects' /\ (\A a \in air' : WellBuilt(a.order)) /\ WellBuilt(m.order)
    BY <2>2 DEF IInv, OneKind, RemovesObjects, AllWellBuilt
  <2>5. \E a \in air' : a.id = m.id /\ SameRole(a.order, m.order)
    BY <2>2 DEF SameRole
  <2> QED
    BY <1>1, <2>1, <2>2, <2>3, <2>4, <2>5, ApplyInv
<1>8. ASSUME NEW n \in Node, Save(n)
      PROVE  IInv'
  BY <1>1, <1>8, SaveInv
<1>9. CASE Tick
  BY <1>1, <1>9, TickInv
<1>10. CASE UNCHANGED vars
  BY <1>10 DEF vars, IInv, TypeOK, StoreSeen, AirOf, OneKind, RemovesObjects,
               AllWellBuilt, Kept, Clock, NoResurrection
<1> QED
  BY <1>2, <1>3, <1>4, <1>5, <1>6, <1>7, <1>8, <1>9, <1>10 DEF Next

LEMMA InvariantHolds == Spec => []IInv
<1>1. Init => IInv
  <2> SUFFICES ASSUME Init
               PROVE  IInv
    OBVIOUS
  <2>1. TypeOK
    BY ReplicasAssumption DEF Init, TypeOK, EmptyStore, Store
  <2> QED
    BY <2>1 DEF Init, IInv, EmptyStore, Held, StoreSeen, AirOf, OneKind,
                RemovesObjects, AllWellBuilt, Kept, NoResurrection
<1> QED
  BY <1>1, IInvStep, PTL DEF Spec

(* What a removal has hidden from a node never shows there again, as long  *)
(* as no frame is heard after MaxDelay and MaxDelay plus the skew of the   *)
(* clocks stays within the TTL.                                            *)
THEOREM NoOrderComesBack == Spec => []NoResurrection
<1>1. IInv => NoResurrection
  BY DEF IInv
<1> QED
  BY <1>1, InvariantHolds, PTL

(* Until a compaction has dropped something, a node's card is the add-wins *)
(* card of the set of messages it has merged.                              *)
LEMMA CardFromIInv == IInv => CardIsAddWins
<1> SUFFICES ASSUME IInv, NEW n \in Node \ compacted
             PROVE  Visible(store[n]) = Card(seen[n])
  BY DEF CardIsAddWins
<1> DEFINE S == store[n]
<1>1. /\ S \in Store
      /\ \A i \in Held(S) : S[i] \in Order
      /\ \A m \in seen[n] : m.id \in Id /\ m.order \in Order
  BY StoreFacts DEF IInv
<1>2. \A m \in seen[n] : /\ m.id \in Held(S)
                         /\ S[m.id].ts >= m.order.ts
                         /\ SameRole(S[m.id], m.order)
                         /\ WellBuilt(m.order)
                         /\ WellBuilt(S[m.id])
  BY HeldRole DEF IInv, Kept, AllWellBuilt, StoreSeen, Msg
<1>3. ASSUME NEW i \in Visible(S)
      PROVE  i \in Card(seen[n])
  <2>1. i \in Held(S) /\ S[i].kind = "object" /\ ~IsHidden(S, i)
    BY <1>3 DEF Visible, OfKind
  <2>2. Msg(i, S[i]) \in seen[n]
    BY <2>1 DEF IInv, StoreSeen
  <2>3. ASSUME NEW t \in seen[n], Covers(t, i)
        PROVE  Reach(t) < S[i].ts
    <3>1. t.id \in Held(S) /\ S[t.id] \in Order /\ t.order \in Order /\ t \in Message
      BY <1>1, <1>2 DEF IInv, TypeOK
    <3>2. ~(S[i].ts <= Reach(t))
      BY <1>1, <1>2, <2>1, <2>3, <3>1, HeldTombstoneHides
    <3>3. Reach(t) \in Nat /\ S[i].ts \in Nat
      BY <1>1, <2>1, <3>1 DEF Reach, Order
    <3> QED
      BY <3>2, <3>3
  <2> QED
    BY <2>1, <2>2, <2>3 DEF Card, Msg, Held
<1>4. ASSUME NEW i \in Card(seen[n])
      PROVE  i \in Visible(S)
  <2>1. PICK m \in seen[n] : /\ m.id = i
                             /\ m.order.kind = "object"
                             /\ \A t \in seen[n] : Covers(t, i) => Reach(t) < m.order.ts
    BY <1>4 DEF Card
  <2>2. i \in Held(S) /\ S[i].kind = "object" /\ S[i].ts >= m.order.ts
    BY <1>2, <2>1 DEF SameRole
  <2>3. ASSUME NEW t \in Held(S), Covers(Msg(t, S[t]), i)
        PROVE  Reach(Msg(t, S[t])) < S[i].ts
    <3>1. Msg(t, S[t]) \in seen[n]
      BY DEF IInv, StoreSeen
    <3>2. Reach(Msg(t, S[t])) < m.order.ts
      BY <2>1, <2>3, <3>1
    <3>3. Reach(Msg(t, S[t])) \in Nat /\ S[i].ts \in Nat /\ m.order.ts \in Nat
      BY <1>1, <2>1, <2>2 DEF Reach, Msg, Order
    <3> QED
      BY <2>2, <3>2, <3>3
  <2>4. ~Cleared(S, i)
    <3> SUFFICES ASSUME NEW c \in OfKind(S, "clear"), S[i].ts <= S[c].beforeTs
                 PROVE  FALSE
      BY DEF Cleared
    <3>1. c \in Held(S) /\ Covers(Msg(c, S[c]), i) /\ Reach(Msg(c, S[c])) = S[c].beforeTs
      BY DEF OfKind, Covers, Reach, Msg
    <3> QED
      BY <1>1, <2>2, <2>3, <3>1 DEF Order
  <2>5. ~Removed(S, i)
    <3> SUFFICES ASSUME NEW r \in OfKind(S, "remove"), S[r].target = i, S[i].ts <= S[r].ts
                 PROVE  FALSE
      BY DEF Removed
    <3>1. r \in Held(S) /\ Covers(Msg(r, S[r]), i) /\ Reach(Msg(r, S[r])) = S[r].ts
      BY DEF OfKind, Covers, Reach, Msg
    <3> QED
      BY <1>1, <2>2, <2>3, <3>1 DEF Order
  <2> QED
    BY <2>2, <2>4, <2>5 DEF Visible, IsHidden, OfKind
<1> QED
  BY <1>3, <1>4

THEOREM AddWins == Spec => []CardIsAddWins
BY CardFromIInv, InvariantHolds, PTL

(* A compaction never makes an object appear: a tombstone that it drops    *)
(* takes what it masks with it, or another one still masks it              *)
(* (compactOrders).                                                        *)
THEOREM NothingIsRevealed == Spec => SaveRevealsNothing
<1> DEFINE Hides == \A n \in Node : Save(n) => Visible(store'[n]) \subseteq Visible(store[n])
<1>1. ASSUME IInv PROVE Hides
  <2> SUFFICES ASSUME NEW n \in Node, Save(n), NEW i \in Visible(store'[n])
               PROVE  i \in Visible(store[n])
    OBVIOUS
  <2> DEFINE S == store[n]
             cutoff == Clock(n) - Ttl
             C == CompactOrders(S, cutoff)
  <2>1. S \in Store /\ cutoff \in Int /\ WellFormed(S)
    BY <1>1, StoreFacts, ClockType, StoreIsWellFormed, ReplicasAssumption DEF IInv
  <2>2. store'[n] = C
    BY <1>1 DEF Save, IInv, TypeOK
  <2>3. i \in Held(C) /\ C[i].kind = "object" /\ ~IsHidden(C, i)
    BY <2>2 DEF Visible, OfKind
  <2>4. i \in Held(S) /\ C[i] = S[i]
    BY <2>3 DEF CompactOrders, Held
  <2>5. ~IsHidden(S, i)
    BY <2>1, <2>3, CompactHides
  <2> QED
    BY <2>3, <2>4, <2>5 DEF Visible, OfKind
<1>2. IInv /\ [Next]_vars => [Hides]_vars
  BY <1>1
<1> QED
  BY <1>2, InvariantHolds, PTL DEF Spec, SaveRevealsNothing

(* A deletion hides its object at once, the id of the removal being one    *)
(* that nobody holds anything under (submitOrder, isHidden).               *)
THEOREM DeletionsAct == Spec => DeletionActs
<1> DEFINE Acts ==
      \A n \in Node, i \in Id :
        DeleteOrder(n, i) /\ store[n][i].ts <= Clock(n) => i \notin Visible(store'[n])
<1>1. ASSUME IInv PROVE Acts
  <2> SUFFICES ASSUME NEW n \in Node, NEW i \in Id, DeleteOrder(n, i),
                      store[n][i].ts <= Clock(n)
               PROVE  i \notin Visible(store'[n])
    OBVIOUS
  <2> DEFINE S == store[n]
  <2>1. S \in Store /\ i \in Held(S)
    BY <1>1, StoreFacts DEF IInv, DeleteOrder, OfKind
  <2>2. PICK r \in Fresh : Submit(n, r, Remove(Clock(n), i, n))
    BY DEF DeleteOrder
  <2> DEFINE o == Remove(Clock(n), i, n)
             M == MergeOrder(S, r, o)
  <2>3. r \in Id /\ r \notin Held(S)
    <3>1. ASSUME r \in Held(S) PROVE \E a \in air : a.id = r
      BY <1>1, <3>1 DEF IInv, StoreSeen, AirOf, Msg
    <3> QED
      BY <3>1 DEF Fresh
  <2>4. store'[n] = M
    BY <1>1, <2>2 DEF Submit, Apply, IInv, TypeOK
  <2>5. M[r] = o /\ M[i] = S[i]
    BY <2>1, <2>3 DEF MergeOrder, Store
  <2>6. o # Absent
    BY <1>1, ClockType, PayloadType, OrdersAssumption DEF IInv
  <2>7. r \in OfKind(M, "remove") /\ M[r].target = i /\ M[i].ts <= M[r].ts
    BY <2>3, <2>5, <2>6 DEF OfKind, Held, Remove
  <2> QED
    BY <2>4, <2>7 DEF Visible, IsHidden, Removed
<1>2. IInv /\ [Next]_vars => [Acts]_vars
  BY <1>1
<1> QED
  BY <1>2, InvariantHolds, PTL DEF Spec, DeletionActs

-----------------------------------------------------------------------------
(* The identifiers.  With one tab and at most one module, a client never   *)
(* issues the same identifier twice, for any number of orders below the    *)
(* wrap of the sequence numbers.  NextIsFresh is not inductive: it says    *)
(* nothing of what a reload would read back.  The invariant relates the    *)
(* memory of the page and the three keys of the storage to the identifiers *)
(* issued; the two keys of the sequence agree because the module, once     *)
(* adopted, is never given up (NotYetAdopted).                             *)

OneTab   == \A t, u \in Tab : t = u
OneRadio == \A r, s \in Radio : r = s

\* No identifier was issued for n from the number next on.
Ahead(n, next) == \A s \in Seq16 : <<n, s>> \in issued => s < next

WithinCount ==
  /\ OrZero(seqKey) <= count
  /\ \A n \in NodeNumber : OrZero(seqKeyOf[n]) <= count

CounterAhead ==
  \A t \in Tab : counter[t] # None =>
    /\ counter[t].node = nodeKey
    /\ counter[t].next <= count
    /\ Ahead(counter[t].node, counter[t].next)

KeysAhead ==
  /\ \A n \in NodeNumber : Ahead(n, OrZero(seqKeyOf[n]))
  /\ nodeKey # None => Ahead(nodeKey, OrZero(seqKey))
  /\ nodeKey = None => issued = {}

NotYetAdopted ==
  nodeKey \notin Radio => \A r \in Radio, s \in Seq16 : <<r, s>> \notin issued

IdsInv == IdsTypeOK /\ WithinCount /\ CounterAhead /\ KeysAhead /\ NotYetAdopted

-----------------------------------------------------------------------------
(* What ensure() returns, whether the counter was in memory or not: a node *)
(* that is the one of the storage from then on, and a number beyond those  *)
(* issued for it.                                                          *)
LEMMA EnsuredAhead ==
  ASSUME IdsInv, NEW t \in Tab, NEW c \in Ensured(t)
  PROVE  /\ c \in Counter
         /\ c.next <= count
         /\ Ahead(c.node, c.next)
         /\ NodeKept(t, c) = c.node
         /\ nodeKey \in {None, c.node}
         /\ counter[t] # None => nodeKey = c.node
<1>1. CASE counter[t] # None
  <2>1. c = counter[t]
    BY <1>1 DEF Ensured
  <2>2. c \in Counter
    BY <1>1, <2>1 DEF IdsInv, IdsTypeOK
  <2> QED
    BY <1>1, <2>1, <2>2 DEF IdsInv, CounterAhead, NodeKept
<1>2. CASE counter[t] = None
  <2>1. PICK n \in (IF nodeKey = None THEN NodeNumber ELSE {nodeKey}) :
          c = [node |-> n, next |-> OrZero(seqKey)]
    BY <1>2 DEF Ensured
  <2>2. n \in NodeNumber
    BY <2>1 DEF IdsInv, IdsTypeOK
  <2>3. OrZero(seqKey) \in Seq16
    BY OrderIdsAssumption DEF IdsInv, IdsTypeOK, OrZero, Seq16
  <2>4. c \in Counter /\ c.node = n /\ c.next = OrZero(seqKey)
    BY <2>1, <2>2, <2>3 DEF Counter
  <2>5. Ahead(n, OrZero(seqKey))
    BY <2>1 DEF IdsInv, KeysAhead, Ahead
  <2>6. nodeKey \in {None, n}
    BY <2>1
  <2> QED
    BY <1>2, <2>4, <2>5, <2>6 DEF IdsInv, WithinCount, NodeKept
<1> QED
  BY <1>1, <1>2

-----------------------------------------------------------------------------
LEMMA InitIdsInv == InitIds => IdsInv
<1> SUFFICES ASSUME InitIds PROVE IdsInv
  OBVIOUS
<1>1. IdsTypeOK
  BY OrderIdsAssumption DEF InitIds, IdsTypeOK
<1>2. WithinCount
  BY OrderIdsAssumption DEF InitIds, WithinCount, OrZero
<1>3. CounterAhead
  BY DEF InitIds, CounterAhead
<1>4. KeysAhead /\ NotYetAdopted
  BY DEF InitIds, KeysAhead, NotYetAdopted, Ahead
<1> QED
  BY <1>1, <1>2, <1>3, <1>4 DEF IdsInv

LEMMA LoadIdsInv ==
  ASSUME OneTab, IdsInv, NEW t \in Tab, Load(t)
  PROVE  IdsInv'
<1>1. PICK c \in Ensured(t) :
        /\ counter' = [counter EXCEPT ![t] = c]
        /\ nodeKey' = NodeKept(t, c)
        /\ UNCHANGED <<seqKey, seqKeyOf, issued, count>>
  BY DEF Load
<1>2. /\ c \in Counter /\ c.next <= count /\ Ahead(c.node, c.next)
      /\ nodeKey' = c.node /\ nodeKey \in {None, c.node}
  BY <1>1, EnsuredAhead
<1>3. \A u \in Tab : counter'[u] = c
  BY <1>1 DEF OneTab, IdsInv, IdsTypeOK
<1>4. c.node \in NodeNumber /\ c.node # None
  BY <1>2, OrderIdsAssumption DEF Counter
<1>5. IdsTypeOK'
  BY <1>1, <1>2, <1>4 DEF IdsInv, IdsTypeOK
<1>6. WithinCount'
  BY <1>1 DEF IdsInv, WithinCount, OrZero
<1>7. CounterAhead'
  BY <1>1, <1>2, <1>3 DEF CounterAhead, Ahead
<1>8. KeysAhead'
  <2>1. Ahead(c.node, OrZero(seqKey))
    BY <1>2, <1>4 DEF IdsInv, KeysAhead, Ahead
  <2> QED
    BY <1>1, <1>2, <1>4, <2>1 DEF IdsInv, KeysAhead, Ahead, OrZero
<1>9. NotYetAdopted'
  BY <1>1, <1>2 DEF IdsInv, KeysAhead, NotYetAdopted
<1> QED
  BY <1>5, <1>6, <1>7, <1>8, <1>9 DEF IdsInv

(* The step the assumption of one module is for: the module adopted over   *)
(* another node has had nothing issued, so SEQ_KEY, which counts for the   *)
(* node left, cannot be behind.                                            *)
LEMMA AdoptIdsInv ==
  ASSUME OneTab, OneRadio, IdsInv, NEW t \in Tab, NEW r \in Radio, AdoptRadioNode(t, r)
  PROVE  IdsInv'
<1>1. PICK c \in Ensured(t) :
        /\ IF c.node = r
           THEN /\ counter' = [counter EXCEPT ![t] = c]
                /\ nodeKey' = NodeKept(t, c)
           ELSE /\ counter' = [counter EXCEPT ![t] = [node |-> r, next |-> OrZero(seqKeyOf[r])]]
                /\ nodeKey' = r
        /\ UNCHANGED <<seqKey, seqKeyOf, issued, count>>
  BY DEF AdoptRadioNode
<1>2. /\ c \in Counter /\ c.next <= count /\ Ahead(c.node, c.next)
      /\ NodeKept(t, c) = c.node /\ nodeKey \in {None, c.node}
  BY <1>1, EnsuredAhead
<1>3. CASE c.node = r
  <2>1. Load(t)
    BY <1>1, <1>3 DEF Load
  <2> QED
    BY <2>1, LoadIdsInv
<1>4. CASE c.node # r
  <2> DEFINE d == [node |-> r, next |-> OrZero(seqKeyOf[r])]
  <2>1. r \in NodeNumber /\ r # None
    BY OrderIdsAssumption
  <2>2. OrZero(seqKeyOf[r]) \in Seq16 /\ OrZero(seqKeyOf[r]) <= count
    BY <2>1, OrderIdsAssumption DEF IdsInv, IdsTypeOK, WithinCount, OrZero, Seq16
  <2>3. d \in Counter /\ d.node = r /\ d.next = OrZero(seqKeyOf[r])
    BY <2>1, <2>2 DEF Counter
  <2>4. Ahead(r, d.next)
    BY <2>1, <2>3 DEF IdsInv, KeysAhead
  <2>5. counter' = [counter EXCEPT ![t] = d] /\ nodeKey' = r
    BY <1>1, <1>4
  <2>6. \A u \in Tab : counter'[u] = d
    BY <2>5 DEF OneTab, IdsInv, IdsTypeOK
  <2>7. \A s \in Seq16 : <<r, s>> \notin issued
    <3>1. CASE nodeKey = None
      BY <3>1 DEF IdsInv, KeysAhead
    <3>2. CASE nodeKey = c.node
      BY <1>4, <3>2 DEF IdsInv, NotYetAdopted, OneRadio
    <3> QED
      BY <1>2, <3>1, <3>2
  <2>8. IdsTypeOK'
    BY <1>1, <2>1, <2>3, <2>5 DEF IdsInv, IdsTypeOK
  <2>9. WithinCount'
    BY <1>1 DEF IdsInv, WithinCount, OrZero
  <2>10. CounterAhead'
    BY <1>1, <2>2, <2>3, <2>4, <2>5, <2>6 DEF CounterAhead, Ahead
  <2>11. KeysAhead'
    <3>1. \A n \in NodeNumber : Ahead(n, OrZero(seqKeyOf[n]))'
      BY <1>1 DEF IdsInv, KeysAhead, Ahead, OrZero
    <3>2. Ahead(nodeKey, OrZero(seqKey))'
      BY <1>1, <2>5, <2>7 DEF Ahead
    <3> QED
      BY <2>1, <2>5, <3>1, <3>2 DEF KeysAhead
  <2>12. NotYetAdopted'
    BY <2>5 DEF NotYetAdopted
  <2> QED
    BY <2>8, <2>9, <2>10, <2>11, <2>12 DEF IdsInv
<1> QED
  BY <1>3, <1>4

LEMMA IssueIdsInv ==
  ASSUME OneTab, IdsInv, NEW t \in Tab, IssueOrderId(t)
  PROVE  IdsInv'
<1>1. PICK c \in Ensured(t) :
        LET next == (c.next + 1) % Wrap IN
        /\ counter' = [counter EXCEPT ![t] = [node |-> c.node, next |-> next]]
        /\ nodeKey' = NodeKept(t, c)
        /\ seqKey' = next
        /\ seqKeyOf' = [seqKeyOf EXCEPT ![c.node] = next]
        /\ issued' = issued \cup {<<c.node, c.next>>}
        /\ count < MaxIssued /\ count' = count + 1
  BY DEF IssueOrderId
<1> DEFINE next == c.next + 1
           d    == [node |-> c.node, next |-> next]
<1>2. /\ c \in Counter /\ c.next <= count /\ Ahead(c.node, c.next)
      /\ NodeKept(t, c) = c.node /\ nodeKey \in {None, c.node}
  BY <1>1, EnsuredAhead
<1>3. c.node \in NodeNumber /\ c.node # None /\ c.next \in Seq16 /\ c.next \in Nat
  BY <1>2, OrderIdsAssumption DEF Counter, Seq16
<1>4. count \in Nat /\ count + 1 <= MaxIssued /\ count' \in 0 .. MaxIssued
  BY <1>1, OrderIdsAssumption DEF IdsInv, IdsTypeOK
<1>5. next \in Seq16 /\ next \in Nat /\ next <= count' /\ (c.next + 1) % Wrap = next
  <2>1. next \in Nat /\ next < Wrap /\ next <= count' /\ Wrap \in Nat
    BY <1>1, <1>2, <1>3, <1>4, OrderIdsAssumption
  <2> QED
    BY <2>1 DEF Seq16
<1>6. OrZero(next) = next
  BY <1>5, OrderIdsAssumption DEF OrZero
<1>7. /\ counter' = [counter EXCEPT ![t] = d]
      /\ nodeKey' = c.node
      /\ seqKey' = next
      /\ seqKeyOf' = [seqKeyOf EXCEPT ![c.node] = next]
      /\ issued' = issued \cup {<<c.node, c.next>>}
  BY <1>1, <1>2, <1>5
<1>8. \A u \in Tab : counter'[u] = d
  BY <1>7 DEF OneTab, IdsInv, IdsTypeOK
<1>9. \A n \in NodeNumber : seqKeyOf'[n] = IF n = c.node THEN next ELSE seqKeyOf[n]
  BY <1>7, <1>3 DEF IdsInv, IdsTypeOK
<1>10. Ahead(c.node, next)'
  BY <1>2, <1>3, <1>5, <1>7 DEF Ahead, Seq16
<1>11. IdsTypeOK'
  <2>1. d \in Counter
    BY <1>3, <1>5 DEF Counter
  <2> QED
    BY <1>3, <1>4, <1>5, <1>7, <2>1 DEF IdsInv, IdsTypeOK
<1>12. WithinCount'
  <2>1. \A n \in NodeNumber : OrZero(seqKeyOf[n])' <= count'
    <3> SUFFICES ASSUME NEW n \in NodeNumber PROVE OrZero(seqKeyOf'[n]) <= count'
      BY DEF OrZero
    <3>1. CASE n = c.node
      BY <1>5, <1>6, <1>9, <3>1
    <3>2. CASE n # c.node
      <4>1. OrZero(seqKeyOf[n]) <= count /\ OrZero(seqKeyOf[n]) \in Int
        BY OrderIdsAssumption DEF IdsInv, WithinCount, IdsTypeOK, OrZero, Seq16
      <4> QED
        BY <1>1, <1>4, <1>9, <3>2, <4>1
    <3> QED
      BY <3>1, <3>2
  <2> QED
    BY <1>5, <1>6, <1>7, <2>1 DEF WithinCount, OrZero
<1>13. CounterAhead'
  BY <1>5, <1>7, <1>8, <1>10 DEF CounterAhead
<1>14. KeysAhead'
  <2>1. \A n \in NodeNumber : Ahead(n, OrZero(seqKeyOf[n]))'
    <3> SUFFICES ASSUME NEW n \in NodeNumber, NEW s \in Seq16, <<n, s>> \in issued'
                 PROVE  s < OrZero(seqKeyOf'[n])
      BY DEF Ahead, OrZero
    <3>1. CASE n = c.node
      BY <1>6, <1>9, <1>10, <3>1 DEF Ahead
    <3>2. CASE n # c.node
      <4>1. <<n, s>> \in issued
        BY <1>7, <3>2
      <4> QED
        BY <1>9, <3>2, <4>1 DEF IdsInv, KeysAhead, Ahead
    <3> QED
      BY <3>1, <3>2
  <2>2. Ahead(nodeKey, OrZero(seqKey))'
    BY <1>6, <1>7, <1>10 DEF Ahead, OrZero
  <2> QED
    BY <1>3, <1>7, <2>1, <2>2 DEF KeysAhead
<1>15. NotYetAdopted'
  <2> SUFFICES ASSUME nodeKey' \notin Radio, NEW r \in Radio, NEW s \in Seq16
               PROVE  <<r, s>> \notin issued'
    BY DEF NotYetAdopted
  <2>1. r # c.node /\ <<r, s>> \notin issued
    BY <1>2, <1>7 DEF IdsInv, NotYetAdopted, KeysAhead
  <2> QED
    BY <1>7, <2>1
<1> QED
  BY <1>11, <1>12, <1>13, <1>14, <1>15 DEF IdsInv

LEMMA ReloadIdsInv ==
  ASSUME OneTab, IdsInv, NEW t \in Tab, Reload(t)
  PROVE  IdsInv'
<1>1. \A u \in Tab : counter'[u] = None
  BY DEF OneTab, IdsInv, IdsTypeOK, Reload
<1>2. IdsTypeOK'
  BY DEF IdsInv, IdsTypeOK, Reload
<1>3. WithinCount' /\ KeysAhead' /\ NotYetAdopted'
  BY DEF IdsInv, WithinCount, KeysAhead, NotYetAdopted, Ahead, OrZero, Reload
<1>4. CounterAhead'
  BY <1>1 DEF CounterAhead
<1> QED
  BY <1>2, <1>3, <1>4 DEF IdsInv

LEMMA NextIdsInv ==
  ASSUME OneTab, OneRadio, IdsInv, [NextIds]_idVars
  PROVE  IdsInv'
<1>1. CASE UNCHANGED idVars
  BY <1>1 DEF idVars, IdsInv, IdsTypeOK, WithinCount, CounterAhead, KeysAhead, NotYetAdopted,
              Ahead, OrZero
<1>2. ASSUME NEW t \in Tab,
             \/ Load(t)
             \/ \E r \in Radio : AdoptRadioNode(t, r)
             \/ IssueOrderId(t)
             \/ Reload(t)
      PROVE  IdsInv'
  BY <1>2, LoadIdsInv, AdoptIdsInv, IssueIdsInv, ReloadIdsInv
<1> QED
  BY <1>1, <1>2 DEF NextIds

LEMMA IdsInvFresh == IdsInv => NextIsFresh
<1> SUFFICES ASSUME IdsInv, NEW t \in Tab, NEW c \in Ensured(t),
                    <<c.node, c.next>> \in issued
             PROVE  FALSE
  BY DEF NextIsFresh
<1>1. c \in Counter /\ Ahead(c.node, c.next)
  BY EnsuredAhead
<1>2. c.next < c.next /\ c.next \in Int
  BY <1>1 DEF Ahead, Counter, Seq16
<1> QED
  BY <1>2

(* With one tab and at most one module, what a client issues next it has   *)
(* never issued, across reloads and the adoption of the module             *)
(* (orderIds.ts).                                                          *)
THEOREM FreshWithOneRadio ==
  ASSUME OneTab, OneRadio
  PROVE  SpecIds => []NextIsFresh
<1>1. InitIds => IdsInv
  BY InitIdsInv
<1>2. IdsInv /\ [NextIds]_idVars => IdsInv'
  BY NextIdsInv
<1>3. IdsInv => NextIsFresh
  BY IdsInvFresh
<1> QED
  BY <1>1, <1>2, <1>3, PTL DEF SpecIds

=============================================================================
