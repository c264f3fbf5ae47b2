--------------------------- MODULE LocalMapProofs ---------------------------
(***************************************************************************)
(* The map of one phone, for any number of rooms, identifiers, users and   *)
(* attachments: the four invariants of LocalMap.                           *)
(*                                                                         *)
(* The tools and the card are apart: a tool touches the card by the order  *)
(* it submits only (CardStep).  The types are inductive for each side, and *)
(* so is what the layer draws.  The other three need what an action that   *)
(* is still to come would bring to the card: the solo card on leaving a    *)
(* room, the history and the queue on entering one, the radio card.        *)
(***************************************************************************)
EXTENDS LocalMap, FiniteSetTheorems, SequenceTheorems, WellFoundedInduction, TLAPS

ToolsTyped ==
  /\ sketch \in Sketches /\ arm \in Mission \cup {None}
  /\ menu \in {"none", "line", "polygon", "plot"} /\ editId \in Plots \cup {NoId}
  /\ editId # NoId => menu = "plot"
  /\ arm # None => sketch.mode = "mission" /\ sketch.mission = arm
  /\ menu # "none" => ~Drawing
  /\ Drawing => sketch.points <= MaxVertices

CardTyped ==
  /\ phone \in Phones /\ clock \in 0 .. phone.orders
  /\ session \in Room \cup {None} /\ joins \subseteq Room
  /\ outbox \in Seq(Message)
  /\ history \in [Room -> Store]
  /\ {orders, soloCard, meshCard, drawn} \subseteq Store
  /\ saveDue \in BOOLEAN /\ feeds \in BOOLEAN
  /\ radio \in {"none", "online", "silent"}
  /\ attaches \in Nat /\ {given, kept, gone, heard} \subseteq SUBSET Id

Typed == ToolsTyped /\ CardTyped

-----------------------------------------------------------------------------
(* What a step does to the card.                                           *)

CardSame ==
  /\ joins' \subseteq Room
  /\ UNCHANGED <<session, outbox, history, orders, cards, module, drawn, clock, ghosts>>

\* An order the tools compose: new, or the edition of a plot.
Submission(i, o) ==
  /\ SubmitOrder(i, o)
  /\ o.ts = clock + 1 /\ o.kind \in {"object", "remove", "clear"}
  /\ o.kind # "object" => i \notin given \cup Aired \cup UNION {Remote[r] : r \in Room}
  /\ o.kind = "remove" => o.target \in Held(drawn)
  /\ o.kind = "clear" => o.beforeTs = clock + 1

CardStep ==
  \/ CardSame
  \/ \E i \in Id, o \in Order : Submission(i, o)
  \/ \E r \in Room : Joined(r)
  \/ ExitToSolo /\ joins' \subseteq Room
  \/ Rejoined \/ Sent \/ RemoteEdit
  \/ AttachMeshRadio \/ RadioStatus \/ HearOrder \/ SaveMeshOrders \/ DetachMesh
  \/ Relaunch

-----------------------------------------------------------------------------
LEMMA Composable ==
  ASSUME CardTyped, clock < phone.orders
  PROVE  /\ clock \in Nat /\ Now \in Nat /\ Now = clock + 1
         /\ OrderAuthor \in Author
         /\ Object(Now, OrderAuthor) \in Order
         /\ Clear(Now, OrderAuthor) \in Order
         /\ \A t \in Id : Remove(Now, t, OrderAuthor) \in Order
<1>1. phone.orders \in Nat
  BY LocalMapAssumption DEF CardTyped
<1>2. clock \in Nat /\ Now \in Nat /\ Now = clock + 1
  BY <1>1 DEF CardTyped, Now
<1>3. OrderAuthor \in Author
  BY LocalMapAssumption DEF CardTyped, OrderAuthor
<1> QED
  BY <1>2, <1>3 DEF Object, Clear, Remove, Order, Kind

\* A new object, whichever tool composes it.
LEMMA ObjectSubmitted ==
  ASSUME CardTyped, NEW ids \in SUBSET Id, Submit(ids, Object(Now, OrderAuthor))
  PROVE  \E i \in Id, o \in Order : Submission(i, o)
<1>1. clock < phone.orders
  BY DEF Submit, SubmitOrder
<1>2. FreshOne(ids) \in Id
  BY DEF Submit, Fresh, FreshOne
<1>3. Object(Now, OrderAuthor) \in Order /\ Now = clock + 1
  BY <1>1, Composable
<1>4. Submission(FreshOne(ids), Object(Now, OrderAuthor))
  BY <1>3 DEF Submit, Submission, Object
<1> QED
  BY <1>2, <1>3, <1>4

LEMMA CardSteps == Typed /\ [Next]_vars => CardStep
<1> SUFFICES ASSUME Typed, [Next]_vars PROVE CardStep
  OBVIOUS
<1> USE DEF Typed
<1>1. CASE StartSketch
  BY <1>1 DEF StartSketch, CardStep, CardSame, server, CardTyped
<1>2. CASE DrawSketch
  BY <1>2 DEF DrawSketch, CardStep, CardSame, server, CardTyped
<1>3. CASE FinishSketch
  <2>1. \/ CardSame
        \/ SendGraphic
    BY <1>3 DEF FinishSketch, CardSame, server, CardTyped
  <2> QED
    BY <2>1, ObjectSubmitted DEF SendGraphic, CardStep
<1>4. CASE OpenPlotMenu
  BY <1>4 DEF OpenPlotMenu, CardStep, CardSame, server, CardTyped
<1>5. CASE CancelMenu
  BY <1>5 DEF CancelMenu, CardStep, CardSame, server, CardTyped
<1>6. CASE ConfirmLine \/ ConfirmBox
  BY <1>6, ObjectSubmitted DEF ConfirmLine, ConfirmBox, SendGraphic, CardStep
<1>7. CASE ConfirmPlot
  <2>1. CASE editId = NoId
    BY <1>7, <2>1, ObjectSubmitted, LocalMapAssumption DEF ConfirmPlot, SendPlot, CardStep
  <2>2. CASE editId # NoId
    <3>1. SubmitOrder(editId, Object(Now, OrderAuthor)) /\ clock < phone.orders
      BY <1>7, <2>2 DEF ConfirmPlot, SubmitOrder
    <3>2. Object(Now, OrderAuthor) \in Order /\ Now = clock + 1
      BY <3>1, Composable
    <3>3. editId \in Id
      BY <2>2, LocalMapAssumption DEF ToolsTyped
    <3>4. Submission(editId, Object(Now, OrderAuthor))
      BY <3>1, <3>2 DEF Submission, Object
    <3> QED
      BY <3>2, <3>3, <3>4 DEF CardStep
  <2> QED
    BY <2>1, <2>2
<1>8. CASE DeleteOrder
  <2>1. PICK t \in Tappable : Submit(Id \ Plots, Remove(Now, t, OrderAuthor))
    BY <1>8 DEF DeleteOrder
  <2>2. t \in Held(drawn) /\ t \in Id
    BY DEF Tappable, Held
  <2>3. clock < phone.orders
    BY <2>1 DEF Submit, SubmitOrder
  <2>4. Remove(Now, t, OrderAuthor) \in Order /\ Now = clock + 1
    BY <2>2, <2>3, Composable
  <2>5. FreshOne(Id \ Plots) \in Fresh(Id \ Plots)
    BY <2>1 DEF Submit, FreshOne
  <2>6. Submission(FreshOne(Id \ Plots), Remove(Now, t, OrderAuthor))
    BY <2>1, <2>2, <2>4, <2>5 DEF Submit, Submission, Remove, Fresh
  <2> QED
    BY <2>4, <2>5, <2>6 DEF CardStep, Fresh
<1>9. CASE ClearWholeMap
  <2>1. Submit(Id \ Plots, Clear(Now, OrderAuthor))
    BY <1>9 DEF ClearWholeMap
  <2>3. clock < phone.orders
    BY <2>1 DEF Submit, SubmitOrder
  <2>4. Clear(Now, OrderAuthor) \in Order /\ Now = clock + 1
    BY <2>3, Composable
  <2>5. FreshOne(Id \ Plots) \in Fresh(Id \ Plots)
    BY <2>1 DEF Submit, FreshOne
  <2>6. Submission(FreshOne(Id \ Plots), Clear(Now, OrderAuthor))
    BY <2>1, <2>4, <2>5 DEF Submit, Submission, Clear, Fresh
  <2> QED
    BY <2>4, <2>5, <2>6 DEF CardStep, Fresh
<1>10. ASSUME NEW r \in Room, AttemptJoin(r) \/ JoinRefused(r) \/ Joined(r) PROVE CardStep
  <2>1. CASE AttemptJoin(r) \/ JoinRefused(r)
    BY <2>1 DEF AttemptJoin, JoinRefused, CardStep, CardSame, CardTyped
  <2> QED
    BY <1>10, <2>1 DEF CardStep
<1>11. CASE LeaveRoom \/ SessionLost
  BY <1>11 DEF LeaveRoom, SessionLost, CardStep, CardTyped
<1>12. CASE UNCHANGED vars
  BY <1>12 DEF vars, CardStep, CardSame, server, CardTyped
<1> QED
  BY <1>1, <1>2, <1>3, <1>4, <1>5, <1>6, <1>7, <1>8, <1>9, <1>10, <1>11, <1>12
  DEF Next, CardStep

-----------------------------------------------------------------------------
(* The tools: a menu is open over no sketch that moves, and what is left   *)
(* of a sketch or of an edition does not outlive its menu.                 *)

LEMMA ToolsInit == Init => ToolsTyped
BY LocalMapAssumption DEF Init, ToolsTyped, NoSketch, Sketches, Mode, Drawing

\* The sketch that a tool begins, and the one that a menu freezes.
LEMMA SketchBegun ==
  ASSUME NEW mode \in Mode \ {"none"}, NEW mission \in Mission \cup {None}
  PROVE  /\ Spawned(mode, mission) \in Sketches
         /\ Spawned(mode, mission).mode = mode
         /\ Spawned(mode, mission).mission = mission
         /\ Spawned(mode, mission).points <= MaxVertices
BY LocalMapAssumption DEF Spawned, Sketches

LEMMA NoSketchTyped == NoSketch \in Sketches /\ NoSketch.mode = "none"
BY LocalMapAssumption DEF NoSketch, Sketches, Mode

LEMMA ToolsStep == Typed /\ [Next]_vars => ToolsTyped'
<1> SUFFICES ASSUME Typed, [Next]_vars PROVE ToolsTyped'
  OBVIOUS
<1> USE DEF Typed
<1>a. MaxVertices \in Nat \ {0} /\ None \notin Mission /\ NoId \notin Plots
  BY LocalMapAssumption, OrdersAssumption
<1>1. CASE StartSketch
  <2>1. menu = "none" /\ menu' = menu /\ editId' = editId /\ editId = NoId
    BY <1>1, <1>a DEF StartSketch, ToolsTyped
  <2>2. PICK tool \in phone.tools :
           IF Drawing /\ sketch.mode = tool.mode /\ tool.mode # "mission"
           THEN CancelSketch
           ELSE sketch' = Spawned(tool.mode, tool.mission) /\ arm' = None
    BY <1>1 DEF StartSketch
  <2>3. tool.mode \in Mode \ {"none"} /\ tool.mission \in Mission \cup {None}
    BY LocalMapAssumption DEF CardTyped
  <2>4. sketch' \in Sketches /\ arm' = None /\ (sketch' # NoSketch => sketch'.points <= MaxVertices)
    BY <2>2, <2>3, SketchBegun, NoSketchTyped DEF CancelSketch
  <2> QED
    BY <2>1, <2>4, <1>a DEF ToolsTyped, Drawing
<1>2. CASE DrawSketch
  <2>1. menu = "none" /\ menu' = menu /\ editId' = editId /\ editId = NoId
    BY <1>2, <1>a DEF DrawSketch, ToolsTyped
  <2>2. CASE AddVertex \/ Undo
    <3>1. /\ sketch' \in Sketches /\ sketch'.mode = sketch.mode /\ arm' = arm
          /\ sketch'.mission = sketch.mission /\ sketch'.points <= MaxVertices
      BY <1>2, <1>a, <2>2 DEF DrawSketch, AddVertex, Undo, ToolsTyped, Sketches
    <3> QED
      BY <2>1, <3>1, <1>a DEF ToolsTyped, Drawing
  <2>3. CASE CancelSketch
    BY <2>1, <2>3, <1>a, NoSketchTyped DEF CancelSketch, ToolsTyped, Drawing
  <2> QED
    BY <1>2, <2>2, <2>3 DEF DrawSketch
<1>3. CASE FinishSketch
  <2>1. menu = "none" /\ editId' = editId /\ editId = NoId /\ Drawing
    BY <1>3, <1>a DEF FinishSketch, ToolsTyped
  <2>2. \/ CancelSketch /\ menu' = menu
        \/ /\ sketch.mode = "mission" /\ sketch.mission \in TwoArrows /\ menu' = menu
           /\ arm' = sketch.mission /\ sketch' = Spawned("mission", sketch.mission)
        \/ \E n \in FinalPoints : FreezeUnder(n) /\ sketch.mode \in {"line", "polygon"} /\ arm' = arm
    BY <1>3 DEF FinishSketch, FreezeUnder
  <2>3. CASE CancelSketch /\ menu' = menu
    BY <2>1, <2>3, <1>a, NoSketchTyped DEF CancelSketch, ToolsTyped, Drawing
  <2>4. CASE /\ sketch.mode = "mission" /\ sketch.mission \in TwoArrows /\ menu' = menu
             /\ arm' = sketch.mission /\ sketch' = Spawned("mission", sketch.mission)
    <3>1. sketch.mission \in Mission /\ "mission" \in Mode \ {"none"}
      BY <2>4, LocalMapAssumption DEF Mode
    <3>2. /\ sketch' \in Sketches /\ sketch'.mode = "mission" /\ sketch'.mission = arm'
          /\ sketch'.points <= MaxVertices
      BY <2>4, <3>1, SketchBegun
    <3> QED
      BY <2>1, <2>4, <3>1, <3>2, <1>a DEF ToolsTyped, Drawing
  <2>5. ASSUME NEW n \in FinalPoints, FreezeUnder(n), sketch.mode \in {"line", "polygon"}, arm' = arm
        PROVE  ToolsTyped'
    <3>1. arm = None
      BY <2>5, <1>a DEF ToolsTyped
    <3>2. n \in 0 .. MaxVertices + 1
      BY <2>1, <1>a DEF FinalPoints, ToolsTyped, Sketches
    <3>3. sketch' \in Sketches /\ sketch'.frozen
      BY <2>5, <3>2 DEF FreezeUnder, ToolsTyped, Sketches
    <3> QED
      BY <2>1, <2>5, <3>1, <3>3, <1>a DEF FreezeUnder, ToolsTyped, Drawing
  <2> QED
    BY <2>2, <2>3, <2>4, <2>5
<1>4. CASE OpenPlotMenu
  <2>1. editId' \in Plots \cup {NoId} /\ menu' = "plot" /\ sketch' = NoSketch /\ arm' = None
    BY <1>4 DEF OpenPlotMenu, BeginPlot, EditPlot, CancelSketch
  <2> QED
    BY <2>1, NoSketchTyped, <1>a DEF ToolsTyped, Drawing
<1>5. ASSUME CloseSketchMenu, menu # "plot" PROVE ToolsTyped'
  BY <1>5, NoSketchTyped, <1>a DEF CloseSketchMenu, CancelSketch, ToolsTyped, Drawing
<1>6. ASSUME ClosePlotMenu, UNCHANGED <<sketch, arm>> PROVE ToolsTyped'
  BY <1>6, <1>a DEF ClosePlotMenu, ToolsTyped, Drawing
<1>7. ASSUME UNCHANGED tools PROVE ToolsTyped'
  BY <1>7 DEF tools, ToolsTyped, Drawing
<1>8. CASE ExitToSolo
  BY <1>8, NoSketchTyped, <1>a DEF ExitToSolo, CancelSketch, ToolsTyped, Drawing
<1>9. CASE Relaunch
  BY <1>9, NoSketchTyped, <1>a DEF Relaunch, ToolsTyped, Drawing
<1>10. CASE CancelMenu \/ ConfirmLine \/ ConfirmBox \/ ConfirmPlot
  BY <1>5, <1>6, <1>10 DEF CancelMenu, ConfirmLine, ConfirmBox, ConfirmPlot
<1>11. CASE DeleteOrder \/ ClearWholeMap
  BY <1>7, <1>11 DEF DeleteOrder, ClearWholeMap
<1>12. CASE \E r \in Room : AttemptJoin(r) \/ JoinRefused(r) \/ Joined(r)
  BY <1>7, <1>12 DEF AttemptJoin, JoinRefused, Joined
<1>13. CASE Rejoined \/ Sent \/ RemoteEdit
  BY <1>7, <1>13 DEF Rejoined, Sent, RemoteEdit
<1>14. CASE AttachMeshRadio \/ RadioStatus \/ HearOrder \/ SaveMeshOrders \/ DetachMesh
  BY <1>7, <1>14 DEF AttachMeshRadio, RadioStatus, HearOrder, SaveMeshOrders, DetachMesh
<1>15. CASE UNCHANGED vars
  BY <1>7, <1>15 DEF vars
<1> QED
  BY <1>1, <1>2, <1>3, <1>4, <1>8, <1>9, <1>10, <1>11, <1>12, <1>13, <1>14, <1>15
  DEF Next, LeaveRoom, SessionLost

-----------------------------------------------------------------------------
(* The least and the greatest of some numbers, by well-foundedness.        *)
LEMMA Least ==
  ASSUME NEW T, T \subseteq Nat, T # {}
  PROVE  \E x \in T : \A y \in T : x <= y
<1> DEFINE R == OpToRel(<, Nat)
<1>1. IsWellFoundedOn(R, Nat)
  BY NatLessThanWellFounded
<1>2. ASSUME NEW x \in Nat, NEW y \in Nat, y < x PROVE <<y, x>> \in R
  BY <1>2 DEF OpToRel
<1> HIDE DEF R
<1>3. PICK x \in T : \A y \in T : ~ (<<y, x>> \in R)
  BY <1>1, WFMin
<1>4. ASSUME NEW y \in T PROVE x <= y
  <2>1. x \in Nat /\ y \in Nat
    OBVIOUS
  <2>2. ~ (y < x)
    BY <1>2, <1>3, <2>1
  <2> QED
    BY <2>1, <2>2
<1> QED
  BY <1>4

LEMMA Greatest ==
  ASSUME NEW n \in Nat, NEW T, T \subseteq 0 .. n, T # {}
  PROVE  \E x \in T : \A y \in T : y <= x
<1> DEFINE M == {n - x : x \in T}
<1>1. M \subseteq Nat /\ M # {}
  <2>1. \A x \in T : n - x \in Nat
    OBVIOUS
  <2> QED
    BY <2>1
<1>2. PICK m \in M : \A y \in M : m <= y
  <2> HIDE DEF M
  <2> QED
    BY <1>1, Least
<1>3. PICK x \in T : m = n - x
  OBVIOUS
<1>4. ASSUME NEW y \in T PROVE y <= x
  <2>1. n - y \in M /\ x \in 0 .. n /\ y \in 0 .. n
    OBVIOUS
  <2>2. n - x <= n - y
    BY <1>2, <1>3, <2>1
  <2> QED
    BY <2>1, <2>2
<1> QED
  BY <1>4

-----------------------------------------------------------------------------
(* What a store holds after each of its operations.                        *)

Ids(queue) == {queue[k].id : k \in DOMAIN queue}

LEMMA EmptyIsStore == EmptyStore \in Store /\ Held(EmptyStore) = {}
BY DEF EmptyStore, Store, Held

LEMMA OrderMerged ==
  ASSUME NEW store \in Store, NEW i \in Id, NEW o \in Order
  PROVE  /\ MergeOrder(store, i, o) \in Store
         /\ Held(MergeOrder(store, i, o)) = Held(store) \cup {i}
<1>1. o # Absent
  BY OrdersAssumption
<1> QED
  BY <1>1 DEF MergeOrder, Store, Held

LEMMA Overwritten ==
  ASSUME NEW store \in Store, NEW i \in Id, NEW o \in Order
  PROVE  /\ Overwrite(store, [id |-> i, order |-> o]) \in Store
         /\ Held(Overwrite(store, [id |-> i, order |-> o])) = Held(store) \cup {i}
<1>1. o # Absent
  BY OrdersAssumption
<1> QED
  BY <1>1 DEF Overwrite, Store, Held

LEMMA StoresMerged ==
  ASSUME NEW store \in Store, NEW other \in Store
  PROVE  /\ Merge(store, other) \in Store
         /\ Held(Merge(store, other)) = Held(store) \cup Held(other)
<1> DEFINE result == Merge(store, other)
<1>1. ASSUME NEW i \in Id, other[i] = Absent PROVE result[i] = store[i]
  BY <1>1 DEF Merge
<1>2. ASSUME NEW i \in Id, other[i] # Absent
      PROVE  result[i] \in Order /\ result[i] # Absent
  <2>1. other[i] \in Order
    BY <1>2 DEF Store
  <2>2. MergeOrder(store, i, other[i]) \in Store /\ i \in Held(MergeOrder(store, i, other[i]))
    BY <2>1, OrderMerged
  <2>3. result[i] = MergeOrder(store, i, other[i])[i]
    BY <1>2 DEF Merge
  <2> QED
    BY <2>2, <2>3 DEF Store, Held
<1>3. result = [i \in Id |-> result[i]]
  BY DEF Merge
<1> HIDE DEF result
<1>4. \A i \in Id : result[i] \in Order \cup {Absent}
  BY <1>1, <1>2 DEF Store
<1>5. result \in Store
  BY <1>3, <1>4 DEF Store
<1>6. Held(result) = Held(store) \cup Held(other)
  BY <1>1, <1>2 DEF Held
<1> QED
  BY <1>5, <1>6 DEF result

LEMMA QueueShown ==
  ASSUME NEW store \in Store, NEW queue \in Seq(Message)
  PROVE  /\ WithOutbox(store, queue) \in Store
         /\ Held(WithOutbox(store, queue)) = Held(store) \cup Ids(queue)
         /\ Ids(queue) \subseteq Id
<1> DEFINE its(i) == {k \in DOMAIN queue : queue[k].id = i}
           result == WithOutbox(store, queue)
<1>1. ASSUME NEW i \in Id, its(i) # {} PROVE result[i] \in Order /\ result[i] # Absent
  <2>1. its(i) \subseteq 0 .. Len(queue) /\ Len(queue) \in Nat
    OBVIOUS
  <2>2. PICK m \in its(i) : \A n \in its(i) : n <= m
    <3> HIDE DEF its
    <3> QED
      BY <1>1, <2>1, Greatest
  <2>3. SE!Max(its(i)) \in its(i)
    <3>1. \E x \in its(i) : \A y \in its(i) : x >= y
      BY <2>1, <2>2
    <3> HIDE DEF its
    <3> QED
      BY <3>1 DEF SE!Max
  <2>4. queue[SE!Max(its(i))] \in Message
    BY <2>3
  <2>5. result[i] = queue[SE!Max(its(i))].order
    BY <1>1 DEF WithOutbox
  <2> QED
    BY <2>4, <2>5, OrdersAssumption DEF Message
<1>2. ASSUME NEW i \in Id, its(i) = {} PROVE result[i] = store[i]
  BY <1>2 DEF WithOutbox
<1>3. result = [i \in Id |-> result[i]]
  BY DEF WithOutbox
<1>4. Ids(queue) \subseteq Id
  <2>1. \A k \in DOMAIN queue : queue[k] \in Message
    OBVIOUS
  <2> QED
    BY <2>1 DEF Ids, Message
<1>5. \A i \in Id : its(i) # {} <=> i \in Ids(queue)
  BY DEF Ids
<1> HIDE DEF its, result
<1>6. \A i \in Id : result[i] \in Order \cup {Absent}
  BY <1>1, <1>2 DEF Store
<1>7. result \in Store
  BY <1>3, <1>6 DEF Store
<1>8. Held(result) = Held(store) \cup Ids(queue)
  BY <1>1, <1>2, <1>4, <1>5 DEF Held
<1> QED
  BY <1>4, <1>7, <1>8 DEF result

LEMMA QueueIds ==
  ASSUME NEW queue \in Seq(Message), NEW more \in Seq(Message), NEW msg \in Message
  PROVE  /\ queue \o more \in Seq(Message) /\ Ids(queue \o more) = Ids(queue) \cup Ids(more)
         /\ Append(queue, msg) \in Seq(Message) /\ Ids(Append(queue, msg)) = Ids(queue) \cup {msg.id}
         /\ queue # << >> => /\ Head(queue) \in Message /\ Head(queue).id \in Ids(queue)
                             /\ Tail(queue) \in Seq(Message)
                             /\ Ids(Tail(queue)) \subseteq Ids(queue)
<1>1. queue \o more \in Seq(Message) /\ Append(queue, msg) \in Seq(Message)
  OBVIOUS
<1>2. Ids(queue \o more) = Ids(queue) \cup Ids(more)
  <2>1. ASSUME NEW k \in DOMAIN (queue \o more)
        PROVE  (queue \o more)[k].id \in Ids(queue) \cup Ids(more)
    <3>1. CASE k <= Len(queue)
      BY <3>1 DEF Ids
    <3>2. CASE k > Len(queue)
      <4>1. k - Len(queue) \in DOMAIN more /\ (queue \o more)[k] = more[k - Len(queue)]
        BY <3>2
      <4> QED
        BY <4>1 DEF Ids
    <3> QED
      BY <3>1, <3>2
  <2>2. ASSUME NEW k \in DOMAIN queue PROVE queue[k].id \in Ids(queue \o more)
    <3>1. k \in DOMAIN (queue \o more) /\ (queue \o more)[k] = queue[k]
      OBVIOUS
    <3> QED
      BY <3>1 DEF Ids
  <2>3. ASSUME NEW k \in DOMAIN more PROVE more[k].id \in Ids(queue \o more)
    <3>1. Len(queue) + k \in DOMAIN (queue \o more) /\ (queue \o more)[Len(queue) + k] = more[k]
      OBVIOUS
    <3> QED
      BY <3>1 DEF Ids
  <2> QED
    BY <2>1, <2>2, <2>3 DEF Ids
<1>3. Ids(Append(queue, msg)) = Ids(queue) \cup {msg.id}
  <2>1. ASSUME NEW k \in DOMAIN Append(queue, msg)
        PROVE  Append(queue, msg)[k].id \in Ids(queue) \cup {msg.id}
    <3>1. CASE k <= Len(queue)
      BY <3>1 DEF Ids
    <3> QED
      BY <3>1
  <2>2. ASSUME NEW k \in DOMAIN queue PROVE queue[k].id \in Ids(Append(queue, msg))
    <3>1. k \in DOMAIN Append(queue, msg) /\ Append(queue, msg)[k] = queue[k]
      OBVIOUS
    <3> QED
      BY <3>1 DEF Ids
  <2>3. msg.id \in Ids(Append(queue, msg))
    <3>1. Len(queue) + 1 \in DOMAIN Append(queue, msg) /\ Append(queue, msg)[Len(queue) + 1] = msg
      OBVIOUS
    <3> QED
      BY <3>1 DEF Ids
  <2> QED
    BY <2>1, <2>2, <2>3 DEF Ids
<1>4. ASSUME queue # << >>
      PROVE  /\ Head(queue) \in Message /\ Head(queue).id \in Ids(queue)
             /\ Tail(queue) \in Seq(Message)
             /\ Ids(Tail(queue)) \subseteq Ids(queue)
  <2>1. 1 \in DOMAIN queue /\ Head(queue) = queue[1] /\ Head(queue) \in Message
    BY <1>4
  <2>2. ASSUME NEW k \in DOMAIN Tail(queue) PROVE Tail(queue)[k].id \in Ids(queue)
    <3>1. k + 1 \in DOMAIN queue /\ Tail(queue)[k] = queue[k + 1]
      BY <1>4
    <3> QED
      BY <3>1 DEF Ids
  <2> QED
    BY <1>4, <2>1, <2>2 DEF Ids
<1> QED
  BY <1>1, <1>2, <1>3, <1>4

\* What the layer draws of a store, whatever it drew before.
LEMMA LayerSynced ==
  ASSUME NEW layer \in Store, NEW store \in Store
  PROVE  /\ Synced(layer, store) \in Store
         /\ Held(Synced(layer, store)) = Visible(store)
         /\ \A i \in Visible(store) \cap Plots : Synced(layer, store)[i] = store[i]
<1>1. Visible(store) \subseteq Held(store) /\ Visible(store) \subseteq Id
  BY DEF Visible, OfKind, Held
<1> DEFINE result == Synced(layer, store)
<1>2. \A i \in Id : i \notin Visible(store) => result[i] = Absent
  BY DEF Synced
<1>3. ASSUME NEW i \in Id, i \in Visible(store)
      PROVE  result[i] = IF layer[i] # Absent /\ i \notin Plots THEN layer[i] ELSE store[i]
  BY <1>3 DEF Synced
<1>4. result = [i \in Id |-> result[i]]
  BY DEF Synced
<1> HIDE DEF result
<1>5. \A i \in Id : result[i] \in Order \cup {Absent}
  BY <1>2, <1>3 DEF Store
<1>6. result \in Store
  BY <1>4, <1>5 DEF Store
<1>7. \A i \in Visible(store) : result[i] # Absent
  BY <1>1, <1>3 DEF Held
<1>8. Held(result) = Visible(store)
  BY <1>1, <1>2, <1>7 DEF Held
<1>9. \A i \in Visible(store) \cap Plots : result[i] = store[i]
  BY <1>1, <1>3
<1> QED
  BY <1>6, <1>8, <1>9 DEF result

\* What the solo card keeps of an order composed in solo.
LEMMA SoloApplied ==
  ASSUME NEW store \in Store, NEW i \in Id, NEW o \in Order
  PROVE  /\ Applied(store, i, o) \in Store
         /\ o.kind = "remove" => Held(Applied(store, i, o)) = Held(store) \ {o.target}
         /\ o.kind = "clear" => /\ Held(Applied(store, i, o)) =
                                     {j \in Held(store) : ~ store[j].ts <= o.beforeTs}
                                /\ \A j \in Held(Applied(store, i, o)) :
                                     Applied(store, i, o)[j] = store[j]
         /\ o.kind \notin {"remove", "clear"} => 
              Held(Applied(store, i, o)) = Held(store) \cup {i}
<1>1. CASE o.kind = "remove"
  <2>1. Applied(store, i, o) = [store EXCEPT ![o.target] = Absent]
    BY <1>1 DEF Applied
  <2> QED
    BY <1>1, <2>1 DEF Store, Held
<1>2. CASE o.kind = "clear"
  <2>1. Applied(store, i, o) = [j \in Id |-> IF store[j] # Absent /\ store[j].ts <= o.beforeTs
                                             THEN Absent ELSE store[j]]
    BY <1>2 DEF Applied
  <2> QED
    BY <1>2, <2>1 DEF Store, Held
<1>3. CASE o.kind \notin {"remove", "clear"}
  <2>1. Applied(store, i, o) = Overwrite(store, [id |-> i, order |-> o])
    BY <1>3 DEF Applied
  <2> QED
    BY <1>3, <2>1, Overwritten
<1> QED
  BY <1>1, <1>2, <1>3

\* What is imported of the solo card is a list of orders.
LEMMA ImportTyped ==
  ASSUME CardTyped, NEW r \in Room, NEW list \in Imported(r)
  PROVE  list \in Seq(Message)
<1> DEFINE its == {[id |-> i, order |-> [soloCard[i] EXCEPT !.by = r]] : i \in Held(soloCard)}
<1>1. \A i \in Held(soloCard) : soloCard[i] \in Order /\ i \in Id
  BY DEF CardTyped, Store, Held
<1>2. r \in Author
  BY LocalMapAssumption
<1>3. its \subseteq Message
  BY <1>1, <1>2 DEF Message, Order
<1>4. IsFiniteSet(its)
  <2>1. IsFiniteSet(Held(soloCard))
    BY LocalMapAssumption, FS_Subset DEF Held
  <2>2. [i \in Held(soloCard) |-> [id |-> i, order |-> [soloCard[i] EXCEPT !.by = r]]]
          \in Surjection(Held(soloCard), its)
    BY DEF Surjection
  <2> QED
    BY <2>1, <2>2, FS_Surjection
<1>5. Cardinality(its) \in Nat
  BY <1>4, FS_CardinalityType
<1>6. list \in [1 .. Cardinality(its) -> its]
  <2>1. list \in SE!SetToSeqs(its)
    BY DEF Imported
  <2> HIDE DEF its
  <2>2. SE!Cardinality(its) = Cardinality(its)
    BY DEF SE!Cardinality, Cardinality
  <2> QED
    BY <2>1, <2>2 DEF SE!SetToSeqs
<1> HIDE DEF its
<1> QED
  BY <1>3, <1>5, <1>6

-----------------------------------------------------------------------------
(* The card: its types, and what each step leaves in the store it shows.   *)

LEMMA CardInit == Init => CardTyped
<1> SUFFICES ASSUME Init PROVE CardTyped
  OBVIOUS
<1>1. \A r \in Room, i \in Id :
         (IF i \in Remote[r] THEN Object(0, Others) ELSE Absent) \in Order \cup {Absent}
  BY LocalMapAssumption DEF Object, Order, Kind
<1>2. history \in [Room -> Store]
  BY <1>1 DEF Init, Store
<1>3. phone \in Phones /\ clock \in 0 .. phone.orders
  BY LocalMapAssumption DEF Init
<1>4. outbox \in Seq(Message)
  BY DEF Init
<1> QED
  BY <1>2, <1>3, <1>4, EmptyIsStore DEF Init, CardTyped

\* A store that is shown is drawn.
LEMMA ShownTyped ==
  ASSUME CardTyped, NEW store \in Store, Show(store)
  PROVE  /\ {orders', drawn'} \subseteq Store /\ saveDue' \in BOOLEAN
         /\ orders' = store
         /\ Held(drawn') = Visible(orders')
         /\ \A i \in Visible(orders') \cap Plots : drawn'[i] = orders'[i]
         /\ saveDue' = (saveDue \/ radio # "none")
<1>1. drawn \in Store /\ saveDue \in BOOLEAN
  BY DEF CardTyped
<1>2. orders' = store /\ drawn' = Synced(drawn, store) /\ saveDue' = (saveDue \/ radio # "none")
  BY DEF Show
<1>3. saveDue' \in BOOLEAN
  BY <1>2
<1> QED
  BY <1>1, <1>2, <1>3, LayerSynced

\* The three ways of an order submitted: to the room, by radio, to the solo card.
SentToRoom(i, o) ==
  /\ session # None
  /\ Show(Overwrite(orders, [id |-> i, order |-> o]))
  /\ outbox' = Append(outbox, [id |-> i, order |-> o])
  /\ UNCHANGED soloCard

SentByRadio(i, o) ==
  /\ session = None /\ radio = "online"
  /\ Show(MergeOrder(orders, i, o)) /\ UNCHANGED <<outbox, soloCard>>

KeptInSolo(i, o) ==
  /\ session = None /\ radio # "online"
  /\ Show(Applied(orders, i, o))
  /\ soloCard' = Applied(orders, i, o) /\ UNCHANGED outbox

LEMMA Ways ==
  ASSUME NEW i, NEW o, SubmitOrder(i, o)
  PROVE  SentToRoom(i, o) \/ SentByRadio(i, o) \/ KeptInSolo(i, o)
BY DEF SubmitOrder, SentToRoom, SentByRadio, KeptInSolo, Persisted

\* Whatever its way, an order goes to the card.
LEMMA SubmittedTyped ==
  ASSUME CardTyped, NEW i \in Id, NEW o \in Order, Submission(i, o)
  PROVE  /\ {orders', soloCard', drawn'} \subseteq Store /\ saveDue' \in BOOLEAN
         /\ outbox' \in Seq(Message)
         /\ Held(drawn') = Visible(orders')
         /\ \A j \in Visible(orders') \cap Plots : drawn'[j] = orders'[j]
<1>1. {orders, soloCard} \subseteq Store /\ outbox \in Seq(Message)
  BY DEF CardTyped
<1>2. [id |-> i, order |-> o] \in Message
  BY DEF Message
<1>3. CASE SentToRoom(i, o)
  <2>1. Overwrite(orders, [id |-> i, order |-> o]) \in Store
    BY <1>1, Overwritten
  <2>2. outbox' \in Seq(Message) /\ soloCard' = soloCard
    BY <1>1, <1>2, <1>3 DEF SentToRoom
  <2> QED
    BY <1>1, <1>3, <2>1, <2>2, ShownTyped DEF SentToRoom
<1>4. CASE SentByRadio(i, o)
  <2>1. MergeOrder(orders, i, o) \in Store
    BY <1>1, OrderMerged
  <2> QED
    BY <1>1, <1>4, <2>1, ShownTyped DEF SentByRadio
<1>5. CASE KeptInSolo(i, o)
  <2>1. Applied(orders, i, o) \in Store
    BY <1>1, SoloApplied
  <2> QED
    BY <1>1, <1>5, <2>1, ShownTyped DEF KeptInSolo
<1> QED
  BY <1>3, <1>4, <1>5, Ways DEF Submission

\* The snapshot a member is answered, and the card with what waits on it.
LEMMA JoinedCard ==
  ASSUME CardTyped, NEW r \in Room, Joined(r),
         NEW snapshot, snapshot = Merge(IF session = r THEN orders ELSE EmptyStore, history[r])
  PROVE  /\ snapshot \in Store
         /\ \/ \E list \in Imported(r) :
                 /\ list \in Seq(Message)
                 /\ orders' = WithOutbox(WithOutbox(snapshot, outbox), list)
                 /\ outbox' = outbox \o list
                 /\ soloCard' = EmptyStore /\ kept' = {}
            \/ /\ orders' = WithOutbox(snapshot, outbox)
               /\ UNCHANGED <<outbox, soloCard, kept>>
         /\ drawn' = Synced(Synced(drawn, snapshot), orders')
         /\ orders' \in Store /\ outbox' \in Seq(Message)
         /\ Held(history[r]) \cup Ids(outbox') \subseteq Held(orders')
<1>1. orders \in Store /\ history[r] \in Store /\ outbox \in Seq(Message)
  BY DEF CardTyped
<1>2. snapshot \in Store /\ Held(history[r]) \subseteq Held(snapshot)
  BY <1>1, EmptyIsStore, StoresMerged
<1>3. \/ \E list \in Imported(r) :
           /\ orders' = WithOutbox(WithOutbox(snapshot, outbox), list)
           /\ outbox' = outbox \o list
           /\ soloCard' = EmptyStore /\ kept' = {}
      \/ /\ orders' = WithOutbox(snapshot, outbox)
         /\ UNCHANGED <<outbox, soloCard, kept>>
  BY DEF Joined
<1>4. drawn' = Synced(Synced(drawn, snapshot), orders')
  BY DEF Joined
<1>5. /\ WithOutbox(snapshot, outbox) \in Store
      /\ Held(WithOutbox(snapshot, outbox)) = Held(snapshot) \cup Ids(outbox)
  BY <1>1, <1>2, QueueShown
<1>6. ASSUME NEW list \in Imported(r),
             orders' = WithOutbox(WithOutbox(snapshot, outbox), list), outbox' = outbox \o list
      PROVE  /\ list \in Seq(Message) /\ orders' \in Store /\ outbox' \in Seq(Message)
             /\ Held(snapshot) \cup Ids(outbox') \subseteq Held(orders')
  <2>1. list \in Seq(Message)
    BY ImportTyped
  <2>2. WithOutbox(WithOutbox(snapshot, outbox), list) \in Store
    BY <1>5, <2>1, QueueShown
  <2>3. Held(WithOutbox(WithOutbox(snapshot, outbox), list))
          = Held(WithOutbox(snapshot, outbox)) \cup Ids(list)
    BY <1>5, <2>1, QueueShown
  <2>4. Ids(outbox \o list) = Ids(outbox) \cup Ids(list) /\ outbox \o list \in Seq(Message)
    <3>1. CASE Message = {}
      <4>1. outbox = << >> /\ list = << >>
        BY <1>1, <2>1, <3>1
      <4> QED
        BY <4>1 DEF Ids
    <3>2. CASE Message # {}
      BY <1>1, <2>1, <3>2, QueueIds
    <3> QED
      BY <3>1, <3>2
  <2> QED
    BY <1>5, <1>6, <2>1, <2>2, <2>3, <2>4
<1>7. CASE orders' = WithOutbox(snapshot, outbox) /\ UNCHANGED <<outbox, soloCard, kept>>
  BY <1>1, <1>2, <1>3, <1>4, <1>5, <1>7
<1>8. CASE \E list \in Imported(r) :
             /\ orders' = WithOutbox(WithOutbox(snapshot, outbox), list)
             /\ outbox' = outbox \o list
             /\ soloCard' = EmptyStore /\ kept' = {}
  BY <1>2, <1>4, <1>6, <1>8
<1> QED
  BY <1>3, <1>7, <1>8

-----------------------------------------------------------------------------
(* What the layer draws.                                                   *)

CardDrawn ==
  /\ Held(drawn) = Visible(orders)
  /\ \A i \in Visible(orders) \cap Plots : drawn[i] = orders[i]

\* The store on leaving a room, at the start, on a merge or a write of it.
LEMMA OtherCards ==
  ASSUME CardTyped
  PROVE  /\ \A s \in Room : session = s => Merge(orders, history[s]) \in Store
         /\ WithOutbox(EmptyStore, outbox) \in Store
         /\ \A s \in Room : WithOutbox(Merge(orders, history[s]), outbox) \in Store
         /\ Merge(orders, meshCard) \in Store
         /\ Restored \in Store
<1>1. {orders, meshCard, soloCard} \subseteq Store /\ outbox \in Seq(Message)
  BY DEF CardTyped
<1>2. \A s \in Room : history[s] \in Store
  BY DEF CardTyped
<1>3. \A s \in Room : Merge(orders, history[s]) \in Store
  BY <1>1, <1>2, StoresMerged
<1>4. \A s \in Room : WithOutbox(Merge(orders, history[s]), outbox) \in Store
  BY <1>1, <1>3, QueueShown
<1> QED
  BY <1>1, <1>3, <1>4, EmptyIsStore, QueueShown, StoresMerged DEF Restored

LEMMA DrawnStep == CardTyped /\ CardDrawn /\ CardStep => CardTyped' /\ CardDrawn'
<1> SUFFICES ASSUME CardTyped, CardDrawn, CardStep PROVE CardTyped' /\ CardDrawn'
  OBVIOUS
<1>a. phone \in Phones /\ phone.orders \in Nat
  BY LocalMapAssumption DEF CardTyped
<1>b. {orders, meshCard, soloCard, drawn} \subseteq Store /\ outbox \in Seq(Message)
  BY DEF CardTyped
<1>1. CASE CardSame
  BY <1>1 DEF CardSame, cards, module, ghosts, CardTyped, CardDrawn
<1>2. ASSUME NEW i \in Id, NEW o \in Order, Submission(i, o) PROVE CardTyped' /\ CardDrawn'
  <2>1. /\ {orders', soloCard', drawn'} \subseteq Store /\ saveDue' \in BOOLEAN
        /\ outbox' \in Seq(Message)
        /\ Held(drawn') = Visible(orders')
        /\ \A j \in Visible(orders') \cap Plots : drawn'[j] = orders'[j]
    BY <1>2, SubmittedTyped
  <2>2. /\ clock' \in 0 .. phone.orders
        /\ UNCHANGED <<session, joins, history, meshCard, phone, radio, feeds, attaches>>
    BY <1>2, <1>a DEF Submission, SubmitOrder, module, CardTyped
  <2>3. {given, kept, gone, heard} \subseteq SUBSET Id
    BY DEF CardTyped
  <2>4. given' \subseteq Id /\ kept' \subseteq Id /\ heard' \subseteq Id
    BY <1>2, <2>3 DEF Submission, SubmitOrder
  <2>5. gone' \subseteq Id
    <3>1. o.kind = "remove" => o.target \in Id
      BY <1>2 DEF Submission, Held
    <3>2. DeletedBy(o) \subseteq Id
      BY <3>1 DEF DeletedBy, Held
    <3> QED
      BY <1>2, <2>3, <3>2 DEF Submission, SubmitOrder
  <2>6. CardTyped'
    BY <2>1, <2>2, <2>4, <2>5 DEF CardTyped
  <2> QED
    BY <2>1, <2>6 DEF CardDrawn
<1>3. ASSUME NEW r \in Room, Joined(r) PROVE CardTyped' /\ CardDrawn'
  <2>1. PICK snapshot : snapshot = Merge(IF session = r THEN orders ELSE EmptyStore, history[r])
    OBVIOUS
  <2>2. /\ snapshot \in Store /\ orders' \in Store /\ outbox' \in Seq(Message)
        /\ drawn' = Synced(Synced(drawn, snapshot), orders')
    BY <1>3, <2>1, JoinedCard
  <2>3. soloCard' \in Store /\ kept' \subseteq Id
    BY <1>3, <1>b, EmptyIsStore DEF Joined, CardTyped
  <2>4. Synced(drawn, snapshot) \in Store
    BY <1>b, <2>2, LayerSynced
  <2>5. /\ drawn' \in Store /\ Held(drawn') = Visible(orders')
        /\ \A i \in Visible(orders') \cap Plots : drawn'[i] = orders'[i]
    BY <2>2, <2>4, LayerSynced
  <2>6. /\ session' \in Room /\ joins' \subseteq Room /\ saveDue' \in BOOLEAN
        /\ gone' \subseteq Id /\ heard' \subseteq Id
        /\ UNCHANGED <<history, meshCard, phone, radio, feeds, attaches, clock, given>>
    BY <1>3 DEF Joined, module, CardTyped
  <2>7. CardTyped'
    BY <2>2, <2>3, <2>5, <2>6 DEF CardTyped
  <2> QED
    BY <2>5, <2>7 DEF CardDrawn
<1>4. ASSUME NEW store \in Store, orders' = store, drawn' = Synced(EmptyStore, store)
      PROVE  drawn' \in Store /\ CardDrawn'
  BY <1>4, EmptyIsStore, LayerSynced DEF CardDrawn
<1>5. CASE ExitToSolo /\ joins' \subseteq Room
  <2>1. orders' = Restored /\ drawn' = Synced(EmptyStore, Restored) /\ Restored \in Store
    BY <1>5, OtherCards DEF ExitToSolo
  <2>2. drawn' \in Store /\ CardDrawn'
    BY <1>4, <2>1
  <2>3. CardTyped'
    BY <1>5, <2>1, <2>2 DEF ExitToSolo, CardTyped
  <2> QED
    BY <2>2, <2>3
<1>6. CASE Relaunch
  <2>1. orders' \in Store /\ drawn' = Synced(EmptyStore, orders')
    BY <1>6, OtherCards DEF Relaunch
  <2>2. drawn' \in Store /\ CardDrawn'
    BY <1>4, <2>1
  <2>3. CardTyped'
    BY <1>6, <2>1, <2>2 DEF Relaunch, CardTyped
  <2> QED
    BY <2>2, <2>3
<1>7. ASSUME NEW store \in Store, Show(store)
      PROVE  {orders', drawn'} \subseteq Store /\ saveDue' \in BOOLEAN /\ CardDrawn'
  BY <1>7, ShownTyped DEF CardDrawn
<1>8. CASE Rejoined
  <2>1. session \in Room
    BY <1>8 DEF Rejoined, CardTyped
  <2>2. WithOutbox(Merge(orders, history[session]), outbox) \in Store
    BY <2>1, OtherCards
  <2>3. {orders', drawn'} \subseteq Store /\ saveDue' \in BOOLEAN /\ CardDrawn'
    BY <1>7, <1>8, <2>2 DEF Rejoined
  <2>4. CardTyped'
    BY <1>8, <2>3 DEF Rejoined, server, module, ghosts, CardTyped
  <2> QED
    BY <2>3, <2>4
<1>9. CASE Sent
  <2>1. session \in Room /\ outbox # << >>
    BY <1>9 DEF Sent, CardTyped
  <2>2. Head(outbox) \in Message /\ Tail(outbox) \in Seq(Message)
    BY <1>b, <2>1
  <2>3. history' \in [Room -> Store]
    <3>1. /\ Head(outbox).id \in Id /\ Head(outbox).order \in Order
          /\ Head(outbox) = [id |-> Head(outbox).id, order |-> Head(outbox).order]
      BY <2>2 DEF Message
    <3>2. Overwrite(history[session], Head(outbox)) \in Store
      <4>1. history[session] \in Store
        BY <2>1 DEF CardTyped
      <4> QED
        BY <3>1, <4>1 DEF Overwrite, Store
    <3>3. history' = [history EXCEPT ![session] = Overwrite(history[session], Head(outbox))]
      BY <1>9 DEF Sent
    <3> QED
      BY <2>1, <3>2, <3>3 DEF CardTyped
  <2>4. {orders', drawn'} \subseteq Store /\ saveDue' \in BOOLEAN /\ CardDrawn'
    BY <1>7, <1>9, <1>b DEF Sent
  <2>5. CardTyped'
    BY <1>9, <2>2, <2>3, <2>4 DEF Sent, module, ghosts, CardTyped
  <2> QED
    BY <2>4, <2>5
<1>10. CASE RemoteEdit
  <2>1. session \in Room /\ clock' = clock + 1 /\ clock' \in 0 .. phone.orders /\ clock' \in Nat
    BY <1>10, <1>a DEF RemoteEdit, CardTyped
  <2>2. PICK i \in Remote[session] \cap Plots :
          /\ history' = [history EXCEPT ![session] = Overwrite(@, [id |-> i, order |-> Object(clock', Others)])]
          /\ Show(Overwrite(orders, [id |-> i, order |-> Object(clock', Others)]))
    BY <1>10 DEF RemoteEdit
  <2>3. i \in Id /\ Object(clock', Others) \in Order
    BY <2>1, LocalMapAssumption DEF Object, Order, Kind
  <2>4. history[session] \in Store
    BY <2>1 DEF CardTyped
  <2>5. /\ Overwrite(history[session], [id |-> i, order |-> Object(clock', Others)]) \in Store
        /\ Overwrite(orders, [id |-> i, order |-> Object(clock', Others)]) \in Store
    BY <1>b, <2>3, <2>4, Overwritten
  <2>6. history' \in [Room -> Store]
    BY <2>2, <2>5 DEF CardTyped
  <2>7. {orders', drawn'} \subseteq Store /\ saveDue' \in BOOLEAN /\ CardDrawn'
    BY <1>7, <2>2, <2>5
  <2>8. CardTyped'
    BY <1>10, <2>1, <2>6, <2>7 DEF RemoteEdit, module, ghosts, CardTyped
  <2> QED
    BY <2>7, <2>8
<1>11. CASE AttachMeshRadio
  <2>1. /\ orders' = Merge(orders, meshCard) /\ drawn' = Synced(drawn, orders')
        /\ orders' \in Store
    BY <1>11, OtherCards DEF AttachMeshRadio
  <2>2. drawn' \in Store /\ CardDrawn'
    BY <1>b, <2>1, LayerSynced DEF CardDrawn
  <2>3. CardTyped'
    BY <1>11, <2>1, <2>2 DEF AttachMeshRadio, server, cards, CardTyped
  <2> QED
    BY <2>2, <2>3
<1>12. CASE RadioStatus
  BY <1>12 DEF RadioStatus, server, cards, ghosts, CardTyped, CardDrawn
<1>13. CASE HearOrder
  <2>1. PICK i \in Aired :
          /\ Show(IF feeds THEN MergeOrder(orders, i, Object(0, Others)) ELSE orders)
          /\ heard' = heard \cup (IF feeds THEN {i} ELSE {})
    BY <1>13 DEF HearOrder
  <2>2. i \in Id /\ Object(0, Others) \in Order
    BY LocalMapAssumption DEF Object, Order, Kind
  <2>3. (IF feeds THEN MergeOrder(orders, i, Object(0, Others)) ELSE orders) \in Store
    BY <1>b, <2>2, OrderMerged
  <2>4. {orders', drawn'} \subseteq Store /\ saveDue' \in BOOLEAN /\ CardDrawn'
    BY <1>7, <2>1, <2>3
  <2>5. heard' \subseteq Id
    BY <2>1, <2>2 DEF CardTyped
  <2>6. CardTyped'
    BY <1>13, <2>4, <2>5 DEF HearOrder, server, module, CardTyped
  <2> QED
    BY <2>4, <2>6
<1>14. CASE SaveMeshOrders
  BY <1>14, <1>b DEF SaveMeshOrders, server, module, ghosts, CardTyped, CardDrawn
<1>15. CASE DetachMesh
  BY <1>15, <1>b DEF DetachMesh, Flushed, server, ghosts, CardTyped, CardDrawn
<1> QED
  BY <1>1, <1>2, <1>3, <1>5, <1>6, <1>8, <1>9, <1>10, <1>11, <1>12, <1>13, <1>14, <1>15 DEF CardStep

DrawnInv == Typed /\ CardDrawn

(* Types; and the layer shows the card of the page, whatever the path an   *)
(* order came by or went (map/orders.ts:114).                              *)
LEMMA DrawnInvariant == Spec => []DrawnInv
<1>1. Init => DrawnInv
  <2>1. Init => CardDrawn
    BY DEF Init, CardDrawn, Visible, OfKind, EmptyStore, Held
  <2> QED
    BY <2>1, ToolsInit, CardInit DEF DrawnInv, Typed
<1>2. DrawnInv /\ [Next]_vars => DrawnInv'
  BY ToolsStep, CardSteps, DrawnStep DEF DrawnInv, Typed
<1> QED
  BY <1>1, <1>2, PTL DEF Spec

THEOREM LayerFollowsCard == Spec => []DrawnIsVisible
<1>1. DrawnInv => DrawnIsVisible
  BY DEF DrawnInv, Typed, ToolsTyped, CardTyped, CardDrawn, DrawnIsVisible, TypeOK
<1> QED
  BY <1>1, DrawnInvariant, PTL

-----------------------------------------------------------------------------
(* What is drawn in solo.                                                  *)

\* Leaving a room shows the solo card again, and in solo it is the page that
\* is written: both hold what must be kept.
KeptInv ==
  /\ kept \subseteq Held(soloCard)
  /\ session = None => kept \subseteq Held(orders)

\* What submitting an order does to what the cards hold.
LEMMA SubmittedHeld ==
  ASSUME CardTyped, NEW i \in Id, NEW o \in Order, Submission(i, o)
  PROVE  \/ /\ session # None /\ session' = session
            /\ Held(orders') = Held(orders) \cup {i} /\ soloCard' = soloCard
            /\ Ids(outbox') = Ids(outbox) \cup {i}
         \/ /\ session = None /\ session' = None /\ radio = "online" /\ outbox' = outbox
            /\ Held(orders') = Held(orders) \cup {i} /\ soloCard' = soloCard
         \/ /\ session = None /\ session' = None /\ radio # "online" /\ outbox' = outbox
            /\ orders' = Applied(orders, i, o) /\ soloCard' = orders'
<1>1. orders \in Store /\ outbox \in Seq(Message) /\ session' = session
  BY DEF CardTyped, Submission, SubmitOrder
<1>2. [id |-> i, order |-> o] \in Message
  BY DEF Message
<1>3. CASE SentToRoom(i, o)
  <2>1. Held(orders') = Held(orders) \cup {i}
    BY <1>1, <1>3, Overwritten DEF SentToRoom, Show
  <2>2. Ids(outbox') = Ids(outbox) \cup {i}
    BY <1>1, <1>2, <1>3, QueueIds DEF SentToRoom
  <2> QED
    BY <1>1, <1>3, <2>1, <2>2 DEF SentToRoom
<1>4. CASE SentByRadio(i, o)
  BY <1>1, <1>4, OrderMerged DEF SentByRadio, Show
<1>5. CASE KeptInSolo(i, o)
  BY <1>1, <1>5 DEF KeptInSolo, Show
<1> QED
  BY <1>3, <1>4, <1>5, Ways DEF Submission

LEMMA KeptStep == CardTyped /\ KeptInv /\ CardStep => KeptInv'
<1> SUFFICES ASSUME CardTyped, KeptInv, CardStep PROVE KeptInv'
  OBVIOUS
<1>b. {orders, meshCard, soloCard} \subseteq Store /\ None \notin Room
  BY LocalMapAssumption DEF CardTyped
<1>1. CASE CardSame \/ RadioStatus \/ SaveMeshOrders \/ DetachMesh
  BY <1>1 DEF CardSame, RadioStatus, SaveMeshOrders, DetachMesh, server, cards, module, ghosts, KeptInv
<1>2. ASSUME NEW i \in Id, NEW o \in Order, Submission(i, o) PROVE KeptInv'
  <2>1. kept' = IF IsShared THEN kept \ DeletedBy(o)
                ELSE (kept \cup (IF o.kind = "object" THEN {i} ELSE {})) \ DeletedBy(o)
    BY <1>2 DEF Submission, SubmitOrder
  <2>2. CASE IsShared
    <3>1. Held(orders) \subseteq Held(orders') /\ soloCard' = soloCard /\ session' = session
      BY <1>2, <2>2, SubmittedHeld DEF IsShared
    <3> QED
      BY <2>1, <2>2, <3>1 DEF KeptInv
  <2>3. CASE ~IsShared
    <3>1. session = None /\ orders' = Applied(orders, i, o) /\ soloCard' = orders'
      BY <1>2, <2>3, SubmittedHeld DEF IsShared
    <3>2. kept \subseteq Held(orders)
      BY <3>1 DEF KeptInv
    <3>3. kept' \subseteq Held(orders')
      <4>1. CASE o.kind = "remove"
        BY <1>b, <2>1, <2>3, <3>1, <3>2, <4>1, SoloApplied DEF DeletedBy
      <4>2. CASE o.kind = "clear"
        BY <2>1, <2>3, <3>2, <4>2 DEF DeletedBy
      <4>3. CASE o.kind = "object"
        BY <1>b, <2>1, <2>3, <3>1, <3>2, <4>3, SoloApplied DEF DeletedBy
      <4> QED
        BY <1>2, <4>1, <4>2, <4>3 DEF Submission
    <3> QED
      BY <3>1, <3>3 DEF KeptInv
  <2> QED
    BY <2>2, <2>3
<1>3. ASSUME NEW r \in Room, Joined(r) PROVE KeptInv'
  BY <1>3, <1>b DEF Joined, KeptInv
<1>4. CASE ExitToSolo
  BY <1>4 DEF ExitToSolo, Restored, KeptInv
<1>5. CASE Relaunch
  BY <1>5 DEF Relaunch, Restored, KeptInv
<1>6. CASE Rejoined \/ Sent \/ RemoteEdit
  BY <1>6 DEF Rejoined, Sent, RemoteEdit, server, module, ghosts, KeptInv
<1>7. CASE AttachMeshRadio
  <2>1. Held(orders) \subseteq Held(orders')
    BY <1>7, <1>b, StoresMerged DEF AttachMeshRadio
  <2> QED
    BY <1>7, <2>1 DEF AttachMeshRadio, cards, KeptInv
<1>8. CASE HearOrder
  <2>1. PICK i \in Aired :
          orders' = IF feeds THEN MergeOrder(orders, i, Object(0, Others)) ELSE orders
    BY <1>8 DEF HearOrder, Show
  <2>2. i \in Id /\ Object(0, Others) \in Order
    BY LocalMapAssumption DEF Object, Order, Kind
  <2>3. Held(orders) \subseteq Held(orders')
    BY <1>b, <2>1, <2>2, OrderMerged
  <2> QED
    BY <1>8, <2>3 DEF HearOrder, KeptInv
<1> QED
  BY <1>1, <1>2, <1>3, <1>4, <1>5, <1>6, <1>7, <1>8 DEF CardStep

(* A figure drawn in solo is in the solo card until the user deletes it or *)
(* imports it into a room (mapView.ts:103).                                *)
THEOREM SoloCardSurvives == Spec => []SoloSurvives
<1>1. Init => KeptInv
  BY DEF Init, KeptInv
<1>2. DrawnInv /\ KeptInv /\ [Next]_vars => KeptInv'
  BY CardSteps, KeptStep DEF DrawnInv, Typed
<1>3. KeptInv => SoloSurvives
  BY DEF KeptInv, SoloSurvives
<1> QED
  BY <1>1, <1>2, <1>3, DrawnInvariant, PTL DEF Spec

-----------------------------------------------------------------------------
(* What is deleted in solo.                                                *)

\* The identifiers in use.
Known == given \cup Aired \cup UNION {Remote[r] : r \in Room}

\* A solo store: nothing that was deleted, nothing a clear would spare.
Past(store) == \A i \in Held(store) : i \in Known \ gone /\ store[i].ts <= clock

\* Until a module was seen, what was deleted is neither on the solo card nor in
\* anything the room the phone is in may bring back.
GoneInv ==
  /\ \A r \in Room : Remote[r] \subseteq Held(history[r])
  /\ radio # "none" => attaches > 0
  /\ attaches > 0 => gone = {}
  /\ attaches = 0 =>
       /\ gone \subseteq Known
       /\ Past(soloCard)
       /\ session = None => Past(orders)
       /\ session # None =>
            gone \cap (Held(orders) \cup Held(history[session]) \cup Ids(outbox)) = {}

LEMMA GoneInit == Init => GoneInv
<1> SUFFICES ASSUME Init PROVE GoneInv
  OBVIOUS
<1>1. ASSUME NEW r \in Room PROVE Remote[r] \subseteq Held(history[r])
  <2>1. Object(0, Others) \in Order
    BY LocalMapAssumption DEF Object, Order, Kind
  <2>2. Remote[r] \subseteq Id
    BY LocalMapAssumption
  <2> QED
    BY <2>1, <2>2, OrdersAssumption DEF Init, Held
<1> QED
  BY <1>1, EmptyIsStore DEF Init, GoneInv, Past

LEMMA GoneStep == CardTyped /\ CardDrawn /\ GoneInv /\ CardStep => GoneInv'
<1> SUFFICES ASSUME CardTyped, CardDrawn, GoneInv, CardStep PROVE GoneInv'
  OBVIOUS
<1>a. phone.orders \in Nat /\ clock \in Nat /\ attaches \in Nat
  BY LocalMapAssumption DEF CardTyped
<1>b. /\ {orders, meshCard, soloCard, drawn} \subseteq Store /\ outbox \in Seq(Message)
      /\ None \notin Room /\ \A r \in Room : history[r] \in Store
  BY LocalMapAssumption DEF CardTyped
<1>1. CASE CardSame \/ RadioStatus \/ SaveMeshOrders
  BY <1>1 DEF CardSame, RadioStatus, SaveMeshOrders, server, cards, module, ghosts, GoneInv, Past, Known
<1>2. ASSUME NEW i \in Id, NEW o \in Order, Submission(i, o) PROVE GoneInv'
  <2>1. /\ UNCHANGED <<session, history, radio, attaches>> /\ clock' = clock + 1
        /\ given' = given \cup {i} /\ Known' = Known \cup {i}
        /\ gone' = (gone \cup (IF IsShared \/ attaches > 0 THEN {} ELSE DeletedBy(o)))
                     \ (IF o.kind = "object" THEN {i} ELSE {})
    BY <1>2 DEF Submission, SubmitOrder, module, Known
  <2>2. CASE attaches > 0
    BY <1>a, <2>1, <2>2 DEF GoneInv
  <2>3. CASE attaches = 0 /\ session # None
    <3>1. gone' = gone \ (IF o.kind = "object" THEN {i} ELSE {}) /\ i \notin gone'
      BY <1>2, <2>1, <2>3 DEF IsShared, Submission, GoneInv, Known
    <3>2. /\ Held(orders') = Held(orders) \cup {i} /\ soloCard' = soloCard
          /\ Ids(outbox') = Ids(outbox) \cup {i}
      BY <1>2, <2>3, SubmittedHeld
    <3>3. Past(soloCard)'
      <4>1. \A j \in Held(soloCard) : soloCard[j] \in Order
        BY <1>b DEF Store, Held
      <4> QED
        BY <1>a, <2>1, <2>3, <3>1, <3>2, <4>1 DEF GoneInv, Past, Order
    <3> QED
      BY <2>1, <2>3, <3>1, <3>2, <3>3 DEF GoneInv
  <2>4. CASE attaches = 0 /\ session = None
    <3>1. radio = "none" /\ gone \subseteq Known /\ Past(orders) /\ ~IsShared
      BY <1>a, <2>4 DEF GoneInv, IsShared
    <3>2. orders' = Applied(orders, i, o) /\ soloCard' = orders'
      BY <1>2, <2>4, <3>1, SubmittedHeld
    <3>3. /\ \A j \in Held(orders) : orders[j] \in Order /\ orders[j].ts \in Nat
          /\ o.ts = clock + 1
      BY <1>2, <1>b DEF Store, Held, Order, Submission
    <3>4. Past(orders)' /\ gone' \subseteq Known'
      <4>1. CASE o.kind = "object"
        <5>1. gone' = gone \ {i}
          BY <2>1, <4>1 DEF DeletedBy
        <5>2. orders' = Overwrite(orders, [id |-> i, order |-> o])
          BY <3>2, <4>1 DEF Applied
        <5>3. Held(orders') = Held(orders) \cup {i}
          BY <1>b, <3>2, <4>1, SoloApplied
        <5>4. ASSUME NEW j \in Held(orders') PROVE j \in Known' \ gone' /\ orders'[j].ts <= clock'
          <6>1. CASE j = i
            <7>1. orders'[j] = o
              BY <1>b, <5>2, <6>1 DEF Overwrite, Store
            <7> QED
              BY <1>a, <2>1, <3>3, <5>1, <6>1, <7>1
          <6>2. CASE j # i
            <7>1. orders'[j] = orders[j] /\ j \in Held(orders)
              BY <1>b, <5>2, <5>3, <5>4, <6>2 DEF Overwrite, Store, Held
            <7>2. j \in Known \ gone /\ orders[j].ts <= clock /\ orders[j].ts \in Nat
              BY <3>1, <3>3, <7>1 DEF Past
            <7>3. orders[j].ts <= clock + 1
              BY <1>a, <7>2
            <7>4. j \in Known' \ gone'
              BY <2>1, <5>1, <7>2
            <7> QED
              BY <2>1, <7>1, <7>3, <7>4
          <6> QED
            BY <6>1, <6>2
        <5> QED
          BY <2>1, <3>1, <5>1, <5>4 DEF Past
      <4>2. CASE o.kind = "remove"
        <5>1. o.target \in Held(orders)
          BY <1>2, <4>2 DEF Submission, CardDrawn, Visible, OfKind
        <5>2. gone' = gone \cup {o.target}
          BY <2>1, <2>4, <3>1, <4>2, <1>a DEF DeletedBy
        <5>3. orders' = [orders EXCEPT ![o.target] = Absent]
          BY <3>2, <4>2 DEF Applied
        <5>4. Held(orders') = Held(orders) \ {o.target}
          BY <1>b, <3>2, <4>2, SoloApplied
        <5>5. ASSUME NEW j \in Held(orders') PROVE j \in Known' \ gone' /\ orders'[j].ts <= clock'
          <6>1. orders'[j] = orders[j] /\ j \in Held(orders) /\ j # o.target
            BY <1>b, <5>3, <5>4, <5>5 DEF Store, Held
          <6>2. j \in Known \ gone /\ orders[j].ts <= clock /\ orders[j].ts \in Nat
            BY <3>1, <3>3, <6>1 DEF Past
          <6>3. orders[j].ts <= clock + 1
            BY <1>a, <6>2
          <6>4. j \in Known' \ gone'
            BY <2>1, <5>2, <6>1, <6>2
          <6> QED
            BY <2>1, <6>1, <6>3, <6>4
        <5> QED
          BY <2>1, <3>1, <5>1, <5>2, <5>5 DEF Past
      <4>3. CASE o.kind = "clear"
        <5>1. gone' = gone \cup Held(orders)
          BY <2>1, <2>4, <3>1, <4>3, <1>a DEF DeletedBy
        <5>2. o.beforeTs = clock + 1
          BY <1>2, <4>3 DEF Submission
        <5>3. \A j \in Held(orders) : orders[j].ts <= o.beforeTs
          BY <1>a, <3>1, <3>3, <5>2 DEF Past
        <5>4. Held(orders') = {j \in Held(orders) : ~ orders[j].ts <= o.beforeTs}
          BY <1>b, <3>2, <4>3, SoloApplied
        <5>5. Held(orders') = {}
          BY <5>3, <5>4
        <5>6. gone' \subseteq Known'
          BY <2>1, <3>1, <5>1 DEF Past
        <5> QED
          BY <5>5, <5>6 DEF Past
      <4> QED
        BY <1>2, <4>1, <4>2, <4>3 DEF Submission
    <3> QED
      BY <2>1, <2>4, <3>1, <3>2, <3>4 DEF GoneInv, Past
  <2> QED
    BY <1>a, <2>2, <2>3, <2>4
<1>3. ASSUME NEW r \in Room, Joined(r) PROVE GoneInv'
  <2>1. PICK snapshot : snapshot = Merge(IF session = r THEN orders ELSE EmptyStore, history[r])
    OBVIOUS
  <2>2. /\ Held(history[r]) \cup Ids(outbox') \subseteq Held(orders')
        /\ soloCard' = soloCard \/ soloCard' = EmptyStore
    BY <1>3, <2>1, JoinedCard
  <2>3. /\ session' = r /\ gone' = gone \ Held(orders') /\ Known' = Known
        /\ UNCHANGED <<history, radio, attaches, clock>>
    BY <1>3 DEF Joined, module, Known
  <2>4. Past(soloCard) => Past(soloCard)'
    BY <2>2, <2>3, EmptyIsStore DEF Past
  <2> QED
    BY <1>b, <2>2, <2>3, <2>4 DEF GoneInv
<1>4. CASE ExitToSolo
  BY <1>4 DEF ExitToSolo, Restored, GoneInv, Past, Known
<1>5. CASE Relaunch
  <2>1. session # None => Held(orders') = Ids(outbox)
    BY <1>5, <1>b, EmptyIsStore, QueueShown DEF Relaunch
  <2>2. session = None => orders' = soloCard
    BY <1>5 DEF Relaunch, Restored
  <2> QED
    BY <1>5, <2>1, <2>2 DEF Relaunch, GoneInv, Past, Known
<1>6. CASE Rejoined
  <2>1. session \in Room
    BY <1>6 DEF Rejoined, CardTyped
  <2>2. Held(orders') = Held(orders) \cup Held(history[session]) \cup Ids(outbox)
    BY <1>6, <1>b, <2>1, StoresMerged, QueueShown DEF Rejoined, Show
  <2> QED
    BY <1>6, <1>b, <2>1, <2>2 DEF Rejoined, server, module, ghosts, GoneInv, Past, Known
<1>7. ASSUME NEW i \in Id, NEW o \in Order, session \in Room,
             history' = [history EXCEPT ![session] = Overwrite(@, [id |-> i, order |-> o])]
      PROVE  /\ Held(history[session])' = Held(history[session]) \cup {i} \/ session' # session
             /\ \A r \in Room : Remote[r] \subseteq Held(history'[r])
  <2>1. /\ Held(Overwrite(history[session], [id |-> i, order |-> o])) = Held(history[session]) \cup {i}
        /\ history'[session] = Overwrite(history[session], [id |-> i, order |-> o])
        /\ \A r \in Room : r # session => history'[r] = history[r]
    BY <1>7, <1>b, Overwritten DEF CardTyped
  <2> QED
    BY <1>7, <2>1 DEF GoneInv
<1>8. CASE Sent
  <2>1. session \in Room /\ outbox # << >>
    BY <1>8 DEF Sent, CardTyped
  <2>2. /\ Head(outbox) \in Message /\ Head(outbox).id \in Ids(outbox)
        /\ Ids(Tail(outbox)) \subseteq Ids(outbox)
    <3>1. Head(outbox) \in Message
      BY <1>b, <2>1
    <3> QED
      BY <1>b, <2>1, <3>1, QueueIds
  <2>3. /\ Head(outbox).id \in Id /\ Head(outbox).order \in Order
        /\ Head(outbox) = [id |-> Head(outbox).id, order |-> Head(outbox).order]
    BY <2>2 DEF Message
  <2>4. /\ Held(history[session])' = Held(history[session]) \cup {Head(outbox).id}
        /\ \A r \in Room : Remote[r] \subseteq Held(history'[r])
    <3>1. history' = [history EXCEPT ![session] =
                        Overwrite(@, [id |-> Head(outbox).id, order |-> Head(outbox).order])]
      BY <1>8, <2>3 DEF Sent
    <3>2. session' = session
      BY <1>8 DEF Sent
    <3> QED
      BY <1>7, <2>1, <2>3, <3>1, <3>2
  <2>5. /\ orders' = orders /\ outbox' = Tail(outbox)
        /\ UNCHANGED <<session, soloCard, radio, attaches, clock, given, gone>>
    BY <1>8 DEF Sent, Show, module, ghosts
  <2> QED
    BY <1>b, <2>1, <2>2, <2>4, <2>5 DEF GoneInv, Past, Known
<1>9. CASE RemoteEdit
  <2>1. session \in Room /\ session' = session /\ clock' = clock + 1 /\ clock' \in Nat
    BY <1>9, <1>a DEF RemoteEdit, CardTyped
  <2>2. PICK i \in Remote[session] \cap Plots :
          /\ history' = [history EXCEPT ![session] = Overwrite(@, [id |-> i, order |-> Object(clock', Others)])]
          /\ Show(Overwrite(orders, [id |-> i, order |-> Object(clock', Others)]))
    BY <1>9 DEF RemoteEdit
  <2>3. i \in Id /\ Object(clock', Others) \in Order
    BY <2>1, LocalMapAssumption DEF Object, Order, Kind
  <2>4. /\ Held(history[session])' = Held(history[session]) \cup {i}
        /\ \A r \in Room : Remote[r] \subseteq Held(history'[r])
    BY <1>7, <2>1, <2>2, <2>3
  <2>5. i \in Held(history[session])
    BY <2>1 DEF GoneInv
  <2>6. Held(orders') = Held(orders) \cup {i}
    BY <1>b, <2>2, <2>3, Overwritten DEF Show
  <2>7. UNCHANGED <<outbox, soloCard, radio, attaches, given, gone>>
    BY <1>9 DEF RemoteEdit, module, ghosts
  <2>8. Past(soloCard) => Past(soloCard)'
    <3>1. \A j \in Held(soloCard) : soloCard[j] \in Order
      BY <1>b DEF Store, Held
    <3> QED
      BY <1>a, <2>1, <2>7, <3>1 DEF Past, Known, Order
  <2> QED
    BY <1>b, <2>1, <2>4, <2>5, <2>6, <2>7, <2>8 DEF GoneInv, Known
<1>10. CASE AttachMeshRadio
  BY <1>10, <1>a DEF AttachMeshRadio, server, GoneInv
<1>11. CASE HearOrder
  BY <1>11, <1>a DEF HearOrder, server, module, GoneInv
<1>12. CASE DetachMesh
  BY <1>12 DEF DetachMesh, server, ghosts, GoneInv, Past, Known
<1> QED
  BY <1>1, <1>2, <1>3, <1>4, <1>5, <1>6, <1>8, <1>9, <1>10, <1>11, <1>12 DEF CardStep

(* What was deleted in solo with no module in sight stays deleted          *)
(* (soloOrders.ts:46).                                                     *)
THEOREM SoloDeletesLast == Spec => []SoloDeletesForGood
<1>1. DrawnInv /\ GoneInv /\ [Next]_vars => GoneInv'
  BY CardSteps, GoneStep DEF DrawnInv, Typed
<1>2. DrawnInv /\ GoneInv => SoloDeletesForGood
  <2> SUFFICES ASSUME DrawnInv, GoneInv PROVE gone \cap Held(drawn) = {}
    BY DEF SoloDeletesForGood
  <2>1. attaches \in Nat /\ Held(drawn) \subseteq Held(orders)
    BY DEF DrawnInv, Typed, CardTyped, CardDrawn, Visible, OfKind
  <2> QED
    BY <2>1 DEF GoneInv, Past
<1> QED
  BY <1>1, <1>2, GoneInit, DrawnInvariant, PTL DEF Spec

-----------------------------------------------------------------------------
(* What the radio brings.                                                  *)

\* A step that takes nothing off the card, hears nothing and drops no write
\* leaves what was heard as safe as it was.
LEMMA HeardKept ==
  ASSUME HeardIsSaved, heard' \subseteq heard, Held(orders) \subseteq Held(orders'),
         meshCard' = meshCard, saveDue => saveDue', heard \subseteq Id
  PROVE  HeardIsSaved'
BY DEF HeardIsSaved, Held

LEMMA HeardStep == CardTyped /\ HeardIsSaved /\ CardStep => HeardIsSaved'
<1> SUFFICES ASSUME CardTyped, HeardIsSaved, CardStep PROVE HeardIsSaved'
  OBVIOUS
<1>b. /\ {orders, meshCard, soloCard} \subseteq Store /\ outbox \in Seq(Message)
      /\ \A r \in Room : history[r] \in Store
      /\ heard \subseteq Id
  BY DEF CardTyped
<1>1. CASE CardSame \/ RadioStatus
  BY <1>1 DEF CardSame, RadioStatus, server, cards, module, ghosts, HeardIsSaved
<1>2. ASSUME NEW i \in Id, NEW o \in Order, Submission(i, o) PROVE HeardIsSaved'
  <2>1. /\ heard' = heard \ DeletedBy(o) /\ meshCard' = meshCard
        /\ saveDue => saveDue'
    BY <1>2, Ways DEF Submission, SubmitOrder, SentToRoom, SentByRadio, KeptInSolo, Show
  <2>2. CASE Held(orders) \subseteq Held(orders')
    BY <1>b, <2>1, <2>2, HeardKept
  <2>3. CASE orders' = Applied(orders, i, o)
    <3>1. heard \subseteq Held(orders)
      BY <1>b DEF HeardIsSaved, Held
    <3>2. heard' \subseteq Held(orders')
      <4>1. CASE o.kind = "remove"
        BY <1>b, <2>1, <2>3, <3>1, <4>1, SoloApplied DEF DeletedBy
      <4>2. CASE o.kind = "clear"
        BY <2>1, <3>1, <4>2 DEF DeletedBy
      <4>3. CASE o.kind = "object"
        BY <1>b, <2>1, <2>3, <3>1, <4>3, SoloApplied
      <4> QED
        BY <1>2, <4>1, <4>2, <4>3 DEF Submission
    <3> QED
      BY <2>1, <3>2 DEF HeardIsSaved, Held
  <2> QED
    BY <1>2, <2>2, <2>3, SubmittedHeld
<1>3. CASE (\E r \in Room : Joined(r)) \/ ExitToSolo \/ AttachMeshRadio \/ Relaunch
  <2>1. heard' = {}
    BY <1>3 DEF Joined, ExitToSolo, AttachMeshRadio, Relaunch
  <2> QED
    BY <2>1 DEF HeardIsSaved
<1>4. CASE Rejoined
  <2>1. session \in Room
    BY <1>4 DEF Rejoined, CardTyped
  <2>2. Held(orders') = Held(orders) \cup Held(history[session]) \cup Ids(outbox)
    BY <1>4, <1>b, <2>1, StoresMerged, QueueShown DEF Rejoined, Show
  <2>3. heard' = heard /\ meshCard' = meshCard /\ (saveDue => saveDue')
    BY <1>4 DEF Rejoined, Show, ghosts
  <2> QED
    BY <1>b, <2>2, <2>3, HeardKept
<1>5. CASE Sent
  BY <1>5 DEF Sent, Show, ghosts, HeardIsSaved
<1>6. CASE RemoteEdit
  <2>1. PICK i \in Remote[session] \cap Plots :
          Show(Overwrite(orders, [id |-> i, order |-> Object(clock', Others)]))
    BY <1>6 DEF RemoteEdit
  <2>2. i \in Id /\ Object(clock', Others) \in Order
    <3>1. phone.orders \in Nat /\ clock' \in Nat
      BY <1>6, LocalMapAssumption DEF RemoteEdit, CardTyped
    <3> QED
      BY <3>1, LocalMapAssumption DEF Object, Order, Kind
  <2>3. Held(orders') = Held(orders) \cup {i}
    BY <1>b, <2>1, <2>2, Overwritten DEF Show
  <2>4. heard' = heard /\ meshCard' = meshCard /\ (saveDue => saveDue')
    BY <1>6, <2>1 DEF RemoteEdit, Show, ghosts
  <2> QED
    BY <1>b, <2>3, <2>4, HeardKept
<1>7. CASE HearOrder
  <2>1. PICK i \in Aired :
          /\ orders' = IF feeds THEN MergeOrder(orders, i, Object(0, Others)) ELSE orders
          /\ heard' = heard \cup (IF feeds THEN {i} ELSE {})
    BY <1>7 DEF HearOrder, Show
  <2>2. i \in Id /\ Object(0, Others) \in Order
    BY LocalMapAssumption DEF Object, Order, Kind
  <2>3. saveDue'
    BY <1>7 DEF HearOrder, Show
  <2>4. heard' \subseteq Held(orders')
    BY <1>b, <2>1, <2>2, OrderMerged DEF HeardIsSaved, Held
  <2> QED
    BY <2>3, <2>4 DEF HeardIsSaved, Held
<1>8. CASE SaveMeshOrders
  BY <1>8 DEF SaveMeshOrders, ghosts, HeardIsSaved
<1>9. CASE DetachMesh
  BY <1>9 DEF DetachMesh, Flushed, ghosts, HeardIsSaved
<1> QED
  BY <1>1, <1>2, <1>3, <1>4, <1>5, <1>6, <1>7, <1>8, <1>9 DEF CardStep

(* What the radio brought to the card stays there until the user deletes   *)
(* it or the card is left, and is in storage or about to be                *)
(* (meshStore.ts:3).                                                       *)
THEOREM HeardIsStored == Spec => []HeardIsSaved
<1>1. Init => HeardIsSaved
  BY DEF Init, HeardIsSaved
<1>2. DrawnInv /\ HeardIsSaved /\ [Next]_vars => HeardIsSaved'
  BY CardSteps, HeardStep DEF DrawnInv, Typed
<1> QED
  BY <1>1, <1>2, DrawnInvariant, PTL DEF Spec

=============================================================================
