------------------------------ MODULE LocalMap ------------------------------
(***************************************************************************)
(* The map of one phone and the three places its orders are kept in: the   *)
(* page (client/src/state.ts), the solo card (soloOrders.ts) and the       *)
(* orders of the radio (transport/meshStore.ts).  The user draws, edits,   *)
(* removes and clears (views/mapView.ts), enters and leaves rooms,         *)
(* attaches and detaches a module (transport/index.ts); the system kills   *)
(* the page.  What the layer draws is map/orders.ts.                       *)
(*                                                                         *)
(* The server is abstract: it answers a join, accepts the head of the      *)
(* queue, and forgets nothing; OrderRelay has its connections.  Reloads    *)
(* read localStorage, which is taken to be writable.                       *)
(***************************************************************************)
EXTENDS Orders, Sequences, TLC

SE == INSTANCE SequencesExt

CONSTANTS Room,         \* rooms the phone may enter
          Others,       \* an author who is not us
          Solo, Node,   \* SOLO_AUTHOR; the member our module stands for
          None,
          Plots,        \* the ids of the plots (points and hostiles)
          Remote,       \* of each room, the ids its other members drew
          Aired,        \* the ids another node sends by radio
          Mission, TwoArrows,
          MaxVertices,  \* bound of the model: vertices of a sketch
          Phones        \* what the user of a phone does: the sketches drawn, the
                        \* rooms entered and, as bounds, the orders submitted and
                        \* the modules attached

\* What a sketch is drawn for.
Mode == {"none", "measure", "line", "polygon", "arrow", "mission"}

ASSUME LocalMapAssumption ==
  /\ Author = Room \cup {Others, Solo, Node}
  /\ None \notin Room \cup Mission
  /\ TwoArrows \subseteq Mission
  /\ IsFiniteSet(Id) /\ Plots \subseteq Id /\ Aired \subseteq Id
  /\ Remote \in [Room -> SUBSET Id]
  /\ MaxVertices \in Nat \ {0}
  /\ \A p \in Phones : /\ p.orders \in Nat /\ p.attaches \in Nat /\ p.rooms \subseteq Room
                       /\ p.tools \subseteq [mode : Mode \ {"none"}, mission : Mission \cup {None}]

VARIABLES
  phone,     \* which of the Phones it is
  session,   \* the room we are in, kept across reloads
  joins,     \* the rooms asked for, in joins not answered yet
  outbox,    \* the orders to send, kept across reloads
  history,   \* what the server remembers of each room
  orders,    \* state.orders
  soloCard,  \* tq-solo-orders
  meshCard,  \* tq-mesh-orders
  saveDue,   \* a write of meshCard is scheduled
  radio,     \* "none", or the status of the module attached
  feeds,     \* the transport writes to the Map that state.orders is
  attaches,
  sketch,    \* the sketch on the map, or None
  arm,       \* missionFirstArm: the mission it was drawn for, or None
  menu,      \* the tool menu that is open, or "none"
  editId,    \* the plot being edited, or NoId
  drawn,     \* what the orders layer shows
  clock,     \* the orders submitted or received so far
  given,     \* history variable: the ids issued
  kept,      \* history variable: what the solo card must still hold
  gone,      \* history variable: what was deleted in solo, without any radio
  heard      \* history variable: what the radio brought to this card

server == <<joins, outbox, history>>
cards  == <<soloCard, meshCard, saveDue>>
module == <<phone, radio, feeds, attaches>>
tools  == <<sketch, arm, menu, editId>>
ghosts == <<given, kept, gone, heard>>
vars   == <<session, server, orders, cards, module, tools, drawn, clock, ghosts>>

Message == [id : Id, order : Order]

Sketches == [mode : Mode, mission : Mission \cup {None},
             points : 0 .. MaxVertices + 1, frozen : BOOLEAN]

NoSketch == [mode |-> "none", mission |-> None, points |-> 0, frozen |-> FALSE]

Init ==
  /\ phone \in Phones
  /\ session = None /\ joins = {} /\ outbox = <<>>
  /\ history = [r \in Room |-> [i \in Id |-> IF i \in Remote[r] THEN Object(0, Others)
                                             ELSE Absent]]
  /\ orders = EmptyStore /\ soloCard = EmptyStore /\ meshCard = EmptyStore
  /\ saveDue = FALSE
  /\ radio = "none" /\ feeds = FALSE /\ attaches = 0
  /\ sketch = NoSketch /\ arm = None /\ menu = "none" /\ editId = NoId
  /\ drawn = EmptyStore
  /\ clock = 0
  /\ given = {} /\ kept = {} /\ gone = {} /\ heard = {}

-----------------------------------------------------------------------------
(* The layer, and the event 'orders'.                                      *)

\* A bug: the layer adds what is new and takes away what is gone only.
SyncedOnce(layer, store) ==
  [i \in Id |-> IF i \notin Visible(store) THEN Absent
                ELSE IF layer[i] # Absent THEN layer[i] ELSE store[i]]

(* OrdersLayer.sync: a plot that changed is drawn again, a graphic already *)
(* there is left as it is.                                                 *)
Synced(layer, store) ==
  [i \in Id |-> IF i \notin Visible(store) THEN Absent
                ELSE IF layer[i] # Absent /\ i \notin Plots THEN layer[i] ELSE store[i]]

(* The orders of the page become these and 'orders' is emitted: the layer  *)
(* follows, and with a module attached a write is scheduled.               *)
Show(store) ==
  /\ orders' = store
  /\ drawn' = Synced(drawn, store)
  /\ saveDue' = (saveDue \/ radio # "none")

Overwrite(store, msg) == [store EXCEPT ![msg.id] = msg.order]
Merge(store, other) ==
  [i \in Id |-> IF other[i] = Absent THEN store[i]
                ELSE MergeOrder(store, i, other[i])[i]]

\* mergeOutbox: the last version of each id in the queue, over the rest.
WithOutbox(store, queue) ==
  [i \in Id |-> LET its == {k \in DOMAIN queue : queue[k].id = i}
                IN IF its = {} THEN store[i] ELSE queue[SE!Max(its)].order]

-----------------------------------------------------------------------------
(* submitOrder.                                                            *)

IsShared == session # None \/ radio = "online"
OrderAuthor == CASE session # None -> session
                 [] session = None /\ radio # "none" -> Node
                 [] OTHER -> Solo

\* Solo: a remove and a clear delete for good, and there is nothing to keep.
Applied(store, i, o) ==
  CASE o.kind = "remove" -> [store EXCEPT ![o.target] = Absent]
    [] o.kind = "clear"  -> [j \in Id |-> IF store[j] # Absent /\ store[j].ts <= o.beforeTs
                                          THEN Absent ELSE store[j]]
    [] OTHER             -> Overwrite(store, [id |-> i, order |-> o])

\* A bug: deletions are not written.
PersistedObjects(store) == Merge(soloCard, store)

\* persist: the whole card of the page.
Persisted(store) == store

\* What the user deletes with o.
DeletedBy(o) ==
  CASE o.kind = "remove" -> {o.target}
    [] o.kind = "clear"  -> Held(orders)
    [] OTHER             -> {}

SubmitOrder(i, o) ==
  /\ clock < phone.orders /\ clock' = clock + 1
  /\ IF session # None
     THEN /\ Show(Overwrite(orders, [id |-> i, order |-> o]))
          /\ outbox' = Append(outbox, [id |-> i, order |-> o])
          /\ UNCHANGED soloCard
     ELSE IF radio = "online"
     THEN Show(MergeOrder(orders, i, o)) /\ UNCHANGED <<outbox, soloCard>>
     ELSE LET store == Applied(orders, i, o) IN
          Show(store) /\ soloCard' = Persisted(store) /\ UNCHANGED outbox
  /\ kept' = IF IsShared THEN kept \ DeletedBy(o)
             ELSE (kept \cup (IF o.kind = "object" THEN {i} ELSE {})) \ DeletedBy(o)
  /\ gone' = (gone \cup (IF IsShared \/ attaches > 0 THEN {} ELSE DeletedBy(o)))
               \ (IF o.kind = "object" THEN {i} ELSE {})
  /\ given' = given \cup {i}
  /\ heard' = heard \ DeletedBy(o)
  /\ UNCHANGED <<session, joins, history, meshCard, module>>

\* issueOrderId, which of the new ones does not matter.
Fresh(ids) == ids \ (given \cup Aired \cup UNION {Remote[r] : r \in Room})
FreshOne(ids) == CHOOSE i \in Fresh(ids) : TRUE

Submit(ids, o) == Fresh(ids) # {} /\ SubmitOrder(FreshOne(ids), o)

Now == clock + 1
SendGraphic  == Submit(Id \ Plots, Object(Now, OrderAuthor))
SendPlot     == Submit(Plots, Object(Now, OrderAuthor))

\* What a popup may be opened on, and left open no longer than it is drawn.
Tappable == IF sketch = NoSketch THEN Held(drawn) ELSE {}

DeleteOrder  == /\ menu = "none"
                /\ \E t \in Tappable :
                     Submit(Id \ Plots, Remove(Now, t, OrderAuthor))
                /\ UNCHANGED tools
ClearWholeMap == /\ menu = "none" /\ Visible(orders) # {}
                 /\ Submit(Id \ Plots, Clear(Now, OrderAuthor))
                 /\ UNCHANGED tools

-----------------------------------------------------------------------------
(* The tools: a sketch led by the reticle, and the menus that finish one.  *)
(* A menu covers the rest of the screen: with one open the user finishes   *)
(* or closes it.                                                           *)

\* cancelSketch
CancelSketch == sketch' = NoSketch /\ arm' = None

Drawing == sketch # NoSketch /\ ~sketch.frozen

Spawned(mode, mission) ==
  [mode |-> mode, mission |-> mission, points |-> 1, frozen |-> FALSE]

\* A tool, or a card of the Tac panel; the tool in use is put away.
StartSketch ==
  /\ menu = "none"
  /\ \E tool \in phone.tools :
       IF Drawing /\ sketch.mode = tool.mode /\ tool.mode # "mission"
       THEN CancelSketch
       ELSE sketch' = Spawned(tool.mode, tool.mission) /\ arm' = None
  /\ UNCHANGED <<session, server, orders, cards, module, menu, editId, drawn, clock, ghosts>>

AddVertex == /\ sketch.points < MaxVertices
             /\ sketch' = [sketch EXCEPT !.points = @ + 1] /\ UNCHANGED arm
Undo      == /\ sketch.points > 0
             /\ sketch' = [sketch EXCEPT !.points = @ - 1] /\ UNCHANGED arm

\* + Pt, undo, and the cross.
DrawSketch ==
  /\ Drawing
  /\ AddVertex \/ Undo \/ CancelSketch
  /\ UNCHANGED <<session, server, orders, cards, module, menu, editId, drawn, clock, ghosts>>

\* getFinalPoints: the reticle is a last vertex unless it stands on one.
FinalPoints == {sketch.points, sketch.points + 1} \ {0}

\* freeze, and the menu that asks for what the line or the box lacks.
FreezeUnder(n) ==
  /\ sketch' = [sketch EXCEPT !.points = n, !.frozen = TRUE]
  /\ menu' = sketch.mode

FinishSketch ==
  /\ Drawing
  /\ \E n \in FinalPoints :
       \/ /\ sketch.mode = "measure"
          /\ CancelSketch
          /\ UNCHANGED <<session, server, orders, cards, module, menu, drawn, clock, ghosts>>
       \/ /\ n >= 2 /\ sketch.mode = "mission"
          /\ sketch.mission \in TwoArrows /\ arm = None
          /\ arm' = sketch.mission
          /\ sketch' = Spawned("mission", sketch.mission)
          /\ UNCHANGED <<session, server, orders, cards, module, menu, drawn, clock, ghosts>>
       \/ /\ n >= 2
          /\ \/ sketch.mode = "arrow"
             \/ sketch.mode = "mission" /\ (sketch.mission \in TwoArrows => arm # None)
          /\ CancelSketch /\ SendGraphic
          /\ UNCHANGED menu
       \/ /\ n >= (IF sketch.mode = "polygon" THEN 3 ELSE 2)
          /\ sketch.mode \in {"line", "polygon"}
          /\ FreezeUnder(n)
          /\ UNCHANGED <<session, server, orders, cards, module, arm, drawn, clock, ghosts>>
  /\ UNCHANGED editId

\* beginPoint and beginEni, on their buttons.
BeginPlot == editId' = NoId

\* On the button of the popup.
EditPlot == editId' \in Tappable \cap Plots

OpenPlotMenu ==
  /\ menu = "none"
  /\ BeginPlot \/ EditPlot
  /\ CancelSketch
  /\ menu' = "plot"
  /\ UNCHANGED <<session, server, orders, cards, module, drawn, clock, ghosts>>

ClosePlotMenu == menu' = "none" /\ editId' = NoId

\* closeLineMenu and closeBoxMenu: the sketch was left under the menu.
CloseSketchMenu == menu' = "none" /\ CancelSketch /\ UNCHANGED editId

CancelMenu ==
  /\ \/ menu \in {"line", "polygon"} /\ CloseSketchMenu
     \/ menu = "plot" /\ ClosePlotMenu /\ UNCHANGED <<sketch, arm>>
  /\ UNCHANGED <<session, server, orders, cards, module, drawn, clock, ghosts>>

ConfirmLine == menu = "line" /\ SendGraphic /\ CloseSketchMenu

ConfirmBox == menu = "polygon" /\ SendGraphic /\ CloseSketchMenu

\* confirmPointMenu and confirmEniMenu: an edition keeps the identifier.
ConfirmPlot ==
  /\ menu = "plot"
  /\ IF editId = NoId THEN SendPlot
     ELSE SubmitOrder(editId, Object(Now, OrderAuthor))
  /\ ClosePlotMenu /\ UNCHANGED <<sketch, arm>>

-----------------------------------------------------------------------------
(* Rooms.                                                                  *)

\* attemptJoin, of the button, the return key or a room of the history: the
\* menu of rooms keeps none of them from following another.
AttemptJoin(r) ==
  /\ session = None /\ menu = "none" /\ r \in phone.rooms \ joins
  /\ joins' = joins \cup {r}
  /\ UNCHANGED <<session, outbox, history, orders, cards, module, tools, drawn, clock, ghosts>>

JoinRefused(r) ==
  /\ r \in joins /\ joins' = joins \ {r}
  /\ UNCHANGED <<session, outbox, history, orders, cards, module, tools, drawn, clock, ghosts>>

\* What offerSoloImport sends: the solo card, in our name, in one of the
\* orders its list may be in.
Imported(r) ==
  SE!SetToSeqs({[id |-> i, order |-> [soloCard[i] EXCEPT !.by = r]] : i \in Held(soloCard)})

(* The answer to a join, whether or not the menu was closed meanwhile:     *)
(* applyRoomState before the session is the one of the room, then          *)
(* enterRoomUi and the offer to import the solo card.                      *)
Joined(r) ==
  LET snapshot == Merge(IF session = r THEN orders ELSE EmptyStore, history[r])
      card == WithOutbox(snapshot, outbox)
  IN
  /\ r \in joins /\ joins' = joins \ {r}
  /\ session' = r
  /\ \/ /\ Held(soloCard) # {}
        /\ \E list \in Imported(r) : /\ orders' = WithOutbox(card, list)
                                     /\ outbox' = outbox \o list
        /\ soloCard' = EmptyStore
        /\ kept' = {}
     \/ /\ orders' = card
        /\ UNCHANGED <<outbox, soloCard, kept>>
  /\ drawn' = Synced(Synced(drawn, snapshot), orders')
  /\ saveDue' = (saveDue \/ radio # "none")
  /\ gone' = gone \ Held(orders') /\ heard' = {}
  /\ UNCHANGED <<history, meshCard, module, tools, clock, given>>

\* A bug: the solo card is read back at the next start only.
RestoredLater == EmptyStore

\* restoreSoloOrders
Restored == soloCard

(* clearSession and exitToSolo.  state.orders becomes another Map, which   *)
(* the transport of an attached module knows nothing of.  The menus are    *)
(* left as they are.                                                       *)
ExitToSolo ==
  /\ session # None /\ session' = None
  /\ CancelSketch
  /\ orders' = Restored
  /\ drawn' = Synced(EmptyStore, Restored)
  /\ saveDue' = (saveDue \/ radio # "none")
  /\ feeds' = FALSE
  /\ heard' = {}
  /\ UNCHANGED <<outbox, history, soloCard, meshCard, phone, radio, attaches, menu, editId, clock,
                 given, kept, gone>>

\* btn-leave; the joins under way fail with the connection.
LeaveRoom == menu = "none" /\ ExitToSolo /\ joins' = {}

\* room_closed, or a rejoin that is refused.
SessionLost == ExitToSolo /\ UNCHANGED joins

\* rejoin, accepted.
Rejoined ==
  /\ session # None
  /\ Show(WithOutbox(Merge(orders, history[session]), outbox))
  /\ UNCHANGED <<session, server, soloCard, meshCard, module, tools, clock, ghosts>>

\* flushOutbox: the server takes the head of the queue.
Sent ==
  /\ session # None /\ outbox # <<>>
  /\ history' = [history EXCEPT ![session] = Overwrite(@, Head(outbox))]
  /\ outbox' = Tail(outbox)
  /\ Show(orders)
  /\ UNCHANGED <<session, joins, soloCard, meshCard, module, tools, clock, ghosts>>

\* Another member moves or renames a plot of the room.
RemoteEdit ==
  /\ session # None /\ clock < phone.orders /\ clock' = clock + 1
  /\ \E i \in Remote[session] \cap Plots :
       LET msg == [id |-> i, order |-> Object(clock', Others)] IN
       /\ history' = [history EXCEPT ![session] = Overwrite(@, msg)]
       /\ Show(Overwrite(orders, msg))
  /\ UNCHANGED <<session, joins, outbox, soloCard, meshCard, module, tools, ghosts>>

-----------------------------------------------------------------------------
(* The module and the life of the page.                                    *)

\* attachMeshRadio: what was stored is merged before the writes are watched.
AttachMeshRadio ==
  /\ radio = "none" /\ attaches < phone.attaches
  /\ orders' = Merge(orders, meshCard)
  /\ drawn' = Synced(drawn, orders')
  /\ radio' = "online" /\ feeds' = TRUE /\ attaches' = attaches + 1
  /\ gone' = {} /\ heard' = {}
  /\ UNCHANGED <<phone, session, server, cards, tools, clock, given, kept>>

\* The link drops or comes back; the module stays attached.
RadioStatus ==
  /\ radio # "none"
  /\ radio' = IF radio = "online" THEN "silent" ELSE "online"
  /\ UNCHANGED <<session, server, orders, cards, phone, feeds, attaches, tools, drawn, clock, ghosts>>

\* onPrivate: an order of another node, merged into the Map of the transport.
HearOrder ==
  /\ radio = "online"
  /\ \E i \in Aired :
       /\ Show(IF feeds THEN MergeOrder(orders, i, Object(0, Others)) ELSE orders)
       /\ heard' = heard \cup (IF feeds THEN {i} ELSE {})
  /\ UNCHANGED <<session, server, soloCard, meshCard, module, tools, clock, given, kept, gone>>

\* saveMeshOrders, after its delay or because the page is hidden.
SaveMeshOrders ==
  /\ saveDue /\ saveDue' = FALSE
  /\ meshCard' = orders
  /\ UNCHANGED <<session, server, orders, soloCard, module, tools, drawn, clock, ghosts>>

\* A bug: the write that was scheduled is dropped with the watch.
FlushedNothing == meshCard

\* flushMeshSave
Flushed == IF saveDue THEN orders ELSE meshCard

DetachMesh ==
  /\ radio # "none"
  /\ meshCard' = Flushed /\ saveDue' = FALSE
  /\ radio' = "none" /\ feeds' = FALSE
  /\ UNCHANGED <<session, server, orders, soloCard, phone, attaches, tools, drawn, clock, ghosts>>

\* The page is killed, and started again: enterMap.
Relaunch ==
  /\ joins' = {} /\ saveDue' = FALSE
  /\ radio' = "none" /\ feeds' = FALSE
  /\ sketch' = NoSketch /\ arm' = None /\ menu' = "none" /\ editId' = NoId
  /\ orders' = IF session # None THEN WithOutbox(EmptyStore, outbox) ELSE Restored
  /\ drawn' = Synced(EmptyStore, orders')
  /\ heard' = {}
  /\ UNCHANGED <<session, outbox, history, soloCard, meshCard, phone, attaches, clock, given, kept, gone>>

Next ==
  \/ StartSketch \/ DrawSketch \/ FinishSketch
  \/ OpenPlotMenu \/ CancelMenu \/ ConfirmLine \/ ConfirmBox \/ ConfirmPlot
  \/ DeleteOrder \/ ClearWholeMap
  \/ \E r \in Room : AttemptJoin(r) \/ JoinRefused(r) \/ Joined(r)
  \/ LeaveRoom \/ SessionLost \/ Rejoined \/ Sent \/ RemoteEdit
  \/ AttachMeshRadio \/ RadioStatus \/ HearOrder \/ SaveMeshOrders \/ DetachMesh
  \/ Relaunch

Spec == Init /\ [][Next]_vars

-----------------------------------------------------------------------------
\* A plot is being edited only in its menu, the first arm of a double figure
\* belongs to the sketch on the map, no sketch moves under an open menu.
TypeOK ==
  /\ phone \in Phones /\ clock \in 0 .. phone.orders
  /\ session \in Room \cup {None} /\ joins \subseteq Room
  /\ outbox \in Seq(Message)
  /\ history \in [Room -> Store]
  /\ {orders, soloCard, meshCard, drawn} \subseteq Store
  /\ saveDue \in BOOLEAN /\ feeds \in BOOLEAN
  /\ radio \in {"none", "online", "silent"}
  /\ attaches \in Nat /\ {given, kept, gone, heard} \subseteq SUBSET Id
  /\ sketch \in Sketches /\ arm \in Mission \cup {None}
  /\ menu \in {"none", "line", "polygon", "plot"} /\ editId \in Plots \cup {NoId}
  /\ editId # NoId => menu = "plot"
  /\ arm # None => sketch.mode = "mission" /\ sketch.mission = arm
  /\ menu # "none" => ~Drawing

(***************************************************************************)
(* Types; and the layer shows the card of the page, whatever the path an   *)
(* order came by or went: nothing that was removed, cleared or left in     *)
(* another room, and no plot as it was before its last edit                *)
(* (map/orders.ts:114).                                                    *)
(***************************************************************************)
DrawnIsVisible ==
  /\ TypeOK
  /\ Held(drawn) = Visible(orders)
  /\ \A i \in Visible(orders) \cap Plots : drawn[i] = orders[i]

(***************************************************************************)
(* « Les figurés de la carte solo survivent »: a figure drawn in solo is   *)
(* in the solo card until the user deletes it or imports it into a room,   *)
(* across rooms, modules and kills of the page (mapView.ts:103).           *)
(***************************************************************************)
SoloSurvives == kept \subseteq Held(soloCard)

(***************************************************************************)
(* In solo « un remove supprime physiquement sa cible »: what was deleted  *)
(* with no module in sight stays deleted (soloOrders.ts:46).               *)
(***************************************************************************)
SoloDeletesForGood == gone \cap Held(drawn) = {}

(***************************************************************************)
(* What the radio brought to the card stays there until the user deletes   *)
(* it or the card is left, and is in storage or about to be: a module that *)
(* is detached leaves no write behind (meshStore.ts:3).                    *)
(***************************************************************************)
HeardIsSaved == \A i \in heard : orders[i] # Absent /\ (meshCard[i] # Absent \/ saveDue)

(***************************************************************************)
(* The transport writes to « l'état global de l'application »              *)
(* (meshTransport.ts:46).  After a room has been left it is another Map.   *)
(***************************************************************************)
HeardIsShown == radio # "none" => feeds

(***************************************************************************)
(* « Sans quoi les figurés de la salle précédente se déverseraient dans la *)
(* nouvelle » (state.ts:207): no room receives what was composed in        *)
(* another.  The queue does not know the rooms apart.                      *)
(***************************************************************************)
RoomsApart ==
  \A r \in Room, i \in Id : history[r][i] # Absent => history[r][i].by \notin Room \ {r}

(***************************************************************************)
(* A solo figure that is imported is shared with the room: everybody,      *)
(* beginning with its author, sees it (soloOrders.ts:70).  A clear of the  *)
(* room that is younger than the figure hides it at once.                  *)
(***************************************************************************)
ImportsShow ==
  [][session' # None /\ soloCard' # soloCard => Visible(soloCard) \subseteq Visible(orders')]_vars
=============================================================================
