----------------------------- MODULE OrderRelay -----------------------------
(***************************************************************************)
(* Orders by way of the server: a client shows what it composes at once,   *)
(* keeps it in a queue that survives a reload, and sends the queue one     *)
(* order at a time, each acknowledged (client/src/socket.ts, state.ts);    *)
(* the server keeps the last orders of the room, relays them to the others *)
(* and hands them to whoever enters (server/src/handlers.ts, rooms.ts).    *)
(*                                                                         *)
(* A connection is a pair of FIFO channels, lost with what they carry when *)
(* it drops, at both ends at once.  There is one room at a time: once it   *)
(* is closed the next member to enter opens another.  A client that enters *)
(* anew is a new member, so members stand for sessions.  Which requests to *)
(* enter are refused is the matter of Rooms; here any of them may be.      *)
(***************************************************************************)
EXTENDS Orders, Sequences, TLC

SE == INSTANCE SequencesExt

CONSTANTS Client,
          None,         \* no session, no binding
          Stamp,        \* timestamps, of clocks that need not agree
          MaxRecent,    \* MAX_RECENT_ORDERS
          Faults,       \* of each client: "drop", "reload", "slow", "throttle"
          Ends,         \* how a session may end by the server: "close", "kick", "expire"
          MaxOrders,    \* bound of the model: orders composed in all
          MaxConnects   \* bound of the model: connections of each client

ASSUME RelayAssumption ==
  /\ None \notin Author
  /\ Stamp \subseteq Nat
  /\ MaxRecent \in Nat \ {0}
  /\ Faults \in [Client -> SUBSET {"drop", "reload", "slow", "throttle"}]
  /\ Ends \subseteq {"close", "kick", "expire"}
  /\ MaxOrders \in Nat /\ MaxConnects \in [Client -> Nat]

VARIABLES
  session,    \* of each client: the member it is, None in solo
  orders,     \* state.orders, empty in solo
  outbox,     \* the orders to send, in the page and in localStorage
  conn,       \* whether the client shows itself as connected
  awaits,     \* the requests whose acknowledgement the client awaits
  late,       \* answers to come that the client has ceased to await
  link,       \* whether its socket is connected
  connects,   \* how often it has been
  up, down,   \* the packets under way on its connection
  bound,      \* of each connection, on the server: socket.data.memberId
  listening,  \* the connections in the Socket.IO room
  withheld,   \* the connections whose rejoin is refused, the answer held back
  members,    \* the members of the room
  history,    \* recentOrders of the room
  given,      \* history variable: the member ids given out
  composed,   \* history variable: the messages composed so far
  accepted,   \* history variable: the messages the server has accepted
  excused     \* history variable: clients with an answer late or a quota spent

client == <<session, orders, outbox, conn, awaits, late>>
wire   == <<link, connects, up, down>>
server == <<bound, listening, withheld, members, history, given, accepted>>
vars   == <<client, wire, server, composed, excused>>

Message == [id : Id, order : Order]

Request == [op : {"join"}] \cup [op : {"rejoin"}, member : Author]
             \cup [op : {"send"}, msg : Message]

Answer == {"ok", "INVALID_PAYLOAD", "NOT_IN_ROOM", "RATE_LIMITED"}

TypeOK ==
  /\ session \in [Client -> Author \cup {None}]
  /\ orders \in [Client -> Store]
  /\ \A c \in Client : SE!ToSet(outbox[c]) \subseteq composed
  /\ conn \in [Client -> BOOLEAN]
  /\ awaits \in [Client -> SUBSET {"join", "rejoin", "send"}]
  /\ late \in [Client -> Nat]
  /\ link \in [Client -> BOOLEAN]
  /\ \A c \in Client : connects[c] \in 0 .. MaxConnects[c]
  /\ up \in [Client -> Seq(Request)]
  /\ bound \in [Client -> Author \cup {None}]
  /\ listening \subseteq Client /\ withheld \subseteq Client
  /\ members \subseteq given /\ given \subseteq Author
  /\ history \in Seq(Message) /\ Len(history) <= MaxRecent
  /\ composed \subseteq Message /\ accepted \subseteq composed
  /\ excused \subseteq Client

Init ==
  /\ session = [c \in Client |-> None]
  /\ orders = [c \in Client |-> EmptyStore]
  /\ outbox = [c \in Client |-> << >>]
  /\ conn = [c \in Client |-> FALSE]
  /\ awaits = [c \in Client |-> {}]
  /\ late = [c \in Client |-> 0]
  /\ link = [c \in Client |-> FALSE]
  /\ connects = [c \in Client |-> 0]
  /\ up = [c \in Client |-> << >>]
  /\ down = [c \in Client |-> << >>]
  /\ bound = [c \in Client |-> None]
  /\ listening = {} /\ withheld = {}
  /\ members = {} /\ history = << >>
  /\ given = {} /\ composed = {} /\ accepted = {} /\ excused = {}

-----------------------------------------------------------------------------
(* Helpers of the client.                                                  *)

Overwrite(store, msg) == [store EXCEPT ![msg.id] = msg.order]

(* applyRoomState: what the server remembers is merged, one order after    *)
(* the other.  For each id the newest version wins, and of two as new the  *)
(* one held or, if none is, the first.                                     *)
WithSnapshot(store, recent) ==
  [i \in Id |->
     LET newer == {k \in DOMAIN recent :
                     recent[k].id = i /\ (store[i] # Absent => recent[k].order.ts > store[i].ts)}
         Wins(k) == \A n \in newer : \/ recent[n].order.ts < recent[k].order.ts
                                     \/ recent[n].order.ts = recent[k].order.ts /\ k <= n
     IN IF newer = {} THEN store[i] ELSE recent[CHOOSE k \in newer : Wins(k)].order]

\* Mutant: the queue is not shown again.
WithoutOutbox(store, queue) == store

(* mergeOutbox: what is waiting to be sent is shown over the rest, the     *)
(* last version of each id.                                                *)
WithOutbox(store, queue) ==
  [i \in Id |-> LET its == {k \in DOMAIN queue : queue[k].id = i}
                IN IF its = {} THEN store[i] ELSE queue[SE!Max(its)].order]

Send(msg) == [op |-> "send", msg |-> msg]

\* Mutant: an order refused for the quota leaves the queue as well.
DefinitiveAny(answer) == TRUE

\* Accepted, or refused for good.
Definitive(answer) == answer # "RATE_LIMITED"

\* Mutant: only an order that finds the queue empty starts it.
FlushFirst(c, queue, waiting) ==
  IF link[c] /\ session[c] # None /\ "send" \notin waiting /\ Len(queue) = 1
  THEN /\ awaits' = [awaits EXCEPT ![c] = waiting \cup {"send"}]
       /\ up' = [up EXCEPT ![c] = Append(@, Send(Head(queue)))]
  ELSE /\ awaits' = [awaits EXCEPT ![c] = waiting]
       /\ up' = up

(* flushOutbox, called with the queue of c and what c awaits by then: it   *)
(* starts unless it is under way already.                                  *)
Flush(c, queue, waiting) ==
  IF link[c] /\ session[c] # None /\ "send" \notin waiting /\ queue # << >>
  THEN /\ awaits' = [awaits EXCEPT ![c] = waiting \cup {"send"}]
       /\ up' = [up EXCEPT ![c] = Append(@, Send(Head(queue)))]
  ELSE /\ awaits' = [awaits EXCEPT ![c] = waiting]
       /\ up' = up

\* clearSession, and the return to the solo card.
ClearSession(c) ==
  /\ session' = [session EXCEPT ![c] = None]
  /\ orders' = [orders EXCEPT ![c] = EmptyStore]
  /\ conn' = [conn EXCEPT ![c] = FALSE]

(* The end of a connection, for both sides: what is awaited fails, what is *)
(* under way is lost.                                                      *)
Disconnected(c) ==
  /\ link' = [link EXCEPT ![c] = FALSE]
  /\ awaits' = [awaits EXCEPT ![c] = {}]
  /\ late' = [late EXCEPT ![c] = 0]
  /\ up' = [up EXCEPT ![c] = << >>]
  /\ down' = [down EXCEPT ![c] = << >>]
  /\ bound' = [bound EXCEPT ![c] = None]
  /\ listening' = listening \ {c}
  /\ withheld' = withheld \ {c}
  /\ excused' = excused \ {c}
  /\ UNCHANGED connects

-----------------------------------------------------------------------------
(* What the user and the network do to a client.                           *)

\* 'connect': the socket is connected for the first time, or again by itself.
Connect(c) ==
  /\ ~link[c] /\ connects[c] < MaxConnects[c]
  /\ link' = [link EXCEPT ![c] = TRUE]
  /\ connects' = [connects EXCEPT ![c] = @ + 1]
  /\ IF session[c] # None
     THEN /\ awaits' = [awaits EXCEPT ![c] = {"rejoin"}]
          /\ up' = [up EXCEPT ![c] = << [op |-> "rejoin", member |-> session[c]] >>]
          /\ UNCHANGED conn
     ELSE /\ conn' = [conn EXCEPT ![c] = TRUE]
          /\ UNCHANGED <<awaits, up>>
  /\ UNCHANGED <<session, orders, outbox, late, down, server, composed, excused>>

\* A loss after the last connection allowed would cut the client off for good.
Drop(c) ==
  /\ "drop" \in Faults[c]
  /\ link[c] /\ connects[c] < MaxConnects[c]
  /\ Disconnected(c)
  /\ conn' = [conn EXCEPT ![c] = FALSE]
  /\ UNCHANGED <<session, orders, outbox, members, history, given, composed, accepted>>

(* The page is loaded again: the session and the queue are read back from  *)
(* localStorage, the orders of the room are not.                           *)
Reload(c) ==
  /\ "reload" \in Faults[c]
  /\ link[c] => connects[c] < MaxConnects[c]
  /\ Disconnected(c)
  /\ conn' = [conn EXCEPT ![c] = FALSE]
  /\ orders' = [orders EXCEPT ![c] = IF session[c] = None THEN EmptyStore
                                     ELSE WithOutbox(EmptyStore, outbox[c])]
  /\ UNCHANGED <<session, outbox, members, history, given, composed, accepted>>

\* createRoom and joinRoom.
JoinRoom(c) ==
  /\ link[c] /\ session[c] = None /\ "join" \notin awaits[c]
  /\ given # Author
  /\ awaits' = [awaits EXCEPT ![c] = @ \cup {"join"}]
  /\ up' = [up EXCEPT ![c] = Append(@, [op |-> "join"])]
  /\ UNCHANGED <<session, orders, outbox, conn, late, link, connects, excused, down, server, composed>>

(* leaveRoom: the packet that says so may be lost with the connection that *)
(* is closed behind it.                                                    *)
LeaveRoom(c) ==
  /\ session[c] # None
  /\ Disconnected(c)
  /\ ClearSession(c)
  /\ \/ members' = members
     \/ link[c] /\ members' = members \ {bound[c]}
  /\ UNCHANGED <<outbox, history, given, composed, accepted>>

\* A new identifier of an order or of a member: which one does not matter.
Fresh(ids) == CHOOSE i \in ids : TRUE

Unused == Id \ {msg.id : msg \in composed}

\* sendOrder of socket.ts: shown at once, queued, sent as soon as possible.
Submit(c, i, o) ==
  LET msg == [id |-> i, order |-> o]
      queue == Append(outbox[c], msg)
  IN /\ Cardinality(composed) < MaxOrders
     /\ msg \notin composed
     /\ composed' = composed \cup {msg}
     /\ orders' = [orders EXCEPT ![c] = Overwrite(@, msg)]
     /\ outbox' = [outbox EXCEPT ![c] = queue]
     /\ Flush(c, queue, awaits[c])
     /\ excused' = excused \ {c}
     /\ UNCHANGED <<session, conn, late, link, connects, down, server>>

\* The clock of a client does not go back during a session.
Now(c) == {t \in Stamp : \A msg \in composed :
                            msg.order.by = session[c] => msg.order.ts <= t}

(* A new object or text, or an edit that keeps the id.  The server treats  *)
(* deletions like objects.                                                 *)
Compose(c) ==
  /\ session[c] # None
  /\ \E t \in Now(c) :
       \/ /\ Unused # {}
          /\ \/ Submit(c, Fresh(Unused), Object(t, session[c]))
             \/ Submit(c, Fresh(Unused), Note(t, session[c]))
       \/ \E i \in OfKind(orders[c], "object") : Submit(c, i, Object(t, session[c]))

\* An acknowledgement is not there after ACK_TIMEOUT_MS.
TimeOut(c) ==
  /\ "slow" \in Faults[c]
  /\ \E op \in awaits[c] \ {"join"} :
       /\ awaits' = [awaits EXCEPT ![c] = @ \ {op}]
       /\ late' = IF op = "send" THEN [late EXCEPT ![c] = @ + 1] ELSE late
  /\ excused' = excused \cup {c}
  /\ UNCHANGED <<session, orders, outbox, conn, wire, server, composed>>

-----------------------------------------------------------------------------
(* What a client does with the next packet from the server.                *)

Comes(c, op) == link[c] /\ down[c] # << >> /\ Head(down[c]).op = op

Received(c) == down' = [down EXCEPT ![c] = Tail(@)]

(* The snapshot replaces the solo card; enterRoomUi shows the queue too,   *)
(* whatever session it was composed in.                                    *)
OnJoined(c) ==
  LET p == Head(down[c]) IN
  /\ Comes(c, "joined") /\ Received(c)
  /\ session' = [session EXCEPT ![c] = p.member]
  /\ orders' = [orders EXCEPT ![c] = WithOutbox(WithSnapshot(EmptyStore, p.recent), outbox[c])]
  /\ awaits' = [awaits EXCEPT ![c] = @ \ {"join"}]
  /\ UNCHANGED <<outbox, conn, late, link, connects, excused, up, server, composed>>

OnJoinRefused(c) ==
  /\ Comes(c, "join_refused") /\ Received(c)
  /\ awaits' = [awaits EXCEPT ![c] = @ \ {"join"}]
  /\ UNCHANGED <<session, orders, outbox, conn, late, link, connects, excused, up, server, composed>>

\* rejoin, answered in time: the session is still the one of the request.
OnRejoined(c) ==
  /\ Comes(c, "rejoined") /\ Received(c)
  /\ IF "rejoin" \in awaits[c]
     THEN /\ orders' = [orders EXCEPT ![c] =
                          WithOutbox(WithSnapshot(@, Head(down[c]).recent), outbox[c])]
          /\ conn' = [conn EXCEPT ![c] = TRUE]
          /\ Flush(c, outbox[c], awaits[c] \ {"rejoin"})
     ELSE UNCHANGED <<orders, conn, awaits, up>>
  /\ UNCHANGED <<session, outbox, late, link, connects, excused, server, composed>>

OnRejoinRefused(c) ==
  /\ Comes(c, "rejoin_refused") /\ Received(c)
  /\ IF "rejoin" \in awaits[c] THEN ClearSession(c) ELSE UNCHANGED <<session, orders, conn>>
  /\ awaits' = [awaits EXCEPT ![c] = @ \ {"rejoin"}]
  /\ UNCHANGED <<outbox, late, link, connects, excused, up, server, composed>>

(* flushOutbox: the order acknowledged leaves the queue and the next one   *)
(* goes, in whatever session the client is by now.                         *)
OnAnswer(c) ==
  LET queue == Tail(outbox[c]) IN
  /\ Comes(c, "answer") /\ Received(c)
  /\ IF late[c] > 0
     THEN /\ late' = [late EXCEPT ![c] = @ - 1]
          /\ UNCHANGED <<outbox, awaits, up, excused>>
     ELSE /\ IF Definitive(Head(down[c]).answer)
             THEN /\ outbox' = [outbox EXCEPT ![c] = queue]
                  /\ IF queue = << >> THEN UNCHANGED up
                     ELSE up' = [up EXCEPT ![c] = Append(@, Send(Head(queue)))]
                  /\ awaits' = [awaits EXCEPT ![c] = IF queue = << >> THEN @ \ {"send"} ELSE @]
                  /\ UNCHANGED excused
             ELSE /\ awaits' = [awaits EXCEPT ![c] = @ \ {"send"}]
                  /\ excused' = excused \cup {c}
                  /\ UNCHANGED <<outbox, up>>
          /\ UNCHANGED late
  /\ UNCHANGED <<session, orders, conn, link, connects, server, composed>>

\* 'order': put in place of whatever is held.
OnOrder(c) ==
  /\ Comes(c, "order") /\ Received(c)
  /\ orders' = [orders EXCEPT ![c] = Overwrite(@, Head(down[c]).msg)]
  /\ UNCHANGED <<session, outbox, conn, awaits, late, link, connects, excused, up, server, composed>>

\* 'room_closed', the room being closed or expired.
OnClosed(c) ==
  /\ Comes(c, "closed") /\ Received(c)
  /\ ClearSession(c)
  /\ UNCHANGED <<outbox, awaits, late, link, connects, excused, up, server, composed>>

\* 'room_closed' for a member that is kicked: the server disconnects behind it.
OnKicked(c) ==
  /\ Comes(c, "kicked")
  /\ Disconnected(c)
  /\ ClearSession(c)
  /\ UNCHANGED <<outbox, members, history, given, composed, accepted>>

Handle(c) ==
  \/ OnJoined(c) \/ OnJoinRefused(c)
  \/ OnRejoined(c) \/ OnRejoinRefused(c)
  \/ OnAnswer(c)
  \/ OnOrder(c) \/ OnClosed(c) \/ OnKicked(c)

-----------------------------------------------------------------------------
(* The server.                                                             *)

\* Mutant: the room is trimmed before the order is added to it.
PushedBeyond(recent, msg) ==
  Append(IF Len(recent) > MaxRecent THEN Tail(recent) ELSE recent, msg)

\* pushOrder: beyond the limit the oldest text goes, or the oldest order.
Pushed(recent, msg) ==
  LET all   == Append(recent, msg)
      texts == {k \in DOMAIN all : all[k].order.kind = "note"}
  IN IF Len(all) <= MaxRecent THEN all
     ELSE SE!RemoveAt(all, IF texts = {} THEN 1 ELSE SE!Min(texts))

Answered(channels, c, p) == [channels EXCEPT ![c] = Append(@, p)]

\* socket.to(room).emit: to the connections in the room but c.
Relayed(c, p) ==
  [d \in Client |-> IF d \in listening \ {c} THEN Append(down[d], p) ELSE down[d]]

Asked(c, op) == up[c] # << >> /\ Head(up[c]).op = op

Served(c) == up' = [up EXCEPT ![c] = Tail(@)]

Enter(c, m) ==
  /\ bound' = [bound EXCEPT ![c] = m]
  /\ listening' = listening \cup {c}

\* Mutant: the orders a member has sent itself are not given back to it.
OthersOf(recent, m) ==
  SelectSeq(recent, LAMBDA msg : msg.order.by # m)

\* roomState: what is given to member m as it enters.
Recent(recent, m) == recent

\* create_room and join_room, refused for one of the reasons modelled in Rooms.
ServeJoin(c) ==
  /\ Asked(c, "join") /\ Served(c)
  /\ \/ LET m == Fresh(Author \ given) IN
          /\ given # Author
          /\ Enter(c, m)
          /\ members' = members \cup {m} /\ given' = given \cup {m}
          /\ down' = Answered(down, c, [op |-> "joined", member |-> m, recent |-> Recent(history, m)])
     \/ /\ down' = Answered(down, c, [op |-> "join_refused"])
        /\ UNCHANGED <<bound, listening, members, given>>
  /\ UNCHANGED <<client, link, connects, excused, withheld, history, accepted, composed>>

\* rejoin_room; a refusal is answered after FAILED_JOIN_DELAY_MS.
ServeRejoin(c) ==
  LET m == Head(up[c]).member IN
  /\ Asked(c, "rejoin") /\ Served(c)
  /\ IF m \in members
     THEN /\ Enter(c, m)
          /\ down' = Answered(down, c, [op |-> "rejoined", recent |-> Recent(history, m)])
          /\ UNCHANGED withheld
     ELSE /\ withheld' = withheld \cup {c}
          /\ UNCHANGED <<bound, listening, down>>
  /\ UNCHANGED <<client, link, connects, excused, members, history, given, accepted, composed>>

RefuseRejoin(c) ==
  /\ c \in withheld
  /\ withheld' = withheld \ {c}
  /\ down' = Answered(down, c, [op |-> "rejoin_refused"])
  /\ UNCHANGED <<client, link, connects, excused, up, bound, listening, members, history, given, accepted, composed>>

\* The answers send_order may get: the quota of a member may be spent at any time.
Answers(c, msg) ==
  CASE bound[c] \notin members   -> {"NOT_IN_ROOM"}
    [] bound[c] \in members /\ msg.order.by # bound[c] -> {"INVALID_PAYLOAD"}
    [] OTHER -> {"ok"} \cup (IF "throttle" \in Faults[c] THEN {"RATE_LIMITED"} ELSE {})

ServeSend(c) ==
  LET msg == Head(up[c]).msg IN
  /\ Asked(c, "send") /\ Served(c)
  /\ \E answer \in Answers(c, msg) :
       LET reply == [op |-> "answer", answer |-> answer] IN
       IF answer = "ok"
       THEN /\ history' = Pushed(history, msg)
            /\ accepted' = accepted \cup {msg}
            /\ down' = Answered(Relayed(c, [op |-> "order", msg |-> msg]), c, reply)
       ELSE /\ down' = Answered(down, c, reply)
            /\ UNCHANGED <<history, accepted>>
  /\ UNCHANGED <<client, link, connects, excused, bound, listening, withheld, members, given, composed>>

Serve(c) == ServeJoin(c) \/ ServeRejoin(c) \/ ServeSend(c)

\* The room is closed by the administrator, or expires.
CloseRoom ==
  /\ "close" \in Ends
  /\ members # {} \/ history # << >>
  /\ members' = {} /\ history' = << >> /\ listening' = {}
  /\ down' = [c \in Client |-> IF c \in listening THEN Append(down[c], [op |-> "closed"]) ELSE down[c]]
  /\ UNCHANGED <<client, link, connects, excused, up, bound, withheld, given, accepted, composed>>

(* A member is kicked: its connection, if it has one, is told and closed;  *)
(* the server hears nothing more from it.                                  *)
Kick(m) ==
  /\ "kick" \in Ends
  /\ m \in members
  /\ members' = members \ {m}
  /\ LET its == {c \in listening : bound[c] = m} IN
     /\ down' = [c \in Client |-> IF c \in its THEN Append(down[c], [op |-> "kicked"]) ELSE down[c]]
     /\ up' = [c \in Client |-> IF c \in its THEN << >> ELSE up[c]]
     /\ listening' = listening \ its
  /\ UNCHANGED <<client, link, connects, excused, bound, withheld, history, given, accepted, composed>>

\* A member that nobody is connected as is swept.
Expire(m) ==
  /\ "expire" \in Ends
  /\ m \in members /\ \A c \in listening : bound[c] # m
  /\ members' = members \ {m}
  /\ UNCHANGED <<client, wire, bound, listening, withheld, history, given, accepted, composed, excused>>

-----------------------------------------------------------------------------
Next ==
  \/ \E c \in Client :
       \/ Connect(c) \/ Drop(c) \/ Reload(c)
       \/ JoinRoom(c) \/ LeaveRoom(c) \/ Compose(c) \/ TimeOut(c)
       \/ Handle(c)
       \/ Serve(c) \/ RefuseRejoin(c)
  \/ CloseRoom
  \/ \E m \in Author : Kick(m) \/ Expire(m)

(* Socket.IO connects again by itself, the server answers what it gets and *)
(* a page handles what it receives; users do what they like.               *)
Fairness ==
  \A c \in Client : /\ WF_vars(Connect(c)) /\ WF_vars(Handle(c))
                    /\ WF_vars(Serve(c)) /\ WF_vars(RefuseRejoin(c))

Spec == Init /\ [][Next]_vars /\ Fairness

-----------------------------------------------------------------------------
(* No order of a session that the server knows is lost: it waits in the    *)
(* queue or the server has accepted it, whatever drops, is reloaded, is    *)
(* answered late or is refused for the quota (sendOrder, flushOutbox and   *)
(* the rejoin against the handlers of the server).                         *)
OwnOrdersKept ==
  \A msg \in composed : \A c \in Client :
    session[c] = msg.order.by /\ session[c] \in members
      => msg \in SE!ToSet(outbox[c]) \cup accepted

(* A client that shows itself as connected in the room, and has handled    *)
(* all it was sent, holds every order the server remembers: between the    *)
(* snapshot it gets when it enters and the orders relayed to it, nothing   *)
(* falls (enterRoom before roomState, applyRoomState, 'order').            *)
InSync ==
  \A c \in Client :
    conn[c] /\ session[c] # None /\ session[c] = bound[c] /\ down[c] = << >>
      => \A msg \in SE!ToSet(history) : msg.id \in Held(orders[c])

(* What a member of the room has composed and not sent yet is on its card, *)
(* also after a reload (mergeOutbox).                                      *)
PendingShown ==
  \A c \in Client : \A msg \in SE!ToSet(outbox[c]) :
    msg.order.by = session[c] => msg.id \in Held(orders[c])

Pending(c, i) ==
  \E msg \in SE!ToSet(outbox[c]) : msg.id = i /\ msg.order.by = session[c]

(* Once the link holds, an order that waits leaves the queue, unless its   *)
(* session ends or, since the last connection and the last order, an       *)
(* acknowledgement has not come in time or the quota was spent (connect,   *)
(* rejoin and flushOutbox).                                                *)
Delivered ==
  \A c \in Client : \A i \in Id : Pending(c, i) ~> ~Pending(c, i) \/ c \in excused

(* Claimed by handlers.ts of an order refused for the quota, "l'ordre      *)
(* reste en file et sera retenté": it leaves the queue in the end.         *)
ThrottledIsRetried ==
  \A c \in Client : \A i \in Id : Pending(c, i) ~> ~Pending(c, i)

\* c is in the room and has nothing left to send or to handle.
Quiet(c) ==
  /\ conn[c] /\ session[c] \in members /\ session[c] = bound[c]
  /\ up[c] = << >> /\ down[c] = << >> /\ outbox[c] = << >>

(* Claimed by orders.ts, "Un même id réémis avec un horodatage plus récent *)
(* est une édition et l'emporte ; plus ancien, il est ignoré": two members *)
(* with nothing under way hold the same version of an order.               *)
MembersAgree ==
  \A c, d \in Client : Quiet(c) /\ Quiet(d) =>
    \A i \in Held(orders[c]) \cap Held(orders[d]) : orders[c][i] = orders[d][i]

=============================================================================
