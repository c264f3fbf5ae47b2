------------------------------- MODULE Rosters -------------------------------
(***************************************************************************)
(* Who is in the room and where, as each phone shows it, by way of the     *)
(* server: the member events that the handlers emit (server/src            *)
(* /handlers.ts, admin.ts), the rosters that the phones keep from them     *)
(* (client/src/socket.ts, state.ts), the buffer that holds the positions   *)
(* of the others until the next flush, and the markers drawn from the      *)
(* roster (client/src/map/markers.ts, views/mapView.ts).                   *)
(*                                                                         *)
(* There is one room at a time.  A socket is one connection, never used    *)
(* again once down; the server may notice late that it is down.  What the  *)
(* server emits on a socket arrives in order or is lost with it.  A        *)
(* request acts when the server handles it: one lost on the way is a       *)
(* request never made.  Everybody enters as GV (FIXED_ROLE), so a join     *)
(* replaces one ghost at most, the disconnected holder of the callsign.    *)
(***************************************************************************)
EXTENDS Integers, Sequences, FiniteSets

SE == INSTANCE SequencesExt

CONSTANTS Phone, MemberId, Socket,
          None,     \* null, undefined
          Absent,   \* a member id that names nobody
          Faults,   \* of each phone: "drop", "reload", "slow"
          MaxFix    \* bound of the model: positions accepted from a member

ASSUME RostersAssumption ==
  /\ None \notin MemberId \cup Socket \cup Nat
  /\ Absent \notin Nat \cup {None}
  /\ Faults \in [Phone -> SUBSET {"drop", "reload", "slow"}]
  /\ MaxFix \in Nat \ {0}

VARIABLES
  session,  \* of each phone: the member it is, None in solo
  link,     \* its socket, while the page holds it for connected
  roster,   \* state.members
  buffer,   \* positionBuffer: the positions heard since the last flush
  shown,    \* the markers of the others on the map
  down,     \* what the server has emitted on the socket of each phone
  member,   \* on the server: the members of the room
  issued,   \* member ids given out so far
  live,     \* the connections the server holds for up
  bound,    \* of each of them: socket.data.memberId, while it is in the room
  missed    \* history: the phones whose last request to enter was answered too late

phone  == <<session, link, roster, buffer, shown>>
server == <<member, issued, live, bound>>
vars   == <<phone, down, server, missed>>

Position == 1 .. MaxFix

\* MemberPublic, and what a marker shows of it.
Card == [connected : BOOLEAN, pos : Position \cup {None}]

\* What the server keeps of a member.
Member == [card : Card, socket : Socket \cup {None}]

ASSUME AbsentAssumption == Absent \notin Card \cup Member

Roster == [MemberId -> Card \cup {Absent}]

Nobody == [m \in MemberId |-> Absent]

Event ==
  [type : {"room_state"}, self : MemberId, members : Roster]  \* the answer to join and rejoin
    \cup [type : {"refused", "room_closed"}]
    \cup [type : {"member_joined"}, id : MemberId, card : Card]
    \cup [type : {"member_left"}, id : MemberId]
    \cup [type : {"member_updated"}, id : MemberId, connected : BOOLEAN]
    \cup [type : {"member_position"}, id : MemberId, pos : Position]

TypeOK ==
  /\ session \in [Phone -> MemberId \cup {None}]
  /\ link \in [Phone -> Socket \cup {None}]
  /\ roster \in [Phone -> Roster]
  /\ buffer \in [Phone -> [MemberId -> Position \cup {None}]]
  /\ shown \in [Phone -> Roster]
  /\ down \in [Phone -> Seq(Event)]
  /\ member \in [MemberId -> Member \cup {Absent}]
  /\ issued \subseteq MemberId
  /\ live \subseteq Socket
  /\ bound \in [Socket -> MemberId \cup {None}]
  /\ missed \subseteq Phone
  /\ \A p \in Phone : link[p] = None => down[p] = << >>
  /\ \A m \in MemberId : member[m] # Absent =>
       member[m].card.connected = (member[m].socket # None)

NoBuffer == [m \in MemberId |-> None]

Init ==
  /\ session = [p \in Phone |-> None]
  /\ link = [p \in Phone |-> None]
  /\ roster = [p \in Phone |-> Nobody]
  /\ buffer = [p \in Phone |-> NoBuffer]
  /\ shown = [p \in Phone |-> Nobody]
  /\ down = [p \in Phone |-> << >>]
  /\ member = Nobody
  /\ issued = {} /\ live = {} /\ missed = {}
  /\ bound = [s \in Socket |-> None]

-----------------------------------------------------------------------------
(* What the server emits.                                                  *)

Present == {m \in MemberId : member[m] # Absent}

\* currentMember: none when the member is gone.
Holder(s) == {m \in Present : bound[s] = m}

\* roomState, memberPublic.
RoomState(mem) == [m \in MemberId |-> IF mem[m] = Absent THEN Absent ELSE mem[m].card]

Entered(self, mem) == [type |-> "room_state", self |-> self, members |-> RoomState(mem)]
Joined(m)          == [type |-> "member_joined", id |-> m, card |-> [connected |-> TRUE, pos |-> None]]
Left(m)            == [type |-> "member_left", id |-> m]
Updated(m, b)      == [type |-> "member_updated", id |-> m, connected |-> b]
Moved(m, x)        == [type |-> "member_position", id |-> m, pos |-> x]
Refused            == [type |-> "refused"]
Closed             == [type |-> "room_closed"]

\* The phones that hear what is emitted to the room on the sockets but those of except.
Hearing(except) == {p \in Phone : link[p] \in live \ except /\ bound[link[p]] # None}

ToRoom(events, except) ==
  [p \in Phone |-> IF p \in Hearing(except) THEN down[p] \o events ELSE down[p]]

\* enterRoom: the socket s speaks for the member m from now on.
Enter(s, m, mem) ==
  /\ member' = mem
  /\ live' = live \cup {s}
  /\ bound' = [bound EXCEPT ![s] = m]

\* markDisconnected, for those of the members gone that are still there.
Offline(mem, gone) ==
  [m \in MemberId |->
     IF m \in gone /\ mem[m] # Absent
     THEN [mem[m] EXCEPT !.card.connected = FALSE, !.socket = None] ELSE mem[m]]

\* The server forgets the sockets cut.
CutOff(cut) ==
  /\ live' = live \ cut
  /\ bound' = [s \in Socket |-> IF s \in cut THEN None ELSE bound[s]]

-----------------------------------------------------------------------------
(* What a phone makes of it.  A view is the part of its state that events  *)
(* change.                                                                 *)

View(p) == [session |-> session[p], roster |-> roster[p], buffer |-> buffer[p], shown |-> shown[p]]

\* MarkerLayer.upsert draws nobody without a position, nor the phone itself.
Drawn(members, marks, self) ==
  [m \in MemberId |->
     IF members[m] = Absent THEN Absent
     ELSE IF m = self \/ members[m].pos = None THEN marks[m] ELSE members[m]]

\* A change of the roster, followed by MarkerLayer.sync.
WithRoster(v, members) ==
  [v EXCEPT !.roster = members, !.shown = Drawn(members, v.shown, v.session)]

\* Mutant: the markers of the room stay on the map.
SoloUncleared(v) == [v EXCEPT !.session = None, !.roster = Nobody]

\* clearSession, then exitToSolo.
Solo(v) == [v EXCEPT !.session = None, !.roster = Nobody, !.shown = Nobody]

\* applyRoomState: the phone's own position is carried over.
Snapshot(members, before, self) ==
  IF self = None THEN members
  ELSE IF before[self] = Absent \/ before[self].pos = None THEN members
  ELSE IF members[self] = Absent THEN [members EXCEPT ![self] = before[self]]
  ELSE IF members[self].pos = None THEN [members EXCEPT ![self].pos = before[self].pos]
  ELSE members

\* member_updated is for members the phone knows.
WithUpdated(members, e) ==
  IF members[e.id] = Absent THEN members ELSE [members EXCEPT ![e.id].connected = e.connected]

\* member_position: the latest one waits for the next flush.
Buffered(v, e) == IF v.roster[e.id] = Absent THEN v ELSE [v EXCEPT !.buffer[e.id] = e.pos]

After(v, e) ==
  CASE e.type = "room_state" ->
         WithRoster([v EXCEPT !.session = e.self], Snapshot(e.members, v.roster, v.session))
    [] e.type \in {"refused", "room_closed"} -> Solo(v)
    [] e.type = "member_joined"   -> WithRoster(v, [v.roster EXCEPT ![e.id] = e.card])
    [] e.type = "member_left"     -> WithRoster(v, [v.roster EXCEPT ![e.id] = Absent])
    [] e.type = "member_updated"  -> WithRoster(v, WithUpdated(v.roster, e))
    [] e.type = "member_position" -> Buffered(v, e)

\* flushPositions: those who have left meanwhile are passed over.
WithBuffer(members, waiting) ==
  [m \in MemberId |->
     IF members[m] = Absent \/ waiting[m] = None THEN members[m]
     ELSE [members[m] EXCEPT !.pos = waiting[m]]]

Flushed(v) == WithRoster([v EXCEPT !.buffer = NoBuffer], WithBuffer(v.roster, v.buffer))

Become(p, v) ==
  /\ session' = [session EXCEPT ![p] = v.session]
  /\ roster' = [roster EXCEPT ![p] = v.roster]
  /\ buffer' = [buffer EXCEPT ![p] = v.buffer]
  /\ shown' = [shown EXCEPT ![p] = v.shown]

-----------------------------------------------------------------------------
(* Entering, coming back, leaving.                                         *)

\* Sockets that nothing remembers stand for new ones.
Unused == {s \in Socket : /\ s \notin live /\ bound[s] = None
                          /\ \A p \in Phone : link[p] # s
                          /\ \A m \in Present : member[m].socket # s}

\* The request of a phone to enter awaits its answer.
Answer == {"room_state", "refused"}

Asking(p) == \E i \in DOMAIN down[p] : down[p][i].type \in Answer

\* Mutant: the departure of the ghost is not announced.
ArrivalsOnly(m, ghosts) == << Joined(m) >>

\* What the others hear of a join.
Arrivals(m, ghosts) == SE!SetToSeq({Left(g) : g \in ghosts}) \o << Joined(m) >>

(* create_room or join_room, on the socket of the phone or on a new one;   *)
(* the holder of the callsign is replaced if it is disconnected.           *)
JoinRoom(p, s, m, ghosts) ==
  LET kept == [k \in MemberId |-> IF k \in ghosts THEN Absent ELSE member[k]]
      mem  == [kept EXCEPT ![m] = [card |-> [connected |-> TRUE, pos |-> None], socket |-> s]]
  IN
  /\ session[p] = None /\ ~Asking(p)
  /\ IF link[p] = None THEN s \in Unused ELSE s = link[p] /\ s \in live
  /\ m \notin issued
  /\ ghosts \subseteq {k \in Present : ~member[k].card.connected}
  /\ Cardinality(ghosts) <= 1
  /\ link' = [link EXCEPT ![p] = s]
  /\ issued' = issued \cup {m}
  /\ Enter(s, m, mem)
  /\ down' = [ToRoom(Arrivals(m, ghosts), {s}) EXCEPT ![p] = Append(down[p], Entered(m, mem))]
  /\ UNCHANGED <<session, roster, buffer, shown, missed>>

(* On a new connection, a phone in a session asks for its place first.     *)
Rejoin(p, s) ==
  /\ session[p] # None /\ link[p] = None /\ s \in Unused
  /\ link' = [link EXCEPT ![p] = s]
  /\ IF session[p] \in Present
     THEN LET m   == session[p]
              mem == [member EXCEPT ![m].card.connected = TRUE, ![m].socket = s]
          IN /\ Enter(s, m, mem)
             /\ down' = [ToRoom(<< Updated(m, TRUE) >>, {s}) EXCEPT ![p] = << Entered(m, mem) >>]
     ELSE /\ live' = live \cup {s}
          /\ down' = [down EXCEPT ![p] = << Refused >>]
          /\ UNCHANGED <<member, bound>>
  /\ UNCHANGED <<session, roster, buffer, shown, issued, missed>>

\* Mutant: the buffer outlives the connection.
UnlinkedOnly(p) ==
  /\ link' = [link EXCEPT ![p] = None]
  /\ down' = [down EXCEPT ![p] = << >>]
  /\ UNCHANGED <<session, roster, buffer, shown, missed>>

\* stopPositionFlush; what was on the way is lost.
Unlinked(p) ==
  /\ link' = [link EXCEPT ![p] = None]
  /\ down' = [down EXCEPT ![p] = << >>]
  /\ buffer' = [buffer EXCEPT ![p] = NoBuffer]
  /\ UNCHANGED <<session, roster, shown, missed>>

\* The page learns that its connection is over; the server may not know yet.
Drop(p) ==
  /\ "drop" \in Faults[p] \/ link[p] \notin live
  /\ link[p] # None
  /\ Unlinked(p)
  /\ UNCHANGED server

\* The page starts again from what is stored: the session.
Reload(p) ==
  /\ "reload" \in Faults[p]
  /\ session[p] # None
  /\ link' = [link EXCEPT ![p] = None]
  /\ down' = [down EXCEPT ![p] = << >>]
  /\ missed' = missed \ {p}
  /\ Become(p, [View(p) EXCEPT !.roster = Nobody, !.buffer = NoBuffer, !.shown = Nobody])
  /\ UNCHANGED server

(* The phone says so if it is connected, and hangs up.                     *)
LeaveRoom(p) ==
  LET s == link[p]
      gone == IF s \in live THEN Holder(s) ELSE {}
  IN
  /\ session[p] # None
  /\ Become(p, [Solo(View(p)) EXCEPT !.buffer = NoBuffer])
  /\ link' = [link EXCEPT ![p] = None]
  /\ missed' = missed \ {p}
  /\ member' = [m \in MemberId |-> IF m \in gone THEN Absent ELSE member[m]]
  /\ CutOff({s} \cap live)
  /\ down' = [ToRoom(SE!SetToSeq({Left(m) : m \in gone}), {s}) EXCEPT ![p] = << >>]
  /\ UNCHANGED issued

-----------------------------------------------------------------------------
(* The server on its own.                                                  *)

(* The server notices that a connection is over, maybe before the phone    *)
(* does, maybe after it has come back on another one.                      *)
Disconnect(s) ==
  /\ s \in live
  /\ \A p \in Phone : link[p] = s => "drop" \in Faults[p]
  /\ member' = Offline(member, Holder(s))
  /\ CutOff({s})
  /\ down' = ToRoom(SE!SetToSeq({Updated(m, FALSE) : m \in Holder(s)}), {s})
  /\ UNCHANGED <<phone, issued, missed>>

\* The sweep removes a member disconnected for long.
TimeOut(m) ==
  /\ m \in Present
  /\ ~member[m].card.connected
  /\ member' = [member EXCEPT ![m] = Absent]
  /\ down' = ToRoom(<< Left(m) >>, {})
  /\ UNCHANGED <<phone, issued, live, bound, missed>>

\* What the room hears of a kick: of those who held the socket cut as well.
KickedNews(m, gone) == SE!SetToSeq({Updated(k, FALSE) : k \in gone}) \o << Left(m) >>

(* The console removes a member, tells the socket it is on and cuts it.    *)
Kick(m) ==
  LET cut  == live \cap {member[m].socket}
      rest == [member EXCEPT ![m] = Absent]
      gone == (UNION {Holder(s) : s \in cut}) \ {m}
      told == ToRoom(KickedNews(m, gone), cut)
  IN
  /\ m \in Present
  /\ member' = Offline(rest, gone)
  /\ CutOff(cut)
  /\ down' = [p \in Phone |-> IF link[p] \in cut THEN Append(down[p], Closed) ELSE told[p]]
  /\ UNCHANGED <<phone, issued, missed>>

\* The room expires or is closed; its connections stay up.
CloseRoom ==
  /\ Present # {}
  /\ member' = Nobody
  /\ down' = ToRoom(<< Closed >>, {})
  /\ bound' = [s \in Socket |-> None]
  /\ UNCHANGED <<phone, issued, live, missed>>

-----------------------------------------------------------------------------
(* Positions.                                                              *)

(* A fix of the phone's own enters its roster at once, unannounced; which  *)
(* one it is makes no difference here.                                     *)
OwnFix(p) ==
  LET m == session[p] IN
  /\ m # None
  /\ roster' = [roster EXCEPT ![p][m] =
       IF @ = Absent THEN [connected |-> TRUE, pos |-> 1]
       ELSE IF @.pos = None THEN [@ EXCEPT !.pos = 1] ELSE @]
  /\ UNCHANGED <<session, link, buffer, shown, down, server, missed>>

\* The server takes a position in and relays it.
PositionUpdate(p) ==
  /\ session[p] # None /\ link[p] \in live
  /\ \E m \in Holder(link[p]), x \in Position :
       /\ x = IF member[m].card.pos = None THEN 1 ELSE member[m].card.pos + 1
       /\ member' = [member EXCEPT ![m].card.pos = x]
       /\ down' = ToRoom(<< Moved(m, x) >>, {link[p]})
  /\ UNCHANGED <<phone, issued, live, bound, missed>>

Receive(p) ==
  /\ down[p] # << >>
  /\ Become(p, After(View(p), Head(down[p])))
  /\ down' = [down EXCEPT ![p] = Tail(@)]
  /\ missed' = IF Head(down[p]).type = "room_state" THEN missed \ {p} ELSE missed
  /\ UNCHANGED <<link, server>>

(* The answer to a request to enter comes too late for the phone.          *)
GiveUp(p) ==
  /\ "slow" \in Faults[p]
  /\ \E i \in DOMAIN down[p] :
       /\ down[p][i].type \in Answer
       /\ down' = [down EXCEPT ![p] = SE!RemoveAt(@, i)]
  /\ missed' = missed \cup {p}
  /\ UNCHANGED <<phone, server>>

Flush(p) ==
  /\ link[p] # None
  /\ buffer[p] # NoBuffer
  /\ Become(p, Flushed(View(p)))
  /\ UNCHANGED <<link, down, server, missed>>

Next ==
  \/ \E p \in Phone :
       \/ \E s \in Socket, m \in MemberId, ghosts \in SUBSET Present : JoinRoom(p, s, m, ghosts)
       \/ \E s \in Socket : Rejoin(p, s)
       \/ Drop(p) \/ Reload(p) \/ LeaveRoom(p)
       \/ OwnFix(p) \/ PositionUpdate(p)
       \/ Receive(p) \/ GiveUp(p) \/ Flush(p)
  \/ \E s \in Socket : Disconnect(s)
  \/ \E m \in MemberId : TimeOut(m) \/ Kick(m)
  \/ CloseRoom

Spec == Init /\ [][Next]_vars

-----------------------------------------------------------------------------
\* A phone of which the server holds the connection, once it has read all.
FollowsRoom(p) ==
  LET v == Flushed(SE!FoldLeft(After, View(p), down[p])) IN
  link[p] \in live /\ v.session # None =>
    \A m \in MemberId \ {v.session} : v.roster[m] = RoomState(member)[m]

(* Once it has read what is on the way and flushed its buffer, a phone in  *)
(* the room whose requests were answered in time shows of the others what  *)
(* the server holds: who they are, whether they are connected, where they  *)
(* last were (the events of handlers.ts and admin.ts against the snapshot  *)
(* of applyRoomState).                                                     *)
RosterFollows == \A p \in Phone \ missed : FollowsRoom(p)

(* Claimed by socket.ts of an answer that comes too late, "Socket.IO va    *)
(* retenter la connexion, on réessaiera": it happens to these as well.     *)
LateRosterFollows == \A p \in missed : Asking(p) \/ FollowsRoom(p)

(* Types; and the map shows the others exactly as the roster has them, and *)
(* never the phone itself among them; in solo there is nobody              *)
(* (clearSession empties the roster without a word, exitToSolo the map).   *)
MapFollowsRoster ==
  /\ TypeOK
  /\ \A p \in Phone :
       /\ session[p] = None /\ p \notin missed => roster[p] = Nobody
       /\ shown[p] = Drawn(roster[p], Nobody, session[p])

Older(x, y) == y # None /\ (x = None \/ x < y)

(* A position shown is never replaced by an older one, whatever the order  *)
(* of flushes, snapshots and reconnections (positionBuffer).               *)
PositionsAdvance ==
  [][\A p \in Phone, m \in MemberId :
       /\ session'[p] = session[p] /\ m # session[p]
       /\ roster[p][m] # Absent /\ roster'[p][m] # Absent
       => ~Older(roster'[p][m].pos, roster[p][m].pos)]_vars

(* Claimed by admin.ts of a kick, "Prévient le membre exclu (sa PWA efface *)
(* la session), puis coupe son socket": a phone that stays connected       *)
(* learns that it is no longer a member.                                   *)
GoneAreTold ==
  \A p \in Phone :
    LET v == SE!FoldLeft(After, View(p), down[p]) IN
    link[p] \in live /\ v.session # None => v.session \in Present

=============================================================================
