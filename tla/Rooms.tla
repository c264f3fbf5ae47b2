------------------------------- MODULE Rooms --------------------------------
(***************************************************************************)
(* The rooms of the server and who is in them: RoomManager                 *)
(* (server/src/rooms.ts) driven by the socket handlers and the periodic    *)
(* sweep (handlers.ts), the administration console (admin.ts), and the     *)
(* snapshot that survives a shutdown or a crash (persistence.ts,           *)
(* index.ts).  Requests the server refuses change nothing and are not      *)
(* actions; the throttles only refuse.                                     *)
(*                                                                         *)
(* A member is a record of a room; a socket is one connection, never used  *)
(* again once down, bound by socket.data to the member it last entered as. *)
(* Callsigns stand for callsigns up to case.                               *)
(***************************************************************************)
EXTENDS Integers, FiniteSets

CONSTANTS Code, MemberId, Socket, Callsign, Post,
          GV,          \* the post that several members may hold
          None,        \* null, undefined
          Absent,      \* a member id that names nobody, a code that names no room
          MaxRooms,    \* MAX_ROOMS
          MaxMembers,  \* MAX_MEMBERS_PER_ROOM
          Grace,       \* DISCONNECT_GRACE_MS, in ticks
          EmptyTtl,    \* ROOM_EMPTY_TTL_MS, in ticks
          Restarts,    \* the ways the server may stop: "shutdown", "crash"
          MaxTime      \* bound of the model: the clock stops there

ASSUME RoomsAssumption ==
  /\ None \notin MemberId \cup Socket \cup Nat
  /\ Absent \notin Nat \cup {None}
  /\ MaxRooms \in Nat \ {0} /\ MaxMembers \in Nat \ {0}
  /\ EmptyTtl \in Nat /\ Grace \in Nat /\ Grace <= EmptyTtl
  /\ Restarts \subseteq {"shutdown", "crash"}
  /\ MaxTime \in Nat

VARIABLES
  now,         \* the server's clock
  running,     \* whether the server is up
  member,      \* the members of all the rooms
  emptySince,  \* of each open room: None while someone is connected
  issued,      \* member ids given out so far; randomUUID gives none twice
  link,        \* of each socket: "new", "up", "down"
  bound,       \* socket.data.memberId
  disk,        \* the last snapshot written
  onlineAt,    \* history: when each member was last connected
  busyAt       \* history: when each room last had someone connected

vars == <<now, running, member, emptySince, issued, link, bound, disk, onlineAt, busyAt>>

Time == 0 .. MaxTime

Member == [room : Code, callsign : Callsign, post : Post, connected : BOOLEAN,
           socket : Socket \cup {None}, lastSeen : Time]

ASSUME AbsentAssumption == Absent \notin Member

Members   == [MemberId -> Member \cup {Absent}]
Countdown == [Code -> Time \cup {None, Absent}]

TypeOK ==
  /\ now \in Time
  /\ running \in BOOLEAN
  /\ member \in Members
  /\ emptySince \in Countdown
  /\ issued \subseteq MemberId
  /\ link \in [Socket -> {"new", "up", "down"}]
  /\ bound \in [Socket -> MemberId \cup {None}]
  /\ disk \in [member : Members, emptySince : Countdown]
  /\ onlineAt \in [MemberId -> Time]
  /\ busyAt \in [Code -> Time]

NoMembers == [m \in MemberId |-> Absent]
NoRooms   == [c \in Code |-> Absent]

Init ==
  /\ now = 0
  /\ running = TRUE
  /\ member = NoMembers
  /\ emptySince = NoRooms
  /\ issued = {}
  /\ link = [s \in Socket |-> "new"]
  /\ bound = [s \in Socket |-> None]
  /\ disk = [member |-> NoMembers, emptySince |-> NoRooms]
  /\ onlineAt = [m \in MemberId |-> 0]
  /\ busyAt = [c \in Code |-> 0]

-----------------------------------------------------------------------------
(* Rooms and members as functions of the member table.                     *)

Present(mem)     == {m \in MemberId : mem[m] # Absent}
In(mem, c)       == {m \in Present(mem) : mem[m].room = c}
Occupied(mem, c) == \E m \in In(mem, c) : mem[m].connected
Open             == {c \in Code : emptySince[c] # Absent}

Without(mem, gone) == [m \in MemberId |-> IF m \in gone THEN Absent ELSE mem[m]]

\* Mutant: the grace period runs from whatever lastSeen was before.
OfflineStale(mem, gone) ==
  [m \in MemberId |->
     IF m \in gone THEN [mem[m] EXCEPT !.connected = FALSE, !.socket = None] ELSE mem[m]]

\* What markDisconnected does to the members gone.
Offline(mem, gone) ==
  [m \in MemberId |->
     IF m \in gone
     THEN [mem[m] EXCEPT !.connected = FALSE, !.socket = None, !.lastSeen = now]
     ELSE mem[m]]

\* Mutant: a room is occupied as long as it has members, even disconnected.
RefreshedByMembers(since, mem, c) ==
  IF In(mem, c) # {} THEN None ELSE IF since[c] = None THEN now ELSE since[c]

\* refreshEmptySince: a countdown that runs goes on, unless someone is back.
Refreshed(since, mem, c) ==
  IF Occupied(mem, c) THEN None ELSE IF since[c] = None THEN now ELSE since[c]

Recount(since, mem, rooms) ==
  [c \in Code |-> IF c \in rooms THEN Refreshed(since, mem, c) ELSE since[c]]

\* currentMember: who the socket s acts for, if anyone.
Holder(s) == {m \in Present(member) : bound[s] = m}

Up == {s \in Socket : link[s] = "up"}

\* enterRoom, on a connection new or not.
EnterRoom(s, m) ==
  /\ link' = [link EXCEPT ![s] = "up"]
  /\ bound' = [bound EXCEPT ![s] = m]

\* A connection that is over takes its socket.data with it.
Down(cut) ==
  /\ link' = [s \in Socket |-> IF s \in cut THEN "down" ELSE link[s]]
  /\ bound' = [s \in Socket |-> IF s \in cut THEN None ELSE bound[s]]

NewMember(c, x, p, s) ==
  [room |-> c, callsign |-> x, post |-> p, connected |-> TRUE, socket |-> s, lastSeen |-> now]

-----------------------------------------------------------------------------
(* The requests of a socket.                                               *)

CreateRoom(s, c, m, x, p) ==
  /\ running /\ link[s] # "down"
  /\ Cardinality(Open) < MaxRooms
  /\ c \notin Open
  /\ m \notin issued
  /\ member' = [member EXCEPT ![m] = NewMember(c, x, p, s)]
  /\ emptySince' = [emptySince EXCEPT ![c] = None]
  /\ issued' = issued \cup {m}
  /\ EnterRoom(s, m)
  /\ UNCHANGED <<now, running, disk>>

\* Mutant: only a connected member is a rival.
ConnectedRivals(c, x, p) ==
  {k \in In(member, c) : member[k].connected /\ (member[k].callsign = x \/ (p # GV /\ member[k].post = p))}

\* Those who hold the callsign, or the post when it is held by one only.
Rivals(c, x, p) ==
  {k \in In(member, c) : member[k].callsign = x \/ (p # GV /\ member[k].post = p)}

\* Mutant: the room is full as it was before the ghosts were evicted.
FullBefore(mem, c) == Cardinality(In(member, c)) >= MaxMembers

\* Mutant: one member too many.
FullBeyond(mem, c) == Cardinality(In(mem, c)) > MaxMembers

Full(mem, c) == Cardinality(In(mem, c)) >= MaxMembers

(* The ghosts are evicted first, then the room may turn out to be full. *)
JoinRoom(s, c, m, x, p, replace) ==
  LET ghosts == Rivals(c, x, p)
      rest   == Without(member, ghosts)
  IN
  /\ running /\ link[s] # "down"
  /\ c \in Open
  /\ m \notin issued
  /\ \A k \in ghosts : ~member[k].connected
  /\ ghosts # {} => replace
  /\ IF Full(rest, c)
     THEN /\ member' = rest
          /\ UNCHANGED <<emptySince, issued, link, bound>>
     ELSE /\ member' = [rest EXCEPT ![m] = NewMember(c, x, p, s)]
          /\ emptySince' = [emptySince EXCEPT ![c] = None]
          /\ issued' = issued \cup {m}
          /\ EnterRoom(s, m)
  /\ UNCHANGED <<now, running, disk>>

\* Mutant: the countdown of the room is left to the next sweep.
RejoinUnrefreshed(s, m) ==
  /\ running /\ link[s] = "new"
  /\ m \in Present(member)
  /\ member' = [member EXCEPT ![m].connected = TRUE, ![m].socket = s, ![m].lastSeen = now]
  /\ EnterRoom(s, m)
  /\ UNCHANGED <<now, running, emptySince, issued, disk>>

(* A client rejoins first thing on a new connection, with the session it   *)
(* has kept; the previous connection may still be up.                      *)
Rejoin(s, m) ==
  /\ running /\ link[s] = "new"
  /\ m \in Present(member)
  /\ member' = [member EXCEPT ![m].connected = TRUE, ![m].socket = s, ![m].lastSeen = now]
  /\ emptySince' = [emptySince EXCEPT ![member[m].room] = None]
  /\ EnterRoom(s, m)
  /\ UNCHANGED <<now, running, issued, disk>>

PositionUpdate(s) ==
  /\ s \in Up
  /\ \E m \in Holder(s) : member' = [member EXCEPT ![m].lastSeen = now]
  /\ UNCHANGED <<now, running, emptySince, issued, link, bound, disk>>

UpdateSymbol(s, p) ==
  /\ s \in Up
  /\ \E m \in Holder(s) :
       /\ p # GV => \A k \in In(member, member[m].room) \ {m} : member[k].post # p
       /\ member' = [member EXCEPT ![m].post = p]
  /\ UNCHANGED <<now, running, emptySince, issued, link, bound, disk>>

LeaveRoom(s) ==
  /\ s \in Up
  /\ \E m \in Holder(s) :
       LET rest == Without(member, {m}) IN
       /\ member' = rest
       /\ emptySince' = Recount(emptySince, rest, {member[m].room})
  /\ bound' = [bound EXCEPT ![s] = None]
  /\ UNCHANGED <<now, running, issued, link, disk>>

RoomsOf(ms) == {member[m].room : m \in ms}

Disconnect(s) ==
  LET after == Offline(member, Holder(s)) IN
  /\ s \in Up
  /\ member' = after
  /\ emptySince' = Recount(emptySince, after, RoomsOf(Holder(s)))
  /\ Down({s})
  /\ UNCHANGED <<now, running, issued, disk>>

-----------------------------------------------------------------------------
(* The sweep and the console.                                              *)

Expired == {m \in Present(member) : ~member[m].connected /\ now - member[m].lastSeen > Grace}

Sweep ==
  LET kept   == Without(member, Expired)
      since  == Recount(emptySince, kept, Open)
      closed == {c \in Open : since[c] # None /\ now - since[c] > EmptyTtl}
  IN
  /\ running
  /\ member' = Without(kept, UNION {In(kept, c) : c \in closed})
  /\ emptySince' = [c \in Code |-> IF c \in closed THEN Absent ELSE since[c]]
  /\ UNCHANGED <<now, running, issued, link, bound, disk>>

CloseRoom(c) ==
  /\ running
  /\ c \in Open
  /\ member' = Without(member, In(member, c))
  /\ emptySince' = [emptySince EXCEPT ![c] = Absent]
  /\ UNCHANGED <<now, running, issued, link, bound, disk>>

\* Mutant: the countdown starts one TTL from now.
ExtendedAhead(c) == IF Occupied(member, c) THEN None ELSE now + EmptyTtl

Extended(c) == IF Occupied(member, c) THEN None ELSE now

ExtendRoom(c) ==
  /\ running
  /\ c \in Open
  /\ emptySince' = [emptySince EXCEPT ![c] = Extended(c)]
  /\ UNCHANGED <<now, running, member, issued, link, bound, disk>>

(* The socket recorded in the member is cut, which runs its own disconnect *)
(* handler: for somebody else if the socket has entered elsewhere since.   *)
Kick(m) ==
  LET cut   == Up \cap {member[m].socket}
      rest  == Without(member, {m})
      gone  == (UNION {Holder(s) : s \in cut}) \ {m}
      after == Offline(rest, gone)
  IN
  /\ running
  /\ m \in Present(member)
  /\ member' = after
  /\ emptySince' = Recount(emptySince, after, RoomsOf({m} \cup gone))
  /\ Down(cut)
  /\ UNCHANGED <<now, running, issued, disk>>

-----------------------------------------------------------------------------
(* Persistence.  A snapshot is written aside and renamed: a crash finds    *)
(* the one before or the new one.  Without a crash only the last one, that *)
(* of the shutdown, is ever read.                                          *)

Snapshot(mem, since) == [member |-> mem, emptySince |-> since]

Save ==
  /\ running
  /\ "crash" \in Restarts
  /\ disk' = Snapshot(member, emptySince)
  /\ UNCHANGED <<now, running, member, emptySince, issued, link, bound>>

Stop ==
  /\ running
  /\ running' = FALSE
  /\ member' = NoMembers
  /\ emptySince' = NoRooms
  /\ Down(Up)
  /\ UNCHANGED <<now, issued>>

(* io.close() disconnects every socket before the final snapshot is taken. *)
Shutdown ==
  LET gone  == UNION {Holder(s) : s \in Up}
      after == Offline(member, gone)
  IN
  /\ "shutdown" \in Restarts
  /\ disk' = Snapshot(after, Recount(emptySince, after, RoomsOf(gone)))
  /\ Stop

Crash ==
  /\ "crash" \in Restarts
  /\ UNCHANGED disk
  /\ Stop

\* Everyone comes back disconnected, lastSeen as it was written.
Restored(mem) ==
  [m \in MemberId |->
     IF mem[m] = Absent THEN Absent ELSE [mem[m] EXCEPT !.connected = FALSE, !.socket = None]]

Start ==
  LET back  == Restored(disk.member)
      rooms == {c \in Code : disk.emptySince[c] # Absent}
  IN
  /\ ~running
  /\ running' = TRUE
  /\ member' = back
  /\ emptySince' = Recount(disk.emptySince, back, rooms)
  /\ UNCHANGED <<now, issued, link, bound, disk>>

Tick ==
  /\ now < MaxTime
  /\ now' = now + 1
  /\ UNCHANGED <<running, member, emptySince, issued, link, bound, disk>>

-----------------------------------------------------------------------------
Request(s) ==
  \/ \E c \in Code, m \in MemberId, x \in Callsign, p \in Post :
       \/ CreateRoom(s, c, m, x, p)
       \/ \E replace \in BOOLEAN : JoinRoom(s, c, m, x, p, replace)
  \/ \E m \in MemberId : Rejoin(s, m)
  \/ PositionUpdate(s)
  \/ \E p \in Post : UpdateSymbol(s, p)
  \/ LeaveRoom(s)
  \/ Disconnect(s)

Admin ==
  \/ \E c \in Code : CloseRoom(c) \/ ExtendRoom(c)
  \/ \E m \in MemberId : Kick(m)

\* The history variables follow the state reached.
Observe ==
  /\ onlineAt' = [m \in MemberId |->
                    IF member'[m] # Absent /\ member'[m].connected THEN now' ELSE onlineAt[m]]
  /\ busyAt' = [c \in Code |-> IF Occupied(member', c) THEN now' ELSE busyAt[c]]

Next ==
  /\ \/ \E s \in Socket : Request(s)
     \/ Admin
     \/ Sweep
     \/ Save \/ Shutdown \/ Crash \/ Start
     \/ Tick
  /\ Observe

Spec == Init /\ [][Next]_vars

-----------------------------------------------------------------------------
(* In a room no two members share a callsign, nor a post that one member   *)
(* only may hold, whatever was replaced, renamed or restored (joinRoom,    *)
(* update_symbol, restore).                                                *)
Distinct(mem) ==
  \A c \in Code : \A k, m \in In(mem, c) :
    k # m => /\ mem[k].callsign # mem[m].callsign
             /\ mem[k].post = GV \/ mem[k].post # mem[m].post

OneHolder == Distinct(member)

(* A room counts down exactly when none of its members is connected        *)
(* (emptySince is kept by nine operations, refreshEmptySince by five).     *)
CountdownRuns ==
  \A c \in Open : emptySince[c] = None <=> Occupied(member, c)

(* Members belong to open rooms, no more of them than a room admits and no *)
(* more rooms than the server admits (createRoom, joinRoom, restore).      *)
WithinLimits ==
  /\ \A m \in Present(member) : member[m].room \in Open
  /\ \A c \in Code : Cardinality(In(member, c)) <= MaxMembers
  /\ Cardinality(Open) <= MaxRooms

(* A join that evicts someone evicts nobody connected and admits the       *)
(* newcomer: it never takes a place away and then finds the room full      *)
(* (joinRoom evicts before it checks the room's capacity).                 *)
EvictionAdmits ==
  [][\A s \in Socket, c \in Code, m \in MemberId, x \in Callsign, p \in Post :
       JoinRoom(s, c, m, x, p, TRUE) =>
         \A k \in Present(member) \ Present(member') :
           /\ m \in Present(member')
           /\ ~member[k].connected]_vars

(* No sweep removes a member, by its own timeout or along with its room,   *)
(* before it has been disconnected for longer than the grace period        *)
(* (markDisconnected, leave, extendRoom and sweep together).               *)
GraceHonoured ==
  [][Sweep => \A m \in Present(member) \ Present(member') : now - onlineAt[m] > Grace]_vars

(* No sweep closes a room before EmptyTtl has gone by since someone was    *)
(* last connected in it (sliding TTL of rooms.ts).                         *)
RoomKeptForTtl ==
  [][Sweep => \A c \in Open : emptySince'[c] = Absent => now - busyAt[c] > EmptyTtl]_vars

(* Claimed by handlers.ts on disconnect, "Ignorer si un autre socket a     *)
(* déjà re-bindé ce membre": the end of an old connection leaves the       *)
(* member that a newer one has taken over connected.                       *)
ReboundKept ==
  [][\A s \in Socket : Disconnect(s) =>
       \A m \in Holder(s) : member[m].socket \in Up \ {s} => member'[m].connected]_vars

(* Claimed by constants.ts of the sliding TTL, a countdown "à partir du    *)
(* moment où elle n'a plus personne": while a room is not counting down,   *)
(* some live connection is bound to one of its members.                    *)
OccupiedIsInhabited ==
  \A c \in Open : emptySince[c] = None => \E s \in Up : Holder(s) \cap In(member, c) # {}

=============================================================================
