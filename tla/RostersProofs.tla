---------------------------- MODULE RostersProofs ----------------------------
(***************************************************************************)
(* The rosters of the phones and the map, for any number of phones,        *)
(* members and connections and whatever trouble each phone has.            *)
(***************************************************************************)
EXTENDS Rosters, FiniteSetTheorems, SequenceTheorems, WellFoundedInduction, TLAPS

Views == [session : MemberId \cup {None}, roster : Roster,
          buffer : [MemberId -> Position \cup {None}], shown : Roster]

MemberEvent == {"member_joined", "member_left", "member_updated", "member_position"}

-----------------------------------------------------------------------------
(* Events and what they do to a view.                                      *)

LEMMA EventIs ==
  ASSUME NEW e \in Event
  PROVE  \/ e.type = "room_state" /\ e.self \in MemberId /\ e.members \in Roster
         \/ e.type \in {"refused", "room_closed"}
         \/ e.type = "member_joined" /\ e.id \in MemberId /\ e.card \in Card
         \/ e.type = "member_left" /\ e.id \in MemberId
         \/ e.type = "member_updated" /\ e.id \in MemberId /\ e.connected \in BOOLEAN
         \/ e.type = "member_position" /\ e.id \in MemberId /\ e.pos \in Position
  BY DEF Event

LEMMA EventsAre ==
  /\ \A m \in MemberId : /\ Joined(m) \in Event /\ Left(m) \in Event
                         /\ \A b \in BOOLEAN : Updated(m, b) \in Event
                         /\ \A x \in Position : Moved(m, x) \in Event
  /\ Refused \in Event /\ Closed \in Event
  BY DEF Event, Joined, Left, Updated, Moved, Refused, Closed, Card

LEMMA DrawnIs ==
  ASSUME NEW members \in Roster, NEW marks \in Roster, NEW self
  PROVE  /\ Drawn(members, marks, self) \in Roster
         /\ \A m \in MemberId :
              Drawn(members, marks, self)[m] =
                IF members[m] = Absent THEN Absent
                ELSE IF m = self \/ members[m].pos = None THEN marks[m] ELSE members[m]
  BY DEF Drawn, Roster

LEMMA WithRosterIs ==
  ASSUME NEW v \in Views, NEW members \in Roster
  PROVE  /\ WithRoster(v, members) \in Views
         /\ WithRoster(v, members).session = v.session
         /\ WithRoster(v, members).roster = members
         /\ WithRoster(v, members).buffer = v.buffer
         /\ WithRoster(v, members).shown = Drawn(members, v.shown, v.session)
<1>1. v.shown \in Roster
  BY DEF Views
<1>2. Drawn(members, v.shown, v.session) \in Roster
  BY <1>1, DrawnIs
<1> QED
  BY <1>2 DEF WithRoster, Views

LEMMA SoloIs ==
  ASSUME NEW v \in Views
  PROVE  /\ Solo(v) \in Views /\ Nobody \in Roster
         /\ Solo(v).session = None /\ Solo(v).roster = Nobody
         /\ Solo(v).buffer = v.buffer /\ Solo(v).shown = Nobody
  BY DEF Solo, Views, Nobody, Roster

LEMMA SnapshotIs ==
  ASSUME NEW members \in Roster, NEW before \in Roster, NEW self \in MemberId \cup {None}
  PROVE  /\ Snapshot(members, before, self) \in Roster
         /\ self = None => Snapshot(members, before, self) = members
         /\ \A m \in MemberId : m # self => Snapshot(members, before, self)[m] = members[m]
         /\ self # None /\ members[self] # Absent => Snapshot(members, before, self)[self] # Absent
<1>1. CASE self = None \/ before[self] = Absent \/ before[self].pos = None
  BY <1>1 DEF Snapshot
<1>2. CASE ~ (self = None \/ before[self] = Absent \/ before[self].pos = None)
  <2>1. self \in MemberId /\ before[self] \in Card /\ Absent \notin Card
    BY <1>2, AbsentAssumption DEF Roster
  <2>2. CASE members[self] = Absent
    BY <1>2, <2>1, <2>2 DEF Snapshot, Roster
  <2>3. CASE members[self] # Absent
    <3>1. members[self] \in Card /\ [members[self] EXCEPT !.pos = before[self].pos] \in Card
      BY <2>1, <2>3 DEF Roster, Card
    <3>2. [members EXCEPT ![self].pos = before[self].pos]
            = [members EXCEPT ![self] = [members[self] EXCEPT !.pos = before[self].pos]]
      OBVIOUS
    <3> QED
      BY <1>2, <2>1, <2>3, <3>1, <3>2 DEF Snapshot, Roster
  <2> QED
    BY <2>2, <2>3
<1> QED
  BY <1>1, <1>2

LEMMA WithUpdatedIs ==
  ASSUME NEW members \in Roster, NEW e, e.id \in MemberId, e.connected \in BOOLEAN
  PROVE  /\ WithUpdated(members, e) \in Roster
         /\ \A m \in MemberId :
              /\ WithUpdated(members, e)[m] = Absent <=> members[m] = Absent
              /\ m # e.id => WithUpdated(members, e)[m] = members[m]
         /\ members[e.id] # Absent =>
              /\ WithUpdated(members, e)[e.id].pos = members[e.id].pos
              /\ WithUpdated(members, e)[e.id].connected = e.connected
<1>1. CASE members[e.id] = Absent
  BY <1>1 DEF WithUpdated
<1>2. CASE members[e.id] # Absent
  <2>1. members[e.id] \in Card /\ Absent \notin Card
    BY <1>2, AbsentAssumption DEF Roster
  <2> DEFINE card == [members[e.id] EXCEPT !.connected = e.connected]
  <2>2. card \in Card /\ card.pos = members[e.id].pos /\ card.connected = e.connected
    BY <2>1 DEF Card
  <2>3. WithUpdated(members, e) = [members EXCEPT ![e.id] = card]
    BY <1>2 DEF WithUpdated
  <2> QED
    BY <1>2, <2>1, <2>2, <2>3 DEF Roster
<1> QED
  BY <1>1, <1>2

LEMMA AfterRoomState ==
  ASSUME NEW v \in Views, NEW e \in Event, e.type = "room_state"
  PROVE  /\ After(v, e) \in Views /\ After(v, e).session = e.self
         /\ After(v, e).roster = Snapshot(e.members, v.roster, v.session)
         /\ After(v, e).buffer = v.buffer
         /\ After(v, e).shown = Drawn(After(v, e).roster, v.shown, e.self)
<1> DEFINE w == [v EXCEPT !.session = e.self]
<1>1. e.self \in MemberId /\ e.members \in Roster
  BY EventIs
<1>2. w \in Views /\ w.session = e.self /\ w.buffer = v.buffer /\ w.shown = v.shown
  BY <1>1 DEF Views
<1>3. Snapshot(e.members, v.roster, v.session) \in Roster
  <2>1. v.roster \in Roster /\ v.session \in MemberId \cup {None}
    BY DEF Views
  <2> QED
    BY <1>1, <2>1, SnapshotIs
<1>4. After(v, e) = WithRoster(w, Snapshot(e.members, v.roster, v.session))
  BY DEF After
<1> HIDE DEF w
<1> QED
  BY <1>2, <1>3, <1>4, WithRosterIs

LEMMA AfterEnding ==
  ASSUME NEW v \in Views, NEW e \in Event, e.type \in {"refused", "room_closed"}
  PROVE  /\ After(v, e) = Solo(v) /\ After(v, e) \in Views
         /\ After(v, e).session = None /\ After(v, e).roster = Nobody
         /\ After(v, e).buffer = v.buffer /\ After(v, e).shown = Nobody
<1>1. After(v, e) = Solo(v)
  BY DEF After
<1> QED
  BY <1>1, SoloIs

LEMMA AfterJoined ==
  ASSUME NEW v \in Views, NEW e \in Event, e.type = "member_joined"
  PROVE  /\ After(v, e) \in Views /\ After(v, e).session = v.session
         /\ e.id \in MemberId /\ e.card \in Card
         /\ After(v, e).roster = [v.roster EXCEPT ![e.id] = e.card]
         /\ After(v, e).buffer = v.buffer
         /\ After(v, e).shown = Drawn(After(v, e).roster, v.shown, v.session)
<1>1. e.id \in MemberId /\ e.card \in Card
  BY EventIs
<1>2. [v.roster EXCEPT ![e.id] = e.card] \in Roster
  BY <1>1 DEF Views, Roster
<1>3. After(v, e) = WithRoster(v, [v.roster EXCEPT ![e.id] = e.card])
  BY DEF After
<1> QED
  BY <1>1, <1>2, <1>3, WithRosterIs

LEMMA AfterLeft ==
  ASSUME NEW v \in Views, NEW e \in Event, e.type = "member_left"
  PROVE  /\ After(v, e) \in Views /\ After(v, e).session = v.session
         /\ e.id \in MemberId
         /\ After(v, e).roster = [v.roster EXCEPT ![e.id] = Absent]
         /\ After(v, e).buffer = v.buffer
         /\ After(v, e).shown = Drawn(After(v, e).roster, v.shown, v.session)
<1>1. e.id \in MemberId
  BY EventIs
<1>2. [v.roster EXCEPT ![e.id] = Absent] \in Roster
  BY <1>1 DEF Views, Roster
<1>3. After(v, e) = WithRoster(v, [v.roster EXCEPT ![e.id] = Absent])
  BY DEF After
<1> QED
  BY <1>1, <1>2, <1>3, WithRosterIs

LEMMA AfterUpdated ==
  ASSUME NEW v \in Views, NEW e \in Event, e.type = "member_updated"
  PROVE  /\ After(v, e) \in Views /\ After(v, e).session = v.session
         /\ e.id \in MemberId /\ e.connected \in BOOLEAN
         /\ After(v, e).roster = WithUpdated(v.roster, e)
         /\ After(v, e).buffer = v.buffer
         /\ After(v, e).shown = Drawn(After(v, e).roster, v.shown, v.session)
<1>1. e.id \in MemberId /\ e.connected \in BOOLEAN
  BY EventIs
<1>2. WithUpdated(v.roster, e) \in Roster
  <2>1. v.roster \in Roster
    BY DEF Views
  <2> QED
    BY <1>1, <2>1, WithUpdatedIs
<1>3. After(v, e) = WithRoster(v, WithUpdated(v.roster, e))
  BY DEF After
<1> QED
  BY <1>1, <1>2, <1>3, WithRosterIs

LEMMA AfterPosition ==
  ASSUME NEW v \in Views, NEW e \in Event, e.type = "member_position"
  PROVE  /\ After(v, e) \in Views /\ After(v, e).session = v.session
         /\ e.id \in MemberId /\ e.pos \in Position
         /\ After(v, e).roster = v.roster /\ After(v, e).shown = v.shown
         /\ v.roster[e.id] = Absent => After(v, e).buffer = v.buffer
         /\ v.roster[e.id] # Absent => After(v, e).buffer = [v.buffer EXCEPT ![e.id] = e.pos]
<1>1. e.id \in MemberId /\ e.pos \in Position
  BY EventIs
<1>2. After(v, e) = Buffered(v, e)
  BY DEF After
<1>3. CASE v.roster[e.id] = Absent
  BY <1>1, <1>2, <1>3 DEF Buffered
<1>4. CASE v.roster[e.id] # Absent
  <2>1. After(v, e) = [v EXCEPT !.buffer = [v.buffer EXCEPT ![e.id] = e.pos]]
    BY <1>2, <1>4 DEF Buffered
  <2>2. [v.buffer EXCEPT ![e.id] = e.pos] \in [MemberId -> Position \cup {None}]
    BY <1>1 DEF Views
  <2> QED
    BY <1>1, <1>4, <2>1, <2>2 DEF Views
<1> QED
  BY <1>3, <1>4

LEMMA AfterIsView ==
  ASSUME NEW v \in Views, NEW e \in Event
  PROVE  After(v, e) \in Views
  BY EventIs, AfterRoomState, AfterEnding, AfterJoined, AfterLeft, AfterUpdated, AfterPosition

-----------------------------------------------------------------------------
(* How fresh things are.  A mark says how recent a position of each member *)
(* has been heard of: Absent when the member has not been.                 *)

Upto(x, y) == x = None \/ (y # None /\ x <= y)

Marks == [MemberId -> Position \cup {None, Absent}]

Leq(x, y) == x = Absent \/ (y # Absent /\ Upto(x, y))

Names(e, k) == \/ e.type = "room_state" /\ e.members[k] # Absent
               \/ e.type \in {"member_joined", "member_position"} /\ e.id = k

PosIn(e, k) == CASE e.type = "room_state"    -> e.members[k].pos
                 [] e.type = "member_joined" -> e.card.pos
                 [] OTHER                    -> e.pos

\* Events do not go back in time, and who joins is new.
Reads(g, e, h) ==
  \A k \in MemberId :
    /\ Leq(g[k], h[k])
    /\ Names(e, k) => Leq(g[k], PosIn(e, k)) /\ Leq(PosIn(e, k), h[k])
    /\ e.type = "member_joined" /\ e.id = k => g[k] = Absent /\ e.card.pos = None

\* A view is no fresher than its marks, and hears nothing of itself.
Under(v, g) ==
  \A k \in MemberId :
    /\ k = v.session => g[k] # Absent /\ v.buffer[k] = None
    /\ v.buffer[k] # None => g[k] # Absent /\ Upto(v.buffer[k], g[k])
    /\ v.roster[k] # Absent => g[k] # Absent /\ (k # v.session => Upto(v.roster[k].pos, g[k]))

\* What is buffered is what members has.
BufferFrom(v, members) ==
  \A k \in MemberId : members[k] # Absent /\ v.buffer[k] # None =>
    v.roster[k] # Absent /\ v.buffer[k] = members[k].pos

(* The view can take the event; counted says that the phone's requests to  *)
(* enter have been answered in time.                                       *)
Fits(v, g, counted, e) ==
  /\ counted /\ v.session = None => e.type \notin MemberEvent
  /\ e.type = "room_state" =>
       /\ e.members[e.self] # Absent
       /\ v.session = e.self \/ (v.session = None /\ g[e.self] = Absent)
       /\ BufferFrom(v, e.members)
  /\ e.type = "member_position" =>
       e.id # v.session /\ (counted => v.roster[e.id] # Absent)

\* A view on its own.
Sound(v, counted) ==
  /\ v.shown = Drawn(v.roster, Nobody, v.session)
  /\ counted /\ v.session = None => v.roster = Nobody
  /\ \A k \in MemberId : k # v.session /\ v.roster[k] # Absent /\ v.buffer[k] # None =>
       Upto(v.roster[k].pos, v.buffer[k])

LEMMA Constants ==
  /\ None \notin MemberId /\ None \notin Socket /\ None \notin Position
  /\ Absent \notin Position /\ Absent # None /\ Absent \notin Card
  /\ Position \subseteq Nat
  BY RostersAssumption, AbsentAssumption DEF Position

LEMMA UptoIs ==
  /\ \A x \in Position \cup {None} : Upto(x, x)
  /\ \A x, y, z \in Position \cup {None} : Upto(x, y) /\ Upto(y, z) => Upto(x, z)
  BY Constants DEF Upto

LEMMA LeqIs ==
  /\ \A x \in Position \cup {None, Absent} : Leq(x, x)
  /\ \A x, y, z \in Position \cup {None, Absent} : Leq(x, y) /\ Leq(y, z) => Leq(x, z)
  BY Constants DEF Upto, Leq

LEMMA ViewIs ==
  ASSUME NEW v \in Views
  PROVE  /\ v.session \in MemberId \cup {None} /\ v.roster \in Roster /\ v.shown \in Roster
         /\ v.buffer \in [MemberId -> Position \cup {None}]
         /\ \A k \in MemberId : v.buffer[k] \in Position \cup {None}
         /\ \A k \in MemberId : v.roster[k] # Absent =>
              v.roster[k] \in Card /\ v.roster[k].pos \in Position \cup {None}
  BY DEF Views, Roster, Card

LEMMA PosInIs ==
  ASSUME NEW e \in Event, NEW k \in MemberId, Names(e, k)
  PROVE  PosIn(e, k) \in Position \cup {None} /\ PosIn(e, k) # Absent
<1>1. CASE e.type = "room_state"
  BY <1>1, EventIs, Constants DEF Names, PosIn, Roster, Card
<1>2. CASE e.type = "member_joined"
  BY <1>2, EventIs, Constants DEF Names, PosIn, Roster, Card
<1>3. CASE e.type = "member_position"
  BY <1>3, EventIs, Constants DEF Names, PosIn, Roster, Card
<1> QED
  BY <1>1, <1>2, <1>3 DEF Names

LEMMA UnderAfter ==
  ASSUME NEW v \in Views, NEW e \in Event, NEW g \in Marks, NEW h \in Marks,
         NEW counted \in BOOLEAN,
         Under(v, g), Reads(g, e, h), Fits(v, g, counted, e)
  PROVE  Under(After(v, e), h)
<1> DEFINE w == After(v, e)
<1> SUFFICES ASSUME NEW k \in MemberId
             PROVE  /\ k = w.session => h[k] # Absent /\ w.buffer[k] = None
                    /\ w.buffer[k] # None => h[k] # Absent /\ Upto(w.buffer[k], h[k])
                    /\ w.roster[k] # Absent =>
                         h[k] # Absent /\ (k # w.session => Upto(w.roster[k].pos, h[k]))
  BY DEF Under
<1> HIDE DEF w
<1>1. /\ Leq(g[k], h[k])
      /\ Names(e, k) => Leq(g[k], PosIn(e, k)) /\ Leq(PosIn(e, k), h[k])
  BY DEF Reads
<1>2. /\ k = v.session => g[k] # Absent /\ v.buffer[k] = None
      /\ v.buffer[k] # None => g[k] # Absent /\ Upto(v.buffer[k], g[k])
      /\ v.roster[k] # Absent =>
           g[k] # Absent /\ (k # v.session => Upto(v.roster[k].pos, g[k]))
  BY DEF Under
<1>3. g[k] \in Position \cup {None, Absent} /\ h[k] \in Position \cup {None, Absent}
  BY DEF Marks
<1>4. /\ g[k] # Absent => h[k] # Absent
      /\ \A x \in Position \cup {None} : g[k] # Absent /\ Upto(x, g[k]) => Upto(x, h[k])
  <2>1. g[k] # Absent => h[k] # Absent /\ Upto(g[k], h[k])
    BY <1>1 DEF Leq
  <2> QED
    BY <1>3, <2>1, UptoIs
<1>5. Names(e, k) =>
        /\ PosIn(e, k) \in Position \cup {None} /\ h[k] # Absent /\ Upto(PosIn(e, k), h[k])
  BY <1>1, PosInIs DEF Leq
<1>6. CASE e.type = "room_state"
  <2>1. /\ w.session = e.self /\ w.buffer = v.buffer
        /\ w.roster = Snapshot(e.members, v.roster, v.session)
        /\ e.self \in MemberId /\ e.members \in Roster
    BY <1>6, AfterRoomState, EventIs DEF w
  <2>2. /\ e.members[e.self] # Absent
        /\ v.session = e.self \/ (v.session = None /\ g[e.self] = Absent)
    BY <1>6 DEF Fits
  <2>3. e.members[k] # Absent => Names(e, k) /\ PosIn(e, k) = e.members[k].pos
    BY <1>6 DEF Names, PosIn
  <2>4. CASE k = e.self
    BY <1>2, <1>4, <1>5, <2>1, <2>2, <2>3, <2>4, ViewIs
  <2>5. CASE k # e.self
    <3>1. w.roster[k] = e.members[k]
      <4>1. k # v.session \/ v.session = None
        BY <2>2, <2>5
      <4>2. /\ v.session \in MemberId \cup {None} /\ v.roster \in Roster /\ e.members \in Roster
            /\ v.session = None => Snapshot(e.members, v.roster, v.session) = e.members
        BY <2>1, ViewIs, SnapshotIs, ZenonT(60)
      <4>3. \A m \in MemberId :
               m # v.session => Snapshot(e.members, v.roster, v.session)[m] = e.members[m]
        BY <4>2, SnapshotIs, ZenonT(60)
      <4> QED
        BY <2>1, <4>1, <4>2, <4>3
    <3> QED
      BY <1>2, <1>4, <1>5, <2>1, <2>3, <2>5, <3>1, ViewIs
  <2> QED
    BY <2>4, <2>5
<1>7. CASE e.type \in {"refused", "room_closed"}
  <2>1. w.session = None /\ w.buffer = v.buffer /\ w.roster[k] = Absent
    BY <1>7, AfterEnding DEF w, Nobody
  <2> QED
    BY <1>2, <1>4, <2>1, ViewIs, Constants
<1>8. CASE e.type = "member_joined"
  <2>1. /\ w.session = v.session /\ w.buffer = v.buffer /\ e.id \in MemberId
        /\ w.roster = [v.roster EXCEPT ![e.id] = e.card]
    BY <1>8, AfterJoined DEF w
  <2>2. CASE k = e.id
    <3>1. Names(e, k) /\ PosIn(e, k) = e.card.pos
      BY <1>8, <2>2 DEF Names, PosIn
    <3>2. w.roster[k] = e.card
      BY <2>1, <2>2, ViewIs DEF Roster
    <3> QED
      BY <1>2, <1>4, <1>5, <2>1, <3>1, <3>2, ViewIs
  <2>3. CASE k # e.id
    <3>1. w.roster[k] = v.roster[k]
      BY <2>1, <2>3, ViewIs DEF Roster
    <3> QED
      BY <1>2, <1>4, <2>1, <3>1, ViewIs
  <2> QED
    BY <2>2, <2>3
<1>9. CASE e.type = "member_left"
  <2>1. /\ w.session = v.session /\ w.buffer = v.buffer /\ e.id \in MemberId
        /\ w.roster = [v.roster EXCEPT ![e.id] = Absent]
    BY <1>9, AfterLeft DEF w
  <2>2. w.roster[k] = Absent \/ w.roster[k] = v.roster[k]
    BY <2>1, ViewIs DEF Roster
  <2> QED
    BY <1>2, <1>4, <2>1, <2>2, ViewIs
<1>10. CASE e.type = "member_updated"
  <2>1. /\ w.session = v.session /\ w.buffer = v.buffer
        /\ e.id \in MemberId /\ e.connected \in BOOLEAN
        /\ w.roster = WithUpdated(v.roster, e)
    BY <1>10, AfterUpdated DEF w
  <2>2. /\ w.roster[k] = Absent <=> v.roster[k] = Absent
        /\ v.roster[k] # Absent => w.roster[k].pos = v.roster[k].pos
    BY <2>1, ViewIs, WithUpdatedIs
  <2> QED
    BY <1>2, <1>4, <2>1, <2>2, ViewIs
<1>11. CASE e.type = "member_position"
  <2>1. /\ w.session = v.session /\ w.roster = v.roster
        /\ w.buffer = v.buffer \/ w.buffer = [v.buffer EXCEPT ![e.id] = e.pos]
    BY <1>11, AfterPosition DEF w
  <2>2. w.buffer[k] = v.buffer[k] \/ (k = e.id /\ w.buffer[k] = e.pos)
    BY <2>1, ViewIs
  <2>3. k = e.id => Names(e, k) /\ PosIn(e, k) = e.pos /\ k # v.session
    BY <1>11 DEF Names, PosIn, Fits
  <2> QED
    BY <1>2, <1>4, <1>5, <2>1, <2>2, <2>3, ViewIs
<1> QED
  BY <1>6, <1>7, <1>8, <1>9, <1>10, <1>11, EventIs

LEMMA SoundAfter ==
  ASSUME NEW v \in Views, NEW e \in Event, NEW g \in Marks, NEW h \in Marks,
         NEW counted \in BOOLEAN,
         Under(v, g), Reads(g, e, h), Fits(v, g, counted, e), Sound(v, counted)
  PROVE  Sound(After(v, e), counted \/ e.type = "room_state")
<1> DEFINE w == After(v, e)
<1>1. Nobody \in Roster /\ \A k \in MemberId : Nobody[k] = Absent
  BY DEF Nobody, Roster
<1>2. /\ w \in Views /\ w.shown \in Roster /\ w.roster \in Roster
      /\ v.roster \in Roster /\ v.shown \in Roster
  BY AfterIsView, ViewIs
<1>3. \A k \in MemberId :
        v.shown[k] = IF v.roster[k] = Absent THEN Absent
                     ELSE IF k = v.session \/ v.roster[k].pos = None THEN Absent ELSE v.roster[k]
  BY <1>1, <1>2, DrawnIs DEF Sound
<1>4. ASSUME \A k \in MemberId :
                w.shown[k] = IF w.roster[k] = Absent THEN Absent
                             ELSE IF k = w.session \/ w.roster[k].pos = None THEN Absent
                             ELSE w.roster[k]
      PROVE  w.shown = Drawn(w.roster, Nobody, w.session)
  <2> DEFINE d == Drawn(w.roster, Nobody, w.session)
  <2>1. d \in Roster /\ \A k \in MemberId : d[k] = w.shown[k]
    BY <1>1, <1>2, <1>4, DrawnIs
  <2> HIDE DEF d, w
  <2>2. d = w.shown
    BY <1>2, <2>1 DEF Roster
  <2> QED
    BY <2>2 DEF d
<1> HIDE DEF w
<1>5. CASE e.type = "room_state"
  <2>1. /\ w.session = e.self /\ w.buffer = v.buffer
        /\ w.roster = Snapshot(e.members, v.roster, v.session)
        /\ w.shown = Drawn(w.roster, v.shown, e.self)
        /\ e.self \in MemberId /\ e.members \in Roster
    BY <1>5, AfterRoomState, EventIs DEF w
  <2>2. /\ e.members[e.self] # Absent
        /\ v.session = e.self \/ (v.session = None /\ g[e.self] = Absent)
        /\ BufferFrom(v, e.members)
    BY <1>5 DEF Fits
  <2>3. ASSUME NEW k \in MemberId, k # e.self PROVE w.roster[k] = e.members[k]
    <3>1. k # v.session \/ v.session = None
      BY <2>2, <2>3
    <3>2. /\ v.session \in MemberId \cup {None} /\ v.roster \in Roster /\ e.members \in Roster
          /\ v.session = None => Snapshot(e.members, v.roster, v.session) = e.members
      BY <2>1, ViewIs, SnapshotIs, ZenonT(60)
    <3>3. \A m \in MemberId :
               m # v.session => Snapshot(e.members, v.roster, v.session)[m] = e.members[m]
      BY <3>2, SnapshotIs, ZenonT(60)
    <3> QED
      BY <2>1, <3>1, <3>2, <3>3
  <2>4. v.shown[e.self] = Absent
    BY <1>3, <2>1, <2>2 DEF Under
  <2>5. ASSUME NEW k \in MemberId, k # e.self, e.members[k] # Absent, e.members[k].pos = None
        PROVE  v.shown[k] = Absent
    <3>1. Leq(g[k], None)
      BY <1>5, <2>5 DEF Reads, Names, PosIn
    <3>2. g[k] = Absent \/ g[k] = None
      BY <3>1 DEF Leq, Upto
    <3>3. v.roster[k] = Absent \/ k = v.session \/ v.roster[k].pos = None
      BY <3>2 DEF Under, Upto
    <3> QED
      BY <1>3, <3>3
  <2>6. ASSUME NEW k \in MemberId
        PROVE  w.shown[k] = IF w.roster[k] = Absent THEN Absent
                            ELSE IF k = w.session \/ w.roster[k].pos = None THEN Absent
                            ELSE w.roster[k]
    <3>1. w.shown[k] = IF w.roster[k] = Absent THEN Absent
                       ELSE IF k = e.self \/ w.roster[k].pos = None THEN v.shown[k]
                       ELSE w.roster[k]
      BY <1>2, <2>1, DrawnIs
    <3> QED
      BY <2>1, <2>3, <2>4, <2>5, <3>1
  <2>7. w.session # None
    BY <2>1, Constants
  <2>8. ASSUME NEW k \in MemberId, k # w.session, w.roster[k] # Absent, w.buffer[k] # None
        PROVE  Upto(w.roster[k].pos, w.buffer[k])
    <3>1. w.roster[k] = e.members[k] /\ v.buffer[k] = e.members[k].pos
      BY <2>1, <2>2, <2>3, <2>8 DEF BufferFrom
    <3> QED
      BY <2>1, <3>1, UptoIs, ViewIs
  <2> QED
    BY <1>4, <2>6, <2>7, <2>8 DEF Sound, w
<1>6. CASE e.type \in {"refused", "room_closed"}
  <2>1. w.session = None /\ w.roster = Nobody /\ w.shown = Nobody
    BY <1>6, AfterEnding DEF w
  <2> QED
    BY <1>1, <1>4, <2>1 DEF Sound, w
<1>7. CASE e.type = "member_joined"
  <2>1. /\ w.session = v.session /\ w.buffer = v.buffer /\ e.id \in MemberId
        /\ w.roster = [v.roster EXCEPT ![e.id] = e.card]
        /\ w.shown = Drawn(w.roster, v.shown, v.session)
    BY <1>7, AfterJoined DEF w
  <2>2. g[e.id] = Absent /\ e.card.pos = None
    BY <1>7, <2>1 DEF Reads
  <2>3. v.roster[e.id] = Absent /\ v.buffer[e.id] = None
    BY <2>1, <2>2 DEF Under
  <2>4. \A k \in MemberId : w.roster[k] = IF k = e.id THEN e.card ELSE v.roster[k]
    BY <1>2, <2>1 DEF Roster
  <2>5. ASSUME NEW k \in MemberId
        PROVE  w.shown[k] = IF w.roster[k] = Absent THEN Absent
                            ELSE IF k = w.session \/ w.roster[k].pos = None THEN Absent
                            ELSE w.roster[k]
    <3>1. w.shown[k] = IF w.roster[k] = Absent THEN Absent
                       ELSE IF k = v.session \/ w.roster[k].pos = None THEN v.shown[k]
                       ELSE w.roster[k]
      <4>1. Drawn(w.roster, v.shown, v.session)[k]
              = IF w.roster[k] = Absent THEN Absent
                ELSE IF k = v.session \/ w.roster[k].pos = None THEN v.shown[k]
                ELSE w.roster[k]
        BY <1>2, DrawnIs
      <4> QED
        BY <2>1, <4>1
    <3> QED
      BY <1>3, <2>1, <2>2, <2>3, <2>4, <3>1
  <2>6. ~ (counted /\ v.session = None)
    BY <1>7 DEF Fits, MemberEvent
  <2>7. ASSUME NEW k \in MemberId, k # w.session, w.roster[k] # Absent, w.buffer[k] # None
        PROVE  Upto(w.roster[k].pos, w.buffer[k])
    BY <2>1, <2>3, <2>4, <2>7 DEF Sound
  <2> QED
    BY <1>4, <1>7, <2>1, <2>5, <2>6, <2>7 DEF Sound, w
<1>8. CASE e.type = "member_left"
  <2>1. /\ w.session = v.session /\ w.buffer = v.buffer /\ e.id \in MemberId
        /\ w.roster = [v.roster EXCEPT ![e.id] = Absent]
        /\ w.shown = Drawn(w.roster, v.shown, v.session)
    BY <1>8, AfterLeft DEF w
  <2>2. \A k \in MemberId : w.roster[k] = IF k = e.id THEN Absent ELSE v.roster[k]
    BY <1>2, <2>1 DEF Roster
  <2>3. ASSUME NEW k \in MemberId
        PROVE  w.shown[k] = IF w.roster[k] = Absent THEN Absent
                            ELSE IF k = w.session \/ w.roster[k].pos = None THEN Absent
                            ELSE w.roster[k]
    <3>1. w.shown[k] = IF w.roster[k] = Absent THEN Absent
                       ELSE IF k = v.session \/ w.roster[k].pos = None THEN v.shown[k]
                       ELSE w.roster[k]
      <4>1. Drawn(w.roster, v.shown, v.session)[k]
              = IF w.roster[k] = Absent THEN Absent
                ELSE IF k = v.session \/ w.roster[k].pos = None THEN v.shown[k]
                ELSE w.roster[k]
        BY <1>2, DrawnIs
      <4> QED
        BY <2>1, <4>1
    <3> QED
      BY <1>3, <2>1, <2>2, <3>1
  <2>4. ~ (counted /\ v.session = None)
    BY <1>8 DEF Fits, MemberEvent
  <2>5. ASSUME NEW k \in MemberId, k # w.session, w.roster[k] # Absent, w.buffer[k] # None
        PROVE  Upto(w.roster[k].pos, w.buffer[k])
    BY <2>1, <2>2, <2>5 DEF Sound
  <2> QED
    BY <1>4, <1>8, <2>1, <2>3, <2>4, <2>5 DEF Sound, w
<1>9. CASE e.type = "member_updated"
  <2>1. /\ w.session = v.session /\ w.buffer = v.buffer
        /\ e.id \in MemberId /\ e.connected \in BOOLEAN
        /\ w.roster = WithUpdated(v.roster, e)
        /\ w.shown = Drawn(w.roster, v.shown, v.session)
    BY <1>9, AfterUpdated DEF w
  <2>2. ASSUME NEW k \in MemberId
        PROVE  /\ w.roster[k] = Absent <=> v.roster[k] = Absent
               /\ v.roster[k] # Absent => w.roster[k].pos = v.roster[k].pos
    <3>1. /\ WithUpdated(v.roster, e)[k] = Absent <=> v.roster[k] = Absent
          /\ k # e.id => WithUpdated(v.roster, e)[k] = v.roster[k]
          /\ v.roster[e.id] # Absent => WithUpdated(v.roster, e)[e.id].pos = v.roster[e.id].pos
      BY <1>2, <2>1, WithUpdatedIs
    <3> QED
      BY <2>1, <3>1
  <2>3. ASSUME NEW k \in MemberId
        PROVE  w.shown[k] = IF w.roster[k] = Absent THEN Absent
                            ELSE IF k = w.session \/ w.roster[k].pos = None THEN Absent
                            ELSE w.roster[k]
    <3>1. w.shown[k] = IF w.roster[k] = Absent THEN Absent
                       ELSE IF k = v.session \/ w.roster[k].pos = None THEN v.shown[k]
                       ELSE w.roster[k]
      <4>1. Drawn(w.roster, v.shown, v.session)[k]
              = IF w.roster[k] = Absent THEN Absent
                ELSE IF k = v.session \/ w.roster[k].pos = None THEN v.shown[k]
                ELSE w.roster[k]
        BY <1>2, DrawnIs
      <4> QED
        BY <2>1, <4>1
    <3> QED
      BY <1>3, <2>1, <2>2, <3>1
  <2>4. ~ (counted /\ v.session = None)
    BY <1>9 DEF Fits, MemberEvent
  <2>5. ASSUME NEW k \in MemberId, k # w.session, w.roster[k] # Absent, w.buffer[k] # None
        PROVE  Upto(w.roster[k].pos, w.buffer[k])
    BY <2>1, <2>2, <2>5 DEF Sound
  <2> QED
    BY <1>4, <1>9, <2>1, <2>3, <2>4, <2>5 DEF Sound, w
<1>10. CASE e.type = "member_position"
  <2>1. /\ w.session = v.session /\ w.roster = v.roster /\ w.shown = v.shown
        /\ e.id \in MemberId
        /\ w.buffer = v.buffer \/ w.buffer = [v.buffer EXCEPT ![e.id] = e.pos]
    BY <1>10, AfterPosition DEF w
  <2>2. ASSUME NEW k \in MemberId, k # w.session, w.roster[k] # Absent, w.buffer[k] # None
        PROVE  Upto(w.roster[k].pos, w.buffer[k])
    <3>1. CASE w.buffer[k] = v.buffer[k]
      BY <2>1, <2>2, <3>1 DEF Sound
    <3>2. CASE w.buffer[k] # v.buffer[k]
      <4>1. k = e.id /\ w.buffer[k] = e.pos
        BY <2>1, <3>2, ViewIs
      <4>2. Names(e, k) /\ PosIn(e, k) = e.pos
        BY <1>10, <4>1 DEF Names, PosIn
      <4>3. Leq(g[k], e.pos) /\ e.pos \in Position \cup {None}
        BY <4>2, PosInIs DEF Reads
      <4>4. g[k] # Absent /\ Upto(v.roster[k].pos, g[k]) /\ g[k] \in Position \cup {None, Absent}
        BY <2>1, <2>2 DEF Under, Marks
      <4>5. Upto(g[k], e.pos) /\ v.roster[k].pos \in Position \cup {None}
        BY <2>1, <2>2, <4>3, <4>4, ViewIs DEF Leq
      <4> QED
        BY <2>1, <4>1, <4>3, <4>4, <4>5, UptoIs
    <3> QED
      BY <3>1, <3>2
  <2> QED
    BY <1>10, <2>1, <2>2 DEF Sound, w, Fits, MemberEvent
<1> QED
  BY <1>5, <1>6, <1>7, <1>8, <1>9, <1>10, EventIs

-----------------------------------------------------------------------------
(* Reading a queue: the views a phone goes through, t, and the marks it    *)
(* meets on the way, h.                                                    *)

Counted(c, s, i) == c \/ \E j \in 1 .. i : s[j].type = "room_state"

Trace(t, v, s) ==
  /\ t \in [0 .. Len(s) -> Views] /\ t[0] = v
  /\ \A i \in 1 .. Len(s) : t[i] = After(t[i - 1], s[i])

Heard(h, v, s) ==
  /\ h \in [0 .. Len(s) -> Marks] /\ Under(v, h[0])
  /\ \A i \in 1 .. Len(s) : Reads(h[i - 1], s[i], h[i])

Reading(t, h, v, s, c) ==
  /\ Trace(t, v, s) /\ Heard(h, v, s)
  /\ \A i \in 1 .. Len(s) : Fits(t[i - 1], h[i - 1], Counted(c, s, i - 1), s[i])

LEMMA Least ==
  ASSUME NEW T, T \subseteq Nat, T # {}
  PROVE  \E x \in T : \A y \in T : x <= y
<1> DEFINE R == OpToRel(<, Nat)
<1>1. IsWellFoundedOn(R, Nat)
  BY NatLessThanWellFounded
<1>2. ASSUME NEW x \in Nat, NEW y \in Nat, y < x PROVE <<y, x>> \in R
  BY <1>2 DEF OpToRel
<1> HIDE DEF R
<1>3. PICK x \in T : \A y \in T : ~ (<<y, x>> \in R)
  BY <1>1, WFMin
<1>4. ASSUME NEW y \in T PROVE x <= y
  <2>1. x \in Nat /\ y \in Nat
    OBVIOUS
  <2>2. ~ (y < x)
    BY <1>2, <1>3, <2>1
  <2> QED
    BY <2>1, <2>2
<1> QED
  BY <1>4

\* What holds at the start and goes from each number to the next.
LEMMA Along ==
  ASSUME NEW n \in Nat, NEW T, 0 \in T, \A i \in 0 .. n : i # n /\ i \in T => i + 1 \in T
  PROVE  0 .. n \subseteq T
<1> SUFFICES ASSUME ~ (0 .. n \subseteq T) PROVE FALSE
  OBVIOUS
<1> DEFINE Bad == {i \in 0 .. n : i \notin T}
<1>1. Bad \subseteq Nat /\ Bad # {}
  OBVIOUS
<1>2. PICK i \in Bad : \A j \in Bad : i <= j
  BY <1>1, Least
<1>3. i \in 0 .. n /\ i # 0 /\ i - 1 \in 0 .. n /\ i - 1 # n /\ i - 1 \notin Bad
  BY <1>2
<1>4. (i - 1) + 1 \in T
  BY <1>3
<1> QED
  BY <1>2, <1>3, <1>4

LEMMA TraceExists ==
  ASSUME NEW v \in Views, NEW s \in Seq(Event)
  PROVE  \E t : Trace(t, v, s)
<1> DEFINE n == Len(s)
           To(k, t) == /\ t \in [0 .. k -> Views] /\ t[0] = v
                       /\ \A i \in 1 .. k : t[i] = After(t[i - 1], s[i])
           T == {k \in 0 .. n : \E t : To(k, t)}
<1>1. n \in Nat /\ \A i \in 1 .. n : s[i] \in Event
  OBVIOUS
<1>2. 0 \in T
  <2>1. To(0, [i \in 0 .. 0 |-> v])
    OBVIOUS
  <2> HIDE DEF To
  <2>2. \E t : To(0, t)
    BY <2>1
  <2> QED
    BY <1>1, <2>2
<1>3. ASSUME NEW k \in 0 .. n, k # n, k \in T PROVE k + 1 \in T
  <2>1. PICK t : To(k, t)
    BY <1>3
  <2> DEFINE w == After(t[k], s[k + 1])
             u == [i \in 0 .. k + 1 |-> IF i = k + 1 THEN w ELSE t[i]]
  <2>2. k + 1 \in 1 .. n /\ k \in Nat
    BY <1>1, <1>3
  <2>3. w \in Views
    BY <1>1, <2>1, <2>2, AfterIsView
  <2> HIDE DEF w
  <2>4. u \in [0 .. k + 1 -> Views] /\ u[0] = v /\ u[k + 1] = w
    BY <2>1, <2>2, <2>3
  <2>5. \A i \in 0 .. k : u[i] = t[i]
    BY <2>2
  <2>6. ASSUME NEW i \in 1 .. k + 1 PROVE u[i] = After(u[i - 1], s[i])
    <3>1. CASE i = k + 1
      BY <2>2, <2>4, <2>5, <3>1 DEF w
    <3>2. CASE i # k + 1
      <4>1. i \in 1 .. k /\ i - 1 \in 0 .. k /\ i \in 0 .. k
        BY <2>2, <3>2
      <4> QED
        BY <2>1, <2>5, <4>1
    <3> QED
      BY <3>1, <3>2
  <2> HIDE DEF u
  <2> QED
    BY <2>2, <2>4, <2>6
<1>4. 0 .. n \subseteq T
  <2> HIDE DEF T
  <2> QED
    BY <1>1, <1>2, <1>3, Along
<1>5. n \in T
  BY <1>1, <1>4
<1> QED
  BY <1>5 DEF Trace

-----------------------------------------------------------------------------
(* The fold that reads a queue takes the greatest index first, and goes    *)
(* down from there.                                                        *)

Folded(f, v, s, U) ==
  IF U = {} THEN v ELSE LET x == SE!Max(U) IN After(f[U \ {x}], s[x])

FoldedUpTo(v, s, k) == \E f : f = [U \in SUBSET (1 .. k) |-> Folded(f, v, s, U)]

LEMMA FoldedUpToAny ==
  ASSUME NEW v, NEW s, NEW n \in Nat
  PROVE  FoldedUpTo(v, s, n)
<1> DEFINE T == {k \in 0 .. n : FoldedUpTo(v, s, k)}
<1>1. 0 \in T
  <2> DEFINE f == [U \in SUBSET (1 .. 0) |-> v]
  <2>1. \A U \in SUBSET (1 .. 0) : U = {}
    OBVIOUS
  <2>2. f = [U \in SUBSET (1 .. 0) |-> Folded(f, v, s, U)]
    BY <2>1 DEF Folded
  <2> HIDE DEF f
  <2> QED
    BY <2>2 DEF FoldedUpTo
<1>2. ASSUME NEW k \in 0 .. n, k # n, k \in T PROVE k + 1 \in T
  <2>1. PICK f : f = [U \in SUBSET (1 .. k) |-> Folded(f, v, s, U)]
    BY <1>2 DEF FoldedUpTo
  <2> DEFINE g == [U \in SUBSET (1 .. k + 1) |->
                     IF k + 1 \in U THEN After(f[U \ {k + 1}], s[k + 1]) ELSE f[U]]
  <2>2. ASSUME NEW U \in SUBSET (1 .. k + 1) PROVE g[U] = Folded(g, v, s, U)
    <3>1. CASE k + 1 \in U
      <4>1. SE!Max(U) = k + 1
        <5>1. k + 1 \in U /\ \A y \in U : k + 1 >= y
          BY <3>1
        <5>2. \A x \in U : (\A y \in U : x >= y) => x = k + 1
          BY <3>1
        <5> QED
          BY <5>1, <5>2 DEF SE!Max
      <4>2. U \ {k + 1} \in SUBSET (1 .. k) /\ U \ {k + 1} \in SUBSET (1 .. k + 1)
        OBVIOUS
      <4>3. g[U \ {k + 1}] = f[U \ {k + 1}]
        BY <4>2
      <4>4. g[U] = After(f[U \ {k + 1}], s[k + 1])
        BY <3>1
      <4> HIDE DEF g
      <4> QED
        BY <3>1, <4>1, <4>3, <4>4 DEF Folded
    <3>2. CASE k + 1 \notin U
      <4>1. U \in SUBSET (1 .. k)
        BY <3>2
      <4>2. g[U] = f[U] /\ f[U] = Folded(f, v, s, U)
        BY <2>1, <3>2, <4>1
      <4>3. CASE U = {}
        BY <4>2, <4>3 DEF Folded
      <4>4. CASE U # {}
        <5> DEFINE x == SE!Max(U)
        <5>1. U \ {x} \in SUBSET (1 .. k) /\ U \ {x} \in SUBSET (1 .. k + 1) /\ k + 1 \notin U \ {x}
          BY <3>2, <4>1
        <5>2. g[U \ {x}] = f[U \ {x}]
          BY <5>1
        <5> HIDE DEF g
        <5> QED
          BY <4>2, <4>4, <5>2 DEF Folded
      <4> QED
        BY <4>3, <4>4
    <3> QED
      BY <3>1, <3>2
  <2>3. g = [U \in SUBSET (1 .. k + 1) |-> Folded(g, v, s, U)]
    <3> DEFINE h == [U \in SUBSET (1 .. k + 1) |-> Folded(g, v, s, U)]
    <3>1. \A U \in SUBSET (1 .. k + 1) : g[U] = h[U]
      BY <2>2
    <3> QED
      BY <3>1
  <2>4. k + 1 \in 0 .. n
    BY <1>2
  <2> HIDE DEF g
  <2> QED
    BY <2>3, <2>4 DEF FoldedUpTo
<1>3. 0 .. n \subseteq T
  <2> HIDE DEF T
  <2> QED
    BY <1>1, <1>2, Along
<1> QED
  BY <1>3

\* The fold reads the queue from its head to its end.
LEMMA FoldIsEnd ==
  ASSUME NEW v \in Views, NEW s \in Seq(Event), NEW t, Trace(t, v, s)
  PROVE  SE!FoldLeft(After, v, s) = t[Len(s)]
<1> DEFINE n == Len(s)
           Eq(f) == f = [U \in SUBSET (1 .. n) |-> Folded(f, v, s, U)]
           fold == CHOOSE f : Eq(f)
<1>1. n \in Nat /\ DOMAIN s = 1 .. n
  OBVIOUS
<1>2. Eq(fold)
  <2>1. FoldedUpTo(v, s, n)
    BY <1>1, FoldedUpToAny
  <2>2. \E f : Eq(f)
    BY <2>1 DEF FoldedUpTo
  <2> HIDE DEF Eq
  <2> QED
    BY <2>2
<1>3. SE!FoldLeft(After, v, s) = fold[1 .. n]
  BY <1>1 DEF SE!FoldLeft, SE!MapThenFoldSet, Folded
<1> HIDE DEF fold
<1> DEFINE T == {i \in 0 .. n : fold[1 .. i] = t[i]}
<1>4. 0 \in T
  <2>1. 1 .. 0 = {} /\ {} \in SUBSET (1 .. n)
    OBVIOUS
  <2>2. fold[{}] = v
    BY <1>2, <2>1 DEF Folded
  <2> QED
    BY <1>1, <2>1, <2>2 DEF Trace
<1>5. ASSUME NEW i \in 0 .. n, i # n, i \in T PROVE i + 1 \in T
  <2> DEFINE U == 1 .. i + 1
  <2>0. i \in Nat /\ i + 1 \in 1 .. n /\ i + 1 \in U /\ (i + 1) - 1 = i
    <3>1. n \in Nat /\ i # n /\ i \in 0 .. n
      BY <1>1, <1>5
    <3> HIDE DEF n
    <3>2. i \in Nat /\ i + 1 \in 1 .. n /\ (i + 1) - 1 = i
      BY <3>1
    <3> QED
      BY <3>2
  <2>1. /\ i \in Nat /\ i + 1 \in 1 .. n /\ U \in SUBSET (1 .. n)
        /\ i + 1 \in U /\ (i + 1) - 1 = i
    BY <1>1, <2>0
  <2>2. SE!Max(U) = i + 1
    <3>1. \A y \in U : i + 1 >= y
      BY <2>1
    <3>2. \A x \in U : (\A y \in U : x >= y) => x = i + 1
      BY <2>1
    <3> QED
      BY <2>1, <3>1, <3>2 DEF SE!Max
  <2>3. U \ {i + 1} = 1 .. i
    BY <2>1
  <2>4. fold[U] = After(fold[1 .. i], s[i + 1])
    BY <1>2, <2>1, <2>2, <2>3 DEF Folded
  <2>5. t[i + 1] = After(t[i], s[i + 1])
    BY <2>1 DEF Trace
  <2> QED
    BY <1>5, <2>1, <2>4, <2>5
<1>6. 0 .. n \subseteq T
  <2> HIDE DEF T
  <2> QED
    BY <1>1, <1>4, <1>5, Along
<1> QED
  BY <1>1, <1>3, <1>6

-----------------------------------------------------------------------------
(* What holds all along a reading.                                         *)

LEMMA UnderAlong ==
  ASSUME NEW v \in Views, NEW s \in Seq(Event), NEW c \in BOOLEAN, NEW t, NEW h,
         Reading(t, h, v, s, c)
  PROVE  \A i \in 0 .. Len(s) : Under(t[i], h[i])
<1> DEFINE n == Len(s)
           T == {i \in 0 .. n : Under(t[i], h[i])}
<1>1. n \in Nat /\ \A i \in 1 .. n : s[i] \in Event
  OBVIOUS
<1>2. 0 \in T
  BY <1>1 DEF Reading, Trace, Heard
<1>3. ASSUME NEW i \in 0 .. n, i # n, i \in T PROVE i + 1 \in T
  <2>1. i + 1 \in 1 .. n /\ (i + 1) - 1 = i /\ i + 1 \in 0 .. n
    BY <1>1, <1>3
  <2>2. t[i] \in Views /\ h[i] \in Marks /\ h[i + 1] \in Marks /\ s[i + 1] \in Event
    BY <1>1, <2>1 DEF Reading, Trace, Heard
  <2>3. /\ t[i + 1] = After(t[i], s[i + 1]) /\ Reads(h[i], s[i + 1], h[i + 1])
        /\ Fits(t[i], h[i], Counted(c, s, i), s[i + 1])
    BY <2>1 DEF Reading, Trace, Heard
  <2>4. Counted(c, s, i) \in BOOLEAN
    BY DEF Counted
  <2> QED
    BY <1>3, <2>1, <2>2, <2>3, <2>4, UnderAfter
<1>4. 0 .. n \subseteq T
  <2> HIDE DEF T
  <2> QED
    BY <1>1, <1>2, <1>3, Along
<1> QED
  BY <1>4

LEMMA MarksRise ==
  ASSUME NEW v, NEW s \in Seq(Event), NEW h, Heard(h, v, s), NEW k \in MemberId
  PROVE  /\ \A i \in 0 .. Len(s) : Leq(h[0][k], h[i][k])
         /\ \A i \in 0 .. Len(s) : Leq(h[i][k], h[Len(s)][k])
<1> DEFINE n == Len(s)
           T == {i \in 0 .. n : Leq(h[0][k], h[i][k])}
           U == {i \in 0 .. n : Leq(h[n - i][k], h[n][k])}
<1>1. n \in Nat
  OBVIOUS
<1>2. ASSUME NEW i \in 0 .. n
      PROVE  h[i][k] \in Position \cup {None, Absent} /\ (i # 0 => Leq(h[i - 1][k], h[i][k]))
  BY DEF Heard, Marks, Reads
<1>3. 0 \in T /\ 0 \in U
  BY <1>1, <1>2, LeqIs
<1>4. ASSUME NEW i \in 0 .. n, i # n, i \in T PROVE i + 1 \in T
  <2>1. i + 1 \in 0 .. n /\ (i + 1) - 1 = i /\ i + 1 # 0 /\ 0 \in 0 .. n
    BY <1>1, <1>4
  <2>2. Leq(h[0][k], h[i][k]) /\ Leq(h[i][k], h[i + 1][k])
    BY <1>2, <1>4, <2>1
  <2>3. /\ h[0][k] \in Position \cup {None, Absent}
        /\ h[i][k] \in Position \cup {None, Absent}
        /\ h[i + 1][k] \in Position \cup {None, Absent}
    BY <1>2, <2>1
  <2> QED
    BY <2>1, <2>2, <2>3, LeqIs
<1>5. ASSUME NEW i \in 0 .. n, i # n, i \in U PROVE i + 1 \in U
  <2>1. /\ i + 1 \in 0 .. n /\ n - i \in 0 .. n /\ n - i # 0 /\ n \in 0 .. n
        /\ (n - i) - 1 = n - (i + 1) /\ n - (i + 1) \in 0 .. n
    BY <1>1, <1>5
  <2>2. Leq(h[n - i][k], h[n][k]) /\ Leq(h[n - (i + 1)][k], h[n - i][k])
    <3>1. Leq(h[(n - i) - 1][k], h[n - i][k])
      BY <1>2, <2>1
    <3> QED
      BY <1>5, <2>1, <3>1
  <2>3. /\ h[n - (i + 1)][k] \in Position \cup {None, Absent}
        /\ h[n - i][k] \in Position \cup {None, Absent}
        /\ h[n][k] \in Position \cup {None, Absent}
    BY <1>2, <2>1
  <2> QED
    BY <2>1, <2>2, <2>3, LeqIs
<1>6. 0 .. n \subseteq T
  <2> HIDE DEF T
  <2> QED
    BY <1>1, <1>3, <1>4, Along
<1>7. 0 .. n \subseteq U
  <2> HIDE DEF U
  <2> QED
    BY <1>1, <1>3, <1>5, Along
<1>8. ASSUME NEW i \in 0 .. n PROVE Leq(h[i][k], h[n][k])
  <2>1. n - i \in 0 .. n /\ n - (n - i) = i
    BY <1>1
  <2> QED
    BY <1>7, <2>1
<1> QED
  BY <1>6, <1>8

-----------------------------------------------------------------------------
(* What the server holds, and a phone that has read what is on the way.    *)

\* Nothing heard of is newer than what the server holds: given are its ids.
Dated(g, members, given) ==
  \A k \in MemberId : g[k] # Absent =>
    k \in given /\ (members[k] # Absent => Upto(g[k], members[k].pos))

\* A card of the roster, with the position that waits for the next flush.
Now(card, x) == IF card = Absent \/ x = None THEN card ELSE [card EXCEPT !.pos = x]

(* A view of a phone whose connection the server holds for up, and speaks  *)
(* for the member b.                                                       *)
Abreast(v, counted, members, b) ==
  /\ BufferFrom(v, members)
  /\ b = None => \A k \in MemberId : members[k] # Absent => v.buffer[k] = None
  /\ b # None => \/ v.session = b
                 \/ v.session = None /\ v.roster[b] = Absent /\ v.buffer[b] = None
  /\ counted =>
       /\ v.session = b
       /\ b # None =>
            \A k \in MemberId \ {b} : Now(v.roster[k], v.buffer[k]) = members[k]

\* The answers on the way.
AnswersFit(s, up, b) ==
  /\ \A i \in 1 .. Len(s) : s[i].type = "refused" => Len(s) = 1 /\ (up => b = None)
  /\ \A i, j \in 1 .. Len(s) : s[i].type \in Answer /\ s[j].type \in Answer => i = j

AtEnd(v, g, counted, members, given, up, b) ==
  Under(v, g) /\ Dated(g, members, given) /\ (up => Abreast(v, counted, members, b))

\* The event can be taken, and leaves the view abreast of the server.
Onward(v, g, counted, e, members, given, up, b) ==
  \E h \in Marks :
    /\ Reads(g, e, h) /\ Fits(v, g, counted, e)
    /\ AtEnd(After(v, e), h, counted \/ e.type = "room_state", members, given, up, b)

Follows(v, s, c, members, given, up, b) ==
  /\ Sound(v, c)
  /\ AnswersFit(s, up, b)
  /\ \E t, h : /\ Reading(t, h, v, s, c)
               /\ Dated(h[Len(s)], members, given)
               /\ up => Abreast(t[Len(s)], Counted(c, s, Len(s)), members, b)

\* The phone is told nothing, and remains abreast of the server.
Unheard(members, given, up, b, members2, given2, up2, b2) ==
  \A z \in Views, g \in Marks, counted \in BOOLEAN :
    AtEnd(z, g, counted, members, given, up, b)
      => AtEnd(z, g, counted, members2, given2, up2, b2)

\* However the queue is read, the event can be taken at its end.
Taken(v, s, c, e, members, given, up, b, members2, given2, up2, b2) ==
  \A z \in Views, g \in Marks, counted \in BOOLEAN :
    /\ AtEnd(z, g, counted, members, given, up, b)
    /\ s = << >> => z = v /\ counted = c
    /\ v.session = None /\ (\A i \in 1 .. Len(s) : s[i].type # "room_state")
         => z.session = None
    => Onward(z, g, counted, e, members2, given2, up2, b2)

LEMMA SoloStays ==
  ASSUME NEW v \in Views, NEW s \in Seq(Event), NEW t, Trace(t, v, s), v.session = None,
         \A i \in 1 .. Len(s) : s[i].type # "room_state"
  PROVE  \A i \in 0 .. Len(s) : t[i].session = None
<1> DEFINE n == Len(s)
           T == {i \in 0 .. n : t[i].session = None}
<1>1. n \in Nat /\ \A i \in 1 .. n : s[i] \in Event
  OBVIOUS
<1>2. 0 \in T
  BY <1>1 DEF Trace
<1>3. ASSUME NEW i \in 0 .. n, i # n, i \in T PROVE i + 1 \in T
  <2>1. i + 1 \in 1 .. n /\ (i + 1) - 1 = i /\ i + 1 \in 0 .. n
    BY <1>1, <1>3
  <2>2. t[i] \in Views /\ s[i + 1] \in Event /\ s[i + 1].type # "room_state"
    BY <1>1, <2>1 DEF Trace
  <2>3. After(t[i], s[i + 1]).session \in {t[i].session, None}
    BY <2>2, EventIs, AfterEnding, AfterJoined, AfterLeft, AfterUpdated, AfterPosition
  <2>4. t[i + 1] = After(t[i], s[i + 1])
    BY <2>1 DEF Trace
  <2> QED
    BY <1>3, <2>1, <2>3, <2>4
<1>4. 0 .. n \subseteq T
  <2> HIDE DEF T
  <2> QED
    BY <1>1, <1>2, <1>3, Along
<1> QED
  BY <1>4

\* One more event on the way.
LEMMA OneMore ==
  ASSUME NEW v \in Views, NEW s \in Seq(Event), NEW c \in BOOLEAN, NEW e \in Event,
         NEW members, NEW given, NEW up, NEW b,
         NEW members2, NEW given2, NEW up2, NEW b2,
         Follows(v, s, c, members, given, up, b),
         AnswersFit(Append(s, e), up2, b2),
         Taken(v, s, c, e, members, given, up, b, members2, given2, up2, b2)
  PROVE  Follows(v, Append(s, e), c, members2, given2, up2, b2)
<1> DEFINE n == Len(s)
           q == Append(s, e)
<1>1. n \in Nat /\ q \in Seq(Event) /\ Len(q) = n + 1 /\ q[n + 1] = e
      /\ \A i \in 1 .. n : q[i] = s[i]
  OBVIOUS
<1>2. PICK t, h : /\ Reading(t, h, v, s, c)
                  /\ Dated(h[n], members, given)
                  /\ up => Abreast(t[n], Counted(c, s, n), members, b)
  BY DEF Follows
<1> DEFINE z == t[n]
           g == h[n]
           counted == Counted(c, s, n)
<1>3. z \in Views /\ g \in Marks /\ counted \in BOOLEAN
  BY <1>1, <1>2 DEF Reading, Trace, Heard, Counted
<1>4. AtEnd(z, g, counted, members, given, up, b)
  BY <1>1, <1>2, UnderAlong DEF AtEnd
<1>5. s = << >> => z = v /\ counted = c
  BY <1>1, <1>2 DEF Reading, Trace, Counted
<1>6. v.session = None /\ (\A i \in 1 .. Len(s) : s[i].type # "room_state") => z.session = None
  BY <1>1, <1>2, SoloStays DEF Reading
<1> HIDE DEF z, g, counted
<1>7. PICK g2 \in Marks :
        /\ Reads(g, e, g2) /\ Fits(z, g, counted, e)
        /\ AtEnd(After(z, e), g2, counted \/ e.type = "room_state", members2, given2, up2, b2)
  BY <1>3, <1>4, <1>5, <1>6 DEF Taken, Onward
<1> DEFINE w == After(z, e)
           t2 == [i \in 0 .. n + 1 |-> IF i = n + 1 THEN w ELSE t[i]]
           h2 == [i \in 0 .. n + 1 |-> IF i = n + 1 THEN g2 ELSE h[i]]
<1>8. w \in Views
  BY <1>3, AfterIsView
<1> HIDE DEF w
<1>9. /\ t \in [0 .. n -> Views] /\ t[0] = v
      /\ h \in [0 .. n -> Marks] /\ Under(v, h[0])
  BY <1>2 DEF Reading, Trace, Heard
<1>10. /\ t2 \in [0 .. n + 1 -> Views] /\ t2[0] = v /\ t2[n + 1] = w
       /\ h2 \in [0 .. n + 1 -> Marks] /\ h2[0] = h[0] /\ h2[n + 1] = g2
       /\ \A i \in 0 .. n : t2[i] = t[i] /\ h2[i] = h[i]
  BY <1>1, <1>8, <1>9
<1> HIDE DEF t2, h2
<1>11. \A i \in 0 .. n : Counted(c, q, i) <=> Counted(c, s, i)
  <2> SUFFICES ASSUME NEW i \in 0 .. n PROVE Counted(c, q, i) <=> Counted(c, s, i)
    OBVIOUS
  <2>1. \A j \in 1 .. i : j \in 1 .. n /\ q[j] = s[j]
    BY <1>1
  <2> QED
    BY <2>1 DEF Counted
<1>12. Counted(c, q, n + 1) <=> counted \/ e.type = "room_state"
  <2>1. \A j \in 1 .. n + 1 : j \in 1 .. n \/ j = n + 1
    BY <1>1
  <2>2. n + 1 \in 1 .. n + 1 /\ \A j \in 1 .. n : j \in 1 .. n + 1
    BY <1>1
  <2> HIDE DEF q
  <2> QED
    BY <1>1, <2>1, <2>2 DEF Counted, counted
<1>13. ASSUME NEW i \in 1 .. n + 1
       PROVE  /\ t2[i] = After(t2[i - 1], q[i])
              /\ Reads(h2[i - 1], q[i], h2[i])
              /\ Fits(t2[i - 1], h2[i - 1], Counted(c, q, i - 1), q[i])
  <2>1. CASE i = n + 1
    <3>1. /\ i - 1 = n /\ n \in 0 .. n /\ t2[n] = z /\ h2[n] = g /\ q[i] = e
          /\ t2[i] = w /\ h2[i] = g2
      BY <1>1, <1>10, <2>1 DEF z, g
    <3>2. Counted(c, q, n) = counted
      BY <1>11, <3>1 DEF counted, Counted
    <3> QED
      BY <1>7, <3>1, <3>2 DEF w
  <2>2. CASE i # n + 1
    <3>1. i \in 1 .. n /\ i - 1 \in 0 .. n /\ i \in 0 .. n
      BY <1>1, <2>2
    <3>2. /\ t[i] = After(t[i - 1], s[i]) /\ Reads(h[i - 1], s[i], h[i])
          /\ Fits(t[i - 1], h[i - 1], Counted(c, s, i - 1), s[i])
      BY <1>2, <3>1 DEF Reading, Trace, Heard
    <3>3. Counted(c, q, i - 1) = Counted(c, s, i - 1)
      BY <1>11, <3>1 DEF Counted
    <3> QED
      BY <1>1, <1>10, <3>1, <3>2, <3>3
  <2> QED
    BY <2>1, <2>2
<1>14. Reading(t2, h2, v, q, c)
  BY <1>1, <1>9, <1>10, <1>13 DEF Reading, Trace, Heard
<1>15. Counted(c, q, n + 1) = (counted \/ e.type = "room_state")
  BY <1>3, <1>12 DEF Counted
<1>16. /\ Dated(h2[Len(q)], members2, given2)
       /\ up2 => Abreast(t2[Len(q)], Counted(c, q, Len(q)), members2, b2)
  BY <1>1, <1>7, <1>10, <1>15 DEF AtEnd, w
<1> HIDE DEF q
<1>17. Sound(v, c)
  BY DEF Follows
<1> QED
  BY <1>14, <1>16, <1>17 DEF Follows, q

\* Nothing more on the way, and something new on the server.
LEMMA NoMore ==
  ASSUME NEW v \in Views, NEW s \in Seq(Event), NEW c \in BOOLEAN,
         NEW members, NEW given, NEW up, NEW b,
         NEW members2, NEW given2, NEW up2, NEW b2,
         Follows(v, s, c, members, given, up, b),
         up2 => up /\ b2 = b,
         Unheard(members, given, up, b, members2, given2, up2, b2)
  PROVE  Follows(v, s, c, members2, given2, up2, b2)
<1> DEFINE n == Len(s)
<1>1. n \in Nat
  OBVIOUS
<1>2. PICK t, h : /\ Reading(t, h, v, s, c)
                  /\ Dated(h[n], members, given)
                  /\ up => Abreast(t[n], Counted(c, s, n), members, b)
  BY DEF Follows
<1>3. t[n] \in Views /\ h[n] \in Marks /\ Counted(c, s, n) \in BOOLEAN
  BY <1>1, <1>2 DEF Reading, Trace, Heard, Counted
<1>4. AtEnd(t[n], h[n], Counted(c, s, n), members, given, up, b)
  BY <1>1, <1>2, UnderAlong DEF AtEnd
<1>5. AtEnd(t[n], h[n], Counted(c, s, n), members2, given2, up2, b2)
  BY <1>3, <1>4 DEF Unheard
<1>6. AnswersFit(s, up2, b2) /\ Sound(v, c)
  BY DEF Follows, AnswersFit
<1> QED
  BY <1>2, <1>5, <1>6 DEF AtEnd, Follows

-----------------------------------------------------------------------------
(* What a phone in the room hears, one event at a time.                    *)

LEMMA NowIs ==
  ASSUME NEW members \in Roster, NEW waiting \in [MemberId -> Position \cup {None}],
         NEW k \in MemberId
  PROVE  /\ WithBuffer(members, waiting) \in Roster
         /\ WithBuffer(members, waiting)[k] = Now(members[k], waiting[k])
         /\ Now(members[k], waiting[k]) = Absent <=> members[k] = Absent
         /\ Now(members[k], waiting[k]) \in Card \cup {Absent}
<1>1. members[k] \in Card \cup {Absent} /\ waiting[k] \in Position \cup {None}
  BY DEF Roster
<1>2. WithBuffer(members, waiting)[k] = Now(members[k], waiting[k])
  BY DEF WithBuffer, Now
<1>3. WithBuffer(members, waiting) \in Roster
  BY DEF WithBuffer, Roster, Card
<1>4. /\ Now(members[k], waiting[k]) \in Card \cup {Absent}
      /\ members[k] = Absent => Now(members[k], waiting[k]) = Absent
      /\ members[k] # Absent => Now(members[k], waiting[k]) \in Card
  BY <1>1 DEF Now, Card
<1> QED
  BY <1>2, <1>3, <1>4, Constants

\* Filling in a position that is there already.
LEMMA SamePos ==
  ASSUME NEW card \in Card, NEW x, x = card.pos
  PROVE  [card EXCEPT !.pos = x] = card
  BY DEF Card

LEMMA AnswersMore ==
  ASSUME NEW s \in Seq(Event), NEW b, b # None, AnswersFit(s, TRUE, b),
         NEW e \in Event, e.type \notin Answer, NEW up2, NEW b2
  PROVE  AnswersFit(Append(s, e), up2, b2)
<1>1. \A i \in 1 .. Len(s) : s[i].type # "refused"
  BY DEF AnswersFit
<1>2. \A i \in 1 .. Len(Append(s, e)) :
        Append(s, e)[i] = IF i = Len(s) + 1 THEN e ELSE s[i]
  OBVIOUS
<1>3. \A i \in 1 .. Len(Append(s, e)) : i = Len(s) + 1 \/ i \in 1 .. Len(s)
  OBVIOUS
<1> QED
  BY <1>1, <1>2, <1>3 DEF AnswersFit, Answer

LEMMA HearsLeft ==
  ASSUME NEW v \in Views, NEW s \in Seq(Event), NEW c \in BOOLEAN,
         NEW members \in Roster, NEW given, NEW b \in MemberId, NEW k \in MemberId,
         Follows(v, s, c, members, given, TRUE, b)
  PROVE  Follows(v, Append(s, Left(k)), c, [members EXCEPT ![k] = Absent], given, TRUE, b)
<1> DEFINE e == Left(k)
           members2 == [members EXCEPT ![k] = Absent]
<1>1. e \in Event /\ e.type = "member_left" /\ e.id = k
  BY EventsAre DEF Left
<1>2. \A m \in MemberId : members2[m] = IF m = k THEN Absent ELSE members[m]
  BY DEF Roster
<1>3. b # None
  BY Constants
<1>4. AnswersFit(Append(s, e), TRUE, b)
  BY <1>1, <1>3, AnswersMore DEF Follows, Answer
<1> HIDE DEF e, members2
<1>5. ASSUME NEW z \in Views, NEW g \in Marks, NEW counted \in BOOLEAN,
             AtEnd(z, g, counted, members, given, TRUE, b)
      PROVE  Onward(z, g, counted, e, members2, given, TRUE, b)
  <2> DEFINE w == After(z, e)
  <2>1. /\ w.session = z.session /\ w.buffer = z.buffer /\ w.roster = [z.roster EXCEPT ![k] = Absent]
    BY <1>1, AfterLeft
  <2>2. \A m \in MemberId : w.roster[m] = IF m = k THEN Absent ELSE z.roster[m]
    BY <2>1, ViewIs DEF Roster
  <2>3. Under(z, g) /\ Dated(g, members, given) /\ Abreast(z, counted, members, b)
    BY <1>5 DEF AtEnd
  <2>4. Reads(g, e, g)
    BY <1>1, LeqIs DEF Reads, Names, Marks
  <2>5. Fits(z, g, counted, e)
    BY <1>1, <1>3, <2>3 DEF Fits, Abreast
  <2>6. Under(w, g)
    BY <1>1, <2>3, <2>4, <2>5, UnderAfter
  <2>7. Dated(g, members2, given)
    BY <1>2, <2>3 DEF Dated
  <2>8. w \in Views
    BY <1>1, AfterIsView
  <2> HIDE DEF w
  <2>9. BufferFrom(w, members2)
    BY <1>2, <2>1, <2>2, <2>3 DEF BufferFrom, Abreast
  <2>10. w.session = b \/ (w.session = None /\ w.roster[b] = Absent /\ w.buffer[b] = None)
    BY <1>3, <2>1, <2>2, <2>3 DEF Abreast
  <2>11. ASSUME counted, NEW m \in MemberId \ {b}
         PROVE  Now(w.roster[m], w.buffer[m]) = members2[m]
    <3>1. Now(z.roster[m], z.buffer[m]) = members[m]
      BY <1>3, <2>3, <2>11 DEF Abreast
    <3> QED
      BY <1>2, <2>1, <2>2, <3>1 DEF Now
  <2>12. Abreast(w, counted, members2, b)
    BY <1>3, <2>1, <2>3, <2>9, <2>10, <2>11 DEF Abreast
  <2> QED
    BY <1>1, <2>4, <2>5, <2>6, <2>7, <2>12 DEF Onward, AtEnd, w
<1>6. Taken(v, s, c, e, members, given, TRUE, b, members2, given, TRUE, b)
  BY <1>5 DEF Taken
<1>7. Follows(v, Append(s, e), c, members2, given, TRUE, b)
  BY <1>1, <1>4, <1>6, OneMore
<1> QED
  BY <1>7 DEF e, members2

LEMMA HearsJoined ==
  ASSUME NEW v \in Views, NEW s \in Seq(Event), NEW c \in BOOLEAN,
         NEW members \in Roster, NEW given, NEW b \in MemberId, b \in given,
         NEW k \in MemberId, k \notin given,
         Follows(v, s, c, members, given, TRUE, b)
  PROVE  Follows(v, Append(s, Joined(k)), c,
                 [members EXCEPT ![k] = [connected |-> TRUE, pos |-> None]],
                 given \cup {k}, TRUE, b)
<1> DEFINE e == Joined(k)
           card == [connected |-> TRUE, pos |-> None]
           members2 == [members EXCEPT ![k] = card]
<1>0. card \in Card /\ card.pos = None
  BY DEF Card
<1>1. /\ e \in Event /\ e.type = "member_joined" /\ e.id = k /\ e.card = card
      /\ card \in Card /\ card.pos = None /\ card # Absent
  BY <1>0, EventsAre, Constants DEF Joined
<1> HIDE DEF card
<1>2. \A m \in MemberId : members2[m] = IF m = k THEN card ELSE members[m]
  BY DEF Roster
<1>3. b # None /\ k # b
  BY Constants
<1>4. AnswersFit(Append(s, e), TRUE, b)
  BY <1>1, <1>3, AnswersMore DEF Follows, Answer
<1> HIDE DEF e, members2
<1>5. ASSUME NEW z \in Views, NEW g \in Marks, NEW counted \in BOOLEAN,
             AtEnd(z, g, counted, members, given, TRUE, b)
      PROVE  Onward(z, g, counted, e, members2, given \cup {k}, TRUE, b)
  <2> DEFINE w == After(z, e)
             h == [g EXCEPT ![k] = None]
  <2>1. w.session = z.session /\ w.buffer = z.buffer /\ w.roster = [z.roster EXCEPT ![k] = card]
    BY <1>1, AfterJoined
  <2>2. \A m \in MemberId : w.roster[m] = IF m = k THEN card ELSE z.roster[m]
    BY <2>1, ViewIs DEF Roster
  <2>3. Under(z, g) /\ Dated(g, members, given) /\ Abreast(z, counted, members, b)
    BY <1>5 DEF AtEnd
  <2>4. g[k] = Absent /\ z.buffer[k] = None /\ z.session # k
    BY <2>3 DEF Dated, Under
  <2>5. h \in Marks /\ \A m \in MemberId : h[m] = IF m = k THEN None ELSE g[m]
    BY DEF Marks
  <2> HIDE DEF h
  <2>6. Reads(g, e, h)
    <3>1. ASSUME NEW m \in MemberId
          PROVE  /\ Leq(g[m], h[m])
                 /\ Names(e, m) => Leq(g[m], PosIn(e, m)) /\ Leq(PosIn(e, m), h[m])
                 /\ e.type = "member_joined" /\ e.id = m => g[m] = Absent /\ e.card.pos = None
      <4>1. g[m] \in Position \cup {None, Absent}
        BY DEF Marks
      <4>2. CASE m = k
        BY <1>1, <2>4, <2>5, <4>2, Constants DEF Leq, Upto, PosIn
      <4>3. CASE m # k
        BY <1>1, <2>5, <4>1, <4>3, LeqIs DEF Names
      <4> QED
        BY <4>2, <4>3
    <3> QED
      BY <3>1 DEF Reads
  <2>7. Fits(z, g, counted, e)
    BY <1>1, <1>3, <2>3 DEF Fits, Abreast
  <2>8. Under(w, h)
    BY <1>1, <2>3, <2>5, <2>6, <2>7, UnderAfter
  <2>9. Dated(h, members2, given \cup {k})
    BY <1>1, <1>2, <2>3, <2>5 DEF Dated, Upto
  <2>10. w \in Views
    BY <1>1, AfterIsView
  <2> HIDE DEF w
  <2>11. BufferFrom(w, members2)
    BY <1>2, <2>1, <2>2, <2>3, <2>4 DEF BufferFrom, Abreast
  <2>12. w.session = b \/ (w.session = None /\ w.roster[b] = Absent /\ w.buffer[b] = None)
    BY <1>3, <2>1, <2>2, <2>3 DEF Abreast
  <2>13. ASSUME counted, NEW m \in MemberId \ {b}
         PROVE  Now(w.roster[m], w.buffer[m]) = members2[m]
    <3>1. Now(z.roster[m], z.buffer[m]) = members[m]
      BY <1>3, <2>3, <2>13 DEF Abreast
    <3> QED
      BY <1>2, <2>1, <2>2, <2>4, <3>1 DEF Now
  <2>14. Abreast(w, counted, members2, b)
    BY <1>3, <2>1, <2>3, <2>11, <2>12, <2>13 DEF Abreast
  <2> QED
    BY <1>1, <2>5, <2>6, <2>7, <2>8, <2>9, <2>14 DEF Onward, AtEnd, w
<1>6. Taken(v, s, c, e, members, given, TRUE, b, members2, given \cup {k}, TRUE, b)
  BY <1>5 DEF Taken
<1>7. Follows(v, Append(s, e), c, members2, given \cup {k}, TRUE, b)
  BY <1>1, <1>4, <1>6, OneMore
<1> QED
  BY <1>7 DEF e, members2, card

LEMMA HearsUpdated ==
  ASSUME NEW v \in Views, NEW s \in Seq(Event), NEW c \in BOOLEAN,
         NEW members \in Roster, NEW given, NEW b \in MemberId,
         NEW k \in MemberId, NEW x \in BOOLEAN,
         Follows(v, s, c, members, given, TRUE, b)
  PROVE  Follows(v, Append(s, Updated(k, x)), c, WithUpdated(members, Updated(k, x)),
                 given, TRUE, b)
<1> DEFINE e == Updated(k, x)
           members2 == WithUpdated(members, e)
<1>1. e \in Event /\ e.type = "member_updated" /\ e.id = k /\ e.connected = x
  BY EventsAre DEF Updated
<1>2. ASSUME NEW m \in MemberId
      PROVE  /\ members2[m] = Absent <=> members[m] = Absent
             /\ members[m] # Absent => members2[m].pos = members[m].pos
             /\ m # k => members2[m] = members[m]
  BY <1>1, WithUpdatedIs
<1>3. b # None
  BY Constants
<1>4. AnswersFit(Append(s, e), TRUE, b)
  BY <1>1, <1>3, AnswersMore DEF Follows, Answer
<1> HIDE DEF e, members2
<1>5. ASSUME NEW z \in Views, NEW g \in Marks, NEW counted \in BOOLEAN,
             AtEnd(z, g, counted, members, given, TRUE, b)
      PROVE  Onward(z, g, counted, e, members2, given, TRUE, b)
  <2> DEFINE w == After(z, e)
  <2>1. w.session = z.session /\ w.buffer = z.buffer /\ w.roster = WithUpdated(z.roster, e)
    BY <1>1, AfterUpdated
  <2>2. ASSUME NEW m \in MemberId
        PROVE  /\ w.roster[m] = Absent <=> z.roster[m] = Absent
               /\ m # k => w.roster[m] = z.roster[m]
    BY <1>1, <2>1, ViewIs, WithUpdatedIs
  <2>3. Under(z, g) /\ Dated(g, members, given) /\ Abreast(z, counted, members, b)
    BY <1>5 DEF AtEnd
  <2>4. Reads(g, e, g)
    BY <1>1, LeqIs DEF Reads, Names, Marks
  <2>5. Fits(z, g, counted, e)
    BY <1>1, <1>3, <2>3 DEF Fits, Abreast
  <2>6. Under(w, g)
    BY <1>1, <2>3, <2>4, <2>5, UnderAfter
  <2>7. Dated(g, members2, given)
    BY <1>2, <2>3 DEF Dated
  <2>8. w \in Views
    BY <1>1, AfterIsView
  <2> HIDE DEF w
  <2>9. BufferFrom(w, members2)
    BY <1>2, <2>1, <2>2, <2>3 DEF BufferFrom, Abreast
  <2>10. w.session = b \/ (w.session = None /\ w.roster[b] = Absent /\ w.buffer[b] = None)
    BY <1>3, <2>1, <2>2, <2>3 DEF Abreast
  <2>11. ASSUME counted, NEW m \in MemberId \ {b}
         PROVE  Now(w.roster[m], w.buffer[m]) = members2[m]
    <3>1. Now(z.roster[m], z.buffer[m]) = members[m]
      BY <1>3, <2>3, <2>11 DEF Abreast
    <3>2. /\ z.roster \in Roster /\ z.buffer \in [MemberId -> Position \cup {None}]
          /\ w.roster \in Roster /\ w.buffer \in [MemberId -> Position \cup {None}]
      BY <2>8, ViewIs
    <3>3. CASE m # k
      BY <1>2, <2>1, <2>2, <3>1, <3>3 DEF Now
    <3>4. CASE m = k /\ z.roster[k] = Absent
      BY <1>2, <2>2, <3>1, <3>4 DEF Now
    <3>5. CASE m = k /\ z.roster[k] # Absent
      <4>1. z.roster[k] \in Card /\ z.buffer[k] \in Position \cup {None}
        BY <3>2, <3>5 DEF Roster
      <4>2. w.roster[k] = [z.roster[k] EXCEPT !.connected = x]
        BY <1>1, <2>1, <3>2, <3>5 DEF WithUpdated, Roster
      <4>3. members[k] # Absent /\ members[k] \in Card
        <5>1. /\ Now(z.roster[k], z.buffer[k]) = Absent <=> z.roster[k] = Absent
              /\ Now(z.roster[k], z.buffer[k]) \in Card \cup {Absent}
          BY <3>2, NowIs
        <5> QED
          BY <3>1, <3>5, <5>1
      <4>4. members2[k] = [members[k] EXCEPT !.connected = x]
        BY <1>1, <4>3 DEF WithUpdated, Roster, members2
      <4>5. w.roster[k] # Absent
        BY <2>2, <3>5
      <4>6. CASE z.buffer[k] = None
        BY <2>1, <3>1, <3>5, <4>2, <4>4, <4>6 DEF Now
      <4>7. CASE z.buffer[k] # None
        <5>1. members[k] = [z.roster[k] EXCEPT !.pos = z.buffer[k]]
          BY <3>1, <3>5, <4>7 DEF Now
        <5>2. Now(w.roster[k], w.buffer[k]) = [w.roster[k] EXCEPT !.pos = z.buffer[k]]
          BY <2>1, <4>5, <4>7 DEF Now
        <5> QED
          BY <3>5, <4>1, <4>2, <4>4, <5>1, <5>2 DEF Card
      <4> QED
        BY <4>6, <4>7
    <3> QED
      BY <3>3, <3>4, <3>5
  <2>12. Abreast(w, counted, members2, b)
    BY <1>2, <1>3, <2>1, <2>3, <2>9, <2>10, <2>11 DEF Abreast
  <2> QED
    BY <1>1, <2>4, <2>5, <2>6, <2>7, <2>12 DEF Onward, AtEnd, w
<1>6. Taken(v, s, c, e, members, given, TRUE, b, members2, given, TRUE, b)
  BY <1>5 DEF Taken
<1>7. Follows(v, Append(s, e), c, members2, given, TRUE, b)
  BY <1>1, <1>4, <1>6, OneMore
<1> QED
  BY <1>7 DEF e, members2

LEMMA HearsMoved ==
  ASSUME NEW v \in Views, NEW s \in Seq(Event), NEW c \in BOOLEAN,
         NEW members \in Roster, NEW given, NEW b \in MemberId, given \subseteq MemberId,
         NEW k \in MemberId, k # b, k \in given, members[k] # Absent,
         NEW x \in Position, Upto(members[k].pos, x),
         Follows(v, s, c, members, given, TRUE, b)
  PROVE  Follows(v, Append(s, Moved(k, x)), c,
                 [members EXCEPT ![k] = [members[k] EXCEPT !.pos = x]], given, TRUE, b)
<1> DEFINE e == Moved(k, x)
           card == [members[k] EXCEPT !.pos = x]
           members2 == [members EXCEPT ![k] = card]
<1>1. e \in Event /\ e.type = "member_position" /\ e.id = k /\ e.pos = x
  BY EventsAre DEF Moved
<1>2. members[k] \in Card /\ card \in Card /\ card # Absent /\ card.pos = x
  BY Constants DEF Card, Roster
<1> HIDE DEF card
<1>3. \A m \in MemberId : members2[m] = IF m = k THEN card ELSE members[m]
  BY DEF Roster
<1>4. b # None /\ x # None /\ x # Absent
  BY Constants
<1>5. AnswersFit(Append(s, e), TRUE, b)
  BY <1>1, <1>4, AnswersMore DEF Follows, Answer
<1> HIDE DEF e, members2
<1>6. ASSUME NEW z \in Views, NEW g \in Marks, NEW counted \in BOOLEAN,
             AtEnd(z, g, counted, members, given, TRUE, b)
      PROVE  Onward(z, g, counted, e, members2, given, TRUE, b)
  <2> DEFINE w == After(z, e)
             h == [g EXCEPT ![k] = x]
  <2>1. /\ w.session = z.session /\ w.roster = z.roster
        /\ z.roster[k] = Absent => w.buffer = z.buffer
        /\ z.roster[k] # Absent => w.buffer = [z.buffer EXCEPT ![k] = x]
    BY <1>1, AfterPosition
  <2>2. \A m \in MemberId :
          w.buffer[m] = IF m = k /\ z.roster[k] # Absent THEN x ELSE z.buffer[m]
    BY <2>1, ViewIs
  <2>3. Under(z, g) /\ Dated(g, members, given) /\ Abreast(z, counted, members, b)
    BY <1>6 DEF AtEnd
  <2>4. z.session # k
    BY <1>4, <2>3, Constants DEF Abreast
  <2>5. h \in Marks /\ \A m \in MemberId : h[m] = IF m = k THEN x ELSE g[m]
    BY DEF Marks
  <2>6. Leq(g[k], x)
    <3>1. g[k] # Absent => Upto(g[k], members[k].pos)
      BY <2>3 DEF Dated
    <3>2. g[k] \in Position \cup {None, Absent} /\ members[k].pos \in Position \cup {None}
      BY <1>2 DEF Marks, Card
    <3> QED
      BY <1>4, <3>1, <3>2, UptoIs DEF Leq
  <2> HIDE DEF h
  <2>7. Reads(g, e, h)
    <3>1. ASSUME NEW m \in MemberId
          PROVE  /\ Leq(g[m], h[m])
                 /\ Names(e, m) => Leq(g[m], PosIn(e, m)) /\ Leq(PosIn(e, m), h[m])
                 /\ e.type = "member_joined" /\ e.id = m => g[m] = Absent /\ e.card.pos = None
      <4>1. g[m] \in Position \cup {None, Absent}
        BY DEF Marks
      <4>2. CASE m = k
        BY <1>1, <2>5, <2>6, <4>2, LeqIs DEF PosIn
      <4>3. CASE m # k
        BY <1>1, <2>5, <4>1, <4>3, LeqIs DEF Names
      <4> QED
        BY <4>2, <4>3
    <3> QED
      BY <3>1 DEF Reads
  <2>8. counted => z.session = b /\ z.roster[k] # Absent
    <3>1. counted => Now(z.roster[k], z.buffer[k]) = members[k] /\ z.session = b
      BY <1>4, <2>3 DEF Abreast
    <3> QED
      BY <3>1 DEF Now
  <2>9. Fits(z, g, counted, e)
    BY <1>1, <1>4, <2>4, <2>8 DEF Fits
  <2>10. Under(w, h)
    BY <1>1, <2>3, <2>5, <2>7, <2>9, UnderAfter
  <2>11. Dated(h, members2, given)
    BY <1>2, <1>3, <2>3, <2>5, UptoIs DEF Dated
  <2>12. w \in Views
    BY <1>1, AfterIsView
  <2> HIDE DEF w
  <2>13. BufferFrom(w, members2)
    BY <1>2, <1>3, <2>1, <2>2, <2>3 DEF BufferFrom, Abreast
  <2>14. w.session = b \/ (w.session = None /\ w.roster[b] = Absent /\ w.buffer[b] = None)
    BY <1>4, <2>1, <2>2, <2>3 DEF Abreast
  <2>15. ASSUME counted, NEW m \in MemberId \ {b}
         PROVE  Now(w.roster[m], w.buffer[m]) = members2[m]
    <3>1. Now(z.roster[m], z.buffer[m]) = members[m]
      BY <1>4, <2>3, <2>15 DEF Abreast
    <3>2. /\ z.roster \in Roster /\ z.buffer \in [MemberId -> Position \cup {None}]
          /\ w.roster \in Roster /\ w.buffer \in [MemberId -> Position \cup {None}]
      BY <2>12, ViewIs
    <3>3. CASE m # k
      BY <1>3, <2>1, <2>2, <3>1, <3>3 DEF Now
    <3>4. CASE m = k
      <4>1. z.roster[k] # Absent /\ z.roster[k] \in Card /\ w.buffer[k] = x
        BY <2>2, <2>8, <2>15, <3>2 DEF Roster
      <4>2. Now(w.roster[k], w.buffer[k]) = [z.roster[k] EXCEPT !.pos = x]
        BY <1>4, <2>1, <4>1 DEF Now
      <4>3. members[k] = z.roster[k] \/ members[k] = [z.roster[k] EXCEPT !.pos = z.buffer[k]]
        BY <3>1, <3>4, <4>1 DEF Now
      <4>4. card = [z.roster[k] EXCEPT !.pos = x]
        BY <4>1, <4>3 DEF card, Card
      <4> QED
        BY <1>3, <3>4, <4>2, <4>4
    <3> QED
      BY <3>3, <3>4
  <2>16. Abreast(w, counted, members2, b)
    BY <1>4, <2>1, <2>3, <2>13, <2>14, <2>15 DEF Abreast
  <2> QED
    BY <1>1, <2>5, <2>7, <2>9, <2>10, <2>11, <2>16 DEF Onward, AtEnd, w
<1>7. Taken(v, s, c, e, members, given, TRUE, b, members2, given, TRUE, b)
  BY <1>6 DEF Taken
<1>8. Follows(v, Append(s, e), c, members2, given, TRUE, b)
  BY <1>1, <1>5, <1>7, OneMore
<1> QED
  BY <1>8 DEF e, members2, card

\* What the server does takes no position back, and gives no id again.
Advances(members, given, members2, given2) ==
  /\ given \subseteq given2
  /\ \A k \in MemberId : members2[k] # Absent =>
       k \notin given \/ (members[k] # Absent /\ Upto(members[k].pos, members2[k].pos))

LEMMA StaysDated ==
  ASSUME NEW g \in Marks, NEW members \in Roster, NEW given, NEW members2 \in Roster,
         NEW given2, Dated(g, members, given), Advances(members, given, members2, given2)
  PROVE  Dated(g, members2, given2)
<1> SUFFICES ASSUME NEW k \in MemberId, g[k] # Absent
             PROVE  k \in given2 /\ (members2[k] # Absent => Upto(g[k], members2[k].pos))
  BY DEF Dated
<1>1. k \in given /\ (members[k] # Absent => Upto(g[k], members[k].pos))
  BY DEF Dated
<1>2. ASSUME members2[k] # Absent PROVE Upto(g[k], members2[k].pos)
  <2>1. members[k] # Absent /\ Upto(members[k].pos, members2[k].pos)
    BY <1>1, <1>2 DEF Advances
  <2>2. /\ g[k] \in Position \cup {None, Absent} /\ members[k] \in Card
        /\ members2[k] \in Card
    BY <1>2, <2>1 DEF Marks, Roster
  <2>3. members[k].pos \in Position \cup {None} /\ members2[k].pos \in Position \cup {None}
    BY <2>2 DEF Card
  <2> QED
    BY <1>1, <2>1, <2>2, <2>3, UptoIs
<1> QED
  BY <1>1, <1>2 DEF Advances

LEMMA HearsClosed ==
  ASSUME NEW v \in Views, NEW s \in Seq(Event), NEW c \in BOOLEAN,
         NEW members \in Roster, NEW given, NEW b \in MemberId,
         NEW members2 \in Roster, NEW given2, NEW up2,
         Follows(v, s, c, members, given, TRUE, b),
         Advances(members, given, members2, given2), up2 => members2 = Nobody
  PROVE  Follows(v, Append(s, Closed), c, members2, given2, up2, None)
<1>1. Closed \in Event /\ Closed.type = "room_closed"
  BY EventsAre DEF Closed
<1>2. b # None
  BY Constants
<1>3. AnswersFit(Append(s, Closed), up2, None)
  BY <1>1, <1>2, AnswersMore DEF Follows, Answer
<1>4. ASSUME NEW z \in Views, NEW g \in Marks, NEW counted \in BOOLEAN,
             AtEnd(z, g, counted, members, given, TRUE, b)
      PROVE  Onward(z, g, counted, Closed, members2, given2, up2, None)
  <2> DEFINE w == After(z, Closed)
  <2>1. w.session = None /\ w.roster = Nobody
    BY <1>1, AfterEnding
  <2>2. Under(z, g) /\ Dated(g, members, given)
    BY <1>4 DEF AtEnd
  <2>3. Reads(g, Closed, g)
    BY <1>1, LeqIs DEF Reads, Names, Marks
  <2>4. Fits(z, g, counted, Closed)
    BY <1>1 DEF Fits, MemberEvent
  <2>5. Under(w, g)
    BY <1>1, <2>2, <2>3, <2>4, UnderAfter
  <2>6. Dated(g, members2, given2)
    BY <2>2, StaysDated
  <2> HIDE DEF w
  <2>7. up2 => Abreast(w, counted, members2, None)
    BY <2>1 DEF Abreast, BufferFrom, Nobody
  <2> QED
    BY <1>1, <2>3, <2>4, <2>5, <2>6, <2>7 DEF Onward, AtEnd, w
<1>5. Taken(v, s, c, Closed, members, given, TRUE, b, members2, given2, up2, None)
  BY <1>4 DEF Taken
<1> QED
  BY <1>1, <1>3, <1>5, OneMore

-----------------------------------------------------------------------------
(* The answers to those who enter.                                         *)

LEMMA TakesEntry ==
  ASSUME NEW z \in Views, NEW g \in Marks, NEW counted \in BOOLEAN,
         NEW members \in Roster, NEW given, NEW m \in MemberId, NEW e \in Event,
         e.type = "room_state", e.self = m, e.members = members,
         Under(z, g), members[m] # Absent,
         \A k \in MemberId : /\ g[k] # Absent \/ members[k] # Absent => k \in given
                             /\ members[k] # Absent => Leq(g[k], members[k].pos),
         BufferFrom(z, members),
         z.session = m \/ (z.session = None /\ g[m] = Absent)
  PROVE  Onward(z, g, counted, e, members, given, TRUE, m)
<1> DEFINE w == After(z, e)
           h == [k \in MemberId |-> IF members[k] # Absent THEN members[k].pos ELSE g[k]]
<1>1. \A k \in MemberId : members[k] # Absent =>
        members[k] \in Card /\ members[k].pos \in Position \cup {None} /\ members[k].pos # Absent
  BY Constants DEF Roster, Card
<1>2. h \in Marks /\ \A k \in MemberId :
        h[k] = IF members[k] # Absent THEN members[k].pos ELSE g[k]
  BY <1>1 DEF Marks
<1> HIDE DEF h
<1>3. Reads(g, e, h)
  <2>1. ASSUME NEW k \in MemberId
        PROVE  /\ Leq(g[k], h[k])
               /\ Names(e, k) => Leq(g[k], PosIn(e, k)) /\ Leq(PosIn(e, k), h[k])
    <3>1. g[k] \in Position \cup {None, Absent}
      BY DEF Marks
    <3>2. CASE members[k] = Absent
      BY <1>2, <3>1, <3>2, LeqIs DEF Names
    <3>3. CASE members[k] # Absent
      <4>1. PosIn(e, k) = members[k].pos
        BY DEF PosIn
      <4> QED
        BY <1>1, <1>2, <3>3, <4>1, LeqIs
    <3> QED
      BY <3>2, <3>3
  <2> QED
    BY <2>1 DEF Reads
<1>4. Fits(z, g, counted, e)
  BY DEF Fits, MemberEvent
<1>5. /\ w.session = m /\ w.buffer = z.buffer
      /\ w.roster = Snapshot(members, z.roster, z.session)
  BY AfterRoomState
<1>6. Under(w, h)
  BY <1>2, <1>3, <1>4, UnderAfter
<1>7. Dated(h, members, given)
  BY <1>1, <1>2, UptoIs DEF Dated
<1> HIDE DEF w
<1>8. ASSUME NEW k \in MemberId, k # m PROVE w.roster[k] = members[k]
  <2>1. z.session = None \/ k # z.session
    BY <1>8
  <2>0. z.session \in MemberId \cup {None} /\ z.roster \in Roster
    BY ViewIs
  <2>2. z.session = None => Snapshot(members, z.roster, z.session) = members
    BY DEF Snapshot
  <2>3. \A n \in MemberId : n # z.session => Snapshot(members, z.roster, z.session)[n] = members[n]
    BY <2>0, SnapshotIs
  <2> QED
    BY <1>5, <2>1, <2>2, <2>3
<1>9. z.buffer[m] = None
  BY DEF Under
<1>10. BufferFrom(w, members)
  BY <1>5, <1>8, <1>9 DEF BufferFrom
<1>11. ASSUME NEW k \in MemberId \ {m} PROVE Now(w.roster[k], w.buffer[k]) = members[k]
  <2>1. w.roster[k] = members[k] /\ w.buffer[k] = z.buffer[k]
    BY <1>5, <1>8
  <2>2. members[k] # Absent /\ z.buffer[k] # None => z.buffer[k] = members[k].pos
    BY DEF BufferFrom
  <2> QED
    BY <1>1, <2>1, <2>2, SamePos DEF Now
<1>12. Abreast(w, counted \/ e.type = "room_state", members, m)
  BY <1>5, <1>10, <1>11, Constants DEF Abreast
<1> QED
  BY <1>2, <1>3, <1>4, <1>6, <1>7, <1>12 DEF Onward, AtEnd, w

EntryOf(m, members) == [type |-> "room_state", self |-> m, members |-> members]

LEMMA EntersAnew ==
  ASSUME NEW v \in Views, NEW s \in Seq(Event), NEW c \in BOOLEAN,
         NEW members \in Roster, NEW given, NEW up \in BOOLEAN, NEW b,
         NEW m \in MemberId, m \notin given, NEW members2 \in Roster,
         Follows(v, s, c, members, given, up, b), v.session = None,
         \A i \in 1 .. Len(s) : s[i].type \notin Answer,
         ~ up => s = << >> /\ v.buffer = NoBuffer,
         \A k \in MemberId : members[k] # Absent => k \in given,
         members2[m] # Absent /\ members2[m].pos = None,
         \A k \in MemberId : k # m => members2[k] \in {members[k], Absent}
  PROVE  Follows(v, Append(s, EntryOf(m, members2)), c, members2, given \cup {m}, TRUE, m)
<1> DEFINE e == EntryOf(m, members2)
<1>1. e \in Event /\ e.type = "room_state" /\ e.self = m /\ e.members = members2
  BY DEF Event, EntryOf
<1> HIDE DEF e
<1>2. AnswersFit(Append(s, e), TRUE, m)
  <2>1. \A i \in 1 .. Len(Append(s, e)) :
          Append(s, e)[i] = IF i = Len(s) + 1 THEN e ELSE s[i]
    BY <1>1
  <2>2. \A i \in 1 .. Len(Append(s, e)) : i = Len(s) + 1 \/ i \in 1 .. Len(s)
    BY <1>1
  <2> QED
    BY <1>1, <2>1, <2>2 DEF AnswersFit, Answer
<1>3. ASSUME NEW z \in Views, NEW g \in Marks, NEW counted \in BOOLEAN,
             AtEnd(z, g, counted, members, given, up, b),
             z.session = None, s = << >> => z = v
      PROVE  Onward(z, g, counted, e, members2, given \cup {m}, TRUE, m)
  <2>1. Under(z, g) /\ Dated(g, members, given) /\ (up => Abreast(z, counted, members, b))
    BY <1>3 DEF AtEnd
  <2>2. g[m] = Absent
    BY <2>1 DEF Dated
  <2>3. z.buffer[m] = None
    BY <2>1, <2>2 DEF Under
  <2>4. BufferFrom(z, members2)
    <3>1. CASE up
      BY <2>1, <2>3, <3>1 DEF Abreast, BufferFrom
    <3>2. CASE ~ up
      BY <1>3, <3>2 DEF BufferFrom, NoBuffer
    <3> QED
      BY <3>1, <3>2
  <2>5. ASSUME NEW k \in MemberId
        PROVE  /\ g[k] # Absent \/ members2[k] # Absent => k \in given \cup {m}
               /\ members2[k] # Absent => Leq(g[k], members2[k].pos)
    <3>1. members2[k] # Absent => members2[k].pos # Absent
      BY Constants DEF Roster, Card
    <3>2. k # m /\ members2[k] # Absent => members2[k] = members[k]
      OBVIOUS
    <3> QED
      BY <2>1, <2>2, <3>1, <3>2 DEF Dated, Leq
  <2> QED
    BY <1>1, <1>3, <2>1, <2>2, <2>4, <2>5, TakesEntry
<1>4. \A i \in 1 .. Len(s) : s[i].type # "room_state"
  BY DEF Answer
<1>5. Taken(v, s, c, e, members, given, up, b, members2, given \cup {m}, TRUE, m)
  BY <1>3, <1>4 DEF Taken
<1>6. Follows(v, Append(s, e), c, members2, given \cup {m}, TRUE, m)
  BY <1>1, <1>2, <1>5, OneMore
<1> QED
  BY <1>6 DEF e

LEMMA EntersAgain ==
  ASSUME NEW v \in Views, NEW c \in BOOLEAN,
         NEW members \in Roster, NEW given, NEW b, NEW m \in MemberId, NEW members2 \in Roster,
         Follows(v, << >>, c, members, given, FALSE, b),
         v.session = m, v.buffer = NoBuffer,
         \A k \in MemberId : members[k] # Absent => k \in given,
         members2[m] # Absent,
         \A k \in MemberId : members2[k] # Absent =>
           members[k] # Absent /\ members2[k].pos = members[k].pos
  PROVE  Follows(v, << EntryOf(m, members2) >>, c, members2, given, TRUE, m)
<1> DEFINE e == EntryOf(m, members2)
           s == << >>
<1>1. e \in Event /\ e.type = "room_state" /\ e.self = m /\ e.members = members2
  BY DEF Event, EntryOf
<1> HIDE DEF e
<1>2. AnswersFit(Append(s, e), TRUE, m)
  BY <1>1 DEF AnswersFit
<1>3. ASSUME NEW z \in Views, NEW g \in Marks, NEW counted \in BOOLEAN,
             AtEnd(z, g, counted, members, given, FALSE, b), z = v
      PROVE  Onward(z, g, counted, e, members2, given, TRUE, m)
  <2>1. Under(z, g) /\ Dated(g, members, given)
    BY <1>3 DEF AtEnd
  <2>2. BufferFrom(z, members2)
    BY <1>3 DEF BufferFrom, NoBuffer
  <2>3. ASSUME NEW k \in MemberId
        PROVE  /\ g[k] # Absent \/ members2[k] # Absent => k \in given
               /\ members2[k] # Absent => Leq(g[k], members2[k].pos)
    <3>1. members2[k] # Absent => members2[k].pos # Absent
      BY Constants DEF Roster, Card
    <3> QED
      BY <2>1, <3>1 DEF Dated, Leq
  <2> QED
    BY <1>1, <1>3, <2>1, <2>2, <2>3, TakesEntry
<1>4. Taken(v, s, c, e, members, given, FALSE, b, members2, given, TRUE, m)
  BY <1>3 DEF Taken
<1>5. s \in Seq(Event) /\ Append(s, e) = << e >>
  OBVIOUS
<1> HIDE DEF s
<1>6. Follows(v, Append(s, e), c, members2, given, TRUE, m)
  BY <1>1, <1>2, <1>4, <1>5, OneMore DEF s
<1> QED
  BY <1>5, <1>6 DEF e

LEMMA IsRefused ==
  ASSUME NEW v \in Views, NEW c \in BOOLEAN, NEW members \in Roster, NEW given, NEW b,
         Follows(v, << >>, c, members, given, FALSE, b), v.buffer = NoBuffer
  PROVE  Follows(v, << Refused >>, c, members, given, TRUE, None)
<1> DEFINE s == << >>
<1>1. Refused \in Event /\ Refused.type = "refused"
  BY EventsAre DEF Refused
<1>2. AnswersFit(Append(s, Refused), TRUE, None)
  BY <1>1 DEF AnswersFit
<1>3. ASSUME NEW z \in Views, NEW g \in Marks, NEW counted \in BOOLEAN,
             AtEnd(z, g, counted, members, given, FALSE, b), z = v
      PROVE  Onward(z, g, counted, Refused, members, given, TRUE, None)
  <2> DEFINE w == After(z, Refused)
  <2>1. w.session = None /\ w.buffer = NoBuffer
    BY <1>1, <1>3, AfterEnding
  <2>2. Under(z, g) /\ Dated(g, members, given)
    BY <1>3 DEF AtEnd
  <2>3. Reads(g, Refused, g)
    BY <1>1, LeqIs DEF Reads, Names, Marks
  <2>4. Fits(z, g, counted, Refused)
    BY <1>1 DEF Fits, MemberEvent
  <2>5. Under(w, g)
    BY <1>1, <2>2, <2>3, <2>4, UnderAfter
  <2> HIDE DEF w
  <2>6. Abreast(w, counted, members, None)
    BY <2>1 DEF Abreast, BufferFrom, NoBuffer
  <2> QED
    BY <1>1, <2>2, <2>3, <2>4, <2>5, <2>6 DEF Onward, AtEnd, w
<1>4. Taken(v, s, c, Refused, members, given, FALSE, b, members, given, TRUE, None)
  BY <1>3 DEF Taken
<1>5. s \in Seq(Event) /\ Append(s, Refused) = << Refused >>
  OBVIOUS
<1> HIDE DEF s
<1> QED
  BY <1>1, <1>2, <1>4, <1>5, OneMore DEF s

-----------------------------------------------------------------------------
(* What a phone does not hear.                                             *)

LEMMA UnheardDown ==
  ASSUME NEW members \in Roster, NEW given, NEW up, NEW b, NEW members2 \in Roster,
         NEW given2, NEW b2, Advances(members, given, members2, given2)
  PROVE  Unheard(members, given, up, b, members2, given2, FALSE, b2)
  BY StaysDated DEF Unheard, AtEnd

LEMMA UnheardOutside ==
  ASSUME NEW members \in Roster, NEW given, NEW members2 \in Roster,
         NEW given2, Advances(members, given, members2, given2)
  PROVE  Unheard(members, given, TRUE, None, members2, given2, TRUE, None)
<1> SUFFICES ASSUME NEW z \in Views, NEW g \in Marks, NEW counted \in BOOLEAN,
                    AtEnd(z, g, counted, members, given, TRUE, None)
             PROVE  AtEnd(z, g, counted, members2, given2, TRUE, None)
  BY DEF Unheard
<1>1. Under(z, g) /\ Dated(g, members, given) /\ Abreast(z, counted, members, None)
  BY DEF AtEnd
<1>2. Dated(g, members2, given2)
  BY <1>1, StaysDated
<1>3. ASSUME NEW k \in MemberId, members2[k] # Absent PROVE z.buffer[k] = None
  <2>1. k \notin given \/ members[k] # Absent
    BY <1>3 DEF Advances
  <2>2. k \notin given => g[k] = Absent
    BY <1>1 DEF Dated
  <2> QED
    BY <1>1, <2>1, <2>2 DEF Under, Abreast
<1>4. Abreast(z, counted, members2, None)
  BY <1>1, <1>3 DEF Abreast, BufferFrom
<1> QED
  BY <1>1, <1>2, <1>4 DEF AtEnd

LEMMA UnheardOwn ==
  ASSUME NEW members \in Roster, NEW given, NEW b \in MemberId, NEW members2 \in Roster,
         Advances(members, given, members2, given),
         \A k \in MemberId : k # b => members2[k] = members[k]
  PROVE  Unheard(members, given, TRUE, b, members2, given, TRUE, b)
<1> SUFFICES ASSUME NEW z \in Views, NEW g \in Marks, NEW counted \in BOOLEAN,
                    AtEnd(z, g, counted, members, given, TRUE, b)
             PROVE  AtEnd(z, g, counted, members2, given, TRUE, b)
  BY DEF Unheard
<1>1. Under(z, g) /\ Dated(g, members, given) /\ Abreast(z, counted, members, b)
  BY DEF AtEnd
<1>2. Dated(g, members2, given)
  BY <1>1, StaysDated
<1>3. b # None
  BY Constants
<1>4. z.buffer[b] = None
  BY <1>1, <1>3 DEF Abreast, Under
<1>5. Abreast(z, counted, members2, b)
  BY <1>1, <1>3, <1>4 DEF Abreast, BufferFrom
<1> QED
  BY <1>1, <1>2, <1>5 DEF AtEnd

-----------------------------------------------------------------------------
(* What a phone does with what is on the way.                              *)

\* The next event is taken.
LEMMA Receives ==
  ASSUME NEW v \in Views, NEW s \in Seq(Event), NEW c \in BOOLEAN, s # << >>,
         NEW members, NEW given, NEW up, NEW b,
         Follows(v, s, c, members, given, up, b)
  PROVE  /\ Follows(After(v, Head(s)), Tail(s), c \/ Head(s).type = "room_state",
                    members, given, up, b)
         /\ \E g, h \in Marks : /\ Under(v, g) /\ Reads(g, Head(s), h)
                                /\ Fits(v, g, c, Head(s))
<1> DEFINE n == Len(s)
           e == Head(s)
           q == Tail(s)
           w == After(v, e)
           d == c \/ e.type = "room_state"
<1>1. /\ n \in Nat /\ n >= 1 /\ e = s[1] /\ e \in Event /\ q \in Seq(Event)
      /\ Len(q) = n - 1 /\ \A i \in 1 .. n - 1 : q[i] = s[i + 1]
  OBVIOUS
<1>2. PICK t, h : /\ Reading(t, h, v, s, c)
                  /\ Dated(h[n], members, given)
                  /\ up => Abreast(t[n], Counted(c, s, n), members, b)
  BY DEF Follows
<1>3. /\ t \in [0 .. n -> Views] /\ t[0] = v /\ h \in [0 .. n -> Marks] /\ Under(v, h[0])
      /\ \A i \in 1 .. n : /\ t[i] = After(t[i - 1], s[i]) /\ Reads(h[i - 1], s[i], h[i])
                           /\ Fits(t[i - 1], h[i - 1], Counted(c, s, i - 1), s[i])
  BY <1>2 DEF Reading, Trace, Heard
<1>4. Counted(c, s, 0) = c
  BY DEF Counted
<1>5. t[1] = w /\ Reads(h[0], e, h[1]) /\ Fits(v, h[0], c, e) /\ h[0] \in Marks /\ h[1] \in Marks
  <2>1. 1 \in 1 .. n /\ 1 - 1 = 0 /\ 0 \in 0 .. n /\ 1 \in 0 .. n
    BY <1>1
  <2> QED
    BY <1>1, <1>3, <1>4, <2>1
<1>6. w \in Views /\ Under(w, h[1]) /\ Sound(w, d)
  <2>1. Sound(v, c)
    BY DEF Follows
  <2> QED
    BY <1>1, <1>3, <1>5, <2>1, AfterIsView, UnderAfter, SoundAfter
<1> HIDE DEF w, e
<1> DEFINE t2 == [i \in 0 .. n - 1 |-> t[i + 1]]
           h2 == [i \in 0 .. n - 1 |-> h[i + 1]]
<1>7. \A i \in 0 .. n - 1 : i + 1 \in 0 .. n /\ i + 1 \in 1 .. n /\ (i + 1) - 1 = i
  BY <1>1
<1>8. /\ t2 \in [0 .. n - 1 -> Views] /\ t2[0] = w
      /\ h2 \in [0 .. n - 1 -> Marks] /\ Under(w, h2[0])
      /\ \A i \in 0 .. n - 1 : t2[i] = t[i + 1] /\ h2[i] = h[i + 1]
  BY <1>1, <1>3, <1>5, <1>6, <1>7
<1> HIDE DEF t2, h2, q
<1>9. \A i \in 0 .. n - 1 : Counted(d, q, i) = Counted(c, s, i + 1)
  <2> SUFFICES ASSUME NEW i \in 0 .. n - 1
               PROVE  Counted(d, q, i) <=> Counted(c, s, i + 1)
    BY DEF Counted
  <2>1. ASSUME NEW j \in 1 .. i + 1, s[j].type = "room_state"
        PROVE  e.type = "room_state" \/ \E l \in 1 .. i : q[l].type = "room_state"
    <3>1. CASE j = 1
      BY <1>1, <2>1, <3>1
    <3>2. CASE j # 1
      <4>1. j - 1 \in 1 .. i /\ j - 1 \in 1 .. n - 1 /\ (j - 1) + 1 = j
        BY <1>1, <3>2
      <4>2. q[j - 1] = s[(j - 1) + 1]
        BY <1>1, <4>1
      <4> QED
        BY <2>1, <4>1, <4>2
    <3> QED
      BY <3>1, <3>2
  <2>2. e.type = "room_state" => 1 \in 1 .. i + 1 /\ s[1].type = "room_state"
    BY <1>1
  <2>3. ASSUME NEW l \in 1 .. i, q[l].type = "room_state"
        PROVE  l + 1 \in 1 .. i + 1 /\ s[l + 1].type = "room_state"
    <3>1. l \in 1 .. n - 1 /\ l + 1 \in 1 .. i + 1
      BY <1>1
    <3> QED
      BY <1>1, <2>3, <3>1
  <2> QED
    BY <2>1, <2>2, <2>3 DEF Counted
<1>10. ASSUME NEW i \in 1 .. n - 1
       PROVE  /\ t2[i] = After(t2[i - 1], q[i]) /\ Reads(h2[i - 1], q[i], h2[i])
              /\ Fits(t2[i - 1], h2[i - 1], Counted(d, q, i - 1), q[i])
  <2>1. /\ i \in 0 .. n - 1 /\ i - 1 \in 0 .. n - 1 /\ (i - 1) + 1 = i
        /\ i + 1 \in 1 .. n /\ (i + 1) - 1 = i
    BY <1>1
  <2>2. /\ t[i + 1] = After(t[i], s[i + 1]) /\ Reads(h[i], s[i + 1], h[i + 1])
        /\ Fits(t[i], h[i], Counted(c, s, i), s[i + 1])
    BY <1>3, <2>1
  <2>3. Counted(d, q, i - 1) = Counted(c, s, i)
    BY <1>9, <2>1
  <2> QED
    BY <1>1, <1>8, <2>1, <2>2, <2>3
<1>11. Reading(t2, h2, w, q, d)
  BY <1>1, <1>8, <1>10 DEF Reading, Trace, Heard
<1>12. /\ Dated(h2[Len(q)], members, given)
       /\ up => Abreast(t2[Len(q)], Counted(d, q, Len(q)), members, b)
  <2>1. n - 1 \in 0 .. n - 1 /\ (n - 1) + 1 = n
    BY <1>1
  <2> QED
    BY <1>1, <1>2, <1>8, <1>9, <2>1
<1>13. AnswersFit(q, up, b)
  <2>1. AnswersFit(s, up, b)
    BY DEF Follows
  <2>2. \A i \in 1 .. Len(q) : i + 1 \in 1 .. n /\ q[i] = s[i + 1]
    BY <1>1
  <2>3. \A i, j \in 1 .. Len(q) : i + 1 = j + 1 => i = j
    OBVIOUS
  <2>4. ASSUME NEW i \in 1 .. Len(q) PROVE q[i].type # "refused"
    <3>1. n # 1
      BY <1>1
    <3> QED
      BY <2>1, <2>2, <3>1 DEF AnswersFit
  <2> QED
    BY <2>1, <2>2, <2>3, <2>4 DEF AnswersFit
<1>14. Follows(w, q, d, members, given, up, b)
  BY <1>6, <1>11, <1>12, <1>13 DEF Follows
<1> QED
  BY <1>3, <1>5, <1>14 DEF w, e, q

\* The connection is over for the phone: what was on the way is lost.
LEMMA Unlinks ==
  ASSUME NEW v \in Views, NEW s \in Seq(Event), NEW c \in BOOLEAN,
         NEW members \in Roster, NEW given, NEW up, NEW b,
         Follows(v, s, c, members, given, up, b),
         NEW w \in Views, NEW d \in BOOLEAN, Sound(w, d), NEW b2,
         \A g \in Marks : Under(v, g) => Under(w, g)
  PROVE  Follows(w, << >>, d, members, given, FALSE, b2)
<1> DEFINE n == Len(s)
<1>1. n \in Nat
  OBVIOUS
<1>2. PICK t, h : Reading(t, h, v, s, c) /\ Dated(h[n], members, given)
  BY DEF Follows
<1>3. h \in [0 .. n -> Marks] /\ Under(v, h[0]) /\ Heard(h, v, s)
  BY <1>2 DEF Reading, Heard
<1>4. 0 \in 0 .. n /\ n \in 0 .. n /\ h[0] \in Marks /\ h[n] \in Marks
  BY <1>1, <1>3
<1>5. Dated(h[0], members, given)
  <2> SUFFICES ASSUME NEW k \in MemberId, h[0][k] # Absent
               PROVE  k \in given /\ (members[k] # Absent => Upto(h[0][k], members[k].pos))
    BY DEF Dated
  <2>1. Leq(h[0][k], h[n][k])
    BY <1>3, <1>4, MarksRise
  <2>2. h[n][k] # Absent /\ Upto(h[0][k], h[n][k])
    BY <2>1 DEF Leq
  <2>3. k \in given /\ (members[k] # Absent => Upto(h[n][k], members[k].pos))
    BY <1>2, <2>2 DEF Dated
  <2>4. /\ h[0][k] \in Position \cup {None, Absent} /\ h[n][k] \in Position \cup {None, Absent}
        /\ members[k] # Absent => members[k].pos \in Position \cup {None}
    BY <1>4 DEF Marks, Roster, Card
  <2> QED
    BY <2>2, <2>3, <2>4, UptoIs
<1> DEFINE t2 == [i \in 0 .. 0 |-> w]
           h2 == [i \in 0 .. 0 |-> h[0]]
<1>6. /\ t2 \in [0 .. 0 -> Views] /\ t2[0] = w /\ h2 \in [0 .. 0 -> Marks] /\ h2[0] = h[0]
  BY <1>4
<1> HIDE DEF t2, h2
<1>7. Reading(t2, h2, w, << >>, d)
  BY <1>3, <1>4, <1>6 DEF Reading, Trace, Heard
<1>8. AnswersFit(<< >>, FALSE, b2)
  BY DEF AnswersFit
<1>9. Len(<< >>) = 0
  OBVIOUS
<1> QED
  BY <1>5, <1>6, <1>7, <1>8, <1>9 DEF Follows

-----------------------------------------------------------------------------
(* A flush, or a fix of the phone's own, while events are on the way.      *)

\* Two views that differ in what waits for a flush, or in the phone's own card.
Same(v, w) ==
  /\ w.session = v.session
  /\ \A k \in MemberId : w.buffer[k] \in {None, v.buffer[k]}
  /\ \A k \in MemberId : k # v.session =>
       Now(w.roster[k], w.buffer[k]) = Now(v.roster[k], v.buffer[k])

LEMMA NowParts ==
  ASSUME NEW card \in Card \cup {Absent}, NEW card2 \in Card \cup {Absent},
         NEW x \in Position \cup {None}, NEW y \in Position \cup {None}
  PROVE  Now(card, x) = Now(card2, y) <=>
           /\ card = Absent <=> card2 = Absent
           /\ card # Absent =>
                /\ card.connected = card2.connected
                /\ (IF x = None THEN card.pos ELSE x) = (IF y = None THEN card2.pos ELSE y)
<1> DEFINE A == [connected |-> card.connected, pos |-> IF x = None THEN card.pos ELSE x]
           B == [connected |-> card2.connected, pos |-> IF y = None THEN card2.pos ELSE y]
<1>1. /\ card # Absent => card \in Card
      /\ card2 # Absent => card2 \in Card
      /\ card # Absent => A \in Card
      /\ card2 # Absent => B \in Card
  BY DEF Card
<1>2. card # Absent => Now(card, x) = A
  BY <1>1 DEF Now, Card
<1>3. card2 # Absent => Now(card2, y) = B
  BY <1>1 DEF Now, Card
<1>4. card = Absent => Now(card, x) = Absent
  BY DEF Now
<1>5. card2 = Absent => Now(card2, y) = Absent
  BY DEF Now
<1>6. /\ card # Absent => Now(card, x) # Absent
      /\ card2 # Absent => Now(card2, y) # Absent
  BY <1>1, <1>2, <1>3, Constants
<1>7. A = B <=> /\ card.connected = card2.connected
                /\ (IF x = None THEN card.pos ELSE x) = (IF y = None THEN card2.pos ELSE y)
  OBVIOUS
<1> QED
  BY <1>2, <1>3, <1>4, <1>5, <1>6, <1>7

LEMMA SameIs ==
  ASSUME NEW v \in Views, NEW w \in Views, Same(v, w), NEW k \in MemberId
  PROVE  /\ w.buffer[k] = None \/ w.buffer[k] = v.buffer[k]
         /\ k # v.session =>
              /\ w.roster[k] = Absent <=> v.roster[k] = Absent
              /\ v.roster[k] # Absent =>
                   /\ w.roster[k].connected = v.roster[k].connected
                   /\ (IF w.buffer[k] = None THEN w.roster[k].pos ELSE w.buffer[k])
                        = (IF v.buffer[k] = None THEN v.roster[k].pos ELSE v.buffer[k])
<1>1. /\ w.roster[k] \in Card \cup {Absent} /\ v.roster[k] \in Card \cup {Absent}
      /\ w.buffer[k] \in Position \cup {None} /\ v.buffer[k] \in Position \cup {None}
  BY ViewIs
<1>2. k # v.session => Now(w.roster[k], w.buffer[k]) = Now(v.roster[k], v.buffer[k])
  BY DEF Same
<1>3. w.buffer[k] = None \/ w.buffer[k] = v.buffer[k]
  BY DEF Same
<1> QED
  BY <1>1, <1>2, <1>3, NowParts

LEMMA SameBuffers ==
  ASSUME NEW v \in Views, NEW w \in Views, Same(v, w), NEW g \in Marks, Under(v, g),
         NEW members \in Roster, BufferFrom(v, members)
  PROVE  BufferFrom(w, members)
<1> SUFFICES ASSUME NEW k \in MemberId, members[k] # Absent, w.buffer[k] # None
             PROVE  w.roster[k] # Absent /\ w.buffer[k] = members[k].pos
  BY DEF BufferFrom
<1>1. w.buffer[k] = v.buffer[k]
  BY DEF Same
<1>2. k # v.session
  BY <1>1 DEF Under
<1>3. v.roster[k] # Absent /\ v.buffer[k] = members[k].pos
  BY <1>1 DEF BufferFrom
<1> QED
  BY <1>1, <1>2, <1>3, SameIs

LEMMA SnapshotOfOthers ==
  ASSUME NEW members \in Roster, NEW v \in Views, NEW m, v.session = m \/ v.session = None
  PROVE  \A k \in MemberId : k # m => Snapshot(members, v.roster, v.session)[k] = members[k]
<1>1. v.session \in MemberId \cup {None} /\ v.roster \in Roster
  BY ViewIs
<1>2. v.session = None => Snapshot(members, v.roster, v.session) = members
  BY <1>1, SnapshotIs
<1>3. \A k \in MemberId :
        k # v.session => Snapshot(members, v.roster, v.session)[k] = members[k]
  BY <1>1, SnapshotIs
<1> QED
  BY <1>2, <1>3

LEMMA SameAfter ==
  ASSUME NEW v \in Views, NEW w \in Views, Same(v, w), NEW e \in Event,
         NEW g \in Marks, NEW h \in Marks, NEW counted \in BOOLEAN,
         Under(v, g), Reads(g, e, h), Fits(v, g, counted, e)
  PROVE  Same(After(v, e), After(w, e)) /\ Fits(w, g, counted, e)
<1> DEFINE x == After(v, e)
           y == After(w, e)
<1>1. w.session = v.session
  BY DEF Same
<1>2. \A k \in MemberId : k # v.session => (w.roster[k] = Absent <=> v.roster[k] = Absent)
  BY SameIs
<1>3. \A k \in MemberId : w.buffer[k] = None \/ w.buffer[k] = v.buffer[k]
  BY SameIs
<1>4. Fits(w, g, counted, e)
  <2>1. e.type = "room_state" => BufferFrom(w, e.members)
    BY EventIs, SameBuffers DEF Fits
  <2>2. e.type = "member_position" => e.id \in MemberId
    BY EventIs
  <2>3. /\ counted /\ v.session = None => e.type \notin MemberEvent
        /\ e.type = "room_state" =>
             /\ e.members[e.self] # Absent
             /\ v.session = e.self \/ (v.session = None /\ g[e.self] = Absent)
        /\ e.type = "member_position" =>
             e.id # v.session /\ (counted => v.roster[e.id] # Absent)
    BY DEF Fits
  <2> QED
    BY <1>1, <1>2, <2>1, <2>2, <2>3 DEF Fits
<1>5. ASSUME NEW k \in MemberId
      PROVE  /\ v.roster[k] \in Card \cup {Absent} /\ w.roster[k] \in Card \cup {Absent}
             /\ v.buffer[k] \in Position \cup {None} /\ w.buffer[k] \in Position \cup {None}
             /\ k # v.session => Now(w.roster[k], w.buffer[k]) = Now(v.roster[k], v.buffer[k])
  BY ViewIs DEF Same
<1>6. x \in Views /\ y \in Views
  BY AfterIsView
<1> HIDE DEF x, y
<1>7. CASE e.type = "room_state"
  <2>1. /\ x.session = e.self /\ x.buffer = v.buffer
        /\ x.roster = Snapshot(e.members, v.roster, v.session)
        /\ y.session = e.self /\ y.buffer = w.buffer
        /\ y.roster = Snapshot(e.members, w.roster, v.session)
        /\ e.self \in MemberId /\ e.members \in Roster
    BY <1>1, <1>7, AfterRoomState, EventIs DEF x, y
  <2>2. v.session = e.self \/ v.session = None
    BY <1>7 DEF Fits
  <2>3. \A k \in MemberId : k # e.self => x.roster[k] = e.members[k]
    BY <2>1, <2>2, SnapshotOfOthers
  <2>4. \A k \in MemberId : k # e.self => y.roster[k] = e.members[k]
    BY <1>1, <2>1, <2>2, SnapshotOfOthers
  <2>5. ASSUME NEW k \in MemberId, k # e.self
        PROVE  Now(y.roster[k], y.buffer[k]) = Now(x.roster[k], x.buffer[k])
    <3>1. e.members[k] # Absent /\ v.buffer[k] # None => v.buffer[k] = e.members[k].pos
      BY <1>7 DEF Fits, BufferFrom
    <3>2. e.members[k] # Absent => e.members[k] \in Card
      BY <2>1 DEF Roster
    <3>3. Now(e.members[k], v.buffer[k]) = e.members[k]
      BY <3>1, <3>2, SamePos DEF Now
    <3>4. Now(e.members[k], w.buffer[k]) = e.members[k]
      BY <1>3, <3>1, <3>2, SamePos DEF Now
    <3> QED
      BY <2>1, <2>3, <2>4, <2>5, <3>3, <3>4
  <2> QED
    BY <1>3, <1>4, <2>1, <2>5 DEF Same, x, y
<1>8. CASE e.type \in {"refused", "room_closed"}
  <2>1. /\ x.session = None /\ x.roster = Nobody /\ x.buffer = v.buffer
        /\ y.session = None /\ y.roster = Nobody /\ y.buffer = w.buffer
    BY <1>8, AfterEnding DEF x, y
  <2>2. \A k \in MemberId : Nobody[k] = Absent
    BY DEF Nobody
  <2> QED
    BY <1>3, <1>4, <2>1, <2>2 DEF Same, x, y, Now
<1>9. CASE e.type = "member_joined"
  <2>1. /\ x.session = v.session /\ x.buffer = v.buffer
        /\ y.session = v.session /\ y.buffer = w.buffer
        /\ e.id \in MemberId /\ e.card \in Card
    BY <1>1, <1>9, AfterJoined DEF x, y
  <2>2. \A k \in MemberId : /\ x.roster[k] = IF k = e.id THEN e.card ELSE v.roster[k]
                            /\ y.roster[k] = IF k = e.id THEN e.card ELSE w.roster[k]
    <3>1. /\ x.roster = [v.roster EXCEPT ![e.id] = e.card]
          /\ y.roster = [w.roster EXCEPT ![e.id] = e.card]
      BY <1>9, AfterJoined DEF x, y
    <3>2. v.roster \in Roster /\ w.roster \in Roster
      BY ViewIs
    <3> QED
      BY <2>1, <3>1, <3>2 DEF Roster
  <2>3. v.buffer[e.id] = None /\ w.buffer[e.id] = None
    BY <1>3, <1>9, <2>1 DEF Reads, Under
  <2>4. ASSUME NEW k \in MemberId, k # v.session
        PROVE  Now(y.roster[k], y.buffer[k]) = Now(x.roster[k], x.buffer[k])
    BY <1>5, <2>1, <2>2, <2>3, <2>4
  <2> QED
    BY <1>3, <1>4, <2>1, <2>4 DEF Same, x, y
<1>10. CASE e.type = "member_left"
  <2>1. /\ x.session = v.session /\ x.buffer = v.buffer
        /\ y.session = v.session /\ y.buffer = w.buffer
        /\ e.id \in MemberId
    BY <1>1, <1>10, AfterLeft DEF x, y
  <2>2. \A k \in MemberId : /\ x.roster[k] = IF k = e.id THEN Absent ELSE v.roster[k]
                            /\ y.roster[k] = IF k = e.id THEN Absent ELSE w.roster[k]
    <3>1. /\ x.roster = [v.roster EXCEPT ![e.id] = Absent]
          /\ y.roster = [w.roster EXCEPT ![e.id] = Absent]
      BY <1>10, AfterLeft DEF x, y
    <3>2. v.roster \in Roster /\ w.roster \in Roster
      BY ViewIs
    <3> QED
      BY <2>1, <3>1, <3>2 DEF Roster
  <2>3. ASSUME NEW k \in MemberId, k # v.session
        PROVE  Now(y.roster[k], y.buffer[k]) = Now(x.roster[k], x.buffer[k])
    <3>1. CASE k = e.id
      BY <2>2, <3>1 DEF Now
    <3>2. CASE k # e.id
      BY <1>5, <2>1, <2>2, <2>3, <3>2
    <3> QED
      BY <3>1, <3>2
  <2> QED
    BY <1>3, <1>4, <2>1, <2>3 DEF Same, x, y
<1>11. CASE e.type = "member_updated"
  <2>1. /\ x.session = v.session /\ x.buffer = v.buffer /\ x.roster = WithUpdated(v.roster, e)
        /\ y.session = v.session /\ y.buffer = w.buffer /\ y.roster = WithUpdated(w.roster, e)
        /\ e.id \in MemberId /\ e.connected \in BOOLEAN
    BY <1>1, <1>11, AfterUpdated DEF x, y
  <2>2. ASSUME NEW k \in MemberId, k # v.session
        PROVE  Now(y.roster[k], y.buffer[k]) = Now(x.roster[k], x.buffer[k])
    <3>0. v.roster \in Roster /\ w.roster \in Roster
      BY ViewIs
    <3>1. CASE k # e.id
      <4>1. x.roster[k] = v.roster[k] /\ y.roster[k] = w.roster[k]
        BY <2>1, <3>0, <3>1, WithUpdatedIs
      <4> QED
        BY <1>5, <2>1, <2>2, <4>1
    <3>2. CASE k = e.id
      <4>1. /\ x.roster[k] = Absent <=> v.roster[k] = Absent
            /\ y.roster[k] = Absent <=> w.roster[k] = Absent
            /\ v.roster[k] # Absent => /\ x.roster[k].pos = v.roster[k].pos
                                       /\ x.roster[k].connected = e.connected
            /\ w.roster[k] # Absent => /\ y.roster[k].pos = w.roster[k].pos
                                       /\ y.roster[k].connected = e.connected
        BY <2>1, <3>0, <3>2, WithUpdatedIs
      <4>2. x.roster[k] \in Card \cup {Absent} /\ y.roster[k] \in Card \cup {Absent}
        BY <1>6, ViewIs
      <4>3. /\ w.roster[k] = Absent <=> v.roster[k] = Absent
            /\ v.roster[k] # Absent =>
                 (IF w.buffer[k] = None THEN w.roster[k].pos ELSE w.buffer[k])
                   = (IF v.buffer[k] = None THEN v.roster[k].pos ELSE v.buffer[k])
        BY <2>2, SameIs
      <4> QED
        BY <1>5, <2>1, <4>1, <4>2, <4>3, NowParts
    <3> QED
      BY <3>1, <3>2
  <2> QED
    BY <1>3, <1>4, <2>1, <2>2 DEF Same, x, y
<1>12. CASE e.type = "member_position"
  <2>1. /\ x.session = v.session /\ x.roster = v.roster
        /\ y.session = v.session /\ y.roster = w.roster
        /\ e.id \in MemberId /\ e.pos \in Position
        /\ v.roster[e.id] = Absent => x.buffer = v.buffer
        /\ v.roster[e.id] # Absent => x.buffer = [v.buffer EXCEPT ![e.id] = e.pos]
        /\ w.roster[e.id] = Absent => y.buffer = w.buffer
        /\ w.roster[e.id] # Absent => y.buffer = [w.buffer EXCEPT ![e.id] = e.pos]
    BY <1>1, <1>12, AfterPosition DEF x, y
  <2>2. e.id # v.session
    BY <1>12 DEF Fits
  <2>3. w.roster[e.id] = Absent <=> v.roster[e.id] = Absent
    BY <1>2, <2>1, <2>2
  <2>4. \A k \in MemberId :
          /\ x.buffer[k] = IF k = e.id /\ v.roster[k] # Absent THEN e.pos ELSE v.buffer[k]
          /\ y.buffer[k] = IF k = e.id /\ v.roster[k] # Absent THEN e.pos ELSE w.buffer[k]
    BY <2>1, <2>3, ViewIs
  <2>5. ASSUME NEW k \in MemberId, k # v.session
        PROVE  Now(y.roster[k], y.buffer[k]) = Now(x.roster[k], x.buffer[k])
    <3>1. CASE k # e.id \/ v.roster[k] = Absent
      BY <1>5, <2>1, <2>4, <2>5, <3>1
    <3>2. CASE k = e.id /\ v.roster[k] # Absent
      <4>1. w.roster[k] # Absent /\ w.roster[k].connected = v.roster[k].connected
        BY <2>2, <3>2, SameIs
      <4>2. y.buffer[k] = e.pos /\ x.buffer[k] = e.pos /\ e.pos # None
            /\ e.pos \in Position \cup {None}
        BY <2>1, <2>4, <3>2, Constants
      <4> QED
        BY <1>5, <2>1, <3>2, <4>1, <4>2, NowParts
    <3> QED
      BY <3>1, <3>2
  <2> QED
    BY <1>3, <1>4, <2>1, <2>4, <2>5 DEF Same, x, y
<1> QED
  BY <1>7, <1>8, <1>9, <1>10, <1>11, <1>12, EventIs

LEMMA SameAbreast ==
  ASSUME NEW v \in Views, NEW w \in Views, Same(v, w), NEW g \in Marks, Under(v, g),
         NEW counted \in BOOLEAN, NEW members \in Roster, NEW b \in MemberId \cup {None},
         Abreast(v, counted, members, b)
  PROVE  Abreast(w, counted, members, b)
<1>1. BufferFrom(w, members)
  BY SameBuffers DEF Abreast
<1>2. w.session = v.session
  BY DEF Same
<1>3. \A k \in MemberId : v.buffer[k] = None => w.buffer[k] = None
  BY SameIs
<1>4. ASSUME b # None, v.session = None, v.roster[b] = Absent PROVE w.roster[b] = Absent
  BY <1>4, SameIs
<1>5. ASSUME counted, b # None, NEW k \in MemberId \ {b}
      PROVE  Now(w.roster[k], w.buffer[k]) = members[k]
  <2>1. v.session = b /\ Now(v.roster[k], v.buffer[k]) = members[k]
    BY <1>5 DEF Abreast
  <2> QED
    BY <1>5, <2>1 DEF Same
<1> QED
  BY <1>1, <1>2, <1>3, <1>4, <1>5 DEF Abreast

\* The queue reads the same for both.
LEMMA SameFollows ==
  ASSUME NEW v \in Views, NEW w \in Views, Same(v, w),
         NEW s \in Seq(Event), NEW c \in BOOLEAN, NEW members \in Roster, NEW given, NEW up,
         NEW b \in MemberId \cup {None}, Follows(v, s, c, members, given, up, b),
         Sound(w, c), \A g \in Marks : Under(v, g) => Under(w, g)
  PROVE  Follows(w, s, c, members, given, up, b)
<1> DEFINE n == Len(s)
<1>1. n \in Nat /\ \A i \in 1 .. n : s[i] \in Event
  OBVIOUS
<1>2. PICK t, h : /\ Reading(t, h, v, s, c)
                  /\ Dated(h[n], members, given)
                  /\ up => Abreast(t[n], Counted(c, s, n), members, b)
  BY DEF Follows
<1>3. PICK u : Trace(u, w, s)
  BY TraceExists
<1>4. /\ t \in [0 .. n -> Views] /\ t[0] = v /\ h \in [0 .. n -> Marks]
      /\ u \in [0 .. n -> Views] /\ u[0] = w
      /\ Under(v, h[0])
      /\ \A i \in 1 .. n :
           /\ t[i] = After(t[i - 1], s[i]) /\ Reads(h[i - 1], s[i], h[i])
           /\ Fits(t[i - 1], h[i - 1], Counted(c, s, i - 1), s[i])
           /\ u[i] = After(u[i - 1], s[i])
  BY <1>2, <1>3 DEF Reading, Trace, Heard
<1>5. \A i \in 0 .. n : Under(t[i], h[i])
  BY <1>2, UnderAlong
<1>6. \A i \in 0 .. n : Counted(c, s, i) \in BOOLEAN
  BY DEF Counted
<1>7. ASSUME NEW i \in 1 .. n, Same(t[i - 1], u[i - 1])
      PROVE  Same(t[i], u[i]) /\ Fits(u[i - 1], h[i - 1], Counted(c, s, i - 1), s[i])
  <2>1. i - 1 \in 0 .. n /\ i \in 0 .. n
    BY <1>1
  <2>2. /\ t[i - 1] \in Views /\ u[i - 1] \in Views /\ h[i - 1] \in Marks /\ h[i] \in Marks
        /\ s[i] \in Event /\ Counted(c, s, i - 1) \in BOOLEAN /\ Under(t[i - 1], h[i - 1])
    BY <1>1, <1>4, <1>5, <1>6, <2>1
  <2> QED
    BY <1>4, <1>7, <2>2, SameAfter
<1> DEFINE T == {i \in 0 .. n : Same(t[i], u[i])}
<1>8. 0 \in T
  BY <1>1, <1>4
<1>9. ASSUME NEW i \in 0 .. n, i # n, i \in T PROVE i + 1 \in T
  <2>1. i + 1 \in 1 .. n /\ (i + 1) - 1 = i /\ i + 1 \in 0 .. n
    BY <1>1, <1>9
  <2> QED
    BY <1>7, <1>9, <2>1
<1>10. 0 .. n \subseteq T
  <2> HIDE DEF T
  <2> QED
    BY <1>1, <1>8, <1>9, Along
<1>11. \A i \in 0 .. n : Same(t[i], u[i])
  BY <1>10
<1>12. \A i \in 1 .. n : Fits(u[i - 1], h[i - 1], Counted(c, s, i - 1), s[i])
  <2> SUFFICES ASSUME NEW i \in 1 .. n
               PROVE  Fits(u[i - 1], h[i - 1], Counted(c, s, i - 1), s[i])
    OBVIOUS
  <2>1. i - 1 \in 0 .. n
    BY <1>1
  <2> QED
    BY <1>7, <1>11, <2>1
<1>13. Under(w, h[0])
  BY <1>1, <1>4
<1>14. Reading(u, h, w, s, c)
  BY <1>1, <1>2, <1>3, <1>12, <1>13 DEF Reading, Heard
<1>15. up => Abreast(u[n], Counted(c, s, n), members, b)
  <2>1. /\ n \in 0 .. n /\ t[n] \in Views /\ u[n] \in Views /\ h[n] \in Marks
        /\ Under(t[n], h[n]) /\ Same(t[n], u[n]) /\ Counted(c, s, n) \in BOOLEAN
    BY <1>1, <1>4, <1>5, <1>6, <1>11
  <2> QED
    BY <1>2, <2>1, SameAbreast
<1>16. AnswersFit(s, up, b)
  BY DEF Follows
<1> QED
  BY <1>2, <1>14, <1>15, <1>16 DEF Follows

\* A view after a flush.
LEMMA FlushedIs ==
  ASSUME NEW v \in Views, NEW c \in BOOLEAN, Sound(v, c)
  PROVE  /\ Flushed(v) \in Views /\ Flushed(v).session = v.session
         /\ Flushed(v).buffer = NoBuffer /\ Flushed(v).roster = WithBuffer(v.roster, v.buffer)
         /\ Same(v, Flushed(v)) /\ Sound(Flushed(v), c)
         /\ \A g \in Marks : Under(v, g) => Under(Flushed(v), g)
<1> DEFINE x == [v EXCEPT !.buffer = NoBuffer]
           members == WithBuffer(v.roster, v.buffer)
           w == Flushed(v)
<1>1. NoBuffer \in [MemberId -> Position \cup {None}] /\ \A k \in MemberId : NoBuffer[k] = None
  BY DEF NoBuffer
<1>2. /\ x \in Views /\ x.session = v.session /\ x.roster = v.roster /\ x.shown = v.shown
      /\ x.buffer = NoBuffer
  BY <1>1 DEF Views
<1>3. /\ v.roster \in Roster /\ v.shown \in Roster
      /\ v.buffer \in [MemberId -> Position \cup {None}]
      /\ \A k \in MemberId : v.buffer[k] \in Position \cup {None}
      /\ \A k \in MemberId : v.roster[k] \in Card \cup {Absent}
  BY ViewIs
<1>4. members \in Roster
  <2>1. CASE MemberId = {}
    BY <2>1 DEF WithBuffer, Roster
  <2>2. CASE MemberId # {}
    BY <1>3, <2>2, NowIs
  <2> QED
    BY <2>1, <2>2
<1>5. \A k \in MemberId : members[k] = Now(v.roster[k], v.buffer[k])
  BY <1>3, NowIs
<1>6. \A k \in MemberId : members[k] = Absent <=> v.roster[k] = Absent
  BY <1>3, <1>5, NowIs
<1> HIDE DEF x, members
<1>7. /\ w \in Views /\ w.session = v.session /\ w.roster = members /\ w.buffer = NoBuffer
      /\ w.shown = Drawn(members, v.shown, v.session)
  <2>1. w = WithRoster(x, members)
    BY DEF Flushed, x, members
  <2> HIDE DEF w
  <2> QED
    BY <1>2, <1>4, <2>1, WithRosterIs
<1> HIDE DEF w
<1>8. Same(v, w)
  BY <1>1, <1>5, <1>7 DEF Same, Now
<1>9. Sound(w, c)
  <2>1. Nobody \in Roster /\ \A k \in MemberId : Nobody[k] = Absent
    BY DEF Nobody, Roster
  <2>2. ASSUME NEW k \in MemberId
        PROVE  Drawn(members, v.shown, v.session)[k] = Drawn(members, Nobody, v.session)[k]
    <3>1. v.shown[k] = IF v.roster[k] = Absent THEN Absent
                       ELSE IF k = v.session \/ v.roster[k].pos = None THEN Nobody[k]
                       ELSE v.roster[k]
      BY <1>3, <2>1, DrawnIs DEF Sound
    <3>2. v.roster[k] # Absent =>
            members[k].pos = IF v.buffer[k] = None THEN v.roster[k].pos ELSE v.buffer[k]
      BY <1>3, <1>5 DEF Now, Card
    <3>3. members[k] = Absent \/ k = v.session \/ members[k].pos # None \/ v.shown[k] = Nobody[k]
      BY <1>6, <2>1, <3>1, <3>2
    <3>4. k = v.session => v.shown[k] = Nobody[k]
      BY <2>1, <3>1
    <3>5. Drawn(members, v.shown, v.session)[k]
            = IF members[k] = Absent THEN Absent
              ELSE IF k = v.session \/ members[k].pos = None THEN v.shown[k] ELSE members[k]
      BY <1>3, <1>4, DrawnIs
    <3>6. Drawn(members, Nobody, v.session)[k]
            = IF members[k] = Absent THEN Absent
              ELSE IF k = v.session \/ members[k].pos = None THEN Nobody[k] ELSE members[k]
      BY <1>4, <2>1, DrawnIs
    <3> QED
      BY <3>3, <3>4, <3>5, <3>6
  <2>3. /\ Drawn(members, v.shown, v.session) \in Roster
        /\ Drawn(members, Nobody, v.session) \in Roster
    BY <1>3, <1>4, <2>1, DrawnIs
  <2>4. Drawn(members, v.shown, v.session) = Drawn(members, Nobody, v.session)
    BY <2>2, <2>3 DEF Roster
  <2>5. ASSUME c, v.session = None PROVE members = Nobody
    <3>1. \A k \in MemberId : members[k] = Nobody[k]
      BY <1>6, <2>1, <2>5 DEF Sound
    <3> QED
      BY <1>4, <2>1, <3>1 DEF Roster
  <2> QED
    BY <1>1, <1>7, <2>4, <2>5 DEF Sound
<1>10. ASSUME NEW g \in Marks, Under(v, g) PROVE Under(w, g)
  <2> SUFFICES ASSUME NEW k \in MemberId
               PROVE  /\ k = w.session => g[k] # Absent /\ w.buffer[k] = None
                      /\ w.buffer[k] # None => g[k] # Absent /\ Upto(w.buffer[k], g[k])
                      /\ w.roster[k] # Absent =>
                           g[k] # Absent /\ (k # w.session => Upto(w.roster[k].pos, g[k]))
    BY DEF Under
  <2>1. v.roster[k] # Absent =>
          members[k].pos = IF v.buffer[k] = None THEN v.roster[k].pos ELSE v.buffer[k]
    BY <1>3, <1>5 DEF Now, Card
  <2>2. /\ k = v.session => g[k] # Absent
        /\ v.buffer[k] # None => Upto(v.buffer[k], g[k])
        /\ v.roster[k] # Absent =>
             g[k] # Absent /\ (k # v.session => Upto(v.roster[k].pos, g[k]))
    BY <1>10 DEF Under
  <2> QED
    BY <1>1, <1>6, <1>7, <2>1, <2>2
<1> QED
  BY <1>7, <1>8, <1>9, <1>10 DEF members, w

-----------------------------------------------------------------------------
(* An answer that comes too late is taken out of the queue.                *)

\* Two views, the first of which has read the answer.
Late(v, w) ==
  /\ w.session \in {None, v.session}
  /\ v.session # None =>
       \/ w.session = v.session
       \/ w.session = None /\ w.roster[v.session] = Absent /\ w.buffer[v.session] = None
  /\ \A k \in MemberId :
       /\ w.buffer[k] \in {None, v.buffer[k]}
       /\ v.roster[k] # Absent /\ w.buffer[k] # None => w.roster[k] # Absent

LEMMA LateStart ==
  ASSUME NEW v \in Views, NEW e \in Event, e.type = "room_state", NEW g \in Marks,
         NEW counted \in BOOLEAN, Under(v, g), Fits(v, g, counted, e)
  PROVE  Late(After(v, e), v)
<1> DEFINE x == After(v, e)
<1>1. /\ x.session = e.self /\ x.buffer = v.buffer
      /\ x.roster = Snapshot(e.members, v.roster, v.session)
      /\ e.self \in MemberId /\ e.members \in Roster
  BY AfterRoomState, EventIs
<1>2. /\ v.session = e.self \/ (v.session = None /\ g[e.self] = Absent)
      /\ BufferFrom(v, e.members)
  BY DEF Fits
<1> HIDE DEF x
<1>3. \A k \in MemberId : k # e.self => x.roster[k] = e.members[k]
  BY <1>1, <1>2, SnapshotOfOthers
<1>4. v.buffer[e.self] = None /\ (v.session = None => v.roster[e.self] = Absent)
  BY <1>1, <1>2, Constants DEF Under
<1>5. ASSUME NEW k \in MemberId, x.roster[k] # Absent, v.buffer[k] # None
      PROVE  v.roster[k] # Absent
  BY <1>2, <1>3, <1>4, <1>5 DEF BufferFrom
<1>6. Late(x, v)
  BY <1>1, <1>2, <1>4, <1>5 DEF Late
<1> QED
  BY <1>6 DEF x

LEMMA LateAfter ==
  ASSUME NEW v \in Views, NEW w \in Views, Late(v, w),
         NEW e \in Event, e.type \notin Answer, NEW g \in Marks, NEW h \in Marks,
         Under(v, g), Reads(g, e, h), Fits(v, g, TRUE, e)
  PROVE  Late(After(v, e), After(w, e)) /\ \A g2 : Fits(w, g2, FALSE, e)
<1> DEFINE x == After(v, e)
           y == After(w, e)
<1>1. ASSUME NEW g2 PROVE Fits(w, g2, FALSE, e)
  <2>1. e.type # "room_state"
    BY DEF Answer
  <2>2. e.type = "member_position" => e.id \in MemberId /\ e.id # v.session
    BY EventIs DEF Fits
  <2>3. w.session = None \/ w.session = v.session
    BY DEF Late
  <2> QED
    BY <2>1, <2>2, <2>3, Constants DEF Fits
<1>2. /\ w.session = None \/ w.session = v.session
      /\ v.session # None =>
           \/ w.session = v.session
           \/ w.session = None /\ w.roster[v.session] = Absent /\ w.buffer[v.session] = None
  BY DEF Late
<1>3. \A k \in MemberId :
        /\ w.buffer[k] = None \/ w.buffer[k] = v.buffer[k]
        /\ v.roster[k] # Absent /\ w.buffer[k] # None => w.roster[k] # Absent
  BY DEF Late
<1>4. v.roster \in Roster /\ w.roster \in Roster /\ v.session \in MemberId \cup {None}
  BY ViewIs
<1> HIDE DEF x, y
<1>5. CASE e.type = "room_closed"
  <2>1. /\ x.session = None /\ x.roster = Nobody /\ x.buffer = v.buffer
        /\ y.session = None /\ y.roster = Nobody /\ y.buffer = w.buffer
    BY <1>5, AfterEnding DEF x, y
  <2>2. \A k \in MemberId : Nobody[k] = Absent
    BY DEF Nobody
  <2> QED
    BY <1>1, <1>3, <2>1, <2>2 DEF Late, x, y
<1>6. CASE e.type = "member_joined"
  <2>1. /\ x.session = v.session /\ x.buffer = v.buffer
        /\ x.roster = [v.roster EXCEPT ![e.id] = e.card]
        /\ y.session = w.session /\ y.buffer = w.buffer
        /\ y.roster = [w.roster EXCEPT ![e.id] = e.card]
        /\ e.id \in MemberId /\ e.card \in Card
    BY <1>6, AfterJoined DEF x, y
  <2>2. \A k \in MemberId : /\ x.roster[k] = IF k = e.id THEN e.card ELSE v.roster[k]
                            /\ y.roster[k] = IF k = e.id THEN e.card ELSE w.roster[k]
    BY <1>4, <2>1 DEF Roster
  <2>3. e.id # v.session /\ e.card # Absent
    BY <1>6, <2>1, Constants DEF Reads, Under
  <2>4. v.session # None =>
           \/ y.session = x.session
           \/ y.session = None /\ y.roster[x.session] = Absent /\ y.buffer[x.session] = None
    BY <1>2, <1>4, <2>1, <2>2, <2>3
  <2> QED
    BY <1>1, <1>2, <1>3, <2>1, <2>2, <2>3, <2>4, ZenonT(60) DEF Late, x, y
<1>7. CASE e.type = "member_left"
  <2>1. /\ x.session = v.session /\ x.buffer = v.buffer
        /\ x.roster = [v.roster EXCEPT ![e.id] = Absent]
        /\ y.session = w.session /\ y.buffer = w.buffer
        /\ y.roster = [w.roster EXCEPT ![e.id] = Absent]
        /\ e.id \in MemberId
    BY <1>7, AfterLeft DEF x, y
  <2>2. \A k \in MemberId : /\ x.roster[k] = IF k = e.id THEN Absent ELSE v.roster[k]
                            /\ y.roster[k] = IF k = e.id THEN Absent ELSE w.roster[k]
    BY <1>4, <2>1 DEF Roster
  <2>3. v.session # None =>
           \/ y.session = x.session
           \/ y.session = None /\ y.roster[x.session] = Absent /\ y.buffer[x.session] = None
    BY <1>2, <1>4, <2>1, <2>2
  <2> QED
    BY <1>1, <1>2, <1>3, <2>1, <2>2, <2>3, ZenonT(60) DEF Late, x, y
<1>8. CASE e.type = "member_updated"
  <2>1. /\ x.session = v.session /\ x.buffer = v.buffer /\ x.roster = WithUpdated(v.roster, e)
        /\ y.session = w.session /\ y.buffer = w.buffer /\ y.roster = WithUpdated(w.roster, e)
        /\ e.id \in MemberId /\ e.connected \in BOOLEAN
    BY <1>8, AfterUpdated DEF x, y
  <2>2. \A k \in MemberId : x.roster[k] = Absent <=> v.roster[k] = Absent
    BY <1>4, <2>1, WithUpdatedIs
  <2>3. \A k \in MemberId : y.roster[k] = Absent <=> w.roster[k] = Absent
    BY <1>4, <2>1, WithUpdatedIs
  <2>4. v.session # None =>
           \/ y.session = x.session
           \/ y.session = None /\ y.roster[x.session] = Absent /\ y.buffer[x.session] = None
    BY <1>2, <1>4, <2>1, <2>3
  <2> QED
    BY <1>1, <1>2, <1>3, <2>1, <2>2, <2>3, <2>4 DEF Late, x, y
<1>9. CASE e.type = "member_position"
  <2>1. /\ x.session = v.session /\ x.roster = v.roster
        /\ y.session = w.session /\ y.roster = w.roster
        /\ e.id \in MemberId /\ e.pos \in Position
        /\ v.roster[e.id] # Absent => x.buffer = [v.buffer EXCEPT ![e.id] = e.pos]
        /\ w.roster[e.id] = Absent => y.buffer = w.buffer
        /\ w.roster[e.id] # Absent => y.buffer = [w.buffer EXCEPT ![e.id] = e.pos]
    BY <1>9, AfterPosition DEF x, y
  <2>2. e.id # v.session /\ v.roster[e.id] # Absent
    BY <1>9 DEF Fits
  <2>3. \A k \in MemberId :
          /\ x.buffer[k] = IF k = e.id THEN e.pos ELSE v.buffer[k]
          /\ y.buffer[k] = IF k = e.id /\ w.roster[k] # Absent THEN e.pos ELSE w.buffer[k]
    BY <2>1, <2>2, ViewIs
  <2>4. v.session # None =>
           \/ y.session = x.session
           \/ y.session = None /\ y.roster[x.session] = Absent /\ y.buffer[x.session] = None
    BY <1>2, <1>4, <2>1, <2>2, <2>3
  <2>5. ASSUME NEW k \in MemberId
        PROVE  /\ y.buffer[k] \in {None, x.buffer[k]}
               /\ x.roster[k] # Absent /\ y.buffer[k] # None => y.roster[k] # Absent
    BY <1>3, <2>1, <2>2, <2>3
  <2> QED
    BY <1>1, <1>2, <2>1, <2>4, <2>5 DEF Late, x, y
<1> QED
  BY <1>5, <1>6, <1>7, <1>8, <1>9, EventIs DEF Answer

LEMMA LateAbreast ==
  ASSUME NEW v \in Views, NEW w \in Views, Late(v, w), NEW members \in Roster,
         NEW b \in MemberId \cup {None}, Abreast(v, TRUE, members, b)
  PROVE  Abreast(w, FALSE, members, b)
<1>1. \A k \in MemberId :
        /\ w.buffer[k] = None \/ w.buffer[k] = v.buffer[k]
        /\ v.roster[k] # Absent /\ w.buffer[k] # None => w.roster[k] # Absent
  BY DEF Late
<1>2. BufferFrom(w, members)
  BY <1>1 DEF Abreast, BufferFrom
<1>3. b # None => \/ w.session = b
                  \/ w.session = None /\ w.roster[b] = Absent /\ w.buffer[b] = None
  BY DEF Abreast, Late
<1>4. b = None => \A k \in MemberId : members[k] # Absent => w.buffer[k] = None
  BY <1>1 DEF Abreast
<1> QED
  BY <1>2, <1>3, <1>4 DEF Abreast

LEMMA ReadsSooner ==
  ASSUME NEW e \in Event, NEW f \in Marks, NEW g \in Marks, NEW h \in Marks,
         \A k \in MemberId : Leq(f[k], g[k]), Reads(g, e, h)
  PROVE  Reads(f, e, h)
<1> SUFFICES ASSUME NEW k \in MemberId
             PROVE  /\ Leq(f[k], h[k])
                    /\ Names(e, k) => Leq(f[k], PosIn(e, k)) /\ Leq(PosIn(e, k), h[k])
                    /\ e.type = "member_joined" /\ e.id = k =>
                         f[k] = Absent /\ e.card.pos = None
  BY DEF Reads
<1>1. /\ Leq(g[k], h[k])
      /\ Names(e, k) => Leq(g[k], PosIn(e, k)) /\ Leq(PosIn(e, k), h[k])
      /\ e.type = "member_joined" /\ e.id = k => g[k] = Absent /\ e.card.pos = None
  BY DEF Reads
<1>2. /\ f[k] \in Position \cup {None, Absent} /\ g[k] \in Position \cup {None, Absent}
      /\ h[k] \in Position \cup {None, Absent}
  BY DEF Marks
<1>3. Names(e, k) => PosIn(e, k) \in Position \cup {None, Absent}
  BY PosInIs
<1>4. g[k] = Absent => f[k] = Absent
  BY DEF Leq
<1> QED
  BY <1>1, <1>2, <1>3, <1>4, LeqIs

LEMMA DatedSooner ==
  ASSUME NEW g \in Marks, NEW h \in Marks, NEW members \in Roster, NEW given,
         \A k \in MemberId : Leq(g[k], h[k]), Dated(h, members, given)
  PROVE  Dated(g, members, given)
<1> SUFFICES ASSUME NEW k \in MemberId, g[k] # Absent
             PROVE  k \in given /\ (members[k] # Absent => Upto(g[k], members[k].pos))
  BY DEF Dated
<1>1. h[k] # Absent /\ Upto(g[k], h[k])
  BY DEF Leq
<1>2. k \in given /\ (members[k] # Absent => Upto(h[k], members[k].pos))
  BY <1>1 DEF Dated
<1>3. /\ g[k] \in Position \cup {None} /\ h[k] \in Position \cup {None}
      /\ members[k] # Absent => members[k].pos \in Position \cup {None}
  BY <1>1 DEF Marks, Roster, Card
<1> QED
  BY <1>1, <1>2, <1>3, UptoIs

LEMMA RemovedIs ==
  ASSUME NEW s \in Seq(Event), NEW j \in 1 .. Len(s)
  PROVE  /\ SE!RemoveAt(s, j) \in Seq(Event)
         /\ Len(SE!RemoveAt(s, j)) = Len(s) - 1
         /\ \A i \in 1 .. Len(s) - 1 :
              SE!RemoveAt(s, j)[i] = IF i < j THEN s[i] ELSE s[i + 1]
<1> DEFINE a == SubSeq(s, 1, j - 1)
           z == SubSeq(s, j + 1, Len(s))
           n == Len(s)
<1>1. n \in Nat /\ j \in Nat /\ 1 <= j /\ j <= n
  OBVIOUS
<1>2. a \in Seq(Event) /\ Len(a) = j - 1 /\ \A i \in 1 .. j - 1 : a[i] = s[i]
  <2>1. \A i \in 1 .. j - 1 : s[i] \in Event
    BY <1>1
  <2> QED
    BY <1>1, <2>1
<1>3. z \in Seq(Event) /\ Len(z) = n - j /\ \A i \in 1 .. n - j : z[i] = s[i + j]
  <2>1. \A i \in j + 1 .. n : s[i] \in Event
    BY <1>1
  <2> QED
    BY <1>1, <2>1
<1>4. SE!RemoveAt(s, j) = a \o z
  BY DEF SE!RemoveAt
<1> HIDE DEF a, z
<1>5. a \o z \in Seq(Event) /\ Len(a \o z) = n - 1
  BY <1>1, <1>2, <1>3
<1>6. ASSUME NEW i \in 1 .. n - 1 PROVE (a \o z)[i] = IF i < j THEN s[i] ELSE s[i + 1]
  <2>1. CASE i < j
    BY <1>1, <1>2, <1>3, <1>5, <2>1
  <2>2. CASE ~ (i < j)
    <3>1. i - (j - 1) \in 1 .. n - j /\ (i - (j - 1)) + j = i + 1
      BY <1>1, <2>2
    <3>2. (a \o z)[i] = z[i - (j - 1)]
      BY <1>1, <1>2, <1>3, <1>5, <2>2
    <3> QED
      BY <1>3, <2>2, <3>1, <3>2
  <2> QED
    BY <2>1, <2>2
<1> QED
  BY <1>4, <1>5, <1>6

LEMMA GivesUpEntry ==
  ASSUME NEW v \in Views, NEW s \in Seq(Event), NEW c \in BOOLEAN,
         NEW members \in Roster, NEW given, NEW up, NEW b \in MemberId \cup {None},
         Follows(v, s, c, members, given, up, b),
         NEW j \in 1 .. Len(s), s[j].type = "room_state"
  PROVE  Follows(v, SE!RemoveAt(s, j), FALSE, members, given, up, b)
<1> DEFINE n == Len(s)
           q == SE!RemoveAt(s, j)
<1>1. n \in Nat /\ j \in 1 .. n /\ \A i \in 1 .. n : s[i] \in Event
  OBVIOUS
<1>2. /\ q \in Seq(Event) /\ Len(q) = n - 1
      /\ \A i \in 1 .. n - 1 : q[i] = IF i < j THEN s[i] ELSE s[i + 1]
  BY RemovedIs
<1>3. /\ Sound(v, c)
      /\ \A i \in 1 .. n : s[i].type = "refused" => n = 1
      /\ \A i, k \in 1 .. n : s[i].type \in Answer /\ s[k].type \in Answer => i = k
  BY DEF Follows, AnswersFit
<1>4. \A i \in 1 .. n : i # j => s[i].type \notin Answer
  BY <1>3 DEF Answer
<1> HIDE DEF q
<1>5. \A i \in 1 .. n - 1 : q[i].type \notin Answer /\ q[i] \in Event
  BY <1>1, <1>2, <1>4
<1>6. PICK t, h : /\ Reading(t, h, v, s, c)
                  /\ Dated(h[n], members, given)
                  /\ up => Abreast(t[n], Counted(c, s, n), members, b)
  BY DEF Follows
<1>7. /\ t \in [0 .. n -> Views] /\ t[0] = v /\ h \in [0 .. n -> Marks] /\ Under(v, h[0])
      /\ \A i \in 1 .. n : /\ t[i] = After(t[i - 1], s[i]) /\ Reads(h[i - 1], s[i], h[i])
                           /\ Fits(t[i - 1], h[i - 1], Counted(c, s, i - 1), s[i])
  BY <1>6 DEF Reading, Trace, Heard
<1>8. \A i \in 0 .. n : Under(t[i], h[i])
  BY <1>6, UnderAlong
<1>9. PICK u : Trace(u, v, q)
  BY <1>2, TraceExists
<1>10. /\ u \in [0 .. n - 1 -> Views] /\ u[0] = v
       /\ \A i \in 1 .. n - 1 : u[i] = After(u[i - 1], q[i])
  BY <1>2, <1>9 DEF Trace
<1>11. \A i \in 0 .. j - 1 : u[i] = t[i]
  <2> DEFINE T == {i \in 0 .. j - 1 : u[i] = t[i]}
  <2>1. 0 \in T /\ j - 1 \in Nat
    BY <1>1, <1>7, <1>10
  <2>2. ASSUME NEW i \in 0 .. j - 1, i # j - 1, i \in T PROVE i + 1 \in T
    <3>1. /\ i + 1 \in 1 .. n - 1 /\ i + 1 \in 1 .. n /\ (i + 1) - 1 = i /\ i + 1 < j
          /\ i + 1 \in 0 .. j - 1
      BY <1>1, <2>2
    <3>2. u[i + 1] = After(u[i], q[i + 1]) /\ t[i + 1] = After(t[i], s[i + 1])
      BY <1>7, <1>10, <3>1
    <3>3. q[i + 1] = s[i + 1]
      BY <1>2, <3>1
    <3> QED
      BY <2>2, <3>1, <3>2, <3>3
  <2>3. 0 .. j - 1 \subseteq T
    <3> HIDE DEF T
    <3> QED
      BY <2>1, <2>2, Along
  <2> QED
    BY <2>3
<1>12. \A i \in 0 .. n : i >= j => Counted(c, s, i) = TRUE
  BY <1>1 DEF Counted
<1>13. ASSUME NEW i \in j .. n - 1, Late(t[i], u[i - 1])
       PROVE  Late(t[i + 1], u[i]) /\ \A g : Fits(u[i - 1], g, FALSE, q[i])
  <2>1. /\ i \in 1 .. n - 1 /\ i + 1 \in 1 .. n /\ i \in 0 .. n /\ i + 1 \in 0 .. n
        /\ i - 1 \in 0 .. n - 1 /\ (i + 1) - 1 = i /\ i >= j /\ ~ (i < j)
    BY <1>1
  <2>2. q[i] = s[i + 1] /\ q[i].type \notin Answer /\ q[i] \in Event
    BY <1>2, <1>5, <2>1
  <2>3. /\ t[i + 1] = After(t[i], q[i]) /\ Reads(h[i], q[i], h[i + 1])
        /\ Fits(t[i], h[i], TRUE, q[i])
    BY <1>7, <1>12, <2>1, <2>2
  <2>4. /\ t[i] \in Views /\ u[i - 1] \in Views /\ h[i] \in Marks /\ h[i + 1] \in Marks
        /\ Under(t[i], h[i]) /\ u[i] = After(u[i - 1], q[i])
    BY <1>7, <1>8, <1>10, <2>1
  <2> QED
    BY <1>13, <2>2, <2>3, <2>4, LateAfter
<1>14. Late(t[j], u[j - 1])
  <2>1. j \in 1 .. n /\ j - 1 \in 0 .. n /\ j - 1 \in 0 .. j - 1 /\ j \in 0 .. n
    BY <1>1
  <2>2. /\ t[j] = After(t[j - 1], s[j]) /\ t[j - 1] \in Views /\ h[j - 1] \in Marks
        /\ Fits(t[j - 1], h[j - 1], Counted(c, s, j - 1), s[j]) /\ Under(t[j - 1], h[j - 1])
        /\ Counted(c, s, j - 1) \in BOOLEAN /\ s[j] \in Event
    BY <1>1, <1>7, <1>8, <2>1 DEF Counted
  <2>3. u[j - 1] = t[j - 1]
    BY <1>11, <2>1
  <2> QED
    BY <2>2, <2>3, LateStart
<1>15. \A i \in j .. n : Late(t[i], u[i - 1])
  <2> DEFINE T == {i \in 0 .. n - j : Late(t[j + i], u[(j + i) - 1])}
  <2>1. 0 \in T /\ n - j \in Nat
    BY <1>1, <1>14
  <2>2. ASSUME NEW i \in 0 .. n - j, i # n - j, i \in T PROVE i + 1 \in T
    <3>1. /\ j + i \in j .. n - 1 /\ (j + i) + 1 = j + (i + 1) /\ i + 1 \in 0 .. n - j
          /\ (j + (i + 1)) - 1 = j + i
      BY <1>1, <2>2
    <3>2. Late(t[j + i], u[(j + i) - 1])
      BY <2>2
    <3>3. Late(t[(j + i) + 1], u[j + i])
      BY <1>13, <3>1, <3>2
    <3> QED
      BY <3>1, <3>3
  <2>3. 0 .. n - j \subseteq T
    <3> HIDE DEF T
    <3> QED
      BY <2>1, <2>2, Along
  <2> SUFFICES ASSUME NEW i \in j .. n PROVE Late(t[i], u[i - 1])
    OBVIOUS
  <2>4. i - j \in 0 .. n - j /\ j + (i - j) = i
    BY <1>1
  <2>5. i - j \in T
    BY <2>3, <2>4
  <2> QED
    BY <2>4, <2>5
<1>16. \A i \in j .. n - 1 : \A g : Fits(u[i - 1], g, FALSE, q[i])
  <2> SUFFICES ASSUME NEW i \in j .. n - 1 PROVE \A g : Fits(u[i - 1], g, FALSE, q[i])
    OBVIOUS
  <2>1. i \in j .. n
    BY <1>1
  <2> QED
    BY <1>13, <1>15, <2>1
<1> DEFINE h2 == [i \in 0 .. n - 1 |-> IF i < j THEN h[i] ELSE h[i + 1]]
<1>17. \A i \in 0 .. n - 1 : i \in 0 .. n /\ i + 1 \in 0 .. n
  BY <1>1
<1>18. /\ h2 \in [0 .. n - 1 -> Marks] /\ h2[0] = h[0]
       /\ \A i \in 0 .. n - 1 : h2[i] = IF i < j THEN h[i] ELSE h[i + 1]
  BY <1>1, <1>7, <1>17
<1> HIDE DEF h2
<1>19. \A i \in 1 .. n, k \in MemberId : Leq(h[i - 1][k], h[i][k])
  BY <1>7 DEF Reads
<1>20. ASSUME NEW i \in 1 .. n - 1 PROVE Reads(h2[i - 1], q[i], h2[i])
  <2>1. i - 1 \in 0 .. n - 1 /\ i \in 0 .. n - 1 /\ i \in 1 .. n /\ i + 1 \in 1 .. n
        /\ (i + 1) - 1 = i /\ i - 1 \in 0 .. n /\ i \in 0 .. n /\ i + 1 \in 0 .. n
        /\ (i - 1) + 1 = i
    BY <1>1
  <2>2. CASE i < j
    BY <1>2, <1>7, <1>18, <2>1, <2>2
  <2>3. CASE ~ (i < j)
    <3>1. q[i] = s[i + 1] /\ h2[i] = h[i + 1] /\ q[i] \in Event
      BY <1>2, <1>5, <1>18, <2>1, <2>3
    <3>2. Reads(h[i], q[i], h[i + 1])
      BY <1>7, <2>1, <3>1
    <3>3. CASE i - 1 < j
      <4>1. h2[i - 1] = h[i - 1] /\ \A k \in MemberId : Leq(h[i - 1][k], h[i][k])
        BY <1>18, <1>19, <2>1, <3>3
      <4>2. h[i - 1] \in Marks /\ h[i] \in Marks /\ h[i + 1] \in Marks
        BY <1>7, <2>1
      <4> QED
        BY <3>1, <3>2, <4>1, <4>2, ReadsSooner
    <3>4. CASE ~ (i - 1 < j)
      BY <1>18, <2>1, <3>1, <3>2, <3>4
    <3> QED
      BY <3>3, <3>4
  <2> QED
    BY <2>2, <2>3
<1>21. \A i \in 0 .. n - 1 : Counted(FALSE, q, i) = FALSE
  BY <1>1, <1>5 DEF Counted, Answer
<1>22. ASSUME NEW i \in 1 .. n - 1
       PROVE  Fits(u[i - 1], h2[i - 1], Counted(FALSE, q, i - 1), q[i])
  <2>1. i - 1 \in 0 .. n - 1 /\ i \in 1 .. n
    BY <1>1
  <2>2. Counted(FALSE, q, i - 1) = FALSE
    BY <1>21, <2>1
  <2>3. CASE i < j
    <3>0. q[i] = s[i]
      BY <1>2, <2>3
    <3>1. q[i] = s[i] /\ i - 1 \in 0 .. j - 1 /\ i - 1 < j
      BY <1>1, <2>1, <2>3, <3>0
    <3>2. u[i - 1] = t[i - 1] /\ h2[i - 1] = h[i - 1]
      BY <1>11, <1>18, <2>1, <3>1
    <3>3. Fits(t[i - 1], h[i - 1], Counted(c, s, i - 1), s[i])
      BY <1>7, <2>1
    <3>4. Fits(t[i - 1], h[i - 1], FALSE, s[i])
      BY <3>3 DEF Fits
    <3> QED
      BY <2>2, <3>1, <3>2, <3>4
  <2>4. CASE ~ (i < j)
    <3>1. i \in j .. n - 1
      BY <1>1, <2>4
    <3> QED
      BY <1>16, <2>2, <3>1
  <2> QED
    BY <2>3, <2>4
<1>23. Reading(u, h2, v, q, FALSE)
  BY <1>2, <1>7, <1>9, <1>18, <1>20, <1>22 DEF Reading, Heard
<1>24. Dated(h2[n - 1], members, given)
  <2>1. n - 1 \in 0 .. n - 1 /\ n - 1 \in 0 .. n /\ n \in 0 .. n /\ (n - 1) + 1 = n /\ n \in 1 .. n
    BY <1>1
  <2>2. h2[n - 1] = h[n - 1] \/ h2[n - 1] = h[n]
    BY <1>18, <2>1
  <2>3. h[n - 1] \in Marks /\ h[n] \in Marks /\ \A k \in MemberId : Leq(h[n - 1][k], h[n][k])
    BY <1>7, <1>19, <2>1
  <2>4. Dated(h[n - 1], members, given)
    BY <1>6, <2>3, DatedSooner
  <2> QED
    BY <1>6, <2>2, <2>4
<1>25. ASSUME up PROVE Abreast(u[n - 1], FALSE, members, b)
  <2>1. n - 1 \in 0 .. n - 1 /\ n \in 0 .. n /\ n \in j .. n /\ n >= j
    BY <1>1
  <2>2. Abreast(t[n], TRUE, members, b)
    BY <1>6, <1>12, <1>25, <2>1
  <2>3. Late(t[n], u[n - 1]) /\ t[n] \in Views /\ u[n - 1] \in Views
    BY <1>7, <1>10, <1>15, <2>1
  <2> QED
    BY <2>2, <2>3, LateAbreast
<1>26. AnswersFit(q, up, b)
  <2>1. \A i \in 1 .. Len(q) : q[i].type \notin Answer
    BY <1>2, <1>5
  <2> QED
    BY <2>1 DEF AnswersFit, Answer
<1>27. Sound(v, FALSE)
  BY <1>3 DEF Sound
<1>28. Counted(FALSE, q, n - 1) = FALSE
  <2>1. n - 1 \in 0 .. n - 1
    BY <1>1
  <2> QED
    BY <1>21, <2>1
<1>29. Follows(v, q, FALSE, members, given, up, b)
  BY <1>2, <1>23, <1>24, <1>25, <1>26, <1>27, <1>28 DEF Follows
<1> QED
  BY <1>29 DEF q

LEMMA GivesUpRefusal ==
  ASSUME NEW v \in Views, NEW s \in Seq(Event), NEW c \in BOOLEAN,
         NEW members \in Roster, NEW given, NEW up, NEW b \in MemberId \cup {None},
         Follows(v, s, c, members, given, up, b),
         NEW j \in 1 .. Len(s), s[j].type = "refused"
  PROVE  Follows(v, SE!RemoveAt(s, j), FALSE, members, given, up, b)
<1> DEFINE n == Len(s)
           q == SE!RemoveAt(s, j)
<1>1. /\ Sound(v, c) /\ n = 1 /\ (up => b = None)
  BY DEF Follows, AnswersFit
<1>2. j = 1 /\ s[1] \in Event
  <2>1. j \in 1 .. 1
    BY <1>1
  <2>2. s[j] \in Event
    OBVIOUS
  <2> QED
    BY <2>1, <2>2
<1>3. q \in Seq(Event) /\ Len(q) = 0
  <2>1. q \in Seq(Event) /\ Len(q) = n - 1
    BY RemovedIs
  <2> QED
    BY <1>1, <2>1
<1> HIDE DEF q
<1>4. PICK t, h : /\ Reading(t, h, v, s, c)
                  /\ Dated(h[n], members, given)
                  /\ up => Abreast(t[n], Counted(c, s, n), members, b)
  BY DEF Follows
<1>5. 1 \in 1 .. n /\ 1 - 1 = 0 /\ 0 \in 0 .. n /\ 1 \in 0 .. n
  BY <1>1
<1>6. /\ t[0] = v /\ Under(v, h[0]) /\ t[1] = After(v, s[1])
      /\ h[0] \in Marks /\ h[1] \in Marks /\ \A k \in MemberId : Leq(h[0][k], h[1][k])
  BY <1>4, <1>5 DEF Reading, Trace, Heard, Reads
<1>7. Dated(h[0], members, given)
  BY <1>1, <1>4, <1>6, DatedSooner
<1>8. ASSUME up PROVE Abreast(v, FALSE, members, b)
  <2>1. t[1].buffer = v.buffer
    BY <1>2, <1>6, AfterEnding
  <2>2. b = None /\ \A k \in MemberId : members[k] # Absent => v.buffer[k] = None
    BY <1>1, <1>4, <1>8, <2>1 DEF Abreast
  <2> QED
    BY <2>2 DEF Abreast, BufferFrom
<1> DEFINE t2 == [i \in 0 .. 0 |-> v]
           h2 == [i \in 0 .. 0 |-> h[0]]
<1>9. /\ t2 \in [0 .. 0 -> Views] /\ t2[0] = v /\ h2 \in [0 .. 0 -> Marks] /\ h2[0] = h[0]
  BY <1>6
<1> HIDE DEF t2, h2
<1>10. Reading(t2, h2, v, q, FALSE)
  BY <1>3, <1>6, <1>9 DEF Reading, Trace, Heard
<1>11. AnswersFit(q, up, b) /\ Sound(v, FALSE) /\ Counted(FALSE, q, 0) = FALSE
  BY <1>1, <1>3 DEF AnswersFit, Sound, Counted
<1>12. Follows(v, q, FALSE, members, given, up, b)
  BY <1>3, <1>7, <1>8, <1>9, <1>10, <1>11 DEF Follows
<1> QED
  BY <1>12 DEF q

LEMMA GivesUp ==
  ASSUME NEW v \in Views, NEW s \in Seq(Event), NEW c \in BOOLEAN,
         NEW members \in Roster, NEW given, NEW up, NEW b \in MemberId \cup {None},
         Follows(v, s, c, members, given, up, b),
         NEW j \in 1 .. Len(s), s[j].type \in Answer
  PROVE  Follows(v, SE!RemoveAt(s, j), FALSE, members, given, up, b)
  BY GivesUpEntry, GivesUpRefusal DEF Answer

-----------------------------------------------------------------------------
(* What the server sends, and what it holds.                               *)

LEMMA SameCardinality ==
  ASSUME NEW S
  PROVE  SE!Cardinality(S) = Cardinality(S)
  BY DEF SE!Cardinality, Cardinality

LEMMA SetToSeqOfNone == SE!SetToSeq({}) = << >>
<1>1. Cardinality({}) = 0
  BY FS_EmptySet
<1>2. << >> \in [1 .. 0 -> {}] /\ SE!IsInjective(<< >>)
  BY DEF SE!IsInjective
<1>3. \E f \in [1 .. SE!Cardinality({}) -> {}] : SE!IsInjective(f)
  BY <1>1, <1>2, SameCardinality
<1>4. SE!SetToSeq({}) \in [1 .. SE!Cardinality({}) -> {}]
  BY <1>3 DEF SE!SetToSeq
<1> QED
  BY <1>1, <1>4, SameCardinality

LEMMA SetToSeqOfOne ==
  ASSUME NEW e
  PROVE  SE!SetToSeq({e}) = << e >>
<1>1. Cardinality({e}) = 1
  BY FS_Singleton
<1>2. << e >> \in [1 .. 1 -> {e}] /\ SE!IsInjective(<< e >>)
  BY DEF SE!IsInjective
<1>3. \E f \in [1 .. SE!Cardinality({e}) -> {e}] : SE!IsInjective(f)
  BY <1>1, <1>2, SameCardinality
<1>4. SE!SetToSeq({e}) \in [1 .. SE!Cardinality({e}) -> {e}]
  BY <1>3 DEF SE!SetToSeq
<1> DEFINE f == SE!SetToSeq({e})
<1>5. f \in [1 .. 1 -> {e}]
  BY <1>1, <1>4, SameCardinality
<1> HIDE DEF f
<1>6. f \in Seq({e}) /\ Len(f) = 1 /\ f[1] = e
  <2>1. 1 \in Nat /\ 1 \in 1 .. 1
    OBVIOUS
  <2>2. f \in Seq({e})
    BY <1>5, <2>1, SeqDef
  <2>3. f[1] = e /\ DOMAIN f = 1 .. 1
    BY <1>5, <2>1
  <2> QED
    BY <2>2, <2>3, LenProperties
<1>7. f = << e >>
  BY <1>6, SeqEqual
<1> QED
  BY <1>7 DEF f

LEMMA OneOrTwo ==
  ASSUME NEW s \in Seq(Event), NEW e \in Event, NEW f \in Event
  PROVE  /\ s \o << >> = s /\ s \o << e >> = Append(s, e)
         /\ s \o << e, f >> = Append(Append(s, e), f)
         /\ << >> \o << f >> = << f >> /\ << e >> \o << f >> = << e, f >>
         /\ Append(s, e) \in Seq(Event)
         /\ << >> \in Seq(Event) /\ << e >> \in Seq(Event) /\ << e, f >> \in Seq(Event)
<1>1. s \o << >> = s /\ s \o << e >> = Append(s, e) /\ Append(s, e) \in Seq(Event)
  OBVIOUS
<1>2. /\ << >> \in Seq(Event) /\ << e >> \in Seq(Event) /\ << e, f >> \in Seq(Event)
      /\ << >> \o << f >> = << f >>
  OBVIOUS
<1>4. << e >> \o << f >> = << e, f >>
  <2> DEFINE a == << e >> \o << f >>
             b == << e, f >>
  <2>1. a \in Seq(Event) /\ Len(a) = 2 /\ a[1] = e /\ a[2] = f
    OBVIOUS
  <2>2. b \in Seq(Event) /\ Len(b) = 2 /\ b[1] = e /\ b[2] = f
    OBVIOUS
  <2> HIDE DEF a, b
  <2>3. \A i \in 1 .. 2 : i = 1 \/ i = 2
    OBVIOUS
  <2>4. \A i \in 1 .. 2 : a[i] = b[i]
    BY <2>1, <2>2, <2>3
  <2>5. a = b
    BY <2>1, <2>2, <2>4, SeqEqual
  <2> QED
    BY <2>5 DEF a, b
<1>3. s \o << e, f >> = Append(Append(s, e), f)
  <2> DEFINE a == s \o << e, f >>
             b == Append(Append(s, e), f)
  <2>1. /\ a \in Seq(Event) /\ Len(a) = Len(s) + 2
        /\ \A i \in 1 .. Len(s) + 2 :
             a[i] = IF i <= Len(s) THEN s[i] ELSE << e, f >>[i - Len(s)]
    OBVIOUS
  <2>2. /\ b \in Seq(Event) /\ Len(b) = Len(s) + 2
        /\ \A i \in 1 .. Len(s) + 2 :
             b[i] = IF i <= Len(s) THEN s[i] ELSE IF i = Len(s) + 1 THEN e ELSE f
    OBVIOUS
  <2>3. \A i \in 1 .. Len(s) + 2 : i <= Len(s) \/ i - Len(s) = 1 \/ i - Len(s) = 2
    OBVIOUS
  <2> HIDE DEF a, b
  <2>4. \A i \in 1 .. Len(s) + 2 : a[i] = b[i]
    BY <2>1, <2>2, <2>3
  <2>5. a = b
    BY <2>1, <2>2, <2>4, SeqEqual
  <2> QED
    BY <2>5 DEF a, b
<1> QED
  BY <1>1, <1>2, <1>3, <1>4

\* One of the snapshots on the way to a phone is of its entry as m.
Entering(s, m) == \E i \in 1 .. Len(s) : s[i].type = "room_state" /\ s[i].self = m

LEMMA EnteringAppend ==
  ASSUME NEW s \in Seq(Event), NEW e \in Event, NEW m
  PROVE  Entering(Append(s, e), m) <=> Entering(s, m) \/ (e.type = "room_state" /\ e.self = m)
<1>1. \A i \in 1 .. Len(s) + 1 : Append(s, e)[i] = IF i = Len(s) + 1 THEN e ELSE s[i]
  OBVIOUS
<1>2. /\ Len(Append(s, e)) = Len(s) + 1 /\ Len(s) + 1 \in 1 .. Len(s) + 1
      /\ \A i \in 1 .. Len(s) : i \in 1 .. Len(s) + 1 /\ i # Len(s) + 1
      /\ \A i \in 1 .. Len(s) + 1 : i \in 1 .. Len(s) \/ i = Len(s) + 1
  OBVIOUS
<1> QED
  BY <1>1, <1>2 DEF Entering

LEMMA EnteringLess ==
  ASSUME NEW s \in Seq(Event), NEW m
  PROVE  /\ s # << >> /\ Entering(Tail(s), m) => Entering(s, m)
         /\ \A j \in 1 .. Len(s) : Entering(SE!RemoveAt(s, j), m) => Entering(s, m)
<1>1. ASSUME s # << >>, Entering(Tail(s), m) PROVE Entering(s, m)
  <2>1. \A i \in 1 .. Len(Tail(s)) : i + 1 \in 1 .. Len(s) /\ Tail(s)[i] = s[i + 1]
    BY <1>1
  <2> QED
    BY <1>1, <2>1 DEF Entering
<1>2. ASSUME NEW j \in 1 .. Len(s), Entering(SE!RemoveAt(s, j), m) PROVE Entering(s, m)
  <2>1. /\ Len(SE!RemoveAt(s, j)) = Len(s) - 1
        /\ \A i \in 1 .. Len(s) - 1 : SE!RemoveAt(s, j)[i] = IF i < j THEN s[i] ELSE s[i + 1]
    BY RemovedIs
  <2>2. \A i \in 1 .. Len(s) - 1 : i \in 1 .. Len(s) /\ i + 1 \in 1 .. Len(s)
    OBVIOUS
  <2> QED
    BY <1>2, <2>1, <2>2 DEF Entering
<1> QED
  BY <1>1, <1>2

\* Whom the connection of a phone speaks for.
Speaks(p) == IF link[p] = None THEN None ELSE bound[link[p]]

\* A phone is a member, its connection speaks for it, or an answer will tell.
Owns(p, m) == session[p] = m \/ Speaks(p) = m \/ Entering(down[p], m)

Base ==
  /\ \A p, q \in Phone : p # q /\ link[p] # None => link[p] # link[q]
  /\ \A p, q \in Phone, m \in MemberId : Owns(p, m) /\ Owns(q, m) => p = q
  /\ \A p \in Phone, m \in MemberId : Owns(p, m) => m \in issued
  /\ \A p \in Phone : link[p] = None => buffer[p] = NoBuffer
  /\ \A s \in Socket : bound[s] # None => s \in live
  /\ Present \subseteq issued /\ IsFiniteSet(issued)
  /\ \A m \in Present : member[m].socket \in live => bound[member[m].socket] # None

Attuned(p) ==
  Follows(View(p), down[p], p \notin missed, RoomState(member), issued,
          link[p] \in live, Speaks(p))

IInv == TypeOK /\ Base /\ \A p \in Phone : Attuned(p)

LEMMA ViewTyped ==
  ASSUME TypeOK, NEW p \in Phone
  PROVE  /\ View(p) \in Views /\ View(p).session = session[p] /\ View(p).roster = roster[p]
         /\ View(p).buffer = buffer[p] /\ View(p).shown = shown[p]
         /\ session[p] \in MemberId \cup {None} /\ roster[p] \in Roster /\ shown[p] \in Roster
         /\ buffer[p] \in [MemberId -> Position \cup {None}]
         /\ link[p] \in Socket \cup {None} /\ down[p] \in Seq(Event)
         /\ Speaks(p) \in MemberId \cup {None}
         /\ (p \notin missed) \in BOOLEAN /\ (link[p] \in live) \in BOOLEAN
         /\ link[p] \in live => link[p] \in Socket /\ link[p] # None /\ Speaks(p) = bound[link[p]]
  BY Constants DEF TypeOK, View, Views, Speaks

LEMMA RoomStateIs ==
  ASSUME NEW mem \in [MemberId -> Member \cup {Absent}]
  PROVE  /\ RoomState(mem) \in Roster
         /\ \A k \in MemberId :
              /\ RoomState(mem)[k] = Absent <=> mem[k] = Absent
              /\ mem[k] # Absent => RoomState(mem)[k] = mem[k].card /\ mem[k].card \in Card
  BY AbsentAssumption DEF RoomState, Roster, Member

LEMMA RoomStateEquals ==
  ASSUME NEW mem \in [MemberId -> Member \cup {Absent}], NEW members \in Roster,
         \A k \in MemberId : members[k] = IF mem[k] = Absent THEN Absent ELSE mem[k].card
  PROVE  RoomState(mem) = members
<1>1. RoomState(mem) \in Roster
  BY RoomStateIs
<1>2. \A k \in MemberId : RoomState(mem)[k] = members[k]
  BY DEF RoomState
<1> QED
  BY <1>1, <1>2 DEF Roster

LEMMA ToRoomIs ==
  ASSUME TypeOK, NEW events \in Seq(Event), NEW except
  PROVE  /\ ToRoom(events, except) \in [Phone -> Seq(Event)]
         /\ \A q \in Phone :
              ToRoom(events, except)[q] =
                IF link[q] \in live \ except /\ Speaks(q) # None
                THEN down[q] \o events ELSE down[q]
<1>1. \A q \in Phone : q \in Hearing(except) <=> link[q] \in live \ except /\ Speaks(q) # None
  BY ViewTyped DEF Hearing
<1>2. \A q \in Phone : down[q] \in Seq(Event) /\ down[q] \o events \in Seq(Event)
  BY ViewTyped
<1> QED
  BY <1>1, <1>2 DEF ToRoom

\* A phone outside the room, or off, hears nothing.
LEMMA NotTold ==
  ASSUME NEW v \in Views, NEW s \in Seq(Event), NEW c \in BOOLEAN,
         NEW members \in Roster, NEW given, NEW up \in BOOLEAN, NEW b \in MemberId \cup {None},
         NEW members2 \in Roster, NEW given2, NEW up2 \in BOOLEAN,
         NEW b2 \in MemberId \cup {None},
         Follows(v, s, c, members, given, up, b), Advances(members, given, members2, given2),
         up2 => up /\ b = None /\ b2 = None
  PROVE  Follows(v, s, c, members2, given2, up2, b2)
<1>1. CASE up2
  <2>1. up = TRUE /\ up2 = TRUE /\ b = None /\ b2 = None
    BY <1>1
  <2>2. Unheard(members, given, TRUE, None, members2, given2, TRUE, None)
    BY UnheardOutside
  <2> QED
    BY <2>1, <2>2, NoMore
<1>2. CASE ~ up2
  <2>1. up2 = FALSE
    BY <1>2
  <2>2. Unheard(members, given, up, b, members2, given2, FALSE, b2)
    BY UnheardDown
  <2> QED
    BY <2>1, <2>2, NoMore
<1> QED
  BY <1>1, <1>2

\* A phone that does nothing itself.
LEMMA OtherAttuned ==
  ASSUME NEW p \in Phone, session'[p] = session[p], roster'[p] = roster[p],
         buffer'[p] = buffer[p], shown'[p] = shown[p], link'[p] = link[p],
         p \in missed' <=> p \in missed,
         Follows(View(p), down'[p], p \notin missed, RoomState(member'), issued',
                 link[p] \in live', IF link[p] = None THEN None ELSE bound'[link[p]])
  PROVE  Attuned(p)'
<1>1. View(p)' = View(p)
  BY DEF View
<1>2. (p \notin missed') = (p \notin missed)
  OBVIOUS
<1>3. RoomState(member)' = RoomState(member')
  BY DEF RoomState
<1> QED
  BY <1>1, <1>2, <1>3 DEF Attuned, Speaks

-----------------------------------------------------------------------------
(* What a phone does on its own preserves the invariant.                   *)

LEMMA LocalStep ==
  ASSUME IInv, NEW p \in Phone, NEW w \in Views, NEW s \in Seq(Event), NEW l \in {link[p], None},
         Become(p, w), link' = [link EXCEPT ![p] = l], down' = [down EXCEPT ![p] = s],
         UNCHANGED server, missed' \subseteq Phone,
         \A q \in Phone : q # p => (q \in missed' <=> q \in missed),
         w.session \in {session[p], None} \/ Entering(down[p], w.session),
         \A m \in MemberId : Entering(s, m) => Entering(down[p], m),
         l = None => w.buffer = NoBuffer /\ s = << >>,
         Follows(w, s, p \notin missed', RoomState(member), issued, l \in live,
                 IF l = None THEN None ELSE bound[l])
  PROVE  IInv'
<1>1. TypeOK /\ Base /\ \A q \in Phone : Attuned(q)
  BY DEF IInv
<1>2. /\ w.session \in MemberId \cup {None} /\ w.roster \in Roster /\ w.shown \in Roster
      /\ w.buffer \in [MemberId -> Position \cup {None}] /\ l \in Socket \cup {None}
      /\ w = [session |-> w.session, roster |-> w.roster, buffer |-> w.buffer, shown |-> w.shown]
  BY <1>1, ViewTyped DEF Views
<1>3. \A q \in Phone :
        /\ session'[q] = IF q = p THEN w.session ELSE session[q]
        /\ roster'[q] = IF q = p THEN w.roster ELSE roster[q]
        /\ buffer'[q] = IF q = p THEN w.buffer ELSE buffer[q]
        /\ shown'[q] = IF q = p THEN w.shown ELSE shown[q]
        /\ link'[q] = IF q = p THEN l ELSE link[q]
        /\ down'[q] = IF q = p THEN s ELSE down[q]
  BY <1>1 DEF TypeOK, Become
<1>4. member' = member /\ issued' = issued /\ live' = live /\ bound' = bound
  BY DEF server
<1>5. TypeOK'
  <2>1. /\ session' \in [Phone -> MemberId \cup {None}]
        /\ link' \in [Phone -> Socket \cup {None}]
        /\ roster' \in [Phone -> Roster]
    BY <1>1, <1>2 DEF TypeOK, Become
  <2>2. /\ buffer' \in [Phone -> [MemberId -> Position \cup {None}]]
        /\ shown' \in [Phone -> Roster]
    BY <1>1, <1>2 DEF TypeOK, Become
  <2>3. down' \in [Phone -> Seq(Event)]
    BY <1>1 DEF TypeOK
  <2>4. \A q \in Phone : link'[q] = None => down'[q] = << >>
    BY <1>1, <1>3 DEF TypeOK
  <2> QED
    BY <1>1, <1>4, <2>1, <2>2, <2>3, <2>4 DEF TypeOK
<1>6. ASSUME NEW q \in Phone, NEW m \in MemberId, Owns(q, m)' PROVE Owns(q, m)
  <2>1. CASE q = p
    <3>1. m = w.session \/ (l # None /\ bound[l] = m) \/ Entering(s, m)
      BY <1>3, <1>4, <1>6, <2>1, Constants DEF Owns, Speaks
    <3>2. l # None => l = link[p]
      OBVIOUS
    <3> QED
      BY <2>1, <3>1, <3>2, Constants DEF Owns, Speaks
  <2>2. CASE q # p
    BY <1>3, <1>4, <1>6, <2>2 DEF Owns, Speaks
  <2> QED
    BY <2>1, <2>2
<1>7. Base'
  <2>1. (\A q, r \in Phone : q # r /\ link[q] # None => link[q] # link[r])'
    <3>1. \A q, r \in Phone : q # r /\ link[q] # None => link[q] # link[r]
      BY <1>1 DEF Base
    <3>2. \A q \in Phone : link'[q] # None => link'[q] = link[q]
      BY <1>3
    <3> QED
      BY <3>1, <3>2
  <2>2. (\A q, r \in Phone, m \in MemberId : Owns(q, m) /\ Owns(r, m) => q = r)'
    BY <1>1, <1>6 DEF Base
  <2>3. (\A q \in Phone, m \in MemberId : Owns(q, m) => m \in issued)'
    BY <1>1, <1>4, <1>6 DEF Base
  <2>4. (\A q \in Phone : link[q] = None => buffer[q] = NoBuffer)'
    BY <1>1, <1>3 DEF Base, NoBuffer
  <2> QED
    BY <1>1, <1>4, <2>1, <2>2, <2>3, <2>4 DEF Base, Present
<1>8. ASSUME NEW q \in Phone PROVE Attuned(q)'
  <2>1. CASE q = p
    <3>1. View(p)' = w
      BY <1>2, <1>3 DEF View
    <3>2. (p \notin missed)' = (p \notin missed')
      OBVIOUS
    <3>3. /\ down'[p] = s /\ link'[p] = l
          /\ Speaks(p)' = IF l = None THEN None ELSE bound[l]
          /\ RoomState(member)' = RoomState(member)
      BY <1>3, <1>4 DEF Speaks, RoomState
    <3>4. Attuned(p)'
      BY <1>4, <3>1, <3>2, <3>3 DEF Attuned
    <3> QED
      BY <2>1, <3>4
  <2>2. CASE q # p
    <3>1. Follows(View(q), down'[q], q \notin missed, RoomState(member'), issued',
                  link[q] \in live', IF link[q] = None THEN None ELSE bound'[link[q]])
      BY <1>1, <1>3, <1>4, <2>2 DEF Attuned, Speaks
    <3> QED
      BY <1>3, <2>2, <3>1, OtherAttuned
  <2> QED
    BY <2>1, <2>2
<1> QED
  BY <1>5, <1>7, <1>8 DEF IInv

LEMMA Unchanged ==
  ASSUME TypeOK, NEW p \in Phone
  PROVE  link = [link EXCEPT ![p] = link[p]] /\ down = [down EXCEPT ![p] = down[p]]
  BY DEF TypeOK

\* What Attuned says, with the view of the phone named.
LEMMA AttunedIs ==
  ASSUME IInv, NEW p \in Phone
  PROVE  /\ TypeOK /\ Base /\ missed \subseteq Phone
         /\ Follows(View(p), down[p], p \notin missed, RoomState(member), issued,
                    link[p] \in live, Speaks(p))
         /\ Sound(View(p), p \notin missed)
         /\ RoomState(member) \in Roster
<1>1. TypeOK /\ Base /\ Attuned(p)
  BY DEF IInv
<1>2. RoomState(member) \in Roster
  BY <1>1, RoomStateIs DEF TypeOK
<1> QED
  BY <1>1, <1>2 DEF Attuned, Follows, TypeOK

LEMMA FlushStep ==
  ASSUME IInv, NEW p \in Phone, Flush(p)
  PROVE  IInv'
<1> DEFINE v == View(p)
           c == p \notin missed
<1>1. /\ TypeOK /\ Base /\ missed \subseteq Phone /\ RoomState(member) \in Roster /\ Sound(v, c)
      /\ Follows(v, down[p], c, RoomState(member), issued, link[p] \in live, Speaks(p))
  BY AttunedIs
<1>2. v \in Views /\ down[p] \in Seq(Event) /\ c \in BOOLEAN /\ Speaks(p) \in MemberId \cup {None}
  BY <1>1, ViewTyped
<1>3. v.session = session[p]
  BY <1>1, ViewTyped
<1> HIDE DEF v, c
<1> DEFINE w == Flushed(v)
<1>4. /\ w \in Views /\ w.session = v.session /\ Same(v, w) /\ Sound(w, c)
      /\ \A g \in Marks : Under(v, g) => Under(w, g)
  BY <1>1, <1>2, FlushedIs
<1>5. Become(p, w) /\ link[p] # None /\ UNCHANGED <<link, down, server, missed>>
  BY DEF Flush, v
<1> HIDE DEF w
<1>6. Follows(w, down[p], c, RoomState(member), issued, link[p] \in live, Speaks(p))
  BY <1>1, <1>2, <1>4, SameFollows
<1>7. /\ Follows(w, down[p], p \notin missed', RoomState(member), issued, link[p] \in live,
                 IF link[p] = None THEN None ELSE bound[link[p]])
      /\ link' = [link EXCEPT ![p] = link[p]] /\ down' = [down EXCEPT ![p] = down[p]]
      /\ UNCHANGED server /\ missed' = missed
  BY <1>1, <1>5, <1>6, Unchanged DEF Speaks, c
<1> QED
  BY <1>1, <1>2, <1>3, <1>4, <1>5, <1>7, LocalStep

LEMMA OwnFixStep ==
  ASSUME IInv, NEW p \in Phone, OwnFix(p)
  PROVE  IInv'
<1> DEFINE v == View(p)
           c == p \notin missed
           m == session[p]
           card == IF roster[p][m] = Absent THEN [connected |-> TRUE, pos |-> 1]
                   ELSE IF roster[p][m].pos = None THEN [roster[p][m] EXCEPT !.pos = 1]
                   ELSE roster[p][m]
           members == [roster[p] EXCEPT ![m] = card]
           w == [v EXCEPT !.roster = members]
<1>1. /\ TypeOK /\ Base /\ missed \subseteq Phone /\ RoomState(member) \in Roster /\ Sound(v, c)
      /\ Follows(v, down[p], c, RoomState(member), issued, link[p] \in live, Speaks(p))
  BY AttunedIs
<1>2. /\ v \in Views /\ down[p] \in Seq(Event) /\ c \in BOOLEAN
      /\ Speaks(p) \in MemberId \cup {None}
      /\ v.session = m /\ v.roster = roster[p] /\ v.buffer = buffer[p] /\ v.shown = shown[p]
      /\ roster[p] \in Roster /\ m \in MemberId \cup {None}
  BY <1>1, ViewTyped
<1>3. m \in MemberId /\ UNCHANGED <<session, link, buffer, shown, down, server, missed>>
  BY <1>2 DEF OwnFix
<1>4. card \in Card /\ card # Absent
  <2>1. 1 \in Position
    BY RostersAssumption DEF Position
  <2>2. [connected |-> TRUE, pos |-> 1] \in Card
    BY <2>1 DEF Card
  <2>3. roster[p][m] # Absent =>
          roster[p][m] \in Card /\ [roster[p][m] EXCEPT !.pos = 1] \in Card
    BY <1>2, <1>3, <2>1 DEF Roster, Card
  <2> QED
    BY <2>2, <2>3, Constants
<1>5. roster' = [roster EXCEPT ![p] = members]
  <2>1. roster' = [roster EXCEPT ![p] = [roster[p] EXCEPT ![m] = card]]
    BY DEF OwnFix
  <2> QED
    BY <2>1
<1> HIDE DEF card
<1>6. members \in Roster /\ \A k \in MemberId : members[k] = IF k = m THEN card ELSE roster[p][k]
  BY <1>2, <1>3, <1>4 DEF Roster
<1> HIDE DEF v, members
<1>7. /\ w \in Views /\ w.session = m /\ w.roster = members /\ w.buffer = v.buffer
      /\ w.shown = v.shown
  BY <1>2, <1>6 DEF Views
<1>8. Become(p, w)
  BY <1>1, <1>2, <1>3, <1>5, <1>7 DEF Become, TypeOK
<1> HIDE DEF w
<1>9. Same(v, w)
  BY <1>2, <1>6, <1>7 DEF Same
<1>10. Sound(w, c)
  <2>1. Nobody \in Roster /\ \A k \in MemberId : Nobody[k] = Absent
    BY DEF Nobody, Roster
  <2>2. ASSUME NEW k \in MemberId PROVE Drawn(members, Nobody, m)[k] = Drawn(roster[p], Nobody, m)[k]
    <3>1. Drawn(members, Nobody, m)[k] =
            IF members[k] = Absent THEN Absent
            ELSE IF k = m \/ members[k].pos = None THEN Nobody[k] ELSE members[k]
      BY <1>6, <2>1, DrawnIs
    <3>2. Drawn(roster[p], Nobody, m)[k] =
            IF roster[p][k] = Absent THEN Absent
            ELSE IF k = m \/ roster[p][k].pos = None THEN Nobody[k] ELSE roster[p][k]
      BY <1>2, <2>1, DrawnIs
    <3> QED
      BY <1>6, <2>1, <3>1, <3>2
  <2>3. Drawn(members, Nobody, m) \in Roster /\ Drawn(roster[p], Nobody, m) \in Roster
    BY <1>2, <1>6, <2>1, DrawnIs
  <2>4. Drawn(members, Nobody, m) = Drawn(roster[p], Nobody, m)
    BY <2>2, <2>3 DEF Roster
  <2> QED
    BY <1>1, <1>2, <1>3, <1>6, <1>7, <2>4, Constants DEF Sound
<1>11. ASSUME NEW g \in Marks, Under(v, g) PROVE Under(w, g)
  BY <1>2, <1>6, <1>7, <1>11 DEF Under
<1>12. Follows(w, down[p], c, RoomState(member), issued, link[p] \in live, Speaks(p))
  BY <1>1, <1>2, <1>7, <1>9, <1>10, <1>11, SameFollows
<1>13. /\ Follows(w, down[p], p \notin missed', RoomState(member), issued, link[p] \in live,
                  IF link[p] = None THEN None ELSE bound[link[p]])
       /\ link' = [link EXCEPT ![p] = link[p]] /\ down' = [down EXCEPT ![p] = down[p]]
       /\ UNCHANGED server /\ missed' = missed
  BY <1>1, <1>3, <1>12, Unchanged DEF Speaks, c
<1>14. link[p] = None => w.buffer = NoBuffer /\ down[p] = << >>
  BY <1>1, <1>2, <1>7 DEF Base, TypeOK
<1> QED
  BY <1>1, <1>2, <1>7, <1>8, <1>13, <1>14, LocalStep

LEMMA DropStep ==
  ASSUME IInv, NEW p \in Phone, Drop(p)
  PROVE  IInv'
<1> DEFINE v == View(p)
           c == p \notin missed
           w == [v EXCEPT !.buffer = NoBuffer]
<1>1. /\ TypeOK /\ Base /\ missed \subseteq Phone /\ RoomState(member) \in Roster /\ Sound(v, c)
      /\ Follows(v, down[p], c, RoomState(member), issued, link[p] \in live, Speaks(p))
  BY AttunedIs
<1>2. /\ v \in Views /\ down[p] \in Seq(Event) /\ c \in BOOLEAN
      /\ v.session = session[p] /\ v.roster = roster[p] /\ v.shown = shown[p]
  BY <1>1, ViewTyped
<1> HIDE DEF v
<1>3. NoBuffer \in [MemberId -> Position \cup {None}] /\ \A k \in MemberId : NoBuffer[k] = None
  BY DEF NoBuffer
<1>4. /\ w \in Views /\ w.session = v.session /\ w.roster = v.roster /\ w.shown = v.shown
      /\ w.buffer = NoBuffer
  BY <1>2, <1>3 DEF Views
<1>5. /\ Become(p, w) /\ link' = [link EXCEPT ![p] = None] /\ down' = [down EXCEPT ![p] = << >>]
      /\ UNCHANGED server /\ missed' = missed
  BY <1>1, <1>2, <1>4 DEF Drop, Unlinked, Become, TypeOK
<1> HIDE DEF w
<1>6. Sound(w, c)
  BY <1>1, <1>3, <1>4 DEF Sound
<1>7. ASSUME NEW g \in Marks, Under(v, g) PROVE Under(w, g)
  BY <1>3, <1>4, <1>7 DEF Under
<1>8. Follows(w, << >>, c, RoomState(member), issued, FALSE, None)
  BY <1>1, <1>2, <1>4, <1>6, <1>7, Unlinks
<1>9. (None \in live) = FALSE
  BY <1>1, Constants DEF TypeOK
<1>10. Follows(w, << >>, p \notin missed', RoomState(member), issued, None \in live,
               IF None = None THEN None ELSE bound[None])
  BY <1>5, <1>8, <1>9 DEF c
<1>11. << >> \in Seq(Event) /\ \A m \in MemberId : Entering(<< >>, m) => Entering(down[p], m)
  BY DEF Entering
<1> QED
  BY <1>1, <1>2, <1>4, <1>5, <1>10, <1>11, LocalStep

LEMMA ReloadStep ==
  ASSUME IInv, NEW p \in Phone, Reload(p)
  PROVE  IInv'
<1> DEFINE v == View(p)
           w == [v EXCEPT !.roster = Nobody, !.buffer = NoBuffer, !.shown = Nobody]
<1>1. /\ TypeOK /\ Base /\ missed \subseteq Phone /\ RoomState(member) \in Roster
      /\ Follows(v, down[p], p \notin missed, RoomState(member), issued, link[p] \in live,
                 Speaks(p))
  BY AttunedIs
<1>2. /\ v \in Views /\ down[p] \in Seq(Event) /\ (p \notin missed) \in BOOLEAN
      /\ v.session = session[p]
  BY <1>1, ViewTyped
<1>3. /\ Become(p, w) /\ link' = [link EXCEPT ![p] = None] /\ down' = [down EXCEPT ![p] = << >>]
      /\ UNCHANGED server /\ missed' = missed \ {p} /\ session[p] # None
  BY DEF Reload
<1> HIDE DEF v
<1>4. /\ NoBuffer \in [MemberId -> Position \cup {None}] /\ \A k \in MemberId : NoBuffer[k] = None
      /\ Nobody \in Roster /\ \A k \in MemberId : Nobody[k] = Absent
  BY DEF NoBuffer, Nobody, Roster
<1>5. /\ w \in Views /\ w.session = v.session /\ w.roster = Nobody /\ w.shown = Nobody
      /\ w.buffer = NoBuffer
  BY <1>2, <1>4 DEF Views
<1> HIDE DEF w
<1>6. Sound(w, TRUE)
  <2>1. \A k \in MemberId : Drawn(Nobody, Nobody, w.session)[k] = Nobody[k]
    BY <1>4, DrawnIs
  <2>2. Drawn(Nobody, Nobody, w.session) \in Roster
    BY <1>4, DrawnIs
  <2>3. Drawn(Nobody, Nobody, w.session) = Nobody
    BY <1>4, <2>1, <2>2 DEF Roster
  <2> QED
    BY <1>4, <1>5, <2>3 DEF Sound
<1>7. ASSUME NEW g \in Marks, Under(v, g) PROVE Under(w, g)
  BY <1>4, <1>5, <1>7 DEF Under
<1>8. Follows(w, << >>, TRUE, RoomState(member), issued, FALSE, None)
  BY <1>1, <1>2, <1>5, <1>6, <1>7, Unlinks
<1>9. (None \in live) = FALSE /\ (p \notin missed') = TRUE
  BY <1>1, <1>3, Constants DEF TypeOK
<1>10. Follows(w, << >>, p \notin missed', RoomState(member), issued, None \in live,
               IF None = None THEN None ELSE bound[None])
  BY <1>8, <1>9
<1>11. << >> \in Seq(Event) /\ \A m \in MemberId : Entering(<< >>, m) => Entering(down[p], m)
  BY DEF Entering
<1>12. missed' \subseteq Phone /\ \A q \in Phone : q # p => (q \in missed' <=> q \in missed)
  BY <1>1, <1>3
<1> QED
  BY <1>2, <1>3, <1>5, <1>10, <1>11, <1>12, LocalStep

LEMMA ReceiveStep ==
  ASSUME IInv, NEW p \in Phone, Receive(p)
  PROVE  IInv'
<1> DEFINE v == View(p)
           s == down[p]
           e == Head(s)
           c == p \notin missed
           w == After(v, e)
<1>1. /\ TypeOK /\ Base /\ missed \subseteq Phone /\ RoomState(member) \in Roster
      /\ Follows(v, s, c, RoomState(member), issued, link[p] \in live, Speaks(p))
  BY AttunedIs
<1>2. v \in Views /\ s \in Seq(Event) /\ c \in BOOLEAN /\ v.session = session[p]
  BY <1>1, ViewTyped
<1>3. /\ s # << >> /\ Become(p, w) /\ down' = [down EXCEPT ![p] = Tail(s)]
      /\ missed' = IF e.type = "room_state" THEN missed \ {p} ELSE missed
      /\ link' = link /\ UNCHANGED server
  BY DEF Receive
<1>4. Follows(w, Tail(s), c \/ e.type = "room_state", RoomState(member), issued,
              link[p] \in live, Speaks(p))
  BY <1>1, <1>2, <1>3, Receives
<1> HIDE DEF v, s
<1>5. Len(s) \in Nat /\ 1 \in 1 .. Len(s) /\ e = s[1] /\ e \in Event /\ Tail(s) \in Seq(Event)
  BY <1>2, <1>3
<1> HIDE DEF e
<1>6. w \in Views
  BY <1>2, <1>5, AfterIsView
<1>7. w.session \in {session[p], None} \/ Entering(s, w.session)
  <2>1. e.type = "room_state" => w.session = e.self
    BY <1>2, <1>5, AfterRoomState
  <2>2. e.type # "room_state" => w.session \in {v.session, None}
    BY <1>2, <1>5, EventIs, AfterEnding, AfterJoined, AfterLeft, AfterUpdated, AfterPosition
  <2> HIDE DEF w
  <2> QED
    BY <1>2, <1>5, <2>1, <2>2 DEF Entering
<1> HIDE DEF w
<1>8. (p \notin missed') = (c \/ e.type = "room_state")
  BY <1>3 DEF c
<1>9. link[p] # None
  BY <1>1, <1>3 DEF TypeOK, s
<1>10. Follows(w, Tail(s), p \notin missed', RoomState(member), issued, link[p] \in live,
               IF link[p] = None THEN None ELSE bound[link[p]])
  BY <1>4, <1>8 DEF Speaks
<1>11. \A m \in MemberId : Entering(Tail(s), m) => Entering(s, m)
  BY <1>2, <1>3, EnteringLess
<1>12. link' = [link EXCEPT ![p] = link[p]]
  BY <1>1, <1>3, Unchanged
<1>13. missed' \subseteq Phone /\ \A q \in Phone : q # p => (q \in missed' <=> q \in missed)
  BY <1>1, <1>3
<1> QED
  BY <1>3, <1>5, <1>6, <1>7, <1>9, <1>10, <1>11, <1>12, <1>13, LocalStep DEF s

LEMMA GiveUpStep ==
  ASSUME IInv, NEW p \in Phone, GiveUp(p)
  PROVE  IInv'
<1> DEFINE v == View(p)
           s == down[p]
           c == p \notin missed
<1>1. /\ TypeOK /\ Base /\ missed \subseteq Phone /\ RoomState(member) \in Roster
      /\ Follows(v, s, c, RoomState(member), issued, link[p] \in live, Speaks(p))
  BY AttunedIs
<1>2. /\ v \in Views /\ s \in Seq(Event) /\ c \in BOOLEAN /\ v.session = session[p]
      /\ v.roster = roster[p] /\ v.buffer = buffer[p] /\ v.shown = shown[p]
      /\ Speaks(p) \in MemberId \cup {None}
  BY <1>1, ViewTyped
<1>3. PICK j \in 1 .. Len(s) : /\ s[j].type \in Answer
                               /\ down' = [down EXCEPT ![p] = SE!RemoveAt(s, j)]
  <2>1. DOMAIN s = 1 .. Len(s)
    BY <1>2
  <2> QED
    BY <2>1 DEF GiveUp
<1>4. missed' = missed \cup {p} /\ UNCHANGED <<session, link, roster, buffer, shown, server>>
  BY DEF GiveUp, phone
<1>5. link[p] # None
  <2>1. s # << >>
    BY <1>2, <1>3
  <2> QED
    BY <1>1, <2>1 DEF TypeOK
<1>6. Become(p, v)
  BY <1>1, <1>2, <1>4 DEF Become, TypeOK
<1> HIDE DEF v, s
<1> DEFINE q == SE!RemoveAt(s, j)
<1>7. Follows(v, q, FALSE, RoomState(member), issued, link[p] \in live, Speaks(p))
  BY <1>1, <1>2, <1>3, GivesUp
<1>8. q \in Seq(Event)
  BY <1>2, RemovedIs
<1>9. \A m \in MemberId : Entering(q, m) => Entering(s, m)
  BY <1>2, EnteringLess
<1>10. (p \notin missed') = FALSE
  BY <1>4
<1> HIDE DEF q
<1>11. Follows(v, q, p \notin missed', RoomState(member), issued, link[p] \in live,
               IF link[p] = None THEN None ELSE bound[link[p]])
  BY <1>7, <1>10 DEF Speaks
<1>12. /\ link' = [link EXCEPT ![p] = link[p]] /\ missed' \subseteq Phone
       /\ \A r \in Phone : r # p => (r \in missed' <=> r \in missed)
  BY <1>1, <1>4, Unchanged
<1>13. down' = [down EXCEPT ![p] = q] /\ UNCHANGED server
  BY <1>3, <1>4 DEF q
<1> QED
  BY <1>2, <1>5, <1>6, <1>8, <1>9, <1>11, <1>12, <1>13, LocalStep DEF s

-----------------------------------------------------------------------------
(* What the server does on its own preserves the invariant.                *)

LEMMA NewsAre ==
  ASSUME NEW m \in MemberId
  PROVE  /\ Joined(m) \in Event /\ Joined(m).type # "room_state"
         /\ Left(m) \in Event /\ Left(m).type # "room_state"
         /\ \A b \in BOOLEAN : Updated(m, b) \in Event /\ Updated(m, b).type # "room_state"
         /\ \A x \in Position : Moved(m, x) \in Event /\ Moved(m, x).type # "room_state"
         /\ Closed \in Event /\ Closed.type # "room_state"
<1>1. /\ Joined(m) \in Event /\ Left(m) \in Event /\ Closed \in Event
      /\ \A b \in BOOLEAN : Updated(m, b) \in Event
      /\ \A x \in Position : Moved(m, x) \in Event
  BY EventsAre
<1> QED
  BY <1>1 DEF Joined, Left, Updated, Moved, Closed

LEMMA ServerStep ==
  ASSUME IInv, UNCHANGED <<phone, issued, missed>>,
         member' \in [MemberId -> Member \cup {Absent}],
         \A m \in MemberId : member'[m] # Absent =>
           /\ member[m] # Absent
           /\ member'[m].card.connected = (member'[m].socket # None)
           /\ member'[m].socket \in live' => bound'[member'[m].socket] # None,
         live' \subseteq live, bound' \in [Socket -> MemberId \cup {None}],
         \A s \in Socket : bound'[s] \in {bound[s], None} /\ (bound'[s] # None => s \in live'),
         down' \in [Phone -> Seq(Event)],
         \A q \in Phone :
           /\ \A m \in MemberId : Entering(down'[q], m) => Entering(down[q], m)
           /\ link[q] = None => down'[q] = << >>
           /\ Follows(View(q), down'[q], q \notin missed, RoomState(member'), issued,
                      link[q] \in live', IF link[q] = None THEN None ELSE bound'[link[q]])
  PROVE  IInv'
<1>1. TypeOK /\ Base
  BY DEF IInv
<1>2. /\ session' = session /\ link' = link /\ roster' = roster /\ buffer' = buffer
      /\ shown' = shown /\ issued' = issued /\ missed' = missed
  BY DEF phone
<1>3. TypeOK'
  BY <1>1, <1>2 DEF TypeOK
<1>4. ASSUME NEW q \in Phone, NEW m \in MemberId, Owns(q, m)' PROVE Owns(q, m)
  <2>1. link[q] \in Socket \cup {None}
    BY <1>1, ViewTyped
  <2>2. session[q] = m \/ (link[q] # None /\ bound'[link[q]] = m) \/ Entering(down'[q], m)
    BY <1>2, <1>4, Constants DEF Owns, Speaks
  <2>3. ASSUME link[q] # None, bound'[link[q]] = m PROVE Speaks(q) = m
    <3>1. link[q] \in Socket
      BY <2>1, <2>3
    <3>2. bound'[link[q]] = bound[link[q]]
      BY <2>3, <3>1, Constants
    <3> QED
      BY <2>3, <3>2 DEF Speaks
  <2> QED
    BY <2>2, <2>3 DEF Owns
<1>5. Base'
  <2>1. (\A q, r \in Phone : q # r /\ link[q] # None => link[q] # link[r])'
    BY <1>1, <1>2 DEF Base
  <2>2. (\A q, r \in Phone, m \in MemberId : Owns(q, m) /\ Owns(r, m) => q = r)'
    BY <1>1, <1>4 DEF Base
  <2>3. (\A q \in Phone, m \in MemberId : Owns(q, m) => m \in issued)'
    BY <1>1, <1>2, <1>4 DEF Base
  <2>4. (\A q \in Phone : link[q] = None => buffer[q] = NoBuffer)'
    BY <1>1, <1>2 DEF Base, NoBuffer
  <2>5. (\A s \in Socket : bound[s] # None => s \in live)'
    OBVIOUS
  <2>6. (Present \subseteq issued /\ IsFiniteSet(issued))'
    BY <1>1, <1>2 DEF Base, Present
  <2>7. (\A m \in Present : member[m].socket \in live => bound[member[m].socket] # None)'
    BY DEF Present
  <2> QED
    BY <2>1, <2>2, <2>3, <2>4, <2>5, <2>6, <2>7 DEF Base
<1>6. ASSUME NEW q \in Phone PROVE Attuned(q)'
  <2>1. Follows(View(q), down'[q], q \notin missed, RoomState(member'), issued',
                link[q] \in live', IF link[q] = None THEN None ELSE bound'[link[q]])
    BY <1>2
  <2> QED
    BY <1>2, <2>1, OtherAttuned
<1> QED
  BY <1>3, <1>5, <1>6 DEF IInv

LEMMA AdvancesIs ==
  ASSUME NEW members \in Roster, NEW members2 \in Roster, NEW given, NEW given2,
         given \subseteq given2,
         \A k \in MemberId : members2[k] # Absent =>
           k \notin given \/ (members[k] # Absent /\ members2[k].pos = members[k].pos)
  PROVE  Advances(members, given, members2, given2)
<1>1. ASSUME NEW k \in MemberId, members[k] # Absent PROVE Upto(members[k].pos, members[k].pos)
  <2>1. members[k].pos \in Position \cup {None}
    BY <1>1 DEF Roster, Card
  <2> QED
    BY <2>1, UptoIs
<1>2. ASSUME NEW k \in MemberId, members2[k] # Absent, k \in given
      PROVE  members[k] # Absent /\ Upto(members[k].pos, members2[k].pos)
  BY <1>1, <1>2
<1> QED
  BY <1>2 DEF Advances

LEMMA WithoutIs ==
  ASSUME NEW members \in Roster, NEW m \in MemberId
  PROVE  /\ [members EXCEPT ![m] = Absent] \in Roster
         /\ \A k \in MemberId :
              [members EXCEPT ![m] = Absent][k] = IF k = m THEN Absent ELSE members[k]
         /\ \A given : Advances(members, given, [members EXCEPT ![m] = Absent], given)
<1>1. /\ [members EXCEPT ![m] = Absent] \in Roster
      /\ \A k \in MemberId :
           [members EXCEPT ![m] = Absent][k] = IF k = m THEN Absent ELSE members[k]
  BY DEF Roster
<1>2. \A given : Advances(members, given, [members EXCEPT ![m] = Absent], given)
  BY <1>1, AdvancesIs
<1> QED
  BY <1>1, <1>2

LEMMA UpdatedRosterIs ==
  ASSUME NEW members \in Roster, NEW m \in MemberId, NEW b \in BOOLEAN
  PROVE  /\ WithUpdated(members, Updated(m, b)) \in Roster
         /\ \A k \in MemberId :
              /\ WithUpdated(members, Updated(m, b))[k] = Absent <=> members[k] = Absent
              /\ members[k] # Absent =>
                   WithUpdated(members, Updated(m, b))[k]
                     = IF k = m THEN [members[k] EXCEPT !.connected = b] ELSE members[k]
         /\ \A given : Advances(members, given, WithUpdated(members, Updated(m, b)), given)
<1> DEFINE e == Updated(m, b)
           members2 == WithUpdated(members, e)
<1>1. e.id = m /\ e.connected = b
  BY DEF Updated
<1> HIDE DEF e
<1>2. members2 \in Roster
  BY <1>1, WithUpdatedIs
<1>3. ASSUME NEW k \in MemberId
      PROVE  /\ members2[k] = Absent <=> members[k] = Absent
             /\ members[k] # Absent => members2[k].pos = members[k].pos
             /\ k # m => members2[k] = members[k]
  BY <1>1, WithUpdatedIs
<1>4. members[m] # Absent => members2[m] = [members[m] EXCEPT !.connected = b]
  BY <1>1 DEF WithUpdated, Roster
<1> HIDE DEF members2
<1>5. \A given : Advances(members, given, members2, given)
  BY <1>2, <1>3, AdvancesIs
<1> QED
  BY <1>2, <1>3, <1>4, <1>5 DEF members2, e

LEMMA OfflineIs ==
  ASSUME NEW mem \in [MemberId -> Member \cup {Absent}], NEW gone
  PROVE  /\ Offline(mem, gone) \in [MemberId -> Member \cup {Absent}]
         /\ \A m \in MemberId :
              /\ Offline(mem, gone)[m] = Absent <=> mem[m] = Absent
              /\ mem[m] # Absent /\ m \notin gone => Offline(mem, gone)[m] = mem[m]
              /\ mem[m] # Absent /\ m \in gone =>
                   /\ Offline(mem, gone)[m].socket = None
                   /\ Offline(mem, gone)[m].card.connected = FALSE
                   /\ Offline(mem, gone)[m].card = [mem[m].card EXCEPT !.connected = FALSE]
<1>1. ASSUME NEW m \in MemberId, mem[m] # Absent
      PROVE  LET r == [mem[m] EXCEPT !.card.connected = FALSE, !.socket = None]
             IN  /\ r \in Member /\ r # Absent /\ r.socket = None /\ r.card.connected = FALSE
                 /\ r.card = [mem[m].card EXCEPT !.connected = FALSE]
  <2>1. mem[m] \in Member /\ mem[m].card \in Card
    BY <1>1 DEF Member
  <2>2. [mem[m].card EXCEPT !.connected = FALSE] \in Card
    BY <2>1 DEF Card
  <2>3. [mem[m].card EXCEPT !.connected = FALSE].connected = FALSE
    BY <2>1 DEF Card
  <2>4. [mem[m] EXCEPT !.card.connected = FALSE, !.socket = None]
          = [card |-> [mem[m].card EXCEPT !.connected = FALSE], socket |-> None]
    <3> DEFINE r == mem[m]
               c == [r.card EXCEPT !.connected = FALSE]
    <3>1. [r EXCEPT !.card.connected = FALSE, !.socket = None]
            = [[r EXCEPT !.card = c] EXCEPT !.socket = None]
      OBVIOUS
    <3>2. r = [card |-> r.card, socket |-> r.socket]
      BY <2>1 DEF Member
    <3> HIDE DEF c, r
    <3>3. [[r EXCEPT !.card = c] EXCEPT !.socket = None]
            = [[[card |-> r.card, socket |-> r.socket] EXCEPT !.card = c] EXCEPT !.socket = None]
      BY <3>2
    <3>4. [[card |-> r.card, socket |-> r.socket] EXCEPT !.card = c]
            = [card |-> c, socket |-> r.socket]
      OBVIOUS
    <3>5. [[card |-> c, socket |-> r.socket] EXCEPT !.socket = None]
            = [card |-> c, socket |-> None]
      OBVIOUS
    <3> QED
      BY <3>1, <3>3, <3>4, <3>5 DEF c, r
  <2> QED
    BY <2>2, <2>3, <2>4, AbsentAssumption DEF Member
<1>2. ASSUME NEW m \in MemberId
      PROVE  Offline(mem, gone)[m] =
               IF m \in gone /\ mem[m] # Absent
               THEN [mem[m] EXCEPT !.card.connected = FALSE, !.socket = None] ELSE mem[m]
  BY DEF Offline
<1>3. Offline(mem, gone) \in [MemberId -> Member \cup {Absent}]
  BY <1>1 DEF Offline
<1> QED
  BY <1>1, <1>2, <1>3

\* What the room is told of a member disconnected, and of nobody.
LEMMA OfflineRoomState ==
  ASSUME NEW mem \in [MemberId -> Member \cup {Absent}]
  PROVE  /\ Offline(mem, {}) = mem
         /\ \A m \in MemberId :
              RoomState(Offline(mem, {m})) = WithUpdated(RoomState(mem), Updated(m, FALSE))
<1>1. Offline(mem, {}) = mem
  BY DEF Offline
<1>2. ASSUME NEW m \in MemberId
      PROVE  RoomState(Offline(mem, {m})) = WithUpdated(RoomState(mem), Updated(m, FALSE))
  <2> DEFINE off == Offline(mem, {m})
             members == WithUpdated(RoomState(mem), Updated(m, FALSE))
  <2>1. RoomState(mem) \in Roster
    BY RoomStateIs
  <2>2. off \in [MemberId -> Member \cup {Absent}] /\ members \in Roster
    BY <2>1, OfflineIs, UpdatedRosterIs
  <2>3. ASSUME NEW k \in MemberId PROVE members[k] = IF off[k] = Absent THEN Absent ELSE off[k].card
    <3>1. /\ RoomState(mem)[k] = Absent <=> mem[k] = Absent
          /\ mem[k] # Absent => RoomState(mem)[k] = mem[k].card
      BY RoomStateIs
    <3>2. /\ members[k] = Absent <=> RoomState(mem)[k] = Absent
          /\ RoomState(mem)[k] # Absent =>
               members[k] = IF k = m THEN [RoomState(mem)[k] EXCEPT !.connected = FALSE]
                            ELSE RoomState(mem)[k]
      BY <2>1, UpdatedRosterIs
    <3>3. /\ off[k] = Absent <=> mem[k] = Absent
          /\ mem[k] # Absent /\ k # m => off[k] = mem[k]
          /\ mem[k] # Absent /\ k = m => off[k].card = [mem[k].card EXCEPT !.connected = FALSE]
      BY OfflineIs
    <3> QED
      BY <3>1, <3>2, <3>3
  <2> HIDE DEF off, members
  <2>4. RoomState(off) = members
    BY <2>2, <2>3, RoomStateEquals
  <2> QED
    BY <2>4 DEF off, members
<1> QED
  BY <1>1, <1>2

LEMMA HolderIs ==
  ASSUME TypeOK, NEW s \in Socket
  PROVE  \/ Holder(s) = {}
         \/ /\ bound[s] \in MemberId /\ bound[s] # None /\ bound[s] \in Present
            /\ Holder(s) = {bound[s]}
  BY Constants DEF TypeOK, Holder, Present

\* A connection cut.
LEMMA CutOffIs ==
  ASSUME TypeOK, NEW cut, CutOff(cut)
  PROVE  /\ live' = live \ cut /\ live' \subseteq live
         /\ bound' \in [Socket -> MemberId \cup {None}]
         /\ \A s \in Socket : bound'[s] = IF s \in cut THEN None ELSE bound[s]
  BY DEF TypeOK, CutOff

\* A phone whose connection the server holds for up, in the room.
LEMMA HearerIs ==
  ASSUME IInv, NEW q \in Phone, link[q] \in live, Speaks(q) # None
  PROVE  /\ View(q) \in Views /\ down[q] \in Seq(Event) /\ (q \notin missed) \in BOOLEAN
         /\ RoomState(member) \in Roster /\ issued \subseteq MemberId
         /\ Speaks(q) \in MemberId /\ Speaks(q) \in issued
         /\ Follows(View(q), down[q], q \notin missed, RoomState(member), issued,
                    TRUE, Speaks(q))
<1>1. /\ TypeOK /\ Base /\ RoomState(member) \in Roster
      /\ Follows(View(q), down[q], q \notin missed, RoomState(member), issued,
                 link[q] \in live, Speaks(q))
  BY AttunedIs
<1>2. /\ View(q) \in Views /\ down[q] \in Seq(Event) /\ (q \notin missed) \in BOOLEAN
      /\ Speaks(q) \in MemberId
  BY <1>1, ViewTyped
<1>3. Speaks(q) \in issued
  BY <1>1, <1>2 DEF Base, Owns
<1>4. (link[q] \in live) = TRUE
  OBVIOUS
<1> QED
  BY <1>1, <1>2, <1>3, <1>4 DEF TypeOK

\* What such a phone hears of.
LEMMA PhoneHears ==
  ASSUME IInv, NEW q \in Phone, link[q] \in live, Speaks(q) # None, NEW m \in MemberId
  PROVE  LET R == RoomState(member)
             Abides(news, R2, given2) ==
               Follows(View(q), down[q] \o news, q \notin missed, R2, given2, TRUE, Speaks(q))
         IN  /\ Abides(<< >>, R, issued)
             /\ Abides(<< Left(m) >>, [R EXCEPT ![m] = Absent], issued)
             /\ \A x \in BOOLEAN :
                  Abides(<< Updated(m, x) >>, WithUpdated(R, Updated(m, x)), issued)
             /\ \A k \in MemberId :
                  Abides(<< Updated(k, FALSE), Left(m) >>,
                         [WithUpdated(R, Updated(k, FALSE)) EXCEPT ![m] = Absent], issued)
             /\ m \notin issued =>
                  Abides(<< Joined(m) >>,
                         [R EXCEPT ![m] = [connected |-> TRUE, pos |-> None]], issued \cup {m})
             /\ m \notin issued =>
                  \A k \in MemberId :
                    Abides(<< Left(k), Joined(m) >>,
                           [[R EXCEPT ![k] = Absent]
                              EXCEPT ![m] = [connected |-> TRUE, pos |-> None]],
                           issued \cup {m})
             /\ m \in issued /\ m # Speaks(q) /\ R[m] # Absent =>
                  \A x \in Position : Upto(R[m].pos, x) =>
                    Abides(<< Moved(m, x) >>, [R EXCEPT ![m] = [R[m] EXCEPT !.pos = x]], issued)
<1> DEFINE R == RoomState(member)
           v == View(q)
           s == down[q]
           c == q \notin missed
           b == Speaks(q)
<1>1. /\ v \in Views /\ s \in Seq(Event) /\ c \in BOOLEAN
      /\ R \in Roster /\ b \in MemberId /\ b \in issued /\ issued \subseteq MemberId
      /\ Follows(v, s, c, R, issued, TRUE, b)
  BY HearerIs
<1> HIDE DEF R, v, s, c, b
<1>2. Follows(v, s \o << >>, c, R, issued, TRUE, b)
  <2>1. s \o << >> = s
    BY <1>1
  <2> QED
    BY <1>1, <2>1
<1>3. Follows(v, s \o << Left(m) >>, c, [R EXCEPT ![m] = Absent], issued, TRUE, b)
  <2>1. Left(m) \in Event
    BY NewsAre
  <2>2. s \o << Left(m) >> = Append(s, Left(m))
    BY <1>1, <2>1, OneOrTwo
  <2>3. Follows(v, Append(s, Left(m)), c, [R EXCEPT ![m] = Absent], issued, TRUE, b)
    BY <1>1, HearsLeft
  <2> QED
    BY <2>2, <2>3
<1>4. ASSUME NEW k \in MemberId, NEW x \in BOOLEAN
      PROVE  /\ s \o << Updated(k, x) >> = Append(s, Updated(k, x))
             /\ Follows(v, Append(s, Updated(k, x)), c, WithUpdated(R, Updated(k, x)),
                        issued, TRUE, b)
  <2>1. Updated(k, x) \in Event
    BY NewsAre
  <2>2. s \o << Updated(k, x) >> = Append(s, Updated(k, x))
    BY <1>1, <2>1, OneOrTwo
  <2> QED
    BY <1>1, <2>2, HearsUpdated
<1>5. ASSUME NEW k \in MemberId
      PROVE  Follows(v, s \o << Updated(k, FALSE), Left(m) >>, c,
                     [WithUpdated(R, Updated(k, FALSE)) EXCEPT ![m] = Absent], issued, TRUE, b)
  <2> DEFINE e == Updated(k, FALSE)
             R1 == WithUpdated(R, e)
  <2>1. e \in Event /\ Left(m) \in Event /\ R1 \in Roster
    BY <1>1, NewsAre, UpdatedRosterIs
  <2>2. Follows(v, Append(s, e), c, R1, issued, TRUE, b)
    BY <1>4
  <2> HIDE DEF e, R1
  <2>3. s \o << e, Left(m) >> = Append(Append(s, e), Left(m)) /\ Append(s, e) \in Seq(Event)
    BY <1>1, <2>1, OneOrTwo
  <2> DEFINE z == Append(s, e)
  <2> HIDE DEF z
  <2>4. Follows(v, Append(z, Left(m)), c, [R1 EXCEPT ![m] = Absent], issued, TRUE, b)
    BY <1>1, <2>1, <2>2, <2>3, HearsLeft DEF z
  <2> QED
    BY <2>3, <2>4 DEF e, R1, z
<1>6. m \notin issued =>
        Follows(v, s \o << Joined(m) >>, c,
                [R EXCEPT ![m] = [connected |-> TRUE, pos |-> None]], issued \cup {m}, TRUE, b)
  <2>1. Joined(m) \in Event
    BY NewsAre
  <2>2. s \o << Joined(m) >> = Append(s, Joined(m))
    BY <1>1, <2>1, OneOrTwo
  <2>3. m \notin issued =>
          Follows(v, Append(s, Joined(m)), c,
                  [R EXCEPT ![m] = [connected |-> TRUE, pos |-> None]], issued \cup {m}, TRUE, b)
    BY <1>1, HearsJoined
  <2> QED
    BY <2>2, <2>3
<1>7. ASSUME m \notin issued, NEW k \in MemberId
      PROVE  Follows(v, s \o << Left(k), Joined(m) >>, c,
                     [[R EXCEPT ![k] = Absent] EXCEPT ![m] = [connected |-> TRUE, pos |-> None]],
                     issued \cup {m}, TRUE, b)
  <2> DEFINE e == Left(k)
             R1 == [R EXCEPT ![k] = Absent]
  <2>1. e \in Event /\ Joined(m) \in Event /\ R1 \in Roster
    BY <1>1, NewsAre, WithoutIs
  <2>2. Follows(v, Append(s, e), c, R1, issued, TRUE, b)
    BY <1>1, HearsLeft
  <2> HIDE DEF e, R1
  <2>3. s \o << e, Joined(m) >> = Append(Append(s, e), Joined(m)) /\ Append(s, e) \in Seq(Event)
    BY <1>1, <2>1, OneOrTwo
  <2> DEFINE z == Append(s, e)
  <2> HIDE DEF z
  <2>4. Follows(v, Append(z, Joined(m)), c,
                [R1 EXCEPT ![m] = [connected |-> TRUE, pos |-> None]], issued \cup {m}, TRUE, b)
    BY <1>1, <1>7, <2>1, <2>2, <2>3, HearsJoined DEF z
  <2> QED
    BY <2>3, <2>4 DEF e, R1, z
<1>8. ASSUME m \in issued, m # b, R[m] # Absent, NEW x \in Position, Upto(R[m].pos, x)
      PROVE  Follows(v, s \o << Moved(m, x) >>, c,
                     [R EXCEPT ![m] = [R[m] EXCEPT !.pos = x]], issued, TRUE, b)
  <2>1. Moved(m, x) \in Event
    BY NewsAre
  <2>2. s \o << Moved(m, x) >> = Append(s, Moved(m, x))
    BY <1>1, <2>1, OneOrTwo
  <2>3. Follows(v, Append(s, Moved(m, x)), c,
                [R EXCEPT ![m] = [R[m] EXCEPT !.pos = x]], issued, TRUE, b)
    BY <1>1, <1>8, HearsMoved
  <2> QED
    BY <2>2, <2>3
<1>9. \A x \in BOOLEAN : Follows(v, s \o << Updated(m, x) >>, c, WithUpdated(R, Updated(m, x)),
                                 issued, TRUE, b)
  BY <1>4
<1> QED
  BY <1>2, <1>3, <1>5, <1>6, <1>7, <1>8, <1>9 DEF R, v, s, c, b

\* A phone off or outside the room stays where it is.
LEMMA StaysOut ==
  ASSUME IInv, NEW q \in Phone, NEW R2 \in Roster, NEW given2,
         Advances(RoomState(member), issued, R2, given2),
         NEW up2 \in BOOLEAN, NEW b2 \in MemberId \cup {None},
         up2 => link[q] \in live /\ Speaks(q) = None /\ b2 = None
  PROVE  Follows(View(q), down[q], q \notin missed, R2, given2, up2, b2)
<1> DEFINE R == RoomState(member)
           v == View(q)
           s == down[q]
           c == q \notin missed
           up == link[q] \in live
           b == Speaks(q)
<1>1. TypeOK /\ R \in Roster /\ Follows(v, s, c, R, issued, up, b)
  BY AttunedIs
<1>2. /\ v \in Views /\ s \in Seq(Event) /\ c \in BOOLEAN /\ up \in BOOLEAN
      /\ b \in MemberId \cup {None}
  BY <1>1, ViewTyped
<1>3. Advances(R, issued, R2, given2) /\ (up2 => up /\ b = None /\ b2 = None)
  OBVIOUS
<1> HIDE DEF R, v, s, c, up, b
<1>4. Follows(v, s, c, R2, given2, up2, b2)
  BY <1>1, <1>2, <1>3, NotTold
<1> QED
  BY <1>4 DEF v, s, c

\* A phone to which the server sends no more than what the whole room is told.
LEMMA RoomIsTold ==
  ASSUME IInv, NEW news \in Seq(Event),
         \A i \in 1 .. Len(news) : news[i].type # "room_state",
         NEW except, NEW q \in Phone, NEW R2 \in Roster, NEW given2,
         Advances(RoomState(member), issued, R2, given2),
         NEW up2 \in BOOLEAN, up2 <=> link[q] \in live \ except,
         NEW b2 \in MemberId \cup {None}, up2 => b2 = Speaks(q),
         link[q] \in live \ except /\ Speaks(q) # None =>
           Follows(View(q), down[q] \o news, q \notin missed, R2, given2, TRUE, Speaks(q))
  PROVE  /\ \A k \in MemberId : Entering(ToRoom(news, except)[q], k) => Entering(down[q], k)
         /\ link[q] = None => ToRoom(news, except)[q] = << >>
         /\ Follows(View(q), ToRoom(news, except)[q], q \notin missed, R2, given2, up2, b2)
<1> DEFINE s == ToRoom(news, except)[q]
<1>1. TypeOK /\ down[q] \in Seq(Event)
  BY ViewTyped DEF IInv
<1>2. s = IF link[q] \in live \ except /\ Speaks(q) # None THEN down[q] \o news ELSE down[q]
  BY <1>1, ToRoomIs
<1> HIDE DEF s
<1>3. ASSUME NEW k \in MemberId, Entering(down[q] \o news, k) PROVE Entering(down[q], k)
  <2>1. PICK i \in 1 .. Len(down[q] \o news) :
          (down[q] \o news)[i].type = "room_state" /\ (down[q] \o news)[i].self = k
    BY <1>3 DEF Entering
  <2>2. /\ Len(down[q] \o news) = Len(down[q]) + Len(news)
        /\ (down[q] \o news)[i] = IF i <= Len(down[q]) THEN down[q][i]
                                  ELSE news[i - Len(down[q])]
        /\ i <= Len(down[q]) => i \in 1 .. Len(down[q])
        /\ ~ (i <= Len(down[q])) => i - Len(down[q]) \in 1 .. Len(news)
    BY <1>1
  <2> QED
    BY <2>1, <2>2 DEF Entering
<1>4. link[q] = None => s = << >>
  BY <1>1, <1>2, Constants DEF TypeOK
<1>5. Follows(View(q), s, q \notin missed, R2, given2, up2, b2)
  <2>1. CASE link[q] \in live \ except /\ Speaks(q) # None
    <3>1. up2 = TRUE /\ b2 = Speaks(q) /\ s = down[q] \o news
      BY <1>2, <2>1
    <3> QED
      BY <2>1, <3>1
  <2>2. CASE ~ (link[q] \in live \ except /\ Speaks(q) # None)
    <3>1. up2 => link[q] \in live /\ Speaks(q) = None /\ b2 = None
      BY <2>2
    <3>2. Follows(View(q), down[q], q \notin missed, R2, given2, up2, b2)
      BY <3>1, StaysOut
    <3> QED
      BY <1>2, <2>2, <3>2
  <2> QED
    BY <2>1, <2>2
<1> QED
  BY <1>2, <1>3, <1>4, <1>5 DEF s

\* A member gone offline with the connection it was on.
LEMMA OfflineMembers ==
  ASSUME IInv, NEW mem \in [MemberId -> Member \cup {Absent}], NEW gone, NEW cut,
         \A m \in MemberId : mem[m] # Absent => mem[m] = member[m],
         member' = Offline(mem, gone), CutOff(cut)
  PROVE  \A m \in MemberId : member'[m] # Absent =>
           /\ member[m] # Absent
           /\ member'[m].card.connected = (member'[m].socket # None)
           /\ member'[m].socket \in live' => bound'[member'[m].socket] # None
<1> SUFFICES ASSUME NEW m \in MemberId, member'[m] # Absent
             PROVE  /\ member[m] # Absent
                    /\ member'[m].card.connected = (member'[m].socket # None)
                    /\ member'[m].socket \in live' => bound'[member'[m].socket] # None
  OBVIOUS
<1>1. TypeOK /\ Base
  BY DEF IInv
<1>2. /\ live' = live \ cut /\ live' \subseteq live
      /\ \A x \in Socket : bound'[x] = IF x \in cut THEN None ELSE bound[x]
  BY <1>1, CutOffIs
<1>3. \A k \in MemberId :
        /\ Offline(mem, gone)[k] = Absent <=> mem[k] = Absent
        /\ mem[k] # Absent /\ k \notin gone => Offline(mem, gone)[k] = mem[k]
        /\ mem[k] # Absent /\ k \in gone =>
             /\ Offline(mem, gone)[k].socket = None
             /\ Offline(mem, gone)[k].card.connected = FALSE
             /\ Offline(mem, gone)[k].card = [mem[k].card EXCEPT !.connected = FALSE]
  BY OfflineIs
<1>4. /\ mem[m] # Absent /\ mem[m] = member[m]
      /\ m \notin gone => member'[m] = member[m]
      /\ m \in gone => member'[m].socket = None /\ member'[m].card.connected = FALSE
  BY <1>3
<1>5. /\ member[m].card.connected = (member[m].socket # None)
      /\ member[m].socket \in live => bound[member[m].socket] # None
  BY <1>1, <1>4 DEF TypeOK, Base, Present
<1>6. None \notin live' /\ live' \subseteq Socket
  BY <1>1, <1>2, Constants DEF TypeOK
<1>7. CASE m \in gone
  BY <1>4, <1>6, <1>7
<1>8. CASE m \notin gone
  <2>1. ASSUME member[m].socket \in live' PROVE bound'[member[m].socket] # None
    <3>1. /\ member[m].socket \in live /\ member[m].socket \in Socket
          /\ member[m].socket \notin cut
      BY <1>2, <1>6, <2>1
    <3> QED
      BY <1>2, <1>5, <3>1
  <2> QED
    BY <1>4, <1>5, <1>8, <2>1
<1> QED
  BY <1>7, <1>8

LEMMA DisconnectStep ==
  ASSUME IInv, NEW s \in Socket, Disconnect(s)
  PROVE  IInv'
<1> DEFINE R == RoomState(member)
           R2 == RoomState(member')
           gone == Holder(s)
           b == bound[s]
           news == SE!SetToSeq({Updated(m, FALSE) : m \in gone})
<1>1. /\ TypeOK /\ Base /\ member \in [MemberId -> Member \cup {Absent}]
      /\ R \in Roster /\ RoomState(member') = R2
  BY RoomStateIs DEF IInv, TypeOK
<1>2. /\ member' = Offline(member, gone) /\ CutOff({s}) /\ down' = ToRoom(news, {s})
      /\ UNCHANGED <<phone, issued, missed>>
  BY DEF Disconnect
<1>3. /\ live' = live \ {s} /\ live' \subseteq live
      /\ bound' \in [Socket -> MemberId \cup {None}]
      /\ \A x \in Socket : bound'[x] = IF x \in {s} THEN None ELSE bound[x]
  BY <1>1, <1>2, CutOffIs
<1>4. \/ news = << >> /\ R2 = R
      \/ b \in MemberId /\ news = << Updated(b, FALSE) >> /\ R2 = WithUpdated(R, Updated(b, FALSE))
  <2>1. gone = {} \/ (b \in MemberId /\ gone = {b})
    BY <1>1, HolderIs
  <2>2. CASE gone = {}
    <3>1. {Updated(m, FALSE) : m \in gone} = {}
      BY <2>2
    <3>2. Offline(member, gone) = member
      BY <1>1, <2>2, OfflineRoomState
    <3> QED
      BY <1>2, <3>1, <3>2, SetToSeqOfNone
  <2>3. CASE b \in MemberId /\ gone = {b}
    <3>1. {Updated(m, FALSE) : m \in gone} = {Updated(b, FALSE)}
      BY <2>3
    <3>2. RoomState(Offline(member, {b})) = WithUpdated(R, Updated(b, FALSE))
      BY <1>1, <2>3, OfflineRoomState
    <3> QED
      BY <1>2, <2>3, <3>1, <3>2, SetToSeqOfOne
  <2> QED
    BY <2>1, <2>2, <2>3
<1>5. member' \in [MemberId -> Member \cup {Absent}]
  BY <1>1, <1>2, OfflineIs
<1>6. \A m \in MemberId : member'[m] # Absent =>
        /\ member[m] # Absent
        /\ member'[m].card.connected = (member'[m].socket # None)
        /\ member'[m].socket \in live' => bound'[member'[m].socket] # None
  BY <1>1, <1>2, OfflineMembers
<1>7. R2 \in Roster
  BY <1>5, RoomStateIs
<1> HIDE DEF R, R2, gone, news
<1>8. /\ news \in Seq(Event) /\ \A i \in 1 .. Len(news) : news[i].type # "room_state"
      /\ Advances(R, issued, R2, issued)
  <2>1. CASE news = << >> /\ R2 = R
    <3>1. Advances(R, issued, R, issued)
      BY <1>1, AdvancesIs
    <3> QED
      BY <2>1, <3>1
  <2>2. CASE /\ b \in MemberId /\ news = << Updated(b, FALSE) >>
             /\ R2 = WithUpdated(R, Updated(b, FALSE))
    <3> DEFINE e == Updated(b, FALSE)
    <3>1. e \in Event /\ e.type # "room_state"
      BY <2>2, NewsAre
    <3>2. Advances(R, issued, WithUpdated(R, e), issued)
      BY <1>1, <2>2, UpdatedRosterIs
    <3> HIDE DEF e
    <3>3. << e >> \in Seq(Event) /\ \A i \in 1 .. Len(<< e >>) : << e >>[i].type # "room_state"
      BY <3>1
    <3> QED
      BY <2>2, <3>2, <3>3 DEF e
  <2> QED
    BY <1>4, <2>1, <2>2
<1>9. down' \in [Phone -> Seq(Event)]
  BY <1>1, <1>2, <1>8, ToRoomIs
<1>10. ASSUME NEW q \in Phone
       PROVE  /\ \A m \in MemberId : Entering(down'[q], m) => Entering(down[q], m)
              /\ link[q] = None => down'[q] = << >>
              /\ Follows(View(q), down'[q], q \notin missed, R2, issued,
                         link[q] \in live', IF link[q] = None THEN None ELSE bound'[link[q]])
  <2> DEFINE except == {s}
             up2 == link[q] \in live'
             b2 == IF link[q] = None THEN None ELSE bound'[link[q]]
  <2>1. link[q] \in Socket \cup {None} /\ None \notin live
    BY <1>1, ViewTyped, Constants DEF TypeOK
  <2>2. /\ up2 \in BOOLEAN /\ (up2 <=> link[q] \in live \ except)
        /\ b2 \in MemberId \cup {None} /\ (up2 => b2 = Speaks(q))
    BY <1>3, <2>1 DEF Speaks
  <2> HIDE DEF except, up2, b2
  <2>3. ASSUME link[q] \in live \ except, Speaks(q) # None
        PROVE  Follows(View(q), down[q] \o news, q \notin missed, R2, issued, TRUE, Speaks(q))
    <3>1. Follows(View(q), down[q] \o << >>, q \notin missed, R, issued, TRUE, Speaks(q))
      <4>1. /\ down[q] \in Seq(Event)
            /\ Follows(View(q), down[q], q \notin missed, R, issued, TRUE, Speaks(q))
        BY <2>3, HearerIs DEF R
      <4>2. down[q] \o << >> = down[q]
        BY <4>1
      <4> QED
        BY <4>1, <4>2
    <3>2. b \in MemberId =>
            Follows(View(q), down[q] \o << Updated(b, FALSE) >>, q \notin missed,
                    WithUpdated(R, Updated(b, FALSE)), issued, TRUE, Speaks(q))
      BY <2>3, PhoneHears DEF R
    <3> QED
      BY <1>4, <3>1, <3>2
  <2>4. Advances(RoomState(member), issued, R2, issued)
    BY <1>8 DEF R
  <2>5. /\ \A m \in MemberId : Entering(ToRoom(news, except)[q], m) => Entering(down[q], m)
        /\ link[q] = None => ToRoom(news, except)[q] = << >>
        /\ Follows(View(q), ToRoom(news, except)[q], q \notin missed, R2, issued, up2, b2)
    BY <1>7, <1>8, <2>2, <2>3, <2>4, RoomIsTold
  <2> QED
    BY <1>2, <2>5 DEF except, up2, b2
<1>11. \A x \in Socket : bound'[x] \in {bound[x], None} /\ (bound'[x] # None => x \in live')
  BY <1>1, <1>3 DEF Base
<1>12. UNCHANGED <<phone, issued, missed>> /\ RoomState(member') = R2
  BY <1>1, <1>2
<1> QED
  BY <1>3, <1>5, <1>6, <1>9, <1>10, <1>11, <1>12, ServerStep

LEMMA TimeOutStep ==
  ASSUME IInv, NEW m \in MemberId, TimeOut(m)
  PROVE  IInv'
<1> DEFINE R == RoomState(member)
           R2 == [R EXCEPT ![m] = Absent]
           news == << Left(m) >>
<1>1. TypeOK /\ Base /\ member \in [MemberId -> Member \cup {Absent}]
  BY DEF IInv, TypeOK
<1>2. /\ member' = [member EXCEPT ![m] = Absent] /\ down' = ToRoom(news, {})
      /\ UNCHANGED <<phone, issued, live, bound, missed>>
  BY DEF TimeOut
<1>3. /\ member' \in [MemberId -> Member \cup {Absent}]
      /\ \A k \in MemberId : member'[k] = IF k = m THEN Absent ELSE member[k]
  BY <1>1, <1>2
<1>4. /\ R \in Roster /\ R2 \in Roster /\ Advances(R, issued, R2, issued)
      /\ \A k \in MemberId : R2[k] = IF k = m THEN Absent ELSE R[k]
      /\ \A k \in MemberId : R[k] = IF member[k] = Absent THEN Absent ELSE member[k].card
  BY <1>1, RoomStateIs, WithoutIs
<1>5. Left(m) \in Event /\ Left(m).type # "room_state"
  BY NewsAre
<1>6. news \in Seq(Event) /\ \A i \in 1 .. Len(news) : news[i].type # "room_state"
  <2> DEFINE e == Left(m)
  <2> HIDE DEF e
  <2>1. << e >> \in Seq(Event) /\ \A i \in 1 .. Len(<< e >>) : << e >>[i].type # "room_state"
    BY <1>5 DEF e
  <2> QED
    BY <2>1 DEF e
<1> HIDE DEF R2, R, news
<1>7. RoomState(member') = R2
  BY <1>3, <1>4, RoomStateEquals
<1>8. down' \in [Phone -> Seq(Event)]
  BY <1>1, <1>2, <1>6, ToRoomIs
<1>9. ASSUME NEW q \in Phone
      PROVE  /\ \A k \in MemberId : Entering(down'[q], k) => Entering(down[q], k)
             /\ link[q] = None => down'[q] = << >>
             /\ Follows(View(q), down'[q], q \notin missed, R2, issued,
                        link[q] \in live', IF link[q] = None THEN None ELSE bound'[link[q]])
  <2> DEFINE up2 == link[q] \in live
             b2 == Speaks(q)
  <2>1. /\ up2 \in BOOLEAN /\ (up2 <=> link[q] \in live \ {})
        /\ b2 \in MemberId \cup {None} /\ (up2 => b2 = Speaks(q))
    BY <1>1, ViewTyped
  <2> HIDE DEF up2, b2
  <2>2. ASSUME link[q] \in live \ {}, Speaks(q) # None
        PROVE  Follows(View(q), down[q] \o news, q \notin missed, R2, issued, TRUE, Speaks(q))
    BY <2>2, PhoneHears DEF R, R2, news
  <2>3. Advances(RoomState(member), issued, R2, issued)
    BY <1>4 DEF R
  <2>4. /\ \A k \in MemberId : Entering(ToRoom(news, {})[q], k) => Entering(down[q], k)
        /\ link[q] = None => ToRoom(news, {})[q] = << >>
        /\ Follows(View(q), ToRoom(news, {})[q], q \notin missed, R2, issued, up2, b2)
    BY <1>4, <1>6, <2>1, <2>2, <2>3, RoomIsTold, ZenonT(60)
  <2>5. live' = live /\ b2 = IF link[q] = None THEN None ELSE bound'[link[q]]
    BY <1>2 DEF Speaks, b2
  <2> QED
    BY <1>2, <2>4, <2>5 DEF up2
<1>10. \A k \in MemberId : member'[k] # Absent =>
         /\ member[k] # Absent
         /\ member'[k].card.connected = (member'[k].socket # None)
         /\ member'[k].socket \in live' => bound'[member'[k].socket] # None
  BY <1>1, <1>2, <1>3 DEF TypeOK, Base, Present
<1>11. /\ live' \subseteq live /\ bound' \in [Socket -> MemberId \cup {None}]
       /\ \A s \in Socket : bound'[s] \in {bound[s], None} /\ (bound'[s] # None => s \in live')
  BY <1>1, <1>2 DEF TypeOK, Base
<1>12. UNCHANGED <<phone, issued, missed>>
  BY <1>2
<1> QED
  BY <1>3, <1>7, <1>8, <1>9, <1>10, <1>11, <1>12, ServerStep

LEMMA CloseRoomStep ==
  ASSUME IInv, CloseRoom
  PROVE  IInv'
<1> DEFINE news == << Closed >>
<1>1. TypeOK /\ Base
  BY DEF IInv
<1>2. /\ member' = Nobody /\ down' = ToRoom(news, {}) /\ bound' = [s \in Socket |-> None]
      /\ UNCHANGED <<phone, issued, live, missed>>
  BY DEF CloseRoom
<1>3. /\ member' \in [MemberId -> Member \cup {Absent}] /\ Nobody \in Roster
      /\ \A k \in MemberId : member'[k] = Absent /\ Nobody[k] = Absent
  BY <1>2 DEF Nobody, Roster
<1>4. RoomState(member') = Nobody /\ Advances(RoomState(member), issued, Nobody, issued)
  BY <1>3, RoomStateEquals DEF Advances
<1>5. Closed \in Event /\ Closed.type # "room_state" /\ news \in Seq(Event)
  BY EventsAre DEF Closed
<1> HIDE DEF news
<1>6. /\ down' \in [Phone -> Seq(Event)]
      /\ \A q \in Phone : down'[q] = IF link[q] \in live \ {} /\ Speaks(q) # None
                                     THEN down[q] \o news ELSE down[q]
  BY <1>1, <1>2, <1>5, ToRoomIs
<1>7. ASSUME NEW q \in Phone
      PROVE  /\ \A k \in MemberId : Entering(down'[q], k) => Entering(down[q], k)
             /\ link[q] = None => down'[q] = << >>
             /\ Follows(View(q), down'[q], q \notin missed, Nobody, issued,
                        link[q] \in live', IF link[q] = None THEN None ELSE bound'[link[q]])
  <2> DEFINE up2 == link[q] \in live
  <2>1. link[q] \in Socket \cup {None} /\ None \notin live /\ up2 \in BOOLEAN
    BY <1>1, ViewTyped, Constants DEF TypeOK
  <2>2. live' = live /\ (IF link[q] = None THEN None ELSE bound'[link[q]]) = None
    BY <1>2, <2>1
  <2>3. CASE link[q] \in live /\ Speaks(q) # None
    <3>1. /\ View(q) \in Views /\ down[q] \in Seq(Event) /\ (q \notin missed) \in BOOLEAN
          /\ RoomState(member) \in Roster /\ Speaks(q) \in MemberId
          /\ Follows(View(q), down[q], q \notin missed, RoomState(member), issued,
                     TRUE, Speaks(q))
      BY <2>3, HearerIs
    <3>2. down'[q] = Append(down[q], Closed)
      <4>1. down'[q] = down[q] \o << Closed >>
        BY <1>6, <2>3 DEF news
      <4> QED
        BY <1>5, <3>1, <4>1, OneOrTwo
    <3>3. \A k \in MemberId : Entering(down'[q], k) => Entering(down[q], k)
      BY <1>5, <3>1, <3>2, EnteringAppend
    <3> DEFINE v == View(q)
               c == q \notin missed
    <3> HIDE DEF v, c, up2
    <3>4. Follows(v, Append(down[q], Closed), c, Nobody, issued, up2, None)
      BY <1>3, <1>4, <3>1, HearsClosed DEF v, c
    <3> QED
      BY <2>1, <2>2, <2>3, <3>2, <3>3, <3>4 DEF v, c, up2
  <2>4. CASE ~ (link[q] \in live /\ Speaks(q) # None)
    <3>1. down'[q] = down[q]
      BY <1>6, <2>4
    <3>2. up2 => link[q] \in live /\ Speaks(q) = None
      BY <2>4
    <3> HIDE DEF up2
    <3>3. Follows(View(q), down[q], q \notin missed, Nobody, issued, up2, None)
      BY <1>3, <1>4, <2>1, <3>2, StaysOut
    <3> QED
      BY <1>1, <2>2, <3>1, <3>3 DEF TypeOK, up2
  <2> QED
    BY <2>3, <2>4
<1>8. /\ live' \subseteq live /\ bound' \in [Socket -> MemberId \cup {None}]
      /\ \A s \in Socket : bound'[s] \in {bound[s], None} /\ (bound'[s] # None => s \in live')
  BY <1>2
<1>9. UNCHANGED <<phone, issued, missed>>
  BY <1>2
<1> QED
  BY <1>3, <1>4, <1>6, <1>7, <1>8, <1>9, ServerStep

\* Of a member removed.
LEMMA RoomStateWithout ==
  ASSUME NEW mem \in [MemberId -> Member \cup {Absent}], NEW m \in MemberId
  PROVE  /\ [mem EXCEPT ![m] = Absent] \in [MemberId -> Member \cup {Absent}]
         /\ RoomState([mem EXCEPT ![m] = Absent]) = [RoomState(mem) EXCEPT ![m] = Absent]
<1> DEFINE rest == [mem EXCEPT ![m] = Absent]
           members == [RoomState(mem) EXCEPT ![m] = Absent]
<1>1. /\ rest \in [MemberId -> Member \cup {Absent}]
      /\ \A k \in MemberId : rest[k] = IF k = m THEN Absent ELSE mem[k]
  OBVIOUS
<1>2. /\ RoomState(mem) \in Roster
      /\ \A k \in MemberId : RoomState(mem)[k] = IF mem[k] = Absent THEN Absent ELSE mem[k].card
  BY RoomStateIs
<1>3. /\ members \in Roster
      /\ \A k \in MemberId : members[k] = IF k = m THEN Absent ELSE RoomState(mem)[k]
  BY <1>2, WithoutIs
<1> HIDE DEF rest, members
<1>4. RoomState(rest) = members
  BY <1>1, <1>2, <1>3, RoomStateEquals
<1> QED
  BY <1>1, <1>4 DEF rest, members

\* Whether a member goes before or after another is found disconnected.
LEMMA EitherOrder ==
  ASSUME NEW members \in Roster, NEW m \in MemberId, NEW k \in MemberId, k # m
  PROVE  WithUpdated([members EXCEPT ![m] = Absent], Updated(k, FALSE))
           = [WithUpdated(members, Updated(k, FALSE)) EXCEPT ![m] = Absent]
<1> DEFINE A == [members EXCEPT ![m] = Absent]
           B == WithUpdated(members, Updated(k, FALSE))
           C == WithUpdated(A, Updated(k, FALSE))
           D == [B EXCEPT ![m] = Absent]
<1>1. A \in Roster /\ \A i \in MemberId : A[i] = IF i = m THEN Absent ELSE members[i]
  BY WithoutIs
<1> HIDE DEF A
<1>2. /\ B \in Roster
      /\ \A i \in MemberId :
           /\ B[i] = Absent <=> members[i] = Absent
           /\ members[i] # Absent =>
                B[i] = IF i = k THEN [members[i] EXCEPT !.connected = FALSE] ELSE members[i]
  BY UpdatedRosterIs
<1>3. /\ C \in Roster
      /\ \A i \in MemberId :
           /\ C[i] = Absent <=> A[i] = Absent
           /\ A[i] # Absent => C[i] = IF i = k THEN [A[i] EXCEPT !.connected = FALSE] ELSE A[i]
  BY <1>1, UpdatedRosterIs
<1> HIDE DEF B
<1>4. D \in Roster /\ \A i \in MemberId : D[i] = IF i = m THEN Absent ELSE B[i]
  BY <1>2, WithoutIs
<1> HIDE DEF C, D
<1>5. \A i \in MemberId : C[i] = D[i]
  BY <1>1, <1>2, <1>3, <1>4, ZenonT(60)
<1>6. C = D
  BY <1>3, <1>4, <1>5 DEF Roster
<1> QED
  BY <1>6 DEF A, B, C, D

LEMMA KickStep ==
  ASSUME IInv, NEW m \in MemberId, Kick(m)
  PROVE  IInv'
<1> DEFINE R == RoomState(member)
           R2 == RoomState(member')
           x == member[m].socket
           cut == live \cap {x}
           rest == [member EXCEPT ![m] = Absent]
           gone == (UNION {Holder(s) : s \in cut}) \ {m}
           b == bound[x]
           news == KickedNews(m, gone)
<1>1. /\ TypeOK /\ Base /\ member \in [MemberId -> Member \cup {Absent}]
      /\ R \in Roster /\ RoomState(member') = R2 /\ m \in Present
  BY RoomStateIs DEF IInv, TypeOK, Kick
<1>2. /\ member' = Offline(rest, gone) /\ CutOff(cut)
      /\ down' = [q \in Phone |-> IF link[q] \in cut THEN Append(down[q], Closed)
                                  ELSE ToRoom(news, cut)[q]]
      /\ UNCHANGED <<phone, issued, missed>>
  BY DEF Kick
<1>3. /\ live' = live \ cut /\ live' \subseteq live
      /\ bound' \in [Socket -> MemberId \cup {None}]
      /\ \A s \in Socket : bound'[s] = IF s \in cut THEN None ELSE bound[s]
  BY <1>1, <1>2, CutOffIs
<1>4. gone = {} \/ (b \in MemberId /\ b # m /\ gone = {b})
  <2>1. CASE x \in live
    <3>1. x \in Socket /\ cut = {x}
      BY <1>1, <2>1 DEF TypeOK
    <3>2. Holder(x) = {} \/ (b \in MemberId /\ Holder(x) = {b})
      BY <1>1, <3>1, HolderIs
    <3>3. gone = Holder(x) \ {m}
      BY <3>1
    <3> QED
      BY <3>2, <3>3
  <2>2. CASE x \notin live
    BY <2>2
  <2> QED
    BY <2>1, <2>2
<1>5. /\ rest \in [MemberId -> Member \cup {Absent}]
      /\ RoomState(rest) = [R EXCEPT ![m] = Absent]
      /\ \A k \in MemberId : rest[k] # Absent => rest[k] = member[k]
  BY <1>1, RoomStateWithout
<1> HIDE DEF R, rest, b
<1>6. \/ news = << Left(m) >> /\ R2 = [R EXCEPT ![m] = Absent]
      \/ /\ b \in MemberId /\ news = << Updated(b, FALSE), Left(m) >>
         /\ R2 = [WithUpdated(R, Updated(b, FALSE)) EXCEPT ![m] = Absent]
  <2>1. Left(m) \in Event
    BY NewsAre
  <2>2. CASE gone = {}
    <3>1. {Updated(k, FALSE) : k \in gone} = {}
      BY <2>2
    <3>2. news = << >> \o << Left(m) >>
      BY <3>1, SetToSeqOfNone DEF KickedNews
    <3>3. << >> \o << Left(m) >> = << Left(m) >>
      BY <2>1, OneOrTwo
    <3>4. Offline(rest, gone) = rest
      BY <1>5, <2>2, OfflineRoomState
    <3> QED
      BY <1>2, <1>5, <3>2, <3>3, <3>4
  <2>3. CASE b \in MemberId /\ b # m /\ gone = {b}
    <3>1. {Updated(k, FALSE) : k \in gone} = {Updated(b, FALSE)} /\ Updated(b, FALSE) \in Event
      BY <2>3, NewsAre
    <3>2. news = << Updated(b, FALSE) >> \o << Left(m) >>
      BY <3>1, SetToSeqOfOne DEF KickedNews
    <3>3. << Updated(b, FALSE) >> \o << Left(m) >> = << Updated(b, FALSE), Left(m) >>
      <4> DEFINE e == Updated(b, FALSE)
                 f == Left(m)
      <4>1. e \in Event /\ f \in Event
        BY <2>1, <3>1
      <4>2. << >> \in Seq(Event)
        BY EmptySeq
      <4> HIDE DEF e, f
      <4>3. << e >> \o << f >> = << e, f >>
        BY <4>1, <4>2, OneOrTwo
      <4> QED
        BY <4>3 DEF e, f
    <3>4. RoomState(Offline(rest, {b})) = WithUpdated(RoomState(rest), Updated(b, FALSE))
      BY <1>5, <2>3, OfflineRoomState
    <3>5. WithUpdated([R EXCEPT ![m] = Absent], Updated(b, FALSE))
            = [WithUpdated(R, Updated(b, FALSE)) EXCEPT ![m] = Absent]
      BY <1>1, <2>3, EitherOrder
    <3>6. member' = Offline(rest, {b})
      BY <1>2, <2>3
    <3> QED
      BY <1>5, <2>3, <3>2, <3>3, <3>4, <3>5, <3>6
  <2> QED
    BY <1>4, <2>2, <2>3
<1>7. member' \in [MemberId -> Member \cup {Absent}]
  BY <1>2, <1>5, OfflineIs
<1>8. \A k \in MemberId : member'[k] # Absent =>
        /\ member[k] # Absent
        /\ member'[k].card.connected = (member'[k].socket # None)
        /\ member'[k].socket \in live' => bound'[member'[k].socket] # None
  BY <1>2, <1>5, OfflineMembers
<1>9. R2 \in Roster
  BY <1>7, RoomStateIs
<1>10. ASSUME NEW q \in Phone, link[q] \in cut PROVE link[q] = x /\ Speaks(q) # None
  <2>1. link[q] = x /\ x \in live
    BY <1>10
  <2>2. bound[x] # None
    BY <1>1, <2>1 DEF Base
  <2>3. link[q] # None
    BY <1>1, <2>1, Constants DEF TypeOK
  <2> QED
    BY <2>1, <2>2, <2>3 DEF Speaks
<1> HIDE DEF R2, gone, news, cut, x
<1>11. /\ news \in Seq(Event) /\ \A i \in 1 .. Len(news) : news[i].type # "room_state"
       /\ Advances(R, issued, R2, issued)
  <2> DEFINE f == Left(m)
  <2>1. f \in Event /\ f.type # "room_state"
    BY NewsAre
  <2>2. CASE news = << f >> /\ R2 = [R EXCEPT ![m] = Absent]
    <3>1. Advances(R, issued, [R EXCEPT ![m] = Absent], issued)
      BY <1>1, WithoutIs
    <3> HIDE DEF f
    <3>2. << f >> \in Seq(Event) /\ \A i \in 1 .. Len(<< f >>) : << f >>[i].type # "room_state"
      BY <2>1
    <3> QED
      BY <2>2, <3>1, <3>2
  <2>3. CASE /\ b \in MemberId /\ news = << Updated(b, FALSE), f >>
             /\ R2 = [WithUpdated(R, Updated(b, FALSE)) EXCEPT ![m] = Absent]
    <3> DEFINE e == Updated(b, FALSE)
               R1 == WithUpdated(R, e)
    <3>1. e \in Event /\ e.type # "room_state"
      BY <2>3, NewsAre
    <3>2. /\ R1 \in Roster
          /\ \A k \in MemberId :
               /\ R1[k] = Absent <=> R[k] = Absent
               /\ R[k] # Absent =>
                    R1[k] = IF k = b THEN [R[k] EXCEPT !.connected = FALSE] ELSE R[k]
      BY <1>1, <2>3, UpdatedRosterIs
    <3> HIDE DEF R1
    <3>3. /\ [R1 EXCEPT ![m] = Absent] \in Roster
          /\ \A k \in MemberId : [R1 EXCEPT ![m] = Absent][k] = IF k = m THEN Absent ELSE R1[k]
      BY <3>2, WithoutIs
    <3>4. \A k \in MemberId : R[k] # Absent => [R[k] EXCEPT !.connected = FALSE].pos = R[k].pos
      BY <1>1 DEF Roster, Card
    <3> DEFINE R3 == [R1 EXCEPT ![m] = Absent]
    <3>5. R3 \in Roster /\ \A k \in MemberId : R3[k] # Absent =>
            R[k] # Absent /\ R3[k].pos = R[k].pos
      BY <3>2, <3>3, <3>4
    <3> HIDE DEF R3
    <3>6. Advances(R, issued, R3, issued)
      BY <1>1, <3>5, AdvancesIs
    <3> HIDE DEF e, f
    <3>7. /\ << e, f >> \in Seq(Event)
          /\ \A i \in 1 .. Len(<< e, f >>) : << e, f >>[i].type # "room_state"
      BY <2>1, <3>1
    <3> QED
      BY <2>3, <3>6, <3>7 DEF e, R1, R3
  <2> QED
    BY <1>6, <2>2, <2>3
<1>12. \A q \in Phone : down'[q] = IF link[q] \in cut THEN Append(down[q], Closed)
                                   ELSE ToRoom(news, cut)[q]
  BY <1>2
<1>13. Closed \in Event /\ Closed.type # "room_state"
  BY NewsAre
<1>14. down' \in [Phone -> Seq(Event)]
  <2>1. ToRoom(news, cut) \in [Phone -> Seq(Event)]
    BY <1>1, <1>11, ToRoomIs
  <2>2. \A q \in Phone : down[q] \in Seq(Event) /\ Append(down[q], Closed) \in Seq(Event)
    BY <1>1, <1>13, ViewTyped, OneOrTwo
  <2> QED
    BY <1>2, <2>1, <2>2
<1>15. ASSUME NEW q \in Phone
       PROVE  /\ \A k \in MemberId : Entering(down'[q], k) => Entering(down[q], k)
              /\ link[q] = None => down'[q] = << >>
              /\ Follows(View(q), down'[q], q \notin missed, R2, issued,
                         link[q] \in live', IF link[q] = None THEN None ELSE bound'[link[q]])
  <2> DEFINE up2 == link[q] \in live'
             b2 == IF link[q] = None THEN None ELSE bound'[link[q]]
  <2>1. link[q] \in Socket \cup {None} /\ None \notin live
    BY <1>1, ViewTyped, Constants DEF TypeOK
  <2>2. CASE link[q] \in cut
    <3>1. Speaks(q) # None /\ link[q] \in live
      BY <1>10, <2>2 DEF cut
    <3>2. /\ View(q) \in Views /\ down[q] \in Seq(Event) /\ (q \notin missed) \in BOOLEAN
          /\ RoomState(member) \in Roster /\ Speaks(q) \in MemberId
          /\ Follows(View(q), down[q], q \notin missed, RoomState(member), issued,
                     TRUE, Speaks(q))
      BY <3>1, HearerIs
    <3>3. up2 = FALSE /\ b2 = None
      BY <1>3, <2>1, <2>2, <3>1
    <3>4. down'[q] = Append(down[q], Closed)
      BY <1>12, <2>2
    <3>5. \A k \in MemberId : Entering(down'[q], k) => Entering(down[q], k)
      BY <1>13, <3>2, <3>4, EnteringAppend
    <3> DEFINE v == View(q)
               c == q \notin missed
    <3> HIDE DEF v, c, up2, b2
    <3>6. Follows(v, Append(down[q], Closed), c, R2, issued, FALSE, None)
      BY <1>9, <1>11, <3>2, HearsClosed DEF v, c, R
    <3> QED
      BY <2>1, <3>1, <3>3, <3>4, <3>5, <3>6 DEF v, c, up2, b2
  <2>3. CASE link[q] \notin cut
    <3>1. /\ up2 \in BOOLEAN /\ (up2 <=> link[q] \in live \ cut)
          /\ b2 \in MemberId \cup {None} /\ (up2 => b2 = Speaks(q))
      BY <1>3, <2>1, <2>3 DEF Speaks
    <3> HIDE DEF up2, b2
    <3>2. ASSUME link[q] \in live \ cut, Speaks(q) # None
          PROVE  Follows(View(q), down[q] \o news, q \notin missed, R2, issued, TRUE, Speaks(q))
      <4>1. Follows(View(q), down[q] \o << Left(m) >>, q \notin missed,
                    [R EXCEPT ![m] = Absent], issued, TRUE, Speaks(q))
        BY <3>2, PhoneHears DEF R
      <4>2. b \in MemberId =>
              Follows(View(q), down[q] \o << Updated(b, FALSE), Left(m) >>, q \notin missed,
                      [WithUpdated(R, Updated(b, FALSE)) EXCEPT ![m] = Absent],
                      issued, TRUE, Speaks(q))
        BY <3>2, PhoneHears DEF R
      <4> QED
        BY <1>6, <4>1, <4>2
    <3>3. Advances(RoomState(member), issued, R2, issued)
      BY <1>11 DEF R
    <3>4. /\ \A k \in MemberId : Entering(ToRoom(news, cut)[q], k) => Entering(down[q], k)
          /\ link[q] = None => ToRoom(news, cut)[q] = << >>
          /\ Follows(View(q), ToRoom(news, cut)[q], q \notin missed, R2, issued, up2, b2)
      BY <1>9, <1>11, <3>1, <3>2, <3>3, RoomIsTold
    <3>5. down'[q] = ToRoom(news, cut)[q]
      BY <1>12, <2>3
    <3> QED
      BY <3>4, <3>5 DEF up2, b2
  <2> QED
    BY <2>2, <2>3
<1>16. \A s \in Socket : bound'[s] \in {bound[s], None} /\ (bound'[s] # None => s \in live')
  BY <1>1, <1>3 DEF Base
<1>17. UNCHANGED <<phone, issued, missed>> /\ RoomState(member') = R2
  BY <1>1, <1>2
<1> QED
  BY <1>3, <1>7, <1>8, <1>14, <1>15, <1>16, <1>17, ServerStep

LEMMA WithCardIs ==
  ASSUME NEW r \in Member, NEW c \in Card
  PROVE  /\ [r EXCEPT !.card = c] \in Member
         /\ [r EXCEPT !.card = c].card = c /\ [r EXCEPT !.card = c].socket = r.socket
  BY DEF Member

LEMMA PositionUpdateStep ==
  ASSUME IInv, NEW p \in Phone, PositionUpdate(p)
  PROVE  IInv'
<1> DEFINE R == RoomState(member)
           R2 == RoomState(member')
           except == {link[p]}
<1>1. /\ TypeOK /\ Base /\ member \in [MemberId -> Member \cup {Absent}]
      /\ R \in Roster /\ RoomState(member') = R2
  BY RoomStateIs DEF IInv, TypeOK
<1>2. /\ session[p] # None /\ link[p] \in live
      /\ UNCHANGED <<phone, issued, live, bound, missed>>
  BY DEF PositionUpdate
<1>3. PICK m \in Holder(link[p]), x \in Position :
        /\ x = IF member[m].card.pos = None THEN 1 ELSE member[m].card.pos + 1
        /\ member' = [member EXCEPT ![m].card.pos = x]
        /\ down' = ToRoom(<< Moved(m, x) >>, {link[p]})
  BY DEF PositionUpdate
<1> DEFINE news == << Moved(m, x) >>
           card == [R[m] EXCEPT !.pos = x]
<1>4. /\ m \in MemberId /\ m \in Present /\ bound[link[p]] = m /\ member[m] \in Member
      /\ link[p] # None /\ Speaks(p) = m
  <2>1. link[p] # None
    BY <1>1, <1>2, Constants DEF TypeOK
  <2> QED
    BY <1>1, <1>3, <2>1 DEF Holder, Present, Speaks
<1>5. m \in issued /\ R[m] # Absent /\ R[m] = member[m].card /\ R[m] \in Card
  BY <1>1, <1>4, RoomStateIs DEF Base, Present
<1>6. card \in Card /\ card.connected = R[m].connected /\ card.pos = x /\ card # Absent
  BY <1>5, Constants DEF Card
<1>7. Upto(R[m].pos, x)
  <2>1. R[m].pos \in Position \cup {None}
    BY <1>5 DEF Card
  <2>2. x = IF R[m].pos = None THEN 1 ELSE R[m].pos + 1
    BY <1>3, <1>5
  <2> QED
    BY <2>1, <2>2, Constants DEF Upto, Position
<1> HIDE DEF R, card
<1>8. /\ member' \in [MemberId -> Member \cup {Absent}]
      /\ \A k \in MemberId : k # m => member'[k] = member[k]
      /\ member'[m].card = card /\ member'[m].socket = member[m].socket /\ member'[m] # Absent
  <2> DEFINE r == [member[m] EXCEPT !.card = card]
  <2>1. r \in Member /\ r.card = card /\ r.socket = member[m].socket
    BY <1>4, <1>6, WithCardIs
  <2>2. member' = [member EXCEPT ![m] = r]
    <3>1. member' = [member EXCEPT ![m] = [member[m] EXCEPT !.card = [member[m].card EXCEPT !.pos = x]]]
      BY <1>3
    <3> QED
      BY <1>5, <3>1 DEF card
  <2> HIDE DEF r
  <2> QED
    BY <1>1, <1>4, <2>1, <2>2, AbsentAssumption
<1>9. R2 = [R EXCEPT ![m] = card] /\ R2 \in Roster
  <2> DEFINE members == [R EXCEPT ![m] = card]
  <2>1. members \in Roster /\ \A k \in MemberId : members[k] = IF k = m THEN card ELSE R[k]
    BY <1>1, <1>4, <1>6 DEF Roster
  <2>2. \A k \in MemberId : R[k] = IF member[k] = Absent THEN Absent ELSE member[k].card
    BY <1>1, RoomStateIs DEF R
  <2> HIDE DEF members
  <2>3. RoomState(member') = members
    BY <1>8, <2>1, <2>2, RoomStateEquals
  <2> QED
    BY <2>1, <2>3 DEF members
<1> HIDE DEF R2
<1>10. Advances(R, issued, R2, issued) /\ \A k \in MemberId : k # m => R2[k] = R[k]
  <2>1. \A k \in MemberId : R2[k] = IF k = m THEN card ELSE R[k]
    BY <1>1, <1>9 DEF Roster
  <2>2. ASSUME NEW k \in MemberId, R2[k] # Absent
        PROVE  R[k] # Absent /\ Upto(R[k].pos, R2[k].pos)
    <3>1. CASE k = m
      BY <1>5, <1>6, <1>7, <2>1, <3>1
    <3>2. CASE k # m
      <4>1. R2[k] = R[k] /\ R[k] \in Card
        BY <1>1, <2>1, <2>2, <3>2 DEF Roster
      <4>2. R[k].pos \in Position \cup {None}
        BY <4>1 DEF Card
      <4> QED
        BY <2>2, <4>1, <4>2, UptoIs
    <3> QED
      BY <3>1, <3>2
  <2> QED
    BY <2>1, <2>2 DEF Advances
<1>11. news \in Seq(Event) /\ \A i \in 1 .. Len(news) : news[i].type # "room_state"
  <2> DEFINE e == Moved(m, x)
  <2>1. e \in Event /\ e.type # "room_state"
    BY <1>4, NewsAre
  <2> HIDE DEF e
  <2>2. << e >> \in Seq(Event) /\ \A i \in 1 .. Len(<< e >>) : << e >>[i].type # "room_state"
    BY <2>1
  <2> QED
    BY <2>2 DEF e
<1>12. down' = ToRoom(news, except)
  BY <1>3
<1> HIDE DEF news, except
<1>13. /\ down' \in [Phone -> Seq(Event)]
       /\ \A q \in Phone : down'[q] = IF link[q] \in live \ except /\ Speaks(q) # None
                                      THEN down[q] \o news ELSE down[q]
  BY <1>1, <1>11, <1>12, ToRoomIs
<1>14. ASSUME NEW q \in Phone
       PROVE  /\ \A k \in MemberId : Entering(down'[q], k) => Entering(down[q], k)
              /\ link[q] = None => down'[q] = << >>
              /\ Follows(View(q), down'[q], q \notin missed, R2, issued,
                         link[q] \in live', IF link[q] = None THEN None ELSE bound'[link[q]])
  <2>1. live' = live /\ Speaks(q) = IF link[q] = None THEN None ELSE bound'[link[q]]
    BY <1>2 DEF Speaks
  <2>2. CASE q = p
    <3>1. down'[p] = down[p] /\ (link[p] \in live) = TRUE
      BY <1>2, <1>13 DEF except
    <3>2. /\ View(p) \in Views /\ down[p] \in Seq(Event) /\ (p \notin missed) \in BOOLEAN
          /\ Follows(View(p), down[p], p \notin missed, R, issued, TRUE, m)
      BY <1>2, <1>4, HearerIs, Constants DEF R
    <3>3. Unheard(R, issued, TRUE, m, R2, issued, TRUE, m)
      BY <1>1, <1>4, <1>9, <1>10, UnheardOwn
    <3> DEFINE v == View(p)
               c == p \notin missed
    <3> HIDE DEF v, c
    <3>4. Follows(v, down[p], c, R2, issued, TRUE, m)
      BY <3>2, <3>3, NoMore DEF v, c
    <3> QED
      BY <1>4, <2>1, <2>2, <3>1, <3>4 DEF v, c
  <2>3. CASE q # p
    <3> DEFINE up2 == link[q] \in live
               b2 == Speaks(q)
    <3>1. /\ up2 \in BOOLEAN /\ (up2 <=> link[q] \in live \ except)
          /\ b2 \in MemberId \cup {None} /\ (up2 => b2 = Speaks(q))
      <4>1. link[q] # link[p]
        BY <1>1, <1>4, <2>3 DEF Base
      <4> QED
        BY <1>1, <4>1, ViewTyped DEF except
    <3> HIDE DEF up2, b2
    <3>2. ASSUME link[q] \in live \ except, Speaks(q) # None
          PROVE  Follows(View(q), down[q] \o news, q \notin missed, R2, issued, TRUE, Speaks(q))
      <4>1. m # Speaks(q)
        BY <1>1, <1>4, <2>3 DEF Base, Owns
      <4>2. Follows(View(q), down[q] \o << Moved(m, x) >>, q \notin missed,
                    [R EXCEPT ![m] = [R[m] EXCEPT !.pos = x]], issued, TRUE, Speaks(q))
        BY <1>4, <1>5, <1>7, <3>2, <4>1, PhoneHears DEF R
      <4> QED
        BY <1>9, <4>2 DEF news, card
    <3>3. Advances(RoomState(member), issued, R2, issued)
      BY <1>10 DEF R
    <3>4. /\ \A k \in MemberId : Entering(ToRoom(news, except)[q], k) => Entering(down[q], k)
          /\ link[q] = None => ToRoom(news, except)[q] = << >>
          /\ Follows(View(q), ToRoom(news, except)[q], q \notin missed, R2, issued, up2, b2)
      BY <1>9, <1>11, <3>1, <3>2, <3>3, RoomIsTold, ZenonT(60)
    <3> QED
      BY <1>12, <2>1, <3>4 DEF up2, b2
  <2> QED
    BY <2>2, <2>3
<1>15. \A k \in MemberId : member'[k] # Absent =>
         /\ member[k] # Absent
         /\ member'[k].card.connected = (member'[k].socket # None)
         /\ member'[k].socket \in live' => bound'[member'[k].socket] # None
  <2>1. ASSUME NEW k \in MemberId, member'[k] # Absent
        PROVE  /\ member[k] # Absent /\ member'[k].card.connected = member[k].card.connected
               /\ member'[k].socket = member[k].socket
    BY <1>4, <1>5, <1>6, <1>8, <2>1 DEF Present
  <2> QED
    BY <1>1, <1>2, <2>1 DEF TypeOK, Base, Present
<1>16. /\ live' \subseteq live /\ bound' \in [Socket -> MemberId \cup {None}]
       /\ \A s \in Socket : bound'[s] \in {bound[s], None} /\ (bound'[s] # None => s \in live')
  BY <1>1, <1>2 DEF TypeOK, Base
<1>17. UNCHANGED <<phone, issued, missed>> /\ RoomState(member') = R2
  BY <1>1, <1>2 DEF R2
<1> QED
  BY <1>8, <1>13, <1>14, <1>15, <1>16, <1>17, ServerStep

-----------------------------------------------------------------------------
(* What a phone and the server do together preserves the invariant.        *)

LEMMA JointStep ==
  ASSUME IInv, NEW p \in Phone, NEW w \in Views, NEW l \in Socket \cup {None},
         Become(p, w), link' = [link EXCEPT ![p] = l],
         w.session \in {session[p], None},
         l = None => w.buffer = NoBuffer /\ down'[p] = << >>,
         \A q \in Phone : q # p /\ link[q] # None => link[q] # l,
         missed' \subseteq Phone, \A q \in Phone : q # p => (q \in missed' <=> q \in missed),
         issued \subseteq issued', issued' \subseteq MemberId, IsFiniteSet(issued'),
         live' \subseteq Socket, bound' \in [Socket -> MemberId \cup {None}],
         \A s \in Socket : bound'[s] # None => s \in live',
         member' \in [MemberId -> Member \cup {Absent}],
         \A m \in MemberId : member'[m] # Absent =>
           /\ m \in issued'
           /\ member'[m].card.connected = (member'[m].socket # None)
           /\ member'[m].socket \in live' => bound'[member'[m].socket] # None,
         down' \in [Phone -> Seq(Event)],
         \A m \in MemberId :
           Entering(down'[p], m) \/ (l # None /\ bound'[l] = m) =>
             Owns(p, m) \/ m \in issued' \ issued,
         Follows(w, down'[p], p \notin missed', RoomState(member'), issued', l \in live',
                 IF l = None THEN None ELSE bound'[l]),
         \A q \in Phone : q # p =>
           /\ \A m \in MemberId : Entering(down'[q], m) => Entering(down[q], m)
           /\ link[q] # None => bound'[link[q]] \in {bound[link[q]], None}
           /\ link[q] = None => down'[q] = << >>
           /\ Follows(View(q), down'[q], q \notin missed, RoomState(member'), issued',
                      link[q] \in live', IF link[q] = None THEN None ELSE bound'[link[q]])
  PROVE  IInv'
<1>1. TypeOK /\ Base
  BY DEF IInv
<1>2. /\ w.session \in MemberId \cup {None} /\ w.roster \in Roster /\ w.shown \in Roster
      /\ w.buffer \in [MemberId -> Position \cup {None}]
      /\ w = [session |-> w.session, roster |-> w.roster, buffer |-> w.buffer, shown |-> w.shown]
  BY DEF Views
<1>3. \A q \in Phone :
        /\ session'[q] = IF q = p THEN w.session ELSE session[q]
        /\ roster'[q] = IF q = p THEN w.roster ELSE roster[q]
        /\ buffer'[q] = IF q = p THEN w.buffer ELSE buffer[q]
        /\ shown'[q] = IF q = p THEN w.shown ELSE shown[q]
        /\ link'[q] = IF q = p THEN l ELSE link[q]
  BY <1>1 DEF TypeOK, Become
<1>4. TypeOK'
  <2>1. /\ session' \in [Phone -> MemberId \cup {None}]
        /\ link' \in [Phone -> Socket \cup {None}]
        /\ roster' \in [Phone -> Roster]
    BY <1>1, <1>2 DEF TypeOK, Become
  <2>2. /\ buffer' \in [Phone -> [MemberId -> Position \cup {None}]]
        /\ shown' \in [Phone -> Roster]
    BY <1>1, <1>2 DEF TypeOK, Become
  <2>3. \A q \in Phone : link'[q] = None => down'[q] = << >>
    BY <1>3
  <2> QED
    BY <2>1, <2>2, <2>3 DEF TypeOK
<1>5. ASSUME NEW q \in Phone, NEW m \in MemberId, Owns(q, m)'
      PROVE  Owns(q, m) \/ (q = p /\ m \in issued' \ issued)
  <2>1. CASE q = p
    BY <1>3, <1>5, <2>1, Constants DEF Owns, Speaks
  <2>2. CASE q # p
    <3>1. session[q] = m \/ (link[q] # None /\ bound'[link[q]] = m) \/ Entering(down'[q], m)
      BY <1>3, <1>5, <2>2, Constants DEF Owns, Speaks
    <3>2. link[q] # None /\ bound'[link[q]] = m => Speaks(q) = m
      BY <2>2, Constants DEF Speaks
    <3> QED
      BY <2>2, <3>1, <3>2 DEF Owns
  <2> QED
    BY <2>1, <2>2
<1>6. Base'
  <2>1. (\A q, r \in Phone : q # r /\ link[q] # None => link[q] # link[r])'
    <3>1. \A q, r \in Phone : q # r /\ link[q] # None => link[q] # link[r]
      BY <1>1 DEF Base
    <3> QED
      BY <1>3, <3>1
  <2>2. (\A q, r \in Phone, m \in MemberId : Owns(q, m) /\ Owns(r, m) => q = r)'
    <3>1. \A q, r \in Phone, m \in MemberId : Owns(q, m) /\ Owns(r, m) => q = r
      BY <1>1 DEF Base
    <3>2. \A q \in Phone, m \in MemberId : Owns(q, m) => m \in issued
      BY <1>1 DEF Base
    <3> QED
      BY <1>5, <3>1, <3>2
  <2>3. (\A q \in Phone, m \in MemberId : Owns(q, m) => m \in issued)'
    <3>1. \A q \in Phone, m \in MemberId : Owns(q, m) => m \in issued
      BY <1>1 DEF Base
    <3> QED
      BY <1>5, <3>1
  <2>4. (\A q \in Phone : link[q] = None => buffer[q] = NoBuffer)'
    <3>1. \A q \in Phone : link[q] = None => buffer[q] = NoBuffer
      BY <1>1 DEF Base
    <3>2. \A q \in Phone : link'[q] = None => buffer'[q] = NoBuffer
      BY <1>3, <3>1
    <3> QED
      BY <3>2 DEF NoBuffer
  <2>5. (Present \subseteq issued)'
    BY DEF Present
  <2>6. (\A m \in Present : member[m].socket \in live => bound[member[m].socket] # None)'
    BY DEF Present
  <2> QED
    BY <2>1, <2>2, <2>3, <2>4, <2>5, <2>6 DEF Base
<1>7. ASSUME NEW q \in Phone PROVE Attuned(q)'
  <2>1. CASE q = p
    <3>1. View(p)' = w
      BY <1>2, <1>3 DEF View
    <3>2. (p \notin missed)' = (p \notin missed')
      OBVIOUS
    <3>3. /\ link'[p] = l /\ Speaks(p)' = IF l = None THEN None ELSE bound'[l]
          /\ RoomState(member)' = RoomState(member')
      BY <1>3 DEF Speaks, RoomState
    <3>4. Attuned(p)'
      BY <3>1, <3>2, <3>3 DEF Attuned
    <3> QED
      BY <2>1, <3>4
  <2>2. CASE q # p
    <3>1. Follows(View(q), down'[q], q \notin missed, RoomState(member'), issued',
                  link[q] \in live', IF link[q] = None THEN None ELSE bound'[link[q]])
      BY <2>2
    <3>2. /\ session'[q] = session[q] /\ roster'[q] = roster[q] /\ buffer'[q] = buffer[q]
          /\ shown'[q] = shown[q] /\ link'[q] = link[q] /\ (q \in missed' <=> q \in missed)
      BY <1>3, <2>2
    <3> QED
      BY <3>1, <3>2, OtherAttuned
  <2> QED
    BY <2>1, <2>2
<1> QED
  BY <1>4, <1>6, <1>7 DEF IInv

LEMMA LeaveRoomStep ==
  ASSUME IInv, NEW p \in Phone, LeaveRoom(p)
  PROVE  IInv'
<1> DEFINE v == View(p)
           w == [Solo(v) EXCEPT !.buffer = NoBuffer]
           s == link[p]
           gone == IF s \in live THEN Holder(s) ELSE {}
           b == bound[s]
           R == RoomState(member)
           R2 == RoomState(member')
           news == SE!SetToSeq({Left(m) : m \in gone})
           cut == {s} \cap live
           except == {s}
<1>1. /\ TypeOK /\ Base /\ member \in [MemberId -> Member \cup {Absent}]
      /\ R \in Roster /\ RoomState(member') = R2
      /\ Follows(v, down[p], p \notin missed, R, issued, link[p] \in live, Speaks(p))
      /\ missed \subseteq Phone
  BY AttunedIs DEF TypeOK
<1>2. /\ v \in Views /\ down[p] \in Seq(Event) /\ (p \notin missed) \in BOOLEAN
      /\ (link[p] \in live) \in BOOLEAN
  BY <1>1, ViewTyped
<1>3. /\ Become(p, w) /\ link' = [link EXCEPT ![p] = None] /\ missed' = missed \ {p}
      /\ member' = [m \in MemberId |-> IF m \in gone THEN Absent ELSE member[m]]
      /\ CutOff(cut) /\ down' = [ToRoom(news, except) EXCEPT ![p] = << >>]
      /\ issued' = issued
  BY DEF LeaveRoom
<1>4. /\ live' = live \ cut /\ live' \subseteq live /\ live' = live \ except
      /\ bound' \in [Socket -> MemberId \cup {None}]
      /\ \A x \in Socket : bound'[x] = IF x \in cut THEN None ELSE bound[x]
  BY <1>1, <1>3, CutOffIs
<1>5. \/ gone = {} /\ news = << >>
      \/ b \in MemberId /\ gone = {b} /\ news = << Left(b) >>
  <2>1. gone = {} \/ (b \in MemberId /\ gone = {b})
    <3>1. s \in live => s \in Socket
      BY <1>1 DEF TypeOK
    <3> QED
      BY <1>1, <3>1, HolderIs
  <2>2. CASE gone = {}
    <3>1. {Left(m) : m \in gone} = {}
      BY <2>2
    <3> QED
      BY <2>2, <3>1, SetToSeqOfNone
  <2>3. CASE b \in MemberId /\ gone = {b}
    <3>1. {Left(m) : m \in gone} = {Left(b)}
      BY <2>3
    <3> QED
      BY <2>3, <3>1, SetToSeqOfOne
  <2> QED
    BY <2>1, <2>2, <2>3
<1> HIDE DEF v, b, R, gone, news, cut, except
<1>6. /\ member' \in [MemberId -> Member \cup {Absent}]
      /\ \A m \in MemberId : member'[m] = IF m \in gone THEN Absent ELSE member[m]
  BY <1>1, <1>3
<1>7. \/ news = << >> /\ R2 = R
      \/ b \in MemberId /\ news = << Left(b) >> /\ R2 = [R EXCEPT ![b] = Absent]
  <2>1. CASE gone = {} /\ news = << >>
    <3>1. member' = member
      BY <1>1, <1>6, <2>1
    <3> QED
      BY <2>1, <3>1 DEF R
  <2>2. CASE b \in MemberId /\ gone = {b} /\ news = << Left(b) >>
    <3>1. member' = [member EXCEPT ![b] = Absent]
      BY <1>1, <1>6, <2>2
    <3> QED
      BY <1>1, <2>2, <3>1, RoomStateWithout DEF R
  <2> QED
    BY <1>5, <2>1, <2>2
<1>8. R2 \in Roster
  BY <1>6, RoomStateIs
<1> HIDE DEF R2
<1>9. /\ news \in Seq(Event) /\ \A i \in 1 .. Len(news) : news[i].type # "room_state"
      /\ Advances(R, issued, R2, issued)
  <2>1. CASE news = << >> /\ R2 = R
    <3>1. Advances(R, issued, R, issued)
      BY <1>1, AdvancesIs
    <3> QED
      BY <2>1, <3>1
  <2>2. CASE b \in MemberId /\ news = << Left(b) >> /\ R2 = [R EXCEPT ![b] = Absent]
    <3> DEFINE e == Left(b)
    <3>1. e \in Event /\ e.type # "room_state"
      BY <2>2, NewsAre
    <3>2. Advances(R, issued, [R EXCEPT ![b] = Absent], issued)
      BY <1>1, <2>2, WithoutIs
    <3> HIDE DEF e
    <3>3. << e >> \in Seq(Event) /\ \A i \in 1 .. Len(<< e >>) : << e >>[i].type # "room_state"
      BY <3>1
    <3> QED
      BY <2>2, <3>2, <3>3 DEF e
  <2> QED
    BY <1>7, <2>1, <2>2
<1>10. /\ down' \in [Phone -> Seq(Event)] /\ down'[p] = << >>
       /\ \A q \in Phone : q # p => down'[q] = ToRoom(news, except)[q]
  <2>1. ToRoom(news, except) \in [Phone -> Seq(Event)]
    BY <1>1, <1>9, ToRoomIs
  <2> QED
    BY <1>3, <2>1
<1>11. /\ NoBuffer \in [MemberId -> Position \cup {None}] /\ \A k \in MemberId : NoBuffer[k] = None
       /\ Nobody \in Roster /\ \A k \in MemberId : Nobody[k] = Absent
  BY DEF NoBuffer, Nobody, Roster
<1>12. /\ w \in Views /\ w.session = None /\ w.roster = Nobody /\ w.shown = Nobody
       /\ w.buffer = NoBuffer
  BY <1>2, <1>11, SoloIs DEF Views
<1> HIDE DEF w
<1>13. Follows(w, << >>, TRUE, R2, issued, FALSE, None)
  <2>1. Sound(w, TRUE)
    <3>1. \A k \in MemberId : Drawn(Nobody, Nobody, w.session)[k] = Nobody[k]
      BY <1>11, DrawnIs
    <3>2. Drawn(Nobody, Nobody, w.session) \in Roster
      BY <1>11, DrawnIs
    <3>3. Drawn(Nobody, Nobody, w.session) = Nobody
      BY <1>11, <3>1, <3>2 DEF Roster
    <3> QED
      BY <1>11, <1>12, <3>3 DEF Sound
  <2>2. ASSUME NEW g \in Marks, Under(v, g) PROVE Under(w, g)
    BY <1>11, <1>12, <2>2, Constants DEF Under
  <2>3. Follows(w, << >>, TRUE, R, issued, FALSE, None)
    BY <1>1, <1>2, <1>12, <2>1, <2>2, Unlinks
  <2>4. << >> \in Seq(Event) /\ TRUE \in BOOLEAN /\ FALSE \in BOOLEAN
    OBVIOUS
  <2> QED
    BY <1>1, <1>8, <1>9, <1>12, <2>3, <2>4, NotTold
<1>14. Follows(w, down'[p], p \notin missed', RoomState(member'), issued', None \in live',
               IF None = None THEN None ELSE bound'[None])
  <2>1. (p \notin missed') = TRUE
    BY <1>3
  <2>2. (None \in live') = FALSE
    BY <1>1, <1>4, Constants DEF TypeOK
  <2> QED
    BY <1>1, <1>3, <1>10, <1>13, <2>1, <2>2 DEF R2
<1>15. ASSUME NEW q \in Phone, q # p
       PROVE  /\ \A m \in MemberId : Entering(down'[q], m) => Entering(down[q], m)
              /\ link[q] # None => bound'[link[q]] \in {bound[link[q]], None}
              /\ link[q] = None => down'[q] = << >>
              /\ Follows(View(q), down'[q], q \notin missed, RoomState(member'), issued',
                         link[q] \in live', IF link[q] = None THEN None ELSE bound'[link[q]])
  <2> DEFINE up2 == link[q] \in live'
             b2 == IF link[q] = None THEN None ELSE bound'[link[q]]
  <2>1. link[q] \in Socket \cup {None} /\ None \notin live
    BY <1>1, ViewTyped, Constants DEF TypeOK
  <2>2. /\ up2 \in BOOLEAN /\ (up2 <=> link[q] \in live \ except)
        /\ b2 \in MemberId \cup {None} /\ (up2 => b2 = Speaks(q))
    BY <1>4, <2>1 DEF Speaks
  <2> HIDE DEF up2, b2
  <2>3. ASSUME link[q] \in live \ except, Speaks(q) # None
        PROVE  Follows(View(q), down[q] \o news, q \notin missed, R2, issued, TRUE, Speaks(q))
    <3>1. Follows(View(q), down[q] \o << >>, q \notin missed, R, issued, TRUE, Speaks(q))
      <4>1. /\ down[q] \in Seq(Event)
            /\ Follows(View(q), down[q], q \notin missed, R, issued, TRUE, Speaks(q))
        BY <2>3, HearerIs DEF R
      <4>2. down[q] \o << >> = down[q]
        BY <4>1
      <4> QED
        BY <4>1, <4>2
    <3>2. b \in MemberId =>
            Follows(View(q), down[q] \o << Left(b) >>, q \notin missed,
                    [R EXCEPT ![b] = Absent], issued, TRUE, Speaks(q))
      BY <2>3, PhoneHears DEF R
    <3> QED
      BY <1>7, <3>1, <3>2
  <2>4. Advances(RoomState(member), issued, R2, issued)
    BY <1>9 DEF R
  <2>5. /\ \A m \in MemberId : Entering(ToRoom(news, except)[q], m) => Entering(down[q], m)
        /\ link[q] = None => ToRoom(news, except)[q] = << >>
        /\ Follows(View(q), ToRoom(news, except)[q], q \notin missed, R2, issued, up2, b2)
    BY <1>8, <1>9, <2>2, <2>3, <2>4, RoomIsTold
  <2>6. link[q] # None => bound'[link[q]] \in {bound[link[q]], None}
    BY <1>4, <2>1
  <2> QED
    BY <1>1, <1>3, <1>10, <1>15, <2>5, <2>6 DEF up2, b2, R2
<1>16. \A m \in MemberId : member'[m] # Absent =>
         /\ m \in issued'
         /\ member'[m].card.connected = (member'[m].socket # None)
         /\ member'[m].socket \in live' => bound'[member'[m].socket] # None
  <2>1. ASSUME NEW m \in MemberId, member'[m] # Absent
        PROVE  /\ m \in issued'
               /\ member'[m].card.connected = (member'[m].socket # None)
               /\ member'[m].socket \in live' => bound'[member'[m].socket] # None
    <3>1. member'[m] = member[m] /\ member[m] # Absent
      BY <1>6, <2>1
    <3>2. /\ m \in issued /\ member[m].card.connected = (member[m].socket # None)
          /\ member[m].socket \in live => bound[member[m].socket] # None
      BY <1>1, <3>1 DEF TypeOK, Base, Present
    <3>3. ASSUME member[m].socket \in live' PROVE bound'[member[m].socket] # None
      <4>1. /\ member[m].socket \in live /\ member[m].socket \in Socket
            /\ member[m].socket \notin cut
        BY <1>1, <1>4, <3>3 DEF TypeOK
      <4> QED
        BY <1>4, <3>2, <4>1
    <3> QED
      BY <1>3, <3>1, <3>2, <3>3
  <2> QED
    BY <2>1
<1>17. /\ issued \subseteq issued' /\ issued' \subseteq MemberId /\ IsFiniteSet(issued')
       /\ live' \subseteq Socket
       /\ \A x \in Socket : bound'[x] # None => x \in live'
  BY <1>1, <1>3, <1>4 DEF TypeOK, Base
<1>18. /\ missed' \subseteq Phone /\ \A q \in Phone : q # p => (q \in missed' <=> q \in missed)
       /\ \A m \in MemberId : ~ Entering(down'[p], m)
  BY <1>1, <1>3, <1>10 DEF Entering
<1> QED
  BY <1>3, <1>4, <1>6, <1>10, <1>12, <1>14, <1>15, <1>16, <1>17, <1>18, JointStep

LEMMA UnusedIs ==
  ASSUME TypeOK, NEW s \in Unused
  PROVE  /\ s \in Socket /\ s \notin live /\ bound[s] = None /\ s # None
         /\ \A q \in Phone : link[q] # s
  BY Constants DEF Unused

\* A phone that stays as it is but for its connection.
LEMMA KeepsItsView ==
  ASSUME TypeOK, NEW p \in Phone, UNCHANGED <<session, roster, buffer, shown>>
  PROVE  Become(p, View(p))
  BY DEF TypeOK, Become, View

\* The place of the phone is still there.
LEMMA ReturnStep ==
  ASSUME IInv, NEW p \in Phone, NEW s \in Socket, Rejoin(p, s), session[p] \in Present
  PROVE  IInv'
<1> DEFINE m == session[p]
           mem == [member EXCEPT ![m].card.connected = TRUE, ![m].socket = s]
           v == View(p)
           c == p \notin missed
           R == RoomState(member)
           e == Updated(m, TRUE)
           R2 == WithUpdated(R, e)
           news == << e >>
           except == {s}
           answer == EntryOf(m, R2)
<1>1. /\ TypeOK /\ Base /\ member \in [MemberId -> Member \cup {Absent}] /\ R \in Roster
      /\ Follows(v, down[p], c, R, issued, link[p] \in live, Speaks(p)) /\ missed \subseteq Phone
      /\ m \in MemberId /\ member[m] \in Member
  BY AttunedIs DEF TypeOK, Present
<1>2. v \in Views /\ c \in BOOLEAN /\ v.session = m /\ v.buffer = buffer[p]
  BY <1>1, ViewTyped
<1>3. /\ link[p] = None /\ s \in Unused /\ link' = [link EXCEPT ![p] = s]
      /\ member' = mem /\ live' = live \cup {s} /\ bound' = [bound EXCEPT ![s] = m]
      /\ down' = [ToRoom(news, except) EXCEPT ![p] = << Entered(m, mem) >>]
      /\ UNCHANGED <<session, roster, buffer, shown, issued, missed>>
  BY DEF Rejoin, Enter
<1>4. s \notin live /\ bound[s] = None /\ s # None /\ \A q \in Phone : link[q] # s
  BY <1>1, <1>3, UnusedIs
<1>5. down[p] = << >> /\ buffer[p] = NoBuffer /\ (link[p] \in live) = FALSE /\ Speaks(p) = None
  BY <1>1, <1>3, Constants DEF TypeOK, Base, Speaks
<1>6. /\ mem \in [MemberId -> Member \cup {Absent}]
      /\ \A k \in MemberId : k # m => mem[k] = member[k]
      /\ mem[m] # Absent /\ mem[m].socket = s /\ mem[m].card.connected = TRUE
      /\ mem[m].card = [member[m].card EXCEPT !.connected = TRUE]
  <2> DEFINE r == member[m]
             card == [r.card EXCEPT !.connected = TRUE]
             r2 == [r EXCEPT !.card = card]
             r3 == [r2 EXCEPT !.socket = s]
  <2>1. card \in Card /\ card.connected = TRUE
    BY <1>1 DEF Member, Card
  <2>2. mem = [member EXCEPT ![m] = r3]
    BY <1>1
  <2> HIDE DEF card, r
  <2>3. r2 \in Member /\ r2.card = card
    BY <1>1, <2>1, WithCardIs DEF r
  <2> HIDE DEF r2
  <2>4. r3 \in Member /\ r3.card = card /\ r3.socket = s
    BY <2>3 DEF Member
  <2> HIDE DEF r3, mem
  <2> QED
    BY <1>1, <2>1, <2>2, <2>4, AbsentAssumption DEF card, r
<1>7. /\ R2 \in Roster /\ Advances(R, issued, R2, issued)
      /\ \A k \in MemberId :
           /\ R2[k] = Absent <=> R[k] = Absent
           /\ R[k] # Absent =>
                R2[k] = IF k = m THEN [R[k] EXCEPT !.connected = TRUE] ELSE R[k]
  BY <1>1, UpdatedRosterIs
<1>8. \A k \in MemberId : /\ R[k] = IF member[k] = Absent THEN Absent ELSE member[k].card
                          /\ R[k] = Absent <=> member[k] = Absent
  BY <1>1, RoomStateIs
<1>9. news \in Seq(Event) /\ \A i \in 1 .. Len(news) : news[i].type # "room_state"
  <2>1. e \in Event /\ e.type # "room_state"
    BY <1>1, NewsAre
  <2> HIDE DEF e
  <2> QED
    BY <2>1
<1> HIDE DEF v, c, m, mem, R, R2, e, news, except
<1>10. RoomState(mem) = R2
  <2>1. ASSUME NEW k \in MemberId PROVE R2[k] = IF mem[k] = Absent THEN Absent ELSE mem[k].card
    <3>1. CASE k = m
      BY <1>1, <1>6, <1>7, <1>8, <3>1, AbsentAssumption
    <3>2. CASE k # m
      BY <1>6, <1>7, <1>8, <3>2
    <3> QED
      BY <3>1, <3>2
  <2> QED
    BY <1>6, <1>7, <2>1, RoomStateEquals
<1>11. ToRoom(news, except) \in [Phone -> Seq(Event)]
  BY <1>1, <1>9, ToRoomIs
<1>12. answer \in Event /\ answer.type = "room_state" /\ answer.self = m /\ answer = Entered(m, mem)
  BY <1>1, <1>7, <1>10 DEF Event, EntryOf, Entered
<1> HIDE DEF answer
<1>13. << answer >> \in Seq(Event)
  BY <1>12
<1>14. /\ down' \in [Phone -> Seq(Event)] /\ down'[p] = << answer >>
       /\ \A q \in Phone : q # p => down'[q] = ToRoom(news, except)[q]
  BY <1>3, <1>11, <1>12, <1>13
<1>15. /\ bound' \in [Socket -> MemberId \cup {None}]
       /\ \A x \in Socket : bound'[x] = IF x = s THEN m ELSE bound[x]
  BY <1>1, <1>3 DEF TypeOK
<1>16. Follows(v, << answer >>, c, R2, issued, TRUE, m)
  <2>1. Follows(v, << >>, c, R, issued, FALSE, None)
    BY <1>1, <1>5
  <2>2. \A k \in MemberId : R[k] # Absent => k \in issued
    BY <1>1, <1>8 DEF Base, Present
  <2>3. \A k \in MemberId : R2[k] # Absent => R[k] # Absent /\ R2[k].pos = R[k].pos
    BY <1>1, <1>7 DEF Roster, Card
  <2>4. R2[m] # Absent
    BY <1>1, <1>6, <1>10, RoomStateIs
  <2> QED
    BY <1>1, <1>2, <1>5, <1>7, <2>1, <2>2, <2>3, <2>4, EntersAgain DEF answer
<1>17. Follows(v, down'[p], p \notin missed', RoomState(member'), issued', s \in live',
               IF s = None THEN None ELSE bound'[s])
  <2>1. (p \notin missed') = c
    BY <1>3 DEF c
  <2>2. (s \in live') = TRUE /\ bound'[s] = m /\ issued' = issued /\ member' = mem
    BY <1>3, <1>15
  <2> QED
    BY <1>4, <1>10, <1>14, <1>16, <2>1, <2>2
<1>18. ASSUME NEW q \in Phone, q # p
       PROVE  /\ \A k \in MemberId : Entering(down'[q], k) => Entering(down[q], k)
              /\ link[q] # None => bound'[link[q]] \in {bound[link[q]], None}
              /\ link[q] = None => down'[q] = << >>
              /\ Follows(View(q), down'[q], q \notin missed, RoomState(member'), issued',
                         link[q] \in live', IF link[q] = None THEN None ELSE bound'[link[q]])
  <2> DEFINE up2 == link[q] \in live'
             b2 == IF link[q] = None THEN None ELSE bound'[link[q]]
  <2>1. /\ link[q] \in Socket \cup {None} /\ None \notin live /\ link[q] # s
        /\ Speaks(q) \in MemberId \cup {None}
    BY <1>1, <1>4, ViewTyped, Constants DEF TypeOK
  <2>2. b2 = Speaks(q)
    BY <1>15, <2>1 DEF Speaks
  <2>3. /\ up2 \in BOOLEAN /\ (up2 <=> link[q] \in live \ except)
        /\ b2 \in MemberId \cup {None} /\ (up2 => b2 = Speaks(q))
    BY <1>3, <2>1, <2>2 DEF except
  <2> HIDE DEF up2, b2
  <2>4. ASSUME link[q] \in live \ except, Speaks(q) # None
        PROVE  Follows(View(q), down[q] \o news, q \notin missed, R2, issued, TRUE, Speaks(q))
    <3>1. TRUE \in BOOLEAN
      OBVIOUS
    <3> QED
      BY <1>1, <2>4, <3>1, PhoneHears DEF R, R2, e, news
  <2>5. Advances(RoomState(member), issued, R2, issued)
    BY <1>7 DEF R
  <2>6. /\ \A k \in MemberId : Entering(ToRoom(news, except)[q], k) => Entering(down[q], k)
        /\ link[q] = None => ToRoom(news, except)[q] = << >>
        /\ Follows(View(q), ToRoom(news, except)[q], q \notin missed, R2, issued, up2, b2)
    <3>1. R2 \in Roster
      BY <1>7
    <3> QED
      BY <1>9, <2>3, <2>4, <2>5, <3>1, RoomIsTold
  <2>7. link[q] # None => bound'[link[q]] \in {bound[link[q]], None}
    BY <1>15, <2>1
  <2> QED
    BY <1>3, <1>10, <1>14, <1>18, <2>6, <2>7 DEF up2, b2
<1>19. \A k \in MemberId : member'[k] # Absent =>
         /\ k \in issued'
         /\ member'[k].card.connected = (member'[k].socket # None)
         /\ member'[k].socket \in live' => bound'[member'[k].socket] # None
  <2>1. ASSUME NEW k \in MemberId, member'[k] # Absent
        PROVE  /\ k \in issued'
               /\ member'[k].card.connected = (member'[k].socket # None)
               /\ member'[k].socket \in live' => bound'[member'[k].socket] # None
    <3>1. m \in Present /\ m # None
      BY <1>1, Constants DEF m
    <3>2. CASE k = m
      BY <1>1, <1>3, <1>4, <1>6, <1>15, <3>1, <3>2 DEF Base
    <3>3. CASE k # m
      <4>1. member'[k] = member[k] /\ member[k] # Absent
        BY <1>3, <1>6, <2>1, <3>3
      <4>2. /\ k \in issued /\ member[k].card.connected = (member[k].socket # None)
            /\ member[k].socket \in live => bound[member[k].socket] # None
        BY <1>1, <4>1 DEF TypeOK, Base, Present
      <4>3. ASSUME member[k].socket \in live' PROVE bound'[member[k].socket] # None
        <5>1. member[k].socket \in Socket
          BY <1>1, <1>3, <4>3 DEF TypeOK
        <5> QED
          BY <1>3, <1>15, <3>1, <4>2, <4>3, <5>1
      <4> QED
        BY <1>3, <4>1, <4>2, <4>3
    <3> QED
      BY <3>2, <3>3
  <2> QED
    BY <2>1
<1>20. /\ issued \subseteq issued' /\ issued' \subseteq MemberId /\ IsFiniteSet(issued')
       /\ live' \subseteq Socket
       /\ \A x \in Socket : bound'[x] # None => x \in live'
  BY <1>1, <1>3, <1>15 DEF TypeOK, Base
<1>21. \A k \in MemberId : Entering(down'[p], k) \/ (s # None /\ bound'[s] = k) =>
         Owns(p, k) \/ k \in issued' \ issued
  <2>1. \A i \in 1 .. Len(<< answer >>) : << answer >>[i] = answer
    OBVIOUS
  <2> QED
    BY <1>12, <1>14, <1>15, <2>1 DEF Entering, Owns, m
<1>22. /\ missed' \subseteq Phone /\ \A q \in Phone : q # p => (q \in missed' <=> q \in missed)
       /\ Become(p, v) /\ v.session \in {session[p], None}
       /\ \A q \in Phone : q # p /\ link[q] # None => link[q] # s
  BY <1>1, <1>2, <1>3, <1>4, KeepsItsView DEF v, m
<1>23. member' \in [MemberId -> Member \cup {Absent}]
  BY <1>3, <1>6
<1> QED
  BY <1>2, <1>3, <1>4, <1>14, <1>15, <1>17, <1>18, <1>19, <1>20, <1>21, <1>22, <1>23, JointStep

\* It is gone.
LEMMA RefusedStep ==
  ASSUME IInv, NEW p \in Phone, NEW s \in Socket, Rejoin(p, s), session[p] \notin Present
  PROVE  IInv'
<1> DEFINE v == View(p)
           c == p \notin missed
           R == RoomState(member)
<1>1. /\ TypeOK /\ Base /\ member \in [MemberId -> Member \cup {Absent}] /\ R \in Roster
      /\ Follows(v, down[p], c, R, issued, link[p] \in live, Speaks(p)) /\ missed \subseteq Phone
  BY AttunedIs DEF TypeOK
<1>2. v \in Views /\ c \in BOOLEAN /\ v.session = session[p] /\ v.buffer = buffer[p]
  BY <1>1, ViewTyped
<1>3. /\ link[p] = None /\ s \in Unused /\ link' = [link EXCEPT ![p] = s]
      /\ live' = live \cup {s} /\ down' = [down EXCEPT ![p] = << Refused >>]
      /\ UNCHANGED <<session, roster, buffer, shown, issued, missed, member, bound>>
  BY DEF Rejoin
<1>4. s \notin live /\ bound[s] = None /\ s # None /\ \A q \in Phone : link[q] # s
  BY <1>1, <1>3, UnusedIs
<1>5. down[p] = << >> /\ buffer[p] = NoBuffer /\ (link[p] \in live) = FALSE
  BY <1>1, <1>3, Constants DEF TypeOK, Base
<1>6. Refused \in Event /\ Refused.type # "room_state"
  BY EventsAre DEF Refused
<1> HIDE DEF v, c
<1>7. Follows(v, << Refused >>, c, R, issued, TRUE, None)
  <2>1. Follows(v, << >>, c, R, issued, FALSE, Speaks(p))
    BY <1>1, <1>5
  <2> HIDE DEF R
  <2> QED
    BY <1>1, <1>2, <1>5, <2>1, IsRefused
<1>8. << Refused >> \in Seq(Event) /\ \A k \in MemberId : ~ Entering(<< Refused >>, k)
  <2> DEFINE e == Refused
  <2> HIDE DEF e
  <2>1. << e >> \in Seq(Event) /\ \A k \in MemberId : ~ Entering(<< e >>, k)
    BY <1>6 DEF Entering, e
  <2> QED
    BY <2>1 DEF e
<1>9. /\ down' \in [Phone -> Seq(Event)] /\ down'[p] = << Refused >>
      /\ \A q \in Phone : q # p => down'[q] = down[q]
  BY <1>1, <1>3, <1>8 DEF TypeOK
<1>10. Follows(v, down'[p], p \notin missed', RoomState(member'), issued', s \in live',
               IF s = None THEN None ELSE bound'[s])
  <2>1. (p \notin missed') = c
    BY <1>3 DEF c
  <2>2. (s \in live') = TRUE /\ bound'[s] = None /\ issued' = issued /\ member' = member
    BY <1>3, <1>4
  <2> QED
    BY <1>4, <1>7, <1>9, <2>1, <2>2
<1>11. ASSUME NEW q \in Phone, q # p
       PROVE  /\ \A k \in MemberId : Entering(down'[q], k) => Entering(down[q], k)
              /\ link[q] # None => bound'[link[q]] \in {bound[link[q]], None}
              /\ link[q] = None => down'[q] = << >>
              /\ Follows(View(q), down'[q], q \notin missed, RoomState(member'), issued',
                         link[q] \in live', IF link[q] = None THEN None ELSE bound'[link[q]])
  <2>1. Follows(View(q), down[q], q \notin missed, R, issued, link[q] \in live, Speaks(q))
    BY AttunedIs
  <2>2. (link[q] \in live') = (link[q] \in live)
    BY <1>3, <1>4
  <2>3. /\ Speaks(q) = IF link[q] = None THEN None ELSE bound'[link[q]]
        /\ down'[q] = down[q] /\ issued' = issued /\ RoomState(member') = R
        /\ bound' = bound
    BY <1>3, <1>9, <1>11 DEF Speaks
  <2>4. link[q] = None => down'[q] = << >>
    BY <1>1, <2>3 DEF TypeOK
  <2> HIDE DEF R
  <2> QED
    BY <2>1, <2>2, <2>3, <2>4
<1>12. \A k \in MemberId : member'[k] # Absent =>
         /\ k \in issued'
         /\ member'[k].card.connected = (member'[k].socket # None)
         /\ member'[k].socket \in live' => bound'[member'[k].socket] # None
  <2>1. ASSUME NEW k \in Present, member[k].socket = s PROVE FALSE
    BY <1>3, <2>1 DEF Unused
  <2>2. ASSUME NEW k \in MemberId, member'[k] # Absent
        PROVE  /\ k \in issued'
               /\ member'[k].card.connected = (member'[k].socket # None)
               /\ member'[k].socket \in live' => bound'[member'[k].socket] # None
    BY <1>1, <1>3, <2>1, <2>2 DEF TypeOK, Base, Present
  <2> QED
    BY <2>2
<1>13. /\ issued \subseteq issued' /\ issued' \subseteq MemberId /\ IsFiniteSet(issued')
       /\ live' \subseteq Socket /\ bound' \in [Socket -> MemberId \cup {None}]
       /\ \A x \in Socket : bound'[x] # None => x \in live'
       /\ member' \in [MemberId -> Member \cup {Absent}]
  BY <1>1, <1>3 DEF TypeOK, Base
<1>14. \A k \in MemberId : Entering(down'[p], k) \/ (s # None /\ bound'[s] = k) =>
         Owns(p, k) \/ k \in issued' \ issued
  BY <1>3, <1>4, <1>8, <1>9, Constants
<1>15. /\ missed' \subseteq Phone /\ \A q \in Phone : q # p => (q \in missed' <=> q \in missed)
       /\ Become(p, v) /\ v.session \in {session[p], None}
       /\ \A q \in Phone : q # p /\ link[q] # None => link[q] # s
  BY <1>1, <1>2, <1>3, <1>4, KeepsItsView DEF v
<1>16. link' = [link EXCEPT ![p] = s] /\ s \in Socket \cup {None}
  BY <1>3
<1> HIDE DEF R
<1> QED
  BY <1>2, <1>4, <1>9, <1>10, <1>11, <1>12, <1>13, <1>14, <1>15, <1>16, JointStep

LEMMA RejoinStep ==
  ASSUME IInv, NEW p \in Phone, NEW s \in Socket, Rejoin(p, s)
  PROVE  IInv'
  BY ReturnStep, RefusedStep

\* What a join leaves in the room, and what the room is told of it.
Joins(m, s, ghosts, card, mem, R, R2, news) ==
  /\ m \notin issued
  /\ ghosts = {} \/ \E g \in Present : ghosts = {g}
  /\ card = [connected |-> TRUE, pos |-> None]
  /\ mem = [[k \in MemberId |-> IF k \in ghosts THEN Absent ELSE member[k]]
              EXCEPT ![m] = [card |-> card, socket |-> s]]
  /\ R = RoomState(member) /\ R2 = RoomState(mem) /\ news = Arrivals(m, ghosts)

\* The room with the newcomer: the others are as they were, or the ghost is gone.
Enlarged(m, s, card, mem, R, R2, news) ==
  /\ mem \in [MemberId -> Member \cup {Absent}]
  /\ \A k \in MemberId : k # m => mem[k] \in {member[k], Absent}
  /\ mem[m].card = card /\ mem[m].socket = s /\ mem[m] # Absent
  /\ R2 \in Roster /\ R2[m] # Absent /\ R2[m].pos = None
  /\ \A k \in MemberId : k # m => R2[k] \in {R[k], Absent}
  /\ Advances(R, issued, R2, issued \cup {m})
  /\ news \in Seq(Event) /\ \A i \in 1 .. Len(news) : news[i].type # "room_state"
  /\ \/ news = << Joined(m) >> /\ R2 = [R EXCEPT ![m] = card]
     \/ \E g \in MemberId :
          /\ news = << Left(g), Joined(m) >>
          /\ R2 = [[R EXCEPT ![g] = Absent] EXCEPT ![m] = card]

LEMMA JoinedRoomIs ==
  ASSUME IInv, NEW m \in MemberId, NEW s \in Socket, NEW ghosts, NEW card, NEW mem,
         NEW R, NEW R2, NEW news, Joins(m, s, ghosts, card, mem, R, R2, news)
  PROVE  Enlarged(m, s, card, mem, R, R2, news)
<1> DEFINE new == [card |-> card, socket |-> s]
<1> USE DEF Joins
<1>1. /\ TypeOK /\ Base /\ member \in [MemberId -> Member \cup {Absent}] /\ R \in Roster
  BY AttunedIs, RoomStateIs DEF IInv, TypeOK
<1>2. /\ card \in Card /\ card.pos = None /\ new \in Member /\ new.card = card
      /\ new.socket = s /\ new # Absent /\ card # Absent
  <2>1. card \in Card /\ card.pos = None
    BY DEF Card
  <2>2. new \in Member /\ new.card = card /\ new.socket = s
    BY <2>1 DEF Member
  <2> QED
    BY <2>1, <2>2, AbsentAssumption
<1> HIDE DEF new
<1>3. /\ mem \in [MemberId -> Member \cup {Absent}]
      /\ \A k \in MemberId :
           mem[k] = IF k = m THEN new ELSE IF k \in ghosts THEN Absent ELSE member[k]
  BY <1>1, <1>2 DEF new
<1>4. \A k \in MemberId : R[k] = IF member[k] = Absent THEN Absent ELSE member[k].card
  BY <1>1, RoomStateIs
<1>5. /\ R2 \in Roster
      /\ \A k \in MemberId :
           R2[k] = IF k = m THEN card ELSE IF k \in ghosts THEN Absent ELSE R[k]
  <2>1. R2 \in Roster /\ \A k \in MemberId : R2[k] = IF mem[k] = Absent THEN Absent ELSE mem[k].card
    BY <1>3, RoomStateIs
  <2> QED
    BY <1>2, <1>3, <1>4, <2>1
<1>6. Advances(R, issued, R2, issued \cup {m})
  <2>1. \A k \in MemberId : R2[k] # Absent =>
          k \notin issued \/ (R[k] # Absent /\ R2[k].pos = R[k].pos)
    BY <1>5
  <2> DEFINE given2 == issued \cup {m}
  <2>2. issued \subseteq given2
    OBVIOUS
  <2> HIDE DEF given2
  <2>3. Advances(R, issued, R2, given2)
    BY <1>1, <1>5, <2>1, <2>2, AdvancesIs
  <2> QED
    BY <2>3 DEF given2
<1>7. /\ news \in Seq(Event) /\ \A i \in 1 .. Len(news) : news[i].type # "room_state"
      /\ \/ news = << Joined(m) >> /\ R2 = [R EXCEPT ![m] = card]
         \/ \E g \in MemberId :
              /\ news = << Left(g), Joined(m) >>
              /\ R2 = [[R EXCEPT ![g] = Absent] EXCEPT ![m] = card]
  <2> DEFINE f == Joined(m)
  <2>1. f \in Event /\ f.type # "room_state"
    BY NewsAre
  <2>2. CASE ghosts = {}
    <3>1. {Left(g) : g \in ghosts} = {}
      BY <2>2
    <3>2. news = << >> \o << f >>
      BY <3>1, SetToSeqOfNone DEF Arrivals
    <3>3. R2 = [R EXCEPT ![m] = card]
      BY <1>1, <1>2, <1>5, <2>2 DEF Roster
    <3> HIDE DEF f
    <3>4. << >> \in Seq(Event)
      BY EmptySeq
    <3>5. << >> \o << f >> = << f >>
      BY <2>1, <3>4, OneOrTwo
    <3>6. << f >> \in Seq(Event) /\ \A i \in 1 .. Len(<< f >>) : << f >>[i].type # "room_state"
      BY <2>1
    <3>7. news = << f >>
      BY <3>2, <3>5
    <3> QED
      BY <3>3, <3>6, <3>7 DEF f
  <2>3. ASSUME NEW g \in Present, ghosts = {g}
        PROVE  /\ news \in Seq(Event) /\ \A i \in 1 .. Len(news) : news[i].type # "room_state"
               /\ news = << Left(g), Joined(m) >>
               /\ R2 = [[R EXCEPT ![g] = Absent] EXCEPT ![m] = card]
    <3> DEFINE e == Left(g)
    <3>1. {Left(k) : k \in ghosts} = {Left(g)} /\ g \in MemberId
      BY <2>3 DEF Present
    <3>2. news = << e >> \o << f >>
      BY <3>1, SetToSeqOfOne DEF Arrivals
    <3>3. e \in Event /\ e.type # "room_state"
      BY <3>1, NewsAre
    <3>4. R2 = [[R EXCEPT ![g] = Absent] EXCEPT ![m] = card]
      BY <1>1, <1>2, <1>5, <2>3, <3>1 DEF Roster
    <3> HIDE DEF e, f
    <3>5. << >> \in Seq(Event)
      BY EmptySeq
    <3>6. << e >> \o << f >> = << e, f >>
      BY <2>1, <3>3, <3>5, OneOrTwo
    <3>7. /\ << e, f >> \in Seq(Event)
          /\ \A i \in 1 .. Len(<< e, f >>) : << e, f >>[i].type # "room_state"
      BY <2>1, <3>3
    <3>8. news = << e, f >>
      BY <3>2, <3>6
    <3> QED
      BY <3>4, <3>7, <3>8 DEF e, f
  <2>4. Present \subseteq MemberId
    BY DEF Present
  <2> QED
    BY <2>2, <2>3, <2>4
<1>8. /\ \A k \in MemberId : k # m => mem[k] \in {member[k], Absent}
      /\ mem[m] = new
      /\ \A k \in MemberId : k # m => R2[k] \in {R[k], Absent}
      /\ R2[m] = card
  BY <1>3, <1>5
<1>9. /\ mem \in [MemberId -> Member \cup {Absent}]
      /\ \A k \in MemberId : k # m => mem[k] \in {member[k], Absent}
      /\ mem[m].card = card /\ mem[m].socket = s /\ mem[m] # Absent
      /\ R2 \in Roster
      /\ \A k \in MemberId : k # m => R2[k] \in {R[k], Absent}
      /\ R2[m] # Absent /\ R2[m].pos = None
  BY <1>2, <1>3, <1>5, <1>8
<1> QED
  BY <1>6, <1>7, <1>9 DEF Enlarged

LEMMA JoinRoomStep ==
  ASSUME IInv, NEW p \in Phone, NEW s \in Socket, NEW m \in MemberId, NEW ghosts,
         JoinRoom(p, s, m, ghosts)
  PROVE  IInv'
<1> DEFINE card == [connected |-> TRUE, pos |-> None]
           kept == [k \in MemberId |-> IF k \in ghosts THEN Absent ELSE member[k]]
           mem  == [kept EXCEPT ![m] = [card |-> card, socket |-> s]]
           v    == View(p)
           c    == p \notin missed
           R    == RoomState(member)
           R2   == RoomState(mem)
           news == Arrivals(m, ghosts)
           given2 == issued \cup {m}
           except == {s}
           answer == EntryOf(m, R2)
           up   == link[p] \in live
<1>1. /\ TypeOK /\ Base /\ member \in [MemberId -> Member \cup {Absent}] /\ R \in Roster
      /\ Follows(v, down[p], c, R, issued, up, Speaks(p)) /\ missed \subseteq Phone
  BY AttunedIs DEF TypeOK
<1>2. /\ v \in Views /\ c \in BOOLEAN /\ v.session = session[p] /\ v.buffer = buffer[p]
      /\ down[p] \in Seq(Event) /\ up \in BOOLEAN
  BY <1>1, ViewTyped
<1>3. /\ session[p] = None /\ ~ Asking(p) /\ m \notin issued
      /\ IF link[p] = None THEN s \in Unused ELSE s = link[p] /\ s \in live
      /\ ghosts \subseteq Present /\ Cardinality(ghosts) <= 1
      /\ link' = [link EXCEPT ![p] = s] /\ issued' = given2
      /\ member' = mem /\ live' = live \cup {s} /\ bound' = [bound EXCEPT ![s] = m]
      /\ down' = [ToRoom(news, except) EXCEPT ![p] = Append(down[p], Entered(m, mem))]
      /\ UNCHANGED <<session, roster, buffer, shown, missed>>
  BY DEF JoinRoom, Enter
<1>4. s # None /\ \A q \in Phone : q # p => link[q] # s
  <2>1. CASE link[p] = None
    BY <1>1, <1>3, <2>1, UnusedIs
  <2>2. CASE link[p] # None
    <3>1. s = link[p]
      BY <1>3, <2>2
    <3> QED
      BY <1>1, <2>2, <3>1 DEF Base
  <2> QED
    BY <2>1, <2>2
<1>5. ~ up => down[p] = << >> /\ buffer[p] = NoBuffer
  BY <1>1, <1>3 DEF TypeOK, Base
<1>6. \A i \in 1 .. Len(down[p]) : down[p][i].type \notin Answer
  <2>1. DOMAIN down[p] = 1 .. Len(down[p])
    BY <1>2
  <2> QED
    BY <1>3, <2>1 DEF Asking
<1>7. ghosts = {} \/ \E g \in Present : ghosts = {g}
  <2>1. IsFiniteSet(ghosts)
    BY <1>1, <1>3, FS_Subset DEF Base
  <2>2. Cardinality(ghosts) \in Nat
    BY <2>1, FS_CardinalityType
  <2>3. Cardinality(ghosts) = 0 \/ Cardinality(ghosts) = 1
    BY <1>3, <2>2
  <2>4. Cardinality(ghosts) = 0 => ghosts = {}
    BY <2>1, FS_EmptySet
  <2>5. Cardinality(ghosts) = 1 => \E g : ghosts = {g}
    BY <2>1, FS_Singleton
  <2> QED
    BY <1>3, <2>3, <2>4, <2>5
<1>8. /\ mem \in [MemberId -> Member \cup {Absent}]
      /\ \A k \in MemberId : k # m => mem[k] \in {member[k], Absent}
      /\ mem[m].card = card /\ mem[m].socket = s /\ mem[m] # Absent
      /\ R2 \in Roster /\ R2[m] # Absent /\ R2[m].pos = None
      /\ \A k \in MemberId : k # m => R2[k] \in {R[k], Absent}
      /\ Advances(R, issued, R2, given2)
      /\ news \in Seq(Event) /\ \A i \in 1 .. Len(news) : news[i].type # "room_state"
      /\ \/ news = << Joined(m) >> /\ R2 = [R EXCEPT ![m] = card]
         \/ \E g \in MemberId :
              /\ news = << Left(g), Joined(m) >>
              /\ R2 = [[R EXCEPT ![g] = Absent] EXCEPT ![m] = card]
  <2>1. Joins(m, s, ghosts, card, mem, R, R2, news)
    BY <1>3, <1>7 DEF Joins
  <2> HIDE DEF kept, card, mem, R, R2, news, given2, v, c, except, answer, up
  <2>2. Enlarged(m, s, card, mem, R, R2, news)
    BY <2>1, JoinedRoomIs
  <2> QED
    BY <2>2 DEF Enlarged, given2
<1>9. card.connected = TRUE
  OBVIOUS
<1> HIDE DEF mem, card
<1>10. answer \in Event /\ answer.type = "room_state" /\ answer.self = m /\ answer = Entered(m, mem)
  BY <1>8 DEF Event, EntryOf, Entered
<1> HIDE DEF v, c, R, R2, news, given2, except, answer, up
<1>11. ToRoom(news, except) \in [Phone -> Seq(Event)]
  BY <1>1, <1>8, ToRoomIs
<1>12. Append(down[p], answer) \in Seq(Event)
  BY <1>2, <1>10, OneOrTwo
<1>13. /\ down' \in [Phone -> Seq(Event)] /\ down'[p] = Append(down[p], answer)
       /\ \A q \in Phone : q # p => down'[q] = ToRoom(news, except)[q]
  BY <1>3, <1>10, <1>11, <1>12
<1>14. /\ bound' \in [Socket -> MemberId \cup {None}]
       /\ \A x \in Socket : bound'[x] = IF x = s THEN m ELSE bound[x]
  BY <1>1, <1>3 DEF TypeOK
<1>15. Follows(v, Append(down[p], answer), c, R2, given2, TRUE, m)
  <2>1. \A k \in MemberId : R[k] # Absent => k \in issued
    BY <1>1, RoomStateIs DEF R, Base, Present
  <2>2. Follows(v, Append(down[p], EntryOf(m, R2)), c, R2, issued \cup {m}, TRUE, m)
    <3> DEFINE b == Speaks(p)
               q == down[p]
    <3>1. /\ Follows(v, q, c, R, issued, up, b) /\ R \in Roster /\ v \in Views /\ c \in BOOLEAN
          /\ q \in Seq(Event) /\ up \in BOOLEAN
      BY <1>1, <1>2
    <3>2. v.session = None /\ (~ up => q = << >> /\ v.buffer = NoBuffer) /\ m \notin issued
      BY <1>2, <1>3, <1>5
    <3>3. \A i \in 1 .. Len(q) : q[i].type \notin Answer
      BY <1>6
    <3>4. /\ R2 \in Roster /\ R2[m] # Absent /\ R2[m].pos = None
          /\ \A k \in MemberId : k # m => R2[k] \in {R[k], Absent}
      BY <1>8
    <3> HIDE DEF b, q
    <3>5. Follows(v, Append(q, EntryOf(m, R2)), c, R2, issued \cup {m}, TRUE, m)
      BY <2>1, <3>1, <3>2, <3>3, <3>4, EntersAnew, ZenonT(60)
    <3> QED
      BY <3>5 DEF q
  <2> QED
    BY <2>2 DEF answer, given2
<1>16. Follows(v, down'[p], p \notin missed', RoomState(member'), issued', s \in live',
               IF s = None THEN None ELSE bound'[s])
  <2>1. (p \notin missed') = c
    BY <1>3 DEF c
  <2>2. /\ (s \in live') = TRUE /\ bound'[s] = m /\ issued' = given2
        /\ RoomState(member') = R2
    BY <1>3, <1>14 DEF R2
  <2> QED
    BY <1>4, <1>13, <1>15, <2>1, <2>2
<1>17. ASSUME NEW q \in Phone, q # p
       PROVE  /\ \A k \in MemberId : Entering(down'[q], k) => Entering(down[q], k)
              /\ link[q] # None => bound'[link[q]] \in {bound[link[q]], None}
              /\ link[q] = None => down'[q] = << >>
              /\ Follows(View(q), down'[q], q \notin missed, RoomState(member'), issued',
                         link[q] \in live', IF link[q] = None THEN None ELSE bound'[link[q]])
  <2> DEFINE up2 == link[q] \in live'
             b2 == IF link[q] = None THEN None ELSE bound'[link[q]]
  <2>1. /\ link[q] \in Socket \cup {None} /\ None \notin live /\ link[q] # s
        /\ Speaks(q) \in MemberId \cup {None}
    BY <1>1, <1>4, <1>17, ViewTyped, Constants DEF TypeOK
  <2>2. b2 = Speaks(q)
    BY <1>14, <2>1 DEF Speaks
  <2>3. /\ up2 \in BOOLEAN /\ (up2 <=> link[q] \in live \ except)
        /\ b2 \in MemberId \cup {None} /\ (up2 => b2 = Speaks(q))
    BY <1>3, <2>1, <2>2 DEF except
  <2> HIDE DEF up2, b2
  <2>4. ASSUME link[q] \in live \ except, Speaks(q) # None
        PROVE  Follows(View(q), down[q] \o news, q \notin missed, R2, given2, TRUE, Speaks(q))
    <3>1. Follows(View(q), down[q] \o << Joined(m) >>, q \notin missed,
                  [R EXCEPT ![m] = card], given2, TRUE, Speaks(q))
      BY <1>3, <2>4, PhoneHears DEF R, card, given2
    <3>2. \A k \in MemberId :
            Follows(View(q), down[q] \o << Left(k), Joined(m) >>, q \notin missed,
                    [[R EXCEPT ![k] = Absent] EXCEPT ![m] = card], given2, TRUE, Speaks(q))
      BY <1>3, <2>4, PhoneHears DEF R, card, given2
    <3> QED
      BY <1>8, <3>1, <3>2
  <2>5. Advances(RoomState(member), issued, R2, given2) /\ R2 \in Roster
        /\ news \in Seq(Event) /\ \A i \in 1 .. Len(news) : news[i].type # "room_state"
    BY <1>8 DEF R
  <2>6. /\ \A k \in MemberId : Entering(ToRoom(news, except)[q], k) => Entering(down[q], k)
        /\ link[q] = None => ToRoom(news, except)[q] = << >>
        /\ Follows(View(q), ToRoom(news, except)[q], q \notin missed, R2, given2, up2, b2)
    BY <2>3, <2>4, <2>5, RoomIsTold
  <2>7. link[q] # None => bound'[link[q]] \in {bound[link[q]], None}
    BY <1>14, <2>1
  <2>8. RoomState(member') = R2 /\ issued' = given2
    BY <1>3 DEF R2
  <2> QED
    BY <1>13, <1>17, <2>6, <2>7, <2>8 DEF up2, b2
<1>18. \A k \in MemberId : member'[k] # Absent =>
         /\ k \in issued'
         /\ member'[k].card.connected = (member'[k].socket # None)
         /\ member'[k].socket \in live' => bound'[member'[k].socket] # None
  <2>1. ASSUME NEW k \in MemberId, member'[k] # Absent
        PROVE  /\ k \in issued'
               /\ member'[k].card.connected = (member'[k].socket # None)
               /\ member'[k].socket \in live' => bound'[member'[k].socket] # None
    <3>1. CASE k = m
      <4>1. m \in issued' /\ member' = mem
        BY <1>3 DEF given2
      <4>2. bound'[s] = m /\ m # None
        BY <1>14, Constants
      <4> QED
        BY <1>4, <1>8, <1>9, <3>1, <4>1, <4>2
    <3>2. CASE k # m
      <4>1. member'[k] = member[k] /\ member[k] # Absent
        BY <1>3, <1>8, <2>1, <3>2
      <4>2. /\ k \in issued /\ member[k].card.connected = (member[k].socket # None)
            /\ member[k].socket \in live => bound[member[k].socket] # None
        BY <1>1, <4>1 DEF TypeOK, Base, Present
      <4>3. ASSUME member[k].socket \in live' PROVE bound'[member[k].socket] # None
        <5>1. member[k].socket \in Socket
          BY <1>1, <1>3, <4>3 DEF TypeOK
        <5> QED
          BY <1>3, <1>14, <4>2, <4>3, <5>1, Constants
      <4>4. k \in issued'
        BY <1>3, <4>2 DEF given2
      <4> QED
        BY <4>1, <4>2, <4>3, <4>4
    <3> QED
      BY <3>1, <3>2
  <2> QED
    BY <2>1
<1>19. /\ issued \subseteq issued' /\ issued' \subseteq MemberId /\ IsFiniteSet(issued')
       /\ live' \subseteq Socket
       /\ \A x \in Socket : bound'[x] # None => x \in live'
  <2>1. IsFiniteSet(given2)
    BY <1>1, FS_AddElement DEF Base, given2
  <2> QED
    BY <1>1, <1>3, <1>14, <2>1 DEF TypeOK, Base, given2
<1>20. \A k \in MemberId : Entering(down'[p], k) \/ (s # None /\ bound'[s] = k) =>
         Owns(p, k) \/ k \in issued' \ issued
  <2>1. \A k \in MemberId : Entering(down'[p], k) => Entering(down[p], k) \/ k = m
    BY <1>2, <1>10, <1>13, EnteringAppend
  <2>2. m \in issued' \ issued
    BY <1>3 DEF given2
  <2> QED
    BY <1>14, <2>1, <2>2 DEF Owns
<1>21. /\ missed' \subseteq Phone /\ \A q \in Phone : q # p => (q \in missed' <=> q \in missed)
       /\ Become(p, v) /\ v.session \in {session[p], None}
       /\ \A q \in Phone : q # p /\ link[q] # None => link[q] # s
  BY <1>1, <1>2, <1>3, <1>4, KeepsItsView DEF v
<1>22. /\ member' \in [MemberId -> Member \cup {Absent}]
       /\ link' = [link EXCEPT ![p] = s] /\ s \in Socket \cup {None}
  BY <1>3, <1>8
<1> QED
  BY <1>2, <1>4, <1>13, <1>14, <1>16, <1>17, <1>18, <1>19, <1>20, <1>21, <1>22, JointStep

-----------------------------------------------------------------------------
(* What follows for every reachable state.                                 *)

LEMMA InitAttuned == Init => IInv
<1> SUFFICES ASSUME Init PROVE IInv
  OBVIOUS
<1>1. /\ NoBuffer \in [MemberId -> Position \cup {None}] /\ \A k \in MemberId : NoBuffer[k] = None
      /\ Nobody \in Roster /\ \A k \in MemberId : Nobody[k] = Absent
  BY DEF NoBuffer, Nobody, Roster
<1>2. TypeOK
  <2>1. << >> \in Seq(Event)
    BY EmptySeq
  <2>2. member \in [MemberId -> Member \cup {Absent}] /\ \A m \in MemberId : member[m] = Absent
    BY DEF Init, Nobody
  <2> QED
    BY <1>1, <2>1, <2>2 DEF Init, TypeOK
<1>3. Base
  <2>1. /\ \A p \in Phone : link[p] = None /\ session[p] = None /\ down[p] = << >>
                            /\ buffer[p] = NoBuffer
        /\ \A s \in Socket : bound[s] = None
        /\ Present = {} /\ issued = {} /\ live = {}
    BY DEF Init, Present, Nobody
  <2>2. \A p \in Phone, m \in MemberId : ~ Owns(p, m)
    BY <2>1, Constants DEF Owns, Speaks, Entering
  <2>3. IsFiniteSet(issued)
    BY <2>1, FS_EmptySet
  <2> QED
    BY <2>1, <2>2, <2>3 DEF Base
<1>4. ASSUME NEW p \in Phone PROVE Attuned(p)
  <2> DEFINE v == View(p)
             R == RoomState(member)
             s == << >>
             h == [i \in 0 .. 0 |-> [k \in MemberId |-> Absent]]
             t == [i \in 0 .. 0 |-> v]
  <2>1. /\ v \in Views /\ v.session = None /\ v.roster = Nobody /\ v.buffer = NoBuffer
        /\ v.shown = Nobody
    <3>1. /\ session[p] = None /\ roster[p] = Nobody /\ buffer[p] = NoBuffer /\ shown[p] = Nobody
      BY DEF Init
    <3> QED
      BY <1>2, <3>1, ViewTyped
  <2>2. /\ (p \notin missed) = TRUE /\ issued = {} /\ (link[p] \in live) = FALSE
        /\ Speaks(p) = None /\ down[p] = << >>
    BY DEF Init, Speaks
  <2>3. R = Nobody
    <3>1. \A k \in MemberId : Nobody[k] = IF member[k] = Absent THEN Absent ELSE member[k].card
      BY DEF Init, Nobody
    <3>2. member \in [MemberId -> Member \cup {Absent}]
      BY <1>2 DEF TypeOK
    <3> QED
      BY <1>1, <3>1, <3>2, RoomStateEquals
  <2> HIDE DEF v, R
  <2>4. Sound(v, TRUE)
    <3>1. \A k \in MemberId : Drawn(Nobody, Nobody, None)[k] = Nobody[k]
      BY <1>1, DrawnIs
    <3>2. Drawn(Nobody, Nobody, None) \in Roster
      BY <1>1, DrawnIs
    <3>3. Drawn(Nobody, Nobody, None) = Nobody
      BY <1>1, <3>1, <3>2 DEF Roster
    <3> QED
      BY <1>1, <2>1, <3>3 DEF Sound
  <2>5. s \in Seq(Event) /\ Len(s) = 0 /\ 0 \in 0 .. 0 /\ \A i \in 1 .. 0 : FALSE
    BY EmptySeq
  <2>6. AnswersFit(s, FALSE, None)
    BY <2>5 DEF AnswersFit
  <2>7. /\ h \in [0 .. 0 -> Marks] /\ t \in [0 .. 0 -> Views] /\ t[0] = v
        /\ \A k \in MemberId : h[0][k] = Absent
    BY <2>1, <2>5 DEF Marks
  <2> HIDE DEF s, h, t
  <2>8. Reading(t, h, v, s, TRUE)
    <3>1. Under(v, h[0])
      BY <1>1, <2>1, <2>7, Constants DEF Under
    <3> QED
      BY <2>5, <2>7, <3>1 DEF Reading, Trace, Heard
  <2>9. Dated(h[Len(s)], Nobody, {})
    BY <2>5, <2>7 DEF Dated
  <2>10. Follows(v, s, TRUE, Nobody, {}, FALSE, None)
    BY <2>4, <2>6, <2>8, <2>9 DEF Follows
  <2>11. Follows(View(p), down[p], p \notin missed, RoomState(member), issued,
                 link[p] \in live, Speaks(p))
    BY <2>2, <2>3, <2>10 DEF v, R, s
  <2> QED
    BY <2>11 DEF Attuned
<1> QED
  BY <1>2, <1>3, <1>4 DEF IInv

LEMMA NothingStep ==
  ASSUME IInv, UNCHANGED vars
  PROVE  IInv'
<1>1. /\ TypeOK /\ Base /\ \A p \in Phone : Attuned(p)
      /\ session' = session /\ link' = link /\ roster' = roster /\ buffer' = buffer
      /\ shown' = shown /\ down' = down /\ member' = member /\ issued' = issued
      /\ live' = live /\ bound' = bound /\ missed' = missed
  BY DEF IInv, vars, phone, server
<1>2. TypeOK'
  BY <1>1 DEF TypeOK
<1>3. Base'
  BY <1>1 DEF Base, Owns, Speaks, Present, NoBuffer
<1>4. ASSUME NEW p \in Phone PROVE Attuned(p)'
  <2>1. View(p)' = View(p) /\ RoomState(member)' = RoomState(member) /\ Speaks(p)' = Speaks(p)
    BY <1>1 DEF View, RoomState, Speaks
  <2>2. (p \notin missed)' = (p \notin missed) /\ (link[p] \in live)' = (link[p] \in live)
    BY <1>1
  <2> QED
    BY <1>1, <2>1, <2>2 DEF Attuned
<1> QED
  BY <1>2, <1>3, <1>4 DEF IInv

LEMMA StepAttuned == IInv /\ [Next]_vars => IInv'
<1> SUFFICES ASSUME IInv, [Next]_vars PROVE IInv'
  OBVIOUS
<1>1. CASE UNCHANGED vars
  BY <1>1, NothingStep
<1>2. ASSUME NEW p \in Phone, NEW s \in Socket, NEW m \in MemberId, NEW ghosts \in SUBSET Present,
             JoinRoom(p, s, m, ghosts)
      PROVE  IInv'
  BY <1>2, JoinRoomStep
<1>3. ASSUME NEW p \in Phone, NEW s \in Socket, Rejoin(p, s) PROVE IInv'
  BY <1>3, RejoinStep
<1>4. ASSUME NEW p \in Phone, Drop(p) \/ Reload(p) \/ LeaveRoom(p) PROVE IInv'
  BY <1>4, DropStep, ReloadStep, LeaveRoomStep
<1>5. ASSUME NEW p \in Phone, OwnFix(p) \/ PositionUpdate(p) PROVE IInv'
  BY <1>5, OwnFixStep, PositionUpdateStep
<1>6. ASSUME NEW p \in Phone, Receive(p) \/ GiveUp(p) \/ Flush(p) PROVE IInv'
  BY <1>6, ReceiveStep, GiveUpStep, FlushStep
<1>7. ASSUME NEW s \in Socket, Disconnect(s) PROVE IInv'
  BY <1>7, DisconnectStep
<1>8. ASSUME NEW m \in MemberId, TimeOut(m) \/ Kick(m) PROVE IInv'
  BY <1>8, TimeOutStep, KickStep
<1>9. CASE CloseRoom
  BY <1>9, CloseRoomStep
<1> QED
  BY <1>1, <1>2, <1>3, <1>4, <1>5, <1>6, <1>7, <1>8, <1>9 DEF Next

\* The inductive invariant: every phone is attuned to the room.
LEMMA StaysAttuned == Spec => []IInv
  BY InitAttuned, StepAttuned, PTL DEF Spec

(* Sessions, rosters, buffers, markers, connections and what is on the way *)
(* keep their types (state.ts, socket.ts, rooms.ts, protocol.ts).          *)
THEOREM RostersTypeCorrect == Spec => []TypeOK
<1>1. IInv => TypeOK
  BY DEF IInv
<1> QED
  BY <1>1, StaysAttuned, PTL

(* What the members of a room and their positions look like on a phone     *)
(* that has read all that the server has sent it (socket.ts handlers,      *)
(* flushPositions) is what the server holds of them, whatever was lost,    *)
(* whoever came back, left, was kicked or replaced meanwhile.              *)
THEOREM RostersFollow == Spec => []RosterFollows
<1>1. ASSUME IInv PROVE RosterFollows
  <2> SUFFICES ASSUME NEW p \in Phone \ missed PROVE FollowsRoom(p)
    BY DEF RosterFollows
  <2> DEFINE s == down[p]
             z == SE!FoldLeft(After, View(p), s)
             w == Flushed(z)
             R == RoomState(member)
             b == Speaks(p)
  <2>1. /\ TypeOK /\ R \in Roster
        /\ Follows(View(p), s, p \notin missed, R, issued, link[p] \in live, b)
    BY <1>1, AttunedIs
  <2>2. View(p) \in Views /\ s \in Seq(Event) /\ b \in MemberId \cup {None}
    BY <2>1, ViewTyped
  <2>3. (p \notin missed) = TRUE
    OBVIOUS
  <2>4. SUFFICES ASSUME link[p] \in live, w.session # None, NEW m \in MemberId \ {w.session}
                 PROVE  w.roster[m] = R[m]
    BY DEF FollowsRoom
  <2>5. (link[p] \in live) = TRUE
    BY <2>4
  <2>6. Follows(View(p), s, TRUE, R, issued, TRUE, b)
    BY <2>1, <2>3, <2>5
  <2> DEFINE v == View(p)
  <2> HIDE DEF v, R, b
  <2>7. PICK t, h : Reading(t, h, v, s, TRUE) /\ Abreast(t[Len(s)], Counted(TRUE, s, Len(s)), R, b)
    BY <2>6 DEF Follows, v
  <2>8. Trace(t, v, s) /\ t[Len(s)] \in Views /\ Counted(TRUE, s, Len(s)) = TRUE
    <3>1. Trace(t, v, s) /\ Len(s) \in Nat
      BY <2>2, <2>7 DEF Reading
    <3>2. Len(s) \in 0 .. Len(s)
      BY <3>1
    <3> QED
      BY <3>1, <3>2 DEF Trace, Counted
  <2>9. z = t[Len(s)] /\ z \in Views
    BY <2>2, <2>8, FoldIsEnd DEF v
  <2>10. Abreast(z, TRUE, R, b)
    BY <2>7, <2>8, <2>9
  <2> HIDE DEF s
  <2> HIDE DEF z
  <2>11. z.roster \in Roster /\ z.buffer \in [MemberId -> Position \cup {None}]
    BY <2>9 DEF Views
  <2>12. w.session = z.session /\ w.roster = WithBuffer(z.roster, z.buffer)
    <3> DEFINE x == [z EXCEPT !.buffer = NoBuffer]
               members == WithBuffer(z.roster, z.buffer)
    <3>1. NoBuffer \in [MemberId -> Position \cup {None}] /\ members \in Roster
      <4>1. \A k \in MemberId : members \in Roster
        BY <2>11, NowIs
      <4>2. m \in MemberId
        BY <2>4
      <4> QED
        BY <4>1, <4>2 DEF NoBuffer
    <3>2. x \in Views /\ x.session = z.session
      BY <2>9, <3>1 DEF Views
    <3> HIDE DEF x, members
    <3>3. w = WithRoster(x, members)
      BY DEF Flushed, x, members
    <3> HIDE DEF w
    <3> QED
      BY <3>1, <3>2, <3>3, WithRosterIs DEF members
  <2> HIDE DEF w
  <2>13. z.session = b /\ b # None /\ m # b /\ Now(z.roster[m], z.buffer[m]) = R[m]
    BY <2>4, <2>10, <2>12 DEF Abreast
  <2> QED
    BY <2>4, <2>11, <2>12, <2>13, NowIs
<1> QED
  BY <1>1, StaysAttuned, PTL

(* On every phone the markers of the map are those of the roster, the      *)
(* phone's own aside, and none are left in solo (MarkerLayer.sync,         *)
(* clearSession, exitToSolo).                                              *)
THEOREM MapsFollow == Spec => []MapFollowsRoster
<1>1. ASSUME IInv PROVE MapFollowsRoster
  <2>1. TypeOK
    BY <1>1 DEF IInv
  <2>2. ASSUME NEW p \in Phone
        PROVE  /\ session[p] = None /\ p \notin missed => roster[p] = Nobody
               /\ shown[p] = Drawn(roster[p], Nobody, session[p])
    <3>1. Sound(View(p), p \notin missed)
      BY <1>1, AttunedIs
    <3>2. View(p).session = session[p] /\ View(p).roster = roster[p] /\ View(p).shown = shown[p]
      BY <2>1, ViewTyped
    <3> QED
      BY <3>1, <3>2 DEF Sound
  <2> QED
    BY <2>1, <2>2 DEF MapFollowsRoster
<1> QED
  BY <1>1, StaysAttuned, PTL

\* A position and the one a phone shows next.
LEMMA NotOlder ==
  ASSUME NEW x \in Position \cup {None}, NEW y \in Position \cup {None}
  PROVE  Upto(x, y) => ~ Older(y, x)
  BY Constants DEF Upto, Older

(* A phone never replaces a position it shows of another member by an      *)
(* older one: snapshots, relayed positions and the flush of the buffer     *)
(* reach it in an order that only moves forward (socket.ts positionBuffer, *)
(* flushPositions, applyRoomState).                                        *)
THEOREM PositionsGoForward == Spec => PositionsAdvance
<1> DEFINE Forward(p, m) ==
             session'[p] = session[p] /\ m # session[p]
             /\ roster[p][m] # Absent /\ roster'[p][m] # Absent
             => ~ Older(roster'[p][m].pos, roster[p][m].pos)
<1>1. ASSUME IInv, IInv', [Next]_vars, NEW p \in Phone, NEW m \in MemberId PROVE Forward(p, m)
  <2>1. TypeOK /\ roster[p] \in Roster /\ roster'[p] \in Roster
    BY <1>1 DEF IInv, TypeOK
  <2>2. roster[p][m] # Absent => roster[p][m].pos \in Position \cup {None}
    BY <2>1 DEF Roster, Card
  <2>3. roster'[p][m] # Absent => roster'[p][m].pos \in Position \cup {None}
    BY <2>1 DEF Roster, Card
  <2>4. CASE roster'[p][m] = roster[p][m]
    BY <2>2, <2>4, UptoIs, NotOlder
  <2>5. ASSUME NEW q \in Phone, NEW w, Become(q, w)
        PROVE  \A r \in Phone : /\ r # q => roster'[r] = roster[r]
                                /\ roster'[q] = w.roster /\ session'[q] = w.session
    BY <2>1, <2>5 DEF Become, TypeOK
  <2>6. ASSUME NEW q \in Phone, Receive(q) PROVE Forward(p, m)
    <3>1. CASE q # p
      BY <2>2, <2>5, <2>6, <3>1, UptoIs, NotOlder DEF Receive
    <3>2. CASE q = p
      <4> DEFINE v == View(p)
                 s == down[p]
                 e == Head(s)
                 w == After(v, e)
                 c == p \notin missed
      <4>1. /\ Follows(v, s, c, RoomState(member), issued, link[p] \in live, Speaks(p))
            /\ v \in Views /\ s \in Seq(Event) /\ c \in BOOLEAN
            /\ v.session = session[p] /\ v.roster = roster[p]
        BY <1>1, <2>1, AttunedIs, ViewTyped
      <4>2. s # << >> /\ roster'[p] = w.roster /\ session'[p] = w.session
        BY <2>5, <2>6, <3>2 DEF Receive
      <4> HIDE DEF v, c
      <4>3. PICK g \in Marks, h \in Marks : Under(v, g) /\ Reads(g, e, h) /\ Fits(v, g, c, e)
        BY <4>1, <4>2, Receives
      <4>4. e \in Event
        BY <4>1, <4>2
      <4> HIDE DEF s, e
      <4>5. SUFFICES ASSUME w.session = v.session, m # v.session, v.roster[m] # Absent,
                            w.roster[m] # Absent
                     PROVE  Upto(v.roster[m].pos, w.roster[m].pos)
        BY <2>2, <2>3, <4>1, <4>2, NotOlder
      <4>6. v.roster \in Roster /\ Upto(v.roster[m].pos, v.roster[m].pos)
        BY <2>1, <2>2, <4>1, <4>5, UptoIs
      <4>7. g[m] # Absent /\ Upto(v.roster[m].pos, g[m]) /\ g[m] \in Position \cup {None}
        BY <4>3, <4>5 DEF Under, Marks
      <4>8. CASE e.type = "room_state"
        <5>1. /\ w.roster = Snapshot(e.members, v.roster, v.session) /\ w.session = e.self
              /\ e.members \in Roster /\ v.session \in MemberId \cup {None}
          BY <4>1, <4>4, <4>8, AfterRoomState, EventIs DEF Views
        <5>2. w.roster[m] = e.members[m]
          <6>1. \A k \in MemberId : k # v.session =>
                  Snapshot(e.members, v.roster, v.session)[k] = e.members[k]
            BY <4>6, <5>1, SnapshotIs, ZenonT(60)
          <6> HIDE DEF w
          <6> QED
            BY <4>5, <5>1, <6>1
        <5>3. Leq(g[m], e.members[m].pos)
          BY <4>3, <4>5, <4>8, <5>2 DEF Reads, Names, PosIn
        <5>4. e.members[m].pos \in Position \cup {None}
          BY <4>5, <5>1, <5>2 DEF Roster, Card
        <5>5. Upto(g[m], e.members[m].pos)
          BY <4>7, <5>3 DEF Leq
        <5>6. v.roster[m].pos \in Position \cup {None}
          BY <4>5, <4>6 DEF Roster, Card
        <5> QED
          BY <4>7, <5>2, <5>4, <5>5, <5>6, UptoIs
      <4>9. CASE e.type \in {"refused", "room_closed"}
        <5>1. w.roster = Nobody
          BY <4>1, <4>4, <4>9, AfterEnding
        <5> QED
          BY <4>5, <5>1 DEF Nobody
      <4>10. CASE e.type = "member_joined"
        <5>1. w.roster = [v.roster EXCEPT ![e.id] = e.card] /\ e.id \in MemberId
          BY <4>1, <4>4, <4>10, AfterJoined
        <5>2. e.id # m
          BY <4>3, <4>7, <4>10 DEF Reads
        <5> QED
          BY <4>6, <5>1, <5>2 DEF Roster
      <4>11. CASE e.type = "member_left"
        <5>1. w.roster = [v.roster EXCEPT ![e.id] = Absent] /\ e.id \in MemberId
          BY <4>1, <4>4, <4>11, AfterLeft
        <5> QED
          BY <4>5, <4>6, <5>1 DEF Roster
      <4>12. CASE e.type = "member_updated"
        <5>1. w.roster = WithUpdated(v.roster, e) /\ e.id \in MemberId /\ e.connected \in BOOLEAN
          BY <4>1, <4>4, <4>12, AfterUpdated
        <5> HIDE DEF w
        <5>2. w.roster[m].pos = v.roster[m].pos
          BY <4>5, <4>6, <5>1, WithUpdatedIs
        <5> QED
          BY <4>6, <5>2
      <4>13. CASE e.type = "member_position"
        BY <4>1, <4>4, <4>6, <4>13, AfterPosition
      <4> QED
        BY <4>4, <4>8, <4>9, <4>10, <4>11, <4>12, <4>13, EventIs
    <3> QED
      BY <3>1, <3>2
  <2>7. ASSUME NEW q \in Phone, Flush(q) PROVE Forward(p, m)
    <3>1. CASE q # p
      BY <2>2, <2>5, <2>7, <3>1, UptoIs, NotOlder DEF Flush
    <3>2. CASE q = p
      <4> DEFINE v == View(p)
                 w == Flushed(v)
                 c == p \notin missed
      <4>1. /\ Sound(v, c) /\ v \in Views /\ c \in BOOLEAN
            /\ v.session = session[p] /\ v.roster = roster[p]
        BY <1>1, <2>1, AttunedIs, ViewTyped
      <4>2. roster'[p] = w.roster /\ session'[p] = w.session
        BY <2>5, <2>7, <3>2 DEF Flush
      <4> HIDE DEF v, c
      <4>3. w.roster = WithBuffer(v.roster, v.buffer)
        BY <4>1, FlushedIs
      <4> HIDE DEF w
      <4>4. /\ v.roster \in Roster /\ v.buffer \in [MemberId -> Position \cup {None}]
            /\ v.buffer[m] \in Position \cup {None}
        BY <4>1 DEF Views
      <4>5. w.roster[m] = Now(v.roster[m], v.buffer[m])
        BY <4>3, <4>4, NowIs
      <4>6. ASSUME v.roster[m] # Absent
            PROVE  w.roster[m].pos = IF v.buffer[m] = None THEN v.roster[m].pos ELSE v.buffer[m]
        <5>1. v.roster[m] \in Card
          BY <4>4, <4>6 DEF Roster
        <5> QED
          BY <4>5, <4>6, <5>1 DEF Now, Card
      <4>7. ASSUME m # v.session, v.roster[m] # Absent
            PROVE  Upto(v.roster[m].pos, w.roster[m].pos)
        <5>1. v.buffer[m] # None => Upto(v.roster[m].pos, v.buffer[m])
          BY <4>1, <4>7 DEF Sound
        <5>2. Upto(v.roster[m].pos, v.roster[m].pos)
          BY <2>2, <4>1, <4>7, UptoIs
        <5> QED
          BY <4>6, <4>7, <5>1, <5>2
      <4> QED
        BY <2>2, <2>3, <4>1, <4>2, <4>7, NotOlder
    <3> QED
      BY <3>1, <3>2
  <2>8. ASSUME NEW q \in Phone, Reload(q) \/ LeaveRoom(q) PROVE Forward(p, m)
    <3>1. PICK w : Become(q, w) /\ w.roster = Nobody
      <4>1. CASE Reload(q)
        <5> DEFINE w == [View(q) EXCEPT !.roster = Nobody, !.buffer = NoBuffer, !.shown = Nobody]
        <5>1. Become(q, w) /\ w.roster = Nobody
          BY <4>1 DEF Reload, View
        <5> QED
          BY <5>1
      <4>2. CASE LeaveRoom(q)
        <5> DEFINE w == [Solo(View(q)) EXCEPT !.buffer = NoBuffer]
        <5>1. Become(q, w) /\ w.roster = Nobody
          BY <4>2 DEF LeaveRoom, Solo, View
        <5> QED
          BY <5>1
      <4> QED
        BY <2>8, <4>1, <4>2
    <3>2. CASE q # p
      <4>1. roster'[p] = roster[p]
        BY <2>5, <3>1, <3>2
      <4> QED
        BY <2>4, <4>1
    <3>3. CASE q = p
      <4>1. roster'[p] = Nobody
        BY <2>5, <3>1, <3>3
      <4> QED
        BY <4>1 DEF Nobody
    <3> QED
      BY <3>2, <3>3
  <2>9. ASSUME NEW q \in Phone, OwnFix(q) PROVE Forward(p, m)
    <3>1. m # session[p] => roster'[p][m] = roster[p][m]
      BY <2>1, <2>9 DEF OwnFix, TypeOK, Roster
    <3> QED
      BY <2>4, <3>1
  <2>10. CASE roster' = roster
    BY <2>4, <2>10
  <2>11. ASSUME NEW q \in Phone,
                \/ \E s \in Socket, k \in MemberId, ghosts \in SUBSET Present :
                     JoinRoom(q, s, k, ghosts)
                \/ \E s \in Socket : Rejoin(q, s)
                \/ Drop(q) \/ PositionUpdate(q) \/ GiveUp(q)
         PROVE  roster' = roster
    BY <2>11 DEF JoinRoom, Rejoin, Drop, Unlinked, PositionUpdate, GiveUp, phone
  <2>12. ASSUME \/ \E s \in Socket : Disconnect(s)
                \/ \E k \in MemberId : TimeOut(k) \/ Kick(k)
                \/ CloseRoom \/ UNCHANGED vars
         PROVE  roster' = roster
    BY <2>12 DEF Disconnect, TimeOut, Kick, CloseRoom, phone, vars
  <2> HIDE DEF Forward
  <2> QED
    BY <1>1, <2>6, <2>7, <2>8, <2>9, <2>10, <2>11, <2>12 DEF Next
<1>2. IInv /\ IInv' /\ [Next]_vars =>
        [\A p \in Phone, m \in MemberId :
           /\ session'[p] = session[p] /\ m # session[p]
           /\ roster[p][m] # Absent /\ roster'[p][m] # Absent
           => ~ Older(roster'[p][m].pos, roster[p][m].pos)]_vars
  BY <1>1
<1> QED
  BY <1>2, InitAttuned, StepAttuned, PTL DEF Spec, PositionsAdvance
=============================================================================
