---------------------------- MODULE RoomsProofs -----------------------------
(***************************************************************************)
(* Proofs about Rooms, for every set of codes, members, sockets, callsigns *)
(* and posts, every limit and every way of stopping:                       *)
(*   RoomsTypeCorrect  Spec => []TypeOK                                    *)
(*   HoldersDistinct   Spec => []OneHolder                                 *)
(*   CountdownCorrect  Spec => []CountdownRuns                             *)
(*   LimitsKept        Spec => []WithinLimits                              *)
(*   EvictionsAdmit    Spec => EvictionAdmits                              *)
(* when the server never crashes,                                          *)
(*   TtlRespected      Spec => RoomKeptForTtl                              *)
(* and when it is not restarted at all,                                    *)
(*   GraceRespected    Spec => GraceHonoured                               *)
(***************************************************************************)
EXTENDS Rooms, FiniteSetTheorems, TLAPS

USE DEF Present, In, Up, Refreshed

-----------------------------------------------------------------------------
(* Types.                                                                  *)

LEMMA WithoutType ==
  ASSUME NEW mem \in Members, NEW gone
  PROVE  Without(mem, gone) \in Members
BY DEF Without, Members

LEMMA OfflineType ==
  ASSUME NEW mem \in Members, NEW gone \in SUBSET Present(mem), now \in Time
  PROVE  Offline(mem, gone) \in Members
<1> SUFFICES ASSUME NEW m \in MemberId
             PROVE  Offline(mem, gone)[m] \in Member \cup {Absent}
  BY DEF Offline, Members
<1>1. CASE m \in gone
  <2>1. mem[m] \in Member
    BY <1>1 DEF Members
  <2> QED
    BY <1>1, <2>1 DEF Offline, Member
<1>2. CASE m \notin gone
  BY <1>2 DEF Offline, Members
<1> QED
  BY <1>1, <1>2

LEMMA RecountType ==
  ASSUME NEW since \in Countdown, NEW mem, NEW rooms, now \in Time
  PROVE  Recount(since, mem, rooms) \in Countdown
BY DEF Recount, Countdown

LEMMA RestoredType ==
  ASSUME NEW mem \in Members
  PROVE  Restored(mem) \in Members
<1> SUFFICES ASSUME NEW m \in MemberId
             PROVE  Restored(mem)[m] \in Member \cup {Absent}
  BY DEF Restored, Members
<1>1. CASE mem[m] = Absent
  BY <1>1 DEF Restored
<1>2. CASE mem[m] # Absent
  <2>1. mem[m] \in Member
    BY <1>2 DEF Members
  <2> QED
    BY <1>2, <2>1 DEF Restored, Member
<1> QED
  BY <1>1, <1>2

LEMMA NewMemberType ==
  ASSUME TypeOK, NEW c \in Code, NEW x \in Callsign, NEW p \in Post, NEW s \in Socket
  PROVE  NewMember(c, x, p, s) \in Member
BY DEF TypeOK, NewMember, Member

LEMMA PresentType ==
  ASSUME TypeOK, NEW m \in Present(member)
  PROVE  /\ member[m] \in Member
         /\ member[m].room \in Code
BY DEF TypeOK, Members, Member

\* What every step but the clock's leaves as it was, and what Observe adds.
LEMMA ObserveType ==
  ASSUME TypeOK, now' \in Time, member' \in Members, Observe
  PROVE  onlineAt' \in [MemberId -> Time] /\ busyAt' \in [Code -> Time]
BY DEF TypeOK, Observe

\* Everything but the histories.
CoreType ==
  /\ now \in Time
  /\ running \in BOOLEAN
  /\ member \in Members
  /\ emptySince \in Countdown
  /\ issued \subseteq MemberId
  /\ link \in [Socket -> {"new", "up", "down"}]
  /\ bound \in [Socket -> MemberId \cup {None}]
  /\ disk \in [member : Members, emptySince : Countdown]

LEMMA EnterRoomType ==
  ASSUME TypeOK, NEW s \in Socket, NEW m \in MemberId, EnterRoom(s, m)
  PROVE  /\ link' \in [Socket -> {"new", "up", "down"}]
         /\ bound' \in [Socket -> MemberId \cup {None}]
BY DEF TypeOK, EnterRoom

LEMMA DownType ==
  ASSUME TypeOK, NEW cut, Down(cut)
  PROVE  /\ link' \in [Socket -> {"new", "up", "down"}]
         /\ bound' \in [Socket -> MemberId \cup {None}]
BY DEF TypeOK, Down

LEMMA StopType ==
  ASSUME TypeOK, Stop, disk' \in [member : Members, emptySince : Countdown]
  PROVE  CoreType'
<1>1. NoMembers \in Members /\ NoRooms \in Countdown
  BY DEF NoMembers, NoRooms, Members, Countdown
<1> QED
  BY <1>1, DownType DEF Stop, TypeOK, CoreType

LEMMA RequestType ==
  ASSUME TypeOK, NEW s \in Socket, Request(s)
  PROVE  CoreType'
<1>1. ASSUME NEW c \in Code, NEW m \in MemberId, NEW x \in Callsign, NEW p \in Post,
             CreateRoom(s, c, m, x, p)
      PROVE  CoreType'
  <2>1. member' \in Members
    BY <1>1, NewMemberType DEF CreateRoom, TypeOK, Members
  <2>2. emptySince' \in Countdown
    BY <1>1 DEF CreateRoom, TypeOK, Countdown
  <2> QED
    BY <1>1, <2>1, <2>2, EnterRoomType DEF CreateRoom, TypeOK, CoreType
<1>2. ASSUME NEW c \in Code, NEW m \in MemberId, NEW x \in Callsign, NEW p \in Post,
             NEW replace \in BOOLEAN, JoinRoom(s, c, m, x, p, replace)
      PROVE  CoreType'
  <2> DEFINE rest == Without(member, Rivals(c, x, p))
  <2>1. rest \in Members
    BY WithoutType DEF TypeOK
  <2>2. CASE Full(rest, c)
    BY <1>2, <2>1, <2>2 DEF JoinRoom, TypeOK, CoreType
  <2>3. CASE ~Full(rest, c)
    <3>1. /\ member' = [rest EXCEPT ![m] = NewMember(c, x, p, s)]
          /\ emptySince' = [emptySince EXCEPT ![c] = None]
          /\ issued' = issued \cup {m}
          /\ EnterRoom(s, m)
          /\ UNCHANGED <<now, running, disk>>
      BY <1>2, <2>3 DEF JoinRoom
    <3>2. member' \in Members
      BY <2>1, <3>1, NewMemberType DEF Members
    <3>3. emptySince' \in Countdown
      BY <3>1 DEF TypeOK, Countdown
    <3> QED
      BY <3>1, <3>2, <3>3, EnterRoomType DEF TypeOK, CoreType
  <2> QED
    BY <2>2, <2>3
<1>3. ASSUME NEW m \in MemberId, Rejoin(s, m)
      PROVE  CoreType'
  <2>1. m \in Present(member) /\ member[m] \in Member
    BY <1>3, PresentType DEF Rejoin
  <2>2. member' = [member EXCEPT ![m] = [@ EXCEPT !.connected = TRUE, !.socket = s, !.lastSeen = now]]
    BY <1>3 DEF Rejoin, TypeOK, Members
  <2>3. [member[m] EXCEPT !.connected = TRUE, !.socket = s, !.lastSeen = now] \in Member
    BY <2>1 DEF Member, TypeOK
  <2>4. member' \in Members
    BY <2>2, <2>3 DEF TypeOK, Members
  <2>5. emptySince' \in Countdown
    BY <1>3 DEF Rejoin, TypeOK, Countdown
  <2> QED
    BY <1>3, <2>4, <2>5, EnterRoomType DEF Rejoin, TypeOK, CoreType
<1>4. CASE PositionUpdate(s)
  <2>1. PICK m \in Holder(s) : member' = [member EXCEPT ![m].lastSeen = now]
    BY <1>4 DEF PositionUpdate
  <2>2. m \in Present(member) /\ member[m] \in Member
    BY PresentType DEF Holder
  <2>3. member' \in Members
    BY <2>1, <2>2 DEF TypeOK, Members, Member
  <2> QED
    BY <1>4, <2>3 DEF PositionUpdate, TypeOK, CoreType
<1>5. ASSUME NEW p \in Post, UpdateSymbol(s, p)
      PROVE  CoreType'
  <2>1. PICK m \in Holder(s) : member' = [member EXCEPT ![m].post = p]
    BY <1>5 DEF UpdateSymbol
  <2>2. m \in Present(member) /\ member[m] \in Member
    BY PresentType DEF Holder
  <2>3. member' \in Members
    BY <2>1, <2>2 DEF TypeOK, Members, Member
  <2> QED
    BY <1>5, <2>3 DEF UpdateSymbol, TypeOK, CoreType
<1>6. CASE LeaveRoom(s)
  <2>1. member' \in Members
    BY <1>6, WithoutType DEF LeaveRoom, TypeOK
  <2>2. emptySince' \in Countdown
    BY <1>6, RecountType DEF LeaveRoom, TypeOK
  <2> QED
    BY <1>6, <2>1, <2>2 DEF LeaveRoom, TypeOK, CoreType
<1>7. CASE Disconnect(s)
  <2>1. Holder(s) \subseteq Present(member)
    BY DEF Holder
  <2>2. member' \in Members
    BY <1>7, <2>1, OfflineType DEF Disconnect, TypeOK
  <2>3. emptySince' \in Countdown
    BY <1>7, RecountType DEF Disconnect, TypeOK
  <2> QED
    BY <1>7, <2>2, <2>3, DownType DEF Disconnect, TypeOK, CoreType
<1> QED
  BY <1>1, <1>2, <1>3, <1>4, <1>5, <1>6, <1>7 DEF Request

LEMMA AdminType ==
  ASSUME TypeOK, Admin
  PROVE  CoreType'
<1>1. ASSUME NEW c \in Code, CloseRoom(c)
      PROVE  CoreType'
  <2>1. member' \in Members
    BY <1>1, WithoutType DEF CloseRoom, TypeOK
  <2> QED
    BY <1>1, <2>1 DEF CloseRoom, TypeOK, CoreType, Countdown
<1>2. ASSUME NEW c \in Code, ExtendRoom(c)
      PROVE  CoreType'
  BY <1>2 DEF ExtendRoom, Extended, TypeOK, CoreType, Countdown
<1>3. ASSUME NEW m \in MemberId, Kick(m)
      PROVE  CoreType'
  <2> DEFINE cut  == Up \cap {member[m].socket}
             rest == Without(member, {m})
             gone == (UNION {Holder(s) : s \in cut}) \ {m}
  <2>1. rest \in Members
    BY WithoutType DEF TypeOK
  <2>2. ASSUME NEW k \in gone
        PROVE  k \in Present(rest)
    <3>1. k \in Present(member) /\ k # m
      BY DEF Holder
    <3>2. rest[k] = member[k]
      BY <3>1 DEF Without
    <3> QED
      BY <3>1, <3>2
  <2>3. gone \in SUBSET Present(rest)
    BY <2>2
  <2>4. Offline(rest, gone) \in Members
    BY <2>1, <2>3, OfflineType DEF TypeOK
  <2>5. emptySince' \in Countdown
    BY <1>3, RecountType DEF Kick, TypeOK
  <2>6. Down(cut)
    BY <1>3 DEF Kick
  <2> QED
    BY <1>3, <2>4, <2>5, <2>6, DownType DEF Kick, TypeOK, CoreType
<1> QED
  BY <1>1, <1>2, <1>3 DEF Admin

LEMMA ServerType ==
  ASSUME TypeOK, Sweep \/ Save \/ Shutdown \/ Crash \/ Start \/ Tick
  PROVE  CoreType'
<1>1. CASE Sweep
  <2>1. member' \in Members
    BY <1>1, WithoutType DEF Sweep, TypeOK
  <2>2. Recount(emptySince, Without(member, Expired), Open) \in Countdown
    BY RecountType DEF TypeOK
  <2>3. emptySince' \in Countdown
    BY <1>1, <2>2 DEF Sweep, Countdown
  <2> QED
    BY <1>1, <2>1, <2>3 DEF Sweep, TypeOK, CoreType
<1>2. CASE Save
  BY <1>2 DEF Save, Snapshot, TypeOK, CoreType
<1>3. CASE Shutdown
  <2> DEFINE gone  == UNION {Holder(s) : s \in Up}
             after == Offline(member, gone)
  <2>1. gone \in SUBSET Present(member)
    BY DEF Holder
  <2>2. after \in Members
    BY <2>1, OfflineType DEF TypeOK
  <2>3. Recount(emptySince, after, RoomsOf(gone)) \in Countdown
    BY RecountType DEF TypeOK
  <2>4. disk' \in [member : Members, emptySince : Countdown]
    BY <1>3, <2>2, <2>3 DEF Shutdown, Snapshot
  <2> QED
    BY <1>3, <2>4, StopType DEF Shutdown
<1>4. CASE Crash
  BY <1>4, StopType DEF Crash, TypeOK
<1>5. CASE Start
  <2>1. disk.member \in Members /\ disk.emptySince \in Countdown
    BY DEF TypeOK
  <2>2. member' \in Members
    BY <1>5, <2>1, RestoredType DEF Start
  <2>3. emptySince' \in Countdown
    BY <1>5, <2>1, RecountType DEF Start, TypeOK
  <2> QED
    BY <1>5, <2>2, <2>3 DEF Start, TypeOK, CoreType
<1>6. CASE Tick
  BY <1>6, RoomsAssumption DEF Tick, TypeOK, CoreType, Time
<1> QED
  BY <1>1, <1>2, <1>3, <1>4, <1>5, <1>6

LEMMA RoomsTypeStep == TypeOK /\ [Next]_vars => TypeOK'
<1> SUFFICES ASSUME TypeOK, [Next]_vars
             PROVE  TypeOK'
  OBVIOUS
<1>1. CASE Next
  <2>1. CoreType'
    BY <1>1, RequestType, AdminType, ServerType DEF Next
  <2>2. onlineAt' \in [MemberId -> Time] /\ busyAt' \in [Code -> Time]
    BY <1>1, <2>1, ObserveType DEF Next, CoreType
  <2> QED
    BY <2>1, <2>2 DEF TypeOK, CoreType
<1>2. CASE UNCHANGED vars
  BY <1>2 DEF vars, TypeOK
<1> QED
  BY <1>1, <1>2

(* Every date kept is within the clock's range, every member record and    *)
(* countdown well formed, in memory and on disk (rooms.ts, persistence.ts). *)
THEOREM RoomsTypeCorrect == Spec => []TypeOK
<1>1. Init => TypeOK
  BY RoomsAssumption DEF Init, TypeOK, NoMembers, NoRooms, Members, Countdown, Time
<1> QED
  BY <1>1, RoomsTypeStep, PTL DEF Spec

-----------------------------------------------------------------------------
(* One holder.  That a room just created is empty of members rests on no   *)
(* member outliving its room (Housed), and that a restart brings no clash  *)
(* back on the snapshot having held none.                                  *)

Housed(mem, since) == \A m \in Present(mem) : since[mem[m].room] # Absent

\* mem keeps some of the members of old, with their room and their names.
SubRoster(mem, old) ==
  \A m \in Present(mem) : /\ m \in Present(old)
                          /\ mem[m].room = old[m].room
                          /\ mem[m].callsign = old[m].callsign
                          /\ mem[m].post = old[m].post

HolderInv ==
  /\ TypeOK
  /\ OneHolder
  /\ Housed(member, emptySince)
  /\ Distinct(disk.member)
  /\ Housed(disk.member, disk.emptySince)

LEMMA SubRosterDistinct ==
  ASSUME NEW mem, NEW old, SubRoster(mem, old), Distinct(old)
  PROVE  Distinct(mem)
BY DEF SubRoster, Distinct

LEMMA WithoutSub ==
  ASSUME NEW mem, NEW gone
  PROVE  SubRoster(Without(mem, gone), mem)
BY DEF SubRoster, Without

LEMMA OfflineSub ==
  ASSUME NEW mem \in Members, NEW gone \in SUBSET Present(mem)
  PROVE  SubRoster(Offline(mem, gone), mem)
<1> SUFFICES ASSUME NEW m \in Present(Offline(mem, gone))
             PROVE  /\ m \in Present(mem)
                    /\ Offline(mem, gone)[m].room = mem[m].room
                    /\ Offline(mem, gone)[m].callsign = mem[m].callsign
                    /\ Offline(mem, gone)[m].post = mem[m].post
  BY DEF SubRoster
<1>1. CASE m \in gone
  <2>1. mem[m] \in Member
    BY <1>1 DEF Members
  <2> QED
    BY <1>1, <2>1 DEF Offline, Member
<1>2. CASE m \notin gone
  BY <1>2 DEF Offline
<1> QED
  BY <1>1, <1>2

LEMMA RestoredSub ==
  ASSUME NEW mem \in Members
  PROVE  SubRoster(Restored(mem), mem)
<1> SUFFICES ASSUME NEW m \in Present(Restored(mem))
             PROVE  /\ m \in Present(mem)
                    /\ Restored(mem)[m].room = mem[m].room
                    /\ Restored(mem)[m].callsign = mem[m].callsign
                    /\ Restored(mem)[m].post = mem[m].post
  BY DEF SubRoster
<1>1. mem[m] \in Member
  BY DEF Restored, Members
<1> QED
  BY <1>1, AbsentAssumption DEF Restored, Member

LEMMA SubRosterTransitive ==
  ASSUME NEW a, NEW b, NEW c, SubRoster(a, b), SubRoster(b, c)
  PROVE  SubRoster(a, c)
BY DEF SubRoster

LEMMA NowIsDate == TypeOK => now \in Nat /\ now # Absent /\ now # None /\ None # Absent
BY RoomsAssumption DEF TypeOK, Time

LEMMA RecountOpen ==
  ASSUME TypeOK, NEW since, NEW mem, NEW rooms, NEW c \in Code, since[c] # Absent
  PROVE  Recount(since, mem, rooms)[c] # Absent
BY NowIsDate DEF Recount

\* Removing members, or taking them offline, and recounting, is harmless.
LEMMA ShrinkHolds ==
  ASSUME HolderInv, NEW mem, SubRoster(mem, member), NEW rooms
  PROVE  /\ Distinct(mem)
         /\ Housed(mem, emptySince)
         /\ Housed(mem, Recount(emptySince, mem, rooms))
<1>1. Distinct(mem)
  BY SubRosterDistinct DEF HolderInv, OneHolder
<1>2. \A m \in Present(mem) : mem[m].room = member[m].room /\ m \in Present(member) /\ mem[m].room \in Code
  BY PresentType DEF SubRoster, HolderInv
<1>3. Housed(mem, emptySince)
  BY <1>2 DEF HolderInv, Housed
<1>4. Housed(mem, Recount(emptySince, mem, rooms))
  BY <1>2, <1>3, RecountOpen DEF HolderInv, Housed
<1> QED
  BY <1>1, <1>3, <1>4

\* A newcomer whose names nobody in its room has, once the members gone have
\* left.  (An id is never given twice; if one were, its record is replaced.)
LEMMA NewcomerHolds ==
  ASSUME HolderInv, NEW gone, NEW c \in Code, NEW m \in MemberId, NEW x, NEW p,
         \A k \in In(member, c) \ gone :
           member[k].callsign # x /\ (p # GV => member[k].post # p),
         member'[m].room = c, member'[m].callsign = x, member'[m].post = p,
         \A k \in MemberId \ {m} : member'[k] = Without(member, gone)[k],
         emptySince'[c] = None,
         \A d \in Code \ {c} : emptySince'[d] = emptySince[d]
  PROVE  Distinct(member') /\ Housed(member', emptySince')
<1> DEFINE mem == Without(member, gone \cup {m})
<1>1. Distinct(mem) /\ Housed(mem, emptySince)
  BY WithoutSub, ShrinkHolds
<1>2. \A k \in Present(member') \ {m} : k \in Present(mem) /\ member'[k] = mem[k]
  BY DEF Without
<1>3. \A k \in In(mem, c) : mem[k].callsign # x /\ (p # GV => mem[k].post # p)
  BY DEF Without
<1>4. Distinct(member')
  <2> SUFFICES ASSUME NEW d \in Code, NEW k \in In(member', d), NEW j \in In(member', d), k # j
               PROVE  /\ member'[k].callsign # member'[j].callsign
                      /\ member'[k].post = GV \/ member'[k].post # member'[j].post
    BY DEF Distinct
  <2> HIDE DEF mem
  <2>1. CASE k # m /\ j # m
    <3>1. k \in In(mem, d) /\ j \in In(mem, d) /\ member'[k] = mem[k] /\ member'[j] = mem[j]
      BY <1>2, <2>1
    <3> QED
      BY <1>1, <3>1 DEF Distinct
  <2>2. CASE k = m
    <3>1. d = c /\ j \in In(mem, c) /\ member'[j] = mem[j]
      BY <1>2, <2>2
    <3> QED
      BY <1>3, <2>2, <3>1
  <2>3. CASE j = m
    <3>1. d = c /\ k \in In(mem, c) /\ member'[k] = mem[k]
      BY <1>2, <2>3
    <3> QED
      BY <1>3, <2>3, <3>1
  <2> QED
    BY <2>1, <2>2, <2>3
<1>5. \A k \in Present(mem) : mem[k].room \in Code
  BY PresentType DEF HolderInv, Without
<1>6. emptySince'[c] # Absent
  BY NowIsDate DEF HolderInv
<1>7. Housed(member', emptySince')
  BY <1>1, <1>2, <1>5, <1>6 DEF Housed
<1> QED
  BY <1>4, <1>7

LEMMA RequestHolds ==
  ASSUME HolderInv, NEW s \in Socket, Request(s)
  PROVE  Distinct(member') /\ Housed(member', emptySince') /\ UNCHANGED disk
<1> USE DEF HolderInv
<1>0. SubRoster(member, member) /\ member \in Members
  BY DEF SubRoster, TypeOK
<1>1. ASSUME NEW c \in Code, NEW m \in MemberId, NEW x \in Callsign, NEW p \in Post,
             CreateRoom(s, c, m, x, p)
      PROVE  Distinct(member') /\ Housed(member', emptySince') /\ UNCHANGED disk
  <2>1. In(member, c) = {}
    BY <1>1 DEF CreateRoom, Open, Housed
  <2>2. /\ member' = [member EXCEPT ![m] = NewMember(c, x, p, s)]
        /\ emptySince' = [emptySince EXCEPT ![c] = None]
        /\ UNCHANGED disk
    BY <1>1 DEF CreateRoom
  <2>3. member'[m].room = c /\ member'[m].callsign = x /\ member'[m].post = p
    BY <1>0, <2>2 DEF Members, NewMember
  <2>4. \A k \in MemberId \ {m} : member'[k] = Without(member, {})[k]
    BY <1>0, <2>2 DEF Members, Without
  <2>5. emptySince'[c] = None /\ \A d \in Code \ {c} : emptySince'[d] = emptySince[d]
    BY <2>2 DEF TypeOK, Countdown
  <2>6. \A k \in In(member, c) \ {} : member[k].callsign # x /\ (p # GV => member[k].post # p)
    BY <2>1
  <2>7. Distinct(member') /\ Housed(member', emptySince')
    BY <2>3, <2>4, <2>5, <2>6, NewcomerHolds
  <2> QED
    BY <2>2, <2>7
<1>2. ASSUME NEW c \in Code, NEW m \in MemberId, NEW x \in Callsign, NEW p \in Post,
             NEW replace \in BOOLEAN, JoinRoom(s, c, m, x, p, replace)
      PROVE  Distinct(member') /\ Housed(member', emptySince') /\ UNCHANGED disk
  <2> DEFINE rest == Without(member, Rivals(c, x, p))
  <2>1. CASE Full(rest, c)
    BY <1>2, <2>1, WithoutSub, ShrinkHolds DEF JoinRoom
  <2>2. CASE ~Full(rest, c)
    <3>1. /\ member' = [rest EXCEPT ![m] = NewMember(c, x, p, s)]
          /\ emptySince' = [emptySince EXCEPT ![c] = None]
          /\ UNCHANGED disk
      BY <1>2, <2>2 DEF JoinRoom
    <3>2. \A k \in In(member, c) \ Rivals(c, x, p) :
            member[k].callsign # x /\ (p # GV => member[k].post # p)
      BY DEF Rivals
    <3>3. member'[m].room = c /\ member'[m].callsign = x /\ member'[m].post = p
      BY <3>1 DEF Without, NewMember
    <3>4. \A k \in MemberId \ {m} : member'[k] = rest[k]
      BY <3>1 DEF Without
    <3>5. emptySince'[c] = None /\ \A d \in Code \ {c} : emptySince'[d] = emptySince[d]
      BY <3>1 DEF TypeOK, Countdown
    <3>6. Distinct(member') /\ Housed(member', emptySince')
      BY <3>2, <3>3, <3>4, <3>5, NewcomerHolds
    <3> QED
      BY <3>1, <3>6
  <2> QED
    BY <2>1, <2>2
<1>3. ASSUME NEW m \in MemberId, Rejoin(s, m)
      PROVE  Distinct(member') /\ Housed(member', emptySince') /\ UNCHANGED disk
  <2>1. m \in Present(member) /\ member[m] \in Member
    BY <1>3, PresentType DEF Rejoin
  <2>2. member' = [member EXCEPT ![m] = [@ EXCEPT !.connected = TRUE, !.socket = s, !.lastSeen = now]]
    BY <1>0, <1>3 DEF Rejoin, Members
  <2>3. SubRoster(member', member)
    BY <1>0, <2>1, <2>2 DEF SubRoster, Members, Member
  <2>4. Distinct(member') /\ Housed(member', emptySince)
    BY <2>3, ShrinkHolds
  <2>5. \A d \in Code : emptySince[d] # Absent => emptySince'[d] # Absent
    BY <1>3, NowIsDate DEF Rejoin, TypeOK, Countdown
  <2>6. \A k \in Present(member') : member'[k].room \in Code
    BY <2>3, PresentType DEF SubRoster
  <2> QED
    BY <1>3, <2>4, <2>5, <2>6 DEF Rejoin, Housed
<1>4. CASE PositionUpdate(s)
  <2>1. PICK m \in Holder(s) : member' = [member EXCEPT ![m].lastSeen = now]
    BY <1>4 DEF PositionUpdate
  <2>2. m \in Present(member) /\ member[m] \in Member
    BY PresentType DEF Holder
  <2>3. SubRoster(member', member)
    BY <1>0, <2>1, <2>2 DEF SubRoster, Members, Member
  <2> QED
    BY <1>4, <2>3, ShrinkHolds DEF PositionUpdate
<1>5. ASSUME NEW p \in Post, UpdateSymbol(s, p)
      PROVE  Distinct(member') /\ Housed(member', emptySince') /\ UNCHANGED disk
  <2>1. PICK m \in Holder(s) :
          /\ p # GV => \A k \in In(member, member[m].room) \ {m} : member[k].post # p
          /\ member' = [member EXCEPT ![m].post = p]
    BY <1>5 DEF UpdateSymbol
  <2>2. m \in Present(member) /\ member[m] \in Member
    BY PresentType DEF Holder
  <2>3. /\ member'[m] = [member[m] EXCEPT !.post = p]
        /\ \A k \in MemberId \ {m} : member'[k] = member[k]
    BY <1>0, <2>1, <2>2 DEF Members
  <2>4. /\ member'[m].room = member[m].room
        /\ member'[m].callsign = member[m].callsign
        /\ member'[m].post = p
    BY <2>2, <2>3 DEF Member
  <2>5. \A k \in Present(member') : /\ k \in Present(member)
                                    /\ member'[k].room = member[k].room
                                    /\ member'[k].callsign = member[k].callsign
                                    /\ k # m => member'[k].post = member[k].post
    BY <2>2, <2>3, <2>4
  <2>6. Distinct(member')
    BY <2>1, <2>4, <2>5 DEF OneHolder, Distinct
  <2>7. Housed(member', emptySince')
    BY <1>5, <2>5 DEF UpdateSymbol, Housed
  <2> QED
    BY <1>5, <2>6, <2>7 DEF UpdateSymbol
<1>6. CASE LeaveRoom(s)
  <2>1. PICK m \in Holder(s) :
          /\ member' = Without(member, {m})
          /\ emptySince' = Recount(emptySince, Without(member, {m}), {member[m].room})
    BY <1>6 DEF LeaveRoom
  <2> QED
    BY <1>6, <2>1, WithoutSub, ShrinkHolds DEF LeaveRoom
<1>7. CASE Disconnect(s)
  <2>1. SubRoster(Offline(member, Holder(s)), member)
    BY <1>0, OfflineSub DEF Holder
  <2> QED
    BY <1>7, <2>1, ShrinkHolds DEF Disconnect
<1> QED
  BY <1>1, <1>2, <1>3, <1>4, <1>5, <1>6, <1>7 DEF Request

LEMMA AdminHolds ==
  ASSUME HolderInv, Admin
  PROVE  Distinct(member') /\ Housed(member', emptySince') /\ UNCHANGED disk
<1> USE DEF HolderInv
<1>1. ASSUME NEW c \in Code, CloseRoom(c)
      PROVE  Distinct(member') /\ Housed(member', emptySince') /\ UNCHANGED disk
  <2> DEFINE rest == Without(member, In(member, c))
  <2>1. Distinct(rest) /\ Housed(rest, emptySince)
    BY WithoutSub, ShrinkHolds
  <2>2. \A m \in Present(rest) : rest[m] = member[m] /\ member[m].room \in Code \ {c}
    BY PresentType DEF Without
  <2>3. Housed(rest, emptySince')
    BY <1>1, <2>1, <2>2 DEF CloseRoom, Housed, TypeOK, Countdown
  <2> QED
    BY <1>1, <2>1, <2>3 DEF CloseRoom
<1>2. ASSUME NEW c \in Code, ExtendRoom(c)
      PROVE  Distinct(member') /\ Housed(member', emptySince') /\ UNCHANGED disk
  <2>1. \A d \in Code : emptySince[d] # Absent => emptySince'[d] # Absent
    BY <1>2, NowIsDate DEF ExtendRoom, Extended, TypeOK, Countdown
  <2>2. \A m \in Present(member) : member[m].room \in Code
    BY PresentType
  <2> QED
    BY <1>2, <2>1, <2>2 DEF ExtendRoom, Housed, OneHolder
<1>3. ASSUME NEW m \in MemberId, Kick(m)
      PROVE  Distinct(member') /\ Housed(member', emptySince') /\ UNCHANGED disk
  <2> DEFINE cut   == Up \cap {member[m].socket}
             rest  == Without(member, {m})
             gone  == (UNION {Holder(s) : s \in cut}) \ {m}
             after == Offline(rest, gone)
  <2>1. rest \in Members /\ SubRoster(rest, member)
    BY WithoutType, WithoutSub DEF TypeOK
  <2>2. gone \in SUBSET Present(rest)
    <3>1. ASSUME NEW k \in gone
          PROVE  k \in Present(rest)
      <4>1. k \in Present(member) /\ k # m
        BY DEF Holder
      <4> QED
        BY <4>1 DEF Without
    <3> QED
      BY <3>1
  <2>3. SubRoster(after, member)
    BY <2>1, <2>2, OfflineSub, SubRosterTransitive
  <2> QED
    BY <1>3, <2>3, ShrinkHolds DEF Kick
<1> QED
  BY <1>1, <1>2, <1>3 DEF Admin

LEMMA ServerHolds ==
  ASSUME HolderInv, Sweep \/ Save \/ Shutdown \/ Crash \/ Start \/ Tick
  PROVE  /\ Distinct(member') /\ Housed(member', emptySince')
         /\ Distinct(disk.member)' /\ Housed(disk.member, disk.emptySince)'
<1> USE DEF HolderInv
<1>1. Distinct(NoMembers) /\ Housed(NoMembers, NoRooms)
  BY DEF NoMembers, Distinct, Housed
<1>2. CASE Sweep
  <2> DEFINE kept   == Without(member, Expired)
             since  == Recount(emptySince, kept, Open)
             closed == {c \in Open : since[c] # None /\ now - since[c] > EmptyTtl}
             rest   == Without(kept, UNION {In(kept, c) : c \in closed})
  <2>1. SubRoster(kept, member) /\ SubRoster(rest, member)
    BY WithoutSub, SubRosterTransitive
  <2>2. Distinct(rest) /\ Housed(kept, since)
    BY <2>1, ShrinkHolds
  <2>3. /\ member' = rest
        /\ emptySince' = [c \in Code |-> IF c \in closed THEN Absent ELSE since[c]]
        /\ UNCHANGED disk
    BY <1>2 DEF Sweep
  <2>4. ASSUME NEW m \in Present(rest)
        PROVE  emptySince'[rest[m].room] # Absent
    <3>1. m \in Present(kept) /\ rest[m] = kept[m] /\ m \notin UNION {In(kept, c) : c \in closed}
      BY DEF Without
    <3>2. kept[m].room \in Code
      BY <2>1, <3>1, PresentType DEF SubRoster
    <3>3. kept[m].room \notin closed
      BY <3>1
    <3> QED
      BY <2>2, <2>3, <3>1, <3>2, <3>3 DEF Housed
  <2> QED
    BY <2>2, <2>3, <2>4 DEF Housed
<1>3. CASE Save
  BY <1>3 DEF Save, Snapshot, OneHolder
<1>4. CASE Shutdown
  <2> DEFINE gone  == UNION {Holder(s) : s \in Up}
             after == Offline(member, gone)
  <2>1. SubRoster(after, member)
    <3>1. gone \in SUBSET Present(member)
      BY DEF Holder
    <3> QED
      BY <3>1, OfflineSub DEF TypeOK
  <2>2. Distinct(after) /\ Housed(after, Recount(emptySince, after, RoomsOf(gone)))
    BY <2>1, ShrinkHolds
  <2>3. /\ disk' = Snapshot(after, Recount(emptySince, after, RoomsOf(gone)))
        /\ member' = NoMembers /\ emptySince' = NoRooms
    BY <1>4 DEF Shutdown, Stop
  <2> QED
    BY <1>1, <2>2, <2>3 DEF Snapshot
<1>5. CASE Crash
  BY <1>1, <1>5 DEF Crash, Stop
<1>6. CASE Start
  <2> DEFINE back  == Restored(disk.member)
             rooms == {c \in Code : disk.emptySince[c] # Absent}
  <2>1. disk.member \in Members /\ SubRoster(back, disk.member)
    BY RestoredSub DEF TypeOK
  <2>2. Distinct(back)
    BY <2>1, SubRosterDistinct
  <2>3. ASSUME NEW m \in Present(back)
        PROVE  Recount(disk.emptySince, back, rooms)[back[m].room] # Absent
    <3>1. m \in Present(disk.member) /\ back[m].room = disk.member[m].room
      BY <2>1 DEF SubRoster
    <3>2. disk.emptySince[back[m].room] # Absent
      BY <3>1 DEF Housed
    <3>3. back[m].room \in Code
      BY <2>1, <3>1 DEF Members, Member
    <3> QED
      BY <3>2, <3>3, RecountOpen
  <2> QED
    BY <1>6, <2>2, <2>3 DEF Start, Housed
<1>7. CASE Tick
  BY <1>7 DEF Tick, OneHolder
<1> QED
  BY <1>2, <1>3, <1>4, <1>5, <1>6, <1>7

LEMMA HolderStep == HolderInv /\ [Next]_vars => HolderInv'
<1> SUFFICES ASSUME HolderInv, [Next]_vars
             PROVE  HolderInv'
  OBVIOUS
<1>1. TypeOK'
  BY RoomsTypeStep DEF HolderInv
<1>2. CASE Next
  <2>1. ASSUME NEW s \in Socket, Request(s)
        PROVE  HolderInv'
    BY <1>1, <2>1, RequestHolds DEF HolderInv, OneHolder
  <2>2. CASE Admin
    BY <1>1, <2>2, AdminHolds DEF HolderInv, OneHolder
  <2>3. CASE Sweep \/ Save \/ Shutdown \/ Crash \/ Start \/ Tick
    BY <1>1, <2>3, ServerHolds DEF HolderInv, OneHolder
  <2> QED
    BY <1>2, <2>1, <2>2, <2>3 DEF Next
<1>3. CASE UNCHANGED vars
  BY <1>1, <1>3 DEF vars, HolderInv, OneHolder, Distinct, Housed
<1> QED
  BY <1>2, <1>3

LEMMA HolderInvariant == Spec => []HolderInv
<1>1. Init => HolderInv
  <2> SUFFICES ASSUME Init
               PROVE  HolderInv
    OBVIOUS
  <2>1. TypeOK
    BY RoomsAssumption DEF Init, TypeOK, NoMembers, NoRooms, Members, Countdown, Time
  <2> QED
    BY <2>1 DEF Init, HolderInv, OneHolder, Distinct, Housed, NoMembers
<1> QED
  BY <1>1, HolderStep, PTL DEF Spec

(* Callsigns and posts are held once in each room, at any time and after   *)
(* any restart.                                                            *)
THEOREM HoldersDistinct == Spec => []OneHolder
<1>1. HolderInv => OneHolder
  BY DEF HolderInv
<1> QED
  BY <1>1, HolderInvariant, PTL

-----------------------------------------------------------------------------
(* The countdown.  A newcomer's record replaces nobody's because ids are   *)
(* given once (IdsIssued).                                                 *)

IdsIssued == Present(member) \cup Present(disk.member) \subseteq issued

CountdownInv == TypeOK /\ CountdownRuns /\ IdsIssued

\* Nothing about room d differs, as far as its countdown goes.
SameIn(mem, old, d) ==
  /\ In(mem, d) = In(old, d)
  /\ \A k \in In(old, d) : mem[k].connected = old[k].connected

LEMMA SameOccupied ==
  ASSUME NEW mem, NEW old, NEW d, SameIn(mem, old, d)
  PROVE  Occupied(mem, d) <=> Occupied(old, d)
BY DEF SameIn, Occupied

LEMMA RecountRuns ==
  ASSUME TypeOK, NEW since, NEW mem, NEW rooms, NEW c \in Code,
         c \in rooms \/ (since[c] = None <=> Occupied(mem, c))
  PROVE  Recount(since, mem, rooms)[c] = None <=> Occupied(mem, c)
<1>1. CASE c \in rooms
  BY <1>1, NowIsDate DEF Recount
<1>2. CASE c \notin rooms
  BY <1>2 DEF Recount
<1> QED
  BY <1>1, <1>2

LEMMA RecountAbsent ==
  ASSUME NEW since, NEW mem, NEW rooms, NEW c \in Code,
         since[c] = Absent, c \notin rooms
  PROVE  Recount(since, mem, rooms)[c] = Absent
BY DEF Recount

\* A step that touches the rooms of the members it removes or cuts, and
\* recounts those rooms.
LEMMA RecountedStep ==
  ASSUME CountdownInv, NEW ms \in SUBSET Present(member), NEW mem,
         \A k \in MemberId \ ms : mem[k] = member[k],
         \A k \in ms : mem[k] = Absent \/ mem[k].room = member[k].room,
         Housed(member, emptySince),
         member' = mem, emptySince' = Recount(emptySince, mem, RoomsOf(ms))
  PROVE  CountdownRuns'
<1> SUFFICES ASSUME NEW c \in Code, emptySince'[c] # Absent
             PROVE  emptySince'[c] = None <=> Occupied(mem, c)
  BY DEF CountdownRuns, Open
<1>1. CASE c \in RoomsOf(ms)
  BY <1>1, RecountRuns DEF CountdownInv
<1>2. CASE c \notin RoomsOf(ms)
  <2>1. \A k \in ms : member[k].room # c
    BY <1>2 DEF RoomsOf
  <2>2. SameIn(mem, member, c)
    BY <2>1 DEF SameIn
  <2>3. emptySince'[c] = emptySince[c]
    BY <1>2 DEF Recount
  <2>4. emptySince[c] = None <=> Occupied(member, c)
    BY <2>3 DEF CountdownInv, CountdownRuns, Open
  <2> QED
    BY <2>2, <2>3, <2>4, SameOccupied
<1> QED
  BY <1>1, <1>2

\* Entering room c as m, whether new or back.
LEMMA EnteredStep ==
  ASSUME CountdownInv, NEW c \in Code, NEW m \in MemberId,
         member'[m] # Absent, member'[m].room = c, member'[m].connected,
         m \in Present(member) => member[m].room = c,
         \A d \in Code \ {c} : \A k \in MemberId \ {m} :
           /\ k \in In(member', d) <=> k \in In(member, d)
           /\ k \in In(member, d) => member'[k] = member[k],
         emptySince'[c] = None,
         \A d \in Code \ {c} : emptySince'[d] = emptySince[d]
  PROVE  CountdownRuns'
<1> SUFFICES ASSUME NEW d \in Code, emptySince'[d] # Absent
             PROVE  emptySince'[d] = None <=> Occupied(member', d)
  BY DEF CountdownRuns, Open, Occupied
<1>1. CASE d = c
  BY <1>1 DEF Occupied
<1>2. CASE d # c
  <2>1. SameIn(member', member, d)
    BY <1>2 DEF SameIn
  <2> QED
    BY <1>2, <2>1, SameOccupied DEF CountdownInv, CountdownRuns, Open
<1> QED
  BY <1>1, <1>2

\* Changing a field that the countdown does not read.
LEMMA RetouchedStep ==
  ASSUME CountdownInv, \A d \in Code : SameIn(member', member, d), UNCHANGED emptySince
  PROVE  CountdownRuns'
BY SameOccupied DEF CountdownInv, CountdownRuns, Open, Occupied

LEMMA RequestCounts ==
  ASSUME CountdownInv, HolderInv, NEW s \in Socket, Request(s)
  PROVE  CountdownRuns' /\ IdsIssued'
<1> USE DEF CountdownInv
<1>0. member \in Members /\ emptySince \in Countdown
  BY DEF TypeOK
<1>1. ASSUME NEW c \in Code, NEW m \in MemberId, NEW x \in Callsign, NEW p \in Post,
             CreateRoom(s, c, m, x, p)
      PROVE  CountdownRuns' /\ IdsIssued'
  <2> DEFINE new == NewMember(c, x, p, s)
  <2>1. /\ member' = [member EXCEPT ![m] = new]
        /\ emptySince' = [emptySince EXCEPT ![c] = None]
        /\ issued' = issued \cup {m}
        /\ UNCHANGED disk
        /\ m \notin issued
    BY <1>1 DEF CreateRoom
  <2>2. new \in Member /\ new.room = c /\ new.connected
    BY NewMemberType DEF NewMember
  <2>3. member'[m] = new /\ \A k \in MemberId \ {m} : member'[k] = member[k]
    BY <1>0, <2>1 DEF Members
  <2>4. m \notin Present(member)
    BY <2>1 DEF IdsIssued
  <2>5. member'[m] # Absent
    BY <2>2, <2>3, AbsentAssumption
  <2>6. emptySince'[c] = None /\ \A d \in Code \ {c} : emptySince'[d] = emptySince[d]
    BY <1>0, <2>1 DEF Countdown
  <2>7. CountdownRuns'
    BY <2>2, <2>3, <2>4, <2>5, <2>6, EnteredStep
  <2>8. IdsIssued'
    BY <2>1, <2>3 DEF IdsIssued
  <2> QED
    BY <2>7, <2>8
<1>2. ASSUME NEW c \in Code, NEW m \in MemberId, NEW x \in Callsign, NEW p \in Post,
             NEW replace \in BOOLEAN, JoinRoom(s, c, m, x, p, replace)
      PROVE  CountdownRuns' /\ IdsIssued'
  <2> DEFINE ghosts == Rivals(c, x, p)
             rest   == Without(member, ghosts)
             new    == NewMember(c, x, p, s)
  <2>1. ghosts \subseteq In(member, c) /\ \A k \in ghosts : ~member[k].connected
    BY <1>2 DEF JoinRoom, Rivals
  <2>2. m \notin issued /\ m \notin Present(member) /\ UNCHANGED disk
    BY <1>2 DEF JoinRoom, IdsIssued
  <2>3. CASE Full(rest, c)
    <3>1. member' = rest /\ UNCHANGED <<emptySince, issued>>
      BY <1>2, <2>3 DEF JoinRoom
    <3>2. \A d \in Code : Occupied(rest, d) <=> Occupied(member, d)
      BY <2>1 DEF Occupied, Without
    <3>3. CountdownRuns'
      BY <3>1, <3>2 DEF CountdownRuns, Open, Occupied
    <3>4. IdsIssued'
      BY <2>2, <3>1 DEF IdsIssued, Without
    <3> QED
      BY <3>3, <3>4
  <2>4. CASE ~Full(rest, c)
    <3>1. /\ member' = [rest EXCEPT ![m] = new]
          /\ emptySince' = [emptySince EXCEPT ![c] = None]
          /\ issued' = issued \cup {m}
      BY <1>2, <2>4 DEF JoinRoom
    <3>2. new \in Member /\ new.room = c /\ new.connected
      BY NewMemberType DEF NewMember
    <3>3. member'[m] = new /\ \A k \in MemberId \ {m} : member'[k] = rest[k]
      BY <3>1 DEF Without
    <3>4. member'[m] # Absent
      BY <3>2, <3>3, AbsentAssumption
    <3>5. emptySince'[c] = None /\ \A d \in Code \ {c} : emptySince'[d] = emptySince[d]
      BY <1>0, <3>1 DEF Countdown
    <3>6. \A d \in Code \ {c} : \A k \in MemberId \ {m} :
            /\ k \in In(member', d) <=> k \in In(member, d)
            /\ k \in In(member, d) => member'[k] = member[k]
      BY <2>1, <3>3 DEF Without
    <3>7. CountdownRuns'
      BY <2>2, <3>2, <3>3, <3>4, <3>5, <3>6, EnteredStep
    <3>8. IdsIssued'
      BY <2>2, <3>1, <3>3 DEF IdsIssued, Without
    <3> QED
      BY <3>7, <3>8
  <2> QED
    BY <2>3, <2>4
<1>3. ASSUME NEW m \in MemberId, Rejoin(s, m)
      PROVE  CountdownRuns' /\ IdsIssued'
  <2> DEFINE back == [member[m] EXCEPT !.connected = TRUE, !.socket = s, !.lastSeen = now]
  <2>1. m \in Present(member) /\ member[m] \in Member /\ member[m].room \in Code
    BY <1>3, PresentType DEF Rejoin
  <2>2. /\ member'[m] = back
        /\ \A k \in MemberId \ {m} : member'[k] = member[k]
        /\ emptySince' = [emptySince EXCEPT ![member[m].room] = None]
        /\ UNCHANGED <<disk, issued>>
    BY <1>0, <1>3 DEF Rejoin, Members
  <2>3. back \in Member /\ back.room = member[m].room /\ back.connected
    BY <2>1 DEF Member, TypeOK
  <2>4. member'[m] # Absent
    BY <2>2, <2>3, AbsentAssumption
  <2>5. /\ emptySince'[member[m].room] = None
        /\ \A d \in Code \ {member[m].room} : emptySince'[d] = emptySince[d]
    BY <1>0, <2>1, <2>2 DEF Countdown
  <2>6. \A d \in Code \ {member[m].room} : \A k \in MemberId \ {m} :
          /\ k \in In(member', d) <=> k \in In(member, d)
          /\ k \in In(member, d) => member'[k] = member[k]
    BY <2>2
  <2>7. member'[m].room = member[m].room /\ member'[m].connected
    BY <2>2, <2>3
  <2> HIDE DEF back, In
  <2>8. CountdownRuns'
    BY <2>1, <2>4, <2>5, <2>6, <2>7, EnteredStep
  <2>9. IdsIssued'
    BY <2>1, <2>2 DEF IdsIssued
  <2> QED
    BY <2>8, <2>9
<1>4. CASE PositionUpdate(s)
  <2>1. PICK m \in Holder(s) : member' = [member EXCEPT ![m].lastSeen = now]
    BY <1>4 DEF PositionUpdate
  <2>2. m \in Present(member) /\ member[m] \in Member
    BY PresentType DEF Holder
  <2>2a. /\ member'[m] = [member[m] EXCEPT !.lastSeen = now]
         /\ \A k \in MemberId \ {m} : member'[k] = member[k]
    BY <1>0, <2>1, <2>2 DEF Members
  <2>2b. /\ member'[m] \in Member
         /\ member'[m].room = member[m].room /\ member'[m].connected = member[m].connected
    BY <2>2, <2>2a DEF Member, TypeOK
  <2>3. /\ Present(member') = Present(member)
        /\ \A k \in Present(member) : /\ member'[k].room = member[k].room
                                      /\ member'[k].connected = member[k].connected
    BY <2>2, <2>2a, <2>2b, AbsentAssumption
  <2>4. \A d \in Code : SameIn(member', member, d)
    BY <2>3 DEF SameIn
  <2> QED
    BY <1>4, <2>3, <2>4, RetouchedStep DEF PositionUpdate, IdsIssued
<1>5. ASSUME NEW p \in Post, UpdateSymbol(s, p)
      PROVE  CountdownRuns' /\ IdsIssued'
  <2>1. PICK m \in Holder(s) : member' = [member EXCEPT ![m].post = p]
    BY <1>5 DEF UpdateSymbol
  <2>2. m \in Present(member) /\ member[m] \in Member
    BY PresentType DEF Holder
  <2>2a. /\ member'[m] = [member[m] EXCEPT !.post = p]
         /\ \A k \in MemberId \ {m} : member'[k] = member[k]
    BY <1>0, <2>1, <2>2 DEF Members
  <2>2b. /\ member'[m] \in Member
         /\ member'[m].room = member[m].room /\ member'[m].connected = member[m].connected
    BY <2>2, <2>2a DEF Member, TypeOK
  <2>3. /\ Present(member') = Present(member)
        /\ \A k \in Present(member) : /\ member'[k].room = member[k].room
                                      /\ member'[k].connected = member[k].connected
    BY <2>2, <2>2a, <2>2b, AbsentAssumption
  <2>4. \A d \in Code : SameIn(member', member, d)
    BY <2>3 DEF SameIn
  <2> QED
    BY <1>5, <2>3, <2>4, RetouchedStep DEF UpdateSymbol, IdsIssued
<1>6. CASE LeaveRoom(s)
  <2>1. PICK m \in Holder(s) :
          /\ member' = Without(member, {m})
          /\ emptySince' = Recount(emptySince, Without(member, {m}), {member[m].room})
    BY <1>6 DEF LeaveRoom
  <2>2. {m} \in SUBSET Present(member) /\ RoomsOf({m}) = {member[m].room}
    BY DEF Holder, RoomsOf
  <2>3. /\ \A k \in MemberId \ {m} : Without(member, {m})[k] = member[k]
        /\ \A k \in {m} : Without(member, {m})[k] = Absent
    BY <2>2 DEF Without
  <2>4. CountdownRuns'
    BY <2>1, <2>2, <2>3, RecountedStep DEF HolderInv
  <2>5. IdsIssued'
    BY <1>6, <2>1 DEF LeaveRoom, IdsIssued, Without
  <2> QED
    BY <2>4, <2>5
<1>7. CASE Disconnect(s)
  <2> DEFINE after == Offline(member, Holder(s))
  <2>1. Holder(s) \in SUBSET Present(member)
    BY DEF Holder
  <2>2. SubRoster(after, member)
    BY <1>0, <2>1, OfflineSub
  <2>3. /\ \A k \in MemberId \ Holder(s) : after[k] = member[k]
        /\ \A k \in Holder(s) : after[k] = Absent \/ after[k].room = member[k].room
    BY <2>1, <2>2 DEF Offline, SubRoster
  <2>4. CountdownRuns'
    BY <1>7, <2>1, <2>3, RecountedStep DEF Disconnect, HolderInv
  <2>5. IdsIssued'
    BY <1>7, <2>2 DEF Disconnect, IdsIssued, SubRoster
  <2> QED
    BY <2>4, <2>5
<1> QED
  BY <1>1, <1>2, <1>3, <1>4, <1>5, <1>6, <1>7 DEF Request

LEMMA AdminCounts ==
  ASSUME CountdownInv, HolderInv, Admin
  PROVE  CountdownRuns' /\ IdsIssued'
<1> USE DEF CountdownInv
<1>0. member \in Members /\ emptySince \in Countdown
  BY DEF TypeOK
<1>1. ASSUME NEW c \in Code, CloseRoom(c)
      PROVE  CountdownRuns' /\ IdsIssued'
  <2>1. /\ member' = Without(member, In(member, c))
        /\ emptySince'[c] = Absent
        /\ \A d \in Code \ {c} : emptySince'[d] = emptySince[d]
        /\ UNCHANGED <<issued, disk>>
    BY <1>0, <1>1 DEF CloseRoom, Countdown
  <2>2. \A d \in Code \ {c} : SameIn(member', member, d)
    BY <2>1 DEF SameIn, Without
  <2>3. ASSUME NEW d \in Code, emptySince'[d] # Absent
        PROVE  emptySince'[d] = None <=> Occupied(member', d)
    <3>1. d # c /\ emptySince'[d] = emptySince[d]
      BY <2>1, <2>3
    <3>2. Occupied(member', d) <=> Occupied(member, d)
      BY <2>2, <3>1, SameOccupied
    <3> QED
      BY <2>3, <3>1, <3>2 DEF CountdownRuns, Open
  <2>4. CountdownRuns'
    BY <2>3 DEF CountdownRuns, Open, Occupied
  <2>5. IdsIssued'
    BY <2>1 DEF IdsIssued, Without
  <2> QED
    BY <2>4, <2>5
<1>2. ASSUME NEW c \in Code, ExtendRoom(c)
      PROVE  CountdownRuns' /\ IdsIssued'
  <2>1. /\ UNCHANGED <<member, issued, disk>>
        /\ emptySince'[c] = IF Occupied(member, c) THEN None ELSE now
        /\ \A d \in Code \ {c} : emptySince'[d] = emptySince[d]
    BY <1>0, <1>2 DEF ExtendRoom, Extended, Countdown
  <2>2. CountdownRuns'
    BY <2>1, NowIsDate DEF CountdownRuns, Open, Occupied
  <2> QED
    BY <2>1, <2>2 DEF IdsIssued
<1>3. ASSUME NEW m \in MemberId, Kick(m)
      PROVE  CountdownRuns' /\ IdsIssued'
  <2> DEFINE cut   == Up \cap {member[m].socket}
             rest  == Without(member, {m})
             gone  == (UNION {Holder(s) : s \in cut}) \ {m}
             after == Offline(rest, gone)
             ms    == {m} \cup gone
  <2>1. /\ m \in Present(member)
        /\ member' = after
        /\ emptySince' = Recount(emptySince, after, RoomsOf(ms))
        /\ UNCHANGED <<issued, disk>>
    BY <1>3 DEF Kick
  <2>2. ms \in SUBSET Present(member)
    <3>1. ASSUME NEW k \in ms
          PROVE  k \in Present(member)
      BY <2>1 DEF Holder
    <3> QED
      BY <3>1
  <2>3. \A k \in gone : rest[k] = member[k]
    BY <2>2 DEF Without
  <2>4. rest \in Members /\ gone \in SUBSET Present(rest)
    BY <1>0, <2>2, <2>3, WithoutType
  <2>5. SubRoster(after, member)
    BY <2>4, WithoutSub, OfflineSub, SubRosterTransitive
  <2>6. \A k \in MemberId \ ms : after[k] = member[k]
    BY DEF Offline, Without
  <2>7. \A k \in ms : after[k] = Absent \/ after[k].room = member[k].room
    BY <2>2, <2>5 DEF SubRoster
  <2> HIDE DEF after, ms
  <2>8. CountdownRuns'
    BY <2>1, <2>2, <2>6, <2>7, RecountedStep DEF HolderInv
  <2>9. IdsIssued'
    BY <2>1, <2>5 DEF IdsIssued, SubRoster
  <2> QED
    BY <2>8, <2>9
<1> QED
  BY <1>1, <1>2, <1>3 DEF Admin

LEMMA ServerCounts ==
  ASSUME CountdownInv, HolderInv, Sweep \/ Save \/ Shutdown \/ Crash \/ Start \/ Tick
  PROVE  CountdownRuns' /\ IdsIssued'
<1> USE DEF CountdownInv
<1>0. member \in Members /\ disk.member \in Members
  BY DEF TypeOK
<1>1. CASE Sweep
  <2> DEFINE kept   == Without(member, Expired)
             since  == Recount(emptySince, kept, Open)
             closed == {c \in Open : since[c] # None /\ now - since[c] > EmptyTtl}
  <2>1. /\ member' = Without(kept, UNION {In(kept, c) : c \in closed})
        /\ emptySince' = [c \in Code |-> IF c \in closed THEN Absent ELSE since[c]]
        /\ UNCHANGED <<issued, disk>>
    BY <1>1 DEF Sweep
  <2>2. ASSUME NEW c \in Code, emptySince'[c] # Absent
        PROVE  emptySince'[c] = None <=> Occupied(member', c)
    <3>1. c \notin closed /\ emptySince'[c] = since[c]
      BY <2>1, <2>2
    <3>2. c \in Open
      BY <2>2, <3>1 DEF Recount, Open
    <3>3. since[c] = None <=> Occupied(kept, c)
      BY <3>2, RecountRuns
    <3>4. \A k \in In(kept, c) : k \notin UNION {In(kept, d) : d \in closed}
      BY <3>1
    <3>5. SameIn(member', kept, c)
      BY <2>1, <3>4 DEF SameIn, Without
    <3> QED
      BY <3>1, <3>3, <3>5, SameOccupied
  <2>3. CountdownRuns'
    BY <2>2 DEF CountdownRuns, Open, Occupied
  <2>4. IdsIssued'
    BY <2>1 DEF IdsIssued, Without
  <2> QED
    BY <2>3, <2>4
<1>2. CASE Save
  BY <1>2 DEF Save, Snapshot, CountdownRuns, Open, Occupied, IdsIssued
<1>3. CASE Shutdown
  <2> DEFINE gone  == UNION {Holder(s) : s \in Up}
             after == Offline(member, gone)
  <2>1. gone \in SUBSET Present(member)
    BY DEF Holder
  <2>2. SubRoster(after, member)
    BY <1>0, <2>1, OfflineSub
  <2>3. /\ member' = NoMembers /\ emptySince' = NoRooms /\ disk'.member = after
        /\ UNCHANGED issued
    BY <1>3 DEF Shutdown, Stop, Snapshot
  <2> QED
    BY <2>2, <2>3 DEF CountdownRuns, Open, NoRooms, NoMembers, IdsIssued, SubRoster
<1>4. CASE Crash
  BY <1>4 DEF Crash, Stop, CountdownRuns, Open, NoRooms, NoMembers, IdsIssued
<1>5. CASE Start
  <2> DEFINE back  == Restored(disk.member)
             rooms == {c \in Code : disk.emptySince[c] # Absent}
  <2>1. /\ member' = back
        /\ emptySince' = Recount(disk.emptySince, back, rooms)
        /\ UNCHANGED <<issued, disk>>
    BY <1>5 DEF Start
  <2>2. ASSUME NEW c \in Code, emptySince'[c] # Absent
        PROVE  emptySince'[c] = None <=> Occupied(back, c)
    <3>1. c \in rooms
      BY <2>1, <2>2, RecountAbsent
    <3> QED
      BY <2>1, <3>1, RecountRuns
  <2>3. CountdownRuns'
    BY <2>1, <2>2 DEF CountdownRuns, Open, Occupied
  <2>4. IdsIssued'
    BY <1>0, <2>1, RestoredSub DEF IdsIssued, SubRoster
  <2> QED
    BY <2>3, <2>4
<1>6. CASE Tick
  BY <1>6 DEF Tick, CountdownRuns, Open, Occupied, IdsIssued
<1> QED
  BY <1>1, <1>2, <1>3, <1>4, <1>5, <1>6

LEMMA CountdownStep == CountdownInv /\ HolderInv /\ [Next]_vars => CountdownInv'
<1> SUFFICES ASSUME CountdownInv, HolderInv, [Next]_vars
             PROVE  CountdownInv'
  OBVIOUS
<1>1. TypeOK'
  BY RoomsTypeStep DEF CountdownInv
<1>2. CASE Next
  <2>1. CountdownRuns' /\ IdsIssued'
    BY <1>2, RequestCounts, AdminCounts, ServerCounts DEF Next
  <2> QED
    BY <1>1, <2>1 DEF CountdownInv
<1>3. CASE UNCHANGED vars
  BY <1>1, <1>3 DEF vars, CountdownInv, CountdownRuns, Open, Occupied, IdsIssued
<1> QED
  BY <1>2, <1>3

LEMMA CountdownInvariant == Spec => []CountdownInv
<1>1. Init => CountdownInv
  <2> SUFFICES ASSUME Init
               PROVE  CountdownInv
    OBVIOUS
  <2>1. TypeOK
    BY RoomsAssumption DEF Init, TypeOK, NoMembers, NoRooms, Members, Countdown, Time
  <2> QED
    BY <2>1 DEF Init, CountdownInv, CountdownRuns, Open, IdsIssued, NoMembers, NoRooms
<1> QED
  BY <1>1, HolderInvariant, CountdownStep, PTL DEF Spec

(* A room counts down exactly while nobody is connected in it, whatever    *)
(* joins, leaves, ends of connections, kicks, sweeps and restarts happen.  *)
THEOREM CountdownCorrect == Spec => []CountdownRuns
<1>1. CountdownInv => CountdownRuns
  BY DEF CountdownInv
<1> QED
  BY <1>1, CountdownInvariant, PTL

-----------------------------------------------------------------------------
(* The sliding TTL of a server that only ever stops by a shutdown.  A      *)
(* countdown never starts before the last moment someone was connected,    *)
(* in memory or, while the server is down, in the snapshot it left.        *)

StartsAfterBusy(since) == \A c \in Code : since[c] \in Nat => busyAt[c] <= since[c]

TtlInv ==
  /\ CountdownInv
  /\ \A c \in Code : busyAt[c] <= now
  /\ IF running
     THEN StartsAfterBusy(emptySince)
     ELSE /\ StartsAfterBusy(disk.emptySince)
          /\ member = NoMembers /\ emptySince = NoRooms /\ Up = {}

LEMMA DateFacts ==
  ASSUME TypeOK
  PROVE  /\ now \in Nat
         /\ \A c \in Code : busyAt[c] \in Nat
         /\ \A c \in Code : emptySince[c] \in Nat \cup {None, Absent}
         /\ \A c \in Code : disk.emptySince[c] \in Nat \cup {None, Absent}
         /\ None \notin Nat /\ Absent \notin Nat
BY RoomsAssumption DEF TypeOK, Time, Countdown

LEMMA RequestFrame ==
  ASSUME NEW s \in Socket, Request(s)
  PROVE  UNCHANGED <<now, running, disk>> /\ (running \/ s \in Up)
<1>1. ASSUME NEW c \in Code, NEW m \in MemberId, NEW x \in Callsign, NEW p \in Post,
             \/ CreateRoom(s, c, m, x, p)
             \/ \E replace \in BOOLEAN : JoinRoom(s, c, m, x, p, replace)
      PROVE  UNCHANGED <<now, running, disk>> /\ running
  BY <1>1 DEF CreateRoom, JoinRoom
<1>2. ASSUME NEW m \in MemberId, Rejoin(s, m)
      PROVE  UNCHANGED <<now, running, disk>> /\ running
  BY <1>2 DEF Rejoin
<1>3. ASSUME NEW p \in Post, UpdateSymbol(s, p)
      PROVE  UNCHANGED <<now, running, disk>> /\ s \in Up
  BY <1>3 DEF UpdateSymbol
<1>4. CASE PositionUpdate(s) \/ LeaveRoom(s) \/ Disconnect(s)
  BY <1>4 DEF PositionUpdate, LeaveRoom, Disconnect
<1> QED
  BY <1>1, <1>2, <1>3, <1>4 DEF Request

LEMMA AdminFrame ==
  ASSUME Admin
  PROVE  UNCHANGED <<now, running, disk>> /\ running
BY DEF Admin, CloseRoom, ExtendRoom, Kick

LEMMA ServerFrame ==
  /\ Sweep \/ Save => running /\ UNCHANGED <<now, running>>
  /\ Shutdown \/ Crash => running /\ running' = FALSE /\ UNCHANGED now
  /\ Start => ~running /\ running' = TRUE /\ UNCHANGED <<now, disk>>
  /\ Tick => now' = now + 1 /\ UNCHANGED <<running, member, emptySince, link, disk>>
BY DEF Sweep, Save, Shutdown, Crash, Stop, Start, Tick

\* While the server runs, a countdown is left, stopped, or started now.
LEMMA CountdownMoves ==
  ASSUME TtlInv, running, running', Next, NEW c \in Code
  PROVE  emptySince'[c] \in {emptySince[c], None, Absent, now}
<1> USE DEF TtlInv, CountdownInv
<1>0. emptySince \in Countdown
  BY DEF TypeOK
<1>1. ASSUME NEW s \in Socket, Request(s)
      PROVE  emptySince'[c] \in {emptySince[c], None, Absent, now}
  <2>1. ASSUME NEW d \in Code, NEW m \in MemberId, NEW x \in Callsign, NEW p \in Post,
               \/ CreateRoom(s, d, m, x, p)
               \/ \E replace \in BOOLEAN : JoinRoom(s, d, m, x, p, replace)
        PROVE  emptySince'[c] \in {emptySince[c], None, Absent, now}
    <3>1. emptySince' = emptySince \/ emptySince' = [emptySince EXCEPT ![d] = None]
      BY <2>1 DEF CreateRoom, JoinRoom
    <3> QED
      BY <1>0, <3>1 DEF Countdown
  <2>2. ASSUME NEW m \in MemberId, Rejoin(s, m)
        PROVE  emptySince'[c] \in {emptySince[c], None, Absent, now}
    <3>1. emptySince' = [emptySince EXCEPT ![member[m].room] = None]
      BY <2>2 DEF Rejoin
    <3> QED
      BY <1>0, <3>1 DEF Countdown
  <2>3. ASSUME NEW p \in Post, UpdateSymbol(s, p)
        PROVE  emptySince'[c] \in {emptySince[c], None, Absent, now}
    BY <2>3 DEF UpdateSymbol
  <2>4. CASE PositionUpdate(s)
    BY <2>4 DEF PositionUpdate
  <2>5. CASE LeaveRoom(s) \/ Disconnect(s)
    <3>1. \E mem, rooms : emptySince' = Recount(emptySince, mem, rooms)
      BY <2>5 DEF LeaveRoom, Disconnect
    <3> QED
      BY <3>1 DEF Recount
  <2> QED
    BY <1>1, <2>1, <2>2, <2>3, <2>4, <2>5 DEF Request
<1>2. CASE Admin
  <2>1. ASSUME NEW m \in MemberId, Kick(m)
        PROVE  emptySince'[c] \in {emptySince[c], None, Absent, now}
    <3>1. \E mem, rooms : emptySince' = Recount(emptySince, mem, rooms)
      BY <2>1 DEF Kick
    <3> QED
      BY <3>1 DEF Recount
  <2>2. ASSUME NEW d \in Code, CloseRoom(d) \/ ExtendRoom(d)
        PROVE  emptySince'[c] \in {emptySince[c], None, Absent, now}
    BY <1>0, <2>2 DEF CloseRoom, ExtendRoom, Extended, Countdown
  <2> QED
    BY <1>2, <2>1, <2>2 DEF Admin
<1>3. CASE Sweep
  BY <1>3 DEF Sweep, Recount
<1>4. CASE Save \/ Tick
  BY <1>4 DEF Save, Tick
<1>5. ~(Shutdown \/ Crash \/ Start)
  BY DEF Shutdown, Crash, Stop, Start
<1> QED
  BY <1>1, <1>2, <1>3, <1>4, <1>5 DEF Next

LEMMA TtlStep ==
  ASSUME "crash" \notin Restarts
  PROVE  TtlInv /\ HolderInv /\ [Next]_vars => TtlInv'
<1> SUFFICES ASSUME TtlInv, HolderInv, [Next]_vars
             PROVE  TtlInv'
  OBVIOUS
<1>1. CountdownInv /\ CountdownInv' /\ TypeOK /\ TypeOK'
  BY CountdownStep DEF TtlInv, CountdownInv
<1>2. CASE Next
  <2>1. now' \in {now, now + 1}
    BY <1>2, RequestFrame, AdminFrame, ServerFrame DEF Next
  <2>2. \A c \in Code : busyAt'[c] = IF Occupied(member', c) THEN now' ELSE busyAt[c]
    BY <1>2 DEF Next, Observe
  <2>3. \A c \in Code : busyAt'[c] <= now'
    BY <1>1, <2>1, <2>2, DateFacts DEF TtlInv
  <2>4. CASE running /\ running'
    <3>1. ASSUME NEW c \in Code, emptySince'[c] \in Nat
          PROVE  busyAt'[c] <= emptySince'[c]
      <4>1. c \in Open' /\ emptySince'[c] # None
        BY <1>1, <3>1, DateFacts DEF Open
      <4>2. ~Occupied(member', c)
        BY <1>1, <4>1 DEF CountdownInv, CountdownRuns, Open, Occupied
      <4>3. busyAt'[c] = busyAt[c]
        BY <2>2, <4>2
      <4>4. emptySince'[c] = emptySince[c] \/ emptySince'[c] = now
        BY <1>1, <1>2, <2>4, <3>1, CountdownMoves, DateFacts
      <4> QED
        BY <2>4, <3>1, <4>3, <4>4 DEF TtlInv, StartsAfterBusy
    <3> QED
      BY <1>1, <2>3, <2>4, <3>1 DEF TtlInv, StartsAfterBusy
  <2>5. CASE running /\ ~running'
    <3>1. Shutdown
      BY <1>2, <2>5, RequestFrame, AdminFrame, ServerFrame DEF Next, Crash
    <3>2. /\ member' = NoMembers /\ emptySince' = NoRooms
          /\ Down(Up)
          /\ \E mem, rooms : disk'.emptySince = Recount(emptySince, mem, rooms)
      BY <3>1 DEF Shutdown, Stop, Snapshot
    <3>3. Up' = {}
      BY <3>2 DEF Down
    <3>4. \A c \in Code : busyAt'[c] = busyAt[c]
      BY <2>2, <3>2 DEF Occupied, NoMembers
    <3>5. ASSUME NEW c \in Code, disk'.emptySince[c] \in Nat
          PROVE  busyAt'[c] <= disk'.emptySince[c]
      <4>1. disk'.emptySince[c] = emptySince[c] \/ disk'.emptySince[c] = now
        BY <1>1, <3>2, <3>5, DateFacts DEF Recount
      <4> QED
        BY <2>5, <3>4, <3>5, <4>1 DEF TtlInv, StartsAfterBusy
    <3> QED
      BY <1>1, <2>3, <2>5, <3>2, <3>3, <3>5 DEF TtlInv, StartsAfterBusy
  <2>6. CASE ~running
    <3>1. Start \/ Tick
      BY <1>2, <2>6, RequestFrame, AdminFrame, ServerFrame DEF TtlInv, Next
    <3>2. CASE Start
      <4>1. /\ running' = TRUE
            /\ \E mem, rooms : emptySince' = Recount(disk.emptySince, mem, rooms)
        BY <3>2 DEF Start
      <4>2. ASSUME NEW c \in Code, emptySince'[c] \in Nat
            PROVE  busyAt'[c] <= emptySince'[c]
        <5>1. c \in Open' /\ emptySince'[c] # None
          BY <1>1, <4>2, DateFacts DEF Open
        <5>2. ~Occupied(member', c)
          BY <1>1, <5>1 DEF CountdownInv, CountdownRuns, Open, Occupied
        <5>3. emptySince'[c] = disk.emptySince[c] \/ emptySince'[c] = now
          BY <1>1, <4>1, <4>2, DateFacts DEF Recount
        <5> QED
          BY <2>2, <2>6, <4>2, <5>2, <5>3 DEF TtlInv, StartsAfterBusy
      <4> QED
        BY <1>1, <2>3, <4>1, <4>2 DEF TtlInv, StartsAfterBusy
    <3>3. CASE Tick
      <4>1. UNCHANGED <<running, member, emptySince, link, disk>>
        BY <3>3 DEF Tick
      <4>2. \A c \in Code : busyAt'[c] = busyAt[c]
        BY <2>2, <2>6, <4>1 DEF TtlInv, Occupied, NoMembers
      <4> QED
        BY <1>1, <2>3, <2>6, <4>1, <4>2 DEF TtlInv, StartsAfterBusy
    <3> QED
      BY <3>1, <3>2, <3>3
  <2>7. running \in BOOLEAN /\ running' \in BOOLEAN
    BY <1>1 DEF TypeOK
  <2> QED
    BY <2>4, <2>5, <2>6, <2>7
<1>3. CASE UNCHANGED vars
  BY <1>1, <1>3 DEF vars, TtlInv, StartsAfterBusy, CountdownInv
<1> QED
  BY <1>2, <1>3

LEMMA SweepKeepsRooms ==
  ASSUME TtlInv, Sweep, NEW c \in Open, emptySince'[c] = Absent
  PROVE  now - busyAt[c] > EmptyTtl
<1> DEFINE since == Recount(emptySince, Without(member, Expired), Open)
<1>1. TypeOK /\ c \in Code /\ emptySince[c] # Absent /\ running
  BY DEF TtlInv, CountdownInv, Open, Sweep
<1>2. since[c] # Absent
  BY <1>1, RecountOpen
<1>3. since[c] # None /\ now - since[c] > EmptyTtl
  BY <1>1, <1>2 DEF Sweep
<1>4. since[c] \in Nat /\ (since[c] = emptySince[c] \/ since[c] = now)
  BY <1>1, <1>2, <1>3, DateFacts DEF Recount
<1>5. busyAt[c] <= since[c]
  BY <1>1, <1>4 DEF TtlInv, StartsAfterBusy
<1> QED
  BY <1>1, <1>3, <1>4, <1>5, DateFacts, RoomsAssumption

LEMMA TtlInit == Init => TtlInv
<1> SUFFICES ASSUME Init
             PROVE  TtlInv
  OBVIOUS
<1>1. TypeOK
  BY RoomsAssumption DEF Init, TypeOK, NoMembers, NoRooms, Members, Countdown, Time
<1>2. CountdownInv
  BY <1>1 DEF Init, CountdownInv, CountdownRuns, Open, IdsIssued, NoMembers, NoRooms
<1>3. StartsAfterBusy(emptySince)
  BY RoomsAssumption DEF Init, StartsAfterBusy, NoRooms
<1> QED
  BY <1>2, <1>3 DEF Init, TtlInv

(* A room is never swept before EmptyTtl has gone by since someone was     *)
(* last connected in it, shutdowns and restarts included.                  *)
THEOREM TtlRespected ==
  ASSUME "crash" \notin Restarts
  PROVE  Spec => RoomKeptForTtl
<1>1. Init => TtlInv
  BY TtlInit
<1>2. TtlInv /\ HolderInv /\ [Next]_vars => TtlInv'
  BY TtlStep
<1>3. TtlInv /\ [Next]_vars =>
        [Sweep => \A c \in Open : emptySince'[c] = Absent => now - busyAt[c] > EmptyTtl]_vars
  BY SweepKeepsRooms
<1> QED
  BY <1>1, <1>2, <1>3, HolderInvariant, PTL DEF Spec, RoomKeptForTtl

-----------------------------------------------------------------------------
(* The limits.  The sets are finite because they never grow by more than   *)
(* one; that the snapshot keeps within them is part of the invariant.      *)

OpenIn(since) == {c \in Code : since[c] # Absent}

Bounded(mem, since) ==
  /\ \A c \in Code : IsFiniteSet(In(mem, c)) /\ Cardinality(In(mem, c)) <= MaxMembers
  /\ IsFiniteSet(OpenIn(since)) /\ Cardinality(OpenIn(since)) <= MaxRooms

LimitInv ==
  /\ HolderInv
  /\ Bounded(member, emptySince)
  /\ Bounded(disk.member, disk.emptySince)

\* The members of mem are members of old, in the same rooms.
Stays(mem, old) == \A m \in Present(mem) : m \in Present(old) /\ mem[m].room = old[m].room

LEMMA SubRosterStays ==
  ASSUME NEW mem, NEW old, SubRoster(mem, old)
  PROVE  Stays(mem, old)
BY DEF SubRoster, Stays

LEMMA SmallerSet ==
  ASSUME NEW S, NEW T, IsFiniteSet(T), S \subseteq T, NEW k \in Nat, Cardinality(T) <= k
  PROVE  IsFiniteSet(S) /\ Cardinality(S) <= k
<1>1. IsFiniteSet(S) /\ Cardinality(S) <= Cardinality(T)
  BY FS_Subset
<1>2. Cardinality(S) \in Nat /\ Cardinality(T) \in Nat
  BY <1>1, FS_CardinalityType
<1> QED
  BY <1>1, <1>2

LEMMA OneMore ==
  ASSUME NEW S, NEW T, IsFiniteSet(T), NEW x, S \subseteq T \cup {x},
         NEW k \in Nat, Cardinality(T) < k
  PROVE  IsFiniteSet(S) /\ Cardinality(S) <= k
<1>1. Cardinality(T) \in Nat
  BY FS_CardinalityType
<1>2. IsFiniteSet(T \cup {x})
  BY FS_AddElement
<1>3. Cardinality(T \cup {x}) = Cardinality(T) \/ Cardinality(T \cup {x}) = Cardinality(T) + 1
  BY FS_AddElement
<1>4. Cardinality(T \cup {x}) <= k
  BY <1>1, <1>3
<1> QED
  BY <1>2, <1>4, SmallerSet

LEMMA StaysBounded ==
  ASSUME NEW old, NEW oldSince, Bounded(old, oldSince),
         NEW mem, NEW since, Stays(mem, old), OpenIn(since) \subseteq OpenIn(oldSince)
  PROVE  Bounded(mem, since)
<1>1. ASSUME NEW c \in Code
      PROVE  IsFiniteSet(In(mem, c)) /\ Cardinality(In(mem, c)) <= MaxMembers
  <2>1. In(mem, c) \subseteq In(old, c)
    BY DEF Stays
  <2>2. IsFiniteSet(In(old, c)) /\ Cardinality(In(old, c)) <= MaxMembers /\ MaxMembers \in Nat
    BY RoomsAssumption DEF Bounded
  <2> HIDE DEF In
  <2> QED
    BY <2>1, <2>2, SmallerSet
<1>2. IsFiniteSet(OpenIn(since)) /\ Cardinality(OpenIn(since)) <= MaxRooms
  <2>1. IsFiniteSet(OpenIn(oldSince)) /\ Cardinality(OpenIn(oldSince)) <= MaxRooms /\ MaxRooms \in Nat
    BY RoomsAssumption DEF Bounded
  <2> QED
    BY <2>1, SmallerSet
<1> QED
  BY <1>1, <1>2 DEF Bounded

\* A recount opens no room, for members are in open ones.
LEMMA RecountOpensNone ==
  ASSUME TypeOK, NEW since, NEW mem, Housed(mem, since), NEW rooms
  PROVE  OpenIn(Recount(since, mem, rooms)) \subseteq OpenIn(since)
<1> SUFFICES ASSUME NEW c \in Code, since[c] = Absent
             PROVE  Recount(since, mem, rooms)[c] = Absent
  BY DEF OpenIn
<1>1. ~Occupied(mem, c)
  BY DEF Occupied, Housed
<1>2. since[c] # None
  BY NowIsDate
<1> QED
  BY <1>1, <1>2 DEF Recount

LEMMA RecountedBounded ==
  ASSUME LimitInv, NEW mem, SubRoster(mem, member), NEW rooms
  PROVE  Bounded(mem, Recount(emptySince, mem, rooms))
<1>1. TypeOK /\ HolderInv /\ Bounded(member, emptySince)
  BY DEF LimitInv, HolderInv
<1>2. Housed(mem, emptySince)
  BY <1>1, ShrinkHolds
<1>3. OpenIn(Recount(emptySince, mem, rooms)) \subseteq OpenIn(emptySince)
  BY <1>1, <1>2, RecountOpensNone
<1> QED
  BY <1>1, <1>3, SubRosterStays, StaysBounded

\* A newcomer for whom there is room.
LEMMA NewcomerBounded ==
  ASSUME LimitInv, NEW c \in Code, NEW m \in MemberId, NEW rest, Stays(rest, member),
         Cardinality(In(rest, c)) < MaxMembers,
         member'[m].room = c, \A k \in MemberId \ {m} : member'[k] = rest[k],
         OpenIn(emptySince') \subseteq OpenIn(emptySince) \/
           (Cardinality(OpenIn(emptySince)) < MaxRooms
              /\ OpenIn(emptySince') \subseteq OpenIn(emptySince) \cup {c})
  PROVE  Bounded(member', emptySince')
<1>1. Bounded(member, emptySince) /\ MaxMembers \in Nat /\ MaxRooms \in Nat
  BY RoomsAssumption DEF LimitInv
<1>2. Bounded(rest, emptySince)
  BY <1>1, StaysBounded
<1>3. ASSUME NEW d \in Code
      PROVE  IsFiniteSet(In(member', d)) /\ Cardinality(In(member', d)) <= MaxMembers
  <2>1. IsFiniteSet(In(rest, d)) /\ Cardinality(In(rest, d)) <= MaxMembers
    BY <1>2 DEF Bounded
  <2>2. CASE d = c
    <3>1. In(member', d) \subseteq In(rest, d) \cup {m}
      OBVIOUS
    <3>2. PICK S, T : S = In(member', d) /\ T = In(rest, d)
      OBVIOUS
    <3>3. S \subseteq T \cup {m} /\ IsFiniteSet(T) /\ Cardinality(T) < MaxMembers
      BY <2>1, <2>2, <3>1, <3>2
    <3>4. IsFiniteSet(S) /\ Cardinality(S) <= MaxMembers
      BY <1>1, <3>3, OneMore
    <3> QED
      BY <3>2, <3>4
  <2>3. CASE d # c
    <3>1. In(member', d) \subseteq In(rest, d)
      BY <2>3
    <3> HIDE DEF In
    <3> QED
      BY <1>1, <2>1, <3>1, SmallerSet
  <2> QED
    BY <2>2, <2>3
<1>4. IsFiniteSet(OpenIn(emptySince')) /\ Cardinality(OpenIn(emptySince')) <= MaxRooms
  <2>1. IsFiniteSet(OpenIn(emptySince)) /\ Cardinality(OpenIn(emptySince)) <= MaxRooms
    BY <1>1 DEF Bounded
  <2>2. CASE OpenIn(emptySince') \subseteq OpenIn(emptySince)
    BY <1>1, <2>1, <2>2, SmallerSet
  <2>3. CASE /\ Cardinality(OpenIn(emptySince)) < MaxRooms
             /\ OpenIn(emptySince') \subseteq OpenIn(emptySince) \cup {c}
    BY <1>1, <2>1, <2>3, OneMore
  <2> QED
    BY <2>2, <2>3
<1> QED
  BY <1>3, <1>4 DEF Bounded

LEMMA RequestBounded ==
  ASSUME LimitInv, NEW s \in Socket, Request(s)
  PROVE  Bounded(member', emptySince') /\ UNCHANGED disk
<1>0. /\ HolderInv /\ TypeOK /\ Bounded(member, emptySince) /\ Housed(member, emptySince)
      /\ member \in Members /\ emptySince \in Countdown /\ Stays(member, member)
  BY DEF LimitInv, HolderInv, TypeOK, Stays
<1>1. UNCHANGED disk
  BY RequestFrame
<1>2. ASSUME NEW c \in Code, NEW m \in MemberId, NEW x \in Callsign, NEW p \in Post,
             CreateRoom(s, c, m, x, p)
      PROVE  Bounded(member', emptySince')
  <2>1. In(member, c) = {}
    BY <1>0, <1>2 DEF CreateRoom, Open, Housed
  <2>2. Cardinality(In(member, c)) < MaxMembers
    BY <2>1, FS_EmptySet, RoomsAssumption
  <2>3. /\ member' = [member EXCEPT ![m] = NewMember(c, x, p, s)]
        /\ emptySince' = [emptySince EXCEPT ![c] = None]
        /\ Cardinality(Open) < MaxRooms
    BY <1>2 DEF CreateRoom
  <2>4. member'[m].room = c /\ \A k \in MemberId \ {m} : member'[k] = member[k]
    BY <1>0, <2>3 DEF Members, NewMember
  <2>5. OpenIn(emptySince) = Open /\ OpenIn(emptySince') \subseteq OpenIn(emptySince) \cup {c}
    BY <1>0, <2>3 DEF OpenIn, Open, Countdown
  <2> HIDE DEF In
  <2> QED
    BY <1>0, <2>2, <2>3, <2>4, <2>5, NewcomerBounded
<1>3. ASSUME NEW c \in Code, NEW m \in MemberId, NEW x \in Callsign, NEW p \in Post,
             NEW replace \in BOOLEAN, JoinRoom(s, c, m, x, p, replace)
      PROVE  Bounded(member', emptySince')
  <2>1. PICK rest : rest = Without(member, Rivals(c, x, p))
    OBVIOUS
  <2>2. SubRoster(rest, member) /\ Stays(rest, member)
    BY <2>1, WithoutSub, SubRosterStays
  <2>3. CASE Full(rest, c)
    <3>1. member' = rest /\ emptySince' = emptySince
      BY <1>3, <2>1, <2>3 DEF JoinRoom
    <3> QED
      BY <1>0, <2>2, <3>1, StaysBounded
  <2>4. CASE ~Full(rest, c)
    <3>1. /\ member' = [rest EXCEPT ![m] = NewMember(c, x, p, s)]
          /\ emptySince' = [emptySince EXCEPT ![c] = None]
          /\ c \in Open
      BY <1>3, <2>1, <2>4 DEF JoinRoom
    <3>2. member'[m].room = c /\ \A k \in MemberId \ {m} : member'[k] = rest[k]
      BY <2>1, <3>1 DEF Without, NewMember
    <3>3. OpenIn(emptySince') \subseteq OpenIn(emptySince)
      BY <1>0, <3>1 DEF OpenIn, Open, Countdown
    <3>4. Cardinality(In(rest, c)) < MaxMembers
      <4>1. Bounded(rest, emptySince)
        BY <1>0, <2>2, StaysBounded
      <4>2. Cardinality(In(rest, c)) \in Nat /\ MaxMembers \in Nat
        BY <4>1, FS_CardinalityType, RoomsAssumption DEF Bounded
      <4> QED
        BY <2>4, <4>2 DEF Full
    <3> HIDE DEF In
    <3> QED
      BY <2>2, <3>2, <3>3, <3>4, NewcomerBounded
  <2> QED
    BY <2>3, <2>4
<1>4. ASSUME NEW m \in MemberId, Rejoin(s, m)
      PROVE  Bounded(member', emptySince')
  <2>1. m \in Present(member) /\ member[m] \in Member
    BY <1>0, <1>4, PresentType DEF Rejoin
  <2>2. /\ member' = [member EXCEPT ![m] = [@ EXCEPT !.connected = TRUE, !.socket = s, !.lastSeen = now]]
        /\ emptySince' = [emptySince EXCEPT ![member[m].room] = None]
    BY <1>0, <1>4 DEF Rejoin, Members
  <2>3. Stays(member', member)
    BY <1>0, <2>1, <2>2 DEF Stays, Members, Member
  <2>4. emptySince[member[m].room] # Absent
    BY <1>0, <2>1 DEF Housed
  <2>5. OpenIn(emptySince') \subseteq OpenIn(emptySince)
    BY <1>0, <2>2, <2>4 DEF OpenIn, Countdown
  <2> QED
    BY <1>0, <2>3, <2>5, StaysBounded
<1>5. CASE PositionUpdate(s) \/ \E p \in Post : UpdateSymbol(s, p)
  <2>1. PICK m \in Holder(s), p \in Post :
          \/ member' = [member EXCEPT ![m].lastSeen = now]
          \/ member' = [member EXCEPT ![m].post = p]
    <3>1. CASE PositionUpdate(s)
      <4>1. PICK m \in Holder(s) : member' = [member EXCEPT ![m].lastSeen = now]
        BY <3>1 DEF PositionUpdate
      <4>2. member[m].post \in Post
        BY <1>0, PresentType DEF Holder, Member
      <4> QED
        BY <4>1, <4>2
    <3>2. CASE \E p \in Post : UpdateSymbol(s, p)
      BY <3>2 DEF UpdateSymbol
    <3> QED
      BY <1>5, <3>1, <3>2
  <2>2. m \in Present(member) /\ member[m] \in Member
    BY <1>0, PresentType DEF Holder
  <2>3. Stays(member', member)
    BY <1>0, <2>1, <2>2 DEF Stays, Members, Member
  <2>4. OpenIn(emptySince') \subseteq OpenIn(emptySince)
    BY <1>5 DEF PositionUpdate, UpdateSymbol
  <2> QED
    BY <1>0, <1>1, <2>3, <2>4, StaysBounded
<1>6. CASE LeaveRoom(s)
  <2>1. PICK m \in Holder(s) :
          /\ member' = Without(member, {m})
          /\ emptySince' = Recount(emptySince, Without(member, {m}), {member[m].room})
    BY <1>6 DEF LeaveRoom
  <2>2. SubRoster(Without(member, {m}), member)
    BY WithoutSub
  <2> QED
    BY <1>1, <2>1, <2>2, RecountedBounded
<1>7. CASE Disconnect(s)
  <2>1. SubRoster(Offline(member, Holder(s)), member)
    BY <1>0, OfflineSub DEF Holder
  <2> QED
    BY <1>7, <2>1, RecountedBounded DEF Disconnect
<1> QED
  BY <1>1, <1>2, <1>3, <1>4, <1>5, <1>6, <1>7 DEF Request

LEMMA AdminBounded ==
  ASSUME LimitInv, Admin
  PROVE  Bounded(member', emptySince') /\ UNCHANGED disk
<1>0. /\ HolderInv /\ TypeOK /\ Bounded(member, emptySince)
      /\ member \in Members /\ emptySince \in Countdown
  BY DEF LimitInv, HolderInv, TypeOK
<1>1. ASSUME NEW c \in Code, CloseRoom(c)
      PROVE  Bounded(member', emptySince') /\ UNCHANGED disk
  <2>1. SubRoster(member', member)
    BY <1>1, WithoutSub DEF CloseRoom
  <2>2. OpenIn(emptySince') \subseteq OpenIn(emptySince)
    BY <1>0, <1>1 DEF CloseRoom, OpenIn, Countdown
  <2> QED
    BY <1>0, <1>1, <2>1, <2>2, SubRosterStays, StaysBounded DEF CloseRoom
<1>2. ASSUME NEW c \in Code, ExtendRoom(c)
      PROVE  Bounded(member', emptySince') /\ UNCHANGED disk
  <2>1. OpenIn(emptySince') \subseteq OpenIn(emptySince)
    BY <1>0, <1>2 DEF ExtendRoom, OpenIn, Open, Countdown
  <2>2. Stays(member', member)
    BY <1>2 DEF ExtendRoom, Stays
  <2> QED
    BY <1>0, <1>2, <2>1, <2>2, StaysBounded DEF ExtendRoom
<1>3. ASSUME NEW m \in MemberId, Kick(m)
      PROVE  Bounded(member', emptySince') /\ UNCHANGED disk
  <2> DEFINE cut   == Up \cap {member[m].socket}
             rest  == Without(member, {m})
             gone  == (UNION {Holder(s) : s \in cut}) \ {m}
             after == Offline(rest, gone)
  <2>1. rest \in Members /\ SubRoster(rest, member)
    BY <1>0, WithoutType, WithoutSub
  <2>2. gone \in SUBSET Present(rest)
    <3>1. ASSUME NEW k \in gone
          PROVE  k \in Present(rest)
      <4>1. k \in Present(member) /\ k # m
        BY DEF Holder
      <4> QED
        BY <4>1 DEF Without
    <3> QED
      BY <3>1
  <2>3. SubRoster(after, member)
    BY <2>1, <2>2, OfflineSub, SubRosterTransitive
  <2> QED
    BY <1>3, <2>3, RecountedBounded DEF Kick
<1> QED
  BY <1>1, <1>2, <1>3 DEF Admin

LEMMA ServerBounded ==
  ASSUME LimitInv, Sweep \/ Save \/ Shutdown \/ Crash \/ Start \/ Tick
  PROVE  Bounded(member', emptySince') /\ Bounded(disk.member, disk.emptySince)'
<1>0. /\ HolderInv /\ TypeOK /\ Bounded(member, emptySince)
      /\ Bounded(disk.member, disk.emptySince)
      /\ member \in Members /\ emptySince \in Countdown
  BY DEF LimitInv, HolderInv, TypeOK
<1>1. Bounded(NoMembers, NoRooms)
  <2>1. Stays(NoMembers, member) /\ OpenIn(NoRooms) \subseteq OpenIn(emptySince)
    BY DEF NoMembers, NoRooms, Stays, OpenIn
  <2> QED
    BY <1>0, <2>1, StaysBounded
<1>2. CASE Sweep
  <2> DEFINE kept   == Without(member, Expired)
             since  == Recount(emptySince, kept, Open)
             closed == {c \in Open : since[c] # None /\ now - since[c] > EmptyTtl}
             rest   == Without(kept, UNION {In(kept, c) : c \in closed})
  <2>1. SubRoster(rest, member) /\ SubRoster(kept, member)
    BY WithoutSub, SubRosterTransitive
  <2>2. /\ member' = rest
        /\ emptySince' = [c \in Code |-> IF c \in closed THEN Absent ELSE since[c]]
        /\ UNCHANGED disk
    BY <1>2 DEF Sweep
  <2>3. Housed(kept, emptySince)
    BY <1>0, <2>1, ShrinkHolds
  <2>4. OpenIn(since) \subseteq OpenIn(emptySince)
    BY <1>0, <2>3, RecountOpensNone
  <2> HIDE DEF rest, since, closed, kept
  <2>5. OpenIn(emptySince') \subseteq OpenIn(emptySince)
    BY <2>2, <2>4 DEF OpenIn
  <2> QED
    BY <1>0, <2>1, <2>2, <2>5, SubRosterStays, StaysBounded
<1>3. CASE Save
  BY <1>0, <1>3 DEF Save, Snapshot
<1>4. CASE Shutdown
  <2> DEFINE gone  == UNION {Holder(s) : s \in Up}
             after == Offline(member, gone)
  <2>1. SubRoster(after, member)
    <3>1. gone \in SUBSET Present(member)
      BY DEF Holder
    <3> QED
      BY <1>0, <3>1, OfflineSub
  <2>2. Bounded(after, Recount(emptySince, after, RoomsOf(gone)))
    BY <2>1, RecountedBounded
  <2>3. /\ disk' = Snapshot(after, Recount(emptySince, after, RoomsOf(gone)))
        /\ member' = NoMembers /\ emptySince' = NoRooms
    BY <1>4 DEF Shutdown, Stop
  <2> QED
    BY <1>1, <2>2, <2>3 DEF Snapshot
<1>5. CASE Crash
  BY <1>0, <1>1, <1>5 DEF Crash, Stop
<1>6. CASE Start
  <2> DEFINE back  == Restored(disk.member)
             rooms == {c \in Code : disk.emptySince[c] # Absent}
  <2>1. SubRoster(back, disk.member)
    BY <1>0, RestoredSub DEF TypeOK
  <2>2. Housed(back, disk.emptySince)
    BY <1>0, <2>1 DEF Housed, SubRoster, HolderInv
  <2>3. OpenIn(Recount(disk.emptySince, back, rooms)) \subseteq OpenIn(disk.emptySince)
    BY <1>0, <2>2, RecountOpensNone
  <2>4. member' = back /\ emptySince' = Recount(disk.emptySince, back, rooms) /\ UNCHANGED disk
    BY <1>6 DEF Start
  <2> HIDE DEF back, rooms
  <2> QED
    BY <1>0, <2>1, <2>3, <2>4, SubRosterStays, StaysBounded
<1>7. CASE Tick
  BY <1>0, <1>7 DEF Tick
<1> QED
  BY <1>2, <1>3, <1>4, <1>5, <1>6, <1>7

LEMMA LimitStep == LimitInv /\ [Next]_vars => LimitInv'
<1> SUFFICES ASSUME LimitInv, [Next]_vars
             PROVE  LimitInv'
  OBVIOUS
<1>1. HolderInv' /\ Bounded(member, emptySince) /\ Bounded(disk.member, disk.emptySince)
  BY HolderStep DEF LimitInv
<1>2. CASE Next
  <2>1. Bounded(member', emptySince') /\ Bounded(disk.member, disk.emptySince)'
    BY <1>1, <1>2, RequestBounded, AdminBounded, ServerBounded DEF Next
  <2> QED
    BY <1>1, <2>1 DEF LimitInv
<1>3. CASE UNCHANGED vars
  BY <1>1, <1>3 DEF vars, LimitInv
<1> QED
  BY <1>2, <1>3

LEMMA LimitInvariant == Spec => []LimitInv
<1>1. Init => Bounded(member, emptySince) /\ Bounded(disk.member, disk.emptySince)
  <2> SUFFICES ASSUME Init
               PROVE  Bounded(NoMembers, NoRooms)
    BY DEF Init
  <2>1. \A c \in Code : In(NoMembers, c) = {}
    BY DEF NoMembers
  <2>2. OpenIn(NoRooms) = {}
    BY DEF NoRooms, OpenIn
  <2>3. 0 <= MaxMembers /\ 0 <= MaxRooms
    BY RoomsAssumption
  <2> QED
    BY <2>1, <2>2, <2>3, FS_EmptySet DEF Bounded
<1>2. LimitInv /\ [Next]_vars => LimitInv'
  BY LimitStep
<1>3. HolderInv /\ Bounded(member, emptySince) /\ Bounded(disk.member, disk.emptySince)
        => LimitInv
  BY DEF LimitInv
<1> QED
  BY <1>1, <1>2, <1>3, HolderInvariant, PTL DEF Spec

(* Members belong to open rooms, no room holds more of them than it        *)
(* admits, the server no more rooms than it admits: a join that replaces,  *)
(* a sweep, a crash and an older snapshot included.                        *)
THEOREM LimitsKept == Spec => []WithinLimits
<1>1. LimitInv => WithinLimits
  <2> SUFFICES ASSUME LimitInv
               PROVE  WithinLimits
    OBVIOUS
  <2>1. Open = OpenIn(emptySince)
    BY DEF Open, OpenIn
  <2>2. \A m \in Present(member) : member[m].room \in Open
    BY <2>1, PresentType DEF LimitInv, HolderInv, Housed, OpenIn
  <2> QED
    BY <2>1, <2>2 DEF WithinLimits, LimitInv, Bounded
<1> QED
  BY <1>1, LimitInvariant, PTL

(* A join that replaces somebody evicts nobody who is connected, and then  *)
(* has a place for the newcomer.                                           *)
THEOREM EvictionsAdmit == Spec => EvictionAdmits
<1> DEFINE Admits == \A s \in Socket, c \in Code, m \in MemberId, x \in Callsign, p \in Post :
                       JoinRoom(s, c, m, x, p, TRUE) =>
                         \A k \in Present(member) \ Present(member') :
                           /\ m \in Present(member')
                           /\ ~member[k].connected
<1>1. ASSUME LimitInv PROVE Admits
  <2> SUFFICES ASSUME NEW s \in Socket, NEW c \in Code, NEW m \in MemberId,
                      NEW x \in Callsign, NEW p \in Post, JoinRoom(s, c, m, x, p, TRUE),
                      NEW k \in Present(member), k \notin Present(member')
               PROVE  m \in Present(member') /\ ~member[k].connected
    OBVIOUS
  <2> DEFINE ghosts == Rivals(c, x, p)
             rest == Without(member, ghosts)
  <2>1. Bounded(member, emptySince) /\ MaxMembers \in Nat
    BY <1>1, RoomsAssumption DEF LimitInv
  <2>2. ghosts \subseteq In(member, c) /\ In(rest, c) \subseteq In(member, c) \ ghosts
    BY DEF Rivals, Without
  <2>3. k \in ghosts
    <3>1. CASE Full(rest, c)
      BY <3>1 DEF JoinRoom, Without
    <3>2. CASE ~Full(rest, c)
      <4>1. member' = [rest EXCEPT ![m] = NewMember(c, x, p, s)]
        BY <3>2 DEF JoinRoom
      <4>2. NewMember(c, x, p, s) # Absent
        BY <1>1, NewMemberType, AbsentAssumption DEF LimitInv, HolderInv
      <4> QED
        BY <4>1, <4>2 DEF Without
    <3> QED
      BY <3>1, <3>2
  <2>4. ~member[k].connected
    BY <2>3 DEF JoinRoom
  <2>5. ~Full(rest, c)
    <3>1. PICK S, T : S = In(rest, c) /\ T = In(member, c)
      OBVIOUS
    <3>2. IsFiniteSet(T) /\ Cardinality(T) <= MaxMembers
      BY <2>1, <3>1 DEF Bounded
    <3>3. S \subseteq T \ {k} /\ k \in T
      BY <2>2, <2>3, <3>1
    <3>4. Cardinality(T \ {k}) = Cardinality(T) - 1 /\ IsFiniteSet(T \ {k})
      BY <3>2, <3>3, FS_RemoveElement
    <3>5. Cardinality(S) <= Cardinality(T \ {k}) /\ IsFiniteSet(S)
      BY <3>3, <3>4, FS_Subset
    <3>6. Cardinality(S) \in Nat /\ Cardinality(T) \in Nat
      BY <3>2, <3>5, FS_CardinalityType
    <3>7. Cardinality(S) < MaxMembers
      BY <2>1, <3>2, <3>4, <3>5, <3>6
    <3> QED
      BY <2>1, <3>1, <3>6, <3>7 DEF Full
  <2>6. m \in Present(member')
    <3>1. member' = [rest EXCEPT ![m] = NewMember(c, x, p, s)]
      BY <2>5 DEF JoinRoom
    <3>2. NewMember(c, x, p, s) # Absent
      BY <1>1, NewMemberType, AbsentAssumption DEF LimitInv, HolderInv
    <3> QED
      BY <3>1, <3>2 DEF Without
  <2> QED
    BY <2>4, <2>6
<1>2. LimitInv /\ [Next]_vars => [Admits]_vars
  BY <1>1
<1> QED
  BY <1>2, LimitInvariant, PTL DEF Spec, EvictionAdmits

-----------------------------------------------------------------------------
(* The grace period of a server that is not restarted.  A member who is    *)
(* not connected was last so before its lastSeen, and nobody was connected *)
(* in a room later than the room was busy.                                 *)

GraceInv ==
  /\ TtlInv
  /\ running
  /\ \A m \in Present(member) :
       /\ onlineAt[m] <= busyAt[member[m].room]
       /\ ~member[m].connected => onlineAt[m] <= member[m].lastSeen
  /\ \A m \in MemberId : onlineAt[m] <= now

\* What a step makes of a member: it is connected, or it goes offline now,
\* or its being offline is dated as it was or later.
MemberMoved(m) ==
  \/ member'[m].connected
  \/ /\ m \in Present(member)
     /\ member'[m].room = member[m].room
     /\ \/ member'[m].lastSeen = now
        \/ ~member[m].connected /\ member'[m].lastSeen = member[m].lastSeen

LEMMA OfflineMoves ==
  ASSUME NEW mem \in Members, NEW gone \in SUBSET Present(mem), NEW m \in Present(Offline(mem, gone))
  PROVE  /\ m \in Present(mem)
         /\ \/ Offline(mem, gone)[m] = mem[m]
            \/ Offline(mem, gone)[m].room = mem[m].room /\ Offline(mem, gone)[m].lastSeen = now
<1>1. CASE m \in gone
  <2>1. mem[m] \in Member
    BY <1>1 DEF Members
  <2> QED
    BY <1>1, <2>1 DEF Offline, Member
<1>2. CASE m \notin gone
  BY <1>2 DEF Offline
<1> QED
  BY <1>1, <1>2

LEMMA MembersMove ==
  ASSUME TypeOK, Restarts = {}, running, Next, NEW m \in Present(member')
  PROVE  MemberMoved(m)
<1>0. member \in Members /\ \A k \in Present(member) : member[k].connected \in BOOLEAN
  BY DEF TypeOK, Members, Member
<1>1. ASSUME member'[m] = member[m] PROVE MemberMoved(m)
  BY <1>0, <1>1 DEF MemberMoved
<1>2. ASSUME NEW s \in Socket, Request(s) PROVE MemberMoved(m)
  <2>1. ASSUME NEW c \in Code, NEW k \in MemberId, NEW x \in Callsign, NEW p \in Post,
               CreateRoom(s, c, k, x, p)
        PROVE  MemberMoved(m)
    BY <1>0, <1>1, <2>1 DEF CreateRoom, Members, MemberMoved, NewMember
  <2>2. ASSUME NEW c \in Code, NEW k \in MemberId, NEW x \in Callsign, NEW p \in Post,
               NEW replace \in BOOLEAN, JoinRoom(s, c, k, x, p, replace)
        PROVE  MemberMoved(m)
    <3>1. PICK rest : rest = Without(member, Rivals(c, x, p))
      OBVIOUS
    <3>2. member' = rest \/ member' = [rest EXCEPT ![k] = NewMember(c, x, p, s)]
      BY <2>2, <3>1 DEF JoinRoom
    <3>3. CASE m = k /\ member' # rest
      BY <3>1, <3>2, <3>3 DEF Without, MemberMoved, NewMember
    <3>4. CASE m # k \/ member' = rest
      BY <1>1, <3>1, <3>2, <3>4 DEF Without
    <3> QED
      BY <3>3, <3>4
  <2>3. ASSUME NEW k \in MemberId, Rejoin(s, k) PROVE MemberMoved(m)
    <3>1. k \in Present(member) /\ member[k] \in Member
      BY <2>3, PresentType DEF Rejoin
    <3>2. member' = [member EXCEPT ![k] = [@ EXCEPT !.connected = TRUE, !.socket = s, !.lastSeen = now]]
      BY <1>0, <2>3 DEF Rejoin, Members
    <3> QED
      BY <1>0, <1>1, <3>1, <3>2 DEF Members, Member, MemberMoved
  <2>4. CASE PositionUpdate(s)
    <3>1. PICK k \in Holder(s) : member' = [member EXCEPT ![k].lastSeen = now]
      BY <2>4 DEF PositionUpdate
    <3>2. k \in Present(member) /\ member[k] \in Member
      BY PresentType DEF Holder
    <3> QED
      BY <1>0, <1>1, <3>1, <3>2 DEF Members, Member, MemberMoved
  <2>5. ASSUME NEW p \in Post, UpdateSymbol(s, p) PROVE MemberMoved(m)
    <3>1. PICK k \in Holder(s) : member' = [member EXCEPT ![k].post = p]
      BY <2>5 DEF UpdateSymbol
    <3>2. k \in Present(member) /\ member[k] \in Member
      BY PresentType DEF Holder
    <3> QED
      BY <1>0, <1>1, <3>1, <3>2 DEF Members, Member, MemberMoved
  <2>6. CASE LeaveRoom(s)
    BY <1>1, <2>6 DEF LeaveRoom, Without
  <2>7. CASE Disconnect(s)
    <3>1. Holder(s) \in SUBSET Present(member) /\ member' = Offline(member, Holder(s))
      BY <2>7 DEF Disconnect, Holder
    <3> QED
      BY <1>0, <1>1, <3>1, OfflineMoves DEF MemberMoved
  <2> QED
    BY <1>2, <2>1, <2>2, <2>3, <2>4, <2>5, <2>6, <2>7 DEF Request
<1>3. CASE Admin
  <2>1. ASSUME NEW c \in Code, CloseRoom(c) \/ ExtendRoom(c) PROVE MemberMoved(m)
    BY <1>1, <2>1 DEF CloseRoom, ExtendRoom, Without
  <2>2. ASSUME NEW k \in MemberId, Kick(k) PROVE MemberMoved(m)
    <3> DEFINE cut   == Up \cap {member[k].socket}
               rest  == Without(member, {k})
               gone  == (UNION {Holder(s) : s \in cut}) \ {k}
    <3>1. rest \in Members
      BY <1>0, WithoutType
    <3>2. gone \in SUBSET Present(rest)
      BY DEF Holder, Without
    <3>3. member' = Offline(rest, gone)
      BY <2>2 DEF Kick
    <3>4. m \in Present(rest) => rest[m] = member[m] /\ m \in Present(member)
      BY DEF Without
    <3> HIDE DEF rest, gone
    <3> QED
      BY <1>1, <3>1, <3>2, <3>3, <3>4, OfflineMoves DEF MemberMoved
  <2> QED
    BY <1>3, <2>1, <2>2 DEF Admin
<1>4. CASE Sweep
  BY <1>1, <1>4 DEF Sweep, Without
<1>5. CASE Tick
  BY <1>1, <1>5 DEF Tick
<1>6. ~(Save \/ Shutdown \/ Crash \/ Start)
  BY DEF Save, Shutdown, Crash, Start
<1> QED
  BY <1>2, <1>3, <1>4, <1>5, <1>6 DEF Next

LEMMA GraceStep ==
  ASSUME Restarts = {}
  PROVE  GraceInv /\ HolderInv /\ [Next]_vars => GraceInv'
<1> SUFFICES ASSUME GraceInv, HolderInv, [Next]_vars
             PROVE  GraceInv'
  OBVIOUS
<1>1. TtlInv /\ TtlInv' /\ TypeOK /\ TypeOK'
  BY TtlStep DEF GraceInv, TtlInv, CountdownInv
<1>2. CASE Next
  <2>1. now' \in {now, now + 1} /\ running'
    <3>1. ~(Save \/ Shutdown \/ Crash \/ Start)
      BY DEF GraceInv, Save, Shutdown, Crash, Start
    <3> QED
      BY <1>2, <3>1, RequestFrame, AdminFrame, ServerFrame DEF Next, GraceInv
  <2>2. /\ \A c \in Code : busyAt'[c] = IF Occupied(member', c) THEN now' ELSE busyAt[c]
        /\ \A m \in MemberId : onlineAt'[m] =
             IF member'[m] # Absent /\ member'[m].connected THEN now' ELSE onlineAt[m]
    BY <1>2 DEF Next, Observe
  <2>3. /\ now \in Nat /\ now' \in Nat
        /\ \A c \in Code : busyAt[c] \in Nat /\ busyAt[c] <= now
        /\ \A m \in MemberId : onlineAt[m] \in Nat
    BY <1>1, DateFacts DEF TypeOK, Time, TtlInv
  <2>4. \A m \in MemberId : onlineAt'[m] <= now'
    BY <2>1, <2>2, <2>3 DEF GraceInv
  <2>5. ASSUME NEW m \in Present(member')
        PROVE  /\ onlineAt'[m] <= busyAt'[member'[m].room]
               /\ ~member'[m].connected => onlineAt'[m] <= member'[m].lastSeen
    <3>1. member'[m].room \in Code
      BY <1>1 DEF TypeOK, Members, Member
    <3>2. CASE member'[m].connected
      <4>1. Occupied(member', member'[m].room)
        BY <3>2 DEF Occupied
      <4> QED
        BY <2>2, <2>3, <3>1, <3>2, <4>1
    <3>3. CASE ~member'[m].connected
      <4>1. /\ m \in Present(member) /\ member'[m].room = member[m].room
            /\ \/ member'[m].lastSeen = now
               \/ ~member[m].connected /\ member'[m].lastSeen = member[m].lastSeen
        BY <1>1, <1>2, <3>3, MembersMove DEF GraceInv, MemberMoved
      <4>2. onlineAt'[m] = onlineAt[m]
        BY <2>2, <3>3
      <4>3. busyAt'[member[m].room] = now' \/ busyAt'[member[m].room] = busyAt[member[m].room]
        BY <2>2, <3>1, <4>1
      <4>4. onlineAt[m] <= busyAt[member[m].room] /\ onlineAt[m] <= now /\ onlineAt[m] \in Nat
        BY <2>3, <4>1 DEF GraceInv
      <4>5. onlineAt'[m] <= busyAt'[member'[m].room]
        BY <2>1, <2>3, <4>1, <4>2, <4>3, <4>4
      <4>6. onlineAt'[m] <= member'[m].lastSeen
        BY <4>1, <4>2, <4>4 DEF GraceInv
      <4> QED
        BY <4>5, <4>6
    <3> QED
      BY <3>2, <3>3
  <2> QED
    BY <1>1, <2>1, <2>4, <2>5 DEF GraceInv
<1>3. CASE UNCHANGED vars
  BY <1>1, <1>3 DEF vars, GraceInv
<1> QED
  BY <1>2, <1>3

LEMMA SweepKeepsMembers ==
  ASSUME GraceInv, Sweep, NEW m \in Present(member), m \notin Present(member')
  PROVE  now - onlineAt[m] > Grace
<1> DEFINE kept   == Without(member, Expired)
           since  == Recount(emptySince, kept, Open)
           closed == {c \in Open : since[c] # None /\ now - since[c] > EmptyTtl}
<1>1. TtlInv /\ TypeOK
  BY DEF GraceInv, TtlInv, CountdownInv
<1>2. /\ now \in Nat /\ onlineAt[m] \in Nat /\ Grace \in Nat /\ EmptyTtl \in Nat
      /\ Grace <= EmptyTtl
  BY <1>1, RoomsAssumption DEF TypeOK, Time
<1>3. /\ member' = Without(kept, UNION {In(kept, c) : c \in closed})
      /\ emptySince' = [c \in Code |-> IF c \in closed THEN Absent ELSE since[c]]
  BY DEF Sweep
<1>4. CASE m \in Expired
  <2>1. ~member[m].connected /\ now - member[m].lastSeen > Grace /\ member[m].lastSeen \in Nat
    BY <1>1, <1>4, PresentType DEF Expired, Member, Time
  <2>2. onlineAt[m] <= member[m].lastSeen
    BY <2>1 DEF GraceInv
  <2> QED
    BY <1>2, <2>1, <2>2
<1>5. CASE m \notin Expired
  <2>1. m \in Present(kept) /\ kept[m] = member[m]
    BY <1>5 DEF Without
  <2>2. PICK c \in closed : m \in In(kept, c)
    <3>1. m \in UNION {In(kept, c) : c \in closed}
      BY <1>3, <2>1 DEF Without
    <3> QED
      BY <3>1
  <2>3. c \in Open /\ c \in Code /\ emptySince'[c] = Absent /\ member[m].room = c
    BY <1>3, <2>1, <2>2 DEF Open
  <2>4. now - busyAt[c] > EmptyTtl
    BY <1>1, <2>3, SweepKeepsRooms
  <2>5. onlineAt[m] <= busyAt[c] /\ busyAt[c] \in Nat
    BY <1>1, <2>3, DateFacts DEF GraceInv
  <2> QED
    BY <1>2, <2>4, <2>5
<1> QED
  BY <1>4, <1>5

(* While the server is not restarted no member is swept, by its own delay  *)
(* or with its room, before it has been offline for longer than the grace. *)
(* (A restart is another matter: a member whose connection has entered     *)
(* another room is in no disconnect, and comes back dated by its last      *)
(* position.)                                                              *)
THEOREM GraceRespected ==
  ASSUME Restarts = {}
  PROVE  Spec => GraceHonoured
<1>1. Init => GraceInv
  <2> SUFFICES ASSUME Init
               PROVE  GraceInv
    OBVIOUS
  <2>1. TtlInv
    BY TtlInit
  <2> QED
    BY <2>1 DEF Init, GraceInv, NoMembers
<1>2. GraceInv /\ HolderInv /\ [Next]_vars => GraceInv'
  BY GraceStep
<1>3. GraceInv /\ [Next]_vars =>
        [Sweep => \A m \in Present(member) \ Present(member') : now - onlineAt[m] > Grace]_vars
  BY SweepKeepsMembers
<1> QED
  BY <1>1, <1>2, <1>3, HolderInvariant, PTL DEF Spec, GraceHonoured

=============================================================================
