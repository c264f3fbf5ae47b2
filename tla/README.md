# A TLA+ model of TacQuest

TacQuest is a tactical map shared by a team: each phone draws orders (points,
graphics, missions, messages, deletions) on its card. They travel by a
Socket.IO server when there is a network, by a LoRa mesh (Meshtastic modules
over Bluetooth) when there is none, or both. This directory models the parts of
that system in which something can go wrong that a unit test would hardly
reach: replicas that merge late and repeated frames, an anti-entropy that
repairs what the radio loses, a budget of air time, a server that keeps rooms
and members alive through disconnections and restarts, a client whose queue
survives drops and reloads, three stores of orders on one phone, identifiers
that must never be issued twice.

## 1. Inventory

| part | state | operations | modelled by |
|---|---|---|---|
| OR-Set of orders (`client/src/crdt/orders.ts`, `map/orderFilter.ts`) | a map from ids to versions | merge, mask, compact | `Orders` |
| replicas on the mesh (`transport/meshTransport.ts`, `transport/index.ts`, `transport/meshStore.ts`, the menus of `views/mapView.ts`) | the map of each node, the frames on the air, a save pending | draw, edit, delete, clear, write; hear a frame; save | `OrderReplicas` |
| version vector (`client/src/crdt/versionVector.ts`) | intervals of sequence numbers per author | add, contiguous part, gaps, numbers above | `VersionVector` |
| anti-entropy (`client/src/crdt/antiEntropy.ts`) | vector, digests, re-emissions and requests waiting | observe, digest, request, answer with jitter, suppress, attach again | `AntiEntropy`, abstractly `Gossip` |
| airtime governor and duty cycle (`transport/airtimeGovernor.ts`, `shared/src/mesh/airtime.ts`) | a queue with priorities, a sliding budget | submit, coalesce, evict, drain, space the positions | `Governor` |
| link to a module (`mesh/bleRadio.ts`, `mesh/bleRadioImpl.ts`, the drawer of `views/mapView.ts`, `transport/index.ts`) | the attempt in progress, open links, the last failure | connect, fail or time out at every await, attach, detach | `RadioLink` |
| binary codec (`shared/src/mesh/codec.ts`, `geo.ts`, `bytes.ts`) | none | encode, thin, relay, decode | `Codec` |
| zone of a mesh node, positions by radio (`meshTransport.ts`, `crdt/positions.ts`) | anchor and epoch, orders that wait for one, register of positions | establish, hold back, send again, hear, attach again | `Zone` |
| card of one phone (`client/src/state.ts`, `soloOrders.ts`, `transport/meshStore.ts`, `views/mapView.ts`, `views/roomMenu.ts`, `map/orders.ts`, `map/sketch.ts`) | orders, solo card, radio card, sketch, menus, what the layer draws | draw, edit, delete, clear, join, leave, import, attach, save, be killed | `LocalMap` |
| order identifiers (`transport/orderIds.ts`, `shared/src/mesh/ids.ts`) | a counter per page, three kinds of keys in localStorage | load, adopt a module, issue, reload | `OrderIds` |
| rooms and members (`server/src/rooms.ts`, `handlers.ts`, `admin.ts`) | rooms with a countdown, members, the member each socket is bound to | create, join, rejoin, position, symbol, leave, disconnect, sweep, close, extend, kick | `Rooms` |
| snapshot and restart (`server/src/persistence.ts`, `index.ts`) | the last file written, whether the server runs | save, shutdown, crash, start | `Rooms` |
| relay of orders (`handlers.ts`, `rooms.ts`) | the last orders of a room | accept or refuse, keep, relay, hand over to whoever enters | `OrderRelay` |
| session and outbox of a client (`client/src/socket.ts`, `state.ts`) | session, orders shown, queue, requests awaited | compose, flush, rejoin, merge a snapshot, reload, leave | `OrderRelay`, `LocalMap` |
| rosters of the clients (`socket.ts`, `state.ts`, `handlers.ts`, `admin.ts`, `map/markers.ts`) | the members each client shows, the positions that wait, the markers | member events, snapshots, flush, drops, kicks | `Rosters` |

Not modelled: see section 7.

### How the parts interact

* A menu composes an order with an id from the counter, the clock of the phone
  and the member id of the session (or of the radio). `transport/index.ts`
  hands it to the server path, which shows it at once and queues it, or merges
  it locally, and in both cases encodes it for the radio if there is one.
* The server answers each `send_order`, keeps the order in the history of the
  room and emits it to the other sockets of the room. Whoever enters gets the
  history as a snapshot, and the members with it; the others hear of the
  arrival, and of every change of a member, by events.
* A mesh node merges the frames it hears into the same map; any change makes a
  save pending, and a save first compacts the map in place. Its heartbeat drains
  the governor, then lets the anti-entropy send what is due.
* A frame is encoded relative to the room of its sender (an anchor and an epoch)
  and decoded relative to that of its receiver.
* In solo, orders live in a store of their own, which can be imported into the
  room that is entered and is read back when the room is left.
* The server's timers sweep members and rooms and write the snapshot; the
  administration console closes, extends and kicks.

### What is hard

* Frames are lost, repeated, reordered and late; clocks differ; timestamps lose
  their milliseconds on the air; a compaction forgets the tombstone that a late
  frame should have met. Nodes repair gaps from summaries of what they hold, and
  answer each other's summaries at the same time.
* A module stays silent, refuses or vanishes at any `await` of an attempt.
* Old connections end after new ones have taken over; rooms, countdowns,
  members and rosters are kept consistent by a dozen operations; the server may
  be stopped between any two of them and come back with an older file.
* An acknowledgement may be lost after the server has acted; the page may be
  killed with a request under way; a session may end with a queue full.
* The same map is fed by the user, the room, the radio and two stores.
* Several tabs share a localStorage but not a memory.

The full list, at the lines where they bite, is under `hazards` in
`PROJECT.json`.

### What makes each part correct

* OR-Set and replicas: what a node shows is a function of the set of orders it
  merged, not of their order; nothing removed comes back; a compaction reveals
  nothing; a deletion acts.
* Version vector and anti-entropy: the intervals implement a set that only
  grows and never claims what has not reached the store; what is asked for is missing;
  what is announced and still there is caught up with.
* Governor: the duty cycle holds over every sliding window, urgent frames leave
  first, no order is sacrificed for a digest. Link: a failed attempt leaves
  nothing open and is shown, and every attempt ends.
* Codec and zone: frames fit the radio; what is heard has its author, its target,
  its place and its date; a marker never goes back.
* Identifiers: none is issued twice.
* Rooms: callsigns and posts are unique; a room counts down exactly when nobody
  is connected; no one is swept in the grace period and no room before its TTL;
  an eviction admits the newcomer; limits hold; all this across restarts.
* Rosters: a phone that has read what it was sent shows what the server holds.
* Relay and outbox: no order of a live session is lost; a client that shows
  itself connected has what the server remembers; what waits is shown, and is
  delivered once the link holds.
* Card: the layer shows the card; solo figures survive and solo deletions last;
  what the radio brought is saved.

## 2. The modules

`Orders` holds pure operators on one store; `OrderReplicas`, `OrderRelay` and
`LocalMap` extend it and put stores behind the mesh, the server and the user of one
phone. `AntiEntropy` extends the operators of `VersionVector` and implements
`Gossip` (so do their proofs). `RadioLink` extends `Governor`: the governor is that
of the module attached, and a new attachment makes a new one. `Zone` extends the
operators of `Codec`. `Rooms`, `Rosters` and `OrderIds` stand alone. `MC*` modules
instantiate them for TLC and `*Proofs` modules prove theorems about them. No module
declares a RECURSIVE operator, so that all of them can be proved about.

### Orders

A store maps each id to an order or `Absent`. The payload of an order is kept
as far as masking reads it: a graphic or a waypoint is an `"object"`, a text or
an ack a `"note"`, then `"remove"` and `"clear"`. `MergeOrder` is `mergeOrder`,
`IsHidden` is `suppression` and `isHidden` together (the code compares with
maxima computed first, the model quantifies over the tombstones), `Visible` is
what `orderFilter.ts` draws, `CompactOrders` is `compactOrders`.

### OrderReplicas

`store[n]` is `state.orders` of node n, `air` every frame ever sent as a
receiver decodes it, `dirty` the deferred saves of `meshStore.ts`, `time` the
slowest clock, `Skew` how far each other clock is ahead. `seen` and `compacted`
are history variables. One action per gesture (`DrawObject`, `EditObject`,
`DeleteOrder`, `ClearWholeMap`, `SendNote`), one for a frame that is heard
(`Receive`), one for the save that fires (`Save`).

A frame may be heard by any node never, once or many times, in any order, until
it is `MaxDelay` old: this stands for loss, relays, the re-emissions of the
anti-entropy and a peer that was out of range. The assumption
`MaxDelay + Skew[n] <= Ttl` says what the code relies on: a tombstone kept for
24 h outlives every frame that is still about. Timestamps are in ticks, `Grain`
of them in a second; `Seconds` is `Math.round` to the second in the codec. An
edit of an order composed in the same instant on another node keeps whichever
was held; cards are compared as sets of ids, so this shows in no property.

### VersionVector, AntiEntropy, Gossip

`VersionVector` is the list of intervals of one author: `Add` is `add`, with
`Slot` for where its loop stops and `Joined` for the merge of two intervals,
`ContiguousUpto`, `Gaps` and `HeldAbove` the queries of the digests. `AddAll` is the
loop that adds the orders of a store to a new vector.

`AntiEntropy` has one vector per node, the store next to it (`orders`), what was
heard lately (`heard`), the re-emissions and requests that wait for their jitter
(`scheduled`, `requests`), and the air. `OnOrder`, `OnDigest` and `OnReq` are
what `meshTransport.ts` does with each kind of frame; `Tick` is the heartbeat of
a node with the whole of `tick()`: the re-emissions that are due, each checked
once more, the requests that are due, recomputed, then a digest and the first
gaps if the interval has passed. Time counts heartbeats, as ages and delays
only, so that the state space is finite without stopping the clock: `Advance`
ages everything once each node has had its heartbeat and what was sent in it has
arrived or is lost. A node's random delay is a choice over `0 .. Jitter`. `Attach`
makes the save that waits and empties everything but the store, as a new transport
does; `Start` is the first number of an author whose earlier orders nobody has any
more.

`orders` is `state.orders` itself, and `saveMeshOrders` compacts it in place without
a word to the vector: `antiEntropy.forget` has no caller. `Save` is that: orders
leave the store and the vector, the echoes and what is scheduled stay as they were.
Which orders go is decided by kinds, targets and dates in `compactOrders`, which
`Orders` and `OrderReplicas` model; here it may be any part of `Expiring`, at any
time, since any change of any order, by the radio or not, makes a save wait. That
covers an emptying of the same map by the server's side (`state.ts:145`, `242`) as
well, though not what the server adds to it. `compacted` is a history variable: what
saves took since the vector started.

`Gossip` is what this promises: each node knows a set of composed orders it has had,
which only grows until it starts over. `GossipSpec` states that `AntiEntropy` implements
it, with the numbers in the intervals for the set known.

### Governor, RadioLink

`Governor` is the queue, the sliding budget and the cadence of positions. A frame
is its kind and the instant it was queued; its cost is that of its kind. The air
time of a list is the number of its milliseconds, a set that holds `Cost` of them
for each place. `After` is `prune`: the log without its first emissions, those that
have left the window. `Submit` is `submit`, `Drain` the loop of `drain`: the
frames that leave (`Leaving`) are those that fit with all that come before them in
the order of `nextIndex` (`Sooner`), `InTurn` puts them in that order, and the
others stay as they were queued. `Evicted` is what a full queue gives up. `emitted`
is a history variable: what was let out in the last window, whatever `sent`, which
is pruned only when something is sent, still holds.

`RadioLink` is one action per step of an attempt: `Connect` (the tap), `Prepare`
(availability, import of the radio code, the chooser), `Configured`, `Refuse`,
`Timeout`, then `Close`, which waits for the link to be closed before the reason
is shown. `phase` is the await the attempt is in, `links` the attempts whose
Bluetooth link is open, `mesh` the one attached. `Rendered` is `renderMesh`, which
any event of a module may call at any moment. `Transmit`, `Position`, `Tick` and
`Pass` drive the governor while a module is attached.

### Codec, Zone

`Codec` keeps of an order what the format could get wrong: places in half metres
and instants in half seconds, which round; strings as lengths, which are cut;
sizes in bytes, from the widths of the varints; rectangles kept by two corners;
references that elide the author; the envelope of a relay and its five bytes; and
the thinning of a line that does not fit, vertex by vertex of least area.
`DecodeOrder` reads a frame in the room of the reader.

`Zone` is a node on the mesh: `rooms[n]`, the orders that wait for one (`pending`),
the store, the register of positions and the markers. The air keeps everything:
a frame is heard never, once, or more often, and late. What a node composes is of
`Payload`, which is `OrderPayload`; a line has two points or more, as
`finishSketch` wants. What a node without a room
makes of a frame is `Unreadable`, and the branch that should adopt an anchor
(`OnAnchor`) is behind it, as in the code.

### LocalMap

One phone: what the page shows (`orders`, `drawn`), the solo card, the radio card
with its deferred write, the tools (`sketch`, `arm`, `menu`, `editId`), the
session, the queue and the joins under way. The server is reduced to what this
phone sees of it: a room with the orders of others, which accepts the head of the
queue. `Synced` is `OrdersLayer.sync`, which draws a plot again when it changes
and a graphic once. `feeds` says whether the transport still writes to the map
that `state.orders` is: leaving a room makes another one. The solo card is imported
in any order its list may be in (`Imported`). `kept`, `gone` and `heard` are history
variables: what the solo card must hold, what was deleted for good, what the radio
brought to this card (what it brings once `feeds` is false is on no card: that is
`HeardIsShown`, section 5).

A popup is taken to be open no longer than its object is drawn (the code leaves
it open: section 5).

### OrderIds

`counter[t]` is the `SeqCounter` of tab t, `nodeKey`, `seqKey` and `seqKeyOf`
the localStorage keys `NODE_KEY`, `SEQ_KEY` and `SEQ_KEY-<n>`. `Ensured` is
what `ensure()` may return: the counter in memory, or one built from the
storage, with a node number drawn at random the first time. `AdoptRadioNode`
and `IssueOrderId` each begin with it, as in the code. Numbers wrap at `Wrap`
(2^16 in the code).

### Rooms

`member` maps member ids to records (room, callsign, post, connected, socket,
lastSeen), `emptySince` the codes of open rooms to their countdown, `bound` each
socket to `socket.data.memberId`, `disk` is the last snapshot written. Each
handler is an action with the conditions of its early returns; a request that is
refused changes nothing and is not an action. `JoinRoom` with `replace` evicts
before it checks the capacity, in the order of the code. `Disconnect` does not
ask which socket the member is bound to, because the code does not.

A socket is one connection and is never used again; a client that reconnects
uses another. The disconnection of an old socket may come at any time after
that, which is how the server sees a phone that changed network. `Shutdown` is
`index.ts`: sockets are disconnected, then the last snapshot is written;
a crash (`Stop`) writes nothing. `Start` reads `disk` and marks everybody
disconnected. The interface always sends the post `GV` and never sends
`update_symbol`; the handlers accept more and the model follows the handlers.
The throttles only refuse, `isLeader`, tokens and position contents are left
out, and a write of the snapshot that fails leaves the old file and is no action.

### Rosters

What each phone shows of the others: `roster`, the `buffer` of positions that
waits for the next flush, the markers `shown`, and `down`, what the server has
emitted to it and it has not read. On the server, the members of one room and the
connections. `After` is what a phone makes of each event, `Snapshot` is
`applyRoomState`, `Flushed` is `flushPositions`. The server notices the end of a
connection before or after the phone does, or after it has come back on another.
`GiveUp` is an answer to a join or rejoin that comes after its time-out and is
thrown away (`missed`).

Everybody enters as `GV` (`FIXED_ROLE` in the interface), so a join replaces at
most one ghost and the single departure that `handlers.ts:120` announces is
enough; `Rooms` has the replacements of two.

### OrderRelay

A connection is a pair of FIFO channels, `up` and `down`, both lost when it
drops, which makes whatever is awaited fail at once (as Socket.IO 4.8 does). On
the client, `session`, `orders`, `outbox` and `conn` are the variables of
`state.ts` and `socket.ts`; `awaits` is the set of requests whose
acknowledgement is awaited: `"send"` in it is `flushing`. After a time-out the
answer still comes and is ignored (`late`). On the server, `members` are the
members of the room, `bound` the member of each connection, `listening` the
sockets of the Socket.IO room, `history` is `recentOrders`, and `withheld` the
refusals of `rejoin_room` that wait for `FAILED_JOIN_DELAY_MS`.

`Compose` is `sendOrder`: show, queue, flush. `OnAnswer` is one turn of the loop
of `flushOutbox`, which goes on without looking at the session again. `Connect`
is the `connect` event, with or without a session to rejoin; `OnRejoined`
merges the snapshot, then the queue, then flushes. `OnOrder` overwrites, as the
code does. `Reload` keeps what localStorage keeps. It is assumed, here and in
`Rosters`, that the code which awaits an acknowledgement goes on before the next
packet of the connection is handled. Over a WebSocket, where each packet is a message
of its own, it does; with the polling transport, Socket.IO's first, an acknowledgement
and an event may come in one payload and be handled before the code goes on, and what
then happens is not covered.

What is abstracted: there is one room at a time (two rooms are the matter of
`Rooms` and `LocalMap`), the server may refuse any join, the quota of
`acceptOrder` may be spent at any time, orders always fit in `MAX_ORDER_BYTES`, a
request to join does not time out, the solo card is empty, and both ends of a
connection see its end at once (what an old connection may do afterwards is
modelled in `Rooms` and `Rosters`).

## 3. The runs

| run | instance | states | shows |
|---|---|---|---|
| `replicas` | 2 nodes, n2 one tick ahead, 2 ticks a second, 3 ids, 3 frames, times 0 to 3, TTL 3, delay 2 | 500,263 | `TypeOK`, `CardIsAddWins`, `NoResurrection`, `SaveRevealsNothing`, `DeletionActs` |
| `gossip` | n1 composes the numbers 1 to 3, n2 hears; a digest every 3 heartbeats, a jitter of one, one frame lost, n1's radio attached again once, saves that may take number 2 | 278,732 | `VectorIsHonest`, `AsksWhatIsMissing`, `GossipSpec`, `CatchesUp` |
| `radio` | 4 platforms, 2 refusals, 2 attempts; a queue of 2, a budget of 3 over a window of 2, orders that cost 2 | 239,921 | `DrawerTells`, `WithinDutyCycle`, `FailedLinksAreClosed`, `UrgentFirst`, `OrdersSurvive`, `AttemptEnds` |
| `zone` | 2 nodes in one cell of the grid; a line that fits exactly, a plot, a box, a removal; 2 instants, 2 positions, one attached again | 136,574 | `FramesFit`, `AuthorsKept`, `ReadAsMeant`, `ShownIsNewest`, `MarkersAdvance` |
| `rooms` | 2 codes, 3 members, 2 sockets, 2 posts; shutdowns and crashes, or times 0 to 3 with a grace and a TTL of 1 | 122,311 | `TypeOK`, `OneHolder`, `CountdownRuns`, `WithinLimits`, `EvictionAdmits`, `GraceHonoured`, `RoomKeptForTtl` |
| `rooms_rebound` | no time, no restart | | violates `ReboundKept` |
| `rosters` | 2 phones, 3 members, 3 sockets, 2 positions each, 2 events under way; p1 has every trouble | 343,702 | `RosterFollows`, `MapFollowsRoster`, `PositionsAdvance` |
| `ids_one_radio` | 1 tab, 1 module, 3 other numbers, 12 identifiers | 353 | `NextIsFresh` |
| `relay` | 2 clients, 2 sessions, 2 orders, one order remembered; c1 has every trouble and loses its connection once, c2 none; rooms close, members are kicked and expire | 1,116,290 | `TypeOK`, `OwnOrdersKept`, `InSync`, `PendingShown` |
| `relay_delivery` | 1 client, 2 sessions, 2 orders, up to 3 connections, every trouble and end | 99,309 | `Delivered` |
| `relay_edits` | 2 clients, 1 object, 3 versions, no fault | | violates `MembersAgree` |
| `local_map` | 5 ids, 2 rooms, 4 users: every tool and one room; two rooms; a module; a module attached twice | 725,169 | `DrawnIsVisible`, `SoloSurvives`, `SoloDeletesForGood`, `HeardIsSaved` |

In the newer modules the type invariant is the first conjunct of an invariant of
the run (`VectorIsHonest`, `DrawerTells`, `AuthorsKept`, `MapFollowsRoster`,
`DrawnIsVisible`).

**Why the bounds are enough to be interesting.**

* `replicas`: three ids are an object, its removal and one more order; three
  frames suffice for a version, a removal and an edit or an erasure that race,
  and the clock runs long enough for the tombstone to expire while a frame that
  it masks can still be heard.
* `gossip`: three numbers with the middle one lost make a gap in the vector of
  n2; heard out of order they make two intervals and join them; numbers from 1 on,
  with the first one lost or the radio of n1 attached again, make the missing
  prefix that `CatchesUp` excepts. Number 2, in the middle, is the one a save may
  take, from either store, before or after the other has heard it: a request that
  nobody can answer must not keep number 3 away. An answer holds two
  orders (`ResendMax = 2`), so that three missing ones take two digests; the limit
  of a digest does not bite, since only n1 composes.
* `radio`: two attempts are a failure followed by a success, and a module
  attached again with a link of before still open; a budget of three holds one
  order and one digest but not two orders; a queue of two is full with what the
  window does not let through.
* `zone`: the line has six vertices, fits its frame to the byte and not the
  envelope of a relay; n1 composes it and n2 sends it again in another room or the
  same; a removal aims at the order of the other node; instants 0 and 1 share a
  second or not.
* `rooms`: three members for rooms of two places make a room full with a ghost
  in it; two sockets, each usable once, let an old connection outlive the rejoin
  of a new one; three ticks with a grace and a TTL of one let a countdown start, be
  interrupted by a rejoin, start again and end. The variable `regime` of
  `MCRooms` keeps restarts and the clock apart: together they are the
  product of two state spaces. The dates of a snapshot that is read back are the
  matter of `TtlRespected` (section 6). Under `"restarts"` one room is
  open at a time; under `"clock"` there are two and everybody holds the post `GV`.
* `rosters`: three regimes again (`MCRosters`): members that replace ghosts and
  are kicked, swept or sent away by the end of the room, nobody having a position;
  two members who move, with every loss of connection; answers that come too late.
* `relay`: one connection that is lost once after an acknowledgement was sent,
  with a second order behind it, gives every interleaving of a lost answer, a
  re-emission and a snapshot; a history of one order is full from the second.
  `Faults` says of each client what may happen to it, `Ends` how the server may
  end a session. New ids are all alike: which one is taken does not matter, and
  `Fresh` chooses one.
* `local_map`: four ways to use a phone, each with what it needs: every tool,
  with double figures and sketches of two vertices and the reticle, which make a
  box; two rooms to go from one to the other, with joins that
  overlap; a module that is heard, silent, detached; a module attached twice with
  one order in between. The page may be killed in every state.

Deadlock is not checked (`CHECK_DEADLOCK FALSE`) where the bounds themselves stop
the system: time, frames, sockets, attempts and connections run out. `ids_one_radio`
checks it: a page can always be loaded again.

**Symmetry** is used in safety runs only, over ids, members, sockets and callsigns
that the specification never chooses among (`rooms`, `rosters`, `replicas`,
`ids_one_radio`).

**Fairness.**

* `OrderRelay`: weak fairness of `Connect` (Socket.IO reconnects by itself with a
  delay bounded by `reconnectionDelayMax`), of the server's handling of what a
  connection brings, of the client's handling of what it receives and of the
  delayed refusal (a timer). Users, faults, time-outs and administrators are
  under no obligation. A connection beyond `MaxConnects` cannot be lost, which
  stands for a link that holds in the end. `Delivered` excuses a client with an
  answer that came late or a quota that was spent since it last connected or
  composed: that this excuse is needed is a finding (section 5).
* `AntiEntropy`: weak fairness of `Beat`, one action for the heartbeat of the
  nodes (`setInterval`) and the arrival of what is on the air: a frame that is
  not lost arrives. At most `MaxLosses` frames are lost and a radio is attached at
  most `MaxAttach` times, which stands for a radio that holds in the end.
* `RadioLink`: weak fairness of `Prepare` (the browser answers its own calls and
  the user chooses or closes the chooser), of `Timeout` (the timer of
  `withTimeout`) and of `Close`, which the code bounds. Nothing is assumed of the
  module: it may never answer.

The other specifications state safety only.

**Refinement.** `GossipSpec` is the specification of `Gossip` under the mapping
`known[n]` to the numbers in the intervals of n, `issued` to what was composed.
That adding a number never loses one, never claims one and joins intervals as it
should is thereby checked in every step of the protocol; that it does so for every
list of intervals is proved (section 6).

## 4. Findings: runs that TLC finds violated

* `rooms_rebound` (`handlers.ts:193`): `markDisconnected` clears `socketId`
  before the test that should protect a member already re-bound, so the end of
  the old connection marks it disconnected.
* `relay_edits` (`socket.ts:83`): an order relayed by the server replaces the
  version held without `mergeOrder`; two members who edit one object at the
  same time end with each other's version until one of them reconnects.

## 5. Other disagreements

Met while modelling. Where a definition is named, it is in the module of that
part, states what the source says, and is violated: it can be seen by giving it to
TLC in place of the properties of the run, with the instance described.

Orders and stores:

* `SaveKeepsTheCard` (`orders.ts:106`; `replicas` with one clock): an expired
  remove takes its target away even when the target was edited after it and shows.
  The comment says what is purged is what the tombstones masked.
* `OwnOrdersUnchanged` (`orders.ts:20`; `zone`): a frame of one's own that comes
  back is newer than the original if its instant was rounded up, and replaces it,
  thinned and quantised.
* `RoomsApart` (`state.ts:207` and `224`; `local_map`): the queue does not know
  the rooms apart; what waited when a room was left goes to the next one.
* `ImportsShow` (`soloOrders.ts:70`; `local_map`): a solo figure older than a clear
  of the room is hidden as soon as it is imported.
* `HeardIsShown` (`meshTransport.ts:46`, `107`; `local_map`): leaving a room makes
  another Map of `state.orders`; the transport goes on writing to the one before.
  The next save then overwrites the radio card without what was heard.
* Two nodes that edit an object with the same timestamp keep different versions
  (`orders.ts:29`), and timestamps rounded on the air make an author and its
  receivers order an edit and a removal of the same second differently.
* A remove or a clear composed in solo after a module was detached deletes from
  the page and the solo card; the radio card brings the object back at the next
  attachment. A plot or line menu that is open when the session is lost composes
  in solo what was meant for the room. A popup stays open after its object is gone.

Mesh:

* `RecoversEverything` (`antiEntropy.ts:1`; `gossip`): the vector says up to where
  an author is complete from the lowest number known; nobody asks for the numbers
  below, while the header says the module catches up with what the radio lost.
* `VectorMatchesStore` (`antiEntropy.ts:91`; `gossip`): « Retire un ordre du suivi,
  après compaction du magasin », but nothing calls `forget`. After a save
  (`meshStore.ts:62`) the vector claims numbers that the store has lost.
* `GoesQuiet` (`antiEntropy.ts:186`; `gossip`): for that reason a node that still
  lacks a compacted number asks for it after every digest, and what it has above that
  number is sent to it again each time, because its own digest stops below. With
  nothing compacted (`Expiring` empty) the property holds on the same instance. The
  range of a request ends at 255 numbers: what is lost behind more than that, all
  compacted, is never recovered.
* `AnchorsAreRead` (`meshTransport.ts:179`; `zone`): « On adopte l'ancre annoncée
  si on n'en avait pas », but a node without a room cannot read any frame
  (`ctx` throws), the announcement included. Two nodes that establish different
  anchors or epochs keep them, and read each other's orders displaced.
* `protocol.md:111` says a frame is never truncated; `encodeOrderFitted` drops
  inner vertices of a line until it fits.
* A transport makes its own governor (`transport/index.ts:63`): what was sent
  before a module was detached is not counted against the duty cycle of the next
  attachment, while `airtime.ts:5` speaks of a sliding hour. Orders that wait for
  a room are lost when the module is detached.
* `NoIdleLink` (`bleRadioImpl.ts:194`; `radio`): nobody disconnects the radio when
  the module is detached by hand, and the link stays open in a page that does not
  use it. Its status events go on rendering the drawer, and wipe « Recherche du
  module… » during the next attempt; `renderMesh` says the module is connected
  as long as it is attached, link or no link.
* Positions of the same second are not replaced by later ones (`positions.ts:36`).

Server and clients:

* `OccupiedIsInhabited` (`handlers.ts:79`; `rooms`): a connection that enters a
  second room leaves its first member connected for ever; its room never counts
  down. A client gets there when it asks again after an acknowledgement timed out.
* `ThrottledIsRetried` (`socket.ts:239`; `relay_delivery` with `Throttled`): after
  `RATE_LIMITED` nothing retries while the connection lasts, although the comment
  of the server says it will be.
* `LateRosterFollows` (`socket.ts:135`; `rosters`): after the time-out of a rejoin
  « Socket.IO va retenter la connexion, on réessaiera », but the socket is
  connected and nothing retries; the phone shows the roster of before.
* `GoneAreTold` (`admin.ts:131`; `rosters`): a member that the end of an old
  connection left without a socket is kicked without being told.
* `NextIsFresh` with two modules used in turn, or with two tabs
  (`orderIds.ts:53`): a reload pairs the number of one with the sequence of the
  other and identifiers are issued again.

## 6. The proofs

All theorems are of the form `Spec => []Inv` or `Spec => [][A]_vars`, or state
what an operator returns, for every value of the constants that the `ASSUME`s
allow.

**`OrderReplicasProofs`.** `TypeCorrect`, `AddWins` (`CardIsAddWins`),
`NoOrderComesBack` (`NoResurrection`), `NothingIsRevealed` (`SaveRevealsNothing`) and
`DeletionsAct` (`DeletionActs`). The inductive invariant is `IInv`: types, plus

* `StoreSeen`: what a node holds, it has merged;
* `AirOf`: what a node has merged is, but for its timestamp, on the air;
* `OneKind`, `RemovesObjects`, `AllWellBuilt`: an id keeps its kind and its
  target, a removal aims at an object, a clear carries its own date;
* `Kept`: a merged version is held, or a newer one of its id is, unless the node
  has compacted something and, for a tombstone, it is older than the TTL;
* `NoResurrection` itself.

`Kept` is where `MaxDelay + Skew[n] <= Ttl` is used: a version that could undo a
compaction is too old to be received. `NoResurrection` alone is not inductive: it
says nothing of the tombstones a compaction has dropped. That a compaction reveals
nothing rests on `StoreIsWellFormed`, that a removal aims at an object: one that
aimed at a live tombstone would take it along when it expires.

The same module proves `FreshWithOneRadio` (`NextIsFresh`) of `OrderIds`, for one tab
and at most one radio module: the invariant says that the counter in memory and the
numbers in storage are ahead of everything issued under their node, and that the
number drawn at random is left behind for good once the module is adopted. The
bound `MaxIssued < Wrap` is an assumption: the sequence has not wrapped.

**`RoomsProofs`.** `RoomsTypeCorrect`; `HoldersDistinct` (`OneHolder`), from
`HolderInv`: names and posts are distinct and every member is in an open room, in
memory and in the snapshot alike (a restart takes the snapshot's word);
`CountdownCorrect` (`CountdownRuns`), from `CountdownInv`, which adds that ids
that name somebody were issued, so that a new member never takes the record of
another; `LimitsKept` (`WithinLimits`), from `LimitInv`: the limits hold in memory
and in the snapshot, and a room that is full is entered only by an eviction, which
takes away at least the member whose place is taken; `EvictionsAdmit`
(`EvictionAdmits`), from the same invariant.

Two theorems have a hypothesis on the ways the server may stop, because without it
the property fails:

* `TtlRespected` (`RoomKeptForTtl`), under `"crash" \notin Restarts`, from `TtlInv`:
  a countdown never started before the room was last busy, in memory and in the
  snapshot. After a crash the countdown of the snapshot may be older than the last
  connection.
* `GraceRespected` (`GraceHonoured`), under `Restarts = {}`, from `GraceInv`: a
  member that is offline is dated from its last connection or later, and its room
  has been busy since. Over a shutdown it fails for a member whose connection has
  entered another room (the finding `OccupiedIsInhabited`): nothing disconnects that
  member before the last snapshot, which keeps the date it was last seen.

**`AntiEntropyProofs`.** First the lists of intervals. `AddIsCorrect`: for every list
of intervals that is in order and leaves gaps, and every number, `Add` gives such a
list, of the numbers held before and that one. Its lemmas follow the branches of the
code: a new interval at the end (`AddsAtTheEnd`), one that grows to either side
without touching its neighbour (`AddsByGrowing`), two that become one
(`AddsByMerging`), one that is inserted (`AddsByInserting`); `SlotIsFirst` says where
the loop stops, from the fact that a set of naturals has a least element.
`AddAllIsCorrect` says the same of a set of numbers added one by one in whatever
order: that the function the fold chooses exists is shown for ever larger subsets.
`DigestIsTrue`: what a digest and a request say of such a list is so.

Then the protocol: `VectorsAreHonest` (`VectorIsHonest`), `AsksOnlyWhatIsMissing`
(`AsksWhatIsMissing`) and `ImplementsGossip` (`GossipSpec`: initial states map to
initial states, each step of the protocol to a step of `Gossip` or a stutter). The
invariant is `GossipInv`: types, of the lists of intervals in particular; every
author of a vector is a node; what a store or a frame holds was composed; and
`Honest`, what a vector claims is in the store or was taken from it by a save, which
needs all the others to survive a frame. `Expiring` is any set: whatever is compacted,
and whenever, the three hold. A request that is due is recomputed after the re-emissions of the same
heartbeat have entered the vector, so that it asks for nothing that this vector
holds.

**`OrderRelayProofs`.** `RelayTypeCorrect` (`TypeOK`), `PendingIsShown`
(`PendingShown`), `OrdersAreKept` (`OwnOrdersKept`), `CardIsInSync` (`InSync`), for
any number of clients, sessions, connections and orders. Almost everything is about
what the two channels of a connection may hold at a time, so the invariant is in
layers, each proved with the help of those before, with one lemma per action and
what it does to one client:

* `Wired`: a lost connection carries nothing, and no more exchanges of orders are
  under way than the client awaits or has given up (`late`);
* `Owned` and `Entered`: a member belongs to one client at most; what may come before
  and after a request to enter, its answer and the news that a session is over, and
  what the server holds of the client meanwhile;
* `Shown`: what is queued in the session, or on its way up, is on the card, so that
  no snapshot can take it off;
* `Matched`: of the exchanges under way, the last is about the head of the queue,
  and if its answer does not ask to try again, that order was accepted or is of a
  session that is over. This is where an answer that comes late could take the
  wrong order out of the queue: the answers of a connection come in the order of its
  requests, and the late ones are counted;
* `Told`: what the room remembers is on the card of whoever listens, or on its way
  as an order, or in the snapshot that is about to be read.

**`LocalMapProofs`.** `LayerFollowsCard` (`DrawnIsVisible`), `SoloCardSurvives`
(`SoloSurvives`), `SoloDeletesLast` (`SoloDeletesForGood`), `HeardIsStored`
(`HeardIsSaved`). The tools and the card are proved apart: a tool touches the card
by the order it submits only, so that every action is a `CardStep`. With their types,
what the layer draws and what the radio brought are inductive. The other two need
what an action still to come would bring to the card: `KeptInv` adds that outside a
room the page holds what the solo card must hold, since it is what the solo card
becomes; `GoneInv` that what was deleted is neither on the solo card nor, in a room,
on the card, in the history or in the queue, that no new order takes its id, and that
nothing on the cards is dated after the clock, so that a clear deletes it all.

**`RadioLinkProofs`.** `FailuresAreClean` (`FailedLinksAreClosed`) and
`DrawerIsRight` (`DrawerTells`), from `LinkInv`: before the chooser has given a
module the attempt has no link to close, during an attempt nothing is attached, no
failure is on display and Bluetooth works. The lemma that matters is
`FailureIsClean`: whichever way an attempt fails, what the drawer says and what is
open agree.

The governor has `BudgetIsKept` (`WithinDutyCycle`), `UrgencyIsRespected`
(`UrgentFirst`) and `UrgentFramesStay` (`OrdersSurvive`), from `GovInv`:

* `QueueOK`: the queue keeps to its limit, with one frame of each coalesced kind;
* `AirInv`: the log as the code would prune it now is what was let out in the last
  window, and its air time is within the budget. `WithinDutyCycle` alone is not
  inductive: the code decides from `sent`, which holds emissions of any age until
  the next one is recorded.

Air time is a cardinality: it adds up over disjoint places, grows with them and
depends on the kinds only (`DisjointPlaces`, `MorePlacesMoreAirTime`,
`SameKindsSameAirTime`). A log that is pruned twice, or later, is pruned once
(`AfterAgain`), which frees time and never takes any (`ForgettingFreesTime`). The
order in which a queue is drained is strict and total, so `InTurn` lists each frame
that leaves once, in that order (`TurnsAreOrdered`); those that leave are all more
urgent than those that stay (`LeavingIsUrgent`) and fit together (`LeavingFits`:
the last of them fits with all before it).

**`ZoneProofs`.** `EveryFrameFits` (`FramesFit`), `AuthorsAreKept` (`AuthorsKept`),
`AllIsReadAsMeant` (`ReadAsMeant`), `MarkersAreNewest` (`ShownIsNewest`) and
`MarkersGoForward` (`MarkersAdvance`), for any number of nodes, any places, any
payloads that the types of the code allow and any budget that an anchor fits in
(`ZoneAssumption`). The invariant is `Core`, what the store and the air hold, and
`Markers`. Of `Core`:

* `AllRight`: every frame on the air fits, and denotes, under the author it is read
  under, an order that was composed; that is what passes from the store of one node
  to that of another, in the envelope of a relay or not. `Stored` says it of stores,
  `Numbered` that an id names one order only;
* `Anchored`: a room that is established was announced, and nothing is sent before;
* `Faithful`: if the anchors on the air are the same, what the stores hold and what
  any reader makes of any frame is as it was meant. `ReadAsMeant` alone is not
  inductive: it allows half a metre, and two encodings could move a place by one.
  The invariant says which number travels: the one composed or, after any number of
  encodings, the next even one (`Up`; `OffsetIs`, `RoundedIs`), so that a second
  encoding changes nothing.

The codec is proved a kind of frame at a time (`EncodeTells`): what a frame says is
what the order says. The width of a geometry is a sum over its vertices
(`SumIsNumber`), and the thinning of a line keeps its ends however often it takes a
vertex away (`DropKeepsEnds`, `ThinnedKeepsEnds`).

**`RostersProofs`.** `RostersFollow` (`RosterFollows`), `MapsFollow`
(`MapFollowsRoster`), `PositionsGoForward` (`PositionsAdvance`) and
`RostersTypeCorrect`, for any number of phones, members, connections and positions,
and whatever trouble (`Faults`) each phone has. `RosterFollows` says something of a
phone whose queue is empty only, and an event that is read changes what the later ones
mean; so the invariant follows the queue to its end. `IInv` is:

* `TypeOK`;
* `Base`, about several phones at once: a connection belongs to one phone, and so
  does a member, be it by the session, by the connection or by an answer on the way
  (`Owns`); ids that name somebody were issued; a connection that speaks for a member
  is alive;
* `Attuned(p)`, for each phone: `Sound`, what the view is on its own (the markers are
  those of the roster, nothing in the buffer is older than what is shown);
  `AnswersFit`, at most one answer is on the way, and a refusal is alone; and
  `Reading`: there are a sequence of views, each what `After` makes of the one before,
  and a sequence of marks, the newest position of each member heard of so far, such
  that every event of the queue can be taken where it comes (`Fits`: a position is of
  a member the phone knows, a newcomer is new, a snapshot holds what is in the buffer)
  and none goes back in time (`Reads`). At the end of the queue the view is `Abreast`
  of the server, if the server still holds the connection.

An action of one phone alone preserves it by `LocalStep`, one of the server by
`ServerStep`, one that a phone and the server do together by `JointStep`. Under these
is what an event at the end of a queue does to who reads it (`RoomIsTold`,
`PhoneHears`), and what is left of the reading when an answer that comes too late is
thrown away (`Late`). `PositionsAdvance` follows from the
marks: what is read or flushed is between what is shown and the newest heard of. That
the marks cannot be read off the view is why they are there: a phone that left has
forgotten what it heard.

**Instead of induction over data.** What a fold, a longest prefix or an order by
counting gives is proved from the well-foundedness of the naturals: a set of them
has a least element, a bounded one a greatest (`Least`, `Greatest`). That the
function a fold or a recursion chooses exists is shown for ever larger arguments, in
the same way (`SumUpToAll`, `ThinningExists`).

**Only model-checked.** Liveness (`Delivered`, `CatchesUp`, `AttemptEnds`) is out of
the prover's reach and stays with TLC, as does every violation. All other properties
of the runs are proved, under the hypotheses stated above.

## 7. Not modelled, and why

* Rate limiters (`server/src/rateLimit.ts`): sequential windows per address, covered
  by unit tests. Wherever they act, the models let a request be refused.
* Coordinates, elevation, geocoding: real numbers and web services.
* The drawing of the map, the grid, the protractor, the message panel, the HTML of
  the administration page and its password: no state that the properties read.
* The service worker and the install gate: caches and prompts of the browser.
* The Meshtastic library: external; what it may answer, and when, is a choice in
  `RadioLink` and `Zone`. The drivers' own code up to it is in `RadioLink`.
* Parts of what is modelled: the truncation to `MAX_STORED` and writes that
  localStorage refuses (`meshStore.ts`, `soloOrders.ts`); the fixed window of
  `acceptOrder`; colours, symbols and measures in the codec, and the byte layout of
  digests and requests; the formula of the time on air, a constant per kind of
  frame; the history of rooms and the preferences in `state.ts`.
* `antiEntropy.forget`, `PositionRegister.expire`, `VersionVector.remove` and
  `highest`: nothing in the application calls them. What the absence of the first
  leads to is in section 5.
* Mixed mode, the server and the mesh feeding one store with every fault of both,
  is covered only as far as `LocalMap` goes: one phone, a server that does not
  fail and a radio that brings whole orders.

## 8. Running

    tlc -config replicas.cfg MCOrderReplicas.tla
    tlapm RoomsProofs.tla

The module and the configuration of each run are in `PROJECT.json`, with the
lines of the source that each definition models (`map`), the mutated definitions
that show that each property can fail (`mutants`), the hazards and the theorems.
