------------------------------ MODULE Governor ------------------------------
(***************************************************************************)
(* What leaves on the radio, and when (client/src/transport/               *)
(* airtimeGovernor.ts, shared/src/mesh/airtime.ts): a queue by priority in *)
(* front of a budget of air time over a sliding window.  A frame is its    *)
(* kind, the instant it was queued and its cost; bytes play no part.       *)
(***************************************************************************)
EXTENDS Integers, Sequences, FiniteSets
SE == INSTANCE SequencesExt

CONSTANTS Window,    \* windowMs
          Budget,    \* budgetMs: the window times the duty cycle
          MaxQueue,  \* maxQueue
          Cost,      \* the air time of each kind of frame
          Sends,     \* bound: the kinds of frame that are submitted
          Interval,  \* MESH_POSITION_INTERVAL_MS
          Horizon    \* bound: the clock stops there

Kind == {"anchor", "order", "position", "digest", "req"}

ASSUME GovernorAssumption ==
  /\ Window \in Nat \ {0} /\ Budget \in Nat /\ MaxQueue \in Nat \ {0}
  /\ Cost \in [Kind -> Nat \ {0}] /\ Sends \subseteq Kind /\ Interval \in Nat \ {0} /\ Horizon \in Nat

VARIABLES now,        \* the clock, counted from the attachment of the radio
          sent,       \* DutyCycleBudget.sent: what left, with its instant
          queue,      \* frames that wait, in the order of the array
          lastPositionSent,
          emitted     \* what this governor let out in the last Window (a history)

governor == <<sent, queue, lastPositionSent, emitted>>

Frame == [kind : Kind, at : 0 .. Horizon]

\* PRIORITIES, and what transmit makes of each kind: an anchor is an alert.
Rank(kind) == CASE kind = "anchor" -> 0 [] kind = "order" -> 1
                [] kind = "position" -> 2 [] OTHER -> 3

\* One frame of these kinds waits at most; orders and requests all do.
Coalesced == {"anchor", "position", "digest"}

NewGovernor ==
  /\ now = 0 /\ sent = <<>> /\ queue = <<>> /\ emitted = <<>>
  /\ lastPositionSent = -4 * Interval     \* 0, long before any clock

\* A transport makes its own governor: nothing is left of the one before.
FreshGovernor ==
  /\ now' = 0 /\ sent' = <<>> /\ queue' = <<>> /\ emitted' = <<>>
  /\ lastPositionSent' = -4 * Interval
-----------------------------------------------------------------------------
\* The milliseconds on the air of the frames of a list that are at these places.
AirTime(frames, places) ==
  Cardinality(UNION {{i} \X (1 .. Cost[frames[i].kind]) : i \in places})

\* A log without the first emissions, those that are not after t.
After(log, t) ==
  LET old == SE!Max({n \in 0 .. Len(log) : \A k \in 1 .. n : log[k].at <= t})
  IN  SubSeq(log, old + 1, Len(log))

\* A bug that forgets an emission while it is still in the window.
PrunedEarly(log) == After(log, now - Window + 1)

\* prune
Pruned(log) == After(log, now - Window)

Used(log) == AirTime(Pruned(log), DOMAIN Pruned(log))
CanSend(log, kind) == Used(log) + Cost[kind] <= Budget

\* record, then send: an emission that fails has been counted all the same.
\* What record prunes once it does not find again at the same instant.
Dispatch(kinds) ==
  LET frames == [k \in DOMAIN kinds |-> [kind |-> kinds[k], at |-> now]]
  IN  /\ sent' = IF kinds = <<>> THEN sent ELSE Pruned(sent) \o frames
      /\ emitted' = emitted \o frames

\* lowestPriorityIndex: the first of the least urgent.
LowestPriorityIndex ==
  CHOOSE i \in DOMAIN queue : \A j \in DOMAIN queue :
    /\ Rank(queue[j].kind) <= Rank(queue[i].kind)
    /\ j < i => Rank(queue[j].kind) < Rank(queue[i].kind)

\* A bug that makes room by dropping the frame that waits longest.
OldestFirst(frame) == Append(Tail(queue), frame)

\* The queue is full: the least urgent frame goes, be it the new one.
Evicted(frame) ==
  IF Rank(queue[LowestPriorityIndex].kind) > Rank(frame.kind)
    THEN Append(SE!RemoveAt(queue, LowestPriorityIndex), frame)
    ELSE queue

Waiting(kind) == {i \in DOMAIN queue : queue[i].kind = kind}

Queued(frame) ==
  IF frame.kind \in Coalesced /\ Waiting(frame.kind) # {}
    THEN [queue EXCEPT ![SE!Min(Waiting(frame.kind))] = frame]
  ELSE IF Len(queue) >= MaxQueue THEN Evicted(frame)
  ELSE Append(queue, frame)

\* A bug that sends at once whenever the budget allows it.
AtOnceIfItFits(kind) == CanSend(sent, kind)

AtOnce(kind) == queue = <<>> /\ CanSend(sent, kind)

Submit(kind) ==
  LET frame == [kind |-> kind, at |-> now]
  IN  IF AtOnce(kind) THEN Dispatch(<<kind>>) /\ UNCHANGED queue
      ELSE queue' = Queued(frame) /\ UNCHANGED <<sent, emitted>>

\* These places, each in its turn.
InTurn(places, before) ==
  [k \in 1 .. Cardinality(places) |->
     CHOOSE i \in places : Cardinality({j \in places : <<j, i>> \in before}) = k - 1]

\* nextIndex: the most urgent, then the oldest, then the first.
Sooner(i, j) ==
  LET a == queue[i]
      b == queue[j]
  IN  \/ Rank(a.kind) < Rank(b.kind)
      \/ Rank(a.kind) = Rank(b.kind) /\ (a.at < b.at \/ (a.at = b.at /\ i < j))

Places == DOMAIN queue
Urgency == {p \in Places \X Places : Sooner(p[1], p[2])}
Arrival == {p \in Places \X Places : p[1] < p[2]}

\* What has left once the frame i leaves, if it does.
UpTo(i) == {j \in Places : <<j, i>> \in Urgency} \cup {i}
Leaving == {i \in Places : Used(sent) + AirTime(queue, UpTo(i)) <= Budget}

\* drain: in that order, until the first frame that does not fit.
Drain ==
  LET next == InTurn(Leaving, Urgency)
      stay == InTurn(Places \ Leaving, Arrival)
  IN  /\ Dispatch([k \in DOMAIN next |-> queue[next[k]].kind])
      /\ queue' = [k \in DOMAIN stay |-> queue[stay[k]]]

\* recommendedPositionIntervalMs
PositionInterval ==
  LET used == Used(sent)
  IN  IF 2 * used < Budget THEN Interval
      ELSE IF 4 * used < 3 * Budget THEN 2 * Interval
      ELSE 4 * Interval

\* What the history keeps when the clock moves to t.
LastWindow(t) == After(emitted, t - Window)

SendPosition ==
  /\ now - lastPositionSent >= PositionInterval
  /\ lastPositionSent' = now
  /\ Submit("position")
-----------------------------------------------------------------------------
(***************************************************************************)
(* However long the frames waited and whatever was pruned, no window holds *)
(* more air time than the budget: « 36 secondes d'émission par heure       *)
(* glissante » (airtime.ts:5).                                             *)
(***************************************************************************)
WithinDutyCycle ==
  AirTime(emitted, {k \in DOMAIN emitted : emitted[k].at > now - Window}) <= Budget

\* One anchor, one digest, one position at most wait (meshTransport.ts:356).
OneOfEachKey == \A k \in Coalesced : Cardinality(Waiting(k)) <= 1
=============================================================================
