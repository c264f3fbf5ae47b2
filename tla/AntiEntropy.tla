---------------------------- MODULE AntiEntropy ----------------------------
(***************************************************************************)
(* How the nodes of a mesh recover the orders that the radio has lost      *)
(* (client/src/crdt/antiEntropy.ts, driven by meshTransport.ts and by the  *)
(* heartbeat of transport/index.ts).  Each node tells in a digest, author  *)
(* by author, the number up to which it holds everything; who hears it     *)
(* sends what the other lacks and asks for what it lacks itself, after a   *)
(* random delay, unless somebody else has been heard to do so.             *)
(*                                                                         *)
(* Time is counted in heartbeats, and only as ages and delays: how long    *)
(* ago an order was heard, how long a re-emission has to wait.  The text   *)
(* of an order plays no part; its id is all there is of it.                *)
(***************************************************************************)
EXTENDS VersionVector

CONSTANTS Node,
          Phase,            \* the nodes in the order of their heartbeats
          NoReq,            \* no request waits for an author
          DigestInterval,   \* DIGEST_INTERVAL_MS, in heartbeats
          Suppression,      \* RESEND_SUPPRESSION_MS
          Jitter,           \* RESEND_JITTER_MS
          DigestMax,        \* DIGEST_MAX_ENTRIES
          ResendMax,        \* RESEND_MAX_PER_DIGEST
          ReqMax,           \* 255, the largest count of a request
          Start,            \* the first number of each node that is not compacted
          Composed,         \* bound: the number each node composes up to
          MaxLosses,        \* bound: frames the radio loses
          MaxAttach,        \* bound: further connections of the radio of each node
          Expiring          \* bound: the orders that a save may take

ASSUME AntiEntropyAssumption ==
  /\ Phase \in Seq(Node) /\ ToSet(Phase) = Node /\ Len(Phase) = Cardinality(Node)
  /\ DigestInterval \in Nat /\ Suppression \in Nat /\ Jitter \in Nat
  /\ DigestMax \in Nat \ {0} /\ ResendMax \in Nat \ {0} /\ ReqMax \in Nat \ {0}
  /\ Start \in [Node -> Nat] /\ Composed \in [Node -> Nat]
  /\ MaxLosses \in Nat /\ MaxAttach \in [Node -> Nat]

Id == UNION {{n} \X (Start[n] .. Composed[n] - 1) : n \in Node}
Idle == -1     \* nothing waits; otherwise the heartbeats left to wait

VARIABLES orders,     \* the ids in the store of each node
          held,       \* the version vector: a list of intervals per author
          authors,    \* the authors in the vector, in the order they came
          heard,      \* how long ago each order was heard, up to Suppression
          scheduled,  \* the heartbeats each re-emission still waits, or Idle
          requests,   \* the request that waits for each author, or NoReq
          digestAge,  \* how long ago the last digest was, up to the interval
          cursor,     \* where the next digest starts among the authors
          air,        \* frames sent, each with the node it has yet to reach
          turn,       \* how many nodes have had their heartbeat
          composed,   \* how many orders each node has composed
          losses, attaches,
          compacted   \* history: what saves took from a store since its vector started

node == <<orders, held, authors, heard, scheduled, requests, digestAge, cursor, compacted>>
bounds == <<composed, losses, attaches>>
vars == <<node, air, turn, bounds>>

Request == [from : Nat, count : Nat \ {0}, wait : 0 .. Jitter]

Init ==
  /\ orders = [n \in Node |-> {}]
  /\ held = [n \in Node |-> [a \in Node |-> <<>>]]
  /\ authors = [n \in Node |-> <<>>]
  /\ heard = [n \in Node |-> [i \in Id |-> Suppression]]
  /\ scheduled = [n \in Node |-> [i \in Id |-> Idle]]
  /\ requests = [n \in Node |-> [a \in Node |-> NoReq]]
  /\ digestAge = [n \in Node |-> DigestInterval]
  /\ cursor = [n \in Node |-> 0]
  /\ air = {}
  /\ turn = 0
  /\ composed = Start
  /\ losses = 0
  /\ attaches = [n \in Node |-> 0]
  /\ compacted = [n \in Node |-> {}]

Others(n) == Node \ {n}
Emit(n, frames) == {<<f, m>> : f \in frames, m \in Others(n)}

OrderFrame(i) == [kind |-> "order", id |-> i]
DigestFrame(entries) == [kind |-> "digest", entries |-> entries]
ReqFrame(a, from, count) == [kind |-> "req", author |-> a, from |-> from, count |-> count]

IsSuppressed(n, i) == heard[n][i] < Suppression
-----------------------------------------------------------------------------
(***************************************************************************)
(* observe, for every order of I: it is held, it has just been heard, and  *)
(* our own re-emission of it is called off.                                *)
(***************************************************************************)
HeldWith(n, I) ==
  [a \in Node |-> AddAll(held[n][a], {i[2] : i \in {j \in I : j[1] = a}})]

AuthorsWith(n, I) ==
  authors[n] \o SetToSeq({i[1] : i \in I} \ ToSet(authors[n]))

Observe(n, I) ==
  /\ held' = [held EXCEPT ![n] = HeldWith(n, I)]
  /\ authors' = [authors EXCEPT ![n] = AuthorsWith(n, I)]
  /\ heard' = [heard EXCEPT ![n] = [i \in Id |-> IF i \in I THEN 0 ELSE @[i]]]

CalledOff(n, I) == [i \in Id |-> IF i \in I THEN Idle ELSE scheduled[n][i]]

\* sendOrder of a new order: it is merged, sent and observed.
Compose(n) ==
  /\ composed[n] < Composed[n]
  /\ LET i == <<n, composed[n]>>
     IN  /\ orders' = [orders EXCEPT ![n] = @ \cup {i}]
         /\ air' = air \cup Emit(n, {OrderFrame(i)})
         /\ Observe(n, {i})
         /\ scheduled' = [scheduled EXCEPT ![n] = CalledOff(n, {i})]
  /\ composed' = [composed EXCEPT ![n] = @ + 1]
  /\ UNCHANGED <<requests, digestAge, cursor, turn, losses, attaches, compacted>>

\* onPrivate, an order: observed even when it is held already.
OnOrder(m, i) ==
  /\ orders' = [orders EXCEPT ![m] = @ \cup {i}]
  /\ Observe(m, {i})
  /\ scheduled' = [scheduled EXCEPT ![m] = CalledOff(m, {i})]
  /\ UNCHANGED <<requests, digestAge, cursor, compacted>>

(***************************************************************************)
(* onDigest.  First our own deficit: what the sender holds of this author  *)
(* without a gap and we do not; a request that waits already is replaced   *)
(* by one that starts lower.                                               *)
(***************************************************************************)
Deficit(m, e) ==
  LET from == ContiguousUpto(held[m][e.author]) + 1
  IN  [from |-> from, count |-> Min({e.upto - from + 1, ReqMax})]

InDeficit(m, e) ==
  LET waiting == requests[m][e.author]
      d == Deficit(m, e)
  IN  d.count > 0 /\ (waiting = NoReq \/ d.from < waiting.from)

\* Then what the sender lacks and we hold, author by author, within a budget.
Offered(m, entries) ==
  FoldLeft(LAMBDA acc, e :
             LET new == {<<e.author, s>> : s \in
                           HeldAbove(held[m][e.author], e.upto, ResendMax - Cardinality(acc))}
             IN  acc \cup {i \in new : /\ i \in orders[m]
                                       /\ ~IsSuppressed(m, i)
                                       /\ scheduled[m][i] = Idle},
           {}, entries)

OnDigest(m, entries) ==
  LET offered == Offered(m, entries)
      lacking == {e \in ToSet(entries) : InDeficit(m, e)}
  IN  \E wait \in [offered -> 0 .. Jitter],
         reqWait \in [{e.author : e \in lacking} -> 0 .. Jitter] :
        /\ scheduled' = [scheduled EXCEPT ![m] =
             [i \in Id |-> IF i \in offered THEN wait[i] ELSE @[i]]]
        /\ requests' = [requests EXCEPT ![m] =
             [a \in Node |->
                IF \E e \in lacking : e.author = a
                  THEN LET d == Deficit(m, CHOOSE e \in lacking : e.author = a)
                       IN  [from |-> d.from, count |-> d.count, wait |-> reqWait[a]]
                  ELSE @[a]]]
        /\ UNCHANGED <<orders, held, authors, heard, digestAge, cursor, compacted>>

\* onReq: what is asked for and held goes out after a shorter delay, even if
\* it was already waiting.
OnReq(m, r) ==
  LET wanted == Id \cap {<<r.author, s>> : s \in r.from .. r.from + r.count - 1}
      offered == {i \in wanted \cap orders[m] : ~IsSuppressed(m, i)}
  IN  \E wait \in [offered -> 0 .. (Jitter + 2) \div 3] :
        /\ scheduled' = [scheduled EXCEPT ![m] =
             [i \in Id |-> IF i \in offered THEN wait[i] ELSE @[i]]]
        /\ UNCHANGED <<orders, held, authors, heard, requests, digestAge, cursor, compacted>>

Receive(f, m) ==
  /\ <<f, m>> \in air
  /\ air' = air \ {<<f, m>>}
  /\ \/ f.kind = "order" /\ OnOrder(m, f.id)
     \/ f.kind = "digest" /\ OnDigest(m, f.entries)
     \/ f.kind = "req" /\ OnReq(m, f)
  /\ UNCHANGED <<turn, bounds>>

\* The radio loses a frame: out of range, a collision, a full queue.
Lose(f, m) ==
  /\ <<f, m>> \in air
  /\ losses < MaxLosses
  /\ losses' = losses + 1
  /\ air' = air \ {<<f, m>>}
  /\ UNCHANGED <<node, turn, composed, attaches>>
-----------------------------------------------------------------------------
(***************************************************************************)
(* tick: re-emissions and requests whose delay is over, each checked once  *)
(* more; then, when the interval has passed, a digest and our own gaps.    *)
(***************************************************************************)
\* A bug that sends again only what this node composed itself.
ResentOwn(n) == {i \in orders[n] : scheduled[n][i] = 0 /\ ~IsSuppressed(n, i) /\ i[1] = n}

Resent(n) == {i \in orders[n] : scheduled[n][i] = 0 /\ ~IsSuppressed(n, i)}

DueRequests(n) == {a \in Node : requests[n][a] # NoReq /\ requests[n][a].wait = 0}

\* A bug that sends a request as it was scheduled.
AsScheduled(n, a, ranges) ==
  ReqFrame(a, requests[n][a].from, requests[n][a].count)

\* What is left of a request: it starts after what we hold by now.
Rechecked(n, a, ranges) ==
  LET r == requests[n][a]
      from == IF ranges = <<>> THEN r.from ELSE ContiguousUpto(ranges) + 1
  IN  ReqFrame(a, from, r.from + r.count - from)

\* At most DigestMax authors at a time, starting where the last digest ended.
Announced(start, all) ==
  [k \in 1 .. Min({Len(all), DigestMax}) |-> all[((start + k - 1) % Len(all)) + 1]]

DigestOf(vector, list) ==
  DigestFrame([k \in 1 .. Len(list) |->
                 [author |-> list[k], upto |-> ContiguousUpto(vector[list[k]])]])

\* The first gap of each author for whom no request waits, of the first
\* ResendMax gaps.
GapRequests(vector, list, waiting) ==
  LET gaps(a) == Gaps(vector[a])
      before(k) == UNION {{list[j]} \X DOMAIN gaps(list[j]) : j \in 1 .. k - 1}
      asked == {list[k] : k \in {j \in 1 .. Len(list) : /\ gaps(list[j]) # <<>>
                                                      /\ Cardinality(before(j)) < ResendMax}}
  IN  [a \in asked \ waiting |->
         [from |-> gaps(a)[1].from, count |-> Min({gaps(a)[1].count, ReqMax})]]

Tick(n) ==
  LET resent == Resent(n)
      vector == HeldWith(n, resent)
      list == AuthorsWith(n, resent)
      due == DueRequests(n)
      asked == {f \in {Rechecked(n, a, vector[a]) : a \in due} : f.count > 0}
      left == {a \in Node : requests[n][a] # NoReq} \ due
      digest == digestAge[n] = DigestInterval
      gaps == IF digest THEN GapRequests(vector, list, left) ELSE <<>>
      start == cursor[n] % Len(list)
  IN  /\ turn < Len(Phase) /\ Phase[turn + 1] = n
      /\ turn' = turn + 1
      /\ Observe(n, resent)
      /\ scheduled' = [scheduled EXCEPT ![n] =
           [i \in Id |-> IF @[i] = 0 THEN Idle ELSE @[i]]]
      /\ air' = air \cup Emit(n, {OrderFrame(i) : i \in resent} \cup asked
                  \cup (IF digest /\ list # <<>>
                          THEN {DigestOf(vector, IF Len(list) <= DigestMax THEN list
                                                 ELSE Announced(start, list))}
                          ELSE {}))
      /\ digestAge' = [digestAge EXCEPT ![n] = IF digest THEN 0 ELSE @]
      /\ cursor' = [cursor EXCEPT ![n] =
           IF digest /\ Len(list) > DigestMax THEN (start + DigestMax) % Len(list) ELSE @]
      /\ \E wait \in [DOMAIN gaps -> 0 .. Jitter] :
           requests' = [requests EXCEPT ![n] =
             [a \in Node |-> IF a \in DOMAIN gaps
                               THEN [from |-> gaps[a].from, count |-> gaps[a].count,
                                     wait |-> wait[a]]
                             ELSE IF a \in due THEN NoReq ELSE @[a]]]
      /\ UNCHANGED <<orders, bounds, compacted>>

\* The next heartbeat: every node has had this one, and what was sent in it
\* has arrived or is lost.
Advance ==
  /\ turn = Len(Phase)
  /\ air = {}
  /\ turn' = 0
  /\ heard' = [n \in Node |-> [i \in Id |-> Min({heard[n][i] + 1, Suppression})]]
  /\ scheduled' = [n \in Node |-> [i \in Id |->
       IF scheduled[n][i] > 0 THEN scheduled[n][i] - 1 ELSE scheduled[n][i]]]
  /\ requests' = [n \in Node |-> [a \in Node |->
       IF requests[n][a] # NoReq /\ requests[n][a].wait > 0
         THEN [requests[n][a] EXCEPT !.wait = @ - 1] ELSE requests[n][a]]]
  /\ digestAge' = [n \in Node |-> Min({digestAge[n] + 1, DigestInterval})]
  /\ UNCHANGED <<orders, held, authors, cursor, air, bounds, compacted>>

(***************************************************************************)
(* saveMeshOrders compacts the very store the anti-entropy reads, and the  *)
(* vector is not told (forget has no caller).  Which orders go is a matter *)
(* of kinds, targets and dates (modules Orders and OrderReplicas): here    *)
(* any that Expiring allows.  A change of any order, from the radio or     *)
(* not, makes a save wait, so one may come at any time; one that takes     *)
(* nothing changes nothing.                                                *)
(***************************************************************************)
Compacts(n, gone) == orders' = [orders EXCEPT ![n] = @ \ gone]

Save(n) ==
  /\ \E gone \in SUBSET (orders[n] \cap Expiring) \ {{}} :
        /\ Compacts(n, gone)
        /\ compacted' = [compacted EXCEPT ![n] = @ \cup gone]
  /\ UNCHANGED <<held, authors, heard, scheduled, requests, digestAge, cursor, air, turn, bounds>>

\* attachMeshRadio: a save that waits is made, the store is kept and the
\* anti-entropy starts from nothing.
Attach(n) ==
  /\ attaches[n] < MaxAttach[n]
  /\ attaches' = [attaches EXCEPT ![n] = @ + 1]
  /\ held' = [held EXCEPT ![n] = [a \in Node |-> <<>>]]
  /\ authors' = [authors EXCEPT ![n] = <<>>]
  /\ heard' = [heard EXCEPT ![n] = [i \in Id |-> Suppression]]
  /\ scheduled' = [scheduled EXCEPT ![n] = [i \in Id |-> Idle]]
  /\ requests' = [requests EXCEPT ![n] = [a \in Node |-> NoReq]]
  /\ digestAge' = [digestAge EXCEPT ![n] = DigestInterval]
  /\ cursor' = [cursor EXCEPT ![n] = 0]
  /\ \E gone \in SUBSET (orders[n] \cap Expiring) : Compacts(n, gone)
  /\ compacted' = [compacted EXCEPT ![n] = {}]
  /\ UNCHANGED <<air, turn, composed, losses>>

Beat == \/ \E x \in air : Receive(x[1], x[2])
        \/ \E n \in Node : Tick(n)
        \/ Advance

Next == \/ Beat
        \/ \E n \in Node : Compose(n) \/ Save(n) \/ Attach(n)
        \/ \E x \in air : Lose(x[1], x[2])

(***************************************************************************)
(* The heartbeat is an interval of the page, and a frame that is not lost  *)
(* arrives: one beat follows the other.  Nobody has to compose, a radio    *)
(* need not fail.  One beat has finitely many steps, so that fairness of   *)
(* their disjunction is fairness of each of them.  A save is not asked     *)
(* for: what it takes depends on dates that need not come.                 *)
(***************************************************************************)
Fairness == WF_vars(Beat)

Spec == Init /\ [][Next]_vars /\ Fairness
-----------------------------------------------------------------------------
\* The step is the heartbeat of n.
Ticks(n) == turn' = turn + 1 /\ Phase[turn + 1] = n

Holds(n, i) == Has(held[n][i[1]], i[2])

\* The lowest number a node knows of the author of i is above that of i.
BelowItsLowest(n, i) ==
  LET ranges == held[n][i[1]] IN ranges # <<>> /\ i[2] < ranges[1].from

TypeOK ==
  /\ \A n \in Node :
       /\ orders[n] \subseteq Id /\ compacted[n] \subseteq Id
       /\ ToSet(authors[n]) = {a \in Node : held[n][a] # <<>>}
       /\ \A a \in Node : requests[n][a] \in Request \cup {NoReq}
  /\ heard \in [Node -> [Id -> 0 .. Suppression]]
  /\ scheduled \in [Node -> [Id -> Idle .. Jitter]]
  /\ \A x \in air : x[2] \in Node

(***************************************************************************)
(* Types; and whatever the order in which numbers come, the intervals of a *)
(* vector are in order, never touch (versionVector.ts:29) and claim        *)
(* nothing but what the store holds and what a save has taken from it      *)
(* since (antiEntropy.ts:86, meshStore.ts:62): a node that announced what  *)
(* never reached it would stop the others from sending it.                 *)
(***************************************************************************)
VectorIsHonest ==
  /\ TypeOK
  /\ \A n, a \in Node : WellFormed(held[n][a])
  /\ \A n \in Node, i \in Id : Holds(n, i) => i \in orders[n] \cup compacted[n]

(***************************************************************************)
(* A vector claims nothing that the store lacks: « Retire un ordre du      *)
(* suivi, après compaction du magasin » (antiEntropy.ts:91).  It does:     *)
(* nothing calls forget, and a save leaves the vector as it was.           *)
(***************************************************************************)
VectorMatchesStore ==
  \A n \in Node, i \in Id : Holds(n, i) => i \in orders[n]

(***************************************************************************)
(* A request begins with a number that is missing when it leaves, whatever *)
(* has been heard while it waited (antiEntropy.ts:189).                    *)
(***************************************************************************)
AsksWhatIsMissing ==
  [][\A x \in air' \ air : x[1].kind = "req" =>
       \A n \in Node : Ticks(n) => ~Has(held'[n][x[1].author], x[1].from)]_vars

\* The vector implements a set that only grows (module Gossip).
Known(n) == {i \in Id : Holds(n, i)}
Issued == {i \in Id : i[2] < composed[i[1]]}
Vector == INSTANCE Gossip WITH known <- [n \in Node |-> Known(n)], issued <- Issued
GossipSpec == Vector!Spec

(***************************************************************************)
(* Once the radio has stopped losing frames, whatever a node announces and *)
(* still has is in the end heard by everybody, except below the lowest     *)
(* number they know of its author (antiEntropy.ts:107, 139, 242).          *)
(***************************************************************************)
CatchesUp ==
  <>[](\A n, m \in Node, i \in Id :
         Holds(n, i) /\ i \in orders[n] => Holds(m, i) \/ BelowItsLowest(m, i))

(***************************************************************************)
(* Once everything is known nothing is left to send but digests, for a     *)
(* request lives while the range is missing: « la plage a pu être comblée  *)
(* entre-temps » (antiEntropy.ts:186).  It is so until a save takes an     *)
(* order that somebody still lacks: a digest goes on claiming it, its      *)
(* number is asked for and what is above it is sent again, for ever.       *)
(***************************************************************************)
GoesQuiet == <>[](\A x \in air : x[1].kind = "digest")

(***************************************************************************)
(* Whatever a node holds is in the end held by everybody, or was until a   *)
(* save took it: « le filet qui rattrape ce que la radio a perdu »         *)
(* (antiEntropy.ts:1).  It is not: the numbers below the lowest one known  *)
(* are asked for by nobody.                                                *)
(***************************************************************************)
RecoversEverything ==
  <>[](\A n, m \in Node, i \in Id : i \in orders[n] => i \in orders[m] \cup compacted[m])
=============================================================================
