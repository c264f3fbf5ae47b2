-------------------------- MODULE OrderRelayProofs --------------------------
(***************************************************************************)
(* Orders by way of the server, for any number of clients, connections,    *)
(* orders and faults: the types, and the three invariants of OrderRelay.   *)
(*                                                                         *)
(* None of the three is inductive.  They rest on what the two channels of  *)
(* a connection may hold at a time, which is said here per client:         *)
(*   Wired    a lost connection carries nothing, and no more exchanges of  *)
(*            orders are under way than the client awaits or has given up; *)
(*   Entered  the phases of entering a room, one answer after the other;   *)
(*   Shown    what is queued or under way in the session is on the card;   *)
(*   Matched  the exchange the client awaits is about the head of its      *)
(*            queue;                                                       *)
(*   Told     what the room remembers is on the card or on its way.        *)
(***************************************************************************)
EXTENDS OrderRelay, FiniteSetTheorems, FunctionTheorems, SequenceTheorems,
        WellFoundedInduction, TLAPS

Packet == [op : {"joined"}, member : Author, recent : Seq(Message)]
            \cup [op : {"rejoined"}, recent : Seq(Message)]
            \cup [op : {"answer"}, answer : Answer]
            \cup [op : {"order"}, msg : Message]
            \cup [op : {"join_refused", "rejoin_refused", "closed", "kicked"}]

\* The answers to a client that enters.
Entries == {"joined", "join_refused", "rejoined", "rejoin_refused"}

\* What a channel carries, and how many packets of a kind.
Ops(s) == {s[k].op : k \in DOMAIN s}
Count(s, op) == Cardinality({k \in DOMAIN s : s[k].op = op})

\* Only packets of the kind op are ahead of one that is of one of the kinds.
Leads(s, op, kinds) ==
  \A k \in DOMAIN s : s[k].op \in kinds => \A n \in 1 .. k - 1 : s[n].op = op

\* The k-th packet is the last of the kind op.
IsLast(s, k, op) == s[k].op = op /\ \A n \in k + 1 .. Len(s) : s[n].op # op

Typed ==
  /\ TypeOK
  /\ outbox \in [Client -> Seq(Message)]
  /\ connects \in [Client -> Nat]
  /\ down \in [Client -> Seq(Packet)]
  /\ \A c \in Client : \A k \in DOMAIN up[c] :
       up[c][k].op = "send" => up[c][k].msg \in composed

-----------------------------------------------------------------------------
Exchanges(c) == Count(up[c], "send") + Count(down[c], "answer")

Wired(c) ==
  /\ ~link[c] => /\ up[c] = << >> /\ down[c] = << >> /\ awaits[c] = {} /\ late[c] = 0
                 /\ bound[c] = None /\ c \notin listening \cup withheld /\ ~conn[c]
  /\ "send" \in awaits[c] => outbox[c] # << >>
  /\ Exchanges(c) <= late[c] + (IF "send" \in awaits[c] THEN 1 ELSE 0)

WireInv == Typed /\ \A c \in Client : Wired(c)

-----------------------------------------------------------------------------
Asking(c) ==
  /\ Leads(up[c], "send", {"join", "rejoin"})
  /\ "join" \in awaits[c] => session[c] = None
  /\ "join" \in Ops(up[c]) =>
       session[c] = None /\ "join" \in awaits[c] /\ Ops(down[c]) \subseteq {"answer"}
  /\ \A k \in DOMAIN up[c] : up[c][k].op = "rejoin" =>
       k = 1 /\ up[c][k].member = session[c]
  /\ "rejoin" \in Ops(up[c]) =>
       /\ down[c] = << >> /\ bound[c] = None /\ session[c] # None
       /\ ~conn[c] /\ c \notin withheld

Refusing(c) ==
  /\ c \in withheld => Ops(down[c]) \subseteq {"answer"}
  /\ c \in withheld \/ "rejoin_refused" \in Ops(down[c]) =>
       session[c] # None /\ session[c] \notin members /\ bound[c] = None

Answering(c) ==
  /\ Leads(down[c], "answer", Entries)
  /\ Ops(down[c]) \cap {"joined", "join_refused"} # {} =>
       session[c] = None /\ "join" \in awaits[c]
  /\ \A k \in DOMAIN down[c] : down[c][k].op = "joined" =>
       /\ down[c][k].member = bound[c]
       /\ \A msg \in composed : msg.order.by # bound[c]
  /\ "rejoined" \in Ops(down[c]) => session[c] # None /\ bound[c] # None /\ ~conn[c]
  /\ \A k \in DOMAIN down[c] : down[c][k].op = "closed" =>
       c \notin listening /\ \A n \in k + 1 .. Len(down[c]) : down[c][n].op = "answer"

Inside(c) ==
  /\ session[c] = None /\ "joined" \notin Ops(down[c]) =>
       c \notin listening /\ Ops(down[c]) \subseteq {"answer", "join_refused"}
  /\ bound[c] = None =>
       c \notin listening /\ Ops(down[c]) \subseteq {"answer", "join_refused", "rejoin_refused"}
  /\ session[c] # None => bound[c] \in {None, session[c]}
  /\ session[c] \in members /\ link[c] /\ bound[c] = None => "rejoin" \in Ops(up[c])

Entered(c) == Asking(c) /\ Refusing(c) /\ Answering(c) /\ Inside(c)

\* A member is the session or the binding of one client at most.
Owned ==
  /\ \A c \in Client : {session[c], bound[c]} \subseteq given \cup {None}
  /\ \A msg \in composed : msg.order.by \in given
  /\ \A c, d \in Client : c # d =>
       {session[c], bound[c]} \cap {session[d], bound[d]} \subseteq {None}

EntryInv == Owned /\ \A c \in Client : Entered(c)

-----------------------------------------------------------------------------
Shown(c) ==
  /\ \A k \in DOMAIN outbox[c] :
       outbox[c][k].order.by = session[c] => outbox[c][k].id \in Held(orders[c])
  /\ \A k \in DOMAIN up[c] : up[c][k].op = "send" /\ up[c][k].msg.order.by = session[c] =>
       up[c][k].msg.id \in Held(orders[c])

-----------------------------------------------------------------------------
\* An answer that does not leave the order in the queue finds it accepted, or
\* of a session that is over.
Settled(c, answer) ==
  \/ answer = "RATE_LIMITED"
  \/ Head(outbox[c]) \in accepted
  \/ Head(outbox[c]).order.by \notin members
  \/ Head(outbox[c]).order.by # session[c]

Matched(c) ==
  "send" \in awaits[c] /\ Exchanges(c) = late[c] + 1 =>
    /\ \A k \in DOMAIN up[c] : IsLast(up[c], k, "send") => up[c][k].msg = Head(outbox[c])
    /\ "send" \notin Ops(up[c]) =>
         \A k \in DOMAIN down[c] : IsLast(down[c], k, "answer") => Settled(c, down[c][k].answer)

KeptInv == OwnOrdersKept /\ \A c \in Client : Matched(c)

-----------------------------------------------------------------------------
Coming(c, i) == \E k \in DOMAIN down[c] : down[c][k].op = "order" /\ down[c][k].msg.id = i

In(recent, i) == \E k \in DOMAIN recent : recent[k].id = i

Told(c) ==
  /\ (session[c] # None /\ bound[c] # None) \/ "joined" \in Ops(down[c]) =>
       c \in listening \/ Ops(down[c]) \cap {"closed", "kicked"} # {}
  /\ c \in listening => \A h \in DOMAIN history :
       /\ conn[c] /\ session[c] # None =>
            history[h].id \in Held(orders[c]) \/ Coming(c, history[h].id)
       /\ \A k \in DOMAIN down[c] :
            /\ down[c][k].op = "joined" =>
                 In(down[c][k].recent, history[h].id) \/ Coming(c, history[h].id)
            /\ down[c][k].op = "rejoined" =>
                 \/ In(down[c][k].recent, history[h].id) \/ Coming(c, history[h].id)
                 \/ history[h].id \in Held(orders[c])

AllShown == \A c \in Client : Shown(c)
AllTold == \A c \in Client : Told(c)

-----------------------------------------------------------------------------
(* A channel to which a packet is added, or whose head is taken.           *)
LEMMA EmptyChannel ==
  ASSUME NEW op
  PROVE  Ops(<< >>) = {} /\ Count(<< >>, op) = 0
<1>1. {k \in DOMAIN << >> : << >>[k].op = op} = {}
  OBVIOUS
<1> QED
  BY <1>1, FS_EmptySet DEF Ops, Count

LEMMA Added ==
  ASSUME NEW T, NEW s \in Seq(T), NEW e \in T
  PROVE  /\ DOMAIN Append(s, e) = DOMAIN s \cup {Len(s) + 1}
         /\ Len(Append(s, e)) = Len(s) + 1
         /\ \A k \in DOMAIN s : k # Len(s) + 1 /\ Append(s, e)[k] = s[k]
         /\ Append(s, e)[Len(s) + 1] = e
         /\ Ops(Append(s, e)) = Ops(s) \cup {e.op}
<1>1. /\ DOMAIN Append(s, e) = DOMAIN s \cup {Len(s) + 1}
      /\ Len(Append(s, e)) = Len(s) + 1
      /\ \A k \in DOMAIN s : k # Len(s) + 1 /\ Append(s, e)[k] = s[k]
      /\ Append(s, e)[Len(s) + 1] = e
  OBVIOUS
<1> DEFINE a == Append(s, e)
           n == Len(s) + 1
<1> HIDE DEF a, n
<1>2. /\ DOMAIN a = DOMAIN s \cup {n}
      /\ \A k \in DOMAIN s : a[k] = s[k]
      /\ a[n] = e
  BY <1>1 DEF a, n
<1>3. Ops(a) = Ops(s) \cup {e.op}
  BY <1>2 DEF Ops
<1> QED
  BY <1>1, <1>3 DEF a

LEMMA Taken ==
  ASSUME NEW T, NEW s \in Seq(T), s # << >>
  PROVE  /\ Head(s) \in T /\ Tail(s) \in Seq(T) /\ Head(s) = s[1] /\ 1 \in DOMAIN s
         /\ Len(Tail(s)) = Len(s) - 1
         /\ \A k \in DOMAIN Tail(s) : k \in Nat /\ k >= 1 /\ k + 1 \in DOMAIN s /\ Tail(s)[k] = s[k + 1]
         /\ \A k \in DOMAIN s : k # 1 => k - 1 \in DOMAIN Tail(s) /\ Tail(s)[k - 1] = s[k]
         /\ Ops(s) = Ops(Tail(s)) \cup {Head(s).op}
<1>1. /\ Head(s) \in T /\ Tail(s) \in Seq(T) /\ Head(s) = s[1] /\ 1 \in DOMAIN s
      /\ Len(Tail(s)) = Len(s) - 1
      /\ \A k \in DOMAIN Tail(s) : k \in Nat /\ k >= 1 /\ k + 1 \in DOMAIN s /\ Tail(s)[k] = s[k + 1]
  OBVIOUS
<1>2. ASSUME NEW k \in DOMAIN s, k # 1
      PROVE  k - 1 \in DOMAIN Tail(s) /\ Tail(s)[k - 1] = s[k]
  <2>1. k \in 2 .. Len(s)
    BY <1>2
  <2>2. k - 1 \in 1 .. Len(Tail(s))
    BY <2>1, <1>1
  <2>3. k - 1 \in DOMAIN Tail(s) /\ k - 1 + 1 = k
    BY <2>1, <2>2, <1>1
  <2> QED
    BY <2>3, <1>1
<1> DEFINE t == Tail(s)
<1> HIDE DEF t
<1>3. /\ \A k \in DOMAIN t : \E n \in DOMAIN s : t[k] = s[n]
      /\ \A k \in DOMAIN s : k # 1 => \E n \in DOMAIN t : t[n] = s[k]
      /\ Head(s) = s[1] /\ 1 \in DOMAIN s
  BY <1>1, <1>2 DEF t
<1>4. Ops(s) \subseteq Ops(t) \cup {Head(s).op}
  BY <1>3 DEF Ops
<1>5. Ops(t) \cup {Head(s).op} \subseteq Ops(s)
  BY <1>3 DEF Ops
<1> QED
  BY <1>1, <1>2, <1>4, <1>5 DEF t

LEMMA Counted ==
  ASSUME NEW T, NEW s \in Seq(T), NEW op
  PROVE  /\ IsFiniteSet({k \in DOMAIN s : s[k].op = op})
         /\ Count(s, op) \in Nat
         /\ Count(s, op) = 0 <=> op \notin Ops(s)
<1> DEFINE its == {k \in DOMAIN s : s[k].op = op}
<1>1. IsFiniteSet(its)
  <2>1. its \subseteq 1 .. Len(s) /\ 1 \in Int /\ Len(s) \in Int
    OBVIOUS
  <2> QED
    BY <2>1, FS_Interval, FS_Subset
<1>2. its = {} <=> op \notin Ops(s)
  BY DEF Ops
<1> HIDE DEF its
<1>3. Cardinality(its) \in Nat /\ (Cardinality(its) = 0 <=> its = {})
  BY <1>1, FS_CardinalityType, FS_EmptySet
<1> QED
  BY <1>1, <1>2, <1>3 DEF Count, its

LEMMA CountAdded ==
  ASSUME NEW T, NEW s \in Seq(T), NEW e \in T, NEW op
  PROVE  Count(Append(s, e), op) = Count(s, op) + (IF e.op = op THEN 1 ELSE 0)
<1> DEFINE a == Append(s, e)
           n == Len(s) + 1
           old == {k \in DOMAIN s : s[k].op = op}
           new == {k \in DOMAIN a : a[k].op = op}
<1>1. IsFiniteSet(old) /\ n \notin old
  <2>1. IsFiniteSet(old)
    BY Counted
  <2>2. n \notin DOMAIN s
    OBVIOUS
  <2> QED
    BY <2>1, <2>2
<1>2. new = IF e.op = op THEN old \cup {n} ELSE old
  <2>1. /\ DOMAIN a = DOMAIN s \cup {n}
        /\ \A k \in DOMAIN s : a[k] = s[k]
        /\ a[n] = e
    BY Added
  <2> HIDE DEF a, n
  <2> QED
    BY <2>1
<1> HIDE DEF old, new, n, a
<1>3. Cardinality(old \cup {n}) = Cardinality(old) + 1 /\ Cardinality(old) \in Nat
  BY <1>1, FS_AddElement, FS_CardinalityType
<1>4. Count(a, op) = Cardinality(new) /\ Count(s, op) = Cardinality(old)
  BY DEF Count, new, old
<1> QED
  BY <1>2, <1>3, <1>4 DEF a

LEMMA CountTaken ==
  ASSUME NEW T, NEW s \in Seq(T), s # << >>, NEW op
  PROVE  Count(s, op) = Count(Tail(s), op) + (IF Head(s).op = op THEN 1 ELSE 0)
<1> DEFINE t == Tail(s)
           old == {k \in DOMAIN s : s[k].op = op}
           rest == old \ {1}
           new == {k \in DOMAIN t : t[k].op = op}
           f == [k \in new |-> k + 1]
<1>1. IsFiniteSet(old) /\ IsFiniteSet(new)
  <2>1. t \in Seq(T)
    BY Taken
  <2> HIDE DEF t
  <2> QED
    BY <2>1, Counted
<1>2. f \in Bijection(new, rest)
  <2>1. ASSUME NEW k \in new PROVE f[k] \in rest /\ k \in Int
    <3>1. k \in Nat /\ k >= 1 /\ k + 1 \in DOMAIN s /\ t[k] = s[k + 1]
      BY Taken
    <3> QED
      BY <3>1
  <2>2. ASSUME NEW k \in rest PROVE \E n \in new : f[n] = k
    <3>1. k \in DOMAIN s /\ k # 1 /\ k \in Int
      OBVIOUS
    <3>2. k - 1 \in DOMAIN t /\ t[k - 1] = s[k]
      BY <3>1, Taken
    <3>3. k - 1 \in new /\ f[k - 1] = k
      BY <3>1, <3>2
    <3> QED
      BY <3>3
  <2>3. \A k, n \in new : f[k] = f[n] => k = n
    BY <2>1
  <2> HIDE DEF new, rest, t, old
  <2>4. f \in [new -> rest]
    BY <2>1
  <2> QED
    BY <2>2, <2>3, <2>4, Fun_IsBij
<1> HIDE DEF f, new, rest
<1>3. Cardinality(new) = Cardinality(rest)
  BY <1>1, <1>2, FS_Bijection DEF ExistsBijection
<1>4. 1 \in old <=> Head(s).op = op
  BY Taken
<1>5. old = IF Head(s).op = op THEN rest \cup {1} ELSE rest
  BY <1>4 DEF rest
<1>6. IsFiniteSet(rest) /\ 1 \notin rest
  BY <1>1, FS_Subset DEF rest
<1>7. Cardinality(rest \cup {1}) = Cardinality(rest) + 1 /\ Cardinality(rest) \in Nat
  BY <1>6, FS_AddElement, FS_CardinalityType
<1>8. Count(s, op) = Cardinality(old) /\ Count(t, op) = Cardinality(new)
  BY DEF Count, new
<1> HIDE DEF old
<1> QED
  BY <1>3, <1>5, <1>7, <1>8

LEMMA LeadsAdded ==
  ASSUME NEW T, NEW s \in Seq(T), NEW e \in T, NEW op, NEW kinds,
         Leads(s, op, kinds), e.op \in kinds => Ops(s) \subseteq {op}
  PROVE  Leads(Append(s, e), op, kinds)
<1> DEFINE a == Append(s, e)
<1>1. /\ DOMAIN a = DOMAIN s \cup {Len(s) + 1}
      /\ \A k \in DOMAIN s : a[k] = s[k]
      /\ a[Len(s) + 1] = e
      /\ DOMAIN s = 1 .. Len(s) /\ Len(s) \in Nat
  BY Added
<1> HIDE DEF a
<1>2. ASSUME NEW k \in DOMAIN s, a[k].op \in kinds, NEW n \in 1 .. k - 1 PROVE a[n].op = op
  BY <1>1, <1>2 DEF Leads
<1>3. ASSUME e.op \in kinds, NEW n \in 1 .. Len(s) PROVE a[n].op = op
  BY <1>1, <1>3 DEF Ops
<1> QED
  BY <1>1, <1>2, <1>3 DEF Leads, a

LEMMA LeadsTaken ==
  ASSUME NEW T, NEW s \in Seq(T), s # << >>, NEW op, NEW kinds, Leads(s, op, kinds)
  PROVE  /\ Leads(Tail(s), op, kinds)
         /\ Head(s).op # op => Ops(Tail(s)) \cap kinds = {}
<1> DEFINE t == Tail(s)
<1>1. /\ \A k \in DOMAIN t : k \in Nat /\ k >= 1 /\ k + 1 \in DOMAIN s /\ t[k] = s[k + 1]
      /\ DOMAIN t = 1 .. Len(t) /\ Len(t) \in Nat /\ Head(s) = s[1]
  BY Taken
<1> HIDE DEF t
<1>2. ASSUME NEW k \in DOMAIN t, t[k].op \in kinds PROVE \A n \in 1 .. k : s[n].op = op
  BY <1>1, <1>2 DEF Leads
<1>3. ASSUME NEW k \in DOMAIN t, t[k].op \in kinds, NEW n \in 1 .. k - 1 PROVE t[n].op = op
  <2>1. n \in DOMAIN t /\ n + 1 \in 1 .. k
    BY <1>1
  <2> QED
    BY <1>1, <1>2, <1>3, <2>1
<1>4. ASSUME NEW k \in DOMAIN t, t[k].op \in kinds PROVE Head(s).op = op
  BY <1>1, <1>2, <1>4
<1> QED
  BY <1>3, <1>4 DEF Leads, Ops, t

LEMMA LastAdded ==
  ASSUME NEW T, NEW s \in Seq(T), NEW e \in T, NEW op,
         NEW k \in DOMAIN Append(s, e), IsLast(Append(s, e), k, op)
  PROVE  IF e.op = op THEN Append(s, e)[k] = e
         ELSE k \in DOMAIN s /\ IsLast(s, k, op) /\ Append(s, e)[k] = s[k]
<1> DEFINE a == Append(s, e)
<1>1. /\ DOMAIN a = DOMAIN s \cup {Len(s) + 1} /\ Len(a) = Len(s) + 1
      /\ \A n \in DOMAIN s : a[n] = s[n]
      /\ a[Len(s) + 1] = e
      /\ DOMAIN s = 1 .. Len(s) /\ Len(s) \in Nat
  BY Added
<1>2. IsLast(a, k, op) /\ k \in DOMAIN a
  OBVIOUS
<1> HIDE DEF a
<1>3. CASE k = Len(s) + 1
  BY <1>1, <1>2, <1>3 DEF IsLast, a
<1>4. CASE k \in DOMAIN s
  <2>1. Len(s) + 1 \in k + 1 .. Len(a)
    BY <1>1, <1>4
  <2>2. e.op # op
    BY <1>1, <1>2, <2>1 DEF IsLast
  <2>3. IsLast(s, k, op)
    BY <1>1, <1>2, <1>4 DEF IsLast
  <2> QED
    BY <1>1, <1>4, <2>2, <2>3 DEF a
<1> QED
  BY <1>1, <1>2, <1>3, <1>4

LEMMA LastTaken ==
  ASSUME NEW T, NEW s \in Seq(T), s # << >>, NEW op,
         NEW k \in DOMAIN Tail(s), IsLast(Tail(s), k, op)
  PROVE  k + 1 \in DOMAIN s /\ IsLast(s, k + 1, op) /\ Tail(s)[k] = s[k + 1]
<1> DEFINE t == Tail(s)
<1>1. /\ \A n \in DOMAIN t : n \in Nat /\ n >= 1 /\ n + 1 \in DOMAIN s /\ t[n] = s[n + 1]
      /\ DOMAIN t = 1 .. Len(t) /\ Len(t) = Len(s) - 1 /\ Len(s) \in Nat
      /\ k \in DOMAIN t /\ IsLast(t, k, op)
  BY Taken
<1> HIDE DEF t
<1>2. ASSUME NEW n \in k + 2 .. Len(s) PROVE s[n].op # op
  <2>1. n - 1 \in k + 1 .. Len(t) /\ n - 1 \in DOMAIN t /\ n - 1 + 1 = n
    BY <1>1
  <2> QED
    BY <1>1, <2>1 DEF IsLast
<1>3. k + 1 + 1 = k + 2
  BY <1>1
<1> QED
  BY <1>1, <1>2, <1>3 DEF IsLast, t

LEMMA LastAlone ==
  ASSUME NEW T, NEW s \in Seq(T), s # << >>, NEW op,
         Head(s).op = op, op \notin Ops(Tail(s))
  PROVE  IsLast(s, 1, op)
<1>1. ASSUME NEW n \in 2 .. Len(s) PROVE s[n].op # op
  <2>1. n \in DOMAIN s /\ n # 1
    OBVIOUS
  <2>2. n - 1 \in DOMAIN Tail(s) /\ Tail(s)[n - 1] = s[n]
    BY <2>1, Taken
  <2> QED
    BY <2>2 DEF Ops
<1>2. Head(s) = s[1]
  BY Taken
<1> QED
  BY <1>1, <1>2 DEF IsLast

-----------------------------------------------------------------------------
(* The first and the last of some numbers, by well-foundedness.            *)
LEMMA Least ==
  ASSUME NEW T, T \subseteq Nat, T # {}
  PROVE  \E x \in T : \A y \in T : x <= y
<1> DEFINE R == OpToRel(<, Nat)
<1>1. IsWellFoundedOn(R, Nat)
  BY NatLessThanWellFounded
<1>2. ASSUME NEW x \in Nat, NEW y \in Nat, y < x PROVE <<y, x>> \in R
  BY <1>2 DEF OpToRel
<1> HIDE DEF R
<1>3. PICK x \in T : \A y \in T : ~ (<<y, x>> \in R)
  BY <1>1, WFMin
<1>4. ASSUME NEW y \in T PROVE x <= y
  <2>1. x \in Nat /\ y \in Nat
    OBVIOUS
  <2>2. ~ (y < x)
    BY <1>2, <1>3, <2>1
  <2> QED
    BY <2>1, <2>2
<1> QED
  BY <1>4

LEMMA Greatest ==
  ASSUME NEW n \in Nat, NEW T, T \subseteq 0 .. n, T # {}
  PROVE  \E x \in T : \A y \in T : y <= x
<1> DEFINE M == {n - x : x \in T}
<1>1. M \subseteq Nat /\ M # {}
  <2>1. \A x \in T : n - x \in Nat
    OBVIOUS
  <2> QED
    BY <2>1
<1>2. PICK m \in M : \A y \in M : m <= y
  <2> HIDE DEF M
  <2> QED
    BY <1>1, Least
<1>3. PICK x \in T : m = n - x
  OBVIOUS
<1>4. ASSUME NEW y \in T PROVE y <= x
  <2>1. n - y \in M /\ x \in 0 .. n /\ y \in 0 .. n
    OBVIOUS
  <2>2. n - x <= n - y
    BY <1>2, <1>3, <2>1
  <2> QED
    BY <2>1, <2>2
<1> QED
  BY <1>4

-----------------------------------------------------------------------------
(* What the stores of a client hold after a merge.                         *)
LEMMA Overwritten ==
  ASSUME NEW store \in Store, NEW msg \in Message
  PROVE  /\ Overwrite(store, msg) \in Store
         /\ Held(store) \cup {msg.id} \subseteq Held(Overwrite(store, msg))
<1>1. msg.id \in Id /\ msg.order \in Order /\ msg.order # Absent
  BY OrdersAssumption DEF Message
<1> QED
  BY <1>1 DEF Overwrite, Store, Held

LEMMA QueueShown ==
  ASSUME NEW store \in Store, NEW queue \in Seq(Message)
  PROVE  /\ WithOutbox(store, queue) \in Store
         /\ Held(store) \subseteq Held(WithOutbox(store, queue))
         /\ \A k \in DOMAIN queue : queue[k].id \in Held(WithOutbox(store, queue))
<1> DEFINE its(i) == {k \in DOMAIN queue : queue[k].id = i}
           result == WithOutbox(store, queue)
<1>1. ASSUME NEW i \in Id, its(i) # {} PROVE result[i] \in Order /\ result[i] # Absent
  <2>1. its(i) \subseteq 0 .. Len(queue) /\ Len(queue) \in Nat
    OBVIOUS
  <2>2. PICK m \in its(i) : \A n \in its(i) : n <= m
    <3> HIDE DEF its
    <3> QED
      BY <1>1, <2>1, Greatest
  <2>3. SE!Max(its(i)) \in its(i)
    <3>1. \E x \in its(i) : \A y \in its(i) : x >= y
      BY <2>1, <2>2
    <3> HIDE DEF its
    <3> QED
      BY <3>1 DEF SE!Max
  <2>4. queue[SE!Max(its(i))] \in Message
    BY <2>3
  <2>5. result[i] = queue[SE!Max(its(i))].order
    BY <1>1 DEF WithOutbox
  <2> QED
    BY <2>4, <2>5, OrdersAssumption DEF Message
<1>2. ASSUME NEW i \in Id, its(i) = {} PROVE result[i] = store[i]
  BY <1>2 DEF WithOutbox
<1>3. DOMAIN result = Id /\ result = [i \in Id |-> result[i]]
  BY DEF WithOutbox
<1>4. ASSUME NEW k \in DOMAIN queue PROVE queue[k].id \in Id /\ its(queue[k].id) # {}
  <2>1. queue[k] \in Message /\ k \in its(queue[k].id)
    OBVIOUS
  <2> HIDE DEF its
  <2> QED
    BY <2>1 DEF Message
<1> HIDE DEF its, result
<1>5. \A i \in Id : result[i] \in Order \cup {Absent}
  BY <1>1, <1>2 DEF Store
<1>6. result \in Store
  BY <1>3, <1>5 DEF Store
<1>7. ASSUME NEW i \in Held(store) PROVE i \in Held(result)
  BY <1>1, <1>2, <1>7 DEF Held
<1>8. \A k \in DOMAIN queue : queue[k].id \in Held(result)
  BY <1>1, <1>4 DEF Held
<1> QED
  BY <1>6, <1>7, <1>8 DEF result

(* Among orders of an id there is a newest, and a first of the newest.     *)
LEMMA NewestExists ==
  ASSUME NEW recent \in Seq(Message), NEW newer, newer \subseteq DOMAIN recent, newer # {}
  PROVE  \E k \in newer : \A n \in newer :
            \/ recent[n].order.ts < recent[k].order.ts
            \/ recent[n].order.ts = recent[k].order.ts /\ k <= n
<1> DEFINE Wins(k, S) == \A n \in S :
             \/ recent[n].order.ts < recent[k].order.ts
             \/ recent[n].order.ts = recent[k].order.ts /\ k <= n
           Fails(m) == \E S : S \subseteq newer /\ S \subseteq 1 .. m /\ S # {}
                              /\ \A k \in S : ~ Wins(k, S)
           bad == {m \in Nat : Fails(m)}
<1>1. newer \subseteq 1 .. Len(recent) /\ Len(recent) \in Nat
  OBVIOUS
<1>2. ASSUME NEW n \in newer PROVE recent[n].order.ts \in Nat /\ n \in Nat
  <2>1. recent[n] \in Message /\ n \in Nat
    BY <1>1
  <2> QED
    BY <2>1 DEF Message, Order
<1>3. SUFFICES ASSUME bad # {} PROVE FALSE
  <2>1. ~ Fails(Len(recent))
    BY <1>1
  <2>2. \E k \in newer : Wins(k, newer)
    <3> HIDE DEF Wins
    <3> QED
      BY <1>1, <2>1
  <2> QED
    BY <2>2
<1>4. PICK m \in bad : \A y \in bad : m <= y
  <2>1. bad \subseteq Nat /\ bad # {}
    BY <1>3
  <2> HIDE DEF bad
  <2> QED
    BY <2>1, Least
<1>5. PICK S : S \subseteq newer /\ S \subseteq 1 .. m /\ S # {} /\ \A k \in S : ~ Wins(k, S)
  OBVIOUS
<1> HIDE DEF Wins
<1>6. m # 0
  BY <1>5
<1>7. m - 1 \in Nat /\ m - 1 \notin bad
  BY <1>4, <1>6
<1>8. ASSUME m \notin S PROVE FALSE
  <2>1. S \subseteq 1 .. m - 1
    BY <1>5, <1>8
  <2> QED
    BY <1>5, <1>7, <2>1
<1>9. m \in S /\ m \in newer
  BY <1>5, <1>8
<1>10. CASE S = {m}
  <2>1. Wins(m, S)
    BY <1>2, <1>9, <1>10 DEF Wins
  <2> QED
    BY <1>5, <1>9, <2>1
<1>11. CASE S # {m}
  <2> DEFINE R == S \ {m}
  <2>1. R \subseteq newer /\ R \subseteq 1 .. m - 1 /\ R # {}
    BY <1>5, <1>9, <1>11
  <2> HIDE DEF R
  <2>2. PICK k \in R : Wins(k, R)
    BY <1>7, <2>1
  <2>3. k \in newer /\ k <= m /\ k \in S
    BY <2>1, <2>2 DEF R
  <2>4. Wins(k, S) \/ Wins(m, S)
    <3>1. /\ recent[k].order.ts \in Nat /\ recent[m].order.ts \in Nat
          /\ \A n \in R : recent[n].order.ts \in Nat
      BY <1>2, <1>9, <2>1, <2>3
    <3>2. \A n \in R : \/ recent[n].order.ts < recent[k].order.ts
                       \/ recent[n].order.ts = recent[k].order.ts /\ k <= n
      BY <2>2 DEF Wins
    <3>3. S = R \cup {m} /\ m \in Nat /\ k \in Nat
      BY <1>2, <1>9, <2>3 DEF R
    <3>4. CASE recent[m].order.ts <= recent[k].order.ts
      <4>1. \/ recent[m].order.ts < recent[k].order.ts
            \/ recent[m].order.ts = recent[k].order.ts /\ k <= m
        BY <2>3, <3>1, <3>4
      <4> QED
        BY <3>2, <3>3, <4>1 DEF Wins
    <3>5. CASE recent[m].order.ts > recent[k].order.ts
      <4>1. ASSUME NEW n \in R PROVE recent[n].order.ts < recent[m].order.ts
        BY <3>1, <3>2, <3>5
      <4> QED
        BY <3>3, <4>1 DEF Wins
    <3> QED
      BY <3>1, <3>4, <3>5
  <2> QED
    BY <1>5, <1>9, <2>3, <2>4
<1> QED
  BY <1>10, <1>11

LEMMA SnapshotMerged ==
  ASSUME NEW store \in Store, NEW recent \in Seq(Message)
  PROVE  /\ WithSnapshot(store, recent) \in Store
         /\ Held(store) \subseteq Held(WithSnapshot(store, recent))
         /\ \A k \in DOMAIN recent : recent[k].id \in Held(WithSnapshot(store, recent))
<1> DEFINE newer(i) == {k \in DOMAIN recent :
                     recent[k].id = i /\ (store[i] # Absent => recent[k].order.ts > store[i].ts)}
           Wins(k, i) == \A n \in newer(i) :
                           \/ recent[n].order.ts < recent[k].order.ts
                           \/ recent[n].order.ts = recent[k].order.ts /\ k <= n
           result == WithSnapshot(store, recent)
<1>1. ASSUME NEW i \in Id, newer(i) # {} PROVE result[i] \in Order /\ result[i] # Absent
  <2>1. newer(i) \subseteq DOMAIN recent
    OBVIOUS
  <2>2. \E k \in newer(i) : Wins(k, i)
    <3> HIDE DEF newer
    <3> QED
      BY <1>1, <2>1, NewestExists
  <2>3. PICK w : w = CHOOSE k \in newer(i) : Wins(k, i)
    OBVIOUS
  <2>4. w \in newer(i)
    <3> HIDE DEF newer, Wins
    <3> QED
      BY <2>2, <2>3
  <2>5. recent[w] \in Message
    BY <2>1, <2>4
  <2>6. result[i] = recent[w].order
    BY <1>1, <2>3 DEF WithSnapshot
  <2> HIDE DEF result, newer, Wins
  <2> QED
    BY <2>5, <2>6, OrdersAssumption DEF Message
<1>2. ASSUME NEW i \in Id, newer(i) = {} PROVE result[i] = store[i]
  BY <1>2 DEF WithSnapshot
<1>3. DOMAIN result = Id /\ result = [i \in Id |-> result[i]]
  BY DEF WithSnapshot
<1>4. ASSUME NEW k \in DOMAIN recent
      PROVE  recent[k].id \in Id /\ (newer(recent[k].id) # {} \/ store[recent[k].id] # Absent)
  <2>1. recent[k] \in Message
    OBVIOUS
  <2>2. store[recent[k].id] = Absent => k \in newer(recent[k].id)
    OBVIOUS
  <2> HIDE DEF newer
  <2> QED
    BY <2>1, <2>2 DEF Message
<1> HIDE DEF newer, result
<1>5. \A i \in Id : result[i] \in Order \cup {Absent}
  BY <1>1, <1>2 DEF Store
<1>6. result \in Store
  BY <1>3, <1>5 DEF Store
<1>7. ASSUME NEW i \in Held(store) PROVE i \in Held(result)
  BY <1>1, <1>2, <1>7 DEF Held
<1>8. ASSUME NEW k \in DOMAIN recent PROVE recent[k].id \in Held(result)
  BY <1>1, <1>2, <1>4 DEF Held
<1> QED
  BY <1>6, <1>7, <1>8 DEF result

(* pushOrder: the last orders of the room, no more than the limit.         *)
LEMMA PushedKeeps ==
  ASSUME NEW recent \in Seq(Message), Len(recent) <= MaxRecent, NEW msg \in Message
  PROVE  /\ Pushed(recent, msg) \in Seq(Message)
         /\ Len(Pushed(recent, msg)) <= MaxRecent
         /\ \A k \in DOMAIN Pushed(recent, msg) :
              \/ Pushed(recent, msg)[k] = msg
              \/ \E n \in DOMAIN recent : Pushed(recent, msg)[k] = recent[n]
<1> DEFINE all == Append(recent, msg)
           texts == {k \in DOMAIN all : all[k].order.kind = "note"}
           at == IF texts = {} THEN 1 ELSE SE!Min(texts)
<1>1. all \in Seq(Message) /\ Len(all) = Len(recent) + 1 /\ DOMAIN all = 1 .. Len(all)
  OBVIOUS
<1>2. \A k \in DOMAIN all : all[k] = msg \/ \E n \in DOMAIN recent : all[k] = recent[n]
  BY Added
<1>3. MaxRecent \in Nat
  BY RelayAssumption
<1> HIDE DEF all
<1>4. CASE Len(all) <= MaxRecent
  BY <1>1, <1>2, <1>4 DEF Pushed, all
<1>5. CASE ~ (Len(all) <= MaxRecent)
  <2>1. at \in 1 .. Len(all)
    <3>1. CASE texts = {}
      BY <1>1, <3>1
    <3>2. CASE texts # {}
      <4>1. texts \subseteq 1 .. Len(all) /\ texts \subseteq Nat
        BY <1>1
      <4> HIDE DEF texts
      <4>2. \E x \in texts : \A y \in texts : x <= y
        BY <3>2, <4>1, Least
      <4>3. SE!Min(texts) \in texts
        BY <4>2 DEF SE!Min
      <4> QED
        BY <3>2, <4>1, <4>3
    <3> QED
      BY <3>1, <3>2
  <2> HIDE DEF at
  <2>2. Pushed(recent, msg) = SubSeq(all, 1, at - 1) \o SubSeq(all, at + 1, Len(all))
    BY <1>5 DEF Pushed, all, at, SE!RemoveAt
  <2> DEFINE a == SubSeq(all, 1, at - 1)
             b == SubSeq(all, at + 1, Len(all))
  <2>3. /\ a \in Seq(Message) /\ Len(a) = at - 1
        /\ \A j \in 1 .. at - 1 : a[j] = all[j]
    BY <1>1, <2>1, SubSeqProperties
  <2>4. /\ b \in Seq(Message) /\ Len(b) = Len(all) - at
        /\ \A j \in 1 .. Len(all) - at : b[j] = all[at + j]
    BY <1>1, <2>1, SubSeqProperties
  <2> HIDE DEF a, b
  <2>5. /\ a \o b \in Seq(Message) /\ Len(a \o b) = Len(all) - 1
        /\ \A j \in 1 .. Len(a \o b) : (a \o b)[j] = IF j <= at - 1 THEN a[j] ELSE b[j - (at - 1)]
    BY <1>1, <2>1, <2>3, <2>4, ConcatProperties
  <2>6. ASSUME NEW j \in 1 .. Len(a \o b)
        PROVE  \E k \in DOMAIN all : (a \o b)[j] = all[k]
    <3>1. CASE j <= at - 1
      <4>1. j \in 1 .. at - 1 /\ j \in DOMAIN all
        BY <1>1, <2>1, <2>5, <3>1
      <4>2. (a \o b)[j] = all[j]
        BY <2>3, <2>5, <3>1, <4>1
      <4> QED
        BY <4>1, <4>2
    <3>2. CASE ~ (j <= at - 1)
      <4>1. j - (at - 1) \in 1 .. Len(all) - at
        BY <1>1, <2>1, <2>5, <3>2
      <4>2. b[j - (at - 1)] = all[j + 1] /\ j + 1 \in DOMAIN all
        BY <1>1, <2>1, <2>4, <2>5, <4>1
      <4> QED
        BY <2>5, <3>2, <4>2
    <3> QED
      BY <3>1, <3>2
  <2> DEFINE p == a \o b
  <2>7. Pushed(recent, msg) = p
    BY <2>2 DEF a, b
  <2>8. DOMAIN p = 1 .. Len(p)
    BY <2>5
  <2>9. Len(p) <= MaxRecent
    BY <1>1, <1>3, <2>5
  <2> HIDE DEF p
  <2>10. \A j \in DOMAIN p : p[j] = msg \/ \E n \in DOMAIN recent : p[j] = recent[n]
    BY <1>2, <2>6, <2>8 DEF p
  <2>11. p \in Seq(Message)
    BY <2>5 DEF p
  <2> QED
    BY <2>7, <2>9, <2>10, <2>11
<1> QED
  BY <1>4, <1>5

-----------------------------------------------------------------------------
(* The packets, and what a step leaves alone.                              *)
LEMMA Requests ==
  /\ [op |-> "join"] \in Request
  /\ \A m \in Author : [op |-> "rejoin", member |-> m] \in Request
  /\ \A msg \in Message : Send(msg) \in Request /\ Send(msg).op = "send" /\ Send(msg).msg = msg
  /\ \A r \in Request :
       /\ r.op \in {"join", "rejoin", "send"}
       /\ r.op = "rejoin" => r.member \in Author
       /\ r.op = "send" => r.msg \in Message
BY DEF Request, Send

LEMMA Packets ==
  /\ \A m \in Author, recent \in Seq(Message) :
       [op |-> "joined", member |-> m, recent |-> recent] \in Packet
  /\ \A recent \in Seq(Message) : [op |-> "rejoined", recent |-> recent] \in Packet
  /\ \A a \in Answer : [op |-> "answer", answer |-> a] \in Packet
  /\ \A msg \in Message : [op |-> "order", msg |-> msg] \in Packet
  /\ \A o \in {"join_refused", "rejoin_refused", "closed", "kicked"} : [op |-> o] \in Packet
  /\ \A p \in Packet :
       /\ p.op \in {"joined", "rejoined", "answer", "order"}
                     \cup {"join_refused", "rejoin_refused", "closed", "kicked"}
       /\ p.op = "joined" => p.member \in Author /\ p.recent \in Seq(Message)
       /\ p.op = "rejoined" => p.recent \in Seq(Message)
       /\ p.op = "answer" => p.answer \in Answer
       /\ p.op = "order" => p.msg \in Message
BY DEF Packet

Untouched(c) ==
  /\ session'[c] = session[c] /\ orders'[c] = orders[c] /\ outbox'[c] = outbox[c]
  /\ conn'[c] = conn[c] /\ awaits'[c] = awaits[c] /\ late'[c] = late[c] /\ link'[c] = link[c]
  /\ up'[c] = up[c] /\ down'[c] = down[c] /\ bound'[c] = bound[c]
  /\ c \in listening' <=> c \in listening
  /\ c \in withheld' <=> c \in withheld

\* The steps of a client and its connection.
Step(c) ==
  \/ Connect(c) \/ Drop(c) \/ Reload(c)
  \/ JoinRoom(c) \/ LeaveRoom(c) \/ Compose(c) \/ TimeOut(c)
  \/ Handle(c)
  \/ ServeJoin(c) \/ ServeRejoin(c) \/ RefuseRejoin(c)

LEMMA FlushTouches ==
  ASSUME Typed, NEW c \in Client, NEW queue, NEW waiting, Flush(c, queue, waiting)
  PROVE  \A d \in Client \ {c} : awaits'[d] = awaits[d] /\ up'[d] = up[d]
BY DEF Typed, TypeOK, Flush

LEMMA StepTouches ==
  ASSUME Typed, NEW c \in Client, Step(c), NEW d \in Client, d # c
  PROVE  Untouched(d)
<1> USE DEF Typed, TypeOK, Untouched
<1>1. CASE Connect(c)
  BY <1>1 DEF Connect, server
<1>2. CASE Drop(c)
  BY <1>2 DEF Drop, Disconnected
<1>3. CASE Reload(c)
  BY <1>3 DEF Reload, Disconnected
<1>4. CASE JoinRoom(c)
  BY <1>4 DEF JoinRoom, server
<1>5. CASE LeaveRoom(c)
  BY <1>5 DEF LeaveRoom, Disconnected, ClearSession
<1>6. CASE Compose(c)
  <2>1. PICK i, o : Submit(c, i, o)
    BY <1>6 DEF Compose
  <2>2. awaits'[d] = awaits[d] /\ up'[d] = up[d]
    BY <2>1, FlushTouches DEF Submit
  <2> QED
    BY <2>1, <2>2 DEF Submit, server
<1>7. CASE TimeOut(c)
  BY <1>7 DEF TimeOut, wire, server
<1>8. CASE OnJoined(c)
  BY <1>8 DEF OnJoined, Received, server
<1>9. CASE OnJoinRefused(c)
  BY <1>9 DEF OnJoinRefused, Received, server
<1>10. CASE OnRejoined(c)
  <2>1. awaits'[d] = awaits[d] /\ up'[d] = up[d]
    BY <1>10, FlushTouches DEF OnRejoined
  <2> QED
    BY <1>10, <2>1 DEF OnRejoined, Received, server
<1>11. CASE OnRejoinRefused(c)
  BY <1>11 DEF OnRejoinRefused, Received, ClearSession, server
<1>12. CASE OnAnswer(c)
  BY <1>12 DEF OnAnswer, Received, server
<1>13. CASE OnOrder(c)
  BY <1>13 DEF OnOrder, Received, server
<1>14. CASE OnClosed(c)
  BY <1>14 DEF OnClosed, Received, ClearSession, server
<1>15. CASE OnKicked(c)
  BY <1>15 DEF OnKicked, Disconnected, ClearSession
<1>16. CASE ServeJoin(c)
  BY <1>16 DEF ServeJoin, Served, Enter, Answered, client
<1>17. CASE ServeRejoin(c)
  BY <1>17 DEF ServeRejoin, Served, Enter, Answered, client
<1>18. CASE RefuseRejoin(c)
  BY <1>18 DEF RefuseRejoin, Answered, client
<1> QED
  BY <1>1, <1>2, <1>3, <1>4, <1>5, <1>6, <1>7, <1>8, <1>9, <1>10, <1>11, <1>12, <1>13, <1>14,
     <1>15, <1>16, <1>17, <1>18 DEF Step, Handle

-----------------------------------------------------------------------------
(* Types, and what a connection may have under way.                        *)
LEMMA Queued ==
  ASSUME Typed, NEW c \in Client
  PROVE  /\ outbox[c] \in Seq(Message)
         /\ \A k \in DOMAIN outbox[c] : outbox[c][k] \in composed
         /\ outbox[c] # << >> =>
              /\ Head(outbox[c]) \in composed /\ Head(outbox[c]) \in Message
              /\ Tail(outbox[c]) \in Seq(Message)
              /\ SE!ToSet(Tail(outbox[c])) \subseteq composed
<1>1. outbox[c] \in Seq(Message) /\ SE!ToSet(outbox[c]) \subseteq composed
  BY DEF Typed, TypeOK
<1>2. \A k \in DOMAIN outbox[c] : outbox[c][k] \in composed
  BY <1>1 DEF SE!ToSet
<1>3. CASE outbox[c] # << >>
  <2>1. /\ Head(outbox[c]) = outbox[c][1] /\ 1 \in DOMAIN outbox[c]
        /\ Head(outbox[c]) \in Message
        /\ Tail(outbox[c]) \in Seq(Message)
        /\ \A k \in DOMAIN Tail(outbox[c]) :
             k + 1 \in DOMAIN outbox[c] /\ Tail(outbox[c])[k] = outbox[c][k + 1]
    BY <1>1, <1>3, Taken
  <2>2. \A k \in DOMAIN Tail(outbox[c]) : Tail(outbox[c])[k] \in composed
    BY <1>2, <2>1
  <2> QED
    BY <1>1, <1>2, <2>1, <2>2 DEF SE!ToSet
<1> QED
  BY <1>1, <1>2, <1>3

LEMMA EmptyIsStore == EmptyStore \in Store
BY DEF EmptyStore, Store

(* The channel of c to the server becomes s, whatever the step.            *)
LEMMA UpTyped ==
  ASSUME Typed, NEW c \in Client, NEW s \in Seq(Request),
         up' = [up EXCEPT ![c] = s], composed \subseteq composed',
         \A k \in DOMAIN s : s[k].op = "send" => s[k].msg \in composed'
  PROVE  /\ up' \in [Client -> Seq(Request)]
         /\ \A d \in Client : \A k \in DOMAIN up'[d] :
              up'[d][k].op = "send" => up'[d][k].msg \in composed'
<1>1. up' \in [Client -> Seq(Request)] /\ up'[c] = s
  BY DEF Typed, TypeOK
<1>2. ASSUME NEW d \in Client, d # c PROVE up'[d] = up[d]
  BY <1>2 DEF Typed, TypeOK
<1> QED
  BY <1>1, <1>2 DEF Typed

\* Something that is not an order is added to it.
LEMMA UpAsked ==
  ASSUME Typed, NEW c \in Client, NEW e \in Request, composed \subseteq composed',
         e.op = "send" => e.msg \in composed',
         up' = [up EXCEPT ![c] = Append(up[c], e)]
  PROVE  /\ up' \in [Client -> Seq(Request)]
         /\ \A d \in Client : \A k \in DOMAIN up'[d] :
              up'[d][k].op = "send" => up'[d][k].msg \in composed'
<1>1. up[c] \in Seq(Request) /\ Append(up[c], e) \in Seq(Request)
  BY DEF Typed, TypeOK
<1>2. \A k \in DOMAIN Append(up[c], e) :
        Append(up[c], e)[k].op = "send" => Append(up[c], e)[k].msg \in composed'
  BY <1>1, Added DEF Typed
<1> QED
  BY <1>1, <1>2, UpTyped

LEMMA ConnectTyped ==
  ASSUME Typed, NEW c \in Client, Connect(c)
  PROVE  Typed'
<1> DEFINE hello == << [op |-> "rejoin", member |-> session[c]] >>
<1>1. connects' \in [Client -> Nat] /\ \A d \in Client : connects'[d] \in 0 .. MaxConnects[d]
  <2>1. connects[c] \in Nat /\ MaxConnects[c] \in Nat /\ connects[c] < MaxConnects[c]
    BY RelayAssumption DEF Typed, Connect
  <2>2. connects' = [connects EXCEPT ![c] = connects[c] + 1]
    BY DEF Connect
  <2>3. connects[c] + 1 \in 0 .. MaxConnects[c]
    BY <2>1
  <2> QED
    BY <2>1, <2>2, <2>3 DEF Typed, TypeOK
<1>2. /\ up' \in [Client -> Seq(Request)]
      /\ \A d \in Client : \A k \in DOMAIN up'[d] :
           up'[d][k].op = "send" => up'[d][k].msg \in composed'
  <2>1. composed' = composed
    BY DEF Connect
  <2>2. CASE session[c] # None
    <3>1. hello \in Seq(Request)
      BY <2>2, Requests DEF Typed, TypeOK
    <3>2. \A k \in DOMAIN hello : hello[k].op # "send"
      OBVIOUS
    <3>3. up' = [up EXCEPT ![c] = hello]
      BY <2>2 DEF Connect
    <3> HIDE DEF hello
    <3> QED
      BY <2>1, <3>1, <3>2, <3>3, UpTyped
  <2>3. CASE session[c] = None
    <3>1. up' = up
      BY <2>3 DEF Connect
    <3> QED
      BY <2>1, <3>1 DEF Typed, TypeOK
  <2> QED
    BY <2>2, <2>3
<1>3. /\ link' \in [Client -> BOOLEAN] /\ conn' \in [Client -> BOOLEAN]
      /\ awaits' \in [Client -> SUBSET {"join", "rejoin", "send"}]
  <2>1. link' \in [Client -> BOOLEAN] /\ conn' \in [Client -> BOOLEAN]
    BY DEF Typed, TypeOK, Connect
  <2>2. awaits' = [awaits EXCEPT ![c] = {"rejoin"}] \/ awaits' = awaits
    BY DEF Connect
  <2>3. {"rejoin"} \in SUBSET {"join", "rejoin", "send"}
    OBVIOUS
  <2> QED
    BY <2>1, <2>2, <2>3, ZenonT(40) DEF Typed, TypeOK
<1>4. UNCHANGED <<session, orders, outbox, late, down, server, composed, excused>>
  BY DEF Connect
<1> QED
  BY <1>1, <1>2, <1>3, <1>4 DEF Typed, TypeOK, server

LEMMA DisconnectedTyped ==
  ASSUME Typed, NEW c \in Client, Disconnected(c)
  PROVE  /\ link' \in [Client -> BOOLEAN] /\ link'[c] = FALSE
         /\ awaits' \in [Client -> SUBSET {"join", "rejoin", "send"}] /\ awaits'[c] = {}
         /\ late' \in [Client -> Nat] /\ late'[c] = 0
         /\ up' \in [Client -> Seq(Request)] /\ up'[c] = << >>
         /\ down' \in [Client -> Seq(Packet)] /\ down'[c] = << >>
         /\ bound' \in [Client -> Author \cup {None}] /\ bound'[c] = None
         /\ listening' \subseteq Client /\ withheld' \subseteq Client /\ excused' \subseteq Client
         /\ c \notin listening' \cup withheld'
         /\ connects' = connects
         /\ \A d \in Client : \A k \in DOMAIN up'[d] :
              up'[d][k].op = "send" => up'[d][k].msg \in composed
BY DEF Typed, TypeOK, Disconnected

LEMMA LossTyped ==
  ASSUME Typed, NEW c \in Client, Drop(c) \/ Reload(c) \/ LeaveRoom(c) \/ OnKicked(c)
  PROVE  Typed' /\ Disconnected(c) /\ conn'[c] = FALSE
<1>1. Disconnected(c)
  BY DEF Drop, Reload, LeaveRoom, OnKicked
<1>2. outbox[c] \in Seq(Message) /\ orders[c] \in Store
  BY Queued DEF Typed, TypeOK
<1>3. WithOutbox(EmptyStore, outbox[c]) \in Store
  BY <1>2, EmptyIsStore, QueueShown
<1>4. orders' \in [Client -> Store] /\ session' \in [Client -> Author \cup {None}]
  <2>1. CASE Drop(c)
    BY <2>1 DEF Typed, TypeOK, Drop
  <2>2. CASE Reload(c)
    BY <1>3, <2>2, EmptyIsStore DEF Typed, TypeOK, Reload
  <2>3. CASE LeaveRoom(c) \/ OnKicked(c)
    <3>1. ClearSession(c)
      BY <2>3 DEF LeaveRoom, OnKicked
    <3> QED
      BY <3>1, EmptyIsStore DEF Typed, TypeOK, ClearSession
  <2> QED
    BY <2>1, <2>2, <2>3
<1>5. conn' \in [Client -> BOOLEAN] /\ conn'[c] = FALSE
  BY DEF Typed, TypeOK, Drop, Reload, LeaveRoom, OnKicked, ClearSession
<1>6. members' \subseteq given /\ UNCHANGED <<outbox, history, given, composed, accepted>>
  BY DEF Typed, TypeOK, Drop, Reload, LeaveRoom, OnKicked
<1> QED
  BY <1>1, <1>4, <1>5, <1>6, DisconnectedTyped DEF Typed, TypeOK

LEMMA JoinRoomTyped ==
  ASSUME Typed, NEW c \in Client, JoinRoom(c)
  PROVE  Typed'
<1> DEFINE e == [op |-> "join"]
<1>1. e \in Request /\ e.op # "send"
  BY Requests
<1>2. up' = [up EXCEPT ![c] = Append(up[c], e)] /\ composed' = composed
  BY DEF JoinRoom
<1> HIDE DEF e
<1>3. /\ up' \in [Client -> Seq(Request)]
      /\ \A d \in Client : \A k \in DOMAIN up'[d] :
           up'[d][k].op = "send" => up'[d][k].msg \in composed'
  BY <1>1, <1>2, UpAsked
<1>4. awaits' \in [Client -> SUBSET {"join", "rejoin", "send"}]
  BY DEF Typed, TypeOK, JoinRoom
<1> QED
  BY <1>3, <1>4 DEF Typed, TypeOK, JoinRoom, server

LEMMA FlushTyped ==
  ASSUME Typed, NEW c \in Client, NEW queue \in Seq(Message),
         NEW waiting \in SUBSET {"join", "rejoin", "send"},
         Flush(c, queue, waiting), composed \subseteq composed',
         queue # << >> => Head(queue) \in composed'
  PROVE  /\ awaits' \in [Client -> SUBSET {"join", "rejoin", "send"}]
         /\ up' \in [Client -> Seq(Request)]
         /\ \A d \in Client : \A k \in DOMAIN up'[d] :
              up'[d][k].op = "send" => up'[d][k].msg \in composed'
<1>1. awaits' \in [Client -> SUBSET {"join", "rejoin", "send"}]
  <2>1. \/ awaits' = [awaits EXCEPT ![c] = waiting]
        \/ awaits' = [awaits EXCEPT ![c] = waiting \cup {"send"}]
    BY DEF Flush
  <2>2. waiting \cup {"send"} \in SUBSET {"join", "rejoin", "send"}
    OBVIOUS
  <2> QED
    BY <2>1, <2>2 DEF Typed, TypeOK
<1>2. CASE up' = up
  BY <1>1, <1>2 DEF Typed, TypeOK
<1>3. CASE queue # << >> /\ up' = [up EXCEPT ![c] = Append(up[c], Send(Head(queue)))]
  <2>1. Head(queue) \in Message
    BY <1>3, Taken
  <2>2. Send(Head(queue)) \in Request /\ Send(Head(queue)).msg = Head(queue)
    BY <2>1, Requests
  <2> QED
    BY <1>1, <1>3, <2>2, UpAsked
<1> QED
  BY <1>2, <1>3 DEF Flush

LEMMA ComposeTyped ==
  ASSUME Typed, NEW c \in Client, Compose(c)
  PROVE  /\ Typed'
         /\ \E i \in Id, o \in Order :
              Submit(c, i, o) /\ o.by = session[c] /\ session[c] # None
<1>1. session[c] \in Author
  BY DEF Typed, TypeOK, Compose
<1>2. PICK t \in Nat :
        \/ /\ Unused # {}
           /\ \/ Submit(c, Fresh(Unused), Object(t, session[c]))
              \/ Submit(c, Fresh(Unused), Note(t, session[c]))
        \/ \E i \in OfKind(orders[c], "object") : Submit(c, i, Object(t, session[c]))
  BY RelayAssumption DEF Compose, Now
<1>3. /\ Object(t, session[c]) \in Order /\ Object(t, session[c]).by = session[c]
      /\ Note(t, session[c]) \in Order /\ Note(t, session[c]).by = session[c]
  BY <1>1 DEF Object, Note, Order, Kind
<1>4. Unused # {} => Fresh(Unused) \in Id
  BY DEF Fresh, Unused
<1>5. \E i \in Id, o \in Order : Submit(c, i, o) /\ o.by = session[c]
  BY <1>2, <1>3, <1>4 DEF OfKind, Held
<1>6. PICK i \in Id, o \in Order : Submit(c, i, o) /\ o.by = session[c]
  BY <1>5
<1> DEFINE msg == [id |-> i, order |-> o]
           queue == Append(outbox[c], msg)
<1>7. msg \in Message
  BY DEF Message
<1>8. composed' = composed \cup {msg} /\ composed' \subseteq Message
  BY <1>6, <1>7 DEF Submit, Typed, TypeOK
<1>9. /\ queue \in Seq(Message)
      /\ queue # << >> /\ Head(queue) \in composed'
      /\ SE!ToSet(queue) \subseteq composed'
  <2>1. /\ outbox[c] \in Seq(Message)
        /\ \A k \in DOMAIN outbox[c] : outbox[c][k] \in composed
    BY Queued
  <2>2. queue \in Seq(Message) /\ queue # << >>
    BY <1>7, <2>1
  <2>3. \A k \in DOMAIN queue : queue[k] \in composed'
    BY <1>7, <1>8, <2>1, Added
  <2>4. Head(queue) = queue[1] /\ 1 \in DOMAIN queue
    BY <2>2, Taken
  <2> QED
    BY <2>2, <2>3, <2>4 DEF SE!ToSet
<1>10. Flush(c, queue, awaits[c])
  BY <1>6 DEF Submit
<1>11. outbox' = [outbox EXCEPT ![c] = queue] /\ orders' = [orders EXCEPT ![c] = Overwrite(orders[c], msg)]
  BY <1>6 DEF Submit
<1>12. awaits[c] \in SUBSET {"join", "rejoin", "send"}
  BY DEF Typed, TypeOK
<1>13. Overwrite(orders[c], msg) \in Store
  BY <1>7, Overwritten DEF Typed, TypeOK
<1>14. UNCHANGED <<session, conn, late, link, connects, down, server>> /\ excused' = excused \ {c}
  BY <1>6 DEF Submit
<1> HIDE DEF queue, msg
<1>15. /\ awaits' \in [Client -> SUBSET {"join", "rejoin", "send"}]
       /\ up' \in [Client -> Seq(Request)]
       /\ \A d \in Client : \A k \in DOMAIN up'[d] :
            up'[d][k].op = "send" => up'[d][k].msg \in composed'
  BY <1>8, <1>9, <1>10, <1>12, FlushTyped
<1>16. outbox' \in [Client -> Seq(Message)]
  BY <1>9, <1>11 DEF Typed
<1>17. \A d \in Client : SE!ToSet(outbox'[d]) \subseteq composed'
  BY <1>8, <1>9, <1>11 DEF Typed, TypeOK
<1>18. orders' \in [Client -> Store]
  BY <1>11, <1>13 DEF Typed, TypeOK
<1>19. composed' \subseteq Message /\ accepted' \subseteq composed'
  BY <1>8, <1>14 DEF Typed, TypeOK, server
<1>20. Typed'
  BY <1>14, <1>15, <1>16, <1>17, <1>18, <1>19 DEF Typed, TypeOK, server
<1> QED
  BY <1>6, <1>20 DEF Compose

LEMMA TimeOutTyped ==
  ASSUME Typed, NEW c \in Client, TimeOut(c)
  PROVE  Typed'
<1>1. late' \in [Client -> Nat] /\ awaits' \in [Client -> SUBSET {"join", "rejoin", "send"}]
  BY DEF Typed, TypeOK, TimeOut
<1> QED
  BY <1>1 DEF Typed, TypeOK, TimeOut, wire, server

(* A client takes the head of its channel.                                 *)
LEMMA ReceivedTyped ==
  ASSUME Typed, NEW c \in Client, down[c] # << >>, Received(c)
  PROVE  /\ down' \in [Client -> Seq(Packet)] /\ down'[c] = Tail(down[c])
         /\ Head(down[c]) \in Packet /\ down[c] \in Seq(Packet)
<1>1. down[c] \in Seq(Packet)
  BY DEF Typed
<1>2. Tail(down[c]) \in Seq(Packet) /\ Head(down[c]) \in Packet
  BY <1>1, Taken
<1> QED
  BY <1>1, <1>2 DEF Typed, Received

LEMMA ServedTyped ==
  ASSUME Typed, NEW c \in Client, up[c] # << >>, Served(c), composed' = composed
  PROVE  /\ up' \in [Client -> Seq(Request)] /\ up'[c] = Tail(up[c])
         /\ \A d \in Client : \A k \in DOMAIN up'[d] :
              up'[d][k].op = "send" => up'[d][k].msg \in composed'
         /\ Head(up[c]) \in Request /\ up[c] \in Seq(Request)
         /\ Head(up[c]).op = "send" => Head(up[c]).msg \in composed
<1>1. up[c] \in Seq(Request)
  BY DEF Typed, TypeOK
<1>2. /\ Tail(up[c]) \in Seq(Request) /\ Head(up[c]) \in Request
      /\ Head(up[c]) = up[c][1] /\ 1 \in DOMAIN up[c]
      /\ \A k \in DOMAIN Tail(up[c]) : k + 1 \in DOMAIN up[c] /\ Tail(up[c])[k] = up[c][k + 1]
  BY <1>1, Taken
<1>3. up' = [up EXCEPT ![c] = Tail(up[c])]
  BY DEF Served
<1>4. \A k \in DOMAIN Tail(up[c]) :
        Tail(up[c])[k].op = "send" => Tail(up[c])[k].msg \in composed'
  BY <1>2 DEF Typed
<1>5. Head(up[c]).op = "send" => Head(up[c]).msg \in composed
  BY <1>2 DEF Typed
<1>6. up'[c] = Tail(up[c])
  BY <1>3 DEF Typed, TypeOK
<1> QED
  BY <1>1, <1>2, <1>3, <1>4, <1>5, <1>6, UpTyped

LEMMA HandledTyped ==
  ASSUME Typed, NEW c \in Client,
         OnJoined(c) \/ OnJoinRefused(c) \/ OnRejoinRefused(c) \/ OnOrder(c) \/ OnClosed(c)
  PROVE  Typed'
<1>1. down[c] # << >> /\ Received(c)
  BY DEF OnJoined, OnJoinRefused, OnRejoinRefused, OnOrder, OnClosed, Comes
<1>2. down' \in [Client -> Seq(Packet)] /\ Head(down[c]) \in Packet
  BY <1>1, ReceivedTyped
<1>3. outbox[c] \in Seq(Message) /\ orders[c] \in Store
  BY Queued DEF Typed, TypeOK
<1>4. awaits' \in [Client -> SUBSET {"join", "rejoin", "send"}]
  <2>1. PICK w \in {awaits[c], awaits[c] \ {"join"}, awaits[c] \ {"rejoin"}} :
          awaits' = [awaits EXCEPT ![c] = w]
    <3>1. CASE OnJoined(c) \/ OnJoinRefused(c) \/ OnRejoinRefused(c)
      BY <3>1 DEF OnJoined, OnJoinRefused, OnRejoinRefused
    <3>2. CASE OnOrder(c) \/ OnClosed(c)
      BY <3>2 DEF OnOrder, OnClosed, Typed, TypeOK
    <3> QED
      BY <3>1, <3>2
  <2>2. awaits \in [Client -> SUBSET {"join", "rejoin", "send"}]
    BY DEF Typed, TypeOK
  <2>3. w \in SUBSET {"join", "rejoin", "send"}
    BY <2>2
  <2> QED
    BY <2>1, <2>2, <2>3
<1>5. conn' \in [Client -> BOOLEAN] /\ session' \in [Client -> Author \cup {None}]
  <2>1. CASE OnJoined(c)
    <3>1. Head(down[c]).member \in Author
      BY <2>1, <1>2, Packets DEF OnJoined, Comes
    <3> QED
      BY <2>1, <3>1 DEF OnJoined, Typed, TypeOK
  <2>2. CASE ~ OnJoined(c)
    BY <2>2 DEF Typed, TypeOK, OnJoinRefused, OnRejoinRefused, OnOrder, OnClosed, ClearSession
  <2> QED
    BY <2>1, <2>2
<1>6. orders' \in [Client -> Store]
  <2>1. CASE OnJoined(c)
    <3>1. Head(down[c]).recent \in Seq(Message)
      BY <2>1, <1>2, Packets DEF OnJoined, Comes
    <3>2. WithSnapshot(EmptyStore, Head(down[c]).recent) \in Store
      BY <3>1, EmptyIsStore, SnapshotMerged
    <3>3. WithOutbox(WithSnapshot(EmptyStore, Head(down[c]).recent), outbox[c]) \in Store
      BY <1>3, <3>2, QueueShown
    <3> QED
      BY <2>1, <3>3 DEF OnJoined, Typed, TypeOK
  <2>2. CASE OnOrder(c)
    <3>1. Head(down[c]).msg \in Message
      BY <2>2, <1>2, Packets DEF OnOrder, Comes
    <3>2. Overwrite(orders[c], Head(down[c]).msg) \in Store
      BY <1>3, <3>1, Overwritten
    <3> QED
      BY <2>2, <3>2 DEF OnOrder, Typed, TypeOK
  <2>3. CASE OnJoinRefused(c) \/ OnRejoinRefused(c) \/ OnClosed(c)
    BY <2>3, EmptyIsStore DEF Typed, TypeOK, OnJoinRefused, OnRejoinRefused, OnClosed, ClearSession
  <2> QED
    BY <2>1, <2>2, <2>3
<1>7. UNCHANGED <<outbox, late, link, connects, excused, up, server, composed>>
  BY DEF OnJoined, OnJoinRefused, OnRejoinRefused, OnOrder, OnClosed
<1> QED
  BY <1>2, <1>4, <1>5, <1>6, <1>7 DEF Typed, TypeOK, server

LEMMA OnRejoinedTyped ==
  ASSUME Typed, NEW c \in Client, OnRejoined(c)
  PROVE  Typed'
<1>1. down[c] # << >> /\ Received(c)
  BY DEF OnRejoined, Comes
<1>2. down' \in [Client -> Seq(Packet)] /\ Head(down[c]) \in Packet
  BY <1>1, ReceivedTyped
<1>3. UNCHANGED <<session, outbox, late, link, connects, excused, server, composed>>
  BY DEF OnRejoined
<1>4. CASE "rejoin" \in awaits[c]
  <2>1. outbox[c] \in Seq(Message) /\ orders[c] \in Store
    BY Queued DEF Typed, TypeOK
  <2>2. Head(down[c]).recent \in Seq(Message)
    BY <1>2, Packets DEF OnRejoined, Comes
  <2>3. WithSnapshot(orders[c], Head(down[c]).recent) \in Store
    BY <2>1, <2>2, SnapshotMerged
  <2>4. WithOutbox(WithSnapshot(orders[c], Head(down[c]).recent), outbox[c]) \in Store
    BY <2>1, <2>3, QueueShown
  <2>5. /\ orders' = [orders EXCEPT ![c] =
                        WithOutbox(WithSnapshot(orders[c], Head(down[c]).recent), outbox[c])]
        /\ conn' = [conn EXCEPT ![c] = TRUE]
        /\ Flush(c, outbox[c], awaits[c] \ {"rejoin"})
    BY <1>4 DEF OnRejoined
  <2>6. orders' \in [Client -> Store] /\ conn' \in [Client -> BOOLEAN]
    BY <2>4, <2>5 DEF Typed, TypeOK
  <2>7. awaits[c] \ {"rejoin"} \in SUBSET {"join", "rejoin", "send"}
    BY DEF Typed, TypeOK
  <2>8. outbox[c] # << >> => Head(outbox[c]) \in composed'
    BY <1>3, Queued
  <2>9. /\ awaits' \in [Client -> SUBSET {"join", "rejoin", "send"}]
        /\ up' \in [Client -> Seq(Request)]
        /\ \A d \in Client : \A k \in DOMAIN up'[d] :
             up'[d][k].op = "send" => up'[d][k].msg \in composed'
    BY <1>3, <2>1, <2>5, <2>7, <2>8, FlushTyped
  <2> QED
    BY <1>2, <1>3, <2>6, <2>9 DEF Typed, TypeOK, server
<1>5. CASE "rejoin" \notin awaits[c]
  BY <1>2, <1>3, <1>5 DEF OnRejoined, Typed, TypeOK, server
<1> QED
  BY <1>4, <1>5

(* An answer that comes with none given up is about the head of the queue. *)
LEMMA AnswerIsAwaited ==
  ASSUME Typed, NEW c \in Client, Wired(c), Comes(c, "answer"), late[c] = 0
  PROVE  /\ "send" \in awaits[c] /\ outbox[c] # << >> /\ Exchanges(c) = 1
         /\ "send" \notin Ops(up[c]) /\ "answer" \notin Ops(Tail(down[c]))
<1>1. /\ down[c] \in Seq(Packet) /\ down[c] # << >> /\ Head(down[c]).op = "answer"
      /\ up[c] \in Seq(Request) /\ Tail(down[c]) \in Seq(Packet)
  BY Taken DEF Typed, TypeOK, Comes
<1>2. Count(down[c], "answer") = Count(Tail(down[c]), "answer") + 1
  BY <1>1, CountTaken
<1>3. /\ Count(Tail(down[c]), "answer") \in Nat /\ Count(up[c], "send") \in Nat
      /\ Count(Tail(down[c]), "answer") = 0 <=> "answer" \notin Ops(Tail(down[c]))
      /\ Count(up[c], "send") = 0 <=> "send" \notin Ops(up[c])
  BY <1>1, Counted
<1>4. Exchanges(c) <= (IF "send" \in awaits[c] THEN 1 ELSE 0)
  BY DEF Wired
<1> QED
  BY <1>2, <1>3, <1>4 DEF Wired, Exchanges

LEMMA OnAnswerTyped ==
  ASSUME Typed, NEW c \in Client, Wired(c), OnAnswer(c)
  PROVE  Typed'
<1> DEFINE queue == Tail(outbox[c])
<1>1. down[c] # << >> /\ Received(c) /\ Comes(c, "answer")
  BY DEF OnAnswer, Comes
<1>2. down' \in [Client -> Seq(Packet)] /\ Head(down[c]) \in Packet
  BY <1>1, ReceivedTyped
<1>3. UNCHANGED <<session, orders, conn, link, connects, server, composed>>
  BY DEF OnAnswer
<1>4. CASE late[c] > 0
  <2>1. late' = [late EXCEPT ![c] = late[c] - 1] /\ UNCHANGED <<outbox, awaits, up, excused>>
    BY <1>4 DEF OnAnswer
  <2>2. late[c] - 1 \in Nat
    BY <1>4 DEF Typed, TypeOK
  <2>3. late' \in [Client -> Nat]
    BY <2>1, <2>2 DEF Typed, TypeOK
  <2> QED
    BY <1>2, <1>3, <2>1, <2>3 DEF Typed, TypeOK, server
<1>5. CASE ~ (late[c] > 0)
  <2>1. outbox[c] # << >>
    BY <1>1, <1>5, AnswerIsAwaited DEF Typed, TypeOK
  <2>2. late' = late
    BY <1>5 DEF OnAnswer
  <2>3. CASE ~ Definitive(Head(down[c]).answer)
    <3>1. /\ awaits' = [awaits EXCEPT ![c] = awaits[c] \ {"send"}]
          /\ excused' = excused \cup {c} /\ UNCHANGED <<outbox, up>>
      BY <1>5, <2>3 DEF OnAnswer
    <3>2. awaits' \in [Client -> SUBSET {"join", "rejoin", "send"}]
      BY <3>1 DEF Typed, TypeOK
    <3> QED
      BY <1>2, <1>3, <2>2, <3>1, <3>2 DEF Typed, TypeOK, server
  <2>4. CASE Definitive(Head(down[c]).answer)
    <3>1. /\ outbox' = [outbox EXCEPT ![c] = queue]
          /\ awaits' = [awaits EXCEPT ![c] = IF queue = << >> THEN awaits[c] \ {"send"} ELSE awaits[c]]
          /\ excused' = excused
          /\ \/ up' = up
             \/ queue # << >> /\ up' = [up EXCEPT ![c] = Append(up[c], Send(Head(queue)))]
      BY <1>5, <2>4 DEF OnAnswer
    <3>2. queue \in Seq(Message) /\ SE!ToSet(queue) \subseteq composed
      BY <2>1, Queued
    <3>3. queue # << >> => Head(queue) \in Message /\ Head(queue) \in composed
      <4>1. \A k \in DOMAIN queue : queue[k] \in composed
        BY <3>2 DEF SE!ToSet
      <4>2. queue # << >> => Head(queue) = queue[1] /\ 1 \in DOMAIN queue /\ Head(queue) \in Message
        BY <3>2, Taken
      <4> QED
        BY <4>1, <4>2
    <3> HIDE DEF queue
    <3>4. /\ up' \in [Client -> Seq(Request)]
          /\ \A d \in Client : \A k \in DOMAIN up'[d] :
               up'[d][k].op = "send" => up'[d][k].msg \in composed'
      <4>1. CASE up' = up
        BY <1>3, <4>1 DEF Typed, TypeOK
      <4>2. CASE queue # << >> /\ up' = [up EXCEPT ![c] = Append(up[c], Send(Head(queue)))]
        <5>1. Send(Head(queue)) \in Request /\ Send(Head(queue)).msg \in composed'
          BY <1>3, <3>3, <4>2, Requests
        <5> QED
          BY <1>3, <4>2, <5>1, UpAsked
      <4> QED
        BY <3>1, <4>1, <4>2
    <3>5. outbox' \in [Client -> Seq(Message)] /\ \A d \in Client : SE!ToSet(outbox'[d]) \subseteq composed
      BY <3>1, <3>2 DEF Typed, TypeOK
    <3>6. awaits' \in [Client -> SUBSET {"join", "rejoin", "send"}]
      <4>1. PICK w \in {awaits[c], awaits[c] \ {"send"}} : awaits' = [awaits EXCEPT ![c] = w]
        BY <3>1
      <4>2. awaits \in [Client -> SUBSET {"join", "rejoin", "send"}]
        BY DEF Typed, TypeOK
      <4>3. w \in SUBSET {"join", "rejoin", "send"}
        BY <4>2
      <4> QED
        BY <4>1, <4>2, <4>3
    <3>7. late' \in [Client -> Nat] /\ excused' \subseteq Client
      BY <2>2, <3>1 DEF Typed, TypeOK
    <3>8. TypeOK'
      BY <1>3, <3>4, <3>5, <3>6, <3>7 DEF Typed, TypeOK, server
    <3> QED
      BY <1>2, <1>3, <3>4, <3>5, <3>8 DEF Typed
  <2> QED
    BY <2>3, <2>4
<1> QED
  BY <1>4, <1>5

(* The server answers on the channel of c.                                 *)
LEMMA AnsweredTyped ==
  ASSUME Typed, NEW c \in Client, NEW p \in Packet
  PROVE  /\ Answered(down, c, p) \in [Client -> Seq(Packet)]
         /\ Answered(down, c, p)[c] = Append(down[c], p)
<1>1. down[c] \in Seq(Packet)
  BY DEF Typed
<1>2. Append(down[c], p) \in Seq(Packet)
  BY <1>1
<1> QED
  BY <1>2 DEF Typed, Answered

LEMMA ServeJoinTyped ==
  ASSUME Typed, NEW c \in Client, ServeJoin(c)
  PROVE  Typed'
<1> DEFINE m == Fresh(Author \ given)
<1>1. up[c] # << >> /\ Served(c)
  BY DEF ServeJoin, Asked
<1>2. UNCHANGED <<client, link, connects, excused, withheld, history, accepted, composed>>
  BY DEF ServeJoin
<1>3. /\ up' \in [Client -> Seq(Request)]
      /\ \A d \in Client : \A k \in DOMAIN up'[d] :
           up'[d][k].op = "send" => up'[d][k].msg \in composed'
  BY <1>1, <1>2, ServedTyped
<1>4. CASE /\ given # Author /\ Enter(c, m)
           /\ members' = members \cup {m} /\ given' = given \cup {m}
           /\ down' = Answered(down, c, [op |-> "joined", member |-> m, recent |-> Recent(history, m)])
  <2>1. m \in Author
    BY <1>4 DEF Fresh, Typed, TypeOK
  <2>2. [op |-> "joined", member |-> m, recent |-> Recent(history, m)] \in Packet
    BY <2>1, Packets DEF Recent, Typed, TypeOK
  <2> HIDE DEF m
  <2>3. down' \in [Client -> Seq(Packet)]
    BY <1>4, <2>2, AnsweredTyped
  <2>4. bound' \in [Client -> Author \cup {None}] /\ listening' \subseteq Client
    BY <1>4, <2>1 DEF Enter, Typed, TypeOK
  <2>5. members' \subseteq given' /\ given' \subseteq Author
    BY <1>4, <2>1 DEF Typed, TypeOK
  <2> QED
    BY <1>2, <1>3, <2>3, <2>4, <2>5 DEF Typed, TypeOK, client
<1>5. CASE /\ down' = Answered(down, c, [op |-> "join_refused"])
           /\ UNCHANGED <<bound, listening, members, given>>
  <2>1. down' \in [Client -> Seq(Packet)]
    BY <1>5, Packets, AnsweredTyped
  <2> QED
    BY <1>2, <1>3, <1>5, <2>1 DEF Typed, TypeOK, client
<1> QED
  BY <1>4, <1>5 DEF ServeJoin

LEMMA ServeRejoinTyped ==
  ASSUME Typed, NEW c \in Client, ServeRejoin(c)
  PROVE  Typed'
<1> DEFINE m == Head(up[c]).member
           p == [op |-> "rejoined", recent |-> Recent(history, m)]
<1>1. up[c] # << >> /\ Served(c)
  BY DEF ServeRejoin, Asked
<1>2. UNCHANGED <<client, link, connects, excused, members, history, given, accepted, composed>>
  BY DEF ServeRejoin
<1>3. /\ up' \in [Client -> Seq(Request)] /\ Head(up[c]) \in Request
      /\ \A d \in Client : \A k \in DOMAIN up'[d] :
           up'[d][k].op = "send" => up'[d][k].msg \in composed'
  BY <1>1, <1>2, ServedTyped
<1>4. m \in Author
  BY <1>3, Requests DEF ServeRejoin, Asked
<1>5. p \in Packet
  BY Packets DEF Recent, Typed, TypeOK
<1> HIDE DEF m, p
<1>6. CASE /\ Enter(c, m) /\ down' = Answered(down, c, p) /\ withheld' = withheld
  <2>1. down' \in [Client -> Seq(Packet)]
    BY <1>5, <1>6, AnsweredTyped
  <2>2. bound' \in [Client -> Author \cup {None}] /\ listening' \subseteq Client
    BY <1>4, <1>6 DEF Enter, Typed, TypeOK
  <2> QED
    BY <1>2, <1>3, <1>6, <2>1, <2>2 DEF Typed, TypeOK, client
<1>7. CASE withheld' = withheld \cup {c} /\ UNCHANGED <<bound, listening, down>>
  BY <1>2, <1>3, <1>7 DEF Typed, TypeOK, client
<1> QED
  BY <1>6, <1>7 DEF ServeRejoin, m, p

LEMMA RefuseRejoinTyped ==
  ASSUME Typed, NEW c \in Client, RefuseRejoin(c)
  PROVE  Typed'
<1>1. down' \in [Client -> Seq(Packet)]
  BY Packets, AnsweredTyped DEF RefuseRejoin
<1> QED
  BY <1>1 DEF RefuseRejoin, Typed, TypeOK, client

LEMMA ServeSendTyped ==
  ASSUME Typed, NEW c \in Client, ServeSend(c)
  PROVE  /\ Typed'
         /\ UNCHANGED <<client, link, connects, excused, bound, listening, withheld, members, given,
                        composed>>
         /\ up[c] # << >> /\ Served(c) /\ Head(up[c]).op = "send"
         /\ Head(up[c]).msg \in Message /\ Head(up[c]).msg \in composed
         /\ \A d \in Client \ {c} : up'[d] = up[d]
         /\ \E answer \in Answers(c, Head(up[c]).msg) :
              /\ answer \in Answer
              /\ down'[c] = Append(down[c], [op |-> "answer", answer |-> answer])
              /\ IF answer = "ok"
                 THEN /\ history' = Pushed(history, Head(up[c]).msg)
                      /\ accepted' = accepted \cup {Head(up[c]).msg}
                      /\ \A d \in Client \ {c} : down'[d] =
                           IF d \in listening
                           THEN Append(down[d], [op |-> "order", msg |-> Head(up[c]).msg])
                           ELSE down[d]
                 ELSE /\ UNCHANGED <<history, accepted>>
                      /\ \A d \in Client \ {c} : down'[d] = down[d]
<1> DEFINE msg == Head(up[c]).msg
           relay == [op |-> "order", msg |-> msg]
<1>1. up[c] # << >> /\ Served(c) /\ Head(up[c]).op = "send"
  BY DEF ServeSend, Asked
<1>2. UNCHANGED <<client, link, connects, excused, bound, listening, withheld, members, given, composed>>
  BY DEF ServeSend
<1>3. /\ up' \in [Client -> Seq(Request)] /\ Head(up[c]) \in Request
      /\ \A d \in Client : \A k \in DOMAIN up'[d] :
           up'[d][k].op = "send" => up'[d][k].msg \in composed'
      /\ msg \in composed
  BY <1>1, <1>2, ServedTyped
<1>4. msg \in Message
  BY <1>1, <1>3, Requests
<1>5. PICK answer \in Answers(c, msg) :
        IF answer = "ok"
        THEN /\ history' = Pushed(history, msg)
             /\ accepted' = accepted \cup {msg}
             /\ down' = Answered(Relayed(c, relay), c, [op |-> "answer", answer |-> answer])
        ELSE /\ down' = Answered(down, c, [op |-> "answer", answer |-> answer])
             /\ UNCHANGED <<history, accepted>>
  BY DEF ServeSend
<1>6. answer \in Answer
  BY DEF Answers, Answer
<1> DEFINE reply == [op |-> "answer", answer |-> answer]
<1>7. reply \in Packet /\ relay \in Packet
  BY <1>4, <1>6, Packets
<1>8. \A d \in Client \ {c} : up'[d] = up[d]
  BY <1>1 DEF Served, Typed, TypeOK
<1> HIDE DEF msg, relay, reply
<1>9. CASE answer = "ok"
  <2>1. /\ history' = Pushed(history, msg) /\ accepted' = accepted \cup {msg}
        /\ down' = Answered(Relayed(c, relay), c, reply)
    BY <1>5, <1>9 DEF reply
  <2>2. Relayed(c, relay) \in [Client -> Seq(Packet)] /\ Relayed(c, relay)[c] = down[c]
    <3>1. \A d \in Client : down[d] \in Seq(Packet) /\ Append(down[d], relay) \in Seq(Packet)
      BY <1>7 DEF Typed
    <3> QED
      BY <3>1 DEF Relayed
  <2>3. Append(down[c], reply) \in Seq(Packet)
    BY <1>7 DEF Typed
  <2>4. down' \in [Client -> Seq(Packet)] /\ down'[c] = Append(down[c], reply)
    BY <2>1, <2>2, <2>3 DEF Answered
  <2>5. \A d \in Client \ {c} : down'[d] = IF d \in listening THEN Append(down[d], relay) ELSE down[d]
    BY <2>1, <2>2 DEF Answered, Relayed
  <2>6. history' \in Seq(Message) /\ Len(history') <= MaxRecent
    BY <1>4, <2>1, PushedKeeps DEF Typed, TypeOK
  <2>7. accepted' \subseteq composed'
    BY <1>2, <1>3, <2>1 DEF Typed, TypeOK
  <2>8. Typed'
    BY <1>2, <1>3, <2>4, <2>6, <2>7 DEF Typed, TypeOK, client
  <2> QED
    BY <1>1, <1>2, <1>3, <1>4, <1>6, <1>8, <1>9, <2>1, <2>4, <2>5, <2>8 DEF msg, relay, reply
<1>10. CASE answer # "ok"
  <2>1. down' = Answered(down, c, reply) /\ UNCHANGED <<history, accepted>>
    BY <1>5, <1>10 DEF reply
  <2>2. down' \in [Client -> Seq(Packet)] /\ down'[c] = Append(down[c], reply)
    BY <1>7, <2>1, AnsweredTyped
  <2>3. \A d \in Client \ {c} : down'[d] = down[d]
    BY <2>1 DEF Answered, Typed
  <2>4. Typed'
    BY <1>2, <1>3, <2>1, <2>2 DEF Typed, TypeOK, client
  <2> QED
    BY <1>1, <1>2, <1>3, <1>4, <1>6, <1>8, <1>10, <2>1, <2>2, <2>3, <2>4 DEF msg, relay, reply
<1> QED
  BY <1>9, <1>10

LEMMA CloseRoomTyped ==
  ASSUME Typed, CloseRoom
  PROVE  /\ Typed'
         /\ UNCHANGED <<client, link, connects, excused, up, bound, withheld, given, accepted, composed>>
         /\ members' = {} /\ history' = << >> /\ listening' = {}
         /\ \A d \in Client :
              down'[d] = IF d \in listening THEN Append(down[d], [op |-> "closed"]) ELSE down[d]
<1> DEFINE p == [op |-> "closed"]
<1>1. p \in Packet
  BY Packets
<1>2. down' = [d \in Client |-> IF d \in listening THEN Append(down[d], p) ELSE down[d]]
  BY DEF CloseRoom
<1> HIDE DEF p
<1>3. \A d \in Client : Append(down[d], p) \in Seq(Packet) /\ down[d] \in Seq(Packet)
  BY <1>1 DEF Typed
<1>4. down' \in [Client -> Seq(Packet)]
  BY <1>2, <1>3
<1>5. /\ members' = {} /\ history' = << >> /\ listening' = {}
      /\ UNCHANGED <<client, link, connects, excused, up, bound, withheld, given, accepted, composed>>
  BY DEF CloseRoom
<1>6. history' \in Seq(Message) /\ Len(history') <= MaxRecent
  BY <1>5, RelayAssumption
<1>7. Typed'
  BY <1>4, <1>5, <1>6 DEF Typed, TypeOK, client
<1> QED
  BY <1>2, <1>5, <1>7 DEF p

LEMMA KickTyped ==
  ASSUME Typed, NEW m, Kick(m)
  PROVE  /\ Typed'
         /\ UNCHANGED <<client, link, connects, excused, bound, withheld, history, given, accepted, composed>>
         /\ members' = members \ {m}
         /\ \A d \in Client :
              IF d \in listening /\ bound[d] = m
              THEN /\ down'[d] = Append(down[d], [op |-> "kicked"]) /\ up'[d] = << >>
                   /\ d \notin listening'
              ELSE down'[d] = down[d] /\ up'[d] = up[d] /\ (d \in listening' <=> d \in listening)
<1> DEFINE p == [op |-> "kicked"]
           its == {c \in listening : bound[c] = m}
<1>1. p \in Packet
  BY Packets
<1>2. /\ down' = [c \in Client |-> IF c \in its THEN Append(down[c], p) ELSE down[c]]
      /\ up' = [c \in Client |-> IF c \in its THEN << >> ELSE up[c]]
      /\ listening' = listening \ its
  BY DEF Kick
<1> HIDE DEF p
<1>3. \A d \in Client : Append(down[d], p) \in Seq(Packet) /\ down[d] \in Seq(Packet)
  BY <1>1 DEF Typed
<1>4. down' \in [Client -> Seq(Packet)]
  BY <1>2, <1>3
<1>5. up' \in [Client -> Seq(Request)]
  BY <1>2 DEF Typed, TypeOK
<1>6. /\ members' = members \ {m}
      /\ UNCHANGED <<client, link, connects, excused, bound, withheld, history, given, accepted, composed>>
  BY DEF Kick
<1>7. \A d \in Client : \A k \in DOMAIN up'[d] : up'[d][k].op = "send" => up'[d][k].msg \in composed'
  <2>1. \A k \in DOMAIN << >> : FALSE
    OBVIOUS
  <2> QED
    BY <1>2, <1>6, <2>1 DEF Typed
<1>8. Typed'
  BY <1>2, <1>4, <1>5, <1>6, <1>7 DEF Typed, TypeOK, client
<1>9. \A d \in Client :
        IF d \in listening /\ bound[d] = m
        THEN /\ down'[d] = Append(down[d], p) /\ up'[d] = << >> /\ d \notin listening'
        ELSE down'[d] = down[d] /\ up'[d] = up[d] /\ (d \in listening' <=> d \in listening)
  BY <1>2
<1> QED
  BY <1>6, <1>8, <1>9 DEF p

LEMMA ExpireTyped ==
  ASSUME Typed, NEW m, Expire(m)
  PROVE  /\ Typed'
         /\ members' = members \ {m}
         /\ UNCHANGED <<client, wire, bound, listening, withheld, history, given, accepted, composed>>
BY DEF Expire, Typed, TypeOK, client, wire

LEMMA WiredFrame ==
  ASSUME NEW c \in Client, Wired(c), Untouched(c)
  PROVE  Wired(c)'
BY DEF Wired, Untouched, Exchanges

\* Counts of the two channels of a connection, as numbers.
LEMMA ExchangesTyped ==
  ASSUME Typed, NEW c \in Client
  PROVE  /\ up[c] \in Seq(Request) /\ down[c] \in Seq(Packet)
         /\ Count(up[c], "send") \in Nat /\ Count(down[c], "answer") \in Nat
         /\ Exchanges(c) \in Nat /\ late[c] \in Nat
<1>1. up[c] \in Seq(Request) /\ down[c] \in Seq(Packet) /\ late[c] \in Nat
  BY DEF Typed, TypeOK
<1>2. Count(up[c], "send") \in Nat /\ Count(down[c], "answer") \in Nat
  BY <1>1, Counted
<1> QED
  BY <1>1, <1>2 DEF Exchanges

(* flushOutbox adds an exchange when it makes the client await one.        *)
LEMMA FlushWired ==
  ASSUME Typed, NEW c \in Client, NEW queue \in Seq(Message),
         NEW waiting \in SUBSET {"join", "rejoin", "send"},
         Flush(c, queue, waiting)
  PROVE  LET sends == link[c] /\ session[c] # None /\ "send" \notin waiting /\ queue # << >>
         IN /\ awaits'[c] = waiting \cup (IF sends THEN {"send"} ELSE {})
            /\ up'[c] = IF sends THEN Append(up[c], Send(Head(queue))) ELSE up[c]
            /\ Count(up'[c], "send") = Count(up[c], "send") + (IF sends THEN 1 ELSE 0)
<1> DEFINE sends == link[c] /\ session[c] # None /\ "send" \notin waiting /\ queue # << >>
<1>1. up[c] \in Seq(Request) /\ Count(up[c], "send") \in Nat
  BY ExchangesTyped
<1>2. CASE sends
  <2>1. Head(queue) \in Message
    BY <1>2, Taken
  <2>2. Send(Head(queue)) \in Request /\ Send(Head(queue)).op = "send"
    BY <2>1, Requests
  <2>3. Count(Append(up[c], Send(Head(queue))), "send") = Count(up[c], "send") + 1
    BY <1>1, <2>2, CountAdded
  <2>4. awaits'[c] = waiting \cup {"send"} /\ up'[c] = Append(up[c], Send(Head(queue)))
    BY <1>2 DEF Flush, Typed, TypeOK
  <2> QED
    BY <1>2, <2>3, <2>4
<1>3. CASE ~ sends
  <2>1. awaits'[c] = waiting /\ up'[c] = up[c]
    BY <1>3 DEF Flush, Typed, TypeOK
  <2> QED
    BY <1>1, <1>3, <2>1
<1> QED
  BY <1>2, <1>3

LEMMA StepWired ==
  ASSUME Typed, NEW c \in Client, Step(c), Wired(c)
  PROVE  Wired(c)'
<1>1. /\ up[c] \in Seq(Request) /\ down[c] \in Seq(Packet)
      /\ Count(up[c], "send") \in Nat /\ Count(down[c], "answer") \in Nat
      /\ late[c] \in Nat
  BY ExchangesTyped
<1>2. Count(<< >>, "send") = 0 /\ Count(<< >>, "answer") = 0
  BY EmptyChannel
<1>3. outbox[c] \in Seq(Message) /\ awaits[c] \in SUBSET {"join", "rejoin", "send"}
  BY Queued DEF Typed, TypeOK
<1>4. CASE Connect(c)
  <2>1. /\ link'[c] /\ late'[c] = late[c] /\ down'[c] = down[c] /\ outbox'[c] = outbox[c]
        /\ "send" \notin awaits'[c] /\ late[c] = 0 /\ down[c] = << >>
    BY <1>4 DEF Connect, Wired, Typed, TypeOK
  <2>2. up'[c] = << >> \/ up'[c] = << [op |-> "rejoin", member |-> session[c]] >>
    BY <1>4 DEF Connect, Wired, Typed, TypeOK
  <2>3. Count(up'[c], "send") = 0
    <3>1. CASE up'[c] = << >>
      BY <1>2, <3>1
    <3>2. CASE up'[c] = << [op |-> "rejoin", member |-> session[c]] >>
      <4>1. {k \in DOMAIN up'[c] : up'[c][k].op = "send"} = {}
        BY <3>2
      <4> QED
        BY <4>1, FS_EmptySet DEF Count
    <3> QED
      BY <2>2, <3>1, <3>2
  <2> QED
    BY <1>2, <2>1, <2>3 DEF Wired, Exchanges
<1>5. CASE Drop(c) \/ Reload(c) \/ LeaveRoom(c) \/ OnKicked(c)
  <2>1. /\ awaits'[c] = {} /\ late'[c] = 0 /\ up'[c] = << >> /\ down'[c] = << >>
        /\ bound'[c] = None /\ c \notin listening' \cup withheld' /\ conn'[c] = FALSE
    BY <1>5, LossTyped, DisconnectedTyped
  <2> QED
    BY <1>2, <2>1 DEF Wired, Exchanges
<1>6. CASE JoinRoom(c)
  <2> DEFINE e == [op |-> "join"]
  <2>1. e \in Request /\ e.op # "send"
    BY Requests
  <2>2. /\ up'[c] = Append(up[c], e) /\ awaits'[c] = awaits[c] \cup {"join"}
        /\ link'[c] /\ late'[c] = late[c] /\ down'[c] = down[c] /\ outbox'[c] = outbox[c]
    BY <1>6 DEF JoinRoom, Typed, TypeOK
  <2> HIDE DEF e
  <2>3. Count(up'[c], "send") = Count(up[c], "send")
    BY <1>1, <2>1, <2>2, CountAdded
  <2> QED
    BY <2>2, <2>3 DEF Wired, Exchanges
<1>7. CASE Compose(c)
  <2>1. PICK i \in Id, o \in Order : Submit(c, i, o) /\ o.by = session[c] /\ session[c] # None
    BY <1>7, ComposeTyped
  <2> DEFINE queue == Append(outbox[c], [id |-> i, order |-> o])
  <2>2. queue \in Seq(Message) /\ queue # << >>
    BY <1>3 DEF Message
  <2>3. /\ Flush(c, queue, awaits[c]) /\ outbox'[c] = queue
        /\ link'[c] = link[c] /\ late'[c] = late[c] /\ down'[c] = down[c]
        /\ bound'[c] = bound[c] /\ listening' = listening /\ withheld' = withheld /\ conn'[c] = conn[c]
    BY <2>1 DEF Submit, server, Typed, TypeOK
  <2> HIDE DEF queue
  <2> DEFINE sends == link[c] /\ session[c] # None /\ "send" \notin awaits[c] /\ queue # << >>
  <2>4. /\ awaits'[c] = awaits[c] \cup (IF sends THEN {"send"} ELSE {})
        /\ up'[c] = IF sends THEN Append(up[c], Send(Head(queue))) ELSE up[c]
        /\ Count(up'[c], "send") = Count(up[c], "send") + (IF sends THEN 1 ELSE 0)
    BY <1>3, <2>2, <2>3, FlushWired
  <2>5. CASE link[c]
    BY <1>1, <2>2, <2>3, <2>4, <2>5 DEF Wired, Exchanges
  <2>6. CASE ~ link[c]
    <3>1. awaits'[c] = awaits[c] /\ up'[c] = up[c]
      BY <2>4, <2>6
    <3> QED
      BY <2>2, <2>3, <2>6, <3>1 DEF Wired, Exchanges
  <2> QED
    BY <2>5, <2>6
<1>8. CASE TimeOut(c)
  <2>1. PICK op \in awaits[c] \ {"join"} :
          /\ awaits' = [awaits EXCEPT ![c] = awaits[c] \ {op}]
          /\ late' = IF op = "send" THEN [late EXCEPT ![c] = late[c] + 1] ELSE late
    BY <1>8 DEF TimeOut
  <2>2. /\ awaits'[c] = awaits[c] \ {op}
        /\ late'[c] = IF op = "send" THEN late[c] + 1 ELSE late[c]
    BY <2>1 DEF Typed, TypeOK
  <2>3. /\ link' = link /\ up' = up /\ down' = down /\ outbox' = outbox
        /\ bound' = bound /\ listening' = listening /\ withheld' = withheld /\ conn' = conn
    BY <1>8 DEF TimeOut, wire, server
  <2>4. link[c]
    BY <2>1 DEF Wired
  <2> QED
    BY <1>1, <2>1, <2>2, <2>3, <2>4 DEF Wired, Exchanges
<1>9. ASSUME down[c] # << >>, Received(c), Head(down[c]).op # "answer", link[c]
      PROVE  /\ Count(down'[c], "answer") = Count(down[c], "answer") /\ down'[c] = Tail(down[c])
  <2>1. down'[c] = Tail(down[c]) /\ Tail(down[c]) \in Seq(Packet)
    BY <1>1, <1>9, ReceivedTyped, Taken
  <2>2. Count(down[c], "answer") = Count(Tail(down[c]), "answer") + 0
    BY <1>1, <1>9, CountTaken
  <2>3. Count(Tail(down[c]), "answer") \in Nat
    BY <2>1, Counted
  <2> QED
    BY <2>1, <2>2, <2>3
<1>10. CASE OnJoined(c) \/ OnJoinRefused(c) \/ OnRejoinRefused(c) \/ OnOrder(c) \/ OnClosed(c)
  <2>1. down[c] # << >> /\ Received(c) /\ Head(down[c]).op # "answer" /\ link[c]
    BY <1>10 DEF OnJoined, OnJoinRefused, OnRejoinRefused, OnOrder, OnClosed, Comes
  <2>2. Count(down'[c], "answer") = Count(down[c], "answer")
    BY <1>9, <2>1
  <2>3. UNCHANGED <<outbox, late, link, up>>
    BY <1>10 DEF OnJoined, OnJoinRefused, OnRejoinRefused, OnOrder, OnClosed
  <2>4. "send" \in awaits'[c] <=> "send" \in awaits[c]
    BY <1>10 DEF OnJoined, OnJoinRefused, OnRejoinRefused, OnOrder, OnClosed, Typed, TypeOK
  <2> QED
    BY <2>1, <2>2, <2>3, <2>4 DEF Wired, Exchanges
<1>11. CASE OnRejoined(c)
  <2>1. down[c] # << >> /\ Received(c) /\ Head(down[c]).op # "answer" /\ link[c]
    BY <1>11 DEF OnRejoined, Comes
  <2>2. Count(down'[c], "answer") = Count(down[c], "answer")
    BY <1>9, <2>1
  <2>3. UNCHANGED <<outbox, late, link>>
    BY <1>11 DEF OnRejoined
  <2>4. CASE "rejoin" \in awaits[c]
    <3> DEFINE waiting == awaits[c] \ {"rejoin"}
               sends == link[c] /\ session[c] # None /\ "send" \notin waiting /\ outbox[c] # << >>
    <3>1. Flush(c, outbox[c], waiting) /\ waiting \in SUBSET {"join", "rejoin", "send"}
      BY <1>3, <1>11, <2>4 DEF OnRejoined
    <3>2. "send" \in waiting <=> "send" \in awaits[c]
      OBVIOUS
    <3> HIDE DEF waiting
    <3>3. /\ awaits'[c] = waiting \cup (IF sends THEN {"send"} ELSE {})
          /\ Count(up'[c], "send") = Count(up[c], "send") + (IF sends THEN 1 ELSE 0)
      BY <1>3, <3>1, FlushWired
    <3> QED
      BY <1>1, <2>1, <2>2, <2>3, <3>2, <3>3 DEF Wired, Exchanges
  <2>5. CASE "rejoin" \notin awaits[c]
    <3>1. UNCHANGED <<awaits, up>>
      BY <1>11, <2>5 DEF OnRejoined
    <3> QED
      BY <2>1, <2>2, <2>3, <3>1 DEF Wired, Exchanges
  <2> QED
    BY <2>4, <2>5
<1>12. CASE OnAnswer(c)
  <2> DEFINE queue == Tail(outbox[c])
  <2>1. down[c] # << >> /\ Received(c) /\ Comes(c, "answer") /\ Head(down[c]).op = "answer" /\ link[c]
    BY <1>12 DEF OnAnswer, Comes
  <2>2. /\ Count(down[c], "answer") = Count(down'[c], "answer") + 1
        /\ Count(down'[c], "answer") \in Nat
    BY <1>1, <2>1, CountTaken, Counted, ReceivedTyped
  <2>3. link' = link
    BY <1>12 DEF OnAnswer
  <2>4. CASE late[c] > 0
    <3>1. late'[c] = late[c] - 1 /\ UNCHANGED <<outbox, awaits, up>>
      BY <1>12, <2>4 DEF OnAnswer, Typed, TypeOK
    <3> QED
      BY <1>1, <2>1, <2>2, <2>3, <3>1 DEF Wired, Exchanges
  <2>5. CASE ~ (late[c] > 0)
    <3>1. "send" \in awaits[c] /\ outbox[c] # << >> /\ Exchanges(c) = 1 /\ late' = late /\ late[c] = 0
      BY <1>1, <1>12, <2>1, <2>5, AnswerIsAwaited DEF OnAnswer
    <3>2. Count(up[c], "send") = 0 /\ Count(down'[c], "answer") = 0
      BY <1>1, <2>2, <3>1 DEF Exchanges
    <3>3. CASE ~ Definitive(Head(down[c]).answer)
      <4>1. awaits'[c] = awaits[c] \ {"send"} /\ UNCHANGED <<outbox, up>>
        BY <1>12, <2>5, <3>3 DEF OnAnswer, Typed, TypeOK
      <4> QED
        BY <2>1, <2>3, <3>1, <3>2, <4>1 DEF Wired, Exchanges
    <3>4. CASE Definitive(Head(down[c]).answer)
      <4>1. /\ outbox'[c] = queue
            /\ awaits'[c] = IF queue = << >> THEN awaits[c] \ {"send"} ELSE awaits[c]
            /\ up'[c] = IF queue = << >> THEN up[c] ELSE Append(up[c], Send(Head(queue)))
        BY <1>12, <2>5, <3>4, ZenonT(40) DEF OnAnswer, Typed, TypeOK
      <4>2. queue \in Seq(Message)
        BY <3>1, Queued
      <4> HIDE DEF queue
      <4>3. Count(up'[c], "send") = IF queue = << >> THEN 0 ELSE 1
        <5>1. CASE queue # << >>
          <6>1. Head(queue) \in Message
            BY <4>2, <5>1, Taken
          <6>2. Send(Head(queue)) \in Request /\ Send(Head(queue)).op = "send"
            BY <6>1, Requests
          <6>3. Count(Append(up[c], Send(Head(queue))), "send") = 0 + 1
            BY <1>1, <3>2, <6>2, CountAdded
          <6> QED
            BY <4>1, <5>1, <6>3
        <5> QED
          BY <3>2, <4>1, <5>1
      <4> QED
        BY <2>1, <2>3, <3>1, <3>2, <4>1, <4>3 DEF Wired, Exchanges
    <3> QED
      BY <3>3, <3>4
  <2> QED
    BY <2>4, <2>5
<1>13. CASE ServeJoin(c) \/ ServeRejoin(c)
  <2>1. up[c] # << >> /\ Served(c) /\ Head(up[c]).op # "send" /\ composed' = composed
    BY <1>13 DEF ServeJoin, ServeRejoin, Asked
  <2>2. up'[c] = Tail(up[c]) /\ Count(up'[c], "send") = Count(up[c], "send")
    <3>1. up'[c] = Tail(up[c]) /\ Tail(up[c]) \in Seq(Request)
      BY <1>1, <2>1, ServedTyped, Taken
    <3>2. Count(up[c], "send") = Count(Tail(up[c]), "send") + 0
      BY <1>1, <2>1, CountTaken
    <3>3. Count(Tail(up[c]), "send") \in Nat
      BY <3>1, Counted
    <3> QED
      BY <3>1, <3>2, <3>3
  <2>3. UNCHANGED <<outbox, awaits, late, link>> /\ link[c]
    BY <1>13, <2>1 DEF ServeJoin, ServeRejoin, client, Wired
  <2>4. \/ down'[c] = down[c]
        \/ \E p \in Packet : p.op # "answer" /\ down'[c] = Append(down[c], p)
    <3>1. CASE ServeJoin(c)
      <4>1. ASSUME NEW p, p.op # "answer", p \in Packet, down' = Answered(down, c, p)
            PROVE  \E q \in Packet : q.op # "answer" /\ down'[c] = Append(down[c], q)
        BY <4>1, AnsweredTyped
      <4>2. [op |-> "join_refused"] \in Packet
        BY Packets
      <4>3. given # Author =>
              [op |-> "joined", member |-> Fresh(Author \ given),
               recent |-> Recent(history, Fresh(Author \ given))] \in Packet
        <5>1. given # Author => Fresh(Author \ given) \in Author
          BY DEF Fresh, Typed, TypeOK
        <5> QED
          BY <5>1, Packets DEF Recent, Typed, TypeOK
      <4> QED
        BY <3>1, <4>1, <4>2, <4>3 DEF ServeJoin
    <3>2. CASE ServeRejoin(c)
      <4>1. [op |-> "rejoined", recent |-> Recent(history, Head(up[c]).member)] \in Packet
        BY Packets DEF Recent, Typed, TypeOK
      <4> QED
        BY <3>2, <4>1, AnsweredTyped DEF ServeRejoin
    <3> QED
      BY <1>13, <3>1, <3>2
  <2>5. Count(down'[c], "answer") = Count(down[c], "answer")
    <3>1. ASSUME NEW p \in Packet, p.op # "answer"
          PROVE  Count(Append(down[c], p), "answer") = Count(down[c], "answer")
      <4>1. Count(Append(down[c], p), "answer") = Count(down[c], "answer") + 0
        BY <1>1, <3>1, CountAdded
      <4> QED
        BY <1>1, <4>1
    <3>2. CASE down'[c] = down[c]
      BY <3>2
    <3>3. CASE down'[c] # down[c]
      <4>1. PICK p \in Packet : p.op # "answer" /\ down'[c] = Append(down[c], p)
        BY <2>4, <3>3
      <4> QED
        BY <3>1, <4>1
    <3> QED
      BY <3>2, <3>3
  <2> QED
    BY <2>2, <2>3, <2>5 DEF Wired, Exchanges
<1>14. CASE RefuseRejoin(c)
  <2>1. [op |-> "rejoin_refused"] \in Packet /\ [op |-> "rejoin_refused"].op # "answer"
    BY Packets
  <2>2. down'[c] = Append(down[c], [op |-> "rejoin_refused"])
    BY <1>14, <2>1, AnsweredTyped DEF RefuseRejoin
  <2>3. Count(down'[c], "answer") = Count(down[c], "answer")
    BY <1>1, <2>1, <2>2, CountAdded
  <2>4. UNCHANGED <<client, link, up>> /\ link[c]
    BY <1>14 DEF RefuseRejoin, Wired
  <2> QED
    BY <2>3, <2>4 DEF Wired, Exchanges, client
<1> QED
  BY <1>4, <1>5, <1>6, <1>7, <1>8, <1>10, <1>11, <1>12, <1>13, <1>14 DEF Step, Handle

LEMMA ServeSendWired ==
  ASSUME Typed, \A d \in Client : Wired(d), NEW c \in Client, ServeSend(c), NEW d \in Client
  PROVE  Wired(d)'
<1>1. /\ UNCHANGED <<client, link, connects, excused, bound, listening, withheld, members, given,
                     composed>>
      /\ up[c] # << >> /\ Served(c) /\ Head(up[c]).op = "send"
      /\ Head(up[c]).msg \in Message
      /\ \A e \in Client \ {c} : up'[e] = up[e]
  BY ServeSendTyped
<1>2. PICK answer \in Answer :
        /\ down'[c] = Append(down[c], [op |-> "answer", answer |-> answer])
        /\ \A e \in Client \ {c} :
             \/ down'[e] = down[e]
             \/ e \in listening /\ down'[e] = Append(down[e], [op |-> "order", msg |-> Head(up[c]).msg])
  BY ServeSendTyped
<1>3. /\ up[d] \in Seq(Request) /\ down[d] \in Seq(Packet)
      /\ Count(up[d], "send") \in Nat /\ Count(down[d], "answer") \in Nat
      /\ late[d] \in Nat
  BY ExchangesTyped
<1>4. CASE d = c
  <2>1. up'[d] = Tail(up[d]) /\ Tail(up[d]) \in Seq(Request)
    BY <1>1, <1>3, <1>4, ServedTyped, Taken
  <2>2. Count(up[d], "send") = Count(Tail(up[d]), "send") + 1 /\ Count(Tail(up[d]), "send") \in Nat
    BY <1>1, <1>3, <1>4, <2>1, CountTaken, Counted
  <2> DEFINE p == [op |-> "answer", answer |-> answer]
  <2>3. p \in Packet /\ p.op = "answer"
    BY Packets
  <2>4. down'[d] = Append(down[d], p)
    BY <1>2, <1>4
  <2> HIDE DEF p
  <2>5. Count(down'[d], "answer") = Count(down[d], "answer") + 1
    BY <1>3, <2>3, <2>4, CountAdded
  <2>6. link[d]
    BY <1>1, <1>4 DEF Wired
  <2> QED
    BY <1>1, <1>3, <2>1, <2>2, <2>5, <2>6 DEF Wired, Exchanges, client
<1>5. CASE d # c /\ down'[d] = down[d]
  BY <1>1, <1>5 DEF Wired, Exchanges, client
<1>6. CASE d # c /\ d \in listening /\ down'[d] = Append(down[d], [op |-> "order", msg |-> Head(up[c]).msg])
  <2> DEFINE p == [op |-> "order", msg |-> Head(up[c]).msg]
  <2>1. p \in Packet /\ p.op # "answer"
    BY <1>1, Packets
  <2>2. down'[d] = Append(down[d], p)
    BY <1>6
  <2> HIDE DEF p
  <2>3. Count(down'[d], "answer") = Count(down[d], "answer") + 0
    BY <1>3, <2>1, <2>2, CountAdded
  <2>4. link[d] /\ up'[d] = up[d]
    BY <1>1, <1>6 DEF Wired
  <2> QED
    BY <1>1, <1>3, <2>3, <2>4 DEF Wired, Exchanges, client
<1> QED
  BY <1>2, <1>4, <1>5, <1>6

\* The server says something that is not an answer, and may hang up on c.
LEMMA ToldWired ==
  ASSUME Typed, NEW c \in Client, Wired(c), NEW p \in Packet, p.op # "answer", c \in listening,
         down'[c] = Append(down[c], p), up'[c] = up[c] \/ up'[c] = << >>,
         UNCHANGED <<outbox, awaits, late, link>>
  PROVE  Wired(c)'
<1>1. /\ up[c] \in Seq(Request) /\ down[c] \in Seq(Packet)
      /\ Count(up[c], "send") \in Nat /\ Count(down[c], "answer") \in Nat
      /\ late[c] \in Nat
  BY ExchangesTyped
<1>2. Count(down'[c], "answer") = Count(down[c], "answer") + 0
  BY <1>1, CountAdded
<1>3. Count(up'[c], "send") \in Nat /\ Count(up'[c], "send") <= Count(up[c], "send")
  BY <1>1, EmptyChannel
<1>4. link[c]
  BY DEF Wired
<1> QED
  BY <1>1, <1>2, <1>3, <1>4 DEF Wired, Exchanges

LEMMA EndsWired ==
  ASSUME Typed, NEW c \in Client, Wired(c), CloseRoom \/ \E m : Kick(m) \/ Expire(m)
  PROVE  Wired(c)'
<1>1. [op |-> "closed"] \in Packet /\ [op |-> "closed"].op # "answer"
      /\ [op |-> "kicked"] \in Packet /\ [op |-> "kicked"].op # "answer"
  BY Packets
<1>2. CASE CloseRoom
  <2>1. /\ UNCHANGED <<client, link, up, bound, withheld>> /\ listening' = {}
        /\ down'[c] = IF c \in listening THEN Append(down[c], [op |-> "closed"]) ELSE down[c]
    BY <1>2, CloseRoomTyped
  <2>2. CASE c \in listening
    BY <1>1, <2>1, <2>2, ToldWired DEF client
  <2>3. CASE c \notin listening
    BY <2>1, <2>3 DEF Wired, Exchanges, client
  <2> QED
    BY <2>2, <2>3
<1>3. ASSUME NEW m, Kick(m) PROVE Wired(c)'
  <2>1. /\ UNCHANGED <<client, link, bound, withheld>>
        /\ IF c \in listening /\ bound[c] = m
           THEN down'[c] = Append(down[c], [op |-> "kicked"]) /\ up'[c] = << >>
           ELSE down'[c] = down[c] /\ up'[c] = up[c] /\ (c \in listening' <=> c \in listening)
    BY <1>3, KickTyped
  <2>2. CASE c \in listening /\ bound[c] = m
    BY <1>1, <2>1, <2>2, ToldWired DEF client
  <2>3. CASE ~ (c \in listening /\ bound[c] = m)
    BY <2>1, <2>3 DEF Wired, Exchanges, client
  <2> QED
    BY <2>2, <2>3
<1>4. ASSUME NEW m, Expire(m) PROVE Wired(c)'
  BY <1>4, ExpireTyped DEF Wired, Exchanges, client, wire
<1> QED
  BY <1>2, <1>3, <1>4

LEMMA Stutters ==
  ASSUME UNCHANGED vars, NEW c \in Client
  PROVE  Untouched(c) /\ UNCHANGED <<members, history, given, accepted, composed, connects, excused>>
BY DEF vars, client, wire, server, Untouched

LEMMA WireInit == Init => WireInv
<1> SUFFICES ASSUME Init PROVE WireInv
  OBVIOUS
<1>1. EmptyStore \in Store /\ << >> \in Seq(Message) /\ << >> \in Seq(Request) /\ << >> \in Seq(Packet)
  BY EmptyIsStore
<1>2. SE!ToSet(<< >>) = {} /\ Len(<< >>) <= MaxRecent
  BY RelayAssumption DEF SE!ToSet
<1>3. MaxConnects \in [Client -> Nat]
  BY RelayAssumption
<1>4. TypeOK
  <2>1. \A c \in Client : SE!ToSet(outbox[c]) \subseteq composed /\ connects[c] \in 0 .. MaxConnects[c]
    BY <1>2, <1>3 DEF Init
  <2> QED
    BY <1>1, <1>2, <2>1 DEF TypeOK, Init
<1>5. Typed
  <2>1. \A c \in Client : \A k \in DOMAIN up[c] : FALSE
    BY DEF Init
  <2> QED
    BY <1>1, <1>4, <2>1 DEF Typed, Init
<1>6. ASSUME NEW c \in Client PROVE Wired(c)
  <2>1. Count(up[c], "send") = 0 /\ Count(down[c], "answer") = 0
    BY EmptyChannel DEF Init
  <2> QED
    BY <2>1 DEF Init, Wired, Exchanges
<1> QED
  BY <1>5, <1>6 DEF WireInv

LEMMA WireStep == WireInv /\ [Next]_vars => WireInv'
<1> SUFFICES ASSUME WireInv, [Next]_vars PROVE WireInv'
  OBVIOUS
<1>1. Typed /\ \A d \in Client : Wired(d)
  BY DEF WireInv
<1>2. ASSUME NEW c \in Client, Step(c) PROVE WireInv'
  <2>1. Typed'
    BY <1>1, <1>2, ConnectTyped, LossTyped, JoinRoomTyped, ComposeTyped, TimeOutTyped, HandledTyped,
       OnRejoinedTyped, OnAnswerTyped, ServeJoinTyped, ServeRejoinTyped, RefuseRejoinTyped
       DEF Step, Handle
  <2>2. ASSUME NEW d \in Client PROVE Wired(d)'
    BY <1>1, <1>2, StepWired, StepTouches, WiredFrame
  <2> QED
    BY <2>1, <2>2 DEF WireInv
<1>3. ASSUME NEW c \in Client, ServeSend(c) PROVE WireInv'
  BY <1>1, <1>3, ServeSendTyped, ServeSendWired DEF WireInv
<1>4. ASSUME CloseRoom \/ \E m : Kick(m) \/ Expire(m) PROVE WireInv'
  <2>1. Typed'
    BY <1>1, <1>4, CloseRoomTyped, KickTyped, ExpireTyped
  <2>2. \A d \in Client : Wired(d)'
    BY <1>1, <1>4, EndsWired
  <2> QED
    BY <2>1, <2>2 DEF WireInv
<1>5. CASE UNCHANGED vars
  <2>1. Typed'
    BY <1>1, <1>5 DEF Typed, TypeOK, vars, client, wire, server
  <2>2. ASSUME NEW d \in Client PROVE Wired(d)'
    BY <1>1, <1>5, Stutters, WiredFrame
  <2> QED
    BY <2>1, <2>2 DEF WireInv
<1> QED
  BY <1>2, <1>3, <1>4, <1>5 DEF Next, Step, Serve

LEMMA WireInvariant == Spec => []WireInv
BY WireInit, WireStep, PTL DEF Spec

(***************************************************************************)
(* Every variable of the clients, of the connections and of the server has *)
(* its type, the room never remembers more than its limit, and nothing is  *)
(* accepted that was not composed: in particular an acknowledgement always *)
(* finds an order at the head of the queue it is taken from (flushOutbox). *)
(***************************************************************************)
THEOREM RelayTypeCorrect == Spec => []TypeOK
<1>1. WireInv => TypeOK
  BY DEF WireInv, Typed
<1> QED
  BY <1>1, WireInvariant, PTL

-----------------------------------------------------------------------------
(* Entering a room.                                                        *)
LEMMA EnteredFrame ==
  ASSUME NEW c \in Client, Entered(c), Untouched(c),
         session[c] \in members' => session[c] \in members,
         "joined" \in Ops(down[c]) =>
           \A msg \in composed' : msg \in composed \/ msg.order.by # bound[c]
  PROVE  Entered(c)'
<1>1. \A k \in DOMAIN down[c] : down[c][k].op \in Ops(down[c])
  BY DEF Ops
<1>2. /\ session'[c] = session[c] /\ conn'[c] = conn[c] /\ awaits'[c] = awaits[c]
      /\ link'[c] = link[c] /\ up'[c] = up[c] /\ down'[c] = down[c] /\ bound'[c] = bound[c]
      /\ c \in listening' <=> c \in listening
      /\ c \in withheld' <=> c \in withheld
  BY DEF Untouched
<1>3. Asking(c)'
  BY <1>2 DEF Entered, Asking
<1>4. Refusing(c)'
  BY <1>2 DEF Entered, Refusing
<1>5. Answering(c)'
  BY <1>1, <1>2 DEF Entered, Answering
<1>6. Inside(c)'
  BY <1>2 DEF Entered, Inside
<1> QED
  BY <1>3, <1>4, <1>5, <1>6 DEF Entered

LEMMA Channels ==
  ASSUME Typed, NEW c \in Client
  PROVE  /\ up[c] \in Seq(Request) /\ down[c] \in Seq(Packet)
         /\ session[c] \in Author \cup {None} /\ bound[c] \in Author \cup {None}
         /\ None \notin Author
         /\ \A k \in DOMAIN up[c] : up[c][k].op \in Ops(up[c])
         /\ \A k \in DOMAIN down[c] : down[c][k].op \in Ops(down[c])
BY RelayAssumption DEF Typed, TypeOK, Ops

LEMMA ConnectEntered ==
  ASSUME Typed, NEW c \in Client, Wired(c), Entered(c), Connect(c)
  PROVE  Entered(c)'
<1> DEFINE hello == << [op |-> "rejoin", member |-> session[c]] >>
<1>1. /\ down'[c] = << >> /\ bound'[c] = None /\ session'[c] = session[c]
      /\ c \notin listening' /\ c \notin withheld'
      /\ session[c] # None => up'[c] = hello /\ conn'[c] = FALSE /\ awaits'[c] = {"rejoin"}
      /\ session[c] = None => up'[c] = << >> /\ awaits'[c] = {}
  BY DEF Connect, Wired, Typed, TypeOK, server
<1>2. Ops(down'[c]) = {} /\ DOMAIN down'[c] = {}
  BY <1>1, EmptyChannel
<1>3. CASE session[c] # None
  <2>1. /\ DOMAIN up'[c] = {1} /\ up'[c][1].op = "rejoin" /\ up'[c][1].member = session[c]
    BY <1>1, <1>3
  <2>2. Ops(up'[c]) = {"rejoin"}
    BY <2>1 DEF Ops
  <2>3. Asking(c)'
    BY <1>1, <1>3, <2>1, <2>2 DEF Asking, Leads
  <2>4. Refusing(c)' /\ Answering(c)' /\ Inside(c)'
    BY <1>1, <1>2, <1>3, <2>2 DEF Refusing, Answering, Inside, Leads
  <2> QED
    BY <2>3, <2>4 DEF Entered
<1>4. CASE session[c] = None
  <2>1. Ops(up'[c]) = {} /\ DOMAIN up'[c] = {}
    BY <1>1, <1>4, EmptyChannel
  <2>2. Asking(c)'
    BY <1>1, <1>4, <2>1 DEF Asking, Leads
  <2>3. session'[c] \notin members'
    BY <1>1, <1>4, RelayAssumption DEF Connect, server, Typed, TypeOK
  <2>4. Refusing(c)' /\ Answering(c)' /\ Inside(c)'
    BY <1>1, <1>2, <1>4, <2>3 DEF Refusing, Answering, Inside, Leads
  <2> QED
    BY <2>2, <2>4 DEF Entered
<1> QED
  BY <1>3, <1>4

LEMMA LossEntered ==
  ASSUME Typed, NEW c \in Client, Drop(c) \/ Reload(c) \/ LeaveRoom(c) \/ OnKicked(c)
  PROVE  Entered(c)'
<1>1. /\ awaits'[c] = {} /\ up'[c] = << >> /\ down'[c] = << >>
      /\ bound'[c] = None /\ c \notin listening' \cup withheld' /\ link'[c] = FALSE
  BY LossTyped, DisconnectedTyped
<1>2. Ops(<< >>) = {} /\ DOMAIN << >> = {}
  BY EmptyChannel
<1>3. Asking(c)' /\ Refusing(c)'
  BY <1>1, <1>2 DEF Asking, Refusing, Leads
<1>4. Answering(c)' /\ Inside(c)'
  BY <1>1, <1>2 DEF Answering, Inside, Leads
<1> QED
  BY <1>3, <1>4 DEF Entered

LEMMA JoinRoomEntered ==
  ASSUME Typed, NEW c \in Client, Entered(c), JoinRoom(c)
  PROVE  Entered(c)'
<1> DEFINE e == [op |-> "join"]
<1>1. /\ up[c] \in Seq(Request) /\ e \in Request /\ e.op = "join"
  BY Channels, Requests
<1>2. /\ up'[c] = Append(up[c], e) /\ awaits'[c] = awaits[c] \cup {"join"}
      /\ UNCHANGED <<session, bound, conn, link, down, listening, withheld, members, composed>>
      /\ session[c] = None /\ "join" \notin awaits[c]
  BY DEF JoinRoom, server, Typed, TypeOK
<1> HIDE DEF e
<1>3. /\ DOMAIN up'[c] = DOMAIN up[c] \cup {Len(up[c]) + 1}
      /\ \A k \in DOMAIN up[c] : up'[c][k] = up[c][k]
      /\ up'[c][Len(up[c]) + 1].op = "join"
      /\ Ops(up'[c]) = Ops(up[c]) \cup {"join"}
  BY <1>1, <1>2, Added
<1>4. Ops(up[c]) \subseteq {"send"}
  <2>1. \A o \in Ops(up[c]) : o \in {"join", "rejoin", "send"}
    BY <1>1, Requests DEF Ops
  <2> QED
    BY <1>2, <2>1 DEF Entered, Asking
<1>5. Leads(up'[c], "send", {"join", "rejoin"})
  BY <1>1, <1>2, <1>4, LeadsAdded DEF Entered, Asking
<1>6. Ops(down[c]) \subseteq {"answer"} /\ c \notin listening
  BY <1>2 DEF Entered, Answering, Inside
<1>7. Asking(c)'
  BY <1>2, <1>3, <1>4, <1>5, <1>6 DEF Entered, Asking
<1>8. Refusing(c)' /\ Answering(c)' /\ Inside(c)'
  BY <1>2, <1>3 DEF Entered, Refusing, Answering, Inside
<1> QED
  BY <1>7, <1>8 DEF Entered

\* An order is sent: nothing else of the connection changes.
LEMMA SendAdded ==
  ASSUME Typed, NEW c \in Client, Asking(c), NEW msg \in Message,
         up'[c] = Append(up[c], Send(msg))
  PROVE  /\ Leads(up'[c], "send", {"join", "rejoin"})
         /\ Ops(up'[c]) = Ops(up[c]) \cup {"send"}
         /\ \A k \in DOMAIN up'[c] : up'[c][k].op = "rejoin" =>
              k = 1 /\ up'[c][k].member = session[c]
<1>1. /\ up[c] \in Seq(Request) /\ Send(msg) \in Request /\ Send(msg).op = "send"
  BY Channels, Requests
<1>2. /\ DOMAIN up'[c] = DOMAIN up[c] \cup {Len(up[c]) + 1}
      /\ \A k \in DOMAIN up[c] : up'[c][k] = up[c][k]
      /\ up'[c][Len(up[c]) + 1] = Send(msg)
      /\ Ops(up'[c]) = Ops(up[c]) \cup {"send"}
  BY <1>1, Added
<1>3. Leads(up'[c], "send", {"join", "rejoin"})
  BY <1>1, LeadsAdded DEF Asking
<1> QED
  BY <1>1, <1>2, <1>3 DEF Asking

LEMMA FlushEntered ==
  ASSUME Typed, NEW c \in Client, Asking(c), NEW queue \in Seq(Message),
         NEW waiting \in SUBSET {"join", "rejoin", "send"}, Flush(c, queue, waiting)
  PROVE  /\ Leads(up'[c], "send", {"join", "rejoin"})
         /\ Ops(up'[c]) \subseteq Ops(up[c]) \cup {"send"} /\ Ops(up[c]) \subseteq Ops(up'[c])
         /\ \A k \in DOMAIN up'[c] : up'[c][k].op = "rejoin" =>
              k = 1 /\ up'[c][k].member = session[c]
         /\ "join" \in awaits'[c] <=> "join" \in waiting
<1>1. \/ up'[c] = up[c]
      \/ queue # << >> /\ up'[c] = Append(up[c], Send(Head(queue)))
  BY FlushWired
<1>2. "join" \in awaits'[c] <=> "join" \in waiting
  BY FlushWired
<1>3. CASE up'[c] = up[c]
  BY <1>2, <1>3 DEF Asking
<1>4. CASE queue # << >> /\ up'[c] = Append(up[c], Send(Head(queue)))
  <2>1. Head(queue) \in Message
    BY <1>4, Taken
  <2> QED
    BY <1>2, <1>4, <2>1, SendAdded
<1> QED
  BY <1>1, <1>3, <1>4

LEMMA ComposeEntered ==
  ASSUME Typed, NEW c \in Client, Entered(c), Compose(c)
  PROVE  Entered(c)'
<1>1. PICK i \in Id, o \in Order : Submit(c, i, o) /\ o.by = session[c] /\ session[c] # None
  BY ComposeTyped
<1> DEFINE queue == Append(outbox[c], [id |-> i, order |-> o])
<1>2. queue \in Seq(Message)
  <2>1. [id |-> i, order |-> o] \in Message /\ outbox[c] \in Seq(Message)
    BY Queued DEF Message
  <2> QED
    BY <2>1
<1>3. /\ Flush(c, queue, awaits[c]) /\ awaits[c] \in SUBSET {"join", "rejoin", "send"}
      /\ UNCHANGED <<session, bound, conn, link, down, listening, withheld, members>>
  BY <1>1 DEF Submit, server, Typed, TypeOK
<1> HIDE DEF queue
<1>4. /\ Leads(up'[c], "send", {"join", "rejoin"})
      /\ Ops(up'[c]) \subseteq Ops(up[c]) \cup {"send"} /\ Ops(up[c]) \subseteq Ops(up'[c])
      /\ \A k \in DOMAIN up'[c] : up'[c][k].op = "rejoin" =>
           k = 1 /\ up'[c][k].member = session[c]
      /\ "join" \in awaits'[c] <=> "join" \in awaits[c]
  BY <1>2, <1>3, FlushEntered DEF Entered
<1>5. Asking(c)'
  BY <1>3, <1>4 DEF Entered, Asking
<1>6. "joined" \notin Ops(down[c])
  BY <1>1 DEF Entered, Answering
<1>7. \A k \in DOMAIN down[c] : down[c][k].op # "joined"
  BY <1>6, Channels
<1>8. Refusing(c)' /\ Answering(c)' /\ Inside(c)'
  BY <1>1, <1>3, <1>4, <1>6, <1>7 DEF Entered, Refusing, Answering, Inside
<1> QED
  BY <1>5, <1>8 DEF Entered

LEMMA TimeOutEntered ==
  ASSUME Typed, NEW c \in Client, Entered(c), TimeOut(c)
  PROVE  Entered(c)'
<1>1. /\ UNCHANGED <<session, bound, conn, link, up, down, listening, withheld, members, composed>>
      /\ "join" \in awaits'[c] <=> "join" \in awaits[c]
  BY DEF TimeOut, wire, server, Typed, TypeOK
<1>2. Asking(c)'
  BY <1>1 DEF Entered, Asking
<1>3. Refusing(c)' /\ Answering(c)' /\ Inside(c)'
  BY <1>1 DEF Entered, Refusing, Answering, Inside
<1> QED
  BY <1>2, <1>3 DEF Entered

(* The client takes the head of its channel: what that says of the rest.   *)
LEMMA TakenEntered ==
  ASSUME Typed, NEW c \in Client, Entered(c), down[c] # << >>, Received(c)
  PROVE  LET h == Head(down[c]) IN
         /\ Ops(down[c]) = Ops(down'[c]) \cup {h.op}
         /\ Leads(down'[c], "answer", Entries)
         /\ h.op # "answer" => Ops(down'[c]) \cap Entries = {}
         /\ "rejoin" \notin Ops(up[c])
         /\ h.op # "answer" => "join" \notin Ops(up[c]) /\ c \notin withheld
         /\ \A k \in DOMAIN down'[c] : down'[c][k].op = "joined" =>
              /\ down'[c][k].member = bound[c]
              /\ \A msg \in composed : msg.order.by # bound[c]
         /\ \A k \in DOMAIN down'[c] : down'[c][k].op = "closed" =>
              c \notin listening /\ \A n \in k + 1 .. Len(down'[c]) : down'[c][n].op = "answer"
         /\ h.op = "joined" => /\ h.member = bound[c]
                               /\ \A msg \in composed : msg.order.by # bound[c]
         /\ h.op = "closed" => c \notin listening /\ Ops(down'[c]) \subseteq {"answer"}
<1> DEFINE h == Head(down[c])
           t == down'[c]
<1>1. down[c] \in Seq(Packet) /\ t = Tail(down[c])
  BY Channels, ReceivedTyped
<1>2. /\ h = down[c][1] /\ 1 \in DOMAIN down[c] /\ Len(t) = Len(down[c]) - 1 /\ Len(down[c]) \in Nat
      /\ \A k \in DOMAIN t : k \in Nat /\ k >= 1 /\ k + 1 \in DOMAIN down[c] /\ t[k] = down[c][k + 1]
      /\ Ops(down[c]) = Ops(t) \cup {h.op}
      /\ t \in Seq(Packet)
  BY <1>1, Taken
<1>3. Leads(t, "answer", Entries) /\ (h.op # "answer" => Ops(t) \cap Entries = {})
  BY <1>1, LeadsTaken DEF Entered, Answering
<1> HIDE DEF h, t
<1>4. "rejoin" \notin Ops(up[c]) /\ (h.op # "answer" => "join" \notin Ops(up[c]) /\ c \notin withheld)
  BY <1>2 DEF Entered, Asking, Refusing
<1>5. ASSUME NEW k \in DOMAIN t, t[k].op = "joined"
      PROVE  t[k].member = bound[c] /\ \A msg \in composed : msg.order.by # bound[c]
  BY <1>2, <1>5 DEF Entered, Answering
<1>6. ASSUME NEW k \in DOMAIN t, t[k].op = "closed"
      PROVE  c \notin listening /\ \A n \in k + 1 .. Len(t) : t[n].op = "answer"
  <2>1. c \notin listening /\ \A n \in k + 1 + 1 .. Len(down[c]) : down[c][n].op = "answer"
    BY <1>2, <1>6 DEF Entered, Answering
  <2>2. ASSUME NEW n \in k + 1 .. Len(t) PROVE t[n].op = "answer"
    <3>1. n \in DOMAIN t /\ n + 1 \in k + 1 + 1 .. Len(down[c])
      BY <1>2
    <3> QED
      BY <1>2, <2>1, <3>1
  <2> QED
    BY <2>1, <2>2
<1>7. h.op = "joined" => h.member = bound[c] /\ \A msg \in composed : msg.order.by # bound[c]
  BY <1>2 DEF Entered, Answering
<1>8. ASSUME h.op = "closed" PROVE c \notin listening /\ Ops(t) \subseteq {"answer"}
  <2>1. c \notin listening /\ \A n \in 1 + 1 .. Len(down[c]) : down[c][n].op = "answer"
    BY <1>2, <1>8 DEF Entered, Answering
  <2>2. \A k \in DOMAIN t : k + 1 \in 1 + 1 .. Len(down[c])
    BY <1>2
  <2>3. \A k \in DOMAIN t : t[k].op = "answer"
    BY <1>2, <2>1, <2>2
  <2> QED
    BY <2>1, <2>3 DEF Ops
<1> QED
  BY <1>2, <1>3, <1>4, <1>5, <1>6, <1>7, <1>8 DEF h, t

\* Nothing of the binding of c or of the room changes.
Bindings == <<bound, listening, withheld, members, composed, link>>

LEMMA OnJoinedEntered ==
  ASSUME Typed, NEW c \in Client, Entered(c), OnJoined(c)
  PROVE  Entered(c)' /\ session'[c] = bound[c] /\ session'[c] \in Author
         /\ \A msg \in composed : msg.order.by # session'[c]
<1>1. /\ down[c] # << >> /\ Received(c) /\ Head(down[c]).op = "joined"
      /\ session'[c] = Head(down[c]).member /\ awaits'[c] = awaits[c] \ {"join"}
      /\ UNCHANGED Bindings /\ up' = up /\ conn' = conn
  BY DEF OnJoined, Comes, Bindings, server, Typed, TypeOK
<1>2. Head(down[c]).member \in Author
  <2>1. Head(down[c]) \in Packet
    BY <1>1, ReceivedTyped
  <2> QED
    BY <1>1, <2>1, Packets
<1>3. /\ Leads(down'[c], "answer", Entries) /\ Ops(down'[c]) \cap Entries = {}
      /\ "rejoin" \notin Ops(up[c]) /\ "join" \notin Ops(up[c]) /\ c \notin withheld
      /\ \A k \in DOMAIN down'[c] : down'[c][k].op = "closed" =>
           c \notin listening /\ \A n \in k + 1 .. Len(down'[c]) : down'[c][n].op = "answer"
      /\ session'[c] = bound[c] /\ \A msg \in composed : msg.order.by # bound[c]
  BY <1>1, TakenEntered
<1>4. session'[c] # None /\ bound'[c] = session'[c]
  BY <1>1, <1>2, <1>3, RelayAssumption DEF Bindings
<1>5. /\ \A k \in DOMAIN up[c] : up[c][k].op \in Ops(up[c])
      /\ \A k \in DOMAIN down'[c] : down'[c][k].op \in Ops(down'[c])
  BY DEF Ops
<1>6. Asking(c)'
  BY <1>1, <1>3, <1>5 DEF Entered, Asking
<1>7. Refusing(c)' /\ Answering(c)' /\ Inside(c)'
  BY <1>1, <1>3, <1>4, <1>5 DEF Refusing, Answering, Inside, Entries, Bindings
<1> QED
  BY <1>1, <1>2, <1>3, <1>6, <1>7 DEF Entered

LEMMA OnJoinRefusedEntered ==
  ASSUME Typed, NEW c \in Client, Entered(c), OnJoinRefused(c)
  PROVE  Entered(c)'
<1>1. /\ down[c] # << >> /\ Received(c) /\ Head(down[c]).op = "join_refused"
      /\ awaits'[c] = awaits[c] \ {"join"}
      /\ UNCHANGED Bindings /\ up' = up /\ conn' = conn /\ session' = session
  BY DEF OnJoinRefused, Comes, Bindings, server, Typed, TypeOK
<1>2. /\ Ops(down[c]) = Ops(down'[c]) \cup {"join_refused"}
      /\ Leads(down'[c], "answer", Entries) /\ Ops(down'[c]) \cap Entries = {}
      /\ "rejoin" \notin Ops(up[c]) /\ "join" \notin Ops(up[c]) /\ c \notin withheld
      /\ \A k \in DOMAIN down'[c] : down'[c][k].op = "closed" =>
           c \notin listening /\ \A n \in k + 1 .. Len(down'[c]) : down'[c][n].op = "answer"
  BY <1>1, TakenEntered
<1>3. /\ \A k \in DOMAIN up[c] : up[c][k].op \in Ops(up[c])
      /\ \A k \in DOMAIN down'[c] : down'[c][k].op \in Ops(down'[c])
  BY DEF Ops
<1>4. session[c] = None /\ "joined" \notin Ops(down[c])
  BY <1>2 DEF Entered, Answering, Entries
<1>5. Asking(c)'
  BY <1>1, <1>2, <1>3, <1>4 DEF Entered, Asking
<1>6. Refusing(c)' /\ Answering(c)' /\ Inside(c)'
  BY <1>1, <1>2, <1>3, <1>4 DEF Entered, Refusing, Answering, Inside, Entries, Bindings
<1> QED
  BY <1>5, <1>6 DEF Entered

LEMMA OnRejoinedEntered ==
  ASSUME Typed, NEW c \in Client, Entered(c), OnRejoined(c)
  PROVE  Entered(c)'
<1>1. /\ down[c] # << >> /\ Received(c) /\ Head(down[c]).op = "rejoined"
      /\ UNCHANGED Bindings /\ session' = session
  BY DEF OnRejoined, Comes, Bindings, server
<1>2. /\ Ops(down[c]) = Ops(down'[c]) \cup {"rejoined"}
      /\ Leads(down'[c], "answer", Entries) /\ Ops(down'[c]) \cap Entries = {}
      /\ "rejoin" \notin Ops(up[c]) /\ "join" \notin Ops(up[c]) /\ c \notin withheld
      /\ \A k \in DOMAIN down'[c] : down'[c][k].op = "closed" =>
           c \notin listening /\ \A n \in k + 1 .. Len(down'[c]) : down'[c][n].op = "answer"
  BY <1>1, TakenEntered
<1>3. /\ Leads(up'[c], "send", {"join", "rejoin"})
      /\ Ops(up'[c]) \subseteq Ops(up[c]) \cup {"send"}
      /\ "join" \in awaits'[c] => "join" \in awaits[c]
  <2>1. CASE "rejoin" \in awaits[c]
    <3>1. Flush(c, outbox[c], awaits[c] \ {"rejoin"}) /\ outbox[c] \in Seq(Message)
          /\ awaits[c] \ {"rejoin"} \in SUBSET {"join", "rejoin", "send"}
      BY <2>1, Queued DEF OnRejoined, Typed, TypeOK
    <3> QED
      BY <3>1, FlushEntered DEF Entered
  <2>2. CASE "rejoin" \notin awaits[c]
    BY <2>2 DEF OnRejoined, Entered, Asking
  <2> QED
    BY <2>1, <2>2
<1>4. /\ \A k \in DOMAIN up'[c] : up'[c][k].op \in Ops(up'[c])
      /\ \A k \in DOMAIN down'[c] : down'[c][k].op \in Ops(down'[c])
  BY DEF Ops
<1>5. session[c] # None /\ bound[c] # None
  BY <1>2 DEF Entered, Answering
<1>6. Asking(c)'
  BY <1>1, <1>2, <1>3, <1>4 DEF Entered, Asking
<1>7. Refusing(c)' /\ Answering(c)' /\ Inside(c)'
  BY <1>1, <1>2, <1>4, <1>5 DEF Entered, Refusing, Answering, Inside, Entries, Bindings
<1> QED
  BY <1>6, <1>7 DEF Entered

LEMMA OnRejoinRefusedEntered ==
  ASSUME Typed, NEW c \in Client, Entered(c), OnRejoinRefused(c)
  PROVE  Entered(c)'
<1>1. /\ down[c] # << >> /\ Received(c) /\ Head(down[c]).op = "rejoin_refused"
      /\ UNCHANGED Bindings /\ up' = up
      /\ "join" \in awaits'[c] <=> "join" \in awaits[c]
      /\ session'[c] \in {session[c], None} /\ (session'[c] = None \/ conn' = conn)
  BY DEF OnRejoinRefused, ClearSession, Comes, Bindings, server, Typed, TypeOK
<1>2. /\ Ops(down[c]) = Ops(down'[c]) \cup {"rejoin_refused"}
      /\ Leads(down'[c], "answer", Entries) /\ Ops(down'[c]) \cap Entries = {}
      /\ "rejoin" \notin Ops(up[c]) /\ "join" \notin Ops(up[c]) /\ c \notin withheld
      /\ \A k \in DOMAIN down'[c] : down'[c][k].op = "closed" =>
           c \notin listening /\ \A n \in k + 1 .. Len(down'[c]) : down'[c][n].op = "answer"
  BY <1>1, TakenEntered
<1>3. /\ \A k \in DOMAIN up[c] : up[c][k].op \in Ops(up[c])
      /\ \A k \in DOMAIN down'[c] : down'[c][k].op \in Ops(down'[c])
  BY DEF Ops
<1>4. session[c] # None /\ session[c] \notin members /\ bound[c] = None
  BY <1>2 DEF Entered, Refusing
<1>5. c \notin listening /\ Ops(down'[c]) \subseteq {"answer"} /\ "join" \notin awaits[c]
  BY <1>2, <1>4 DEF Entered, Asking, Inside, Entries
<1>6. None \notin members
  BY RelayAssumption DEF Typed, TypeOK
<1>7. Asking(c)'
  BY <1>1, <1>2, <1>3, <1>5 DEF Entered, Asking
<1>8. Refusing(c)' /\ Answering(c)' /\ Inside(c)'
  BY <1>1, <1>2, <1>3, <1>4, <1>5, <1>6 DEF Refusing, Answering, Inside, Entries, Bindings
<1> QED
  BY <1>7, <1>8 DEF Entered

LEMMA OnAnswerEntered ==
  ASSUME Typed, NEW c \in Client, Wired(c), Entered(c), OnAnswer(c)
  PROVE  Entered(c)'
<1>1. /\ down[c] # << >> /\ Received(c) /\ Head(down[c]).op = "answer" /\ Comes(c, "answer")
      /\ UNCHANGED Bindings /\ session' = session /\ conn' = conn
  BY DEF OnAnswer, Comes, Bindings, server
<1>2. /\ Ops(down[c]) = Ops(down'[c]) \cup {"answer"}
      /\ Leads(down'[c], "answer", Entries)
      /\ "rejoin" \notin Ops(up[c])
      /\ \A k \in DOMAIN down'[c] : down'[c][k].op = "joined" =>
           /\ down'[c][k].member = bound[c]
           /\ \A msg \in composed : msg.order.by # bound[c]
      /\ \A k \in DOMAIN down'[c] : down'[c][k].op = "closed" =>
           c \notin listening /\ \A n \in k + 1 .. Len(down'[c]) : down'[c][n].op = "answer"
  BY <1>1, TakenEntered
<1>3. /\ Leads(up'[c], "send", {"join", "rejoin"})
      /\ Ops(up'[c]) \subseteq Ops(up[c]) \cup {"send"}
      /\ "join" \in awaits'[c] <=> "join" \in awaits[c]
  <2>1. CASE up'[c] = up[c]
    BY <2>1 DEF OnAnswer, Entered, Asking, Typed, TypeOK
  <2>2. CASE up'[c] # up[c]
    <3> DEFINE queue == Tail(outbox[c])
    <3>1. /\ ~ (late[c] > 0) /\ queue # << >>
          /\ up'[c] = Append(up[c], Send(Head(queue)))
          /\ awaits'[c] = awaits[c]
      BY <2>2 DEF OnAnswer, Typed, TypeOK
    <3>2. outbox[c] # << >>
      BY <1>1, <3>1, AnswerIsAwaited DEF Typed, TypeOK
    <3>3. Head(queue) \in Message
      BY <3>1, <3>2, Queued, Taken
    <3> HIDE DEF queue
    <3> QED
      BY <3>1, <3>3, SendAdded DEF Entered
  <2> QED
    BY <2>1, <2>2
<1>4. /\ \A k \in DOMAIN up'[c] : up'[c][k].op \in Ops(up'[c])
      /\ \A k \in DOMAIN down'[c] : down'[c][k].op \in Ops(down'[c])
  BY DEF Ops
<1>5. "join" \in Ops(up'[c]) => "join" \in Ops(up[c])
  BY <1>3
<1>6. Asking(c)'
  BY <1>1, <1>2, <1>3, <1>4, <1>5 DEF Entered, Asking
<1>7. Refusing(c)' /\ Answering(c)' /\ Inside(c)'
  BY <1>1, <1>2, <1>3, <1>4 DEF Entered, Refusing, Answering, Inside, Entries, Bindings
<1> QED
  BY <1>6, <1>7 DEF Entered

LEMMA OnOrderEntered ==
  ASSUME Typed, NEW c \in Client, Entered(c), OnOrder(c)
  PROVE  Entered(c)'
<1>1. /\ down[c] # << >> /\ Received(c) /\ Head(down[c]).op = "order"
      /\ UNCHANGED Bindings /\ up' = up /\ session' = session /\ conn' = conn /\ awaits' = awaits
  BY DEF OnOrder, Comes, Bindings, server
<1>2. /\ Ops(down[c]) = Ops(down'[c]) \cup {"order"}
      /\ Leads(down'[c], "answer", Entries) /\ Ops(down'[c]) \cap Entries = {}
      /\ "rejoin" \notin Ops(up[c]) /\ "join" \notin Ops(up[c]) /\ c \notin withheld
      /\ \A k \in DOMAIN down'[c] : down'[c][k].op = "closed" =>
           c \notin listening /\ \A n \in k + 1 .. Len(down'[c]) : down'[c][n].op = "answer"
  BY <1>1, TakenEntered
<1>3. /\ \A k \in DOMAIN up[c] : up[c][k].op \in Ops(up[c])
      /\ \A k \in DOMAIN down'[c] : down'[c][k].op \in Ops(down'[c])
  BY DEF Ops
<1>4. Asking(c)'
  BY <1>1, <1>2, <1>3 DEF Entered, Asking
<1>5. Refusing(c)' /\ Answering(c)' /\ Inside(c)'
  BY <1>1, <1>2, <1>3 DEF Entered, Refusing, Answering, Inside, Entries, Bindings
<1> QED
  BY <1>4, <1>5 DEF Entered

LEMMA OnClosedEntered ==
  ASSUME Typed, NEW c \in Client, Entered(c), OnClosed(c)
  PROVE  Entered(c)'
<1>1. /\ down[c] # << >> /\ Received(c) /\ Head(down[c]).op = "closed"
      /\ UNCHANGED Bindings /\ up' = up /\ session'[c] = None /\ awaits' = awaits
  BY DEF OnClosed, ClearSession, Comes, Bindings, server, Typed, TypeOK
<1>2. /\ Leads(down'[c], "answer", Entries) /\ Ops(down'[c]) \subseteq {"answer"}
      /\ "rejoin" \notin Ops(up[c]) /\ "join" \notin Ops(up[c]) /\ c \notin withheld
      /\ c \notin listening
  BY <1>1, TakenEntered
<1>3. /\ \A k \in DOMAIN up[c] : up[c][k].op \in Ops(up[c])
      /\ \A k \in DOMAIN down'[c] : down'[c][k].op \in Ops(down'[c])
  BY DEF Ops
<1>4. None \notin members
  BY RelayAssumption DEF Typed, TypeOK
<1>5. Asking(c)'
  BY <1>1, <1>2, <1>3 DEF Entered, Asking
<1>6. Refusing(c)' /\ Answering(c)' /\ Inside(c)'
  BY <1>1, <1>2, <1>3, <1>4 DEF Refusing, Answering, Inside, Entries, Bindings
<1> QED
  BY <1>5, <1>6 DEF Entered

LEMMA ServeJoinEntered ==
  ASSUME Typed, NEW c \in Client, Entered(c), Owned, ServeJoin(c)
  PROVE  Entered(c)'
<1> DEFINE m == Fresh(Author \ given)
           joined == [op |-> "joined", member |-> m, recent |-> Recent(history, m)]
           refused == [op |-> "join_refused"]
<1>1. up[c] # << >> /\ Served(c) /\ Head(up[c]).op = "join"
  BY DEF ServeJoin, Asked
<1>2. UNCHANGED <<session, conn, awaits, link, withheld, composed>>
  BY DEF ServeJoin, client
<1>3. up'[c] = Tail(up[c]) /\ up[c] \in Seq(Request)
  BY <1>1, <1>2, ServedTyped
<1>4. Ops(up[c]) = Ops(up'[c]) \cup {"join"}
  BY <1>1, <1>3, Taken
<1>5. session[c] = None /\ "join" \in awaits[c] /\ Ops(down[c]) \subseteq {"answer"}
  BY <1>4 DEF Entered, Asking
<1>6. Leads(up'[c], "send", {"join", "rejoin"}) /\ Ops(up'[c]) \cap {"join", "rejoin"} = {}
  BY <1>1, <1>3, LeadsTaken DEF Entered, Asking
<1>7. \A k \in DOMAIN up'[c] : up'[c][k].op \in Ops(up'[c])
  BY DEF Ops
<1>8. Asking(c)'
  BY <1>2, <1>5, <1>6, <1>7 DEF Asking
<1>9. c \notin withheld /\ None \notin members'
  <2>1. Typed'
    BY ServeJoinTyped
  <2> QED
    BY <1>5, <2>1, RelayAssumption DEF Entered, Refusing, Typed, TypeOK
<1>10. down[c] \in Seq(Packet) /\ \A k \in DOMAIN down[c] : down[c][k].op \in Ops(down[c])
  BY Channels
<1>11. CASE /\ given # Author /\ Enter(c, m) /\ down' = Answered(down, c, joined)
  <2>1. m \in Author /\ m \notin given
    BY <1>11 DEF Fresh, Typed, TypeOK
  <2>2. joined \in Packet
    BY <2>1, Packets DEF Recent, Typed, TypeOK
  <2>3. bound'[c] = m /\ c \in listening'
    BY <1>11 DEF Enter, Typed, TypeOK
  <2>4. joined.op = "joined" /\ joined.member = m
    OBVIOUS
  <2> HIDE DEF m, joined
  <2>5. down'[c] = Append(down[c], joined)
    BY <1>11, <2>2, AnsweredTyped
  <2>6. /\ DOMAIN down'[c] = DOMAIN down[c] \cup {Len(down[c]) + 1}
        /\ \A k \in DOMAIN down[c] : down'[c][k] = down[c][k]
        /\ down'[c][Len(down[c]) + 1] = joined
        /\ Ops(down'[c]) = Ops(down[c]) \cup {"joined"}
    BY <1>10, <2>2, <2>4, <2>5, Added
  <2>7. Leads(down'[c], "answer", Entries)
    BY <1>5, <1>10, <2>2, <2>5, LeadsAdded DEF Entered, Answering
  <2>8. \A msg \in composed' : msg.order.by # m
    BY <1>2, <2>1 DEF Owned
  <2>9. Answering(c)'
    BY <1>2, <1>5, <1>10, <2>3, <2>4, <2>6, <2>7, <2>8 DEF Answering
  <2>10. Refusing(c)' /\ Inside(c)'
    BY <1>2, <1>5, <1>9, <2>1, <2>3, <2>6, RelayAssumption DEF Refusing, Inside
  <2> QED
    BY <1>8, <2>9, <2>10 DEF Entered
<1>12. CASE down' = Answered(down, c, refused) /\ UNCHANGED <<bound, listening, members, given>>
  <2>1. refused \in Packet /\ refused.op = "join_refused"
    BY Packets
  <2> HIDE DEF refused
  <2>2. down'[c] = Append(down[c], refused)
    BY <1>12, <2>1, AnsweredTyped
  <2>3. /\ DOMAIN down'[c] = DOMAIN down[c] \cup {Len(down[c]) + 1}
        /\ \A k \in DOMAIN down[c] : down'[c][k] = down[c][k]
        /\ down'[c][Len(down[c]) + 1] = refused
        /\ Ops(down'[c]) = Ops(down[c]) \cup {"join_refused"}
    BY <1>10, <2>1, <2>2, Added
  <2>4. Leads(down'[c], "answer", Entries)
    BY <1>5, <1>10, <2>1, <2>2, LeadsAdded DEF Entered, Answering
  <2>5. Answering(c)'
    BY <1>2, <1>5, <1>10, <2>1, <2>3, <2>4 DEF Answering
  <2>6. Refusing(c)' /\ Inside(c)'
    BY <1>2, <1>5, <1>9, <1>12, <2>3 DEF Entered, Refusing, Inside
  <2> QED
    BY <1>8, <2>5, <2>6 DEF Entered
<1> QED
  BY <1>11, <1>12 DEF ServeJoin

LEMMA ServeRejoinEntered ==
  ASSUME Typed, NEW c \in Client, Entered(c), ServeRejoin(c)
  PROVE  Entered(c)' /\ Head(up[c]).member = session[c] /\ bound'[c] \in {None, session[c]}
<1> DEFINE m == Head(up[c]).member
           p == [op |-> "rejoined", recent |-> Recent(history, m)]
<1>1. up[c] # << >> /\ Served(c) /\ Head(up[c]).op = "rejoin"
  BY DEF ServeRejoin, Asked
<1>2. UNCHANGED <<session, conn, awaits, link, composed, members>>
  BY DEF ServeRejoin, client
<1>3. up'[c] = Tail(up[c]) /\ up[c] \in Seq(Request)
  BY <1>1, <1>2, ServedTyped
<1>4. Ops(up[c]) = Ops(up'[c]) \cup {"rejoin"} /\ Head(up[c]) = up[c][1] /\ 1 \in DOMAIN up[c]
  BY <1>1, <1>3, Taken
<1>5. /\ down[c] = << >> /\ bound[c] = None /\ session[c] # None
      /\ ~conn[c] /\ c \notin withheld /\ m = session[c] /\ c \notin listening
  BY <1>1, <1>4 DEF Entered, Asking, Inside
<1>6. Leads(up'[c], "send", {"join", "rejoin"}) /\ Ops(up'[c]) \cap {"join", "rejoin"} = {}
  BY <1>1, <1>3, LeadsTaken DEF Entered, Asking
<1>7. \A k \in DOMAIN up'[c] : up'[c][k].op \in Ops(up'[c])
  BY DEF Ops
<1>8. Asking(c)'
  BY <1>2, <1>5, <1>6, <1>7 DEF Entered, Asking
<1>9. CASE m \in members
  <2>1. m \in Author
    BY <1>5, Channels
  <2>2. p \in Packet /\ p.op = "rejoined"
    BY <2>1, Packets DEF Recent, Typed, TypeOK
  <2> HIDE DEF p
  <2>3. /\ Enter(c, m) /\ down' = Answered(down, c, p) /\ withheld' = withheld
    BY <1>9 DEF ServeRejoin, p
  <2>4. bound'[c] = m /\ c \in listening'
    BY <2>3 DEF Enter, Typed, TypeOK
  <2>5. down'[c] = << p >>
    BY <1>5, <2>2, <2>3, AnsweredTyped
  <2>6. DOMAIN down'[c] = {1} /\ down'[c][1] = p
    BY <2>5
  <2>7. Ops(down'[c]) = {"rejoined"} /\ Leads(down'[c], "answer", Entries)
    BY <2>2, <2>6 DEF Ops, Leads
  <2>8. Answering(c)'
    BY <1>2, <1>5, <2>1, <2>2, <2>4, <2>6, <2>7, RelayAssumption DEF Answering
  <2>9. Refusing(c)' /\ Inside(c)'
    BY <1>2, <1>5, <2>1, <2>3, <2>4, <2>7, RelayAssumption DEF Refusing, Inside
  <2> QED
    BY <1>5, <1>8, <2>4, <2>8, <2>9 DEF Entered
<1>10. CASE m \notin members
  <2>1. withheld' = withheld \cup {c} /\ UNCHANGED <<bound, listening, down>>
    BY <1>10 DEF ServeRejoin
  <2>2. Ops(down'[c]) = {} /\ DOMAIN down'[c] = {}
    BY <1>5, <2>1, EmptyChannel
  <2>3. Refusing(c)' /\ Answering(c)' /\ Inside(c)'
    BY <1>2, <1>5, <1>10, <2>1, <2>2 DEF Refusing, Answering, Inside, Leads
  <2> QED
    BY <1>5, <1>8, <2>1, <2>3 DEF Entered
<1> QED
  BY <1>9, <1>10

LEMMA RefuseRejoinEntered ==
  ASSUME Typed, NEW c \in Client, Entered(c), RefuseRejoin(c)
  PROVE  Entered(c)'
<1> DEFINE p == [op |-> "rejoin_refused"]
<1>1. /\ c \in withheld /\ withheld' = withheld \ {c} /\ down' = Answered(down, c, p)
      /\ UNCHANGED <<session, conn, awaits, link, up, bound, listening, members, composed>>
  BY DEF RefuseRejoin, client
<1>2. p \in Packet /\ p.op = "rejoin_refused"
  BY Packets
<1> HIDE DEF p
<1>3. down'[c] = Append(down[c], p)
  BY <1>1, <1>2, AnsweredTyped
<1>4. /\ Ops(down[c]) \subseteq {"answer"} /\ session[c] # None
      /\ session[c] \notin members /\ bound[c] = None
  BY <1>1 DEF Entered, Refusing
<1>5. /\ down[c] \in Seq(Packet) /\ \A k \in DOMAIN down[c] : down[c][k].op \in Ops(down[c])
      /\ \A k \in DOMAIN up[c] : up[c][k].op \in Ops(up[c])
  BY Channels
<1>6. /\ DOMAIN down'[c] = DOMAIN down[c] \cup {Len(down[c]) + 1}
      /\ \A k \in DOMAIN down[c] : down'[c][k] = down[c][k]
      /\ down'[c][Len(down[c]) + 1] = p
      /\ Ops(down'[c]) = Ops(down[c]) \cup {"rejoin_refused"}
  BY <1>2, <1>3, <1>5, Added
<1>7. Leads(down'[c], "answer", Entries)
  BY <1>2, <1>3, <1>4, <1>5, LeadsAdded DEF Entered, Answering
<1>8. "join" \notin Ops(up[c]) /\ "rejoin" \notin Ops(up[c]) /\ c \notin listening
  BY <1>1, <1>4 DEF Entered, Asking, Inside
<1>9. Asking(c)'
  BY <1>1, <1>5, <1>8 DEF Entered, Asking
<1>10. Refusing(c)' /\ Answering(c)' /\ Inside(c)'
  BY <1>1, <1>2, <1>4, <1>5, <1>6, <1>7, <1>8 DEF Refusing, Answering, Inside
<1> QED
  BY <1>9, <1>10 DEF Entered

LEMMA ServeSendEntered ==
  ASSUME Typed, NEW c \in Client, Entered(c), ServeSend(c)
  PROVE  Entered(c)'
<1>1. /\ UNCHANGED <<session, conn, awaits, link, bound, listening, withheld, members, composed>>
      /\ up[c] # << >> /\ Served(c) /\ Head(up[c]).op = "send"
  BY ServeSendTyped DEF client
<1>2. PICK answer \in Answer : down'[c] = Append(down[c], [op |-> "answer", answer |-> answer])
  BY ServeSendTyped
<1> DEFINE p == [op |-> "answer", answer |-> answer]
<1>3. p \in Packet /\ p.op = "answer" /\ down'[c] = Append(down[c], p)
  BY <1>2, Packets
<1> HIDE DEF p
<1>4. up'[c] = Tail(up[c]) /\ up[c] \in Seq(Request)
  BY <1>1, ServedTyped
<1>5. /\ Ops(up[c]) = Ops(up'[c]) \cup {"send"} /\ Head(up[c]) = up[c][1]
      /\ Leads(up'[c], "send", {"join", "rejoin"})
  BY <1>1, <1>4, Taken, LeadsTaken DEF Entered, Asking
<1>6. "rejoin" \notin Ops(up[c])
  BY <1>1, <1>5 DEF Entered, Asking, Ops
<1>7. /\ \A k \in DOMAIN down[c] : down[c][k].op \in Ops(down[c])
      /\ \A k \in DOMAIN up'[c] : up'[c][k].op \in Ops(up'[c])
      /\ down[c] \in Seq(Packet)
  BY Channels DEF Ops
<1>8. /\ DOMAIN down'[c] = DOMAIN down[c] \cup {Len(down[c]) + 1}
      /\ \A k \in DOMAIN down[c] : down'[c][k] = down[c][k]
      /\ down'[c][Len(down[c]) + 1] = p
      /\ Ops(down'[c]) = Ops(down[c]) \cup {"answer"}
      /\ Len(down'[c]) = Len(down[c]) + 1 /\ DOMAIN down[c] = 1 .. Len(down[c]) /\ Len(down[c]) \in Nat
  BY <1>3, <1>7, Added
<1>9. Leads(down'[c], "answer", Entries)
  BY <1>3, <1>7, LeadsAdded DEF Entered, Answering, Entries
<1>10. Asking(c)'
  BY <1>1, <1>5, <1>6, <1>7, <1>8 DEF Entered, Asking
<1>11. ASSUME NEW k \in DOMAIN down'[c], down'[c][k].op = "closed"
       PROVE  c \notin listening /\ \A n \in k + 1 .. Len(down'[c]) : down'[c][n].op = "answer"
  <2>1. k \in DOMAIN down[c] /\ down[c][k].op = "closed"
    BY <1>3, <1>8, <1>11
  <2>2. c \notin listening /\ \A n \in k + 1 .. Len(down[c]) : down[c][n].op = "answer"
    BY <2>1 DEF Entered, Answering
  <2>3. ASSUME NEW n \in k + 1 .. Len(down'[c]) PROVE down'[c][n].op = "answer"
    <3>1. n \in DOMAIN down[c] \/ n = Len(down[c]) + 1
      BY <1>8, <2>1
    <3>2. n \in DOMAIN down[c] => n \in k + 1 .. Len(down[c])
      BY <1>8, <2>1
    <3> QED
      BY <1>3, <1>8, <2>2, <3>1, <3>2
  <2> QED
    BY <2>2, <2>3
<1>12. Answering(c)'
  BY <1>1, <1>3, <1>8, <1>9, <1>11 DEF Entered, Answering
<1>13. Refusing(c)' /\ Inside(c)'
  BY <1>1, <1>6, <1>8 DEF Entered, Refusing, Inside
<1> QED
  BY <1>10, <1>12, <1>13 DEF Entered

\* A connection that listens is told of an order, or that it is over.
LEMMA ToldEntered ==
  ASSUME Typed, NEW c \in Client, Entered(c), c \in listening,
         NEW p \in Packet, p.op \in {"order", "closed", "kicked"},
         p.op = "closed" => c \notin listening',
         down'[c] = Append(down[c], p), up'[c] = up[c] \/ up'[c] = << >>,
         UNCHANGED <<session, conn, awaits, bound, withheld, composed>>
  PROVE  Entered(c)'
<1>1. /\ \A k \in DOMAIN down[c] : down[c][k].op \in Ops(down[c])
      /\ \A k \in DOMAIN up[c] : up[c][k].op \in Ops(up[c])
      /\ down[c] \in Seq(Packet)
  BY Channels
<1>2. /\ DOMAIN down'[c] = DOMAIN down[c] \cup {Len(down[c]) + 1}
      /\ \A k \in DOMAIN down[c] : down'[c][k] = down[c][k]
      /\ down'[c][Len(down[c]) + 1] = p
      /\ Ops(down'[c]) = Ops(down[c]) \cup {p.op}
      /\ Len(down'[c]) = Len(down[c]) + 1 /\ DOMAIN down[c] = 1 .. Len(down[c]) /\ Len(down[c]) \in Nat
  BY <1>1, Added
<1>3. Leads(down'[c], "answer", Entries)
  BY <1>1, LeadsAdded DEF Entered, Answering, Entries
<1>4. bound[c] # None /\ ~ (session[c] = None /\ "joined" \notin Ops(down[c]))
  BY DEF Entered, Inside
<1>5. "join" \notin Ops(up[c]) /\ "rejoin" \notin Ops(up[c])
  BY <1>4 DEF Entered, Asking
<1>6. c \notin withheld /\ "rejoin_refused" \notin Ops(down[c])
  BY <1>4 DEF Entered, Refusing
<1>7. "closed" \notin Ops(down[c])
  BY DEF Entered, Answering, Ops
<1>8. Ops(up'[c]) \subseteq Ops(up[c]) /\ Leads(up'[c], "send", {"join", "rejoin"})
  <2>1. CASE up'[c] = << >>
    BY <2>1, EmptyChannel DEF Leads
  <2> QED
    BY <2>1 DEF Entered, Asking
<1>9. \A k \in DOMAIN up'[c] : up'[c][k].op \in Ops(up'[c])
  BY DEF Ops
<1>10. Asking(c)'
  BY <1>5, <1>8, <1>9 DEF Entered, Asking
<1>11. ASSUME NEW k \in DOMAIN down'[c], down'[c][k].op = "closed"
       PROVE  p.op = "closed" /\ k = Len(down'[c])
  BY <1>1, <1>2, <1>7, <1>11
<1>12. \A k \in DOMAIN down'[c] : down'[c][k].op = "closed" =>
         c \notin listening' /\ \A n \in k + 1 .. Len(down'[c]) : down'[c][n].op = "answer"
  BY <1>2, <1>11
<1>13. Answering(c)'
  BY <1>2, <1>3, <1>12 DEF Entered, Answering
<1>14. Refusing(c)' /\ Inside(c)'
  BY <1>2, <1>4, <1>6 DEF Entered, Refusing, Inside
<1> QED
  BY <1>10, <1>13, <1>14 DEF Entered

LEMMA EndsEntered ==
  ASSUME Typed, NEW c \in Client, Entered(c), CloseRoom \/ \E m : Kick(m) \/ Expire(m)
  PROVE  Entered(c)'
<1>1. [op |-> "closed"] \in Packet /\ [op |-> "kicked"] \in Packet
  BY Packets
<1>2. CASE CloseRoom
  <2>1. /\ UNCHANGED <<session, orders, outbox, conn, awaits, late, link, up, bound, withheld, composed>>
        /\ listening' = {} /\ members' = {}
        /\ down'[c] = IF c \in listening THEN Append(down[c], [op |-> "closed"]) ELSE down[c]
    BY <1>2, CloseRoomTyped DEF client
  <2>2. CASE c \in listening
    BY <1>1, <2>1, <2>2, ToldEntered
  <2>3. CASE c \notin listening
    <3>1. Untouched(c)
      BY <2>1, <2>3 DEF Untouched
    <3> QED
      BY <2>1, <3>1, EnteredFrame
  <2> QED
    BY <2>2, <2>3
<1>3. ASSUME NEW m, Kick(m) PROVE Entered(c)'
  <2>1. /\ UNCHANGED <<session, orders, outbox, conn, awaits, late, link, bound, withheld, composed>>
        /\ members' = members \ {m}
        /\ IF c \in listening /\ bound[c] = m
           THEN down'[c] = Append(down[c], [op |-> "kicked"]) /\ up'[c] = << >>
           ELSE down'[c] = down[c] /\ up'[c] = up[c] /\ (c \in listening' <=> c \in listening)
    BY <1>3, KickTyped DEF client
  <2>2. CASE c \in listening /\ bound[c] = m
    BY <1>1, <2>1, <2>2, ToldEntered
  <2>3. CASE ~ (c \in listening /\ bound[c] = m)
    <3>1. Untouched(c)
      BY <2>1, <2>3 DEF Untouched
    <3> QED
      BY <2>1, <3>1, EnteredFrame
  <2> QED
    BY <2>2, <2>3
<1>4. ASSUME NEW m, Expire(m) PROVE Entered(c)'
  <2>1. Untouched(c) /\ members' = members \ {m} /\ composed' = composed
    BY <1>4, ExpireTyped DEF Untouched, client, wire
  <2> QED
    BY <2>1, EnteredFrame
<1> QED
  BY <1>2, <1>3, <1>4

\* What a step does with the member that a client and its connection are.
Rebinds(c) ==
  /\ session'[c] \in {session[c], bound[c], None}
  /\ bound'[c] \in {session[c], bound[c], None} \cup (given' \ given)
  /\ given \subseteq given'
  /\ \A msg \in composed' : msg \in composed \/ (msg.order.by = session[c] /\ session[c] # None)
  /\ members' \subseteq members \cup (given' \ given)

LEMMA StepRebinds ==
  ASSUME Typed, NEW c \in Client, Entered(c), Step(c)
  PROVE  Rebinds(c)
<1> USE DEF Rebinds
<1>1. CASE Connect(c)
  BY <1>1 DEF Connect, server
<1>2. CASE Drop(c) \/ Reload(c)
  BY <1>2, LossTyped, DisconnectedTyped DEF Drop, Reload
<1>3. CASE LeaveRoom(c)
  <2>1. bound'[c] = None /\ session'[c] = None
    BY <1>3, LossTyped, DisconnectedTyped DEF LeaveRoom, ClearSession, Typed, TypeOK
  <2> QED
    BY <1>3, <2>1 DEF LeaveRoom
<1>4. CASE OnKicked(c)
  <2>1. bound'[c] = None /\ session'[c] = None
    BY <1>4, LossTyped, DisconnectedTyped DEF OnKicked, ClearSession, Typed, TypeOK
  <2> QED
    BY <1>4, <2>1 DEF OnKicked
<1>5. CASE JoinRoom(c)
  BY <1>5 DEF JoinRoom, server
<1>6. CASE Compose(c)
  <2>1. PICK i \in Id, o \in Order : Submit(c, i, o) /\ o.by = session[c] /\ session[c] # None
    BY <1>6, ComposeTyped
  <2>2. composed' = composed \cup {[id |-> i, order |-> o]} /\ UNCHANGED <<session, server>>
    BY <2>1 DEF Submit
  <2> QED
    BY <2>1, <2>2 DEF server
<1>7. CASE TimeOut(c)
  BY <1>7 DEF TimeOut, server
<1>8. CASE OnJoined(c)
  BY <1>8, OnJoinedEntered DEF OnJoined, server
<1>9. CASE OnJoinRefused(c) \/ OnRejoined(c) \/ OnAnswer(c) \/ OnOrder(c)
  BY <1>9 DEF OnJoinRefused, OnRejoined, OnAnswer, OnOrder, server
<1>10. CASE OnRejoinRefused(c) \/ OnClosed(c)
  BY <1>10 DEF OnRejoinRefused, OnClosed, ClearSession, server, Typed, TypeOK
<1>11. CASE ServeJoin(c)
  <2> DEFINE m == Fresh(Author \ given)
  <2>1. /\ UNCHANGED <<session, composed>>
        /\ \/ /\ given # Author /\ bound' = [bound EXCEPT ![c] = m]
              /\ members' = members \cup {m} /\ given' = given \cup {m}
           \/ UNCHANGED <<bound, members, given>>
    BY <1>11 DEF ServeJoin, Enter, client
  <2>2. given # Author => m \notin given
    BY DEF Fresh, Typed, TypeOK
  <2> HIDE DEF m
  <2> QED
    BY <2>1, <2>2 DEF Typed, TypeOK
<1>12. CASE ServeRejoin(c)
  BY <1>12, ServeRejoinEntered DEF ServeRejoin, client
<1>13. CASE RefuseRejoin(c)
  BY <1>13 DEF RefuseRejoin, client
<1> QED
  BY <1>1, <1>2, <1>3, <1>4, <1>5, <1>6, <1>7, <1>8, <1>9, <1>10, <1>11, <1>12, <1>13 DEF Step, Handle

LEMMA StepEntered ==
  ASSUME Typed, NEW c \in Client, Wired(c), Entered(c), Owned, Step(c)
  PROVE  Entered(c)'
BY ConnectEntered, LossEntered, JoinRoomEntered, ComposeEntered, TimeOutEntered, OnJoinedEntered,
   OnJoinRefusedEntered, OnRejoinedEntered, OnRejoinRefusedEntered, OnAnswerEntered,
   OnOrderEntered, OnClosedEntered, ServeJoinEntered, ServeRejoinEntered, RefuseRejoinEntered
   DEF Step, Handle

\* Nobody else takes part in it.
LEMMA OthersEntered ==
  ASSUME Typed, Typed', NEW c \in Client, NEW d \in Client, d # c, Owned, Rebinds(c),
         Untouched(d), Entered(d)
  PROVE  Entered(d)'
<1>1. session'[d] = session[d] /\ session[d] \in given \cup {None} /\ None \notin given
  BY RelayAssumption DEF Untouched, Owned, Typed, TypeOK
<1>2. session[d] \in members' => session[d] \in members
  <2>1. None \notin given' \ given
    BY RelayAssumption DEF Typed, TypeOK
  <2> QED
    BY <1>1, <2>1 DEF Rebinds, Owned
<1>3. ASSUME "joined" \in Ops(down[d]) PROVE bound[d] # None
  <2>1. PICK k \in DOMAIN down[d] : down[d][k].op = "joined"
    BY <1>3 DEF Ops
  <2>2. down[d][k].member = bound[d] /\ down[d][k] \in Packet
    BY <2>1, Channels DEF Entered, Answering
  <2> QED
    BY <2>1, <2>2, Packets, RelayAssumption
<1>4. bound[d] # None => session[c] # bound[d]
  BY DEF Owned
<1> QED
  BY <1>2, <1>3, <1>4, EnteredFrame DEF Rebinds

LEMMA StepOwned ==
  ASSUME Typed, NEW c \in Client, Owned, Rebinds(c), \A d \in Client \ {c} : Untouched(d)
  PROVE  Owned'
<1>1. \A d \in Client \ {c} : session'[d] = session[d] /\ bound'[d] = bound[d]
  BY DEF Untouched
<1>2. given \subseteq given'
  BY DEF Rebinds
<1>3. \A d \in Client : {session'[d], bound'[d]} \subseteq given' \cup {None}
  BY <1>1, <1>2 DEF Owned, Rebinds
<1>4. \A msg \in composed' : msg.order.by \in given'
  BY <1>2 DEF Owned, Rebinds
<1>5. ASSUME NEW d \in Client, d # c
      PROVE  {session'[c], bound'[c]} \cap {session'[d], bound'[d]} \subseteq {None}
  BY <1>1, <1>5 DEF Owned, Rebinds
<1> QED
  BY <1>1, <1>3, <1>4, <1>5 DEF Owned

LEMMA EntryInit == Init => EntryInv
<1> SUFFICES ASSUME Init PROVE EntryInv
  OBVIOUS
<1>1. Owned
  BY DEF Init, Owned
<1>2. ASSUME NEW c \in Client PROVE Entered(c)
  <2>1. Ops(<< >>) = {} /\ DOMAIN << >> = {}
    BY EmptyChannel
  <2> QED
    BY <2>1 DEF Init, Entered, Asking, Refusing, Answering, Inside, Leads
<1> QED
  BY <1>1, <1>2 DEF EntryInv

LEMMA EntryStep == WireInv /\ WireInv' /\ EntryInv /\ [Next]_vars => EntryInv'
<1> SUFFICES ASSUME WireInv, WireInv', EntryInv, [Next]_vars PROVE EntryInv'
  OBVIOUS
<1>1. Typed /\ Typed' /\ (\A d \in Client : Wired(d)) /\ Owned /\ \A d \in Client : Entered(d)
  BY DEF WireInv, EntryInv
<1>2. ASSUME NEW c \in Client, Step(c) PROVE EntryInv'
  <2>1. Rebinds(c) /\ \A d \in Client \ {c} : Untouched(d)
    BY <1>1, <1>2, StepRebinds, StepTouches
  <2>2. Owned'
    BY <1>1, <2>1, StepOwned
  <2>3. ASSUME NEW d \in Client PROVE Entered(d)'
    BY <1>1, <1>2, <2>1, StepEntered, OthersEntered
  <2> QED
    BY <2>2, <2>3 DEF EntryInv
<1>3. ASSUME NEW c \in Client, ServeSend(c) PROVE EntryInv'
  <2>1. UNCHANGED <<client, link, connects, excused, bound, listening, withheld, members, given,
                    composed>>
    BY <1>1, <1>3, ServeSendTyped
  <2>2. Owned'
    BY <1>1, <2>1 DEF Owned, client
  <2>3. ASSUME NEW d \in Client, d # c PROVE Entered(d)'
    <3> DEFINE p == [op |-> "order", msg |-> Head(up[c]).msg]
    <3>1. /\ up'[d] = up[d] /\ p \in Packet
          /\ down'[d] = down[d] \/ (d \in listening /\ down'[d] = Append(down[d], p))
      <4>1. up'[d] = up[d] /\ p \in Packet
        BY <1>1, <1>3, <2>3, ServeSendTyped, Packets
      <4>2. down'[d] = down[d] \/ (d \in listening /\ down'[d] = Append(down[d], p))
        BY <1>1, <1>3, <2>3, ServeSendTyped
      <4> QED
        BY <4>1, <4>2
    <3>2. p.op = "order"
      OBVIOUS
    <3> HIDE DEF p
    <3>3. CASE down'[d] = down[d]
      <4>1. Untouched(d)
        BY <2>1, <3>1, <3>3 DEF Untouched, client
      <4> QED
        BY <1>1, <2>1, <4>1, EnteredFrame
    <3>4. CASE d \in listening /\ down'[d] = Append(down[d], p)
      BY <1>1, <2>1, <3>1, <3>2, <3>4, ToldEntered DEF client
    <3> QED
      BY <3>1, <3>3, <3>4
  <2>4. Entered(c)'
    BY <1>1, <1>3, ServeSendEntered
  <2> QED
    BY <2>2, <2>3, <2>4 DEF EntryInv
<1>4. ASSUME CloseRoom \/ \E m : Kick(m) \/ Expire(m) PROVE EntryInv'
  <2>1. \A d \in Client : Entered(d)'
    BY <1>1, <1>4, EndsEntered
  <2>2. UNCHANGED <<session, bound, given, composed>>
    BY <1>4 DEF CloseRoom, Kick, Expire, client
  <2>3. Owned'
    BY <1>1, <2>2 DEF Owned
  <2> QED
    BY <2>1, <2>3 DEF EntryInv
<1>5. CASE UNCHANGED vars
  <2>1. Owned'
    BY <1>1, <1>5 DEF Owned, vars, client, server
  <2>2. ASSUME NEW d \in Client PROVE Entered(d)'
    BY <1>1, <1>5, Stutters, EnteredFrame
  <2> QED
    BY <2>1, <2>2 DEF EntryInv
<1> QED
  BY <1>2, <1>3, <1>4, <1>5 DEF Next, Step, Serve

LEMMA EntryInvariant == Spec => []EntryInv
BY EntryInit, EntryStep, WireInvariant, PTL DEF Spec

-----------------------------------------------------------------------------
(* What is composed in a session stays on its card.                        *)
LEMMA ShownKept ==
  ASSUME NEW c \in Client, Shown(c), session'[c] = session[c],
         Held(orders[c]) \subseteq Held(orders[c])',
         \A k \in DOMAIN outbox'[c] : \E n \in DOMAIN outbox[c] : outbox'[c][k] = outbox[c][n],
         \A k \in DOMAIN up'[c] : up'[c][k].op = "send" =>
           \/ \E n \in DOMAIN up[c] : up'[c][k] = up[c][n]
           \/ \E n \in DOMAIN outbox[c] : up'[c][k].msg = outbox[c][n]
  PROVE  Shown(c)'
BY DEF Shown

LEMMA ShownSolo ==
  ASSUME Typed', NEW c \in Client, session'[c] = None
  PROVE  Shown(c)'
<1>1. ASSUME NEW msg \in Message PROVE msg.order.by # None
  BY RelayAssumption DEF Message, Order
<1>2. outbox'[c] \in Seq(Message) /\ up'[c] \in Seq(Request)
  BY DEF Typed, TypeOK
<1>3. \A k \in DOMAIN outbox'[c] : outbox'[c][k] \in Message
  BY <1>2
<1>4. \A k \in DOMAIN up'[c] : up'[c][k] \in Request
  BY <1>2
<1> QED
  BY <1>1, <1>3, <1>4, Requests DEF Shown

LEMMA ShownAlone ==
  ASSUME NEW c \in Client, Shown(c), up'[c] = up[c] \/ up'[c] = << >>,
         UNCHANGED <<session, orders, outbox>>
  PROVE  Shown(c)'
<1>1. \A k \in DOMAIN << >> : FALSE
  OBVIOUS
<1> QED
  BY <1>1 DEF Shown

LEMMA ServedShown ==
  ASSUME Typed, NEW c \in Client, Shown(c), up[c] # << >>, Served(c), composed' = composed,
         UNCHANGED <<session, orders, outbox>>
  PROVE  Shown(c)'
<1>1. up'[c] = Tail(up[c]) /\ up[c] \in Seq(Request)
  BY ServedTyped
<1>2. \A k \in DOMAIN up'[c] : k + 1 \in DOMAIN up[c] /\ up'[c][k] = up[c][k + 1]
  BY <1>1, Taken
<1> QED
  BY <1>2 DEF Shown

LEMMA ComposeShown ==
  ASSUME Typed, NEW c \in Client, Shown(c), Compose(c)
  PROVE  Shown(c)'
<1>1. PICK i \in Id, o \in Order : Submit(c, i, o) /\ o.by = session[c] /\ session[c] # None
  BY ComposeTyped
<1> DEFINE msg == [id |-> i, order |-> o]
           queue == Append(outbox[c], msg)
<1>2. msg \in Message /\ outbox[c] \in Seq(Message)
  BY Queued DEF Message
<1>3. /\ Flush(c, queue, awaits[c]) /\ awaits[c] \in SUBSET {"join", "rejoin", "send"}
      /\ orders'[c] = Overwrite(orders[c], msg) /\ outbox'[c] = queue /\ session' = session
      /\ orders[c] \in Store
  BY <1>1 DEF Submit, Typed, TypeOK
<1>4. msg.id = i
  OBVIOUS
<1> HIDE DEF msg
<1>5. queue \in Seq(Message) /\ queue # << >>
  BY <1>2
<1>6. \A k \in DOMAIN queue : queue[k] = msg \/ \E n \in DOMAIN outbox[c] : queue[k] = outbox[c][n]
  BY <1>2, Added
<1>7. Head(queue) = queue[1] /\ 1 \in DOMAIN queue
  BY <1>5, Taken
<1> HIDE DEF queue
<1>8. Held(orders[c]) \cup {msg.id} \subseteq Held(orders'[c])
  BY <1>2, <1>3, Overwritten
<1>9. \A k \in DOMAIN queue : queue[k].order.by = session[c] => queue[k].id \in Held(orders'[c])
  BY <1>6, <1>8 DEF Shown
<1>10. ASSUME NEW k \in DOMAIN up'[c], up'[c][k].op = "send", up'[c][k].msg.order.by = session[c]
       PROVE  up'[c][k].msg.id \in Held(orders'[c])
  <2>1. CASE up'[c] = up[c]
    BY <1>8, <1>10, <2>1 DEF Shown
  <2>2. CASE up'[c] = Append(up[c], Send(Head(queue)))
    <3>1. Head(queue) \in Message
      BY <1>5, Taken
    <3>2. Send(Head(queue)) \in Request /\ Send(Head(queue)).msg = queue[1] /\ up[c] \in Seq(Request)
      BY <1>7, <3>1, Requests, Channels
    <3>3. up'[c][k] = Send(Head(queue)) \/ (k \in DOMAIN up[c] /\ up'[c][k] = up[c][k])
      BY <2>2, <3>2, Added
    <3> QED
      BY <1>7, <1>8, <1>9, <1>10, <3>2, <3>3 DEF Shown
  <2> QED
    BY <1>3, <1>5, <2>1, <2>2, FlushWired
<1> QED
  BY <1>3, <1>9, <1>10 DEF Shown

LEMMA OnJoinedShown ==
  ASSUME Typed, NEW c \in Client, Entered(c), OnJoined(c)
  PROVE  Shown(c)'
<1>1. /\ \A msg \in composed : msg.order.by # session'[c]
      /\ up' = up /\ outbox' = outbox
  BY OnJoinedEntered DEF OnJoined
<1>2. \A k \in DOMAIN outbox[c] : outbox[c][k] \in composed
  BY Queued
<1>3. \A k \in DOMAIN up[c] : up[c][k].op = "send" => up[c][k].msg \in composed
  BY DEF Typed
<1> QED
  BY <1>1, <1>2, <1>3 DEF Shown

LEMMA OnRejoinedShown ==
  ASSUME Typed, NEW c \in Client, Shown(c), OnRejoined(c)
  PROVE  /\ Shown(c)' /\ Held(orders[c]) \subseteq Held(orders'[c])
         /\ "rejoin" \in awaits[c] =>
              \A k \in DOMAIN Head(down[c]).recent :
                Head(down[c]).recent[k].id \in Held(orders'[c])
<1> DEFINE recent == Head(down[c]).recent
           merged == WithSnapshot(orders[c], recent)
<1>1. /\ down[c] # << >> /\ Received(c) /\ Head(down[c]).op = "rejoined"
      /\ UNCHANGED <<session, outbox>>
  BY DEF OnRejoined, Comes
<1>2. CASE "rejoin" \in awaits[c]
  <2>1. recent \in Seq(Message)
    BY <1>1, ReceivedTyped, Packets
  <2>2. /\ orders'[c] = WithOutbox(merged, outbox[c])
        /\ Flush(c, outbox[c], awaits[c] \ {"rejoin"})
        /\ orders[c] \in Store /\ outbox[c] \in Seq(Message)
        /\ awaits[c] \ {"rejoin"} \in SUBSET {"join", "rejoin", "send"}
    BY <1>2 DEF OnRejoined, Typed, TypeOK
  <2> HIDE DEF recent
  <2>3. /\ merged \in Store /\ Held(orders[c]) \subseteq Held(merged)
        /\ \A k \in DOMAIN recent : recent[k].id \in Held(merged)
    BY <2>1, <2>2, SnapshotMerged
  <2> HIDE DEF merged
  <2>4. Held(merged) \subseteq Held(orders'[c])
    BY <2>2, <2>3, QueueShown
  <2>5. ASSUME NEW k \in DOMAIN up'[c], up'[c][k].op = "send"
        PROVE  \/ \E n \in DOMAIN up[c] : up'[c][k] = up[c][n]
               \/ \E n \in DOMAIN outbox[c] : up'[c][k].msg = outbox[c][n]
    <3>1. CASE up'[c] = up[c]
      BY <3>1
    <3>2. CASE outbox[c] # << >> /\ up'[c] = Append(up[c], Send(Head(outbox[c])))
      <4>1. /\ Head(outbox[c]) \in Message /\ Head(outbox[c]) = outbox[c][1]
            /\ 1 \in DOMAIN outbox[c]
        BY <2>2, <3>2, Taken
      <4>2. /\ Send(Head(outbox[c])) \in Request /\ Send(Head(outbox[c])).msg = outbox[c][1]
            /\ up[c] \in Seq(Request)
        BY <4>1, Requests, Channels
      <4>3. up'[c][k] = Send(Head(outbox[c])) \/ (k \in DOMAIN up[c] /\ up'[c][k] = up[c][k])
        BY <3>2, <4>2, Added
      <4> QED
        BY <4>1, <4>2, <4>3
    <3>3. \/ up'[c] = up[c]
          \/ outbox[c] # << >> /\ up'[c] = Append(up[c], Send(Head(outbox[c])))
      BY <2>2, FlushWired
    <3> QED
      BY <3>1, <3>2, <3>3
  <2>6. Held(orders[c]) \subseteq Held(orders'[c]) /\ outbox'[c] = outbox[c]
    BY <1>1, <2>3, <2>4
  <2>7. Shown(c)'
    BY <1>1, <2>5, <2>6, ShownKept
  <2> QED
    BY <2>3, <2>4, <2>7 DEF recent
<1>3. CASE "rejoin" \notin awaits[c]
  BY <1>1, <1>3, ShownAlone DEF OnRejoined
<1> QED
  BY <1>2, <1>3

LEMMA OnAnswerShown ==
  ASSUME Typed, NEW c \in Client, Wired(c), Shown(c), OnAnswer(c)
  PROVE  Shown(c)'
<1>1. Comes(c, "answer") /\ UNCHANGED <<session, orders>>
  BY DEF OnAnswer
<1>2. CASE outbox' = outbox /\ up' = up
  BY <1>1, <1>2, ShownAlone
<1>3. CASE ~ (outbox' = outbox /\ up' = up)
  <2> DEFINE queue == Tail(outbox[c])
  <2>1. /\ ~ (late[c] > 0) /\ outbox'[c] = queue
        /\ up'[c] = up[c] \/ (queue # << >> /\ up'[c] = Append(up[c], Send(Head(queue))))
    BY <1>3 DEF OnAnswer, Typed, TypeOK
  <2>2. outbox[c] # << >> /\ outbox[c] \in Seq(Message)
    BY <1>1, <2>1, AnswerIsAwaited DEF Typed, TypeOK
  <2>3. /\ queue \in Seq(Message)
        /\ \A k \in DOMAIN queue : k + 1 \in DOMAIN outbox[c] /\ queue[k] = outbox[c][k + 1]
    BY <2>2, Taken
  <2> HIDE DEF queue
  <2>4. ASSUME NEW k \in DOMAIN up'[c], up'[c][k].op = "send"
        PROVE  \/ \E n \in DOMAIN up[c] : up'[c][k] = up[c][n]
               \/ \E n \in DOMAIN outbox[c] : up'[c][k].msg = outbox[c][n]
    <3>1. CASE up'[c] = up[c]
      BY <3>1
    <3>2. CASE queue # << >> /\ up'[c] = Append(up[c], Send(Head(queue)))
      <4>1. Head(queue) \in Message /\ Head(queue) = queue[1] /\ 1 \in DOMAIN queue
        BY <2>3, <3>2, Taken
      <4>2. /\ Send(Head(queue)) \in Request /\ Send(Head(queue)).msg = queue[1]
            /\ up[c] \in Seq(Request)
        BY <4>1, Requests, Channels
      <4>3. up'[c][k] = Send(Head(queue)) \/ (k \in DOMAIN up[c] /\ up'[c][k] = up[c][k])
        BY <3>2, <4>2, Added
      <4> QED
        BY <2>3, <4>1, <4>2, <4>3
    <3> QED
      BY <2>1, <3>1, <3>2
  <2>5. \A k \in DOMAIN outbox'[c] : \E n \in DOMAIN outbox[c] : outbox'[c][k] = outbox[c][n]
    BY <2>1, <2>3
  <2> QED
    BY <1>1, <2>4, <2>5, ShownKept
<1> QED
  BY <1>2, <1>3

LEMMA StepShown ==
  ASSUME Typed, Typed', NEW c \in Client, Wired(c), Entered(c), Shown(c), Step(c) \/ ServeSend(c)
  PROVE  Shown(c)'
<1>1. CASE Connect(c)
  <2>1. /\ UNCHANGED <<session, orders, outbox>>
        /\ \A k \in DOMAIN up'[c] : up'[c][k].op # "send"
    BY <1>1 DEF Connect, Wired, Typed, TypeOK
  <2> QED
    BY <2>1 DEF Shown
<1>2. CASE Drop(c)
  BY <1>2, LossTyped, DisconnectedTyped, ShownAlone DEF Drop
<1>3. CASE Reload(c)
  <2>1. /\ UNCHANGED <<session, outbox>> /\ up'[c] = << >>
        /\ session[c] # None => orders'[c] = WithOutbox(EmptyStore, outbox[c])
        /\ outbox[c] \in Seq(Message)
    BY <1>3, LossTyped, DisconnectedTyped DEF Reload, Typed, TypeOK
  <2>2. CASE session[c] = None
    BY <2>1, <2>2, ShownSolo
  <2>3. CASE session[c] # None
    <3>1. \A k \in DOMAIN outbox[c] : outbox[c][k].id \in Held(orders'[c])
      BY <2>1, <2>3, EmptyIsStore, QueueShown
    <3> QED
      BY <2>1, <3>1, EmptyChannel DEF Shown
  <2> QED
    BY <2>2, <2>3
<1>4. CASE LeaveRoom(c) \/ OnKicked(c) \/ OnClosed(c)
  <2>1. session'[c] = None
    BY <1>4 DEF LeaveRoom, OnKicked, OnClosed, ClearSession, Typed, TypeOK
  <2> QED
    BY <2>1, ShownSolo
<1>5. CASE JoinRoom(c)
  BY <1>5, ShownSolo DEF JoinRoom
<1>6. CASE TimeOut(c) \/ OnJoinRefused(c) \/ RefuseRejoin(c)
  BY <1>6, ShownAlone DEF TimeOut, OnJoinRefused, RefuseRejoin, wire, client
<1>7. CASE OnRejoinRefused(c)
  <2>1. session'[c] = None \/ (UNCHANGED <<session, orders, outbox>> /\ up' = up)
    BY <1>7 DEF OnRejoinRefused, ClearSession, Typed, TypeOK
  <2> QED
    BY <2>1, ShownSolo, ShownAlone
<1>8. CASE OnOrder(c)
  <2>1. /\ down[c] # << >> /\ Received(c) /\ Head(down[c]).op = "order"
        /\ orders'[c] = Overwrite(orders[c], Head(down[c]).msg) /\ orders[c] \in Store
        /\ UNCHANGED <<session, outbox, up>>
    BY <1>8 DEF OnOrder, Comes, Typed, TypeOK
  <2>2. Head(down[c]).msg \in Message
    BY <2>1, ReceivedTyped, Packets
  <2>3. Held(orders[c]) \subseteq Held(orders'[c])
    BY <2>1, <2>2, Overwritten
  <2> QED
    BY <2>1, <2>3, ShownKept
<1>9. CASE ServeJoin(c) \/ ServeRejoin(c) \/ ServeSend(c)
  BY <1>9, ServedShown DEF ServeJoin, ServeRejoin, ServeSend, Asked, client
<1> QED
  BY <1>1, <1>2, <1>3, <1>4, <1>5, <1>6, <1>7, <1>8, <1>9,
     ComposeShown, OnJoinedShown, OnRejoinedShown, OnAnswerShown DEF Step, Handle

LEMMA ShownInit == Init => AllShown
<1>1. \A k \in DOMAIN << >> : FALSE
  OBVIOUS
<1> QED
  BY <1>1 DEF Init, AllShown, Shown

LEMMA ShownStep == WireInv /\ WireInv' /\ EntryInv /\ AllShown /\ [Next]_vars => AllShown'
<1> SUFFICES ASSUME WireInv, WireInv', EntryInv, AllShown, [Next]_vars,
                    NEW d \in Client
             PROVE  Shown(d)'
  BY DEF AllShown
<1>1. /\ Typed /\ Typed' /\ Shown(d)
      /\ \A c \in Client : Wired(c) /\ Entered(c) /\ Shown(c)
  BY DEF WireInv, EntryInv, AllShown
<1>2. ASSUME NEW c \in Client, Step(c) \/ ServeSend(c) PROVE Shown(d)'
  <2>1. CASE c = d
    BY <1>1, <1>2, <2>1, StepShown
  <2>2. CASE c # d
    <3>1. /\ session'[d] = session[d] /\ orders'[d] = orders[d] /\ outbox'[d] = outbox[d]
          /\ up'[d] = up[d]
      BY <1>1, <1>2, <2>2, StepTouches, ServeSendTyped, ZenonT(40) DEF Untouched, client
    <3> QED
      BY <1>1, <3>1 DEF Shown
  <2> QED
    BY <2>1, <2>2
<1>3. CASE CloseRoom \/ \E m \in Author : Kick(m) \/ Expire(m)
  <2>1. UNCHANGED <<session, orders, outbox>> /\ (up'[d] = up[d] \/ up'[d] = << >>)
    BY <1>1, <1>3, CloseRoomTyped, KickTyped, ExpireTyped DEF client, wire
  <2> QED
    BY <1>1, <2>1, ShownAlone
<1>4. CASE UNCHANGED vars
  BY <1>1, <1>4, ShownAlone DEF vars, client, wire
<1> QED
  BY <1>2, <1>3, <1>4 DEF Next, Step, Serve

LEMMA ShownInvariant == Spec => []AllShown
BY ShownInit, ShownStep, WireInvariant, EntryInvariant, PTL DEF Spec

(***************************************************************************)
(* Whatever is reloaded, merged, answered or refused, a member sees on its *)
(* card every order it has composed in its session and not sent yet        *)
(* (mergeOutbox after enterRoomUi, applyRoomState and a reload).           *)
(***************************************************************************)
THEOREM PendingIsShown == Spec => []PendingShown
<1>1. AllShown => PendingShown
  BY DEF AllShown, Shown, PendingShown, SE!ToSet
<1> QED
  BY <1>1, ShownInvariant, PTL

-----------------------------------------------------------------------------
(* No order of a session is lost.                                          *)

\* The two channels differ by other packets than those of the kind op.
Alike(s, t, op) ==
  /\ Count(t, op) = Count(s, op)
  /\ op \in Ops(t) <=> op \in Ops(s)
  /\ \A k \in DOMAIN t : IsLast(t, k, op) =>
       \E n \in DOMAIN s : IsLast(s, n, op) /\ s[n] = t[k]

LEMMA AlikeAdded ==
  ASSUME NEW T, NEW s \in Seq(T), NEW e \in T, NEW op, e.op # op
  PROVE  Alike(s, Append(s, e), op)
<1>1. Count(s, op) \in Nat
  BY Counted
<1>2. Count(Append(s, e), op) = Count(s, op) + 0
  BY CountAdded
<1>3. Ops(Append(s, e)) = Ops(s) \cup {e.op}
  BY Added
<1>4. ASSUME NEW k \in DOMAIN Append(s, e), IsLast(Append(s, e), k, op)
      PROVE  k \in DOMAIN s /\ IsLast(s, k, op) /\ Append(s, e)[k] = s[k]
  BY <1>4, LastAdded
<1> QED
  BY <1>1, <1>2, <1>3, <1>4 DEF Alike

LEMMA AlikeTaken ==
  ASSUME NEW T, NEW s \in Seq(T), s # << >>, NEW op, Head(s).op # op
  PROVE  Alike(s, Tail(s), op)
<1>1. Tail(s) \in Seq(T) /\ Ops(s) = Ops(Tail(s)) \cup {Head(s).op}
  BY Taken
<1>2. Count(Tail(s), op) \in Nat
  BY <1>1, Counted
<1>3. Count(s, op) = Count(Tail(s), op) + 0
  BY CountTaken
<1>4. ASSUME NEW k \in DOMAIN Tail(s), IsLast(Tail(s), k, op)
      PROVE  k + 1 \in DOMAIN s /\ IsLast(s, k + 1, op) /\ Tail(s)[k] = s[k + 1]
  BY <1>4, LastTaken
<1> QED
  BY <1>1, <1>2, <1>3, <1>4 DEF Alike

LEMMA AlikeSame ==
  ASSUME NEW s, NEW op
  PROVE  Alike(s, s, op)
BY DEF Alike

LEMMA SettledKept ==
  ASSUME Typed, NEW c \in Client, Owned, outbox[c] # << >>,
         outbox'[c] # << >>, Head(outbox'[c]) = Head(outbox[c]),
         accepted \subseteq accepted', members' \subseteq members \cup (given' \ given),
         \/ session'[c] \in {session[c], None}
         \/ \A msg \in composed : msg.order.by # session'[c],
         NEW answer, Settled(c, answer)
  PROVE  Settled(c, answer)'
<1>1. Head(outbox[c]) \in composed /\ Head(outbox[c]) \in Message
  BY Queued
<1>2. Head(outbox[c]).order.by \in given /\ Head(outbox[c]).order.by # None
  BY <1>1, RelayAssumption DEF Owned, Message, Order
<1> QED
  BY <1>1, <1>2 DEF Settled

LEMMA MatchedKept ==
  ASSUME Typed, NEW c \in Client, Wired(c), Owned, Matched(c),
         "send" \in awaits'[c] => "send" \in awaits[c], late'[c] = late[c],
         outbox[c] # << >> => outbox'[c] # << >> /\ Head(outbox'[c]) = Head(outbox[c]),
         Alike(up[c], up'[c], "send"), Alike(down[c], down'[c], "answer"),
         accepted \subseteq accepted', members' \subseteq members \cup (given' \ given),
         \/ session'[c] \in {session[c], None}
         \/ \A msg \in composed : msg.order.by # session'[c]
  PROVE  Matched(c)'
<1> SUFFICES ASSUME "send" \in awaits'[c], Exchanges(c)' = late'[c] + 1 PROVE Matched(c)'
  BY DEF Matched
<1>1. "send" \in awaits[c] /\ Exchanges(c) = late[c] + 1
  BY DEF Alike, Exchanges
<1>2. outbox[c] # << >> /\ outbox'[c] # << >> /\ Head(outbox'[c]) = Head(outbox[c])
  BY <1>1 DEF Wired
<1>3. ASSUME NEW k \in DOMAIN up'[c], IsLast(up'[c], k, "send")
      PROVE  up'[c][k].msg = Head(outbox'[c])
  BY <1>1, <1>2, <1>3 DEF Alike, Matched
<1>4. ASSUME "send" \notin Ops(up'[c]), NEW k \in DOMAIN down'[c], IsLast(down'[c], k, "answer")
      PROVE  Settled(c, down[c][k].answer)'
  <2>1. PICK n \in DOMAIN down[c] : IsLast(down[c], n, "answer") /\ down[c][n] = down'[c][k]
    BY <1>4 DEF Alike
  <2>2. Settled(c, down[c][n].answer)
    BY <1>1, <1>4, <2>1 DEF Alike, Matched
  <2>3. PICK answer : answer = down[c][n].answer
    OBVIOUS
  <2>4. Settled(c, answer)'
    BY <1>2, <2>2, <2>3, SettledKept
  <2> QED
    BY <2>1, <2>3, <2>4 DEF Settled
<1> QED
  BY <1>3, <1>4 DEF Matched

LEMMA MatchedIdle ==
  ASSUME NEW c \in Client, "send" \notin awaits'[c]
  PROVE  Matched(c)'
BY DEF Matched

\* The head of the queue is sent.
LEMMA SentMatched ==
  ASSUME Typed, NEW c \in Client, NEW msg \in Message,
         up'[c] = Append(up[c], Send(msg)), Head(outbox'[c]) = msg
  PROVE  Matched(c)'
<1>1. /\ up[c] \in Seq(Request) /\ Send(msg) \in Request /\ Send(msg).op = "send"
      /\ Send(msg).msg = msg
  BY Channels, Requests
<1>2. "send" \in Ops(up'[c])
  BY <1>1, Added
<1>3. ASSUME NEW k \in DOMAIN up'[c], IsLast(up'[c], k, "send") PROVE up'[c][k].msg = msg
  BY <1>1, <1>3, LastAdded
<1> QED
  BY <1>2, <1>3 DEF Matched

\* flushOutbox, with the queue as it is by then.
LEMMA FlushMatched ==
  ASSUME Typed, NEW c \in Client, Wired(c), Owned, Matched(c),
         NEW waiting \in SUBSET {"join", "rejoin", "send"},
         "send" \in waiting => "send" \in awaits[c],
         NEW queue \in Seq(Message), queue = outbox'[c],
         outbox[c] # << >> => queue # << >> /\ Head(queue) = Head(outbox[c]),
         Flush(c, queue, waiting), late'[c] = late[c], Alike(down[c], down'[c], "answer"),
         UNCHANGED <<session, accepted, members, given>>
  PROVE  Matched(c)'
<1>1. CASE "send" \in waiting
  <2>1. up'[c] = up[c]
    BY <1>1, FlushWired
  <2> QED
    BY <1>1, <2>1, AlikeSame, MatchedKept
<1>2. CASE "send" \notin waiting
  <2>1. \/ "send" \notin awaits'[c]
        \/ queue # << >> /\ up'[c] = Append(up[c], Send(Head(queue)))
    BY <1>2 DEF Flush, Typed, TypeOK
  <2>2. CASE "send" \notin awaits'[c]
    BY <2>2, MatchedIdle
  <2>3. CASE queue # << >> /\ up'[c] = Append(up[c], Send(Head(queue)))
    <3>1. Head(queue) \in Message
      BY <2>3, Taken
    <3> QED
      BY <2>3, <3>1, SentMatched
  <2> QED
    BY <2>1, <2>2, <2>3
<1> QED
  BY <1>1, <1>2

LEMMA ComposeMatched ==
  ASSUME Typed, NEW c \in Client, Wired(c), Owned, Matched(c), Compose(c)
  PROVE  Matched(c)' /\ \E msg \in Message : outbox'[c] = Append(outbox[c], msg)
                                            /\ composed' = composed \cup {msg}
<1>1. PICK i \in Id, o \in Order : Submit(c, i, o) /\ o.by = session[c] /\ session[c] # None
  BY ComposeTyped
<1> DEFINE msg == [id |-> i, order |-> o]
           queue == Append(outbox[c], msg)
<1>2. msg \in Message /\ outbox[c] \in Seq(Message)
  BY Queued DEF Message
<1>3. /\ Flush(c, queue, awaits[c]) /\ awaits[c] \in SUBSET {"join", "rejoin", "send"}
      /\ outbox'[c] = queue /\ late' = late /\ down' = down /\ composed' = composed \cup {msg}
      /\ UNCHANGED <<session, accepted, members, given>>
  BY <1>1 DEF Submit, server, Typed, TypeOK
<1> HIDE DEF msg
<1>4. queue \in Seq(Message) /\ queue # << >> /\ (outbox[c] # << >> => Head(queue) = Head(outbox[c]))
  <2>1. queue \in Seq(Message) /\ queue # << >>
    BY <1>2
  <2>2. ASSUME outbox[c] # << >> PROVE Head(queue) = Head(outbox[c])
    <3>1. Head(outbox[c]) = outbox[c][1] /\ 1 \in DOMAIN outbox[c]
      BY <1>2, <2>2, Taken
    <3>2. queue[1] = outbox[c][1]
      BY <1>2, <3>1, Added
    <3> QED
      BY <2>1, <3>1, <3>2, Taken
  <2> QED
    BY <2>1, <2>2
<1>5. Matched(c)'
  <2> HIDE DEF queue
  <2>1. Alike(down[c], down'[c], "answer")
    BY <1>3, AlikeSame
  <2> QED
    BY <1>3, <1>4, <2>1, FlushMatched
<1> QED
  BY <1>2, <1>3, <1>5

LEMMA OnAnswerMatched ==
  ASSUME Typed, NEW c \in Client, Wired(c), Owned, Matched(c), OnAnswer(c)
  PROVE  /\ Matched(c)'
         /\ \A msg \in SE!ToSet(outbox[c]) :
              \/ msg \in SE!ToSet(outbox'[c]) \cup accepted
              \/ msg.order.by \notin members \/ msg.order.by # session[c]
<1> DEFINE queue == Tail(outbox[c])
           h == Head(down[c])
<1>1. /\ down[c] # << >> /\ Received(c) /\ h.op = "answer" /\ Comes(c, "answer")
      /\ UNCHANGED <<session, accepted, members, given, composed>>
  BY DEF OnAnswer, Comes, server
<1>2. down[c] \in Seq(Packet) /\ down'[c] = Tail(down[c]) /\ late[c] \in Nat
  BY <1>1, ReceivedTyped DEF Typed, TypeOK
<1>3. CASE late[c] > 0
  <2>1. /\ late'[c] = late[c] - 1
        /\ UNCHANGED <<outbox, awaits, up>>
    BY <1>3 DEF OnAnswer, Typed, TypeOK
  <2>2. Count(down[c], "answer") = Count(down'[c], "answer") + 1
    BY <1>1, <1>2, CountTaken
  <2>3. down'[c] \in Seq(Packet)
    BY <1>1, <1>2, Taken
  <2>4. Count(down'[c], "answer") \in Nat /\ Count(up[c], "send") \in Nat
    BY <2>3, Counted, ExchangesTyped
  <2>5. Exchanges(c)' = late'[c] + 1 => Exchanges(c) = late[c] + 1
    BY <1>2, <2>1, <2>2, <2>4 DEF Exchanges
  <2>6. ASSUME NEW k \in DOMAIN down'[c], IsLast(down'[c], k, "answer")
        PROVE  \E n \in DOMAIN down[c] : IsLast(down[c], n, "answer") /\ down[c][n] = down'[c][k]
    <3>1. k + 1 \in DOMAIN down[c] /\ IsLast(down[c], k + 1, "answer") /\ down'[c][k] = down[c][k + 1]
      BY <1>1, <1>2, <2>6, LastTaken
    <3> QED
      BY <3>1
  <2>7. Matched(c)'
    <3>1. ASSUME "send" \in awaits'[c], Exchanges(c)' = late'[c] + 1
          PROVE  /\ \A k \in DOMAIN up'[c] : IsLast(up'[c], k, "send") => up'[c][k].msg = Head(outbox'[c])
                 /\ "send" \notin Ops(up'[c]) => \A k \in DOMAIN down'[c] :
                      IsLast(down'[c], k, "answer") => Settled(c, down[c][k].answer)'
      BY <1>1, <2>1, <2>5, <2>6, <3>1 DEF Matched, Settled
    <3> QED
      BY <3>1 DEF Matched
  <2> QED
    BY <2>1, <2>7
<1>4. CASE ~ (late[c] > 0)
  <2>1. late[c] = 0
    BY <1>2, <1>4
  <2>2. /\ "send" \in awaits[c] /\ outbox[c] # << >> /\ Exchanges(c) = late[c] + 1
        /\ "send" \notin Ops(up[c]) /\ "answer" \notin Ops(Tail(down[c]))
    BY <1>1, <2>1, AnswerIsAwaited
  <2>3. h = down[c][1] /\ 1 \in DOMAIN down[c] /\ IsLast(down[c], 1, "answer")
    BY <1>1, <1>2, <2>2, Taken, LastAlone
  <2>4. Settled(c, h.answer)
    BY <2>2, <2>3 DEF Matched
  <2>5. outbox[c] \in Seq(Message) /\ queue \in Seq(Message) /\ Head(outbox[c]) = outbox[c][1]
        /\ \A k \in DOMAIN outbox[c] : k # 1 => k - 1 \in DOMAIN queue /\ queue[k - 1] = outbox[c][k]
    BY <2>2, Queued, Taken
  <2>6. CASE Definitive(h.answer)
    <3>1. /\ outbox'[c] = queue
          /\ queue = << >> => awaits'[c] = awaits[c] \ {"send"}
          /\ queue # << >> => up'[c] = Append(up[c], Send(Head(queue)))
      BY <1>4, <2>6, SMTT(30) DEF OnAnswer, Typed, TypeOK
    <3> HIDE DEF queue, h
    <3>2. Matched(c)'
      <4>1. CASE queue = << >>
        BY <3>1, <4>1, MatchedIdle
      <4>2. CASE queue # << >>
        <5>1. Head(queue) \in Message
          BY <2>5, <4>2, Taken
        <5> QED
          BY <3>1, <4>2, <5>1, SentMatched
      <4> QED
        BY <4>1, <4>2
    <3>3. ASSUME NEW msg \in SE!ToSet(outbox[c])
          PROVE  msg = Head(outbox[c]) \/ msg \in SE!ToSet(outbox'[c])
      <4>1. PICK k \in DOMAIN outbox[c] : msg = outbox[c][k]
        BY DEF SE!ToSet
      <4> QED
        BY <2>5, <3>1, <4>1 DEF SE!ToSet
    <3>4. h.answer # "RATE_LIMITED"
      BY <2>6 DEF Definitive
    <3> QED
      BY <2>4, <3>2, <3>3, <3>4 DEF Settled
  <2>7. CASE ~ Definitive(h.answer)
    <3>1. outbox' = outbox /\ "send" \notin awaits'[c]
      BY <1>4, <2>7 DEF OnAnswer, Typed, TypeOK
    <3> QED
      BY <3>1, MatchedIdle
  <2> QED
    BY <2>6, <2>7
<1> QED
  BY <1>3, <1>4

\* send_order: a refusal that is final is of an order whose session is over.
LEMMA ServeSendMatched ==
  ASSUME Typed, NEW c \in Client, Wired(c), Entered(c), Owned, Matched(c), ServeSend(c)
  PROVE  Matched(c)'
<1> DEFINE msg == Head(up[c]).msg
<1>1. /\ UNCHANGED <<client, link, connects, excused, bound, listening, withheld, members, given,
                     composed>>
      /\ up[c] # << >> /\ Served(c) /\ Head(up[c]).op = "send"
  BY ServeSendTyped
<1>2. PICK answer \in Answers(c, msg) :
        /\ answer \in Answer
        /\ down'[c] = Append(down[c], [op |-> "answer", answer |-> answer])
        /\ IF answer = "ok" THEN accepted' = accepted \cup {msg} ELSE accepted' = accepted
  BY ServeSendTyped
<1> DEFINE p == [op |-> "answer", answer |-> answer]
<1>3. p \in Packet /\ p.op = "answer" /\ p.answer = answer /\ down'[c] = Append(down[c], p)
  BY <1>2, Packets
<1> HIDE DEF p
<1>4. /\ up'[c] = Tail(up[c]) /\ up[c] \in Seq(Request) /\ down[c] \in Seq(Packet)
      /\ Head(up[c]) = up[c][1] /\ 1 \in DOMAIN up[c] /\ Tail(up[c]) \in Seq(Request)
      /\ Ops(up[c]) = Ops(up'[c]) \cup {"send"}
  BY <1>1, ServedTyped, Channels, Taken
<1>5. Count(up[c], "send") = Count(up'[c], "send") + 1
  BY <1>1, <1>4, CountTaken
<1>6. Count(down'[c], "answer") = Count(down[c], "answer") + 1
  BY <1>3, <1>4, CountAdded
<1>7. Count(up'[c], "send") \in Nat /\ Count(down[c], "answer") \in Nat
  BY <1>4, Counted
<1>8. SUFFICES ASSUME "send" \in awaits'[c], Exchanges(c)' = late'[c] + 1 PROVE Matched(c)'
  BY DEF Matched
<1>9. "send" \in awaits[c] /\ Exchanges(c) = late[c] + 1 /\ outbox' = outbox
  BY <1>1, <1>5, <1>6, <1>7, <1>8 DEF Exchanges, client
<1>10. outbox[c] # << >> /\ link[c]
  BY <1>1, <1>9 DEF Wired
<1>11. ASSUME NEW k \in DOMAIN up'[c], IsLast(up'[c], k, "send")
       PROVE  up'[c][k].msg = Head(outbox[c])
  <2>1. k + 1 \in DOMAIN up[c] /\ IsLast(up[c], k + 1, "send") /\ up'[c][k] = up[c][k + 1]
    BY <1>1, <1>4, <1>11, LastTaken
  <2> QED
    BY <1>9, <2>1 DEF Matched
<1>12. ASSUME "send" \notin Ops(up'[c]) PROVE msg = Head(outbox[c])
  <2>1. IsLast(up[c], 1, "send")
    BY <1>1, <1>4, <1>12, LastAlone
  <2> QED
    BY <1>4, <1>9, <2>1 DEF Matched
<1>13. "rejoin" \notin Ops(up[c])
  BY <1>1, <1>4 DEF Entered, Asking, Ops
<1>14. session[c] \in members => bound[c] = session[c]
  BY <1>10, <1>13, RelayAssumption DEF Entered, Inside, Typed, TypeOK
<1>15. \/ answer = "RATE_LIMITED" \/ msg \in accepted'
       \/ msg.order.by \notin members \/ msg.order.by # session[c]
  BY <1>2, <1>14 DEF Answers
<1>16. ASSUME "send" \notin Ops(up'[c]), NEW k \in DOMAIN down'[c], IsLast(down'[c], k, "answer")
       PROVE  Settled(c, down[c][k].answer)'
  <2>1. down'[c][k] = p
    BY <1>3, <1>4, <1>16, LastAdded
  <2> QED
    BY <1>1, <1>3, <1>9, <1>12, <1>15, <1>16, <2>1 DEF Settled, client
<1> QED
  BY <1>9, <1>11, <1>16 DEF Matched

\* The client takes something that is not an acknowledgement.
LEMMA TakenMatched ==
  ASSUME Typed, NEW c \in Client, down[c] # << >>, Received(c), Head(down[c]).op # "answer"
  PROVE  Alike(down[c], down'[c], "answer")
BY ReceivedTyped, AlikeTaken

LEMMA StepMatched ==
  ASSUME Typed, NEW c \in Client, Wired(c), Entered(c), Owned, Matched(c), Step(c)
  PROVE  Matched(c)'
<1>0. /\ up[c] \in Seq(Request) /\ down[c] \in Seq(Packet)
      /\ Alike(up[c], up[c], "send") /\ Alike(down[c], down[c], "answer")
  BY Channels, AlikeSame
<1>1. CASE Connect(c)
  <2>1. "send" \notin awaits'[c]
    BY <1>1 DEF Connect, Wired, Typed, TypeOK
  <2> QED
    BY <2>1, MatchedIdle
<1>2. CASE Drop(c) \/ Reload(c) \/ LeaveRoom(c) \/ OnKicked(c)
  BY <1>2, LossTyped, DisconnectedTyped, MatchedIdle
<1>3. CASE JoinRoom(c)
  <2>1. /\ up'[c] = Append(up[c], [op |-> "join"]) /\ awaits'[c] = awaits[c] \cup {"join"}
        /\ UNCHANGED <<session, outbox, late, down, accepted, members, given>>
    BY <1>3 DEF JoinRoom, server, Typed, TypeOK
  <2>2. Alike(up[c], up'[c], "send")
    BY <1>0, <2>1, Requests, AlikeAdded
  <2> QED
    BY <1>0, <2>1, <2>2, MatchedKept
<1>4. CASE TimeOut(c)
  <2>1. /\ "send" \in awaits'[c] => "send" \in awaits[c] /\ late'[c] = late[c]
        /\ UNCHANGED <<session, outbox, up, down, accepted, members, given>>
    BY <1>4 DEF TimeOut, wire, server, Typed, TypeOK
  <2> QED
    BY <1>0, <2>1, MatchedKept, MatchedIdle
<1>5. CASE OnJoined(c)
  <2>1. /\ down[c] # << >> /\ Received(c) /\ Head(down[c]).op = "joined"
        /\ awaits'[c] = awaits[c] \ {"join"}
        /\ UNCHANGED <<outbox, late, up, accepted, members, given, composed>>
    BY <1>5 DEF OnJoined, Comes, server, Typed, TypeOK
  <2>2. \A msg \in composed : msg.order.by # session'[c]
    BY <1>5, OnJoinedEntered
  <2>3. Alike(down[c], down'[c], "answer")
    BY <2>1, TakenMatched
  <2> QED
    BY <1>0, <2>1, <2>2, <2>3, MatchedKept
<1>6. CASE OnJoinRefused(c) \/ OnRejoinRefused(c) \/ OnOrder(c) \/ OnClosed(c)
  <2>1. /\ down[c] # << >> /\ Received(c) /\ Head(down[c]).op # "answer"
        /\ "send" \in awaits'[c] => "send" \in awaits[c]
        /\ session'[c] \in {session[c], None}
        /\ UNCHANGED <<outbox, late, up, accepted, members, given>>
    BY <1>6 DEF OnJoinRefused, OnRejoinRefused, OnOrder, OnClosed, ClearSession, Comes, server, Typed, TypeOK
  <2>2. Alike(down[c], down'[c], "answer")
    BY <2>1, TakenMatched
  <2> QED
    BY <1>0, <2>1, <2>2, MatchedKept
<1>7. CASE OnRejoined(c)
  <2>1. /\ down[c] # << >> /\ Received(c) /\ Head(down[c]).op # "answer"
        /\ UNCHANGED <<session, outbox, late, accepted, members, given>>
    BY <1>7 DEF OnRejoined, Comes, server
  <2>2. Alike(down[c], down'[c], "answer")
    BY <2>1, TakenMatched
  <2>3. CASE "rejoin" \in awaits[c]
    <3>1. /\ Flush(c, outbox[c], awaits[c] \ {"rejoin"}) /\ outbox[c] \in Seq(Message)
          /\ awaits[c] \ {"rejoin"} \in SUBSET {"join", "rejoin", "send"}
      BY <1>7, <2>3 DEF OnRejoined, Typed, TypeOK
    <3>2. /\ late'[c] = late[c] /\ outbox[c] = outbox'[c]
          /\ "send" \in awaits[c] \ {"rejoin"} => "send" \in awaits[c]
          /\ outbox[c] # << >> => outbox[c] # << >> /\ Head(outbox[c]) = Head(outbox[c])
      BY <2>1
    <3> QED
      BY <2>1, <2>2, <3>1, <3>2, FlushMatched
  <2>4. CASE "rejoin" \notin awaits[c]
    <3>1. awaits' = awaits /\ up' = up
      BY <1>7, <2>4 DEF OnRejoined
    <3> QED
      BY <1>0, <2>1, <2>2, <3>1, MatchedKept
  <2> QED
    BY <2>3, <2>4
<1>8. CASE ServeJoin(c)
  <2> DEFINE m == Fresh(Author \ given)
             p == [op |-> "joined", member |-> m, recent |-> Recent(history, m)]
             q == [op |-> "join_refused"]
  <2>1. /\ up[c] # << >> /\ Served(c) /\ Head(up[c]).op = "join"
        /\ UNCHANGED <<session, outbox, awaits, late, accepted, composed>>
    BY <1>8 DEF ServeJoin, Asked, client
  <2>2. Alike(up[c], up'[c], "send")
    BY <1>0, <2>1, ServedTyped, AlikeTaken
  <2>3. members' \subseteq members \cup (given' \ given)
    BY <1>8, StepRebinds DEF Step, Rebinds
  <2>4. given # Author => m \in Author
    BY DEF Fresh, Typed, TypeOK
  <2>5. \/ m \in Author /\ down' = Answered(down, c, p)
        \/ down' = Answered(down, c, q)
    BY <1>8, <2>4 DEF ServeJoin
  <2>6. m \in Author => p \in Packet
    BY Packets DEF Recent, Typed, TypeOK
  <2>7. p.op # "answer" /\ q.op # "answer" /\ q \in Packet
    BY Packets
  <2> HIDE DEF p, q, m
  <2>8. \E e \in Packet : e.op # "answer" /\ down'[c] = Append(down[c], e)
    BY <2>5, <2>6, <2>7, AnsweredTyped
  <2>9. Alike(down[c], down'[c], "answer")
    BY <1>0, <2>8, AlikeAdded
  <2> QED
    BY <2>1, <2>2, <2>3, <2>9, MatchedKept
<1>9. CASE ServeRejoin(c)
  <2> DEFINE p == [op |-> "rejoined", recent |-> Recent(history, Head(up[c]).member)]
  <2>1. /\ up[c] # << >> /\ Served(c) /\ Head(up[c]).op = "rejoin"
        /\ UNCHANGED <<session, outbox, awaits, late, accepted, composed, members, given>>
        /\ down' = Answered(down, c, p) \/ down' = down
    BY <1>9 DEF ServeRejoin, Asked, client
  <2>2. Alike(up[c], up'[c], "send")
    BY <1>0, <2>1, ServedTyped, AlikeTaken
  <2>3. p \in Packet /\ p.op # "answer"
    BY Packets DEF Recent, Typed, TypeOK
  <2> HIDE DEF p
  <2>4. Alike(down[c], down'[c], "answer")
    BY <1>0, <2>1, <2>3, AnsweredTyped, AlikeAdded
  <2> QED
    BY <2>1, <2>2, <2>4, MatchedKept
<1>10. CASE RefuseRejoin(c)
  <2> DEFINE p == [op |-> "rejoin_refused"]
  <2>1. /\ UNCHANGED <<session, outbox, awaits, late, up, accepted, members, given>>
        /\ down' = Answered(down, c, p)
    BY <1>10 DEF RefuseRejoin, client
  <2>2. p \in Packet /\ p.op # "answer"
    BY Packets
  <2> HIDE DEF p
  <2>3. Alike(down[c], down'[c], "answer")
    BY <1>0, <2>1, <2>2, AnsweredTyped, AlikeAdded
  <2> QED
    BY <1>0, <2>1, <2>3, MatchedKept
<1> QED
  BY <1>1, <1>2, <1>3, <1>4, <1>5, <1>6, <1>7, <1>8, <1>9, <1>10, ComposeMatched, OnAnswerMatched
     DEF Step, Handle

\* The server tells c something that is not an answer, and may hang up on it.
LEMMA ToldMatched ==
  ASSUME Typed, NEW c \in Client, Wired(c), Owned, Matched(c),
         \/ down'[c] = down[c]
         \/ \E p \in Packet : p.op # "answer" /\ down'[c] = Append(down[c], p),
         up'[c] = up[c] \/ up'[c] = << >>,
         accepted \subseteq accepted', members' \subseteq members \cup (given' \ given),
         session'[c] = session[c], outbox'[c] = outbox[c],
         awaits'[c] = awaits[c], late'[c] = late[c]
  PROVE  Matched(c)'
<1>1. up[c] \in Seq(Request) /\ down[c] \in Seq(Packet)
  BY Channels
<1>2. Alike(down[c], down'[c], "answer")
  BY <1>1, AlikeSame, AlikeAdded
<1>3. CASE up'[c] = up[c]
  BY <1>2, <1>3, AlikeSame, MatchedKept
<1>4. CASE up'[c] = << >>
  <2> SUFFICES ASSUME "send" \in awaits'[c], Exchanges(c)' = late'[c] + 1 PROVE Matched(c)'
    BY DEF Matched
  <2>1. Count(up'[c], "send") = 0
    BY <1>4, EmptyChannel
  <2>2. /\ Count(up[c], "send") \in Nat /\ Count(down[c], "answer") \in Nat /\ late[c] \in Nat
        /\ Count(up[c], "send") = 0 <=> "send" \notin Ops(up[c])
    BY <1>1, Counted, ExchangesTyped
  <2>3. Count(up[c], "send") = 0
    BY <1>2, <2>1, <2>2 DEF Wired, Exchanges, Alike
  <2>4. Alike(up[c], up'[c], "send")
    BY <1>4, <2>2, <2>3, EmptyChannel DEF Alike
  <2> QED
    BY <1>2, <2>4, MatchedKept
<1> QED
  BY <1>3, <1>4

\* What a step of c does with its queue and its session.
LEMMA StepKeeps ==
  ASSUME Typed, NEW c \in Client, Wired(c), Entered(c), Owned, Matched(c), Step(c)
  PROVE  /\ accepted' = accepted
         /\ \A msg \in SE!ToSet(outbox[c]) :
              \/ msg \in SE!ToSet(outbox'[c]) \cup accepted
              \/ msg.order.by \notin members \/ msg.order.by # session[c]
         /\ composed' \subseteq composed \cup SE!ToSet(outbox'[c])
         /\ \/ session'[c] \in {session[c], None}
            \/ \A msg \in composed' : msg.order.by # session'[c]
<1>1. CASE Compose(c)
  <2>1. PICK msg \in Message : outbox'[c] = Append(outbox[c], msg) /\ composed' = composed \cup {msg}
    BY <1>1, ComposeMatched
  <2>2. outbox[c] \in Seq(Message)
    BY Queued
  <2>3. SE!ToSet(outbox'[c]) = SE!ToSet(outbox[c]) \cup {msg}
    BY <2>1, <2>2, Added DEF SE!ToSet
  <2>4. UNCHANGED <<session, accepted>>
    BY <1>1 DEF Compose, Submit, server
  <2> QED
    BY <2>1, <2>3, <2>4
<1>2. CASE OnAnswer(c)
  <2>1. UNCHANGED <<session, accepted, composed>>
    BY <1>2 DEF OnAnswer, server
  <2> QED
    BY <1>2, <2>1, OnAnswerMatched
<1>3. CASE OnJoined(c)
  <2>1. UNCHANGED <<outbox, accepted, composed>>
    BY <1>3 DEF OnJoined, server
  <2> QED
    BY <1>3, <2>1, OnJoinedEntered
<1>4. CASE ~ (Compose(c) \/ OnAnswer(c) \/ OnJoined(c))
  <2>1. UNCHANGED <<outbox, accepted, composed>>
    BY <1>4 DEF Step, Handle, Connect, Drop, Reload, JoinRoom, LeaveRoom, TimeOut, OnJoinRefused,
       OnRejoined, OnRejoinRefused, OnOrder, OnClosed, OnKicked, ServeJoin, ServeRejoin,
       RefuseRejoin, client, server
  <2>2. session'[c] \in {session[c], None}
    BY <1>4 DEF Typed, TypeOK, Step, Handle, Connect, Drop, Reload, JoinRoom, LeaveRoom, TimeOut,
       OnJoinRefused, OnRejoined, OnRejoinRefused, OnOrder, OnClosed, OnKicked, ClearSession,
       ServeJoin, ServeRejoin, RefuseRejoin, client
  <2> QED
    BY <2>1, <2>2
<1> QED
  BY <1>1, <1>2, <1>3, <1>4

\* Nobody else takes part in it.
LEMMA OthersMatched ==
  ASSUME Typed, NEW c \in Client, NEW d \in Client, d # c, Wired(d), Owned, Matched(d),
         Rebinds(c), Untouched(d), accepted' = accepted
  PROVE  Matched(d)'
BY AlikeSame, MatchedKept DEF Untouched, Rebinds

LEMMA StepOwnKept ==
  ASSUME Typed, Typed', NEW c \in Client, Wired(c), Entered(c), Owned, Matched(c), OwnOrdersKept,
         Step(c)
  PROVE  OwnOrdersKept'
<1>1. Rebinds(c) /\ \A d \in Client \ {c} : Untouched(d)
  BY StepRebinds, StepTouches
<1> SUFFICES ASSUME NEW msg \in composed', NEW d \in Client,
                    session'[d] = msg.order.by, session'[d] \in members'
             PROVE  msg \in SE!ToSet(outbox'[d]) \cup accepted'
  BY DEF OwnOrdersKept
<1>2. session'[d] # None
  BY RelayAssumption DEF Typed, TypeOK
<1>3. ASSUME msg \in composed, session[d] = session'[d]
      PROVE  msg \in SE!ToSet(outbox[d]) \cup accepted /\ session[d] \in members
  <2>1. session[d] \in given
    BY <1>3 DEF Owned
  <2>2. session[d] \in members
    BY <1>1, <1>3, <2>1 DEF Rebinds
  <2> QED
    BY <1>3, <2>2 DEF OwnOrdersKept
<1>4. CASE d = c
  <2>1. session'[c] = session[c]
    BY <1>2, <1>4, StepKeeps
  <2>2. CASE msg \in composed
    BY <1>3, <1>4, <2>1, <2>2, StepKeeps
  <2>3. CASE msg \notin composed
    BY <1>4, <2>3, StepKeeps
  <2> QED
    BY <2>2, <2>3
<1>5. CASE d # c
  <2>1. session'[d] = session[d] /\ outbox'[d] = outbox[d]
    BY <1>1, <1>5 DEF Untouched
  <2>2. msg \in composed
    BY <1>1, <1>2, <1>5, <2>1 DEF Rebinds, Owned
  <2> QED
    BY <1>3, <2>1, <2>2, StepKeeps
<1> QED
  BY <1>4, <1>5

LEMMA KeptInit == Init => KeptInv
BY DEF Init, KeptInv, OwnOrdersKept, Matched

LEMMA KeptStep == WireInv /\ WireInv' /\ EntryInv /\ KeptInv /\ [Next]_vars => KeptInv'
<1> SUFFICES ASSUME WireInv, WireInv', EntryInv, KeptInv, [Next]_vars PROVE KeptInv'
  OBVIOUS
<1>1. /\ Typed /\ Typed' /\ Owned /\ OwnOrdersKept
      /\ \A c \in Client : Wired(c) /\ Entered(c) /\ Matched(c)
  BY DEF WireInv, EntryInv, KeptInv
<1>2. ASSUME NEW c \in Client, Step(c) PROVE KeptInv'
  <2>1. OwnOrdersKept'
    BY <1>1, <1>2, StepOwnKept
  <2>2. ASSUME NEW d \in Client PROVE Matched(d)'
    <3>1. CASE d = c
      BY <1>1, <1>2, <3>1, StepMatched
    <3>2. CASE d # c
      BY <1>1, <1>2, <3>2, StepRebinds, StepTouches, StepKeeps, OthersMatched
    <3> QED
      BY <3>1, <3>2
  <2> QED
    BY <2>1, <2>2 DEF KeptInv
<1>3. ASSUME UNCHANGED <<session, outbox, composed>>, accepted \subseteq accepted',
             members' \subseteq members
      PROVE  OwnOrdersKept'
  BY <1>1, <1>3 DEF OwnOrdersKept
<1>4. ASSUME NEW c \in Client, ServeSend(c) PROVE KeptInv'
  <2>1. /\ UNCHANGED <<session, outbox, awaits, late, composed, members, given>>
        /\ accepted \subseteq accepted'
    BY <1>1, <1>4, ServeSendTyped DEF client
  <2>2. ASSUME NEW d \in Client, d # c PROVE Matched(d)'
    <3>1. [op |-> "order", msg |-> Head(up[c]).msg] \in Packet
      BY <1>1, <1>4, ServeSendTyped, Packets
    <3>2. /\ up'[d] = up[d]
          /\ \/ down'[d] = down[d]
             \/ down'[d] = Append(down[d], [op |-> "order", msg |-> Head(up[c]).msg])
      BY <1>1, <1>4, <2>2, ServeSendTyped
    <3>3. [op |-> "order", msg |-> Head(up[c]).msg].op # "answer"
      OBVIOUS
    <3> QED
      BY <1>1, <2>1, <3>1, <3>2, <3>3, ToldMatched
  <2>3. Matched(c)'
    BY <1>1, <1>4, ServeSendMatched
  <2> QED
    BY <1>3, <2>1, <2>2, <2>3 DEF KeptInv
<1>5. ASSUME CloseRoom \/ \E m \in Author : Kick(m) \/ Expire(m) PROVE KeptInv'
  <2>1. /\ UNCHANGED <<session, outbox, awaits, late, composed, accepted>>
        /\ members' \subseteq members
    BY <1>1, <1>5, CloseRoomTyped, KickTyped, ExpireTyped DEF client
  <2>2. ASSUME NEW d \in Client PROVE Matched(d)'
    <3>1. \A o \in {"closed", "kicked"} : [op |-> o] \in Packet /\ [op |-> o].op # "answer"
      BY Packets
    <3>2. /\ up'[d] = up[d] \/ up'[d] = << >>
          /\ \/ down'[d] = down[d]
             \/ \E o \in {"closed", "kicked"} : down'[d] = Append(down[d], [op |-> o])
      BY <1>1, <1>5, CloseRoomTyped, KickTyped, ExpireTyped DEF wire
    <3> QED
      BY <1>1, <2>1, <3>1, <3>2, ToldMatched
  <2> QED
    BY <1>3, <2>1, <2>2 DEF KeptInv
<1>6. CASE UNCHANGED vars
  BY <1>1, <1>6 DEF vars, client, wire, server, KeptInv, OwnOrdersKept, Matched, Exchanges, Settled
<1> QED
  BY <1>2, <1>4, <1>5, <1>6 DEF Next, Step, Serve

LEMMA KeptInvariant == Spec => []KeptInv
BY KeptInit, KeptStep, WireInvariant, EntryInvariant, PTL DEF Spec

(***************************************************************************)
(* No order of a session that the server knows is ever lost, whatever is   *)
(* dropped, reloaded, answered late or refused for the quota: it waits in  *)
(* the queue of its client or the server has accepted it (sendOrder and    *)
(* flushOutbox against send_order and rejoin_room).                        *)
(***************************************************************************)
THEOREM OrdersAreKept == Spec => []OwnOrdersKept
<1>1. KeptInv => OwnOrdersKept
  BY DEF KeptInv
<1> QED
  BY <1>1, KeptInvariant, PTL

-----------------------------------------------------------------------------
(* Nothing falls between the snapshot and the orders relayed.              *)
LEMMA ToldFrame ==
  ASSUME NEW c \in Client, Told(c), Untouched(c), history' = history
  PROVE  Told(c)'
BY DEF Told, Untouched, Coming

\* A connection that is not in the room and holds no answer to a join.
LEMMA ToldOutside ==
  ASSUME NEW c \in Client, c \notin listening', "joined" \notin Ops(down'[c]),
         session'[c] = None \/ bound'[c] = None
  PROVE  Told(c)'
BY DEF Told

LEMMA ComingAdded ==
  ASSUME Typed, NEW c \in Client, NEW p \in Packet, down'[c] = Append(down[c], p), NEW i,
         Coming(c, i) \/ (p.op = "order" /\ p.msg.id = i)
  PROVE  Coming(c, i)'
<1>1. down[c] \in Seq(Packet)
  BY Channels
<1>2. /\ DOMAIN down'[c] = DOMAIN down[c] \cup {Len(down[c]) + 1}
      /\ \A k \in DOMAIN down[c] : down'[c][k] = down[c][k]
      /\ down'[c][Len(down[c]) + 1] = p
  BY <1>1, Added
<1> QED
  BY <1>2 DEF Coming

LEMMA ComingTaken ==
  ASSUME Typed, NEW c \in Client, down[c] # << >>, Received(c), NEW i, Coming(c, i)
  PROVE  Coming(c, i)' \/ (Head(down[c]).op = "order" /\ Head(down[c]).msg.id = i)
<1>1. PICK k \in DOMAIN down[c] : down[c][k].op = "order" /\ down[c][k].msg.id = i
  BY DEF Coming
<1>2. down[c] \in Seq(Packet) /\ down'[c] = Tail(down[c])
  BY ReceivedTyped
<1>3. CASE k = 1
  BY <1>1, <1>2, <1>3, Taken
<1>4. CASE k # 1
  <2>1. k - 1 \in DOMAIN down'[c] /\ down'[c][k - 1] = down[c][k]
    BY <1>2, <1>4, Taken
  <2> QED
    BY <1>1, <2>1 DEF Coming
<1> QED
  BY <1>3, <1>4

\* The server tells c of something else than an entry, and of what it has added.
LEMMA ToldMore ==
  ASSUME Typed, NEW c \in Client, Told(c), NEW p \in Packet, p.op \notin {"joined", "rejoined"},
         down'[c] = Append(down[c], p), UNCHANGED <<session, orders, conn, bound>>,
         c \in listening' => c \in listening,
         c \in listening /\ c \notin listening' => p.op \in {"closed", "kicked"},
         c \in listening' => \A h \in DOMAIN history' :
           \/ p.op = "order" /\ p.msg.id = history'[h].id
           \/ \E n \in DOMAIN history : history'[h] = history[n]
  PROVE  Told(c)'
<1>1. down[c] \in Seq(Packet)
  BY Channels
<1>2. /\ DOMAIN down'[c] = DOMAIN down[c] \cup {Len(down[c]) + 1}
      /\ \A k \in DOMAIN down[c] : down'[c][k] = down[c][k]
      /\ down'[c][Len(down[c]) + 1] = p
      /\ Ops(down'[c]) = Ops(down[c]) \cup {p.op}
  BY <1>1, Added
<1>3. ASSUME NEW k \in DOMAIN down'[c], down'[c][k].op \in {"joined", "rejoined"}
      PROVE  k \in DOMAIN down[c] /\ down'[c][k] = down[c][k]
  BY <1>2, <1>3
<1>4. (session'[c] # None /\ bound'[c] # None) \/ "joined" \in Ops(down'[c]) =>
        c \in listening' \/ Ops(down'[c]) \cap {"closed", "kicked"} # {}
  BY <1>2 DEF Told
<1>5. ASSUME c \in listening', NEW h \in DOMAIN history',
             p.op = "order" /\ p.msg.id = history'[h].id
      PROVE  Coming(c, history[h].id)'
  <2>1. PICK i : i = history'[h].id
    OBVIOUS
  <2>2. Coming(c, i)'
    BY <1>5, <2>1, ComingAdded
  <2> QED
    BY <2>1, <2>2 DEF Coming
<1>6. ASSUME c \in listening', NEW h \in DOMAIN history',
             NEW n \in DOMAIN history, history'[h] = history[n]
      PROVE  /\ Coming(c, history[n].id) => Coming(c, history[h].id)'
             /\ c \in listening
  <2>1. PICK i : i = history[n].id
    OBVIOUS
  <2>2. Coming(c, i) => Coming(c, i)'
    BY ComingAdded
  <2> QED
    BY <1>6, <2>1, <2>2 DEF Coming
<1>7. ASSUME c \in listening', NEW h \in DOMAIN history'
      PROVE  /\ conn'[c] /\ session'[c] # None =>
                  history'[h].id \in Held(orders'[c]) \/ Coming(c, history[h].id)'
             /\ \A k \in DOMAIN down'[c] :
                  /\ down'[c][k].op = "joined" =>
                       In(down'[c][k].recent, history'[h].id) \/ Coming(c, history[h].id)'
                  /\ down'[c][k].op = "rejoined" =>
                       \/ In(down'[c][k].recent, history'[h].id) \/ Coming(c, history[h].id)'
                       \/ history'[h].id \in Held(orders'[c])
  <2>1. CASE p.op = "order" /\ p.msg.id = history'[h].id
    BY <1>5, <1>7, <2>1
  <2>2. CASE \E n \in DOMAIN history : history'[h] = history[n]
    <3>1. PICK n \in DOMAIN history : history'[h] = history[n]
      BY <2>2
    <3>2. c \in listening /\ (Coming(c, history[n].id) => Coming(c, history[h].id)')
      BY <1>6, <1>7, <3>1
    <3>3. conn'[c] /\ session'[c] # None =>
             history'[h].id \in Held(orders'[c]) \/ Coming(c, history[h].id)'
      BY <3>1, <3>2 DEF Told
    <3>4. ASSUME NEW k \in DOMAIN down'[c], down'[c][k].op \in {"joined", "rejoined"}
          PROVE  \/ In(down'[c][k].recent, history'[h].id) \/ Coming(c, history[h].id)'
                 \/ history'[h].id \in Held(orders'[c]) /\ down'[c][k].op = "rejoined"
      BY <1>3, <3>1, <3>2, <3>4 DEF Told
    <3> QED
      BY <3>3, <3>4
  <2> QED
    BY <1>7, <2>1, <2>2
<1> QED
  BY <1>4, <1>7 DEF Told

\* The client takes something: what it said is on the card or no longer matters.
LEMMA ToldTaken ==
  ASSUME Typed, NEW c \in Client, Told(c), down[c] # << >>, Received(c),
         Head(down[c]).op \notin {"joined", "closed", "kicked"},
         UNCHANGED <<session, bound, listening, history>>,
         Held(orders[c]) \subseteq Held(orders'[c]),
         Head(down[c]).op = "order" => Head(down[c]).msg.id \in Held(orders'[c]),
         Head(down[c]).op = "order" => "joined" \notin Ops(down'[c]),
         \/ conn'[c] => conn[c]
         \/ /\ Head(down[c]).op = "rejoined"
            /\ \A k \in DOMAIN Head(down[c]).recent : Head(down[c]).recent[k].id \in Held(orders'[c])
  PROVE  Told(c)'
<1> DEFINE e == Head(down[c])
<1>1. down[c] \in Seq(Packet) /\ down'[c] = Tail(down[c])
  BY ReceivedTyped
<1>2. /\ Ops(down[c]) = Ops(down'[c]) \cup {e.op} /\ e = down[c][1] /\ 1 \in DOMAIN down[c]
      /\ \A k \in DOMAIN down'[c] : k + 1 \in DOMAIN down[c] /\ down'[c][k] = down[c][k + 1]
  BY <1>1, Taken
<1>6. \A k \in DOMAIN down'[c] : down'[c][k].op \in Ops(down'[c])
  BY DEF Ops
<1> HIDE DEF e
<1>3. (session'[c] # None /\ bound'[c] # None) \/ "joined" \in Ops(down'[c]) =>
        c \in listening' \/ Ops(down'[c]) \cap {"closed", "kicked"} # {}
  BY <1>2 DEF Told, e
<1>4. ASSUME c \in listening', NEW h \in DOMAIN history
      PROVE  /\ conn'[c] /\ session'[c] # None =>
                  history[h].id \in Held(orders'[c]) \/ Coming(c, history[h].id)'
             /\ \A k \in DOMAIN down'[c] :
                  /\ down'[c][k].op = "joined" =>
                       In(down'[c][k].recent, history[h].id) \/ Coming(c, history[h].id)'
                  /\ down'[c][k].op = "rejoined" =>
                       \/ In(down'[c][k].recent, history[h].id) \/ Coming(c, history[h].id)'
                       \/ history[h].id \in Held(orders'[c])
  <2>1. PICK i : i = history[h].id
    OBVIOUS
  <2>2. Coming(c, i) => Coming(c, i)' \/ (e.op = "order" /\ i \in Held(orders'[c]))
    BY ComingTaken DEF e
  <2>3. c \in listening /\ history' = history /\ session'[c] = session[c]
    BY <1>4
  <2>4. conn'[c] /\ session'[c] # None => i \in Held(orders'[c]) \/ Coming(c, i)'
    <3>1. CASE conn'[c] => conn[c]
      BY <1>4, <2>1, <2>2, <2>3, <3>1 DEF Told
    <3>2. CASE /\ e.op = "rejoined"
               /\ \A k \in DOMAIN e.recent : e.recent[k].id \in Held(orders'[c])
      <4>1. In(e.recent, i) \/ Coming(c, i) \/ i \in Held(orders[c])
        BY <1>2, <1>4, <2>1, <2>3, <3>2 DEF Told
      <4> QED
        BY <2>2, <3>2, <4>1 DEF In
    <3> QED
      BY <3>1, <3>2 DEF e
  <2>5. ASSUME NEW k \in DOMAIN down'[c], down'[c][k].op = "joined"
        PROVE  In(down'[c][k].recent, i) \/ Coming(c, i)'
    <3>1. e.op # "order"
      BY <1>2, <1>6, <2>5 DEF e
    <3> QED
      BY <1>2, <1>4, <2>1, <2>2, <2>3, <2>5, <3>1 DEF Told
  <2>6. ASSUME NEW k \in DOMAIN down'[c], down'[c][k].op = "rejoined"
        PROVE  In(down'[c][k].recent, i) \/ Coming(c, i)' \/ i \in Held(orders'[c])
    BY <1>2, <1>4, <2>1, <2>2, <2>3, <2>6 DEF Told
  <2> QED
    BY <2>1, <2>4, <2>5, <2>6 DEF Coming
<1>5. history' = history
  OBVIOUS
<1> QED
  BY <1>3, <1>4, <1>5 DEF Told, Coming

LEMMA OnJoinedTold ==
  ASSUME Typed, NEW c \in Client, Entered(c), Told(c), OnJoined(c)
  PROVE  Told(c)'
<1> DEFINE e == Head(down[c])
           merged == WithSnapshot(EmptyStore, e.recent)
<1>1. /\ down[c] # << >> /\ Received(c) /\ e.op = "joined"
      /\ orders'[c] = WithOutbox(merged, outbox[c])
      /\ UNCHANGED <<bound, listening, history>>
  BY DEF OnJoined, Comes, server, Typed, TypeOK
<1>2. /\ down[c] \in Seq(Packet) /\ down'[c] = Tail(down[c]) /\ e \in Packet
      /\ outbox[c] \in Seq(Message)
  BY <1>1, ReceivedTyped DEF Typed
<1>3. /\ Ops(down[c]) = Ops(down'[c]) \cup {"joined"} /\ Ops(down'[c]) \cap Entries = {}
  BY <1>1, TakenEntered
<1>4. e = down[c][1] /\ 1 \in DOMAIN down[c]
  BY <1>1, <1>2, Taken
<1>5. \A k \in DOMAIN down'[c] : down'[c][k].op \in Ops(down'[c])
  BY DEF Ops
<1>6. e.recent \in Seq(Message)
  BY <1>1, <1>2, Packets
<1> HIDE DEF e
<1>7. merged \in Store /\ \A k \in DOMAIN e.recent : e.recent[k].id \in Held(merged)
  BY <1>6, EmptyIsStore, SnapshotMerged
<1> HIDE DEF merged
<1>8. \A k \in DOMAIN e.recent : e.recent[k].id \in Held(orders'[c])
  BY <1>1, <1>2, <1>7, QueueShown
<1>9. c \in listening' \/ Ops(down'[c]) \cap {"closed", "kicked"} # {}
  BY <1>1, <1>3 DEF Told
<1>10. ASSUME c \in listening', NEW h \in DOMAIN history
       PROVE  history[h].id \in Held(orders'[c]) \/ Coming(c, history[h].id)'
  <2>1. PICK i : i = history[h].id
    OBVIOUS
  <2>2. In(e.recent, i) \/ Coming(c, i)
    BY <1>1, <1>4, <1>10, <2>1 DEF Told
  <2>3. Coming(c, i) => Coming(c, i)'
    BY <1>1, ComingTaken DEF e
  <2> QED
    BY <1>1, <1>8, <2>1, <2>2, <2>3 DEF In, Coming
<1> QED
  BY <1>1, <1>3, <1>5, <1>9, <1>10 DEF Told, Coming, Entries

LEMMA ServeJoinTold ==
  ASSUME Typed, NEW c \in Client, Entered(c), ServeJoin(c)
  PROVE  Told(c)'
<1> DEFINE m == Fresh(Author \ given)
           joined == [op |-> "joined", member |-> m, recent |-> Recent(history, m)]
           refused == [op |-> "join_refused"]
<1>1. up[c] # << >> /\ Head(up[c]).op = "join" /\ UNCHANGED <<session, history>>
  BY DEF ServeJoin, Asked, client
<1>2. "join" \in Ops(up[c])
  BY <1>1, Channels, Taken
<1>3. session[c] = None /\ Ops(down[c]) \subseteq {"answer"}
  BY <1>2 DEF Entered, Asking
<1>4. c \notin listening
  BY <1>3 DEF Entered, Inside
<1>5. down[c] \in Seq(Packet) /\ \A k \in DOMAIN down[c] : down[c][k].op \in Ops(down[c])
  BY Channels
<1>6. CASE /\ given # Author /\ Enter(c, m) /\ down' = Answered(down, c, joined)
  <2>1. m \in Author
    BY <1>6 DEF Fresh, Typed, TypeOK
  <2>2. joined \in Packet /\ joined.op = "joined" /\ joined.recent = history
    BY <2>1, Packets DEF Recent, Typed, TypeOK
  <2>3. c \in listening'
    BY <1>6 DEF Enter
  <2> HIDE DEF m, joined
  <2>4. down'[c] = Append(down[c], joined)
    BY <1>6, <2>2, AnsweredTyped
  <2>5. /\ DOMAIN down'[c] = DOMAIN down[c] \cup {Len(down[c]) + 1}
        /\ \A k \in DOMAIN down[c] : down'[c][k] = down[c][k]
        /\ down'[c][Len(down[c]) + 1] = joined
    BY <1>5, <2>2, <2>4, Added
  <2>6. \A k \in DOMAIN down'[c] : down'[c][k] = joined \/ down'[c][k].op = "answer"
    BY <1>3, <1>5, <2>5
  <2> QED
    BY <1>1, <1>3, <2>2, <2>3, <2>6 DEF Told, In
<1>7. CASE down' = Answered(down, c, refused) /\ UNCHANGED <<bound, listening, members, given>>
  <2>1. refused \in Packet /\ refused.op = "join_refused"
    BY Packets
  <2> HIDE DEF refused
  <2>2. down'[c] = Append(down[c], refused)
    BY <1>7, <2>1, AnsweredTyped
  <2>3. Ops(down'[c]) = Ops(down[c]) \cup {"join_refused"}
    BY <1>5, <2>1, <2>2, Added
  <2> QED
    BY <1>1, <1>3, <1>4, <1>7, <2>3, ToldOutside
<1> QED
  BY <1>6, <1>7 DEF ServeJoin

LEMMA ServeRejoinTold ==
  ASSUME Typed, NEW c \in Client, Entered(c), ServeRejoin(c)
  PROVE  Told(c)'
<1> DEFINE m == Head(up[c]).member
           p == [op |-> "rejoined", recent |-> Recent(history, m)]
<1>1. up[c] # << >> /\ Head(up[c]).op = "rejoin" /\ UNCHANGED <<session, conn, history>>
  BY DEF ServeRejoin, Asked, client
<1>2. Ops(up[c]) = Ops(Tail(up[c])) \cup {"rejoin"} /\ up[c] \in Seq(Request)
  BY <1>1, Channels, Taken
<1>3. /\ down[c] = << >> /\ bound[c] = None /\ ~conn[c] /\ c \notin listening /\ m = session[c]
      /\ session[c] # None
  BY <1>2, ServeRejoinEntered DEF Entered, Asking, Inside
<1>4. CASE m \in members
  <2>1. p \in Packet /\ p.op = "rejoined" /\ p.recent = history
    BY <1>3, Channels, Packets DEF Recent, Typed, TypeOK
  <2> HIDE DEF p
  <2>2. c \in listening' /\ down' = Answered(down, c, p)
    BY <1>4 DEF ServeRejoin, Enter, p
  <2>3. down'[c] = << p >>
    BY <1>3, <2>1, <2>2, AnsweredTyped
  <2>4. DOMAIN down'[c] = {1} /\ down'[c][1] = p
    BY <2>3
  <2> QED
    BY <1>1, <1>3, <2>1, <2>2, <2>4 DEF Told, In
<1>5. CASE m \notin members
  <2>1. UNCHANGED <<bound, listening, down>>
    BY <1>5 DEF ServeRejoin
  <2> QED
    BY <1>3, <2>1, EmptyChannel, ToldOutside
<1> QED
  BY <1>4, <1>5

LEMMA HandledTold ==
  ASSUME Typed, NEW c \in Client, Entered(c), Shown(c), Told(c),
         OnJoinRefused(c) \/ OnRejoined(c) \/ OnRejoinRefused(c) \/ OnAnswer(c) \/ OnOrder(c)
           \/ OnClosed(c)
  PROVE  Told(c)'
<1>1. down[c] # << >> /\ Received(c) /\ UNCHANGED <<bound, listening, history>>
  BY DEF OnJoinRefused, OnRejoined, OnRejoinRefused, OnAnswer, OnOrder, OnClosed, Comes, server
<1>2. Ops(down[c]) = Ops(down'[c]) \cup {Head(down[c]).op}
  BY <1>1, TakenEntered
<1>3. CASE OnJoinRefused(c)
  <2>1. Head(down[c]).op = "join_refused" /\ UNCHANGED <<session, orders, conn>>
    BY <1>3 DEF OnJoinRefused, Comes
  <2> QED
    BY <1>1, <2>1, ToldTaken
<1>4. CASE OnRejoined(c)
  <2>1. Head(down[c]).op = "rejoined" /\ session' = session
        /\ ("rejoin" \notin awaits[c] => conn' = conn)
    BY <1>4 DEF OnRejoined, Comes
  <2>2. /\ Held(orders[c]) \subseteq Held(orders'[c])
        /\ "rejoin" \in awaits[c] =>
             \A k \in DOMAIN Head(down[c]).recent :
               Head(down[c]).recent[k].id \in Held(orders'[c])
    BY <1>4, OnRejoinedShown
  <2> QED
    BY <1>1, <2>1, <2>2, ToldTaken
<1>5. CASE OnRejoinRefused(c)
  <2>1. Head(down[c]).op = "rejoin_refused"
    BY <1>5 DEF OnRejoinRefused, Comes
  <2>2. bound[c] = None /\ Ops(down'[c]) \cap Entries = {}
    BY <1>1, <1>2, <2>1, TakenEntered DEF Entered, Refusing
  <2>3. c \notin listening
    BY <2>2 DEF Entered, Inside
  <2> QED
    BY <1>1, <2>2, <2>3, ToldOutside DEF Entries
<1>6. CASE OnAnswer(c)
  <2>1. Head(down[c]).op = "answer" /\ UNCHANGED <<session, orders, conn>>
    BY <1>6 DEF OnAnswer, Comes
  <2> QED
    BY <1>1, <2>1, ToldTaken
<1>7. CASE OnOrder(c)
  <2>1. /\ Head(down[c]).op = "order" /\ UNCHANGED <<session, conn>>
        /\ orders'[c] = Overwrite(orders[c], Head(down[c]).msg) /\ orders[c] \in Store
    BY <1>7 DEF OnOrder, Comes, Typed, TypeOK
  <2>2. Head(down[c]).msg \in Message
    BY <1>1, <2>1, ReceivedTyped, Packets
  <2>3. Held(orders[c]) \cup {Head(down[c]).msg.id} \subseteq Held(orders'[c])
    BY <2>1, <2>2, Overwritten
  <2>4. "joined" \notin Ops(down'[c])
    BY <1>1, <2>1, TakenEntered DEF Entries
  <2> QED
    BY <1>1, <2>1, <2>3, <2>4, ToldTaken
<1>8. CASE OnClosed(c)
  <2>1. Head(down[c]).op = "closed" /\ session'[c] = None
    BY <1>8 DEF OnClosed, ClearSession, Comes, Typed, TypeOK
  <2>2. c \notin listening /\ Ops(down'[c]) \subseteq {"answer"}
    BY <1>1, <2>1, TakenEntered
  <2> QED
    BY <1>1, <2>1, <2>2, ToldOutside
<1> QED
  BY <1>3, <1>4, <1>5, <1>6, <1>7, <1>8

LEMMA StepTold ==
  ASSUME Typed, NEW c \in Client, Wired(c), Entered(c), Shown(c), Told(c), Step(c)
  PROVE  Told(c)'
<1>1. CASE Connect(c)
  <2>1. bound'[c] = None /\ c \notin listening' /\ down'[c] = << >>
    BY <1>1 DEF Connect, Wired, server
  <2> QED
    BY <2>1, EmptyChannel, ToldOutside
<1>2. CASE Drop(c) \/ Reload(c) \/ LeaveRoom(c) \/ OnKicked(c)
  <2>1. bound'[c] = None /\ c \notin listening' /\ down'[c] = << >>
    BY <1>2, LossTyped, DisconnectedTyped
  <2> QED
    BY <2>1, EmptyChannel, ToldOutside
<1>3. CASE JoinRoom(c) \/ TimeOut(c)
  <2>1. UNCHANGED <<session, orders, conn, bound, down, listening, history>>
    BY <1>3 DEF JoinRoom, TimeOut, wire, server
  <2> QED
    BY <2>1 DEF Told, Coming
<1>4. CASE Compose(c)
  <2>1. PICK i \in Id, o \in Order : Submit(c, i, o) /\ o.by = session[c] /\ session[c] # None
    BY <1>4, ComposeTyped
  <2> DEFINE msg == [id |-> i, order |-> o]
  <2>2. /\ UNCHANGED <<session, conn, bound, down, listening, history>>
        /\ orders'[c] = Overwrite(orders[c], msg) /\ orders[c] \in Store /\ msg \in Message
    BY <2>1 DEF Submit, server, Typed, TypeOK, Message
  <2> HIDE DEF msg
  <2>3. Held(orders[c]) \subseteq Held(orders'[c])
    BY <2>2, Overwritten
  <2> QED
    BY <2>2, <2>3 DEF Told, Coming
<1>5. CASE RefuseRejoin(c)
  <2> DEFINE p == [op |-> "rejoin_refused"]
  <2>1. c \in withheld /\ UNCHANGED <<bound, listening>> /\ down' = Answered(down, c, p)
    BY <1>5 DEF RefuseRejoin
  <2>2. p \in Packet /\ p.op = "rejoin_refused"
    BY Packets
  <2> HIDE DEF p
  <2>3. down'[c] = Append(down[c], p) /\ down[c] \in Seq(Packet)
    BY <2>1, <2>2, AnsweredTyped, Channels
  <2>4. Ops(down'[c]) = Ops(down[c]) \cup {"rejoin_refused"}
    BY <2>2, <2>3, Added
  <2>5. bound[c] = None /\ c \notin listening /\ Ops(down[c]) \subseteq {"answer"}
    BY <2>1 DEF Entered, Refusing, Inside
  <2> QED
    BY <2>1, <2>4, <2>5, ToldOutside
<1> QED
  BY <1>1, <1>2, <1>3, <1>4, <1>5, OnJoinedTold, HandledTold, ServeJoinTold, ServeRejoinTold
     DEF Step, Handle

LEMMA StepHistory ==
  ASSUME NEW c \in Client, Step(c)
  PROVE  history' = history
BY DEF Step, Handle, Connect, Drop, Reload, JoinRoom, LeaveRoom, Compose, Submit, TimeOut, OnJoined,
   OnJoinRefused, OnRejoined, OnRejoinRefused, OnAnswer, OnOrder, OnClosed, OnKicked, ServeJoin,
   ServeRejoin, RefuseRejoin, server

\* send_order: what is accepted is on the card of the one who sent it.
LEMMA ServeSendTold ==
  ASSUME Typed, NEW c \in Client, Entered(c), Shown(c), Told(c), ServeSend(c)
  PROVE  Told(c)'
<1> DEFINE msg == Head(up[c]).msg
<1>1. /\ UNCHANGED <<client, bound, listening, members, composed>>
      /\ up[c] # << >> /\ Head(up[c]).op = "send" /\ msg \in Message /\ msg \in composed
  BY ServeSendTyped
<1>2. PICK answer \in Answers(c, msg) :
        /\ answer \in Answer
        /\ down'[c] = Append(down[c], [op |-> "answer", answer |-> answer])
        /\ IF answer = "ok" THEN history' = Pushed(history, msg) ELSE history' = history
  BY ServeSendTyped
<1> DEFINE p == [op |-> "answer", answer |-> answer]
<1>3. p \in Packet /\ p.op = "answer" /\ down'[c] = Append(down[c], p)
  BY <1>2, Packets
<1> HIDE DEF p, msg
<1>4. CASE answer # "ok"
  BY <1>1, <1>2, <1>3, <1>4, ToldMore DEF client
<1>5. CASE answer = "ok"
  <2>1. bound[c] \in members /\ msg.order.by = bound[c]
    BY <1>2, <1>5 DEF Answers
  <2>2. bound[c] # None
    BY <2>1, RelayAssumption DEF Typed, TypeOK
  <2>3. session[c] # None => msg.id \in Held(orders[c])
    <3>1. session[c] # None => msg.order.by = session[c]
      BY <2>1, <2>2 DEF Entered, Inside
    <3>2. 1 \in DOMAIN up[c] /\ up[c][1].op = "send" /\ up[c][1].msg = msg
      BY <1>1, Channels, Taken DEF msg
    <3> QED
      BY <3>1, <3>2 DEF Shown
  <2>4. "joined" \notin Ops(down[c])
    BY <1>1, <2>1 DEF Entered, Answering, Ops
  <2>5. "rejoined" \in Ops(down[c]) => session[c] # None
    BY DEF Entered, Answering
  <2>6. down[c] \in Seq(Packet) /\ \A k \in DOMAIN down[c] : down[c][k].op \in Ops(down[c])
    BY Channels
  <2>7. /\ DOMAIN down'[c] = DOMAIN down[c] \cup {Len(down[c]) + 1}
        /\ \A k \in DOMAIN down[c] : down'[c][k] = down[c][k]
        /\ down'[c][Len(down[c]) + 1] = p
        /\ Ops(down'[c]) = Ops(down[c]) \cup {"answer"}
    BY <1>3, <2>6, Added
  <2>8. history \in Seq(Message) /\ Len(history) <= MaxRecent
    BY DEF Typed, TypeOK
  <2>9. ASSUME NEW h \in DOMAIN history'
        PROVE  history'[h] = msg \/ \E n \in DOMAIN history : history'[h] = history[n]
    BY <1>1, <1>2, <1>5, <2>8, <2>9, PushedKeeps
  <2>10. \A i : Coming(c, i) => Coming(c, i)'
    <3>1. ASSUME NEW i, Coming(c, i) PROVE Coming(c, i)'
      BY <1>3, <3>1, ComingAdded
    <3> QED
      BY <3>1
  <2>11. ASSUME c \in listening, NEW h \in DOMAIN history', session[c] # None
         PROVE  /\ conn[c] => history'[h].id \in Held(orders[c]) \/ Coming(c, history[h].id)'
                /\ \A k \in DOMAIN down[c] : down[c][k].op = "rejoined" =>
                     \/ In(down[c][k].recent, history'[h].id) \/ Coming(c, history[h].id)'
                     \/ history'[h].id \in Held(orders[c])
    <3>1. PICK i : i = history'[h].id
      OBVIOUS
    <3>2. CASE i = msg.id
      BY <2>3, <2>11, <3>1, <3>2
    <3>3. CASE \E n \in DOMAIN history : history'[h] = history[n]
      <4>1. /\ conn[c] => i \in Held(orders[c]) \/ Coming(c, i)
            /\ \A k \in DOMAIN down[c] : down[c][k].op = "rejoined" =>
                 In(down[c][k].recent, i) \/ Coming(c, i) \/ i \in Held(orders[c])
        BY <2>11, <3>1, <3>3 DEF Told
      <4>2. Coming(c, i) => Coming(c, i)'
        BY <2>10
      <4> QED
        BY <3>1, <4>1, <4>2 DEF Coming
    <3> QED
      BY <2>9, <3>1, <3>2, <3>3
  <2>12. (session'[c] # None /\ bound'[c] # None) \/ "joined" \in Ops(down'[c]) =>
           c \in listening' \/ Ops(down'[c]) \cap {"closed", "kicked"} # {}
    BY <1>1, <2>7 DEF Told, client
  <2>13. ASSUME NEW k \in DOMAIN down'[c], down'[c][k].op \in {"joined", "rejoined"}
         PROVE  /\ k \in DOMAIN down[c] /\ down'[c][k] = down[c][k]
                /\ down'[c][k].op = "rejoined" /\ session[c] # None
    BY <1>3, <2>4, <2>5, <2>6, <2>7, <2>13
  <2> QED
    BY <1>1, <2>11, <2>12, <2>13 DEF Told, client
<1> QED
  BY <1>4, <1>5

LEMMA EndsTold ==
  ASSUME Typed, NEW c \in Client, Told(c), CloseRoom \/ \E m : Kick(m) \/ Expire(m)
  PROVE  Told(c)'
<1>1. \A o \in {"closed", "kicked"} : [op |-> o] \in Packet /\ [op |-> o].op = o
  BY Packets
<1>2. CASE CloseRoom
  <2>1. /\ UNCHANGED <<client, link, up, bound, withheld>> /\ listening' = {}
        /\ down'[c] = IF c \in listening THEN Append(down[c], [op |-> "closed"]) ELSE down[c]
    BY <1>2, CloseRoomTyped
  <2>2. CASE c \in listening
    BY <1>1, <2>1, <2>2, ToldMore DEF client
  <2>3. CASE c \notin listening
    BY <2>1, <2>3 DEF Told, client
  <2> QED
    BY <2>2, <2>3
<1>3. ASSUME NEW m, Kick(m) PROVE Told(c)'
  <2>1. /\ UNCHANGED <<client, link, bound, withheld, history>>
        /\ IF c \in listening /\ bound[c] = m
           THEN down'[c] = Append(down[c], [op |-> "kicked"]) /\ up'[c] = << >> /\ c \notin listening'
           ELSE down'[c] = down[c] /\ up'[c] = up[c] /\ (c \in listening' <=> c \in listening)
    BY <1>3, KickTyped
  <2>2. CASE c \in listening /\ bound[c] = m
    BY <1>1, <2>1, <2>2, ToldMore DEF client
  <2>3. CASE ~ (c \in listening /\ bound[c] = m)
    BY <2>1, <2>3 DEF Told, Coming, client
  <2> QED
    BY <2>2, <2>3
<1>4. ASSUME NEW m, Expire(m) PROVE Told(c)'
  <2>1. Untouched(c) /\ history' = history
    BY <1>4, ExpireTyped DEF Untouched, client, wire
  <2> QED
    BY <2>1, ToldFrame
<1> QED
  BY <1>2, <1>3, <1>4

LEMMA ToldInit == Init => AllTold
<1> SUFFICES ASSUME Init, NEW c \in Client PROVE Told(c)
  BY DEF AllTold
<1>1. Ops(down[c]) = {}
  BY EmptyChannel DEF Init
<1> QED
  BY <1>1 DEF Init, Told

LEMMA ToldStep == WireInv /\ EntryInv /\ AllShown /\ AllTold /\ [Next]_vars => AllTold'
<1> SUFFICES ASSUME WireInv, EntryInv, AllShown, AllTold, [Next]_vars, NEW d \in Client
             PROVE  Told(d)'
  BY DEF AllTold
<1>1. /\ Typed /\ Told(d)
      /\ \A c \in Client : Wired(c) /\ Entered(c) /\ Shown(c) /\ Told(c)
  BY DEF WireInv, EntryInv, AllShown, AllTold
<1>2. ASSUME NEW c \in Client, Step(c) PROVE Told(d)'
  BY <1>1, <1>2, StepTold, StepTouches, StepHistory, ToldFrame
<1>3. ASSUME NEW c \in Client, ServeSend(c) PROVE Told(d)'
  <2> DEFINE msg == Head(up[c]).msg
             p == [op |-> "order", msg |-> msg]
  <2>1. UNCHANGED <<session, orders, conn, bound, listening>>
    BY <1>1, <1>3, ServeSendTyped DEF client
  <2>2. p \in Packet /\ msg \in Message
    BY <1>1, <1>3, ServeSendTyped, Packets
  <2>3. p.op = "order" /\ p.msg = msg
    OBVIOUS
  <2>4. CASE d = c
    BY <1>1, <1>3, <2>4, ServeSendTold
  <2>5. CASE d # c
    <3>1. \/ history' = history /\ down'[d] = down[d]
          \/ /\ history' = Pushed(history, msg)
             /\ down'[d] = IF d \in listening THEN Append(down[d], p) ELSE down[d]
      BY <1>1, <1>3, <2>5, ServeSendTyped
    <3> HIDE DEF p, msg
    <3>2. CASE history' = history /\ down'[d] = down[d]
      BY <1>1, <2>1, <3>2 DEF Told, Coming
    <3>3. CASE d \notin listening /\ down'[d] = down[d]
      BY <1>1, <2>1, <3>3 DEF Told
    <3>4. CASE history' = Pushed(history, msg) /\ d \in listening /\ down'[d] = Append(down[d], p)
      <4>1. history \in Seq(Message) /\ Len(history) <= MaxRecent
        BY <1>1 DEF Typed, TypeOK
      <4>2. ASSUME NEW h \in DOMAIN history'
            PROVE  \/ p.op = "order" /\ p.msg.id = history'[h].id
                   \/ \E n \in DOMAIN history : history'[h] = history[n]
        BY <2>2, <2>3, <3>4, <4>1, <4>2, PushedKeeps
      <4> QED
        BY <1>1, <2>1, <2>2, <2>3, <3>4, <4>2, ToldMore
    <3> QED
      BY <3>1, <3>2, <3>3, <3>4
  <2> QED
    BY <2>4, <2>5
<1>4. CASE CloseRoom \/ \E m \in Author : Kick(m) \/ Expire(m)
  BY <1>1, <1>4, EndsTold
<1>5. CASE UNCHANGED vars
  BY <1>1, <1>5, Stutters, ToldFrame
<1> QED
  BY <1>2, <1>3, <1>4, <1>5 DEF Next, Step, Serve

LEMMA ToldInvariant == Spec => []AllTold
BY ToldInit, ToldStep, WireInvariant, EntryInvariant, ShownInvariant, PTL DEF Spec

(***************************************************************************)
(* A member that shows itself as connected and has handled what it was     *)
(* sent holds every order the server remembers: between the snapshot it is *)
(* given as it enters and the orders relayed to it nothing falls, whatever *)
(* the clients, the losses and the ends of sessions (roomState after       *)
(* enterRoom, applyRoomState, 'order').                                    *)
(***************************************************************************)
THEOREM CardIsInSync == Spec => []InSync
<1>1. WireInv /\ AllTold => InSync
  <2> SUFFICES ASSUME WireInv, AllTold, NEW c \in Client,
                      conn[c], session[c] # None, session[c] = bound[c], down[c] = << >>,
                      NEW msg \in SE!ToSet(history)
               PROVE  msg.id \in Held(orders[c])
    BY DEF InSync
  <2>1. Told(c)
    BY DEF AllTold
  <2>2. Ops(down[c]) = {} /\ ~ Coming(c, msg.id)
    BY EmptyChannel DEF Coming
  <2>3. PICK h \in DOMAIN history : msg = history[h]
    BY DEF SE!ToSet
  <2> QED
    BY <2>1, <2>2, <2>3 DEF Told
<1> QED
  BY <1>1, WireInvariant, ToldInvariant, PTL
=============================================================================
