-------------------------- MODULE RadioLinkProofs --------------------------
(***************************************************************************)
(* The link to a module, the drawer that shows it and the governor of the  *)
(* module that is attached, for any number of attempts, any browser, any   *)
(* window, budget, queue and air times.                                    *)
(*                                                                         *)
(* The link comes first (LinkInv): no action of the governor touches it.   *)
(* For the governor, air time is a set of milliseconds, so that it adds up *)
(* and grows with the frames; the log that the code prunes when it sends   *)
(* and the history that forgets as the clock moves are the same sequence   *)
(* at every instant (AirInv); and a drain lets out the first frames of an  *)
(* order that is strict, in a list that holds each of them once.           *)
(***************************************************************************)
EXTENDS RadioLink, FiniteSetTheorems, SequenceTheorems, WellFoundedInduction, TLAPS

-----------------------------------------------------------------------------
(* The link.                                                               *)
\* Before the chooser has given a module, an attempt has no link to close.
NotYetOpen ==
  /\ attempt \in Nat /\ links \subseteq 0 .. attempt
  /\ phase \in {"availability", "loading", "choosing"} => attempt \notin links

\* During an attempt nothing is attached, no failure shows, Bluetooth works.
InAttempt ==
  /\ phase \in {"idle", "availability", "loading", "choosing", "configuring", "closing"}
  /\ phase # "idle" => meshError = None /\ mesh = None /\ BleSupport(platform) = None
  /\ meshError # None => BleSupport(platform) = None

LinkInv == NotYetOpen /\ InAttempt /\ FailedLinksAreClosed /\ ButtonTells

LEMMA LinkInit == Init => LinkInv
<1> SUFFICES ASSUME Init PROVE LinkInv
  OBVIOUS
<1> USE DEF Init
<1>1. NotYetOpen
  BY DEF NotYetOpen
<1>2. InAttempt
  BY DEF InAttempt
<1>3. FailedLinksAreClosed
  BY DEF FailedLinksAreClosed
<1>4. ButtonTells
  BY DEF ButtonTells
<1> QED
  BY <1>1, <1>2, <1>3, <1>4 DEF LinkInv

\* The ways out of an attempt: only once its link is closed.
LEMMA FailureIsClean ==
  ASSUME LinkInv, phase # "idle", NEW reason, FailWith(reason),
         UNCHANGED <<platform, mesh, attempt>>,
         links' \subseteq links, attempt \notin links'
  PROVE  LinkInv'
<1> USE DEF FailWith
<1>1. NotYetOpen'
  BY DEF LinkInv, NotYetOpen
<1>2. InAttempt'
  BY DEF LinkInv, InAttempt, BleSupport
<1>3. FailedLinksAreClosed'
  BY DEF FailedLinksAreClosed
<1>4. ButtonTells'
  <2>1. BleSupport(platform) = None /\ BleSupport(platform)' = None
    BY DEF LinkInv, InAttempt, BleSupport
  <2>2. mesh = None
    BY DEF LinkInv, InAttempt
  <2>3. Rendered(None, reason) = IF reason # None THEN reason ELSE ""
    BY <2>1 DEF Rendered
  <2> QED
    BY <2>1, <2>2, <2>3 DEF ButtonTells
<1> QED
  BY <1>1, <1>2, <1>3, <1>4 DEF LinkInv

LEMMA LinkStep == LinkInv /\ [Next]_vars => LinkInv'
<1> SUFFICES ASSUME LinkInv, [Next]_vars PROVE LinkInv'
  OBVIOUS
<1>1. CASE UNCHANGED <<platform, link>>
  BY <1>1 DEF LinkInv, NotYetOpen, InAttempt, FailedLinksAreClosed, ButtonTells, link,
              BleSupport
<1>2. CASE Detach
  BY <1>2 DEF Detach, LinkInv, NotYetOpen, InAttempt, FailedLinksAreClosed, ButtonTells,
              BleSupport
<1>3. CASE Connect
  <2>1. BleSupport(platform) = None /\ BleSupport(platform)' = None
    BY <1>3 DEF Connect, LinkInv, ButtonTells, BleSupport
  <2>2. NotYetOpen'
    BY <1>3 DEF Connect, LinkInv, NotYetOpen
  <2>3. InAttempt'
    BY <1>3, <2>1 DEF Connect, InAttempt
  <2>4. FailedLinksAreClosed' /\ ButtonTells'
    BY <1>3, <2>1 DEF Connect, FailedLinksAreClosed, ButtonTells
  <2> QED
    BY <2>2, <2>3, <2>4 DEF LinkInv
<1>4. CASE Prepare
  <2>1. CASE \E reason : FailWith(reason) /\ UNCHANGED links
                          /\ phase \in {"availability", "loading", "choosing"}
    <3>1. PICK reason : FailWith(reason) /\ UNCHANGED links
                        /\ phase \in {"availability", "loading", "choosing"}
      BY <2>1
    <3>2. UNCHANGED <<platform, mesh, attempt>>
      BY <1>4 DEF Prepare
    <3>3. phase # "idle" /\ links' \subseteq links /\ attempt \notin links'
      BY <3>1 DEF LinkInv, NotYetOpen
    <3> QED
      BY <3>1, <3>2, <3>3, FailureIsClean
  <2>2. CASE \/ Proceed("availability", "loading") /\ UNCHANGED links
             \/ Proceed("loading", "choosing") /\ UNCHANGED links
             \/ Proceed("choosing", "configuring") /\ links' = links \cup {attempt}
    <3>1. CASE UNCHANGED <<platform, mesh, attempt, meshError, line, enabled>>
      <4>1. phase \in {"availability", "loading", "choosing"} /\ phase' # "idle"
        BY <2>2 DEF Proceed
      <4>2. links' \subseteq 0 .. attempt
        <5>1. attempt \in 0 .. attempt /\ links \subseteq 0 .. attempt
          BY DEF LinkInv, NotYetOpen
        <5>2. links' = links \/ links' = links \cup {attempt}
          BY <2>2
        <5> QED
          BY <5>1, <5>2
      <4>3. NotYetOpen'
        BY <2>2, <3>1, <4>2 DEF Proceed, LinkInv, NotYetOpen
      <4>4. phase' \in {"loading", "choosing", "configuring"}
        BY <2>2 DEF Proceed
      <4>5. BleSupport(platform)' = BleSupport(platform)
        BY <3>1 DEF BleSupport
      <4>6. InAttempt' /\ FailedLinksAreClosed'
        BY <3>1, <4>1, <4>4, <4>5 DEF LinkInv, InAttempt, FailedLinksAreClosed
      <4>7. ButtonTells'
        <5>1. ~ enabled
          BY <4>1 DEF LinkInv, ButtonTells
        <5> QED
          BY <3>1, <4>1, <5>1 DEF LinkInv, ButtonTells
      <4> QED
        BY <4>3, <4>6, <4>7 DEF LinkInv
    <3>2. CASE ~ UNCHANGED <<platform, mesh, attempt, meshError, line, enabled>>
      BY <1>4, <2>1, <3>2 DEF Prepare
    <3> QED
      BY <3>1, <3>2
  <2> QED
    BY <1>4, <2>1, <2>2 DEF Prepare
<1>5. CASE Configured
  BY <1>5 DEF Configured, LinkInv, NotYetOpen, InAttempt, FailedLinksAreClosed, ButtonTells,
              BleSupport
<1>6. CASE Refuse \/ Timeout
  BY <1>6 DEF Refuse, Timeout, Proceed, LinkInv, NotYetOpen, InAttempt,
              FailedLinksAreClosed, ButtonTells, BleSupport
<1>7. CASE Close
  <2>1. phase # "idle" /\ FailWith(cause) /\ UNCHANGED <<platform, mesh, attempt>>
    BY <1>7 DEF Close
  <2>2. links' \subseteq links /\ attempt \notin links'
    BY <1>7 DEF Close
  <2> QED
    BY <2>1, <2>2, FailureIsClean
<1>8. CASE StatusEvent
  <2>1. UNCHANGED <<platform, phase, meshError, enabled, mesh, links, attempt>>
    BY <1>8 DEF StatusEvent
  <2>2. NotYetOpen' /\ InAttempt' /\ FailedLinksAreClosed'
    BY <2>1 DEF LinkInv, NotYetOpen, InAttempt, FailedLinksAreClosed, BleSupport
  <2>3. ButtonTells'
    <3>1. enabled' = (phase' = "idle" /\ BleSupport(platform)' = None)
      BY <2>1 DEF LinkInv, ButtonTells, BleSupport
    <3>2. ASSUME mesh = None, meshError # None PROVE line' = meshError
      BY <1>8, <3>2 DEF StatusEvent, Rendered, LinkInv, InAttempt
    <3> QED
      BY <2>1, <3>1, <3>2 DEF ButtonTells
  <2> QED
    BY <2>2, <2>3 DEF LinkInv
<1>9. CASE Transmit \/ Position \/ Tick \/ Pass
  BY <1>1, <1>9 DEF Transmit, Position, Tick, Pass
<1> QED
  BY <1>1, <1>2, <1>3, <1>4, <1>5, <1>6, <1>7, <1>8, <1>9 DEF Next, vars

-----------------------------------------------------------------------------
(* The least and the greatest of some numbers, by well-foundedness.        *)
LEMMA Least ==
  ASSUME NEW T, T \subseteq Nat, T # {}
  PROVE  \E x \in T : \A y \in T : x <= y
<1> DEFINE R == OpToRel(<, Nat)
<1>1. IsWellFoundedOn(R, Nat)
  BY NatLessThanWellFounded
<1>2. ASSUME NEW x \in Nat, NEW y \in Nat, y < x PROVE <<y, x>> \in R
  BY <1>2 DEF OpToRel
<1> HIDE DEF R
<1>3. PICK x \in T : \A y \in T : ~ (<<y, x>> \in R)
  BY <1>1, WFMin
<1>4. ASSUME NEW y \in T PROVE x <= y
  <2>1. x \in Nat /\ y \in Nat
    OBVIOUS
  <2>2. ~ (y < x)
    BY <1>2, <1>3, <2>1
  <2> QED
    BY <2>1, <2>2
<1> QED
  BY <1>4

LEMMA Greatest ==
  ASSUME NEW n \in Nat, NEW T, T \subseteq 0 .. n, T # {}
  PROVE  \E x \in T : \A y \in T : y <= x
<1> DEFINE M == {n - x : x \in T}
<1>1. M \subseteq Nat /\ M # {}
  <2>1. \A x \in T : n - x \in Nat
    OBVIOUS
  <2> QED
    BY <2>1
<1>2. PICK m \in M : \A y \in M : m <= y
  <2> HIDE DEF M
  <2> QED
    BY <1>1, Least
<1>3. PICK x \in T : m = n - x
  OBVIOUS
<1>4. ASSUME NEW y \in T PROVE y <= x
  <2>1. n - y \in M /\ x \in 0 .. n /\ y \in 0 .. n
    OBVIOUS
  <2>2. n - x <= n - y
    BY <1>2, <1>3, <2>1
  <2> QED
    BY <2>1, <2>2
<1> QED
  BY <1>4

-----------------------------------------------------------------------------
(* Air time.                                                               *)
Units(frames, places) == UNION {{i} \X (1 .. Cost[frames[i].kind]) : i \in places}

LEMMA InUnits ==
  ASSUME NEW frames, NEW places, NEW u
  PROVE  u \in Units(frames, places) <=>
           \E i \in places, n \in Nat : n \in 1 .. Cost[frames[i].kind] /\ u = <<i, n>>
BY DEF Units

LEMMA CostIsPositive == \A k \in Kind : Cost[k] \in Nat /\ Cost[k] > 0
BY GovernorAssumption

LEMMA FiveNumbers ==
  \A a, b, c, d, e \in Nat :
    LET sum == a + b + c + d + e
    IN  sum \in Nat /\ a <= sum /\ b <= sum /\ c <= sum /\ d <= sum /\ e <= sum
OBVIOUS

LEMMA UnitsAreFinite ==
  ASSUME NEW frames \in Seq(Frame), NEW places \in SUBSET DOMAIN frames
  PROVE  /\ IsFiniteSet(Units(frames, places))
         /\ AirTime(frames, places) = Cardinality(Units(frames, places))
         /\ AirTime(frames, places) \in Nat
<1> DEFINE most == Cost["anchor"] + Cost["order"] + Cost["position"] + Cost["digest"] + Cost["req"]
           all == (1 .. Len(frames)) \X (1 .. most)
<1>1. most \in Nat /\ \A k \in Kind : Cost[k] \in Nat /\ Cost[k] <= most
  <2>1. /\ Cost["anchor"] \in Nat /\ Cost["order"] \in Nat /\ Cost["position"] \in Nat
        /\ Cost["digest"] \in Nat /\ Cost["req"] \in Nat
    BY CostIsPositive DEF Kind
  <2>2. /\ most \in Nat /\ Cost["anchor"] <= most /\ Cost["order"] <= most
        /\ Cost["position"] <= most /\ Cost["digest"] <= most /\ Cost["req"] <= most
    BY <2>1, FiveNumbers
  <2> HIDE DEF most
  <2>3. ASSUME NEW k \in Kind PROVE Cost[k] \in Nat /\ Cost[k] <= most
    BY <2>1, <2>2, Zenon DEF Kind
  <2> QED
    BY <2>2, <2>3
<1>2. IsFiniteSet(all)
  <2>1. IsFiniteSet(1 .. Len(frames)) /\ IsFiniteSet(1 .. most)
    <3> HIDE DEF most
    <3> QED
      BY <1>1, FS_Interval, LenProperties
  <2> HIDE DEF most
  <2> QED
    BY <2>1, FS_Product
<1>3. ASSUME NEW u \in Units(frames, places) PROVE u \in all
  <2>1. PICK i \in places, n \in Nat : n \in 1 .. Cost[frames[i].kind] /\ u = <<i, n>>
    BY InUnits
  <2>2. i \in 1 .. Len(frames) /\ frames[i].kind \in Kind
    <3>1. frames \in [1 .. Len(frames) -> Frame] /\ DOMAIN frames = 1 .. Len(frames)
      BY LenProperties
    <3>2. frames[i] \in Frame
      BY <3>1
    <3> QED
      BY <3>1, <3>2 DEF Frame
  <2>3. n \in 1 .. most
    <3> HIDE DEF most
    <3> QED
      BY <1>1, <2>1, <2>2
  <2> QED
    BY <2>1, <2>2, <2>3
<1>4. Units(frames, places) \in SUBSET all
  <2> HIDE DEF all
  <2> QED
    BY <1>3
<1>5. IsFiniteSet(Units(frames, places))
  <2> HIDE DEF all
  <2> QED
    BY <1>2, <1>4, FS_Subset
<1>6. AirTime(frames, places) = Cardinality(Units(frames, places))
  BY DEF AirTime, Units
<1> QED
  BY <1>5, <1>6, FS_CardinalityType

LEMMA MorePlacesMoreAirTime ==
  ASSUME NEW frames \in Seq(Frame), NEW S \in SUBSET DOMAIN frames, NEW T \in SUBSET S
  PROVE  AirTime(frames, T) <= AirTime(frames, S)
<1>1. Units(frames, T) \in SUBSET Units(frames, S)
  BY DEF Units
<1>2. IsFiniteSet(Units(frames, S))
  BY UnitsAreFinite
<1>3. Cardinality(Units(frames, T)) <= Cardinality(Units(frames, S))
  BY <1>1, <1>2, FS_Subset
<1>4. T \in SUBSET DOMAIN frames
  OBVIOUS
<1> QED
  BY <1>3, <1>4, UnitsAreFinite

LEMMA DisjointPlaces ==
  ASSUME NEW frames \in Seq(Frame), NEW S \in SUBSET DOMAIN frames,
         NEW T \in SUBSET DOMAIN frames, S \cap T = {}
  PROVE  AirTime(frames, S \cup T) = AirTime(frames, S) + AirTime(frames, T)
<1>1. Units(frames, S \cup T) = Units(frames, S) \cup Units(frames, T)
  BY DEF Units
<1>2. Units(frames, S) \cap Units(frames, T) = {}
  <2>1. ASSUME NEW u, u \in Units(frames, S), u \in Units(frames, T) PROVE FALSE
    <3>1. PICK i \in S, n \in Nat : n \in 1 .. Cost[frames[i].kind] /\ u = <<i, n>>
      BY <2>1, InUnits
    <3>2. PICK j \in T, m \in Nat : m \in 1 .. Cost[frames[j].kind] /\ u = <<j, m>>
      BY <2>1, InUnits
    <3> QED
      BY <3>1, <3>2
  <2> QED
    BY <2>1
<1>3. IsFiniteSet(Units(frames, S)) /\ IsFiniteSet(Units(frames, T))
  BY UnitsAreFinite
<1>4. Cardinality({}) = 0
  BY FS_EmptySet
<1>5. Cardinality(Units(frames, S \cup T))
        = Cardinality(Units(frames, S)) + Cardinality(Units(frames, T)) - 0
  <2>1. Cardinality(Units(frames, S) \cup Units(frames, T))
          = Cardinality(Units(frames, S)) + Cardinality(Units(frames, T))
              - Cardinality(Units(frames, S) \cap Units(frames, T))
    BY <1>3, FS_Union
  <2> QED
    BY <1>1, <1>2, <1>4, <2>1
<1>6. S \cup T \in SUBSET DOMAIN frames
  OBVIOUS
<1>7. /\ AirTime(frames, S) = Cardinality(Units(frames, S)) /\ AirTime(frames, S) \in Nat
      /\ AirTime(frames, T) = Cardinality(Units(frames, T)) /\ AirTime(frames, T) \in Nat
      /\ AirTime(frames, S \cup T) = Cardinality(Units(frames, S \cup T))
  BY <1>6, UnitsAreFinite
<1> QED
  BY <1>5, <1>7

\* The same kinds at places that correspond take the same time.
LEMMA SameKindsSameAirTime ==
  ASSUME NEW f \in Seq(Frame), NEW S \in SUBSET DOMAIN f,
         NEW g \in Seq(Frame), NEW T \in SUBSET DOMAIN g,
         NEW m \in Bijection(S, T), \A i \in S : f[i].kind = g[m[i]].kind
  PROVE  AirTime(f, S) = AirTime(g, T)
<1> DEFINE over == [u \in Units(f, S) |-> <<m[u[1]], u[2]>>]
<1>1. /\ m \in [S -> T] /\ \A i, j \in S : m[i] = m[j] => i = j
      /\ \A t \in T : \E i \in S : m[i] = t
  BY DEF Bijection, Injection, Surjection, IsInjective
<1>2. over \in [Units(f, S) -> Units(g, T)]
  <2>1. ASSUME NEW u \in Units(f, S) PROVE <<m[u[1]], u[2]>> \in Units(g, T)
    <3>1. PICK i \in S, n \in Nat : n \in 1 .. Cost[f[i].kind] /\ u = <<i, n>>
      BY InUnits
    <3>2. m[i] \in T /\ n \in 1 .. Cost[g[m[i]].kind]
      BY <1>1, <3>1
    <3> QED
      BY <3>1, <3>2, InUnits
  <2> QED
    BY <2>1
<1>3. \A u, v \in Units(f, S) : over[u] = over[v] => u = v
  <2>1. ASSUME NEW u \in Units(f, S), NEW v \in Units(f, S), over[u] = over[v] PROVE u = v
    <3>1. PICK i \in S, n \in Nat : n \in 1 .. Cost[f[i].kind] /\ u = <<i, n>>
      BY InUnits
    <3>2. PICK j \in S, k \in Nat : k \in 1 .. Cost[f[j].kind] /\ v = <<j, k>>
      BY InUnits
    <3>3. <<m[i], n>> = <<m[j], k>>
      BY <2>1, <3>1, <3>2
    <3>4. i = j /\ n = k
      BY <1>1, <3>3
    <3> QED
      BY <3>1, <3>2, <3>4
  <2> QED
    BY <2>1
<1>4. \A t \in Units(g, T) : \E u \in Units(f, S) : over[u] = t
  <2>1. ASSUME NEW t \in Units(g, T) PROVE \E u \in Units(f, S) : over[u] = t
    <3>1. PICK j \in T, n \in Nat : n \in 1 .. Cost[g[j].kind] /\ t = <<j, n>>
      BY InUnits
    <3>2. PICK i \in S : m[i] = j
      BY <1>1
    <3>3. n \in 1 .. Cost[f[i].kind]
      BY <3>1, <3>2
    <3>4. <<i, n>> \in Units(f, S)
      BY <3>3, InUnits
    <3>5. over[<<i, n>>] = t
      BY <3>1, <3>2, <3>4
    <3> QED
      BY <3>4, <3>5
  <2> QED
    BY <2>1
<1>5. over \in Bijection(Units(f, S), Units(g, T))
  <2> HIDE DEF over
  <2> QED
    BY <1>2, <1>3, <1>4 DEF Bijection, Injection, Surjection, IsInjective
<1>6. ExistsBijection(Units(f, S), Units(g, T))
  BY <1>5 DEF ExistsBijection
<1>7. IsFiniteSet(Units(f, S))
  BY UnitsAreFinite
<1>8. Cardinality(Units(g, T)) = Cardinality(Units(f, S))
  BY <1>6, <1>7, FS_Bijection
<1> QED
  BY <1>8, UnitsAreFinite

LEMMA AirTimeOfBoth ==
  ASSUME NEW a \in Seq(Frame), NEW b \in Seq(Frame)
  PROVE  AirTime(a \o b, DOMAIN (a \o b)) = AirTime(a, DOMAIN a) + AirTime(b, DOMAIN b)
<1> DEFINE c == a \o b
           S == 1 .. Len(a)
           T == Len(a) + 1 .. Len(a) + Len(b)
           first == [i \in DOMAIN a |-> i]
           second == [i \in DOMAIN b |-> Len(a) + i]
<1>1. c \in Seq(Frame) /\ DOMAIN c = S \cup T /\ S \cap T = {}
  BY ConcatProperties, LenProperties
<1>2. /\ \A i \in DOMAIN a : c[i] = a[i]
      /\ \A i \in DOMAIN b : c[Len(a) + i] = b[i]
  BY ConcatProperties, LenProperties
<1>3. first \in Bijection(DOMAIN a, S) /\ \A i \in DOMAIN a : first[i] = i
  BY LenProperties DEF Bijection, Injection, Surjection, IsInjective
<1>4. second \in Bijection(DOMAIN b, T) /\ \A i \in DOMAIN b : second[i] = Len(a) + i
  <2>1. Len(a) \in Nat /\ Len(b) \in Nat /\ DOMAIN b = 1 .. Len(b)
    BY LenProperties
  <2>2. second \in [DOMAIN b -> T]
    BY <2>1
  <2>3. \A i, j \in DOMAIN b : second[i] = second[j] => i = j
    BY <2>1
  <2>4. \A t \in T : t - Len(a) \in DOMAIN b /\ second[t - Len(a)] = t
    BY <2>1
  <2> QED
    BY <2>2, <2>3, <2>4 DEF Bijection, Injection, Surjection, IsInjective
<1>5. AirTime(c, S) = AirTime(a, DOMAIN a)
  <2>1. \A i \in DOMAIN a : a[i].kind = c[first[i]].kind
    BY <1>2, <1>3
  <2>2. S \in SUBSET DOMAIN c
    BY <1>1
  <2> HIDE DEF c, S, T, first, second
  <2> QED
    BY <1>1, <1>3, <2>1, <2>2, SameKindsSameAirTime
<1>6. AirTime(c, T) = AirTime(b, DOMAIN b)
  <2>1. \A i \in DOMAIN b : b[i].kind = c[second[i]].kind
    BY <1>2, <1>4
  <2>2. T \in SUBSET DOMAIN c
    BY <1>1
  <2> HIDE DEF c, S, T, first, second
  <2> QED
    BY <1>1, <1>4, <2>1, <2>2, SameKindsSameAirTime
<1>7. AirTime(c, S \cup T) = AirTime(c, S) + AirTime(c, T)
  <2>1. S \in SUBSET DOMAIN c /\ T \in SUBSET DOMAIN c
    BY <1>1
  <2> HIDE DEF c, S, T
  <2> QED
    BY <1>1, <2>1, DisjointPlaces
<1> QED
  BY <1>1, <1>5, <1>6, <1>7

LEMMA AirTimeOfNone ==
  ASSUME NEW frames
  PROVE  AirTime(frames, {}) = 0
BY FS_EmptySet DEF AirTime

LEMMA AirTimeOfOne ==
  ASSUME NEW frame \in Frame
  PROVE  AirTime(<<frame>>, DOMAIN <<frame>>) = Cost[frame.kind]
<1> DEFINE c == Cost[frame.kind]
           pair == [n \in 1 .. c |-> <<1, n>>]
<1>1. c \in Nat
  BY CostIsPositive DEF Frame
<1>2. DOMAIN <<frame>> = {1} /\ <<frame>>[1] = frame
  OBVIOUS
<1>3. Units(<<frame>>, {1}) = {1} \X (1 .. c)
  BY DEF Units
<1>4. pair \in Bijection(1 .. c, {1} \X (1 .. c))
  BY DEF Bijection, Injection, Surjection, IsInjective
<1>5. ExistsBijection(1 .. c, {1} \X (1 .. c))
  BY <1>4 DEF ExistsBijection
<1>6. IsFiniteSet(1 .. c) /\ Cardinality(1 .. c) = c
  <2> HIDE DEF c
  <2> QED
    BY <1>1, FS_Interval
<1>7. Cardinality({1} \X (1 .. c)) = c
  <2> HIDE DEF c
  <2> QED
    BY <1>5, <1>6, FS_Bijection
<1> QED
  BY <1>2, <1>3, <1>7 DEF AirTime, Units

-----------------------------------------------------------------------------
(* A log that forgets its first emissions.                                 *)
IsCut(log, t, m) ==
  /\ m \in 0 .. Len(log)
  /\ \A k \in 1 .. m : log[k].at <= t
  /\ m < Len(log) => log[m + 1].at > t

LEMMA Instants ==
  ASSUME NEW log \in Seq(Frame), NEW k \in 1 .. Len(log)
  PROVE  log[k] \in Frame /\ log[k].at \in Int
<1>1. log[k] \in Frame
  BY LenProperties
<1> QED
  BY <1>1, GovernorAssumption DEF Frame

LEMMA AfterCuts ==
  ASSUME NEW log \in Seq(Frame), NEW t \in Int
  PROVE  \E m \in Nat : IsCut(log, t, m) /\ After(log, t) = SubSeq(log, m + 1, Len(log))
<1> DEFINE gone == {n \in 0 .. Len(log) : \A k \in 1 .. n : log[k].at <= t}
           m == SE!Max(gone)
<1>1. Len(log) \in Nat
  BY LenProperties
<1>2. 0 \in gone /\ gone \subseteq 0 .. Len(log)
  BY <1>1
<1>3. PICK x \in gone : \A y \in gone : y <= x
  <2> HIDE DEF gone
  <2> QED
    BY <1>1, <1>2, Greatest
<1>4. m \in gone /\ \A y \in gone : y <= m
  <2>1. \E z \in gone : \A y \in gone : z >= y
    BY <1>2, <1>3
  <2> HIDE DEF gone
  <2>2. m \in gone /\ \A y \in gone : m >= y
    BY <2>1 DEF SE!Max
  <2> QED
    BY <1>1, <1>2, <2>2
<1>5. m \in 0 .. Len(log) /\ \A k \in 1 .. m : log[k].at <= t
  BY <1>4
<1>6. ASSUME m < Len(log) PROVE log[m + 1].at > t
  <2>1. m + 1 \in 0 .. Len(log) /\ m + 1 \in 1 .. Len(log)
    <3> HIDE DEF m
    <3> QED
      BY <1>1, <1>5, <1>6
  <2>2. m + 1 \notin gone
    <3> HIDE DEF gone, m
    <3> QED
      BY <1>1, <1>4, <1>5
  <2>3. \E k \in 1 .. m + 1 : ~ (log[k].at <= t)
    <3> HIDE DEF m
    <3> QED
      BY <2>1, <2>2
  <2>4. PICK k \in 1 .. m + 1 : ~ (log[k].at <= t)
    <3> HIDE DEF m
    <3> QED
      BY <2>3
  <2>5. k = m + 1
    <3> HIDE DEF m
    <3> QED
      BY <1>1, <1>5, <2>4
  <2>6. log[m + 1].at \in Int
    <3> HIDE DEF m
    <3> QED
      BY <2>1, Instants
  <2> HIDE DEF m
  <2> QED
    BY <2>4, <2>5, <2>6
<1>7. After(log, t) = SubSeq(log, m + 1, Len(log))
  BY DEF After
<1> HIDE DEF m, gone
<1>8. m \in Nat /\ IsCut(log, t, m)
  BY <1>1, <1>5, <1>6 DEF IsCut
<1> QED
  BY <1>7, <1>8

LEMMA OneCut ==
  ASSUME NEW log \in Seq(Frame), NEW t \in Int, NEW m \in Nat, IsCut(log, t, m)
  PROVE  After(log, t) = SubSeq(log, m + 1, Len(log))
<1>1. PICK n \in Nat : IsCut(log, t, n) /\ After(log, t) = SubSeq(log, n + 1, Len(log))
  BY AfterCuts
<1>2. Len(log) \in Nat
  BY LenProperties
<1>3. ASSUME NEW i \in Nat, NEW j \in Nat, IsCut(log, t, i), IsCut(log, t, j), i < j PROVE FALSE
  <2>1. i + 1 \in 1 .. j /\ i + 1 \in 1 .. Len(log) /\ i < Len(log)
    BY <1>2, <1>3 DEF IsCut
  <2>2. log[i + 1].at > t /\ log[i + 1].at <= t
    BY <1>3, <2>1 DEF IsCut
  <2>3. log[i + 1].at \in Int
    BY <2>1, Instants
  <2> QED
    BY <2>2, <2>3
<1>4. n = m
  BY <1>1, <1>3
<1> QED
  BY <1>1, <1>4

LEMMA NothingToForget ==
  ASSUME NEW log \in Seq(Frame), NEW t \in Int, log # <<>> => log[1].at > t
  PROVE  After(log, t) = log
<1>1. Len(log) \in Nat /\ (Len(log) > 0 => log # <<>>)
  BY LenProperties
<1>2. IsCut(log, t, 0)
  BY <1>1 DEF IsCut
<1> QED
  BY <1>2, OneCut, SubSeqFull

\* The rest of a log, from any place.
LEMMA RestOfLog ==
  ASSUME NEW log \in Seq(Frame), NEW m \in 0 .. Len(log)
  PROVE  /\ SubSeq(log, m + 1, Len(log)) \in Seq(Frame)
         /\ Len(SubSeq(log, m + 1, Len(log))) = Len(log) - m
         /\ \A i \in 1 .. Len(log) - m : SubSeq(log, m + 1, Len(log))[i] = log[m + i]
<1>1. Len(log) \in Nat /\ \A i \in m + 1 .. Len(log) : log[i] \in Frame
  BY LenProperties
<1>2. m + 1 \in Int /\ Len(log) \in Int
  BY <1>1
<1>3. /\ SubSeq(log, m + 1, Len(log)) \in Seq(Frame)
      /\ Len(SubSeq(log, m + 1, Len(log)))
           = IF m + 1 <= Len(log) THEN Len(log) - (m + 1) + 1 ELSE 0
      /\ \A i \in 1 .. Len(log) - (m + 1) + 1 :
           SubSeq(log, m + 1, Len(log))[i] = log[m + 1 + i - 1]
  BY <1>1, <1>2, SubSeqProperties
<1>4. Len(log) - (m + 1) + 1 = Len(log) - m /\ (m + 1 <= Len(log) \/ Len(log) - m = 0)
  BY <1>1
<1>5. Len(SubSeq(log, m + 1, Len(log))) = Len(log) - m
  BY <1>1, <1>3, <1>4
<1>6. ASSUME NEW i \in 1 .. Len(log) - m PROVE SubSeq(log, m + 1, Len(log))[i] = log[m + i]
  <2>1. m + 1 + i - 1 = m + i
    BY <1>1
  <2>2. SubSeq(log, m + 1, Len(log))[i] = log[m + 1 + i - 1]
    BY <1>3, <1>4
  <2> QED
    BY <2>1, <2>2
<1> QED
  BY <1>3, <1>5, <1>6

LEMMA AfterIsALog ==
  ASSUME NEW log \in Seq(Frame), NEW t \in Int
  PROVE  /\ After(log, t) \in Seq(Frame)
         /\ After(log, t) # <<>> => After(log, t)[1].at > t
<1>1. PICK m \in Nat : IsCut(log, t, m) /\ After(log, t) = SubSeq(log, m + 1, Len(log))
  BY AfterCuts
<1>2. m \in 0 .. Len(log)
  BY <1>1 DEF IsCut
<1>3. /\ After(log, t) \in Seq(Frame) /\ Len(After(log, t)) = Len(log) - m
      /\ \A i \in 1 .. Len(log) - m : After(log, t)[i] = log[m + i]
  BY <1>1, <1>2, RestOfLog
<1>4. ASSUME After(log, t) # <<>> PROVE After(log, t)[1].at > t
  <2>1. Len(log) - m > 0 /\ Len(log) \in Nat
    BY <1>3, <1>4, LenProperties, EmptySeq
  <2>2. After(log, t)[1] = log[m + 1] /\ m < Len(log)
    BY <1>2, <1>3, <2>1
  <2> QED
    BY <1>1, <2>2 DEF IsCut
<1> QED
  BY <1>3, <1>4

LEMMA AfterAgain ==
  ASSUME NEW log \in Seq(Frame), NEW s \in Int, NEW t \in Int, s <= t
  PROVE  After(After(log, s), t) = After(log, t)
<1> DEFINE rest == After(log, s)
<1>1. PICK m \in Nat : IsCut(log, s, m) /\ rest = SubSeq(log, m + 1, Len(log))
  BY AfterCuts
<1>2. m \in 0 .. Len(log) /\ Len(log) \in Nat
  BY <1>1, LenProperties DEF IsCut
<1>3. /\ rest \in Seq(Frame) /\ Len(rest) = Len(log) - m
      /\ \A i \in 1 .. Len(log) - m : rest[i] = log[m + i]
  BY <1>1, <1>2, RestOfLog
<1> HIDE DEF rest
<1>4. PICK n \in Nat : IsCut(rest, t, n) /\ After(rest, t) = SubSeq(rest, n + 1, Len(rest))
  BY <1>3, AfterCuts
<1>5. n \in 0 .. Len(rest) /\ m + n \in 0 .. Len(log) /\ m + n \in Nat
  BY <1>2, <1>3, <1>4 DEF IsCut
<1>6. IsCut(log, t, m + n)
  <2>1. ASSUME NEW k \in 1 .. m + n PROVE log[k].at <= t
    <3>1. CASE k <= m
      <4>1. log[k].at <= s /\ log[k].at \in Int
        BY <1>1, <1>2, <3>1, Instants DEF IsCut
      <4> QED
        BY <4>1
    <3>2. CASE k > m
      <4>1. k - m \in 1 .. n /\ k - m \in 1 .. Len(log) - m /\ m + (k - m) = k
        BY <1>2, <1>3, <1>5, <3>2
      <4>2. rest[k - m].at <= t
        BY <1>4, <4>1 DEF IsCut
      <4>3. rest[k - m] = log[m + (k - m)]
        BY <1>3, <4>1
      <4> QED
        BY <4>1, <4>2, <4>3
    <3> QED
      BY <1>2, <3>1, <3>2
  <2>2. ASSUME m + n < Len(log) PROVE log[m + n + 1].at > t
    <3>1. n < Len(rest) /\ n + 1 \in 1 .. Len(log) - m /\ m + (n + 1) = m + n + 1
      BY <1>2, <1>3, <1>5, <2>2
    <3>2. rest[n + 1].at > t
      BY <1>4, <3>1 DEF IsCut
    <3>3. rest[n + 1] = log[m + (n + 1)]
      BY <1>3, <3>1
    <3> QED
      BY <3>1, <3>2, <3>3
  <2> QED
    BY <1>5, <2>1, <2>2 DEF IsCut
<1>7. After(log, t) = SubSeq(log, m + n + 1, Len(log))
  BY <1>5, <1>6, OneCut
<1>8. /\ After(log, t) \in Seq(Frame) /\ Len(After(log, t)) = Len(log) - (m + n)
      /\ \A i \in 1 .. Len(log) - (m + n) : After(log, t)[i] = log[(m + n) + i]
  BY <1>5, <1>7, RestOfLog
<1>9. /\ After(rest, t) \in Seq(Frame) /\ Len(After(rest, t)) = Len(rest) - n
      /\ \A i \in 1 .. Len(rest) - n : After(rest, t)[i] = rest[n + i]
  BY <1>3, <1>4, <1>5, RestOfLog, ZenonT(40)
<1>10. Len(rest) - n = Len(log) - (m + n)
  BY <1>2, <1>3, <1>5
<1>11. ASSUME NEW i \in 1 .. Len(log) - (m + n) PROVE After(rest, t)[i] = After(log, t)[i]
  <2>1. n + i \in 1 .. Len(log) - m /\ m + (n + i) = (m + n) + i
    BY <1>2, <1>3, <1>5
  <2>2. rest[n + i] = log[m + (n + i)]
    BY <1>3, <2>1
  <2> QED
    BY <1>8, <1>9, <1>10, <2>1, <2>2
<1> QED
  BY <1>8, <1>9, <1>10, <1>11, SeqEqual DEF rest

LEMMA ForgettingFreesTime ==
  ASSUME NEW log \in Seq(Frame), NEW t \in Int
  PROVE  AirTime(After(log, t), DOMAIN After(log, t)) <= AirTime(log, DOMAIN log)
<1> DEFINE rest == After(log, t)
<1>1. PICK m \in Nat : IsCut(log, t, m) /\ rest = SubSeq(log, m + 1, Len(log))
  BY AfterCuts
<1>2. m \in 0 .. Len(log) /\ Len(log) \in Nat /\ DOMAIN log = 1 .. Len(log)
  BY <1>1, LenProperties DEF IsCut
<1>3. /\ rest \in Seq(Frame) /\ Len(rest) = Len(log) - m
      /\ \A i \in 1 .. Len(log) - m : rest[i] = log[m + i]
  BY <1>1, <1>2, RestOfLog
<1> HIDE DEF rest
<1>4. DOMAIN rest = 1 .. Len(log) - m
  BY <1>3, LenProperties
<1> DEFINE shift == [i \in DOMAIN rest |-> m + i]
           T == m + 1 .. Len(log)
<1>5. shift \in Bijection(DOMAIN rest, T) /\ \A i \in DOMAIN rest : rest[i].kind = log[shift[i]].kind
  <2>1. shift \in [DOMAIN rest -> T] /\ \A i, j \in DOMAIN rest : shift[i] = shift[j] => i = j
    BY <1>2, <1>4
  <2>2. \A u \in T : u - m \in DOMAIN rest /\ shift[u - m] = u
    BY <1>2, <1>4
  <2>3. \A i \in DOMAIN rest : rest[i].kind = log[shift[i]].kind
    BY <1>3, <1>4
  <2> HIDE DEF shift
  <2> QED
    BY <2>1, <2>2, <2>3 DEF Bijection, Injection, Surjection, IsInjective
<1>6. T \in SUBSET DOMAIN log /\ DOMAIN rest \in SUBSET DOMAIN rest
  BY <1>2
<1> HIDE DEF shift, T
<1>7. AirTime(rest, DOMAIN rest) = AirTime(log, T)
  BY <1>3, <1>5, <1>6, SameKindsSameAirTime, SMTT(30)
<1>8. AirTime(log, T) <= AirTime(log, DOMAIN log)
  BY <1>6, MorePlacesMoreAirTime
<1> QED
  BY <1>7, <1>8 DEF rest

-----------------------------------------------------------------------------
(* Turns: a strict order on finitely many places numbers them.             *)
StrictOn(before, S) ==
  /\ \A i \in S : <<i, i>> \notin before
  /\ \A i, j, k \in S : <<i, j>> \in before /\ <<j, k>> \in before => <<i, k>> \in before
  /\ \A i, j \in S : i # j => <<i, j>> \in before \/ <<j, i>> \in before

LEMMA TheOneInTurn ==
  ASSUME NEW S, NEW before, NEW c, NEW t,
         \E i \in S : Cardinality({j \in S : <<j, i>> \in before}) = c,
         t = CHOOSE i \in S : Cardinality({j \in S : <<j, i>> \in before}) = c
  PROVE  t \in S /\ Cardinality({j \in S : <<j, t>> \in before}) = c
OBVIOUS

LEMMA TurnsAreOrdered ==
  ASSUME NEW S, IsFiniteSet(S), NEW before, StrictOn(before, S)
  PROVE  /\ InTurn(S, before) \in Bijection(1 .. Cardinality(S), S)
         /\ \A k, l \in 1 .. Cardinality(S) :
              k < l => <<InTurn(S, before)[k], InTurn(S, before)[l]>> \in before
<1> DEFINE n == Cardinality(S)
           Pred(i) == {j \in S : <<j, i>> \in before}
           rank == [i \in S |-> Cardinality(Pred(i))]
           turn == InTurn(S, before)
<1>1. n \in Nat
  BY FS_CardinalityType
<1>2. ASSUME NEW i \in S PROVE IsFiniteSet(Pred(i)) /\ rank[i] \in 0 .. n - 1
  <2>1. Pred(i) \in SUBSET S /\ i \notin Pred(i)
    BY DEF StrictOn
  <2> HIDE DEF Pred
  <2>2. IsFiniteSet(Pred(i)) /\ Cardinality(Pred(i)) <= n /\ (n = Cardinality(Pred(i)) => S = Pred(i))
    BY <2>1, FS_Subset
  <2>3. Cardinality(Pred(i)) \in Nat
    BY <2>2, FS_CardinalityType
  <2>4. n # Cardinality(Pred(i))
    BY <2>1, <2>2
  <2>5. rank[i] = Cardinality(Pred(i))
    OBVIOUS
  <2> HIDE DEF n, rank
  <2> QED
    BY <1>1, <2>2, <2>3, <2>4, <2>5
<1>3. ASSUME NEW i \in S, NEW j \in S, <<i, j>> \in before PROVE rank[i] < rank[j]
  <2>1. Pred(i) \in SUBSET Pred(j) /\ i \in Pred(j) /\ i \notin Pred(i)
    BY <1>3 DEF StrictOn
  <2>2. IsFiniteSet(Pred(j)) /\ rank[i] = Cardinality(Pred(i)) /\ rank[j] = Cardinality(Pred(j))
    BY <1>2
  <2>3. rank[i] \in Int /\ rank[j] \in Int
    <3>1. rank[i] \in 0 .. n - 1 /\ rank[j] \in 0 .. n - 1
      BY <1>2
    <3> HIDE DEF n, rank
    <3> QED
      BY <3>1
  <2> HIDE DEF Pred, rank
  <2>4. Cardinality(Pred(i)) <= Cardinality(Pred(j))
        /\ (Cardinality(Pred(j)) = Cardinality(Pred(i)) => Pred(j) = Pred(i))
    BY <2>1, <2>2, FS_Subset
  <2>5. Pred(j) # Pred(i)
    BY <2>1
  <2> QED
    BY <2>2, <2>3, <2>4, <2>5
<1>4. \A i, j \in S : rank[i] = rank[j] => i = j
  <2>1. ASSUME NEW i \in S, NEW j \in S, rank[i] = rank[j], i # j PROVE FALSE
    <3>1. rank[i] < rank[j] \/ rank[j] < rank[i]
      <4>1. <<i, j>> \in before \/ <<j, i>> \in before
        BY <2>1 DEF StrictOn
      <4> HIDE DEF rank
      <4> QED
        BY <1>3, <4>1
    <3>2. rank[i] \in 0 .. n - 1 /\ rank[j] \in 0 .. n - 1
      BY <1>2
    <3> HIDE DEF rank, n
    <3> QED
      BY <1>1, <2>1, <3>1, <3>2
  <2> HIDE DEF rank
  <2> QED
    BY <2>1
<1>5. rank \in [S -> 0 .. n - 1]
  <2>1. DOMAIN rank = S /\ rank = [i \in S |-> rank[i]]
    OBVIOUS
  <2> HIDE DEF rank
  <2> QED
    BY <1>2, <2>1
<1>6. rank \in Injection(S, 0 .. n - 1)
  <2> HIDE DEF rank
  <2> QED
    BY <1>4, <1>5 DEF Injection, IsInjective
<1>7. IsFiniteSet(0 .. n - 1) /\ Cardinality(0 .. n - 1) = n
  <2> HIDE DEF n
  <2>1. n - 1 \in Int /\ (IF 0 > n - 1 THEN 0 ELSE (n - 1) - 0 + 1) = n
    BY <1>1
  <2> QED
    BY <2>1, FS_Interval
<1>8. rank \in Surjection(S, 0 .. n - 1)
  <2> HIDE DEF rank
  <2>1. Cardinality(S) = Cardinality(0 .. n - 1) <=> rank \in Surjection(S, 0 .. n - 1)
    BY <1>6, <1>7, FS_Injection
  <2> QED
    BY <1>7, <2>1
<1>9. ASSUME NEW k \in 1 .. n PROVE turn[k] \in S /\ rank[turn[k]] = k - 1
  <2>1. k - 1 \in 0 .. n - 1
    <3> HIDE DEF n
    <3> QED
      BY <1>1
  <2>2. \E i \in S : rank[i] = k - 1
    <3> HIDE DEF rank, n
    <3> QED
      BY <1>8, <2>1 DEF Surjection
  <2>3. \E i \in S : Cardinality({j \in S : <<j, i>> \in before}) = k - 1
    BY <2>2
  <2>4. turn[k] = CHOOSE i \in S : Cardinality({j \in S : <<j, i>> \in before}) = k - 1
    BY DEF InTurn
  <2>5. turn[k] \in S /\ Cardinality({j \in S : <<j, turn[k]>> \in before}) = k - 1
    <3> HIDE DEF turn, n
    <3> QED
      BY <2>3, <2>4, TheOneInTurn
  <2>6. rank[turn[k]] = Cardinality({j \in S : <<j, turn[k]>> \in before})
    <3> HIDE DEF turn, n
    <3> QED
      BY <2>5
  <2> HIDE DEF turn, n, rank
  <2>7. rank[turn[k]] = k - 1
    BY <2>5, <2>6, Zenon
  <2> QED
    BY <2>5, <2>7
<1>10. turn \in [1 .. n -> S]
  <2> DEFINE who(k) == CHOOSE i \in S : Cardinality({j \in S : <<j, i>> \in before}) = k - 1
  <2>1. turn = [k \in 1 .. n |-> who(k)]
    BY DEF InTurn
  <2> HIDE DEF turn, n, who
  <2> QED
    BY <1>9, <2>1
<1>11. \A k, l \in 1 .. n : turn[k] = turn[l] => k = l
  <2> HIDE DEF turn, n, rank
  <2>1. ASSUME NEW k \in 1 .. n, NEW l \in 1 .. n, turn[k] = turn[l] PROVE k = l
    <3>1. k - 1 = l - 1
      BY <1>9, <2>1
    <3> QED
      BY <1>1, <3>1
  <2> QED
    BY <2>1
<1>12. \A i \in S : \E k \in 1 .. n : turn[k] = i
  <2> HIDE DEF turn, n, rank
  <2>1. ASSUME NEW i \in S PROVE \E k \in 1 .. n : turn[k] = i
    <3>1. rank[i] \in 0 .. n - 1
      BY <1>2
    <3>2. rank[i] + 1 \in 1 .. n /\ (rank[i] + 1) - 1 = rank[i]
      BY <1>1, <3>1
    <3>3. turn[rank[i] + 1] \in S /\ rank[turn[rank[i] + 1]] = rank[i]
      BY <1>9, <3>2
    <3>4. turn[rank[i] + 1] = i
      BY <1>4, <3>3
    <3> QED
      BY <3>2, <3>4
  <2> QED
    BY <2>1
<1>13. ASSUME NEW k \in 1 .. n, NEW l \in 1 .. n, k < l PROVE <<turn[k], turn[l]>> \in before
  <2> HIDE DEF turn, n, rank
  <2>1. turn[k] \in S /\ turn[l] \in S /\ rank[turn[k]] = k - 1 /\ rank[turn[l]] = l - 1
    BY <1>9
  <2>2. turn[k] # turn[l]
    BY <1>1, <1>11, <1>13
  <2>3. ~ (<<turn[l], turn[k]>> \in before)
    <3>1. ASSUME <<turn[l], turn[k]>> \in before PROVE FALSE
      <4>1. rank[turn[l]] < rank[turn[k]]
        BY <1>3, <2>1, <3>1
      <4> QED
        BY <1>1, <1>13, <2>1, <4>1
    <3> QED
      BY <3>1
  <2> QED
    BY <2>1, <2>2, <2>3 DEF StrictOn
<1> HIDE DEF turn, n
<1>14. turn \in Bijection(1 .. n, S)
  BY <1>10, <1>11, <1>12 DEF Bijection, Injection, Surjection, IsInjective
<1> QED
  BY <1>13, <1>14 DEF turn, n

-----------------------------------------------------------------------------
(* The queue and its two orders.                                           *)
LEMMA RankIsNumber ==
  \A k \in Kind : Rank(k) \in Nat /\ Rank(k) <= 3
BY DEF Kind, Rank

LEMMA PlacesAreFinite ==
  ASSUME queue \in Seq(Frame)
  PROVE  /\ Places = 1 .. Len(queue) /\ Len(queue) \in Nat
         /\ IsFiniteSet(Places) /\ Cardinality(Places) = Len(queue)
         /\ \A i \in Places : /\ queue[i] \in Frame /\ queue[i].kind \in Kind
                              /\ queue[i].at \in Int /\ i \in Int
                              /\ Rank(queue[i].kind) \in Int
<1>1. Places = 1 .. Len(queue) /\ Len(queue) \in Nat
  BY LenProperties DEF Places
<1>2. IsFiniteSet(1 .. Len(queue))
      /\ Cardinality(1 .. Len(queue)) = IF 1 > Len(queue) THEN 0 ELSE Len(queue) - 1 + 1
  BY <1>1, FS_Interval, SMTT(30)
<1>3. (IF 1 > Len(queue) THEN 0 ELSE Len(queue) - 1 + 1) = Len(queue)
  BY <1>1
<1>4. ASSUME NEW i \in Places
      PROVE  /\ queue[i] \in Frame /\ queue[i].kind \in Kind
             /\ queue[i].at \in Int /\ i \in Int /\ Rank(queue[i].kind) \in Int
  <2>1. queue[i] \in Frame /\ queue[i].at \in Int /\ i \in Int
    BY <1>1, Instants
  <2>2. queue[i].kind \in Kind
    BY <2>1 DEF Frame
  <2> QED
    BY <2>1, <2>2, RankIsNumber
<1> QED
  BY <1>1, <1>2, <1>3, <1>4

LEMMA UrgencyIsStrict ==
  ASSUME queue \in Seq(Frame), NEW S \in SUBSET Places
  PROVE  StrictOn(Urgency, S) /\ StrictOn(Arrival, S)
<1>1. \A i \in S : queue[i].at \in Int /\ i \in Int /\ Rank(queue[i].kind) \in Int
  BY PlacesAreFinite
<1>2. \A i, j \in S : (<<i, j>> \in Urgency <=> Sooner(i, j)) /\ (<<i, j>> \in Arrival <=> i < j)
  BY DEF Urgency, Arrival
<1>3. \A i \in S : ~ Sooner(i, i)
  BY <1>1 DEF Sooner
<1>4. ASSUME NEW i \in S, NEW j \in S, NEW k \in S, Sooner(i, j), Sooner(j, k) PROVE Sooner(i, k)
  BY <1>1, <1>4 DEF Sooner
<1>5. ASSUME NEW i \in S, NEW j \in S, i # j PROVE Sooner(i, j) \/ Sooner(j, i)
  BY <1>1, <1>5 DEF Sooner
<1>6. StrictOn(Urgency, S)
  BY <1>2, <1>3, <1>4, <1>5 DEF StrictOn
<1>7. StrictOn(Arrival, S)
  BY <1>1, <1>2 DEF StrictOn
<1> QED
  BY <1>6, <1>7

LEMMA LeavingIsUrgent ==
  ASSUME queue \in Seq(Frame), Used(sent) \in Nat,
         NEW i \in Leaving, NEW j \in Places \ Leaving
  PROVE  ~ Sooner(j, i)
<1> SUFFICES ASSUME Sooner(j, i) PROVE FALSE
  OBVIOUS
<1>1. i \in Places /\ Used(sent) + AirTime(queue, UpTo(i)) <= Budget
  BY DEF Leaving
<1>2. \A k \in Places : <<k, j>> \in Urgency => <<k, i>> \in Urgency
  <2>1. StrictOn(Urgency, Places) /\ <<j, i>> \in Urgency
    BY <1>1, UrgencyIsStrict DEF Urgency
  <2> QED
    BY <1>1, <2>1 DEF StrictOn
<1>3. UpTo(j) \in SUBSET UpTo(i) /\ UpTo(i) \in SUBSET Places
  BY <1>1, <1>2 DEF UpTo, Urgency
<1>4. AirTime(queue, UpTo(j)) <= AirTime(queue, UpTo(i))
  BY <1>3, MorePlacesMoreAirTime DEF Places
<1>5. AirTime(queue, UpTo(j)) \in Nat /\ AirTime(queue, UpTo(i)) \in Nat
  <2>1. UpTo(i) \in SUBSET DOMAIN queue /\ UpTo(j) \in SUBSET DOMAIN queue
    BY <1>3 DEF Places
  <2> QED
    BY <2>1, UnitsAreFinite
<1>6. Used(sent) + AirTime(queue, UpTo(j)) <= Budget
  BY <1>1, <1>4, <1>5, GovernorAssumption
<1> QED
  BY <1>6 DEF Leaving

LEMMA LeavingTurns ==
  ASSUME queue \in Seq(Frame), NEW S \in SUBSET Places
  PROVE  /\ IsFiniteSet(S) /\ Cardinality(S) \in Nat /\ Cardinality(S) <= Len(queue)
         /\ InTurn(S, Urgency) \in Bijection(1 .. Cardinality(S), S)
         /\ \A k, l \in 1 .. Cardinality(S) :
              k < l => <<InTurn(S, Urgency)[k], InTurn(S, Urgency)[l]>> \in Urgency
         /\ InTurn(S, Arrival) \in Bijection(1 .. Cardinality(S), S)
<1>1. IsFiniteSet(S) /\ Cardinality(S) <= Cardinality(Places) /\ Cardinality(Places) = Len(queue)
  BY PlacesAreFinite, FS_Subset
<1>2. Cardinality(S) \in Nat
  BY <1>1, FS_CardinalityType
<1>3. StrictOn(Urgency, S) /\ StrictOn(Arrival, S)
  BY UrgencyIsStrict
<1>4. InTurn(S, Arrival) \in Bijection(1 .. Cardinality(S), S)
  BY <1>1, <1>3, TurnsAreOrdered
<1> QED
  BY <1>1, <1>2, <1>3, <1>4, TurnsAreOrdered

LEMMA LeavingFits ==
  ASSUME queue \in Seq(Frame), Used(sent) \in Nat, Leaving # {}
  PROVE  Used(sent) + AirTime(queue, Leaving) <= Budget
<1> DEFINE n == Cardinality(Leaving)
           turn == InTurn(Leaving, Urgency)
<1>1. Leaving \in SUBSET Places
  BY DEF Leaving
<1>2. /\ IsFiniteSet(Leaving) /\ n \in Nat
      /\ turn \in Bijection(1 .. n, Leaving)
      /\ \A k, l \in 1 .. n : k < l => <<turn[k], turn[l]>> \in Urgency
  BY <1>1, LeavingTurns
<1> HIDE DEF n, turn
<1>3. /\ \A k \in 1 .. n : turn[k] \in Leaving
      /\ \A i \in Leaving : \E k \in 1 .. n : turn[k] = i
  BY <1>2 DEF Bijection, Injection, Surjection
<1>4. n \in 1 .. n
  BY <1>2, <1>3
<1> DEFINE last == turn[n]
<1>5. last \in Leaving
  BY <1>3, <1>4
<1>6. ASSUME NEW i \in Leaving PROVE i \in UpTo(last)
  <2>1. PICK k \in 1 .. n : turn[k] = i
    BY <1>3
  <2>2. CASE k = n
    BY <2>1, <2>2 DEF UpTo
  <2>3. CASE k < n
    <3>1. <<i, last>> \in Urgency
      BY <1>2, <1>4, <2>1, <2>3
    <3> QED
      BY <1>1, <3>1 DEF UpTo
  <2> QED
    BY <1>2, <2>2, <2>3
<1> HIDE DEF last
<1>7. Leaving \in SUBSET UpTo(last) /\ UpTo(last) \in SUBSET DOMAIN queue
  BY <1>1, <1>5, <1>6 DEF UpTo, Places
<1>8. AirTime(queue, Leaving) <= AirTime(queue, UpTo(last))
  BY <1>7, MorePlacesMoreAirTime
<1>9. AirTime(queue, Leaving) \in Nat /\ AirTime(queue, UpTo(last)) \in Nat
  <2>1. Leaving \in SUBSET DOMAIN queue
    BY <1>7
  <2> QED
    BY <1>7, <2>1, UnitsAreFinite
<1>10. Used(sent) + AirTime(queue, UpTo(last)) <= Budget
  BY <1>5 DEF Leaving
<1> QED
  BY <1>8, <1>9, <1>10, GovernorAssumption

-----------------------------------------------------------------------------
(* The queue: what may wait, and what a full one gives up.                 *)
QueueOK(q) ==
  /\ q \in Seq(Frame) /\ Len(q) <= MaxQueue
  /\ \A i, j \in DOMAIN q : q[i].kind = q[j].kind /\ q[i].kind \in Coalesced => i = j

OfKind(q, k) == {i \in DOMAIN q : q[i].kind = k}

\* Nothing more urgent than what q keeps of p has gone.
GivesUp(p, q) ==
  \A k \in Kind : Cardinality(OfKind(q, k)) < Cardinality(OfKind(p, k)) =>
    \A i \in DOMAIN q : Rank(q[i].kind) <= Rank(k)

LEMMA KindsAreFinite ==
  ASSUME NEW q \in Seq(Frame), NEW k
  PROVE  IsFiniteSet(OfKind(q, k)) /\ Cardinality(OfKind(q, k)) \in Nat
<1>1. OfKind(q, k) \in SUBSET (1 .. Len(q)) /\ Len(q) \in Nat
  BY LenProperties DEF OfKind
<1>2. IsFiniteSet(1 .. Len(q))
  BY <1>1, FS_Interval
<1>3. IsFiniteSet(OfKind(q, k))
  BY <1>1, <1>2, FS_Subset
<1> QED
  BY <1>3, FS_CardinalityType

LEMMA NoFewer ==
  ASSUME NEW p \in Seq(Frame), NEW q \in Seq(Frame), NEW k,
         NEW m \in Injection(OfKind(p, k), OfKind(q, k))
  PROVE  ~ (Cardinality(OfKind(q, k)) < Cardinality(OfKind(p, k)))
<1>1. IsFiniteSet(OfKind(q, k)) /\ Cardinality(OfKind(q, k)) \in Nat /\ Cardinality(OfKind(p, k)) \in Nat
  BY KindsAreFinite
<1>2. Cardinality(OfKind(p, k)) <= Cardinality(OfKind(q, k))
  BY <1>1, FS_Injection
<1> QED
  BY <1>1, <1>2

LEMMA SameKindsGiveUpNothing ==
  ASSUME NEW p \in Seq(Frame), NEW q \in Seq(Frame), DOMAIN p = DOMAIN q,
         \A i \in DOMAIN p : p[i].kind = q[i].kind
  PROVE  GivesUp(p, q)
<1>1. \A k : OfKind(p, k) = OfKind(q, k)
  BY DEF OfKind
<1>2. \A k : Cardinality(OfKind(q, k)) \in Nat
  BY KindsAreFinite
<1> QED
  BY <1>1, <1>2 DEF GivesUp

LEMMA KeptPlaces ==
  ASSUME NEW p, QueueOK(p), NEW n \in Nat, n <= Len(p),
         NEW m \in Injection(1 .. n, DOMAIN p)
  PROVE  LET q == [k \in 1 .. n |-> p[m[k]]]
         IN  QueueOK(q) /\ Len(q) = n /\ DOMAIN q = 1 .. n /\ \A k \in 1 .. n : q[k] = p[m[k]]
<1> DEFINE q == [k \in 1 .. n |-> p[m[k]]]
<1>1. p \in Seq(Frame) /\ DOMAIN p = 1 .. Len(p) /\ Len(p) \in Nat /\ Len(p) <= MaxQueue
  BY LenProperties DEF QueueOK
<1>2. m \in [1 .. n -> DOMAIN p] /\ \A i, j \in 1 .. n : m[i] = m[j] => i = j
  BY DEF Injection, IsInjective
<1>3. \A k \in 1 .. n : p[m[k]] \in Frame
  BY <1>1, <1>2, ElementOfSeq
<1>4. q \in Seq(Frame) /\ Len(q) = n /\ DOMAIN q = 1 .. n /\ \A k \in 1 .. n : q[k] = p[m[k]]
  BY <1>3
<1> HIDE DEF q
<1>5. Len(q) <= MaxQueue
  BY <1>1, <1>4, GovernorAssumption
<1>6. ASSUME NEW i \in DOMAIN q, NEW j \in DOMAIN q, q[i].kind = q[j].kind, q[i].kind \in Coalesced
      PROVE  i = j
  <2>1. m[i] \in DOMAIN p /\ m[j] \in DOMAIN p /\ p[m[i]].kind = p[m[j]].kind /\ p[m[i]].kind \in Coalesced
    BY <1>2, <1>4, <1>6
  <2>2. m[i] = m[j]
    BY <2>1 DEF QueueOK
  <2> QED
    BY <1>2, <1>4, <2>2
<1>7. QueueOK(q)
  BY <1>4, <1>5, <1>6 DEF QueueOK
<1> QED
  BY <1>4, <1>7 DEF q

\* lowestPriorityIndex finds one of the least urgent.
LEMMA LowestExists ==
  ASSUME queue \in Seq(Frame), queue # <<>>
  PROVE  /\ LowestPriorityIndex \in DOMAIN queue
         /\ \A j \in DOMAIN queue : Rank(queue[j].kind) <= Rank(queue[LowestPriorityIndex].kind)
<1> DEFINE ranks == {Rank(queue[i].kind) : i \in DOMAIN queue}
<1>1. /\ DOMAIN queue = 1 .. Len(queue) /\ Len(queue) \in Nat /\ 1 \in DOMAIN queue
      /\ \A i \in DOMAIN queue : Rank(queue[i].kind) \in Nat /\ Rank(queue[i].kind) <= 3
  <2>1. DOMAIN queue = 1 .. Len(queue) /\ Len(queue) \in Nat /\ Len(queue) # 0
    BY LenProperties, EmptySeq
  <2>2. ASSUME NEW i \in DOMAIN queue PROVE Rank(queue[i].kind) \in Nat /\ Rank(queue[i].kind) <= 3
    <3>1. queue[i].kind \in Kind
      BY PlacesAreFinite DEF Places
    <3> QED
      BY <3>1, RankIsNumber
  <2> QED
    BY <2>1, <2>2
<1>2. ranks \subseteq 0 .. 3 /\ ranks # {}
  BY <1>1
<1>3. PICK r \in ranks : \A y \in ranks : y <= r
  <2> HIDE DEF ranks
  <2> QED
    BY <1>2, Greatest
<1> DEFINE worst == {i \in DOMAIN queue : Rank(queue[i].kind) = r}
<1>4. worst \subseteq Nat /\ worst # {}
  BY <1>1, <1>3
<1>5. PICK v \in worst : \A y \in worst : v <= y
  <2> HIDE DEF worst
  <2> QED
    BY <1>4, Least
<1>6. v \in DOMAIN queue /\ Rank(queue[v].kind) = r /\ r \in Nat /\ v \in Nat
  BY <1>1, <1>2, <1>3, <1>5
<1>7. ASSUME NEW j \in DOMAIN queue
      PROVE  /\ Rank(queue[j].kind) <= Rank(queue[v].kind)
             /\ j < v => Rank(queue[j].kind) < Rank(queue[v].kind)
  <2>1. Rank(queue[j].kind) <= r /\ Rank(queue[j].kind) \in Nat /\ j \in Nat
    BY <1>1, <1>3
  <2>2. ASSUME j < v PROVE Rank(queue[j].kind) # r
    <3>1. j \notin worst
      BY <1>5, <1>6, <2>1, <2>2
    <3> QED
      BY <3>1
  <2> QED
    BY <1>6, <2>1, <2>2
<1> HIDE DEF worst, ranks
<1>8. \E i \in DOMAIN queue : \A j \in DOMAIN queue :
        /\ Rank(queue[j].kind) <= Rank(queue[i].kind)
        /\ j < i => Rank(queue[j].kind) < Rank(queue[i].kind)
  BY <1>6, <1>7
<1> QED
  BY <1>8 DEF LowestPriorityIndex

LEMMA QueueingInPlace ==
  ASSUME QueueOK(queue), NEW frame \in Frame, frame.kind \in Coalesced, Waiting(frame.kind) # {}
  PROVE  LET q == [queue EXCEPT ![SE!Min(Waiting(frame.kind))] = frame]
         IN  QueueOK(q) /\ GivesUp(queue, q)
<1> DEFINE w == SE!Min(Waiting(frame.kind))
           q == [queue EXCEPT ![w] = frame]
<1>1. queue \in Seq(Frame) /\ DOMAIN queue = 1 .. Len(queue) /\ Len(queue) \in Nat
  BY LenProperties DEF QueueOK
<1>2. Waiting(frame.kind) \subseteq Nat
  BY <1>1 DEF Waiting
<1>3. PICK x \in Waiting(frame.kind) : \A y \in Waiting(frame.kind) : x <= y
  BY <1>2, Least
<1>4. w \in Waiting(frame.kind)
  <2>1. \E z \in Waiting(frame.kind) : \A y \in Waiting(frame.kind) : z =< y
    BY <1>3
  <2> QED
    BY <2>1 DEF SE!Min
<1>5. w \in 1 .. Len(queue) /\ queue[w].kind = frame.kind
  BY <1>1, <1>4 DEF Waiting
<1> HIDE DEF w
<1>6. /\ q \in Seq(Frame) /\ Len(q) = Len(queue)
      /\ \A j \in 1 .. Len(queue) : q[j] = IF j = w THEN frame ELSE queue[j]
  BY <1>1, <1>5, ExceptSeq
<1> HIDE DEF q
<1>7. DOMAIN q = DOMAIN queue /\ \A j \in DOMAIN queue : queue[j].kind = q[j].kind
  BY <1>1, <1>5, <1>6, LenProperties
<1>8. GivesUp(queue, q)
  BY <1>1, <1>6, <1>7, SameKindsGiveUpNothing
<1>9. QueueOK(q)
  BY <1>6, <1>7 DEF QueueOK
<1> QED
  BY <1>8, <1>9 DEF q, w

\* A frame at the end of places that were kept.
LEMMA QueueingAtTheEnd ==
  ASSUME NEW p, QueueOK(p), Len(p) < MaxQueue, NEW frame \in Frame,
         frame.kind \in Coalesced => OfKind(p, frame.kind) = {}
  PROVE  QueueOK(Append(p, frame)) /\ GivesUp(p, Append(p, frame))
<1> DEFINE q == Append(p, frame)
<1>1. p \in Seq(Frame) /\ DOMAIN p = 1 .. Len(p) /\ Len(p) \in Nat
  BY LenProperties DEF QueueOK
<1>2. /\ q \in Seq(Frame) /\ Len(q) = Len(p) + 1 /\ q[Len(p) + 1] = frame
      /\ \A i \in 1 .. Len(p) : q[i] = p[i]
  BY <1>1, AppendProperties
<1> HIDE DEF q
<1>3. DOMAIN q = 1 .. Len(p) + 1
  BY <1>2, LenProperties
<1>4. ASSUME NEW i \in DOMAIN q, NEW j \in DOMAIN q, q[i].kind = q[j].kind, q[i].kind \in Coalesced
      PROVE  i = j
  <2>1. \A l \in DOMAIN q : l \in 1 .. Len(p) \/ l = Len(p) + 1
    BY <1>1, <1>3
  <2>2. \A l \in 1 .. Len(p) : q[l].kind = frame.kind /\ frame.kind \in Coalesced => FALSE
    BY <1>1, <1>2 DEF OfKind
  <2>3. CASE i \in 1 .. Len(p) /\ j \in 1 .. Len(p)
    <3>1. q[i] = p[i] /\ q[j] = p[j] /\ i \in DOMAIN p /\ j \in DOMAIN p
      BY <1>1, <1>2, <2>3
    <3> QED
      BY <1>4, <3>1 DEF QueueOK
  <2>4. CASE i = Len(p) + 1 \/ j = Len(p) + 1
    BY <1>2, <1>4, <2>1, <2>2, <2>4
  <2> QED
    BY <2>1, <2>3, <2>4
<1>5. QueueOK(q)
  <2>1. Len(q) <= MaxQueue
    BY <1>1, <1>2, GovernorAssumption
  <2> QED
    BY <1>2, <1>4, <2>1 DEF QueueOK
<1>6. ASSUME NEW k PROVE ~ (Cardinality(OfKind(q, k)) < Cardinality(OfKind(p, k)))
  <2> DEFINE m == [i \in OfKind(p, k) |-> i]
  <2>1. OfKind(p, k) \subseteq OfKind(q, k)
    BY <1>1, <1>2, <1>3 DEF OfKind
  <2>2. m \in Injection(OfKind(p, k), OfKind(q, k))
    BY <2>1 DEF Injection, IsInjective
  <2> HIDE DEF m
  <2> QED
    BY <1>1, <1>2, <2>2, NoFewer
<1>7. GivesUp(p, q)
  BY <1>6 DEF GivesUp
<1> QED
  BY <1>5, <1>7 DEF q

\* The least urgent of a full queue makes room for something that is more so.
LEMMA QueueingInstead ==
  ASSUME QueueOK(queue), queue # <<>>, NEW frame \in Frame,
         frame.kind \in Coalesced => Waiting(frame.kind) = {}
  PROVE  QueueOK(Evicted(frame)) /\ GivesUp(queue, Evicted(frame))
<1> DEFINE v == LowestPriorityIndex
           n == Len(queue)
           rest == SE!RemoveAt(queue, v)
           q == Append(rest, frame)
<1>1. queue \in Seq(Frame) /\ DOMAIN queue = 1 .. n /\ n \in Nat /\ n <= MaxQueue
  BY LenProperties DEF QueueOK
<1>2. v \in 1 .. n /\ \A j \in 1 .. n : Rank(queue[j].kind) <= Rank(queue[v].kind)
  BY <1>1, LowestExists
<1> HIDE DEF v
<1>3. CASE ~ (Rank(queue[v].kind) > Rank(frame.kind))
  <2>1. Evicted(frame) = queue
    BY <1>3 DEF Evicted, v
  <2> QED
    BY <1>1, <2>1, SameKindsGiveUpNothing
<1>4. CASE Rank(queue[v].kind) > Rank(frame.kind)
  <2> DEFINE m == [k \in 1 .. n - 1 |-> IF k < v THEN k ELSE k + 1]
             kept == [k \in 1 .. n - 1 |-> queue[m[k]]]
  <2>1. Evicted(frame) = q
    BY <1>4 DEF Evicted, v
  <2>2. n - 1 \in Nat /\ n - 1 <= n /\ n - 1 < MaxQueue
    BY <1>1, <1>2, GovernorAssumption
  <2>3. m \in Injection(1 .. n - 1, DOMAIN queue)
    <3>1. m \in [1 .. n - 1 -> 1 .. n]
      BY <1>1, <1>2
    <3>2. \A i, j \in 1 .. n - 1 : m[i] = m[j] => i = j
      BY <1>1, <1>2
    <3> HIDE DEF m
    <3> QED
      BY <1>1, <3>1, <3>2 DEF Injection, IsInjective
  <2>4. QueueOK(kept) /\ Len(kept) = n - 1 /\ DOMAIN kept = 1 .. n - 1
        /\ \A k \in 1 .. n - 1 : kept[k] = queue[m[k]]
    <3> HIDE DEF m, n
    <3> QED
      BY <1>1, <2>2, <2>3, KeptPlaces
  <2>5. rest = kept
    <3> DEFINE a == SubSeq(queue, 1, v - 1)
               b == SubSeq(queue, v + 1, n)
    <3>1. \A i \in 1 .. n : queue[i] \in Frame
      BY <1>1
    <3>2. /\ a \in Seq(Frame) /\ Len(a) = v - 1 /\ \A i \in 1 .. v - 1 : a[i] = queue[i]
      <4>1. 1 \in Int /\ v - 1 \in Int /\ \A i \in 1 .. v - 1 : queue[i] \in Frame
        BY <1>1, <1>2, <3>1
      <4>2. /\ a \in Seq(Frame) /\ Len(a) = IF 1 <= v - 1 THEN (v - 1) - 1 + 1 ELSE 0
            /\ \A i \in 1 .. (v - 1) - 1 + 1 : a[i] = queue[1 + i - 1]
        BY <4>1, SubSeqProperties
      <4> HIDE DEF a
      <4>3. (v - 1) - 1 + 1 = v - 1 /\ \A i \in Int : 1 + i - 1 = i
        BY <1>1, <1>2
      <4> QED
        BY <1>1, <1>2, <4>2, <4>3
    <3>3. /\ b \in Seq(Frame) /\ Len(b) = n - v /\ \A i \in 1 .. n - v : b[i] = queue[v + i]
      <4>1. v \in 0 .. n
        BY <1>1, <1>2
      <4> QED
        BY <1>1, <4>1, RestOfLog
    <3>4. rest = a \o b
      BY DEF SE!RemoveAt
    <3> HIDE DEF a, b, rest
    <3>5. /\ rest \in Seq(Frame) /\ Len(rest) = n - 1
          /\ \A i \in 1 .. n - 1 : rest[i] = IF i <= v - 1 THEN a[i] ELSE b[i - (v - 1)]
      <4>1. /\ rest \in Seq(Frame) /\ Len(rest) = (v - 1) + (n - v)
            /\ \A i \in 1 .. (v - 1) + (n - v) : rest[i] = IF i <= v - 1 THEN a[i] ELSE b[i - (v - 1)]
        <5>1. a \in Seq(Frame) /\ b \in Seq(Frame) /\ Len(a) = v - 1 /\ Len(b) = n - v
          BY <3>2, <3>3
        <5>2. /\ a \o b \in Seq(Frame) /\ Len(a \o b) = Len(a) + Len(b)
              /\ \A i \in 1 .. Len(a) + Len(b) :
                   (a \o b)[i] = IF i <= Len(a) THEN a[i] ELSE b[i - Len(a)]
          BY <5>1, ConcatProperties
        <5> HIDE DEF n
        <5> QED
          BY <3>4, <5>1, <5>2
      <4>2. (v - 1) + (n - v) = n - 1
        BY <1>1, <1>2
      <4> QED
        BY <4>1, <4>2
    <3>6. ASSUME NEW i \in 1 .. n - 1 PROVE rest[i] = kept[i]
      <4>1. CASE i < v
        <5>1. m[i] = i
          BY <4>1
        <5>2. i \in 1 .. v - 1
          BY <1>1, <1>2, <4>1
        <5> QED
          BY <2>4, <3>2, <3>5, <5>1, <5>2
      <4>2. CASE ~ (i < v)
        <5>1. m[i] = i + 1
          BY <4>2
        <5>2. ~ (i <= v - 1) /\ i - (v - 1) \in 1 .. n - v /\ v + (i - (v - 1)) = i + 1
          BY <1>1, <1>2, <4>2
        <5>3. b[i - (v - 1)] = queue[v + (i - (v - 1))]
          BY <3>3, <5>2
        <5> QED
          BY <2>4, <3>5, <5>1, <5>2, <5>3
      <4> QED
        BY <4>1, <4>2
    <3> HIDE DEF kept, n
    <3>7. kept \in Seq(Frame)
      BY <2>4 DEF QueueOK
    <3> QED
      BY <2>4, <3>5, <3>6, <3>7, SeqEqual
  <2> HIDE DEF rest, kept
  <2>6. \A k \in 1 .. n - 1 : rest[k] = queue[m[k]] /\ m[k] \in 1 .. n
    BY <1>1, <2>3, <2>4, <2>5 DEF Injection
  <2>7. frame.kind \in Coalesced => OfKind(rest, frame.kind) = {}
    <3>1. \A k \in DOMAIN rest : rest[k].kind = frame.kind => m[k] \in Waiting(frame.kind)
      <4> HIDE DEF m
      <4> QED
        BY <1>1, <2>4, <2>5, <2>6 DEF Waiting
    <3> QED
      BY <3>1 DEF OfKind
  <2>8. QueueOK(q) /\ GivesUp(rest, q)
    <3>1. Len(rest) < MaxQueue /\ QueueOK(rest)
      BY <2>2, <2>4, <2>5
    <3> QED
      BY <2>7, <3>1, QueueingAtTheEnd
  <2>9. /\ q \in Seq(Frame) /\ DOMAIN q = 1 .. n /\ q[n] = frame
        /\ \A k \in 1 .. n - 1 : q[k] = queue[m[k]]
    <3>1. rest \in Seq(Frame) /\ Len(rest) = n - 1
      BY <2>4, <2>5 DEF QueueOK
    <3>2. Len(rest) + 1 = n
      BY <1>1, <3>1
    <3>3. /\ q \in Seq(Frame) /\ Len(q) = Len(rest) + 1 /\ q[Len(rest) + 1] = frame
          /\ \A i \in 1 .. Len(rest) : q[i] = rest[i]
      BY <3>1, AppendProperties
    <3> HIDE DEF q, m, n
    <3> QED
      BY <2>6, <3>1, <3>2, <3>3, LenProperties
  <2> HIDE DEF q
  <2>10. ASSUME NEW k \in Kind, k # queue[v].kind
         PROVE  ~ (Cardinality(OfKind(q, k)) < Cardinality(OfKind(queue, k)))
    <3> DEFINE back == [i \in OfKind(queue, k) |-> IF i < v THEN i ELSE i - 1]
    <3>1. ASSUME NEW i \in OfKind(queue, k) PROVE back[i] \in OfKind(q, k)
      <4>1. i \in 1 .. n /\ i # v /\ queue[i].kind = k
        BY <1>1, <2>10, <3>1 DEF OfKind
      <4>2. back[i] \in 1 .. n - 1 /\ m[back[i]] = i
        <5>1. CASE i < v
          <6>1. back[i] = i /\ i \in 1 .. n - 1
            BY <1>1, <1>2, <4>1, <5>1
          <6>2. m[i] = i
            BY <5>1, <6>1
          <6> QED
            BY <6>1, <6>2
        <5>2. CASE ~ (i < v)
          <6>1. back[i] = i - 1 /\ i - 1 \in 1 .. n - 1 /\ ~ (i - 1 < v) /\ (i - 1) + 1 = i
            BY <1>1, <1>2, <4>1, <5>2
          <6>2. m[i - 1] = (i - 1) + 1
            BY <6>1
          <6> QED
            BY <6>1, <6>2
        <5> QED
          BY <5>1, <5>2
      <4>3. q[back[i]] = queue[i] /\ back[i] \in DOMAIN q
        <5> HIDE DEF back, m
        <5>1. q[back[i]] = queue[m[back[i]]]
          BY <2>9, <4>2
        <5>2. back[i] \in 1 .. n
          BY <1>1, <4>2
        <5> QED
          BY <2>9, <4>2, <5>1, <5>2
      <4> HIDE DEF back
      <4> QED
        BY <4>1, <4>3 DEF OfKind
    <3>2. \A i, j \in OfKind(queue, k) : back[i] = back[j] => i = j
      <4>1. \A i \in OfKind(queue, k) : i \in Int /\ i # v
        BY <1>1, <2>10 DEF OfKind
      <4>2. v \in Int
        BY <1>1, <1>2
      <4> QED
        BY <4>1, <4>2
    <3>3. back \in [OfKind(queue, k) -> OfKind(q, k)]
      <4>1. DOMAIN back = OfKind(queue, k) /\ back = [i \in OfKind(queue, k) |-> back[i]]
        OBVIOUS
      <4> HIDE DEF back
      <4> QED
        BY <3>1, <4>1
    <3> HIDE DEF back
    <3>4. back \in Injection(OfKind(queue, k), OfKind(q, k))
      BY <3>2, <3>3 DEF Injection, IsInjective
    <3> QED
      BY <1>1, <2>9, <3>4, NoFewer
  <2>11. \A i \in DOMAIN q : Rank(q[i].kind) <= Rank(queue[v].kind)
    <3>1. ASSUME NEW i \in DOMAIN q PROVE Rank(q[i].kind) <= Rank(queue[v].kind)
      <4>1. CASE i \in 1 .. n - 1
        <5> HIDE DEF m
        <5> QED
          BY <1>2, <2>6, <2>9, <4>1
      <4>2. CASE i = n
        <5>1. frame.kind \in Kind /\ queue[v].kind \in Kind
          BY <1>1, <1>2, PlacesAreFinite DEF Frame, Places
        <5> QED
          BY <1>4, <2>9, <4>2, <5>1, RankIsNumber
      <4> QED
        BY <1>1, <2>9, <4>1, <4>2
    <3> QED
      BY <3>1
  <2>12. GivesUp(queue, q)
    BY <2>10, <2>11 DEF GivesUp
  <2> QED
    BY <2>1, <2>8, <2>12
<1> QED
  BY <1>3, <1>4

LEMMA QueueingKeeps ==
  ASSUME QueueOK(queue), NEW frame \in Frame
  PROVE  QueueOK(Queued(frame)) /\ GivesUp(queue, Queued(frame))
<1>1. CASE frame.kind \in Coalesced /\ Waiting(frame.kind) # {}
  <2>1. Queued(frame) = [queue EXCEPT ![SE!Min(Waiting(frame.kind))] = frame]
    BY <1>1 DEF Queued
  <2> QED
    BY <1>1, <2>1, QueueingInPlace
<1>2. CASE ~ (frame.kind \in Coalesced /\ Waiting(frame.kind) # {}) /\ Len(queue) >= MaxQueue
  <2>1. Queued(frame) = Evicted(frame)
    BY <1>2 DEF Queued
  <2>2. queue # <<>>
    BY <1>2, GovernorAssumption
  <2> QED
    BY <1>2, <2>1, <2>2, QueueingInstead
<1>3. CASE ~ (frame.kind \in Coalesced /\ Waiting(frame.kind) # {}) /\ ~ (Len(queue) >= MaxQueue)
  <2>1. Queued(frame) = Append(queue, frame)
    BY <1>3 DEF Queued
  <2>2. Len(queue) < MaxQueue
    BY <1>3, LenProperties, GovernorAssumption DEF QueueOK
  <2>3. frame.kind \in Coalesced => OfKind(queue, frame.kind) = {}
    BY <1>3 DEF Waiting, OfKind
  <2> QED
    BY <2>1, <2>2, <2>3, QueueingAtTheEnd
<1> QED
  BY <1>1, <1>2, <1>3

-----------------------------------------------------------------------------
(* What has left: the history is the log without what the window forgets,  *)
(* and all of it together fits in the budget.                              *)
Within == AirTime(emitted, DOMAIN emitted) <= Budget

AirInv ==
  /\ now \in 0 .. Horizon
  /\ sent \in Seq(Frame) /\ emitted \in Seq(Frame)
  /\ emitted = Pruned(sent)
  /\ Within

GovInv == QueueOK(queue) /\ AirInv

Framed(kinds) == [k \in DOMAIN kinds |-> [kind |-> kinds[k], at |-> now]]

LEMMA NothingSent ==
  /\ <<>> \in Seq(Frame) /\ QueueOK(<<>>)
  /\ \A t \in Int : After(<<>>, t) = <<>>
  /\ AirTime(<<>>, DOMAIN <<>>) <= Budget
<1>1. <<>> \in Seq(Frame) /\ Len(<<>>) = 0 /\ DOMAIN <<>> = {}
  BY EmptySeq
<1>2. \A t \in Int : After(<<>>, t) = <<>>
  BY <1>1, NothingToForget
<1>3. AirTime(<<>>, DOMAIN <<>>) = 0
  BY <1>1, AirTimeOfNone
<1> QED
  BY <1>1, <1>2, <1>3, GovernorAssumption DEF QueueOK

LEMMA FramesOfKinds ==
  ASSUME NEW kinds \in Seq(Kind), now \in 0 .. Horizon
  PROVE  /\ Framed(kinds) \in Seq(Frame) /\ Len(Framed(kinds)) = Len(kinds)
         /\ DOMAIN Framed(kinds) = 1 .. Len(kinds) /\ Len(kinds) \in Nat
         /\ \A k \in 1 .. Len(kinds) : Framed(kinds)[k] = [kind |-> kinds[k], at |-> now]
<1>1. DOMAIN kinds = 1 .. Len(kinds) /\ Len(kinds) \in Nat /\ \A k \in 1 .. Len(kinds) : kinds[k] \in Kind
  BY LenProperties
<1>2. \A k \in 1 .. Len(kinds) : [kind |-> kinds[k], at |-> now] \in Frame
  BY <1>1 DEF Frame
<1>3. Framed(kinds) = [k \in 1 .. Len(kinds) |-> [kind |-> kinds[k], at |-> now]]
  BY <1>1 DEF Framed
<1> QED
  BY <1>1, <1>2, <1>3

LEMMA UsedIsEmitted ==
  ASSUME AirInv
  PROVE  Used(sent) = AirTime(emitted, DOMAIN emitted) /\ Used(sent) \in Nat /\ Used(sent) <= Budget
<1>1. Used(sent) = AirTime(emitted, DOMAIN emitted)
  BY DEF AirInv, Used
<1>2. AirTime(emitted, DOMAIN emitted) \in Nat
  BY UnitsAreFinite DEF AirInv
<1> QED
  BY <1>1, <1>2 DEF AirInv, Within

LEMMA EmissionKeeps ==
  ASSUME AirInv, NEW kinds \in Seq(Kind), Dispatch(kinds), now' = now,
         \/ kinds = <<>>
         \/ Used(sent) + AirTime(Framed(kinds), DOMAIN Framed(kinds)) <= Budget
  PROVE  AirInv'
<1> DEFINE frames == Framed(kinds)
<1>1. /\ frames \in Seq(Frame) /\ Len(frames) = Len(kinds)
      /\ \A k \in 1 .. Len(kinds) : frames[k] = [kind |-> kinds[k], at |-> now]
  BY FramesOfKinds DEF AirInv
<1>2. /\ sent' = IF kinds = <<>> THEN sent ELSE Pruned(sent) \o frames
      /\ emitted' = emitted \o frames
  BY DEF Dispatch, Framed
<1>3. emitted \in Seq(Frame) /\ sent \in Seq(Frame) /\ now \in Int /\ now - Window \in Int
      /\ now - Window < now /\ Pruned(sent)' = After(sent', now' - Window)
      /\ Pruned(sent) = After(sent, now - Window)
  BY GovernorAssumption DEF AirInv, Pruned
<1>4. CASE kinds = <<>>
  <2>1. frames = <<>>
    BY <1>1, <1>4, EmptySeq
  <2>2. emitted' = emitted /\ sent' = sent
    BY <1>2, <1>3, <1>4, <2>1, ConcatEmptySeq
  <2>3. Pruned(sent)' = Pruned(sent)
    BY <1>3, <2>2
  <2> QED
    BY <2>2, <2>3 DEF AirInv, Within
<1>5. CASE kinds # <<>>
  <2>1. sent' = emitted \o frames /\ emitted' = emitted \o frames
    BY <1>2, <1>5 DEF AirInv
  <2>2. emitted \o frames \in Seq(Frame) /\ Len(emitted \o frames) = Len(emitted) + Len(frames)
        /\ \A i \in 1 .. Len(emitted) + Len(frames) :
             (emitted \o frames)[i] = IF i <= Len(emitted) THEN emitted[i] ELSE frames[i - Len(emitted)]
    BY <1>1, <1>3, ConcatProperties
  <2>3. Len(kinds) > 0 /\ Len(kinds) \in Nat /\ Len(emitted) \in Nat
    BY <1>3, <1>5, EmptySeq, LenProperties
  <2>4. (emitted \o frames)[1].at > now - Window
    <3>1. CASE emitted = <<>>
      <4>1. Len(emitted) = 0
        BY <3>1
      <4>2. 1 \in 1 .. Len(emitted) + Len(frames) /\ ~ (1 <= Len(emitted)) /\ 1 - Len(emitted) = 1
        BY <1>1, <2>3, <4>1
      <4>3. (emitted \o frames)[1] = frames[1]
        BY <2>2, <4>2
      <4>4. frames[1] = [kind |-> kinds[1], at |-> now]
        BY <1>1, <2>3
      <4> HIDE DEF frames
      <4> QED
        BY <1>3, <4>3, <4>4
    <3>2. CASE emitted # <<>>
      <4>1. emitted[1].at > now - Window
        BY <1>3, <3>2, AfterIsALog DEF AirInv
      <4>2. 1 \in 1 .. Len(emitted) + Len(frames) /\ 1 <= Len(emitted)
        <5>1. Len(emitted) # 0
          BY <1>3, <3>2, EmptySeq
        <5> QED
          BY <1>1, <2>3, <5>1
      <4>3. (emitted \o frames)[1] = emitted[1]
        BY <2>2, <4>2
      <4> QED
        BY <4>1, <4>3
    <3> QED
      BY <3>1, <3>2
  <2>5. After(emitted \o frames, now - Window) = emitted \o frames
    <3> HIDE DEF frames
    <3> QED
      BY <1>3, <2>2, <2>4, NothingToForget
  <2>6. Pruned(sent)' = emitted'
    BY <1>3, <2>1, <2>5
  <2>7. Used(sent) + AirTime(frames, DOMAIN frames) <= Budget
    BY <1>5
  <2>8. AirTime(emitted \o frames, DOMAIN (emitted \o frames)) <= Budget
    BY <1>1, <1>3, <2>7, AirTimeOfBoth, UsedIsEmitted
  <2>9. Within'
    BY <2>1, <2>8 DEF Within
  <2> QED
    BY <2>1, <2>2, <2>6, <2>9 DEF AirInv
<1> QED
  BY <1>4, <1>5

\* The clock moves: the history forgets what the log will forget.
LEMMA PassingKeeps ==
  ASSUME AirInv, now < Horizon, now' = now + 1, emitted' = LastWindow(now + 1), sent' = sent
  PROVE  AirInv'
<1>1. now \in Int /\ now - Window \in Int /\ (now + 1) - Window \in Int /\ now - Window <= (now + 1) - Window
  BY GovernorAssumption DEF AirInv
<1>2. emitted' = After(emitted, (now + 1) - Window) /\ emitted \in Seq(Frame) /\ sent \in Seq(Frame)
  <2>1. emitted' = After(emitted, (now + 1) - Window)
    BY Zenon DEF LastWindow
  <2> QED
    BY <2>1 DEF AirInv
<1>3. emitted = After(sent, now - Window)
  BY DEF AirInv, Pruned
<1>4. Pruned(sent)' = After(sent, (now + 1) - Window)
  <2>1. Pruned(sent)' = After(sent', now' - Window)
    BY Zenon DEF Pruned
  <2> QED
    BY <2>1, Zenon
<1>5. emitted' = Pruned(sent)'
  BY <1>1, <1>2, <1>3, <1>4, AfterAgain
<1>6. emitted' \in Seq(Frame)
  BY <1>1, <1>2, AfterIsALog
<1>7. AirTime(emitted', DOMAIN emitted') <= AirTime(emitted, DOMAIN emitted)
  BY <1>1, <1>2, ForgettingFreesTime
<1>8. AirTime(emitted', DOMAIN emitted') \in Nat /\ AirTime(emitted, DOMAIN emitted) \in Nat
  BY <1>2, <1>6, UnitsAreFinite
<1>9. Within'
  BY <1>7, <1>8, GovernorAssumption DEF AirInv, Within
<1>10. now' \in 0 .. Horizon
  BY GovernorAssumption DEF AirInv
<1> QED
  BY <1>5, <1>6, <1>9, <1>10 DEF AirInv

LEMMA SubmitKeeps ==
  ASSUME GovInv, NEW kind \in Kind, Submit(kind), now' = now
  PROVE  /\ GovInv'
         /\ \/ queue = <<>> /\ queue' = <<>>
            \/ emitted' = emitted /\ GivesUp(queue, queue')
<1> DEFINE frame == [kind |-> kind, at |-> now]
<1>1. frame \in Frame
  BY DEF GovInv, AirInv, Frame
<1>2. CASE AtOnce(kind)
  <2>1. Dispatch(<<kind>>) /\ queue' = queue /\ queue = <<>>
    BY <1>2 DEF Submit, AtOnce
  <2>2. Framed(<<kind>>) = <<frame>>
    <3>1. <<kind>> \in Seq(Kind) /\ Len(<<kind>>) = 1 /\ <<kind>>[1] = kind
      OBVIOUS
    <3>2. /\ Framed(<<kind>>) \in Seq(Frame) /\ Len(Framed(<<kind>>)) = 1
          /\ \A k \in 1 .. 1 : Framed(<<kind>>)[k] = [kind |-> <<kind>>[k], at |-> now]
      BY <3>1, FramesOfKinds DEF GovInv, AirInv
    <3>3. Framed(<<kind>>)[1] = frame
      BY <3>1, <3>2
    <3>4. <<frame>> \in Seq(Frame) /\ Len(<<frame>>) = 1 /\ <<frame>>[1] = frame
      BY <1>1
    <3> HIDE DEF frame
    <3> QED
      BY <3>2, <3>3, <3>4, SeqEqual
  <2>3. Used(sent) + AirTime(Framed(<<kind>>), DOMAIN Framed(<<kind>>)) <= Budget
    <3>1. AirTime(<<frame>>, DOMAIN <<frame>>) = Cost[frame.kind] /\ frame.kind = kind
      BY <1>1, AirTimeOfOne
    <3>2. Used(sent) + Cost[kind] <= Budget
      BY <1>2 DEF AtOnce, CanSend
    <3> HIDE DEF frame
    <3> QED
      BY <2>2, <3>1, <3>2
  <2>4. <<kind>> \in Seq(Kind)
    OBVIOUS
  <2>5. AirInv'
    BY <2>1, <2>3, <2>4, EmissionKeeps DEF GovInv
  <2> QED
    BY <2>1, <2>5 DEF GovInv
<1>3. CASE ~ AtOnce(kind)
  <2>1. queue' = Queued(frame) /\ sent' = sent /\ emitted' = emitted
    BY <1>3 DEF Submit
  <2>2. QueueOK(queue') /\ GivesUp(queue, queue')
    BY <1>1, <2>1, QueueingKeeps DEF GovInv
  <2>3. AirInv'
    <3>1. Pruned(sent)' = Pruned(sent)
      BY <2>1 DEF Pruned
    <3> QED
      BY <2>1, <3>1 DEF GovInv, AirInv, Within
  <2> QED
    BY <2>1, <2>2, <2>3 DEF GovInv
<1> QED
  BY <1>2, <1>3

\* What a drain sends, and what it leaves in the queue.
LEMMA DrainParts ==
  ASSUME GovInv, Drain, now' = now
  PROVE  \E next, stay :
           LET n == Cardinality(Leaving)
               m == Cardinality(Places \ Leaving)
               kinds == [k \in 1 .. n |-> queue[next[k]].kind]
           IN  /\ n \in Nat /\ m \in Nat /\ m <= Len(queue)
               /\ next \in Bijection(1 .. n, Leaving) /\ stay \in Bijection(1 .. m, Places \ Leaving)
               /\ kinds \in Seq(Kind) /\ Len(kinds) = n
               /\ Dispatch(kinds)
               /\ queue' = [k \in 1 .. m |-> queue[stay[k]]]
<1> DEFINE n == Cardinality(Leaving)
           m == Cardinality(Places \ Leaving)
           next == InTurn(Leaving, Urgency)
           stay == InTurn(Places \ Leaving, Arrival)
           kinds == [k \in 1 .. n |-> queue[next[k]].kind]
<1>1. queue \in Seq(Frame)
  BY DEF GovInv, QueueOK
<1>2. Leaving \in SUBSET Places /\ Places \ Leaving \in SUBSET Places
  BY DEF Leaving
<1>3. n \in Nat /\ next \in Bijection(1 .. n, Leaving)
  BY <1>1, <1>2, LeavingTurns
<1>4. m \in Nat /\ m <= Len(queue) /\ stay \in Bijection(1 .. m, Places \ Leaving)
  BY <1>1, <1>2, LeavingTurns
<1>5. DOMAIN next = 1 .. n /\ DOMAIN stay = 1 .. m /\ \A k \in 1 .. n : next[k] \in Places
  <2> HIDE DEF n, m, next, stay
  <2> QED
    BY <1>2, <1>3, <1>4 DEF Bijection, Injection
<1>6. \A k \in 1 .. n : queue[next[k]].kind \in Kind
  <2> HIDE DEF n, next
  <2> QED
    BY <1>1, <1>5, PlacesAreFinite
<1>7. kinds \in Seq(Kind) /\ Len(kinds) = n
  <2> HIDE DEF n, next
  <2> QED
    BY <1>3, <1>6
<1>8. Dispatch(kinds) /\ queue' = [k \in 1 .. m |-> queue[stay[k]]]
  <2>1. Dispatch([k \in DOMAIN next |-> queue[next[k]].kind])
        /\ queue' = [k \in DOMAIN stay |-> queue[stay[k]]]
    BY DEF Drain
  <2> HIDE DEF n, m, next, stay
  <2> QED
    BY <1>5, <2>1
<1> HIDE DEF next, stay
<1> WITNESS next, stay
<1> QED
  BY <1>3, <1>4, <1>7, <1>8

\* UrgentFirst, of one step.
MostUrgentLeaves ==
  /\ \A e \in Len(emitted) + 1 .. Len(emitted'), q \in DOMAIN queue' :
       Rank(emitted'[e].kind) <= Rank(queue'[q].kind)
  /\ \A f \in SE!ToSet(queue) \ SE!ToSet(queue'), w \in SE!ToSet(queue') :
       Rank(f.kind) = Rank(w.kind) => f.at <= w.at

LEMMA DrainKeeps ==
  ASSUME GovInv, Drain, now' = now
  PROVE  /\ GovInv'
         /\ emitted' = emitted => GivesUp(queue, queue')
         /\ MostUrgentLeaves
<1>1. PICK next, stay :
        LET n == Cardinality(Leaving)
            m == Cardinality(Places \ Leaving)
            kinds == [k \in 1 .. n |-> queue[next[k]].kind]
        IN  /\ n \in Nat /\ m \in Nat /\ m <= Len(queue)
            /\ next \in Bijection(1 .. n, Leaving) /\ stay \in Bijection(1 .. m, Places \ Leaving)
            /\ kinds \in Seq(Kind) /\ Len(kinds) = n
            /\ Dispatch(kinds)
            /\ queue' = [k \in 1 .. m |-> queue[stay[k]]]
  BY DrainParts
<1> DEFINE n == Cardinality(Leaving)
           m == Cardinality(Places \ Leaving)
           kinds == [k \in 1 .. n |-> queue[next[k]].kind]
           frames == Framed(kinds)
<1>2. /\ n \in Nat /\ m \in Nat /\ m <= Len(queue)
      /\ next \in Bijection(1 .. n, Leaving) /\ stay \in Bijection(1 .. m, Places \ Leaving)
      /\ kinds \in Seq(Kind) /\ Len(kinds) = n /\ Dispatch(kinds)
      /\ queue' = [k \in 1 .. m |-> queue[stay[k]]]
  BY <1>1
<1>3. \A k \in 1 .. n : kinds[k] = queue[next[k]].kind
  OBVIOUS
<1> HIDE DEF n, m, kinds
<1>4. /\ queue \in Seq(Frame) /\ QueueOK(queue) /\ AirInv
      /\ now \in 0 .. Horizon /\ emitted \in Seq(Frame)
      /\ Places = DOMAIN queue /\ Leaving \in SUBSET DOMAIN queue
  BY DEF GovInv, AirInv, QueueOK, Places, Leaving
<1>5. /\ next \in [1 .. n -> Leaving] /\ \A i \in Leaving : \E k \in 1 .. n : next[k] = i
      /\ stay \in [1 .. m -> Places \ Leaving]
      /\ \A i, j \in 1 .. m : stay[i] = stay[j] => i = j
      /\ \A i \in Places \ Leaving : \E k \in 1 .. m : stay[k] = i
  BY <1>2 DEF Bijection, Injection, Surjection, IsInjective
<1>6. /\ frames \in Seq(Frame) /\ Len(frames) = n /\ DOMAIN frames = 1 .. n
      /\ \A k \in 1 .. n : frames[k] = [kind |-> kinds[k], at |-> now]
  BY <1>2, <1>4, FramesOfKinds
<1>7. emitted' = emitted \o frames
  BY <1>2 DEF Dispatch, Framed
<1>8. \A k \in 1 .. n : frames[k].kind = queue[next[k]].kind
  BY <1>3, <1>6
<1> HIDE DEF frames
<1>9. AirTime(frames, 1 .. n) = AirTime(queue, Leaving)
  <2> DEFINE turns == 1 .. n
  <2>1. turns \in SUBSET DOMAIN frames /\ turns = 1 .. n
    BY <1>6
  <2>2. frames \in Seq(Frame) /\ queue \in Seq(Frame) /\ Leaving \in SUBSET DOMAIN queue
    BY <1>4, <1>6
  <2>3. next \in Bijection(turns, Leaving) /\ \A k \in turns : frames[k].kind = queue[next[k]].kind
    BY <1>2, <1>8
  <2> HIDE DEF turns
  <2>4. \A h \in Bijection(turns, Leaving) :
          (\A k \in turns : frames[k].kind = queue[h[k]].kind)
            => AirTime(frames, turns) = AirTime(queue, Leaving)
    BY <2>1, <2>2, SameKindsSameAirTime, ZenonT(40)
  <2>5. AirTime(frames, turns) = AirTime(queue, Leaving)
    BY <2>3, <2>4
  <2> QED
    BY <2>1, <2>5
<1>10. kinds = <<>> \/ Used(sent) + AirTime(frames, DOMAIN frames) <= Budget
  <2>1. CASE Leaving = {}
    <3>1. n = 0
      BY <2>1, FS_EmptySet DEF n
    <3> QED
      BY <1>2, <3>1, EmptySeq
  <2>2. CASE Leaving # {}
    <3>1. Used(sent) + AirTime(queue, Leaving) <= Budget
      BY <1>4, <2>2, UsedIsEmitted, LeavingFits
    <3> QED
      BY <1>6, <1>9, <3>1
  <2> QED
    BY <2>1, <2>2
<1>11. AirInv'
  BY <1>2, <1>4, <1>10, EmissionKeeps DEF frames
<1>12. QueueOK(queue') /\ queue' \in Seq(Frame) /\ DOMAIN queue' = 1 .. m
       /\ \A k \in 1 .. m : queue'[k] = queue[stay[k]]
  <2>1. stay \in Injection(1 .. m, DOMAIN queue)
    BY <1>4, <1>5 DEF Injection, IsInjective
  <2> DEFINE q == [k \in 1 .. m |-> queue[stay[k]]]
  <2>2. QueueOK(q) /\ DOMAIN q = 1 .. m /\ \A k \in 1 .. m : q[k] = queue[stay[k]]
    BY <1>2, <1>4, <2>1, KeptPlaces, ZenonT(40)
  <2>3. queue' = q
    BY <1>2
  <2> HIDE DEF q
  <2> QED
    BY <2>2, <2>3 DEF QueueOK
<1>13. GovInv'
  BY <1>11, <1>12 DEF GovInv
<1>14. ASSUME emitted' = emitted PROVE GivesUp(queue, queue')
  <2>1. frames = <<>>
    <3>1. emitted \o frames = emitted
      BY <1>7, <1>14
    <3>2. emitted \o frames = emitted <=> frames = <<>>
      BY <1>4, <1>6, ConcatEqualIffEmpty
    <3> QED
      BY <3>1, <3>2
  <2>2. Leaving = {}
    <3>1. n = 0
      BY <1>6, <2>1, EmptySeq
    <3> QED
      BY <1>2, <1>5, <3>1
  <2>3. ASSUME NEW k \in Kind
        PROVE  ~ (Cardinality(OfKind(queue', k)) < Cardinality(OfKind(queue, k)))
    <3> DEFINE was == [i \in OfKind(queue', k) |-> stay[i]]
    <3>1. was \in [OfKind(queue', k) -> OfKind(queue, k)]
      BY <1>4, <1>5, <1>12 DEF OfKind
    <3>2. ASSUME NEW i \in OfKind(queue, k) PROVE \E j \in OfKind(queue', k) : was[j] = i
      <4>1. i \in Places \ Leaving /\ queue[i].kind = k
        BY <1>4, <2>2 DEF OfKind
      <4>2. PICK j \in 1 .. m : stay[j] = i
        BY <1>5, <4>1
      <4>3. j \in OfKind(queue', k)
        BY <1>12, <4>1, <4>2 DEF OfKind
      <4> QED
        BY <4>2, <4>3
    <3> HIDE DEF was
    <3>3. was \in Surjection(OfKind(queue', k), OfKind(queue, k))
      BY <3>1, <3>2 DEF Surjection
    <3>4. IsFiniteSet(OfKind(queue', k)) /\ Cardinality(OfKind(queue', k)) \in Nat
          /\ Cardinality(OfKind(queue, k)) \in Nat
      BY <1>4, <1>12, KindsAreFinite
    <3>5. Cardinality(OfKind(queue, k)) <= Cardinality(OfKind(queue', k))
      BY <3>3, <3>4, FS_Surjection
    <3> QED
      BY <3>4, <3>5
  <2> QED
    BY <2>3 DEF GivesUp
<1>15. ASSUME NEW i \in Leaving, NEW j \in Places \ Leaving
       PROVE  /\ Rank(queue[i].kind) <= Rank(queue[j].kind)
              /\ Rank(queue[i].kind) = Rank(queue[j].kind) => queue[i].at <= queue[j].at
  <2>1. ~ Sooner(j, i)
    BY <1>4, UsedIsEmitted, LeavingIsUrgent
  <2>2. /\ queue[i].at \in Int /\ queue[j].at \in Int
        /\ Rank(queue[i].kind) \in Int /\ Rank(queue[j].kind) \in Int
    BY <1>4, PlacesAreFinite
  <2> QED
    BY <2>1, <2>2 DEF Sooner
<1>16. ASSUME NEW e \in Len(emitted) + 1 .. Len(emitted'), NEW q \in DOMAIN queue'
       PROVE  Rank(emitted'[e].kind) <= Rank(queue'[q].kind)
  <2>1. Len(emitted) \in Nat /\ Len(emitted') = Len(emitted) + n
    BY <1>4, <1>6, <1>7, ConcatProperties, LenProperties
  <2>2. e - Len(emitted) \in 1 .. n /\ e \in 1 .. Len(emitted) + n /\ ~ (e <= Len(emitted))
    BY <1>2, <2>1
  <2>3. emitted'[e] = frames[e - Len(emitted)]
    BY <1>4, <1>6, <1>7, <2>2, ConcatProperties
  <2>4. emitted'[e].kind = queue[next[e - Len(emitted)]].kind
    BY <1>8, <2>2, <2>3
  <2>5. next[e - Len(emitted)] \in Leaving /\ stay[q] \in Places \ Leaving
    BY <1>5, <1>12, <2>2
  <2>6. queue'[q] = queue[stay[q]]
    BY <1>12
  <2> QED
    BY <1>15, <2>4, <2>5, <2>6
<1>17. ASSUME NEW f \in SE!ToSet(queue) \ SE!ToSet(queue'), NEW w \in SE!ToSet(queue'),
              Rank(f.kind) = Rank(w.kind)
       PROVE  f.at <= w.at
  <2>1. PICK i \in DOMAIN queue : f = queue[i]
    BY DEF SE!ToSet
  <2>2. PICK q \in DOMAIN queue' : w = queue'[q]
    BY DEF SE!ToSet
  <2>3. i \in Leaving
    <3>1. ASSUME i \notin Leaving PROVE FALSE
      <4>1. PICK k \in 1 .. m : stay[k] = i
        BY <1>4, <1>5, <3>1
      <4>2. queue'[k] = f /\ k \in DOMAIN queue'
        BY <1>12, <2>1, <4>1
      <4> QED
        BY <4>2 DEF SE!ToSet
    <3> QED
      BY <3>1
  <2>4. stay[q] \in Places \ Leaving /\ w = queue[stay[q]]
    BY <1>5, <1>12, <2>2
  <2> QED
    BY <1>15, <1>17, <2>1, <2>3, <2>4
<1>18. MostUrgentLeaves
  BY <1>16, <1>17 DEF MostUrgentLeaves
<1> QED
  BY <1>13, <1>14, <1>18

-----------------------------------------------------------------------------
(* The governor of the module that is attached.                            *)
Numbered ==
  /\ attempt \in Nat /\ links \subseteq 1 .. attempt
  /\ mesh \in {None} \cup 1 .. attempt
  /\ phase # "idle" => attempt >= 1

\* What a step does to the governor: a new one comes with another module.
GovernorStep ==
  \/ UNCHANGED <<now, governor>>
  \/ FreshGovernor /\ mesh' # mesh
  \/ /\ now' = now
     /\ \/ \E k \in Kind : Submit(k)
        \/ Drain
  \/ /\ now < Horizon /\ now' = now + 1
     /\ emitted' = LastWindow(now + 1) /\ UNCHANGED <<sent, queue>>

LEMMA StepsOfTheGovernor ==
  ASSUME LinkInv, Numbered, [Next]_vars
  PROVE  GovernorStep
<1>1. CASE UNCHANGED vars
  BY <1>1 DEF vars, GovernorStep
<1>2. CASE Detach
  BY <1>2 DEF Detach, GovernorStep
<1>8. CASE Configured
  <2>1. mesh = None /\ mesh' = attempt /\ attempt \in Nat /\ FreshGovernor
    BY <1>8 DEF Configured, LinkInv, InAttempt, Numbered
  <2> QED
    BY <2>1, RadioLinkAssumption DEF GovernorStep
<1>3. CASE Connect \/ Prepare \/ Refuse \/ Timeout \/ Close \/ StatusEvent
  BY <1>3 DEF Connect, Prepare, Refuse, Timeout, Close, StatusEvent, GovernorStep
<1>4. CASE Transmit
  BY <1>4, GovernorAssumption DEF Transmit, GovernorStep
<1>5. CASE Position
  <2>1. Submit("position") /\ now' = now
    BY <1>5 DEF Position, SendPosition
  <2> QED
    BY <2>1 DEF GovernorStep, Kind
<1>6. CASE Tick
  BY <1>6 DEF Tick, GovernorStep
<1>7. CASE Pass
  BY <1>7 DEF Pass, GovernorStep
<1> QED
  BY <1>1, <1>2, <1>3, <1>4, <1>5, <1>6, <1>7, <1>8 DEF Next

LEMMA GovernorInit ==
  ASSUME Init
  PROVE  GovInv
<1>1. now = 0 /\ sent = <<>> /\ queue = <<>> /\ emitted = <<>>
  BY DEF Init, NewGovernor
<1>2. Pruned(sent) = <<>>
  BY <1>1, NothingSent, GovernorAssumption DEF Pruned
<1> QED
  BY <1>1, <1>2, NothingSent, GovernorAssumption DEF GovInv, AirInv, Within

LEMMA GovernorKeeps ==
  ASSUME GovInv, LinkInv, Numbered, [Next]_vars
  PROVE  GovInv'
<1>1. GovernorStep
  BY StepsOfTheGovernor
<1>2. CASE UNCHANGED <<now, governor>>
  <2>1. UNCHANGED <<now, sent, queue, emitted>>
    BY <1>2 DEF governor
  <2>2. Pruned(sent)' = Pruned(sent)
    BY <2>1 DEF Pruned
  <2> QED
    BY <2>1, <2>2 DEF GovInv, AirInv, Within
<1>3. CASE FreshGovernor /\ mesh' # mesh
  <2>1. now' = 0 /\ sent' = <<>> /\ queue' = <<>> /\ emitted' = <<>>
    BY <1>3 DEF FreshGovernor
  <2>2. Pruned(sent)' = After(sent', now' - Window)
    BY Zenon DEF Pruned
  <2>3. Pruned(sent)' = <<>>
    BY <2>1, <2>2, NothingSent, GovernorAssumption
  <2> QED
    BY <2>1, <2>3, NothingSent, GovernorAssumption DEF GovInv, AirInv, Within
<1>4. CASE now' = now /\ \E k \in Kind : Submit(k)
  BY <1>4, SubmitKeeps
<1>5. CASE now' = now /\ Drain
  BY <1>5, DrainKeeps
<1>6. CASE /\ now < Horizon /\ now' = now + 1
           /\ emitted' = LastWindow(now + 1) /\ UNCHANGED <<sent, queue>>
  <2>1. AirInv'
    BY <1>6, PassingKeeps DEF GovInv
  <2> QED
    BY <1>6, <2>1 DEF GovInv
<1> QED
  BY <1>1, <1>2, <1>3, <1>4, <1>5, <1>6 DEF GovernorStep

LEMMA NumberedInit == Init => Numbered
BY DEF Init, Numbered

LEMMA NumberedKeeps ==
  ASSUME Numbered, [Next]_vars
  PROVE  Numbered'
<1> USE DEF Numbered
<1>1. CASE UNCHANGED <<mesh, links, attempt, phase>>
  BY <1>1
<1>2. CASE Detach
  BY <1>2 DEF Detach
<1>3. CASE Connect
  BY <1>3 DEF Connect
<1>4. CASE Prepare
  <2>1. mesh' = mesh /\ attempt' = attempt /\ phase # "idle"
        /\ (links' = links \/ links' = links \cup {attempt})
    BY <1>4 DEF Prepare, Proceed
  <2>2. attempt \in 1 .. attempt
    BY <2>1
  <2> QED
    BY <2>1, <2>2
<1>5. CASE Configured
  <2>1. attempt \in 1 .. attempt
    BY <1>5 DEF Configured
  <2> QED
    BY <1>5, <2>1 DEF Configured
<1>6. CASE Refuse \/ Timeout
  BY <1>6 DEF Refuse, Timeout, Proceed
<1>7. CASE Close
  BY <1>7 DEF Close, FailWith
<1>8. CASE StatusEvent
  BY <1>8 DEF StatusEvent
<1>9. CASE Transmit \/ Position \/ Tick \/ Pass
  BY <1>1, <1>9 DEF Transmit, Position, Tick, Pass, link
<1>10. CASE UNCHANGED vars
  BY <1>1, <1>10 DEF vars, link
<1> QED
  BY <1>2, <1>3, <1>4, <1>5, <1>6, <1>7, <1>8, <1>9, <1>10 DEF Next


RadioInv == LinkInv /\ Numbered /\ GovInv

LEMMA RadioInvInit == Init => RadioInv
BY LinkInit, NumberedInit, GovernorInit DEF RadioInv

LEMMA RadioInvStep == RadioInv /\ [Next]_vars => RadioInv'
BY LinkStep, NumberedKeeps, GovernorKeeps DEF RadioInv

LEMMA TypesHold ==
  ASSUME RadioInv
  PROVE  TypeOK
<1>1. queue \in Seq(Frame) /\ Len(queue) <= MaxQueue
  BY DEF RadioInv, GovInv, QueueOK
<1>2. OneOfEachKey
  <2>1. ASSUME NEW k \in Coalesced PROVE Cardinality(Waiting(k)) <= 1
    <3>1. IsFiniteSet(Waiting(k))
      BY <1>1, KindsAreFinite DEF Waiting, OfKind
    <3>2. \A i, j \in Waiting(k) : i = j
      BY <2>1 DEF RadioInv, GovInv, QueueOK, Waiting
    <3>3. CASE Waiting(k) = {}
      BY <3>3, FS_EmptySet
    <3>4. CASE Waiting(k) # {}
      <4>1. PICK i : i \in Waiting(k)
        BY <3>4
      <4>2. Waiting(k) = {i}
        BY <3>2, <4>1
      <4> QED
        BY <4>2, FS_Singleton
    <3> QED
      BY <3>3, <3>4
  <2> QED
    BY <2>1 DEF OneOfEachKey
<1>3. now \in 0 .. Horizon /\ {sent, emitted} \subseteq Seq(Frame)
  BY DEF RadioInv, GovInv, AirInv
<1>4. phase \in {"idle", "availability", "loading", "choosing", "configuring", "closing"}
  BY DEF RadioInv, LinkInv, InAttempt
<1>5. mesh \in {None} \cup 1 .. attempt /\ links \subseteq 1 .. attempt
  BY DEF RadioInv, Numbered
<1> QED
  BY <1>1, <1>2, <1>3, <1>4, <1>5 DEF TypeOK

LEMMA BudgetHolds ==
  ASSUME RadioInv
  PROVE  WithinDutyCycle
<1> DEFINE recent == {k \in DOMAIN emitted : emitted[k].at > now - Window}
<1>1. emitted \in Seq(Frame) /\ recent \in SUBSET DOMAIN emitted
      /\ AirTime(emitted, DOMAIN emitted) <= Budget
  BY DEF RadioInv, GovInv, AirInv, Within
<1>2. DOMAIN emitted \in SUBSET DOMAIN emitted
  OBVIOUS
<1> HIDE DEF recent
<1>3. AirTime(emitted, recent) <= AirTime(emitted, DOMAIN emitted)
      /\ AirTime(emitted, recent) \in Nat /\ AirTime(emitted, DOMAIN emitted) \in Nat
  BY <1>1, <1>2, MorePlacesMoreAirTime, UnitsAreFinite
<1>4. AirTime(emitted, recent) <= Budget
  BY <1>1, <1>3, GovernorAssumption
<1> QED
  BY <1>4 DEF WithinDutyCycle, recent

\* What a step that keeps the module sends, and what it gives up.
LEMMA StepsOfOneModule ==
  ASSUME RadioInv, [Next]_vars, mesh' = mesh
  PROVE  /\ now' = now => emitted' = emitted \/ MostUrgentLeaves
         /\ emitted' = emitted => GivesUp(queue, queue')
<1>1. GovernorStep
  BY StepsOfTheGovernor DEF RadioInv
<1>2. queue \in Seq(Frame) /\ GovInv
  BY DEF RadioInv, GovInv, QueueOK
<1>3. queue' = queue => GivesUp(queue, queue')
  BY <1>2, SameKindsGiveUpNothing
<1>4. CASE UNCHANGED <<now, governor>>
  BY <1>3, <1>4 DEF governor
<1>5. CASE now' = now /\ \E k \in Kind : Submit(k)
  <2>1. \/ queue = <<>> /\ queue' = <<>>
        \/ emitted' = emitted /\ GivesUp(queue, queue')
    BY <1>2, <1>5, SubmitKeeps
  <2>2. ASSUME queue' = <<>> PROVE MostUrgentLeaves
    BY <2>2 DEF MostUrgentLeaves, SE!ToSet
  <2> QED
    BY <1>3, <2>1, <2>2
<1>6. CASE now' = now /\ Drain
  BY <1>2, <1>6, DrainKeeps
<1>7. CASE now < Horizon /\ now' = now + 1 /\ UNCHANGED <<sent, queue>>
  <2>1. now' # now
    BY <1>2, <1>7 DEF GovInv, AirInv
  <2> QED
    BY <1>3, <1>7, <2>1
<1> QED
  BY <1>1, <1>4, <1>5, <1>6, <1>7 DEF GovernorStep

(***************************************************************************)
(* Whatever the browser and the module answer, and in whatever order the   *)
(* failures of an attempt come, its Bluetooth link is closed before the    *)
(* reason is shown (bleRadioImpl.ts:194).                                  *)
(***************************************************************************)
THEOREM FailuresAreClean == Spec => []FailedLinksAreClosed
<1>1. LinkInv => FailedLinksAreClosed
  BY DEF LinkInv
<1> QED
  BY <1>1, LinkInit, LinkStep, PTL DEF Spec

(***************************************************************************)
(* The button can be tapped whenever no attempt runs and Bluetooth works,  *)
(* and the drawer shows the last failure until the next tap                *)
(* (mapView.ts:1260 to 1292): no event of a module wipes it.  And the      *)
(* queue never outgrows its limit, nor holds two frames of one key.        *)
(***************************************************************************)
THEOREM DrawerIsRight == Spec => []DrawerTells
<1>1. RadioInv => DrawerTells
  BY TypesHold DEF RadioInv, LinkInv, DrawerTells
<1> QED
  BY <1>1, RadioInvInit, RadioInvStep, PTL DEF Spec

(***************************************************************************)
(* For any window, budget, queue and costs, and for any schedule of        *)
(* submissions, drains and positions, what left during the last window     *)
(* never takes more air than the budget (airtime.ts:98 to 124).            *)
(***************************************************************************)
THEOREM BudgetIsKept == Spec => []WithinDutyCycle
<1>1. RadioInv => WithinDutyCycle
  BY BudgetHolds
<1> QED
  BY <1>1, RadioInvInit, RadioInvStep, PTL DEF Spec

(***************************************************************************)
(* A drain lets the most urgent frames out first, and of equal rank the    *)
(* ones that wait for longest (airtimeGovernor.ts:139 to 167).             *)
(***************************************************************************)
THEOREM UrgencyIsRespected == Spec => UrgentFirst
<1> DEFINE Fair ==
      mesh' = mesh /\ now' = now /\ emitted' # emitted =>
        /\ \A e \in Len(emitted) + 1 .. Len(emitted'), q \in DOMAIN queue' :
             Rank(emitted'[e].kind) <= Rank(queue'[q].kind)
        /\ \A f \in SE!ToSet(queue) \ SE!ToSet(queue'), w \in SE!ToSet(queue') :
             Rank(f.kind) = Rank(w.kind) => f.at <= w.at
<1>1. RadioInv /\ [Next]_vars => [Fair]_vars
  <2> SUFFICES ASSUME RadioInv, [Next]_vars PROVE Fair
    OBVIOUS
  <2> SUFFICES ASSUME mesh' = mesh, now' = now, emitted' # emitted PROVE MostUrgentLeaves
    BY DEF MostUrgentLeaves
  <2> QED
    BY StepsOfOneModule
<1> QED
  BY <1>1, RadioInvInit, RadioInvStep, PTL DEF Spec, UrgentFirst

(***************************************************************************)
(* What a full queue gives up of what it held is at most as urgent as      *)
(* anything it keeps (airtimeGovernor.ts:116 to 137).                      *)
(***************************************************************************)
THEOREM UrgentFramesStay == Spec => OrdersSurvive
<1> DEFINE Fair ==
      mesh # None /\ mesh' = mesh /\ emitted' = emitted =>
        \A k \in Kind :
          Cardinality(Waiting(k)') < Cardinality(Waiting(k)) =>
            \A q \in DOMAIN queue' : Rank(queue'[q].kind) <= Rank(k)
<1>1. RadioInv /\ [Next]_vars => [Fair]_vars
  <2> SUFFICES ASSUME RadioInv, [Next]_vars PROVE Fair
    OBVIOUS
  <2> SUFFICES ASSUME mesh' = mesh, emitted' = emitted
               PROVE  \A k \in Kind :
                        Cardinality(Waiting(k)') < Cardinality(Waiting(k)) =>
                          \A q \in DOMAIN queue' : Rank(queue'[q].kind) <= Rank(k)
    OBVIOUS
  <2>1. GivesUp(queue, queue')
    BY StepsOfOneModule
  <2>2. \A k : Waiting(k) = OfKind(queue, k) /\ Waiting(k)' = OfKind(queue', k)
    BY DEF Waiting, OfKind
  <2> QED
    BY <2>1, <2>2 DEF GivesUp
<1> QED
  BY <1>1, RadioInvInit, RadioInvStep, PTL DEF Spec, OrdersSurvive
=============================================================================
