------------------------------ MODULE OrderIds ------------------------------
(***************************************************************************)
(* The identifiers a client gives to its orders: a node number and a       *)
(* sequence number, the counter in the memory of the page, the numbers to  *)
(* resume from in localStorage (client/src/transport/orderIds.ts,          *)
(* SeqCounter of shared/src/mesh/ids.ts).  The tabs of one browser share   *)
(* the storage and nothing else.  Storage that refuses to be written is    *)
(* not modelled.                                                           *)
(***************************************************************************)
EXTENDS Integers

CONSTANTS Tab,
          NodeNumber,
          Radio,      \* those of the modules this client may be connected to
          None,       \* null
          Wrap,       \* sequence numbers are taken modulo Wrap: 2^16
          MaxIssued   \* bound of the model: no identifier is issued beyond

ASSUME OrderIdsAssumption ==
  /\ Radio \subseteq NodeNumber
  /\ None \notin Nat \cup NodeNumber
  /\ Wrap \in Nat /\ MaxIssued \in Nat /\ MaxIssued < Wrap

Seq16 == 0 .. Wrap - 1

Counter == [node : NodeNumber, next : Seq16]

ASSUME NoneAssumption == None \notin Counter

VARIABLES
  counter,   \* of each tab, None until it is first needed
  nodeKey,   \* NODE_KEY: the node number to resume with
  seqKey,    \* SEQ_KEY: the number after the last one issued
  seqKeyOf,  \* SEQ_KEY-n: the number after the last one issued for node n
  issued,    \* history: the identifiers issued
  count      \* history: how many times one was issued

idVars == <<counter, nodeKey, seqKey, seqKeyOf, issued, count>>

IdsTypeOK ==
  /\ counter \in [Tab -> Counter \cup {None}]
  /\ nodeKey \in NodeNumber \cup {None}
  /\ seqKey \in Seq16 \cup {None}
  /\ seqKeyOf \in [NodeNumber -> Seq16 \cup {None}]
  /\ issued \subseteq NodeNumber \X Seq16
  /\ count \in 0 .. MaxIssued

InitIds ==
  /\ counter = [t \in Tab |-> None]
  /\ nodeKey = None
  /\ seqKey = None
  /\ seqKeyOf = [n \in NodeNumber |-> None]
  /\ issued = {}
  /\ count = 0

OrZero(n) == IF n = None THEN 0 ELSE n

\* Mutant: the sequence restarts with the page.
EnsuredFromZero(t) ==
  IF counter[t] # None THEN {counter[t]}
  ELSE {[node |-> n, next |-> 0] : n \in IF nodeKey = None THEN NodeNumber ELSE {nodeKey}}

\* What ensure() may return; the node number is drawn at random the first time.
Ensured(t) ==
  IF counter[t] # None THEN {counter[t]}
  ELSE {[node |-> n, next |-> OrZero(seqKey)] : n \in IF nodeKey = None THEN NodeNumber ELSE {nodeKey}}

\* The NODE_KEY that ensure() leaves behind.
NodeKept(t, c) == IF counter[t] = None THEN c.node ELSE nodeKey

\* localNode
Load(t) ==
  /\ \E c \in Ensured(t) :
       /\ counter' = [counter EXCEPT ![t] = c]
       /\ nodeKey' = NodeKept(t, c)
  /\ UNCHANGED <<seqKey, seqKeyOf, issued, count>>

AdoptRadioNode(t, r) ==
  /\ \E c \in Ensured(t) :
       IF c.node = r
       THEN /\ counter' = [counter EXCEPT ![t] = c]
            /\ nodeKey' = NodeKept(t, c)
       ELSE /\ counter' = [counter EXCEPT ![t] = [node |-> r, next |-> OrZero(seqKeyOf[r])]]
            /\ nodeKey' = r
  /\ UNCHANGED <<seqKey, seqKeyOf, issued, count>>

IssueOrderId(t) ==
  /\ count < MaxIssued
  /\ \E c \in Ensured(t) :
       LET next == (c.next + 1) % Wrap IN
       /\ counter' = [counter EXCEPT ![t] = [node |-> c.node, next |-> next]]
       /\ nodeKey' = NodeKept(t, c)
       /\ seqKey' = next
       /\ seqKeyOf' = [seqKeyOf EXCEPT ![c.node] = next]
       /\ issued' = issued \cup {<<c.node, c.next>>}
  /\ count' = count + 1

\* The page is loaded again: its memory is lost, the storage is not.
Reload(t) ==
  /\ counter' = [counter EXCEPT ![t] = None]
  /\ UNCHANGED <<nodeKey, seqKey, seqKeyOf, issued, count>>

NextIds ==
  \E t \in Tab :
    \/ Load(t)
    \/ \E r \in Radio : AdoptRadioNode(t, r)
    \/ IssueOrderId(t)
    \/ Reload(t)

SpecIds == InitIds /\ [][NextIds]_idVars

-----------------------------------------------------------------------------
(* The identifier issued next is never one issued before, whatever was     *)
(* reloaded or adopted meanwhile: otherwise a removal would take away an   *)
(* order it does not mean (comment of ensure in orderIds.ts).              *)
NextIsFresh ==
  \A t \in Tab : \A c \in Ensured(t) : <<c.node, c.next>> \notin issued

=============================================================================
