-------------------------- MODULE FdbForwardProofs --------------------------
(***************************************************************************)
(* Proofs about FdbForward, for any number of ports, hosts and nodes, and  *)
(* any ages: a packet never goes back where it came from, and a release    *)
(* that no packet of its port overlaps leaves no entry behind.             *)
(***************************************************************************)
EXTENDS FdbForward, TLAPS

Labels == {"idle", "src", "mine", "time", "stale", "move", "add", "dst",
           "check", "send", "flood", "end"}
AtNode == {"mine", "time", "stale", "move", "check", "send"}

Domains ==
  /\ table \in [Macs -> Nodes \cup {None}]
  /\ pio \in [Nodes -> Ports \cup {None}] /\ age \in [Nodes -> 0..Cap]
  /\ member \subseteq Ports /\ home \in [Macs -> Ports] /\ moves \in Nat
  /\ pc \in [Ports -> Labels]
  /\ src \in [Ports -> Macs \cup {None}] /\ lag \in [Ports -> Nat]
  /\ node \in [Ports -> Nodes \cup {None}] /\ to \in [Ports -> SUBSET Ports]
  /\ rel \in [Ports -> {"no", "scan", "del", "out"}] /\ todo \in [Ports -> SUBSET Macs]
  /\ mac \in [Ports -> Macs \cup {None}] /\ late \subseteq Ports /\ sweep \subseteq Macs

EntryInv == \A m \in Macs : table[m] # None => pio[table[m]] # None

NodeInv == \A p \in Ports :
  /\ pc[p] \in AtNode => node[p] # None /\ pio[node[p]] # None
  /\ pc[p] \in {"src", "add"} => src[p] # None
  /\ lag[p] <= MaxLag

(* Only the reader of a port makes a node point to that port. *)
EchoInv == \A p \in Ports :
  /\ pc[p] = "send" => pio[node[p]] # p
  /\ p \notin to[p]

(* What is still in the table for a port that is being released has yet to *)
(* be visited or is about to be deleted, if its reader is not in Forward.  *)
LeaveInv == \A p \in Ports :
  /\ rel[p] = "out" => todo[p] = {}
  /\ p \notin late /\ rel[p] # "no" =>
       /\ pc[p] = "idle"
       /\ \A m \in Macs : table[m] # None /\ pio[table[m]] = p =>
            m \in todo[p] \/ (rel[p] = "del" /\ mac[p] = m)

IInv == Domains /\ EntryInv /\ NodeInv /\ EchoInv /\ LeaveInv
-----------------------------------------------------------------------------
LEMMA ConstantFacts ==
  /\ OldAge \in Nat /\ MaxLag \in Nat /\ MaxLag <= OldAge /\ Cap \in Nat /\ Cap = OldAge + 1
  /\ Ports # {} /\ None \notin Ports /\ None \notin Macs /\ None \notin Nodes
BY ForwardAssumption DEF ForwardAssumption, Cap

LEMMA InitInv == Init => IInv
<1> SUFFICES ASSUME Init PROVE IInv
  OBVIOUS
<1> USE ConstantFacts
<1>1. (CHOOSE p \in Ports : TRUE) \in Ports
  <2>1. \E p \in Ports : TRUE
    OBVIOUS
  <2> QED
    BY <2>1, Zenon
<1>2. Domains
  BY <1>1 DEF Init, Domains, Labels
<1>3. EntryInv /\ NodeInv
  BY DEF Init, EntryInv, NodeInv, AtNode
<1>4. EchoInv /\ LeaveInv
  BY DEF Init, EchoInv, LeaveInv
<1> QED
  BY <1>2, <1>3, <1>4 DEF IInv
-----------------------------------------------------------------------------
(* The reader of a port. *)
(* The reader of a port. *)
LEMMA ReceiveInv ==
  ASSUME IInv, NEW p \in Ports, NEW m \in Macs, Receive(p, m) PROVE IInv'
<1> USE ConstantFacts
<1>1. Domains'
  BY SMTT(30) DEF IInv, Domains, Labels, Receive, HasJoined, Goto, Set, nodes, hosts, release
<1>2. EntryInv'
  BY SMTT(30) DEF IInv, Domains, EntryInv, Receive, HasJoined, Goto, Set, nodes
<1>3. NodeInv'
  BY SMTT(30) DEF IInv, Domains, EntryInv, NodeInv, AtNode, Receive, HasJoined, At, Goto,
     Set, nodes
<1>4. EchoInv'
  BY SMTT(30) DEF IInv, Domains, NodeInv, AtNode, EchoInv, Receive, HasJoined, At, Goto,
     Set, nodes
<1>5. LeaveInv'
  BY SMTT(30) DEF IInv, Domains, LeaveInv, Receive, HasJoined, At, Goto, Set, nodes, release
<1> QED
  BY <1>1, <1>2, <1>3, <1>4, <1>5 DEF IInv

LEMMA GetSrcInv ==
  ASSUME IInv, NEW p \in Ports, GetSrc(p) PROVE IInv'
<1> USE ConstantFacts
<1>1. Domains'
  <2>1. src[p] \in Macs /\ table[src[p]] \in Nodes \cup {None}
    BY DEF IInv, Domains, NodeInv, GetSrc, At
  <2> QED
    BY <2>1, SMTT(30) DEF IInv, Domains, Labels, GetSrc, Goto, Set, nodes, packet, hosts, release
<1>2. EntryInv'
  BY SMTT(30) DEF IInv, Domains, EntryInv, GetSrc, Found, Goto, Set, nodes
<1>3. NodeInv'
  BY SMTT(30) DEF IInv, Domains, EntryInv, NodeInv, AtNode, GetSrc, Found, At, Goto, Set, nodes
<1>4. EchoInv'
  BY SMTT(30) DEF IInv, Domains, NodeInv, AtNode, EchoInv, GetSrc, Found, At, Goto, Set, nodes
<1>5. LeaveInv'
  BY SMTT(30) DEF IInv, Domains, LeaveInv, GetSrc, Found, At, Goto, Set, nodes, release
<1> QED
  BY <1>1, <1>2, <1>3, <1>4, <1>5 DEF IInv

LEMMA IsMineInv ==
  ASSUME IInv, NEW p \in Ports, IsMine(p) PROVE IInv'
<1> USE ConstantFacts
<1>1. Domains'
  BY SMTT(30) DEF IInv, Domains, Labels, IsMine, Goto, nodes, packet, hosts, release
<1>2. EntryInv'
  BY SMTT(30) DEF IInv, Domains, EntryInv, IsMine, Goto, nodes
<1>3. NodeInv'
  BY SMTT(30) DEF IInv, Domains, EntryInv, NodeInv, AtNode, IsMine, At, Goto, nodes, packet
<1>4. EchoInv'
  BY SMTT(30) DEF IInv, Domains, NodeInv, AtNode, EchoInv, IsMine, At, Goto, nodes, packet
<1>5. LeaveInv'
  BY SMTT(30) DEF IInv, Domains, LeaveInv, IsMine, At, Goto, nodes, release
<1> QED
  BY <1>1, <1>2, <1>3, <1>4, <1>5 DEF IInv

LEMMA DecideInv ==
  ASSUME IInv, NEW p \in Ports, Decide(p) PROVE IInv'
<1> USE ConstantFacts
<1>1. Domains'
  BY SMTT(30) DEF IInv, Domains, Labels, Decide, Goto, Set, nodes, hosts, release
<1>2. EntryInv'
  BY SMTT(30) DEF IInv, Domains, EntryInv, Decide, Goto, Set, nodes
<1>3. NodeInv'
  BY SMTT(30) DEF IInv, Domains, EntryInv, NodeInv, AtNode, Decide, At, Goto, Set, nodes
<1>4. EchoInv'
  BY SMTT(30) DEF IInv, Domains, NodeInv, AtNode, EchoInv, Decide, At, Goto, Set, nodes
<1>5. LeaveInv'
  BY SMTT(30) DEF IInv, Domains, LeaveInv, Decide, At, Goto, Set, nodes, release
<1> QED
  BY <1>1, <1>2, <1>3, <1>4, <1>5 DEF IInv

LEMMA UpdatePioInv ==
  ASSUME IInv, NEW p \in Ports, UpdatePio(p) PROVE IInv'
<1> USE ConstantFacts
<1>1. Domains'
  <2>1. node[p] \in Nodes /\ p \in Ports \cup {None}
    BY DEF IInv, Domains, NodeInv, AtNode, UpdatePio, At
  <2> QED
    BY <2>1, SMTT(30) DEF IInv, Domains, Labels, UpdatePio, Goto, Set, nodes, packet, hosts, release
<1>2. EntryInv'
  BY SMTT(30) DEF IInv, Domains, EntryInv, UpdatePio, Goto, Set
<1>3. NodeInv'
  BY SMTT(30) DEF IInv, Domains, EntryInv, NodeInv, AtNode, UpdatePio, At, Goto, Set, packet
<1>4. EchoInv'
  BY SMTT(30) DEF IInv, Domains, NodeInv, AtNode, EchoInv, UpdatePio, At, Goto, Set, packet
<1>5. LeaveInv'
  BY SMTT(30) DEF IInv, Domains, LeaveInv, UpdatePio, At, Goto, Set, release
<1> QED
  BY <1>1, <1>2, <1>3, <1>4, <1>5 DEF IInv

LEMMA UpdateTimeInv ==
  ASSUME IInv, NEW p \in Ports, UpdateTime(p) PROVE IInv'
<1> USE ConstantFacts
<1>1. Domains'
  <2>1. node[p] \in Nodes /\ lag[p] \in 0..Cap
    BY DEF IInv, Domains, NodeInv, AtNode, UpdateTime, At
  <2> QED
    BY <2>1, SMTT(30) DEF IInv, Domains, Labels, UpdateTime, Goto, Set, nodes, packet, hosts, release
<1>2. EntryInv'
  BY SMTT(30) DEF IInv, Domains, EntryInv, UpdateTime, Goto, Set
<1>3. NodeInv'
  BY SMTT(30) DEF IInv, Domains, EntryInv, NodeInv, AtNode, UpdateTime, At, Goto, Set
<1>4. EchoInv'
  BY SMTT(30) DEF IInv, Domains, NodeInv, AtNode, EchoInv, UpdateTime, At, Goto, Set
<1>5. LeaveInv'
  BY SMTT(30) DEF IInv, Domains, LeaveInv, UpdateTime, At, Goto, Set, release
<1> QED
  BY <1>1, <1>2, <1>3, <1>4, <1>5 DEF IInv

LEMMA GetDstInv ==
  ASSUME IInv, NEW p \in Ports, GetDst(p) PROVE IInv'
<1> USE ConstantFacts
<1>1. Domains'
  BY SMTT(30) DEF IInv, Domains, Labels, GetDst, Known, Broadcast, Goto, Set, nodes, hosts,
     release
<1>2. EntryInv'
  BY SMTT(30) DEF IInv, Domains, EntryInv, GetDst, Known, Broadcast, Goto, Set, nodes
<1>3. NodeInv'
  BY SMTT(30) DEF IInv, Domains, EntryInv, NodeInv, AtNode, GetDst, Known, Broadcast, At,
     Goto, Set, nodes
<1>4. EchoInv'
  BY SMTT(30) DEF IInv, Domains, NodeInv, AtNode, EchoInv, GetDst, Known, Broadcast, At,
     Goto, Set, nodes
<1>5. LeaveInv'
  BY SMTT(30) DEF IInv, Domains, LeaveInv, GetDst, Known, Broadcast, At, Goto, Set, nodes,
     release
<1> QED
  BY <1>1, <1>2, <1>3, <1>4, <1>5 DEF IInv

LEMMA CheckDstInv ==
  ASSUME IInv, NEW p \in Ports, CheckDst(p) PROVE IInv'
<1> USE ConstantFacts
<1>1. Domains'
  BY SMTT(30) DEF IInv, Domains, Labels, CheckDst, Elsewhere, Goto, Set, nodes, hosts, release
<1>2. EntryInv'
  BY SMTT(30) DEF IInv, Domains, EntryInv, CheckDst, Elsewhere, Goto, Set, nodes
<1>3. NodeInv'
  BY SMTT(30) DEF IInv, Domains, EntryInv, NodeInv, AtNode, CheckDst, Elsewhere, At, Goto,
     Set, nodes
<1>4. EchoInv'
  BY SMTT(30) DEF IInv, Domains, NodeInv, AtNode, EchoInv, CheckDst, Elsewhere, At, Goto,
     Set, nodes
<1>5. LeaveInv'
  BY SMTT(30) DEF IInv, Domains, LeaveInv, CheckDst, Elsewhere, At, Goto, Set, nodes, release
<1> QED
  BY <1>1, <1>2, <1>3, <1>4, <1>5 DEF IInv

LEMMA SendInv ==
  ASSUME IInv, NEW p \in Ports, Send(p) PROVE IInv'
<1> USE ConstantFacts
<1>1. Domains'
  <2>1. {pio[node[p]]} \in SUBSET Ports
    BY DEF IInv, Domains, NodeInv, AtNode, Send, At
  <2> QED
    BY <2>1, SMTT(30) DEF IInv, Domains, Labels, Send, Give, Goto, Set, nodes, packet, hosts, release
<1>2. EntryInv'
  BY SMTT(30) DEF IInv, Domains, EntryInv, Send, Give, Goto, Set, nodes
<1>3. NodeInv'
  BY SMTT(30) DEF IInv, Domains, EntryInv, NodeInv, AtNode, Send, Give, At, Goto, Set, nodes
<1>4. EchoInv'
  BY SMTT(30) DEF IInv, Domains, NodeInv, AtNode, EchoInv, Send, Give, At, Goto, Set, nodes
<1>5. LeaveInv'
  BY SMTT(30) DEF IInv, Domains, LeaveInv, Send, Give, At, Goto, Set, nodes, release
<1> QED
  BY <1>1, <1>2, <1>3, <1>4, <1>5 DEF IInv

LEMMA FloodInv ==
  ASSUME IInv, NEW p \in Ports, Flood(p) PROVE IInv'
<1> USE ConstantFacts
<1>1. Domains'
  BY SMTT(30) DEF IInv, Domains, Labels, Flood, Give, Goto, Set, nodes, hosts, release
<1>2. EntryInv'
  BY SMTT(30) DEF IInv, Domains, EntryInv, Flood, Give, Goto, Set, nodes
<1>3. NodeInv'
  BY SMTT(30) DEF IInv, Domains, EntryInv, NodeInv, AtNode, Flood, Give, At, Goto, Set, nodes
<1>4. EchoInv'
  BY SMTT(30) DEF IInv, Domains, NodeInv, AtNode, EchoInv, Flood, Give, At, Goto, Set, nodes
<1>5. LeaveInv'
  BY SMTT(30) DEF IInv, Domains, LeaveInv, Flood, Give, At, Goto, Set, nodes, release
<1> QED
  BY <1>1, <1>2, <1>3, <1>4, <1>5 DEF IInv

LEMMA ReturnInv ==
  ASSUME IInv, NEW p \in Ports, Return(p) PROVE IInv'
<1> USE ConstantFacts
<1>1. Domains'
  BY SMTT(30) DEF IInv, Domains, Labels, Return, Goto, Set, nodes, hosts, release
<1>2. EntryInv'
  BY SMTT(30) DEF IInv, Domains, EntryInv, Return, Goto, Set, nodes
<1>3. NodeInv'
  BY SMTT(30) DEF IInv, Domains, EntryInv, NodeInv, AtNode, Return, At, Goto, Set, nodes
<1>4. EchoInv'
  BY SMTT(30) DEF IInv, Domains, NodeInv, AtNode, EchoInv, Return, At, Goto, Set, nodes
<1>5. LeaveInv'
  BY SMTT(30) DEF IInv, Domains, LeaveInv, Return, At, Goto, Set, nodes, release
<1> QED
  BY <1>1, <1>2, <1>3, <1>4, <1>5 DEF IInv

(* The release of a port. *)
LEMMA ReleaseInv ==
  ASSUME IInv, NEW p \in Ports, Release(p) PROVE IInv'
<1> USE ConstantFacts
<1>1. Domains'
  BY SMTT(30) DEF IInv, Domains, Release, Known, Set, nodes, packet, hosts
<1>2. EntryInv'
  BY SMTT(30) DEF IInv, Domains, EntryInv, Release, Known, Set, nodes
<1>3. NodeInv'
  BY SMTT(30) DEF IInv, Domains, EntryInv, NodeInv, AtNode, Release, Known, At, Set, nodes,
     packet
<1>4. EchoInv'
  BY SMTT(30) DEF IInv, Domains, NodeInv, AtNode, EchoInv, Release, Known, At, Set, nodes,
     packet
<1>5. LeaveInv'
  BY SMTT(30) DEF IInv, Domains, LeaveInv, Release, Known, At, Set, nodes
<1> QED
  BY <1>1, <1>2, <1>3, <1>4, <1>5 DEF IInv

LEMMA VisitInv ==
  ASSUME IInv, NEW p \in Ports, Visit(p) PROVE IInv'
<1> USE ConstantFacts
<1>1. Domains'
  BY SMTT(30) DEF IInv, Domains, Visit, Known, Set, nodes, packet, hosts
<1>2. EntryInv'
  BY SMTT(30) DEF IInv, Domains, EntryInv, Visit, Known, Set, nodes
<1>3. NodeInv'
  BY SMTT(30) DEF IInv, Domains, EntryInv, NodeInv, AtNode, Visit, Known, Set, nodes, packet
<1>4. EchoInv'
  BY SMTT(30) DEF IInv, Domains, NodeInv, AtNode, EchoInv, Visit, Known, Set, nodes, packet
<1>5. LeaveInv'
  BY SMTT(30) DEF IInv, Domains, LeaveInv, Visit, Known, Set, nodes
<1> QED
  BY <1>1, <1>2, <1>3, <1>4, <1>5 DEF IInv

LEMMA DelInv ==
  ASSUME IInv, NEW p \in Ports, Del(p) PROVE IInv'
<1> USE ConstantFacts
<1>1. Domains'
  <2>1. todo' \in [Ports -> SUBSET Macs]
    <3>1. todo' = [q \in Ports |-> todo[q] \ {mac[p]}]
      BY Zenon DEF Del, Without
    <3>2. \A q \in Ports : todo[q] \ {mac[p]} \in SUBSET Macs
      BY DEF IInv, Domains
    <3> QED
      BY <3>1, <3>2
  <2>2. table' \in [Macs -> Nodes \cup {None}]
    <3>1. table' = [table EXCEPT ![mac[p]] = None] /\ None \in Nodes \cup {None}
      BY DEF Del, Set
    <3> QED
      BY <3>1 DEF IInv, Domains
  <2>3. rel' \in [Ports -> {"no", "scan", "del", "out"}] /\ mac' \in [Ports -> Macs \cup {None}]
    BY SMTT(30) DEF IInv, Domains, Del, Set
  <2>4. UNCHANGED <<pio, age, src, node, to, lag, member, home, moves, pc, late, sweep>>
    BY Zenon DEF Del, nodes, packet, hosts
  <2> QED
    BY <2>1, <2>2, <2>3, <2>4 DEF IInv, Domains
<1>2. EntryInv'
  BY SMTT(30) DEF IInv, Domains, EntryInv, Del, Without, Set, nodes
<1>3. NodeInv'
  BY SMTT(30) DEF IInv, Domains, EntryInv, NodeInv, AtNode, Del, Without, Set, nodes, packet
<1>4. EchoInv'
  BY SMTT(30) DEF IInv, Domains, NodeInv, AtNode, EchoInv, Del, Without, Set, nodes, packet
<1>5. LeaveInv'
  BY SMTT(30) DEF IInv, Domains, LeaveInv, Del, Without, Set, nodes
<1> QED
  BY <1>1, <1>2, <1>3, <1>4, <1>5 DEF IInv

LEMMA DelPortMapInv ==
  ASSUME IInv, NEW p \in Ports, DelPortMap(p) PROVE IInv'
<1> USE ConstantFacts
<1>1. Domains'
  BY SMTT(30) DEF IInv, Domains, DelPortMap, Set, nodes, packet, hosts
<1>2. EntryInv'
  BY SMTT(30) DEF IInv, Domains, EntryInv, DelPortMap, Set, nodes
<1>3. NodeInv'
  BY SMTT(30) DEF IInv, Domains, EntryInv, NodeInv, AtNode, DelPortMap, Set, nodes, packet
<1>4. EchoInv'
  BY SMTT(30) DEF IInv, Domains, NodeInv, AtNode, EchoInv, DelPortMap, Set, nodes, packet
<1>5. LeaveInv'
  BY SMTT(30) DEF IInv, Domains, LeaveInv, DelPortMap, Set, nodes
<1> QED
  BY <1>1, <1>2, <1>3, <1>4, <1>5 DEF IInv

(* fdbtick, and the hosts. *)
LEMMA SweepOneInv ==
  ASSUME IInv, SweepOne PROVE IInv'
<1> USE ConstantFacts
<1>1. Domains'
  BY SMTT(30) DEF IInv, Domains, SweepOne, Known, Without, Set, nodes, packet, hosts
<1>2. EntryInv'
  BY SMTT(30) DEF IInv, Domains, EntryInv, SweepOne, Known, Without, Set, nodes
<1>3. NodeInv'
  BY SMTT(30) DEF IInv, Domains, EntryInv, NodeInv, AtNode, SweepOne, Known, Without, Set,
     nodes, packet
<1>4. EchoInv'
  BY SMTT(30) DEF IInv, Domains, NodeInv, AtNode, EchoInv, SweepOne, Known, Without, Set,
     nodes, packet
<1>5. LeaveInv'
  BY SMTT(30) DEF IInv, Domains, LeaveInv, SweepOne, Known, Without, Set, nodes
<1> QED
  BY <1>1, <1>2, <1>3, <1>4, <1>5 DEF IInv

LEMMA MoveInv ==
  ASSUME IInv, NEW m \in Macs, Move(m) PROVE IInv'
<1> USE ConstantFacts
<1>1. Domains'
  BY SMTT(30) DEF IInv, Domains, Move, Set, nodes, packet, release
<1>2. EntryInv'
  BY SMTT(30) DEF IInv, Domains, EntryInv, Move, Set, nodes
<1>3. NodeInv'
  BY SMTT(30) DEF IInv, Domains, EntryInv, NodeInv, AtNode, Move, Set, nodes, packet
<1>4. EchoInv'
  BY SMTT(30) DEF IInv, Domains, NodeInv, AtNode, EchoInv, Move, Set, nodes, packet
<1>5. LeaveInv'
  BY SMTT(30) DEF IInv, Domains, LeaveInv, Move, Set, nodes, release
<1> QED
  BY <1>1, <1>2, <1>3, <1>4, <1>5 DEF IInv

LEMMA TickInv ==
  ASSUME IInv, Tick PROVE IInv'
<1> USE ConstantFacts
<1>1. Domains'
  BY SMTT(30) DEF IInv, Domains, Tick, Known, hosts, release
<1>2. EntryInv'
  BY SMTT(30) DEF IInv, Domains, EntryInv, Tick, Known
<1>3. NodeInv'
  BY SMTT(30) DEF IInv, Domains, EntryInv, NodeInv, AtNode, Tick, Known
<1>4. EchoInv'
  BY SMTT(30) DEF IInv, Domains, NodeInv, AtNode, EchoInv, Tick, Known
<1>5. LeaveInv'
  BY SMTT(30) DEF IInv, Domains, LeaveInv, Tick, Known, release
<1> QED
  BY <1>1, <1>2, <1>3, <1>4, <1>5 DEF IInv

(* A new node is one that nothing refers to. *)
LEMMA AddInv == ASSUME IInv, NEW p \in Ports, Add(p) PROVE IInv'
<1> USE ConstantFacts
<1> DEFINE n == CHOOSE n \in Nodes : Unused(n)
<1>1. n \in Nodes /\ Unused(n)
  <2>1. \E free \in Nodes : Unused(free)
    BY DEF Add
  <2> QED
    BY <2>1, Zenon
<1>2. /\ pc[p] = "add" /\ pc' = [pc EXCEPT ![p] = "dst"]
      /\ table' = [table EXCEPT ![src[p]] = n]
      /\ pio' = [pio EXCEPT ![n] = p] /\ age' = [age EXCEPT ![n] = 0]
      /\ src' = [src EXCEPT ![p] = None]
      /\ UNCHANGED <<node, to, lag, member, home, moves, rel, todo, mac, late, sweep>>
  BY Zenon DEF Add, At, Goto, Set, hosts, release
<1> HIDE DEF n
<1>3. Domains'
  <2>1. src[p] \in Macs /\ n \in Nodes \cup {None} /\ p \in Ports \cup {None} /\ 0 \in 0..Cap
    BY <1>1, <1>2 DEF IInv, Domains, NodeInv
  <2>2. table' \in [Macs -> Nodes \cup {None}] /\ pio' \in [Nodes -> Ports \cup {None}]
    BY <1>1, <1>2, <2>1 DEF IInv, Domains
  <2>3. age' \in [Nodes -> 0..Cap] /\ pc' \in [Ports -> Labels] /\ src' \in [Ports -> Macs \cup {None}]
    BY <1>1, <1>2, <2>1 DEF IInv, Domains, Labels
  <2> QED
    BY <1>2, <2>2, <2>3 DEF IInv, Domains
<1>4. EntryInv'
  BY <1>1, <1>2, SMTT(30) DEF IInv, Domains, EntryInv
<1>5. NodeInv'
  BY <1>1, <1>2, SMTT(30) DEF IInv, Domains, NodeInv, AtNode
<1>6. EchoInv'
  BY <1>1, <1>2, SMTT(30) DEF IInv, Domains, EchoInv
<1>7. LeaveInv'
  BY <1>1, <1>2, SMTT(30) DEF IInv, Domains, LeaveInv
<1> QED
  BY <1>3, <1>4, <1>5, <1>6, <1>7 DEF IInv

LEMMA StepInv == IInv /\ [Next]_vars => IInv'
<1> SUFFICES ASSUME IInv, [Next]_vars PROVE IInv'
  OBVIOUS
<1>1. ASSUME NEW p \in Ports, Reads(p) \/ Forward(p) PROVE IInv'
  BY <1>1, ReceiveInv, GetSrcInv, IsMineInv, DecideInv, UpdatePioInv, UpdateTimeInv, AddInv,
     GetDstInv, CheckDstInv, SendInv, FloodInv, ReturnInv DEF Reads, Forward
<1>2. ASSUME NEW p \in Ports, ReleaseStep(p) PROVE IInv'
  BY <1>2, ReleaseInv, VisitInv, DelInv, DelPortMapInv DEF ReleaseStep
<1>3. CASE UNCHANGED vars
  BY <1>3 DEF vars, nodes, packet, hosts, release, IInv, Domains, EntryInv, NodeInv, EchoInv, LeaveInv
<1> QED
  BY <1>1, <1>2, <1>3, TickInv, SweepOneInv, MoveInv DEF Next

LEMMA InvIsInvariant == Spec => []IInv
BY InitInv, StepInv, PTL DEF Spec
-----------------------------------------------------------------------------
(* fdb.go:22: every entry of the table has a node, and every node that is  *)
(* worked on has a port.                                                   *)
THEOREM TypeCorrect == Spec => []TypeOK
<1>1. IInv => TypeOK
  BY DEF IInv, Domains, Labels, EntryInv, NodeInv, AtNode, TypeOK, Known
<1> QED
  BY <1>1, InvIsInvariant, PTL

(* forward.go:62: no packet goes back out of the port it came in by,       *)
(* though the port of its node is read twice.                              *)
THEOREM NoEcho == Spec => []NeverEchoes
<1>1. IInv => NeverEchoes
  BY DEF IInv, EchoInv, NeverEchoes
<1> QED
  BY <1>1, InvIsInvariant, PTL

(* fdb.go:136: a release that no packet of its port overlaps leaves no     *)
(* entry that leads to the port.                                           *)
THEOREM ReleaseIsClean == Spec => []CleanRelease
<1>1. IInv => CleanRelease
  BY DEF IInv, LeaveInv, CleanRelease, Known
<1> QED
  BY <1>1, InvIsInvariant, PTL
=============================================================================
