----------------------------- MODULE FdbForward -----------------------------
(***************************************************************************)
(* The MAC table of one FDB (fdb/fdb.go) and Forward (fdb/forward.go): the *)
(* readers of the clients, the goroutine fdbtick and the release of a port *)
(* work on it at the same time.  A table entry is a pointer to a node, and *)
(* the fields of a node are read and written without a lock: also when the *)
(* entry is no longer in the table.                                        *)
(*                                                                         *)
(* FdbTick is only compared with the ft of a node, so a node has an age    *)
(* instead, and a goroutine that has read FdbTick a lag: how many ticks    *)
(* ago it read.  A difference below zero is a huge one in uint64.          *)
(*                                                                         *)
(* Hosts are behind ports and may move, and the network behind the ports   *)
(* may have loops.                                                         *)
(***************************************************************************)
EXTENDS Integers, FiniteSets

CONSTANTS Ports,     \* the clients (portIO) that join the FDB
          Leavers,   \* those that may be released
          Macs,      \* the hosts
          Nodes,     \* FdbMacNode objects
          StaleAge,  \* maybeExpire: 3 ticks
          OldAge,    \* ExpireTime: 300 ticks
          Room,      \* fdbtick sweeps tables with more entries: 128
          MaxLag,    \* bound: ticks between two reads of one reader
          MaxMoves,  \* bound: how often hosts move
          Loops,     \* whether packets of a host come in by other ports, too
          None       \* nil

ASSUME ForwardAssumption ==
  /\ StaleAge \in Nat /\ OldAge \in Nat /\ StaleAge <= OldAge /\ Ports # {}
  /\ Leavers \subseteq Ports /\ Room \in Nat /\ MaxLag \in 0..OldAge /\ MaxMoves \in Nat
  /\ Loops \in BOOLEAN
  /\ None \notin Ports \cup Macs \cup Nodes

Cap == OldAge + 1          \* bound: ages beyond it are not told apart
Broadcast == None          \* a broadcast or unknown destination

VARIABLES
  table,    \* mactable: MAC -> node
  pio,      \* the port of a node
  age,      \* FdbTick - ft of a node
  lag,      \* ticks since a reader has read FdbTick
  member,   \* ports in the port map
  home,     \* the port a host is behind
  moves,    \* how often hosts have moved
  pc,       \* where the reader of a port is
  src,      \* the MAC its packet comes from
  node,     \* the node it works on
  to,       \* the ports it has given its packet to
  rel,      \* where the release of a port is
  todo,     \* the MACs its loop over the table must still come to
  mac,      \* the MAC it is about to delete
  late,     \* ports whose reader was inside Forward when their release began
  sweep     \* the MACs the loop of fdbtick still has to look at

nodes == <<pio, age>>
packet == <<src, node, to, lag>>
release == <<rel, todo, mac, late>>
hosts == <<home, moves>>
vars == <<table, nodes, packet, member, hosts, pc, release, sweep>>

At(p, l) == pc[p] = l
Goto(p, l) == pc' = [pc EXCEPT ![p] = l]
Set(f, x, y) == [f EXCEPT ![x] = y]
Known == {m \in Macs : table[m] # None}

Init ==
  /\ table = [m \in Macs |-> None]
  /\ pio = [n \in Nodes |-> None] /\ age = [n \in Nodes |-> 0]
  /\ member = Ports /\ home = [m \in Macs |-> CHOOSE p \in Ports : TRUE] /\ moves = 0
  /\ pc = [p \in Ports |-> "idle"] /\ lag = [p \in Ports |-> 0]
  /\ src = [p \in Ports |-> None] /\ node = src
  /\ to = [p \in Ports |-> {}]
  /\ rel = [p \in Ports |-> "no"] /\ todo = [p \in Ports |-> {}] /\ mac = src
  /\ late = {} /\ sweep = {}
-----------------------------------------------------------------------------
(* Forward, first half: who is behind the port?  The packet is IP or ARP   *)
(* (others are refused), and the client has joined the FDB: its fdbJoined  *)
(* is locked while the port is released, and nil afterwards.  What a       *)
(* packet is else is chosen where Forward looks at it.                     *)
UntilOut(p) == rel[p] # "out"   \* mutant: the lookup is not locked against the release
HasJoined(p) == rel[p] = "no"

Receive(p, m) ==
  /\ At(p, "idle") /\ HasJoined(p) /\ (home[m] = p \/ Loops)
  /\ Goto(p, "src") /\ src' = Set(src, p, m)
  /\ UNCHANGED <<table, nodes, node, to, lag, member, hosts, release, sweep>>

Found(m) == table[m] # None

GetSrc(p) ==
  /\ At(p, "src")
  /\ node' = Set(node, p, table[src[p]])
  /\ IF Found(src[p])
     THEN Goto(p, "mine") /\ src' = Set(src, p, None)
     ELSE Goto(p, "add") /\ UNCHANGED src
  /\ UNCHANGED <<table, nodes, to, lag, member, hosts, release, sweep>>

(* fmn.pio == pio: updateTime, else maybeExpire; both first read FdbTick. *)
IsMine(p) ==
  /\ At(p, "mine")
  /\ Goto(p, IF pio[node[p]] = p THEN "time" ELSE "stale")
  /\ UNCHANGED <<table, nodes, packet, member, hosts, release, sweep>>

NeverStale(p) == FALSE   \* mutant: a host stays where it was learned
MaybeExpire(p) == age[node[p]] - lag[p] > StaleAge \/ age[node[p]] < lag[p]

(* An ARP reply moves the node at once. *)
Decide(p) ==
  \E reply \in BOOLEAN :
    /\ At(p, "stale")
    /\ IF MaybeExpire(p) \/ reply
       THEN Goto(p, "move") /\ UNCHANGED node
       ELSE Goto(p, "idle") /\ node' = Set(node, p, None)
    /\ lag' = Set(lag, p, 0)
    /\ UNCHANGED <<table, nodes, src, to, member, hosts, release, sweep>>

UpdatePio(p) ==
  /\ At(p, "move") /\ Goto(p, "time")
  /\ pio' = Set(pio, node[p], p)
  /\ UNCHANGED <<table, age, packet, member, hosts, release, sweep>>

UpdateTime(p) ==
  /\ At(p, "time") /\ Goto(p, "dst")
  /\ age' = Set(age, node[p], lag[p])
  /\ lag' = Set(lag, p, 0) /\ node' = Set(node, p, None)
  /\ UNCHANGED <<table, pio, src, to, member, hosts, release, sweep>>

(* A new node is one that nothing refers to. *)
Unused(n) == (\A m \in Macs : table[m] # n) /\ \A p \in Ports : node[p] # n

Add(p) ==
  LET n == CHOOSE n \in Nodes : Unused(n) IN
  /\ At(p, "add") /\ Goto(p, "dst")
  /\ \E free \in Nodes : Unused(free)
  /\ table' = Set(table, src[p], n)
  /\ pio' = Set(pio, n, p) /\ age' = Set(age, n, 0)
  /\ src' = Set(src, p, None)
  /\ UNCHANGED <<node, to, lag, member, hosts, release, sweep>>

(* Second half: where to?  The port of the destination is read twice. *)
GetDst(p) ==
  \E d \in Known \cup {Broadcast} :
    /\ At(p, "dst")
    /\ IF d = Broadcast
       THEN Goto(p, "flood") /\ UNCHANGED node
       ELSE Goto(p, "check") /\ node' = Set(node, p, table[d])
    /\ UNCHANGED <<table, nodes, src, to, lag, member, hosts, release, sweep>>

Unchecked(p) == TRUE             \* mutant: sent whatever port it came from
Elsewhere(p) == pio[node[p]] # p

CheckDst(p) ==
  /\ At(p, "check")
  /\ IF Elsewhere(p)
     THEN Goto(p, "send") /\ UNCHANGED node
     ELSE Goto(p, "idle") /\ node' = Set(node, p, None)
  /\ UNCHANGED <<table, nodes, src, to, lag, member, hosts, release, sweep>>

Give(p, S) ==
  /\ Goto(p, "end")
  /\ to' = Set(to, p, S) /\ node' = Set(node, p, None)
  /\ UNCHANGED <<table, nodes, src, lag, member, hosts, release, sweep>>

Send(p) == At(p, "send") /\ Give(p, {pio[node[p]]})

Flood(p) == At(p, "flood") /\ Give(p, member \ {p})

Return(p) ==
  /\ At(p, "end") /\ Goto(p, "idle")
  /\ to' = Set(to, p, {})
  /\ UNCHANGED <<table, nodes, src, node, lag, member, hosts, release, sweep>>
-----------------------------------------------------------------------------
(* ReleaseFwdPort.  DelFmnByPortIO loops over the table without its lock:  *)
(* it comes to each entry that stays there, to one that is added meanwhile *)
(* perhaps.                                                                *)
Release(p) ==
  /\ p \in Leavers /\ rel[p] = "no"
  /\ rel' = Set(rel, p, "scan") /\ todo' = Set(todo, p, Known)
  /\ late' = IF At(p, "idle") THEN late ELSE late \cup {p}
  /\ UNCHANGED <<table, nodes, packet, member, hosts, pc, mac, sweep>>

Visit(p) ==
  \E m \in Known :
    /\ rel[p] = "scan"
    /\ todo' = Set(todo, p, todo[p] \ {m})
    /\ IF pio[table[m]] = p
       THEN rel' = Set(rel, p, "del") /\ mac' = Set(mac, p, m)
       ELSE UNCHANGED <<rel, mac>>
    /\ UNCHANGED <<table, nodes, packet, member, hosts, pc, late, sweep>>

Without(m) == [q \in Ports |-> todo[q] \ {m}]

Del(p) ==
  /\ rel[p] = "del"
  /\ table' = Set(table, mac[p], None) /\ todo' = Without(mac[p])
  /\ rel' = Set(rel, p, "scan") /\ mac' = Set(mac, p, None)
  /\ UNCHANGED <<nodes, packet, member, hosts, pc, late, sweep>>

DelPortMap(p) ==
  /\ rel[p] = "scan" /\ todo[p] = {}
  /\ rel' = Set(rel, p, "out") /\ member' = member \ {p}
  /\ UNCHANGED <<table, nodes, packet, hosts, pc, todo, mac, late, sweep>>
-----------------------------------------------------------------------------
(* fdbtick.  Every 64th tick it looks through a table that has many        *)
(* entries, which of the ticks is left open here.                          *)
Tick ==
  \E sweeps \in BOOLEAN :
    /\ sweep = {}
    /\ \A p \in Ports : pc[p] \in {"stale", "time"} => lag[p] < MaxLag
    /\ age' = [n \in Nodes |-> CASE Unused(n) -> 0 [] age[n] < Cap -> age[n] + 1 [] OTHER -> Cap]
    /\ lag' = [p \in Ports |-> IF pc[p] \in {"stale", "time"} THEN lag[p] + 1 ELSE 0]
    /\ sweep' = IF sweeps /\ Cardinality(Known) > Room THEN Known ELSE {}
    /\ UNCHANGED <<table, pio, src, node, to, member, hosts, pc, release>>

SweepOne ==
  \E m \in sweep :
    /\ sweep' = sweep \ {m}
    /\ IF m \in Known /\ age[table[m]] > OldAge
       THEN table' = Set(table, m, None) /\ todo' = Without(m)
       ELSE UNCHANGED <<table, todo>>
    /\ UNCHANGED <<nodes, packet, member, hosts, pc, rel, mac, late>>

(* A host moves behind another port that is still in the FDB. *)
Move(m) ==
  \E q \in {q \in Ports : rel[q] = "no"} :
    /\ q # home[m] /\ moves < MaxMoves
    /\ home' = Set(home, m, q) /\ moves' = moves + 1
    /\ UNCHANGED <<table, nodes, packet, member, pc, release, sweep>>

Reads(p) == \E m \in Macs : Receive(p, m)

Forward(p) ==
  \/ GetSrc(p) \/ IsMine(p) \/ Decide(p) \/ UpdatePio(p) \/ UpdateTime(p) \/ Add(p)
  \/ GetDst(p) \/ CheckDst(p) \/ Send(p) \/ Flood(p) \/ Return(p)

ReleaseStep(p) == Release(p) \/ Visit(p) \/ Del(p) \/ DelPortMap(p)

Next ==
  \/ \E p \in Ports : Reads(p) \/ Forward(p) \/ ReleaseStep(p)
  \/ \E m \in Macs : Move(m)
  \/ Tick \/ SweepOne

Spec == Init /\ [][Next]_vars

(* The goroutines run, the ticker ticks, and a host goes on sending. *)
Fairness ==
  /\ \A p \in Ports : WF_vars(Forward(p)) /\ WF_vars(Visit(p) \/ Del(p) \/ DelPortMap(p))
  /\ \A p \in Ports, m \in Macs : SF_vars(Receive(p, m))
  /\ WF_vars(Tick) /\ WF_vars(SweepOne)

FairSpec == Spec /\ Fairness
-----------------------------------------------------------------------------
(* Type invariant: an entry has a node, and the node has a port. *)
TypeOK ==
  /\ table \in [Macs -> Nodes \cup {None}]
  /\ pio \in [Nodes -> Ports \cup {None}] /\ age \in [Nodes -> 0..Cap]
  /\ member \subseteq Ports /\ home \in [Macs -> Ports] /\ moves \in Nat
  /\ pc \in [Ports -> {"idle", "src", "mine", "time", "stale", "move", "add", "dst",
                       "check", "send", "flood", "end"}]
  /\ src \in [Ports -> Macs \cup {None}] /\ lag \in [Ports -> Nat]
  /\ node \in [Ports -> Nodes \cup {None}] /\ to \in [Ports -> SUBSET Ports]
  /\ rel \in [Ports -> {"no", "scan", "del", "out"}] /\ todo \in [Ports -> SUBSET Macs]
  /\ mac \in [Ports -> Macs \cup {None}] /\ late \subseteq Ports /\ sweep \subseteq Macs
  /\ \A m \in Known : pio[table[m]] # None
  /\ \A p \in Ports : pc[p] \in {"mine", "time", "stale", "move", "check", "send"} =>
       node[p] # None /\ pio[node[p]] # None

(* forward.go:62: a packet never goes back out of the port it came in by,  *)
(* though the port of the node is read once for the test and again for the *)
(* send, and others may move the node in between.                          *)
NeverEchoes == \A p \in Ports : p \notin to[p]

(* fdb.go:136: if no packet of a port was being forwarded when its release *)
(* began, the release leaves no entry that leads to it, whatever the other *)
(* readers and fdbtick do to the table during the loop.                    *)
CleanRelease ==
  \A p \in Ports \ late : rel[p] = "out" => \A m \in Known : pio[table[m]] # p

(* forward.go:40-50: a host that has moved behind another port and goes on *)
(* sending is found there in the end, though its packets are dropped at    *)
(* first, and stays there.                                                 *)
FoundAgain ==
  \A m \in Macs, q \in Ports :
    <>[](home[m] = q /\ rel[q] = "no") =>
      <>[](m \in Known => pio[table[m]] = q)
=============================================================================
