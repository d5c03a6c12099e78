------------------------------- MODULE FdbPort -------------------------------
(***************************************************************************)
(* The ports of one forwarding database (fdb/port.go): the free list of    *)
(* port numbers threaded through the array portIdPool, the port map, and   *)
(* the counter allocNum that tells TryToDelFdbById whether anyone is left. *)
(*                                                                         *)
(* Clients join (JoinFwdPort) and leave (ReleaseFwdPort) concurrently.     *)
(* Each of the two calls is several critical sections: the pool, the map   *)
(* and the counter have separate locks, and any other client may run       *)
(* between them.  One client's own calls never overlap: vnet/vid.go makes  *)
(* them under the client's lock.                                           *)
(***************************************************************************)
EXTENDS Integers, FiniteSets

CONSTANTS Clients,   \* the clients (portIO) that use this FDB
          Dialed,    \* those this node dialed: isClient, so not counted in allocNum
          MAXPORT,   \* size of portIdPool (128 in the code)
          NoPio      \* no entry in the port map

ASSUME FdbPortAssumption ==
  /\ IsFiniteSet(Clients)
  /\ Dialed \subseteq Clients
  /\ MAXPORT \in Nat \ {0}
  /\ NoPio \notin Clients

Slots == 0 .. MAXPORT - 1      \* the array: slot 0 is the head of the free list
PortIds == 1 .. MAXPORT - 1    \* the numbers given out; 0 means the FDB is full

VARIABLES portIdPool,  \* portIdPool[p]: the free number after p, 0 at the end
          ports,       \* portMap.ports
          allocNum,    \* portPool.allocNum
          held,        \* held[c]: numbers that JoinFwdPort returned to c, not yet released
          pc,          \* where c is inside JoinFwdPort or ReleaseFwdPort
          cur          \* the number that call is about

vars == <<portIdPool, ports, allocNum, held, pc, cur>>

(* joinFdbById: JoinFwdPort(c, !c.isClient).  quitAllFdb and quitFdbByIds: *)
(* ReleaseFwdPort(portId, !c.isClient).                                    *)
Inc(c) == c \notin Dialed

DecForAll(c) == TRUE            \* mutant: whoever leaves is counted out

Dec(c) == c \notin Dialed

(* initPortPool frees 1, 2, ... MAXPORT - 1 in this order. *)
InitPortPool == [p \in Slots |-> IF p = 0 THEN MAXPORT - 1 ELSE p - 1]

Init ==
  /\ portIdPool = InitPortPool
  /\ ports = [p \in PortIds |-> NoPio]
  /\ allocNum = 0
  /\ held = [c \in Clients |-> {}]
  /\ pc = [c \in Clients |-> "idle"]
  /\ cur = [c \in Clients |-> 0]
-----------------------------------------------------------------------------
(* JoinFwdPort *)

AllocKeepsHead(c) == portIdPool' = portIdPool   \* mutant: the head stays on the list

(* The list without its head. *)
PopPort(c) == portIdPool' = [portIdPool EXCEPT ![0] = portIdPool[portIdPool[0]]]

AfterAlloc(c) ==
  IF portIdPool[0] = 0 THEN "idle" ELSE IF Inc(c) THEN "inc" ELSE "add"

PortIdAlloc(c) ==
  /\ pc[c] = "idle"
  /\ PopPort(c)
  /\ cur' = [cur EXCEPT ![c] = portIdPool[0]]
  /\ pc' = [pc EXCEPT ![c] = AfterAlloc(c)]
  /\ UNCHANGED <<ports, allocNum, held>>

IncPortNum(c) ==
  /\ pc[c] = "inc"
  /\ allocNum' = allocNum + 1
  /\ pc' = [pc EXCEPT ![c] = "add"]
  /\ UNCHANGED <<portIdPool, ports, held, cur>>

AddPortMap(c) ==
  /\ pc[c] = "add"
  /\ ports' = [ports EXCEPT ![cur[c]] = c]
  /\ held' = [held EXCEPT ![c] = @ \cup {cur[c]}]
  /\ pc' = [pc EXCEPT ![c] = "idle"]
  /\ UNCHANGED <<portIdPool, allocNum, cur>>
-----------------------------------------------------------------------------
(* ReleaseFwdPort *)

(* getPortMap finds the port; a number that is not in the map is left alone. *)
GetPortMap(c, p) ==
  /\ pc[c] = "idle"
  /\ p \in held[c]
  /\ ports[p] # NoPio
  /\ held' = [held EXCEPT ![c] = @ \ {p}]
  /\ cur' = [cur EXCEPT ![c] = p]
  /\ pc' = [pc EXCEPT ![c] = "del"]
  /\ UNCHANGED <<portIdPool, ports, allocNum>>

ClearPort(c) == ports' = [ports EXCEPT ![cur[c]] = NoPio]

DelPortMap(c) ==
  /\ pc[c] = "del"
  /\ ClearPort(c)
  /\ pc' = [pc EXCEPT ![c] = "free"]
  /\ UNCHANGED <<portIdPool, allocNum, held, cur>>

FreeForgetsTail(c) == portIdPool' = [portIdPool EXCEPT ![0] = cur[c]]   \* mutant: no link

PushPort(c) ==
  portIdPool' = [portIdPool EXCEPT ![cur[c]] = portIdPool[0], ![0] = cur[c]]

PortIdFree(c) ==
  /\ pc[c] = "free"
  /\ PushPort(c)
  /\ pc' = [pc EXCEPT ![c] = IF Dec(c) THEN "dec" ELSE "idle"]
  /\ UNCHANGED <<ports, allocNum, held, cur>>

DecPortNum(c) ==
  /\ pc[c] = "dec"
  /\ allocNum' = allocNum - 1
  /\ pc' = [pc EXCEPT ![c] = "idle"]
  /\ UNCHANGED <<portIdPool, ports, held, cur>>
-----------------------------------------------------------------------------
ClientStep(c) ==
  \/ PortIdAlloc(c) \/ IncPortNum(c) \/ AddPortMap(c)
  \/ \E p \in PortIds : GetPortMap(c, p)
  \/ DelPortMap(c) \/ PortIdFree(c) \/ DecPortNum(c)

Next == \E c \in Clients : ClientStep(c)

Spec == Init /\ [][Next]_vars
-----------------------------------------------------------------------------
(* Type invariant: slots hold slot numbers, and a client inside a call is  *)
(* inside it about a real port number.                                     *)
TypeOK ==
  /\ portIdPool \in [Slots -> Slots]
  /\ ports \in [PortIds -> Clients \cup {NoPio}]
  /\ allocNum \in Int
  /\ held \in [Clients -> SUBSET PortIds]
  /\ pc \in [Clients -> {"idle", "inc", "add", "del", "free", "dec"}]
  /\ cur \in [Clients -> Slots]
  /\ \A c \in Clients : pc[c] # "idle" => cur[c] \in PortIds

(* The numbers c has taken from the pool and not put back. *)
InFlight(c) == IF pc[c] \in {"inc", "add", "del", "free"} THEN {cur[c]} ELSE {}
Busy(c) == held[c] \cup InFlight(c)

FreeIds == PortIds \ UNION {Busy(c) : c \in Clients}

(* No port number is out twice: no two clients inside JoinFwdPort, holding *)
(* a port, or inside ReleaseFwdPort ever have the same number, so a packet *)
(* for one never goes to the other and a release never frees the other's.  *)
NoSharedPort ==
  /\ \A c, d \in Clients : c # d => Busy(c) \cap Busy(d) = {}
  /\ \A c \in Clients : pc[c] # "idle" => cur[c] \notin held[c]

(* The port map and the holders agree: a number leads to c in portMap      *)
(* exactly from addPortMap to delPortMap of c's own calls.  So getPortMap  *)
(* in ReleaseFwdPort always finds the caller's own entry.                  *)
PortMapOwner ==
  \A p \in PortIds, c \in Clients :
     ports[p] = c <=> p \in held[c] \/ (pc[c] = "del" /\ cur[c] = p)

(* The links from slot 0 run through the n numbers of s and end at 0. *)
ListedBy(n, s) ==
  /\ portIdPool[0] = IF n = 0 THEN 0 ELSE s[1]
  /\ \A i \in 1 .. n : portIdPool[s[i]] = IF i = n THEN 0 ELSE s[i + 1]
  /\ \A i, j \in 1 .. n : s[i] = s[j] => i = j
  /\ FreeIds = {s[i] : i \in 1 .. n}

(* No number leaks: the linked list threaded through portIdPool always     *)
(* holds exactly the numbers nobody has, each once.  Hence portIdAlloc     *)
(* says full (0) only when all MAXPORT-1 numbers are out.                  *)
FreeListExact == \E n \in 0 .. MAXPORT - 1 : \E s \in [1 .. n -> PortIds] : ListedBy(n, s)

(* The joins that have been counted in and not yet counted out. *)
Counted ==
  {cp \in Clients \X PortIds :
     /\ Inc(cp[1])
     /\ \/ cp[2] \in held[cp[1]]
        \/ pc[cp[1]] \in {"add", "del", "free", "dec"} /\ cur[cp[1]] = cp[2]}

AllocNumExact == allocNum = Cardinality(Counted)

(* The assertion of decPortNum, panic("allocNum < 0"), never fails. *)
NumNeverNegative == allocNum >= 0

(* TryToDelFdbById deletes the FDB when getPortNum() is 0: then no client  *)
(* that counts is in the port map, whatever calls are under way.           *)
ZeroMeansEmpty ==
  allocNum = 0 => \A p \in PortIds, c \in Clients : Inc(c) => ports[p] # c

(* Together: no number is shared or lost, and the map leads to its holder. *)
PoolExact == NoSharedPort /\ PortMapOwner /\ FreeListExact

(* Together: the counter is exact, so decPortNum never panics and a count  *)
(* of 0 says that nobody who counts is in the map.                         *)
CountSafe == AllocNumExact /\ NumNeverNegative /\ ZeroMeansEmpty

(* The free list implements the abstract allocator: a number is given out  *)
(* (portIdAlloc) only while nobody owns it, and comes back (portIdFree)    *)
(* only from its owner; the other steps do not move ownership.             *)
Allocator == INSTANCE PortAlloc WITH owned <- [c \in Clients |-> Busy(c)]
Allocation == Allocator!Spec
=============================================================================
