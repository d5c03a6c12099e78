---------------------------- MODULE TwoSwitches ----------------------------
(***************************************************************************)
(* Two nodes with a connection between them, each with an FDB that has two *)
(* members: a device and the connection.  What blocks whom: the bounded    *)
(* pktchan of the connection (vnet/client.go), the read lock that flood    *)
(* holds while it sends (fdb/forward.go), the lock a join needs            *)
(* (fdb/port.go), and a peer that does not read.  The device takes every   *)
(* packet at once; closing is ClientLife's subject.                        *)
(***************************************************************************)
EXTENDS Integers, Sequences

CONSTANTS Nodes,        \* two
          Askers,       \* those whose heartbeat sends requests
          Joining,      \* those whose FDB other clients join or leave
          ChanSize,     \* capacity of pktchan
          Window,       \* packets the network and the peer's kernel hold
          HeartbeatCnt  \* unanswered requests before the heartbeat closes

TwoSwitchesAssumption ==
  /\ \E n, m \in Nodes : n # m /\ Nodes = {n, m}
  /\ Askers \subseteq Nodes /\ Joining \subseteq Nodes
  /\ ChanSize \in Nat \ {0} /\ Window \in Nat \ {0} /\ HeartbeatCnt \in Nat

Other(n) == CHOOSE m \in Nodes : m # n

VARIABLES
  pktchan,      \* of the connection's client at each node
  wire,         \* what a node has sent and the other has not read
  dev,          \* where the reader of the device is
  link,         \* where the reader of the connection is
  hb, timeouts, \* where the heartbeat is, and timeout_count
  moved,        \* rx_bytes has changed since the heartbeat looked
  join,         \* a join or release waits for the lock of the port map
  down          \* the connection has ended

vars == <<pktchan, wire, dev, link, hb, timeouts, moved, join, down>>

Init ==
  /\ pktchan = [n \in Nodes |-> <<>>] /\ wire = [n \in Nodes |-> <<>>]
  /\ dev = [n \in Nodes |-> "idle"] /\ link = [n \in Nodes |-> "idle"]
  /\ hb = [n \in Nodes |-> "wait"] /\ timeouts = [n \in Nodes |-> 0] /\ moved = [n \in Nodes |-> FALSE]
  /\ join = [n \in Nodes |-> FALSE] /\ down = FALSE

(* A send blocks on a full channel. *)
HasRoom(n) == Len(pktchan[n]) < ChanSize

CanPut(n) == ~ down /\ HasRoom(n)

Put(n, p) == CanPut(n) /\ pktchan' = [pktchan EXCEPT ![n] = Append(@, p)]
-----------------------------------------------------------------------------
(* portMap.RWMutex: a Lock that waits keeps new readers out. *)
MayRLock(n) == ~ join[n]

(* Flood sends while it holds the read lock. *)
HoldsRLock(n) == dev[n] = "flood"

(* The device: Forward of a packet whose destination is known looks the    *)
(* client up and sends; flood of any other goes through portMap.           *)
DevRead(n) ==
  /\ ~ down /\ dev[n] = "idle"
  /\ \/ dev' = [dev EXCEPT ![n] = "unicast"]
     \/ MayRLock(n) /\ dev' = [dev EXCEPT ![n] = "flood"]
  /\ UNCHANGED <<pktchan, wire, link, hb, timeouts, moved, join, down>>

DevHolds(n) == dev[n] \in {"unicast", "flood"}

DevSend(n) ==
  /\ DevHolds(n) /\ Put(n, "data") /\ dev' = [dev EXCEPT ![n] = "idle"]
  /\ UNCHANGED <<wire, link, hb, timeouts, moved, join, down>>

(* The connection: Read, and the handler of the type.  What needs neither  *)
(* a lock nor the own channel is done: a reply is looked at, a packet with *)
(* a known destination goes to the device.  rx_bytes counts a packet when  *)
(* its handler has returned.                                               *)
Handlers(p) ==
  CASE p = "data" -> {"done", "rlock"}
    [] p = "req"  -> {"reply"}
    [] OTHER      -> {"done"}

Done(n) == link' = [link EXCEPT ![n] = "idle"] /\ moved' = [moved EXCEPT ![n] = TRUE]

CanRead(n) == ~ down /\ link[n] = "idle" /\ wire[Other(n)] # <<>>

LinkRead(n) ==
  /\ CanRead(n)
  /\ wire' = [wire EXCEPT ![Other(n)] = Tail(@)]
  /\ \E to \in Handlers(Head(wire[Other(n)])) :
       IF to = "done" THEN Done(n) ELSE link' = [link EXCEPT ![n] = to] /\ UNCHANGED moved
  /\ UNCHANGED <<pktchan, dev, hb, timeouts, join, down>>

(* The members of the FDB that a flood from the connection reaches: its    *)
(* own port is left out, and the device takes the packet.                  *)
AllPorts(n) == {"dev", "link"}   \* mutant: p != pio is not tested
Targets(n) == {"dev"}

CanFlood(n) ==
  /\ ~ down /\ link[n] = "rlock" /\ MayRLock(n)
  /\ "link" \in Targets(n) => HasRoom(n)

LinkFlood(n) ==
  /\ CanFlood(n)
  /\ pktchan' = IF "link" \in Targets(n) THEN [pktchan EXCEPT ![n] = Append(@, "data")] ELSE pktchan
  /\ Done(n)
  /\ UNCHANGED <<wire, dev, hb, timeouts, join, down>>

(* checkHeartBeat answers from the reader. *)
LinkReply(n) ==
  /\ link[n] = "reply" /\ Put(n, "rpl") /\ Done(n)
  /\ UNCHANGED <<wire, dev, hb, timeouts, join, down>>

(* WriteFromChan: a write blocks while the peer does not read. *)
CanWrite(n) == ~ down /\ pktchan[n] # <<>> /\ Len(wire[n]) < Window

Write(n) ==
  /\ CanWrite(n)
  /\ wire' = [wire EXCEPT ![n] = Append(@, Head(pktchan[n]))]
  /\ pktchan' = [pktchan EXCEPT ![n] = Tail(@)]
  /\ UNCHANGED <<dev, link, hb, timeouts, moved, join, down>>
-----------------------------------------------------------------------------
(* HeartBeat: its timer is up. *)
IsTimeout(n) == ~ moved[n]

HbIdle(n) ==
  /\ ~ down /\ n \in Askers /\ hb[n] = "wait" /\ ~ IsTimeout(n)
  /\ timeouts' = [timeouts EXCEPT ![n] = 0] /\ moved' = [moved EXCEPT ![n] = FALSE]
  /\ UNCHANGED <<pktchan, wire, dev, link, hb, join, down>>

HbAsk(n) ==
  /\ ~ down /\ n \in Askers /\ hb[n] = "wait" /\ IsTimeout(n) /\ timeouts[n] < HeartbeatCnt
  /\ hb' = [hb EXCEPT ![n] = "send"]
  /\ UNCHANGED <<pktchan, wire, dev, link, timeouts, moved, join, down>>

HbSend(n) ==
  /\ hb[n] = "send" /\ Put(n, "req")
  /\ hb' = [hb EXCEPT ![n] = "wait"] /\ timeouts' = [timeouts EXCEPT ![n] = @ + 1]
  /\ UNCHANGED <<wire, dev, link, moved, join, down>>

HbClose(n) ==
  /\ ~ down /\ n \in Askers /\ hb[n] = "wait" /\ IsTimeout(n) /\ timeouts[n] = HeartbeatCnt
  /\ down' = TRUE
  /\ UNCHANGED <<pktchan, wire, dev, link, hb, timeouts, moved, join>>

(* addPortMap or delPortMap for some other client: Lock, then the section. *)
(* Unlock lets the readers in that waited, before the next writer.  (A     *)
(* reader with no writer before it does not wait: a writer that comes just *)
(* then might have come before the packet was read.)                       *)
Lock(n) ==
  /\ link[n] # "rlock"
  /\ ~ down /\ n \in Joining /\ ~ join[n] /\ join' = [join EXCEPT ![n] = TRUE]
  /\ UNCHANGED <<pktchan, wire, dev, link, hb, timeouts, moved, down>>

CanUnlock(n) == ~ down /\ join[n] /\ ~ HoldsRLock(n)

Unlock(n) ==
  /\ CanUnlock(n) /\ join' = [join EXCEPT ![n] = FALSE]
  /\ UNCHANGED <<pktchan, wire, dev, link, hb, timeouts, moved, down>>

(* External: the connection breaks. *)
Cut == ~ down /\ down' = TRUE /\ UNCHANGED <<pktchan, wire, dev, link, hb, timeouts, moved, join>>

LinkReader(n) == LinkRead(n) \/ LinkFlood(n) \/ LinkReply(n)
HeartBeat(n) == HbIdle(n) \/ HbAsk(n) \/ HbSend(n) \/ HbClose(n)

Next ==
  \/ \E n \in Nodes : LinkReader(n) \/ DevRead(n) \/ DevSend(n) \/ Write(n) \/ HeartBeat(n) \/ Lock(n) \/ Unlock(n)
  \/ Cut

Spec == Init /\ [][Next]_vars
-----------------------------------------------------------------------------
Packets == {"data", "req", "rpl"}

TypeOK ==
  /\ pktchan \in [Nodes -> Seq(Packets)] /\ wire \in [Nodes -> Seq(Packets)]
  /\ \A n \in Nodes : Len(pktchan[n]) <= ChanSize /\ Len(wire[n]) <= Window
  /\ dev \in [Nodes -> {"idle", "unicast", "flood"}]
  /\ link \in [Nodes -> {"idle", "rlock", "reply"}]
  /\ hb \in [Nodes -> {"wait", "send"}] /\ timeouts \in [Nodes -> 0..HeartbeatCnt]
  /\ moved \in [Nodes -> BOOLEAN] /\ join \in [Nodes -> BOOLEAN] /\ down \in BOOLEAN

(* The steps that need room or the lock, by the guards they take.          *)
CanMove(n) ==
  \/ CanRead(n) \/ CanFlood(n)
  \/ CanPut(n) /\ (link[n] = "reply" \/ DevHolds(n))
  \/ CanWrite(n) \/ CanUnlock(n)

(* A reader of the connection has something in hand and no goroutine but a *)
(* heartbeat can take a step, except to start something new.               *)
Gridlock == ~ down /\ (\E n \in Nodes : link[n] # "idle") /\ \A n \in Nodes : ~ CanMove(n)

(* The reader waits for the writer of its own connection, directly or      *)
(* behind a join that waits for a flood.                                   *)
AnswersFull(n) == link[n] = "reply" /\ ~ HasRoom(n)
BehindJoin(n) == link[n] = "rlock" /\ join[n] /\ dev[n] = "flood" /\ ~ HasRoom(n)

(* forward.go:14-19, heartbeat.go:103: all come to a halt only in one way: *)
(* at both ends at once the reader is about to answer a heartbeat on a     *)
(* full channel, or waits for the port map because a join waits for a      *)
(* flood from the device that is blocked on that channel.                  *)
HaltsOnlyAtBoth == Gridlock => \A n \in Nodes : AnswersFull(n) \/ BehindJoin(n)
=============================================================================
