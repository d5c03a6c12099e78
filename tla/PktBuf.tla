------------------------------- MODULE PktBuf -------------------------------
(***************************************************************************)
(* Packet buffers (packet/pktpool.go): a reader, a heartbeat or a report   *)
(* takes one from the pool, gives it to channels, each of which gets a     *)
(* reference of its own, and puts its own reference back; a writer puts    *)
(* the one it took from its channel.  The last one to put returns the      *)
(* buffer to the pool.  The buffer is not copied on the way: it is         *)
(* encrypted where it is (vnet/conn.go).                                   *)
(*                                                                         *)
(* Some paths drop a buffer without putting it.  Such a buffer is never in *)
(* the pool again; the garbage collector takes it once nobody has it.      *)
(*                                                                         *)
(* A send on a channel that Close has closed ends the process (ClientLife) *)
(* and is no step here.                                                    *)
(***************************************************************************)
EXTENDS Integers, Sequences, FiniteSets

CONSTANTS Bufs,      \* PktBuf objects
          Sources,   \* goroutines that take buffers from the pool
          Clients,   \* those with a pktchan and a writer
          Crypted,   \* clients whose cryptType is set
          Recv,      \* the backup link: its recvQueue and its reader
          Stat,      \* netstat: its queue and its handler
          ChanSize,  \* capacity of every channel
          MaxTo,     \* bound: to how many channels a packet is given
          None

Queues == Clients \cup {Recv, Stat}
Procs == Sources \cup Queues      \* a queue stands for the goroutine that reads it

Labels == {"idle", "read", "fwd", "put", "last", "encrypt", "mark", "write", "sent", "look", "gone"}

PktBufAssumption ==
  /\ IsFiniteSet(Sources) /\ IsFiniteSet(Clients) /\ Crypted \subseteq Clients
  /\ ChanSize \in Nat \ {0} /\ MaxTo \in Nat
  /\ Recv \notin Clients /\ Stat \notin Clients /\ Recv # Stat
  /\ Sources \cap Queues = {} /\ Labels \cap Queues = {} /\ None \notin Bufs

VARIABLES
  pool,    \* the free buffers
  ref,     \* ref of a buffer
  enc,     \* how often its payload has been encrypted
  marked,  \* whether its header says that it is
  queue,   \* what is in a channel
  closed,  \* clients that are closed
  hand,    \* the buffer of a goroutine
  left,    \* the channels it has still to give it to
  pc,      \* where a goroutine is
  wire,    \* what a writer has just sent: [enc, marked]
  shared   \* buffers that are given to more than one client

buf == <<pool, ref, enc, marked>>
vars == <<buf, queue, closed, hand, left, pc, wire, shared>>

At(g, l) == pc[g] = l
Goto(g, l) == pc' = [pc EXCEPT ![g] = l]
Set(f, x, y) == [f EXCEPT ![x] = y]
Silent == [enc |-> 0, marked |-> FALSE]

Init ==
  /\ pool = Bufs /\ ref = [b \in Bufs |-> 0]
  /\ enc = [b \in Bufs |-> 0] /\ marked = [b \in Bufs |-> FALSE]
  /\ queue = [q \in Queues |-> <<>>] /\ closed = {}
  /\ hand = [g \in Procs |-> None] /\ left = [g \in Procs |-> {}]
  /\ pc = [g \in Procs |-> "idle"]
  /\ wire = [q \in Clients |-> Silent] /\ shared = {}

(* ForwardPkt and the senders: to channels of clients, some of them also   *)
(* to netstat; a slave's reader to the backup link alone.                  *)
Goals(g) == {S \in SUBSET (Clients \cup {Stat}) : Cardinality(S) <= MaxTo}
              \cup (IF g = Recv THEN {} ELSE {{Recv}})

Share(b, S) ==
  shared' = IF Cardinality(S \cap Clients) > 1 THEN shared \cup {b} ELSE shared \ {b}
-----------------------------------------------------------------------------
(* GetPktFromPool, and the buffer is filled with a packet in the clear. *)
GetPktFromPool(g) ==
  \E b \in pool :
    /\ g \in Sources /\ At(g, "idle") /\ Goto(g, "read")
    /\ pool' = pool \ {b} /\ ref' = Set(ref, b, ref[b] + 1)
    /\ enc' = Set(enc, b, 0) /\ marked' = Set(marked, b, FALSE)
    /\ hand' = Set(hand, g, b)
    /\ UNCHANGED <<queue, closed, left, wire, shared>>

Read(g) ==
  \E S \in Goals(g) :
    /\ At(g, "read") /\ Goto(g, "fwd")
    /\ left' = Set(left, g, S) /\ Share(hand[g], S)
    /\ UNCHANGED <<buf, queue, closed, hand, wire>>

(* Read fails: ReadForward returns with the buffer in hand. *)
ReadFails(g) ==
  /\ At(g, "read") /\ Goto(g, "idle")
  /\ hand' = Set(hand, g, None)
  /\ UNCHANGED <<buf, queue, closed, left, wire, shared>>

(* The loop of the backup link's Read. *)
RecvTake ==
  \E S \in Goals(Recv) :
    /\ At(Recv, "idle") /\ queue[Recv] # <<>> /\ Goto(Recv, "fwd")
    /\ hand' = Set(hand, Recv, Head(queue[Recv])) /\ left' = Set(left, Recv, S)
    /\ queue' = Set(queue, Recv, Tail(queue[Recv])) /\ Share(Head(queue[Recv]), S)
    /\ UNCHANGED <<buf, closed, wire>>

(* PutPktToChan2 and NetStatPut: hold, then send; the channel may be full. *)
NoHold(b) == ref                     \* mutant: the channel gets no reference
HoldPktBuf(b) == Set(ref, b, ref[b] + 1)

Hold(g) ==
  \E q \in left[g] \ {Recv} :
    /\ At(g, "fwd")
    /\ left' = Set(left, g, left[g] \ {q})
    /\ IF q \in closed
       THEN UNCHANGED <<ref, pc>>
       ELSE ref' = HoldPktBuf(hand[g]) /\ Goto(g, q)
    /\ UNCHANGED <<pool, enc, marked, queue, closed, hand, wire, shared>>

(* PutToRecvQueue: holds at once, and sends if the slave is the active one. *)
PutToRecvQueue(g) ==
  \E active \in BOOLEAN :
    /\ At(g, "fwd") /\ Recv \in left[g]
    /\ left' = Set(left, g, {})
    /\ ref' = HoldPktBuf(hand[g])
    /\ IF active THEN Goto(g, Recv) ELSE UNCHANGED pc
    /\ UNCHANGED <<pool, enc, marked, queue, closed, hand, wire, shared>>

Send(g) ==
  \E q \in Queues \ closed :
    /\ At(g, q) /\ Len(queue[q]) < ChanSize /\ Goto(g, "fwd")
    /\ queue' = Set(queue, q, Append(queue[q], hand[g]))
    /\ UNCHANGED <<buf, closed, hand, left, wire, shared>>

(* PutPktToPool: the reference is counted down, and who gets 0 returns the *)
(* buffer.                                                                 *)
Low(b) == ref[b] <= 2                 \* mutant: returned while one other has it
IsLast(b) == ref[b] = 1

ReleasePktBuf(g) ==
  /\ At(g, "put") \/ (At(g, "fwd") /\ left[g] = {})
  /\ ref' = Set(ref, hand[g], ref[hand[g]] - 1)
  /\ IF IsLast(hand[g])
     THEN Goto(g, "last") /\ UNCHANGED hand
     ELSE Goto(g, "idle") /\ hand' = Set(hand, g, None)
  /\ UNCHANGED <<pool, enc, marked, queue, closed, left, wire, shared>>

PoolPut(g) ==
  /\ At(g, "last") /\ Goto(g, "idle")
  /\ pool' = pool \cup {hand[g]}
  /\ hand' = Set(hand, g, None)
  /\ UNCHANGED <<ref, enc, marked, queue, closed, left, wire, shared>>
-----------------------------------------------------------------------------
(* WriteFromChan and Write: encrypt in place, mark the header, send. *)
WriterTake(c) ==
  /\ At(c, "idle") /\ queue[c] # <<>>
  /\ Goto(c, IF c \in Crypted THEN "encrypt" ELSE "write")
  /\ hand' = Set(hand, c, Head(queue[c])) /\ queue' = Set(queue, c, Tail(queue[c]))
  /\ UNCHANGED <<buf, closed, left, wire, shared>>

Encrypt(c) ==
  /\ At(c, "encrypt") /\ Goto(c, "mark")
  /\ enc' = Set(enc, hand[c], enc[hand[c]] + 1)
  /\ UNCHANGED <<pool, ref, marked, queue, closed, hand, left, wire, shared>>

Mark(c) ==
  /\ At(c, "mark") /\ Goto(c, "write")
  /\ marked' = Set(marked, hand[c], TRUE)
  /\ UNCHANGED <<pool, ref, enc, queue, closed, hand, left, wire, shared>>

WriteOk(c) ==
  /\ At(c, "write") /\ c \notin closed /\ Goto(c, "sent")
  /\ wire' = Set(wire, c, [enc |-> enc[hand[c]], marked |-> marked[hand[c]]])
  /\ UNCHANGED <<buf, queue, closed, hand, left, shared>>

Written(c) ==
  /\ At(c, "sent") /\ Goto(c, "put")
  /\ wire' = Set(wire, c, Silent)
  /\ UNCHANGED <<buf, queue, closed, hand, left, shared>>

(* A write that fails ends the writer, with the buffer in hand and the *)
(* rest in the channel.                                                *)
WriteFails(c) ==
  /\ At(c, "write") /\ Goto(c, "gone")
  /\ closed' = closed \cup {c}
  /\ hand' = Set(hand, c, None) /\ queue' = Set(queue, c, <<>>)
  /\ UNCHANGED <<buf, left, wire, shared>>

Close(c) ==
  /\ c \notin closed /\ closed' = closed \cup {c}
  /\ UNCHANGED <<buf, queue, hand, left, pc, wire, shared>>

(* netStatHandle looks at the packet and releases it, but not to the pool. *)
StatDec(b) == Set(ref, b, ref[b] - 1)

StatTake ==
  /\ At(Stat, "idle") /\ queue[Stat] # <<>> /\ Goto(Stat, "look")
  /\ hand' = Set(hand, Stat, Head(queue[Stat])) /\ queue' = Set(queue, Stat, Tail(queue[Stat]))
  /\ UNCHANGED <<buf, closed, left, wire, shared>>

StatRelease ==
  /\ At(Stat, "look") /\ Goto(Stat, "idle")
  /\ ref' = StatDec(hand[Stat])
  /\ hand' = Set(hand, Stat, None)
  /\ UNCHANGED <<pool, enc, marked, queue, closed, left, wire, shared>>

(* The references to a buffer: in a channel at position i > 0, in a hand    *)
(* (0), and the one that a goroutine holds for a channel it has still to   *)
(* send to (-1).                                                           *)
Places(b) ==
  {p \in Procs \X {0, -1} : hand[p[1]] = b /\ (p[2] = 0 \/ pc[p[1]] \in Queues)} \cup
  {p \in Queues \X (1 .. ChanSize) : p[2] <= Len(queue[p[1]]) /\ queue[p[1]][p[2]] = b}

Holders(b) == Cardinality(Places(b))

(* The garbage collector, and the allocation of a new buffer. *)
Collect(b) ==
  /\ b \notin pool /\ Places(b) = {}
  /\ pool' = pool \cup {b} /\ ref' = Set(ref, b, 0)
  /\ UNCHANGED <<enc, marked, queue, closed, hand, left, pc, wire, shared>>

Next ==
  \/ \E g \in Procs :
       \/ GetPktFromPool(g) \/ Read(g) \/ ReadFails(g) \/ Hold(g) \/ PutToRecvQueue(g) \/ Send(g)
       \/ ReleasePktBuf(g) \/ PoolPut(g)
  \/ \E c \in Clients :
       WriterTake(c) \/ Encrypt(c) \/ Mark(c) \/ WriteOk(c) \/ Written(c) \/ WriteFails(c) \/ Close(c)
  \/ RecvTake \/ StatTake \/ StatRelease
  \/ \E b \in Bufs : Collect(b)

Spec == Init /\ [][Next]_vars
-----------------------------------------------------------------------------
(* Type invariant: counts are never negative (PutPktToPool panics then),   *)
(* and who works on a buffer has one.                                      *)
TypeOK ==
  /\ pool \subseteq Bufs /\ shared \subseteq Bufs /\ ref \in [Bufs -> Nat] /\ enc \in [Bufs -> Nat]
  /\ marked \in [Bufs -> BOOLEAN] /\ closed \subseteq Clients
  /\ queue \in [Queues -> Seq(Bufs)] /\ \A q \in Queues : Len(queue[q]) <= ChanSize
  /\ hand \in [Procs -> Bufs \cup {None}] /\ left \in [Procs -> SUBSET Queues]
  /\ pc \in [Procs -> Labels \cup Queues] /\ wire \in [Clients -> [enc : Nat, marked : BOOLEAN]]
  /\ \A g \in Procs : hand[g] = None <=> pc[g] \in {"idle", "gone"}

(* pktpool.go:50: whoever holds a buffer is counted, though goroutines     *)
(* hold and put it at the same time; a reference that was dropped may be   *)
(* counted for ever, but none is missing.  The one who counts to 0 holds   *)
(* it last.                                                                *)
RefCovers ==
  \A b \in Bufs : ref[b] + (IF \E g \in Procs : At(g, "last") /\ hand[g] = b THEN 1 ELSE 0) >= Holders(b)

(* A buffer in the pool is in nobody's hand and in no channel, whatever    *)
(* reads and writes fail and whatever paths drop it: no packet is          *)
(* overwritten while somebody has still to send it.                        *)
PoolIsFree == \A b \in pool : ref[b] = 0 /\ Places(b) = {}

(* conn.go:79: a packet that is given to one client only goes out in the   *)
(* form its receiver expects: encrypted once and marked, or in the clear   *)
(* and not marked, and no earlier use of the buffer shows.                 *)
WireIsReadable ==
  \A c \in Clients : At(c, "sent") /\ hand[c] \notin shared =>
    wire[c] = [enc |-> IF c \in Crypted THEN 1 ELSE 0, marked |-> c \in Crypted]
=============================================================================
