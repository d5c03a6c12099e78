------------------------- MODULE ConnectionProofs ---------------------------
(***************************************************************************)
(* Proofs about a connection, for every value of the constants: each part  *)
(* of MCConnection in turn.                                                *)
(*                                                                         *)
(*   Framing      IInv describes the stream: headers and payloads in turn, *)
(*                each payload as long as its header says                  *)
(*   PktBuf       BufInv: a buffer has a reference for each place that     *)
(*                holds it, or more; WireInv: who may still read a buffer  *)
(*                has a ticket, and who encrypts it holds the only one     *)
(*   TwoSwitches  SwitchInv, and why a reader that is stuck makes the      *)
(*                other one stuck                                          *)
(*   Heartbeat    HbInv: the number of a message tells its place, and the  *)
(*                sum of delays is a part of slowest times hbID            *)
(***************************************************************************)
EXTENDS MCConnection, FiniteSetTheorems, TLAPS

Items == [head : BOOLEAN, type : Types \cup {"none"}, len : 0..Wide-1]

(* What a header announces: heartbeats are short, and data is what the     *)
(* device sends.                                                           *)
Sound(k, t, l) ==
  /\ t \in Types
  /\ t \in {"HearbeatReq", "HearbeatRpl"} => l = HbLen
  /\ t = "UserData" => MinOf(k) <= l /\ l <= MaxOf(k)

QueueInv == \A i \in 1..Len(pktchan) :
  pktchan[i].len = pktchan[i].bytes /\ Sound(device, pktchan[i].type, pktchan[i].len)

(* Headers and payloads alternate on the stream, and a payload has the     *)
(* length of the header before it.                                         *)
HeadInv == \A i \in 1..Len(stream) :
  stream[i].head => /\ i + 1 <= Len(stream) /\ ~ stream[i+1].head
                    /\ stream[i+1].len = stream[i].len
                    /\ Sound(device, stream[i].type, stream[i].len)

TailInv == \A i \in 1..Len(stream) :
  ~ stream[i].head /\ i + 1 <= Len(stream) => stream[i+1].head

(* The stream begins with what the receiver is waiting for. *)
FirstInv ==
  /\ pc # "handle" /\ stream # <<>> => stream[1].head
  /\ pc = "handle" => /\ stream # <<>> /\ ~ stream[1].head /\ stream[1].len = ph.len
                      /\ Sound(device, ph.type, ph.len) /\ used = HeaderSize

IInv ==
  /\ TypeOK /\ QueueInv /\ HeadInv /\ TailInv /\ FirstInv /\ Accepted /\ ~ lost
-----------------------------------------------------------------------------
LEMMA ConstantTypes ==
  /\ HeaderSize \in Nat /\ BufSize \in Nat /\ MinSize \in Nat /\ MaxSize \in Nat /\ Wide \in Nat
  /\ HbLen \in Nat /\ HeaderSize > 0 /\ EtherSize \in Nat /\ EtherSize <= MinSize
  /\ \A k \in Kinds : /\ MinOf(k) \in Nat /\ MaxOf(k) \in Nat
                       /\ HbLen <= MaxOf(k) /\ MaxOf(k) <= MaxSize
  /\ HeaderSize + MaxSize <= BufSize /\ BufSize < Wide
  /\ Lens \subseteq Nat /\ IdCounts \subseteq Nat
BY FramingAssumption DEF FramingAssumption, HbLen, Kinds, MinOf, MaxOf

LEMMA InitInv == Init => IInv
<1> SUFFICES ASSUME Init PROVE IInv
  OBVIOUS
<1>1. TypeOK
  <2>1. NoHeader \in Headers /\ NoHeader \in [type : Types \cup {"none"}, len : Nat]
    BY ConstantTypes DEF NoHeader, Headers
  <2>2. lost \in BOOLEAN
    BY Zenon DEF Init
  <2> QED
    BY <2>1, <2>2, ConstantTypes DEF Init, TypeOK
<1>2. QueueInv /\ HeadInv /\ TailInv
  BY DEF Init, QueueInv, HeadInv, TailInv
<1>3. FirstInv /\ Accepted
  BY DEF Init, FirstInv, Accepted, MaxOf
<1>4. ~ lost
  BY Zenon DEF Init
<1> QED
  BY <1>1, <1>2, <1>3, <1>4 DEF IInv

(* A buffer that fits is queued with the length its header says. *)
LEMMA AssembleInv ==
  ASSUME IInv, NEW t \in Types, NEW n \in Nat, Assemble(t, n),
         Sound(device, t, n)
  PROVE  IInv'
<1> USE ConstantTypes
<1>0. device \in Kinds /\ bound \in Kinds
  BY DEF IInv, TypeOK
<1>1. UNCHANGED <<device, bound, stream, used, ph, pc, lost>>
  BY DEF Assemble, receiver, ends
<1>2. HeadInv' /\ TailInv' /\ FirstInv' /\ lost' = lost
  BY <1>1 DEF IInv, HeadInv, TailInv, FirstInv
<1>3. CASE HeaderSize + n <= BufSize
  <2> DEFINE b == [type |-> t, len |-> n % Wide, bytes |-> n]
  <2>1. pktchan' = Append(pktchan, b) /\ UNCHANGED <<ended, by>>
    BY <1>3 DEF Assemble
  <2>2. n % Wide = n
    BY <1>3
  <2>3. b \in Buffers /\ b.len = b.bytes /\ Sound(device, b.type, b.len)
    BY <1>3, <2>2 DEF Buffers
  <2>4. pktchan \in Seq(Buffers)
    BY DEF IInv, TypeOK
  <2> HIDE DEF b
  <2>5. QueueInv'
    BY <1>1, <2>1, <2>3, <2>4 DEF IInv, QueueInv
  <2>6. TypeOK'
    BY <1>1, <2>1, <2>3, <2>4 DEF IInv, TypeOK
  <2>7. Accepted'
    BY <1>1, <2>1 DEF IInv, Accepted, MaxOf
  <2> QED
    BY <1>2, <2>5, <2>6, <2>7 DEF IInv
<1>4. CASE ~ (HeaderSize + n <= BufSize)
  <2>1. ended' = "panic" /\ by' = [type |-> t, len |-> n] /\ UNCHANGED pktchan
    BY <1>4 DEF Assemble
  <2>2. t = "FdbIdsMsg" /\ n > MaxOf(bound)
    BY <1>0, <1>4 DEF Sound, Types
  <2>3. TypeOK'
    BY <1>1, <2>1 DEF IInv, TypeOK
  <2>4. QueueInv'
    BY <1>1, <2>1 DEF IInv, QueueInv
  <2>5. Accepted'
    BY <1>1, <2>1, <2>2 DEF Accepted, MaxOf
  <2> QED
    BY <1>2, <2>3, <2>4, <2>5 DEF IInv
<1> QED
  BY <1>3, <1>4

LEMMA WriteInv == ASSUME IInv, Write PROVE IInv'
<1> DEFINE b == Head(pktchan)
           h == [head |-> TRUE, type |-> b.type, len |-> b.len]
           p == [head |-> FALSE, type |-> "none", len |-> b.bytes]
<1>1. /\ pktchan # <<>> /\ stream' = stream \o <<h, p>> /\ pktchan' = Tail(pktchan)
      /\ UNCHANGED <<device, bound, used, ph, pc, lost, ended, by>>
  BY DEF Write, Segments, receiver, ends
<1>2. /\ pktchan \in Seq(Buffers) /\ stream \in Seq(Items)
  BY DEF IInv, TypeOK, Items
<1>3. /\ b \in Buffers /\ b = pktchan[1] /\ b.len = b.bytes /\ Sound(device, b.type, b.len)
  BY <1>1, <1>2 DEF IInv, QueueInv
<1>4. h \in Items /\ p \in Items
  <2>1. b.len \in 0..Wide-1 /\ b.bytes \in 0..Wide-1 /\ b.type \in Types
    BY <1>3 DEF Buffers
  <2> QED
    BY <2>1 DEF Items
<1>5. h.head /\ ~ p.head /\ p.len = h.len /\ Sound(device, h.type, h.len)
  BY <1>3
<1> HIDE DEF b, h, p
<1>6. /\ stream' \in Seq(Items) /\ Len(stream') = Len(stream) + 2 /\ Len(stream) \in Nat
      /\ \A i \in 1..Len(stream) : stream'[i] = stream[i]
      /\ stream'[Len(stream)+1] = h /\ stream'[Len(stream)+2] = p
  BY <1>1, <1>2, <1>4
<1>7. /\ pktchan' \in Seq(Buffers) /\ Len(pktchan') = Len(pktchan) - 1 /\ Len(pktchan) \in Nat
      /\ \A i \in 1..Len(pktchan') : pktchan'[i] = pktchan[i+1]
  BY <1>1, <1>2
<1>8. QueueInv'
  BY <1>1, <1>7 DEF IInv, QueueInv
<1>9. HeadInv'
  BY <1>1, <1>5, <1>6 DEF IInv, HeadInv
<1>10. TailInv'
  <2> SUFFICES ASSUME NEW i \in 1..Len(stream'), ~ stream'[i].head, i + 1 <= Len(stream')
               PROVE  stream'[i+1].head
    BY DEF TailInv
  <2>1. i \in 1..Len(stream)
    BY <1>5, <1>6
  <2>2. CASE i + 1 <= Len(stream)
    <3>1. stream'[i] = stream[i] /\ stream'[i+1] = stream[i+1]
      BY <1>6, <2>1, <2>2
    <3> QED
      BY <2>1, <2>2, <3>1 DEF IInv, TailInv
  <2>3. CASE i = Len(stream)
    BY <1>5, <1>6, <2>3
  <2> QED
    BY <1>6, <2>1, <2>2, <2>3
<1>11. FirstInv'
  <2>1. CASE stream = <<>>
    <3>1. Len(stream) = 0 /\ pc # "handle"
      BY <2>1 DEF IInv, FirstInv
    <3>2. stream'[1] = h
      BY <1>6, <3>1
    <3> QED
      BY <1>1, <1>5, <3>1, <3>2 DEF FirstInv
  <2>2. CASE stream # <<>>
    <3>1. Len(stream) >= 1
      BY <1>2, <2>2
    <3>2. stream'[1] = stream[1] /\ stream' # <<>>
      BY <1>6, <3>1
    <3> QED
      BY <1>1, <2>2, <3>2 DEF IInv, FirstInv
  <2> QED
    BY <2>1, <2>2
<1>12. TypeOK'
  BY <1>1, <1>6, <1>7 DEF IInv, TypeOK, Items
<1>13. Accepted' /\ ~ lost'
  BY <1>1 DEF IInv, Accepted, MaxOf
<1> QED
  BY <1>8, <1>9, <1>10, <1>11, <1>12, <1>13 DEF IInv

(* Taking the first item off the stream keeps the rest in order. *)
LEMMA TailStream ==
  ASSUME IInv, stream # <<>>, stream' = Tail(stream), device' = device
  PROVE  /\ stream' \in Seq(Items) /\ HeadInv' /\ TailInv' /\ Head(stream) = stream[1]
         /\ stream[1] \in Items
         /\ stream' # <<>> => 2 <= Len(stream) /\ stream'[1] = stream[2]
         /\ stream' = <<>> => Len(stream) = 1
<1>1. stream \in Seq(Items) /\ Len(stream) \in Nat /\ Len(stream) > 0
  BY DEF IInv, TypeOK, Items
<1>2. /\ stream' \in Seq(Items) /\ Len(stream') = Len(stream) - 1
      /\ \A i \in 1..Len(stream') : stream'[i] = stream[i+1]
  BY <1>1
<1>3. HeadInv'
  BY <1>1, <1>2 DEF IInv, HeadInv
<1>4. TailInv'
  BY <1>1, <1>2 DEF IInv, TailInv
<1>5. Head(stream) = stream[1] /\ stream[1] \in Items
  BY <1>1
<1>6. ASSUME stream' # <<>> PROVE 2 <= Len(stream) /\ stream'[1] = stream[2]
  BY <1>1, <1>2, <1>6
<1>7. ASSUME stream' = <<>> PROVE Len(stream) = 1
  <2>1. Len(<<>>) = 0
    OBVIOUS
  <2>2. Len(stream') = 0
    BY <1>7, <2>1, Zenon
  <2> QED
    BY <1>1, <1>2, <2>2
<1> QED
  BY <1>2, <1>3, <1>4, <1>5, <1>6, <1>7

LEMMA ReadHeaderInv == ASSUME IInv, ReadHeader PROVE IInv'
<1> USE ConstantTypes
<1>1. /\ pc = "idle" /\ stream # <<>> /\ used' = used + HeaderSize /\ stream' = Tail(stream)
      /\ lost' = (lost \/ ~ Head(stream).head)
      /\ ph' = [type |-> Head(stream).type, len |-> Head(stream).len]
      /\ pc' = IF ph'.type \in PktHandles THEN "handle" ELSE "put"
      /\ UNCHANGED <<device, bound, pktchan, ended, by>>
  BY DEF ReadHeader, ends
<1>2. /\ stream' \in Seq(Items) /\ HeadInv' /\ TailInv' /\ Head(stream) = stream[1] /\ stream[1] \in Items
      /\ stream' # <<>> => 2 <= Len(stream) /\ stream'[1] = stream[2]
      /\ stream' = <<>> => Len(stream) = 1
  BY <1>1, TailStream
<1>3. stream \in Seq(Items) /\ 1 \in 1..Len(stream)
  BY <1>1 DEF IInv, TypeOK, Items
<1>4. stream[1].head
  BY <1>1 DEF IInv, FirstInv
<1>5. /\ 1 + 1 <= Len(stream) /\ ~ stream[1+1].head /\ stream[1+1].len = stream[1].len
      /\ Sound(device, stream[1].type, stream[1].len)
  BY <1>3, <1>4 DEF IInv, HeadInv
<1>6. pc' = "handle" /\ ph'.type = stream[1].type /\ ph'.len = stream[1].len /\ used' = HeaderSize
  <2>1. stream[1].type \in PktHandles
    BY <1>5 DEF Sound, PktHandles
  <2>2. used = 0
    BY <1>1 DEF IInv, TypeOK
  <2>3. ph' = [type |-> stream[1].type, len |-> stream[1].len]
    BY <1>1, <1>2
  <2> QED
    BY <1>1, <2>1, <2>2, <2>3
<1>7. FirstInv'
  <2>1. stream' # <<>> /\ stream'[1] = stream[2]
    BY <1>2, <1>3, <1>5
  <2> QED
    BY <1>1, <1>5, <1>6, <2>1 DEF FirstInv
<1>8. ~ lost' /\ lost' \in BOOLEAN
  BY <1>1, <1>2, <1>4, Zenon DEF IInv
<1>9. TypeOK'
  <2>1. ph' \in Headers
    BY <1>1, <1>2 DEF Headers, Items
  <2>2. used' \in 0..BufSize
    BY <1>6
  <2> QED
    BY <1>1, <1>2, <1>6, <1>8, <2>1, <2>2 DEF IInv, TypeOK, Items
<1>10. QueueInv' /\ Accepted'
  BY <1>1 DEF IInv, QueueInv, Accepted, MaxOf
<1> QED
  BY <1>2, <1>7, <1>8, <1>9, <1>10 DEF IInv

LEMMA RejectInv == ASSUME IInv, Reject PROVE IInv'
<1>1. /\ pc = "handle" /\ ~ LengthFits(ph) /\ ended' = "rejected" /\ by' = ph
      /\ UNCHANGED <<device, bound, pktchan, stream, used, ph, pc, lost>>
  BY DEF Reject, receiver, ends
<1>2. Sound(device, ph.type, ph.len)
  BY <1>1 DEF IInv, FirstInv
<1>3. ph \in [type : Types, len : Nat]
  <2>1. ph \in Headers
    BY DEF IInv, TypeOK
  <2> QED
    BY <1>2, <2>1, ConstantTypes DEF Headers, Sound
<1>4. Accepted'
  <2>1. device \in Kinds /\ bound \in Kinds
    BY DEF IInv, TypeOK
  <2>2. ~ (ph.len <= MaxOf(bound) /\ (ph.type = "UserData" => MinOf(bound) <= ph.len))
    BY <1>1 DEF LengthFits
  <2>3. CASE ph.type = "UserData"
    BY <1>1, <1>2, <2>2, <2>3 DEF Accepted, Sound
  <2>4. CASE ph.type \in {"HearbeatReq", "HearbeatRpl"}
    BY <1>2, <2>1, <2>2, <2>4, ConstantTypes DEF Sound
  <2>5. CASE ph.type = "FdbIdsMsg"
    <3>1. ph.len > MaxOf(bound)
      BY <1>3, <2>1, <2>2, <2>5, ConstantTypes
    <3> QED
      BY <1>1, <2>5, <3>1 DEF Accepted, MaxOf
  <2> QED
    BY <1>2, <2>3, <2>4, <2>5 DEF Sound, Types
<1>5. TypeOK'
  BY <1>1, <1>3 DEF IInv, TypeOK
<1> QED
  BY <1>1, <1>4, <1>5 DEF IInv, QueueInv, HeadInv, TailInv, FirstInv

LEMMA ReadPayloadInv == ASSUME IInv, ReadPayload PROVE IInv'
<1> USE ConstantTypes
<1>1. pc = "handle" /\ LengthFits(ph) /\ stream # <<>> /\ UNCHANGED <<device, bound, pktchan, ph>>
  BY DEF ReadPayload, ends
<1>2. used = HeaderSize /\ ph.len \in Nat /\ ph.len <= MaxSize
  <2>1. used = HeaderSize /\ ph.len \in Nat /\ bound \in Kinds
    BY <1>1 DEF IInv, FirstInv, TypeOK, Headers
  <2>2. ph.len <= MaxOf(bound)
    BY <1>1 DEF LengthFits
  <2> QED
    BY <2>1, <2>2
<1>3. /\ used' = used + ph.len /\ stream' = Tail(stream) /\ pc' = "put"
      /\ lost' = (lost \/ Head(stream).head \/ Head(stream).len # ph.len)
      /\ UNCHANGED <<ended, by>>
  BY <1>1, <1>2 DEF ReadPayload
<1>4. /\ stream' \in Seq(Items) /\ HeadInv' /\ TailInv' /\ Head(stream) = stream[1] /\ stream[1] \in Items
      /\ stream' # <<>> => 2 <= Len(stream) /\ stream'[1] = stream[2]
      /\ stream' = <<>> => Len(stream) = 1
  BY <1>1, <1>3, TailStream
<1>5. ~ stream[1].head /\ stream[1].len = ph.len
  BY <1>1 DEF IInv, FirstInv
<1>6. ~ lost' /\ lost' \in BOOLEAN
  BY <1>3, <1>4, <1>5, Zenon DEF IInv
<1>7. FirstInv'
  <2>1. stream \in Seq(Items)
    BY DEF IInv, TypeOK, Items
  <2>2. 1 + 1 <= Len(stream) => stream[1+1].head
    BY <1>1, <1>5, <2>1 DEF IInv, TailInv
  <2> QED
    BY <1>3, <1>4, <2>2 DEF FirstInv
<1>8. TypeOK'
  <2>1. used' \in 0..BufSize
    BY <1>2, <1>3
  <2> QED
    BY <1>1, <1>3, <1>4, <1>6, <2>1 DEF IInv, TypeOK, Items
<1>9. QueueInv' /\ Accepted'
  BY <1>1, <1>3 DEF IInv, QueueInv, Accepted, MaxOf
<1> QED
  BY <1>4, <1>6, <1>7, <1>8, <1>9 DEF IInv

LEMMA PutPktBufInv == ASSUME IInv, PutPktBuf PROVE IInv'
<1> USE ConstantTypes
<1>1. /\ pc = "put" /\ pc' = "idle" /\ used' = 0 /\ ph' = NoHeader
      /\ UNCHANGED <<device, bound, pktchan, stream, lost, ended, by>>
  BY DEF PutPktBuf, Fresh, ends
<1>2. TypeOK'
  BY <1>1 DEF IInv, TypeOK, NoHeader, Headers
<1> QED
  BY <1>1, <1>2 DEF IInv, QueueInv, HeadInv, TailInv, FirstInv, Accepted, MaxOf

LEMMA CutInv == ASSUME IInv, Cut PROVE IInv'
<1>1. ended' = "cut" /\ UNCHANGED <<device, bound, pktchan, stream, used, ph, pc, lost, by>>
  BY DEF Cut, receiver, ends
<1> QED
  BY <1>1 DEF IInv, TypeOK, QueueInv, HeadInv, TailInv, FirstInv, Accepted, MaxOf

LEMMA StepInv == IInv /\ [Next]_vars => IInv'
<1> SUFFICES ASSUME IInv, [Next]_vars PROVE IInv'
  OBVIOUS
<1>1. CASE TunRead
  <2>1. PICK n \in Lens : TunRange(n) /\ Assemble("UserData", n)
    BY <1>1 DEF TunRead
  <2> QED
    BY <2>1, AssembleInv, ConstantTypes DEF TunRange, Types, Sound
<1>2. CASE SendHeartBeat
  <2>1. PICK t \in {"HearbeatReq", "HearbeatRpl"} : Assemble(t, HbLen)
    BY <1>2 DEF SendHeartBeat
  <2> QED
    BY <2>1, AssembleInv, ConstantTypes DEF Types, Sound
<1>3. CASE ReportFdbMsg
  <2>1. PICK k \in IdCounts : Assemble("FdbIdsMsg", 2 * k)
    BY <1>3 DEF ReportFdbMsg
  <2>2. 2 * k \in Nat
    BY <2>1, ConstantTypes
  <2> QED
    BY <2>1, <2>2, AssembleInv DEF Types, Sound
<1>4. CASE UNCHANGED vars
  BY <1>4 DEF vars, ends, receiver, IInv, TypeOK, QueueInv, HeadInv, TailInv, FirstInv, Accepted, MaxOf
<1> QED
  BY <1>1, <1>2, <1>3, <1>4, WriteInv, CutInv, ReadHeaderInv, RejectInv, ReadPayloadInv, PutPktBufInv DEF Next

LEMMA InvIsInvariant == Spec => []IInv
BY InitInv, StepInv, PTL DEF Spec
-----------------------------------------------------------------------------
(* encode.go:41, conn.go:57: the receiver takes a header where one was     *)
(* written, and all of its payload, whatever is sent and however long the  *)
(* connection lives.                                                       *)
THEOREM StaysInStep == Spec => []InStep
<1>1. IInv => InStep
  BY DEF IInv, InStep
<1> QED
  BY <1>1, InvIsInvariant, PTL

(* client.go:424 and 476, vid.go:207, pktpool.go:107 and 122: what ends a  *)
(* connection or a process is a report of too many FDBs or, at a receiver  *)
(* with the limits of another kind of device than the sender's, a packet.  *)
THEOREM LengthsAccepted == Spec => []Accepted
<1>1. IInv => Accepted
  BY DEF IInv
<1> QED
  BY <1>1, InvIsInvariant, PTL

(* pktpool.go:43: a frame begins at the first byte of its buffer. *)
THEOREM TypeCorrect == Spec => []TypeOK
<1>1. IInv => TypeOK
  BY DEF IInv
<1> QED
  BY <1>1, InvIsInvariant, PTL
-----------------------------------------------------------------------------
(* PktBuf.  Who has counted the last reference down and is about to return *)
(* the buffer to the pool.                                                 *)
LastOn(b) == {g \in PB!Procs : PB!At(g, "last") /\ hand[g] = b}

(* Every reference is counted; who counted to 0 is alone with the buffer.  *)
Counted(b) ==
  /\ b \in pool => ref[b] = 0 /\ PB!Places(b) = {}
  /\ LastOn(b) = {} => PB!Holders(b) <= ref[b]
  /\ LastOn(b) # {} => ref[b] = 0 /\ PB!Holders(b) <= 1

CountInv == \A b \in Bufs : Counted(b)

BufInv == PB!TypeOK /\ CountInv
-----------------------------------------------------------------------------
(* The instance PB has operators of FiniteSets of its own. *)
LEMMA SameFinite ==
  ASSUME NEW S
  PROVE  PB!IsFiniteSet(S) = IsFiniteSet(S) /\ PB!Cardinality(S) = Cardinality(S)
BY DEF PB!IsFiniteSet, IsFiniteSet, PB!Cardinality, Cardinality

LEMMA HoldersAre ==
  ASSUME NEW b
  PROVE  PB!Holders(b) = Cardinality(PB!Places(b)) /\ PB!Holders(b)' = Cardinality(PB!Places(b)')
BY SameFinite DEF PB!Holders

LEMMA PktBufConstants ==
  /\ ChanSize \in Nat /\ ChanSize > 0 /\ IsFiniteSet(PB!Procs) /\ IsFiniteSet(PB!Queues)
  /\ None \notin Bufs /\ Crypted \subseteq Clients /\ IsFiniteSet(Clients)
  /\ Recv \notin Clients /\ Stat \notin Clients /\ Recv # Stat
  /\ Sources \cap PB!Queues = {} /\ \A l \in PB!Labels : l \notin PB!Queues
<1>1. PB!PktBufAssumption /\ IsFiniteSet(Sources) /\ IsFiniteSet(Clients)
  BY ConnectionAssumption, SameFinite DEF PB!PktBufAssumption
<1>2. IsFiniteSet(Clients \cup {Recv, Stat})
  <2>1. IsFiniteSet(Clients \cup {Recv})
    BY <1>1, FS_AddElement
  <2>2. IsFiniteSet((Clients \cup {Recv}) \cup {Stat})
    BY <2>1, FS_AddElement
  <2>3. (Clients \cup {Recv}) \cup {Stat} = Clients \cup {Recv, Stat}
    OBVIOUS
  <2>4. QED
    BY <2>2, <2>3
<1>3. IsFiniteSet(Sources \cup (Clients \cup {Recv, Stat}))
  BY <1>1, <1>2, FS_Union
<1>4. QED
  BY <1>1, <1>2, <1>3 DEF PB!PktBufAssumption, PB!Queues, PB!Procs

LEMMA PlacesFinite ==
  ASSUME NEW b
  PROVE  /\ IsFiniteSet(PB!Places(b)) /\ PB!Holders(b) \in Nat
         /\ IsFiniteSet(PB!Places(b)') /\ PB!Holders(b)' \in Nat
<1>1. IsFiniteSet(PB!Procs \X (-1 .. ChanSize))
  <2>1. IsFiniteSet(-1 .. ChanSize)
    BY PktBufConstants, FS_Interval
  <2>2. QED
    BY <2>1, PktBufConstants, FS_Product
<1>2. PB!Places(b) \subseteq PB!Procs \X (-1 .. ChanSize) /\ PB!Places(b)' \subseteq PB!Procs \X (-1 .. ChanSize)
  BY PktBufConstants DEF PB!Places, PB!Procs
<1>3. IsFiniteSet(PB!Places(b)) /\ IsFiniteSet(PB!Places(b)')
  BY <1>1, <1>2, FS_Subset
<1>4. QED
  BY <1>3, FS_CardinalityType, HoldersAre

(* A step that gives the buffer b to nobody and counts nothing. *)
Untouched(b) ==
  /\ ref'[b] = ref[b] /\ (b \in pool' <=> b \in pool)
  /\ LastOn(b)' = LastOn(b) /\ PB!Holders(b)' <= PB!Holders(b)

LEMMA UntouchedStep ==
  ASSUME PB!TypeOK, NEW b \in Bufs, Counted(b), Untouched(b)
  PROVE  Counted(b)'
<1>1. PB!Holders(b) \in Nat /\ PB!Holders(b)' \in Nat /\ IsFiniteSet(PB!Places(b)')
  BY PlacesFinite
<1>2. b \in pool' => PB!Places(b)' = {}
  <2>1. SUFFICES ASSUME b \in pool' PROVE PB!Places(b)' = {}
    OBVIOUS
  <2>2. PB!Places(b) = {}
    BY <2>1 DEF Untouched, Counted
  <2>3. PB!Holders(b) = 0
    BY <2>2, FS_EmptySet, HoldersAre
  <2>4. PB!Holders(b)' = 0
    BY <1>1, <2>3 DEF Untouched
  <2>5. QED
    BY <1>1, <2>4, FS_EmptySet, HoldersAre
<1>3. LastOn(b)' = {} => PB!Holders(b)' <= ref[b]
  <2>1. SUFFICES ASSUME LastOn(b)' = {} PROVE PB!Holders(b)' <= ref[b]
    OBVIOUS
  <2>2. PB!Holders(b) <= ref[b] /\ PB!Holders(b)' <= PB!Holders(b)
    BY <2>1 DEF Untouched, Counted
  <2>3. ref[b] \in Nat
    BY DEF PB!TypeOK
  <2>4. QED
    BY <1>1, <2>2, <2>3
<1>4. LastOn(b)' # {} => ref[b] = 0 /\ PB!Holders(b)' <= 1
  BY <1>1 DEF Untouched, Counted
<1>5. QED
  BY <1>2, <1>3, <1>4 DEF Untouched, Counted
-----------------------------------------------------------------------------
(* The goroutine that works on a buffer has one. *)
LEMMA HandType ==
  ASSUME PB!TypeOK, NEW g \in PB!Procs, at[g] \notin {"idle", "gone"}
  PROVE  hand[g] \in Bufs /\ hand[g] # None
BY PktBufConstants DEF PB!TypeOK

(* Who has a buffer and is not about to return it to the pool is counted,  *)
(* and nobody else is about to.                                            *)
LEMMA HeldIsCounted ==
  ASSUME PB!TypeOK, CountInv, NEW g \in PB!Procs, hand[g] \in Bufs, at[g] # "last"
  PROVE  /\ LastOn(hand[g]) = {} /\ hand[g] \notin pool /\ <<g, 0>> \in PB!Places(hand[g])
         /\ 1 <= PB!Holders(hand[g]) /\ PB!Holders(hand[g]) <= ref[hand[g]]
         /\ ref[hand[g]] = 1 => PB!Places(hand[g]) = {<<g, 0>>}
<1> DEFINE b == hand[g]
<1>1. Counted(b) /\ ref[b] \in Nat
  BY DEF CountInv, PB!TypeOK
<1>2. IsFiniteSet(PB!Places(b)) /\ PB!Holders(b) \in Nat /\ PB!Holders(b) = Cardinality(PB!Places(b))
  BY PlacesFinite, HoldersAre
<1>3. <<g, 0>> \in PB!Places(b)
  BY DEF PB!Places
<1>4. PB!Holders(b) # 0
  BY <1>2, <1>3, FS_EmptySet
<1>5. ASSUME PB!Holders(b) <= 1 PROVE PB!Places(b) = {<<g, 0>>}
  <2>1. Cardinality(PB!Places(b)) = 1
    BY <1>2, <1>4, <1>5
  <2>2. \E x : PB!Places(b) = {x}
    BY <1>2, <2>1, FS_Singleton
  <2>3. QED
    BY <1>3, <2>2
<1>6. LastOn(b) = {}
  <2>1. SUFFICES ASSUME NEW h \in LastOn(b) PROVE FALSE
    OBVIOUS
  <2>2. <<h, 0>> \in PB!Places(b) /\ h # g
    BY <2>1 DEF LastOn, PB!Places, PB!At
  <2>3. PB!Holders(b) <= 1
    BY <1>1, <2>1 DEF Counted
  <2>4. QED
    BY <1>5, <2>2, <2>3
<1>7. PB!Holders(b) <= ref[b]
  BY <1>1, <1>6 DEF Counted
<1>8. b \notin pool
  BY <1>1, <1>3 DEF Counted
<1>9. QED
  BY <1>1, <1>2, <1>3, <1>4, <1>5, <1>6, <1>7, <1>8

LEMMA PktBufTypeStep == PB!TypeOK /\ CountInv /\ [PB!Next]_pktBuf => PB!TypeOK'
<1> SUFFICES ASSUME PB!TypeOK, CountInv, [PB!Next]_pktBuf PROVE PB!TypeOK'
  OBVIOUS
<1> USE PktBufConstants
<1>1. ASSUME NEW g \in PB!Procs, PB!GetPktFromPool(g) PROVE PB!TypeOK'
  BY <1>1 DEF PB!GetPktFromPool, PB!TypeOK, PB!At, PB!Goto, PB!Set, PB!Labels
<1>2. ASSUME NEW g \in PB!Procs, PB!Read(g) PROVE PB!TypeOK'
  <2>1. PICK S \in PB!Goals(g) : left' = PB!Set(left, g, S) /\ PB!Share(hand[g], S)
    BY <1>2 DEF PB!Read
  <2>2. S \subseteq PB!Queues
    BY DEF PB!Goals, PB!Queues
  <2>3. hand[g] \in Bufs
    BY <1>2, HandType DEF PB!Read, PB!At
  <2>4. left' \in [PB!Procs -> SUBSET PB!Queues] /\ shared' \subseteq Bufs
    BY <2>1, <2>2, <2>3 DEF PB!Share, PB!Set, PB!TypeOK
  <2>5. QED
    BY <1>2, <2>4 DEF PB!Read, PB!TypeOK, PB!At, PB!Goto, PB!Labels, PB!buf
<1>3. ASSUME NEW g \in PB!Procs, PB!ReadFails(g) \/ PB!PoolPut(g) PROVE PB!TypeOK'
  <2>1. hand[g] \in Bufs
    BY <1>3, HandType DEF PB!ReadFails, PB!PoolPut, PB!At
  <2>2. QED
    BY <1>3, <2>1 DEF PB!ReadFails, PB!PoolPut, PB!TypeOK, PB!At, PB!Goto, PB!Set, PB!Labels, PB!buf
<1>4. ASSUME NEW g \in PB!Procs, PB!Hold(g) PROVE PB!TypeOK'
  <2>1. PICK q \in left[g] \ {Recv} :
          /\ left' = PB!Set(left, g, left[g] \ {q})
          /\ IF q \in closed THEN UNCHANGED <<ref, at>>
             ELSE ref' = PB!HoldPktBuf(hand[g]) /\ PB!Goto(g, q)
    BY <1>4 DEF PB!Hold
  <2>2. hand[g] \in Bufs /\ q \in PB!Queues
    BY <1>4, <2>1, HandType DEF PB!Hold, PB!At, PB!TypeOK
  <2>3. ref' \in [Bufs -> Nat] /\ left' \in [PB!Procs -> SUBSET PB!Queues]
    <3>1. left[g] \ {q} \in SUBSET PB!Queues
      BY DEF PB!TypeOK
    <3>2. left' \in [PB!Procs -> SUBSET PB!Queues]
      <4>1. left \in [PB!Procs -> SUBSET PB!Queues]
        BY DEF PB!TypeOK
      <4>2. QED
        BY <2>1, <3>1, <4>1 DEF PB!Set
    <3>3. ref' \in [Bufs -> Nat]
      <4>1. ref \in [Bufs -> Nat]
        BY DEF PB!TypeOK
      <4>2. QED
        BY <2>1, <2>2, <4>1 DEF PB!HoldPktBuf, PB!Set
    <3>4. QED
      BY <3>2, <3>3
  <2>4. at' \in [PB!Procs -> PB!Labels \cup PB!Queues] /\ \A h \in PB!Procs : hand[h] = None <=> at'[h] \in {"idle", "gone"}
    <3>1. CASE q \in closed
      BY <2>1, <3>1 DEF PB!TypeOK
    <3>2. CASE q \notin closed
      <4>1. at[g] = "fwd" /\ at' = [at EXCEPT ![g] = q] /\ q \notin {"idle", "gone"}
        BY <1>4, <2>1, <2>2, <3>2 DEF PB!Hold, PB!At, PB!Goto, PB!Labels
      <4>2. QED
        BY <2>2, <4>1 DEF PB!TypeOK
    <3>3. QED
      BY <3>1, <3>2
  <2>5. QED
    BY <1>4, <2>3, <2>4 DEF PB!Hold, PB!TypeOK
<1>5. ASSUME NEW g \in PB!Procs, PB!PutToRecvQueue(g) PROVE PB!TypeOK'
  <2>1. hand[g] \in Bufs /\ Recv \in PB!Queues
    BY <1>5, HandType DEF PB!PutToRecvQueue, PB!At, PB!Queues
  <2>2. ref' \in [Bufs -> Nat] /\ left' \in [PB!Procs -> SUBSET PB!Queues]
    BY <1>5, <2>1 DEF PB!PutToRecvQueue, PB!HoldPktBuf, PB!Set, PB!TypeOK
  <2>3. at' \in [PB!Procs -> PB!Labels \cup PB!Queues] /\ \A h \in PB!Procs : hand[h] = None <=> at'[h] \in {"idle", "gone"}
    BY <1>5, <2>1 DEF PB!PutToRecvQueue, PB!At, PB!Goto, PB!TypeOK, PB!Labels
  <2>4. QED
    BY <1>5, <2>2, <2>3 DEF PB!PutToRecvQueue, PB!TypeOK
<1>6. ASSUME NEW g \in PB!Procs, PB!Send(g) PROVE PB!TypeOK'
  <2>1. PICK q \in PB!Queues \ closed :
          /\ PB!At(g, q) /\ Len(queue[q]) < ChanSize /\ PB!Goto(g, "fwd")
          /\ queue' = PB!Set(queue, q, Append(queue[q], hand[g]))
    BY <1>6 DEF PB!Send
  <2>2. hand[g] \in Bufs
    BY <2>1, HandType DEF PB!At, PB!Labels
  <2>3. queue' \in [PB!Queues -> Seq(Bufs)] /\ \A r \in PB!Queues : Len(queue'[r]) <= ChanSize
    BY <2>1, <2>2 DEF PB!Set, PB!TypeOK
  <2>4. at' \in [PB!Procs -> PB!Labels \cup PB!Queues] /\ \A h \in PB!Procs : hand[h] = None <=> at'[h] \in {"idle", "gone"}
    BY <2>1 DEF PB!At, PB!Goto, PB!TypeOK, PB!Labels
  <2>5. QED
    BY <1>6, <2>3, <2>4 DEF PB!Send, PB!TypeOK, PB!buf
<1>7. ASSUME NEW g \in PB!Procs, PB!ReleasePktBuf(g) PROVE PB!TypeOK'
  <2>1. hand[g] \in Bufs /\ at[g] \in {"put", "fwd"}
    BY <1>7, HandType DEF PB!ReleasePktBuf, PB!At
  <2>2. ref[hand[g]] - 1 \in Nat
    <3>1. ref[hand[g]] \in Nat
      BY <2>1 DEF PB!TypeOK
    <3>2. PB!Holders(hand[g]) \in Nat
      BY PlacesFinite
    <3>3. 1 <= PB!Holders(hand[g]) /\ PB!Holders(hand[g]) <= ref[hand[g]]
      BY <2>1, HeldIsCounted
    <3>4. QED
      BY <3>1, <3>2, <3>3
  <2>3. ref' \in [Bufs -> Nat]
    BY <1>7, <2>1, <2>2 DEF PB!ReleasePktBuf, PB!Set, PB!TypeOK
  <2>4. hand' \in [PB!Procs -> Bufs \cup {None}] /\ at' \in [PB!Procs -> PB!Labels \cup PB!Queues]
        /\ \A h \in PB!Procs : hand'[h] = None <=> at'[h] \in {"idle", "gone"}
    BY <1>7, <2>1 DEF PB!ReleasePktBuf, PB!At, PB!Goto, PB!Set, PB!TypeOK, PB!Labels
  <2>5. QED
    BY <1>7, <2>3, <2>4 DEF PB!ReleasePktBuf, PB!TypeOK
<1>8. ASSUME NEW q \in PB!Queues, PB!At(q, "idle"), queue[q] # <<>>,
             hand' = PB!Set(hand, q, Head(queue[q])), queue' = PB!Set(queue, q, Tail(queue[q])),
             NEW l \in PB!Labels \ {"idle", "gone"}, PB!Goto(q, l)
      PROVE  /\ queue' \in [PB!Queues -> Seq(Bufs)] /\ \A r \in PB!Queues : Len(queue'[r]) <= ChanSize
             /\ hand' \in [PB!Procs -> Bufs \cup {None}] /\ at' \in [PB!Procs -> PB!Labels \cup PB!Queues]
             /\ \A h \in PB!Procs : hand'[h] = None <=> at'[h] \in {"idle", "gone"}
  <2>1. queue[q] \in Seq(Bufs) /\ Len(queue[q]) <= ChanSize
    BY DEF PB!TypeOK
  <2>2. Head(queue[q]) \in Bufs /\ Tail(queue[q]) \in Seq(Bufs) /\ Len(Tail(queue[q])) <= ChanSize
    BY <1>8, <2>1
  <2>3. QED
    BY <1>8, <2>2 DEF PB!Set, PB!Goto, PB!TypeOK, PB!Procs
<1>9. ASSUME NEW c \in Clients, PB!WriterTake(c) PROVE PB!TypeOK'
  <2>1. c \in PB!Queues /\ (IF c \in Crypted THEN "encrypt" ELSE "write") \in PB!Labels \ {"idle", "gone"}
    BY DEF PB!Queues, PB!Labels
  <2>2. QED
    BY <1>9, <1>8, <2>1 DEF PB!WriterTake, PB!TypeOK, PB!buf
<1>10. CASE PB!StatTake
  <2>1. Stat \in PB!Queues /\ "look" \in PB!Labels \ {"idle", "gone"}
    BY DEF PB!Queues, PB!Labels
  <2>2. QED
    BY <1>10, <1>8, <2>1 DEF PB!StatTake, PB!TypeOK, PB!buf
<1>11. CASE PB!RecvTake
  <2>1. Recv \in PB!Queues /\ "fwd" \in PB!Labels \ {"idle", "gone"} /\ Recv \in PB!Procs
    BY DEF PB!Queues, PB!Labels, PB!Procs
  <2>2. PICK S \in PB!Goals(Recv) : left' = PB!Set(left, Recv, S) /\ PB!Share(Head(queue[Recv]), S)
    BY <1>11 DEF PB!RecvTake
  <2>3. S \subseteq PB!Queues
    BY DEF PB!Goals, PB!Queues
  <2>4. Head(queue[Recv]) \in Bufs
    BY <1>11, <2>1 DEF PB!RecvTake, PB!TypeOK
  <2>5. left' \in [PB!Procs -> SUBSET PB!Queues] /\ shared' \subseteq Bufs
    BY <2>1, <2>2, <2>3, <2>4 DEF PB!Set, PB!Share, PB!TypeOK
  <2>6. QED
    BY <1>11, <1>8, <2>1, <2>5 DEF PB!RecvTake, PB!TypeOK, PB!buf
<1>12. CASE PB!StatRelease
  <2>1. Stat \in PB!Procs
    BY DEF PB!Procs, PB!Queues
  <2>2. hand[Stat] \in Bufs /\ at[Stat] = "look"
    BY <1>12, <2>1, HandType DEF PB!StatRelease, PB!At
  <2>3. ref[hand[Stat]] - 1 \in Nat
    <3>1. ref[hand[Stat]] \in Nat
      BY <2>2 DEF PB!TypeOK
    <3>2. PB!Holders(hand[Stat]) \in Nat
      BY PlacesFinite
    <3>3. 1 <= PB!Holders(hand[Stat]) /\ PB!Holders(hand[Stat]) <= ref[hand[Stat]]
      BY <2>1, <2>2, HeldIsCounted
    <3>4. QED
      BY <3>1, <3>2, <3>3
  <2>4. QED
    BY <1>12, <2>1, <2>2, <2>3 DEF PB!StatRelease, PB!StatDec, PB!Set, PB!At, PB!Goto, PB!TypeOK, PB!Labels
<1>13. ASSUME NEW c \in Clients, PB!Encrypt(c) \/ PB!Mark(c) PROVE PB!TypeOK'
  <2>1. c \in PB!Procs
    BY DEF PB!Procs, PB!Queues
  <2>2. hand[c] \in Bufs
    BY <1>13, <2>1, HandType DEF PB!Encrypt, PB!Mark, PB!At
  <2>3. enc' \in [Bufs -> Nat]
    BY <1>13, <2>2 DEF PB!Encrypt, PB!Mark, PB!Set, PB!TypeOK
  <2>4. marked' \in [Bufs -> BOOLEAN]
    BY <1>13, <2>2 DEF PB!Encrypt, PB!Mark, PB!Set, PB!TypeOK
  <2>5. at' \in [PB!Procs -> PB!Labels \cup PB!Queues] /\ \A h \in PB!Procs : hand[h] = None <=> at'[h] \in {"idle", "gone"}
    BY <1>13, <2>1 DEF PB!Encrypt, PB!Mark, PB!At, PB!Goto, PB!TypeOK, PB!Labels
  <2>6. QED
    BY <1>13, <2>3, <2>4, <2>5 DEF PB!Encrypt, PB!Mark, PB!TypeOK
<1>14. ASSUME NEW c \in Clients, PB!WriteOk(c) \/ PB!Written(c) \/ PB!Close(c) PROVE PB!TypeOK'
  <2>1. c \in PB!Procs
    BY DEF PB!Procs, PB!Queues
  <2>2. at[c] = "write" => hand[c] \in Bufs
    BY <2>1, HandType
  <2>3. sent' \in [Clients -> [enc : Nat, marked : BOOLEAN]]
    <3>1. CASE PB!WriteOk(c)
      <4>1. sent' = [sent EXCEPT ![c] = [enc |-> enc[hand[c]], marked |-> marked[hand[c]]]]
        BY <3>1 DEF PB!WriteOk, PB!Set
      <4>2. enc[hand[c]] \in Nat /\ marked[hand[c]] \in BOOLEAN
        BY <2>2, <3>1 DEF PB!WriteOk, PB!At, PB!TypeOK
      <4>3. sent \in [Clients -> [enc : Nat, marked : BOOLEAN]]
        BY DEF PB!TypeOK
      <4>4. QED
        BY <4>1, <4>2, <4>3
    <3>2. CASE PB!Written(c) \/ PB!Close(c)
      <4>1. sent' = sent \/ sent' = [sent EXCEPT ![c] = PB!Silent]
        BY <3>2 DEF PB!Written, PB!Close, PB!Set
      <4>2. sent \in [Clients -> [enc : Nat, marked : BOOLEAN]]
        BY DEF PB!TypeOK
      <4>3. PB!Silent \in [enc : Nat, marked : BOOLEAN]
        BY DEF PB!Silent
      <4>4. QED
        BY <4>1, <4>2, <4>3
    <3>3. QED
      BY <1>14, <3>1, <3>2
  <2>4. QED
    BY <1>14, <2>1, <2>3 DEF PB!WriteOk, PB!Written, PB!Close, PB!At, PB!Goto, PB!TypeOK, PB!Labels, PB!buf
<1>15. ASSUME NEW c \in Clients, PB!WriteFails(c) PROVE PB!TypeOK'
  <2>1. c \in PB!Procs /\ c \in PB!Queues
    BY DEF PB!Procs, PB!Queues
  <2>2. queue' \in [PB!Queues -> Seq(Bufs)] /\ \A r \in PB!Queues : Len(queue'[r]) <= ChanSize
    BY <1>15, <2>1 DEF PB!WriteFails, PB!Set, PB!TypeOK
  <2>3. QED
    BY <1>15, <2>1, <2>2 DEF PB!WriteFails, PB!Set, PB!At, PB!Goto, PB!TypeOK, PB!Labels, PB!buf
<1>16. ASSUME NEW b \in Bufs, PB!Collect(b) PROVE PB!TypeOK'
  BY <1>16 DEF PB!Collect, PB!Set, PB!TypeOK
<1>17. CASE UNCHANGED pktBuf
  BY <1>17 DEF pktBuf, PB!TypeOK
<1>18. QED
  BY <1>1, <1>2, <1>3, <1>4, <1>5, <1>6, <1>7, <1>9, <1>10, <1>11, <1>12, <1>13, <1>14, <1>15, <1>16, <1>17
     DEF PB!Next
-----------------------------------------------------------------------------
LEMMA FewerPlaces ==
  ASSUME NEW b, PB!Places(b)' \subseteq PB!Places(b)
  PROVE  PB!Holders(b)' <= PB!Holders(b)
BY PlacesFinite, HoldersAre, FS_Subset

(* References that move to other places are not more than before. *)
LEMMA MovedPlaces ==
  ASSUME NEW b, NEW f \in [PB!Places(b)' -> PB!Places(b)],
         \A p, r \in PB!Places(b)' : f[p] = f[r] => p = r
  PROVE  PB!Holders(b)' <= PB!Holders(b)
<1>1. f \in Injection(PB!Places(b)', PB!Places(b))
  BY DEF Injection, IsInjective
<1>2. QED
  BY <1>1, PlacesFinite, HoldersAre, FS_Injection

LEMMA PlaceIs ==
  ASSUME NEW b, NEW g, NEW i
  PROVE  /\ <<g, i>> \in PB!Places(b) <=>
              \/ g \in PB!Procs /\ i \in {0, -1} /\ hand[g] = b /\ (i = 0 \/ at[g] \in PB!Queues)
              \/ g \in PB!Queues /\ i \in 1 .. ChanSize /\ i <= Len(queue[g]) /\ queue[g][i] = b
         /\ <<g, i>> \in PB!Places(b)' <=>
              \/ g \in PB!Procs /\ i \in {0, -1} /\ hand'[g] = b /\ (i = 0 \/ at'[g] \in PB!Queues)
              \/ g \in PB!Queues /\ i \in 1 .. ChanSize /\ i <= Len(queue'[g]) /\ queue'[g][i] = b
BY DEF PB!Places

LEMMA NobodyLast ==
  ASSUME NEW b
  PROVE  (PB!Places(b) = {} => LastOn(b) = {}) /\ (PB!Places(b)' = {} => LastOn(b)' = {})
<1>1. \A g \in LastOn(b) : <<g, 0>> \in PB!Places(b)
  BY PlaceIs DEF LastOn
<1>2. \A g \in LastOn(b)' : <<g, 0>> \in PB!Places(b)'
  BY PlaceIs DEF LastOn
<1>3. QED
  BY <1>1, <1>2

LEMMA PlacesArePairs ==
  ASSUME NEW b
  PROVE  /\ PB!Places(b) \subseteq PB!Procs \X (-1 .. ChanSize)
         /\ PB!Places(b)' \subseteq PB!Procs \X (-1 .. ChanSize)
BY PktBufConstants DEF PB!Places, PB!Procs

(* A reader takes what is first in its channel: its references move up. *)
LEMMA TakeStep ==
  ASSUME PB!TypeOK, NEW q \in PB!Queues, PB!At(q, "idle"), queue[q] # <<>>,
         hand' = PB!Set(hand, q, Head(queue[q])), queue' = PB!Set(queue, q, Tail(queue[q])),
         NEW l \in PB!Labels \ {"idle", "gone", "last"}, PB!Goto(q, l),
         NEW b \in Bufs, ref' = ref, pool' = pool
  PROVE  Untouched(b)
<1>1. q \in PB!Procs /\ at[q] = "idle" /\ hand[q] = None /\ hand[q] # b
  BY PktBufConstants DEF PB!TypeOK, PB!At, PB!Procs
<1>2. /\ \A h \in PB!Procs \ {q} : hand'[h] = hand[h] /\ at'[h] = at[h]
      /\ \A r \in PB!Queues \ {q} : queue'[r] = queue[r]
      /\ hand'[q] = Head(queue[q]) /\ at'[q] = l /\ l \notin PB!Queues /\ queue'[q] = Tail(queue[q])
  BY <1>1, PktBufConstants DEF PB!TypeOK, PB!Set, PB!Goto
<1>3. queue[q] \in Seq(Bufs) /\ Len(queue[q]) \in 1 .. ChanSize
  BY PktBufConstants DEF PB!TypeOK
<1>4. LastOn(b)' = LastOn(b)
  BY <1>1, <1>2 DEF LastOn, PB!At
<1> DEFINE f == [p \in PB!Places(b)' |-> IF p[1] = q THEN <<q, p[2] + 1>> ELSE p]
<1>5. ASSUME NEW p \in PB!Places(b)' PROVE f[p] \in PB!Places(b)
  <2>1. PICK g \in PB!Procs, i \in -1 .. ChanSize : p = <<g, i>>
    BY <1>5, PlacesArePairs
  <2>2. CASE g # q
    BY <1>2, <1>5, <2>1, <2>2, PlaceIs
  <2>3. CASE g = q
    <3>1. f[p] = <<q, i + 1>>
      BY <1>5, <2>1, <2>3
    <3>2. i # -1
      BY <1>2, <1>5, <2>1, <2>3, PlaceIs
    <3>3. CASE i = 0
      <4>1. Head(queue[q]) = b
        BY <1>2, <1>3, <1>5, <2>1, <2>3, <3>3, PlaceIs
      <4>2. queue[q][1] = b /\ 1 <= Len(queue[q]) /\ 1 \in 1 .. ChanSize
        BY <1>3, <4>1, PktBufConstants
      <4>3. QED
        BY <3>1, <3>3, <4>2, PlaceIs
    <3>4. CASE i > 0
      <4>1. i <= Len(Tail(queue[q])) /\ Tail(queue[q])[i] = b
        <5>1. i <= Len(queue'[q]) /\ queue'[q][i] = b
          BY <1>5, <2>1, <2>3, <3>4, PktBufConstants, PlaceIs
        <5>2. QED
          BY <1>2, <5>1
      <4>2. i + 1 <= Len(queue[q]) /\ queue[q][i + 1] = b /\ i + 1 \in 1 .. ChanSize
        BY <1>3, <3>4, <4>1, PktBufConstants
      <4>3. QED
        BY <3>1, <4>2, PlaceIs
    <3>5. QED
      BY <2>1, <3>2, <3>3, <3>4, PktBufConstants
  <2>4. QED
    BY <2>2, <2>3
<1>6. ASSUME NEW p \in PB!Places(b)', NEW r \in PB!Places(b)', f[p] = f[r] PROVE p = r
  <2>1. p \in PB!Procs \X (-1 .. ChanSize) /\ r \in PB!Procs \X (-1 .. ChanSize)
    BY PlacesArePairs
  <2>2. QED
    BY <1>6, <2>1, PktBufConstants
<1>7. PB!Holders(b)' <= PB!Holders(b)
  <2>1. f \in [PB!Places(b)' -> PB!Places(b)]
    BY <1>5
  <2>2. QED
    BY <1>6, <2>1, MovedPlaces
<1>8. QED
  BY <1>4, <1>7 DEF Untouched

(* A goroutine sends: its reference moves to the end of the channel. *)
LEMMA SendStep ==
  ASSUME PB!TypeOK, NEW g \in PB!Procs, PB!Send(g), NEW b \in Bufs
  PROVE  Untouched(b)
<1>1. PICK q \in PB!Queues :
        /\ at[g] = q /\ Len(queue[q]) < ChanSize /\ at' = [at EXCEPT ![g] = "fwd"]
        /\ queue' = [queue EXCEPT ![q] = Append(queue[q], hand[g])]
  BY DEF PB!Send, PB!At, PB!Goto, PB!Set
<1>2. ref' = ref /\ pool' = pool /\ hand' = hand
  BY DEF PB!Send, PB!buf
<1>3. queue[q] \in Seq(Bufs) /\ Len(queue[q]) \in Nat /\ hand[g] \in Bufs
  <2>1. at[g] \notin {"idle", "gone"}
    BY <1>1, PktBufConstants DEF PB!Labels
  <2>2. QED
    BY <2>1, HandType DEF PB!TypeOK
<1>4. /\ \A h \in PB!Procs \ {g} : at'[h] = at[h]
      /\ at'[g] = "fwd" /\ "fwd" \notin PB!Queues /\ at[g] # "last"
      /\ \A r \in PB!Queues \ {q} : queue'[r] = queue[r]
      /\ queue'[q] = Append(queue[q], hand[g])
  BY <1>1, PktBufConstants DEF PB!TypeOK, PB!Labels
<1>5. LastOn(b)' = LastOn(b)
  BY <1>2, <1>4 DEF LastOn, PB!At
<1> DEFINE end == Len(queue[q]) + 1
           f == [p \in PB!Places(b)' |-> IF p = <<q, end>> THEN <<g, -1>> ELSE p]
<1>6. end \in 1 .. ChanSize
  BY <1>1, <1>3, PktBufConstants
<1>7. ASSUME NEW p \in PB!Places(b)' PROVE f[p] \in PB!Places(b)
  <2>1. PICK h \in PB!Procs, i \in -1 .. ChanSize : p = <<h, i>>
    BY <1>7, PlacesArePairs
  <2>2. CASE p = <<q, end>>
    <3>1. queue'[q][end] = b
      BY <1>6, <1>7, <2>2, PlaceIs
    <3>2. hand[g] = b
      BY <1>3, <1>4, <3>1
    <3>3. QED
      BY <1>1, <2>2, <3>2, PlaceIs
  <2>3. CASE p # <<q, end>>
    <3>1. CASE i \in {0, -1}
      BY <1>2, <1>4, <1>7, <2>1, <2>3, <3>1, PlaceIs
    <3>2. CASE i \in 1 .. ChanSize /\ h = q
      <4>1. i <= Len(queue'[q]) /\ queue'[q][i] = b
        BY <1>7, <2>1, <3>2, PlaceIs
      <4>2. i <= Len(queue[q]) /\ queue[q][i] = b
        BY <1>3, <1>4, <2>1, <2>3, <3>2, <4>1
      <4>3. QED
        BY <2>1, <2>3, <3>2, <4>2, PlaceIs
    <3>3. CASE i \in 1 .. ChanSize /\ h # q
      BY <1>4, <1>7, <2>1, <2>3, <3>3, PlaceIs
    <3>4. QED
      BY <3>1, <3>2, <3>3, PktBufConstants
  <2>4. QED
    BY <2>2, <2>3
<1>8. <<g, -1>> \notin PB!Places(b)'
  BY <1>4, PlaceIs
<1>9. ASSUME NEW p \in PB!Places(b)', NEW r \in PB!Places(b)', f[p] = f[r] PROVE p = r
  BY <1>8, <1>9
<1>10. PB!Holders(b)' <= PB!Holders(b)
  <2>1. f \in [PB!Places(b)' -> PB!Places(b)]
    BY <1>7
  <2>2. QED
    BY <1>9, <2>1, MovedPlaces
<1>11. QED
  BY <1>2, <1>5, <1>10 DEF Untouched

(* A step that leaves channels, hands and counts alone. *)
LEMMA RestStep ==
  ASSUME PB!TypeOK, NEW g \in PB!Procs, NEW k, NEW l, at[g] = k, at' = [at EXCEPT ![g] = l],
         k \notin PB!Queues, l \notin PB!Queues, k # "last", l # "last",
         UNCHANGED <<ref, pool, hand, queue>>, NEW b \in Bufs
  PROVE  Untouched(b)
<1>1. PB!Places(b)' = PB!Places(b) /\ LastOn(b)' = LastOn(b)
  BY DEF PB!Places, LastOn, PB!At, PB!TypeOK
<1>2. QED
  BY <1>1, FewerPlaces DEF Untouched

(* A goroutine drops its buffer without a count, and perhaps its channel. *)
LEMMA DropStep ==
  ASSUME PB!TypeOK, NEW g \in PB!Procs, at[g] # "last", NEW l \in {"idle", "gone"},
         at' = [at EXCEPT ![g] = l], hand' = [hand EXCEPT ![g] = None], UNCHANGED <<ref, pool>>,
         queue' = queue \/ (g \in PB!Queues /\ queue' = [queue EXCEPT ![g] = <<>>]), NEW b \in Bufs
  PROVE  Untouched(b)
<1>1. l \notin PB!Queues /\ b # None /\ l # "last"
  BY PktBufConstants DEF PB!Labels
<1>2. PB!Places(b)' \subseteq PB!Places(b) /\ LastOn(b)' = LastOn(b)
  BY <1>1, PktBufConstants DEF PB!Places, LastOn, PB!At, PB!TypeOK
<1>3. QED
  BY <1>2, FewerPlaces DEF Untouched

(* A goroutine counts its buffer for a channel. *)
LEMMA HoldStep ==
  ASSUME PB!TypeOK, CountInv, NEW g \in PB!Procs, at[g] = "fwd", NEW q \in PB!Queues,
         ref' = PB!HoldPktBuf(hand[g]), at' = at \/ at' = [at EXCEPT ![g] = q],
         UNCHANGED <<pool, hand, queue>>, NEW b \in Bufs
  PROVE  Counted(b)'
<1>1. hand[g] \in Bufs /\ at[g] # "last"
  BY HandType
<1>2. q # "last" /\ "fwd" \notin PB!Queues
  BY PktBufConstants DEF PB!Labels
<1>3. LastOn(b)' = LastOn(b) /\ PB!Places(b)' \subseteq PB!Places(b) \cup {<<g, -1>>}
  BY <1>1, <1>2 DEF LastOn, PB!At, PB!Places, PB!TypeOK
<1>4. CASE b # hand[g]
  <2>1. PB!Places(b)' \subseteq PB!Places(b)
    BY <1>4, <1>3 DEF PB!Places, PB!TypeOK
  <2>2. ref'[b] = ref[b]
    BY <1>1, <1>4 DEF PB!HoldPktBuf, PB!Set, PB!TypeOK
  <2>3. Untouched(b)
    BY <1>3, <2>1, <2>2, FewerPlaces DEF Untouched
  <2>4. QED
    BY <2>3, UntouchedStep DEF CountInv
<1>5. CASE b = hand[g]
  <2>1. ref'[b] = ref[b] + 1 /\ ref[b] \in Nat
    BY <1>1, <1>5 DEF PB!HoldPktBuf, PB!Set, PB!TypeOK
  <2>2. LastOn(b) = {} /\ b \notin pool /\ PB!Holders(b) <= ref[b]
    BY <1>1, <1>5, HeldIsCounted
  <2>3. PB!Holders(b)' <= PB!Holders(b) + 1
    <3> DEFINE P == PB!Places(b)
    <3>0. IsFiniteSet(PB!Places(b)) /\ Cardinality(PB!Places(b)) \in Nat
          /\ IsFiniteSet(PB!Places(b)') /\ Cardinality(PB!Places(b)') \in Nat
      BY PlacesFinite, FS_CardinalityType
    <3>1. IsFiniteSet(P \cup {<<g, -1>>}) /\ Cardinality(P \cup {<<g, -1>>}) <= Cardinality(P) + 1
      <4>1. IsFiniteSet(P) /\ Cardinality(P) \in Nat
        BY <3>0
      <4> HIDE DEF P
      <4>2. /\ IsFiniteSet(P \cup {<<g, -1>>})
            /\ Cardinality(P \cup {<<g, -1>>}) = IF <<g, -1>> \in P THEN Cardinality(P) ELSE Cardinality(P) + 1
        BY <4>1, FS_AddElement
      <4>3. QED
        BY <4>1, <4>2
    <3>2. Cardinality(PB!Places(b)') <= Cardinality(PB!Places(b) \cup {<<g, -1>>})
      BY <1>3, <3>1, FS_Subset
    <3>3. Cardinality(PB!Places(b) \cup {<<g, -1>>}) \in Nat
      BY <3>1, FS_CardinalityType
    <3>4. QED
      BY <3>0, <3>1, <3>2, <3>3, HoldersAre
  <2>4. PB!Holders(b) \in Nat /\ PB!Holders(b)' \in Nat
    BY PlacesFinite
  <2>5. PB!Holders(b)' <= ref'[b]
    BY <2>1, <2>2, <2>3, <2>4
  <2>6. QED
    BY <1>3, <2>2, <2>5 DEF Counted
<1>6. QED
  BY <1>4, <1>5

(* A goroutine counts its buffer down and lets go of it. *)
LEMMA ReleaseStep ==
  ASSUME PB!TypeOK, CountInv, NEW g \in PB!Procs, at[g] \in {"put", "fwd", "look"},
         ref' = PB!Set(ref, hand[g], ref[hand[g]] - 1), UNCHANGED <<pool, queue>>,
         hand' = PB!Set(hand, g, None), PB!Goto(g, "idle"), NEW b \in Bufs
  PROVE  Counted(b)'
<1>1. hand[g] \in Bufs /\ at[g] # "last" /\ at[g] \notin PB!Queues
  BY HandType, PktBufConstants DEF PB!Labels
<1>2. at' = [at EXCEPT ![g] = "idle"] /\ "idle" \notin PB!Queues /\ b # None
      /\ hand' = [hand EXCEPT ![g] = None]
  BY PktBufConstants DEF PB!Labels, PB!Goto, PB!Set
<1>3. LastOn(b)' = LastOn(b) /\ PB!Places(b)' = PB!Places(b) \ {<<g, 0>>}
  BY <1>1, <1>2, PktBufConstants DEF LastOn, PB!At, PB!Places, PB!TypeOK, PB!Procs
<1>4. CASE b # hand[g]
  <2>1. ref'[b] = ref[b]
    BY <1>1, <1>4 DEF PB!Set, PB!TypeOK
  <2>2. Untouched(b)
    BY <1>3, <2>1, FewerPlaces DEF Untouched
  <2>3. QED
    BY <2>2, UntouchedStep DEF CountInv
<1>5. CASE b = hand[g]
  <2>1. ref'[b] = ref[b] - 1 /\ ref[b] \in Nat
    BY <1>1, <1>5 DEF PB!Set, PB!TypeOK
  <2>2. LastOn(b) = {} /\ b \notin pool /\ PB!Holders(b) <= ref[b] /\ <<g, 0>> \in PB!Places(b)
    BY <1>1, <1>5, HeldIsCounted
  <2>3. PB!Holders(b)' = PB!Holders(b) - 1
    BY <1>3, <2>2, PlacesFinite, HoldersAre, FS_RemoveElement
  <2>4. PB!Holders(b) \in Nat
    BY PlacesFinite
  <2>5. PB!Holders(b)' <= ref'[b]
    BY <2>1, <2>2, <2>3, <2>4
  <2>6. QED
    BY <1>3, <2>2, <2>5 DEF Counted
<1>6. QED
  BY <1>4, <1>5

LEMMA CountStep == BufInv /\ [PB!Next]_pktBuf => CountInv'
<1> SUFFICES ASSUME PB!TypeOK, CountInv, [PB!Next]_pktBuf, NEW b \in Bufs PROVE Counted(b)'
  BY DEF BufInv, CountInv
<1>0. Counted(b) /\ (Untouched(b) => Counted(b)') /\ \A l \in PB!Labels : l \notin PB!Queues
  BY UntouchedStep, PktBufConstants DEF CountInv
<1>1. ASSUME NEW g \in PB!Procs, PB!GetPktFromPool(g) PROVE Counted(b)'
  <2>1. PICK d \in pool : /\ at[g] = "idle" /\ at' = [at EXCEPT ![g] = "read"] /\ hand' = [hand EXCEPT ![g] = d]
                          /\ pool' = pool \ {d} /\ ref' = [ref EXCEPT ![d] = ref[d] + 1] /\ queue' = queue
    BY <1>1 DEF PB!GetPktFromPool, PB!At, PB!Goto, PB!Set
  <2>2. d \in Bufs /\ hand[g] = None /\ b # None /\ "read" \notin PB!Queues
    BY <2>1, PktBufConstants DEF PB!TypeOK, PB!Labels
  <2>3. LastOn(b)' = LastOn(b)
    BY <2>1, <2>2 DEF LastOn, PB!At, PB!TypeOK
  <2>4. CASE b # d
    <3>1. PB!Places(b)' = PB!Places(b)
      BY <2>1, <2>2, <2>4 DEF PB!Places, PB!TypeOK
    <3>2. ref'[b] = ref[b] /\ (b \in pool' <=> b \in pool)
      BY <2>1, <2>2, <2>4 DEF PB!TypeOK
    <3>3. QED
      BY <1>0, <2>3, <3>1, <3>2, FewerPlaces DEF Untouched
  <2>5. CASE b = d
    <3>1. PB!Places(b) = {} /\ ref[b] = 0
      BY <1>0, <2>5 DEF Counted
    <3>2. PB!Places(b)' \subseteq {<<g, 0>>}
      <4>1. \A p \in PB!Places(b)' : p \in PB!Places(b) \/ p = <<g, 0>>
        BY <2>1, <2>2 DEF PB!Places, PB!TypeOK
      <4>2. QED
        BY <3>1, <4>1
    <3>3. IsFiniteSet({<<g, 0>>}) /\ Cardinality({<<g, 0>>}) = 1
      BY FS_Singleton
    <3>4. PB!Holders(b)' <= 1
      BY <3>2, <3>3, FS_Subset, HoldersAre
    <3>5. LastOn(b) = {}
      BY <3>1, NobodyLast
    <3>6. ref'[b] = 1 /\ b \notin pool'
      BY <2>1, <2>2, <2>5, <3>1 DEF PB!TypeOK
    <3>7. QED
      BY <2>3, <3>4, <3>5, <3>6 DEF Counted
  <2>6. QED
    BY <2>4, <2>5
<1>2. ASSUME NEW g \in PB!Procs, PB!Read(g) PROVE Counted(b)'
  BY <1>0, <1>2, RestStep DEF PB!Read, PB!At, PB!Goto, PB!Labels, PB!buf
<1>3. ASSUME NEW g \in PB!Procs, PB!ReadFails(g) PROVE Counted(b)'
  BY <1>0, <1>3, DropStep DEF PB!ReadFails, PB!At, PB!Goto, PB!Set, PB!buf
<1>4. ASSUME NEW g \in PB!Procs, PB!Hold(g) PROVE Counted(b)'
  <2>1. PICK q \in left[g] \ {Recv} :
          IF q \in closed THEN UNCHANGED <<ref, at>>
          ELSE ref' = PB!HoldPktBuf(hand[g]) /\ PB!Goto(g, q)
    BY <1>4 DEF PB!Hold
  <2>2. q \in PB!Queues /\ at[g] = "fwd" /\ UNCHANGED <<pool, hand, queue>>
    BY <1>4, <2>1 DEF PB!Hold, PB!At, PB!TypeOK
  <2>3. CASE q \in closed
    <3>1. PB!Places(b)' = PB!Places(b) /\ LastOn(b)' = LastOn(b)
      BY <2>1, <2>2, <2>3 DEF PB!Places, LastOn, PB!At
    <3>2. QED
      BY <1>0, <2>1, <2>2, <2>3, <3>1, FewerPlaces DEF Untouched
  <2>4. CASE q \notin closed
    BY <2>1, <2>2, <2>4, HoldStep DEF PB!Goto
  <2>5. QED
    BY <2>3, <2>4
<1>5. ASSUME NEW g \in PB!Procs, PB!PutToRecvQueue(g) PROVE Counted(b)'
  <2>1. Recv \in PB!Queues
    BY DEF PB!Queues
  <2>2. at' = at \/ at' = [at EXCEPT ![g] = Recv]
    BY <1>5 DEF PB!PutToRecvQueue, PB!Goto
  <2>3. QED
    BY <1>5, <2>1, <2>2, HoldStep DEF PB!PutToRecvQueue, PB!At
<1>6. ASSUME NEW g \in PB!Procs, PB!Send(g) PROVE Counted(b)'
  BY <1>0, <1>6, SendStep
<1>7. ASSUME NEW g \in PB!Procs, PB!ReleasePktBuf(g) PROVE Counted(b)'
  <2>1. at[g] \in {"put", "fwd"} /\ ref' = PB!Set(ref, hand[g], ref[hand[g]] - 1) /\ UNCHANGED <<pool, queue>>
    BY <1>7 DEF PB!ReleasePktBuf, PB!At
  <2>2. CASE ~ PB!IsLast(hand[g])
    BY <1>7, <2>1, <2>2, ReleaseStep DEF PB!ReleasePktBuf
  <2>3. CASE PB!IsLast(hand[g])
    <3>1. at' = [at EXCEPT ![g] = "last"] /\ hand' = hand /\ ref[hand[g]] = 1
      BY <1>7, <2>3 DEF PB!ReleasePktBuf, PB!Goto, PB!IsLast
    <3>2. hand[g] \in Bufs /\ at[g] # "last" /\ "last" \notin PB!Queues /\ at[g] \notin PB!Queues
      BY <1>0, <2>1, HandType DEF PB!Labels
    <3>3. PB!Places(b)' = PB!Places(b)
      BY <2>1, <3>1, <3>2 DEF PB!Places, PB!TypeOK
    <3>4. CASE b # hand[g]
      <4>1. LastOn(b)' = LastOn(b) /\ ref'[b] = ref[b]
        BY <2>1, <3>1, <3>2, <3>4 DEF LastOn, PB!At, PB!Set, PB!TypeOK
      <4>2. QED
        BY <1>0, <2>1, <3>3, <4>1, FewerPlaces DEF Untouched
    <3>5. CASE b = hand[g]
      <4>1. b \notin pool /\ PB!Holders(b) <= 1
        BY <3>1, <3>2, <3>5, HeldIsCounted
      <4>2. ref'[b] = 0
        BY <2>1, <3>1, <3>2, <3>5 DEF PB!Set, PB!TypeOK
      <4>3. g \in LastOn(b)'
        BY <3>1, <3>5 DEF LastOn, PB!At, PB!TypeOK
      <4>4. PB!Holders(b)' <= 1
        BY <3>3, <4>1, HoldersAre
      <4>5. QED
        BY <2>1, <4>1, <4>2, <4>3, <4>4 DEF Counted
    <3>6. QED
      BY <3>4, <3>5
  <2>4. QED
    BY <2>2, <2>3
<1>8. ASSUME NEW g \in PB!Procs, PB!PoolPut(g) PROVE Counted(b)'
  <2>1. /\ at[g] = "last" /\ at' = [at EXCEPT ![g] = "idle"] /\ pool' = pool \cup {hand[g]}
        /\ hand' = [hand EXCEPT ![g] = None] /\ ref' = ref /\ queue' = queue
    BY <1>8 DEF PB!PoolPut, PB!At, PB!Goto, PB!Set
  <2>2. hand[g] \in Bufs /\ b # None /\ "last" \notin PB!Queues /\ "idle" \notin PB!Queues
    BY <1>0, <2>1, HandType, PktBufConstants DEF PB!Labels
  <2>3. PB!Places(b)' = PB!Places(b) \ {<<g, 0>>}
    BY <2>1, <2>2, PktBufConstants DEF PB!Places, PB!TypeOK, PB!Procs
  <2>4. CASE b # hand[g]
    <3>1. LastOn(b)' = LastOn(b)
      BY <2>1, <2>4 DEF LastOn, PB!At, PB!TypeOK
    <3>2. QED
      BY <1>0, <2>1, <2>3, <2>4, <3>1, FewerPlaces DEF Untouched
  <2>5. CASE b = hand[g]
    <3>1. g \in LastOn(b)
      BY <2>1, <2>5 DEF LastOn, PB!At
    <3>2. ref[b] = 0 /\ PB!Holders(b) <= 1
      BY <1>0, <3>1 DEF Counted
    <3>3. <<g, 0>> \in PB!Places(b)
      BY <2>5 DEF PB!Places
    <3>4. Cardinality(PB!Places(b)') = Cardinality(PB!Places(b)) - 1
      BY <2>3, <3>3, PlacesFinite, FS_RemoveElement
    <3>5. PB!Holders(b)' = 0
      BY <3>2, <3>4, PlacesFinite, HoldersAre
    <3>6. PB!Places(b)' = {}
      BY <3>5, PlacesFinite, HoldersAre, FS_EmptySet
    <3>7. LastOn(b)' = {}
      BY <3>6, NobodyLast
    <3>8. QED
      BY <2>1, <3>2, <3>5, <3>6, <3>7 DEF Counted
  <2>6. QED
    BY <2>4, <2>5
<1>9. ASSUME NEW c \in Clients, PB!WriterTake(c) PROVE Counted(b)'
  <2>1. c \in PB!Queues /\ (IF c \in Crypted THEN "encrypt" ELSE "write") \in PB!Labels \ {"idle", "gone", "last"}
    BY DEF PB!Queues, PB!Labels
  <2>2. Untouched(b)
    BY <1>9, <2>1, TakeStep DEF PB!WriterTake, PB!buf
  <2>3. QED
    BY <1>0, <2>2
<1>10. CASE PB!StatTake
  <2>1. Stat \in PB!Queues /\ "look" \in PB!Labels \ {"idle", "gone", "last"}
    BY DEF PB!Queues, PB!Labels
  <2>2. Untouched(b)
    BY <1>10, <2>1, TakeStep DEF PB!StatTake, PB!buf
  <2>3. QED
    BY <1>0, <2>2
<1>11. CASE PB!RecvTake
  <2>1. Recv \in PB!Queues /\ "fwd" \in PB!Labels \ {"idle", "gone", "last"}
    BY DEF PB!Queues, PB!Labels
  <2>2. Untouched(b)
    BY <1>11, <2>1, TakeStep DEF PB!RecvTake, PB!buf
  <2>3. QED
    BY <1>0, <2>2
<1>12. CASE PB!StatRelease
  <2>1. Stat \in PB!Procs
    BY DEF PB!Procs, PB!Queues
  <2>2. QED
    BY <1>12, <2>1, ReleaseStep DEF PB!StatRelease, PB!StatDec, PB!At
<1>13. ASSUME NEW c \in Clients, PB!Encrypt(c) \/ PB!Mark(c) \/ PB!WriteOk(c) \/ PB!Written(c)
       PROVE  Counted(b)'
  <2>1. c \in PB!Procs
    BY DEF PB!Procs, PB!Queues
  <2>2. PICK k \in {"encrypt", "mark", "write", "sent"}, l \in {"mark", "write", "sent", "put"} :
          at[c] = k /\ at' = [at EXCEPT ![c] = l]
    BY <1>13 DEF PB!Encrypt, PB!Mark, PB!WriteOk, PB!Written, PB!At, PB!Goto
  <2>3. k \notin PB!Queues /\ l \notin PB!Queues
    BY <1>0 DEF PB!Labels
  <2>4. UNCHANGED <<ref, pool, hand, queue>>
    BY <1>13 DEF PB!Encrypt, PB!Mark, PB!WriteOk, PB!Written, PB!buf
  <2>5. Untouched(b)
    BY <2>1, <2>2, <2>3, <2>4, RestStep
  <2>6. QED
    BY <1>0, <2>5
<1>14. ASSUME NEW c \in Clients, PB!WriteFails(c) PROVE Counted(b)'
  <2>1. c \in PB!Procs /\ c \in PB!Queues
    BY DEF PB!Procs, PB!Queues
  <2>2. QED
    BY <1>0, <1>14, <2>1, DropStep DEF PB!WriteFails, PB!At, PB!Goto, PB!Set, PB!buf
<1>15. ASSUME NEW d \in Bufs, PB!Collect(d) PROVE Counted(b)'
  <2>1. PB!Places(b)' = PB!Places(b) /\ LastOn(b)' = LastOn(b)
    BY <1>15 DEF PB!Collect, PB!Places, LastOn, PB!At
  <2>2. CASE b # d
    <3>1. ref'[b] = ref[b] /\ (b \in pool' <=> b \in pool)
      BY <1>15, <2>2 DEF PB!Collect, PB!Set, PB!TypeOK
    <3>2. QED
      BY <1>0, <2>1, <3>1, FewerPlaces DEF Untouched
  <2>3. CASE b = d
    <3>1. PB!Places(b) = {} /\ ref'[b] = 0
      BY <1>15, <2>3 DEF PB!Collect, PB!Set, PB!TypeOK
    <3>2. LastOn(b) = {}
      BY <3>1, NobodyLast
    <3>3. PB!Holders(b)' = 0
      BY <2>1, <3>1, HoldersAre, FS_EmptySet
    <3>4. QED
      BY <2>1, <3>1, <3>2, <3>3 DEF Counted
  <2>4. QED
    BY <2>2, <2>3
<1>16. CASE UNCHANGED pktBuf \/ \E c \in Clients : PB!Close(c)
  <2>1. PB!Places(b)' = PB!Places(b) /\ LastOn(b)' = LastOn(b) /\ ref' = ref /\ pool' = pool
    BY <1>16 DEF pktBuf, PB!Close, PB!buf, PB!Places, LastOn, PB!At
  <2>2. QED
    BY <1>0, <2>1, FewerPlaces DEF Untouched
<1>17. QED
  BY <1>1, <1>2, <1>3, <1>4, <1>5, <1>6, <1>7, <1>8, <1>9, <1>10, <1>11, <1>12, <1>13, <1>14, <1>15, <1>16
     DEF PB!Next
-----------------------------------------------------------------------------
LEMMA BufInit == PB!Init => BufInv
<1> SUFFICES ASSUME PB!Init PROVE BufInv
  OBVIOUS
<1>1. PB!TypeOK
  <2>1. queue \in [PB!Queues -> Seq(Bufs)] /\ \A q \in PB!Queues : Len(queue[q]) <= ChanSize
    BY PktBufConstants DEF PB!Init
  <2>2. marked \in [Bufs -> BOOLEAN]
    BY DEF PB!Init
  <2>3. sent \in [Clients -> [enc : Nat, marked : BOOLEAN]]
    BY DEF PB!Init, PB!Silent
  <2>4. QED
    BY <2>1, <2>2, <2>3 DEF PB!Init, PB!TypeOK, PB!Labels
<1>2. ASSUME NEW b \in Bufs PROVE Counted(b)
  <2>1. PB!Places(b) = {}
    <3>1. \A g \in PB!Procs : hand[g] # b
      BY PktBufConstants DEF PB!Init
    <3>2. \A q \in PB!Queues : Len(queue[q]) = 0
      BY DEF PB!Init
    <3>3. QED
      BY <3>1, <3>2, PktBufConstants DEF PB!Places
  <2>2. PB!Holders(b) = 0 /\ LastOn(b) = {} /\ ref[b] = 0
    BY <2>1, HoldersAre, FS_EmptySet, NobodyLast DEF PB!Init
  <2>3. QED
    BY <2>1, <2>2 DEF Counted
<1>3. QED
  BY <1>1, <1>2 DEF BufInv, CountInv

(* In a behaviour of another part the packet buffers rest. *)
LEMMA PktBufSteps == [MCNext]_<<part, vars, pktBuf, heartbeat, twoSwitches>> => [PB!Next]_pktBuf
  BY DEF MCNext

LEMMA BufInvariant == MCSpec => []BufInv
<1>1. MCInit => BufInv
  BY BufInit DEF MCInit
<1>2. BufInv /\ [PB!Next]_pktBuf => BufInv'
  BY PktBufTypeStep, CountStep DEF BufInv
<1>3. QED
  BY <1>1, <1>2, PktBufSteps, PTL DEF MCSpec

(* pktpool.go:48-67: whatever number of goroutines share a buffer, it has  *)
(* at least as many references as there are who hold it, and a buffer in   *)
(* the pool is in nobody's hand and in no channel.  References that nobody *)
(* gives back are admitted (bakLink.go:41, client.go:542).                 *)
THEOREM BuffersCorrect == MCSpec => []BuffersSafe
<1>1. ASSUME BufInv PROVE PB!TypeOK /\ PB!RefCovers /\ PB!PoolIsFree
  <2>1. ASSUME NEW b \in Bufs
        PROVE  ref[b] + (IF \E g \in PB!Procs : PB!At(g, "last") /\ hand[g] = b THEN 1 ELSE 0) >= PB!Holders(b)
    <3>1. Counted(b) /\ ref[b] \in Nat /\ PB!Holders(b) \in Nat
      BY <1>1, PlacesFinite DEF BufInv, CountInv, PB!TypeOK
    <3>2. LastOn(b) = {} <=> ~ \E g \in PB!Procs : PB!At(g, "last") /\ hand[g] = b
      BY DEF LastOn
    <3>3. QED
      BY <3>1, <3>2 DEF Counted
  <2>2. PB!RefCovers
    BY <2>1 DEF PB!RefCovers
  <2>3. PB!PoolIsFree
    BY <1>1 DEF PB!PoolIsFree, BufInv, CountInv, Counted, PB!TypeOK
  <2>4. QED
    BY <1>1, <2>2, <2>3 DEF BufInv
<1>2. BufInv => BuffersSafe
  BY <1>1 DEF BuffersSafe
<1>3. QED
  BY <1>2, BufInvariant, PTL
-----------------------------------------------------------------------------
(* Where a goroutine can be, and what it has still to do there. *)
RoleOf(g) ==
  /\ at[g] \in PB!Queues \cup {"fwd"} => g \in Sources \cup {Recv}
  /\ at[g] = "read" => g \in Sources
  /\ at[g] \in {"encrypt", "mark"} => g \in Crypted
  /\ at[g] \in {"write", "sent", "put", "gone"} => g \in Clients
  /\ at[g] = "look" => g = Stat
  /\ at[g] \notin PB!Queues \cup {"fwd"} => left[g] = {}
  /\ Recv \in left[g] => left[g] = {Recv}

Roles == \A g \in PB!Procs : RoleOf(g)

LEMMA RolesStep == BufInv /\ Roles /\ [PB!Next]_pktBuf => Roles'
<1> SUFFICES ASSUME PB!TypeOK, Roles, [PB!Next]_pktBuf, NEW h \in PB!Procs PROVE RoleOf(h)'
  BY DEF BufInv, Roles
<1>0. RoleOf(h) /\ (at'[h] = at[h] /\ left'[h] = left[h] => RoleOf(h)')
  BY DEF Roles, RoleOf
<1>1. \A l \in PB!Labels : l \notin PB!Queues
  BY PktBufConstants
<1>2. ASSUME NEW g \in PB!Procs, PB!GetPktFromPool(g) \/ PB!ReadFails(g) \/ PB!PoolPut(g) PROVE RoleOf(h)'
  <2>1. PICK l \in {"idle", "read"} :
          /\ at[g] \in {"idle", "read", "last"} /\ at' = [at EXCEPT ![g] = l] /\ left' = left
          /\ l = "read" => g \in Sources
    BY <1>2 DEF PB!GetPktFromPool, PB!ReadFails, PB!PoolPut, PB!At, PB!Goto
  <2>2. CASE h = g
    BY <1>0, <1>1, <2>1, <2>2 DEF PB!TypeOK, PB!Labels, RoleOf
  <2>3. CASE h # g
    BY <1>0, <2>1, <2>3 DEF PB!TypeOK
  <2>4. QED
    BY <2>2, <2>3
<1>3. ASSUME NEW g \in PB!Procs, PB!Read(g) PROVE RoleOf(h)'
  <2>1. PICK S \in PB!Goals(g) : left' = [left EXCEPT ![g] = S]
    BY <1>3 DEF PB!Read, PB!Set
  <2>2. Recv \in S => S = {Recv}
    BY PktBufConstants DEF PB!Goals
  <2>3. at[g] = "read" /\ at' = [at EXCEPT ![g] = "fwd"]
    BY <1>3 DEF PB!Read, PB!At, PB!Goto
  <2>4. CASE h = g
    BY <1>0, <1>1, <2>1, <2>2, <2>3, <2>4 DEF PB!TypeOK, RoleOf
  <2>5. CASE h # g
    BY <1>0, <2>1, <2>3, <2>5 DEF PB!TypeOK
  <2>6. QED
    BY <2>4, <2>5
<1>4. ASSUME NEW g \in PB!Procs, PB!Hold(g) PROVE RoleOf(h)'
  <2>1. PICK q \in left[g] \ {Recv} :
          /\ at[g] = "fwd" /\ left' = [left EXCEPT ![g] = left[g] \ {q}]
          /\ at' = at \/ at' = [at EXCEPT ![g] = q]
    BY <1>4 DEF PB!Hold, PB!At, PB!Goto, PB!Set
  <2>2. q \in PB!Queues
    BY <2>1 DEF PB!TypeOK
  <2>3. CASE h = g
    <3>1. Recv \notin left[g] /\ g \in Sources \cup {Recv}
      BY <1>0, <2>1, <2>3 DEF RoleOf
    <3>2. at'[g] \in PB!Queues \cup {"fwd"} /\ Recv \notin left'[g]
      BY <2>1, <2>2, <3>1 DEF PB!TypeOK
    <3>3. at'[g] \notin {"read", "encrypt", "mark", "write", "sent", "put", "gone", "look"}
      BY <1>1, <2>1, <2>2 DEF PB!TypeOK, PB!Labels
    <3>4. QED
      BY <2>3, <3>1, <3>2, <3>3 DEF RoleOf
  <2>4. CASE h # g
    BY <1>0, <2>1, <2>4 DEF PB!TypeOK
  <2>5. QED
    BY <2>3, <2>4
<1>5. ASSUME NEW g \in PB!Procs, PB!PutToRecvQueue(g) PROVE RoleOf(h)'
  <2>1. /\ at[g] = "fwd" /\ left' = [left EXCEPT ![g] = {}]
        /\ at' = at \/ at' = [at EXCEPT ![g] = Recv]
    BY <1>5 DEF PB!PutToRecvQueue, PB!At, PB!Goto, PB!Set
  <2>2. Recv \in PB!Queues /\ Recv \notin PB!Labels
    BY <1>1 DEF PB!Queues
  <2>3. CASE h = g
    BY <1>0, <1>1, <2>1, <2>2, <2>3 DEF PB!TypeOK, PB!Labels, RoleOf
  <2>4. CASE h # g
    BY <1>0, <2>1, <2>4 DEF PB!TypeOK
  <2>5. QED
    BY <2>3, <2>4
<1>6. ASSUME NEW g \in PB!Procs, PB!Send(g) PROVE RoleOf(h)'
  <2>1. at[g] \in PB!Queues /\ at' = [at EXCEPT ![g] = "fwd"] /\ left' = left
    BY <1>6 DEF PB!Send, PB!At, PB!Goto
  <2>2. QED
    BY <1>0, <1>1, <2>1 DEF PB!TypeOK, PB!Labels, RoleOf
<1>7. ASSUME NEW g \in PB!Procs, PB!ReleasePktBuf(g) PROVE RoleOf(h)'
  <2>1. PICK l \in {"idle", "last"} :
          /\ at[g] = "put" \/ (at[g] = "fwd" /\ left[g] = {})
          /\ at' = [at EXCEPT ![g] = l] /\ left' = left
    BY <1>7 DEF PB!ReleasePktBuf, PB!At, PB!Goto
  <2>2. QED
    BY <1>0, <1>1, <2>1 DEF PB!TypeOK, PB!Labels, RoleOf
<1>8. ASSUME NEW c \in Clients,
             PB!WriterTake(c) \/ PB!Encrypt(c) \/ PB!Mark(c) \/ PB!WriteOk(c) \/ PB!Written(c) \/ PB!WriteFails(c)
      PROVE  RoleOf(h)'
  <2>1. c \in PB!Procs /\ left' = left /\ Crypted \subseteq Clients
    BY <1>8, PktBufConstants DEF PB!Procs, PB!Queues, PB!WriterTake, PB!Encrypt, PB!Mark, PB!WriteOk, PB!Written, PB!WriteFails
  <2>2. PICK l \in {"encrypt", "mark", "write", "sent", "put", "gone"} :
          at' = [at EXCEPT ![c] = l] /\ (l \in {"encrypt", "mark"} => c \in Crypted)
    BY <1>8, <2>1 DEF PB!WriterTake, PB!Encrypt, PB!Mark, PB!WriteOk, PB!Written, PB!WriteFails, PB!At, PB!Goto, Roles, RoleOf
  <2>3. at[c] \in {"idle", "encrypt", "mark", "write", "sent"}
    BY <1>8 DEF PB!WriterTake, PB!Encrypt, PB!Mark, PB!WriteOk, PB!Written, PB!WriteFails, PB!At
  <2>4. CASE h = c
    BY <1>0, <1>1, <2>1, <2>2, <2>3, <2>4 DEF PB!TypeOK, PB!Labels, RoleOf
  <2>5. CASE h # c
    BY <1>0, <2>1, <2>2, <2>5 DEF PB!TypeOK
  <2>6. QED
    BY <2>4, <2>5
<1>9. CASE PB!RecvTake
  <2>1. PICK S \in PB!Goals(Recv) : left' = [left EXCEPT ![Recv] = S] /\ at' = [at EXCEPT ![Recv] = "fwd"]
    BY <1>9 DEF PB!RecvTake, PB!Set, PB!Goto
  <2>2. Recv \notin S /\ Recv \in PB!Procs
    BY PktBufConstants DEF PB!Goals, PB!Procs, PB!Queues
  <2>3. QED
    BY <1>0, <1>1, <2>1, <2>2 DEF PB!TypeOK, PB!Labels, RoleOf
<1>10. CASE PB!StatTake \/ PB!StatRelease
  <2>1. Stat \in PB!Procs
    BY DEF PB!Procs, PB!Queues
  <2>2. QED
    BY <1>0, <1>1, <1>10, <2>1 DEF PB!StatTake, PB!StatRelease, PB!At, PB!Goto, PB!TypeOK, PB!Labels, RoleOf
<1>11. CASE UNCHANGED pktBuf \/ (\E c \in Clients : PB!Close(c)) \/ \E b \in Bufs : PB!Collect(b)
  BY <1>0, <1>11 DEF pktBuf, PB!Close, PB!Collect
<1>12. QED
  BY <1>2, <1>3, <1>4, <1>5, <1>6, <1>7, <1>8, <1>9, <1>10, <1>11 DEF PB!Next
-----------------------------------------------------------------------------
(* A ticket: the buffer will be written by the client q, or it will go     *)
(* through the queue of the backup link (q = Recv).  It is at position     *)
(* i > 0 of q's channel, in q's hand, or with g, who has still to give it  *)
(* to q (0) or holds it for q already (-1).                                *)
Ticket(b, g, i, q) ==
  \/ i > 0 /\ g = q /\ i <= Len(queue[q]) /\ queue[q][i] = b
  \/ i = 0 /\ hand[g] = b /\ ((g = q /\ q \in Clients) \/ q \in left[g])
  \/ i = -1 /\ hand[g] = b /\ at[g] = q

Readers == Clients \cup {Recv}
Spots == -1 .. ChanSize

OneTicket(b) ==
  \A g, h \in PB!Procs, i, j \in Spots, q, r \in Readers :
    Ticket(b, g, i, q) /\ Ticket(b, h, j, r) => g = h /\ i = j /\ q = r

NotForRecv(b) == \A g \in PB!Procs, i \in Spots : ~ Ticket(b, g, i, Recv)

InClear(b) == enc[b] = 0 /\ marked[b] = FALSE

Arrived(g, i, q) == q \in Clients /\ g = q /\ i = 0

(* Nobody has encrypted a buffer whose ticket is still under way. *)
Pending(b) ==
  \A g \in PB!Procs, i \in Spots, q \in Readers : Ticket(b, g, i, q) /\ ~ Arrived(g, i, q) => InClear(b)

(* A buffer that goes to one client has one ticket; while it is on its way *)
(* through the backup link, that is the only one.                          *)
TicketOk(b) == IF b \in shared THEN NotForRecv(b) ELSE OneTicket(b) /\ Pending(b)

TicketInv == \A b \in Bufs : TicketOk(b)

Form(c) == [enc |-> IF c \in Crypted THEN 1 ELSE 0, marked |-> c \in Crypted]

(* How far the client that has the buffer in hand is. *)
StageOf(c) ==
  hand[c] # None /\ hand[c] \notin shared =>
    /\ at[c] = "encrypt" => InClear(hand[c])
    /\ at[c] = "mark" => enc[hand[c]] = 1 /\ marked[hand[c]] = FALSE
    /\ at[c] \in {"write", "sent"} => enc[hand[c]] = Form(c).enc /\ marked[hand[c]] = Form(c).marked
    /\ at[c] = "sent" => sent[c] = Form(c)

StageInv == \A c \in Clients : StageOf(c)

(* A buffer that is being read into is new and counted once. *)
ReadInv == \A g \in PB!Procs : at[g] = "read" => InClear(hand[g]) /\ ref[hand[g]] = 1

WireInv == BufInv /\ Roles /\ TicketInv /\ StageInv /\ ReadInv
-----------------------------------------------------------------------------
LEMMA KeptTickets ==
  ASSUME NEW b \in Bufs, TicketOk(b), (b \in shared') = (b \in shared), InClear(b) => InClear(b)',
         \A g \in PB!Procs, i \in Spots, q \in Readers : Ticket(b, g, i, q)' => Ticket(b, g, i, q)
  PROVE  TicketOk(b)'
<1>1. CASE b \in shared
  BY <1>1 DEF TicketOk, NotForRecv, Readers
<1>2. CASE b \notin shared
  BY <1>2 DEF TicketOk, OneTicket, Pending
<1>3. QED
  BY <1>1, <1>2

(* f takes a ticket back to where it was before the step. *)
MovesBack(b, f) ==
  /\ \A g \in PB!Procs, i \in Spots, q \in Readers : Ticket(b, g, i, q)' =>
       \E h \in PB!Procs, j \in Spots :
         f[<<g, i, q>>] = <<h, j>> /\ Ticket(b, h, j, q) /\ (Arrived(h, j, q) => Arrived(g, i, q))
  /\ \A g, h \in PB!Procs, i, j \in Spots, q \in Readers :
       Ticket(b, g, i, q)' /\ Ticket(b, h, j, q)' /\ f[<<g, i, q>>] = f[<<h, j, q>>] => g = h /\ i = j

LEMMA MovedTickets ==
  ASSUME NEW b \in Bufs, TicketOk(b), (b \in shared') = (b \in shared), InClear(b) => InClear(b)',
         NEW f, MovesBack(b, f)
  PROVE  TicketOk(b)'
<1>1. CASE b \in shared
  <2>1. ASSUME NEW g \in PB!Procs, NEW i \in Spots, Ticket(b, g, i, Recv)' PROVE FALSE
    <3>1. \E h \in PB!Procs, j \in Spots : Ticket(b, h, j, Recv)
      BY <2>1 DEF Readers, MovesBack
    <3>2. QED
      BY <1>1, <3>1 DEF TicketOk, NotForRecv
  <2>2. QED
    BY <1>1, <2>1 DEF TicketOk, NotForRecv
<1>2. CASE b \notin shared
  <2>1. ASSUME NEW g \in PB!Procs, NEW h \in PB!Procs, NEW i \in Spots, NEW j \in Spots, NEW q \in Readers,
               NEW r \in Readers, Ticket(b, g, i, q)', Ticket(b, h, j, r)'
        PROVE  g = h /\ i = j /\ q = r
    <3>1. PICK g0 \in PB!Procs, i0 \in Spots : f[<<g, i, q>>] = <<g0, i0>> /\ Ticket(b, g0, i0, q)
      BY <2>1 DEF MovesBack
    <3>2. PICK h0 \in PB!Procs, j0 \in Spots : f[<<h, j, r>>] = <<h0, j0>> /\ Ticket(b, h0, j0, r)
      BY <2>1 DEF MovesBack
    <3>3. g0 = h0 /\ i0 = j0 /\ q = r
      BY <1>2, <3>1, <3>2 DEF TicketOk, OneTicket
    <3>4. QED
      BY <2>1, <3>1, <3>2, <3>3 DEF MovesBack
  <2>2. ASSUME NEW g \in PB!Procs, NEW i \in Spots, NEW q \in Readers, Ticket(b, g, i, q)', ~ Arrived(g, i, q)
        PROVE  InClear(b)'
    <3>1. PICK g0 \in PB!Procs, i0 \in Spots : Ticket(b, g0, i0, q) /\ ~ Arrived(g0, i0, q)
      BY <2>2 DEF MovesBack
    <3>2. QED
      BY <1>2, <3>1 DEF TicketOk, Pending
  <2>3. OneTicket(b)'
    BY <2>1 DEF OneTicket
  <2>4. Pending(b)'
    BY <2>2 DEF Pending, Arrived
  <2>5. QED
    BY <1>2, <2>3, <2>4 DEF TicketOk
<1>3. QED
  BY <1>1, <1>2

(* The one who reads into a buffer is alone with it. *)
LEMMA ReadAlone ==
  ASSUME BufInv, Roles, ReadInv, NEW g \in PB!Procs, at[g] = "read"
  PROVE  /\ hand[g] \in Bufs /\ hand[g] \notin pool /\ left[g] = {} /\ g \in Sources
         /\ PB!Places(hand[g]) = {<<g, 0>>} /\ \A h \in PB!Procs : hand[h] = hand[g] => h = g
         /\ \A h \in PB!Procs, i \in Spots, q \in Readers : ~ Ticket(hand[g], h, i, q)
<1>1. hand[g] \in Bufs
  BY HandType DEF BufInv
<1>2. PB!Places(hand[g]) = {<<g, 0>>} /\ hand[g] \notin pool
  BY <1>1, HeldIsCounted DEF BufInv, ReadInv
<1>3. \A h \in PB!Procs : hand[h] = hand[g] => h = g
  <2>1. \A h \in PB!Procs : hand[h] = hand[g] => <<h, 0>> \in PB!Places(hand[g])
    BY DEF PB!Places
  <2>2. QED
    BY <1>2, <2>1
<1>4. left[g] = {} /\ g \in Sources
  <2>1. "read" \notin PB!Queues
    BY PktBufConstants DEF PB!Labels
  <2>2. RoleOf(g)
    BY DEF Roles
  <2>3. QED
    BY <2>1, <2>2 DEF RoleOf
<1>5. ASSUME NEW h \in PB!Procs, NEW i \in Spots, NEW q \in Readers, Ticket(hand[g], h, i, q) PROVE FALSE
  <2>1. q \in PB!Queues
    BY DEF Readers, PB!Queues
  <2>2. CASE i > 0
    <3>1. <<q, i>> \in PB!Places(hand[g])
      BY <1>5, <2>1, <2>2, PlaceIs DEF Ticket, Spots
    <3>2. QED
      BY <1>2, <2>2, <3>1
  <2>3. CASE i <= 0
    <3>1. h = g /\ g \notin Clients
      BY <1>3, <1>4, <1>5, <2>3, PktBufConstants DEF Ticket, Spots, PB!Queues
    <3>2. QED
      BY <1>4, <1>5, <2>1, <2>3, <3>1, PktBufConstants DEF Ticket, Spots, PB!Labels
  <2>4. QED
    BY <2>2, <2>3, PktBufConstants DEF Spots
<1>6. QED
  BY <1>1, <1>2, <1>3, <1>4, <1>5

(* A reader takes the first buffer of its channel; a client's ticket comes *)
(* into its hand with it.                                                  *)
LEMMA TakeTickets ==
  ASSUME PB!TypeOK, NEW c \in Readers, at[c] = "idle", queue[c] # <<>>,
         hand' = [hand EXCEPT ![c] = Head(queue[c])], queue' = [queue EXCEPT ![c] = Tail(queue[c])],
         NEW l \in PB!Labels, at' = [at EXCEPT ![c] = l],
         \A g \in PB!Procs \ {c} : left'[g] = left[g], NEW b \in Bufs,
         \A q \in Readers : Ticket(b, c, 0, q)' => q = c /\ c \in Clients,
         TicketOk(b), (b \in shared') = (b \in shared), InClear(b) => InClear(b)'
  PROVE  TicketOk(b)'
<1> DEFINE f == [t \in PB!Procs \X Spots \X Readers |->
                   IF t[1] = c /\ t[3] = c /\ t[2] >= 0 THEN <<c, t[2] + 1>> ELSE <<t[1], t[2]>>]
<1>0. \A g \in PB!Procs, i \in Spots, q \in Readers :
        f[<<g, i, q>>] = IF g = c /\ q = c /\ i >= 0 THEN <<c, i + 1>> ELSE <<g, i>>
  OBVIOUS
<1> HIDE DEF f
<1>1. c \in PB!Queues /\ c \in PB!Procs /\ \A q \in Readers : q \in PB!Queues
  BY DEF Readers, PB!Queues, PB!Procs
<1>2. queue[c] \in Seq(Bufs) /\ Len(queue[c]) \in 1 .. ChanSize
  BY <1>1, PktBufConstants DEF PB!TypeOK
<1>3. /\ \A h \in PB!Procs \ {c} : hand'[h] = hand[h] /\ at'[h] = at[h]
      /\ \A r \in PB!Queues \ {c} : queue'[r] = queue[r]
      /\ hand'[c] = Head(queue[c]) /\ at'[c] = l /\ l \notin PB!Queues /\ queue'[c] = Tail(queue[c])
  BY <1>1, PktBufConstants DEF PB!TypeOK
<1>4. ChanSize \in Nat
  BY PktBufConstants
<1>5. ASSUME NEW g \in PB!Procs, NEW i \in Spots, NEW q \in Readers, Ticket(b, g, i, q)'
      PROVE  \E h \in PB!Procs, j \in Spots :
               f[<<g, i, q>>] = <<h, j>> /\ Ticket(b, h, j, q) /\ (Arrived(h, j, q) => Arrived(g, i, q))
  <2>1. CASE g = c /\ q = c /\ i >= 0
    <3>1. f[<<g, i, q>>] = <<c, i + 1>>
      BY <1>0, <2>1
    <3>2. i + 1 <= Len(queue[c]) /\ queue[c][i + 1] = b
      <4>1. CASE i = 0
        BY <1>2, <1>3, <1>5, <2>1, <4>1 DEF Ticket
      <4>2. CASE i > 0
        <5>1. i <= Len(Tail(queue[c])) /\ Tail(queue[c])[i] = b
          <6>1. i <= Len(queue'[c]) /\ queue'[c][i] = b
            BY <1>4, <1>5, <2>1, <4>2 DEF Ticket, Spots
          <6>2. QED
            BY <1>3, <6>1
        <5>2. QED
          BY <1>2, <1>4, <4>2, <5>1 DEF Spots
      <4>3. QED
        BY <1>4, <2>1, <4>1, <4>2 DEF Spots
    <3>3. Ticket(b, c, i + 1, c) /\ i + 1 \in Spots /\ ~ Arrived(c, i + 1, c)
      BY <1>2, <1>4, <2>1, <3>2 DEF Ticket, Spots, Arrived
    <3>4. QED
      BY <1>1, <2>1, <3>1, <3>3
  <2>2. CASE ~ (g = c /\ q = c /\ i >= 0)
    <3>1. f[<<g, i, q>>] = <<g, i>>
      BY <1>0, <2>2
    <3>2. Ticket(b, g, i, q)
      <4>1. CASE i > 0
        BY <1>1, <1>3, <1>5, <2>2, <4>1, <1>4 DEF Ticket, Spots
      <4>2. CASE i = 0
        <5>1. g # c
          BY <1>5, <2>2, <4>2
        <5>2. QED
          BY <1>3, <1>5, <4>2, <5>1 DEF Ticket
      <4>3. CASE i = -1
        <5>1. hand'[g] = b /\ at'[g] = q
          BY <1>5, <4>3 DEF Ticket
        <5>2. g # c
          BY <1>1, <1>3, <5>1
        <5>3. QED
          BY <1>3, <4>3, <5>1, <5>2 DEF Ticket
      <4>4. QED
        BY <1>4, <4>1, <4>2, <4>3 DEF Spots
    <3>3. QED
      BY <3>1, <3>2
  <2>3. QED
    BY <2>1, <2>2
<1>6. ASSUME NEW g \in PB!Procs, NEW h \in PB!Procs, NEW i \in Spots, NEW j \in Spots, NEW q \in Readers,
             f[<<g, i, q>>] = f[<<h, j, q>>]
      PROVE  g = h /\ i = j
  <2>1. i \in Int /\ j \in Int
    BY <1>4 DEF Spots
  <2>2. CASE q = c /\ g = c /\ i >= 0 /\ h = c /\ j >= 0
    <3>1. <<c, i + 1>> = <<c, j + 1>>
      BY <1>0, <1>6, <2>2
    <3>2. QED
      BY <2>1, <2>2, <3>1
  <2>3. CASE q = c /\ g = c /\ i >= 0 /\ ~ (h = c /\ j >= 0)
    <3>1. <<c, i + 1>> = <<h, j>>
      BY <1>0, <1>6, <2>3
    <3>2. QED
      BY <2>1, <2>3, <3>1
  <2>4. CASE q = c /\ h = c /\ j >= 0 /\ ~ (g = c /\ i >= 0)
    <3>1. <<g, i>> = <<c, j + 1>>
      BY <1>0, <1>6, <2>4
    <3>2. QED
      BY <2>1, <2>4, <3>1
  <2>5. CASE q # c \/ (~ (g = c /\ i >= 0) /\ ~ (h = c /\ j >= 0))
    <3>1. <<g, i>> = <<h, j>>
      BY <1>0, <1>6, <2>5
    <3>2. QED
      BY <3>1
  <2>6. QED
    BY <2>2, <2>3, <2>4, <2>5
<1>7. MovesBack(b, f)
  BY <1>5, <1>6 DEF MovesBack
<1>9. QED
  BY <1>7, MovedTickets

(* A goroutine passes on, holds or drops the ticket for q. *)
LEMMA HoldTickets ==
  ASSUME PB!TypeOK, NEW g \in PB!Procs, at[g] = "fwd", g \in Sources \cup {Recv}, NEW r \in left[g],
         left'[g] \subseteq left[g] \ {r}, \A h \in PB!Procs \ {g} : left'[h] = left[h],
         at' = at \/ at' = [at EXCEPT ![g] = r], UNCHANGED <<hand, queue, shared, enc, marked>>,
         NEW b \in Bufs, TicketOk(b)
  PROVE  TicketOk(b)'
<1> DEFINE f == [t \in PB!Procs \X Spots \X Readers |->
                   IF t[1] = g /\ t[3] = r /\ t[2] = -1 THEN <<g, 0>> ELSE <<t[1], t[2]>>]
<1>0. \A h \in PB!Procs, i \in Spots, q \in Readers :
        f[<<h, i, q>>] = IF h = g /\ q = r /\ i = -1 THEN <<g, 0>> ELSE <<h, i>>
  OBVIOUS
<1> HIDE DEF f
<1>1. g \notin Clients /\ ChanSize \in Nat /\ "fwd" \notin PB!Queues /\ \A q \in Readers : q \in PB!Queues
  BY PktBufConstants DEF PB!Queues, PB!Labels, Readers
<1>2. \A h \in PB!Procs \ {g} : at'[h] = at[h]
  BY DEF PB!TypeOK
<1>3. at'[g] = "fwd" \/ at'[g] = r
  BY DEF PB!TypeOK
<1>4. ASSUME NEW h \in PB!Procs, NEW i \in Spots, NEW q \in Readers, Ticket(b, h, i, q)'
      PROVE  /\ (h = g /\ q = r => i # 0)
             /\ \E k \in PB!Procs, j \in Spots :
                  f[<<h, i, q>>] = <<k, j>> /\ Ticket(b, k, j, q) /\ (Arrived(k, j, q) => Arrived(h, i, q))
  <2>1. CASE h = g /\ i = -1
    <3>1. q = r /\ hand[g] = b
      BY <1>1, <1>3, <1>4, <2>1 DEF Ticket
    <3>2. Ticket(b, g, 0, q) /\ ~ Arrived(g, 0, q) /\ 0 \in Spots
      BY <1>1, <3>1 DEF Ticket, Arrived, Spots
    <3>3. f[<<h, i, q>>] = <<g, 0>>
      BY <1>0, <2>1, <3>1
    <3>4. QED
      BY <2>1, <3>2, <3>3
  <2>2. CASE ~ (h = g /\ i = -1)
    <3>1. f[<<h, i, q>>] = <<h, i>>
      BY <1>0, <2>2
    <3>2. Ticket(b, h, i, q)
      BY <1>2, <1>4, <2>2 DEF Ticket
    <3>3. h = g /\ q = r => i # 0
      BY <1>1, <1>4 DEF Ticket
    <3>4. QED
      BY <3>1, <3>2, <3>3
  <2>3. QED
    BY <2>1, <2>2
<1>5. ASSUME NEW h \in PB!Procs, NEW k \in PB!Procs, NEW i \in Spots, NEW j \in Spots, NEW q \in Readers,
             Ticket(b, h, i, q)', Ticket(b, k, j, q)', f[<<h, i, q>>] = f[<<k, j, q>>]
      PROVE  h = k /\ i = j
  <2>1. (h = g /\ q = r => i # 0) /\ (k = g /\ q = r => j # 0)
    BY <1>4, <1>5
  <2>2. CASE q = r /\ h = g /\ i = -1
    <3>1. <<g, 0>> = f[<<k, j, q>>]
      BY <1>0, <1>5, <2>2
    <3>2. CASE k = g /\ j = -1
      BY <2>2, <3>2
    <3>3. CASE ~ (k = g /\ j = -1)
      <4>1. <<g, 0>> = <<k, j>>
        BY <1>0, <2>2, <3>1, <3>3
      <4>2. QED
        BY <2>1, <2>2, <4>1
    <3>4. QED
      BY <3>2, <3>3
  <2>3. CASE ~ (q = r /\ h = g /\ i = -1)
    <3>1. <<h, i>> = f[<<k, j, q>>]
      BY <1>0, <1>5, <2>3
    <3>2. CASE q = r /\ k = g /\ j = -1
      <4>1. <<h, i>> = <<g, 0>>
        BY <1>0, <3>1, <3>2
      <4>2. QED
        BY <2>1, <3>2, <4>1
    <3>3. CASE ~ (q = r /\ k = g /\ j = -1)
      <4>1. <<h, i>> = <<k, j>>
        BY <1>0, <3>1, <3>3
      <4>2. QED
        BY <4>1
    <3>4. QED
      BY <3>2, <3>3
  <2>4. QED
    BY <2>2, <2>3
<1>6. InClear(b) => InClear(b)'
  BY DEF InClear
<1>7. MovesBack(b, f)
  BY <1>4, <1>5 DEF MovesBack
<1>9. (b \in shared') = (b \in shared)
  OBVIOUS
<1>10. QED
  BY <1>6, <1>7, <1>9, MovedTickets

(* The ticket is sent: it is now the last of the channel. *)
LEMMA SendTickets ==
  ASSUME PB!TypeOK, NEW g \in PB!Procs, PB!Send(g), NEW b \in Bufs, TicketOk(b)
  PROVE  TicketOk(b)'
<1>1. PICK r \in PB!Queues :
        /\ at[g] = r /\ Len(queue[r]) < ChanSize /\ at' = [at EXCEPT ![g] = "fwd"]
        /\ queue' = [queue EXCEPT ![r] = Append(queue[r], hand[g])]
  BY DEF PB!Send, PB!At, PB!Goto, PB!Set
<1>2. UNCHANGED <<hand, left, shared, enc, marked>>
  BY DEF PB!Send, PB!buf
<1>3. queue[r] \in Seq(Bufs) /\ Len(queue[r]) \in Nat /\ hand[g] \in Bufs /\ ChanSize \in Nat
  <2>1. at[g] \notin {"idle", "gone"}
    BY <1>1, PktBufConstants DEF PB!Labels
  <2>2. QED
    BY <2>1, HandType, PktBufConstants DEF PB!TypeOK
<1>4. /\ \A h \in PB!Procs \ {g} : at'[h] = at[h]
      /\ at'[g] = "fwd" /\ "fwd" \notin PB!Queues /\ \A q \in Readers : q \in PB!Queues
      /\ \A q \in PB!Queues \ {r} : queue'[q] = queue[q]
      /\ queue'[r] = Append(queue[r], hand[g])
  BY <1>1, PktBufConstants DEF PB!TypeOK, PB!Labels, Readers, PB!Queues
<1> DEFINE end == Len(queue[r]) + 1
           f == [t \in PB!Procs \X Spots \X Readers |->
                   IF t[1] = r /\ t[3] = r /\ t[2] = end THEN <<g, -1>> ELSE <<t[1], t[2]>>]
<1>9. \A h \in PB!Procs, i \in Spots, q \in Readers :
        f[<<h, i, q>>] = IF h = r /\ q = r /\ i = end THEN <<g, -1>> ELSE <<h, i>>
  OBVIOUS
<1>10. Len(queue'[r]) = end /\ \A i \in 1 .. Len(queue[r]) : queue'[r][i] = queue[r][i]
  BY <1>3, <1>4
<1> HIDE DEF f
<1>5. ASSUME NEW h \in PB!Procs, NEW i \in Spots, NEW q \in Readers, Ticket(b, h, i, q)'
      PROVE  /\ ~ (h = g /\ i = -1)
             /\ \E k \in PB!Procs, j \in Spots :
                  f[<<h, i, q>>] = <<k, j>> /\ Ticket(b, k, j, q) /\ (Arrived(k, j, q) => Arrived(h, i, q))
  <2>1. ~ (h = g /\ i = -1)
    BY <1>4, <1>5 DEF Ticket
  <2>2. CASE h = r /\ q = r /\ i = end
    <3>1. queue'[r][end] = b
      BY <1>3, <1>5, <2>2 DEF Ticket
    <3>2. hand[g] = b
      BY <1>3, <1>4, <3>1
    <3>3. Ticket(b, g, -1, q) /\ ~ Arrived(g, -1, q) /\ -1 \in Spots
      BY <1>1, <1>3, <2>2, <3>2 DEF Ticket, Arrived, Spots
    <3>4. f[<<h, i, q>>] = <<g, -1>>
      BY <1>9, <2>2
    <3>5. QED
      BY <2>1, <3>3, <3>4
  <2>3. CASE ~ (h = r /\ q = r /\ i = end)
    <3>1. f[<<h, i, q>>] = <<h, i>>
      BY <1>9, <2>3
    <3>2. CASE i > 0
      <4>1. h = q /\ i <= Len(queue'[q]) /\ queue'[q][i] = b
        BY <1>5, <3>2 DEF Ticket
      <4>2. i <= Len(queue[q]) /\ queue[q][i] = b
        <5>1. CASE q = r
          BY <1>3, <1>10, <2>3, <3>2, <4>1, <5>1 DEF Spots
        <5>2. CASE q # r
          BY <1>4, <4>1, <5>2
        <5>3. QED
          BY <5>1, <5>2
      <4>3. QED
        BY <2>1, <3>1, <3>2, <4>1, <4>2 DEF Ticket
    <3>3. CASE i = 0
      BY <1>2, <1>5, <2>1, <3>1, <3>3 DEF Ticket
    <3>4. CASE i = -1
      BY <1>2, <1>4, <1>5, <2>1, <3>1, <3>4 DEF Ticket
    <3>5. i > 0 \/ i = 0 \/ i = -1
      BY <1>3 DEF Spots
    <3>6. QED
      BY <3>2, <3>3, <3>4, <3>5
  <2>4. QED
    BY <2>2, <2>3
<1>6. ASSUME NEW h \in PB!Procs, NEW k \in PB!Procs, NEW i \in Spots, NEW j \in Spots, NEW q \in Readers,
             Ticket(b, h, i, q)', Ticket(b, k, j, q)', f[<<h, i, q>>] = f[<<k, j, q>>]
      PROVE  h = k /\ i = j
  <2>1. ~ (h = g /\ i = -1) /\ ~ (k = g /\ j = -1)
    BY <1>5, <1>6
  <2>2. CASE q = r /\ h = r /\ i = end
    <3>1. <<g, -1>> = f[<<k, j, q>>]
      BY <1>6, <1>9, <2>2
    <3>2. CASE k = r /\ j = end
      BY <2>2, <3>2
    <3>3. CASE ~ (k = r /\ j = end)
      <4>1. <<g, -1>> = <<k, j>>
        BY <1>9, <2>2, <3>1, <3>3
      <4>2. QED
        BY <2>1, <4>1
    <3>4. QED
      BY <3>2, <3>3
  <2>3. CASE ~ (q = r /\ h = r /\ i = end)
    <3>1. <<h, i>> = f[<<k, j, q>>]
      BY <1>6, <1>9, <2>3
    <3>2. CASE q = r /\ k = r /\ j = end
      <4>1. <<h, i>> = <<g, -1>>
        BY <1>9, <3>1, <3>2
      <4>2. QED
        BY <2>1, <4>1
    <3>3. CASE ~ (q = r /\ k = r /\ j = end)
      <4>1. <<h, i>> = <<k, j>>
        BY <1>9, <3>1, <3>3
      <4>2. QED
        BY <4>1
    <3>4. QED
      BY <3>2, <3>3
  <2>4. QED
    BY <2>2, <2>3
<1>7. InClear(b) => InClear(b)'
  BY <1>2 DEF InClear
<1>11. MovesBack(b, f)
  BY <1>5, <1>6 DEF MovesBack
<1>13. (b \in shared') = (b \in shared)
  BY <1>2
<1>14. QED
  BY <1>7, <1>11, <1>13, MovedTickets

(* Who lets go of a buffer, or takes one to give it to nobody yet, issues  *)
(* no ticket.                                                              *)
LEMMA NoNewTickets ==
  ASSUME NEW g \in PB!Procs, left' = left, at'[g] \notin PB!Queues,
         \A h \in PB!Procs \ {g} : at'[h] = at[h],
         NEW b \in Bufs, \A h \in PB!Procs : hand'[h] = b => hand[h] = b \/ (h = g /\ g \notin Clients /\ left[g] = {}),
         \A q \in Readers : queue'[q] = queue[q] \/ queue'[q] = <<>>
  PROVE  \A h \in PB!Procs, i \in Spots, q \in Readers : Ticket(b, h, i, q)' => Ticket(b, h, i, q)
<1> SUFFICES ASSUME NEW h \in PB!Procs, NEW i \in Spots, NEW q \in Readers, Ticket(b, h, i, q)'
             PROVE  Ticket(b, h, i, q)
  OBVIOUS
<1>1. q \in PB!Queues /\ i \in Int
  BY PktBufConstants DEF Readers, PB!Queues, Spots
<1>2. CASE i > 0
  <2>1. h = q /\ i <= Len(queue'[q]) /\ queue'[q][i] = b
    BY <1>1, <1>2 DEF Ticket
  <2>2. queue'[q] = queue[q]
    BY <1>1, <1>2, <2>1
  <2>3. QED
    BY <1>2, <2>1, <2>2 DEF Ticket
<1>3. CASE i = 0
  BY <1>3 DEF Ticket
<1>4. CASE i = -1
  BY <1>1, <1>4 DEF Ticket
<1>5. QED
  BY <1>1, <1>2, <1>3, <1>4 DEF Ticket

(* A source that reads, or the reader of the backup link, gives the buffer *)
(* to one client at most, or shares it.                                    *)
LEMMA NewGoals ==
  ASSUME NEW g \in PB!Procs, NEW S \in PB!Goals(g), NEW b \in Bufs, InClear(b)', PB!Share(b, S),
         \A h \in PB!Procs, i \in Spots, q \in Readers : Ticket(b, h, i, q)' => h = g /\ i = 0 /\ q \in S
  PROVE  TicketOk(b)'
<1>1. CASE Cardinality(S \cap Clients) > 1
  <2>1. b \in shared'
    BY <1>1, SameFinite DEF PB!Share
  <2>2. Recv \notin S
    <3>1. SUFFICES ASSUME S = {Recv} PROVE FALSE
      BY PktBufConstants DEF PB!Goals
    <3>2. S \cap Clients = {}
      BY <3>1, PktBufConstants
    <3>3. QED
      BY <1>1, <3>2, FS_EmptySet
  <2>3. NotForRecv(b)'
    BY <2>2 DEF NotForRecv, Readers
  <2>4. QED
    BY <2>1, <2>3 DEF TicketOk
<1>2. CASE ~ (Cardinality(S \cap Clients) > 1)
  <2>1. b \notin shared'
    BY <1>2, SameFinite DEF PB!Share
  <2>2. ASSUME NEW q \in S \cap Readers, NEW r \in S \cap Readers PROVE q = r
    <3>1. CASE S = {Recv}
      BY <3>1
    <3>2. CASE S \subseteq Clients \cup {Stat}
      <4>1. q \in S \cap Clients /\ r \in S \cap Clients
        BY <3>2, PktBufConstants DEF Readers
      <4>2. SUFFICES ASSUME q # r PROVE FALSE
        OBVIOUS
      <4>3. IsFiniteSet({q}) /\ Cardinality({q}) = 1
        BY FS_Singleton
      <4>4. IsFiniteSet({q} \cup {r}) /\ Cardinality({q} \cup {r}) = 2
        <5>1. /\ IsFiniteSet({q} \cup {r})
              /\ Cardinality({q} \cup {r}) = IF r \in {q} THEN Cardinality({q}) ELSE Cardinality({q}) + 1
          BY <4>3, FS_AddElement, Zenon
        <5>2. QED
          BY <4>2, <4>3, <5>1
      <4>5. IsFiniteSet(S \cap Clients)
        <5>1. IsFiniteSet(Clients) /\ S \cap Clients \in SUBSET Clients
          BY PktBufConstants
        <5>2. QED
          BY <5>1, FS_Subset
      <4>6. {q} \cup {r} \subseteq S \cap Clients
        BY <4>1
      <4>7. 2 <= Cardinality(S \cap Clients) /\ Cardinality(S \cap Clients) \in Nat
        BY <4>4, <4>5, <4>6, FS_Subset, FS_CardinalityType
      <4>8. QED
        BY <1>2, <4>7
    <3>3. QED
      BY <3>1, <3>2 DEF PB!Goals
  <2>3. OneTicket(b)'
    BY <2>2 DEF OneTicket
  <2>4. Pending(b)'
    BY DEF Pending
  <2>5. QED
    BY <2>1, <2>3, <2>4 DEF TicketOk
<1>3. QED
  BY <1>1, <1>2

(* A client in whose hand the buffer is may change it: it has the ticket. *)
LEMMA WriterTickets ==
  ASSUME PB!TypeOK, NEW c \in Clients, UNCHANGED <<hand, left, queue, shared>>,
         at'[c] \notin PB!Queues, \A h \in PB!Procs \ {c} : at'[h] = at[h],
         \A b \in Bufs \ {hand[c]} : enc'[b] = enc[b] /\ marked'[b] = marked[b],
         NEW b \in Bufs, TicketOk(b)
  PROVE  TicketOk(b)'
<1>1. c \in PB!Procs /\ c \in Readers /\ 0 \in Spots
  BY PktBufConstants DEF PB!Procs, PB!Queues, Readers, Spots
<1>2. \A h \in PB!Procs, i \in Spots, q \in Readers : Ticket(b, h, i, q)' => Ticket(b, h, i, q)
  BY <1>1, NoNewTickets
<1>3. CASE b # hand[c]
  <2>1. InClear(b) => InClear(b)'
    BY <1>3 DEF InClear
  <2>2. (b \in shared') = (b \in shared)
    OBVIOUS
  <2>3. QED
    BY <1>2, <2>1, <2>2, KeptTickets
<1>4. CASE b = hand[c] /\ b \in shared
  BY <1>2, <1>4 DEF TicketOk, NotForRecv, Readers
<1>5. CASE b = hand[c] /\ b \notin shared
  <2>1. Ticket(b, c, 0, c)
    BY <1>5 DEF Ticket
  <2>2. OneTicket(b)
    BY <1>5 DEF TicketOk
  <2>3. OneTicket(b)'
    BY <1>2, <2>2 DEF OneTicket
  <2>4. \A h \in PB!Procs, i \in Spots, q \in Readers : Ticket(b, h, i, q)' => Arrived(h, i, q)
    BY <1>1, <1>2, <2>1, <2>2 DEF OneTicket, Arrived
  <2>5. Pending(b)'
    BY <2>4 DEF Pending, Arrived
  <2>6. QED
    BY <1>5, <2>3, <2>5 DEF TicketOk
<1>6. QED
  BY <1>3, <1>4, <1>5
-----------------------------------------------------------------------------
LEMMA GetTickets ==
  ASSUME WireInv, NEW g \in PB!Procs, PB!GetPktFromPool(g), NEW b \in Bufs
  PROVE  TicketOk(b)'
<1>1. PICK d \in pool :
        /\ g \in Sources /\ at[g] = "idle" /\ at' = [at EXCEPT ![g] = "read"]
        /\ enc' = [enc EXCEPT ![d] = 0] /\ marked' = [marked EXCEPT ![d] = FALSE]
        /\ hand' = [hand EXCEPT ![g] = d] /\ UNCHANGED <<queue, left, shared>>
  BY DEF PB!GetPktFromPool, PB!At, PB!Goto, PB!Set
<1>2. PB!TypeOK /\ TicketOk(b) /\ RoleOf(g)
  BY DEF WireInv, BufInv, TicketInv, Roles
<1>3. left[g] = {} /\ g \notin Clients /\ at'[g] \notin PB!Queues
  <2>1. "idle" \notin PB!Queues /\ "read" \notin PB!Queues
    BY PktBufConstants DEF PB!Labels
  <2>2. QED
    BY <1>1, <1>2, <2>1, PktBufConstants DEF RoleOf, PB!TypeOK, PB!Queues
<1>4. \A h \in PB!Procs \ {g} : at'[h] = at[h] /\ hand'[h] = hand[h]
  BY <1>1, <1>2 DEF PB!TypeOK
<1>5. \A h \in PB!Procs, i \in Spots, q \in Readers : Ticket(b, h, i, q)' => Ticket(b, h, i, q)
  BY <1>1, <1>3, <1>4, NoNewTickets
<1>6. InClear(b) => InClear(b)'
  BY <1>1, <1>2 DEF InClear, PB!TypeOK
<1>7. (b \in shared') = (b \in shared)
  BY <1>1
<1>8. QED
  BY <1>2, <1>5, <1>6, <1>7, KeptTickets

LEMMA ReadTickets ==
  ASSUME WireInv, NEW g \in PB!Procs, PB!Read(g), NEW b \in Bufs
  PROVE  TicketOk(b)'
<1>1. PICK S \in PB!Goals(g) :
        /\ at[g] = "read" /\ at' = [at EXCEPT ![g] = "fwd"] /\ left' = [left EXCEPT ![g] = S]
        /\ PB!Share(hand[g], S) /\ UNCHANGED <<queue, hand, enc, marked>>
  BY DEF PB!Read, PB!At, PB!Goto, PB!Set, PB!buf
<1>2. PB!TypeOK /\ TicketOk(b) /\ BufInv /\ Roles /\ ReadInv
  BY DEF WireInv, BufInv, TicketInv
<1>3. /\ hand[g] \in Bufs /\ g \in Sources /\ \A h \in PB!Procs : hand[h] = hand[g] => h = g
      /\ \A h \in PB!Procs, i \in Spots, q \in Readers : ~ Ticket(hand[g], h, i, q)
  BY <1>1, <1>2, ReadAlone
<1>4. /\ \A h \in PB!Procs \ {g} : at'[h] = at[h] /\ left'[h] = left[h]
      /\ at'[g] = "fwd" /\ left'[g] = S /\ "fwd" \notin PB!Queues /\ g \notin Clients
      /\ \A q \in Readers : q \in PB!Queues
  BY <1>1, <1>2, <1>3, PktBufConstants DEF PB!TypeOK, PB!Labels, PB!Queues, Readers
<1>5. InClear(b) => InClear(b)'
  BY <1>1 DEF InClear
<1>6. \A h \in PB!Procs, i \in Spots, q \in Readers :
        Ticket(b, h, i, q)' => Ticket(b, h, i, q) \/ (b = hand[g] /\ h = g /\ i = 0 /\ q \in S)
  BY <1>1, <1>4 DEF Ticket
<1>7. CASE b # hand[g]
  <2>1. (b \in shared') = (b \in shared)
    BY <1>1, <1>7 DEF PB!Share
  <2>2. \A h \in PB!Procs, i \in Spots, q \in Readers : Ticket(b, h, i, q)' => Ticket(b, h, i, q)
    BY <1>6, <1>7
  <2>3. QED
    BY <1>2, <1>5, <2>1, <2>2, KeptTickets
<1>8. CASE b = hand[g]
  <2>1. \A h \in PB!Procs, i \in Spots, q \in Readers : Ticket(b, h, i, q)' => h = g /\ i = 0 /\ q \in S
    BY <1>3, <1>6, <1>8
  <2>2. InClear(b)' /\ PB!Share(b, S)
    BY <1>1, <1>2, <1>5, <1>8 DEF ReadInv
  <2>3. QED
    BY <2>1, <2>2, NewGoals
<1>9. QED
  BY <1>7, <1>8

(* The reader of the backup link takes a buffer that has one ticket, and   *)
(* gives it to new ones.                                                   *)
LEMMA RecvTickets ==
  ASSUME WireInv, PB!RecvTake, NEW b \in Bufs
  PROVE  TicketOk(b)'
<1>1. PICK S \in PB!Goals(Recv) :
        /\ at[Recv] = "idle" /\ queue[Recv] # <<>> /\ at' = [at EXCEPT ![Recv] = "fwd"]
        /\ hand' = [hand EXCEPT ![Recv] = Head(queue[Recv])] /\ left' = [left EXCEPT ![Recv] = S]
        /\ queue' = [queue EXCEPT ![Recv] = Tail(queue[Recv])] /\ PB!Share(Head(queue[Recv]), S)
        /\ UNCHANGED <<enc, marked>>
  BY DEF PB!RecvTake, PB!At, PB!Goto, PB!Set, PB!buf
<1>2. PB!TypeOK /\ TicketOk(b)
  BY DEF WireInv, BufInv, TicketInv
<1>3. Recv \in PB!Procs /\ Recv \in PB!Queues /\ Recv \in Readers /\ Recv \notin Clients /\ 1 \in Spots
  BY PktBufConstants DEF PB!Procs, PB!Queues, Readers, Spots
<1>4. queue[Recv] \in Seq(Bufs) /\ Len(queue[Recv]) \in Nat /\ Len(queue[Recv]) > 0
  BY <1>1, <1>2, <1>3 DEF PB!TypeOK
<1>5. /\ \A h \in PB!Procs \ {Recv} : at'[h] = at[h] /\ hand'[h] = hand[h] /\ left'[h] = left[h]
      /\ at'[Recv] = "fwd" /\ hand'[Recv] = Head(queue[Recv]) /\ left'[Recv] = S
      /\ \A q \in PB!Queues \ {Recv} : queue'[q] = queue[q]
      /\ queue'[Recv] = Tail(queue[Recv]) /\ "fwd" \notin PB!Queues /\ \A q \in Readers : q \in PB!Queues
  BY <1>1, <1>2, <1>3, PktBufConstants DEF PB!TypeOK, PB!Labels, PB!Queues, Readers
<1>6. InClear(b) => InClear(b)'
  BY <1>1 DEF InClear
<1>7. CASE b # Head(queue[Recv])
  <2>1. (b \in shared') = (b \in shared)
    BY <1>1, <1>7 DEF PB!Share
  <2>2. \A q \in Readers : Ticket(b, Recv, 0, q)' => q = Recv /\ Recv \in Clients
    BY <1>5, <1>7 DEF Ticket
  <2>3. PICK l \in PB!Labels : at' = [at EXCEPT ![Recv] = l]
    BY <1>1 DEF PB!Labels
  <2>4. \A g \in PB!Procs \ {Recv} : left'[g] = left[g]
    BY <1>5
  <2>5. /\ at[Recv] = "idle" /\ queue[Recv] # <<>>
        /\ hand' = [hand EXCEPT ![Recv] = Head(queue[Recv])]
        /\ queue' = [queue EXCEPT ![Recv] = Tail(queue[Recv])]
    BY <1>1
  <2>6. Recv \in Readers
    BY <1>3
  <2>7. QED
    BY <1>2, <1>6, <2>1, <2>2, <2>3, <2>4, <2>5, <2>6, TakeTickets
<1>8. CASE b = Head(queue[Recv])
  <2>1. Ticket(b, Recv, 1, Recv) /\ ~ Arrived(Recv, 1, Recv)
    BY <1>3, <1>4, <1>8 DEF Ticket, Arrived
  <2>2. b \notin shared
    BY <1>2, <1>3, <2>1 DEF TicketOk, NotForRecv
  <2>3. \A h \in PB!Procs, i \in Spots, q \in Readers : Ticket(b, h, i, q) => h = Recv /\ i = 1 /\ q = Recv
    BY <1>2, <1>3, <2>1, <2>2 DEF TicketOk, OneTicket
  <2>4. InClear(b)'
    BY <1>2, <1>3, <1>6, <2>1, <2>2 DEF TicketOk, Pending
  <2>5. ASSUME NEW h \in PB!Procs, NEW i \in Spots, NEW q \in Readers, Ticket(b, h, i, q)'
        PROVE  h = Recv /\ i = 0 /\ q \in S
    <3>0. ChanSize \in Nat /\ i \in Int /\ i >= -1
      BY PktBufConstants DEF Spots
    <3>1. CASE i > 0 /\ q = Recv
      <4>0. h = Recv /\ i <= Len(queue'[Recv]) /\ queue'[Recv][i] = b
        BY <2>5, <3>0, <3>1 DEF Ticket
      <4>1. i <= Len(Tail(queue[Recv])) /\ Tail(queue[Recv])[i] = b
        BY <1>5, <4>0
      <4>2. i + 1 <= Len(queue[Recv]) /\ queue[Recv][i + 1] = b /\ Len(queue[Recv]) <= ChanSize
        BY <1>2, <1>3, <1>4, <3>0, <3>1, <4>1 DEF PB!TypeOK
      <4>3. Ticket(b, Recv, i + 1, Recv) /\ i + 1 \in Spots
        BY <1>4, <3>0, <3>1, <4>2 DEF Ticket, Spots
      <4>4. i + 1 = 1
        BY <1>3, <2>3, <4>3
      <4>5. QED
        BY <3>0, <3>1, <4>4
    <3>2. CASE i > 0 /\ q # Recv
      <4>1. Ticket(b, h, i, q)
        BY <1>5, <2>5, <3>0, <3>2 DEF Ticket
      <4>2. QED
        BY <2>3, <3>2, <4>1
    <3>3. CASE i = 0 /\ h = Recv
      BY <1>3, <1>5, <2>5, <3>3 DEF Ticket
    <3>4. CASE i <= 0 /\ h # Recv
      <4>1. Ticket(b, h, i, q)
        BY <1>5, <2>5, <3>0, <3>4 DEF Ticket
      <4>2. QED
        BY <2>3, <3>4, <4>1
    <3>5. CASE i = -1 /\ h = Recv
      BY <1>5, <2>5, <3>5 DEF Ticket
    <3>6. QED
      BY <3>0, <3>1, <3>2, <3>3, <3>4, <3>5
  <2>6. QED
    BY <1>1, <1>3, <1>8, <2>4, <2>5, NewGoals
<1>9. QED
  BY <1>7, <1>8

LEMMA TicketStep == WireInv /\ [PB!Next]_pktBuf => TicketInv'
<1> SUFFICES ASSUME WireInv, [PB!Next]_pktBuf, NEW b \in Bufs PROVE TicketOk(b)'
  BY DEF TicketInv
<1>0. PB!TypeOK /\ TicketOk(b) /\ Roles
  BY DEF WireInv, BufInv, TicketInv
<1>1. ASSUME NEW g \in PB!Procs,
             PB!ReadFails(g) \/ PB!ReleasePktBuf(g) \/ PB!PoolPut(g) \/ (g \in Clients /\ PB!WriteFails(g))
      PROVE  TicketOk(b)'
  <2>1. PICK l \in {"idle", "last", "gone"} :
          /\ at' = [at EXCEPT ![g] = l] /\ (hand' = hand \/ hand' = [hand EXCEPT ![g] = None])
          /\ queue' = queue \/ (g \in Clients /\ queue' = [queue EXCEPT ![g] = <<>>])
          /\ UNCHANGED <<left, enc, marked, shared>>
    BY <1>1 DEF PB!ReadFails, PB!ReleasePktBuf, PB!PoolPut, PB!WriteFails, PB!Goto, PB!Set, PB!buf
  <2>2. at'[g] \notin PB!Queues /\ \A h \in PB!Procs \ {g} : at'[h] = at[h]
    BY <1>0, <2>1, PktBufConstants DEF PB!TypeOK, PB!Labels
  <2>3. \A h \in PB!Procs : hand'[h] = b => hand[h] = b
    BY <1>0, <2>1, PktBufConstants DEF PB!TypeOK
  <2>4. \A q \in Readers : queue'[q] = queue[q] \/ queue'[q] = <<>>
    BY <1>0, <2>1 DEF PB!TypeOK, Readers, PB!Queues
  <2>5. \A h \in PB!Procs, i \in Spots, q \in Readers : Ticket(b, h, i, q)' => Ticket(b, h, i, q)
    BY <2>1, <2>2, <2>3, <2>4, NoNewTickets
  <2>6. (InClear(b) => InClear(b)') /\ (b \in shared') = (b \in shared)
    BY <2>1 DEF InClear
  <2>7. QED
    BY <1>0, <2>5, <2>6, KeptTickets
<1>2. CASE PB!StatTake \/ PB!StatRelease
  <2>1. PICK l \in {"look", "idle"} :
          /\ at[Stat] \in {"look", "idle"} /\ at' = [at EXCEPT ![Stat] = l]
          /\ \A h \in PB!Procs \ {Stat} : hand'[h] = hand[h]
          /\ \A q \in Readers : queue'[q] = queue[q]
          /\ UNCHANGED <<left, enc, marked, shared>>
    BY <1>0, <1>2, PktBufConstants
       DEF PB!StatTake, PB!StatRelease, PB!At, PB!Goto, PB!Set, PB!buf, PB!TypeOK, Readers, PB!Queues
  <2>2. Stat \in PB!Procs /\ Stat \notin Clients
    BY PktBufConstants DEF PB!Procs, PB!Queues
  <2>3. at'[Stat] \notin PB!Queues /\ \A h \in PB!Procs \ {Stat} : at'[h] = at[h]
    BY <1>0, <2>1, <2>2, PktBufConstants DEF PB!TypeOK, PB!Labels
  <2>4. left[Stat] = {}
    <3>1. RoleOf(Stat) /\ at[Stat] \notin PB!Queues /\ at[Stat] # "fwd"
      BY <1>0, <2>1, <2>2, PktBufConstants DEF Roles, PB!Labels
    <3>2. QED
      BY <3>1 DEF RoleOf
  <2>5. \A h \in PB!Procs, i \in Spots, q \in Readers : Ticket(b, h, i, q)' => Ticket(b, h, i, q)
    BY <2>1, <2>2, <2>3, <2>4, NoNewTickets
  <2>6. (InClear(b) => InClear(b)') /\ (b \in shared') = (b \in shared)
    BY <2>1 DEF InClear
  <2>7. QED
    BY <1>0, <2>5, <2>6, KeptTickets
<1>3. ASSUME NEW g \in PB!Procs, PB!Hold(g) \/ PB!PutToRecvQueue(g) PROVE TicketOk(b)'
  <2>1. PICK r \in left[g] :
          /\ at[g] = "fwd" /\ left'[g] \subseteq left[g] \ {r} /\ \A h \in PB!Procs \ {g} : left'[h] = left[h]
          /\ at' = at \/ at' = [at EXCEPT ![g] = r]
          /\ UNCHANGED <<hand, queue, shared, enc, marked>>
    <3>1. CASE PB!Hold(g)
      BY <1>0, <3>1 DEF PB!Hold, PB!At, PB!Goto, PB!Set, PB!TypeOK
    <3>2. CASE PB!PutToRecvQueue(g)
      BY <1>0, <3>2 DEF PB!PutToRecvQueue, PB!At, PB!Goto, PB!Set, PB!TypeOK
    <3>3. QED
      BY <1>3, <3>1, <3>2
  <2>2. g \in Sources \cup {Recv}
    BY <1>0, <2>1 DEF Roles, RoleOf
  <2>3. QED
    BY <1>0, <2>1, <2>2, HoldTickets
<1>4. ASSUME NEW c \in Clients, PB!WriterTake(c) PROVE TicketOk(b)'
  <2>1. PICK l \in {"encrypt", "write"} :
          /\ at[c] = "idle" /\ queue[c] # <<>> /\ at' = [at EXCEPT ![c] = l]
          /\ hand' = [hand EXCEPT ![c] = Head(queue[c])] /\ queue' = [queue EXCEPT ![c] = Tail(queue[c])]
          /\ UNCHANGED <<left, enc, marked, shared>>
    BY <1>4 DEF PB!WriterTake, PB!At, PB!Goto, PB!Set, PB!buf
  <2>2. c \in Readers /\ c \in PB!Procs /\ l \in PB!Labels
    BY DEF Readers, PB!Procs, PB!Queues, PB!Labels
  <2>3. left'[c] = {}
    <3>1. RoleOf(c) /\ at[c] \notin PB!Queues /\ at[c] # "fwd"
      BY <1>0, <2>1, <2>2, PktBufConstants DEF Roles, PB!Labels
    <3>2. QED
      BY <2>1, <3>1 DEF RoleOf
  <2>4. \A q \in Readers : Ticket(b, c, 0, q)' => q = c /\ c \in Clients
    BY <2>3 DEF Ticket
  <2>5. (InClear(b) => InClear(b)') /\ (b \in shared') = (b \in shared)
    BY <2>1 DEF InClear
  <2>6. \A g \in PB!Procs \ {c} : left'[g] = left[g]
    BY <2>1
  <2>7. QED
    BY <1>0, <2>1, <2>2, <2>4, <2>5, <2>6, TakeTickets
<1>5. ASSUME NEW c \in Clients, PB!Encrypt(c) \/ PB!Mark(c) \/ PB!WriteOk(c) \/ PB!Written(c) PROVE TicketOk(b)'
  <2>1. c \in PB!Procs
    BY DEF PB!Procs, PB!Queues
  <2>2. PICK l \in {"mark", "write", "sent", "put"} :
          /\ at' = [at EXCEPT ![c] = l] /\ UNCHANGED <<hand, left, queue, shared>>
          /\ \A d \in Bufs \ {hand[c]} : enc'[d] = enc[d] /\ marked'[d] = marked[d]
    BY <1>0, <1>5 DEF PB!Encrypt, PB!Mark, PB!WriteOk, PB!Written, PB!Goto, PB!Set, PB!buf, PB!TypeOK
  <2>3. at'[c] \notin PB!Queues /\ \A h \in PB!Procs \ {c} : at'[h] = at[h]
    BY <1>0, <2>1, <2>2, PktBufConstants DEF PB!TypeOK, PB!Labels
  <2>4. QED
    BY <1>0, <2>2, <2>3, WriterTickets
<1>6. CASE UNCHANGED pktBuf \/ (\E c \in Clients : PB!Close(c)) \/ \E d \in Bufs : PB!Collect(d)
  <2>1. UNCHANGED <<hand, left, queue, shared, at, enc, marked>>
    BY <1>6 DEF pktBuf, PB!Close, PB!Collect, PB!buf
  <2>2. (InClear(b) => InClear(b)') /\ (b \in shared') = (b \in shared)
    BY <2>1 DEF InClear
  <2>3. \A h \in PB!Procs, i \in Spots, q \in Readers : Ticket(b, h, i, q)' => Ticket(b, h, i, q)
    BY <2>1 DEF Ticket
  <2>4. QED
    BY <1>0, <2>2, <2>3, KeptTickets
<1>7. Clients \subseteq PB!Procs
  BY DEF PB!Procs, PB!Queues
<1>8. QED
  BY <1>0, <1>1, <1>2, <1>3, <1>4, <1>5, <1>6, <1>7, GetTickets, ReadTickets, RecvTickets, SendTickets DEF PB!Next
-----------------------------------------------------------------------------
(* Nothing changes for the client c and the buffer in its hand. *)
Steady(c) ==
  /\ hand'[c] = hand[c] /\ at'[c] = at[c] /\ sent'[c] = sent[c]
  /\ hand[c] \in Bufs /\ hand[c] \notin shared' =>
       hand[c] \notin shared /\ enc'[hand[c]] = enc[hand[c]] /\ marked'[hand[c]] = marked[hand[c]]

LEMMA SteadyStage ==
  ASSUME PB!TypeOK, NEW c \in Clients, StageOf(c), Steady(c)
  PROVE  StageOf(c)'
<1>1. c \in PB!Procs
  BY DEF PB!Procs, PB!Queues
<1>2. hand[c] # None => hand[c] \in Bufs
  BY <1>1 DEF PB!TypeOK
<1>3. SUFFICES ASSUME hand'[c] # None, hand'[c] \notin shared' PROVE StageOf(c)'
  BY DEF StageOf
<1>4. hand[c] # None /\ hand[c] \notin shared /\ enc'[hand[c]] = enc[hand[c]] /\ marked'[hand[c]] = marked[hand[c]]
  BY <1>2, <1>3 DEF Steady
<1>5. QED
  BY <1>4 DEF StageOf, Steady, InClear, Form

(* Two readers have the same buffer in hand only if it is shared. *)
LEMMA OneWriter ==
  ASSUME TicketInv, NEW c \in Clients, NEW d \in Clients, c # d, hand[c] = hand[d], hand[c] \in Bufs
  PROVE  hand[c] \in shared
<1>1. Ticket(hand[c], c, 0, c) /\ Ticket(hand[c], d, 0, d)
  BY DEF Ticket
<1>2. c \in PB!Procs /\ d \in PB!Procs /\ c \in Readers /\ d \in Readers /\ 0 \in Spots
  BY PktBufConstants DEF PB!Procs, PB!Queues, Readers, Spots
<1>3. TicketOk(hand[c])
  BY DEF TicketInv
<1>4. QED
  BY <1>1, <1>2, <1>3 DEF TicketOk, OneTicket

LEMMA StageStep == WireInv /\ [PB!Next]_pktBuf => StageInv'
<1> SUFFICES ASSUME WireInv, [PB!Next]_pktBuf, NEW c \in Clients PROVE StageOf(c)'
  BY DEF StageInv
<1>0. PB!TypeOK /\ BufInv /\ CountInv /\ Roles /\ ReadInv /\ TicketInv /\ StageOf(c)
  BY DEF WireInv, BufInv, StageInv
<1>1. /\ c \in PB!Procs /\ c \notin Sources /\ c # Recv /\ c # Stat /\ c \in PB!Queues
      /\ c \in Readers /\ 0 \in Spots /\ 1 \in Spots
  BY PktBufConstants DEF PB!Procs, PB!Queues, Readers, Spots
<1>2. SUFFICES ASSUME ~ Steady(c) PROVE StageOf(c)'
  BY <1>0, SteadyStage
<1>3. ASSUME NEW g \in PB!Procs, PB!GetPktFromPool(g) PROVE FALSE
  <2>1. PICK d \in pool :
          /\ g \in Sources /\ at' = [at EXCEPT ![g] = "read"]
          /\ enc' = [enc EXCEPT ![d] = 0] /\ marked' = [marked EXCEPT ![d] = FALSE]
          /\ hand' = [hand EXCEPT ![g] = d] /\ UNCHANGED <<sent, shared>>
    BY <1>3 DEF PB!GetPktFromPool, PB!Goto, PB!Set
  <2>2. PB!Places(d) = {} /\ d \in Bufs
    BY <1>0, <2>1 DEF CountInv, Counted, PB!TypeOK
  <2>3. hand[c] # d
    <3>1. hand[c] = d => <<c, 0>> \in PB!Places(d)
      BY <1>1 DEF PB!Places
    <3>2. QED
      BY <2>2, <3>1
  <2>4. QED
    BY <1>0, <1>1, <1>2, <2>1, <2>2, <2>3 DEF Steady, PB!TypeOK
<1>4. ASSUME NEW g \in PB!Procs, PB!Read(g) PROVE FALSE
  <2>1. at[g] = "read" /\ hand[c] # hand[g] /\ c # g
    <3>1. at[g] = "read"
      BY <1>4 DEF PB!Read, PB!At
    <3>2. QED
      BY <1>0, <1>1, <3>1, ReadAlone
  <2>2. PICK S \in PB!Goals(g) : PB!Share(hand[g], S)
    BY <1>4 DEF PB!Read
  <2>3. hand[c] \in shared' <=> hand[c] \in shared
    BY <2>1, <2>2 DEF PB!Share
  <2>4. at' = [at EXCEPT ![g] = "fwd"] /\ UNCHANGED <<hand, sent, enc, marked>>
    BY <1>4 DEF PB!Read, PB!Goto, PB!buf
  <2>5. QED
    BY <1>0, <1>1, <1>2, <2>1, <2>3, <2>4 DEF Steady, PB!TypeOK
<1>5. ASSUME NEW g \in PB!Procs, PB!ReadFails(g) \/ PB!Hold(g) \/ PB!PutToRecvQueue(g) \/ PB!Send(g) PROVE FALSE
  <2>1. at[g] \in PB!Queues \cup {"fwd", "read"}
    BY <1>5 DEF PB!ReadFails, PB!Hold, PB!PutToRecvQueue, PB!Send, PB!At
  <2>2. c # g
    BY <1>0, <1>1, <2>1 DEF Roles, RoleOf
  <2>3. at'[c] = at[c]
    BY <1>0, <1>1, <1>5, <2>2 DEF PB!ReadFails, PB!Hold, PB!PutToRecvQueue, PB!Send, PB!Goto, PB!TypeOK
  <2>4. hand'[c] = hand[c] /\ UNCHANGED <<sent, enc, marked, shared>>
    BY <1>0, <1>1, <1>5, <2>2 DEF PB!ReadFails, PB!Hold, PB!PutToRecvQueue, PB!Send, PB!Set, PB!buf, PB!TypeOK
  <2>5. QED
    BY <1>2, <2>3, <2>4 DEF Steady
<1>6. ASSUME NEW g \in PB!Procs, PB!ReleasePktBuf(g) \/ PB!PoolPut(g) PROVE StageOf(c)'
  <2>1. PICK l \in {"idle", "last"} :
          /\ at' = [at EXCEPT ![g] = l] /\ UNCHANGED <<sent, enc, marked, shared>>
          /\ hand' = hand \/ hand' = [hand EXCEPT ![g] = None]
    BY <1>6 DEF PB!ReleasePktBuf, PB!PoolPut, PB!Goto, PB!Set
  <2>2. CASE g = c
    <3>1. at'[c] \notin {"encrypt", "mark", "write", "sent"}
      BY <1>0, <1>1, <2>1, <2>2 DEF PB!TypeOK
    <3>2. QED
      BY <3>1 DEF StageOf
  <2>3. CASE g # c
    BY <1>0, <1>1, <1>2, <2>1, <2>3 DEF Steady, PB!TypeOK
  <2>4. QED
    BY <2>2, <2>3
<1>7. CASE PB!RecvTake
  <2> DEFINE d == Head(queue[Recv])
  <2>1. PICK S \in PB!Goals(Recv) : PB!Share(d, S)
    BY <1>7 DEF PB!RecvTake
  <2>2. /\ at' = [at EXCEPT ![Recv] = "fwd"] /\ hand' = [hand EXCEPT ![Recv] = d] /\ queue[Recv] # <<>>
        /\ UNCHANGED <<sent, enc, marked>>
    BY <1>7 DEF PB!RecvTake, PB!Goto, PB!Set, PB!buf
  <2>3. /\ Recv \in PB!Procs /\ Recv \in PB!Queues /\ Recv \in Readers /\ queue[Recv] \in Seq(Bufs)
        /\ Len(queue[Recv]) \in Nat /\ Len(queue[Recv]) > 0 /\ d \in Bufs
    BY <1>0, <2>2 DEF PB!Procs, PB!Queues, Readers, PB!TypeOK
  <2>4. Ticket(d, Recv, 1, Recv)
    BY <2>3 DEF Ticket
  <2>5. hand[c] # d
    <3>1. SUFFICES ASSUME hand[c] = d PROVE FALSE
      OBVIOUS
    <3>2. Ticket(d, c, 0, c)
      BY <3>1 DEF Ticket
    <3>3. TicketOk(d)
      BY <1>0, <2>3 DEF TicketInv
    <3>4. QED
      BY <1>1, <2>3, <2>4, <3>2, <3>3 DEF TicketOk, NotForRecv, OneTicket
  <2>6. hand[c] \in shared' <=> hand[c] \in shared
    BY <2>1, <2>5 DEF PB!Share
  <2>7. QED
    BY <1>0, <1>1, <1>2, <2>2, <2>3, <2>6 DEF Steady, PB!TypeOK
<1>8. CASE PB!StatTake \/ PB!StatRelease
  <2>1. at'[c] = at[c] /\ hand'[c] = hand[c] /\ UNCHANGED <<sent, enc, marked, shared>>
    BY <1>0, <1>1, <1>8 DEF PB!StatTake, PB!StatRelease, PB!Goto, PB!Set, PB!buf, PB!TypeOK
  <2>2. QED
    BY <1>2, <2>1 DEF Steady
<1>9. ASSUME NEW k \in Clients, PB!WriterTake(k) PROVE StageOf(c)'
  <2>1. /\ at' = [at EXCEPT ![k] = IF k \in Crypted THEN "encrypt" ELSE "write"] /\ queue[k] # <<>>
        /\ hand' = [hand EXCEPT ![k] = Head(queue[k])] /\ UNCHANGED <<sent, enc, marked, shared>>
    BY <1>9 DEF PB!WriterTake, PB!Goto, PB!Set, PB!buf
  <2>2. k = c
    BY <1>0, <1>1, <1>2, <2>1 DEF Steady, PB!TypeOK
  <2>3. /\ queue[c] \in Seq(Bufs) /\ Len(queue[c]) \in Nat /\ Len(queue[c]) > 0
        /\ hand'[c] = Head(queue[c]) /\ Head(queue[c]) \in Bufs
        /\ at'[c] = IF c \in Crypted THEN "encrypt" ELSE "write"
    BY <1>0, <1>1, <2>1, <2>2 DEF PB!TypeOK
  <2>4. SUFFICES ASSUME hand'[c] \notin shared PROVE StageOf(c)'
    BY <2>1 DEF StageOf
  <2>5. InClear(hand'[c])
    <3>1. Ticket(hand'[c], c, 1, c) /\ ~ Arrived(c, 1, c)
      BY <2>3 DEF Ticket, Arrived
    <3>2. Pending(hand'[c])
      BY <1>0, <2>3, <2>4 DEF TicketInv, TicketOk
    <3>3. QED
      BY <1>1, <3>1, <3>2 DEF Pending
  <2>6. InClear(hand[c])'
    BY <2>1, <2>5 DEF InClear
  <2>7. enc'[hand'[c]] = 0 /\ marked'[hand'[c]] = FALSE
    BY <2>6 DEF InClear
  <2>8. CASE c \in Crypted
    <3>1. at'[c] = "encrypt"
      BY <2>3, <2>8
    <3>2. QED
      BY <2>6, <3>1 DEF StageOf
  <2>9. CASE c \notin Crypted
    <3>1. at'[c] = "write"
      BY <2>3, <2>9
    <3>2. Form(c).enc = 0 /\ Form(c).marked = FALSE
      <4>1. (c \in Crypted) = FALSE
        BY <2>9
      <4>2. Form(c).marked = (c \in Crypted) /\ Form(c).enc = 0
        BY <2>9 DEF Form
      <4>3. QED
        BY <4>1, <4>2
    <3>3. QED
      BY <2>7, <3>1, <3>2 DEF StageOf
  <2>10. QED
    BY <2>8, <2>9
<1>10. ASSUME NEW k \in Clients, PB!Encrypt(k) PROVE StageOf(c)'
  <2>0. k \in PB!Procs
    BY DEF PB!Procs, PB!Queues
  <2>1. /\ at[k] = "encrypt" /\ at' = [at EXCEPT ![k] = "mark"] /\ enc' = [enc EXCEPT ![hand[k]] = enc[hand[k]] + 1]
        /\ UNCHANGED <<sent, marked, shared, hand>>
    BY <1>10 DEF PB!Encrypt, PB!At, PB!Goto, PB!Set
  <2>2. hand[k] \in Bufs
    BY <1>0, <2>0, <2>1, HandType
  <2>3. CASE k = c
    <3>1. SUFFICES ASSUME hand[c] \notin shared PROVE StageOf(c)'
      BY <2>1 DEF StageOf
    <3>2. InClear(hand[c])
      BY <1>0, <2>1, <2>2, <2>3, <3>1, PktBufConstants DEF StageOf
    <3>3. enc'[hand'[c]] = 1 /\ marked'[hand'[c]] = FALSE /\ at'[c] = "mark"
      BY <1>0, <1>1, <2>1, <2>2, <2>3, <3>2 DEF InClear, PB!TypeOK
    <3>4. QED
      BY <3>3 DEF StageOf
  <2>4. CASE k # c
    <3>1. hand[c] = hand[k] => hand[c] \in shared
      BY <1>0, <2>2, <2>4, OneWriter
    <3>2. QED
      BY <1>0, <1>1, <1>2, <2>1, <2>2, <2>4, <3>1 DEF Steady, PB!TypeOK
  <2>5. QED
    BY <2>3, <2>4
<1>11. ASSUME NEW k \in Clients, PB!Mark(k) PROVE StageOf(c)'
  <2>0. k \in PB!Procs
    BY DEF PB!Procs, PB!Queues
  <2>1. /\ at[k] = "mark" /\ at' = [at EXCEPT ![k] = "write"] /\ marked' = [marked EXCEPT ![hand[k]] = TRUE]
        /\ UNCHANGED <<sent, enc, shared, hand>>
    BY <1>11 DEF PB!Mark, PB!At, PB!Goto, PB!Set
  <2>2. hand[k] \in Bufs
    BY <1>0, <2>0, <2>1, HandType
  <2>3. CASE k = c
    <3>1. SUFFICES ASSUME hand[c] \notin shared PROVE StageOf(c)'
      BY <2>1 DEF StageOf
    <3>2. enc[hand[c]] = 1
      BY <1>0, <2>1, <2>2, <2>3, <3>1, PktBufConstants DEF StageOf
    <3>3. c \in Crypted
      BY <1>0, <1>1, <2>1, <2>3 DEF Roles, RoleOf
    <3>4. enc'[hand'[c]] = 1 /\ at'[c] = "write"
      BY <1>0, <1>1, <2>1, <2>2, <2>3, <3>2 DEF PB!TypeOK
    <3>5. marked'[hand'[c]] = TRUE
      BY <1>0, <2>1, <2>2, <2>3 DEF PB!TypeOK
    <3>6. QED
      BY <3>3, <3>4, <3>5 DEF StageOf, Form
  <2>4. CASE k # c
    <3>1. hand[c] = hand[k] => hand[c] \in shared
      BY <1>0, <2>2, <2>4, OneWriter
    <3>2. QED
      BY <1>0, <1>1, <1>2, <2>1, <2>2, <2>4, <3>1 DEF Steady, PB!TypeOK
  <2>5. QED
    BY <2>3, <2>4
<1>12. ASSUME NEW k \in Clients, PB!WriteOk(k) PROVE StageOf(c)'
  <2>1. /\ at[k] = "write" /\ at' = [at EXCEPT ![k] = "sent"] /\ UNCHANGED <<enc, marked, shared, hand>>
        /\ sent' = [sent EXCEPT ![k] = [enc |-> enc[hand[k]], marked |-> marked[hand[k]]]]
    BY <1>12 DEF PB!WriteOk, PB!At, PB!Goto, PB!Set, PB!buf
  <2>2. k = c
    BY <1>0, <1>1, <1>2, <2>1 DEF Steady, PB!TypeOK
  <2>3. SUFFICES ASSUME hand[c] # None, hand[c] \notin shared PROVE StageOf(c)'
    BY <2>1 DEF StageOf
  <2>4. enc[hand[c]] = Form(c).enc /\ marked[hand[c]] = Form(c).marked
    BY <1>0, <2>1, <2>2, <2>3 DEF StageOf
  <2>5. sent'[c] = [enc |-> Form(c).enc, marked |-> Form(c).marked]
    BY <1>0, <2>1, <2>2, <2>4 DEF PB!TypeOK
  <2>6. sent'[c] = Form(c)
    BY <2>5 DEF Form
  <2>7. at'[c] = "sent"
    BY <1>0, <1>1, <2>1, <2>2 DEF PB!TypeOK
  <2>8. QED
    BY <2>1, <2>4, <2>6, <2>7 DEF StageOf, Form
<1>13. ASSUME NEW k \in Clients, PB!Written(k) \/ PB!WriteFails(k) PROVE StageOf(c)'
  <2>0. k \in PB!Procs
    BY DEF PB!Procs, PB!Queues
  <2>1. PICK l \in {"put", "gone"} :
          /\ at' = [at EXCEPT ![k] = l] /\ UNCHANGED <<enc, marked, shared>>
          /\ hand' = hand \/ hand' = [hand EXCEPT ![k] = None]
          /\ sent' = sent \/ sent' = [sent EXCEPT ![k] = PB!Silent]
    BY <1>13 DEF PB!Written, PB!WriteFails, PB!Goto, PB!Set, PB!buf
  <2>2. k = c
    BY <1>0, <1>1, <1>2, <2>0, <2>1 DEF Steady, PB!TypeOK
  <2>3. at'[c] \notin {"encrypt", "mark", "write", "sent"}
    BY <1>0, <1>1, <2>1, <2>2 DEF PB!TypeOK
  <2>4. QED
    BY <2>3 DEF StageOf
<1>14. CASE UNCHANGED pktBuf \/ (\E k \in Clients : PB!Close(k)) \/ \E d \in Bufs : PB!Collect(d)
  BY <1>2, <1>14 DEF Steady, pktBuf, PB!Close, PB!Collect, PB!buf
<1>15. QED
  BY <1>3, <1>4, <1>5, <1>6, <1>7, <1>8, <1>9, <1>10, <1>11, <1>12, <1>13, <1>14 DEF PB!Next

LEMMA ReadStep == WireInv /\ [PB!Next]_pktBuf => ReadInv'
<1> SUFFICES ASSUME WireInv, [PB!Next]_pktBuf, NEW h \in PB!Procs, at'[h] = "read"
             PROVE  InClear(hand[h])' /\ ref'[hand'[h]] = 1
  BY DEF ReadInv
<1>0. PB!TypeOK /\ BufInv /\ CountInv /\ Roles /\ ReadInv
  BY DEF WireInv, BufInv
<1>1. "read" \notin PB!Queues
  BY PktBufConstants DEF PB!Labels
<1>2. ASSUME at[h] = "read"
      PROVE  /\ h \in Sources /\ hand[h] \in Bufs /\ hand[h] \notin pool /\ InClear(hand[h]) /\ ref[hand[h]] = 1
             /\ PB!Places(hand[h]) # {} /\ \A g \in PB!Procs : hand[g] = hand[h] => g = h
  BY <1>0, <1>2, ReadAlone DEF ReadInv
<1>3. ASSUME at[h] = "read", hand'[h] = hand[h], enc'[hand[h]] = enc[hand[h]],
             marked'[hand[h]] = marked[hand[h]], ref'[hand[h]] = ref[hand[h]]
      PROVE  InClear(hand[h])' /\ ref'[hand'[h]] = 1
  BY <1>2, <1>3 DEF InClear
<1>4. ASSUME NEW g \in PB!Procs, PB!GetPktFromPool(g) PROVE InClear(hand[h])' /\ ref'[hand'[h]] = 1
  <2>1. PICK d \in pool :
          /\ at' = [at EXCEPT ![g] = "read"] /\ hand' = [hand EXCEPT ![g] = d]
          /\ ref' = [ref EXCEPT ![d] = ref[d] + 1]
          /\ enc' = [enc EXCEPT ![d] = 0] /\ marked' = [marked EXCEPT ![d] = FALSE]
    BY <1>4 DEF PB!GetPktFromPool, PB!Goto, PB!Set
  <2>2. d \in Bufs /\ ref[d] = 0
    BY <1>0, <2>1 DEF CountInv, Counted, PB!TypeOK
  <2>3. /\ enc'[d] = 0 /\ marked'[d] = FALSE /\ ref'[d] = 1
        /\ \A b \in Bufs \ {d} : enc'[b] = enc[b] /\ marked'[b] = marked[b] /\ ref'[b] = ref[b]
    BY <1>0, <2>1, <2>2 DEF PB!TypeOK
  <2>4. CASE h = g
    <3>1. hand'[h] = d
      BY <1>0, <2>1, <2>4 DEF PB!TypeOK
    <3>2. QED
      BY <2>3, <3>1 DEF InClear
  <2>5. CASE h # g
    <3>1. at[h] = "read" /\ hand'[h] = hand[h]
      BY <1>0, <2>1, <2>5 DEF PB!TypeOK
    <3>2. hand[h] # d /\ hand[h] \in Bufs
      BY <1>2, <2>1, <3>1
    <3>3. QED
      BY <1>3, <2>3, <3>1, <3>2
  <2>6. QED
    BY <2>4, <2>5
<1>5. ASSUME NEW g \in PB!Procs,
             PB!Read(g) \/ PB!ReadFails(g) \/ PB!Send(g) \/ PB!PoolPut(g)
               \/ (g \in Clients /\ (PB!WriterTake(g) \/ PB!WriteOk(g) \/ PB!Written(g) \/ PB!WriteFails(g)))
               \/ (g = Recv /\ PB!RecvTake) \/ (g = Stat /\ PB!StatTake)
      PROVE  InClear(hand[h])' /\ ref'[hand'[h]] = 1
  <2>1. PICK l \in PB!Labels \ {"read"} :
          /\ at' = [at EXCEPT ![g] = l] /\ UNCHANGED <<ref, enc, marked>>
          /\ \A k \in PB!Procs \ {g} : hand'[k] = hand[k]
    BY <1>0, <1>5
       DEF PB!Read, PB!ReadFails, PB!Send, PB!PoolPut, PB!WriterTake, PB!WriteOk, PB!Written, PB!WriteFails,
           PB!RecvTake, PB!StatTake, PB!Goto, PB!Set, PB!buf, PB!Labels, PB!TypeOK
  <2>2. h # g /\ at[h] = "read"
    BY <1>0, <2>1 DEF PB!TypeOK
  <2>3. QED
    BY <1>3, <2>1, <2>2
<1>6. ASSUME NEW g \in PB!Procs,
             PB!Hold(g) \/ PB!PutToRecvQueue(g) \/ PB!ReleasePktBuf(g) \/ (g = Stat /\ PB!StatRelease)
      PROVE  InClear(hand[h])' /\ ref'[hand'[h]] = 1
  <2>1. at[g] # "read" /\ UNCHANGED <<enc, marked>>
    BY <1>6 DEF PB!Hold, PB!PutToRecvQueue, PB!ReleasePktBuf, PB!StatRelease, PB!At
  <2>2. \A k \in PB!Procs \ {g} : at'[k] = at[k] /\ hand'[k] = hand[k]
    BY <1>0, <1>6 DEF PB!Hold, PB!PutToRecvQueue, PB!ReleasePktBuf, PB!StatRelease, PB!Goto, PB!Set, PB!TypeOK
  <2>3. at'[g] # "read"
    <3>1. CASE PB!Hold(g)
      <4>1. PICK q \in left[g] : at' = at \/ at' = [at EXCEPT ![g] = q]
        BY <3>1 DEF PB!Hold, PB!Goto
      <4>2. q # "read"
        BY <1>0, <1>1 DEF PB!TypeOK
      <4>3. QED
        BY <1>0, <2>1, <4>1, <4>2 DEF PB!TypeOK
    <3>2. CASE PB!PutToRecvQueue(g)
      <4>1. Recv # "read"
        BY <1>1 DEF PB!Queues
      <4>2. QED
        BY <1>0, <2>1, <3>2, <4>1 DEF PB!PutToRecvQueue, PB!Goto, PB!TypeOK
    <3>3. CASE PB!ReleasePktBuf(g) \/ PB!StatRelease
      BY <1>0, <1>6, <3>3, <2>1 DEF PB!ReleasePktBuf, PB!StatRelease, PB!Goto, PB!TypeOK
    <3>4. QED
      BY <1>6, <3>1, <3>2, <3>3
  <2>4. \A b \in Bufs \ {hand[g]} : ref'[b] = ref[b]
    BY <1>0, <1>6
       DEF PB!Hold, PB!PutToRecvQueue, PB!ReleasePktBuf, PB!StatRelease, PB!HoldPktBuf, PB!StatDec, PB!Set, PB!TypeOK
  <2>5. h # g /\ at[h] = "read"
    BY <2>2, <2>3
  <2>6. hand[h] # hand[g] /\ hand[h] \in Bufs
    BY <1>2, <2>5
  <2>7. QED
    BY <1>3, <2>1, <2>2, <2>4, <2>5, <2>6
<1>7. ASSUME NEW c \in Clients, PB!Encrypt(c) \/ PB!Mark(c) PROVE InClear(hand[h])' /\ ref'[hand'[h]] = 1
  <2>1. PICK l \in {"mark", "write"} :
          /\ at' = [at EXCEPT ![c] = l] /\ UNCHANGED <<ref, hand>>
          /\ \A b \in Bufs \ {hand[c]} : enc'[b] = enc[b] /\ marked'[b] = marked[b]
    BY <1>0, <1>7 DEF PB!Encrypt, PB!Mark, PB!Goto, PB!Set, PB!TypeOK
  <2>2. h # c /\ at[h] = "read" /\ c \in PB!Procs
    BY <1>0, <2>1 DEF PB!TypeOK, PB!Procs, PB!Queues
  <2>3. hand[h] # hand[c] /\ hand[h] \in Bufs
    BY <1>2, <2>2
  <2>4. QED
    BY <1>3, <2>1, <2>2, <2>3
<1>8. ASSUME NEW b \in Bufs, PB!Collect(b) PROVE InClear(hand[h])' /\ ref'[hand'[h]] = 1
  <2>1. PB!Places(b) = {} /\ ref' = [ref EXCEPT ![b] = 0] /\ UNCHANGED <<enc, marked, hand, at>>
    BY <1>8 DEF PB!Collect, PB!Set
  <2>2. at[h] = "read"
    BY <2>1
  <2>3. hand[h] # b /\ hand[h] \in Bufs
    BY <1>2, <2>1, <2>2
  <2>4. QED
    BY <1>0, <1>3, <2>1, <2>2, <2>3 DEF PB!TypeOK
<1>9. CASE UNCHANGED pktBuf \/ \E c \in Clients : PB!Close(c)
  BY <1>3, <1>9 DEF pktBuf, PB!Close, PB!buf
<1>10. Clients \subseteq PB!Procs /\ Recv \in PB!Procs /\ Stat \in PB!Procs
  BY DEF PB!Procs, PB!Queues
<1>11. QED
  BY <1>4, <1>5, <1>6, <1>7, <1>8, <1>9, <1>10 DEF PB!Next

LEMMA WireInit == PB!Init => WireInv
<1> SUFFICES ASSUME PB!Init PROVE WireInv
  OBVIOUS
<1>1. BufInv
  BY BufInit
<1>2. /\ \A g \in PB!Procs : hand[g] = None /\ at[g] = "idle" /\ left[g] = {}
      /\ \A q \in PB!Queues : queue[q] = <<>>
  BY DEF PB!Init
<1>3. Roles
  BY <1>2, PktBufConstants DEF Roles, RoleOf, PB!Labels
<1>4. ASSUME NEW b \in Bufs, NEW g \in PB!Procs, NEW i \in Spots, NEW q \in Readers PROVE ~ Ticket(b, g, i, q)
  <2>1. queue[q] = <<>> /\ hand[g] # b
    BY <1>2, PktBufConstants DEF Readers, PB!Queues
  <2>2. Len(queue[q]) = 0
    BY <2>1
  <2>3. QED
    BY <2>1, <2>2, PktBufConstants DEF Ticket, Spots
<1>5. TicketInv
  BY <1>4 DEF TicketInv, TicketOk, NotForRecv, OneTicket, Pending, Readers
<1>6. StageInv /\ ReadInv
  BY <1>2 DEF StageInv, StageOf, ReadInv, PB!Procs, PB!Queues
<1>7. QED
  BY <1>1, <1>3, <1>5, <1>6 DEF WireInv

LEMMA WireInvariant == MCSpec => []WireInv
<1>1. MCInit => WireInv
  BY WireInit DEF MCInit
<1>2. WireInv /\ [MCNext]_<<part, vars, pktBuf, heartbeat, twoSwitches>> => WireInv'
  <2>1. BufInv /\ [PB!Next]_pktBuf => BufInv'
    BY PktBufTypeStep, CountStep DEF BufInv
  <2>2. QED
    BY <2>1, PktBufSteps, RolesStep, TicketStep, StageStep, ReadStep DEF WireInv
<1>3. QED
  BY <1>1, <1>2, PTL DEF MCSpec

(* conn.go:79: for any number of goroutines, buffers and channels of any   *)
(* capacity, a packet that is given to one client only goes out encrypted  *)
(* once and marked, or in the clear and not marked, as that client's peer  *)
(* expects, although it is encrypted where it is and the buffer is used    *)
(* again and again.  Of a packet given to several (shared) nothing is said.*)
THEOREM WireCorrect == MCSpec => []WireIsReadable
<1>1. WireInv => PB!WireIsReadable
  <2> SUFFICES ASSUME WireInv, NEW c \in Clients, at[c] = "sent", hand[c] \notin shared
               PROVE  sent[c] = Form(c)
    BY DEF PB!WireIsReadable, PB!At, Form
  <2>1. c \in PB!Procs
    BY DEF PB!Procs, PB!Queues
  <2>2. hand[c] # None
    BY <2>1, HandType DEF WireInv, BufInv
  <2>3. QED
    BY <2>2 DEF WireInv, StageInv, StageOf
<1>2. WireInv => WireIsReadable
  BY <1>1 DEF WireIsReadable
<1>3. QED
  BY <1>2, WireInvariant, PTL
-----------------------------------------------------------------------------
(* Two switches.  The two instances have the same steps, but for who asks  *)
(* and where others join; each step is one of these.                       *)
SwitchStep(n) ==
  \/ TS!LinkRead(n) \/ TS!LinkFlood(n) \/ TS!LinkReply(n) \/ TS!DevRead(n) \/ TS!DevSend(n)
  \/ TS!Write(n) \/ TA!HbIdle(n) \/ TA!HbAsk(n) \/ TA!HbSend(n) \/ TA!HbClose(n)
  \/ TS!Lock(n) \/ TS!Unlock(n) \/ TS!Cut

(* A heartbeat that is about to send has a request left. *)
SwitchInv == TS!TypeOK /\ \A n \in Nodes : beat[n] = "send" => timeouts[n] < HeartbeatCnt

LEMMA NodesAreTwo == \E n, m \in Nodes : n # m /\ Nodes = {n, m}
  BY ConnectionAssumption DEF TS!TwoSwitchesAssumption

LEMMA SwitchConstants ==
  ChanSize \in Nat \ {0} /\ Window \in Nat \ {0} /\ HeartbeatCnt \in Nat /\ Askers \subseteq Nodes
  BY ConnectionAssumption DEF TS!TwoSwitchesAssumption

LEMMA OtherNode == \A n \in Nodes :
  TS!Other(n) \in Nodes /\ TS!Other(n) # n /\ TS!Other(TS!Other(n)) = n /\ Nodes = {n, TS!Other(n)}
<1> SUFFICES ASSUME NEW n \in Nodes
             PROVE  TS!Other(n) \in Nodes /\ TS!Other(n) # n /\ TS!Other(TS!Other(n)) = n
                    /\ Nodes = {n, TS!Other(n)}
  OBVIOUS
<1>1. PICK m \in Nodes : n # m /\ Nodes = {n, m}
  BY NodesAreTwo
<1>2. TS!Other(n) = m
  BY <1>1 DEF TS!Other
<1>3. TS!Other(m) = n
  BY <1>1 DEF TS!Other
<1>4. QED
  BY <1>1, <1>2, <1>3

LEMMA SwitchSteps ==
  /\ [TS!Next]_twoSwitches => (\E n \in Nodes : SwitchStep(n)) \/ UNCHANGED twoSwitches
  /\ [TA!Next]_twoSwitches => (\E n \in Nodes : SwitchStep(n)) \/ UNCHANGED twoSwitches
<1>0. \E n \in Nodes : TRUE
  BY NodesAreTwo
<1>1. ASSUME NEW n \in Nodes
      PROVE  /\ TS!LinkReader(n) => SwitchStep(n)
             /\ TS!HeartBeat(n) => SwitchStep(n)
             /\ TA!LinkReader(n) => SwitchStep(n)
             /\ TA!HeartBeat(n) => SwitchStep(n)
  <2>1. TS!LinkReader(n) => SwitchStep(n)
    BY DEF TS!LinkReader, SwitchStep
  <2>2. TA!HeartBeat(n) => SwitchStep(n)
    BY DEF TA!HeartBeat, SwitchStep
  <2>3. TS!HeartBeat(n) => TA!HeartBeat(n)
    <3>1. TS!HbIdle(n) => TA!HbIdle(n)
      BY DEF TS!HbIdle, TA!HbIdle, TS!IsTimeout, TA!IsTimeout
    <3>2. TS!HbAsk(n) => TA!HbAsk(n)
      BY DEF TS!HbAsk, TA!HbAsk, TS!IsTimeout, TA!IsTimeout
    <3>3. TS!HbSend(n) => TA!HbSend(n)
      BY DEF TS!HbSend, TA!HbSend, TS!Put, TA!Put, TS!CanPut, TA!CanPut, TS!HasRoom, TA!HasRoom
    <3>4. TS!HbClose(n) => TA!HbClose(n)
      BY DEF TS!HbClose, TA!HbClose, TS!IsTimeout, TA!IsTimeout
    <3>5. QED
      BY <3>1, <3>2, <3>3, <3>4 DEF TS!HeartBeat, TA!HeartBeat
  <2>4. TA!LinkReader(n) => TS!LinkReader(n)
    <3>1. TA!LinkRead(n) => TS!LinkRead(n)
      BY DEF TA!LinkRead, TS!LinkRead, TA!CanRead, TS!CanRead, TA!Other, TS!Other,
             TA!Handlers, TS!Handlers, TA!Done, TS!Done
    <3>2. TA!LinkFlood(n) => TS!LinkFlood(n)
      BY DEF TA!LinkFlood, TS!LinkFlood, TA!CanFlood, TS!CanFlood, TA!MayRLock, TS!MayRLock,
             TA!Targets, TS!Targets, TA!HasRoom, TS!HasRoom, TA!Done, TS!Done
    <3>3. TA!LinkReply(n) => TS!LinkReply(n)
      BY DEF TA!LinkReply, TS!LinkReply, TA!Put, TS!Put, TA!CanPut, TS!CanPut, TA!HasRoom, TS!HasRoom,
             TA!Done, TS!Done
    <3>4. QED
      BY <3>1, <3>2, <3>3 DEF TS!LinkReader, TA!LinkReader
  <2>5. QED
    BY <2>1, <2>2, <2>3, <2>4
<1>2. ASSUME NEW n \in Nodes
      PROVE  /\ TA!DevRead(n) => TS!DevRead(n)
             /\ TA!DevSend(n) => TS!DevSend(n)
             /\ TA!Write(n) => TS!Write(n)
             /\ ~ TA!Lock(n)
             /\ TA!Unlock(n) => TS!Unlock(n)
  <2>1. TA!DevRead(n) => TS!DevRead(n)
    BY DEF TA!DevRead, TS!DevRead, TA!MayRLock, TS!MayRLock
  <2>2. TA!DevSend(n) => TS!DevSend(n)
    BY DEF TA!DevSend, TS!DevSend, TA!DevHolds, TS!DevHolds, TA!Put, TS!Put, TA!CanPut, TS!CanPut,
           TA!HasRoom, TS!HasRoom
  <2>3. TA!Write(n) => TS!Write(n)
    BY DEF TA!Write, TS!Write, TA!CanWrite, TS!CanWrite
  <2>4. ~ TA!Lock(n)
    BY DEF TA!Lock
  <2>5. TA!Unlock(n) => TS!Unlock(n)
    BY DEF TA!Unlock, TS!Unlock, TA!CanUnlock, TS!CanUnlock, TA!HoldsRLock, TS!HoldsRLock
  <2>6. QED
    BY <2>1, <2>2, <2>3, <2>4, <2>5
<1>3. TA!Cut => TS!Cut
  BY DEF TA!Cut, TS!Cut
<1>4. TS!Next => \E n \in Nodes : SwitchStep(n)
  BY <1>0, <1>1 DEF TS!Next, SwitchStep
<1>5. TA!Next => \E n \in Nodes : SwitchStep(n)
  BY <1>0, <1>1, <1>2, <1>3 DEF TA!Next, SwitchStep
<1>6. QED
  BY <1>4, <1>5

LEMMA SameSwitches ==
  (TS!TypeOK <=> TA!TypeOK) /\ (TS!HaltsOnlyAtBoth <=> TA!HaltsOnlyAtBoth)
<1>1. TS!TypeOK <=> TA!TypeOK
  BY DEF TS!TypeOK, TA!TypeOK, TS!Packets, TA!Packets
<1>2. ASSUME NEW n \in Nodes
      PROVE  (TS!CanMove(n) <=> TA!CanMove(n)) /\ (TS!AnswersFull(n) <=> TA!AnswersFull(n))
             /\ (TS!BehindJoin(n) <=> TA!BehindJoin(n))
  <2>1. TS!HasRoom(n) <=> TA!HasRoom(n)
    BY DEF TS!HasRoom, TA!HasRoom
  <2>2. TS!CanRead(n) <=> TA!CanRead(n)
    BY DEF TS!CanRead, TA!CanRead, TS!Other, TA!Other
  <2>3. TS!CanFlood(n) <=> TA!CanFlood(n)
    BY <2>1 DEF TS!CanFlood, TA!CanFlood, TS!MayRLock, TA!MayRLock, TS!Targets, TA!Targets
  <2>4. (TS!CanPut(n) <=> TA!CanPut(n)) /\ (TS!DevHolds(n) <=> TA!DevHolds(n))
    BY <2>1 DEF TS!CanPut, TA!CanPut, TS!DevHolds, TA!DevHolds
  <2>5. (TS!CanWrite(n) <=> TA!CanWrite(n)) /\ (TS!CanUnlock(n) <=> TA!CanUnlock(n))
    BY DEF TS!CanWrite, TA!CanWrite, TS!CanUnlock, TA!CanUnlock, TS!HoldsRLock, TA!HoldsRLock
  <2>6. QED
    BY <2>1, <2>2, <2>3, <2>4, <2>5
       DEF TS!CanMove, TA!CanMove, TS!AnswersFull, TA!AnswersFull, TS!BehindJoin, TA!BehindJoin
<1>3. TS!HaltsOnlyAtBoth <=> TA!HaltsOnlyAtBoth
  BY <1>2 DEF TS!HaltsOnlyAtBoth, TA!HaltsOnlyAtBoth, TS!Gridlock, TA!Gridlock
<1>4. QED
  BY <1>1, <1>3

LEMMA SwitchTypeStep == ASSUME SwitchInv, NEW n \in Nodes, SwitchStep(n) PROVE TS!TypeOK'
<1> USE SwitchConstants DEF TS!TypeOK, TS!Packets, SwitchInv
<1>0. TS!Other(n) \in Nodes
  BY OtherNode
<1>1. CASE TS!LinkRead(n)
  <2>1. PICK to \in TS!Handlers(Head(wire[TS!Other(n)])) :
          IF to = "done" THEN TS!Done(n) ELSE link' = [link EXCEPT ![n] = to] /\ UNCHANGED moved
    BY <1>1 DEF TS!LinkRead
  <2>2. to \in {"done", "rlock", "reply"}
    BY <2>1 DEF TS!Handlers
  <2>3. link' \in [Nodes -> {"idle", "rlock", "reply"}] /\ moved' \in [Nodes -> BOOLEAN]
    BY <2>1, <2>2 DEF TS!Done
  <2>4. wire' \in [Nodes -> Seq(TS!Packets)] /\ \A m \in Nodes : Len(wire'[m]) <= Window
    BY <1>0, <1>1 DEF TS!LinkRead, TS!CanRead
  <2>5. QED
    BY <1>1, <2>3, <2>4 DEF TS!LinkRead
<1>2. CASE TS!LinkFlood(n)
  BY <1>2 DEF TS!LinkFlood, TS!CanFlood, TS!Targets, TS!Done
<1>3. CASE TS!LinkReply(n)
  BY <1>3 DEF TS!LinkReply, TS!Put, TS!CanPut, TS!HasRoom, TS!Done
<1>4. CASE TS!DevRead(n)
  BY <1>4 DEF TS!DevRead
<1>5. CASE TS!DevSend(n)
  BY <1>5 DEF TS!DevSend, TS!Put, TS!CanPut, TS!HasRoom
<1>6. CASE TS!Write(n)
  <2>1. Head(chan[n]) \in TS!Packets /\ Tail(chan[n]) \in Seq(TS!Packets) /\ Len(Tail(chan[n])) <= ChanSize
    BY <1>6 DEF TS!Write, TS!CanWrite
  <2>2. wire' \in [Nodes -> Seq(TS!Packets)] /\ \A m \in Nodes : Len(wire'[m]) <= Window
    BY <1>6, <2>1 DEF TS!Write, TS!CanWrite
  <2>3. chan' \in [Nodes -> Seq(TS!Packets)] /\ \A m \in Nodes : Len(chan'[m]) <= ChanSize
    BY <1>6, <2>1 DEF TS!Write, TS!CanWrite
  <2>4. QED
    BY <1>6, <2>2, <2>3 DEF TS!Write
<1>7. CASE TA!HbIdle(n)
  BY <1>7 DEF TA!HbIdle
<1>8. CASE TA!HbAsk(n)
  BY <1>8 DEF TA!HbAsk
<1>9. CASE TA!HbSend(n)
  <2>1. chan' \in [Nodes -> Seq(TS!Packets)] /\ \A m \in Nodes : Len(chan'[m]) <= ChanSize
    BY <1>9 DEF TA!HbSend, TA!Put, TA!CanPut, TA!HasRoom
  <2>2. timeouts' \in [Nodes -> 0..HeartbeatCnt]
    BY <1>9 DEF TA!HbSend
  <2>3. beat' \in [Nodes -> {"wait", "send"}]
    BY <1>9 DEF TA!HbSend
  <2>4. QED
    BY <1>9, <2>1, <2>2, <2>3 DEF TA!HbSend
<1>10. CASE TA!HbClose(n)
  BY <1>10 DEF TA!HbClose
<1>11. CASE TS!Lock(n)
  BY <1>11 DEF TS!Lock
<1>12. CASE TS!Unlock(n)
  BY <1>12 DEF TS!Unlock
<1>13. CASE TS!Cut
  BY <1>13 DEF TS!Cut
<1>14. QED
  BY <1>1, <1>2, <1>3, <1>4, <1>5, <1>6, <1>7, <1>8, <1>9, <1>10, <1>11, <1>12, <1>13 DEF SwitchStep

LEMMA SwitchInvStep == ASSUME SwitchInv, NEW n \in Nodes, SwitchStep(n) PROVE SwitchInv'
<1>1. TS!TypeOK'
  BY SwitchTypeStep
<1>2. ASSUME NEW m \in Nodes, beat'[m] = "send" PROVE timeouts'[m] < HeartbeatCnt
  <2> USE <1>2, SwitchConstants DEF SwitchInv, TS!TypeOK
  <2>1. CASE UNCHANGED <<beat, timeouts>>
    BY <2>1
  <2>2. CASE TA!HbIdle(n)
    BY <2>2 DEF TA!HbIdle
  <2>3. CASE TA!HbAsk(n)
    BY <2>3 DEF TA!HbAsk
  <2>4. CASE TA!HbSend(n)
    BY <2>4 DEF TA!HbSend
  <2>5. TS!LinkRead(n) \/ TS!LinkFlood(n) \/ TS!LinkReply(n) \/ TS!DevRead(n) \/ TS!DevSend(n)
        \/ TS!Write(n) \/ TA!HbClose(n) \/ TS!Lock(n) \/ TS!Unlock(n) \/ TS!Cut
          => UNCHANGED <<beat, timeouts>>
    BY DEF TS!LinkRead, TS!LinkFlood, TS!LinkReply, TS!DevRead, TS!DevSend, TS!Write, TA!HbClose,
           TS!Lock, TS!Unlock, TS!Cut
  <2>6. QED
    BY <2>1, <2>2, <2>3, <2>4, <2>5 DEF SwitchStep
<1>3. QED
  BY <1>1, <1>2 DEF SwitchInv

LEMMA SwitchInvariant == MCSpec => []SwitchInv
<1>1. MCInit => SwitchInv
  <2> SUFFICES ASSUME TS!Init PROVE SwitchInv
    BY DEF MCInit
  <2> USE SwitchConstants DEF TS!Init
  <2>1. chan \in [Nodes -> Seq(TS!Packets)] /\ wire \in [Nodes -> Seq(TS!Packets)]
    OBVIOUS
  <2>2. \A n \in Nodes : Len(chan[n]) <= ChanSize /\ Len(wire[n]) <= Window
    OBVIOUS
  <2>3. timeouts \in [Nodes -> 0..HeartbeatCnt] /\ beat \in [Nodes -> {"wait", "send"}]
    OBVIOUS
  <2>4. \A n \in Nodes : beat[n] = "wait"
    OBVIOUS
  <2>5. moved \in [Nodes -> BOOLEAN] /\ join \in [Nodes -> BOOLEAN] /\ down \in BOOLEAN
    OBVIOUS
  <2>6. /\ dev \in [Nodes -> {"idle", "unicast", "flood"}]
        /\ link \in [Nodes -> {"idle", "rlock", "reply"}]
    OBVIOUS
  <2>7. TS!TypeOK
    BY ONLY <2>1, <2>2, <2>3, <2>5, <2>6 DEF TS!TypeOK
  <2>8. QED
    BY <2>4, <2>7 DEF SwitchInv
<1>2. SwitchInv /\ [MCNext]_<<part, vars, pktBuf, heartbeat, twoSwitches>> => SwitchInv'
  <2>1. [MCNext]_<<part, vars, pktBuf, heartbeat, twoSwitches>>
          => (\E n \in Nodes : SwitchStep(n)) \/ UNCHANGED twoSwitches
    BY SwitchSteps DEF MCNext
  <2>2. SwitchInv /\ UNCHANGED twoSwitches => SwitchInv'
    BY DEF SwitchInv, TS!TypeOK, twoSwitches
  <2>3. QED
    BY <2>1, <2>2, SwitchInvStep
<1>3. QED
  BY <1>1, <1>2, PTL DEF MCSpec

(* The reader of n has something in hand and cannot go on: its own channel *)
(* is full, its writer waits for the other node to read, and so the other  *)
(* reader has something in hand too.                                       *)
LEMMA StuckReader ==
  ASSUME TS!TypeOK, ~ down, NEW n \in Nodes, link[n] # "idle", \A m \in Nodes : ~ TS!CanMove(m)
  PROVE  (TS!AnswersFull(n) \/ TS!BehindJoin(n)) /\ link[TS!Other(n)] # "idle"
<1>1. TS!AnswersFull(n) \/ TS!BehindJoin(n)
  <2>1. link[n] \in {"rlock", "reply"}
    BY DEF TS!TypeOK
  <2>2. CASE link[n] = "reply"
    BY <2>2 DEF TS!CanMove, TS!CanPut, TS!AnswersFull
  <2>3. CASE link[n] = "rlock"
    <3>1. join[n]
      BY <2>3 DEF TS!CanMove, TS!CanFlood, TS!MayRLock, TS!Targets
    <3>2. dev[n] = "flood"
      BY <3>1 DEF TS!CanMove, TS!CanUnlock, TS!HoldsRLock
    <3>3. ~ TS!HasRoom(n)
      BY <3>2 DEF TS!CanMove, TS!DevHolds, TS!CanPut
    <3>4. QED
      BY <2>3, <3>1, <3>2, <3>3 DEF TS!BehindJoin
  <2>4. QED
    BY <2>1, <2>2, <2>3
<1>2. chan[n] # <<>>
  <2>1. ~ Len(chan[n]) < ChanSize
    BY <1>1 DEF TS!AnswersFull, TS!BehindJoin, TS!HasRoom
  <2>2. QED
    BY <2>1, SwitchConstants DEF TS!TypeOK
<1>3. ~ Len(wire[n]) < Window
  BY <1>2 DEF TS!CanMove, TS!CanWrite
<1>4. wire[n] # <<>>
  BY <1>3, SwitchConstants DEF TS!TypeOK
<1>5. TS!Other(n) \in Nodes /\ TS!Other(TS!Other(n)) = n
  BY OtherNode
<1>6. ~ TS!CanRead(TS!Other(n))
  BY <1>5 DEF TS!CanMove
<1>7. QED
  BY <1>1, <1>4, <1>5, <1>6 DEF TS!CanRead

(* forward.go:14-19, heartbeat.go:103: for channels and windows of any     *)
(* size, traffic comes to a halt only if both readers wait for their own   *)
(* full channel, to answer or behind a join that waits for a flood.        *)
THEOREM HaltsCorrect == MCSpec => []HaltsOnlyAtBoth
<1>1. TS!TypeOK => TS!HaltsOnlyAtBoth
  <2> SUFFICES ASSUME TS!TypeOK, TS!Gridlock, NEW n \in Nodes PROVE TS!AnswersFull(n) \/ TS!BehindJoin(n)
    BY DEF TS!HaltsOnlyAtBoth
  <2>1. PICK m \in Nodes : link[m] # "idle"
    BY DEF TS!Gridlock
  <2>2. ~ down /\ \A k \in Nodes : ~ TS!CanMove(k)
    BY DEF TS!Gridlock
  <2>3. link[TS!Other(m)] # "idle"
    BY <2>1, <2>2, StuckReader
  <2>4. n = m \/ n = TS!Other(m)
    BY OtherNode
  <2>5. QED
    BY <2>1, <2>2, <2>3, <2>4, StuckReader
<1>2. TS!TypeOK => HaltsOnlyAtBoth
  BY <1>1, SameSwitches DEF HaltsOnlyAtBoth
<1>3. QED
  BY <1>2, SwitchInvariant, PTL DEF SwitchInv
-----------------------------------------------------------------------------
(* The heartbeat.  Numbers go from 1 to W-1 and begin again, and messages  *)
(* keep their order: the number of a message tells how many have been      *)
(* taken after it, and only the last of all has the number hbID.           *)
LastId == IF hbID = 0 THEN 1 ELSE hbID
Back(h, d) == IF h > d THEN h - d ELSE h - d + (W - 1)

(* A number is taken and its request not yet sent. *)
Taken == IF hb = "idle" THEN 0 ELSE 1

FlightInv ==
  /\ reqs \in Seq(HB!Msgs) /\ rpls \in Seq(HB!Msgs)
  /\ Len(reqs) + Len(rpls) + Taken <= MaxOpen
  /\ \A i \in 1..Len(reqs) : reqs[i].id = Back(LastId, Len(reqs) - i + Taken)
  /\ \A i \in 1..Len(rpls) : rpls[i].id = Back(LastId, Len(rpls) - i + Len(reqs) + Taken)

NumberInv ==
  /\ hb = "zero" => hbID = 0
  /\ hb = "sum" => hbID = 1
  /\ hb \in {"time", "send"} => hbID # 0
  /\ hb = "idle" /\ hbID = 0 => reqs = <<>> /\ rpls = <<>> /\ rd = "idle"

(* No message is younger than the time that is measured against. *)
TimeInv ==
  /\ hbReqTime = asked /\ reply.at <= asked
  /\ \A i \in 1..Len(reqs) : reqs[i].at <= asked
  /\ \A i \in 1..Len(rpls) : rpls[i].at <= asked

TornInv == (HB!Wrapping /\ HB!Measuring) \/ hb = "panic" => torn

(* Requests of this round whose delay may be in the sum: not one that is   *)
(* on its way, nor one whose delay is being taken.                         *)
Summed ==
  hbID - (IF hb # "idle" \/ reqs # <<>> \/ rpls # <<>> THEN 1 ELSE 0)
       - (IF rd \in {"delay", "add"} THEN 1 ELSE 0)

SumInv == ~ torn /\ ~ HB!Wrapping => 0 <= Summed /\ hbDelaySum <= slowest * Summed

HbInv ==
  /\ HB!TypeOK /\ FlightInv /\ NumberInv /\ TimeInv /\ TornInv /\ SumInv
  /\ HB!DelayNotOver /\ HB!AvgNotOver

LEMMA HbConstants ==
  W \in Nat /\ MaxReq \in Nat /\ MaxNow \in Nat /\ MaxOpen \in Nat \ {0} /\ MaxOpen + 1 < W
  BY ConnectionAssumption DEF HB!HeartbeatAssumption

LEMMA MaxOfTwo ==
  ASSUME NEW a \in Int, NEW b \in Int
  PROVE  HB!Max({a, b}) \in {a, b} /\ a <= HB!Max({a, b}) /\ b <= HB!Max({a, b})
<1>1. \E m \in {a, b} : \A y \in {a, b} : m >= y
  OBVIOUS
<1>2. QED
  BY <1>1 DEF HB!Max

(* Sums that are bounded by a multiple of the slowest reply. *)
LEMMA Slower ==
  ASSUME NEW s \in Nat, NEW t \in Nat, NEW k \in Nat, s <= t
  PROVE  s * k <= t * k
  OBVIOUS

LEMMA OneMore ==
  ASSUME NEW s \in Nat, NEW k \in Nat
  PROVE  s * (k + 1) = s * k + s
  OBVIOUS

LEMMA MoreOften ==
  ASSUME NEW s \in Nat, NEW k \in Nat, NEW m \in Nat, k <= m
  PROVE  s * k <= s * m
  OBVIOUS

LEMMA Products ==
  ASSUME NEW s \in Nat, NEW k \in Nat
  PROVE  s * k \in Nat
<1>1. s * k \in Int
  OBVIOUS
<1>2. s * 0 <= s * k
  BY MoreOften
<1>3. s * 0 = 0
  OBVIOUS
<1>4. QED
  BY <1>1, <1>2, <1>3

LEMMA MeanBound ==
  ASSUME NEW x \in Nat, NEW s \in Nat, NEW h \in Nat \ {0}, x <= s * h
  PROVE  x \div h <= s /\ x \div h \in Nat
<1>1. x \div h \in Int /\ h * (x \div h) <= x /\ 0 <= x \div h
  OBVIOUS
<1>2. SUFFICES ASSUME s + 1 <= x \div h PROVE FALSE
  BY <1>1
<1>3. h * (s + 1) <= h * (x \div h)
  BY <1>1, <1>2, MoreOften
<1>4. h * (s + 1) = h * s + h
  OBVIOUS
<1>5. h * s = s * h
  OBVIOUS
<1>6. QED
  BY <1>1, <1>3, <1>4, <1>5

LEMMA BackType ==
  ASSUME NEW h \in 1..W-1, NEW d \in 0..MaxOpen
  PROVE  Back(h, d) \in 1..W-1 /\ (Back(h, d) = h => d = 0) /\ Back(h, 0) = h
  BY HbConstants DEF Back

LEMMA BackNext ==
  ASSUME NEW h \in 1..W-1, NEW g \in 1..W-1, NEW d \in Nat, d + 1 <= MaxOpen,
         g = IF h = W - 1 THEN 1 ELSE h + 1
  PROVE  Back(g, d + 1) = Back(h, d)
  BY HbConstants DEF Back

LEMMA NotYetZero ==
  ASSUME NEW a \in Nat, a < W
  PROVE  a % W = a
<1>1. a % W \in 0..W-1 /\ a = W * (a \div W) + (a % W)
  BY HbConstants
<1>2. a \div W \in Nat
  BY HbConstants
<1>3. a \div W = 0
  <2>1. SUFFICES ASSUME a \div W >= 1 PROVE FALSE
    BY <1>2
  <2>2. W * 1 <= W * (a \div W)
    BY <1>2, <2>1, MoreOften, HbConstants
  <2>3. QED
    BY <1>1, <1>2, <2>2, HbConstants
<1>4. QED
  BY <1>1, <1>3, HbConstants

LEMMA HbTypes ==
  ASSUME HbInv
  PROVE  /\ now \in 0..MaxNow /\ hbID \in 0..W-1 /\ hbReqTime \in 0..now /\ asked \in 0..now
         /\ hbDelay \in Nat /\ hbDelaySum \in Nat /\ hbDelayAvg \in Nat /\ slowest \in Nat
         /\ hb \in {"idle", "zero", "sum", "time", "send", "panic"}
         /\ rd \in {"idle", "late", "false", "delay", "add", "test", "divide", "panic"}
         /\ count \in 0..MaxReq /\ torn \in BOOLEAN /\ valid \in BOOLEAN
         /\ reply \in HB!Msgs \cup {HB!Nothing} /\ Taken \in 0..1 /\ LastId \in 1..W-1
         /\ reply.at \in 0..MaxNow
<1>1. reply.at \in 0..MaxNow
  BY HbConstants DEF HbInv, HB!TypeOK, HB!Msgs, HB!Nothing
<1>2. LastId \in 1..W-1
  BY HbConstants DEF HbInv, HB!TypeOK, LastId
<1>3. QED
  BY <1>1, <1>2 DEF HbInv, HB!TypeOK, Taken


LEMMA MsgFacts ==
  ASSUME HbInv
  PROVE  /\ reqs \in Seq(HB!Msgs) /\ rpls \in Seq(HB!Msgs)
         /\ Len(reqs) \in Nat /\ Len(rpls) \in Nat
         /\ Len(reqs) + Len(rpls) + Taken <= MaxOpen
  BY DEF HbInv, FlightInv

LEMMA FlightStep == ASSUME HbInv, [HB!Next]_heartbeat PROVE FlightInv'
<1> USE DEF HB!measure, HB!msgs, HB!ghost
<1>0. /\ hbID \in 0..W-1 /\ Taken \in 0..1 /\ LastId \in 1..W-1
      /\ reqs \in Seq(HB!Msgs) /\ rpls \in Seq(HB!Msgs)
      /\ Len(reqs) \in Nat /\ Len(rpls) \in Nat /\ Len(reqs) + Len(rpls) + Taken <= MaxOpen
      /\ \A i \in 1..Len(reqs) : reqs[i].id = Back(LastId, Len(reqs) - i + Taken)
      /\ \A i \in 1..Len(rpls) : rpls[i].id = Back(LastId, Len(rpls) - i + Len(reqs) + Taken)
  BY HbTypes DEF HbInv, FlightInv
<1>1. ASSUME UNCHANGED <<reqs, rpls>>, Taken' = Taken, LastId' = LastId PROVE FlightInv'
  BY <1>0, <1>1 DEF FlightInv, HB!Msgs
<1>2. CASE HB!IncId
  <2>1. UNCHANGED <<reqs, rpls>> /\ Taken = 0 /\ Taken' = 1 /\ hb = "idle" /\ hbID' = (hbID + 1) % W
        /\ Len(reqs) + Len(rpls) < MaxOpen
    BY <1>2 DEF HB!IncId, HB!NextId, HB!IsZero, Taken
  <2>2. CASE hbID = 0
    <3>1. reqs = <<>> /\ rpls = <<>>
      BY <2>1, <2>2 DEF HbInv, NumberInv
    <3>2. Len(reqs') = 0 /\ Len(rpls') = 0
      BY <2>1, <3>1
    <3>3. QED
      BY <2>1, <3>1, <3>2, HbConstants DEF FlightInv
  <2>3. CASE hbID # 0
    <3>1. LastId = hbID /\ LastId' = IF LastId = W - 1 THEN 1 ELSE LastId + 1
      <4>1. CASE hbID = W - 1
        BY <1>0, <2>1, <2>3, <4>1, HbConstants DEF LastId
      <4>2. CASE hbID # W - 1
        <5>1. hbID' = hbID + 1
          <6>1. hbID + 1 \in Nat /\ hbID + 1 < W
            <7>1. hbID \in 0..W-1
              BY <1>0
            <7>2. QED
              BY <4>2, <7>1, HbConstants
          <6>2. QED
            BY <2>1, <6>1, NotYetZero
        <5>2. QED
          BY <1>0, <2>3, <4>2, <5>1 DEF LastId
      <4>3. QED
        BY <4>1, <4>2
    <3>2. LastId' \in 1..W-1
      BY <1>0, <3>1, HbConstants
    <3>3. ASSUME NEW d \in Nat, d + 1 <= MaxOpen PROVE Back(LastId', d + 1) = Back(LastId, d)
      BY <1>0, <3>1, <3>2, <3>3, BackNext
    <3>4. ASSUME NEW i \in 1..Len(reqs) PROVE reqs[i].id = Back(LastId', Len(reqs) - i + 1)
      <4>1. reqs[i].id = Back(LastId, Len(reqs) - i)
        BY <1>0, <2>1
      <4>2. Len(reqs) - i \in Nat /\ Len(reqs) - i + 1 <= MaxOpen
        BY <1>0, <2>1, HbConstants
      <4>3. QED
        BY <3>3, <4>1, <4>2
    <3>5. ASSUME NEW i \in 1..Len(rpls) PROVE rpls[i].id = Back(LastId', Len(rpls) - i + Len(reqs) + 1)
      <4>1. rpls[i].id = Back(LastId, Len(rpls) - i + Len(reqs))
        BY <1>0, <2>1
      <4>2. Len(rpls) - i + Len(reqs) \in Nat /\ Len(rpls) - i + Len(reqs) + 1 <= MaxOpen
        BY <1>0, <2>1, HbConstants
      <4>3. QED
        BY <3>3, <4>1, <4>2
    <3>6. Len(reqs) + Len(rpls) + 1 <= MaxOpen
      BY <1>0, <2>1, HbConstants
    <3>7. QED
      BY <1>0, <2>1, <3>4, <3>5, <3>6 DEF FlightInv, HB!Msgs
  <2>4. QED
    BY <2>2, <2>3
<1>3. CASE HB!SkipZero
  <2>1. hbID = 0
    BY <1>3 DEF HbInv, NumberInv, HB!SkipZero
  <2>2. QED
    BY <1>1, <1>3, <2>1 DEF HB!SkipZero, Taken, LastId
<1>4. CASE HB!ResetSum
  BY <1>1, <1>4 DEF HB!ResetSum, Taken, LastId
<1>5. CASE HB!SetReqTime
  BY <1>1, <1>5 DEF HB!SetReqTime, Taken, LastId
<1>6. CASE HB!SendReq
  <2> DEFINE m == [id |-> hbID, at |-> asked]
  <2>1. Taken = 1 /\ Taken' = 0 /\ LastId' = LastId /\ LastId = hbID /\ reqs' = Append(reqs, m) /\ rpls' = rpls
    BY <1>6 DEF HB!SendReq, Taken, LastId, HbInv, NumberInv
  <2>2. m \in HB!Msgs
    BY <1>0, <2>1, HbTypes, HbConstants DEF HB!Msgs
  <2> HIDE DEF m
  <2>3. reqs' \in Seq(HB!Msgs) /\ Len(reqs') = Len(reqs) + 1
    BY <1>0, <2>1, <2>2
  <2>4. ASSUME NEW i \in 1..Len(reqs') PROVE reqs'[i].id = Back(LastId', Len(reqs') - i + Taken')
    <3>1. CASE i = Len(reqs) + 1
      <4>1. reqs'[i] = m /\ m.id = LastId
        BY <1>0, <2>1, <2>2, <3>1 DEF m
      <4>2. Len(reqs') - i + Taken' = 0
        BY <1>0, <2>1, <2>3, <3>1
      <4>3. Back(LastId, 0) = LastId
        BY <1>0, HbConstants DEF Back
      <4>4. QED
        BY <2>1, <4>1, <4>2, <4>3
    <3>2. CASE i \in 1..Len(reqs)
      <4>1. reqs'[i] = reqs[i]
        BY <1>0, <2>1, <2>2, <3>2
      <4>2. Len(reqs') - i + Taken' = Len(reqs) - i + Taken
        BY <1>0, <2>1, <2>3, <3>2
      <4>3. QED
        BY <1>0, <2>1, <3>2, <4>1, <4>2
    <3>3. QED
      BY <1>0, <2>3, <3>1, <3>2
  <2>5. ASSUME NEW i \in 1..Len(rpls') PROVE rpls'[i].id = Back(LastId', Len(rpls') - i + Len(reqs') + Taken')
    <3>1. Len(rpls') - i + Len(reqs') + Taken' = Len(rpls) - i + Len(reqs) + Taken
      BY <1>0, <2>1, <2>3
    <3>2. QED
      BY <1>0, <2>1, <3>1
  <2>6. Len(reqs') + Len(rpls') + Taken' <= MaxOpen
    BY <1>0, <2>1, <2>3
  <2>7. QED
    BY <1>0, <2>1, <2>3, <2>4, <2>5, <2>6 DEF FlightInv, HB!Msgs
<1>7. CASE HB!SendRpl
  <2> DEFINE m == Head(reqs)
  <2>1. Taken' = Taken /\ LastId' = LastId /\ reqs # <<>> /\ rpls' = Append(rpls, m) /\ reqs' = Tail(reqs)
    BY <1>7 DEF HB!SendRpl, Taken, LastId
  <2>2. m \in HB!Msgs /\ m = reqs[1] /\ Len(reqs) >= 1
    BY <1>0, <2>1
  <2> HIDE DEF m
  <2>3. reqs' \in Seq(HB!Msgs) /\ Len(reqs') = Len(reqs) - 1 /\ rpls' \in Seq(HB!Msgs) /\ Len(rpls') = Len(rpls) + 1
    BY <1>0, <2>1, <2>2
  <2>4. ASSUME NEW i \in 1..Len(reqs') PROVE reqs'[i].id = Back(LastId', Len(reqs') - i + Taken')
    <3>1. reqs'[i] = reqs[i+1] /\ i + 1 \in 1..Len(reqs)
      BY <1>0, <2>1, <2>3
    <3>2. Len(reqs') - i + Taken' = Len(reqs) - (i + 1) + Taken
      BY <1>0, <2>1, <2>3
    <3>3. QED
      BY <1>0, <2>1, <3>1, <3>2
  <2>5. ASSUME NEW i \in 1..Len(rpls') PROVE rpls'[i].id = Back(LastId', Len(rpls') - i + Len(reqs') + Taken')
    <3>1. CASE i = Len(rpls) + 1
      <4>1. rpls'[i] = m /\ m.id = Back(LastId, Len(reqs) - 1 + Taken)
        BY <1>0, <2>1, <2>2, <3>1
      <4>2. Len(rpls') - i + Len(reqs') + Taken' = Len(reqs) - 1 + Taken
        BY <1>0, <2>1, <2>3, <3>1
      <4>3. QED
        BY <2>1, <4>1, <4>2
    <3>2. CASE i \in 1..Len(rpls)
      <4>1. rpls'[i] = rpls[i]
        BY <1>0, <2>1, <2>2, <3>2
      <4>2. Len(rpls') - i + Len(reqs') + Taken' = Len(rpls) - i + Len(reqs) + Taken
        BY <1>0, <2>1, <2>3, <3>2
      <4>3. QED
        BY <1>0, <2>1, <3>2, <4>1, <4>2
    <3>3. QED
      BY <1>0, <2>3, <3>1, <3>2
  <2>6. Len(reqs') + Len(rpls') + Taken' <= MaxOpen
    BY <1>0, <2>1, <2>3
  <2>7. QED
    BY <2>3, <2>4, <2>5, <2>6 DEF FlightInv, HB!Msgs
<1>8. CASE HB!CheckHeartBeat
  <2>1. Taken' = Taken /\ LastId' = LastId /\ rpls # <<>> /\ rpls' = Tail(rpls) /\ reqs' = reqs
    BY <1>8 DEF HB!CheckHeartBeat, Taken, LastId
  <2>2. rpls' \in Seq(HB!Msgs) /\ Len(rpls') = Len(rpls) - 1
    BY <1>0, <2>1
  <2>3. ASSUME NEW i \in 1..Len(rpls') PROVE rpls'[i].id = Back(LastId', Len(rpls') - i + Len(reqs') + Taken')
    <3>1. rpls'[i] = rpls[i+1] /\ i + 1 \in 1..Len(rpls)
      BY <1>0, <2>1, <2>2
    <3>2. Len(rpls') - i + Len(reqs') + Taken' = Len(rpls) - (i + 1) + Len(reqs) + Taken
      BY <1>0, <2>1, <2>2
    <3>3. QED
      BY <1>0, <2>1, <3>1, <3>2
  <2>4. Len(reqs') + Len(rpls') + Taken' <= MaxOpen
    BY <1>0, <2>1, <2>2, HbConstants
  <2>5. QED
    BY <1>0, <2>1, <2>2, <2>3, <2>4 DEF FlightInv, HB!Msgs
<1>9. CASE HB!DivideByZero
  <2>1. hb # "idle"
    BY <1>9 DEF HB!DivideByZero, HbInv, NumberInv
  <2>2. QED
    BY <1>1, <1>9, <2>1 DEF HB!DivideByZero, Taken, LastId
<1>10. CASE HB!Late \/ HB!ReturnFalse \/ HB!Delay \/ HB!AddDelay \/ HB!TestId \/ HB!Divide \/ HB!Clock
            \/ UNCHANGED heartbeat
  BY <1>1, <1>10
     DEF HB!Late, HB!ReturnFalse, HB!Delay, HB!AddDelay, HB!TestId, HB!Divide, HB!Clock, heartbeat,
         Taken, LastId
<1>11. QED
  BY <1>2, <1>3, <1>4, <1>5, <1>6, <1>7, <1>8, <1>9, <1>10 DEF HB!Next, HB!HeartBeat, HB!Reader

LEMMA NoneLeft ==
  ASSUME NEW s \in Seq(HB!Msgs), Len(s) = 0
  PROVE  s = <<>>
  OBVIOUS

(* A reply to the last request: it was alone, and HeartBeat rests. *)
LEMMA LastIsAlone ==
  ASSUME HbInv, rpls # <<>>, HB!IsLast(Head(rpls).id)
  PROVE  hb = "idle" /\ reqs = <<>> /\ Tail(rpls) = <<>> /\ hbID # 0
<1>1. /\ reqs \in Seq(HB!Msgs) /\ rpls \in Seq(HB!Msgs) /\ Len(reqs) \in Nat /\ Len(rpls) \in Nat
      /\ Len(reqs) + Len(rpls) + Taken <= MaxOpen /\ Taken \in 0..1
  BY MsgFacts, HbTypes
<1>2. Len(rpls) >= 1 /\ Head(rpls) = rpls[1] /\ rpls[1] \in HB!Msgs
  BY <1>1
<1>3. hbID # 0 /\ LastId = hbID /\ hbID \in 1..W-1
  BY <1>2, HbTypes DEF HB!IsLast, HB!Msgs, LastId
<1>4. rpls[1].id = Back(LastId, Len(rpls) - 1 + Len(reqs) + Taken)
  BY <1>2 DEF HbInv, FlightInv
<1>5. Len(rpls) - 1 + Len(reqs) + Taken \in 0..MaxOpen
  BY <1>1, <1>2, HbConstants
<1>6. Len(rpls) - 1 + Len(reqs) + Taken = 0
  BY <1>2, <1>3, <1>4, <1>5, BackType DEF HB!IsLast
<1>7. Len(rpls) = 1 /\ Len(reqs) = 0 /\ Taken = 0
  <2>1. Len(reqs) \in Nat /\ Len(rpls) \in Nat /\ Taken \in Nat /\ Len(rpls) >= 1
    BY <1>1, <1>2
  <2>2. QED
    BY ONLY <2>1, <1>6
<1>8. reqs = <<>> /\ Tail(rpls) = <<>>
  <2>1. reqs = <<>>
    BY <1>1, <1>7
  <2>2. Tail(rpls) \in Seq(HB!Msgs) /\ Len(Tail(rpls)) = 0
    BY <1>1, <1>7
  <2>3. QED
    BY <2>1, <2>2, NoneLeft
<1>9. hb = "idle"
  BY <1>7 DEF Taken
<1>10. QED
  BY <1>3, <1>8, <1>9

LEMMA NumberStep == ASSUME HbInv, [HB!Next]_heartbeat PROVE NumberInv'
<1> USE DEF HB!measure, HB!msgs, HB!ghost, NumberInv
<1>0. NumberInv /\ hbID \in 0..W-1
  BY HbTypes DEF HbInv
<1>1. CASE HB!IncId
  BY <1>0, <1>1 DEF HB!IncId, HB!IsZero
<1>2. CASE HB!SkipZero \/ HB!ResetSum \/ HB!SetReqTime \/ HB!SendReq
  BY <1>0, <1>2 DEF HB!SkipZero, HB!ResetSum, HB!SetReqTime, HB!SendReq
<1>3. CASE HB!SendRpl
  BY <1>0, <1>3 DEF HB!SendRpl
<1>4. CASE HB!CheckHeartBeat
  BY <1>0, <1>4 DEF HB!CheckHeartBeat
<1>5. CASE HB!Late \/ HB!ReturnFalse \/ HB!Delay \/ HB!AddDelay \/ HB!TestId \/ HB!Divide
  BY <1>0, <1>5 DEF HB!Late, HB!ReturnFalse, HB!Delay, HB!AddDelay, HB!TestId, HB!Divide
<1>6. CASE HB!DivideByZero \/ HB!Clock \/ UNCHANGED heartbeat
  BY <1>0, <1>6 DEF HB!DivideByZero, HB!Clock, heartbeat
<1>7. QED
  BY <1>1, <1>2, <1>3, <1>4, <1>5, <1>6 DEF HB!Next, HB!HeartBeat, HB!Reader

LEMMA AllTyped ==
  ASSUME NEW s \in Seq(HB!Msgs)
  PROVE  \A i \in DOMAIN s : s[i] \in HB!Msgs
  OBVIOUS

LEMMA HbTypeStep == ASSUME HbInv, [HB!Next]_heartbeat PROVE HB!TypeOK'
<1> USE HbConstants DEF HB!measure, HB!msgs, HB!ghost
<1>0. HB!TypeOK
  BY DEF HbInv
<1>1. (\A i \in DOMAIN reqs' : reqs'[i] \in HB!Msgs) /\ \A i \in DOMAIN rpls' : rpls'[i] \in HB!Msgs
  <2>1. reqs' \in Seq(HB!Msgs) /\ rpls' \in Seq(HB!Msgs)
    BY FlightStep DEF FlightInv, HB!Msgs
  <2>2. QED
    BY <2>1, AllTyped
<1>2. CASE HB!IncId
  <2>1. hbID' \in 0..W-1
    <3>1. hbID' = (hbID + 1) % W /\ hbID + 1 \in Nat
      <4>1. hbID' = (hbID + 1) % W
        BY <1>2 DEF HB!IncId, HB!NextId
      <4>2. hbID \in Nat
        BY HbTypes
      <4>3. QED
        BY <4>1, <4>2
    <3>2. QED
      BY <3>1
  <2>2. count' \in 0..MaxReq /\ torn' \in BOOLEAN /\ hb' \in {"zero", "time"}
    <3>1. count < MaxReq /\ count' = count + 1 /\ (torn' = torn \/ torn' = (torn \/ HB!Measuring))
          /\ hb' \in {"zero", "time"}
      BY <1>2 DEF HB!IncId
    <3>2. count \in 0..MaxReq /\ torn \in BOOLEAN
      BY HbTypes
    <3>3. count' \in 0..MaxReq
      BY <3>1, <3>2
    <3>4. torn' \in BOOLEAN
      BY <3>1, <3>2, Zenon
    <3>5. QED
      BY <3>1, <3>3, <3>4
  <2>3. UNCHANGED <<now, hbReqTime, hbDelay, hbDelaySum, hbDelayAvg, valid, rd, reply, asked, slowest>>
    BY <1>2 DEF HB!IncId
  <2>4. QED
    BY <1>0, <1>1, <2>1, <2>2, <2>3 DEF HB!TypeOK, HB!Msgs
<1>3. CASE HB!SkipZero \/ HB!ResetSum \/ HB!SetReqTime
  BY <1>0, <1>1, <1>3 DEF HB!SkipZero, HB!ResetSum, HB!NewSum, HB!SetReqTime, HB!ReqTime, HB!TypeOK, HB!Msgs
<1>4. CASE HB!SendReq \/ HB!SendRpl
  BY <1>0, <1>1, <1>4 DEF HB!SendReq, HB!SendRpl, HB!TypeOK, HB!Msgs
<1>5. CASE HB!CheckHeartBeat
  <2>1. Head(rpls) \in HB!Msgs
    BY <1>5, MsgFacts DEF HB!CheckHeartBeat
  <2>2. QED
    BY <1>0, <1>1, <1>5, <2>1 DEF HB!CheckHeartBeat, HB!TypeOK, HB!Msgs
<1>6. CASE HB!Late \/ HB!ReturnFalse \/ HB!TestId \/ HB!DivideByZero \/ UNCHANGED heartbeat
  BY <1>0, <1>1, <1>6 DEF HB!Late, HB!ReturnFalse, HB!TestId, HB!DivideByZero, heartbeat, HB!TypeOK, HB!Msgs
<1>7. CASE HB!Delay
  <2>1. hbDelay' \in Nat
    BY <1>7, HbTypes DEF HB!Delay
  <2>2. slowest' \in Nat
    <3>1. now - reply.at \in Int /\ slowest \in Nat
      BY HbTypes
    <3>2. slowest <= slowest' /\ slowest' \in {slowest, now - reply.at}
      BY <1>7, <3>1, MaxOfTwo DEF HB!Delay
    <3>3. QED
      BY <3>1, <3>2
  <2>3. QED
    BY <1>0, <1>1, <1>7, <2>1, <2>2 DEF HB!Delay, HB!TypeOK, HB!Msgs
<1>8. CASE HB!AddDelay
  <2>1. hbDelaySum' \in Nat
    BY <1>8, HbTypes DEF HB!AddDelay
  <2>2. QED
    BY <1>0, <1>1, <1>8, <2>1 DEF HB!AddDelay, HB!TypeOK, HB!Msgs
<1>9. CASE HB!Divide
  <2>1. hbDelayAvg' \in Nat
    BY <1>9, HbTypes DEF HB!Divide
  <2>2. QED
    BY <1>0, <1>1, <1>9, <2>1 DEF HB!Divide, HB!TypeOK, HB!Msgs
<1>10. CASE HB!Clock
  BY <1>0, <1>1, <1>10 DEF HB!Clock, HB!TypeOK, HB!Msgs
<1>11. QED
  BY <1>2, <1>3, <1>4, <1>5, <1>6, <1>7, <1>8, <1>9, <1>10 DEF HB!Next, HB!HeartBeat, HB!Reader

LEMMA TimeStep == ASSUME HbInv, [HB!Next]_heartbeat PROVE TimeInv'
<1> USE DEF HB!measure, HB!msgs, HB!ghost
<1>0. /\ hbReqTime = asked /\ reply.at <= asked /\ asked \in Nat /\ now \in Nat /\ asked <= now
      /\ reqs \in Seq(HB!Msgs) /\ rpls \in Seq(HB!Msgs)
      /\ \A i \in 1..Len(reqs) : reqs[i].at <= asked
      /\ \A i \in 1..Len(rpls) : rpls[i].at <= asked
  <2>1. asked \in Nat /\ now \in Nat /\ asked <= now
    BY HbTypes, HbConstants
  <2>2. reqs \in Seq(HB!Msgs) /\ rpls \in Seq(HB!Msgs)
    BY MsgFacts
  <2>3. TimeInv
    BY DEF HbInv
  <2>4. QED
    BY <2>1, <2>2, <2>3 DEF TimeInv
<1>1. CASE UNCHANGED <<hbReqTime, asked, reply, reqs, rpls>>
  BY <1>0, <1>1 DEF TimeInv
<1>2. CASE HB!SetReqTime
  <2>1. hbReqTime' = now /\ asked' = now /\ UNCHANGED <<reply, reqs, rpls>>
    BY <1>2 DEF HB!SetReqTime, HB!ReqTime
  <2>2. reply.at \in Nat
    BY HbTypes, HbConstants
  <2>3. \A i \in 1..Len(reqs) : reqs[i].at \in Nat
    <3>1. \A i \in 1..Len(reqs) : reqs[i] \in HB!Msgs
      BY <1>0
    <3>2. QED
      BY <3>1, HbConstants DEF HB!Msgs
  <2>4. \A i \in 1..Len(rpls) : rpls[i].at \in Nat
    <3>1. \A i \in 1..Len(rpls) : rpls[i] \in HB!Msgs
      BY <1>0
    <3>2. QED
      BY <3>1, HbConstants DEF HB!Msgs
  <2>5. QED
    BY <1>0, <2>1, <2>2, <2>3, <2>4 DEF TimeInv
<1>3. CASE HB!SendReq
  <2> DEFINE m == [id |-> hbID, at |-> asked]
  <2>1. reqs' = Append(reqs, m) /\ m.at = asked /\ UNCHANGED <<hbReqTime, asked, reply, rpls>>
    BY <1>3 DEF HB!SendReq
  <2> HIDE DEF m
  <2>2. QED
    BY <1>0, <2>1 DEF TimeInv
<1>4. CASE HB!SendRpl
  <2>1. /\ reqs # <<>> /\ rpls' = Append(rpls, Head(reqs)) /\ reqs' = Tail(reqs)
        /\ UNCHANGED <<hbReqTime, asked, reply>>
    BY <1>4 DEF HB!SendRpl
  <2>2. Head(reqs).at <= asked
    BY <1>0, <2>1
  <2>3. \A i \in 1..Len(reqs') : reqs'[i].at <= asked
    BY <1>0, <2>1
  <2>4. \A i \in 1..Len(rpls') : rpls'[i].at <= asked
    BY <1>0, <2>1, <2>2
  <2>5. QED
    BY <1>0, <2>1, <2>3, <2>4 DEF TimeInv
<1>5. CASE HB!CheckHeartBeat
  <2>1. /\ rpls # <<>> /\ rpls' = Tail(rpls) /\ reply' = Head(rpls)
        /\ UNCHANGED <<hbReqTime, asked, reqs>>
    BY <1>5 DEF HB!CheckHeartBeat
  <2>2. Head(rpls).at <= asked
    BY <1>0, <2>1
  <2>3. \A i \in 1..Len(rpls') : rpls'[i].at <= asked
    BY <1>0, <2>1
  <2>4. QED
    BY <1>0, <2>1, <2>2, <2>3 DEF TimeInv
<1>6. HB!IncId \/ HB!SkipZero \/ HB!ResetSum \/ HB!Late \/ HB!ReturnFalse \/ HB!Delay \/ HB!AddDelay
      \/ HB!TestId \/ HB!Divide \/ HB!DivideByZero \/ HB!Clock \/ UNCHANGED heartbeat
        => UNCHANGED <<hbReqTime, asked, reply, reqs, rpls>>
  BY DEF HB!IncId, HB!SkipZero, HB!ResetSum, HB!Late, HB!ReturnFalse, HB!Delay, HB!AddDelay, HB!TestId,
         HB!Divide, HB!DivideByZero, HB!Clock, heartbeat
<1>7. QED
  BY <1>1, <1>2, <1>3, <1>4, <1>5, <1>6 DEF HB!Next, HB!HeartBeat, HB!Reader

LEMMA TornStep == ASSUME HbInv, [HB!Next]_heartbeat PROVE TornInv'
<1> USE DEF HB!measure, HB!msgs, HB!ghost, TornInv, HB!Wrapping, HB!Measuring
<1>0. TornInv /\ NumberInv /\ torn \in BOOLEAN
  BY HbTypes DEF HbInv
<1>1. CASE HB!IncId
  BY <1>0, <1>1 DEF HB!IncId
<1>2. CASE HB!SkipZero \/ HB!ResetSum \/ HB!SetReqTime \/ HB!SendReq
  BY <1>0, <1>2 DEF HB!SkipZero, HB!ResetSum, HB!SetReqTime, HB!SendReq
<1>3. CASE HB!SendRpl \/ HB!Clock \/ UNCHANGED heartbeat
  BY <1>0, <1>3 DEF HB!SendRpl, HB!Clock, heartbeat
<1>4. CASE HB!CheckHeartBeat
  BY <1>0, <1>4 DEF HB!CheckHeartBeat
<1>5. CASE HB!Late \/ HB!ReturnFalse \/ HB!Delay \/ HB!AddDelay \/ HB!TestId \/ HB!Divide
  BY <1>0, <1>5 DEF HB!Late, HB!ReturnFalse, HB!Delay, HB!AddDelay, HB!TestId, HB!Divide
<1>6. CASE HB!DivideByZero
  <2>1. hb \in {"zero", "panic"}
    BY <1>0, <1>6, HbTypes DEF HB!DivideByZero, NumberInv
  <2>2. QED
    BY <1>0, <1>6, <2>1 DEF HB!DivideByZero
<1>7. QED
  BY <1>1, <1>2, <1>3, <1>4, <1>5, <1>6 DEF HB!Next, HB!HeartBeat, HB!Reader

(* What is measured is never more than what the reply took. *)
LEMMA DelayFacts ==
  ASSUME HbInv, HB!Delay
  PROVE  /\ hbDelay' = now - hbReqTime /\ hbDelay' <= slowest' /\ slowest <= slowest'
         /\ slowest' \in Nat /\ hbDelay' \in Nat
<1>1. now - reply.at \in Int /\ slowest \in Nat /\ now \in Int /\ hbReqTime \in Int /\ reply.at \in Int
  BY HbTypes
<1>2. slowest <= slowest' /\ now - reply.at <= slowest' /\ slowest' \in {slowest, now - reply.at}
  <2> DEFINE d == now - reply.at
  <2>1. slowest' = HB!Max({slowest, d})
    BY DEF HB!Delay
  <2>2. d \in Int
    BY <1>1
  <2> HIDE DEF d
  <2>3. /\ HB!Max({slowest, d}) \in {slowest, d}
        /\ slowest <= HB!Max({slowest, d}) /\ d <= HB!Max({slowest, d})
    <3>1. slowest \in Int
      BY <1>1
    <3>2. QED
      BY <2>2, <3>1, MaxOfTwo
  <2>4. slowest <= slowest' /\ d <= slowest' /\ slowest' \in {slowest, d}
    BY <2>1, <2>3
  <2>5. QED
    BY <2>4 DEF d
<1>3. hbDelay' = now - hbReqTime
  BY DEF HB!Delay
<1>4. reply.at <= hbReqTime
  BY DEF HbInv, TimeInv
<1>5. hbReqTime <= now
  BY HbTypes
<1>6. slowest' \in Nat
  BY <1>1, <1>2
<1>7. QED
  BY <1>1, <1>2, <1>3, <1>4, <1>5, <1>6

LEMMA DelayStep == ASSUME HbInv, [HB!Next]_heartbeat PROVE HB!DelayNotOver'
<1> USE DEF HB!measure, HB!msgs, HB!ghost, HB!DelayNotOver
<1>0. HB!DelayNotOver
  BY DEF HbInv
<1>1. CASE HB!Delay
  BY <1>1, DelayFacts
<1>2. CASE HB!IncId \/ HB!SkipZero \/ HB!ResetSum \/ HB!SetReqTime \/ HB!SendReq \/ HB!SendRpl
  BY <1>0, <1>2 DEF HB!IncId, HB!SkipZero, HB!ResetSum, HB!SetReqTime, HB!SendReq, HB!SendRpl
<1>3. CASE HB!CheckHeartBeat
  BY <1>0, <1>3 DEF HB!CheckHeartBeat
<1>4. CASE HB!Late \/ HB!ReturnFalse \/ HB!AddDelay \/ HB!TestId \/ HB!Divide \/ HB!DivideByZero \/ HB!Clock
           \/ UNCHANGED heartbeat
  BY <1>0, <1>4
     DEF HB!Late, HB!ReturnFalse, HB!AddDelay, HB!TestId, HB!Divide, HB!DivideByZero, HB!Clock, heartbeat
<1>5. QED
  BY <1>1, <1>2, <1>3, <1>4 DEF HB!Next, HB!HeartBeat, HB!Reader

(* The terms of Summed. *)
OnItsWay == IF hb # "idle" \/ reqs # <<>> \/ rpls # <<>> THEN 1 ELSE 0
BeingTaken == IF rd \in {"delay", "add"} THEN 1 ELSE 0

LEMMA SummedIs == Summed = hbID - OnItsWay - BeingTaken /\ OnItsWay \in {0, 1} /\ BeingTaken \in {0, 1}
  BY DEF Summed, OnItsWay, BeingTaken

LEMMA SumKept ==
  ASSUME HbInv, ~ torn, ~ HB!Wrapping, NEW k \in Int, Summed <= k
  PROVE  0 <= k /\ hbDelaySum <= slowest * k
<1>1. 0 <= Summed /\ hbDelaySum <= slowest * Summed
  BY DEF HbInv, SumInv
<1>2. Summed \in Nat /\ k \in Nat /\ slowest \in Nat /\ hbDelaySum \in Nat
  <2>1. hbID \in Int /\ slowest \in Nat /\ hbDelaySum \in Nat
    BY HbTypes
  <2>2. Summed \in Int
    BY <2>1, SummedIs
  <2>3. QED
    BY <1>1, <2>1, <2>2
<1>3. slowest * Summed <= slowest * k
  BY <1>2, MoreOften
<1>4. slowest * Summed \in Nat /\ slowest * k \in Nat
  BY <1>2, Products
<1>5. QED
  BY <1>1, <1>2, <1>3, <1>4

LEMMA SumStep == ASSUME HbInv, [HB!Next]_heartbeat PROVE SumInv'
<1> USE DEF HB!measure, HB!msgs, HB!ghost
<1>0. /\ hbID \in Nat /\ slowest \in Nat /\ hbDelaySum \in Nat /\ hbDelay \in Nat /\ Summed \in Int
      /\ hb \in {"idle", "zero", "sum", "time", "send", "panic"}
  BY HbTypes, SummedIs
<1>a. Summed = hbID - OnItsWay - BeingTaken /\ OnItsWay \in {0, 1} /\ BeingTaken \in {0, 1}
  BY SummedIs
<1>b. PICK o \in {0, 1} : o = IF hb' # "idle" \/ reqs' # <<>> \/ rpls' # <<>> THEN 1 ELSE 0
  OBVIOUS
<1>c. PICK b \in {0, 1} : b = IF rd' \in {"delay", "add"} THEN 1 ELSE 0
  OBVIOUS
<1>d. hbID' \in Nat
  BY HbTypeStep DEF HB!TypeOK
<1>e. PICK k \in Int : k = hbID' - o - b
  <2>1. hbID' - o - b \in Int
    BY <1>b, <1>c, <1>d
  <2>2. QED
    BY <2>1, Zenon
<1>f. Summed' = k
  BY <1>b, <1>c, <1>e DEF Summed
<1> SUFFICES ASSUME ~ torn', ~ HB!Wrapping' PROVE 0 <= k /\ hbDelaySum' <= slowest' * k
  BY <1>f DEF SumInv
<1>1. CASE HB!IncId
  <2>1. hb = "idle" /\ hb' = "time" /\ hbID' # 0 /\ hbID' = (hbID + 1) % W
        /\ UNCHANGED <<rd, torn, hbDelaySum, slowest>>
    BY <1>1 DEF HB!IncId, HB!IsZero, HB!NextId, HB!Wrapping
  <2>2. hbID' = hbID + 1
    <3>1. hbID + 1 < W
      <4>1. CASE hbID = W - 1
        BY <2>1, <4>1, HbConstants
      <4>2. QED
        BY <4>1, HbTypes, HbConstants
    <3>2. QED
      BY <1>0, <2>1, <3>1, NotYetZero
  <2>3. o = 1 /\ b = BeingTaken
    BY <1>b, <1>c, <2>1 DEF OnItsWay, BeingTaken
  <2>4. Summed <= k
    BY <1>0, <1>a, <1>e, <2>2, <2>3
  <2>5. ~ HB!Wrapping
    BY <2>1 DEF HB!Wrapping
  <2>6. QED
    BY <2>1, <2>4, <2>5, SumKept
<1>2. CASE HB!SkipZero
  BY <1>2 DEF HB!SkipZero, HB!Wrapping
<1>3. CASE HB!ResetSum
  <2>1. hbID' = 1 /\ hbDelaySum' = 0 /\ hb' = "time" /\ rd' = rd /\ ~ torn /\ HB!Wrapping
    BY <1>3 DEF HB!ResetSum, HB!NewSum, HbInv, NumberInv, HB!Wrapping
  <2>2. ~ HB!Measuring
    BY <2>1 DEF HbInv, TornInv
  <2>3. o = 1 /\ b = 0
    BY <1>b, <1>c, <2>1, <2>2 DEF OnItsWay, BeingTaken, HB!Measuring
  <2>4. k = 0
    BY <1>e, <2>1, <2>3
  <2>5. slowest' = slowest
    BY <1>3 DEF HB!ResetSum
  <2>6. QED
    BY <1>0, <2>1, <2>4, <2>5
<1>4. CASE HB!SetReqTime \/ HB!SendReq \/ HB!SendRpl
  <2>1. UNCHANGED <<hbID, rd, torn, hbDelaySum, slowest>> /\ ~ HB!Wrapping
    BY <1>4 DEF HB!SetReqTime, HB!SendReq, HB!SendRpl, HB!Wrapping
  <2>2. o = OnItsWay
    <3>1. CASE HB!SetReqTime
      BY <1>b, <1>c, <3>1 DEF HB!SetReqTime, OnItsWay
    <3>2. CASE HB!SendReq
      <4>1. hb = "send" /\ Len(reqs') = Len(reqs) + 1
        BY <3>2, MsgFacts DEF HB!SendReq
      <4>2. reqs' # <<>>
        BY <4>1, MsgFacts
      <4>3. QED
        BY <1>b, <1>c, <4>1, <4>2 DEF OnItsWay
    <3>3. CASE HB!SendRpl
      <4>1. reqs # <<>> /\ rpls' = Append(rpls, Head(reqs))
        BY <3>3 DEF HB!SendRpl
      <4>2. rpls' # <<>>
        BY <4>1, MsgFacts
      <4>3. QED
        BY <1>b, <1>c, <4>1, <4>2 DEF OnItsWay
    <3>4. QED
      BY <1>4, <3>1, <3>2, <3>3
  <2>3. b = BeingTaken
    BY <1>b, <1>c, <2>1 DEF BeingTaken
  <2>4. k = Summed
    BY <1>a, <1>e, <2>1, <2>2, <2>3
  <2>5. QED
    BY <1>0, <2>1, <2>4, SumKept
<1>5. CASE HB!CheckHeartBeat
  <2>1. /\ rd = "idle" /\ rpls # <<>> /\ rpls' = Tail(rpls)
        /\ UNCHANGED <<hbID, hb, reqs, hbDelaySum, slowest>> /\ ~ HB!Wrapping
    BY <1>5 DEF HB!CheckHeartBeat, HB!Wrapping
  <2>2. OnItsWay = 1 /\ BeingTaken = 0
    BY <1>b, <1>c, <2>1 DEF OnItsWay, BeingTaken
  <2>3. torn' = torn
    BY <1>5, HbTypes DEF HB!CheckHeartBeat, HB!Wrapping
  <2>4. o + b <= 1
    <3>1. CASE HB!IsLast(Head(rpls).id)
      <4>1. hb = "idle" /\ reqs = <<>> /\ Tail(rpls) = <<>>
        BY <2>1, <3>1, LastIsAlone
      <4>2. o = 0
        BY <1>b, <1>c, <2>1, <4>1 DEF OnItsWay
      <4>3. QED
        BY <1>c, <4>2
    <3>2. CASE ~ HB!IsLast(Head(rpls).id)
      <4>1. rd' = "late"
        BY <1>5, <3>2 DEF HB!CheckHeartBeat
      <4>2. b = 0
        BY <1>b, <1>c, <4>1 DEF BeingTaken
      <4>3. QED
        BY <1>b, <4>2
    <3>3. QED
      BY <3>1, <3>2
  <2>5. Summed <= k
    BY <1>0, <1>a, <1>b, <1>c, <1>e, <2>1, <2>2, <2>4
  <2>6. QED
    BY <2>1, <2>3, <2>5, SumKept
<1>6. CASE HB!Delay
  <2>1. UNCHANGED <<hbID, hb, reqs, rpls, torn, hbDelaySum>> /\ rd = "delay" /\ rd' = "add"
    BY <1>6 DEF HB!Delay
  <2>2. k = Summed
    BY <1>b, <1>c, <1>a, <1>e, <2>1 DEF OnItsWay, BeingTaken
  <2>3. 0 <= Summed /\ hbDelaySum <= slowest * Summed
    BY <2>1 DEF HbInv, SumInv, HB!Wrapping
  <2>4. slowest' \in Nat /\ slowest <= slowest' /\ Summed \in Nat
    BY <1>0, <1>6, <2>3, DelayFacts
  <2>5. slowest * Summed <= slowest' * Summed
    BY <1>0, <2>4, Slower
  <2>6. slowest * Summed \in Nat /\ slowest' * Summed \in Nat
    BY <1>0, <2>4, Products
  <2>7. QED
    BY <1>0, <2>1, <2>2, <2>3, <2>5, <2>6
<1>7. CASE HB!AddDelay
  <2>1. /\ UNCHANGED <<hbID, hb, reqs, rpls, torn, slowest, hbDelay>> /\ rd = "add" /\ rd' = "test"
        /\ hbDelaySum' = hbDelaySum + hbDelay
    BY <1>7 DEF HB!AddDelay
  <2>2. o = OnItsWay /\ BeingTaken = 1 /\ b = 0
    BY <1>b, <1>c, <2>1 DEF OnItsWay, BeingTaken
  <2>3. k = Summed + 1
    BY <1>0, <1>a, <1>e, <2>1, <2>2
  <2>4. 0 <= Summed /\ hbDelaySum <= slowest * Summed
    BY <2>1 DEF HbInv, SumInv, HB!Wrapping
  <2>5. hbDelay <= slowest
    BY <2>1 DEF HbInv, HB!DelayNotOver
  <2>6. slowest * (Summed + 1) = slowest * Summed + slowest /\ slowest * Summed \in Nat
    BY <1>0, <2>4, OneMore
  <2>7. QED
    BY <1>0, <2>1, <2>3, <2>4, <2>5, <2>6
<1>8. CASE HB!Late \/ HB!ReturnFalse \/ HB!TestId \/ HB!Divide \/ HB!Clock \/ UNCHANGED heartbeat
  <2>1. UNCHANGED <<hbID, hb, reqs, rpls, torn, slowest, hbDelaySum>> /\ ~ HB!Wrapping
        /\ b = BeingTaken
    BY <1>c, <1>8 DEF HB!Late, HB!ReturnFalse, HB!TestId, HB!Divide, HB!Clock, heartbeat, HB!Wrapping, BeingTaken
  <2>2. o = OnItsWay
    BY <1>b, <1>c, <2>1 DEF OnItsWay
  <2>3. k = Summed
    BY <1>a, <1>e, <2>1, <2>2
  <2>4. QED
    BY <1>0, <2>1, <2>3, SumKept
<1>9. CASE HB!DivideByZero
  <2>1. TornInv'
    BY TornStep
  <2>2. torn'
    BY <1>9, <2>1 DEF HB!DivideByZero, TornInv
  <2>3. QED
    BY <2>2
<1>10. QED
  BY <1>1, <1>2, <1>3, <1>4, <1>5, <1>6, <1>7, <1>8, <1>9 DEF HB!Next, HB!HeartBeat, HB!Reader

LEMMA AvgStep == ASSUME HbInv, [HB!Next]_heartbeat PROVE HB!AvgNotOver'
<1> SUFFICES ASSUME ~ torn' PROVE hbDelayAvg' <= slowest'
  BY DEF HB!AvgNotOver
<1> USE DEF HB!measure, HB!msgs, HB!ghost
<1>0. hbID \in Nat /\ slowest \in Nat /\ hbDelaySum \in Nat /\ hbDelayAvg \in Nat
  BY HbTypes
<1>1. ~ torn => hbDelayAvg <= slowest
  BY DEF HbInv, HB!AvgNotOver
<1>2. CASE HB!Divide
  <2>1. hbID # 0 /\ hbDelayAvg' = hbDelaySum \div hbID /\ rd = "divide" /\ ~ torn /\ slowest' = slowest
    BY <1>2 DEF HB!Divide
  <2>2. ~ HB!Wrapping
    BY <2>1 DEF HbInv, TornInv, HB!Measuring
  <2>3. 0 <= Summed /\ hbDelaySum <= slowest * Summed
    BY <2>1, <2>2 DEF HbInv, SumInv
  <2>4. Summed \in Nat /\ Summed <= hbID
    BY <1>0, <2>3, SummedIs
  <2>5. slowest * Summed <= slowest * hbID /\ slowest * Summed \in Nat /\ slowest * hbID \in Nat
    BY <1>0, <2>4, MoreOften
  <2>6. hbDelaySum <= slowest * hbID
    BY <1>0, <2>3, <2>5
  <2>7. QED
    BY <1>0, <2>1, <2>6, MeanBound
<1>3. CASE HB!Delay
  <2>1. hbDelayAvg' = hbDelayAvg /\ torn' = torn
    BY <1>3 DEF HB!Delay
  <2>2. QED
    BY <1>0, <1>1, <1>3, <2>1, DelayFacts
<1>4. CASE HB!IncId
  <2>1. UNCHANGED <<hbDelayAvg, slowest>>
    BY <1>4 DEF HB!IncId
  <2>2. torn' = torn \/ torn' = (torn \/ HB!Measuring)
    BY <1>4 DEF HB!IncId
  <2>3. ~ torn
    BY <2>2, Zenon
  <2>4. QED
    BY <1>1, <2>1, <2>3
<1>5. CASE HB!SkipZero \/ HB!ResetSum \/ HB!SetReqTime \/ HB!SendReq \/ HB!SendRpl
  <2>1. UNCHANGED <<hbDelayAvg, slowest>> /\ ~ torn
    BY <1>5 DEF HB!SkipZero, HB!ResetSum, HB!SetReqTime, HB!SendReq, HB!SendRpl
  <2>2. QED
    BY <1>1, <2>1
<1>6. CASE HB!CheckHeartBeat
  <2>1. UNCHANGED <<hbDelayAvg, slowest>> /\ ~ torn
    BY <1>6 DEF HB!CheckHeartBeat
  <2>2. QED
    BY <1>1, <2>1
<1>7. CASE HB!Late \/ HB!ReturnFalse \/ HB!AddDelay \/ HB!TestId \/ HB!DivideByZero \/ HB!Clock
           \/ UNCHANGED heartbeat
  BY <1>1, <1>7
     DEF HB!Late, HB!ReturnFalse, HB!AddDelay, HB!TestId, HB!DivideByZero, HB!Clock, heartbeat
<1>8. QED
  BY <1>2, <1>3, <1>4, <1>5, <1>6, <1>7 DEF HB!Next, HB!HeartBeat, HB!Reader

LEMMA HbInit == MCInit => HbInv
<1> SUFFICES ASSUME HB!Init PROVE HbInv
  BY DEF MCInit
<1> USE HbConstants DEF HB!Init
<1>1. HB!TypeOK
  <2>1. (\A i \in DOMAIN reqs : reqs[i] \in HB!Msgs) /\ \A i \in DOMAIN rpls : rpls[i] \in HB!Msgs
    BY AllTyped
  <2>2. hbID \in 0..W-1 /\ now \in 0..MaxNow /\ count \in 0..MaxReq /\ hbReqTime \in 0..now /\ asked \in 0..now
    OBVIOUS
  <2>3. QED
    BY <2>1, <2>2 DEF HB!TypeOK
<1>2. FlightInv
  BY DEF FlightInv, Taken
<1>3. NumberInv /\ TimeInv /\ TornInv
  BY DEF NumberInv, TimeInv, TornInv, HB!Nothing, HB!Wrapping
<1>4. SumInv
  BY DEF SumInv, Summed
<1>5. HB!DelayNotOver /\ HB!AvgNotOver
  BY DEF HB!DelayNotOver, HB!AvgNotOver
<1>6. QED
  BY <1>1, <1>2, <1>3, <1>4, <1>5 DEF HbInv

LEMMA HbInvariant == MCSpec => []HbInv
<1>1. [MCNext]_<<part, vars, pktBuf, heartbeat, twoSwitches>> => [HB!Next]_heartbeat
  BY DEF MCNext
<1>2. HbInv /\ [HB!Next]_heartbeat => HbInv'
  BY HbTypeStep, FlightStep, NumberStep, TimeStep, TornStep, SumStep, DelayStep, AvgStep DEF HbInv
<1>3. QED
  BY <1>1, <1>2, HbInit, PTL DEF MCSpec

(* heartbeat.go:67-82: for every width of the id, number of requests and   *)
(* clock, no delay and, outside a measurement that a wrap has torn, no     *)
(* mean delay is more than the slowest reply took, although HeartBeat and  *)
(* the reader share the id, the time and the sum without a lock.           *)
THEOREM DelaysCorrect == MCSpec => []DelaysRight
<1>1. HbInv => DelaysRight
  BY DEF HbInv, DelaysRight
<1>2. QED
  BY <1>1, HbInvariant, PTL
=============================================================================
