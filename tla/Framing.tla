------------------------------ MODULE Framing ------------------------------
(***************************************************************************)
(* Frames on a connection (vnet/encode.go, vnet/conn.go): a sender writes  *)
(* a header of type and length and then the payload; the receiver's Read   *)
(* takes the header, finds the handler of the type and lets it take the    *)
(* payload, into one buffer of fixed size.  Nothing in the stream marks    *)
(* where a frame begins: the two must agree on lengths for ever.           *)
(*                                                                         *)
(* Senders are the device (vnet/tun.go), the heartbeat and the report of   *)
(* FDB ids (vnet/vid.go).  Payloads are lengths here.  What the device may *)
(* send and what the receiver lets pass are two tests, of constants at two *)
(* places: the device is a tap, or with ConnBindTun perhaps a tun, and the *)
(* receiving client takes the limits of the device it is bound to; one     *)
(* that is not bound has those of a tap.                                   *)
(***************************************************************************)
EXTENDS Integers, Sequences

CONSTANTS HeaderSize, BufSize,  \* PktHeaderSize and pktBufSize
          MinSize, MaxSize,     \* L2PktMinSize and L2PktMaxSize
          EtherSize,            \* what the packets of a tap have before those of a tun
          Lens,      \* the lengths of what the device reads
          IdCounts,  \* how many FDBs a report may name
          Wide,      \* a length is a number modulo Wide: 2^16
          MaxFrames  \* bound on the frames in the channel and on the stream

HbLen == 14          \* HearBeatLen

ASSUME FramingAssumption ==
  /\ HeaderSize \in Nat \ {0} /\ BufSize \in Nat /\ MinSize \in Nat /\ MaxSize \in Nat /\ Wide \in Nat
  /\ EtherSize \in Nat /\ EtherSize <= MinSize /\ EtherSize + HbLen <= MaxSize
  /\ HeaderSize + MaxSize <= BufSize /\ BufSize < Wide
  /\ Lens \subseteq Nat /\ IdCounts \subseteq Nat /\ MaxFrames \in Nat

Kinds == {"tap", "tun"}
Types == {"UserData", "HearbeatReq", "HearbeatRpl", "FdbIdsMsg"}

VARIABLES
  device,    \* the kind of the device at the sending end
  bound,     \* the kind whose limits the receiving client has
  pktchan,   \* buffers that wait for the writer: type, length field, payload
  stream,    \* headers and payloads that have been written and not read
  used,      \* pb.len of the receiver's buffer
  ph,        \* the header it has parsed
  pc,        \* where the receiver is
  lost,      \* it has taken something else for a header or a payload
  ended, by  \* what has ended the connection, and the frame that did

ends == <<device, bound>>
vars == <<ends, pktchan, stream, used, ph, pc, lost, ended, by>>
receiver == <<used, ph, pc, lost>>

NoHeader == [type |-> "none", len |-> 0]
On == ended = "no"

Init ==
  /\ device \in Kinds /\ bound \in Kinds
  /\ pktchan = <<>> /\ stream = <<>>
  /\ used = 0 /\ ph = NoHeader /\ pc = "idle" /\ lost = FALSE /\ ended = "no" /\ by = NoHeader
-----------------------------------------------------------------------------
(* A buffer with a header and n bytes behind it: SetDataLen ends the       *)
(* process if they do not fit.                                             *)
Assemble(t, n) ==
  /\ On /\ Len(pktchan) < MaxFrames
  /\ IF HeaderSize + n <= BufSize
     THEN /\ pktchan' = Append(pktchan, [type |-> t, len |-> n % Wide, bytes |-> n])
          /\ UNCHANGED <<ended, by>>
     ELSE ended' = "panic" /\ by' = [type |-> t, len |-> n] /\ UNCHANGED pktchan
  /\ UNCHANGED <<ends, stream, receiver>>

(* getPktRange, which setAcsSize copies to the client that is bound.       *)
MinOf(k) == IF k = "tap" THEN MinSize ELSE MinSize - EtherSize
MaxOf(k) == IF k = "tap" THEN MaxSize ELSE MaxSize - EtherSize

(* What the device delivers is skipped if its length is out of range. *)
AnyLen(n) == MinOf(device) <= n   \* mutant: the upper end of the range is not checked
TunRange(n) == MinOf(device) <= n /\ n <= MaxOf(device)

TunRead == \E n \in Lens : TunRange(n) /\ Assemble("UserData", n)

SendHeartBeat == \E t \in {"HearbeatReq", "HearbeatRpl"} : Assemble(t, HbLen)

ReportFdbMsg == \E k \in IdCounts : Assemble("FdbIdsMsg", 2 * k)

(* WriteFromChan sends the bytes of the buffer. *)
Segments(b) == <<[head |-> TRUE, type |-> b.type, len |-> b.len],
                 [head |-> FALSE, type |-> "none", len |-> b.bytes]>>

Write ==
  /\ On /\ pktchan # <<>> /\ Len(stream) < MaxFrames
  /\ stream' = stream \o Segments(Head(pktchan))
  /\ pktchan' = Tail(pktchan)
  /\ UNCHANGED <<ends, receiver, ended, by>>

Cut == On /\ ended' = "cut" /\ UNCHANGED <<ends, pktchan, stream, receiver, by>>
-----------------------------------------------------------------------------
(* Read: the header, then the handler of its type.  Without a handler the  *)
(* payload stays in the stream.  LoadAndUseBuf adds to what the buffer     *)
(* holds already.                                                          *)
NotReports == Types \ {"FdbIdsMsg"}   \* mutant: one handler is not registered
PktHandles == Types

ReadHeader ==
  /\ On /\ pc = "idle" /\ stream # <<>>
  /\ used' = used + HeaderSize
  /\ lost' = (lost \/ ~ Head(stream).head)
  /\ ph' = [type |-> Head(stream).type, len |-> Head(stream).len]
  /\ stream' = Tail(stream)
  /\ pc' = IF ph'.type \in PktHandles THEN "handle" ELSE "put"
  /\ UNCHANGED <<ends, pktchan, ended, by>>

(* Each handler checks the length: an error closes the connection.  Then   *)
(* io.ReadFull, and ForwardPkt with the frame as it is; LoadAndUseBuf ends *)
(* the process if the payload does not fit.                                *)
LengthFits(h) == h.len <= MaxOf(bound) /\ (h.type = "UserData" => MinOf(bound) <= h.len)

Reject ==
  /\ On /\ pc = "handle" /\ ~ LengthFits(ph)
  /\ ended' = "rejected" /\ by' = ph
  /\ UNCHANGED <<ends, pktchan, stream, receiver>>

ReadPayload ==
  /\ On /\ pc = "handle" /\ LengthFits(ph) /\ stream # <<>>
  /\ IF used + ph.len <= BufSize
     THEN /\ used' = used + ph.len
          /\ lost' = (lost \/ Head(stream).head \/ Head(stream).len # ph.len)
          /\ stream' = Tail(stream) /\ pc' = "put"
          /\ UNCHANGED <<ended, by>>
     ELSE ended' = "panic" /\ by' = ph /\ UNCHANGED <<stream, used, lost, pc>>
  /\ UNCHANGED <<ends, pktchan, ph>>

(* ReadForward: the buffer goes back to the pool, and the next is fresh. *)
Fresh == 0

PutPktBuf ==
  /\ On /\ pc = "put" /\ pc' = "idle"
  /\ used' = Fresh /\ ph' = NoHeader
  /\ UNCHANGED <<ends, pktchan, stream, lost, ended, by>>

Next ==
  \/ TunRead \/ SendHeartBeat \/ ReportFdbMsg \/ Write \/ Cut
  \/ ReadHeader \/ Reject \/ ReadPayload \/ PutPktBuf

Spec == Init /\ [][Next]_vars
-----------------------------------------------------------------------------
(* Type invariant: the buffer never holds more than fits into it, and a    *)
(* frame begins at its first byte.                                         *)
Buffers == [type : Types, len : 0..Wide-1, bytes : 0..BufSize-HeaderSize]
Headers == [type : Types \cup {"none"}, len : 0..Wide-1]

TypeOK ==
  /\ device \in Kinds /\ bound \in Kinds
  /\ pktchan \in Seq(Buffers)
  /\ stream \in Seq([head : BOOLEAN, type : Types \cup {"none"}, len : 0..Wide-1])
  /\ used \in 0..BufSize /\ ph \in Headers /\ pc \in {"idle", "handle", "put"}
  /\ lost \in BOOLEAN /\ ended \in {"no", "cut", "rejected", "panic"}
  /\ by \in [type : Types \cup {"none"}, len : Nat]
  /\ pc = "idle" => used = 0

(* encode.go:41: sender and receiver never get out of step: the receiver   *)
(* takes a header where the sender wrote one, and all of the payload.      *)
InStep == ~ lost

(* client.go:424 and 476, vid.go:207, pktpool.go:107 and 122: no length    *)
(* this program sends ends either process or is refused by the receiver,   *)
(* with two exceptions.  A report may name more FDBs than fit: nothing in  *)
(* the code sees to it that there are not so many.  And the receiver may   *)
(* have the limits of another kind of device than the sender's: a bound    *)
(* tun dials a node whose clients have the limits of a tap, so there a     *)
(* short packet of the tun ends the connection (client.go:106, tun.go:192).*)
Accepted ==
  ended \in {"rejected", "panic"} =>
     \/ by.type = "FdbIdsMsg" /\ by.len > MaxOf(bound)
     \/ by.type = "UserData" /\ ended = "rejected" /\ device # bound
=============================================================================
