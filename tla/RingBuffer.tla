---------------------------- MODULE RingBuffer ----------------------------
(***************************************************************************)
(* A pool of packet buffers on a ring (reaserch/goRingBuffer.go), an       *)
(* experiment beside the program's sync.Pool: GetBuf takes from the end r, *)
(* PutBuf gives back a reference and, with the last one, puts the buffer   *)
(* to the end w.  Each end has a lock of its own; RBGetBuf reads its slot  *)
(* after it has released the lock.  That r and w are read without the      *)
(* other end's lock is taken as it is on amd64: in program order.          *)
(***************************************************************************)
EXTENDS Integers, FiniteSets

CONSTANTS Bufs,     \* the buffers
          Getters,  \* goroutines that call GetBuf
          Nobody,   \* no buffer: nil
          MaxHold   \* bound on the references to a buffer

RingBufferAssumption ==
  /\ IsFiniteSet(Bufs) /\ IsFiniteSet(Getters) /\ Nobody \notin Bufs
  /\ MaxHold \in Nat \ {0}

VARIABLES
  r, w,      \* rb.hdr
  buf,       \* the slots
  ref,       \* pb.ref
  pc, at,    \* where a getter is, and the slot it has taken
  got,       \* the buffer it has read from it
  hands,     \* how many users have a buffer
  putting,   \* how many have given back a last reference and call RBPutBuf
  dropped,   \* buffers RBPutBuf had no room for
  overtaken  \* a slot was filled that a getter had taken and not read

vars == <<r, w, buf, ref, pc, at, got, hands, putting, dropped, overtaken>>

count == Cardinality(Bufs) + 1
Slots == 0..count-1
Following(i) == (i + 1) % count

(* CreateRingBuffer puts every buffer, in some order. *)
Init ==
  /\ r = 0 /\ w = count - 1
  /\ buf = CHOOSE f \in [Slots -> Bufs \cup {Nobody}] :
                f[w] = Nobody /\ \A b \in Bufs : \E i \in Slots : f[i] = b
  /\ ref = [b \in Bufs |-> 0]
  /\ pc = [g \in Getters |-> "idle"] /\ at = [g \in Getters |-> 0] /\ got = [g \in Getters |-> Nobody]
  /\ hands = [b \in Bufs |-> 0] /\ putting = [b \in Bufs |-> 0]
  /\ dropped = {} /\ overtaken = FALSE
-----------------------------------------------------------------------------
(* RBGetBuf: the critical section, and after it the slot.  If the ring is  *)
(* empty it returns nil and nothing has changed.                           *)
MayTake == r # w

TakeSlot(g) ==
  /\ pc[g] = "idle" /\ MayTake
  /\ at' = [at EXCEPT ![g] = r] /\ r' = Following(r)
  /\ pc' = [pc EXCEPT ![g] = "read"]
  /\ UNCHANGED <<w, buf, ref, got, hands, putting, dropped, overtaken>>

ReadSlot(g) ==
  /\ pc[g] = "read" /\ got' = [got EXCEPT ![g] = buf[at[g]]]
  /\ pc' = [pc EXCEPT ![g] = "hold"]
  /\ UNCHANGED <<r, w, buf, ref, at, hands, putting, dropped, overtaken>>

(* GetBuf's reference. *)
HoldGot(g) ==
  /\ pc[g] = "hold"
  /\ ref' = [ref EXCEPT ![got[g]] = @ + 1] /\ hands' = [hands EXCEPT ![got[g]] = @ + 1]
  /\ pc' = [pc EXCEPT ![g] = "idle"] /\ got' = [got EXCEPT ![g] = Nobody]
  /\ UNCHANGED <<r, w, buf, at, putting, dropped, overtaken>>

(* A user takes another reference and hands the buffer to a handler. *)
HoldPktBuf(b) ==
  /\ hands[b] > 0 /\ ref[b] < MaxHold
  /\ ref' = [ref EXCEPT ![b] = @ + 1] /\ hands' = [hands EXCEPT ![b] = @ + 1]
  /\ UNCHANGED <<r, w, buf, pc, at, got, putting, dropped, overtaken>>

(* PutBuf: the counter, then RBPutBuf for the last reference. *)
Low(n) == n <= 1   \* mutant: the last but one puts it too
IsLast(n) == n = 0

PutBuf(b) ==
  /\ hands[b] > 0
  /\ hands' = [hands EXCEPT ![b] = @ - 1] /\ ref' = [ref EXCEPT ![b] = @ - 1]
  /\ putting' = [putting EXCEPT ![b] = IF IsLast(ref'[b]) THEN @ + 1 ELSE @]
  /\ UNCHANGED <<r, w, buf, pc, at, got, dropped, overtaken>>

(* A full ring: the next slot is the one to be taken.  The buffer is       *)
(* dropped: nobody looks at what PutBuf returns.                           *)
IsFull == Following(w) = r

RBPutBuf(b) ==
  /\ putting[b] > 0 /\ putting' = [putting EXCEPT ![b] = @ - 1]
  /\ IF IsFull
     THEN dropped' = dropped \cup {b} /\ UNCHANGED <<buf, w, overtaken>>
     ELSE /\ buf' = [buf EXCEPT ![w] = b] /\ w' = Following(w)
          /\ overtaken' = (overtaken \/ \E g \in Getters : pc[g] = "read" /\ at[g] = w)
          /\ UNCHANGED dropped
  /\ UNCHANGED <<r, ref, pc, at, got, hands>>

Next ==
  \/ \E g \in Getters : TakeSlot(g) \/ ReadSlot(g) \/ HoldGot(g)
  \/ \E b \in Bufs : HoldPktBuf(b) \/ PutBuf(b) \/ RBPutBuf(b)

Spec == Init /\ [][Next]_vars
-----------------------------------------------------------------------------
TypeOK ==
  /\ r \in Slots /\ w \in Slots /\ buf \in [Slots -> Bufs \cup {Nobody}]
  /\ ref \in [Bufs -> 0..MaxHold] /\ hands \in [Bufs -> 0..MaxHold]
  /\ pc \in [Getters -> {"idle", "read", "hold"}] /\ at \in [Getters -> Slots]
  /\ got \in [Getters -> Bufs \cup {Nobody}] /\ putting \in [Bufs -> 0..1]
  /\ dropped \subseteq Bufs /\ overtaken \in BOOLEAN

(* The slots between the two ends: those to be taken. *)
Filled == {i \in Slots : IF r <= w THEN r <= i /\ i < w ELSE i >= r \/ i < w}

Places(b) ==
  Cardinality({i \in Filled : buf[i] = b})
  + Cardinality({g \in Getters : pc[g] = "read" /\ buf[at[g]] = b})
  + Cardinality({g \in Getters : got[g] = b})
  + (IF hands[b] > 0 THEN 1 ELSE 0) + putting[b]

(* goRingBuffer.go:104-137: a buffer is in one place: in one slot, or with *)
(* one getter, or with users, or on its way back.  None is lost, none is   *)
(* given to two.  One getter can rely on it, however many put; of several, *)
(* one may be overtaken between the unlock and line 125.                   *)
Safe == Cardinality(Getters) = 1 \/ ~ overtaken
InOnePlace == Safe => \A b \in Bufs : Places(b) = 1

(* goRingBuffer.go:109: there is room for every buffer that comes back.    *)
AlwaysRoom == Safe => dropped = {}
=============================================================================
