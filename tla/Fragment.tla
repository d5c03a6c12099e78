------------------------------ MODULE Fragment ------------------------------
(***************************************************************************)
(* Reassembly of IP fragments (nat/fragment.go, ipHandler of nat/snat.go): *)
(* one queue, for the fragments of all datagrams with the same addresses,  *)
(* protocol and id.  A fragment that is taken is kept in the queue; when   *)
(* the datagram is complete its fragments go on as a list.  A queue is     *)
(* never deleted.                                                          *)
(*                                                                         *)
(* Fragments arrive in any order, some do not arrive, and some arrive      *)
(* twice.  They arrive one after the other: ipHandler takes no lock for a  *)
(* queue, so that is so only if all datagrams with these addresses come to *)
(* it by one caller of DoNat.                                              *)
(***************************************************************************)
EXTENDS Integers, Sequences, FiniteSets, FiniteSetsExt

CONSTANTS Cuts,   \* the datagrams, each as the places where it is cut, both ends included
          MaxDup  \* bound on the fragments that arrive twice

FragmentAssumption ==
  /\ MaxDup \in Nat
  /\ \A c \in Cuts : c \subseteq Nat /\ 0 \in c /\ \E n \in c \ {0} : \A x \in c : x <= n

(* The fragment between two places. *)
Piece(c, a, b) == [dgram |-> c, off |-> a, last |-> b, more |-> \E x \in c : x > b]
Neighbours(c) == {p \in c \X c : p[1] < p[2] /\ \A x \in c : x <= p[1] \/ p[2] <= x}
Pieces(c) == {Piece(c, p[1], p[2]) : p \in Neighbours(c)}

VARIABLES
  net,       \* fragments that may still arrive
  dups,      \* how many have arrived twice
  list,      \* fq.list
  qLen, meat, lastIn, complete,  \* the other fields of fq
  overlap,   \* log.Panicf: overlapped
  padded,    \* log.Panicf: the frame is longer than its IP packet
  arrived,   \* the fragments that have arrived, in order
  out        \* what has gone on to the transport handler

fq == <<list, qLen, meat, lastIn, complete>>
vars == <<net, dups, fq, overlap, padded, arrived, out>>

Init ==
  /\ net = UNION {Pieces(c) : c \in Cuts} /\ dups = 0
  /\ list = <<>> /\ qLen = 0 /\ meat = 0 /\ lastIn = FALSE /\ complete = FALSE
  /\ overlap = FALSE /\ padded = FALSE /\ arrived = <<>> /\ out = <<>>
-----------------------------------------------------------------------------
Size(f) == f.last - f.off

(* The first fragment: its flag for the last one is not looked at. *)
ToEmpty(f) ==
  /\ list = <<>>
  /\ list' = <<f>> /\ meat' = meat + Size(f) /\ qLen' = f.last
  /\ UNCHANGED <<lastIn, complete, overlap>>

(* The last one goes to the end. *)
IsWhole(q, m) == q = m

ToEnd(f) ==
  /\ list # <<>> /\ ~ f.more
  /\ lastIn' = TRUE
  /\ IF list[Len(list)].last > f.off
     THEN overlap' = TRUE /\ UNCHANGED <<list, meat, qLen, complete>>
     ELSE /\ list' = Append(list, f) /\ meat' = meat + Size(f) /\ qLen' = f.last
          /\ complete' = IsWhole(qLen', meat')
          /\ UNCHANGED overlap

(* Another one goes behind the last that ends before it begins. *)
Before(f) == {i \in DOMAIN list : f.off >= list[i].last}

Unchecked(f, i) == FALSE   \* mutant: the next fragment is not looked at
RunsInto(f, i) == i < Len(list) /\ f.last > list[i + 1].off

NewLen(f) == Max({qLen, f.last})

ToMiddle(f) ==
  LET i == Max(Before(f)) IN
  /\ list # <<>> /\ f.more /\ Before(f) # {}
  /\ IF RunsInto(f, i)
     THEN overlap' = TRUE /\ UNCHANGED fq
     ELSE /\ list' = SubSeq(list, 1, i) \o <<f>> \o SubSeq(list, i + 1, Len(list))
          /\ meat' = meat + Size(f) /\ qLen' = NewLen(f)
          /\ complete' = (lastIn /\ IsWhole(qLen', meat'))
          /\ UNCHANGED <<lastIn, overlap>>

(* One that belongs before all others is dropped, as are all once the *)
(* datagram is complete.                                              *)
Dropped(f) ==
  /\ complete \/ (list # <<>> /\ f.more /\ Before(f) = {})
  /\ UNCHANGED <<fq, overlap>>

ProcessFragment(f) == Dropped(f) \/ (~ complete /\ (ToEmpty(f) \/ ToEnd(f) \/ ToMiddle(f)))

(* ipHandler: completed() links the fragments, and the list goes on. *)
Arrive(f) ==
  \E again \in BOOLEAN :
    /\ ~ overlap /\ ~ padded /\ f \in net
    /\ again => dups < MaxDup
    /\ dups' = IF again THEN dups + 1 ELSE dups
    /\ net' = IF again THEN net ELSE net \ {f}
    /\ arrived' = Append(arrived, f)
    /\ ProcessFragment(f)
    /\ out' = IF complete' /\ ~ complete THEN list' ELSE out
    /\ UNCHANGED padded

(* It does not arrive, or it is dropped because its network has no         *)
(* connections to track (GetNctByZone).                                    *)
Lost(f) == f \in net /\ net' = net \ {f} /\ UNCHANGED <<dups, fq, overlap, padded, arrived, out>>

(* External: a link has filled up the frame of the fragment.  ipHandler    *)
(* panics before it looks for the queue.                                   *)
Padded(f) ==
  /\ ~ overlap /\ ~ padded /\ f \in net
  /\ padded' = TRUE /\ net' = net \ {f}
  /\ UNCHANGED <<dups, fq, overlap, arrived, out>>

Next == \E f \in net : Arrive(f) \/ Lost(f) \/ Padded(f)

Spec == Init /\ [][Next]_vars
-----------------------------------------------------------------------------
(* Type invariant: meat counts the bytes that are there, qLen is the end. *)
Covered == {b \in 0 .. qLen - 1 : \E i \in DOMAIN list : list[i].off <= b /\ b < list[i].last}

TypeOK ==
  /\ net \subseteq UNION {Pieces(c) : c \in Cuts} /\ dups \in 0..MaxDup
  /\ list \in Seq(UNION {Pieces(c) : c \in Cuts}) /\ out = (IF complete THEN list ELSE <<>>)
  /\ lastIn \in BOOLEAN /\ complete \in BOOLEAN
  /\ overlap \in BOOLEAN /\ padded \in BOOLEAN
  /\ meat = Cardinality(Covered)
  /\ qLen = IF list = <<>> THEN 0 ELSE list[Len(list)].last

(* fragment.go:62: the fragments in the queue are in order and none covers *)
(* a byte of another, whatever arrives twice or late.                      *)
InOrder == \A i, j \in DOMAIN list : i < j => list[i].last <= list[j].off

(* fragment.go:86 and 109: what goes on starts with the first byte and has *)
(* no gap, even if it is put together of fragments of several datagrams    *)
(* with one id.                                                            *)
NoGap ==
  out # <<>> =>
    out[1].off = 0 /\ \A i \in 1..Len(out) - 1 : out[i].last = out[i + 1].off

Alone(c) == Cuts = {c}      \* no second datagram with the id

(* fragment.go:76: without a second datagram of that id, what goes on are  *)
(* exactly the fragments of the datagram, whatever arrives twice.          *)
WholeIfAlone == \A c \in Cuts : Alone(c) /\ out # <<>> => Range(out) = Pieces(c)

(* fragment.go:98: if the fragments of one datagram all arrive, each once, *)
(* the first one first, then the datagram goes on, in whatever order the   *)
(* others come.                                                            *)
FirstFirst ==
  \A c \in Cuts :
    /\ Alone(c) /\ Range(arrived) = Pieces(c) /\ dups = 0
    /\ arrived[1].off = 0 /\ arrived[1].more
    => out # <<>>

(* fragment.go:81 and 96: without a second datagram of that id, the        *)
(* process ends with "overlapped" only if some bytes have really arrived   *)
(* twice.  (It also ends with a padded fragment, snat.go:164, alone.)      *)
OverlapIsReal ==
  \A c \in Cuts : Alone(c) /\ overlap =>
    \E i, j \in DOMAIN arrived :
      i # j /\ arrived[i].off < arrived[j].last /\ arrived[j].off < arrived[i].last

(* Together: what reassembly promises, with one datagram and with more. *)
Reassembly == TypeOK /\ InOrder /\ NoGap /\ WholeIfAlone /\ FirstFirst /\ OverlapIsReal
=============================================================================
