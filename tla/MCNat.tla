------------------------------- MODULE MCNat -------------------------------
(***************************************************************************)
(* Address translation, for TLC: the connections (Snat) and the fragments  *)
(* (Fragment), of one datagram and of two with one id.  A behaviour is one *)
(* of one part; the variables of the other rest.                           *)
(***************************************************************************)
EXTENDS Snat, Sequences, TLC

CONSTANTS OneDatagram, TwoDatagrams, MaxDup   \* of Fragment: its Cuts, twice

VARIABLES part, net, dups, list, qLen, meat, lastIn, complete, overlap, padded, arrived, out

fragments == <<net, dups, list, qLen, meat, lastIn, complete, overlap, padded, arrived, out>>

Frag(Cuts) == INSTANCE Fragment

ASSUME FragmentsAssumption ==
  Frag(OneDatagram)!FragmentAssumption /\ Frag(TwoDatagrams)!FragmentAssumption

MCInit ==
  /\ Init
  /\ \/ part = "one" /\ Frag(OneDatagram)!Init
     \/ part \in {"two", "snat"} /\ Frag(TwoDatagrams)!Init

MCNext ==
  /\ UNCHANGED part
  /\ \/ part = "snat" /\ Next /\ UNCHANGED fragments
     \/ part = "one" /\ Frag(OneDatagram)!Next /\ UNCHANGED vars
     \/ part = "two" /\ Frag(TwoDatagrams)!Next /\ UNCHANGED vars

MCSpec == MCInit /\ [][MCNext]_<<part, vars, fragments>>

(* Hosts are alike, and so are callers: the two bounds of the run do not   *)
(* depend on which is which.                                               *)
MCSymmetry == Permutations(Hosts) \cup Permutations(Callers)

(* Of Fragment, with one datagram and with two of one id: the queue is in  *)
(* order, what goes on has no gap, and if there is but one datagram it is  *)
(* this one, and goes on if its first fragment came first; the process     *)
(* does not end with "overlapped" but for a real overlap                   *)
(* (nat/fragment.go); a padded fragment ends it too (nat/snat.go:164).     *)
Reassembled ==
  /\ part = "one" => Frag(OneDatagram)!Reassembly
  /\ part = "two" => Frag(TwoDatagrams)!Reassembly
=============================================================================
