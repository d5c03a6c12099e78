----------------------------- MODULE NatProofs -----------------------------
(***************************************************************************)
(* Proofs about address translation.  Snat, for any number of hosts,       *)
(* ports, conntrack objects and callers of DoNat: whoever calls it, what   *)
(* is in the table will be taken out, by one timer.  As long as no call    *)
(* that makes a connection overlaps another, a connection is in the table  *)
(* under both its tuples or under none, and what the server answers goes   *)
(* to the host that has last sent with the port.  Fragment, for any        *)
(* datagrams: what goes on is whole.                                       *)
(***************************************************************************)
EXTENDS MCNat, FiniteSetTheorems, WellFoundedInduction, TLAPS

HasTuple(c) == tuple[c] # NoTuple

Early == {"search", "confirm"}
After == {"nat", "count", "load", "stop", "status", "est"}
Holding == {"out", "arm", "status", "est"}

(* Something is armed or running that will arm or remove the connection. *)
Armed(c) == timer[c] \in {"del", "est"} \/ cb[c] # "none" \/ \E x \in Callers : ct[x] = c /\ pc[x] \in Holding

(* A host is answered at snatIP, the server at itself. *)
TupleInv == \A c \in Cts : HasTuple(c) =>
  /\ tuple[c].orig \in Tuples /\ tuple[c].reply \in Tuples
  /\ IF tuple[c].orig[1] = Snat THEN tuple[c].reply[1] = Self
     ELSE tuple[c].orig[1] \in Hosts /\ tuple[c].reply[1] = Snat

(* What is in the table is there under its own tuples, and armed. *)
KeysInv == \A c \in Cts, t \in Tuples : table[t] = c => HasTuple(c) /\ t \in Keys(c)
KeepInv == \A c \in Cts, t \in Tuples : table[t] = c => Armed(c)

(* A connection that is being made has no timer yet, and one maker; until  *)
(* it is in the table nobody else has it.  No other is without a timer.    *)
MakeInv == \A x \in Callers : Making(x) =>
  /\ pkt[x] = tuple[ct[x]].orig /\ timer[ct[x]] = "nil" /\ cb[ct[x]] = "none"
  /\ \A y \in Callers \ {x} : Making(y) => ct[y] # ct[x]
EarlyInv == \A x \in Callers : pc[x] \in Early =>
  /\ \A t \in Tuples : table[t] # ct[x]
  /\ \A y \in Callers \ {x} : ct[y] # ct[x]
NilInv == \A c \in Cts : timer[c] = "nil" => \E x \in Callers : ct[x] = c /\ Making(x)
StopInv == \A x \in Callers : pc[x] \in {"stop", "status", "est"} => timer[ct[x]] # "nil"

(* A connection that is to be asked whether it moves has not been deleted. *)
StatusInv == \A c \in Cts :
  timer[c] = "est" \/ cb[c] = "est" \/ (\E x \in Callers : ct[x] = c /\ pc[x] = "est") => status[c] # "DEL"

(* A packet that was not the first has one of the connection's tuples. *)
AfterInv == \A x \in Callers : pc[x] \in After => pkt[x] \in Keys(ct[x])

Base ==
  /\ TypeOK /\ TupleInv /\ KeysInv /\ KeepInv /\ MakeInv /\ EarlyInv /\ NilInv /\ StopInv
  /\ OneTimer /\ StatusInv /\ AfterInv

(* As long as no call that makes a connection has overlapped another: who  *)
(* makes one is alone, and its tuples are free until it is in the table.   *)
AloneInv == \A x \in Callers : Making(x) => \A y \in Callers \ {x} : pc[y] = "idle"
FreeInv == \A x \in Callers :
  /\ pc[x] \in Early => table[tuple[ct[x]].orig] = None
  /\ pc[x] = "confirm" => table[tuple[ct[x]].reply] = None

(* What is armed is in the table under both tuples, *)
ArmedInv == \A c \in Cts : Armed(c) =>
  HasTuple(c) /\ table[tuple[c].orig] = c /\ table[tuple[c].reply] = c

(* the tuples of one in hand are not another's, in the table or in hand, *)
LiveInv == \A x \in Callers : pc[x] \in After => \A t \in Keys(ct[x]) : table[t] \in {ct[x], None}
ApartInv == \A x, y \in Callers : pc[x] \in After /\ pc[y] \in After /\ ct[x] # ct[y] =>
  Keys(ct[x]) \cap Keys(ct[y]) = {}

(* and the port of one in the table or in hand belongs to its host. *)
Owns(c) == tuple[c].reply[1] = Snat => owner[tuple[c].reply[2]] \in {tuple[c].orig, None}
OwnInv ==
  /\ \A c \in Cts, t \in Tuples : table[t] = c /\ ~ (\E x \in Callers : ct[x] = c /\ pc[x] = "out") => Owns(c)
  /\ \A x \in Callers : pc[x] \in After => Owns(ct[x])

Clean == AloneInv /\ FreeInv /\ ArmedInv /\ LiveInv /\ ApartInv /\ OwnInv

IInv == Base /\ (~ raced => Clean) /\ StopsATimer
-----------------------------------------------------------------------------
LEMMA ConstantFacts ==
  /\ None \notin Cts /\ None \notin Tuples /\ Snat # Self /\ Snat \notin Hosts /\ Self \notin Hosts
  /\ P \in Nat \ {0} /\ Used \cup Called \subseteq Ports
BY SnatAssumption DEF SnatAssumption, Tuples, Ports

LEMMA Pairs ==
  /\ \A t \in Tuples : t = <<t[1], t[2]>> /\ t[1] \in Hosts \cup {Snat, Self} /\ t[2] \in Ports
  /\ \A h \in Hosts \cup {Snat, Self}, p \in Ports : <<h, p>> \in Tuples
BY DEF Tuples

(* What findConntrack and CreateConntrack do. *)
LEMMA FoundIs ==
  ASSUME Base, NEW x \in Callers, NEW t \in Packets, FindConntrack(x), table[t] # None, pkt'[x] = t
  PROVE  /\ pc[x] = "idle" /\ t \in Tuples /\ table[t] \in Cts /\ HasTuple(table[t]) /\ t \in Keys(table[t])
         /\ pc' = [pc EXCEPT ![x] = "nat"] /\ pkt' = [pkt EXCEPT ![x] = t] /\ ct' = [ct EXCEPT ![x] = table[t]]
         /\ raced' = (raced \/ \E y \in Callers \ {x} : Making(y))
         /\ UNCHANGED <<table, tuple, status, timer, moved, cb, held, owner, down>>
<1> USE ConstantFacts
<1>1. t \in Tuples /\ table[t] \in Cts
  BY DEF Packets, Base, TypeOK, Tuples, Ports
<1>2. pkt' = [pkt EXCEPT ![x] = t]
  BY DEF FindConntrack, Set, Base, TypeOK
<1>3. /\ pc[x] = "idle" /\ pc' = [pc EXCEPT ![x] = "nat"] /\ ct' = [ct EXCEPT ![x] = table[t]]
      /\ raced' = (raced \/ \E y \in Callers \ {x} : Making(y))
      /\ UNCHANGED <<table, tuple, status, timer, moved, cb, held, owner, down>>
  BY DEF FindConntrack, Set, Base, TypeOK
<1>4. QED
  BY <1>1, <1>2, <1>3 DEF Base, KeysInv

LEMMA CreatedIs ==
  ASSUME Base, NEW x \in Callers, NEW t \in Packets, FindConntrack(x), table[t] = None, pkt'[x] = t
  PROVE  \E c \in Cts :
         /\ pc[x] = "idle" /\ t \in Tuples /\ Reply(t) \in Tuples
         /\ IF t[1] = Snat THEN Reply(t)[1] = Self ELSE t[1] \in Hosts /\ Reply(t)[1] = Snat
         /\ \A u \in Tuples : table[u] # c
         /\ timer[c] \in {"nil", "none"} /\ cb[c] = "none" /\ \A y \in Callers : ct[y] # c
         /\ pc' = [pc EXCEPT ![x] = "search"] /\ pkt' = [pkt EXCEPT ![x] = t] /\ ct' = [ct EXCEPT ![x] = c]
         /\ tuple' = [tuple EXCEPT ![c] = [orig |-> t, reply |-> Reply(t)]]
         /\ status' = [status EXCEPT ![c] = "NEW"] /\ moved' = [moved EXCEPT ![c] = FALSE]
         /\ timer' = [timer EXCEPT ![c] = "nil"]
         /\ raced' = (raced \/ \E y \in Callers \ {x} : pc[y] # "idle")
         /\ UNCHANGED <<table, cb, held, owner, down>>
<1> USE ConstantFacts
<1>1. /\ t \in Tuples /\ Reply(t) \in Tuples
      /\ IF t[1] = Snat THEN Reply(t)[1] = Self ELSE t[1] \in Hosts /\ Reply(t)[1] = Snat
  <2>1. t \in Tuples /\ t[1] \in Hosts \cup {Snat} /\ t[2] \in Ports
    BY DEF Packets, Tuples, Ports
  <2>2. QED
    BY <2>1, Pairs DEF Reply
<1>2. pkt' = [pkt EXCEPT ![x] = t]
  BY DEF FindConntrack, Set, Base, TypeOK
<1>3. /\ pc[x] = "idle" /\ \E c \in Cts : Free(c)
      /\ LET c == CHOOSE k \in Cts : Free(k) IN
         /\ ct' = Set(ct, x, c)
         /\ tuple' = Set(tuple, c, [orig |-> t, reply |-> Reply(t)])
         /\ status' = Set(status, c, "NEW") /\ moved' = Set(moved, c, FALSE)
         /\ timer' = Set(timer, c, "nil")
      /\ pc' = Set(pc, x, "search")
      /\ raced' = (raced \/ \E y \in Callers \ {x} : pc[y] # "idle")
      /\ UNCHANGED <<table, cb, held, owner, down>>
  BY DEF FindConntrack, Set, Base, TypeOK
<1> DEFINE c == CHOOSE k \in Cts : Free(k)
<1>4. c \in Cts /\ Free(c)
  BY <1>3
<1>5. /\ ct' = [ct EXCEPT ![x] = c] /\ tuple' = [tuple EXCEPT ![c] = [orig |-> t, reply |-> Reply(t)]]
      /\ status' = [status EXCEPT ![c] = "NEW"] /\ moved' = [moved EXCEPT ![c] = FALSE]
      /\ timer' = [timer EXCEPT ![c] = "nil"] /\ pc' = [pc EXCEPT ![x] = "search"]
  BY <1>3 DEF Set
<1> HIDE DEF c
<1>6. /\ \A u \in Tuples : table[u] # c
      /\ timer[c] \in {"nil", "none"} /\ cb[c] = "none" /\ \A y \in Callers : ct[y] # c
  BY <1>4 DEF Free, InHand
<1>7. QED
  BY <1>1, <1>2, <1>3, <1>4, <1>5, <1>6

(* What getUniqueTuple does. *)
LEMMA NextTuple ==
  ASSUME Base, NEW x \in Callers, GetUniqueTuple(x)
  PROVE  /\ pc[x] = "search" /\ ct[x] \in Cts /\ HasTuple(ct[x]) /\ tuple' \in [Cts -> [orig : Tuples, reply : Tuples] \cup {NoTuple}]
         /\ HasTuple(ct[x])' /\ \A c \in Cts \ {ct[x]} : tuple'[c] = tuple[c]
         /\ tuple'[ct[x]].orig = tuple[ct[x]].orig /\ tuple'[ct[x]].reply[1] = tuple[ct[x]].reply[1]
         /\ pc' \in {pc, Set(pc, x, "confirm")}
         /\ pc'[x] = "confirm" => tuple' = tuple /\ table[tuple[ct[x]].reply] = None
         /\ UNCHANGED <<table, status, timer, moved, cb, ct, pkt, held, owner, raced, down>>
<1> USE ConstantFacts
<1>1. pc[x] = "search" /\ ct[x] \in Cts /\ HasTuple(ct[x]) /\ tuple[ct[x]] \in [orig : Tuples, reply : Tuples]
      /\ UNCHANGED <<table, status, timer, moved, cb, ct, pkt, held, owner, raced, down>>
  BY DEF GetUniqueTuple, Base, TypeOK, HasTuple
<1>2. CASE IsUnique(tuple[ct[x]].reply)
  BY <1>1, <1>2 DEF GetUniqueTuple, IsUnique, HasTuple, Base, TypeOK, Set
<1>3. CASE ~ IsUnique(tuple[ct[x]].reply)
  <2> DEFINE n == <<tuple[ct[x]].reply[1], NextPort(tuple[ct[x]].reply[2])>>
  <2>1. n \in Tuples
    <3>1. tuple[ct[x]].reply[1] \in Hosts \cup {Snat, Self} /\ tuple[ct[x]].reply[2] \in Ports
      BY <1>1, Pairs
    <3>2. NextPort(tuple[ct[x]].reply[2]) \in Ports
      BY <3>1 DEF NextPort, Ports
    <3>3. QED
      BY <3>1, <3>2, Pairs
  <2>2. tuple' = [tuple EXCEPT ![ct[x]].reply = n] /\ pc' = pc
    BY <1>3 DEF GetUniqueTuple
  <2>3. tuple'[ct[x]] = [tuple[ct[x]] EXCEPT !.reply = n]
    BY <1>1, <2>2 DEF Base, TypeOK
  <2>4. tuple'[ct[x]] \in [orig : Tuples, reply : Tuples] /\ tuple'[ct[x]].orig = tuple[ct[x]].orig /\ tuple'[ct[x]].reply = n
    BY <1>1, <2>1, <2>3
  <2>5. tuple' \in [Cts -> [orig : Tuples, reply : Tuples] \cup {NoTuple}] /\ \A c \in Cts \ {ct[x]} : tuple'[c] = tuple[c]
    BY <1>1, <2>2, <2>4 DEF Base, TypeOK
  <2>6. HasTuple(ct[x])'
    <3>1. tuple'[ct[x]].orig # NoTuple.orig
      BY <2>4 DEF NoTuple
    <3>2. QED
      BY <1>1, <3>1 DEF HasTuple
  <2>7. n[1] = tuple[ct[x]].reply[1]
    OBVIOUS
  <2>8. pc'[x] # "confirm"
    BY <1>1, <2>2
  <2> HIDE DEF n
  <2>9. QED
    BY <1>1, <2>2, <2>4, <2>5, <2>6, <2>7, <2>8
<1>4. QED
  BY <1>2, <1>3

(* What doNat writes. *)
LEMMA SendsType ==
  ASSUME Base, NEW c, NEW h
  PROVE  Sends(c, h) \in [Ports -> Tuples \cup {None}] /\ Retains(c, h) \in [Ports -> Tuples \cup {None}]
<1>1. owner \in [Ports -> Tuples \cup {None}] /\ Hosts \X Ports \subseteq Tuples
  BY DEF Base, TypeOK, Tuples
<1>2. QED
  BY <1>1 DEF Sends, Retains, Set

-----------------------------------------------------------------------------
(* Whoever calls DoNat and when: one lemma for each step. *)
LEMMA FindConntrackBase == ASSUME Base, NEW x \in Callers, FindConntrack(x) PROVE Base'
<1> USE ConstantFacts
<1>0. PICK t \in Packets : pkt'[x] = t
  BY DEF FindConntrack, Set, Base, TypeOK
<1>1. CASE table[t] # None
  <2> DEFINE c == table[t]
  <2>0. /\ pc[x] = "idle" /\ t \in Tuples /\ c \in Cts /\ HasTuple(c) /\ t \in Keys(c)
        /\ pc' = [pc EXCEPT ![x] = "nat"] /\ pkt' = [pkt EXCEPT ![x] = t] /\ ct' = [ct EXCEPT ![x] = c]
        /\ raced' \in BOOLEAN /\ table[t] = c
        /\ UNCHANGED <<table, tuple, status, timer, moved, cb, held, owner, down>>
    <3>1. raced' = (raced \/ \E y \in Callers \ {x} : Making(y))
      BY <1>0, <1>1, FoundIs
    <3>2. raced' \in BOOLEAN
      BY <3>1
    <3>3. QED
      BY <1>0, <1>1, <3>2, FoundIs
  <2> HIDE DEF c
  <2>1. TypeOK'
    <3>1. /\ pc' \in [Callers -> {"idle", "search", "confirm", "out", "arm", "nat", "count", "load", "stop", "status", "est"}]
          /\ pkt' \in [Callers -> Tuples \cup {None}] /\ ct' \in [Callers -> Cts \cup {None}]
      BY <2>0 DEF Base, TypeOK
    <3>2. \A y \in Callers : IF pc'[y] = "idle" THEN ct'[y] = None ELSE ct'[y] # None /\ tuple'[ct'[y]] # NoTuple
      BY <2>0 DEF Base, TypeOK, HasTuple
    <3>3. QED
      BY <2>0, <3>1, <3>2 DEF Base, TypeOK
  <2>2. TupleInv'
    BY <2>0, SMTT(30) DEF Base, TypeOK, TupleInv, HasTuple
  <2>3. KeysInv'
    BY <2>0, SMTT(30) DEF Base, TypeOK, KeysInv, HasTuple, Keys
  <2>4. KeepInv'
    BY <2>0, SMTT(30) DEF Base, TypeOK, KeepInv, KeysInv, Armed, Holding, OneTimer, StatusInv, MakeInv
  <2>5. MakeInv'
    BY <2>0, SMTT(30) DEF Base, TypeOK, MakeInv, Making, EarlyInv, StopInv, NilInv, OneTimer, Early
  <2>6. EarlyInv'
    BY <2>0, SMTT(30) DEF Base, TypeOK, EarlyInv, Early
  <2>7. NilInv'
    BY <2>0, SMTT(30) DEF Base, TypeOK, NilInv, Making, MakeInv, StopInv
  <2>8. StopInv'
    BY <2>0, SMTT(30) DEF Base, TypeOK, StopInv, MakeInv, NilInv, Making
  <2>9. OneTimer'
    BY <2>0, SMTT(30) DEF Base, TypeOK, OneTimer, StopInv, MakeInv, Making
  <2>10. StatusInv'
    BY <2>0, SMTT(30) DEF Base, TypeOK, StatusInv, OneTimer
  <2>11. AfterInv'
    BY <2>0, SMTT(30) DEF Base, TypeOK, AfterInv, After, Keys, EarlyInv, Early
  <2> QED
    BY <2>1, <2>2, <2>3, <2>4, <2>5, <2>6, <2>7, <2>8, <2>9, <2>10, <2>11 DEF Base
<1>2. CASE table[t] = None
  <2>0. PICK c \in Cts :
          /\ pc[x] = "idle" /\ t \in Tuples /\ Reply(t) \in Tuples
          /\ IF t[1] = Snat THEN Reply(t)[1] = Self ELSE t[1] \in Hosts /\ Reply(t)[1] = Snat
          /\ \A u \in Tuples : table[u] # c
          /\ timer[c] \in {"nil", "none"} /\ cb[c] = "none" /\ \A y \in Callers : ct[y] # c
          /\ pc' = [pc EXCEPT ![x] = "search"] /\ pkt' = [pkt EXCEPT ![x] = t] /\ ct' = [ct EXCEPT ![x] = c]
          /\ tuple' = [tuple EXCEPT ![c] = [orig |-> t, reply |-> Reply(t)]]
          /\ status' = [status EXCEPT ![c] = "NEW"] /\ moved' = [moved EXCEPT ![c] = FALSE]
          /\ timer' = [timer EXCEPT ![c] = "nil"]
          /\ raced' = (raced \/ \E y \in Callers \ {x} : pc[y] # "idle")
          /\ UNCHANGED <<table, cb, held, owner, down>>
    BY <1>0, <1>2, CreatedIs
  <2>c. /\ [orig |-> t, reply |-> Reply(t)] \in [orig : Tuples, reply : Tuples] /\ HasTuple(c)'
        /\ \A d \in Cts \ {c} : HasTuple(d)' <=> HasTuple(d)
    <3>1. [orig |-> t, reply |-> Reply(t)].orig # NoTuple.orig
      BY <2>0 DEF NoTuple
    <3>2. QED
      BY <2>0, <3>1 DEF HasTuple, Base, TypeOK
  <2>1. TypeOK'
    <3>1. /\ pc' \in [Callers -> {"idle", "search", "confirm", "out", "arm", "nat", "count", "load", "stop", "status", "est"}]
          /\ pkt' \in [Callers -> Tuples \cup {None}] /\ ct' \in [Callers -> Cts \cup {None}]
      BY <2>0 DEF Base, TypeOK
    <3>2. \A y \in Callers : IF pc'[y] = "idle" THEN ct'[y] = None ELSE ct'[y] # None /\ tuple'[ct'[y]] # NoTuple
      BY <2>0, <2>c DEF Base, TypeOK, HasTuple
    <3>3. QED
      BY <2>0, <2>c, <3>1, <3>2 DEF Base, TypeOK
  <2>2. TupleInv'
    BY <2>0, <2>c, SMTT(30) DEF Base, TypeOK, TupleInv, HasTuple
  <2>3. KeysInv'
    BY <2>0, <2>c, SMTT(30) DEF Base, TypeOK, KeysInv, HasTuple, Keys
  <2>4. KeepInv'
    BY <2>0, <2>c, SMTT(30) DEF Base, TypeOK, KeepInv, KeysInv, Armed, Holding, OneTimer, StatusInv, MakeInv
  <2>5. MakeInv'
    BY <2>0, <2>c, SMTT(30) DEF Base, TypeOK, MakeInv, Making, EarlyInv, StopInv, NilInv, OneTimer, Early
  <2>6. EarlyInv'
    BY <2>0, <2>c, SMTT(30) DEF Base, TypeOK, EarlyInv, Early
  <2>7. NilInv'
    BY <2>0, <2>c, SMTT(30) DEF Base, TypeOK, NilInv, Making, MakeInv, StopInv
  <2>8. StopInv'
    BY <2>0, <2>c, SMTT(30) DEF Base, TypeOK, StopInv, MakeInv, NilInv, Making
  <2>9. OneTimer'
    BY <2>0, <2>c, SMTT(30) DEF Base, TypeOK, OneTimer, StopInv, MakeInv, Making
  <2>10. StatusInv'
    BY <2>0, <2>c, SMTT(30) DEF Base, TypeOK, StatusInv, OneTimer
  <2>11. AfterInv'
    BY <2>0, <2>c, SMTT(30) DEF Base, TypeOK, AfterInv, After, Keys, EarlyInv, Early
  <2> QED
    BY <2>1, <2>2, <2>3, <2>4, <2>5, <2>6, <2>7, <2>8, <2>9, <2>10, <2>11 DEF Base
<1>3. QED
  BY <1>1, <1>2


LEMMA GetUniqueTupleBase == ASSUME Base, NEW x \in Callers, GetUniqueTuple(x) PROVE Base'
<1> USE ConstantFacts, NextTuple
<1>1. TypeOK'
  BY SMTT(30) DEF Base, TypeOK, HasTuple, Set
<1>2. TupleInv'
  BY SMTT(30) DEF Base, TypeOK, TupleInv, HasTuple
<1>3. KeysInv'
  BY SMTT(30) DEF Base, KeysInv, EarlyInv, Early, HasTuple, Keys
<1>4. KeepInv'
  BY SMTT(30) DEF Base, TypeOK, KeepInv, KeysInv, Armed, Holding, OneTimer, StatusInv, MakeInv, GetUniqueTuple, IsUnique, NextPort, Set, conn, calls
<1>5. MakeInv'
  BY SMTT(30) DEF Base, TypeOK, MakeInv, Making, EarlyInv, StopInv, NilInv, OneTimer, Early, GetUniqueTuple, IsUnique, NextPort, Set, conn, calls
<1>6. EarlyInv'
  BY SMTT(30) DEF Base, TypeOK, EarlyInv, Early, GetUniqueTuple, IsUnique, NextPort, Set, conn, calls
<1>7. NilInv'
  BY SMTT(30) DEF Base, TypeOK, NilInv, Making, MakeInv, StopInv, GetUniqueTuple, IsUnique, NextPort, Set, conn, calls
<1>8. StopInv'
  BY SMTT(30) DEF Base, TypeOK, StopInv, MakeInv, NilInv, Making, GetUniqueTuple, IsUnique, NextPort, Set, conn, calls
<1>9. OneTimer'
  BY SMTT(30) DEF Base, TypeOK, OneTimer, StopInv, MakeInv, Making, GetUniqueTuple, IsUnique, NextPort, Set, conn, calls
<1>10. StatusInv'
  BY SMTT(30) DEF Base, TypeOK, StatusInv, OneTimer, GetUniqueTuple, IsUnique, NextPort, Set, conn, calls
<1>11. AfterInv'
  BY SMTT(30) DEF Base, TypeOK, AfterInv, After, Keys, EarlyInv, Early, GetUniqueTuple, IsUnique, NextPort, Set, conn, calls
<1> QED
  BY <1>1, <1>2, <1>3, <1>4, <1>5, <1>6, <1>7, <1>8, <1>9, <1>10, <1>11 DEF Base

LEMMA CtConfirmBase == ASSUME Base, NEW x \in Callers, CtConfirm(x) PROVE Base'
<1> USE ConstantFacts
<1>1. TypeOK'
  BY SMTT(30) DEF Base, TypeOK, CtConfirm, Set, conn, calls
<1>2. TupleInv'
  BY SMTT(30) DEF Base, TypeOK, TupleInv, HasTuple, CtConfirm, Set, conn, calls
<1>3. KeysInv'
  BY SMTT(30) DEF Base, TypeOK, KeysInv, HasTuple, Keys, CtConfirm, Set, conn, calls
<1>4. KeepInv'
  BY SMTT(30) DEF Base, TypeOK, KeepInv, KeysInv, Armed, Holding, OneTimer, StatusInv, MakeInv, CtConfirm, Set, conn, calls
<1>5. MakeInv'
  BY SMTT(30) DEF Base, TypeOK, MakeInv, Making, EarlyInv, StopInv, NilInv, OneTimer, Early, CtConfirm, Set, conn, calls
<1>6. EarlyInv'
  BY SMTT(30) DEF Base, TypeOK, EarlyInv, Early, CtConfirm, Set, conn, calls
<1>7. NilInv'
  BY SMTT(30) DEF Base, TypeOK, NilInv, Making, MakeInv, StopInv, CtConfirm, Set, conn, calls
<1>8. StopInv'
  BY SMTT(30) DEF Base, TypeOK, StopInv, MakeInv, NilInv, Making, CtConfirm, Set, conn, calls
<1>9. OneTimer'
  BY SMTT(30) DEF Base, TypeOK, OneTimer, StopInv, MakeInv, Making, CtConfirm, Set, conn, calls
<1>10. StatusInv'
  BY SMTT(30) DEF Base, TypeOK, StatusInv, OneTimer, CtConfirm, Set, conn, calls
<1>11. AfterInv'
  BY SMTT(30) DEF Base, TypeOK, AfterInv, After, Keys, EarlyInv, Early, CtConfirm, Set, conn, calls
<1> QED
  BY <1>1, <1>2, <1>3, <1>4, <1>5, <1>6, <1>7, <1>8, <1>9, <1>10, <1>11 DEF Base

LEMMA DoNatNewBase == ASSUME Base, NEW x \in Callers, DoNatNew(x) PROVE Base'
<1> USE ConstantFacts
<1>1. TypeOK'
  BY SMTT(30) DEF Base, TypeOK, DoNatNew, Sends, Retains, Set, conn, calls
<1>2. TupleInv'
  BY SMTT(30) DEF Base, TypeOK, TupleInv, HasTuple, DoNatNew, Sends, Retains, Set, conn, calls
<1>3. KeysInv'
  BY SMTT(30) DEF Base, TypeOK, KeysInv, HasTuple, Keys, DoNatNew, Sends, Retains, Set, conn, calls
<1>4. KeepInv'
  BY SMTT(30) DEF Base, TypeOK, KeepInv, KeysInv, Armed, Holding, OneTimer, StatusInv, MakeInv, DoNatNew, Sends, Retains, Set, conn, calls
<1>5. MakeInv'
  BY SMTT(30) DEF Base, TypeOK, MakeInv, Making, EarlyInv, StopInv, NilInv, OneTimer, Early, DoNatNew, Sends, Retains, Set, conn, calls
<1>6. EarlyInv'
  BY SMTT(30) DEF Base, TypeOK, EarlyInv, Early, DoNatNew, Sends, Retains, Set, conn, calls
<1>7. NilInv'
  BY SMTT(30) DEF Base, TypeOK, NilInv, Making, MakeInv, StopInv, DoNatNew, Sends, Retains, Set, conn, calls
<1>8. StopInv'
  BY SMTT(30) DEF Base, TypeOK, StopInv, MakeInv, NilInv, Making, DoNatNew, Sends, Retains, Set, conn, calls
<1>9. OneTimer'
  BY SMTT(30) DEF Base, TypeOK, OneTimer, StopInv, MakeInv, Making, DoNatNew, Sends, Retains, Set, conn, calls
<1>10. StatusInv'
  BY SMTT(30) DEF Base, TypeOK, StatusInv, OneTimer, DoNatNew, Sends, Retains, Set, conn, calls
<1>11. AfterInv'
  BY SMTT(30) DEF Base, TypeOK, AfterInv, After, Keys, EarlyInv, Early, DoNatNew, Sends, Retains, Set, conn, calls
<1> QED
  BY <1>1, <1>2, <1>3, <1>4, <1>5, <1>6, <1>7, <1>8, <1>9, <1>10, <1>11 DEF Base

LEMMA ArmNewBase == ASSUME Base, NEW x \in Callers, ArmNew(x) PROVE Base'
<1> USE ConstantFacts
<1>1. TypeOK'
  BY SMTT(30) DEF Base, TypeOK, ArmNew, Done, Replaced, Set, conn, calls
<1>2. TupleInv'
  BY SMTT(30) DEF Base, TypeOK, TupleInv, HasTuple, ArmNew, Done, Replaced, Set, conn, calls
<1>3. KeysInv'
  BY SMTT(30) DEF Base, TypeOK, KeysInv, HasTuple, Keys, ArmNew, Done, Replaced, Set, conn, calls
<1>4. KeepInv'
  BY SMTT(30) DEF Base, TypeOK, KeepInv, KeysInv, Armed, Holding, OneTimer, StatusInv, MakeInv, ArmNew, Done, Replaced, Set, conn, calls
<1>5. MakeInv'
  BY SMTT(30) DEF Base, TypeOK, MakeInv, Making, EarlyInv, StopInv, NilInv, OneTimer, Early, ArmNew, Done, Replaced, Set, conn, calls
<1>6. EarlyInv'
  BY SMTT(30) DEF Base, TypeOK, EarlyInv, Early, ArmNew, Done, Replaced, Set, conn, calls
<1>7. NilInv'
  BY SMTT(30) DEF Base, TypeOK, NilInv, Making, MakeInv, StopInv, ArmNew, Done, Replaced, Set, conn, calls
<1>8. StopInv'
  BY SMTT(30) DEF Base, TypeOK, StopInv, MakeInv, NilInv, Making, ArmNew, Done, Replaced, Set, conn, calls
<1>9. OneTimer'
  BY SMTT(30) DEF Base, TypeOK, OneTimer, StopInv, MakeInv, Making, ArmNew, Done, Replaced, Set, conn, calls
<1>10. StatusInv'
  BY SMTT(30) DEF Base, TypeOK, StatusInv, OneTimer, ArmNew, Done, Replaced, Set, conn, calls
<1>11. AfterInv'
  BY SMTT(30) DEF Base, TypeOK, AfterInv, After, Keys, EarlyInv, Early, ArmNew, Done, Replaced, Set, conn, calls
<1> QED
  BY <1>1, <1>2, <1>3, <1>4, <1>5, <1>6, <1>7, <1>8, <1>9, <1>10, <1>11 DEF Base

LEMMA DoNatBase == ASSUME Base, NEW x \in Callers, DoNat(x) PROVE Base'
<1> USE ConstantFacts
<1>1. TypeOK'
  <2>1. owner' \in [Ports -> Tuples \cup {None}]
    <3>1. owner' = owner \/ owner' = Sends(ct[x], pkt[x])
      BY DEF DoNat
    <3>2. QED
      BY <3>1, SendsType DEF Base, TypeOK
  <2>2. QED
    BY <2>1, SMTT(30) DEF Base, TypeOK, DoNat, Set, conn
<1>2. TupleInv'
  BY SMTT(30) DEF Base, TypeOK, TupleInv, HasTuple, DoNat, IsReply, Sends, Set, conn, calls
<1>3. KeysInv'
  BY SMTT(30) DEF Base, TypeOK, KeysInv, HasTuple, Keys, DoNat, IsReply, Sends, Set, conn, calls
<1>4. KeepInv'
  BY SMTT(30) DEF Base, TypeOK, KeepInv, KeysInv, Armed, Holding, OneTimer, StatusInv, MakeInv, DoNat, IsReply, Sends, Set, conn, calls
<1>5. MakeInv'
  BY SMTT(30) DEF Base, TypeOK, MakeInv, Making, EarlyInv, StopInv, NilInv, OneTimer, Early, DoNat, IsReply, Sends, Set, conn, calls
<1>6. EarlyInv'
  BY SMTT(30) DEF Base, TypeOK, EarlyInv, Early, DoNat, IsReply, Sends, Set, conn, calls
<1>7. NilInv'
  BY SMTT(30) DEF Base, TypeOK, NilInv, Making, MakeInv, StopInv, DoNat, IsReply, Sends, Set, conn, calls
<1>8. StopInv'
  BY SMTT(30) DEF Base, TypeOK, StopInv, MakeInv, NilInv, Making, DoNat, IsReply, Sends, Set, conn, calls
<1>9. OneTimer'
  BY SMTT(30) DEF Base, TypeOK, OneTimer, StopInv, MakeInv, Making, DoNat, IsReply, Sends, Set, conn, calls
<1>10. StatusInv'
  BY SMTT(30) DEF Base, TypeOK, StatusInv, OneTimer, DoNat, IsReply, Sends, Set, conn, calls
<1>11. AfterInv'
  BY SMTT(30) DEF Base, TypeOK, AfterInv, After, Keys, EarlyInv, Early, DoNat, IsReply, Sends, Set, conn, calls
<1> QED
  BY <1>1, <1>2, <1>3, <1>4, <1>5, <1>6, <1>7, <1>8, <1>9, <1>10, <1>11 DEF Base

LEMMA CountBase == ASSUME Base, NEW x \in Callers, Count(x) PROVE Base'
<1> USE ConstantFacts
<1>1. TypeOK'
  BY SMTT(30) DEF Base, TypeOK, Count, IsReply, Done, Set, conn, calls
<1>2. TupleInv'
  BY SMTT(30) DEF Base, TypeOK, TupleInv, HasTuple, Count, IsReply, Done, Set, conn, calls
<1>3. KeysInv'
  BY SMTT(30) DEF Base, TypeOK, KeysInv, HasTuple, Keys, Count, IsReply, Done, Set, conn, calls
<1>4. KeepInv'
  BY SMTT(30) DEF Base, TypeOK, KeepInv, KeysInv, Armed, Holding, OneTimer, StatusInv, MakeInv, Count, IsReply, Done, Set, conn, calls
<1>5. MakeInv'
  BY SMTT(30) DEF Base, TypeOK, MakeInv, Making, EarlyInv, StopInv, NilInv, OneTimer, Early, Count, IsReply, Done, Set, conn, calls
<1>6. EarlyInv'
  BY SMTT(30) DEF Base, TypeOK, EarlyInv, Early, Count, IsReply, Done, Set, conn, calls
<1>7. NilInv'
  BY SMTT(30) DEF Base, TypeOK, NilInv, Making, MakeInv, StopInv, Count, IsReply, Done, Set, conn, calls
<1>8. StopInv'
  BY SMTT(30) DEF Base, TypeOK, StopInv, MakeInv, NilInv, Making, Count, IsReply, Done, Set, conn, calls
<1>9. OneTimer'
  BY SMTT(30) DEF Base, TypeOK, OneTimer, StopInv, MakeInv, Making, Count, IsReply, Done, Set, conn, calls
<1>10. StatusInv'
  BY SMTT(30) DEF Base, TypeOK, StatusInv, OneTimer, Count, IsReply, Done, Set, conn, calls
<1>11. AfterInv'
  BY SMTT(30) DEF Base, TypeOK, AfterInv, After, Keys, EarlyInv, Early, Count, IsReply, Done, Set, conn, calls
<1> QED
  BY <1>1, <1>2, <1>3, <1>4, <1>5, <1>6, <1>7, <1>8, <1>9, <1>10, <1>11 DEF Base

LEMMA LoadBase == ASSUME Base, NEW x \in Callers, Load(x) PROVE Base'
<1> USE ConstantFacts
<1>1. TypeOK'
  <2>1. CASE timer[ct[x]] = "nil"
    BY <2>1 DEF Base, TypeOK, Load, conn
  <2>2. CASE timer[ct[x]] # "nil"
    <3>1. /\ pc[x] = "load" /\ pc' = [pc EXCEPT ![x] = "stop"] /\ held' = [held EXCEPT ![x] = TRUE]
          /\ UNCHANGED <<table, tuple, status, timer, moved, cb, ct, pkt, owner, raced, down>>
      BY <2>2 DEF Load, Set, conn
    <3>2. QED
      BY <3>1 DEF Base, TypeOK
  <2>3. QED
    BY <2>1, <2>2
<1>2. TupleInv'
  BY SMTT(30) DEF Base, TypeOK, TupleInv, HasTuple, Load, Set, conn, calls
<1>3. KeysInv'
  BY SMTT(30) DEF Base, TypeOK, KeysInv, HasTuple, Keys, Load, Set, conn, calls
<1>4. KeepInv'
  BY SMTT(30) DEF Base, TypeOK, KeepInv, KeysInv, Armed, Holding, OneTimer, StatusInv, MakeInv, Load, Set, conn, calls
<1>5. MakeInv'
  BY SMTT(30) DEF Base, TypeOK, MakeInv, Making, EarlyInv, StopInv, NilInv, OneTimer, Early, Load, Set, conn, calls
<1>6. EarlyInv'
  BY SMTT(30) DEF Base, TypeOK, EarlyInv, Early, Load, Set, conn, calls
<1>7. NilInv'
  BY SMTT(30) DEF Base, TypeOK, NilInv, Making, MakeInv, StopInv, Load, Set, conn, calls
<1>8. StopInv'
  BY SMTT(30) DEF Base, TypeOK, StopInv, MakeInv, NilInv, Making, Load, Set, conn, calls
<1>9. OneTimer'
  BY SMTT(30) DEF Base, TypeOK, OneTimer, StopInv, MakeInv, Making, Load, Set, conn, calls
<1>10. StatusInv'
  BY SMTT(30) DEF Base, TypeOK, StatusInv, OneTimer, Load, Set, conn, calls
<1>11. AfterInv'
  BY SMTT(30) DEF Base, TypeOK, AfterInv, After, Keys, EarlyInv, Early, Load, Set, conn, calls
<1> QED
  BY <1>1, <1>2, <1>3, <1>4, <1>5, <1>6, <1>7, <1>8, <1>9, <1>10, <1>11 DEF Base

LEMMA StopBase == ASSUME Base, NEW x \in Callers, Stop(x) PROVE Base'
<1> USE ConstantFacts
<1>1. TypeOK'
  BY SMTT(30) DEF Base, TypeOK, Stop, StopOk, Done, Set, conn, calls
<1>2. TupleInv'
  BY SMTT(30) DEF Base, TypeOK, TupleInv, HasTuple, Stop, StopOk, Done, Set, conn, calls
<1>3. KeysInv'
  BY SMTT(30) DEF Base, TypeOK, KeysInv, HasTuple, Keys, Stop, StopOk, Done, Set, conn, calls
<1>4. KeepInv'
  BY SMTT(30) DEF Base, TypeOK, KeepInv, KeysInv, Armed, Holding, OneTimer, StatusInv, MakeInv, Stop, StopOk, Done, Set, conn, calls
<1>5. MakeInv'
  BY SMTT(30) DEF Base, TypeOK, MakeInv, Making, EarlyInv, StopInv, NilInv, OneTimer, Early, Stop, StopOk, Done, Set, conn, calls
<1>6. EarlyInv'
  BY SMTT(30) DEF Base, TypeOK, EarlyInv, Early, Stop, StopOk, Done, Set, conn, calls
<1>7. NilInv'
  BY SMTT(30) DEF Base, TypeOK, NilInv, Making, MakeInv, StopInv, Stop, StopOk, Done, Set, conn, calls
<1>8. StopInv'
  BY SMTT(30) DEF Base, TypeOK, StopInv, MakeInv, NilInv, Making, Stop, StopOk, Done, Set, conn, calls
<1>9. OneTimer'
  BY SMTT(30) DEF Base, TypeOK, OneTimer, StopInv, MakeInv, Making, Stop, StopOk, Done, Set, conn, calls
<1>10. StatusInv'
  BY SMTT(30) DEF Base, TypeOK, StatusInv, OneTimer, Stop, StopOk, Done, Set, conn, calls
<1>11. AfterInv'
  BY SMTT(30) DEF Base, TypeOK, AfterInv, After, Keys, EarlyInv, Early, Stop, StopOk, Done, Set, conn, calls
<1> QED
  BY <1>1, <1>2, <1>3, <1>4, <1>5, <1>6, <1>7, <1>8, <1>9, <1>10, <1>11 DEF Base

LEMMA SetEstablishedBase == ASSUME Base, NEW x \in Callers, SetEstablished(x) PROVE Base'
<1> USE ConstantFacts
<1>1. TypeOK'
  BY SMTT(30) DEF Base, TypeOK, SetEstablished, Set, conn, calls
<1>2. TupleInv'
  BY SMTT(30) DEF Base, TypeOK, TupleInv, HasTuple, SetEstablished, Set, conn, calls
<1>3. KeysInv'
  BY SMTT(30) DEF Base, TypeOK, KeysInv, HasTuple, Keys, SetEstablished, Set, conn, calls
<1>4. KeepInv'
  BY SMTT(30) DEF Base, TypeOK, KeepInv, KeysInv, Armed, Holding, OneTimer, StatusInv, MakeInv, SetEstablished, Set, conn, calls
<1>5. MakeInv'
  BY SMTT(30) DEF Base, TypeOK, MakeInv, Making, EarlyInv, StopInv, NilInv, OneTimer, Early, SetEstablished, Set, conn, calls
<1>6. EarlyInv'
  BY SMTT(30) DEF Base, TypeOK, EarlyInv, Early, SetEstablished, Set, conn, calls
<1>7. NilInv'
  BY SMTT(30) DEF Base, TypeOK, NilInv, Making, MakeInv, StopInv, SetEstablished, Set, conn, calls
<1>8. StopInv'
  BY SMTT(30) DEF Base, TypeOK, StopInv, MakeInv, NilInv, Making, SetEstablished, Set, conn, calls
<1>9. OneTimer'
  BY SMTT(30) DEF Base, TypeOK, OneTimer, StopInv, MakeInv, Making, SetEstablished, Set, conn, calls
<1>10. StatusInv'
  BY SMTT(30) DEF Base, TypeOK, StatusInv, OneTimer, SetEstablished, Set, conn, calls
<1>11. AfterInv'
  BY SMTT(30) DEF Base, TypeOK, AfterInv, After, Keys, EarlyInv, Early, SetEstablished, Set, conn, calls
<1> QED
  BY <1>1, <1>2, <1>3, <1>4, <1>5, <1>6, <1>7, <1>8, <1>9, <1>10, <1>11 DEF Base

LEMMA ArmEstablishedBase == ASSUME Base, NEW x \in Callers, ArmEstablished(x) PROVE Base'
<1> USE ConstantFacts
<1>1. TypeOK'
  BY SMTT(30) DEF Base, TypeOK, ArmEstablished, Done, Replaced, Set, conn, calls
<1>2. TupleInv'
  BY SMTT(30) DEF Base, TypeOK, TupleInv, HasTuple, ArmEstablished, Done, Replaced, Set, conn, calls
<1>3. KeysInv'
  BY SMTT(30) DEF Base, TypeOK, KeysInv, HasTuple, Keys, ArmEstablished, Done, Replaced, Set, conn, calls
<1>4. KeepInv'
  BY SMTT(30) DEF Base, TypeOK, KeepInv, KeysInv, Armed, Holding, OneTimer, StatusInv, MakeInv, ArmEstablished, Done, Replaced, Set, conn, calls
<1>5. MakeInv'
  BY SMTT(30) DEF Base, TypeOK, MakeInv, Making, EarlyInv, StopInv, NilInv, OneTimer, Early, ArmEstablished, Done, Replaced, Set, conn, calls
<1>6. EarlyInv'
  BY SMTT(30) DEF Base, TypeOK, EarlyInv, Early, ArmEstablished, Done, Replaced, Set, conn, calls
<1>7. NilInv'
  BY SMTT(30) DEF Base, TypeOK, NilInv, Making, MakeInv, StopInv, ArmEstablished, Done, Replaced, Set, conn, calls
<1>8. StopInv'
  BY SMTT(30) DEF Base, TypeOK, StopInv, MakeInv, NilInv, Making, ArmEstablished, Done, Replaced, Set, conn, calls
<1>9. OneTimer'
  BY SMTT(30) DEF Base, TypeOK, OneTimer, StopInv, MakeInv, Making, ArmEstablished, Done, Replaced, Set, conn, calls
<1>10. StatusInv'
  BY SMTT(30) DEF Base, TypeOK, StatusInv, OneTimer, ArmEstablished, Done, Replaced, Set, conn, calls
<1>11. AfterInv'
  BY SMTT(30) DEF Base, TypeOK, AfterInv, After, Keys, EarlyInv, Early, ArmEstablished, Done, Replaced, Set, conn, calls
<1> QED
  BY <1>1, <1>2, <1>3, <1>4, <1>5, <1>6, <1>7, <1>8, <1>9, <1>10, <1>11 DEF Base

LEMMA ExpireBase == ASSUME Base, NEW c \in Cts, Expire(c) PROVE Base'
<1> USE ConstantFacts
<1>1. TypeOK'
  BY SMTT(30) DEF Base, TypeOK, Expire, Set, conn, calls
<1>2. TupleInv'
  BY SMTT(30) DEF Base, TypeOK, TupleInv, HasTuple, Expire, Set, conn, calls
<1>3. KeysInv'
  BY SMTT(30) DEF Base, TypeOK, KeysInv, HasTuple, Keys, Expire, Set, conn, calls
<1>4. KeepInv'
  BY SMTT(30) DEF Base, TypeOK, KeepInv, KeysInv, Armed, Holding, OneTimer, StatusInv, MakeInv, Expire, Set, conn, calls
<1>5. MakeInv'
  BY SMTT(30) DEF Base, TypeOK, MakeInv, Making, EarlyInv, StopInv, NilInv, OneTimer, Early, Expire, Set, conn, calls
<1>6. EarlyInv'
  BY SMTT(30) DEF Base, TypeOK, EarlyInv, Early, Expire, Set, conn, calls
<1>7. NilInv'
  BY SMTT(30) DEF Base, TypeOK, NilInv, Making, MakeInv, StopInv, Expire, Set, conn, calls
<1>8. StopInv'
  BY SMTT(30) DEF Base, TypeOK, StopInv, MakeInv, NilInv, Making, Expire, Set, conn, calls
<1>9. OneTimer'
  BY SMTT(30) DEF Base, TypeOK, OneTimer, StopInv, MakeInv, Making, Expire, Set, conn, calls
<1>10. StatusInv'
  BY SMTT(30) DEF Base, TypeOK, StatusInv, OneTimer, Expire, Set, conn, calls
<1>11. AfterInv'
  BY SMTT(30) DEF Base, TypeOK, AfterInv, After, Keys, EarlyInv, Early, Expire, Set, conn, calls
<1> QED
  BY <1>1, <1>2, <1>3, <1>4, <1>5, <1>6, <1>7, <1>8, <1>9, <1>10, <1>11 DEF Base

LEMMA MarkDelBase == ASSUME Base, NEW c \in Cts, MarkDel(c) PROVE Base'
<1> USE ConstantFacts
<1>1. TypeOK'
  BY SMTT(30) DEF Base, TypeOK, MarkDel, Set, conn, calls
<1>2. TupleInv'
  BY SMTT(30) DEF Base, TypeOK, TupleInv, HasTuple, MarkDel, Set, conn, calls
<1>3. KeysInv'
  BY SMTT(30) DEF Base, TypeOK, KeysInv, HasTuple, Keys, MarkDel, Set, conn, calls
<1>4. KeepInv'
  BY SMTT(30) DEF Base, TypeOK, KeepInv, KeysInv, Armed, Holding, OneTimer, StatusInv, MakeInv, MarkDel, Set, conn, calls
<1>5. MakeInv'
  BY SMTT(30) DEF Base, TypeOK, MakeInv, Making, EarlyInv, StopInv, NilInv, OneTimer, Early, MarkDel, Set, conn, calls
<1>6. EarlyInv'
  BY SMTT(30) DEF Base, TypeOK, EarlyInv, Early, MarkDel, Set, conn, calls
<1>7. NilInv'
  BY SMTT(30) DEF Base, TypeOK, NilInv, Making, MakeInv, StopInv, MarkDel, Set, conn, calls
<1>8. StopInv'
  BY SMTT(30) DEF Base, TypeOK, StopInv, MakeInv, NilInv, Making, MarkDel, Set, conn, calls
<1>9. OneTimer'
  BY SMTT(30) DEF Base, TypeOK, OneTimer, StopInv, MakeInv, Making, MarkDel, Set, conn, calls
<1>10. StatusInv'
  BY SMTT(30) DEF Base, TypeOK, StatusInv, OneTimer, MarkDel, Set, conn, calls
<1>11. AfterInv'
  BY SMTT(30) DEF Base, TypeOK, AfterInv, After, Keys, EarlyInv, Early, MarkDel, Set, conn, calls
<1> QED
  BY <1>1, <1>2, <1>3, <1>4, <1>5, <1>6, <1>7, <1>8, <1>9, <1>10, <1>11 DEF Base

LEMMA DelConntrackBase == ASSUME Base, NEW c \in Cts, DelConntrack(c) PROVE Base'
<1> USE ConstantFacts
<1>1. TypeOK'
  BY SMTT(30) DEF Base, TypeOK, DelConntrack, Set, conn, calls
<1>2. TupleInv'
  BY SMTT(30) DEF Base, TypeOK, TupleInv, HasTuple, DelConntrack, Set, conn, calls
<1>3. KeysInv'
  BY SMTT(30) DEF Base, TypeOK, KeysInv, HasTuple, Keys, DelConntrack, Set, conn, calls
<1>4. KeepInv'
  BY SMTT(30) DEF Base, TypeOK, KeepInv, KeysInv, Armed, Holding, OneTimer, StatusInv, MakeInv, DelConntrack, Set, conn, calls
<1>5. MakeInv'
  BY SMTT(30) DEF Base, TypeOK, MakeInv, Making, EarlyInv, StopInv, NilInv, OneTimer, Early, DelConntrack, Set, conn, calls
<1>6. EarlyInv'
  BY SMTT(30) DEF Base, TypeOK, EarlyInv, Early, DelConntrack, Set, conn, calls
<1>7. NilInv'
  BY SMTT(30) DEF Base, TypeOK, NilInv, Making, MakeInv, StopInv, DelConntrack, Set, conn, calls
<1>8. StopInv'
  BY SMTT(30) DEF Base, TypeOK, StopInv, MakeInv, NilInv, Making, DelConntrack, Set, conn, calls
<1>9. OneTimer'
  BY SMTT(30) DEF Base, TypeOK, OneTimer, StopInv, MakeInv, Making, DelConntrack, Set, conn, calls
<1>10. StatusInv'
  BY SMTT(30) DEF Base, TypeOK, StatusInv, OneTimer, DelConntrack, Set, conn, calls
<1>11. AfterInv'
  BY SMTT(30) DEF Base, TypeOK, AfterInv, After, Keys, EarlyInv, Early, DelConntrack, Set, conn, calls
<1> QED
  BY <1>1, <1>2, <1>3, <1>4, <1>5, <1>6, <1>7, <1>8, <1>9, <1>10, <1>11 DEF Base

LEMMA EstablishedTimeoutBase == ASSUME Base, NEW c \in Cts, EstablishedTimeout(c) PROVE Base'
<1> USE ConstantFacts
<1>1. TypeOK'
  <2>1. /\ timer' \in [Cts -> {"nil", "none", "del", "est"}] /\ status' \in [Cts -> {"NEW", "ESTABLISHED", "DEL"}]
        /\ moved' \in [Cts -> BOOLEAN] /\ held' \in [Callers -> BOOLEAN]
        /\ cb' \in [Cts -> {"none", "del", "remove", "est", "last"}]
        /\ UNCHANGED <<table, tuple, pc, ct, pkt, owner, raced, down>>
    <3>1. CASE status[c] = "DEL"
      BY <3>1 DEF Base, TypeOK, EstablishedTimeout, Set
    <3>2. CASE status[c] # "DEL" /\ moved[c]
      <4>1. /\ timer' = [timer EXCEPT ![c] = "est"] /\ moved' = [moved EXCEPT ![c] = FALSE]
            /\ held' = [x \in Callers |-> held[x] /\ ct[x] # c] /\ cb' = [cb EXCEPT ![c] = "none"]
            /\ UNCHANGED <<status, table, tuple, pc, ct, pkt, owner, raced, down>>
        BY <3>2 DEF EstablishedTimeout, Set, ArmsAgain, Replaced
      <4>2. held' \in [Callers -> BOOLEAN]
        BY <4>1 DEF Base, TypeOK
      <4>3. QED
        BY <4>1, <4>2 DEF Base, TypeOK
    <3>3. CASE status[c] # "DEL" /\ ~ moved[c]
      BY <3>3 DEF Base, TypeOK, EstablishedTimeout, Set
    <3>4. QED
      BY <3>1, <3>2, <3>3
  <2>2. QED
    BY <2>1 DEF Base, TypeOK
<1>2. TupleInv'
  BY SMTT(30) DEF Base, TypeOK, TupleInv, HasTuple, EstablishedTimeout, ArmsAgain, Replaced, Set, conn, calls
<1>3. KeysInv'
  BY SMTT(30) DEF Base, TypeOK, KeysInv, HasTuple, Keys, EstablishedTimeout, ArmsAgain, Replaced, Set, conn, calls
<1>4. KeepInv'
  BY SMTT(30) DEF Base, TypeOK, KeepInv, KeysInv, Armed, Holding, OneTimer, StatusInv, MakeInv, EstablishedTimeout, ArmsAgain, Replaced, Set, conn, calls
<1>5. MakeInv'
  BY SMTT(30) DEF Base, TypeOK, MakeInv, Making, EarlyInv, StopInv, NilInv, OneTimer, Early, EstablishedTimeout, ArmsAgain, Replaced, Set, conn, calls
<1>6. EarlyInv'
  BY SMTT(30) DEF Base, TypeOK, EarlyInv, Early, EstablishedTimeout, ArmsAgain, Replaced, Set, conn, calls
<1>7. NilInv'
  BY SMTT(30) DEF Base, TypeOK, NilInv, Making, MakeInv, StopInv, EstablishedTimeout, ArmsAgain, Replaced, Set, conn, calls
<1>8. StopInv'
  BY SMTT(30) DEF Base, TypeOK, StopInv, MakeInv, NilInv, Making, EstablishedTimeout, ArmsAgain, Replaced, Set, conn, calls
<1>9. OneTimer'
  BY SMTT(30) DEF Base, TypeOK, OneTimer, StopInv, MakeInv, Making, EstablishedTimeout, ArmsAgain, Replaced, Set, conn, calls
<1>10. StatusInv'
  BY SMTT(30) DEF Base, TypeOK, StatusInv, OneTimer, EstablishedTimeout, ArmsAgain, Replaced, Set, conn, calls
<1>11. AfterInv'
  BY SMTT(30) DEF Base, TypeOK, AfterInv, After, Keys, EarlyInv, Early, EstablishedTimeout, ArmsAgain, Replaced, Set, conn, calls
<1> QED
  BY <1>1, <1>2, <1>3, <1>4, <1>5, <1>6, <1>7, <1>8, <1>9, <1>10, <1>11 DEF Base

LEMMA ArmDelBase == ASSUME Base, NEW c \in Cts, ArmDel(c) PROVE Base'
<1> USE ConstantFacts
<1>1. TypeOK'
  BY SMTT(30) DEF Base, TypeOK, ArmDel, Replaced, Set, conn, calls
<1>2. TupleInv'
  BY SMTT(30) DEF Base, TypeOK, TupleInv, HasTuple, ArmDel, Replaced, Set, conn, calls
<1>3. KeysInv'
  BY SMTT(30) DEF Base, TypeOK, KeysInv, HasTuple, Keys, ArmDel, Replaced, Set, conn, calls
<1>4. KeepInv'
  BY SMTT(30) DEF Base, TypeOK, KeepInv, KeysInv, Armed, Holding, OneTimer, StatusInv, MakeInv, ArmDel, Replaced, Set, conn, calls
<1>5. MakeInv'
  BY SMTT(30) DEF Base, TypeOK, MakeInv, Making, EarlyInv, StopInv, NilInv, OneTimer, Early, ArmDel, Replaced, Set, conn, calls
<1>6. EarlyInv'
  BY SMTT(30) DEF Base, TypeOK, EarlyInv, Early, ArmDel, Replaced, Set, conn, calls
<1>7. NilInv'
  BY SMTT(30) DEF Base, TypeOK, NilInv, Making, MakeInv, StopInv, ArmDel, Replaced, Set, conn, calls
<1>8. StopInv'
  BY SMTT(30) DEF Base, TypeOK, StopInv, MakeInv, NilInv, Making, ArmDel, Replaced, Set, conn, calls
<1>9. OneTimer'
  BY SMTT(30) DEF Base, TypeOK, OneTimer, StopInv, MakeInv, Making, ArmDel, Replaced, Set, conn, calls
<1>10. StatusInv'
  BY SMTT(30) DEF Base, TypeOK, StatusInv, OneTimer, ArmDel, Replaced, Set, conn, calls
<1>11. AfterInv'
  BY SMTT(30) DEF Base, TypeOK, AfterInv, After, Keys, EarlyInv, Early, ArmDel, Replaced, Set, conn, calls
<1> QED
  BY <1>1, <1>2, <1>3, <1>4, <1>5, <1>6, <1>7, <1>8, <1>9, <1>10, <1>11 DEF Base

-----------------------------------------------------------------------------
(* As long as no call that makes a connection has overlapped another.      *)
LEMMA FindConntrackClean == ASSUME Base, Clean, NEW x \in Callers, FindConntrack(x), ~ raced' PROVE Clean'
<1> USE ConstantFacts
<1>0. PICK t \in Packets : pkt'[x] = t
  BY DEF FindConntrack, Set, Base, TypeOK
<1>1. CASE table[t] # None
  <2> DEFINE c == table[t]
  <2>0. /\ pc[x] = "idle" /\ t \in Tuples /\ c \in Cts /\ HasTuple(c) /\ t \in Keys(c)
        /\ pc' = [pc EXCEPT ![x] = "nat"] /\ pkt' = [pkt EXCEPT ![x] = t] /\ ct' = [ct EXCEPT ![x] = c]
        /\ \A y \in Callers \ {x} : ~ Making(y)
        /\ table[t] = c
        /\ UNCHANGED <<table, tuple, status, timer, moved, cb, held, owner, down>>
    BY <1>0, <1>1, FoundIs
  <2> HIDE DEF c
  <2>c. table[tuple[c].orig] = c /\ table[tuple[c].reply] = c /\ Owns(c)
    <3>1. table[tuple[c].orig] = c /\ table[tuple[c].reply] = c
      BY <2>0 DEF Base, KeepInv, Clean, ArmedInv
    <3>2. ~ (\E y \in Callers : ct[y] = c /\ pc[y] = "out")
      BY <2>0 DEF Making
    <3>3. QED
      BY <2>0, <3>1, <3>2 DEF Clean, OwnInv
  <2>1. AloneInv'
    BY <2>0, <2>c, SMTT(30) DEF Clean, Base, TypeOK, AloneInv, Making
  <2>2. FreeInv'
    BY <2>0, <2>c, SMTT(30) DEF Clean, Base, TypeOK, FreeInv, Early, AloneInv, Making, EarlyInv
  <2>3. ArmedInv'
    BY <2>0, <2>c, SMTT(30) DEF Clean, Base, TypeOK, ArmedInv, Armed, Holding, HasTuple, OneTimer, TupleInv, KeysInv, AloneInv, Making, FreeInv, Early, EarlyInv, Keys
  <2>4. LiveInv'
    BY <2>0, <2>c, SMTT(30) DEF Clean, Base, TypeOK, LiveInv, After, Keys, AloneInv, Making, EarlyInv, Early
  <2>5. ApartInv'
    BY <2>0, <2>c, SMTT(30) DEF Clean, Base, TypeOK, ApartInv, After, Keys, AloneInv, Making, EarlyInv, Early
  <2>6. OwnInv'
    BY <2>0, <2>c, SMTT(30) DEF Clean, Base, TypeOK, OwnInv, Owns, After, AloneInv, Making, Keys
  <2> QED
    BY <2>1, <2>2, <2>3, <2>4, <2>5, <2>6 DEF Clean
<1>2. CASE table[t] = None
  <2>0. PICK c \in Cts :
          /\ pc[x] = "idle" /\ t \in Tuples /\ Reply(t) \in Tuples
          /\ IF t[1] = Snat THEN Reply(t)[1] = Self ELSE t[1] \in Hosts /\ Reply(t)[1] = Snat
          /\ \A u \in Tuples : table[u] # c
          /\ timer[c] \in {"nil", "none"} /\ cb[c] = "none" /\ \A y \in Callers : ct[y] # c
          /\ pc' = [pc EXCEPT ![x] = "search"] /\ pkt' = [pkt EXCEPT ![x] = t] /\ ct' = [ct EXCEPT ![x] = c]
          /\ tuple' = [tuple EXCEPT ![c] = [orig |-> t, reply |-> Reply(t)]]
          /\ status' = [status EXCEPT ![c] = "NEW"] /\ moved' = [moved EXCEPT ![c] = FALSE]
          /\ timer' = [timer EXCEPT ![c] = "nil"]
          /\ raced' = (raced \/ \E y \in Callers \ {x} : pc[y] # "idle")
          /\ UNCHANGED <<table, cb, held, owner, down>>
    BY <1>0, <1>2, CreatedIs
  <2>i. \A y \in Callers \ {x} : pc[y] = "idle"
    BY <2>0
  <2>c. tuple'[c].orig = t /\ \A d \in Cts \ {c} : tuple'[d] = tuple[d]
    BY <2>0 DEF Base, TypeOK
  <2>1. AloneInv'
    BY <1>2, <2>0, <2>i, <2>c, SMTT(30) DEF Clean, Base, TypeOK, AloneInv, Making
  <2>2. FreeInv'
    BY <1>2, <2>0, <2>i, <2>c, SMTT(30) DEF Clean, Base, TypeOK, FreeInv, Early, AloneInv, Making, EarlyInv
  <2>3. ArmedInv'
    BY <1>2, <2>0, <2>i, <2>c, SMTT(30) DEF Clean, Base, TypeOK, ArmedInv, Armed, Holding, HasTuple, OneTimer, TupleInv, KeysInv, AloneInv, Making, FreeInv, Early, EarlyInv, Keys
  <2>4. LiveInv'
    BY <1>2, <2>0, <2>i, <2>c, SMTT(30) DEF Clean, Base, TypeOK, LiveInv, After, Keys, AloneInv, Making, EarlyInv, Early
  <2>5. ApartInv'
    BY <1>2, <2>0, <2>i, <2>c, SMTT(30) DEF Clean, Base, TypeOK, ApartInv, After, Keys, AloneInv, Making, EarlyInv, Early
  <2>6. OwnInv'
    BY <1>2, <2>0, <2>i, <2>c, SMTT(30) DEF Clean, Base, TypeOK, OwnInv, Owns, After, AloneInv, Making, Keys
  <2> QED
    BY <2>1, <2>2, <2>3, <2>4, <2>5, <2>6 DEF Clean
<1>3. QED
  BY <1>1, <1>2

LEMMA GetUniqueTupleClean == ASSUME Base, Clean, NEW x \in Callers, GetUniqueTuple(x) PROVE Clean'
<1> USE ConstantFacts
<1>1. AloneInv'
  BY SMTT(30) DEF Base, TypeOK, Clean, AloneInv, Making, GetUniqueTuple, IsUnique, NextPort, Set, conn, calls
<1>2. FreeInv'
  BY SMTT(30) DEF Base, TypeOK, Clean, FreeInv, Early, AloneInv, Making, EarlyInv, GetUniqueTuple, IsUnique, NextPort, Set, conn, calls
<1>3. ArmedInv'
  BY SMTT(30) DEF Base, TypeOK, Clean, ArmedInv, Armed, Holding, HasTuple, OneTimer, TupleInv, KeysInv, AloneInv, Making, FreeInv, Early, EarlyInv, Keys, GetUniqueTuple, IsUnique, NextPort, Set, conn, calls
<1>4. LiveInv'
  BY SMTT(30) DEF Base, TypeOK, Clean, LiveInv, After, Keys, AloneInv, Making, EarlyInv, Early, GetUniqueTuple, IsUnique, NextPort, Set, conn, calls
<1>5. ApartInv'
  BY SMTT(30) DEF Base, TypeOK, Clean, ApartInv, After, Keys, AloneInv, Making, EarlyInv, Early, GetUniqueTuple, IsUnique, NextPort, Set, conn, calls
<1>6. OwnInv'
  <2> USE NextTuple
  <2>1. ASSUME NEW c \in Cts, c # ct[x], Owns(c) PROVE Owns(c)'
    BY <2>1 DEF Owns
  <2>2. ASSUME NEW y \in Callers PROVE pc'[y] \in After => pc[y] \in After /\ y # x
    BY DEF After, Set, Base, TypeOK
  <2>3. ASSUME NEW y \in Callers PROVE pc[y] = "out" => pc'[y] = "out"
    BY DEF Set, Base, TypeOK
  <2>4. ASSUME NEW c \in Cts, NEW t \in Tuples, table'[t] = c, ~ (\E y \in Callers : ct'[y] = c /\ pc'[y] = "out")
        PROVE  Owns(c)'
    <3>1. table[t] = c /\ c # ct[x] /\ ~ (\E y \in Callers : ct[y] = c /\ pc[y] = "out")
      BY <2>3, <2>4 DEF Base, EarlyInv, Early
    <3>2. QED
      BY <2>1, <3>1 DEF Clean, OwnInv
  <2>5. ASSUME NEW y \in Callers, pc'[y] \in After PROVE Owns(ct[y])'
    <3>1. ct[y] \in Cts /\ ct[y] # ct[x] /\ pc[y] \in After
      BY <2>2, <2>5 DEF Base, EarlyInv, Early, TypeOK, After
    <3>2. QED
      BY <2>1, <3>1 DEF Clean, OwnInv
  <2>6. QED
    BY <2>4, <2>5 DEF OwnInv
<1> QED
  BY <1>1, <1>2, <1>3, <1>4, <1>5, <1>6 DEF Clean

LEMMA CtConfirmClean == ASSUME Base, Clean, NEW x \in Callers, CtConfirm(x) PROVE Clean'
<1> USE ConstantFacts
<1>1. AloneInv'
  BY SMTT(30) DEF Base, TypeOK, Clean, AloneInv, Making, CtConfirm, Set, conn, calls
<1>2. FreeInv'
  BY SMTT(30) DEF Base, TypeOK, Clean, FreeInv, Early, AloneInv, Making, EarlyInv, CtConfirm, Set, conn, calls
<1>3. ArmedInv'
  BY SMTT(30) DEF Base, TypeOK, Clean, ArmedInv, Armed, Holding, HasTuple, OneTimer, TupleInv, KeysInv, AloneInv, Making, FreeInv, Early, EarlyInv, Keys, CtConfirm, Set, conn, calls
<1>4. LiveInv'
  BY SMTT(30) DEF Base, TypeOK, Clean, LiveInv, After, Keys, AloneInv, Making, EarlyInv, Early, CtConfirm, Set, conn, calls
<1>5. ApartInv'
  BY SMTT(30) DEF Base, TypeOK, Clean, ApartInv, After, Keys, AloneInv, Making, EarlyInv, Early, CtConfirm, Set, conn, calls
<1>6. OwnInv'
  BY SMTT(30) DEF Base, TypeOK, Clean, OwnInv, Owns, After, AloneInv, Making, Keys, CtConfirm, Set, conn, calls
<1> QED
  BY <1>1, <1>2, <1>3, <1>4, <1>5, <1>6 DEF Clean

LEMMA DoNatNewClean == ASSUME Base, Clean, NEW x \in Callers, DoNatNew(x) PROVE Clean'
<1> USE ConstantFacts
<1>1. AloneInv'
  BY SMTT(30) DEF Base, TypeOK, Clean, AloneInv, Making, DoNatNew, Sends, Retains, Set, conn, calls
<1>2. FreeInv'
  BY SMTT(30) DEF Base, TypeOK, Clean, FreeInv, Early, AloneInv, Making, EarlyInv, DoNatNew, Sends, Retains, Set, conn, calls
<1>3. ArmedInv'
  BY SMTT(30) DEF Base, TypeOK, Clean, ArmedInv, Armed, Holding, HasTuple, OneTimer, TupleInv, KeysInv, AloneInv, Making, FreeInv, Early, EarlyInv, Keys, DoNatNew, Sends, Retains, Set, conn, calls
<1>4. LiveInv'
  BY SMTT(30) DEF Base, TypeOK, Clean, LiveInv, After, Keys, AloneInv, Making, EarlyInv, Early, DoNatNew, Sends, Retains, Set, conn, calls
<1>5. ApartInv'
  BY SMTT(30) DEF Base, TypeOK, Clean, ApartInv, After, Keys, AloneInv, Making, EarlyInv, Early, DoNatNew, Sends, Retains, Set, conn, calls
<1>6. OwnInv'
  <2>1. /\ pc[x] = "out" /\ ct[x] \in Cts /\ HasTuple(ct[x]) /\ pkt[x] = tuple[ct[x]].orig
        /\ UNCHANGED <<table, tuple, ct>>
    BY DEF Base, TypeOK, DoNatNew, MakeInv, Making, HasTuple, conn
  <2>2. \A y \in Callers : pc'[y] \notin After
    BY <2>1 DEF Clean, AloneInv, Making, DoNatNew, Set, Base, TypeOK, After
  <2>3. ASSUME NEW c \in Cts, NEW t \in Tuples, table'[t] = c, ~ (\E y \in Callers : ct'[y] = c /\ pc'[y] = "out")
        PROVE  Owns(c)'
    <3>1. /\ table[tuple[c].reply] = c /\ table[tuple[ct[x]].reply] = ct[x]
          /\ tuple[c].reply \in Tuples /\ tuple[ct[x]].reply \in Tuples
      BY <2>1, <2>3 DEF Clean, ArmedInv, Base, KeepInv, Armed, Holding, KeysInv, TupleInv
    <3>2. \/ owner' = owner /\ pkt[x] \notin Hosts \X Ports
          \/ /\ pkt[x] \in Hosts \X Ports
             /\ \/ owner' = [owner EXCEPT ![tuple[ct[x]].reply[2]] = pkt[x]]
                \/ owner' = [owner EXCEPT ![tuple[ct[x]].reply[2]] = None]
      BY DEF DoNatNew, Sends, Retains, Set
    <3>3. owner \in [Ports -> Tuples \cup {None}] /\ tuple[c].reply[2] \in Ports /\ tuple[ct[x]].reply[2] \in Ports
      BY <3>1, Pairs DEF Base, TypeOK
    <3>4. CASE c = ct[x]
      <4>1. CASE pkt[x] \in Hosts \X Ports
        BY <2>1, <3>2, <3>3, <3>4, <4>1 DEF Owns
      <4>2. CASE pkt[x] \notin Hosts \X Ports
        <5>1. tuple[c].orig \in Tuples /\ tuple[c].orig \notin Hosts \X Ports
          BY <2>1, <3>4, <4>2 DEF Base, TupleInv
        <5>2. tuple[c].orig[1] \notin Hosts
          BY <5>1, Pairs
        <5>3. tuple[c].reply[1] = Self
          BY <2>1, <3>4, <5>2 DEF Base, TupleInv
        <5>4. QED
          BY <2>1, <5>3 DEF Owns
      <4>3. QED
        BY <4>1, <4>2
    <3>5. CASE c # ct[x]
      <4>1. ~ (\E y \in Callers : ct[y] = c /\ pc[y] = "out")
        BY <2>1, <3>5 DEF Clean, AloneInv, Making, Base, TypeOK
      <4>2. Owns(c)
        BY <2>1, <2>3, <4>1 DEF Clean, OwnInv
      <4>3. CASE tuple[c].reply[1] = Snat /\ pkt[x] \in Hosts \X Ports
        <5>1. tuple[ct[x]].reply[1] = Snat
          BY <2>1, <4>3 DEF Base, TupleInv
        <5>2. tuple[c].reply[2] # tuple[ct[x]].reply[2]
          BY <3>1, <3>5, <4>3, <5>1, Pairs
        <5>3. owner'[tuple[c].reply[2]] = owner[tuple[c].reply[2]]
          BY <3>2, <3>3, <5>2
        <5>4. QED
          BY <2>1, <4>2, <5>3 DEF Owns
      <4>4. CASE ~ (tuple[c].reply[1] = Snat /\ pkt[x] \in Hosts \X Ports)
        BY <2>1, <3>2, <4>2, <4>4 DEF Owns
      <4>5. QED
        BY <4>3, <4>4
    <3>6. QED
      BY <3>4, <3>5
  <2>4. QED
    BY <2>2, <2>3 DEF OwnInv
<1> QED
  BY <1>1, <1>2, <1>3, <1>4, <1>5, <1>6 DEF Clean

LEMMA ArmNewClean == ASSUME Base, Clean, NEW x \in Callers, ArmNew(x) PROVE Clean'
<1> USE ConstantFacts
<1>1. AloneInv'
  BY SMTT(30) DEF Base, TypeOK, Clean, AloneInv, Making, ArmNew, Done, Replaced, Set, conn, calls
<1>2. FreeInv'
  BY SMTT(30) DEF Base, TypeOK, Clean, FreeInv, Early, AloneInv, Making, EarlyInv, ArmNew, Done, Replaced, Set, conn, calls
<1>3. ArmedInv'
  BY SMTT(30) DEF Base, TypeOK, Clean, ArmedInv, Armed, Holding, HasTuple, OneTimer, TupleInv, KeysInv, AloneInv, Making, FreeInv, Early, EarlyInv, Keys, ArmNew, Done, Replaced, Set, conn, calls
<1>4. LiveInv'
  BY SMTT(30) DEF Base, TypeOK, Clean, LiveInv, After, Keys, AloneInv, Making, EarlyInv, Early, ArmNew, Done, Replaced, Set, conn, calls
<1>5. ApartInv'
  BY SMTT(30) DEF Base, TypeOK, Clean, ApartInv, After, Keys, AloneInv, Making, EarlyInv, Early, ArmNew, Done, Replaced, Set, conn, calls
<1>6. OwnInv'
  BY SMTT(30) DEF Base, TypeOK, Clean, OwnInv, Owns, After, AloneInv, Making, Keys, ArmNew, Done, Replaced, Set, conn, calls
<1> QED
  BY <1>1, <1>2, <1>3, <1>4, <1>5, <1>6 DEF Clean

LEMMA DoNatClean == ASSUME Base, Clean, NEW x \in Callers, DoNat(x) PROVE Clean'
<1> USE ConstantFacts
<1>1. AloneInv'
  BY SMTT(30) DEF Base, TypeOK, Clean, AloneInv, Making, DoNat, IsReply, Sends, Set, conn, calls
<1>2. FreeInv'
  BY SMTT(30) DEF Base, TypeOK, Clean, FreeInv, Early, AloneInv, Making, EarlyInv, DoNat, IsReply, Sends, Set, conn, calls
<1>3. ArmedInv'
  BY SMTT(30) DEF Base, TypeOK, Clean, ArmedInv, Armed, Holding, HasTuple, OneTimer, TupleInv, KeysInv, AloneInv, Making, FreeInv, Early, EarlyInv, Keys, DoNat, IsReply, Sends, Set, conn, calls
<1>4. LiveInv'
  BY SMTT(30) DEF Base, TypeOK, Clean, LiveInv, After, Keys, AloneInv, Making, EarlyInv, Early, DoNat, IsReply, Sends, Set, conn, calls
<1>5. ApartInv'
  BY SMTT(30) DEF Base, TypeOK, Clean, ApartInv, After, Keys, AloneInv, Making, EarlyInv, Early, DoNat, IsReply, Sends, Set, conn, calls
<1>6. OwnInv'
  <2>1. /\ pc[x] = "nat" /\ pc[x] \in After /\ ct[x] \in Cts /\ HasTuple(ct[x]) /\ UNCHANGED <<table, tuple, ct>>
        /\ tuple[ct[x]].reply \in Tuples
    BY DEF Base, TypeOK, DoNat, HasTuple, After, conn, TupleInv
  <2>2. \A y \in Callers : (pc'[y] \in After <=> pc[y] \in After) /\ (pc'[y] = "out" <=> pc[y] = "out")
    BY <2>1 DEF DoNat, Set, Base, TypeOK, After
  <2>3. owner \in [Ports -> Tuples \cup {None}] /\ tuple[ct[x]].reply[2] \in Ports
    BY <2>1, Pairs DEF Base, TypeOK
  <2>4. \/ owner' = owner
        \/ /\ tuple[ct[x]].orig \in Hosts \X Ports /\ tuple[ct[x]].reply[1] = Snat
           /\ owner' = [owner EXCEPT ![tuple[ct[x]].reply[2]] = tuple[ct[x]].orig]
    BY <2>1 DEF DoNat, IsReply, Sends, Set, Base, TupleInv
  <2>5. ASSUME NEW c \in Cts, Owns(c), tuple[c].reply \in Tuples,
               tuple[c].reply = tuple[ct[x]].reply => c = ct[x]
        PROVE  Owns(c)'
    <3>1. tuple[c].reply[2] \in Ports
      BY <2>5, Pairs
    <3>2. CASE c = ct[x]
      BY <2>1, <2>3, <2>4, <2>5, <3>2 DEF Owns
    <3>3. CASE c # ct[x] /\ tuple[c].reply[1] = Snat /\ tuple[ct[x]].reply[1] = Snat
      <4>1. tuple[c].reply[2] # tuple[ct[x]].reply[2]
        BY <2>1, <2>5, <3>3, Pairs
      <4>2. owner'[tuple[c].reply[2]] = owner[tuple[c].reply[2]]
        BY <2>3, <2>4, <3>1, <4>1
      <4>3. QED
        BY <2>1, <2>5, <4>2 DEF Owns
    <3>4. CASE ~ (tuple[c].reply[1] = Snat /\ tuple[ct[x]].reply[1] = Snat)
      BY <2>1, <2>4, <2>5, <3>4 DEF Owns
    <3>5. QED
      BY <3>2, <3>3, <3>4
  <2>6. ASSUME NEW c \in Cts, NEW t \in Tuples, table'[t] = c, ~ (\E y \in Callers : ct'[y] = c /\ pc'[y] = "out")
        PROVE  Owns(c)'
    <3>1. Owns(c)
      BY <2>1, <2>2, <2>6 DEF Clean, OwnInv
    <3>2. table[tuple[c].reply] = c /\ tuple[c].reply \in Tuples
      BY <2>1, <2>6 DEF Clean, ArmedInv, Base, KeepInv, KeysInv, TupleInv
    <3>3. table[tuple[ct[x]].reply] \in {ct[x], None}
      BY <2>1 DEF Clean, LiveInv, Keys
    <3>4. QED
      BY <2>5, <3>1, <3>2, <3>3
  <2>7. ASSUME NEW y \in Callers, pc'[y] \in After PROVE Owns(ct[y])'
    <3>1. pc[y] \in After /\ ct[y] \in Cts /\ HasTuple(ct[y])
      BY <2>2, <2>7 DEF Base, TypeOK, After, HasTuple
    <3>2. Owns(ct[y]) /\ tuple[ct[y]].reply \in Tuples
      BY <3>1 DEF Clean, OwnInv, Base, TupleInv
    <3>3. tuple[ct[y]].reply = tuple[ct[x]].reply => ct[y] = ct[x]
      BY <2>1, <3>1 DEF Clean, ApartInv, Keys
    <3>4. PICK c \in Cts : c = ct[y]
      BY <3>1
    <3>5. Owns(c)'
      BY <2>5, <3>2, <3>3, <3>4
    <3>6. ct'[y] = c
      BY <2>1, <3>4
    <3>7. QED
      BY <3>5, <3>6 DEF Owns
  <2>8. QED
    BY <2>1, <2>6, <2>7 DEF OwnInv
<1> QED
  BY <1>1, <1>2, <1>3, <1>4, <1>5, <1>6 DEF Clean

LEMMA CountClean == ASSUME Base, Clean, NEW x \in Callers, Count(x) PROVE Clean'
<1> USE ConstantFacts
<1>1. AloneInv'
  BY SMTT(30) DEF Base, TypeOK, Clean, AloneInv, Making, Count, IsReply, Done, Set, conn, calls
<1>2. FreeInv'
  BY SMTT(30) DEF Base, TypeOK, Clean, FreeInv, Early, AloneInv, Making, EarlyInv, Count, IsReply, Done, Set, conn, calls
<1>3. ArmedInv'
  BY SMTT(30) DEF Base, TypeOK, Clean, ArmedInv, Armed, Holding, HasTuple, OneTimer, TupleInv, KeysInv, AloneInv, Making, FreeInv, Early, EarlyInv, Keys, Count, IsReply, Done, Set, conn, calls
<1>4. LiveInv'
  BY SMTT(30) DEF Base, TypeOK, Clean, LiveInv, After, Keys, AloneInv, Making, EarlyInv, Early, Count, IsReply, Done, Set, conn, calls
<1>5. ApartInv'
  BY SMTT(30) DEF Base, TypeOK, Clean, ApartInv, After, Keys, AloneInv, Making, EarlyInv, Early, Count, IsReply, Done, Set, conn, calls
<1>6. OwnInv'
  BY SMTT(30) DEF Base, TypeOK, Clean, OwnInv, Owns, After, AloneInv, Making, Keys, Count, IsReply, Done, Set, conn, calls
<1> QED
  BY <1>1, <1>2, <1>3, <1>4, <1>5, <1>6 DEF Clean

LEMMA LoadClean == ASSUME Base, Clean, NEW x \in Callers, Load(x) PROVE Clean'
<1> USE ConstantFacts
<1>1. AloneInv'
  BY SMTT(30) DEF Base, TypeOK, Clean, AloneInv, Making, Load, Set, conn, calls
<1>2. FreeInv'
  BY SMTT(30) DEF Base, TypeOK, Clean, FreeInv, Early, AloneInv, Making, EarlyInv, Load, Set, conn, calls
<1>3. ArmedInv'
  BY SMTT(30) DEF Base, TypeOK, Clean, ArmedInv, Armed, Holding, HasTuple, OneTimer, TupleInv, KeysInv, AloneInv, Making, FreeInv, Early, EarlyInv, Keys, Load, Set, conn, calls
<1>4. LiveInv'
  BY SMTT(30) DEF Base, TypeOK, Clean, LiveInv, After, Keys, AloneInv, Making, EarlyInv, Early, Load, Set, conn, calls
<1>5. ApartInv'
  BY SMTT(30) DEF Base, TypeOK, Clean, ApartInv, After, Keys, AloneInv, Making, EarlyInv, Early, Load, Set, conn, calls
<1>6. OwnInv'
  BY SMTT(30) DEF Base, TypeOK, Clean, OwnInv, Owns, After, AloneInv, Making, Keys, Load, Set, conn, calls
<1> QED
  BY <1>1, <1>2, <1>3, <1>4, <1>5, <1>6 DEF Clean

LEMMA StopClean == ASSUME Base, Clean, NEW x \in Callers, Stop(x) PROVE Clean'
<1> USE ConstantFacts
<1>1. AloneInv'
  BY SMTT(30) DEF Base, TypeOK, Clean, AloneInv, Making, Stop, StopOk, Done, Set, conn, calls
<1>2. FreeInv'
  BY SMTT(30) DEF Base, TypeOK, Clean, FreeInv, Early, AloneInv, Making, EarlyInv, Stop, StopOk, Done, Set, conn, calls
<1>3. ArmedInv'
  <2>1. pc[x] = "stop" /\ ct[x] \in Cts /\ timer[ct[x]] # "nil" /\ UNCHANGED <<table, tuple, cb>>
    BY DEF Base, TypeOK, Stop, StopInv
  <2>2. ASSUME NEW c \in Cts, Armed(c)' PROVE Armed(c)
    BY <2>1, <2>2, SMTT(30) DEF Base, TypeOK, Armed, Holding, Stop, StopOk, Done, Set
  <2>3. QED
    BY <2>1, <2>2 DEF Clean, ArmedInv, HasTuple
<1>4. LiveInv'
  BY SMTT(30) DEF Base, TypeOK, Clean, LiveInv, After, Keys, AloneInv, Making, EarlyInv, Early, Stop, StopOk, Done, Set, conn, calls
<1>5. ApartInv'
  BY SMTT(30) DEF Base, TypeOK, Clean, ApartInv, After, Keys, AloneInv, Making, EarlyInv, Early, Stop, StopOk, Done, Set, conn, calls
<1>6. OwnInv'
  BY SMTT(30) DEF Base, TypeOK, Clean, OwnInv, Owns, After, AloneInv, Making, Keys, Stop, StopOk, Done, Set, conn, calls
<1> QED
  BY <1>1, <1>2, <1>3, <1>4, <1>5, <1>6 DEF Clean

LEMMA SetEstablishedClean == ASSUME Base, Clean, NEW x \in Callers, SetEstablished(x) PROVE Clean'
<1> USE ConstantFacts
<1>1. AloneInv'
  BY SMTT(30) DEF Base, TypeOK, Clean, AloneInv, Making, SetEstablished, Set, conn, calls
<1>2. FreeInv'
  BY SMTT(30) DEF Base, TypeOK, Clean, FreeInv, Early, AloneInv, Making, EarlyInv, SetEstablished, Set, conn, calls
<1>3. ArmedInv'
  BY SMTT(30) DEF Base, TypeOK, Clean, ArmedInv, Armed, Holding, HasTuple, OneTimer, TupleInv, KeysInv, AloneInv, Making, FreeInv, Early, EarlyInv, Keys, SetEstablished, Set, conn, calls
<1>4. LiveInv'
  BY SMTT(30) DEF Base, TypeOK, Clean, LiveInv, After, Keys, AloneInv, Making, EarlyInv, Early, SetEstablished, Set, conn, calls
<1>5. ApartInv'
  BY SMTT(30) DEF Base, TypeOK, Clean, ApartInv, After, Keys, AloneInv, Making, EarlyInv, Early, SetEstablished, Set, conn, calls
<1>6. OwnInv'
  BY SMTT(30) DEF Base, TypeOK, Clean, OwnInv, Owns, After, AloneInv, Making, Keys, SetEstablished, Set, conn, calls
<1> QED
  BY <1>1, <1>2, <1>3, <1>4, <1>5, <1>6 DEF Clean

LEMMA ArmEstablishedClean == ASSUME Base, Clean, NEW x \in Callers, ArmEstablished(x) PROVE Clean'
<1> USE ConstantFacts
<1>1. AloneInv'
  BY SMTT(30) DEF Base, TypeOK, Clean, AloneInv, Making, ArmEstablished, Done, Replaced, Set, conn, calls
<1>2. FreeInv'
  BY SMTT(30) DEF Base, TypeOK, Clean, FreeInv, Early, AloneInv, Making, EarlyInv, ArmEstablished, Done, Replaced, Set, conn, calls
<1>3. ArmedInv'
  BY SMTT(30) DEF Base, TypeOK, Clean, ArmedInv, Armed, Holding, HasTuple, OneTimer, TupleInv, KeysInv, AloneInv, Making, FreeInv, Early, EarlyInv, Keys, ArmEstablished, Done, Replaced, Set, conn, calls
<1>4. LiveInv'
  BY SMTT(30) DEF Base, TypeOK, Clean, LiveInv, After, Keys, AloneInv, Making, EarlyInv, Early, ArmEstablished, Done, Replaced, Set, conn, calls
<1>5. ApartInv'
  BY SMTT(30) DEF Base, TypeOK, Clean, ApartInv, After, Keys, AloneInv, Making, EarlyInv, Early, ArmEstablished, Done, Replaced, Set, conn, calls
<1>6. OwnInv'
  BY SMTT(30) DEF Base, TypeOK, Clean, OwnInv, Owns, After, AloneInv, Making, Keys, ArmEstablished, Done, Replaced, Set, conn, calls
<1> QED
  BY <1>1, <1>2, <1>3, <1>4, <1>5, <1>6 DEF Clean

LEMMA ExpireClean == ASSUME Base, Clean, NEW c \in Cts, Expire(c) PROVE Clean'
<1> USE ConstantFacts
<1>1. AloneInv'
  BY SMTT(30) DEF Base, TypeOK, Clean, AloneInv, Making, Expire, Set, conn, calls
<1>2. FreeInv'
  BY SMTT(30) DEF Base, TypeOK, Clean, FreeInv, Early, AloneInv, Making, EarlyInv, Expire, Set, conn, calls
<1>3. ArmedInv'
  BY SMTT(30) DEF Base, TypeOK, Clean, ArmedInv, Armed, Holding, HasTuple, OneTimer, TupleInv, KeysInv, AloneInv, Making, FreeInv, Early, EarlyInv, Keys, Expire, Set, conn, calls
<1>4. LiveInv'
  BY SMTT(30) DEF Base, TypeOK, Clean, LiveInv, After, Keys, AloneInv, Making, EarlyInv, Early, Expire, Set, conn, calls
<1>5. ApartInv'
  BY SMTT(30) DEF Base, TypeOK, Clean, ApartInv, After, Keys, AloneInv, Making, EarlyInv, Early, Expire, Set, conn, calls
<1>6. OwnInv'
  BY SMTT(30) DEF Base, TypeOK, Clean, OwnInv, Owns, After, AloneInv, Making, Keys, Expire, Set, conn, calls
<1> QED
  BY <1>1, <1>2, <1>3, <1>4, <1>5, <1>6 DEF Clean

LEMMA MarkDelClean == ASSUME Base, Clean, NEW c \in Cts, MarkDel(c) PROVE Clean'
<1> USE ConstantFacts
<1>1. AloneInv'
  BY SMTT(30) DEF Base, TypeOK, Clean, AloneInv, Making, MarkDel, Set, conn, calls
<1>2. FreeInv'
  BY SMTT(30) DEF Base, TypeOK, Clean, FreeInv, Early, AloneInv, Making, EarlyInv, MarkDel, Set, conn, calls
<1>3. ArmedInv'
  BY SMTT(30) DEF Base, TypeOK, Clean, ArmedInv, Armed, Holding, HasTuple, OneTimer, TupleInv, KeysInv, AloneInv, Making, FreeInv, Early, EarlyInv, Keys, MarkDel, Set, conn, calls
<1>4. LiveInv'
  BY SMTT(30) DEF Base, TypeOK, Clean, LiveInv, After, Keys, AloneInv, Making, EarlyInv, Early, MarkDel, Set, conn, calls
<1>5. ApartInv'
  BY SMTT(30) DEF Base, TypeOK, Clean, ApartInv, After, Keys, AloneInv, Making, EarlyInv, Early, MarkDel, Set, conn, calls
<1>6. OwnInv'
  BY SMTT(30) DEF Base, TypeOK, Clean, OwnInv, Owns, After, AloneInv, Making, Keys, MarkDel, Set, conn, calls
<1> QED
  BY <1>1, <1>2, <1>3, <1>4, <1>5, <1>6 DEF Clean

LEMMA DelConntrackClean == ASSUME Base, Clean, NEW c \in Cts, DelConntrack(c) PROVE Clean'
<1> USE ConstantFacts
<1>1. AloneInv'
  BY SMTT(30) DEF Base, TypeOK, Clean, AloneInv, Making, DelConntrack, Set, conn, calls
<1>2. FreeInv'
  BY SMTT(30) DEF Base, TypeOK, Clean, FreeInv, Early, AloneInv, Making, EarlyInv, DelConntrack, Set, conn, calls
<1>3. ArmedInv'
  <2>1. /\ cb[c] = "remove" /\ cb' = [cb EXCEPT ![c] = "none"] /\ UNCHANGED <<tuple, timer, pc, ct>>
        /\ table' = [t \in Tuples |-> IF t \in Keys(c) THEN None ELSE table[t]]
    BY DEF DelConntrack, Set, conn, calls
  <2>2. HasTuple(c) /\ table[tuple[c].orig] = c /\ table[tuple[c].reply] = c
    BY <2>1 DEF Clean, ArmedInv, Armed
  <2>3. ASSUME NEW d \in Cts, Armed(d)' PROVE d # c /\ Armed(d)
    BY <2>1, <2>3, SMTT(30) DEF Armed, Holding, Base, TypeOK, OneTimer, MakeInv, Making
  <2>4. ASSUME NEW d \in Cts, Armed(d)'
        PROVE  HasTuple(d)' /\ table'[tuple'[d].orig] = d /\ table'[tuple'[d].reply] = d
    <3>1. d # c /\ HasTuple(d) /\ table[tuple[d].orig] = d /\ table[tuple[d].reply] = d
      BY <2>3, <2>4 DEF Clean, ArmedInv
    <3>2. tuple[d].orig \in Tuples \ Keys(c) /\ tuple[d].reply \in Tuples \ Keys(c)
      BY <2>2, <3>1 DEF Keys, Base, TupleInv
    <3>3. QED
      BY <2>1, <3>1, <3>2 DEF HasTuple
  <2>5. QED
    BY <2>4 DEF ArmedInv
<1>4. LiveInv'
  BY SMTT(30) DEF Base, TypeOK, Clean, LiveInv, After, Keys, AloneInv, Making, EarlyInv, Early, DelConntrack, Set, conn, calls
<1>5. ApartInv'
  BY SMTT(30) DEF Base, TypeOK, Clean, ApartInv, After, Keys, AloneInv, Making, EarlyInv, Early, DelConntrack, Set, conn, calls
<1>6. OwnInv'
  BY SMTT(30) DEF Base, TypeOK, Clean, OwnInv, Owns, After, AloneInv, Making, Keys, DelConntrack, Set, conn, calls
<1> QED
  BY <1>1, <1>2, <1>3, <1>4, <1>5, <1>6 DEF Clean

LEMMA EstablishedTimeoutClean == ASSUME Base, Clean, NEW c \in Cts, EstablishedTimeout(c) PROVE Clean'
<1> USE ConstantFacts
<1>1. AloneInv'
  BY SMTT(30) DEF Base, TypeOK, Clean, AloneInv, Making, EstablishedTimeout, ArmsAgain, Replaced, Set, conn, calls
<1>2. FreeInv'
  BY SMTT(30) DEF Base, TypeOK, Clean, FreeInv, Early, AloneInv, Making, EarlyInv, EstablishedTimeout, ArmsAgain, Replaced, Set, conn, calls
<1>3. ArmedInv'
  BY SMTT(30) DEF Base, TypeOK, Clean, ArmedInv, Armed, Holding, HasTuple, OneTimer, TupleInv, KeysInv, AloneInv, Making, FreeInv, Early, EarlyInv, Keys, EstablishedTimeout, ArmsAgain, Replaced, Set, conn, calls
<1>4. LiveInv'
  BY SMTT(30) DEF Base, TypeOK, Clean, LiveInv, After, Keys, AloneInv, Making, EarlyInv, Early, EstablishedTimeout, ArmsAgain, Replaced, Set, conn, calls
<1>5. ApartInv'
  BY SMTT(30) DEF Base, TypeOK, Clean, ApartInv, After, Keys, AloneInv, Making, EarlyInv, Early, EstablishedTimeout, ArmsAgain, Replaced, Set, conn, calls
<1>6. OwnInv'
  BY SMTT(30) DEF Base, TypeOK, Clean, OwnInv, Owns, After, AloneInv, Making, Keys, EstablishedTimeout, ArmsAgain, Replaced, Set, conn, calls
<1> QED
  BY <1>1, <1>2, <1>3, <1>4, <1>5, <1>6 DEF Clean

LEMMA ArmDelClean == ASSUME Base, Clean, NEW c \in Cts, ArmDel(c) PROVE Clean'
<1> USE ConstantFacts
<1>1. AloneInv'
  BY SMTT(30) DEF Base, TypeOK, Clean, AloneInv, Making, ArmDel, Replaced, Set, conn, calls
<1>2. FreeInv'
  BY SMTT(30) DEF Base, TypeOK, Clean, FreeInv, Early, AloneInv, Making, EarlyInv, ArmDel, Replaced, Set, conn, calls
<1>3. ArmedInv'
  BY SMTT(30) DEF Base, TypeOK, Clean, ArmedInv, Armed, Holding, HasTuple, OneTimer, TupleInv, KeysInv, AloneInv, Making, FreeInv, Early, EarlyInv, Keys, ArmDel, Replaced, Set, conn, calls
<1>4. LiveInv'
  BY SMTT(30) DEF Base, TypeOK, Clean, LiveInv, After, Keys, AloneInv, Making, EarlyInv, Early, ArmDel, Replaced, Set, conn, calls
<1>5. ApartInv'
  BY SMTT(30) DEF Base, TypeOK, Clean, ApartInv, After, Keys, AloneInv, Making, EarlyInv, Early, ArmDel, Replaced, Set, conn, calls
<1>6. OwnInv'
  BY SMTT(30) DEF Base, TypeOK, Clean, OwnInv, Owns, After, AloneInv, Making, Keys, ArmDel, Replaced, Set, conn, calls
<1> QED
  BY <1>1, <1>2, <1>3, <1>4, <1>5, <1>6 DEF Clean

-----------------------------------------------------------------------------
LEMMA InitInv == Init => IInv
<1> SUFFICES ASSUME Init PROVE IInv
  OBVIOUS
<1> USE ConstantFacts
<1>1. TypeOK
  BY DEF Init, TypeOK
<1>2. /\ \A c \in Cts : ~ HasTuple(c) /\ ~ Armed(c) /\ timer[c] = "none" /\ cb[c] = "none"
      /\ \A x \in Callers : pc[x] = "idle" /\ \A t \in Tuples : table[t] = None
  BY DEF Init, HasTuple, Armed, Holding
<1>3. TupleInv /\ KeysInv /\ KeepInv /\ MakeInv /\ EarlyInv /\ NilInv /\ StopInv /\ OneTimer /\ StatusInv /\ AfterInv
  BY <1>2 DEF Init, TupleInv, KeysInv, KeepInv, MakeInv, EarlyInv, NilInv, StopInv, OneTimer, StatusInv, AfterInv,
              Making, Early, After
<1>4. Clean
  BY <1>2 DEF Init, Clean, AloneInv, FreeInv, ArmedInv, LiveInv, ApartInv, OwnInv, Making, Early, After
<1>5. StopsATimer
  BY DEF Init, StopsATimer
<1> QED
  BY <1>1, <1>3, <1>4, <1>5 DEF IInv, Base

LEMMA BaseStep == ASSUME Base, [Next]_vars PROVE Base'
<1>1. ASSUME NEW x \in Callers, Translate(x) PROVE Base'
  BY <1>1, FindConntrackBase, GetUniqueTupleBase, CtConfirmBase, DoNatNewBase, ArmNewBase, DoNatBase, CountBase,
     LoadBase, StopBase, SetEstablishedBase, ArmEstablishedBase DEF Translate
<1>2. ASSUME NEW c \in Cts, Timer(c) PROVE Base'
  BY <1>2, ExpireBase, MarkDelBase, DelConntrackBase, EstablishedTimeoutBase, ArmDelBase DEF Timer
<1>3. CASE UNCHANGED vars
  BY <1>3 DEF vars, conn, calls, Base, TypeOK, TupleInv, KeysInv, KeepInv, MakeInv, EarlyInv, NilInv, StopInv,
              OneTimer, StatusInv, AfterInv, HasTuple, Keys, Armed, Making
<1> QED
  BY <1>1, <1>2, <1>3 DEF Next

LEMMA CleanStep == ASSUME Base, Clean, [Next]_vars, ~ raced' PROVE Clean'
<1>1. ASSUME NEW x \in Callers, Translate(x) PROVE Clean'
  BY <1>1, FindConntrackClean, GetUniqueTupleClean, CtConfirmClean, DoNatNewClean, ArmNewClean, DoNatClean, CountClean,
     LoadClean, StopClean, SetEstablishedClean, ArmEstablishedClean DEF Translate
<1>2. ASSUME NEW c \in Cts, Timer(c) PROVE Clean'
  BY <1>2, ExpireClean, MarkDelClean, DelConntrackClean, EstablishedTimeoutClean, ArmDelClean DEF Timer
<1>3. CASE UNCHANGED vars
  BY <1>3 DEF vars, conn, calls, Clean, AloneInv, FreeInv, ArmedInv, LiveInv, ApartInv, OwnInv, Owns, HasTuple,
              Keys, Armed, Making
<1> QED
  BY <1>1, <1>2, <1>3 DEF Next

(* Once raced, for ever; and the process ends at a timer that is not there *)
(* only in a call that has overtaken another.                              *)
LEMMA RacedStays == ASSUME Base, [Next]_vars PROVE raced => raced'
BY DEF Next, Translate, Timer, vars, conn, calls, FindConntrack, GetUniqueTuple, CtConfirm, DoNatNew, ArmNew, DoNat,
       Count, Load, Stop, SetEstablished, ArmEstablished, Expire, MarkDel, DelConntrack, EstablishedTimeout, ArmDel

LEMMA DownIs == ASSUME Base, [Next]_vars, down', ~ down PROVE \E x \in Callers : Load(x) /\ timer[ct[x]] = "nil"
<1>1. ASSUME NEW x \in Callers, Translate(x) PROVE Load(x) /\ timer[ct[x]] = "nil"
  BY <1>1 DEF Translate, FindConntrack, GetUniqueTuple, CtConfirm, DoNatNew, ArmNew, DoNat,
              Count, Load, Stop, SetEstablished, ArmEstablished
<1>2. ASSUME NEW c \in Cts, Timer(c) PROVE FALSE
  BY <1>2 DEF Timer, Expire, MarkDel, DelConntrack, EstablishedTimeout, ArmDel
<1>3. ASSUME UNCHANGED vars PROVE FALSE
  <2>1. down' = down
    BY <1>3 DEF vars
  <2> QED
    BY <2>1
<1> QED
  BY <1>1, <1>2, <1>3 DEF Next

LEMMA StepInv == IInv /\ [Next]_vars => IInv'
<1> SUFFICES ASSUME IInv, [Next]_vars PROVE IInv'
  OBVIOUS
<1>1. Base /\ Base'
  BY BaseStep DEF IInv
<1>2. ~ raced' => Clean'
  BY <1>1, CleanStep, RacedStays DEF IInv
<1>3. StopsATimer'
  <2> SUFFICES ASSUME down' PROVE raced'
    BY DEF StopsATimer
  <2>1. CASE down
    BY <1>1, <2>1, RacedStays DEF IInv, StopsATimer
  <2>2. CASE ~ down
    <3>1. PICK x \in Callers : Load(x) /\ timer[ct[x]] = "nil"
      BY <1>1, <2>2, DownIs
    <3>2. pc[x] = "load" /\ ct[x] \in Cts
      BY <1>1, <3>1 DEF Load, Base, TypeOK
    <3>3. PICK y \in Callers : ct[y] = ct[x] /\ Making(y)
      BY <1>1, <3>1, <3>2 DEF Base, NilInv
    <3>4. y # x
      BY <3>2, <3>3 DEF Making
    <3>5. raced
      BY <3>2, <3>3, <3>4 DEF IInv, Clean, AloneInv
    <3> QED
      BY <1>1, <3>5, RacedStays
  <2> QED
    BY <2>1, <2>2
<1> QED
  BY <1>1, <1>2, <1>3 DEF IInv

LEMMA InvIsInvariant == Spec => []IInv
BY InitInv, StepInv, PTL DEF Spec
-----------------------------------------------------------------------------
(* snat.go:108: who has a connection in hand, has its tuples. *)
THEOREM TypeCorrect == Spec => []TypeOK
<1>1. IInv => TypeOK
  BY DEF IInv, Base
<1> QED
  BY <1>1, InvIsInvariant, PTL

(* conntrack.go:124 and snat.go:351: as long as no call of DoNat that      *)
(* makes a connection has overlapped another call, whatever the timers do: *)
(* no port stays taken by a connection that is gone, and no entry of a     *)
(* connection is overwritten by another.                                   *)
THEOREM BothOrNone == Spec => []BothWays
<1>1. IInv => BothWays
  <2> SUFFICES ASSUME IInv, ~ raced, NEW c \in Cts
               PROVE  {t \in Tuples : table[t] = c} \in {{}, Keys(c)}
    BY DEF BothWays
  <2>1. CASE \A t \in Tuples : table[t] # c
    BY <2>1
  <2>2. CASE \E t \in Tuples : table[t] = c
    <3>1. /\ tuple[c].orig \in Tuples /\ tuple[c].reply \in Tuples
          /\ table[tuple[c].orig] = c /\ table[tuple[c].reply] = c
      BY <2>2 DEF IInv, Base, Clean, KeysInv, KeepInv, ArmedInv, TupleInv
    <3>2. \A t \in Tuples : table[t] = c => t \in Keys(c)
      BY DEF IInv, Base, KeysInv
    <3>3. {t \in Tuples : table[t] = c} = Keys(c)
      BY <3>1, <3>2 DEF Keys
    <3> QED
      BY <3>3
  <2> QED
    BY <2>1, <2>2
<1> QED
  BY <1>1, InvIsInvariant, PTL

(* snat.go:279: under the same condition, what comes back to a port of     *)
(* snatIP goes to the host whose packet was the last to leave by it, for   *)
(* any number of hosts, ports and callers, and whatever direction the      *)
(* first packet of a connection is taken for.                              *)
THEOREM AnswersTheRightHost == Spec => []RightHost
<1>1. IInv => RightHost
  <2> SUFFICES ASSUME IInv, NEW x \in Callers, ~ raced, To(x) # None, pkt[x][1] = Snat
               PROVE  owner[pkt[x][2]] \in {To(x), None}
    BY DEF RightHost
  <2>1. pc[x] = "count" /\ pkt[x] # tuple[ct[x]].orig /\ To(x) = tuple[ct[x]].orig /\ pc[x] \in After
    BY DEF To, IsReply, After
  <2>2. pkt[x] = tuple[ct[x]].reply
    BY <2>1 DEF IInv, Base, AfterInv, Keys
  <2>3. Owns(ct[x])
    BY <2>1 DEF IInv, Clean, OwnInv
  <2> QED
    BY <2>1, <2>2, <2>3 DEF Owns
<1> QED
  BY <1>1, InvIsInvariant, PTL

(* snat.go:221 and 251: a connection in the table is not forgotten there,  *)
(* whoever calls DoNat and when.                                           *)
THEOREM NeverForgotten == Spec => []HasTimer
<1>1. IInv => HasTimer
  <2> SUFFICES ASSUME IInv, NEW c \in Cts, NEW t \in Tuples, table[t] = c
               PROVE  \/ timer[c] \in {"del", "est"} \/ cb[c] # "none"
                      \/ \E x \in Callers : ct[x] = c /\ pc[x] \in {"out", "arm", "status", "est"}
    BY DEF HasTimer
  <2> QED
    BY DEF IInv, Base, KeepInv, Armed, Holding
<1> QED
  BY <1>1, InvIsInvariant, PTL

(* conntrack.go:213 and snat.go:260: no connection has two timers, whoever *)
(* calls DoNat and when.                                                   *)
THEOREM NeverTwo == Spec => []OneTimer
<1>1. IInv => OneTimer
  BY DEF IInv, Base
<1> QED
  BY <1>1, InvIsInvariant, PTL

(* The table is consistent as long as no call that makes a connection      *)
(* overlaps another, the process ends at a timer that is not there only if *)
(* one has, and in any case what is in the table will be removed.          *)
THEOREM TableCorrect == Spec => []TableSafe
<1>1. TypeOK /\ BothWays /\ HasTimer /\ OneTimer /\ StopsATimer => TableSafe
  BY DEF TableSafe
<1>2. IInv => StopsATimer
  BY DEF IInv
<1> QED
  BY <1>1, <1>2, InvIsInvariant, TypeCorrect, BothOrNone, NeverForgotten, NeverTwo, PTL
-----------------------------------------------------------------------------
(* Reassembly: the fragments of a datagram.                                *)

LEMMA SmallestIn ==
  ASSUME NEW T, T \subseteq Nat, T # {}
  PROVE  \E x \in T : \A y \in T : x <= y
<1> DEFINE R == {s \in Nat \X Nat : s[1] < s[2]}
<1>1. IsWellFoundedOn(R, Nat)
  BY NatLessThanWellFounded DEF OpToRel
<1>2. \A x, y \in Nat : x < y => <<x, y>> \in R
  OBVIOUS
<1> HIDE DEF R
<1>3. PICK x \in T : \A y \in T : ~ (<<y, x>> \in R)
  BY <1>1, WFMin
<1>4. \A y \in T : x \in Nat /\ y \in Nat /\ ~ (y < x)
  BY <1>2, <1>3
<1>5. QED
  BY <1>4

Frags(C) == UNION {Frag(C)!Pieces(c) : c \in C}

Datagram(c) == c \subseteq Nat /\ 0 \in c /\ \E n \in c \ {0} : \A x \in c : x <= n

LEMMA FragConstants ==
  ASSUME NEW C, Frag(C)!FragmentAssumption
  PROVE  MaxDup \in Nat /\ \A c \in C : Datagram(c)
  BY DEF Frag!FragmentAssumption, Datagram

LEMMA PieceIs ==
  ASSUME NEW C, NEW c, NEW f \in Frag(C)!Pieces(c), Datagram(c)
  PROVE  /\ f.off \in c /\ f.last \in c /\ f.off < f.last
         /\ \A x \in c : x <= f.off \/ f.last <= x
         /\ f.dgram = c /\ f.more = (\E x \in c : x > f.last)
         /\ f = [dgram |-> c, off |-> f.off, last |-> f.last, more |-> f.more]
         /\ f.off \in Nat /\ f.last \in Nat
<1>1. PICK p \in Frag(C)!Neighbours(c) : f = Frag(C)!Piece(c, p[1], p[2])
  BY DEF Frag!Pieces
<1>2. p[1] \in c /\ p[2] \in c /\ p[1] < p[2] /\ \A x \in c : x <= p[1] \/ p[2] <= x
  BY DEF Frag!Neighbours
<1>3. f = [dgram |-> c, off |-> p[1], last |-> p[2], more |-> \E x \in c : x > p[2]]
  BY <1>1 DEF Frag!Piece
<1>4. f.off = p[1] /\ f.last = p[2] /\ f.dgram = c /\ f.more = (\E x \in c : x > p[2])
  BY <1>3
<1>5. QED
  BY <1>2, <1>3, <1>4 DEF Datagram

LEMMA FragIs ==
  ASSUME NEW C, Frag(C)!FragmentAssumption, NEW f \in Frags(C)
  PROVE  f.off \in Nat /\ f.last \in Nat /\ f.off < f.last
<1>1. PICK c \in C : f \in Frag(C)!Pieces(c)
  BY DEF Frags
<1>2. Datagram(c)
  BY FragConstants
<1>3. QED
  BY <1>1, <1>2, PieceIs

(* Of one datagram, two fragments with a byte in common are the same.      *)
LEMMA SameByte ==
  ASSUME NEW C, NEW c, Datagram(c), NEW f \in Frag(C)!Pieces(c), NEW g \in Frag(C)!Pieces(c),
         f.off < g.last, g.off < f.last
  PROVE  f = g
<1>1. /\ f.off \in c /\ f.last \in c /\ f.off \in Nat /\ f.last \in Nat /\ f.off < f.last
      /\ \A x \in c : x <= f.off \/ f.last <= x
  BY PieceIs
<1>2. /\ g.off \in c /\ g.last \in c /\ g.off \in Nat /\ g.last \in Nat /\ g.off < g.last
      /\ \A x \in c : x <= g.off \/ g.last <= x
  BY PieceIs
<1>3. f.off = g.off /\ f.last = g.last
  BY <1>1, <1>2
<1>4. f.more = g.more
  <2>1. f.more = \E x \in c : x > f.last
    BY PieceIs
  <2>2. g.more = \E x \in c : x > g.last
    BY PieceIs
  <2>3. QED
    BY <1>3, <2>1, <2>2
<1>5. /\ f = [dgram |-> c, off |-> f.off, last |-> f.last, more |-> f.more]
      /\ g = [dgram |-> c, off |-> g.off, last |-> g.last, more |-> g.more]
  BY PieceIs
<1>6. QED
  BY <1>3, <1>4, <1>5

(* Every byte of a datagram is in a fragment.                              *)
LEMMA ByteIsIn ==
  ASSUME NEW C, NEW c, Datagram(c), NEW b \in Nat, NEW n \in c, b < n
  PROVE  \E f \in Frag(C)!Pieces(c) : f.off <= b /\ b < f.last
<1>1. c \subseteq Nat /\ 0 \in c
  BY DEF Datagram
<1>2. PICK e \in c : b < e /\ \A x \in c : b < x => e <= x
  <2> DEFINE T == {x \in c : b < x}
  <2>1. T \subseteq Nat /\ T # {}
    BY <1>1
  <2>2. PICK x \in T : \A y \in T : x <= y
    BY <2>1, SmallestIn
  <2>3. QED
    BY <2>2
<1>3. PICK a \in c : a <= b /\ \A x \in c : x <= b => x <= a
  <2> DEFINE T == {b - x : x \in {y \in c : y <= b}}
  <2>1. T \subseteq Nat /\ b - 0 \in T
    BY <1>1
  <2> HIDE DEF T
  <2>2. PICK d \in T : \A y \in T : d <= y
    BY <2>1, SmallestIn
  <2>3. PICK a \in c : a <= b /\ d = b - a
    BY <2>2 DEF T
  <2>4. ASSUME NEW x \in c, x <= b PROVE x <= a
    <3>1. b - x \in T
      BY <2>4 DEF T
    <3>2. b - a <= b - x
      BY <2>2, <2>3, <3>1
    <3>3. QED
      BY <1>1, <2>3, <2>4, <3>2
  <2>5. QED
    BY <2>3, <2>4
<1>4. a \in Nat /\ e \in Nat /\ a < e /\ \A x \in c : x <= a \/ e <= x
  BY <1>1, <1>2, <1>3
<1>5. <<a, e>> \in Frag(C)!Neighbours(c)
  BY <1>4 DEF Frag!Neighbours
<1>6. Frag(C)!Piece(c, a, e) \in Frag(C)!Pieces(c)
  <2>1. <<a, e>>[1] = a /\ <<a, e>>[2] = e
    OBVIOUS
  <2>2. QED
    BY <1>5, <2>1 DEF Frag!Pieces
<1>7. Frag(C)!Piece(c, a, e).off = a /\ Frag(C)!Piece(c, a, e).last = e
  BY DEF Frag!Piece
<1>8. QED
  BY <1>2, <1>3, <1>6, <1>7

-----------------------------------------------------------------------------
(* Reassembly: lists of fragments.                                         *)

Ordered(s) == \A i, j \in DOMAIN s : i < j => s[i].last <= s[j].off

FragList(C, s) == s \in Seq(Frags(C)) /\ Ordered(s)

End(s) == IF s = <<>> THEN 0 ELSE s[Len(s)].last

Bytes(s) == {b \in Nat : \E i \in DOMAIN s : s[i].off <= b /\ b < s[i].last}

Inserted(s, t, i, f) ==
  /\ Len(t) = Len(s) + 1
  /\ \A j \in 1..i : t[j] = s[j]
  /\ t[i + 1] = f
  /\ \A j \in i+1..Len(s) : t[j + 1] = s[j]

Fits(s, i, f) ==
  /\ \A j \in 1..i : s[j].last <= f.off
  /\ \A j \in i+1..Len(s) : f.last <= s[j].off

LEMMA ListIs ==
  ASSUME NEW C, Frag(C)!FragmentAssumption, NEW s, FragList(C, s)
  PROVE  /\ Len(s) \in Nat /\ DOMAIN s = 1..Len(s) /\ (s = <<>> <=> Len(s) = 0)
         /\ \A i \in 1..Len(s) : /\ s[i] \in Frags(C) /\ s[i].off \in Nat /\ s[i].last \in Nat
                                 /\ s[i].off < s[i].last
         /\ \A i, j \in 1..Len(s) : i < j => s[i].last <= s[j].off
<1>1. s \in Seq(Frags(C)) /\ Ordered(s)
  BY DEF FragList
<1>2. Len(s) \in Nat /\ DOMAIN s = 1..Len(s) /\ (s = <<>> <=> Len(s) = 0)
  BY <1>1
<1>3. \A i \in 1..Len(s) : s[i] \in Frags(C)
  BY <1>1
<1>4. QED
  BY <1>1, <1>2, <1>3, FragIs DEF Ordered

LEMMA EndIs ==
  ASSUME NEW C, Frag(C)!FragmentAssumption, NEW s, FragList(C, s)
  PROVE  End(s) \in Nat /\ \A i \in 1..Len(s) : s[i].last <= End(s)
<1>1. /\ Len(s) \in Nat /\ (s = <<>> <=> Len(s) = 0)
      /\ \A i \in 1..Len(s) : s[i].off \in Nat /\ s[i].last \in Nat /\ s[i].off < s[i].last
      /\ \A i, j \in 1..Len(s) : i < j => s[i].last <= s[j].off
  BY ListIs
<1>2. CASE s = <<>>
  BY <1>1, <1>2 DEF End
<1>3. CASE s # <<>>
  <2>1. Len(s) \in 1..Len(s) /\ End(s) = s[Len(s)].last
    BY <1>1, <1>3 DEF End
  <2>2. ASSUME NEW i \in 1..Len(s), i # Len(s) PROVE s[i].last <= s[Len(s)].last
    <3>1. s[i].last <= s[Len(s)].off
      BY <1>1, <2>1, <2>2
    <3>2. QED
      BY <1>1, <2>1, <3>1
  <2>3. QED
    BY <1>1, <2>1, <2>2
<1>4. QED
  BY <1>2, <1>3

LEMMA BytesAre ==
  ASSUME NEW C, Frag(C)!FragmentAssumption, NEW s, FragList(C, s)
  PROVE  /\ Bytes(s) \subseteq 0..(End(s) - 1)
         /\ IsFiniteSet(Bytes(s)) /\ Cardinality(Bytes(s)) \in Nat
         /\ Bytes(s) = {b \in 0..(End(s) - 1) : \E i \in DOMAIN s : s[i].off <= b /\ b < s[i].last}
<1>1. End(s) \in Nat /\ \A i \in DOMAIN s : s[i].last \in Nat /\ s[i].last <= End(s)
  BY EndIs, ListIs
<1>2. Bytes(s) \subseteq 0..(End(s) - 1)
  BY <1>1 DEF Bytes
<1>3. IsFiniteSet(0..(End(s) - 1))
  BY <1>1, FS_Interval
<1>4. IsFiniteSet(Bytes(s))
  BY <1>2, <1>3, FS_Subset
<1>5. Bytes(s) = {b \in 0..(End(s) - 1) : \E i \in DOMAIN s : s[i].off <= b /\ b < s[i].last}
  BY <1>1, <1>2 DEF Bytes
<1>6. QED
  BY <1>2, <1>4, <1>5, FS_CardinalityType

LEMMA ElementsOf ==
  ASSUME NEW C, Frag(C)!FragmentAssumption, NEW s, FragList(C, s), NEW t, DOMAIN t = 1..Len(t),
         NEW f, NEW i \in 0..Len(s), Inserted(s, t, i, f)
  PROVE  /\ \A j \in 1..Len(t) : t[j] = f \/ \E k \in 1..Len(s) : t[j] = s[k]
         /\ \A k \in 1..Len(s) : \E j \in 1..Len(t) : t[j] = s[k]
         /\ \E j \in 1..Len(t) : t[j] = f
<1>1. Len(s) \in Nat
  BY ListIs
<1>2. /\ Len(t) = Len(s) + 1
      /\ \A j \in 1..i : t[j] = s[j]
      /\ t[i + 1] = f
      /\ \A j \in i+1..Len(s) : t[j + 1] = s[j]
  BY DEF Inserted
<1>3. ASSUME NEW j \in 1..Len(t) PROVE t[j] = f \/ \E k \in 1..Len(s) : t[j] = s[k]
  <2>1. CASE j <= i
    BY <1>1, <1>2, <2>1
  <2>2. CASE j = i + 1
    BY <1>2, <2>2
  <2>3. CASE j > i + 1
    <3>1. j - 1 \in i+1..Len(s) /\ j - 1 \in 1..Len(s) /\ (j - 1) + 1 = j
      BY <1>1, <1>2, <2>3
    <3>2. QED
      BY <1>2, <3>1
  <2>4. QED
    BY <1>1, <1>2, <2>1, <2>2, <2>3
<1>4. ASSUME NEW k \in 1..Len(s) PROVE \E j \in 1..Len(t) : t[j] = s[k]
  <2>1. CASE k <= i
    BY <1>1, <1>2, <2>1
  <2>2. CASE k > i
    <3>1. k + 1 \in 1..Len(t) /\ t[k + 1] = s[k]
      BY <1>1, <1>2, <2>2
    <3>2. QED
      BY <3>1
  <2>3. QED
    BY <1>1, <2>1, <2>2
<1>5. i + 1 \in 1..Len(t)
  BY <1>1, <1>2
<1>6. QED
  BY <1>2, <1>3, <1>4, <1>5

LEMMA TakenAre ==
  ASSUME NEW C, Frag(C)!FragmentAssumption, NEW s, FragList(C, s), NEW t \in Seq(Frags(C)),
         NEW f, NEW i \in 0..Len(s), Inserted(s, t, i, f)
  PROVE  /\ \A j \in 1..Len(t) : t[j] = f \/ \E k \in 1..Len(s) : t[j] = s[k]
         /\ \A k \in 1..Len(s) : \E j \in 1..Len(t) : t[j] = s[k]
         /\ \E j \in 1..Len(t) : t[j] = f
<1>1. DOMAIN t = 1..Len(t)
  OBVIOUS
<1>2. QED
  BY <1>1, ElementsOf

LEMMA InsertKeeps ==
  ASSUME NEW C, Frag(C)!FragmentAssumption, NEW s, FragList(C, s), NEW t \in Seq(Frags(C)),
         NEW f \in Frags(C), NEW i \in 0..Len(s), Inserted(s, t, i, f), Fits(s, i, f)
  PROVE  FragList(C, t)
<1>1. /\ Len(s) \in Nat /\ Len(t) \in Nat /\ DOMAIN t = 1..Len(t)
      /\ \A j, k \in 1..Len(s) : j < k => s[j].last <= s[k].off
  BY ListIs
<1>2. /\ Len(t) = Len(s) + 1
      /\ \A j \in 1..i : t[j] = s[j] /\ s[j].last <= f.off
      /\ t[i + 1] = f
      /\ \A j \in i+1..Len(s) : t[j + 1] = s[j] /\ f.last <= s[j].off
  BY DEF Inserted, Fits
<1>3. \A j \in i+2..Len(t) :
        j - 1 \in i+1..Len(s) /\ j - 1 \in 1..Len(s) /\ t[j] = s[j - 1] /\ f.last <= s[j - 1].off
  <2>1. SUFFICES ASSUME NEW j \in i+2..Len(t)
                 PROVE  j - 1 \in i+1..Len(s) /\ j - 1 \in 1..Len(s) /\ t[j] = s[j - 1] /\ f.last <= s[j - 1].off
    OBVIOUS
  <2>2. j - 1 \in i+1..Len(s) /\ j - 1 \in 1..Len(s) /\ (j - 1) + 1 = j
    BY <1>1, <1>2
  <2>3. QED
    BY <1>2, <2>2
<1>4. ASSUME NEW j \in 1..Len(t), NEW k \in 1..Len(t), j < k
      PROVE  t[j].last <= t[k].off
  <2>1. CASE k <= i
    <3>1. j \in 1..i /\ k \in 1..i /\ j \in 1..Len(s) /\ k \in 1..Len(s)
      BY <1>1, <1>4, <2>1
    <3>2. QED
      BY <1>1, <1>2, <1>4, <3>1
  <2>2. CASE k = i + 1
    <3>1. j \in 1..i
      BY <1>4, <2>2
    <3>2. QED
      BY <1>2, <2>2, <3>1
  <2>3. CASE k > i + 1 /\ j <= i
    <3>1. j \in 1..i /\ k \in i+2..Len(t) /\ j \in 1..Len(s) /\ j < k - 1
      BY <1>1, <2>3
    <3>2. QED
      BY <1>1, <1>2, <1>3, <3>1
  <2>4. CASE k > i + 1 /\ j = i + 1
    <3>1. k \in i+2..Len(t)
      BY <1>1, <2>4
    <3>2. QED
      BY <1>2, <1>3, <2>4, <3>1
  <2>5. CASE k > i + 1 /\ j > i + 1
    <3>1. k \in i+2..Len(t) /\ j \in i+2..Len(t) /\ j - 1 < k - 1
      BY <1>1, <1>4, <2>5
    <3>2. QED
      BY <1>1, <1>3, <3>1
  <2>6. QED
    BY <2>1, <2>2, <2>3, <2>4, <2>5
<1>5. QED
  BY <1>1, <1>4 DEF FragList, Ordered

LEMMA InsertCounts ==
  ASSUME NEW C, Frag(C)!FragmentAssumption, NEW s, FragList(C, s), NEW t, FragList(C, t),
         NEW f \in Frags(C), NEW i \in 0..Len(s), Inserted(s, t, i, f), Fits(s, i, f)
  PROVE  Cardinality(Bytes(t)) = Cardinality(Bytes(s)) + (f.last - f.off)
<1> DEFINE I == f.off..(f.last - 1)
<1>1. f.off \in Nat /\ f.last \in Nat /\ f.off < f.last
  BY FragIs
<1>2. Len(s) \in Nat /\ DOMAIN s = 1..Len(s)
  BY ListIs
<1>3. DOMAIN t = 1..Len(t)
  BY ListIs
<1>4. /\ \A j \in 1..Len(t) : t[j] = f \/ \E k \in 1..Len(s) : t[j] = s[k]
      /\ \A k \in 1..Len(s) : \E j \in 1..Len(t) : t[j] = s[k]
      /\ \E j \in 1..Len(t) : t[j] = f
  <2>1. t \in Seq(Frags(C))
    BY DEF FragList
  <2>2. QED
    BY <2>1, TakenAre
<1>5. Bytes(t) = Bytes(s) \cup I
  <2>1. ASSUME NEW b \in Bytes(t) PROVE b \in Bytes(s) \cup I
    <3>1. PICK j \in 1..Len(t) : t[j].off <= b /\ b < t[j].last /\ b \in Nat
      BY <1>3 DEF Bytes
    <3>2. CASE t[j] = f
      <4>1. f.off <= b /\ b < f.last
        BY <3>1, <3>2
      <4>2. QED
        BY <1>1, <3>1, <4>1
    <3>3. CASE t[j] # f
      <4>1. PICK k \in 1..Len(s) : t[j] = s[k]
        BY <1>4, <3>3
      <4>2. s[k].off <= b /\ b < s[k].last /\ k \in DOMAIN s
        BY <1>2, <3>1, <4>1
      <4>3. b \in Bytes(s)
        BY <3>1, <4>2 DEF Bytes
      <4>4. QED
        BY <4>3
    <3>4. QED
      BY <3>2, <3>3
  <2>2. ASSUME NEW b \in Bytes(s) PROVE b \in Bytes(t)
    <3>1. PICK k \in 1..Len(s) : s[k].off <= b /\ b < s[k].last /\ b \in Nat
      BY <1>2 DEF Bytes
    <3>2. PICK j \in 1..Len(t) : t[j] = s[k]
      BY <1>4
    <3>3. t[j].off <= b /\ b < t[j].last /\ j \in DOMAIN t
      BY <1>3, <3>1, <3>2
    <3>4. QED
      BY <3>1, <3>3 DEF Bytes
  <2>3. ASSUME NEW b \in I PROVE b \in Bytes(t)
    <3>1. b \in Nat /\ f.off <= b /\ b < f.last
      BY <1>1
    <3>2. PICK j \in 1..Len(t) : t[j] = f
      BY <1>4
    <3>3. t[j].off <= b /\ b < t[j].last /\ j \in DOMAIN t
      BY <1>3, <3>1, <3>2
    <3>4. QED
      BY <3>1, <3>3 DEF Bytes
  <2> HIDE DEF I
  <2>4. QED
    BY <2>1, <2>2, <2>3
<1>6. Bytes(s) \cap I = {}
  <2>1. SUFFICES ASSUME NEW b \in Bytes(s), b \in I
                 PROVE  FALSE
    BY Zenon
  <2>2. PICK j \in 1..Len(s) : s[j].off <= b /\ b < s[j].last /\ b \in Nat
    BY <1>2 DEF Bytes
  <2>3. s[j].off \in Nat /\ s[j].last \in Nat
    BY ListIs
  <2>4. s[j].last <= f.off \/ f.last <= s[j].off
    <3>1. j \in 1..i \/ j \in i+1..Len(s)
      BY <1>2
    <3>2. QED
      BY <3>1 DEF Fits
  <2>5. f.off <= b /\ b < f.last
    BY <1>1, <2>1, <2>2
  <2>6. QED
    BY <1>1, <1>2, <2>2, <2>3, <2>4, <2>5
<1>7. IsFiniteSet(I) /\ Cardinality(I) = f.last - f.off
  <2>1. \A a, b \in Int : /\ IsFiniteSet(a..b)
                          /\ Cardinality(a..b) = IF a > b THEN 0 ELSE b - a + 1
    BY FS_Interval
  <2>2. f.off \in Int /\ f.last - 1 \in Int /\ ~ (f.off > f.last - 1)
    BY <1>1
  <2>3. IsFiniteSet(I) /\ Cardinality(I) = (f.last - 1) - f.off + 1
    BY <2>1, <2>2
  <2>4. QED
    BY <1>1, <2>3
<1>8. IsFiniteSet(Bytes(s)) /\ Cardinality(Bytes(s)) \in Nat
  BY BytesAre
<1> HIDE DEF I
<1>9. Cardinality(Bytes(s) \cup I) = Cardinality(Bytes(s)) + Cardinality(I) - Cardinality({})
  BY <1>6, <1>7, <1>8, FS_Union
<1>10. Cardinality({}) = 0
  BY FS_EmptySet
<1>11. QED
  BY <1>1, <1>5, <1>7, <1>8, <1>9, <1>10

(* A list that has as many bytes as its end says has no gap.               *)
LEMMA FullList ==
  ASSUME NEW C, Frag(C)!FragmentAssumption, NEW s, FragList(C, s),
         s # <<>>, Cardinality(Bytes(s)) = End(s)
  PROVE  /\ \A b \in 0..(End(s) - 1) : \E i \in 1..Len(s) : s[i].off <= b /\ b < s[i].last
         /\ s[1].off = 0 /\ \A i \in 1..Len(s) - 1 : s[i].last = s[i + 1].off
<1>1. Len(s) \in Nat /\ Len(s) # 0 /\ DOMAIN s = 1..Len(s)
  BY ListIs
<1>2. \A i \in 1..Len(s) : s[i].off \in Nat /\ s[i].last \in Nat /\ s[i].off < s[i].last
  BY ListIs
<1>3. \A i, j \in 1..Len(s) : i < j => s[i].last <= s[j].off
  BY ListIs
<1>4. PICK n \in Nat : n = End(s)
  BY EndIs
<1>5. \A i \in 1..Len(s) : s[i].last <= n
  BY <1>4, EndIs
<1>6. IsFiniteSet(0..(n - 1)) /\ Cardinality(0..(n - 1)) = n
  <2>1. \A a, b \in Int : /\ IsFiniteSet(a..b)
                          /\ Cardinality(a..b) = IF a > b THEN 0 ELSE b - a + 1
    BY FS_Interval
  <2>2. 0 \in Int /\ n - 1 \in Int /\ (0 > n - 1 <=> n = 0)
    OBVIOUS
  <2>3. IsFiniteSet(0..(n - 1)) /\ Cardinality(0..(n - 1)) = IF 0 > n - 1 THEN 0 ELSE (n - 1) - 0 + 1
    BY <2>1, <2>2
  <2>4. QED
    BY <2>2, <2>3
<1>7. Bytes(s) = 0..(n - 1)
  <2> DEFINE T == 0..(n - 1)
  <2>1. Bytes(s) \in SUBSET T
    BY <1>4, BytesAre
  <2>2. IsFiniteSet(T) /\ Cardinality(Bytes(s)) = Cardinality(T)
    BY <1>4, <1>6
  <2> HIDE DEF T
  <2>3. Bytes(s) = T
    BY <2>1, <2>2, FS_Subset
  <2>4. QED
    BY <2>3 DEF T
<1>8. ASSUME NEW b \in 0..(n - 1) PROVE \E i \in 1..Len(s) : s[i].off <= b /\ b < s[i].last
  <2>1. b \in Bytes(s)
    BY <1>7
  <2>2. QED
    BY <1>1, <2>1 DEF Bytes
<1>9. s[1].off = 0
  <2>1. 1 \in 1..Len(s)
    BY <1>1
  <2>2. 0 \in 0..(n - 1)
    <3>1. s[1].off \in Nat /\ s[1].last \in Nat /\ s[1].off < s[1].last /\ s[1].last <= n
      BY <1>2, <1>5, <2>1
    <3>2. QED
      BY <3>1
  <2>3. PICK i \in 1..Len(s) : s[i].off <= 0
    BY <1>8, <2>2
  <2>4. i = 1 \/ (1 < i /\ s[1].last <= s[i].off)
    BY <1>1, <1>3, <2>1
  <2>5. s[1].off \in Nat /\ s[1].last \in Nat /\ s[1].off < s[1].last /\ s[i].off \in Nat
    BY <1>2, <2>1
  <2>6. QED
    BY <2>3, <2>4, <2>5
<1>10. ASSUME NEW i \in 1..Len(s) - 1 PROVE s[i].last = s[i + 1].off
  <2>1. i \in 1..Len(s) /\ i + 1 \in 1..Len(s) /\ i < i + 1
    BY <1>1
  <2>2. PICK m \in 1..Len(s) : m = i + 1
    BY <2>1
  <2>3. s[i].last <= s[m].off
    BY <1>3, <2>1, <2>2
  <2>4. SUFFICES ASSUME s[i].last < s[m].off PROVE FALSE
    <3>1. s[i].last \in Nat /\ s[m].off \in Nat
      BY <1>2, <2>1
    <3>2. s[i].last = s[m].off
      BY <2>3, <2>4, <3>1
    <3>3. QED
      BY <2>2, <3>2
  <2>5. /\ s[i].last \in Nat /\ s[m].off \in Nat /\ s[m].last \in Nat
        /\ s[m].off < s[m].last /\ s[m].last <= n
    BY <1>2, <1>5, <2>1
  <2>6. s[i].last \in 0..(n - 1)
    BY <1>1, <1>4, <2>4, <2>5
  <2>7. PICK k \in 1..Len(s) : s[k].off <= s[i].last /\ s[i].last < s[k].last
    BY <1>8, <2>6
  <2>8. s[k].off \in Nat /\ s[k].last \in Nat /\ s[i].off \in Nat /\ s[i].off < s[i].last
    BY <1>2, <2>1
  <2>9. CASE k = i
    BY <2>5, <2>7, <2>9
  <2>10. CASE k < i
    <3>1. s[k].last <= s[i].off
      BY <1>3, <2>1, <2>10
    <3>2. QED
      BY <1>1, <2>5, <2>7, <2>8, <3>1
  <2>11. CASE k = m
    BY <2>4, <2>5, <2>7, <2>11
  <2>12. CASE k > m
    <3>1. s[m].last <= s[k].off
      BY <1>3, <2>12
    <3>2. QED
      BY <1>1, <2>4, <2>5, <2>7, <2>8, <3>1
  <2>13. k = i \/ k < i \/ k = m \/ k > m
    BY <1>1, <2>1, <2>2
  <2>14. QED
    BY <2>9, <2>10, <2>11, <2>12, <2>13
<1>11. QED
  BY <1>4, <1>8, <1>9, <1>10

LEMMA LargestIn ==
  ASSUME NEW n \in Nat, NEW T, T \subseteq 1..n, T # {}
  PROVE  \E x \in T : \A y \in T : x >= y
<1> DEFINE R == {n - x : x \in T}
<1>1. R \subseteq Nat /\ R # {}
  <2>1. ASSUME NEW x \in T PROVE n - x \in Nat
    OBVIOUS
  <2>2. PICK x \in T : TRUE
    OBVIOUS
  <2>3. n - x \in R
    OBVIOUS
  <2>4. QED
    BY <2>1, <2>3
<1> HIDE DEF R
<1>2. PICK d \in R : \A y \in R : d <= y
  BY <1>1, SmallestIn
<1>3. PICK x \in T : d = n - x
  BY <1>2 DEF R
<1>4. ASSUME NEW y \in T PROVE x >= y
  <2>1. n - y \in R
    BY DEF R
  <2>2. n - x <= n - y
    BY <1>2, <1>3, <2>1
  <2>3. QED
    BY <2>2
<1>5. QED
  BY <1>4

(* The standard operators, as the instance names them.                     *)
LEMMA SameCardinality ==
  ASSUME NEW C, NEW S
  PROVE  Frag(C)!Cardinality(S) = Cardinality(S)
  BY DEF Frag!Cardinality, Cardinality, Frag!IsFiniteSet, IsFiniteSet

LEMMA LargestIs ==
  ASSUME NEW C, NEW n \in Nat, NEW T, T \subseteq 1..n, T # {}
  PROVE  Frag(C)!Max(T) \in T /\ \A y \in T : Frag(C)!Max(T) >= y
<1>1. \E x \in T : \A y \in T : x >= y
  BY LargestIn
<1>2. QED
  BY <1>1 DEF Frag!Max

LEMMA LongerOf ==
  ASSUME NEW C, NEW a \in Nat, NEW b \in Nat
  PROVE  Frag(C)!Max({a, b}) = IF a < b THEN b ELSE a
  BY DEF Frag!Max

LEMMA Joined ==
  ASSUME NEW S, NEW d \in Seq(S), NEW b \in Seq(S)
  PROVE  /\ (d \o b) \in Seq(S) /\ Len(d \o b) = Len(d) + Len(b)
         /\ \A j \in 1..Len(d) : (d \o b)[j] = d[j]
         /\ \A k \in 1..Len(b) : (d \o b)[Len(d) + k] = b[k]
  OBVIOUS

LEMMA Assembled ==
  ASSUME NEW S, NEW s \in Seq(S), NEW f \in S, NEW i \in 0..Len(s), NEW a, NEW b, NEW t,
         a \in Seq(S) /\ Len(a) = i + 1, b \in Seq(S) /\ Len(b) = Len(s) - i,
         \A j \in 1..i : a[j] = s[j], a[i + 1] = f,
         \A k \in 1..Len(s) - i : b[k] = s[i + k],
         t \in Seq(S) /\ Len(t) = Len(a) + Len(b),
         \A j \in 1..Len(a) : t[j] = a[j],
         \A k \in 1..Len(b) : t[Len(a) + k] = b[k]
  PROVE  Inserted(s, t, i, f)
<1>1. Len(s) \in Nat /\ i \in Nat
  OBVIOUS
<1>2. Len(t) = Len(s) + 1
  BY <1>1
<1>3. \A j \in 1..i : t[j] = s[j]
  BY <1>1
<1>4. t[i + 1] = f
  BY <1>1
<1>5. ASSUME NEW j \in i+1..Len(s) PROVE t[j + 1] = s[j]
  <2>1. j - i \in 1..Len(b) /\ Len(a) + (j - i) = j + 1 /\ i + (j - i) = j
    BY <1>1
  <2>2. t[j + 1] = b[j - i]
    BY <2>1
  <2>3. b[j - i] = s[j]
    BY <2>1
  <2>4. QED
    BY <2>2, <2>3
<1>6. QED
  BY <1>2, <1>3, <1>4, <1>5 DEF Inserted

LEMMA PutIn ==
  ASSUME NEW S, NEW s \in Seq(S), NEW f \in S, NEW i \in 0..Len(s)
  PROVE  LET t == SubSeq(s, 1, i) \o <<f>> \o SubSeq(s, i + 1, Len(s))
         IN  t \in Seq(S) /\ Inserted(s, t, i, f)
<1> DEFINE a == SubSeq(s, 1, i)
           b == SubSeq(s, i + 1, Len(s))
<1>1. a \in Seq(S) /\ Len(a) = i /\ \A j \in 1..i : a[j] = s[j]
  OBVIOUS
<1>2. b \in Seq(S) /\ Len(b) = Len(s) - i
  OBVIOUS
<1>3. \A k \in 1..Len(s) - i : b[k] = s[i + k]
  <2>1. SUFFICES ASSUME NEW k \in 1..Len(s) - i PROVE b[k] = s[i + k]
    OBVIOUS
  <2>2. b[k] = s[i + 1 + k - 1]
    OBVIOUS
  <2>3. i + 1 + k - 1 = i + k
    OBVIOUS
  <2>4. QED
    BY <2>2, <2>3
<1> HIDE DEF a, b
<1> DEFINE d == a \o <<f>>
<1>4. d \in Seq(S) /\ Len(d) = i + 1 /\ (\A j \in 1..i : d[j] = s[j]) /\ d[i + 1] = f
  BY <1>1
<1> HIDE DEF d
<1> DEFINE t == d \o b
<1>5. /\ t \in Seq(S) /\ Len(t) = Len(d) + Len(b)
      /\ \A j \in 1..Len(d) : t[j] = d[j]
      /\ \A k \in 1..Len(b) : t[Len(d) + k] = b[k]
  <2>1. d \in Seq(S) /\ b \in Seq(S)
    BY <1>2, <1>4
  <2>2. QED
    BY <2>1, Joined
<1> HIDE DEF t
<1>6. Inserted(s, t, i, f)
  BY <1>2, <1>3, <1>4, <1>5, Assembled
<1>7. QED
  BY <1>5, <1>6 DEF t, d, a, b

LEMMA PutLast ==
  ASSUME NEW S, NEW s \in Seq(S), NEW f \in S, NEW t, t = Append(s, f)
  PROVE  t \in Seq(S) /\ Inserted(s, t, Len(s), f)
  BY DEF Inserted

(* What a list is after a fragment was put in where it fits.               *)
LEMMA TakesIn ==
  ASSUME NEW C, Frag(C)!FragmentAssumption, NEW s, FragList(C, s), NEW t \in Seq(Frags(C)),
         NEW f \in Frags(C), NEW i \in 0..Len(s), Inserted(s, t, i, f), Fits(s, i, f)
  PROVE  /\ FragList(C, t) /\ t # <<>>
         /\ Cardinality(Bytes(t)) = Cardinality(Bytes(s)) + (f.last - f.off)
         /\ End(t) = IF i = Len(s) THEN f.last ELSE End(s)
         /\ i < Len(s) => f.last <= End(s)
         /\ i = Len(s) => End(s) <= f.last
<1>1. FragList(C, t)
  BY InsertKeeps
<1>2. Len(s) \in Nat /\ Len(t) = Len(s) + 1
  BY ListIs DEF Inserted
<1>3. t # <<>>
  BY <1>1, <1>2, ListIs
<1>4. End(t) = t[Len(s) + 1].last
  BY <1>2, <1>3 DEF End
<1>5. Cardinality(Bytes(t)) = Cardinality(Bytes(s)) + (f.last - f.off)
  BY <1>1, InsertCounts
<1>6. f.off \in Nat /\ f.last \in Nat /\ f.off < f.last
  BY FragIs
<1>7. CASE i = Len(s)
  <2>1. End(t) = f.last
    BY <1>4, <1>7 DEF Inserted
  <2>2. End(s) <= f.last
    <3>1. CASE s = <<>>
      BY <1>6, <3>1 DEF End
    <3>2. CASE s # <<>>
      <4>1. Len(s) \in 1..Len(s) /\ End(s) = s[Len(s)].last
        BY <1>2, <3>2, ListIs DEF End
      <4>2. s[Len(s)].last <= f.off /\ s[Len(s)].last \in Nat
        BY <1>7, <4>1, ListIs DEF Fits
      <4>3. QED
        BY <1>6, <4>1, <4>2
    <3>3. QED
      BY <3>1, <3>2
  <2>3. QED
    BY <1>1, <1>2, <1>3, <1>5, <1>7, <2>1, <2>2
<1>8. CASE i # Len(s)
  <2>1. i < Len(s) /\ Len(s) \in i+1..Len(s) /\ Len(s) \in 1..Len(s) /\ s # <<>>
    BY <1>2, <1>8, ListIs
  <2>2. End(s) = s[Len(s)].last
    BY <2>1 DEF End
  <2>3. t[Len(s) + 1] = s[Len(s)]
    BY <2>1 DEF Inserted
  <2>4. f.last <= s[Len(s)].off
    BY <2>1 DEF Fits
  <2>5. s[Len(s)].off < s[Len(s)].last /\ s[Len(s)].off \in Nat /\ s[Len(s)].last \in Nat
    BY <2>1, ListIs
  <2>6. f.last <= End(s)
    BY <1>6, <2>2, <2>4, <2>5
  <2>7. QED
    BY <1>1, <1>2, <1>3, <1>4, <1>5, <1>8, <2>1, <2>2, <2>3, <2>6
<1>9. QED
  BY <1>7, <1>8

-----------------------------------------------------------------------------
(* Reassembly: one datagram alone.                                         *)

LEMMA SpanIs ==
  ASSUME NEW C, NEW c, NEW f \in Frag(C)!Pieces(c), Datagram(c)
  PROVE  f.off \in Nat /\ f.last \in Nat /\ f.off < f.last /\ f.off \in c /\ f.last \in c
  BY PieceIs

LEMMA LastIs ==
  ASSUME NEW C, NEW c, NEW f \in Frag(C)!Pieces(c), Datagram(c)
  PROVE  f.more \/ \A x \in c : x <= f.last
<1>1. f.more = \E x \in c : x > f.last
  BY PieceIs
<1>2. f.last \in Nat /\ c \subseteq Nat
  BY PieceIs DEF Datagram
<1>3. QED
  BY <1>1, <1>2

LEMMA AloneIs ==
  ASSUME NEW C, NEW c, C = {c}, Frag(C)!FragmentAssumption
  PROVE  Datagram(c) /\ Frags(C) = Frag(C)!Pieces(c)
  BY FragConstants DEF Frags

(* The list has as many bytes as its end says, and a last fragment.        *)
Full(s) == s # <<>> /\ Cardinality(Bytes(s)) = End(s) /\ \E i \in 1..Len(s) : ~ s[i].more

HasAll(C, s) == \A p \in Frags(C) : \E i \in 1..Len(s) : s[i] = p

LEMMA WholeList ==
  ASSUME NEW C, NEW c, C = {c}, Frag(C)!FragmentAssumption, NEW s, FragList(C, s), Full(s)
  PROVE  HasAll(C, s)
<1>1. SUFFICES ASSUME NEW p \in Frags(C) PROVE \E i \in 1..Len(s) : s[i] = p
  BY DEF HasAll
<1>2. Datagram(c) /\ Frags(C) = Frag(C)!Pieces(c)
  BY AloneIs
<1>3. PICK i \in 1..Len(s) : ~ s[i].more
  BY DEF Full
<1>0. s # <<>> /\ Cardinality(Bytes(s)) = End(s)
  BY DEF Full
<1>4. PICK n \in Nat : n = End(s)
  BY EndIs
<1>5. PICK e \in Nat : e = s[i].last
  BY ListIs
<1>6. e <= n
  BY <1>4, <1>5, EndIs
<1>7. s[i] \in Frag(C)!Pieces(c)
  BY <1>2, ListIs
<1>8. c \subseteq Nat /\ \A x \in c : x <= e
  <2>1. \A x \in c : x <= s[i].last
    BY <1>2, <1>3, <1>7, LastIs
  <2>2. c \subseteq Nat
    BY <1>2 DEF Datagram
  <2>3. ASSUME NEW x \in c PROVE x <= e
    <3>1. x <= s[i].last
      BY <2>1
    <3>2. QED
      BY <1>5, <3>1
  <2>4. QED
    BY <2>2, <2>3
<1>9. PICK a \in Nat, z \in Nat : a = p.off /\ z = p.last /\ a < z /\ z \in c
  <2>1. p.off \in Nat /\ p.last \in Nat /\ p.off < p.last /\ p.last \in c
    BY <1>2, SpanIs
  <2>2. QED
    BY <2>1
<1>10. a < n /\ a \in 0..(n - 1)
  BY <1>6, <1>8, <1>9
<1>11. PICK k \in 1..Len(s) : s[k].off <= a /\ a < s[k].last
  BY <1>0, <1>4, <1>10, FullList
<1>12. s[k] \in Frag(C)!Pieces(c) /\ s[k].off \in Nat
  BY <1>2, ListIs
<1>13. s[k].off < p.last
  <2>1. PICK o \in Nat : o = s[k].off
    BY <1>12
  <2>2. QED
    BY <1>9, <1>11, <2>1
<1>14. s[k] = p
  BY <1>2, <1>9, <1>11, <1>12, <1>13, SameByte
<1>15. QED
  BY <1>14

LEMMA AllThere ==
  ASSUME NEW C, NEW c, C = {c}, Frag(C)!FragmentAssumption, NEW s, FragList(C, s),
         HasAll(C, s)
  PROVE  Full(s)
<1>1. Datagram(c) /\ Frags(C) = Frag(C)!Pieces(c)
  BY AloneIs
<1>2. PICK n \in c \ {0} : \A x \in c : x <= n
  BY <1>1 DEF Datagram
<1>3. n \in Nat /\ n > 0 /\ c \subseteq Nat
  BY <1>1, <1>2 DEF Datagram
<1>4. ASSUME NEW b \in 0..(n - 1)
      PROVE  \E i \in 1..Len(s) : s[i].off <= b /\ b < s[i].last
  <2>1. b \in Nat /\ b < n
    BY <1>3
  <2>2. PICK f \in Frag(C)!Pieces(c) : f.off <= b /\ b < f.last
    BY <1>1, <2>1, ByteIsIn
  <2>3. QED
    BY <1>1, <2>2 DEF HasAll
<1>5. ASSUME NEW i \in 1..Len(s) PROVE s[i].last \in c /\ s[i].last <= n /\ s[i].off \in Nat
  <2>1. s[i] \in Frag(C)!Pieces(c)
    BY <1>1, ListIs
  <2>2. s[i].last \in c /\ s[i].off \in Nat
    BY <1>1, <2>1, PieceIs
  <2>3. QED
    BY <1>2, <2>2
<1>6. PICK i \in 1..Len(s) : s[i].off <= n - 1 /\ n - 1 < s[i].last
  <2>1. n - 1 \in 0..(n - 1)
    BY <1>3
  <2>2. QED
    BY <1>4, <2>1
<1>7. PICK e \in Nat : e = s[i].last
  BY <1>3, <1>5
<1>8. e = n
  BY <1>3, <1>5, <1>6, <1>7
<1>9. Len(s) \in Nat /\ s # <<>> /\ DOMAIN s = 1..Len(s)
  BY ListIs
<1>10. ~ s[i].more
  <2>1. s[i] \in Frag(C)!Pieces(c)
    BY <1>1, ListIs
  <2>2. s[i].more = \E x \in c : x > s[i].last
    BY <1>1, <2>1, PieceIs
  <2>3. \A x \in c : x \in Nat /\ ~ (x > n)
    BY <1>2, <1>3
  <2>4. QED
    BY <1>7, <1>8, <2>2, <2>3
<1>11. PICK m \in Nat : m = End(s)
  BY EndIs
<1>12. m = n
  <2>1. n <= m
    BY <1>7, <1>8, <1>11, EndIs
  <2>2. Len(s) \in 1..Len(s) /\ End(s) = s[Len(s)].last
    BY <1>9, ListIs DEF End
  <2>3. m <= n
    BY <1>5, <1>11, <2>2
  <2>4. QED
    BY <1>3, <2>1, <2>3
<1>13. Bytes(s) = 0..(n - 1)
  <2>1. Bytes(s) \subseteq 0..(n - 1)
    BY <1>11, <1>12, BytesAre
  <2>2. ASSUME NEW b \in 0..(n - 1) PROVE b \in Bytes(s)
    <3>1. b \in Nat
      BY <1>3
    <3>2. PICK k \in 1..Len(s) : s[k].off <= b /\ b < s[k].last
      BY <1>4
    <3>3. QED
      BY <1>9, <3>1, <3>2 DEF Bytes
  <2>3. QED
    BY <2>1, <2>2
<1>14. Cardinality(0..(n - 1)) = n
  <2>1. \A a, b \in Int : Cardinality(a..b) = IF a > b THEN 0 ELSE b - a + 1
    BY FS_Interval
  <2>2. 0 \in Int /\ n - 1 \in Int /\ ~ (0 > n - 1)
    BY <1>3
  <2>3. Cardinality(0..(n - 1)) = (n - 1) - 0 + 1
    BY <2>1, <2>2
  <2>4. QED
    BY <1>3, <2>3
<1>15. QED
  BY <1>9, <1>10, <1>11, <1>12, <1>13, <1>14 DEF Full

-----------------------------------------------------------------------------
(* Reassembly: the inductive invariant.                                    *)

FragTypes(C) ==
  /\ net \subseteq Frags(C) /\ dups \in 0..MaxDup
  /\ FragList(C, list) /\ arrived \in Seq(Frags(C))
  /\ qLen = End(list) /\ meat = Cardinality(Bytes(list))
  /\ lastIn \in BOOLEAN /\ complete \in BOOLEAN /\ overlap \in BOOLEAN /\ padded \in BOOLEAN
  /\ out = IF complete THEN list ELSE <<>>

(* What is in the queue has arrived; a queue that is complete has as many  *)
(* bytes as its end says, and the last fragment.                           *)
FragQueue ==
  /\ list = <<>> => ~ lastIn /\ ~ complete /\ ~ overlap /\ arrived = <<>>
  /\ complete => list # <<>> /\ lastIn /\ ~ overlap /\ qLen = meat
  /\ lastIn /\ ~ overlap => \E i \in 1..Len(list) : ~ list[i].more
  /\ \A i \in 1..Len(list) : \E k \in 1..Len(arrived) : arrived[k] = list[i]

RealOverlap ==
  overlap => \E i, j \in 1..Len(arrived) :
    i # j /\ arrived[i].off < arrived[j].last /\ arrived[j].off < arrived[i].last

(* If the first fragment came first and none twice, all that has arrived   *)
(* is in the queue, and the queue misses nothing but what may still come.  *)
FirstCame == dups = 0 /\ arrived # <<>> /\ arrived[1].off = 0 /\ arrived[1].more

InTurn ==
  FirstCame =>
    /\ ~ overlap /\ list # <<>> /\ list[1].off = 0
    /\ \A k \in 1..Len(arrived) : /\ arrived[k] \notin net
                                  /\ \E i \in 1..Len(list) : list[i] = arrived[k]
    /\ (\E i \in 1..Len(list) : ~ list[i].more) => lastIn
    /\ lastIn /\ qLen = meat => complete

FragInv(C) == FragTypes(C) /\ FragQueue /\ \A c : C = {c} => RealOverlap /\ InTurn

(* A fragment that arrives is dropped, or meets another one, or is taken.  *)
Dropping(f) ==
  /\ UNCHANGED <<list, qLen, meat, lastIn, complete, overlap>>
  /\ complete \/ (list # <<>> /\ f.more /\ \A j \in 1..Len(list) : f.off < list[j].last)

Clashing(f) ==
  /\ ~ complete /\ list # <<>>
  /\ overlap' = TRUE /\ lastIn' \in BOOLEAN /\ UNCHANGED <<list, qLen, meat, complete>>
  /\ \E k \in 1..Len(list) : f.off < list[k].last /\ (~ f.more \/ list[k].off < f.last)

Taking(C, f) ==
  /\ ~ complete /\ overlap' = overlap /\ list' \in Seq(Frags(C))
  /\ \E i \in 0..Len(list) :
       Inserted(list, list', i, f) /\ Fits(list, i, f) /\ (list # <<>> => i >= 1)
  /\ meat' = meat + (f.last - f.off) /\ qLen' = End(list')
  /\ lastIn' = (lastIn \/ (list # <<>> /\ ~ f.more))
  /\ complete' = (list # <<>> /\ lastIn' /\ qLen' = meat')

LEMMA EmptyIs ==
  ASSUME NEW C, Frag(C)!FragmentAssumption, FragTypes(C), FragQueue, NEW f \in Frags(C),
         ~ complete, Frag(C)!ToEmpty(f)
  PROVE  Taking(C, f)
<1>1. /\ list = <<>> /\ list' = <<f>> /\ meat' = meat + (f.last - f.off) /\ qLen' = f.last
      /\ lastIn' = lastIn /\ complete' = complete /\ overlap' = overlap
  BY DEF Frag!ToEmpty, Frag!Size
<1>2. ~ lastIn
  BY <1>1 DEF FragQueue
<1>3. list' \in Seq(Frags(C)) /\ Len(list') = 1 /\ list'[1] = f /\ Len(list) = 0 /\ list' # <<>>
  BY <1>1
<1>4. Inserted(list, list', 0, f) /\ Fits(list, 0, f) /\ 0 \in 0..Len(list)
  BY <1>3 DEF Inserted, Fits
<1>5. qLen' = End(list')
  BY <1>1, <1>3 DEF End
<1>6. /\ lastIn' = (lastIn \/ (list # <<>> /\ ~ f.more))
      /\ complete' = (list # <<>> /\ lastIn' /\ qLen' = meat')
  BY <1>1, <1>2 DEF FragTypes
<1>7. QED
  BY <1>1, <1>3, <1>4, <1>5, <1>6 DEF Taking

LEMMA AtEnd ==
  ASSUME NEW C, Frag(C)!FragmentAssumption, FragTypes(C), FragQueue, NEW f \in Frags(C),
         ~ complete, Frag(C)!ToEnd(f)
  PROVE  Clashing(f) \/ Taking(C, f)
<1>1. list # <<>> /\ ~ f.more /\ lastIn' = TRUE
  BY DEF Frag!ToEnd
<1>2. /\ FragList(C, list) /\ list \in Seq(Frags(C))
      /\ lastIn \in BOOLEAN /\ complete = FALSE
  BY DEF FragTypes, FragList
<1>3. Len(list) \in Nat /\ Len(list) \in 1..Len(list) /\ End(list) = list[Len(list)].last
  BY <1>1, <1>2, ListIs DEF End
<1>4. f.off \in Nat /\ f.last \in Nat /\ list[Len(list)].last \in Nat
  BY <1>2, <1>3, FragIs, ListIs
<1>5. CASE list[Len(list)].last > f.off
  <2>1. overlap' = TRUE /\ list' = list /\ meat' = meat /\ qLen' = qLen /\ complete' = complete
    BY <1>5 DEF Frag!ToEnd
  <2>2. f.off < list[Len(list)].last
    BY <1>4, <1>5
  <2>3. QED
    BY <1>1, <1>3, <2>1, <2>2 DEF Clashing
<1>6. CASE ~ (list[Len(list)].last > f.off)
  <2>1. /\ list' = Append(list, f) /\ meat' = meat + (f.last - f.off) /\ qLen' = f.last
        /\ complete' = (qLen' = meat') /\ overlap' = overlap
    BY <1>6 DEF Frag!ToEnd, Frag!Size, Frag!IsWhole
  <2>2. list' \in Seq(Frags(C)) /\ Inserted(list, list', Len(list), f)
    BY <1>2, <2>1, PutLast
  <2>3. \A j \in 1..Len(list) : list[j].last <= f.off
    <3>1. SUFFICES ASSUME NEW j \in 1..Len(list) PROVE list[j].last <= f.off
      OBVIOUS
    <3>2. list[j].last <= list[Len(list)].last /\ list[j].last \in Nat
      BY <1>2, <1>3, EndIs, ListIs
    <3>3. QED
      BY <1>4, <1>6, <3>2
  <2>4. Fits(list, Len(list), f)
    BY <1>3, <2>3 DEF Fits
  <2>5. Len(list) \in 0..Len(list) /\ Len(list) >= 1
    BY <1>3
  <2>6. qLen' = End(list')
    <3>1. Len(list') = Len(list) + 1 /\ list'[Len(list) + 1] = f
      BY <2>2 DEF Inserted
    <3>2. list' # <<>>
      BY <1>3, <2>2, <3>1
    <3>3. QED
      BY <2>1, <3>1, <3>2 DEF End
  <2>7. /\ lastIn' = (lastIn \/ (list # <<>> /\ ~ f.more))
        /\ complete' = (list # <<>> /\ lastIn' /\ qLen' = meat')
    BY <1>1, <2>1
  <2>8. QED
    BY <1>2, <2>1, <2>2, <2>4, <2>5, <2>6, <2>7 DEF Taking
<1>7. QED
  BY <1>5, <1>6

LEMMA InMiddle ==
  ASSUME NEW C, Frag(C)!FragmentAssumption, FragTypes(C), FragQueue, NEW f \in Frags(C),
         ~ complete, Frag(C)!ToMiddle(f)
  PROVE  Clashing(f) \/ Taking(C, f)
<1>1. list # <<>> /\ f.more /\ Frag(C)!Before(f) # {}
  BY DEF Frag!ToMiddle
<1>2. /\ FragList(C, list) /\ list \in Seq(Frags(C))
      /\ lastIn \in BOOLEAN /\ complete = FALSE /\ qLen = End(list)
  BY DEF FragTypes, FragList
<1>3. Len(list) \in Nat /\ DOMAIN list = 1..Len(list)
  BY <1>2, ListIs
<1>4. f.off \in Nat /\ f.last \in Nat
  BY FragIs
<1>5. Frag(C)!Before(f) \subseteq 1..Len(list)
  BY <1>3 DEF Frag!Before
<1>6. PICK i \in 1..Len(list) : i = Frag(C)!Max(Frag(C)!Before(f))
  BY <1>1, <1>3, <1>5, LargestIs
<1>7. i \in Frag(C)!Before(f) /\ \A y \in Frag(C)!Before(f) : i >= y
  BY <1>1, <1>3, <1>5, <1>6, LargestIs
<1>8. list[i].last <= f.off
  <2>1. f.off >= list[i].last /\ list[i].last \in Nat
    BY <1>2, <1>7, ListIs DEF Frag!Before
  <2>2. QED
    BY <1>4, <2>1
<1>9. \A j \in 1..Len(list) : j <= i => list[j].last <= f.off
  <2>1. SUFFICES ASSUME NEW j \in 1..Len(list), j < i PROVE list[j].last <= f.off
    BY <1>8
  <2>2. /\ list[j].last <= list[i].off /\ list[i].off < list[i].last
        /\ list[j].last \in Nat /\ list[i].off \in Nat /\ list[i].last \in Nat
    BY <1>2, <2>1, ListIs
  <2>3. QED
    BY <1>4, <1>8, <2>2
<1>10. i \in Nat /\ i <= Len(list) /\ i >= 1 /\ i \in 0..Len(list)
  BY <1>3
<1>11. CASE Frag(C)!RunsInto(f, i)
  <2>1. overlap' = TRUE /\ UNCHANGED <<list, qLen, meat, lastIn, complete>>
    BY <1>6, <1>11 DEF Frag!ToMiddle, Frag!fq
  <2>2. i < Len(list) /\ f.last > list[i + 1].off
    BY <1>11 DEF Frag!RunsInto
  <2>3. PICK k \in 1..Len(list) : k = i + 1
    BY <1>3, <2>2
  <2>4. ~ (k \in Frag(C)!Before(f))
    BY <1>7, <2>3
  <2>5. ~ (f.off >= list[k].last)
    BY <1>3, <2>4 DEF Frag!Before
  <2>6. list[k].off \in Nat /\ list[k].last \in Nat
    BY <1>2, ListIs
  <2>7. f.off < list[k].last /\ list[k].off < f.last
    BY <1>4, <2>2, <2>3, <2>5, <2>6
  <2>8. QED
    BY <1>1, <1>2, <2>1, <2>7 DEF Clashing
<1>12. CASE ~ Frag(C)!RunsInto(f, i)
  <2>1. /\ list' = SubSeq(list, 1, i) \o <<f>> \o SubSeq(list, i + 1, Len(list))
        /\ meat' = meat + (f.last - f.off) /\ qLen' = Frag(C)!Max({qLen, f.last})
        /\ complete' = (lastIn /\ qLen' = meat') /\ lastIn' = lastIn /\ overlap' = overlap
    BY <1>6, <1>12 DEF Frag!ToMiddle, Frag!Size, Frag!IsWhole, Frag!NewLen
  <2>2. list' \in Seq(Frags(C)) /\ Inserted(list, list', i, f)
    BY <1>2, <1>10, <2>1, PutIn
  <2>3. \A j \in i+1..Len(list) : f.last <= list[j].off
    <3>1. SUFFICES ASSUME NEW j \in i+1..Len(list) PROVE f.last <= list[j].off
      OBVIOUS
    <3>2. j \in 1..Len(list) /\ i + 1 \in 1..Len(list) /\ i < Len(list)
      BY <1>3, <1>10
    <3>3. PICK k \in 1..Len(list) : k = i + 1
      BY <3>2
    <3>4. list[k].off \in Nat /\ list[k].last \in Nat /\ list[k].off < list[k].last /\ list[j].off \in Nat
      BY <1>2, <3>2, ListIs
    <3>5. ~ (f.last > list[k].off)
      BY <1>12, <3>2, <3>3 DEF Frag!RunsInto
    <3>6. f.last <= list[k].off
      BY <1>4, <3>4, <3>5
    <3>7. CASE j = k
      BY <3>6, <3>7
    <3>8. CASE j # k
      <4>1. k < j
        BY <1>3, <1>10, <3>3, <3>8
      <4>2. list[k].last <= list[j].off
        BY <1>2, <3>2, <4>1, ListIs
      <4>3. QED
        BY <1>4, <3>4, <3>6, <4>2
    <3>9. QED
      BY <3>7, <3>8
  <2>4. Fits(list, i, f)
    BY <1>3, <1>9, <1>10, <2>3 DEF Fits
  <2>5. qLen' = End(list')
    <3>1. PICK q \in Nat : q = End(list)
      BY <1>2, EndIs
    <3>2. /\ End(list') = IF i = Len(list) THEN f.last ELSE q
          /\ i < Len(list) => f.last <= q
          /\ i = Len(list) => q <= f.last
      BY <1>2, <1>10, <2>2, <2>4, <3>1, TakesIn
    <3>3. qLen' = IF q < f.last THEN f.last ELSE q
      BY <1>2, <1>4, <2>1, <3>1, LongerOf
    <3>4. CASE i = Len(list)
      <4>1. (IF q < f.last THEN f.last ELSE q) = f.last
        BY <1>4, <3>2, <3>4
      <4>2. End(list') = f.last
        BY <3>2, <3>4
      <4>3. QED
        BY <3>3, <4>1, <4>2
    <3>5. CASE i # Len(list)
      <4>1. i < Len(list)
        <5>1. \A x, y \in Nat : x <= y /\ x # y => x < y
          OBVIOUS
        <5>2. QED
          BY <1>3, <1>10, <3>5, <5>1, Zenon
      <4>2. f.last <= q /\ End(list') = q
        BY <3>2, <3>5, <4>1
      <4>3. (IF q < f.last THEN f.last ELSE q) = q
        BY <1>4, <4>2
      <4>4. QED
        BY <3>3, <4>2, <4>3
    <3>6. QED
      BY <3>4, <3>5
  <2>6. /\ lastIn' = (lastIn \/ (list # <<>> /\ ~ f.more))
        /\ complete' = (list # <<>> /\ lastIn' /\ qLen' = meat')
    BY <1>1, <1>2, <2>1
  <2>7. QED
    BY <1>2, <1>10, <2>1, <2>2, <2>4, <2>5, <2>6 DEF Taking
<1>13. QED
  BY <1>11, <1>12

LEMMA ProcessIs ==
  ASSUME NEW C, Frag(C)!FragmentAssumption, FragTypes(C), FragQueue, NEW f \in Frags(C),
         Frag(C)!ProcessFragment(f)
  PROVE  Dropping(f) \/ Clashing(f) \/ Taking(C, f)
<1>1. CASE Frag(C)!Dropped(f)
  <2>1. UNCHANGED <<list, qLen, meat, lastIn, complete, overlap>>
    BY <1>1 DEF Frag!Dropped, Frag!fq
  <2>2. CASE complete
    BY <2>1, <2>2 DEF Dropping
  <2>3. CASE ~ complete
    <3>1. list # <<>> /\ f.more /\ Frag(C)!Before(f) = {}
      BY <1>1, <2>3 DEF Frag!Dropped
    <3>2. FragList(C, list)
      BY DEF FragTypes
    <3>3. ASSUME NEW j \in 1..Len(list) PROVE f.off < list[j].last
      <4>1. j \in DOMAIN list /\ list[j].last \in Nat
        BY <3>2, ListIs
      <4>2. ~ (f.off >= list[j].last)
        BY <3>1, <4>1 DEF Frag!Before
      <4>3. f.off \in Nat
        BY FragIs
      <4>4. QED
        BY <4>1, <4>2, <4>3
    <3>4. QED
      BY <2>1, <3>1, <3>3 DEF Dropping
  <2>4. QED
    BY <2>2, <2>3
<1>2. CASE ~ complete /\ Frag(C)!ToEmpty(f)
  BY <1>2, EmptyIs
<1>3. CASE ~ complete /\ Frag(C)!ToEnd(f)
  BY <1>3, AtEnd
<1>4. CASE ~ complete /\ Frag(C)!ToMiddle(f)
  BY <1>4, InMiddle
<1>5. QED
  BY <1>1, <1>2, <1>3, <1>4 DEF Frag!ProcessFragment

LEMMA OneMore ==
  ASSUME NEW S, NEW s \in Seq(S), NEW f \in S, NEW t, t = Append(s, f)
  PROVE  /\ t \in Seq(S) /\ Len(s) \in Nat /\ Len(t) = Len(s) + 1
         /\ \A k \in 1..Len(s) : t[k] = s[k]
         /\ t[Len(s) + 1] = f
         /\ s = <<>> <=> Len(s) = 0
  OBVIOUS

LEMMA ArriveIs ==
  ASSUME NEW C, Frag(C)!FragmentAssumption, FragTypes(C), FragQueue, NEW f, Frag(C)!Arrive(f)
  PROVE  /\ ~ overlap /\ overlap = FALSE /\ f \in net /\ f \in Frags(C)
         /\ net' \subseteq net /\ dups' \in 0..MaxDup
         /\ dups' = 0 => dups = 0 /\ net' = net \ {f}
         /\ arrived' = Append(arrived, f)
         /\ out' = IF complete' /\ ~ complete THEN list' ELSE out
         /\ padded' = padded
         /\ Dropping(f) \/ Clashing(f) \/ Taking(C, f)
<1>1. PICK again \in BOOLEAN :
        /\ ~ overlap /\ ~ padded /\ f \in net /\ padded' = padded
        /\ again => dups < MaxDup
        /\ dups' = IF again THEN dups + 1 ELSE dups
        /\ net' = IF again THEN net ELSE net \ {f}
        /\ arrived' = Append(arrived, f)
        /\ Frag(C)!ProcessFragment(f)
        /\ out' = IF complete' /\ ~ complete THEN list' ELSE out
  BY DEF Frag!Arrive
<1>2. f \in Frags(C) /\ overlap = FALSE /\ dups \in 0..MaxDup
  BY <1>1 DEF FragTypes
<1>3. Dropping(f) \/ Clashing(f) \/ Taking(C, f)
  BY <1>1, <1>2, ProcessIs
<1>4. MaxDup \in Nat
  BY FragConstants
<1>5. dups' \in 0..MaxDup /\ (dups' = 0 => dups = 0 /\ net' = net \ {f})
  BY <1>1, <1>2, <1>4
<1>6. net' \subseteq net
  BY <1>1
<1>7. QED
  BY <1>1, <1>2, <1>3, <1>5, <1>6

LEMMA TakingIs ==
  ASSUME NEW C, Frag(C)!FragmentAssumption, FragTypes(C), NEW f \in Frags(C), Taking(C, f)
  PROVE  /\ FragList(C, list') /\ list' # <<>>
         /\ qLen' = End(list') /\ meat' = Cardinality(Bytes(list'))
         /\ \A j \in 1..Len(list') : list'[j] = f \/ \E k \in 1..Len(list) : list'[j] = list[k]
         /\ \A k \in 1..Len(list) : \E j \in 1..Len(list') : list'[j] = list[k]
         /\ \E j \in 1..Len(list') : list'[j] = f
         /\ list = <<>> => list'[1] = f
         /\ list # <<>> => list'[1] = list[1]
<1>1. PICK i \in 0..Len(list) :
        Inserted(list, list', i, f) /\ Fits(list, i, f) /\ (list # <<>> => i >= 1)
  BY DEF Taking
<1>2. list' \in Seq(Frags(C)) /\ qLen' = End(list') /\ meat' = meat + (f.last - f.off)
  BY DEF Taking
<1>3. FragList(C, list) /\ meat = Cardinality(Bytes(list))
  BY DEF FragTypes
<1>4. /\ FragList(C, list') /\ list' # <<>>
      /\ Cardinality(Bytes(list')) = Cardinality(Bytes(list)) + (f.last - f.off)
  BY <1>1, <1>2, <1>3, TakesIn
<1>6. /\ \A j \in 1..Len(list') : list'[j] = f \/ \E k \in 1..Len(list) : list'[j] = list[k]
      /\ \A k \in 1..Len(list) : \E j \in 1..Len(list') : list'[j] = list[k]
      /\ \E j \in 1..Len(list') : list'[j] = f
  <2>1. Inserted(list, list', i, f) /\ FragList(C, list) /\ list' \in Seq(Frags(C))
    BY <1>1, <1>2, <1>3
  <2>2. QED
    BY <2>1, TakenAre
<1>7. ASSUME list = <<>> PROVE list'[1] = f
  <2>1. i = 0
    BY <1>1, <1>7
  <2>2. QED
    BY <1>1, <2>1 DEF Inserted
<1>8. ASSUME list # <<>> PROVE list'[1] = list[1]
  <2>1. 1 \in 1..i
    BY <1>1, <1>8
  <2>2. QED
    BY <1>1, <2>1 DEF Inserted
<1>9. QED
  BY <1>2, <1>3, <1>4, <1>6, <1>7, <1>8

LEMMA ArriveKeeps ==
  ASSUME NEW C, Frag(C)!FragmentAssumption, FragTypes(C), FragQueue, NEW f, Frag(C)!Arrive(f)
  PROVE  FragTypes(C)' /\ FragQueue'
<1>1. /\ overlap = FALSE /\ f \in net /\ f \in Frags(C)
      /\ net' \subseteq net /\ dups' \in 0..MaxDup /\ padded' = padded
      /\ arrived' = Append(arrived, f)
      /\ out' = IF complete' /\ ~ complete THEN list' ELSE out
      /\ Dropping(f) \/ Clashing(f) \/ Taking(C, f)
  BY ArriveIs
<1>2. arrived \in Seq(Frags(C)) /\ FragList(C, list) /\ net \subseteq Frags(C) /\ complete \in BOOLEAN
  BY DEF FragTypes
<1>3. /\ arrived' \in Seq(Frags(C)) /\ Len(arrived) \in Nat /\ Len(arrived') = Len(arrived) + 1
      /\ \A k \in 1..Len(arrived) : arrived'[k] = arrived[k]
      /\ arrived'[Len(arrived) + 1] = f
  BY <1>1, <1>2, OneMore
<1>4. net' \subseteq Frags(C)
  BY <1>1, <1>2
<1>5. \A i \in 1..Len(list) : \E k \in 1..Len(arrived') : arrived'[k] = list[i]
  <2>1. SUFFICES ASSUME NEW i \in 1..Len(list) PROVE \E k \in 1..Len(arrived') : arrived'[k] = list[i]
    OBVIOUS
  <2>2. PICK k \in 1..Len(arrived) : arrived[k] = list[i]
    BY DEF FragQueue
  <2>3. k \in 1..Len(arrived') /\ arrived'[k] = list[i]
    BY <1>3, <2>2
  <2>4. QED
    BY <2>3
<1>6. \E k \in 1..Len(arrived') : arrived'[k] = f
  <2>1. Len(arrived) + 1 \in 1..Len(arrived')
    BY <1>3
  <2>2. QED
    BY <1>3, <2>1
<1>7. CASE Dropping(f)
  <2>1. UNCHANGED <<list, qLen, meat, lastIn, complete, overlap>> /\ list # <<>>
    BY <1>7 DEF Dropping, FragQueue
  <2>2. out' = out
    BY <1>1, <2>1
  <2>3. FragTypes(C)'
    BY <1>1, <1>3, <1>4, <2>1, <2>2 DEF FragTypes
  <2>4. FragQueue'
    BY <1>5, <2>1 DEF FragQueue
  <2>5. QED
    BY <2>3, <2>4
<1>8. CASE Clashing(f)
  <2>1. /\ ~ complete /\ list # <<>> /\ overlap' = TRUE /\ lastIn' \in BOOLEAN
        /\ UNCHANGED <<list, qLen, meat, complete>>
    BY <1>8 DEF Clashing
  <2>2. out' = out
    BY <1>1, <2>1
  <2>3. FragTypes(C)'
    BY <1>1, <1>3, <1>4, <2>1, <2>2 DEF FragTypes
  <2>4. FragQueue'
    BY <1>5, <2>1 DEF FragQueue
  <2>5. QED
    BY <2>3, <2>4
<1>9. CASE Taking(C, f)
  <2>1. /\ FragList(C, list') /\ list' # <<>>
        /\ qLen' = End(list') /\ meat' = Cardinality(Bytes(list'))
        /\ \A j \in 1..Len(list') : list'[j] = f \/ \E k \in 1..Len(list) : list'[j] = list[k]
        /\ \A k \in 1..Len(list) : \E j \in 1..Len(list') : list'[j] = list[k]
        /\ \E j \in 1..Len(list') : list'[j] = f
    BY <1>1, <1>9, TakingIs
  <2>2. /\ ~ complete /\ overlap' = overlap
        /\ lastIn' = (lastIn \/ (list # <<>> /\ ~ f.more))
        /\ complete' = (list # <<>> /\ lastIn' /\ qLen' = meat')
    BY <1>9 DEF Taking
  <2>3. out = <<>>
    BY <2>2 DEF FragTypes
  <2>4. lastIn' \in BOOLEAN /\ complete' \in BOOLEAN /\ overlap' = FALSE
    BY <1>1, <2>2
  <2>5. out' = IF complete' THEN list' ELSE <<>>
    BY <1>1, <2>2, <2>3
  <2>6. FragTypes(C)'
    BY <1>1, <1>3, <1>4, <2>1, <2>4, <2>5 DEF FragTypes
  <2>7. ASSUME lastIn' PROVE \E j \in 1..Len(list') : ~ list'[j].more
    <3>1. CASE lastIn
      <4>1. PICK k \in 1..Len(list) : ~ list[k].more
        BY <1>1, <3>1 DEF FragQueue
      <4>2. QED
        BY <2>1, <4>1
    <3>2. CASE ~ f.more
      BY <2>1, <3>2
    <3>3. QED
      BY <2>2, <2>7, <3>1, <3>2
  <2>8. \A j \in 1..Len(list') : \E k \in 1..Len(arrived') : arrived'[k] = list'[j]
    BY <1>5, <1>6, <2>1
  <2>9. complete' => list' # <<>> /\ lastIn' /\ ~ overlap' /\ qLen' = meat'
    BY <2>1, <2>2, <2>4
  <2>10. FragQueue'
    BY <2>1, <2>7, <2>8, <2>9 DEF FragQueue
  <2>11. QED
    BY <2>6, <2>10
<1>10. QED
  BY <1>1, <1>7, <1>8, <1>9

LEMMA ApartFrom ==
  ASSUME NEW C, NEW c, C = {c}, Frag(C)!FragmentAssumption,
         NEW f \in Frags(C), NEW g \in Frags(C), f # g
  PROVE  ~ (f.off < g.last /\ g.off < f.last)
<1>1. Datagram(c) /\ Frags(C) = Frag(C)!Pieces(c)
  BY AloneIs
<1>2. QED
  BY <1>1, SameByte

LEMMA LastOfAll ==
  ASSUME NEW C, NEW c, C = {c}, Frag(C)!FragmentAssumption,
         NEW f \in Frags(C), NEW g \in Frags(C), ~ f.more
  PROVE  g.off < f.last
<1>1. Datagram(c) /\ Frags(C) = Frag(C)!Pieces(c)
  BY AloneIs
<1>2. g.off \in Nat /\ g.last \in Nat /\ g.off < g.last /\ g.last \in c /\ f.last \in Nat
  BY <1>1, SpanIs
<1>3. g.last <= f.last
  BY <1>1, <1>2, LastIs
<1>4. QED
  BY <1>2, <1>3

LEMMA OverlapKeeps ==
  ASSUME NEW C, NEW c, C = {c}, Frag(C)!FragmentAssumption,
         FragTypes(C), FragQueue, NEW f, Frag(C)!Arrive(f)
  PROVE  RealOverlap'
<1>1. /\ overlap = FALSE /\ f \in Frags(C) /\ arrived' = Append(arrived, f)
      /\ Dropping(f) \/ Clashing(f) \/ Taking(C, f)
  BY ArriveIs
<1>2. SUFFICES ASSUME overlap'
               PROVE  \E i, j \in 1..Len(arrived') : /\ i # j /\ arrived'[i].off < arrived'[j].last
                                                     /\ arrived'[j].off < arrived'[i].last
  BY DEF RealOverlap
<1>3. Clashing(f)
  BY <1>1, <1>2 DEF Dropping, Taking
<1>4. arrived \in Seq(Frags(C)) /\ FragList(C, list)
  BY DEF FragTypes
<1>5. /\ Len(arrived) \in Nat /\ Len(arrived') = Len(arrived) + 1
      /\ \A k \in 1..Len(arrived) : arrived'[k] = arrived[k]
      /\ arrived'[Len(arrived) + 1] = f
  BY <1>1, <1>4, OneMore
<1>6. PICK k \in 1..Len(list) : f.off < list[k].last /\ (~ f.more \/ list[k].off < f.last)
  BY <1>3 DEF Clashing
<1>7. PICK m \in 1..Len(arrived) : arrived[m] = list[k]
  BY DEF FragQueue
<1>8. list[k].off < f.last
  <2>1. list[k] \in Frags(C)
    BY <1>4, ListIs
  <2>2. QED
    BY <1>1, <1>6, <2>1, LastOfAll
<1>9. PICK n \in Nat : n = Len(arrived) + 1
  BY <1>5
<1>10. /\ m \in 1..Len(arrived') /\ n \in 1..Len(arrived') /\ m # n
       /\ arrived'[m] = list[k] /\ arrived'[n] = f
  BY <1>5, <1>7, <1>9
<1>11. arrived'[m].off < arrived'[n].last /\ arrived'[n].off < arrived'[m].last
  BY <1>6, <1>8, <1>10
<1>12. QED
  BY <1>10, <1>11

(* The first fragment of all comes.                                        *)
LEMMA FirstKeeps ==
  ASSUME NEW C, NEW c, C = {c}, Frag(C)!FragmentAssumption,
         FragTypes(C), FragQueue, NEW f, Frag(C)!Arrive(f),
         arrived = <<>>
  PROVE  InTurn'
<1>1. /\ overlap = FALSE /\ f \in Frags(C) /\ arrived' = Append(arrived, f)
      /\ dups' = 0 => dups = 0 /\ net' = net \ {f}
      /\ Dropping(f) \/ Clashing(f) \/ Taking(C, f)
  BY ArriveIs
<1>2. Len(arrived') = 1 /\ arrived'[1] = f
  BY <1>1
<1>3. list = <<>>
  <2>1. SUFFICES ASSUME list # <<>> PROVE FALSE
    OBVIOUS
  <2>2. FragList(C, list)
    BY DEF FragTypes
  <2>3. 1 \in 1..Len(list)
    BY <2>1, <2>2, ListIs
  <2>4. PICK k \in 1..Len(arrived) : arrived[k] = list[1]
    BY <2>3 DEF FragQueue
  <2>5. QED
    BY <2>4
<1>4. ~ lastIn /\ ~ complete
  BY <1>3 DEF FragQueue
<1>5. Taking(C, f)
  BY <1>1, <1>3, <1>4 DEF Dropping, Clashing
<1>6. /\ list' # <<>> /\ list'[1] = f
      /\ \A j \in 1..Len(list') : list'[j] = f \/ \E k \in 1..Len(list) : list'[j] = list[k]
      /\ \E j \in 1..Len(list') : list'[j] = f
  BY <1>1, <1>3, <1>5, TakingIs
<1>7. \A j \in 1..Len(list') : list'[j] = f
  BY <1>3, <1>6
<1>8. ~ overlap' /\ ~ lastIn'
  BY <1>1, <1>3, <1>4, <1>5 DEF Taking
<1>9. SUFFICES ASSUME FirstCame'
               PROVE  /\ list'[1].off = 0
                      /\ \A k \in 1..Len(arrived') : /\ arrived'[k] \notin net'
                                                     /\ \E i \in 1..Len(list') : list'[i] = arrived'[k]
                      /\ ~ \E i \in 1..Len(list') : ~ list'[i].more
  BY <1>6, <1>8 DEF InTurn
<1>10. dups' = 0 /\ f.off = 0 /\ f.more
  BY <1>2, <1>9 DEF FirstCame
<1>11. net' = net \ {f}
  BY <1>1, <1>10
<1>12. ASSUME NEW k \in 1..Len(arrived') PROVE arrived'[k] = f
  BY <1>2
<1>13. QED
  BY <1>6, <1>7, <1>10, <1>11, <1>12

(* Another one comes.                                                      *)
LEMMA OthersKeep ==
  ASSUME NEW C, NEW c, C = {c}, Frag(C)!FragmentAssumption, FragTypes(C), FragQueue, InTurn,
         NEW f, Frag(C)!Arrive(f), arrived # <<>>
  PROVE  InTurn'
<1>1. /\ overlap = FALSE /\ f \in net /\ f \in Frags(C) /\ arrived' = Append(arrived, f)
      /\ net' \subseteq net
      /\ dups' = 0 => dups = 0 /\ net' = net \ {f}
      /\ Dropping(f) \/ Clashing(f) \/ Taking(C, f)
  BY ArriveIs
<1>2. arrived \in Seq(Frags(C)) /\ FragList(C, list)
  BY DEF FragTypes
<1>3. /\ Len(arrived) \in Nat /\ Len(arrived') = Len(arrived) + 1 /\ Len(arrived) # 0
      /\ \A k \in 1..Len(arrived) : arrived'[k] = arrived[k]
      /\ arrived'[Len(arrived) + 1] = f
  BY <1>1, <1>2, OneMore
<1>4. SUFFICES ASSUME FirstCame' PROVE InTurn'
  BY DEF InTurn
<1>5. FirstCame /\ dups' = 0 /\ net' = net \ {f}
  <2>1. arrived'[1] = arrived[1]
    BY <1>3
  <2>2. QED
    BY <1>1, <1>4, <2>1 DEF FirstCame
<1>6. /\ list # <<>> /\ list[1].off = 0
      /\ \A k \in 1..Len(arrived) : /\ arrived[k] \notin net
                                    /\ \E i \in 1..Len(list) : list[i] = arrived[k]
      /\ (\E i \in 1..Len(list) : ~ list[i].more) => lastIn
      /\ lastIn /\ qLen = meat => complete
  BY <1>5 DEF InTurn
<1>7. ASSUME NEW i \in 1..Len(list) PROVE list[i] # f /\ list[i] \in Frags(C)
  <2>1. PICK k \in 1..Len(arrived) : arrived[k] = list[i]
    BY DEF FragQueue
  <2>2. QED
    BY <1>1, <1>2, <1>6, <2>1, ListIs
<1>8. ASSUME NEW i \in 1..Len(list) PROVE ~ (f.off < list[i].last /\ list[i].off < f.last)
  BY <1>1, <1>7, ApartFrom
<1>9. ~ Clashing(f)
  <2>1. SUFFICES ASSUME Clashing(f) PROVE FALSE
    OBVIOUS
  <2>2. PICK k \in 1..Len(list) : f.off < list[k].last /\ (~ f.more \/ list[k].off < f.last)
    BY <2>1 DEF Clashing
  <2>3. list[k].off < f.last
    BY <1>1, <1>7, <2>2, LastOfAll
  <2>4. QED
    BY <1>8, <2>2, <2>3
<1>10. ~ Dropping(f)
  <2>1. SUFFICES ASSUME Dropping(f) PROVE FALSE
    OBVIOUS
  <2>2. CASE complete
    <3>1. list # <<>> /\ lastIn /\ qLen = meat /\ \E i \in 1..Len(list) : ~ list[i].more
      BY <1>1, <2>2 DEF FragQueue
    <3>2. Full(list)
      BY <3>1 DEF FragTypes, Full
    <3>3. HasAll(C, list)
      BY <1>2, <3>2, WholeList
    <3>4. PICK i \in 1..Len(list) : list[i] = f
      BY <1>1, <3>3 DEF HasAll
    <3>5. QED
      BY <1>7, <3>4
  <2>3. CASE ~ complete
    <3>1. 1 \in 1..Len(list)
      BY <1>2, <1>6, ListIs
    <3>2. f.off < list[1].last
      BY <2>1, <2>3, <3>1 DEF Dropping
    <3>3. f.off \in Nat /\ f.last \in Nat /\ f.off < f.last
      BY <1>1, FragIs
    <3>4. list[1].off < f.last
      BY <1>6, <3>3
    <3>5. QED
      BY <1>8, <3>1, <3>2, <3>4
  <2>4. QED
    BY <2>2, <2>3
<1>11. Taking(C, f)
  BY <1>1, <1>9, <1>10
<1>12. /\ list' # <<>> /\ list'[1] = list[1]
       /\ \A j \in 1..Len(list') : list'[j] = f \/ \E k \in 1..Len(list) : list'[j] = list[k]
       /\ \A k \in 1..Len(list) : \E j \in 1..Len(list') : list'[j] = list[k]
       /\ \E j \in 1..Len(list') : list'[j] = f
  BY <1>1, <1>6, <1>11, TakingIs
<1>13. /\ overlap' = FALSE
       /\ lastIn' = (lastIn \/ (list # <<>> /\ ~ f.more))
       /\ complete' = (list # <<>> /\ lastIn' /\ qLen' = meat')
  BY <1>1, <1>11 DEF Taking
<1>14. ASSUME NEW k \in 1..Len(arrived')
       PROVE  arrived'[k] \notin net' /\ \E i \in 1..Len(list') : list'[i] = arrived'[k]
  <2>1. CASE k = Len(arrived) + 1
    BY <1>3, <1>5, <1>12, <2>1
  <2>2. CASE k # Len(arrived) + 1
    <3>1. k \in 1..Len(arrived)
      BY <1>3, <2>2
    <3>2. arrived'[k] = arrived[k] /\ arrived[k] \notin net
      BY <1>3, <1>6, <3>1
    <3>3. PICK i \in 1..Len(list) : list[i] = arrived[k]
      BY <1>6, <3>1
    <3>4. PICK j \in 1..Len(list') : list'[j] = list[i]
      BY <1>12
    <3>5. QED
      BY <1>1, <3>2, <3>3, <3>4
  <2>3. QED
    BY <2>1, <2>2
<1>15. ASSUME NEW j \in 1..Len(list'), ~ list'[j].more PROVE lastIn'
  <2>1. CASE list'[j] = f
    BY <1>6, <1>13, <1>15, <2>1
  <2>2. CASE list'[j] # f
    <3>1. PICK k \in 1..Len(list) : list'[j] = list[k]
      BY <1>12, <2>2
    <3>2. lastIn
      BY <1>6, <1>15, <3>1
    <3>3. QED
      BY <1>13, <3>2
  <2>3. QED
    BY <2>1, <2>2
<1>16. lastIn' /\ qLen' = meat' => complete'
  BY <1>6, <1>13
<1>17. QED
  BY <1>6, <1>12, <1>13, <1>14, <1>15, <1>16 DEF InTurn

(* What the invariant says of the end: the list of a complete queue has no *)
(* gap; of one datagram alone, it has all fragments, and a queue that has  *)
(* them all is complete.                                                   *)
LEMMA Complete ==
  ASSUME NEW C, FragTypes(C), FragQueue, complete
  PROVE  FragList(C, list) /\ Full(list)
<1>1. list # <<>> /\ lastIn /\ qLen = meat /\ ~ overlap
  BY DEF FragQueue
<1>2. \E i \in 1..Len(list) : ~ list[i].more
  BY <1>1 DEF FragQueue
<1>3. QED
  BY <1>1, <1>2 DEF FragTypes, Full

LEMMA InvIsSafe ==
  ASSUME NEW C, Frag(C)!FragmentAssumption, FragInv(C)
  PROVE  Frag(C)!Reassembly
<1>1. FragTypes(C) /\ FragQueue
  BY DEF FragInv
<1>2. /\ FragList(C, list) /\ list \in Seq(Frags(C))
      /\ DOMAIN list = 1..Len(list) /\ Len(list) \in Nat
  BY <1>1, ListIs DEF FragTypes, FragList
<1>3. out = IF complete THEN list ELSE <<>>
  BY <1>1 DEF FragTypes
<1>4. Frag(C)!TypeOK
  <2>1. Frag(C)!Covered = Bytes(list)
    BY <1>1, <1>2, BytesAre DEF Frag!Covered, FragTypes
  <2>2. meat = Frag(C)!Cardinality(Frag(C)!Covered)
    BY <1>1, <2>1, SameCardinality DEF FragTypes
  <2>3. qLen = IF list = <<>> THEN 0 ELSE list[Len(list)].last
    BY <1>1 DEF FragTypes, End
  <2>4. QED
    BY <1>1, <1>2, <1>3, <2>2, <2>3 DEF Frag!TypeOK, FragTypes, Frags
<1>5. Frag(C)!InOrder
  BY <1>2, ListIs DEF Frag!InOrder
<1>6. Frag(C)!NoGap
  <2>1. SUFFICES ASSUME out # <<>>
                 PROVE  out[1].off = 0 /\ \A i \in 1..Len(out) - 1 : out[i].last = out[i + 1].off
    BY DEF Frag!NoGap
  <2>2. complete /\ out = list
    BY <1>3, <2>1
  <2>3. list[1].off = 0 /\ \A i \in 1..Len(list) - 1 : list[i].last = list[i + 1].off
    BY <1>1, <2>2, Complete, FullList DEF Full
  <2>4. QED
    BY <2>2, <2>3
<1>7. Frag(C)!WholeIfAlone
  <2>1. SUFFICES ASSUME NEW c \in C, C = {c}, out # <<>>
                 PROVE  Frag(C)!Range(out) = Frag(C)!Pieces(c)
    BY DEF Frag!WholeIfAlone, Frag!Alone
  <2>2. complete /\ out = list
    BY <1>3, <2>1
  <2>3. FragList(C, list) /\ Full(list)
    BY <1>1, <2>2, Complete
  <2>4. HasAll(C, list)
    BY <2>1, <2>3, WholeList
  <2>5. Frags(C) = Frag(C)!Pieces(c)
    BY <2>1, AloneIs
  <2>6. \A i \in 1..Len(list) : list[i] \in Frags(C)
    BY <1>2
  <2>7. {list[i] : i \in 1..Len(list)} = Frags(C)
    BY <2>4, <2>6 DEF HasAll
  <2>8. QED
    BY <1>2, <2>1, <2>2, <2>5, <2>7 DEF Frag!Range
<1>8. Frag(C)!FirstFirst
  <2>1. SUFFICES ASSUME NEW c \in C, C = {c}, Frag(C)!Range(arrived) = Frag(C)!Pieces(c),
                        dups = 0, arrived[1].off = 0, arrived[1].more
                 PROVE  out # <<>>
    BY DEF Frag!FirstFirst, Frag!Alone
  <2>2. Frag(C)!Range(arrived) = Frag(C)!Pieces(c)
    BY <2>1
  <2>3. Frags(C) = Frag(C)!Pieces(c) /\ Datagram(c)
    BY <2>1, AloneIs
  <2>4. arrived \in Seq(Frags(C)) /\ DOMAIN arrived = 1..Len(arrived)
    BY <1>1 DEF FragTypes
  <2>5. \A p \in Frags(C) : \E k \in 1..Len(arrived) : arrived[k] = p
    BY <2>2, <2>3, <2>4 DEF Frag!Range
  <2>6. arrived # <<>>
    <3>1. PICK n \in c \ {0} : \A x \in c : x <= n
      BY <2>3 DEF Datagram
    <3>2. n \in c /\ 0 \in Nat /\ 0 < n
      BY <2>3, <3>1 DEF Datagram
    <3>3. PICK f \in Frag(C)!Pieces(c) : TRUE
      BY <2>3, <3>2, ByteIsIn
    <3>4. PICK k \in 1..Len(arrived) : arrived[k] = f
      BY <2>3, <2>5, <3>3
    <3>5. QED
      BY <2>4, <3>4
  <2>7. InTurn /\ FirstCame
    BY <2>1, <2>6 DEF FragInv, FirstCame
  <2>8. /\ list # <<>>
        /\ \A k \in 1..Len(arrived) : \E i \in 1..Len(list) : list[i] = arrived[k]
        /\ (\E i \in 1..Len(list) : ~ list[i].more) => lastIn
        /\ lastIn /\ qLen = meat => complete
    BY <2>7 DEF InTurn
  <2>9. HasAll(C, list)
    BY <2>5, <2>8 DEF HasAll
  <2>10. Full(list)
    BY <1>2, <2>1, <2>9, AllThere
  <2>11. lastIn /\ qLen = meat
    BY <1>1, <2>8, <2>10 DEF FragTypes, Full
  <2>12. QED
    BY <1>3, <2>8, <2>11
<1>9. Frag(C)!OverlapIsReal
  <2>1. SUFFICES ASSUME NEW c \in C, C = {c}, overlap
                 PROVE  \E i, j \in DOMAIN arrived :
                          i # j /\ arrived[i].off < arrived[j].last /\ arrived[j].off < arrived[i].last
    BY DEF Frag!OverlapIsReal, Frag!Alone
  <2>2. RealOverlap
    BY <2>1 DEF FragInv
  <2>3. DOMAIN arrived = 1..Len(arrived)
    BY <1>1 DEF FragTypes
  <2>4. QED
    BY <2>1, <2>2, <2>3 DEF RealOverlap
<1>10. QED
  BY <1>4, <1>5, <1>6, <1>7, <1>8, <1>9 DEF Frag!Reassembly

LEMMA FragStarts ==
  ASSUME NEW C, Frag(C)!FragmentAssumption, Frag(C)!Init
  PROVE  FragInv(C)
<1>1. /\ net = Frags(C) /\ dups = 0 /\ list = <<>> /\ qLen = 0 /\ meat = 0 /\ lastIn = FALSE
      /\ complete = FALSE /\ overlap = FALSE /\ padded = FALSE /\ arrived = <<>> /\ out = <<>>
  BY DEF Frag!Init, Frags
<1>2. list \in Seq(Frags(C)) /\ arrived \in Seq(Frags(C)) /\ Len(list) = 0 /\ Len(arrived) = 0
  BY <1>1
<1>3. FragList(C, list)
  BY <1>1, <1>2 DEF FragList, Ordered
<1>4. Bytes(list) = {}
  BY <1>1 DEF Bytes
<1>5. meat = Cardinality(Bytes(list)) /\ qLen = End(list)
  BY <1>1, <1>4, FS_EmptySet DEF End
<1>6. dups \in 0..MaxDup
  BY <1>1, FragConstants
<1>7. FragTypes(C)
  BY <1>1, <1>2, <1>3, <1>5, <1>6 DEF FragTypes
<1>8. FragQueue
  BY <1>1, <1>2 DEF FragQueue
<1>9. RealOverlap /\ InTurn
  BY <1>1 DEF RealOverlap, InTurn, FirstCame
<1>10. QED
  BY <1>7, <1>8, <1>9 DEF FragInv

LEMMA FragMoves ==
  ASSUME NEW C, Frag(C)!FragmentAssumption, FragInv(C), Frag(C)!Next
  PROVE  FragInv(C)'
<1>1. FragTypes(C) /\ FragQueue
  BY DEF FragInv
<1>2. PICK f \in net : Frag(C)!Arrive(f) \/ Frag(C)!Lost(f) \/ Frag(C)!Padded(f)
  BY DEF Frag!Next
<1>3. CASE Frag(C)!Arrive(f)
  <2>1. FragTypes(C)' /\ FragQueue'
    BY <1>1, <1>3, ArriveKeeps
  <2>2. ASSUME NEW c, C = {c} PROVE RealOverlap' /\ InTurn'
    <3>1. InTurn
      BY <2>2 DEF FragInv
    <3>2. RealOverlap'
      BY <1>1, <1>3, <2>2, OverlapKeeps
    <3>3. InTurn'
      BY <1>1, <1>3, <2>2, <3>1, FirstKeeps, OthersKeep
    <3>4. QED
      BY <3>2, <3>3
  <2>3. QED
    BY <2>1, <2>2 DEF FragInv
<1>4. CASE Frag(C)!Lost(f) \/ Frag(C)!Padded(f)
  <2>1. /\ net' = net \ {f} /\ padded' \in {padded, TRUE}
        /\ UNCHANGED <<dups, list, qLen, meat, lastIn, complete, overlap, arrived, out>>
    BY <1>4 DEF Frag!Lost, Frag!Padded, Frag!fq
  <2>2. FragTypes(C)'
    BY <1>1, <2>1 DEF FragTypes
  <2>3. FragQueue'
    BY <1>1, <2>1 DEF FragQueue
  <2>4. ASSUME NEW c, C = {c} PROVE RealOverlap' /\ InTurn'
    <3>1. RealOverlap /\ InTurn
      BY <2>4 DEF FragInv
    <3>2. RealOverlap'
      BY <2>1, <3>1 DEF RealOverlap
    <3>3. FirstCame' = FirstCame
      BY <2>1 DEF FirstCame
    <3>4. InTurn'
      BY <2>1, <3>1, <3>3 DEF InTurn
    <3>5. QED
      BY <3>2, <3>4
  <2>5. QED
    BY <2>2, <2>3, <2>4 DEF FragInv
<1>5. QED
  BY <1>2, <1>3, <1>4

-----------------------------------------------------------------------------
(* Reassembly: the parts of MCSpec.                                        *)

PartInv ==
  /\ part = "one" => FragInv(OneDatagram)
  /\ part = "two" => FragInv(TwoDatagrams)

LEMMA PartStarts == MCInit => PartInv
<1> SUFFICES ASSUME MCInit PROVE PartInv
  OBVIOUS
<1>1. /\ part = "one" => Frag(OneDatagram)!Init
      /\ part = "two" => Frag(TwoDatagrams)!Init
  BY DEF MCInit
<1>2. QED
  BY <1>1, FragmentsAssumption, FragStarts DEF PartInv

LEMMA PartKeeps == PartInv /\ [MCNext]_<<part, vars, fragments>> => PartInv'
<1> SUFFICES ASSUME PartInv, [MCNext]_<<part, vars, fragments>> PROVE PartInv'
  OBVIOUS
<1>1. CASE MCNext
  <2>1. part' = part
    BY <1>1 DEF MCNext
  <2>2. CASE part = "one"
    <3>1. FragInv(OneDatagram) /\ Frag(OneDatagram)!Next /\ part' # "two"
      BY <1>1, <2>1, <2>2 DEF MCNext, PartInv
    <3>2. FragInv(OneDatagram)'
      BY <3>1, FragmentsAssumption, FragMoves
    <3>3. QED
      BY <3>1, <3>2 DEF PartInv
  <2>3. CASE part = "two"
    <3>1. FragInv(TwoDatagrams) /\ Frag(TwoDatagrams)!Next /\ part' # "one"
      BY <1>1, <2>1, <2>3 DEF MCNext, PartInv
    <3>2. FragInv(TwoDatagrams)'
      BY <3>1, FragmentsAssumption, FragMoves
    <3>3. QED
      BY <3>1, <3>2 DEF PartInv
  <2>4. CASE part # "one" /\ part # "two"
    BY <2>1, <2>4 DEF PartInv
  <2>5. QED
    BY <2>2, <2>3, <2>4
<1>2. CASE UNCHANGED <<part, vars, fragments>>
  <2>1. part' = part /\ UNCHANGED fragments
    BY <1>2
  <2>2. ASSUME NEW C, FragInv(C) PROVE FragInv(C)'
    BY <2>1, <2>2
    DEF fragments, FragInv, FragTypes, FragQueue, RealOverlap, InTurn, FirstCame
  <2>3. QED
    BY <2>1, <2>2 DEF PartInv
<1>3. QED
  BY <1>1, <1>2

(* fragment.go: whatever the datagrams, the order in which their fragments *)
(* come, what is lost and what comes twice: the queue is in order, what    *)
(* goes on has no gap and is the datagram if there is but one of that id,  *)
(* one whose first fragment came first goes on, and the process does not   *)
(* end with "overlapped" but for a real overlap.                           *)
THEOREM FragmentsCorrect == MCSpec => []Reassembled
<1>1. PartInv => Reassembled
  BY FragmentsAssumption, InvIsSafe DEF PartInv, Reassembled
<1>2. QED
  BY <1>1, PartStarts, PartKeeps, PTL DEF MCSpec
=============================================================================
