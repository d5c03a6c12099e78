--------------------------- MODULE FdbPortProofs ---------------------------
(***************************************************************************)
(* Proofs about FdbPort, for any clients and any MAXPORT, and about the    *)
(* membership as MCFdb composes it.  IInv is the inductive invariant of    *)
(* FdbPort: the free list, the holders, the port map and the counter each  *)
(* lean on the others to stay right.  The membership needs no invariant of *)
(* its own here: each behaviour of MCFdb is, in its part, one of           *)
(* FdbMembership, whose theorems (FdbMembershipProofs) hold of it.         *)
(***************************************************************************)
EXTENDS MCFdb, FiniteSetTheorems, TLAPS

(* Only a client that counts is ever about to change allocNum. *)
OnlyCounted == \A c \in Clients : pc[c] \in {"inc", "dec"} => Inc(c)

IInv ==
  TypeOK /\ NoSharedPort /\ PortMapOwner /\ FreeListExact /\ OnlyCounted /\ AllocNumExact

-----------------------------------------------------------------------------
(* The steps of a client keep every variable in its type. *)
LEMMA TypeStep == TypeOK /\ [Next]_vars => TypeOK'
<1> SUFFICES ASSUME TypeOK, [Next]_vars PROVE TypeOK'
  OBVIOUS
<1>0. PortIds \subseteq Slots /\ 0 \in Slots
  BY FdbPortAssumption DEF Slots, PortIds
<1>1. ASSUME NEW c \in Clients, PortIdAlloc(c) PROVE TypeOK'
  <2>1. portIdPool \in [Slots -> Slots] /\ 0 \in Slots /\ portIdPool[0] \in Slots
    BY FdbPortAssumption DEF TypeOK, Slots
  <2>2. portIdPool' \in [Slots -> Slots]
    BY <1>1, <2>1 DEF PortIdAlloc, PopPort
  <2>3. cur' \in [Clients -> Slots]
    BY <1>1, <2>1 DEF PortIdAlloc, TypeOK
  <2>4. AfterAlloc(c) \in {"idle", "inc", "add"} /\ (portIdPool[0] = 0 <=> AfterAlloc(c) = "idle")
    BY DEF AfterAlloc
  <2>5. pc' \in [Clients -> {"idle", "inc", "add", "del", "free", "dec"}]
    BY <1>1, <2>4 DEF PortIdAlloc, TypeOK
  <2>6. \A d \in Clients : pc'[d] # "idle" => cur'[d] \in PortIds
    BY <1>1, <2>1, <2>4 DEF PortIdAlloc, TypeOK, Slots, PortIds
  <2>7. QED
    BY <1>1, <2>2, <2>3, <2>5, <2>6 DEF PortIdAlloc, TypeOK
<1>2. ASSUME NEW c \in Clients, IncPortNum(c) PROVE TypeOK'
  BY <1>2 DEF TypeOK, IncPortNum
<1>3. ASSUME NEW c \in Clients, AddPortMap(c) PROVE TypeOK'
  BY <1>3 DEF TypeOK, AddPortMap
<1>4. ASSUME NEW c \in Clients, NEW p \in PortIds, GetPortMap(c, p) PROVE TypeOK'
  BY <1>0, <1>4 DEF TypeOK, GetPortMap
<1>5. ASSUME NEW c \in Clients, DelPortMap(c) PROVE TypeOK'
  BY <1>5 DEF TypeOK, DelPortMap, ClearPort
<1>6. ASSUME NEW c \in Clients, PortIdFree(c) PROVE TypeOK'
  <2>1. portIdPool' \in [Slots -> Slots]
    BY <1>0, <1>6 DEF TypeOK, PortIdFree, PushPort
  <2>2. pc' \in [Clients -> {"idle", "inc", "add", "del", "free", "dec"}]
    BY <1>6 DEF TypeOK, PortIdFree
  <2>3. QED
    BY <1>6, <2>1, <2>2 DEF TypeOK, PortIdFree
<1>7. ASSUME NEW c \in Clients, DecPortNum(c) PROVE TypeOK'
  BY <1>7 DEF TypeOK, DecPortNum
<1>8. CASE UNCHANGED vars
  BY <1>8 DEF TypeOK, vars
<1>9. QED
  BY <1>1, <1>2, <1>3, <1>4, <1>5, <1>6, <1>7, <1>8 DEF Next, ClientStep

(* The head of a well-formed free list is a number nobody has. *)
LEMMA HeadIsFree ==
  ASSUME TypeOK, FreeListExact, portIdPool[0] # 0
  PROVE  portIdPool[0] \in FreeIds
<1>1. PICK n \in 0 .. MAXPORT - 1 : \E s \in [1 .. n -> PortIds] : ListedBy(n, s)
  BY DEF FreeListExact
<1>2. PICK s \in [1 .. n -> PortIds] : ListedBy(n, s)
  BY <1>1
<1>3. n # 0 /\ portIdPool[0] = s[1]
  BY <1>2 DEF ListedBy
<1>4. 1 \in 1 .. n
  BY <1>3
<1>5. QED
  BY <1>2, <1>3, <1>4 DEF ListedBy
-----------------------------------------------------------------------------
(* The three ways a step moves a number: portIdAlloc takes the head for c, *)
(* portIdFree gives c's number back, every other step moves none.          *)
LEMMA AllocBusy ==
  ASSUME TypeOK, NEW c \in Clients, PortIdAlloc(c)
  PROVE  /\ \A d \in Clients \ {c} : Busy(d)' = Busy(d)
         /\ Busy(c)' = Busy(c) \cup ({portIdPool[0]} \ {0})
<1>1. pc[c] = "idle" /\ pc'[c] = AfterAlloc(c) /\ cur'[c] = portIdPool[0] /\ held' = held
  BY DEF PortIdAlloc, TypeOK
<1>2. \A d \in Clients \ {c} : pc'[d] = pc[d] /\ cur'[d] = cur[d]
  BY DEF PortIdAlloc, TypeOK
<1>3. Busy(c) = held[c]
  BY <1>1 DEF Busy, InFlight
<1>4. CASE portIdPool[0] = 0
  BY <1>1, <1>2, <1>3, <1>4 DEF Busy, InFlight, AfterAlloc
<1>5. CASE portIdPool[0] # 0
  <2>1. pc'[c] \in {"inc", "add"}
    BY <1>1, <1>5 DEF AfterAlloc
  <2>2. QED
    BY <1>1, <1>2, <1>3, <1>5, <2>1 DEF Busy, InFlight
<1>6. QED
  BY <1>4, <1>5

LEMMA FreeBusy ==
  ASSUME TypeOK, NoSharedPort, NEW c \in Clients, PortIdFree(c)
  PROVE  /\ \A d \in Clients \ {c} : Busy(d)' = Busy(d)
         /\ Busy(c)' = Busy(c) \ {cur[c]}
         /\ cur[c] \in Busy(c)
<1>1. pc[c] = "free" /\ pc'[c] \in {"dec", "idle"} /\ cur' = cur /\ held' = held
  BY DEF PortIdFree, TypeOK
<1>2. \A d \in Clients \ {c} : pc'[d] = pc[d]
  BY DEF PortIdFree, TypeOK
<1>3. cur[c] \notin held[c]
  BY <1>1 DEF NoSharedPort
<1>4. QED
  BY <1>1, <1>2, <1>3 DEF Busy, InFlight

(* The steps of a call between taking the number and giving it back. *)
InnerStep(c) ==
  \/ IncPortNum(c) \/ AddPortMap(c)
  \/ \E p \in PortIds : GetPortMap(c, p)
  \/ DelPortMap(c) \/ DecPortNum(c)

LEMMA InnerBusy ==
  ASSUME TypeOK, NEW c \in Clients, InnerStep(c)
  PROVE  \A d \in Clients : Busy(d)' = Busy(d)
<1>1. CASE IncPortNum(c)
  BY <1>1 DEF IncPortNum, Busy, InFlight, TypeOK
<1>2. CASE AddPortMap(c)
  BY <1>2 DEF AddPortMap, Busy, InFlight, TypeOK
<1>3. ASSUME NEW p \in PortIds, GetPortMap(c, p) PROVE \A d \in Clients : Busy(d)' = Busy(d)
  BY <1>3 DEF GetPortMap, Busy, InFlight, TypeOK
<1>4. CASE DelPortMap(c)
  BY <1>4 DEF DelPortMap, Busy, InFlight, TypeOK
<1>5. CASE DecPortNum(c)
  BY <1>5 DEF DecPortNum, Busy, InFlight, TypeOK
<1>6. QED
  BY <1>1, <1>2, <1>3, <1>4, <1>5 DEF InnerStep

(* Every step is one of the three. *)
LEMMA StepCases ==
  ASSUME Next
  PROVE  \E c \in Clients : PortIdAlloc(c) \/ PortIdFree(c) \/ InnerStep(c)
BY DEF Next, ClientStep, InnerStep

(* What all the holders have changes by the same number. *)
LEMMA FreeIdsStep ==
  ASSUME TypeOK, NoSharedPort, NEW c \in Clients
  PROVE  /\ PortIdAlloc(c) => FreeIds' = FreeIds \ {portIdPool[0]}
         /\ PortIdFree(c)  => FreeIds' = FreeIds \cup {cur[c]} /\ cur[c] \notin FreeIds
                              /\ cur[c] \in PortIds
         /\ InnerStep(c)   => FreeIds' = FreeIds
<1>1. ASSUME PortIdAlloc(c) PROVE FreeIds' = FreeIds \ {portIdPool[0]}
  <2>1. 0 \notin PortIds
    BY DEF PortIds
  <2>2. QED
    BY <1>1, <2>1, AllocBusy DEF FreeIds
<1>2. ASSUME PortIdFree(c)
      PROVE FreeIds' = FreeIds \cup {cur[c]} /\ cur[c] \notin FreeIds /\ cur[c] \in PortIds
  <2>1. cur[c] \in PortIds
    BY <1>2 DEF PortIdFree, TypeOK
  <2>2. \A d \in Clients \ {c} : cur[c] \notin Busy(d)
    BY <1>2, FreeBusy DEF NoSharedPort
  <2>3. QED
    BY <1>2, <2>1, <2>2, FreeBusy DEF FreeIds
<1>3. ASSUME InnerStep(c) PROVE FreeIds' = FreeIds
  BY <1>3, InnerBusy DEF FreeIds
<1>4. QED
  BY <1>1, <1>2, <1>3
-----------------------------------------------------------------------------
(* No number is shared after a step: the one taken was free. *)
LEMMA SharedStep ==
  ASSUME TypeOK, NoSharedPort, FreeListExact, Next
  PROVE  NoSharedPort'
<1>1. PICK c \in Clients : PortIdAlloc(c) \/ PortIdFree(c) \/ InnerStep(c)
  BY StepCases
<1>2. CASE PortIdAlloc(c)
  <2>1. portIdPool[0] # 0 => \A d \in Clients : portIdPool[0] \notin Busy(d)
    BY HeadIsFree DEF FreeIds
  <2>2. \A d, e \in Clients : d # e => Busy(d)' \cap Busy(e)' = {}
    <3>1. \A d \in Clients \ {c} : Busy(c)' \cap Busy(d)' = {}
      BY <1>2, <2>1, AllocBusy DEF NoSharedPort
    <3>2. \A d, e \in Clients \ {c} : d # e => Busy(d)' \cap Busy(e)' = {}
      BY <1>2, AllocBusy DEF NoSharedPort
    <3>3. QED
      BY <3>1, <3>2
  <2>3. \A d \in Clients : pc'[d] # "idle" => cur'[d] \notin held'[d]
    <3>1. portIdPool[0] # 0 => portIdPool[0] \notin held[c]
      BY <2>1 DEF Busy
    <3>2. QED
      BY <1>2, <3>1 DEF PortIdAlloc, AfterAlloc, TypeOK, NoSharedPort
  <2>4. QED
    BY <2>2, <2>3 DEF NoSharedPort
<1>3. CASE PortIdFree(c)
  <2>1. \A d \in Clients : Busy(d)' \subseteq Busy(d)
    BY <1>3, FreeBusy
  <2>2. \A d \in Clients : pc'[d] # "idle" => cur'[d] \notin held'[d]
    BY <1>3 DEF PortIdFree, TypeOK, NoSharedPort
  <2>3. QED
    BY <2>1, <2>2 DEF NoSharedPort
<1>4. CASE InnerStep(c)
  <2>1. \A d \in Clients : Busy(d)' = Busy(d)
    BY <1>4, InnerBusy
  <2>2. \A d \in Clients : pc'[d] # "idle" => cur'[d] \notin held'[d]
    <3>1. CASE IncPortNum(c)
      BY <3>1 DEF IncPortNum, TypeOK, NoSharedPort
    <3>2. CASE AddPortMap(c)
      BY <3>2 DEF AddPortMap, TypeOK, NoSharedPort
    <3>3. ASSUME NEW p \in PortIds, GetPortMap(c, p)
          PROVE \A d \in Clients : pc'[d] # "idle" => cur'[d] \notin held'[d]
      BY <3>3 DEF GetPortMap, TypeOK, NoSharedPort
    <3>4. CASE DelPortMap(c)
      BY <3>4 DEF DelPortMap, TypeOK, NoSharedPort
    <3>5. CASE DecPortNum(c)
      BY <3>5 DEF DecPortNum, TypeOK, NoSharedPort
    <3>6. QED
      BY <1>4, <3>1, <3>2, <3>3, <3>4, <3>5 DEF InnerStep
  <2>3. QED
    BY <2>1, <2>2 DEF NoSharedPort
<1>5. QED
  BY <1>1, <1>2, <1>3, <1>4

(* The port map follows the holders. *)
LEMMA MapStep ==
  ASSUME TypeOK, NoSharedPort, PortMapOwner, Next
  PROVE  PortMapOwner'
<1>1. PICK c \in Clients : ClientStep(c)
  BY DEF Next
<1>2. CASE PortIdAlloc(c)
  BY <1>2 DEF PortIdAlloc, AfterAlloc, TypeOK, PortMapOwner
<1>3. CASE IncPortNum(c)
  BY <1>3 DEF IncPortNum, TypeOK, PortMapOwner
<1>4. CASE AddPortMap(c)
  <2>1. cur[c] \in PortIds /\ cur[c] \in Busy(c)
    BY <1>4 DEF AddPortMap, TypeOK, Busy, InFlight
  <2>2. \A d \in Clients \ {c} : cur[c] \notin held[d] /\ ~ (pc[d] = "del" /\ cur[d] = cur[c])
    BY <2>1 DEF NoSharedPort, Busy, InFlight
  <2>3. /\ \A p \in PortIds : ports'[p] = IF p = cur[c] THEN c ELSE ports[p]
        /\ \A d \in Clients : held'[d] = IF d = c THEN held[c] \cup {cur[c]} ELSE held[d]
        /\ \A d \in Clients : pc'[d] = IF d = c THEN "idle" ELSE pc[d]
        /\ cur' = cur /\ pc[c] = "add"
    BY <1>4, <2>1 DEF AddPortMap, TypeOK
  <2>4. QED
    BY <2>2, <2>3 DEF PortMapOwner
<1>5. ASSUME NEW p \in PortIds, GetPortMap(c, p) PROVE PortMapOwner'
  BY <1>5 DEF GetPortMap, TypeOK, PortMapOwner
<1>6. CASE DelPortMap(c)
  <2>1. cur[c] \in PortIds /\ cur[c] \in Busy(c) /\ cur[c] \notin held[c]
    BY <1>6 DEF DelPortMap, TypeOK, Busy, InFlight, NoSharedPort
  <2>2. \A d \in Clients \ {c} : cur[c] \notin held[d] /\ ~ (pc[d] = "del" /\ cur[d] = cur[c])
    BY <2>1 DEF NoSharedPort, Busy, InFlight
  <2>3. /\ \A p \in PortIds : ports'[p] = IF p = cur[c] THEN NoPio ELSE ports[p]
        /\ \A d \in Clients : pc'[d] = IF d = c THEN "free" ELSE pc[d]
        /\ cur' = cur /\ pc[c] = "del" /\ held' = held
    BY <1>6, <2>1 DEF DelPortMap, ClearPort, TypeOK
  <2>4. QED
    BY <2>1, <2>2, <2>3, FdbPortAssumption DEF PortMapOwner
<1>7. CASE PortIdFree(c)
  BY <1>7 DEF PortIdFree, TypeOK, PortMapOwner
<1>8. CASE DecPortNum(c)
  BY <1>8 DEF DecPortNum, TypeOK, PortMapOwner
<1>9. QED
  BY <1>1, <1>2, <1>3, <1>4, <1>5, <1>6, <1>7, <1>8 DEF ClientStep

(* The free list stays exact: portIdAlloc drops its first number,          *)
(* portIdFree puts a number in front.                                      *)
LEMMA FreeStep ==
  ASSUME TypeOK, NoSharedPort, FreeListExact, Next
  PROVE  FreeListExact'
<1>1. PICK c \in Clients : PortIdAlloc(c) \/ PortIdFree(c) \/ InnerStep(c)
  BY StepCases
<1>2. PICK n \in 0 .. MAXPORT - 1 : \E s \in [1 .. n -> PortIds] : ListedBy(n, s)
  BY DEF FreeListExact
<1>3. PICK s \in [1 .. n -> PortIds] : ListedBy(n, s)
  BY <1>2
<1>4. CASE PortIdAlloc(c) /\ n = 0
  <2>1. portIdPool[0] = 0 /\ 0 \in Slots
    BY <1>3, <1>4, FdbPortAssumption DEF ListedBy, Slots
  <2>2. portIdPool' = portIdPool
    BY <1>4, <2>1 DEF PortIdAlloc, PopPort, TypeOK
  <2>3. FreeIds' = FreeIds
    BY <1>4, <2>1, FreeIdsStep DEF FreeIds, PortIds
  <2>4. ListedBy(n, s)'
    BY <1>3, <2>2, <2>3 DEF ListedBy
  <2>5. QED
    BY <2>4 DEF FreeListExact
<1>5. CASE PortIdAlloc(c) /\ n # 0
  <2> DEFINE m == n - 1
             t == [i \in 1 .. m |-> s[i + 1]]
  <2>1. m \in 0 .. MAXPORT - 1 /\ t \in [1 .. m -> PortIds] /\ 1 \in 1 .. n
    BY <1>5, FdbPortAssumption
  <2>2. portIdPool[0] = s[1] /\ s[1] \in PortIds /\ s[1] # 0 /\ 0 \in Slots
    BY <1>3, <1>5, <2>1, FdbPortAssumption DEF ListedBy, PortIds, Slots
  <2>3. portIdPool' = [portIdPool EXCEPT ![0] = portIdPool[s[1]]]
    BY <1>5, <2>2 DEF PortIdAlloc, PopPort
  <2>4. portIdPool'[0] = portIdPool[s[1]] /\ \A p \in PortIds : portIdPool'[p] = portIdPool[p]
    BY <2>2, <2>3, FdbPortAssumption DEF TypeOK, PortIds, Slots
  <2>5. portIdPool'[0] = IF m = 0 THEN 0 ELSE t[1]
    BY <1>3, <1>5, <2>1, <2>4 DEF ListedBy
  <2>6. \A i \in 1 .. m : portIdPool'[t[i]] = IF i = m THEN 0 ELSE t[i + 1]
    <3>1. TAKE i \in 1 .. m
    <3>2. i + 1 \in 1 .. n /\ t[i] = s[i + 1] /\ t[i] \in PortIds
      BY <2>1
    <3>3. portIdPool'[t[i]] = IF i + 1 = n THEN 0 ELSE s[i + 2]
      BY <1>3, <2>4, <3>2 DEF ListedBy
    <3>4. QED
      BY <3>3
  <2>7. \A i, j \in 1 .. m : t[i] = t[j] => i = j
    BY <1>3 DEF ListedBy
  <2>8. FreeIds' = {t[i] : i \in 1 .. m}
    <3>1. FreeIds' = FreeIds \ {s[1]}
      BY <1>5, <2>2, FreeIdsStep
    <3>2. FreeIds = {s[i] : i \in 1 .. n} /\ \A i \in 1 .. n : s[i] = s[1] => i = 1
      BY <1>3, <2>1 DEF ListedBy
    <3>3. \A i \in 2 .. n : i - 1 \in 1 .. m /\ t[i - 1] = s[i]
      BY <1>5
    <3>4. \A i \in 1 .. m : t[i] = s[i + 1] /\ i + 1 \in 2 .. n
      BY <1>5
    <3>5. 1 .. n = {1} \cup 2 .. n
      BY <1>5
    <3>6. FreeIds' = {s[i] : i \in 2 .. n}
      BY <3>1, <3>2, <3>5
    <3>7. QED
      BY <3>3, <3>4, <3>6
  <2>9. ListedBy(m, t)'
    BY <2>5, <2>6, <2>7, <2>8 DEF ListedBy
  <2>10. QED
    BY <2>1, <2>9 DEF FreeListExact
<1>6. CASE PortIdFree(c)
  <2>0. PICK p \in PortIds : p = cur[c]
    BY <1>6, FreeIdsStep
  <2> DEFINE m == n + 1
             t == [i \in 1 .. m |-> IF i = 1 THEN p ELSE s[i - 1]]
  <2>1. p \in PortIds /\ p \notin FreeIds /\ FreeIds' = FreeIds \cup {p}
    BY <1>6, <2>0, FreeIdsStep
  <2>2. n \in Nat /\ t \in [1 .. m -> PortIds]
    BY <2>1
  <2>3. portIdPool' = [portIdPool EXCEPT ![p] = portIdPool[0], ![0] = p]
    BY <1>6, <2>0 DEF PortIdFree, PushPort
  <2>4. /\ portIdPool'[0] = p
        /\ portIdPool'[p] = portIdPool[0]
        /\ \A q \in PortIds \ {p} : portIdPool'[q] = portIdPool[q]
    <3> HIDE DEF t, m
    <3>0. 0 \in Slots /\ 0 \notin PortIds /\ PortIds \subseteq Slots
      BY FdbPortAssumption DEF PortIds, Slots
    <3>1. portIdPool \in [Slots -> Slots] /\ 0 \in Slots /\ 0 \notin PortIds /\ PortIds \subseteq Slots
      BY <3>0 DEF TypeOK
    <3>2. p \in Slots /\ p # 0
      BY <2>1, <3>1
    <3>3. QED
      BY <2>3, <3>1, <3>2
  <2>5. \A i \in 1 .. n : s[i] # p /\ s[i] \in PortIds
    BY <1>3, <2>1 DEF ListedBy
  <2>6. portIdPool'[0] = IF m = 0 THEN 0 ELSE t[1]
    BY <2>2, <2>4
  <2>7. \A i \in 1 .. m : portIdPool'[t[i]] = IF i = m THEN 0 ELSE t[i + 1]
    <3>1. TAKE i \in 1 .. m
    <3>2. CASE i = 1
      BY <1>3, <2>2, <2>4, <3>2 DEF ListedBy
    <3>3. CASE i # 1
      <4>1. i - 1 \in 1 .. n /\ t[i] = s[i - 1]
        BY <3>3
      <4>2. portIdPool'[t[i]] = IF i - 1 = n THEN 0 ELSE s[i]
        BY <1>3, <2>4, <2>5, <4>1 DEF ListedBy
      <4>3. i # m => t[i + 1] = s[i]
        BY <3>3
      <4>4. QED
        BY <2>2, <4>2, <4>3
    <3>4. QED
      BY <3>2, <3>3
  <2>8. \A i, j \in 1 .. m : t[i] = t[j] => i = j
    <3>1. TAKE i, j \in 1 .. m
    <3>2. CASE i = 1 /\ j = 1
      BY <3>2
    <3>3. CASE i = 1 /\ j # 1
      BY <2>5, <3>3
    <3>4. CASE i # 1 /\ j = 1
      BY <2>5, <3>4
    <3>5. CASE i # 1 /\ j # 1
      <4>1. i - 1 \in 1 .. n /\ j - 1 \in 1 .. n /\ t[i] = s[i - 1] /\ t[j] = s[j - 1]
        BY <3>5
      <4>2. t[i] = t[j] => i - 1 = j - 1
        BY <1>3, <4>1 DEF ListedBy
      <4>3. QED
        BY <4>2
    <3>6. QED
      BY <3>2, <3>3, <3>4, <3>5
  <2>9. FreeIds' = {t[i] : i \in 1 .. m}
    <3>1. FreeIds = {s[i] : i \in 1 .. n}
      BY <1>3 DEF ListedBy
    <3>2. \A i \in 1 .. n : i + 1 \in 1 .. m /\ t[i + 1] = s[i]
      OBVIOUS
    <3>3. \A i \in 1 .. m : i = 1 \/ (i - 1 \in 1 .. n /\ t[i] = s[i - 1])
      OBVIOUS
    <3>4. 1 \in 1 .. m /\ t[1] = p
      BY <2>2
    <3> HIDE DEF t
    <3>5. FreeIds' \subseteq {t[i] : i \in 1 .. m}
      BY <2>1, <3>1, <3>2, <3>4
    <3>6. {t[i] : i \in 1 .. m} \subseteq FreeIds'
      BY <2>1, <3>1, <3>3, <3>4
    <3>7. QED
      BY <3>5, <3>6
  <2>10. m \in 0 .. MAXPORT - 1
    <3>1. IsFiniteSet(1 .. m) /\ Cardinality(1 .. m) = m
      BY <2>2, FS_Interval
    <3>2. IsFiniteSet(PortIds) /\ Cardinality(PortIds) = MAXPORT - 1
      BY FdbPortAssumption, FS_Interval DEF PortIds
    <3>3. ~ (MAXPORT - 1 < m)
      <4> HIDE DEF m, t
      <4>1. SUFFICES ASSUME Cardinality(PortIds) < Cardinality(1 .. m) PROVE FALSE
        BY <3>1, <3>2
      <4>2. \E i, j \in 1 .. m : i # j /\ t[i] = t[j]
        BY <2>2, <3>1, <3>2, <4>1, FS_PigeonHole
      <4>3. QED
        BY <2>8, <4>2
    <3>4. QED
      BY <2>2, <3>3, FdbPortAssumption
  <2>11. ListedBy(m, t)'
    BY <2>6, <2>7, <2>8, <2>9 DEF ListedBy
  <2>12. QED
    BY <2>2, <2>10, <2>11 DEF FreeListExact
<1>7. CASE InnerStep(c)
  <2>1. portIdPool' = portIdPool
    BY <1>7 DEF InnerStep, IncPortNum, AddPortMap, GetPortMap, DelPortMap, DecPortNum
  <2>2. FreeIds' = FreeIds
    BY <1>7, FreeIdsStep
  <2>3. ListedBy(n, s)'
    BY <1>3, <2>1, <2>2 DEF ListedBy
  <2>4. QED
    BY <2>3 DEF FreeListExact
<1>8. QED
  BY <1>1, <1>4, <1>5, <1>6, <1>7
-----------------------------------------------------------------------------
LEMMA OnlyCountedStep ==
  ASSUME TypeOK, OnlyCounted, Next
  PROVE  OnlyCounted'
<1>1. PICK c \in Clients : ClientStep(c)
  BY DEF Next
<1>2. \A d \in Clients \ {c} : pc'[d] = pc[d]
  BY <1>1 DEF ClientStep, PortIdAlloc, IncPortNum, AddPortMap, GetPortMap, DelPortMap,
              PortIdFree, DecPortNum, TypeOK
<1>3. pc'[c] = "inc" => Inc(c)
  BY <1>1 DEF ClientStep, PortIdAlloc, IncPortNum, AddPortMap, GetPortMap, DelPortMap,
              PortIdFree, DecPortNum, TypeOK, AfterAlloc
<1>4. pc'[c] = "dec" => Inc(c)
  BY <1>1 DEF ClientStep, PortIdAlloc, IncPortNum, AddPortMap, GetPortMap, DelPortMap,
              PortIdFree, DecPortNum, TypeOK, AfterAlloc, Inc, Dec
<1>5. QED
  BY <1>2, <1>3, <1>4 DEF OnlyCounted, Inc

LEMMA CountedFinite == IsFiniteSet(Counted)
<1>1. IsFiniteSet(Clients) /\ IsFiniteSet(PortIds)
  BY FdbPortAssumption, FS_Interval DEF PortIds
<1>2. IsFiniteSet(Clients \X PortIds)
  BY <1>1, FS_Product
<1>3. Counted \subseteq Clients \X PortIds
  BY DEF Counted
<1>4. QED
  BY <1>2, <1>3, FS_Subset

(* Only incPortNum and decPortNum change who is counted, by one. *)
LEMMA CountStep ==
  ASSUME TypeOK, NoSharedPort, OnlyCounted, AllocNumExact, Next
  PROVE  AllocNumExact'
<1>1. PICK c \in Clients : ClientStep(c)
  BY DEF Next
<1>2. CASE PortIdAlloc(c)
  BY <1>2 DEF PortIdAlloc, AfterAlloc, TypeOK, Counted, AllocNumExact
<1>3. CASE IncPortNum(c)
  <2>1. Inc(c) /\ pc[c] = "inc" /\ cur[c] \in PortIds /\ cur[c] \notin held[c]
    BY <1>3 DEF IncPortNum, OnlyCounted, TypeOK, NoSharedPort
  <2>2. held' = held /\ cur' = cur /\ \A d \in Clients : pc'[d] = IF d = c THEN "add" ELSE pc[d]
    BY <1>3 DEF IncPortNum, TypeOK
  <2>3. <<c, cur[c]>> \notin Counted
    BY <2>1 DEF Counted
  <2>4. Counted' = Counted \cup {<<c, cur[c]>>}
    BY <2>1, <2>2 DEF Counted, Inc
  <2>5. Cardinality(Counted') = Cardinality(Counted) + 1
    BY <2>3, <2>4, CountedFinite, FS_AddElement
  <2>6. QED
    BY <1>3, <2>5 DEF IncPortNum, AllocNumExact
<1>4. CASE AddPortMap(c)
  <2>1. Counted' = Counted
    BY <1>4 DEF AddPortMap, TypeOK, Counted, Inc
  <2>2. QED
    BY <1>4, <2>1 DEF AddPortMap, AllocNumExact
<1>5. ASSUME NEW p \in PortIds, GetPortMap(c, p) PROVE AllocNumExact'
  <2>1. Counted' = Counted
    BY <1>5 DEF GetPortMap, TypeOK, Counted, Inc
  <2>2. QED
    BY <1>5, <2>1 DEF GetPortMap, AllocNumExact
<1>6. CASE DelPortMap(c)
  <2>1. Counted' = Counted
    BY <1>6 DEF DelPortMap, TypeOK, Counted, Inc
  <2>2. QED
    BY <1>6, <2>1 DEF DelPortMap, AllocNumExact
<1>7. CASE PortIdFree(c)
  <2>1. Counted' = Counted
    BY <1>7 DEF PortIdFree, TypeOK, Counted, Inc, Dec
  <2>2. QED
    BY <1>7, <2>1 DEF PortIdFree, AllocNumExact
<1>8. CASE DecPortNum(c)
  <2>1. Inc(c) /\ pc[c] = "dec" /\ cur[c] \in PortIds /\ cur[c] \notin held[c]
    BY <1>8 DEF DecPortNum, OnlyCounted, TypeOK, NoSharedPort
  <2>2. held' = held /\ cur' = cur /\ \A d \in Clients : pc'[d] = IF d = c THEN "idle" ELSE pc[d]
    BY <1>8 DEF DecPortNum, TypeOK
  <2>3. <<c, cur[c]>> \in Counted
    BY <2>1 DEF Counted
  <2>4. Counted' = Counted \ {<<c, cur[c]>>}
    BY <2>1, <2>2 DEF Counted, Inc
  <2>5. Cardinality(Counted') = Cardinality(Counted) - 1
    BY <2>3, <2>4, CountedFinite, FS_RemoveElement
  <2>6. QED
    BY <1>8, <2>5 DEF DecPortNum, AllocNumExact
<1>9. QED
  BY <1>1, <1>2, <1>3, <1>4, <1>5, <1>6, <1>7, <1>8 DEF ClientStep
-----------------------------------------------------------------------------
(* initPortPool lists the numbers from MAXPORT - 1 down to 1. *)
LEMMA InitInv == Init => IInv
<1> SUFFICES ASSUME Init PROVE IInv
  OBVIOUS
<1>1. TypeOK
  BY FdbPortAssumption DEF Init, TypeOK, InitPortPool, Slots, PortIds
<1>2. \A c \in Clients : held[c] = {} /\ pc[c] = "idle" /\ Busy(c) = {}
  BY DEF Init, Busy, InFlight
<1>3. NoSharedPort /\ OnlyCounted
  BY <1>2 DEF NoSharedPort, OnlyCounted
<1>4. PortMapOwner
  BY <1>2, FdbPortAssumption DEF PortMapOwner, Init
<1>5. FreeListExact
  <2> DEFINE n == MAXPORT - 1
             s == [i \in 1 .. n |-> MAXPORT - i]
  <2>1. n \in 0 .. MAXPORT - 1 /\ s \in [1 .. n -> PortIds]
    BY FdbPortAssumption DEF PortIds
  <2>2. FreeIds = PortIds
    BY <1>2 DEF FreeIds
  <2>3. PortIds = {s[i] : i \in 1 .. n}
    <3>1. \A p \in PortIds : MAXPORT - p \in 1 .. n /\ s[MAXPORT - p] = p
      BY FdbPortAssumption DEF PortIds
    <3>2. QED
      BY <2>1, <3>1
  <2>4. portIdPool = [p \in Slots |-> IF p = 0 THEN MAXPORT - 1 ELSE p - 1]
    BY DEF Init, InitPortPool
  <2>5. portIdPool[0] = IF n = 0 THEN 0 ELSE s[1]
    BY <2>4, FdbPortAssumption DEF Slots
  <2>6. \A i \in 1 .. n : portIdPool[s[i]] = IF i = n THEN 0 ELSE s[i + 1]
    BY <2>4, FdbPortAssumption DEF Slots
  <2>7. \A i, j \in 1 .. n : s[i] = s[j] => i = j
    BY FdbPortAssumption
  <2>8. ListedBy(n, s)
    BY <2>2, <2>3, <2>5, <2>6, <2>7 DEF ListedBy
  <2>9. QED
    BY <2>1, <2>8 DEF FreeListExact
<1>6. AllocNumExact
  <2>1. Counted = {}
    BY <1>2 DEF Counted
  <2>2. QED
    BY <2>1, FS_EmptySet DEF Init, AllocNumExact
<1>7. QED
  BY <1>1, <1>3, <1>4, <1>5, <1>6 DEF IInv

LEMMA StepInv == IInv /\ [Next]_vars => IInv'
<1> SUFFICES ASSUME IInv, [Next]_vars PROVE IInv'
  OBVIOUS
<1>1. CASE Next
  BY <1>1, TypeStep, SharedStep, MapStep, FreeStep, OnlyCountedStep, CountStep DEF IInv
<1>2. CASE UNCHANGED vars
  <2>1. TypeOK'
    BY TypeStep, <1>2 DEF IInv
  <2>2. NoSharedPort' /\ PortMapOwner' /\ OnlyCounted'
    BY <1>2 DEF IInv, vars, NoSharedPort, PortMapOwner, OnlyCounted, Busy, InFlight, Inc
  <2>3. FreeListExact'
    BY <1>2 DEF IInv, vars, FreeListExact, ListedBy, FreeIds, Busy, InFlight
  <2>4. AllocNumExact'
    BY <1>2 DEF IInv, vars, AllocNumExact, Counted, Inc
  <2>5. QED
    BY <2>1, <2>2, <2>3, <2>4 DEF IInv
<1>3. QED
  BY <1>1, <1>2

(* The inductive invariant of the ports of an FDB. *)
THEOREM Invariance == Spec => []IInv
  BY InitInv, StepInv, PTL DEF Spec

(* The pool's slots, the map and the calls under way keep their types. *)
THEOREM TypeCorrect == Spec => []TypeOK
<1>1. IInv => TypeOK
  BY DEF IInv
<1>2. QED
  BY Invariance, <1>1, PTL

(* Two clients never have one port number, whatever the interleaving of    *)
(* their JoinFwdPort and ReleaseFwdPort calls.                             *)
THEOREM PortsNotShared == Spec => []NoSharedPort
<1>1. IInv => NoSharedPort
  BY DEF IInv
<1>2. QED
  BY Invariance, <1>1, PTL

(* The free list holds exactly the numbers nobody has: none leaks. *)
THEOREM FreeListCorrect == Spec => []FreeListExact
<1>1. IInv => FreeListExact
  BY DEF IInv
<1>2. QED
  BY Invariance, <1>1, PTL

(* The entry of the port map is its holder's. *)
THEOREM PortMapCorrect == Spec => []PortMapOwner
<1>1. IInv => PortMapOwner
  BY DEF IInv
<1>2. QED
  BY Invariance, <1>1, PTL

(* decPortNum's panic("allocNum < 0") is unreachable. *)
THEOREM NumNonNegative == Spec => []NumNeverNegative
<1>1. IInv => NumNeverNegative
  BY CountedFinite, FS_CardinalityType DEF IInv, AllocNumExact, NumNeverNegative
<1>2. QED
  BY Invariance, <1>1, PTL

(* getPortNum() = 0 is a sound test that no counted client is in the map. *)
THEOREM ZeroIsEmpty == Spec => []ZeroMeansEmpty
<1>1. ASSUME IInv PROVE ZeroMeansEmpty
  <2>1. SUFFICES ASSUME allocNum = 0, NEW p \in PortIds, NEW c \in Clients, Inc(c), ports[p] = c
                 PROVE FALSE
    BY DEF ZeroMeansEmpty
  <2>2. <<c, p>> \in Counted
    BY <1>1, <2>1 DEF IInv, PortMapOwner, Counted
  <2>3. Counted = {}
    BY <1>1, <2>1, CountedFinite, FS_EmptySet DEF IInv, AllocNumExact
  <2>4. QED
    BY <2>2, <2>3
<1>2. QED
  BY Invariance, <1>1, PTL

(* Whatever joins and releases run at once, numbers are neither shared nor *)
(* lost, and the port map leads to the holder.                             *)
THEOREM PoolCorrect == Spec => []PoolExact
<1>1. NoSharedPort /\ PortMapOwner /\ FreeListExact => PoolExact
  BY DEF PoolExact
<1>2. QED
  BY PortsNotShared, PortMapCorrect, FreeListCorrect, <1>1, PTL

(* allocNum counts the counted joins, in the middle of calls, too. *)
THEOREM CountCorrect == Spec => []CountSafe
<1>1. IInv => AllocNumExact
  BY DEF IInv
<1>2. AllocNumExact /\ NumNeverNegative /\ ZeroMeansEmpty => CountSafe
  BY DEF CountSafe
<1>3. QED
  BY Invariance, NumNonNegative, ZeroIsEmpty, <1>1, <1>2, PTL

(* The free list of fdb/port.go implements the abstract allocator. *)
THEOREM Implements == Spec => Allocation
<1>1. Init => Allocator!Init
  BY DEF Init, Allocator!Init, Busy, InFlight
<1>2. IInv /\ Next => Allocator!Next \/ UNCHANGED [c \in Clients |-> Busy(c)]
  <2> SUFFICES ASSUME IInv, Next
               PROVE Allocator!Next \/ UNCHANGED [c \in Clients |-> Busy(c)]
    OBVIOUS
  <2>1. PICK c \in Clients : PortIdAlloc(c) \/ PortIdFree(c) \/ InnerStep(c)
    BY StepCases
  <2>2. CASE PortIdAlloc(c) /\ portIdPool[0] = 0
    BY <2>2, AllocBusy DEF IInv
  <2>3. CASE PortIdAlloc(c) /\ portIdPool[0] # 0
    <3>1. portIdPool[0] \in FreeIds
      BY <2>3, HeadIsFree DEF IInv
    <3>2. portIdPool[0] \in Allocator!Unowned
      BY <3>1 DEF FreeIds, Allocator!Unowned
    <3>3. [d \in Clients |-> Busy(d)]'
            = [[d \in Clients |-> Busy(d)] EXCEPT ![c] = @ \cup {portIdPool[0]}]
      BY <2>3, AllocBusy DEF IInv
    <3>4. Allocator!Alloc(c)
      BY <3>2, <3>3 DEF Allocator!Alloc
    <3>5. QED
      BY <3>4 DEF Allocator!Next
  <2>4. CASE PortIdFree(c)
    <3>1. [d \in Clients |-> Busy(d)]'
            = [[d \in Clients |-> Busy(d)] EXCEPT ![c] = @ \ {cur[c]}]
      BY <2>4, FreeBusy DEF IInv
    <3>2. cur[c] \in Busy(c)
      BY <2>4, FreeBusy DEF IInv
    <3>3. Allocator!Release(c)
      BY <3>1, <3>2 DEF Allocator!Release
    <3>4. QED
      BY <3>3 DEF Allocator!Next
  <2>5. CASE InnerStep(c)
    BY <2>5, InnerBusy DEF IInv
  <2>6. QED
    BY <2>1, <2>2, <2>3, <2>4, <2>5
<1>3. UNCHANGED vars => UNCHANGED [c \in Clients |-> Busy(c)]
  BY DEF vars, Busy, InFlight
<1>4. IInv /\ [Next]_vars => [Allocator!Next]_[c \in Clients |-> Busy(c)]
  BY <1>2, <1>3
<1>5. QED
  BY Invariance, <1>1, <1>4, PTL DEF Spec, Allocation, Allocator!Spec
-----------------------------------------------------------------------------
(* A behaviour of MCFdb is one of the part it starts with. *)
Runs(p) == part = p

LEMMA DynPart == MCSpec /\ Runs("dynamic") => Dyn!Spec /\ []Runs("dynamic")
<1>1. MCInit /\ Runs("dynamic") => Dyn!Init
  BY DEF MCInit, Runs
<1>2. Runs("dynamic") /\ [MCNext]_<<part, vars, membership>> => [Dyn!Next]_Dyn!vars /\ Runs("dynamic")'
  BY DEF MCNext, Runs, membership, Dyn!vars, Dyn!global, Dyn!loop, Dyn!update, Dyn!peer
<1>3. QED
  BY <1>1, <1>2, PTL DEF MCSpec, Dyn!Spec

LEMMA LeafPart == MCSpec /\ Runs("leaf") => Leaf!Spec /\ []Runs("leaf")
<1>1. MCInit /\ Runs("leaf") => Leaf!Init
  BY DEF MCInit, Runs
<1>2. Runs("leaf") /\ [MCNext]_<<part, vars, membership>> => [Leaf!Next]_Leaf!vars /\ Runs("leaf")'
  BY DEF MCNext, Runs, membership, Leaf!vars, Leaf!global, Leaf!loop, Leaf!update, Leaf!peer
<1>3. QED
  BY <1>1, <1>2, PTL DEF MCSpec, Leaf!Spec

LEMMA TightPart == MCSpec /\ Runs("tight") => Tight!Spec /\ []Runs("tight")
<1>1. MCInit /\ Runs("tight") => Tight!Init
  BY DEF MCInit, Runs
<1>2. Runs("tight") /\ [MCNext]_<<part, vars, membership>> => [Tight!Next]_Tight!vars /\ Runs("tight")'
  BY DEF MCNext, Runs, membership, Tight!vars, Tight!global, Tight!loop, Tight!update, Tight!peer
<1>3. QED
  BY <1>1, <1>2, PTL DEF MCSpec, Tight!Spec

LEMMA StaticPart == MCSpec /\ Runs("static") => Static!Spec /\ []Runs("static")
<1>1. MCInit /\ Runs("static") => Static!Init
  BY DEF MCInit, Runs
<1>2. Runs("static") /\ [MCNext]_<<part, vars, membership>> => [Static!Next]_Static!vars /\ Runs("static")'
  BY DEF MCNext, Runs, membership, Static!vars, Static!global, Static!loop, Static!update, Static!peer
<1>3. QED
  BY <1>1, <1>2, PTL DEF MCSpec, Static!Spec

LEMMA PortsPart == MCSpec /\ Runs("ports") => []Runs("ports")
<1>1. Runs("ports") /\ [MCNext]_<<part, vars, membership>> => Runs("ports")'
  BY DEF MCNext, Runs
<1>2. QED
  BY <1>1, PTL DEF MCSpec

LEMMA Parts == MCInit => Runs("ports") \/ Runs("dynamic") \/ Runs("leaf") \/ Runs("tight") \/ Runs("static")
BY DEF MCInit, Runs

(* Types; the ports of every FDB object for a client that its own          *)
(* goroutine alone joins and quits for are those it has joined and can     *)
(* give back, and none leads to such a client once it is gone: accepted    *)
(* clients, and in static mode masters (vnet/vid.go).                      *)
THEOREM MembershipCorrect == MCSpec => []MembershipExact
<1>1. /\ Dyn!MembershipAssumption /\ Leaf!MembershipAssumption
      /\ Tight!MembershipAssumption /\ Static!MembershipAssumption
  BY FdbAssumption
<1>2. Dyn!Spec => [](Dyn!TypeOK /\ Dyn!PortsMatchJoined /\ Dyn!GoneIsOut)
  BY <1>1, Dyn!PortsCorrect
<1>3. Leaf!Spec => [](Leaf!TypeOK /\ Leaf!PortsMatchJoined /\ Leaf!GoneIsOut)
  BY <1>1, Leaf!PortsCorrect
<1>4. Tight!Spec => [](Tight!TypeOK /\ Tight!PortsMatchJoined /\ Tight!GoneIsOut)
  BY <1>1, Tight!PortsCorrect
<1>5. Static!Spec => [](Static!TypeOK /\ Static!PortsMatchJoined /\ Static!GoneIsOut)
  BY <1>1, Static!PortsCorrect
<1>6. /\ Runs("ports") => MembershipExact
      /\ Runs("dynamic") /\ Dyn!TypeOK /\ Dyn!PortsMatchJoined /\ Dyn!GoneIsOut => MembershipExact
      /\ Runs("leaf") /\ Leaf!TypeOK /\ Leaf!PortsMatchJoined /\ Leaf!GoneIsOut => MembershipExact
      /\ Runs("tight") /\ Tight!TypeOK /\ Tight!PortsMatchJoined /\ Tight!GoneIsOut => MembershipExact
      /\ Runs("static") /\ Static!TypeOK /\ Static!PortsMatchJoined /\ Static!GoneIsOut => MembershipExact
  BY DEF Runs, MembershipExact
<1>7. QED
  BY <1>2, <1>3, <1>4, <1>5, <1>6, DynPart, LeafPart, TightPart, StaticPart, PortsPart, Parts, PTL DEF MCSpec

(* The counter TryToDelFdbById decides by is the number of devices and     *)
(* counted ports of every FDB object, and without masters no FDB that      *)
(* nobody is in stays in the map once all goroutines are back              *)
(* (fdb/fdb.go).                                                           *)
THEOREM CountDecidesRight == MCSpec => []CountDecides
<1>1. /\ Dyn!MembershipAssumption /\ Leaf!MembershipAssumption
      /\ Tight!MembershipAssumption /\ Static!MembershipAssumption
  BY FdbAssumption
<1>2. Dyn!Spec => [](Dyn!CountExact /\ Dyn!EmptyIsDeleted)
  BY <1>1, Dyn!NumCorrect
<1>3. Leaf!Spec => [](Leaf!CountExact /\ Leaf!EmptyIsDeleted)
  BY <1>1, Leaf!NumCorrect
<1>4. Tight!Spec => [](Tight!CountExact /\ Tight!EmptyIsDeleted)
  BY <1>1, Tight!NumCorrect
<1>5. Static!Spec => [](Static!CountExact /\ Static!EmptyIsDeleted)
  BY <1>1, Static!NumCorrect
<1>6. /\ Runs("ports") => CountDecides
      /\ Runs("dynamic") /\ Dyn!CountExact => CountDecides
      /\ Runs("leaf") /\ Leaf!CountExact /\ Leaf!EmptyIsDeleted => CountDecides
      /\ Runs("tight") /\ Tight!CountExact /\ Tight!EmptyIsDeleted => CountDecides
      /\ Runs("static") /\ Static!CountExact => CountDecides
  BY DEF Runs, CountDecides
<1>7. QED
  BY <1>2, <1>3, <1>4, <1>5, <1>6, DynPart, LeafPart, TightPart, StaticPart, PortsPart, Parts, PTL DEF MCSpec

(* At rest a client is in what its peer's last message named, but for the  *)
(* FDBs that had no port left; with Vids set in none but those of the      *)
(* node, and nobody is in an FDB that is not in the map (vnet/vid.go).     *)
THEOREM JoinedCorrect == MCSpec => []JoinedAsTold
<1>1. Leaf!MembershipAssumption /\ Tight!MembershipAssumption /\ Static!MembershipAssumption
  BY FdbAssumption
<1>2. Leaf!Spec => [](Leaf!JoinedAsTold /\ Leaf!NoOrphan)
  BY <1>1, Leaf!KeysCorrect
<1>3. Tight!Spec => [](Tight!JoinedAsTold /\ Tight!NoOrphan)
  BY <1>1, Tight!KeysCorrect
<1>4. Static!Spec => [](Static!JoinedAsTold /\ Static!NoOrphan)
  BY <1>1, Static!KeysCorrect
<1>5. /\ Runs("ports") => JoinedAsTold
      /\ Runs("dynamic") => JoinedAsTold
      /\ Runs("leaf") /\ Leaf!JoinedAsTold => JoinedAsTold
      /\ Runs("tight") /\ Tight!JoinedAsTold => JoinedAsTold
      /\ Runs("static") /\ Static!JoinedAsTold /\ Static!NoOrphan => JoinedAsTold
  BY DEF Runs, JoinedAsTold
<1>6. QED
  BY <1>2, <1>3, <1>4, <1>5, DynPart, LeafPart, TightPart, StaticPart, PortsPart, Parts, PTL DEF MCSpec
=============================================================================
