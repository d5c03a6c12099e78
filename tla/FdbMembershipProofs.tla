------------------------ MODULE FdbMembershipProofs ------------------------
(***************************************************************************)
(* Proofs about FdbMembership, for any clients, masters, ids and FDB       *)
(* objects, in dynamic and in static mode, for all constants that          *)
(* MembershipAssumption allows.  IInv is the inductive invariant.  Its     *)
(* core: an FDB object has one id wherever somebody has it, so a client    *)
(* that gives an FDB back gives back the port it was given; and what a     *)
(* client has joined, has still to join and has still to quit add up to    *)
(* what its peer has told.                                                 *)
(***************************************************************************)
EXTENDS FdbMembership, FiniteSetTheorems, TLAPS

(* Clients whose fdbJoined only their own goroutine changes: in dynamic    *)
(* mode updateMasterFdb joins and quits for the masters.                   *)
Exact == IF Dynamic THEN Accepted ELSE Members

Busy(c) == at[c] = c /\ pc[c] \in {"quit", "get", "num", "del", "join", "port"}

(* The ids a goroutine has still to join. *)
Joining(p) == {v \in Ids : joins[p][v] > 0} \cup (IF pc[p] = "port" THEN {vid[p]} ELSE {})

(* What a client that follows its peer, or the node, is to have joined. *)
Target(c) == IF c \in Masters THEN Fixed ELSE IF Dynamic THEN told[c] ELSE told[c] \cap Fixed
-----------------------------------------------------------------------------
(* What a goroutine has in its hand. *)
HandOf(p) ==
  /\ obj[p] # None <=> pc[p] \in {"num", "del", "port"}
  /\ vid[p] # None <=> pc[p] \in {"get", "num", "del", "port"}

HandInv == \A p \in Members : HandOf(p)

(* Where a goroutine can be. *)
RoleOf(p) ==
  /\ p \in Masters => pc[p] # "update" /\ pc[p] # "next"
  /\ at[p] # p => Dynamic /\ p \in Accepted /\ at[p] \in Masters
  /\ pc[p] \in {"new", "ids"} => p \in Masters /\ quits[p] = {}
  /\ pc[p] \in {"new", "ids", "idle", "closing", "gone", "update"} => at[p] = p
  /\ pc[p] \in {"new", "ids", "idle"} => p \notin closed
  /\ pc[p] \in {"join", "port", "report", "send"} /\ at[p] = p => p \notin closed
  /\ pc[p] \in {"closing", "gone"} => p \in closed
  /\ p \in closed => p \in Accepted \cup Dialed
  /\ pc[p] \in {"update", "next"} => Dynamic

Roles == \A p \in Members : RoleOf(p)

(* An FDB object has one id, in the map, in fdbJoined of any client and in *)
(* the hand of any goroutine.                                              *)
RefersTo(f, v) ==
  \/ fdbMap[v] = f
  \/ \E c \in Members : joined[c][v] = f \/ (obj[c] = f /\ vid[c] = v)

OneId == \A f \in Fdbs, u, v \in Ids : RefersTo(f, u) /\ RefersTo(f, v) => u = v

(* In static mode the map never changes and everybody uses it. *)
StaticInv ==
  ~ Dynamic =>
    /\ Exists = Fixed
    /\ \A c \in Members, v \in Ids : joined[c][v] # None => joined[c][v] = fdbMap[v]
    /\ \A p \in Members : (pc[p] = "port" => obj[p] = fdbMap[vid[p]]) /\ Joining(p) \subseteq Fixed
                          /\ pc[p] \notin {"get", "num", "del"}

(* The FDB of a device is not taken out of the map: who reads its counter  *)
(* reads that of the FDB in the map, which counts the device.              *)
TunsInv ==
  /\ \A v \in TunIds : fdbMap[v] # None
  /\ \A p \in Members :
       vid[p] \in TunIds => pc[p] # "del" /\ (pc[p] = "num" => obj[p] = fdbMap[vid[p]])

(* A client that has joined an FDB has a port there, and no other port if  *)
(* only its own goroutine joins for it.                                    *)
Has(c, f) == \E v \in Ids : joined[c][v] = f

PortsInv ==
  \A c \in Members, f \in Fdbs :
    /\ Has(c, f) => ports[f][c] > 0
    /\ c \in Exact /\ ~ panic => ports[f][c] = IF Has(c, f) THEN 1 ELSE 0

(* What an exact client is about to join it has not joined yet. *)
PendingOf(c) ==
  Busy(c) => /\ \A v \in Ids : joins[c][v] \in {0, 1}
             /\ Joining(c) \cap Keys(c) = {}
             /\ pc[c] = "port" => joins[c][vid[c]] = 0
             /\ pc[c] \in {"join", "port"} => quits[c] = {}

(* How far an exact client is on its way to its target, or out. *)
KeysOf(c) ==
  IF c \in closed
  THEN /\ Busy(c) => Keys(c) \subseteq quits[c] /\ joins[c] = Nothing /\ pc[c] \notin {"join", "port"}
       /\ ~ Busy(c) /\ pc[c] # "closing" => Keys(c) = {}
  ELSE /\ pc[c] \in {"new", "ids"} => Keys(c) = {}
       /\ Busy(c) => /\ quits[c] \cap Target(c) = {}
                     /\ Keys(c) \subseteq Target(c) \cup quits[c]
                     /\ Joining(c) \subseteq Target(c)
                     /\ Target(c) \subseteq Keys(c) \cup Joining(c) \cup refused[c]
       /\ ~ Busy(c) /\ pc[c] \notin {"new", "ids"} => HasJoined(c, Target(c))

KeysInv == ~ panic => \A c \in Exact : PendingOf(c) /\ KeysOf(c)

CountOf(f) == IsFiniteSet(CountedPorts(f)) /\ num[f] = Cardinality(CountedPorts(f)) + Devices(f)

CountInv == \A f \in Fdbs : CountOf(f)

(* Somebody is about to join the FDB, or to find it empty. *)
Attended(v) ==
  \E p \in Members :
    \/ pc[p] \in {"num", "port"} /\ obj[p] = fdbMap[v]
    \/ pc[p] \in {"get", "del"} /\ vid[p] = v

EmptyInv == Dynamic /\ Masters = {} => \A v \in Exists : num[fdbMap[v]] = 0 => Attended(v)

IInv ==
  /\ TypeOK /\ HandInv /\ Roles /\ OneId /\ StaticInv
  /\ TunsInv /\ PortsInv /\ KeysInv /\ CountInv /\ GoneIsOut /\ EmptyInv
-----------------------------------------------------------------------------
LEMMA ConstantFacts ==
  ASSUME MembershipAssumption
  PROVE  /\ Accepted \subseteq Members /\ Masters \subseteq Members /\ Accepted \cap Masters = {}
         /\ Dialed \subseteq Masters /\ Vids \subseteq Ids /\ TunIds \subseteq Ids /\ Fixed \subseteq Ids
         /\ MaxMsgs \in Nat /\ Capacity \in Nat \ {0}
         /\ None \notin Fdbs /\ None \notin Ids /\ None \notin Members
BY DEF MembershipAssumption, Members, Fixed

LEMMA OnceFacts ==
  ASSUME NEW S
  PROVE  /\ Once(S) \in [Ids -> Nat] /\ \A v \in Ids : Once(S)[v] \in {0, 1} /\ (Once(S)[v] > 0 <=> v \in S)
         /\ Nothing \in [Ids -> Nat] /\ \A v \in Ids : Nothing[v] = 0
BY DEF Once, Nothing

(* Who quits an FDB has a port there, and is counted if it counts. *)
LEMMA ReleaseFacts ==
  ASSUME TypeOK, PortsInv, CountInv, NEW p \in Members, NEW v \in quits[p], joined[at[p]][v] # None
  PROVE  /\ at[p] \in Members /\ v \in Ids /\ joined[at[p]][v] \in Fdbs
         /\ ports[joined[at[p]][v]][at[p]] \in Nat \ {0}
         /\ num[joined[at[p]][v]] - Dec(at[p]) \in Nat
<1> DEFINE c == at[p]
           f == joined[at[p]][v]
<1>1. c \in Members /\ v \in Ids /\ f \in Fdbs
  BY DEF TypeOK
<1>2. ports[f][c] \in Nat \ {0}
  <2>1. Has(c, f)
    BY <1>1 DEF Has
  <2>2. ports[f][c] > 0
    BY <1>1, <2>1 DEF PortsInv
  <2>3. ports[f][c] \in Nat
    BY <1>1 DEF TypeOK
  <2>4. QED
    BY <2>2, <2>3
<1>3. num[f] - Dec(c) \in Nat
  <2>1. num[f] \in Nat
    BY <1>1 DEF TypeOK
  <2>2. CASE ~ Inc(c)
    BY <2>1, <2>2 DEF Dec
  <2>3. CASE Inc(c)
    <3>1. <<c, 1>> \in CountedPorts(f)
      BY <1>1, <1>2, <2>3 DEF CountedPorts
    <3>2. num[f] # 0
      <4>1. IsFiniteSet(CountedPorts(f)) /\ num[f] = Cardinality(CountedPorts(f)) + Devices(f)
        BY <1>1 DEF CountInv, CountOf
      <4>2. Cardinality(CountedPorts(f)) \in Nat /\ Cardinality(CountedPorts(f)) # 0
        BY <3>1, <4>1, FS_EmptySet, FS_CardinalityType
      <4>3. QED
        BY <4>1, <4>2 DEF Devices
    <3>3. QED
      BY <2>1, <2>3, <3>2 DEF Dec
  <2>4. QED
    BY <2>2, <2>3
<1>4. QED
  BY <1>1, <1>2, <1>3

LEMMA TypeStep ==
  ASSUME MembershipAssumption, TypeOK, HandInv, PortsInv, CountInv, [Next]_vars
  PROVE  TypeOK'
<1>0. /\ Accepted \subseteq Members /\ Masters \subseteq Members /\ None \notin Fdbs /\ None \notin Ids
      /\ Nothing \in [Ids -> Nat] /\ \A S : Once(S) \in [Ids -> Nat]
  BY ConstantFacts, OnceFacts
<1>a. fdbMap \in [Ids -> Fdbs \cup {None}] /\ joined \in [Members -> [Ids -> Fdbs \cup {None}]]
  BY DEF TypeOK
<1>b. num \in [Fdbs -> Nat] /\ panic \in BOOLEAN
  BY DEF TypeOK
<1>c. pc \in [Members -> Labels] /\ at \in [Members -> Members]
  BY DEF TypeOK
<1>d. quits \in [Members -> SUBSET Ids] /\ quitIds \in [Members -> SUBSET Ids]
  BY DEF TypeOK
<1>e. joins \in [Members -> [Ids -> Nat]] /\ joinIds \in [Members -> [Ids -> Nat]]
  BY DEF TypeOK
<1>f. vid \in [Members -> Ids \cup {None}] /\ obj \in [Members -> Fdbs \cup {None}]
  BY DEF TypeOK
<1>g. left \in [Members -> SUBSET Masters] /\ seen \in [Members -> SUBSET Masters] /\ master \subseteq Masters
  BY DEF TypeOK
<1>h. ids \in [Members -> SUBSET Ids] /\ rep \in [Members -> SUBSET Ids] /\ sent \in [Members -> SUBSET Ids]
  BY DEF TypeOK
<1>j. refused \in [Members -> SUBSET Ids]
  BY DEF TypeOK
<1>i. \A p \in Members : pc[p] \in {"num", "del", "port"} => obj[p] # None
  BY DEF TypeOK
<1>1. ASSUME NEW p \in Members, HandleFdbIds(p) PROVE TypeOK'
  <2>1. PICK S \in SUBSET Ids :
          /\ told' = Set(told, p, S) /\ quits' = Set(quits, p, ToQuit(p, Common(S)))
          /\ joins' = Set(joins, p, Once(Common(S) \ Keys(p)))
    BY <1>0, <1>1 DEF HandleFdbIds
  <2>2. ToQuit(p, Common(S)) \subseteq Ids /\ Common(S) \ Keys(p) \in SUBSET Ids
    BY <1>0 DEF ToQuit, Keys, Common, Exists
  <2>3. told' \in [Members -> SUBSET Ids] /\ quits' \in [Members -> SUBSET Ids] /\ joins' \in [Members -> [Ids -> Nat]]
    BY <1>0, <2>1, <2>2 DEF TypeOK, Set
  <2>4. at' \in [Members -> Members] /\ msgs' \in [Members -> Nat] /\ refused' \in [Members -> SUBSET Ids]
    BY <1>0, <1>1 DEF HandleFdbIds, Set, TypeOK
  <2>5. pc' \in [Members -> Labels] /\ \A q \in Members : pc'[q] \in {"num", "del", "port"} => obj[q] # None
    BY <1>0, <1>1 DEF HandleFdbIds, At, Goto, TypeOK, Labels
  <2>6. QED
    BY <1>0, <1>1, <2>3, <2>4, <2>5 DEF HandleFdbIds, TypeOK, global, update
<1>2. ASSUME NEW p \in Members, Close(p) PROVE TypeOK'
  BY <1>0, <1>2 DEF Close, At, Goto, Set, TypeOK, Labels, loop, update
<1>3. ASSUME NEW p \in Members, QuitAllFdb(p) PROVE TypeOK'
  <2>1. ToQuitAll(p) \subseteq Ids
    BY <1>0 DEF ToQuitAll, Keys
  <2>2. quits' \in [Members -> SUBSET Ids] /\ joins' \in [Members -> [Ids -> Nat]] /\ at' \in [Members -> Members]
        /\ lock' \in [Members -> Members \cup {None}]
    BY <1>0, <1>3, <2>1 DEF QuitAllFdb, Set, TypeOK
  <2>3. pc' \in [Members -> Labels] /\ \A q \in Members : pc'[q] \in {"num", "del", "port"} => obj[q] # None
    BY <1>0, <1>3 DEF QuitAllFdb, At, Goto, TypeOK, Labels
  <2>4. QED
    BY <1>0, <1>3, <2>2, <2>3 DEF QuitAllFdb, TypeOK, update, peer
<1>4. ASSUME NEW p \in Members, ReleaseFwdPort(p) PROVE TypeOK'
  <2>1. PICK v \in quits[p] :
          /\ At(p, "quit") /\ quits' = Set(quits, p, quits[p] \ {v}) /\ lock' = Set(lock, at[p], p)
          /\ IF joined[at[p]][v] = None
             THEN UNCHANGED <<ports, num, joined, pc, vid>>
             ELSE /\ ports' = [ports EXCEPT ![joined[at[p]][v]][at[p]] = @ - 1]
                  /\ num' = Set(num, joined[at[p]][v], num[joined[at[p]][v]] - Dec(at[p]))
                  /\ joined' = [joined EXCEPT ![at[p]][v] = None]
                  /\ Goto(p, IF Deletes THEN "get" ELSE "quit")
                  /\ vid' = IF Deletes THEN Set(vid, p, v) ELSE vid
    BY <1>0, <1>4 DEF ReleaseFwdPort, Left
  <2>2. at[p] \in Members /\ v \in Ids
    BY <1>0 DEF TypeOK
  <2>3. quits' \in [Members -> SUBSET Ids] /\ lock' \in [Members -> Members \cup {None}]
    BY <1>0, <2>1, <2>2 DEF Set, TypeOK
  <2>4. UNCHANGED <<fdbMap, nil, closed, master, panic, at, joins, obj, ids, left, seen, quitIds, joinIds, msgs, told, rep, sent, refused>>
    BY <1>0, <1>4 DEF ReleaseFwdPort, update, peer
  <2>5. CASE joined[at[p]][v] = None
    BY <1>0, <2>1, <2>3, <2>4, <2>5 DEF TypeOK
  <2>6. CASE joined[at[p]][v] # None
    <3>1. ports' \in [Fdbs -> [Members -> Nat]]
      <4>1. ports[joined[at[p]][v]][at[p]] - 1 \in Nat
        BY <1>0, <2>6, ReleaseFacts
      <4>2. ports \in [Fdbs -> [Members -> Nat]] /\ joined[at[p]][v] \in Fdbs
        BY <1>0, <2>2, <2>6 DEF TypeOK
      <4>3. QED
        BY <1>0, <2>1, <2>2, <2>6, <4>1, <4>2
    <3>2. num' \in [Fdbs -> Nat]
      <4>1. num \in [Fdbs -> Nat] /\ num[joined[at[p]][v]] - Dec(at[p]) \in Nat
        BY <1>0, <2>6, ReleaseFacts DEF TypeOK
      <4>2. QED
        BY <1>0, <2>1, <2>6, <4>1 DEF Set
    <3>3. joined' \in [Members -> [Ids -> Fdbs \cup {None}]]
      <4>1. joined \in [Members -> [Ids -> Fdbs \cup {None}]]
        BY <1>0 DEF TypeOK
      <4>2. QED
        BY <1>0, <2>1, <2>2, <2>6, <4>1
    <3>4. vid' \in [Members -> Ids \cup {None}]
      BY <2>1, <2>2, <2>6, <1>f DEF Set
    <3>5. pc' \in [Members -> Labels] /\ \A q \in Members : pc'[q] \in {"num", "del", "port"} => obj[q] # None
      BY <1>0, <2>1, <2>6 DEF At, Goto, TypeOK, Labels
    <3>6. QED
      BY <1>0, <2>3, <2>4, <3>1, <3>2, <3>3, <3>4, <3>5 DEF TypeOK
  <2>7. QED
    BY <1>0, <2>5, <2>6
<1>5. ASSUME NEW p \in Members, TryGet(p) \/ GetPortNum(p) \/ DelFdbById(p) PROVE TypeOK'
  <2>1. vid[p] \in Ids /\ vid[p] # None /\ fdbMap[vid[p]] \in Fdbs \cup {None}
    BY <1>0, <1>5 DEF TryGet, GetPortNum, DelFdbById, At, HandInv, HandOf, TypeOK
  <2>2. fdbMap' \in [Ids -> Fdbs \cup {None}]
    BY <1>0, <1>5 DEF TryGet, GetPortNum, DelFdbById, TypeOK, Set, global
  <2>3. vid' \in [Members -> Ids \cup {None}] /\ obj' \in [Members -> Fdbs \cup {None}]
    BY <1>5, <2>1, <1>f DEF TryGet, GetPortNum, DelFdbById, Set, Forget
  <2>4. pc' \in [Members -> Labels] /\ \A q \in Members : pc'[q] \in {"num", "del", "port"} => obj'[q] # None
    BY <1>5, <2>1, <1>c, <1>f, <1>i DEF TryGet, GetPortNum, DelFdbById, Set, Forget, At, Goto, Labels
  <2>5. UNCHANGED <<ports, num, joined, nil, closed, master, lock, panic, at, quits, joins, update, peer>>
    BY <1>0, <1>5 DEF TryGet, GetPortNum, DelFdbById, global
  <2>6. QED
    BY <1>0, <2>2, <2>3, <2>4, <2>5 DEF TypeOK, update, peer
<1>6. ASSUME NEW p \in Members, EndQuit(p) PROVE TypeOK'
  <2>1. lock' \in [Members -> Members \cup {None}] /\ nil' \subseteq closed /\ closed' = closed
    BY <1>0, <1>6 DEF EndQuit, Set, TypeOK
  <2>2. pc' \in [Members -> Labels] /\ \A q \in Members : pc'[q] \in {"num", "del", "port"} => obj[q] # None
    BY <1>0, <1>6 DEF EndQuit, At, Goto, TypeOK, Labels, AfterClose
  <2>3. QED
    BY <1>0, <1>6, <2>1, <2>2 DEF EndQuit, TypeOK, loop, update, peer
<1>7. ASSUME NEW p \in Members, NewFdb(p) PROVE TypeOK'
  <2>1. PICK v \in Ids, f \in Fdbs :
          /\ joins[p][v] > 0 /\ lock' = Set(lock, at[p], p) /\ joins' = [joins EXCEPT ![p][v] = @ - 1]
          /\ vid' = Set(vid, p, v) /\ obj' = Set(obj, p, f)
          /\ UNCHANGED <<fdbMap, num>> \/ (fdbMap' = Set(fdbMap, v, f) /\ num' = Set(num, f, 0))
    BY <1>0, <1>7 DEF NewFdb, TypeOK
  <2>2. joins' \in [Members -> [Ids -> Nat]]
    <3>1. joins \in [Members -> [Ids -> Nat]] /\ joins[p][v] - 1 \in Nat
      BY <1>0, <2>1 DEF TypeOK
    <3>2. QED
      BY <1>0, <2>1, <3>1
  <2>3. lock' \in [Members -> Members \cup {None}] /\ vid' \in [Members -> Ids \cup {None}]
        /\ obj' \in [Members -> Fdbs \cup {None}]
    BY <1>0, <2>1 DEF Set, TypeOK
  <2>4. fdbMap' \in [Ids -> Fdbs \cup {None}] /\ num' \in [Fdbs -> Nat]
    BY <2>1, <1>a, <1>b DEF Set
  <2>5. pc' \in [Members -> Labels] /\ \A q \in Members : pc'[q] \in {"num", "del", "port"} => obj'[q] # None
    BY <1>0, <1>7, <2>1 DEF NewFdb, At, Goto, Set, TypeOK, Labels
  <2>6. QED
    BY <1>0, <1>7, <2>2, <2>3, <2>4, <2>5 DEF NewFdb, TypeOK, update, peer
<1>8. ASSUME NEW p \in Members, JoinFwdPort(p) PROVE TypeOK'
  <2>1. at[p] \in Members /\ obj[p] \in Fdbs /\ vid[p] \in Ids
    BY <1>0, <1>8 DEF JoinFwdPort, At, HandInv, HandOf, TypeOK
  <2>2. ports' \in [Fdbs -> [Members -> Nat]]
    <3>1. ports \in [Fdbs -> [Members -> Nat]] /\ ports[obj[p]][at[p]] + 1 \in Nat
      BY <1>0, <2>1 DEF TypeOK
    <3>2. ports' = [ports EXCEPT ![obj[p]][at[p]] = @ + 1]
      BY <1>0, <1>8 DEF JoinFwdPort
    <3>3. QED
      BY <1>0, <2>1, <3>1, <3>2
  <2>3. num' \in [Fdbs -> Nat]
    <3>1. num \in [Fdbs -> Nat] /\ num[obj[p]] + (IF Inc(at[p]) THEN 1 ELSE 0) \in Nat
      BY <1>0, <2>1 DEF TypeOK
    <3>2. num' = [num EXCEPT ![obj[p]] = num[obj[p]] + (IF Inc(at[p]) THEN 1 ELSE 0)]
      BY <1>0, <1>8 DEF JoinFwdPort, Set
    <3>3. QED
      BY <1>0, <3>1, <3>2
  <2>4. joined' \in [Members -> [Ids -> Fdbs \cup {None}]] /\ panic' \in BOOLEAN
    <3>1. (panic' = TRUE /\ joined' = joined)
            \/ (panic' = panic /\ joined' = [joined EXCEPT ![at[p]][vid[p]] = obj[p]])
      BY <1>8 DEF JoinFwdPort
    <3>2. CASE panic' = TRUE /\ joined' = joined
      BY <3>2, <1>a
    <3>3. CASE panic' = panic /\ joined' = [joined EXCEPT ![at[p]][vid[p]] = obj[p]]
      BY <2>1, <3>3, <1>a, <1>b
    <3>4. QED
      BY <3>1, <3>2, <3>3
  <2>5. vid' \in [Members -> Ids \cup {None}] /\ obj' \in [Members -> Fdbs \cup {None}]
    BY <1>0, <1>8 DEF JoinFwdPort, Forget, Set, TypeOK
  <2>6. pc' \in [Members -> Labels] /\ \A q \in Members : pc'[q] \in {"num", "del", "port"} => obj'[q] # None
    BY <1>0, <1>8 DEF JoinFwdPort, At, Goto, Forget, Set, TypeOK, Labels
  <2>7. QED
    BY <1>0, <1>8, <2>2, <2>3, <2>4, <2>5, <2>6 DEF JoinFwdPort, TypeOK, update, peer
<1>8r. ASSUME NEW p \in Members, JoinRefused(p) PROVE TypeOK'
  <2>1. at[p] \in Members /\ vid[p] \in Ids
    BY <1>0, <1>8r DEF JoinRefused, At, HandInv, HandOf, TypeOK
  <2>2. refused' \in [Members -> SUBSET Ids]
    BY <1>8r, <1>j, <2>1 DEF JoinRefused, Set
  <2>3. vid' \in [Members -> Ids \cup {None}] /\ obj' \in [Members -> Fdbs \cup {None}]
    BY <1>8r, <1>f DEF JoinRefused, Forget, Set
  <2>4. pc' \in [Members -> Labels] /\ \A q \in Members : pc'[q] \in {"num", "del", "port"} => obj'[q] # None
    BY <1>8r, <1>c, <1>f, <1>i DEF JoinRefused, At, Goto, Forget, Set, Labels
  <2>5. UNCHANGED <<global, at, quits, joins, update, msgs, told, rep, sent>>
    BY <1>8r DEF JoinRefused
  <2>6. QED
    BY <2>2, <2>3, <2>4, <2>5 DEF TypeOK, global, update
<1>9. ASSUME NEW p \in Members, EndJoin(p) PROVE TypeOK'
  <2>1. lock' \in [Members -> Members \cup {None}]
    BY <1>0, <1>9 DEF EndJoin, Set, TypeOK
  <2>2. AfterJoin(p) \in {"update", "idle", "report", "next"}
    BY <1>0 DEF AfterJoin
  <2>3. pc' \in [Members -> Labels] /\ \A q \in Members : pc'[q] \in {"num", "del", "port"} => obj[q] # None
    BY <1>0, <1>9, <2>2 DEF EndJoin, At, Goto, TypeOK, Labels
  <2>4. QED
    BY <1>0, <1>9, <2>1, <2>3 DEF EndJoin, TypeOK, loop, update, peer
<1>10. ASSUME NEW p \in Members, UpdateMasterFdb(p) \/ EndUpdate(p) PROVE TypeOK'
  <2>1. ids' \in [Members -> SUBSET Ids] /\ left' \in [Members -> SUBSET Masters] /\ seen' \in [Members -> SUBSET Masters]
    BY <1>10, <1>h, <1>g DEF UpdateMasterFdb, EndUpdate, Set, Exists
  <2>2. quitIds' \in [Members -> SUBSET Ids] /\ joinIds' \in [Members -> [Ids -> Nat]] /\ at' \in [Members -> Members]
    <3>1. quitIds' = Set(quitIds, p, {}) /\ joinIds' = Set(joinIds, p, Nothing) /\ (at' = at \/ at' = Set(at, p, p))
      BY <1>10 DEF UpdateMasterFdb, EndUpdate, loop
    <3>2. joinIds' \in [Members -> [Ids -> Nat]]
      BY <1>0, <1>e, <3>1 DEF Set
    <3>3. QED
      BY <1>c, <1>d, <3>1, <3>2 DEF Set
  <2>3. pc' \in [Members -> Labels] /\ \A q \in Members : pc'[q] \in {"num", "del", "port"} => obj[q] # None
    BY <1>0, <1>10 DEF UpdateMasterFdb, EndUpdate, At, Goto, TypeOK, Labels
  <2>4. UNCHANGED <<global, quits, joins, vid, obj, peer>>
    BY <1>0, <1>10 DEF UpdateMasterFdb, EndUpdate, loop
  <2>5. QED
    BY <1>0, <2>1, <2>2, <2>3, <2>4 DEF TypeOK, global, peer
<1>11. ASSUME NEW p \in Members, NextMaster(p) PROVE TypeOK'
  <2>1. PICK m \in master \ seen[p] :
          /\ seen' = Set(seen, p, seen[p] \cup {m})
          /\ IF m \in nil
             THEN UNCHANGED <<pc, at, quits, joins, quitIds, joinIds>>
             ELSE LET q == quitIds[p] \cup (Keys(m) \ ids[p])
                      j == [v \in Ids |-> joinIds[p][v] + Once(ids[p] \ Keys(m))[v]] IN
                  /\ Goto(p, "quit") /\ at' = Set(at, p, m)
                  /\ quitIds' = Set(quitIds, p, q) /\ joinIds' = Set(joinIds, p, j)
                  /\ quits' = Set(quits, p, q) /\ joins' = Set(joins, p, j)
    BY <1>0, <1>11 DEF NextMaster
  <2>2. m \in Masters /\ m \in Members
    BY <1>0 DEF TypeOK
  <2>3. quitIds[p] \cup (Keys(m) \ ids[p]) \in SUBSET Ids
    BY <1>0 DEF Keys, TypeOK
  <2>4. [v \in Ids |-> joinIds[p][v] + Once(ids[p] \ Keys(m))[v]] \in [Ids -> Nat]
    <3>1. Once(ids[p] \ Keys(m)) \in [Ids -> Nat] /\ joinIds[p] \in [Ids -> Nat]
      BY <1>0 DEF TypeOK, Once
    <3>2. QED
      BY <1>0, <3>1
  <2>5. seen' \in [Members -> SUBSET Masters] /\ at' \in [Members -> Members]
    BY <2>1, <2>2, <1>c, <1>g DEF Set
  <2>6. quitIds' \in [Members -> SUBSET Ids] /\ quits' \in [Members -> SUBSET Ids]
    BY <2>1, <2>3, <1>d DEF Set
  <2>7. joinIds' \in [Members -> [Ids -> Nat]] /\ joins' \in [Members -> [Ids -> Nat]]
    <3>1. joinIds \in [Members -> [Ids -> Nat]] /\ joins \in [Members -> [Ids -> Nat]]
      BY <1>0 DEF TypeOK
    <3>2. QED
      BY <1>0, <2>1, <2>4, <3>1 DEF Set
  <2>8. pc' \in [Members -> Labels] /\ \A q \in Members : pc'[q] \in {"num", "del", "port"} => obj[q] # None
    BY <1>0, <2>1 DEF Goto, TypeOK, Labels
  <2>9. QED
    BY <1>0, <1>11, <2>5, <2>6, <2>7, <2>8 DEF NextMaster, TypeOK, global, peer
<1>12. ASSUME NEW p \in Members, ReportFdbMsg(p) \/ SendReport(p) PROVE TypeOK'
  <2>1. rep' \in [Members -> SUBSET Ids] /\ sent' \in [Members -> SUBSET Ids]
    BY <1>12, <1>h DEF ReportFdbMsg, SendReport, Set, Keys
  <2>2. pc' \in [Members -> Labels] /\ \A q \in Members : pc'[q] \in {"num", "del", "port"} => obj[q] # None
    BY <1>0, <1>12 DEF ReportFdbMsg, SendReport, At, Goto, TypeOK, Labels
  <2>3. UNCHANGED <<global, loop, update, msgs, told, refused>>
    BY <1>0, <1>12 DEF ReportFdbMsg, SendReport
  <2>4. QED
    BY <1>0, <2>1, <2>2, <2>3 DEF TypeOK, global, loop, update
<1>13. ASSUME NEW m \in Masters, MasterStep(m) PROVE TypeOK'
  <2>1. joins' \in [Members -> [Ids -> Nat]] /\ master' \subseteq Masters
    BY <1>0, <1>13, <1>e, <1>g DEF MasterStep, ClientMasterAdd, JoinAllFdb, ClientMasterDel, Set, loop, global
  <2>2. pc' \in [Members -> Labels] /\ \A q \in Members : pc'[q] \in {"num", "del", "port"} => obj[q] # None
    BY <1>0, <1>13 DEF MasterStep, ClientMasterAdd, JoinAllFdb, ClientMasterDel, At, Goto, TypeOK, Labels
  <2>3. UNCHANGED <<fdbMap, ports, num, joined, nil, closed, lock, panic, at, quits, vid, obj, update, peer>>
    BY <1>0, <1>13 DEF MasterStep, ClientMasterAdd, JoinAllFdb, ClientMasterDel, loop, global
  <2>4. QED
    BY <1>0, <2>1, <2>2, <2>3 DEF TypeOK, update, peer
<1>14. CASE UNCHANGED vars \/ Ended
  BY <1>0, <1>14 DEF Ended, vars, global, loop, update, peer, TypeOK
<1>15. QED
  BY <1>0, <1>1, <1>2, <1>3, <1>4, <1>5, <1>6, <1>7, <1>8, <1>8r, <1>9, <1>10, <1>11, <1>12, <1>13, <1>14 DEF Next, ClientStep
-----------------------------------------------------------------------------
Step(p) == ClientStep(p) \/ (p \in Masters /\ MasterStep(p))

LEMMA Steps ==
  ASSUME MembershipAssumption, [Next]_vars
  PROVE  UNCHANGED vars \/ \E p \in Members : Step(p)
<1>1. Masters \subseteq Members
  BY ConstantFacts
<1>2. QED
  BY <1>1 DEF Next, Step, Ended

(* What a goroutine is about, no other goroutine changes. *)
Same(q) ==
  /\ pc'[q] = pc[q] /\ at'[q] = at[q] /\ quits'[q] = quits[q] /\ joins'[q] = joins[q]
  /\ vid'[q] = vid[q] /\ obj'[q] = obj[q] /\ told'[q] = told[q] /\ (q \in closed' <=> q \in closed)

LEMMA OthersRest ==
  ASSUME TypeOK, NEW p \in Members, Step(p), NEW q \in Members \ {p}
  PROVE  Same(q) /\ panic = FALSE
<1>a. pc \in [Members -> Labels] /\ at \in [Members -> Members]
  BY DEF TypeOK
<1>b. quits \in [Members -> SUBSET Ids] /\ told \in [Members -> SUBSET Ids]
  BY DEF TypeOK
<1>c. joins \in [Members -> [Ids -> Nat]]
  BY DEF TypeOK
<1>d. vid \in [Members -> Ids \cup {None}] /\ obj \in [Members -> Fdbs \cup {None}] /\ panic \in BOOLEAN
  BY DEF TypeOK
<1>1. CASE HandleFdbIds(p)
  BY <1>a, <1>b, <1>c, <1>d, <1>1 DEF HandleFdbIds, At, Goto, Set, Same, global
<1>2. CASE Close(p) \/ QuitAllFdb(p)
  BY <1>a, <1>b, <1>c, <1>d, <1>2 DEF Close, QuitAllFdb, At, Goto, Set, Same, loop, peer
<1>3. CASE ReleaseFwdPort(p)
  <2>1. PICK v \in quits[p] :
          /\ At(p, "quit") /\ quits' = Set(quits, p, quits[p] \ {v})
          /\ IF Left(at[p], v) = None THEN UNCHANGED <<pc, vid>>
             ELSE /\ Goto(p, IF Deletes THEN "get" ELSE "quit")
                  /\ vid' = IF Deletes THEN Set(vid, p, v) ELSE vid
          /\ UNCHANGED <<closed, at, joins, obj, told>>
    BY <1>3 DEF ReleaseFwdPort, peer
  <2>2. pc'[q] = pc[q] /\ vid'[q] = vid[q] /\ quits'[q] = quits[q] /\ panic = FALSE
    BY <1>a, <1>b, <1>d, <2>1 DEF At, Goto, Set
  <2>3. QED
    BY <2>1, <2>2 DEF Same
<1>4. CASE TryGet(p) \/ GetPortNum(p) \/ DelFdbById(p)
  BY <1>a, <1>b, <1>c, <1>d, <1>4 DEF TryGet, GetPortNum, DelFdbById, Forget, At, Goto, Set, Same, global, peer
<1>5. CASE EndQuit(p) \/ EndJoin(p)
  BY <1>a, <1>b, <1>c, <1>d, <1>5 DEF EndQuit, EndJoin, At, Goto, Set, Same, loop, peer
<1>6. CASE NewFdb(p)
  <2>1. PICK v \in Ids :
          /\ At(p, "join") /\ Goto(p, "port") /\ joins' = [joins EXCEPT ![p][v] = @ - 1]
          /\ vid' = Set(vid, p, v) /\ (\E f : obj' = Set(obj, p, f)) /\ UNCHANGED <<closed, at, quits, told>>
    BY <1>6 DEF NewFdb, peer
  <2>2. QED
    BY <1>a, <1>b, <1>c, <1>d, <2>1 DEF At, Goto, Set, Same
<1>7. CASE JoinFwdPort(p) \/ JoinRefused(p)
  BY <1>a, <1>b, <1>c, <1>d, <1>7 DEF JoinFwdPort, JoinRefused, Forget, At, Goto, Set, Same, global, peer
<1>8. CASE UpdateMasterFdb(p) \/ EndUpdate(p)
  BY <1>a, <1>b, <1>c, <1>d, <1>8 DEF UpdateMasterFdb, EndUpdate, At, Goto, Set, Same, loop, global, peer
<1>9. CASE NextMaster(p)
  <2>1. PICK m, s, j :
          /\ At(p, "next") /\ UNCHANGED <<closed, vid, obj, told>>
          /\ UNCHANGED <<pc, at, quits, joins>>
             \/ (Goto(p, "quit") /\ at' = Set(at, p, m) /\ quits' = Set(quits, p, s) /\ joins' = Set(joins, p, j))
    BY <1>9 DEF NextMaster, global, peer
  <2>2. QED
    BY <1>a, <1>b, <1>c, <1>d, <2>1 DEF At, Goto, Set, Same
<1>10. CASE ReportFdbMsg(p) \/ SendReport(p)
  BY <1>a, <1>b, <1>c, <1>d, <1>10 DEF ReportFdbMsg, SendReport, At, Goto, Set, Same, loop, global
<1>11. CASE MasterStep(p)
  BY <1>a, <1>b, <1>c, <1>d, <1>11
     DEF MasterStep, ClientMasterAdd, JoinAllFdb, ClientMasterDel, At, Goto, Set, Same, loop, global, peer
<1>12. QED
  BY <1>1, <1>2, <1>3, <1>4, <1>5, <1>6, <1>7, <1>8, <1>9, <1>10, <1>11 DEF Step, ClientStep

LEMMA HandStep ==
  ASSUME MembershipAssumption, TypeOK, HandInv, [Next]_vars
  PROVE  HandInv'
<1> SUFFICES ASSUME NEW q \in Members PROVE HandOf(q)'
  BY DEF HandInv
<1>0. HandOf(q) /\ None \notin Fdbs /\ None \notin Ids
  BY ConstantFacts DEF HandInv
<1>a. pc \in [Members -> Labels]
  BY DEF TypeOK
<1>b. vid \in [Members -> Ids \cup {None}] /\ obj \in [Members -> Fdbs \cup {None}]
  BY DEF TypeOK
<1>c. fdbMap \in [Ids -> Fdbs \cup {None}]
  BY DEF TypeOK
<1>1. CASE UNCHANGED vars
  BY <1>0, <1>1 DEF HandOf, vars, loop
<1>2. ASSUME NEW p \in Members \ {q}, Step(p) PROVE HandOf(q)'
  BY <1>0, <1>2, OthersRest DEF HandOf, Same
<1>3. CASE Step(q)
  <2>1. CASE HandleFdbIds(q) \/ Close(q) \/ QuitAllFdb(q)
    BY <1>0, <1>a, <2>1 DEF HandleFdbIds, Close, QuitAllFdb, At, Goto, HandOf, loop
  <2>2. CASE ReleaseFwdPort(q)
    <3>1. PICK v \in quits[q] :
            /\ At(q, "quit") /\ obj' = obj
            /\ IF Left(at[q], v) = None THEN UNCHANGED <<pc, vid>>
               ELSE /\ Goto(q, IF Deletes THEN "get" ELSE "quit")
                    /\ vid' = IF Deletes THEN Set(vid, q, v) ELSE vid
      BY <2>2 DEF ReleaseFwdPort
    <3>2. v # None
      BY <1>0 DEF TypeOK
    <3>3. QED
      BY <1>0, <1>a, <1>b, <3>1, <3>2 DEF At, Goto, Set, HandOf
  <2>3. CASE TryGet(q)
    <3>1. vid[q] \in Ids
      BY <1>0, <1>b, <2>3 DEF TryGet, At, HandOf
    <3>2. QED
      BY <1>0, <1>a, <1>b, <1>c, <2>3, <3>1 DEF TryGet, At, Goto, Set, Forget, HandOf
  <2>4. CASE GetPortNum(q) \/ DelFdbById(q)
    BY <1>0, <1>a, <1>b, <2>4 DEF GetPortNum, DelFdbById, At, Goto, Set, Forget, HandOf
  <2>5. CASE EndQuit(q)
    BY <1>0, <1>a, <2>5 DEF EndQuit, At, Goto, AfterClose, HandOf, loop
  <2>6. CASE NewFdb(q)
    <3>1. PICK v \in Ids : /\ At(q, "join") /\ Goto(q, "port") /\ vid' = Set(vid, q, v)
                           /\ \E f \in Fdbs : obj' = Set(obj, q, f)
      <4>1. PICK v \in Ids : /\ At(q, "join") /\ Goto(q, "port") /\ vid' = Set(vid, q, v)
                             /\ IF fdbMap[v] # None THEN obj' = Set(obj, q, fdbMap[v])
                                ELSE \E f \in Fdbs : obj' = Set(obj, q, f)
        BY <2>6 DEF NewFdb
      <4>2. QED
        BY <1>c, <4>1
    <3>2. QED
      BY <1>0, <1>a, <1>b, <3>1 DEF At, Goto, Set, HandOf
  <2>7. CASE JoinFwdPort(q) \/ JoinRefused(q)
    BY <1>0, <1>a, <1>b, <2>7 DEF JoinFwdPort, JoinRefused, At, Goto, Set, Forget, HandOf
  <2>8. CASE EndJoin(q)
    <3>1. AfterJoin(q) \in {"update", "idle", "report", "next"}
      BY DEF AfterJoin
    <3>2. QED
      BY <1>0, <1>a, <2>8, <3>1 DEF EndJoin, At, Goto, HandOf, loop
  <2>9. CASE UpdateMasterFdb(q) \/ NextMaster(q) \/ EndUpdate(q) \/ ReportFdbMsg(q) \/ SendReport(q) \/ MasterStep(q)
    <3>1. vid' = vid /\ obj' = obj /\ pc[q] \notin {"get", "num", "del", "port"}
      BY <2>9 DEF UpdateMasterFdb, NextMaster, EndUpdate, ReportFdbMsg, SendReport, MasterStep, ClientMasterAdd,
                  JoinAllFdb, ClientMasterDel, At, loop
    <3>2. pc'[q] \notin {"get", "num", "del", "port"}
      BY <1>a, <2>9, <3>1
         DEF UpdateMasterFdb, NextMaster, EndUpdate, ReportFdbMsg, SendReport, MasterStep, ClientMasterAdd,
             JoinAllFdb, ClientMasterDel, Goto
    <3>3. QED
      BY <1>0, <3>1, <3>2 DEF HandOf
  <2>10. QED
    BY <1>3, <2>1, <2>2, <2>3, <2>4, <2>5, <2>6, <2>7, <2>8, <2>9 DEF Step, ClientStep
<1>4. QED
  BY <1>1, <1>2, <1>3, Steps

LEMMA RolesStep ==
  ASSUME MembershipAssumption, TypeOK, Roles, [Next]_vars
  PROVE  Roles'
<1> SUFFICES ASSUME NEW q \in Members PROVE RoleOf(q)'
  BY DEF Roles
<1>0. RoleOf(q) /\ Masters \subseteq Members /\ Accepted \cap Masters = {} /\ Members = Accepted \cup Masters
      /\ Dialed \subseteq Masters
  BY ConstantFacts DEF Roles, Members
<1>a. pc \in [Members -> Labels] /\ at \in [Members -> Members] /\ closed \subseteq Members
  BY DEF TypeOK
<1>b. quits \in [Members -> SUBSET Ids] /\ master \subseteq Masters
  BY DEF TypeOK
<1>1. CASE UNCHANGED vars
  BY <1>0, <1>1 DEF RoleOf, vars, loop, global
<1>2. ASSUME NEW p \in Members \ {q}, Step(p) PROVE RoleOf(q)'
  BY <1>0, <1>2, OthersRest DEF RoleOf, Same
<1>3. CASE Step(q)
  <2>1. CASE HandleFdbIds(q) \/ Close(q) \/ QuitAllFdb(q)
    BY <1>0, <1>a, <2>1 DEF HandleFdbIds, Close, QuitAllFdb, At, Goto, Set, RoleOf, loop, global
  <2>2. CASE ReleaseFwdPort(q) \/ TryGet(q) \/ GetPortNum(q) \/ DelFdbById(q)
    <3>1. at' = at /\ closed' = closed /\ pc[q] \in {"quit", "get", "num", "del"}
      BY <2>2 DEF ReleaseFwdPort, TryGet, GetPortNum, DelFdbById, At, global
    <3>2. pc'[q] \in {"quit", "get", "num", "del"}
      BY <1>a, <2>2, <3>1 DEF ReleaseFwdPort, TryGet, GetPortNum, DelFdbById, Goto
    <3>3. QED
      BY <1>0, <3>1, <3>2 DEF RoleOf
  <2>3. CASE EndQuit(q)
    BY <1>0, <1>a, <2>3 DEF EndQuit, At, Goto, AfterClose, Inc, RoleOf, loop
  <2>4. CASE NewFdb(q) \/ JoinFwdPort(q) \/ JoinRefused(q)
    BY <1>0, <1>a, <2>4 DEF NewFdb, JoinFwdPort, JoinRefused, At, Goto, RoleOf, global
  <2>5. CASE EndJoin(q)
    <3>1. /\ pc[q] = "join" /\ pc'[q] = AfterJoin(q) /\ at' = at /\ closed' = closed
      BY <1>a, <2>5 DEF EndJoin, At, Goto, loop
    <3>2. AfterJoin(q) \in {"update", "idle", "report", "next"}
      BY DEF AfterJoin
    <3>3. /\ AfterJoin(q) = "update" => at[q] = q /\ q \in Accepted /\ Dynamic
          /\ AfterJoin(q) = "idle" => at[q] = q /\ q \in Accepted
          /\ AfterJoin(q) = "next" => at[q] # q
      BY <1>0 DEF AfterJoin
    <3>4. QED
      BY <1>0, <3>1, <3>2, <3>3 DEF RoleOf
  <2>6. CASE UpdateMasterFdb(q) \/ EndUpdate(q) \/ ReportFdbMsg(q) \/ SendReport(q)
    BY <1>0, <1>a, <2>6 DEF UpdateMasterFdb, EndUpdate, ReportFdbMsg, SendReport, At, Goto, Set, RoleOf, loop, global
  <2>7. CASE NextMaster(q)
    <3>1. PICK m \in master :
            /\ At(q, "next") /\ closed' = closed
            /\ UNCHANGED <<pc, at, quits>> \/ (Goto(q, "quit") /\ at' = Set(at, q, m))
      BY <2>7 DEF NextMaster, global
    <3>2. m \in Masters /\ pc[q] = "next" /\ q \in Accepted /\ Dynamic
      BY <1>0, <1>b, <3>1 DEF At, RoleOf
    <3>3. QED
      BY <1>0, <1>a, <3>1, <3>2 DEF Goto, Set, RoleOf
  <2>8. CASE q \in Masters /\ MasterStep(q)
    <3>1. at' = at /\ quits' = quits /\ closed' = closed
      BY <2>8 DEF MasterStep, ClientMasterAdd, JoinAllFdb, ClientMasterDel, loop, global
    <3>2. \/ pc[q] = "new" /\ pc'[q] = "ids"
          \/ pc[q] = "ids" /\ pc'[q] = "join"
          \/ pc' = pc
      BY <1>a, <2>8 DEF MasterStep, ClientMasterAdd, JoinAllFdb, ClientMasterDel, At, Goto
    <3>3. QED
      BY <1>0, <3>1, <3>2 DEF RoleOf
  <2>9. QED
    BY <1>3, <2>1, <2>2, <2>3, <2>4, <2>5, <2>6, <2>7, <2>8 DEF Step, ClientStep
<1>4. QED
  BY <1>1, <1>2, <1>3, Steps
-----------------------------------------------------------------------------
(* A goroutine that has no FDB in hand, or keeps the one it has, and       *)
(* leaves the map and fdbJoined alone adds no reference.                   *)
LEMMA RestRefers ==
  ASSUME TypeOK, NEW p \in Members, Step(p), NEW f, NEW v,
         fdbMap'[v] = f => RefersTo(f, v), \A c \in Members : joined'[c][v] = f => RefersTo(f, v),
         obj'[p] = f /\ vid'[p] = v => RefersTo(f, v), RefersTo(f, v)'
  PROVE  RefersTo(f, v)
<1>1. ASSUME NEW c \in Members, obj'[c] = f, vid'[c] = v PROVE RefersTo(f, v)
  <2>1. CASE c = p
    BY <1>1, <2>1
  <2>2. CASE c # p
    <3>1. Same(c)
      BY <2>2, OthersRest
    <3>2. QED
      BY <1>1, <3>1 DEF Same, RefersTo
  <2>3. QED
    BY <2>1, <2>2
<1>2. QED
  BY <1>1 DEF RefersTo

(* Only a new object gets a reference it did not have. *)
LEMMA RefersStep ==
  ASSUME MembershipAssumption, TypeOK, HandInv, NEW p \in Members, Step(p),
         NEW f \in Fdbs, NEW v \in Ids, RefersTo(f, v)', ~ RefersTo(f, v)
  PROVE  Unused(f) /\ vid'[p] = v
<1>0. None \notin Fdbs /\ None \notin Ids /\ HandOf(p) /\ f # None /\ v # None
  BY ConstantFacts DEF HandInv
<1>a. fdbMap \in [Ids -> Fdbs \cup {None}] /\ joined \in [Members -> [Ids -> Fdbs \cup {None}]]
  BY DEF TypeOK
<1>b. vid \in [Members -> Ids \cup {None}] /\ obj \in [Members -> Fdbs \cup {None}]
  BY DEF TypeOK
<1>c. at \in [Members -> Members] /\ quits \in [Members -> SUBSET Ids]
  BY DEF TypeOK
<1>1. CASE UNCHANGED <<fdbMap, joined, vid, obj>>
  BY <1>1 DEF RefersTo
<1>2. CASE ReleaseFwdPort(p)
  <2>1. PICK w \in quits[p] :
          /\ At(p, "quit") /\ UNCHANGED <<fdbMap, obj>>
          /\ joined' = joined \/ joined' = [joined EXCEPT ![at[p]][w] = None]
    BY <1>2 DEF ReleaseFwdPort
  <2>2. obj'[p] # f
    BY <1>0, <2>1 DEF At, HandOf
  <2>3. \A c \in Members : joined'[c][v] = f => joined[c][v] = f
    BY <1>0, <1>a, <1>c, <2>1
  <2>4. QED
    <3>1. /\ fdbMap'[v] = f => RefersTo(f, v)
          /\ \A c \in Members : joined'[c][v] = f => RefersTo(f, v)
          /\ obj'[p] = f /\ vid'[p] = v => RefersTo(f, v)
      BY <2>1, <2>2, <2>3 DEF RefersTo
    <3>2. QED
      BY <3>1, RestRefers
<1>3. CASE TryGet(p)
  <2>1. UNCHANGED <<fdbMap, joined>>
    BY <1>3 DEF TryGet, global
  <2>2. obj'[p] = f => vid'[p] = vid[p] /\ fdbMap[vid[p]] = f
    BY <1>0, <1>b, <1>3 DEF TryGet, Forget, Set
  <2>3. QED
    <3>1. /\ fdbMap'[v] = f => RefersTo(f, v)
          /\ \A c \in Members : joined'[c][v] = f => RefersTo(f, v)
          /\ obj'[p] = f /\ vid'[p] = v => RefersTo(f, v)
      BY <2>1, <2>2 DEF RefersTo
    <3>2. QED
      BY <3>1, RestRefers
<1>4. CASE GetPortNum(p) \/ DelFdbById(p)
  <2>1. joined' = joined /\ (fdbMap' = fdbMap \/ fdbMap' = Set(fdbMap, vid[p], None))
    BY <1>4 DEF GetPortNum, DelFdbById, global
  <2>2. fdbMap'[v] = f => fdbMap[v] = f
    BY <1>0, <1>a, <2>1 DEF Set
  <2>3. obj'[p] = f => obj[p] = f /\ vid'[p] = vid[p]
    BY <1>0, <1>b, <1>4 DEF GetPortNum, DelFdbById, Forget, Set
  <2>4. QED
    <3>1. /\ fdbMap'[v] = f => RefersTo(f, v)
          /\ \A c \in Members : joined'[c][v] = f => RefersTo(f, v)
          /\ obj'[p] = f /\ vid'[p] = v => RefersTo(f, v)
      BY <2>1, <2>2, <2>3 DEF RefersTo
    <3>2. QED
      BY <3>1, RestRefers
<1>5. CASE JoinFwdPort(p)
  <2>1. fdbMap' = fdbMap /\ (joined' = joined \/ joined' = [joined EXCEPT ![at[p]][vid[p]] = obj[p]])
    BY <1>5 DEF JoinFwdPort
  <2>2. \A c \in Members : joined'[c][v] = f => joined[c][v] = f \/ (obj[p] = f /\ vid[p] = v)
    BY <1>a, <1>b, <1>c, <2>1
  <2>3. obj'[p] # f
    BY <1>0, <1>b, <1>5 DEF JoinFwdPort, Forget, Set
  <2>4. QED
    <3>1. /\ fdbMap'[v] = f => RefersTo(f, v)
          /\ \A c \in Members : joined'[c][v] = f => RefersTo(f, v)
          /\ obj'[p] = f /\ vid'[p] = v => RefersTo(f, v)
      BY <2>1, <2>2, <2>3 DEF RefersTo
    <3>2. QED
      BY <3>1, RestRefers
<1>5r. CASE JoinRefused(p)
  <2>1. UNCHANGED <<fdbMap, joined>>
    BY <1>5r DEF JoinRefused, global
  <2>2. obj'[p] # f
    BY <1>0, <1>b, <1>5r DEF JoinRefused, Forget, Set
  <2>3. /\ fdbMap'[v] = f => RefersTo(f, v)
        /\ \A c \in Members : joined'[c][v] = f => RefersTo(f, v)
        /\ obj'[p] = f /\ vid'[p] = v => RefersTo(f, v)
    BY <2>1, <2>2 DEF RefersTo
  <2>4. QED
    BY <2>3, RestRefers
<1>6. CASE NewFdb(p)
  <2>1. PICK w \in Ids :
          /\ joined' = joined /\ vid' = Set(vid, p, w)
          /\ IF fdbMap[w] # None
             THEN obj' = Set(obj, p, fdbMap[w]) /\ UNCHANGED <<fdbMap, num>>
             ELSE /\ \E g \in Fdbs : Unused(g)
                  /\ LET g == CHOOSE g \in Fdbs : Unused(g) IN
                     obj' = Set(obj, p, g) /\ fdbMap' = Set(fdbMap, w, g) /\ num' = Set(num, g, 0)
    BY <1>6 DEF NewFdb
  <2>2. vid'[p] = w
    BY <1>b, <2>1 DEF Set
  <2>3. CASE fdbMap[w] # None
    <3>1. UNCHANGED <<fdbMap, joined>> /\ obj' = Set(obj, p, fdbMap[w])
      BY <2>1, <2>3
    <3>2. obj'[p] = fdbMap[w]
      BY <1>b, <3>1 DEF Set
    <3>3. obj'[p] = f /\ vid'[p] = v => fdbMap[v] = f
      BY <2>2, <3>2
    <3>4. /\ fdbMap'[v] = f => RefersTo(f, v)
          /\ \A c \in Members : joined'[c][v] = f => RefersTo(f, v)
          /\ obj'[p] = f /\ vid'[p] = v => RefersTo(f, v)
      BY <3>1, <3>3 DEF RefersTo
    <3>5. QED
      BY <3>4, RestRefers
  <2>4. CASE fdbMap[w] = None
    <3>1. PICK g \in Fdbs : Unused(g) /\ obj' = Set(obj, p, g) /\ fdbMap' = Set(fdbMap, w, g)
      BY <2>1, <2>4
    <3>2. ASSUME f # g \/ v # w PROVE FALSE
      <4>1. fdbMap'[v] = f => fdbMap[v] = f
        BY <1>a, <3>1, <3>2 DEF Set
      <4>2. ~ (obj'[p] = f /\ vid'[p] = v)
        BY <1>b, <2>2, <3>1, <3>2 DEF Set
      <4>3. QED
        <5>1. /\ fdbMap'[v] = f => RefersTo(f, v)
              /\ \A c \in Members : joined'[c][v] = f => RefersTo(f, v)
              /\ obj'[p] = f /\ vid'[p] = v => RefersTo(f, v)
          BY <2>1, <4>1, <4>2 DEF RefersTo
        <5>2. QED
          BY <5>1, RestRefers
    <3>3. QED
      BY <2>2, <3>1, <3>2
  <2>5. QED
    BY <2>3, <2>4
<1>7. QED
  <2>1. ~ (ReleaseFwdPort(p) \/ TryGet(p) \/ GetPortNum(p) \/ DelFdbById(p) \/ JoinFwdPort(p) \/ JoinRefused(p)
           \/ NewFdb(p)) => UNCHANGED <<fdbMap, joined, vid, obj>>
    BY DEF Step, ClientStep, MasterStep, HandleFdbIds, Close, QuitAllFdb, EndQuit, EndJoin, UpdateMasterFdb,
           NextMaster, EndUpdate, ReportFdbMsg, SendReport, ClientMasterAdd, JoinAllFdb, ClientMasterDel,
           global, loop
  <2>2. QED
    BY <1>1, <1>2, <1>3, <1>4, <1>5, <1>5r, <1>6, <2>1

LEMMA OneIdStep ==
  ASSUME MembershipAssumption, TypeOK, HandInv, OneId, [Next]_vars
  PROVE  OneId'
<1>1. CASE UNCHANGED vars
  BY <1>1 DEF OneId, RefersTo, vars, global, loop
<1>2. ASSUME NEW p \in Members, Step(p) PROVE OneId'
  <2> SUFFICES ASSUME NEW f \in Fdbs, NEW u \in Ids, NEW v \in Ids, RefersTo(f, u)', RefersTo(f, v)'
               PROVE  u = v
    BY DEF OneId
  <2>1. Unused(f) => ~ RefersTo(f, u) /\ ~ RefersTo(f, v)
    BY DEF Unused, RefersTo
  <2>2. CASE RefersTo(f, u) /\ RefersTo(f, v)
    BY <2>2 DEF OneId
  <2>3. CASE ~ RefersTo(f, u)
    BY <1>2, <2>1, <2>3, RefersStep
  <2>4. CASE ~ RefersTo(f, v)
    BY <1>2, <2>1, <2>4, RefersStep
  <2>5. QED
    BY <2>2, <2>3, <2>4
<1>3. QED
  BY <1>1, <1>2, Steps
-----------------------------------------------------------------------------
LEMMA StaticStep ==
  ASSUME MembershipAssumption, TypeOK, HandInv, Roles, StaticInv, [Next]_vars
  PROVE  StaticInv'
<1> SUFFICES ASSUME ~ Dynamic, NEW p \in Members, Step(p) PROVE StaticInv'
  <2>1. CASE UNCHANGED vars
    BY <2>1 DEF StaticInv, Exists, Joining, vars, global, loop
  <2>2. QED
    BY <2>1, Steps DEF StaticInv
<1>0. HandOf(p) /\ RoleOf(p) /\ None \notin Fdbs /\ None \notin Ids
  BY ConstantFacts DEF HandInv, Roles
<1>a. fdbMap \in [Ids -> Fdbs \cup {None}] /\ joined \in [Members -> [Ids -> Fdbs \cup {None}]]
  BY DEF TypeOK
<1>b. vid \in [Members -> Ids \cup {None}] /\ obj \in [Members -> Fdbs \cup {None}]
  BY DEF TypeOK
<1>c. at \in [Members -> Members] /\ pc \in [Members -> Labels] /\ quits \in [Members -> SUBSET Ids]
  BY DEF TypeOK
<1>d. joins \in [Members -> [Ids -> Nat]]
  BY DEF TypeOK
<1>e. /\ Exists = Fixed
      /\ \A c \in Members, v \in Ids : joined[c][v] # None => joined[c][v] = fdbMap[v]
      /\ \A q \in Members : (pc[q] = "port" => obj[q] = fdbMap[vid[q]]) /\ Joining(q) \subseteq Fixed
                            /\ pc[q] \notin {"get", "num", "del"}
  BY DEF StaticInv
<1>f. ASSUME NewFdb(p)
      PROVE  \E v \in Ids : /\ joins[p][v] > 0 /\ v \in Fixed /\ joins' = [joins EXCEPT ![p][v] = @ - 1]
                            /\ vid' = Set(vid, p, v) /\ obj' = Set(obj, p, fdbMap[v]) /\ UNCHANGED <<fdbMap, joined>>
  <2>1. PICK v \in Ids :
          /\ joins[p][v] > 0 /\ joins' = [joins EXCEPT ![p][v] = @ - 1] /\ joined' = joined
          /\ vid' = Set(vid, p, v) /\ (fdbMap[v] # None => obj' = Set(obj, p, fdbMap[v]) /\ fdbMap' = fdbMap)
    BY <1>f DEF NewFdb
  <2>2. v \in Exists
    BY <1>e, <2>1 DEF Joining
  <2>3. QED
    BY <1>e, <2>1, <2>2 DEF Exists
<1>1. fdbMap' = fdbMap
  <2>1. CASE NewFdb(p)
    BY <1>f, <2>1
  <2>2. CASE DelFdbById(p)
    BY <1>e, <2>2 DEF DelFdbById, At
  <2>3. CASE ~ NewFdb(p) /\ ~ DelFdbById(p)
    BY <2>3 DEF Step, ClientStep, MasterStep, HandleFdbIds, Close, QuitAllFdb, ReleaseFwdPort, TryGet, GetPortNum,
           JoinFwdPort, JoinRefused, EndQuit, EndJoin, UpdateMasterFdb, NextMaster, EndUpdate, ReportFdbMsg, SendReport,
           ClientMasterAdd, JoinAllFdb, ClientMasterDel, global
  <2>4. QED
    BY <2>1, <2>2, <2>3
<1>2. ASSUME NEW c \in Members, NEW v \in Ids, joined'[c][v] # None PROVE joined'[c][v] = fdbMap[v]
  <2>1. CASE ReleaseFwdPort(p)
    <3>1. PICK w \in quits[p] : joined' = joined \/ joined' = [joined EXCEPT ![at[p]][w] = None]
      BY <2>1 DEF ReleaseFwdPort
    <3>2. at[p] \in Members /\ w \in Ids
      BY <1>c
    <3>3. joined'[c][v] = joined[c][v] \/ joined'[c][v] = None
      BY <1>a, <3>1, <3>2
    <3>4. QED
      BY <1>2, <1>e, <3>3
  <2>2. CASE JoinFwdPort(p)
    <3>1. obj[p] = fdbMap[vid[p]] /\ vid[p] \in Ids
      BY <1>0, <1>b, <1>e, <2>2 DEF JoinFwdPort, At, HandOf
    <3>2. joined' = joined \/ joined' = [joined EXCEPT ![at[p]][vid[p]] = obj[p]]
      BY <2>2 DEF JoinFwdPort
    <3>3. at[p] \in Members
      BY <1>c
    <3>4. joined'[c][v] = joined[c][v] \/ (v = vid[p] /\ joined'[c][v] = obj[p])
      BY <1>a, <3>1, <3>2, <3>3
    <3>5. QED
      BY <1>2, <1>e, <3>1, <3>4
  <2>3. CASE ~ ReleaseFwdPort(p) /\ ~ JoinFwdPort(p)
    <3>1. joined' = joined
      BY <2>3 DEF Step, ClientStep, MasterStep, HandleFdbIds, Close, QuitAllFdb, TryGet, GetPortNum, DelFdbById,
             NewFdb, JoinRefused, EndQuit, EndJoin, UpdateMasterFdb, NextMaster, EndUpdate, ReportFdbMsg, SendReport,
             ClientMasterAdd, JoinAllFdb, ClientMasterDel, global
    <3>2. QED
      BY <1>2, <1>e, <3>1
  <2>4. QED
    BY <2>1, <2>2, <2>3
<1>3. /\ pc'[p] = "port" => obj'[p] = fdbMap[vid'[p]]
      /\ Joining(p)' \subseteq Fixed /\ pc'[p] \notin {"get", "num", "del"}
  <2>1. CASE HandleFdbIds(p)
    <3>1. PICK S \in SUBSET Ids : joins' = Set(joins, p, Once(Common(S) \ Keys(p))) /\ pc'[p] = "quit"
      BY <1>c, <2>1 DEF HandleFdbIds, Goto
    <3>2. joins'[p] = Once(Common(S) \ Keys(p)) /\ Common(S) \subseteq Fixed
      BY <1>d, <1>e, <3>1 DEF Set, Common
    <3>3. QED
      BY <3>1, <3>2, OnceFacts DEF Joining
  <2>2. CASE QuitAllFdb(p)
    <3>1. joins'[p] = Nothing /\ pc'[p] = "quit"
      BY <1>c, <1>d, <2>2 DEF QuitAllFdb, Set, Goto
    <3>2. QED
      BY <3>1, OnceFacts DEF Joining
  <2>3. CASE NewFdb(p)
    <3>1. PICK v \in Ids : /\ v \in Fixed /\ joins[p][v] > 0 /\ joins' = [joins EXCEPT ![p][v] = @ - 1]
                           /\ vid' = Set(vid, p, v) /\ obj' = Set(obj, p, fdbMap[v])
      BY <1>f, <2>3
    <3>2. vid'[p] = v /\ obj'[p] = fdbMap[v] /\ pc'[p] = "port"
      BY <1>b, <1>c, <2>3, <3>1 DEF NewFdb, Set, Goto
    <3>3. \A u \in Ids : joins'[p][u] > 0 => joins[p][u] > 0
      BY <1>d, <3>1
    <3>4. QED
      BY <1>e, <3>1, <3>2, <3>3 DEF Joining
  <2>4. CASE JoinFwdPort(p) \/ JoinRefused(p)
    <3>1. pc'[p] = "join" /\ joins' = joins
      BY <1>c, <2>4 DEF JoinFwdPort, JoinRefused, Goto
    <3>2. QED
      BY <1>e, <3>1 DEF Joining
  <2>5. CASE JoinAllFdb(p)
    <3>1. joins'[p] = Once(Fixed) /\ pc'[p] = "join"
      BY <1>c, <1>d, <1>e, <2>5 DEF JoinAllFdb, Set, Goto
    <3>2. QED
      BY <3>1, OnceFacts DEF Joining
  <2>6. CASE \/ Close(p) \/ ReleaseFwdPort(p) \/ EndQuit(p) \/ EndJoin(p) \/ UpdateMasterFdb(p) \/ EndUpdate(p)
             \/ ReportFdbMsg(p) \/ SendReport(p) \/ ClientMasterAdd(p) \/ ClientMasterDel(p)
    <3>1. joins' = joins
      BY <2>6 DEF Close, ReleaseFwdPort, EndQuit, EndJoin, UpdateMasterFdb, EndUpdate, ReportFdbMsg, SendReport,
             ClientMasterAdd, ClientMasterDel, loop
    <3>2. AfterJoin(p) \in {"update", "idle", "report", "next"} /\ AfterClose(p) \in {"update", "gone"}
      BY DEF AfterJoin, AfterClose
    <3>3. pc'[p] \notin {"port", "get", "num", "del"}
      BY <1>c, <1>e, <2>6, <3>2
         DEF Close, ReleaseFwdPort, EndQuit, EndJoin, UpdateMasterFdb, EndUpdate, ReportFdbMsg, SendReport,
             ClientMasterAdd, ClientMasterDel, At, Goto, Deletes
    <3>4. QED
      BY <1>e, <3>1, <3>3 DEF Joining
  <2>7. CASE NextMaster(p) \/ TryGet(p) \/ GetPortNum(p) \/ DelFdbById(p)
    BY <1>0, <1>e, <2>7 DEF NextMaster, TryGet, GetPortNum, DelFdbById, At, RoleOf
  <2>8. QED
    BY <2>1, <2>2, <2>3, <2>4, <2>5, <2>6, <2>7 DEF Step, ClientStep, MasterStep
<1>4. ASSUME NEW q \in Members
      PROVE  /\ pc'[q] = "port" => obj'[q] = fdbMap[vid'[q]]
             /\ Joining(q)' \subseteq Fixed /\ pc'[q] \notin {"get", "num", "del"}
  <2>1. CASE q = p
    BY <1>3, <2>1
  <2>2. CASE q # p
    <3>1. Same(q)
      BY <2>2, OthersRest
    <3>2. Joining(q)' = Joining(q)
      BY <3>1 DEF Joining, Same
    <3>3. QED
      BY <1>e, <3>1, <3>2 DEF Same
  <2>3. QED
    BY <2>1, <2>2
<1>5. Exists' = Fixed
  BY <1>1, <1>e DEF Exists
<1>6. QED
  BY <1>1, <1>2, <1>4, <1>5 DEF StaticInv
-----------------------------------------------------------------------------
(* What a step does to fdbJoined: one entry of the client in hand is       *)
(* cleared, or set to the FDB in hand.                                     *)
Quitting(p, v) ==
  /\ joined[at[p]][v] \in Fdbs
  /\ ports' = [ports EXCEPT ![joined[at[p]][v]][at[p]] = @ - 1]
  /\ num' = Set(num, joined[at[p]][v], num[joined[at[p]][v]] - Dec(at[p]))
  /\ joined' = [joined EXCEPT ![at[p]][v] = None]

LEMMA ReleaseCases ==
  ASSUME TypeOK, NEW p \in Members, ReleaseFwdPort(p)
  PROVE  /\ UNCHANGED <<fdbMap, nil, closed, panic, at, joins, obj>>
         /\ pc[p] = "quit" /\ panic = FALSE
         /\ \E v \in quits[p] :
              /\ v \in Ids /\ quits' = Set(quits, p, quits[p] \ {v})
              /\ \/ joined[at[p]][v] = None /\ UNCHANGED <<ports, num, joined, pc, vid>>
                 \/ /\ Quitting(p, v) /\ Goto(p, IF Deletes THEN "get" ELSE "quit")
                    /\ vid' = IF Deletes THEN Set(vid, p, v) ELSE vid
<1>1. PICK v \in quits[p] :
        /\ At(p, "quit") /\ UNCHANGED <<fdbMap, nil, closed, panic, at, joins, obj>>
        /\ quits' = Set(quits, p, quits[p] \ {v})
        /\ IF joined[at[p]][v] = None
           THEN UNCHANGED <<ports, num, joined, pc, vid>>
           ELSE /\ ports' = [ports EXCEPT ![joined[at[p]][v]][at[p]] = @ - 1]
                /\ num' = Set(num, joined[at[p]][v], num[joined[at[p]][v]] - Dec(at[p]))
                /\ joined' = [joined EXCEPT ![at[p]][v] = None]
                /\ Goto(p, IF Deletes THEN "get" ELSE "quit")
                /\ vid' = IF Deletes THEN Set(vid, p, v) ELSE vid
  BY DEF ReleaseFwdPort, Left
<1>2. at[p] \in Members /\ v \in Ids /\ panic \in BOOLEAN
  BY DEF TypeOK
<1>3. joined[at[p]][v] \in Fdbs \cup {None}
  BY <1>2 DEF TypeOK
<1>4. QED
  BY <1>1, <1>2, <1>3 DEF At, Quitting

LEMMA JoinCases ==
  ASSUME MembershipAssumption, TypeOK, HandInv, NEW p \in Members, JoinFwdPort(p)
  PROVE  /\ pc[p] = "port" /\ panic = FALSE /\ obj[p] \in Fdbs /\ vid[p] \in Ids /\ at[p] \in Members
         /\ ports' = [ports EXCEPT ![obj[p]][at[p]] = @ + 1]
         /\ num' = Set(num, obj[p], num[obj[p]] + IF Inc(at[p]) THEN 1 ELSE 0)
         /\ IF at[p] \in nil
            THEN panic' = TRUE /\ UNCHANGED joined
            ELSE joined' = [joined EXCEPT ![at[p]][vid[p]] = obj[p]] /\ UNCHANGED panic
         /\ pc'[p] = "join" /\ vid'[p] = None /\ obj'[p] = None
         /\ UNCHANGED <<fdbMap, nil, closed, at, quits, joins, told, refused>>
<1>1. /\ pc[p] = "port" /\ panic = FALSE /\ obj[p] \in Fdbs /\ vid[p] \in Ids /\ at[p] \in Members
  BY DEF JoinFwdPort, At, HandInv, HandOf, TypeOK
<1>2. pc'[p] = "join" /\ vid'[p] = None /\ obj'[p] = None
  BY DEF JoinFwdPort, Goto, Forget, Set, TypeOK
<1>3. QED
  BY <1>1, <1>2 DEF JoinFwdPort, peer

LEMMA JoinedRest ==
  ASSUME NEW p, Step(p), ~ ReleaseFwdPort(p), ~ JoinFwdPort(p)
  PROVE  UNCHANGED <<ports, joined, panic>> /\ (~ NewFdb(p) => num' = num)
BY DEF Step, ClientStep, MasterStep, HandleFdbIds, Close, QuitAllFdb, TryGet, GetPortNum, DelFdbById,
       NewFdb, JoinRefused, EndQuit, EndJoin, UpdateMasterFdb, NextMaster, EndUpdate, ReportFdbMsg,
       SendReport, ClientMasterAdd, JoinAllFdb, ClientMasterDel, global

(* Nobody else works on an exact client. *)
LEMMA ExactAlone ==
  ASSUME MembershipAssumption, Roles, NEW p \in Members, at[p] \in Exact
  PROVE  at[p] = p /\ p \in Exact
BY ConstantFacts DEF Roles, RoleOf, Exact

(* What an exact client joins it has not joined. *)
LEMMA JoinsNew ==
  ASSUME MembershipAssumption, TypeOK, HandInv, Roles, KeysInv, NEW p \in Members, JoinFwdPort(p), at[p] \in Exact
  PROVE  at[p] = p /\ joined[p][vid[p]] = None
<1>1. at[p] = p /\ p \in Exact
  BY ExactAlone
<1>2. pc[p] = "port" /\ ~ panic /\ vid[p] \in Ids
  BY JoinCases
<1>3. vid[p] \in Joining(p) /\ PendingOf(p)
  BY <1>1, <1>2 DEF Joining, KeysInv
<1>4. QED
  BY <1>1, <1>2, <1>3 DEF PendingOf, Busy, Keys

LEMMA PortsStep ==
  ASSUME MembershipAssumption, TypeOK, HandInv, Roles, OneId, PortsInv, KeysInv, [Next]_vars
  PROVE  PortsInv'
<1> SUFFICES ASSUME NEW d \in Members, NEW g \in Fdbs
             PROVE  /\ Has(d, g)' => ports'[g][d] > 0
                    /\ d \in Exact /\ ~ panic' => ports'[g][d] = IF Has(d, g)' THEN 1 ELSE 0
  BY DEF PortsInv, Exact
<1>0. /\ ports[g][d] \in Nat /\ None \notin Fdbs
      /\ Has(d, g) => ports[g][d] > 0
      /\ d \in Exact /\ ~ panic => ports[g][d] = IF Has(d, g) THEN 1 ELSE 0
  BY ConstantFacts DEF PortsInv, TypeOK
<1>a. ports \in [Fdbs -> [Members -> Nat]] /\ joined \in [Members -> [Ids -> Fdbs \cup {None}]]
  BY DEF TypeOK
<1>b. at \in [Members -> Members]
  BY DEF TypeOK
<1>1. CASE UNCHANGED <<ports, joined, panic>>
  BY <1>0, <1>1 DEF Has
<1>2. ASSUME NEW p \in Members, ReleaseFwdPort(p)
      PROVE  /\ Has(d, g)' => ports'[g][d] > 0
             /\ d \in Exact /\ ~ panic' => ports'[g][d] = IF Has(d, g)' THEN 1 ELSE 0
  <2>1. panic' = panic /\ (UNCHANGED <<ports, joined>> \/ \E v \in Ids : Quitting(p, v))
    BY <1>2, ReleaseCases
  <2>2. ASSUME NEW v \in Ids, Quitting(p, v)
        PROVE  /\ Has(d, g)' => ports'[g][d] > 0
               /\ d \in Exact /\ ~ panic' => ports'[g][d] = IF Has(d, g)' THEN 1 ELSE 0
    <3>1. at[p] \in Members /\ joined[at[p]][v] \in Fdbs
      BY <1>b, <2>2 DEF Quitting
    <3>2. CASE d = at[p] /\ g = joined[at[p]][v]
      <4>1. Has(d, g)
        BY <3>2 DEF Has
      <4>2. ports'[g][d] = ports[g][d] - 1
        BY <1>a, <2>2, <3>2 DEF Quitting
      <4>3. ASSUME NEW u \in Ids PROVE joined'[d][u] # g
        <5>1. u # v => joined[d][u] # g
          BY <3>2 DEF OneId, RefersTo
        <5>2. QED
          BY <1>0, <1>a, <2>2, <3>1, <3>2, <5>1 DEF Quitting
      <4>4. ~ Has(d, g)'
        BY <4>3 DEF Has
      <4>5. QED
        BY <1>0, <2>1, <4>1, <4>2, <4>4
    <3>3. CASE d # at[p] \/ g # joined[at[p]][v]
      <4>1. ports'[g][d] = ports[g][d]
        BY <1>a, <2>2, <3>1, <3>3 DEF Quitting
      <4>2. ASSUME NEW u \in Ids PROVE joined'[d][u] = g <=> joined[d][u] = g
        BY <1>0, <1>a, <2>2, <3>1, <3>3 DEF Quitting
      <4>3. Has(d, g)' <=> Has(d, g)
        BY <4>2 DEF Has
      <4>4. QED
        BY <1>0, <2>1, <4>1, <4>3
    <3>4. QED
      BY <3>2, <3>3
  <2>3. QED
    BY <1>1, <2>1, <2>2
<1>3. ASSUME NEW p \in Members, JoinFwdPort(p)
      PROVE  /\ Has(d, g)' => ports'[g][d] > 0
             /\ d \in Exact /\ ~ panic' => ports'[g][d] = IF Has(d, g)' THEN 1 ELSE 0
  <2>1. /\ panic = FALSE /\ obj[p] \in Fdbs /\ vid[p] \in Ids /\ at[p] \in Members
        /\ ports' = [ports EXCEPT ![obj[p]][at[p]] = @ + 1]
        /\ \/ panic' = TRUE /\ UNCHANGED joined
           \/ joined' = [joined EXCEPT ![at[p]][vid[p]] = obj[p]]
    BY <1>3, JoinCases
  <2>2. at[p] \in Exact => joined[at[p]][vid[p]] = None
    BY <1>3, JoinsNew
  <2>3. CASE d = at[p] /\ g = obj[p]
    <3>1. ports'[g][d] = ports[g][d] + 1
      BY <1>a, <2>1, <2>3
    <3>2. d \in Exact => ~ Has(d, g)
      <4>1. \A u \in Ids : joined[d][u] = g => u = vid[p]
        BY <2>1, <2>3 DEF OneId, RefersTo
      <4>2. QED
        BY <1>0, <2>2, <2>3, <4>1 DEF Has
    <3>3. panic' = TRUE \/ joined'[d][vid[p]] = g
      BY <1>a, <2>1, <2>3
    <3>4. panic' = TRUE \/ Has(d, g)'
      BY <2>1, <3>3 DEF Has
    <3>5. QED
      BY <1>0, <2>1, <3>1, <3>2, <3>4
  <2>4. CASE d # at[p] \/ g # obj[p]
    <3>1. ports'[g][d] = ports[g][d]
      BY <1>a, <2>1, <2>4
    <3>2. ASSUME NEW u \in Ids
          PROVE  /\ joined'[d][u] = g => joined[d][u] = g
                 /\ d \in Exact /\ joined[d][u] = g => joined'[d][u] = g
      <4>1. CASE d = at[p] /\ u = vid[p]
        <5>1. joined'[d][u] = joined[d][u] \/ joined'[d][u] = obj[p]
          BY <1>a, <2>1, <4>1
        <5>2. QED
          BY <1>0, <2>2, <2>4, <4>1, <5>1
      <4>2. CASE d # at[p] \/ u # vid[p]
        <5>1. joined'[d][u] = joined[d][u]
          BY <1>a, <2>1, <4>2
        <5>2. QED
          BY <5>1
      <4>3. QED
        BY <4>1, <4>2
    <3>3. (Has(d, g)' => Has(d, g)) /\ (d \in Exact /\ Has(d, g) => Has(d, g)')
      BY <3>2 DEF Has
    <3>4. QED
      BY <1>0, <2>1, <3>1, <3>3
  <2>5. QED
    BY <2>3, <2>4
<1>4. QED
  <2>1. UNCHANGED vars => UNCHANGED <<ports, joined, panic>>
    BY DEF vars, global
  <2>2. QED
    BY <1>1, <1>2, <1>3, <2>1, Steps, JoinedRest
-----------------------------------------------------------------------------
(* One more port is one more counted pair, one less is one less, of a      *)
(* client that counts; the rest of the pairs stay.                         *)
LEMMA CountedMember ==
  ASSUME NEW f
  PROVE  /\ \A x \in CountedPorts(f) : \E c \in Members : \E i \in 1 .. ports[f][c] : x = <<c, i>> /\ Inc(c)
         /\ \A c \in Members : \A i \in 1 .. ports[f][c] : Inc(c) => <<c, i>> \in CountedPorts(f)
         /\ \A c, i : <<c, i>> \in CountedPorts(f) => c \in Members /\ Inc(c) /\ i \in 1 .. ports[f][c]
<1>1. \A x \in CountedPorts(f) : \E c \in Members : \E i \in 1 .. ports[f][c] : x = <<c, i>> /\ Inc(c)
  BY DEF CountedPorts
<1>2. \A c \in Members : \A i \in 1 .. ports[f][c] : Inc(c) => <<c, i>> \in CountedPorts(f)
  BY DEF CountedPorts
<1>3. \A c, i : <<c, i>> \in CountedPorts(f) => c \in Members /\ Inc(c) /\ i \in 1 .. ports[f][c]
  BY DEF CountedPorts
<1>4. QED
  BY <1>1, <1>2, <1>3

LEMMA CountUp ==
  ASSUME TypeOK, NEW f \in Fdbs, NEW c \in Members, IsFiniteSet(CountedPorts(f)),
         num[f] = Cardinality(CountedPorts(f)) + Devices(f), ports' = [ports EXCEPT ![f][c] = @ + 1],
         num'[f] = num[f] + (IF Inc(c) THEN 1 ELSE 0), Devices(f)' = Devices(f)
  PROVE  CountOf(f)'
<1>a. ports \in [Fdbs -> [Members -> Nat]]
  BY DEF TypeOK
<1>b. Cardinality(CountedPorts(f)) \in Nat /\ Devices(f) \in Nat /\ num[f] \in Nat
  BY FS_CardinalityType DEF Devices, TypeOK
<1>1. ports'[f][c] = ports[f][c] + 1 /\ \A d \in Members : d # c => ports'[f][d] = ports[f][d]
  BY <1>a
<1>2. CASE ~ Inc(c)
  <2>1. CountedPorts(f)' = CountedPorts(f)
    <3>1. {d \in Members : Inc(d)}' = {d \in Members : Inc(d)}
      BY DEF Inc
    <3>2. \A d \in {d \in Members : Inc(d)} : ports'[f][d] = ports[f][d]
      BY <1>1, <1>2
    <3>3. QED
      BY <3>1, <3>2 DEF CountedPorts, Inc
  <2>2. QED
    BY <1>2, <1>b, <2>1 DEF CountOf
<1>3. CASE Inc(c)
  <2> DEFINE n == ports[f][c] + 1
             x == <<c, n>>
  <2>0. ports[f][c] \in Nat /\ n \in Nat /\ n \notin 1 .. ports[f][c]
    BY <1>a
  <2>1. x \notin CountedPorts(f)
    BY <2>0, CountedMember
  <2>2. CountedPorts(f)' = CountedPorts(f) \cup {x}
    <3>1. ASSUME NEW y \in CountedPorts(f)' PROVE y \in CountedPorts(f) \cup {x}
      <4>1. PICK d \in Members : \E j \in 1 .. ports'[f][d] : y = <<d, j>> /\ Inc(d)
        BY <3>1 DEF CountedPorts, Inc
      <4>2. PICK i \in 1 .. ports'[f][d] : y = <<d, i>> /\ Inc(d)
        BY <4>1
      <4>3. (d = c /\ i = n) \/ i \in 1 .. ports[f][d]
        BY <1>1, <2>0, <4>2
      <4>4. QED
        BY <4>2, <4>3, CountedMember
    <3>2. ASSUME NEW y \in CountedPorts(f) PROVE y \in CountedPorts(f)'
      <4>1. PICK d \in Members : \E j \in 1 .. ports[f][d] : y = <<d, j>> /\ Inc(d)
        BY <3>2, CountedMember
      <4>2. PICK i \in 1 .. ports[f][d] : y = <<d, i>> /\ Inc(d)
        BY <4>1
      <4>3. i \in 1 .. ports'[f][d]
        BY <1>1, <2>0, <4>2
      <4>4. QED
        BY <4>2, <4>3 DEF CountedPorts, Inc
    <3>3. x \in CountedPorts(f)'
      <4>1. n \in 1 .. ports'[f][c]
        BY <1>1, <2>0
      <4>2. QED
        BY <1>3, <4>1 DEF CountedPorts, Inc
    <3>4. QED
      BY <3>1, <3>2, <3>3
  <2>3. IsFiniteSet(CountedPorts(f) \cup {x}) /\ Cardinality(CountedPorts(f) \cup {x}) = Cardinality(CountedPorts(f)) + 1
    <3>1. /\ IsFiniteSet(CountedPorts(f) \cup {x})
          /\ Cardinality(CountedPorts(f) \cup {x}) =
               IF x \in CountedPorts(f) THEN Cardinality(CountedPorts(f)) ELSE Cardinality(CountedPorts(f)) + 1
      BY FS_AddElement, Zenon
    <3>2. QED
      BY <2>1, <3>1
  <2>4. QED
    BY <1>3, <1>b, <2>2, <2>3 DEF CountOf
<1>4. QED
  BY <1>2, <1>3

LEMMA CountDown ==
  ASSUME TypeOK, NEW f \in Fdbs, NEW c \in Members, IsFiniteSet(CountedPorts(f)), ports[f][c] > 0,
         num[f] = Cardinality(CountedPorts(f)) + Devices(f), ports' = [ports EXCEPT ![f][c] = @ - 1],
         num'[f] = num[f] - Dec(c), Devices(f)' = Devices(f)
  PROVE  CountOf(f)'
<1>a. ports \in [Fdbs -> [Members -> Nat]]
  BY DEF TypeOK
<1>b. Cardinality(CountedPorts(f)) \in Nat /\ Devices(f) \in Nat /\ num[f] \in Nat
  BY FS_CardinalityType DEF Devices, TypeOK
<1>1. ports'[f][c] = ports[f][c] - 1 /\ \A d \in Members : d # c => ports'[f][d] = ports[f][d]
  BY <1>a
<1>2. CASE ~ Inc(c)
  <2>1. CountedPorts(f)' = CountedPorts(f)
    <3>1. {d \in Members : Inc(d)}' = {d \in Members : Inc(d)}
      BY DEF Inc
    <3>2. \A d \in {d \in Members : Inc(d)} : ports'[f][d] = ports[f][d]
      BY <1>1, <1>2
    <3>3. QED
      BY <3>1, <3>2 DEF CountedPorts, Inc
  <2>2. QED
    BY <1>2, <1>b, <2>1 DEF CountOf, Dec
<1>3. CASE Inc(c)
  <2> DEFINE n == ports[f][c]
             x == <<c, n>>
  <2>0. n \in Nat /\ n \in 1 .. n /\ 1 .. (n - 1) = (1 .. n) \ {n}
    BY <1>a
  <2>1. x \in CountedPorts(f)
    BY <1>3, <2>0, CountedMember
  <2>2. CountedPorts(f)' = CountedPorts(f) \ {x}
    <3>1. ASSUME NEW y \in CountedPorts(f)' PROVE y \in CountedPorts(f) \ {x}
      <4>1. PICK d \in Members : \E j \in 1 .. ports'[f][d] : y = <<d, j>> /\ Inc(d)
        BY <3>1 DEF CountedPorts, Inc
      <4>2. PICK i \in 1 .. ports'[f][d] : y = <<d, i>> /\ Inc(d)
        BY <4>1
      <4>3. i \in 1 .. ports[f][d] /\ ~ (d = c /\ i = n)
        BY <1>1, <2>0, <4>2
      <4>4. QED
        BY <4>2, <4>3, CountedMember
    <3>2. ASSUME NEW y \in CountedPorts(f), y # x PROVE y \in CountedPorts(f)'
      <4>1. PICK d \in Members : \E j \in 1 .. ports[f][d] : y = <<d, j>> /\ Inc(d)
        BY <3>2, CountedMember
      <4>2. PICK i \in 1 .. ports[f][d] : y = <<d, i>> /\ Inc(d)
        BY <4>1
      <4>3. i \in 1 .. ports'[f][d]
        BY <1>1, <2>0, <3>2, <4>2
      <4>4. QED
        BY <4>2, <4>3 DEF CountedPorts, Inc
    <3>3. QED
      BY <3>1, <3>2
  <2>3. /\ IsFiniteSet(CountedPorts(f) \ {x})
        /\ Cardinality(CountedPorts(f) \ {x}) = Cardinality(CountedPorts(f)) - 1
    <3>1. /\ IsFiniteSet(CountedPorts(f) \ {x})
          /\ Cardinality(CountedPorts(f) \ {x}) =
               IF x \in CountedPorts(f) THEN Cardinality(CountedPorts(f)) - 1 ELSE Cardinality(CountedPorts(f))
      BY FS_RemoveElement, Zenon
    <3>2. QED
      BY <2>1, <3>1
  <2>4. QED
    BY <1>3, <1>b, <2>2, <2>3 DEF CountOf, Dec
<1>4. QED
  BY <1>2, <1>3

(* What no client has a port of is counted as empty. *)
LEMMA CountRest ==
  ASSUME TypeOK, NEW f \in Fdbs, \A c \in Members : ports'[f][c] = ports[f][c]
  PROVE  CountedPorts(f)' = CountedPorts(f)
BY DEF CountedPorts, Inc

(* Who gets as far as to delete has read a counter that is not that of a   *)
(* device's FDB.                                                           *)
LEMMA TunsHand ==
  ASSUME MembershipAssumption, TypeOK, HandInv, CountInv, TunsInv, NEW p \in Members, Step(p),
         vid'[p] \in TunIds
  PROVE  /\ pc'[p] # "del"
         /\ pc'[p] = "num" => obj'[p] = fdbMap[vid'[p]]
<1>0. HandOf(p) /\ None \notin TunIds /\ TunIds \subseteq Ids
  BY ConstantFacts DEF HandInv
<1>a. pc \in [Members -> Labels] /\ at \in [Members -> Members] /\ num \in [Fdbs -> Nat]
  BY DEF TypeOK
<1>b. vid \in [Members -> Ids \cup {None}] /\ obj \in [Members -> Fdbs \cup {None}]
  BY DEF TypeOK
<1>1. CASE TryGet(p)
  <2>1. pc'[p] # "del" /\ (pc'[p] = "num" => vid'[p] = vid[p] /\ obj'[p] = fdbMap[vid[p]])
    BY <1>1, <1>a, <1>b DEF TryGet, Goto, Set
  <2>2. QED
    BY <2>1
<1>2. CASE GetPortNum(p)
  <2>1. pc[p] = "num" /\ (pc'[p] = "del" \/ pc'[p] = "quit")
    BY <1>2, <1>a DEF GetPortNum, At, Goto
  <2>2. CASE pc'[p] = "del"
    <3>1. num[obj[p]] = 0 /\ vid' = vid
      BY <1>2, <1>a, <2>2 DEF GetPortNum, Goto, Deletable
    <3>2. obj[p] = fdbMap[vid[p]] /\ obj[p] \in Fdbs
      BY <1>0, <1>b, <2>1, <3>1 DEF TunsInv, HandOf
    <3>3. Devices(obj[p]) = 1
      BY <3>1, <3>2 DEF Devices
    <3>4. IsFiniteSet(CountedPorts(obj[p])) /\ num[obj[p]] = Cardinality(CountedPorts(obj[p])) + 1
      BY <3>2, <3>3 DEF CountInv, CountOf
    <3>5. Cardinality(CountedPorts(obj[p])) \in Nat
      BY <3>4, FS_CardinalityType
    <3>6. QED
      BY <3>1, <3>4, <3>5
  <2>3. QED
    BY <2>1, <2>2
<1>3. CASE ~ TryGet(p) /\ ~ GetPortNum(p)
  <2>1. CASE ReleaseFwdPort(p)
    <3>1. pc[p] = "quit" /\ (pc' = pc \/ \E l \in {"get", "quit"} : Goto(p, l))
      BY <2>1, ReleaseCases
    <3>2. QED
      BY <1>a, <3>1 DEF Goto
  <2>2. CASE EndQuit(p) \/ EndJoin(p)
    <3>1. AfterJoin(p) \in {"update", "idle", "report", "next"} /\ AfterClose(p) \in {"update", "gone"}
      BY DEF AfterJoin, AfterClose
    <3>2. QED
      BY <1>a, <2>2, <3>1 DEF EndQuit, EndJoin, Goto
  <2>3. CASE ~ (ReleaseFwdPort(p) \/ EndQuit(p) \/ EndJoin(p))
    BY <1>3, <1>a, <2>3 DEF Step, ClientStep, MasterStep, HandleFdbIds, Close, QuitAllFdb, DelFdbById, NewFdb,
           JoinFwdPort, JoinRefused, UpdateMasterFdb, NextMaster, EndUpdate, ReportFdbMsg, SendReport,
           ClientMasterAdd, JoinAllFdb, ClientMasterDel, At, Goto
  <2>4. QED
    BY <2>1, <2>2, <2>3
<1>4. QED
  BY <1>1, <1>2, <1>3

LEMMA TunsStep ==
  ASSUME MembershipAssumption, TypeOK, HandInv, CountInv, TunsInv, [Next]_vars
  PROVE  TunsInv' /\ \A f : Devices(f)' = Devices(f)
<1>a. fdbMap \in [Ids -> Fdbs \cup {None}] /\ TunIds \subseteq Ids
  BY ConstantFacts DEF TypeOK
<1>1. CASE UNCHANGED vars
  BY <1>1 DEF TunsInv, Devices, vars, global, loop
<1>2. ASSUME NEW p \in Members, Step(p) PROVE TunsInv' /\ \A f : Devices(f)' = Devices(f)
  <2>1. ASSUME NEW v \in TunIds PROVE fdbMap'[v] = fdbMap[v]
    <3>0. fdbMap[v] # None /\ v \in Ids
      BY <1>a DEF TunsInv
    <3>1. CASE NewFdb(p)
      <4>1. PICK w \in Ids : fdbMap' = fdbMap \/ (fdbMap[w] = None /\ \E f : fdbMap' = Set(fdbMap, w, f))
        BY <3>1 DEF NewFdb
      <4>2. QED
        BY <1>a, <3>0, <4>1 DEF Set
    <3>2. CASE DelFdbById(p)
      <4>1. pc[p] = "del" /\ fdbMap' = Set(fdbMap, vid[p], None)
        BY <3>2 DEF DelFdbById, At
      <4>2. vid[p] # v
        BY <4>1 DEF TunsInv
      <4>3. QED
        BY <1>a, <3>0, <4>1, <4>2 DEF Set
    <3>3. CASE ~ NewFdb(p) /\ ~ DelFdbById(p)
      BY <1>2, <3>3 DEF Step, ClientStep, MasterStep, HandleFdbIds, Close, QuitAllFdb, ReleaseFwdPort, TryGet,
             GetPortNum, JoinFwdPort, JoinRefused, EndQuit, EndJoin, UpdateMasterFdb, NextMaster, EndUpdate,
             ReportFdbMsg, SendReport, ClientMasterAdd, JoinAllFdb, ClientMasterDel, global
    <3>4. QED
      BY <3>1, <3>2, <3>3
  <2>2. ASSUME NEW q \in Members, vid'[q] \in TunIds
        PROVE  /\ pc'[q] # "del"
               /\ pc'[q] = "num" => obj'[q] = fdbMap'[vid'[q]]
    <3>1. CASE q = p
      BY <1>2, <2>1, <2>2, <3>1, TunsHand
    <3>2. CASE q # p
      <4>1. Same(q)
        BY <1>2, <3>2, OthersRest
      <4>2. QED
        BY <2>1, <2>2, <4>1 DEF Same, TunsInv
    <3>3. QED
      BY <3>1, <3>2
  <2>3. TunsInv'
    BY <2>1, <2>2 DEF TunsInv
  <2>4. QED
    BY <2>1, <2>3 DEF Devices
<1>3. QED
  BY <1>1, <1>2, Steps

LEMMA CountStep ==
  ASSUME MembershipAssumption, TypeOK, HandInv, PortsInv, CountInv, TunsInv, [Next]_vars
  PROVE  CountInv'
<1> SUFFICES ASSUME NEW g \in Fdbs PROVE CountOf(g)'
  BY DEF CountInv
<1>0. IsFiniteSet(CountedPorts(g)) /\ num[g] = Cardinality(CountedPorts(g)) + Devices(g)
  BY DEF CountInv, CountOf
<1>a. ports \in [Fdbs -> [Members -> Nat]] /\ num \in [Fdbs -> Nat] /\ at \in [Members -> Members]
  BY DEF TypeOK
<1>b. Devices(g)' = Devices(g)
  BY TunsStep
<1>1. CASE UNCHANGED <<ports, num>>
  BY <1>0, <1>1, <1>b, CountRest DEF CountOf
<1>2. ASSUME NEW p \in Members, NEW v \in Ids, Quitting(p, v), ports[joined[at[p]][v]][at[p]] > 0
      PROVE  CountOf(g)'
  <2>0. PICK c \in Members : c = at[p]
    BY <1>a
  <2>1. CASE g = joined[at[p]][v]
    <3>1. ports' = [ports EXCEPT ![g][c] = @ - 1] /\ num'[g] = num[g] - Dec(c) /\ ports[g][c] > 0
      BY <1>2, <1>a, <2>0, <2>1 DEF Quitting, Set
    <3>2. QED
      BY <1>0, <1>b, <3>1, CountDown
  <2>2. CASE g # joined[at[p]][v]
    <3>1. num'[g] = num[g] /\ \A d \in Members : ports'[g][d] = ports[g][d]
      BY <1>2, <1>a, <2>2 DEF Quitting, Set
    <3>2. QED
      BY <1>0, <1>b, <3>1, CountRest DEF CountOf
  <2>3. QED
    BY <2>1, <2>2
<1>3. ASSUME NEW p \in Members, ReleaseFwdPort(p) PROVE CountOf(g)'
  <2>1. PICK v \in quits[p] : v \in Ids /\ (UNCHANGED <<ports, num>> \/ Quitting(p, v))
    BY <1>3, ReleaseCases
  <2>2. CASE Quitting(p, v)
    <3>1. joined[at[p]][v] # None
      BY <2>2, ConstantFacts DEF Quitting
    <3>2. ports[joined[at[p]][v]][at[p]] \in Nat \ {0}
      BY <3>1, ReleaseFacts
    <3>3. ports[joined[at[p]][v]][at[p]] > 0
      BY <3>2
    <3>4. QED
      BY <1>2, <2>1, <2>2, <3>3
  <2>3. QED
    BY <1>1, <2>1, <2>2
<1>4. ASSUME NEW p \in Members, JoinFwdPort(p) PROVE CountOf(g)'
  <2>0. PICK c \in Members : c = at[p]
    BY <1>a
  <2>1. /\ obj[p] \in Fdbs /\ ports' = [ports EXCEPT ![obj[p]][c] = @ + 1]
        /\ num' = Set(num, obj[p], num[obj[p]] + IF Inc(c) THEN 1 ELSE 0)
    BY <1>4, <2>0, JoinCases
  <2>2. CASE g = obj[p]
    <3>1. ports' = [ports EXCEPT ![g][c] = @ + 1] /\ num'[g] = num[g] + IF Inc(c) THEN 1 ELSE 0
      BY <1>a, <2>1, <2>2 DEF Set
    <3>2. QED
      BY <1>0, <1>b, <3>1, CountUp
  <2>3. CASE g # obj[p]
    <3>1. num'[g] = num[g] /\ \A d \in Members : ports'[g][d] = ports[g][d]
      BY <1>a, <2>1, <2>3 DEF Set
    <3>2. QED
      BY <1>0, <1>b, <3>1, CountRest DEF CountOf
  <2>4. QED
    BY <2>2, <2>3
<1>5. ASSUME NEW p \in Members, NewFdb(p) PROVE CountOf(g)'
  <2>1. PICK f : ports' = ports /\ (num' = num \/ (Unused(f) /\ num' = Set(num, f, 0)))
    BY <1>5 DEF NewFdb
  <2>2. CASE f = g /\ Unused(g) /\ num' = Set(num, g, 0)
    <3>1. \A c \in Members : ports[g][c] = 0
      BY <2>2 DEF Unused
    <3>2. CountedPorts(g) = {}
      BY <3>1, CountedMember
    <3>3. num'[g] = 0 /\ CountedPorts(g)' = {}
      BY <1>a, <2>1, <2>2, <3>2, CountRest DEF Set
    <3>4. Devices(g) = 0
      BY <2>2, ConstantFacts DEF Unused, Devices
    <3>5. QED
      BY <1>b, <3>3, <3>4, FS_EmptySet DEF CountOf
  <2>3. CASE num'[g] = num[g]
    BY <1>0, <1>b, <2>1, <2>3, CountRest DEF CountOf
  <2>4. QED
    BY <1>a, <2>1, <2>2, <2>3 DEF Set
<1>6. QED
  <2>1. UNCHANGED vars => UNCHANGED <<ports, num>>
    BY DEF vars, global
  <2>2. QED
    BY <1>1, <1>3, <1>4, <1>5, <2>1, Steps, JoinedRest
-----------------------------------------------------------------------------
(* What changes nothing of an exact client but where its goroutine is,     *)
(* outside of quitFdbByIds and joinFdbByIds, leaves it at its target.      *)
LEMMA KeysRest ==
  ASSUME NEW c, ~ Busy(c), ~ Busy(c)', KeysOf(c), Keys(c)' = Keys(c), Target(c)' = Target(c),
         closed' = closed, refused'[c] = refused[c],
         \/ pc'[c] = pc[c]
         \/ pc[c] \notin {"new", "ids", "closing"} /\ pc'[c] \notin {"new", "ids", "closing"}
  PROVE  PendingOf(c)' /\ KeysOf(c)'
BY DEF PendingOf, KeysOf, HasJoined

(* Only an exact client itself changes what it has joined. *)
LEMMA KeysOthers ==
  ASSUME MembershipAssumption, TypeOK, HandInv, Roles, KeysInv, NEW c \in Exact, NEW p \in Members \ {c}, Step(p), ~ panic'
  PROVE  PendingOf(c)' /\ KeysOf(c)'
<1>1. Same(c) /\ panic = FALSE /\ c \in Members
  BY ConstantFacts, OthersRest DEF Exact
<1>2. at[p] # c
  BY ExactAlone
<1>a. joined \in [Members -> [Ids -> Fdbs \cup {None}]] /\ at \in [Members -> Members]
  BY DEF TypeOK
<1>3. joined'[c] = joined[c]
  <2>1. CASE ReleaseFwdPort(p)
    <3>1. joined' = joined \/ \E v \in Ids : Quitting(p, v)
      BY <2>1, ReleaseCases
    <3>2. QED
      BY <1>a, <1>1, <1>2, <3>1 DEF Quitting
  <2>2. CASE JoinFwdPort(p)
    <3>1. joined' = joined \/ joined' = [joined EXCEPT ![at[p]][vid[p]] = obj[p]]
      BY <2>2, JoinCases
    <3>2. QED
      BY <1>a, <1>1, <1>2, <3>1
  <2>3. QED
    BY <2>1, <2>2, JoinedRest
<1>r. refused'[c] = refused[c]
  <2>0. refused \in [Members -> SUBSET Ids]
    BY DEF TypeOK
  <2>1. CASE HandleFdbIds(p) \/ Close(p) \/ JoinRefused(p)
    BY <1>1, <1>2, <2>0, <2>1 DEF HandleFdbIds, Close, JoinRefused, Set
  <2>2. CASE ~ (HandleFdbIds(p) \/ Close(p) \/ JoinRefused(p))
    BY <2>2 DEF Step, ClientStep, MasterStep, QuitAllFdb, ReleaseFwdPort, TryGet, GetPortNum, DelFdbById, EndQuit,
           NewFdb, JoinFwdPort, EndJoin, UpdateMasterFdb, NextMaster, EndUpdate, ReportFdbMsg, SendReport,
           ClientMasterAdd, JoinAllFdb, ClientMasterDel, peer
  <2>3. QED
    BY <2>1, <2>2
<1>4. Keys(c)' = Keys(c) /\ Target(c)' = Target(c) /\ Joining(c)' = Joining(c) /\ (Busy(c)' <=> Busy(c))
  BY <1>1, <1>3 DEF Same, Keys, Target, Joining, Busy
<1>5. PendingOf(c) /\ KeysOf(c)
  BY <1>1 DEF KeysInv
<1>6. QED
  BY <1>1, <1>3, <1>r, <1>4, <1>5 DEF PendingOf, KeysOf, HasJoined, Same

(* The goroutine of an exact client quits and joins. *)
LEMMA KeysQuit ==
  ASSUME MembershipAssumption, TypeOK, HandInv, Roles, KeysInv, NEW c \in Exact, ReleaseFwdPort(c)
  PROVE  PendingOf(c)' /\ KeysOf(c)'
<1>1. c \in Members
  BY ConstantFacts DEF Exact
<1>a. joined \in [Members -> [Ids -> Fdbs \cup {None}]] /\ at \in [Members -> Members] /\ pc \in [Members -> Labels]
  BY DEF TypeOK
<1>b. quits \in [Members -> SUBSET Ids] /\ None \notin Fdbs
  BY ConstantFacts DEF TypeOK
<1>2. /\ UNCHANGED <<closed, at, joins>> /\ pc[c] = "quit" /\ panic = FALSE
      /\ pc'[c] \in {"quit", "get"} /\ UNCHANGED <<told, refused>>
  BY <1>1, <1>a, ReleaseCases DEF ReleaseFwdPort, Goto, peer
<1>3. PendingOf(c) /\ KeysOf(c)
  BY <1>2 DEF KeysInv
<1>4. Target(c)' = Target(c) /\ (Busy(c)' <=> Busy(c)) /\ Joining(c)' = Joining(c)
  BY <1>2 DEF Target, Busy, Joining
<1>5. PICK v \in quits[c] :
        /\ v \in Ids /\ quits' = Set(quits, c, quits[c] \ {v})
        /\ (joined[at[c]][v] = None /\ joined' = joined) \/ Quitting(c, v)
  BY <1>1, ReleaseCases
<1>6. CASE at[c] = c
  <2>1. Keys(c)' = Keys(c) \ {v}
    <3>1. \A u \in Ids : joined'[c][u] # None <=> joined[c][u] # None /\ u # v
      BY <1>1, <1>a, <1>b, <1>5, <1>6 DEF Quitting
    <3>2. QED
      BY <3>1 DEF Keys
  <2>2. quits'[c] = quits[c] \ {v}
    BY <1>1, <1>b, <1>5 DEF Set
  <2>3. Busy(c)
    BY <1>2, <1>6 DEF Busy
  <2>4. PendingOf(c)'
    BY <1>2, <1>3, <1>4, <2>1, <2>3 DEF PendingOf
  <2>5. CASE c \in closed
    <3>1. Keys(c) \subseteq quits[c] /\ joins[c] = Nothing
      BY <1>3, <2>3, <2>5 DEF KeysOf
    <3>2. QED
      BY <1>2, <1>4, <2>1, <2>2, <2>3, <2>4, <2>5, <3>1 DEF KeysOf
  <2>6. CASE c \notin closed
    <3>1. /\ quits[c] \cap Target(c) = {} /\ Keys(c) \subseteq Target(c) \cup quits[c]
          /\ Joining(c) \subseteq Target(c) /\ Target(c) \subseteq Keys(c) \cup Joining(c) \cup refused[c]
      BY <1>3, <2>3, <2>6 DEF KeysOf
    <3>2. /\ quits'[c] \cap Target(c) = {} /\ Keys(c)' \subseteq Target(c) \cup quits'[c]
          /\ Target(c) \subseteq Keys(c)' \cup Joining(c) \cup refused[c]
      BY <1>5, <2>1, <2>2, <3>1
    <3>3. QED
      BY <1>2, <1>4, <2>3, <2>4, <2>6, <3>1, <3>2 DEF KeysOf
  <2>7. QED
    BY <2>4, <2>5, <2>6
<1>7. CASE at[c] # c
  <2>1. joined'[c] = joined[c] /\ ~ Busy(c)
    BY <1>1, <1>a, <1>5, <1>7 DEF Quitting, Busy
  <2>2. Keys(c)' = Keys(c)
    BY <2>1 DEF Keys
  <2>3. QED
    BY <1>2, <1>3, <1>4, <2>1, <2>2, KeysRest
<1>8. QED
  BY <1>6, <1>7

LEMMA KeysDelete ==
  ASSUME MembershipAssumption, TypeOK, KeysInv, NEW c \in Exact, TryGet(c) \/ GetPortNum(c) \/ DelFdbById(c)
  PROVE  PendingOf(c)' /\ KeysOf(c)'
<1>1. c \in Members /\ pc \in [Members -> Labels] /\ panic \in BOOLEAN
  BY ConstantFacts DEF Exact, TypeOK
<1>2. /\ UNCHANGED <<closed, at, joins, quits, joined, told, refused>> /\ pc[c] \in {"get", "num", "del"} /\ panic = FALSE
      /\ pc'[c] \in {"quit", "num", "del"}
  BY <1>1 DEF TryGet, GetPortNum, DelFdbById, At, Goto, global, peer
<1>3. PendingOf(c) /\ KeysOf(c)
  BY <1>2 DEF KeysInv
<1>4. Target(c)' = Target(c) /\ (Busy(c)' <=> Busy(c)) /\ Joining(c)' = Joining(c) /\ Keys(c)' = Keys(c)
  BY <1>2 DEF Target, Busy, Joining, Keys
<1>5. QED
  BY <1>2, <1>3, <1>4 DEF PendingOf, KeysOf, HasJoined

LEMMA KeysEndQuit ==
  ASSUME MembershipAssumption, TypeOK, KeysInv, NEW c \in Exact, EndQuit(c)
  PROVE  PendingOf(c)' /\ KeysOf(c)'
<1>1. c \in Members /\ pc \in [Members -> Labels] /\ panic \in BOOLEAN
  BY ConstantFacts DEF Exact, TypeOK
<1>2. /\ UNCHANGED <<closed, at, joins, quits, joined, told, refused, vid>> /\ pc[c] = "quit" /\ panic = FALSE /\ quits[c] = {}
      /\ pc'[c] = IF at[c] = c /\ c \in closed THEN AfterClose(c) ELSE "join"
  BY <1>1 DEF EndQuit, At, Goto, loop, peer
<1>3. PendingOf(c) /\ KeysOf(c) /\ AfterClose(c) \in {"update", "gone"}
  BY <1>2 DEF KeysInv, AfterClose
<1>4. Target(c)' = Target(c) /\ Joining(c)' = Joining(c) /\ Keys(c)' = Keys(c)
  BY <1>2, <1>3 DEF Target, Joining, Keys
<1>5. CASE at[c] = c
  BY <1>2, <1>3, <1>4, <1>5 DEF PendingOf, KeysOf, Busy
<1>6. CASE at[c] # c
  BY <1>2, <1>3, <1>4, <1>6 DEF PendingOf, KeysOf, Busy, HasJoined
<1>7. QED
  BY <1>5, <1>6

LEMMA KeysNewFdb ==
  ASSUME MembershipAssumption, TypeOK, KeysInv, NEW c \in Exact, NewFdb(c)
  PROVE  PendingOf(c)' /\ KeysOf(c)'
<1>1. c \in Members /\ pc \in [Members -> Labels] /\ panic \in BOOLEAN
  BY ConstantFacts DEF Exact, TypeOK
<1>a. joins \in [Members -> [Ids -> Nat]] /\ vid \in [Members -> Ids \cup {None}]
  BY DEF TypeOK
<1>2. /\ UNCHANGED <<closed, at, quits, joined, told, refused>> /\ pc[c] = "join" /\ panic = FALSE /\ pc'[c] = "port"
  BY <1>1 DEF NewFdb, At, Goto, peer
<1>3. PICK v \in Ids : joins[c][v] > 0 /\ joins' = [joins EXCEPT ![c][v] = @ - 1] /\ vid' = Set(vid, c, v)
  BY DEF NewFdb
<1>4. PendingOf(c) /\ KeysOf(c) /\ Target(c)' = Target(c) /\ Keys(c)' = Keys(c) /\ (Busy(c)' <=> Busy(c))
  BY <1>2 DEF KeysInv, Target, Keys, Busy
<1>5. CASE at[c] = c
  <2>1. Busy(c) /\ \A u \in Ids : joins[c][u] \in {0, 1}
    BY <1>2, <1>4, <1>5 DEF Busy, PendingOf
  <2>2. vid'[c] = v /\ \A u \in Ids : joins'[c][u] = IF u = v THEN 0 ELSE joins[c][u]
    BY <1>1, <1>3, <1>a, <2>1 DEF Set
  <2>3. Joining(c)' = Joining(c)
    BY <1>2, <1>3, <2>1, <2>2 DEF Joining
  <2>4. PendingOf(c)'
    BY <1>2, <1>3, <1>4, <2>1, <2>2, <2>3 DEF PendingOf
  <2>5. KeysOf(c)'
    BY <1>2, <1>4, <2>1, <2>3 DEF KeysOf
  <2>6. QED
    BY <2>4, <2>5
<1>6. CASE at[c] # c
  <2>1. ~ Busy(c)
    BY <1>6 DEF Busy
  <2>2. QED
    BY <1>2, <1>4, <2>1, KeysRest
<1>7. QED
  BY <1>5, <1>6

LEMMA KeysJoin ==
  ASSUME MembershipAssumption, TypeOK, HandInv, Roles, KeysInv, NEW c \in Exact, JoinFwdPort(c), ~ panic'
  PROVE  PendingOf(c)' /\ KeysOf(c)'
<1>1. c \in Members /\ None \notin Fdbs
  BY ConstantFacts DEF Exact
<1>a. joined \in [Members -> [Ids -> Fdbs \cup {None}]] /\ at \in [Members -> Members]
  BY DEF TypeOK
<1>2. /\ UNCHANGED <<closed, at, quits, joins, told, refused>> /\ pc[c] = "port" /\ panic = FALSE /\ pc'[c] = "join"
      /\ vid[c] \in Ids /\ obj[c] \in Fdbs /\ joined' = [joined EXCEPT ![at[c]][vid[c]] = obj[c]]
  BY <1>1, JoinCases
<1>3. PendingOf(c) /\ KeysOf(c) /\ Target(c)' = Target(c) /\ (Busy(c)' <=> Busy(c))
  BY <1>2 DEF KeysInv, Target, Busy
<1>4. CASE at[c] = c
  <2>1. Busy(c) /\ joins[c][vid[c]] = 0 /\ vid[c] \in Joining(c)
    BY <1>2, <1>3, <1>4 DEF Busy, PendingOf, Joining
  <2>2. Keys(c)' = Keys(c) \cup {vid[c]}
    <3>1. \A u \in Ids : joined'[c][u] # None <=> joined[c][u] # None \/ u = vid[c]
      BY <1>1, <1>a, <1>2, <1>4
    <3>2. QED
      BY <1>2, <3>1 DEF Keys
  <2>3. Joining(c)' = Joining(c) \ {vid[c]}
    BY <1>2, <2>1 DEF Joining
  <2>4. PendingOf(c)'
    BY <1>2, <1>3, <2>1, <2>2, <2>3 DEF PendingOf
  <2>5. KeysOf(c)'
    BY <1>2, <1>3, <2>1, <2>2, <2>3 DEF KeysOf
  <2>6. QED
    BY <2>4, <2>5
<1>5. CASE at[c] # c
  <2>1. ~ Busy(c) /\ joined'[c] = joined[c]
    BY <1>1, <1>2, <1>a, <1>5 DEF Busy
  <2>2. Keys(c)' = Keys(c)
    BY <2>1 DEF Keys
  <2>3. QED
    BY <1>2, <1>3, <2>1, <2>2, KeysRest
<1>6. QED
  BY <1>4, <1>5

(* The client does not get what is full, and remembers it as refused.      *)
LEMMA KeysRefused ==
  ASSUME MembershipAssumption, TypeOK, HandInv, Roles, KeysInv, NEW c \in Exact, JoinRefused(c)
  PROVE  PendingOf(c)' /\ KeysOf(c)'
<1>1. c \in Members /\ panic \in BOOLEAN
  BY ConstantFacts DEF Exact, TypeOK
<1>a. pc \in [Members -> Labels] /\ refused \in [Members -> SUBSET Ids] /\ at \in [Members -> Members]
  BY DEF TypeOK
<1>2. /\ UNCHANGED <<closed, at, quits, joins, joined, told>> /\ pc[c] = "port" /\ panic = FALSE /\ pc'[c] = "join"
      /\ refused' = Set(refused, at[c], IF at[c] \in closed THEN {} ELSE refused[at[c]] \cup {vid[c]})
  BY <1>1, <1>a DEF JoinRefused, At, Goto, global
<1>3. PendingOf(c) /\ KeysOf(c) /\ Target(c)' = Target(c) /\ Keys(c)' = Keys(c) /\ (Busy(c)' <=> Busy(c))
  BY <1>2 DEF KeysInv, Target, Keys, Busy
<1>4. CASE at[c] = c
  <2>1. Busy(c) /\ joins[c][vid[c]] = 0 /\ vid[c] \in Joining(c) /\ c \notin closed
    BY <1>1, <1>2, <1>3, <1>4 DEF Busy, PendingOf, Joining, Roles, RoleOf
  <2>2. refused'[c] = refused[c] \cup {vid[c]}
    BY <1>1, <1>2, <1>4, <1>a, <2>1 DEF Set
  <2>3. Joining(c)' = Joining(c) \ {vid[c]}
    BY <1>2, <2>1 DEF Joining
  <2>4. PendingOf(c)'
    BY <1>2, <1>3, <2>1, <2>3 DEF PendingOf
  <2>5. KeysOf(c)'
    BY <1>2, <1>3, <2>1, <2>2, <2>3 DEF KeysOf
  <2>6. QED
    BY <2>4, <2>5
<1>5. CASE at[c] # c
  <2>1. ~ Busy(c) /\ refused'[c] = refused[c]
    BY <1>1, <1>2, <1>a, <1>5 DEF Busy, Set
  <2>2. QED
    BY <1>2, <1>3, <2>1, KeysRest
<1>6. QED
  BY <1>4, <1>5

LEMMA KeysEndJoin ==
  ASSUME MembershipAssumption, TypeOK, KeysInv, NEW c \in Exact, EndJoin(c)
  PROVE  PendingOf(c)' /\ KeysOf(c)'
<1>1. c \in Members /\ pc \in [Members -> Labels] /\ panic \in BOOLEAN
  BY ConstantFacts DEF Exact, TypeOK
<1>2. /\ UNCHANGED <<closed, at, joins, quits, joined, told, refused>> /\ pc[c] = "join" /\ panic = FALSE
      /\ joins[c] = Nothing /\ pc'[c] = AfterJoin(c)
  BY <1>1 DEF EndJoin, At, Goto, loop, peer
<1>3. AfterJoin(c) \in {"update", "idle", "report", "next"}
  BY DEF AfterJoin
<1>4. PendingOf(c) /\ KeysOf(c) /\ Target(c)' = Target(c) /\ Keys(c)' = Keys(c) /\ ~ Busy(c)'
  BY <1>2, <1>3 DEF KeysInv, Target, Keys, Busy
<1>5. CASE Busy(c)
  <2>1. Joining(c) = {} /\ quits[c] = {}
    BY <1>2, <1>4, <1>5, OnceFacts DEF Joining, PendingOf
  <2>2. PendingOf(c)'
    BY <1>4 DEF PendingOf
  <2>3. c \notin closed /\ HasJoined(c, Target(c))
    BY <1>2, <1>4, <1>5, <2>1 DEF KeysOf, HasJoined
  <2>4. KeysOf(c)'
    BY <1>2, <1>3, <1>4, <2>3 DEF KeysOf, HasJoined
  <2>5. QED
    BY <2>2, <2>4
<1>6. CASE ~ Busy(c)
  BY <1>2, <1>3, <1>4, <1>6, KeysRest
<1>7. QED
  BY <1>5, <1>6

(* A message sets the target; closing drops it. *)
LEMMA KeysMessage ==
  ASSUME MembershipAssumption, TypeOK, Roles, StaticInv, NEW c \in Exact, HandleFdbIds(c)
  PROVE  PendingOf(c)' /\ KeysOf(c)'
<1>1. c \in Members /\ c \in Accepted /\ c \notin Masters
  BY ConstantFacts DEF Exact, HandleFdbIds
<1>a. pc \in [Members -> Labels] /\ at \in [Members -> Members] /\ quits \in [Members -> SUBSET Ids]
  BY DEF TypeOK
<1>b. joins \in [Members -> [Ids -> Nat]] /\ told \in [Members -> SUBSET Ids]
  BY DEF TypeOK
<1>2. PICK S \in SUBSET Ids :
        /\ told' = Set(told, c, S) /\ quits' = Set(quits, c, ToQuit(c, Common(S)))
        /\ joins' = Set(joins, c, Once(Common(S) \ Keys(c)))
  BY DEF HandleFdbIds
<1>3. /\ pc'[c] = "quit" /\ at'[c] = c /\ closed' = closed /\ joined' = joined /\ c \notin closed
  BY <1>1, <1>a DEF HandleFdbIds, At, Goto, Set, global, Roles, RoleOf
<1>4. told'[c] = S /\ quits'[c] = Keys(c) \ Common(S) /\ joins'[c] = Once(Common(S) \ Keys(c))
  BY <1>1, <1>2, <1>a, <1>b DEF Set, ToQuit
<1>5. Keys(c)' = Keys(c) /\ Target(c)' = Common(S) /\ Busy(c)'
  <2>1. Target(c)' = IF Dynamic THEN S ELSE S \cap Fixed
    BY <1>1, <1>4 DEF Target
  <2>2. QED
    BY <1>3, <2>1 DEF Keys, Common, StaticInv, Busy
<1>6. Joining(c)' = Common(S) \ Keys(c)
  <2>1. Joining(c)' = {v \in Ids : joins'[c][v] > 0}
    BY <1>3 DEF Joining
  <2>2. Common(S) \subseteq Ids
    BY DEF Common
  <2>3. QED
    BY <1>4, <2>1, <2>2, OnceFacts
<1>7. PendingOf(c)'
  BY <1>3, <1>4, <1>5, <1>6, OnceFacts DEF PendingOf
<1>8. KeysOf(c)'
  BY <1>3, <1>4, <1>5, <1>6 DEF KeysOf
<1>9. QED
  BY <1>7, <1>8

LEMMA KeysClose ==
  ASSUME MembershipAssumption, TypeOK, Roles, NEW c \in Exact, Close(c) \/ QuitAllFdb(c)
  PROVE  PendingOf(c)' /\ KeysOf(c)'
<1>1. c \in Members
  BY ConstantFacts DEF Exact
<1>a. pc \in [Members -> Labels] /\ at \in [Members -> Members] /\ quits \in [Members -> SUBSET Ids]
  BY DEF TypeOK
<1>b. joins \in [Members -> [Ids -> Nat]]
  BY DEF TypeOK
<1>2. CASE Close(c)
  <2>1. pc'[c] = "closing" /\ c \in closed'
    BY <1>1, <1>2, <1>a DEF Close, Goto
  <2>2. QED
    BY <2>1 DEF PendingOf, KeysOf, Busy
<1>3. CASE QuitAllFdb(c)
  <2>1. /\ pc'[c] = "quit" /\ at'[c] = c /\ c \in closed' /\ joined' = joined
        /\ quits'[c] = Keys(c) /\ joins'[c] = Nothing
    BY <1>1, <1>3, <1>a, <1>b DEF QuitAllFdb, At, Goto, Set, ToQuitAll, Roles, RoleOf
  <2>2. Keys(c)' = Keys(c)
    BY <2>1 DEF Keys
  <2>3. Joining(c)' = {}
    BY <2>1, OnceFacts DEF Joining
  <2>4. PendingOf(c)'
    BY <2>1, <2>3, OnceFacts DEF PendingOf
  <2>5. KeysOf(c)'
    <3>1. Busy(c)'
      BY <2>1 DEF Busy
    <3>2. Keys(c)' \subseteq quits'[c]
      BY <2>1, <2>2
    <3>3. QED
      BY <2>1, <3>1, <3>2 DEF KeysOf
  <2>6. QED
    BY <2>4, <2>5
<1>4. QED
  BY <1>2, <1>3

LEMMA KeysUpdate ==
  ASSUME MembershipAssumption, TypeOK, Roles, KeysInv, NEW c \in Exact,
         UpdateMasterFdb(c) \/ NextMaster(c) \/ EndUpdate(c) \/ ReportFdbMsg(c) \/ SendReport(c)
  PROVE  PendingOf(c)' /\ KeysOf(c)'
<1>1. c \in Members /\ RoleOf(c) /\ Accepted \cap Masters = {}
  BY ConstantFacts DEF Exact, Roles
<1>a. pc \in [Members -> Labels] /\ at \in [Members -> Members] /\ panic \in BOOLEAN /\ master \subseteq Masters
  BY DEF TypeOK
<1>2. UNCHANGED <<closed, joined, told, refused>> /\ panic = FALSE /\ pc[c] \in {"update", "next", "report", "send"}
  BY <1>a DEF UpdateMasterFdb, NextMaster, EndUpdate, ReportFdbMsg, SendReport, At, global, peer
<1>3. pc'[c] \in {"update", "next", "report", "send", "idle", "gone"} \/ at'[c] # c
  <2>1. CASE NextMaster(c)
    <3>1. PICK m \in master : pc' = pc \/ at' = Set(at, c, m)
      BY <2>1 DEF NextMaster
    <3>2. c \notin Masters
      BY <1>1, <2>1 DEF NextMaster, At, RoleOf, Exact
    <3>3. QED
      BY <1>1, <1>2, <1>a, <3>1, <3>2 DEF Set
  <2>2. CASE UpdateMasterFdb(c) \/ EndUpdate(c) \/ ReportFdbMsg(c) \/ SendReport(c)
    BY <1>1, <1>a, <2>2 DEF UpdateMasterFdb, EndUpdate, ReportFdbMsg, SendReport, Goto
  <2>3. QED
    BY <2>1, <2>2
<1>4. pc'[c] \notin {"new", "ids", "closing"}
  BY <1>1, <1>2, <1>a DEF UpdateMasterFdb, NextMaster, EndUpdate, ReportFdbMsg, SendReport, Goto
<1>5. KeysOf(c) /\ Target(c)' = Target(c) /\ Keys(c)' = Keys(c) /\ ~ Busy(c) /\ ~ Busy(c)'
  BY <1>2, <1>3 DEF KeysInv, Target, Keys, Busy
<1>6. QED
  BY <1>2, <1>4, <1>5, KeysRest

LEMMA KeysMaster ==
  ASSUME MembershipAssumption, TypeOK, Roles, StaticInv, KeysInv, NEW c \in Exact, c \in Masters, MasterStep(c)
  PROVE  PendingOf(c)' /\ KeysOf(c)'
<1>1. c \in Members /\ RoleOf(c) /\ ~ Dynamic
  BY ConstantFacts DEF Exact, Roles
<1>a. pc \in [Members -> Labels] /\ panic \in BOOLEAN /\ joins \in [Members -> [Ids -> Nat]]
  BY DEF TypeOK
<1>2. UNCHANGED <<closed, joined, at, quits>> /\ UNCHANGED <<told, refused>> /\ panic = FALSE
  BY <1>a DEF MasterStep, ClientMasterAdd, JoinAllFdb, ClientMasterDel, At, global, loop, peer, Roles
<1>3. Target(c)' = Target(c) /\ Keys(c)' = Keys(c) /\ Target(c) = Fixed /\ Exists = Fixed
  BY <1>1, <1>2 DEF Target, Keys, StaticInv
<1>4. CASE ClientMasterAdd(c) \/ ClientMasterDel(c)
  <2>1. (pc[c] = "new" /\ pc'[c] = "ids") \/ (pc[c] = "gone" /\ pc'[c] = "gone")
    BY <1>1, <1>4, <1>a DEF ClientMasterAdd, ClientMasterDel, At, Goto
  <2>2. QED
    BY <1>1, <1>2, <1>3, <2>1 DEF KeysInv, PendingOf, KeysOf, Busy, HasJoined
<1>5. CASE JoinAllFdb(c)
  <2>1. pc[c] = "ids" /\ pc'[c] = "join" /\ joins'[c] = Once(Fixed)
    BY <1>1, <1>3, <1>5, <1>a DEF JoinAllFdb, At, Goto, Set
  <2>2. Keys(c) = {} /\ quits[c] = {} /\ at[c] = c /\ c \notin closed
    BY <1>1, <1>2, <2>1 DEF KeysInv, KeysOf, RoleOf
  <2>3. Joining(c)' = Fixed
    BY <2>1, OnceFacts, ConstantFacts DEF Joining
  <2>4. PendingOf(c)'
    BY <1>2, <1>3, <2>1, <2>2, OnceFacts DEF PendingOf
  <2>5. KeysOf(c)'
    BY <1>2, <1>3, <2>1, <2>2, <2>3 DEF KeysOf, Busy
  <2>6. QED
    BY <2>4, <2>5
<1>6. QED
  BY <1>4, <1>5 DEF MasterStep

LEMMA KeysStep ==
  ASSUME MembershipAssumption, TypeOK, HandInv, Roles, StaticInv, KeysInv, [Next]_vars
  PROVE  KeysInv'
<1> SUFFICES ASSUME ~ panic', NEW c \in Exact PROVE PendingOf(c)' /\ KeysOf(c)'
  BY DEF KeysInv, Exact
<1>1. CASE UNCHANGED vars
  <2>1. PendingOf(c) /\ KeysOf(c)
    BY <1>1 DEF KeysInv, vars, global
  <2>2. QED
    BY <1>1, <2>1 DEF PendingOf, KeysOf, Busy, Joining, Keys, HasJoined, Target, vars, global, loop, peer
<1>2. ASSUME NEW p \in Members \ {c}, Step(p) PROVE PendingOf(c)' /\ KeysOf(c)'
  BY <1>2, KeysOthers
<1>3. CASE Step(c)
  BY <1>3, KeysQuit, KeysDelete, KeysEndQuit, KeysNewFdb, KeysJoin, KeysRefused, KeysEndJoin, KeysMessage, KeysClose, KeysUpdate,
     KeysMaster DEF Step, ClientStep
<1>4. QED
  BY <1>1, <1>2, <1>3, Steps
-----------------------------------------------------------------------------
(* An exact client that is gone has joined nothing. *)
LEMMA GoneKeys ==
  ASSUME MembershipAssumption, TypeOK, Roles, PortsInv, KeysInv, ~ panic
  PROVE  GoneIsOut
<1> SUFFICES ASSUME NEW c \in Exact, pc[c] = "gone", NEW f \in Fdbs PROVE ports[f][c] = 0
  BY DEF GoneIsOut, Exact
<1>1. c \in Members /\ None \notin Fdbs
  BY ConstantFacts DEF Exact
<1>2. c \in closed /\ ~ Busy(c)
  BY <1>1 DEF Roles, RoleOf, Busy
<1>3. Keys(c) = {}
  BY <1>2 DEF KeysInv, KeysOf
<1>4. ~ Has(c, f)
  BY <1>1, <1>3 DEF Has, Keys
<1>5. QED
  BY <1>1, <1>4 DEF PortsInv

LEMMA GoneStep ==
  ASSUME MembershipAssumption, TypeOK, HandInv, Roles, GoneIsOut, [Next]_vars,
         TypeOK', Roles', PortsInv', KeysInv'
  PROVE  GoneIsOut'
<1>1. CASE UNCHANGED vars
  BY <1>1 DEF GoneIsOut, vars, global
<1>2. CASE ~ panic'
  BY <1>2, GoneKeys, PTL
<1>3. ASSUME NEW p \in Members, Step(p), panic' PROVE GoneIsOut'
  <2>1. panic = FALSE
    BY <1>3 DEF Step, ClientStep, MasterStep, HandleFdbIds, Close, QuitAllFdb, ReleaseFwdPort, TryGet, GetPortNum,
           DelFdbById, EndQuit, NewFdb, JoinFwdPort, JoinRefused, EndJoin, UpdateMasterFdb, NextMaster, EndUpdate,
           ReportFdbMsg, SendReport, ClientMasterAdd, JoinAllFdb, ClientMasterDel, At, TypeOK
  <2>2. JoinFwdPort(p)
    <3>1. ReleaseFwdPort(p) => panic' = panic
      BY DEF ReleaseFwdPort
    <3>2. QED
      BY <1>3, <2>1, <3>1, JoinedRest
  <2>3. SUFFICES ASSUME NEW c \in Exact, pc'[c] = "gone", NEW f \in Fdbs PROVE ports'[f][c] = 0
    BY DEF GoneIsOut, Exact
  <2>4. ports' = [ports EXCEPT ![obj[p]][at[p]] = @ + 1] /\ pc'[p] = "join"
    BY <2>2, JoinCases
  <2>5. c # p /\ c \in Members
    BY <2>3, <2>4, ConstantFacts DEF Exact
  <2>6. pc[c] = "gone" /\ at[p] # c
    BY <1>3, <2>3, <2>5, OthersRest, ExactAlone DEF Same
  <2>7. ports[f][c] = 0
    BY <2>6 DEF GoneIsOut, Exact
  <2>8. ports \in [Fdbs -> [Members -> Nat]]
    BY DEF TypeOK
  <2>9. QED
    BY <2>4, <2>5, <2>6, <2>7, <2>8
<1>4. QED
  BY <1>1, <1>2, <1>3, Steps

(* Without masters an FDB that is empty is about to be joined or deleted. *)
LEMMA EmptyStep ==
  ASSUME MembershipAssumption, TypeOK, HandInv, OneId, CountInv, EmptyInv, [Next]_vars
  PROVE  EmptyInv'
<1>1. CASE UNCHANGED vars
  BY <1>1 DEF EmptyInv, Attended, Exists, vars, global, loop
<1> SUFFICES ASSUME Dynamic, Masters = {}, NEW p \in Members, Step(p),
                    NEW v \in Ids, fdbMap'[v] # None, num'[fdbMap'[v]] = 0
             PROVE  Attended(v)'
  BY <1>1, Steps DEF EmptyInv, Exists
<1>0. None \notin Fdbs /\ HandOf(p) /\ \A c : Inc(c)
  BY ConstantFacts DEF HandInv, Inc
<1>a. fdbMap \in [Ids -> Fdbs \cup {None}] /\ num \in [Fdbs -> Nat] /\ pc \in [Members -> Labels]
  BY DEF TypeOK
<1>b. vid \in [Members -> Ids \cup {None}] /\ obj \in [Members -> Fdbs \cup {None}]
  BY DEF TypeOK
<1>2. ASSUME fdbMap'[v] = fdbMap[v], num'[fdbMap[v]] = num[fdbMap[v]]
      PROVE  \/ Attended(v)'
             \/ pc[p] \in {"num", "port"} /\ obj[p] = fdbMap[v]
             \/ pc[p] \in {"get", "del"} /\ vid[p] = v
  <2>1. PICK q \in Members : \/ pc[q] \in {"num", "port"} /\ obj[q] = fdbMap[v]
                             \/ pc[q] \in {"get", "del"} /\ vid[q] = v
    BY <1>2 DEF EmptyInv, Exists, Attended
  <2>2. CASE q # p
    <3>1. Same(q)
      BY <2>2, OthersRest
    <3>2. QED
      BY <1>2, <2>1, <3>1 DEF Same, Attended
  <2>3. QED
    BY <2>1, <2>2
<1>3. CASE ReleaseFwdPort(p)
  <2>1. PICK w \in quits[p] :
          /\ w \in Ids /\ fdbMap' = fdbMap /\ pc[p] = "quit"
          /\ \/ num' = num
             \/ Quitting(p, w) /\ pc' = [pc EXCEPT ![p] = "get"] /\ vid' = Set(vid, p, w)
    BY <1>3, ReleaseCases DEF Deletes, Goto
  <2>2. CASE Quitting(p, w) /\ pc' = [pc EXCEPT ![p] = "get"] /\ vid' = Set(vid, p, w) /\ joined[at[p]][w] = fdbMap[v]
    <3>1. at[p] \in Members /\ fdbMap[v] \in Fdbs
      BY <2>2 DEF TypeOK, Quitting
    <3>2. w = v
      BY <2>1, <2>2, <3>1 DEF OneId, RefersTo
    <3>3. pc'[p] = "get" /\ vid'[p] = v
      BY <1>a, <1>b, <2>2, <3>2 DEF Set
    <3>4. QED
      BY <3>3 DEF Attended
  <2>3. CASE num'[fdbMap[v]] = num[fdbMap[v]]
    BY <1>2, <2>1, <2>3
  <2>4. QED
    BY <1>a, <2>1, <2>2, <2>3 DEF Quitting, Set
<1>4. CASE TryGet(p)
  <2>1. UNCHANGED <<fdbMap, num>> /\ pc[p] = "get"
    BY <1>4 DEF TryGet, At, global
  <2>2. CASE vid[p] = v
    <3>1. pc'[p] = "num" /\ obj'[p] = fdbMap[v]
      BY <1>4, <1>a, <1>b, <2>1, <2>2 DEF TryGet, Goto, Set
    <3>2. QED
      BY <2>1, <3>1 DEF Attended
  <2>3. QED
    BY <1>2, <2>1, <2>2
<1>5. CASE GetPortNum(p)
  <2>1. UNCHANGED <<fdbMap, num>> /\ pc[p] = "num" /\ vid[p] \in Ids
    BY <1>0, <1>5, <1>b DEF GetPortNum, At, HandOf, global
  <2>2. CASE obj[p] = fdbMap[v]
    <3>1. fdbMap[v] \in Fdbs /\ num[fdbMap[v]] = 0
      BY <1>a, <2>1
    <3>2. vid[p] = v
      BY <2>1, <2>2, <3>1 DEF OneId, RefersTo
    <3>3. pc'[p] = "del" /\ vid' = vid
      BY <1>5, <1>a, <2>2, <3>1 DEF GetPortNum, Goto, Deletable
    <3>4. QED
      BY <3>2, <3>3 DEF Attended
  <2>3. QED
    BY <1>2, <2>1, <2>2
<1>6. CASE DelFdbById(p)
  <2>1. fdbMap' = Set(fdbMap, vid[p], None) /\ num' = num /\ pc[p] = "del"
    BY <1>6 DEF DelFdbById, At
  <2>2. v # vid[p] /\ fdbMap'[v] = fdbMap[v]
    BY <1>a, <2>1 DEF Set
  <2>3. QED
    BY <1>2, <2>1, <2>2
<1>7. CASE NewFdb(p)
  <2>1. PICK w \in Ids :
          /\ pc[p] = "join" /\ Goto(p, "port")
          /\ IF fdbMap[w] # None
             THEN obj' = Set(obj, p, fdbMap[w]) /\ UNCHANGED <<fdbMap, num>>
             ELSE \E g \in Fdbs : Unused(g) /\ obj' = Set(obj, p, g) /\ fdbMap' = Set(fdbMap, w, g) /\ num' = Set(num, g, 0)
    <3>1. PICK w \in Ids :
            /\ At(p, "join") /\ Goto(p, "port")
            /\ IF fdbMap[w] # None
               THEN obj' = Set(obj, p, fdbMap[w]) /\ UNCHANGED <<fdbMap, num>>
               ELSE /\ \E g \in Fdbs : Unused(g)
                    /\ LET g == CHOOSE g \in Fdbs : Unused(g) IN
                       obj' = Set(obj, p, g) /\ fdbMap' = Set(fdbMap, w, g) /\ num' = Set(num, g, 0)
      BY <1>7 DEF NewFdb
    <3>2. QED
      BY <3>1 DEF At
  <2>2. CASE UNCHANGED <<fdbMap, num>>
    BY <1>2, <2>1, <2>2
  <2>3. ASSUME NEW g \in Fdbs, Unused(g), obj' = Set(obj, p, g), fdbMap' = Set(fdbMap, w, g), num' = Set(num, g, 0)
        PROVE  Attended(v)'
    <3>1. CASE v = w
      <4>1. pc'[p] = "port" /\ obj'[p] = fdbMap'[v]
        BY <1>a, <1>b, <2>1, <2>3, <3>1 DEF Goto, Set
      <4>2. QED
        BY <4>1 DEF Attended
    <3>2. CASE v # w
      <4>1. fdbMap'[v] = fdbMap[v] /\ fdbMap[v] # g
        BY <1>a, <2>3, <3>2 DEF Set, Unused
      <4>2. num'[fdbMap[v]] = num[fdbMap[v]]
        BY <1>a, <2>3, <4>1 DEF Set
      <4>3. QED
        BY <1>2, <2>1, <4>1, <4>2
    <3>3. QED
      BY <3>1, <3>2
  <2>4. QED
    BY <2>1, <2>2, <2>3
<1>8. CASE JoinFwdPort(p)
  <2>1. /\ fdbMap' = fdbMap /\ pc[p] = "port" /\ obj[p] \in Fdbs
        /\ num' = Set(num, obj[p], num[obj[p]] + 1)
    BY <1>0, <1>8, JoinCases
  <2>2. obj[p] # fdbMap[v]
    BY <1>a, <2>1 DEF Set
  <2>3. num'[fdbMap[v]] = num[fdbMap[v]]
    BY <1>a, <2>1, <2>2 DEF Set
  <2>4. QED
    BY <1>2, <2>1, <2>2, <2>3
<1>8r. CASE JoinRefused(p)
  <2>1. UNCHANGED <<fdbMap, num>> /\ pc[p] = "port" /\ Full(obj[p])
    BY <1>8r DEF JoinRefused, At, global
  <2>2. CASE obj[p] = fdbMap[v]
    <3>1. fdbMap[v] \in Fdbs /\ num[fdbMap[v]] = 0
      BY <1>a, <2>1
    <3>2. PortsOf(fdbMap[v]) = CountedPorts(fdbMap[v])
      BY <1>0 DEF PortsOf, CountedPorts
    <3>3. IsFiniteSet(CountedPorts(fdbMap[v]))
          /\ num[fdbMap[v]] = Cardinality(CountedPorts(fdbMap[v])) + Devices(fdbMap[v])
      BY <3>1 DEF CountInv, CountOf
    <3>4. Cardinality(PortsOf(fdbMap[v])) + Devices(fdbMap[v]) = 0
      BY <3>1, <3>2, <3>3
    <3>5. QED
      BY <2>1, <2>2, <3>4, ConstantFacts DEF Full
  <2>3. QED
    BY <1>2, <2>1, <2>2
<1>9. CASE ~ (ReleaseFwdPort(p) \/ TryGet(p) \/ GetPortNum(p) \/ DelFdbById(p) \/ NewFdb(p) \/ JoinFwdPort(p)
              \/ JoinRefused(p))
  <2>1. UNCHANGED <<fdbMap, num>> /\ pc[p] \notin {"get", "num", "del", "port"}
    BY <1>9 DEF Step, ClientStep, MasterStep, HandleFdbIds, Close, QuitAllFdb, EndQuit, EndJoin, UpdateMasterFdb,
           NextMaster, EndUpdate, ReportFdbMsg, SendReport, ClientMasterAdd, JoinAllFdb, ClientMasterDel, At, global
  <2>2. QED
    BY <1>2, <2>1
<1>10. QED
  BY <1>3, <1>4, <1>5, <1>6, <1>7, <1>8, <1>8r, <1>9
-----------------------------------------------------------------------------
LEMMA InitInv ==
  ASSUME MembershipAssumption, Init
  PROVE  IInv
<1>0. /\ None \notin Fdbs /\ None \notin Ids /\ Accepted \cap Masters = {} /\ Members = Accepted \cup Masters
      /\ Nothing \in [Ids -> Nat] /\ \A v \in Ids : Nothing[v] = 0
  BY ConstantFacts, OnceFacts DEF Members
<1>a. fdbMap \in [Ids -> Fdbs \cup {None}] /\ {v \in Ids : fdbMap[v] # None} = Fixed
      /\ \A u, v \in Fixed : fdbMap[u] = fdbMap[v] => u = v
  BY DEF Init
<1>b. /\ ports = [f \in Fdbs |-> [c \in Members |-> 0]] /\ num = [f \in Fdbs |-> Devices(f)]
      /\ joined = [c \in Members |-> [v \in Ids |-> None]]
  BY DEF Init
<1>c. closed = {} /\ master = {} /\ panic = FALSE /\ nil = {}
  BY DEF Init
<1>d. pc = [c \in Members |-> IF c \in Masters THEN "new" ELSE "idle"] /\ at = [c \in Members |-> c]
  BY DEF Init
<1>e. quits = [c \in Members |-> {}] /\ joins = [c \in Members |-> Nothing]
  BY DEF Init
<1>f. vid = [c \in Members |-> None] /\ obj = [c \in Members |-> None]
  BY DEF Init
<1>g. /\ lock = [c \in Members |-> None] /\ msgs = [c \in Members |-> 0] /\ joinIds = joins
      /\ told = [c \in Members |-> {}]
      /\ ids = told /\ left = told /\ seen = told /\ quitIds = told /\ rep = told /\ sent = told
      /\ refused = told
  BY DEF Init
<1>1. TypeOK
  <2>1. joins \in [Members -> [Ids -> Nat]] /\ joinIds \in [Members -> [Ids -> Nat]]
    BY <1>0, <1>e, <1>g
  <2>2. /\ ports \in [Fdbs -> [Members -> Nat]] /\ num \in [Fdbs -> Nat]
        /\ joined \in [Members -> [Ids -> Fdbs \cup {None}]]
    BY <1>b DEF Devices
  <2>3. pc \in [Members -> Labels] /\ at \in [Members -> Members] /\ \A p \in Members : pc[p] \notin {"num", "del", "port"}
    BY <1>d DEF Labels
  <2>4. /\ quits \in [Members -> SUBSET Ids] /\ quitIds \in [Members -> SUBSET Ids] /\ ids \in [Members -> SUBSET Ids]
        /\ told \in [Members -> SUBSET Ids] /\ rep \in [Members -> SUBSET Ids] /\ sent \in [Members -> SUBSET Ids]
        /\ refused \in [Members -> SUBSET Ids]
    BY <1>e, <1>g
  <2>5. left \in [Members -> SUBSET Masters] /\ seen \in [Members -> SUBSET Masters] /\ msgs \in [Members -> Nat]
    BY <1>g
  <2>6. vid \in [Members -> Ids \cup {None}] /\ obj \in [Members -> Fdbs \cup {None}]
        /\ lock \in [Members -> Members \cup {None}]
    BY <1>f, <1>g
  <2>7. QED
    BY <1>a, <1>c, <2>1, <2>2, <2>3, <2>4, <2>5, <2>6 DEF TypeOK
<1>2. HandInv
  BY <1>d, <1>f DEF HandInv, HandOf
<1>3. Roles
  BY <1>0, <1>c, <1>d, <1>e DEF Roles, RoleOf
<1>4. OneId
  <2> SUFFICES ASSUME NEW f \in Fdbs, NEW u \in Ids, NEW v \in Ids, RefersTo(f, u), RefersTo(f, v)
               PROVE  u = v
    BY DEF OneId
  <2>1. fdbMap[u] = f /\ fdbMap[v] = f
    BY <1>0, <1>b, <1>f DEF RefersTo
  <2>2. u \in Fixed /\ v \in Fixed
    BY <1>0, <1>a, <2>1
  <2>3. QED
    BY <1>a, <2>1, <2>2
<1>5. StaticInv
  <2>1. \A p \in Members : Joining(p) = {} /\ pc[p] \notin {"get", "num", "del", "port"}
    BY <1>0, <1>d, <1>e DEF Joining
  <2>2. \A c \in Members, v \in Ids : joined[c][v] = None
    BY <1>b
  <2>3. QED
    BY <1>a, <2>1, <2>2 DEF StaticInv, Exists
<1>5t. TunsInv
  BY <1>0, <1>a, <1>f, ConstantFacts DEF TunsInv, Fixed
<1>6. PortsInv
  BY <1>0, <1>b DEF PortsInv, Has, Exact
<1>7. KeysInv
  <2> SUFFICES ASSUME NEW c \in Exact PROVE PendingOf(c) /\ KeysOf(c)
    BY DEF KeysInv
  <2>1. c \in Members /\ c \notin closed /\ ~ Busy(c) /\ Keys(c) = {} /\ pc[c] \in {"new", "idle"}
    BY <1>0, <1>b, <1>c, <1>d DEF Exact, Busy, Keys
  <2>2. pc[c] = "idle" => Target(c) = {}
    BY <1>d, <1>g, <2>1 DEF Target
  <2>3. QED
    BY <2>1, <2>2 DEF PendingOf, KeysOf, HasJoined
<1>8. CountInv
  <2>1. ASSUME NEW f \in Fdbs PROVE CountedPorts(f) = {} /\ num[f] = Devices(f)
    BY <1>b, <2>1 DEF CountedPorts
  <2>2. QED
    BY <2>1, FS_EmptySet DEF CountInv, CountOf, Devices
<1>9. GoneIsOut
  BY <1>b, <1>0 DEF GoneIsOut
<1>10. EmptyInv
  <2> SUFFICES ASSUME Dynamic, NEW v \in Exists PROVE num[fdbMap[v]] # 0
    BY DEF EmptyInv
  <2>1. v \in TunIds /\ fdbMap[v] \in Fdbs
    BY <1>a DEF Exists, Dynamic, Fixed
  <2>2. Devices(fdbMap[v]) = 1
    BY <2>1 DEF Devices
  <2>3. QED
    BY <1>b, <2>1, <2>2
<1>11. QED
  BY <1>1, <1>2, <1>3, <1>4, <1>5, <1>5t, <1>6, <1>7, <1>8, <1>9, <1>10 DEF IInv

LEMMA StepInv ==
  ASSUME MembershipAssumption, IInv, [Next]_vars
  PROVE  IInv'
<1>0. /\ TypeOK /\ HandInv /\ Roles /\ OneId /\ StaticInv
      /\ TunsInv /\ PortsInv /\ KeysInv /\ CountInv /\ GoneIsOut /\ EmptyInv
  BY DEF IInv
<1>1. TypeOK' /\ HandInv' /\ Roles'
  BY <1>0, TypeStep, HandStep, RolesStep
<1>2. OneId' /\ StaticInv' /\ TunsInv'
  BY <1>0, OneIdStep, StaticStep, TunsStep
<1>3. PortsInv' /\ KeysInv' /\ CountInv'
  BY <1>0, PortsStep, KeysStep, CountStep
<1>4. GoneIsOut'
  BY <1>0, <1>1, <1>3, GoneStep
<1>5. EmptyInv'
  BY <1>0, EmptyStep
<1>6. QED
  BY <1>1, <1>2, <1>3, <1>4, <1>5 DEF IInv

(* The inductive invariant holds throughout. *)
THEOREM Invariance ==
  ASSUME MembershipAssumption
  PROVE  Spec => []IInv
<1>1. Init => IInv
  BY InitInv
<1>2. IInv /\ [Next]_vars => IInv'
  BY StepInv
<1>3. QED
  BY <1>1, <1>2, PTL DEF Spec

LEMMA PortsFollow ==
  ASSUME MembershipAssumption, IInv
  PROVE  TypeOK /\ PortsMatchJoined /\ GoneIsOut
<1> SUFFICES ASSUME ~ panic, NEW c \in Exact, NEW f \in Fdbs
             PROVE  ports[f][c] = Cardinality({v \in Ids : joined[c][v] = f})
  BY DEF PortsMatchJoined, Exact, IInv
<1>1. c \in Members /\ ports[f][c] = IF Has(c, f) THEN 1 ELSE 0
  BY ConstantFacts DEF Exact, IInv, PortsInv
<1>2. CASE Has(c, f)
  <2>1. PICK v \in Ids : joined[c][v] = f
    BY <1>2 DEF Has
  <2>2. {w \in Ids : joined[c][w] = f} = {v}
    BY <1>1, <2>1 DEF IInv, OneId, RefersTo
  <2>3. QED
    BY <1>1, <1>2, <2>2, FS_Singleton
<1>3. CASE ~ Has(c, f)
  <2>1. {w \in Ids : joined[c][w] = f} = {}
    BY <1>3 DEF Has
  <2>2. QED
    BY <1>1, <1>3, <2>1, FS_EmptySet
<1>4. QED
  BY <1>2, <1>3

LEMMA CountFollows ==
  ASSUME MembershipAssumption, IInv
  PROVE  CountExact /\ EmptyIsDeleted
<1>1. CountExact
  BY DEF IInv, CountInv, CountOf, CountExact
<1>2. ASSUME Dynamic, Masters = {}, AtRest, NEW v \in Exists PROVE num[fdbMap[v]] > 0
  <2>1. ~ Attended(v)
    BY <1>2 DEF AtRest, Attended
  <2>2. num[fdbMap[v]] # 0
    BY <1>2, <2>1 DEF IInv, EmptyInv
  <2>3. fdbMap[v] \in Fdbs /\ num \in [Fdbs -> Nat]
    BY DEF IInv, TypeOK, Exists
  <2>4. num[fdbMap[v]] \in Nat
    BY <2>3
  <2>5. QED
    BY <2>2, <2>4
<1>3. QED
  BY <1>1, <1>2 DEF EmptyIsDeleted

LEMMA KeysFollow ==
  ASSUME MembershipAssumption, IInv
  PROVE  JoinedAsTold /\ NoOrphan
<1>1. ASSUME AtRest, NEW c \in Exact, c \notin closed, pc[c] # "gone" PROVE HasJoined(c, Target(c))
  <2>1. c \in Members /\ pc[c] = "idle" /\ ~ panic
    BY <1>1, ConstantFacts DEF AtRest, Exact
  <2>2. QED
    BY <1>1, <2>1 DEF IInv, KeysInv, KeysOf, Busy
<1>2. JoinedAsTold
  <2> SUFFICES ASSUME AtRest, NEW a \in Accepted \ closed
               PROVE  HasJoined(a, IF Dynamic THEN told[a] ELSE told[a] \cap Fixed)
    BY DEF JoinedAsTold
  <2>1. a \in Exact /\ a \in Members /\ a \notin Masters
    BY ConstantFacts DEF Exact
  <2>2. pc[a] # "gone"
    BY <2>1 DEF IInv, Roles, RoleOf
  <2>3. QED
    BY <1>1, <2>1, <2>2 DEF Target
<1>3. NoOrphan
  <2>1. ASSUME ~ Dynamic, AtRest, NEW m \in master \ closed PROVE HasJoined(m, Fixed)
    <3>1. m \in Masters /\ m \in Exact /\ pc[m] # "gone"
      BY <2>1, ConstantFacts DEF IInv, TypeOK, Exact, AtRest
    <3>2. QED
      BY <1>1, <2>1, <3>1 DEF Target
  <2>2. ~ Dynamic => Exists = Fixed /\ \A c \in Members : \A v \in Keys(c) : joined[c][v] = fdbMap[v]
    BY DEF IInv, StaticInv, Keys
  <2>3. QED
    BY <2>1, <2>2 DEF NoOrphan
<1>4. QED
  BY <1>2, <1>3

(* The state is what the types say; the ports of every FDB object for a    *)
(* client are those the client can give back, one where it has joined; and *)
(* none leads to a client that is gone (joinFdbByIds, quitFdbByIds and     *)
(* quitAllFdb of vnet/vid.go).                                             *)
THEOREM PortsCorrect ==
  ASSUME MembershipAssumption
  PROVE  Spec => [](TypeOK /\ PortsMatchJoined /\ GoneIsOut)
<1>1. IInv => TypeOK /\ PortsMatchJoined /\ GoneIsOut
  BY PortsFollow
<1>2. QED
  BY <1>1, Invariance, PTL

(* allocNum counts the device and the ports of the clients that count, in  *)
(* every FDB object; and without masters none stays in the map once it is  *)
(* empty (fdb/fdb.go, IncPortNum, DecPortNum and TryToDelFdbById).         *)
THEOREM NumCorrect ==
  ASSUME MembershipAssumption
  PROVE  Spec => [](CountExact /\ EmptyIsDeleted)
<1>1. IInv => CountExact /\ EmptyIsDeleted
  BY CountFollows
<1>2. QED
  BY <1>1, Invariance, PTL

(* At rest an accepted client has joined what its peer has told, and in    *)
(* static mode a master all that the node has, in the FDBs of the map, but *)
(* for what was full when it came; and in static mode the FDBs are those   *)
(* configured and those of the devices (HandleFdbIds, joinFdbByIds and     *)
(* JoinAllFdb of vnet/vid.go).                                             *)
THEOREM KeysCorrect ==
  ASSUME MembershipAssumption
  PROVE  Spec => [](JoinedAsTold /\ NoOrphan)
<1>1. IInv => JoinedAsTold /\ NoOrphan
  BY KeysFollow
<1>2. QED
  BY <1>1, Invariance, PTL
=============================================================================
