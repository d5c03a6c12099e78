--------------------------- MODULE FdbMembership ---------------------------
(***************************************************************************)
(* Which client is in which forwarding database: the global map of FDBs    *)
(* (fdb/fdb.go), the map fdbJoined of each client and the goroutines that  *)
(* change both (vnet/vid.go).                                              *)
(*                                                                         *)
(* An accepted client joins what its peer's message lists and quits the    *)
(* rest; a master (a client towards an upper node) is to follow the FDBs   *)
(* that this node has: updateMasterFdb, run by the goroutine of any        *)
(* accepted client that changed something, walks over all masters.  If the *)
(* node is configured with Vids its FDBs are fixed (static mode);          *)
(* otherwise an FDB comes with its first client and goes with the last.    *)
(*                                                                         *)
(* One goroutine per client is modelled: what two goroutines of one client *)
(* do to its fdbJoined is the subject of ClientLife, and what happens      *)
(* inside JoinFwdPort and ReleaseFwdPort is that of FdbPort.  An FDB is    *)
(* an object: deleted from the map it lives on for those who joined it.    *)
(***************************************************************************)
EXTENDS Integers, FiniteSets, TLC

CONSTANTS Accepted,   \* clients that connected to this node
          Masters,    \* clients in ClientMaster
          Dialed,     \* the masters with isClient set; a backup link's has not
          Ids,        \* FDB ids that messages may name
          Vids,       \* the configured ids; none means dynamic mode
          TunIds,     \* the FDBs that the devices of this node are in, one device in each
          Fdbs,       \* FDB objects; those in use at one time are so bounded
          Capacity,   \* ports of an FDB
          MaxMsgs,    \* bound on the messages of one peer
          None        \* nil

MembershipAssumption ==
  /\ Accepted \cap Masters = {} /\ Dialed \subseteq Masters
  /\ Vids \subseteq Ids /\ TunIds \subseteq Ids /\ Capacity \in Nat \ {0} /\ MaxMsgs \in Nat
  /\ None \notin Fdbs \cup Ids \cup Accepted \cup Masters

Members == Accepted \cup Masters
Dynamic == Vids = {}
Fixed == Vids \cup TunIds    \* FDBs that exist from the start

VARIABLES
  fdbMap,   \* FdbMap.fdbs
  ports,    \* how many ports of an FDB lead to a client
  num,      \* allocNum of each FDB
  joined,   \* fdbJoined of each client
  nil,      \* clients whose fdbJoined is nil
  closed,   \* clients whose isClosed is set
  master,   \* keys of ClientMaster
  lock,     \* who holds a client's lock
  panic,    \* a write to a nil map has ended the process
  pc,       \* where the goroutine of each client is
  at,       \* the client it works on
  quits, joins,     \* the ids it still has to quit and to join
  vid, obj,         \* the id and the FDB in its hand
  ids, left, seen,  \* newVidMap, and the masters updateMasterFdb has before and behind it
  quitIds, joinIds, \* the slices of updateMasterFdb
  msgs, told,       \* messages received from the peer, and the last one
  rep, sent,        \* the report in hand, and the last one a master has sent
  refused           \* the ids of which a client found the FDB full, since its
                    \* peer's last message; once it is closed told, sent and
                    \* refused are cleared

global == <<fdbMap, ports, num, joined, nil, closed, master, lock, panic>>
loop == <<at, quits, joins, vid, obj>>
update == <<ids, left, seen, quitIds, joinIds>>
peer == <<msgs, told, rep, sent, refused>>
vars == <<global, pc, loop, update, peer>>

Inc(c) == c \notin Dialed               \* joinFdbByIds counts unless isClient
Exists == {v \in Ids : fdbMap[v] # None}                    \* GetFdbIds
Keys(c) == {v \in Ids : joined[c][v] # None}
Nothing == [v \in Ids |-> 0]                                \* an empty slice of ids
Once(S) == [v \in Ids |-> IF v \in S THEN 1 ELSE 0]
CanLock(p, c) == lock[c] \in {None, p}

At(p, l) == ~ panic /\ pc[p] = l
Goto(p, l) == pc' = [pc EXCEPT ![p] = l]
Set(f, p, x) == [f EXCEPT ![p] = x]

(* The device of this node that is in f.  It is in its FDB before the node *)
(* connects to anybody, is counted, and stays: an error of a device ends   *)
(* the process.                                                            *)
Devices(f) == IF \E v \in TunIds : fdbMap[v] = f THEN 1 ELSE 0

(* SetVids creates the configured FDBs, joinFdbById those of the devices. *)
Init ==
  /\ fdbMap \in {m \in [Ids -> Fdbs \cup {None}] :
                   /\ {v \in Ids : m[v] # None} = Fixed
                   /\ \A u, v \in Fixed : m[u] = m[v] => u = v}
  /\ ports = [f \in Fdbs |-> [c \in Members |-> 0]]
  /\ num = [f \in Fdbs |-> Devices(f)]
  /\ joined = [c \in Members |-> [v \in Ids |-> None]]
  /\ nil = {} /\ closed = {} /\ master = {} /\ panic = FALSE
  /\ lock = [c \in Members |-> None]
  /\ pc = [c \in Members |-> IF c \in Masters THEN "new" ELSE "idle"]
  /\ at = [c \in Members |-> c]
  /\ quits = [c \in Members |-> {}] /\ joins = [c \in Members |-> Nothing]
  /\ vid = [c \in Members |-> None] /\ obj = [c \in Members |-> None]
  /\ ids = [c \in Members |-> {}] /\ left = ids /\ seen = ids
  /\ quitIds = ids /\ joinIds = joins
  /\ msgs = [c \in Members |-> 0] /\ told = ids /\ rep = ids /\ sent = ids
  /\ refused = ids
-----------------------------------------------------------------------------
(* A master: HandleConn and NcAccessBackup register it, then JoinAllFdb    *)
(* joins whatever FDBs there are.                                          *)
ClientMasterAdd(m) ==
  /\ At(m, "new") /\ Goto(m, "ids")
  /\ master' = master \cup {m}
  /\ UNCHANGED <<fdbMap, ports, num, joined, nil, closed, lock, panic, loop, update, peer>>

JoinAllFdb(m) ==
  /\ At(m, "ids") /\ Goto(m, "join")
  /\ joins' = Set(joins, m, Once(Exists))
  /\ UNCHANGED <<global, at, quits, vid, obj, update, peer>>

(* An accepted client: the peer lists its FDBs.  In static mode only those *)
(* that exist count.                                                       *)
Common(S) == IF Dynamic THEN S ELSE S \cap Exists

KeepsOld(c, S) == {}     \* mutant: what the peer no longer lists is kept
ToQuit(c, S) == Keys(c) \ S

HandleFdbIds(a) ==
  \E S \in SUBSET Ids :
    LET new == Common(S) IN
    /\ At(a, "idle") /\ a \in Accepted /\ msgs[a] < MaxMsgs /\ lock[a] = None
    /\ Goto(a, "quit")
    /\ msgs' = Set(msgs, a, msgs[a] + 1) /\ told' = Set(told, a, S)
    /\ at' = Set(at, a, a)
    /\ quits' = Set(quits, a, ToQuit(a, new))
    /\ joins' = Set(joins, a, Once(new \ Keys(a)))
    /\ refused' = Set(refused, a, {})
    /\ UNCHANGED <<global, vid, obj, update, rep, sent>>

(* Close and quitAllFdb, which quits everything under the client's lock.   *)
(* What was said to and by the peer is of no account any more.             *)
Close(c) ==
  /\ At(c, "idle") /\ c \in Accepted \cup Dialed /\ lock[c] = None
  /\ Goto(c, "closing")
  /\ closed' = closed \cup {c}
  /\ msgs' = Set(msgs, c, 0) /\ told' = Set(told, c, {}) /\ sent' = Set(sent, c, {})
  /\ refused' = Set(refused, c, {})
  /\ UNCHANGED <<fdbMap, ports, num, joined, nil, master, lock, panic, loop, update, rep>>

ToQuitAll(c) == Keys(c)

QuitAllFdb(c) ==
  /\ At(c, "closing") /\ lock[c] = None /\ Goto(c, "quit")
  /\ lock' = Set(lock, c, c)
  /\ at' = Set(at, c, c) /\ quits' = Set(quits, c, ToQuitAll(c)) /\ joins' = Set(joins, c, Nothing)
  /\ UNCHANGED <<fdbMap, ports, num, joined, nil, closed, master, panic, vid, obj, update, peer>>

(* HandleConn, when Reconnect has released it. *)
ClientMasterDel(m) ==
  /\ At(m, "gone") /\ m \in master
  /\ master' = master \ {m}
  /\ UNCHANGED <<fdbMap, ports, num, joined, nil, closed, lock, panic, pc, loop, update, peer>>
-----------------------------------------------------------------------------
(* quitFdbByIds(quits[p]) of client at[p]. *)
NoDec(c) == 0   \* mutant: the release is not counted out
Dec(c) == IF Inc(c) THEN 1 ELSE 0

InMap(c, v) == fdbMap[v]   \* mutant: the FDB is looked up by its id
Left(c, v) == joined[c][v]

Deletes == Dynamic

ReleaseFwdPort(p) ==
  \E v \in quits[p] :
    LET c == at[p]
        f == Left(c, v) IN
    /\ At(p, "quit") /\ CanLock(p, c)
    /\ quits' = Set(quits, p, quits[p] \ {v})
    /\ lock' = Set(lock, c, p)
    /\ IF f = None
       THEN UNCHANGED <<ports, num, joined, pc, vid>>
       ELSE /\ ports' = [ports EXCEPT ![f][c] = @ - 1]
            /\ num' = Set(num, f, num[f] - Dec(c))
            /\ joined' = [joined EXCEPT ![c][v] = None]
            /\ Goto(p, IF Deletes THEN "get" ELSE "quit")
            /\ vid' = IF Deletes THEN Set(vid, p, v) ELSE vid
    /\ UNCHANGED <<fdbMap, nil, closed, master, panic, at, joins, obj, update, peer>>

(* TryToDelFdbById: look the id up, read its getPortNum, delete the id. *)
Forget(p) == vid' = Set(vid, p, None) /\ obj' = Set(obj, p, None)

TryGet(p) ==
  LET f == fdbMap[vid[p]] IN
  /\ At(p, "get")
  /\ IF f = None
     THEN Goto(p, "quit") /\ Forget(p)
     ELSE Goto(p, "num") /\ obj' = Set(obj, p, f) /\ UNCHANGED vid
  /\ UNCHANGED <<global, at, quits, joins, update, peer>>

Deletable(f) == num[f] = 0

GetPortNum(p) ==
  /\ At(p, "num")
  /\ IF Deletable(obj[p])
     THEN Goto(p, "del") /\ UNCHANGED <<vid, obj>>
     ELSE Goto(p, "quit") /\ Forget(p)
  /\ UNCHANGED <<global, at, quits, joins, update, peer>>

DelFdbById(p) ==
  /\ At(p, "del") /\ Goto(p, "quit")
  /\ fdbMap' = Set(fdbMap, vid[p], None)
  /\ Forget(p)
  /\ UNCHANGED <<ports, num, joined, nil, closed, master, lock, panic, at, quits, joins, update,
                 peer>>

(* The unlock; after quitAllFdb the client has no map any more. *)
AfterClose(p) == IF Dynamic /\ Inc(p) THEN "update" ELSE "gone"

EndQuit(p) ==
  LET all == at[p] = p /\ p \in closed IN
  /\ At(p, "quit") /\ quits[p] = {} /\ CanLock(p, at[p])
  /\ lock' = Set(lock, at[p], None)
  /\ nil' = IF all THEN nil \cup {p} ELSE nil
  /\ Goto(p, IF all THEN AfterClose(p) ELSE "join")
  /\ UNCHANGED <<fdbMap, ports, num, joined, closed, master, panic, loop, update, peer>>
-----------------------------------------------------------------------------
(* joinFdbByIds(joins[p]) of client at[p]. *)

(* A new object is one that nothing refers to. *)
Unused(f) ==
  /\ \A v \in Ids : fdbMap[v] # f
  /\ \A c \in Members : obj[c] # f /\ ports[f][c] = 0 /\ \A v \in Ids : joined[c][v] # f

NewFdb(p) ==
  \E v \in Ids :
    /\ At(p, "join") /\ joins[p][v] > 0 /\ CanLock(p, at[p])
    /\ Goto(p, "port")
    /\ lock' = Set(lock, at[p], p)
    /\ joins' = [joins EXCEPT ![p][v] = @ - 1]
    /\ vid' = Set(vid, p, v)
    /\ IF fdbMap[v] # None
       THEN obj' = Set(obj, p, fdbMap[v]) /\ UNCHANGED <<fdbMap, num>>
       ELSE /\ \E f \in Fdbs : Unused(f)
            /\ LET f == CHOOSE f \in Fdbs : Unused(f) IN
               obj' = Set(obj, p, f) /\ fdbMap' = Set(fdbMap, v, f) /\ num' = Set(num, f, 0)
    /\ UNCHANGED <<ports, joined, nil, closed, master, panic, at, quits, update, peer>>

(* No port is left in the pool. *)
PortsOf(f) == UNION {{c} \X (1 .. ports[f][c]) : c \in Members}
Full(f) == Cardinality(PortsOf(f)) + Devices(f) >= Capacity

JoinFwdPort(p) ==
  LET c == at[p]
      f == obj[p] IN
  /\ At(p, "port") /\ Goto(p, "join") /\ ~ Full(f)
  /\ ports' = [ports EXCEPT ![f][c] = @ + 1]
  /\ num' = Set(num, f, num[f] + IF Inc(c) THEN 1 ELSE 0)
  /\ IF c \in nil
     THEN panic' = TRUE /\ UNCHANGED joined
     ELSE joined' = [joined EXCEPT ![c][vid[p]] = f] /\ UNCHANGED panic
  /\ Forget(p)
  /\ UNCHANGED <<fdbMap, nil, closed, master, lock, at, quits, joins, update, peer>>

(* joinFdbById returns an error, which joinFdbByIds ignores.  (The write   *)
(* to a nil map comes after the test.)                                     *)
JoinRefused(p) ==
  /\ At(p, "port") /\ Goto(p, "join") /\ Full(obj[p])
  /\ refused' = Set(refused, at[p], IF at[p] \in closed THEN {} ELSE refused[at[p]] \cup {vid[p]})
  /\ Forget(p)
  /\ UNCHANGED <<global, at, quits, joins, update, msgs, told, rep, sent>>

(* Where a goroutine goes on: after its own message to updateMasterFdb, as *)
(* a master to its first report, inside updateMasterFdb to the report if   *)
(* anything was to be done.                                                *)
AfterJoin(p) ==
  CASE at[p] = p /\ p \in Accepted -> IF Dynamic THEN "update" ELSE "idle"
    [] at[p] = p /\ p \in Masters  -> "report"
    [] OTHER -> IF quitIds[p] = {} /\ joinIds[p] = Nothing THEN "next" ELSE "report"

EndJoin(p) ==
  /\ At(p, "join") /\ joins[p] = Nothing /\ CanLock(p, at[p])
  /\ Goto(p, AfterJoin(p))
  /\ lock' = Set(lock, at[p], None)
  /\ UNCHANGED <<fdbMap, ports, num, joined, nil, closed, master, panic, loop, update, peer>>
-----------------------------------------------------------------------------
(* updateMasterFdb.  Both slices are carried on from one master to the     *)
(* next, and no lock covers the walk.                                      *)
UpdateMasterFdb(p) ==
  /\ At(p, "update") /\ Goto(p, "next")
  /\ ids' = Set(ids, p, Exists) /\ left' = Set(left, p, master) /\ seen' = Set(seen, p, {})
  /\ quitIds' = Set(quitIds, p, {}) /\ joinIds' = Set(joinIds, p, Nothing)
  /\ UNCHANGED <<global, loop, peer>>

NextMaster(p) ==
  \E m \in master \ seen[p] :
    /\ At(p, "next") /\ lock[m] = None
    /\ seen' = Set(seen, p, seen[p] \cup {m})
    /\ IF m \in nil
       THEN UNCHANGED <<pc, at, quits, joins, quitIds, joinIds>>
       ELSE LET q == quitIds[p] \cup (Keys(m) \ ids[p])
                j == [v \in Ids |-> joinIds[p][v] + Once(ids[p] \ Keys(m))[v]] IN
            /\ Goto(p, "quit") /\ at' = Set(at, p, m)
            /\ quitIds' = Set(quitIds, p, q) /\ joinIds' = Set(joinIds, p, j)
            /\ quits' = Set(quits, p, q) /\ joins' = Set(joins, p, j)
    /\ UNCHANGED <<global, vid, obj, ids, left, peer>>

(* A master that is added to the Go map during the walk may be left out. *)
EndUpdate(p) ==
  /\ At(p, "next") /\ left[p] \cap master \subseteq seen[p]
  /\ Goto(p, IF p \in closed THEN "gone" ELSE "idle")
  /\ at' = Set(at, p, p)
  /\ quitIds' = Set(quitIds, p, {}) /\ joinIds' = Set(joinIds, p, Nothing)
  /\ ids' = Set(ids, p, {}) /\ left' = Set(left, p, {}) /\ seen' = Set(seen, p, {})
  /\ UNCHANGED <<global, quits, joins, vid, obj, peer>>

(* reportFdbMsg: the message is filled without a lock, then queued. *)
ReportFdbMsg(p) ==
  /\ At(p, "report") /\ Goto(p, "send")
  /\ rep' = Set(rep, p, Keys(at[p]))
  /\ UNCHANGED <<global, loop, update, msgs, told, sent, refused>>

SendReport(p) ==
  /\ At(p, "send") /\ Goto(p, IF at[p] = p THEN "idle" ELSE "next")
  /\ sent' = IF at[p] \in closed THEN sent ELSE Set(sent, at[p], rep[p])
  /\ rep' = Set(rep, p, {})
  /\ UNCHANGED <<global, loop, update, msgs, told, refused>>

(* Nobody is left who could do anything. *)
Ended == (panic \/ \A c \in Members : At(c, "gone") /\ c \notin master) /\ UNCHANGED vars

ClientStep(p) ==
  \/ HandleFdbIds(p) \/ Close(p) \/ QuitAllFdb(p)
  \/ ReleaseFwdPort(p) \/ TryGet(p) \/ GetPortNum(p) \/ DelFdbById(p) \/ EndQuit(p)
  \/ NewFdb(p) \/ JoinFwdPort(p) \/ JoinRefused(p) \/ EndJoin(p)
  \/ UpdateMasterFdb(p) \/ NextMaster(p) \/ EndUpdate(p) \/ ReportFdbMsg(p) \/ SendReport(p)

MasterStep(m) == ClientMasterAdd(m) \/ JoinAllFdb(m) \/ ClientMasterDel(m)

Next ==
  \/ \E p \in Members : ClientStep(p)
  \/ \E m \in Masters : MasterStep(m)
  \/ Ended

Spec == Init /\ [][Next]_vars

AcceptedAreAlike == Permutations(Accepted)
-----------------------------------------------------------------------------
Labels == {"new", "ids", "idle", "closing", "quit", "get", "num", "del", "join", "port",
           "update", "next", "report", "send", "gone"}

(* Type invariant: ports and counters never go below zero, a lock is held  *)
(* by a client's goroutine, and who is about to join or delete has an FDB  *)
(* in hand.                                                                *)
TypeOK ==
  /\ fdbMap \in [Ids -> Fdbs \cup {None}]
  /\ ports \in [Fdbs -> [Members -> Nat]] /\ num \in [Fdbs -> Nat]
  /\ joined \in [Members -> [Ids -> Fdbs \cup {None}]]
  /\ nil \subseteq closed /\ closed \subseteq Members /\ master \subseteq Masters
  /\ lock \in [Members -> Members \cup {None}] /\ panic \in BOOLEAN
  /\ pc \in [Members -> Labels] /\ at \in [Members -> Members]
  /\ quits \in [Members -> SUBSET Ids] /\ joins \in [Members -> [Ids -> Nat]]
  /\ quitIds \in [Members -> SUBSET Ids] /\ joinIds \in [Members -> [Ids -> Nat]]
  /\ vid \in [Members -> Ids \cup {None}] /\ obj \in [Members -> Fdbs \cup {None}]
  /\ left \in [Members -> SUBSET Masters] /\ seen \in [Members -> SUBSET Masters]
  /\ ids \in [Members -> SUBSET Ids] /\ told \in [Members -> SUBSET Ids] /\ msgs \in [Members -> Nat]
  /\ rep \in [Members -> SUBSET Ids] /\ sent \in [Members -> SUBSET Ids]
  /\ refused \in [Members -> SUBSET Ids]
  /\ \A p \in Members : pc[p] \in {"num", "del", "port"} => obj[p] # None

AtRest ==
  /\ ~ panic
  /\ \A p \in Members : pc[p] \in {"idle", "gone"}
  /\ \A m \in master : pc[m] # "gone"

(* The ports an FDB has for a client are those the client can give back:   *)
(* one where it has joined, none elsewhere, whatever FDBs are deleted and  *)
(* created again meanwhile.  (In dynamic mode this is not so for masters,  *)
(* see the README.)                                                        *)
PortsMatchJoined ==
  ~ panic => \A c \in (IF Dynamic THEN Accepted ELSE Members), f \in Fdbs :
               ports[f][c] = Cardinality({v \in Ids : joined[c][v] = f})

(* A client that is gone takes no packets: no port of any FDB, in the map  *)
(* or an orphan, leads to it.                                              *)
GoneIsOut ==
  \A c \in (IF Dynamic THEN Accepted ELSE Members) :
     pc[c] = "gone" => \A f \in Fdbs : ports[f][c] = 0

(* The counter that decides about deletion counts exactly the device and   *)
(* the ports of the clients that count, for every FDB object and not just  *)
(* for those in the map.                                                   *)
CountedPorts(f) == UNION {{c} \X (1 .. ports[f][c]) : c \in {c \in Members : Inc(c)}}

CountExact == \A f \in Fdbs : num[f] = Cardinality(CountedPorts(f)) + Devices(f)

(* In dynamic mode without masters an FDB does not outlive its clients:    *)
(* once all goroutines are back, every FDB in the map has a client or a    *)
(* device.                                                                 *)
EmptyIsDeleted ==
  Dynamic /\ Masters = {} /\ AtRest => \A v \in Exists : num[fdbMap[v]] > 0

(* What c was to join, all but what it found full. *)
HasJoined(c, S) == Keys(c) \subseteq S /\ S \ Keys(c) \subseteq refused[c]

(* client.go:292-302: a client joins nothing before the message of its     *)
(* peer; then what the message lists, and if Vids are set only what is     *)
(* common.  An FDB that had no port left is not joined later, either.      *)
JoinedAsTold ==
  AtRest => \A a \in Accepted \ closed :
              HasJoined(a, IF Dynamic THEN told[a] ELSE told[a] \cap Fixed)

(* vid.go:62 and 144: in static mode the node keeps its FDBs, those of the *)
(* devices among them, and has no others; everybody is in those in the     *)
(* map, and a master is in all that had room.                              *)
NoOrphan ==
  ~ Dynamic => /\ Exists = Fixed
               /\ \A c \in Members : \A v \in Keys(c) : joined[c][v] = fdbMap[v]
               /\ AtRest => \A m \in master \ closed : HasJoined(m, Fixed)

(* client.go:294: a master sends all its FDB ids to the upper node: when   *)
(* everything has come to rest, what it sent last is what it has joined.   *)
ReportedAll == AtRest => \A m \in master \ closed : sent[m] = Keys(m)
=============================================================================
