----------------------------- MODULE ClientLife -----------------------------
(***************************************************************************)
(* The life of one Client over a socket (vnet/client.go, heartbeat.go and  *)
(* the parts of vid.go that touch it): from Working(), which starts its    *)
(* reader, writer and heartbeat goroutines, to Close and, if this node     *)
(* dialed the connection, to the redial.                                   *)
(*                                                                         *)
(* Around it run: the owner (HandleConn of a dialed connection), the       *)
(* forwarders (readers of other clients that flood packets to this one)    *)
(* and the updater (updateMasterFdb, called for any other client while     *)
(* this one is in ClientMaster).  A send on a closed channel and a write   *)
(* to a nil map panic, and a panic ends the process.                       *)
(*                                                                         *)
(* A packet is only counted: pktchan is its length.  The FDBs joined are   *)
(* the keys of fdbJoined; the ports behind them are FdbPort's subject.     *)
(***************************************************************************)
EXTENDS Integers

CONSTANTS Roles,         \* is the connection dialed (TRUE) or accepted (FALSE)?
          Vids,          \* ids of the FDBs that may exist
          ChanSize,      \* capacity of pktchan
          HeartbeatCnt,  \* heartbeats sent without an answer before giving up
          Forwarders     \* the goroutines that send to this client

ASSUME ClientLifeAssumption ==
  /\ ChanSize \in Nat \ {0}
  /\ HeartbeatCnt \in Nat \ {0}
  /\ Roles \subseteq BOOLEAN
  /\ Forwarders \cap {"reader", "writer", "hb", "owner", "updater"} = {}

Own == {"reader", "writer", "hb"}             \* started by Working()
Joiners == {"reader", "owner", "updater"}     \* call joinFdbByIds
Senders == {"reader", "hb", "owner", "updater"} \cup Forwarders
Procs == Own \cup Senders

VARIABLES
  dialed,       \* this node dialed: the isClient argument of HandleConn
  pc,           \* where each goroutine is
  qlen,         \* len(pktchan)
  qclosed,      \* pktchan is closed
  isClosed, valid, isClient, \* the fields of Client
  conn,         \* the socket: "up", "dead" (the peer is gone) or "closed"
  joined,       \* keys of fdbJoined
  mapNil,       \* fdbJoined is nil
  counted,      \* joined ids whose port was counted in allocNum
  inMaster,     \* registered in ClientMaster
  token,        \* a value waits in the channel reconnect
  reconnClosed, \* the channel reconnect is closed
  hbTimer,      \* "off", "long" (seconds) or "short" (10 ms)
  tick,         \* the timer has fired into its channel
  hbInit,       \* c.hb and its timer exist
  moved,        \* rx_bytes has changed since the heartbeat loop read it
  timeouts,     \* timeout_count
  hbNext,       \* where the heartbeat goroutine goes after its send
  todo,         \* quitIds and joinIds of a joiner
  flooded,      \* a flood holds the port map of an FDB the client is in or joins
  panic         \* "none", or what ended the process

chanVars == <<qlen, qclosed>>
fdbVars == <<joined, mapNil, counted, todo, flooded>>
hbVars == <<hbTimer, tick, hbInit, timeouts, hbNext>>
ownerVars == <<isClient, inMaster, token, reconnClosed>>
vars == <<dialed, pc, chanVars, isClosed, valid, conn, fdbVars, ownerVars, hbVars, moved, panic>>

NoIds == [quit |-> {}, join |-> {}]

Crashed == panic # "none"

(* g is at l, in a process that has not crashed. *)
At(g, l) == ~ Crashed /\ pc[g] = l

Goto(g, l) == pc' = [pc EXCEPT ![g] = l]
Move(g, from, to) == At(g, from) /\ Goto(g, to)

(* NewClient and Working(); an accepted connection has no owner left. *)
Init ==
  /\ dialed \in Roles
  /\ pc = [g \in Procs |-> CASE g = "reader" -> "read"
                             [] g = "writer" -> "recv"
                             [] g = "hb"     -> "start"
                             [] g = "owner"  -> IF dialed THEN "flag" ELSE "done"
                             [] OTHER        -> "idle"]
  /\ qlen = 0 /\ qclosed = FALSE
  /\ isClosed = FALSE /\ valid = FALSE /\ isClient = FALSE
  /\ conn = "up"
  /\ joined = {} /\ mapNil = FALSE /\ counted = {}
  /\ todo = [g \in Joiners |-> NoIds] /\ flooded = FALSE
  /\ inMaster = FALSE /\ token = FALSE /\ reconnClosed = FALSE
  /\ hbTimer = "off" /\ tick = FALSE /\ hbInit = FALSE
  /\ moved = FALSE /\ timeouts = 0 /\ hbNext = "loop"
  /\ panic = "none"
-----------------------------------------------------------------------------
(* PutPktToChan2: the test of isClosed and the send are two steps, and no  *)
(* lock covers them.  A full channel blocks the sender.                    *)
AfterSend(g) ==
  CASE g = "reader" -> "count"
    [] g = "hb"     -> hbNext
    [] g = "owner"  -> "await"
    [] OTHER        -> "idle"

CheckClose(g) ==
  /\ Move(g, "check", IF isClosed THEN AfterSend(g) ELSE "send")
  /\ UNCHANGED <<dialed, chanVars, isClosed, valid, conn, fdbVars, ownerVars, hbVars, moved, panic>>

Send(g) ==
  /\ ~ qclosed /\ qlen < ChanSize
  /\ Move(g, "send", AfterSend(g))
  /\ qlen' = qlen + 1
  /\ UNCHANGED <<dialed, qclosed, isClosed, valid, conn, fdbVars, ownerVars, hbVars, moved, panic>>

(* Also for a sender that was blocked on the full channel when it closed. *)
SendOnClosed(g) ==
  /\ qclosed
  /\ At(g, "send")
  /\ panic' = "send"
  /\ UNCHANGED <<dialed, pc, chanVars, isClosed, valid, conn, fdbVars, ownerVars, hbVars, moved>>

(* PutPktToChan, called by the peer of a bound pair or by a flood that     *)
(* found this client in a port map, perhaps just before it left.           *)
PutPktToChan(f) ==
  /\ Move(f, "idle", IF valid THEN "check" ELSE "idle")
  /\ UNCHANGED <<dialed, chanVars, isClosed, valid, conn, fdbVars, ownerVars, hbVars, moved, panic>>
-----------------------------------------------------------------------------
(* The FDBs of the client.  S is what the FDB map holds or a message says; *)
(* each of quitFdbByIds and joinFdbByIds is one section under the lock of  *)
(* the client; whoever waits for the port map of an FDB holds that lock,   *)
(* too, but nothing else here needs it for long.                           *)

(* flood sends to the other ports of an FDB, this client's among them, and *)
(* holds the port map's read lock until the last of them has room: the     *)
(* reader of this client or of another one may do so at any time.          *)
Flood ==
  /\ ~ Crashed /\ Vids # {} /\ flooded' = ~ flooded
  /\ UNCHANGED <<dialed, pc, chanVars, isClosed, valid, conn, joined, mapNil, counted, todo,
                 ownerVars, hbVars, moved, panic>>

(* addPortMap and delPortMap wait for the floods to end. *)
LocksPortMap(S) == S # {} => ~ flooded

(* updateMasterFdb keeps joinIds and quitIds from one master to the next,  *)
(* so ids that this client has already joined may be among them.           *)
UpdateMasterFdb ==
  /\ At("updater", "idle")
  /\ inMaster /\ ~ mapNil
  /\ \E S \in SUBSET Vids : \E J \in SUBSET S, Q \in SUBSET (Vids \ S) :
       /\ S \ joined \subseteq J
       /\ joined \ S \subseteq Q
       /\ J # {} \/ Q # {}
       /\ todo' = [todo EXCEPT !["updater"] = [quit |-> Q, join |-> J]]
  /\ Goto("updater", "quit")
  /\ UNCHANGED <<dialed, chanVars, isClosed, valid, conn, joined, mapNil, counted, flooded,
                 ownerVars, hbVars, moved, panic>>

QuitFdbByIds(g) ==
  /\ LocksPortMap(joined \cap todo[g].quit)
  /\ Move(g, "quit", "join")
  /\ joined' = joined \ todo[g].quit
  /\ counted' = counted \ todo[g].quit
  /\ UNCHANGED <<dialed, chanVars, isClosed, valid, conn, mapNil, todo, flooded, ownerVars, hbVars,
                 moved, panic>>

AfterJoin(g) == IF g = "reader" THEN "count" ELSE "check"

AlwaysInc == TRUE    \* mutant: every join is counted

JoinInc == ~ isClient

(* K: the ids whose FDB still had a port.  A port is taken before the map  *)
(* is written, and writing to the nil map panics.                          *)
JoinFdbByIds(g) ==
  /\ At(g, "join")
  /\ \E K \in SUBSET todo[g].join :
       /\ LocksPortMap(K)
       /\ IF K # {} /\ mapNil
            THEN panic' = "nilmap" /\ UNCHANGED <<pc, joined, counted>>
            ELSE /\ joined' = joined \cup K
                 /\ counted' = IF JoinInc THEN counted \cup K ELSE counted \ K
                 /\ Goto(g, AfterJoin(g))
                 /\ panic' = panic
  /\ todo' = [todo EXCEPT ![g] = NoIds]
  /\ UNCHANGED <<dialed, chanVars, isClosed, valid, conn, mapNil, flooded, ownerVars, hbVars,
                 moved>>
-----------------------------------------------------------------------------
(* Close and Reconnect.  A goroutine that loses the race for isClosed gets *)
(* an error from Close and ends; the winner runs the steps "close*".       *)
TakesNothing == isClosed' = isClosed    \* mutant: isClosed is never set

TakeClose == isClosed' = TRUE

Reconnect(g) ==
  /\ Move(g, "reconnect", IF isClosed THEN "done" ELSE "closeReset")
  /\ TakeClose
  /\ UNCHANGED <<dialed, chanVars, valid, conn, fdbVars, ownerVars, hbVars, moved, panic>>

KeepsTimer == hbTimer' = hbTimer        \* mutant: Close leaves the timer alone

(* hbTimerReset(10 ms), if there is a timer. *)
HbTimerReset == hbTimer' = IF hbInit THEN "short" ELSE hbTimer

CloseReset(g) ==
  /\ Move(g, "closeReset", "closeChan")
  /\ HbTimerReset
  /\ UNCHANGED <<dialed, chanVars, isClosed, valid, conn, fdbVars, ownerVars, tick, hbInit,
                 timeouts, hbNext, moved, panic>>

ClosePktchan == qclosed' = TRUE

(* Closing a closed channel would panic. *)
CloseChan(g) ==
  /\ Move(g, "closeChan", "closeConn")
  /\ ClosePktchan
  /\ panic' = IF qclosed THEN "twice" ELSE panic
  /\ UNCHANGED <<dialed, qlen, isClosed, valid, conn, fdbVars, ownerVars, hbVars, moved>>

KeepsConn == conn' = conn               \* mutant: the socket stays open

CloseSocket == conn' = "closed"

CloseConn(g) ==
  /\ Move(g, "closeConn", "closeFdb")
  /\ CloseSocket
  /\ UNCHANGED <<dialed, chanVars, isClosed, valid, fdbVars, ownerVars, hbVars, moved, panic>>

KeepsMap == mapNil' = mapNil            \* mutant: the map is emptied, not dropped

DropMap == mapNil' = TRUE

(* The updateMasterFdb that follows for an accepted client acts on other   *)
(* clients: there it is UpdateMasterFdb.                                   *)
QuitAllFdb(g) ==
  /\ LocksPortMap(joined)
  /\ Move(g, "closeFdb", "closeToken")
  /\ joined' = {} /\ counted' = {}
  /\ DropMap
  /\ UNCHANGED <<dialed, chanVars, isClosed, valid, conn, todo, flooded, ownerVars, hbVars, moved,
                 panic>>

(* reconnect <- true: a buffer of one; a closed channel would panic. *)
SendToken(g) ==
  /\ reconnClosed \/ ~ token
  /\ Move(g, "closeToken", "done")
  /\ token' = TRUE
  /\ panic' = IF reconnClosed THEN "reconnect" ELSE panic
  /\ UNCHANGED <<dialed, chanVars, isClosed, valid, conn, fdbVars, isClient, inMaster,
                 reconnClosed, hbVars, moved>>

CloseStep(g) ==
  \/ Reconnect(g) \/ CloseReset(g) \/ CloseChan(g) \/ CloseConn(g) \/ QuitAllFdb(g)
  \/ SendToken(g)
-----------------------------------------------------------------------------
(* ReadForward.  The environment decides what arrives.  ForwardPkt sends   *)
(* to other clients or to the queue of the backup link and waits while     *)
(* these are full: when they have room is not up to this client.  (That    *)
(* such a channel is closed meanwhile is SendOnClosed, seen from there.)   *)
ReadData ==
  /\ conn = "up"
  /\ Move("reader", "read", IF valid THEN "forward" ELSE "count")
  /\ UNCHANGED <<dialed, chanVars, isClosed, valid, conn, fdbVars, ownerVars, hbVars, moved, panic>>

Forwarded ==
  /\ Move("reader", "forward", "count")
  /\ UNCHANGED <<dialed, chanVars, isClosed, valid, conn, fdbVars, ownerVars, hbVars, moved, panic>>

ReadHeartbeatReq ==
  /\ conn = "up"
  /\ Move("reader", "read", "check")
  /\ UNCHANGED <<dialed, chanVars, isClosed, valid, conn, fdbVars, ownerVars, hbVars, moved, panic>>

(* checkHeartBeat: the reply carries the id of the last request.  It also  *)
(* counts in rx_bytes by itself.                                           *)
ReadHeartbeatRpl ==
  /\ conn = "up" /\ hbInit
  /\ Move("reader", "read", "count")
  /\ valid' = TRUE /\ moved' = TRUE
  /\ UNCHANGED <<dialed, chanVars, isClosed, conn, fdbVars, ownerVars, hbVars, panic>>

(* handleFdbIds computes both lists under the read lock.  Only a node that *)
(* dialed reports its FDBs, so only an accepted connection carries this.   *)
ReadFdbIds ==
  /\ conn = "up" /\ ~ dialed
  /\ Move("reader", "read", "quit")
  /\ \E S \in SUBSET Vids :
       todo' = [todo EXCEPT !["reader"] = [quit |-> joined \ S, join |-> S \ joined]]
  /\ UNCHANGED <<dialed, chanVars, isClosed, valid, conn, joined, mapNil, counted, flooded,
                 ownerVars, hbVars, moved, panic>>

(* rx_bytes grows when Read has returned. *)
CountRx ==
  /\ Move("reader", "count", "read")
  /\ moved' = TRUE
  /\ UNCHANGED <<dialed, chanVars, isClosed, valid, conn, fdbVars, ownerVars, hbVars, panic>>

(* A broken or closed socket, or a packet the handlers reject. *)
ReadErr ==
  /\ Move("reader", "read", "reconnect")
  /\ UNCHANGED <<dialed, chanVars, isClosed, valid, conn, fdbVars, ownerVars, hbVars, moved, panic>>

(* WriteFromChan *)
WriterTake ==
  /\ qlen > 0
  /\ Move("writer", "recv", "write")
  /\ qlen' = qlen - 1
  /\ UNCHANGED <<dialed, qclosed, isClosed, valid, conn, fdbVars, ownerVars, hbVars, moved, panic>>

WriterDrained ==
  /\ qclosed /\ qlen = 0
  /\ Move("writer", "recv", "reconnect")
  /\ UNCHANGED <<dialed, chanVars, isClosed, valid, conn, fdbVars, ownerVars, hbVars, moved, panic>>

(* Bytes for a dead peer may still fit the socket's buffer. *)
WriteOk ==
  /\ conn # "closed"
  /\ Move("writer", "write", "recv")
  /\ UNCHANGED <<dialed, chanVars, isClosed, valid, conn, fdbVars, ownerVars, hbVars, moved, panic>>

WriteErr ==
  /\ conn # "up"
  /\ Move("writer", "write", "reconnect")
  /\ UNCHANGED <<dialed, chanVars, isClosed, valid, conn, fdbVars, ownerVars, hbVars, moved, panic>>
-----------------------------------------------------------------------------
(* HeartBeat: a 5 s timer and a first request. *)
HbStart ==
  /\ Move("hb", "start", "check")
  /\ hbInit' = TRUE /\ hbTimer' = "long"
  /\ UNCHANGED <<dialed, chanVars, isClosed, valid, conn, fdbVars, ownerVars, tick, timeouts,
                 hbNext, moved, panic>>

HbLoop ==
  /\ Move("hb", "loop", IF isClosed THEN "stop" ELSE "wait")
  /\ moved' = IF isClosed THEN moved ELSE FALSE
  /\ UNCHANGED <<dialed, chanVars, isClosed, valid, conn, fdbVars, ownerVars, hbVars, panic>>

TimerFires ==
  /\ ~ Crashed /\ hbTimer # "off"
  /\ hbTimer' = "off" /\ tick' = TRUE
  /\ UNCHANGED <<dialed, pc, chanVars, isClosed, valid, conn, fdbVars, ownerVars, hbInit,
                 timeouts, hbNext, moved, panic>>

HbWake ==
  /\ tick
  /\ Move("hb", "wait", "woken")
  /\ tick' = FALSE
  /\ UNCHANGED <<dialed, chanVars, isClosed, valid, conn, fdbVars, ownerVars, hbTimer, hbInit,
                 timeouts, hbNext, moved, panic>>

TrustsSilence == isClosed               \* mutant: valid is not tested

GivesUp == isClosed \/ ~ valid

TimedOut == timeouts >= HeartbeatCnt

HbQuit ==
  /\ GivesUp \/ (~ moved /\ TimedOut)
  /\ Move("hb", "woken", "stop")
  /\ UNCHANGED <<dialed, chanVars, isClosed, valid, conn, fdbVars, ownerVars, hbVars, moved, panic>>

HbProbe ==
  /\ ~ GivesUp /\ ~ moved /\ ~ TimedOut
  /\ Move("hb", "woken", "check")
  /\ hbNext' = "rearm"
  /\ UNCHANGED <<dialed, chanVars, isClosed, valid, conn, fdbVars, ownerVars, hbTimer, tick,
                 hbInit, timeouts, moved, panic>>

HbRearm ==
  /\ Move("hb", "rearm", "loop")
  /\ hbTimer' = "long" /\ timeouts' = timeouts + 1
  /\ hbNext' = "loop"
  /\ UNCHANGED <<dialed, chanVars, isClosed, valid, conn, fdbVars, ownerVars, tick, hbInit,
                 moved, panic>>

HbAlive ==
  /\ ~ GivesUp /\ moved
  /\ Move("hb", "woken", "loop")
  /\ hbTimer' = "long" /\ timeouts' = 0
  /\ UNCHANGED <<dialed, chanVars, isClosed, valid, conn, fdbVars, ownerVars, tick, hbInit,
                 hbNext, moved, panic>>


AfterStop == "reconnect"

(* The deferred calls: hbTimer.Stop(), then Reconnect(). *)
HbStop ==
  /\ Move("hb", "stop", AfterStop)
  /\ hbTimer' = "off"
  /\ UNCHANGED <<dialed, chanVars, isClosed, valid, conn, fdbVars, ownerVars, tick, hbInit,
                 timeouts, hbNext, moved, panic>>
-----------------------------------------------------------------------------
(* HandleConn of a dialed connection, after Working(). *)
SetIsClient ==
  /\ Move("owner", "flag", "master")
  /\ isClient' = TRUE
  /\ UNCHANGED <<dialed, chanVars, isClosed, valid, conn, fdbVars, inMaster, token, reconnClosed,
                 hbVars, moved, panic>>

ClientMasterAdd ==
  /\ Move("owner", "master", "ids")
  /\ inMaster' = TRUE
  /\ UNCHANGED <<dialed, chanVars, isClosed, valid, conn, fdbVars, isClient, token, reconnClosed,
                 hbVars, moved, panic>>

(* JoinAllFdb: the ids are read first, and joined without looking at *)
(* what is joined already.                                           *)
JoinAllFdb ==
  /\ Move("owner", "ids", "join")
  /\ \E S \in SUBSET Vids : todo' = [todo EXCEPT !["owner"].join = S]
  /\ UNCHANGED <<dialed, chanVars, isClosed, valid, conn, joined, mapNil, counted, flooded,
                 ownerVars, hbVars, moved, panic>>

TakeToken ==
  /\ token
  /\ Move("owner", "await", "unmaster")
  /\ token' = FALSE
  /\ UNCHANGED <<dialed, chanVars, isClosed, valid, conn, fdbVars, isClient, inMaster,
                 reconnClosed, hbVars, moved, panic>>

ClientMasterDel ==
  /\ Move("owner", "unmaster", "closeReconn")
  /\ inMaster' = FALSE
  /\ UNCHANGED <<dialed, chanVars, isClosed, valid, conn, fdbVars, isClient, token, reconnClosed,
                 hbVars, moved, panic>>

CloseReconn ==
  /\ Move("owner", "closeReconn", "redial")
  /\ reconnClosed' = TRUE
  /\ UNCHANGED <<dialed, chanVars, isClosed, valid, conn, fdbVars, isClient, inMaster, token,
                 hbVars, moved, panic>>

(* The peer, or the path to it, disappears without a word. *)
PeerDies ==
  /\ ~ Crashed /\ conn = "up"
  /\ conn' = "dead"
  /\ UNCHANGED <<dialed, pc, chanVars, isClosed, valid, fdbVars, ownerVars, hbVars, moved, panic>>
-----------------------------------------------------------------------------
SenderStep(g) == CheckClose(g) \/ Send(g) \/ SendOnClosed(g)
JoinerStep(g) == QuitFdbByIds(g) \/ JoinFdbByIds(g)

ReaderRuns == CountRx \/ SenderStep("reader") \/ JoinerStep("reader") \/ CloseStep("reader")
ReaderReads ==
  \/ ReadData \/ Forwarded \/ ReadHeartbeatReq \/ ReadHeartbeatRpl \/ ReadFdbIds \/ ReadErr
Writer == WriterTake \/ WriterDrained \/ WriteOk \/ WriteErr \/ CloseStep("writer")
HeartBeat ==
  \/ HbStart \/ HbLoop \/ HbWake \/ HbQuit \/ HbProbe \/ HbRearm \/ HbAlive \/ HbStop
  \/ SenderStep("hb") \/ CloseStep("hb")
Owner ==
  \/ SetIsClient \/ ClientMasterAdd \/ JoinAllFdb \/ JoinFdbByIds("owner")
  \/ SenderStep("owner") \/ TakeToken \/ ClientMasterDel \/ CloseReconn
UpdaterRuns == JoinerStep("updater") \/ SenderStep("updater")
Forwarder(f) == PutPktToChan(f) \/ SenderStep(f)

(* The client is gone for good: the process, or all of its goroutines. *)
Ended ==
  /\ \/ Crashed
     \/ (\A g \in Own : pc[g] = "done") /\ pc["owner"] \in {"redial", "done"}
  /\ UNCHANGED vars

Next ==
  \/ ReaderRuns \/ ReaderReads \/ Writer \/ HeartBeat \/ TimerFires \/ Owner
  \/ UpdateMasterFdb \/ UpdaterRuns
  \/ \E f \in Forwarders : Forwarder(f)
  \/ PeerDies \/ Flood
  \/ Ended

Spec == Init /\ [][Next]_vars

(* Goroutines are scheduled, timers fire, a write to a socket returns in   *)
(* the end and a read from a closed one fails.  Senders blocked on a full  *)
(* channel are served in order: the heartbeat does not starve behind the   *)
(* others (strong fairness, needed for no other sender).  Who waits for    *)
(* the write lock of a port map is served when the floods before it have   *)
(* ended, as later ones wait for it.                                       *)
(*                                                                         *)
(* FloodsEnd is what the other clients owe to this one: each flood finds   *)
(* room in the end.  TwoSwitches shows how two nodes can fail to give it.  *)
(* Nothing is assumed of what arrives, of the peer, of when FDBs change,   *)
(* or of when another client takes what the reader forwards.               *)
FloodsEnd == []<> ~ flooded

Fairness ==
  /\ WF_vars(ReaderRuns)
  /\ WF_vars(conn = "closed" /\ ReadErr)
  /\ WF_vars(Writer)
  /\ WF_vars(HeartBeat)
  /\ WF_vars(TimerFires)
  /\ WF_vars(Owner)
  /\ WF_vars(UpdaterRuns)
  /\ \A f \in Forwarders : WF_vars(SenderStep(f))
  /\ SF_vars(Send("hb"))
  /\ SF_vars(\E g \in Own : QuitAllFdb(g))
  /\ \A g \in Joiners : SF_vars(JoinerStep(g))
  /\ FloodsEnd

FairSpec == Spec /\ Fairness
-----------------------------------------------------------------------------
ClosingPcs == {"closeReset", "closeChan", "closeConn", "closeFdb", "closeToken"}
SendPcs == {"check", "send"}
ReaderPcs == {"read", "forward", "count", "quit", "join", "reconnect", "done"}
             \cup SendPcs \cup ClosingPcs
WriterPcs == {"recv", "write", "reconnect", "done"} \cup ClosingPcs
HbPcs == {"start", "loop", "wait", "woken", "rearm", "stop", "reconnect", "done"}
         \cup SendPcs \cup ClosingPcs
OwnerPcs == {"flag", "master", "ids", "join", "await", "unmaster", "closeReconn", "redial", "done"}
            \cup SendPcs
UpdaterPcs == {"idle", "quit", "join"} \cup SendPcs
ForwarderPcs == {"idle"} \cup SendPcs

(* Type invariant: each goroutine is at one of its own steps; no more than *)
(* HeartbeatCnt heartbeats go unanswered.                                  *)
TypeOK ==
  /\ dialed \in BOOLEAN
  /\ pc \in [Procs -> ReaderPcs \cup WriterPcs \cup HbPcs \cup OwnerPcs \cup UpdaterPcs]
  /\ pc["reader"] \in ReaderPcs /\ pc["writer"] \in WriterPcs /\ pc["hb"] \in HbPcs
  /\ pc["owner"] \in OwnerPcs /\ pc["updater"] \in UpdaterPcs
  /\ \A f \in Forwarders : pc[f] \in ForwarderPcs
  /\ qlen \in 0 .. ChanSize /\ qclosed \in BOOLEAN
  /\ isClosed \in BOOLEAN /\ valid \in BOOLEAN /\ isClient \in BOOLEAN
  /\ conn \in {"up", "dead", "closed"}
  /\ joined \in SUBSET Vids /\ mapNil \in BOOLEAN /\ counted \in SUBSET Vids
  /\ todo \in [Joiners -> [quit : SUBSET Vids, join : SUBSET Vids]] /\ flooded \in BOOLEAN
  /\ inMaster \in BOOLEAN /\ token \in BOOLEAN /\ reconnClosed \in BOOLEAN
  /\ hbTimer \in {"off", "long", "short"} /\ tick \in BOOLEAN /\ hbInit \in BOOLEAN
  /\ moved \in BOOLEAN /\ timeouts \in 0 .. HeartbeatCnt /\ hbNext \in {"loop", "rearm"}
  /\ panic \in {"none", "send", "nilmap", "twice", "reconnect"}

(* However the reader, the writer and the heartbeat race into Reconnect,   *)
(* pktchan is closed once and reconnect gets its one value before          *)
(* HandleConn closes it: neither of these two panics can happen.           *)
ClosesOnce == panic \notin {"twice", "reconnect"}

(* When HandleConn returns to dial again nothing of the old connection is  *)
(* left: it is out of ClientMaster, its socket is closed, it is in no FDB. *)
RedialClean ==
  pc["owner"] = "redial" /\ ~ Crashed =>
    ~ inMaster /\ conn = "closed" /\ qclosed /\ joined = {}

(* The inc argument of the join and the dec argument of the release agree: *)
(* both are !c.isClient, read at different times, and isClient is set only *)
(* after the goroutines that may quit all FDBs have started.               *)
IncMatchesDec == counted = IF isClient THEN {} ELSE joined

(* Close leaves no heartbeat goroutine asleep on the long timer: whichever *)
(* of Close's and the loop's own resets came last, the loop either sees    *)
(* isClosed or is woken by the short timer.                                *)
HbWokenByClose ==
  isClosed /\ pc["hb"] = "wait" /\ (\A g \in Own : pc[g] # "closeReset")
    => hbTimer = "short" \/ tick


(* The same as client.go states it, "if is socket client, it means auto    *)
(* reconnect": without the crash as a way out.                             *)
AutoReconnect == (dialed /\ conn = "dead") ~> pc["owner"] = "redial"

AllDone == (\A g \in Own : pc[g] = "done") /\ (\A f \in Forwarders : pc[f] = "idle")

(* client.go:394 and 503: after Close every goroutine of the client ends,  *)
(* and no forwarder stays at its channel, if no other client holds its     *)
(* reader for ever.                                                        *)
AllQuit == []<>(pc["reader"] # "forward") => (isClosed ~> (AllDone \/ Crashed))

(* A connection that never proves itself with a heartbeat reply is closed, *)
(* however much data its peer sends.                                       *)
ProvesOrCloses == ~ valid ~> (valid \/ isClosed \/ Crashed)
=============================================================================
