--------------------------- MODULE MCConnection ---------------------------
(***************************************************************************)
(* What happens on a connection, for TLC: the frames on it (Framing), the  *)
(* buffers that packets travel in (PktBuf), its heartbeats (Heartbeat) and *)
(* two nodes that wait for each other (TwoSwitches, once with joins and    *)
(* one that asks, once with both asking).  The four are models of the same *)
(* code from four sides and share no state: a behaviour is one of one      *)
(* part, and the variables of the others rest.                             *)
(***************************************************************************)
EXTENDS Framing, FiniteSets, TLC

CONSTANTS Bufs, Sources, Clients, Crypted, Recv, Stat, ChanSize, MaxTo, None,  \* PktBuf
          W, MaxReq, MaxOpen, MaxNow,                                         \* Heartbeat
          Nodes, Askers, Joining, Window, HeartbeatCnt                         \* TwoSwitches

VARIABLES part,
  pool, ref, enc, marked, queue, closed, hand, left, at, sent, shared,
  now, hbID, hbReqTime, hbDelay, hbDelaySum, hbDelayAvg, valid, hb, rd, reply, reqs, rpls,
  count, asked, slowest, torn,
  chan, wire, dev, link, beat, timeouts, moved, join, down

pktBuf == <<pool, ref, enc, marked, queue, closed, hand, left, at, sent, shared>>
heartbeat == <<now, hbID, hbReqTime, hbDelay, hbDelaySum, hbDelayAvg, valid, hb, rd, reply, reqs, rpls,
               count, asked, slowest, torn>>
twoSwitches == <<chan, wire, dev, link, beat, timeouts, moved, join, down>>

PB == INSTANCE PktBuf WITH pc <- at, wire <- sent
HB == INSTANCE Heartbeat
TS == INSTANCE TwoSwitches WITH pktchan <- chan, hb <- beat
TA == INSTANCE TwoSwitches WITH pktchan <- chan, hb <- beat, Askers <- Nodes, Joining <- {}

ASSUME ConnectionAssumption ==
  PB!PktBufAssumption /\ HB!HeartbeatAssumption /\ TS!TwoSwitchesAssumption /\ TA!TwoSwitchesAssumption

MCInit ==
  /\ part \in {"Framing", "PktBuf", "Heartbeat", "TwoSwitches", "BothAsk"}
  /\ Init /\ PB!Init /\ HB!Init /\ TS!Init
  /\ part # "Framing" => ends = <<"tap", "tap">>

MCNext ==
  /\ UNCHANGED part
  /\ \/ part = "Framing" /\ Next /\ UNCHANGED <<pktBuf, heartbeat, twoSwitches>>
     \/ part = "PktBuf" /\ PB!Next /\ UNCHANGED <<vars, heartbeat, twoSwitches>>
     \/ part = "Heartbeat" /\ HB!Next /\ UNCHANGED <<vars, pktBuf, twoSwitches>>
     \/ part = "TwoSwitches" /\ TS!Next /\ UNCHANGED <<vars, pktBuf, heartbeat>>
     \/ part = "BothAsk" /\ TA!Next /\ UNCHANGED <<vars, pktBuf, heartbeat>>

MCSpec == MCInit /\ [][MCNext]_<<part, vars, pktBuf, heartbeat, twoSwitches>>

MCSymmetry == Permutations(Bufs) \cup Permutations(Sources)

(* Of PktBuf: types; a buffer has a reference for each who holds it, or    *)
(* more, and a buffer in the pool is in nobody's hand (packet/pktpool.go). *)
BuffersSafe == part = "PktBuf" => PB!TypeOK /\ PB!RefCovers /\ PB!PoolIsFree

(* Of PktBuf: a packet for one client goes out in a form its receiver      *)
(* expects (vnet/conn.go).                                                 *)
WireIsReadable == part = "PktBuf" => PB!WireIsReadable

(* Of Heartbeat: types; neither a delay nor the mean delay is more than    *)
(* the slowest reply took (vnet/heartbeat.go).                             *)
DelaysRight == part = "Heartbeat" => HB!TypeOK /\ HB!DelayNotOver /\ HB!AvgNotOver

(* Of TwoSwitches: types; traffic comes to a halt only if the readers at   *)
(* both ends wait for their own full channel (fdb/forward.go,              *)
(* vnet/client.go).                                                        *)
HaltsOnlyAtBoth ==
  /\ part = "TwoSwitches" => TS!TypeOK /\ TS!HaltsOnlyAtBoth
  /\ part = "BothAsk" => TA!TypeOK /\ TA!HaltsOnlyAtBoth
=============================================================================
