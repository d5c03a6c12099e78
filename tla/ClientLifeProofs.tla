-------------------------- MODULE ClientLifeProofs --------------------------
(***************************************************************************)
(* Proofs about ClientLife, for any set of FDBs, any number of forwarders  *)
(* and any capacity of pktchan.                                            *)
(*                                                                         *)
(* The inductive invariant says what the one goroutine that won isClosed   *)
(* has done at each step of Close, and that until Close has sent on the    *)
(* channel reconnect the owner is not past its receive.                    *)
(***************************************************************************)
EXTENDS ClientLife, TLAPS

Leaving == {"unmaster", "closeReconn", "redial"}   \* the owner, after its receive

NoneCloses == \A g \in Own : pc[g] \notin ClosingPcs

(* Before Close nothing is closed; only one goroutine runs its steps. *)
OneCloser ==
  /\ \A g, h \in Own : pc[g] \in ClosingPcs /\ pc[h] \in ClosingPcs => g = h
  /\ ~ isClosed => ~ qclosed /\ conn # "closed" /\ ~ token /\ NoneCloses

(* What Close has done when it is at a step, and when it has ended. *)
Stages ==
  /\ \A g \in Own :
       /\ pc[g] \in {"closeReset", "closeChan"} => ~ qclosed
       /\ pc[g] \in {"closeConn", "closeFdb", "closeToken"} => qclosed
       /\ pc[g] \in {"closeFdb", "closeToken"} => conn = "closed"
       /\ pc[g] = "closeToken" => mapNil
       /\ pc[g] \in ClosingPcs => ~ token /\ pc["owner"] \notin Leaving
  /\ token \/ pc["owner"] \in Leaving =>
       isClosed /\ NoneCloses /\ qclosed /\ conn = "closed" /\ mapNil
  /\ mapNil => joined = {}

OwnerOrder ==
  /\ reconnClosed => pc["owner"] = "redial"
  /\ pc["owner"] \in {"closeReconn", "redial"} => ~ inMaster

(* Who joins before the owner has set isClient: on a dialed connection     *)
(* nobody.                                                                 *)
Roled ==
  /\ ~ dialed => pc["owner"] = "done" /\ ~ isClient /\ ~ inMaster
  /\ dialed => /\ isClient = (pc["owner"] # "flag")
               /\ pc["owner"] # "done"
               /\ pc["reader"] \notin {"quit", "join"}
  /\ pc["owner"] \in {"flag", "master"} => ~ inMaster /\ pc["updater"] = "idle"
  /\ pc["owner"] = "flag" => joined = {}

(* A heartbeat that is about to be counted is within the limit; the timer  *)
(* exists once the loop runs.                                              *)
HbCounts ==
  /\ pc["hb"] = "rearm" => hbNext = "rearm"
  /\ hbNext = "rearm" => pc["hb"] \in SendPcs \cup {"rearm"} /\ timeouts < HeartbeatCnt
  /\ pc["hb"] # "start" => hbInit

TypeInv == TypeOK /\ HbCounts
CloseInv == OneCloser /\ Stages /\ OwnerOrder /\ ClosesOnce
CountInv == Roled /\ IncMatchesDec

IInv == TypeInv /\ CloseInv /\ CountInv /\ HbWokenByClose
-----------------------------------------------------------------------------
(* A join of the ids in K. *)
JoinsIds(g, K) ==
  IF K # {} /\ mapNil
    THEN panic' = "nilmap" /\ UNCHANGED <<pc, joined, counted>>
    ELSE /\ joined' = joined \cup K
         /\ counted' = IF JoinInc THEN counted \cup K ELSE counted \ K
         /\ Goto(g, AfterJoin(g))
         /\ panic' = panic

(* The types are kept. *)
LEMMA TypeStep == TypeInv /\ [Next]_vars => TypeInv'
<1> SUFFICES ASSUME TypeInv, [Next]_vars PROVE TypeInv'
  OBVIOUS
<1> USE ClientLifeAssumption DEF TypeInv, TypeOK, HbCounts, At, Goto, Move, Own, Joiners, Senders, Procs,
        chanVars, fdbVars, hbVars, ownerVars, SendPcs, ClosingPcs,
        ReaderPcs, WriterPcs, HbPcs, OwnerPcs, UpdaterPcs, ForwarderPcs
<1>1. ASSUME NEW g \in Senders, CheckClose(g) PROVE TypeInv'
  BY <1>1 DEF CheckClose, AfterSend
<1>2. ASSUME NEW g \in Senders, Send(g) PROVE TypeInv'
  BY <1>2 DEF Send, AfterSend
<1>3. ASSUME NEW g \in Senders, SendOnClosed(g) PROVE TypeInv'
  BY <1>3 DEF SendOnClosed
<1>4. ASSUME NEW f \in Forwarders, PutPktToChan(f) PROVE TypeInv'
  BY <1>4 DEF PutPktToChan
<1>5. CASE UpdateMasterFdb
  BY <1>5 DEF UpdateMasterFdb
<1>6. ASSUME NEW g \in Joiners, QuitFdbByIds(g) PROVE TypeInv'
  BY <1>6 DEF QuitFdbByIds
<1>7. ASSUME NEW g \in Joiners, JoinFdbByIds(g) PROVE TypeInv'
  <2>1. PICK K \in SUBSET todo[g].join : JoinsIds(g, K)
    BY <1>7 DEF JoinFdbByIds, JoinsIds
  <2>2. joined' \in SUBSET Vids /\ counted' \in SUBSET Vids /\ panic' \in {panic, "nilmap"}
    BY <2>1 DEF JoinsIds
  <2>3. todo' \in [Joiners -> [quit : SUBSET Vids, join : SUBSET Vids]]
    BY <1>7 DEF JoinFdbByIds, NoIds
  <2>4. CASE pc' = pc
    BY <1>7, <2>2, <2>3, <2>4 DEF JoinFdbByIds
  <2>5. CASE Goto(g, AfterJoin(g))
    BY SMTT(30), <1>7, <2>2, <2>3, <2>5 DEF JoinFdbByIds, AfterJoin
  <2>6. QED
    BY <2>1, <2>4, <2>5 DEF JoinsIds
<1>8. ASSUME NEW g \in Own, Reconnect(g) PROVE TypeInv'
  BY <1>8 DEF Reconnect, TakeClose
<1>9. ASSUME NEW g \in Own, CloseReset(g) PROVE TypeInv'
  BY <1>9 DEF CloseReset, HbTimerReset
<1>10. ASSUME NEW g \in Own, CloseChan(g) PROVE TypeInv'
  BY <1>10 DEF CloseChan, ClosePktchan
<1>11. ASSUME NEW g \in Own, CloseConn(g) PROVE TypeInv'
  BY <1>11 DEF CloseConn, CloseSocket
<1>12. ASSUME NEW g \in Own, QuitAllFdb(g) PROVE TypeInv'
  BY <1>12 DEF QuitAllFdb, DropMap
<1>13. ASSUME NEW g \in Own, SendToken(g) PROVE TypeInv'
  BY <1>13 DEF SendToken
<1>14. CASE ReadData
  BY <1>14 DEF ReadData
<1>15. CASE ReadHeartbeatReq
  BY <1>15 DEF ReadHeartbeatReq
<1>16. CASE ReadHeartbeatRpl
  BY <1>16 DEF ReadHeartbeatRpl
<1>17. CASE ReadFdbIds
  BY <1>17 DEF ReadFdbIds
<1>18. CASE ReadErr
  BY <1>18 DEF ReadErr
<1>19. CASE CountRx
  BY <1>19 DEF CountRx
<1>20. CASE WriterTake
  BY <1>20 DEF WriterTake
<1>21. CASE WriterDrained
  BY <1>21 DEF WriterDrained
<1>22. CASE WriteOk
  BY <1>22 DEF WriteOk
<1>23. CASE WriteErr
  BY <1>23 DEF WriteErr
<1>24. CASE HbStart
  BY SMTT(30), <1>24 DEF HbStart
<1>25. CASE HbLoop
  <2>1. moved' \in BOOLEAN
    BY Zenon, <1>25 DEF HbLoop, TypeInv, TypeOK
  <2>2. PICK l \in {"stop", "wait"} :
          /\ pc["hb"] = "loop" /\ Goto("hb", l)
          /\ UNCHANGED <<dialed, chanVars, isClosed, valid, conn, fdbVars, ownerVars, hbVars, panic>>
    BY <1>25 DEF HbLoop
  <2>3. QED
    BY SMTT(30), <2>1, <2>2
<1>26. CASE HbWake
  <2>1. tick' \in BOOLEAN
    BY Zenon, <1>26 DEF HbWake, TypeInv, TypeOK
  <2>2. QED
    BY SMTT(30), <1>26, <2>1 DEF HbWake
<1>27. CASE HbQuit
  BY SMTT(30), <1>27 DEF HbQuit
<1>28. CASE HbProbe
  BY SMTT(30), <1>28 DEF HbProbe, TimedOut
<1>29. CASE HbRearm
  BY SMTT(30), <1>29 DEF HbRearm
<1>30. CASE HbAlive
  BY SMTT(30), <1>30 DEF HbAlive
<1>31. CASE HbStop
  BY SMTT(30), <1>31 DEF HbStop, AfterStop
<1>32. CASE TimerFires
  BY <1>32 DEF TimerFires
<1>33. CASE SetIsClient
  BY <1>33 DEF SetIsClient
<1>34. CASE ClientMasterAdd
  BY <1>34 DEF ClientMasterAdd
<1>35. CASE JoinAllFdb
  BY SMTT(30), <1>35 DEF JoinAllFdb
<1>36. CASE TakeToken
  <2>1. token' \in BOOLEAN
    BY Zenon, <1>36 DEF TakeToken, TypeInv, TypeOK
  <2>2. QED
    BY SMTT(30), <1>36, <2>1 DEF TakeToken
<1>37. CASE ClientMasterDel
  <2>1. inMaster' \in BOOLEAN
    BY Zenon, <1>37 DEF ClientMasterDel, TypeInv, TypeOK
  <2>2. QED
    BY SMTT(30), <1>37, <2>1 DEF ClientMasterDel
<1>38. CASE CloseReconn
  BY <1>38 DEF CloseReconn
<1>39. CASE PeerDies
  BY <1>39 DEF PeerDies
<1>40. CASE Forwarded
  BY <1>40 DEF Forwarded
<1>41. CASE Flood
  <2>1. flooded' \in BOOLEAN
    BY Zenon, <1>41 DEF Flood
  <2>2. QED
    BY <1>41, <2>1 DEF Flood
<1>42. CASE Ended \/ UNCHANGED vars
  BY <1>42 DEF Ended, vars
<1> HIDE DEF TypeInv
<1>43. QED
  BY <1>1, <1>2, <1>3, <1>4, <1>5, <1>6, <1>7, <1>8, <1>9, <1>10, <1>11, <1>12, <1>13, <1>14,
     <1>15, <1>16, <1>17, <1>18, <1>19, <1>20, <1>21, <1>22, <1>23, <1>24, <1>25, <1>26,
     <1>27, <1>28, <1>29, <1>30, <1>31, <1>32, <1>33, <1>34, <1>35, <1>36, <1>37, <1>38,
     <1>39, <1>40, <1>41, <1>42
     DEF Next, ReaderRuns, ReaderReads, Writer, HeartBeat, Owner, UpdaterRuns, Forwarder,
         SenderStep, JoinerStep, CloseStep, Own, Joiners, Senders

-----------------------------------------------------------------------------
(* Only the goroutine that set isClosed moves the stages of Close on. *)
LEMMA CloseOrderStep == TypeInv /\ CloseInv /\ [Next]_vars => CloseInv'
<1> SUFFICES ASSUME TypeInv, CloseInv, [Next]_vars PROVE CloseInv'
  OBVIOUS
<1> USE ClientLifeAssumption DEF TypeInv, TypeOK, CloseInv, OneCloser, Stages, OwnerOrder,
        ClosesOnce, NoneCloses, Leaving, At, Goto, Move, Own, Joiners, Senders, Procs, SendPcs, ClosingPcs,
        chanVars, fdbVars, hbVars, ownerVars
<1>1. ASSUME NEW g \in Senders, CheckClose(g) PROVE CloseInv'
  BY <1>1 DEF CheckClose, AfterSend
<1>2. ASSUME NEW g \in Senders, Send(g) PROVE CloseInv'
  BY <1>2 DEF Send, AfterSend
<1>3. ASSUME NEW g \in Senders, SendOnClosed(g) PROVE CloseInv'
  BY <1>3 DEF SendOnClosed
<1>4. ASSUME NEW f \in Forwarders, PutPktToChan(f) PROVE CloseInv'
  BY <1>4 DEF PutPktToChan
<1>5. CASE UpdateMasterFdb
  BY <1>5 DEF UpdateMasterFdb
<1>6. ASSUME NEW g \in Joiners, QuitFdbByIds(g) PROVE CloseInv'
  BY <1>6 DEF QuitFdbByIds
<1>7. ASSUME NEW g \in Joiners, JoinFdbByIds(g) PROVE CloseInv'
  BY <1>7 DEF JoinFdbByIds, AfterJoin, NoIds
<1>8. ASSUME NEW g \in Own, Reconnect(g) PROVE CloseInv'
  BY <1>8 DEF Reconnect, TakeClose
<1>9. ASSUME NEW g \in Own, CloseReset(g) PROVE CloseInv'
  BY <1>9 DEF CloseReset, HbTimerReset
<1>10. ASSUME NEW g \in Own, CloseChan(g) PROVE CloseInv'
  BY <1>10 DEF CloseChan, ClosePktchan
<1>11. ASSUME NEW g \in Own, CloseConn(g) PROVE CloseInv'
  BY <1>11 DEF CloseConn, CloseSocket
<1>12. ASSUME NEW g \in Own, QuitAllFdb(g) PROVE CloseInv'
  BY <1>12 DEF QuitAllFdb, DropMap
<1>13. ASSUME NEW g \in Own, SendToken(g) PROVE CloseInv'
  BY <1>13 DEF SendToken
<1>14. CASE ReadData \/ ReadHeartbeatReq \/ ReadHeartbeatRpl \/ ReadFdbIds \/ ReadErr \/ CountRx
  BY <1>14 DEF ReadData, ReadHeartbeatReq, ReadHeartbeatRpl, ReadFdbIds, ReadErr, CountRx
<1>15. CASE WriterTake \/ WriterDrained \/ WriteOk \/ WriteErr
  BY <1>15 DEF WriterTake, WriterDrained, WriteOk, WriteErr
<1>16. CASE HbStart
  BY <1>16 DEF HbStart
<1>17. CASE HbLoop
  BY <1>17 DEF HbLoop
<1>18. CASE HbWake \/ HbQuit
  BY <1>18 DEF HbWake, HbQuit
<1>19. CASE HbProbe \/ HbRearm \/ HbAlive \/ HbStop
  BY <1>19 DEF HbProbe, TimedOut, HbRearm, HbAlive, HbStop, AfterStop
<1>20. CASE SetIsClient
  BY <1>20 DEF SetIsClient
<1>21. CASE ClientMasterAdd \/ JoinAllFdb
  BY <1>21 DEF ClientMasterAdd, JoinAllFdb
<1>22. CASE TakeToken \/ ClientMasterDel \/ CloseReconn
  BY <1>22 DEF TakeToken, ClientMasterDel, CloseReconn
<1>23. CASE TimerFires \/ PeerDies \/ Flood \/ Forwarded
  BY <1>23 DEF TimerFires, PeerDies, Flood, Forwarded
<1>24. CASE Ended \/ UNCHANGED vars
  BY <1>24 DEF Ended, vars
<1> HIDE DEF TypeInv, CloseInv
<1>25. QED
  BY <1>1, <1>2, <1>3, <1>4, <1>5, <1>6, <1>7, <1>8, <1>9, <1>10, <1>11, <1>12, <1>13, <1>14,
     <1>15, <1>16, <1>17, <1>18, <1>19, <1>20, <1>21, <1>22, <1>23, <1>24
     DEF Next, ReaderRuns, ReaderReads, Writer, HeartBeat, Owner, UpdaterRuns, Forwarder,
         SenderStep, JoinerStep, CloseStep, Own, Joiners, Senders

-----------------------------------------------------------------------------
(* What is joined is counted as long as isClient is false, and only then. *)
LEMMA CountStep == TypeInv /\ CountInv /\ [Next]_vars => CountInv'
<1> SUFFICES ASSUME TypeInv, CountInv, [Next]_vars PROVE CountInv'
  OBVIOUS
<1> USE ClientLifeAssumption DEF TypeInv, TypeOK, CountInv, Roled, IncMatchesDec, At, Goto, Move,
        Own, Joiners, Senders, Procs, SendPcs, ClosingPcs, chanVars, fdbVars, hbVars, ownerVars
<1>1. ASSUME NEW g \in Senders, CheckClose(g) PROVE CountInv'
  BY <1>1 DEF CheckClose, AfterSend
<1>2. ASSUME NEW g \in Senders, Send(g) PROVE CountInv'
  BY <1>2 DEF Send, AfterSend
<1>3. ASSUME NEW g \in Senders, SendOnClosed(g) PROVE CountInv'
  BY <1>3 DEF SendOnClosed
<1>4. ASSUME NEW f \in Forwarders, PutPktToChan(f) PROVE CountInv'
  BY <1>4 DEF PutPktToChan
<1>5. CASE UpdateMasterFdb
  BY <1>5 DEF UpdateMasterFdb
<1>6. ASSUME NEW g \in Joiners, QuitFdbByIds(g) PROVE CountInv'
  BY <1>6 DEF QuitFdbByIds
<1>7. ASSUME NEW g \in Joiners, JoinFdbByIds(g) PROVE CountInv'
  BY <1>7 DEF JoinFdbByIds, AfterJoin, JoinInc
<1>8. ASSUME NEW g \in Own, Reconnect(g) PROVE CountInv'
  BY <1>8 DEF Reconnect, TakeClose
<1>9. ASSUME NEW g \in Own, CloseReset(g) PROVE CountInv'
  BY <1>9 DEF CloseReset, HbTimerReset
<1>10. ASSUME NEW g \in Own, CloseChan(g) PROVE CountInv'
  BY <1>10 DEF CloseChan, ClosePktchan
<1>11. ASSUME NEW g \in Own, CloseConn(g) PROVE CountInv'
  BY <1>11 DEF CloseConn, CloseSocket
<1>12. ASSUME NEW g \in Own, QuitAllFdb(g) PROVE CountInv'
  BY <1>12 DEF QuitAllFdb, DropMap
<1>13. ASSUME NEW g \in Own, SendToken(g) PROVE CountInv'
  BY <1>13 DEF SendToken
<1>14. CASE ReadData \/ ReadHeartbeatReq \/ ReadHeartbeatRpl \/ ReadFdbIds \/ ReadErr \/ CountRx
  BY <1>14 DEF ReadData, ReadHeartbeatReq, ReadHeartbeatRpl, ReadFdbIds, ReadErr, CountRx
<1>15. CASE WriterTake \/ WriterDrained \/ WriteOk \/ WriteErr
  BY <1>15 DEF WriterTake, WriterDrained, WriteOk, WriteErr
<1>16. CASE HbStart
  BY <1>16 DEF HbStart
<1>17. CASE HbLoop
  BY <1>17 DEF HbLoop
<1>18. CASE HbWake \/ HbQuit
  BY <1>18 DEF HbWake, HbQuit
<1>19. CASE HbProbe \/ HbRearm \/ HbAlive \/ HbStop
  BY <1>19 DEF HbProbe, TimedOut, HbRearm, HbAlive, HbStop, AfterStop
<1>20. CASE SetIsClient
  BY <1>20 DEF SetIsClient
<1>21. CASE ClientMasterAdd \/ JoinAllFdb
  BY <1>21 DEF ClientMasterAdd, JoinAllFdb
<1>22. CASE TakeToken \/ ClientMasterDel \/ CloseReconn
  BY <1>22 DEF TakeToken, ClientMasterDel, CloseReconn
<1>23. CASE TimerFires \/ PeerDies \/ Flood \/ Forwarded
  BY <1>23 DEF TimerFires, PeerDies, Flood, Forwarded
<1>24. CASE Ended \/ UNCHANGED vars
  BY <1>24 DEF Ended, vars
<1> HIDE DEF TypeInv, CountInv
<1>25. QED
  BY <1>1, <1>2, <1>3, <1>4, <1>5, <1>6, <1>7, <1>8, <1>9, <1>10, <1>11, <1>12, <1>13, <1>14,
     <1>15, <1>16, <1>17, <1>18, <1>19, <1>20, <1>21, <1>22, <1>23, <1>24
     DEF Next, ReaderRuns, ReaderReads, Writer, HeartBeat, Owner, UpdaterRuns, Forwarder,
         SenderStep, JoinerStep, CloseStep, Own, Joiners, Senders

-----------------------------------------------------------------------------
(* The long timer is armed before the loop tests isClosed, the short one *)
(* after isClosed is set.                                                *)
LEMMA WakeStep == TypeInv /\ OneCloser /\ HbWokenByClose /\ [Next]_vars => HbWokenByClose'
<1> SUFFICES ASSUME TypeInv, OneCloser, HbWokenByClose, [Next]_vars PROVE HbWokenByClose'
  OBVIOUS
<1> USE ClientLifeAssumption DEF TypeInv, TypeOK, HbCounts, OneCloser, HbWokenByClose, NoneCloses,
        At, Goto, Move, Own, Joiners, Senders, Procs, SendPcs, ClosingPcs, chanVars, fdbVars, hbVars, ownerVars
<1>1. ASSUME NEW g \in Senders, CheckClose(g) PROVE HbWokenByClose'
  BY <1>1 DEF CheckClose, AfterSend
<1>2. ASSUME NEW g \in Senders, Send(g) PROVE HbWokenByClose'
  BY <1>2 DEF Send, AfterSend
<1>3. ASSUME NEW g \in Senders, SendOnClosed(g) PROVE HbWokenByClose'
  BY <1>3 DEF SendOnClosed
<1>4. ASSUME NEW f \in Forwarders, PutPktToChan(f) PROVE HbWokenByClose'
  BY <1>4 DEF PutPktToChan
<1>5. CASE UpdateMasterFdb
  BY <1>5 DEF UpdateMasterFdb
<1>6. ASSUME NEW g \in Joiners, QuitFdbByIds(g) PROVE HbWokenByClose'
  BY <1>6 DEF QuitFdbByIds
<1>7. ASSUME NEW g \in Joiners, JoinFdbByIds(g) PROVE HbWokenByClose'
  BY <1>7 DEF JoinFdbByIds, AfterJoin, NoIds
<1>8. ASSUME NEW g \in Own, Reconnect(g) PROVE HbWokenByClose'
  BY <1>8 DEF Reconnect, TakeClose
<1>9. ASSUME NEW g \in Own, CloseReset(g) PROVE HbWokenByClose'
  BY <1>9 DEF CloseReset, HbTimerReset
<1>10. ASSUME NEW g \in Own, CloseChan(g) PROVE HbWokenByClose'
  BY <1>10 DEF CloseChan, ClosePktchan
<1>11. ASSUME NEW g \in Own, CloseConn(g) PROVE HbWokenByClose'
  BY <1>11 DEF CloseConn, CloseSocket
<1>12. ASSUME NEW g \in Own, QuitAllFdb(g) PROVE HbWokenByClose'
  BY <1>12 DEF QuitAllFdb, DropMap
<1>13. ASSUME NEW g \in Own, SendToken(g) PROVE HbWokenByClose'
  BY <1>13 DEF SendToken
<1>14. CASE ReadData \/ ReadHeartbeatReq \/ ReadHeartbeatRpl \/ ReadFdbIds \/ ReadErr \/ CountRx
  BY <1>14 DEF ReadData, ReadHeartbeatReq, ReadHeartbeatRpl, ReadFdbIds, ReadErr, CountRx
<1>15. CASE WriterTake \/ WriterDrained \/ WriteOk \/ WriteErr
  BY <1>15 DEF WriterTake, WriterDrained, WriteOk, WriteErr
<1>16. CASE HbStart
  BY <1>16 DEF HbStart
<1>17. CASE HbLoop
  BY <1>17 DEF HbLoop
<1>18. CASE HbWake \/ HbQuit
  BY <1>18 DEF HbWake, HbQuit
<1>19. CASE HbProbe \/ HbRearm \/ HbAlive \/ HbStop
  BY <1>19 DEF HbProbe, TimedOut, HbRearm, HbAlive, HbStop, AfterStop
<1>20. CASE SetIsClient
  BY <1>20 DEF SetIsClient
<1>21. CASE ClientMasterAdd \/ JoinAllFdb
  BY <1>21 DEF ClientMasterAdd, JoinAllFdb
<1>22. CASE TakeToken \/ ClientMasterDel \/ CloseReconn
  BY <1>22 DEF TakeToken, ClientMasterDel, CloseReconn
<1>23. CASE TimerFires \/ PeerDies \/ Flood \/ Forwarded
  BY <1>23 DEF TimerFires, PeerDies, Flood, Forwarded
<1>24. CASE Ended \/ UNCHANGED vars
  BY <1>24 DEF Ended, vars
<1> HIDE DEF TypeInv, OneCloser, HbWokenByClose
<1>25. QED
  BY <1>1, <1>2, <1>3, <1>4, <1>5, <1>6, <1>7, <1>8, <1>9, <1>10, <1>11, <1>12, <1>13, <1>14,
     <1>15, <1>16, <1>17, <1>18, <1>19, <1>20, <1>21, <1>22, <1>23, <1>24
     DEF Next, ReaderRuns, ReaderReads, Writer, HeartBeat, Owner, UpdaterRuns, Forwarder,
         SenderStep, JoinerStep, CloseStep, Own, Joiners, Senders

-----------------------------------------------------------------------------
LEMMA InitInv == Init => IInv
<1> SUFFICES ASSUME Init PROVE IInv
  OBVIOUS
<1> USE ClientLifeAssumption DEF Init, Own, Senders, Joiners, Procs
<1>1. /\ pc["reader"] = "read" /\ pc["writer"] = "recv" /\ pc["hb"] = "start"
      /\ pc["owner"] = IF dialed THEN "flag" ELSE "done"
      /\ pc["updater"] = "idle" /\ \A f \in Forwarders : pc[f] = "idle"
  BY Zenon
<1>2. /\ dialed \in BOOLEAN /\ qclosed \in BOOLEAN /\ isClosed \in BOOLEAN /\ valid \in BOOLEAN
      /\ isClient \in BOOLEAN /\ mapNil \in BOOLEAN /\ inMaster \in BOOLEAN /\ token \in BOOLEAN
      /\ reconnClosed \in BOOLEAN /\ flooded \in BOOLEAN /\ tick \in BOOLEAN /\ hbInit \in BOOLEAN /\ moved \in BOOLEAN
  BY Zenon
<1>3. /\ pc \in [Procs -> {"read", "recv", "start", "flag", "done", "idle"}]
      /\ todo \in [Joiners -> [quit : SUBSET Vids, join : SUBSET Vids]]
  BY DEF NoIds
<1>4. qlen \in 0 .. ChanSize /\ timeouts \in 0 .. HeartbeatCnt
  OBVIOUS
<1> HIDE DEF Init
<1>5. Init
  OBVIOUS
<1>6. conn = "up" /\ joined = {} /\ counted = {} /\ hbTimer = "off" /\ hbNext = "loop" /\ panic = "none"
  BY <1>5 DEF Init
<1>7. TypeInv
  BY <1>1, <1>2, <1>3, <1>4, <1>6 DEF TypeInv, TypeOK, HbCounts, ReaderPcs, WriterPcs, HbPcs,
         OwnerPcs, UpdaterPcs, ForwarderPcs
<1>8. CloseInv
  BY <1>1, <1>5 DEF Init, CloseInv, OneCloser, Stages, OwnerOrder, ClosesOnce, NoneCloses, ClosingPcs, Leaving
<1>9. CountInv /\ HbWokenByClose
  BY <1>1, <1>5 DEF Init, CountInv, Roled, IncMatchesDec, HbWokenByClose
<1>10. QED
  BY <1>7, <1>8, <1>9 DEF IInv

(* The invariant holds in every reachable state. *)
THEOREM Invariance == Spec => []IInv
<1>1. IInv /\ [Next]_vars => IInv'
  <2> SUFFICES ASSUME IInv, [Next]_vars PROVE IInv'
    OBVIOUS
  <2>1. TypeInv' /\ CountInv'
    BY TypeStep, CountStep DEF IInv
  <2>2. CloseInv' /\ HbWokenByClose'
    BY CloseOrderStep, WakeStep DEF IInv, CloseInv
  <2>3. QED
    BY <2>1, <2>2 DEF IInv
<1>2. QED
  BY InitInv, <1>1, PTL DEF Spec

(* Each goroutine stays within its own steps, and no more than             *)
(* HeartbeatCnt heartbeats go unanswered.                                  *)
THEOREM TypeCorrect == Spec => []TypeOK
<1>1. IInv => TypeOK
  BY DEF IInv, TypeInv
<1>2. QED
  BY Invariance, <1>1, PTL

(* However reader, writer and heartbeat race into Reconnect, pktchan is    *)
(* closed once, and nobody sends on the closed channel reconnect.          *)
THEOREM ClosedOnce == Spec => []ClosesOnce
<1>1. IInv => ClosesOnce
  BY DEF IInv, CloseInv
<1>2. QED
  BY Invariance, <1>1, PTL

(* When HandleConn returns to dial again the old connection is out of      *)
(* ClientMaster, its socket and channel are closed, and it is in no FDB.   *)
THEOREM CleanRedial == Spec => []RedialClean
<1>1. IInv => RedialClean
  BY DEF IInv, CloseInv, Stages, OwnerOrder, Leaving, RedialClean
<1>2. QED
  BY Invariance, <1>1, PTL

(* Every port is counted out exactly if it was counted in, although        *)
(* isClient is set after the goroutines have started.                      *)
THEOREM CountsAgree == Spec => []IncMatchesDec
<1>1. IInv => IncMatchesDec
  BY DEF IInv, CountInv
<1>2. QED
  BY Invariance, <1>1, PTL

(* After hbTimerReset in Close the heartbeat is never left on the long     *)
(* timer.                                                                  *)
THEOREM HbIsWoken == Spec => []HbWokenByClose
<1>1. IInv => HbWokenByClose
  BY DEF IInv
<1>2. QED
  BY Invariance, <1>1, PTL
=============================================================================
