----------------------------- MODULE Heartbeat -----------------------------
(***************************************************************************)
(* The ids of heartbeats and the delays measured with them                 *)
(* (vnet/heartbeat.go).  The goroutine HeartBeat numbers and sends the     *)
(* requests; the reader, another goroutine, checks the replies and takes   *)
(* their delays.  They share hbID, hbReqTime and hbDelaySum without a      *)
(* lock.  When requests are sent, and when the client gives up, is the     *)
(* subject of ClientLife; here a request may be sent at any time.          *)
(*                                                                         *)
(* The connection keeps the order of messages and loses none, but may take *)
(* any time.                                                               *)
(***************************************************************************)
EXTENDS Integers, Sequences, FiniteSetsExt

CONSTANTS W,       \* hbID is a number modulo W: 2^16
          MaxReq,  \* bound on the number of requests
          MaxOpen, \* bound on the number of those that are not answered
          MaxNow   \* bound on the clock

HeartbeatAssumption ==
  /\ W \in Nat /\ MaxReq \in Nat /\ MaxNow \in Nat
  /\ MaxOpen \in Nat \ {0} /\ MaxOpen + 1 < W

VARIABLES
  now,     \* time.Now
  hbID, hbReqTime, hbDelay, hbDelaySum, hbDelayAvg,
  valid,   \* the client is valid
  hb,      \* where HeartBeat is in sendHeartBeat
  rd,      \* where the reader is in checkHeartBeat
  reply,   \* the reply the reader has in hand
  reqs, rpls,  \* messages under way: [id, at], with the time of the request
  count,   \* how many requests have been sent
  asked,   \* when HeartBeat has last come to the time of a request
  slowest, \* the longest delay a checked reply had
  torn     \* the numbers have started again during a measurement

measure == <<hbReqTime, hbDelay, hbDelaySum, hbDelayAvg>>
msgs == <<reply, reqs, rpls>>
ghost == <<count, asked, slowest, torn>>
vars == <<now, hbID, measure, valid, hb, rd, msgs, ghost>>

Measuring == rd \in {"delay", "add", "test", "divide"}
Wrapping == hb \in {"zero", "sum"}

Nothing == [id |-> 0, at |-> 0]

Init ==
  /\ now = 0 /\ hbID = 0 /\ hbReqTime = 0 /\ hbDelay = 0 /\ hbDelaySum = 0 /\ hbDelayAvg = 0
  /\ valid = FALSE /\ hb = "idle" /\ rd = "idle" /\ reply = Nothing
  /\ reqs = <<>> /\ rpls = <<>> /\ count = 0 /\ asked = 0 /\ slowest = 0 /\ torn = FALSE
-----------------------------------------------------------------------------
(* heartBeatUpdate: the next number, which is never 0 ... *)
NextId(i) == (i + 1) % W

IsZero(i) == i = 0

IncId ==
  /\ hb = "idle" /\ count < MaxReq /\ Len(reqs) + Len(rpls) < MaxOpen
  /\ hbID' = NextId(hbID) /\ count' = count + 1
  /\ IF IsZero(hbID')
     THEN hb' = "zero" /\ torn' = (torn \/ Measuring)
     ELSE hb' = "time" /\ UNCHANGED torn
  /\ UNCHANGED <<now, measure, valid, rd, msgs, asked, slowest>>

SkipZero ==
  /\ hb = "zero" /\ hb' = "sum"
  /\ hbID' = 1
  /\ UNCHANGED <<now, measure, valid, rd, msgs, ghost>>

KeepSum == hbDelaySum   \* mutant: the sum is kept when the numbers start again
NewSum == 0

ResetSum ==
  /\ hb = "sum" /\ hb' = "time"
  /\ hbDelaySum' = NewSum
  /\ UNCHANGED <<now, hbID, hbReqTime, hbDelay, hbDelayAvg, valid, rd, msgs, ghost>>

ReqTime == now

SetReqTime ==
  /\ hb = "time" /\ hb' = "send"
  /\ hbReqTime' = ReqTime
  /\ asked' = now
  /\ UNCHANGED <<now, hbID, hbDelay, hbDelaySum, hbDelayAvg, valid, rd, msgs, count, slowest, torn>>

(* ... and the request goes out. *)
SendReq ==
  /\ hb = "send" /\ hb' = "idle"
  /\ reqs' = Append(reqs, [id |-> hbID, at |-> asked])
  /\ UNCHANGED <<now, hbID, measure, valid, rd, reply, rpls, ghost>>

(* The peer's reader answers a request with its number. *)
SendRpl ==
  /\ reqs # <<>>
  /\ rpls' = Append(rpls, Head(reqs)) /\ reqs' = Tail(reqs)
  /\ UNCHANGED <<now, hbID, measure, valid, hb, rd, reply, ghost>>
-----------------------------------------------------------------------------
(* checkHeartBeat: a reply to the last request makes the client valid ... *)
IsLast(id) == id = hbID

CheckHeartBeat ==
  /\ rd = "idle" /\ rpls # <<>>
  /\ reply' = Head(rpls) /\ rpls' = Tail(rpls)
  /\ IF IsLast(Head(rpls).id)
     THEN valid' = TRUE /\ rd' = "delay" /\ torn' = (torn \/ Wrapping)
     ELSE rd' = "late" /\ UNCHANGED <<valid, torn>>
  /\ UNCHANGED <<now, hbID, measure, hb, reqs, count, asked, slowest>>

(* ... another one is only noticed, but false is returned if the number is *)
(* 1, the first or one after a wrap.  The caller logs the false, as what   *)
(* should "never happen", and does nothing else.                           *)
Late ==
  /\ rd = "late" /\ rd' = IF hbID = 1 THEN "false" ELSE "idle"
  /\ UNCHANGED <<now, hbID, measure, valid, hb, msgs, ghost>>

ReturnFalse ==
  /\ rd = "false" /\ rd' = "idle"
  /\ UNCHANGED <<now, hbID, measure, valid, hb, msgs, ghost>>

(* heartBeatDelayCalc *)
Delay ==
  /\ rd = "delay" /\ rd' = "add"
  /\ hbDelay' = now - hbReqTime
  /\ slowest' = Max({slowest, now - reply.at})
  /\ UNCHANGED <<now, hbID, hbReqTime, hbDelaySum, hbDelayAvg, valid, hb, msgs, count, asked, torn>>

AddDelay ==
  /\ rd = "add" /\ rd' = "test"
  /\ hbDelaySum' = hbDelaySum + hbDelay
  /\ UNCHANGED <<now, hbID, hbReqTime, hbDelay, hbDelayAvg, valid, hb, msgs, ghost>>

TestId ==
  /\ rd = "test" /\ rd' = IF hbID # 0 THEN "divide" ELSE "idle"
  /\ UNCHANGED <<now, hbID, measure, valid, hb, msgs, ghost>>

(* hbID is read again: by 0 the division would end the process. *)
Divide ==
  /\ rd = "divide" /\ hbID # 0 /\ rd' = "idle"
  /\ hbDelayAvg' = hbDelaySum \div hbID
  /\ UNCHANGED <<now, hbID, hbReqTime, hbDelay, hbDelaySum, valid, hb, msgs, ghost>>

DivideByZero ==
  /\ rd = "divide" /\ hbID = 0 /\ rd' = "panic" /\ hb' = "panic"
  /\ UNCHANGED <<now, hbID, measure, valid, msgs, ghost>>

Clock ==
  /\ now < MaxNow /\ now' = now + 1
  /\ UNCHANGED <<hbID, measure, valid, hb, rd, msgs, ghost>>

HeartBeat == IncId \/ SkipZero \/ ResetSum \/ SetReqTime \/ SendReq
Reader == CheckHeartBeat \/ Late \/ ReturnFalse \/ Delay \/ AddDelay \/ TestId \/ Divide \/ DivideByZero

Next == HeartBeat \/ Reader \/ SendRpl \/ Clock

Spec == Init /\ [][Next]_vars
-----------------------------------------------------------------------------
Msgs == [id : 1..W-1, at : 0..MaxNow]

(* Type invariant: no message carries the number 0, so a client is never *)
(* made valid by a reply that answers no request.                        *)
TypeOK ==
  /\ now \in 0..MaxNow /\ hbID \in 0..W-1 /\ hbReqTime \in 0..now
  /\ hbDelay \in Nat /\ hbDelaySum \in Nat /\ hbDelayAvg \in Nat /\ valid \in BOOLEAN
  /\ hb \in {"idle", "zero", "sum", "time", "send", "panic"}
  /\ rd \in {"idle", "late", "false", "delay", "add", "test", "divide", "panic"}
  /\ \A i \in DOMAIN reqs : reqs[i] \in Msgs
  /\ \A i \in DOMAIN rpls : rpls[i] \in Msgs
  /\ reply \in Msgs \cup {Nothing} /\ count \in 0..MaxReq
  /\ asked \in 0..now /\ slowest \in Nat /\ torn \in BOOLEAN

(* heartbeat.go:76: no delay is measured that is longer than the reply     *)
(* really took, though the time may be overwritten by the next request     *)
(* between the check of the number and the measurement.                    *)
DelayNotOver == rd = "add" => hbDelay <= slowest

(* heartbeat.go:79: the mean delay is at most the longest delay, also when *)
(* the numbers have started again from 1, unless a delay was being         *)
(* measured just then.                                                     *)
AvgNotOver == ~ torn => hbDelayAvg <= slowest
=============================================================================
