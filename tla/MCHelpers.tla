----------------------------- MODULE MCHelpers -----------------------------
(***************************************************************************)
(* The parts that stand on their own, for TLC: the timer wheel             *)
(* (TimerWheel), the rotation of log files (LogRotate), and the ring of    *)
(* buffers (RingBuffer) with one getter and with two.  A behaviour is one  *)
(* of one part; the variables of the others rest.                          *)
(***************************************************************************)
EXTENDS Integers, FiniteSets

CONSTANTS TimerIds, TvrSize, TvnSize, Delays, MaxJiffies, Nowhere,  \* TimerWheel
          FileNums, MaxDay, MaxRuns, MaxBacks,  \* LogRotate
          Bufs, One, Two, Nobody, MaxHold         \* RingBuffer, and two sets of getters

VARIABLES part,
  jiffies, place, expires, period, upc, fpc,
  logFileNum, today, disk, logFileChan, out, logfile, nextDay, pc, runs, backs, made, kept,
  r, w, buf, ref, at, slot, got, hands, putting, dropped, overtaken

wheel == <<jiffies, place, expires, period, upc, fpc>>
log == <<logFileNum, today, disk, logFileChan, out, logfile, nextDay, pc, runs, backs, made, kept>>
ring == <<r, w, buf, ref, at, slot, got, hands, putting, dropped, overtaken>>

Wheel == INSTANCE TimerWheel
Log == INSTANCE LogRotate
Ring(Getters) == INSTANCE RingBuffer WITH pc <- at, at <- slot

ASSUME HelpersAssumption ==
  /\ Wheel!TimerWheelAssumption /\ Log!LogRotateAssumption
  /\ Ring(One)!RingBufferAssumption /\ Ring(Two)!RingBufferAssumption /\ Cardinality(One) = 1

MCInit ==
  /\ Wheel!Init /\ Log!Init
  /\ \/ part = "ring1" /\ Ring(One)!Init
     \/ part \in {"wheel", "log", "ring2"} /\ Ring(Two)!Init
  /\ part # "log" => logFileNum = CHOOSE n \in FileNums : TRUE

MCNext ==
  /\ UNCHANGED part
  /\ \/ part = "wheel" /\ Wheel!Next /\ UNCHANGED <<log, ring>>
     \/ part = "log" /\ Log!Next /\ UNCHANGED <<wheel, ring>>
     \/ part = "ring1" /\ Ring(One)!Next /\ UNCHANGED <<wheel, log>>
     \/ part = "ring2" /\ Ring(Two)!Next /\ UNCHANGED <<wheel, log>>

MCSpec == MCInit /\ [][MCNext]_<<part, wheel, log, ring>>

(* Of TimerWheel: types; a tick moves no timer to a slot it has still to   *)
(* spread (vendor/timer/timer.go).                                         *)
WheelInPlace == part = "wheel" => Wheel!TypeOK /\ Wheel!CascadeIsInPlace

(* Of TimerWheel: timers become due at the tick that reaches their         *)
(* deadline, and at no other (vendor/timer/timer.go).                      *)
FiresOnTime == Wheel!FiresOnTime

(* Of LogRotate: createLogFile neither panics nor waits; the file in use   *)
(* is there, not too old, and not one of too many (vendor/mylog/mylog.go). *)
LogFiles ==
  part = "log" =>
    /\ Log!TypeOK /\ Log!RoomIsMade /\ Log!CurrentKept
    /\ Log!FilesBounded /\ Log!DiskBounded /\ Log!FileOfTheDay

(* Of RingBuffer: every buffer is in one place and has room in the ring,   *)
(* as long as no getter is overtaken (reaserch/goRingBuffer.go).  (One     *)
(* that is breaks also the types: a buffer is then put twice.)             *)
InOnePlace ==
  /\ part = "ring1" => Ring(One)!TypeOK /\ Ring(One)!InOnePlace /\ Ring(One)!AlwaysRoom
  /\ part = "ring2" => Ring(Two)!InOnePlace /\ Ring(Two)!AlwaysRoom
=============================================================================
