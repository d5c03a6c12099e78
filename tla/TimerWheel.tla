----------------------------- MODULE TimerWheel -----------------------------
(***************************************************************************)
(* The timing wheel (vendor/timer/timer.go): five arrays tv1 .. tv5 of     *)
(* slots, coarser from one to the next; onTick empties one slot of tv1,    *)
(* and when that array has gone round spreads a slot of the next over the  *)
(* finer ones (cascade), and so on.                                        *)
(*                                                                         *)
(* onTick runs on the wheel's goroutine under its lock.  Users create,     *)
(* stop and reset timers from their goroutines; jiffies is read without    *)
(* the lock to compute expires, so any number of ticks may pass before     *)
(* addTimer has the lock.  A user makes one call at a time on a timer.     *)
(* The functions of timers that became due run on goroutines of their own, *)
(* which also add periodic timers again.                                   *)
(*                                                                         *)
(* A slot is the set of the timers whose place it is; the position within  *)
(* the slot, which delTimer uses, is left out.                             *)
(***************************************************************************)
EXTENDS Integers

CONSTANTS TimerIds,    \* the timers; one that ended may be created anew
          TvrSize,     \* slots of tv1 (256 in the code)
          TvnSize,     \* slots of each of the others (64)
          Delays,      \* when and period, in ticks
          MaxJiffies,  \* bound on time
          Nowhere      \* the timer is in no slot: index -1

Levels == 1 .. 5

(* What tv1 .. tvk reach, in ticks. *)
Spans == LET n == TvnSize IN
  <<TvrSize, TvrSize * n, TvrSize * n * n, TvrSize * n * n * n, TvrSize * n * n * n * n>>

Span(k) == Spans[k]
Unit(k) == IF k = 1 THEN 1 ELSE Span(k - 1)        \* ticks per slot of tvk
Size(k) == IF k = 1 THEN TvrSize ELSE TvnSize

Places == {p \in Levels \X Nat : p[2] < Size(p[1])}

TimerWheelAssumption ==
  /\ TvrSize \in Nat \ {0, 1} /\ TvnSize \in Nat \ {0, 1}
  /\ Delays \subseteq Nat /\ MaxJiffies \in Nat
  /\ Nowhere \notin Places \cup Nat

VARIABLES jiffies,
          place,    \* tv and findex: the slot a timer is in
          expires,
          period,   \* 0 for a timer that fires once
          upc,      \* where its user is: "idle", "reset" (deleted) or "add" (expires is set)
          fpc       \* its function: "none", "due", "called" or "again" (expires is set)

vars == <<jiffies, place, expires, period, upc, fpc>>

Init ==
  /\ jiffies = 0
  /\ place = [t \in TimerIds |-> Nowhere]
  /\ expires = [t \in TimerIds |-> 0] /\ period = [t \in TimerIds |-> 0]
  /\ upc = [t \in TimerIds |-> "idle"] /\ fpc = [t \in TimerIds |-> "none"]
-----------------------------------------------------------------------------
(* addTimerInternal: the slot for a timer that expires at e.  What is      *)
(* overdue goes where onTick looks next; what is farther away than all     *)
(* arrays reach goes as far as possible.                                   *)
TopLevel == 5

Level(idx) ==      \* the finest array that reaches idx ticks ahead
  IF idx >= Span(TopLevel) THEN TopLevel
  ELSE CHOOSE k \in Levels : idx < Span(k) /\ \A l \in Levels : idx < Span(l) => k <= l

NoCap(idx) == idx      \* mutant: expires is taken as it is

Cap(idx) == IF idx >= Span(TopLevel) THEN Span(TopLevel) - 1 ELSE idx

SlotOf(k, e) == <<k, (e \div Unit(k)) % Size(k)>>

PlaceFor(e) ==
  LET idx == e - jiffies IN
  IF idx < 0 THEN SlotOf(1, jiffies) ELSE SlotOf(Level(idx), Cap(idx) + jiffies)

AddTimer(t) == place' = [place EXCEPT ![t] = PlaceFor(expires[t])]

(* newTimer: expires is computed before the lock is taken. *)
NewTimer(t) ==
  /\ upc[t] = "idle" /\ fpc[t] = "none" /\ place[t] = Nowhere
  /\ \E d \in Delays, p \in Delays \cup {0} :
       /\ p \in {0, d}
       /\ expires' = [expires EXCEPT ![t] = jiffies + d]
       /\ period' = [period EXCEPT ![t] = p]
  /\ upc' = [upc EXCEPT ![t] = "add"]
  /\ UNCHANGED <<jiffies, place, fpc>>

AddNew(t) ==
  /\ upc[t] = "add"
  /\ AddTimer(t)
  /\ upc' = [upc EXCEPT ![t] = "idle"]
  /\ UNCHANGED <<jiffies, expires, period, fpc>>

(* delTimer: on a timer that is in no slot it returns false, as do Stop    *)
(* and Reset.                                                              *)
DelTimer(t) == place[t] # Nowhere /\ place' = [place EXCEPT ![t] = Nowhere]

Stop(t) ==
  /\ upc[t] = "idle"
  /\ DelTimer(t)
  /\ UNCHANGED <<jiffies, expires, period, upc, fpc>>

ResetDel(t) ==
  /\ upc[t] = "idle"
  /\ DelTimer(t)
  /\ upc' = [upc EXCEPT ![t] = "reset"]
  /\ UNCHANGED <<jiffies, expires, period, fpc>>

(* resetTimer after delTimer: at least one tick.  Timer.Reset makes the    *)
(* timer a single one, Ticker.Reset gives it its new period.               *)
ResetExpires(t) ==
  /\ upc[t] = "reset"
  /\ \E d \in Delays :
       /\ expires' = [expires EXCEPT ![t] = jiffies + (IF d = 0 THEN 1 ELSE d)]
       /\ \E p \in {0, d} : period' = [period EXCEPT ![t] = p]
  /\ upc' = [upc EXCEPT ![t] = "add"]
  /\ UNCHANGED <<jiffies, place, fpc>>
-----------------------------------------------------------------------------
(* onTick *)

CascadesTv2Only == IF jiffies % Span(1) = 0 THEN {2} ELSE {}   \* mutant: tv3 .. tv5 stay

(* The arrays to cascade: each when all finer ones have gone round. *)
Cascaded == {k \in Levels \ {1} : jiffies % Unit(k) = 0}

Spread(t) == \E k \in Cascaded : place[t] = SlotOf(k, jiffies)

(* The place of t after the cascades. *)
Refined(t) == IF Spread(t) THEN PlaceFor(expires[t]) ELSE place[t]

Expired == {t \in TimerIds : Refined(t) = SlotOf(1, jiffies)}

OnTick ==
  /\ jiffies < MaxJiffies
  /\ jiffies' = jiffies + 1
  /\ place' = [t \in TimerIds |-> IF t \in Expired THEN Nowhere ELSE Refined(t)]
  /\ fpc' = [t \in TimerIds |-> IF t \in Expired THEN "due" ELSE fpc[t]]
  /\ UNCHANGED <<expires, period, upc>>

(* The functions are called; a periodic timer is then added again, also if *)
(* its user has called Stop in the meantime, which found it in no slot.    *)
Call(t) ==
  /\ fpc[t] = "due"
  /\ fpc' = [fpc EXCEPT ![t] = IF period[t] > 0 THEN "called" ELSE "none"]
  /\ UNCHANGED <<jiffies, place, expires, period, upc>>

NextPeriod(t) ==
  /\ fpc[t] = "called"
  /\ expires' = [expires EXCEPT ![t] = period[t] + jiffies]
  /\ fpc' = [fpc EXCEPT ![t] = "again"]
  /\ UNCHANGED <<jiffies, place, period, upc>>

AddAgain(t) ==
  /\ fpc[t] = "again"
  /\ AddTimer(t)
  /\ fpc' = [fpc EXCEPT ![t] = "none"]
  /\ UNCHANGED <<jiffies, expires, period, upc>>
-----------------------------------------------------------------------------
User(t) == NewTimer(t) \/ AddNew(t) \/ Stop(t) \/ ResetDel(t) \/ ResetExpires(t)

Function(t) == Call(t) \/ NextPeriod(t) \/ AddAgain(t)

Next == OnTick \/ \E t \in TimerIds : User(t) \/ Function(t)

Spec == Init /\ [][Next]_vars
-----------------------------------------------------------------------------
(* Type invariant: a timer in a slot is in nobody's hands. *)
TypeOK ==
  /\ jiffies \in 0 .. MaxJiffies
  /\ place \in [TimerIds -> Places \cup {Nowhere}]
  /\ expires \in [TimerIds -> Nat] /\ period \in [TimerIds -> Delays \cup {0}]
  /\ upc \in [TimerIds -> {"idle", "reset", "add"}]
  /\ fpc \in [TimerIds -> {"none", "due", "called", "again"}]
  /\ \A t \in TimerIds : place[t] # Nowhere => upc[t] = "idle" /\ fpc[t] = "none"

(* cascade cuts a slot to length zero and re-uses its array while it still *)
(* reads the old contents: sound because no timer of the slot goes back    *)
(* into it, or into another slot that the same tick cascades.              *)
CascadeIsInPlace ==
  \A t \in TimerIds : Spread(t) => \A k \in Cascaded : PlaceFor(expires[t]) # SlotOf(k, jiffies)

(* However a timer has wandered through the arrays, and however late       *)
(* addTimer came, the tick that reaches its expires makes it due, and no   *)
(* other tick does; a timer stopped before never becomes due.              *)
Exact ==
  INSTANCE Timers WITH
    NoDeadline <- Nowhere, now <- jiffies,
    deadline <- [t \in TimerIds |-> IF place[t] = Nowhere THEN Nowhere ELSE expires[t]],
    due <- {t \in TimerIds : fpc[t] = "due"}

FiresOnTime == Exact!Spec
=============================================================================
