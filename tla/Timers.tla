------------------------------- MODULE Timers -------------------------------
(***************************************************************************)
(* What a set of timers promises: every timer that is set has a deadline,  *)
(* and the tick that reaches it makes the timer due, no earlier tick and   *)
(* no later one; a timer that is taken back before does not become due.    *)
(* The hierarchical wheels of vendor/timer/timer.go implement this         *)
(* (TimerWheel).                                                           *)
(***************************************************************************)
EXTENDS Integers

CONSTANTS TimerIds,
          NoDeadline   \* the timer is not set

VARIABLES now,       \* ticks so far
          deadline,  \* when the timer is to become due
          due        \* the timers whose function is about to be called

vars == <<now, deadline, due>>

Init == now = 0 /\ deadline = [t \in TimerIds |-> NoDeadline] /\ due = {}

Set(t) ==
  /\ deadline[t] = NoDeadline /\ t \notin due
  /\ deadline' = [deadline EXCEPT ![t] = deadline'[t]]
  /\ deadline'[t] \in Int
  /\ UNCHANGED <<now, due>>

Cancel(t) ==
  /\ deadline[t] # NoDeadline
  /\ deadline' = [deadline EXCEPT ![t] = NoDeadline]
  /\ UNCHANGED <<now, due>>

Reached == {t \in TimerIds : deadline[t] # NoDeadline /\ deadline[t] <= now}

Tick ==
  /\ now' = now + 1
  /\ deadline' = [t \in TimerIds |-> IF t \in Reached THEN NoDeadline ELSE deadline[t]]
  /\ due' = due \cup Reached

Call(t) == t \in due /\ due' = due \ {t} /\ UNCHANGED <<now, deadline>>

Next == Tick \/ \E t \in TimerIds : Set(t) \/ Cancel(t) \/ Call(t)

Spec == Init /\ [][Next]_vars
=============================================================================
