--------------------------- MODULE HelpersProofs ---------------------------
(***************************************************************************)
(* Proofs about the parts that stand on their own: the connection tracking *)
(* (Conntrack), the log files (LogRotate), the ring of buffers             *)
(* (RingBuffer) and the timer wheel (TimerWheel), for any values of their  *)
(* constants.  The last three are proved of MCHelpers, which takes them    *)
(* together.                                                               *)
(*                                                                         *)
(* Conntrack: the inductive invariant IInv ties the three pieces of state  *)
(* together that the handlers and the callbacks change separately: whoever *)
(* has a timer, a callback or a live status is in the table; there is      *)
(* never both a timer and a callback; and the kind of the timer fits the   *)
(* status.                                                                 *)
(***************************************************************************)
EXTENDS Conntrack, MCHelpers, Sequences, FiniteSetTheorems, TLAPS


Alive == {"NEW", "REPLY", "ESTABLISHED"}

(* What is in the table is there under both of its tuples. *)
TableOK ==
  \A t \in Tuples : conntracks[t] \in Cts =>
    /\ t \in {origin[conntracks[t]], Invert(origin[conntracks[t]])}
    /\ conntracks[Invert(t)] = conntracks[t]

(* Whatever may still act on a connection finds it in the table. *)
Tracked ==
  \A c \in Cts : timer[c] # "none" \/ callback[c] # "none" \/ status[c] \in Alive =>
    status[c] # "unused" /\ conntracks[origin[c]] = c

NotBoth == \A c \in Cts : timer[c] = "none" \/ callback[c] = "none"

KindsFit ==
  \A c \in Cts :
    /\ timer[c] = "est" => status[c] = "ESTABLISHED" \/ (hpc = "stop" /\ ct = c)
    /\ callback[c] = "est" => status[c] \in {"ESTABLISHED", "DEL"}
    /\ callback[c] = "remove" => status[c] = "DEL"

InHand ==
  /\ hpc = "create" => conntracks[pkt.tuple] = NoCt
  /\ hpc = "arm" => status[ct] = "NEW" /\ timer[ct] = "none" /\ callback[ct] = "none"
  /\ hpc = "stop" => status[ct] = "DEL"

IInv == TypeOK /\ TableOK /\ Tracked /\ NotBoth /\ KindsFit /\ InHand /\ OneTimer
-----------------------------------------------------------------------------
LEMMA InvertTuple ==
  ASSUME NEW t \in Tuples
  PROVE  Invert(t) \in Tuples /\ Invert(Invert(t)) = t
BY DEF Tuples, Invert

LEMMA InitIInv == Init => IInv
<1> SUFFICES ASSUME Init PROVE IInv
  OBVIOUS
<1>1. TypeOK
  BY DEF Init, TypeOK, Statuses
<1>2. TableOK /\ Tracked /\ NotBoth /\ KindsFit /\ InHand /\ OneTimer
  BY ConntrackAssumption DEF Init, TableOK, Tracked, Alive, NotBoth, KindsFit, InHand, OneTimer
<1>3. QED
  BY <1>1, <1>2 DEF IInv
-----------------------------------------------------------------------------
(* Type correctness. *)
LEMMA TypeStep == TypeOK /\ [Next]_vars => TypeOK'
<1> SUFFICES ASSUME TypeOK, [Next]_vars PROVE TypeOK'
  OBVIOUS
<1>1. CASE Found
  BY <1>1 DEF Found, IsTracked, ctVars, TypeOK
<1>2. CASE NotFound
  BY <1>2 DEF NotFound, ctVars, TypeOK
<1>3. CASE CreateConntrack
  <2>1. pkt.tuple \in Tuples
    BY <1>3 DEF CreateConntrack, TypeOK
  <2>2. PICK c \in Cts :
          /\ origin' = [origin EXCEPT ![c] = pkt.tuple]
          /\ status' = [status EXCEPT ![c] = "NEW"]
          /\ conntracks' = [conntracks EXCEPT ![pkt.tuple] = c, ![Invert(pkt.tuple)] = c]
          /\ ct' = c
    BY <1>3 DEF CreateConntrack, AddConntrack
  <2>3. conntracks' \in [Tuples -> Cts \cup {NoCt}]
    BY <2>1, <2>2, InvertTuple DEF TypeOK
  <2>4. status' \in [Cts -> Statuses] /\ origin' \in [Cts -> Tuples]
    BY <2>1, <2>2 DEF TypeOK, Statuses
  <2>5. QED
    BY <1>3, <2>2, <2>3, <2>4 DEF CreateConntrack, TypeOK
<1>4. CASE ArmNew
  BY <1>4 DEF ArmNew, SetTimer, Done, TypeOK
<1>5. CASE TestDel
  BY <1>5 DEF TestDel, Done, Continue, ctVars, TypeOK
<1>6. CASE CountStats
  BY <1>6 DEF CountStats, Continue, TypeOK
<1>7. CASE FinLock
  BY <1>7 DEF FinLock, Done, Continue, SetStatus, TypeOK, Statuses
<1>8. CASE FinStop
  BY <1>8 DEF FinStop, Done, SetTimer, TypeOK
<1>9. CASE NoChange
  BY <1>9 DEF NoChange, Done, ctVars, TypeOK
<1>10. CASE SynAck
  BY <1>10 DEF SynAck, Done, SetStatus, TypeOK, Statuses
<1>11. CASE Establish
  BY <1>11 DEF Establish, Done, SetStatus, SetTimer, TypeOK, Statuses
<1>12. ASSUME NEW c \in Cts, Expire(c) PROVE TypeOK'
  BY <1>12 DEF Expire, TypeOK
<1>13. ASSUME NEW c \in Cts, TimeoutDel(c) PROVE TypeOK'
  BY <1>13 DEF TimeoutDel, TypeOK, Statuses
<1>14. ASSUME NEW c \in Cts, DelConntrack(c) PROVE TypeOK'
  BY <1>14 DEF DelConntrack, TypeOK
<1>15. ASSUME NEW c \in Cts, EstablishedTimeout(c) PROVE TypeOK'
  BY <1>15 DEF EstablishedTimeout, ArmDel, TypeOK, Statuses
<1>16. CASE UNCHANGED vars
  BY <1>16 DEF vars, ctVars, TypeOK
<1>17. QED
  BY <1>1, <1>2, <1>3, <1>4, <1>5, <1>6, <1>7, <1>8, <1>9, <1>10, <1>11, <1>12, <1>13, <1>14,
     <1>15, <1>16 DEF Next, Receive, Handle, Callback
-----------------------------------------------------------------------------
(* The steps of the handler that leave the connections alone. *)
LEMMA QuietStep ==
  ASSUME IInv, UNCHANGED ctVars, hpc' # "stop", hpc' # "arm", hpc # "stop", hpc # "arm",
         hpc' = "create" => conntracks[pkt'.tuple] = NoCt
  PROVE  TableOK' /\ Tracked' /\ NotBoth' /\ KindsFit' /\ InHand' /\ OneTimer'
BY DEF IInv, ctVars, TableOK, Tracked, Alive, NotBoth, KindsFit, InHand, OneTimer

LEMMA CreateStep ==
  ASSUME IInv, CreateConntrack
  PROVE  TableOK' /\ Tracked' /\ NotBoth' /\ KindsFit' /\ InHand' /\ OneTimer'
<1> DEFINE t == pkt.tuple
<1>1. PICK c \in Cts :
        /\ Collected(c)
        /\ origin' = [origin EXCEPT ![c] = t]
        /\ status' = [status EXCEPT ![c] = "NEW"]
        /\ conntracks' = [conntracks EXCEPT ![t] = c, ![Invert(t)] = c]
        /\ ct' = c
  BY DEF CreateConntrack, AddConntrack
<1>2. hpc = "create" /\ hpc' = "arm" /\ UNCHANGED <<timer, callback, pkt>>
  BY DEF CreateConntrack
<1>3. t \in Tuples /\ Invert(t) \in Tuples /\ Invert(Invert(t)) = t
  BY <1>2, InvertTuple DEF IInv, TypeOK
<1>4. timer[c] = "none" /\ callback[c] = "none" /\ \A u \in Tuples : conntracks[u] # c
  BY <1>1 DEF Collected, InTable
<1>5. conntracks[t] \notin Cts /\ conntracks[Invert(t)] \notin Cts
  <2>1. conntracks[t] \notin Cts
    BY <1>2, ConntrackAssumption DEF IInv, InHand
  <2>2. QED
    BY <2>1, <1>3 DEF IInv, TableOK
<1>6. \A u \in Tuples : conntracks'[u] = IF u \in {t, Invert(t)} THEN c ELSE conntracks[u]
  BY <1>1, <1>3 DEF IInv, TypeOK
<1>7. \A d \in Cts : /\ origin'[d] = IF d = c THEN t ELSE origin[d]
                     /\ status'[d] = IF d = c THEN "NEW" ELSE status[d]
  BY <1>1 DEF IInv, TypeOK
<1>8. TableOK'
  <2> SUFFICES ASSUME NEW u \in Tuples, conntracks'[u] \in Cts
               PROVE  /\ u \in {origin'[conntracks'[u]], Invert(origin'[conntracks'[u]])}
                      /\ conntracks'[Invert(u)] = conntracks'[u]
    BY DEF TableOK
  <2>1. CASE u \in {t, Invert(t)}
    BY <2>1, <1>3, <1>6, <1>7
  <2>2. CASE u \notin {t, Invert(t)}
    <3>1. conntracks'[u] = conntracks[u] /\ conntracks[u] # c
      BY <2>2, <1>6, <1>4
    <3>2. Invert(u) \in Tuples /\ Invert(u) \notin {t, Invert(t)}
      BY <2>2, <1>3, InvertTuple
    <3>3. QED
      BY <3>1, <3>2, <1>6, <1>7 DEF IInv, TableOK
  <2>3. QED
    BY <2>1, <2>2
<1>9. Tracked'
  <2> SUFFICES ASSUME NEW d \in Cts, timer[d] # "none" \/ callback[d] # "none" \/ status'[d] \in Alive
               PROVE  status'[d] # "unused" /\ conntracks'[origin'[d]] = d
    BY <1>2 DEF Tracked
  <2>1. CASE d = c
    BY <2>1, <1>3, <1>6, <1>7
  <2>2. CASE d # c
    <3>1. status'[d] = status[d] /\ origin'[d] = origin[d] /\ origin[d] \in Tuples
      BY <2>2, <1>7 DEF IInv, TypeOK
    <3>2. status[d] # "unused" /\ conntracks[origin[d]] = d
      BY <3>1 DEF IInv, Tracked
    <3>3. QED
      BY <3>1, <3>2, <1>5, <1>6
  <2>3. QED
    BY <2>1, <2>2
<1>10. NotBoth' /\ KindsFit' /\ InHand'
  BY <1>1, <1>2, <1>4, <1>7 DEF IInv, NotBoth, KindsFit, InHand
<1>11. OneTimer'
  BY <1>1, <1>2, <1>7 DEF IInv, OneTimer
<1>12. QED
  BY <1>8, <1>9, <1>10, <1>11
-----------------------------------------------------------------------------
(* The steps of the handler that write the status or the timer of the      *)
(* connection in hand.                                                     *)
LEMMA HandlerStep ==
  ASSUME IInv, ArmNew \/ FinLock \/ FinStop \/ SynAck \/ Establish
  PROVE  TableOK' /\ Tracked' /\ NotBoth' /\ KindsFit' /\ InHand' /\ OneTimer'
<1> USE DEF IInv, Done, Continue, SetStatus, SetTimer, Pending
<1>1. UNCHANGED <<conntracks, origin, callback>> /\ ct \in Cts
  BY DEF ArmNew, FinLock, FinStop, SynAck, Establish, TypeOK
<1>2. TableOK'
  BY <1>1 DEF TableOK
<1>3. CASE ArmNew
  <2>1. \A c \in Cts : timer'[c] = IF c = ct THEN "del" ELSE timer[c]
    BY <1>3 DEF ArmNew, TypeOK
  <2>2. hpc = "arm" /\ hpc' = "idle" /\ status' = status
    BY <1>3 DEF ArmNew
  <2>3. QED
    BY <1>1, <1>2, <2>1, <2>2 DEF Tracked, Alive, NotBoth, KindsFit, InHand, OneTimer
<1>4. CASE FinLock
  <2>1. CASE status[ct] = "DEL"
    BY <1>1, <1>2, <1>4, <2>1 DEF FinLock, Tracked, Alive, NotBoth, KindsFit, InHand, OneTimer
  <2>2. CASE status[ct] # "DEL"
    <3>1. \A c \in Cts : status'[c] = IF c = ct THEN "DEL" ELSE status[c]
      BY <1>4, <2>2 DEF FinLock, TypeOK
    <3>2. hpc = "lock" /\ hpc' = "stop" /\ UNCHANGED <<timer, ct>>
      BY <1>4, <2>2 DEF FinLock
    <3>3. QED
      BY <1>1, <1>2, <3>1, <3>2 DEF Tracked, Alive, NotBoth, KindsFit, InHand, OneTimer
  <2>3. QED
    BY <2>1, <2>2
<1>5. CASE FinStop
  <2>1. \A c \in Cts : timer'[c] = IF c = ct /\ timer[ct] # "none" THEN "del" ELSE timer[c]
    BY <1>5 DEF FinStop, TypeOK
  <2>2. hpc = "stop" /\ hpc' = "idle" /\ status' = status
    BY <1>5 DEF FinStop
  <2>3. QED
    BY <1>1, <1>2, <2>1, <2>2 DEF Tracked, Alive, NotBoth, KindsFit, InHand, OneTimer
<1>6. CASE SynAck
  <2>1. hpc = "act" /\ hpc' = "idle" /\ timer' = timer /\ status[ct] # "ESTABLISHED"
    BY <1>6 DEF SynAck
  <2>2. CASE timer[ct] = "none"
    BY <1>1, <1>2, <1>6, <2>1, <2>2
       DEF SynAck, ResetOk, Tracked, Alive, NotBoth, KindsFit, InHand, OneTimer
  <2>3. CASE timer[ct] # "none"
    <3>1. \A c \in Cts : status'[c] = IF c = ct THEN "REPLY" ELSE status[c]
      BY <1>6, <2>3 DEF SynAck, ResetOk, TypeOK
    <3>2. timer[ct] = "del" /\ callback[ct] = "none"
      BY <1>1, <2>1, <2>3 DEF TypeOK, KindsFit, NotBoth
    <3>3. QED
      BY <1>1, <1>2, <2>1, <3>1, <3>2 DEF Tracked, Alive, NotBoth, KindsFit, InHand, OneTimer
  <2>4. QED
    BY <2>2, <2>3
<1>7. CASE Establish
  <2>1. hpc = "act" /\ hpc' = "idle"
    BY <1>7 DEF Establish
  <2>2. CASE timer[ct] = "none"
    BY <1>1, <1>2, <1>7, <2>1, <2>2
       DEF Establish, StopOk, Tracked, Alive, NotBoth, KindsFit, InHand, OneTimer
  <2>3. CASE timer[ct] # "none"
    <3>1. \A c \in Cts : /\ status'[c] = IF c = ct THEN "ESTABLISHED" ELSE status[c]
                         /\ timer'[c] = IF c = ct THEN "est" ELSE timer[c]
      BY <1>7, <2>3 DEF Establish, StopOk, TypeOK
    <3>2. callback[ct] = "none"
      BY <1>1, <2>3 DEF NotBoth
    <3>3. QED
      BY <1>1, <1>2, <2>1, <2>3, <3>1, <3>2
         DEF Tracked, Alive, NotBoth, KindsFit, InHand, OneTimer
  <2>4. QED
    BY <2>2, <2>3
<1>8. QED
  BY <1>3, <1>4, <1>5, <1>6, <1>7
-----------------------------------------------------------------------------
(* The steps of the timers and of their callbacks. *)
LEMMA ExpireStep ==
  ASSUME IInv, NEW c \in Cts, Expire(c)
  PROVE  TableOK' /\ Tracked' /\ NotBoth' /\ KindsFit' /\ InHand' /\ OneTimer'
<1>1. \A d \in Cts : /\ timer'[d] = IF d = c THEN "none" ELSE timer[d]
                     /\ callback'[d] = IF d = c THEN timer[c] ELSE callback[d]
  BY DEF Expire, IInv, TypeOK
<1>2. UNCHANGED <<conntracks, status, origin, hpc, ct, pkt>> /\ timer[c] # "none"
  BY DEF Expire
<1>3. timer[c] \in {"del", "est"} /\ callback[c] = "none"
  BY <1>2 DEF IInv, TypeOK, NotBoth
<1>4. ~ (hpc = "arm" /\ ct = c)
  BY <1>2 DEF IInv, InHand
<1>5. TableOK' /\ Tracked' /\ NotBoth'
  BY <1>1, <1>2, <1>3 DEF IInv, TableOK, Tracked, NotBoth
<1>6. KindsFit' /\ InHand'
  BY <1>1, <1>2, <1>3, <1>4 DEF IInv, KindsFit, InHand, TypeOK
<1>7. OneTimer'
  BY <1>1, <1>2, <1>3, <1>4 DEF IInv, OneTimer
<1>8. QED
  BY <1>5, <1>6, <1>7

LEMMA TimeoutDelStep ==
  ASSUME IInv, NEW c \in Cts, TimeoutDel(c)
  PROVE  TableOK' /\ Tracked' /\ NotBoth' /\ KindsFit' /\ InHand' /\ OneTimer'
<1>1. \A d \in Cts : /\ status'[d] = IF d = c THEN "DEL" ELSE status[d]
                     /\ callback'[d] = IF d = c THEN "remove" ELSE callback[d]
  BY DEF TimeoutDel, IInv, TypeOK
<1>2. UNCHANGED <<conntracks, timer, origin, hpc, ct, pkt>> /\ callback[c] = "del"
  BY DEF TimeoutDel
<1>3. TableOK' /\ Tracked' /\ NotBoth'
  BY <1>1, <1>2 DEF IInv, TableOK, Tracked, Alive, NotBoth
<1>4. KindsFit' /\ InHand'
  BY <1>1, <1>2 DEF IInv, KindsFit, InHand, NotBoth, TypeOK
<1>5. OneTimer'
  BY <1>1, <1>2 DEF IInv, OneTimer
<1>6. QED
  BY <1>3, <1>4, <1>5

(* delConntrack empties the two entries, which are the connection's own. *)
LEMMA DelFindsOwn ==
  ASSUME IInv, NEW c \in Cts, callback[c] = "remove"
  PROVE  \A t \in {origin[c], Invert(origin[c])} : t \in Tuples /\ conntracks[t] = c
<1>1. origin[c] \in Tuples /\ conntracks[origin[c]] = c
  BY DEF IInv, TypeOK, Tracked
<1>2. QED
  BY <1>1, InvertTuple DEF IInv, TableOK

LEMMA DelConntrackStep ==
  ASSUME IInv, NEW c \in Cts, DelConntrack(c)
  PROVE  TableOK' /\ Tracked' /\ NotBoth' /\ KindsFit' /\ InHand' /\ OneTimer'
<1>1. \A t \in Tuples : conntracks'[t] = IF t \in {origin[c], Invert(origin[c])} THEN NoCt ELSE conntracks[t]
  BY DEF DelConntrack, Keys
<1>2. \A d \in Cts : callback'[d] = IF d = c THEN "none" ELSE callback[d]
  BY DEF DelConntrack, IInv, TypeOK
<1>3. UNCHANGED <<status, timer, origin, hpc, ct, pkt>> /\ callback[c] = "remove"
  BY DEF DelConntrack
<1>4. status[c] = "DEL" /\ timer[c] = "none"
  BY <1>3 DEF IInv, KindsFit, NotBoth
<1>5. \A t \in Tuples : conntracks[t] = c <=> t \in {origin[c], Invert(origin[c])}
  BY <1>3, DelFindsOwn DEF IInv, TableOK
<1>6. \A t \in Tuples : conntracks'[t] = IF conntracks[t] = c THEN NoCt ELSE conntracks[t]
  BY <1>1, <1>5
<1>7. TableOK'
  <2> SUFFICES ASSUME NEW u \in Tuples, conntracks'[u] \in Cts
               PROVE  /\ u \in {origin'[conntracks'[u]], Invert(origin'[conntracks'[u]])}
                      /\ conntracks'[Invert(u)] = conntracks'[u]
    BY DEF TableOK
  <2>1. conntracks[u] # c /\ conntracks'[u] = conntracks[u]
    BY <1>6, ConntrackAssumption
  <2>2. Invert(u) \in Tuples /\ conntracks[Invert(u)] = conntracks[u]
    BY <2>1, InvertTuple DEF IInv, TableOK
  <2>3. QED
    BY <2>1, <2>2, <1>3, <1>6 DEF IInv, TableOK
<1>8. Tracked'
  <2> SUFFICES ASSUME NEW d \in Cts, timer[d] # "none" \/ callback'[d] # "none" \/ status[d] \in Alive
               PROVE  status[d] # "unused" /\ conntracks'[origin[d]] = d
    BY <1>3 DEF Tracked
  <2>1. d # c
    BY <1>2, <1>4 DEF Alive
  <2>2. status[d] # "unused" /\ conntracks[origin[d]] = d /\ origin[d] \in Tuples
    BY <1>2, <2>1 DEF IInv, Tracked, TypeOK
  <2>3. QED
    BY <2>1, <2>2, <1>6
<1>9. NotBoth' /\ KindsFit'
  BY <1>2, <1>3 DEF IInv, NotBoth, KindsFit
<1>10. InHand'
  <2>1. hpc = "create" => pkt.tuple \in Tuples
    BY DEF IInv, TypeOK
  <2>2. QED
    BY <2>1, <1>2, <1>3, <1>6 DEF IInv, InHand, TypeOK
<1>11. OneTimer'
  BY <1>2, <1>3, <1>4 DEF IInv, OneTimer
<1>12. QED
  BY <1>7, <1>8, <1>9, <1>10, <1>11

LEMMA EstablishedTimeoutStep ==
  ASSUME IInv, NEW c \in Cts, EstablishedTimeout(c)
  PROVE  TableOK' /\ Tracked' /\ NotBoth' /\ KindsFit' /\ InHand' /\ OneTimer'
<1>1. \A d \in Cts : callback'[d] = IF d = c THEN "none" ELSE callback[d]
  BY DEF EstablishedTimeout, IInv, TypeOK
<1>2. UNCHANGED <<conntracks, origin, hpc, ct, pkt>> /\ callback[c] = "est" /\ ~ (hpc = "stop" /\ ct = c)
  BY DEF EstablishedTimeout
<1>3. timer[c] = "none" /\ status[c] \in {"ESTABLISHED", "DEL"} /\ ~ (hpc = "arm" /\ ct = c)
  BY <1>2 DEF IInv, NotBoth, KindsFit, InHand
<1>4. conntracks[origin[c]] = c
  BY <1>2 DEF IInv, Tracked
<1>5. TableOK'
  BY <1>2 DEF IInv, TableOK
<1>6. \/ UNCHANGED <<status, timer>> /\ status[c] = "DEL"
      \/ /\ status' = status
         /\ \A d \in Cts : timer'[d] = IF d = c THEN "est" ELSE timer[d]
         /\ status[c] = "ESTABLISHED"
      \/ /\ \A d \in Cts : timer'[d] = IF d = c THEN "del" ELSE timer[d]
         /\ \A d \in Cts : status'[d] = IF d = c THEN "DEL" ELSE status[d]
  BY <1>3 DEF EstablishedTimeout, ArmDel, IInv, TypeOK
<1>7. Tracked' /\ NotBoth'
  BY <1>1, <1>2, <1>3, <1>4, <1>6 DEF IInv, Tracked, Alive, NotBoth
<1>8. KindsFit' /\ InHand'
  BY <1>1, <1>2, <1>3, <1>6 DEF IInv, KindsFit, InHand, TypeOK
<1>9. OneTimer'
  BY <1>1, <1>2, <1>3, <1>6 DEF IInv, OneTimer
<1>10. QED
  BY <1>5, <1>7, <1>8, <1>9
-----------------------------------------------------------------------------
LEMMA NextIInv == IInv /\ [Next]_vars => IInv'
<1> SUFFICES ASSUME IInv, [Next]_vars PROVE IInv'
  OBVIOUS
<1> DEFINE Rest == TableOK /\ Tracked /\ NotBoth /\ KindsFit /\ InHand /\ OneTimer
<1>1. SUFFICES Rest'
  BY TypeStep DEF IInv
<1>2. CASE Found \/ NotFound \/ TestDel \/ CountStats \/ NoChange
  <2>1. CASE Found \/ NotFound \/ TestDel \/ NoChange
    <3>1. /\ UNCHANGED ctVars
          /\ hpc' # "stop" /\ hpc' # "arm" /\ hpc # "stop" /\ hpc # "arm"
          /\ hpc' = "create" => conntracks[pkt'.tuple] = NoCt
      BY <2>1 DEF Found, NotFound, IsNew, TestDel, NoChange, Done, Continue
    <3>2. QED
      BY <3>1, QuietStep
  <2>2. CASE CountStats
    BY <2>2 DEF CountStats, Continue, IInv, TableOK, Tracked, Alive, NotBoth, KindsFit, InHand, OneTimer
  <2>3. QED
    BY <1>2, <2>1, <2>2
<1>3. CASE CreateConntrack
  BY <1>3, CreateStep
<1>4. CASE ArmNew \/ FinLock \/ FinStop \/ SynAck \/ Establish
  BY <1>4, HandlerStep
<1>5. ASSUME NEW c \in Cts, Expire(c) \/ Callback(c) PROVE Rest'
  BY <1>5, ExpireStep, TimeoutDelStep, DelConntrackStep, EstablishedTimeoutStep DEF Callback
<1>6. CASE UNCHANGED vars
  BY <1>6 DEF vars, ctVars, IInv, TableOK, Tracked, Alive, NotBoth, KindsFit, InHand, OneTimer
<1>7. QED
  BY <1>2, <1>3, <1>4, <1>5, <1>6 DEF Next, Receive, Handle

(* The inductive invariant holds in every reachable state. *)
THEOREM Invariance == Spec => []IInv
BY InitIInv, NextIInv, PTL DEF Spec

(* The fields of the connections and the steps of the handlers keep their  *)
(* types, and a handler past its lookup has a connection in hand.          *)
THEOREM TypeCorrect == Spec => []TypeOK
<1>1. IInv => TypeOK
  BY DEF IInv
<1>2. QED
  BY <1>1, Invariance, PTL

(* A connection that is alive has exactly one timer behind it: netstat     *)
(* neither forgets to time one out nor does it twice.                      *)
THEOREM TimerCorrect == Spec => []OneTimer
<1>1. IInv => OneTimer
  BY DEF IInv
<1>2. QED
  BY <1>1, Invariance, PTL

(* addConntrack and delConntrack keep the two entries together. *)
THEOREM TableCorrect == Spec => []BothWays
<1>1. IInv => BothWays
  <2> SUFFICES ASSUME IInv, NEW c \in Cts, NEW u \in Tuples, conntracks[u] = c
               PROVE  {t \in Tuples : conntracks[t] = c} = {origin[c], Invert(origin[c])}
    BY DEF BothWays
  <2>1. origin[c] \in Tuples /\ Invert(origin[c]) \in Tuples /\ Invert(Invert(origin[c])) = origin[c]
    BY InvertTuple DEF IInv, TypeOK
  <2>2. u \in {origin[c], Invert(origin[c])} /\ conntracks[Invert(u)] = c
    BY DEF IInv, TableOK
  <2>3. conntracks[origin[c]] = c /\ conntracks[Invert(origin[c])] = c
    BY <2>1, <2>2
  <2>4. \A t \in Tuples : conntracks[t] = c => t \in {origin[c], Invert(origin[c])}
    BY DEF IInv, TableOK
  <2>5. QED
    BY <2>1, <2>3, <2>4
<1>2. QED
  BY <1>1, Invariance, PTL

(* The unlocked writes of the handler never bring back a connection that   *)
(* ctTimeoutDel has marked.                                                *)
THEOREM DelIsFinal == Spec => []DeletedStaysDel
<1>1. IInv => DeletedStaysDel
  BY DEF IInv, TypeOK, Statuses, Tracked, Alive, KindsFit, DeletedStaysDel, InTable
<1>2. QED
  BY <1>1, Invariance, PTL

(* A tracked connection is removed by its own ctTimeoutDel only, and       *)
(* CreateConntrack overwrites none.                                        *)
THEOREM RemovalCorrect == Spec => OnlyOwnRemoval
<1>1. IInv /\ [Next]_vars => [OwnRemoval]_vars
  <2> SUFFICES ASSUME IInv, [Next]_vars PROVE OwnRemoval
    OBVIOUS
  <2>1. CASE CreateConntrack
    <3> DEFINE p == pkt.tuple
    <3>1. p \in Tuples /\ Invert(p) \in Tuples /\ Invert(Invert(p)) = p
      BY <2>1, InvertTuple DEF CreateConntrack, IInv, TypeOK
    <3>2. conntracks[p] \notin Cts
      BY <2>1, ConntrackAssumption DEF CreateConntrack, IInv, InHand
    <3>3. conntracks[Invert(p)] \notin Cts
      BY <3>1, <3>2 DEF IInv, TableOK
    <3>4. \A t \in Tuples \ {p, Invert(p)} : conntracks'[t] = conntracks[t]
      BY <2>1, <3>1 DEF CreateConntrack, AddConntrack, IInv, TypeOK
    <3>5. QED
      BY <3>2, <3>3, <3>4 DEF OwnRemoval
  <2>2. ASSUME NEW c \in Cts, DelConntrack(c) PROVE OwnRemoval
    <3>1. callback[c] = "remove"
      BY <2>2 DEF DelConntrack
    <3>2. \A t \in Tuples : conntracks'[t] = IF t \in {origin[c], Invert(origin[c])} THEN NoCt
                                             ELSE conntracks[t]
      BY <2>2 DEF DelConntrack, Keys
    <3>3. QED
      BY <3>1, <3>2, DelFindsOwn DEF OwnRemoval
  <2>3. CASE conntracks' = conntracks
    BY <2>3 DEF OwnRemoval
  <2>4. QED
    BY <2>1, <2>2, <2>3 DEF Next, Receive, Handle, Callback, Found, NotFound, ArmNew, TestDel,
       CountStats, FinLock, FinStop, NoChange, SynAck, Establish, Expire, TimeoutDel,
       EstablishedTimeout, vars, ctVars
<1>2. QED
  BY <1>1, Invariance, PTL DEF Spec, OnlyOwnRemoval
-----------------------------------------------------------------------------
(* Log files.  What createLogFile knows at each of its steps; the last     *)
(* file of the list is the one in use, or the one that is about to be; the *)
(* files opened and still there are listed but for the one in hand; the    *)
(* runs before have left no more than their share; and, as long as the     *)
(* clock is never set back, the list is sorted and older than the next     *)
(* file, so that it is never the file in use that is removed, unless it is *)
(* the only one.                                                           *)

Creating == {"open", "trim", "list", "redirect", "arm"}
Switched == {"arm", "idle"}

StepInv ==
  /\ pc \in Creating => logfile \in Log!Days
  /\ pc \in Switched => out = logfile
  /\ pc = "list" => Len(logFileChan) < logFileNum
  /\ pc # "panic"
  /\ pc \in {"trim", "list", "redirect", "arm"} => logfile \in made
  /\ \A i \in 1 .. Len(logFileChan) : logFileChan[i] \in made
  /\ logFileChan # <<>> /\ pc # "down" =>
       logFileChan[Len(logFileChan)] = IF pc = "redirect" THEN logfile ELSE out

Listed == Log!ToSet(logFileChan)

ListedInv ==
  (made \cap disk) \ kept \subseteq Listed \cup (IF pc \in {"trim", "list", "down"} THEN {logfile} ELSE {})

LeftBehind == (disk \ made) \ kept

BehindInv ==
  /\ Cardinality(LeftBehind) <= (IF runs = 0 THEN 0 ELSE runs - 1) * (logFileNum + 1)
  /\ runs = 0 => disk = {} /\ pc = "down"

OlderInv ==
  /\ \A i \in 1 .. Len(logFileChan) :
       /\ pc = "name" => logFileChan[i] < today
       /\ pc \in {"open", "trim", "list"} => logFileChan[i] < logfile
       /\ pc \in {"redirect", "arm"} => logFileChan[i] <= today
       /\ pc = "idle" => logFileChan[i] < nextDay
  /\ \A i, j \in 1 .. Len(logFileChan) : i < j => logFileChan[i] < logFileChan[j]

DayInv ==
  /\ pc \in Creating => logfile \in {today, today - 1}
  /\ pc = "idle" => nextDay # 0 /\ out \in {nextDay - 1, nextDay - 2} /\ today >= nextDay - 1
  /\ pc \in {"trim", "list", "redirect", "arm"} => logfile \in disk
  /\ pc # "down" /\ out # 0 => out \in disk \/ (logFileNum = 1 /\ pc \in {"list", "redirect"})

LogInv ==
  /\ Log!TypeOK /\ StepInv /\ ListedInv /\ BehindInv
  /\ backs = 0 => OlderInv /\ DayInv

LEMMA LogConstants ==
  /\ FileNums \subseteq Nat /\ MaxDay \in Nat \ {0} /\ MaxRuns \in Nat /\ MaxBacks \in Nat
  /\ Log!NoDay = 0 /\ Log!Days = 1 .. MaxDay
BY HelpersAssumption DEF Log!LogRotateAssumption, Log!NoDay, Log!Days

LEMMA LogTypes ==
  ASSUME Log!TypeOK
  PROVE  /\ today \in 1 .. MaxDay /\ backs \in 0 .. MaxBacks /\ runs \in 0 .. MaxRuns
         /\ logFileChan \in Seq(1 .. MaxDay) /\ Len(logFileChan) \in Nat /\ Len(logFileChan) <= logFileNum
         /\ logFileNum \in Nat /\ disk \subseteq 1 .. MaxDay /\ made \subseteq 1 .. MaxDay /\ kept \subseteq disk
         /\ out \in 0 .. MaxDay /\ logfile \in 0 .. MaxDay /\ nextDay \in 0 .. MaxDay + 1 + MaxBacks
         /\ pc \in {"down", "idle", "name", "open", "trim", "list", "redirect", "arm", "panic"}
<1>1. {out, logfile} \subseteq 1 .. MaxDay \cup {0}
  BY LogConstants DEF Log!TypeOK
<1>2. QED
  BY <1>1, LogConstants DEF Log!TypeOK

LEMMA LogInit == ASSUME Log!Init PROVE LogInv
<1>1. Log!TypeOK
  BY LogConstants DEF Log!Init, Log!TypeOK
<1>2. StepInv /\ ListedInv
  BY DEF Log!Init, StepInv, ListedInv, Creating, Switched
<1>b. BehindInv
  <2>1. LeftBehind = {} /\ runs = 0 /\ disk = {} /\ logFileNum \in Nat /\ pc = "down"
    BY LogConstants DEF Log!Init, LeftBehind
  <2>2. QED
    BY <2>1, FS_EmptySet DEF BehindInv
<1>3. OlderInv /\ DayInv
  BY LogConstants DEF Log!Init, OlderInv, DayInv, Creating
<1>4. QED
  BY <1>1, <1>2, <1>b, <1>3 DEF LogInv

LEMMA TailOf ==
  ASSUME NEW S, NEW s \in Seq(S), s # <<>>
  PROVE  /\ Tail(s) \in Seq(S) /\ Len(Tail(s)) = Len(s) - 1 /\ Len(s) > 0
         /\ Head(s) = s[1] /\ Head(s) \in S /\ \A i \in 1 .. Len(Tail(s)) : Tail(s)[i] = s[i + 1]
OBVIOUS

LEMMA InToSet ==
  ASSUME NEW S, NEW s \in Seq(S), NEW x
  PROVE  x \in Log!ToSet(s) <=> \E i \in 1 .. Len(s) : s[i] = x
BY DEF Log!ToSet

(* What Trim does: nothing, or the oldest file leaves the list.            *)
LEMMA TrimStep ==
  ASSUME LogInv, Log!Trim
  PROVE  /\ pc = "trim" /\ pc' = "list"
         /\ UNCHANGED <<today, out, logfile, nextDay, runs, backs, made>>
         /\ \/ UNCHANGED <<disk, kept, logFileChan>> /\ Len(logFileChan) < logFileNum
            \/ /\ logFileChan # <<>> /\ logFileChan' = Tail(logFileChan) /\ Len(logFileChan) >= logFileNum
               /\ \/ disk' = disk \ {Head(logFileChan)} /\ kept' = kept \ {Head(logFileChan)}
                  \/ disk' = disk /\ kept' = kept /\ Head(logFileChan) \notin disk
                  \/ disk' = disk /\ kept' = kept \cup {Head(logFileChan)} /\ Head(logFileChan) \in disk
<1>1. Len(logFileChan) \in Nat /\ logFileNum \in Nat
  BY LogTypes DEF LogInv
<1>2. CASE ~ (Len(logFileChan) >= logFileNum)
  BY <1>1, <1>2 DEF Log!Trim, Log!IsFull
<1>3. CASE Len(logFileChan) >= logFileNum
  <2>1. /\ pc = "trim" /\ pc' = "list" /\ UNCHANGED <<today, out, logfile, nextDay, runs, backs, made>>
        /\ logFileChan # <<>> /\ logFileChan' = Tail(logFileChan)
    BY <1>3 DEF Log!Trim, Log!IsFull
  <2>2. \E ok \in BOOLEAN :
          IF ok THEN disk' = disk \ {Head(logFileChan)} /\ kept' = kept \ {Head(logFileChan)}
                ELSE disk' = disk /\ kept' = kept \cup (disk \cap {Head(logFileChan)})
    BY <1>3 DEF Log!Trim, Log!IsFull, Log!Oldest
  <2>3. \/ disk' = disk \ {Head(logFileChan)} /\ kept' = kept \ {Head(logFileChan)}
        \/ disk' = disk /\ kept' = kept /\ Head(logFileChan) \notin disk
        \/ disk' = disk /\ kept' = kept \cup {Head(logFileChan)} /\ Head(logFileChan) \in disk
    <3> DEFINE h == Head(logFileChan)
    <3> HIDE DEF h
    <3>1. CASE h \in disk
      <4>1. disk \cap {h} = {h}
        BY <3>1
      <4>2. QED
        BY <2>2, <3>1, <4>1 DEF h
    <3>2. CASE h \notin disk
      <4>1. kept \cup (disk \cap {h}) = kept
        BY <3>2
      <4>2. QED
        BY <2>2, <3>2, <4>1 DEF h
    <3>3. QED
      BY <3>1, <3>2
  <2>4. QED
    BY <1>3, <2>1, <2>3
<1>4. QED
  BY <1>2, <1>3

LEMMA LogNumber == ASSUME [Log!Next]_log PROVE logFileNum' = logFileNum
BY DEF Log!Next, log

LEMMA LogTypeStep == ASSUME LogInv, [Log!Next]_log PROVE Log!TypeOK'
<1> USE LogNumber, LogConstants DEF Log!TypeOK
<1>0. Log!TypeOK /\ StepInv
  BY DEF LogInv
<1>1. CASE Log!InitLog
  BY <1>0, <1>1 DEF Log!InitLog
<1>2. CASE Log!Fire
  BY <1>0, <1>2 DEF Log!Fire
<1>3. CASE Log!Name
  BY <1>0, <1>3 DEF Log!Name
<1>4. CASE Log!Open
  <2>1. logfile \in Log!Days
    BY <1>0, <1>4 DEF Log!Open, StepInv, Creating
  <2>2. QED
    BY <1>0, <1>4, <2>1 DEF Log!Open
<1>5. CASE Log!Trim
  <2>1. CASE UNCHANGED <<disk, kept, logFileChan>>
    BY <1>0, <1>5, <2>1, TrimStep
  <2>2. CASE logFileChan # <<>> /\ logFileChan' = Tail(logFileChan)
    <3>1. logFileChan' \in Seq(Log!Days) /\ Len(logFileChan') <= logFileNum
      BY <1>0, <2>2, TailOf
    <3>2. disk' \subseteq Log!Days /\ kept' \subseteq disk'
      <4>1. Head(logFileChan) \in made
        BY <1>0, <1>5, <2>2, TailOf, TrimStep DEF StepInv
      <4>2. QED
        BY <1>0, <1>5, <4>1, TrimStep
    <3>3. QED
      BY <1>0, <1>5, <3>1, <3>2, TrimStep
  <2>3. QED
    BY <1>5, <2>1, <2>2, TrimStep
<1>6. CASE Log!List
  <2>1. logfile \in Log!Days /\ pc = "list" /\ Len(logFileChan) < logFileNum
    BY <1>0, <1>6 DEF Log!List, StepInv, Creating
  <2>2. logFileChan' = Append(logFileChan, logfile) /\ pc' = "redirect"
    BY <1>0, <1>6, <2>1 DEF Log!List
  <2>3. logFileChan' \in Seq(Log!Days) /\ Len(logFileChan') <= logFileNum
    BY <1>0, <2>1, <2>2
  <2>4. QED
    BY <1>0, <1>6, <2>2, <2>3 DEF Log!List
<1>r. CASE Log!Redirect
  BY <1>0, <1>r DEF Log!Redirect, StepInv, Creating
<1>7. CASE Log!Arm
  <2>1. nextDay' \in 0 .. MaxDay + 1 + MaxBacks
    BY <1>0, <1>7, LogTypes DEF Log!Arm, Log!Following, Log!Passed
  <2>2. QED
    BY <1>0, <1>7, <2>1 DEF Log!Arm
<1>8. CASE Log!Down
  BY <1>0, <1>8 DEF Log!Down
<1>9. CASE Log!Midnight
  BY <1>0, <1>9 DEF Log!Midnight
<1>10. CASE Log!SetBack
  BY <1>0, <1>10 DEF Log!SetBack
<1>11. CASE UNCHANGED log
  BY <1>0, <1>11 DEF log
<1>12. QED
  BY <1>1, <1>2, <1>3, <1>4, <1>5, <1>6, <1>r, <1>7, <1>8, <1>9, <1>10, <1>11 DEF Log!Next, Log!createLogFile

LEMMA StepInvStep == ASSUME LogInv, [Log!Next]_log PROVE StepInv'
<1> USE LogNumber, LogConstants DEF StepInv, Creating, Switched
<1>0. Log!TypeOK /\ StepInv
  BY DEF LogInv
<1>1. CASE Log!Fire \/ Log!Down \/ Log!Arm \/ Log!Midnight \/ Log!SetBack \/ UNCHANGED log
  BY <1>0, <1>1 DEF Log!Fire, Log!Down, Log!Arm, Log!Midnight, Log!SetBack, log
<1>i. CASE Log!InitLog
  BY <1>0, <1>i DEF Log!InitLog
<1>2. CASE Log!Name
  BY <1>0, <1>2, LogTypes DEF Log!Name
<1>3. CASE Log!Open
  BY <1>0, <1>3 DEF Log!Open
<1>r. CASE Log!Redirect
  BY <1>0, <1>r DEF Log!Redirect
<1>4. CASE Log!Trim
  <2>1. Len(logFileChan') < logFileNum
    <3>1. CASE logFileChan # <<>> /\ logFileChan' = Tail(logFileChan)
      BY <1>0, <3>1, TailOf, LogTypes
    <3>2. QED
      BY <1>4, <3>1, TrimStep
  <2>2. \A i \in 1 .. Len(logFileChan) : logFileChan[i] \in made
    BY <1>0, <1>4, TrimStep
  <2>3. pc = "trim" /\ pc' = "list" /\ UNCHANGED <<out, logfile, made>>
    BY <1>4, TrimStep
  <2>4. CASE logFileChan' = logFileChan
    BY <1>0, <2>1, <2>2, <2>3, <2>4
  <2>5. CASE logFileChan # <<>> /\ logFileChan' = Tail(logFileChan)
    <3>1. /\ logFileChan \in Seq(1 .. MaxDay) /\ logFileChan' \in Seq(1 .. MaxDay)
          /\ Len(logFileChan') = Len(logFileChan) - 1 /\ Len(logFileChan) \in Nat
          /\ \A i \in 1 .. Len(logFileChan') : logFileChan'[i] = logFileChan[i + 1]
      BY <1>0, <2>5, LogTypes, TailOf
    <3>2. ASSUME NEW i \in 1 .. Len(logFileChan') PROVE logFileChan'[i] \in made
      <4>1. i + 1 \in 1 .. Len(logFileChan)
        BY <3>1
      <4>2. QED
        BY <2>2, <3>1, <4>1
    <3>3. ASSUME logFileChan' # <<>> PROVE logFileChan'[Len(logFileChan')] = out
      <4>1. Len(logFileChan') > 0
        BY <3>1, <3>3
      <4>2. logFileChan'[Len(logFileChan')] = logFileChan[Len(logFileChan)]
        <5>1. Len(logFileChan') \in 1 .. Len(logFileChan') /\ Len(logFileChan') + 1 = Len(logFileChan)
          BY <3>1, <4>1
        <5>2. logFileChan'[Len(logFileChan')] = logFileChan[Len(logFileChan') + 1]
          BY <3>1, <5>1
        <5>3. QED
          BY <5>1, <5>2
      <4>3. QED
        BY <1>0, <2>3, <2>5, <4>2
    <3>4. logfile \in Log!Days /\ logfile \in made
      BY <1>0, <2>3
    <3>5. QED
      BY <2>1, <2>3, <3>2, <3>3, <3>4
  <2>6. QED
    BY <1>4, <2>4, <2>5, TrimStep
<1>5. CASE Log!List
  <2>1. /\ logFileChan' = Append(logFileChan, logfile) /\ pc = "list" /\ pc' = "redirect"
        /\ UNCHANGED <<out, logfile, made>>
    BY <1>0, <1>5, LogTypes DEF Log!List
  <2>s. /\ logFileChan \in Seq(1 .. MaxDay) /\ logfile \in 1 .. MaxDay /\ logfile \in made
        /\ \A k \in 1 .. Len(logFileChan) : logFileChan[k] \in made
    BY <1>0, <2>1, LogTypes
  <2>2. /\ Len(logFileChan') = Len(logFileChan) + 1 /\ logFileChan' # <<>>
        /\ logFileChan'[Len(logFileChan')] = logfile
    <3>1. /\ Len(logFileChan') = Len(logFileChan) + 1 /\ Len(logFileChan) \in Nat
          /\ logFileChan'[Len(logFileChan) + 1] = logfile
      BY <2>1, <2>s
    <3>2. QED
      BY <3>1
  <2>3. ASSUME NEW i \in 1 .. Len(logFileChan') PROVE logFileChan'[i] \in made
    <3>1. i \in 1 .. Len(logFileChan) + 1 /\ Len(logFileChan) \in Nat
      BY <2>2, <2>3, <2>s
    <3>2. CASE i = Len(logFileChan) + 1
      BY <2>2, <2>s, <3>2
    <3>3. CASE i \in 1 .. Len(logFileChan)
      <4>1. logFileChan'[i] = logFileChan[i]
        BY <2>1, <2>s, <3>3
      <4>2. QED
        BY <2>s, <3>3, <4>1
    <3>4. QED
      BY <3>1, <3>2, <3>3
  <2>4. QED
    BY <2>1, <2>2, <2>3, <2>s
<1>6. QED
  BY <1>1, <1>i, <1>2, <1>3, <1>r, <1>4, <1>5 DEF Log!Next, Log!createLogFile

LEMMA ListedStep == ASSUME LogInv, [Log!Next]_log PROVE ListedInv'
<1> USE DEF ListedInv, Listed
<1>0. Log!TypeOK /\ StepInv /\ ListedInv
  BY DEF LogInv
<1>1. CASE Log!InitLog
  BY <1>0, <1>1 DEF Log!InitLog
<1>2. CASE \/ Log!Fire \/ Log!Name \/ Log!Redirect \/ Log!Arm \/ Log!Midnight \/ Log!SetBack
           \/ UNCHANGED log
  BY <1>0, <1>2 DEF Log!Fire, Log!Name, Log!Redirect, Log!Arm, Log!Midnight, Log!SetBack, log
<1>3. CASE Log!Down
  BY <1>0, <1>3 DEF Log!Down
<1>4. CASE Log!Open
  BY <1>0, <1>4 DEF Log!Open
<1>5. CASE Log!Trim
  <2>1. CASE UNCHANGED <<disk, kept, logFileChan>>
    BY <1>0, <1>5, <2>1, TrimStep
  <2>2. CASE logFileChan # <<>> /\ logFileChan' = Tail(logFileChan)
    <3>1. (made \cap disk) \ kept \subseteq Log!ToSet(logFileChan) \cup {logfile}
      BY <1>0, <1>5, TrimStep
    <3>2. Log!ToSet(logFileChan) \subseteq Log!ToSet(logFileChan') \cup {Head(logFileChan)}
      <4>1. ASSUME NEW i \in 1 .. Len(logFileChan)
            PROVE  logFileChan[i] \in Log!ToSet(logFileChan') \cup {Head(logFileChan)}
        <5>1. CASE i = 1
          BY <2>2, <5>1, LogTypes, <1>0, TailOf
        <5>2. CASE i # 1
          <6>1. /\ i - 1 \in 1 .. Len(Tail(logFileChan)) /\ Tail(logFileChan)[i - 1] = logFileChan[i]
                /\ logFileChan' \in Seq(1 .. MaxDay)
            <7>1. logFileChan \in Seq(1 .. MaxDay)
              BY <1>0, LogTypes
            <7>2. /\ Len(Tail(logFileChan)) = Len(logFileChan) - 1
                  /\ \A j \in 1 .. Len(Tail(logFileChan)) : Tail(logFileChan)[j] = logFileChan[j + 1]
              BY <7>1, <2>2, TailOf
            <7>3. QED
              BY <2>2, <5>2, <7>1, <7>2
          <6>2. i - 1 \in 1 .. Len(logFileChan') /\ logFileChan'[i - 1] = logFileChan[i]
            BY <2>2, <6>1
          <6>3. QED
            BY <6>1, <6>2, InToSet
        <5>3. QED
          BY <5>1, <5>2
      <4>2. QED
        BY <1>0, <4>1, LogTypes, InToSet
    <3>3. Head(logFileChan) \notin (made' \cap disk') \ kept'
      BY <1>5, <2>2, TrimStep, <1>0, LogTypes, TailOf
    <3>4. (made' \cap disk') \ kept' \subseteq (made \cap disk) \ kept
      BY <1>5, TrimStep
    <3>5. pc' = "list" /\ logfile' = logfile
      BY <1>5, TrimStep
    <3>6. QED
      BY <3>1, <3>2, <3>3, <3>4, <3>5
  <2>3. QED
    BY <1>5, <2>1, <2>2, TrimStep
<1>6. CASE Log!List
  <2>1. logFileChan' = Append(logFileChan, logfile) /\ pc' = "redirect" /\ UNCHANGED <<made, disk, kept>>
    BY <1>0, <1>6, LogTypes, LogConstants DEF Log!List, StepInv
  <2>2. Log!ToSet(logFileChan) \cup {logfile} \subseteq Log!ToSet(logFileChan')
    BY <1>0, <2>1, LogTypes DEF Log!ToSet
  <2>3. QED
    BY <1>0, <1>6, <2>1, <2>2 DEF Log!List
<1>7. QED
  BY <1>1, <1>2, <1>3, <1>4, <1>5, <1>6 DEF Log!Next, Log!createLogFile

(* A sequence has at least as many places as elements.                     *)
LEMMA ElementsBounded ==
  ASSUME NEW S, NEW s \in Seq(S)
  PROVE  IsFiniteSet(Log!ToSet(s)) /\ Cardinality(Log!ToSet(s)) <= Len(s)
<1>1. IsFiniteSet(1 .. Len(s)) /\ Cardinality(1 .. Len(s)) = Len(s)
  <2>1. Len(s) \in Nat
    OBVIOUS
  <2>2. IsFiniteSet(1 .. Len(s)) /\ Cardinality(1 .. Len(s)) = IF 1 > Len(s) THEN 0 ELSE Len(s) - 1 + 1
    BY <2>1, FS_Interval
  <2>3. QED
    BY <2>1, <2>2
<1>2. s \in Surjection(1 .. Len(s), Log!ToSet(s))
  BY DEF Surjection, Log!ToSet
<1>3. QED
  BY <1>1, <1>2, FS_Surjection

(* What the runs before left becomes more only at a start, by what the run *)
(* that ended has listed.                                                  *)
LEMMA ShareOf ==
  ASSUME LogInv
  PROVE  IsFiniteSet((made \cap disk) \ kept) /\ Cardinality((made \cap disk) \ kept) <= logFileNum + 1
<1>0. Log!TypeOK /\ ListedInv
  BY DEF LogInv
<1>t. /\ logFileChan \in Seq(1 .. MaxDay) /\ Len(logFileChan) \in Nat /\ Len(logFileChan) <= logFileNum
      /\ logFileNum \in Nat
  BY <1>0, LogTypes
<1>1. IsFiniteSet(Listed) /\ Cardinality(Listed) <= logFileNum /\ Cardinality(Listed) \in Nat
  BY <1>t, ElementsBounded, FS_CardinalityType DEF Listed
<1>2. /\ IsFiniteSet(Listed \cup {logfile}) /\ Cardinality(Listed \cup {logfile}) <= logFileNum + 1
      /\ Cardinality(Listed \cup {logfile}) \in Nat
  <2>1. /\ IsFiniteSet(Listed \cup {logfile})
        /\ Cardinality(Listed \cup {logfile})
           = IF logfile \in Listed THEN Cardinality(Listed) ELSE Cardinality(Listed) + 1
    BY <1>1, FS_AddElement
  <2>2. QED
    BY <1>t, <1>1, <2>1
<1>3. (made \cap disk) \ kept \subseteq Listed \cup {logfile}
  BY <1>0 DEF ListedInv
<1>4. /\ IsFiniteSet((made \cap disk) \ kept)
      /\ Cardinality((made \cap disk) \ kept) <= Cardinality(Listed \cup {logfile})
  BY <1>2, <1>3, FS_Subset
<1>5. Cardinality((made \cap disk) \ kept) \in Nat
  BY <1>4, FS_CardinalityType
<1>6. Cardinality((made \cap disk) \ kept) <= logFileNum + 1
  <2> DEFINE m == Cardinality((made \cap disk) \ kept)
             n == Cardinality(Listed \cup {logfile})
  <2>1. m \in Nat /\ n \in Nat /\ m <= n /\ n <= logFileNum + 1 /\ logFileNum \in Nat
    BY <1>t, <1>2, <1>4, <1>5
  <2> HIDE DEF m, n
  <2>2. m <= logFileNum + 1
    BY <2>1
  <2>3. QED
    BY <2>2 DEF m
<1>7. QED
  BY <1>4, <1>6

LEMMA DiskShares ==
  ASSUME LogInv
  PROVE  /\ IsFiniteSet(LeftBehind) /\ Cardinality(LeftBehind) \in Nat /\ runs \in Nat /\ logFileNum \in Nat
         /\ IsFiniteSet(disk \ kept) /\ Cardinality(disk \ kept) \in Nat
         /\ Cardinality(disk \ kept) <= runs * (logFileNum + 1)
<1>0. disk \subseteq 1 .. MaxDay /\ runs \in Nat /\ MaxDay \in Nat /\ logFileNum \in Nat
  <2>1. Log!TypeOK
    BY DEF LogInv
  <2>2. disk \subseteq 1 .. MaxDay /\ runs \in 0 .. MaxRuns /\ logFileNum \in Nat
    BY <2>1, LogTypes
  <2>3. MaxDay \in Nat /\ MaxRuns \in Nat
    BY LogConstants
  <2>4. QED
    BY <2>2, <2>3
<1>1. IsFiniteSet(disk)
  <2>1. IsFiniteSet(1 .. MaxDay)
    BY <1>0, FS_Interval
  <2>2. QED
    BY <1>0, <2>1, FS_Subset
<1>2. /\ IsFiniteSet(LeftBehind) /\ Cardinality(LeftBehind) \in Nat
      /\ IsFiniteSet(disk \ kept) /\ Cardinality(disk \ kept) \in Nat
  BY <1>1, FS_Subset, FS_CardinalityType DEF LeftBehind
<1>3. CASE runs = 0
  <2>1. disk \ kept = {}
    BY <1>3 DEF LogInv, BehindInv
  <2>2. Cardinality(disk \ kept) = 0
    BY <2>1, FS_EmptySet
  <2>3. QED
    BY <1>0, <1>2, <1>3, <2>2
<1>4. CASE runs # 0
  <2>1. Cardinality(LeftBehind) <= (runs - 1) * (logFileNum + 1)
    BY <1>4 DEF LogInv, BehindInv
  <2>2. /\ IsFiniteSet((made \cap disk) \ kept) /\ Cardinality((made \cap disk) \ kept) <= logFileNum + 1
        /\ Cardinality((made \cap disk) \ kept) \in Nat
    BY ShareOf, FS_CardinalityType
  <2>3. disk \ kept = LeftBehind \cup ((made \cap disk) \ kept)
    BY DEF LeftBehind
  <2>4. LeftBehind \cap ((made \cap disk) \ kept) = {}
    BY DEF LeftBehind
  <2>5. Cardinality(disk \ kept) = Cardinality(LeftBehind) + Cardinality((made \cap disk) \ kept)
    <3>1. Cardinality(disk \ kept) = Cardinality(LeftBehind) + Cardinality((made \cap disk) \ kept) - Cardinality({})
      BY <1>2, <2>2, <2>3, <2>4, FS_Union
    <3>2. QED
      BY <1>2, <2>2, <3>1, FS_EmptySet
  <2>6. (runs - 1) * (logFileNum + 1) + (logFileNum + 1) = runs * (logFileNum + 1)
    BY <1>0
  <2>7. (runs - 1) * (logFileNum + 1) \in Int /\ runs * (logFileNum + 1) \in Int
    BY <1>0
  <2>8. QED
    BY <1>0, <1>2, <2>1, <2>2, <2>5, <2>6, <2>7
<1>5. QED
  BY <1>3, <1>4

LEMMA BehindStep == ASSUME LogInv, [Log!Next]_log PROVE BehindInv'
<1>0. Log!TypeOK /\ StepInv /\ BehindInv
  BY DEF LogInv
<1>1. CASE Log!InitLog
  <2>1. LeftBehind' = disk \ kept /\ runs' = runs + 1
    BY <1>1 DEF Log!InitLog, LeftBehind
  <2>2. runs \in Nat /\ logFileNum \in Nat /\ Cardinality(disk \ kept) <= runs * (logFileNum + 1)
    BY DiskShares
  <2>3. runs' # 0 /\ runs' - 1 = runs
    BY <2>1, <2>2
  <2>4. Cardinality(LeftBehind') <= (runs' - 1) * (logFileNum + 1)
    BY <2>1, <2>2, <2>3
  <2>5. QED
    BY <2>3, <2>4, LogNumber DEF BehindInv
<1>2. ASSUME LeftBehind' \subseteq LeftBehind, runs' = runs, runs = 0 => disk' = {} /\ pc' = "down"
      PROVE  BehindInv'
  <2>1. IsFiniteSet(LeftBehind) /\ Cardinality(LeftBehind) \in Nat /\ runs \in Nat /\ logFileNum \in Nat
    BY DiskShares
  <2>2. Cardinality(LeftBehind') <= Cardinality(LeftBehind) /\ Cardinality(LeftBehind') \in Nat
    BY <1>2, <2>1, FS_Subset, FS_CardinalityType
  <2>3. (IF runs = 0 THEN 0 ELSE runs - 1) * (logFileNum + 1) \in Int
    BY <2>1
  <2>4. QED
    BY <1>0, <1>2, <2>1, <2>2, <2>3, LogNumber DEF BehindInv
<1>3. CASE \/ Log!Fire \/ Log!Name \/ Log!List \/ Log!Redirect \/ Log!Arm \/ Log!Down
           \/ Log!Midnight \/ Log!SetBack \/ UNCHANGED log
  <2>1. UNCHANGED <<disk, made, kept, runs>>
    BY <1>3 DEF Log!Fire, Log!Name, Log!List, Log!Redirect, Log!Arm, Log!Down, Log!Midnight, Log!SetBack, log
  <2>2. pc = "down" => pc' = "down"
    BY <1>3 DEF Log!Fire, Log!Name, Log!List, Log!Redirect, Log!Arm, Log!Down, Log!Midnight, Log!SetBack, log
  <2>3. QED
    BY <1>0, <1>2, <2>1, <2>2 DEF LeftBehind, BehindInv
<1>4. CASE Log!Open
  <2>1. runs # 0
    BY <1>0, <1>4 DEF Log!Open, BehindInv
  <2>2. runs' = runs /\ disk' = disk \cup {logfile} /\ made' = made \cup {logfile} /\ kept' = kept \ {logfile}
    BY <1>4 DEF Log!Open
  <2>3. LeftBehind' \subseteq LeftBehind
    BY <2>2 DEF LeftBehind
  <2>4. QED
    BY <1>2, <2>1, <2>2, <2>3
<1>5. CASE Log!Trim
  <2>1. CASE UNCHANGED <<disk, kept, logFileChan>>
    BY <1>0, <1>2, <1>5, <2>1, TrimStep DEF LeftBehind, BehindInv
  <2>2. CASE logFileChan # <<>> /\ logFileChan' = Tail(logFileChan)
    <3>1. Head(logFileChan) \in made
      BY <1>0, <2>2, TailOf, LogTypes DEF StepInv
    <3>2. QED
      BY <1>0, <1>2, <1>5, <2>2, <3>1, TrimStep DEF LeftBehind, BehindInv
  <2>3. QED
    BY <1>5, <2>1, <2>2, TrimStep
<1>6. QED
  BY <1>1, <1>3, <1>4, <1>5 DEF Log!Next, Log!createLogFile

LEMMA OlderStep == ASSUME LogInv, [Log!Next]_log, backs' = 0 PROVE OlderInv' /\ DayInv'
<1> USE LogNumber, LogConstants DEF OlderInv, DayInv, Creating
<1>0. Log!TypeOK /\ StepInv
  BY DEF LogInv
<1>t. /\ logFileNum \in Nat /\ today \in Nat /\ backs \in Nat /\ logFileChan \in Seq(1 .. MaxDay) /\ Len(logFileChan) \in Nat
      /\ out \in Nat /\ logfile \in Nat /\ nextDay \in Nat /\ \A i \in 1 .. Len(logFileChan) : logFileChan[i] \in Nat
  BY <1>0, LogTypes
<1>1. CASE Log!InitLog
  BY <1>1 DEF Log!InitLog
<1>2. CASE Log!SetBack
  BY <1>2, <1>t DEF Log!SetBack
<1> SUFFICES ASSUME backs = 0, OlderInv, DayInv,
                    Log!Fire \/ Log!createLogFile \/ Log!Down \/ Log!Midnight \/ UNCHANGED log
             PROVE  OlderInv' /\ DayInv'
  <2>1. ~ Log!InitLog /\ ~ Log!SetBack => backs' = backs
    BY DEF Log!Next, Log!Fire, Log!createLogFile, Log!Name, Log!Open, Log!Trim, Log!List, Log!Redirect, Log!Arm,
           Log!Down, Log!Midnight, log
  <2>2. QED
    BY <1>1, <1>2, <2>1 DEF Log!Next, LogInv
<1>3. CASE Log!Fire
  BY <1>3, <1>t DEF Log!Fire, Log!IsDue, Log!Passed
<1>4. CASE Log!Name
  BY <1>4, <1>t DEF Log!Name
<1>5. CASE Log!Open
  BY <1>5, <1>t DEF Log!Open
<1>6. CASE Log!Trim
  <2>1. CASE UNCHANGED <<disk, kept, logFileChan>>
    BY <1>6, <2>1, TrimStep
  <2>2. CASE logFileChan # <<>> /\ logFileChan' = Tail(logFileChan)
    <3>1. /\ Len(logFileChan') = Len(logFileChan) - 1 /\ Len(logFileChan) > 0
          /\ Head(logFileChan) = logFileChan[1]
          /\ \A i \in 1 .. Len(logFileChan') : logFileChan'[i] = logFileChan[i + 1]
      BY <1>t, <2>2, TailOf
    <3>2. pc = "trim" /\ pc' = "list" /\ UNCHANGED <<today, out, logfile, nextDay>>
      BY <1>6, TrimStep
    <3>3. \A i \in 1 .. Len(logFileChan) : logFileChan[i] < logfile
      BY <3>2
    <3>4. logfile' \in disk'
      <4>1. Head(logFileChan) # logfile /\ logfile \in disk
        BY <1>t, <3>1, <3>2, <3>3
      <4>2. QED
        BY <1>6, <3>2, <4>1, TrimStep
    <3>5. out' # 0 => out' \in disk' \/ logFileNum = 1
      <4>1. ASSUME out # 0, logFileNum # 1 PROVE Head(logFileChan) # out /\ out \in disk
        <5>1. Len(logFileChan) >= logFileNum /\ Len(logFileChan) <= logFileNum
          BY <1>0, <1>6, <2>2, <1>t, LogTypes, TrimStep
        <5>2. Len(logFileChan) > 1
          BY <1>t, <3>1, <4>1, <5>1
        <5>3. logFileChan[1] < logFileChan[Len(logFileChan)]
          BY <1>t, <5>2
        <5>4. logFileChan[Len(logFileChan)] = out
          BY <1>0, <2>2, <3>2 DEF StepInv
        <5>5. out \in disk
          BY <3>2, <4>1
        <5>6. QED
          BY <1>t, <3>1, <5>2, <5>3, <5>4, <5>5
      <4>2. QED
        BY <1>6, <3>2, <4>1, TrimStep
    <3>6. ASSUME NEW i \in 1 .. Len(logFileChan') PROVE logFileChan'[i] < logfile'
      <4>1. i + 1 \in 1 .. Len(logFileChan)
        BY <1>t, <3>1
      <4>2. QED
        BY <3>1, <3>2, <3>3, <4>1
    <3>7. ASSUME NEW i \in 1 .. Len(logFileChan'), NEW j \in 1 .. Len(logFileChan'), i < j
          PROVE  logFileChan'[i] < logFileChan'[j]
      <4>1. i + 1 \in 1 .. Len(logFileChan) /\ j + 1 \in 1 .. Len(logFileChan) /\ i + 1 < j + 1
        BY <1>t, <3>1, <3>7
      <4>2. QED
        BY <3>1, <4>1
    <3>8. logfile \in {today, today - 1}
      BY <3>2
    <3>9. QED
      BY <3>2, <3>4, <3>5, <3>6, <3>7, <3>8
  <2>3. QED
    BY <1>6, <2>1, <2>2, TrimStep
<1>7. CASE Log!List
  <2>1. /\ logFileChan' = Append(logFileChan, logfile) /\ pc = "list" /\ pc' = "redirect"
        /\ UNCHANGED <<today, disk, out, logfile, nextDay>>
    BY <1>0, <1>7, <1>t DEF Log!List, StepInv
  <2>2. logfile <= today /\ \A i \in 1 .. Len(logFileChan) : logFileChan[i] < logfile
    BY <1>t, <2>1
  <2>3. /\ Len(logFileChan') = Len(logFileChan) + 1 /\ logFileChan'[Len(logFileChan) + 1] = logfile
        /\ \A i \in 1 .. Len(logFileChan) : logFileChan'[i] = logFileChan[i]
    BY <1>t, <2>1
  <2>4. \A i \in 1 .. Len(logFileChan') : logFileChan'[i] <= today'
    BY <1>t, <2>1, <2>2, <2>3
  <2>5. ASSUME NEW i \in 1 .. Len(logFileChan'), NEW j \in 1 .. Len(logFileChan'), i < j
        PROVE  logFileChan'[i] < logFileChan'[j]
    <3>1. i \in 1 .. Len(logFileChan)
      BY <1>t, <2>3, <2>5
    <3>2. CASE j \in 1 .. Len(logFileChan)
      BY <2>3, <2>5, <3>1, <3>2
    <3>3. CASE j = Len(logFileChan) + 1
      BY <2>2, <2>3, <3>1, <3>3
    <3>4. QED
      BY <1>t, <2>3, <3>2, <3>3
  <2>6. QED
    BY <2>1, <2>4, <2>5
<1>r. CASE Log!Redirect
  BY <1>r, <1>t DEF Log!Redirect
<1>8. CASE Log!Arm
  <2>1. pc = "arm" /\ pc' = "idle" /\ nextDay' = today + 1 /\ UNCHANGED <<today, disk, out, logfile, logFileChan>>
    BY <1>8, <1>t DEF Log!Arm, Log!Following, Log!Passed
  <2>2. out = logfile
    BY <1>0, <2>1 DEF StepInv, Switched
  <2>3. logfile \in {today, today - 1} /\ logfile \in disk
    BY <2>1 DEF DayInv, Creating
  <2>4. DayInv'
    BY <1>t, <2>1, <2>2, <2>3 DEF DayInv, Creating
  <2>5. OlderInv'
    <3>1. ASSUME NEW i \in 1 .. Len(logFileChan) PROVE logFileChan[i] < nextDay'
      <4>1. logFileChan[i] <= today /\ logFileChan[i] \in Nat
        <5>1. logFileChan[i] \in Nat
          BY <1>t
        <5>2. pc = "arm"
          BY <2>1
        <5>3. logFileChan[i] <= today
          BY <5>2
        <5>4. QED
          BY <5>1, <5>3
      <4>2. QED
        BY <1>t, <2>1, <4>1
    <3>2. \A i, j \in 1 .. Len(logFileChan) : i < j => logFileChan[i] < logFileChan[j]
      BY DEF OlderInv
    <3>3. QED
      BY <2>1, <3>1, <3>2 DEF OlderInv
  <2>6. QED
    BY <2>4, <2>5
<1>9. CASE Log!Down
  BY <1>9 DEF Log!Down
<1>10. CASE Log!Midnight
  BY <1>10, <1>t DEF Log!Midnight, Log!IsDue, Log!Passed
<1>11. CASE UNCHANGED log
  BY <1>11 DEF log
<1>12. QED
  BY <1>3, <1>4, <1>5, <1>6, <1>7, <1>r, <1>8, <1>9, <1>10, <1>11 DEF Log!createLogFile

LEMMA LogSets ==
  ASSUME NEW S
  PROVE  Log!Cardinality(S) = Cardinality(S)
BY DEF Log!Cardinality, Cardinality, Log!IsFiniteSet, IsFiniteSet

LEMMA LogInvImplies ==
  ASSUME LogInv
  PROVE  /\ Log!TypeOK /\ Log!RoomIsMade /\ Log!CurrentKept
         /\ Log!FilesBounded /\ Log!DiskBounded /\ Log!FileOfTheDay
<1>0. Log!TypeOK /\ StepInv /\ ListedInv /\ (backs = 0 => OlderInv /\ DayInv)
  BY DEF LogInv
<1>t. /\ today \in Nat /\ logFileChan \in Seq(1 .. MaxDay) /\ Len(logFileChan) \in Nat /\ Len(logFileChan) <= logFileNum
      /\ logFileNum \in Nat /\ out \in Nat /\ logfile \in Nat /\ nextDay \in Nat
  BY <1>0, LogTypes, LogConstants
<1>1. Log!RoomIsMade
  BY <1>0, <1>t DEF Log!RoomIsMade, Log!IsFull, StepInv
<1>2. Log!CurrentKept
  BY <1>0, LogConstants DEF Log!CurrentKept, DayInv
<1>3. Log!FilesBounded
  <2>1. ASSUME pc = "idle" PROVE (made \cap disk) \ kept \subseteq Log!ToSet(logFileChan)
    BY <1>0, <2>1 DEF ListedInv, Listed
  <2>2. QED
    BY <2>1, ShareOf, LogSets DEF Log!FilesBounded
<1>4. Log!DiskBounded
  BY DiskShares, LogSets DEF Log!DiskBounded
<1>5. Log!FileOfTheDay
  BY <1>0, <1>t, LogConstants DEF Log!FileOfTheDay, Log!IsDue, Log!Passed, DayInv, StepInv
<1>6. QED
  BY <1>0, <1>1, <1>2, <1>3, <1>4, <1>5

LEMMA LogStep == ASSUME LogInv, [Log!Next]_log PROVE LogInv'
<1>1. Log!TypeOK' /\ StepInv' /\ ListedInv' /\ BehindInv'
  BY LogTypeStep, StepInvStep, ListedStep, BehindStep
<1>2. QED
  BY <1>1, OlderStep DEF LogInv

(* mylog.go:88-153: with one file or any other number of them, any number  *)
(* of days, restarts at any step and failed removals, createLogFile finds  *)
(* room; the disk keeps no more of a run than logFileNum + 1 files and     *)
(* those that could not be removed.  While the clock is not set back lines *)
(* go to a file that is there, unless logFileNum is 1 and the next file is *)
(* just being listed, and to that of the day.                              *)
THEOREM LogFilesCorrect == MCSpec => []LogFiles
<1> DEFINE I == part = "log" => LogInv
<1>1. MCInit => I
  BY LogInit DEF MCInit
<1>2. I /\ [MCNext]_<<part, wheel, log, ring>> => I'
  <2> SUFFICES ASSUME I, [MCNext]_<<part, wheel, log, ring>>, part' = "log" PROVE LogInv'
    BY DEF I
  <2>1. part = "log" /\ [Log!Next]_log
    BY DEF MCNext
  <2>2. QED
    BY <2>1, LogStep DEF I
<1>3. I => LogFiles
  BY LogInvImplies DEF LogFiles
<1>4. QED
  BY <1>1, <1>2, <1>3, PTL DEF MCSpec
-----------------------------------------------------------------------------
(* The ring, for any set G of getters.  Where a buffer is is counted: each *)
(* step takes it from one place to another.  As every buffer is in one     *)
(* place the ring never fills up, and as the two ends follow each other    *)
(* the slots between them are those that were filled last.                 *)

RingSize == Cardinality(Bufs) + 1
Succ(i) == IF i = RingSize - 1 THEN 0 ELSE i + 1
Between(x, y) == {i \in 0 .. RingSize - 1 : IF x <= y THEN x <= i /\ i < y ELSE i >= x \/ i < y}

SlotsOf(b) == {i \in Between(r, w) : buf[i] = b}
ReadersOf(G, b) == {g \in G : at[g] = "read" /\ buf[slot[g]] = b}
GettersOf(G, b) == {g \in G : got[g] = b}
Users(b) == IF hands[b] > 0 THEN 1 ELSE 0

PlacesOf(G, b) ==
  Cardinality(SlotsOf(b)) + Cardinality(ReadersOf(G, b)) + Cardinality(GettersOf(G, b)) + Users(b) + putting[b]

RingTypes(G) ==
  /\ r \in 0 .. RingSize - 1 /\ w \in 0 .. RingSize - 1 /\ buf \in [0 .. RingSize - 1 -> Bufs \cup {Nobody}]
  /\ ref \in [Bufs -> 0 .. MaxHold] /\ hands = ref
  /\ at \in [G -> {"idle", "read", "hold"}] /\ slot \in [G -> 0 .. RingSize - 1]
  /\ got \in [G -> Bufs \cup {Nobody}] /\ putting \in [Bufs -> 0 .. 1]
  /\ dropped = {} /\ overtaken \in BOOLEAN

(* No slot that is to be read is empty; the slot of a lone getter is the   *)
(* one before the end r, which a put does not reach.                       *)
RingHolds(G) ==
  /\ \A i \in Between(r, w) : buf[i] \in Bufs
  /\ \A g \in G : at[g] = "read" => buf[slot[g]] \in Bufs
  /\ \A g \in G : got[g] \in Bufs <=> at[g] = "hold"
  /\ Cardinality(G) = 1 => \A g \in G : at[g] = "read" => Succ(slot[g]) = r

RingInv(G) == RingTypes(G) /\ RingHolds(G) /\ \A b \in Bufs : PlacesOf(G, b) = 1

Undisturbed(G) == Cardinality(G) = 1 \/ ~ overtaken

LEMMA RingConstants ==
  /\ IsFiniteSet(Bufs) /\ Nobody \notin Bufs /\ MaxHold \in Nat \ {0}
  /\ Cardinality(Bufs) \in Nat /\ RingSize \in Nat \ {0} /\ IsFiniteSet(One) /\ IsFiniteSet(Two)
  /\ Cardinality(One) = 1
<1>1. Ring(One)!IsFiniteSet(Bufs) /\ Ring(One)!IsFiniteSet(One) /\ Ring(Two)!IsFiniteSet(Two)
      /\ Nobody \notin Bufs /\ MaxHold \in Nat \ {0} /\ Cardinality(One) = 1
  BY HelpersAssumption DEF Ring!RingBufferAssumption
<1>2. IsFiniteSet(Bufs) /\ IsFiniteSet(One) /\ IsFiniteSet(Two)
  BY <1>1 DEF Ring!IsFiniteSet, IsFiniteSet
<1>3. QED
  BY <1>1, <1>2, FS_CardinalityType DEF RingSize

LEMMA SuccIs ==
  ASSUME NEW i \in 0 .. RingSize - 1
  PROVE  (i + 1) % RingSize = Succ(i) /\ Succ(i) \in 0 .. RingSize - 1
<1>1. RingSize \in Nat \ {0}
  BY RingConstants
<1> HIDE DEF RingSize
<1>2. CASE i = RingSize - 1
  <2>1. i + 1 = RingSize
    BY <1>1, <1>2
  <2>2. RingSize % RingSize = 0
    BY <1>1
  <2>3. QED
    BY <1>1, <1>2, <2>1, <2>2 DEF Succ
<1>3. CASE i # RingSize - 1
  <2>1. i + 1 \in 0 .. RingSize - 1
    BY <1>1, <1>3
  <2>2. (i + 1) % RingSize = i + 1
    BY <1>1, <2>1
  <2>3. QED
    BY <1>3, <2>1, <2>2 DEF Succ
<1>4. QED
  BY <1>2, <1>3

(* The names of the instance. *)
LEMMA RingNames ==
  ASSUME NEW G
  PROVE  /\ \A S : Ring(G)!Cardinality(S) = Cardinality(S)
         /\ Ring(G)!count = RingSize /\ Ring(G)!Slots = 0 .. RingSize - 1
         /\ Ring(G)!Filled = Between(r, w)
         /\ \A b : Ring(G)!Places(b) = PlacesOf(G, b)
         /\ Ring(G)!Safe <=> Undisturbed(G)
<1>1. \A S : Ring(G)!Cardinality(S) = Cardinality(S)
  BY DEF Ring!Cardinality, Cardinality, Ring!IsFiniteSet, IsFiniteSet
<1>2. Ring(G)!count = RingSize
  BY <1>1 DEF Ring!count, RingSize
<1>3. Ring(G)!Slots = 0 .. RingSize - 1
  BY <1>2 DEF Ring!Slots
<1>4. Ring(G)!Filled = Between(r, w)
  BY <1>3 DEF Ring!Filled, Between
<1>5. ASSUME NEW b PROVE Ring(G)!Places(b) = PlacesOf(G, b)
  BY <1>1, <1>4 DEF Ring!Places, PlacesOf, SlotsOf, ReadersOf, GettersOf, Users
<1>6. Ring(G)!Safe <=> Undisturbed(G)
  BY <1>1 DEF Ring!Safe, Undisturbed
<1>7. QED
  BY <1>1, <1>2, <1>3, <1>4, <1>5, <1>6

(* The slots between the ends, when an end moves. *)
LEMMA TakeFirst ==
  ASSUME NEW x \in 0 .. RingSize - 1, NEW y \in 0 .. RingSize - 1, x # y
  PROVE  x \in Between(x, y) /\ Between(Succ(x), y) = Between(x, y) \ {x}
<1>1. RingSize \in Nat \ {0}
  BY RingConstants
<1> HIDE DEF RingSize
<1>2. x \in Between(x, y)
  BY <1>1 DEF Between
<1>3. ASSUME NEW i \in 0 .. RingSize - 1 PROVE i \in Between(Succ(x), y) <=> i \in Between(x, y) /\ i # x
  BY <1>1 DEF Between, Succ
<1>4. QED
  BY <1>2, <1>3 DEF Between

LEMMA PutLast ==
  ASSUME NEW x \in 0 .. RingSize - 1, NEW y \in 0 .. RingSize - 1, Succ(y) # x
  PROVE  y \notin Between(x, y) /\ Between(x, Succ(y)) = Between(x, y) \cup {y}
<1>1. RingSize \in Nat \ {0}
  BY RingConstants
<1> HIDE DEF RingSize
<1>2. y \notin Between(x, y)
  BY <1>1 DEF Between
<1>3. ASSUME NEW i \in 0 .. RingSize - 1 PROVE i \in Between(x, Succ(y)) <=> i \in Between(x, y) \/ i = y
  BY <1>1 DEF Between, Succ
<1>4. QED
  BY <1>2, <1>3 DEF Between

LEMMA AllButOne ==
  ASSUME NEW y \in 0 .. RingSize - 1
  PROVE  Between(Succ(y), y) = (0 .. RingSize - 1) \ {y}
<1>1. RingSize \in Nat \ {0}
  BY RingConstants
<1> HIDE DEF RingSize
<1>2. ASSUME NEW i \in 0 .. RingSize - 1 PROVE i \in Between(Succ(y), y) <=> i # y
  BY <1>1 DEF Between, Succ
<1>3. QED
  BY <1>2 DEF Between

LEMMA CountsNat ==
  ASSUME NEW G, IsFiniteSet(G), RingTypes(G), NEW b \in Bufs
  PROVE  /\ IsFiniteSet(SlotsOf(b)) /\ IsFiniteSet(ReadersOf(G, b)) /\ IsFiniteSet(GettersOf(G, b))
         /\ Cardinality(SlotsOf(b)) \in Nat /\ Cardinality(ReadersOf(G, b)) \in Nat
         /\ Cardinality(GettersOf(G, b)) \in Nat /\ Users(b) \in 0 .. 1 /\ putting[b] \in 0 .. 1
<1>1. IsFiniteSet(0 .. RingSize - 1)
  BY RingConstants, FS_Interval
<1>2. IsFiniteSet(SlotsOf(b))
  BY <1>1, FS_Subset DEF SlotsOf, Between
<1>3. IsFiniteSet(ReadersOf(G, b)) /\ IsFiniteSet(GettersOf(G, b))
  BY FS_Subset DEF ReadersOf, GettersOf
<1>4. QED
  BY <1>2, <1>3, FS_CardinalityType DEF Users, RingTypes

LEMMA SameSet == ASSUME NEW S, NEW T, \A x : x \in S <=> x \in T PROVE S = T
OBVIOUS

LEMMA AddOne ==
  ASSUME NEW S, NEW x, IsFiniteSet(S), x \notin S, Cardinality(S) \in Nat
  PROVE  Cardinality(S \cup {x}) = Cardinality(S) + 1
BY FS_AddElement

LEMMA TakeOne ==
  ASSUME NEW S, NEW x, IsFiniteSet(S), x \in S, Cardinality(S) \in Nat
  PROVE  Cardinality(S \ {x}) = Cardinality(S) - 1
BY FS_RemoveElement

(* A set with an element counts.                                           *)
LEMMA HasOne ==
  ASSUME NEW S, NEW x \in S, IsFiniteSet(S)
  PROVE  Cardinality(S) \in Nat /\ Cardinality(S) >= 1
<1>1. Cardinality(S) \in Nat /\ Cardinality(S) # 0
  BY FS_CardinalityType, FS_EmptySet
<1>2. QED
  BY <1>1

LEMMA TakeSlotStep ==
  ASSUME NEW G, IsFiniteSet(G), RingInv(G), NEW g \in G, Ring(G)!TakeSlot(g)
  PROVE  RingInv(G)'
<1>1. /\ at[g] = "idle" /\ r # w /\ slot' = [slot EXCEPT ![g] = r] /\ r' = Succ(r)
      /\ at' = [at EXCEPT ![g] = "read"]
      /\ UNCHANGED <<w, buf, ref, got, hands, putting, dropped, overtaken>>
  BY RingNames, SuccIs DEF Ring!TakeSlot, Ring!MayTake, Ring!Following, RingInv, RingTypes
<1>2. RingTypes(G) /\ RingHolds(G)
  BY DEF RingInv
<1>3. r \in Between(r, w) /\ Between(r', w) = Between(r, w) \ {r}
  BY <1>1, <1>2, TakeFirst DEF RingTypes
<1>4. RingTypes(G)'
  BY <1>1, <1>2, SuccIs DEF RingTypes
<1>5. /\ \A h \in G \ {g} : at'[h] = at[h] /\ slot'[h] = slot[h]
      /\ at'[g] = "read" /\ slot'[g] = r
  BY <1>1, <1>2 DEF RingTypes
<1>6. RingHolds(G)'
  <2>1. \A i \in Between(r', w') : buf'[i] \in Bufs
    BY <1>1, <1>2, <1>3 DEF RingHolds
  <2>2. \A h \in G : at'[h] = "read" => buf'[slot'[h]] \in Bufs
    BY <1>1, <1>2, <1>3, <1>5 DEF RingHolds
  <2>3. \A h \in G : got'[h] \in Bufs <=> at'[h] = "hold"
    BY <1>1, <1>2, <1>5 DEF RingHolds
  <2>4. ASSUME Cardinality(G) = 1, NEW h \in G, at'[h] = "read" PROVE Succ(slot'[h]) = r'
    <3>1. h = g
      BY <2>4, FS_Singleton
    <3>2. QED
      BY <1>1, <1>5, <3>1
  <2>5. QED
    BY <2>1, <2>2, <2>3, <2>4 DEF RingHolds, Succ
<1>7. ASSUME NEW b \in Bufs PROVE PlacesOf(G, b)' = 1
  <2>0. PlacesOf(G, b) = 1
    BY DEF RingInv
  <2>1. GettersOf(G, b)' = GettersOf(G, b) /\ Users(b)' = Users(b) /\ putting'[b] = putting[b]
    BY <1>1 DEF GettersOf, Users
  <2>2. CASE buf[r] = b
    <3>1. r \in SlotsOf(b) /\ SlotsOf(b)' = SlotsOf(b) \ {r}
      BY <1>1, <1>3, <2>2 DEF SlotsOf
    <3>2. g \notin ReadersOf(G, b) /\ ReadersOf(G, b)' = ReadersOf(G, b) \cup {g}
      BY <1>1, <1>5, <2>2 DEF ReadersOf
    <3>3. /\ Cardinality(SlotsOf(b) \ {r}) = Cardinality(SlotsOf(b)) - 1
          /\ Cardinality(ReadersOf(G, b) \cup {g}) = Cardinality(ReadersOf(G, b)) + 1
      BY <1>2, <3>1, <3>2, CountsNat, TakeOne, AddOne
    <3>4. QED
      BY <1>2, <2>0, <2>1, <3>1, <3>2, <3>3, CountsNat DEF PlacesOf
  <2>3. CASE buf[r] # b
    <3>1. SlotsOf(b)' = SlotsOf(b)
      BY <1>1, <1>3, <2>3 DEF SlotsOf
    <3>2. ReadersOf(G, b)' = ReadersOf(G, b)
      BY <1>1, <1>5, <2>3 DEF ReadersOf
    <3>3. QED
      BY <2>0, <2>1, <3>1, <3>2 DEF PlacesOf
  <2>4. QED
    BY <2>2, <2>3
<1>8. QED
  BY <1>4, <1>6, <1>7 DEF RingInv

LEMMA ReadSlotStep ==
  ASSUME NEW G, IsFiniteSet(G), RingInv(G), NEW g \in G, Ring(G)!ReadSlot(g)
  PROVE  RingInv(G)'
<1>1. /\ at[g] = "read" /\ got' = [got EXCEPT ![g] = buf[slot[g]]] /\ at' = [at EXCEPT ![g] = "hold"]
      /\ UNCHANGED <<r, w, buf, ref, slot, hands, putting, dropped, overtaken>>
  BY DEF Ring!ReadSlot
<1>2. RingTypes(G) /\ RingHolds(G)
  BY DEF RingInv
<1>3. buf[slot[g]] \in Bufs
  BY <1>1, <1>2 DEF RingHolds
<1>4. RingTypes(G)'
  BY <1>1, <1>2, <1>3 DEF RingTypes
<1>5. /\ \A h \in G \ {g} : at'[h] = at[h] /\ got'[h] = got[h]
      /\ at'[g] = "hold" /\ got'[g] = buf[slot[g]]
  BY <1>1, <1>2 DEF RingTypes
<1>6. RingHolds(G)'
  <2>1. \A h \in G : got'[h] \in Bufs <=> at'[h] = "hold"
    BY <1>2, <1>3, <1>5 DEF RingHolds
  <2>2. \A h \in G : at'[h] = "read" => at[h] = "read"
    BY <1>5
  <2>3. QED
    BY <1>1, <1>2, <2>1, <2>2 DEF RingHolds, Succ
<1>7. ASSUME NEW b \in Bufs PROVE PlacesOf(G, b)' = 1
  <2>0. PlacesOf(G, b) = 1
    BY DEF RingInv
  <2>1. SlotsOf(b)' = SlotsOf(b) /\ Users(b)' = Users(b) /\ putting'[b] = putting[b]
    BY <1>1 DEF SlotsOf, Users
  <2>2. got[g] \notin Bufs
    BY <1>1, <1>2 DEF RingHolds
  <2>3. CASE buf[slot[g]] = b
    <3>1. g \in ReadersOf(G, b) /\ ReadersOf(G, b)' = ReadersOf(G, b) \ {g}
      BY <1>1, <1>5, <2>3 DEF ReadersOf
    <3>2. g \notin GettersOf(G, b) /\ GettersOf(G, b)' = GettersOf(G, b) \cup {g}
      BY <1>5, <2>2, <2>3 DEF GettersOf
    <3>3. /\ Cardinality(ReadersOf(G, b) \ {g}) = Cardinality(ReadersOf(G, b)) - 1
          /\ Cardinality(GettersOf(G, b) \cup {g}) = Cardinality(GettersOf(G, b)) + 1
      BY <1>2, <3>1, <3>2, CountsNat, TakeOne, AddOne
    <3>4. QED
      BY <1>2, <2>0, <2>1, <3>1, <3>2, <3>3, CountsNat DEF PlacesOf
  <2>4. CASE buf[slot[g]] # b
    <3>1. ReadersOf(G, b)' = ReadersOf(G, b)
      BY <1>1, <1>5, <2>4 DEF ReadersOf
    <3>2. GettersOf(G, b)' = GettersOf(G, b)
      BY <1>5, <2>2, <2>4 DEF GettersOf
    <3>3. QED
      BY <2>0, <2>1, <3>1, <3>2 DEF PlacesOf
  <2>5. QED
    BY <2>3, <2>4
<1>8. QED
  BY <1>4, <1>6, <1>7 DEF RingInv

LEMMA HoldGotStep ==
  ASSUME NEW G, IsFiniteSet(G), RingInv(G), NEW g \in G, Ring(G)!HoldGot(g)
  PROVE  RingInv(G)'
<1> DEFINE c == got[g]
<1>1. /\ at[g] = "hold" /\ ref' = [ref EXCEPT ![c] = @ + 1] /\ hands' = [hands EXCEPT ![c] = @ + 1]
      /\ at' = [at EXCEPT ![g] = "idle"] /\ got' = [got EXCEPT ![g] = Nobody]
      /\ UNCHANGED <<r, w, buf, slot, putting, dropped, overtaken>>
  BY DEF Ring!HoldGot
<1>2. RingTypes(G) /\ RingHolds(G)
  BY DEF RingInv
<1>3. c \in Bufs /\ Nobody \notin Bufs
  BY <1>1, <1>2, RingConstants DEF RingHolds
<1>4. g \in GettersOf(G, c) /\ Cardinality(GettersOf(G, c)) >= 1
  <2>1. g \in GettersOf(G, c)
    BY DEF GettersOf
  <2>2. QED
    BY <1>2, <1>3, <2>1, CountsNat, HasOne
<1>5. Users(c) = 0
  BY <1>2, <1>3, <1>4, CountsNat DEF RingInv, PlacesOf
<1>6. hands[c] = 0 /\ ref[c] = 0
  BY <1>2, <1>3, <1>5, RingConstants DEF Users, RingTypes
<1>7. RingTypes(G)'
  BY <1>1, <1>2, <1>3, <1>6, RingConstants DEF RingTypes
<1>8. /\ \A h \in G \ {g} : at'[h] = at[h] /\ got'[h] = got[h]
      /\ at'[g] = "idle" /\ got'[g] = Nobody
      /\ \A b \in Bufs \ {c} : hands'[b] = hands[b]
      /\ hands'[c] = 1
  BY <1>1, <1>2, <1>3, <1>6 DEF RingTypes
<1>9. RingHolds(G)'
  <2>1. \A h \in G : got'[h] \in Bufs <=> at'[h] = "hold"
    BY <1>2, <1>3, <1>8 DEF RingHolds
  <2>2. \A h \in G : at'[h] = "read" => at[h] = "read"
    BY <1>8
  <2>3. QED
    BY <1>1, <1>2, <2>1, <2>2 DEF RingHolds, Succ
<1>10. ASSUME NEW b \in Bufs PROVE PlacesOf(G, b)' = 1
  <2>0. PlacesOf(G, b) = 1
    BY DEF RingInv
  <2>1. SlotsOf(b)' = SlotsOf(b) /\ putting'[b] = putting[b]
    BY <1>1 DEF SlotsOf
  <2>2. ReadersOf(G, b)' = ReadersOf(G, b)
    BY <1>1, <1>8 DEF ReadersOf
  <2>3. CASE b = c
    <3>1. GettersOf(G, b)' = GettersOf(G, b) \ {g} /\ Users(b)' = 1
      BY <1>3, <1>8, <2>3 DEF GettersOf, Users
    <3>2. Cardinality(GettersOf(G, b) \ {g}) = Cardinality(GettersOf(G, b)) - 1
      BY <1>2, <1>4, <2>3, CountsNat, TakeOne
    <3>3. QED
      BY <1>2, <1>5, <2>0, <2>1, <2>2, <2>3, <3>1, <3>2, CountsNat DEF PlacesOf
  <2>4. CASE b # c
    <3>1. GettersOf(G, b)' = GettersOf(G, b) /\ Users(b)' = Users(b)
      BY <1>3, <1>8, <2>4 DEF GettersOf, Users
    <3>2. QED
      BY <2>0, <2>1, <2>2, <3>1 DEF PlacesOf
  <2>5. QED
    BY <2>3, <2>4
<1>11. QED
  BY <1>7, <1>9, <1>10 DEF RingInv

(* A user's step: only the references of one buffer, and whether it is on  *)
(* its way back.                                                           *)
LEMMA UserStep ==
  ASSUME NEW G, IsFiniteSet(G), RingInv(G), NEW b \in Bufs, Ring(G)!HoldPktBuf(b) \/ Ring(G)!PutBuf(b)
  PROVE  RingInv(G)'
<1>1. UNCHANGED <<r, w, buf, at, slot, got, dropped, overtaken>>
  BY DEF Ring!HoldPktBuf, Ring!PutBuf
<1>2. RingTypes(G) /\ RingHolds(G)
  BY DEF RingInv
<1>3. /\ hands = ref /\ ref \in [Bufs -> 0 .. MaxHold] /\ putting \in [Bufs -> 0 .. 1] /\ MaxHold \in Nat
      /\ hands[b] > 0
  BY <1>2, RingConstants DEF RingTypes, Ring!HoldPktBuf, Ring!PutBuf
<1>4. /\ hands' = ref' /\ ref' \in [Bufs -> 0 .. MaxHold] /\ putting' \in [Bufs -> 0 .. 1]
      /\ \A c \in Bufs : Users(c)' + putting'[c] = Users(c) + putting[c]
  <2>1. CASE Ring(G)!HoldPktBuf(b)
    <3>1. /\ ref' = [ref EXCEPT ![b] = @ + 1] /\ hands' = [hands EXCEPT ![b] = @ + 1] /\ ref[b] < MaxHold
          /\ putting' = putting
      BY <2>1 DEF Ring!HoldPktBuf
    <3>2. hands' = ref' /\ ref' \in [Bufs -> 0 .. MaxHold]
      BY <1>3, <3>1
    <3>3. \A c \in Bufs : Users(c)' = Users(c)
      BY <1>3, <3>1 DEF Users
    <3>4. QED
      BY <1>3, <3>1, <3>2, <3>3
  <2>2. CASE Ring(G)!PutBuf(b)
    <3>1. /\ ref' = [ref EXCEPT ![b] = @ - 1] /\ hands' = [hands EXCEPT ![b] = @ - 1]
          /\ putting' = [putting EXCEPT ![b] = IF ref'[b] = 0 THEN @ + 1 ELSE @]
      BY <2>2 DEF Ring!PutBuf, Ring!IsLast
    <3>2. hands' = ref' /\ ref' \in [Bufs -> 0 .. MaxHold]
      BY <1>3, <3>1
    <3>3. \A c \in Bufs \ {b} : Users(c)' = Users(c) /\ putting'[c] = putting[c]
      BY <1>3, <3>1 DEF Users
    <3>4. putting[b] = 0
      <4>1. /\ Cardinality(SlotsOf(b)) \in Nat /\ Cardinality(ReadersOf(G, b)) \in Nat
            /\ Cardinality(GettersOf(G, b)) \in Nat /\ Users(b) = 1 /\ PlacesOf(G, b) = 1
        BY <1>3, CountsNat, <1>2 DEF Users, RingInv
      <4>2. QED
        BY <1>3, <4>1 DEF PlacesOf
    <3>5. CASE ref[b] = 1
      <4>1. ref'[b] = 0 /\ hands'[b] = 0 /\ putting'[b] = 1 /\ Users(b)' = 0 /\ Users(b) = 1
        BY <1>3, <3>1, <3>4, <3>5 DEF Users
      <4>2. putting' \in [Bufs -> 0 .. 1]
        BY <1>3, <3>1, <3>4
      <4>3. QED
        BY <3>2, <3>3, <3>4, <4>1, <4>2
    <3>6. CASE ref[b] # 1
      <4>1. ref'[b] # 0 /\ hands'[b] > 0
        BY <1>3, <3>1, <3>6
      <4>2. putting' = putting
        BY <1>3, <3>1, <4>1
      <4>3. Users(b)' = Users(b)
        BY <1>3, <4>1 DEF Users
      <4>4. QED
        BY <1>3, <3>2, <3>3, <4>2, <4>3
    <3>7. QED
      BY <3>5, <3>6
  <2>3. QED
    BY <2>1, <2>2
<1>5. RingTypes(G)'
  BY <1>1, <1>2, <1>4 DEF RingTypes
<1>6. RingHolds(G)'
  BY <1>1, <1>2 DEF RingHolds, Succ
<1>7. ASSUME NEW c \in Bufs PROVE PlacesOf(G, c)' = 1
  <2>1. SlotsOf(c)' = SlotsOf(c) /\ ReadersOf(G, c)' = ReadersOf(G, c) /\ GettersOf(G, c)' = GettersOf(G, c)
    BY <1>1 DEF SlotsOf, ReadersOf, GettersOf
  <2>2. PlacesOf(G, c) = 1 /\ Users(c)' + putting'[c] = Users(c) + putting[c]
    BY <1>4 DEF RingInv
  <2>3. /\ Users(c) \in Nat /\ Users(c)' \in Nat /\ putting[c] \in Nat /\ putting'[c] \in Nat
    BY <1>3, <1>4 DEF Users
  <2>4. QED
    BY <2>1, <2>2, <2>3, CountsNat, <1>2 DEF PlacesOf
<1>8. QED
  BY <1>5, <1>6, <1>7 DEF RingInv

(* Two slots that are to be read hold different buffers, and none of them  *)
(* one that is elsewhere.                                                  *)
LEMMA SlotsDiffer ==
  ASSUME NEW G, IsFiniteSet(G), RingInv(G), NEW i \in Between(r, w), NEW j \in Between(r, w), buf[i] = buf[j]
  PROVE  i = j /\ putting[buf[i]] = 0
<1> DEFINE b == buf[i]
<1>1. RingTypes(G) /\ b \in Bufs /\ PlacesOf(G, b) = 1
  BY DEF RingInv, RingHolds
<1>2. i \in SlotsOf(b) /\ j \in SlotsOf(b)
  BY DEF SlotsOf
<1>3. IsFiniteSet(SlotsOf(b)) /\ Cardinality(SlotsOf(b)) >= 1
  BY <1>1, <1>2, CountsNat, HasOne
<1>4. Cardinality(SlotsOf(b)) = 1 /\ putting[b] = 0
  BY <1>1, <1>3, CountsNat DEF PlacesOf
<1>5. QED
  BY <1>2, <1>3, <1>4, FS_Singleton

LEMMA RoomForAll ==
  ASSUME NEW G, IsFiniteSet(G), RingInv(G), NEW b \in Bufs, putting[b] > 0
  PROVE  Succ(w) # r
<1> SUFFICES ASSUME Succ(w) = r PROVE FALSE
  OBVIOUS
<1> DEFINE F == Between(r, w)
           f == [i \in F |-> buf[i]]
<1>1. RingTypes(G) /\ RingHolds(G)
  BY DEF RingInv
<1>2. F = (0 .. RingSize - 1) \ {w} /\ w \in 0 .. RingSize - 1
  BY <1>1, AllButOne DEF RingTypes
<1>3. IsFiniteSet(F) /\ Cardinality(F) = Cardinality(Bufs)
  <2>1. RingSize \in Nat \ {0} /\ RingSize = Cardinality(Bufs) + 1 /\ Cardinality(Bufs) \in Nat
    BY RingConstants DEF RingSize
  <2>2. IsFiniteSet(0 .. RingSize - 1) /\ Cardinality(0 .. RingSize - 1) = RingSize
    <3>1. 0 \in Int /\ RingSize - 1 \in Int
      BY <2>1
    <3>2. /\ IsFiniteSet(0 .. RingSize - 1)
          /\ Cardinality(0 .. RingSize - 1) = IF 0 > RingSize - 1 THEN 0 ELSE RingSize - 1 - 0 + 1
      BY <3>1, FS_Interval
    <3>3. QED
      BY <2>1, <3>2
  <2>3. /\ IsFiniteSet((0 .. RingSize - 1) \ {w})
        /\ Cardinality((0 .. RingSize - 1) \ {w}) = Cardinality(0 .. RingSize - 1) - 1
    BY <1>2, <2>2, FS_RemoveElement
  <2>4. QED
    BY <1>2, <2>1, <2>2, <2>3
<1>4. IsFiniteSet(Bufs \ {b}) /\ Cardinality(Bufs \ {b}) = Cardinality(Bufs) - 1 /\ Cardinality(Bufs) \in Nat
  BY RingConstants, FS_RemoveElement
<1>5. f \in [F -> Bufs \ {b}]
  <2>1. ASSUME NEW i \in F PROVE buf[i] \in Bufs \ {b}
    <3>1. putting[buf[i]] = 0
      BY <2>1, SlotsDiffer
    <3>2. QED
      BY <1>1, <2>1, <3>1 DEF RingHolds
  <2>2. QED
    BY <2>1
<1>6. PICK i \in F, j \in F : i # j /\ f[i] = f[j]
  <2>1. Cardinality(Bufs \ {b}) < Cardinality(F)
    BY <1>3, <1>4
  <2>2. \E x, y \in F : x # y /\ f[x] = f[y]
    <3> HIDE DEF F, f
    <3>1. QED
      BY <1>3, <1>4, <1>5, <2>1, FS_PigeonHole
  <2>3. QED
    BY <2>2
<1>7. QED
  BY <1>6, SlotsDiffer

LEMMA RBPutBufStep ==
  ASSUME NEW G, IsFiniteSet(G), RingInv(G), Undisturbed(G)', NEW b \in Bufs, Ring(G)!RBPutBuf(b)
  PROVE  RingInv(G)'
<1>0. RingTypes(G) /\ RingHolds(G)
  BY DEF RingInv
<1>1. Succ(w) # r /\ putting[b] = 1
  BY <1>0, RoomForAll DEF Ring!RBPutBuf, RingTypes
<1>2. /\ putting' = [putting EXCEPT ![b] = @ - 1]
      /\ buf' = [buf EXCEPT ![w] = b] /\ w' = Succ(w)
      /\ overtaken' = (overtaken \/ \E g \in G : at[g] = "read" /\ slot[g] = w)
      /\ UNCHANGED <<r, ref, at, slot, got, hands, dropped>>
  BY <1>0, <1>1, RingNames, SuccIs DEF Ring!RBPutBuf, Ring!IsFull, Ring!Following, RingTypes
<1>3. w \notin Between(r, w) /\ Between(r, w') = Between(r, w) \cup {w}
  BY <1>0, <1>1, <1>2, PutLast DEF RingTypes
<1>4. buf'[w] = b /\ \A i \in (0 .. RingSize - 1) \ {w} : buf'[i] = buf[i]
  BY <1>0, <1>2 DEF RingTypes
<1>5. putting'[b] = 0 /\ \A c \in Bufs \ {b} : putting'[c] = putting[c]
  BY <1>0, <1>1, <1>2 DEF RingTypes
<1>6. ASSUME NEW g \in G, at[g] = "read" PROVE slot[g] # w /\ buf'[slot[g]] = buf[slot[g]]
  <2>1. slot[g] # w
    <3>1. CASE Cardinality(G) = 1
      BY <1>0, <1>1, <1>6, <3>1 DEF RingHolds
    <3>2. CASE ~ overtaken'
      BY <1>2, <1>6, <3>2
    <3>3. QED
      BY <3>1, <3>2 DEF Undisturbed
  <2>2. QED
    BY <1>0, <1>4, <2>1 DEF RingTypes
<1>7. RingTypes(G)'
  <2>1. putting' \in [Bufs -> 0 .. 1] /\ buf' \in [0 .. RingSize - 1 -> Bufs \cup {Nobody}]
    BY <1>0, <1>1, <1>2 DEF RingTypes
  <2>2. w' \in 0 .. RingSize - 1 /\ overtaken' \in BOOLEAN
    BY <1>0, <1>2, SuccIs DEF RingTypes
  <2>3. QED
    BY <1>0, <1>2, <2>1, <2>2 DEF RingTypes
<1>8. RingHolds(G)'
  <2>1. ASSUME NEW i \in Between(r, w') PROVE buf'[i] \in Bufs
    <3>1. CASE i = w
      BY <1>4, <3>1
    <3>2. CASE i # w
      BY <1>0, <1>3, <1>4, <2>1, <3>2 DEF RingHolds, Between
    <3>3. QED
      BY <3>1, <3>2
  <2>2. \A g \in G : at'[g] = "read" => buf'[slot'[g]] \in Bufs
    BY <1>0, <1>2, <1>6 DEF RingHolds
  <2>3. QED
    BY <1>0, <1>2, <2>1, <2>2 DEF RingHolds, Succ
<1>9. ASSUME NEW c \in Bufs PROVE PlacesOf(G, c)' = 1
  <2>0. PlacesOf(G, c) = 1
    BY DEF RingInv
  <2>1. GettersOf(G, c)' = GettersOf(G, c) /\ Users(c)' = Users(c)
    BY <1>2 DEF GettersOf, Users
  <2>2. ReadersOf(G, c)' = ReadersOf(G, c)
    BY <1>2, <1>6 DEF ReadersOf
  <2>3. CASE c = b
    <3>1. w \notin SlotsOf(c) /\ SlotsOf(c)' = SlotsOf(c) \cup {w}
      <4>1. w \notin SlotsOf(c)
        BY <1>3 DEF SlotsOf
      <4>2. ASSUME NEW i PROVE i \in SlotsOf(c)' <=> i \in SlotsOf(c) \cup {w}
        BY <1>2, <1>3, <1>4, <2>3 DEF SlotsOf, Between
      <4>3. QED
        BY <4>1, <4>2, SameSet
    <3>2. Cardinality(SlotsOf(c) \cup {w}) = Cardinality(SlotsOf(c)) + 1
      BY <1>0, <3>1, CountsNat, AddOne
    <3>3. QED
      BY <1>0, <1>1, <1>5, <2>0, <2>1, <2>2, <2>3, <3>1, <3>2, CountsNat DEF PlacesOf
  <2>4. CASE c # b
    <3>1. SlotsOf(c)' = SlotsOf(c)
      <4>1. ASSUME NEW i PROVE i \in SlotsOf(c)' <=> i \in SlotsOf(c)
        BY <1>2, <1>3, <1>4, <2>4 DEF SlotsOf, Between
      <4>2. QED
        BY <4>1, SameSet
    <3>2. QED
      BY <1>5, <2>0, <2>1, <2>2, <2>4, <3>1 DEF PlacesOf
  <2>5. QED
    BY <2>3, <2>4
<1>10. QED
  BY <1>7, <1>8, <1>9 DEF RingInv

(* CreateRingBuffer can put the buffers, and then each has one slot.       *)
LEMMA RingInit ==
  ASSUME NEW G, IsFiniteSet(G), Ring(G)!Init
  PROVE  RingInv(G)
<1> DEFINE N == Cardinality(Bufs)
           Full(f) == f[N] = Nobody /\ \A b \in Bufs : \E i \in 0 .. N : f[i] = b
<1>0. IsFiniteSet(Bufs) /\ N \in Nat /\ RingSize = N + 1 /\ Nobody \notin Bufs
  BY RingConstants DEF RingSize
<1>1. /\ r = 0 /\ w = N /\ ref = [b \in Bufs |-> 0] /\ hands = [b \in Bufs |-> 0]
      /\ at = [g \in G |-> "idle"] /\ slot = [g \in G |-> 0] /\ got = [g \in G |-> Nobody]
      /\ putting = [b \in Bufs |-> 0] /\ dropped = {} /\ overtaken = FALSE
  BY <1>0, RingNames DEF Ring!Init
<1>2. buf \in [0 .. N -> Bufs \cup {Nobody}] /\ Full(buf)
  <2>1. buf = CHOOSE f \in [0 .. N -> Bufs \cup {Nobody}] : Full(f)
    <3>1. /\ Ring(G)!Slots = 0 .. N
          /\ buf = CHOOSE f \in [Ring(G)!Slots -> Bufs \cup {Nobody}] :
                     f[w] = Nobody /\ \A b \in Bufs : \E i \in Ring(G)!Slots : f[i] = b
      BY <1>0, RingNames DEF Ring!Init
    <3>2. QED
      BY <1>1, <3>1
  <2>2. \E f \in [0 .. N -> Bufs \cup {Nobody}] : Full(f)
    <3>1. ExistsBijection(1 .. N, Bufs)
      BY <1>0, FS_CardinalityType
    <3>2. PICK h \in [1 .. N -> Bufs] : \A b \in Bufs : \E i \in 1 .. N : h[i] = b
      BY <3>1 DEF ExistsBijection, Bijection, Surjection
    <3> DEFINE f == [i \in 0 .. N |-> IF i = N THEN Nobody ELSE h[i + 1]]
    <3>3. f \in [0 .. N -> Bufs \cup {Nobody}]
      BY <1>0, <3>2
    <3>4. f[N] = Nobody
      BY <1>0
    <3>5. ASSUME NEW b \in Bufs PROVE \E i \in 0 .. N : f[i] = b
      <4>1. PICK i \in 1 .. N : h[i] = b
        BY <3>2
      <4>2. i - 1 \in 0 .. N /\ f[i - 1] = h[i]
        BY <1>0, <4>1
      <4>3. QED
        BY <4>1, <4>2
    <3>6. QED
      BY <3>3, <3>4, <3>5
  <2>3. QED
    BY <2>1, <2>2
<1> HIDE DEF Full
(* As there are as many slots before the last one as buffers, none of them *)
(* is empty and no buffer has two.                                         *)
<1>3. Between(r, w) = 0 .. N - 1
  BY <1>0, <1>1 DEF Between
<1> DEFINE T == {i \in 0 .. N - 1 : buf[i] \in Bufs}
           f == [i \in T |-> buf[i]]
<1>4. f \in Surjection(T, Bufs)
  <2>1. f \in [T -> Bufs]
    OBVIOUS
  <2>2. ASSUME NEW b \in Bufs PROVE \E i \in T : f[i] = b
    <3>1. PICK i \in 0 .. N : buf[i] = b
      BY <1>2 DEF Full
    <3>2. i # N
      BY <1>0, <1>2, <3>1 DEF Full
    <3>3. i \in T /\ f[i] = b
      BY <1>0, <3>1, <3>2
    <3>4. QED
      BY <3>3
  <2>3. QED
    BY <2>1, <2>2 DEF Surjection
<1>5. IsFiniteSet(0 .. N - 1) /\ Cardinality(0 .. N - 1) = N
  <2>1. 0 \in Int /\ N - 1 \in Int
    BY <1>0
  <2>2. /\ IsFiniteSet(0 .. N - 1)
        /\ Cardinality(0 .. N - 1) = IF 0 > N - 1 THEN 0 ELSE N - 1 - 0 + 1
    BY <2>1, FS_Interval
  <2>3. QED
    BY <1>0, <2>2
<1>6. IsFiniteSet(T) /\ Cardinality(T) <= N /\ Cardinality(T) \in Nat
  <2>1. IsFiniteSet(T) /\ Cardinality(T) <= Cardinality(0 .. N - 1)
    BY <1>5, FS_Subset
  <2>2. Cardinality(T) \in Nat
    BY <2>1, FS_CardinalityType
  <2>3. QED
    BY <1>5, <2>1, <2>2
<1>7. Cardinality(T) = N /\ f \in Injection(T, Bufs)
  <2>1. /\ Cardinality(Bufs) <= Cardinality(T)
        /\ Cardinality(Bufs) = Cardinality(T) <=> f \in Injection(T, Bufs)
    <3> HIDE DEF T, f
    <3>1. QED
      BY <1>4, <1>6, FS_Surjection
  <2>2. QED
    BY <1>0, <1>6, <2>1
<1>8. T = 0 .. N - 1
  <2>1. T \in SUBSET (0 .. N - 1)
    OBVIOUS
  <2>2. Cardinality(0 .. N - 1) = Cardinality(T)
    BY <1>5, <1>7
  <2> HIDE DEF T, N
  <2>3. QED
    BY <1>5, <2>1, <2>2, FS_Subset
<1>9. \A i \in 0 .. N - 1 : buf[i] \in Bufs
  <2>1. \A i \in T : buf[i] \in Bufs
    OBVIOUS
  <2> HIDE DEF T, N
  <2>2. QED
    BY <1>8, <2>1
<1>10. \A i, j \in 0 .. N - 1 : buf[i] = buf[j] => i = j
  <2>1. \A i, j \in T : f[i] = f[j] => i = j
    BY <1>7 DEF Injection, IsInjective
  <2>2. \A i \in T : f[i] = buf[i]
    OBVIOUS
  <2> HIDE DEF T, N, f
  <2>3. QED
    BY <1>8, <2>1, <2>2
<1>11. RingTypes(G)
  <2>1. RingSize - 1 = N /\ r \in 0 .. N /\ w \in 0 .. N /\ 0 \in 0 .. MaxHold /\ 0 \in 0 .. N
    BY <1>0, <1>1, RingConstants
  <2>2. buf \in [0 .. RingSize - 1 -> Bufs \cup {Nobody}]
    BY <1>2, <2>1
  <2>3. hands = ref /\ ref \in [Bufs -> 0 .. MaxHold] /\ putting \in [Bufs -> 0 .. 1]
    BY <1>1, <2>1
  <2>4. /\ at \in [G -> {"idle", "read", "hold"}] /\ slot \in [G -> 0 .. RingSize - 1]
        /\ got \in [G -> Bufs \cup {Nobody}]
    BY <1>1, <2>1
  <2>5. QED
    BY <1>1, <2>1, <2>2, <2>3, <2>4 DEF RingTypes
<1>12. RingHolds(G)
  BY <1>0, <1>1, <1>3, <1>9 DEF RingHolds
<1>13. ASSUME NEW b \in Bufs PROVE PlacesOf(G, b) = 1
  <2>1. PICK i \in 0 .. N - 1 : buf[i] = b
    BY <1>4, <1>8 DEF Surjection
  <2>2. SlotsOf(b) = {i}
    BY <1>3, <1>10, <2>1 DEF SlotsOf
  <2>3. ReadersOf(G, b) = {} /\ GettersOf(G, b) = {} /\ Users(b) = 0 /\ putting[b] = 0
    BY <1>0, <1>1 DEF ReadersOf, GettersOf, Users
  <2>4. Cardinality(SlotsOf(b)) = 1 /\ Cardinality(ReadersOf(G, b)) = 0 /\ Cardinality(GettersOf(G, b)) = 0
    BY <2>2, <2>3, FS_Singleton, FS_EmptySet
  <2>5. QED
    BY <2>3, <2>4 DEF PlacesOf
<1>14. QED
  BY <1>11, <1>12, <1>13 DEF RingInv

LEMMA RingStep ==
  ASSUME NEW G, IsFiniteSet(G), Undisturbed(G) => RingInv(G), [Ring(G)!Next]_ring, Undisturbed(G)'
  PROVE  RingInv(G)'
<1>1. CASE UNCHANGED ring
  <2>1. RingInv(G)
    BY <1>1 DEF Undisturbed, ring
  <2>2. QED
    BY <1>1, <2>1 DEF ring, RingInv, RingTypes, RingHolds, PlacesOf, SlotsOf, ReadersOf, GettersOf, Users, Succ
<1>2. CASE Ring(G)!Next
  <2>1. Undisturbed(G)
    <3>1. overtaken => overtaken'
      BY <1>2 DEF Ring!Next, Ring!TakeSlot, Ring!ReadSlot, Ring!HoldGot, Ring!HoldPktBuf, Ring!PutBuf, Ring!RBPutBuf
    <3>2. QED
      BY <3>1 DEF Undisturbed
  <2>2. RingInv(G)
    BY <2>1
  <2>3. ASSUME NEW g \in G, Ring(G)!TakeSlot(g) \/ Ring(G)!ReadSlot(g) \/ Ring(G)!HoldGot(g) PROVE RingInv(G)'
    BY <2>2, <2>3, TakeSlotStep, ReadSlotStep, HoldGotStep
  <2>4. ASSUME NEW b \in Bufs, Ring(G)!HoldPktBuf(b) \/ Ring(G)!PutBuf(b) \/ Ring(G)!RBPutBuf(b)
        PROVE  RingInv(G)'
    BY <2>2, <2>4, UserStep, RBPutBufStep
  <2>5. QED
    BY <1>2, <2>3, <2>4 DEF Ring!Next
<1>3. QED
  BY <1>1, <1>2

LEMMA RingInvImplies ==
  ASSUME NEW G, Undisturbed(G) => RingInv(G)
  PROVE  /\ Ring(G)!InOnePlace /\ Ring(G)!AlwaysRoom
         /\ Undisturbed(G) => Ring(G)!TypeOK
<1>1. Ring(G)!InOnePlace
  BY RingNames DEF Ring!InOnePlace, RingInv
<1>2. Ring(G)!AlwaysRoom
  BY RingNames DEF Ring!AlwaysRoom, RingInv, RingTypes
<1>3. Undisturbed(G) => Ring(G)!TypeOK
  BY RingNames DEF Ring!TypeOK, RingInv, RingTypes
<1>4. QED
  BY <1>1, <1>2, <1>3

(* goRingBuffer.go:104-137: with any number of buffers and getters a       *)
(* buffer is in one place and finds room when it comes back, as long as no *)
(* getter is overtaken; a lone one never is.                               *)
THEOREM RingCorrect == MCSpec => []InOnePlace
<1> DEFINE I == /\ part = "ring1" => RingInv(One)
                /\ part = "ring2" => (Undisturbed(Two) => RingInv(Two))
<1>1. MCInit => I
  BY RingInit, RingConstants DEF MCInit
<1>2. I /\ [MCNext]_<<part, wheel, log, ring>> => I'
  <2> SUFFICES ASSUME I, [MCNext]_<<part, wheel, log, ring>> PROVE I'
    OBVIOUS
  <2>1. ASSUME part' = "ring1" PROVE RingInv(One)'
    <3>1. part = "ring1" /\ [Ring(One)!Next]_ring
      BY <2>1 DEF MCNext
    <3>2. RingInv(One) /\ IsFiniteSet(One) /\ Undisturbed(One)'
      BY <3>1, RingConstants DEF Undisturbed
    <3>3. QED
      BY <3>1, <3>2, RingStep
  <2>2. ASSUME part' = "ring2", Undisturbed(Two)' PROVE RingInv(Two)'
    <3>1. part = "ring2" /\ [Ring(Two)!Next]_ring
      BY <2>2 DEF MCNext
    <3>2. IsFiniteSet(Two) /\ (Undisturbed(Two) => RingInv(Two))
      BY <3>1, RingConstants
    <3>3. QED
      BY <2>2, <3>1, <3>2, RingStep
  <2>3. QED
    BY <2>1, <2>2
<1>3. I => InOnePlace
  <2> SUFFICES ASSUME I PROVE InOnePlace
    OBVIOUS
  <2>1. part = "ring1" => Ring(One)!TypeOK /\ Ring(One)!InOnePlace /\ Ring(One)!AlwaysRoom
    BY RingInvImplies, RingConstants DEF Undisturbed
  <2>2. part = "ring2" => Ring(Two)!InOnePlace /\ Ring(Two)!AlwaysRoom
    BY RingInvImplies
  <2>3. QED
    BY <2>1, <2>2 DEF InOnePlace
<1>4. QED
  BY <1>1, <1>2, <1>3, PTL DEF MCSpec
-----------------------------------------------------------------------------
(* The timer wheel: what the arrays reach.                                 *)

LEMMA WheelConstants ==
  /\ TvrSize \in Nat \ {0, 1} /\ TvnSize \in Nat \ {0, 1}
  /\ Delays \subseteq Nat /\ MaxJiffies \in Nat
  /\ Nowhere \notin Wheel!Places \cup Nat
  BY HelpersAssumption DEF Wheel!TimerWheelAssumption

LEMMA Product ==
  ASSUME NEW a \in Nat, NEW b \in Nat
  PROVE  a * b \in Nat
  OBVIOUS

LEMMA Grows ==
  ASSUME NEW a \in Nat, NEW b \in Nat, NEW n \in Nat, a <= b
  PROVE  n * a <= n * b /\ a * n <= b * n
  OBVIOUS

LEMMA Twice ==
  ASSUME NEW a \in Nat \ {0}, NEW n \in Nat \ {0, 1}
  PROVE  a * n \in Nat \ {0} /\ 2 * a <= a * n
<1>1. a * 2 <= a * n
  BY Grows
<1>2. a * n \in Nat
  BY Product
<1>3. QED
  BY <1>1, <1>2

LEMMA SpanSteps ==
  /\ Wheel!Span(1) = TvrSize
  /\ \A k \in 1..4 : Wheel!Span(k + 1) = Wheel!Span(k) * TvnSize
<1>1. \A k \in 1..4 : Wheel!Span(k + 1) = Wheel!Span(k) * TvnSize
  <2>1. SUFFICES ASSUME NEW k \in 1..4 PROVE Wheel!Span(k + 1) = Wheel!Span(k) * TvnSize
    OBVIOUS
  <2>2. CASE k = 1
    BY <2>2 DEF Wheel!Span, Wheel!Spans
  <2>3. CASE k = 2
    BY <2>3 DEF Wheel!Span, Wheel!Spans
  <2>4. CASE k = 3
    BY <2>4 DEF Wheel!Span, Wheel!Spans
  <2>5. CASE k = 4
    BY <2>5 DEF Wheel!Span, Wheel!Spans
  <2>6. QED
    BY <2>1, <2>2, <2>3, <2>4, <2>5
<1>2. QED
  BY <1>1 DEF Wheel!Span, Wheel!Spans

LEMMA SpanTypes ==
  \A k \in 1..5 : Wheel!Span(k) \in Nat \ {0}
<1>1. Wheel!Span(1) \in Nat \ {0}
  BY SpanSteps, WheelConstants
<1>2. \A k \in 1..4 : Wheel!Span(k) \in Nat \ {0} => Wheel!Span(k + 1) \in Nat \ {0}
  BY SpanSteps, WheelConstants, Twice
<1>3. Wheel!Span(2) \in Nat \ {0}
  BY <1>1, <1>2
<1>4. Wheel!Span(3) \in Nat \ {0}
  BY <1>3, <1>2
<1>5. Wheel!Span(4) \in Nat \ {0}
  BY <1>4, <1>2
<1>6. Wheel!Span(5) \in Nat \ {0}
  BY <1>5, <1>2
<1>7. QED
  BY <1>1, <1>3, <1>4, <1>5, <1>6

LEMMA WheelSizes ==
  ASSUME NEW k \in 1..5
  PROVE  /\ Wheel!Unit(k) \in Nat \ {0} /\ Wheel!Size(k) \in Nat \ {0, 1}
         /\ Wheel!Span(k) \in Nat /\ Wheel!Span(k) = Wheel!Unit(k) * Wheel!Size(k)
         /\ 2 * Wheel!Unit(k) <= Wheel!Span(k)
         /\ (k = 1 => Wheel!Unit(k) = 1)
         /\ (k # 1 => k - 1 \in 1..5 /\ Wheel!Unit(k) = Wheel!Span(k - 1))
<1>1. CASE k = 1
  BY <1>1, SpanSteps, WheelConstants DEF Wheel!Unit, Wheel!Size
<1>2. CASE k # 1
  <2>1. k - 1 \in 1..4 /\ k - 1 \in 1..5 /\ (k - 1) + 1 = k
    BY <1>2
  <2>2. Wheel!Span(k) = Wheel!Span(k - 1) * TvnSize /\ Wheel!Span(k - 1) \in Nat \ {0}
    BY <2>1, SpanSteps, SpanTypes
  <2>3. Wheel!Span(k) \in Nat /\ 2 * Wheel!Span(k - 1) <= Wheel!Span(k)
    BY <2>2, Twice, WheelConstants
  <2>4. QED
    BY <1>2, <2>1, <2>2, <2>3, WheelConstants DEF Wheel!Unit, Wheel!Size
<1>3. QED
  BY <1>1, <1>2

LEMMA LevelsAre == Wheel!Levels = 1..5 /\ Wheel!TopLevel = 5
  BY DEF Wheel!Levels, Wheel!TopLevel

(* The finest array that reaches so far; the finer ones do not.            *)
LEMMA Least ==
  ASSUME NEW i \in Nat, i < Wheel!Span(5)
  PROVE  /\ Wheel!Level(i) \in 1..5 /\ i < Wheel!Span(Wheel!Level(i))
         /\ (Wheel!Level(i) # 1 => Wheel!Unit(Wheel!Level(i)) <= i)
<1> DEFINE P(k) == i < Wheel!Span(k) /\ \A l \in 1..5 : i < Wheel!Span(l) => k <= l
<1>1. \E k \in 1..5 : P(k)
  <2>1. CASE i < Wheel!Span(1)
    BY <2>1
  <2>2. CASE ~ (i < Wheel!Span(1)) /\ i < Wheel!Span(2)
    <3>1. P(2)
      BY <2>2
    <3>2. QED
      BY <3>1
  <2>3. CASE ~ (i < Wheel!Span(1)) /\ ~ (i < Wheel!Span(2)) /\ i < Wheel!Span(3)
    <3>1. P(3)
      BY <2>3
    <3>2. QED
      BY <3>1
  <2>4. CASE /\ ~ (i < Wheel!Span(1)) /\ ~ (i < Wheel!Span(2)) /\ ~ (i < Wheel!Span(3))
             /\ i < Wheel!Span(4)
    <3>1. P(4)
      BY <2>4
    <3>2. QED
      BY <3>1
  <2>5. CASE /\ ~ (i < Wheel!Span(1)) /\ ~ (i < Wheel!Span(2)) /\ ~ (i < Wheel!Span(3))
             /\ ~ (i < Wheel!Span(4))
    <3>1. P(5)
      BY <2>5
    <3>2. QED
      BY <3>1
  <2>6. QED
    BY <2>1, <2>2, <2>3, <2>4, <2>5
<1>2. ~ (i >= Wheel!Span(5))
  BY SpanTypes
<1>3. Wheel!Level(i) = CHOOSE k \in 1..5 : P(k)
  BY <1>2, LevelsAre DEF Wheel!Level
<1> DEFINE L == Wheel!Level(i)
<1>4. L \in 1..5 /\ P(L)
  BY <1>1, <1>3
<1> HIDE DEF L
<1>5. L # 1 => Wheel!Unit(L) <= i
  <2>1. SUFFICES ASSUME L # 1 PROVE Wheel!Unit(L) <= i
    OBVIOUS
  <2>2. L - 1 \in 1..5 /\ Wheel!Unit(L) = Wheel!Span(L - 1) /\ ~ (L <= L - 1)
    BY <1>4, <2>1, WheelSizes
  <2>3. ~ (i < Wheel!Span(L - 1))
    BY <1>4, <2>2
  <2>4. QED
    BY <2>2, <2>3, SpanTypes
<1>6. QED
  BY <1>4, <1>5 DEF L
-----------------------------------------------------------------------------
(* The timer wheel: slots and the ticks they stand for.                    *)

LEMMA Quotient ==
  ASSUME NEW x \in Nat, NEW u \in Nat \ {0}
  PROVE  /\ x \div u \in Nat /\ (x \div u) * u \in Nat
         /\ (x \div u) * u <= x /\ x < (x \div u) * u + u
         /\ x = (x \div u) * u + (x % u) /\ x % u \in 0..(u - 1)
<1>1. x % u \in 0..(u - 1) /\ x = u * (x \div u) + (x % u) /\ x \div u \in Nat
  OBVIOUS
<1>2. u * (x \div u) = (x \div u) * u
  BY <1>1
<1>3. (x \div u) * u \in Nat
  BY <1>1, Product
<1>4. QED
  BY <1>1, <1>2, <1>3

LEMMA Parts ==
  ASSUME NEW x \in Nat, NEW u \in Nat \ {0}
  PROVE  \E q \in Nat, m \in Nat : q = x \div u /\ m = x % u /\ x = q * u + m
<1>1. x \div u \in Nat /\ x % u \in Nat
  BY Quotient
<1>2. x = (x \div u) * u + (x % u)
  BY Quotient
<1> DEFINE q == x \div u
           m == x % u
<1>3. q \in Nat /\ m \in Nat /\ x = q * u + m
  BY <1>1, <1>2
<1>4. q = x \div u /\ m = x % u
  OBVIOUS
<1> HIDE DEF q, m
<1>5. QED
  BY <1>3, <1>4

LEMMA SameResidue ==
  ASSUME NEW a \in Nat, NEW b \in Nat, NEW z \in Nat \ {0},
         a % z = b % z, b <= a, a - b < z
  PROVE  a = b
<1>1. PICK q \in Nat, p \in Nat, m \in Nat : a = q * z + m /\ b = p * z + m
  <2>1. PICK q \in Nat, m \in Nat : q = a \div z /\ m = a % z /\ a = q * z + m
    BY Parts
  <2>2. PICK p \in Nat, l \in Nat : p = b \div z /\ l = b % z /\ b = p * z + l
    BY Parts
  <2>3. l = m
    BY <2>1, <2>2
  <2>4. a = q * z + m /\ b = p * z + m
    BY <2>1, <2>2, <2>3
  <2>5. QED
    BY <2>4
<1>2. q * z \in Nat /\ p * z \in Nat
  BY Product
<1>3. CASE p < q
  <2>1. (p + 1) * z <= q * z
    BY <1>3, Grows
  <2>2. (p + 1) * z = p * z + z
    OBVIOUS
  <2>3. QED
    BY <1>1, <1>2, <2>1, <2>2
<1>4. CASE q <= p
  <2>1. q * z <= p * z
    BY <1>4, Grows
  <2>2. QED
    BY <1>1, <1>2, <2>1
<1>5. QED
  BY <1>3, <1>4

(* The first tick of the slot that reaches x.                              *)
Start(k, x) == (x \div Wheel!Unit(k)) * Wheel!Unit(k)

LEMMA StartIs ==
  ASSUME NEW k \in 1..5, NEW x \in Nat
  PROVE  /\ Start(k, x) \in Nat /\ Start(k, x) <= x /\ x < Start(k, x) + Wheel!Unit(k)
         /\ (k = 1 => Start(k, x) = x)
<1>1. Wheel!Unit(k) \in Nat \ {0} /\ (k = 1 => Wheel!Unit(k) = 1)
  BY WheelSizes
<1>2. Start(k, x) \in Nat /\ Start(k, x) <= x /\ x < Start(k, x) + Wheel!Unit(k)
  BY <1>1, Quotient DEF Start
<1>3. k = 1 => Start(k, x) = x
  BY <1>1 DEF Start
<1>4. QED
  BY <1>2, <1>3

LEMMA SlotIs ==
  ASSUME NEW k \in 1..5, NEW x \in Nat
  PROVE  Wheel!SlotOf(k, x) \in Wheel!Places
<1>1. Wheel!Unit(k) \in Nat \ {0} /\ Wheel!Size(k) \in Nat \ {0}
  BY WheelSizes
<1>2. x \div Wheel!Unit(k) \in Nat
  BY <1>1, Quotient
<1>3. (x \div Wheel!Unit(k)) % Wheel!Size(k) \in 0..(Wheel!Size(k) - 1)
  BY <1>1, <1>2, Quotient
<1>4. QED
  BY <1>1, <1>3, LevelsAre DEF Wheel!SlotOf, Wheel!Places

LEMMA LevelsDiffer ==
  ASSUME NEW k \in 1..5, NEW l \in 1..5, NEW x, NEW y, Wheel!SlotOf(k, x) = Wheel!SlotOf(l, y)
  PROVE  k = l
  BY DEF Wheel!SlotOf

(* Of the ticks that one round reaches, a slot stands for one only.        *)
LEMMA OneRound ==
  ASSUME NEW k \in 1..5, NEW x \in Nat, NEW j \in Nat,
         j % Wheel!Unit(k) = 0, Wheel!SlotOf(k, x) = Wheel!SlotOf(k, j),
         j <= Start(k, x), x - j < Wheel!Span(k)
  PROVE  Start(k, x) = j
<1>1. PICK u \in Nat \ {0}, z \in Nat \ {0} :
        /\ u = Wheel!Unit(k) /\ z = Wheel!Size(k) /\ Wheel!Span(k) = u * z
  BY WheelSizes
<1>2. PICK a \in Nat, b \in Nat : a = x \div u /\ b = j \div u
  BY Quotient
<1>3. j = b * u /\ a * u <= x /\ a * u \in Nat /\ b * u \in Nat
  <2>1. j = (j \div u) * u + (j % u)
    BY Quotient
  <2>2. (x \div u) * u <= x /\ (x \div u) * u \in Nat /\ (j \div u) * u \in Nat
    BY Quotient
  <2>3. QED
    BY <1>1, <1>2, <2>1, <2>2
<1>4. a % z = b % z
  BY <1>1, <1>2 DEF Wheel!SlotOf
<1>5. b * u <= a * u
  BY <1>1, <1>2, <1>3 DEF Start
<1>6. u * z \in Nat
  BY Product
<1>7. b <= a
  <2>1. SUFFICES ASSUME a + 1 <= b PROVE FALSE
    OBVIOUS
  <2>2. (a + 1) * u <= b * u
    BY <2>1, Grows
  <2>3. (a + 1) * u = a * u + u
    OBVIOUS
  <2>4. QED
    BY <1>3, <1>5, <2>2, <2>3
<1>8. a - b < z
  <2>1. SUFFICES ASSUME b + z <= a PROVE FALSE
    OBVIOUS
  <2>2. (b + z) * u <= a * u
    BY <2>1, Grows
  <2>3. (b + z) * u = b * u + u * z
    OBVIOUS
  <2>4. b * u + u * z <= x
    BY <1>3, <1>6, <2>2, <2>3
  <2>5. QED
    BY <1>1, <1>3, <1>6, <2>4
<1>9. a = b
  BY <1>4, <1>7, <1>8, SameResidue
<1>10. QED
  BY <1>1, <1>2, <1>3, <1>9 DEF Start
-----------------------------------------------------------------------------
(* x is what the slot tells of the deadline e, which is not yet due: the   *)
(* deadline itself, unless it is too far away for all arrays.              *)
Ahead(k, x, e, j) ==
  /\ j <= Start(k, x) /\ x - j < Wheel!Span(k)
  /\ x <= e /\ (k # 5 => x = e)

LEMMA NearPlace ==
  ASSUME jiffies \in Nat, NEW e \in Nat, jiffies <= e, e - jiffies < Wheel!Span(5)
  PROVE  \E k \in 1..5 :
           /\ Wheel!PlaceFor(e) = Wheel!SlotOf(k, e)
           /\ e - jiffies < Wheel!Span(k)
           /\ (k # 1 => jiffies + Wheel!Unit(k) <= e)
<1>1. PICK i \in Nat : i = e - jiffies
  OBVIOUS
<1>2. i < Wheel!Span(5)
  BY <1>1
<1>3. PICK k \in 1..5 :
        k = Wheel!Level(i) /\ i < Wheel!Span(k) /\ (k # 1 => Wheel!Unit(k) <= i)
  BY <1>2, Least
<1>4. Wheel!Cap(i) = i
  BY <1>2, SpanTypes, LevelsAre DEF Wheel!Cap
<1>5. i + jiffies = e
  BY <1>1
<1>6. Wheel!PlaceFor(e) = Wheel!SlotOf(k, e)
  BY <1>1, <1>3, <1>4, <1>5 DEF Wheel!PlaceFor
<1>7. k # 1 => jiffies + Wheel!Unit(k) <= e
  BY <1>1, <1>3, WheelSizes
<1>8. QED
  BY <1>1, <1>3, <1>6, <1>7

LEMMA FarPlace ==
  ASSUME jiffies \in Nat, NEW e \in Nat, jiffies <= e, ~ (e - jiffies < Wheel!Span(5))
  PROVE  \E x \in Nat :
           /\ Wheel!PlaceFor(e) = Wheel!SlotOf(5, x) /\ x <= e
           /\ x - jiffies < Wheel!Span(5) /\ jiffies + Wheel!Unit(5) <= x
<1>1. PICK i \in Nat : i = e - jiffies
  OBVIOUS
<1>2. PICK s \in Nat \ {0}, u \in Nat \ {0} :
        s = Wheel!Span(5) /\ u = Wheel!Unit(5) /\ 2 * u <= s
  BY SpanTypes, WheelSizes
<1>3. s <= i
  BY <1>1, <1>2
<1>4. PICK x \in Nat : x = (s - 1) + jiffies
  BY <1>2
<1>5. Wheel!Level(i) = 5 /\ Wheel!Cap(i) = s - 1
  BY <1>2, <1>3, LevelsAre DEF Wheel!Level, Wheel!Cap
<1>6. Wheel!PlaceFor(e) = Wheel!SlotOf(5, x)
  BY <1>1, <1>4, <1>5 DEF Wheel!PlaceFor
<1>7. QED
  BY <1>1, <1>2, <1>3, <1>4, <1>6

(* Where addTimer puts a timer.                                            *)
LEMMA PutAhead ==
  ASSUME jiffies \in Nat, NEW e \in Nat, jiffies <= e
  PROVE  \E k \in 1..5, x \in Nat :
           /\ Wheel!PlaceFor(e) = Wheel!SlotOf(k, x) /\ Ahead(k, x, e, jiffies)
           /\ (k # 1 => jiffies < Start(k, x))
<1>1. PICK k \in 1..5, x \in Nat :
        /\ Wheel!PlaceFor(e) = Wheel!SlotOf(k, x)
        /\ x - jiffies < Wheel!Span(k) /\ jiffies <= x /\ x <= e /\ (k # 5 => x = e)
        /\ (k # 1 => jiffies + Wheel!Unit(k) <= x)
  <2>1. CASE e - jiffies < Wheel!Span(5)
    BY <2>1, NearPlace
  <2>2. CASE ~ (e - jiffies < Wheel!Span(5))
    <3>1. PICK x \in Nat :
            /\ Wheel!PlaceFor(e) = Wheel!SlotOf(5, x) /\ x <= e
            /\ x - jiffies < Wheel!Span(5) /\ jiffies + Wheel!Unit(5) <= x
      BY <2>2, FarPlace
    <3>2. Wheel!Unit(5) \in Nat
      BY WheelSizes
    <3>3. QED
      BY <3>1, <3>2
  <2>3. QED
    BY <2>1, <2>2
<1>2. Wheel!Unit(k) \in Nat
  BY WheelSizes
<1>3. /\ Start(k, x) \in Nat /\ x < Start(k, x) + Wheel!Unit(k)
      /\ (k = 1 => Start(k, x) = x)
  BY StartIs
<1>4. /\ k = 1 => jiffies <= Start(k, x)
      /\ k # 1 => jiffies < Start(k, x)
  BY <1>1, <1>2, <1>3
<1>5. jiffies <= Start(k, x)
  BY <1>3, <1>4
<1>6. QED
  BY <1>1, <1>4, <1>5 DEF Ahead

LEMMA PutLate ==
  ASSUME jiffies \in Nat, NEW e \in Nat, e < jiffies
  PROVE  Wheel!PlaceFor(e) = Wheel!SlotOf(1, jiffies)
  BY DEF Wheel!PlaceFor
-----------------------------------------------------------------------------
(* The timer wheel: one tick.                                              *)

LEMMA Multiple ==
  ASSUME NEW a \in Nat, NEW u \in Nat \ {0}
  PROVE  (a * u) % u = 0 /\ (a * u) \div u = a
<1>1. PICK y \in Nat : y = a * u
  BY Product
<1>2. PICK q \in Nat, m \in Nat : q = y \div u /\ m = y % u /\ y = q * u + m
  BY Parts
<1>3. m < u
  BY <1>2, Quotient
<1>4. q * u \in Nat /\ a * u \in Nat
  BY Product
<1>5. CASE q < a
  <2>1. (q + 1) * u <= a * u
    BY <1>5, Grows
  <2>2. (q + 1) * u = q * u + u
    OBVIOUS
  <2>3. QED
    BY <1>1, <1>2, <1>3, <1>4, <2>1, <2>2
<1>6. CASE a < q
  <2>1. (a + 1) * u <= q * u
    BY <1>6, Grows
  <2>2. (a + 1) * u = a * u + u
    OBVIOUS
  <2>3. QED
    BY <1>1, <1>2, <1>4, <2>1, <2>2
<1>7. CASE q = a
  <2>1. m = 0
    BY <1>1, <1>2, <1>4, <1>7
  <2>2. y % u = 0 /\ y \div u = a
    BY <1>2, <1>7, <2>1
  <2>3. QED
    BY <1>1, <2>2
<1>8. QED
  BY <1>5, <1>6, <1>7

LEMMA StartOfSlot ==
  ASSUME NEW k \in 1..5, NEW x \in Nat
  PROVE  /\ Start(k, x) % Wheel!Unit(k) = 0
         /\ Wheel!SlotOf(k, Start(k, x)) = Wheel!SlotOf(k, x)
<1>1. PICK u \in Nat \ {0}, a \in Nat : u = Wheel!Unit(k) /\ a = x \div u
  BY WheelSizes, Quotient
<1>2. (a * u) % u = 0 /\ (a * u) \div u = a
  BY Multiple
<1>3. Start(k, x) = a * u
  BY <1>1 DEF Start
<1>4. QED
  BY <1>1, <1>2, <1>3 DEF Wheel!SlotOf

LEMMA CascadedIs ==
  Wheel!Cascaded = {k \in 2..5 : jiffies % Wheel!Unit(k) = 0}
  BY LevelsAre DEF Wheel!Cascaded

(* A timer that the tick leaves in its slot, or has just put there.        *)
LEMMA Onward ==
  ASSUME jiffies \in Nat, NEW e \in Nat, NEW k \in 1..5, NEW x \in Nat,
         Ahead(k, x, e, jiffies), k # 1 => jiffies < Start(k, x)
  PROVE  /\ jiffies <= e
         /\ Wheel!SlotOf(k, x) = Wheel!SlotOf(1, jiffies) <=> e <= jiffies
         /\ jiffies < e => Ahead(k, x, e, jiffies + 1)
<1>1. /\ jiffies <= Start(k, x) /\ x - jiffies < Wheel!Span(k)
      /\ x <= e /\ (k # 5 => x = e)
  BY DEF Ahead
<1>2. Start(k, x) \in Nat /\ Start(k, x) <= x /\ (k = 1 => Start(k, x) = x)
  BY StartIs
<1>3. Wheel!Span(k) \in Nat
  BY WheelSizes
<1>4. jiffies <= e
  BY <1>1, <1>2
<1>5. CASE k = 1
  <2>1. jiffies % Wheel!Unit(1) = 0
    <3>1. Wheel!Unit(1) = 1
      BY WheelSizes
    <3>2. jiffies % 1 = 0
      OBVIOUS
    <3>3. QED
      BY <3>1, <3>2
  <2>2. x = e
    BY <1>1, <1>5
  <2>3. Wheel!SlotOf(1, x) = Wheel!SlotOf(1, jiffies) => Start(1, x) = jiffies
    BY <1>1, <1>5, <2>1, OneRound
  <2>4. Wheel!SlotOf(1, x) = Wheel!SlotOf(1, jiffies) <=> e <= jiffies
    <3>1. e <= jiffies => e = jiffies
      BY <1>4
    <3>2. QED
      BY <1>2, <1>5, <2>2, <2>3, <3>1
  <2>5. jiffies < e => Ahead(k, x, e, jiffies + 1)
    BY <1>1, <1>2, <1>3, <1>5, <2>2 DEF Ahead
  <2>6. QED
    BY <1>4, <1>5, <2>4, <2>5
<1>6. CASE k # 1
  <2>1. jiffies + 1 <= Start(k, x) /\ jiffies < e
    BY <1>1, <1>2, <1>6
  <2>2. Wheel!SlotOf(k, x) # Wheel!SlotOf(1, jiffies)
    BY <1>6, LevelsDiffer
  <2>3. Ahead(k, x, e, jiffies + 1)
    BY <1>1, <1>3, <2>1 DEF Ahead
  <2>4. QED
    BY <1>4, <2>1, <2>2, <2>3
<1>7. QED
  BY <1>5, <1>6

(* addTimer puts no timer into a slot that is to be spread in this tick.   *)
LEMMA NotBack ==
  ASSUME jiffies \in Nat, NEW e \in Nat, jiffies <= e, NEW c \in Wheel!Cascaded
  PROVE  Wheel!PlaceFor(e) # Wheel!SlotOf(c, jiffies)
<1>1. SUFFICES ASSUME Wheel!PlaceFor(e) = Wheel!SlotOf(c, jiffies) PROVE FALSE
  OBVIOUS
<1>2. c \in 1..5 /\ c # 1 /\ jiffies % Wheel!Unit(c) = 0
  BY CascadedIs
<1>3. PICK k \in 1..5, x \in Nat :
        /\ Wheel!PlaceFor(e) = Wheel!SlotOf(k, x) /\ Ahead(k, x, e, jiffies)
        /\ (k # 1 => jiffies < Start(k, x))
  BY PutAhead
<1>4. k = c
  BY <1>1, <1>2, <1>3, LevelsDiffer
<1>5. jiffies <= Start(k, x) /\ x - jiffies < Wheel!Span(k)
  BY <1>3 DEF Ahead
<1>6. Start(k, x) = jiffies
  BY <1>1, <1>2, <1>3, <1>4, <1>5, OneRound
<1>7. QED
  BY <1>2, <1>3, <1>4, <1>6

(* The place of a timer tells when it is due: it is that of the deadline,  *)
(* in the round that is to come, or, when addTimer came late, the place    *)
(* where the next tick looks.                                              *)
Waits(t) ==
  \/ \E k \in 1..5, x \in Nat :
       place[t] = Wheel!SlotOf(k, x) /\ Ahead(k, x, expires[t], jiffies)
  \/ expires[t] < jiffies /\ place[t] = Wheel!SlotOf(1, jiffies)

WheelInv ==
  /\ Wheel!TypeOK
  /\ \A t \in TimerIds : upc[t] # "idle" => fpc[t] = "none"
  /\ \A t \in TimerIds : place[t] # Nowhere => Waits(t)

LEMMA WheelTypes ==
  ASSUME WheelInv
  PROVE  /\ jiffies \in Nat /\ expires \in [TimerIds -> Nat]
         /\ \A c \in Wheel!Cascaded : Wheel!SlotOf(c, jiffies) # Nowhere
         /\ Wheel!SlotOf(1, jiffies) # Nowhere
<1>1. jiffies \in Nat /\ expires \in [TimerIds -> Nat]
  BY WheelConstants DEF WheelInv, Wheel!TypeOK
<1>2. \A c \in 1..5 : Wheel!SlotOf(c, jiffies) # Nowhere
  BY <1>1, SlotIs, WheelConstants
<1>3. Wheel!Cascaded \subseteq 1..5
  BY CascadedIs
<1>4. QED
  BY <1>1, <1>2, <1>3

LEMMA UnsetStays ==
  ASSUME WheelInv, NEW t \in TimerIds, place[t] = Nowhere
  PROVE  ~ Wheel!Spread(t) /\ Wheel!Refined(t) = Nowhere /\ t \notin Wheel!Expired
  BY WheelTypes DEF Wheel!Spread, Wheel!Refined, Wheel!Expired

(* What a tick does to a timer that is set.                                *)
Ticked(t) ==
  /\ Wheel!Refined(t) = Wheel!SlotOf(1, jiffies) <=> expires[t] <= jiffies
  /\ jiffies < expires[t] =>
       \E k \in 1..5, x \in Nat :
         Wheel!Refined(t) = Wheel!SlotOf(k, x) /\ Ahead(k, x, expires[t], jiffies + 1)
  /\ Wheel!Spread(t) =>
       \A c \in Wheel!Cascaded : Wheel!PlaceFor(expires[t]) # Wheel!SlotOf(c, jiffies)

LEMMA LateTicks ==
  ASSUME WheelInv, NEW t \in TimerIds,
         expires[t] < jiffies, place[t] = Wheel!SlotOf(1, jiffies)
  PROVE  Ticked(t)
<1>1. ~ Wheel!Spread(t)
  BY CascadedIs, LevelsDiffer DEF Wheel!Spread
<1>2. Wheel!Refined(t) = Wheel!SlotOf(1, jiffies)
  BY <1>1 DEF Wheel!Refined
<1>3. jiffies \in Nat /\ expires[t] \in Nat
  BY WheelTypes
<1>4. QED
  BY <1>1, <1>2, <1>3 DEF Ticked

LEMMA AheadTicks ==
  ASSUME WheelInv, NEW t \in TimerIds, NEW k \in 1..5, NEW x \in Nat,
         place[t] = Wheel!SlotOf(k, x), Ahead(k, x, expires[t], jiffies)
  PROVE  Ticked(t)
<1>1. jiffies \in Nat /\ expires[t] \in Nat
  BY WheelTypes
<1>2. jiffies <= Start(k, x) /\ x - jiffies < Wheel!Span(k) /\ x <= expires[t]
  BY DEF Ahead
<1>3. jiffies <= expires[t]
  BY <1>1, <1>2, StartIs
<1>4. CASE Wheel!Spread(t)
  <2>1. PICK m \in 1..5, y \in Nat :
          /\ Wheel!PlaceFor(expires[t]) = Wheel!SlotOf(m, y)
          /\ Ahead(m, y, expires[t], jiffies) /\ (m # 1 => jiffies < Start(m, y))
    BY <1>1, <1>3, PutAhead
  <2>2. /\ Wheel!SlotOf(m, y) = Wheel!SlotOf(1, jiffies) <=> expires[t] <= jiffies
        /\ jiffies < expires[t] => Ahead(m, y, expires[t], jiffies + 1)
    BY <1>1, <2>1, Onward
  <2>3. Wheel!Refined(t) = Wheel!SlotOf(m, y)
    BY <1>4, <2>1 DEF Wheel!Refined
  <2>4. \A c \in Wheel!Cascaded : Wheel!PlaceFor(expires[t]) # Wheel!SlotOf(c, jiffies)
    BY <1>1, <1>3, NotBack
  <2>5. QED
    BY <2>2, <2>3, <2>4 DEF Ticked
<1>5. CASE ~ Wheel!Spread(t)
  <2>1. k # 1 => jiffies < Start(k, x)
    <3>1. SUFFICES ASSUME k # 1, jiffies = Start(k, x) PROVE FALSE
      <4>1. Start(k, x) \in Nat
        BY StartIs
      <4>2. QED
        BY <1>1, <1>2, <4>1
    <3>2. jiffies % Wheel!Unit(k) = 0 /\ Wheel!SlotOf(k, jiffies) = Wheel!SlotOf(k, x)
      BY <3>1, StartOfSlot
    <3>3. k \in Wheel!Cascaded
      BY <3>1, <3>2, CascadedIs
    <3>4. QED
      BY <1>5, <3>2, <3>3 DEF Wheel!Spread
  <2>2. /\ Wheel!SlotOf(k, x) = Wheel!SlotOf(1, jiffies) <=> expires[t] <= jiffies
        /\ jiffies < expires[t] => Ahead(k, x, expires[t], jiffies + 1)
    BY <1>1, <2>1, Onward
  <2>3. Wheel!Refined(t) = Wheel!SlotOf(k, x)
    BY <1>5 DEF Wheel!Refined
  <2>4. QED
    BY <1>5, <2>2, <2>3 DEF Ticked
<1>6. QED
  BY <1>4, <1>5

LEMMA SetTicks ==
  ASSUME WheelInv, NEW t \in TimerIds, place[t] # Nowhere
  PROVE  Ticked(t)
<1>1. Waits(t)
  BY DEF WheelInv
<1>2. CASE \E k \in 1..5, x \in Nat :
             place[t] = Wheel!SlotOf(k, x) /\ Ahead(k, x, expires[t], jiffies)
  BY <1>2, AheadTicks
<1>3. CASE expires[t] < jiffies /\ place[t] = Wheel!SlotOf(1, jiffies)
  BY <1>3, LateTicks
<1>4. QED
  BY <1>1, <1>2, <1>3 DEF Waits
-----------------------------------------------------------------------------
(* The timer wheel: its invariant.                                         *)

LEMMA WheelInit == Wheel!Init => WheelInv
<1> SUFFICES ASSUME Wheel!Init PROVE WheelInv
  OBVIOUS
<1>1. \A t \in TimerIds : place[t] = Nowhere /\ upc[t] = "idle" /\ fpc[t] = "none"
  BY DEF Wheel!Init
<1>2. Wheel!TypeOK
  BY WheelConstants DEF Wheel!Init, Wheel!TypeOK
<1>3. QED
  BY <1>1, <1>2 DEF WheelInv

LEMMA PlaceIs ==
  ASSUME jiffies \in Nat, NEW e \in Nat
  PROVE  Wheel!PlaceFor(e) \in Wheel!Places
<1>1. CASE jiffies <= e
  BY <1>1, PutAhead, SlotIs
<1>2. CASE e < jiffies
  BY <1>2, PutLate, SlotIs
<1>3. QED
  BY <1>1, <1>2

(* A step that concerns one timer.                                         *)
OthersRest(t) ==
  \A s \in TimerIds \ {t} :
    place'[s] = place[s] /\ expires'[s] = expires[s] /\ upc'[s] = upc[s] /\ fpc'[s] = fpc[s]

WheelType ==
  /\ place \in [TimerIds -> Wheel!Places \cup {Nowhere}]
  /\ expires \in [TimerIds -> Nat] /\ period \in [TimerIds -> Delays \cup {0}]
  /\ upc \in [TimerIds -> {"idle", "reset", "add"}]
  /\ fpc \in [TimerIds -> {"none", "due", "called", "again"}]

LEMMA WheelTypeIs ==
  ASSUME WheelInv
  PROVE  /\ WheelType
         /\ \A t \in TimerIds : place[t] # Nowhere => upc[t] = "idle" /\ fpc[t] = "none"
  BY DEF WheelInv, WheelType, Wheel!TypeOK

LEMMA OneTimerStep ==
  ASSUME WheelInv, NEW t \in TimerIds, jiffies' = jiffies, WheelType', OthersRest(t),
         upc'[t] # "idle" => fpc'[t] = "none",
         place'[t] # Nowhere => upc'[t] = "idle" /\ fpc'[t] = "none" /\ Waits(t)'
  PROVE  WheelInv'
<1>1. \A s \in TimerIds : place'[s] # Nowhere => upc'[s] = "idle" /\ fpc'[s] = "none"
  BY WheelTypeIs DEF OthersRest
<1>2. Wheel!TypeOK'
  BY <1>1 DEF WheelInv, Wheel!TypeOK, WheelType
<1>3. \A s \in TimerIds : upc'[s] # "idle" => fpc'[s] = "none"
  BY DEF WheelInv, OthersRest
<1>4. \A s \in TimerIds : place'[s] # Nowhere => Waits(s)'
  <2>1. SUFFICES ASSUME NEW s \in TimerIds \ {t}, place'[s] # Nowhere PROVE Waits(s)'
    OBVIOUS
  <2>2. Waits(s) /\ place'[s] = place[s] /\ expires'[s] = expires[s]
    BY <2>1 DEF WheelInv, OthersRest
  <2>3. QED
    BY <2>2 DEF Waits
<1>5. QED
  BY <1>2, <1>3, <1>4 DEF WheelInv

LEMMA AddTimerStep ==
  ASSUME WheelInv, NEW t \in TimerIds, Wheel!AddTimer(t), jiffies' = jiffies, expires' = expires
  PROVE  /\ place' \in [TimerIds -> Wheel!Places \cup {Nowhere}]
         /\ place'[t] # Nowhere /\ Waits(t)'
         /\ \A s \in TimerIds \ {t} : place'[s] = place[s]
<1>1. /\ jiffies \in Nat /\ expires[t] \in Nat
      /\ place \in [TimerIds -> Wheel!Places \cup {Nowhere}]
  BY WheelTypes, WheelTypeIs DEF WheelType
<1>2. Wheel!PlaceFor(expires[t]) \in Wheel!Places
  BY <1>1, PlaceIs
<1>3. /\ place'[t] = Wheel!PlaceFor(expires[t])
      /\ place' \in [TimerIds -> Wheel!Places \cup {Nowhere}]
      /\ \A s \in TimerIds \ {t} : place'[s] = place[s]
  BY <1>1, <1>2 DEF Wheel!AddTimer
<1>4. Waits(t)'
  <2>1. CASE jiffies <= expires[t]
    BY <1>1, <1>3, <2>1, PutAhead DEF Waits
  <2>2. CASE expires[t] < jiffies
    BY <1>1, <1>3, <2>2, PutLate DEF Waits
  <2>3. QED
    BY <1>1, <2>1, <2>2
<1>5. QED
  BY <1>2, <1>3, <1>4, WheelConstants

LEMMA TimerUserStep ==
  ASSUME WheelInv, NEW t \in TimerIds, Wheel!User(t)
  PROVE  WheelInv'
<1>1. /\ WheelType /\ jiffies \in Nat /\ (upc[t] # "idle" => fpc[t] = "none")
      /\ (place[t] # Nowhere => upc[t] = "idle" /\ fpc[t] = "none")
  BY WheelTypeIs, WheelTypes DEF WheelInv
<1>2. CASE Wheel!NewTimer(t)
  <2>1. place'[t] = Nowhere /\ fpc'[t] = "none" /\ jiffies' = jiffies /\ OthersRest(t)
    BY <1>1, <1>2 DEF Wheel!NewTimer, OthersRest, WheelType
  <2>2. WheelType'
    <3>1. /\ expires' \in [TimerIds -> Nat] /\ period' \in [TimerIds -> Delays \cup {0}]
      BY <1>1, <1>2, WheelConstants DEF Wheel!NewTimer, WheelType
    <3>2. QED
      BY <1>1, <1>2, <3>1 DEF Wheel!NewTimer, WheelType
  <2>3. QED
    BY <2>1, <2>2, OneTimerStep
<1>3. CASE Wheel!AddNew(t)
  <2>1. /\ place' \in [TimerIds -> Wheel!Places \cup {Nowhere}] /\ Waits(t)'
        /\ \A s \in TimerIds \ {t} : place'[s] = place[s]
    BY <1>3, AddTimerStep DEF Wheel!AddNew
  <2>2. upc'[t] = "idle" /\ fpc'[t] = "none" /\ jiffies' = jiffies /\ OthersRest(t)
    BY <1>1, <1>3, <2>1 DEF Wheel!AddNew, OthersRest, WheelType
  <2>3. WheelType'
    BY <1>1, <1>3, <2>1 DEF Wheel!AddNew, WheelType
  <2>4. QED
    BY <2>1, <2>2, <2>3, OneTimerStep
<1>4. CASE Wheel!Stop(t) \/ Wheel!ResetDel(t)
  <2>1. /\ place'[t] = Nowhere /\ fpc'[t] = "none" /\ jiffies' = jiffies /\ OthersRest(t)
    BY <1>1, <1>4 DEF Wheel!Stop, Wheel!ResetDel, Wheel!DelTimer, OthersRest, WheelType
  <2>2. WheelType'
    BY <1>1, <1>4 DEF Wheel!Stop, Wheel!ResetDel, Wheel!DelTimer, WheelType
  <2>3. QED
    BY <2>1, <2>2, OneTimerStep
<1>5. CASE Wheel!ResetExpires(t)
  <2>1. place'[t] = Nowhere /\ fpc'[t] = "none" /\ jiffies' = jiffies /\ OthersRest(t)
    BY <1>1, <1>5 DEF Wheel!ResetExpires, OthersRest, WheelType
  <2>2. WheelType'
    <3>1. /\ expires' \in [TimerIds -> Nat] /\ period' \in [TimerIds -> Delays \cup {0}]
      BY <1>1, <1>5, WheelConstants DEF Wheel!ResetExpires, WheelType
    <3>2. QED
      BY <1>1, <1>5, <3>1 DEF Wheel!ResetExpires, WheelType
  <2>3. QED
    BY <2>1, <2>2, OneTimerStep
<1>6. QED
  BY <1>2, <1>3, <1>4, <1>5 DEF Wheel!User

LEMMA TimerFunctionStep ==
  ASSUME WheelInv, NEW t \in TimerIds, Wheel!Function(t)
  PROVE  WheelInv'
<1>1. /\ WheelType /\ jiffies \in Nat /\ (upc[t] # "idle" => fpc[t] = "none")
      /\ (place[t] # Nowhere => upc[t] = "idle" /\ fpc[t] = "none")
  BY WheelTypeIs, WheelTypes DEF WheelInv
<1>2. CASE Wheel!Call(t)
  <2>1. place'[t] = Nowhere /\ upc'[t] = "idle" /\ jiffies' = jiffies /\ OthersRest(t)
    BY <1>1, <1>2 DEF Wheel!Call, OthersRest, WheelType
  <2>2. WheelType'
    BY <1>1, <1>2 DEF Wheel!Call, WheelType
  <2>3. QED
    BY <2>1, <2>2, OneTimerStep
<1>3. CASE Wheel!NextPeriod(t)
  <2>1. place'[t] = Nowhere /\ upc'[t] = "idle" /\ jiffies' = jiffies /\ OthersRest(t)
    BY <1>1, <1>3 DEF Wheel!NextPeriod, OthersRest, WheelType
  <2>2. WheelType'
    <3>1. period[t] \in Nat
      <4>1. period[t] \in Delays \cup {0}
        BY <1>1 DEF WheelType
      <4>2. \A d \in Delays \cup {0} : d \in Nat
        BY WheelConstants
      <4>3. QED
        BY <4>1, <4>2
    <3>2. expires' \in [TimerIds -> Nat]
      BY <1>1, <1>3, <3>1 DEF Wheel!NextPeriod, WheelType
    <3>3. QED
      BY <1>1, <1>3, <3>2 DEF Wheel!NextPeriod, WheelType
  <2>3. QED
    BY <2>1, <2>2, OneTimerStep
<1>4. CASE Wheel!AddAgain(t)
  <2>1. /\ place' \in [TimerIds -> Wheel!Places \cup {Nowhere}] /\ Waits(t)'
        /\ \A s \in TimerIds \ {t} : place'[s] = place[s]
    BY <1>4, AddTimerStep DEF Wheel!AddAgain
  <2>2. upc'[t] = "idle" /\ fpc'[t] = "none" /\ jiffies' = jiffies /\ OthersRest(t)
    BY <1>1, <1>4, <2>1 DEF Wheel!AddAgain, OthersRest, WheelType
  <2>3. WheelType'
    BY <1>1, <1>4, <2>1 DEF Wheel!AddAgain, WheelType
  <2>4. QED
    BY <2>1, <2>2, <2>3, OneTimerStep
<1>5. QED
  BY <1>2, <1>3, <1>4 DEF Wheel!Function

(* A tick makes a timer that is set due, or finds it a place.              *)
LEMMA ExpiredIs ==
  ASSUME WheelInv
  PROVE  Wheel!Expired = {t \in TimerIds : place[t] # Nowhere /\ expires[t] <= jiffies}
<1>1. SUFFICES ASSUME NEW t \in TimerIds
               PROVE  t \in Wheel!Expired <=> place[t] # Nowhere /\ expires[t] <= jiffies
  BY DEF Wheel!Expired
<1>2. CASE place[t] = Nowhere
  BY <1>2, UnsetStays
<1>3. CASE place[t] # Nowhere
  BY <1>3, SetTicks DEF Ticked, Wheel!Expired
<1>4. QED
  BY <1>2, <1>3

LEMMA TickedPlace ==
  ASSUME WheelInv, NEW t \in TimerIds
  PROVE  \/ Wheel!Refined(t) = Nowhere /\ place[t] = Nowhere
         \/ t \in Wheel!Expired /\ place[t] # Nowhere
         \/ /\ t \notin Wheel!Expired /\ place[t] # Nowhere
            /\ \E k \in 1..5, x \in Nat :
                 /\ Wheel!Refined(t) = Wheel!SlotOf(k, x)
                 /\ Ahead(k, x, expires[t], jiffies + 1)
<1>1. CASE place[t] = Nowhere
  BY <1>1, UnsetStays
<1>2. CASE place[t] # Nowhere /\ jiffies < expires[t]
  BY <1>2, SetTicks, ExpiredIs, WheelTypes DEF Ticked
<1>3. CASE place[t] # Nowhere /\ expires[t] <= jiffies
  BY <1>3, ExpiredIs
<1>4. QED
  BY <1>1, <1>2, <1>3, WheelTypes

LEMMA TickStep ==
  ASSUME WheelInv, Wheel!OnTick
  PROVE  WheelInv'
<1>1. /\ WheelType /\ jiffies \in Nat /\ jiffies' = jiffies + 1
      /\ expires' = expires /\ period' = period /\ upc' = upc
      /\ place' = [t \in TimerIds |-> IF t \in Wheel!Expired THEN Nowhere ELSE Wheel!Refined(t)]
      /\ fpc' = [t \in TimerIds |-> IF t \in Wheel!Expired THEN "due" ELSE fpc[t]]
  BY WheelTypeIs, WheelTypes DEF Wheel!OnTick
<1>2. ASSUME NEW t \in TimerIds
      PROVE  /\ place'[t] \in Wheel!Places \cup {Nowhere}
             /\ upc'[t] # "idle" => fpc'[t] = "none"
             /\ place'[t] # Nowhere => upc'[t] = "idle" /\ fpc'[t] = "none" /\ Waits(t)'
  <2>1. /\ place'[t] = (IF t \in Wheel!Expired THEN Nowhere ELSE Wheel!Refined(t))
        /\ fpc'[t] = IF t \in Wheel!Expired THEN "due" ELSE fpc[t]
    BY <1>1, <1>2
  <2>2. /\ upc[t] # "idle" => fpc[t] = "none"
        /\ place[t] # Nowhere => upc[t] = "idle" /\ fpc[t] = "none"
    BY <1>2, WheelTypeIs DEF WheelInv
  <2>3. CASE Wheel!Refined(t) = Nowhere /\ place[t] = Nowhere
    <3>1. t \notin Wheel!Expired
      BY <1>2, <2>3, UnsetStays
    <3>2. QED
      BY <1>1, <2>1, <2>2, <2>3, <3>1
  <2>4. CASE t \in Wheel!Expired /\ place[t] # Nowhere
    BY <1>1, <2>1, <2>2, <2>4
  <2>5. ASSUME t \notin Wheel!Expired, place[t] # Nowhere, NEW k \in 1..5, NEW x \in Nat,
               Wheel!Refined(t) = Wheel!SlotOf(k, x), Ahead(k, x, expires[t], jiffies + 1)
        PROVE  /\ place'[t] \in Wheel!Places \cup {Nowhere}
               /\ upc'[t] = "idle" /\ fpc'[t] = "none" /\ Waits(t)'
    <3>1. place'[t] = Wheel!SlotOf(k, x) /\ Ahead(k, x, expires'[t], jiffies')
      BY <1>1, <2>1, <2>5
    <3>2. Waits(t)'
      BY <3>1 DEF Waits
    <3>3. QED
      BY <1>1, <2>1, <2>2, <2>5, <3>1, <3>2, SlotIs
  <2>6. QED
    BY <1>2, <2>3, <2>4, <2>5, TickedPlace
<1>3. place' \in [TimerIds -> Wheel!Places \cup {Nowhere}]
  BY <1>1, <1>2
<1>4. fpc' \in [TimerIds -> {"none", "due", "called", "again"}]
  BY <1>1 DEF WheelType
<1>5. jiffies' \in 0..MaxJiffies
  BY <1>1, WheelConstants DEF Wheel!OnTick
<1>6. Wheel!TypeOK'
  BY <1>1, <1>2, <1>3, <1>4, <1>5 DEF Wheel!TypeOK, WheelType
<1>7. QED
  BY <1>2, <1>6 DEF WheelInv

LEMMA WheelStep ==
  ASSUME WheelInv, [Wheel!Next]_wheel
  PROVE  WheelInv'
<1>1. CASE UNCHANGED wheel
  BY <1>1 DEF wheel, WheelInv, Waits, Wheel!TypeOK
<1>2. CASE Wheel!Next
  BY <1>2, TickStep, TimerUserStep, TimerFunctionStep DEF Wheel!Next
<1>3. QED
  BY <1>1, <1>2

(* timer.go:171-209: whatever timers there are, however late they are      *)
(* added, a tick moves none to a slot it has still to spread.              *)
THEOREM WheelCorrect == MCSpec => []WheelInPlace
<1>1. MCInit => WheelInv
  BY WheelInit DEF MCInit
<1>2. WheelInv /\ [MCNext]_<<part, wheel, log, ring>> => WheelInv'
  <2> SUFFICES ASSUME WheelInv, [MCNext]_<<part, wheel, log, ring>> PROVE WheelInv'
    OBVIOUS
  <2>1. [Wheel!Next]_wheel
    BY DEF MCNext
  <2>2. QED
    BY <2>1, WheelStep
<1>3. WheelInv => WheelInPlace
  <2> SUFFICES ASSUME WheelInv PROVE WheelInPlace
    OBVIOUS
  <2>1. ASSUME NEW t \in TimerIds, Wheel!Spread(t), NEW c \in Wheel!Cascaded
        PROVE  Wheel!PlaceFor(expires[t]) # Wheel!SlotOf(c, jiffies)
    BY <2>1, UnsetStays, SetTicks DEF Ticked
  <2>2. Wheel!TypeOK
    BY DEF WheelInv
  <2>3. QED
    BY <2>1, <2>2 DEF WheelInPlace, Wheel!CascadeIsInPlace
<1>4. QED
  BY <1>1, <1>2, <1>3, PTL DEF MCSpec
-----------------------------------------------------------------------------
(* The timer wheel implements the timers of Timers.                        *)

Deadline == [t \in TimerIds |-> IF place[t] = Nowhere THEN Nowhere ELSE expires[t]]

DueNow == {t \in TimerIds : fpc[t] = "due"}

(* What Timers allows a tick, a user or a function, in these terms.        *)
ExactTick ==
  /\ jiffies' = jiffies + 1
  /\ \A t \in TimerIds :
       Deadline'[t] = IF Deadline[t] # Nowhere /\ Deadline[t] <= jiffies THEN Nowhere ELSE Deadline[t]
  /\ DueNow' = DueNow \cup {t \in TimerIds : Deadline[t] # Nowhere /\ Deadline[t] <= jiffies}

LEMMA ExactTickIs == ExactTick => Wheel!Exact!Tick
<1> SUFFICES ASSUME ExactTick PROVE Wheel!Exact!Tick
  OBVIOUS
<1>1. Wheel!Exact!Reached = {t \in TimerIds : Deadline[t] # Nowhere /\ Deadline[t] <= jiffies}
  BY DEF Wheel!Exact!Reached, Deadline
<1>2. Deadline' = [t \in TimerIds |-> IF t \in Wheel!Exact!Reached THEN Nowhere ELSE Deadline[t]]
  <2>1. \A t \in TimerIds :
          Deadline'[t] = IF t \in Wheel!Exact!Reached THEN Nowhere ELSE Deadline[t]
    BY <1>1 DEF ExactTick
  <2>2. Deadline' = [t \in TimerIds |-> Deadline'[t]]
    BY DEF Deadline
  <2>3. QED
    BY <2>1, <2>2
<1>3. DueNow' = DueNow \cup Wheel!Exact!Reached
  BY <1>1 DEF ExactTick
<1>4. QED
  BY <1>2, <1>3 DEF ExactTick, Wheel!Exact!Tick, Deadline, DueNow

LEMMA TickIsExact ==
  ASSUME WheelInv, Wheel!OnTick
  PROVE  Wheel!Exact!Tick
<1>1. /\ jiffies' = jiffies + 1 /\ expires' = expires
      /\ place' = [t \in TimerIds |-> IF t \in Wheel!Expired THEN Nowhere ELSE Wheel!Refined(t)]
      /\ fpc' = [t \in TimerIds |-> IF t \in Wheel!Expired THEN "due" ELSE fpc[t]]
  BY DEF Wheel!OnTick
<1>2. \A t \in TimerIds : t \in Wheel!Expired <=> Deadline[t] # Nowhere /\ Deadline[t] <= jiffies
  BY ExpiredIs, WheelTypes, WheelConstants DEF Deadline
<1>3. ASSUME NEW t \in TimerIds
      PROVE  Deadline'[t] = IF t \in Wheel!Expired THEN Nowhere ELSE Deadline[t]
  <2>1. place'[t] = (IF t \in Wheel!Expired THEN Nowhere ELSE Wheel!Refined(t))
    BY <1>1, <1>3
  <2>2. t \notin Wheel!Expired => (Wheel!Refined(t) = Nowhere <=> place[t] = Nowhere)
    BY <1>3, TickedPlace, SlotIs, WheelConstants
  <2>3. QED
    BY <1>1, <1>3, <2>1, <2>2 DEF Deadline
<1>4. DueNow' = DueNow \cup Wheel!Expired
  BY <1>1 DEF DueNow, Wheel!Expired
<1>5. ExactTick
  BY <1>1, <1>2, <1>3, <1>4 DEF ExactTick, Wheel!Expired
<1>6. QED
  BY <1>5, ExactTickIs

LEMMA SetIsExact ==
  ASSUME WheelInv, NEW t \in TimerIds, Wheel!AddNew(t) \/ Wheel!AddAgain(t)
  PROVE  Wheel!Exact!Set(t)
<1>1. /\ WheelType /\ expires[t] \in Nat
      /\ place[t] = Nowhere /\ fpc[t] # "due"
  BY WheelTypeIs, WheelTypes DEF WheelInv, Wheel!AddNew, Wheel!AddAgain
<1>2. /\ Wheel!AddTimer(t) /\ jiffies' = jiffies /\ expires' = expires
      /\ (fpc' = fpc \/ (fpc[t] = "again" /\ fpc' = [fpc EXCEPT ![t] = "none"]))
  BY DEF Wheel!AddNew, Wheel!AddAgain
<1>3. place'[t] # Nowhere /\ \A s \in TimerIds \ {t} : place'[s] = place[s]
  BY <1>2, AddTimerStep
<1>4. Deadline[t] = Nowhere /\ Deadline'[t] = expires[t]
  BY <1>1, <1>2, <1>3 DEF Deadline
<1>5. Deadline' = [Deadline EXCEPT ![t] = Deadline'[t]]
  BY <1>2, <1>3 DEF Deadline
<1>6. t \notin DueNow /\ DueNow' = DueNow
  BY <1>1, <1>2 DEF DueNow, WheelType
<1>7. QED
  BY <1>1, <1>2, <1>4, <1>5, <1>6 DEF Wheel!Exact!Set, Deadline, DueNow

LEMMA CancelIsExact ==
  ASSUME WheelInv, NEW t \in TimerIds, Wheel!Stop(t) \/ Wheel!ResetDel(t)
  PROVE  Wheel!Exact!Cancel(t)
<1>1. WheelType /\ expires[t] \in Nat
  BY WheelTypeIs, WheelTypes
<1>2. /\ place[t] # Nowhere /\ place' = [place EXCEPT ![t] = Nowhere]
      /\ jiffies' = jiffies /\ expires' = expires /\ fpc' = fpc
  BY DEF Wheel!Stop, Wheel!ResetDel, Wheel!DelTimer
<1>3. Deadline[t] # Nowhere
  BY <1>1, <1>2, WheelConstants DEF Deadline
<1>4. Deadline' = [Deadline EXCEPT ![t] = Nowhere]
  BY <1>1, <1>2 DEF Deadline, WheelType
<1>5. DueNow' = DueNow
  BY <1>2 DEF DueNow
<1>6. QED
  BY <1>2, <1>3, <1>4, <1>5 DEF Wheel!Exact!Cancel, Deadline, DueNow

LEMMA CallIsExact ==
  ASSUME WheelInv, NEW t \in TimerIds, Wheel!Call(t)
  PROVE  Wheel!Exact!Call(t)
<1>1. WheelType
  BY WheelTypeIs
<1>2. /\ fpc[t] = "due" /\ fpc' = [fpc EXCEPT ![t] = IF period[t] > 0 THEN "called" ELSE "none"]
      /\ jiffies' = jiffies /\ expires' = expires /\ place' = place
  BY DEF Wheel!Call
<1>3. Deadline' = Deadline
  BY <1>2 DEF Deadline
<1>4. t \in DueNow /\ DueNow' = DueNow \ {t}
  BY <1>1, <1>2 DEF DueNow, WheelType
<1>5. QED
  BY <1>2, <1>3, <1>4 DEF Wheel!Exact!Call, Deadline, DueNow

(* What computes expires concerns a timer that is not set.                 *)
LEMMA OtherStepsRest ==
  ASSUME WheelInv, NEW t \in TimerIds,
         Wheel!NewTimer(t) \/ Wheel!ResetExpires(t) \/ Wheel!NextPeriod(t)
  PROVE  UNCHANGED <<jiffies, Deadline, DueNow>>
<1>1. /\ WheelType /\ place[t] = Nowhere
  BY WheelTypeIs DEF Wheel!NewTimer, Wheel!ResetExpires, Wheel!NextPeriod
<1>2. /\ place' = place /\ jiffies' = jiffies
      /\ (fpc' = fpc \/ (fpc[t] = "called" /\ fpc' = [fpc EXCEPT ![t] = "again"]))
      /\ \A s \in TimerIds \ {t} : expires'[s] = expires[s]
  BY <1>1 DEF Wheel!NewTimer, Wheel!ResetExpires, Wheel!NextPeriod, WheelType
<1>3. Deadline' = Deadline
  BY <1>1, <1>2 DEF Deadline
<1>4. DueNow' = DueNow
  BY <1>1, <1>2 DEF DueNow, WheelType
<1>5. QED
  BY <1>2, <1>3, <1>4

LEMMA ExactStep ==
  ASSUME WheelInv, [Wheel!Next]_wheel
  PROVE  [Wheel!Exact!Next]_(Wheel!Exact!vars)
<1>1. UNCHANGED <<jiffies, Deadline, DueNow>> => UNCHANGED Wheel!Exact!vars
  BY DEF Wheel!Exact!vars, Deadline, DueNow
<1>2. CASE UNCHANGED wheel
  BY <1>1, <1>2 DEF wheel, Deadline, DueNow
<1>3. CASE Wheel!OnTick
  BY <1>3, TickIsExact DEF Wheel!Exact!Next
<1>4. ASSUME NEW t \in TimerIds, Wheel!User(t) \/ Wheel!Function(t)
      PROVE  [Wheel!Exact!Next]_(Wheel!Exact!vars)
  <2>1. CASE Wheel!AddNew(t) \/ Wheel!AddAgain(t)
    BY <1>4, <2>1, SetIsExact DEF Wheel!Exact!Next
  <2>2. CASE Wheel!Stop(t) \/ Wheel!ResetDel(t)
    BY <1>4, <2>2, CancelIsExact DEF Wheel!Exact!Next
  <2>3. CASE Wheel!Call(t)
    BY <1>4, <2>3, CallIsExact DEF Wheel!Exact!Next
  <2>4. CASE Wheel!NewTimer(t) \/ Wheel!ResetExpires(t) \/ Wheel!NextPeriod(t)
    BY <1>1, <1>4, <2>4, OtherStepsRest
  <2>5. QED
    BY <1>4, <2>1, <2>2, <2>3, <2>4 DEF Wheel!User, Wheel!Function
<1>5. QED
  BY <1>2, <1>3, <1>4 DEF Wheel!Next

(* timer.go:96-236: with any timers and delays, and with arrays of any     *)
(* sizes, a timer becomes due at the tick that reaches its deadline.       *)
THEOREM WheelIsExact == MCSpec => FiresOnTime
<1>1. MCInit => WheelInv /\ Wheel!Exact!Init
  <2> SUFFICES ASSUME MCInit PROVE WheelInv /\ Wheel!Exact!Init
    OBVIOUS
  <2>1. Wheel!Init
    BY DEF MCInit
  <2>2. QED
    BY <2>1, WheelInit DEF Wheel!Init, Wheel!Exact!Init
<1>2. ASSUME WheelInv, [MCNext]_<<part, wheel, log, ring>>
      PROVE  WheelInv' /\ [Wheel!Exact!Next]_(Wheel!Exact!vars)
  <2>1. [Wheel!Next]_wheel
    BY <1>2 DEF MCNext
  <2>2. QED
    BY <1>2, <2>1, WheelStep, ExactStep
<1>3. QED
  BY <1>1, <1>2, PTL DEF MCSpec, FiresOnTime, Wheel!FiresOnTime, Wheel!Exact!Spec
=============================================================================
