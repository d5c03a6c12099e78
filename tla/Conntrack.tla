------------------------------ MODULE Conntrack ------------------------------
(***************************************************************************)
(* The connection tracking of one zone (netstat/net.go, conntrack.go): the *)
(* table of connections under both of their tuples, the status of each and *)
(* the timer behind each.                                                  *)
(*                                                                         *)
(* One goroutine, netStatHandle, handles the packets one by one.  The      *)
(* callbacks of expired timers run on goroutines of their own, so at any   *)
(* point of a handler.  A connection has a lock, but only the handler of   *)
(* FIN and RST and the callback ctESTABLISHEDTimeout take it; the others   *)
(* rely on what Stop and Reset of the timer return.                        *)
(*                                                                         *)
(* There is no time: a pending timer may expire at any step.  Only between *)
(* the Stop or Reset of a timer and the assignments next to it none does   *)
(* (the shortest timer has 3 s).  Of the byte counts stats only matters    *)
(* whether they changed since the established timer was armed.             *)
(***************************************************************************)
EXTENDS Integers

CONSTANTS Protos,     \* protocols: a subset of {"tcp", "udp"}
          EndPoints,  \* the ends of the connections
          Cts,        \* the conntrack objects; one that nothing refers to is used again
          NoCt        \* nil

ASSUME ConntrackAssumption ==
  /\ Protos \subseteq {"tcp", "udp"}
  /\ NoCt \notin Cts

Tuples == EndPoints \X EndPoints

Invert(t) == <<t[2], t[1]>>

Kinds(p) == IF p = "tcp" THEN {"syn", "synack", "ack", "fin", "data"} ELSE {"data"}

VARIABLES proto,
          conntracks,  \* the table: tuple to connection
          status,      \* "NEW", "REPLY", "ESTABLISHED", "DEL"; "unused" for an object never used
          origin,      \* ct.tuple[ctOrigin]
          timer,       \* ct.timer: "none", or the callback it is pending for: "del" or "est"
          callback,    \* the callback that runs for ct: "none", "del", "remove" or "est"
          changed,     \* stats differ from the copy the established timer got
          hpc,         \* where netStatHandle is
          ct,          \* the connection it handles
          pkt          \* the packet it handles: its tuple and its kind

ctVars == <<conntracks, status, origin, timer, callback, changed>>
vars == <<proto, ctVars, hpc, ct, pkt>>

InTable(c) == \E t \in Tuples : conntracks[t] = c

(* Nothing refers to the object any more. *)
Collected(c) ==
  ~ InTable(c) /\ timer[c] = "none" /\ callback[c] = "none" /\ status[c] \in {"unused", "DEL"}

NoPkt == [tuple |-> <<>>, kind |-> "none"]

Init ==
  /\ proto \in Protos
  /\ conntracks = [t \in Tuples |-> NoCt]
  /\ status = [c \in Cts |-> "unused"]
  /\ \E t \in Tuples : origin = [c \in Cts |-> t]
  /\ timer = [c \in Cts |-> "none"] /\ callback = [c \in Cts |-> "none"]
  /\ changed = [c \in Cts |-> FALSE]
  /\ hpc = "idle" /\ ct = NoCt /\ pkt = NoPkt
-----------------------------------------------------------------------------
(* netStatHandle *)

Done == hpc' = "idle" /\ ct' = NoCt /\ pkt' = NoPkt

Continue(l) == hpc' = l /\ UNCHANGED <<ct, pkt>>

SetStatus(s) == status' = [status EXCEPT ![ct] = s]
SetTimer(k) == timer' = [timer EXCEPT ![ct] = k]

(* Stop and Reset return true: the timer has not expired. *)
Pending == timer[ct] # "none"

Dir(t) == IF origin[ct] = t THEN "origin" ELSE "reply"

IsTracked(t) == conntracks[t] # NoCt

(* findConntrack.  A packet that finds nothing and creates nothing has no  *)
(* effect, and neither has a repeated SYN: it restarts the pending timer.  *)
Found ==
  /\ hpc = "idle"
  /\ \E t \in Tuples, k \in Kinds(proto) \ {"syn"} :
       /\ IsTracked(t)
       /\ ct' = conntracks[t]
       /\ pkt' = [tuple |-> t, kind |-> k]
  /\ hpc' = "test"
  /\ UNCHANGED <<proto, ctVars>>

CreatesAlways(t) == TRUE     \* mutant: created without looking

IsNew(t) == conntracks[t] = NoCt

(* The first packet of a UDP flow, or an outbound SYN. *)
NotFound ==
  /\ hpc = "idle"
  /\ \E t \in Tuples, k \in Kinds(proto) :
       /\ IsNew(t)
       /\ proto = "tcp" => k = "syn"
       /\ pkt' = [tuple |-> t, kind |-> k]
  /\ hpc' = "create"
  /\ UNCHANGED <<proto, ctVars, ct>>

OneEntry(c) == conntracks' = [conntracks EXCEPT ![pkt.tuple] = c]   \* mutant: one key only

AddConntrack(c) == conntracks' = [conntracks EXCEPT ![pkt.tuple] = c, ![Invert(pkt.tuple)] = c]

CreateConntrack ==
  /\ hpc = "create"
  /\ \E c \in Cts :
       /\ Collected(c)
       /\ origin' = [origin EXCEPT ![c] = pkt.tuple]
       /\ status' = [status EXCEPT ![c] = "NEW"]
       /\ AddConntrack(c)
       /\ ct' = c
  /\ hpc' = "arm"
  /\ UNCHANGED <<proto, timer, callback, changed, pkt>>

ArmNew ==
  /\ hpc = "arm"
  /\ SetTimer("del")
  /\ Done
  /\ UNCHANGED <<proto, conntracks, status, origin, callback, changed>>

TestDel ==
  /\ hpc = "test"
  /\ IF status[ct] = "DEL" THEN Done ELSE Continue("count")
  /\ UNCHANGED <<proto, ctVars>>

CountStats ==
  /\ hpc = "count"
  /\ changed' = [changed EXCEPT ![ct] = TRUE]
  /\ Continue(IF pkt.kind = "fin" THEN "lock" ELSE "act")
  /\ UNCHANGED <<proto, conntracks, status, origin, timer, callback>>

(* FIN or RST: ct.Lock(). *)
FinLock ==
  /\ hpc = "lock"
  /\ IF status[ct] = "DEL" THEN Done /\ UNCHANGED status
                           ELSE Continue("stop") /\ SetStatus("DEL")
  /\ UNCHANGED <<proto, conntracks, origin, timer, callback, changed>>

(* A new timer only if the old one was stopped; then ct.Unlock(). *)
FinStop ==
  /\ hpc = "stop"
  /\ SetTimer(IF Pending THEN "del" ELSE timer[ct])
  /\ Done
  /\ UNCHANGED <<proto, conntracks, status, origin, callback, changed>>

(* tcpHandler and udpHandler from the test of CT_ESTABLISHED to the end. *)
IsSynAck == proto = "tcp" /\ pkt.kind = "synack" /\ Dir(pkt.tuple) = "reply"

Completes ==
  \/ proto = "tcp" /\ pkt.kind = "ack" /\ status[ct] = "REPLY"
  \/ proto = "udp" /\ Dir(pkt.tuple) = "reply"

NoChange ==
  /\ hpc = "act"
  /\ status[ct] = "ESTABLISHED" \/ ~ (IsSynAck \/ Completes)
  /\ Done
  /\ UNCHANGED <<proto, ctVars>>

TrustsReset == TRUE          \* mutant: what Reset returns is not looked at

ResetOk == Pending

(* SYN-RCVD.  Reset restarts the pending timer. *)
SynAck ==
  /\ hpc = "act" /\ status[ct] # "ESTABLISHED" /\ IsSynAck
  /\ IF ResetOk THEN SetStatus("REPLY") ELSE UNCHANGED status
  /\ Done
  /\ UNCHANGED <<proto, conntracks, origin, timer, callback, changed>>

TrustsStop == TRUE           \* mutant: what Stop returns is not looked at

StopOk == Pending

Establish ==
  /\ hpc = "act" /\ status[ct] # "ESTABLISHED" /\ Completes
  /\ IF StopOk
       THEN /\ SetStatus("ESTABLISHED")
            /\ SetTimer("est")
            /\ changed' = [changed EXCEPT ![ct] = FALSE]
       ELSE UNCHANGED <<status, timer, changed>>
  /\ Done
  /\ UNCHANGED <<proto, conntracks, origin, callback>>
-----------------------------------------------------------------------------
(* The timers *)

Expire(c) ==
  /\ timer[c] # "none"
  /\ timer' = [timer EXCEPT ![c] = "none"]
  /\ callback' = [callback EXCEPT ![c] = timer[c]]
  /\ UNCHANGED <<proto, conntracks, status, origin, changed, hpc, ct, pkt>>

(* ctTimeoutDel, without the lock of the connection. *)
TimeoutDel(c) ==
  /\ callback[c] = "del"
  /\ status' = [status EXCEPT ![c] = "DEL"]
  /\ callback' = [callback EXCEPT ![c] = "remove"]
  /\ UNCHANGED <<proto, conntracks, origin, timer, changed, hpc, ct, pkt>>

Keys(c) == {origin[c], Invert(origin[c])}

(* delConntrack deletes whatever is in the table under the two tuples. *)
DelConntrack(c) ==
  /\ callback[c] = "remove"
  /\ conntracks' = [t \in Tuples |-> IF t \in Keys(c) THEN NoCt ELSE conntracks[t]]
  /\ callback' = [callback EXCEPT ![c] = "none"]
  /\ UNCHANGED <<proto, status, origin, timer, changed, hpc, ct, pkt>>

ArmsNothing(c) == timer' = [timer EXCEPT ![c] = "none"]   \* mutant: no ctTimeoutDel follows

ArmDel(c) == timer' = [timer EXCEPT ![c] = "del"]

(* ctESTABLISHEDTimeout, under the lock of the connection. *)
EstablishedTimeout(c) ==
  /\ callback[c] = "est"
  /\ ~ (hpc = "stop" /\ ct = c)
  /\ IF status[c] = "DEL" THEN UNCHANGED <<status, timer, changed>>
     ELSE IF changed[c]
       THEN /\ timer' = [timer EXCEPT ![c] = "est"]
            /\ changed' = [changed EXCEPT ![c] = FALSE]
            /\ UNCHANGED status
       ELSE /\ ArmDel(c)
            /\ status' = [status EXCEPT ![c] = "DEL"]
            /\ UNCHANGED changed
  /\ callback' = [callback EXCEPT ![c] = "none"]
  /\ UNCHANGED <<proto, conntracks, origin, hpc, ct, pkt>>
-----------------------------------------------------------------------------
Receive == Found \/ NotFound

Handle ==
  \/ CreateConntrack \/ ArmNew \/ TestDel \/ CountStats \/ FinLock \/ FinStop
  \/ NoChange \/ SynAck \/ Establish

Callback(c) == TimeoutDel(c) \/ DelConntrack(c) \/ EstablishedTimeout(c)

Next == Receive \/ Handle \/ \E c \in Cts : Expire(c) \/ Callback(c)

Spec == Init /\ [][Next]_vars

(* The goroutines are scheduled and the timers expire; which packets come  *)
(* is up to the network.                                                   *)
Fairness ==
  /\ WF_vars(Handle)
  /\ \A c \in Cts : WF_vars(Expire(c)) /\ WF_vars(Callback(c))

FairSpec == Spec /\ Fairness
-----------------------------------------------------------------------------
Statuses == {"unused", "NEW", "REPLY", "ESTABLISHED", "DEL"}

(* Type invariant; the handler has a connection in hand from the lookup on. *)
TypeOK ==
  /\ proto \in Protos
  /\ conntracks \in [Tuples -> Cts \cup {NoCt}]
  /\ status \in [Cts -> Statuses]
  /\ origin \in [Cts -> Tuples]
  /\ timer \in [Cts -> {"none", "del", "est"}]
  /\ callback \in [Cts -> {"none", "del", "remove", "est"}]
  /\ changed \in [Cts -> BOOLEAN]
  /\ hpc \in {"idle", "create", "arm", "test", "count", "lock", "stop", "act"}
  /\ ct \in Cts \cup {NoCt}
  /\ hpc \notin {"idle", "create"} => ct \in Cts
  /\ hpc # "idle" => pkt \in [tuple : Tuples, kind : Kinds(proto)]

(* A connection is found from both directions or from neither, and under   *)
(* its own tuples only.                                                    *)
BothWays ==
  \A c \in Cts : {t \in Tuples : conntracks[t] = c} \in {{}, {origin[c], Invert(origin[c])}}

(* What the comment "make sure there is no same conntrack" on              *)
(* CreateConntrack asks for and delConntrack takes for granted: a          *)
(* connection in the table is never overwritten by another, and is only    *)
(* removed by its own ctTimeoutDel, never by a late one of a predecessor   *)
(* with the same tuples.                                                   *)
OwnRemoval ==
  \A t \in Tuples : conntracks[t] \in Cts /\ conntracks'[t] # conntracks[t] =>
    /\ conntracks'[t] = NoCt
    /\ callback[conntracks[t]] = "remove"

OnlyOwnRemoval == [][OwnRemoval]_vars

(* A connection that is alive has exactly one timer behind it: pending for *)
(* the callback of its status, or expired with that callback under way.    *)
(* So none lives for ever and none is timed out twice.                     *)
OneTimer ==
  \A c \in Cts : status[c] \in {"NEW", "REPLY", "ESTABLISHED"} /\ ~ (hpc = "arm" /\ ct = c) =>
    LET k == IF status[c] = "ESTABLISHED" THEN "est" ELSE "del" IN
      <<timer[c], callback[c]>> \in {<<k, "none">>, <<"none", k>>}

(* The handler writes status after Stop or Reset without the lock.  Still, *)
(* once ctTimeoutDel has marked a connection it stays CT_DEL, in the table *)
(* and out of it: "if check timer.Stop, if means there is no ctTimeoutDel  *)
(* handling at the same time" (net.go).                                    *)
DeletedStaysDel ==
  \A c \in Cts : status[c] # "unused" /\ (~ InTable(c) \/ callback[c] = "remove") => status[c] = "DEL"

(* The comment in ctESTABLISHEDTimeout, "if receive rst or fin packet, ct  *)
(* is CT_DEL, and have lunch ctTimeoutDel, so just return": a connection   *)
(* that is CT_DEL and still in the table is about to be removed.           *)
Leaked(c) ==
  /\ status[c] = "DEL" /\ InTable(c) /\ ~ (hpc = "stop" /\ ct = c)
  /\ timer[c] # "del" /\ callback[c] \notin {"del", "remove"}

DelIsArmed == \A c \in Cts : ~ Leaked(c)

(* When no more packets come every connection is forgotten, for good, but  *)
(* for those of TCP that leaked: UDP has no FIN.                           *)
IdleIsForgotten ==
  <>[](hpc = "idle") => <>[](\A c \in Cts : InTable(c) => proto = "tcp" /\ Leaked(c))
=============================================================================
