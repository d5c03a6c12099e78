-------------------------------- MODULE Snat --------------------------------
(***************************************************************************)
(* Source address translation of UDP (nat/snat.go, nat/conntrack.go): the  *)
(* packets of inside hosts go out with the address snatIP and a source     *)
(* port of their own, and what comes back to that port is sent to the      *)
(* host.  DoNat translates a packet in the goroutine that calls it (the    *)
(* one that was to do it, natHandle, is commented out), so several may be  *)
(* in it at once; the callbacks of timers run beside them.  No lock is     *)
(* held from one step to the next.                                         *)
(*                                                                         *)
(* One server is modelled, and one zone, so a tuple is an address and a    *)
(* port: <<h, p>> is from host h and its port p to the server, <<Snat, p>> *)
(* from the server to port p of snatIP, and <<Self, p>> the reply tuple    *)
(* that a connection gets which the server begins.                         *)
(***************************************************************************)
EXTENDS Integers, FiniteSets

CONSTANTS Hosts, Snat, Self,
          P,        \* ports are numbers modulo P: 2^16
          Used,     \* bound: the source ports hosts use
          Called,   \* bound: the ports of snatIP the server sends to
          Cts,      \* conntrack objects
          Callers,  \* who may be in DoNat
          None

ASSUME SnatAssumption ==
  /\ P \in Nat \ {0} /\ Used \cup Called \subseteq 0..P-1
  /\ {Snat, Self} \cap Hosts = {} /\ Snat # Self
  /\ None \notin Cts \cup ((Hosts \cup {Snat, Self}) \X (0..P-1))

Ports == 0..P-1
Tuples == (Hosts \cup {Snat, Self}) \X Ports

VARIABLES
  table,     \* nct.conntracks
  tuple,     \* ct.tuple: [orig, reply]
  status,    \* ct.status
  timer,     \* ct.timer: nil, not armed, or the function it is armed with
  moved,     \* ct.stats has changed since the timer was created
  cb,        \* where the callback of a ct's timer is
  pc,        \* where the callers are
  ct, pkt,   \* the connection and the tuple of the packet each has in hand
  held,      \* the timer it is about to stop is still ct.timer
  owner,     \* whose packet was last sent out with a port
  raced,     \* a call has made a connection while another was under way
  down       \* Stop of a timer that is nil

conn == <<tuple, status, timer, moved>>
calls == <<pc, ct, pkt, held>>
vars == <<table, conn, cb, calls, owner, raced, down>>

Set(f, x, y) == [f EXCEPT ![x] = y]
NoTuple == [orig |-> None, reply |-> None]

Init ==
  /\ table = [t \in Tuples |-> None]
  /\ tuple = [c \in Cts |-> NoTuple] /\ status = [c \in Cts |-> "NEW"]
  /\ timer = [c \in Cts |-> "none"] /\ moved = [c \in Cts |-> FALSE]
  /\ cb = [c \in Cts |-> "none"]
  /\ pc = [x \in Callers |-> "idle"] /\ ct = [x \in Callers |-> None]
  /\ pkt = [x \in Callers |-> None] /\ held = [x \in Callers |-> FALSE]
  /\ owner = [p \in Ports |-> None]
  /\ raced = FALSE /\ down = FALSE
-----------------------------------------------------------------------------
(* A host sends, or the server does, be there a connection or not.         *)
Packets == (Hosts \X Used) \cup ({Snat} \X Called)

InHand(c) == \E x \in Callers : ct[x] = c
Free(c) == (\A t \in Tuples : table[t] # c) /\ timer[c] \in {"nil", "none"} /\ cb[c] = "none" /\ ~ InHand(c)

(* CreateConntrack, with the reply tuple of getUniqueTuple before it has   *)
(* looked for a port: that of the host.  The object is a new one, which    *)
(* only the caller knows.                                                  *)
Reply(t) == IF t[1] = Snat THEN <<Self, t[2]>> ELSE <<Snat, t[2]>>

Making(y) == pc[y] \in {"search", "confirm", "out", "arm"}

(* udpHandler: findConntrack under the table's read lock. *)
FindConntrack(x) ==
  \E t \in Packets :
    /\ pc[x] = "idle" /\ pkt' = Set(pkt, x, t)
    /\ IF table[t] # None
       THEN /\ pc' = Set(pc, x, "nat") /\ ct' = Set(ct, x, table[t])
            /\ raced' = (raced \/ \E y \in Callers \ {x} : Making(y))
            /\ UNCHANGED <<tuple, status, timer, moved>>
       ELSE /\ \E c \in Cts : Free(c)
            /\ LET c == CHOOSE k \in Cts : Free(k) IN
               /\ ct' = Set(ct, x, c)
               /\ tuple' = Set(tuple, c, [orig |-> t, reply |-> Reply(t)])
               /\ status' = Set(status, c, "NEW") /\ moved' = Set(moved, c, FALSE)
               /\ timer' = Set(timer, c, "nil")
            /\ pc' = Set(pc, x, "search")
            /\ raced' = (raced \/ \E y \in Callers \ {x} : pc[y] # "idle")
    /\ UNCHANGED <<table, cb, held, owner, down>>

(* getUniqueTuple tries one port after the other, if need be for ever;     *)
(* each is looked up, and the connection then added, in a critical section *)
(* of its own.                                                             *)
NextPort(p) == (p + 1) % P

AlwaysFree(t) == TRUE   \* mutant: the reply tuple is not looked up
IsUnique(t) == table[t] = None

GetUniqueTuple(x) ==
  LET r == tuple[ct[x]].reply IN
  /\ pc[x] = "search"
  /\ IF IsUnique(r)
     THEN pc' = Set(pc, x, "confirm") /\ UNCHANGED tuple
     ELSE tuple' = [tuple EXCEPT ![ct[x]].reply = <<r[1], NextPort(r[2])>>] /\ UNCHANGED pc
  /\ UNCHANGED <<table, status, timer, moved, cb, ct, pkt, held, owner, raced, down>>

Keys(c) == {tuple[c].orig, tuple[c].reply}

CtConfirm(x) ==
  /\ pc[x] = "confirm" /\ pc' = Set(pc, x, "out")
  /\ table' = [t \in Tuples |-> IF t \in {tuple[ct[x]].orig, tuple[ct[x]].reply} THEN ct[x] ELSE table[t]]
  /\ UNCHANGED <<conn, cb, ct, pkt, held, owner, raced, down>>

(* doNat: out with the reply tuple's port, or in to the origin of ct.  Of  *)
(* a packet that makes a connection udpHandler does not set the direction: *)
(* it is whatever its buffer was last used for, and as a reply the packet  *)
(* goes back to where it came from.                                        *)
Sends(c, h) == IF h \in Hosts \X Ports THEN Set(owner, tuple[c].reply[2], h) ELSE owner
Retains(c, h) == IF h \in Hosts \X Ports THEN Set(owner, tuple[c].reply[2], None) ELSE owner

DoNatNew(x) ==
  /\ pc[x] = "out" /\ pc' = Set(pc, x, "arm")
  /\ owner' \in {Sends(ct[x], pkt[x]), Retains(ct[x], pkt[x])}
  /\ UNCHANGED <<table, conn, cb, ct, pkt, held, raced, down>>

Done(x) == pc' = Set(pc, x, "idle") /\ ct' = Set(ct, x, None) /\ pkt' = Set(pkt, x, None)

(* ct.timer becomes another timer. *)
Replaced(c) == held' = [x \in Callers |-> held[x] /\ ct[x] # c]

ArmNew(x) ==
  /\ pc[x] = "arm" /\ Done(x)
  /\ timer' = Set(timer, ct[x], "del") /\ Replaced(ct[x])
  /\ UNCHANGED <<table, tuple, status, moved, cb, owner, raced, down>>

IsReply(x) == pkt[x] # tuple[ct[x]].orig       \* Dir

DoNat(x) ==
  /\ pc[x] = "nat" /\ pc' = Set(pc, x, "count")
  /\ owner' = IF IsReply(x) THEN owner ELSE Sends(ct[x], pkt[x])
  /\ UNCHANGED <<table, conn, cb, ct, pkt, held, raced, down>>

(* Where a packet that was not the first of its connection has just gone,  *)
(* if it was a reply.                                                      *)
To(x) == IF pc[x] = "count" /\ IsReply(x) THEN tuple[ct[x]].orig ELSE None

Count(x) ==
  /\ pc[x] = "count"
  /\ moved' = Set(moved, ct[x], TRUE)
  /\ IF status[ct[x]] # "ESTABLISHED" /\ IsReply(x)
     THEN pc' = Set(pc, x, "load") /\ UNCHANGED <<ct, pkt>>
     ELSE Done(x)
  /\ UNCHANGED <<table, tuple, status, timer, cb, held, owner, raced, down>>

(* ct.timer is read, and may be another when Stop is called. *)
Load(x) ==
  /\ pc[x] = "load"
  /\ IF timer[ct[x]] = "nil"
     THEN down' = TRUE /\ UNCHANGED <<pc, held>>
     ELSE pc' = Set(pc, x, "stop") /\ held' = Set(held, x, TRUE) /\ UNCHANGED down
  /\ UNCHANGED <<table, conn, cb, ct, pkt, owner, raced>>

TrustsStop(x) == TRUE   \* mutant: what Stop returns is ignored
StopOk(x) == held[x] /\ timer[ct[x]] # "none"

Stop(x) ==
  /\ pc[x] = "stop"
  /\ timer' = IF held[x] THEN Set(timer, ct[x], "none") ELSE timer
  /\ held' = Set(held, x, FALSE)
  /\ IF StopOk(x)
     THEN pc' = Set(pc, x, "status") /\ UNCHANGED <<ct, pkt>>
     ELSE Done(x)
  /\ UNCHANGED <<table, tuple, status, moved, cb, owner, raced, down>>

SetEstablished(x) ==
  /\ pc[x] = "status" /\ pc' = Set(pc, x, "est")
  /\ status' = Set(status, ct[x], "ESTABLISHED")
  /\ UNCHANGED <<table, tuple, timer, moved, cb, ct, pkt, held, owner, raced, down>>

ArmEstablished(x) ==
  /\ pc[x] = "est" /\ Done(x)
  /\ timer' = Set(timer, ct[x], "est") /\ moved' = Set(moved, ct[x], FALSE) /\ Replaced(ct[x])
  /\ UNCHANGED <<table, tuple, status, cb, owner, raced, down>>
-----------------------------------------------------------------------------
(* A timer expires: its callback runs. *)
Expire(c) ==
  /\ timer[c] \in {"del", "est"} /\ cb[c] = "none"
  /\ timer' = Set(timer, c, "none") /\ cb' = Set(cb, c, timer[c])
  /\ UNCHANGED <<table, tuple, status, moved, calls, owner, raced, down>>

(* ctTimeoutDel *)
MarkDel(c) ==
  /\ cb[c] = "del" /\ cb' = Set(cb, c, "remove")
  /\ status' = Set(status, c, "DEL")
  /\ UNCHANGED <<table, tuple, timer, moved, calls, owner, raced, down>>

DelConntrack(c) ==
  /\ cb[c] = "remove" /\ cb' = Set(cb, c, "none")
  /\ table' = [t \in Tuples |-> IF t \in Keys(c) THEN None ELSE table[t]]
  /\ UNCHANGED <<conn, calls, owner, raced, down>>

(* ctESTABLISHEDTimeout: again if the counters have moved, else to the end. *)
ArmsAgain(c) == "est"

EstablishedTimeout(c) ==
  /\ cb[c] = "est"
  /\ IF status[c] = "DEL"
     THEN cb' = Set(cb, c, "none") /\ UNCHANGED <<timer, status, moved, held>>
     ELSE IF moved[c]
     THEN /\ timer' = Set(timer, c, ArmsAgain(c)) /\ moved' = Set(moved, c, FALSE) /\ Replaced(c)
          /\ cb' = Set(cb, c, "none") /\ UNCHANGED status
     ELSE status' = Set(status, c, "DEL") /\ cb' = Set(cb, c, "last") /\ UNCHANGED <<timer, moved, held>>
  /\ UNCHANGED <<table, tuple, pc, ct, pkt, owner, raced, down>>

ArmDel(c) ==
  /\ cb[c] = "last" /\ cb' = Set(cb, c, "none")
  /\ timer' = Set(timer, c, "del") /\ Replaced(c)
  /\ UNCHANGED <<table, tuple, status, moved, pc, ct, pkt, owner, raced, down>>

Translate(x) ==
  \/ FindConntrack(x) \/ GetUniqueTuple(x) \/ CtConfirm(x) \/ DoNatNew(x) \/ ArmNew(x)
  \/ DoNat(x) \/ Count(x) \/ Load(x) \/ Stop(x) \/ SetEstablished(x) \/ ArmEstablished(x)

Timer(c) == Expire(c) \/ MarkDel(c) \/ DelConntrack(c) \/ EstablishedTimeout(c) \/ ArmDel(c)

Next == ~ down /\ ((\E x \in Callers : Translate(x)) \/ (\E c \in Cts : Timer(c)))

Spec == Init /\ [][Next]_vars
-----------------------------------------------------------------------------
(* Type invariant: who has a connection in hand, has its tuples. *)
TypeOK ==
  /\ table \in [Tuples -> Cts \cup {None}]
  /\ tuple \in [Cts -> [orig : Tuples, reply : Tuples] \cup {NoTuple}]
  /\ status \in [Cts -> {"NEW", "ESTABLISHED", "DEL"}] /\ moved \in [Cts -> BOOLEAN]
  /\ timer \in [Cts -> {"nil", "none", "del", "est"}]
  /\ cb \in [Cts -> {"none", "del", "remove", "est", "last"}]
  /\ pc \in [Callers -> {"idle", "search", "confirm", "out", "arm", "nat", "count", "load", "stop", "status", "est"}]
  /\ pkt \in [Callers -> Tuples \cup {None}]
  /\ held \in [Callers -> BOOLEAN] /\ owner \in [Ports -> Tuples \cup {None}]
  /\ raced \in BOOLEAN /\ down \in BOOLEAN /\ ct \in [Callers -> Cts \cup {None}]
  /\ \A x \in Callers : IF pc[x] = "idle" THEN ct[x] = None ELSE ct[x] # None /\ tuple[ct[x]] # NoTuple

(* conntrack.go:124 and snat.go:351: unless a call that makes a connection *)
(* overlaps another call, a connection is in the table under both its      *)
(* tuples or under none: no port stays taken by a connection that is gone, *)
(* and none is overwritten by another.                                     *)
BothWays ==
  ~ raced => \A c \in Cts : LET S == {t \in Tuples : table[t] = c} IN S = {} \/ S = Keys(c)

(* snat.go:279: unless a call that makes a connection overlaps another     *)
(* call, what comes back to a port of snatIP goes to the host whose packet *)
(* was the last to leave by that port, however often the port has changed  *)
(* hands, if any has left since.                                           *)
RightHost ==
  \A x \in Callers : ~ raced /\ To(x) # None /\ pkt[x][1] = Snat =>
    owner[pkt[x][2]] \in {To(x), None}

(* snat.go:221 and 251: whoever is in DoNat, a connection that is in the   *)
(* table has a timer that is armed, a callback that is running, or a       *)
(* caller about to arm one: it cannot be forgotten there.                  *)
HasTimer ==
  \A c \in Cts : (\E t \in Tuples : table[t] = c) =>
    \/ timer[c] \in {"del", "est"} \/ cb[c] # "none"
    \/ \E x \in Callers : ct[x] = c /\ pc[x] \in {"out", "arm", "status", "est"}

(* conntrack.go:213 and snat.go:260: whoever is in DoNat, at most one of   *)
(* them.                                                                   *)
OneTimer ==
  \A c \in Cts :
    /\ ~ (timer[c] \in {"del", "est"} /\ cb[c] # "none")
    /\ \A x \in Callers : ct[x] = c /\ pc[x] \in {"status", "est"} =>
         /\ timer[c] = "none" /\ cb[c] = "none"
         /\ \A y \in Callers \ {x} : ~ (ct[y] = c /\ pc[y] \in {"status", "est"})

(* snat.go:260: a reply ends the process at a timer that is not there yet  *)
(* only if it has overtaken the call that made the connection.             *)
StopsATimer == down => raced

(* Together: the table is consistent and every connection in it will go.   *)
TableSafe == TypeOK /\ BothWays /\ HasTimer /\ OneTimer /\ StopsATimer
=============================================================================
