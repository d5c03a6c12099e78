------------------------------ MODULE Failover ------------------------------
(***************************************************************************)
(* What a backup link promises: of the links that are up at most one is    *)
(* active; a link becomes active only while it is up and no other is       *)
(* active, and gives way only after it has gone down.  BackupLink, after   *)
(* vnet/bakLink.go, implements this.                                       *)
(***************************************************************************)
CONSTANTS Links,   \* every link ever dialed
          None     \* no link

VARIABLES up,      \* the links that are registered and not closed
          active   \* the link that carries the traffic, or None

Init == up = {} /\ active = None

Register(s) == up' = up \cup {s} /\ UNCHANGED active

GoDown(s) == s \in up /\ up' = up \ {s} /\ UNCHANGED active

Activate(s) == active = None /\ s \in up /\ active' = s /\ UNCHANGED up

Deactivate == active # None /\ active \notin up /\ active' = None /\ UNCHANGED up

Next == Deactivate \/ \E s \in Links : Register(s) \/ GoDown(s) \/ Activate(s)

Spec == Init /\ [][Next]_<<up, active>>
=============================================================================
