------------------------------ MODULE PortAlloc ------------------------------
(***************************************************************************)
(* What the port numbers of a forwarding database promise, whatever the    *)
(* data structure behind them: a number is given to a client only while    *)
(* nobody owns it, and goes back only from the client that owns it.        *)
(* FdbPort implements this with the linked free list of fdb/port.go.       *)
(***************************************************************************)
CONSTANTS Clients,   \* the clients that join the FDB
          PortIds    \* the port numbers

VARIABLE owned       \* owned[c]: the numbers client c owns

Unowned == PortIds \ UNION {owned[c] : c \in Clients}

Init == owned = [c \in Clients |-> {}]

Alloc(c) == \E p \in Unowned : owned' = [owned EXCEPT ![c] = @ \cup {p}]

Release(c) == \E p \in owned[c] : owned' = [owned EXCEPT ![c] = @ \ {p}]

Next == \E c \in Clients : Alloc(c) \/ Release(c)

Spec == Init /\ [][Next]_owned
=============================================================================
