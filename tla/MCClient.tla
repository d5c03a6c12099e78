------------------------------ MODULE MCClient ------------------------------
(***************************************************************************)
(* The life of a client, dialed or accepted, for TLC.  FDBs are joined and *)
(* quit by the reader, the owner and the updater, and each of these sends  *)
(* to the client, too.  To an accepted client, which has no owner and no   *)
(* updater, a foreign goroutine may flood packets: then pc has a place for *)
(* it.  That a flood holds a port map only delays a step, and whatever is  *)
(* reached with it is reached without: MCClientLive has it.                *)
(***************************************************************************)
EXTENDS ClientLife

Flooded == INSTANCE ClientLife WITH Forwarders <- {"fwd"}

ASSUME Flooded!ClientLifeAssumption

MCInit == Init \/ (Flooded!Init /\ ~ dialed)

MCNext ==
  /\ Next \/ ("fwd" \in DOMAIN pc /\ Flooded!Forwarder("fwd"))
  /\ ~ flooded'

MCSpec == MCInit /\ [][MCNext]_vars
=============================================================================
