---------------------------- MODULE MCClientLive ----------------------------
(***************************************************************************)
(* What a dialed client does with a peer that never answers a heartbeat,   *)
(* and after its peer has vanished, for TLC.  Spec with an FDB and a       *)
(* forwarder is too large for a liveness check, so the behaviours are of   *)
(* four kinds, each a part of Spec.                                        *)
(*   "mute"    the peer sends what it likes, but no heartbeat reply, until *)
(*             the client is closed.                                       *)
(*   "starts"  the peer vanishes as soon as Working() runs.                *)
(*   "floods"  the client is in use, and a forwarder sends to it.          *)
(*   "held"    the client is in use and in an FDB, and another client has  *)
(*             its reader, for good or until the redial: floods, joins,    *)
(*             the reports of the updater and Close meet.                  *)
(***************************************************************************)
EXTENDS ClientLife

VARIABLE kind

NoFdb == joined = {} /\ todo = [g \in Joiners |-> NoIds] /\ ~ flooded

(* A reachable state: the client is valid and in ClientMaster, its owner   *)
(* waits for the end of the connection, the heartbeat for its timer.       *)
InUse ==
  /\ dialed = TRUE
  /\ pc = [g \in Procs |-> CASE g = "reader" -> IF kind = "held" THEN "forward" ELSE "read"
                             [] g = "writer" -> "recv"
                             [] g = "hb"     -> "wait"
                             [] g = "owner"  -> "await"
                             [] OTHER        -> "idle"]
  /\ qlen = 0 /\ qclosed = FALSE
  /\ isClosed = FALSE /\ valid = TRUE /\ isClient = TRUE
  /\ conn = "dead"
  /\ joined = (IF kind = "held" THEN Vids ELSE {}) /\ mapNil = FALSE /\ counted = {}
  /\ todo = [g \in Joiners |-> NoIds] /\ flooded = FALSE
  /\ inMaster = TRUE /\ token = FALSE /\ reconnClosed = FALSE
  /\ hbTimer = "long" /\ tick = FALSE /\ hbInit = TRUE
  /\ moved = FALSE /\ timeouts = 0 /\ hbNext = "loop"
  /\ panic = "none"

LiveInit ==
  \/ kind \in {"mute", "starts"} /\ Init
  \/ kind \in {"floods", "held"} /\ InUse

LiveStep ==
  /\ Next
  /\ CASE kind = "mute"   -> ~ isClosed /\ ~ valid'
       [] kind = "starts" -> conn = "up" => PeerDies
       [] kind = "floods" -> TRUE
       [] kind = "held"   -> pc'["reader"] = "forward" \/ pc["owner"] = "redial"
  /\ kind = "held" \/ NoFdb'
  /\ kind = "floods" \/ \A f \in Forwarders : pc'[f] = "idle"
  /\ kind' = kind

LiveNext == LiveStep \/ (kind = "mute" /\ isClosed /\ UNCHANGED <<vars, kind>>)

LiveSpec == LiveInit /\ [][LiveNext]_<<vars, kind>> /\ Fairness
=============================================================================
