------------------------------- MODULE MCFdb -------------------------------
(***************************************************************************)
(* Forwarding databases and who is in them, for TLC: the ports of one      *)
(* (FdbPort) and the membership in all (FdbMembership).  A behaviour is    *)
(* one of one part; the variables of the other rest.                       *)
(*                                                                         *)
(*   ports    c1 and c2, which count, and c3, which was dialed, over three *)
(*            ports: the pool runs empty with calls of each under way      *)
(*   dynamic  c1 and c2 accepted, c3 a master, one id: FDB objects come    *)
(*            and go while updateMasterFdb runs                            *)
(*   leaf     no master, one id, two messages from each peer               *)
(*   tight    the same with a single port in each FDB                      *)
(*   static   the configured id 1, the FDB 2 of a device of this node, and *)
(*            3, which only peers name; two ports in each                  *)
(*                                                                         *)
(* The instances are of FdbMembershipProofs, which adds only theorems to   *)
(* FdbMembership: they are theorems of each instance.                      *)
(***************************************************************************)
EXTENDS FdbPort, TLC

CONSTANTS Fdbs,
          Lasting,   \* the FDBs of a node with fixed ones
          None

VARIABLES part,
  fdbMap, portsTo, num, joined, nil, closed, master, lock, panic, at, on, quits, joins, vid, obj,
  ids, left, seen, quitIds, joinIds, msgs, told, rep, sent, refused

membership ==
  <<fdbMap, portsTo, num, joined, nil, closed, master, lock, panic, at, on, quits, joins, vid, obj,
    ids, left, seen, quitIds, joinIds, msgs, told, rep, sent, refused>>

Accepted == Clients \ Dialed

Dyn == INSTANCE FdbMembershipProofs WITH
         Masters <- Dialed, Ids <- {1}, Vids <- {}, TunIds <- {}, Capacity <- 3, MaxMsgs <- 1,
         ports <- portsTo, pc <- at, at <- on

Leaf == INSTANCE FdbMembershipProofs WITH
          Masters <- {}, Dialed <- {}, Ids <- {1}, Vids <- {}, TunIds <- {}, Capacity <- 3, MaxMsgs <- 2,
          ports <- portsTo, pc <- at, at <- on

Tight == INSTANCE FdbMembershipProofs WITH
           Masters <- {}, Dialed <- {}, Ids <- {1}, Vids <- {}, TunIds <- {}, Capacity <- 1, MaxMsgs <- 2,
           ports <- portsTo, pc <- at, at <- on

Static == INSTANCE FdbMembershipProofs WITH
            Masters <- Dialed, Fdbs <- Lasting, Ids <- {1, 2, 3}, Vids <- {1}, TunIds <- {2}, Capacity <- 2,
            MaxMsgs <- 1, ports <- portsTo, pc <- at, at <- on

ASSUME FdbAssumption ==
  /\ Dyn!MembershipAssumption /\ Leaf!MembershipAssumption
  /\ Tight!MembershipAssumption /\ Static!MembershipAssumption

MCInit ==
  /\ Init
  /\ \/ part \in {"ports", "dynamic"} /\ Dyn!Init
     \/ part = "leaf" /\ Leaf!Init
     \/ part = "tight" /\ Tight!Init
     \/ part = "static" /\ Static!Init

MCNext ==
  /\ UNCHANGED part
  /\ \/ part = "ports" /\ Next /\ UNCHANGED membership
     \/ part = "dynamic" /\ Dyn!Next /\ UNCHANGED vars
     \/ part = "leaf" /\ Leaf!Next /\ UNCHANGED vars
     \/ part = "tight" /\ Tight!Next /\ UNCHANGED vars
     \/ part = "static" /\ Static!Next /\ UNCHANGED vars

MCSpec == MCInit /\ [][MCNext]_<<part, vars, membership>>

MCSymmetry == Permutations(Accepted)

(* Of FdbMembership: types; the ports of every FDB object are those that   *)
(* clients have joined; nothing leads to a closed client (vnet/vid.go).    *)
MembershipExact ==
  CASE part = "dynamic" -> Dyn!TypeOK /\ Dyn!PortsMatchJoined /\ Dyn!GoneIsOut
    [] part = "leaf" -> Leaf!TypeOK /\ Leaf!PortsMatchJoined /\ Leaf!GoneIsOut
    [] part = "tight" -> Tight!TypeOK /\ Tight!PortsMatchJoined /\ Tight!GoneIsOut
    [] part = "static" -> Static!TypeOK /\ Static!PortsMatchJoined /\ Static!GoneIsOut
    [] OTHER -> TRUE

(* The counter that decides about deletion is exact, and without masters   *)
(* no FDB outlives its clients (fdb/fdb.go, TryToDelFdbById).              *)
CountDecides ==
  CASE part = "dynamic" -> Dyn!CountExact
    [] part = "leaf" -> Leaf!CountExact /\ Leaf!EmptyIsDeleted
    [] part = "tight" -> Tight!CountExact /\ Tight!EmptyIsDeleted
    [] part = "static" -> Static!CountExact
    [] OTHER -> TRUE

(* vid.go:35-54 and 124-152: at rest a client is in what its peer's last   *)
(* message named but for FDBs that had no port left; with Vids set in none *)
(* but those of the node, and nobody is in an FDB that is not in the map.  *)
JoinedAsTold ==
  CASE part = "leaf" -> Leaf!JoinedAsTold
    [] part = "tight" -> Tight!JoinedAsTold
    [] part = "static" -> Static!JoinedAsTold /\ Static!NoOrphan
    [] OTHER -> TRUE
=============================================================================
