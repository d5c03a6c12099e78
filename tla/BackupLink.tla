----------------------------- MODULE BackupLink -----------------------------
(***************************************************************************)
(* A master connection made of backup links (vnet/bakLink.go): for every   *)
(* access address a goroutine BackupClient dials, registers the new client *)
(* in a slot of backupClients and, once it is closed, unregisters it and   *)
(* dials again.  One goroutine, MasterWorking, keeps choosing the client   *)
(* that carries the traffic, activeSlave.                                  *)
(*                                                                         *)
(* They meet in four places: the lock of the backupLink, the lock of the   *)
(* chosen client (which Client.Close takes to set isClosed), the channel   *)
(* backupChan of one value, and the wait group wg.                         *)
(***************************************************************************)
EXTENDS Integers, FiniteSets

CONSTANTS Dialers,   \* the goroutines BackupClient, one per access address
          MaxGen,    \* bound on the connections each of them makes
          None       \* nil

Slaves == Dialers \X (1 .. MaxGen)   \* <<d, g>>: the g-th client that d dialed
Slots == 1 .. Cardinality(Dialers)   \* backupClients has one slot per address

ASSUME BackupLinkAssumption ==
  /\ IsFiniteSet(Dialers)
  /\ MaxGen \in Nat
  /\ None \notin Slaves

VARIABLES backupClients,  \* the slots
          activeSlave,
          backupChan,     \* number of values in the channel
          wg,             \* the counter of the wait group
          closed,         \* slaves whose isClosed is true
          released,       \* slaves whose Close has sent on their channel reconnect
          dpc, gen,       \* where each dialer is, and which connection it is at
          mpc, bc,        \* where MasterWorking is, and the client it chose
          locked          \* the client whose lock MasterWorking holds

vars == <<backupClients, activeSlave, backupChan, wg, closed, released, dpc, gen, mpc, bc, locked>>

Slave(d) == <<d, gen[d]>>

Init ==
  /\ backupClients = [i \in Slots |-> None]
  /\ activeSlave = None
  /\ backupChan = 0 /\ wg = 0
  /\ closed = {} /\ released = {}
  /\ dpc = [d \in Dialers |-> "dial"] /\ gen = [d \in Dialers |-> 0]
  /\ mpc = "chose" /\ bc = None /\ locked = None
-----------------------------------------------------------------------------
(* BackupClient *)

Connect(d) ==
  /\ dpc[d] = "dial" /\ gen[d] < MaxGen
  /\ dpc' = [dpc EXCEPT ![d] = "add"]
  /\ gen' = [gen EXCEPT ![d] = @ + 1]
  /\ UNCHANGED <<backupClients, activeSlave, backupChan, wg, closed, released, mpc, bc, locked>>

FirstFree == {i \in Slots : backupClients[i] = None /\ \A j \in 1 .. i - 1 : backupClients[j] # None}

SignalsNobody == backupChan' = backupChan   \* mutant: the channel is left empty

Signal == backupChan' = IF backupChan = 0 THEN 1 ELSE backupChan

(* addBackup, under the lock of the backupLink; then slave.Working(). *)
AddBackup(d) ==
  /\ dpc[d] = "add"
  /\ backupClients' = [i \in Slots |-> IF i \in FirstFree THEN Slave(d) ELSE backupClients[i]]
  /\ Signal
  /\ dpc' = [dpc EXCEPT ![d] = "up"]
  /\ UNCHANGED <<activeSlave, wg, closed, released, gen, mpc, bc, locked>>

CanAlwaysLock(d) == TRUE    \* mutant: MasterWorking does not hold the client's lock

CanLock(d) == locked # Slave(d)

(* Client.Close sets isClosed under the lock of the client. *)
Close(d) ==
  /\ dpc[d] = "up" /\ Slave(d) \notin closed
  /\ CanLock(d)
  /\ closed' = closed \cup {Slave(d)}
  /\ UNCHANGED <<backupClients, activeSlave, backupChan, wg, released, dpc, gen, mpc, bc, locked>>

(* ... and Reconnect sends on reconnect after the rest of Close. *)
Release(d) ==
  /\ dpc[d] = "up" /\ Slave(d) \in closed \ released
  /\ released' = released \cup {Slave(d)}
  /\ UNCHANGED <<backupClients, activeSlave, backupChan, wg, closed, dpc, gen, mpc, bc, locked>>

TakeReconnect(d) ==
  /\ dpc[d] = "up" /\ Slave(d) \in released
  /\ dpc' = [dpc EXCEPT ![d] = "del"]
  /\ UNCHANGED <<backupClients, activeSlave, backupChan, wg, closed, released, gen, mpc, bc, locked>>

KeepsSlot(d) == UNCHANGED backupClients     \* mutant: the slot is not cleared

ClearSlot(d) ==
  backupClients' = [i \in Slots |-> IF backupClients[i] = Slave(d) THEN None ELSE backupClients[i]]

AlwaysDone(d) == activeSlave' = None /\ wg' = wg - 1   \* mutant: no test of activeSlave == bc

NeverDone(d) == UNCHANGED <<activeSlave, wg>>          \* mutant: activeSlave is left alone

Deactivate(d) ==
  IF activeSlave = Slave(d) THEN activeSlave' = None /\ wg' = wg - 1
                            ELSE UNCHANGED <<activeSlave, wg>>

(* delBackup, under the lock of the backupLink; then close, sleep, redial. *)
DelBackup(d) ==
  /\ dpc[d] = "del"
  /\ ClearSlot(d)
  /\ Deactivate(d)
  /\ dpc' = [dpc EXCEPT ![d] = "dial"]
  /\ UNCHANGED <<backupChan, closed, released, gen, mpc, bc, locked>>
-----------------------------------------------------------------------------
(* MasterWorking *)

Standby == {backupClients[i] : i \in Slots} \ (closed \cup {None})

(* choseBackup, under the lock of the backupLink: the open client with the *)
(* least heartBeatDelayAvg, or the first open one while none has a delay.  *)
(* Delays are whatever the heartbeats measured, so any open client may win.*)
ChoseBackup ==
  /\ mpc = "chose"
  /\ \/ Standby = {} /\ bc' = None /\ mpc' = "recv"
     \/ bc' \in Standby /\ mpc' = "lock"
  /\ UNCHANGED <<backupClients, activeSlave, backupChan, wg, closed, released, dpc, gen, locked>>

(* <-bl.backupChan *)
RecvBackupChan ==
  /\ mpc = "recv"
  /\ backupChan > 0
  /\ backupChan' = backupChan - 1
  /\ mpc' = "chose"
  /\ UNCHANGED <<backupClients, activeSlave, wg, closed, released, dpc, gen, bc, locked>>

(* bc.Lock(), and the test that it was not closed since it was chosen. *)
LockChosen ==
  /\ mpc = "lock"
  /\ locked' = bc
  /\ mpc' = IF bc \notin closed THEN "activate" ELSE "unlock"
  /\ UNCHANGED <<backupClients, activeSlave, backupChan, wg, closed, released, dpc, gen, bc>>

Activate ==
  /\ mpc = "activate"
  /\ activeSlave' = bc
  /\ mpc' = "wgAdd"
  /\ UNCHANGED <<backupClients, backupChan, wg, closed, released, dpc, gen, bc, locked>>

WgAdd ==
  /\ mpc = "wgAdd"
  /\ wg' = wg + 1
  /\ mpc' = "unlock"
  /\ UNCHANGED <<backupClients, activeSlave, backupChan, closed, released, dpc, gen, bc, locked>>

Unlock ==
  /\ mpc = "unlock"
  /\ locked' = None
  /\ mpc' = "wait"
  /\ UNCHANGED <<backupClients, activeSlave, backupChan, wg, closed, released, dpc, gen, bc>>

WgIsZero == wg = 0

WgWait ==
  /\ mpc = "wait"
  /\ WgIsZero
  /\ mpc' = "chose"
  /\ bc' = None
  /\ UNCHANGED <<backupClients, activeSlave, backupChan, wg, closed, released, dpc, gen, locked>>
-----------------------------------------------------------------------------
MasterWorking ==
  \/ ChoseBackup \/ RecvBackupChan \/ LockChosen \/ Activate \/ WgAdd \/ Unlock \/ WgWait

(* The goroutine of d and, once Close has begun, the client's own. *)
Redial(d) == AddBackup(d) \/ Release(d) \/ TakeReconnect(d) \/ DelBackup(d)

(* Every dialer is at the bound and the master waits for a new client. *)
Ended ==
  /\ \A d \in Dialers : dpc[d] = "dial" /\ gen[d] = MaxGen
  /\ mpc = "recv" /\ backupChan = 0
  /\ UNCHANGED vars

Next ==
  \/ MasterWorking
  \/ \E d \in Dialers : Connect(d) \/ Close(d) \/ Redial(d)
  \/ Ended

Spec == Init /\ [][Next]_vars

(* The goroutines are scheduled; when a dial succeeds or a client closes   *)
(* is up to the network.                                                   *)
Fairness == WF_vars(MasterWorking) /\ \A d \in Dialers : WF_vars(Redial(d))

FairSpec == Spec /\ Fairness
-----------------------------------------------------------------------------
(* Type invariant. *)
TypeOK ==
  /\ backupClients \in [Slots -> Slaves \cup {None}]
  /\ activeSlave \in Slaves \cup {None}
  /\ backupChan \in 0 .. 1
  /\ wg \in Int
  /\ closed \in SUBSET Slaves /\ released \in SUBSET closed
  /\ dpc \in [Dialers -> {"dial", "add", "up", "del"}]
  /\ gen \in [Dialers -> 0 .. MaxGen]
  /\ \A d \in Dialers : dpc[d] # "dial" => gen[d] # 0
  /\ mpc \in {"chose", "recv", "lock", "activate", "wgAdd", "unlock", "wait"}
  /\ bc \in Slaves \cup {None} /\ locked \in Slaves \cup {None}
  /\ mpc \in {"lock", "activate", "wgAdd", "unlock"} => bc # None

(* The wait group counts the active slave: it is 1 from wg.Add to wg.Done  *)
(* and 0 otherwise, so Done never drives it below zero (which panics) and  *)
(* Wait ends exactly when the active slave has been deleted.               *)
WgCountsActive == wg = IF activeSlave # None /\ mpc # "wgAdd" THEN 1 ELSE 0

(* What the comment on wg.Wait() relies on: when MasterWorking chooses, or *)
(* waits for a client, the last active slave has been closed and deleted.  *)
OneAtATime == mpc \in {"chose", "recv", "lock", "activate"} => activeSlave = None

(* activeSlave never dangles: it is a client its dialer still knows, in a  *)
(* slot until delBackup, which therefore always finds it.                  *)
ActiveIsRegistered ==
  activeSlave # None =>
    /\ \E d \in Dialers : activeSlave = Slave(d) /\ dpc[d] \in {"up", "del"}
    /\ \E i \in Slots : backupClients[i] = activeSlave

(* Every client from addBackup to delBackup has exactly one slot: a dialer *)
(* gives its slot back before it dials again, so one per address suffices. *)
EachHasOneSlot ==
  /\ \A d \in Dialers : dpc[d] \in {"up", "del"} =>
       Cardinality({i \in Slots : backupClients[i] = Slave(d)}) = 1
  /\ \A i \in Slots : backupClients[i] # None =>
       \E d \in Dialers : backupClients[i] = Slave(d) /\ dpc[d] \in {"up", "del"}

(* Together: slots and clients that are up match one to one, the active    *)
(* one included.                                                           *)
SlotsExact == ActiveIsRegistered /\ EachHasOneSlot

(* No lost wakeup: a client that is up does not stay idle while no other   *)
(* carries the traffic, although MasterWorking may have looked at the      *)
(* slots just before addBackup, and backupChan holds a single value.       *)
StandbyIsUsed ==
  \A s \in Slaves : (s \in Standby /\ activeSlave = None) ~> (activeSlave # None \/ s \in closed)

(* An active slave that closed is dropped. *)
DeadSlaveGoes == activeSlave \in closed ~> activeSlave \notin closed

(* The abstract failover is implemented. *)
Abstract == INSTANCE Failover WITH Links <- Slaves, up <- Standby, active <- activeSlave
IsFailover == Abstract!Spec
=============================================================================
