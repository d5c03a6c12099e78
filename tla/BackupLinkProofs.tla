-------------------------- MODULE BackupLinkProofs --------------------------
(***************************************************************************)
(* Proofs about BackupLink, for any number of access addresses and of      *)
(* connections.  The inductive invariant adds to the checked invariants    *)
(* what MasterWorking knows while it holds the lock of the client it chose *)
(* and that only a closed client is ever deleted.                          *)
(***************************************************************************)
EXTENDS BackupLink, FiniteSetTheorems, WellFoundedInduction, TLAPS

LockHeld == locked = IF mpc \in {"activate", "wgAdd", "unlock"} THEN bc ELSE None

(* The chosen client keeps its slot while it is open, and it is open while *)
(* MasterWorking activates it.                                             *)
ChosenOpen ==
  /\ mpc \in {"activate", "wgAdd"} => bc \notin closed
  /\ mpc = "wgAdd" => activeSlave = bc
  /\ mpc \in {"lock", "activate"} /\ bc \notin closed => \E i \in Slots : backupClients[i] = bc

(* Only connections made so far are closed, the current one only while it  *)
(* is registered; a client about to be deleted has been released.          *)
ClosedPast ==
  /\ \A d \in Dialers : dpc[d] = "add" => Slave(d) \notin closed
  /\ \A d \in Dialers, g \in 1 .. MaxGen : <<d, g>> \in closed => g <= gen[d]
  /\ \A d \in Dialers : dpc[d] = "del" => Slave(d) \in released

IInv == TypeOK /\ LockHeld /\ WgCountsActive /\ OneAtATime /\ ChosenOpen /\ ClosedPast
-----------------------------------------------------------------------------
LEMMA SlaveType ==
  ASSUME TypeOK, NEW d \in Dialers, dpc[d] # "dial"
  PROVE  Slave(d) \in Slaves /\ gen[d] \in 1 .. MaxGen
BY BackupLinkAssumption DEF TypeOK, Slave, Slaves

LEMMA TypeStep == TypeOK /\ [Next]_vars => TypeOK'
<1> SUFFICES ASSUME TypeOK, [Next]_vars PROVE TypeOK'
  OBVIOUS
<1>1. ASSUME NEW d \in Dialers, Connect(d) PROVE TypeOK'
  <2>1. gen' \in [Dialers -> 0 .. MaxGen] /\ gen'[d] # 0 /\ \A e \in Dialers \ {d} : gen'[e] = gen[e]
    BY <1>1, BackupLinkAssumption DEF Connect, TypeOK
  <2>2. QED
    BY <1>1, <2>1 DEF Connect, TypeOK
<1>2. ASSUME NEW d \in Dialers, AddBackup(d) PROVE TypeOK'
  <2>1. Slave(d) \in Slaves
    BY <1>2, SlaveType DEF AddBackup
  <2>2. backupClients' \in [Slots -> Slaves \cup {None}]
    BY <1>2, <2>1 DEF AddBackup, TypeOK
  <2>3. backupChan' \in 0 .. 1
    BY <1>2 DEF AddBackup, Signal, TypeOK
  <2>4. QED
    BY <1>2, <2>2, <2>3 DEF AddBackup, TypeOK
<1>3. ASSUME NEW d \in Dialers, Close(d) PROVE TypeOK'
  <2>1. Slave(d) \in Slaves
    BY <1>3, SlaveType DEF Close
  <2>2. QED
    BY <1>3, <2>1 DEF Close, TypeOK
<1>4. ASSUME NEW d \in Dialers, Release(d) PROVE TypeOK'
  BY <1>4 DEF Release, TypeOK
<1>5. ASSUME NEW d \in Dialers, TakeReconnect(d) PROVE TypeOK'
  BY <1>5 DEF TakeReconnect, TypeOK
<1>6. ASSUME NEW d \in Dialers, DelBackup(d) PROVE TypeOK'
  <2>1. backupClients' \in [Slots -> Slaves \cup {None}]
    BY <1>6 DEF DelBackup, ClearSlot, TypeOK
  <2>2. activeSlave' \in Slaves \cup {None} /\ wg' \in Int
    BY <1>6 DEF DelBackup, Deactivate, TypeOK
  <2>3. QED
    BY <1>6, <2>1, <2>2 DEF DelBackup, TypeOK
<1>7. CASE ChoseBackup
  <2>1. Standby \subseteq Slaves
    BY DEF Standby, TypeOK
  <2>2. QED
    BY <1>7, <2>1, BackupLinkAssumption DEF ChoseBackup, TypeOK
<1>8. CASE RecvBackupChan
  BY <1>8 DEF RecvBackupChan, TypeOK
<1>9. CASE LockChosen
  BY <1>9 DEF LockChosen, TypeOK
<1>10. CASE Activate
  BY <1>10 DEF Activate, TypeOK
<1>11. CASE WgAdd
  BY <1>11 DEF WgAdd, TypeOK
<1>12. CASE Unlock
  BY <1>12 DEF Unlock, TypeOK
<1>13. CASE WgWait
  BY <1>13 DEF WgWait, TypeOK
<1>14. CASE Ended \/ UNCHANGED vars
  BY <1>14 DEF Ended, vars, TypeOK
<1>15. QED
  BY <1>1, <1>2, <1>3, <1>4, <1>5, <1>6, <1>7, <1>8, <1>9, <1>10, <1>11, <1>12, <1>13, <1>14
     DEF Next, MasterWorking, Redial
-----------------------------------------------------------------------------
LEMMA LockStep == LockHeld /\ [Next]_vars => LockHeld'
<1> SUFFICES ASSUME LockHeld, [Next]_vars PROVE LockHeld'
  OBVIOUS
<1>1. ASSUME NEW d \in Dialers, Connect(d) \/ Close(d) \/ Redial(d) PROVE LockHeld'
  BY <1>1 DEF LockHeld, Connect, Close, Redial, AddBackup, Release, TakeReconnect, DelBackup
<1>2. CASE MasterWorking
  BY <1>2 DEF LockHeld, MasterWorking, ChoseBackup, RecvBackupChan, LockChosen, Activate, WgAdd,
              Unlock, WgWait
<1>3. CASE Ended \/ UNCHANGED vars
  BY <1>3 DEF LockHeld, Ended, vars
<1>4. QED
  BY <1>1, <1>2, <1>3 DEF Next

(* A client that is deleted is closed; the one being activated is not. *)
LEMMA ClosedStep == TypeOK /\ ClosedPast /\ [Next]_vars => ClosedPast'
<1> SUFFICES ASSUME TypeOK, ClosedPast, [Next]_vars PROVE ClosedPast'
  OBVIOUS
<1>1. ASSUME NEW d \in Dialers, Connect(d) PROVE ClosedPast'
  <2>1. gen'[d] = gen[d] + 1 /\ dpc'[d] = "add" /\ gen[d] \in Nat
    BY <1>1, BackupLinkAssumption DEF Connect, TypeOK
  <2>2. \A e \in Dialers \ {d} : gen'[e] = gen[e] /\ dpc'[e] = dpc[e] /\ gen[e] \in Nat
    BY <1>1, BackupLinkAssumption DEF Connect, TypeOK
  <2>3. closed' = closed /\ released' = released /\ closed \subseteq Dialers \X (1 .. MaxGen)
    BY <1>1 DEF Connect, TypeOK, Slaves
  <2>4. <<d, gen[d] + 1>> \notin closed
    <3>1. SUFFICES ASSUME <<d, gen[d] + 1>> \in closed PROVE FALSE
      OBVIOUS
    <3>2. gen[d] + 1 \in 1 .. MaxGen
      BY <2>3, <3>1
    <3>3. gen[d] + 1 <= gen[d]
      BY <3>1, <3>2 DEF ClosedPast
    <3>4. QED
      BY <2>1, <3>3
  <2>5. \A e \in Dialers : dpc'[e] = "add" => <<e, gen'[e]>> \notin closed'
    BY <2>1, <2>2, <2>3, <2>4 DEF ClosedPast, Slave
  <2>6. \A e \in Dialers, g \in 1 .. MaxGen : <<e, g>> \in closed' => g <= gen'[e]
    BY <2>1, <2>2, <2>3 DEF ClosedPast
  <2>7. \A e \in Dialers : dpc'[e] = "del" => <<e, gen'[e]>> \in released'
    BY <2>1, <2>2, <2>3 DEF ClosedPast, Slave
  <2>8. QED
    BY <2>5, <2>6, <2>7 DEF ClosedPast, Slave
<1>2. ASSUME NEW d \in Dialers, AddBackup(d) PROVE ClosedPast'
  BY <1>2 DEF AddBackup, ClosedPast, Slave, TypeOK
<1>3. ASSUME NEW d \in Dialers, Close(d) PROVE ClosedPast'
  <2>1. dpc[d] = "up" /\ dpc' = dpc /\ gen' = gen /\ released' = released
        /\ closed' = closed \cup {<<d, gen[d]>>} /\ gen[d] \in Nat
    BY <1>3, BackupLinkAssumption DEF Close, TypeOK, Slave
  <2>2. \A e \in Dialers : dpc[e] = "add" => <<e, gen[e]>> \notin closed'
    BY <2>1 DEF ClosedPast, Slave
  <2>3. \A e \in Dialers, g \in 1 .. MaxGen : <<e, g>> \in closed' => g <= gen[e]
    BY <2>1 DEF ClosedPast
  <2>4. QED
    BY <2>1, <2>2, <2>3 DEF ClosedPast, Slave
<1>4. ASSUME NEW d \in Dialers, Release(d) PROVE ClosedPast'
  BY <1>4 DEF Release, ClosedPast, Slave, TypeOK
<1>5. ASSUME NEW d \in Dialers, TakeReconnect(d) PROVE ClosedPast'
  BY <1>5 DEF TakeReconnect, ClosedPast, Slave, TypeOK
<1>6. ASSUME NEW d \in Dialers, DelBackup(d) PROVE ClosedPast'
  BY <1>6 DEF DelBackup, ClosedPast, Slave, TypeOK
<1>7. CASE MasterWorking \/ Ended \/ UNCHANGED vars
  <2>1. UNCHANGED <<closed, released, dpc, gen>>
    BY <1>7 DEF MasterWorking, ChoseBackup, RecvBackupChan, LockChosen, Activate, WgAdd, Unlock,
                WgWait, Ended, vars
  <2>2. QED
    BY <2>1 DEF ClosedPast, Slave
<1>8. QED
  BY <1>1, <1>2, <1>3, <1>4, <1>5, <1>6, <1>7 DEF Next, Redial

LEMMA DeletedIsClosed ==
  ASSUME TypeOK, ClosedPast, NEW d \in Dialers, DelBackup(d)
  PROVE  Slave(d) \in closed
BY DEF DelBackup, ClosedPast, TypeOK

(* wg follows activeSlave: DelBackup lowers it only for the active slave,  *)
(* which cannot be the one being activated, because that one is open.      *)
LEMMA WgStep == IInv /\ [Next]_vars => WgCountsActive' /\ OneAtATime'
<1> SUFFICES ASSUME IInv, [Next]_vars PROVE WgCountsActive' /\ OneAtATime'
  OBVIOUS
<1> USE DEF IInv
<1>1. ASSUME NEW d \in Dialers, Connect(d) \/ Close(d) \/ AddBackup(d) \/ Release(d) \/ TakeReconnect(d)
      PROVE WgCountsActive' /\ OneAtATime'
  BY <1>1 DEF WgCountsActive, OneAtATime, Connect, Close, AddBackup, Release, TakeReconnect
<1>2. ASSUME NEW d \in Dialers, DelBackup(d) PROVE WgCountsActive' /\ OneAtATime'
  <2>1. mpc' = mpc /\ Slave(d) \in closed
    BY <1>2, DeletedIsClosed DEF DelBackup
  <2>2. CASE activeSlave = Slave(d)
    <3>1. activeSlave' = None /\ wg' = wg - 1
      BY <1>2, <2>2 DEF DelBackup, Deactivate
    <3>2. Slave(d) # None
      BY <1>2, SlaveType, BackupLinkAssumption DEF DelBackup
    <3>3. mpc # "wgAdd"
      BY <2>1, <2>2 DEF ChosenOpen
    <3>4. QED
      BY <2>1, <2>2, <3>1, <3>2, <3>3 DEF WgCountsActive, OneAtATime
  <2>3. CASE activeSlave # Slave(d)
    BY <1>2, <2>1, <2>3 DEF DelBackup, Deactivate, WgCountsActive, OneAtATime
  <2>4. QED
    BY <2>2, <2>3
<1>3. CASE MasterWorking
  <2>1. CASE ChoseBackup
    BY <2>1 DEF ChoseBackup, WgCountsActive, OneAtATime
  <2>2. CASE RecvBackupChan
    BY <2>2 DEF RecvBackupChan, WgCountsActive, OneAtATime
  <2>3. CASE LockChosen
    BY <2>3 DEF LockChosen, WgCountsActive, OneAtATime
  <2>4. CASE Activate
    BY <2>4 DEF Activate, WgCountsActive, OneAtATime
  <2>5. CASE WgAdd
    <3>1. bc # None
      BY <2>5 DEF WgAdd, TypeOK
    <3>2. QED
      BY <2>5, <3>1 DEF WgAdd, WgCountsActive, OneAtATime, ChosenOpen
  <2>6. CASE Unlock
    BY <2>6 DEF Unlock, WgCountsActive, OneAtATime
  <2>7. CASE WgWait
    BY <2>7 DEF WgWait, WgIsZero, WgCountsActive, OneAtATime
  <2>8. QED
    BY <1>3, <2>1, <2>2, <2>3, <2>4, <2>5, <2>6, <2>7 DEF MasterWorking
<1>4. CASE Ended \/ UNCHANGED vars
  BY <1>4 DEF Ended, vars, WgCountsActive, OneAtATime
<1>5. QED
  BY <1>1, <1>2, <1>3, <1>4 DEF Next, Redial

(* The chosen client: Close needs the lock that MasterWorking holds, and   *)
(* only a closed client loses its slot.                                    *)
LEMMA ChosenStep == IInv /\ [Next]_vars => ChosenOpen'
<1> SUFFICES ASSUME IInv, [Next]_vars PROVE ChosenOpen'
  OBVIOUS
<1> USE DEF IInv
<1>1. ASSUME NEW d \in Dialers, Connect(d) \/ Release(d) \/ TakeReconnect(d) PROVE ChosenOpen'
  BY <1>1 DEF ChosenOpen, Connect, Release, TakeReconnect
<1>2. ASSUME NEW d \in Dialers, AddBackup(d) PROVE ChosenOpen'
  <2>1. \A i \in Slots : backupClients[i] # None => backupClients'[i] = backupClients[i]
    BY <1>2 DEF AddBackup, FirstFree
  <2>2. mpc \in {"lock", "activate"} => bc # None
    BY DEF TypeOK
  <2>3. QED
    BY <1>2, <2>1, <2>2 DEF ChosenOpen, AddBackup
<1>3. ASSUME NEW d \in Dialers, Close(d) PROVE ChosenOpen'
  <2>1. mpc \in {"activate", "wgAdd"} => bc # Slave(d)
    BY <1>3 DEF Close, CanLock, LockHeld
  <2>2. QED
    BY <1>3, <2>1 DEF ChosenOpen, Close
<1>4. ASSUME NEW d \in Dialers, DelBackup(d) PROVE ChosenOpen'
  <2>1. Slave(d) \in closed
    BY <1>4, DeletedIsClosed
  <2>2. \A i \in Slots : backupClients[i] # Slave(d) => backupClients'[i] = backupClients[i]
    BY <1>4 DEF DelBackup, ClearSlot
  <2>3. mpc = "wgAdd" => activeSlave' = activeSlave
    BY <1>4, <2>1 DEF DelBackup, Deactivate, ChosenOpen
  <2>4. QED
    BY <1>4, <2>1, <2>2, <2>3 DEF ChosenOpen, DelBackup
<1>5. CASE ChoseBackup
  BY <1>5 DEF ChoseBackup, ChosenOpen, Standby
<1>6. CASE LockChosen
  BY <1>6 DEF LockChosen, ChosenOpen
<1>7. CASE Activate
  BY <1>7 DEF Activate, ChosenOpen
<1>8. CASE RecvBackupChan \/ WgAdd \/ Unlock \/ WgWait
  BY <1>8 DEF RecvBackupChan, WgAdd, Unlock, WgWait, ChosenOpen
<1>9. CASE Ended \/ UNCHANGED vars
  BY <1>9 DEF Ended, vars, ChosenOpen
<1>10. QED
  BY <1>1, <1>2, <1>3, <1>4, <1>5, <1>6, <1>7, <1>8, <1>9 DEF Next, MasterWorking, Redial
-----------------------------------------------------------------------------
LEMMA InitInv == Init => IInv
<1> SUFFICES ASSUME Init PROVE IInv
  OBVIOUS
<1>1. TypeOK
  BY BackupLinkAssumption DEF Init, TypeOK
<1>2. LockHeld /\ WgCountsActive /\ OneAtATime /\ ClosedPast
  BY DEF Init, LockHeld, WgCountsActive, OneAtATime, ClosedPast
<1>3. ChosenOpen
  BY DEF Init, ChosenOpen
<1>4. QED
  BY <1>1, <1>2, <1>3 DEF IInv

LEMMA StepInv == IInv /\ [Next]_vars => IInv'
  BY TypeStep, LockStep, ClosedStep, WgStep, ChosenStep DEF IInv

(* The inductive invariant of the backup link. *)
THEOREM Invariance == Spec => []IInv
  BY InitInv, StepInv, PTL DEF Spec

(* Slots, counters and the goroutines keep their types. *)
THEOREM TypeCorrect == Spec => []TypeOK
<1>1. IInv => TypeOK
  BY DEF IInv
<1>2. QED
  BY Invariance, <1>1, PTL

(* wg.Done never takes the counter of the wait group below zero, and       *)
(* wg.Wait lasts exactly as long as there is an active slave.              *)
THEOREM WgCorrect == Spec => []WgCountsActive
<1>1. IInv => WgCountsActive
  BY DEF IInv
<1>2. QED
  BY Invariance, <1>1, PTL

(* MasterWorking chooses again only after the last active slave is gone. *)
THEOREM OneActive == Spec => []OneAtATime
<1>1. IInv => OneAtATime
  BY DEF IInv
<1>2. QED
  BY Invariance, <1>1, PTL
-----------------------------------------------------------------------------
(* The slots.  A slot belongs to one registered client, a registered       *)
(* client has a slot, no client has two, and the active one has its own.   *)
SlotInv ==
  /\ \A i \in Slots : backupClients[i] # None =>
       \E d \in Dialers : backupClients[i] = Slave(d) /\ dpc[d] \in {"up", "del"}
  /\ \A d \in Dialers : dpc[d] \in {"up", "del"} => \E i \in Slots : backupClients[i] = Slave(d)
  /\ \A i, j \in Slots : backupClients[i] # None /\ backupClients[i] = backupClients[j] => i = j
  /\ activeSlave # None => \E i \in Slots : backupClients[i] = activeSlave

LEMMA LeastNumber ==
  ASSUME NEW T \in SUBSET Nat, T # {}
  PROVE  \E m \in T : \A k \in T : m <= k
<1>1. PICK m \in T : \A k \in T : ~ (<<k, m>> \in OpToRel(<, Nat))
  BY WFMin, NatLessThanWellFounded
<1>2. \A k \in T : ~ (k < m)
  BY <1>1 DEF OpToRel
<1>3. QED
  BY <1>2

(* A dialer that adds its client finds a free slot: it has none itself, so *)
(* the others, at most one slot each, cannot fill them all.                *)
LEMMA SlotIsFree ==
  ASSUME TypeOK, SlotInv, NEW d \in Dialers, dpc[d] = "add"
  PROVE  \E i \in Slots : backupClients[i] = None
<1>1. SUFFICES ASSUME \A i \in Slots : backupClients[i] # None PROVE FALSE
  OBVIOUS
<1> DEFINE owner == [i \in Slots |-> backupClients[i][1]]
<1>2. \A i \in Slots : owner[i] \in Dialers \ {d} /\ backupClients[i] = Slave(owner[i])
  <2>1. SUFFICES ASSUME NEW i \in Slots
                 PROVE  owner[i] \in Dialers \ {d} /\ backupClients[i] = Slave(owner[i])
    OBVIOUS
  <2>2. PICK e \in Dialers : backupClients[i] = Slave(e) /\ dpc[e] \in {"up", "del"}
    BY <1>1, <2>1 DEF SlotInv
  <2>3. owner[i] = e /\ e # d
    BY <2>1, <2>2 DEF Slave
  <2>4. QED
    BY <2>2, <2>3
<1>3. \A i, j \in Slots : owner[i] = owner[j] => i = j
  BY <1>1, <1>2 DEF SlotInv
<1>4. owner \in Injection(Slots, Dialers \ {d})
  BY <1>2, <1>3 DEF Injection, IsInjective
<1>5. IsFiniteSet(Dialers \ {d}) /\ Cardinality(Dialers \ {d}) = Cardinality(Dialers) - 1
  BY FS_RemoveElement, BackupLinkAssumption
<1>6. Cardinality(Slots) <= Cardinality(Dialers \ {d})
  BY <1>4, <1>5, FS_Injection
<1>7. Cardinality(Dialers) \in Nat
  BY FS_CardinalityType, BackupLinkAssumption
<1>8. Cardinality(Slots) = Cardinality(Dialers)
  BY <1>7, FS_Interval DEF Slots
<1>9. QED
  BY <1>5, <1>6, <1>7, <1>8

(* The loop of addBackup stops at one slot. *)
LEMMA FirstFreeIsOne ==
  ASSUME TypeOK, SlotInv, NEW d \in Dialers, dpc[d] = "add"
  PROVE  \E i \in Slots : FirstFree = {i} /\ backupClients[i] = None
<1> DEFINE free == {i \in Slots : backupClients[i] = None}
<1>1. Slots \subseteq Nat /\ \A i \in Slots : 1 .. i - 1 \subseteq Slots
  BY FS_CardinalityType, BackupLinkAssumption DEF Slots
<1>2. PICK m \in free : \A k \in free : m <= k
  BY <1>1, LeastNumber, SlotIsFree
<1>3. m \in FirstFree
  BY <1>1, <1>2 DEF FirstFree
<1>4. ASSUME NEW k \in FirstFree PROVE k = m
  <2>1. k \in free /\ m <= k
    BY <1>2, <1>4 DEF FirstFree
  <2>2. ~ (m \in 1 .. k - 1)
    BY <1>2, <1>4 DEF FirstFree
  <2>3. QED
    BY <1>1, <1>2, <2>1, <2>2 DEF Slots
<1>5. QED
  BY <1>2, <1>3, <1>4

LEMMA SlotStep == IInv /\ SlotInv /\ [Next]_vars => SlotInv'
<1> SUFFICES ASSUME IInv, SlotInv, [Next]_vars PROVE SlotInv'
  OBVIOUS
<1> USE DEF IInv
<1>1. ASSUME NEW d \in Dialers, Connect(d) PROVE SlotInv'
  <2>1. dpc[d] = "dial" /\ dpc'[d] = "add" /\ \A e \in Dialers \ {d} : dpc'[e] = dpc[e] /\ gen'[e] = gen[e]
    BY <1>1 DEF Connect, TypeOK
  <2>2. UNCHANGED <<backupClients, activeSlave>>
    BY <1>1 DEF Connect
  <2>3. QED
    BY <2>1, <2>2 DEF SlotInv, Slave
<1>2. ASSUME NEW d \in Dialers, AddBackup(d) PROVE SlotInv'
  <2>1. PICK m \in Slots : FirstFree = {m} /\ backupClients[m] = None
    BY <1>2, FirstFreeIsOne DEF AddBackup
  <2>2. backupClients'[m] = Slave(d) /\ \A i \in Slots \ {m} : backupClients'[i] = backupClients[i]
    BY <1>2, <2>1 DEF AddBackup
  <2>3. dpc[d] = "add" /\ dpc'[d] = "up" /\ gen' = gen /\ activeSlave' = activeSlave
        /\ \A e \in Dialers \ {d} : dpc'[e] = dpc[e]
    BY <1>2 DEF AddBackup, TypeOK
  <2>4. \A i \in Slots : backupClients[i] # Slave(d)
    <3>1. SUFFICES ASSUME NEW i \in Slots, backupClients[i] = Slave(d) PROVE FALSE
      OBVIOUS
    <3>2. Slave(d) # None
      BY <2>3, SlaveType, BackupLinkAssumption
    <3>3. PICK e \in Dialers : Slave(d) = Slave(e) /\ dpc[e] \in {"up", "del"}
      BY <3>1, <3>2 DEF SlotInv
    <3>4. QED
      BY <2>3, <3>3 DEF Slave
  <2>5. \A e \in Dialers : Slave(e)' = Slave(e)
    BY <2>3 DEF Slave
  <2>6. \A i \in Slots : backupClients'[i] # None =>
          \E e \in Dialers : backupClients'[i] = Slave(e) /\ dpc'[e] \in {"up", "del"}
    BY <2>2, <2>3 DEF SlotInv
  <2>7. \A e \in Dialers : dpc'[e] \in {"up", "del"} => \E i \in Slots : backupClients'[i] = Slave(e)
    <3>1. SUFFICES ASSUME NEW e \in Dialers, dpc'[e] \in {"up", "del"}
                   PROVE  \E i \in Slots : backupClients'[i] = Slave(e)
      OBVIOUS
    <3>2. CASE e = d
      BY <2>2, <3>2
    <3>3. CASE e # d
      <4>1. PICK i \in Slots : backupClients[i] = Slave(e)
        BY <2>3, <3>1, <3>3 DEF SlotInv
      <4>2. Slave(e) # None
        BY <2>3, <3>1, <3>3, SlaveType, BackupLinkAssumption
      <4>3. QED
        BY <2>1, <2>2, <4>1, <4>2
    <3>4. QED
      BY <3>2, <3>3
  <2>8. \A i, j \in Slots : backupClients'[i] # None /\ backupClients'[i] = backupClients'[j] => i = j
    BY <2>2, <2>4 DEF SlotInv
  <2>9. activeSlave' # None => \E i \in Slots : backupClients'[i] = activeSlave'
    BY <2>1, <2>2, <2>3 DEF SlotInv
  <2>10. QED
    BY <2>5, <2>6, <2>7, <2>8, <2>9 DEF SlotInv
<1>3. ASSUME NEW d \in Dialers, DelBackup(d) PROVE SlotInv'
  <2>1. \A i \in Slots : backupClients'[i] = IF backupClients[i] = Slave(d) THEN None ELSE backupClients[i]
    BY <1>3 DEF DelBackup, ClearSlot
  <2>2. dpc'[d] = "dial" /\ gen' = gen /\ \A e \in Dialers \ {d} : dpc'[e] = dpc[e]
    BY <1>3 DEF DelBackup, TypeOK
  <2>3. activeSlave' = None \/ (activeSlave' = activeSlave /\ activeSlave # Slave(d))
    BY <1>3 DEF DelBackup, Deactivate
  <2>4. \A e \in Dialers : Slave(e)' = Slave(e) /\ (e # d => Slave(e) # Slave(d))
    BY <2>2 DEF Slave
  <2>5. \A i \in Slots : backupClients'[i] # None =>
          \E e \in Dialers : backupClients'[i] = Slave(e) /\ dpc'[e] \in {"up", "del"}
    BY <2>1, <2>2 DEF SlotInv
  <2>6. \A e \in Dialers : dpc'[e] \in {"up", "del"} => \E i \in Slots : backupClients'[i] = Slave(e)
    BY <2>1, <2>2, <2>4 DEF SlotInv
  <2>7. \A i, j \in Slots : backupClients'[i] # None /\ backupClients'[i] = backupClients'[j] => i = j
    BY <2>1 DEF SlotInv
  <2>8. activeSlave' # None => \E i \in Slots : backupClients'[i] = activeSlave'
    BY <2>1, <2>3 DEF SlotInv
  <2>9. QED
    BY <2>4, <2>5, <2>6, <2>7, <2>8 DEF SlotInv
<1>4. ASSUME NEW d \in Dialers, TakeReconnect(d) PROVE SlotInv'
  BY <1>4 DEF TakeReconnect, SlotInv, Slave, TypeOK
<1>5. ASSUME NEW d \in Dialers, Close(d) \/ Release(d) PROVE SlotInv'
  BY <1>5 DEF Close, Release, SlotInv, Slave
<1>6. CASE Activate
  <2>1. \E i \in Slots : backupClients[i] = bc
    BY <1>6 DEF Activate, ChosenOpen
  <2>2. QED
    BY <1>6, <2>1 DEF Activate, SlotInv, Slave
<1>7. CASE ChoseBackup \/ RecvBackupChan \/ LockChosen \/ WgAdd \/ Unlock \/ WgWait \/ Ended \/ UNCHANGED vars
  <2>1. UNCHANGED <<backupClients, activeSlave, dpc, gen>>
    BY <1>7 DEF ChoseBackup, RecvBackupChan, LockChosen, WgAdd, Unlock, WgWait, Ended, vars
  <2>2. QED
    BY <2>1 DEF SlotInv, Slave
<1>8. QED
  BY <1>1, <1>2, <1>3, <1>4, <1>5, <1>6, <1>7 DEF Next, MasterWorking, Redial

(* Slots and registered clients match one to one, and activeSlave is one   *)
(* of them: addBackup always finds a free slot among one per address.      *)
THEOREM SlotsCorrect == Spec => []SlotsExact
<1>1. Init => SlotInv
  BY DEF Init, SlotInv
<1>2. ASSUME IInv, SlotInv PROVE SlotsExact
  <2>1. ActiveIsRegistered
    BY <1>2 DEF SlotInv, ActiveIsRegistered
  <2>2. ASSUME NEW d \in Dialers, dpc[d] \in {"up", "del"}
        PROVE  Cardinality({i \in Slots : backupClients[i] = Slave(d)}) = 1
    <3>1. Slave(d) # None
      BY <1>2, <2>2, SlaveType, BackupLinkAssumption DEF IInv
    <3>2. PICK i \in Slots : backupClients[i] = Slave(d)
      BY <1>2, <2>2 DEF SlotInv
    <3>3. {j \in Slots : backupClients[j] = Slave(d)} = {i}
      BY <1>2, <3>1, <3>2 DEF SlotInv
    <3>4. QED
      BY <3>3, FS_Singleton
  <2>3. QED
    BY <1>2, <2>1, <2>2 DEF SlotsExact, EachHasOneSlot, SlotInv
<1>3. QED
  BY <1>1, <1>2, SlotStep, Invariance, PTL DEF Spec
-----------------------------------------------------------------------------
(* Which steps move a client into or out of the standby set. *)
LEMMA StandbyStep ==
  ASSUME IInv, NEW d \in Dialers
  PROVE  /\ AddBackup(d) => Standby' = Standby \/ Standby' = Standby \cup {Slave(d)}
         /\ Close(d) => Standby' = Standby \ {Slave(d)}
         /\ DelBackup(d) => Standby' = Standby
<1> USE DEF IInv
<1>1. ASSUME AddBackup(d) PROVE Standby' = Standby \/ Standby' = Standby \cup {Slave(d)}
  <2>1. closed' = closed /\ Slave(d) \notin closed /\ Slave(d) # None
    BY <1>1, SlaveType, BackupLinkAssumption DEF AddBackup, ClosedPast
  <2>2. \A i \in Slots : backupClients'[i] = IF i \in FirstFree THEN Slave(d) ELSE backupClients[i]
    BY <1>1 DEF AddBackup
  <2>3. FirstFree \subseteq {i \in Slots : backupClients[i] = None}
    BY DEF FirstFree
  <2>4. CASE FirstFree = {}
    BY <2>1, <2>2, <2>4 DEF Standby
  <2>5. CASE FirstFree # {}
    <3>1. PICK i \in Slots : i \in FirstFree /\ backupClients'[i] = Slave(d)
      BY <2>2, <2>3, <2>5
    <3>2. Standby \cup {Slave(d)} \subseteq Standby'
      BY <2>1, <2>2, <2>3, <3>1 DEF Standby
    <3>3. Standby' \subseteq Standby \cup {Slave(d)}
      BY <2>1, <2>2 DEF Standby
    <3>4. QED
      BY <3>2, <3>3
  <2>6. QED
    BY <2>4, <2>5
<1>2. ASSUME Close(d) PROVE Standby' = Standby \ {Slave(d)}
  BY <1>2 DEF Close, Standby
<1>3. ASSUME DelBackup(d) PROVE Standby' = Standby
  <2>1. closed' = closed /\ Slave(d) \in closed
    BY <1>3, DeletedIsClosed DEF DelBackup
  <2>2. \A i \in Slots : backupClients'[i] = IF backupClients[i] = Slave(d) THEN None ELSE backupClients[i]
    BY <1>3 DEF DelBackup, ClearSlot
  <2>3. QED
    BY <2>1, <2>2 DEF Standby
<1>4. QED
  BY <1>1, <1>2, <1>3

(* backupLink implements the abstract failover: a client becomes active    *)
(* only while it is registered and open and no other is active, and gives  *)
(* way only after it has closed.                                           *)
THEOREM Implements == Spec => IsFailover
<1>1. Init => Abstract!Init
  BY DEF Init, Abstract!Init, Standby
<1>2. ASSUME IInv, Next PROVE Abstract!Next \/ UNCHANGED <<Standby, activeSlave>>
  <2> USE DEF IInv
  <2>1. ASSUME NEW d \in Dialers, Connect(d) \/ Release(d) \/ TakeReconnect(d)
        PROVE UNCHANGED <<Standby, activeSlave>>
    BY <2>1 DEF Connect, Release, TakeReconnect, Standby
  <2>2. ASSUME NEW d \in Dialers, AddBackup(d) PROVE Abstract!Next \/ UNCHANGED <<Standby, activeSlave>>
    <3>1. Slave(d) \in Slaves /\ activeSlave' = activeSlave
      BY <1>2, <2>2, SlaveType DEF AddBackup
    <3>2. CASE Standby' = Standby
      BY <3>1, <3>2
    <3>3. CASE Standby' = Standby \cup {Slave(d)}
      BY <3>1, <3>3 DEF Abstract!Next, Abstract!Register
    <3>4. QED
      BY <2>2, <3>2, <3>3, <1>2, StandbyStep
  <2>3. ASSUME NEW d \in Dialers, Close(d) PROVE Abstract!Next \/ UNCHANGED <<Standby, activeSlave>>
    <3>1. Slave(d) \in Slaves /\ activeSlave' = activeSlave /\ Standby' = Standby \ {Slave(d)}
      BY <2>3, <1>2, SlaveType, StandbyStep DEF Close
    <3>2. CASE Slave(d) \in Standby
      BY <3>1, <3>2 DEF Abstract!Next, Abstract!GoDown
    <3>3. CASE Slave(d) \notin Standby
      BY <3>1, <3>3
    <3>4. QED
      BY <3>2, <3>3
  <2>4. ASSUME NEW d \in Dialers, DelBackup(d) PROVE Abstract!Next \/ UNCHANGED <<Standby, activeSlave>>
    <3>1. Standby' = Standby /\ Slave(d) \in closed
      BY <2>4, <1>2, StandbyStep, DeletedIsClosed
    <3>2. Slave(d) \notin Standby /\ Slave(d) # None
      BY <1>2, <2>4, <3>1, SlaveType, BackupLinkAssumption DEF Standby, DelBackup
    <3>3. CASE activeSlave = Slave(d)
      BY <2>4, <3>1, <3>2, <3>3 DEF DelBackup, Deactivate, Abstract!Next, Abstract!Deactivate
    <3>4. CASE activeSlave # Slave(d)
      BY <2>4, <3>1, <3>4 DEF DelBackup, Deactivate
    <3>5. QED
      BY <3>3, <3>4
  <2>5. CASE Activate
    <3>1. bc \in Slaves /\ bc \notin closed /\ activeSlave = None /\ bc # None
      BY <1>2, <2>5, BackupLinkAssumption DEF Activate, TypeOK, ChosenOpen, OneAtATime
    <3>2. bc \in Standby
      BY <1>2, <2>5, <3>1 DEF Activate, ChosenOpen, Standby
    <3>3. Standby' = Standby /\ activeSlave' = bc
      BY <2>5 DEF Activate, Standby
    <3>4. QED
      BY <3>1, <3>2, <3>3 DEF Abstract!Next, Abstract!Activate
  <2>6. CASE ChoseBackup \/ RecvBackupChan \/ LockChosen \/ WgAdd \/ Unlock \/ WgWait \/ Ended
    BY <2>6 DEF ChoseBackup, RecvBackupChan, LockChosen, WgAdd, Unlock, WgWait, Ended, vars, Standby
  <2>7. QED
    BY <1>2, <2>1, <2>2, <2>3, <2>4, <2>5, <2>6 DEF Next, MasterWorking, Redial
<1>3. UNCHANGED vars => UNCHANGED <<Standby, activeSlave>>
  BY DEF vars, Standby
<1>4. IInv /\ [Next]_vars => [Abstract!Next]_<<Standby, activeSlave>>
  BY <1>2, <1>3
<1>5. QED
  BY Invariance, <1>1, <1>4, PTL DEF Spec, IsFailover, Abstract!Spec
=============================================================================
