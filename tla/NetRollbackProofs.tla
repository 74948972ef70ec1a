------------------------- MODULE NetRollbackProofs -------------------------
(***************************************************************************)
(* Type correctness of the rollback, for any objects, calls, faults and    *)
(* overlaps of changes: in particular active.json only ever names an       *)
(* object with a snapshot directory, and a restore only takes one of these.*)
(***************************************************************************)
EXTENDS NetRollback, TLAPS

Counted == ops \in 0 .. MaxOps /\ faults \in 0 .. MaxFaults
Flags == {watch, reach, own} \subseteq BOOLEAN /\ proven \in {"no", "passed", "seen"}
Rollback == [id : Object \union {None}, open : BOOLEAN]
Placed ==
  /\ files \subseteq Object /\ live \subseteq Object
  /\ snap \in [Object -> Snapshot] /\ active \in Rollback
  /\ at \in [Actor -> Place]
  /\ change \in [Caller -> [obj : Object, add : BOOLEAN]]
  /\ from \in [Actor -> Object]

LEMMA TypeParts == TypeOK <=> Counted /\ Flags /\ Placed
  BY Zenon DEF TypeOK, Counted, Flags, Placed, Rollback

LEMMA InitType ==
  ASSUME RollbackAssumption, Init
  PROVE  TypeOK
<1>1. \E o \in Object : TRUE
  BY DEF RollbackAssumption
<1>2. (CHOOSE o \in Object : TRUE) \in Object
  BY <1>1
<1>3. Counted
  BY DEF RollbackAssumption, Init, Counted
<1>4. Flags
  BY Zenon DEF Init, Flags
<1>5. snap \in [Object -> Snapshot] /\ active \in Rollback
  BY DEF Init, NoActive, Snapshot, Rollback
<1>6. Placed
  BY <1>2, <1>5, Zenon DEF Init, Placed, Place
<1> QED
  BY <1>3, <1>4, <1>6, TypeParts

LEMMA CountedStep ==
  ASSUME RollbackAssumption, Counted, [Next]_vars
  PROVE  Counted'
<1>1. Fault => faults' \in 0 .. MaxFaults
  BY DEF Fault, Counted, RollbackAssumption
<1>2. ASSUME NEW c \in Caller, Begin(c) PROVE ops' \in 0 .. MaxOps
  BY <1>2 DEF Begin, Counted, RollbackAssumption
<1>3. ASSUME NEW a \in Actor, RestoreActive(a) PROVE Counted'
  BY <1>1, <1>3, Zenon DEF Counted, RestoreActive, Load, replaceDir, restoreHostManagers, reloadNetworkd, clearRollback
<1>4. ASSUME NEW c \in Caller, Apply(c) PROVE Counted'
  BY <1>1, <1>2, <1>4, Zenon DEF Counted, Apply, Begin, Wipe, armRollback, armFails, Start, migrateUplinkManagers,
     writeFiles, Reload, probeManagement
<1>5. CASE Observe \/ WatchdogLoads \/ Probe \/ LastProbe \/ AgentStarts \/ RecoverStale
  BY <1>1, <1>5, Zenon DEF Counted, Observe, WatchdogLoads, Probe, LastProbe, AgentStarts, RecoverStale
<1>6. CASE AddressGoes \/ AddressComes \/ DeadlinePasses \/ AgentCrashes \/ Reboot \/ UNCHANGED vars
  BY <1>1, <1>6, Zenon DEF Counted, AddressGoes, AddressComes, DeadlinePasses, AgentCrashes, Reboot, vars
<1> QED
  BY <1>3, <1>4, <1>5, <1>6, Zenon DEF Next

LEMMA FlagsStep ==
  ASSUME RollbackAssumption, Flags, Placed, [Next]_vars
  PROVE  Flags'
<1>a. active.open \in BOOLEAN
  BY DEF Placed, Rollback
<1> USE <1>a DEF Flags
<1>1. ASSUME NEW a \in Actor, RestoreActive(a) PROVE Flags'
  <2>1. CASE at[a] = "managers"
    <3>1. from[a] \in Object /\ snap[from[a]].own \in BOOLEAN
      BY DEF Placed, Snapshot
    <3> QED
      BY <1>1, <2>1, <3>1, Zenon DEF RestoreActive, Load, replaceDir, restoreHostManagers, reloadNetworkd, clearRollback
  <2>2. CASE at[a] # "managers"
    BY <1>1, <2>2, Zenon DEF RestoreActive, Load, replaceDir, restoreHostManagers, reloadNetworkd, clearRollback, host
  <2> QED
    BY <2>1, <2>2
<1>2. ASSUME NEW c \in Caller, Apply(c) PROVE Flags'
  <2>1. CASE Begin(c) \/ Wipe(c) \/ armRollback(c) \/ armFails(c)
    BY <2>1, Zenon DEF Begin, Wipe, armRollback, armFails, host
  <2>2. CASE Start(c) BY <2>2, Zenon DEF Start, host
  <2>3. CASE writeFiles(c) \/ Reload(c) BY <2>3, Zenon DEF writeFiles, Reload
  <2>4. CASE probeManagement(c) BY <2>4, Zenon DEF probeManagement, host
  <2>5. CASE migrateUplinkManagers(c) BY <2>5, Zenon DEF migrateUplinkManagers
  <2> QED BY <1>2, <2>1, <2>2, <2>3, <2>4, <2>5, Zenon DEF Apply
<1>3. CASE Observe BY <1>3, Zenon DEF Observe
<1>4. CASE WatchdogLoads \/ Probe \/ LastProbe \/ AgentStarts
  BY <1>4, Zenon DEF WatchdogLoads, Probe, LastProbe, AgentStarts, host
<1>5. CASE RecoverStale BY <1>5, Zenon DEF RecoverStale, host
<1>6. CASE AddressGoes \/ AddressComes BY <1>6, Zenon DEF AddressGoes, AddressComes, host
<1>7. CASE DeadlinePasses BY <1>7, Zenon DEF DeadlinePasses, host
<1>8. CASE AgentCrashes BY <1>8, Zenon DEF AgentCrashes, host
<1>9. CASE Reboot BY <1>9, Zenon DEF Reboot
<1>10. CASE UNCHANGED vars BY <1>10, Zenon DEF vars, host
<1> QED
  BY <1>1, <1>2, <1>3, <1>4, <1>5, <1>6, <1>7, <1>8, <1>9, <1>10, Zenon DEF Next

(* One action at a time. *)
LEMMA PlacedStep ==
  ASSUME RollbackAssumption, Placed, own \in BOOLEAN, [Next]_vars
  PROVE  Placed'
<1>n. NoActive \in Rollback
  BY DEF NoActive, Rollback
<1>l. Lan \subseteq Object
  BY DEF RollbackAssumption
<1>w. ASSUME NEW a \in Actor, NEW pc \in Place, startWatchdog(a, pc) PROVE at' \in [Actor -> Place]
  BY <1>w DEF startWatchdog, Placed, Place, Actor
<1> USE <1>n DEF Placed, Place, Goto, Actor
<1>1. ASSUME NEW a \in Actor, RestoreActive(a) PROVE Placed'
  <2>0. from[a] \in Object /\ snap[from[a]].files \subseteq Object
    BY DEF Snapshot
  <2>i. active.id \in Object \union {None}
    BY DEF Rollback
  <2>1. CASE Load(a) BY <2>1, <2>i DEF Load
  <2>2. CASE replaceDir(a) BY <2>0, <2>2 DEF replaceDir
  <2>3. CASE restoreHostManagers(a) BY <2>3 DEF restoreHostManagers
  <2>4. CASE reloadNetworkd(a) BY <2>4 DEF reloadNetworkd
  <2>5. CASE clearRollback(a) BY <2>5, Zenon DEF clearRollback, host
  <2> QED BY <1>1, <2>1, <2>2, <2>3, <2>4, <2>5 DEF RestoreActive
<1>2. ASSUME NEW c \in Caller, Apply(c) PROVE Placed'
  <2>1. CASE Begin(c) BY <2>1 DEF Begin, host
  <2>2. CASE Wipe(c) BY <2>2 DEF Wipe, host, Snapshot
  <2>3. CASE armRollback(c) BY <2>3 DEF armRollback, host, Snapshot, Rollback
  <2>4. CASE Start(c)
    <3>1. /\ active' = active \/ active' = NoActive
          /\ UNCHANGED <<files, live, snap, change, from>>
          /\ startWatchdog(c, "write") \/ startWatchdog(c, "migrate") \/ at' = [at EXCEPT ![c] = "idle"]
      BY <2>4 DEF Start, host
    <3>2. at' \in [Actor -> Place]
      BY <3>1, <1>w
    <3> QED BY <3>1, <3>2
  <2>5. CASE writeFiles(c) BY <2>5 DEF writeFiles, revertOwned
  <2>6. CASE Reload(c) BY <2>6 DEF Reload, revertOwned
  <2>7. CASE probeManagement(c) BY <2>7 DEF probeManagement, host
  <2>8. CASE armFails(c)
    <3>1. /\ active' = active \/ active' = NoActive
          /\ UNCHANGED <<files, live, snap, change, from>> /\ at' = [at EXCEPT ![c] = "idle"]
      BY <2>8 DEF armFails, host
    <3> QED BY <3>1
  <2>9. CASE migrateUplinkManagers(c) BY <2>9 DEF migrateUplinkManagers
  <2> QED BY <1>2, <2>1, <2>2, <2>3, <2>4, <2>5, <2>6, <2>7, <2>8, <2>9, Zenon DEF Apply
<1>3. CASE Observe BY <1>3, <1>l DEF Observe
<1>4. CASE WatchdogLoads \/ Probe \/ LastProbe \/ AgentStarts
  BY <1>4 DEF WatchdogLoads, Probe, LastProbe, AgentStarts, host
<1>5. CASE RecoverStale
  <2>1. /\ active' = active \/ active' = NoActive
        /\ UNCHANGED <<files, live, snap, change, from>>
        /\ \/ startWatchdog(Agent, "idle")
           \/ at' = [at EXCEPT ![Agent] = "idle"] \/ at' = [at EXCEPT ![Agent] = "restore"]
    BY <1>5 DEF RecoverStale, host
  <2>2. at' \in [Actor -> Place]
    BY <2>1, <1>w
  <2> QED BY <2>1, <2>2, Zenon
<1>6. CASE AddressGoes \/ AddressComes BY <1>6 DEF AddressGoes, AddressComes, host
<1>7. CASE DeadlinePasses
  <2>1. UNCHANGED <<files, live, snap, at, change, from>>
    BY <1>7, Zenon DEF DeadlinePasses, host
  <2>2. active' \in Rollback
    BY <1>7 DEF DeadlinePasses, Rollback
  <2> QED BY <2>1, <2>2
<1>8. CASE AgentCrashes BY <1>8 DEF AgentCrashes, host
<1>9. CASE Reboot BY <1>9, Zenon DEF Reboot
<1>10. CASE UNCHANGED vars BY <1>10, Zenon DEF vars, host
<1> QED
  BY <1>1, <1>2, <1>3, <1>4, <1>5, <1>6, <1>7, <1>8, <1>9, <1>10, Zenon DEF Next

(* Types are kept, for all objects, requests, faults and overlaps. *)
THEOREM TypeCorrect ==
  ASSUME RollbackAssumption
  PROVE  Spec => []TypeOK
<1>1. Init => TypeOK
  BY InitType
<1>2. TypeOK /\ [Next]_vars => TypeOK'
  <2> SUFFICES ASSUME TypeOK, [Next]_vars PROVE TypeOK'
    OBVIOUS
  <2>1. Counted /\ Flags /\ Placed /\ own \in BOOLEAN
    BY TypeParts DEF TypeOK
  <2>2. Counted' /\ Flags' /\ Placed'
    BY <2>1, CountedStep, FlagsStep, PlacedStep
  <2> QED
    BY <2>2, Zenon DEF TypeOK, Counted, Flags, Placed, Rollback
<1> QED
  BY <1>1, <1>2, PTL DEF Spec
=============================================================================
