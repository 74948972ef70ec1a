---------------------------- MODULE NetRollback ----------------------------
(***************************************************************************)
(* The rollback of a network change that may cut the node off: the agent's *)
(* ndnet engine, the independent ndl-network-rollback watchdog and what    *)
(* the agent does with a left-over rollback when it starts.                *)
(*                                                                         *)
(* A change adds or removes one object: its 50-ndl- files on disk, which   *)
(* networkd then loads.  The change of a LAN bridge, and of a bond or VLAN *)
(* on the management path, is armed: the agent snapshots all of its files  *)
(* and those of the host's own network managers, writes active.json with a *)
(* deadline, starts the watchdog, makes the change and probes.  The        *)
(* watchdog probes until the deadline and puts the snapshot back when a    *)
(* probe fails.  Nobody deletes active.json when all goes well.            *)
(*                                                                         *)
(* Several calls, the watchdog and the starting agent may all be writing   *)
(* or restoring at once: nothing locks the directory.                      *)
(***************************************************************************)
EXTENDS Naturals

CONSTANTS
  Caller,    \* the requests the agent serves at once
  Watchdog, Agent,
  Object,    \* LAN bridges, bonds, VLANs, isolated networks
  Lan, Advanced,   \* the LAN bridges among them; the bonds and VLANs
  Risky,     \* those whose change is armed
  None,
  Cuts,      \* the loaded objects and state of the host's own managers
             \* under which the management address goes
  MaxOps, MaxFaults

(* An isolated network is not armed, a LAN bridge always is. *)
RollbackAssumption ==
  /\ Lan \subseteq Risky /\ Risky \subseteq Lan \union Advanced
  /\ Lan \union Advanced \subseteq Object /\ Object # {} /\ None \notin Object
  /\ Watchdog \notin Caller /\ Agent \notin Caller /\ Watchdog # Agent
  /\ MaxOps \in Nat /\ MaxFaults \in Nat

Actor == Caller \union {Watchdog, Agent}

VARIABLES
  files,     \* the objects with files in the network directory
  live,      \* the objects networkd has loaded
  own,       \* the host's own managers still configure the uplink
  snap,      \* the snapshot directory of every object
  active,    \* active.json: whose snapshot, and is the deadline still ahead
  watch,     \* the watchdog's own copy: is its deadline still ahead
  reach,     \* what a probe finds: the management address is there
  at,        \* where every actor stands
  change,    \* the change a caller makes
  from,      \* the snapshot an actor is putting back
  proven,    \* history of the active change: its call's probe passed, and then
             \* the watchdog saw it through to the deadline
  ops, faults

host == <<files, live, own>>
vars == <<host, snap, active, watch, reach, at, change, from, proven, ops, faults>>

NoActive == [id |-> None, open |-> FALSE]

(* Where an actor stands: at rest or down, in a call, on watch, restoring. *)
Place ==
  {"idle", "down", "recover", "wipe", "arm", "start", "migrate", "write", "reload", "probe",
   "load", "watch", "restore", "copy", "managers", "rereload", "clear"}
Snapshot == [files : SUBSET Object, own : BOOLEAN]

TypeOK ==
  /\ files \subseteq Object /\ live \subseteq Object /\ own \in BOOLEAN
  /\ snap \in [Object -> Snapshot]
  /\ active \in [id : Object \union {None}, open : BOOLEAN]
  /\ watch \in BOOLEAN /\ reach \in BOOLEAN
  /\ at \in [Actor -> Place]
  /\ change \in [Caller -> [obj : Object, add : BOOLEAN]]
  /\ from \in [Actor -> Object]
  /\ proven \in {"no", "passed", "seen"}
  /\ ops \in 0 .. MaxOps /\ faults \in 0 .. MaxFaults

(* A node whose networks work, without an active rollback. *)
Init ==
  /\ files \in SUBSET Object /\ live = files /\ own \in BOOLEAN
  /\ <<live, own>> \notin Cuts
  /\ snap = [o \in Object |-> [files |-> {}, own |-> FALSE]]
  /\ active = NoActive /\ watch = FALSE /\ reach = TRUE
  /\ at = [a \in Actor |-> "idle"]
  /\ change = [c \in Caller |-> [obj |-> CHOOSE o \in Object : TRUE, add |-> TRUE]]
  /\ from = [a \in Actor |-> CHOOSE o \in Object : TRUE]
  /\ proven = "no" /\ ops = 0 /\ faults = 0

Goto(a, pc) == at' = [at EXCEPT ![a] = pc]
Fault == faults < MaxFaults /\ faults' = faults + 1

-----------------------------------------------------------------------------
(* RestoreActive, step by step, by whoever calls it: read active.json,     *)
(* delete the files (a file may resist), copy the snapshot's, ...          *)
Load(a) ==
  /\ at[a] = "restore"
  /\ IF active.id = None
     THEN Goto(a, "idle") /\ UNCHANGED <<files, from, faults>>
     ELSE /\ Goto(a, "copy") /\ from' = [from EXCEPT ![a] = active.id]
          /\ \/ files' = {} /\ UNCHANGED faults
             \/ files' \in SUBSET files /\ Fault
  /\ UNCHANGED <<live, own, snap, active, watch, reach, change, proven, ops>>

(* ... which may stop halfway and ends the restore then, ... *)
replaceDir(a) ==
  /\ at[a] = "copy"
  /\ \/ files' = files \union snap[from[a]].files /\ Goto(a, "managers") /\ UNCHANGED faults
     \/ \E part \in SUBSET snap[from[a]].files : files' = files \union part /\ Goto(a, "idle") /\ Fault
  /\ UNCHANGED <<live, own, snap, active, watch, reach, change, from, proven, ops>>

(* ... put the other managers' files back, of which some are not in the    *)
(* snapshot (NetworkManager's), some commands are not undone (dhcpcd -k)   *)
(* and errors are ignored, reload, delete active.json.                     *)
restoreHostManagers(a) ==
  /\ at[a] = "managers"
  /\ own' \in {own, snap[from[a]].own}
  /\ Goto(a, "rereload")
  /\ UNCHANGED <<files, live, snap, active, watch, reach, change, from, proven, ops, faults>>

reloadNetworkd(a) ==
  /\ at[a] = "rereload"
  /\ \/ live' = files /\ Goto(a, "clear") /\ UNCHANGED faults
     \/ Fault /\ Goto(a, "idle") /\ UNCHANGED live
  /\ UNCHANGED <<files, own, snap, active, watch, reach, change, from, proven, ops>>

clearRollback(a) ==
  /\ at[a] = "clear"
  /\ active' = NoActive /\ proven' = "no"
  /\ Goto(a, "idle")
  /\ UNCHANGED <<host, snap, watch, reach, change, from, ops, faults>>

RestoreActive(a) ==
  Load(a) \/ replaceDir(a) \/ restoreHostManagers(a) \/ reloadNetworkd(a) \/ clearRollback(a)

-----------------------------------------------------------------------------
(* Apply, applyBond, applyVLAN, removeAdvanced and Delete, which refuses a *)
(* LAN bridge.  The request comes in over the management network.          *)
Begin(c) ==
  /\ at[Agent] = "idle" /\ at[c] = "idle" /\ reach
  /\ ops < MaxOps /\ ops' = ops + 1
  /\ \E o \in Object, add \in BOOLEAN :
       /\ o \in Lan => add
       /\ change' = [change EXCEPT ![c] = [obj |-> o, add |-> add]]
       /\ Goto(c, IF o \in Risky THEN "wipe" ELSE "write")
  /\ UNCHANGED <<host, snap, active, watch, reach, from, proven, faults>>

(* armRollback: empty the object's snapshot directory, ... *)
Wipe(c) ==
  /\ at[c] = "wipe"
  /\ snap' = [snap EXCEPT ![change[c].obj] = [files |-> {}, own |-> FALSE]]
  /\ Goto(c, "arm")
  /\ UNCHANGED <<host, active, watch, reach, change, from, proven, ops, faults>>

(* ... copy the files there, and write active.json over any other. *)
armRollback(c) ==
  /\ at[c] = "arm"
  /\ snap' = [snap EXCEPT ![change[c].obj] = [files |-> files, own |-> own]]
  /\ active' = [id |-> change[c].obj, open |-> TRUE] /\ proven' = "no"
  /\ Goto(c, "start")
  /\ UNCHANGED <<host, watch, reach, change, from, ops, faults>>

(* It may fail, and leave the snapshot empty or active.json unreadable,    *)
(* which counts as none.                                                   *)
armFails(c) ==
  /\ at[c] = "arm" /\ Fault
  /\ \/ UNCHANGED <<active, proven>>
     \/ active' = NoActive /\ proven' = "no"
  /\ Goto(c, "idle")
  /\ UNCHANGED <<host, snap, watch, reach, change, from, ops>>

(* systemctl start does nothing to a watchdog that runs. *)
startWatchdog(a, pc) ==
  at' = [at EXCEPT ![a] = pc, ![Watchdog] = IF @ = "idle" THEN "load" ELSE @]

Start(c) ==
  /\ at[c] = "start"
  /\ \/ /\ startWatchdog(c, IF change[c].obj \in Lan THEN "migrate" ELSE "write")
        /\ UNCHANGED <<active, proven, faults>>
     \/ Fault /\ active' = NoActive /\ proven' = "no" /\ Goto(c, "idle")
  /\ UNCHANGED <<host, snap, watch, reach, change, from, ops>>

(* migrateUplinkManagers takes the uplink from the host's own managers and *)
(* releaseStaleUplinkClaims the files of other bridges on it; a bridge     *)
(* that is already applied needs no more.                                  *)
migrateUplinkManagers(c) ==
  /\ at[c] = "migrate"
  /\ own' \in {own, FALSE}
  /\ LET o == change[c].obj IN
     \/ /\ \E stale \in SUBSET (Lan \ {o}) : files' = files \ stale
        /\ Goto(c, "write") \/ (o \in files \intersect live /\ Goto(c, "idle"))
        /\ UNCHANGED faults
     \/ Fault /\ Goto(c, "restore") /\ UNCHANGED files
  /\ UNCHANGED <<live, snap, active, watch, reach, change, from, proven, ops>>

(* revertOwned: an isolated network's files are removed. *)
revertOwned(c) ==
  /\ files' = files \ {change[c].obj} /\ live' \in {live, files'}
  /\ Goto(c, "idle")

(* writeFiles, writeOwned, or the removal, which deletes the link itself.  *)
(* When it fails halfway, an isolated network is reverted and what is      *)
(* armed goes back to the snapshot; but a removal, a change that is not    *)
(* armed and a VLAN whose access port is not valid only report the error.  *)
writeFiles(c) ==
  /\ at[c] = "write"
  /\ LET o == change[c].obj
         written == IF change[c].add THEN files \union {o} ELSE files \ {o} IN
     \/ /\ files' = written /\ Goto(c, "reload")
        /\ live' \in IF change[c].add THEN {live} ELSE {live, live \ {o}}
        /\ UNCHANGED faults
     \/ Fault /\ o \notin Lan \union Advanced /\ revertOwned(c)
     \/ Fault /\ o \in Risky /\ change[c].add
        /\ files' \in {files, written} /\ Goto(c, "restore") /\ UNCHANGED live
     \/ Fault /\ o \in Advanced
        /\ files' \in {files, written} /\ Goto(c, "idle") /\ UNCHANGED live
  /\ UNCHANGED <<own, snap, active, watch, reach, change, from, proven, ops>>

Reload(c) ==
  /\ at[c] = "reload"
  /\ \/ live' = files /\ Goto(c, IF change[c].obj \in Risky THEN "probe" ELSE "idle")
        /\ UNCHANGED <<files, faults>>
     \/ Fault /\ change[c].obj \notin Lan \union Advanced /\ revertOwned(c)
     \/ Fault /\ change[c].obj \in Lan \union Advanced
        /\ Goto(c, IF change[c].obj \in Risky THEN "restore" ELSE "idle") /\ UNCHANGED <<files, live>>
  /\ UNCHANGED <<own, snap, active, watch, reach, change, from, proven, ops>>

(* The last probe, which also fails when the host's state cannot be read.  *)
(* The window stays open behind a call that succeeds.                      *)
probeManagement(c) ==
  /\ at[c] = "probe"
  /\ \/ /\ reach /\ Goto(c, "idle") /\ UNCHANGED faults
        /\ proven' = IF active.id = change[c].obj THEN "passed" ELSE proven
     \/ ~reach /\ Goto(c, "restore") /\ UNCHANGED <<proven, faults>>
     \/ Fault /\ Goto(c, "restore") /\ UNCHANGED proven
  /\ UNCHANGED <<host, snap, active, watch, reach, change, from, ops>>

Apply(c) ==
  \/ Begin(c) \/ Wipe(c) \/ armRollback(c) \/ armFails(c) \/ Start(c) \/ migrateUplinkManagers(c)
  \/ writeFiles(c) \/ Reload(c) \/ probeManagement(c)

(* Observe: healLANBridge writes and loads the files of a bridge the       *)
(* control plane lists, and sweepOrphanUplinkFiles deletes those of one it *)
(* does not; neither is armed.                                             *)
Observe ==
  /\ at[Agent] = "idle" /\ reach
  /\ \E o \in Lan :
       \/ files' = files \union {o} /\ live' = files' /\ UNCHANGED faults
       \/ files' = files \union {o} /\ Fault /\ UNCHANGED live
       \/ files' = files \ {o} /\ UNCHANGED <<live, faults>>
  /\ UNCHANGED <<own, snap, active, watch, reach, at, change, from, proven, ops>>

-----------------------------------------------------------------------------
(* The watchdog: read active.json, then probe until the deadline and once  *)
(* more after it.  It leaves active.json where it is when all is well.     *)
WatchdogLoads ==
  /\ at[Watchdog] = "load"
  /\ Goto(Watchdog, IF active.id = None THEN "idle" ELSE "watch")
  /\ watch' = active.open
  /\ UNCHANGED <<host, snap, active, reach, change, from, proven, ops, faults>>

Probe ==
  /\ at[Watchdog] = "watch" /\ ~reach
  /\ Goto(Watchdog, "restore")
  /\ UNCHANGED <<host, snap, active, watch, reach, change, from, proven, ops, faults>>

(* The last one also restores when the host's state cannot be read. *)
LastProbe ==
  /\ at[Watchdog] = "watch" /\ ~watch /\ reach
  /\ \/ /\ Goto(Watchdog, "idle") /\ UNCHANGED faults
        /\ proven' = IF proven = "passed" /\ ~active.open THEN "seen" ELSE proven
     \/ Goto(Watchdog, "restore") /\ UNCHANGED proven /\ Fault
  /\ UNCHANGED <<host, snap, active, watch, reach, change, from, ops>>

-----------------------------------------------------------------------------
(* The agent starts: RecoverStale runs before it serves any request.  No   *)
(* code writes active.ok, which would stop it and the watchdog.            *)
AgentStarts ==
  /\ at[Agent] = "down"
  /\ Goto(Agent, "recover")
  /\ UNCHANGED <<host, snap, active, watch, reach, change, from, proven, ops, faults>>

RecoverStale ==
  /\ at[Agent] = "recover"
  /\ \/ active.id = None /\ Goto(Agent, "idle") /\ UNCHANGED <<active, proven, faults>>
     \/ active.open /\ startWatchdog(Agent, "idle") /\ UNCHANGED <<active, proven, faults>>
     \/ active.open /\ Fault /\ Goto(Agent, "idle") /\ UNCHANGED <<active, proven>>
     \/ active.id # None /\ ~active.open /\ reach
        /\ active' = NoActive /\ proven' = "no" /\ Goto(Agent, "idle") /\ UNCHANGED faults
     \/ active.id # None /\ ~active.open /\ Goto(Agent, "restore")
        /\ ((~reach /\ UNCHANGED faults) \/ Fault)
        /\ UNCHANGED <<active, proven>>
  /\ UNCHANGED <<host, snap, watch, reach, change, from, ops>>

-----------------------------------------------------------------------------
(* The host.  Under a configuration of Cuts the address goes; under any    *)
(* other it comes back.                                                    *)
AddressGoes ==
  /\ <<live, own>> \in Cuts /\ reach
  /\ reach' = FALSE
  /\ UNCHANGED <<host, snap, active, watch, at, change, from, proven, ops, faults>>

AddressComes ==
  /\ <<live, own>> \notin Cuts /\ ~reach
  /\ reach' = TRUE
  /\ UNCHANGED <<host, snap, active, watch, at, change, from, proven, ops, faults>>

(* The deadline the watchdog read is never behind that of active.json, so  *)
(* it passes first.                                                        *)
Watching == at[Watchdog] = "watch" /\ watch

DeadlinePasses ==
  /\ Watching \/ active.open
  /\ watch' = FALSE
  /\ \/ active' = [active EXCEPT !.open = FALSE]
     \/ Watching /\ UNCHANGED active
  /\ UNCHANGED <<host, snap, reach, at, change, from, proven, ops, faults>>

(* The agent dies with its calls; the watchdog is a unit of its own. *)
AgentCrashes ==
  /\ at[Agent] # "down" /\ Fault
  /\ at' = [a \in Actor |-> CASE a = Agent -> "down" [] a = Watchdog -> at[a] [] OTHER -> "idle"]
  /\ UNCHANGED <<host, snap, active, watch, reach, change, from, proven, ops>>

(* A boot loads the files; the address is not there yet, and only the      *)
(* agent is started.                                                       *)
Reboot ==
  /\ Fault
  /\ at' = [a \in Actor |-> IF a = Agent THEN "down" ELSE "idle"]
  /\ live' = files /\ reach' = FALSE /\ watch' = FALSE
  /\ UNCHANGED <<files, own, snap, active, change, from, proven, ops>>

-----------------------------------------------------------------------------
Next ==
  \/ \E c \in Caller : Apply(c)
  \/ \E a \in Actor : RestoreActive(a)
  \/ Observe
  \/ WatchdogLoads \/ Probe \/ LastProbe \/ AgentStarts \/ RecoverStale
  \/ AddressGoes \/ AddressComes \/ DeadlinePasses \/ AgentCrashes \/ Reboot

Spec == Init /\ [][Next]_vars

-----------------------------------------------------------------------------
(* Properties. *)

\* "RecoverStale restores a timed-out failed apply": the starting agent does
\* not take back a change whose own probe passed and that the watchdog saw
\* through to its deadline.
ProvenStays == at[Agent] = "restore" /\ proven = "seen" => snap[active.id].files = files
=============================================================================
