# Verification of NDL-CE in TLA+

NDL-CE is a hypervisor and homelab platform: a control plane (HTTP API,
automation, leases), a privileged agent on each host (containers, virtual
machines, storage, networks, backups) and helper programs. This directory holds
TLA+ models of the parts where interleavings and crashes decide whether data
survives, the TLC runs that check them, and TLAPS proofs.

`PROJECT.json` is the index: components, runs, mutants, the map from definitions
to source lines, findings, hazards and theorems.

## Inventory

| Part | State | Operations | What makes it hard |
| --- | --- | --- | --- |
| Local backup repository (`internal/backup`: `repo.go`, `engine.go`, `gc.go`, `reset.go`) | pack, index, manifest and state files; in-memory chunk index; pack writers; capture lock | capture, flush, collect, compact, expire, Reset, open | captures share an index while they flush; compaction moves chunks under live points; a crash between any two file operations |
| Remote protection (`queue.go`, `remote*.go`, `backuphost`) | job and `.failed` files, workers, uploaded-pack index, sweep candidates, objects on the target, remote state of each point | enqueue, scan, process, complete, fail, re-arm, expire, expire remotely, collect, sweep, restart | four actors share the files and mostly take no common lock |
| Live updater (`internal/liveupdate`) | `state.json`, saved binaries, installed binaries, UI link | install, apply, fail, rollback, recover, package install, prune | crash between steps; several updates to roll back in order |
| Control plane and writer lease (`internal/control`, `internal/appdb`) | lease row, renewal goroutine | acquire, renew, fence, promote, shut down, relinquish | takeover under a paused holder that goes on working |
| Automation engine (`internal/automation/engine`) | one row per run with frames and node states; run leases | sweep, claim, step, approve, cancel, wake, recover | several writers of one row; a worker dies in a step; a lease lapses under a slow step |
| Deployments (`internal/httpapi/deploy*.go`, `internal/deploy`) | deployment rows; runs, status files and processes on the node | enqueue, dispatch, adopt, supervise, cancel, run, kill, recover | control plane and agent restart independently; a lost answer to a carried-out request |
| Disk guard (`internal/diskguard`) | reserve file, hold-off, admission | refresh, grow and release the reserve, allow | decisions on a stat that is out of date |
| Network changes (`internal/ndnet`, `cmd/ndl-network-rollback`) | files, snapshots, `active.json`, watchdog | apply, remove, probe, restore, recover | a change that cuts off its own operator; several restores at once |
| Containers, machines, storage, migration, API, UI and the rest | external tools, SQL | | listed in `PROJECT.json` with the reason they are not modelled |

What correctness means for the parts modelled: a restore point, once it exists,
keeps every chunk it needs through everything short of its own deletion; a
capture never counts on data that is not there; space is reclaimed in the end;
a sweep spares what a local point needs; "protected" means restorable from the
target; a queued upload arrives; and an update of the host is applied whole or
leaves no trace, and can be rolled back. A run of a flow is written by one
process at a time, ends, and does not repeat what must not be repeated; a
deployment reported as succeeded did succeed, and leaves no processes behind;
the guard never fills the disk it guards; and a network change that has proved
itself stays. Where the code does not keep such a promise, a run shows it
("Findings") or "Known deviations" says so.

## Modules

### `PointStore`: what the repository promises

No packs, locks or crashes. A capture offers content (`Offer`), its point
appears whole (`Publish`) or never (`Abandon`), and points disappear only when
somebody asks (`Remove`). Content never changes.

### `Repository`: the local repository

| Variable | Code |
| --- | --- |
| `packFile`, `idxFile`, `snap`, `stateFile` | `packs/*.pack`, `packs/*.idx`, `*.snap`, `*.state` |
| `index` | `Repository.index` |
| `writer[o]` | one `packWriter` per capture, one in `CollectGarbageWith` (`"gc"`) |
| `cap[p]`, `pos[p]`, `tree[p]` | progress of `Capture` through the files it walks |
| `gc` | the local variables of `CollectGarbageWith` and `Reset` |
| `wiped` | history: points some `Reset` set out to delete |

`flush` is three actions (pack file, index file, in-memory index), `deletePack`
three, `DeleteRestorePoint` two, compaction one per entry copied. `crash` may
fall between any of them and `OpenRepository` recovers. The capture lock
(`beginCapture` shared, collector and `Reset` exclusive) is `CaptureLocked` and
`Exclusive`.

Abstractions. A pack is the sequence of its chunks, which is what naming it by
its content hash means; sealing and compression are left out. Renames survive a
crash in the order they were made. `referencedChunks` reads all manifests in one
step: no capture runs meanwhile, so the set of manifests can only shrink, and a
larger set keeps more. A pack's entries enter the index in one step. The
workspace guard and every I/O error of a capture are `captureFails`, possible at
any moment. `Reset`'s progress is a choice of what is still on disk, manifests and
sidecars going together. The errors of removing a pack file or a manifest, which
the code ignores before it removes the index file or the sidecar, are left out: a
pack that stays is removed, and a point that stays is back, when the repository is
opened again.
`ResetMayFail` says whether a file error may interrupt `Reset`.

### `RepositoryInv` and `RepositoryProofs`

The inductive invariant and the proofs, below.

### `RemoteProtection` and `RemoteProofs`: from local to protected, and back

The repository at the grain at which the queue sees it (a capture is one step, a
pack is a set of chunks), the queue's job files and workers, expiry requests,
maintenance runs and the object store. `process` to `protect` are the steps of
a worker through `process`, `putPack` and `complete`; `RemoveJobs` to
`SetRemoteState` those of `expire` and `expireRemoteOnly`; `collect` to
`sweepSave` those of `runGC`. Each remote call and each read or write of a shared
file is a step of its own. Any remote call may fail (`fail`, `expireFails`, the
second branch of `sweepDelete`).

A worker, an enqueue, an expiry and a maintenance run interleave freely, as in the
code. `Remote` (points with a target), `Pausable`, `Expirable`, `RemoteOnly` and
`Repack` limit what operators and policies do in an instance.

Abstractions: one target and one queue; the object store is strongly consistent,
and a failed put leaves nothing; backoff times are left out, so a retry may come
at any moment; `MarkUploaded` succeeds (its failure, which is ignored, only costs
another look-up), `ForgetUploaded` may fail; a location map that cannot be read
counts as none (`ExpireRemoteLoad`); `MeasureRemote`, `FetchRemote` and
`wipeRemote` are not modelled.

### `LiveUpdate` and `LiveUpdateProofs`: updates of the host itself

| Variable | Code |
| --- | --- |
| `bin`, `run`, `ui` | the binaries in `BinDir`, the builds the services run, the `ui` link |
| `releases`, `saved` | `releases/<id>`, `saved/<id>/<binary>` |
| `current`, `pending`, `history` | `state.json`; of the history only the applied updates |
| `inbox` | queued bundles |
| `u` | where the running `ndl-live` process is, with its local variables |
| `pkg` | the installed package release |
| `mishap`, `torn` | history variables, below |

`Recover`, `Rollback` and the actions from `apply` to `drop` are the steps of
`Run`; each effect on disk or on a service is one step, and `crash` (a power cut,
after which the services run what is installed, or the death of the updater
alone) may fall between any two. `Faults` says which calls may fail: saving
`state.json`, copying files, restarting a service or its health check.

`mishap` records that something happened which the updater reports but cannot
undo, or does not notice: a restore with an error, a bundle applied or refused
while it is applied already, a pending update overwritten by the next bundle, a
package whose `package-installed` call failed, and two deaths at particular
points (between putting a binary back and restarting it; before `saved/<id>` is
cleared of an earlier attempt). The safety properties are about hosts without a
mishap; each kind is among the hazards, in `PROJECT.json` or below. `torn` holds
updates whose rollback began and was not recorded: nothing resumes it until the
operator asks again.

Abstractions: one updater process at a time; a package install (dpkg, restart
and `PackageInstalled`) is one step between runs; the history is not cut at 100
entries; what the database says about migrations is a free choice.

### `Control`: the control plane and its writer lease

`proc` is where each incarnation of the control plane is in its life, `writer`
the lease row. A process acquires the lease once (`Boot`) and afterwards renews
it, ignoring a renewal that is refused; `Fence` and `Promote` are the operator's
requests; `Pause` is a process that is not scheduled for longer than the TTL. A
process that was paused comes back and works on, whoever holds the lease. The
module has no run of its own: `FlowRun` extends it.

### `FlowRun`, `FlowProofs` and `FlowRunProofs`: one run of an automation flow

| Variable | Code |
| --- | --- |
| `flow`, `row` | the run's definition; its `automation_runs` row: status, frames, steps |
| `lease` | `lease_owner`; an expired lease is none |
| `step[p]` | the goroutine of process `p` that steps the run, with its copy of the row |
| `approval`, `cancel` | an `Approve` and a `Cancel` call in flight |
| `promoting` | processes in a `promote` that has listed the run as queued |
| `due` | steps whose `WakeAt` has passed |
| `ran`, `repeated`, `overtaken`, `clash`, `yielded` | history |

The sweep lists a run, the stepper claims it, reads the row once, and then loops:
wake, skip, end a frame, expand a loop, run a batch, save. Every save writes the
whole row and does not look at the lease. The lease belongs to a process, so a
stepper, an approval and a cancel of one process all pass the claim. A promotion
(`promoteList`, `promote`) reads the run while it is queued and later writes the
whole row as pending, and claims nothing. `yielded` records that two operations of
one process met, that a lease lapsed under an operation (`RunLeaseLapses`, or a
pause) or that a promotion wrote a row that was not queued any more or that
another operation had read; `clash` that an outdated copy was written. `Kept`
looks at what is left in the row, `repeated` at the effects of steps.

Abstractions: an action's effect is one step; a step's result is a free choice
among those its kind has; expressions, inputs and outputs are left out; the time
of a delay is a choice (`WakeTimePasses`); whether the flow has room for another
run is a choice; a renewal does not outlive the release of its lease. Definitions are acyclic, as validation
ensures, and are given as constants.

### `Deploy` and `DeployProofs`: deployments

| Variable | Code |
| --- | --- |
| `dep`, `queue` | the deployment rows and their order |
| `tick`, `starting`, `misses` | the worker's round and its memory (`rt`) |
| `cancels` | cancel requests that still have to reach the node |
| `agent`, `run`, `file`, `killer` | the agent, its runs, their status files, goroutines that stop one |
| `guest` | the process tree in the container (external) |
| `astray` | history: deployments the control plane gave up, that were stopped before their processes were known, or whose processes could not be killed |

`Supervise` to `Recall` are the parts of a round of `tickDeployments` between
calls to the node; `Execute` to `finish` the goroutine of a run on the agent;
`Kill` that of `stop`. `ControlRestarts` and `AgentStops` lose memory, not files
or processes. A call may be carried out and its answer lost. A kill may fail;
`Manager.Status` does not look at that and settles the file all the same
(`Settle`).

Abstractions: a deployment's commands are one process tree that ends well, ends
badly or runs on; the log is left out; container start and checks of the request
are part of `Execute` and may fail; one container per deployment. Writing a row or
a status file succeeds, although the code ignores those errors too: the next round
reads the old row and follows it again.

### `DiskGuard` and `DiskGuardProofs`: the guard over the host's disk

`used` is what others hold, `reserve` the size of the reserve file, `refresh` the
refresh under way with the free space and the size it has read, `call` what each
caller of the guard does, `taken` (history) what others took since the stat.
`Take` and `GiveBack` may fall anywhere; `RemoveReserve` is `ReleaseReserve`,
which does not take the mutex. The policy's percentages, floors and caps are as
in the code, in integers, with the integer division.

Abstractions: one filesystem, the one with the reserve; the file is
preallocated, so its size is the space it holds (on a filesystem that cannot do
this the code keeps no reserve); 64-bit overflow is out of
reach of disk sizes. `statfs` answers and `os.Remove` works: after a failed statfs
the guard drops the filesystem and admits everything until the next refresh
(`guard.go:262`, `468`), and a reserve that could not be removed is tried again 30
seconds later.

### `NetRollback` and `NetRollbackProofs`: network changes that may cut the node off

| Variable | Code |
| --- | --- |
| `files`, `live` | objects with `50-ndl-` files; objects networkd has loaded |
| `own` | whether the host's own managers (ifupdown, dhcpcd, NetworkManager) configure the uplink |
| `snap`, `active` | snapshot directories; `active.json` (whose snapshot, is the deadline ahead) |
| `watch` | the deadline the running watchdog has read |
| `reach` | what a probe finds |
| `at`, `change`, `from` | where each request, the watchdog and the starting agent are |
| `proven` | history: the active change passed its own probe, and then the watchdog's window |

`Begin` to `probeManagement` are the steps of `Apply`, `applyBond`, `applyVLAN`,
`removeAdvanced` and `Delete`, `Load` to `clearRollback` those of `RestoreActive`,
which the failing request, the watchdog and `RecoverStale` may run at the same
time. `Observe` heals a LAN bridge and sweeps orphan files without arming. Risky
changes overlap freely, because nothing in the code keeps them apart. A restore
need not bring the host's own managers back (`restoreHostManagers`).

Abstractions: an object's files are written and removed as one (a write that
fails halfway has written them or not); a configuration either cuts the node off
or does not (`Cuts`); and what the commands of other network managers do is only
whether they still configure the uplink.

## Runs

| Run | Expected | Properties | Shows |
| --- | --- | --- | --- |
| `repository` (`MCRepository`, `MCRepository.cfg`) | pass | `TypeOK`, `IInv`, `PointsDurable`, `PointsReadable`, `DedupIsSafe`, `ImplementsPointStore` | Two captures that share chunks, collections with compaction, expiry, Reset and a crash at any point lose no chunk of a restore point, keep the index sound and implement the abstract point store. |
| `repository_reclaims` (`MCRepository`, `MCRepositoryLive.cfg`) | pass | `DeadPacksReclaimed` | Dead packs are deleted in the end, whatever crashes, half deletions, failed collections and failed Resets came before. |
| `remote` (`MCRemoteProtection`, `MCRemoteProtection.cfg`) | pass | `TypeOK`, `SweepSparesLocalPacks` | With captures, uploads, expiries, compactions and sweeps interleaved freely, with failures, pause, resume and remote-only expiry, a sweep deletes nothing in which a local point has chunks. |
| `remote_uploads` (`MCRemoteProtection`, `MCRemoteLive.cfg`) | pass | `QueuedIsUploaded` | With uploads, one expiry and maintenance interleaved freely, a queued upload reaches the target in the end across failures, parking, re-enqueueing and two restarts. |
| `remote_compacted` (`MCRemoteProtection`, `MCRemoteCompacted.cfg`) | violation | `ProtectedIsRecoverable` | A compaction between the confirmation of a point's packs and its location map leaves the point marked protected with a map that names a pack the target does not have. |
| `live_update` (`MCLiveUpdate`, `MCLiveUpdate.cfg`) | pass | `TypeOK`, `HostMatchesHistory`, `RunsWhatIsInstalled`, `RollbackPossible`, `PendingEnds` | Three updates with overlapping components, one more than prune keeps, a package upgrade, one crash between any two effects, and failing saves, copies and services: between runs the host has what state.json says, runs it, can roll back as far as prune keeps, and no interrupted update stays pending. |
| `flow_run` (`MCFlowRun`, `MCFlowRun.cfg`) | pass | `TypeOK`, `StepBudget`, `LeaseHolds`, `NeverReopened`, `ProgressKept` | Two control processes step a run of three different flows (approval beside a delay, a loop, a branch with a stop), with approvals, cancels and promotions from the queue on either process or one crash, pause, fence, shutdown, lapse or failed save: the step limit holds, a recorded result stays, a finished run stays finished, and an outdated copy of the row is written only where a claim was let in beside another, a lease lapsed or a promotion wrote without one. |
| `flow_run_ends` (`MCFlowRun`, `MCFlowLive.cfg`) | pass | `RunEnds` | Whatever crashes, pauses or fails once, a run ends, stands waiting for an approval or waits in its flow's queue; no due run is forgotten. |
| `flow_repeats` (`MCFlowRun`, `MCFlowRepeats.cfg`) | violation | `NotRepeated` | A process dies after an action took effect and before the row is saved; another one recovers the run and executes the action, which is not idempotent, again. |
| `deploy` (`MCDeploy`, `MCDeploy.cfg`) | pass | `TypeOK`, `RowLimits`, `SuccessIsReal`, `NoStrays`, `CancelArrives`, `FinalStays`, `DeploymentsEnd` | Two deployments of different projects in one container, with a cancel and one fault (restart of either side, lost answer, failed kill, failed probe of the container's mode, backup) at any step: the limits hold, success is real, what is over leaves no processes unless a kill failed or it was lost or stopped too early, cancels arrive, final statuses stay, and every deployment ends although its commands may hang. |
| `disk_guard` (`MCDiskGuard`, `MCDiskGuard.cfg`) | pass | `WithinTarget`, `GrowthSafe`, `AdmissionSafe`, `EmergencyReleases`, `ReserveReturns` | watchDisk beside another caller on a disk that others fill and free at any moment, with releases by an operator and a restart of the agent: the guard never causes the shortage it guards against, gives the reserve up in an emergency and takes it again in full. |
| `net_rollback_stale` (`MCNetRollback`, `MCNetRollbackStale.cfg`) | violation | `ProvenStays` | After a reboot the agent finds the rollback of a bond that passed its own probe and the watchdog's whole window, probes before the address has come up, and takes the good change back. |

Bounds. The repository runs have two captures, because the interesting
conflicts are between one capture and another, or between one and the collector;
three chunks of two sizes, such that losing the big one makes a pack mostly dead
and losing a small one does not; a pack target that one tree reaches in the
middle of its walk; and one crash, which may strike at any point, also in the
middle of a deletion that a later collection meets again. Larger
instances are left to the theorems, which hold for every size. `remote` and `remote_compacted` have two points that share a
chunk, so that compaction moves data of one under the upload of the other, and one
worker. `remote_uploads` has one point, which may be expired once, and two restarts:
with shared packs a worker may rely on an entry of the uploaded index that a crash
or a failed `ForgetUploaded` left wrong ("Known deviations"), and the upload then
ends without the pack. Deadlock is not checked for `RemoteProtection`: when every point is
captured, uploaded and expired, nothing is left to do.

`live_update` has three bundles, of which two replace the control plane and two
the UI, two package releases and one crash. `keepReleases` is 2 (5 in the code), one
less than the bundles, so that `prune` does remove saved binaries and releases; the
chains of rollbacks, a failed or interrupted update over another and an upgrade in
between all happen. The constraint `Modest` leaves out the third bundle after a
crash and after a mishap, where the safety properties say nothing.

`flow_run` has two processes and three flows: a gate beside a delay, a loop over
a step that may not be repeated, and a branch. The bounds are two attempts, three
steps of budget (so that it can run out), two items, and one fault or two calls
(`Trouble`; approvals, cancels and promotions); two processes are enough for a takeover, and they are symmetric.
`flow_run_ends` leaves out the calls and the branch. Deadlock is not checked
where a finished run, a finished deployment or an idle network may stop for good.

`flow_repeats` is `flow_run` with the property that fails.

`deploy` has two deployments of different projects in one container with systemd,
one cancel and one fault; where the probe for systemd fails, a deployment runs in
session mode, where nothing but the code bounds its time. The deployments are
alike, so `InTurn` has the first one queued first; it also leaves out a cancel of
the second one beside a fault. Both are choices of the environment, which no
fairness forces.
`MaxMisses` is 2 for 90: only reaching it matters. `disk_guard` has a disk of ten
units whose thresholds differ and whose reserve target is no multiple of the
step, the watching goroutine and another caller, two releases and a restart.
Others take up to five units during a refresh, one more than its margin, so that
growing the reserve can fail.
`net_rollback_stale` has a LAN bridge, a bond on the management uplink and an
isolated network; two requests at once, two changes, one fault. The trace needs
one change and the reboot.

| Run | Distinct states | Run | Distinct states |
| --- | --- | --- | --- |
| `repository` | 1,023,711 | `flow_run` | 672,734 |
| `repository_reclaims` | 282,632 | `flow_run_ends` | 283,180 |
| `remote` | 1,987,816 | `deploy` | 461,299 |
| `remote_uploads` | 348,980 | `disk_guard` | 736,942 |
| `live_update` | 690,146 | | |

Fairness. `Repository.FairSpec`: a capture in progress and a flush go on; the
agent is restarted by systemd; collections are attempted again and again (after
each expiry, failed capture and policy run), so one that can start again and
again does, and its deletions, if possible again and again, do not fail for
ever (strong fairness). `RemoteProtection.FairSpec`: workers and the re-arm
timer run; in the end remote calls stop failing and operators stop pausing and
re-enqueueing. `LiveUpdate.FairSpec`: the timer starts the updater every five
minutes and the process goes on; `state.json`, if a restore ends again and again,
can be written at last. `FlowRun.FairSpec`: the sweep ticks, goroutines run,
time passes and a control plane that is down is started again; nobody has to
decide or cancel. `Deploy.FairSpec`: the worker ticks, goroutines run, timers
fire, the agent is started again, a backup ends; nothing makes a deployment's
commands end. A deployment's own steps share one fairness condition each: only
finitely many of them are ever taken, so none can starve another. `DiskGuard.FairSpec`: `watchDisk` calls again, what was called goes
on, six hours pass; nothing is assumed of those who fill the disk.
Nothing is assumed about crashes beyond their number.

## Findings

* `ProtectedIsRecoverable` (`remote_compacted`), src/internal/backup/queue.go:649. complete confirms the packs that the index names when it starts (queue.go:609-637) and then builds the location map from the index as it is by then (line 649); a compaction in between has moved chunks to a pack that nobody uploaded, and the point is marked protected all the same. The comment at src/internal/backup/queue.go:61-63 says "A restore point is marked protected only after every pack it needs is confirmed on the target and the manifest and location map read back at their expected size." The run shows a protected point, whose expiry nobody asked for, with a location map that leads to a pack that is not on the target.
* `NotRepeated` (`flow_repeats`), src/internal/automation/engine/engine.go:885. runBatch marks its steps as running in memory only and the row is saved after they return, so a process that dies in between leaves a row in which they have not begun, and recoverInterrupted, which looks for running steps, does not find them. The comment at src/internal/automation/engine/engine.go:536-537 says "recoverInterrupted handles steps that were running when a worker died: idempotent ones run again, the rest fail honestly." and the message at line 559 "interrupted: the server restarted while this step ran, so it is not repeated". The run shows a step that is not idempotent taking effect twice after one crash, with no outdated copy written.
* `ProvenStays` (`net_rollback_stale`), src/internal/ndnet/engine.go:766. The code restores any rollback that is still on disk when the management address is not there at the agent's start; since the watchdog leaves active.json behind when all went well (src/cmd/ndl-network-rollback/main.go:51), this includes changes that passed the whole probe window. The comment at src/internal/ndnet/engine.go:745 says "RecoverStale restores a timed-out failed apply, or restarts the watchdog when the 120s probe window is still open." The run shows a bond on the management uplink that is armed, made, probed and seen through by the watchdog, and that is taken back by RestoreActive after a reboot.

## Known deviations

The passing runs check what holds, and three runs show promises that do not
("Findings"). These are more places where the code does not keep what it says; the
models have the behaviour, and no property states the promise.

* A worker that has read its job uploads the manifest after the expiry deleted it,
  and an enqueue writes the sidecar back, against `backuphost/host.go:506`
  (`EnqueueState`, `putManifest`).
* A crash or a failed write between the deletion of a swept pack and
  `ForgetUploaded` (`remote_gc.go:187`, `191`) leaves it listed as uploaded, against
  `remote_index.go:13`; a later point that shares the pack is completed without it.
* `ResetMayFail = TRUE` in `MCRepository.cfg`: after a `Reset` that met a file
  error the index leads to packs that are gone (`reset.go:40`, `DedupIsSafe`).
* A sweep overwrites candidates that an expiry recorded meanwhile
  (`remote_gc.go:195`). A compaction may meet a half deleted pack and fail until
  the point that needs it is gone (`gc.go:262`). `Recover` may put back binaries
  that an earlier attempt saved (`updater.go:412`, excepted by `mishap`).
* An update that is older than the `keepReleases` newest cannot be undone, and
  neither is the UI there that an update within that window replaced, if it came
  from an older one: `prune` removes both, against the comment at `updater.go:627`
  ("always the live one and those a rollback could return to"). `RollbackPossible`
  is about the window (`Window`), one entry shorter than `keepReleases`, because a
  `prune` after a failed save works on a history one entry longer than the saved.
* A process whose run lease lapsed, a second operation of the same process and a
  promotion each write their copy of a run's row, outdated or not (`yielded`,
  `clash`).
* A `stop` that comes before a run's processes are known kills nothing, and a kill
  that fails is not noticed, against `deploy/manager.go:387` (`astray`).
* Risky network changes may overlap: the second snapshot contains the first change,
  and a restore puts that back. A restore does not undo `migrateNetworkManager`
  (`migrate.go:154`) nor `dhcpcd -k`. So that a node that is cut off comes back is
  not a property of this code.

## Further hazards

`PROJECT.json` lists the hazards that matter most. These were met as well; the
properties named include them, except where the remark says otherwise.

* `backup/repo.go:271`: A chunk that two packs hold is found through one index entry; after compaction it must lead to the surviving pack. (`PointsReadable`, `IInv`.)
* `backup/gc.go:176`: Dead packs must be reclaimed in the end although collections fail, are interrupted and wait for captures. (`DeadPacksReclaimed`.)
* `backup/engine.go:263`: A crash between the manifest and the state sidecar leaves a point that only reopening the repository makes visible. (`PointsDurable`, `ImplementsPointStore`.)
* `backup/engine.go:266`: A capture that fails after its manifest was written reports failure, yet the point exists and keeps its chunks until the repository is reopened and it is expired. The model has the behaviour (captureFails after writeManifest); no doc says what should happen to such a point, so no property does.
* `backup/queue.go:503`: A sweep may delete a pack between a worker's Put and its MarkUploaded. Modelled (putPack, sweepDelete, MarkUploaded); the uploaded index is then wrong, as after a crash at remote_gc.go:187.
* `backup/remote_gc.go:195`: The sweep reads the candidates at its start and overwrites them at its end; an expiry adds candidates in between. The model has it: such candidates are lost and their packs stay on the target, although remote_gc.go:99 says an interruption cannot strand packs.
* `backup/queue.go:255`: EnqueueBackup writes back the state it loaded before it wrote the jobs; an upload that ended in between is reported as queued again. Modelled (EnqueueState); the status heals at the next completion and no doc states what must hold meanwhile.
* `backup/restore.go:355`: SetRemoteState loads and writes a state without stateMu; a concurrent DeleteRestorePoint or worker update is undone. A resurrected sidecar is in the model only through EnqueueState; SetRemoteState is one step there.
* `backuphost/target.go:92`: queueFor checks for a queue, unlocks, and starts one; two requests may start two queues over one job directory. One queue per target is assumed.
* `backuphost/extra.go:187`: wipeRemote removes job files and deletes objects while workers are in flight, and clears the uploaded index only at its end. wipeRemote is not modelled.
* `liveupdate/updater.go:234`: A crash after an update is recorded and before its file leaves the inbox applies it again: saved/<id> is overwritten with the update's own binaries and rolling it back changes nothing. (`RollbackPossible`.) Excepted by mishap (Again).
* `liveupdate/updater.go:496`: The updater is killed in restore between putting a binary back and restarting its service; the next restore finds the binary in place and never restarts the service. (`RunsWhatIsInstalled`.) A kill at exactly this point is excepted by mishap; a power cut, after which the host boots, is not.
* `liveupdate/updater.go:431`: A failed save in the middle of apply returns without undoing; the next bundle of the same pass overwrites the pending record. (`HostMatchesHistory`.) The overwriting is excepted by mishap; without a second bundle in the same pass the next run undoes the update, which the property covers.
* `liveupdate/updater.go:259`: A bundle queued again and refused as incompatible loses releases/<id> although the UI link may lead there. Modelled (refuse) and excepted by mishap; that the UI link leads to an existing release is not stated as a property of its own.
* `liveupdate/updater.go:518`: A rollback from the command line or a package install runs beside the service with no lock over state.json and the binaries. One updater process at a time is assumed.
* `automation/engine/service.go:574`: Cancel looks whether the run has finished before it claims and not after; a run that finishes in between is written as cancelled. (`NeverReopened`.) The property lets one final status replace another, which is what this race does.
* `automation/engine/engine.go:467`: A cancel is accepted while the stepper is parking or already past its last look at the flag; the run waits on and is never cancelled. (`RunEnds`.) The model has the lost cancel (RequestCancel after park); no doc says that an accepted cancel must take effect.
* `control/lease.go:84`: The writer lease's renewal ignores its error; a control process whose lease was fenced or taken over continues to step runs beside the new one. (`LeaseHolds`, `NeverReopened`.)
* `automation/engine/service.go:245`: Start counts active runs and then creates one, promote counts and then updates: two of them exceed the concurrency, and a run queued after the last promote waits for good. The other runs of a flow are not modelled: whether there is room is a free choice.
* `deploy/manager.go:330`: A run ends by itself while a cancel or its timer is stopping it; the reason decides, whatever the exit code. (`SuccessIsReal`.)
* `httpapi/deploy_run.go:301`: After 90 unanswered polls the row says interrupted although the commands may still be running and the node comes back later. (`NoStrays`, `FinalStays`.)
* `httpapi/deploy_run.go:362`: adoptStarting reports that the deployment did not run when the node merely did not answer. (`NoStrays`.) Counted as astray; the text of the error is not modelled.
* `diskguard/guard.go:209`: heldOffUntil and autoReleased are not persisted: after a restart a released reserve is taken again at once. (`ReserveReturns`, `GrowthSafe`.) Restart is an action of the model; only what still holds is stated.
* `diskguard/guard.go:358`: Growing by whole steps must still reach a target that is no multiple of the step, and never pass it. (`ReserveReturns`, `WithinTarget`.)
* `diskguard/guard.go:367`: fallocate can fail having allocated part of the space; the status then counts the old size. (`WithinTarget`, `AdmissionSafe`.)
* `diskguard/guard.go:449`: Two bulk writes are admitted on the same free space; each was allowed, together they fill the disk. (`AdmissionSafe`.) diskGate passes no size, so nothing bounds what an admitted write takes; the property is about the moment of admission.
* `ndnet/rollback.go:130`: A restore dies between deleting the files and copying the snapshot's; the next one must still find the same snapshot. The step is in the model (Load, replaceDir, AgentCrashes). That the node comes back does not follow: the rollback may have been overwritten by a later change, and what a host's own managers lost is not all restored.
* `ndnet/rollback.go:39`: Arming the same object again empties the snapshot that the old active.json still names. In the model (Wipe, armRollback); a crash in between leaves an empty snapshot to restore.
* `ndnet/engine.go:223`: The agent dies, or removeAdvanced returns early, between writing a change and loading it: every probe of the window sees the old configuration, and the change takes effect at the next boot. In the model (AgentCrashes or writeFiles that fails, then Reboot).
* `ndnet/engine.go:758`: The deadline passes while the agent is down or restarting; the window must be taken up again or be decided. In the model (RecoverStale).
* `ndnet/engine.go:464`: networkctl reload fails in a restore: active.json stays, nobody tries again until the agent restarts. In the model (reloadNetworkd).
* `ndnet/engine.go:192`: The watchdog cannot be started after active.json was written; the change must not be made. In the model (Start).
* `ndnet/rollback.go:132`: A restore brings back the files as they were when the window opened and so deletes the networks that were created since. The model has it (files after replaceDir); no doc says what happens to them.

## Proofs

`RepositoryProofs` holds for every set of chunks and points, every set of trees,
size function, pack target and number of crashes. It assumes that trees are sequences of chunks, that sizes are natural numbers,
that no point is called `"gc"`, and, except for type correctness, that `Reset`
meets no file error (`~ResetMayFail`), which "Known deviations" shows cannot be
dropped.

* `TypeCorrect` (`RepositoryProofs`, states `TypeOK`): The variables keep their types, for every set of chunks, points and trees, every size function, pack target and number of crashes.
* `Inductive` (`RepositoryProofs`, states `IInv`): The inductive invariant of the repository: lock discipline, order of flush steps, soundness and completeness of the index, what the collector may delete and what compaction has copied.
* `Durability` (`RepositoryProofs`, states `PointsDurable`): No interleaving of captures, collections, compactions, expiries and crashes loses a chunk that a restore point needs.
* `Readability` (`RepositoryProofs`, states `PointsReadable`): While the repository is open its index leads every chunk of every restore point to an existing pack that holds it.
* `DedupSafety` (`RepositoryProofs`, states `DedupIsSafe`): A capture never relies on a chunk that is neither indexed nor in its own buffer.
* `Refinement` (`RepositoryProofs`, states `ImplementsPointStore`): The repository implements the abstract point store: every step of captures, flushes, collections, compactions, expiries, crashes and recovery is an abstract step or invisible.
* `TypeCorrect` (`RemoteProofs`, states `TypeOK`): Uploads, expiries, maintenance and restarts keep the variables in their types, for every set of chunks, points and workers; in particular no empty pack is made, uploaded or swept.
* `SweepSafety` (`RemoteProofs`, states `SweepSparesLocalPacks`): However uploads, captures, expiries, compactions and restarts interleave with it, a sweep deletes no object from the target in which a local restore point has chunks.
* `Types` (`LiveUpdateProofs`, states `TypeOK`): The variables keep their types and current names the newest update that is not rolled back, for any bundles, packages, faults and crashes.
* `Inductive` (`LiveUpdateProofs`): The invariant of the live updater: every update in the history has replaced what was there before it, every saved binary is the one the update below it installed, and a run in progress has touched exactly what its phase says.
* `HostMatches` (`LiveUpdateProofs`, states `HostMatchesHistory`): For any bundles, packages, faults and number of crashes, until a mishap: between runs the binaries and the UI are those of the newest update that was not rolled back, or the package's.
* `RunsInstalled` (`LiveUpdateProofs`, states `RunsWhatIsInstalled`): For any bundles, packages, faults and number of crashes, until a mishap: between runs every service runs the binary that is installed.
* `Undone` (`LiveUpdateProofs`, states `RollbackPossible`): For any bundles, packages, faults and number of crashes, until a mishap: as far back as prune keeps, every update that was not rolled back still has the binaries it replaced and names the UI it replaced.
* `Inductive` (`FlowProofs`): The invariant of the run lease: every process between claim and release holds the lease, or a claim was let in beside another, a lease lapsed or a promotion wrote without one; and only then is any copy of the row outdated.
* `LeaseSafety` (`FlowProofs`, states `LeaseHolds`): For any flows, processes, limits and faults: an outdated copy of a run is written back only if a claim found the lease already its own, a lease ran out under an operation, or a promotion, which claims nothing, wrote a row that was not queued or that was being worked on.
* `FinishedStays` (`FlowProofs`, states `NeverReopened`): For any flows, processes, limits and faults: a finished run is reopened only by an outdated copy.
* `FramesInductive` (`FlowRunProofs`): The invariant of the frames: the row and every copy are well formed, an up-to-date copy is the row or what its holder made of it, and a batch holds only steps that were ready.
* `Types` (`FlowRunProofs`, states `TypeOK`): For any flows, processes, limits and faults the frames of a run stay well formed in the row and in every copy that is stepped, and no attempt counter passes the retry limit.
* `Budget` (`FlowRunProofs`, states `StepBudget`): For any flows, processes, limits and faults: neither a batch nor a loop carries a run past its step limit.
* `Progress` (`FlowRunProofs`, states `ProgressKept`): For any flows, processes, limits and faults: no save takes back a recorded result of a step, unless an outdated copy is written.
* `Repeats` (`FlowRunProofs`): For any flows, processes, limits and faults: a step that must not be repeated takes effect twice only after a fault or an overwritten row.
* `Inductive` (`DeployProofs`): The invariant: a run the manager holds has a file that says running, a run that has not attached has no processes yet, and a file or a row that says succeeded belongs to commands that ended well.
* `Success` (`DeployProofs`, states `SuccessIsReal`): For any deployments, containers, limits and faults: a row says succeeded only if the commands ended with exit code 0.
* `FinalStatus` (`DeployProofs`, states `FinalStays`): For any deployments, containers, limits and faults: no step changes a final status.
* `Types` (`DeployProofs`, states `TypeOK`): The queue holds each deployment that was ever queued exactly once, and a run the manager holds has a status file that says running; for any deployments, containers, limits and faults.
* `Limits` (`DeployProofs`, states `RowLimits`): For any deployments, containers, limits and faults: no more deployments are starting or running than the limits allow, in all and per container.
* `Strays` (`DeployProofs`, states `NoStrays`): For any deployments, containers, limits and faults: a deployment that is over has no processes left, unless somebody lost sight of it, stopped it too early, or could not kill them.
* `Cancels` (`DeployProofs`, states `CancelArrives`): For any deployments, containers and limits: a cancel during the hand-over reaches the run, as long as nothing failed.
* `Inductive` (`DiskGuardProofs`): The invariant: the types, the target, and the accounting of a refresh, that what it believes to be free is free but for what others took since its stat.
* `Bounded` (`DiskGuardProofs`, states `WithinTarget`): For every disk, policy, step and number of callers: the reserve never exceeds its target.
* `Growth` (`DiskGuardProofs`, states `GrowthSafe`): For every disk, policy, step and number of callers: an extension of the reserve leaves the critical threshold and a step free, but for what others took.
* `Admission` (`DiskGuardProofs`, states `AdmissionSafe`): For every disk, policy, step and number of callers: a bulk write is admitted only above the critical threshold, but for what others took.
* `TypeCorrect` (`NetRollbackProofs`): The variables keep their types, for all objects, requests and faults, with risky changes that overlap.

`PointsDurable` alone is not inductive: whether a deletion loses data depends on
what the collector believes. `IInv` (module `RepositoryInv`) adds

* `LocksHeld`: captures and the exclusive holder exclude each other, and a dead
  process holds nothing;
* `FlushesOrdered`: a flush that passed a step finds the file of that step;
* `IndexSound` and `PointsIndexed`: the index leads only to committed packs that
  are not being deleted, and finds every chunk of every point;
* `CapturesOrdered` and `WalkedIsKnown`: no point before its manifest, nothing
  unflushed at commit, everything walked over indexed or buffered;
* `CollectorSpares`: the collector's set of referenced chunks covers all points,
  and no pack it will delete is where the index finds one of them;
* `CompactionCopies`: while copying, each referenced chunk of a candidate is
  copied or still ahead, and no copy lands in a candidate. The last part needs
  an argument about content addressing: a candidate holds a dead chunk, a copy
  only live ones, so they differ.

One lemma per action shows that it keeps `IInv`. For the refinement,
`PointsDurable` turns "what can be retrieved of a point" into its manifest;
then each action is an abstract action or leaves the abstract state alone.

`RemoteProofs` holds for every set of chunks, points and workers and every need of
points, with the code's free interleaving; it assumes only that each point needs a
nonempty set of chunks. `TypeCorrect` needs one
strengthening (`WorkOK`: what a busy worker holds). `SweepSafety` needs
`SweepSpares`: between the decision under the capture lock and the last deletion
nothing on the list is a pack a local point leads to. No capture can add a point
meanwhile, and a step that adds no point and keeps the index only lets points
lead to fewer packs.

`FlowProofs` and `FlowRunProofs`, which continues it, hold for every number of
processes, every flow and any number of faults and calls; they assume of the
definitions what validation ensures. They go in three layers. `LInv` says that
as long as exclusion was never given up (`~yielded`) an operation between claim and release is the only one, its process
has the lease and every copy is the row (`Exclusive`); and that a stepper or an
approval with an up-to-date copy works on a run that has not finished (`Fresh`).
`LeaseHolds` is a part of it, `NeverReopened` a consequence for one step.
`TInv` and `PInv` are about the frames: every stack, in the row and in each copy,
follows the loops that run; attempts stay within the retry limit; and a batch has
only steps whose predecessors have ended, which no step of the batch can change.
`QInv` says that a queued run is as it was created, so that a promotion which comes
in time changes nothing but its status.
That a batch keeps to its limit (`Counted`) is a hypothesis in `FlowProofs` and
shown in `FlowRunProofs`, the one of the two that counts finite sets.
`TypeOK` and `StepBudget` follow, and `ProgressKept` step by step:
from the row to its copy and back, a result that was recorded stays. `RInv` adds
where an effect that happened can be seen: in the row, in the batch of the one
stepper that may still record it, or nowhere, and then something failed.
`RepeatsHaveACause` follows: the crash that `flow_repeats` shows, another fault and
an overwritten row are the only causes of a repeated effect.

`DeployProofs` holds for any deployments, projects, containers and limits. While
the worker hands a deployment over its row says starting (`HandedOver`), which no
request ends; a run the manager holds has a status file that says running, so
there is one run of it at most, and its processes start once (`OneRun`). Unless it
went astray (lost, stopped too early, or not killed), its processes belong to a run
that nobody has stopped or to a file that says running (`Traced`). The limits need an invariant that counts (`Slots`):
the rows that take a slot are those the round has found busy, those it has yet to
follow and the one it hands over. `CancelKept` says where a cancel is on its way.

`LiveUpdateProofs` holds for any bundles, whatever components they replace, any
packages, faults and number of crashes. `TInv` says where the process can be and
how its local variables agree with what it saved in `state.json`. `HInv` holds
until a mishap and sees the host as layers: each update in the history that was
not rolled back lies on what was there when it was applied. `Fits` says which
build a component can have below a layer: that of the next layer that replaces
it, the package's if there is none, or, if a rollback of that layer began and was
not recorded (`torn`), what the layer saved. Every saved binary and every recorded
UI fits below its layer (`Layers`), and what is installed fits the whole history,
except for the components an update or a restore in progress has come to
(`Stages`), which have the old or the new build. A recorded apply adds a layer, a
recorded rollback takes the newest away, and a package install retires all.
`HostMatchesHistory` is what `Fits` says when nothing is torn or pending; that the
services run what is installed goes along the same steps. `RollbackPossible` needs
two more facts: `KInv` says that nothing within the window of `prune` is gone,
`Layers` that what is there is the right build.
One lemma per kind of step shows that it keeps all three invariants (`Keeps`).

`DiskGuardProofs` holds for every disk size, policy and step. `Accounted` bounds
how far what a refresh has read is off when it acts: by what others took since
the stat, also when an operator removes the file in between. The thresholds need
no ordering among themselves. Type correctness is part of `GInv`.

`NetRollbackProofs` shows type correctness, for all objects, any set of cutting
configurations, any number of requests, faults and changes, overlapping or not
(`RollbackAssumption` says only which kinds of objects there are).

Only model-checked: the liveness properties (`DeadPacksReclaimed`, `QueuedIsUploaded`,
`PendingEnds`, `RunEnds`, `DeploymentsEnd`, `EmergencyReleases`, `ReserveReturns`),
because fairness is out of the prover's reach. The violations are TLC's traces.
Every other property of the passing runs has a theorem, those of the repository
under the condition `~ResetMayFail` that its run satisfies.

## Not modelled

The repository has about 200,000 lines in 800 files. Most of them are request
handlers that validate and map data, SQL statements, drivers of external programs
(LXC, QEMU, ZFS, systemd, object stores), a TypeScript user interface, catalogues
and generated code. A model of those would either have no state of its own or
would rest on guesses about the programs they call; `PROJECT.json` lists every
part with its reason. The modules cover the parts in which the code itself keeps
state across steps, actors and crashes; they stand for a small share of the lines
and do not claim the rest.

Not modelled within the parts above: `wipeRemote` and restores as readers; two
queues over one job directory (`backuphost/target.go:92`); an updater started from
the command line beside the service; automation triggers, schedules and
expressions, and the other runs of a flow;
plans, DHCP, NAT and firewall rules of networks; several filesystems under the
disk guard.

## Plan

1. Restores as readers of packs, `wipeRemote`, two queues over one job directory.
2. Live updater: overlapping updaters.
3. Network changes: what a restore promises when only one risky change is made at a
   time.
4. Migration of workloads between hosts: phases and undo.
