------------------------------- MODULE Deploy -------------------------------
(***************************************************************************)
(* Deployments: the worker of the control plane that dispatches and       *)
(* follows them (internal/httpapi/deploy_run.go), the requests that queue *)
(* and cancel them (internal/httpapi/deploy.go), the manager on the node  *)
(* agent that runs them (internal/deploy/manager.go), and the processes   *)
(* they start in a container.                                             *)
(*                                                                         *)
(* The three places fail independently: the control plane restarts and    *)
(* forgets what it was handing over, the agent restarts and forgets its   *)
(* runs while their processes go on, and an answer between them is lost   *)
(* although the request was carried out.  Killing processes may fail, and *)
(* the manager does not look.  Writing a row or a status file is taken to *)
(* succeed, although the code ignores those errors too.                   *)
(***************************************************************************)
EXTENDS Naturals, Sequences, FiniteSets, Functions

CONSTANTS Deployment,     \* the deployments that are ever queued
          Project,        \* the project of each
          Container,      \* the container of each
          Systemd,        \* the containers with systemd
          MaxConcurrent, PerContainer,
          MaxMisses,      \* status polls without an answer until it is given up (90)
          MaxCancels,     \* bound: deployments that are cancelled
          MaxFaults       \* bound: restarts, lost answers, failed kills, backups

ASSUME DeployAssumption ==
  /\ {MaxConcurrent, PerContainer, MaxMisses} \subseteq Nat \ {0}
  /\ MaxFaults \in Nat /\ MaxCancels \in Nat

VARIABLES dep,            \* the deployment rows: status, CancelBy, Force
          queue,          \* the deployments in the order of QueuedAt
          tick,           \* the worker's round: where it is and what it listed
          starting,       \* rt.starting
          misses,         \* rt.misses
          cancels,        \* cancel requests that still have to reach the node
          backup,         \* containers a backup run is working on
          agent,          \* the node agent is up
          run,            \* the runs it holds
          file,           \* their status files
          killer,         \* goroutines that stop a run
          guest,          \* the process tree of each in its container
          faults,
          astray          \* history: deployments the control plane lost sight of, that
                          \* were stopped before their processes were known, or whose
                          \* processes could not be killed

control == <<dep, queue, tick, starting, misses, cancels>>
node == <<run, file, killer, guest, astray>>
vars == <<control, backup, agent, node, faults>>

Active == {"queued", "waiting", "starting", "running"}
Done == {"succeeded", "failed", "cancelled", "timed-out", "interrupted"}
NoTick == [pc |-> "idle", follow |-> {}, dispatch |-> {}, busy |-> {}]
NoRun == [pc |-> "none", cancel |-> FALSE, mode |-> "", pid |-> FALSE, reason |-> ""]
NoFile == [state |-> "none", mode |-> "", pid |-> FALSE]
NoKiller == [pc |-> "none", mode |-> "", pid |-> FALSE, cancel |-> FALSE]

Init ==
  /\ dep = [d \in Deployment |-> [status |-> "none", cancel |-> FALSE, force |-> FALSE]]
  /\ queue = <<>> /\ tick = NoTick /\ starting = {} /\ cancels = {}
  /\ misses = [d \in Deployment |-> 0]
  /\ backup = {} /\ agent = "up"
  /\ run = [d \in Deployment |-> NoRun]
  /\ file = [d \in Deployment |-> NoFile]
  /\ killer = [d \in Deployment |-> NoKiller]
  /\ guest = [d \in Deployment |-> "none"]
  /\ faults = 0 /\ astray = {}

Fault == faults < MaxFaults /\ faults' = faults + 1
Status(d, s) == dep' = [dep EXCEPT ![d].status = s]
ActiveOf(p) == {d \in Deployment : Project[d] = p /\ dep[d].status \in Active}

-----------------------------------------------------------------------------
\* Requests.

enqueueDeployment(d) ==
  /\ dep[d].status = "none"
  /\ ActiveOf(Project[d]) = {}
  /\ dep' = [dep EXCEPT ![d] = [status |-> "queued", cancel |-> FALSE, force |-> FALSE]]
  /\ queue' = Append(queue, d)
  /\ UNCHANGED <<tick, starting, misses, cancels, backup, agent, node, faults>>

\* A queued deployment is over; a starting one is only marked; for a running
\* one the node is asked next.
cancelAtOnce(d) ==
  /\ dep[d].status \in Active
  /\ dep[d].cancel \/ Cardinality({x \in Deployment : dep[x].cancel}) < MaxCancels
  /\ dep' = [dep EXCEPT ![d].cancel = TRUE,
                           ![d].status = IF @ # "running" THEN "cancelled" ELSE @]
  /\ cancels' = IF dep[d].status = "running" THEN cancels \cup {d} ELSE cancels
  /\ UNCHANGED <<queue, tick, starting, misses, backup, agent, node, faults>>
cancelDeployment(d) ==
  /\ dep[d].status \in Active
  /\ dep[d].cancel \/ Cardinality({x \in Deployment : dep[x].cancel}) < MaxCancels
  /\ dep' = [dep EXCEPT ![d].cancel = TRUE,
                           ![d].status = IF @ \in {"queued", "waiting"} THEN "cancelled" ELSE @]
  /\ cancels' = IF dep[d].status = "running" THEN cancels \cup {d} ELSE cancels
  /\ UNCHANGED <<queue, tick, starting, misses, backup, agent, node, faults>>

\* Deploy anyway; asked for only when a backup is in the way.
forceDeployment(d) ==
  /\ dep[d].status \in {"queued", "waiting"} /\ ~dep[d].force
  /\ Container[d] \in backup
  /\ dep' = [dep EXCEPT ![d].force = TRUE]
  /\ UNCHANGED <<queue, tick, starting, misses, cancels, backup, agent, node, faults>>

-----------------------------------------------------------------------------
\* The manager on the node.

\* KillTree: the unit's cgroup, or the tree below a known pid; what has not
\* started yet, or is not known yet, it does not end.
Reaches(mode, pid, d) == guest[d] = "alive" /\ (mode = "systemd" \/ pid)
Killed(mode, pid, d) == IF Reaches(mode, pid, d) THEN [guest EXCEPT ![d] = "killed"] ELSE guest
Missed(mode, pid, d) ==
  IF Reaches(mode, pid, d) \/ guest[d] \in {"ok", "bad", "killed"} THEN astray ELSE astray \cup {d}

Held(d) == run[d].pc # "none"

\* stop: once, and only while the run is running; a goroutine does the rest.
stop(d, reason) ==
  IF ~Held(d) \/ run[d].reason # "" THEN UNCHANGED <<run, killer>>
  ELSE /\ run' = [run EXCEPT ![d].reason = reason]
       /\ killer' = [killer EXCEPT ![d] = [pc |-> "kill", mode |-> run[d].mode, pid |-> run[d].pid,
                                           cancel |-> run[d].pc # "new"]]

\* Manager.Start; a log that is already there refuses it.
CanStart(d) == ~Held(d) /\ file[d].state = "none"
StartRun(d) ==
  /\ run' = [run EXCEPT ![d] = [NoRun EXCEPT !.pc = "new"]]
  /\ file' = [file EXCEPT ![d].state = "running"]

\* Manager.Status of a run that is not held: a file that says running is
\* settled, and what it knows of the processes is stopped; nobody looks at how
\* the kill went.
OrphanKept(d) == FALSE
Orphan(d) == ~Held(d) /\ file[d].state = "running"
Settle(d) ==
  IF Orphan(d)
  THEN /\ guest' \in {Killed(file[d].mode, file[d].pid, d), guest}
       /\ file' = [file EXCEPT ![d].state = "interrupted"]
  ELSE UNCHANGED <<guest, file>>
SettleMissed(d) ==
  IF agent = "up" /\ Orphan(d) /\ guest[d] # "none"
  THEN IF guest' = Killed(file[d].mode, file[d].pid, d) THEN Missed(file[d].mode, file[d].pid, d)
       ELSE astray \cup {d}
  ELSE astray
StatusOf(d) == IF Held(d) THEN "running" ELSE IF Orphan(d) THEN "interrupted" ELSE file[d].state
Known(d) == Held(d) \/ file[d].state # "none"

\* execute has its context, and sets the timer.
Execute(d) ==
  /\ run[d].pc = "new"
  /\ run' = [run EXCEPT ![d].pc = "prepare"]
  /\ UNCHANGED <<control, backup, agent, file, killer, guest, faults, astray>>

\* prepare: how to run; a folder that is not there ends the run, and so does
\* a context that was cancelled meanwhile (when Stream starts at the latest).
Prepare(d) ==
  /\ run[d].pc = "prepare"
  /\ \/ \E mode \in {"systemd", "session"} :
          /\ ~run[d].cancel
          /\ \/ (mode = "systemd" <=> Container[d] \in Systemd) /\ UNCHANGED faults
             \/ mode = "session" /\ Container[d] \in Systemd /\ Fault   \* the probe failed
          /\ run' = [run EXCEPT ![d].pc = "attach", ![d].mode = mode]
          /\ file' = [file EXCEPT ![d].mode = mode]
     \/ run' = [run EXCEPT ![d].pc = "finish"] /\ UNCHANGED <<file, faults>>
  /\ UNCHANGED <<control, backup, agent, killer, guest, astray>>

Stream(d) ==
  /\ run[d].pc = "attach"
  /\ \/ /\ ~run[d].cancel
        /\ run' = [run EXCEPT ![d].pc = "stream"]
        /\ guest' = [guest EXCEPT ![d] = "alive"]
     \/ run[d].cancel /\ run' = [run EXCEPT ![d].pc = "finish"] /\ UNCHANGED guest
  /\ UNCHANGED <<control, backup, agent, file, killer, faults, astray>>

\* onMarker: the pid, which only a session is stopped by.
Marker(d) ==
  /\ run[d].pc = "stream" /\ guest[d] = "alive"
  /\ run[d].mode = "session" /\ ~run[d].pid
  /\ run' = [run EXCEPT ![d].pid = TRUE]
  /\ file' = [file EXCEPT ![d].pid = TRUE]
  /\ UNCHANGED <<control, backup, agent, killer, guest, faults, astray>>

\* The commands end by themselves, or systemd ends a unit that outlived the
\* time limit by a minute.
GuestExits(d) ==
  /\ guest[d] = "alive"
  /\ \E result \in {"ok", "bad"} : guest' = [guest EXCEPT ![d] = result]
  /\ UNCHANGED <<control, backup, agent, run, file, killer, faults, astray>>
RuntimeMax(d) ==
  /\ guest[d] = "alive" /\ file[d].mode = "systemd"
  /\ guest' = [guest EXCEPT ![d] = "killed"]
  /\ UNCHANGED <<control, backup, agent, run, file, killer, faults, astray>>

DetachEarly(d) ==
  /\ run[d].pc = "stream"
  /\ run' = [run EXCEPT ![d].pc = "finish"]
  /\ UNCHANGED <<control, backup, agent, file, killer, guest, faults, astray>>

\* Stream returns: the processes are gone, or the context was cancelled and
\* only the attached client was.
Detach(d) ==
  /\ run[d].pc = "stream"
  /\ guest[d] # "alive" \/ run[d].cancel
  /\ run' = [run EXCEPT ![d].pc = "finish"]
  /\ UNCHANGED <<control, backup, agent, file, killer, guest, faults, astray>>

\* finish: the reason it was stopped for, or its exit code.
OutcomeUnlessKilled(d) ==
  IF run[d].reason # "" THEN run[d].reason ELSE IF guest[d] = "bad" THEN "failed" ELSE "succeeded"
Outcome(d) ==
  CASE run[d].reason # "" -> run[d].reason
    [] run[d].reason = "" /\ guest[d] = "ok" -> "succeeded"
    [] run[d].reason = "" /\ guest[d] # "ok" -> "failed"
finishLate(d) ==
  /\ run[d].pc = "finish"
  /\ file' = [file EXCEPT ![d].state = Outcome(d)]
  /\ run' = [run EXCEPT ![d].pc = "new"]
  /\ UNCHANGED <<control, backup, agent, killer, guest, faults, astray>>
finish(d) ==
  /\ run[d].pc = "finish"
  /\ file' = [file EXCEPT ![d].state = Outcome(d)]
  /\ run' = [run EXCEPT ![d] = NoRun]
  /\ killer' = IF killer[d].pc = "wait" THEN [killer EXCEPT ![d] = NoKiller] ELSE killer
  /\ UNCHANGED <<control, backup, agent, guest, faults, astray>>

\* The timer of execute; no time limit is shorter than a minute, which is
\* longer than prepare may take.
Timeout(d) ==
  /\ run[d].pc \in {"stream", "finish"}
  /\ run[d].reason = ""
  /\ stop(d, "timed-out")
  /\ UNCHANGED <<control, backup, agent, file, guest, faults, astray>>

\* The goroutine of stop: the processes, and then, if the run has not ended,
\* the attached client.  Nobody looks at how the kill went.
Kill(d) ==
  /\ killer[d].pc = "kill"
  /\ killer' = [killer EXCEPT ![d] = IF Held(d) THEN [@ EXCEPT !.pc = "wait"] ELSE NoKiller]
  /\ \/ /\ guest' = Killed(killer[d].mode, killer[d].pid, d)
        /\ astray' = Missed(killer[d].mode, killer[d].pid, d)
        /\ UNCHANGED faults
     \/ Fault /\ astray' = astray \cup {d} /\ UNCHANGED guest
  /\ UNCHANGED <<control, backup, agent, run, file>>
CancelContext(d) ==
  /\ killer[d].pc = "wait"
  /\ killer' = [killer EXCEPT ![d] = NoKiller]
  /\ run' = IF killer[d].cancel THEN [run EXCEPT ![d].cancel = TRUE] ELSE run
  /\ UNCHANGED <<control, backup, agent, file, guest, faults, astray>>

\* Manager.Cancel: a run that is not held is only looked at.
ManagerCancel(d) ==
  \/ /\ agent = "up" /\ Held(d)
     /\ stop(d, "cancelled")
     /\ UNCHANGED <<file, guest, astray>>
  \/ agent = "up" /\ ~Held(d) /\ Settle(d) /\ astray' = SettleMissed(d) /\ UNCHANGED <<run, killer>>
  \/ agent = "down" /\ UNCHANGED node

-----------------------------------------------------------------------------
\* The worker's round: first it follows the running and starting deployments
\* it listed, then it dispatches the queued ones, each oldest first.

Rows(statuses) == {d \in Deployment : dep[d].status \in statuses}
TickStart ==
  /\ tick.pc = "idle"
  /\ Rows(Active) # {}
  /\ tick' = [pc |-> "round", busy |-> {},
              follow |-> Rows({"starting", "running"}), dispatch |-> Rows({"queued", "waiting"})]
  /\ UNCHANGED <<dep, queue, starting, misses, cancels, backup, agent, node, faults>>

Oldest(d, listed) ==
  /\ d \in listed
  /\ \E i \in DOMAIN queue : queue[i] = d /\ \A j \in 1 .. i - 1 : queue[j] \notin listed
At(d, pc) == tick.pc = pc /\ Oldest(d, IF tick.follow # {} THEN tick.follow ELSE tick.dispatch)
Onwards(d, busy) ==
  tick' = [pc |-> "round", follow |-> tick.follow \ {d}, dispatch |-> tick.dispatch \ {d}, busy |-> busy]

\* A status call that gets no answer: the node is unreachable, does not know
\* the run, or has carried it out and the answer is lost.
NoAnswer(d) ==
  \/ (agent = "down" \/ ~Known(d)) /\ UNCHANGED <<guest, file, faults>>
  \/ agent = "up" /\ Known(d) /\ Settle(d) /\ Fault

\* superviseDeployment of a running one.
Supervise(d) ==
  /\ At(d, "round") /\ dep[d].status = "running"
  /\ \/ /\ agent = "up" /\ Known(d)
        /\ Settle(d) /\ astray' = SettleMissed(d)
        /\ misses' = [misses EXCEPT ![d] = 0]
        /\ IF StatusOf(d) = "running"
           THEN Onwards(d, tick.busy \cup {d}) /\ UNCHANGED dep
           ELSE Onwards(d, tick.busy) /\ Status(d, StatusOf(d))
        /\ UNCHANGED faults
     \/ /\ NoAnswer(d)
        /\ IF misses[d] + 1 < MaxMisses
           THEN /\ misses' = [misses EXCEPT ![d] = @ + 1]
                /\ Onwards(d, tick.busy \cup {d})
                /\ astray' = SettleMissed(d)
                /\ UNCHANGED dep
           ELSE /\ misses' = [misses EXCEPT ![d] = 0]
                /\ Onwards(d, tick.busy)
                /\ Status(d, "interrupted")
                /\ astray' = astray \cup {d}
  /\ UNCHANGED <<queue, starting, cancels, backup, agent, run, killer>>

\* superviseDeployment of a starting one, and adoptStarting.  A round hands
\* its deployments over one by one, so none it lists is in rt.starting.
Adopt(d) ==
  /\ At(d, "round") /\ dep[d].status = "starting"
  /\ \/ /\ agent = "up" /\ Known(d)
        /\ Settle(d) /\ astray' = SettleMissed(d)
        /\ Status(d, "running") /\ Onwards(d, tick.busy \cup {d})
        /\ UNCHANGED faults
     \/ /\ NoAnswer(d)
        /\ Status(d, "interrupted") /\ Onwards(d, tick.busy)
        /\ astray' = astray \cup {d}
  /\ UNCHANGED <<queue, starting, misses, cancels, backup, agent, run, killer>>

\* A queued one has to wait for a slot, for its container or for a backup.  (A
\* force that comes during a round counts in the next; here it counts at once.)
HasRoomLeft(d) == Cardinality(tick.busy) < MaxConcurrent
HasRoom(d) ==
  /\ Cardinality(tick.busy) < MaxConcurrent
  /\ Cardinality({x \in tick.busy : Container[x] = Container[d]}) < PerContainer
MustWait(d) == ~HasRoom(d) \/ (~dep[d].force /\ Container[d] \in backup)

markWaiting(d) ==
  /\ At(d, "round") /\ dep[d].status \in {"queued", "waiting"}
  /\ MustWait(d)
  /\ Status(d, "waiting") /\ Onwards(d, tick.busy)
  /\ UNCHANGED <<queue, starting, misses, cancels, backup, agent, node, faults>>

\* It was cancelled since it was listed.
Passed(d) ==
  /\ At(d, "round") /\ dep[d].status \in Done
  /\ Onwards(d, tick.busy)
  /\ UNCHANGED <<dep, queue, starting, misses, cancels, backup, agent, node, faults>>

\* startDeployment: the row says starting before the node is asked.
startDeployment(d) ==
  /\ At(d, "round") /\ dep[d].status \in {"queued", "waiting"}
  /\ ~MustWait(d)
  /\ Status(d, "starting")
  /\ starting' = starting \cup {d}
  /\ tick' = [tick EXCEPT !.pc = "start"]
  /\ UNCHANGED <<queue, misses, cancels, backup, agent, node, faults>>

\* deploy-start: carried out and answered; or failed, which includes that it
\* was carried out and the answer is lost.  The failure is written over the
\* row as it was read, which no cancel had reached.
Start(d) ==
  /\ At(d, "start")
  /\ \/ /\ agent = "up" /\ CanStart(d)
        /\ StartRun(d)
        /\ tick' = [tick EXCEPT !.pc = "record"]
        /\ UNCHANGED <<dep, starting, faults, astray>>
     \/ /\ \/ UNCHANGED <<run, file, faults, astray>>
           \/ agent = "up" /\ CanStart(d) /\ StartRun(d) /\ Fault /\ astray' = astray \cup {d}
        /\ dep' = [dep EXCEPT ![d].status = "failed", ![d].cancel = FALSE]
        /\ starting' = starting \ {d}
        /\ Onwards(d, tick.busy)
  /\ UNCHANGED <<queue, misses, cancels, backup, agent, killer, guest>>

\* The row says running, with the CancelBy it has by now.
RecordRead(d) ==
  /\ At(d, "record")
  /\ Status(d, "running")
  /\ Onwards(d, tick.busy \cup {d}) /\ starting' = starting \ {d}
  /\ UNCHANGED <<queue, misses, cancels, backup, agent, node, faults>>
Record(d) ==
  /\ At(d, "record")
  /\ Status(d, "running")
  /\ IF dep[d].cancel
     THEN tick' = [tick EXCEPT !.pc = "recall"] /\ UNCHANGED starting
     ELSE Onwards(d, tick.busy \cup {d}) /\ starting' = starting \ {d}
  /\ UNCHANGED <<queue, misses, cancels, backup, agent, node, faults>>

\* A cancel that came while it was handed over.
Recall(d) ==
  /\ At(d, "recall")
  /\ ManagerCancel(d)
  /\ Onwards(d, tick.busy \cup {d}) /\ starting' = starting \ {d}
  /\ UNCHANGED <<dep, queue, misses, cancels, backup, agent, faults>>

TickEnd ==
  /\ tick.pc = "round" /\ tick.follow \cup tick.dispatch = {}
  /\ tick' = NoTick
  /\ UNCHANGED <<dep, queue, starting, misses, cancels, backup, agent, node, faults>>

\* The request's own call to the node.
CancelCall(d) ==
  /\ d \in cancels
  /\ cancels' = cancels \ {d}
  /\ ManagerCancel(d)
  /\ UNCHANGED <<dep, queue, tick, starting, misses, backup, agent, faults>>
-----------------------------------------------------------------------------
\* Restarts, and backups of a container.

ControlRestarts ==
  /\ Fault
  /\ tick' = NoTick /\ starting' = {} /\ cancels' = {}
  /\ misses' = [d \in Deployment |-> 0]
  /\ UNCHANGED <<dep, queue, backup, agent, node>>

\* The runs are forgotten; their processes are not the agent's.
AgentStops ==
  /\ agent = "up" /\ Fault
  /\ agent' = "down"
  /\ run' = [d \in Deployment |-> NoRun]
  /\ killer' = [d \in Deployment |-> NoKiller]
  /\ UNCHANGED <<control, backup, file, guest, astray>>
AgentStarts ==
  /\ agent = "down"
  /\ agent' = "up"
  /\ UNCHANGED <<control, backup, node, faults>>

BackupStarts ==
  /\ Fault
  /\ \E c \in {Container[d] : d \in Deployment} \ backup : backup' = backup \cup {c}
  /\ UNCHANGED <<control, agent, node>>
BackupEnds ==
  /\ backup # {}
  /\ \E c \in backup : backup' = backup \ {c}
  /\ UNCHANGED <<control, agent, node, faults>>

Worker ==
  \/ TickStart \/ TickEnd
  \/ \E d \in Deployment :
       \/ Supervise(d) \/ Adopt(d) \/ markWaiting(d) \/ Passed(d)
       \/ startDeployment(d) \/ Start(d) \/ Record(d) \/ Recall(d)
RunStep(d) == Execute(d) \/ Prepare(d) \/ Stream(d) \/ Marker(d) \/ Detach(d) \/ finish(d)
KillStep(d) == Kill(d) \/ CancelContext(d)

Next ==
  \/ Worker
  \/ \E d \in Deployment :
       \/ enqueueDeployment(d) \/ cancelDeployment(d) \/ forceDeployment(d) \/ CancelCall(d)
       \/ RunStep(d) \/ KillStep(d) \/ Timeout(d)
       \/ GuestExits(d) \/ RuntimeMax(d)
  \/ ControlRestarts \/ AgentStops \/ AgentStarts \/ BackupStarts \/ BackupEnds

\* The worker ticks, goroutines run, timers fire, the agent is started again
\* and a backup ends.  Nothing makes the commands of a deployment end.  A
\* deployment is run once, so only finitely many of its own steps are taken
\* and none of them can keep another from its turn.
OwnStep(d) == RunStep(d) \/ KillStep(d) \/ Timeout(d) \/ RuntimeMax(d)
Fairness ==
  /\ WF_vars(Worker) /\ WF_vars(AgentStarts) /\ WF_vars(BackupEnds)
  /\ \A d \in Deployment : WF_vars(OwnStep(d)) /\ WF_vars(CancelCall(d))

Spec == Init /\ [][Next]_vars
FairSpec == Spec /\ Fairness

-----------------------------------------------------------------------------
TypeOK ==
  /\ dep \in [Deployment -> [status: {"none"} \cup Active \cup Done, cancel: BOOLEAN, force: BOOLEAN]]
  /\ Range(queue) = {d \in Deployment : dep[d].status # "none"} /\ IsInjective(queue)
  /\ tick.pc \in {"idle", "round", "start", "record", "recall"}
  /\ tick.busy \subseteq Deployment /\ starting \subseteq Deployment
  /\ misses \in [Deployment -> 0 .. MaxMisses - 1]
  /\ agent = "down" => \A d \in Deployment : run[d] = NoRun
  /\ \A d \in Deployment :
       /\ run[d].pc \in {"none", "new", "prepare", "attach", "stream", "finish"}
       /\ run[d].pc # "none" => file[d].state = "running"
       /\ file[d].state \in {"none", "running"} \cup Done
       /\ guest[d] \in {"none", "alive", "ok", "bad", "killed"}

\* dispatchDeployments keeps both limits: the rows that are being handed over
\* or run are never more than the settings allow, in all and per container,
\* whatever restarts in between.
Within(S) ==
  /\ Cardinality(S) <= MaxConcurrent
  /\ \A d \in S : Cardinality({x \in S : Container[x] = Container[d]}) <= PerContainer
RowLimits == Within(Rows({"starting", "running"}))

\* A deployment is reported as succeeded only when its commands ended with
\* exit code 0, however often the control plane and the agent restarted
\* between the commands and the report.
SuccessIsReal == \A d \in Deployment : dep[d].status = "succeeded" => guest[d] = "ok"

\* A deployment that is over has no processes left in its container, unless
\* the node could not be asked about it, an answer was lost, killing them
\* failed, or it was stopped when they were not there or not known yet.
NoStrays == \A d \in Deployment : dep[d].status \in Done /\ guest[d] = "alive" => d \in astray

\* A cancel that arrives while the deployment is handed over is not lost: as
\* long as nothing fails, a running deployment whose CancelBy is set is being
\* stopped on the node or a call that stops it is under way.
CancelArrives ==
  faults = 0 => \A d \in Deployment :
    dep[d].cancel /\ dep[d].status = "running" /\ Held(d) =>
      run[d].reason # "" \/ d \in cancels \/ At(d, "recall")

\* A deployment's final status is final: neither the hand-over, which writes
\* back the row it read before calling the node, nor the follow-up of an
\* earlier round changes it.
FinalStays == [][\A d \in Deployment : dep[d].status \in Done => dep'[d].status = dep[d].status]_vars

\* Every deployment ends, by its commands or by its time limit; except that
\* one that was lost, stopped too early or not killed may go on, and those
\* that wait for its container with it.
DeploymentsEnd ==
  \A d \in Deployment :
    dep[d].status \in Active ~> \/ dep[d].status \in Done
                               \/ \E e \in astray : Container[e] = Container[d]
=============================================================================
