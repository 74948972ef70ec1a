------------------------------ MODULE FlowRun ------------------------------
(***************************************************************************)
(* One run of an automation flow as the engine steps it                   *)
(* (internal/automation/engine/engine.go), the row and the run lease it   *)
(* lives in (internal/appdb/automation_postgres.go), the sweep that picks *)
(* it up (internal/httpapi/automation.go), and the three calls that write *)
(* the same row from outside: an approval decision, a cancel and the      *)
(* promotion of a queued run (Engine.Approve, Service.Cancel and          *)
(* Service.promote).                                                      *)
(*                                                                         *)
(* A stepper works on a copy of the row: it reads it once after claiming  *)
(* the lease and afterwards only writes it back, whole and unconditionally*)
(* (UpdateAutomationRun does not look at the lease).  The lease belongs   *)
(* to a process, not to an operation, so a stepper, an approval and a     *)
(* cancel of one process all pass the claim together.  A promotion claims *)
(* nothing.                                                               *)
(***************************************************************************)
EXTENDS Control, Sequences, FiniteSets, Functions

CONSTANTS Top, Trigger,  \* no loop; the source of the first edges
          Flows,         \* the definitions a run may carry, a sequence
          MaxAttempts, MaxSteps, MaxParallel,
          MaxItems,      \* bound: the items of a loop
          MaxCalls       \* bound: approvals, cancels and promotions

\* A definition: its steps in order; what each does; the loop whose body it
\* is in, or Top; the edges; the steps whose type may be repeated; and what
\* becomes of the run when a step fails.
Definition(d) ==
  LET nodes == Range(d.order)
  IN /\ d.order \in Seq(nodes) /\ IsInjective(d.order)
     /\ d.kind \in [nodes -> {"action", "destructive", "branch", "delay", "approval", "stop", "loop"}]
     /\ d.owner \in [nodes -> nodes \cup {Top}]
     /\ d.edges \subseteq [from: nodes \cup {Trigger}, to: nodes, port: STRING]
     /\ d.idempotent \subseteq nodes
     /\ d.onError \in [nodes -> {"stop", "continue", "fail_branch"}]

ASSUME FlowAssumption ==
  /\ \A i \in DOMAIN Flows : Definition(Flows[i])
  /\ MaxAttempts \in Nat \ {0} /\ MaxParallel \in Nat \ {0}
  /\ MaxSteps \in Nat /\ MaxItems \in Nat /\ MaxCalls \in Nat

VARIABLES flow,       \* which definition the run carries
          row,        \* the rest of its automation_runs row: status, frames, steps
          lease,      \* its lease_owner; an expired lease is no lease
          step,       \* per process: the goroutine that steps the run
          approval,   \* an Approve call in flight
          cancel,     \* a Cancel call in flight
          promoting,  \* processes in a promote that listed the run as queued
          calls,      \* how many of those calls were made
          due,        \* steps whose WakeAt has passed
          ran,        \* history: effects of actions, by scope and step
          repeated,   \* history: the effects that happened again
          overtaken,  \* history: operations whose copy of the row is outdated
          clash,      \* history: an outdated copy was written
          yielded     \* history: a claim found the lease already its own, a
                      \* lease lapsed under an operation, or a promotion wrote
                      \* a row that was not queued or that was being worked on

effects == <<ran, repeated>>
request == <<flow, promoting, calls>>
runVars == <<flow, row, lease, step, approval, cancel, promoting, calls, due, effects, overtaken, clash,
             yielded>>
vars == <<controlVars, runVars>>

def == Flows[flow]
Node == Range(def.order)
Finished(status) == status \in {"succeeded", "failed", "cancelled"}
terminal(ns) == ns.s \in {"succeeded", "failed", "skipped"}

Blank == [s |-> "", port |-> "", att |-> 0]
Frame(loop, items) == [loop |-> loop, index |-> 0, items |-> items, nodes |-> [n \in Node |-> Blank]]

\* Start: the row of a new run, pending or queued behind other runs.
Created(status) == [status |-> status, frames |-> <<Frame(Top, 0)>>, steps |-> 0]
NoRun == [frames |-> <<>>, steps |-> 0]
NoBatch == [n \in {} |-> ""]
Idle == [pc |-> "idle", run |-> NoRun, cancelled |-> FALSE, batch |-> NoBatch, end |-> ""]
NoCall == [pc |-> "idle", by |-> Nobody, run |-> NoRun]

Init ==
  /\ ControlInit
  /\ flow \in DOMAIN Flows /\ calls = 0 /\ promoting = {}
  /\ row \in {Created("pending"), Created("queued")}
  /\ lease = Nobody
  /\ step = [p \in Process |-> Idle]
  /\ approval = NoCall /\ cancel = NoCall
  /\ due = {}
  /\ ran = {} /\ repeated = {}
  /\ overtaken = {} /\ clash = FALSE /\ yielded = FALSE

-----------------------------------------------------------------------------
\* The stack of frames, and the order of the steps.

Inner(frames) == frames[Len(frames)]
Outer(frames) == SubSeq(frames, 1, Len(frames) - 1)
Replaced(frames, f) == [frames EXCEPT ![Len(frames)] = f]

Before(m, n) == \E i, j \in DOMAIN def.order : i < j /\ def.order[i] = m /\ def.order[j] = n
First(k, S) == {n \in S : Cardinality({m \in S : Before(m, n)}) < k}

\* What a frame says about its steps.

edgeActive(ns, e) ==
  /\ ns.s # "skipped"
  /\ IF e.port = "" THEN ns.port # "error" ELSE e.port = ns.port

Incoming(n) == {e \in def.edges : e.to = n}
Entry(f, e) == e.from = Trigger \/ (f.loop # Top /\ e.from = f.loop /\ e.port = "each")

\* Steps whose every inner edge comes from a step that has ended.
resolved(f) ==
  {n \in Node : /\ def.owner[n] = f.loop /\ f.nodes[n].s = ""
                /\ \A e \in Incoming(n) : Entry(f, e) \/ terminal(f.nodes[e.from])}
ready(f) ==
  {n \in resolved(f) : \E e \in Incoming(n) : Entry(f, e) \/ edgeActive(f.nodes[e.from], e)}
skipped(f) == resolved(f) \ ready(f)

With(ns, s) == [ns EXCEPT !.s = s]
Mapped(f, Change(_, _)) == [f EXCEPT !.nodes = [n \in Node |-> Change(n, f.nodes[n])]]

wakeAgain(f) ==
  LET Change(n, ns) == IF n \notin due THEN ns
                       ELSE IF ns.s = "waiting" THEN With(ns, "succeeded") ELSE With(ns, "")
  IN Mapped(f, Change)

\* wake: a delay that is over has succeeded, a retry that is due may run.
wake(f) ==
  LET Change(n, ns) == IF n \notin due THEN ns
                       ELSE IF ns.s = "waiting" THEN With(ns, "succeeded")
                       ELSE IF ns.s = "retrying" THEN With(ns, "") ELSE ns
  IN Mapped(f, Change)

\* markCancelled, and the same loop in Service.Cancel.
markCancelled(frames) ==
  LET Change(n, ns) == IF ns.s \in {"running", "waiting", "retrying", "approval"}
                       THEN With(ns, "cancelled") ELSE ns
  IN [i \in DOMAIN frames |-> Mapped(frames[i], Change)]

ErrorPort(n) == IF def.onError[n] = "fail_branch" THEN "error" ELSE ""

\* recoverInterrupted: steps that the saved state shows as running.
Interrupted(frames) ==
  {n \in Node : def.kind[n] # "loop" /\ \E i \in DOMAIN frames : frames[i].nodes[n].s = "running"}
recoverInterrupted(frames) ==
  LET Change(n, ns) == IF ns.s # "running" \/ def.kind[n] = "loop" THEN ns
                       ELSE IF n \in def.idempotent THEN With(ns, "")
                       ELSE [ns EXCEPT !.s = "failed", !.port = ErrorPort(n)]
  IN [i \in DOMAIN frames |-> Mapped(frames[i], Change)]
recoveryFails(frames) == \E n \in Interrupted(frames) \ def.idempotent : def.onError[n] = "stop"

\* What executing a step may return.
Outcome(n) ==
  {"err"} \cup CASE def.kind[n] = "action" -> {"ok"}
                 [] def.kind[n] = "destructive" -> {"ok", "limit"}
                 [] def.kind[n] = "branch" -> {"true", "false"}
                 [] def.kind[n] = "delay" -> {"ok", "wait"}
                 [] def.kind[n] = "approval" -> {"ask"}
                 [] def.kind[n] = "stop" -> {"stop", "stop_failed"}

MayRetry(n, att) == n \in def.idempotent /\ att < MaxAttempts

\* apply: what one outcome makes of its step, and whether the run ends with it.
Fails(ns, n, o) == o = "limit" \/ (o = "err" /\ ~MayRetry(n, ns.att + 1))
apply(ns, n, o) ==
  LET new == [ns EXCEPT !.att = @ + 1]
  IN CASE Fails(ns, n, o) -> [new EXCEPT !.s = "failed", !.port = ErrorPort(n)]
       [] o = "err" /\ MayRetry(n, ns.att + 1) -> With(new, "retrying")
       [] o \in {"stop", "stop_failed"} -> With(new, "succeeded")
       [] o = "wait" -> With(new, "waiting")
       [] o = "ask" -> With(new, "approval")
       [] o = "ok" -> [new EXCEPT !.s = "succeeded", !.port = ""]
       [] o \in {"true", "false"} -> [new EXCEPT !.s = "succeeded", !.port = o]
Ends(ns, n, o) ==
  {end \in {"succeeded", "failed"} :
     \/ end = "succeeded" /\ o = "stop"
     \/ end = "failed" /\ (o = "stop_failed" \/ (Fails(ns, n, o) /\ def.onError[n] = "stop"))}

nextIterationPast(frames) ==
  LET f == Inner(frames)
      outer == Outer(frames)
  IN IF f.index < f.items
     THEN Replaced(frames, [Frame(f.loop, f.items) EXCEPT !.index = f.index + 1])
     ELSE Replaced(outer, [Inner(outer) EXCEPT !.nodes[f.loop] = [@ EXCEPT !.s = "succeeded", !.port = "done"]])

\* nextIteration: the next item in a clean frame, or the loop step is done.
nextIteration(frames) ==
  LET f == Inner(frames)
      outer == Outer(frames)
  IN IF f.index + 1 < f.items
     THEN Replaced(frames, [Frame(f.loop, f.items) EXCEPT !.index = f.index + 1])
     ELSE Replaced(outer, [Inner(outer) EXCEPT !.nodes[f.loop] = [@ EXCEPT !.s = "succeeded", !.port = "done"]])

-----------------------------------------------------------------------------
\* Operations, their copies of the row, and writing it.

Registered(p) == step[p].pc \in {"begin", "loop", "exec", "finish", "hook", "leave"}
HasCopy ==
  {<<"step", p>> : p \in {q \in Process : step[q].pc \in {"got", "begin", "loop", "exec", "finish"}}}
    \cup {<<"approve", p>> : p \in {q \in Process : approval.by = q /\ approval.pc = "decide"}}
    \cup {<<"cancel", p>> : p \in {q \in Process : cancel.by = q /\ cancel.pc = "write"}}

\* ClaimAutomationRun: free, expired or already this process's.
ClaimTaken(p) ==
  /\ lease' = p
  /\ yielded' = (yielded \/ lease = p)
Claim(p) ==
  /\ lease \in {Nobody, p}
  /\ lease' = p
  /\ yielded' = (yielded \/ lease = p)
ReleaseRun(p) == lease' = IF lease = p THEN Nobody ELSE lease
Read(op) == overtaken' = overtaken \ {op}

\* UpdateAutomationRun: the whole row, whoever holds the lease.
Write(op, new) ==
  /\ row' = new
  /\ overtaken' = overtaken \cup (HasCopy \ {op})
  /\ clash' = (clash \/ op \in overtaken)

Goto(p, pc) == step' = [step EXCEPT ![p].pc = pc]

\* The stepper's save: it succeeds and the stepper goes on, or the database
\* refuses it and Step returns the error.
Save(p, status, run, next) ==
  \/ /\ Write(<<"step", p>>, [status |-> status, frames |-> run.frames, steps |-> run.steps])
     /\ step' = [step EXCEPT ![p].pc = next, ![p].run = run, ![p].batch = NoBatch,
                             ![p].end = IF next = "finish" THEN "failed" ELSE ""]
     /\ UNCHANGED mishaps
  \/ /\ Mishap
     /\ Goto(p, "leave")
     /\ UNCHANGED <<row, overtaken, clash>>

-----------------------------------------------------------------------------
\* Engine.Step, from the sweep's list to the release of the lease.

DueUnstarted ==
  /\ lease = Nobody
  /\ \/ row.status = "pending"
     \/ row.status = "waiting"
        /\ \E n \in due : Inner(row.frames).nodes[n].s \in {"waiting", "retrying"}
Due ==
  /\ lease = Nobody
  /\ \/ row.status \in {"pending", "running"}
     \/ row.status = "waiting"
        /\ \E n \in due : Inner(row.frames).nodes[n].s \in {"waiting", "retrying"}

\* automationSweep lists the run and automationStepAsync takes it in flight.
List(p) ==
  /\ proc[p] = "up"
  /\ step[p].pc = "idle"
  /\ Due
  /\ Goto(p, "listed")
  /\ UNCHANGED <<controlVars, request, row, lease, approval, cancel, due, effects, overtaken, clash, yielded>>

SteppableAlways(status) == TRUE
Steppable(status) == status \in {"pending", "running", "waiting"}
Claimed(p) ==
  /\ Up(p)
  /\ step[p].pc = "listed"
  /\ \/ /\ Claim(p)
        /\ IF Steppable(row.status)
           THEN step' = [step EXCEPT ![p].pc = "got", ![p].run = [frames |-> row.frames, steps |-> row.steps]]
           ELSE Goto(p, "release")
        /\ Read(<<"step", p>>)
     \/ /\ lease \notin {Nobody, p}
        /\ Goto(p, "idle")
        /\ UNCHANGED <<lease, overtaken, yielded>>
  /\ UNCHANGED <<controlVars, request, row, approval, cancel, due, effects, clash>>

\* The stepper enters e.running, where a cancel can find it.
Register(p) ==
  /\ Up(p)
  /\ step[p].pc = "got"
  /\ Goto(p, "begin")
  /\ UNCHANGED <<controlVars, request, row, lease, approval, cancel, due, effects, overtaken, clash, yielded>>

\* The head of step(): the run is running, interrupted steps are settled.
Begin(p) ==
  LET run == [step[p].run EXCEPT !.frames = recoverInterrupted(@)]
  IN /\ Up(p)
     /\ step[p].pc = "begin"
     /\ Save(p, "running", run, IF recoveryFails(step[p].run.frames) THEN "finish" ELSE "loop")
     /\ UNCHANGED <<proc, writer, request, lease, approval, cancel, due, effects, yielded>>

\* One turn of the loop.  At() is what every turn after the two early exits
\* starts from: the innermost frame with its due steps woken.
AtLoop(p) == Up(p) /\ step[p].pc = "loop"
Goes(p) == AtLoop(p) /\ ~step[p].cancelled /\ proc[p] # "stopping"
At(p) == wake(Inner(step[p].run.frames))
Put(p, f) == [step[p].run EXCEPT !.frames = Replaced(@, f)]
End(p, status, run) == step' = [step EXCEPT ![p].pc = "finish", ![p].end = status, ![p].run = run]
memory == <<request, row, lease, approval, cancel, due, effects, overtaken, clash, yielded>>

\* The cancel flag is looked at first, then the context, then the deadline,
\* which may have passed at any turn.
StopCancelled(p) ==
  /\ AtLoop(p)
  /\ step[p].cancelled
  /\ End(p, "cancelled", [step[p].run EXCEPT !.frames = markCancelled(@)])
  /\ UNCHANGED <<controlVars, memory>>

\* The server is stopping: the run is left for the next worker.
StopShutdown(p) ==
  /\ AtLoop(p)
  /\ ~step[p].cancelled /\ proc[p] = "stopping"
  /\ Save(p, "running", step[p].run, "leave")
  /\ UNCHANGED <<proc, writer, request, lease, approval, cancel, due, effects, yielded>>

StopLate(p) ==
  /\ Goes(p)
  /\ End(p, "failed", step[p].run)
  /\ UNCHANGED <<controlVars, memory>>

Skip(p) ==
  /\ Goes(p)
  /\ skipped(At(p)) # {}
  /\ LET Change(n, ns) == IF n \in skipped(At(p)) THEN [Blank EXCEPT !.s = "skipped"] ELSE ns
     IN step' = [step EXCEPT ![p].run = Put(p, Mapped(At(p), Change))]
  /\ UNCHANGED <<controlVars, memory>>

Stuck(p) == Goes(p) /\ resolved(At(p)) = {}
Sleeping(f) == {n \in Node : f.nodes[n].s \in {"waiting", "retrying"}}
Asking(f) == {n \in Node : f.nodes[n].s = "approval"}

park(p) ==
  /\ Stuck(p)
  /\ Sleeping(At(p)) \cup Asking(At(p)) # {}
  /\ \/ /\ Save(p, IF Sleeping(At(p)) # {} THEN "waiting" ELSE "waiting_approval", Put(p, At(p)), "leave")
        /\ UNCHANGED <<proc, writer, request, lease, approval, cancel, due, effects, yielded>>
     \/ /\ Sleeping(At(p)) # {}      \* the wait would end after the deadline
        /\ End(p, "failed", Put(p, At(p)))
        /\ UNCHANGED <<controlVars, memory>>

Iterate(p) ==
  /\ Stuck(p)
  /\ Sleeping(At(p)) \cup Asking(At(p)) = {}
  /\ At(p).loop # Top
  /\ Save(p, "running", [step[p].run EXCEPT !.frames = nextIteration(Replaced(@, At(p)))], "loop")
  /\ UNCHANGED <<proc, writer, request, lease, approval, cancel, due, effects, yielded>>

Succeed(p) ==
  /\ Stuck(p)
  /\ Sleeping(At(p)) \cup Asking(At(p)) = {}
  /\ At(p).loop = Top
  /\ End(p, "succeeded", Put(p, At(p)))
  /\ UNCHANGED <<controlVars, memory>>

Work(p) == Goes(p) /\ skipped(At(p)) = {} /\ ready(At(p)) # {}

StopAtLimit(p) ==
  /\ Work(p)
  /\ step[p].run.steps >= MaxSteps
  /\ End(p, "failed", Put(p, At(p)))
  /\ UNCHANGED <<controlVars, memory>>

\* startLoop takes the first ready loop; its items may be unreadable, none
\* or some.
Loops(f) == {n \in ready(f) : def.kind[n] = "loop"}
LoopStarted(p, n, ns, frames) ==
  [frames |-> Replaced(step[p].run.frames, [At(p) EXCEPT !.nodes[n] = ns]) \o frames,
   steps |-> step[p].run.steps + 1]
startLoop(p) ==
  /\ Work(p)
  /\ step[p].run.steps < MaxSteps
  /\ \E n \in First(1, Loops(At(p))) :
        \/ Save(p, "running", LoopStarted(p, n,
               [s |-> "failed", port |-> IF def.onError[n] = "continue" THEN "" ELSE "error", att |-> 1], <<>>), "loop")
        \/ Save(p, "running", LoopStarted(p, n, [s |-> "succeeded", port |-> "done", att |-> 1], <<>>), "loop")
        \/ \E k \in 1 .. MaxItems :
             Save(p, "running", LoopStarted(p, n, [s |-> "running", port |-> "", att |-> 1], <<Frame(n, k)>>), "loop")
  /\ UNCHANGED <<proc, writer, request, lease, approval, cancel, due, effects, yielded>>

BatchLimitParallel(steps) == MaxParallel
BatchLimit(steps) == IF MaxParallel > MaxSteps - steps THEN MaxSteps - steps ELSE MaxParallel

\* runBatch marks its steps running in memory, counts them and executes them
\* side by side; nothing is written before they have all returned.
runBatch(p) ==
  LET ids == First(BatchLimit(step[p].run.steps), ready(At(p)))
      Change(n, ns) == IF n \in ids THEN With(ns, "running") ELSE ns
  IN /\ Work(p)
     /\ step[p].run.steps < MaxSteps
     /\ Loops(At(p)) = {}
     /\ step' = [step EXCEPT ![p].pc = "exec", ![p].batch = [n \in ids |-> ""],
                   ![p].run = [frames |-> Replaced(@.frames, Mapped(At(p), Change)),
                               steps |-> @.steps + Cardinality(ids)]]
     /\ UNCHANGED <<controlVars, memory>>

Scope(frames) == [i \in DOMAIN frames |-> [loop |-> frames[i].loop, index |-> frames[i].index]]

\* exec of one step of the batch: the effect, then its outcome.
exec(p, n) ==
  LET effect == <<Scope(step[p].run.frames), n>>
      first == effect \notin ran
  IN /\ Up(p)
     /\ step[p].pc = "exec"
     /\ n \in DOMAIN step[p].batch /\ step[p].batch[n] = ""
     /\ \E o \in Outcome(n) :
          /\ step' = [step EXCEPT ![p].batch[n] = o]
          /\ LET acts == def.kind[n] \in {"action", "destructive"} /\ o # "limit"
             IN /\ ran' = IF acts THEN ran \cup {effect} ELSE ran
                /\ repeated' = IF acts /\ ~first THEN repeated \cup {effect} ELSE repeated
     /\ UNCHANGED <<controlVars, request, row, lease, approval, cancel, due, overtaken, clash, yielded>>

\* The outcomes are applied in order until one ends the run; without such a
\* one the run is saved.
Stops(p, n) == Ends(Inner(step[p].run.frames).nodes[n], n, step[p].batch[n])
Reached(p) ==
  {n \in DOMAIN step[p].batch : \A m \in DOMAIN step[p].batch : Before(m, n) => Stops(p, m) = {}}
Applied(p) ==
  LET Change(n, ns) == IF n \in Reached(p) THEN apply(ns, n, step[p].batch[n]) ELSE ns
  IN Mapped(Inner(step[p].run.frames), Change)
Apply(p) ==
  /\ Up(p)
  /\ step[p].pc = "exec"
  /\ \A n \in DOMAIN step[p].batch : step[p].batch[n] # ""
  /\ due' = due \ (Reached(p) \cap Sleeping(Applied(p)))
  /\ \/ /\ \E n \in Reached(p) : \E end \in Stops(p, n) :
             step' = [step EXCEPT ![p].pc = "finish", ![p].end = end, ![p].run = Put(p, Applied(p)),
                                  ![p].batch = NoBatch]
        /\ UNCHANGED <<mishaps, row, overtaken, clash>>
     \/ /\ \A n \in DOMAIN step[p].batch : Stops(p, n) = {}
        /\ Save(p, "running", Put(p, Applied(p)), "loop")
  /\ UNCHANGED <<proc, writer, request, lease, approval, cancel, ran, repeated, yielded>>

\* finish: the final row is written, and the Finished hook is called whether
\* or not that write succeeded.
finish(p) ==
  /\ Up(p)
  /\ step[p].pc = "finish"
  /\ Goto(p, "hook")
  /\ \/ /\ Write(<<"step", p>>, [status |-> step[p].end, frames |-> step[p].run.frames, steps |-> step[p].run.steps])
        /\ UNCHANGED mishaps
     \/ Mishap /\ UNCHANGED <<row, overtaken, clash>>
  /\ UNCHANGED <<proc, writer, request, lease, approval, cancel, due, effects, yielded>>

\* The deferred calls of Step: out of e.running, then the lease.
Leave(p) ==
  /\ Up(p)
  /\ step[p].pc \in {"hook", "leave"}
  /\ Goto(p, "release")
  /\ UNCHANGED <<controlVars, memory>>

\* A renewal of the ticker that is under way may claim the run again after
\* its release.
Release(p) ==
  /\ Up(p)
  /\ step[p].pc = "release"
  /\ ReleaseRun(p) \/ (lease \in {Nobody, p} /\ lease' = p)
  /\ step' = [step EXCEPT ![p] = Idle]
  /\ Read(<<"step", p>>)
  /\ UNCHANGED <<controlVars, request, row, approval, cancel, due, effects, clash, yielded>>

StepRun(p) ==
  \/ List(p) \/ Claimed(p) \/ Register(p) \/ Begin(p)
  \/ StopCancelled(p) \/ StopShutdown(p) \/ StopLate(p)
  \/ Skip(p) \/ park(p) \/ Iterate(p) \/ Succeed(p) \/ StopAtLimit(p)
  \/ startLoop(p) \/ runBatch(p) \/ (\E n \in Node : exec(p, n)) \/ Apply(p)
  \/ finish(p) \/ Leave(p) \/ Release(p)

-----------------------------------------------------------------------------
\* Engine.Approve, called on process p: claim and read, decide and write the
\* row back, release.  An error return still releases the lease.

Approve(p) ==
  /\ Up(p)
  /\ approval.pc = "idle" /\ calls < MaxCalls
  /\ calls' = calls + 1
  /\ Claim(p)
  /\ approval' = [pc |-> IF row.status \in {"waiting", "waiting_approval"} /\ Asking(Inner(row.frames)) # {}
                         THEN "decide" ELSE "release",
                  by |-> p, run |-> row]
  /\ Read(<<"approve", p>>)
  /\ UNCHANGED <<controlVars, flow, promoting, row, step, cancel, due, effects, clash>>

decided(frames, n, port) ==
  Replaced(frames, [Inner(frames) EXCEPT !.nodes[n] = [@ EXCEPT !.s = "succeeded", !.port = port]])
Decide ==
  /\ approval.pc = "decide" /\ Up(approval.by)
  /\ \/ /\ \E n \in Asking(Inner(approval.run.frames)), port \in {"approved", "rejected"} :
             Write(<<"approve", approval.by>>,
                   [approval.run EXCEPT !.status = "pending", !.frames = decided(@, n, port)])
        /\ UNCHANGED mishaps
     \/ Mishap /\ UNCHANGED <<row, overtaken, clash>>
  /\ approval' = [approval EXCEPT !.pc = "release"]
  /\ UNCHANGED <<proc, writer, request, lease, step, cancel, due, effects, yielded>>

ApproveDone ==
  /\ approval.pc = "release" /\ Up(approval.by)
  /\ ReleaseRun(approval.by)
  /\ approval' = NoCall
  /\ Read(<<"approve", approval.by>>)
  /\ UNCHANGED <<controlVars, request, row, step, cancel, due, effects, clash, yielded>>

-----------------------------------------------------------------------------
\* Service.Cancel, called on process p.

Cancel(p) ==
  /\ Up(p)
  /\ cancel.pc = "idle" /\ calls < MaxCalls
  /\ calls' = calls + 1
  /\ ~Finished(row.status)
  /\ cancel' = [pc |-> "request", by |-> p, run |-> NoRun]
  /\ UNCHANGED <<controlVars, flow, promoting, row, lease, step, approval, due, effects, overtaken, clash, yielded>>

\* RequestCancel: the run is stepping here and is told to stop.
RequestCancel ==
  /\ cancel.pc = "request" /\ Up(cancel.by)
  /\ Registered(cancel.by)
  /\ step' = [step EXCEPT ![cancel.by].cancelled = TRUE]
  /\ cancel' = NoCall
  /\ UNCHANGED <<controlVars, request, row, lease, approval, due, effects, overtaken, clash, yielded>>

\* It is not: the call claims the run itself and reads it again, without
\* looking at the status a second time.
CancelClaim ==
  /\ cancel.pc = "request" /\ Up(cancel.by)
  /\ ~Registered(cancel.by)
  /\ \/ /\ Claim(cancel.by)
        /\ cancel' = [cancel EXCEPT !.pc = "write", !.run = row]
        /\ Read(<<"cancel", cancel.by>>)
     \/ /\ lease \notin {Nobody, cancel.by}
        /\ cancel' = NoCall
        /\ UNCHANGED <<lease, overtaken, yielded>>
  /\ UNCHANGED <<controlVars, request, row, step, approval, due, effects, clash>>

CancelWrite ==
  /\ cancel.pc = "write" /\ Up(cancel.by)
  /\ \/ /\ Write(<<"cancel", cancel.by>>,
                 [cancel.run EXCEPT !.status = "cancelled", !.frames = markCancelled(@)])
        /\ UNCHANGED mishaps
     \/ Mishap /\ UNCHANGED <<row, overtaken, clash>>
  /\ cancel' = [cancel EXCEPT !.pc = "release"]
  /\ UNCHANGED <<proc, writer, request, lease, step, approval, due, effects, yielded>>

CancelDone ==
  /\ cancel.pc = "release" /\ Up(cancel.by)
  /\ ReleaseRun(cancel.by)
  /\ cancel' = NoCall
  /\ Read(<<"cancel", cancel.by>>)
  /\ UNCHANGED <<controlVars, request, row, step, approval, due, effects, clash, yielded>>

-----------------------------------------------------------------------------
\* Service.promote, called on process p when another run of the flow has
\* ended: it lists the queued runs, and later writes the whole row it has
\* read as pending, without a claim and without a second look.

promoteList(p) ==
  /\ Up(p)
  /\ p \notin promoting /\ calls < MaxCalls
  /\ calls' = calls + 1
  /\ row.status = "queued"
  /\ promoting' = promoting \cup {p}
  /\ UNCHANGED <<controlVars, flow, row, lease, step, approval, cancel, due, effects, overtaken, clash, yielded>>

\* The row is a queued row as it was created.  The copy is outdated when the
\* run is no longer queued.  Without a free slot, and when the update is
\* refused, nothing is written.
promote(p) ==
  /\ Up(p) /\ p \in promoting
  /\ promoting' = promoting \ {p}
  /\ \/ /\ row' = Created("pending")
        /\ overtaken' = overtaken \cup HasCopy
        /\ clash' = (clash \/ row.status # "queued")
        /\ yielded' = (yielded \/ row.status # "queued" \/ HasCopy # {})
     \/ UNCHANGED <<row, overtaken, clash, yielded>>
  /\ UNCHANGED <<controlVars, flow, calls, lease, step, approval, cancel, due, effects>>

-----------------------------------------------------------------------------
\* Time, leases and processes.

WakeTimePasses ==
  /\ \E n \in Node \ due : /\ Inner(row.frames).nodes[n].s \in {"waiting", "retrying"}
                           /\ due' = due \cup {n}
  /\ UNCHANGED <<controlVars, request, row, lease, step, approval, cancel, ran, repeated, overtaken, clash, yielded>>

\* An operation of p is between its claim and its release.
Holds(p) ==
  \/ step[p].pc \notin {"idle", "listed"}
  \/ approval.by = p
  \/ cancel.by = p /\ cancel.pc # "request"

\* The ticker of Step renews the lease while the stepper runs in a live
\* process; its result is ignored, so a lost lease stays lost.
Renewing(p) == Up(p) /\ Registered(p)
RenewRun(p) ==
  /\ Renewing(p)
  /\ lease = Nobody
  /\ Claim(p)
  /\ UNCHANGED <<controlVars, request, row, step, approval, cancel, due, effects, overtaken, clash>>
RunLeaseRunsOut ==
  /\ lease # Nobody
  /\ Up(lease) => ~Holds(lease)
  /\ lease' = Nobody
  /\ yielded' = (yielded \/ Holds(lease))
  /\ UNCHANGED <<controlVars, request, row, step, approval, cancel, due, effects, overtaken, clash>>

\* The renewals of a live process fail, or come late, for a whole TTL.
RunLeaseLapses ==
  /\ lease # Nobody
  /\ Up(lease) /\ Holds(lease)
  /\ Mishap
  /\ lease' = Nobody
  /\ yielded' = TRUE
  /\ UNCHANGED <<proc, writer, request, row, step, approval, cancel, due, effects, overtaken, clash>>

\* The process is gone, and with it everything it had in flight; a clean
\* exit waits for the HTTP servers and not for the steppers.
Gone(p) ==
  /\ Crash(p) \/ Exit(p)
  /\ step' = [step EXCEPT ![p] = Idle]
  /\ approval' = IF approval.by = p THEN NoCall ELSE approval
  /\ cancel' = IF cancel.by = p THEN NoCall ELSE cancel
  /\ promoting' = promoting \ {p}
  /\ overtaken' = {op \in overtaken : op[2] # p}
  /\ UNCHANGED <<flow, calls, row, lease, due, effects, clash, yielded>>

Next ==
  \/ ControlStep /\ UNCHANGED runVars
  \/ \E p \in Process : \/ StepRun(p) \/ Approve(p) \/ Cancel(p) \/ promoteList(p) \/ promote(p)
                        \/ RenewRun(p) \/ Gone(p)
  \/ Decide \/ ApproveDone
  \/ RequestCancel \/ CancelClaim \/ CancelWrite \/ CancelDone
  \/ WakeTimePasses \/ RunLeaseRunsOut \/ RunLeaseLapses

\* The sweep ticks, goroutines run, time passes, and a control plane that is
\* down is started again; nobody has to decide or to cancel.
Fairness ==
  /\ \A p \in Process :
       /\ WF_vars(Boot(p) /\ UNCHANGED runVars)
       /\ WF_vars(Resume(p) /\ UNCHANGED runVars)
       /\ WF_vars(StepRun(p))
       /\ WF_vars(Exit(p) /\ Gone(p))
  /\ WF_vars(LeaseRunsOut /\ UNCHANGED runVars)
  /\ WF_vars(RunLeaseRunsOut)
  /\ WF_vars(WakeTimePasses)
  /\ WF_vars(Decide) /\ WF_vars(ApproveDone)
  /\ WF_vars(RequestCancel \/ CancelClaim) /\ WF_vars(CancelWrite) /\ WF_vars(CancelDone)

Spec == Init /\ [][Next]_vars
FairSpec == Spec /\ Fairness

-----------------------------------------------------------------------------
Statuses == {"queued", "pending", "running", "waiting", "waiting_approval", "succeeded", "failed", "cancelled"}
NodeStates ==
  [s: {"", "running", "waiting", "retrying", "approval", "succeeded", "failed", "skipped", "cancelled"},
   port: {"", "true", "false", "error", "approved", "rejected", "done"}, att: 0 .. MaxAttempts]

\* Every frame of the row and of a stepper's copy is well formed, an attempt
\* counter never passes the retry limit, and the stack of frames follows the
\* loops: a frame's loop is a running step of the frame below it.
WellFormed(frames) ==
  /\ frames # <<>> /\ Head(frames).loop = Top
  /\ \A i \in DOMAIN frames :
       /\ frames[i].nodes \in [Node -> NodeStates]
       /\ i > 1 => /\ frames[i].index < frames[i].items
                   /\ frames[i - 1].nodes[frames[i].loop].s \in {"running", "cancelled"}
                   /\ def.owner[frames[i].loop] = frames[i - 1].loop
TypeOK ==
  /\ ControlTypeOK
  /\ row.status \in Statuses /\ WellFormed(row.frames)
  /\ lease \in Process \cup {Nobody}
  /\ promoting \subseteq Process
  /\ \A p \in Process : step[p].run # NoRun => WellFormed(step[p].run.frames)

\* The step limit is a limit: neither a batch nor a loop carries the count
\* past it, in memory or in the row.
StepBudget == row.steps <= MaxSteps /\ \A p \in Process : step[p].run.steps <= MaxSteps

\* "Only the lease holder steps a run": an outdated copy of the row is
\* written back only if some claim was let in beside another operation of the
\* same process, a lease lapsed under an operation, or a promotion, which
\* claims nothing, wrote a row that was not queued any more or that another
\* operation had read.
LeaseHolds == clash => yielded

\* An action whose step is not idempotent takes effect a second time only
\* after a fault or an overwritten row.
RepeatsHaveACause ==
  (\E e \in repeated : e[2] \notin def.idempotent) => mishaps > 0 \/ clash

\* What recoverInterrupted says of a step that is not idempotent: "interrupted:
\* the server restarted while this step ran, so it is not repeated".  Without
\* an overwritten row such a step has its effect once.
NotRepeated ==
  (\E e \in repeated : e[2] \notin def.idempotent) => clash

\* A finished run is never reopened by a later write of the row, unless an
\* outdated copy was written.
NeverReopened == [][Finished(row.status) => Finished(row'.status) \/ clash']_vars

Kept(old, new) ==
  \A i \in DOMAIN old : i \in DOMAIN new /\ (\A j \in 1 .. i : old[j].index = new[j].index) =>
    \A n \in Node : terminal(old[i].nodes[n]) => new[i].nodes[n] = old[i].nodes[n]

\* A step that the row shows as ended in an iteration keeps its result: no
\* save takes back what an earlier one recorded, unless an outdated copy was
\* written.
ProgressKept == [][Kept(row.frames, row'.frames) \/ clash']_vars

\* Once faults stop, a run ends, stands waiting for a person, or waits in the
\* queue of its flow for another run to end.
RunEnds == []<>(Finished(row.status) \/ row.status \in {"waiting_approval", "queued"})
=============================================================================
