---------------------------- MODULE DeployProofs ----------------------------
(***************************************************************************)
(* For any number of deployments, containers, restarts and lost answers:  *)
(* the limits on deployments hold, success is real, what is over has left *)
(* no processes behind, a cancel arrives, and a final status stays.       *)
(*                                                                         *)
(* The argument is about who may touch a deployment when.  While the      *)
(* worker hands it over its row is "starting", which no request finishes; *)
(* before that it has no run and no status file; a run the manager holds  *)
(* has a status file that says "running", so no other run of it can be    *)
(* started; and its processes start once.  For the limits: every row that *)
(* takes a slot is one the worker has counted in this round, has still to *)
(* follow, or is handing over, and it dispatches only when it has followed *)
(* all.                                                                    *)
(***************************************************************************)
EXTENDS Deploy, FiniteSetTheorems, TLAPS

Statuses == {"none"} \cup Active \cup Done
Slot == {"starting", "running"}
Mode == {"", "systemd", "session"}
RowState == [status: Statuses, cancel: BOOLEAN, force: BOOLEAN]
TickState == [pc: {"idle", "round", "start", "record", "recall"},
              follow: SUBSET Deployment, dispatch: SUBSET Deployment, busy: SUBSET Deployment]
RunState == [pc: {"none", "new", "prepare", "attach", "stream", "finish"}, cancel: BOOLEAN,
             mode: Mode, pid: BOOLEAN, reason: {"", "timed-out", "cancelled"}]
FileState == [state: {"none", "running"} \cup Done, mode: Mode, pid: BOOLEAN]
KillState == [pc: {"none", "kill", "wait"}, mode: Mode, pid: BOOLEAN, cancel: BOOLEAN]
GuestState == {"none", "alive", "ok", "bad", "killed"}

\* The state of the control plane, and of the node.
ControlTypes ==
  /\ dep \in [Deployment -> RowState]
  /\ queue \in Seq(Deployment)
  /\ tick \in TickState
  /\ starting \subseteq Deployment
  /\ misses \in [Deployment -> 0 .. MaxMisses - 1]
NodeTypes ==
  /\ run \in [Deployment -> RunState]
  /\ file \in [Deployment -> FileState]
  /\ killer \in [Deployment -> KillState]
  /\ guest \in [Deployment -> GuestState]
  /\ agent \in {"up", "down"}
  /\ agent = "down" => \A d \in Deployment : run[d] = NoRun
  /\ faults \in Nat
  /\ faults = 0 => agent = "up"

\* What was queued is in the queue, once; what a round listed was queued, and
\* what it follows does not go back to waiting.
Queued ==
  /\ \A d \in Deployment : dep[d].status # "none" <=> \E i \in DOMAIN queue : queue[i] = d
  /\ \A i, j \in DOMAIN queue : queue[i] = queue[j] => i = j
  /\ \A d \in tick.follow \cup tick.dispatch : dep[d].status # "none"
  /\ \A d \in tick.follow : dep[d].status \notin {"queued", "waiting"}

\* The row the worker is handing over.
HandedOver == \A d \in Deployment :
  /\ At(d, "start") \/ At(d, "record") => dep[d].status = "starting"
  /\ At(d, "recall") => dep[d].status = "running"

\* A deployment that the manager was not asked to start yet.
Untouched(d) ==
  dep[d].status \in {"none", "queued", "waiting"} \/ At(d, "start") => file[d].state = "none"

\* A deployment, its run, its status file and its processes.
OneRun(d) ==
  /\ Held(d) => file[d].state = "running"
  /\ killer[d].pc = "wait" => Held(d)
  /\ run[d].pc \in {"new", "prepare", "attach"} => guest[d] = "none"
  /\ file[d].state = "none" => guest[d] = "none"
  /\ file[d].state = "succeeded" => guest[d] = "ok"
  /\ dep[d].status = "succeeded" => guest[d] = "ok"

\* Where its processes can be while nobody lost sight of it: with a run that
\* nobody has stopped, or with an orphan's file.
Traced(d) ==
  d \notin astray =>
    /\ dep[d].status \in Done => ~Held(d) /\ guest[d] # "alive"
    /\ guest[d] = "alive" /\ ~Held(d) => file[d].state = "running"
    /\ guest[d] = "alive" => run[d].pc # "finish"
    /\ run[d].cancel \/ killer[d].pc = "wait" => guest[d] \in {"ok", "bad", "killed"}

\* As long as nothing failed, a starting row is being handed over, and the
\* cancel of a running one is on its way.
CancelKept(d) ==
  faults = 0 =>
    /\ dep[d].status = "starting" => At(d, "start") \/ At(d, "record")
    /\ dep[d].cancel /\ dep[d].status = "running" /\ Held(d) =>
         run[d].reason # "" \/ d \in cancels \/ At(d, "recall")

Sound(d) == Untouched(d) /\ OneRun(d) /\ Traced(d) /\ CancelKept(d)

\* The slots: what takes one is counted, still to be followed, or handed over.
Slots ==
  /\ IsFiniteSet(tick.busy) /\ IsFiniteSet(Rows(Slot)) /\ RowLimits
  /\ tick.pc # "idle" => \A d \in Rows(Slot) :
       d \in tick.busy \cup tick.follow \/ (tick.pc # "round" /\ At(d, tick.pc))

DInv ==
  /\ ControlTypes /\ NodeTypes /\ Queued /\ HandedOver
  /\ \A d \in Deployment : Sound(d)
  /\ Slots

\* A sequence that grows at its end.
Grown(S, q, e, r) ==
  /\ r \in Seq(S) /\ DOMAIN q = 1 .. Len(q) /\ Len(q) \in Nat
  /\ DOMAIN r = 1 .. Len(q) + 1 /\ DOMAIN r = DOMAIN q \cup {Len(q) + 1}
  /\ r[Len(q) + 1] = e
  /\ \A i \in 1 .. Len(q) : r[i] = q[i]

LEMMA Appended ==
  ASSUME NEW S, NEW q \in Seq(S), NEW e \in S
  PROVE  Grown(S, q, e, Append(q, e))
<1>1. /\ Append(q, e) \in Seq(S) /\ DOMAIN q = 1 .. Len(q) /\ Len(q) \in Nat
      /\ DOMAIN Append(q, e) = 1 .. Len(q) + 1 /\ Append(q, e)[Len(q) + 1] = e
      /\ \A i \in 1 .. Len(q) : Append(q, e)[i] = q[i]
  OBVIOUS
<1>2. \A n \in Nat : 1 .. n + 1 = (1 .. n) \cup {n + 1}
  OBVIOUS
<1> QED
  BY <1>1, <1>2, Zenon DEF Grown

LEMMA InitHolds == Init => DInv
<1> SUFFICES ASSUME Init PROVE DInv
  OBVIOUS
<1>1. ControlTypes
  BY DeployAssumption DEF Init, ControlTypes, RowState, Statuses, TickState, NoTick
<1>2. NodeTypes
  BY Zenon DEF Init, NodeTypes, NoRun, NoFile, NoKiller, RunState, FileState, KillState, GuestState, Mode
<1>3. Queued /\ HandedOver
  BY DEF Init, Queued, HandedOver, At, NoTick
<1>4. \A d \in Deployment : Sound(d)
  BY Zenon DEF Init, Sound, Untouched, OneRun, Traced, CancelKept, Held, At, NoTick, NoRun, NoFile, NoKiller, Done
<1>5. Slots
  <2>1. Rows(Slot) = {} /\ tick.busy = {} /\ tick.pc = "idle"
    BY DEF Init, Rows, Slot, NoTick
  <2>2. IsFiniteSet({}) /\ Cardinality({}) = 0
    BY FS_EmptySet
  <2>3. RowLimits
    BY <2>1, <2>2, DeployAssumption DEF RowLimits, Within, Slot
  <2> QED
    BY <2>1, <2>2, <2>3 DEF Slots
<1> QED
  BY <1>1, <1>2, <1>3, <1>4, <1>5 DEF DInv

-----------------------------------------------------------------------------
LEMMA AtKept ==
  ASSUME UNCHANGED <<queue, tick>>
  PROVE  \A x, pc : At(x, pc)' <=> At(x, pc)
BY DEF At, Oldest

\* A step that leaves the rows, the queue and the round alone keeps what is
\* said of them.
LEMMA RowsKept ==
  ASSUME DInv, UNCHANGED <<dep, queue, tick>>
  PROVE  Queued' /\ Slots'
<1>1. Queued'
  BY DEF DInv, Queued
<1>2. Rows(Slot)' = Rows(Slot)
  BY DEF Rows
<1>3. RowLimits'
  BY <1>2 DEF DInv, Slots, RowLimits, Slot, Within
<1>4. \A x : At(x, tick.pc)' <=> At(x, tick.pc)
  <2>1. \A x : At(x, tick.pc)' <=> \E p : p = tick.pc /\ At(x, p)'
    BY DEF At, Oldest
  <2> QED
    BY <2>1, AtKept
<1> QED
  BY <1>1, <1>2, <1>3, <1>4 DEF DInv, Slots

\* What happens on the node touches one deployment and no row.
LEMMA NodeStep ==
  ASSUME DInv, NEW d \in Deployment, UNCHANGED <<dep, queue, tick, starting, misses>>, NodeTypes',
         \A x \in Deployment \ {d} :
           /\ run'[x] = run[x] /\ file'[x] = file[x] /\ killer'[x] = killer[x] /\ guest'[x] = guest[x]
           /\ x \in astray => x \in astray'
           /\ x \in cancels => x \in cancels',
         faults' = 0 => faults = 0,
         Sound(d)'
  PROVE  DInv'
<1>1. ControlTypes' /\ Queued' /\ HandedOver' /\ Slots'
  <2>1. \A x, pc : At(x, pc)' <=> At(x, pc)
    BY AtKept
  <2>2. HandedOver'
    BY <2>1 DEF DInv, HandedOver
  <2>3. ControlTypes' /\ Queued' /\ Slots'
    BY RowsKept DEF DInv, ControlTypes
  <2> QED
    BY <2>2, <2>3
<1>2. ASSUME NEW x \in Deployment \ {d}
      PROVE  Sound(x)'
  <2>1. \A pc : At(x, pc)' <=> At(x, pc)
    BY DEF At, Oldest
  <2>2. Untouched(x) /\ OneRun(x) /\ Traced(x) /\ CancelKept(x)
    BY Zenon DEF DInv, Sound
  <2>3. Untouched(x)' /\ OneRun(x)' /\ Traced(x)'
    BY <2>1, <2>2 DEF Untouched, OneRun, Traced, Held
  <2>4. CancelKept(x)'
    BY <2>1, <2>2, Zenon DEF CancelKept, Held
  <2> QED
    BY <2>3, <2>4 DEF Sound
<1> QED
  BY <1>1, <1>2 DEF DInv

LEMMA HeldIsUp ==
  ASSUME NodeTypes, NEW d \in Deployment, Held(d)
  PROVE  agent = "up"
<1>1. NoRun.pc = "none"
  BY DEF NoRun
<1>2. agent \in {"up", "down"} /\ (agent = "down" => run[d] = NoRun)
  BY DEF NodeTypes
<1> QED
  BY <1>1, <1>2 DEF Held

(* A run that only moves on keeps the rest of its record.                  *)
LEMMA MovesOn ==
  ASSUME NodeTypes, NEW d \in Deployment, NEW pc \in {"prepare", "stream", "finish"},
         run' = [run EXCEPT ![d].pc = pc]
  PROVE  /\ run' \in [Deployment -> RunState] /\ \A x \in Deployment \ {d} : run'[x] = run[x]
         /\ run'[d].pc = pc /\ run'[d].cancel = run[d].cancel /\ run'[d].reason = run[d].reason
<1>1. run \in [Deployment -> RunState]
  BY Zenon DEF NodeTypes
<1>2. PICK r : r = [run[d] EXCEPT !.pc = pc]
  BY Zenon
<1>3. r \in RunState /\ r.pc = pc /\ r.cancel = run[d].cancel /\ r.reason = run[d].reason
  BY <1>1, <1>2, Zenon DEF RunState
<1>4. run' = [run EXCEPT ![d] = r]
  BY <1>2, Zenon
<1>5. run'[d] = r /\ \A x \in Deployment \ {d} : run'[x] = run[x]
  BY <1>1, <1>4, Zenon
<1>6. run' \in [Deployment -> RunState]
  BY <1>1, <1>3, <1>4
<1> QED
  BY <1>3, <1>5, <1>6, Zenon

LEMMA RunKeeps ==
  ASSUME DInv, NEW d \in Deployment, RunStep(d)
  PROVE  DInv'
<1> DEFINE Others == \A x \in Deployment \ {d} :
             run'[x] = run[x] /\ file'[x] = file[x] /\ killer'[x] = killer[x] /\ guest'[x] = guest[x]
<1>1. UNCHANGED <<dep, queue, tick, starting, misses, cancels, agent, astray>>
  BY DEF RunStep, Execute, Prepare, Stream, Marker, Detach, finish, control
<1>2. \A pc : At(d, pc)' <=> At(d, pc)
  BY <1>1, AtKept
<1>3. NodeTypes /\ Untouched(d) /\ OneRun(d) /\ Traced(d) /\ CancelKept(d) /\ dep[d] \in RowState
  BY DEF DInv, Sound, ControlTypes
<1>4. Held(d) /\ agent = "up"
  <2>1. run[d].pc \in {"new", "prepare", "attach", "stream", "finish"}
    BY DEF RunStep, Execute, Prepare, Stream, Marker, Detach, finish
  <2>2. Held(d)
    BY <2>1 DEF Held
  <2> QED
    BY <1>3, <2>2, HeldIsUp
<1>5. ~(dep[d].status \in {"none", "queued", "waiting"} \/ At(d, "start")) /\ file[d].state = "running"
  BY <1>3, <1>4 DEF Untouched, OneRun
<1>6. Untouched(d)'
  BY <1>1, <1>2, <1>5 DEF Untouched
<1>7. CASE Execute(d) \/ Detach(d)
  <2>1. UNCHANGED <<file, killer, guest, faults>>
    BY <1>7 DEF Execute, Detach
  <2>2. PICK pc \in {"prepare", "finish"} :
          /\ run' = [run EXCEPT ![d].pc = pc]
          /\ pc = "prepare" => run[d].pc = "new"
          /\ pc = "finish" => run[d].pc = "stream" /\ (guest[d] # "alive" \/ run[d].cancel)
    BY <1>7 DEF Execute, Detach
  <2>a. pc \in {"prepare", "stream", "finish"}
    OBVIOUS
  <2>b. /\ run' \in [Deployment -> RunState] /\ \A x \in Deployment \ {d} : run'[x] = run[x]
        /\ run'[d].pc = pc /\ run'[d].cancel = run[d].cancel /\ run'[d].reason = run[d].reason
    BY <1>3, <2>2, <2>a, MovesOn, Zenon
  <2>3. NodeTypes' /\ Others
    BY <1>1, <1>3, <1>4, <2>1, <2>b DEF NodeTypes
  <2>4. run'[d].pc = pc /\ run'[d].cancel = run[d].cancel /\ run'[d].reason = run[d].reason
    BY <2>b, Zenon
  <2>5. OneRun(d)' /\ Traced(d)'
    BY <1>1, <1>2, <1>3, <1>5, <2>1, <2>2, <2>4 DEF OneRun, Traced, Held
  <2>6. CancelKept(d)'
    BY <1>1, <1>2, <1>3, <1>4, <2>1, <2>4, Zenon DEF CancelKept, Held
  <2> QED
    BY <1>1, <1>6, <2>1, <2>3, <2>5, <2>6, NodeStep DEF Sound
<1>8. CASE Prepare(d)
  <2>1. UNCHANGED <<killer, guest>> /\ faults' \in Nat /\ (faults' = 0 => faults = 0)
    BY <1>3, <1>8 DEF Prepare, Fault, NodeTypes
  <2>2. guest[d] = "none"
    BY <1>3, <1>8, Zenon DEF Prepare, OneRun
  <2>3. /\ NodeTypes' /\ Others
        /\ run'[d].pc \in {"attach", "finish"}
        /\ run'[d].cancel = run[d].cancel /\ run'[d].reason = run[d].reason
        /\ file'[d].state = file[d].state
    <3>1. CASE run' = [run EXCEPT ![d].pc = "finish"] /\ UNCHANGED file
      BY <1>1, <1>3, <1>4, <2>1, <3>1, Zenon DEF NodeTypes, RunState
    <3>2. ASSUME NEW mode \in {"systemd", "session"},
                 run' = [run EXCEPT ![d].pc = "attach", ![d].mode = mode],
                 file' = [file EXCEPT ![d].mode = mode]
          PROVE  /\ NodeTypes' /\ Others
                 /\ run'[d].pc \in {"attach", "finish"}
                 /\ run'[d].cancel = run[d].cancel /\ run'[d].reason = run[d].reason
                 /\ file'[d].state = file[d].state
      <4>1. /\ run' \in [Deployment -> RunState] /\ \A x \in Deployment \ {d} : run'[x] = run[x]
            /\ run'[d].pc = "attach" /\ run'[d].cancel = run[d].cancel /\ run'[d].reason = run[d].reason
        <5> DEFINE q == [run[d] EXCEPT !.pc = "attach"]
                   r == [q EXCEPT !.mode = mode]
        <5>1. q \in RunState /\ q.pc = "attach" /\ q.cancel = run[d].cancel /\ q.reason = run[d].reason
          BY <1>3, Zenon DEF NodeTypes, RunState
        <5>2. run' = [run EXCEPT ![d] = r]
          BY <1>3, <3>2, Zenon DEF NodeTypes
        <5> HIDE DEF q
        <5>3. r \in RunState /\ r.pc = q.pc /\ r.cancel = q.cancel /\ r.reason = q.reason
          BY <5>1, Zenon DEF RunState, Mode
        <5> QED
          BY <1>3, <5>1, <5>2, <5>3 DEF NodeTypes
      <4>2. /\ file' \in [Deployment -> FileState] /\ \A x \in Deployment \ {d} : file'[x] = file[x]
            /\ file'[d].state = file[d].state
        <5>1. [file[d] EXCEPT !.mode = mode] \in FileState
          BY <1>3, Zenon DEF NodeTypes, FileState, Mode
        <5> QED
          BY <1>3, <3>2, <5>1 DEF NodeTypes, FileState
      <4> QED
        BY <1>1, <1>3, <1>4, <2>1, <4>1, <4>2, Zenon DEF NodeTypes
    <3> QED
      BY <1>8, <3>1, <3>2 DEF Prepare
  <2>4. OneRun(d)'
    BY <1>1, <1>2, <1>3, <1>5, <2>1, <2>2, <2>3 DEF OneRun, Held
  <2>6. Traced(d)'
    BY <1>1, <1>3, <1>4, <2>1, <2>2, <2>3 DEF Traced, Held
  <2>5. CancelKept(d)'
    BY <1>1, <1>2, <1>3, <1>4, <2>1, <2>3, Zenon DEF CancelKept, Held
  <2> QED
    BY <1>1, <1>6, <2>1, <2>3, <2>4, <2>5, <2>6, NodeStep DEF Sound
<1>9. CASE Stream(d)
  <2>1. UNCHANGED <<file, killer, faults>>
    BY <1>9 DEF Stream
  <2>2. guest[d] = "none"
    BY <1>3, <1>9 DEF Stream, OneRun
  <2>3. /\ \/ run'[d].pc = "stream" /\ guest'[d] = "alive" /\ ~run[d].cancel
           \/ run'[d].pc = "finish" /\ guest'[d] = guest[d]
        /\ run'[d].cancel = run[d].cancel /\ run'[d].reason = run[d].reason
        /\ NodeTypes' /\ Others
    <3>1. CASE /\ run' = [run EXCEPT ![d].pc = "stream"] /\ ~run[d].cancel
               /\ guest' = [guest EXCEPT ![d] = "alive"]
      <4>1. "stream" \in {"prepare", "stream", "finish"}
        OBVIOUS
      <4>2. /\ run' \in [Deployment -> RunState] /\ \A x \in Deployment \ {d} : run'[x] = run[x]
            /\ run'[d].pc = "stream" /\ run'[d].cancel = run[d].cancel /\ run'[d].reason = run[d].reason
        BY <1>3, <3>1, <4>1, MovesOn, Zenon
      <4>3. /\ guest' \in [Deployment -> GuestState] /\ guest'[d] = "alive"
            /\ \A x \in Deployment \ {d} : guest'[x] = guest[x]
        BY <1>3, <3>1 DEF NodeTypes, GuestState
      <4> QED
        BY <1>1, <1>3, <1>4, <2>1, <3>1, <4>2, <4>3 DEF NodeTypes
    <3>2. CASE run' = [run EXCEPT ![d].pc = "finish"] /\ UNCHANGED guest
      <4>1. "finish" \in {"prepare", "stream", "finish"}
        OBVIOUS
      <4>2. /\ run' \in [Deployment -> RunState] /\ \A x \in Deployment \ {d} : run'[x] = run[x]
            /\ run'[d].pc = "finish" /\ run'[d].cancel = run[d].cancel /\ run'[d].reason = run[d].reason
        BY <1>3, <3>2, <4>1, MovesOn, Zenon
      <4> QED
        BY <1>1, <1>3, <1>4, <2>1, <3>2, <4>2 DEF NodeTypes
    <3> QED
      BY <1>9, <3>1, <3>2 DEF Stream
  <2>4. d \notin astray => ~Held(d) \/ dep[d].status \notin Done
    BY <1>3, Zenon DEF Traced
  <2>5. OneRun(d)' /\ Traced(d)'
    BY <1>1, <1>2, <1>3, <1>4, <1>5, <2>1, <2>2, <2>3, <2>4 DEF OneRun, Traced, Held, Done
  <2>6. CancelKept(d)'
    BY <1>1, <1>2, <1>3, <1>4, <2>1, <2>3, Zenon DEF CancelKept, Held
  <2> QED
    BY <1>1, <1>6, <2>1, <2>3, <2>5, <2>6, NodeStep DEF Sound
<1>10. CASE Marker(d)
  <2>1. /\ UNCHANGED <<killer, guest, faults>>
        /\ run' = [run EXCEPT ![d].pid = TRUE] /\ file' = [file EXCEPT ![d].pid = TRUE]
    BY <1>10 DEF Marker
  <2>2. NodeTypes' /\ Others
    <3>1. run' \in [Deployment -> RunState] /\ \A x \in Deployment \ {d} : run'[x] = run[x]
      BY <1>3, <2>1, Zenon DEF NodeTypes, RunState
    <3>2. file' \in [Deployment -> FileState] /\ \A x \in Deployment \ {d} : file'[x] = file[x]
      BY <1>3, <2>1, Zenon DEF NodeTypes, FileState
    <3> QED
      BY <1>1, <1>3, <1>4, <2>1, <3>1, <3>2 DEF NodeTypes
  <2>3. /\ run'[d].pc = run[d].pc /\ run'[d].cancel = run[d].cancel /\ run'[d].reason = run[d].reason
        /\ file'[d].state = file[d].state
    BY <1>3, <2>1, Zenon DEF NodeTypes, RunState, FileState
  <2>4. OneRun(d)' /\ Traced(d)' /\ CancelKept(d)'
    BY <1>1, <1>2, <1>3, <2>1, <2>3, Zenon DEF OneRun, Traced, CancelKept, Held
  <2> QED
    BY <1>1, <1>6, <2>1, <2>2, <2>4, NodeStep DEF Sound
<1>11. CASE finish(d)
  <2>1. /\ UNCHANGED <<guest, faults>> /\ run[d].pc = "finish"
        /\ file' = [file EXCEPT ![d].state = Outcome(d)] /\ run' = [run EXCEPT ![d] = NoRun]
        /\ killer' = IF killer[d].pc = "wait" THEN [killer EXCEPT ![d] = NoKiller] ELSE killer
    BY <1>11 DEF finish
  <2>2. Outcome(d) \in Done /\ (Outcome(d) = "succeeded" => guest[d] = "ok")
    BY <1>3, Zenon DEF Outcome, Done, NodeTypes, RunState
  <2>3. NodeTypes' /\ Others
    <3>1. killer' \in [Deployment -> KillState] /\ \A x \in Deployment \ {d} : killer'[x] = killer[x]
      BY <1>3, <2>1, Zenon DEF NodeTypes, KillState, NoKiller, Mode
    <3>2. run' \in [Deployment -> RunState] /\ \A x \in Deployment \ {d} : run'[x] = run[x]
      BY <1>3, <2>1, Zenon DEF NodeTypes, RunState, NoRun, Mode
    <3>3. file' \in [Deployment -> FileState] /\ \A x \in Deployment \ {d} : file'[x] = file[x]
      BY <1>3, <2>1, <2>2 DEF NodeTypes, FileState
    <3> QED
      BY <1>1, <1>3, <1>4, <2>1, <3>1, <3>2, <3>3 DEF NodeTypes
  <2>4. /\ run'[d].pc = "none" /\ run'[d].cancel = FALSE /\ file'[d].state = Outcome(d)
        /\ killer'[d].pc # "wait"
    BY <1>3, <2>1, Zenon DEF NodeTypes, FileState, NoRun, NoKiller
  <2>5. d \notin astray => guest[d] # "alive"
    BY <1>3, <2>1 DEF Traced
  <2>6. OneRun(d)' /\ Traced(d)' /\ CancelKept(d)'
    BY <1>1, <1>2, <1>3, <1>5, <2>1, <2>2, <2>4, <2>5, Zenon DEF OneRun, Traced, CancelKept, Held, Done
  <2> QED
    BY <1>1, <1>6, <2>1, <2>3, <2>6, NodeStep DEF Sound
<1> QED
  BY <1>7, <1>8, <1>9, <1>10, <1>11, Zenon DEF RunStep

\* stop marks the run and leaves the rest to a goroutine.
LEMMA Stopped ==
  ASSUME DInv, NEW d \in Deployment, NEW reason \in {"timed-out", "cancelled"},
         stop(d, reason), UNCHANGED <<dep, file, guest, agent, faults, astray>>
  PROVE  /\ NodeTypes' /\ OneRun(d)' /\ Traced(d)'
         /\ \A x \in Deployment \ {d} : run'[x] = run[x] /\ killer'[x] = killer[x]
         /\ Held(d)' <=> Held(d)
         /\ run[d].reason # "" => run'[d].reason # ""
         /\ Held(d) => run'[d].reason # ""
<1>1. NodeTypes /\ OneRun(d) /\ Traced(d)
  BY DEF DInv, Sound
<1>2. CASE ~Held(d) \/ run[d].reason # ""
  <2>1. UNCHANGED <<run, killer>>
    BY <1>2, Zenon DEF stop
  <2>2. NodeTypes' /\ OneRun(d)' /\ Traced(d)'
    BY <1>1, <2>1 DEF NodeTypes, OneRun, Traced, Held
  <2> QED
    BY <1>2, <2>1, <2>2, Zenon DEF Held
<1>3. CASE Held(d) /\ run[d].reason = ""
  <2> DEFINE k == [pc |-> "kill", mode |-> run[d].mode, pid |-> run[d].pid, cancel |-> run[d].pc # "new"]
  <2>1. run' = [run EXCEPT ![d].reason = reason] /\ killer' = [killer EXCEPT ![d] = k]
    BY <1>3, Zenon DEF stop
  <2>2. /\ run' \in [Deployment -> RunState]
        /\ run'[d].pc = run[d].pc /\ run'[d].cancel = run[d].cancel /\ run'[d].reason = reason
        /\ \A x \in Deployment \ {d} : run'[x] = run[x]
    BY <1>1, <2>1, Zenon DEF NodeTypes, RunState
  <2>3. k \in KillState /\ k.pc = "kill"
    BY <1>1, Zenon DEF NodeTypes, RunState, KillState
  <2> HIDE DEF k
  <2>4. killer' \in [Deployment -> KillState] /\ killer'[d] = k /\ \A x \in Deployment \ {d} : killer'[x] = killer[x]
    BY <1>1, <2>1, <2>3 DEF NodeTypes
  <2>5. agent = "up"
    BY <1>1, <1>3, HeldIsUp, Zenon
  <2>6. NodeTypes'
    BY <1>1, <2>2, <2>4, <2>5, Zenon DEF NodeTypes
  <2>7. OneRun(d)' /\ Traced(d)'
    BY <1>1, <2>2, <2>3, <2>4 DEF OneRun, Traced, Held
  <2> QED
    BY <1>3, <2>2, <2>4, <2>6, <2>7, Zenon DEF Held
<1> QED
  BY <1>2, <1>3, Zenon

LEMMA KilledGuest ==
  ASSUME DInv, NEW d \in Deployment, NEW mode, NEW pid, guest' = Killed(mode, pid, d)
  PROVE  /\ guest' \in [Deployment -> GuestState]
         /\ guest'[d] = guest[d] \/ (guest[d] = "alive" /\ guest'[d] = "killed")
         /\ d \notin Missed(mode, pid, d) => guest'[d] \in {"ok", "bad", "killed"}
         /\ \A x \in Deployment \ {d} : guest'[x] = guest[x]
         /\ \A x \in Deployment : x \in astray => x \in Missed(mode, pid, d)
<1>1. guest \in [Deployment -> GuestState]
  BY DEF DInv, NodeTypes
<1>2. CASE Reaches(mode, pid, d)
  BY <1>1, <1>2 DEF Killed, Missed, Reaches, GuestState
<1>3. CASE ~Reaches(mode, pid, d)
  BY <1>1, <1>3, Zenon DEF Killed, Missed
<1> QED
  BY <1>2, <1>3

\* What a status call leaves behind.
LEMMA Settled ==
  ASSUME DInv, NEW d \in Deployment, Settle(d)
  PROVE  /\ guest' \in [Deployment -> GuestState] /\ file' \in [Deployment -> FileState]
         /\ \A x \in Deployment \ {d} : guest'[x] = guest[x] /\ file'[x] = file[x]
         /\ guest'[d] = guest[d] \/ (guest[d] = "alive" /\ guest'[d] = "killed")
         /\ file'[d].state = IF Orphan(d) THEN "interrupted" ELSE file[d].state
         /\ agent = "up" /\ Orphan(d) /\ d \notin SettleMissed(d) => guest'[d] # "alive"
         /\ \A x \in Deployment : x \in astray => x \in SettleMissed(d)
<1>1. NodeTypes
  BY DEF DInv
<1>2. \A x \in Deployment : x \in astray => x \in SettleMissed(d)
  BY Zenon DEF SettleMissed, Missed
<1>3. CASE Orphan(d)
  <2> DEFINE dead == guest' = Killed(file[d].mode, file[d].pid, d)
  <2>1. (dead \/ guest' = guest) /\ file' = [file EXCEPT ![d].state = "interrupted"]
    BY <1>3, Zenon DEF Settle
  <2>2. /\ guest' \in [Deployment -> GuestState]
        /\ guest'[d] = guest[d] \/ (guest[d] = "alive" /\ guest'[d] = "killed")
        /\ dead /\ d \notin Missed(file[d].mode, file[d].pid, d) => guest'[d] \in {"ok", "bad", "killed"}
        /\ \A x \in Deployment \ {d} : guest'[x] = guest[x]
    <3>1. CASE dead
      BY <3>1, KilledGuest
    <3>2. CASE ~dead
      BY <1>1, <2>1, <3>2, Zenon DEF NodeTypes
    <3> QED
      BY <3>1, <3>2
  <2>3. /\ file' \in [Deployment -> FileState] /\ file'[d].state = "interrupted"
        /\ \A x \in Deployment \ {d} : file'[x] = file[x]
    BY <1>1, <2>1 DEF NodeTypes, FileState, Done
  <2>4. agent = "up" /\ d \notin SettleMissed(d) => guest'[d] # "alive"
    <3>1. CASE guest[d] = "none"
      BY <2>2, <3>1
    <3>2. CASE guest[d] # "none" /\ dead
      BY <1>3, <2>2, <3>2 DEF SettleMissed
    <3>3. CASE guest[d] # "none" /\ ~dead
      BY <1>3, <3>3 DEF SettleMissed
    <3> QED
      BY <3>1, <3>2, <3>3
  <2> QED
    BY <1>2, <1>3, <2>2, <2>3, <2>4
<1>4. CASE ~Orphan(d)
  BY <1>1, <1>2, <1>4 DEF Settle, NodeTypes
<1> QED
  BY <1>3, <1>4

LEMMA KillKeeps ==
  ASSUME DInv, NEW d \in Deployment,
         KillStep(d) \/ Timeout(d) \/ GuestExits(d) \/ RuntimeMax(d)
  PROVE  DInv'
<1>1. UNCHANGED <<dep, queue, tick, starting, misses, cancels, agent, file>>
  BY Zenon DEF KillStep, Kill, CancelContext, Timeout, GuestExits, RuntimeMax, control
<1>2. \A pc : At(d, pc)' <=> At(d, pc)
  BY <1>1, AtKept
<1>3. NodeTypes /\ Untouched(d) /\ OneRun(d) /\ Traced(d) /\ CancelKept(d) /\ dep[d] \in RowState
  BY DEF DInv, Sound, ControlTypes
<1>4. Untouched(d)'
  BY <1>1, <1>2, <1>3 DEF Untouched
<1>5. CASE Kill(d)
  <2>1. /\ UNCHANGED run /\ killer[d].pc = "kill"
        /\ killer' = [killer EXCEPT ![d] = IF Held(d) THEN [killer[d] EXCEPT !.pc = "wait"] ELSE NoKiller]
        /\ faults' \in Nat /\ (faults' = 0 => faults = 0)
    BY <1>3, <1>5 DEF Kill, Fault, NodeTypes
  <2>2. /\ guest' \in [Deployment -> GuestState]
        /\ guest'[d] = guest[d] \/ (guest[d] = "alive" /\ guest'[d] = "killed")
        /\ d \notin astray' => guest'[d] \in {"ok", "bad", "killed"}
        /\ \A x \in Deployment \ {d} : guest'[x] = guest[x]
        /\ \A x \in Deployment : x \in astray => x \in astray'
    <3>1. CASE guest' = Killed(killer[d].mode, killer[d].pid, d) /\ astray' = Missed(killer[d].mode, killer[d].pid, d)
      BY <3>1, KilledGuest
    <3>2. CASE UNCHANGED guest /\ astray' = astray \cup {d}
      BY <1>3, <3>2 DEF NodeTypes
    <3> QED
      BY <1>5, <3>1, <3>2, Zenon DEF Kill
  <2>3. /\ killer' \in [Deployment -> KillState] /\ \A x \in Deployment \ {d} : killer'[x] = killer[x]
        /\ killer'[d].pc = "wait" => Held(d)
    <3>1. [killer[d] EXCEPT !.pc = "wait"] \in KillState /\ NoKiller \in KillState /\ NoKiller.pc = "none"
      BY <1>3, Zenon DEF NodeTypes, KillState, NoKiller, Mode
    <3> QED
      BY <1>3, <2>1, <3>1 DEF NodeTypes
  <2>4. NodeTypes'
    BY <1>1, <1>3, <2>1, <2>2, <2>3 DEF NodeTypes
  <2>5. OneRun(d)' /\ Traced(d)' /\ CancelKept(d)'
    BY <1>1, <1>2, <1>3, <2>1, <2>2, <2>3, Zenon DEF OneRun, Traced, CancelKept, Held
  <2> QED
    BY <1>1, <1>4, <2>1, <2>2, <2>3, <2>4, <2>5, NodeStep DEF Sound
<1>6. CASE CancelContext(d)
  <2>1. /\ UNCHANGED <<guest, faults, astray>> /\ killer[d].pc = "wait"
        /\ killer' = [killer EXCEPT ![d] = NoKiller]
        /\ run' = IF killer[d].cancel THEN [run EXCEPT ![d].cancel = TRUE] ELSE run
    BY <1>6 DEF CancelContext
  <2>2. /\ killer' \in [Deployment -> KillState] /\ killer'[d] = NoKiller
        /\ \A x \in Deployment \ {d} : killer'[x] = killer[x]
    BY <1>3, <2>1, Zenon DEF NodeTypes, KillState, NoKiller, Mode
  <2>3. /\ run' \in [Deployment -> RunState] /\ run'[d].pc = run[d].pc /\ run'[d].reason = run[d].reason
        /\ \A x \in Deployment \ {d} : run'[x] = run[x]
    <3>1. CASE run' = [run EXCEPT ![d].cancel = TRUE]
      BY <1>3, <3>1, Zenon DEF NodeTypes, RunState
    <3>2. CASE run' = run
      BY <1>3, <3>2, Zenon DEF NodeTypes
    <3> QED
      BY <2>1, <3>1, <3>2
  <2>4. Held(d) /\ agent = "up"
    BY <1>3, <2>1, HeldIsUp, Zenon DEF OneRun
  <2>5. NodeTypes'
    BY <1>1, <1>3, <2>1, <2>2, <2>3, <2>4 DEF NodeTypes
  <2>6. OneRun(d)' /\ Traced(d)' /\ CancelKept(d)'
    BY <1>1, <1>2, <1>3, <2>1, <2>2, <2>3, <2>4, Zenon DEF OneRun, Traced, CancelKept, Held, NoKiller
  <2> QED
    BY <1>1, <1>4, <2>1, <2>2, <2>3, <2>5, <2>6, NodeStep DEF Sound
<1>7. CASE Timeout(d)
  <2>1. stop(d, "timed-out") /\ UNCHANGED <<guest, faults, astray>>
    BY <1>7, Zenon DEF Timeout
  <2>2. /\ NodeTypes' /\ OneRun(d)' /\ Traced(d)'
        /\ \A x \in Deployment \ {d} : run'[x] = run[x] /\ killer'[x] = killer[x]
        /\ Held(d)' <=> Held(d)
        /\ run[d].reason # "" => run'[d].reason # ""
    BY <1>1, <2>1, Stopped, Zenon
  <2>3. CancelKept(d)'
    BY <1>1, <1>2, <1>3, <2>1, <2>2, Zenon DEF CancelKept
  <2> QED
    BY <1>1, <1>4, <2>1, <2>2, <2>3, NodeStep, Zenon DEF Sound
<1>8. CASE GuestExits(d) \/ RuntimeMax(d)
  <2>1. UNCHANGED <<run, killer, faults, astray>> /\ guest[d] = "alive"
    BY <1>8 DEF GuestExits, RuntimeMax
  <2>2. PICK g \in {"ok", "bad", "killed"} : guest' = [guest EXCEPT ![d] = g]
    BY <1>8 DEF GuestExits, RuntimeMax
  <2>3. NodeTypes' /\ guest'[d] = g /\ \A x \in Deployment \ {d} : guest'[x] = guest[x]
    BY <1>1, <1>3, <2>1, <2>2 DEF NodeTypes, GuestState
  <2>4. OneRun(d)' /\ Traced(d)' /\ CancelKept(d)'
    BY <1>1, <1>2, <1>3, <2>1, <2>3, Zenon DEF OneRun, Traced, CancelKept, Held
  <2> QED
    BY <1>1, <1>4, <2>1, <2>3, <2>4, NodeStep, Zenon DEF Sound
<1> QED
  BY <1>5, <1>6, <1>7, <1>8 DEF KillStep

\* Manager.Cancel, whatever the worker does beside it.
LEMMA ManagerCancelled ==
  ASSUME DInv, NEW d \in Deployment, ManagerCancel(d), UNCHANGED <<dep, agent, faults>>
  PROVE  /\ NodeTypes' /\ OneRun(d)' /\ Traced(d)'
         /\ \A x \in Deployment \ {d} :
              /\ run'[x] = run[x] /\ file'[x] = file[x] /\ killer'[x] = killer[x] /\ guest'[x] = guest[x]
              /\ x \in astray => x \in astray'
         /\ file[d].state = "none" => file'[d].state = "none"
         /\ Held(d)' <=> Held(d)
         /\ agent = "up" /\ Held(d) => run'[d].reason # ""
<1>1. NodeTypes /\ OneRun(d) /\ Traced(d) /\ dep[d] \in RowState
  BY DEF DInv, Sound, ControlTypes
<1>2. CASE agent = "up" /\ Held(d) /\ stop(d, "cancelled") /\ UNCHANGED <<file, guest, astray>>
  BY <1>2, Stopped, Zenon
<1>3. CASE agent = "up" /\ ~Held(d) /\ Settle(d) /\ astray' = SettleMissed(d) /\ UNCHANGED <<run, killer>>
  <2>1. /\ guest' \in [Deployment -> GuestState] /\ file' \in [Deployment -> FileState]
        /\ \A x \in Deployment \ {d} : guest'[x] = guest[x] /\ file'[x] = file[x]
        /\ guest'[d] = guest[d] \/ (guest[d] = "alive" /\ guest'[d] = "killed")
        /\ file'[d].state = IF Orphan(d) THEN "interrupted" ELSE file[d].state
        /\ agent = "up" /\ Orphan(d) /\ d \notin SettleMissed(d) => guest'[d] # "alive"
        /\ \A x \in Deployment : x \in astray => x \in SettleMissed(d)
    BY <1>3, Settled
  <2>2. NodeTypes'
    BY <1>1, <1>3, <2>1, Zenon DEF NodeTypes
  <2>3. OneRun(d)'
    BY <1>1, <1>3, <2>1, Zenon DEF OneRun, Held, Orphan
  <2>4. Traced(d)'
    BY <1>1, <1>3, <2>1 DEF Traced, Held, Orphan
  <2>5. file[d].state = "none" => file'[d].state = "none"
    BY <2>1, Zenon DEF Orphan
  <2> QED
    BY <1>3, <2>1, <2>2, <2>3, <2>4, <2>5, Zenon DEF Held
<1>4. CASE agent = "down" /\ UNCHANGED node
  <2>1. UNCHANGED <<run, file, killer, guest, astray>>
    BY <1>4 DEF node
  <2> QED
    BY <1>1, <1>4, <2>1 DEF NodeTypes, OneRun, Traced, Held
<1> QED
  BY <1>2, <1>3, <1>4, Zenon DEF ManagerCancel

LEMMA CancelCallKeeps ==
  ASSUME DInv, NEW d \in Deployment, CancelCall(d)
  PROVE  DInv'
<1>1. /\ UNCHANGED <<dep, queue, tick, starting, misses, agent, faults>>
      /\ cancels' = cancels \ {d} /\ ManagerCancel(d)
  BY DEF CancelCall
<1>2. \A pc : At(d, pc)' <=> At(d, pc)
  BY <1>1, AtKept
<1>3. NodeTypes /\ Untouched(d) /\ CancelKept(d)
  BY DEF DInv, Sound
<1>4. /\ NodeTypes' /\ OneRun(d)' /\ Traced(d)'
      /\ \A x \in Deployment \ {d} :
           /\ run'[x] = run[x] /\ file'[x] = file[x] /\ killer'[x] = killer[x] /\ guest'[x] = guest[x]
           /\ x \in astray => x \in astray'
      /\ file[d].state = "none" => file'[d].state = "none"
      /\ Held(d)' <=> Held(d)
      /\ agent = "up" /\ Held(d) => run'[d].reason # ""
  BY <1>1, ManagerCancelled, Zenon
<1>5. Untouched(d)'
  BY <1>1, <1>2, <1>3, <1>4, Zenon DEF Untouched
<1>6. CancelKept(d)'
  BY <1>1, <1>2, <1>3, <1>4, Zenon DEF CancelKept, NodeTypes
<1> QED
  BY <1>1, <1>4, <1>5, <1>6, NodeStep, Zenon DEF Sound

-----------------------------------------------------------------------------
\* Sets of rows that keep the limits.
LEMMA Fewer ==
  ASSUME NEW S, IsFiniteSet(S), Within(S), NEW T, T \subseteq S
  PROVE  IsFiniteSet(T) /\ Within(T)
<1>1. \A A, B : IsFiniteSet(B) /\ A \subseteq B =>
        IsFiniteSet(A) /\ Cardinality(A) \in Nat /\ Cardinality(B) \in Nat /\ Cardinality(A) <= Cardinality(B)
  BY FS_Subset, FS_CardinalityType
<1>2. Cardinality(T) <= MaxConcurrent
  BY <1>1, DeployAssumption DEF Within
<1>3. ASSUME NEW d \in T
      PROVE  Cardinality({x \in T : Container[x] = Container[d]}) <= PerContainer
  <2> DEFINE A == {x \in T : Container[x] = Container[d]}
             B == {x \in S : Container[x] = Container[d]}
  <2>1. A \subseteq B /\ B \subseteq S
    OBVIOUS
  <2>2. Cardinality(B) <= PerContainer
    BY DEF Within
  <2> HIDE DEF A, B
  <2>3. Cardinality(A) \in Nat /\ Cardinality(B) \in Nat /\ Cardinality(A) <= Cardinality(B)
    BY <1>1, <2>1
  <2>4. Cardinality(A) <= PerContainer
    BY <2>2, <2>3, DeployAssumption
  <2> QED
    BY <2>4 DEF A
<1> QED
  BY <1>1, <1>2, <1>3 DEF Within

\* One more, when all of them were counted and there is room.
LEMMA OneMore ==
  ASSUME NEW S, IsFiniteSet(S), Within(S), S \subseteq tick.busy, IsFiniteSet(tick.busy),
         NEW d, HasRoom(d)
  PROVE  IsFiniteSet(S \cup {d}) /\ Within(S \cup {d})
<1>1. \A A, B : IsFiniteSet(B) /\ A \subseteq B =>
        IsFiniteSet(A) /\ Cardinality(A) \in Nat /\ Cardinality(B) \in Nat /\ Cardinality(A) <= Cardinality(B)
  BY FS_Subset, FS_CardinalityType
<1>2. ASSUME NEW B, IsFiniteSet(B), NEW A, A \subseteq B \cup {d}, NEW n \in Nat, Cardinality(B) < n
      PROVE  IsFiniteSet(A) /\ Cardinality(A) <= n
  <2>1. IsFiniteSet(B \cup {d}) /\ Cardinality(B) \in Nat
        /\ (Cardinality(B \cup {d}) = Cardinality(B) \/ Cardinality(B \cup {d}) = Cardinality(B) + 1)
    BY <1>2, FS_AddElement, FS_CardinalityType, Zenon
  <2>2. IsFiniteSet(A) /\ Cardinality(A) \in Nat /\ Cardinality(A) <= Cardinality(B \cup {d})
    BY <1>1, <1>2, <2>1, Zenon
  <2> QED
    BY <1>2, <2>1, <2>2
<1>3. MaxConcurrent \in Nat /\ PerContainer \in Nat
  BY DeployAssumption
<1>4. IsFiniteSet(S \cup {d}) /\ Cardinality(S \cup {d}) <= MaxConcurrent
  <2>1. S \cup {d} \subseteq tick.busy \cup {d}
    OBVIOUS
  <2> QED
    BY <1>2, <1>3, <2>1 DEF HasRoom
<1>5. ASSUME NEW y \in S \cup {d}
      PROVE  Cardinality({x \in S \cup {d} : Container[x] = Container[y]}) <= PerContainer
  <2>1. CASE Container[y] = Container[d]
    <3> DEFINE A == {x \in S \cup {d} : Container[x] = Container[y]}
               B == {x \in tick.busy : Container[x] = Container[d]}
    <3>1. A \subseteq B \cup {d} /\ B \subseteq tick.busy
      BY <2>1
    <3>2. Cardinality(B) < PerContainer
      BY DEF HasRoom
    <3> HIDE DEF A, B
    <3>3. IsFiniteSet(B)
      BY <1>1, <3>1
    <3>4. Cardinality(A) <= PerContainer
      BY <1>2, <1>3, <3>1, <3>2, <3>3
    <3> QED
      BY <3>4 DEF A
  <2>2. CASE Container[y] # Container[d]
    <3>1. y \in S /\ {x \in S \cup {d} : Container[x] = Container[y]} = {x \in S : Container[x] = Container[y]}
      BY <2>2
    <3> QED
      BY <3>1, Zenon DEF Within
  <2> QED
    BY <2>1, <2>2
<1> QED
  BY <1>4, <1>5 DEF Within

-----------------------------------------------------------------------------
\* The worker is at one deployment at a time.
LEMMA AtOne ==
  ASSUME DInv, NEW x, NEW y, NEW p, NEW q, At(x, p), At(y, q)
  PROVE  x = y
<1> DEFINE L == IF tick.follow # {} THEN tick.follow ELSE tick.dispatch
<1>1. queue \in Seq(Deployment)
  BY Zenon DEF DInv, ControlTypes
<1>2. PICK i \in DOMAIN queue : queue[i] = x /\ \A k \in 1 .. i - 1 : queue[k] \notin L
  BY Zenon DEF At, Oldest
<1>3. PICK j \in DOMAIN queue : queue[j] = y /\ \A k \in 1 .. j - 1 : queue[k] \notin L
  BY Zenon DEF At, Oldest
<1>4. x \in L /\ y \in L
  BY DEF At, Oldest
<1>5. i \in Nat \ {0} /\ j \in Nat \ {0}
  BY <1>1
<1> HIDE DEF L
<1>6. ~(i < j) /\ ~(j < i)
  BY <1>2, <1>3, <1>4, <1>5
<1> QED
  BY <1>2, <1>3, <1>5, <1>6

\* What it was at, it listed.
LEMMA AtListed ==
  ASSUME DInv, NEW d, NEW pc, At(d, pc)
  PROVE  /\ d \in Deployment /\ tick.pc = pc /\ dep[d].status # "none"
         /\ dep[d].status \in {"queued", "waiting"} => tick.follow = {}
<1>1. d \in tick.follow \cup tick.dispatch /\ tick.pc = pc
      /\ (tick.follow # {} => d \in tick.follow)
  BY Zenon DEF At, Oldest
<1> QED
  BY <1>1, Zenon DEF DInv, ControlTypes, TickState, Queued

\* The deployments the worker is not at.
LEMMA Bystander ==
  ASSUME DInv, NEW x \in Deployment, \A pc : pc # "round" => ~At(x, pc), \A pc : pc # "round" => ~At(x, pc)',
         dep'[x] = dep[x], run'[x] = run[x], file'[x] = file[x], killer'[x] = killer[x], guest'[x] = guest[x],
         x \in astray => x \in astray', x \in cancels => x \in cancels',
         faults' = 0 => faults = 0
  PROVE  Sound(x)'
<1>1. Untouched(x) /\ OneRun(x) /\ Traced(x) /\ CancelKept(x)
  BY DEF DInv, Sound
<1>2. ~At(x, "start")' /\ ~At(x, "record")' /\ ~At(x, "recall")'
      /\ ~At(x, "start") /\ ~At(x, "record") /\ ~At(x, "recall")
  BY Zenon
<1>3. Untouched(x)' /\ OneRun(x)' /\ Traced(x)'
  BY <1>1, <1>2 DEF Untouched, OneRun, Traced, Held
<1>4. CancelKept(x)'
  BY <1>1, <1>2, Zenon DEF CancelKept, Held
<1> QED
  BY <1>3, <1>4, Zenon DEF Sound

\* A turn of the worker that ends with the next deployment of its round: it
\* may have asked the node, and it may write what it learned into the row.
LEMMA TurnEnds ==
  ASSUME DInv, NEW d \in Deployment, At(d, tick.pc), tick.pc # "idle",
         NEW busy \in {tick.busy, tick.busy \cup {d}}, Onwards(d, busy),
         ControlTypes', NodeTypes', UNCHANGED <<queue, cancels>>,
         faults' = 0 => faults = 0,
         \A x \in Deployment \ {d} :
           /\ dep'[x] = dep[x] /\ run'[x] = run[x] /\ file'[x] = file[x]
           /\ killer'[x] = killer[x] /\ guest'[x] = guest[x]
           /\ x \in astray => x \in astray',
         dep'[d].status \notin {"none", "starting"},
         dep'[d].status \in {"queued", "waiting"} => file'[d].state = "none",
         dep'[d].status = "running" => d \in busy /\ dep[d].status \in Slot,
         faults' = 0 /\ dep'[d].cancel /\ dep'[d].status = "running" /\ Held(d)'
           => run'[d].reason # "" \/ d \in cancels,
         OneRun(d)', Traced(d)'
  PROVE  DInv'
<1>1. /\ tick'.pc = "round" /\ tick'.busy = busy
      /\ tick'.follow = tick.follow \ {d} /\ tick'.dispatch = tick.dispatch \ {d}
  BY Zenon DEF Onwards
<1>2. \A x, pc : pc # "round" => ~At(x, pc)'
  BY <1>1, Zenon DEF At
<1>3. dep[d].status # "none"
  BY AtListed, Zenon
<1>4. Queued'
  <2>1. \A x \in Deployment : dep'[x].status # "none" <=> dep[x].status # "none"
    BY <1>3, Zenon
  <2>2. tick.follow \subseteq Deployment /\ tick.dispatch \subseteq Deployment
    BY Zenon DEF DInv, ControlTypes, TickState
  <2>3. \A x \in tick'.follow : dep'[x].status \notin {"queued", "waiting"}
    BY <1>1, <2>2, Zenon DEF DInv, Queued
  <2>4. \A x \in tick'.follow \cup tick'.dispatch : dep'[x].status # "none"
    BY <1>1, <2>1, <2>2, Zenon DEF DInv, Queued
  <2> QED
    BY <2>1, <2>3, <2>4, Zenon DEF DInv, Queued
<1>5. HandedOver'
  BY <1>2, Zenon DEF HandedOver
<1>6. ASSUME NEW x \in Deployment
      PROVE  Sound(x)'
  <2>1. CASE x = d
    <3>1. ~At(d, "start")' /\ ~At(d, "record")' /\ ~At(d, "recall")'
      BY <1>2, Zenon
    <3>2. Untouched(d)' /\ CancelKept(d)'
      BY <3>1, Zenon DEF Untouched, CancelKept
    <3> QED
      BY <2>1, <3>2, Zenon DEF Sound
  <2>2. CASE x # d
    <3>1. \A pc : ~At(x, pc)
      BY <2>2, AtOne, Zenon
    <3> QED
      BY <1>2, <2>2, <3>1, Bystander, Zenon
  <2> QED
    BY <2>1, <2>2, Zenon
<1>7. Slots'
  <2>1. Rows(Slot)' \subseteq Rows(Slot)
    BY Zenon DEF Rows, Slot
  <2>2. IsFiniteSet(Rows(Slot)) /\ Within(Rows(Slot)) /\ IsFiniteSet(tick.busy)
    BY Zenon DEF DInv, Slots, RowLimits, Slot
  <2>3. IsFiniteSet(Rows(Slot)') /\ Within(Rows(Slot)')
    BY <2>1, <2>2, Fewer, Zenon
  <2>4. RowLimits'
    BY <2>3, Zenon DEF RowLimits, Slot, Within
  <2>5. IsFiniteSet(busy)
    BY <2>2, FS_AddElement, Zenon
  <2>6. ASSUME NEW x \in Rows(Slot)'
        PROVE  x \in tick'.busy \cup tick'.follow
    <3>1. CASE x = d
      BY <1>1, <3>1, Zenon DEF Rows, Slot
    <3>2. CASE x # d
      <4>1. \A pc : ~At(x, pc)
        BY <3>2, AtOne, Zenon
      <4>2. x \in tick.busy \cup tick.follow
        BY <2>1, <4>1, Zenon DEF DInv, Slots
      <4> QED
        BY <1>1, <3>2, <4>2, Zenon
    <3> QED
      BY <3>1, <3>2, Zenon
  <2> QED
    BY <1>1, <2>3, <2>4, <2>5, <2>6, Zenon DEF Slots
<1> QED
  BY <1>4, <1>5, <1>6, <1>7, Zenon DEF DInv

\* A turn that goes on with the same deployment: it is being handed over.
LEMMA TurnGoesOn ==
  ASSUME DInv, NEW d \in Deployment, At(d, tick.pc), tick.pc # "idle",
         NEW pc \in {"start", "record", "recall"}, tick' = [tick EXCEPT !.pc = pc],
         ControlTypes', NodeTypes', UNCHANGED <<queue, cancels>>,
         faults' = 0 => faults = 0,
         \A x \in Deployment \ {d} :
           /\ dep'[x] = dep[x] /\ run'[x] = run[x] /\ file'[x] = file[x]
           /\ killer'[x] = killer[x] /\ guest'[x] = guest[x]
           /\ x \in astray => x \in astray',
         dep'[d].status \in Slot,
         pc \in {"start", "record"} <=> dep'[d].status = "starting",
         pc = "start" => file'[d].state = "none",
         OneRun(d)', Traced(d)',
         IsFiniteSet(Rows(Slot)'), Within(Rows(Slot)')
  PROVE  DInv'
<1>1. /\ tick'.pc = pc /\ tick'.busy = tick.busy
      /\ tick'.follow = tick.follow /\ tick'.dispatch = tick.dispatch
  BY DEF DInv, ControlTypes, TickState
<1>2. \A x, p : At(x, p)' <=> p = pc /\ At(x, tick.pc)
  BY <1>1 DEF At, Oldest
<1>3. \A x, p : At(x, p)' => x = d
  BY <1>2, AtOne
<1>4. dep[d].status # "none"
  BY AtListed
<1>5. Queued'
  <2>1. \A x \in Deployment : dep'[x].status # "none" <=> dep[x].status # "none"
    BY <1>4 DEF Slot
  <2>2. tick.follow \subseteq Deployment /\ tick.dispatch \subseteq Deployment
    BY DEF DInv, ControlTypes, TickState
  <2>3. \A x \in tick'.follow : dep'[x].status \notin {"queued", "waiting"}
    BY <1>1, <2>2 DEF DInv, Queued, Slot
  <2>4. \A x \in tick'.follow \cup tick'.dispatch : dep'[x].status # "none"
    BY <1>1, <2>1, <2>2 DEF DInv, Queued
  <2> QED
    BY <2>1, <2>3, <2>4 DEF DInv, Queued
<1>6. HandedOver'
  BY <1>2, <1>3 DEF HandedOver, Slot
<1>7. ASSUME NEW x \in Deployment
      PROVE  Sound(x)'
  <2>1. CASE x = d
    <3>1. At(d, pc)' /\ \A p : p # pc => ~At(d, p)'
      BY <1>2
    <3>2. Untouched(d)' /\ CancelKept(d)'
      BY <3>1, Zenon DEF Untouched, CancelKept, Slot
    <3> QED
      BY <2>1, <3>2 DEF Sound
  <2>2. CASE x # d
    <3>1. \A p : ~At(x, p) /\ ~At(x, p)'
      BY <1>3, <2>2, AtOne
    <3> QED
      BY <2>2, <3>1, Bystander
  <2> QED
    BY <2>1, <2>2
<1>8. Slots'
  <2>1. ASSUME NEW x \in Rows(Slot)'
        PROVE  x \in tick'.busy \cup tick'.follow \/ (tick'.pc # "round" /\ At(x, tick.pc)')
    <3>1. CASE x = d
      <4>1. At(d, tick.pc)'
        BY <1>1 DEF At, Oldest
      <4> QED
        BY <1>1, <3>1, <4>1
    <3>2. CASE x # d
      <4>1. (\A p : ~At(x, p)) /\ x \in Rows(Slot)
        BY <3>2, AtOne DEF Rows
      <4> QED
        BY <1>1, <4>1 DEF DInv, Slots
    <3> QED
      BY <3>1, <3>2
  <2>2. RowLimits'
    BY Zenon DEF RowLimits, Slot, Within
  <2> QED
    BY <1>1, <2>1, <2>2 DEF DInv, Slots
<1> QED
  BY <1>5, <1>6, <1>7, <1>8 DEF DInv

\* A status call: answered, or not.
LEMMA Asked ==
  ASSUME DInv, NEW d \in Deployment,
         \/ agent = "up" /\ Settle(d)
         \/ (agent = "down" \/ ~Known(d)) /\ UNCHANGED <<guest, file>>,
         UNCHANGED <<run, killer, agent>>, faults' \in Nat, faults' = 0 => faults = 0,
         dep'[d].status = "succeeded" =>
           dep[d].status = "succeeded" \/ (~Orphan(d) /\ file[d].state = "succeeded")
  PROVE  /\ NodeTypes' /\ OneRun(d)'
         /\ \A x \in Deployment \ {d} :
              /\ run'[x] = run[x] /\ file'[x] = file[x] /\ killer'[x] = killer[x] /\ guest'[x] = guest[x]
              /\ x \in astray => x \in SettleMissed(d)
         /\ /\ astray' = SettleMissed(d)
            /\ dep'[d].status \in Done => dep[d].status \in Done \/ (agent = "up" /\ Settle(d) /\ ~Held(d))
            => Traced(d)'
<1>1. NodeTypes /\ OneRun(d) /\ Traced(d)
  BY Zenon DEF DInv, Sound
<1>2. CASE agent = "up" /\ Settle(d)
  <2>1. /\ guest' \in [Deployment -> GuestState] /\ file' \in [Deployment -> FileState]
        /\ \A x \in Deployment \ {d} : guest'[x] = guest[x] /\ file'[x] = file[x]
        /\ guest'[d] = guest[d] \/ (guest[d] = "alive" /\ guest'[d] = "killed")
        /\ file'[d].state = IF Orphan(d) THEN "interrupted" ELSE file[d].state
        /\ Orphan(d) /\ d \notin SettleMissed(d) => guest'[d] # "alive"
        /\ \A x \in Deployment : x \in astray => x \in SettleMissed(d)
    BY <1>2, Settled, Zenon
  <2>2. NodeTypes'
    BY <1>1, <1>2, <2>1, Zenon DEF NodeTypes
  <2>3. OneRun(d)'
    BY <1>1, <2>1, Zenon DEF OneRun, Held, Orphan
  <2>4. d \notin SettleMissed(d) => (guest'[d] = "alive" => Held(d))
    BY <1>1, <2>1 DEF Traced, Orphan
  <2>5. astray' = SettleMissed(d) /\ (dep'[d].status \in Done => dep[d].status \in Done \/ ~Held(d)) => Traced(d)'
    BY <1>1, <2>1, <2>4, Zenon DEF Traced, Held
  <2> QED
    BY <1>2, <2>1, <2>2, <2>3, <2>5, Zenon
<1>3. CASE (agent = "down" \/ ~Known(d)) /\ UNCHANGED <<guest, file>>
  <2>1. SettleMissed(d) = astray
    BY <1>3, Zenon DEF SettleMissed, Orphan, Known
  <2>2. NodeTypes'
    BY <1>1, <1>3, Zenon DEF NodeTypes
  <2>3. OneRun(d)'
    BY <1>1, <1>3, Zenon DEF OneRun, Held
  <2>4. ASSUME astray' = astray,
               dep'[d].status \in Done => dep[d].status \in Done \/ (agent = "up" /\ Settle(d) /\ ~Held(d))
        PROVE  Traced(d)'
    <3>1. ~Known(d) /\ ~Held(d) => guest[d] = "none"
      BY <1>1, Zenon DEF Known, OneRun
    <3>2. agent = "up" /\ ~Held(d) => guest[d] # "alive"
      BY <1>3, <3>1
    <3> QED
      BY <1>1, <1>3, <2>4, <3>2, Zenon DEF Traced, Held
  <2> QED
    BY <1>3, <2>1, <2>2, <2>3, <2>4, Zenon
<1> QED
  BY <1>2, <1>3, Zenon

LEMMA StatusSet ==
  ASSUME ControlTypes, NEW d \in Deployment, NEW s \in Statuses, Status(d, s)
  PROVE  /\ dep' \in [Deployment -> RowState] /\ dep'[d].status = s /\ dep'[d].cancel = dep[d].cancel
         /\ \A x \in Deployment \ {d} : dep'[x] = dep[x]
BY Zenon DEF ControlTypes, RowState, Status

LEMMA OnwardsTypes ==
  ASSUME ControlTypes, NEW d \in Deployment, NEW busy \in SUBSET Deployment, Onwards(d, busy)
  PROVE  tick' \in TickState
BY DEF ControlTypes, TickState, Onwards

LEMMA SuperviseKeeps ==
  ASSUME DInv, NEW d \in Deployment, Supervise(d)
  PROVE  DInv'
<1>1. /\ At(d, tick.pc) /\ tick.pc = "round" /\ dep[d].status = "running"
      /\ UNCHANGED <<queue, starting, cancels, agent, run, killer>>
  BY Zenon DEF Supervise, At
<1>2. ControlTypes /\ NodeTypes /\ OneRun(d) /\ Traced(d) /\ CancelKept(d) /\ tick.busy \subseteq Deployment
  BY DEF DInv, Sound, ControlTypes, TickState
<1>3. CancelKept(d) => (faults = 0 /\ dep[d].cancel /\ Held(d) => run[d].reason # "" \/ d \in cancels)
  BY <1>1, Zenon DEF CancelKept, At
<1>4. CASE /\ agent = "up" /\ Known(d)
           /\ Settle(d) /\ astray' = SettleMissed(d)
           /\ misses' = [misses EXCEPT ![d] = 0]
           /\ IF StatusOf(d) = "running"
              THEN Onwards(d, tick.busy \cup {d}) /\ UNCHANGED dep
              ELSE Onwards(d, tick.busy) /\ Status(d, StatusOf(d))
           /\ UNCHANGED faults
  <2>1. misses' \in [Deployment -> 0 .. MaxMisses - 1]
    <3> DEFINE M == 0 .. MaxMisses - 1
    <3>1. 0 \in M
      BY DeployAssumption, SMTT(20)
    <3>2. misses \in [Deployment -> M] /\ misses' = [misses EXCEPT ![d] = 0]
      BY <1>2, <1>4, Zenon DEF ControlTypes
    <3> HIDE DEF M
    <3>3. misses' \in [Deployment -> M]
      BY <3>1, <3>2, SMTT(20)
    <3> QED
      BY <3>3, Zenon DEF M
  <2>2. faults' \in Nat
    BY <1>2, <1>4, Zenon DEF NodeTypes
  <2>3. CASE StatusOf(d) = "running"
    <3>1. Onwards(d, tick.busy \cup {d}) /\ UNCHANGED dep
      BY <1>4, <2>3, Zenon
    <3>2. NodeTypes' /\ OneRun(d)' /\ Traced(d)'
          /\ \A x \in Deployment \ {d} :
               /\ run'[x] = run[x] /\ file'[x] = file[x] /\ killer'[x] = killer[x] /\ guest'[x] = guest[x]
               /\ x \in astray => x \in SettleMissed(d)
      BY <1>1, <1>4, <2>2, <3>1, Asked
    <3>3. ControlTypes'
      BY <1>1, <1>2, <2>1, <3>1, OnwardsTypes, Zenon DEF ControlTypes
    <3> QED
      BY <1>1, <1>2, <1>3, <1>4, <3>1, <3>2, <3>3, TurnEnds, Zenon DEF Slot, Held
  <2>4. CASE StatusOf(d) # "running"
    <3>1. Onwards(d, tick.busy) /\ Status(d, StatusOf(d))
      BY <1>4, <2>4, Zenon
    <3>2. ~Held(d) /\ StatusOf(d) \in Done
          /\ (StatusOf(d) = "succeeded" => ~Orphan(d) /\ file[d].state = "succeeded")
      BY <1>2, <1>4, <2>4, Zenon DEF StatusOf, Known, Orphan, NodeTypes, FileState, Done
    <3>3. StatusOf(d) \in Statuses
      BY <3>2, Zenon DEF Statuses
    <3>4. /\ dep' \in [Deployment -> RowState] /\ dep'[d].status = StatusOf(d)
          /\ \A x \in Deployment \ {d} : dep'[x] = dep[x]
      BY <1>2, <3>1, <3>3, StatusSet
    <3>5. NodeTypes' /\ OneRun(d)' /\ Traced(d)'
          /\ \A x \in Deployment \ {d} :
               /\ run'[x] = run[x] /\ file'[x] = file[x] /\ killer'[x] = killer[x] /\ guest'[x] = guest[x]
               /\ x \in astray => x \in SettleMissed(d)
      BY <1>1, <1>4, <2>2, <3>2, <3>4, Asked, Zenon
    <3>6. ControlTypes'
      BY <1>1, <1>2, <2>1, <3>1, <3>4, OnwardsTypes, Zenon DEF ControlTypes
    <3>7. dep'[d].status \notin {"none", "queued", "waiting", "starting", "running"}
      BY <3>2, <3>4 DEF Done
    <3> QED
      BY <1>1, <1>4, <3>1, <3>4, <3>5, <3>6, <3>7, TurnEnds, Zenon
  <2> QED
    BY <2>3, <2>4, SMTT(20)
<1>5. CASE NoAnswer(d)
           /\ IF misses[d] + 1 < MaxMisses
              THEN /\ misses' = [misses EXCEPT ![d] = @ + 1]
                   /\ Onwards(d, tick.busy \cup {d})
                   /\ astray' = SettleMissed(d)
                   /\ UNCHANGED dep
              ELSE /\ misses' = [misses EXCEPT ![d] = 0]
                   /\ Onwards(d, tick.busy)
                   /\ Status(d, "interrupted")
                   /\ astray' = astray \cup {d}
  <2>1. /\ faults' \in Nat /\ (faults' = 0 => faults = 0)
        /\ \/ agent = "up" /\ Settle(d)
           \/ (agent = "down" \/ ~Known(d)) /\ UNCHANGED <<guest, file>>
    <3>1. NoAnswer(d) /\ faults \in Nat
      BY <1>2, <1>5, Zenon DEF NodeTypes
    <3>2. CASE (agent = "down" \/ ~Known(d)) /\ UNCHANGED <<guest, file, faults>>
      BY <3>1, <3>2
    <3>3. CASE agent = "up" /\ Known(d) /\ Settle(d) /\ Fault
      <4>1. faults' = faults + 1
        BY <3>3 DEF Fault
      <4>2. faults' \in Nat /\ faults' # 0
        BY <3>1, <4>1, SMTT(20)
      <4> QED
        BY <3>3, <4>2, Zenon
    <3> QED
      BY <3>1, <3>2, <3>3, Zenon DEF NoAnswer
  <2>2. misses' \in [Deployment -> 0 .. MaxMisses - 1]
    BY <1>2, <1>5, DeployAssumption DEF ControlTypes
  <2>3. CASE misses[d] + 1 < MaxMisses
    <3>1. Onwards(d, tick.busy \cup {d}) /\ UNCHANGED dep /\ astray' = SettleMissed(d)
      BY <1>5, <2>3, Zenon
    <3>2. NodeTypes' /\ OneRun(d)' /\ Traced(d)'
          /\ \A x \in Deployment \ {d} :
               /\ run'[x] = run[x] /\ file'[x] = file[x] /\ killer'[x] = killer[x] /\ guest'[x] = guest[x]
               /\ x \in astray => x \in SettleMissed(d)
      BY <1>1, <2>1, <3>1, Asked, SMTT(20)
    <3>3. ControlTypes'
      BY <1>1, <1>2, <2>2, <3>1, OnwardsTypes, Zenon DEF ControlTypes
    <3> QED
      BY <1>1, <1>2, <1>3, <2>1, <3>1, <3>2, <3>3, TurnEnds, Zenon DEF Slot, Held
  <2>4. CASE ~(misses[d] + 1 < MaxMisses)
    <3>1. Onwards(d, tick.busy) /\ Status(d, "interrupted") /\ astray' = astray \cup {d}
      BY <1>5, <2>4, Zenon
    <3>2. /\ dep' \in [Deployment -> RowState] /\ dep'[d].status = "interrupted"
          /\ \A x \in Deployment \ {d} : dep'[x] = dep[x]
      BY <1>2, <3>1, StatusSet DEF Statuses, Done
    <3>3. NodeTypes' /\ OneRun(d)'
          /\ \A x \in Deployment \ {d} :
               /\ run'[x] = run[x] /\ file'[x] = file[x] /\ killer'[x] = killer[x] /\ guest'[x] = guest[x]
      BY <1>1, <2>1, <3>2, Asked, Zenon
    <3>4. Traced(d)'
      BY <3>1, Zenon DEF Traced
    <3>5. ControlTypes'
      BY <1>1, <1>2, <2>2, <3>1, <3>2, OnwardsTypes DEF ControlTypes
    <3> QED
      BY <1>1, <2>1, <3>1, <3>2, <3>3, <3>4, <3>5, TurnEnds, Zenon
  <2> QED
    BY <2>3, <2>4
<1> QED
  BY <1>4, <1>5, Zenon DEF Supervise

LEMMA AdoptKeeps ==
  ASSUME DInv, NEW d \in Deployment, Adopt(d)
  PROVE  DInv'
<1>1. /\ At(d, tick.pc) /\ tick.pc = "round" /\ dep[d].status = "starting"
      /\ UNCHANGED <<queue, starting, misses, cancels, agent, run, killer>>
  BY Zenon DEF Adopt, At
<1>2. ControlTypes /\ NodeTypes /\ CancelKept(d) /\ tick.busy \subseteq Deployment
  BY Zenon DEF DInv, Sound, ControlTypes, TickState
<1>3. faults # 0
  BY <1>1, <1>2, Zenon DEF CancelKept, At
<1>4. /\ faults' \in Nat /\ faults' # 0
      /\ \/ agent = "up" /\ Settle(d)
         \/ (agent = "down" \/ ~Known(d)) /\ UNCHANGED <<guest, file>>
  BY <1>2, <1>3 DEF Adopt, NoAnswer, Fault, NodeTypes
<1>5. \/ Status(d, "running") /\ Onwards(d, tick.busy \cup {d}) /\ astray' = SettleMissed(d)
      \/ Status(d, "interrupted") /\ Onwards(d, tick.busy) /\ astray' = astray \cup {d}
  BY Zenon DEF Adopt
<1>6. PICK s \in {"running", "interrupted"} : Status(d, s) /\ dep'[d].status = s
  <2>1. "running" \in Statuses /\ "interrupted" \in Statuses
    BY Zenon DEF Statuses, Active, Done
  <2> QED
    BY <1>2, <1>5, <2>1, StatusSet
<1>7. dep' \in [Deployment -> RowState] /\ \A x \in Deployment \ {d} : dep'[x] = dep[x]
  BY <1>2, <1>6, StatusSet DEF Statuses, Active, Done
<1>8. NodeTypes' /\ OneRun(d)'
      /\ \A x \in Deployment \ {d} :
           /\ run'[x] = run[x] /\ file'[x] = file[x] /\ killer'[x] = killer[x] /\ guest'[x] = guest[x]
           /\ x \in astray => x \in astray'
  BY <1>1, <1>4, <1>5, <1>6, Asked, Zenon
<1>9. Traced(d)'
  <2>1. CASE Status(d, "running") /\ astray' = SettleMissed(d)
    <3>1. dep'[d].status \notin Done
      BY <1>2, <2>1, StatusSet DEF Statuses, Active, Done
    <3> QED
      BY <1>1, <1>4, <2>1, <3>1, Asked, Zenon DEF Done
  <2>2. CASE astray' = astray \cup {d}
    BY <2>2, Zenon DEF Traced
  <2> QED
    BY <1>5, <2>1, <2>2
<1>10. PICK busy \in {tick.busy, tick.busy \cup {d}} :
         Onwards(d, busy) /\ (dep'[d].status = "running" => d \in busy)
  <2>1. Status(d, "interrupted") => dep'[d].status = "interrupted"
    BY <1>2, StatusSet, Zenon DEF Statuses, Done
  <2> QED
    BY <1>5, <2>1
<1>11. ControlTypes'
  BY <1>1, <1>2, <1>7, <1>10, OnwardsTypes DEF ControlTypes
<1> QED
  BY <1>1, <1>4, <1>6, <1>7, <1>8, <1>9, <1>10, <1>11, TurnEnds, Zenon DEF Slot

LEMMA WaitOrPassKeeps ==
  ASSUME DInv, NEW d \in Deployment, markWaiting(d) \/ Passed(d)
  PROVE  DInv'
<1>1. /\ At(d, tick.pc) /\ tick.pc = "round" /\ Onwards(d, tick.busy)
      /\ UNCHANGED <<queue, starting, misses, cancels, agent, run, file, killer, guest, astray, faults>>
  BY Zenon DEF markWaiting, Passed, At, node
<1>2. ControlTypes /\ NodeTypes /\ Untouched(d) /\ OneRun(d) /\ Traced(d) /\ tick.busy \subseteq Deployment
  BY SMTT(20) DEF DInv, Sound, ControlTypes, TickState
<1>3. /\ dep' \in [Deployment -> RowState] /\ \A x \in Deployment \ {d} : dep'[x] = dep[x]
      /\ \/ dep'[d].status = "waiting" /\ file[d].state = "none"
         \/ dep'[d] = dep[d] /\ dep[d].status \in Done
  <2>1. CASE markWaiting(d)
    <3>1. Status(d, "waiting") /\ dep[d].status \in {"queued", "waiting"}
      BY <2>1 DEF markWaiting
    <3> QED
      BY <1>2, <3>1, StatusSet, Zenon DEF Statuses, Active, Untouched
  <2>2. CASE Passed(d)
    BY <1>2, <2>2, Zenon DEF Passed, ControlTypes
  <2> QED
    BY <2>1, <2>2, Zenon
<1>4. NodeTypes'
  BY <1>1, <1>2, Zenon DEF NodeTypes
<1>5. OneRun(d)' /\ Traced(d)'
  BY <1>1, <1>2, <1>3, Zenon DEF OneRun, Traced, Held, Done
<1>6. ControlTypes'
  BY <1>1, <1>2, <1>3, OnwardsTypes, Zenon DEF ControlTypes
<1>7. /\ dep'[d].status \notin {"none", "starting", "running"}
      /\ dep'[d].status \in {"queued", "waiting"} => file'[d].state = "none"
  BY <1>1, <1>3, Zenon DEF Done
<1> QED
  BY <1>1, <1>3, <1>4, <1>5, <1>6, <1>7, TurnEnds, Zenon

\* It takes a slot when all that have one are counted.
LEMMA StartDeploymentKeeps ==
  ASSUME DInv, NEW d \in Deployment, startDeployment(d)
  PROVE  DInv'
<1>1. /\ At(d, tick.pc) /\ tick.pc = "round" /\ dep[d].status \in {"queued", "waiting"} /\ HasRoom(d)
      /\ Status(d, "starting") /\ starting' = starting \cup {d} /\ tick' = [tick EXCEPT !.pc = "start"]
      /\ UNCHANGED <<queue, misses, cancels, agent, run, file, killer, guest, astray, faults>>
  BY DEF startDeployment, At, node, MustWait
<1>2. ControlTypes /\ NodeTypes /\ Untouched(d) /\ OneRun(d) /\ Traced(d)
  BY DEF DInv, Sound
<1>3. /\ dep' \in [Deployment -> RowState] /\ \A x \in Deployment \ {d} : dep'[x] = dep[x]
      /\ dep'[d].status = "starting"
  BY <1>1, <1>2, StatusSet DEF Statuses, Active
<1>4. NodeTypes'
  BY <1>1, <1>2 DEF NodeTypes
<1>5. tick' \in TickState
  BY <1>1, <1>2, Zenon DEF ControlTypes, TickState
<1>6. ControlTypes'
  BY <1>1, <1>2, <1>3, <1>5 DEF ControlTypes
<1>7. OneRun(d)' /\ Traced(d)'
  BY <1>1, <1>2, <1>3 DEF OneRun, Traced, Held, Done
<1>8. IsFiniteSet(Rows(Slot)') /\ Within(Rows(Slot)')
  <2>1. tick.follow = {}
    BY <1>1, AtListed
  <2>2. Rows(Slot) \subseteq tick.busy
    BY <1>1, <2>1 DEF DInv, Slots
  <2>3. Rows(Slot)' = Rows(Slot) \cup {d}
    BY <1>3, Zenon DEF Rows, Slot
  <2>4. IsFiniteSet(Rows(Slot)) /\ Within(Rows(Slot)) /\ IsFiniteSet(tick.busy)
    BY DEF DInv, Slots, RowLimits, Slot
  <2> QED
    BY <1>1, <2>2, <2>3, <2>4, OneMore
<1>9. file'[d].state = "none"
  BY <1>1, <1>2 DEF Untouched
<1> QED
  BY <1>1, <1>3, <1>4, <1>6, <1>7, <1>8, <1>9, TurnGoesOn DEF Slot

\* Manager.Start for a deployment without a run, a file or processes.
LEMMA StartKeeps ==
  ASSUME DInv, NEW d \in Deployment, Start(d)
  PROVE  DInv'
<1>1. /\ At(d, tick.pc) /\ tick.pc = "start"
      /\ UNCHANGED <<queue, misses, cancels, agent, killer, guest>>
  BY DEF Start, At
<1>2. ControlTypes /\ NodeTypes /\ Untouched(d) /\ OneRun(d) /\ Traced(d) /\ tick.busy \subseteq Deployment
  BY Zenon DEF DInv, Sound, ControlTypes, TickState
<1>3. /\ dep[d].status = "starting" /\ file[d].state = "none" /\ guest[d] = "none" /\ ~Held(d)
      /\ killer[d].pc # "wait"
  BY <1>1, <1>2 DEF DInv, HandedOver, Untouched, OneRun
<1>4. ASSUME StartRun(d), agent = "up", faults' \in Nat, faults' = 0 => faults = 0
      PROVE  /\ NodeTypes'
             /\ run'[d].pc = "new" /\ run'[d].cancel = FALSE /\ file'[d].state = "running"
             /\ \A x \in Deployment \ {d} : run'[x] = run[x] /\ file'[x] = file[x]
  <2>1. [NoRun EXCEPT !.pc = "new"] \in RunState
    BY Zenon DEF NoRun, RunState, Mode
  <2>2. /\ run' \in [Deployment -> RunState] /\ run'[d].pc = "new" /\ run'[d].cancel = FALSE
        /\ \A x \in Deployment \ {d} : run'[x] = run[x]
    BY <1>2, <1>4, <2>1, Zenon DEF StartRun, NodeTypes, NoRun
  <2>3. /\ file' \in [Deployment -> FileState] /\ file'[d].state = "running"
        /\ \A x \in Deployment \ {d} : file'[x] = file[x]
    BY <1>2, <1>4 DEF StartRun, NodeTypes, FileState
  <2> QED
    BY <1>1, <1>2, <1>4, <2>2, <2>3, Zenon DEF NodeTypes
<1>5. CASE /\ agent = "up" /\ CanStart(d)
           /\ StartRun(d)
           /\ tick' = [tick EXCEPT !.pc = "record"]
           /\ UNCHANGED <<dep, starting, faults, astray>>
  <2>1. /\ NodeTypes'
        /\ run'[d].pc = "new" /\ run'[d].cancel = FALSE /\ file'[d].state = "running"
        /\ \A x \in Deployment \ {d} : run'[x] = run[x] /\ file'[x] = file[x]
    BY <1>2, <1>4, <1>5, Zenon DEF NodeTypes
  <2>2. OneRun(d)' /\ Traced(d)'
    BY <1>1, <1>2, <1>3, <1>5, <2>1 DEF OneRun, Traced, Held, Done
  <2>3. tick' \in TickState
    BY <1>2, <1>5, Zenon DEF ControlTypes, TickState
  <2>4. ControlTypes'
    BY <1>1, <1>2, <1>5, <2>3 DEF ControlTypes
  <2>5. Rows(Slot)' = Rows(Slot)
    BY <1>5, Zenon DEF Rows
  <2>6. IsFiniteSet(Rows(Slot)) /\ Within(Rows(Slot))
    BY DEF DInv, Slots, RowLimits, Slot
  <2>7. IsFiniteSet(Rows(Slot)') /\ Within(Rows(Slot)')
    BY <2>5, <2>6
  <2> QED
    BY <1>1, <1>3, <1>5, <2>1, <2>2, <2>4, <2>7, TurnGoesOn DEF Slot
<1>6. CASE /\ \/ UNCHANGED <<run, file, faults, astray>>
              \/ agent = "up" /\ CanStart(d) /\ StartRun(d) /\ Fault /\ astray' = astray \cup {d}
           /\ dep' = [dep EXCEPT ![d].status = "failed", ![d].cancel = FALSE]
           /\ starting' = starting \ {d}
           /\ Onwards(d, tick.busy)
  <2>1. /\ dep' \in [Deployment -> RowState] /\ dep'[d].status = "failed"
        /\ \A x \in Deployment \ {d} : dep'[x] = dep[x]
    <3> DEFINE q == [dep[d] EXCEPT !.status = "failed"]
               r == [q EXCEPT !.cancel = FALSE]
    <3>1. q \in RowState /\ q.status = "failed"
      BY <1>2, Zenon DEF ControlTypes, RowState, Statuses, Done
    <3>2. dep' = [dep EXCEPT ![d] = r]
      BY <1>2, <1>6, Zenon DEF ControlTypes
    <3> HIDE DEF q
    <3>3. r \in RowState /\ r.status = "failed"
      BY <3>1, Zenon DEF RowState
    <3> QED
      BY <1>2, <3>2, <3>3 DEF ControlTypes
  <2>2. /\ NodeTypes' /\ OneRun(d)' /\ Traced(d)'
        /\ faults' = 0 => faults = 0
        /\ \A x \in Deployment \ {d} :
             run'[x] = run[x] /\ file'[x] = file[x] /\ (x \in astray => x \in astray')
    <3>1. CASE UNCHANGED <<run, file, faults, astray>>
      BY <1>1, <1>2, <1>3, <2>1, <3>1, Zenon DEF NodeTypes, OneRun, Traced, Held
    <3>2. CASE agent = "up" /\ StartRun(d) /\ Fault /\ astray' = astray \cup {d}
      <4>1. faults' \in Nat /\ (faults' = 0 => faults = 0)
        BY <1>2, <3>2 DEF Fault, NodeTypes
      <4>2. /\ NodeTypes'
            /\ run'[d].pc = "new" /\ run'[d].cancel = FALSE /\ file'[d].state = "running"
            /\ \A x \in Deployment \ {d} : run'[x] = run[x] /\ file'[x] = file[x]
        BY <1>4, <3>2, <4>1, Zenon
      <4>3. OneRun(d)' /\ Traced(d)'
        BY <1>1, <1>2, <1>3, <2>1, <3>2, <4>2, Zenon DEF OneRun, Traced, Held
      <4> QED
        BY <3>2, <4>1, <4>2, <4>3, Zenon
    <3> QED
      BY <1>6, <3>1, <3>2
  <2>3. ControlTypes'
    BY <1>1, <1>2, <1>6, <2>1, OnwardsTypes DEF ControlTypes
  <2> QED
    BY <1>1, <1>6, <2>1, <2>2, <2>3, TurnEnds, Zenon
<1> QED
  BY <1>5, <1>6 DEF Start

LEMMA RecordKeeps ==
  ASSUME DInv, NEW d \in Deployment, Record(d)
  PROVE  DInv'
<1>1. /\ At(d, tick.pc) /\ tick.pc = "record" /\ Status(d, "running")
      /\ UNCHANGED <<queue, misses, cancels, agent, run, file, killer, guest, astray, faults>>
  BY DEF Record, At, node
<1>2. ControlTypes /\ NodeTypes /\ OneRun(d) /\ Traced(d) /\ tick.busy \subseteq Deployment
  BY DEF DInv, Sound, ControlTypes, TickState
<1>3. dep[d].status = "starting"
  BY <1>1, Zenon DEF DInv, HandedOver
<1>4. /\ dep' \in [Deployment -> RowState] /\ \A x \in Deployment \ {d} : dep'[x] = dep[x]
      /\ dep'[d].status = "running" /\ dep'[d].cancel = dep[d].cancel
  BY <1>1, <1>2, StatusSet DEF Statuses, Active
<1>5. NodeTypes' /\ OneRun(d)' /\ Traced(d)'
  BY <1>1, <1>2, <1>4, Zenon DEF NodeTypes, OneRun, Traced, Held, Done
<1>6. CASE dep[d].cancel
  <2>1. tick' = [tick EXCEPT !.pc = "recall"] /\ UNCHANGED starting
    BY <1>6 DEF Record
  <2>2. tick' \in TickState
    BY <1>2, <2>1, Zenon DEF ControlTypes, TickState
  <2>3. ControlTypes'
    BY <1>1, <1>2, <1>4, <2>1, <2>2 DEF ControlTypes
  <2>4. Rows(Slot)' = Rows(Slot)
    BY <1>3, <1>4 DEF Rows, Slot
  <2>5. IsFiniteSet(Rows(Slot)) /\ Within(Rows(Slot))
    BY DEF DInv, Slots, RowLimits, Slot
  <2>6. IsFiniteSet(Rows(Slot)') /\ Within(Rows(Slot)')
    BY <2>4, <2>5
  <2> QED
    BY <1>1, <1>4, <1>5, <2>1, <2>3, <2>6, TurnGoesOn DEF Slot
<1>7. CASE ~dep[d].cancel
  <2>1. Onwards(d, tick.busy \cup {d}) /\ starting' = starting \ {d}
    BY <1>7 DEF Record
  <2>2. ControlTypes'
    BY <1>1, <1>2, <1>4, <2>1, OnwardsTypes, Zenon DEF ControlTypes
  <2> QED
    BY <1>1, <1>3, <1>4, <1>5, <1>7, <2>1, <2>2, TurnEnds, Zenon DEF Slot
<1> QED
  BY <1>6, <1>7

LEMMA RecallKeeps ==
  ASSUME DInv, NEW d \in Deployment, Recall(d)
  PROVE  DInv'
<1>1. /\ At(d, tick.pc) /\ tick.pc = "recall" /\ ManagerCancel(d)
      /\ Onwards(d, tick.busy \cup {d}) /\ starting' = starting \ {d}
      /\ UNCHANGED <<dep, queue, misses, cancels, agent, faults>>
  BY Zenon DEF Recall, At
<1>2. ControlTypes /\ NodeTypes /\ tick.busy \subseteq Deployment /\ dep[d].status = "running"
  BY <1>1 DEF DInv, ControlTypes, TickState, HandedOver
<1>3. /\ NodeTypes' /\ OneRun(d)' /\ Traced(d)'
      /\ \A x \in Deployment \ {d} :
           /\ run'[x] = run[x] /\ file'[x] = file[x] /\ killer'[x] = killer[x] /\ guest'[x] = guest[x]
           /\ x \in astray => x \in astray'
      /\ Held(d)' <=> Held(d)
      /\ agent = "up" /\ Held(d) => run'[d].reason # ""
  BY <1>1, ManagerCancelled, Zenon
<1>4. ControlTypes'
  BY <1>1, <1>2, OnwardsTypes, Zenon DEF ControlTypes
<1>5. faults' = 0 /\ Held(d)' => run'[d].reason # ""
  BY <1>1, <1>2, <1>3, Zenon DEF NodeTypes
<1> QED
  BY <1>1, <1>2, <1>3, <1>4, <1>5, TurnEnds, Zenon DEF Slot

\* A round begins or ends, or is forgotten.
LEMMA RoundKeeps ==
  ASSUME DInv, TickStart \/ TickEnd \/ ControlRestarts
  PROVE  DInv'
<1>1. UNCHANGED <<dep, queue, agent, run, file, killer, guest, astray>>
  BY Zenon DEF TickStart, TickEnd, ControlRestarts, node
<1>2. ControlTypes /\ NodeTypes
  BY DEF DInv
<1>3. /\ tick' \in TickState /\ tick'.busy = {} /\ tick'.pc \in {"idle", "round"}
      /\ tick'.follow \subseteq Rows(Slot) /\ tick'.dispatch \subseteq Rows(Active)
      /\ tick'.pc = "idle" \/ tick'.follow = Rows(Slot)
  <2>1. CASE tick' = NoTick
    BY <2>1, Zenon DEF NoTick, TickState
  <2>2. CASE TickStart
    BY <2>2, Zenon DEF TickStart, TickState, Rows, Slot, Active
  <2> QED
    BY <2>1, <2>2, Zenon DEF TickEnd, ControlRestarts
<1>4. starting' \subseteq Deployment /\ misses' \in [Deployment -> 0 .. MaxMisses - 1]
  BY <1>2, DeployAssumption, SMTT(20) DEF TickStart, TickEnd, ControlRestarts, ControlTypes
<1>5. /\ faults' \in Nat
      /\ faults' = 0 => faults = 0 /\ tick.pc \in {"idle", "round"} /\ UNCHANGED cancels
  BY <1>2 DEF TickStart, TickEnd, ControlRestarts, Fault, NodeTypes
<1>6. ControlTypes' /\ NodeTypes'
  BY <1>1, <1>2, <1>3, <1>4, <1>5, Zenon DEF ControlTypes, NodeTypes
<1>7. Queued'
  <2>1. /\ \A d \in tick'.follow \cup tick'.dispatch : dep[d].status # "none"
        /\ \A d \in tick'.follow : dep[d].status \notin {"queued", "waiting"}
    BY <1>3 DEF Rows, Slot, Active
  <2> QED
    BY <1>1, <2>1, Zenon DEF DInv, Queued
<1>8. \A x, pc : pc \in {"start", "record", "recall"} => ~At(x, pc)'
  BY <1>3 DEF At
<1>9. HandedOver'
  BY <1>8 DEF HandedOver
<1>10. ASSUME NEW x \in Deployment
       PROVE  Sound(x)'
  <2>1. Untouched(x) /\ OneRun(x) /\ Traced(x) /\ CancelKept(x)
    BY DEF DInv, Sound
  <2>2. ~At(x, "start")' /\ ~At(x, "record")' /\ ~At(x, "recall")'
    BY <1>8, Zenon
  <2>3. Untouched(x)' /\ OneRun(x)' /\ Traced(x)'
    BY <1>1, <2>1, <2>2, Zenon DEF Untouched, OneRun, Traced, Held
  <2>4. faults' = 0 => ~At(x, "start") /\ ~At(x, "record") /\ ~At(x, "recall")
    BY <1>5 DEF At
  <2>5. CancelKept(x)'
    BY <1>1, <1>5, <2>1, <2>2, <2>4, Zenon DEF CancelKept, Held
  <2> QED
    BY <2>3, <2>5 DEF Sound
<1>11. Slots'
  <2>1. Rows(Slot)' = Rows(Slot)
    BY <1>1, Zenon DEF Rows
  <2>2. RowLimits'
    BY <1>1 DEF DInv, Slots, RowLimits, Rows
  <2>3. IsFiniteSet(tick'.busy)
    BY <1>3, FS_EmptySet, Zenon
  <2> QED
    BY <1>3, <2>1, <2>2, <2>3 DEF DInv, Slots
<1> QED
  BY <1>6, <1>7, <1>9, <1>10, <1>11 DEF DInv

-----------------------------------------------------------------------------
\* A request touches one row.
LEMMA RowStep ==
  ASSUME DInv, NEW d \in Deployment,
         UNCHANGED <<tick, starting, misses, agent, run, file, killer, guest, faults, astray>>,
         dep' \in [Deployment -> RowState], queue' \in Seq(Deployment),
         \A x \in Deployment \ {d} : dep'[x] = dep[x] /\ (x \in cancels => x \in cancels'),
         \A x, pc : At(x, pc)' <=> At(x, pc),
         Queued', Sound(d)',
         dep'[d].status # dep[d].status => dep[d].status \notin Slot /\ dep'[d].status \notin Slot
  PROVE  DInv'
<1>1. ControlTypes' /\ NodeTypes'
  BY Zenon DEF DInv, ControlTypes, NodeTypes
<1>2. HandedOver'
  <2>1. \A x \in Deployment : dep[x].status \in Slot => dep'[x].status = dep[x].status
    BY Zenon
  <2> QED
    BY <2>1, Zenon DEF DInv, HandedOver, Slot
<1>3. ASSUME NEW x \in Deployment \ {d}
      PROVE  Sound(x)'
  <2>1. Untouched(x) /\ OneRun(x) /\ Traced(x) /\ CancelKept(x)
    BY DEF DInv, Sound
  <2>2. Untouched(x)' /\ OneRun(x)' /\ Traced(x)' /\ CancelKept(x)'
    BY <2>1, Zenon DEF Untouched, OneRun, Traced, CancelKept, Held
  <2> QED
    BY <2>2, Zenon DEF Sound
<1>4. Slots'
  <2>1. Rows(Slot)' = Rows(Slot)
    BY SMTT(20) DEF Rows
  <2>2. RowLimits'
    BY <2>1, Zenon DEF DInv, Slots, RowLimits, Slot, Within
  <2>3. \A x : At(x, tick.pc)' <=> At(x, tick.pc)
    <3>1. \A x : At(x, tick.pc)' <=> \E p : p = tick.pc /\ At(x, p)'
      BY DEF At, Oldest
    <3> QED
      BY <3>1, Zenon
  <2> QED
    BY <2>1, <2>2, <2>3, Zenon DEF DInv, Slots
<1> QED
  BY <1>1, <1>2, <1>3, <1>4 DEF DInv

LEMMA RequestsKeep ==
  ASSUME DInv, NEW d \in Deployment,
         enqueueDeployment(d) \/ cancelDeployment(d) \/ forceDeployment(d)
  PROVE  DInv'
<1>1. /\ ControlTypes /\ NodeTypes /\ dep[d] \in RowState
      /\ Untouched(d) /\ OneRun(d) /\ Traced(d) /\ CancelKept(d)
  BY DEF DInv, Sound, ControlTypes
<1>2. UNCHANGED <<tick, starting, misses, agent, run, file, killer, guest, faults, astray>>
  BY DEF enqueueDeployment, cancelDeployment, forceDeployment, node
<1>3. CASE enqueueDeployment(d)
  <2>1. /\ dep[d].status = "none" /\ queue' = Append(queue, d) /\ UNCHANGED cancels
        /\ dep' = [dep EXCEPT ![d] = [status |-> "queued", cancel |-> FALSE, force |-> FALSE]]
    BY <1>3, Zenon DEF enqueueDeployment
  <2>2. /\ dep' \in [Deployment -> RowState] /\ dep'[d].status = "queued"
        /\ \A x \in Deployment \ {d} : dep'[x] = dep[x]
    BY <1>1, <2>1 DEF ControlTypes, RowState, Statuses, Active
  <2>3. /\ queue' \in Seq(Deployment) /\ DOMAIN queue = 1 .. Len(queue) /\ Len(queue) \in Nat
        /\ DOMAIN queue' = 1 .. Len(queue) + 1 /\ DOMAIN queue' = DOMAIN queue \cup {Len(queue) + 1}
        /\ queue'[Len(queue) + 1] = d
        /\ \A i \in 1 .. Len(queue) : queue'[i] = queue[i]
    <3>1. queue \in Seq(Deployment)
      BY <1>1, Zenon DEF ControlTypes
    <3>2. Grown(Deployment, queue, d, queue')
      BY <2>1, <3>1, Appended, Zenon
    <3> QED
      BY <3>2, Zenon DEF Grown
  <2>4. d \notin tick.follow /\ d \notin tick.dispatch /\ \A i \in DOMAIN queue : queue[i] # d
    <3>1. dep[d].status = "none" /\ Queued
      BY <2>1, Zenon DEF DInv
    <3>2. d \notin tick.follow \cup tick.dispatch
      BY <3>1, Zenon DEF Queued
    <3>3. \A i \in DOMAIN queue : queue[i] # d
      BY <3>1, Zenon DEF Queued
    <3> QED
      BY <3>2, <3>3, Zenon
  <2>5. ASSUME NEW x, NEW pc
        PROVE  At(x, pc)' <=> At(x, pc)
    <3> DEFINE L == IF tick.follow # {} THEN tick.follow ELSE tick.dispatch
    <3>1. d \notin L
      BY <2>4, Zenon
    <3>2. At(x, pc) <=> /\ tick.pc = pc /\ x \in L
                        /\ \E i \in DOMAIN queue : queue[i] = x /\ \A j \in 1 .. i - 1 : queue[j] \notin L
      BY DEF At, Oldest
    <3>3. At(x, pc)' <=> /\ tick.pc = pc /\ x \in L
                         /\ \E i \in DOMAIN queue' : queue'[i] = x /\ \A j \in 1 .. i - 1 : queue'[j] \notin L
      BY <1>2, Zenon DEF At, Oldest
    <3> HIDE DEF L
    <3>4. ASSUME x \in L, NEW i \in DOMAIN queue, queue[i] = x, \A j \in 1 .. i - 1 : queue[j] \notin L
          PROVE  i \in DOMAIN queue' /\ queue'[i] = x /\ \A j \in 1 .. i - 1 : queue'[j] \notin L
      BY <2>3, <3>4
    <3>5. ASSUME x \in L, NEW i \in DOMAIN queue', queue'[i] = x, \A j \in 1 .. i - 1 : queue'[j] \notin L
          PROVE  i \in DOMAIN queue /\ queue[i] = x /\ \A j \in 1 .. i - 1 : queue[j] \notin L
      <4>1. i # Len(queue) + 1
        BY <2>3, <3>1, <3>5, Zenon
      <4>2. i \in 1 .. Len(queue)
        BY <2>3, <3>5, <4>1, Zenon
      <4> QED
        BY <2>3, <3>5, <4>2
    <3> QED
      BY <3>2, <3>3, <3>4, <3>5
  <2>6. Queued'
    <3>1. \A x \in Deployment : dep'[x].status # "none" <=> \E i \in DOMAIN queue' : queue'[i] = x
      <4>1. TAKE x \in Deployment
      <4>2. CASE x = d
        BY <2>2, <2>3, <4>2, Zenon
      <4>3. CASE x # d
        <5>1. dep[x].status # "none" <=> \E i \in DOMAIN queue : queue[i] = x
          BY Zenon DEF DInv, Queued
        <5> QED
          BY <2>2, <2>3, <4>3, <5>1, Zenon
      <4> QED
        BY <4>2, <4>3, Zenon
    <3>2. \A i, j \in DOMAIN queue' : queue'[i] = queue'[j] => i = j
      <4>1. \A i, j \in DOMAIN queue : queue[i] = queue[j] => i = j
        BY Zenon DEF DInv, Queued
      <4> QED
        BY <2>3, <2>4, <4>1, Zenon
    <3>3. /\ \A x \in tick.follow \cup tick.dispatch : dep'[x].status # "none"
          /\ \A x \in tick.follow : dep'[x].status \notin {"queued", "waiting"}
      <4>1. tick.follow \cup tick.dispatch \subseteq Deployment \ {d}
        BY <1>1, <2>4 DEF ControlTypes, TickState
      <4> QED
        BY <2>2, <4>1, Zenon DEF DInv, Queued
    <3> QED
      BY <1>2, <3>1, <3>2, <3>3, Zenon DEF Queued
  <2>7. Untouched(d)' /\ OneRun(d)' /\ Traced(d)' /\ CancelKept(d)'
    BY <1>1, <1>2, <2>1, <2>2, Zenon DEF Untouched, OneRun, Traced, CancelKept, Held, Done
  <2> QED
    BY <1>2, <2>1, <2>2, <2>3, <2>5, <2>6, <2>7, RowStep, Zenon DEF Sound, Slot
<1>4. CASE cancelDeployment(d) \/ forceDeployment(d)
  <2>1. /\ UNCHANGED queue /\ dep[d].status \in Active
        /\ \A x \in Deployment \ {d} : x \in cancels => x \in cancels'
        /\ d \in cancels => d \in cancels'
    BY <1>4, Zenon DEF cancelDeployment, forceDeployment, Active
  <2>2. /\ dep' \in [Deployment -> RowState]
        /\ \A x \in Deployment \ {d} : dep'[x] = dep[x]
        /\ \/ dep'[d].status = dep[d].status
           \/ dep[d].status \in {"queued", "waiting"} /\ dep'[d].status = "cancelled"
        /\ dep'[d].cancel /\ dep'[d].status = "running" => dep[d].cancel \/ d \in cancels'
    <3>1. CASE cancelDeployment(d)
      <4> DEFINE s == IF dep[d].status \in {"queued", "waiting"} THEN "cancelled" ELSE dep[d].status
                 q == [dep[d] EXCEPT !.cancel = TRUE]
                 r == [q EXCEPT !.status = s]
      <4>1. q \in RowState /\ s \in Statuses
        BY <1>1, Zenon DEF RowState, Statuses, Done
      <4>2. dep' = [dep EXCEPT ![d] = r] /\ cancels' = IF dep[d].status = "running" THEN cancels \cup {d} ELSE cancels
        BY <1>1, <3>1, Zenon DEF cancelDeployment, ControlTypes
      <4>3. s = dep[d].status \/ (dep[d].status \in {"queued", "waiting"} /\ s = "cancelled")
        OBVIOUS
      <4> HIDE DEF q, s
      <4>4. r \in RowState /\ r.status = s
        BY <4>1 DEF RowState
      <4>5. /\ dep' \in [Deployment -> RowState] /\ dep'[d].status = s
            /\ \A x \in Deployment \ {d} : dep'[x] = dep[x]
        BY <1>1, <4>2, <4>4 DEF ControlTypes
      <4> QED
        BY <4>2, <4>3, <4>5
    <3>2. CASE forceDeployment(d)
      <4>1. dep' = [dep EXCEPT ![d].force = TRUE] /\ dep[d].status \in {"queued", "waiting"}
        BY <3>2 DEF forceDeployment
      <4>2. dep' \in [Deployment -> RowState] /\ dep'[d].status = dep[d].status
            /\ \A x \in Deployment \ {d} : dep'[x] = dep[x]
        BY <1>1, <4>1, Zenon DEF ControlTypes, RowState
      <4> QED
        BY <4>1, <4>2
    <3> QED
      BY <1>4, <3>1, <3>2
  <2>3. \A x, pc : At(x, pc)' <=> At(x, pc)
    BY <1>2, <2>1, AtKept
  <2>4. Queued'
    <3>1. /\ \A x \in Deployment : dep'[x].status # "none" <=> dep[x].status # "none"
          /\ \A x \in Deployment : dep'[x].status \in {"queued", "waiting"} => dep[x].status \in {"queued", "waiting"}
      BY <2>2
    <3>2. tick.follow \cup tick.dispatch \subseteq Deployment
      BY <1>1, Zenon DEF ControlTypes, TickState
    <3>3. /\ \A x \in tick.follow \cup tick.dispatch : dep'[x].status # "none"
          /\ \A x \in tick.follow : dep'[x].status \notin {"queued", "waiting"}
      BY <3>1, <3>2, Zenon DEF DInv, Queued
    <3> QED
      BY <1>2, <2>1, <3>1, <3>3, Zenon DEF DInv, Queued
  <2>5. Untouched(d)' /\ OneRun(d)'
    <3>1. CASE dep'[d].status = dep[d].status
      BY <1>1, <1>2, <2>3, <3>1, Zenon DEF Untouched, OneRun, Held
    <3>2. CASE dep[d].status \in {"queued", "waiting"} /\ dep'[d].status = "cancelled"
      BY <1>1, <1>2, <2>3, <3>2, Zenon DEF Untouched, OneRun, Held
    <3> QED
      BY <2>2, <3>1, <3>2
  <2>6. Traced(d)'
    <3>1. CASE dep'[d].status = dep[d].status
      BY <1>1, <1>2, <3>1, Zenon DEF Traced, Held
    <3>2. CASE dep[d].status \in {"queued", "waiting"}
      <4>1. ~Held(d) /\ guest[d] = "none"
        BY <1>1, <3>2, Zenon DEF Untouched, OneRun
      <4> QED
        BY <1>1, <1>2, <4>1, Zenon DEF Traced, Held
    <3> QED
      BY <2>2, <3>1, <3>2
  <2>7. CancelKept(d)'
    BY <1>1, <1>2, <2>1, <2>2, <2>3, Zenon DEF CancelKept, Held
  <2> QED
    BY <1>2, <2>1, <2>2, <2>3, <2>4, <2>5, <2>6, <2>7, RowStep, Zenon DEF Sound, Slot, ControlTypes, DInv
<1> QED
  BY <1>3, <1>4, Zenon

-----------------------------------------------------------------------------
\* The agent forgets its runs, or comes back; a backup starts or ends.
LEMMA AgentKeeps ==
  ASSUME DInv, AgentStops \/ AgentStarts \/ BackupStarts \/ BackupEnds \/ UNCHANGED vars
  PROVE  DInv'
<1>1. /\ UNCHANGED <<dep, queue, tick, starting, misses, cancels, file, guest, astray>>
      /\ ControlTypes /\ NodeTypes
  BY Zenon DEF DInv, AgentStops, AgentStarts, BackupStarts, BackupEnds, vars, control, node
<1>2. /\ faults' \in Nat
      /\ faults' = 0 => faults = 0 /\ UNCHANGED <<run, killer>> /\ (agent' = agent \/ agent' = "up")
      /\ \/ UNCHANGED <<run, killer>> /\ (agent' = agent \/ agent' = "up")
         \/ /\ agent' = "down" /\ run' = [d \in Deployment |-> NoRun]
            /\ killer' = [d \in Deployment |-> NoKiller]
  BY <1>1 DEF AgentStops, AgentStarts, BackupStarts, BackupEnds, vars, node, Fault, NodeTypes
<1>3. NoRun \in RunState /\ NoRun.pc = "none" /\ ~NoRun.cancel /\ NoKiller \in KillState /\ NoKiller.pc = "none"
  BY Zenon DEF NoRun, NoKiller, RunState, KillState, Mode
<1>4. ControlTypes' /\ NodeTypes'
  <2>1. run' \in [Deployment -> RunState] /\ killer' \in [Deployment -> KillState]
    BY <1>1, <1>2, <1>3, Zenon DEF NodeTypes
  <2>2. agent' \in {"up", "down"} /\ (agent' = "down" => \A d \in Deployment : run'[d] = NoRun)
    BY <1>1, <1>2 DEF NodeTypes
  <2> QED
    BY <1>1, <1>2, <2>1, <2>2, Zenon DEF ControlTypes, NodeTypes
<1>5. \A x, pc : At(x, pc)' <=> At(x, pc)
  BY <1>1, AtKept, Zenon
<1>6. HandedOver'
  BY <1>1, <1>5, Zenon DEF DInv, HandedOver
<1>7. Queued' /\ Slots'
  BY <1>1, RowsKept, Zenon
<1>8. ASSUME NEW x \in Deployment
      PROVE  Sound(x)'
  <2>1. Untouched(x) /\ OneRun(x) /\ Traced(x) /\ CancelKept(x)
    BY DEF DInv, Sound
  <2>2. CASE UNCHANGED <<run, killer>>
    <3>1. Untouched(x)' /\ OneRun(x)' /\ Traced(x)' /\ CancelKept(x)'
      BY <1>1, <1>2, <1>5, <2>1, <2>2, Zenon DEF Untouched, OneRun, Traced, CancelKept, Held
    <3> QED
      BY <3>1 DEF Sound
  <2>3. CASE run' = [d \in Deployment |-> NoRun] /\ killer' = [d \in Deployment |-> NoKiller] /\ ~UNCHANGED <<run, killer>>
    <3>1. run'[x].pc = "none" /\ ~run'[x].cancel /\ killer'[x].pc = "none" /\ faults' # 0
      BY <1>2, <1>3, <2>3
    <3>2. Untouched(x)' /\ OneRun(x)' /\ CancelKept(x)'
      BY <1>1, <1>5, <2>1, <3>1, Zenon DEF Untouched, OneRun, CancelKept, Held
    <3>3. Traced(x)'
      <4>1. CASE Held(x)
        BY <1>1, <2>1, <3>1, <4>1, Zenon DEF OneRun, Traced, Held
      <4>2. CASE ~Held(x)
        BY <1>1, <2>1, <3>1, <4>2, Zenon DEF Traced, Held
      <4> QED
        BY <4>1, <4>2
    <3> QED
      BY <3>2, <3>3, Zenon DEF Sound
  <2> QED
    BY <1>2, <2>2, <2>3
<1> QED
  BY <1>4, <1>6, <1>7, <1>8 DEF DInv

LEMMA NextKeeps ==
  ASSUME DInv, [Next]_vars
  PROVE  DInv'
<1>1. CASE Worker
  BY <1>1, RoundKeeps, SuperviseKeeps, AdoptKeeps, WaitOrPassKeeps, StartDeploymentKeeps, StartKeeps,
     RecordKeeps, RecallKeeps, Zenon DEF Worker
<1>2. ASSUME NEW d \in Deployment,
             \/ enqueueDeployment(d) \/ cancelDeployment(d) \/ forceDeployment(d) \/ CancelCall(d)
             \/ RunStep(d) \/ KillStep(d) \/ Timeout(d) \/ GuestExits(d) \/ RuntimeMax(d)
      PROVE  DInv'
  BY <1>2, RequestsKeep, CancelCallKeeps, RunKeeps, KillKeeps
<1>3. CASE ControlRestarts \/ AgentStops \/ AgentStarts \/ BackupStarts \/ BackupEnds \/ UNCHANGED vars
  BY <1>3, RoundKeeps, AgentKeeps
<1> QED
  BY <1>1, <1>2, <1>3, Zenon DEF Next

-----------------------------------------------------------------------------
\* The inductive invariant: while the worker hands a deployment over its row
\* says starting; a run the manager holds has a status file that says
\* running; its processes start once; and what takes a slot is counted.
THEOREM Inductive == Spec => []DInv
<1>1. Init => DInv
  BY InitHolds
<1>2. DInv /\ [Next]_vars => DInv'
  BY NextKeeps
<1> QED
  BY <1>1, <1>2, PTL DEF Spec

\* Types: the queue holds exactly the deployments that were ever queued, each
\* once, and a run the manager holds has a status file that says running.
THEOREM Types == Spec => []TypeOK
<1>1. ASSUME DInv PROVE TypeOK
  <2>1. /\ dep \in [Deployment -> RowState] /\ queue \in Seq(Deployment) /\ tick \in TickState
        /\ starting \subseteq Deployment /\ misses \in [Deployment -> 0 .. MaxMisses - 1]
    BY <1>1, Zenon DEF DInv, ControlTypes
  <2>2. Range(queue) = {d \in Deployment : dep[d].status # "none"}
    <3>1. \A i \in DOMAIN queue : queue[i] \in Deployment
      BY <2>1
    <3> QED
      BY <1>1, <3>1 DEF DInv, Queued, Range
  <2>3. IsInjective(queue)
    BY <1>1 DEF DInv, Queued, IsInjective
  <2>4. ASSUME NEW d \in Deployment
        PROVE  /\ run[d].pc \in {"none", "new", "prepare", "attach", "stream", "finish"}
               /\ run[d].pc # "none" => file[d].state = "running"
               /\ file[d].state \in {"none", "running"} \cup Done
               /\ guest[d] \in {"none", "alive", "ok", "bad", "killed"}
    <3>1. run[d] \in RunState /\ file[d] \in FileState /\ guest[d] \in GuestState /\ OneRun(d)
      BY <1>1, Zenon DEF DInv, NodeTypes, Sound
    <3> QED
      BY <3>1, Zenon DEF RunState, FileState, GuestState, OneRun, Held
  <2>5. agent = "down" => \A d \in Deployment : run[d] = NoRun
    BY <1>1 DEF DInv, NodeTypes
  <2> QED
    BY <2>1, <2>2, <2>3, <2>4, <2>5 DEF TypeOK, RowState, Statuses, TickState
<1> QED
  BY <1>1, Inductive, PTL

\* The limits of dispatchDeployments, in all and per container, hold for any
\* number of deployments and whatever restarts in between.
THEOREM Limits == Spec => []RowLimits
<1>1. DInv => RowLimits
  BY DEF DInv, Slots
<1> QED
  BY <1>1, Inductive, PTL

\* A deployment whose row says succeeded ran its commands to exit code 0, for
\* any number of deployments and whatever restarts or gets lost in between.
THEOREM Success == Spec => []SuccessIsReal
<1>1. DInv => SuccessIsReal
  BY Zenon DEF DInv, Sound, OneRun, SuccessIsReal
<1> QED
  BY <1>1, Inductive, PTL

\* What is over has no processes left, except the deployments that somebody
\* lost sight of or stopped too early.
THEOREM Strays == Spec => []NoStrays
<1>1. DInv => NoStrays
  BY Zenon DEF DInv, Sound, Traced, NoStrays
<1> QED
  BY <1>1, Inductive, PTL

\* A cancel that comes while a deployment is handed over reaches its run, as
\* long as nothing failed.
THEOREM Cancels == Spec => []CancelArrives
<1>1. DInv => CancelArrives
  BY Zenon DEF DInv, Sound, CancelKept, CancelArrives
<1> QED
  BY <1>1, Inductive, PTL

LEMMA FinalStep ==
  ASSUME DInv, [Next]_vars, NEW x \in Deployment, dep[x].status \in Done
  PROVE  dep'[x].status = dep[x].status
<1>1. ASSUME NEW d \in Deployment, NEW s, Status(d, s), dep[d].status \notin Done
      PROVE  dep'[x].status = dep[x].status
  BY <1>1, Zenon DEF Status, DInv, ControlTypes
<1>2. ASSUME NEW d \in Deployment,
             enqueueDeployment(d) \/ cancelDeployment(d) \/ forceDeployment(d)
      PROVE  dep'[x].status = dep[x].status
  <2>1. dep[d].status \notin Done /\ \A y \in Deployment \ {d} : dep'[y] = dep[y]
    BY <1>2, Zenon DEF enqueueDeployment, cancelDeployment, forceDeployment, DInv, ControlTypes, Active, Done
  <2> QED
    BY <2>1, Zenon
<1>3. ASSUME NEW d \in Deployment, Supervise(d) \/ Adopt(d)
      PROVE  dep'[x].status = dep[x].status
  <2>1. dep[d].status \notin Done
    BY <1>3, Zenon DEF Supervise, Adopt, Done
  <2>2. UNCHANGED dep \/ \E s \in {"running", "interrupted", StatusOf(d)} : Status(d, s)
    BY <1>3, Zenon DEF Supervise, Adopt
  <2> QED
    BY <1>1, <2>1, <2>2
<1>4. ASSUME NEW d \in Deployment, markWaiting(d) \/ startDeployment(d)
      PROVE  dep'[x].status = dep[x].status
  <2>1. dep[d].status \notin Done
    BY <1>4 DEF markWaiting, startDeployment, Done
  <2>2. Status(d, "waiting") \/ Status(d, "starting")
    BY <1>4 DEF markWaiting, startDeployment
  <2> QED
    BY <1>1, <2>1, <2>2
<1>5. ASSUME NEW d \in Deployment, Start(d)
      PROVE  dep'[x].status = dep[x].status
  <2>1. dep[d].status \notin Done
    BY <1>5 DEF Start, DInv, HandedOver, Done
  <2>2. UNCHANGED dep \/ dep' = [dep EXCEPT ![d].status = "failed", ![d].cancel = FALSE]
    BY <1>5 DEF Start
  <2>3. \A y \in Deployment \ {d} : dep'[y] = dep[y]
    BY <2>2, Zenon DEF DInv, ControlTypes
  <2> QED
    BY <2>1, <2>3
<1>6. ASSUME NEW d \in Deployment, Record(d)
      PROVE  dep'[x].status = dep[x].status
  <2>1. dep[d].status \notin Done /\ Status(d, "running")
    BY <1>6 DEF Record, DInv, HandedOver, Done
  <2> QED
    BY <1>1, <2>1
<1>7. CASE UNCHANGED dep
  BY <1>7
<1>8. CASE Worker
  BY <1>3, <1>4, <1>5, <1>6, <1>7, <1>8, Zenon DEF Worker, TickStart, TickEnd, Passed, Recall
<1>9. ASSUME NEW d \in Deployment,
             CancelCall(d) \/ RunStep(d) \/ KillStep(d) \/ Timeout(d) \/ GuestExits(d) \/ RuntimeMax(d)
      PROVE  UNCHANGED dep
  BY <1>9, Zenon DEF CancelCall, RunStep, KillStep, Timeout, GuestExits, RuntimeMax, Execute, Prepare,
              Stream, Marker, Detach, finish, Kill, CancelContext, control
<1>10. CASE ControlRestarts \/ AgentStops \/ AgentStarts \/ BackupStarts \/ BackupEnds \/ UNCHANGED vars
  BY <1>7, <1>10, Zenon DEF ControlRestarts, AgentStops, AgentStarts, BackupStarts, BackupEnds, vars, control
<1> QED
  BY <1>2, <1>7, <1>8, <1>9, <1>10 DEF Next

\* No step of the worker, of a request or of a restart changes the final
\* status of a deployment.
THEOREM FinalStatus == Spec => FinalStays
<1>1. DInv /\ [Next]_vars =>
        [\A d \in Deployment : dep[d].status \in Done => dep'[d].status = dep[d].status]_vars
  BY FinalStep
<1> QED
  BY <1>1, Inductive, PTL DEF Spec, FinalStays
=============================================================================
