------------------------------ MODULE Control ------------------------------
(***************************************************************************)
(* The control-plane processes and the writer lease they hold             *)
(* (internal/control/run.go, internal/control/lease.go, the lease table   *)
(* of internal/appdb and the operator's fence and promote of              *)
(* internal/httpapi/phase34.go).                                          *)
(*                                                                         *)
(* A process is one incarnation: its holder id carries a random token, so *)
(* a restarted control plane is a new member of Process.  It acquires the *)
(* lease once, at start; afterwards it only renews it, and it ignores a   *)
(* renewal that fails.  A paused process therefore comes back working     *)
(* although another one has taken the lease in the meantime.              *)
(***************************************************************************)
EXTENDS Naturals

CONSTANTS Process,      \* incarnations of the control plane
          Nobody,       \* no process
          MaxMishaps    \* bound: crashes, pauses, fences, failed writes

ASSUME ProcessAssumption == Nobody \notin Process /\ MaxMishaps \in Nat

VARIABLES proc,         \* where each incarnation is in its life
          writer,       \* the row of cluster_leases
          mishaps       \* how many faults have happened

controlVars == <<proc, writer, mishaps>>

ControlTypeOK ==
  /\ proc \in [Process -> {"new", "up", "stopping", "paused", "down"}]
  /\ writer \in [holder: Process \cup {Nobody}, live: BOOLEAN, fenced: BOOLEAN]
  /\ mishaps \in 0 .. MaxMishaps

ControlInit ==
  /\ proc = [p \in Process |-> "new"]
  /\ writer = [holder |-> Nobody, live |-> FALSE, fenced |-> FALSE]
  /\ mishaps = 0

\* A process that executes code: it serves requests until it has stopped.
Up(p) == proc[p] \in {"up", "stopping"}

Mishap == mishaps < MaxMishaps /\ mishaps' = mishaps + 1

-----------------------------------------------------------------------------
\* The upsert's WHERE: our own unfenced row, an expired unfenced row, or a
\* row that was fenced from somebody else.  No row at all is an insert.
CanAcquire(p) ==
  \/ writer.holder = Nobody
  \/ writer.holder = p /\ ~writer.fenced
  \/ ~writer.live /\ ~writer.fenced
  \/ writer.fenced /\ writer.holder # p

AcquireLease(p) ==
  /\ CanAcquire(p)
  /\ writer' = [holder |-> p, live |-> TRUE, fenced |-> FALSE]

\* control.Run: a process that cannot acquire the lease exits and is started
\* again, so it stays "new".
Boot(p) ==
  /\ proc[p] = "new"
  /\ AcquireLease(p)
  /\ proc' = [proc EXCEPT ![p] = "up"]
  /\ UNCHANGED mishaps

\* renewOnce; a renewal that is refused changes nothing.  The renewals go on
\* while a stopping process drains.
Renew(p) ==
  /\ Up(p)
  /\ writer # [holder |-> p, live |-> TRUE, fenced |-> FALSE]
  /\ AcquireLease(p)
  /\ UNCHANGED <<proc, mishaps>>

\* The TTL passes without a renewal: the holder renews while it is up.
LeaseRunsOut ==
  /\ writer.live
  /\ \A p \in Process : writer.holder = p => ~Up(p)
  /\ writer' = [writer EXCEPT !.live = FALSE]
  /\ UNCHANGED <<proc, mishaps>>

\* fenceClusterHA: FenceLease expires the row and marks it; an absent row is
\* left absent.
Fence ==
  /\ \E p \in Process : proc[p] = "up"
  /\ writer.holder # Nobody
  /\ writer' = [writer EXCEPT !.live = FALSE, !.fenced = TRUE]
  /\ Mishap
  /\ UNCHANGED proc

\* promoteClusterHA on process p: refused while another holder is live and
\* unfenced, and AcquireLease has the last word.
Promote(p) ==
  /\ proc[p] = "up"
  /\ ~(writer.live /\ ~writer.fenced /\ writer.holder # p)
  /\ writer # [holder |-> p, live |-> TRUE, fenced |-> FALSE]
  /\ AcquireLease(p)
  /\ UNCHANGED <<proc, mishaps>>

\* A signal: shutdownSignals ends the run context, work in flight drains.
Shutdown(p) ==
  /\ proc[p] = "up"
  /\ Mishap
  /\ proc' = [proc EXCEPT ![p] = "stopping"]
  /\ UNCHANGED writer

\* relinquish: the row goes only if it is still ours.
Exit(p) ==
  /\ proc[p] = "stopping"
  /\ proc' = [proc EXCEPT ![p] = "down"]
  /\ writer' = IF writer.holder = p
               THEN [holder |-> Nobody, live |-> FALSE, fenced |-> FALSE]
               ELSE writer
  /\ UNCHANGED mishaps

Crash(p) ==
  /\ proc[p] \in {"up", "stopping", "paused"}
  /\ Mishap
  /\ proc' = [proc EXCEPT ![p] = "down"]
  /\ UNCHANGED writer

\* The whole process stands still (a suspended host, a long stop of the
\* world) and comes back, long enough for its leases to run out.
Pause(p) ==
  /\ proc[p] = "up"
  /\ Mishap
  /\ proc' = [proc EXCEPT ![p] = "paused"]
  /\ UNCHANGED writer

Resume(p) ==
  /\ proc[p] = "paused"
  /\ proc' = [proc EXCEPT ![p] = "up"]
  /\ UNCHANGED <<writer, mishaps>>

\* What happens to the processes and the writer lease without touching any
\* work a process has in flight.
ControlStep ==
  \/ \E p \in Process : Boot(p) \/ Renew(p) \/ Promote(p) \/ Shutdown(p)
  \/ \E p \in Process : Pause(p) \/ Resume(p)
  \/ LeaseRunsOut
  \/ Fence
=============================================================================
