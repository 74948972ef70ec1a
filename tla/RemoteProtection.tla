-------------------------- MODULE RemoteProtection --------------------------
(***************************************************************************)
(* How restore points become protected off the host, and stop being so:    *)
(* the persistent upload queue and its workers, expiry of local and remote *)
(* copies, and maintenance (collection, compaction, remote sweep), all of  *)
(* which share the repository index, the uploaded-pack index, the sweep    *)
(* candidates and one object store, and mostly without a common lock.      *)
(*                                                                         *)
(* The local repository appears here at the grain at which the queue sees  *)
(* it; module Repository has its file operations.  A pack is the set of    *)
(* its chunks, and the empty pack id is the manifest job, as in jobName.   *)
(***************************************************************************)
EXTENDS Integers, Sequences, FiniteSets, Functions

CONSTANTS
  Chunk,       \* chunk identities
  Point,       \* restore points
  Need,        \* Need[p]: the chunks the manifest of p names
  Worker,      \* upload workers of the target's queue
  Bytes(_),    \* the stored size of a set of chunks
  Repack,      \* whether collections compact (RepackLiveRatio > 0)
  Remote,      \* points whose policy has a backup target
  Pausable,    \* points whose policy an operator may pause
  Expirable,   \* points that retention may expire
  RemoteOnly,  \* points whose remote copy may be expired before the local one
  MaxCrashes   \* bound on process crashes

ASSUME NeedAssumption == Need \in [Point -> (SUBSET Chunk) \ {{}}]

VARIABLES
  local,     \* packs in the local repository
  index,     \* the chunk index: a function from known chunks to packs
  snaps,     \* points whose manifest (.snap) is in the local repository
  status,    \* status[p]: the .state sidecar's remote state, or no sidecar
  own,       \* own[p]: the packs that p's capture committed
  jobs,      \* jobs[p]: the .job files of p
  parked,    \* parked[p]: the .failed files of p
  order,     \* points by the age of their job files, oldest first
  enq,       \* enq[p]: how far an enqueue of p has come
  work,      \* work[w]: what worker w is doing
  rpacks,    \* pack objects on the target
  rman,      \* points whose manifest object is on the target
  rloc,      \* rloc[p]: the packs p's location map object names, {} if none
  uploaded,  \* the uploaded-pack index of the target
  cands,     \* the sweep candidates of the target
  exp,       \* exp[p]: the expiry request for p
  maint,     \* the maintenance run (runGC)
  crashes

repoVars   == <<local, index, snaps, own>>
queueVars  == <<jobs, parked, order, enq>>
remoteVars == <<rpacks, rman, rloc>>
vars == <<local, index, snaps, status, own, jobs, parked, order, enq, work,
          rpacks, rman, rloc, uploaded, cands, exp, maint, crashes>>

Pack == (SUBSET Chunk) \ {{}}
ManifestJob == {}

IdleWorker == [pc |-> "idle", p |-> "none", job |-> {}, needed |-> {},
               k |-> {}, loc |-> {}]
NoExpiry == [pc |-> "no", only |-> FALSE, cands |-> {}]
IdleMaint == [pc |-> "idle", cands |-> {}, listed |-> {}, maps |-> {},
              refs |-> {}, todo |-> {}, remaining |-> {}, old |-> {}, k |-> {}]

WorkState ==
  [pc : {"idle", "read", "put", "mark", "complete", "known", "loop", "locmap",
         "putman", "putloc", "protect"},
   p : Point \cup {"none"}, job : SUBSET Chunk, needed : SUBSET Pack,
   k : SUBSET Chunk, loc : SUBSET Pack]
ExpiryState ==
  [pc : {"no", "jobs", "get", "save", "delman", "delloc", "setstate", "retry",
         "done"},
   only : BOOLEAN, cands : SUBSET Pack]
MaintState ==
  [pc : {"idle", "purge", "load", "list", "refs", "lock", "del", "forget"},
   cands : SUBSET Pack, listed : SUBSET Pack, maps : SUBSET Point,
   refs : SUBSET Pack, todo : SUBSET Pack, remaining : SUBSET Pack,
   old : SUBSET Pack, k : SUBSET Chunk]

(* LoadState succeeds: p has a sidecar, whether or not it has a manifest. *)
Present(p) == status[p] \notin {"none", "gone"}

(* referencedChunks: what the manifests name. *)
Referenced == UNION {Need[p] : p \in snaps}

(* Where the index finds the chunks C. *)
PacksOf(C) == {index[c] : c \in C \cap DOMAIN index}

(* packsFor: the packs a point needs, its own or shared. *)
packsFor(p) == PacksOf(Need[p])

(* Mutant: what local points need is not looked up. *)
referencedPacksNone == {}

(* referencedPacks: the packs in which local points have chunks. *)
referencedPacks == PacksOf(Referenced)

MostlyDead(k, ref) ==
  /\ k \cap ref # {}
  /\ 2 * Bytes(k \cap ref) < Bytes(k)

Init ==
  /\ local = {} /\ index = <<>> /\ snaps = {}
  /\ status = [p \in Point |-> "none"]
  /\ own = [p \in Point |-> {}]
  /\ jobs = [p \in Point |-> {}]
  /\ parked = [p \in Point |-> {}]
  /\ order = <<>>
  /\ enq = [p \in Point |-> "no"]
  /\ work = [w \in Worker |-> IdleWorker]
  /\ rpacks = {} /\ rman = {} /\ rloc = [p \in Point |-> {}]
  /\ uploaded = {} /\ cands = {}
  /\ exp = [p \in Point |-> NoExpiry]
  /\ maint = IdleMaint
  /\ crashes = 0

-----------------------------------------------------------------------------
(* Capture and enqueue. *)

(* The maintenance run holds the exclusive capture lock. *)
CaptureExcluded == maint.pc \in {"purge", "del", "forget"}

(* Mutant: a flush of nothing writes an empty pack. *)
newPacksOrEmpty(p) == {Need[p] \ DOMAIN index}

(* flush: the pack of what is new in p, and none when nothing is. *)
newPacks(p) == {Need[p] \ DOMAIN index} \ {{}}

(* A whole capture: it commits one pack with the chunks that are new. *)
Capture(p) ==
  LET new == Need[p] \ DOMAIN index
  IN  /\ ~CaptureExcluded
      /\ status[p] = "none"
      /\ local' = local \cup newPacks(p)
      /\ index' = [c \in DOMAIN index \cup new |->
                     IF c \in new THEN new ELSE index[c]]
      /\ own' = [own EXCEPT ![p] = newPacks(p)]
      /\ snaps' = snaps \cup {p}
      /\ status' = [status EXCEPT ![p] = "local-only"]
      /\ UNCHANGED <<queueVars, work, remoteVars, uploaded, cands, exp, maint,
                     crashes>>

(* enqueue loads the sidecar that it will hand to EnqueueBackup: at the    *)
(* end of a capture, and for pending uploads on resume.                    *)
enqueue(p) ==
  /\ p \in Remote
  /\ status[p] \in {"local-only", "queued", "uploading", "failed"}
  /\ enq[p] = "no"
  /\ enq' = [enq EXCEPT ![p] = "jobs"]
  /\ UNCHANGED <<repoVars, status, jobs, parked, order, work, remoteVars,
                 uploaded, cands, exp, maint, crashes>>

(* EnqueueBackup, first part: one job file per pack of the capture and one *)
(* for the manifest.  A .failed file of an earlier attempt stays.          *)
EnqueueJobs(p) ==
  /\ enq[p] = "jobs"
  /\ jobs' = [jobs EXCEPT ![p] = own[p] \cup {ManifestJob}]
  /\ order' = Append(SelectSeq(order, LAMBDA q : q # p), p)
  /\ enq' = [enq EXCEPT ![p] = "state"]
  /\ UNCHANGED <<repoVars, status, parked, work, remoteVars, uploaded, cands,
                 exp, maint, crashes>>

(* EnqueueBackup, second part: the state object it was given is written    *)
(* back as queued, whatever the sidecar says by now and even if an expiry  *)
(* has removed it.                                                         *)
EnqueueState(p) ==
  /\ enq[p] = "state"
  /\ enq' = [enq EXCEPT ![p] = "no"]
  /\ status' = [status EXCEPT ![p] = "queued"]
  /\ UNCHANGED <<repoVars, jobs, parked, order, work, remoteVars, uploaded,
                 cands, exp, maint, crashes>>

(* dequeue: a paused policy's pending uploads leave the queue.  The state  *)
(* is kept, and a job a worker has already read goes on.                   *)
dequeue(p) ==
  /\ p \in Pausable
  /\ status[p] \in {"queued", "uploading", "failed"}
  /\ jobs[p] \cup parked[p] # {}
  /\ jobs' = [jobs EXCEPT ![p] = {}]
  /\ parked' = [parked EXCEPT ![p] = {}]
  /\ UNCHANGED <<repoVars, status, order, enq, work, remoteVars, uploaded,
                 cands, exp, maint, crashes>>

-----------------------------------------------------------------------------
(* The queue's dispatcher and workers. *)

(* scan: the oldest point that has jobs and nothing parked. *)
Runnable(p) == jobs[p] # {} /\ parked[p] = {}
Oldest(p) ==
  /\ Runnable(p)
  /\ \E i \in DOMAIN order :
       /\ order[i] = p
       /\ \A j \in 1 .. i - 1 : ~Runnable(order[j])

InFlight(p, j) ==
  \E v \in Worker : work[v].pc # "idle" /\ work[v].p = p /\ work[v].job = j

(* scan hands a job to a worker; process drops it when its point is gone,  *)
(* and marks the point uploading otherwise.                                *)
process(w, p, j) ==
  /\ work[w].pc = "idle"
  /\ Oldest(p)
  /\ j \in jobs[p]
  /\ j = ManifestJob => jobs[p] = {ManifestJob}
  /\ ~InFlight(p, j)
  /\ \/ /\ ~Present(p)
        /\ jobs' = [jobs EXCEPT ![p] = @ \ {j}]
        /\ UNCHANGED <<status, work>>
     \/ /\ Present(p)
        /\ status' = IF status[p] \in {"queued", "failed"}
                     THEN [status EXCEPT ![p] = "uploading"] ELSE status
        /\ work' = [work EXCEPT ![w] =
                      [IdleWorker EXCEPT
                         !.p = p, !.job = j,
                         !.pc = IF j = ManifestJob THEN "complete"
                                ELSE "read"]]
        /\ UNCHANGED jobs
  /\ UNCHANGED <<repoVars, parked, order, enq, remoteVars, uploaded, cands,
                 exp, maint, crashes>>

(* done: the job file is removed. *)
Done(w) ==
  /\ jobs' = [jobs EXCEPT ![work[w].p] = @ \ {work[w].job}]
  /\ work' = [work EXCEPT ![w] = IdleWorker]

(* A pack job reads its pack file; a pack that is gone needs no upload. *)
readPack(w) ==
  /\ work[w].pc = "read"
  /\ \/ /\ work[w].job \in local
        /\ work' = [work EXCEPT ![w].pc = "put", ![w].k = work[w].job]
        /\ UNCHANGED jobs
     \/ work[w].job \notin local /\ Done(w)
  /\ UNCHANGED <<repoVars, status, parked, order, enq, remoteVars, uploaded,
                 cands, exp, maint, crashes>>

(* putPack, first part: the object is on the target. *)
putPack(w) ==
  /\ work[w].pc = "put"
  /\ rpacks' = rpacks \cup {work[w].k}
  /\ work' = [work EXCEPT ![w].pc = "mark"]
  /\ UNCHANGED <<repoVars, status, queueVars, rman, rloc, uploaded, cands, exp,
                 maint, crashes>>

(* MarkUploaded (a failed write, ignored, only costs another look-up); a   *)
(* pack job is then done, complete goes on with its loop.                  *)
MarkUploaded(w) ==
  /\ work[w].pc = "mark"
  /\ uploaded' = uploaded \cup {work[w].k}
  /\ \/ /\ work[w].job = ManifestJob
        /\ work' = [work EXCEPT ![w].pc = "loop",
                                ![w].needed = @ \ {work[w].k}]
        /\ UNCHANGED jobs
     \/ work[w].job # ManifestJob /\ Done(w)
  /\ UNCHANGED <<repoVars, status, parked, order, enq, remoteVars, cands, exp,
                 maint, crashes>>

(* complete: which packs does the point need, by the index as it is now.   *)
(* A point that was expired meanwhile is finished without an upload.       *)
completeNeeded(w) ==
  /\ work[w].pc = "complete"
  /\ \/ ~Present(work[w].p) /\ Done(w)
     \/ /\ Present(work[w].p) /\ work[w].p \in snaps
        /\ Need[work[w].p] \subseteq DOMAIN index
        /\ work' = [work EXCEPT ![w].pc = "known",
                                ![w].needed = packsFor(work[w].p)]
        /\ UNCHANGED jobs
  /\ UNCHANGED <<repoVars, status, parked, order, enq, remoteVars, uploaded,
                 cands, exp, maint, crashes>>

(* complete: LoadUploaded; packs listed there are taken as confirmed. *)
completeKnown(w) ==
  /\ work[w].pc = "known"
  /\ work' = [work EXCEPT ![w].pc = "loop", ![w].needed = @ \ uploaded]
  /\ UNCHANGED <<repoVars, status, queueVars, remoteVars, uploaded, cands, exp,
                 maint, crashes>>

(* complete: a needed pack is looked up on the target, and uploaded when   *)
(* it is not there.  It has to exist locally in any case.                  *)
completePack(w, k) ==
  /\ work[w].pc = "loop"
  /\ k \in work[w].needed
  /\ k \in local
  /\ work' = [work EXCEPT ![w].k = k,
                          ![w].pc = IF k \in rpacks THEN "mark" ELSE "put"]
  /\ UNCHANGED <<repoVars, status, queueVars, remoteVars, uploaded, cands, exp,
                 maint, crashes>>

(* complete: all packs are confirmed; the manifest is read, and the point  *)
(* is verifying, if it still has a sidecar.                                *)
completeVerifying(w) ==
  /\ work[w].pc = "loop"
  /\ work[w].needed = {}
  /\ work[w].p \in snaps
  /\ status' = IF Present(work[w].p)
               THEN [status EXCEPT ![work[w].p] = "verifying"] ELSE status
  /\ work' = [work EXCEPT ![w].pc = "locmap"]
  /\ UNCHANGED <<repoVars, queueVars, remoteVars, uploaded, cands, exp, maint,
                 crashes>>

(* complete: buildLocmap resolves the chunks against the index once more. *)
buildLocmap(w) ==
  /\ work[w].pc = "locmap"
  /\ work[w].p \in snaps
  /\ Need[work[w].p] \subseteq DOMAIN index
  /\ work' = [work EXCEPT ![w].pc = "putman",
                          ![w].loc = PacksOf(Need[work[w].p])]
  /\ UNCHANGED <<repoVars, status, queueVars, remoteVars, uploaded, cands, exp,
                 maint, crashes>>

(* complete: the manifest is uploaded and read back ... *)
putManifest(w) ==
  /\ work[w].pc = "putman"
  /\ rman' = rman \cup {work[w].p}
  /\ work' = [work EXCEPT ![w].pc = "putloc"]
  /\ UNCHANGED <<repoVars, status, queueVars, rpacks, rloc, uploaded, cands,
                 exp, maint, crashes>>

(* ... then the location map ... *)
putLocmap(w) ==
  /\ work[w].pc = "putloc"
  /\ rloc' = [rloc EXCEPT ![work[w].p] = work[w].loc]
  /\ work' = [work EXCEPT ![w].pc = "protect"]
  /\ UNCHANGED <<repoVars, status, queueVars, rpacks, rman, uploaded, cands,
                 exp, maint, crashes>>

(* ... and the point, if it still exists, is marked protected. *)
protect(w) ==
  /\ work[w].pc = "protect"
  /\ status' = IF Present(work[w].p)
               THEN [status EXCEPT ![work[w].p] = "protected"] ELSE status
  /\ Done(w)
  /\ UNCHANGED <<repoVars, parked, order, enq, remoteVars, uploaded, cands,
                 exp, maint, crashes>>

(* Mutant: a job that fails for the last time is dropped. *)
failForGood(w) ==
  LET p == work[w].p
      j == work[w].job
  IN  /\ work[w].pc \in {"complete", "loop", "locmap", "put", "putman",
                         "putloc", "protect"}
      /\ work' = [work EXCEPT ![w] = IdleWorker]
      /\ \/ UNCHANGED <<jobs, status>>
         \/ /\ jobs' = [jobs EXCEPT ![p] = @ \ {j}]
            /\ status' = IF Present(p) THEN [status EXCEPT ![p] = "failed"]
                         ELSE status
      /\ UNCHANGED <<repoVars, parked, order, enq, remoteVars, uploaded, cands,
                     exp, maint, crashes>>

(* fail: a remote call or a local lookup failed.  The job is retried, or,  *)
(* after its last attempt, parked with the point marked failed.            *)
fail(w) ==
  LET p == work[w].p
      j == work[w].job
  IN  /\ work[w].pc \in {"complete", "loop", "locmap", "put", "putman",
                         "putloc", "protect"}
      /\ work' = [work EXCEPT ![w] = IdleWorker]
      /\ \/ UNCHANGED <<jobs, parked, status>>
         \/ /\ parked' = [parked EXCEPT ![p] = @ \cup ({j} \cap jobs[p])]
            /\ jobs' = [jobs EXCEPT ![p] = @ \ {j}]
            /\ status' = IF Present(p) THEN [status EXCEPT ![p] = "failed"]
                         ELSE status
      /\ UNCHANGED <<repoVars, order, enq, remoteVars, uploaded, cands, exp,
                     maint, crashes>>

(* The dispatcher's re-arm timer: every parked job becomes a job again. *)
retryFailed ==
  /\ \E p \in Point : parked[p] # {}
  /\ jobs' = [p \in Point |-> jobs[p] \cup parked[p]]
  /\ parked' = [p \in Point |-> {}]
  /\ UNCHANGED <<repoVars, status, order, enq, work, remoteVars, uploaded,
                 cands, exp, maint, crashes>>

-----------------------------------------------------------------------------
(* Expiry. *)

(* expire, or a retry of one: the local copy, manifest and sidecar, goes   *)
(* first.                                                                  *)
expire(p) ==
  /\ p \in Expirable
  /\ exp[p].pc \in {"no", "retry"}
  /\ \/ Present(p)
     \/ exp[p].pc = "retry" /\ ~exp[p].only
  /\ snaps' = snaps \ {p}
  /\ status' = [status EXCEPT ![p] = "gone"]
  /\ exp' = [exp EXCEPT ![p] = [NoExpiry EXCEPT !.pc = "jobs"]]
  /\ UNCHANGED <<local, index, own, queueVars, work, remoteVars, uploaded,
                 cands, maint, crashes>>

(* expireRemoteOnly: the local copy stays. *)
expireRemoteOnly(p) ==
  /\ p \in RemoteOnly
  /\ exp[p].pc = "no" \/ (exp[p].pc = "retry" /\ exp[p].only)
  /\ Present(p)
  /\ exp' = [exp EXCEPT ![p] = [NoExpiry EXCEPT !.pc = "jobs", !.only = TRUE]]
  /\ UNCHANGED <<repoVars, status, queueVars, work, remoteVars, uploaded,
                 cands, maint, crashes>>

(* RemoveJobs.  A job a worker has already read is not stopped. *)
RemoveJobs(p) ==
  /\ exp[p].pc = "jobs"
  /\ jobs' = [jobs EXCEPT ![p] = {}]
  /\ parked' = [parked EXCEPT ![p] = {}]
  /\ exp' = [exp EXCEPT ![p].pc = "get"]
  /\ UNCHANGED <<repoVars, status, order, enq, work, remoteVars, uploaded,
                 cands, maint, crashes>>

(* ExpireRemote reads the location map and the candidates to which it will *)
(* add the packs named there.  Without a map, or when it cannot be read or *)
(* decoded, it goes on without any.                                        *)
ExpireRemoteLoad(p) ==
  /\ exp[p].pc = "get"
  /\ \/ exp' = [exp EXCEPT ![p].pc = "delman"]
     \/ /\ rloc[p] # {}
        /\ exp' = [exp EXCEPT ![p].pc = "save",
                              ![p].cands = cands \cup rloc[p]]
  /\ UNCHANGED <<repoVars, status, queueVars, work, remoteVars, uploaded,
                 cands, maint, crashes>>

ExpireRemoteSave(p) ==
  /\ exp[p].pc = "save"
  /\ cands' = exp[p].cands
  /\ exp' = [exp EXCEPT ![p].pc = "delman", ![p].cands = {}]
  /\ UNCHANGED <<repoVars, status, queueVars, work, remoteVars, uploaded,
                 maint, crashes>>

ExpireRemoteManifest(p) ==
  /\ exp[p].pc = "delman"
  /\ rman' = rman \ {p}
  /\ exp' = [exp EXCEPT ![p].pc = "delloc"]
  /\ UNCHANGED <<repoVars, status, queueVars, work, rpacks, rloc, uploaded,
                 cands, maint, crashes>>

ExpireRemoteLocmap(p) ==
  /\ exp[p].pc = "delloc"
  /\ rloc' = [rloc EXCEPT ![p] = {}]
  /\ exp' = [exp EXCEPT ![p].pc = IF exp[p].only THEN "setstate" ELSE "done"]
  /\ UNCHANGED <<repoVars, status, queueVars, work, rpacks, rman, uploaded,
                 cands, maint, crashes>>

(* expireRemoteOnly ends with SetRemoteState(RemoteNone). *)
SetRemoteState(p) ==
  /\ exp[p].pc = "setstate"
  /\ status' = IF Present(p) THEN [status EXCEPT ![p] = "local-only"]
               ELSE status
  /\ exp' = [exp EXCEPT ![p] = NoExpiry]
  /\ UNCHANGED <<repoVars, queueVars, work, remoteVars, uploaded, cands, maint,
                 crashes>>

(* The candidates could not be saved or a delete failed: control keeps the *)
(* record and asks again later.                                            *)
expireFails(p) ==
  /\ exp[p].pc \in {"save", "delman", "delloc"}
  /\ exp' = [exp EXCEPT ![p].pc = "retry", ![p].cands = {}]
  /\ UNCHANGED <<repoVars, status, queueVars, work, remoteVars, uploaded,
                 cands, maint, crashes>>

-----------------------------------------------------------------------------
(* Maintenance: runGC, one at a time. *)

(* CollectGarbageWith: dead packs go and, unless compaction is off or      *)
(* skipped for lack of space, the live chunks of mostly dead packs are     *)
(* rewritten into one new pack that the index now leads to.                *)
collect ==
  LET dead == {k \in local : k \cap Referenced = {}}
      mostly == {k \in local : MostlyDead(k, Referenced)}
  IN  /\ maint.pc = "idle"
      /\ \E old \in {{}} \cup (IF Repack THEN {mostly} ELSE {}) :
           LET moved == (UNION old) \cap Referenced
               kept == {c \in DOMAIN index : index[c] \notin dead} \cup moved
           IN  /\ local' = (local \ dead) \cup ({moved} \ {{}})
               /\ index' = [c \in kept |-> IF c \in moved THEN moved
                                           ELSE index[c]]
               /\ maint' = [IdleMaint EXCEPT !.pc = "purge", !.old = old]
      /\ UNCHANGED <<snaps, status, own, queueVars, work, remoteVars,
                     uploaded, cands, exp, crashes>>

(* The compacted packs are deleted and the capture lock is released. *)
purge ==
  /\ maint.pc = "purge"
  /\ local' = local \ maint.old
  /\ index' = Restrict(index, {c \in DOMAIN index : index[c] \notin maint.old})
  /\ maint' = [IdleMaint EXCEPT !.pc = "load"]
  /\ UNCHANGED <<snaps, status, own, queueVars, work, remoteVars, uploaded,
                 cands, exp, crashes>>

(* SweepRemote loads the candidates; without any there is nothing to do. *)
sweepLoad ==
  /\ maint.pc = "load"
  /\ maint' = IF cands = {} THEN IdleMaint
              ELSE [IdleMaint EXCEPT !.pc = "list", !.cands = cands]
  /\ UNCHANGED <<repoVars, status, queueVars, work, remoteVars, uploaded,
                 cands, exp, crashes>>

(* It lists the target ... *)
sweepList ==
  /\ maint.pc = "list"
  /\ maint' = [maint EXCEPT !.pc = "refs", !.listed = rpacks,
                            !.maps = {p \in Point : rloc[p] # {}}]
  /\ UNCHANGED <<repoVars, status, queueVars, work, remoteVars, uploaded,
                 cands, exp, crashes>>

(* ... and reads the listed location maps (remoteReferences); one that is  *)
(* gone by now ends the sweep with an error.                               *)
remoteReferences ==
  /\ maint.pc = "refs"
  /\ maint' = IF \E p \in maint.maps : rloc[p] = {} THEN IdleMaint
              ELSE [maint EXCEPT !.pc = "lock",
                                 !.refs = UNION {rloc[p] : p \in maint.maps}]
  /\ UNCHANGED <<repoVars, status, queueVars, work, remoteVars, uploaded,
                 cands, exp, crashes>>

(* Under the capture lock it adds the local references (referencedPacks)   *)
(* and decides which candidates go; the others it forgets.                 *)
sweepDecide ==
  /\ maint.pc = "lock"
  /\ maint' = [maint EXCEPT
                 !.pc = "del",
                 !.todo = ((maint.cands \cap maint.listed) \ maint.refs)
                            \ referencedPacks]
  /\ UNCHANGED <<repoVars, status, queueVars, work, remoteVars, uploaded,
                 cands, exp, crashes>>

(* A candidate is deleted on the target, or stays one after an error. *)
sweepDelete(k) ==
  /\ maint.pc = "del"
  /\ k \in maint.todo
  /\ \/ /\ rpacks' = rpacks \ {k}
        /\ maint' = [maint EXCEPT !.pc = "forget", !.k = k, !.todo = @ \ {k}]
     \/ /\ maint' = [maint EXCEPT !.remaining = @ \cup {k}, !.todo = @ \ {k}]
        /\ UNCHANGED rpacks
  /\ UNCHANGED <<repoVars, status, queueVars, work, rman, rloc, uploaded,
                 cands, exp, crashes>>

(* The deleted pack is taken off the uploaded index; an error is ignored. *)
ForgetUploaded ==
  /\ maint.pc = "forget"
  /\ uploaded' \in {uploaded, uploaded \ {maint.k}}
  /\ maint' = [maint EXCEPT !.pc = "del", !.k = {}]
  /\ UNCHANGED <<repoVars, status, queueVars, work, remoteVars, cands, exp,
                 crashes>>

(* saveSweepCandidates: what could not be deleted is kept. *)
sweepSave ==
  /\ maint.pc = "del"
  /\ maint.todo = {}
  /\ cands' = maint.remaining
  /\ maint' = IdleMaint
  /\ UNCHANGED <<repoVars, status, queueVars, work, remoteVars, uploaded, exp,
                 crashes>>

-----------------------------------------------------------------------------
(* The agent dies and starts again: workers, requests and maintenance are  *)
(* lost, the index is rebuilt from the packs found, parked jobs re-armed.  *)
restart ==
  /\ crashes < MaxCrashes
  /\ crashes' = crashes + 1
  /\ index' \in {f \in [UNION local -> local] : \A c \in DOMAIN f : c \in f[c]}
  /\ work' = [w \in Worker |-> IdleWorker]
  /\ enq' = [p \in Point |-> "no"]
  /\ jobs' = [p \in Point |-> jobs[p] \cup parked[p]]
  /\ parked' = [p \in Point |-> {}]
  /\ exp' = [p \in Point |-> IF exp[p].pc \in {"no", "done"} THEN exp[p]
                             ELSE [exp[p] EXCEPT !.pc = "retry", !.cands = {}]]
  /\ maint' = IdleMaint
  /\ UNCHANGED <<local, snaps, status, own, order, remoteVars, uploaded,
                 cands>>

pointNext ==
  \E p \in Point : \/ Capture(p) \/ enqueue(p) \/ EnqueueJobs(p)
                   \/ EnqueueState(p) \/ dequeue(p)

workNext ==
  \E w \in Worker :
    \/ \E p \in Point : \E j \in jobs[p] : process(w, p, j)
    \/ readPack(w) \/ putPack(w) \/ MarkUploaded(w)
    \/ completeNeeded(w) \/ completeKnown(w)
    \/ \E k \in work[w].needed : completePack(w, k)
    \/ completeVerifying(w) \/ buildLocmap(w)
    \/ putManifest(w) \/ putLocmap(w) \/ protect(w)

expireNext ==
  \E p \in Point : \/ RemoveJobs(p) \/ ExpireRemoteLoad(p)
                   \/ ExpireRemoteSave(p) \/ ExpireRemoteManifest(p)
                   \/ ExpireRemoteLocmap(p) \/ SetRemoteState(p)

maintNext ==
  \/ collect \/ purge
  \/ sweepLoad \/ sweepList \/ remoteReferences \/ sweepDecide
  \/ \E k \in maint.todo : sweepDelete(k)
  \/ ForgetUploaded \/ sweepSave

Next ==
  \/ pointNext
  \/ workNext
  \/ \E w \in Worker : fail(w)
  \/ retryFailed
  \/ \E p \in Point : expire(p) \/ expireRemoteOnly(p) \/ expireFails(p)
  \/ expireNext
  \/ maintNext
  \/ restart

Spec == Init /\ [][Next]_vars

-----------------------------------------------------------------------------
(* Properties. *)

(* The types of the variables. *)
TypeOK ==
  /\ local \subseteq Pack /\ snaps \subseteq Point
  /\ DOMAIN index \subseteq Chunk /\ \A c \in DOMAIN index : index[c] \in Pack
  /\ status \in [Point -> {"none", "local-only", "queued", "uploading",
                           "verifying", "protected", "failed", "gone"}]
  /\ own \in [Point -> SUBSET Pack]
  /\ jobs \in [Point -> SUBSET (SUBSET Chunk)]
  /\ parked \in [Point -> SUBSET (SUBSET Chunk)]
  /\ enq \in [Point -> {"no", "jobs", "state"}]
  /\ work \in [Worker -> WorkState]
  /\ rpacks \subseteq Pack /\ rman \subseteq Point
  /\ rloc \in [Point -> SUBSET Pack]
  /\ uploaded \subseteq Pack /\ cands \subseteq Pack
  /\ exp \in [Point -> ExpiryState]
  /\ maint \in MaintState
  /\ crashes \in Nat

(* What the target holds suffices to restore p there: manifest, location   *)
(* map, and every pack the map names.                                      *)
Recoverable(p) ==
  /\ p \in rman
  /\ rloc[p] # {}
  /\ rloc[p] \subseteq rpacks

(* A sweep never deletes an object that a local restore point, uploaded    *)
(* already or not yet, has chunks in: whatever SweepRemote removes from    *)
(* the target, no local manifest leads to it at that moment, although      *)
(* points come and go and packs are compacted since it listed the target.  *)
SweepSparesLocalPacks ==
  [][(rpacks \ rpacks') \cap PacksOf(Referenced) = {}]_vars

(* queue.go:61 promises that a point "is marked protected only after every *)
(* pack it needs is confirmed on the target": a protected point whose      *)
(* remote copy nobody asked to remove can be restored from the target.     *)
(* It does not hold: the packs are confirmed first, and buildLocmap looks  *)
(* the chunks up again in an index that a compaction may have changed.     *)
ProtectedIsRecoverable ==
  \A p \in Point :
    status[p] = "protected" /\ exp[p].pc = "no" => Recoverable(p)

(* An upload, once its jobs are on disk, reaches the target in the end,    *)
(* across failures, parking, re-arming, re-enqueueing and restarts of the  *)
(* agent, unless the point is expired: fail and retryFailed lose no job.   *)
QueuedIsUploaded ==
  \A p \in Point :
    ManifestJob \in jobs[p] ~> Recoverable(p) \/ exp[p].pc # "no"

(* Workers run and the re-arm timer fires.  In the end operators stop      *)
(* pausing and resuming uploads and remote calls stop failing.             *)
Disturbance ==
  \/ \E w \in Worker : fail(w)
  \/ \E p \in Point : enqueue(p) \/ dequeue(p)

FairSpec ==
  /\ Spec
  /\ WF_vars(\E p \in Point : EnqueueJobs(p) \/ EnqueueState(p))
  /\ WF_vars(retryFailed)
  /\ WF_vars(workNext)
  /\ <>[][~Disturbance]_vars
=============================================================================
