---------------------------- MODULE RemoteProofs ----------------------------
(***************************************************************************)
(* Proofs about remote protection, for every number of points and workers  *)
(* and every sharing of chunks, with uploads, expiries, maintenance and    *)
(* restarts overlapping as freely as the code lets them: the types, and    *)
(* that the sweep of the target takes no pack from it in which a local     *)
(* restore point has chunks.                                               *)
(***************************************************************************)
EXTENDS RemoteProtection, TLAPS

(* A busy worker has a point, and what it puts is a pack. *)
WorkOK ==
  \A w \in Worker :
    /\ work[w].pc # "idle" => work[w].p \in Point
    /\ work[w].pc \in {"put", "mark"} => work[w].k \in Pack

RemoteTypes == TypeOK /\ WorkOK

(* The initial records have their types. *)
LEMMA InitialRecords ==
  /\ IdleWorker \in WorkState
  /\ NoExpiry \in ExpiryState
  /\ IdleMaint \in MaintState
BY DEF IdleWorker, WorkState, NoExpiry, ExpiryState, IdleMaint, MaintState

(* packsFor and referencedPacks name packs. *)
LEMMA PacksOfType ==
  ASSUME TypeOK, NEW C
  PROVE  PacksOf(C) \subseteq Pack
BY DEF TypeOK, PacksOf

(* Capture keeps the types: a pack is written only when there is something *)
(* new to store.                                                           *)
LEMMA CaptureTypes ==
  ASSUME RemoteTypes, NEW p \in Point, Capture(p)
  PROVE  RemoteTypes'
<1> DEFINE new == Need[p] \ DOMAIN index
<1>1. new \in SUBSET Chunk
  BY NeedAssumption
<1>2. newPacks(p) \subseteq Pack
  BY <1>1 DEF newPacks, Pack
<1>3. /\ DOMAIN index' = DOMAIN index \cup new
      /\ \A c \in DOMAIN index' : index'[c] = IF c \in new THEN new
                                              ELSE index[c]
  BY DEF Capture
<1>4. /\ DOMAIN index' \subseteq Chunk
      /\ \A c \in DOMAIN index' : index'[c] \in Pack
  BY <1>1, <1>3, SMTT(20) DEF RemoteTypes, TypeOK, Pack
<1>5. /\ local' \subseteq Pack
      /\ own' \in [Point -> SUBSET Pack] /\ snaps' \subseteq Point
      /\ status' \in [Point -> {"none", "local-only", "queued", "uploading",
                                "verifying", "protected", "failed", "gone"}]
  BY <1>2 DEF RemoteTypes, TypeOK, Capture
<1>6. QED
  BY <1>4, <1>5, Zenon DEF RemoteTypes, TypeOK, WorkOK, Capture, queueVars,
     remoteVars

(* Enqueueing and pausing keep the types. *)
LEMMA QueueTypes ==
  ASSUME RemoteTypes, NEW p \in Point,
         enqueue(p) \/ EnqueueJobs(p) \/ EnqueueState(p) \/ dequeue(p)
  PROVE  RemoteTypes'
<1>1. CASE EnqueueJobs(p)
  <2>1. jobs' \in [Point -> SUBSET (SUBSET Chunk)]
    BY <1>1 DEF RemoteTypes, TypeOK, EnqueueJobs, ManifestJob, Pack
  <2>2. QED
    BY <1>1, <2>1, Zenon DEF RemoteTypes, TypeOK, WorkOK, EnqueueJobs,
       repoVars, remoteVars
<1>2. CASE EnqueueState(p)
  BY <1>2 DEF RemoteTypes, TypeOK, WorkOK, EnqueueState, repoVars, remoteVars
<1>3. CASE dequeue(p)
  BY <1>3 DEF RemoteTypes, TypeOK, WorkOK, dequeue, repoVars, remoteVars
<1>4. CASE enqueue(p)
  BY <1>4 DEF RemoteTypes, TypeOK, WorkOK, enqueue, repoVars, remoteVars
<1>5. QED
  BY <1>1, <1>2, <1>3, <1>4

(* done keeps the types. *)
LEMMA DoneTypes ==
  ASSUME RemoteTypes, NEW w \in Worker, Done(w)
  PROVE  /\ jobs' \in [Point -> SUBSET (SUBSET Chunk)]
         /\ work' \in [Worker -> WorkState]
         /\ WorkOK'
<1>1. jobs' \in [Point -> SUBSET (SUBSET Chunk)]
  BY Zenon DEF RemoteTypes, TypeOK, Done
<1>2. work' \in [Worker -> WorkState]
  BY InitialRecords DEF RemoteTypes, TypeOK, Done
<1>3. WorkOK'
  BY DEF RemoteTypes, TypeOK, WorkOK, Done, IdleWorker
<1>4. QED
  BY <1>1, <1>2, <1>3

(* Taking a job keeps the types. *)
LEMMA processTypes ==
  ASSUME RemoteTypes, NEW w \in Worker, NEW p \in Point, NEW j \in jobs[p],
         process(w, p, j)
  PROVE  RemoteTypes'
<1>1. j \in SUBSET Chunk
  BY DEF RemoteTypes, TypeOK
<1>2. CASE ~Present(p)
  BY <1>2 DEF RemoteTypes, TypeOK, WorkOK, process, repoVars, remoteVars
<1>3. CASE Present(p)
  <2> DEFINE r == [IdleWorker EXCEPT
                     !.p = p, !.job = j,
                     !.pc = IF j = ManifestJob THEN "complete" ELSE "read"]
  <2>1. /\ r \in WorkState /\ r.p = p
        /\ r.pc = IF j = ManifestJob THEN "complete" ELSE "read"
    BY <1>1, Zenon DEF IdleWorker, WorkState
  <2>2. work' = [work EXCEPT ![w] = r] /\ UNCHANGED jobs
    BY <1>3 DEF process
  <2> HIDE DEF r
  <2>3. work' \in [Worker -> WorkState] /\ WorkOK'
    BY <2>1, <2>2 DEF RemoteTypes, TypeOK, WorkOK
  <2>4. status' \in [Point -> {"none", "local-only", "queued", "uploading",
                               "verifying", "protected", "failed", "gone"}]
    BY <1>3 DEF RemoteTypes, TypeOK, process
  <2>5. QED
    BY <2>2, <2>3, <2>4 DEF RemoteTypes, TypeOK, process, repoVars, remoteVars
<1>4. QED
  BY <1>2, <1>3

(* The steps of a worker that only move it on keep the types. *)
LEMMA WorkerMoves ==
  ASSUME RemoteTypes, NEW w \in Worker, NEW r \in WorkState,
         work' = [work EXCEPT ![w] = r],
         r.pc # "idle" => r.p \in Point,
         r.pc \in {"put", "mark"} => r.k \in Pack
  PROVE  work' \in [Worker -> WorkState] /\ WorkOK'
BY DEF RemoteTypes, TypeOK, WorkOK

(* The steps of a pack job keep the types. *)
LEMMA PackJobTypes ==
  ASSUME RemoteTypes, NEW w \in Worker,
         readPack(w) \/ putPack(w) \/ MarkUploaded(w)
  PROVE  RemoteTypes'
<1>1. work[w] \in WorkState /\ local \subseteq Pack
  BY DEF RemoteTypes, TypeOK
<1>2. CASE readPack(w)
  <2>1. CASE Done(w)
    BY <1>2, <2>1, DoneTypes DEF RemoteTypes, TypeOK, readPack, repoVars,
       remoteVars
  <2>2. CASE /\ work[w].job \in local
             /\ work' = [work EXCEPT ![w].pc = "put", ![w].k = work[w].job]
             /\ UNCHANGED jobs
    <3> DEFINE r == [work[w] EXCEPT !.pc = "put", !.k = work[w].job]
    <3>1. /\ r \in WorkState /\ r.p = work[w].p /\ r.k \in Pack
          /\ work[w].p \in Point
      BY <1>1, <1>2, <2>2, Zenon DEF WorkState, RemoteTypes, WorkOK, readPack
    <3>2. work' = [work EXCEPT ![w] = r]
      BY <1>1, <2>2, Zenon DEF RemoteTypes, TypeOK
    <3> HIDE DEF r
    <3>3. work' \in [Worker -> WorkState] /\ WorkOK'
      BY <3>1, <3>2, WorkerMoves, Zenon
    <3>4. QED
      BY <1>2, <2>2, <3>3 DEF RemoteTypes, TypeOK, readPack, repoVars,
         remoteVars
  <2>3. QED
    BY <1>2, <2>1, <2>2 DEF readPack
<1>3. CASE putPack(w)
  <2> DEFINE r == [work[w] EXCEPT !.pc = "mark"]
  <2>1. /\ r \in WorkState /\ r.p \in Point /\ r.k \in Pack
        /\ work[w].k \in Pack
    BY <1>1, <1>3 DEF WorkState, RemoteTypes, WorkOK, putPack
  <2>2. work' = [work EXCEPT ![w] = r]
    BY <1>1, <1>3 DEF putPack, RemoteTypes, TypeOK
  <2> HIDE DEF r
  <2>3. work' \in [Worker -> WorkState] /\ WorkOK'
    BY <2>1, <2>2, WorkerMoves, Zenon
  <2>4. QED
    BY <1>3, <2>1, <2>3 DEF RemoteTypes, TypeOK, putPack, repoVars, queueVars
<1>4. CASE MarkUploaded(w)
  <2>1. uploaded' \subseteq Pack
    BY <1>4 DEF RemoteTypes, TypeOK, WorkOK, MarkUploaded
  <2>2. CASE Done(w)
    BY <1>4, <2>1, <2>2, DoneTypes DEF RemoteTypes, TypeOK, MarkUploaded,
       repoVars, remoteVars
  <2>3. CASE /\ work' = [work EXCEPT ![w].pc = "loop",
                                    ![w].needed = @ \ {work[w].k}]
             /\ UNCHANGED jobs
    <3> DEFINE r == [work[w] EXCEPT !.pc = "loop", !.needed = @ \ {work[w].k}]
    <3>1. r \in WorkState /\ r.p \in Point /\ r.pc = "loop"
      BY <1>1, <1>4, Zenon DEF WorkState, RemoteTypes, WorkOK, MarkUploaded
    <3>2. work' = [work EXCEPT ![w] = r]
      BY <1>1, <2>3, Zenon DEF RemoteTypes, TypeOK
    <3> HIDE DEF r
    <3>3. work' \in [Worker -> WorkState] /\ WorkOK'
      BY <3>1, <3>2, WorkerMoves, Zenon
    <3>4. QED
      BY <1>4, <2>1, <2>3, <3>3 DEF RemoteTypes, TypeOK, MarkUploaded,
         repoVars, remoteVars
  <2>4. QED
    BY <1>4, <2>2, <2>3 DEF MarkUploaded
<1>5. QED
  BY <1>2, <1>3, <1>4

(* The steps of complete before anything is put keep the types. *)
LEMMA CompleteTypes ==
  ASSUME RemoteTypes, NEW w \in Worker,
         \/ completeNeeded(w) \/ completeKnown(w)
         \/ \E k \in work[w].needed : completePack(w, k)
  PROVE  RemoteTypes'
<1>1. work[w] \in WorkState
  BY DEF RemoteTypes, TypeOK
<1>2. CASE completeNeeded(w)
  <2>1. CASE Done(w)
    BY <1>2, <2>1, DoneTypes DEF RemoteTypes, TypeOK, completeNeeded,
       repoVars, remoteVars
  <2>2. CASE /\ work' = [work EXCEPT ![w].pc = "known",
                                    ![w].needed = packsFor(work[w].p)]
             /\ UNCHANGED jobs
    <3> DEFINE r == [work[w] EXCEPT !.pc = "known",
                                    !.needed = packsFor(work[w].p)]
    <3>1. packsFor(work[w].p) \subseteq Pack
      BY PacksOfType DEF packsFor, RemoteTypes
    <3>2. r \in WorkState /\ r.p \in Point /\ r.pc = "known"
      BY <1>1, <1>2, <3>1, Zenon DEF WorkState, RemoteTypes, WorkOK,
         completeNeeded
    <3>3. work' = [work EXCEPT ![w] = r]
      BY <1>1, <2>2, Zenon DEF RemoteTypes, TypeOK
    <3> HIDE DEF r
    <3>4. work' \in [Worker -> WorkState] /\ WorkOK'
      BY <3>2, <3>3, WorkerMoves, Zenon
    <3>5. QED
      BY <1>2, <2>2, <3>4 DEF RemoteTypes, TypeOK, completeNeeded, repoVars,
         remoteVars
  <2>3. QED
    BY <1>2, <2>1, <2>2 DEF completeNeeded
<1>3. CASE completeKnown(w)
  <2> DEFINE r == [work[w] EXCEPT !.pc = "loop", !.needed = @ \ uploaded]
  <2>1. r \in WorkState /\ r.p \in Point /\ r.pc = "loop"
    BY <1>1, <1>3, Zenon DEF WorkState, RemoteTypes, WorkOK, completeKnown
  <2>2. work' = [work EXCEPT ![w] = r]
    BY <1>1, <1>3, Zenon DEF completeKnown, RemoteTypes, TypeOK
  <2> HIDE DEF r
  <2>3. work' \in [Worker -> WorkState] /\ WorkOK'
    BY <2>1, <2>2, WorkerMoves, Zenon
  <2>4. QED
    BY <1>3, <2>3 DEF RemoteTypes, TypeOK, completeKnown, repoVars, queueVars,
       remoteVars
<1>4. ASSUME NEW k \in work[w].needed, completePack(w, k)
      PROVE  RemoteTypes'
  <2> DEFINE r == [work[w] EXCEPT
                     !.k = k, !.pc = IF k \in rpacks THEN "mark" ELSE "put"]
  <2>1. r \in WorkState /\ r.p \in Point /\ r.k \in Pack
    BY <1>1, <1>4, Zenon DEF WorkState, RemoteTypes, WorkOK, completePack, Pack
  <2>2. work' = [work EXCEPT ![w] = r]
    BY <1>1, <1>4, Zenon DEF completePack, RemoteTypes, TypeOK
  <2> HIDE DEF r
  <2>3. work' \in [Worker -> WorkState] /\ WorkOK'
    BY <2>1, <2>2, WorkerMoves, Zenon
  <2>4. QED
    BY <1>4, <2>3, Zenon DEF RemoteTypes, TypeOK, completePack, repoVars,
       queueVars, remoteVars
<1>5. QED
  BY <1>2, <1>3, <1>4

(* The last steps of complete keep the types. *)
LEMMA PublishTypes ==
  ASSUME RemoteTypes, NEW w \in Worker,
         \/ completeVerifying(w) \/ buildLocmap(w)
         \/ putManifest(w) \/ putLocmap(w) \/ protect(w)
  PROVE  RemoteTypes'
<1> DEFINE Status == {"none", "local-only", "queued", "uploading",
                      "verifying", "protected", "failed", "gone"}
<1>1. work[w] \in WorkState
  BY DEF RemoteTypes, TypeOK
<1>2. CASE completeVerifying(w)
  <2> DEFINE r == [work[w] EXCEPT !.pc = "locmap"]
  <2>1. r \in WorkState /\ r.p \in Point /\ r.pc = "locmap"
    BY <1>1, <1>2 DEF WorkState, RemoteTypes, WorkOK, completeVerifying
  <2>2. work' = [work EXCEPT ![w] = r]
    BY <1>1, <1>2 DEF completeVerifying, RemoteTypes, TypeOK
  <2> HIDE DEF r
  <2>3. work' \in [Worker -> WorkState] /\ WorkOK'
    BY <2>1, <2>2, WorkerMoves, Zenon
  <2>4. status' \in [Point -> Status]
    BY <1>2, Zenon DEF RemoteTypes, TypeOK, completeVerifying
  <2>5. QED
    BY <1>2, <2>3, <2>4, Zenon DEF RemoteTypes, TypeOK, completeVerifying,
       repoVars, queueVars, remoteVars
<1>3. CASE buildLocmap(w)
  <2> DEFINE r == [work[w] EXCEPT !.pc = "putman",
                                  !.loc = PacksOf(Need[work[w].p])]
  <2>1. PacksOf(Need[work[w].p]) \subseteq Pack
    BY PacksOfType DEF RemoteTypes
  <2>2. r \in WorkState /\ r.p \in Point /\ r.pc = "putman"
    BY <1>1, <1>3, <2>1, Zenon DEF WorkState, RemoteTypes, WorkOK, buildLocmap
  <2>3. work' = [work EXCEPT ![w] = r]
    BY <1>1, <1>3, Zenon DEF buildLocmap, RemoteTypes, TypeOK
  <2> HIDE DEF r
  <2>4. work' \in [Worker -> WorkState] /\ WorkOK'
    BY <2>2, <2>3, WorkerMoves, Zenon
  <2>5. QED
    BY <1>3, <2>4 DEF RemoteTypes, TypeOK, buildLocmap, repoVars, queueVars,
       remoteVars
<1>4. CASE putManifest(w)
  <2> DEFINE r == [work[w] EXCEPT !.pc = "putloc"]
  <2>1. /\ r \in WorkState /\ r.p \in Point /\ r.pc = "putloc"
        /\ work[w].p \in Point
    BY <1>1, <1>4 DEF WorkState, RemoteTypes, WorkOK, putManifest
  <2>2. work' = [work EXCEPT ![w] = r]
    BY <1>1, <1>4 DEF putManifest, RemoteTypes, TypeOK
  <2> HIDE DEF r
  <2>3. work' \in [Worker -> WorkState] /\ WorkOK'
    BY <2>1, <2>2, WorkerMoves, Zenon
  <2>4. QED
    BY <1>4, <2>1, <2>3 DEF RemoteTypes, TypeOK, putManifest, repoVars,
       queueVars
<1>5. CASE putLocmap(w)
  <2> DEFINE r == [work[w] EXCEPT !.pc = "protect"]
  <2>1. /\ r \in WorkState /\ r.p \in Point /\ r.pc = "protect"
        /\ work[w].loc \subseteq Pack
    BY <1>1, <1>5 DEF WorkState, RemoteTypes, WorkOK, putLocmap
  <2>2. work' = [work EXCEPT ![w] = r]
    BY <1>1, <1>5 DEF putLocmap, RemoteTypes, TypeOK
  <2> HIDE DEF r
  <2>3. work' \in [Worker -> WorkState] /\ WorkOK'
    BY <2>1, <2>2, WorkerMoves, Zenon
  <2>4. QED
    BY <1>5, <2>1, <2>3, Zenon DEF RemoteTypes, TypeOK, putLocmap, repoVars,
       queueVars
<1>6. CASE protect(w)
  <2>1. status' \in [Point -> Status]
    BY <1>6, Zenon DEF RemoteTypes, TypeOK, protect
  <2>2. QED
    BY <1>6, <2>1, DoneTypes DEF RemoteTypes, TypeOK, protect, repoVars,
       remoteVars
<1>7. QED
  BY <1>2, <1>3, <1>4, <1>5, <1>6

(* Failing, parking and re-arming keep the types. *)
LEMMA FailTypes ==
  ASSUME RemoteTypes, retryFailed \/ \E w \in Worker : fail(w)
  PROVE  RemoteTypes'
<1>1. ASSUME NEW w \in Worker, fail(w)
      PROVE  RemoteTypes'
  <2>1. work' \in [Worker -> WorkState] /\ WorkOK'
    BY <1>1, InitialRecords DEF RemoteTypes, TypeOK, WorkOK, fail, IdleWorker
  <2>2. /\ jobs' \in [Point -> SUBSET (SUBSET Chunk)]
        /\ parked' \in [Point -> SUBSET (SUBSET Chunk)]
    <3> DEFINE p == work[w].p
               j == work[w].job
    <3>1. /\ p \in Point
          /\ jobs \in [Point -> SUBSET (SUBSET Chunk)]
          /\ parked \in [Point -> SUBSET (SUBSET Chunk)]
      BY <1>1, Zenon DEF RemoteTypes, TypeOK, WorkOK, fail
    <3>2. \/ UNCHANGED <<jobs, parked>>
          \/ /\ parked' = [parked EXCEPT ![p] = @ \cup ({j} \cap jobs[p])]
             /\ jobs' = [jobs EXCEPT ![p] = @ \ {j}]
      BY <1>1 DEF fail
    <3> HIDE DEF p, j
    <3>3. QED
      BY <3>1, <3>2, SMTT(20)
  <2>3. status' \in [Point -> {"none", "local-only", "queued", "uploading",
                               "verifying", "protected", "failed", "gone"}]
    <3>1. UNCHANGED status \/
            status' = [status EXCEPT ![work[w].p] = "failed"]
      BY <1>1 DEF fail
    <3>2. QED
      BY <3>1, Zenon DEF RemoteTypes, TypeOK
  <2>4. QED
    BY <1>1, <2>1, <2>2, <2>3, Zenon DEF RemoteTypes, TypeOK, fail, repoVars,
       remoteVars
<1>2. CASE retryFailed
  BY <1>2 DEF RemoteTypes, TypeOK, WorkOK, retryFailed, repoVars, remoteVars
<1>3. QED
  BY <1>1, <1>2, SMTT(20)

(* The steps of expire and expireRemoteOnly keep the types. *)
LEMMA ExpiryTypes ==
  ASSUME RemoteTypes,
         \/ \E p \in Point : expire(p) \/ expireRemoteOnly(p) \/ expireFails(p)
         \/ expireNext
  PROVE  RemoteTypes'
<1>1. PICK p \in Point :
        \/ expire(p) \/ expireRemoteOnly(p) \/ expireFails(p)
        \/ RemoveJobs(p) \/ ExpireRemoteLoad(p) \/ ExpireRemoteSave(p)
        \/ ExpireRemoteManifest(p) \/ ExpireRemoteLocmap(p)
        \/ SetRemoteState(p)
  BY DEF expireNext
<1>2. exp[p] \in ExpiryState /\ rloc[p] \subseteq Pack /\ cands \subseteq Pack
  BY DEF RemoteTypes, TypeOK
<1>3. /\ [NoExpiry EXCEPT !.pc = "jobs"] \in ExpiryState
      /\ [NoExpiry EXCEPT !.pc = "jobs", !.only = TRUE] \in ExpiryState
  BY Zenon DEF NoExpiry, ExpiryState
<1>4. exp' \in [Point -> ExpiryState]
  <2>1. CASE expire(p) \/ expireRemoteOnly(p)
    BY <1>3, <2>1 DEF RemoteTypes, TypeOK, expire, expireRemoteOnly
  <2>2. CASE RemoveJobs(p) \/ ExpireRemoteManifest(p)
    BY <1>2, <2>2 DEF RemoteTypes, TypeOK, RemoveJobs, ExpireRemoteManifest,
       ExpiryState
  <2>3. CASE ExpireRemoteLoad(p)
    <3>1. CASE exp' = [exp EXCEPT ![p].pc = "delman"]
      BY <1>2, <3>1 DEF RemoteTypes, TypeOK, ExpiryState
    <3>2. CASE exp' = [exp EXCEPT ![p].pc = "save",
                                  ![p].cands = cands \cup rloc[p]]
      BY <1>2, <3>2, Zenon DEF RemoteTypes, TypeOK, ExpiryState
    <3>3. QED
      BY <2>3, <3>1, <3>2 DEF ExpireRemoteLoad
  <2>4. CASE ExpireRemoteSave(p) \/ ExpireRemoteLocmap(p)
    BY <1>2, <2>4 DEF RemoteTypes, TypeOK, ExpireRemoteSave,
       ExpireRemoteLocmap, ExpiryState
  <2>5. CASE SetRemoteState(p)
    BY <2>5, InitialRecords DEF RemoteTypes, TypeOK, SetRemoteState
  <2>6. CASE expireFails(p)
    BY <1>2, <2>6, Zenon DEF RemoteTypes, TypeOK, expireFails, ExpiryState
  <2>7. QED
    BY <1>1, <2>1, <2>2, <2>3, <2>4, <2>5, <2>6
<1>5. cands' \subseteq Pack
  BY <1>1, <1>2 DEF ExpiryState, expire, expireRemoteOnly, expireFails,
     RemoveJobs, ExpireRemoteLoad, ExpireRemoteSave, ExpireRemoteManifest,
     ExpireRemoteLocmap, SetRemoteState
<1>6. status' \in [Point -> {"none", "local-only", "queued", "uploading",
                             "verifying", "protected", "failed", "gone"}]
  BY <1>1 DEF RemoteTypes, TypeOK, expire, expireRemoteOnly, expireFails,
     RemoveJobs, ExpireRemoteLoad, ExpireRemoteSave, ExpireRemoteManifest,
     ExpireRemoteLocmap, SetRemoteState
<1>7. /\ jobs' \in [Point -> SUBSET (SUBSET Chunk)]
      /\ parked' \in [Point -> SUBSET (SUBSET Chunk)]
      /\ UNCHANGED enq
  BY <1>1 DEF RemoteTypes, TypeOK, expire, expireRemoteOnly, expireFails,
     RemoveJobs, ExpireRemoteLoad, ExpireRemoteSave, ExpireRemoteManifest,
     ExpireRemoteLocmap, SetRemoteState, queueVars
<1>8. /\ rpacks' \subseteq Pack /\ rman' \subseteq Point
      /\ rloc' \in [Point -> SUBSET Pack]
  BY <1>1 DEF RemoteTypes, TypeOK, expire, expireRemoteOnly, expireFails,
     RemoveJobs, ExpireRemoteLoad, ExpireRemoteSave, ExpireRemoteManifest,
     ExpireRemoteLocmap, SetRemoteState, remoteVars
<1>9. /\ UNCHANGED <<local, index, own, work, uploaded, maint, crashes>>
      /\ snaps' \subseteq snaps
  BY <1>1 DEF expire, expireRemoteOnly, expireFails, RemoveJobs,
     ExpireRemoteLoad, ExpireRemoteSave, ExpireRemoteManifest,
     ExpireRemoteLocmap, SetRemoteState, repoVars
<1>10. QED
  BY <1>4, <1>5, <1>6, <1>7, <1>8, <1>9 DEF RemoteTypes, TypeOK, WorkOK

(* Collection keeps the types: what it rewrites is a pack or nothing. *)
LEMMA CollectTypes ==
  ASSUME RemoteTypes, collect \/ purge
  PROVE  RemoteTypes'
<1>1. CASE collect
  <2> DEFINE dead == {k \in local : k \cap Referenced = {}}
             mostly == {k \in local : MostlyDead(k, Referenced)}
  <2>1. PICK old \in {{}} \cup (IF Repack THEN {mostly} ELSE {}) :
          LET moved == (UNION old) \cap Referenced
              kept == {c \in DOMAIN index : index[c] \notin dead} \cup moved
          IN  /\ local' = (local \ dead) \cup ({moved} \ {{}})
              /\ index' = [c \in kept |-> IF c \in moved THEN moved
                                          ELSE index[c]]
              /\ maint' = [IdleMaint EXCEPT !.pc = "purge", !.old = old]
    BY <1>1, Zenon DEF collect
  <2> DEFINE moved == (UNION old) \cap Referenced
  <2>2. old \subseteq Pack /\ moved \in SUBSET Chunk
    BY <2>1 DEF RemoteTypes, TypeOK, Pack
  <2>3. local' \subseteq Pack
    BY <2>1, <2>2 DEF RemoteTypes, TypeOK, Pack
  <2>4. /\ DOMAIN index' \subseteq Chunk
        /\ \A c \in DOMAIN index' : index'[c] \in Pack
    BY <2>1, <2>2 DEF RemoteTypes, TypeOK, Pack
  <2>5. maint' \in MaintState
    BY <2>1, <2>2, Zenon DEF IdleMaint, MaintState
  <2>6. QED
    BY <1>1, <2>3, <2>4, <2>5, Zenon DEF RemoteTypes, TypeOK, WorkOK, collect,
       queueVars, remoteVars
<1>2. CASE purge
  <2>1. /\ DOMAIN index' \subseteq Chunk
        /\ \A c \in DOMAIN index' : index'[c] \in Pack
    BY <1>2 DEF RemoteTypes, TypeOK, purge, Restrict
  <2>2. maint' \in MaintState
    BY <1>2 DEF purge, IdleMaint, MaintState
  <2>3. QED
    BY <1>2, <2>1, <2>2 DEF RemoteTypes, TypeOK, WorkOK, purge, queueVars,
       remoteVars
<1>3. QED
  BY <1>1, <1>2

(* The sweep keeps the types. *)
LEMMA SweepTypes ==
  ASSUME RemoteTypes,
         \/ sweepLoad \/ sweepList \/ remoteReferences \/ sweepDecide
         \/ \E k \in maint.todo : sweepDelete(k)
         \/ ForgetUploaded \/ sweepSave
  PROVE  RemoteTypes'
<1>1. maint' \in MaintState
  <2>1. maint \in MaintState /\ cands \subseteq Pack /\ rpacks \subseteq Pack
        /\ rloc \in [Point -> SUBSET Pack]
    BY DEF RemoteTypes, TypeOK
  <2>2. CASE sweepLoad
    BY <2>1, <2>2, Zenon DEF sweepLoad, IdleMaint, MaintState
  <2>3. CASE sweepList
    BY <2>1, <2>3, Zenon DEF sweepList, MaintState
  <2>4. CASE remoteReferences
    <3>1. maint.maps \subseteq Point
      BY <2>1 DEF MaintState
    <3>2. UNION {rloc[p] : p \in maint.maps} \subseteq Pack
      BY <2>1, <3>1
    <3>3. QED
      BY <2>1, <2>4, <3>2, InitialRecords, Zenon DEF remoteReferences,
         MaintState
  <2>5. CASE sweepDecide
    BY <2>1, <2>5, Zenon DEF sweepDecide, MaintState
  <2>6. ASSUME NEW k \in maint.todo, sweepDelete(k)
        PROVE  maint' \in MaintState
    <3>1. k \in SUBSET Chunk /\ {k} \subseteq Pack
      BY <2>1, <2>6 DEF MaintState, Pack
    <3>2. /\ maint.todo \ {k} \in SUBSET Pack
          /\ maint.remaining \cup {k} \in SUBSET Pack
      BY <2>1, <3>1 DEF MaintState
    <3>3. \/ maint' = [maint EXCEPT !.pc = "forget", !.k = k,
                                    !.todo = maint.todo \ {k}]
          \/ maint' = [maint EXCEPT !.remaining = maint.remaining \cup {k},
                                    !.todo = maint.todo \ {k}]
      BY <2>6, Zenon DEF sweepDelete
    <3>4. QED
      BY <2>1, <3>1, <3>2, <3>3, ZenonT(60) DEF MaintState
  <2>7. CASE ForgetUploaded \/ sweepSave
    <3>1. CASE ForgetUploaded
      BY <2>1, <3>1, Zenon DEF ForgetUploaded, MaintState
    <3>2. CASE sweepSave
      BY <3>2, InitialRecords DEF sweepSave
    <3>3. QED
      BY <2>7, <3>1, <3>2
  <2>8. QED
    BY <2>2, <2>3, <2>4, <2>5, <2>6, <2>7
<1>2. /\ rpacks' \subseteq Pack /\ uploaded' \subseteq Pack
      /\ cands' \subseteq Pack
  BY Zenon DEF RemoteTypes, TypeOK, MaintState, sweepLoad, sweepList,
     remoteReferences, sweepDecide, sweepDelete, ForgetUploaded, sweepSave,
     remoteVars
<1>3. UNCHANGED <<local, index, snaps, own, status, jobs, parked, enq, work,
                  rman, rloc, exp, crashes>>
  BY Zenon DEF sweepLoad, sweepList, remoteReferences, sweepDecide,
     sweepDelete, ForgetUploaded, sweepSave, repoVars, queueVars, remoteVars
<1>4. QED
  BY <1>1, <1>2, <1>3 DEF RemoteTypes, TypeOK, WorkOK

(* A restart keeps the types. *)
LEMMA RestartTypes ==
  ASSUME RemoteTypes, restart
  PROVE  RemoteTypes'
<1>1. /\ DOMAIN index' \subseteq Chunk
      /\ \A c \in DOMAIN index' : index'[c] \in Pack
  BY Zenon DEF RemoteTypes, TypeOK, restart, Pack
<1>2. work' \in [Worker -> WorkState] /\ WorkOK' /\ maint' \in MaintState
  BY InitialRecords, Zenon DEF restart, WorkOK, IdleWorker
<1>3. exp' \in [Point -> ExpiryState]
  <2>1. \A p \in Point :
          [exp[p] EXCEPT !.pc = "retry", !.cands = {}] \in ExpiryState
    BY Zenon DEF RemoteTypes, TypeOK, ExpiryState
  <2>2. QED
    BY <2>1, Zenon DEF RemoteTypes, TypeOK, restart
<1>4. /\ jobs' \in [Point -> SUBSET (SUBSET Chunk)]
      /\ parked' \in [Point -> SUBSET (SUBSET Chunk)]
      /\ enq' \in [Point -> {"no", "jobs", "state"}] /\ crashes' \in Nat
  <2>1. crashes' \in Nat
    <3>1. crashes' = crashes + 1
      BY Zenon DEF restart
    <3>2. crashes \in Nat
      BY DEF RemoteTypes, TypeOK
    <3>3. QED
      BY <3>1, <3>2
  <2>2. \A p \in Point : /\ jobs[p] \cup parked[p] \in SUBSET (SUBSET Chunk)
                         /\ {} \in SUBSET (SUBSET Chunk)
    BY DEF RemoteTypes, TypeOK
  <2>3. QED
    BY <2>1, <2>2, Zenon DEF restart
<1>5. QED
  BY <1>1, <1>2, <1>3, <1>4, Zenon DEF RemoteTypes, TypeOK, restart, remoteVars

(* The types, with those of a busy worker's point and pack, are invariant. *)
LEMMA RemoteTypesHold == Spec => []RemoteTypes
<1>1. Init => RemoteTypes
  BY InitialRecords DEF Init, RemoteTypes, TypeOK, WorkOK, IdleWorker
<1>2. RemoteTypes /\ [Next]_vars => RemoteTypes'
  <2> SUFFICES ASSUME RemoteTypes, [Next]_vars
               PROVE  RemoteTypes'
    OBVIOUS
  <2>1. CASE pointNext
    BY <2>1, CaptureTypes, QueueTypes DEF pointNext
  <2>2. CASE workNext
    BY <2>2, processTypes, PackJobTypes, CompleteTypes, PublishTypes
       DEF workNext
  <2>3. CASE retryFailed \/ \E w \in Worker : fail(w)
    BY <2>3, FailTypes
  <2>4. CASE \/ \E p \in Point : \/ expire(p) \/ expireRemoteOnly(p)
                                 \/ expireFails(p)
             \/ expireNext
    BY <2>4, ExpiryTypes
  <2>5. CASE maintNext
    BY <2>5, CollectTypes, SweepTypes DEF maintNext
  <2>6. CASE restart
    BY <2>6, RestartTypes
  <2>7. CASE UNCHANGED vars
    BY <2>7 DEF vars, RemoteTypes, TypeOK, WorkOK
  <2>8. QED
    BY <2>1, <2>2, <2>3, <2>4, <2>5, <2>6, <2>7 DEF Next
<1>3. QED
  BY <1>1, <1>2, PTL DEF Spec

(* Every step of uploads, expiries, maintenance and restarts keeps the     *)
(* variables in their types (TypeOK).                                      *)
THEOREM TypeCorrect == Spec => []TypeOK
<1>1. RemoteTypes => TypeOK
  BY DEF RemoteTypes
<1>2. QED
  BY <1>1, RemoteTypesHold, PTL

-----------------------------------------------------------------------------
(* The sweep. *)

(* While the sweep deletes under the capture lock, nothing on its list is  *)
(* a pack that a local point leads to.                                     *)
SweepSpares ==
  maint.pc \in {"del", "forget"} => maint.todo \cap PacksOf(Referenced) = {}

(* The invariant of the sweep. *)
SweepInv == TypeOK /\ SweepSpares

(* Manifests that are there after a step were there before it. *)
NoNewPoint == snaps' \subseteq snaps

(* Without new points and with the same index, local points lead to no     *)
(* pack they did not lead to before.                                       *)
LEMMA FewerPoints ==
  ASSUME NoNewPoint, UNCHANGED index
  PROVE  PacksOf(Referenced)' \subseteq PacksOf(Referenced)
<1>1. Referenced' \subseteq Referenced
  BY DEF NoNewPoint, Referenced
<1>2. QED
  BY <1>1 DEF PacksOf

(* A step outside of maintenance that adds no point keeps the invariant    *)
(* and removes no pack from the target.                                    *)
LEMMA Harmless ==
  ASSUME SweepSpares, NoNewPoint, UNCHANGED <<index, maint>>,
         rpacks \subseteq rpacks'
  PROVE  /\ SweepSpares'
         /\ (rpacks \ rpacks') \cap PacksOf(Referenced) = {}
BY FewerPoints DEF SweepSpares

(* Capture waits for the lock that the sweep holds while it deletes. *)
LEMMA CaptureSpares ==
  ASSUME SweepInv, NEW p \in Point, Capture(p)
  PROVE  SweepSpares' /\ (rpacks \ rpacks') \cap PacksOf(Referenced) = {}
BY DEF SweepSpares, Capture, CaptureExcluded, remoteVars

(* Enqueueing and pausing write sidecars and job files, no manifests. *)
LEMMA QueueSpares ==
  ASSUME SweepInv, NEW p \in Point,
         enqueue(p) \/ EnqueueJobs(p) \/ EnqueueState(p) \/ dequeue(p)
  PROVE  SweepSpares' /\ (rpacks \ rpacks') \cap PacksOf(Referenced) = {}
<1>1. NoNewPoint
  BY Zenon DEF NoNewPoint, enqueue, EnqueueJobs, EnqueueState, dequeue,
     repoVars
<1>2. UNCHANGED <<index, maint>> /\ rpacks \subseteq rpacks'
  BY Zenon DEF enqueue, EnqueueJobs, EnqueueState, dequeue, repoVars,
     remoteVars
<1>3. QED
  BY <1>1, <1>2, Harmless DEF SweepInv

(* A worker adds packs to the target and changes no manifest. *)
LEMMA WorkSpares ==
  ASSUME SweepInv, workNext \/ retryFailed \/ \E w \in Worker : fail(w)
  PROVE  SweepSpares' /\ (rpacks \ rpacks') \cap PacksOf(Referenced) = {}
<1>1. NoNewPoint
  BY ZenonT(60) DEF NoNewPoint, workNext, fail, retryFailed, process, readPack,
     putPack, MarkUploaded, completeNeeded, completeKnown, completePack,
     completeVerifying, buildLocmap, putManifest, putLocmap, protect, repoVars
<1>2. UNCHANGED <<index, maint>> /\ rpacks \subseteq rpacks'
  BY ZenonT(60) DEF workNext, fail, retryFailed, process, readPack, putPack,
     MarkUploaded, completeNeeded, completeKnown, completePack,
     completeVerifying, buildLocmap, putManifest, putLocmap, protect,
     repoVars, remoteVars
<1>3. QED
  BY <1>1, <1>2, Harmless DEF SweepInv

(* An expiry takes points away and deletes no pack. *)
LEMMA ExpirySpares ==
  ASSUME SweepInv,
         \/ \E p \in Point : expire(p) \/ expireRemoteOnly(p) \/ expireFails(p)
         \/ expireNext
  PROVE  SweepSpares' /\ (rpacks \ rpacks') \cap PacksOf(Referenced) = {}
<1>1. NoNewPoint
  BY Zenon DEF NoNewPoint, expireNext, expire, expireRemoteOnly, expireFails,
     RemoveJobs, ExpireRemoteLoad, ExpireRemoteSave, ExpireRemoteManifest,
     ExpireRemoteLocmap, SetRemoteState, repoVars
<1>2. UNCHANGED <<index, maint>> /\ rpacks \subseteq rpacks'
  BY Zenon DEF expireNext, expire, expireRemoteOnly, expireFails, RemoveJobs,
     ExpireRemoteLoad, ExpireRemoteSave, ExpireRemoteManifest,
     ExpireRemoteLocmap, SetRemoteState, repoVars, remoteVars
<1>3. QED
  BY <1>1, <1>2, Harmless DEF SweepInv

(* Maintenance: what sweepDecide put on the list excludes referencedPacks, *)
(* and only packs on the list are deleted.                                 *)
LEMMA MaintSpares ==
  ASSUME SweepInv, maintNext
  PROVE  SweepSpares' /\ (rpacks \ rpacks') \cap PacksOf(Referenced) = {}
<1>a. maint \in MaintState
  BY DEF SweepInv, TypeOK
<1>1. CASE collect \/ purge
  BY <1>1, Zenon DEF SweepSpares, collect, purge, IdleMaint, remoteVars
<1>2. CASE sweepLoad \/ sweepList \/ remoteReferences
  <2>1. maint'.pc \notin {"del", "forget"}
    <3>1. CASE sweepLoad
      BY <1>a, <3>1 DEF sweepLoad, IdleMaint, MaintState
    <3>2. CASE sweepList
      BY <1>a, <3>2 DEF sweepList, MaintState
    <3>3. CASE remoteReferences
      BY <1>a, <3>3 DEF remoteReferences, IdleMaint, MaintState
    <3>4. QED
      BY <1>2, <3>1, <3>2, <3>3
  <2>2. rpacks' = rpacks
    BY <1>2 DEF sweepLoad, sweepList, remoteReferences, remoteVars
  <2>3. QED
    BY <2>1, <2>2 DEF SweepSpares
<1>3. ASSUME sweepDecide \/ ForgetUploaded \/ sweepSave
      PROVE  PacksOf(Referenced)' = PacksOf(Referenced)
  BY <1>3 DEF sweepDecide, ForgetUploaded, sweepSave, repoVars, PacksOf,
     Referenced
<1>4. CASE sweepDecide
  <2>1. maint'.todo \cap PacksOf(Referenced) = {}
    BY <1>a, <1>4 DEF sweepDecide, referencedPacks, MaintState
  <2>2. QED
    BY <1>3, <1>4, <2>1 DEF SweepSpares, sweepDecide, remoteVars
<1>5. CASE ForgetUploaded \/ sweepSave
  <2>1. CASE ForgetUploaded
    <3>1. maint'.todo = maint.todo /\ rpacks' = rpacks
      BY <1>a, <2>1 DEF ForgetUploaded, MaintState, remoteVars
    <3>2. QED
      BY <1>3, <2>1, <3>1 DEF SweepInv, SweepSpares, ForgetUploaded
  <2>2. CASE sweepSave
    BY <2>2 DEF SweepSpares, sweepSave, IdleMaint, remoteVars
  <2>3. QED
    BY <1>5, <2>1, <2>2
<1>6. ASSUME NEW k \in maint.todo, sweepDelete(k)
      PROVE  SweepSpares' /\ (rpacks \ rpacks') \cap PacksOf(Referenced) = {}
  <2>1. PacksOf(Referenced)' = PacksOf(Referenced)
    BY <1>6 DEF sweepDelete, repoVars, PacksOf, Referenced
  <2>2. QED
    BY <1>a, <1>6, <2>1, ZenonT(60) DEF SweepInv, SweepSpares, MaintState,
       sweepDelete
<1>7. QED
  BY <1>1, <1>2, <1>4, <1>5, <1>6 DEF maintNext

(* A sweep never deletes from the target a pack in which a local restore   *)
(* point has chunks (SweepSparesLocalPacks), although SweepRemote lists    *)
(* the target and reads its references before it takes the capture lock.   *)
THEOREM SweepSafety == Spec => SweepSparesLocalPacks
<1>1. Init => SweepSpares
  BY DEF Init, SweepSpares, IdleMaint
<1>2. TypeOK /\ SweepSpares /\ [Next]_vars =>
        /\ SweepSpares'
        /\ [(rpacks \ rpacks') \cap PacksOf(Referenced) = {}]_vars
  <2> SUFFICES ASSUME SweepInv, [Next]_vars
               PROVE  SweepSpares' /\
                        ((rpacks \ rpacks') \cap PacksOf(Referenced) = {})
    BY DEF SweepInv
  <2>1. CASE pointNext
    BY <2>1, CaptureSpares, QueueSpares DEF pointNext
  <2>2. CASE workNext \/ retryFailed \/ \E w \in Worker : fail(w)
    BY <2>2, WorkSpares
  <2>3. CASE \/ \E p \in Point : \/ expire(p) \/ expireRemoteOnly(p)
                                 \/ expireFails(p)
             \/ expireNext
    BY <2>3, ExpirySpares
  <2>4. CASE maintNext
    BY <2>4, MaintSpares
  <2>5. CASE restart
    BY <2>5, Zenon DEF SweepSpares, restart, IdleMaint, remoteVars
  <2>6. CASE UNCHANGED vars
    BY <2>6 DEF vars, SweepInv, SweepSpares, PacksOf, Referenced
  <2>7. QED
    BY <2>1, <2>2, <2>3, <2>4, <2>5, <2>6 DEF Next
<1>3. QED
  BY <1>1, <1>2, TypeCorrect, PTL DEF Spec, SweepSparesLocalPacks
=============================================================================
