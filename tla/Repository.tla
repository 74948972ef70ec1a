----------------------------- MODULE Repository -----------------------------
(***************************************************************************)
(* The local backup repository of internal/backup: captures deduplicate    *)
(* chunks into immutable packs, manifests name the chunks of a restore     *)
(* point, garbage collection deletes dead packs and compacts mostly dead   *)
(* ones, and the process may die between any two file operations.          *)
(*                                                                         *)
(* A pack is named by the hash of its content, so here a pack IS the       *)
(* sequence of chunks it holds.  Encryption, compression and chunking only *)
(* decide which Chunk value a piece of a file is, and are abstracted away. *)
(***************************************************************************)
EXTENDS Integers, Sequences, FiniteSets, Functions

CONSTANTS
  Chunk,       \* chunk identities (keyed content hashes)
  Point,       \* restore point ids; each is captured at most once
  Trees,       \* the chunk sequences that walking a workload may yield
  Bytes(_),    \* the stored size of a set of chunks
  PackTarget,  \* a pack is flushed once its buffer reaches this size
  MaxCrashes,  \* bound on process crashes
  ResetMayFail \* whether Reset may meet a file error

ASSUME TreesAssumption == Trees \subseteq Seq(Chunk)
ASSUME OwnerAssumption == "gc" \notin Point
ASSUME BytesAssumption == \A S \in SUBSET Chunk : Bytes(S) \in Nat

VARIABLES
  packFile,   \* packs whose <id>.pack file exists
  idxFile,    \* packs whose <id>.idx file exists
  snap,       \* points whose manifest (<id>.snap) exists
  stateFile,  \* points whose sidecar (<id>.state) exists
  tree,       \* tree[p]: the chunks the capture of p reads, in walk order
  up,         \* the agent process is running with the repository open
  index,      \* in-memory chunk index: a function from known chunks to packs
  cap,        \* cap[p]: how far the capture of p got
  pos,        \* pos[p]: the next chunk of tree[p] to store
  writer,     \* pack writers: one per capture and one of the collector
  gc,         \* the collector
  wiped,      \* history: points that an operator's Reset set out to delete
  crashes     \* number of crashes so far

vars == <<packFile, idxFile, snap, stateFile, tree, up, index, cap, pos,
          writer, gc, wiped, crashes>>

Pack == Seq(Chunk)
Owner == Point \cup {"gc"}

NoWriter == [buf |-> <<>>, staged |-> {}, flush |-> "no"]
IdleGC == [phase |-> "idle", ref |-> {}, todo |-> {}, repack |-> {},
           copy |-> {}, src |-> <<>>, del |-> <<>>]

WriterState == [buf : Seq(Chunk), staged : SUBSET Chunk,
                flush : {"no", "due", "pack", "idx"}]
GCState == [phase : {"idle", "delete", "copy", "purge", "reset"},
            ref : SUBSET Chunk, todo : SUBSET Pack, repack : SUBSET Pack,
            copy : SUBSET Pack, src : Seq(Chunk), del : Pack]

CapActive == {"walk", "commit", "manifest"}

(* Mutant: captures do not take the lock. *)
CaptureUnlocked == FALSE

(* capture.RLock is held by every capture in progress and capture.Lock by  *)
(* the collector (or Reset) while it runs.                                 *)
CaptureLocked == \E p \in Point : cap[p] \in CapActive
Exclusive == gc.phase # "idle"

(* The chunks a point's manifest names. *)
Manifest(p) == Range(tree[p])

(* referencedChunks: what the manifests on disk need. *)
Referenced == UNION {Manifest(p) : p \in snap}

Live(k, ref) == Range(k) \cap ref

(* Below the repack live ratio, 1/2. *)
MostlyDead(k, ref) == 2 * Bytes(Live(k, ref)) < Bytes(Range(k))

Init ==
  /\ packFile = {} /\ idxFile = {} /\ snap = {} /\ stateFile = {}
  /\ tree = [p \in Point |-> <<>>]
  /\ up = TRUE
  /\ index = <<>>
  /\ cap = [p \in Point |-> "new"]
  /\ pos = [p \in Point |-> 1]
  /\ writer = [o \in Owner |-> NoWriter]
  /\ gc = IdleGC
  /\ wiped = {}
  /\ crashes = 0

-----------------------------------------------------------------------------
(* The pack writer, shared by captures and by compaction. *)

(* packWriter.add of a chunk that is not stored yet. *)
Stage(w, c) ==
  [buf    |-> Append(w.buf, c),
   staged |-> w.staged \cup {c},
   flush  |-> IF Bytes(Range(w.buf) \cup {c}) >= PackTarget THEN "due"
              ELSE "no"]

(* flush, first step: the pack file is written and renamed into place. *)
flushPack(o) ==
  /\ up
  /\ writer[o].flush = "due"
  /\ packFile' = packFile \cup {writer[o].buf}
  /\ writer' = [writer EXCEPT ![o].flush = "pack"]
  /\ UNCHANGED <<idxFile, snap, stateFile, tree, up, index, cap, pos, gc,
                 wiped, crashes>>

(* flush, second step: its index file commits it. *)
flushIdx(o) ==
  /\ up
  /\ writer[o].flush = "pack"
  /\ idxFile' = idxFile \cup {writer[o].buf}
  /\ writer' = [writer EXCEPT ![o].flush = "idx"]
  /\ UNCHANGED <<packFile, snap, stateFile, tree, up, index, cap, pos, gc,
                 wiped, crashes>>

(* Mutant: a location that is known already is kept. *)
setLocationOnce(k) ==
  [c \in DOMAIN index \cup Range(k) |-> IF c \in DOMAIN index THEN index[c]
                                       ELSE k]

(* setLocation for every entry of pack k: the newest location wins. *)
setLocation(k) ==
  [c \in DOMAIN index \cup Range(k) |-> IF c \in Range(k) THEN k ELSE index[c]]

(* flush, last step: setLocation of every entry, and the buffer is reset. *)
(* The staged set is kept, as in the code.                                *)
flushIndex(o) ==
  /\ up
  /\ writer[o].flush = "idx"
  /\ index' = setLocation(writer[o].buf)
  /\ writer' = [writer EXCEPT ![o].flush = "no", ![o].buf = <<>>]
  /\ UNCHANGED <<packFile, idxFile, snap, stateFile, tree, up, cap, pos, gc,
                 wiped, crashes>>

-----------------------------------------------------------------------------
(* Capture. *)

(* Mutant: the walk starts before the first chunk. *)
beginCaptureAtZero(p) ==
  /\ up
  /\ ~Exclusive
  /\ cap[p] = "new"
  /\ cap' = [cap EXCEPT ![p] = "walk"]
  /\ pos' = [pos EXCEPT ![p] = 0]
  /\ \E t \in Trees : tree' = [tree EXCEPT ![p] = t]
  /\ UNCHANGED <<packFile, idxFile, snap, stateFile, up, index, writer, gc,
                 wiped, crashes>>

(* Capture takes the shared lock and starts to walk the workload's files. *)
beginCapture(p) ==
  /\ up
  /\ ~Exclusive
  /\ cap[p] = "new"
  /\ cap' = [cap EXCEPT ![p] = "walk"]
  /\ \E t \in Trees : tree' = [tree EXCEPT ![p] = t]
  /\ UNCHANGED <<packFile, idxFile, snap, stateFile, up, index, pos, writer,
                 gc, wiped, crashes>>

(* captureFile for one chunk: an indexed or staged chunk is only           *)
(* referenced, any other is staged.  A file whose cached chunk list is     *)
(* reused takes the first branch for each of its chunks (allPresent).      *)
captureFile(p) ==
  /\ up
  /\ cap[p] = "walk"
  /\ writer[p].flush = "no"
  /\ pos[p] <= Len(tree[p])
  /\ pos' = [pos EXCEPT ![p] = @ + 1]
  /\ LET c == tree[p][pos[p]]
     IN  writer' = IF c \in DOMAIN index \cup writer[p].staged
                   THEN writer
                   ELSE [writer EXCEPT ![p] = Stage(writer[p], c)]
  /\ UNCHANGED <<packFile, idxFile, snap, stateFile, tree, up, index, cap, gc,
                 wiped, crashes>>

(* Mutant: the last flush is forgotten. *)
endWalkUnflushed(p) ==
  /\ up
  /\ cap[p] = "walk"
  /\ writer[p].flush = "no"
  /\ pos[p] > Len(tree[p])
  /\ cap' = [cap EXCEPT ![p] = "commit"]
  /\ UNCHANGED <<packFile, idxFile, snap, stateFile, tree, up, index, pos,
                 writer, gc, wiped, crashes>>

(* The walk is over: what is still buffered is flushed first. *)
endWalk(p) ==
  /\ up
  /\ cap[p] = "walk"
  /\ writer[p].flush = "no"
  /\ pos[p] > Len(tree[p])
  /\ \/ /\ writer[p].buf # <<>>
        /\ writer' = [writer EXCEPT ![p].flush = "due"]
        /\ UNCHANGED cap
     \/ /\ writer[p].buf = <<>>
        /\ cap' = [cap EXCEPT ![p] = "commit"]
        /\ UNCHANGED writer
  /\ UNCHANGED <<packFile, idxFile, snap, stateFile, tree, up, index, pos, gc,
                 wiped, crashes>>

(* The manifest makes the restore point exist. *)
writeManifest(p) ==
  /\ up
  /\ cap[p] = "commit"
  /\ snap' = snap \cup {p}
  /\ cap' = [cap EXCEPT ![p] = "manifest"]
  /\ UNCHANGED <<packFile, idxFile, stateFile, tree, up, index, pos, writer,
                 gc, wiped, crashes>>

(* The state sidecar is the last write; the shared lock is released. *)
writeState(p) ==
  /\ up
  /\ cap[p] = "manifest"
  /\ stateFile' = stateFile \cup {p}
  /\ cap' = [cap EXCEPT ![p] = "done"]
  /\ UNCHANGED <<packFile, idxFile, snap, tree, up, index, pos, writer, gc,
                 wiped, crashes>>

(* A cancelled context, a read error, the workspace guard or a failed      *)
(* write ends the capture with whatever it has written left behind.        *)
captureFails(p) ==
  /\ up
  /\ cap[p] \in CapActive
  /\ cap' = [cap EXCEPT ![p] = "failed"]
  /\ writer' = [writer EXCEPT ![p] = NoWriter]
  /\ UNCHANGED <<packFile, idxFile, snap, stateFile, tree, up, index, pos, gc,
                 wiped, crashes>>

-----------------------------------------------------------------------------
(* Garbage collection and compaction. *)

(* Mutant: packs are listed by their pack files. *)
packListByPack == packFile

(* packList: packs are listed by their index files. *)
packList == idxFile

(* CollectGarbageWith takes the exclusive lock, reads every manifest, and  *)
(* sorts the indexed packs into dead ones and compaction candidates.       *)
gcStart ==
  /\ up
  /\ ~Exclusive
  /\ ~CaptureLocked
  /\ gc' = [IdleGC EXCEPT
              !.phase  = "delete",
              !.ref    = Referenced,
              !.todo   = {k \in packList : Live(k, Referenced) = {}},
              !.repack = {k \in packList : /\ Live(k, Referenced) # {}
                                           /\ MostlyDead(k, Referenced)}]
  /\ UNCHANGED <<packFile, idxFile, snap, stateFile, tree, up, index, cap,
                 pos, writer, wiped, crashes>>

(* deletePack, first step: no index entry may lead to the pack any more. *)
deletePackEntries(k) ==
  /\ up
  /\ gc.phase \in {"delete", "purge"}
  /\ gc.del = <<>>
  /\ k \in gc.todo
  /\ gc' = [gc EXCEPT !.del = k]
  /\ index' = Restrict(index, {c \in DOMAIN index : index[c] # k})
  /\ UNCHANGED <<packFile, idxFile, snap, stateFile, tree, up, cap, pos,
                 writer, wiped, crashes>>

(* deletePack, second step: the pack file goes (its absence is no error). *)
deletePackFile ==
  /\ up
  /\ gc.del # <<>>
  /\ gc.del \in packFile
  /\ packFile' = packFile \ {gc.del}
  /\ UNCHANGED <<idxFile, snap, stateFile, tree, up, index, cap, pos, writer,
                 gc, wiped, crashes>>

(* deletePack, last step: the index file goes.  (The code does not look    *)
(* whether the pack file went; here, as elsewhere, removing a file works.) *)
deletePackIdx ==
  /\ up
  /\ gc.del # <<>>
  /\ gc.del \notin packFile
  /\ idxFile' = idxFile \ {gc.del}
  /\ gc' = [gc EXCEPT !.todo = @ \ {gc.del}, !.del = <<>>]
  /\ UNCHANGED <<packFile, snap, stateFile, tree, up, index, cap, pos, writer,
                 wiped, crashes>>

(* All dead packs are gone and there is space to rewrite the candidates. *)
gcRepack ==
  /\ up
  /\ gc.phase = "delete"
  /\ gc.todo = {}
  /\ gc.repack # {}
  /\ gc' = [gc EXCEPT !.phase = "copy", !.copy = gc.repack]
  /\ UNCHANGED <<packFile, idxFile, snap, stateFile, tree, up, index, cap,
                 pos, writer, wiped, crashes>>

(* copyLive opens a candidate's pack file; without it the whole collection *)
(* fails (gcFails).                                                        *)
copyLive(k) ==
  /\ up
  /\ gc.phase = "copy"
  /\ gc.src = <<>>
  /\ writer["gc"].flush = "no"
  /\ k \in gc.copy
  /\ k \in packFile
  /\ gc' = [gc EXCEPT !.copy = @ \ {k}, !.src = k]
  /\ UNCHANGED <<packFile, idxFile, snap, stateFile, tree, up, index, cap,
                 pos, writer, wiped, crashes>>

(* copyLive for one entry: a dead chunk is passed over, and add with       *)
(* rewrite set skips only what this writer has staged already.             *)
copyChunk ==
  /\ up
  /\ gc.phase = "copy"
  /\ gc.src # <<>>
  /\ writer["gc"].flush = "no"
  /\ LET c == Head(gc.src)
     IN  writer' = IF c \notin gc.ref \/ c \in writer["gc"].staged
                   THEN writer
                   ELSE [writer EXCEPT !["gc"] = Stage(writer["gc"], c)]
  /\ gc' = [gc EXCEPT !.src = Tail(@)]
  /\ UNCHANGED <<packFile, idxFile, snap, stateFile, tree, up, index, cap,
                 pos, wiped, crashes>>

(* Mutant: the candidates are deleted before the last copies are flushed. *)
copyDoneUnflushed ==
  /\ up
  /\ gc.phase = "copy"
  /\ gc.copy = {}
  /\ gc.src = <<>>
  /\ writer["gc"].flush = "no"
  /\ writer' = [writer EXCEPT !["gc"] = NoWriter]
  /\ gc' = [gc EXCEPT !.phase = "purge", !.todo = gc.repack]
  /\ UNCHANGED <<packFile, idxFile, snap, stateFile, tree, up, index, cap,
                 pos, wiped, crashes>>

(* Everything is copied: flush the rest, then delete the candidates. *)
copyDone ==
  /\ up
  /\ gc.phase = "copy"
  /\ gc.copy = {}
  /\ gc.src = <<>>
  /\ writer["gc"].flush = "no"
  /\ \/ /\ writer["gc"].buf # <<>>
        /\ writer' = [writer EXCEPT !["gc"].flush = "due"]
        /\ UNCHANGED gc
     \/ /\ writer["gc"].buf = <<>>
        /\ writer' = [writer EXCEPT !["gc"] = NoWriter]
        /\ gc' = [gc EXCEPT !.phase = "purge", !.todo = gc.repack]
  /\ UNCHANGED <<packFile, idxFile, snap, stateFile, tree, up, index, cap,
                 pos, wiped, crashes>>

(* The collection ends: after the purge, when there is nothing to compact, *)
(* or when free space is unknown or too short to rewrite (RepackSkipped).  *)
gcEnd ==
  /\ up
  /\ gc.phase \in {"delete", "purge"}
  /\ gc.todo = {}
  /\ gc' = IdleGC
  /\ UNCHANGED <<packFile, idxFile, snap, stateFile, tree, up, index, cap,
                 pos, writer, wiped, crashes>>

(* Any file error makes CollectGarbageWith return where it stands. *)
gcFails ==
  /\ up
  /\ gc.phase \in {"delete", "copy", "purge"}
  /\ gc' = IdleGC
  /\ writer' = [writer EXCEPT !["gc"] = NoWriter]
  /\ UNCHANGED <<packFile, idxFile, snap, stateFile, tree, up, index, cap,
                 pos, wiped, crashes>>

-----------------------------------------------------------------------------
(* Deletion, reset, crash and recovery. *)

(* DeleteRestorePoint, first step.  It takes no lock at all. *)
deleteSnap(p) ==
  /\ up
  /\ p \in stateFile
  /\ p \in snap
  /\ snap' = snap \ {p}
  /\ UNCHANGED <<packFile, idxFile, stateFile, tree, up, index, cap, pos,
                 writer, gc, wiped, crashes>>

(* DeleteRestorePoint, second step (or a retry after a crash between); it  *)
(* too ignores whether the first removal worked, which here it does.       *)
deleteState(p) ==
  /\ up
  /\ p \in stateFile
  /\ p \notin snap
  /\ stateFile' = stateFile \ {p}
  /\ UNCHANGED <<packFile, idxFile, snap, tree, up, index, cap, pos, writer,
                 gc, wiped, crashes>>

(* Reset takes the exclusive lock and clears packs/, then snapshots/ with  *)
(* .snap and .state in any order; K, J, S and T are the files still there  *)
(* at some moment of it.                                                   *)
resetClear ==
  /\ up
  /\ ~Exclusive
  /\ ~CaptureLocked
  /\ gc' = [IdleGC EXCEPT !.phase = "reset"]
  /\ wiped' = wiped \cup snap \cup stateFile
  /\ \E K \in SUBSET packFile, J \in SUBSET idxFile,
        S \in SUBSET snap, T \in SUBSET stateFile :
       /\ S # snap \/ T # stateFile => K = {} /\ J = {}
       /\ packFile' = K /\ idxFile' = J /\ snap' = S /\ stateFile' = T
  /\ UNCHANGED <<tree, up, index, cap, pos, writer, crashes>>

(* Reset ends: everything is gone and the index is forgotten. *)
resetDone ==
  /\ up
  /\ gc.phase = "reset"
  /\ packFile' = {} /\ idxFile' = {} /\ snap' = {} /\ stateFile' = {}
  /\ index' = <<>>
  /\ gc' = IdleGC
  /\ UNCHANGED <<tree, up, cap, pos, writer, wiped, crashes>>

(* A file that cannot be removed makes Reset return where it stands, with  *)
(* the index as it was.                                                    *)
resetFails ==
  /\ up
  /\ ResetMayFail
  /\ gc.phase = "reset"
  /\ gc' = IdleGC
  /\ UNCHANGED <<packFile, idxFile, snap, stateFile, tree, up, index, cap,
                 pos, writer, wiped, crashes>>

(* The agent dies; everything in memory is lost. *)
crash ==
  /\ up
  /\ crashes < MaxCrashes
  /\ crashes' = crashes + 1
  /\ up' = FALSE
  /\ index' = <<>>
  /\ cap' = [p \in Point |-> IF cap[p] \in CapActive THEN "failed" ELSE cap[p]]
  /\ writer' = [o \in Owner |-> NoWriter]
  /\ gc' = IdleGC
  /\ UNCHANGED <<packFile, idxFile, snap, stateFile, tree, pos, wiped>>

(* OpenRepository: a pack file without its index is a torn flush and is    *)
(* removed; the index is rebuilt from the others, where of two packs that  *)
(* hold a chunk the one read last wins; a manifest without a sidecar gets  *)
(* one.                                                                    *)
OpenRepository ==
  /\ ~up
  /\ up' = TRUE
  /\ packFile' = packFile \cap idxFile
  /\ index' \in {f \in [UNION {Range(k) : k \in packFile \cap idxFile} ->
                          packFile \cap idxFile] :
                   \A c \in DOMAIN f : c \in Range(f[c])}
  /\ stateFile' = stateFile \cup snap
  /\ UNCHANGED <<idxFile, snap, tree, cap, pos, writer, gc, wiped, crashes>>

-----------------------------------------------------------------------------

captureNext ==
  \E p \in Point : \/ beginCapture(p)  \/ captureFile(p) \/ endWalk(p)
                   \/ writeManifest(p) \/ writeState(p)  \/ captureFails(p)

flushNext ==
  \E o \in Owner : flushPack(o) \/ flushIdx(o) \/ flushIndex(o)

deletePackNext ==
  \/ \E k \in gc.todo : deletePackEntries(k)
  \/ deletePackFile
  \/ deletePackIdx

compactNext ==
  \/ gcRepack
  \/ \E k \in gc.copy : copyLive(k)
  \/ copyChunk
  \/ copyDone

deleteNext == \E p \in Point : deleteSnap(p) \/ deleteState(p)

Next ==
  \/ captureNext
  \/ flushNext
  \/ gcStart
  \/ deletePackNext
  \/ compactNext
  \/ gcEnd
  \/ gcFails
  \/ deleteNext
  \/ resetClear
  \/ resetDone
  \/ resetFails
  \/ crash
  \/ OpenRepository

Spec == Init /\ [][Next]_vars

(* Maintenance runs again and again (after every expiry, failed capture    *)
(* and retention pass), so a collection that can start eventually starts,  *)
(* file errors are not permanent, and a dead agent is restarted by systemd.*)
FairSpec ==
  /\ Spec
  /\ WF_vars(OpenRepository)
  /\ WF_vars(flushNext)
  /\ WF_vars(\E p \in Point : captureFile(p) \/ endWalk(p)
                              \/ writeManifest(p) \/ writeState(p))
  /\ SF_vars(gcStart)
  /\ SF_vars(\E k \in gc.todo : deletePackEntries(k))
  /\ SF_vars(deletePackFile)
  /\ SF_vars(deletePackIdx)
  /\ WF_vars(gcEnd \/ gcFails)
  /\ WF_vars(resetDone \/ resetFails)

-----------------------------------------------------------------------------
(* Properties. *)

(* The types of the variables. *)
TypeOK ==
  /\ packFile \subseteq Pack
  /\ idxFile \subseteq Pack
  /\ snap \subseteq Point
  /\ stateFile \subseteq Point
  /\ tree \in [Point -> Seq(Chunk)]
  /\ up \in BOOLEAN
  /\ DOMAIN index \subseteq Chunk
  /\ \A c \in DOMAIN index : index[c] \in Pack
  /\ cap \in [Point -> {"new", "walk", "commit", "manifest", "done", "failed"}]
  /\ pos \in [Point -> Nat \ {0}]
  /\ writer \in [Owner -> WriterState]
  /\ gc \in GCState
  /\ wiped \subseteq Point
  /\ crashes \in Nat

(* The chunks found in a pack that has both of its files. *)
Stored == UNION {Range(k) : k \in packFile \cap idxFile}

(* Every chunk of every restore point is on disk in a committed pack, at   *)
(* every moment: while packs are compacted, after a crash in the middle of *)
(* anything, before and after recovery.  Only Reset gives a point up.      *)
PointsDurable ==
  \A p \in snap \ wiped : Manifest(p) \subseteq Stored

(* While the repository is open the in-memory index leads every chunk of   *)
(* every restore point to a pack file that exists and holds it, so Verify  *)
(* passes and a restore that starts now finds its data.                    *)
PointsReadable ==
  up => \A p \in snap \ wiped : \A c \in Manifest(p) :
          /\ c \in DOMAIN index
          /\ index[c] \in packFile
          /\ c \in Range(index[c])

(* A capture never relies on a chunk that is not there: everything it has  *)
(* walked over is in a committed pack or still in its own buffer, although *)
(* other captures flush and points are expired meanwhile.                  *)
(* docs/backup-engine-v2.md:90: chunks are reused only when "every         *)
(* referenced chunk is still present in the repository".                   *)
DedupIsSafe ==
  \A p \in Point : cap[p] \in CapActive =>
    \A i \in 1 .. pos[p] - 1 :
      tree[p][i] \in Stored \cup Range(writer[p].buf)

(* The abstract view: content is what the committed packs can give back. *)
Store ==
  INSTANCE PointStore WITH
    offered <- [p \in Point |-> Manifest(p)],
    seen    <- {p \in Point : cap[p] \notin {"new", "walk", "commit"}},
    points  <- [p \in snap \ wiped |-> Manifest(p) \cap Stored]

(* The repository implements the abstract point store: points appear whole *)
(* and at once, never change, and never come back after their expiry.      *)
ImplementsPointStore == Store!Spec

(* The index file of pack k is on disk and no manifest needs the pack. *)
DeadPack(k) == k \in idxFile /\ Live(k, Referenced) = {}
=============================================================================
