--------------------------- MODULE RepositoryInv ----------------------------
(***************************************************************************)
(* The inductive invariant of the local repository.  PointsDurable,        *)
(* PointsReadable and DedupIsSafe hold because of what the locks, the      *)
(* writers and the collector maintain between them; each conjunct below    *)
(* states one of those agreements.                                         *)
(***************************************************************************)
EXTENDS Repository

Walking(p) == cap[p] \in {"new", "walk", "commit"}
Collecting == gc.phase \in {"delete", "copy", "purge"}

(* The capture lock: who may be in the middle of what, and what a dead     *)
(* process leaves.                                                         *)
LocksHeld ==
  /\ Exclusive => ~CaptureLocked
  /\ ~up => gc = IdleGC /\ ~CaptureLocked /\ DOMAIN index = {}
  /\ \A p \in Point : cap[p] # "walk" => writer[p].flush = "no"
  /\ \A p \in Point : cap[p] = "new" => pos[p] = 1 /\ writer[p] = NoWriter
  /\ gc.phase # "copy" => writer["gc"] = NoWriter
  /\ gc.del # <<>> => gc.phase \in {"delete", "purge"} /\ gc.del \in gc.todo

(* A flush that has passed a step finds the file that step wrote. *)
FlushesOrdered ==
  \A o \in Owner :
    /\ writer[o].flush \in {"pack", "idx"} => writer[o].buf \in packFile
    /\ writer[o].flush = "idx" => writer[o].buf \in idxFile

(* The index is sound: it leads to committed packs only, and never to one  *)
(* that is being deleted.                                                  *)
IndexSound ==
  gc.phase # "reset" =>
    \A c \in DOMAIN index :
      /\ index[c] \in packFile
      /\ index[c] \in idxFile
      /\ c \in Range(index[c])
      /\ gc.del # <<>> => index[c] # gc.del

(* The index is complete for the points, unless Reset is wiping them. *)
PointsIndexed ==
  /\ up /\ gc.phase # "reset" =>
       \A p \in snap \ wiped : Manifest(p) \subseteq DOMAIN index
  /\ gc.phase = "reset" => snap \subseteq wiped

(* A capture's point does not exist before its manifest does, and when it  *)
(* does everything is flushed.                                             *)
CapturesOrdered ==
  \A p \in Point :
    /\ Walking(p) => p \notin snap \cup stateFile \cup wiped
    /\ cap[p] = "commit" => pos[p] > Len(tree[p]) /\ writer[p].buf = <<>>
    /\ cap[p] \in CapActive =>
         writer[p].staged \subseteq DOMAIN index \cup Range(writer[p].buf)

(* What the collector takes for referenced covers all points, and nothing  *)
(* it is about to delete is where the index finds a referenced chunk.      *)
CollectorSpares ==
  /\ Collecting => \A p \in snap : Manifest(p) \subseteq gc.ref
  /\ gc.phase \in {"delete", "purge"} =>
       \A c \in DOMAIN index : c \in gc.ref => index[c] \notin gc.todo
  /\ gc.phase \in {"delete", "copy"} =>
       \A k \in gc.repack : ~(Range(k) \subseteq gc.ref)

(* While compaction copies: each referenced chunk of a candidate is copied *)
(* already or still ahead, and copies never end up in a candidate.         *)
CompactionCopies ==
  gc.phase = "copy" =>
    /\ Range(writer["gc"].buf) \subseteq gc.ref
    /\ \A c \in writer["gc"].staged :
         \/ c \in Range(writer["gc"].buf)
         \/ c \in DOMAIN index /\ index[c] \notin gc.repack
    /\ \A c \in DOMAIN index :
         c \in gc.ref /\ index[c] \in gc.repack =>
           \/ c \in writer["gc"].staged
           \/ index[c] \in gc.copy
           \/ c \in Range(gc.src)

(* What a capture has walked over is indexed or in its own buffer. *)
WalkedIsKnown ==
  \A p \in Point : cap[p] \in CapActive =>
    \A i \in 1 .. pos[p] - 1 :
      tree[p][i] \in DOMAIN index \cup Range(writer[p].buf)

(* The inductive invariant: together the agreements above are preserved by *)
(* every step of the capture engine, the collector, expiry, Reset and      *)
(* recovery, as long as Reset meets no file error.                         *)
IInv ==
  /\ TypeOK
  /\ LocksHeld
  /\ FlushesOrdered
  /\ IndexSound
  /\ PointsIndexed
  /\ CapturesOrdered
  /\ CollectorSpares
  /\ CompactionCopies
  /\ WalkedIsKnown
  /\ PointsDurable
=============================================================================
