-------------------------- MODULE RepositoryProofs --------------------------
(***************************************************************************)
(* Proofs about the local repository, for every set of chunks and points,  *)
(* every set of trees, size function, pack target and number of crashes.   *)
(* Type correctness comes first; then one lemma per action shows that the  *)
(* action keeps the inductive invariant IInv; durability, readability and  *)
(* safe deduplication follow from it.  All but type correctness assume     *)
(* that Reset meets no file error, because a Reset that does leaves an     *)
(* index behind that leads to packs it has removed.                        *)
(***************************************************************************)
EXTENDS RepositoryInv, TLAPS

(* What appending to a pack writer's buffer adds to its chunks. *)
LEMMA RangeAppend ==
  ASSUME NEW S, NEW s \in Seq(S), NEW c \in S
  PROVE  /\ Append(s, c) \in Seq(S)
         /\ Append(s, c) # <<>>
         /\ Range(Append(s, c)) = Range(s) \cup {c}
BY DEF Range

(* The chunks of a sequence are its elements. *)
LEMMA RangeSeq ==
  ASSUME NEW S, NEW s \in Seq(S)
  PROVE  /\ Range(s) \subseteq S
         /\ \A i \in 1 .. Len(s) : s[i] \in Range(s)
         /\ \A c \in Range(s) : \E i \in 1 .. Len(s) : c = s[i]
BY DEF Range

(* The empty buffer is a buffer. *)
LEMMA EmptySeq == ASSUME NEW S PROVE <<>> \in Seq(S)
OBVIOUS

(* The empty buffer holds no chunk. *)
LEMMA RangeEmpty == Range(<<>>) = {}
BY DEF Range

(* copyLive takes the entries of a pack one by one. *)
LEMMA RangeTail ==
  ASSUME NEW S, NEW s \in Seq(S), s # <<>>
  PROVE  /\ Head(s) \in S
         /\ Tail(s) \in Seq(S)
         /\ Range(s) = {Head(s)} \cup Range(Tail(s))
<1>1. Head(s) \in S /\ Tail(s) \in Seq(S) /\ Len(s) \in Nat \ {0}
  OBVIOUS
<1>2. Range(s) \subseteq {Head(s)} \cup Range(Tail(s))
  <2>1. SUFFICES ASSUME NEW i \in 1 .. Len(s), i # 1
                 PROVE  s[i] \in Range(Tail(s))
    BY <1>1 DEF Range
  <2>2. i - 1 \in 1 .. Len(Tail(s)) /\ s[i] = Tail(s)[i - 1]
    BY <1>1, <2>1
  <2>3. QED
    BY <1>1, <2>2, RangeSeq, Zenon
<1>3. {Head(s)} \cup Range(Tail(s)) \subseteq Range(s)
  BY <1>1 DEF Range
<1>4. QED
  BY <1>1, <1>2, <1>3

-----------------------------------------------------------------------------
(* Type correctness. *)

(* A fresh packWriter and an idle collector have their types. *)
LEMMA InitialStates ==
  /\ NoWriter \in WriterState
  /\ IdleGC \in GCState
BY EmptySeq DEF NoWriter, WriterState, IdleGC, GCState, Pack

(* packWriter.add keeps the type of the writer. *)
LEMMA StageType ==
  ASSUME NEW w \in WriterState,
         NEW c \in Chunk
  PROVE  Stage(w, c) \in WriterState
BY DEF Stage, WriterState

(* Every step of captures, collector, expiry, Reset and recovery keeps the *)
(* variables in their types (TypeOK).                                      *)
THEOREM TypeCorrect == Spec => []TypeOK
<1>1. Init => TypeOK
  BY OwnerAssumption
     DEF Init, TypeOK, NoWriter, IdleGC, Pack, WriterState, GCState
<1>2. TypeOK /\ [Next]_vars => TypeOK'
  <2> SUFFICES ASSUME TypeOK, [Next]_vars
               PROVE  TypeOK'
    OBVIOUS
  <2>0. <<>> \in Seq(Chunk)
    BY EmptySeq
  <2> USE <2>0 DEF TypeOK
  <2>1. ASSUME NEW p \in Point, beginCapture(p)
        PROVE  TypeOK'
    BY <2>1, TreesAssumption DEF beginCapture
  <2>2. ASSUME NEW p \in Point, captureFile(p)
        PROVE  TypeOK'
    <3>1. tree[p][pos[p]] \in Chunk
      BY <2>2 DEF captureFile
    <3>2. writer' \in [Owner -> WriterState]
      BY <2>2, <3>1, StageType DEF captureFile, Owner
    <3>3. QED
      BY <2>2, <3>2 DEF captureFile
  <2>3. ASSUME NEW p \in Point, endWalk(p)
        PROVE  TypeOK'
    <3>1. CASE writer' = [writer EXCEPT ![p].flush = "due"] /\ UNCHANGED cap
      BY <2>3, <3>1, ZenonT(60) DEF endWalk, Owner, WriterState
    <3>2. CASE UNCHANGED writer /\ cap' = [cap EXCEPT ![p] = "commit"]
      BY <2>3, <3>2 DEF endWalk
    <3>3. QED
      BY <2>3, <3>1, <3>2 DEF endWalk
  <2>4. ASSUME NEW p \in Point, writeManifest(p) \/ writeState(p)
        PROVE  TypeOK'
    BY <2>4, Zenon DEF writeManifest, writeState
  <2>5. ASSUME NEW p \in Point, captureFails(p)
        PROVE  TypeOK'
    BY <2>5 DEF captureFails, NoWriter, Owner, WriterState
  <2>6. ASSUME NEW o \in Owner, flushPack(o) \/ flushIdx(o)
        PROVE  TypeOK'
    <3>1. writer[o].buf \in Pack
      BY DEF WriterState, Pack
    <3>2. CASE flushPack(o)
      BY <3>1, <3>2, Zenon DEF flushPack, WriterState
    <3>3. CASE flushIdx(o)
      BY <3>1, <3>3, Zenon DEF flushIdx, WriterState
    <3>4. QED
      BY <2>6, <3>2, <3>3
  <2>7. ASSUME NEW o \in Owner, flushIndex(o)
        PROVE  TypeOK'
    <3>1. Range(writer[o].buf) \subseteq Chunk
      BY RangeSeq DEF WriterState
    <3>2. /\ DOMAIN index' \subseteq Chunk
          /\ \A c \in DOMAIN index' : index'[c] \in Pack
      BY <2>7, <3>1 DEF flushIndex, setLocation, Pack, WriterState
    <3>3. writer' \in [Owner -> WriterState]
      BY <2>7, ZenonT(60) DEF flushIndex, setLocation, WriterState
    <3>4. QED
      BY <2>7, <3>2, <3>3, Zenon DEF flushIndex, setLocation
  <2>8. CASE gcStart
    <3>1. Referenced \subseteq Chunk
      BY RangeSeq DEF Referenced, Manifest
    <3>2. QED
      BY <2>8, <3>1, Zenon DEF gcStart, packList, IdleGC, GCState, Pack
  <2>9. ASSUME NEW k \in gc.todo, deletePackEntries(k)
        PROVE  TypeOK'
    BY <2>9, Zenon DEF deletePackEntries, Restrict, GCState
  <2>10. CASE deletePackFile
    BY <2>10 DEF deletePackFile
  <2>11. CASE deletePackIdx
    BY <2>11, Zenon DEF deletePackIdx, Pack, GCState
  <2>12. CASE gcRepack
    BY <2>12, Zenon DEF gcRepack, GCState
  <2>13. ASSUME NEW k \in gc.copy, copyLive(k)
         PROVE  TypeOK'
    BY <2>13, Zenon DEF copyLive, Pack, GCState
  <2>14. CASE copyChunk
    <3>1. Head(gc.src) \in Chunk /\ Tail(gc.src) \in Seq(Chunk)
      BY <2>14 DEF copyChunk, GCState
    <3>2. writer' \in [Owner -> WriterState]
      BY <2>14, <3>1, StageType DEF copyChunk, Owner
    <3>3. QED
      BY <2>14, <3>1, <3>2, Zenon DEF copyChunk, GCState
  <2>15. CASE copyDone
    <3>1. "gc" \in Owner
      BY DEF Owner
    <3>2. CASE writer' = [writer EXCEPT !["gc"].flush = "due"] /\ UNCHANGED gc
      BY <2>15, <3>1, <3>2, ZenonT(60) DEF copyDone, WriterState
    <3>3. CASE /\ writer' = [writer EXCEPT !["gc"] = NoWriter]
               /\ gc' = [gc EXCEPT !.phase = "purge", !.todo = gc.repack]
      <4>1. writer' \in [Owner -> WriterState]
        BY <3>1, <3>3, InitialStates
      <4>2. gc' \in GCState
        BY <3>3, Zenon DEF GCState
      <4>3. QED
        BY <2>15, <4>1, <4>2 DEF copyDone
    <3>4. QED
      BY <2>15, <3>2, <3>3 DEF copyDone
  <2>16. CASE gcEnd \/ gcFails
    BY <2>16, InitialStates DEF gcEnd, gcFails, Owner
  <2>17. ASSUME NEW p \in Point, deleteSnap(p) \/ deleteState(p)
         PROVE  TypeOK'
    BY <2>17 DEF deleteSnap, deleteState
  <2>18. CASE resetClear \/ resetFails
    <3>1. gc' \in GCState
      BY <2>18, InitialStates, Zenon DEF resetClear, resetFails, GCState
    <3>2. QED
      BY <2>18, <3>1 DEF resetClear, resetFails
  <2>19. CASE resetDone \/ crash
    <3>1. /\ gc' \in GCState
          /\ writer' \in [Owner -> WriterState]
          /\ DOMAIN index' = {}
      BY <2>19, InitialStates DEF resetDone, crash
    <3>2. CASE resetDone
      BY <3>1, <3>2 DEF resetDone
    <3>3. CASE crash
      <4>1. cap' \in [Point -> {"new", "walk", "commit", "manifest", "done",
                               "failed"}]
        BY <3>3 DEF crash
      <4>2. crashes' \in Nat
        BY <3>3 DEF crash
      <4>3. up' \in BOOLEAN
        BY <3>3, Zenon DEF crash
      <4>4. QED
        BY <3>1, <3>3, <4>1, <4>2, <4>3 DEF crash
    <3>4. QED
      BY <2>19, <3>2, <3>3
  <2>20. CASE OpenRepository
    <3>1. /\ DOMAIN index' \subseteq Chunk
          /\ \A c \in DOMAIN index' : index'[c] \in Pack
      BY <2>20, RangeSeq DEF OpenRepository, Pack
    <3>2. QED
      BY <2>20, <3>1 DEF OpenRepository
  <2>21. CASE UNCHANGED vars
    BY <2>21 DEF vars
  <2>22. QED
    BY <2>1, <2>2, <2>3, <2>4, <2>5, <2>6, <2>7, <2>8, <2>9, <2>10, <2>11,
       <2>12, <2>13, <2>14, <2>15, <2>16, <2>17, <2>18, <2>19, <2>20, <2>21, Zenon
       DEF Next, captureNext, flushNext, deletePackNext, compactNext,
           deleteNext
<1>3. QED
  BY <1>1, <1>2, PTL DEF Spec

-----------------------------------------------------------------------------
(* The inductive invariant: one lemma per action. *)

LEMMA StageFacts ==
  ASSUME NEW w \in WriterState, NEW c \in Chunk
  PROVE  /\ Range(Stage(w, c).buf) = Range(w.buf) \cup {c}
         /\ Stage(w, c).staged = w.staged \cup {c}
         /\ Stage(w, c).flush \in {"no", "due"}
BY RangeAppend DEF Stage, WriterState

(* A capture may begin: it has neither a point nor a writer yet.           *)
LEMMA beginCaptureStep ==
  ASSUME IInv, TypeOK', NEW p \in Point, beginCapture(p)
  PROVE  IInv'
<1>1. /\ LocksHeld' /\ FlushesOrdered' /\ IndexSound'
      /\ CompactionCopies'
  BY DEF IInv, LocksHeld, FlushesOrdered, IndexSound, CompactionCopies,
     Exclusive, CaptureLocked, beginCapture
<1>2. PointsIndexed'
  BY InitialStates, OwnerAssumption DEF IInv, TypeOK, WriterState, GCState,
     Owner, PointsIndexed, LocksHeld, Manifest, beginCapture, CapturesOrdered,
     Walking
<1>3. CapturesOrdered'
  BY RangeEmpty, InitialStates, OwnerAssumption, SMTT(60) DEF IInv, TypeOK,
     WriterState, GCState, Owner, CapturesOrdered, LocksHeld, Walking,
     CapActive, beginCapture, NoWriter
<1>4. CollectorSpares'
  BY InitialStates, OwnerAssumption DEF IInv, TypeOK, WriterState, GCState,
     Owner, CollectorSpares, LocksHeld, Collecting, Manifest, beginCapture,
     Exclusive
<1>5. WalkedIsKnown'
  BY DEF IInv, WalkedIsKnown, LocksHeld, Exclusive, CaptureLocked, CapActive,
     beginCapture
<1>6. PointsDurable'
  BY InitialStates, OwnerAssumption, ZenonT(60) DEF IInv, TypeOK, WriterState,
     GCState, Owner, PointsDurable, Manifest, Stored, beginCapture,
     CapturesOrdered, Walking
<1>7. QED
  BY <1>1, <1>2, <1>3, <1>4, <1>5, <1>6 DEF IInv

(* A walked chunk is indexed, staged before, or staged now.                *)
LEMMA captureFileStep ==
  ASSUME IInv, TypeOK', NEW p \in Point, captureFile(p)
  PROVE  IInv'
<1> DEFINE c == tree[p][pos[p]]
<1>a. c \in Chunk /\ "gc" # p /\ p \in Owner
  BY OwnerAssumption DEF IInv, TypeOK, captureFile, Owner
<1>b. \A o \in Owner \ {p} : writer'[o] = writer[o]
  BY DEF IInv, TypeOK, captureFile
<1>c. /\ writer[p] \in WriterState /\ writer'[p] \in WriterState
      /\ writer[p].flush = "no" /\ writer'[p].flush \in {"no", "due"}
      /\ Range(writer'[p].buf) \subseteq Range(writer[p].buf) \cup {c}
      /\ Range(writer[p].buf) \subseteq Range(writer'[p].buf)
      /\ c \in DOMAIN index \cup writer[p].staged
         \/ c \in Range(writer'[p].buf)
      /\ writer'[p].staged \subseteq writer[p].staged \cup
           Range(writer'[p].buf)
  <2>1. CASE c \in DOMAIN index \cup writer[p].staged
    BY <2>1, <1>a DEF IInv, TypeOK, captureFile
  <2>2. CASE c \notin DOMAIN index \cup writer[p].staged
    <3>1. writer'[p] = Stage(writer[p], c)
      BY <2>2, <1>a DEF IInv, TypeOK, captureFile
    <3>2. writer[p] \in WriterState /\ writer[p].flush = "no"
      BY <1>a DEF IInv, TypeOK, captureFile
    <3> HIDE DEF c
    <3>3. QED
      BY <3>1, <3>2, <1>a, StageFacts, StageType, ZenonT(60)
  <2>3. QED
    BY <2>1, <2>2
<1>d. /\ cap[p] = "walk" /\ pos[p] \in Nat /\ pos' = [pos EXCEPT ![p] = @ + 1] 
      /\ UNCHANGED <<packFile, idxFile, snap, stateFile, tree, up, index, cap,
                     gc, wiped, crashes>>
  BY DEF IInv, TypeOK, captureFile
<1>e. ~Exclusive
  BY <1>d DEF IInv, LocksHeld, CaptureLocked, CapActive
<1>1. /\ IndexSound' /\ PointsIndexed' /\ CollectorSpares'
      /\ PointsDurable'
  BY Zenon DEF IInv, IndexSound, PointsIndexed, CollectorSpares, PointsDurable,
     Manifest, Collecting, Stored, captureFile
<1>2. LocksHeld'
  BY <1>a, <1>b, <1>c, <1>d, ZenonT(60) DEF IInv, TypeOK, LocksHeld, Exclusive,
     CaptureLocked, Owner
<1>3. FlushesOrdered'
  BY <1>b, <1>c, <1>d, Zenon DEF IInv, FlushesOrdered
<1>4. CapturesOrdered'
  BY <1>a, <1>b, <1>c, <1>d, ZenonT(30) DEF IInv, TypeOK, CapturesOrdered,
     Walking,
     CapActive, Owner
<1>5. CompactionCopies'
  BY DEF IInv, CompactionCopies, LocksHeld, Exclusive, CaptureLocked,
     CapActive, captureFile
<1>6. WalkedIsKnown'
  <2> SUFFICES ASSUME NEW q \in Point, cap[q] \in CapActive,
                      NEW i \in 1 .. pos'[q] - 1
               PROVE  tree[q][i] \in DOMAIN index \cup Range(writer'[q].buf)
    BY <1>d, Zenon DEF WalkedIsKnown
  <2>1. CASE q # p
    BY <2>1, <1>b, <1>d, Zenon DEF IInv, TypeOK, WalkedIsKnown, Owner
  <2>2. CASE q = p /\ i # pos[p]
    <3>1. i \in 1 .. pos[p] - 1
      BY <2>2, <1>d DEF IInv, TypeOK
    <3>2. QED
      BY <3>1, <2>2, <1>c DEF IInv, WalkedIsKnown
  <2>3. CASE q = p /\ i = pos[p]
    BY <2>3, <1>c, <1>d DEF IInv, CapturesOrdered, CapActive
  <2>4. QED
    BY <2>1, <2>2, <2>3
<1>7. QED
  BY <1>1, <1>2, <1>3, <1>4, <1>5, <1>6 DEF IInv

(* A capture commits only with an empty buffer.                            *)
LEMMA endWalkStep ==
  ASSUME IInv, TypeOK', NEW p \in Point, endWalk(p)
  PROVE  IInv'
<1>a. "gc" # p /\ p \in Owner
  BY OwnerAssumption DEF Owner
<1>b. \A o \in Owner \ {p} : writer'[o] = writer[o]
  BY DEF IInv, TypeOK, endWalk
<1>c. /\ writer'[p].buf = writer[p].buf /\ writer'[p].staged = writer[p].staged
      /\ writer'[p].flush \in {"no", "due"}
      /\ cap'[p] # "walk" => writer[p].buf = <<>> /\ writer'[p] = writer[p]
  BY <1>a DEF IInv, TypeOK, endWalk, WriterState
<1>d. /\ cap[p] = "walk" /\ cap'[p] \in {"walk", "commit"}
      /\ writer[p].flush = "no"
      /\ pos[p] > Len(tree[p]) /\ \A q \in Point \ {p} : cap'[q] = cap[q]
      /\ UNCHANGED <<packFile, idxFile, snap, stateFile, tree, up, index, pos,
                     gc, wiped, crashes>>
  BY DEF IInv, TypeOK, endWalk
<1>1. /\ IndexSound' /\ PointsIndexed' /\ CollectorSpares'
      /\ PointsDurable'
  BY Zenon DEF IInv, IndexSound, PointsIndexed, CollectorSpares, PointsDurable,
     Manifest, Collecting, Stored, endWalk
<1>2. LocksHeld'
  BY <1>a, <1>b, <1>c, <1>d DEF IInv, LocksHeld, Exclusive, CaptureLocked,
     CapActive, Owner
<1>3. FlushesOrdered'
  BY <1>b, <1>c, <1>d DEF IInv, FlushesOrdered
<1>4. CapturesOrdered'
  BY <1>a, <1>b, <1>c, <1>d DEF IInv, CapturesOrdered, Walking, CapActive,
     Owner
<1>5. CompactionCopies'
  BY <1>a, <1>b, <1>d DEF IInv, CompactionCopies, Owner
<1>6. WalkedIsKnown'
  BY <1>a, <1>b, <1>c, <1>d DEF IInv, WalkedIsKnown, CapActive, Owner
<1>7. QED
  BY <1>1, <1>2, <1>3, <1>4, <1>5, <1>6 DEF IInv

(* A new manifest names indexed chunks only.                               *)
LEMMA writeManifestStep ==
  ASSUME IInv, TypeOK', NEW p \in Point, writeManifest(p)
  PROVE  IInv'
<1>a. Manifest(p) \subseteq DOMAIN index
  <2>1. cap[p] = "commit" /\ pos[p] \in Nat /\ pos[p] > Len(tree[p])
        /\ writer[p].buf = <<>>
    BY DEF IInv, TypeOK, CapturesOrdered, writeManifest
  <2>2. \A i \in 1 .. Len(tree[p]) : tree[p][i] \in DOMAIN index
    BY <2>1, RangeEmpty, SMTT(60) DEF IInv, TypeOK, WalkedIsKnown, CapActive
  <2>3. tree[p] \in Seq(Chunk)
    BY DEF IInv, TypeOK
  <2>4. QED
    BY <2>2, <2>3, RangeSeq DEF Manifest
<1>b. ~Exclusive
  BY DEF IInv, LocksHeld, CaptureLocked, CapActive, writeManifest
<1>1. /\ FlushesOrdered' /\ IndexSound' /\ CompactionCopies'
  BY DEF IInv, FlushesOrdered, IndexSound, CompactionCopies, writeManifest
<1>2. LocksHeld'
  BY DEF IInv, LocksHeld, Exclusive, CaptureLocked, CapActive, writeManifest
<1>3. PointsIndexed'
  BY <1>a, <1>b DEF IInv, PointsIndexed, writeManifest, Manifest, Exclusive
<1>4. CapturesOrdered'
  BY DEF IInv, CapturesOrdered, Walking, TypeOK, LocksHeld, Exclusive,
     CaptureLocked, CapActive, writeManifest
<1>5. CollectorSpares'
  BY <1>b DEF IInv, CollectorSpares, Collecting, Exclusive, writeManifest
<1>6. WalkedIsKnown'
  BY DEF IInv, WalkedIsKnown, LocksHeld, Exclusive, CaptureLocked, CapActive,
     writeManifest
<1>7. PointsDurable'
  <2>1. Manifest(p) \subseteq Stored
    BY <1>a, <1>b DEF IInv, IndexSound, Exclusive, Stored
  <2>2. QED
    BY <2>1 DEF IInv, PointsDurable, writeManifest, Manifest, Stored
<1>8. QED
  BY <1>1, <1>2, <1>3, <1>4, <1>5, <1>6, <1>7 DEF IInv

(* The sidecar ends the capture.                                           *)
LEMMA writeStateStep ==
  ASSUME IInv, TypeOK', NEW p \in Point, writeState(p)
  PROVE  IInv'
<1>1. /\ FlushesOrdered' /\ IndexSound' /\ PointsIndexed'
      /\ CollectorSpares' /\ CompactionCopies' /\ PointsDurable'
  BY Zenon DEF IInv, FlushesOrdered, IndexSound, PointsIndexed, CollectorSpares,
     CompactionCopies, PointsDurable, Manifest, Collecting, Stored, writeState
<1>2. LocksHeld'
  <2>1. DOMAIN cap = Point /\ LocksHeld /\ up
    BY DEF IInv, TypeOK, writeState
  <2>2. CaptureLocked' => CaptureLocked
    BY <2>1 DEF CaptureLocked, CapActive, writeState
  <2>3. \A q \in Point : cap'[q] = cap[q] \/ (cap'[q] = "done" /\ q = p)
    BY <2>1 DEF writeState
  <2>4. writer[p].flush = "no"
    BY <2>1 DEF LocksHeld, writeState
  <2>5. UNCHANGED <<up, index, pos, writer, gc>>
    BY DEF writeState
  <2>6. QED
    BY <2>1, <2>2, <2>3, <2>4, <2>5 DEF LocksHeld, Exclusive
<1>3. CapturesOrdered'
  BY DEF IInv, CapturesOrdered, Walking, LocksHeld, Exclusive, CaptureLocked,
     CapActive, writeState
<1>4. WalkedIsKnown'
  BY DEF IInv, WalkedIsKnown, LocksHeld, Exclusive, CaptureLocked, CapActive,
     writeState
<1>5. QED
  BY <1>1, <1>2, <1>3, <1>4 DEF IInv

(* A failed capture leaves no writer behind.                               *)
LEMMA captureFailsStep ==
  ASSUME IInv, TypeOK', NEW p \in Point, captureFails(p)
  PROVE  IInv'
<1>a. "gc" # p /\ p \in Owner
  BY OwnerAssumption DEF Owner
<1>b. \A o \in Owner \ {p} : writer'[o] = writer[o]
  BY DEF IInv, TypeOK, captureFails
<1>c. writer'[p] = NoWriter /\ cap'[p] = "failed"
  BY <1>a DEF IInv, TypeOK, captureFails
<1>1. /\ IndexSound' /\ PointsIndexed' /\ CollectorSpares'
      /\ PointsDurable'
  BY Zenon DEF IInv, IndexSound, PointsIndexed, CollectorSpares, PointsDurable,
     Manifest, Collecting, Stored, captureFails
<1>2. LocksHeld'
  <2>1. \A q \in Point : cap'[q] = cap[q] \/ q = p
    BY DEF IInv, TypeOK, captureFails
  <2>2. QED
    BY <1>a, <1>b, <1>c, <2>1 DEF IInv, LocksHeld, Exclusive, CaptureLocked,
       CapActive, Owner, NoWriter, captureFails
<1>3. FlushesOrdered'
  BY <1>b, <1>c DEF IInv, FlushesOrdered, NoWriter, captureFails
<1>4. CapturesOrdered'
  BY DEF IInv, CapturesOrdered, Walking, TypeOK, LocksHeld, Exclusive,
     CaptureLocked, CapActive, captureFails
<1>5. CompactionCopies'
  BY DEF IInv, CompactionCopies, LocksHeld, Exclusive, CaptureLocked,
     CapActive, captureFails
<1>6. WalkedIsKnown'
  BY DEF IInv, WalkedIsKnown, TypeOK, LocksHeld, Exclusive, CaptureLocked,
     CapActive, captureFails
<1>7. QED
  BY <1>1, <1>2, <1>3, <1>4, <1>5, <1>6 DEF IInv

(* Pack files only add to what is stored.                                  *)
LEMMA flushPackStep ==
  ASSUME IInv, TypeOK', NEW o \in Owner, flushPack(o)
  PROVE  IInv'
<1>1. /\ FlushesOrdered' /\ IndexSound' /\ PointsIndexed'
      /\ CapturesOrdered' /\ CollectorSpares' /\ CompactionCopies'
      /\ WalkedIsKnown'
  BY DEF IInv, FlushesOrdered, IndexSound, PointsIndexed, CapturesOrdered,
     CollectorSpares, CompactionCopies, WalkedIsKnown, Manifest, Walking,
     Collecting, flushPack
<1>2. LocksHeld'
  BY DEF IInv, LocksHeld, Exclusive, CaptureLocked, IdleGC, NoWriter,
     flushPack
<1>3. PointsDurable'
  <2>1. Stored \subseteq Stored'
    BY DEF flushPack, Stored
  <2>2. QED
    BY <2>1 DEF IInv, PointsDurable, flushPack, Manifest
<1>4. QED
  BY <1>1, <1>2, <1>3 DEF IInv

(* So do index files.                                                      *)
LEMMA flushIdxStep ==
  ASSUME IInv, TypeOK', NEW o \in Owner, flushIdx(o)
  PROVE  IInv'
<1>1. /\ FlushesOrdered' /\ IndexSound' /\ PointsIndexed'
      /\ CapturesOrdered' /\ CollectorSpares' /\ CompactionCopies'
      /\ WalkedIsKnown'
  BY DEF IInv, FlushesOrdered, IndexSound, PointsIndexed, CapturesOrdered,
     CollectorSpares, CompactionCopies, WalkedIsKnown, Manifest, Walking,
     Collecting, flushIdx
<1>2. LocksHeld'
  BY DEF IInv, LocksHeld, Exclusive, CaptureLocked, IdleGC, NoWriter, flushIdx
<1>3. PointsDurable'
  <2>1. Stored \subseteq Stored'
    BY DEF flushIdx, Stored
  <2>2. QED
    BY <2>1 DEF IInv, PointsDurable, flushIdx, Manifest
<1>4. QED
  BY <1>1, <1>2, <1>3 DEF IInv

(* New locations are committed packs that no collection is deleting; a     *)
(* compaction's own pack is not one of its candidates.                     *)
LEMMA flushIndexStep ==
  ASSUME IInv, TypeOK', NEW o \in Owner, flushIndex(o)
  PROVE  IInv'
<1> DEFINE b == writer[o].buf
<1>a. /\ up /\ writer[o].flush = "idx" /\ gc.phase \notin {"delete", "purge"}
      /\ o = "gc" => gc.phase = "copy"
      /\ o # "gc" => ~Exclusive
  BY DEF IInv, LocksHeld, Owner, NoWriter, Exclusive, CaptureLocked, CapActive,
     flushIndex, setLocation
<1>b. \A q \in Owner \ {o} : writer'[q] = writer[q]
  BY DEF IInv, TypeOK, flushIndex, setLocation
<1>c. writer'[o].buf = <<>> /\ writer'[o].staged = writer[o].staged
      /\ writer'[o].flush = "no"
  BY DEF IInv, TypeOK, WriterState, flushIndex, setLocation
<1>d. /\ DOMAIN index' = DOMAIN index \cup Range(b)
      /\ \A c \in Range(b) : index'[c] = b
      /\ \A c \in DOMAIN index \ Range(b) : index'[c] = index[c]
  BY DEF flushIndex, setLocation
<1>e. UNCHANGED <<packFile, idxFile, snap, stateFile, tree, up, cap, pos, gc,
                  wiped, crashes>>
  BY DEF flushIndex, setLocation
<1>1. /\ PointsIndexed' /\ PointsDurable'
  BY Zenon DEF IInv, PointsIndexed, PointsDurable, Manifest, Stored, flushIndex,
     setLocation
<1>2. LocksHeld'
  BY <1>a, <1>b, <1>c, <1>d, <1>e
     DEF IInv, LocksHeld, NoWriter, CaptureLocked, CapActive, Exclusive, Owner
<1>3. FlushesOrdered'
  BY DEF IInv, FlushesOrdered, TypeOK, flushIndex, setLocation
<1>4. IndexSound'
  BY InitialStates, OwnerAssumption DEF IInv, IndexSound, TypeOK,
     WriterState, GCState, Owner, LocksHeld, FlushesOrdered, flushIndex,
     setLocation
<1>5. CapturesOrdered'
  BY DEF IInv, CapturesOrdered, Walking, TypeOK, WriterState, Owner,
     flushIndex, setLocation
<1>6. CollectorSpares'
  BY <1>a, <1>e DEF IInv, CollectorSpares, Collecting, Manifest
<1>7. CompactionCopies'
  <2> SUFFICES ASSUME gc.phase = "copy" PROVE CompactionCopies'
    BY <1>e DEF CompactionCopies
  <2>1. o = "gc"
    BY <1>a DEF Exclusive
  <2>2. b \notin gc.repack
    BY <2>1, Zenon DEF IInv, CollectorSpares, CompactionCopies
  <2>3. QED
    BY <1>c, <1>d, <1>e, <2>1, <2>2, RangeEmpty, Zenon DEF IInv, CompactionCopies
<1>8. WalkedIsKnown'
  BY DEF IInv, WalkedIsKnown, TypeOK, WriterState, Owner, flushIndex,
     setLocation
<1>9. QED
  BY <1>1, <1>2, <1>3, <1>4, <1>5, <1>6, <1>7, <1>8 DEF IInv

(* A pack chosen for compaction is not wholly referenced, since less than  *)
(* half of its bytes are.                                                  *)
LEMMA gcStartStep ==
  ASSUME IInv, TypeOK', gcStart
  PROVE  IInv'
<1>1. /\ FlushesOrdered' /\ PointsIndexed' /\ CapturesOrdered'
      /\ CompactionCopies' /\ WalkedIsKnown' /\ PointsDurable'
  <2>1. /\ FlushesOrdered' /\ CapturesOrdered'
        /\ WalkedIsKnown' /\ PointsDurable'
    BY Zenon DEF IInv, FlushesOrdered, CapturesOrdered, WalkedIsKnown, PointsDurable,
       Manifest, Walking, Stored, gcStart, packList
  <2>2. PointsIndexed'
    BY DEF IInv, PointsIndexed, Manifest, gcStart, packList
  <2>3. CompactionCopies'
    BY DEF IInv, CompactionCopies, gcStart, packList
  <2>4. QED
    BY <2>1, <2>2, <2>3
<1>2. LocksHeld'
  BY DEF IInv, LocksHeld, Exclusive, CaptureLocked, IdleGC, NoWriter, gcStart,
     packList
<1>3. IndexSound'
  BY DEF IInv, IndexSound, gcStart, packList, IdleGC, Exclusive
<1>4. CollectorSpares'
  <2>1. /\ gc'.phase = "delete" /\ gc'.ref = Referenced
        /\ gc'.todo = {k \in idxFile : Live(k, Referenced) = {}}
        /\ \A k \in gc'.repack : k \in idxFile /\ MostlyDead(k, Referenced)
        /\ UNCHANGED <<snap, tree, index>>
    BY DEF gcStart, packList, IdleGC
  <2>2. \A q \in snap : Manifest(q) \subseteq Referenced
    BY DEF Referenced
  <2>3. \A c \in DOMAIN index : c \in Referenced => index[c] \notin gc'.todo
    BY <2>1 DEF IInv, IndexSound, gcStart, packList, Exclusive, Live
  <2>4. \A k \in gc'.repack : ~(Range(k) \subseteq Referenced)
    <3> SUFFICES ASSUME NEW k \in gc'.repack, Range(k) \subseteq Referenced
                 PROVE  FALSE
      OBVIOUS
    <3>1. Range(k) \subseteq Chunk
      BY <2>1, RangeSeq DEF IInv, TypeOK, Pack
    <3>2. Live(k, Referenced) = Range(k)
      BY DEF Live
    <3>3. 2 * Bytes(Range(k)) < Bytes(Range(k)) /\ Bytes(Range(k)) \in Nat
      BY <2>1, <3>1, <3>2, BytesAssumption DEF MostlyDead
    <3>4. QED
      BY <3>3
  <2>5. QED
    BY <2>1, <2>2, <2>3, <2>4, Zenon DEF CollectorSpares, Manifest
<1>5. QED
  BY <1>1, <1>2, <1>3, <1>4 DEF IInv

(* No referenced chunk is found in a pack that is about to go.             *)
LEMMA deletePackEntriesStep ==
  ASSUME IInv, TypeOK', NEW k \in gc.todo, deletePackEntries(k)
  PROVE  IInv'
<1>a. /\ DOMAIN index' = {c \in DOMAIN index : index[c] # k}
      /\ \A c \in DOMAIN index' : index'[c] = index[c]
  BY DEF deletePackEntries, Restrict
<1>b. /\ gc.phase \in {"delete", "purge"} /\ k \in gc.todo
      /\ gc'.del = k /\ gc'.phase = gc.phase /\ gc'.ref = gc.ref
      /\ gc'.todo = gc.todo /\ gc'.repack = gc.repack
      /\ UNCHANGED <<packFile, idxFile, snap, stateFile, tree, up, cap, pos,
                     writer, wiped, crashes>>
  BY DEF IInv, TypeOK, GCState, deletePackEntries
<1>c. ~CaptureLocked
  BY <1>b DEF IInv, LocksHeld, Exclusive
<1>1. /\ LocksHeld' /\ FlushesOrdered' /\ CompactionCopies'
      /\ PointsDurable'
  BY DEF IInv, LocksHeld, FlushesOrdered, CompactionCopies, PointsDurable,
     Exclusive, CaptureLocked, Manifest, Stored, deletePackEntries
<1>2. IndexSound'
  BY <1>a, <1>b DEF IInv, IndexSound
<1>3. PointsIndexed'
  <2> SUFFICES ASSUME NEW q \in snap \ wiped, NEW c \in Manifest(q), up
               PROVE  c \in DOMAIN index'
    BY <1>b, Zenon DEF IInv, PointsIndexed, Manifest
  <2>1. c \in DOMAIN index /\ c \in gc.ref
    BY <1>b DEF IInv, PointsIndexed, CollectorSpares, Collecting
  <2>2. index[c] # k
    BY <1>b, <2>1 DEF IInv, CollectorSpares
  <2>3. QED
    BY <1>a, <2>1, <2>2
<1>4. CapturesOrdered'
  BY <1>b, <1>c DEF IInv, CapturesOrdered, CaptureLocked, Walking
<1>5. CollectorSpares'
  BY <1>a, <1>b DEF IInv, CollectorSpares, Collecting, Manifest
<1>6. WalkedIsKnown'
  BY <1>b, <1>c DEF IInv, WalkedIsKnown, CaptureLocked
<1>7. QED
  BY <1>1, <1>2, <1>3, <1>4, <1>5, <1>6 DEF IInv

(* The index does not lead to the pack whose file goes.                    *)
LEMMA deletePackFileStep ==
  ASSUME IInv, TypeOK', deletePackFile
  PROVE  IInv'
<1>a. gc.phase \in {"delete", "purge"} /\ gc.del # <<>>
  BY DEF IInv, LocksHeld, deletePackFile
<1>b. \A o \in Owner : writer[o].flush = "no"
  BY <1>a DEF IInv, LocksHeld, Owner, NoWriter, Exclusive, CaptureLocked,
     CapActive
<1>1. /\ LocksHeld' /\ IndexSound' /\ PointsIndexed'
      /\ CapturesOrdered' /\ CollectorSpares' /\ CompactionCopies'
      /\ WalkedIsKnown'
  BY Zenon DEF IInv, LocksHeld, IndexSound, PointsIndexed, CapturesOrdered,
     CollectorSpares, CompactionCopies, WalkedIsKnown, Exclusive,
     CaptureLocked,
     Manifest, Walking, Collecting, deletePackFile
<1>2. FlushesOrdered'
  BY <1>b DEF FlushesOrdered, deletePackFile
<1>3. PointsDurable'
  <2> SUFFICES ASSUME NEW q \in snap \ wiped, NEW c \in Manifest(q)
               PROVE  c \in Stored'
    BY DEF PointsDurable, deletePackFile, Manifest
  <2>1. up /\ gc.phase # "reset"
    BY <1>a DEF deletePackFile
  <2>2. c \in DOMAIN index
    BY <2>1 DEF IInv, PointsIndexed
  <2>3. QED
    BY <1>a, <2>1, <2>2 DEF IInv, IndexSound, Stored, deletePackFile
<1>4. QED
  BY <1>1, <1>2, <1>3 DEF IInv

(* Nor to the one whose index file goes.                                   *)
LEMMA deletePackIdxStep ==
  ASSUME IInv, TypeOK', deletePackIdx
  PROVE  IInv'
<1>a. gc.phase \in {"delete", "purge"} /\ gc.del # <<>>
  BY DEF IInv, LocksHeld, deletePackIdx
<1>1. /\ LocksHeld' /\ FlushesOrdered' /\ IndexSound'
      /\ PointsIndexed' /\ CapturesOrdered' /\ CollectorSpares'
      /\ CompactionCopies' /\ WalkedIsKnown'
  BY DEF IInv, LocksHeld, FlushesOrdered, IndexSound, PointsIndexed,
     CapturesOrdered, CollectorSpares, CompactionCopies, WalkedIsKnown,
     Exclusive, CaptureLocked, Manifest, Walking, Collecting, deletePackIdx
<1>2. PointsDurable'
  <2> SUFFICES ASSUME NEW q \in snap \ wiped, NEW c \in Manifest(q)
               PROVE  c \in Stored'
    BY DEF PointsDurable, deletePackIdx, Manifest
  <2>1. up /\ gc.phase # "reset"
    BY <1>a DEF deletePackIdx
  <2>2. c \in DOMAIN index
    BY <2>1 DEF IInv, PointsIndexed
  <2>3. QED
    BY <1>a, <2>1, <2>2 DEF IInv, IndexSound, Stored, deletePackIdx
<1>3. QED
  BY <1>1, <1>2 DEF IInv

(* Before the first copy everything referenced is still ahead.             *)
LEMMA gcRepackStep ==
  ASSUME IInv, TypeOK', gcRepack
  PROVE  IInv'
<1>1. /\ LocksHeld' /\ FlushesOrdered' /\ IndexSound'
      /\ PointsIndexed' /\ CapturesOrdered' /\ CollectorSpares'
      /\ WalkedIsKnown' /\ PointsDurable'
  BY DEF IInv, LocksHeld, FlushesOrdered, IndexSound, PointsIndexed,
     CapturesOrdered, CollectorSpares, WalkedIsKnown, PointsDurable, Exclusive,
     CaptureLocked, Manifest, Walking, Collecting, Stored, gcRepack
<1>2. CompactionCopies'
  <2>1. writer["gc"] = NoWriter
    BY DEF IInv, LocksHeld, gcRepack
  <2>2. gc'.copy = gc.repack /\ gc'.repack = gc.repack
        /\ UNCHANGED <<index, writer>>
    BY DEF IInv, TypeOK, GCState, gcRepack
  <2>3. QED
    BY <2>1, <2>2, RangeEmpty DEF CompactionCopies, NoWriter
<1>3. QED
  BY <1>1, <1>2 DEF IInv

(* The chunks of the pack just opened are all ahead in src.                *)
LEMMA copyLiveStep ==
  ASSUME IInv, TypeOK', NEW k \in gc.copy, copyLive(k)
  PROVE  IInv'
<1>1. /\ LocksHeld' /\ FlushesOrdered' /\ IndexSound'
      /\ PointsIndexed' /\ CapturesOrdered' /\ CollectorSpares'
      /\ WalkedIsKnown' /\ PointsDurable'
  <2>1. /\ LocksHeld' /\ FlushesOrdered' /\ IndexSound'
    BY DEF IInv, LocksHeld, FlushesOrdered, IndexSound, Exclusive,
       CaptureLocked, copyLive
  <2>2. /\ CapturesOrdered' /\ WalkedIsKnown' /\ PointsDurable'
    BY DEF IInv, CapturesOrdered, WalkedIsKnown, PointsDurable, Manifest,
       Walking, Stored, copyLive
  <2>3. /\ PointsIndexed' /\ CollectorSpares'
    BY DEF IInv, PointsIndexed, CollectorSpares, Manifest, Collecting,
       copyLive
  <2>4. QED
    BY <2>1, <2>2, <2>3
<1>2. CompactionCopies'
  <2>1. /\ gc.phase = "copy" /\ gc.src = <<>> /\ gc'.copy = gc.copy \ {k}
        /\ gc'.src = k
        /\ gc'.repack = gc.repack /\ gc'.ref = gc.ref
        /\ UNCHANGED <<index, writer>>
    BY DEF IInv, TypeOK, GCState, copyLive
  <2>2. \A c \in DOMAIN index : c \in Range(index[c])
    BY <2>1 DEF IInv, IndexSound
  <2>3. QED
    BY <2>1, <2>2, RangeEmpty DEF IInv, CompactionCopies
<1>3. QED
  BY <1>1, <1>2 DEF IInv

(* One entry is copied, or need not be.                                    *)
LEMMA copyChunkStep ==
  ASSUME IInv, TypeOK', copyChunk
  PROVE  IInv'
<1> DEFINE c == Head(gc.src)
           w == writer["gc"]
<1>a. /\ c \in Chunk /\ Range(gc.src) = {c} \cup Range(Tail(gc.src))
      /\ "gc" \in Owner /\ w \in WriterState /\ w.flush = "no"
  <2>1. gc.src \in Seq(Chunk) /\ gc.src # <<>>
    BY DEF IInv, TypeOK, GCState, copyChunk
  <2>2. QED
    BY <2>1, RangeTail DEF IInv, TypeOK, Owner, copyChunk
<1>b. \A q \in Owner \ {"gc"} : writer'[q] = writer[q]
  BY DEF IInv, TypeOK, copyChunk
<1>c. /\ writer'["gc"].flush \in {"no", "due"}
      /\ Range(w.buf) \subseteq Range(writer'["gc"].buf)
      /\ w.staged \subseteq writer'["gc"].staged
      /\ writer'["gc"].staged \subseteq w.staged \cup Range(writer'["gc"].buf)
      /\ c \in gc.ref => c \in writer'["gc"].staged
      /\ Range(writer'["gc"].buf) \subseteq Range(w.buf) \cup (gc.ref \cap {c})
  <2>1. CASE c \notin gc.ref \/ c \in w.staged
    <3>1. writer' = writer
      BY <2>1 DEF copyChunk
    <3>2. QED
      BY <2>1, <3>1, <1>a
  <2>2. CASE ~(c \notin gc.ref \/ c \in w.staged)
    <3>1. writer'["gc"] = Stage(w, c)
      BY <1>a, <2>2 DEF IInv, TypeOK, copyChunk
    <3> HIDE DEF c, w
    <3>2. /\ Range(writer'["gc"].buf) = Range(w.buf) \cup {c}
          /\ writer'["gc"].staged = w.staged \cup {c}
          /\ writer'["gc"].flush \in {"no", "due"}
      BY <1>a, <3>1, StageFacts
    <3>3. QED
      BY <2>2, <3>2
  <2>3. QED
    BY <2>1, <2>2, Zenon
<1>d. /\ gc.phase = "copy" /\ gc'.phase = "copy" /\ gc'.ref = gc.ref
      /\ gc'.repack = gc.repack
      /\ gc'.copy = gc.copy /\ gc'.src = Tail(gc.src) /\ gc'.del = gc.del
      /\ gc'.todo = gc.todo
      /\ up /\ UNCHANGED <<packFile, idxFile, snap, stateFile, tree, up,
                           index, cap, pos, wiped, crashes>>
  BY DEF IInv, TypeOK, GCState, copyChunk
<1>1. /\ IndexSound' /\ PointsIndexed' /\ CollectorSpares'
      /\ PointsDurable'
  BY DEF IInv, IndexSound, PointsIndexed, CollectorSpares, PointsDurable,
     Manifest, Collecting, Stored, copyChunk
<1>2. LocksHeld'
  <2>1. \A q \in Point : q \in Owner \ {"gc"}
    BY OwnerAssumption DEF Owner
  <2>2. QED
    BY <1>b, <1>d, <2>1 DEF IInv, LocksHeld, Exclusive, CaptureLocked
<1>3. FlushesOrdered'
  BY <1>b, <1>c, <1>d DEF IInv, FlushesOrdered
<1>4. CapturesOrdered'
  BY DEF IInv, CapturesOrdered, Walking, LocksHeld, Exclusive, CaptureLocked,
     CapActive, copyChunk
<1>5. CompactionCopies'
  <2> HIDE DEF c
  <2>1. Range(writer'["gc"].buf) \subseteq gc.ref
    BY <1>c, <1>d, Zenon DEF IInv, CompactionCopies
  <2>2. ASSUME NEW x \in writer'["gc"].staged
        PROVE  x \in Range(writer'["gc"].buf)
                  \/ (x \in DOMAIN index /\ index[x] \notin gc.repack)
    <3>1. CASE x \in w.staged
      <4>1. x \in Range(w.buf)
               \/ (x \in DOMAIN index /\ index[x] \notin gc.repack)
        BY <1>d, <3>1, Zenon DEF IInv, CompactionCopies
      <4>2. QED
        BY <1>c, <4>1
    <3>2. QED
      BY <1>c, <3>1
  <2>3. ASSUME NEW x \in DOMAIN index, x \in gc.ref, index[x] \in gc.repack
        PROVE  x \in writer'["gc"].staged \/ index[x] \in gc.copy
                  \/ x \in Range(Tail(gc.src))
    BY <1>a, <1>c, <1>d, <2>3 DEF IInv, CompactionCopies
  <2>4. QED
    BY <1>d, <2>1, <2>2, <2>3, Zenon DEF CompactionCopies
<1>6. WalkedIsKnown'
  BY DEF IInv, WalkedIsKnown, LocksHeld, Exclusive, CaptureLocked, CapActive,
     copyChunk
<1>7. QED
  BY <1>1, <1>2, <1>3, <1>4, <1>5, <1>6 DEF IInv

(* Once everything is copied and flushed the index leads away from the     *)
(* candidates.                                                             *)
LEMMA copyDoneStep ==
  ASSUME IInv, TypeOK', copyDone
  PROVE  IInv'
<1>a. /\ gc.phase = "copy" /\ gc.copy = {} /\ gc.src = <<>> /\ gc.del = <<>>
      /\ writer["gc"].flush = "no" /\ "gc" \in Owner /\ up
  BY DEF IInv, LocksHeld, copyDone, Owner
<1>b. /\ \A q \in Owner \ {"gc"} : writer'[q] = writer[q]
      /\ writer'["gc"].flush \in {"no", "due"}
  BY <1>a DEF IInv, TypeOK, WriterState, NoWriter, copyDone
<1>c. \A q \in Point : writer'[q] = writer[q]
  BY <1>b, OwnerAssumption DEF Owner
<1>d. /\ gc'.ref = gc.ref /\ gc'.repack = gc.repack /\ gc'.del = <<>>
      /\ UNCHANGED <<packFile, idxFile, snap, stateFile, tree, up, index, cap,
                     pos, wiped, crashes>>
  BY <1>a, Zenon DEF IInv, TypeOK, GCState, copyDone
<1>e. \/ /\ gc' = gc
         /\ writer'["gc"].buf = writer["gc"].buf
         /\ writer'["gc"].staged = writer["gc"].staged
      \/ /\ gc'.phase = "purge" /\ gc'.todo = gc.repack
         /\ writer["gc"].buf = <<>> /\ writer'["gc"] = NoWriter
  <2>1. CASE writer' = [writer EXCEPT !["gc"].flush = "due"] /\ UNCHANGED gc
    BY <1>a, <2>1 DEF IInv, TypeOK, WriterState
  <2>2. CASE /\ writer["gc"].buf = <<>>
             /\ writer' = [writer EXCEPT !["gc"] = NoWriter]
             /\ gc' = [gc EXCEPT !.phase = "purge", !.todo = gc.repack]
    BY <1>a, <2>2 DEF IInv, TypeOK, GCState
  <2>3. QED
    BY <2>1, <2>2 DEF copyDone
<1>1. PointsDurable'
  BY DEF IInv, PointsDurable, Manifest, Stored, copyDone
<1>2. LocksHeld'
  BY <1>a, <1>c, <1>d, <1>e DEF IInv, LocksHeld, Exclusive, CaptureLocked
<1>3. FlushesOrdered'
  BY <1>b, <1>d DEF IInv, FlushesOrdered
<1>4. IndexSound'
  BY <1>a, <1>d DEF IInv, IndexSound
<1>5. PointsIndexed'
  BY <1>a, <1>d, <1>e DEF IInv, PointsIndexed, Manifest
<1>6. CapturesOrdered'
  BY <1>c, <1>d DEF IInv, CapturesOrdered, Walking
<1>7. CollectorSpares'
  <2>1. CASE gc' = gc
    BY <1>a, <1>d, <2>1 DEF IInv, CollectorSpares, Collecting, Manifest
  <2>2. CASE gc'.phase = "purge" /\ gc'.todo = gc.repack
             /\ writer["gc"].buf = <<>>
    <3>1. \A c \in DOMAIN index : c \in gc.ref => index[c] \notin gc.repack
      BY <1>a, <2>2, RangeEmpty DEF IInv, CompactionCopies
    <3>2. QED
      BY <1>a, <1>d, <2>2, <3>1, Zenon DEF IInv, CollectorSpares, Collecting, Manifest
  <2>3. QED
    BY <1>e, <2>1, <2>2
<1>8. CompactionCopies'
  BY <1>d, <1>e, Zenon DEF IInv, CompactionCopies
<1>9. WalkedIsKnown'
  BY <1>c, <1>d DEF IInv, WalkedIsKnown
<1>10. QED
  BY <1>1, <1>2, <1>3, <1>4, <1>5, <1>6, <1>7, <1>8, <1>9 DEF IInv

(* The end of a collection ...                                             *)
LEMMA gcEndStep ==
  ASSUME IInv, TypeOK', gcEnd
  PROVE  IInv'
<1>1. /\ FlushesOrdered' /\ CapturesOrdered' /\ WalkedIsKnown'
      /\ PointsDurable'
  BY Zenon DEF IInv, FlushesOrdered, CapturesOrdered, WalkedIsKnown, PointsDurable,
     Walking, Manifest, Stored, gcEnd
<1>2. LocksHeld'
  BY Zenon DEF IInv, LocksHeld, Exclusive, CaptureLocked, IdleGC, NoWriter, gcEnd
<1>3. IndexSound'
  BY Zenon DEF IInv, IndexSound, IdleGC, gcEnd
<1>4. PointsIndexed'
  BY Zenon DEF IInv, PointsIndexed, Manifest, IdleGC, gcEnd
<1>5. CollectorSpares'
  BY Zenon DEF CollectorSpares, Collecting, IdleGC, gcEnd
<1>6. CompactionCopies'
  BY DEF CompactionCopies, IdleGC, gcEnd
<1>7. QED
  BY <1>1, <1>2, <1>3, <1>4, <1>5, <1>6 DEF IInv

(* ... or its failure releases the lock and nothing else.                  *)
LEMMA gcFailsStep ==
  ASSUME IInv, TypeOK', gcFails
  PROVE  IInv'
<1>a. /\ \A q \in Owner \ {"gc"} : writer'[q] = writer[q]
      /\ writer'["gc"] = NoWriter
  BY DEF IInv, TypeOK, gcFails, Owner
<1>1. PointsDurable'
  BY DEF IInv, PointsDurable, Manifest, Stored, gcFails
<1>2. LocksHeld'
  BY InitialStates, OwnerAssumption, Zenon DEF IInv, LocksHeld, TypeOK, WriterState,
     GCState, Owner, Exclusive, CaptureLocked, CapActive, NoWriter, IdleGC,
     gcFails
<1>3. FlushesOrdered'
  <2>1. NoWriter.flush = "no"
    BY DEF NoWriter
  <2>2. UNCHANGED <<packFile, idxFile>>
    BY Zenon DEF gcFails
  <2>3. QED
    BY <1>a, <2>1, <2>2 DEF IInv, FlushesOrdered
<1>4. IndexSound'
  BY DEF IInv, IndexSound, IdleGC, gcFails
<1>5. PointsIndexed'
  BY Zenon DEF IInv, PointsIndexed, Manifest, IdleGC, gcFails
<1>6. CapturesOrdered'
  BY DEF IInv, CapturesOrdered, Walking, LocksHeld, Exclusive, CaptureLocked,
     CapActive, gcFails
<1>7. CollectorSpares'
  BY Zenon DEF CollectorSpares, Collecting, IdleGC, gcFails
<1>8. CompactionCopies'
  BY Zenon DEF CompactionCopies, IdleGC, gcFails
<1>9. WalkedIsKnown'
  BY DEF IInv, WalkedIsKnown, LocksHeld, Exclusive, CaptureLocked, CapActive,
     gcFails
<1>10. QED
  BY <1>1, <1>2, <1>3, <1>4, <1>5, <1>6, <1>7, <1>8, <1>9 DEF IInv

(* Expiry only takes points away.                                          *)
LEMMA deleteSnapStep ==
  ASSUME IInv, TypeOK', NEW p \in Point, deleteSnap(p)
  PROVE  IInv'
<1>1. /\ LocksHeld' /\ FlushesOrdered' /\ IndexSound'
      /\ PointsIndexed' /\ CapturesOrdered' /\ CollectorSpares'
      /\ CompactionCopies' /\ WalkedIsKnown' /\ PointsDurable'
  BY Zenon DEF IInv, LocksHeld, FlushesOrdered, IndexSound, PointsIndexed,
     CapturesOrdered, CollectorSpares, CompactionCopies, WalkedIsKnown,
     PointsDurable, Exclusive, CaptureLocked, Manifest, Walking, Collecting,
     Stored, deleteSnap
<1>2. QED
  BY <1>1, Zenon DEF IInv

(* DeleteRestorePoint's second removal touches no manifest. *)
LEMMA deleteStateStep ==
  ASSUME IInv, TypeOK', NEW p \in Point, deleteState(p)
  PROVE  IInv'
<1>1. /\ LocksHeld' /\ FlushesOrdered' /\ IndexSound'
      /\ PointsIndexed' /\ CapturesOrdered' /\ CollectorSpares'
      /\ CompactionCopies' /\ WalkedIsKnown' /\ PointsDurable'
  BY DEF IInv, LocksHeld, FlushesOrdered, IndexSound, PointsIndexed,
     CapturesOrdered, CollectorSpares, CompactionCopies, WalkedIsKnown,
     PointsDurable, Exclusive, CaptureLocked, Manifest, Walking, Collecting,
     Stored, deleteState
<1>2. QED
  BY <1>1 DEF IInv

(* Reset gives up every point there is before it deletes packs.            *)
LEMMA resetClearStep ==
  ASSUME IInv, TypeOK', resetClear
  PROVE  IInv'
<1>1. /\ IndexSound' /\ PointsIndexed' /\ CapturesOrdered'
      /\ CollectorSpares' /\ CompactionCopies' /\ WalkedIsKnown'
      /\ PointsDurable'
  BY DEF IInv, IndexSound, PointsIndexed, CapturesOrdered, CollectorSpares,
     CompactionCopies, WalkedIsKnown, PointsDurable, Manifest, Walking,
     Collecting, Stored, resetClear
<1>2. LocksHeld'
  BY DEF IInv, LocksHeld, Exclusive, CaptureLocked, IdleGC, NoWriter,
     resetClear
<1>3. FlushesOrdered'
  <2>1. \A o \in Owner : writer[o].flush = "no"
    BY DEF IInv, LocksHeld, Owner, NoWriter, Exclusive, CaptureLocked,
       CapActive, resetClear
  <2>2. QED
    BY <2>1 DEF FlushesOrdered, resetClear
<1>4. QED
  BY <1>1, <1>2, <1>3 DEF IInv

(* Reset ends with nothing on disk and nothing in the index. *)
LEMMA resetDoneStep ==
  ASSUME IInv, TypeOK', resetDone
  PROVE  IInv'
<1>a. ~CaptureLocked
  BY Zenon DEF IInv, LocksHeld, Exclusive, resetDone
<1>b. \A o \in Owner : writer[o].flush = "no"
  BY <1>a DEF IInv, LocksHeld, Owner, NoWriter, CaptureLocked, CapActive,
     resetDone
<1>1. /\ FlushesOrdered' /\ IndexSound' /\ PointsIndexed'
      /\ PointsDurable'
  BY <1>b DEF FlushesOrdered, IndexSound, PointsIndexed, PointsDurable,
     Manifest, Stored, IdleGC, resetDone
<1>2. LocksHeld'
  BY Zenon DEF IInv, LocksHeld, Exclusive, CaptureLocked, IdleGC, NoWriter,
     resetDone
<1>3. CapturesOrdered'
  BY <1>a DEF IInv, CapturesOrdered, Walking, CaptureLocked, resetDone
<1>4. CollectorSpares'
  BY Zenon DEF CollectorSpares, Collecting, IdleGC, resetDone
<1>5. CompactionCopies'
  BY DEF CompactionCopies, IdleGC, resetDone
<1>6. WalkedIsKnown'
  BY <1>a DEF WalkedIsKnown, CaptureLocked, resetDone
<1>7. QED
  BY <1>1, <1>2, <1>3, <1>4, <1>5, <1>6 DEF IInv

(* A crash loses memory, never files.                                      *)
LEMMA crashStep ==
  ASSUME IInv, TypeOK', crash
  PROVE  IInv'
<1>1. /\ IndexSound' /\ PointsDurable'
  <2>1. IndexSound'
    BY DEF IInv, IndexSound, crash
  <2>2. PointsDurable'
    BY DEF IInv, PointsDurable, Manifest, Stored, crash
  <2>3. QED
    BY <2>1, <2>2
<1>2. LocksHeld'
  <2>1. ~Exclusive' /\ gc' = IdleGC /\ gc'.del = <<>>
    BY DEF Exclusive, IdleGC, crash
  <2>2. ~CaptureLocked'
    BY DEF CaptureLocked, CapActive, crash
  <2>3. DOMAIN index' = {}
    BY DEF crash
  <2>4. \A o \in Owner : writer'[o] = NoWriter /\ NoWriter.flush = "no"
    BY Zenon DEF NoWriter, crash
  <2>5. \A p \in Point : cap'[p] = "new" => pos'[p] = 1
    BY DEF IInv, LocksHeld, crash
  <2>6. QED
    BY <2>1, <2>2, <2>3, <2>4, <2>5, Zenon DEF LocksHeld, Owner
<1>3. FlushesOrdered'
  BY DEF FlushesOrdered, NoWriter, crash
<1>4. PointsIndexed'
  BY Zenon DEF PointsIndexed, IdleGC, crash
<1>5. CapturesOrdered'
  BY DEF IInv, CapturesOrdered, Walking, LocksHeld, Exclusive, CaptureLocked,
     CapActive, crash
<1>6. CollectorSpares'
  BY Zenon DEF CollectorSpares, Collecting, IdleGC, crash
<1>7. CompactionCopies'
  BY Zenon DEF CompactionCopies, IdleGC, crash
<1>8. WalkedIsKnown'
  BY DEF IInv, WalkedIsKnown, LocksHeld, Exclusive, CaptureLocked, CapActive,
     crash
<1>9. QED
  BY <1>1, <1>2, <1>3, <1>4, <1>5, <1>6, <1>7, <1>8 DEF IInv

(* Recovery indexes what is stored, which covers the points.               *)
LEMMA OpenRepositoryStep ==
  ASSUME IInv, TypeOK', OpenRepository
  PROVE  IInv'
<1>a. /\ ~up /\ gc = IdleGC /\ gc' = IdleGC /\ ~CaptureLocked
      /\ \A o \in Owner : writer[o].flush = "no"
  <2>1. ~up /\ gc = IdleGC /\ gc' = IdleGC /\ ~CaptureLocked
    BY Zenon DEF IInv, LocksHeld, OpenRepository
  <2>2. writer["gc"].flush = "no"
    <3>1. gc.phase # "copy" /\ NoWriter.flush = "no"
      BY <2>1, Zenon DEF IdleGC, NoWriter
    <3>2. QED
      BY <3>1, Zenon DEF IInv, LocksHeld
  <2>3. \A p \in Point : writer[p].flush = "no"
    BY <2>1 DEF IInv, LocksHeld, CaptureLocked, CapActive
  <2>4. QED
    BY <2>1, <2>2, <2>3, Zenon DEF Owner
<1>b. /\ DOMAIN index' = Stored
      /\ \A c \in DOMAIN index' : /\ index'[c] \in packFile \cap idxFile
                                 /\ c \in Range(index'[c])
  BY DEF OpenRepository, Stored
<1>c. packFile' \cap idxFile' = packFile \cap idxFile
      /\ UNCHANGED <<snap, tree, wiped>>
  BY DEF OpenRepository
<1>1. LocksHeld'
  BY DEF IInv, LocksHeld, Exclusive, CaptureLocked, OpenRepository
<1>2. FlushesOrdered'
  BY <1>a, Zenon DEF FlushesOrdered, OpenRepository
<1>3. IndexSound'
  BY <1>a, <1>b, <1>c, Zenon DEF IndexSound, IdleGC
<1>4. PointsIndexed'
  BY <1>a, <1>b, <1>c, Zenon DEF IInv, PointsIndexed, PointsDurable, Manifest, IdleGC
<1>5. CapturesOrdered'
  BY Zenon DEF IInv, CapturesOrdered, Walking, LocksHeld, Exclusive, CaptureLocked,
     CapActive, OpenRepository
<1>6. CollectorSpares'
  BY <1>a, Zenon DEF CollectorSpares, Collecting, IdleGC
<1>7. CompactionCopies'
  BY <1>a, Zenon DEF CompactionCopies, IdleGC
<1>8. WalkedIsKnown'
  BY DEF IInv, WalkedIsKnown, LocksHeld, Exclusive, CaptureLocked, CapActive,
     OpenRepository
<1>9. PointsDurable'
  <2>1. Stored' = Stored
    BY <1>c DEF Stored
  <2>2. QED
    BY <1>c, <2>1 DEF IInv, PointsDurable, Manifest
<1>10. QED
  BY <1>1, <1>2, <1>3, <1>4, <1>5, <1>6, <1>7, <1>8, <1>9 DEF IInv


-----------------------------------------------------------------------------
(* The theorems. *)

(* Every step of the repository keeps the inductive invariant. *)
THEOREM Inductive ==
  ASSUME ~ResetMayFail
  PROVE  Spec => []IInv
<1>1. Init => IInv
  <2> SUFFICES ASSUME Init
               PROVE  IInv
    OBVIOUS
  <2>1. TypeOK
    BY OwnerAssumption, InitialStates, EmptySeq DEF Init, TypeOK, Pack
  <2>2. /\ DOMAIN index = {} /\ snap = {}
        /\ gc.phase = "idle" /\ gc.del = <<>>
        /\ \A o \in Owner : writer[o].flush = "no"
    BY DEF Init, IdleGC, NoWriter
  <2>3. LocksHeld
    BY <2>2, Zenon DEF Init, LocksHeld, Exclusive, Owner
  <2>4. /\ FlushesOrdered /\ IndexSound /\ PointsIndexed
        /\ CollectorSpares /\ CompactionCopies /\ PointsDurable
    BY <2>2 DEF FlushesOrdered, IndexSound, PointsIndexed, CollectorSpares,
                Collecting, CompactionCopies, PointsDurable
  <2>5. CapturesOrdered /\ WalkedIsKnown
    BY DEF Init, CapturesOrdered, Walking, WalkedIsKnown, CapActive
  <2>6. QED
    BY <2>1, <2>3, <2>4, <2>5 DEF IInv
<1>2. IInv /\ TypeOK' /\ [Next]_vars => IInv'
  <2> SUFFICES ASSUME IInv, TypeOK', [Next]_vars
               PROVE  IInv'
    OBVIOUS
  <2>1. CASE captureNext
    BY <2>1, beginCaptureStep, captureFileStep, endWalkStep,
       writeManifestStep, writeStateStep, captureFailsStep DEF captureNext
  <2>2. CASE flushNext
    BY <2>2, flushPackStep, flushIdxStep, flushIndexStep DEF flushNext
  <2>3. CASE deletePackNext
    BY <2>3, deletePackEntriesStep, deletePackFileStep, deletePackIdxStep
       DEF deletePackNext
  <2>4. CASE compactNext
    BY <2>4, gcRepackStep, copyLiveStep, copyChunkStep, copyDoneStep
       DEF compactNext
  <2>5. CASE gcStart \/ gcEnd \/ gcFails
    BY <2>5, gcStartStep, gcEndStep, gcFailsStep
  <2>6. CASE deleteNext
    BY <2>6, deleteSnapStep, deleteStateStep DEF deleteNext
  <2>7. CASE resetClear \/ resetDone \/ crash \/ OpenRepository
    BY <2>7, resetClearStep, resetDoneStep, crashStep, OpenRepositoryStep
  <2>8. CASE UNCHANGED vars
    BY <2>8, Zenon DEF vars, IInv, TypeOK, LocksHeld, Exclusive, CaptureLocked,
       FlushesOrdered, IndexSound, PointsIndexed, CapturesOrdered, Walking,
       CollectorSpares, Collecting, CompactionCopies, WalkedIsKnown,
       PointsDurable, Manifest, Stored
  <2>9. ~resetFails
    BY DEF resetFails
  <2>10. QED
    BY <2>1, <2>2, <2>3, <2>4, <2>5, <2>6, <2>7, <2>8, <2>9 DEF Next
<1>3. QED
  BY <1>1, <1>2, TypeCorrect, PTL DEF Spec

(* No interleaving of captures, flushes, collections, compactions, expiries *)
(* and crashes loses a chunk that a restore point needs (PointsDurable).    *)
THEOREM Durability ==
  ASSUME ~ResetMayFail
  PROVE  Spec => []PointsDurable
<1>1. IInv => PointsDurable
  BY DEF IInv
<1>2. QED
  BY <1>1, Inductive, PTL

(* While the repository is open its index finds every chunk of every point  *)
(* (PointsReadable): Verify and Restore succeed at any moment.              *)
THEOREM Readability ==
  ASSUME ~ResetMayFail
  PROVE  Spec => []PointsReadable
<1>1. IInv => PointsReadable
  <2> SUFFICES ASSUME IInv, up, NEW p \in snap \ wiped, NEW c \in Manifest(p)
               PROVE  /\ c \in DOMAIN index
                      /\ index[c] \in packFile
                      /\ c \in Range(index[c])
    BY DEF PointsReadable
  <2>1. gc.phase # "reset"
    BY DEF IInv, PointsIndexed
  <2>2. c \in DOMAIN index
    BY <2>1 DEF IInv, PointsIndexed
  <2>3. QED
    BY <2>1, <2>2 DEF IInv, IndexSound
<1>2. QED
  BY <1>1, Inductive, PTL

(* Deduplication against the shared index never makes a capture rely on a   *)
(* chunk that is not stored or in its own buffer (DedupIsSafe).             *)
THEOREM DedupSafety ==
  ASSUME ~ResetMayFail
  PROVE  Spec => []DedupIsSafe
<1>1. IInv => DedupIsSafe
  <2> SUFFICES ASSUME IInv, NEW p \in Point, cap[p] \in CapActive,
                      NEW i \in 1 .. pos[p] - 1
               PROVE  tree[p][i] \in Stored \cup Range(writer[p].buf)
    BY DEF DedupIsSafe
  <2>1. tree[p][i] \in DOMAIN index \cup Range(writer[p].buf)
    BY DEF IInv, WalkedIsKnown
  <2>2. gc.phase # "reset"
    BY DEF IInv, LocksHeld, Exclusive, CaptureLocked
  <2>3. DOMAIN index \subseteq Stored
    BY <2>2 DEF IInv, IndexSound, Stored
  <2>4. QED
    BY <2>1, <2>3
<1>2. QED
  BY <1>1, Inductive, PTL

-----------------------------------------------------------------------------
(* Refinement.  The local repository implements PointStore: the content of *)
(* a point is what the committed packs can give back of its manifest.      *)
(* PointsDurable makes that the whole manifest, so packs, index and        *)
(* collector drop out of the picture, and each step is an abstract step or *)
(* changes nothing.                                                        *)

(* The mapping, with the content of a point simplified. *)
Offered == [p \in Point |-> Manifest(p)]
Seen == {p \in Point : cap[p] \notin {"new", "walk", "commit"}}
Content == [p \in snap \ wiped |-> Manifest(p)]

(* Because nothing a point needs is ever missing (PointsDurable), what can *)
(* be retrieved of it is its manifest.                                     *)
LEMMA ContentIsManifest ==
  ASSUME IInv
  PROVE  Content = [p \in snap \ wiped |-> Manifest(p) \cap Stored]
<1>1. \A p \in snap \ wiped : Manifest(p) = Manifest(p) \cap Stored
  BY DEF IInv, PointsDurable
<1>2. QED
  BY <1>1 DEF Content

(* A step that leaves trees, points and the outcome of captures alone is   *)
(* invisible: flushes, collection, compaction, recovery.                   *)
LEMMA Invisible ==
  ASSUME UNCHANGED <<tree, snap, wiped>>, Seen' = Seen
  PROVE  UNCHANGED <<Offered, Seen, Content>>
BY DEF Offered, Content, Manifest

(* The abstract store over the simplified mapping. *)
View == INSTANCE PointStore WITH offered <- Offered, seen <- Seen,
                                 points <- Content

(* Starting a capture is Offer: no point of that name exists yet. *)
LEMMA beginCaptureOffers ==
  ASSUME IInv, NEW p \in Point, beginCapture(p)
  PROVE  View!Offer(p)
<1>1. PICK t \in Trees : tree' = [tree EXCEPT ![p] = t]
  BY Zenon DEF beginCapture
<1>2. p \notin snap /\ p \notin Seen
  BY DEF beginCapture, IInv, CapturesOrdered, Walking, Seen
<1>3. Range(t) \in SUBSET Chunk
  BY TreesAssumption, RangeSeq
<1>4. Offered' = [Offered EXCEPT ![p] = Range(t)]
  BY <1>1, Zenon DEF IInv, TypeOK, Offered, Manifest
<1>5. Seen' = Seen
  BY DEF IInv, TypeOK, Seen, beginCapture
<1>6. Content' = Content
  BY <1>1, <1>2 DEF IInv, TypeOK, Content, Manifest, beginCapture
<1>7. QED
  BY <1>2, <1>3, <1>4, <1>5, <1>6, Zenon DEF View!Offer

(* Writing the manifest is Publish: the point appears whole. *)
LEMMA writeManifestPublishes ==
  ASSUME IInv, NEW p \in Point, writeManifest(p)
  PROVE  View!Publish(p)
<1>1. p \notin Seen /\ p \notin wiped
  BY DEF writeManifest, IInv, CapturesOrdered, Walking, Seen
<1>2. Seen' = Seen \cup {p}
  BY Zenon DEF IInv, TypeOK, Seen, writeManifest
<1>3. Offered' = Offered
  BY DEF Offered, Manifest, writeManifest
<1>4. snap' \ wiped' = (snap \ wiped) \cup {p}
  BY <1>1 DEF writeManifest
<1>5. Content' = [q \in DOMAIN Content \cup {p} |->
                    IF q = p THEN Offered[p] ELSE Content[q]]
  BY <1>4 DEF Content, Offered, Manifest, writeManifest
<1>6. QED
  BY <1>1, <1>2, <1>3, <1>5 DEF View!Publish

(* A capture that fails is Abandon, whether or not its manifest is there. *)
LEMMA captureFailsAbandons ==
  ASSUME IInv, NEW p \in Point, captureFails(p)
  PROVE  View!Abandon({p})
<1>1. Seen' = Seen \cup {p}
  BY Zenon DEF IInv, TypeOK, Seen, captureFails
<1>2. Offered' = Offered /\ Content' = Content
  BY DEF Offered, Content, Manifest, captureFails
<1>3. QED
  BY <1>1, <1>2 DEF View!Abandon

(* A crash is Abandon for all captures in progress. *)
LEMMA crashAbandons ==
  ASSUME IInv, crash
  PROVE  View!Abandon({p \in Point : cap[p] \in CapActive})
<1>1. Seen' = Seen \cup {p \in Point : cap[p] \in CapActive}
  BY Zenon DEF IInv, TypeOK, Seen, CapActive, crash
<1>2. Offered' = Offered /\ Content' = Content
  BY DEF Offered, Content, Manifest, crash
<1>3. QED
  BY <1>1, <1>2 DEF View!Abandon

(* Removing a manifest is Remove: expiry leaves the other points alone. *)
LEMMA deleteSnapRemoves ==
  ASSUME NEW p \in Point, deleteSnap(p)
  PROVE  View!Remove({p})
<1>1. Seen' = Seen /\ Offered' = Offered
  BY DEF Seen, Offered, Manifest, deleteSnap
<1>2. Content' = Restrict(Content, DOMAIN Content \ {p})
  BY DEF Content, Manifest, Restrict, deleteSnap
<1>3. QED
  BY <1>1, <1>2, Zenon DEF View!Remove, View!Restrict, Restrict

(* The start of Reset is Remove of every point there is. *)
LEMMA resetClearRemoves ==
  ASSUME resetClear
  PROVE  View!Remove(snap)
<1>1. Seen' = Seen /\ Offered' = Offered
  BY DEF Seen, Offered, Manifest, resetClear
<1>2. snap' \ wiped' = {}
  BY DEF resetClear
<1>3. Content' = Restrict(Content, DOMAIN Content \ snap)
  BY <1>2 DEF Content, Restrict
<1>4. QED
  BY <1>1, <1>3 DEF View!Remove, View!Restrict, Restrict

(* Every step of the repository is a step of the abstract store, or none. *)
LEMMA StepIsAbstract ==
  ASSUME IInv, ~ResetMayFail, [Next]_vars
  PROVE  View!Next \/ UNCHANGED <<Offered, Seen, Content>>
<1>1. CASE captureNext
  <2>1. PICK p \in Point :
          \/ beginCapture(p)  \/ captureFile(p) \/ endWalk(p)
          \/ writeManifest(p) \/ writeState(p)  \/ captureFails(p)
    BY <1>1 DEF captureNext
  <2>2. CASE beginCapture(p)
    BY <2>2, beginCaptureOffers DEF View!Next
  <2>3. CASE writeManifest(p)
    BY <2>3, writeManifestPublishes DEF View!Next
  <2>4. CASE captureFails(p)
    BY <2>4, captureFailsAbandons, Zenon DEF View!Next
  <2>5. CASE captureFile(p)
    BY <2>5, Invisible DEF captureFile, Seen
  <2>6. CASE endWalk(p)
    <3>1. Seen' = Seen
      BY <2>6 DEF IInv, TypeOK, endWalk, Seen
    <3>2. QED
      BY <2>6, <3>1, Invisible DEF endWalk
  <2>7. CASE writeState(p)
    <3>1. Seen' = Seen
      BY <2>7 DEF IInv, TypeOK, writeState, Seen
    <3>2. QED
      BY <2>7, <3>1, Invisible DEF writeState
  <2>8. QED
    BY <2>1, <2>2, <2>3, <2>4, <2>5, <2>6, <2>7
<1>2. CASE flushNext
  BY <1>2, Invisible DEF flushNext, flushPack, flushIdx, flushIndex, Seen
<1>3. CASE deletePackNext
  BY <1>3, Invisible, Zenon DEF deletePackNext, deletePackEntries, deletePackFile,
     deletePackIdx, Seen
<1>4. CASE compactNext
  BY <1>4, Invisible, Zenon DEF compactNext, gcRepack, copyLive, copyChunk, copyDone,
     Seen
<1>5. CASE gcStart \/ gcEnd \/ gcFails
  BY <1>5, Invisible DEF gcStart, gcEnd, gcFails, Seen
<1>6. CASE deleteNext
  <2>1. PICK p \in Point : deleteSnap(p) \/ deleteState(p)
    BY <1>6 DEF deleteNext
  <2>2. CASE deleteSnap(p)
    BY <2>2, deleteSnapRemoves, Zenon DEF View!Next
  <2>3. CASE deleteState(p)
    BY <2>3, Invisible DEF deleteState, Seen
  <2>4. QED
    BY <2>1, <2>2, <2>3
<1>7. CASE resetClear
  BY <1>7, resetClearRemoves, Zenon DEF View!Next, IInv, TypeOK
<1>8. CASE resetDone
  <2>1. snap \ wiped = {} /\ snap' \ wiped' = {}
    BY <1>8 DEF IInv, PointsIndexed, resetDone
  <2>2. Content' = Content
    BY <2>1 DEF Content
  <2>3. QED
    BY <1>8, <2>2 DEF resetDone, Offered, Manifest, Seen
<1>9. CASE crash
  BY <1>9, crashAbandons DEF View!Next
<1>10. CASE OpenRepository
  BY <1>10, Invisible DEF OpenRepository, Seen
<1>11. CASE UNCHANGED vars
  BY <1>11, Invisible DEF vars, Seen
<1>12. ~resetFails
  BY DEF resetFails
<1>13. QED
  BY <1>1, <1>2, <1>3, <1>4, <1>5, <1>6, <1>7, <1>8, <1>9, <1>10, <1>11,
     <1>12 DEF Next

(* The repository implements the abstract point store                      *)
(* (ImplementsPointStore): seen from outside, captures publish whole       *)
(* points, nothing changes a published point, and collections,             *)
(* compactions and crashes are invisible.                                  *)
THEOREM Refinement ==
  ASSUME ~ResetMayFail
  PROVE  Spec => ImplementsPointStore
<1>1. Init => Store!Init
  BY RangeEmpty DEF Init, Store!Init, Manifest
<1>2. IInv /\ IInv' /\ [Next]_vars => [Store!Next]_(Store!storeVars)
  <2> SUFFICES ASSUME IInv, IInv', [Next]_vars
               PROVE  [Store!Next]_(Store!storeVars)
    OBVIOUS
  <2>1. Content = [p \in snap \ wiped |-> Manifest(p) \cap Stored]
    BY ContentIsManifest
  <2>2. Content' = [p \in snap \ wiped |-> Manifest(p) \cap Stored]'
    <3>1. \A p \in snap' \ wiped' : Manifest(p)' = Manifest(p)' \cap Stored'
      BY DEF IInv, PointsDurable
    <3>2. QED
      BY <3>1 DEF Content
  <2>3. View!Next \/ UNCHANGED <<Offered, Seen, Content>>
    BY StepIsAbstract
  <2>4. QED
    BY <2>1, <2>2, <2>3, ZenonT(60)
       DEF View!Next, View!Offer, View!Publish, View!Abandon, View!Remove,
           View!Restrict, Store!Next, Store!Offer, Store!Publish,
           Store!Abandon, Store!Remove, Store!Restrict, Store!storeVars,
           Offered, Seen
<1>3. QED
  BY <1>1, <1>2, Inductive, PTL DEF Spec, ImplementsPointStore, Store!Spec
=============================================================================
