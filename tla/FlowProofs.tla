----------------------------- MODULE FlowProofs -----------------------------
(***************************************************************************)
(* Proofs about automation runs, for every number of control processes,    *)
(* every flow and any number of faults and calls.  First the frames: what  *)
(* makes them well formed and which changes keep them so.  Then the lease  *)
(* on the run (LInv): an outdated copy of the row is written only where    *)
(* exclusion was given up, and without such a write a finished run stays   *)
(* finished.  Then the stored progress (TInv, PInv): every step keeps the  *)
(* rows and the copies well formed, and every save follows from the row it *)
(* replaces, provided that a batch keeps to its limit (Counted).           *)
(* FlowRunProofs shows that it does, and draws the conclusions.            *)
(***************************************************************************)
EXTENDS FlowRun, TLAPS

(* The operations in flight have the fields the arguments below look at. *)
Shape ==
  /\ DOMAIN step = Process
  /\ \A p \in Process : "pc" \in DOMAIN step[p]
  /\ {"pc", "by", "run"} \subseteq DOMAIN approval
  /\ {"pc", "by", "run"} \subseteq DOMAIN cancel
  /\ \/ approval.pc = "idle" /\ approval.by = Nobody
     \/ approval.pc \in {"decide", "release"} /\ approval.by \in Process
  /\ \/ cancel.pc = "idle" /\ cancel.by = Nobody
     \/ cancel.pc \in {"request", "write", "release"} /\ cancel.by \in Process
  /\ "status" \in DOMAIN row
  /\ approval.pc = "decide" => "status" \in DOMAIN approval.run
  /\ cancel.pc = "write" => "status" \in DOMAIN cancel.run

Stepping(p) == step[p].pc \notin {"idle", "listed"}
Copying(p) == step[p].pc \in {"got", "begin", "loop", "exec", "finish"}
Cancelling == cancel.pc \in {"write", "release"}

(* As long as exclusion was never given up, an operation between its claim *)
(* and its release is the only one and its process has the lease, and      *)
(* every copy of the row is the row.                                       *)
Exclusive ==
  ~yielded =>
    /\ \A p \in Process : Stepping(p) => /\ lease = p
                                         /\ approval.by # p
                                         /\ ~(Cancelling /\ cancel.by = p)
    /\ approval.pc # "idle" => /\ lease = approval.by
                               /\ ~(Cancelling /\ cancel.by = approval.by)
    /\ Cancelling => lease = cancel.by
    /\ overtaken = {}
    /\ clash = FALSE

(* A stepper or an approval whose copy is up to date works on a run that   *)
(* has not finished.  (A cancel does not look at the status again.)        *)
Fresh ==
  /\ \A p \in Process :
       Copying(p) /\ <<"step", p>> \notin overtaken => ~Finished(row.status)
  /\ approval.pc = "decide" /\ <<"approve", approval.by>> \notin overtaken
       => ~Finished(row.status)

LInv == Shape /\ Exclusive /\ Fresh

-----------------------------------------------------------------------------
(* The frames of a run whose definition is d.  A step whose attempts may    *)
(* still grow has attempts left, and every frame above the first belongs to *)
(* a loop step that runs in the frame below.                                *)
Nodes(d) == Range(d.order)
FrameSet(d) == [loop: Nodes(d) \cup {Top}, index: Nat, items: Nat, nodes: [Nodes(d) -> NodeStates]]
Tame(d, n, ns) == d.kind[n] # "loop" /\ ns.s \in {"", "running", "retrying"} => ns.att < MaxAttempts
Linked(d, below, f) ==
  /\ f.loop \in Nodes(d) /\ d.kind[f.loop] = "loop" /\ f.index < f.items
  /\ below.nodes[f.loop].s \in {"running", "cancelled"}
  /\ d.owner[f.loop] = below.loop
Formed(d, fs) ==
  /\ fs \in Seq(FrameSet(d)) /\ Len(fs) > 0
  /\ fs[1].loop = Top
  /\ \A i \in 1 .. Len(fs) : \A n \in Nodes(d) : Tame(d, n, fs[i].nodes[n])
  /\ \A i \in 2 .. Len(fs) : Linked(d, fs[i - 1], fs[i])
GoodRun(d, run) ==
  {"frames", "steps"} \subseteq DOMAIN run /\ Formed(d, run.frames) /\ run.steps \in 0 .. MaxSteps

(* What a turn may do to a step, to a frame and to the frames: a step that  *)
(* has ended keeps its result, a loop step that runs goes on or is          *)
(* cancelled.                                                               *)
Moved(d, n, a, b) ==
  /\ Tame(d, n, b)
  /\ terminal(a) => b = a
  /\ d.kind[n] = "loop" /\ a.s \in {"running", "cancelled"} => b.s \in {"running", "cancelled"}
NearFrame(d, f, g) ==
  /\ g \in FrameSet(d) /\ g.loop = f.loop /\ g.index = f.index /\ g.items = f.items
  /\ \A n \in Nodes(d) : Moved(d, n, f.nodes[n], g.nodes[n])
Near(d, fs, gs) ==
  /\ gs \in Seq(FrameSet(d)) /\ Len(gs) = Len(fs)
  /\ \A i \in 1 .. Len(fs) : NearFrame(d, fs[i], gs[i])

(* The steps a batch executes: they run in the innermost frame, and all     *)
(* before them has ended.                                                   *)
Results == {"", "err", "ok", "limit", "true", "false", "wait", "ask", "stop", "stop_failed"}
GoodBatch(d, fs, batch) ==
  /\ DOMAIN batch \subseteq Nodes(d)
  /\ \A n \in DOMAIN batch :
       /\ batch[n] \in Results
       /\ d.kind[n] \in {"action", "destructive"} => batch[n] \in {"", "err", "ok", "limit"}
       /\ d.kind[n] # "loop" /\ d.owner[n] = fs[Len(fs)].loop /\ fs[Len(fs)].nodes[n].s = "running"
       /\ \A e \in d.edges : e.to = n => Entry(fs[Len(fs)], e) \/ terminal(fs[Len(fs)].nodes[e.from])

StepPCs == {"idle", "listed", "got", "begin", "loop", "exec", "finish", "hook", "leave", "release"}
StepOK(d, s) ==
  /\ DOMAIN s = {"pc", "run", "cancelled", "batch", "end"}
  /\ s.pc \in StepPCs
  /\ s.run = NoRun \/ GoodRun(d, s.run)
  /\ s.pc \in {"got", "begin", "loop", "exec", "finish"} => s.run # NoRun
  /\ s.pc = "exec" => GoodBatch(d, s.run.frames, s.batch)
  /\ s.pc = "finish" => Finished(s.end)
RowOK(d, r) ==
  DOMAIN r = {"status", "frames", "steps"} /\ r.status \in Statuses /\ GoodRun(d, r)

(* The first k steps of a set are k at most, so a batch keeps to its limit. *)
Counted ==
  \A S \in SUBSET Node : \A k \in Nat :
    /\ First(k, S) \subseteq S
    /\ Cardinality(First(k, S)) \in Nat /\ Cardinality(First(k, S)) <= k

(* Every run in the row and in a copy is well formed. *)
TInv ==
  /\ ControlTypeOK /\ flow \in DOMAIN Flows /\ lease \in Process \cup {Nobody}
  /\ RowOK(def, row)
  /\ DOMAIN step = Process /\ \A p \in Process : StepOK(def, step[p])
  /\ approval.pc = "decide" => RowOK(def, approval.run)
  /\ cancel.pc = "write" => RowOK(def, cancel.run)

(* A copy that is not outdated differs from the row only by such moves. *)
PInv ==
  /\ \A p \in Process : Copying(p) /\ <<"step", p>> \notin overtaken =>
       Near(def, row.frames, step[p].run.frames)
  /\ approval.pc = "decide" /\ <<"approve", approval.by>> \notin overtaken =>
       Near(def, row.frames, approval.run.frames)
  /\ cancel.pc = "write" /\ <<"cancel", cancel.by>> \notin overtaken =>
       Near(def, row.frames, cancel.run.frames)

(* A queued run is as it was created. *)
QInv ==
  /\ promoting \subseteq Process
  /\ row.status = "queued" => row.frames = <<Frame(Top, 0)>>

-----------------------------------------------------------------------------
(* Moves. *)
LEMMA FrameStays ==
  ASSUME NEW d, NEW f \in FrameSet(d), \A n \in Nodes(d) : Tame(d, n, f.nodes[n])
  PROVE  NearFrame(d, f, f)
BY Zenon DEF NearFrame, Moved

LEMMA FrameMoves ==
  ASSUME NEW d, NEW f, NEW g, NEW h, NearFrame(d, f, g), NearFrame(d, g, h)
  PROVE  NearFrame(d, f, h)
<1>1. h \in FrameSet(d) /\ h.loop = f.loop /\ h.index = f.index /\ h.items = f.items
  BY Zenon DEF NearFrame
<1>2. ASSUME NEW n \in Nodes(d)
      PROVE  Moved(d, n, f.nodes[n], h.nodes[n])
  <2>1. Moved(d, n, f.nodes[n], g.nodes[n]) /\ Moved(d, n, g.nodes[n], h.nodes[n])
    BY DEF NearFrame
  <2> QED
    BY <2>1 DEF Moved
<1> QED
  BY <1>1, <1>2, SMTT(20) DEF NearFrame

LEMMA NearItself ==
  ASSUME NEW d, NEW fs, Formed(d, fs)
  PROVE  Near(d, fs, fs)
<1>1. fs \in Seq(FrameSet(d)) /\ \A i \in 1 .. Len(fs) : fs[i] \in FrameSet(d)
  BY DEF Formed
<1>2. \A i \in 1 .. Len(fs) : NearFrame(d, fs[i], fs[i])
  BY <1>1, FrameStays, Zenon DEF Formed
<1> QED
  BY <1>1, <1>2 DEF Near

LEMMA NearTwice ==
  ASSUME NEW d, NEW fs, NEW gs, NEW hs, Near(d, fs, gs), Near(d, gs, hs)
  PROVE  Near(d, fs, hs)
BY FrameMoves, Zenon DEF Near

LEMMA NearIsFormed ==
  ASSUME NEW d, NEW fs, NEW gs, Formed(d, fs), Near(d, fs, gs)
  PROVE  Formed(d, gs)
<1>1. /\ gs \in Seq(FrameSet(d)) /\ Len(gs) = Len(fs) /\ Len(gs) > 0 /\ Len(fs) \in Nat
      /\ \A i \in 1 .. Len(fs) : NearFrame(d, fs[i], gs[i])
  BY SMTT(20) DEF Formed, Near
<1>2. gs[1].loop = Top
  <2>1. fs[1].loop = Top /\ 1 \in 1 .. Len(fs)
    BY <1>1 DEF Formed
  <2> QED
    BY <1>1, <2>1, Zenon DEF NearFrame
<1>3. \A i \in 1 .. Len(gs) : \A n \in Nodes(d) : Tame(d, n, gs[i].nodes[n])
  BY <1>1 DEF NearFrame, Moved
<1>4. ASSUME NEW i \in 2 .. Len(gs)
      PROVE  Linked(d, gs[i - 1], gs[i])
  <2>1. Linked(d, fs[i - 1], fs[i])
    BY <1>1 DEF Formed
  <2>2. NearFrame(d, fs[i - 1], gs[i - 1]) /\ NearFrame(d, fs[i], gs[i])
    BY <1>1
  <2> QED
    BY <2>1, <2>2, Zenon DEF Linked, NearFrame, Moved
<1> QED
  BY <1>1, <1>2, <1>3, <1>4 DEF Formed

(* The innermost frame is replaced. *)
LEMMA InnerFrame ==
  ASSUME NEW d, NEW fs, Formed(d, fs)
  PROVE  /\ Len(fs) \in Nat \ {0} /\ Inner(fs) \in FrameSet(d)
         /\ \A n \in Nodes(d) : Tame(d, n, Inner(fs).nodes[n])
<1>1. fs \in Seq(FrameSet(d)) /\ Len(fs) > 0
  BY DEF Formed
<1>2. Len(fs) \in Nat \ {0} /\ Len(fs) \in 1 .. Len(fs)
  BY <1>1, SMTT(20)
<1> QED
  BY <1>1, <1>2 DEF Formed, Inner

LEMMA ReplacedSeq ==
  ASSUME NEW S, NEW fs \in Seq(S), Len(fs) > 0, NEW g \in S
  PROVE  /\ Replaced(fs, g) \in Seq(S) /\ Len(Replaced(fs, g)) = Len(fs)
         /\ Replaced(fs, g)[Len(fs)] = g
         /\ \A i \in 1 .. Len(fs) - 1 : Replaced(fs, g)[i] = fs[i]
<1>1. Len(fs) \in Nat /\ Len(fs) \in 1 .. Len(fs)
  OBVIOUS
<1>2. Replaced(fs, g) \in [1 .. Len(fs) -> S]
  BY DEF Replaced
<1>3. \A j \in 1 .. Len(fs) : Replaced(fs, g)[j] = IF j = Len(fs) THEN g ELSE fs[j]
  BY DEF Replaced
<1> HIDE DEF Replaced
<1>4. Replaced(fs, g) \in Seq(S)
  BY <1>1, <1>2
<1>5. Len(Replaced(fs, g)) = Len(fs)
  BY <1>1, <1>2, <1>4
<1> QED
  BY <1>1, <1>3, <1>4, <1>5

LEMMA ReplacedFrames ==
  \A d, fs, g :
    fs \in Seq(FrameSet(d)) /\ Len(fs) > 0 /\ g \in FrameSet(d)
    => /\ Replaced(fs, g) \in Seq(FrameSet(d)) /\ Len(Replaced(fs, g)) = Len(fs)
       /\ Replaced(fs, g)[Len(fs)] = g
       /\ \A i \in 1 .. Len(fs) - 1 : Replaced(fs, g)[i] = fs[i]
BY ReplacedSeq

LEMMA InnerMoves ==
  ASSUME NEW d, NEW fs, Formed(d, fs), NEW g, NearFrame(d, Inner(fs), g)
  PROVE  Near(d, fs, Replaced(fs, g))
<1>1. fs \in Seq(FrameSet(d)) /\ Len(fs) \in Nat \ {0} /\ g \in FrameSet(d)
  BY DEF Formed, NearFrame
<1>2. /\ Replaced(fs, g) \in Seq(FrameSet(d)) /\ Len(Replaced(fs, g)) = Len(fs)
      /\ Replaced(fs, g)[Len(fs)] = g
      /\ \A i \in 1 .. Len(fs) - 1 : Replaced(fs, g)[i] = fs[i]
  BY <1>1, ReplacedSeq
<1>3. ASSUME NEW i \in 1 .. Len(fs)
      PROVE  NearFrame(d, fs[i], Replaced(fs, g)[i])
  <2>1. CASE i = Len(fs)
    BY <1>2, <2>1 DEF Inner
  <2>2. CASE i # Len(fs)
    <3>1. NearFrame(d, fs[i], fs[i]) /\ i \in 1 .. Len(fs) - 1
      BY <1>1, <2>2, NearItself DEF Near
    <3> QED
      BY <1>2, <3>1
  <2> QED
    BY <2>1, <2>2
<1> QED
  BY <1>1, <1>2, <1>3, Zenon DEF Near

(* The frames that a save may write: moves, and after them the body of a    *)
(* loop is entered, goes to its next item, or is left.                      *)
Entered(d, hs, gs) ==
  \E f \in FrameSet(d) :
    /\ gs = Append(hs, f) /\ Linked(d, Inner(hs), f)
    /\ \A n \in Nodes(d) : Tame(d, n, f.nodes[n])
Iterated(d, hs, gs) ==
  \E f \in FrameSet(d) :
    /\ gs = Replaced(hs, f) /\ Len(hs) > 1
    /\ f.loop = Inner(hs).loop /\ f.items = Inner(hs).items
    /\ f.index = Inner(hs).index + 1 /\ f.index < f.items
    /\ \A n \in Nodes(d) : Tame(d, n, f.nodes[n])
Left(d, hs, gs) ==
  \E f \in FrameSet(d) :
    /\ gs = Replaced(Outer(hs), f) /\ Len(hs) > 1
    /\ f.loop = hs[Len(hs) - 1].loop /\ f.index = hs[Len(hs) - 1].index /\ f.items = hs[Len(hs) - 1].items
    /\ f.nodes[Inner(hs).loop].s = "succeeded"
    /\ \A n \in Nodes(d) \ {Inner(hs).loop} : f.nodes[n] = hs[Len(hs) - 1].nodes[n]
Follows(d, fs, gs) ==
  \/ Near(d, fs, gs)
  \/ \E hs : Near(d, fs, hs) /\ (Entered(d, hs, gs) \/ Iterated(d, hs, gs) \/ Left(d, hs, gs))

LEMMA OuterSeq ==
  ASSUME NEW S, NEW fs \in Seq(S), Len(fs) > 1
  PROVE  /\ Outer(fs) \in Seq(S) /\ Len(Outer(fs)) = Len(fs) - 1
         /\ \A i \in 1 .. Len(fs) - 1 : Outer(fs)[i] = fs[i]
<1>1. SubSeq(fs, 1, Len(fs) - 1) \in Seq(S)
  OBVIOUS
<1>2. Len(SubSeq(fs, 1, Len(fs) - 1)) = Len(fs) - 1
  OBVIOUS
<1>3. \A i \in 1 .. Len(fs) - 1 : SubSeq(fs, 1, Len(fs) - 1)[i] = fs[i]
  OBVIOUS
<1> QED
  BY <1>1, <1>2, <1>3 DEF Outer

LEMMA LeftFrames ==
  ASSUME NEW d, NEW hs \in Seq(FrameSet(d)), Len(hs) > 1, NEW f \in FrameSet(d)
  PROVE  /\ Replaced(Outer(hs), f) \in Seq(FrameSet(d))
         /\ Len(Replaced(Outer(hs), f)) = Len(hs) - 1
         /\ Replaced(Outer(hs), f)[Len(hs) - 1] = f
         /\ \A i \in 1 .. Len(hs) - 2 : Replaced(Outer(hs), f)[i] = hs[i]
<1>1. /\ Outer(hs) \in Seq(FrameSet(d)) /\ Len(Outer(hs)) = Len(hs) - 1 /\ Len(hs) \in Nat
      /\ \A i \in 1 .. Len(hs) - 1 : Outer(hs)[i] = hs[i]
  BY OuterSeq
<1>3. Len(Outer(hs)) > 0
  BY <1>1
<1>2. /\ Replaced(Outer(hs), f) \in Seq(FrameSet(d)) /\ Len(Replaced(Outer(hs), f)) = Len(Outer(hs))
      /\ Replaced(Outer(hs), f)[Len(Outer(hs))] = f
      /\ \A i \in 1 .. Len(Outer(hs)) - 1 : Replaced(Outer(hs), f)[i] = Outer(hs)[i]
  BY <1>1, <1>3, ReplacedSeq, Zenon
<1> QED
  BY <1>1, <1>2

LEMMA Below ==
  ASSUME NEW k \in Nat, k > 1
  PROVE  /\ k - 1 \in Nat \ {0} /\ k - 1 \in 1 .. k /\ k \in 2 .. k /\ k - 1 - 1 = k - 2
         /\ \A i \in 1 .. k - 1 : i \in 1 .. k /\ (i = k - 1 \/ i \in 1 .. k - 2)
         /\ \A i \in 2 .. k - 1 : i \in 2 .. k /\ i - 1 \in 1 .. k - 2
BY SMTT(20)

-----------------------------------------------------------------------------
(* Such a save keeps the result of a step that has ended. *)
LEMMA FollowsKeeps ==
  ASSUME NEW fs, NEW gs, Formed(def, fs), Follows(def, fs, gs)
  PROVE  Kept(fs, gs)
<1> SUFFICES ASSUME NEW i \in DOMAIN fs, i \in DOMAIN gs,
                    \A j \in 1 .. i : fs[j].index = gs[j].index,
                    NEW n \in Node, terminal(fs[i].nodes[n])
             PROVE  gs[i].nodes[n] = fs[i].nodes[n]
  BY Zenon DEF Kept
<1>1. /\ fs \in Seq(FrameSet(def)) /\ Len(fs) \in Nat \ {0} /\ DOMAIN fs = 1 .. Len(fs)
      /\ i \in 1 .. Len(fs) /\ i \in 1 .. i /\ n \in Nodes(def)
  BY SMTT(20) DEF Formed, Node, Nodes
<1>2. ASSUME NEW hs, Near(def, fs, hs)
      PROVE  /\ hs \in Seq(FrameSet(def)) /\ Len(hs) = Len(fs) /\ hs[i].nodes[n] = fs[i].nodes[n]
             /\ \A j \in 1 .. Len(fs) : hs[j].index = fs[j].index /\ hs[j].loop = fs[j].loop
  BY <1>1, <1>2, Zenon DEF Near, NearFrame, Moved
<1>3. CASE Near(def, fs, gs)
  BY <1>2, <1>3, Zenon
<1>4. ASSUME NEW hs, Near(def, fs, hs), Entered(def, hs, gs)
      PROVE  gs[i].nodes[n] = fs[i].nodes[n]
  <2>1. PICK f \in FrameSet(def) : gs = Append(hs, f)
    BY <1>4, SMTT(20) DEF Entered
  <2>2. hs \in Seq(FrameSet(def)) /\ i \in 1 .. Len(hs)
    BY <1>1, <1>2, <1>4, Zenon
  <2>3. gs[i] = hs[i]
    BY <2>1, <2>2, SMTT(20)
  <2> QED
    BY <1>2, <1>4, <2>3, Zenon
<1>5. ASSUME NEW hs, Near(def, fs, hs), Iterated(def, hs, gs)
      PROVE  gs[i].nodes[n] = fs[i].nodes[n]
  <2>1. PICK f \in FrameSet(def) : gs = Replaced(hs, f) /\ f.index = Inner(hs).index + 1
    BY <1>5, Zenon DEF Iterated
  <2>2. hs \in Seq(FrameSet(def)) /\ Len(hs) > 0 /\ Len(hs) = Len(fs)
    BY <1>1, <1>2, <1>5, SMTT(30)
  <2>3. gs[Len(hs)] = f /\ \A j \in 1 .. Len(hs) - 1 : gs[j] = hs[j]
    <3>1. Len(hs) > 0 /\ hs \in Seq(FrameSet(def))
      BY <2>2, Zenon
    <3>2. /\ Replaced(hs, f) \in Seq(FrameSet(def)) /\ Len(Replaced(hs, f)) = Len(hs)
          /\ Replaced(hs, f)[Len(hs)] = f
          /\ \A j \in 1 .. Len(hs) - 1 : Replaced(hs, f)[j] = hs[j]
      BY <3>1, ReplacedSeq, SMTT(20)
    <3> QED
      BY <2>1, <3>2
  <2>4. i # Len(fs)
    <3>1. SUFFICES ASSUME i = Len(fs) PROVE FALSE
      OBVIOUS
    <3>2. gs[i].index = hs[i].index + 1 /\ hs[i].index = fs[i].index /\ fs[i].index = gs[i].index /\ fs[i].index \in Nat
      BY <1>1, <1>2, <1>5, <2>1, <2>2, <2>3, <3>1 DEF Inner, FrameSet
    <3> QED
      BY <3>2, SMTT(20)
  <2>5. i \in 1 .. Len(hs) - 1
    BY <1>1, <2>2, <2>4, SMTT(20)
  <2> QED
    BY <1>2, <1>5, <2>3, <2>5
<1>6. ASSUME NEW hs, Near(def, fs, hs), Left(def, hs, gs)
      PROVE  gs[i].nodes[n] = fs[i].nodes[n]
  <2> DEFINE k == Len(hs)
  <2>1. PICK f \in FrameSet(def) :
           /\ gs = Replaced(Outer(hs), f) /\ k > 1
           /\ \A x \in Nodes(def) \ {Inner(hs).loop} : f.nodes[x] = hs[k - 1].nodes[x]
    BY <1>6, Zenon DEF Left
  <2>2. hs \in Seq(FrameSet(def)) /\ k > 1 /\ k = Len(fs) /\ k \in Nat
    BY <1>1, <1>2, <1>6, <2>1, Zenon
  <2>3. /\ Len(gs) = k - 1 /\ gs[k - 1] = f /\ \A j \in 1 .. k - 2 : gs[j] = hs[j]
        /\ gs \in Seq(FrameSet(def))
    <3>1. hs \in Seq(FrameSet(def)) /\ Len(hs) > 1
      BY <2>2, Zenon
    <3>2. /\ Replaced(Outer(hs), f) \in Seq(FrameSet(def))
          /\ Len(Replaced(Outer(hs), f)) = k - 1
          /\ Replaced(Outer(hs), f)[k - 1] = f
          /\ \A j \in 1 .. k - 2 : Replaced(Outer(hs), f)[j] = hs[j]
      BY <3>1, LeftFrames, SMTT(30)
    <3> QED
      BY <2>1, <3>2, Zenon
  <2>4. i \in 1 .. k - 1
    <3>1. gs \in Seq(FrameSet(def)) /\ Len(gs) = k - 1
      BY <2>3, Zenon
    <3> HIDE DEF k
    <3>2. DOMAIN gs = 1 .. Len(gs)
      BY <3>1
    <3> QED
      BY <3>1, <3>2
  <2>5. Inner(hs).loop = fs[k].loop /\ fs[k - 1].nodes[fs[k].loop].s \in {"running", "cancelled"}
    BY <1>2, <1>6, <2>2, SMTT(30) DEF Inner, Formed, Linked
  <2> HIDE DEF k
  <2>6. CASE i = k - 1
    <3>1. n # Inner(hs).loop
      BY <2>5, <2>6, Zenon DEF terminal
    <3> QED
      BY <1>1, <1>2, <1>6, <2>1, <2>3, <2>6, <3>1, Zenon
  <2>7. CASE i # k - 1
    <3>1. i \in 1 .. k - 2
      BY <2>2, <2>4, <2>7, Below
    <3> QED
      BY <1>2, <1>6, <2>3, <3>1, Zenon
  <2> QED
    BY <2>6, <2>7, Zenon
<1> QED
  BY <1>3, <1>4, <1>5, <1>6, Zenon DEF Follows

(* Such a save keeps the frames well formed. *)
LEMMA FollowsIsFormed ==
  \A d, fs, gs : Formed(d, fs) /\ Follows(d, fs, gs) => Formed(d, gs)
<1>EnteredIsFormed.
  ASSUME NEW d, NEW hs, NEW gs, Formed(d, hs), Entered(d, hs, gs)
  PROVE  Formed(d, gs)
  <2> USE <1>EnteredIsFormed
  <2>1. PICK f \in FrameSet(d) : /\ gs = Append(hs, f) /\ Linked(d, Inner(hs), f)
                                 /\ \A n \in Nodes(d) : Tame(d, n, f.nodes[n])
    BY Zenon DEF Entered
  <2>2. /\ hs \in Seq(FrameSet(d)) /\ Len(hs) \in Nat \ {0}
        /\ gs \in Seq(FrameSet(d)) /\ Len(gs) = Len(hs) + 1
        /\ gs[Len(hs) + 1] = f /\ \A i \in 1 .. Len(hs) : gs[i] = hs[i]
    BY <2>1, SMTT(20) DEF Formed
  <2>3. gs[1].loop = Top /\ \A i \in 1 .. Len(gs) : \A n \in Nodes(d) : Tame(d, n, gs[i].nodes[n])
    BY <2>1, <2>2 DEF Formed
  <2>4. ASSUME NEW i \in 2 .. Len(gs)
        PROVE  Linked(d, gs[i - 1], gs[i])
    <3>1. CASE i = Len(gs)
      BY <2>1, <2>2, <3>1, SMTT(20) DEF Inner
    <3>2. CASE i # Len(gs)
      <4>1. i \in 2 .. Len(hs) /\ i - 1 \in 1 .. Len(hs) /\ i \in 1 .. Len(hs)
        BY <2>2, <3>2, SMTT(20)
      <4> QED
        BY <2>2, <4>1 DEF Formed
    <3> QED
      BY <3>1, <3>2, SMTT(20)
  <2> QED
    BY <2>2, <2>3, <2>4, SMTT(20) DEF Formed
<1>IteratedIsFormed.
  ASSUME NEW d, NEW hs, NEW gs, Formed(d, hs), Iterated(d, hs, gs)
  PROVE  Formed(d, gs)
  <2> USE <1>IteratedIsFormed
  <2>1. PICK f \in FrameSet(d) : /\ gs = Replaced(hs, f) /\ Len(hs) > 1
                                 /\ f.loop = Inner(hs).loop /\ f.index < f.items
                                 /\ \A n \in Nodes(d) : Tame(d, n, f.nodes[n])
    BY DEF Iterated
  <2>2. hs \in Seq(FrameSet(d)) /\ Len(hs) \in Nat \ {0} /\ Len(hs) > 0
    BY SMTT(20) DEF Formed
  <2>3. /\ gs \in Seq(FrameSet(d)) /\ Len(gs) = Len(hs)
        /\ gs[Len(hs)] = f /\ \A i \in 1 .. Len(hs) - 1 : gs[i] = hs[i]
    <3>1. /\ Replaced(hs, f) \in Seq(FrameSet(d)) /\ Len(Replaced(hs, f)) = Len(hs)
          /\ Replaced(hs, f)[Len(hs)] = f
          /\ \A i \in 1 .. Len(hs) - 1 : Replaced(hs, f)[i] = hs[i]
      BY <2>2, ReplacedSeq, SMTT(20)
    <3> QED
      BY <2>1, <3>1, Zenon
  <2>4. gs[1].loop = Top /\ \A i \in 1 .. Len(gs) : \A n \in Nodes(d) : Tame(d, n, gs[i].nodes[n])
    <3>1. 1 \in 1 .. Len(hs) - 1 /\ \A i \in 1 .. Len(gs) : i = Len(hs) \/ i \in 1 .. Len(hs) - 1
      BY <2>1, <2>2, <2>3, SMTT(20)
    <3>2. \A i \in 1 .. Len(hs) - 1 : i \in 1 .. Len(hs)
      BY <2>2
    <3> QED
      BY <2>1, <2>3, <3>1, <3>2, Zenon DEF Formed
  <2>5. ASSUME NEW i \in 2 .. Len(gs)
        PROVE  Linked(d, gs[i - 1], gs[i])
    <3>1. Linked(d, hs[i - 1], hs[i]) /\ gs[i - 1] = hs[i - 1]
      BY <2>2, <2>3, SMTT(20) DEF Formed
    <3>2. CASE i = Len(gs)
      BY <2>1, <2>3, <3>1, <3>2, SMTT(30) DEF Inner, Linked
    <3>3. CASE i # Len(gs)
      BY <2>2, <2>3, <3>1, <3>3, SMTT(20)
    <3> QED
      BY <3>2, <3>3
  <2> QED
    BY <2>2, <2>3, <2>4, <2>5, Zenon DEF Formed
<1>LeftIsFormed.
  ASSUME NEW d, NEW hs, NEW gs, Formed(d, hs), Left(d, hs, gs)
  PROVE  Formed(d, gs)
  <2> USE <1>LeftIsFormed
  <2> DEFINE k == Len(hs)
             l == Inner(hs).loop
  <2>1. PICK f \in FrameSet(d) :
           /\ gs = Replaced(Outer(hs), f) /\ k > 1
           /\ f.loop = hs[k - 1].loop /\ f.index = hs[k - 1].index /\ f.items = hs[k - 1].items
           /\ f.nodes[l].s = "succeeded"
           /\ \A n \in Nodes(d) \ {l} : f.nodes[n] = hs[k - 1].nodes[n]
    BY Zenon DEF Left
  <2>2. hs \in Seq(FrameSet(d)) /\ k \in Nat /\ k > 1
    BY <2>1, SMTT(30) DEF Formed
  <2>3. /\ gs \in Seq(FrameSet(d)) /\ Len(gs) = k - 1
        /\ gs[k - 1] = f /\ \A i \in 1 .. k - 2 : gs[i] = hs[i]
    <3>1. /\ Replaced(Outer(hs), f) \in Seq(FrameSet(d))
          /\ Len(Replaced(Outer(hs), f)) = k - 1
          /\ Replaced(Outer(hs), f)[k - 1] = f
          /\ \A i \in 1 .. k - 2 : Replaced(Outer(hs), f)[i] = hs[i]
      BY <2>2, LeftFrames
    <3> QED
      BY <2>1, <3>1, Zenon
  <2>4. /\ hs[1].loop = Top
        /\ \A i \in 1 .. k : \A n \in Nodes(d) : Tame(d, n, hs[i].nodes[n])
        /\ \A i \in 2 .. k : Linked(d, hs[i - 1], hs[i])
    BY DEF Formed
  <2> HIDE DEF k
  <2>5. /\ k - 1 \in Nat \ {0} /\ k - 1 \in 1 .. k /\ k \in 2 .. k /\ k - 1 - 1 = k - 2
        /\ \A i \in 1 .. k - 1 : i \in 1 .. k /\ (i = k - 1 \/ i \in 1 .. k - 2)
        /\ \A i \in 2 .. k - 1 : i \in 2 .. k /\ i - 1 \in 1 .. k - 2
    BY <2>2, Below
  <2>6. \A n \in Nodes(d) : Tame(d, n, f.nodes[n])
    <3>1. \A n \in Nodes(d) : Tame(d, n, hs[k - 1].nodes[n])
      BY <2>4, <2>5
    <3>2. Tame(d, l, f.nodes[l])
      BY <2>1, Zenon DEF Tame
    <3> QED
      BY <2>1, <3>1, <3>2, Zenon
  <2>7. gs[1].loop = Top
    <3>1. k - 1 = 1 \/ 1 \in 1 .. k - 2
      BY <2>5, SMTT(20)
    <3> QED
      BY <2>1, <2>3, <2>4, <3>1
  <2>8. \A i \in 1 .. k - 1 : \A n \in Nodes(d) : Tame(d, n, gs[i].nodes[n])
    BY <2>3, <2>4, <2>5, <2>6, Zenon
  <2>9. ASSUME NEW i \in 2 .. k - 1
        PROVE  Linked(d, gs[i - 1], gs[i])
    <3>1. Linked(d, hs[i - 1], hs[i]) /\ gs[i - 1] = hs[i - 1]
      BY <2>3, <2>4, <2>5
    <3>2. CASE i = k - 1
      BY <2>1, <2>3, <3>1, <3>2, Zenon DEF Linked
    <3>3. CASE i # k - 1
      <4>1. i \in 1 .. k - 2
        BY <2>5, <3>3
      <4> QED
        BY <2>3, <3>1, <4>1
    <3> QED
      BY <3>2, <3>3, Zenon
  <2> QED
    BY <2>3, <2>5, <2>7, <2>8, <2>9 DEF Formed
<1> SUFFICES ASSUME NEW d, NEW fs, NEW gs, Formed(d, fs), Follows(d, fs, gs)
             PROVE  Formed(d, gs)
  BY Zenon
<1> QED
  BY NearIsFormed, <1>EnteredIsFormed, <1>IteratedIsFormed, <1>LeftIsFormed, Zenon DEF Follows

LEMMA InnerReplaced ==
  ASSUME NEW S, NEW fs \in Seq(S), Len(fs) > 0, NEW g \in S
  PROVE  Inner(Replaced(fs, g)) = g
<1>1. /\ Replaced(fs, g) \in Seq(S) /\ Len(Replaced(fs, g)) = Len(fs)
      /\ Replaced(fs, g)[Len(fs)] = g
      /\ \A i \in 1 .. Len(fs) - 1 : Replaced(fs, g)[i] = fs[i]
  BY ReplacedSeq
<1> QED
  BY <1>1, SMTT(20) DEF Inner

LEMMA StillFrames ==
  ASSUME NEW d, NEW fs \in Seq(FrameSet(d)), Len(fs) > 0, NEW g \in FrameSet(d)
  PROVE  Replaced(fs, g) \in Seq(FrameSet(d)) /\ Len(Replaced(fs, g)) > 0
BY ReplacedFrames

LEMMA SomeRun ==
  ASSUME NEW d, NEW run, GoodRun(d, run)
  PROVE  run # NoRun
<1>1. run.frames \in Seq(FrameSet(d)) /\ Len(run.frames) > 0
  BY DEF GoodRun, Formed
<1>2. run.frames # <<>>
  BY <1>1
<1> QED
  BY <1>2, SMTT(20) DEF NoRun

LEMMA IdleIsOK ==
  StepOK(def, Idle) /\ Idle.pc = "idle"
<1>1. /\ DOMAIN Idle = {"pc", "run", "cancelled", "batch", "end"}
      /\ Idle.pc = "idle" /\ Idle.run = NoRun
  BY DEF Idle
<1> QED
  BY <1>1 DEF StepOK, StepPCs

(* The row of a new run is well formed. *)
LEMMA CreatedIsFormed ==
  ASSUME FlowAssumption, NEW status \in {"pending", "queued"}
  PROVE  /\ RowOK(def, Created(status))
         /\ Created(status).status = status /\ Created(status).frames = <<Frame(Top, 0)>>
<1> DEFINE f == Frame(Top, 0)
           new == Created(status)
<1>3. /\ DOMAIN new = {"status", "frames", "steps"} /\ new.status = status
      /\ new.frames = <<f>> /\ new.steps = 0
  BY Zenon DEF Created
<1>1. f \in FrameSet(def) /\ f.loop = Top /\ \A n \in Nodes(def) : Tame(def, n, f.nodes[n])
  <2>1. Blank \in NodeStates /\ Blank.s = "" /\ Blank.att = 0
    BY SMTT(20) DEF Blank, NodeStates
  <2>2. /\ f.loop = Top /\ f.index = 0 /\ f.items = 0 /\ f.nodes = [n \in Nodes(def) |-> Blank]
        /\ f = [loop |-> f.loop, index |-> f.index, items |-> f.items, nodes |-> f.nodes]
    BY DEF Frame, Nodes, Node
  <2>3. f.nodes \in [Nodes(def) -> NodeStates]
    BY <2>1, <2>2, Zenon
  <2> HIDE DEF f
  <2>4. f \in FrameSet(def)
    BY <2>2, <2>3 DEF FrameSet
  <2>5. \A n \in Nodes(def) : f.nodes[n].att < MaxAttempts
    <3>1. 0 < MaxAttempts
      BY DEF FlowAssumption
    <3>2. \A n \in Nodes(def) : f.nodes[n].att = 0
      BY <2>1, <2>2, Zenon
    <3> QED
      BY <3>1, <3>2
  <2> QED
    BY <2>2, <2>4, <2>5, Zenon DEF Tame
<1> HIDE DEF f
<1>2. Formed(def, <<f>>)
  <2>1. <<f>> \in Seq(FrameSet(def)) /\ Len(<<f>>) = 1 /\ <<f>>[1] = f
    BY <1>1
  <2> QED
    BY <1>1, <2>1 DEF Formed
<1> HIDE DEF new
<1>4. RowOK(def, new)
  BY <1>2, <1>3, SMTT(30) DEF RowOK, GoodRun, Statuses, FlowAssumption
<1> QED
  BY <1>3, <1>4, Zenon DEF f, new

(* Everything is well formed at first. *)
LEMMA InitIsFormed ==
  ASSUME FlowAssumption, Init
  PROVE  TInv /\ PInv /\ QInv
<1>1. /\ flow \in DOMAIN Flows /\ lease = Nobody /\ step = [p \in Process |-> Idle]
      /\ ControlInit /\ promoting = {}
  BY Zenon DEF Init
<1>2. approval.pc = "idle" /\ cancel.pc = "idle"
  BY Zenon DEF Init, NoCall
<1>3. ControlTypeOK
  BY <1>1, ProcessAssumption DEF ControlInit, ControlTypeOK
<1>4. PICK status \in {"pending", "queued"} : row = Created(status)
  BY Zenon DEF Init
<1>5. RowOK(def, row) /\ row.frames = <<Frame(Top, 0)>>
  BY <1>4, CreatedIsFormed, Zenon
<1>6. DOMAIN step = Process /\ \A p \in Process : step[p] = Idle
  BY <1>1, SMTT(20)
<1>7. TInv
  BY <1>1, <1>2, <1>3, <1>5, <1>6, IdleIsOK, Zenon DEF TInv
<1>8. PInv
  BY <1>2, <1>6, IdleIsOK, Zenon DEF PInv, Copying
<1>9. QInv
  BY <1>1, <1>5, Zenon DEF QInv
<1> QED
  BY <1>7, <1>8, <1>9, Zenon

-----------------------------------------------------------------------------
(* Who has a copy. *)
LEMMA Copies ==
  ASSUME Shape
  PROVE  /\ \A p \in Process : <<"step", p>> \in HasCopy <=> Copying(p)
         /\ \A p \in Process : <<"approve", p>> \in HasCopy
                                 <=> approval.by = p /\ approval.pc = "decide"
         /\ \A p \in Process : <<"cancel", p>> \in HasCopy
                                 <=> cancel.by = p /\ cancel.pc = "write"
         /\ \A op \in HasCopy : \/ \E p \in Process : op = <<"step", p>>
                                \/ \E p \in Process : op = <<"approve", p>>
                                \/ \E p \in Process : op = <<"cancel", p>>
BY Zenon DEF HasCopy, Copying

(* What a step may do to the status of a finished run. *)
StaysFinished == Finished(row.status) => Finished(row'.status) \/ clash'

-----------------------------------------------------------------------------

LEMMA NextKeeps ==
  ASSUME LInv, [Next]_vars
  PROVE  LInv' /\ StaysFinished
(* With exclusion, an operation with a copy is the only one. *)
<1>OnlyCopy.
  ASSUME LInv, ~yielded, NEW op \in HasCopy
  PROVE  HasCopy \ {op} = {} /\ op \notin overtaken
  <2> USE <1>OnlyCopy
  <2>1. \A p, q \in Process : Copying(p) /\ Copying(q) => p = q
    BY DEF LInv, Exclusive, Copying, Stepping
  <2>2. \A p \in Process : Copying(p) => approval.pc # "decide" /\ cancel.pc # "write"
    BY DEF LInv, Shape, Exclusive, Copying, Stepping, Cancelling
  <2>3. ~(approval.pc = "decide" /\ cancel.pc = "write")
    BY DEF LInv, Shape, Exclusive, Cancelling
  <2>4. \A other \in HasCopy : other = op
    BY <2>1, <2>2, <2>3, Copies DEF LInv
  <2>5. overtaken = {}
    BY DEF LInv, Exclusive
  <2> QED
    BY <2>4, <2>5
<1>QuietStays.
  ASSUME UNCHANGED row
  PROVE  StaysFinished
  BY <1>QuietStays DEF StaysFinished
(* A claim that succeeds without giving exclusion up finds nobody inside.  *)
<1>ClaimIsAlone.
  ASSUME LInv, NEW p \in Process, Claim(p), ~yielded'
  PROVE  /\ ~yielded /\ lease' = p
         /\ \A q \in Process : ~Stepping(q)
         /\ approval.pc = "idle" /\ ~Cancelling
         /\ overtaken = {} /\ clash = FALSE
  <2> USE <1>ClaimIsAlone
  <2>1. ~yielded /\ lease = Nobody /\ lease' = p
    BY Zenon DEF Claim
  <2> QED
    BY <2>1, ProcessAssumption DEF LInv, Exclusive, Shape, Cancelling
(* Approval. *)
<1>ApproveKeeps.
  ASSUME LInv, NEW p \in Process, Approve(p)
  PROVE  LInv' /\ StaysFinished
  <2> USE <1>ApproveKeeps
  <2>1. /\ UNCHANGED <<row, step, cancel, clash>>
        /\ approval.pc = "idle"
        /\ Claim(p)
        /\ overtaken' = overtaken \ {<<"approve", p>>}
        /\ {"pc", "by", "run"} \subseteq DOMAIN approval' /\ approval'.by = p
        /\ approval'.pc \in {"decide", "release"}
        /\ approval'.pc = "decide" => row.status \in {"waiting", "waiting_approval"}
        /\ approval'.run = row
    BY DEF Approve, Read
  <2>2. Shape'
    BY <2>1, Zenon DEF LInv, Shape
  <2>3. Exclusive'
    <3> SUFFICES ASSUME ~yielded' PROVE Exclusive'
      BY DEF Exclusive
    <3>1. /\ lease' = p
          /\ \A q \in Process : ~Stepping(q)
          /\ ~Cancelling /\ overtaken = {} /\ clash = FALSE
      BY <2>1, <1>ClaimIsAlone, Zenon
    <3>2. (\A q \in Process : ~Stepping(q)') /\ ~Cancelling' /\ overtaken' = {} /\ clash' = FALSE
      BY <2>1, <3>1 DEF Stepping, Cancelling
    <3> QED
      BY <2>1, <3>1, <3>2, Zenon DEF Exclusive
  <2>4. Fresh'
    BY <2>1 DEF LInv, Fresh, Copying, Finished
  <2> QED
    BY <2>1, <2>2, <2>3, <2>4, <1>QuietStays DEF LInv
<1>DecideKeeps.
  ASSUME LInv, Decide
  PROVE  LInv' /\ StaysFinished
  <2> USE <1>DecideKeeps
  <2> DEFINE op == <<"approve", approval.by>>
  <2>1. /\ UNCHANGED <<lease, step, cancel, yielded>>
        /\ approval.pc = "decide"
        /\ approval.by \in Process
        /\ {"pc", "by", "run"} \subseteq DOMAIN approval'
        /\ approval'.pc = "release" /\ approval'.by = approval.by
    BY DEF Decide, LInv, Shape
  <2>8. CASE UNCHANGED <<row, overtaken, clash>>
    <3>1. Shape' /\ Exclusive'
      BY <2>1, <2>8, Zenon DEF LInv, Shape, Exclusive, Stepping, Cancelling
    <3>2. Fresh'
      BY <2>1, <2>8, Zenon DEF LInv, Fresh, Copying
    <3> QED
      BY <2>8, <3>1, <3>2, <1>QuietStays, Zenon DEF LInv
  <2> SUFFICES ASSUME ~UNCHANGED <<row, overtaken, clash>> PROVE LInv' /\ StaysFinished
    BY <2>8, Zenon
  <2>2. PICK new : Write(op, new) /\ "status" \in DOMAIN new
    <3>1. PICK frames : Write(op, [approval.run EXCEPT !.status = "pending", !.frames = frames])
      BY Zenon DEF Decide
    <3>2. "status" \in DOMAIN [approval.run EXCEPT !.status = "pending", !.frames = frames]
      BY <2>1 DEF LInv, Shape
    <3> QED
      BY <3>1, <3>2, Zenon
  <2>3. op \in HasCopy
    BY <2>1, Copies DEF LInv
  <2>4. Shape'
    BY <2>1, <2>2, Zenon DEF LInv, Shape, Write
  <2>5. Exclusive'
    <3>1. ~yielded => overtaken' = {} /\ clash' = FALSE
      BY <2>2, <2>3, <1>OnlyCopy, Zenon DEF Write, LInv, Exclusive
    <3> QED
      BY <2>1, <3>1 DEF LInv, Exclusive, Stepping, Cancelling
  <2>6. Fresh'
    <3>1. \A q \in Process : Copying(q)' => <<"step", q>> \in overtaken'
      BY <2>1, <2>2, Copies DEF Copying, Write, LInv
    <3> QED
      BY <2>1, <3>1 DEF Fresh
  <2>7. StaysFinished
    BY <2>1, <2>2, Zenon DEF StaysFinished, LInv, Fresh, Write
  <2> QED
    BY <2>4, <2>5, <2>6, <2>7 DEF LInv
<1>ApproveDoneKeeps.
  ASSUME LInv, ApproveDone
  PROVE  LInv' /\ StaysFinished
  <2> USE <1>ApproveDoneKeeps
  <2>1. /\ UNCHANGED <<row, step, cancel, clash, yielded>>
        /\ approval.pc = "release" /\ approval.by \in Process
        /\ {"pc", "by", "run"} \subseteq DOMAIN approval'
        /\ approval'.pc = "idle" /\ approval'.by = Nobody
        /\ overtaken' = overtaken \ {<<"approve", approval.by>>}
    BY Zenon DEF ApproveDone, Read, NoCall, LInv, Shape
  <2>2. Shape'
    BY <2>1 DEF LInv, Shape
  <2>3. Exclusive'
    <3> SUFFICES ASSUME ~yielded PROVE Exclusive'
      BY <2>1 DEF Exclusive
    <3>1. /\ \A q \in Process : ~Stepping(q)
          /\ ~Cancelling /\ overtaken = {} /\ clash = FALSE
      BY <2>1, Zenon DEF LInv, Exclusive, Cancelling
    <3> QED
      BY <2>1, <3>1 DEF Exclusive, Stepping, Cancelling
  <2>4. Fresh'
    BY <2>1 DEF LInv, Fresh, Copying
  <2> QED
    BY <2>1, <2>2, <2>3, <2>4, <1>QuietStays, Zenon DEF LInv
(* Cancel.  It may write over a finished run, but only a finished status.  *)
<1>CancelCallKeeps.
  ASSUME LInv, (\E p \in Process : Cancel(p)) \/ RequestCancel
  PROVE  LInv' /\ StaysFinished
  <2> USE <1>CancelCallKeeps
  <2>1. /\ UNCHANGED <<row, lease, approval, overtaken, clash, yielded>>
        /\ {"pc", "by", "run"} \subseteq DOMAIN cancel'
        /\ \/ cancel'.pc = "idle" /\ cancel'.by = Nobody
           \/ cancel'.pc = "request" /\ cancel'.by \in Process
    BY DEF Cancel, RequestCancel, NoCall
  <2>2. /\ DOMAIN step' = Process
        /\ \A q \in Process : "pc" \in DOMAIN step'[q] /\ step'[q].pc = step[q].pc
    <3>1. CASE \E p \in Process : Cancel(p)
      BY <3>1 DEF Cancel, LInv, Shape
    <3>2. CASE RequestCancel
      BY <3>2 DEF RequestCancel, LInv, Shape
    <3> QED
      BY <3>1, <3>2, Zenon
  <2>3. Shape'
    BY <2>1, <2>2, Zenon DEF LInv, Shape
  <2>4. Exclusive'
    BY <2>1, <2>2, Zenon DEF LInv, Exclusive, Stepping, Cancelling
  <2>5. Fresh'
    BY <2>1, <2>2 DEF LInv, Fresh, Copying
  <2> QED
    BY <2>1, <2>3, <2>4, <2>5, <1>QuietStays DEF LInv
<1>CancelClaimKeeps.
  ASSUME LInv, CancelClaim
  PROVE  LInv' /\ StaysFinished
  <2> USE <1>CancelClaimKeeps
  <2>0. cancel.pc = "request" /\ cancel.by \in Process
    BY DEF CancelClaim, LInv, Shape
  <2>1. UNCHANGED <<row, step, approval, clash>>
    BY DEF CancelClaim
  <2>2. CASE Claim(cancel.by) /\ cancel' = [cancel EXCEPT !.pc = "write", !.run = row] /\ Read(<<"cancel", cancel.by>>)
    <3>1. /\ {"pc", "by", "run"} \subseteq DOMAIN cancel'
          /\ cancel'.pc = "write" /\ cancel'.by = cancel.by /\ cancel'.run = row
          /\ overtaken' = overtaken \ {<<"cancel", cancel.by>>}
      BY <2>2, Zenon DEF Read, LInv, Shape
    <3>2. Shape'
      BY <2>0, <2>1, <3>1 DEF LInv, Shape
    <3>3. Exclusive'
      <4> SUFFICES ASSUME ~yielded' PROVE Exclusive'
        BY DEF Exclusive
      <4>1. /\ lease' = cancel.by
            /\ \A q \in Process : ~Stepping(q)
            /\ approval.pc = "idle" /\ overtaken = {} /\ clash = FALSE
        BY <2>0, <2>2, <1>ClaimIsAlone, Zenon
      <4> QED
        BY <2>1, <3>1, <4>1 DEF Exclusive, Stepping
    <3>4. Fresh'
      BY <2>1, <3>1 DEF LInv, Fresh, Copying
    <3> QED
      BY <2>1, <3>2, <3>3, <3>4, <1>QuietStays DEF LInv
  <2>3. CASE cancel' = NoCall /\ UNCHANGED <<lease, overtaken, yielded>>
    <3>1. {"pc", "by", "run"} \subseteq DOMAIN cancel' /\ cancel'.pc = "idle" /\ cancel'.by = Nobody
      BY <2>3, Zenon DEF NoCall
    <3>2. Shape' /\ Exclusive' /\ Fresh'
      BY <2>1, <2>3, <3>1 DEF LInv, Shape, Exclusive, Fresh, Stepping, Copying, Cancelling
    <3> QED
      BY <2>1, <3>2, <1>QuietStays DEF LInv
  <2> QED
    BY <2>2, <2>3 DEF CancelClaim
<1>CancelWriteKeeps.
  ASSUME LInv, CancelWrite
  PROVE  LInv' /\ StaysFinished
  <2> USE <1>CancelWriteKeeps
  <2> DEFINE op == <<"cancel", cancel.by>>
             new == [cancel.run EXCEPT !.status = "cancelled", !.frames = markCancelled(@)]
  <2>1. /\ UNCHANGED <<lease, step, approval, yielded>>
        /\ cancel.pc = "write" /\ cancel.by \in Process
        /\ {"pc", "by", "run"} \subseteq DOMAIN cancel'
        /\ cancel'.pc = "release" /\ cancel'.by = cancel.by
    BY DEF CancelWrite, LInv, Shape
  <2>9. CASE UNCHANGED <<row, overtaken, clash>>
    <3>1. Shape' /\ Exclusive'
      BY <2>1, <2>9, Zenon DEF LInv, Shape, Exclusive, Stepping, Cancelling
    <3>2. Fresh'
      BY <2>1, <2>9, Zenon DEF LInv, Fresh, Copying
    <3> QED
      BY <2>9, <3>1, <3>2, <1>QuietStays, Zenon DEF LInv
  <2> SUFFICES ASSUME ~UNCHANGED <<row, overtaken, clash>> PROVE LInv' /\ StaysFinished
    BY <2>9, Zenon
  <2>2. Write(op, new)
    BY Zenon DEF CancelWrite
  <2>8. "status" \in DOMAIN new /\ new.status = "cancelled"
    BY <2>1 DEF LInv, Shape
  <2> HIDE DEF new
  <2>3. op \in HasCopy
    BY <2>1, Copies, Zenon DEF LInv
  <2>4. Shape'
    BY <2>1, <2>2, <2>8, Zenon DEF LInv, Shape, Write
  <2>5. Exclusive'
    <3>1. ~yielded => overtaken' = {} /\ clash' = FALSE
      BY <2>2, <2>3, <1>OnlyCopy, Zenon DEF Write, LInv, Exclusive
    <3> QED
      BY <2>1, <3>1 DEF LInv, Exclusive, Stepping, Cancelling
  <2>6. Fresh'
    <3>1. \A q \in Process : Copying(q)' => <<"step", q>> \in overtaken'
      BY <2>1, <2>2, Copies, Zenon DEF Copying, Write, LInv
    <3>2. approval'.pc = "decide" => <<"approve", approval'.by>> \in overtaken'
      BY <2>1, <2>2, Copies DEF Write, LInv, Shape
    <3> QED
      BY <3>1, <3>2 DEF Fresh
  <2>7. StaysFinished
    BY <2>2, <2>8 DEF StaysFinished, Write, Finished
  <2> QED
    BY <2>4, <2>5, <2>6, <2>7 DEF LInv
<1>CancelDoneKeeps.
  ASSUME LInv, CancelDone
  PROVE  LInv' /\ StaysFinished
  <2> USE <1>CancelDoneKeeps
  <2>1. /\ UNCHANGED <<row, step, approval, clash, yielded>>
        /\ Cancelling /\ cancel.by \in Process
        /\ {"pc", "by", "run"} \subseteq DOMAIN cancel'
        /\ cancel'.pc = "idle" /\ cancel'.by = Nobody
        /\ overtaken' = overtaken \ {<<"cancel", cancel.by>>}
    BY Zenon DEF CancelDone, Read, NoCall, LInv, Shape, Cancelling
  <2>2. Shape'
    BY <2>1, Zenon DEF LInv, Shape
  <2>3. Exclusive'
    <3> SUFFICES ASSUME ~yielded PROVE Exclusive'
      BY <2>1, Zenon DEF Exclusive
    <3>1. /\ \A q \in Process : ~Stepping(q)
          /\ approval.pc = "idle" /\ overtaken = {} /\ clash = FALSE
      BY <2>1 DEF LInv, Exclusive
    <3> QED
      BY <2>1, <3>1, Zenon DEF Exclusive, Stepping, Cancelling
  <2>4. Fresh'
    BY <2>1 DEF LInv, Fresh, Copying
  <2> QED
    BY <2>1, <2>2, <2>3, <2>4, <1>QuietStays, Zenon DEF LInv
(* Time, leases and processes. *)
<1>PromoteKeeps.
  ASSUME LInv, NEW p \in Process, promote(p)
  PROVE  LInv' /\ StaysFinished
  <2> USE <1>PromoteKeeps
  <2>1. UNCHANGED <<lease, step, approval, cancel>>
    BY Zenon DEF promote
  <2>2. CASE UNCHANGED <<row, overtaken, clash, yielded>>
    <3>1. Shape' /\ Exclusive' /\ Fresh'
      BY <2>1, <2>2, Zenon DEF LInv, Shape, Exclusive, Fresh, Stepping, Copying, Cancelling
    <3> QED
      BY <2>2, <3>1, <1>QuietStays, Zenon DEF LInv
  <2>3. CASE /\ row' = Created("pending") /\ overtaken' = overtaken \cup HasCopy
             /\ clash' = (clash \/ row.status # "queued")
             /\ yielded' = (yielded \/ row.status # "queued" \/ HasCopy # {})
    <3>1. "status" \in DOMAIN row'
      BY <2>3, Zenon DEF Created
    <3>2. Shape'
      BY <2>1, <3>1, Zenon DEF LInv, Shape
    <3>3. Exclusive'
      <4> SUFFICES ASSUME ~yielded' PROVE Exclusive'
        BY DEF Exclusive
      <4>1. ~yielded /\ row.status = "queued" /\ HasCopy = {}
        BY <2>3, Zenon
      <4>2. overtaken' = {} /\ clash' = FALSE
        BY <2>3, <4>1 DEF LInv, Exclusive
      <4> QED
        BY <2>1, <4>1, <4>2, Zenon DEF LInv, Exclusive, Stepping, Cancelling
    <3>4. Fresh'
      <4>1. \A q \in Process : Copying(q)' => <<"step", q>> \in overtaken'
        BY <2>1, <2>3, Copies, Zenon DEF Copying, LInv
      <4>2. approval'.pc = "decide" => <<"approve", approval'.by>> \in overtaken'
        BY <2>1, <2>3, Copies DEF LInv, Shape
      <4> QED
        BY <4>1, <4>2 DEF Fresh
    <3>5. StaysFinished
      BY <2>3 DEF StaysFinished, Finished
    <3> QED
      BY <3>2, <3>3, <3>4, <3>5, Zenon DEF LInv
  <2> QED
    BY <2>2, <2>3, Zenon DEF promote
<1>LeaseKeeps.
  ASSUME LInv, RunLeaseRunsOut \/ RunLeaseLapses \/ \E p \in Process : RenewRun(p)
  PROVE  LInv' /\ StaysFinished
  <2> USE <1>LeaseKeeps
  <2>1. UNCHANGED <<row, step, approval, cancel, overtaken, clash>>
    BY Zenon DEF RunLeaseRunsOut, RunLeaseLapses, RenewRun
  <2>2. Shape' /\ Fresh'
    BY <2>1 DEF LInv, Shape, Fresh, Copying
  <2>3. Exclusive'
    <3>1. CASE RunLeaseRunsOut
      <4> SUFFICES ASSUME ~yielded' PROVE Exclusive'
        BY DEF Exclusive
      <4>1. ~yielded /\ ~Holds(lease)
        BY <3>1, Zenon DEF RunLeaseRunsOut
      <4>2. (\A q \in Process : ~Stepping(q)) /\ approval.pc = "idle" /\ ~Cancelling
        BY <4>1 DEF LInv, Exclusive, Shape, Holds, Stepping, Cancelling
      <4> QED
        BY <2>1, <4>1, <4>2, Zenon DEF LInv, Exclusive, Stepping, Cancelling
    <3>2. CASE \E p \in Process : RenewRun(p)
      <4>1. PICK p \in Process : Registered(p) /\ lease = Nobody /\ Claim(p)
        BY <3>2, Zenon DEF RenewRun, Renewing
      <4>2. yielded
        BY <4>1, ProcessAssumption DEF LInv, Exclusive, Registered, Stepping
      <4> QED
        BY <4>1, <4>2, Zenon DEF Exclusive, Claim
    <3>3. CASE RunLeaseLapses
      BY <3>3, Zenon DEF RunLeaseLapses, Exclusive
    <3> QED
      BY <3>1, <3>2, <3>3, Zenon
  <2> QED
    BY <2>1, <2>2, <2>3, <1>QuietStays DEF LInv
<1>GoneKeeps.
  ASSUME LInv, NEW p \in Process, Gone(p)
  PROVE  LInv' /\ StaysFinished
  <2> USE <1>GoneKeeps
  <2>1. /\ DOMAIN step' = Process /\ "pc" \in DOMAIN step'[p]
        /\ \A q \in Process \ {p} : step'[q] = step[q]
        /\ step'[p].pc = "idle"
    BY Zenon DEF LInv, Shape, Gone, Idle
  <2>2. UNCHANGED <<row, lease, clash, yielded>>
    BY Zenon DEF Gone
  <2>3. /\ overtaken' = {op \in overtaken : op[2] # p}
        /\ approval' = IF approval.by = p THEN NoCall ELSE approval
        /\ cancel' = IF cancel.by = p THEN NoCall ELSE cancel
    BY DEF Gone
  <2>4. /\ {"pc", "by", "run"} \subseteq DOMAIN NoCall
        /\ NoCall.pc = "idle" /\ NoCall.by = Nobody
    BY Zenon DEF NoCall
  <2>5. Shape'
    BY <2>1, <2>2, <2>3, <2>4 DEF LInv, Shape
  <2>6. /\ \A q \in Process : /\ Stepping(q)' => Stepping(q)
                              /\ Copying(q)' => q # p /\ Copying(q)
        /\ approval' = approval \/ (approval'.pc = "idle" /\ approval'.by = Nobody)
        /\ cancel' = cancel \/ ~Cancelling'
    BY <2>1, <2>3, <2>4, Zenon DEF Stepping, Copying, Cancelling
  <2>7. Exclusive'
    <3> SUFFICES ASSUME ~yielded PROVE Exclusive'
      BY <2>2, Zenon DEF Exclusive
    <3>1. overtaken' = {} /\ clash' = FALSE
      BY <2>2, <2>3 DEF LInv, Exclusive
    <3>2. Cancelling' => Cancelling /\ cancel' = cancel
      BY <2>6 DEF Cancelling
    <3>3. \A q \in Process : q # Nobody
      BY ProcessAssumption, Zenon
    <3> QED
      BY <2>2, <2>6, <3>1, <3>2, <3>3, Zenon DEF LInv, Exclusive
  <2>8. Fresh'
    <3>1. \A q \in Process : q # p /\ <<"step", q>> \in overtaken => <<"step", q>> \in overtaken'
      BY <2>3
    <3>2. approval'.pc = "decide" => approval' = approval /\ approval.by # p
      BY <2>3, <2>4
    <3>3. approval'.pc = "decide" /\ <<"approve", approval.by>> \in overtaken => <<"approve", approval.by>> \in overtaken'
      BY <2>3, <3>2
    <3> QED
      BY <2>2, <2>6, <3>1, <3>2, <3>3 DEF LInv, Fresh
  <2> QED
    BY <2>2, <2>5, <2>7, <2>8, <1>QuietStays DEF LInv
(* Steps that touch none of it. *)
<1>ElsewhereKeeps.
  ASSUME LInv, UNCHANGED <<row, lease, step, approval, cancel, overtaken, clash, yielded>>
  PROVE  LInv' /\ StaysFinished
  <2> USE <1>ElsewhereKeeps
  <2>1. Shape' /\ Exclusive' /\ Fresh'
    BY Zenon DEF LInv, Shape, Exclusive, Fresh, Stepping, Copying, Cancelling
  <2> QED
    BY <2>1, <1>QuietStays, Zenon DEF LInv
<1>StepRunKeeps.
  \A p \in Process :
      /\ LInv
      /\ StepRun(p)
      => LInv' /\ StaysFinished
  (* A step of p's stepper that keeps it inside the claim, adds no copy and  *)
  (* touches no shared state.                                                *)
  <2>QuietStep.
    ASSUME LInv, NEW p \in Process,
           UNCHANGED <<row, lease, approval, cancel, overtaken, clash, yielded>>,
           DOMAIN step' = Process, "pc" \in DOMAIN step'[p],
           \A q \in Process \ {p} : step'[q] = step[q],
           Stepping(p)' => Stepping(p), Copying(p)' => Copying(p)
    PROVE  LInv'
    <3> USE <2>QuietStep
    <3>1. Shape'
      BY Zenon DEF LInv, Shape
    <3>2. \A q \in Process : (Stepping(q)' => Stepping(q)) /\ (Copying(q)' => Copying(q))
      BY DEF Stepping, Copying
    <3>3. Exclusive'
      BY <3>2, Zenon DEF LInv, Exclusive, Cancelling
    <3>4. Fresh'
      BY <3>2 DEF LInv, Fresh, Finished
    <3> QED
      BY <3>1, <3>3, <3>4 DEF LInv
  (* A stepper with a copy writes it: every other copy becomes outdated, and *)
  (* over a finished run the write is a clash.                               *)
  <2>StepperWrite.
    ASSUME LInv, NEW p \in Process, Copying(p), NEW new,
           Write(<<"step", p>>, new),
           UNCHANGED <<lease, approval, cancel, yielded>>,
           DOMAIN step' = Process, "pc" \in DOMAIN step'[p],
           \A q \in Process \ {p} : step'[q] = step[q],
           "status" \in DOMAIN new,
           Copying(p)' => ~Finished(new.status)
    PROVE  LInv' /\ StaysFinished
    <3> USE <2>StepperWrite
    <3>1. Shape'
      BY Zenon DEF LInv, Shape, Write
    <3>2. <<"step", p>> \in HasCopy
      BY Copies DEF LInv
    <3>3. Stepping(p)
      BY DEF Copying, Stepping
    <3>4. \A q \in Process : Stepping(q)' => Stepping(q)
      BY <3>3, Zenon DEF Stepping
    <3>5. Exclusive'
      <4>1. ~yielded => overtaken' = {} /\ clash' = FALSE
        BY <3>2, <1>OnlyCopy, Zenon DEF Write, LInv, Exclusive
      <4> QED
        BY <3>4, <4>1 DEF LInv, Exclusive, Cancelling
    <3>6. \A q \in Process \ {p} : Copying(q)' => <<"step", q>> \in overtaken'
      BY Copies DEF Copying, Write, LInv
    <3>7. approval.pc = "decide" => <<"approve", approval.by>> \in overtaken'
      BY Copies, Zenon DEF Write, LInv, Shape
    <3>8. row' = new
      BY Zenon DEF Write
    <3>9. Fresh'
      BY <3>6, <3>7, <3>8 DEF Fresh, Finished
    <3>10. StaysFinished
      BY Zenon DEF StaysFinished, LInv, Fresh, Write
    <3> QED
      BY <3>1, <3>5, <3>9, <3>10, Zenon DEF LInv
  (* save, whether the database takes it or not. *)
  <2>SaveKeeps.
    ASSUME LInv, NEW p \in Process, Copying(p),
           NEW status \in {"running", "waiting", "waiting_approval"}, NEW run,
           NEW next \in {"loop", "finish", "leave"},
           Save(p, status, run, next),
           UNCHANGED <<lease, approval, cancel, yielded>>
    PROVE  LInv' /\ StaysFinished
    <3> USE <2>SaveKeeps
    <3> DEFINE new == [status |-> status, frames |-> run.frames, steps |-> run.steps]
    <3>1. DOMAIN step = Process /\ "pc" \in DOMAIN step[p]
      BY Zenon DEF LInv, Shape
    <3>2. CASE Write(<<"step", p>>, new)
               /\ step' = [step EXCEPT ![p].pc = next, ![p].run = run, ![p].batch = NoBatch,
                                 ![p].end = IF next = "finish" THEN "failed" ELSE ""]
      <4>1. DOMAIN step' = Process /\ "pc" \in DOMAIN step'[p] /\ \A q \in Process \ {p} : step'[q] = step[q]
        BY <3>1, <3>2, Zenon
      <4>2. "status" \in DOMAIN new /\ ~Finished(new.status)
        BY DEF Finished
      <4>3. Write(<<"step", p>>, new)
        BY <3>2, Zenon
      <4> HIDE DEF new
      <4> QED
        BY <4>1, <4>2, <4>3, <2>StepperWrite
    <3>3. CASE Goto(p, "leave") /\ UNCHANGED <<row, overtaken, clash>>
      <4>1. /\ DOMAIN step' = Process /\ "pc" \in DOMAIN step'[p]
            /\ \A q \in Process \ {p} : step'[q] = step[q]
            /\ step'[p].pc = "leave"
        BY <3>1, <3>3, Zenon DEF Goto
      <4>2. (Stepping(p)' => Stepping(p)) /\ (Copying(p)' => Copying(p))
        BY <4>1 DEF Copying, Stepping
      <4> QED
        BY <3>3, <4>1, <4>2, <2>QuietStep, <1>QuietStays, Zenon
    <3> QED
      BY <3>2, <3>3, Zenon DEF Save
  (* Claiming and registering. *)
  <2>ListKeeps.
    ASSUME LInv, NEW p \in Process, List(p) \/ Register(p) \/ Leave(p)
    PROVE  LInv' /\ StaysFinished
    <3> USE <2>ListKeeps
    <3>1. DOMAIN step = Process /\ "pc" \in DOMAIN step[p]
      BY DEF LInv, Shape
    <3>2. PICK pc : /\ Goto(p, pc)
                    /\ pc = "listed" \/ (pc = "begin" /\ step[p].pc = "got")
                         \/ (pc = "release" /\ step[p].pc \in {"hook", "leave"})
      BY Zenon DEF List, Register, Leave
    <3>3. /\ DOMAIN step' = Process /\ "pc" \in DOMAIN step'[p]
          /\ \A q \in Process \ {p} : step'[q] = step[q]
          /\ step'[p].pc = pc
      BY <3>1, <3>2, Zenon DEF Goto
    <3>4. (Stepping(p)' => Stepping(p)) /\ (Copying(p)' => Copying(p))
      BY <3>2, <3>3, Zenon DEF Copying, Stepping
    <3>5. UNCHANGED <<row, lease, approval, cancel, overtaken, clash, yielded>>
      BY DEF List, Register, Leave, memory
    <3> QED
      BY <3>3, <3>4, <3>5, <2>QuietStep, <1>QuietStays, Zenon
  <2>ClaimedKeeps.
    ASSUME LInv, NEW p \in Process, Claimed(p)
    PROVE  LInv' /\ StaysFinished
    <3> USE <2>ClaimedKeeps
    <3>1. DOMAIN step = Process /\ "pc" \in DOMAIN step[p]
      BY DEF LInv, Shape
    <3>2. UNCHANGED <<row, approval, cancel, clash>> /\ step[p].pc = "listed"
      BY DEF Claimed
    <3>3. CASE Claim(p) /\ Read(<<"step", p>>)
               /\ IF Steppable(row.status)
                  THEN step' = [step EXCEPT ![p].pc = "got", ![p].run = [frames |-> row.frames, steps |-> row.steps]]
                  ELSE Goto(p, "release")
      <4>1. /\ DOMAIN step' = Process /\ "pc" \in DOMAIN step'[p]
            /\ \A q \in Process \ {p} : step'[q] = step[q]
            /\ step'[p].pc = IF Steppable(row.status) THEN "got" ELSE "release"
        BY <3>1, <3>3 DEF Goto
      <4>2. Shape'
        BY <3>2, <4>1, Zenon DEF LInv, Shape
      <4>3. Exclusive'
        <5> SUFFICES ASSUME ~yielded' PROVE Exclusive'
          BY DEF Exclusive
        <5>1. /\ lease' = p
              /\ \A q \in Process : ~Stepping(q)
              /\ approval.pc = "idle" /\ ~Cancelling
              /\ overtaken = {} /\ clash = FALSE
          BY <3>3, <1>ClaimIsAlone, Zenon
        <5>2. \A q \in Process : Stepping(q)' => q = p
          BY <4>1, <5>1 DEF Stepping
        <5>3. overtaken' = {} /\ clash' = FALSE
          BY <3>2, <3>3, <5>1, Zenon DEF Read
        <5>4. approval'.pc = "idle" /\ approval'.by # p /\ ~Cancelling'
          BY <3>2, <5>1, ProcessAssumption DEF LInv, Shape, Cancelling
        <5> QED
          BY <5>1, <5>2, <5>3, <5>4 DEF Exclusive
      <4>4. Fresh'
        <5>1. \A q \in Process \ {p} : Copying(q)' /\ <<"step", q>> \notin overtaken' => ~Finished(row'.status)
          BY <3>2, <3>3, <4>1 DEF Copying, Read, LInv, Fresh
        <5>2. Copying(p)' => ~Finished(row'.status)
          BY <3>2, <4>1 DEF Copying, Steppable, Finished
        <5>3. approval'.pc = "decide" /\ <<"approve", approval'.by>> \notin overtaken' => ~Finished(row'.status)
          BY <3>2, <3>3, Zenon DEF Read, LInv, Fresh
        <5> QED
          BY <5>1, <5>2, <5>3 DEF Fresh
      <4> QED
        BY <3>2, <4>2, <4>3, <4>4, <1>QuietStays DEF LInv
    <3>4. CASE Goto(p, "idle") /\ UNCHANGED <<lease, overtaken, yielded>>
      <4>1. /\ DOMAIN step' = Process /\ "pc" \in DOMAIN step'[p]
            /\ \A q \in Process \ {p} : step'[q] = step[q]
            /\ step'[p].pc = "idle"
        BY <3>1, <3>4 DEF Goto
      <4>2. (Stepping(p)' => Stepping(p)) /\ (Copying(p)' => Copying(p))
        BY <4>1, Zenon DEF Copying, Stepping
      <4> QED
        BY <3>2, <3>4, <4>1, <4>2, <2>QuietStep, <1>QuietStays
    <3> QED
      BY <3>3, <3>4, Zenon DEF Claimed
  (* The turns of the stepper.  Those that only change its own copy: *)
  <2>OwnTurn.
    ASSUME LInv, NEW p \in Process, Copying(p), NEW new, "pc" \in DOMAIN new,
           new.pc \in {"loop", "exec", "finish"},
           step' = [step EXCEPT ![p] = new],
           UNCHANGED <<row, lease, approval, cancel, overtaken, clash, yielded>>
    PROVE  LInv' /\ StaysFinished
    <3> USE <2>OwnTurn
    <3>1. /\ DOMAIN step' = Process /\ step'[p] = new
          /\ \A q \in Process \ {p} : step'[q] = step[q]
      BY DEF LInv, Shape
    <3>2. Stepping(p)' => Stepping(p)
      BY DEF Copying, Stepping
    <3> QED
      BY <3>1, <3>2, <2>QuietStep, <1>QuietStays, Zenon
  <2>EndKeeps.
    ASSUME LInv, NEW p \in Process, Copying(p), NEW status, NEW run,
           End(p, status, run), UNCHANGED <<controlVars, memory>>
    PROVE  LInv' /\ StaysFinished
    <3> USE <2>EndKeeps
    <3> DEFINE new == [step[p] EXCEPT !.pc = "finish", !.end = status, !.run = run]
    <3>1. "pc" \in DOMAIN new /\ new.pc = "finish"
      BY DEF LInv, Shape
    <3>2. step' = [step EXCEPT ![p] = new]
      BY Zenon DEF End, LInv, Shape
    <3>3. UNCHANGED <<row, lease, approval, cancel, overtaken, clash, yielded>>
      BY DEF memory
    <3> HIDE DEF new
    <3> QED
      BY <3>1, <3>2, <3>3, <2>OwnTurn, Zenon
  <2>LocalTurns.
    ASSUME LInv, NEW p \in Process,
           \/ StopCancelled(p) \/ StopLate(p) \/ Succeed(p) \/ StopAtLimit(p)
           \/ Skip(p) \/ runBatch(p) \/ \E n \in Node : exec(p, n)
    PROVE  LInv' /\ StaysFinished
    <3> USE <2>LocalTurns
    <3>0. "pc" \in DOMAIN step[p] /\ DOMAIN step = Process
      BY DEF LInv, Shape
    <3>1. CASE StopCancelled(p) \/ StopLate(p) \/ Succeed(p) \/ StopAtLimit(p)
      <4>1. Copying(p)
        BY <3>1 DEF StopCancelled, StopLate, Succeed, StopAtLimit, Stuck, Work, Goes, AtLoop, Copying
      <4>2. PICK status, run : End(p, status, run) /\ UNCHANGED <<controlVars, memory>>
        BY <3>1 DEF StopCancelled, StopLate, Succeed, StopAtLimit
      <4> QED
        BY <4>1, <4>2, <2>EndKeeps
    <3>2. CASE Skip(p)
      <4>1. PICK run : step' = [step EXCEPT ![p].run = run]
        BY <3>2, Zenon DEF Skip
      <4>2. step[p].pc = "loop" /\ UNCHANGED <<row, lease, approval, cancel, overtaken, clash, yielded>>
        BY <3>2, Zenon DEF Skip, Goes, AtLoop, memory
      <4> DEFINE new == [step[p] EXCEPT !.run = run]
      <4>3. "pc" \in DOMAIN new /\ new.pc = "loop" /\ step' = [step EXCEPT ![p] = new]
        BY <3>0, <4>1, <4>2
      <4> HIDE DEF new
      <4> QED
        BY <4>2, <4>3, <2>OwnTurn, Zenon DEF Copying
    <3>3. CASE runBatch(p)
      <4>1. PICK ids, run : step' = [step EXCEPT ![p].pc = "exec", ![p].batch = ids, ![p].run = run]
        BY <3>3, Zenon DEF runBatch
      <4>2. step[p].pc = "loop" /\ UNCHANGED <<row, lease, approval, cancel, overtaken, clash, yielded>>
        BY <3>3, Zenon DEF runBatch, Work, Goes, AtLoop, memory
      <4> DEFINE new == [step[p] EXCEPT !.pc = "exec", !.batch = ids, !.run = run]
      <4>3. "pc" \in DOMAIN new /\ new.pc = "exec" /\ step' = [step EXCEPT ![p] = new]
        BY <3>0, <4>1, Zenon
      <4> HIDE DEF new
      <4> QED
        BY <4>2, <4>3, <2>OwnTurn, Zenon DEF Copying
    <3>4. CASE \E n \in Node : exec(p, n)
      <4>1. PICK n, o : step' = [step EXCEPT ![p].batch[n] = o]
        BY <3>4, Zenon DEF exec
      <4>2. step[p].pc = "exec" /\ UNCHANGED <<row, lease, approval, cancel, overtaken, clash, yielded>>
        BY <3>4, Zenon DEF exec
      <4> DEFINE new == [step[p] EXCEPT !.batch[n] = o]
      <4>3. "pc" \in DOMAIN new /\ new.pc = "exec" /\ step' = [step EXCEPT ![p] = new]
        BY <3>0, <4>1, <4>2
      <4> HIDE DEF new
      <4> QED
        BY <4>2, <4>3, <2>OwnTurn, Zenon DEF Copying
    <3> QED
      BY <3>1, <3>2, <3>3, <3>4, Zenon
  (* Those that save. *)
  <2>SavingTurns.
    ASSUME LInv, NEW p \in Process,
           Begin(p) \/ StopShutdown(p) \/ park(p) \/ Iterate(p) \/ startLoop(p)
    PROVE  LInv' /\ StaysFinished
    <3> USE <2>SavingTurns
    <3>1. CASE Begin(p) \/ StopShutdown(p) \/ Iterate(p) \/ startLoop(p)
      <4>1. /\ Copying(p)
            /\ UNCHANGED <<lease, approval, cancel, yielded>>
        BY <3>1, Zenon DEF Begin, StopShutdown, Iterate, startLoop, Stuck, Work, Goes, AtLoop, Copying
      <4>2. PICK run, next : Save(p, "running", run, next) /\ next \in {"loop", "finish", "leave"}
        <5>1. CASE Begin(p)
          BY <5>1, Zenon DEF Begin
        <5>2. CASE StopShutdown(p)
          BY <5>2 DEF StopShutdown
        <5>3. CASE Iterate(p)
          BY <5>3 DEF Iterate
        <5>4. CASE startLoop(p)
          BY <5>4, Zenon DEF startLoop
        <5> QED
          BY <3>1, <5>1, <5>2, <5>3, <5>4
      <4> QED
        BY <4>1, <4>2, <2>SaveKeeps
    <3>2. CASE park(p)
      <4>1. Copying(p)
        BY <3>2, Zenon DEF park, Stuck, Goes, AtLoop, Copying
      <4>2. CASE End(p, "failed", Put(p, At(p))) /\ UNCHANGED <<controlVars, memory>>
        BY <4>1, <4>2, <2>EndKeeps
      <4>3. CASE /\ Save(p, IF Sleeping(At(p)) # {} THEN "waiting" ELSE "waiting_approval", Put(p, At(p)), "leave")
                 /\ UNCHANGED <<proc, writer, request, lease, approval, cancel, due, effects, yielded>>
        <5>1. PICK status \in {"running", "waiting", "waiting_approval"} : Save(p, status, Put(p, At(p)), "leave")
          BY <4>3
        <5> QED
          BY <4>1, <4>3, <5>1, <2>SaveKeeps
      <4> QED
        BY <3>2, <4>2, <4>3, Zenon DEF park
    <3> QED
      BY <3>1, <3>2
  <2>ApplyKeeps.
    ASSUME LInv, NEW p \in Process, Apply(p)
    PROVE  LInv' /\ StaysFinished
    <3> USE <2>ApplyKeeps
    <3>1. Copying(p) /\ UNCHANGED <<lease, approval, cancel, yielded>>
      BY Zenon DEF Apply, Copying
    <3>2. PICK run, end :
            \/ /\ step' = [step EXCEPT ![p].pc = "finish", ![p].end = end, ![p].run = run,
                                       ![p].batch = NoBatch]
               /\ UNCHANGED <<mishaps, row, overtaken, clash>>
            \/ Save(p, "running", run, "loop")
      BY Zenon DEF Apply
    <3>3. CASE /\ step' = [step EXCEPT ![p].pc = "finish", ![p].end = end, ![p].run = run,
                                       ![p].batch = NoBatch]
               /\ UNCHANGED <<mishaps, row, overtaken, clash>>
      <4> DEFINE new == [step[p] EXCEPT !.pc = "finish", !.end = end, !.run = run, !.batch = NoBatch]
      <4>1. "pc" \in DOMAIN new /\ new.pc = "finish" /\ step' = [step EXCEPT ![p] = new]
        BY <3>3, Zenon DEF LInv, Shape
      <4> HIDE DEF new
      <4> QED
        BY <3>1, <3>3, <4>1, <2>OwnTurn, Zenon
    <3> QED
      BY <3>1, <3>2, <3>3, <2>SaveKeeps
  <2>FinishKeeps.
    ASSUME LInv, NEW p \in Process, finish(p)
    PROVE  LInv' /\ StaysFinished
    <3> USE <2>FinishKeeps
    <3>1. /\ DOMAIN step' = Process /\ "pc" \in DOMAIN step'[p]
          /\ \A q \in Process \ {p} : step'[q] = step[q]
          /\ step'[p].pc = "hook"
      BY Zenon DEF LInv, Shape, finish, Goto
    <3>2. Copying(p) /\ ~Copying(p)' /\ Stepping(p)
      BY <3>1, Zenon DEF finish, Copying, Stepping
    <3>3. UNCHANGED <<lease, approval, cancel, yielded>>
      BY Zenon DEF finish
    <3>4. PICK new : \/ Write(<<"step", p>>, new) /\ "status" \in DOMAIN new
                     \/ UNCHANGED <<row, overtaken, clash>>
      BY DEF finish
    <3> QED
      BY <3>1, <3>2, <3>3, <3>4, <2>StepperWrite, <2>QuietStep, <1>QuietStays
  (* An operation that leaves takes the lease with it only if it was alone,  *)
  (* and nobody who stays needs it: exclusion was given up before.           *)
  <2>ReleaseKeeps.
    ASSUME LInv, NEW p \in Process, Release(p)
    PROVE  LInv' /\ StaysFinished
    <3> USE <2>ReleaseKeeps
    <3>1. /\ DOMAIN step' = Process /\ "pc" \in DOMAIN step'[p]
          /\ \A q \in Process \ {p} : step'[q] = step[q]
          /\ step'[p].pc = "idle"
      BY Zenon DEF LInv, Shape, Release, Idle
    <3>2. /\ UNCHANGED <<row, approval, cancel, clash, yielded>>
          /\ step[p].pc = "release"
          /\ overtaken' = overtaken \ {<<"step", p>>}
      BY Zenon DEF Release, Read
    <3>3. Shape'
      BY <3>1, <3>2, Zenon DEF LInv, Shape
    <3>4. ~Stepping(p)' /\ ~Copying(p)' /\ Stepping(p)
      BY <3>1, <3>2, Zenon DEF Stepping, Copying
    <3>5. Exclusive'
      <4> SUFFICES ASSUME ~yielded PROVE Exclusive'
        BY <3>2 DEF Exclusive
      <4>1. lease = p /\ approval.by # p /\ ~(Cancelling /\ cancel.by = p)
        BY <3>4, Zenon DEF LInv, Exclusive
      <4>2. \A q \in Process : ~Stepping(q)'
        BY <3>1, <3>4, <4>1, Zenon DEF LInv, Exclusive, Stepping
      <4>3. approval.pc = "idle" /\ ~Cancelling
        BY <4>1, Zenon DEF LInv, Exclusive, Shape
      <4>4. overtaken' = {} /\ clash' = FALSE
        BY <3>2, Zenon DEF LInv, Exclusive
      <4> QED
        BY <3>2, <4>2, <4>3, <4>4, Zenon DEF Exclusive, Cancelling
    <3>6. Fresh'
      <4>1. \A q \in Process : Copying(q)' => q # p /\ Copying(q)
        BY <3>1, <3>4 DEF Copying
      <4> QED
        BY <3>2, <4>1, Zenon DEF LInv, Fresh
    <3> QED
      BY <3>2, <3>3, <3>5, <3>6, <1>QuietStays DEF LInv
  <2> SUFFICES ASSUME LInv, NEW p \in Process, StepRun(p)
               PROVE  LInv' /\ StaysFinished
    OBVIOUS
  <2>1. CASE List(p) \/ Register(p) \/ Leave(p)
    BY <2>1, <2>ListKeeps
  <2>2. CASE Claimed(p)
    BY <2>2, <2>ClaimedKeeps
  <2>3. CASE \/ StopCancelled(p) \/ StopLate(p) \/ Succeed(p) \/ StopAtLimit(p)
             \/ Skip(p) \/ runBatch(p) \/ \E n \in Node : exec(p, n)
    BY <2>3, <2>LocalTurns
  <2>4. CASE Begin(p) \/ StopShutdown(p) \/ park(p) \/ Iterate(p) \/ startLoop(p)
    BY <2>4, <2>SavingTurns
  <2>5. CASE Apply(p)
    BY <2>5, <2>ApplyKeeps
  <2>6. CASE finish(p)
    BY <2>6, <2>FinishKeeps
  <2>7. CASE Release(p)
    BY <2>7, <2>ReleaseKeeps
  <2> QED
    BY <2>1, <2>2, <2>3, <2>4, <2>5, <2>6, <2>7, Zenon DEF StepRun
<1>1. CASE UNCHANGED vars
  <2>1. UNCHANGED <<row, lease, step, approval, cancel, overtaken, clash, yielded>>
    BY <1>1 DEF vars, runVars
  <2> QED
    BY <2>1, <1>ElsewhereKeeps
<1>2. CASE ControlStep /\ UNCHANGED runVars
  <2>1. UNCHANGED <<row, lease, step, approval, cancel, overtaken, clash, yielded>>
    BY <1>2, Zenon DEF runVars
  <2> QED
    BY <2>1, <1>ElsewhereKeeps
<1>3. CASE WakeTimePasses \/ \E p \in Process : promoteList(p)
  <2>1. UNCHANGED <<row, lease, step, approval, cancel, overtaken, clash, yielded>>
    BY <1>3, Zenon DEF WakeTimePasses, promoteList
  <2> QED
    BY <2>1, <1>ElsewhereKeeps
<1>4. CASE \E p \in Process : StepRun(p)
  BY <1>4, <1>StepRunKeeps
<1>5. CASE \E p \in Process : Approve(p)
  BY <1>5, <1>ApproveKeeps
<1>6. CASE (\E p \in Process : Cancel(p)) \/ RequestCancel
  BY <1>6, <1>CancelCallKeeps
<1>7. CASE RunLeaseRunsOut \/ RunLeaseLapses \/ \E p \in Process : RenewRun(p)
  BY <1>7, <1>LeaseKeeps
<1>8. CASE \E p \in Process : Gone(p)
  BY <1>8, <1>GoneKeeps
<1>9. CASE Decide
  BY <1>9, <1>DecideKeeps
<1>10. CASE ApproveDone
  BY <1>10, <1>ApproveDoneKeeps, Zenon
<1>11. CASE CancelClaim
  BY <1>11, <1>CancelClaimKeeps
<1>12. CASE CancelWrite
  BY <1>12, <1>CancelWriteKeeps
<1>13. CASE CancelDone
  BY <1>13, <1>CancelDoneKeeps
<1>14. CASE \E p \in Process : promote(p)
  BY <1>14, <1>PromoteKeeps, Zenon
<1> QED
  BY <1>1, <1>2, <1>3, <1>4, <1>5, <1>6, <1>7, <1>8, <1>9, <1>10, <1>11, <1>12, <1>13, <1>14, Zenon DEF Next

LEMMA InitHolds ==
  ASSUME Init
  PROVE  LInv
<1>1. Shape
  BY Zenon DEF Init, Shape, Idle, NoCall, Created
<1>2. \A p \in Process : step[p].pc = "idle"
  BY Zenon DEF Init, Idle
<1>3. approval.pc = "idle" /\ cancel.pc = "idle"
  BY DEF Init, NoCall
<1> QED
  BY <1>1, <1>2, <1>3 DEF Init, LInv, Exclusive, Fresh, Stepping, Copying, Cancelling

(* The inductive invariant. *)
THEOREM Inductive == Spec => []LInv
<1>1. Init => LInv
  BY InitHolds
<1>2. LInv /\ [Next]_vars => LInv'
  BY NextKeeps
<1> QED
  BY <1>1, <1>2, PTL DEF Spec

(* The lease keeps the writers of a run's row apart, unless it lapses,     *)
(* lets a second operation of its own process in, or a promotion writes    *)
(* the row without it (ClaimAutomationRun, UpdateAutomationRun, promote).  *)
THEOREM LeaseSafety == Spec => []LeaseHolds
<1>1. LInv => LeaseHolds
  BY DEF LInv, Exclusive, LeaseHolds
<1> QED
  BY <1>1, Inductive, PTL

(* Without such a write a run that has finished is never reopened, not by  *)
(* a stepper, an approval, a cancel or a promotion of any process.         *)
THEOREM FinishedStays == Spec => NeverReopened
<1>1. LInv /\ [Next]_vars => [Finished(row.status) => Finished(row'.status) \/ clash']_vars
  BY NextKeeps DEF StaysFinished
<1> QED
  BY <1>1, Inductive, PTL DEF Spec, NeverReopened

-----------------------------------------------------------------------------
(* The changes a turn makes are such moves. *)
States == {"", "running", "waiting", "retrying", "approval", "succeeded", "failed", "skipped", "cancelled"}
Ports == {"", "true", "false", "error", "approved", "rejected", "done"}

LEMMA WithState ==
  ASSUME NEW ns \in NodeStates, NEW s \in States
  PROVE  With(ns, s) \in NodeStates /\ With(ns, s).s = s /\ With(ns, s).att = ns.att
BY Zenon DEF NodeStates, With, States

LEMMA BlankState ==
  ASSUME FlowAssumption
  PROVE  Blank \in NodeStates /\ Blank.att = 0 /\ MaxAttempts \in Nat \ {0}
BY DEF Blank, NodeStates, FlowAssumption

LEMMA EndState ==
  ASSUME NEW ns \in NodeStates, NEW s \in States, NEW port \in Ports
  PROVE  /\ [ns EXCEPT !.s = s, !.port = port] \in NodeStates
         /\ [ns EXCEPT !.s = s, !.port = port].s = s
         /\ [ns EXCEPT !.s = s, !.port = port].att = ns.att
BY Zenon DEF NodeStates, States, Ports

LEMMA SameNodes ==
  Node = Nodes(def)
BY SMTT(20) DEF Node, Nodes

LEMMA Kinds ==
  ASSUME Definition(def)
  PROVE  /\ def.kind \in [Node -> {"action", "destructive", "branch", "delay", "approval", "stop", "loop"}]
         /\ def.owner \in [Node -> Node \cup {Top}]
         /\ def.edges \subseteq [from: Node \cup {Trigger}, to: Node, port: STRING]
         /\ def.idempotent \subseteq Node
         /\ def.onError \in [Node -> {"stop", "continue", "fail_branch"}]
BY DEF Definition, Node

LEMMA NodesMove ==
  ASSUME NEW f \in FrameSet(def), NEW nodes,
         nodes \in [Node -> NodeStates], \A n \in Node : Moved(def, n, f.nodes[n], nodes[n])
  PROVE  /\ NearFrame(def, f, [f EXCEPT !.nodes = nodes]) /\ [f EXCEPT !.nodes = nodes].nodes = nodes
<1>1. f.nodes \in [Node -> NodeStates] /\ nodes \in [Nodes(def) -> NodeStates]
  BY SameNodes DEF FrameSet
<1>2. [f EXCEPT !.nodes = nodes] \in FrameSet(def)
  BY <1>1 DEF FrameSet
<1>3. /\ [f EXCEPT !.nodes = nodes].nodes = nodes /\ [f EXCEPT !.nodes = nodes].loop = f.loop
      /\ [f EXCEPT !.nodes = nodes].index = f.index /\ [f EXCEPT !.nodes = nodes].items = f.items
  BY DEF FrameSet
<1> HIDE DEF FrameSet
<1> QED
  BY <1>2, <1>3, SameNodes DEF NearFrame

LEMMA FrameNodes ==
  ASSUME NEW f \in FrameSet(def)
  PROVE  \A n \in Node : f.nodes[n] \in NodeStates
BY SameNodes DEF FrameSet

LEMMA NearMapped ==
  ASSUME NEW d, NEW fs \in Seq(FrameSet(d)), NEW gs, DOMAIN gs = DOMAIN fs,
         gs = [i \in DOMAIN gs |-> gs[i]],
         \A i \in 1 .. Len(fs) : NearFrame(d, fs[i], gs[i])
  PROVE  Near(d, fs, gs)
<1>1. Len(fs) \in Nat /\ DOMAIN fs = 1 .. Len(fs)
  OBVIOUS
<1>2. \A i \in 1 .. Len(fs) : gs[i] \in FrameSet(d)
  BY DEF NearFrame
<1>3. gs \in [1 .. Len(fs) -> FrameSet(d)]
  BY <1>1, <1>2
<1>4. gs \in Seq(FrameSet(d)) /\ Len(gs) = Len(fs)
  BY <1>1, <1>3
<1> QED
  BY <1>4 DEF Near

LEMMA CancelledMoves ==
  ASSUME NEW fs, Formed(def, fs)
  PROVE  Near(def, fs, markCancelled(fs))
<1> DEFINE C(n, ns) == IF ns.s \in {"running", "waiting", "retrying", "approval"}
                       THEN With(ns, "cancelled") ELSE ns
           new(f) == [n \in Node |-> C(n, f.nodes[n])]
<1>1. ASSUME NEW f \in FrameSet(def), \A n \in Node : Tame(def, n, f.nodes[n])
      PROVE  NearFrame(def, f, [f EXCEPT !.nodes = new(f)])
  <2>1. ASSUME NEW n \in Node
        PROVE  C(n, f.nodes[n]) \in NodeStates /\ Moved(def, n, f.nodes[n], C(n, f.nodes[n]))
    <3>1. f.nodes[n] \in NodeStates /\ Tame(def, n, f.nodes[n]) /\ "" \in Ports /\ "cancelled" \in States
      BY <1>1, FrameNodes DEF States, Ports
    <3>2. CASE f.nodes[n].s \in {"running", "waiting", "retrying", "approval"}
      <4>1. C(n, f.nodes[n]) = With(f.nodes[n], "cancelled")
        BY <3>2
      <4>2. With(f.nodes[n], "cancelled") \in NodeStates /\ With(f.nodes[n], "cancelled").s = "cancelled"
        BY <3>1, WithState, Zenon
      <4> HIDE DEF C
      <4> QED
        BY <3>2, <4>1, <4>2, Zenon DEF Moved, Tame, terminal
    <3>3. CASE f.nodes[n].s \notin {"running", "waiting", "retrying", "approval"}
      BY <3>1, <3>3, Zenon DEF Moved
    <3> QED
      BY <3>2, <3>3
  <2> HIDE DEF C
  <2>2. new(f) \in [Node -> NodeStates] /\ \A n \in Node : Moved(def, n, f.nodes[n], new(f)[n])
    BY <2>1
  <2> HIDE DEF new
  <2> QED
    BY <2>2, NodesMove, Zenon
<1>2. markCancelled(fs) = [i \in DOMAIN fs |-> [fs[i] EXCEPT !.nodes = new(fs[i])]]
  BY DEF markCancelled, Mapped
<1> HIDE DEF new
<1>3. /\ fs \in Seq(FrameSet(def))
      /\ \A i \in 1 .. Len(fs) : \A n \in Node : Tame(def, n, fs[i].nodes[n])
  BY SameNodes DEF Formed
<1>4. \A i \in 1 .. Len(fs) : NearFrame(def, fs[i], [fs[i] EXCEPT !.nodes = new(fs[i])])
  BY <1>1, <1>3
<1> DEFINE gs == markCancelled(fs)
<1>5. DOMAIN gs = DOMAIN fs /\ gs = [i \in DOMAIN gs |-> gs[i]]
  BY <1>2
<1>6. \A i \in 1 .. Len(fs) : NearFrame(def, fs[i], gs[i])
  BY <1>2, <1>3, <1>4
<1> HIDE DEF gs
<1>7. Near(def, fs, gs)
  BY <1>3, <1>5, <1>6, NearMapped
<1> QED
  BY <1>7 DEF gs

-----------------------------------------------------------------------------
(* A turn works on the innermost frame with its due steps woken. *)
LEMMA AtNear ==
  \A p :
      Formed(def, step[p].run.frames)
      => /\ NearFrame(def, Inner(step[p].run.frames), At(p))
         /\ At(p) \in FrameSet(def) /\ \A n \in Node : Tame(def, n, At(p).nodes[n])
<1>WakeMoves.
  ASSUME NEW f \in FrameSet(def), \A n \in Node : Tame(def, n, f.nodes[n])
  PROVE  NearFrame(def, f, wake(f))
  <2> USE <1>WakeMoves
  <2> DEFINE C(n, ns) == IF n \notin due THEN ns
                         ELSE IF ns.s = "waiting" THEN With(ns, "succeeded")
                         ELSE IF ns.s = "retrying" THEN With(ns, "") ELSE ns
             new == [n \in Node |-> C(n, f.nodes[n])]
  <2>1. ASSUME NEW n \in Node
        PROVE  C(n, f.nodes[n]) \in NodeStates /\ Moved(def, n, f.nodes[n], C(n, f.nodes[n]))
    <3>1. f.nodes[n] \in NodeStates /\ Tame(def, n, f.nodes[n]) /\ "" \in Ports
          /\ "succeeded" \in States /\ "" \in States
      BY FrameNodes DEF States, Ports
    <3>2. CASE n \in due /\ f.nodes[n].s = "waiting"
      <4>1. C(n, f.nodes[n]) = With(f.nodes[n], "succeeded")
        BY <3>2
      <4>2. With(f.nodes[n], "succeeded") \in NodeStates /\ With(f.nodes[n], "succeeded").s = "succeeded"
        BY <3>1, WithState, Zenon
      <4> HIDE DEF C
      <4> QED
        BY <3>2, <4>1, <4>2, Zenon DEF Moved, Tame, terminal
    <3>3. CASE n \in due /\ f.nodes[n].s = "retrying"
      <4>1. C(n, f.nodes[n]) = With(f.nodes[n], "")
        BY <3>3
      <4>2. /\ With(f.nodes[n], "") \in NodeStates /\ With(f.nodes[n], "").s = ""
            /\ With(f.nodes[n], "").att = f.nodes[n].att
        BY <3>1, WithState, Zenon
      <4> HIDE DEF C
      <4> QED
        BY <3>1, <3>3, <4>1, <4>2, Zenon DEF Moved, Tame, terminal
    <3>4. CASE ~(n \in due /\ f.nodes[n].s = "waiting") /\ ~(n \in due /\ f.nodes[n].s = "retrying")
      BY <3>1, <3>4, Zenon DEF Moved
    <3> QED
      BY <3>2, <3>3, <3>4, Zenon
  <2>2. wake(f) = [f EXCEPT !.nodes = new]
    BY DEF wake, Mapped
  <2> HIDE DEF C
  <2>3. new \in [Node -> NodeStates] /\ \A n \in Node : Moved(def, n, f.nodes[n], new[n])
    BY <2>1, Zenon
  <2> HIDE DEF new
  <2> QED
    BY <2>2, <2>3, NodesMove
<1> SUFFICES ASSUME NEW p, Formed(def, step[p].run.frames)
             PROVE  /\ NearFrame(def, Inner(step[p].run.frames), At(p))
                    /\ At(p) \in FrameSet(def) /\ \A n \in Node : Tame(def, n, At(p).nodes[n])
  OBVIOUS
<1>1. /\ Inner(step[p].run.frames) \in FrameSet(def)
      /\ \A n \in Node : Tame(def, n, Inner(step[p].run.frames).nodes[n])
  BY InnerFrame, SameNodes, Zenon
<1>2. NearFrame(def, Inner(step[p].run.frames), At(p))
  BY <1>1, <1>WakeMoves DEF At
<1> QED
  BY <1>2, SameNodes, Zenon DEF NearFrame, Moved

LEMMA PutNear ==
  ASSUME NEW p, GoodRun(def, step[p].run), NEW g, NearFrame(def, At(p), g)
  PROVE  /\ Near(def, step[p].run.frames, Replaced(step[p].run.frames, g))
         /\ Near(def, step[p].run.frames, Put(p, g).frames) /\ GoodRun(def, Put(p, g))
<1>1. Formed(def, step[p].run.frames)
  BY Zenon DEF GoodRun
<1>2. NearFrame(def, Inner(step[p].run.frames), g)
  BY <1>1, AtNear, FrameMoves, Zenon
<1>3. Near(def, step[p].run.frames, Replaced(step[p].run.frames, g))
  BY <1>1, <1>2, InnerMoves
<1>4. /\ Put(p, g).frames = Replaced(step[p].run.frames, g) /\ Put(p, g).steps = step[p].run.steps
      /\ DOMAIN Put(p, g) = DOMAIN step[p].run
  BY DEF Put, GoodRun
<1>5. Formed(def, Put(p, g).frames)
  BY <1>1, <1>3, <1>4, NearIsFormed, Zenon
<1> QED
  BY <1>3, <1>4, <1>5, Zenon DEF GoodRun

LEMMA OneMore ==
  ASSUME NEW m \in Nat, NEW a \in 0 .. m, a < m
  PROVE  a + 1 \in 0 .. m /\ a \in Nat
OBVIOUS

(* What the outcome of a step makes of it. *)
LEMMA ApplyMoves ==
  ASSUME FlowAssumption, NEW n \in Node, NEW ns \in NodeStates, ns.s = "running", Tame(def, n, ns),
         def.kind[n] # "loop", NEW o \in Results \ {""}
  PROVE  /\ apply(ns, n, o) \in NodeStates /\ Moved(def, n, ns, apply(ns, n, o))
         /\ o \in {"ok", "limit"} \/ (o = "err" /\ n \notin def.idempotent) => terminal(apply(ns, n, o))
<1> DEFINE new == [ns EXCEPT !.att = @ + 1]
<1>1. /\ new \in NodeStates /\ new.s = "running" /\ new.att = ns.att + 1 /\ ns.att \in Nat
      /\ ns.att < MaxAttempts
  <2>1. ns.att \in 0 .. MaxAttempts /\ MaxAttempts \in Nat
    BY Zenon DEF NodeStates, FlowAssumption
  <2>2. ns.att < MaxAttempts
    BY Zenon DEF Tame
  <2>3. ns.att + 1 \in 0 .. MaxAttempts /\ ns.att \in Nat
    <3> DEFINE a == ns.att
    <3>1. a \in 0 .. MaxAttempts /\ MaxAttempts \in Nat /\ a < MaxAttempts
      BY <2>1, <2>2, Zenon
    <3> HIDE DEF a
    <3>2. a + 1 \in 0 .. MaxAttempts /\ a \in Nat
      BY <3>1, OneMore, Zenon
    <3> QED
      BY <3>2, Zenon DEF a
  <2>4. new \in NodeStates /\ new.s = "running" /\ new.att = ns.att + 1
    BY <2>3, Zenon DEF NodeStates
  <2> QED
    BY <2>2, <2>3, <2>4, Zenon
<1>2. ErrorPort(n) \in Ports /\ "true" \in Ports /\ "false" \in Ports /\ "" \in Ports
      /\ "failed" \in States /\ "retrying" \in States /\ "succeeded" \in States /\ "waiting" \in States
      /\ "approval" \in States
  BY Zenon DEF ErrorPort, Ports, States
<1>11. new \in NodeStates
  BY <1>1, Zenon
<1> HIDE DEF new
<1>3. CASE Fails(ns, n, o)
  <2>1. apply(ns, n, o) = [new EXCEPT !.s = "failed", !.port = ErrorPort(n)]
    BY <1>3, Zenon DEF apply, new, Fails
  <2>2. /\ [new EXCEPT !.s = "failed", !.port = ErrorPort(n)] \in NodeStates
        /\ [new EXCEPT !.s = "failed", !.port = ErrorPort(n)].s = "failed"
    <3>1. ErrorPort(n) \in Ports /\ "failed" \in States
      BY <1>2, Zenon
    <3> QED
      BY <1>11, <3>1, EndState, Zenon
  <2> QED
    BY <2>1, <2>2, Zenon DEF Moved, Tame, terminal
<1>4. CASE ~Fails(ns, n, o) /\ o = "err"
  <2>1. MayRetry(n, ns.att + 1)
    BY <1>4 DEF Fails
  <2>2. apply(ns, n, o) = With(new, "retrying")
    BY <1>4, <2>1 DEF apply, new
  <2>3. /\ With(new, "retrying") \in NodeStates /\ With(new, "retrying").s = "retrying"
        /\ With(new, "retrying").att = new.att
    BY <1>1, <1>2, WithState, Zenon
  <2>4. new.att < MaxAttempts /\ n \in def.idempotent
    BY <1>1, <2>1, Zenon DEF MayRetry
  <2> QED
    BY <1>4, <2>2, <2>3, <2>4, Zenon DEF Moved, Tame, terminal
<1>5. CASE ~Fails(ns, n, o) /\ o \in {"stop", "stop_failed"}
  <2>1. apply(ns, n, o) = With(new, "succeeded")
    BY <1>5, Zenon DEF apply, new
  <2>2. With(new, "succeeded") \in NodeStates /\ With(new, "succeeded").s = "succeeded"
    BY <1>1, <1>2, WithState, Zenon
  <2> QED
    BY <2>1, <2>2, Zenon DEF Moved, Tame, terminal
<1>6. CASE ~Fails(ns, n, o) /\ o = "wait"
  <2>1. apply(ns, n, o) = With(new, "waiting")
    BY <1>6 DEF apply, new
  <2>2. With(new, "waiting") \in NodeStates /\ With(new, "waiting").s = "waiting"
    BY <1>1, <1>2, WithState, Zenon
  <2> QED
    BY <1>6, <2>1, <2>2, Zenon DEF Moved, Tame, terminal
<1>7. CASE ~Fails(ns, n, o) /\ o = "ask"
  <2>1. apply(ns, n, o) = With(new, "approval")
    BY <1>7 DEF apply, new
  <2>2. With(new, "approval") \in NodeStates /\ With(new, "approval").s = "approval"
    BY <1>1, <1>2, WithState, Zenon
  <2> QED
    BY <1>7, <2>1, <2>2, Zenon DEF Moved, Tame, terminal
<1>8. CASE ~Fails(ns, n, o) /\ o = "ok"
  <2>1. apply(ns, n, o) = [new EXCEPT !.s = "succeeded", !.port = ""]
    BY <1>8 DEF apply, new
  <2>2. /\ [new EXCEPT !.s = "succeeded", !.port = ""] \in NodeStates
        /\ [new EXCEPT !.s = "succeeded", !.port = ""].s = "succeeded"
    <3>1. "" \in Ports /\ "succeeded" \in States
      BY <1>2, Zenon
    <3> QED
      BY <1>11, <3>1, EndState, Zenon
  <2> QED
    BY <2>1, <2>2, Zenon DEF Moved, Tame, terminal
<1>9. CASE ~Fails(ns, n, o) /\ o \in {"true", "false"}
  <2>1. apply(ns, n, o) = [new EXCEPT !.s = "succeeded", !.port = o]
    BY <1>9, Zenon DEF apply, new
  <2>2. /\ [new EXCEPT !.s = "succeeded", !.port = o] \in NodeStates
        /\ [new EXCEPT !.s = "succeeded", !.port = o].s = "succeeded"
    <3>1. o \in Ports /\ "succeeded" \in States
      BY <1>2, <1>9, Zenon
    <3> QED
      BY <1>11, <3>1, EndState, Zenon
  <2> QED
    BY <2>1, <2>2, Zenon DEF Moved, Tame, terminal
<1>10. o = "limit" => Fails(ns, n, o)
  BY DEF Fails
<1> QED
  BY <1>3, <1>4, <1>5, <1>6, <1>7, <1>8, <1>9, <1>10, Zenon DEF Results

LEMMA AppliedMoves ==
  ASSUME FlowAssumption, NEW p, Formed(def, step[p].run.frames),
         GoodBatch(def, step[p].run.frames, step[p].batch),
         \A n \in DOMAIN step[p].batch : step[p].batch[n] # ""
  PROVE  /\ NearFrame(def, Inner(step[p].run.frames), Applied(p))
         /\ \A n \in Reached(p) : Applied(p).nodes[n] = apply(Inner(step[p].run.frames).nodes[n], n, step[p].batch[n])
<1> DEFINE f == Inner(step[p].run.frames)
           b == step[p].batch
           new == [n \in Node |-> IF n \in Reached(p) THEN apply(f.nodes[n], n, b[n]) ELSE f.nodes[n]]
<1>1. f \in FrameSet(def) /\ \A n \in Node : Tame(def, n, f.nodes[n])
  BY InnerFrame, SameNodes, Zenon
<1>2. Applied(p) = [f EXCEPT !.nodes = new]
  BY Zenon DEF Applied, Mapped
<1>3. ASSUME NEW n \in Reached(p)
      PROVE  n \in Node /\ f.nodes[n].s = "running" /\ def.kind[n] # "loop" /\ b[n] \in Results \ {""}
  BY <1>3, SameNodes, Zenon DEF Reached, GoodBatch, Inner
<1> HIDE DEF f, b
<1>4. ASSUME NEW n \in Node
      PROVE  new[n] \in NodeStates /\ Moved(def, n, f.nodes[n], new[n])
  <2>1. f.nodes[n] \in NodeStates /\ Tame(def, n, f.nodes[n])
    BY <1>1, FrameNodes, Zenon
  <2>2. CASE n \in Reached(p)
    <3>1. new[n] = apply(f.nodes[n], n, b[n])
      BY <2>2, Zenon
    <3>2. b[n] \in Results \ {""} /\ f.nodes[n].s = "running" /\ def.kind[n] # "loop"
      BY <1>3, <2>2, Zenon
    <3> HIDE DEF new
    <3> QED
      BY <2>1, <3>1, <3>2, ApplyMoves, Zenon
  <2>3. CASE n \notin Reached(p)
    <3>1. new[n] = f.nodes[n]
      BY <2>3, Zenon
    <3> HIDE DEF new
    <3> QED
      BY <2>1, <3>1, Zenon DEF Moved
  <2> QED
    BY <2>2, <2>3, Zenon
<1>5. \A n \in Reached(p) : new[n] = apply(f.nodes[n], n, b[n])
  BY <1>3, Zenon
<1>6. new \in [Node -> NodeStates]
  BY <1>4, Zenon
<1> HIDE DEF new
<1>7. NearFrame(def, f, [f EXCEPT !.nodes = new]) /\ [f EXCEPT !.nodes = new].nodes = new
  BY <1>1, <1>4, <1>6, NodesMove, Zenon
<1> QED
  BY <1>2, <1>5, <1>7, Zenon DEF f, b

-----------------------------------------------------------------------------
(* What a step of p's stepper is, seen from outside: it changes its own     *)
(* copy, it writes the row, or it gives its copy up.                        *)
Alone(p) ==
  /\ DOMAIN step' = Process /\ \A q \in Process \ {p} : step'[q] = step[q]
  /\ StepOK(def, step'[p])
  /\ UNCHANGED <<flow, approval, cancel>>
Private(p) ==
  /\ Alone(p) /\ UNCHANGED <<row, overtaken, clash>>
  /\ Copying(p) /\ Near(def, step[p].run.frames, step'[p].run.frames)
Saves(p) ==
  /\ Alone(p) /\ Copying(p)
  /\ Write(<<"step", p>>, row') /\ RowOK(def, row')
  /\ Follows(def, step[p].run.frames, row'.frames)
  /\ step'[p].run.frames = row'.frames
Drops(p) ==
  /\ Alone(p) /\ UNCHANGED <<row, clash>>
  /\ ~Copying(p)'
  /\ \A op \in overtaken : op # <<"step", p>> => op \in overtaken'
ProgressStep == Kept(row.frames, row'.frames) \/ clash'

LEMMA SameDef ==
  ASSUME UNCHANGED flow
  PROVE  def' = def
BY DEF def

LEMMA RowStays ==
  ASSUME UNCHANGED row
  PROVE  ProgressStep
BY DEF ProgressStep, Kept

LEMMA Defined ==
  ASSUME TInv, FlowAssumption
  PROVE  Definition(def)
BY Zenon DEF TInv, FlowAssumption, def

LEMMA CopyIsGood ==
  ASSUME TInv, NEW p \in Process, Copying(p)
  PROVE  /\ GoodRun(def, step[p].run) /\ Formed(def, step[p].run.frames)
         /\ {"frames", "steps"} \subseteq DOMAIN step[p].run /\ step[p].run.steps \in 0 .. MaxSteps
BY Zenon DEF TInv, StepOK, Copying, GoodRun

(* After a write every other copy is outdated. *)
LEMMA WriteOutdates ==
  ASSUME Shape, NEW op, NEW new, Write(op, new)
  PROVE  /\ \A q \in Process : Copying(q) /\ <<"step", q>> # op => <<"step", q>> \in overtaken'
         /\ approval.pc = "decide" /\ <<"approve", approval.by>> # op
              => <<"approve", approval.by>> \in overtaken'
         /\ cancel.pc = "write" /\ <<"cancel", cancel.by>> # op => <<"cancel", cancel.by>> \in overtaken'
         /\ overtaken \subseteq overtaken' /\ row' = new
         /\ ~clash' => op \notin overtaken
BY Copies, Zenon DEF Write, Shape

-----------------------------------------------------------------------------
(* The steps of a stepper, one by one. *)
LEMMA ControlKept ==
  ASSUME ControlTypeOK, UNCHANGED <<proc, writer>>, Mishap \/ UNCHANGED mishaps
  PROVE  ControlTypeOK' /\ mishaps' \in Nat /\ (Mishap => mishaps' > 0)
BY ProcessAssumption DEF ControlTypeOK, Mishap

LEMMA StepRecord ==
  ASSUME TInv, NEW p \in Process
  PROVE  DOMAIN step = Process /\ DOMAIN step[p] = {"pc", "run", "cancelled", "batch", "end"} /\ StepOK(def, step[p])
BY Zenon DEF TInv, StepOK

(* Where a turn goes on once its run is saved. *)
After == {"loop", "finish", "leave"}

LEMMA SaveIs ==
  ASSUME TInv, NEW p \in Process, Copying(p), NEW status \in Statuses, NEW run, GoodRun(def, run),
         Follows(def, step[p].run.frames, run.frames), NEW next \in After,
         Save(p, status, run, next), UNCHANGED <<proc, writer, flow, approval, cancel>>
  PROVE  /\ ControlTypeOK'
         /\ \/ Saves(p) /\ step'[p].pc = next /\ step'[p].run = run /\ row'.status = status
            \/ Drops(p) /\ mishaps' > 0
<1>1. DOMAIN step = Process /\ DOMAIN step[p] = {"pc", "run", "cancelled", "batch", "end"} /\ StepOK(def, step[p])
  BY StepRecord, Zenon
<1>2. CASE /\ Write(<<"step", p>>, [status |-> status, frames |-> run.frames, steps |-> run.steps])
           /\ step' = [step EXCEPT ![p].pc = next, ![p].run = run, ![p].batch = NoBatch,
                             ![p].end = IF next = "finish" THEN "failed" ELSE ""]
           /\ UNCHANGED mishaps
  <2>1. /\ row'.status = status /\ row'.frames = run.frames /\ row'.steps = run.steps
        /\ DOMAIN row' = {"status", "frames", "steps"} /\ Write(<<"step", p>>, row')
    BY <1>2, Zenon DEF Write
  <2>2. /\ DOMAIN step' = Process /\ \A q \in Process \ {p} : step'[q] = step[q]
        /\ DOMAIN step'[p] = {"pc", "run", "cancelled", "batch", "end"}
        /\ step'[p].pc = next /\ step'[p].run = run
        /\ step'[p].end = IF next = "finish" THEN "failed" ELSE ""
    BY <1>1, <1>2, Zenon
  <2>3. RowOK(def, row')
    BY <2>1, Zenon DEF RowOK, GoodRun
  <2>4. StepOK(def, step'[p])
    BY <2>2, SomeRun, Zenon DEF StepOK, StepPCs, Finished, After
  <2>5. Saves(p)
    BY <2>1, <2>2, <2>3, <2>4, Zenon DEF Saves, Alone
  <2>6. ControlTypeOK'
    BY <1>2, ControlKept, Zenon DEF TInv
  <2> QED
    BY <2>1, <2>2, <2>5, <2>6, Zenon
<1>3. CASE Mishap /\ Goto(p, "leave") /\ UNCHANGED <<row, overtaken, clash>>
  <2>1. /\ DOMAIN step' = Process /\ \A q \in Process \ {p} : step'[q] = step[q]
        /\ DOMAIN step'[p] = {"pc", "run", "cancelled", "batch", "end"}
        /\ step'[p].pc = "leave" /\ step'[p].run = step[p].run
    BY <1>1, <1>3 DEF Goto
  <2>2. StepOK(def, step'[p])
    BY <1>1, <2>1, Zenon DEF StepOK, StepPCs
  <2>3. Drops(p)
    BY <1>3, <2>1, <2>2, Zenon DEF Drops, Alone, Copying
  <2>4. ControlTypeOK' /\ mishaps' > 0
    BY <1>3, ControlKept, Zenon DEF TInv
  <2> QED
    BY <2>3, <2>4, Zenon
<1> QED
  BY <1>2, <1>3, Zenon DEF Save

LEMMA EndIs ==
  ASSUME TInv, NEW p \in Process, Copying(p), NEW status, Finished(status), NEW run, GoodRun(def, run),
         Near(def, step[p].run.frames, run.frames),
         End(p, status, run), UNCHANGED <<flow, row, approval, cancel, overtaken, clash>>
  PROVE  Private(p) /\ step'[p].pc = "finish"
<1>1. DOMAIN step = Process /\ DOMAIN step[p] = {"pc", "run", "cancelled", "batch", "end"} /\ StepOK(def, step[p])
  BY StepRecord, Zenon
<1>2. /\ DOMAIN step' = Process /\ \A q \in Process \ {p} : step'[q] = step[q]
      /\ DOMAIN step'[p] = {"pc", "run", "cancelled", "batch", "end"}
      /\ step'[p].pc = "finish" /\ step'[p].run = run /\ step'[p].end = status
  BY <1>1 DEF End
<1>3. StepOK(def, step'[p])
  BY <1>2, SomeRun, Zenon DEF StepOK, StepPCs
<1> QED
  BY <1>2, <1>3, Zenon DEF Private, Alone

LEMMA ListIs ==
  ASSUME TInv, NEW p \in Process, List(p) \/ Leave(p) \/ Release(p)
  PROVE  /\ Drops(p) /\ ~Copying(p) /\ UNCHANGED <<controlVars, due, effects>>
         /\ lease' \in Process \cup {Nobody} /\ step'[p].pc \in {"idle", "listed", "release"}
<1>1. DOMAIN step = Process /\ DOMAIN step[p] = {"pc", "run", "cancelled", "batch", "end"} /\ StepOK(def, step[p])
  BY StepRecord
<1>2. CASE List(p) \/ Leave(p)
  <2>1. PICK pc \in {"listed", "release"} : Goto(p, pc)
    BY <1>2, Zenon DEF List, Leave
  <2>2. /\ DOMAIN step' = Process /\ \A q \in Process \ {p} : step'[q] = step[q]
        /\ DOMAIN step'[p] = {"pc", "run", "cancelled", "batch", "end"}
        /\ step'[p].pc = pc /\ step'[p].run = step[p].run
    BY <1>1, <2>1 DEF Goto
  <2>3. StepOK(def, step'[p])
    BY <1>1, <2>2, Zenon DEF StepOK, StepPCs
  <2>4. UNCHANGED <<controlVars, due, effects, flow, row, lease, approval, cancel, overtaken, clash>>
    BY <1>2, Zenon DEF List, Leave, memory, request
  <2>5. ~Copying(p)
    BY <1>2 DEF List, Leave, Copying
  <2> QED
    BY <2>2, <2>3, <2>4, <2>5, Zenon DEF Drops, Alone, Copying, TInv
<1>3. CASE Release(p)
  <2>1. /\ DOMAIN step' = Process /\ \A q \in Process \ {p} : step'[q] = step[q]
        /\ step'[p] = Idle
    BY <1>1, <1>3 DEF Release
  <2>2. StepOK(def, step'[p]) /\ step'[p].pc = "idle"
    BY <2>1, IdleIsOK, Zenon
  <2>3. /\ UNCHANGED <<controlVars, due, effects, flow, row, approval, cancel, clash>>
        /\ overtaken' = overtaken \ {<<"step", p>>} /\ ~Copying(p)
    BY <1>3 DEF Release, Read, request, Copying
  <2>4. lease' \in Process \cup {Nobody}
    BY <1>3, Zenon DEF Release, ReleaseRun, TInv
  <2> QED
    BY <2>1, <2>2, <2>3, <2>4, Zenon DEF Drops, Alone, Copying
<1> QED
  BY <1>2, <1>3, Zenon

LEMMA RegisterIs ==
  ASSUME TInv, NEW p \in Process, Register(p)
  PROVE  Private(p) /\ step[p].pc = "got" /\ step'[p].pc = "begin" /\ UNCHANGED <<controlVars, lease, effects>>
<1>1. DOMAIN step = Process /\ DOMAIN step[p] = {"pc", "run", "cancelled", "batch", "end"} /\ StepOK(def, step[p])
  BY StepRecord, Zenon
<1>2. Copying(p) /\ step[p].pc = "got"
  BY DEF Register, Copying
<1>3. /\ DOMAIN step' = Process /\ \A q \in Process \ {p} : step'[q] = step[q]
      /\ DOMAIN step'[p] = {"pc", "run", "cancelled", "batch", "end"}
      /\ step'[p].pc = "begin" /\ step'[p].run = step[p].run
  BY <1>1 DEF Register, Goto
<1>4. StepOK(def, step'[p])
  BY <1>1, <1>2, <1>3, Zenon DEF StepOK, StepPCs
<1>5. Near(def, step[p].run.frames, step'[p].run.frames)
  BY <1>2, <1>3, CopyIsGood, NearItself, Zenon
<1>6. UNCHANGED <<controlVars, lease, effects, flow, row, approval, cancel, overtaken, clash>>
  BY Zenon DEF Register, request
<1> QED
  BY <1>2, <1>3, <1>4, <1>5, <1>6, Zenon DEF Private, Alone

(* The steps that only change the copy. *)
LEMMA PrivateTurns ==
  \A p \in Process :
      /\ FlowAssumption
      /\ TInv
      /\ StopCancelled(p) \/ StopLate(p) \/ Succeed(p) \/ StopAtLimit(p) \/ Skip(p)
      => /\ Private(p) /\ step[p].pc = "loop" /\ step'[p].pc \in {"loop", "finish"}
         /\ UNCHANGED <<controlVars, lease, effects>>
<1>SkipMoves.
  ASSUME FlowAssumption, NEW p, Formed(def, step[p].run.frames), NEW new,
         new = [n \in Node |-> IF n \in skipped(At(p)) THEN [Blank EXCEPT !.s = "skipped"] ELSE At(p).nodes[n]]
  PROVE  NearFrame(def, At(p), [At(p) EXCEPT !.nodes = new])
  <2> USE <1>SkipMoves
  <2>1. At(p) \in FrameSet(def) /\ \A n \in Node : Tame(def, n, At(p).nodes[n])
    BY AtNear
  <2>2. [Blank EXCEPT !.s = "skipped"] \in NodeStates /\ [Blank EXCEPT !.s = "skipped"].s = "skipped"
    <3>1. Blank \in NodeStates
      BY BlankState
    <3>2. With(Blank, "skipped") \in NodeStates /\ With(Blank, "skipped").s = "skipped"
      BY <3>1, WithState, Zenon DEF States
    <3> QED
      BY <3>2 DEF With
  <2>3. ASSUME NEW n \in Node
        PROVE  new[n] \in NodeStates /\ Moved(def, n, At(p).nodes[n], new[n])
    <3>1. CASE n \in skipped(At(p))
      <4>1. new[n] = [Blank EXCEPT !.s = "skipped"]
        BY <3>1
      <4>2. At(p).nodes[n].s = ""
        BY <3>1, Zenon DEF skipped, resolved
      <4> QED
        BY <2>2, <4>1, <4>2, Zenon DEF Moved, Tame, terminal
    <3>2. CASE n \notin skipped(At(p))
      <4>1. new[n] = At(p).nodes[n]
        BY <3>2
      <4> QED
        BY <2>1, <4>1, FrameNodes, Zenon DEF Moved
    <3> QED
      BY <3>1, <3>2
  <2>4. new \in [Node -> NodeStates]
    BY <2>3
  <2> QED
    BY <2>1, <2>3, <2>4, NodesMove
<1> SUFFICES ASSUME FlowAssumption, TInv, NEW p \in Process,
                    StopCancelled(p) \/ StopLate(p) \/ Succeed(p) \/ StopAtLimit(p) \/ Skip(p)
             PROVE  /\ Private(p) /\ step[p].pc = "loop" /\ step'[p].pc \in {"loop", "finish"}
                    /\ UNCHANGED <<controlVars, lease, effects>>
  BY Zenon
<1>1. UNCHANGED <<controlVars, lease, effects, flow, row, approval, cancel, overtaken, clash>>
  BY Zenon DEF StopCancelled, StopLate, Succeed, StopAtLimit, Skip, memory, request
<1>2. step[p].pc = "loop" /\ Copying(p)
  BY Zenon DEF StopCancelled, StopLate, Succeed, StopAtLimit, Skip, Stuck, Work, Goes, AtLoop, Copying
<1>3. /\ GoodRun(def, step[p].run) /\ Formed(def, step[p].run.frames)
      /\ {"frames", "steps"} \subseteq DOMAIN step[p].run /\ step[p].run.steps \in 0 .. MaxSteps
  BY <1>2, CopyIsGood, Zenon
<1>4. Near(def, step[p].run.frames, step[p].run.frames)
  BY <1>3, NearItself, Zenon
<1>5. Near(def, step[p].run.frames, Put(p, At(p)).frames) /\ GoodRun(def, Put(p, At(p)))
  <2>1. NearFrame(def, At(p), At(p))
    BY <1>3, AtNear, FrameStays, SameNodes, Zenon
  <2> QED
    BY <1>3, <2>1, PutNear, Zenon
<1>6. CASE StopCancelled(p)
  <2> DEFINE run == [step[p].run EXCEPT !.frames = markCancelled(@)]
  <2>1. /\ run.frames = markCancelled(step[p].run.frames) /\ run.steps = step[p].run.steps
        /\ DOMAIN run = DOMAIN step[p].run
    BY <1>3
  <2>2. Near(def, step[p].run.frames, run.frames)
    BY <1>3, <2>1, CancelledMoves
  <2>3. GoodRun(def, run)
    BY <1>3, <2>1, <2>2, NearIsFormed DEF GoodRun
  <2>4. End(p, "cancelled", run) /\ Finished("cancelled")
    BY <1>6 DEF StopCancelled, Finished
  <2> HIDE DEF run
  <2> QED
    BY <1>1, <1>2, <2>2, <2>3, <2>4, EndIs, Zenon
<1>7. CASE StopLate(p)
  <2>1. End(p, "failed", step[p].run) /\ Finished("failed")
    BY <1>7 DEF StopLate, Finished
  <2> QED
    BY <1>1, <1>2, <1>3, <1>4, <2>1, EndIs, Zenon
<1>8. CASE Succeed(p) \/ StopAtLimit(p)
  <2>1. PICK status \in {"succeeded", "failed"} : End(p, status, Put(p, At(p)))
    BY <1>8, Zenon DEF Succeed, StopAtLimit
  <2>2. Finished(status)
    BY DEF Finished
  <2> QED
    BY <1>1, <1>2, <1>5, <2>1, <2>2, EndIs, Zenon
<1>9. CASE Skip(p)
  <2> DEFINE new == [n \in Node |-> IF n \in skipped(At(p)) THEN [Blank EXCEPT !.s = "skipped"] ELSE At(p).nodes[n]]
             g == [At(p) EXCEPT !.nodes = new]
  <2>1. step' = [step EXCEPT ![p].run = Put(p, g)]
    BY <1>9 DEF Skip, Mapped
  <2>2. NearFrame(def, At(p), g)
    BY <1>3, <1>SkipMoves, Zenon
  <2> HIDE DEF g
  <2>3. Near(def, step[p].run.frames, Put(p, g).frames) /\ GoodRun(def, Put(p, g))
    BY <1>3, <2>2, PutNear, Zenon
  <2>4. DOMAIN step = Process /\ DOMAIN step[p] = {"pc", "run", "cancelled", "batch", "end"} /\ StepOK(def, step[p])
    BY StepRecord
  <2>5. /\ DOMAIN step' = Process /\ \A q \in Process \ {p} : step'[q] = step[q]
        /\ DOMAIN step'[p] = {"pc", "run", "cancelled", "batch", "end"}
        /\ step'[p].pc = step[p].pc /\ step'[p].run = Put(p, g)
    BY <2>1, <2>4
  <2>6. StepOK(def, step'[p])
    BY <1>2, <2>3, <2>5, SomeRun, Zenon DEF StepOK, StepPCs
  <2> QED
    BY <1>1, <1>2, <2>3, <2>5, <2>6, Zenon DEF Private, Alone
<1> QED
  BY <1>6, <1>7, <1>8, <1>9, Zenon

(* The steps that save. *)
LEMMA SavingTurnsAre ==
  \A p \in Process :
      /\ FlowAssumption
      /\ TInv
      /\ Begin(p) \/ StopShutdown(p) \/ park(p) \/ Iterate(p) \/ startLoop(p)
      => /\ ControlTypeOK' /\ UNCHANGED <<lease, effects>> /\ step[p].pc \in {"begin", "loop"}
         /\ \/ Saves(p) /\ step'[p].pc \in {"loop", "finish", "leave"}
            \/ Drops(p) /\ mishaps' > 0
            \/ Private(p) /\ step'[p].pc = "finish"
<1>RecoveredMoves.
  ASSUME Definition(def), NEW fs, Formed(def, fs)
  PROVE  Near(def, fs, recoverInterrupted(fs))
  <2> USE <1>RecoveredMoves
  <2> DEFINE C(n, ns) == IF ns.s # "running" \/ def.kind[n] = "loop" THEN ns
                         ELSE IF n \in def.idempotent THEN With(ns, "")
                         ELSE [ns EXCEPT !.s = "failed", !.port = ErrorPort(n)]
             new(f) == [n \in Node |-> C(n, f.nodes[n])]
  <2>1. ASSUME NEW f \in FrameSet(def), \A n \in Node : Tame(def, n, f.nodes[n])
        PROVE  NearFrame(def, f, [f EXCEPT !.nodes = new(f)])
    <3>1. ASSUME NEW n \in Node
          PROVE  C(n, f.nodes[n]) \in NodeStates /\ Moved(def, n, f.nodes[n], C(n, f.nodes[n]))
      <4>1. /\ f.nodes[n] \in NodeStates /\ Tame(def, n, f.nodes[n]) /\ "failed" \in States /\ "" \in States
            /\ ErrorPort(n) \in Ports
        BY <2>1, FrameNodes DEF States, Ports, ErrorPort
      <4>2. CASE f.nodes[n].s # "running" \/ def.kind[n] = "loop"
        BY <4>1, <4>2, Zenon DEF Moved
      <4>3. CASE ~(f.nodes[n].s # "running" \/ def.kind[n] = "loop") /\ n \in def.idempotent
        <5>1. C(n, f.nodes[n]) = With(f.nodes[n], "")
          BY <4>3
        <5>2. /\ With(f.nodes[n], "") \in NodeStates /\ With(f.nodes[n], "").s = ""
              /\ With(f.nodes[n], "").att = f.nodes[n].att
          BY <4>1, WithState, Zenon
        <5> HIDE DEF C
        <5> QED
          BY <4>1, <4>3, <5>1, <5>2, Zenon DEF Moved, Tame, terminal
      <4>4. CASE ~(f.nodes[n].s # "running" \/ def.kind[n] = "loop") /\ n \notin def.idempotent
        <5>1. C(n, f.nodes[n]) = [f.nodes[n] EXCEPT !.s = "failed", !.port = ErrorPort(n)]
          BY <4>4
        <5>2. /\ [f.nodes[n] EXCEPT !.s = "failed", !.port = ErrorPort(n)] \in NodeStates
              /\ [f.nodes[n] EXCEPT !.s = "failed", !.port = ErrorPort(n)].s = "failed"
          BY <4>1, EndState, Zenon
        <5> HIDE DEF C
        <5> QED
          BY <4>4, <5>1, <5>2 DEF Moved, Tame, terminal
      <4> QED
        BY <4>2, <4>3, <4>4, Zenon
    <3> HIDE DEF C
    <3>2. new(f) \in [Node -> NodeStates] /\ \A n \in Node : Moved(def, n, f.nodes[n], new(f)[n])
      BY <3>1
    <3> HIDE DEF new
    <3> QED
      BY <3>2, NodesMove
  <2>2. recoverInterrupted(fs) = [i \in DOMAIN fs |-> [fs[i] EXCEPT !.nodes = new(fs[i])]]
    BY DEF recoverInterrupted, Mapped
  <2> HIDE DEF new
  <2>3. /\ fs \in Seq(FrameSet(def))
        /\ \A i \in 1 .. Len(fs) : \A n \in Node : Tame(def, n, fs[i].nodes[n])
    BY SameNodes DEF Formed
  <2>4. \A i \in 1 .. Len(fs) : NearFrame(def, fs[i], [fs[i] EXCEPT !.nodes = new(fs[i])])
    BY <2>1, <2>3
  <2> DEFINE gs == recoverInterrupted(fs)
  <2>5. DOMAIN gs = DOMAIN fs /\ gs = [i \in DOMAIN gs |-> gs[i]]
    BY <2>2
  <2>6. \A i \in 1 .. Len(fs) : NearFrame(def, fs[i], gs[i])
    BY <2>2, <2>3, <2>4
  <2> HIDE DEF gs
  <2>7. Near(def, fs, gs)
    BY <2>3, <2>5, <2>6, NearMapped, Zenon
  <2> QED
    BY <2>7 DEF gs
(* Loops: the next item, the end of the loop, the first item. *)
<1>FreshFrame.
  ASSUME FlowAssumption, NEW l \in Node \cup {Top}, NEW items \in Nat
  PROVE  /\ Frame(l, items) \in FrameSet(def)
         /\ Frame(l, items).loop = l /\ Frame(l, items).index = 0 /\ Frame(l, items).items = items
         /\ \A n \in Node : Tame(def, n, Frame(l, items).nodes[n])
  <2> USE <1>FreshFrame
  <2>1. Blank \in NodeStates /\ Blank.att = 0 /\ MaxAttempts \in Nat \ {0}
    BY BlankState
  <2>2. \A n \in Node : Tame(def, n, Blank)
    <3>1. Blank.att < MaxAttempts
      BY <2>1
    <3> QED
      BY <3>1, Zenon DEF Tame
  <2> QED
    BY <2>1, <2>2, SameNodes DEF Frame, FrameSet
<1>NextMoves.
  ASSUME FlowAssumption, NEW hs, Formed(def, hs), Inner(hs).loop # Top
  PROVE  Iterated(def, hs, nextIteration(hs)) \/ Left(def, hs, nextIteration(hs))
  <2> USE <1>NextMoves
  <2> DEFINE k == Len(hs)
             f == Inner(hs)
  <2>1. hs \in Seq(FrameSet(def)) /\ k \in Nat /\ k > 0 /\ hs[1].loop = Top
    BY SMTT(20) DEF Formed
  <2>2. k > 1
    <3>1. k # 1
      BY <2>1, Zenon DEF Inner
    <3> HIDE DEF k
    <3> QED
      BY <2>1, <3>1
  <2>3. f \in FrameSet(def) /\ f.loop \in Node /\ f.index \in Nat /\ f.items \in Nat
    <3>1. k \in 2 .. k /\ k \in 1 .. k
      BY <2>1, <2>2
    <3>2. Linked(def, hs[k - 1], hs[k])
      BY <3>1, Zenon DEF Formed
    <3>3. hs[k] \in FrameSet(def)
      BY <2>1, <3>1
    <3> QED
      BY <3>2, <3>3, SameNodes, Zenon DEF Inner, Linked, FrameSet
  <2>4. CASE f.index + 1 < f.items
    <3> DEFINE g == [Frame(f.loop, f.items) EXCEPT !.index = f.index + 1]
    <3>1. nextIteration(hs) = Replaced(hs, g)
      BY <2>4 DEF nextIteration
    <3>2. /\ Frame(f.loop, f.items) \in FrameSet(def)
          /\ Frame(f.loop, f.items).loop = f.loop /\ Frame(f.loop, f.items).items = f.items
          /\ \A n \in Node : Tame(def, n, Frame(f.loop, f.items).nodes[n])
      BY <2>3, <1>FreshFrame, Zenon
    <3>3. f.index + 1 \in Nat
      BY <2>3
    <3>4. /\ g \in FrameSet(def) /\ g.loop = f.loop /\ g.items = f.items /\ g.index = f.index + 1
          /\ g.nodes = Frame(f.loop, f.items).nodes
      BY <3>2, <3>3 DEF FrameSet
    <3>5. \A n \in Nodes(def) : Tame(def, n, g.nodes[n])
      BY <3>2, <3>4, SameNodes
    <3>6. g.index < g.items
      BY <2>4, <3>4
    <3> HIDE DEF g
    <3>7. Iterated(def, hs, Replaced(hs, g))
      BY <2>2, <3>4, <3>5, <3>6, Zenon DEF Iterated
    <3> QED
      BY <3>1, <3>7
  <2>5. CASE ~(f.index + 1 < f.items)
    <3> DEFINE low == Inner(Outer(hs))
               ns == [low.nodes[f.loop] EXCEPT !.s = "succeeded", !.port = "done"]
               new == [low.nodes EXCEPT ![f.loop] = ns]
               g == [low EXCEPT !.nodes = new]
    <3>1. nextIteration(hs) = Replaced(Outer(hs), g)
      BY <2>5, Zenon DEF nextIteration
    <3>2. low = hs[k - 1] /\ low \in FrameSet(def)
      <4>1. hs \in Seq(FrameSet(def)) /\ Len(hs) > 1
        BY <2>1, <2>2, Zenon
      <4>2. /\ Len(Outer(hs)) = Len(hs) - 1 /\ \A i \in 1 .. Len(hs) - 1 : Outer(hs)[i] = hs[i]
        <5>1. /\ Outer(hs) \in Seq(FrameSet(def)) /\ Len(Outer(hs)) = Len(hs) - 1
              /\ \A i \in 1 .. Len(hs) - 1 : Outer(hs)[i] = hs[i]
          BY <4>1, OuterSeq, Zenon
        <5> QED
          BY <5>1, Zenon
      <4>3. k - 1 \in 1 .. k - 1 /\ k - 1 \in 1 .. k
        BY <2>1, <2>2
      <4>4. hs[k - 1] \in FrameSet(def)
        BY <2>1, <4>3, SMTT(20)
      <4>5. low = Outer(hs)[k - 1]
        BY <4>2, Zenon DEF Inner
      <4> QED
        BY <4>2, <4>3, <4>4, <4>5
    <3> HIDE DEF low
    <3>3. low.nodes \in [Node -> NodeStates] /\ low.nodes[f.loop] \in NodeStates
      BY <2>3, <3>2, SameNodes DEF FrameSet
    <3>4. "succeeded" \in States /\ "done" \in Ports
      BY DEF States, Ports
    <3>5. ns \in NodeStates /\ ns.s = "succeeded"
      BY <3>3, <3>4, EndState, Zenon
    <3> HIDE DEF ns
    <3>6. /\ new \in [Nodes(def) -> NodeStates] /\ new[f.loop] = ns
          /\ \A n \in Nodes(def) \ {f.loop} : new[n] = low.nodes[n]
      BY <2>3, <3>3, <3>5, SameNodes, Zenon
    <3> HIDE DEF new
    <3>7. /\ g \in FrameSet(def) /\ g.loop = low.loop /\ g.index = low.index /\ g.items = low.items
          /\ g.nodes = new
      BY <3>2, <3>6, Zenon DEF FrameSet
    <3> HIDE DEF g
    <3>8. Left(def, hs, Replaced(Outer(hs), g))
      BY <2>2, <3>2, <3>5, <3>6, <3>7, Zenon DEF Left
    <3> QED
      BY <3>1, <3>8
  <2> QED
    BY <2>4, <2>5, Zenon
<1>LoopMoves.
  ASSUME FlowAssumption, NEW p, GoodRun(def, step[p].run), NEW n \in Loops(At(p)), NEW ns \in NodeStates
  PROVE  /\ Near(def, step[p].run.frames, Replaced(step[p].run.frames, [At(p) EXCEPT !.nodes[n] = ns]))
         /\ Near(def, step[p].run.frames, LoopStarted(p, n, ns, <<>>).frames)
         /\ ns.s = "running" => \A k \in 1 .. MaxItems :
              Follows(def, step[p].run.frames, LoopStarted(p, n, ns, <<Frame(n, k)>>).frames)
  <2> USE <1>LoopMoves
  <2> DEFINE f == At(p)
             new == [f.nodes EXCEPT ![n] = ns]
             g == [f EXCEPT !.nodes = new]
             fs == step[p].run.frames
             hs == Replaced(fs, g)
  <2>1. f \in FrameSet(def) /\ \A m \in Node : Tame(def, m, f.nodes[m])
    BY AtNear, Zenon DEF GoodRun
  <2>2. n \in Node /\ def.kind[n] = "loop" /\ f.nodes[n].s = "" /\ def.owner[n] = f.loop
    BY Zenon DEF Loops, ready, resolved
  <2>3. hs = Replaced(step[p].run.frames, [At(p) EXCEPT !.nodes[n] = ns])
    BY Zenon
  <2>4. /\ LoopStarted(p, n, ns, <<>>).frames = hs \o <<>>
        /\ \A k : LoopStarted(p, n, ns, <<Frame(n, k)>>).frames = hs \o <<Frame(n, k)>>
    BY DEF LoopStarted
  <2> HIDE DEF f
  <2>5. new \in [Node -> NodeStates] /\ new[n] = ns /\ \A m \in Node \ {n} : new[m] = f.nodes[m]
    BY <2>1, <2>2, SameNodes, Zenon DEF FrameSet
  <2> HIDE DEF new
  <2>6. Moved(def, n, f.nodes[n], new[n])
    BY <2>2, <2>5, Zenon DEF Moved, Tame, terminal
  <2>7. \A m \in Node : Moved(def, m, f.nodes[m], new[m])
    <3>1. \A m \in Node \ {n} : Moved(def, m, f.nodes[m], new[m])
      BY <2>1, <2>5, Zenon DEF Moved
    <3> QED
      BY <2>6, <3>1
  <2>8. NearFrame(def, f, g) /\ g.nodes = new
    BY <2>1, <2>5, <2>7, NodesMove
  <2> HIDE DEF g
  <2>9. Near(def, fs, hs)
    BY <2>8, PutNear, Zenon DEF f
  <2>10. hs \in Seq(FrameSet(def)) /\ Len(hs) > 0 /\ Inner(hs) = g
    <3>1. fs \in Seq(FrameSet(def)) /\ Len(fs) > 0 /\ g \in FrameSet(def)
      BY <2>8, Zenon DEF GoodRun, Formed, NearFrame
    <3> HIDE DEF fs
    <3>2. Replaced(fs, g) \in Seq(FrameSet(def)) /\ Len(Replaced(fs, g)) > 0
      BY <3>1, StillFrames, Zenon
    <3>3. Inner(Replaced(fs, g)) = g
      BY <3>1, InnerReplaced, Zenon
    <3> QED
      BY <3>2, <3>3, Zenon
  <2> HIDE DEF hs
  <2>11. hs \o <<>> = hs
    BY <2>10
  <2>12. ASSUME ns.s = "running", NEW k \in 1 .. MaxItems
         PROVE  Follows(def, fs, hs \o <<Frame(n, k)>>)
    <3>1. k \in Nat /\ 0 < k
      BY SMTT(20) DEF FlowAssumption
    <3>2. /\ Frame(n, k) \in FrameSet(def) /\ Frame(n, k).loop = n /\ Frame(n, k).index = 0
          /\ Frame(n, k).items = k /\ \A m \in Node : Tame(def, m, Frame(n, k).nodes[m])
      <4>1. n \in Node \cup {Top} /\ k \in Nat
        BY <2>2, <3>1, Zenon
      <4> QED
        BY <4>1, <1>FreshFrame, Zenon
    <3>3. g.nodes[n].s = "running" /\ def.owner[n] = g.loop
      <4>1. g.loop = f.loop
        BY <2>8 DEF NearFrame
      <4> QED
        BY <2>2, <2>5, <2>8, <2>12, <4>1, Zenon
    <3>4. Linked(def, Inner(hs), Frame(n, k))
      BY <2>2, <2>10, <3>1, <3>2, <3>3, SameNodes, Zenon DEF Linked
    <3>5. hs \o <<Frame(n, k)>> = Append(hs, Frame(n, k))
      <4> DEFINE x == Frame(n, k)
      <4> HIDE DEF x
      <4>1. hs \o <<x>> = Append(hs, x)
        BY <2>10, <3>2 DEF x
      <4> QED
        BY <4>1, Zenon DEF x
    <3>6. Entered(def, hs, Append(hs, Frame(n, k)))
      BY <3>2, <3>4, SameNodes, Zenon DEF Entered
    <3> QED
      BY <2>9, <3>5, <3>6, Zenon DEF Follows
  <2> QED
    BY <2>3, <2>4, <2>9, <2>11, <2>12, Zenon
<1> SUFFICES ASSUME FlowAssumption, TInv, NEW p \in Process,
                    Begin(p) \/ StopShutdown(p) \/ park(p) \/ Iterate(p) \/ startLoop(p)
             PROVE  /\ ControlTypeOK' /\ UNCHANGED <<lease, effects>> /\ step[p].pc \in {"begin", "loop"}
                    /\ \/ Saves(p) /\ step'[p].pc \in {"loop", "finish", "leave"}
                       \/ Drops(p) /\ mishaps' > 0
                       \/ Private(p) /\ step'[p].pc = "finish"
  BY Zenon
<1>1. UNCHANGED <<proc, writer, lease, effects, flow, approval, cancel>>
  <2>1. CASE park(p)
    BY <2>1 DEF park, memory, request, controlVars
  <2>2. CASE ~park(p)
    BY <2>2, Zenon DEF Begin, StopShutdown, Iterate, startLoop, request
  <2> QED
    BY <2>1, <2>2, Zenon
<1>2. step[p].pc \in {"begin", "loop"} /\ Copying(p)
  BY Zenon DEF Begin, StopShutdown, park, Iterate, startLoop, Stuck, Work, Goes, AtLoop, Copying
<1>3. /\ GoodRun(def, step[p].run) /\ Formed(def, step[p].run.frames)
      /\ {"frames", "steps"} \subseteq DOMAIN step[p].run /\ step[p].run.steps \in 0 .. MaxSteps
  BY <1>2, CopyIsGood, Zenon
<1>4. Near(def, step[p].run.frames, Put(p, At(p)).frames) /\ GoodRun(def, Put(p, At(p)))
      /\ Near(def, step[p].run.frames, Replaced(step[p].run.frames, At(p)))
  <2>1. NearFrame(def, At(p), At(p))
    BY <1>3, AtNear, FrameStays, SameNodes, Zenon
  <2> QED
    BY <1>3, <2>1, PutNear, Zenon
<1>5. Definition(def)
  BY Defined, SMTT(20)
<1>6. ASSUME NEW status \in Statuses, NEW run, GoodRun(def, run),
             Follows(def, step[p].run.frames, run.frames), NEW next \in After,
             Save(p, status, run, next)
      PROVE  /\ ControlTypeOK'
             /\ \/ Saves(p) /\ step'[p].pc \in {"loop", "finish", "leave"}
                \/ Drops(p) /\ mishaps' > 0
  <2>1. /\ ControlTypeOK'
        /\ \/ Saves(p) /\ step'[p].pc = next /\ step'[p].run = run /\ row'.status = status
           \/ Drops(p) /\ mishaps' > 0
    <3>1. UNCHANGED <<proc, writer, flow, approval, cancel>>
      BY <1>1, Zenon
    <3> QED
      BY <1>2, <1>6, <3>1, SaveIs, Zenon
  <2> QED
    BY <1>6, <2>1, Zenon DEF After
<1>7. CASE Begin(p)
  <2> DEFINE run == [step[p].run EXCEPT !.frames = recoverInterrupted(@)]
             next == IF recoveryFails(step[p].run.frames) THEN "finish" ELSE "loop"
  <2>1. /\ run.frames = recoverInterrupted(step[p].run.frames) /\ run.steps = step[p].run.steps
        /\ DOMAIN run = DOMAIN step[p].run
    BY <1>3
  <2>2. Near(def, step[p].run.frames, run.frames)
    BY <1>3, <1>5, <2>1, <1>RecoveredMoves
  <2>3. GoodRun(def, run)
    BY <1>3, <2>1, <2>2, NearIsFormed DEF GoodRun
  <2>4. Save(p, "running", run, next)
    BY <1>7, Zenon DEF Begin
  <2>5. next \in After /\ "running" \in Statuses
    BY DEF Statuses, After
  <2>6. Follows(def, step[p].run.frames, run.frames)
    BY <2>2 DEF Follows
  <2> HIDE DEF run, next
  <2> QED
    BY <1>1, <1>2, <1>6, <2>3, <2>4, <2>5, <2>6, Zenon
<1>8. CASE StopShutdown(p)
  <2>1. Save(p, "running", step[p].run, "leave") /\ "running" \in Statuses /\ "leave" \in After
    BY <1>8, Zenon DEF StopShutdown, Statuses, After
  <2>2. Follows(def, step[p].run.frames, step[p].run.frames)
    BY <1>3, NearItself, Zenon DEF Follows
  <2> QED
    BY <1>1, <1>2, <1>3, <1>6, <2>1, <2>2, Zenon
<1>9. CASE park(p)
  <2>1. CASE End(p, "failed", Put(p, At(p))) /\ UNCHANGED <<controlVars, memory>>
    <3>1. Private(p) /\ step'[p].pc = "finish"
      BY <1>2, <1>4, <2>1, EndIs, Zenon DEF memory, request, Finished
    <3>2. ControlTypeOK'
      BY <2>1, Zenon DEF TInv, ControlTypeOK, controlVars
    <3> QED
      BY <1>1, <1>2, <3>1, <3>2, Zenon
  <2>2. CASE Save(p, IF Sleeping(At(p)) # {} THEN "waiting" ELSE "waiting_approval", Put(p, At(p)), "leave")
    <3>1. PICK status \in Statuses : Save(p, status, Put(p, At(p)), "leave") /\ "leave" \in After
      BY <2>2, Zenon DEF Statuses, After
    <3>2. Follows(def, step[p].run.frames, Put(p, At(p)).frames)
      BY <1>4 DEF Follows
    <3> QED
      BY <1>1, <1>2, <1>4, <1>6, <3>1, <3>2, Zenon
  <2> QED
    BY <1>9, <2>1, <2>2, Zenon DEF park
<1>10. CASE Iterate(p)
  <2> DEFINE hs == Replaced(step[p].run.frames, At(p))
             run == [step[p].run EXCEPT !.frames = nextIteration(Replaced(@, At(p)))]
  <2>1. /\ run.frames = nextIteration(hs) /\ run.steps = step[p].run.steps
        /\ DOMAIN run = DOMAIN step[p].run
    BY <1>3
  <2>2. /\ Save(p, "running", run, "loop") /\ At(p).loop # Top
        /\ "running" \in Statuses /\ "loop" \in After
    BY <1>10 DEF Iterate, Statuses, After
  <2> HIDE DEF run
  <2>3. Formed(def, hs)
    BY <1>3, <1>4, NearIsFormed, Zenon
  <2>4. Inner(hs) = At(p)
    <3>1. At(p) \in FrameSet(def)
      BY <1>3, AtNear, Zenon
    <3>2. step[p].run.frames \in Seq(FrameSet(def)) /\ Len(step[p].run.frames) > 0
      BY <1>3, Zenon DEF Formed
    <3> QED
      BY <3>1, <3>2, InnerReplaced
  <2>5. Iterated(def, hs, nextIteration(hs)) \/ Left(def, hs, nextIteration(hs))
    <3> HIDE DEF hs
    <3> QED
      BY <2>2, <2>3, <2>4, <1>NextMoves
  <2>6. Follows(def, step[p].run.frames, run.frames)
    BY <1>4, <2>1, <2>5, Zenon DEF Follows
  <2>7. GoodRun(def, run)
    BY <1>3, <2>1, <2>6, FollowsIsFormed, Zenon DEF GoodRun
  <2> QED
    BY <1>1, <1>2, <1>6, <2>2, <2>6, <2>7, Zenon
<1>11. CASE startLoop(p)
  <2>1. step[p].run.steps < MaxSteps
    BY <1>11, Zenon DEF startLoop
  <2>2. step[p].run.steps + 1 \in 0 .. MaxSteps
    <3> DEFINE a == step[p].run.steps
    <3>1. a \in 0 .. MaxSteps /\ a < MaxSteps /\ MaxSteps \in Nat
      BY <1>3, <2>1, Zenon DEF FlowAssumption
    <3> HIDE DEF a
    <3>2. a + 1 \in 0 .. MaxSteps
      BY <3>1, OneMore
    <3> QED
      BY <3>2, Zenon DEF a
  <2>a. PICK n \in Loops(At(p)), ns \in NodeStates : \E frames :
          /\ Save(p, "running", LoopStarted(p, n, ns, frames), "loop")
          /\ frames = <<>> \/ (ns.s = "running" /\ \E k \in 1 .. MaxItems : frames = <<Frame(n, k)>>)
    <3>1. PICK n \in First(1, Loops(At(p))) :
        \/ Save(p, "running", LoopStarted(p, n,
               [s |-> "failed", port |-> IF def.onError[n] = "continue" THEN "" ELSE "error", att |-> 1], <<>>), "loop")
        \/ Save(p, "running", LoopStarted(p, n, [s |-> "succeeded", port |-> "done", att |-> 1], <<>>), "loop")
        \/ \E k \in 1 .. MaxItems :
             Save(p, "running", LoopStarted(p, n, [s |-> "running", port |-> "", att |-> 1], <<Frame(n, k)>>), "loop")
      BY <1>11, Zenon DEF startLoop
    <3>2. n \in Loops(At(p)) /\ 1 \in 0 .. MaxAttempts
      BY DEF First, FlowAssumption
    <3>3. \A s \in States, port \in Ports : [s |-> s, port |-> port, att |-> 1] \in NodeStates
      BY <3>2, Zenon DEF NodeStates, States, Ports
    <3>4. CASE Save(p, "running", LoopStarted(p, n,
               [s |-> "failed", port |-> IF def.onError[n] = "continue" THEN "" ELSE "error", att |-> 1], <<>>), "loop")
      <4>1. [s |-> "failed", port |-> IF def.onError[n] = "continue" THEN "" ELSE "error", att |-> 1] \in NodeStates
        BY <3>3, Zenon DEF States, Ports
      <4> QED
        BY <3>2, <3>4, <4>1, Zenon
    <3>5. CASE Save(p, "running", LoopStarted(p, n, [s |-> "succeeded", port |-> "done", att |-> 1], <<>>), "loop")
      <4>1. [s |-> "succeeded", port |-> "done", att |-> 1] \in NodeStates
        BY <3>3, Zenon DEF States, Ports
      <4> QED
        BY <3>2, <3>5, <4>1
    <3>6. ASSUME NEW k \in 1 .. MaxItems,
                 Save(p, "running", LoopStarted(p, n, [s |-> "running", port |-> "", att |-> 1], <<Frame(n, k)>>), "loop")
          PROVE  \E m \in Loops(At(p)), ns \in NodeStates : \E frames :
                  /\ Save(p, "running", LoopStarted(p, m, ns, frames), "loop")
                  /\ frames = <<>> \/ (ns.s = "running" /\ \E i \in 1 .. MaxItems : frames = <<Frame(m, i)>>)
      <4>1. [s |-> "running", port |-> "", att |-> 1] \in NodeStates
        BY <3>3, Zenon DEF States, Ports
      <4>2. [s |-> "running", port |-> "", att |-> 1].s = "running"
        BY Zenon
      <4> QED
        BY <3>2, <3>6, <4>1, <4>2, Zenon
    <3> QED
      BY <3>1, <3>4, <3>5, <3>6, Zenon
  <2>3. PICK frames :
          /\ Save(p, "running", LoopStarted(p, n, ns, frames), "loop")
          /\ frames = <<>> \/ (ns.s = "running" /\ \E k \in 1 .. MaxItems : frames = <<Frame(n, k)>>)
    BY <2>a
  <2> DEFINE run == LoopStarted(p, n, ns, frames)
  <2>4. DOMAIN run = {"frames", "steps"} /\ run.steps = step[p].run.steps + 1
    BY Zenon DEF LoopStarted
  <2>5. Follows(def, step[p].run.frames, run.frames)
    <3>1. CASE frames = <<>>
      BY <1>3, <3>1, <1>LoopMoves, Zenon DEF Follows
    <3>2. CASE ns.s = "running" /\ \E k \in 1 .. MaxItems : frames = <<Frame(n, k)>>
      BY <1>3, <3>2, <1>LoopMoves, Zenon
    <3> QED
      BY <2>3, <3>1, <3>2
  <2> HIDE DEF run
  <2>6. GoodRun(def, run)
    BY <1>3, <2>2, <2>4, <2>5, FollowsIsFormed, Zenon DEF GoodRun
  <2>7. Save(p, "running", run, "loop") /\ "running" \in Statuses /\ "loop" \in After
    BY <2>3, Zenon DEF run, Statuses, After
  <2> QED
    BY <1>1, <1>2, <1>6, <2>5, <2>6, <2>7, Zenon
<1> QED
  BY <1>7, <1>8, <1>9, <1>10, <1>11, Zenon

(* The batch: it takes steps that all before them have ended, and no more  *)
(* than the limits leave.                                                  *)
Started(p, ids) == [n \in Node |-> IF n \in ids THEN With(At(p).nodes[n], "running") ELSE At(p).nodes[n]]
(* The frame with that batch marked. *)
Marked(p, ids) == [At(p) EXCEPT !.nodes = Started(p, ids)]

LEMMA StartedAt ==
  \A p, ids : /\ DOMAIN Started(p, ids) = Node
              /\ \A n \in Node :
                   /\ n \in ids => Started(p, ids)[n] = With(At(p).nodes[n], "running")
                   /\ n \notin ids => Started(p, ids)[n] = At(p).nodes[n]
BY Zenon DEF Started

LEMMA RunBatchIs ==
  \A p \in Process :
      /\ FlowAssumption
      /\ Counted
      /\ TInv
      /\ runBatch(p)
      => /\ Private(p) /\ step[p].pc = "loop" /\ step'[p].pc = "exec"
         /\ UNCHANGED <<controlVars, lease, effects>>
<1>BatchMoves.
  ASSUME NEW p, Formed(def, step[p].run.frames), NEW ids \in SUBSET ready(At(p))
  PROVE  /\ NearFrame(def, At(p), Marked(p, ids)) /\ Marked(p, ids).nodes = Started(p, ids)
         /\ \A n \in ids : Started(p, ids)[n].s = "running"
  <2> USE <1>BatchMoves
  <2>1. At(p) \in FrameSet(def) /\ \A n \in Node : Tame(def, n, At(p).nodes[n])
    BY AtNear, Zenon
  <2>2. PICK new : new = Started(p, ids)
    OBVIOUS
  <2>3. ASSUME NEW n \in Node
        PROVE  /\ new[n] \in NodeStates /\ Moved(def, n, At(p).nodes[n], new[n])
               /\ n \in ids => new[n].s = "running"
    <3>1. CASE n \in ids
      <4>1. new[n] = With(At(p).nodes[n], "running")
        <5>1. Started(p, ids)[n] = With(At(p).nodes[n], "running")
          BY <3>1, StartedAt, Zenon
        <5> QED
          BY <2>2, <5>1, Zenon
      <4>2. At(p).nodes[n].s = "" /\ At(p).nodes[n] \in NodeStates /\ "running" \in States
        BY <2>1, <3>1, FrameNodes, Zenon DEF ready, resolved, States
      <4>3. new[n] \in NodeStates /\ new[n].s = "running" /\ new[n].att = At(p).nodes[n].att
        <5>1. /\ With(At(p).nodes[n], "running") \in NodeStates
              /\ With(At(p).nodes[n], "running").s = "running"
              /\ With(At(p).nodes[n], "running").att = At(p).nodes[n].att
          BY <4>2, WithState, Zenon
        <5> QED
          BY <4>1, <5>1, Zenon
      <4>4. Tame(def, n, At(p).nodes[n])
        BY <2>1, Zenon
      <4> QED
        BY <4>2, <4>3, <4>4, Zenon DEF Moved, Tame, terminal
    <3>2. CASE n \notin ids
      <4>1. new[n] = At(p).nodes[n]
        <5>1. Started(p, ids)[n] = At(p).nodes[n]
          BY <3>2, StartedAt, Zenon
        <5> QED
          BY <2>2, <5>1
      <4> QED
        BY <2>1, <3>2, <4>1, FrameNodes, Zenon DEF Moved
    <3> QED
      BY <3>1, <3>2, Zenon
  <2>4. new \in [Node -> NodeStates]
    BY <2>2, <2>3, Zenon DEF Started
  <2>5. \A n \in ids : new[n].s = "running"
    BY <2>3, Zenon DEF ready, resolved
  <2>6. \A n \in Node : Moved(def, n, At(p).nodes[n], new[n])
    BY <2>3, Zenon
  <2>7. /\ NearFrame(def, At(p), [At(p) EXCEPT !.nodes = new])
        /\ [At(p) EXCEPT !.nodes = new].nodes = new
    BY <2>1, <2>4, <2>6, NodesMove, Zenon
  <2> QED
    BY <2>2, <2>5, <2>7, Zenon DEF Marked
<1>BatchSize.
  ASSUME FlowAssumption, Counted, NEW steps \in 0 .. MaxSteps, steps < MaxSteps, NEW S \in SUBSET Node
  PROVE  /\ First(BatchLimit(steps), S) \subseteq S
         /\ steps + Cardinality(First(BatchLimit(steps), S)) \in 0 .. MaxSteps
  <2> USE <1>BatchSize
  <2>1. MaxSteps \in Nat /\ MaxParallel \in Nat
    BY Zenon DEF FlowAssumption
  <2>2. BatchLimit(steps) \in Nat /\ BatchLimit(steps) <= MaxSteps - steps
    BY <2>1 DEF BatchLimit
  <2>3. /\ First(BatchLimit(steps), S) \subseteq S
        /\ Cardinality(First(BatchLimit(steps), S)) \in Nat
        /\ Cardinality(First(BatchLimit(steps), S)) <= BatchLimit(steps)
    BY <2>2, Zenon DEF Counted
  <2> QED
    BY <2>1, <2>2, <2>3
<1> SUFFICES ASSUME FlowAssumption, Counted, TInv, NEW p \in Process, runBatch(p)
             PROVE  /\ Private(p) /\ step[p].pc = "loop" /\ step'[p].pc = "exec"
                    /\ UNCHANGED <<controlVars, lease, effects>>
  OBVIOUS
<1> DEFINE ids == First(BatchLimit(step[p].run.steps), ready(At(p)))
           new == Started(p, ids)
           g == Marked(p, ids)
           run == [frames |-> Replaced(step[p].run.frames, g), steps |-> step[p].run.steps + Cardinality(ids)]
           batch == [n \in ids |-> ""]
<1>1. UNCHANGED <<controlVars, lease, effects, flow, row, approval, cancel, overtaken, clash>>
  BY Zenon DEF runBatch, memory, request
<1>2. step[p].pc = "loop" /\ Copying(p) /\ step[p].run.steps < MaxSteps /\ Loops(At(p)) = {}
  BY Zenon DEF runBatch, Work, Goes, AtLoop, Copying
<1>3. /\ GoodRun(def, step[p].run) /\ Formed(def, step[p].run.frames)
      /\ {"frames", "steps"} \subseteq DOMAIN step[p].run /\ step[p].run.steps \in 0 .. MaxSteps
  BY <1>2, CopyIsGood, Zenon
<1>4. DOMAIN step = Process /\ DOMAIN step[p] = {"pc", "run", "cancelled", "batch", "end"} /\ StepOK(def, step[p])
  BY StepRecord
<1>5. step' = [step EXCEPT ![p].pc = "exec", ![p].batch = batch, ![p].run = run]
  BY Zenon DEF runBatch, Mapped, Started, Marked
<1>6. /\ DOMAIN step' = Process /\ \A q \in Process \ {p} : step'[q] = step[q]
      /\ DOMAIN step'[p] = {"pc", "run", "cancelled", "batch", "end"}
      /\ step'[p].pc = "exec" /\ step'[p].run = run /\ step'[p].batch = batch
  <2> HIDE DEF run, batch
  <2> QED
    BY <1>4, <1>5
<1>7. ready(At(p)) \subseteq Node
  BY Zenon DEF ready, resolved
<1>8. ids \subseteq ready(At(p)) /\ step[p].run.steps + Cardinality(ids) \in 0 .. MaxSteps
  BY <1>2, <1>3, <1>7, <1>BatchSize, Zenon
<1>9. run.frames = Replaced(step[p].run.frames, g) /\ run.steps \in 0 .. MaxSteps /\ DOMAIN run = {"frames", "steps"}
  BY <1>8, Zenon
<1>10. DOMAIN batch = ids /\ \A n \in ids : batch[n] = ""
  OBVIOUS
<1> HIDE DEF ids, run, batch
<1>11. /\ NearFrame(def, At(p), g) /\ g.nodes = new /\ \A n \in ids : new[n].s = "running"
  BY <1>3, <1>8, <1>BatchMoves, Zenon
<1> HIDE DEF g, new
<1>12. Near(def, step[p].run.frames, run.frames)
  BY <1>3, <1>9, <1>11, PutNear, Zenon
<1>13. GoodRun(def, run)
  BY <1>3, <1>9, <1>12, NearIsFormed, Zenon DEF GoodRun
<1>14. Inner(run.frames) = g
  <2>1. g \in FrameSet(def)
    BY <1>11, Zenon DEF NearFrame
  <2>2. step[p].run.frames \in Seq(FrameSet(def)) /\ Len(step[p].run.frames) > 0
    BY <1>3, Zenon DEF Formed
  <2>3. Inner(Replaced(step[p].run.frames, g)) = g
    BY <2>1, <2>2, InnerReplaced, Zenon
  <2> QED
    BY <1>9, <2>3, SMTT(20)
<1>15. GoodBatch(def, run.frames, batch)
  <2>1. ASSUME NEW n \in ids
        PROVE  /\ n \in Node /\ def.kind[n] # "loop" /\ def.owner[n] = g.loop /\ g.nodes[n].s = "running"
    BY <1>2, <1>8, <1>11, Zenon DEF Loops, ready, resolved, NearFrame
  <2>2. ASSUME NEW n \in ids, NEW e \in def.edges, e.to = n
        PROVE  Entry(g, e) \/ terminal(g.nodes[e.from])
    <3>1. Entry(At(p), e) \/ terminal(At(p).nodes[e.from])
      BY <1>8, <2>2, Zenon DEF ready, resolved, Incoming
    <3>2. g.loop = At(p).loop
      BY <1>11, Zenon DEF NearFrame
    <3>3. e.from \in Node \/ e.from = Trigger
      BY Defined, Kinds, Zenon
    <3>4. CASE Entry(At(p), e)
      BY <3>2, <3>4, Zenon DEF Entry
    <3>5. CASE ~Entry(At(p), e)
      <4>1. e.from \in Nodes(def) /\ terminal(At(p).nodes[e.from])
        BY <3>1, <3>3, <3>5, SameNodes DEF Entry
      <4>2. g.nodes[e.from] = At(p).nodes[e.from]
        BY <1>11, <4>1, Zenon DEF NearFrame, Moved
      <4> QED
        BY <4>1, <4>2, Zenon
    <3> QED
      BY <3>4, <3>5
  <2>3. g = run.frames[Len(run.frames)]
    BY <1>14 DEF Inner
  <2> QED
    BY <1>10, <2>1, <2>2, <2>3, SameNodes, Zenon DEF GoodBatch, Results
<1>16. StepOK(def, step'[p])
  BY <1>6, <1>13, <1>15, SomeRun, Zenon DEF StepOK, StepPCs
<1> QED
  BY <1>1, <1>2, <1>6, <1>12, <1>16, Zenon DEF Private, Alone

LEMMA ExecIs ==
  \A p \in Process : \A n \in Node :
      /\ FlowAssumption
      /\ TInv
      /\ exec(p, n)
      => /\ Private(p) /\ step[p].pc = "exec" /\ step'[p].pc = "exec"
         /\ step'[p].run = step[p].run /\ DOMAIN step'[p].batch = DOMAIN step[p].batch
         /\ n \in DOMAIN step[p].batch /\ step[p].batch[n] = "" /\ step'[p].batch[n] # ""
         /\ \A m \in DOMAIN step[p].batch \ {n} : step'[p].batch[m] = step[p].batch[m]
         /\ UNCHANGED <<controlVars, lease>>
<1>OutcomeIs.
  ASSUME FlowAssumption, TInv, NEW n \in Node, def.kind[n] # "loop", NEW o \in Outcome(n)
  PROVE  /\ o \in Results /\ o # ""
         /\ def.kind[n] \in {"action", "destructive"} => o \in {"", "err", "ok", "limit"}
  <2> USE <1>OutcomeIs
  <2>1. def.kind[n] \in {"action", "destructive", "branch", "delay", "approval", "stop", "loop"}
    BY Defined, Kinds
  <2> QED
    BY <2>1, Zenon DEF Outcome, Results
<1>OutcomeKept.
  ASSUME NEW d, NEW fs, NEW b, NEW c, GoodBatch(d, fs, b), NEW n \in DOMAIN b, NEW o \in Results,
         d.kind[n] \in {"action", "destructive"} => o \in {"", "err", "ok", "limit"},
         DOMAIN c = DOMAIN b, c[n] = o, \A m \in DOMAIN b \ {n} : c[m] = b[m]
  PROVE  GoodBatch(d, fs, c)
  <2> USE <1>OutcomeKept
  <2>1. DOMAIN c \subseteq Nodes(d)
    BY Zenon DEF GoodBatch
  <2>2. ASSUME NEW m \in DOMAIN c
        PROVE  /\ c[m] \in Results /\ d.kind[m] \in {"action", "destructive"} => c[m] \in {"", "err", "ok", "limit"}
               /\ d.kind[m] # "loop" /\ d.owner[m] = fs[Len(fs)].loop /\ fs[Len(fs)].nodes[m].s = "running"
               /\ \A e \in d.edges : e.to = m => Entry(fs[Len(fs)], e) \/ terminal(fs[Len(fs)].nodes[e.from])
    <3>1. /\ d.kind[m] # "loop" /\ d.owner[m] = fs[Len(fs)].loop /\ fs[Len(fs)].nodes[m].s = "running"
          /\ \A e \in d.edges : e.to = m => Entry(fs[Len(fs)], e) \/ terminal(fs[Len(fs)].nodes[e.from])
      BY <2>2, Zenon DEF GoodBatch
    <3>2. b[m] \in Results /\ (d.kind[m] \in {"action", "destructive"} => b[m] \in {"", "err", "ok", "limit"})
      BY <2>2, Zenon DEF GoodBatch
    <3>3. c[m] = b[m] \/ (m = n /\ c[m] = o)
      BY <2>2, Zenon
    <3> QED
      BY <3>1, <3>2, <3>3, Zenon
  <2> QED
    BY <2>1, <2>2, Zenon DEF GoodBatch
<1> SUFFICES ASSUME FlowAssumption, TInv, NEW p \in Process, NEW n \in Node, exec(p, n)
             PROVE  /\ Private(p) /\ step[p].pc = "exec" /\ step'[p].pc = "exec"
                    /\ step'[p].run = step[p].run /\ DOMAIN step'[p].batch = DOMAIN step[p].batch
                    /\ n \in DOMAIN step[p].batch /\ step[p].batch[n] = "" /\ step'[p].batch[n] # ""
                    /\ \A m \in DOMAIN step[p].batch \ {n} : step'[p].batch[m] = step[p].batch[m]
                    /\ UNCHANGED <<controlVars, lease>>
  BY Zenon
<1>1. UNCHANGED <<controlVars, lease, flow, row, approval, cancel, overtaken, clash>>
  BY Zenon DEF exec, request
<1>2. /\ step[p].pc = "exec" /\ Copying(p) /\ n \in DOMAIN step[p].batch /\ step[p].batch[n] = ""
  BY Zenon DEF exec, Copying
<1>3. PICK o \in Outcome(n) : step' = [step EXCEPT ![p].batch[n] = o]
  BY Zenon DEF exec
<1>4. DOMAIN step = Process /\ DOMAIN step[p] = {"pc", "run", "cancelled", "batch", "end"} /\ StepOK(def, step[p])
  BY StepRecord, Zenon
<1>5. /\ DOMAIN step' = Process /\ \A q \in Process \ {p} : step'[q] = step[q]
      /\ DOMAIN step'[p] = {"pc", "run", "cancelled", "batch", "end"}
      /\ step'[p].pc = step[p].pc /\ step'[p].run = step[p].run
      /\ step'[p].batch = [step[p].batch EXCEPT ![n] = o]
  BY <1>3, <1>4
<1>6. GoodBatch(def, step[p].run.frames, step[p].batch)
  BY <1>2, <1>4, Zenon DEF StepOK
<1>7. def.kind[n] # "loop"
  BY <1>2, <1>6, Zenon DEF GoodBatch
<1>8. o \in Results /\ o # "" /\ (def.kind[n] \in {"action", "destructive"} => o \in {"", "err", "ok", "limit"})
  BY <1>7, <1>OutcomeIs, Zenon
<1>9. /\ DOMAIN step'[p].batch = DOMAIN step[p].batch /\ step'[p].batch[n] = o
      /\ \A m \in DOMAIN step[p].batch \ {n} : step'[p].batch[m] = step[p].batch[m]
  BY <1>2, <1>5, Zenon
<1>10. GoodBatch(def, step'[p].run.frames, step'[p].batch)
  BY <1>2, <1>5, <1>6, <1>8, <1>9, <1>OutcomeKept, Zenon
<1>11. StepOK(def, step'[p])
  BY <1>2, <1>4, <1>5, <1>10, Zenon DEF StepOK
<1>12. Near(def, step[p].run.frames, step'[p].run.frames)
  BY <1>2, <1>5, CopyIsGood, NearItself, Zenon
<1> QED
  BY <1>1, <1>2, <1>5, <1>8, <1>9, <1>11, <1>12, Zenon DEF Private, Alone

LEMMA ApplyIs ==
  ASSUME FlowAssumption, TInv, NEW p \in Process, Apply(p)
  PROVE  /\ ControlTypeOK' /\ UNCHANGED <<lease, effects>> /\ step[p].pc = "exec"
         /\ \/ Private(p) /\ step'[p].pc = "finish"
            \/ /\ Saves(p) /\ step'[p].pc = "loop"
               /\ row'.frames = Replaced(step[p].run.frames, Applied(p)) /\ Reached(p) = DOMAIN step[p].batch
            \/ Drops(p) /\ mishaps' > 0
<1> DEFINE fs == step[p].run.frames
           run == Put(p, Applied(p))
<1>1. /\ UNCHANGED <<proc, writer, flow, approval, cancel, lease, effects>>
      /\ step[p].pc = "exec" /\ \A n \in DOMAIN step[p].batch : step[p].batch[n] # ""
  BY Zenon DEF Apply, request, effects
<1>2. Copying(p)
  BY <1>1, Zenon DEF Copying
<1>3. /\ GoodRun(def, step[p].run) /\ Formed(def, fs)
      /\ {"frames", "steps"} \subseteq DOMAIN step[p].run /\ step[p].run.steps \in 0 .. MaxSteps
  BY <1>2, CopyIsGood, Zenon
<1>4. DOMAIN step = Process /\ DOMAIN step[p] = {"pc", "run", "cancelled", "batch", "end"} /\ StepOK(def, step[p])
  BY StepRecord, Zenon
<1>5. GoodBatch(def, fs, step[p].batch)
  BY <1>1, <1>4, Zenon DEF StepOK
<1>6. Near(def, fs, Replaced(fs, Applied(p)))
  BY <1>1, <1>3, <1>5, AppliedMoves, InnerMoves, Zenon
<1>7. /\ run.frames = Replaced(fs, Applied(p)) /\ run.steps = step[p].run.steps
      /\ {"frames", "steps"} \subseteq DOMAIN run
  BY <1>3 DEF Put
<1> HIDE DEF run
<1>8. GoodRun(def, run)
  BY <1>3, <1>6, <1>7, NearIsFormed, Zenon DEF GoodRun
<1>9. ASSUME NEW n \in Reached(p), NEW end \in Stops(p, n), UNCHANGED <<mishaps, row, overtaken, clash>>,
             step' = [step EXCEPT ![p].pc = "finish", ![p].end = end, ![p].run = run, ![p].batch = NoBatch]
      PROVE  ControlTypeOK' /\ Private(p) /\ step'[p].pc = "finish"
  <2>1. /\ DOMAIN step' = Process /\ \A q \in Process \ {p} : step'[q] = step[q]
        /\ DOMAIN step'[p] = {"pc", "run", "cancelled", "batch", "end"}
        /\ step'[p].pc = "finish" /\ step'[p].run = run /\ step'[p].end = end
    BY <1>4, <1>9, Zenon
  <2>2. Finished(end)
    BY <1>9 DEF Stops, Ends, Finished
  <2>3. StepOK(def, step'[p])
    BY <1>8, <2>1, <2>2, SomeRun, Zenon DEF StepOK, StepPCs
  <2>4. ControlTypeOK'
    BY <1>1, <1>9, ControlKept, Zenon DEF TInv
  <2>5. Near(def, fs, step'[p].run.frames)
    BY <1>6, <1>7, <2>1, Zenon
  <2> QED
    BY <1>1, <1>2, <1>9, <2>1, <2>3, <2>4, <2>5, Zenon DEF Private, Alone
<1>10. ASSUME \A n \in DOMAIN step[p].batch : Stops(p, n) = {}, Save(p, "running", run, "loop")
       PROVE  /\ ControlTypeOK'
              /\ \/ /\ Saves(p) /\ step'[p].pc = "loop"
                    /\ row'.frames = Replaced(fs, Applied(p)) /\ Reached(p) = DOMAIN step[p].batch
                 \/ Drops(p) /\ mishaps' > 0
  <2>1. "running" \in Statuses /\ "loop" \in After /\ Follows(def, fs, run.frames)
    BY <1>6, <1>7, Zenon DEF Statuses, Follows, After
  <2>2. /\ ControlTypeOK'
        /\ \/ Saves(p) /\ step'[p].pc = "loop" /\ step'[p].run = run /\ row'.status = "running"
           \/ Drops(p) /\ mishaps' > 0
    BY <1>1, <1>2, <1>8, <1>10, <2>1, SaveIs, Zenon
  <2>3. Saves(p) => row'.frames = step'[p].run.frames
    BY Zenon DEF Saves
  <2>4. Reached(p) = DOMAIN step[p].batch
    BY <1>10 DEF Reached
  <2> QED
    BY <1>7, <2>2, <2>3, <2>4, Zenon
<1>11. \/ /\ UNCHANGED <<mishaps, row, overtaken, clash>>
          /\ \E n \in Reached(p) : \E end \in Stops(p, n) :
               step' = [step EXCEPT ![p].pc = "finish", ![p].end = end, ![p].run = run, ![p].batch = NoBatch]
       \/ /\ \A n \in DOMAIN step[p].batch : Stops(p, n) = {}
          /\ Save(p, "running", run, "loop")
  BY Zenon DEF Apply, run
<1> QED
  BY <1>1, <1>9, <1>10, <1>11, Zenon

LEMMA FinishIs ==
  ASSUME TInv, NEW p \in Process, finish(p)
  PROVE  /\ ControlTypeOK' /\ UNCHANGED <<lease, effects>> /\ step[p].pc = "finish" /\ step'[p].pc = "hook"
         /\ \/ Saves(p) /\ Finished(row'.status)
            \/ Drops(p) /\ mishaps' > 0
<1>1. /\ UNCHANGED <<proc, writer, flow, approval, cancel, lease, effects>>
      /\ step[p].pc = "finish" /\ Goto(p, "hook")
  BY Zenon DEF finish, request
<1>2. Copying(p)
  BY <1>1, Zenon DEF Copying
<1>3. /\ GoodRun(def, step[p].run) /\ Formed(def, step[p].run.frames)
  BY <1>2, CopyIsGood
<1>4. DOMAIN step = Process /\ DOMAIN step[p] = {"pc", "run", "cancelled", "batch", "end"} /\ StepOK(def, step[p])
  BY StepRecord
<1>5. /\ DOMAIN step' = Process /\ \A q \in Process \ {p} : step'[q] = step[q]
      /\ DOMAIN step'[p] = {"pc", "run", "cancelled", "batch", "end"}
      /\ step'[p].pc = "hook" /\ step'[p].run = step[p].run
  BY <1>1, <1>4 DEF Goto
<1>6. StepOK(def, step'[p]) /\ Finished(step[p].end)
  BY <1>1, <1>4, <1>5, Zenon DEF StepOK, StepPCs
<1>7. CASE /\ UNCHANGED mishaps
           /\ Write(<<"step", p>>, [status |-> step[p].end, frames |-> step[p].run.frames, steps |-> step[p].run.steps])
  <2>1. /\ row'.status = step[p].end /\ row'.frames = step[p].run.frames /\ row'.steps = step[p].run.steps
        /\ DOMAIN row' = {"status", "frames", "steps"} /\ Write(<<"step", p>>, row')
    BY <1>7, Zenon DEF Write
  <2>2. RowOK(def, row')
    BY <1>3, <1>6, <2>1, Zenon DEF RowOK, GoodRun, Finished, Statuses
  <2>3. Follows(def, step[p].run.frames, row'.frames)
    BY <1>3, <2>1, NearItself, Zenon DEF Follows
  <2>4. Saves(p)
    BY <1>1, <1>2, <1>5, <1>6, <2>1, <2>2, <2>3, Zenon DEF Saves, Alone
  <2>5. ControlTypeOK'
    BY <1>1, <1>7, ControlKept, Zenon DEF TInv
  <2> QED
    BY <1>1, <1>5, <1>6, <2>1, <2>4, <2>5, Zenon
<1>8. CASE Mishap /\ UNCHANGED <<row, overtaken, clash>>
  <2>1. Drops(p)
    BY <1>1, <1>5, <1>6, <1>8, Zenon DEF Drops, Alone, Copying
  <2>2. ControlTypeOK' /\ mishaps' > 0
    BY <1>1, <1>8, ControlKept, Zenon DEF TInv
  <2> QED
    BY <1>1, <1>5, <2>1, <2>2, Zenon
<1> QED
  BY <1>7, <1>8, Zenon DEF finish

(* A claim that finds a run to step takes a copy of the row. *)
Takes(p) ==
  /\ Alone(p) /\ UNCHANGED <<row, clash>>
  /\ ~Copying(p) /\ step'[p].pc = "got" /\ step'[p].run.frames = row.frames
  /\ Steppable(row.status)
  /\ overtaken' = overtaken \ {<<"step", p>>}

LEMMA ClaimedIs ==
  ASSUME TInv, NEW p \in Process, Claimed(p)
  PROVE  /\ lease' \in Process \cup {Nobody} /\ UNCHANGED <<controlVars, effects>>
         /\ ~Copying(p) /\ (Takes(p) \/ Drops(p)) /\ step'[p].pc \in {"got", "release", "idle"}
<1>1. /\ UNCHANGED <<controlVars, flow, row, approval, cancel, effects, clash>>
      /\ step[p].pc = "listed"
  BY Zenon DEF Claimed, request
<1>2. DOMAIN step = Process /\ DOMAIN step[p] = {"pc", "run", "cancelled", "batch", "end"} /\ StepOK(def, step[p])
  BY StepRecord
<1>3. ~Copying(p)
  BY <1>1 DEF Copying
<1>4. lease' \in Process \cup {Nobody}
  BY DEF Claimed, Claim, TInv
<1>5. CASE /\ Steppable(row.status) /\ Read(<<"step", p>>)
           /\ step' = [step EXCEPT ![p].pc = "got", ![p].run = [frames |-> row.frames, steps |-> row.steps]]
  <2> DEFINE run == [frames |-> row.frames, steps |-> row.steps]
  <2>1. run.frames = row.frames /\ run.steps = row.steps /\ DOMAIN run = {"frames", "steps"}
    BY Zenon
  <2>2. GoodRun(def, run)
    BY <2>1, Zenon DEF TInv, RowOK, GoodRun
  <2>3. step' = [step EXCEPT ![p].pc = "got", ![p].run = run]
    BY <1>5
  <2> HIDE DEF run
  <2>4. /\ DOMAIN step' = Process /\ \A q \in Process \ {p} : step'[q] = step[q]
        /\ DOMAIN step'[p] = {"pc", "run", "cancelled", "batch", "end"}
        /\ step'[p].pc = "got" /\ step'[p].run = run
    BY <1>2, <2>3
  <2>5. StepOK(def, step'[p])
    BY <2>2, <2>4, SomeRun, Zenon DEF StepOK, StepPCs
  <2>6. Takes(p)
    BY <1>1, <1>3, <1>5, <2>1, <2>4, <2>5 DEF Takes, Alone, Read
  <2> QED
    BY <1>1, <1>3, <1>4, <2>4, <2>6, Zenon
<1>6. ASSUME NEW pc \in {"release", "idle"}, Goto(p, pc), Read(<<"step", p>>) \/ UNCHANGED overtaken
      PROVE  Drops(p) /\ step'[p].pc = pc
  <2>1. /\ DOMAIN step' = Process /\ \A q \in Process \ {p} : step'[q] = step[q]
        /\ DOMAIN step'[p] = {"pc", "run", "cancelled", "batch", "end"}
        /\ step'[p].pc = pc /\ step'[p].run = step[p].run
    BY <1>2, <1>6 DEF Goto
  <2>2. StepOK(def, step'[p])
    BY <1>2, <2>1, Zenon DEF StepOK, StepPCs
  <2>3. ~Copying(p)'
    BY <2>1, Zenon DEF Copying
  <2>4. \A op \in overtaken : op # <<"step", p>> => op \in overtaken'
    BY <1>6 DEF Read
  <2> QED
    BY <1>1, <2>1, <2>2, <2>3, <2>4, Zenon DEF Drops, Alone
<1>7. \/ /\ Steppable(row.status) /\ Read(<<"step", p>>)
         /\ step' = [step EXCEPT ![p].pc = "got", ![p].run = [frames |-> row.frames, steps |-> row.steps]]
      \/ Goto(p, "release") /\ Read(<<"step", p>>)
      \/ Goto(p, "idle") /\ UNCHANGED overtaken
  BY DEF Claimed
<1> QED
  BY <1>1, <1>3, <1>4, <1>5, <1>6, <1>7

-----------------------------------------------------------------------------
(* What the other calls, the processes and the clock do: they leave the row *)
(* and every copy alone or read the row anew, ...                           *)
LEMMA QuietMoves ==
  ASSUME TInv, PInv, UNCHANGED <<flow, row>>, ControlTypeOK', lease' \in Process \cup {Nobody},
         DOMAIN step' = Process, \A q \in Process : StepOK(def, step'[q]),
         \A q \in Process : Copying(q)' => /\ Copying(q) /\ step'[q].run = step[q].run
                                           /\ <<"step", q>> \in overtaken => <<"step", q>> \in overtaken',
         approval'.pc = "decide" =>
           \/ approval'.run = row
           \/ approval' = approval /\ (<<"approve", approval.by>> \in overtaken => <<"approve", approval.by>> \in overtaken'),
         cancel'.pc = "write" =>
           \/ cancel'.run = row
           \/ cancel' = cancel /\ (<<"cancel", cancel.by>> \in overtaken => <<"cancel", cancel.by>> \in overtaken')
  PROVE  TInv' /\ PInv' /\ ProgressStep
<1>1. def' = def /\ row' = row /\ flow' = flow
  BY SameDef, Zenon
<1>2. Near(def, row.frames, row.frames)
  BY NearItself, Zenon DEF TInv, RowOK, GoodRun
<1>3. TInv'
  BY <1>1, Zenon DEF TInv
<1>4. \A q \in Process : Copying(q)' /\ <<"step", q>> \notin overtaken' => Near(def, row.frames, step'[q].run.frames)
  BY Zenon DEF PInv
<1>5. approval'.pc = "decide" /\ <<"approve", approval'.by>> \notin overtaken' => Near(def, row.frames, approval'.run.frames)
  BY <1>2, Zenon DEF PInv
<1>6. cancel'.pc = "write" /\ <<"cancel", cancel'.by>> \notin overtaken' => Near(def, row.frames, cancel'.run.frames)
  BY <1>2, Zenon DEF PInv
<1>7. PInv'
  BY <1>1, <1>4, <1>5, <1>6, Zenon DEF PInv
<1> QED
  BY <1>1, <1>3, <1>7, RowStays, Zenon

(* ... or they write the row, which outdates the steppers' copies. *)
LEMMA OutsideWrite ==
  ASSUME LInv, TInv, PInv, NEW op, NEW new, Write(op, new), RowOK(def, new),
         UNCHANGED <<flow, step, controlVars, lease>>,
         \A q \in Process : op # <<"step", q>>,
         approval'.pc = "decide" => approval' = approval /\ op # <<"approve", approval.by>>,
         cancel'.pc = "write" => cancel' = cancel /\ op # <<"cancel", cancel.by>>,
         ~clash' => Near(def, row.frames, new.frames)
  PROVE  TInv' /\ PInv' /\ ProgressStep
<1>1. def' = def /\ row' = new
  BY SameDef, Zenon DEF Write
<1>2. ControlTypeOK'
  BY Zenon DEF TInv, ControlTypeOK, controlVars
<1>3. TInv'
  BY <1>1, <1>2, Zenon DEF TInv
<1>4. /\ \A q \in Process : Copying(q) /\ <<"step", q>> # op => <<"step", q>> \in overtaken'
      /\ approval.pc = "decide" /\ <<"approve", approval.by>> # op => <<"approve", approval.by>> \in overtaken'
      /\ cancel.pc = "write" /\ <<"cancel", cancel.by>> # op => <<"cancel", cancel.by>> \in overtaken'
  BY WriteOutdates, Zenon DEF LInv
<1>5. \A q \in Process : Copying(q)' => <<"step", q>> \in overtaken'
  BY <1>4 DEF Copying
<1>6. PInv'
  BY <1>4, <1>5, Zenon DEF PInv
<1>7. ASSUME ~clash' PROVE Kept(row.frames, new.frames)
  <2>1. Follows(def, row.frames, new.frames)
    BY <1>7 DEF Follows
  <2>2. Formed(def, row.frames)
    BY Zenon DEF TInv, RowOK, GoodRun
  <2> QED
    BY <2>1, <2>2, FollowsKeeps, Zenon
<1> QED
  BY <1>1, <1>3, <1>6, <1>7 DEF ProgressStep

LEMMA DecideMoves ==
  ASSUME LInv, TInv, PInv, Decide, UNCHANGED mishaps
  PROVE  TInv' /\ PInv' /\ ProgressStep /\ Near(def, approval.run.frames, row'.frames)
(* An approval decided. *)
<1>DecidedMoves.
  ASSUME NEW fs, Formed(def, fs), NEW n \in Asking(Inner(fs)), NEW port \in {"approved", "rejected"}
  PROVE  Near(def, fs, decided(fs, n, port))
  <2> USE <1>DecidedMoves
  <2> DEFINE f == Inner(fs)
             ns == [f.nodes[n] EXCEPT !.s = "succeeded", !.port = port]
             new == [f.nodes EXCEPT ![n] = ns]
  <2>1. f \in FrameSet(def) /\ \A m \in Node : Tame(def, m, f.nodes[m])
    BY InnerFrame, SameNodes, Zenon
  <2>2. n \in Node /\ f.nodes[n].s = "approval"
    BY DEF Asking
  <2>3. decided(fs, n, port) = Replaced(fs, [f EXCEPT !.nodes = new])
    BY DEF decided
  <2> HIDE DEF f
  <2>4. "succeeded" \in States /\ port \in Ports /\ f.nodes[n] \in NodeStates /\ f.nodes \in [Node -> NodeStates]
    BY <2>1, <2>2, SameNodes, Zenon DEF States, Ports, FrameSet
  <2>5. ns \in NodeStates /\ ns.s = "succeeded"
    BY <2>4, EndState, Zenon
  <2> HIDE DEF ns
  <2>6. new \in [Node -> NodeStates] /\ new[n] = ns /\ \A m \in Node \ {n} : new[m] = f.nodes[m]
    BY <2>2, <2>4, <2>5
  <2> HIDE DEF new
  <2>7. Moved(def, n, f.nodes[n], new[n])
    BY <2>2, <2>5, <2>6, Zenon DEF Moved, Tame, terminal
  <2>8. \A m \in Node : Moved(def, m, f.nodes[m], new[m])
    <3>1. \A m \in Node \ {n} : Moved(def, m, f.nodes[m], new[m])
      BY <2>1, <2>6 DEF Moved
    <3> QED
      BY <2>7, <3>1, Zenon
  <2>9. NearFrame(def, f, [f EXCEPT !.nodes = new])
    BY <2>1, <2>6, <2>8, NodesMove
  <2>10. Near(def, fs, Replaced(fs, [f EXCEPT !.nodes = new]))
    BY <2>9, InnerMoves, SMTT(20) DEF f
  <2> QED
    BY <2>3, <2>10
<1> DEFINE op == <<"approve", approval.by>>
           fs == approval.run.frames
<1>1. /\ UNCHANGED <<controlVars, flow, lease, step, cancel>>
      /\ approval.pc = "decide" /\ approval'.pc = "release"
  BY DEF Decide, request, controlVars, LInv, Shape
<1>2. PICK n \in Asking(Inner(fs)), port \in {"approved", "rejected"} :
        Write(op, [approval.run EXCEPT !.status = "pending", !.frames = decided(@, n, port)])
  <2>1. ~Mishap
    BY DEF Mishap, TInv, ControlTypeOK
  <2> QED
    BY <2>1, Zenon DEF Decide
<1> DEFINE new == [approval.run EXCEPT !.status = "pending", !.frames = decided(@, n, port)]
<1>3. RowOK(def, approval.run) /\ Formed(def, fs) /\ DOMAIN approval.run = {"status", "frames", "steps"}
  BY <1>1, Zenon DEF TInv, RowOK, GoodRun
<1>4. Near(def, fs, decided(fs, n, port))
  BY <1>3, <1>DecidedMoves, Zenon
<1>5. /\ new.status = "pending" /\ new.frames = decided(fs, n, port) /\ new.steps = approval.run.steps
      /\ DOMAIN new = {"status", "frames", "steps"}
  BY <1>3
<1> HIDE DEF new
<1>6. Formed(def, new.frames)
  BY <1>3, <1>4, <1>5, NearIsFormed, Zenon
<1>7. RowOK(def, new)
  BY <1>3, <1>5, <1>6, Zenon DEF RowOK, GoodRun, Statuses
<1>8. Write(op, new)
  BY <1>2, Zenon DEF new
<1>9. ASSUME ~clash' PROVE Near(def, row.frames, new.frames)
  <2>1. op \notin overtaken
    BY <1>8, <1>9, Zenon DEF Write
  <2>2. Near(def, row.frames, fs)
    BY <1>1, <2>1, Zenon DEF PInv
  <2> QED
    BY <1>4, <1>5, <2>2, NearTwice, SMTT(30)
<1>10. /\ \A q \in Process : op # <<"step", q>>
       /\ approval'.pc = "decide" => approval' = approval /\ op # <<"approve", approval.by>>
       /\ cancel'.pc = "write" => cancel' = cancel /\ op # <<"cancel", cancel.by>>
  BY <1>1
<1>11. row' = new
  BY <1>8, Zenon DEF Write
<1> HIDE DEF op
<1>12. TInv' /\ PInv' /\ ProgressStep
  BY <1>1, <1>7, <1>8, <1>9, <1>10, OutsideWrite, Zenon
<1> QED
  BY <1>4, <1>5, <1>11, <1>12, Zenon

LEMMA CancelWriteMoves ==
  ASSUME LInv, TInv, PInv, CancelWrite, UNCHANGED mishaps
  PROVE  TInv' /\ PInv' /\ ProgressStep /\ row'.status = "cancelled"
<1> DEFINE op == <<"cancel", cancel.by>>
           fs == cancel.run.frames
           new == [cancel.run EXCEPT !.status = "cancelled", !.frames = markCancelled(@)]
<1>1. /\ UNCHANGED <<controlVars, flow, lease, step, approval>>
      /\ cancel.pc = "write" /\ cancel'.pc = "release" /\ Write(op, new)
  <2>1. ~Mishap
    BY DEF Mishap, TInv, ControlTypeOK
  <2>2. Write(op, new)
    BY <2>1, Zenon DEF CancelWrite
  <2> QED
    BY <2>2 DEF CancelWrite, request, controlVars, LInv, Shape
<1>2. RowOK(def, cancel.run) /\ Formed(def, fs) /\ DOMAIN cancel.run = {"status", "frames", "steps"}
  BY <1>1 DEF TInv, RowOK, GoodRun
<1>3. Near(def, fs, markCancelled(fs))
  BY <1>2, CancelledMoves, Zenon
<1>4. /\ new.status = "cancelled" /\ new.frames = markCancelled(fs) /\ new.steps = cancel.run.steps
      /\ DOMAIN new = {"status", "frames", "steps"}
  BY <1>2
<1> HIDE DEF new
<1>5. Formed(def, new.frames)
  BY <1>2, <1>3, <1>4, NearIsFormed, Zenon
<1>6. RowOK(def, new)
  BY <1>2, <1>4, <1>5, Zenon DEF RowOK, GoodRun, Statuses
<1>7. ASSUME ~clash' PROVE Near(def, row.frames, new.frames)
  <2>1. op \notin overtaken
    BY <1>1, <1>7, Zenon DEF Write
  <2>2. Near(def, row.frames, fs)
    BY <1>1, <2>1, Zenon DEF PInv
  <2> QED
    BY <1>3, <1>4, <2>2, NearTwice
<1>8. /\ \A q \in Process : op # <<"step", q>>
      /\ approval'.pc = "decide" => approval' = approval /\ op # <<"approve", approval.by>>
      /\ cancel'.pc = "write" => cancel' = cancel /\ op # <<"cancel", cancel.by>>
  BY <1>1
<1>9. row' = new
  BY <1>1, Zenon DEF Write
<1> HIDE DEF op
<1>10. TInv' /\ PInv' /\ ProgressStep
  BY <1>1, <1>6, <1>7, <1>8, OutsideWrite
<1> QED
  BY <1>4, <1>9, <1>10

(* The database refuses the update of a decision or of a cancel. *)
LEMMA RefusedMoves ==
  ASSUME LInv, TInv, PInv, Decide \/ CancelWrite, ~UNCHANGED mishaps
  PROVE  /\ TInv' /\ PInv' /\ ProgressStep
         /\ Mishap /\ UNCHANGED <<flow, row, step, overtaken, clash, effects>>
<1>1. /\ Mishap /\ UNCHANGED <<proc, writer, flow, row, step, overtaken, clash, effects, lease>>
      /\ approval' = approval \/ approval'.pc = "release"
      /\ cancel' = cancel \/ cancel'.pc = "release"
  BY Zenon DEF Decide, CancelWrite, request, LInv, Shape
<1>2. ControlTypeOK' /\ lease' \in Process \cup {Nobody}
  BY <1>1, ControlKept, Zenon DEF TInv
<1>3. DOMAIN step' = Process /\ \A q \in Process : StepOK(def, step'[q])
  BY <1>1, Zenon DEF TInv
<1>4. \A q \in Process : Copying(q)' => /\ Copying(q) /\ step'[q].run = step[q].run
                                        /\ <<"step", q>> \in overtaken => <<"step", q>> \in overtaken'
  BY <1>1, Zenon DEF Copying
<1>5. TInv' /\ PInv' /\ ProgressStep
  BY <1>1, <1>2, <1>3, <1>4, QuietMoves, Zenon
<1> QED
  BY <1>1, <1>5, Zenon

(* A promotion. *)
LEMMA PromoteMoves ==
  ASSUME FlowAssumption, LInv, TInv, PInv, QInv, NEW p \in Process, promote(p)
  PROVE  /\ TInv' /\ PInv' /\ ProgressStep
         /\ UNCHANGED <<controlVars, flow, step, effects, cancel, approval>>
         /\ \/ UNCHANGED <<row, overtaken, clash>>
            \/ /\ ~clash' => row'.frames = row.frames /\ row.status = "queued"
               /\ row'.status = "pending"
               /\ \A q \in Process : Copying(q) => <<"step", q>> \in overtaken'
<1>1. UNCHANGED <<controlVars, flow, lease, step, approval, cancel, effects>>
  BY Zenon DEF promote
<1>2. ControlTypeOK' /\ lease' \in Process \cup {Nobody} /\ def' = def
  BY <1>1, SameDef, Zenon DEF TInv, ControlTypeOK, controlVars
<1>3. DOMAIN step' = Process /\ \A q \in Process : StepOK(def, step'[q])
  BY <1>1, Zenon DEF TInv
<1>4. CASE UNCHANGED <<row, overtaken, clash>>
  <2>1. \A q \in Process : Copying(q)' => /\ Copying(q) /\ step'[q].run = step[q].run
                                          /\ <<"step", q>> \in overtaken => <<"step", q>> \in overtaken'
    BY <1>1, <1>4, Zenon DEF Copying
  <2>2. TInv' /\ PInv' /\ ProgressStep
    BY <1>1, <1>2, <1>3, <1>4, <2>1, QuietMoves, Zenon
  <2> QED
    BY <1>1, <1>4, <2>2, Zenon
<1>5. CASE /\ row' = Created("pending") /\ overtaken' = overtaken \cup HasCopy
           /\ clash' = (clash \/ row.status # "queued")
  <2>1. RowOK(def, row') /\ row'.status = "pending" /\ row'.frames = <<Frame(Top, 0)>>
    BY <1>5, CreatedIsFormed, Zenon
  <2>2. TInv'
    BY <1>1, <1>2, <1>3, <2>1, Zenon DEF TInv
  <2>3. \A q \in Process : Copying(q) => <<"step", q>> \in overtaken'
    BY <1>5, Copies, Zenon DEF LInv
  <2>4. /\ approval.pc = "decide" => <<"approve", approval.by>> \in overtaken'
        /\ cancel.pc = "write" => <<"cancel", cancel.by>> \in overtaken'
    BY <1>5, Copies, Zenon DEF LInv, Shape
  <2>5. PInv'
    BY <1>1, <2>3, <2>4, Zenon DEF PInv, Copying
  <2>6. ~clash' => row'.frames = row.frames /\ row.status = "queued"
    BY <1>5, <2>1, Zenon DEF QInv
  <2>7. ProgressStep
    BY <2>6 DEF ProgressStep, Kept
  <2> QED
    BY <1>1, <2>1, <2>2, <2>3, <2>5, <2>6, <2>7, Zenon
<1> QED
  BY <1>4, <1>5, Zenon DEF promote

LEMMA RequestCancelMoves ==
  ASSUME LInv, TInv, PInv, RequestCancel
  PROVE  /\ TInv' /\ PInv' /\ ProgressStep
         /\ \A q \in Process : /\ step'[q].pc = step[q].pc /\ step'[q].run = step[q].run
                               /\ step'[q].batch = step[q].batch
<1>1. /\ UNCHANGED <<controlVars, flow, row, lease, approval, overtaken>> /\ cancel.by \in Process
      /\ step' = [step EXCEPT ![cancel.by].cancelled = TRUE] /\ cancel'.pc = "idle"
  BY SMTT(20) DEF RequestCancel, request, NoCall, LInv, Shape
<1>2. ControlTypeOK' /\ lease' \in Process \cup {Nobody}
  BY <1>1 DEF TInv, ControlTypeOK, controlVars
<1>3. DOMAIN step' = Process
  BY <1>1 DEF TInv
<1>4. ASSUME NEW q \in Process
      PROVE  /\ DOMAIN step'[q] = {"pc", "run", "cancelled", "batch", "end"}
             /\ step'[q].pc = step[q].pc /\ step'[q].run = step[q].run
             /\ step'[q].batch = step[q].batch /\ step'[q].end = step[q].end
  <2>1. DOMAIN step = Process /\ DOMAIN step[q] = {"pc", "run", "cancelled", "batch", "end"}
    BY StepRecord
  <2> QED
    BY <1>1, <2>1, Zenon
<1>5. \A q \in Process : StepOK(def, step'[q])
  <2>1. \A q \in Process : StepOK(def, step[q])
    BY SMTT(20) DEF TInv
  <2> QED
    BY <1>4, <2>1, Zenon DEF StepOK
<1>6. \A q \in Process : Copying(q)' => /\ Copying(q) /\ step'[q].run = step[q].run
                                        /\ <<"step", q>> \in overtaken => <<"step", q>> \in overtaken'
  BY <1>1, <1>4 DEF Copying
<1>7. TInv' /\ PInv' /\ ProgressStep
  BY <1>1, <1>2, <1>3, <1>5, <1>6, QuietMoves, Zenon
<1> QED
  BY <1>4, <1>7, Zenon

LEMMA NextMovesOn ==
  ASSUME FlowAssumption, Counted, LInv, TInv, PInv, QInv, [Next]_vars
  PROVE  TInv' /\ PInv' /\ ProgressStep
<1>ApproveMoves.
  ASSUME TInv, PInv, NEW p \in Process, Approve(p)
  PROVE  TInv' /\ PInv' /\ ProgressStep
  <2> USE <1>ApproveMoves
  <2>1. /\ UNCHANGED <<controlVars, flow, row, step, cancel>> /\ lease' = p
        /\ overtaken' = overtaken \ {<<"approve", p>>} /\ approval'.run = row
    BY SMTT(20) DEF Approve, Read, Claim
  <2>2. ControlTypeOK' /\ lease' \in Process \cup {Nobody}
    BY <2>1, Zenon DEF TInv, ControlTypeOK, controlVars
  <2>3. DOMAIN step' = Process /\ \A q \in Process : StepOK(def, step'[q])
    BY <2>1, Zenon DEF TInv
  <2>4. \A q \in Process : Copying(q)' => /\ Copying(q) /\ step'[q].run = step[q].run
                                          /\ <<"step", q>> \in overtaken => <<"step", q>> \in overtaken'
    BY <2>1, Zenon DEF Copying
  <2>5. cancel' = cancel /\ (<<"cancel", cancel.by>> \in overtaken => <<"cancel", cancel.by>> \in overtaken')
    BY <2>1, Zenon
  <2> QED
    BY <2>1, <2>2, <2>3, <2>4, <2>5, QuietMoves, Zenon
<1>ControlMoves.
  ASSUME ControlTypeOK, ControlStep \/ \E p \in Process : Crash(p) \/ Exit(p)
  PROVE  ControlTypeOK'
  <2> USE <1>ControlMoves
  <2>1. ASSUME NEW p \in Process, Boot(p) \/ Renew(p) \/ Promote(p)
        PROVE  ControlTypeOK'
    <3>1. writer' \in [holder: Process \cup {Nobody}, live: BOOLEAN, fenced: BOOLEAN] /\ mishaps' = mishaps
      <4>1. writer' = [holder |-> p, live |-> TRUE, fenced |-> FALSE] /\ mishaps' = mishaps
        BY <2>1, Zenon DEF Boot, Renew, Promote, AcquireLease
      <4> QED
        BY <4>1, Zenon
    <3>2. proc' = proc \/ proc' = [proc EXCEPT ![p] = "up"]
      BY <2>1, Zenon DEF Boot, Renew, Promote
    <3>3. proc' \in [Process -> {"new", "up", "stopping", "paused", "down"}]
      BY <3>2 DEF ControlTypeOK
    <3> QED
      BY <3>1, <3>3, Zenon DEF ControlTypeOK
  <2>2. ASSUME NEW p \in Process, Shutdown(p) \/ Pause(p) \/ Resume(p) \/ Crash(p)
        PROVE  ControlTypeOK'
    <3>1. mishaps' \in 0 .. MaxMishaps /\ writer' = writer
      <4>1. writer' = writer /\ (Mishap \/ mishaps' = mishaps)
        BY <2>2, Zenon DEF Shutdown, Pause, Resume, Crash
      <4>2. mishaps \in 0 .. MaxMishaps
        BY Zenon DEF ControlTypeOK
      <4> QED
        BY <4>1, <4>2, ProcessAssumption DEF Mishap
    <3>2. proc' \in [Process -> {"new", "up", "stopping", "paused", "down"}]
      BY <2>2, Zenon DEF ControlTypeOK, Shutdown, Pause, Resume, Crash
    <3> QED
      BY <3>1, <3>2, Zenon DEF ControlTypeOK
  <2>3. ASSUME NEW p \in Process, Exit(p)
        PROVE  ControlTypeOK'
    BY <2>3 DEF ControlTypeOK, Exit
  <2>4. CASE LeaseRunsOut
    BY <2>4, Zenon DEF ControlTypeOK, LeaseRunsOut
  <2>5. CASE Fence
    <3>1. mishaps' \in 0 .. MaxMishaps /\ proc' = proc
      BY <2>5, ProcessAssumption DEF ControlTypeOK, Fence, Mishap
    <3>2. writer' \in [holder: Process \cup {Nobody}, live: BOOLEAN, fenced: BOOLEAN]
      BY <2>5, Zenon DEF ControlTypeOK, Fence
    <3> QED
      BY <3>1, <3>2 DEF ControlTypeOK
  <2> QED
    BY <2>1, <2>2, <2>3, <2>4, <2>5 DEF ControlStep
<1>CallsMove.
  ASSUME LInv, TInv, PInv, ApproveDone \/ (\E p \in Process : Cancel(p)) \/ CancelClaim \/ CancelDone
  PROVE  TInv' /\ PInv' /\ ProgressStep
  <2> USE <1>CallsMove
  <2>1. UNCHANGED <<controlVars, flow, row, step>>
    BY DEF ApproveDone, Cancel, CancelClaim, CancelDone, request
  <2>2. ControlTypeOK'
    BY <2>1, Zenon DEF TInv, ControlTypeOK, controlVars
  <2>3. lease' \in Process \cup {Nobody}
    BY Zenon DEF ApproveDone, Cancel, CancelClaim, CancelDone, ReleaseRun, Claim, TInv, LInv, Shape
  <2>4. /\ \A q \in Process : <<"step", q>> \in overtaken => <<"step", q>> \in overtaken'
        /\ approval'.pc = "decide" =>
             approval' = approval /\ (<<"approve", approval.by>> \in overtaken => <<"approve", approval.by>> \in overtaken')
        /\ cancel'.pc = "write" =>
             \/ cancel'.run = row
             \/ cancel' = cancel /\ (<<"cancel", cancel.by>> \in overtaken => <<"cancel", cancel.by>> \in overtaken')
    <3>1. CASE ApproveDone
      BY <3>1, Zenon DEF ApproveDone, Read, NoCall
    <3>2. CASE \E p \in Process : Cancel(p)
      BY <3>2 DEF Cancel
    <3>3. CASE CancelClaim
      <4>1. /\ cancel' = [cancel EXCEPT !.pc = "write", !.run = row] \/ cancel' = NoCall
            /\ approval' = approval
            /\ overtaken' = overtaken \ {<<"cancel", cancel.by>>} \/ overtaken' = overtaken
        BY <3>3, Zenon DEF CancelClaim, Read
      <4>2. {"pc", "by", "run"} \subseteq DOMAIN cancel /\ NoCall.pc = "idle"
        BY Zenon DEF NoCall, LInv, Shape
      <4>3. "run" \in DOMAIN cancel
        BY <4>2
      <4>4. [cancel EXCEPT !.pc = "write", !.run = row].run = row
        BY <4>3
      <4>5. cancel'.pc = "write" => cancel'.run = row
        BY <4>1, <4>2, <4>4, Zenon
      <4>6. /\ \A q \in Process : <<"step", q>> \in overtaken => <<"step", q>> \in overtaken'
            /\ <<"approve", approval.by>> \in overtaken => <<"approve", approval.by>> \in overtaken'
        BY <4>1, Zenon
      <4> QED
        BY <4>1, <4>5, <4>6, Zenon
    <3>4. CASE CancelDone
      BY <3>4, SMTT(20) DEF CancelDone, Read, NoCall
    <3> QED
      BY <3>1, <3>2, <3>3, <3>4, Zenon
  <2>5. DOMAIN step' = Process /\ \A q \in Process : StepOK(def, step'[q])
    BY <2>1, Zenon DEF TInv
  <2>6. \A q \in Process : Copying(q)' => /\ Copying(q) /\ step'[q].run = step[q].run
                                          /\ <<"step", q>> \in overtaken => <<"step", q>> \in overtaken'
    BY <2>1, <2>4, Zenon DEF Copying
  <2> QED
    BY <2>1, <2>2, <2>3, <2>4, <2>5, <2>6, QuietMoves, Zenon
<1>ElsewhereMoves.
  ASSUME TInv, PInv, UNCHANGED <<flow, row, step, approval, cancel, overtaken>>, ControlTypeOK',
         lease' \in Process \cup {Nobody}
  PROVE  TInv' /\ PInv' /\ ProgressStep
  <2> USE <1>ElsewhereMoves
  <2>1. DOMAIN step' = Process /\ \A q \in Process : StepOK(def, step'[q])
    BY Zenon DEF TInv
  <2>2. \A q \in Process : Copying(q)' => /\ Copying(q) /\ step'[q].run = step[q].run
                                          /\ <<"step", q>> \in overtaken => <<"step", q>> \in overtaken'
    BY Zenon DEF Copying
  <2> QED
    BY <2>1, <2>2, QuietMoves, Zenon
<1>GoneMoves.
  ASSUME LInv, TInv, PInv, NEW p \in Process, Gone(p)
  PROVE  TInv' /\ PInv' /\ ProgressStep
  <2> USE <1>GoneMoves
  <2>1. /\ UNCHANGED <<flow, row, lease>> /\ step' = [step EXCEPT ![p] = Idle]
        /\ approval' = IF approval.by = p THEN NoCall ELSE approval
        /\ cancel' = IF cancel.by = p THEN NoCall ELSE cancel
        /\ overtaken' = {op \in overtaken : op[2] # p}
    BY Zenon DEF Gone, request
  <2>2. ControlTypeOK'
    BY <1>ControlMoves, Zenon DEF Gone, TInv
  <2>3. /\ DOMAIN step' = Process /\ \A q \in Process \ {p} : step'[q] = step[q]
        /\ step'[p] = Idle
    BY <2>1, Zenon DEF TInv
  <2>4. \A q \in Process : StepOK(def, step'[q])
    BY <2>3, IdleIsOK, Zenon DEF TInv
  <2>5. \A q \in Process : q # p /\ <<"step", q>> \in overtaken => <<"step", q>> \in overtaken'
    BY <2>1, Zenon
  <2>6. \A q \in Process : Copying(q)' => q # p
    BY <2>3, IdleIsOK, SMTT(20) DEF Copying
  <2>7. \A q \in Process : Copying(q)' => /\ Copying(q) /\ step'[q].run = step[q].run
                                          /\ <<"step", q>> \in overtaken => <<"step", q>> \in overtaken'
    BY <2>3, <2>5, <2>6, Zenon DEF Copying
  <2>8. NoCall.pc = "idle"
    BY SMTT(20) DEF NoCall
  <2>9. approval'.pc = "decide" =>
          approval' = approval /\ (<<"approve", approval.by>> \in overtaken => <<"approve", approval.by>> \in overtaken')
    BY <2>1, <2>8, Zenon
  <2>10. cancel'.pc = "write" =>
          cancel' = cancel /\ (<<"cancel", cancel.by>> \in overtaken => <<"cancel", cancel.by>> \in overtaken')
    BY <2>1, <2>8
  <2>11. lease' \in Process \cup {Nobody}
    BY <2>1, Zenon DEF TInv
  <2> QED
    BY <2>1, <2>2, <2>3, <2>4, <2>7, <2>9, <2>10, <2>11, QuietMoves
<1>StepRunMoves.
  \A p \in Process :
      /\ FlowAssumption
      /\ Counted
      /\ LInv
      /\ TInv
      /\ PInv
      /\ StepRun(p)
      => TInv' /\ PInv' /\ ProgressStep
  <2>AloneTypes.
    ASSUME TInv, NEW p \in Process, Alone(p), ControlTypeOK', lease' \in Process \cup {Nobody},
           RowOK(def, row')
    PROVE  TInv'
    <3> USE <2>AloneTypes
    <3>1. def' = def /\ flow' = flow
      BY SameDef, Zenon DEF Alone
    <3>2. \A q \in Process : StepOK(def, step'[q])
      BY Zenon DEF Alone, TInv
    <3> QED
      BY <3>1, <3>2, Zenon DEF TInv, Alone
  <2>PrivateKeeps.
    ASSUME TInv, PInv, NEW p \in Process, Private(p), ControlTypeOK', lease' \in Process \cup {Nobody}
    PROVE  TInv' /\ PInv' /\ ProgressStep
    <3> USE <2>PrivateKeeps
    <3>1. def' = def /\ row' = row /\ approval' = approval /\ cancel' = cancel /\ overtaken' = overtaken
      BY SameDef, Zenon DEF Private, Alone
    <3>2. TInv'
      BY <3>1, <2>AloneTypes, Zenon DEF Private, TInv
    <3>3. ASSUME NEW q \in Process, Copying(q)', <<"step", q>> \notin overtaken
          PROVE  Near(def, row.frames, step'[q].run.frames)
      <4>1. CASE q = p
        <5>1. Near(def, row.frames, step[p].run.frames)
          BY <3>3, <4>1, Zenon DEF PInv, Private
        <5>2. Near(def, step[p].run.frames, step'[p].run.frames)
          BY Zenon DEF Private
        <5> QED
          BY <4>1, <5>1, <5>2, NearTwice, Zenon
      <4>2. CASE q # p
        <5>1. step'[q] = step[q]
          BY <4>2, Zenon DEF Private, Alone
        <5> QED
          BY <3>3, <5>1, Zenon DEF PInv, Copying
      <4> QED
        BY <4>1, <4>2, Zenon
    <3>4. PInv'
      BY <3>1, <3>3, Zenon DEF PInv
    <3> QED
      BY <3>1, <3>2, <3>4, RowStays
  <2>DropsKeeps.
    ASSUME TInv, PInv, NEW p \in Process, Drops(p), ControlTypeOK', lease' \in Process \cup {Nobody}
    PROVE  TInv' /\ PInv' /\ ProgressStep
    <3> USE <2>DropsKeeps
    <3>1. def' = def /\ row' = row /\ approval' = approval /\ cancel' = cancel
      BY SameDef, Zenon DEF Drops, Alone
    <3>2. TInv'
      BY <3>1, <2>AloneTypes, Zenon DEF Drops, TInv
    <3>3. ASSUME NEW q \in Process, Copying(q)', <<"step", q>> \notin overtaken'
          PROVE  Near(def, row.frames, step'[q].run.frames)
      <4>1. q # p /\ step'[q] = step[q]
        BY <3>3, Zenon DEF Drops, Alone
      <4>2. <<"step", q>> \notin overtaken
        BY <3>3, <4>1, Zenon DEF Drops
      <4> QED
        BY <3>3, <4>1, <4>2, Zenon DEF PInv, Copying
    <3>4. /\ \A q : <<"approve", q>> \in overtaken => <<"approve", q>> \in overtaken'
          /\ \A q : <<"cancel", q>> \in overtaken => <<"cancel", q>> \in overtaken'
      BY DEF Drops
    <3>5. PInv'
      BY <3>1, <3>3, <3>4, Zenon DEF PInv
    <3> QED
      BY <3>1, <3>2, <3>5, RowStays
  <2>SavesKeeps.
    \A p \in Process :
        /\ LInv
        /\ TInv
        /\ PInv
        /\ Saves(p)
        /\ ControlTypeOK'
        /\ lease' \in Process \cup {Nobody}
        => TInv' /\ PInv' /\ ProgressStep
    <3>NearThenFollows.
      ASSUME NEW d, NEW fs, NEW gs, NEW hs, Near(d, fs, gs), Follows(d, gs, hs)
      PROVE  Follows(d, fs, hs)
      BY <3>NearThenFollows, NearTwice, Zenon DEF Follows
    <3> SUFFICES ASSUME LInv, TInv, PInv, NEW p \in Process, Saves(p), ControlTypeOK', lease' \in Process \cup {Nobody}
                 PROVE  TInv' /\ PInv' /\ ProgressStep
      OBVIOUS
    <3>1. def' = def /\ approval' = approval /\ cancel' = cancel
      BY SameDef, Zenon DEF Saves, Alone
    <3>2. TInv'
      BY <2>AloneTypes, Zenon DEF Saves
    <3>3. /\ \A q \in Process : Copying(q) /\ <<"step", q>> # <<"step", p>> => <<"step", q>> \in overtaken'
          /\ approval.pc = "decide" => <<"approve", approval.by>> \in overtaken'
          /\ cancel.pc = "write" => <<"cancel", cancel.by>> \in overtaken'
          /\ ~clash' => <<"step", p>> \notin overtaken
      <4>1. Write(<<"step", p>>, row') /\ Shape
        BY Zenon DEF Saves, LInv
      <4>2. <<"approve", approval.by>> # <<"step", p>> /\ <<"cancel", cancel.by>> # <<"step", p>>
        BY Zenon
      <4> QED
        BY <4>1, <4>2, WriteOutdates, Zenon
    <3>4. ASSUME NEW q \in Process, Copying(q)', <<"step", q>> \notin overtaken'
          PROVE  Near(def, row'.frames, step'[q].run.frames)
      <4>1. q # p => step'[q] = step[q]
        BY Zenon DEF Saves, Alone
      <4>2. q = p
        <5>1. q # p => Copying(q)
          BY <3>4, <4>1, Zenon DEF Copying
        <5>2. q # p => <<"step", q>> # <<"step", p>>
          BY Zenon
        <5> QED
          BY <3>3, <3>4, <5>1, <5>2, Zenon
      <4>3. Formed(def, row'.frames)
        BY Zenon DEF Saves, RowOK, GoodRun
      <4>4. step'[p].run.frames = row'.frames
        BY Zenon DEF Saves
      <4> QED
        BY <4>2, <4>3, <4>4, NearItself, SMTT(20)
    <3>5. PInv'
      BY <3>1, <3>3, <3>4, Zenon DEF PInv
    <3>6. ASSUME ~clash' PROVE Kept(row.frames, row'.frames)
      <4>1. Near(def, row.frames, step[p].run.frames)
        BY <3>3, <3>6, Zenon DEF PInv, Saves
      <4>2. Follows(def, row.frames, row'.frames)
        BY <4>1, <3>NearThenFollows, Zenon DEF Saves
      <4>3. Formed(def, row.frames)
        BY Zenon DEF TInv, RowOK, GoodRun
      <4> QED
        BY <4>2, <4>3, FollowsKeeps
    <3> QED
      BY <3>2, <3>5, <3>6, Zenon DEF ProgressStep
  <2>TakesKeeps.
    ASSUME TInv, PInv, NEW p \in Process, Takes(p), ControlTypeOK', lease' \in Process \cup {Nobody}
    PROVE  TInv' /\ PInv' /\ ProgressStep
    <3> USE <2>TakesKeeps
    <3>1. def' = def /\ row' = row /\ approval' = approval /\ cancel' = cancel
      BY SameDef, Zenon DEF Takes, Alone
    <3>2. TInv'
      BY <3>1, <2>AloneTypes, Zenon DEF Takes, TInv
    <3>3. ASSUME NEW q \in Process, Copying(q)', <<"step", q>> \notin overtaken'
          PROVE  Near(def, row.frames, step'[q].run.frames)
      <4>1. CASE q = p
        BY <4>1, NearItself, Zenon DEF Takes, TInv, RowOK, GoodRun
      <4>2. CASE q # p
        <5>1. step'[q] = step[q]
          BY <4>2, Zenon DEF Takes, Alone
        <5>2. <<"step", q>> \notin overtaken
          BY <3>3, <4>2, Zenon DEF Takes
        <5> QED
          BY <3>3, <5>1, <5>2, Zenon DEF PInv, Copying
      <4> QED
        BY <4>1, <4>2
    <3>4. /\ \A q : <<"approve", q>> \in overtaken => <<"approve", q>> \in overtaken'
          /\ \A q : <<"cancel", q>> \in overtaken => <<"cancel", q>> \in overtaken'
      BY Zenon DEF Takes
    <3>5. PInv'
      BY <3>1, <3>3, <3>4, Zenon DEF PInv
    <3> QED
      BY <3>1, <3>2, <3>5, RowStays
  <2> SUFFICES ASSUME FlowAssumption, Counted, LInv, TInv, PInv, NEW p \in Process, StepRun(p)
               PROVE  TInv' /\ PInv' /\ ProgressStep
    OBVIOUS
  <2>1. UNCHANGED controlVars => ControlTypeOK'
    BY Zenon DEF TInv, ControlTypeOK, controlVars
  <2>2. UNCHANGED lease => lease' \in Process \cup {Nobody}
    BY Zenon DEF TInv
  <2>3. CASE List(p) \/ Leave(p) \/ Release(p)
    BY <2>1, <2>3, ListIs, <2>DropsKeeps, Zenon
  <2>4. CASE Register(p)
    BY <2>1, <2>2, <2>4, RegisterIs, <2>PrivateKeeps, Zenon
  <2>5. CASE StopCancelled(p) \/ StopLate(p) \/ Succeed(p) \/ StopAtLimit(p) \/ Skip(p)
    BY <2>1, <2>2, <2>5, PrivateTurns, <2>PrivateKeeps, Zenon
  <2>6. CASE Begin(p) \/ StopShutdown(p) \/ park(p) \/ Iterate(p) \/ startLoop(p)
    BY <2>2, <2>6, SavingTurnsAre, <2>PrivateKeeps, <2>SavesKeeps, <2>DropsKeeps, Zenon
  <2>7. CASE runBatch(p)
    BY <2>1, <2>2, <2>7, RunBatchIs, <2>PrivateKeeps, Zenon
  <2>8. CASE \E n \in Node : exec(p, n)
    BY <2>1, <2>2, <2>8, ExecIs, <2>PrivateKeeps, Zenon
  <2>9. CASE Apply(p)
    BY <2>2, <2>9, ApplyIs, <2>PrivateKeeps, <2>SavesKeeps, <2>DropsKeeps, Zenon
  <2>10. CASE finish(p)
    BY <2>2, <2>10, FinishIs, <2>SavesKeeps, <2>DropsKeeps, Zenon
  <2>11. CASE Claimed(p)
    BY <2>1, <2>11, ClaimedIs, <2>TakesKeeps, <2>DropsKeeps, Zenon
  <2> QED
    BY <2>3, <2>4, <2>5, <2>6, <2>7, <2>8, <2>9, <2>10, <2>11 DEF StepRun
<1>1. UNCHANGED controlVars => ControlTypeOK'
  BY Zenon DEF TInv, ControlTypeOK, controlVars
<1>2. UNCHANGED lease => lease' \in Process \cup {Nobody}
  BY Zenon DEF TInv
<1>3. CASE UNCHANGED vars
  <2>1. UNCHANGED <<flow, row, step, approval, cancel, overtaken, lease, controlVars>>
    BY <1>3, Zenon DEF vars, runVars
  <2> QED
    BY <1>1, <1>2, <2>1, <1>ElsewhereMoves, Zenon
<1>4. CASE ControlStep /\ UNCHANGED runVars
  <2>1. UNCHANGED <<flow, row, step, approval, cancel, overtaken, lease>>
    BY <1>4, Zenon DEF runVars
  <2>2. ControlTypeOK'
    BY <1>4, <1>ControlMoves, Zenon DEF TInv
  <2> QED
    BY <1>2, <2>1, <2>2, <1>ElsewhereMoves
<1>5. CASE WakeTimePasses \/ RunLeaseRunsOut \/ RunLeaseLapses \/ \E p \in Process : RenewRun(p) \/ promoteList(p)
  <2>1. /\ UNCHANGED <<flow, row, step, approval, cancel, overtaken, proc, writer>>
        /\ UNCHANGED mishaps \/ Mishap
    BY <1>5, Zenon DEF WakeTimePasses, RunLeaseRunsOut, RunLeaseLapses, RenewRun, promoteList, request, controlVars
  <2>2. lease' \in Process \cup {Nobody}
    BY <1>5, Zenon DEF WakeTimePasses, RunLeaseRunsOut, RunLeaseLapses, RenewRun, promoteList, Claim, TInv
  <2>3. ControlTypeOK'
    BY <2>1, ControlKept, Zenon DEF TInv
  <2> QED
    BY <2>1, <2>2, <2>3, <1>ElsewhereMoves
<1>6. CASE \E p \in Process : StepRun(p)
  BY <1>6, <1>StepRunMoves
<1>7. CASE \E p \in Process : Approve(p)
  BY <1>7, <1>ApproveMoves
<1>8. CASE ApproveDone \/ (\E p \in Process : Cancel(p)) \/ CancelClaim \/ CancelDone
  BY <1>8, <1>CallsMove, Zenon
<1>9. CASE RequestCancel
  BY <1>9, RequestCancelMoves
<1>10. CASE Decide
  BY <1>10, DecideMoves, RefusedMoves, Zenon
<1>11. CASE CancelWrite
  BY <1>11, CancelWriteMoves, RefusedMoves, Zenon
<1>12. CASE \E p \in Process : Gone(p)
  BY <1>12, <1>GoneMoves
<1>13. CASE \E p \in Process : promote(p)
  BY <1>13, PromoteMoves, Zenon
<1> QED
  BY <1>3, <1>4, <1>5, <1>6, <1>7, <1>8, <1>9, <1>10, <1>11, <1>12, <1>13, Zenon DEF Next

(* A run is queued only as it was created: no other step makes it so. *)
LEMMA StaysQueued ==
  ASSUME FlowAssumption, LInv, TInv, QInv, [Next]_vars
  PROVE  QInv'
<1>Same.
  ASSUME UNCHANGED flow, promoting' \subseteq Process, UNCHANGED row \/ row'.status # "queued"
  PROVE  QInv'
  <2> USE <1>Same
  <2>1. Frame(Top, 0)' = Frame(Top, 0)
    BY Zenon DEF Frame, Node, def
  <2> QED
    BY <2>1, Zenon DEF QInv
<1>Saves.
  ASSUME NEW p, NEW status, NEW run, NEW next, Save(p, status, run, next)
  PROVE  UNCHANGED row \/ row'.status = status
  <2>1. UNCHANGED row \/ row' = [status |-> status, frames |-> run.frames, steps |-> run.steps]
    BY <1>Saves, Zenon DEF Save, Write
  <2> QED
    BY <2>1
<1>1. promoting \subseteq Process
  BY DEF QInv
<1>2. CASE UNCHANGED vars \/ (ControlStep /\ UNCHANGED runVars)
  <2>1. UNCHANGED flow /\ UNCHANGED row /\ UNCHANGED promoting
    BY <1>2, Zenon DEF vars, runVars
  <2>2. promoting' \subseteq Process
    BY <1>1, <2>1
  <2> QED
    BY <2>1, <2>2, <1>Same, Zenon
<1>3. CASE \E p \in Process : StepRun(p)
  <2> PICK p \in Process : StepRun(p)
    BY <1>3
  <2>1. UNCHANGED <<flow, promoting>>
    BY Zenon DEF StepRun, List, Claimed, Register, Begin, StopCancelled, StopShutdown, StopLate, Skip, park, Iterate,
             Succeed, StopAtLimit, startLoop, runBatch, exec, Apply, finish, Leave, Release, memory, request
  <2>2. CASE \/ List(p) \/ Claimed(p) \/ Register(p) \/ StopCancelled(p) \/ StopLate(p) \/ Skip(p) \/ Succeed(p)
             \/ StopAtLimit(p) \/ runBatch(p) \/ (\E n \in Node : exec(p, n)) \/ Leave(p) \/ Release(p)
    <3>1. UNCHANGED row
      BY <2>2, Zenon DEF List, Claimed, Register, StopCancelled, StopLate, Skip, Succeed, StopAtLimit, runBatch, exec,
             Leave, Release, memory
    <3> QED
      BY <1>1, <2>1, <3>1, <1>Same
  <2>3. CASE Begin(p) \/ StopShutdown(p) \/ park(p) \/ Iterate(p) \/ startLoop(p) \/ Apply(p)
    <3>1. UNCHANGED row \/ \E status \in {"running", "waiting", "waiting_approval"} : row'.status = status
      BY <2>3, <1>Saves, Zenon DEF Begin, StopShutdown, park, Iterate, startLoop, Apply, memory
    <3>2. UNCHANGED row \/ row'.status # "queued"
      BY <3>1
    <3> QED
      BY <1>1, <2>1, <3>2, <1>Same
  <2>4. CASE finish(p)
    <3>1. Finished(step[p].end)
      BY <2>4, Zenon DEF finish, TInv, StepOK
    <3>2. \/ UNCHANGED row
          \/ row' = [status |-> step[p].end, frames |-> step[p].run.frames, steps |-> step[p].run.steps]
      BY <2>4, Zenon DEF finish, Write
    <3>3. UNCHANGED row \/ row'.status # "queued"
      BY <3>1, <3>2 DEF Finished
    <3> QED
      BY <1>1, <2>1, <3>3, <1>Same
  <2> QED
    BY <2>2, <2>3, <2>4, Zenon DEF StepRun
<1>4. CASE \/ \E p \in Process : Approve(p) \/ Cancel(p) \/ RenewRun(p) \/ Gone(p) \/ promoteList(p)
           \/ ApproveDone \/ RequestCancel \/ CancelClaim \/ CancelDone
           \/ WakeTimePasses \/ RunLeaseRunsOut \/ RunLeaseLapses
  <2>1. /\ UNCHANGED <<flow, row>>
        /\ UNCHANGED promoting \/ \E p \in Process : promoting' = promoting \cup {p} \/ promoting' = promoting \ {p}
    BY <1>4, Zenon DEF Approve, Cancel, RenewRun, Gone, promoteList, ApproveDone, RequestCancel, CancelClaim,
             CancelDone, WakeTimePasses, RunLeaseRunsOut, RunLeaseLapses, request
  <2>2. promoting' \subseteq Process
    BY <1>1, <2>1
  <2> QED
    BY <2>1, <2>2, <1>Same
<1>5. CASE Decide \/ CancelWrite
  <2>1. UNCHANGED <<flow, promoting>>
    BY <1>5, Zenon DEF Decide, CancelWrite, request
  <2>2. UNCHANGED row \/ row'.status \in {"pending", "cancelled"}
    <3>1. CASE Decide
      <4>1. UNCHANGED row \/ \E frames : row' = [approval.run EXCEPT !.status = "pending", !.frames = frames]
        BY <3>1, Zenon DEF Decide, Write
      <4>2. "status" \in DOMAIN approval.run
        BY <3>1, Zenon DEF Decide, LInv, Shape
      <4> QED
        BY <4>1, <4>2
    <3>2. CASE CancelWrite
      <4>1. UNCHANGED row \/ \E frames : row' = [cancel.run EXCEPT !.status = "cancelled", !.frames = frames]
        BY <3>2, Zenon DEF CancelWrite, Write
      <4>2. "status" \in DOMAIN cancel.run
        BY <3>2, Zenon DEF CancelWrite, LInv, Shape
      <4> QED
        BY <4>1, <4>2
    <3> QED
      BY <1>5, <3>1, <3>2, Zenon
  <2> QED
    BY <1>1, <2>1, <2>2, <1>Same
<1>6. CASE \E p \in Process : promote(p)
  <2> PICK p \in Process : promote(p)
    BY <1>6
  <2>1. UNCHANGED flow /\ promoting' = promoting \ {p}
    BY Zenon DEF promote
  <2>2. UNCHANGED row \/ row'.status = "pending"
    BY CreatedIsFormed, Zenon DEF promote
  <2> QED
    BY <1>1, <2>1, <2>2, <1>Same
<1> QED
  BY <1>2, <1>3, <1>4, <1>5, <1>6, Zenon DEF Next
=============================================================================
