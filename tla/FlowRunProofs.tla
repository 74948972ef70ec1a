---------------------------- MODULE FlowRunProofs ----------------------------
(***************************************************************************)
(* Proofs about automation runs, continued.  From what FlowProofs shows of *)
(* every step (NextKeeps, NextMovesOn) and a count of the steps a batch    *)
(* takes: the type of the stored progress, the step budget and that no     *)
(* progress is lost.  Then the effects (RInv): an action that must not be  *)
(* repeated takes effect twice only after a fault or an overwritten row.   *)
(***************************************************************************)
EXTENDS FlowProofs, FiniteSetTheorems

-----------------------------------------------------------------------------
(* Sequences and positions. *)
LEMMA SeqShape ==
  \A S : \A s \in Seq(S) :
    DOMAIN s = 1 .. Len(s) /\ Len(s) \in Nat /\ \A i \in 1 .. Len(s) : s[i] \in S
OBVIOUS

LEMMA LenOf ==
  \A S : \A s \in Seq(S) : \A k \in Nat : DOMAIN s = 1 .. k => Len(s) = k
OBVIOUS

LEMMA Lower ==
  \A k \in Nat : \A j \in 1 .. k :
    /\ j \in Nat /\ j >= 1
    /\ j # k => /\ j \in 1 .. k - 1 /\ j + 1 \in 2 .. k /\ j + 1 \in 1 .. k /\ j + 1 - 1 = j
                /\ \A i \in 1 .. j - 1 : i \in 1 .. k - 1
OBVIOUS

LEMMA NotAbove == \A a \in Nat : ~(a > a)
OBVIOUS

(* A mishap is counted. *)
LEMMA MishapsAreCounted == TInv => mishaps \in Nat
BY DEF TInv, ControlTypeOK

LEMMA MishapCounts == mishaps \in Nat /\ Mishap => mishaps' # 0
BY DEF Mishap

-----------------------------------------------------------------------------
(* A batch keeps to its limit: First counts the steps before each. *)
LEMMA Counts ==
  ASSUME FlowAssumption, TInv
  PROVE  Counted
<1>FirstBound.
  \A S \in SUBSET Node : \A k \in Nat :
      Definition(def)
      => /\ First(k, S) \subseteq S /\ IsFiniteSet(First(k, S))
         /\ Cardinality(First(k, S)) \in Nat /\ Cardinality(First(k, S)) <= k
  (* The order of the steps, and how many the first k are. *)
  <2>NodesFinite.
    ASSUME Definition(def)
    PROVE  IsFiniteSet(Node)
    <3> USE <2>NodesFinite
    <3> DEFINE o == def.order
    <3>1. o \in Seq(Range(o)) /\ Node = Range(o)
      BY DEF Definition, Node
    <3> HIDE DEF o
    <3>2. DOMAIN o = 1 .. Len(o) /\ Len(o) \in Nat /\ o \in [1 .. Len(o) -> Range(o)]
      BY <3>1
    <3>3. o \in Surjection(1 .. Len(o), Range(o))
      BY <3>2 DEF Surjection, Range
    <3>4. IsFiniteSet(1 .. Len(o))
      BY <3>2, FS_Interval
    <3>5. IsFiniteSet(Range(o))
      BY <3>3, <3>4, FS_Surjection
    <3> QED
      BY <3>1, <3>5
  <2>BeforeOrders.
    ASSUME Definition(def)
    PROVE  /\ \A n \in Node : ~Before(n, n)
           /\ \A m, n \in Node : m # n => Before(m, n) \/ Before(n, m)
           /\ \A l, m, n \in Node : Before(l, m) /\ Before(m, n) => Before(l, n)
    <3> USE <2>BeforeOrders
    <3> DEFINE o == def.order
    <3>1. o \in Seq(Range(o)) /\ Node = Range(o) /\ IsInjective(o)
      BY DEF Definition, Node
    <3>2. \A m, n : Before(m, n) <=> \E i, j \in DOMAIN o : i < j /\ o[i] = m /\ o[j] = n
      BY DEF Before
    <3> HIDE DEF o
    <3>3. DOMAIN o = 1 .. Len(o) /\ Len(o) \in Nat
      BY <3>1
    <3>4. \A i, j \in DOMAIN o : o[i] = o[j] => i = j
      BY <3>1 DEF IsInjective
    <3>5. ASSUME NEW n \in Node PROVE ~Before(n, n)
      BY <3>2, <3>3, <3>4
    <3>6. ASSUME NEW m \in Node, NEW n \in Node, m # n PROVE Before(m, n) \/ Before(n, m)
      <4>1. PICK i \in DOMAIN o, j \in DOMAIN o : o[i] = m /\ o[j] = n
        BY <3>1 DEF Range
      <4>2. i < j \/ j < i
        BY <3>3, <3>6, <4>1
      <4> QED
        BY <3>2, <4>1, <4>2
    <3>7. ASSUME NEW l \in Node, NEW m \in Node, NEW n \in Node, Before(l, m), Before(m, n) PROVE Before(l, n)
      <4>1. PICK i \in DOMAIN o, j \in DOMAIN o : i < j /\ o[i] = l /\ o[j] = m
        BY <3>2, <3>7
      <4>2. PICK a \in DOMAIN o, b \in DOMAIN o : a < b /\ o[a] = m /\ o[b] = n
        BY <3>2, <3>7
      <4>3. j = a
        BY <3>4, <4>1, <4>2
      <4>4. i < b
        BY <3>3, <4>1, <4>2, <4>3
      <4> QED
        BY <3>2, <4>1, <4>2, <4>4
    <3> QED
      BY <3>5, <3>6, <3>7
  <2> SUFFICES ASSUME Definition(def), NEW S \in SUBSET Node, NEW k \in Nat
               PROVE  /\ First(k, S) \subseteq S /\ IsFiniteSet(First(k, S))
                      /\ Cardinality(First(k, S)) \in Nat /\ Cardinality(First(k, S)) <= k
    OBVIOUS
  <2> DEFINE Fs == First(k, S)
             B(n) == {m \in S : Before(m, n)}
             g == [n \in Fs |-> Cardinality(B(n))]
  <2>1. IsFiniteSet(S)
    BY <2>NodesFinite, FS_Subset
  <2>2. \A n \in S : B(n) \in SUBSET S /\ IsFiniteSet(B(n)) /\ Cardinality(B(n)) \in Nat
    BY <2>1, FS_Subset, FS_CardinalityType
  <2>3. Fs \subseteq S /\ \A n \in Fs : Cardinality(B(n)) < k
    BY DEF First
  <2>4. ASSUME NEW m \in Fs, NEW n \in Fs, Before(m, n) PROVE Cardinality(B(m)) # Cardinality(B(n))
    <3>1. B(m) \in SUBSET B(n) /\ m \in B(n) /\ m \notin B(m)
      BY <2>3, <2>4, <2>BeforeOrders
    <3>2. IsFiniteSet(B(n)) /\ B(m) # B(n)
      BY <2>2, <2>3, <3>1
    <3> HIDE DEF B
    <3> QED
      BY <3>1, <3>2, FS_Subset
  <2>5. IsFiniteSet(0 .. k - 1) /\ Cardinality(0 .. k - 1) = k
    <3> DEFINE b == k - 1
    <3>1. b \in Int /\ 0 \in Int /\ (IF 0 > b THEN 0 ELSE b - 0 + 1) = k
      OBVIOUS
    <3> HIDE DEF b
    <3>2. IsFiniteSet(0 .. b) /\ Cardinality(0 .. b) = k
      BY <3>1, FS_Interval, Zenon
    <3> QED
      BY <3>2, Zenon DEF b
  <2>6. ASSUME NEW n \in Fs PROVE Cardinality(B(n)) \in 0 .. k - 1
    <3> HIDE DEF B, Fs
    <3>1. Cardinality(B(n)) \in Nat /\ Cardinality(B(n)) < k
      BY <2>2, <2>3, Zenon
    <3> DEFINE c == Cardinality(B(n))
    <3>2. c \in Nat /\ c < k
      BY <3>1, Zenon
    <3> HIDE DEF c
    <3>3. c \in 0 .. k - 1
      BY <3>2
    <3> QED
      BY <3>3, Zenon DEF c
  <2>7. \A m, n \in Fs : Cardinality(B(m)) = Cardinality(B(n)) => m = n
    BY <2>3, <2>4, <2>BeforeOrders
  <2>8. g \in Injection(Fs, 0 .. k - 1)
    <3> HIDE DEF B, Fs
    <3>1. g \in [Fs -> 0 .. k - 1]
      BY <2>6
    <3>2. IsInjective(g)
      BY <2>7 DEF IsInjective
    <3> QED
      BY <3>1, <3>2 DEF Injection
  <2>9. IsFiniteSet(Fs) /\ Cardinality(Fs) <= Cardinality(0 .. k - 1)
    <3> HIDE DEF g, Fs
    <3> QED
      BY <2>5, <2>8, FS_Injection
  <2>10. Cardinality(Fs) \in Nat
    BY <2>9, FS_CardinalityType
  <2> QED
    BY <2>3, <2>5, <2>9, <2>10
<1> QED
  BY Defined, <1>FirstBound, Zenon DEF Counted

(* The rows and the copies are well formed in every reachable state, and a  *)
(* copy that is not outdated is the row or what its holder made of it.      *)
THEOREM FramesInductive == Spec => [](LInv /\ TInv /\ PInv /\ QInv)
<1>1. Init => LInv /\ TInv /\ PInv /\ QInv
  BY InitHolds, InitIsFormed, FlowAssumption
<1>2. LInv /\ TInv /\ PInv /\ QInv /\ [Next]_vars => (LInv /\ TInv /\ PInv /\ QInv)'
  BY NextKeeps, NextMovesOn, StaysQueued, Counts, FlowAssumption, Zenon
<1> QED
  BY <1>1, <1>2, PTL DEF Spec

LEMMA FormedIsWellFormed ==
  ASSUME NEW fs, Formed(def, fs)
  PROVE  WellFormed(fs)
<1>1. fs \in Seq(FrameSet(def)) /\ Len(fs) > 0 /\ fs[1].loop = Top
  BY SMTT(20) DEF Formed
<1>2. fs # <<>> /\ Head(fs) = fs[1] /\ DOMAIN fs = 1 .. Len(fs)
  BY <1>1, SMTT(20)
<1>3. ASSUME NEW i \in 1 .. Len(fs) PROVE fs[i].nodes \in [Node -> NodeStates]
  <2>1. fs[i] \in FrameSet(def)
    BY <1>1, SMTT(20)
  <2> QED
    BY <2>1 DEF FrameSet, Nodes, Node
<1>4. ASSUME NEW i \in 1 .. Len(fs), i > 1
      PROVE  /\ fs[i].index < fs[i].items
             /\ fs[i - 1].nodes[fs[i].loop].s \in {"running", "cancelled"}
             /\ def.owner[fs[i].loop] = fs[i - 1].loop
  <2>1. i \in 2 .. Len(fs)
    BY <1>1, <1>4
  <2>2. Linked(def, fs[i - 1], fs[i])
    BY <2>1 DEF Formed
  <2> QED
    BY <2>2, Zenon DEF Linked
<1> QED
  BY <1>1, <1>2, <1>3, <1>4, Zenon DEF WellFormed

(* The frames of a run are well formed in the row and in every copy that is *)
(* stepped: no attempt counter passes the retry limit, and the stack of     *)
(* frames follows the loops that run, whatever crashed, was retried,        *)
(* approved, cancelled or overwritten on the way.                           *)
THEOREM Types == Spec => []TypeOK
<1>1. TInv /\ QInv => TypeOK
  <2> SUFFICES ASSUME TInv, QInv PROVE TypeOK
    BY Zenon
  <2>1. WellFormed(row.frames) /\ row.status \in Statuses
    BY FormedIsWellFormed, Zenon DEF TInv, RowOK, GoodRun
  <2>2. \A p \in Process : step[p].run # NoRun => WellFormed(step[p].run.frames)
    BY FormedIsWellFormed, Zenon DEF TInv, StepOK, GoodRun
  <2> QED
    BY <2>1, <2>2, Zenon DEF TypeOK, TInv, QInv
<1> QED
  BY <1>1, FramesInductive, PTL

(* The step limit holds for every definition: neither a batch nor a loop    *)
(* carries the count past it, in the row or in a copy.                      *)
THEOREM Budget == Spec => []StepBudget
<1>1. TInv => StepBudget
  <2> SUFFICES ASSUME TInv PROVE StepBudget
    OBVIOUS
  <2>1. MaxSteps \in Nat
    BY FlowAssumption, Zenon
  <2>2. row.steps <= MaxSteps
    BY <2>1 DEF TInv, RowOK, GoodRun
  <2>3. ASSUME NEW p \in Process PROVE step[p].run.steps <= MaxSteps
    <3>1. step[p].run = NoRun \/ step[p].run.steps \in 0 .. MaxSteps
      BY Zenon DEF TInv, StepOK, GoodRun
    <3>2. NoRun.steps = 0
      BY DEF NoRun
    <3> QED
      BY <2>1, <3>1, <3>2
  <2> QED
    BY <2>2, <2>3 DEF StepBudget
<1> QED
  BY <1>1, FramesInductive, PTL

(* No save of the row takes back the result of a step that an earlier one   *)
(* recorded, unless an outdated copy is written.                            *)
THEOREM Progress == Spec => ProgressKept
<1>1. LInv /\ TInv /\ PInv /\ QInv /\ [Next]_vars => ProgressStep
  BY NextMovesOn, Counts, FlowAssumption
<1>2. LInv /\ TInv /\ PInv /\ QInv /\ [Next]_vars => [Kept(row.frames, row'.frames) \/ clash']_vars
  BY <1>1, Zenon DEF ProgressStep
<1> QED
  BY <1>2, FramesInductive, PTL DEF Spec, ProgressKept

-----------------------------------------------------------------------------
(* An effect, and when the frames show that it is past: the run is in a     *)
(* later iteration, the loop is over, or the step itself has ended.         *)
Effects(d) ==
  {e \in Seq([loop: Nodes(d) \cup {Top}, index: Nat]) \X Nodes(d) :
     /\ Len(e[1]) > 0 /\ d.kind[e[2]] \in {"action", "destructive"}
     /\ \A i \in 2 .. Len(e[1]) : e[1][i].loop \in Nodes(d)}
Target(e, j) == IF j = Len(e[1]) THEN e[2] ELSE e[1][j + 1].loop
Past(e, fs) ==
  \E j \in 1 .. Len(fs) :
    /\ j <= Len(e[1]) /\ fs[j].loop = e[1][j].loop
    /\ \A i \in 1 .. j - 1 : fs[i].loop = e[1][i].loop /\ fs[i].index = e[1][i].index
    /\ \/ fs[j].index > e[1][j].index
       \/ fs[j].index = e[1][j].index /\ terminal(fs[j].nodes[Target(e, j)])
Happened(e, s) ==
  s.pc = "exec" /\ e[1] = Scope(s.run.frames) /\ e[2] \in DOMAIN s.batch /\ s.batch[e[2]] # ""

(* One process at a time, as long as nothing failed. *)
Solo ==
  /\ \A p \in Process : proc[p] \in {"new", "up"}
  /\ \A p \in Process : proc[p] = "new" => step[p].pc = "idle" /\ approval.by # p /\ cancel.by # p
  /\ \A p \in Process : proc[p] = "up" => writer = [holder |-> p, live |-> TRUE, fenced |-> FALSE]
Once(d) == {e \in ran : e[2] \notin d.idempotent}
Settled(e) ==
  /\ \A p \in Process : step[p].pc \in {"got", "begin", "loop", "exec"} =>
       Past(e, step[p].run.frames) \/ Happened(e, step[p])
  /\ (\A p \in Process : ~Copying(p)) => Finished(row.status) \/ Past(e, row.frames)
RInv ==
  /\ ran \subseteq Effects(def)
  /\ mishaps = 0 => Solo
  /\ mishaps = 0 /\ ~clash =>
       /\ \A e \in repeated : e[2] \in def.idempotent
       /\ \A e \in Once(def) : Settled(e)

-----------------------------------------------------------------------------

-----------------------------------------------------------------------------

LEMMA NextRepeats ==
  ASSUME FlowAssumption, LInv, TInv, PInv, QInv, RInv, [Next]_vars
  PROVE  RInv'
(* An effect that is past stays so over the moves of a run. *)
<1>TargetNode.
  ASSUME NEW d, NEW e \in Effects(d), NEW j \in Nat, j >= 1, j <= Len(e[1])
  PROVE  /\ Target(e, j) \in Nodes(d)
         /\ e[1] \in Seq([loop: Nodes(d) \cup {Top}, index: Nat]) /\ Len(e[1]) \in Nat
         /\ e[1][j].index \in Nat
  <2> USE <1>TargetNode
  <2>1. /\ e[1] \in Seq([loop: Nodes(d) \cup {Top}, index: Nat]) /\ e[2] \in Nodes(d)
        /\ \A i \in 2 .. Len(e[1]) : e[1][i].loop \in Nodes(d)
    BY DEF Effects
  <2>2. Len(e[1]) \in Nat /\ j \in 1 .. Len(e[1])
    BY <2>1
  <2>3. j # Len(e[1]) => j + 1 \in 2 .. Len(e[1])
    BY <2>2
  <2>4. e[1][j] \in [loop: Nodes(d) \cup {Top}, index: Nat]
    <3> DEFINE c == e[1]
               R == [loop: Nodes(d) \cup {Top}, index: Nat]
    <3>1. c \in Seq(R) /\ j \in 1 .. Len(c)
      BY <2>1, <2>2
    <3> HIDE DEF c, R
    <3>2. c[j] \in R
      BY <3>1
    <3> QED
      BY <3>2, Zenon DEF c, R
  <2> QED
    BY <2>1, <2>2, <2>3, <2>4 DEF Target
<1>PastNear.
  ASSUME NEW d, NEW fs \in Seq(FrameSet(d)), NEW gs, NEW e \in Effects(d), Near(d, fs, gs), Past(e, fs)
  PROVE  Past(e, gs)
  <2> USE <1>PastNear
  <2>1. PICK j \in 1 .. Len(fs) :
          /\ j <= Len(e[1]) /\ fs[j].loop = e[1][j].loop
          /\ \A i \in 1 .. j - 1 : fs[i].loop = e[1][i].loop /\ fs[i].index = e[1][i].index
          /\ \/ fs[j].index > e[1][j].index
             \/ fs[j].index = e[1][j].index /\ terminal(fs[j].nodes[Target(e, j)])
    BY Zenon DEF Past
  <2>2. /\ Len(gs) = Len(fs) /\ Len(fs) \in Nat
        /\ \A i \in 1 .. Len(fs) : gs[i].loop = fs[i].loop /\ gs[i].index = fs[i].index
    BY DEF Near, NearFrame
  <2>3. Target(e, j) \in Nodes(d)
    <3>1. j \in Nat /\ j >= 1 /\ j <= Len(e[1])
      BY <2>1, <2>2, SMTT(20)
    <3> QED
      BY <3>1, <1>TargetNode, Zenon
  <2>4. terminal(fs[j].nodes[Target(e, j)]) => gs[j].nodes[Target(e, j)] = fs[j].nodes[Target(e, j)]
    BY <2>3, Zenon DEF Near, NearFrame, Moved
  <2>5. j \in 1 .. Len(gs) /\ \A i \in 1 .. j - 1 : i \in 1 .. Len(fs)
    BY <2>2
  <2> QED
    BY <2>1, <2>2, <2>4, <2>5, Zenon DEF Past
<1>SoloStays.
  ASSUME Solo, UNCHANGED <<proc, writer>>,
         \A p \in Process : proc[p] = "new" => /\ step'[p].pc = "idle" \/ step'[p].pc = step[p].pc
                                               /\ approval'.by # p /\ cancel'.by # p
  PROVE  Solo'
  BY <1>SoloStays DEF Solo
<1>RepeatsKept.
  ASSUME RInv, UNCHANGED <<flow, effects>>, mishaps' = 0 => Solo',
         mishaps' = 0 /\ ~clash' => mishaps = 0 /\ ~clash /\ \A e \in Once(def) : Settled(e) => Settled(e)'
  PROVE  RInv'
  <2> USE <1>RepeatsKept
  <2>1. def' = def /\ ran' = ran /\ repeated' = repeated
    BY SameDef, Zenon DEF effects
  <2>2. Once(def)' = Once(def)
    BY <2>1 DEF Once
  <2> QED
    BY <2>1, <2>2, Zenon DEF RInv
(* The other calls execute nothing; what they write is near the row or the  *)
(* end of the run.                                                          *)
<1>OutsideRepeats.
  ASSUME TInv, RInv, UNCHANGED <<flow, effects, controlVars>>, clash => clash',
         \A q \in Process : /\ step'[q].pc = step[q].pc /\ step'[q].run = step[q].run
                            /\ step'[q].batch = step[q].batch,
         \A q \in Process : /\ approval'.by = q => approval.by = q \/ Up(q)
                            /\ cancel'.by = q => cancel.by = q \/ Up(q),
         ASSUME NEW e \in Effects(def), ~clash', Finished(row.status) \/ Past(e, row.frames)
         PROVE  Finished(row'.status) \/ Past(e, row'.frames)
  PROVE  RInv'
  <2> USE <1>OutsideRepeats
  <2>1. UNCHANGED <<proc, writer, mishaps>>
    BY Zenon DEF controlVars
  <2>2. ASSUME mishaps' = 0 PROVE Solo'
    <3>1. Solo
      BY <2>1, <2>2 DEF RInv
    <3>2. \A q \in Process : proc[q] = "new" => ~Up(q) /\ approval.by # q /\ cancel.by # q
      BY <3>1, Zenon DEF Solo, Up
    <3> QED
      BY <2>1, <3>1, <3>2, <1>SoloStays, Zenon
  <2>3. ASSUME NEW e \in Once(def), ~clash', Settled(e) PROVE Settled(e)'
    <3>1. e \in Effects(def)
      BY Zenon DEF RInv, Once
    <3>2. \A q \in Process : Copying(q)' <=> Copying(q)
      BY DEF Copying
    <3>3. \A q \in Process : step'[q].pc \in {"got", "begin", "loop", "exec"} =>
            Past(e, step'[q].run.frames) \/ Happened(e, step'[q])
      BY <2>3, Zenon DEF Settled, Happened
    <3>4. (\A q \in Process : ~Copying(q)') => Finished(row'.status) \/ Past(e, row'.frames)
      BY <2>3, <3>1, <3>2, Zenon DEF Settled
    <3> QED
      BY <3>3, <3>4, Zenon DEF Settled
  <2>4. mishaps' = 0 /\ ~clash' => mishaps = 0 /\ ~clash /\ \A e \in Once(def) : Settled(e) => Settled(e)'
    BY <2>1, <2>3, Zenon
  <2> QED
    BY <2>2, <2>4, <1>RepeatsKept, Zenon
<1>CallsRepeat.
  ASSUME LInv, TInv, PInv, RInv,
         \/ \E p \in Process : Approve(p) \/ Cancel(p) \/ RenewRun(p) \/ promoteList(p)
         \/ ApproveDone \/ RequestCancel \/ CancelClaim \/ CancelDone \/ WakeTimePasses \/ RunLeaseRunsOut
  PROVE  RInv'
  <2> USE <1>CallsRepeat
  <2>1. UNCHANGED <<flow, effects, controlVars, row, clash>>
    <3>1. CASE \E p \in Process : Approve(p) \/ Cancel(p) \/ RenewRun(p) \/ promoteList(p)
      BY <3>1, Zenon DEF Approve, Cancel, RenewRun, promoteList, request
    <3>2. CASE ApproveDone \/ RequestCancel \/ CancelClaim \/ CancelDone
      BY <3>2 DEF ApproveDone, RequestCancel, CancelClaim, CancelDone, request
    <3>3. CASE WakeTimePasses \/ RunLeaseRunsOut
      BY <3>3, Zenon DEF WakeTimePasses, RunLeaseRunsOut, request, effects
    <3> QED
      BY <3>1, <3>2, <3>3
  <2>2. \A q \in Process : /\ step'[q].pc = step[q].pc /\ step'[q].run = step[q].run
                           /\ step'[q].batch = step[q].batch
    <3>1. CASE RequestCancel
      BY <3>1, RequestCancelMoves, Zenon
    <3>2. CASE ~RequestCancel
      <4>1. step' = step
        BY <3>2, Zenon DEF Approve, Cancel, RenewRun, promoteList, ApproveDone, CancelClaim, CancelDone,
             WakeTimePasses, RunLeaseRunsOut
      <4> QED
        BY <4>1
    <3> QED
      BY <3>1, <3>2, Zenon
  <2>3. NoCall.by = Nobody /\ {"pc", "by", "run"} \subseteq DOMAIN cancel
    BY Zenon DEF NoCall, LInv, Shape
  <2>4. \A q \in Process : /\ approval'.by = q => approval.by = q \/ Up(q)
                           /\ cancel'.by = q => cancel.by = q \/ Up(q)
    <3>1. ASSUME NEW p \in Process, Approve(p) PROVE Up(p) /\ approval'.by = p /\ cancel' = cancel
      BY <3>1, Zenon DEF Approve
    <3>2. ASSUME NEW p \in Process, Cancel(p) PROVE Up(p) /\ cancel'.by = p /\ approval' = approval
      BY <3>2, Zenon DEF Cancel
    <3>3. ASSUME NEW p \in Process, RenewRun(p) \/ promoteList(p) PROVE cancel' = cancel /\ approval' = approval
      BY <3>3, Zenon DEF RenewRun, promoteList
    <3>4. CASE ApproveDone
      BY <2>3, <3>4, ProcessAssumption, Zenon DEF ApproveDone
    <3>5. CASE RequestCancel \/ CancelDone
      BY <2>3, <3>5, ProcessAssumption DEF RequestCancel, CancelDone
    <3>6. CASE CancelClaim
      <4>1. approval' = approval /\ (cancel' = NoCall \/ cancel' = [cancel EXCEPT !.pc = "write", !.run = row])
        BY <3>6, Zenon DEF CancelClaim
      <4>2. [cancel EXCEPT !.pc = "write", !.run = row].by = cancel.by
        BY <2>3
      <4>3. cancel'.by = cancel.by \/ cancel'.by = Nobody
        BY <2>3, <4>1, <4>2, Zenon
      <4> QED
        BY <4>1, <4>3, ProcessAssumption
    <3>7. CASE WakeTimePasses \/ RunLeaseRunsOut
      BY <3>7, Zenon DEF WakeTimePasses, RunLeaseRunsOut
    <3> QED
      BY <3>1, <3>2, <3>3, <3>4, <3>5, <3>6, <3>7, Zenon
  <2>5. ASSUME NEW e, Finished(row.status) \/ Past(e, row.frames) PROVE Finished(row'.status) \/ Past(e, row'.frames)
    BY <2>1, <2>5
  <2>6. clash => clash'
    BY <2>1
  <2>7. UNCHANGED <<flow, effects, controlVars>>
    BY <2>1
  <2> QED
    BY <2>2, <2>4, <2>5, <2>6, <2>7, <1>OutsideRepeats, Zenon
<1>WritesRepeat.
  ASSUME LInv, TInv, PInv, RInv, Decide \/ CancelWrite, UNCHANGED mishaps
  PROVE  RInv'
  <2> USE <1>WritesRepeat
  <2>1. UNCHANGED <<flow, effects, controlVars, step>> /\ (clash => clash')
    <3>1. UNCHANGED <<flow, effects, proc, writer, step>>
      BY Zenon DEF Decide, CancelWrite, request
    <3>2. UNCHANGED <<flow, effects, controlVars, step>>
      BY <3>1 DEF controlVars
    <3>3. CASE UNCHANGED clash
      BY <3>2, <3>3, Zenon
    <3>4. CASE clash' = (clash \/ <<"approve", approval.by>> \in overtaken)
      BY <3>2, <3>4, Zenon
    <3>5. CASE clash' = (clash \/ <<"cancel", cancel.by>> \in overtaken)
      BY <3>2, <3>5, Zenon
    <3> QED
      BY <3>3, <3>4, <3>5, Zenon DEF Decide, CancelWrite, Write
  <2>2. /\ approval'.by = approval.by /\ cancel'.by = cancel.by
    <3>1. {"pc", "by", "run"} \subseteq DOMAIN approval /\ {"pc", "by", "run"} \subseteq DOMAIN cancel
      BY DEF LInv, Shape
    <3>2. CASE Decide
      BY <3>1, <3>2, Zenon DEF Decide
    <3>3. CASE CancelWrite
      BY <3>1, <3>3 DEF CancelWrite
    <3> QED
      BY <3>2, <3>3, Zenon
  <2>3. ASSUME NEW e \in Effects(def), ~clash', Finished(row.status) \/ Past(e, row.frames)
        PROVE  Finished(row'.status) \/ Past(e, row'.frames)
    <3>1. CASE Decide
      <4>1. approval.pc = "decide" /\ <<"approve", approval.by>> \notin overtaken
        <5>1. ~Mishap
          BY DEF Mishap, TInv, ControlTypeOK
        <5> QED
          BY <2>3, <3>1, <5>1, Zenon DEF Decide, Write
      <4>2. ~Finished(row.status) /\ Near(def, row.frames, approval.run.frames)
        BY <4>1 DEF LInv, Fresh, PInv
      <4>3. Near(def, approval.run.frames, row'.frames)
        BY <3>1, DecideMoves, SMTT(20)
      <4>4. Near(def, row.frames, row'.frames)
        BY <4>2, <4>3, NearTwice, Zenon
      <4>5. row.frames \in Seq(FrameSet(def)) /\ Past(e, row.frames)
        BY <2>3, <4>2, Zenon DEF TInv, RowOK, GoodRun, Formed
      <4> QED
        BY <4>4, <4>5, <1>PastNear, Zenon
    <3>2. CASE CancelWrite
      BY <3>2, CancelWriteMoves DEF Finished
    <3> QED
      BY <3>1, <3>2
  <2>4. UNCHANGED <<flow, effects, controlVars>>
    BY <2>1, Zenon
  <2>5. \A q \in Process : /\ step'[q].pc = step[q].pc /\ step'[q].run = step[q].run
                           /\ step'[q].batch = step[q].batch
    BY <2>1, Zenon
  <2>6. \A q \in Process : /\ approval'.by = q => approval.by = q \/ Up(q)
                           /\ cancel'.by = q => cancel.by = q \/ Up(q)
    BY <2>2
  <2> QED
    BY <2>1, <2>3, <2>4, <2>5, <2>6, <1>OutsideRepeats, Zenon
(* A fault, which ends what is said about repeated effects. *)
<1>FaultRepeats.
  ASSUME LInv, TInv, PInv, RInv, RunLeaseLapses \/ (~UNCHANGED mishaps /\ (Decide \/ CancelWrite))
  PROVE  RInv'
  <2> USE <1>FaultRepeats
  <2>1. UNCHANGED <<flow, effects>> /\ Mishap
    <3>1. CASE RunLeaseLapses
      BY <3>1, Zenon DEF RunLeaseLapses, request
    <3>2. CASE ~UNCHANGED mishaps /\ (Decide \/ CancelWrite)
      BY <3>2, RefusedMoves, Zenon
    <3> QED
      BY <3>1, <3>2
  <2>2. mishaps' # 0
    BY <2>1, MishapsAreCounted, MishapCounts, Zenon
  <2> QED
    BY <2>1, <2>2, <1>RepeatsKept, Zenon
<1>PromoteRepeats.
  ASSUME FlowAssumption, LInv, TInv, PInv, QInv, RInv, NEW p \in Process, promote(p)
  PROVE  RInv'
  <2> USE <1>PromoteRepeats
  <2>1. UNCHANGED <<controlVars, flow, step, effects, cancel, approval>>
    BY PromoteMoves, Zenon
  <2>2. clash => clash'
    BY Zenon DEF promote
  <2>3. ASSUME NEW e \in Effects(def), ~clash', Finished(row.status) \/ Past(e, row.frames)
        PROVE  Finished(row'.status) \/ Past(e, row'.frames)
    <3>1. UNCHANGED row \/ (row'.frames = row.frames /\ row.status = "queued")
      BY <2>3, PromoteMoves, Zenon
    <3>2. ~Finished("queued")
      BY DEF Finished
    <3> QED
      BY <2>3, <3>1, <3>2, Zenon
  <2>4. UNCHANGED <<flow, effects, controlVars>>
    BY <2>1, Zenon
  <2>5. \A q \in Process : /\ step'[q].pc = step[q].pc /\ step'[q].run = step[q].run
                           /\ step'[q].batch = step[q].batch
    BY <2>1, Zenon
  <2>6. \A q \in Process : /\ approval'.by = q => approval.by = q \/ Up(q)
                           /\ cancel'.by = q => cancel.by = q \/ Up(q)
    BY <2>1, Zenon
  <2> QED
    BY <2>2, <2>3, <2>4, <2>5, <2>6, <1>OutsideRepeats, Zenon
<1>ProcessesRepeat.
  ASSUME TInv, RInv, (ControlStep /\ UNCHANGED runVars) \/ \E p \in Process : Gone(p)
  PROVE  RInv'
  <2>SoloControls.
    ASSUME ControlTypeOK, Solo, mishaps = 0, mishaps' = 0, ControlStep, UNCHANGED <<step, approval, cancel>>
    PROVE  Solo'
    <3> USE <2>SoloControls
    <3>1. ~Mishap
      BY SMTT(20) DEF Mishap
    <3>2. ASSUME NEW p \in Process, Renew(p) \/ Promote(p) PROVE FALSE
      BY <3>2, SMTT(20) DEF Renew, Promote, Up, Solo
    <3>3. ASSUME NEW p \in Process, Boot(p) PROVE Solo'
      <4>1. /\ proc[p] = "new" /\ CanAcquire(p) /\ writer' = [holder |-> p, live |-> TRUE, fenced |-> FALSE]
            /\ proc' = [proc EXCEPT ![p] = "up"]
        BY <3>3, Zenon DEF Boot, AcquireLease
      <4>2. ASSUME NEW q \in Process, proc[q] = "up" PROVE FALSE
        <5>1. writer = [holder |-> q, live |-> TRUE, fenced |-> FALSE] /\ q # p /\ q # Nobody
          BY <4>1, <4>2, ProcessAssumption, Zenon DEF Solo
        <5>2. writer.holder = q /\ writer.live = TRUE /\ writer.fenced = FALSE
          BY <5>1, Zenon
        <5> QED
          BY <4>1, <5>1, <5>2, Zenon DEF CanAcquire
      <4>3. \A q \in Process : proc[q] = "new"
        BY <4>2, Zenon DEF Solo
      <4>4. proc'[p] = "up" /\ \A q \in Process \ {p} : proc'[q] = "new"
        BY <4>1, <4>3, Zenon DEF ControlTypeOK
      <4> QED
        BY <4>1, <4>3, <4>4, Zenon DEF Solo
    <3>4. CASE LeaseRunsOut
      <4>1. /\ \A q \in Process : writer.holder = q => ~Up(q)
            /\ proc' = proc
        BY <3>4, Zenon DEF LeaseRunsOut
      <4>2. ASSUME NEW q \in Process, proc[q] = "up" PROVE FALSE
        <5>1. writer = [holder |-> q, live |-> TRUE, fenced |-> FALSE]
          BY <4>2, Zenon DEF Solo
        <5>2. writer.holder = q
          BY <5>1
        <5> QED
          BY <4>1, <4>2, <5>2 DEF Up
      <4> QED
        BY <4>1, <4>2 DEF Solo
    <3>5. ASSUME NEW p \in Process, Resume(p) PROVE FALSE
      BY <3>5, Zenon DEF Resume, Solo
    <3>6. ~Fence /\ \A p \in Process : ~Shutdown(p) /\ ~Pause(p)
      BY <3>1, SMTT(20) DEF Fence, Shutdown, Pause
    <3> QED
      BY <3>2, <3>3, <3>4, <3>5, <3>6 DEF ControlStep
  <2> USE <1>ProcessesRepeat
  <2>1. UNCHANGED <<flow, effects, row, clash>>
    BY Zenon DEF runVars, Gone, request
  <2>2. mishaps \in Nat /\ ControlTypeOK
    BY MishapsAreCounted, Zenon DEF TInv
  <2>3. CASE ControlStep /\ UNCHANGED runVars
    <3>1. UNCHANGED <<step, approval, cancel>>
      BY <2>3, Zenon DEF runVars
    <3>2. mishaps' = mishaps \/ Mishap
      BY <2>3 DEF ControlStep, Boot, Renew, Promote, Shutdown, Pause, Resume, LeaseRunsOut, Fence
    <3>3. mishaps' = 0 => mishaps = 0
      BY <2>2, <3>2, MishapCounts, Zenon
    <3>4. mishaps' = 0 => Solo'
      BY <2>2, <2>3, <3>1, <3>3, <2>SoloControls DEF RInv
    <3>5. \A e : Settled(e) => Settled(e)'
      BY <2>1, <3>1, Zenon DEF Settled, Copying
    <3>6. mishaps' = 0 /\ ~clash' => mishaps = 0 /\ ~clash /\ \A e \in Once(def) : Settled(e) => Settled(e)'
      BY <2>1, <3>3, <3>5, Zenon
    <3> QED
      BY <2>1, <3>4, <3>6, <1>RepeatsKept, Zenon
  <2>4. CASE \E p \in Process : Gone(p)
    <3>1. PICK p \in Process : Crash(p) \/ Exit(p)
      BY <2>4, Zenon DEF Gone
    <3>2. mishaps' # 0
      <4>1. CASE Crash(p)
        BY <2>2, <4>1 DEF Crash, Mishap
      <4>2. CASE Exit(p)
        <5>1. proc[p] = "stopping" /\ mishaps' = mishaps
          BY <4>2 DEF Exit
        <5>2. mishaps # 0
          BY <5>1, Zenon DEF RInv, Solo
        <5> QED
          BY <5>1, <5>2, Zenon
      <4> QED
        BY <3>1, <4>1, <4>2
    <3> QED
      BY <2>1, <3>2, <1>RepeatsKept, SMTT(20)
  <2> QED
    BY <2>3, <2>4, Zenon
<1>StepRunRepeats.
  \A p \in Process :
      /\ FlowAssumption
      /\ TInv
      /\ RInv
      /\ StepRun(p)
      => RInv'
  (* Effects.  As long as nothing failed, at most one process is up. *)
  <2>OthersIdle.
    ASSUME Solo, NEW p \in Process, Up(p), NEW q \in Process \ {p}
    PROVE  step[q].pc = "idle" /\ approval.by # q /\ cancel.by # q
    <3> USE <2>OthersIdle
    <3>1. proc[p] = "up" /\ writer = [holder |-> p, live |-> TRUE, fenced |-> FALSE]
      BY Zenon DEF Solo, Up
    <3>2. proc[q] # "up"
      <4>1. proc[q] = "up" => writer = [holder |-> q, live |-> TRUE, fenced |-> FALSE]
        BY DEF Solo
      <4>2. writer.holder = p /\ (proc[q] = "up" => writer.holder = q)
        BY <3>1, <4>1, Zenon
      <4> QED
        BY <4>2, Zenon
    <3> QED
      BY <3>2, Zenon DEF Solo
  (* What a step of a stepper leaves alone, and that its process is up. *)
  <2>StepRunUp.
    ASSUME NEW p \in Process, StepRun(p)
    PROVE  Up(p) /\ UNCHANGED <<proc, writer>> /\ (Mishap \/ UNCHANGED mishaps)
    <3> USE <2>StepRunUp
    <3>1. CASE List(p) \/ Claimed(p) \/ Register(p) \/ Leave(p) \/ Release(p)
      BY <3>1 DEF List, Claimed, Register, Leave, Release, Up, controlVars
    <3>2. CASE StopCancelled(p) \/ StopLate(p) \/ Succeed(p) \/ StopAtLimit(p) \/ Skip(p) \/ runBatch(p)
      BY <3>2, Zenon DEF StopCancelled, StopLate, Succeed, StopAtLimit, Skip, runBatch, Stuck, Work, Goes, AtLoop, controlVars
    <3>3. CASE \E n \in Node : exec(p, n)
      BY <3>3, Zenon DEF exec, controlVars
    <3>4. CASE Begin(p) \/ StopShutdown(p)
      BY <3>4, Zenon DEF Begin, StopShutdown, AtLoop, Save
    <3>5. CASE park(p)
      BY <3>5, Zenon DEF park, Stuck, Goes, AtLoop, Save, controlVars
    <3>6. CASE Iterate(p)
      BY <3>6, Zenon DEF Iterate, Stuck, Goes, AtLoop, Save
    <3>7. CASE startLoop(p)
      BY <3>7, Zenon DEF startLoop, Work, Goes, AtLoop, Save
    <3>8. CASE Apply(p) \/ finish(p)
      BY <3>8, Zenon DEF Apply, finish, Save
    <3> QED
      BY <3>1, <3>2, <3>3, <3>4, <3>5, <3>6, <3>7, <3>8 DEF StepRun
  (* An effect stays past over the turns of a stepper ... *)
  <2>OtherCopies.
    ASSUME NEW p \in Process, \A q \in Process \ {p} : step'[q] = step[q], NEW e, Settled(e),
           step'[p].pc \in {"got", "begin", "loop", "exec"} => Past(e, step'[p].run.frames) \/ Happened(e, step'[p]),
           (\A q \in Process : ~Copying(q)') => Finished(row'.status) \/ Past(e, row'.frames)
    PROVE  Settled(e)'
    <3> USE <2>OtherCopies
    <3>1. ASSUME NEW q \in Process, step'[q].pc \in {"got", "begin", "loop", "exec"}
          PROVE  Past(e, step'[q].run.frames) \/ Happened(e, step'[q])
      BY <3>1, Zenon DEF Settled
    <3> QED
      BY <3>1, Zenon DEF Settled
  <2>PrivateSettles.
    ASSUME TInv, NEW p \in Process, Private(p), step[p].pc # "exec" \/ step'[p].pc = "finish",
           step[p].pc # "finish", step'[p].pc \in {"begin", "loop", "exec", "finish"},
           NEW e \in Effects(def), Settled(e)
    PROVE  Settled(e)'
    <3> USE <2>PrivateSettles
    <3>1. \A q \in Process \ {p} : step'[q] = step[q]
      BY Zenon DEF Private, Alone
    <3>2. ~(\A q \in Process : ~Copying(q)')
      BY Zenon DEF Copying
    <3>3. ASSUME step'[p].pc \in {"got", "begin", "loop", "exec"}
          PROVE  Past(e, step'[p].run.frames)
      <4>1. step[p].pc # "exec" /\ step[p].pc # "finish" /\ Copying(p)
        BY <3>3, Zenon DEF Private
      <4>2. step[p].run.frames \in Seq(FrameSet(def)) /\ Near(def, step[p].run.frames, step'[p].run.frames)
        BY <4>1, CopyIsGood, Zenon DEF Private, Formed
      <4>3. Past(e, step[p].run.frames)
        BY <4>1, Zenon DEF Settled, Happened, Copying
      <4> QED
        BY <4>2, <4>3, <1>PastNear, Zenon
    <3> QED
      BY <3>1, <3>2, <3>3, <2>OtherCopies, Zenon
  <2>SavesSettles.
    \A p \in Process : \A e \in Effects(def) :
        /\ TInv
        /\ Saves(p)
        /\ Settled(e)
        /\ (Finished(row'.status) /\ step'[p].pc = "hook") \/ Past(e, step[p].run.frames)
        => Settled(e)'
    <3>PastFollows.
      \A d : \A fs : \A gs : \A e \in Effects(d) :
          /\ Formed(d, fs)
          /\ Follows(d, fs, gs)
          /\ Past(e, fs)
          => Past(e, gs)
      <4>PastEntered.
        ASSUME NEW d, NEW hs, NEW gs, NEW e \in Effects(d), Formed(d, hs), Entered(d, hs, gs), Past(e, hs)
        PROVE  Past(e, gs)
        <5> USE <4>PastEntered
        <5>1. PICK j \in 1 .. Len(hs) :
                /\ j <= Len(e[1]) /\ hs[j].loop = e[1][j].loop
                /\ \A i \in 1 .. j - 1 : hs[i].loop = e[1][i].loop /\ hs[i].index = e[1][i].index
                /\ \/ hs[j].index > e[1][j].index
                   \/ hs[j].index = e[1][j].index /\ terminal(hs[j].nodes[Target(e, j)])
          BY Zenon DEF Past
        <5>2. PICK f \in FrameSet(d) : gs = Append(hs, f)
          BY DEF Entered
        <5>3. hs \in Seq(FrameSet(d)) /\ Len(hs) \in Nat
          BY SeqShape, Zenon DEF Formed
        <5>4. Len(gs) = Len(hs) + 1 /\ \A i \in 1 .. Len(hs) : gs[i] = hs[i]
          BY <5>2, <5>3
        <5>5. j \in 1 .. Len(gs) /\ \A i \in 1 .. j - 1 : i \in 1 .. Len(hs)
          BY <5>3, <5>4
        <5> QED
          BY <5>1, <5>4, <5>5, Zenon DEF Past
      <4>PastIterated.
        ASSUME NEW d, NEW hs, NEW gs, NEW e \in Effects(d), Formed(d, hs), Iterated(d, hs, gs), Past(e, hs)
        PROVE  Past(e, gs)
        <5> USE <4>PastIterated
        <5>1. PICK j \in 1 .. Len(hs) :
                /\ j <= Len(e[1]) /\ hs[j].loop = e[1][j].loop
                /\ \A i \in 1 .. j - 1 : hs[i].loop = e[1][i].loop /\ hs[i].index = e[1][i].index
                /\ \/ hs[j].index > e[1][j].index
                   \/ hs[j].index = e[1][j].index /\ terminal(hs[j].nodes[Target(e, j)])
          BY Zenon DEF Past
        <5>2. PICK f \in FrameSet(d) : /\ gs = Replaced(hs, f)
                                       /\ f.loop = Inner(hs).loop /\ f.index = Inner(hs).index + 1
          BY Zenon DEF Iterated
        <5>3. hs \in Seq(FrameSet(d)) /\ Len(hs) > 0
          BY DEF Formed
        <5>4. /\ Len(gs) = Len(hs) /\ gs[Len(hs)] = f
              /\ \A i \in 1 .. Len(hs) - 1 : gs[i] = hs[i]
          <6>1. /\ Replaced(hs, f) \in Seq(FrameSet(d)) /\ Len(Replaced(hs, f)) = Len(hs)
                /\ Replaced(hs, f)[Len(hs)] = f
                /\ \A i \in 1 .. Len(hs) - 1 : Replaced(hs, f)[i] = hs[i]
            BY <5>3, ReplacedFrames
          <6> QED
            BY <5>2, <6>1, Zenon
        <5>5. Len(hs) \in Nat /\ j \in 1 .. Len(gs) /\ \A i \in 1 .. j - 1 : i \in 1 .. Len(hs) - 1
          BY <5>3, <5>4
        <5>6. CASE j = Len(hs)
          <6>1. hs[j].index \in Nat /\ e[1][j].index \in Nat
            <7>1. j \in Nat /\ j >= 1 /\ j <= Len(e[1])
              BY <5>1, <5>5
            <7>2. hs[j] \in FrameSet(d)
              BY <5>3, SMTT(20)
            <7>3. e[1][j].index \in Nat
              BY <7>1, <1>TargetNode, Zenon
            <7> QED
              BY <7>2, <7>3, Zenon DEF FrameSet
          <6>2. gs[j].index > e[1][j].index /\ gs[j].loop = e[1][j].loop
            BY <5>1, <5>2, <5>4, <5>6, <6>1 DEF Inner
          <6> QED
            BY <5>1, <5>4, <5>5, <6>2, Zenon DEF Past
        <5>7. CASE j # Len(hs)
          <6>1. gs[j] = hs[j]
            BY <5>4, <5>5, <5>7, SMTT(30)
          <6> QED
            BY <5>1, <5>4, <5>5, <6>1, Zenon DEF Past
        <5> QED
          BY <5>6, <5>7, Zenon
      <4>PastLeft.
        \A d : \A hs : \A gs : \A e \in Effects(d) :
            /\ Formed(d, hs)
            /\ Left(d, hs, gs)
            /\ Past(e, hs)
            => Past(e, gs)
        <5>LeftShape.
          ASSUME NEW d, NEW hs, NEW gs, Formed(d, hs), Left(d, hs, gs)
          PROVE  \E f \in FrameSet(d) :
                   /\ Len(gs) = Len(hs) - 1 /\ gs[Len(hs) - 1] = f
                   /\ \A i \in 1 .. Len(hs) - 2 : gs[i] = hs[i]
                   /\ f.loop = hs[Len(hs) - 1].loop /\ f.index = hs[Len(hs) - 1].index
                   /\ f.nodes[Inner(hs).loop].s = "succeeded"
                   /\ \A n \in Nodes(d) \ {Inner(hs).loop} : f.nodes[n] = hs[Len(hs) - 1].nodes[n]
          <6> USE <5>LeftShape
          <6> DEFINE k == Len(hs)
          <6>1. PICK f \in FrameSet(d) :
                   /\ gs = Replaced(Outer(hs), f) /\ k > 1
                   /\ f.loop = hs[k - 1].loop /\ f.index = hs[k - 1].index /\ f.items = hs[k - 1].items
                   /\ f.nodes[Inner(hs).loop].s = "succeeded"
                   /\ \A n \in Nodes(d) \ {Inner(hs).loop} : f.nodes[n] = hs[k - 1].nodes[n]
            BY Zenon DEF Left
          <6>2. hs \in Seq(FrameSet(d)) /\ k \in Nat /\ k > 1
            BY <6>1, SMTT(30) DEF Formed
          <6>3. /\ Replaced(Outer(hs), f) \in Seq(FrameSet(d))
                /\ Len(Replaced(Outer(hs), f)) = k - 1
                /\ Replaced(Outer(hs), f)[k - 1] = f
                /\ \A i \in 1 .. k - 2 : Replaced(Outer(hs), f)[i] = hs[i]
            BY <6>2, LeftFrames
          <6> HIDE DEF k
          <6>4. Len(gs) = k - 1 /\ gs[k - 1] = f /\ \A i \in 1 .. k - 2 : gs[i] = hs[i]
            BY <6>1, <6>3, Zenon
          <6> QED
            BY <6>1, <6>4, Zenon DEF k
        <5> SUFFICES ASSUME NEW d, NEW hs, NEW gs, NEW e \in Effects(d), Formed(d, hs), Left(d, hs, gs), Past(e, hs)
                     PROVE  Past(e, gs)
          OBVIOUS
        <5> DEFINE k == Len(hs)
                   l == Inner(hs).loop
        <5>1. PICK j \in 1 .. k :
                /\ j <= Len(e[1]) /\ hs[j].loop = e[1][j].loop
                /\ \A i \in 1 .. j - 1 : hs[i].loop = e[1][i].loop /\ hs[i].index = e[1][i].index
                /\ \/ hs[j].index > e[1][j].index
                   \/ hs[j].index = e[1][j].index /\ terminal(hs[j].nodes[Target(e, j)])
          BY Zenon DEF Past
        <5>2. PICK f \in FrameSet(d) :
                   /\ Len(gs) = k - 1 /\ gs[k - 1] = f
                   /\ \A i \in 1 .. k - 2 : gs[i] = hs[i]
                   /\ f.loop = hs[k - 1].loop /\ f.index = hs[k - 1].index
                   /\ f.nodes[l].s = "succeeded"
                   /\ \A n \in Nodes(d) \ {l} : f.nodes[n] = hs[k - 1].nodes[n]
          BY <5>LeftShape
        <5>3. hs \in Seq(FrameSet(d)) /\ Len(hs) > 1
          BY Zenon DEF Formed, Left
        <5>4. /\ Len(gs) = k - 1 /\ gs[k - 1] = f
              /\ \A i \in 1 .. k - 2 : gs[i] = hs[i]
          BY <5>2, Zenon
        <5>5. k \in Nat /\ k > 1
          BY <5>3
        <5>6. l = hs[k].loop /\ hs[k - 1].nodes[l].s \in {"running", "cancelled"}
          <6>1. k \in 2 .. k
            BY <5>5, SMTT(20)
          <6> QED
            BY <6>1, Zenon DEF Formed, Linked, Inner
        <5> HIDE DEF k, l
        <5>7. Target(e, j) \in Nodes(d) /\ Len(e[1]) \in Nat
          <6>1. j \in Nat /\ j >= 1 /\ j <= Len(e[1])
            BY <5>1, <5>5, Lower, Zenon
          <6> QED
            BY <6>1, <1>TargetNode, Zenon
        <5>8. \A i \in 1 .. k - 1 : gs[i].loop = hs[i].loop /\ gs[i].index = hs[i].index
          BY <5>2, <5>4, <5>5, Below, Zenon
        <5>9. CASE j = k
          <6>1. k - 1 \in 1 .. Len(gs) /\ k - 1 \in 1 .. j - 1 /\ k - 1 <= Len(e[1])
                /\ k - 1 # Len(e[1]) /\ k - 1 + 1 = k /\ \A i \in 1 .. k - 2 : i \in 1 .. j - 1 /\ i \in 1 .. k - 1
            BY <5>1, <5>4, <5>5, <5>7, <5>9, SMTT(30)
          <6>2. Target(e, k - 1) = l
            BY <5>1, <5>6, <5>9, <6>1, Zenon DEF Target
          <6>3. terminal(gs[k - 1].nodes[Target(e, k - 1)])
            BY <5>2, <5>4, <6>2 DEF terminal
          <6>4. gs[k - 1].loop = e[1][k - 1].loop /\ gs[k - 1].index = e[1][k - 1].index
            BY <5>1, <5>2, <5>4, <6>1, Zenon
          <6>5. \A i \in 1 .. k - 1 - 1 : gs[i].loop = e[1][i].loop /\ gs[i].index = e[1][i].index
            BY <5>1, <5>5, <5>8, <6>1, SMTT(30)
          <6> QED
            BY <6>1, <6>3, <6>4, <6>5, Zenon DEF Past
        <5>10. CASE j # k
          <6>1. j \in 1 .. k - 1 /\ j \in 1 .. Len(gs) /\ \A i \in 1 .. j - 1 : i \in 1 .. k - 1
            BY <5>4, <5>5, <5>10, Lower, Zenon
          <6>2. terminal(hs[j].nodes[Target(e, j)]) => terminal(gs[j].nodes[Target(e, j)])
            <7>1. CASE j = k - 1
              BY <5>2, <5>4, <5>6, <5>7, <7>1, Zenon DEF terminal
            <7>2. CASE j # k - 1
              <8>1. j \in 1 .. k - 2
                BY <5>5, <6>1, <7>2, Below, Zenon
              <8> QED
                BY <5>4, <8>1, Zenon
            <7> QED
              BY <7>1, <7>2, Zenon
          <6> QED
            BY <5>1, <5>8, <6>1, <6>2, Zenon DEF Past
        <5> QED
          BY <5>9, <5>10
      <4> SUFFICES ASSUME NEW d, NEW fs, NEW gs, NEW e \in Effects(d), Formed(d, fs), Follows(d, fs, gs), Past(e, fs)
                   PROVE  Past(e, gs)
        OBVIOUS
      <4>1. fs \in Seq(FrameSet(d))
        BY DEF Formed
      <4>2. \A hs : Near(d, fs, hs) => Formed(d, hs) /\ Past(e, hs)
        BY <4>1, NearIsFormed, <1>PastNear, Zenon
      <4> QED
        BY <4>2, <4>PastEntered, <4>PastIterated, <4>PastLeft DEF Follows
    <3> SUFFICES ASSUME TInv, NEW p \in Process, Saves(p), NEW e \in Effects(def), Settled(e),
                        (Finished(row'.status) /\ step'[p].pc = "hook") \/ Past(e, step[p].run.frames)
                 PROVE  Settled(e)'
      BY Zenon
    <3>1. /\ (\A q \in Process \ {p} : step'[q] = step[q]) /\ step'[p].run.frames = row'.frames
          /\ Follows(def, step[p].run.frames, row'.frames) /\ Copying(p)
      BY Zenon DEF Saves, Alone
    <3>2. Past(e, step[p].run.frames) => Past(e, row'.frames)
      <4>1. Formed(def, step[p].run.frames)
        BY <3>1, CopyIsGood, Zenon
      <4> QED
        BY <3>1, <4>1, <3>PastFollows, Zenon
    <3> QED
      BY <3>1, <3>2, <2>OtherCopies, Zenon
  <2>DropsSettles.
    ASSUME NEW p \in Process, Drops(p), ~Copying(p), NEW e, Settled(e)
    PROVE  Settled(e)'
    <3> USE <2>DropsSettles
    <3>1. (\A q \in Process \ {p} : step'[q] = step[q]) /\ row' = row /\ ~Copying(p)'
      BY Zenon DEF Drops, Alone
    <3>2. (\A q \in Process : ~Copying(q)') => \A q \in Process : ~Copying(q)
      BY <3>1, Zenon DEF Copying
    <3>3. ~(step'[p].pc \in {"got", "begin", "loop", "exec"})
      BY <3>1, SMTT(20) DEF Copying
    <3>4. (\A q \in Process : ~Copying(q)') => Finished(row'.status) \/ Past(e, row'.frames)
      BY <3>1, <3>2, Zenon DEF Settled
    <3> QED
      BY <3>1, <3>3, <3>4, <2>OtherCopies, Zenon
  <2>TakesSettles.
    ASSUME Solo, NEW p \in Process, Up(p), Takes(p), NEW e, Settled(e)
    PROVE  Settled(e)'
    <3> USE <2>TakesSettles
    <3>1. /\ (\A q \in Process \ {p} : step'[q] = step[q]) /\ step'[p].run.frames = row.frames
          /\ step'[p].pc = "got" /\ Steppable(row.status) /\ ~Copying(p)
      BY Zenon DEF Takes, Alone
    <3>2. \A q \in Process : ~Copying(q)
      BY <3>1, <2>OthersIdle, Zenon DEF Copying
    <3>3. Past(e, row.frames)
      BY <3>1, <3>2 DEF Settled, Steppable, Finished
    <3>4. ~(\A q \in Process : ~Copying(q)')
      BY <3>1, Zenon DEF Copying
    <3> QED
      BY <3>1, <3>3, <3>4, <2>OtherCopies, Zenon
  <2>ApplySettles.
    \A p \in Process : \A e \in Effects(def) :
        /\ FlowAssumption
        /\ TInv
        /\ step[p].pc = "exec"
        /\ Saves(p)
        /\ \A n \in DOMAIN step[p].batch : step[p].batch[n] # ""
        /\ row'.frames = Replaced(step[p].run.frames, Applied(p))
        /\ Reached(p) = DOMAIN step[p].batch
        /\ e[2] \notin def.idempotent
        /\ Settled(e)
        => Settled(e)'
    (* ... and the effect of a batch is past once its outcome is saved. *)
    <3>OutcomeIsPast.
      ASSUME NEW d, NEW fs, Formed(d, fs), NEW g, NearFrame(d, Inner(fs), g), NEW e \in Effects(d),
             e[1] = Scope(fs), terminal(g.nodes[e[2]])
      PROVE  Past(e, Replaced(fs, g))
      <4> USE <3>OutcomeIsPast
      <4> DEFINE k == Len(fs)
                 gs == Replaced(fs, g)
      <4>1. fs \in Seq(FrameSet(d)) /\ k \in Nat /\ k > 0 /\ DOMAIN fs = 1 .. k
        BY SMTT(30) DEF Formed
      <4>2. g \in FrameSet(d) /\ g.loop = fs[k].loop /\ g.index = fs[k].index
        BY Zenon DEF NearFrame, Inner
      <4>3. Len(gs) = k /\ gs[k] = g /\ \A i \in 1 .. k - 1 : gs[i] = fs[i]
        <5>1. gs = [fs EXCEPT ![k] = g]
          BY Zenon DEF Replaced
        <5> HIDE DEF gs
        <5>2. gs \in Seq(FrameSet(d)) /\ Len(gs) = k
          BY <4>1, <4>2, <5>1, SMTT(30)
        <5>3. gs[k] = g /\ \A i \in 1 .. k - 1 : gs[i] = fs[i]
          BY <4>1, <5>1
        <5> QED
          BY <5>2, <5>3, Zenon
      <4>4. e[1] \in Seq([loop: Nodes(d) \cup {Top}, index: Nat]) /\ DOMAIN e[1] = 1 .. k
        BY <4>1, Zenon DEF Scope, Effects
      <4>5. Len(e[1]) = k
        BY <4>1, <4>4, LenOf, Zenon
      <4>6. \A i \in 1 .. k : e[1][i].index = fs[i].index /\ e[1][i].loop = fs[i].loop
        BY <4>1, SMTT(30) DEF Scope
      <4> HIDE DEF gs, k
      <4>7. k \in 1 .. k /\ \A i \in 1 .. k - 1 : i \in 1 .. k
        BY <4>1, SMTT(20)
      <4>8. gs[k].loop = e[1][k].loop /\ gs[k].index = e[1][k].index
        BY <4>2, <4>3, <4>6, <4>7, Zenon
      <4>9. \A i \in 1 .. k - 1 : gs[i].loop = e[1][i].loop /\ gs[i].index = e[1][i].index
        BY <4>3, <4>6, <4>7, Zenon
      <4>10. Target(e, k) = e[2] /\ terminal(gs[k].nodes[Target(e, k)]) /\ k <= Len(e[1])
        BY <4>1, <4>3, <4>5, SMTT(30) DEF Target
      <4>11. Past(e, gs)
        BY <4>3, <4>7, <4>8, <4>9, <4>10, Zenon DEF Past
      <4> QED
        BY <4>11, Zenon DEF gs
    <3> SUFFICES ASSUME FlowAssumption, TInv, NEW p \in Process, step[p].pc = "exec", Saves(p),
                        \A n \in DOMAIN step[p].batch : step[p].batch[n] # "",
                        row'.frames = Replaced(step[p].run.frames, Applied(p)), Reached(p) = DOMAIN step[p].batch,
                        NEW e \in Effects(def), e[2] \notin def.idempotent, Settled(e)
                 PROVE  Settled(e)'
      BY Zenon
    <3> DEFINE fs == step[p].run.frames
               n == e[2]
               ns == Inner(fs).nodes[n]
               o == step[p].batch[n]
    <3>1. /\ (\A q \in Process \ {p} : step'[q] = step[q]) /\ step'[p].run.frames = row'.frames
          /\ Copying(p)
      BY Zenon DEF Saves, Alone
    <3>2. Formed(def, fs) /\ GoodBatch(def, fs, step[p].batch)
      BY <3>1, CopyIsGood, Zenon DEF TInv, StepOK
    <3>3. CASE Past(e, fs)
      BY <3>3, <2>SavesSettles, Zenon
    <3>4. CASE Happened(e, step[p])
      <4>1. e[1] = Scope(fs) /\ n \in DOMAIN step[p].batch /\ o # ""
        BY <3>4, Zenon DEF Happened
      <4>2. /\ n \in Nodes(def) /\ o \in Results /\ def.kind[n] # "loop" /\ Inner(fs).nodes[n].s = "running"
            /\ (def.kind[n] \in {"action", "destructive"} => o \in {"", "err", "ok", "limit"})
        BY <3>2, <4>1, Zenon DEF GoodBatch, Inner
      <4>3. def.kind[n] \in {"action", "destructive"}
        BY Zenon DEF Effects
      <4>4. ns \in NodeStates /\ Tame(def, n, ns) /\ n \in Node
        <5>1. Inner(fs) \in FrameSet(def) /\ \A m \in Nodes(def) : Tame(def, m, Inner(fs).nodes[m])
          BY <3>2, InnerFrame, Zenon
        <5>2. Inner(fs).nodes[n] \in NodeStates
          BY <4>2, <5>1, Zenon DEF FrameSet
        <5> QED
          BY <4>2, <5>1, <5>2, SameNodes, Zenon
      <4>5. o \in Results \ {""} /\ (o \in {"ok", "limit"} \/ (o = "err" /\ n \notin def.idempotent))
        BY <4>1, <4>2, <4>3, Zenon
      <4>6. ns.s = "running" /\ def.kind[n] # "loop"
        BY <4>2, Zenon
      <4>7. terminal(apply(ns, n, o))
        <5> HIDE DEF n, ns, o
        <5> QED
          BY <4>4, <4>5, <4>6, ApplyMoves, Zenon
      <4>8. /\ NearFrame(def, Inner(fs), Applied(p))
            /\ \A m \in Reached(p) : Applied(p).nodes[m] = apply(Inner(fs).nodes[m], m, step[p].batch[m])
        BY <3>2, AppliedMoves, Zenon
      <4>9. terminal(Applied(p).nodes[e[2]])
        BY <4>1, <4>7, <4>8, Zenon
      <4>10. Past(e, Replaced(fs, Applied(p)))
        BY <3>2, <4>1, <4>8, <4>9, <3>OutcomeIsPast, Zenon
      <4> QED
        BY <3>1, <4>10, <2>OtherCopies, Zenon
    <3> QED
      BY <3>3, <3>4, Zenon DEF Settled
  (* ... and it is not one that has happened before, if it must not repeat. *)
  <2>ExecRepeats.
    \A p \in Process : \A n \in Node :
        /\ FlowAssumption
        /\ TInv
        /\ RInv
        /\ exec(p, n)
        /\ Up(p)
        /\ mishaps' = 0 => Solo'
        => RInv'
    (* A step that has not ended in the innermost frame is not past there. *)
    <3>PastBlocks.
      ASSUME NEW d, NEW fs, NEW e \in Effects(d), Formed(d, fs), Past(e, fs), e[1] = Scope(fs)
      PROVE  terminal(fs[Len(fs)].nodes[e[2]])
      <4> USE <3>PastBlocks
      <4>1. PICK j \in 1 .. Len(fs) :
              /\ j <= Len(e[1])
              /\ \/ fs[j].index > e[1][j].index
                 \/ fs[j].index = e[1][j].index /\ terminal(fs[j].nodes[Target(e, j)])
        BY Zenon DEF Past
      <4>2. /\ fs \in Seq(FrameSet(d)) /\ DOMAIN fs = 1 .. Len(fs) /\ Len(fs) \in Nat
            /\ \A i \in 1 .. Len(fs) : fs[i].index \in Nat
        <5>1. fs \in Seq(FrameSet(d))
          BY Zenon DEF Formed
        <5>2. \A i \in 1 .. Len(fs) : fs[i] \in FrameSet(d)
          BY <5>1
        <5>3. DOMAIN fs = 1 .. Len(fs) /\ Len(fs) \in Nat
          BY <5>1, SeqShape, Zenon
        <5>4. \A i \in 1 .. Len(fs) : fs[i].index \in Nat
          BY <5>2, Zenon DEF FrameSet
        <5> QED
          BY <5>1, <5>3, <5>4
      <4>3. \A i \in 1 .. Len(fs) : e[1][i].index = fs[i].index /\ e[1][i].loop = fs[i].loop
        BY <4>2 DEF Scope
      <4>4. e[1] \in Seq([loop: Nodes(d) \cup {Top}, index: Nat]) /\ DOMAIN e[1] = 1 .. Len(fs)
        BY <4>2, Zenon DEF Scope, Effects
      <4>5. Len(e[1]) = Len(fs)
        BY <4>2, <4>4, LenOf, Zenon
      <4>6. terminal(fs[j].nodes[Target(e, j)])
        <5>1. e[1][j].index = fs[j].index /\ fs[j].index \in Nat
          BY <4>2, <4>3, Zenon
        <5> QED
          BY <4>1, <5>1, NotAbove, Zenon
      <4>7. CASE j = Len(fs)
        BY <4>5, <4>6, <4>7 DEF Target
      <4>8. CASE j # Len(fs)
        <5>1. j + 1 \in 2 .. Len(fs) /\ j + 1 \in 1 .. Len(fs) /\ j + 1 - 1 = j
          <6> DEFINE k == Len(fs)
          <6>1. k \in Nat /\ j \in 1 .. k /\ j # k
            BY <4>2, <4>8, Zenon
          <6> HIDE DEF k
          <6>2. j + 1 \in 2 .. k /\ j + 1 \in 1 .. k /\ j + 1 - 1 = j
            BY <6>1, Lower, Zenon
          <6> QED
            BY <6>2, Zenon DEF k
        <5>2. Target(e, j) = fs[j + 1].loop
          BY <4>3, <4>5, <4>8, <5>1 DEF Target
        <5>3. Linked(d, fs[j + 1 - 1], fs[j + 1])
          BY <5>1 DEF Formed
        <5> QED
          BY <4>6, <5>1, <5>2, <5>3, Zenon DEF Linked, terminal
      <4> QED
        BY <4>7, <4>8, Zenon
    (* An execution is an effect of the scope it happens in, ... *)
    <3>ScopeIsEffect.
      ASSUME NEW d, NEW fs, Formed(d, fs), NEW n \in Nodes(d), d.kind[n] \in {"action", "destructive"}
      PROVE  <<Scope(fs), n>> \in Effects(d)
      <4> USE <3>ScopeIsEffect
      <4> DEFINE k == Len(fs)
                 sc == Scope(fs)
                 S == [loop: Nodes(d) \cup {Top}, index: Nat]
      <4>1. fs \in Seq(FrameSet(d)) /\ k \in Nat /\ k > 0 /\ DOMAIN fs = 1 .. k
        BY SeqShape, Zenon DEF Formed
      <4>2. ASSUME NEW i \in 1 .. k PROVE fs[i].loop \in Nodes(d) \cup {Top} /\ fs[i].index \in Nat
        <5>1. fs[i] \in FrameSet(d)
          BY <4>1, SMTT(20)
        <5> QED
          BY <5>1, Zenon DEF FrameSet
      <4>3. sc = [i \in 1 .. k |-> [loop |-> fs[i].loop, index |-> fs[i].index]]
        BY <4>1, Zenon DEF Scope
      <4>4. \A i \in 1 .. k : [loop |-> fs[i].loop, index |-> fs[i].index] \in S
        BY <4>2, Zenon
      <4> HIDE DEF S
      <4>5. sc \in [1 .. k -> S]
        BY <4>3, <4>4, Zenon
      <4>6. sc \in Seq(S) /\ Len(sc) = k
        <5> HIDE DEF sc, k
        <5> QED
          BY <4>1, <4>5, SMTT(20)
      <4>7. \A i \in 2 .. Len(sc) : sc[i].loop \in Nodes(d)
        <5>1. ASSUME NEW i \in 2 .. k PROVE sc[i].loop \in Nodes(d)
          <6>1. Linked(d, fs[i - 1], fs[i])
            BY Zenon DEF Formed
          <6>2. i \in 1 .. k
            BY <4>1, SMTT(20)
          <6>3. sc[i].loop = fs[i].loop
            BY <4>3, <6>2, SMTT(20)
          <6> QED
            BY <6>1, <6>3, Zenon DEF Linked
        <5> QED
          BY <4>6, <5>1, Zenon
      <4> DEFINE e == <<sc, n>>
      <4>8. e[1] = sc /\ e[2] = n /\ e \in Seq(S) \X Nodes(d)
        BY <4>6, SMTT(20)
      <4> HIDE DEF sc, e
      <4>9. Len(e[1]) > 0 /\ d.kind[e[2]] \in {"action", "destructive"} /\ \A i \in 2 .. Len(e[1]) : e[1][i].loop \in Nodes(d)
        BY <4>1, <4>6, <4>7, <4>8, Zenon
      <4>10. e \in Effects(d)
        BY <4>8, <4>9, Zenon DEF Effects, S
      <4> QED
        BY <4>10, Zenon DEF e, sc
    <3> SUFFICES ASSUME FlowAssumption, TInv, RInv, NEW p \in Process, NEW n \in Node, exec(p, n), Up(p), mishaps' = 0 => Solo'
                 PROVE  RInv'
      OBVIOUS
    <3> DEFINE fs == step[p].run.frames
               effect == <<Scope(fs), n>>
    <3>1. /\ Private(p) /\ step[p].pc = "exec" /\ step'[p].pc = "exec"
          /\ step'[p].run = step[p].run /\ DOMAIN step'[p].batch = DOMAIN step[p].batch
          /\ n \in DOMAIN step[p].batch /\ step[p].batch[n] = "" /\ step'[p].batch[n] # ""
          /\ \A m \in DOMAIN step[p].batch \ {n} : step'[p].batch[m] = step[p].batch[m]
          /\ UNCHANGED controlVars
      BY ExecIs, Zenon
    <3>2. /\ def' = def /\ row' = row /\ clash' = clash /\ mishaps' = mishaps
          /\ \A q \in Process \ {p} : step'[q] = step[q]
      BY <3>1, SameDef, Zenon DEF Private, Alone, controlVars
    <3>3. \/ ran' = ran /\ repeated' = repeated
          \/ /\ def.kind[n] \in {"action", "destructive"} /\ ran' = ran \cup {effect}
             /\ repeated' = repeated \/ (effect \in ran /\ repeated' = repeated \cup {effect})
      BY Zenon DEF exec
    <3>4. Formed(def, fs) /\ GoodBatch(def, fs, step[p].batch)
      BY <3>1, CopyIsGood, Zenon DEF TInv, StepOK, Copying
    <3>5. n \in Nodes(def) /\ fs[Len(fs)].nodes[n].s = "running"
      BY <3>1, <3>4, Zenon DEF GoodBatch
    <3>6. effect[1] = Scope(fs) /\ effect[2] = n
      BY SMTT(20)
    <3>7. def.kind[n] \in {"action", "destructive"} => effect \in Effects(def)
      BY <3>4, <3>5, <3>ScopeIsEffect, Zenon
    <3> HIDE DEF effect
    <3>8. ran' \subseteq Effects(def)
      BY <3>3, <3>7, Zenon DEF RInv
    <3>9. CASE mishaps = 0 /\ ~clash
      <4>1. Solo /\ ran \subseteq Effects(def) /\ (\A e \in repeated : e[2] \in def.idempotent) /\ \A e \in Once(def) : Settled(e)
        BY <3>9 DEF RInv
      <4>2. ASSUME effect \in ran PROVE effect[2] \in def.idempotent
        <5> SUFFICES ASSUME effect[2] \notin def.idempotent PROVE FALSE
          BY Zenon
        <5>1. effect \in Once(def) /\ effect \in Effects(def)
          BY <4>1, <4>2 DEF Once
        <5>2. Past(effect, fs) \/ Happened(effect, step[p])
          BY <3>1, <4>1, <5>1, Zenon DEF Settled
        <5>3. ~Happened(effect, step[p])
          BY <3>1, <3>6, Zenon DEF Happened
        <5>4. terminal(fs[Len(fs)].nodes[effect[2]])
          BY <3>4, <3>6, <5>1, <5>2, <5>3, <3>PastBlocks, Zenon
        <5> QED
          BY <3>5, <3>6, <5>4, Zenon DEF terminal
      <4>3. \A e \in repeated' : e[2] \in def.idempotent
        BY <3>3, <4>1, <4>2, Zenon
      <4>4. ~(\A q \in Process : ~Copying(q)')
        BY <3>1, Zenon DEF Copying
      <4>5. ASSUME NEW e, Settled(e) PROVE Settled(e)'
        <5>1. Past(e, step'[p].run.frames) \/ Happened(e, step'[p])
          <6>1. CASE Past(e, fs)
            BY <3>1, <6>1, Zenon
          <6>2. CASE Happened(e, step[p])
            <7>1. e[1] = Scope(fs) /\ e[2] \in DOMAIN step[p].batch /\ step[p].batch[e[2]] # ""
              BY <6>2, Zenon DEF Happened
            <7>2. step'[p].batch[e[2]] # ""
              BY <3>1, <7>1, Zenon
            <7> QED
              BY <3>1, <7>1, <7>2, Zenon DEF Happened
          <6> QED
            BY <3>1, <4>5, <6>1, <6>2, Zenon DEF Settled
        <5> QED
          BY <3>2, <4>4, <4>5, <5>1, <2>OtherCopies, Zenon
      <4>6. ASSUME NEW e, e = effect PROVE Settled(e)'
        <5>1. Happened(e, step'[p])
          BY <3>1, <3>6, <4>6, Zenon DEF Happened
        <5>2. \A q \in Process \ {p} : step'[q].pc = "idle"
          BY <3>2, <4>1, <2>OthersIdle, Zenon
        <5>3. \A q \in Process : step'[q].pc \in {"got", "begin", "loop", "exec"} =>
                Past(e, step'[q].run.frames) \/ Happened(e, step'[q])
          BY <5>1, <5>2, Zenon
        <5> QED
          BY <4>4, <5>3, Zenon DEF Settled
      <4>7. \A e \in ran' : e[2] \notin def.idempotent => Settled(e)'
        <5>1. ASSUME NEW e \in ran', e[2] \notin def.idempotent PROVE Settled(e)'
          <6>1. CASE e \in ran
            BY <4>1, <4>5, <5>1, <6>1, Zenon DEF Once
          <6>2. CASE e = effect
            BY <4>6, <6>2
          <6> QED
            BY <3>3, <6>1, <6>2
        <5> QED
          BY <5>1, Zenon
      <4> QED
        BY <3>2, <3>8, <4>3, <4>7, Zenon DEF RInv, Once
    <3>10. CASE ~(mishaps = 0 /\ ~clash)
      BY <3>2, <3>8, <3>10, Zenon DEF RInv
    <3> QED
      BY <3>9, <3>10, Zenon
  <2>SoloSteps.
    ASSUME TInv, RInv, NEW p \in Process, Alone(p), Up(p), UNCHANGED <<proc, writer>>, Mishap \/ UNCHANGED mishaps
    PROVE  mishaps' = 0 => mishaps = 0 /\ Solo /\ Solo'
    <3> USE <2>SoloSteps
    <3> SUFFICES ASSUME mishaps' = 0 PROVE mishaps = 0 /\ Solo /\ Solo'
      BY Zenon
    <3>1. mishaps = 0
      <4>1. mishaps \in Nat
        BY MishapsAreCounted, Zenon
      <4>2. mishaps' = mishaps \/ Mishap
        OBVIOUS
      <4> QED
        BY <4>1, <4>2, MishapCounts, Zenon
    <3>2. Solo
      BY <3>1, Zenon DEF RInv
    <3>3. ASSUME NEW q \in Process, proc[q] = "new"
          PROVE  (step'[q].pc = "idle" \/ step'[q].pc = step[q].pc) /\ approval'.by # q /\ cancel'.by # q
      <4>1. q # p
        BY <3>3 DEF Up
      <4>2. step'[q] = step[q] /\ approval' = approval /\ cancel' = cancel
        BY <4>1, Zenon DEF Alone
      <4> QED
        BY <3>2, <3>3, <4>2, Zenon DEF Solo
    <3> QED
      BY <3>1, <3>2, <3>3, <1>SoloStays, Zenon
  <2>StepperRepeats.
    ASSUME TInv, RInv, NEW p \in Process, Alone(p), Up(p), UNCHANGED <<proc, writer, effects>>,
           Mishap \/ UNCHANGED mishaps, clash => clash',
           ASSUME NEW e \in Effects(def), e[2] \notin def.idempotent, Settled(e), Solo, mishaps' = 0
           PROVE  Settled(e)'
    PROVE  RInv'
    <3> USE <2>StepperRepeats
    <3>1. mishaps' = 0 => mishaps = 0 /\ Solo /\ Solo'
      BY <2>SoloSteps, Zenon
    <3>2. \A e \in Once(def) : e \in Effects(def) /\ e[2] \notin def.idempotent
      BY Zenon DEF RInv, Once
    <3>3. UNCHANGED <<flow, effects>>
      BY Zenon DEF Alone
    <3>4. mishaps' = 0 /\ ~clash' => mishaps = 0 /\ ~clash /\ \A e \in Once(def) : Settled(e) => Settled(e)'
      BY <3>1, <3>2, Zenon
    <3> QED
      BY <3>1, <3>3, <3>4, <1>RepeatsKept, Zenon
  <2> SUFFICES ASSUME FlowAssumption, TInv, RInv, NEW p \in Process, StepRun(p)
               PROVE  RInv'
    BY Zenon
  <2>1. Up(p) /\ UNCHANGED <<proc, writer>> /\ (Mishap \/ UNCHANGED mishaps)
    BY <2>StepRunUp
  <2>2. ASSUME Private(p), UNCHANGED effects, step[p].pc # "exec" \/ step'[p].pc = "finish", step[p].pc # "finish",
               step'[p].pc \in {"begin", "loop", "exec", "finish"}
        PROVE  RInv'
    <3>1. Alone(p) /\ (clash => clash')
      BY <2>2, Zenon DEF Private
    <3>2. ASSUME NEW e \in Effects(def), Settled(e) PROVE Settled(e)'
      BY <2>2, <3>2, <2>PrivateSettles, Zenon
    <3> QED
      BY <2>1, <2>2, <3>1, <3>2, <2>StepperRepeats, Zenon
  <2>3. ASSUME Drops(p), UNCHANGED effects, ~Copying(p) \/ mishaps' > 0
        PROVE  RInv'
    <3>1. Alone(p) /\ (clash => clash')
      BY <2>3, Zenon DEF Drops
    <3>2. ASSUME NEW e, Settled(e), mishaps' = 0 PROVE Settled(e)'
      BY <2>3, <3>2, <2>DropsSettles
    <3> QED
      BY <2>1, <2>3, <3>1, <3>2, <2>StepperRepeats, Zenon
  <2>4. ASSUME Saves(p), UNCHANGED effects, step[p].pc \in {"begin", "loop"} \/ (Finished(row'.status) /\ step'[p].pc = "hook")
        PROVE  RInv'
    <3>1. Alone(p) /\ (clash => clash')
      BY <2>4, Zenon DEF Saves, Write
    <3>2. ASSUME NEW e \in Effects(def), Settled(e) PROVE Settled(e)'
      <4>1. step[p].pc \in {"begin", "loop"} => Past(e, step[p].run.frames)
        BY <3>2, Zenon DEF Settled, Happened
      <4> QED
        BY <2>4, <3>2, <4>1, <2>SavesSettles, Zenon
    <3> QED
      BY <2>1, <2>4, <3>1, <3>2, <2>StepperRepeats, Zenon
  <2>5. CASE List(p) \/ Leave(p) \/ Release(p)
    BY <2>3, <2>5, ListIs, Zenon
  <2>6. CASE Register(p)
    BY <2>2, <2>6, RegisterIs
  <2>7. CASE StopCancelled(p) \/ StopLate(p) \/ Succeed(p) \/ StopAtLimit(p) \/ Skip(p)
    BY <2>2, <2>7, PrivateTurns, Zenon
  <2>8. CASE Begin(p) \/ StopShutdown(p) \/ park(p) \/ Iterate(p) \/ startLoop(p)
    BY <2>2, <2>3, <2>4, <2>8, SavingTurnsAre, Zenon
  <2>9. CASE runBatch(p)
    BY <2>2, <2>9, RunBatchIs, Counts, Zenon
  <2>10. CASE \E n \in Node : exec(p, n)
    <3>1. PICK n \in Node : exec(p, n)
      BY <2>10
    <3>2. Alone(p)
      BY <3>1, ExecIs, Zenon DEF Private
    <3> QED
      BY <2>1, <3>1, <3>2, <2>SoloSteps, <2>ExecRepeats, Zenon
  <2>11. CASE finish(p)
    BY <2>3, <2>4, <2>11, FinishIs, Zenon
  <2>12. CASE Claimed(p)
    <3>1. ~Copying(p) /\ (Takes(p) \/ Drops(p)) /\ UNCHANGED effects
      BY <2>12, ClaimedIs, Zenon
    <3>2. CASE Takes(p)
      <4>1. Alone(p) /\ (clash => clash')
        BY <3>2, Zenon DEF Takes
      <4>2. ASSUME NEW e, Settled(e), Solo PROVE Settled(e)'
        BY <2>1, <3>2, <4>2, <2>TakesSettles
      <4> QED
        BY <2>1, <3>1, <4>1, <4>2, <2>StepperRepeats, Zenon
    <3> QED
      BY <2>3, <3>1, <3>2
  <2>13. CASE Apply(p)
    <3>1. /\ UNCHANGED effects /\ step[p].pc = "exec"
          /\ \/ Private(p) /\ step'[p].pc = "finish"
             \/ /\ Saves(p) /\ step'[p].pc = "loop"
                /\ row'.frames = Replaced(step[p].run.frames, Applied(p)) /\ Reached(p) = DOMAIN step[p].batch
             \/ Drops(p) /\ mishaps' > 0
      BY <2>13, ApplyIs, Zenon
    <3>2. CASE /\ Saves(p) /\ row'.frames = Replaced(step[p].run.frames, Applied(p))
               /\ Reached(p) = DOMAIN step[p].batch
      <4>1. Alone(p) /\ (clash => clash')
        BY <3>2, Zenon DEF Saves, Write
      <4>2. \A n \in DOMAIN step[p].batch : step[p].batch[n] # ""
        BY <2>13, Zenon DEF Apply
      <4>3. ASSUME NEW e \in Effects(def), e[2] \notin def.idempotent, Settled(e) PROVE Settled(e)'
        BY <3>1, <3>2, <4>2, <4>3, <2>ApplySettles, Zenon
      <4> QED
        BY <2>1, <3>1, <4>1, <4>3, <2>StepperRepeats, Zenon
    <3> QED
      BY <2>2, <2>3, <3>1, <3>2, Zenon
  <2> QED
    BY <2>5, <2>6, <2>7, <2>8, <2>9, <2>10, <2>11, <2>12, <2>13 DEF StepRun
<1>1. CASE UNCHANGED vars
  <2>1. UNCHANGED <<flow, effects, row, clash, step, approval, cancel, proc, writer, mishaps>>
    BY <1>1 DEF vars, runVars, controlVars
  <2>2. (mishaps' = 0 => Solo') /\ \A e : Settled(e) => Settled(e)'
    BY <2>1, Zenon DEF RInv, Solo, Settled, Copying
  <2>3. UNCHANGED <<flow, effects>>
    BY <2>1, Zenon
  <2>4. mishaps' = 0 /\ ~clash' => mishaps = 0 /\ ~clash /\ \A e \in Once(def) : Settled(e) => Settled(e)'
    BY <2>1, <2>2, Zenon
  <2> QED
    BY <2>2, <2>3, <2>4, <1>RepeatsKept, Zenon
<1>2. CASE \E p \in Process : StepRun(p)
  BY <1>2, <1>StepRunRepeats, Zenon
<1>3. CASE \/ \E p \in Process : Approve(p) \/ Cancel(p) \/ RenewRun(p) \/ promoteList(p)
           \/ ApproveDone \/ RequestCancel \/ CancelClaim \/ CancelDone \/ WakeTimePasses \/ RunLeaseRunsOut
  BY <1>3, <1>CallsRepeat
<1>4. CASE Decide \/ CancelWrite
  BY <1>4, <1>WritesRepeat, <1>FaultRepeats, Zenon
<1>5. CASE (ControlStep /\ UNCHANGED runVars) \/ \E p \in Process : Gone(p)
  BY <1>5, <1>ProcessesRepeat, SMTT(20)
<1>6. CASE RunLeaseLapses
  BY <1>6, <1>FaultRepeats, Zenon
<1>7. CASE \E p \in Process : promote(p)
  BY <1>7, <1>PromoteRepeats, Zenon
<1> QED
  BY <1>1, <1>2, <1>3, <1>4, <1>5, <1>6, <1>7, Zenon DEF Next

LEMMA InitRepeats ==
  ASSUME Init
  PROVE  RInv
<1>1. ran = {} /\ repeated = {} /\ step = [p \in Process |-> Idle] /\ proc = [p \in Process |-> "new"]
  BY Zenon DEF Init, ControlInit
<1>2. approval.by = Nobody /\ cancel.by = Nobody
  BY DEF Init, NoCall
<1>3. Solo
  BY <1>1, <1>2, IdleIsOK, ProcessAssumption, Zenon DEF Solo
<1> QED
  BY <1>1, <1>3, Zenon DEF RInv, Once

(* An action whose step must not be repeated takes effect a second time     *)
(* only after a fault or an overwritten row: in a control plane whose       *)
(* processes, saves and lease hold, what happened once is in the row before *)
(* anything can execute it again (runBatch, apply, recoverInterrupted).     *)
THEOREM Repeats == Spec => []RepeatsHaveACause
<1>1. Init => RInv
  BY InitRepeats, Zenon
<1>2. LInv /\ TInv /\ PInv /\ QInv /\ RInv /\ [Next]_vars => RInv'
  BY NextRepeats, FlowAssumption, Zenon
<1>3. TInv /\ RInv => RepeatsHaveACause
  <2> SUFFICES ASSUME TInv, RInv, NEW e \in repeated, e[2] \notin def.idempotent PROVE mishaps > 0 \/ clash
    BY Zenon DEF RepeatsHaveACause
  <2>1. mishaps \in Nat
    BY DEF TInv, ControlTypeOK
  <2> QED
    BY <2>1, SMTT(20) DEF RInv
<1> QED
  BY <1>1, <1>2, <1>3, FramesInductive, PTL DEF Spec

=============================================================================
