--------------------------- MODULE DiskGuardProofs ---------------------------
(***************************************************************************)
(* For every disk, policy and step: the guard's refresh keeps account of   *)
(* the space it decides about.  What it read (the free space, then the     *)
(* size of the reserve) is out of date when it acts; the invariant says by *)
(* how much at most, in terms of what others took since the stat.          *)
(***************************************************************************)
EXTENDS DiskGuard, TLAPS

LEMMA ThresholdNat ==
  ASSUME NEW percent \in 0 .. 100, NEW floor \in Nat, NEW ceiling \in Nat
  PROVE  threshold(percent, floor, ceiling) \in Nat
<1>1. Total * (100 - percent) \in Int
  BY GuardAssumption
<1>2. (Total * (100 - percent)) \div 100 \in Int
  BY <1>1
<1> QED
  BY <1>2 DEF threshold

LEMMA CriticalNat == Critical \in Nat
  BY ThresholdNat, GuardAssumption DEF Critical

LEMMA TargetNat == ReserveTarget \in Nat
<1>1. Total * Policy.ReserveMaxPercent \in Nat
  BY GuardAssumption
<1>2. (Total * Policy.ReserveMaxPercent) \div 100 \in Nat
  BY <1>1
<1> QED
  BY <1>2, GuardAssumption DEF ReserveTarget

\* What want promises when growing is worth it.
LEMMA WantBounds ==
  ASSUME refresh.free \in Int, refresh.size \in Nat, MayGrow
  PROVE  /\ want \in Nat /\ want > refresh.size /\ want <= ReserveTarget
         /\ want - refresh.size <= refresh.free - Critical - reserveStep
  BY CriticalNat, TargetNat, GuardAssumption DEF MayGrow, worthGrowing, want

-----------------------------------------------------------------------------
\* The refresh under way: the space that is not the others' is at least what
\* it believes, less what they took since the stat.
Accounted ==
  /\ {"pc", "by", "free", "size"} \subseteq DOMAIN refresh
  /\ refresh.pc = "size" =>
       /\ refresh.free + reserve <= Total
       /\ Total - used >= refresh.free + reserve - taken
  /\ refresh.pc = "manage" =>
       /\ refresh.free + refresh.size <= Total
       /\ reserve <= refresh.size
       /\ Total - used >= refresh.free + refresh.size - taken
  /\ refresh.pc = "done" => Free >= refresh.free - taken

GInv == TypeOK /\ WithinTarget /\ Accounted

LEMMA InitHolds == Init => GInv
<1> SUFFICES ASSUME Init PROVE GInv
  OBVIOUS
<1>1. TypeOK
  <2>1. refresh.pc = "idle" /\ refresh.by \in Caller /\ refresh.free = 0 /\ refresh.size = 0
    BY GuardAssumption DEF Init, NoRefresh
  <2>2. call \in [Caller -> {"idle", "look", "allow", "released", "admitted"}]
    BY DEF Init
  <2>3. heldOff \in BOOLEAN /\ autoReleased \in BOOLEAN
    BY DEF Init
  <2>4. used \in 0 .. Total /\ reserve = 0 /\ taken = 0
    BY DEF Init
  <2> QED
    BY <2>1, <2>2, <2>3, <2>4, GuardAssumption DEF TypeOK
<1>2. WithinTarget /\ Accounted
  BY TargetNat DEF Init, WithinTarget, Accounted, NoRefresh
<1> QED
  BY <1>1, <1>2 DEF GInv

\* Calls that leave the disk and the refresh alone.
LEMMA CallsKeep ==
  ASSUME GInv, NEW c \in Caller, Begin(c) \/ HoldOff(c) \/ WriteEnds(c) \/ HoldOffEnds
  PROVE  GInv'
<1>1. UNCHANGED <<used, reserve, refresh, taken>>
  BY DEF Begin, HoldOff, WriteEnds, HoldOffEnds
<1>2. heldOff' \in BOOLEAN /\ autoReleased' \in BOOLEAN
  BY DEF Begin, HoldOff, WriteEnds, HoldOffEnds, GInv, TypeOK
<1>3. call' \in [Caller -> {"idle", "look", "allow", "released", "admitted"}]
  BY DEF Begin, HoldOff, WriteEnds, HoldOffEnds, GInv, TypeOK
<1> QED
  BY <1>1, <1>2, <1>3 DEF GInv, TypeOK, WithinTarget, Accounted, Free

LEMMA RemoveKeeps ==
  ASSUME GInv, NEW c \in Caller, RemoveReserve(c)
  PROVE  GInv'
  BY TargetNat, GuardAssumption DEF RemoveReserve, GInv, TypeOK, WithinTarget, Accounted, Free

LEMMA StatKeeps ==
  ASSUME GInv, NEW c \in Caller, Stat(c)
  PROVE  GInv'
  BY GuardAssumption DEF Stat, GInv, TypeOK, WithinTarget, Accounted, Free

LEMMA RefreshKeeps ==
  ASSUME GInv, RefreshStep
  PROVE  GInv'
<1> USE GuardAssumption DEF GInv, TypeOK, WithinTarget, Accounted, Free
<1>1. CASE ReserveSize
  BY <1>1 DEF ReserveSize
<1>2. CASE release
  <2>1. CASE reserve > 0
    <3>1. /\ refresh' = [refresh EXCEPT !.pc = "done", !.free = @ + refresh.size]
          /\ refresh.pc = "manage" /\ reserve' = 0 /\ autoReleased' = TRUE
          /\ UNCHANGED <<used, heldOff, call, taken>>
      BY <1>2, <2>1 DEF release
    <3>2. /\ refresh'.pc = "done" /\ refresh'.free = refresh.free + refresh.size
          /\ refresh'.by = refresh.by /\ refresh'.size = refresh.size
          /\ {"pc", "by", "free", "size"} \subseteq DOMAIN refresh'
      BY <3>1
    <3> QED
      BY <3>1, <3>2, TargetNat
  <2>2. CASE ~(reserve > 0)
    BY <1>2, <2>2 DEF release
  <2> QED
    BY <2>1, <2>2
<1>3. CASE grow
  <2>1. /\ want \in Nat /\ want > refresh.size /\ want <= ReserveTarget
        /\ want - refresh.size <= refresh.free - Critical - reserveStep
    BY <1>3, WantBounds DEF grow
  <2>2. /\ refresh' = [refresh EXCEPT !.pc = "done", !.free = @ + refresh.size - want]
        /\ refresh.pc = "manage" /\ reserve' = want /\ autoReleased' = FALSE
        /\ want - reserve <= Free
        /\ UNCHANGED <<used, heldOff, call, taken>>
    BY <1>3 DEF grow
  <2>3. /\ refresh'.pc = "done" /\ refresh'.free = refresh.free + refresh.size - want
        /\ refresh'.by = refresh.by /\ refresh'.size = refresh.size
        /\ {"pc", "by", "free", "size"} \subseteq DOMAIN refresh'
    BY <2>2
  <2>4. heldOff' \in BOOLEAN /\ autoReleased' \in BOOLEAN
    BY <2>2
  <2>5. refresh'.free \in 0 .. Total /\ reserve' \in 0 .. Total /\ used' + reserve' <= Total
    BY <2>1, <2>2, <2>3, CriticalNat, TargetNat
  <2>6. Accounted'
    BY <2>1, <2>2, <2>3, CriticalNat, TargetNat
  <2> QED
    BY <2>1, <2>2, <2>3, <2>4, <2>5, <2>6
<1>4. CASE growFails
  <2>1. want \in Nat /\ want <= ReserveTarget
    BY <1>4, WantBounds DEF growFails
  <2>2. PICK got \in 0 .. Free : reserve' = reserve + got /\ taken' = taken + got
    BY <1>4 DEF growFails
  <2> QED
    BY <1>4, <2>1, <2>2, TargetNat DEF growFails
<1>5. CASE keep
  BY <1>5 DEF keep
<1>6. CASE Return
  BY <1>6 DEF Return, NoRefresh
<1> QED
  BY <1>1, <1>2, <1>3, <1>4, <1>5, <1>6 DEF RefreshStep

LEMMA OthersKeep ==
  ASSUME GInv, Take \/ GiveBack \/ Restart
  PROVE  GInv'
<1> USE GuardAssumption DEF GInv, TypeOK, WithinTarget, Accounted, Free
<1>1. CASE Take
  BY <1>1 DEF Take
<1>2. CASE GiveBack
  BY <1>2 DEF GiveBack
<1>3. CASE Restart
  <2>1. /\ refresh'.pc = "idle" /\ refresh'.by \in Caller /\ refresh'.free = 0 /\ refresh'.size = 0
        /\ {"pc", "by", "free", "size"} \subseteq DOMAIN refresh'
    BY <1>3 DEF Restart, NoRefresh
  <2>2. call' \in [Caller -> {"idle", "look", "allow", "released", "admitted"}]
    BY <1>3 DEF Restart
  <2>3. heldOff' \in BOOLEAN /\ autoReleased' \in BOOLEAN
    BY <1>3 DEF Restart
  <2>4. UNCHANGED <<used, reserve, taken>>
    BY <1>3 DEF Restart
  <2> QED
    BY <2>1, <2>2, <2>3, <2>4
<1> QED
  BY <1>1, <1>2, <1>3

LEMMA NextKeeps ==
  ASSUME GInv, [Next]_vars
  PROVE  GInv'
<1>1. CASE UNCHANGED vars
  BY <1>1 DEF vars, GInv, TypeOK, WithinTarget, Accounted, Free
<1>2. CASE HoldOffEnds
  BY <1>2, CallsKeep, GuardAssumption
<1> QED
  BY <1>1, <1>2, CallsKeep, RemoveKeeps, StatKeeps, RefreshKeeps, OthersKeep DEF Next

\* The types, the reserve's bound and the account of a refresh, for every disk
\* and policy.
THEOREM Inductive == Spec => []GInv
<1>1. Init => GInv
  BY InitHolds
<1>2. GInv /\ [Next]_vars => GInv'
  BY NextKeeps
<1> QED
  BY <1>1, <1>2, PTL DEF Spec

\* The reserve never holds more than its target.
THEOREM Bounded == Spec => []WithinTarget
<1>1. GInv => WithinTarget
  BY DEF GInv
<1> QED
  BY <1>1, Inductive, PTL

\* After every extension of the reserve the disk is a step away from critical,
\* but for what others took since the guard looked.
THEOREM Growth == Spec => GrowthSafe
<1>1. ASSUME GInv, [Next]_vars, reserve' > reserve
      PROVE  Total - used' - reserve' >= Critical + reserveStep - taken'
  <2>1. grow \/ growFails
    BY <1>1 DEF Next, vars, RefreshStep, ReserveSize, release, keep, Return, Begin, RemoveReserve,
                HoldOff, Stat, WriteEnds, Take, GiveBack, HoldOffEnds, Restart, GInv, TypeOK
  <2>2. /\ want \in Nat /\ want > refresh.size /\ want <= ReserveTarget
        /\ want - refresh.size <= refresh.free - Critical - reserveStep
    BY <1>1, <2>1, WantBounds DEF grow, growFails, GInv, TypeOK
  <2>3. CASE grow
    BY <1>1, <2>2, <2>3, CriticalNat, GuardAssumption DEF grow, GInv, TypeOK, Accounted, Free
  <2>4. CASE growFails
    <3>1. PICK got \in 0 .. Free : reserve' = reserve + got /\ taken' = taken + got
      BY <2>4 DEF growFails
    <3>2. UNCHANGED used /\ want - reserve > Free /\ refresh.pc = "manage"
      BY <2>4 DEF growFails
    <3> QED
      BY <1>1, <2>2, <3>1, <3>2, CriticalNat, GuardAssumption DEF GInv, TypeOK, Accounted, Free
  <2> QED
    BY <2>1, <2>3, <2>4
<1>2. GInv /\ [Next]_vars =>
        [reserve' > reserve => Total - used' - reserve' >= Critical + reserveStep - taken']_vars
  BY <1>1
<1> QED
  BY <1>2, Inductive, PTL DEF Spec, GrowthSafe

\* A bulk write is admitted only on a disk that is not critical, but for what
\* others took since the guard looked.
THEOREM Admission == Spec => AdmissionSafe
<1>1. ASSUME GInv, [Next]_vars, NEW c \in Caller, call'[c] = "admitted", call[c] # "admitted"
      PROVE  Free >= Critical - taken
  <2>1. Return
    BY <1>1 DEF Next, vars, RefreshStep, ReserveSize, release, grow, growFails, keep, Begin, RemoveReserve,
                HoldOff, Stat, WriteEnds, Take, GiveBack, HoldOffEnds, Restart, GInv, TypeOK
  <2>2. refresh.pc = "done" /\ allows
    BY <1>1, <2>1 DEF Return, GInv, TypeOK
  <2>3. refresh.free >= Critical
    <3>1. refresh.free \in Int
      BY <1>1, GuardAssumption DEF GInv, TypeOK
    <3>2. ~(refresh.free < Emergency)
      BY <2>2 DEF allows, Level, Evaluate
    <3>3. ~(refresh.free < Critical)
      BY <2>2, <3>2 DEF allows, Level, Evaluate
    <3> QED
      BY <3>1, <3>3, CriticalNat
  <2> QED
    BY <1>1, <2>2, <2>3, CriticalNat, GuardAssumption DEF GInv, TypeOK, Accounted, Free
<1>2. GInv /\ [Next]_vars =>
        [\A c \in Caller : call'[c] = "admitted" /\ call[c] # "admitted" => Free >= Critical - taken]_vars
  BY <1>1
<1> QED
  BY <1>2, Inductive, PTL DEF Spec, AdmissionSafe
=============================================================================
