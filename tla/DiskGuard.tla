------------------------------ MODULE DiskGuard ------------------------------
(***************************************************************************)
(* The guard of the node agent over the host's disk                       *)
(* (internal/diskguard/guard.go): a reserve file that grows while there is *)
(* room, is given up in an emergency or by an operator, and bulk writes    *)
(* that are refused when the disk is critically full.                      *)
(*                                                                         *)
(* Refreshes are serialized by refreshMu; the disk is not: other programs  *)
(* take and free space between the stat of a refresh and what it does, and *)
(* ReleaseReserve removes the file without the mutex.  One filesystem is   *)
(* modelled, the one that holds the reserve.  statfs answers, and the file *)
(* can be removed: a filesystem without an answer is left out of a refresh *)
(* and Allow then admits, and a removal that fails is tried again by the   *)
(* next refresh.                                                           *)
(***************************************************************************)
EXTENDS Integers

CONSTANTS Caller,         \* goroutines that call the guard
          Watch,          \* the one of watchDisk
          Total,          \* the size of the disk
          Policy,         \* the percentages, floors and caps
          reserveStep,
          MaxTaken,       \* bound: space others take during one refresh
          MaxReleases,    \* bound: releases by an operator
          MaxRestarts     \* bound: restarts of the agent

ASSUME GuardAssumption ==
  /\ Watch \in Caller
  /\ Total \in Nat /\ reserveStep \in Nat \ {0}
  /\ {MaxTaken, MaxReleases, MaxRestarts} \subseteq Nat
  /\ {Policy.WarnPercent, Policy.CriticalPercent, Policy.EmergencyPercent,
      Policy.ReserveMaxPercent} \subseteq 0 .. 100
  /\ {Policy.WarnFreeBytes, Policy.CriticalFreeBytes, Policy.EmergencyFreeBytes,
      Policy.WarnMaxBytes, Policy.CriticalMaxBytes, Policy.EmergencyMaxBytes,
      Policy.ReserveBytes} \subseteq Nat

VARIABLES used,           \* what others hold on the disk
          reserve,        \* the size of the reserve file
          heldOff,        \* the hold-off after a release by an operator runs
          autoReleased,   \* g.autoReleased
          call,           \* what each caller is doing
          refresh,        \* the refresh under way: what it has read, in FS and size
          taken,          \* history: space others took since its stat, and what a
                          \* growth that ran into a full disk took
          releases, restarts

vars == <<used, reserve, heldOff, autoReleased, call, refresh, taken, releases, restarts>>

-----------------------------------------------------------------------------
\* The policy.

threshold(percent, floor, ceiling) ==
  LET share == (Total * (100 - percent)) \div 100
      capped == IF ceiling > 0 /\ share > ceiling THEN ceiling ELSE share
  IN IF capped < floor THEN floor ELSE capped

Warn == threshold(Policy.WarnPercent, Policy.WarnFreeBytes, Policy.WarnMaxBytes)
Critical == threshold(Policy.CriticalPercent, Policy.CriticalFreeBytes, Policy.CriticalMaxBytes)
Emergency == threshold(Policy.EmergencyPercent, Policy.EmergencyFreeBytes, Policy.EmergencyMaxBytes)

Evaluate(avail) ==
  IF avail < Emergency THEN "emergency"
  ELSE IF avail < Critical THEN "critical"
  ELSE IF avail < Warn THEN "warning" ELSE "ok"

ReserveTarget ==
  LET limit == (Total * Policy.ReserveMaxPercent) \div 100
  IN IF Policy.ReserveMaxPercent > 0 /\ limit < Policy.ReserveBytes THEN limit ELSE Policy.ReserveBytes

-----------------------------------------------------------------------------
Free == Total - used - reserve
NoRefresh == [pc |-> "idle", by |-> Watch, free |-> 0, size |-> 0]

Init ==
  /\ used \in 0 .. Total
  /\ reserve = 0 /\ heldOff = FALSE /\ autoReleased = FALSE
  /\ call = [c \in Caller |-> "idle"]
  /\ refresh = NoRefresh /\ taken = 0
  /\ releases = 0 /\ restarts = 0

\* A refresh on its own (watchDisk, status, usage, cleanup), or the one of Allow.
Begin(c) ==
  /\ call[c] = "idle"
  /\ \E what \in IF c = Watch THEN {"look"} ELSE {"look", "allow"} :
       call' = [call EXCEPT ![c] = what]
  /\ UNCHANGED <<used, reserve, heldOff, autoReleased, refresh, taken, releases, restarts>>

\* ReleaseReserve: the file goes first, the hold-off is set when refreshMu is
\* free, and a refresh follows.
RemoveReserve(c) ==
  /\ call[c] = "idle" /\ c # Watch /\ releases < MaxReleases
  /\ reserve' = 0
  /\ call' = [call EXCEPT ![c] = "released"]
  /\ releases' = releases + 1
  /\ UNCHANGED <<used, heldOff, autoReleased, refresh, taken, restarts>>
HoldOff(c) ==
  /\ call[c] = "released" /\ refresh.pc = "idle"
  /\ heldOff' = TRUE /\ autoReleased' = FALSE
  /\ call' = [call EXCEPT ![c] = "look"]
  /\ UNCHANGED <<used, reserve, refresh, taken, releases, restarts>>

\* Refresh takes refreshMu and reads the free space, ...
Stat(c) ==
  /\ call[c] \in {"look", "allow"} /\ refresh.pc = "idle"
  /\ refresh' = [pc |-> "size", by |-> c, free |-> Free, size |-> 0]
  /\ taken' = 0
  /\ UNCHANGED <<used, reserve, heldOff, autoReleased, call, releases, restarts>>

\* ... then reserveSize, ...
ReserveSize ==
  /\ refresh.pc = "size"
  /\ refresh' = [refresh EXCEPT !.pc = "manage", !.size = reserve]
  /\ UNCHANGED <<used, reserve, heldOff, autoReleased, call, taken, releases, restarts>>

\* ... and manageReserve decides on both.
Level == Evaluate(refresh.free)
wantAll == refresh.size + refresh.free - Critical - reserveStep
wantNoMargin ==
  LET room == refresh.free - Critical
  IN IF refresh.size + room < ReserveTarget THEN refresh.size + room ELSE ReserveTarget
want ==
  LET room == refresh.free - Critical - reserveStep
  IN IF refresh.size + room < ReserveTarget THEN refresh.size + room ELSE ReserveTarget
worthGrowingBySteps == want - refresh.size >= reserveStep
worthGrowing == want - refresh.size >= reserveStep \/ (want = ReserveTarget /\ want > refresh.size)

MustReleaseLate == refresh.size > ReserveTarget /\ Level = "emergency"
MustRelease == refresh.size > 0 /\ Level = "emergency"
MayGrow ==
  /\ ~MustRelease /\ refresh.size < ReserveTarget
  /\ ~heldOff /\ ~(autoReleased /\ Level # "ok")
  /\ worthGrowing

\* An emergency; a file that the operator removed meanwhile is not counted.
release ==
  /\ refresh.pc = "manage" /\ MustRelease
  /\ IF reserve > 0
     THEN /\ reserve' = 0 /\ autoReleased' = TRUE
          /\ refresh' = [refresh EXCEPT !.pc = "done", !.free = @ + refresh.size]
     ELSE refresh' = [refresh EXCEPT !.pc = "done"] /\ UNCHANGED <<reserve, autoReleased>>
  /\ UNCHANGED <<used, heldOff, call, taken, releases, restarts>>

\* growReserve: all of it, or as much as there was until the disk was full.
grow ==
  /\ refresh.pc = "manage" /\ MayGrow
  /\ want - reserve <= Free
  /\ reserve' = want /\ autoReleased' = FALSE
  /\ refresh' = [refresh EXCEPT !.pc = "done", !.free = @ + refresh.size - want]
  /\ UNCHANGED <<used, heldOff, call, taken, releases, restarts>>
growFails ==
  /\ refresh.pc = "manage" /\ MayGrow
  /\ want - reserve > Free
  /\ \E got \in 0 .. Free : reserve' = reserve + got /\ taken' = taken + got
  /\ refresh' = [refresh EXCEPT !.pc = "done"]
  /\ UNCHANGED <<used, heldOff, autoReleased, call, releases, restarts>>
keep ==
  /\ refresh.pc = "manage" /\ ~MustRelease /\ ~MayGrow
  /\ refresh' = [refresh EXCEPT !.pc = "done"]
  /\ UNCHANGED <<used, reserve, heldOff, autoReleased, call, taken, releases, restarts>>

\* Refresh returns; Allow judges what it returned.
allowsCritical == Level # "emergency"
allows == Level \notin {"critical", "emergency"}
Return ==
  /\ refresh.pc = "done"
  /\ call' = [call EXCEPT ![refresh.by] = IF @ = "allow" /\ allows THEN "admitted" ELSE "idle"]
  /\ refresh' = NoRefresh
  /\ UNCHANGED <<used, reserve, heldOff, autoReleased, taken, releases, restarts>>
\* The bulk write that was admitted is over; what it writes is in Take.
WriteEnds(c) ==
  /\ call[c] = "admitted"
  /\ call' = [call EXCEPT ![c] = "idle"]
  /\ UNCHANGED <<used, reserve, heldOff, autoReleased, refresh, taken, releases, restarts>>

\* Everybody else on the disk.
Take ==
  /\ Free > 0 /\ taken < MaxTaken
  /\ used' = used + 1
  /\ taken' = IF refresh.pc = "idle" THEN 0 ELSE taken + 1
  /\ UNCHANGED <<reserve, heldOff, autoReleased, call, refresh, releases, restarts>>
GiveBack ==
  /\ used > 0
  /\ used' = used - 1
  /\ UNCHANGED <<reserve, heldOff, autoReleased, call, refresh, taken, releases, restarts>>

\* ReleaseHoldOff has passed.
HoldOffEnds ==
  /\ heldOff
  /\ heldOff' = FALSE
  /\ UNCHANGED <<used, reserve, autoReleased, call, refresh, taken, releases, restarts>>

\* The agent restarts: the file is all that stays.
Restart ==
  /\ restarts < MaxRestarts
  /\ restarts' = restarts + 1
  /\ heldOff' = FALSE /\ autoReleased' = FALSE
  /\ call' = [c \in Caller |-> "idle"]
  /\ refresh' = NoRefresh
  /\ UNCHANGED <<used, reserve, taken, releases>>

RefreshStep == ReserveSize \/ release \/ grow \/ growFails \/ keep \/ Return
Next ==
  \/ RefreshStep
  \/ \E c \in Caller : Begin(c) \/ RemoveReserve(c) \/ HoldOff(c) \/ Stat(c) \/ WriteEnds(c)
  \/ Take \/ GiveBack \/ HoldOffEnds \/ Restart

\* watchDisk calls again every 30 seconds, what was called goes on, and six
\* hours pass.  Nothing is assumed of those who fill the disk.
Fairness ==
  /\ WF_vars(Begin(Watch)) /\ WF_vars(\E c \in Caller : Stat(c) \/ HoldOff(c))
  /\ WF_vars(RefreshStep) /\ WF_vars(HoldOffEnds)

Spec == Init /\ [][Next]_vars
FairSpec == Spec /\ Fairness
-----------------------------------------------------------------------------
TypeOK ==
  /\ used \in 0 .. Total /\ reserve \in 0 .. Total /\ used + reserve <= Total
  /\ heldOff \in BOOLEAN /\ autoReleased \in BOOLEAN
  /\ call \in [Caller -> {"idle", "look", "allow", "released", "admitted"}]
  /\ refresh.pc \in {"idle", "size", "manage", "done"} /\ refresh.by \in Caller
  /\ refresh.free \in 0 .. Total /\ refresh.size \in 0 .. Total
  /\ taken \in Nat

\* The reserve never holds more than its target.
WithinTarget == reserve <= ReserveTarget

\* The guard does not fill the disk itself: when it has extended the reserve,
\* the disk is a step away from critical, or others have taken the missing
\* space since the guard looked; also when an operator removed the file in
\* the middle.
GrowthSafe == [][reserve' > reserve => Total - used' - reserve' >= Critical + reserveStep - taken']_vars

\* A bulk write is admitted only when, after all that the refresh did with the
\* reserve, the disk is not critical, but for what others took meanwhile.
AdmissionSafe ==
  [][\A c \in Caller : call'[c] = "admitted" /\ call[c] # "admitted" => Free >= Critical - taken]_vars

\* In an emergency the reserve is given up, or the emergency ends without.
EmergencyReleases ==
  (reserve > 0 /\ Free < Emergency) ~> (reserve = 0 \/ Free >= Emergency)

\* Once the disk keeps room for it, and stays healthy with it, the reserve is
\* taken in full, however it was lost.
Roomy == Total - used - ReserveTarget >= Warn /\ Total - used - ReserveTarget >= Critical + reserveStep
ReserveReturns == <>[]Roomy => <>[](reserve = ReserveTarget)
=============================================================================
