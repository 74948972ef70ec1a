----------------------------- MODULE MCDiskGuard -----------------------------
(***************************************************************************)
(* A disk of ten units that is warned about below 4, critical below 2 and  *)
(* in an emergency below 1, with a reserve of 3 that grows by 2: the       *)
(* target is no multiple of the step.                                      *)
(***************************************************************************)
EXTENDS DiskGuard

MCPolicy ==
  [WarnPercent |-> 60, CriticalPercent |-> 80, EmergencyPercent |-> 97,
   WarnFreeBytes |-> 1, CriticalFreeBytes |-> 1, EmergencyFreeBytes |-> 1,
   WarnMaxBytes |-> 5, CriticalMaxBytes |-> 2, EmergencyMaxBytes |-> 2,
   ReserveBytes |-> 4, ReserveMaxPercent |-> 30]
=============================================================================
