---------------------------- MODULE MCLiveUpdate ----------------------------
(* Three bundles, one more than prune keeps, and two packages.             *)
EXTENDS LiveUpdate, TLC

CONSTANTS ba, bb, bc, pa, pb

MCComps == (ba :> <<"control">>) @@ (bb :> <<"control", "ui">>) @@ (bc :> <<"ui">>)
MCPackages == <<pa, pb>>

(* The third bundle is applied to its end only where nothing has crashed.  *)
(* After a mishap nothing more is claimed than that updates end.           *)
Modest ==
  /\ crashes > 0 => bc \in inbox
  /\ mishap => bc \in inbox /\ Len(history) < 2
=============================================================================
