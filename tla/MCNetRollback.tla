--------------------------- MODULE MCNetRollback ---------------------------
(* One LAN bridge, one bond of the management uplink and one isolated      *)
(* network.  The address goes when neither the bridge nor the host's own   *)
(* managers configure the uplink.                                          *)
EXTENDS NetRollback

CONSTANTS lan, bond, isolated

MCObject == {lan, bond, isolated}
MCCuts == {<<f, o>> \in (SUBSET MCObject) \X BOOLEAN : ~o /\ lan \notin f}
=============================================================================
