------------------------- MODULE MCRemoteProtection -------------------------
(* One or two restore points that share chunks, and one target.            *)
EXTENDS RemoteProtection, FiniteSetsExt, TLC

CONSTANTS a, b, p1, p2

MCSize == (a :> 1) @@ (b :> 3)
MCBytes(S) == MapThenSumSet(LAMBDA x : MCSize[x], S)

(* p1 writes {a, b}; p2 shares a with it. *)
MCNeed2 == (p1 :> {a, b}) @@ (p2 :> {a})

MCNeedOne == (p1 :> {a})
=============================================================================
