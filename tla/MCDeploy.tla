------------------------------ MODULE MCDeploy ------------------------------
\* Deployments of different projects in one container, for TLC.
EXTENDS Deploy

CONSTANTS box, d1, d2

MCProject == [d \in Deployment |-> d]
MCContainer == [d \in Deployment |-> box]

(* The deployments are alike, so d1 is queued first; and when something    *)
(* fails, only the first one is cancelled.                                 *)
InTurn == (queue # <<>> => Head(queue) = d1) /\ (faults > 0 => ~dep[d2].cancel)
=============================================================================
