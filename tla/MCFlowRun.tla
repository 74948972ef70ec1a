----------------------------- MODULE MCFlowRun -----------------------------
(***************************************************************************)
(* Three small flows for TLC.  Gated: an action, then a gate that asks for *)
(* approval, beside a delay.  Looped: a loop whose body may not be         *)
(* repeated.  Branched: a branch, behind its true port an action and a     *)
(* delay, behind its false port a stop step.                               *)
(***************************************************************************)
EXTENDS FlowRun, TLC

CONSTANTS act, wait, gate, test, each, body, halt

E(a, b, port) == [from |-> a, to |-> b, port |-> port]

Gated ==
  [order |-> <<act, gate, wait>>,
   kind |-> (act :> "action") @@ (wait :> "delay") @@ (gate :> "approval"),
   owner |-> [n \in {act, wait, gate} |-> Top],
   edges |-> {E(Trigger, act, ""), E(Trigger, wait, ""), E(act, gate, "")},
   idempotent |-> {},
   onError |-> (act :> "fail_branch") @@ (wait :> "continue") @@ (gate :> "stop")]

Looped ==
  [order |-> <<each, body>>,
   kind |-> (each :> "loop") @@ (body :> "destructive"),
   owner |-> (each :> Top) @@ (body :> each),
   edges |-> {E(Trigger, each, ""), E(each, body, "each")},
   idempotent |-> {},
   onError |-> (each :> "stop") @@ (body :> "continue")]

Branched ==
  [order |-> <<test, act, wait, halt>>,
   kind |-> (test :> "branch") @@ (act :> "action") @@ (wait :> "delay") @@ (halt :> "stop"),
   owner |-> [n \in {test, act, wait, halt} |-> Top],
   edges |-> {E(Trigger, test, ""), E(test, act, "true"), E(test, wait, "true"), E(test, halt, "false")},
   idempotent |-> {test},
   onError |-> [n \in {test, act, wait, halt} |-> "stop"]]

MCFlows == <<Gated, Looped, Branched>>
MCFlowsLive == <<Gated, Looped>>
\* Bound: one fault, or two calls.
Trouble == 2 * mishaps + calls <= 2
Symmetry == Permutations(Process)
=============================================================================
