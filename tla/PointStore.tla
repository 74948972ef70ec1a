----------------------------- MODULE PointStore -----------------------------
(***************************************************************************)
(* What the local repository promises its callers, with no packs, indexes, *)
(* locks or crashes: a restore point appears at once, with everything its  *)
(* capture read, keeps exactly that content for as long as it exists, and  *)
(* is gone only when somebody asked for that.                              *)
(***************************************************************************)
EXTENDS Functions

CONSTANTS Chunk, Point

VARIABLES
  offered,  \* offered[p]: the chunks the workload held when p was captured
  seen,     \* points whose capture has ended, published or not
  points    \* the restore points: a function from point to retrievable chunks

storeVars == <<offered, seen, points>>

Init ==
  /\ offered = [p \in Point |-> {}]
  /\ seen = {}
  /\ points = <<>>

(* A capture reads its workload. *)
Offer(p) ==
  /\ p \notin seen
  /\ \E C \in SUBSET Chunk : offered' = [offered EXCEPT ![p] = C]
  /\ UNCHANGED <<seen, points>>

(* A capture completes: its point appears whole. *)
Publish(p) ==
  /\ p \notin seen
  /\ seen' = seen \cup {p}
  /\ points' = [q \in DOMAIN points \cup {p} |->
                  IF q = p THEN offered[p] ELSE points[q]]
  /\ UNCHANGED offered

(* Captures fail or die: nothing of them becomes visible. *)
Abandon(P) ==
  /\ seen' = seen \cup P
  /\ UNCHANGED <<offered, points>>

(* Points are expired or wiped; the content of the others is untouched. *)
Remove(P) ==
  /\ points' = Restrict(points, DOMAIN points \ P)
  /\ UNCHANGED <<offered, seen>>

Next ==
  \/ \E p \in Point : Offer(p) \/ Publish(p)
  \/ \E P \in SUBSET Point : Abandon(P) \/ Remove(P)

Spec == Init /\ [][Next]_storeVars
=============================================================================
