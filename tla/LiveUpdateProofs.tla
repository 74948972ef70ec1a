-------------------------- MODULE LiveUpdateProofs --------------------------
(***************************************************************************)
(* Proofs about the live updater, for every set of bundles, whatever they  *)
(* replace, every sequence of packages and any number of faults and        *)
(* crashes.                                                                *)
(*                                                                         *)
(* An update puts its build on top of the one that was there and keeps     *)
(* that one under saved/<id>.  The invariant follows these layers: what is *)
(* saved for an applied update, and what is installed, fits the history    *)
(* below it.  A rollback that began and was not recorded (torn) leaves     *)
(* either build of its layer.                                              *)
(***************************************************************************)
EXTENDS LiveUpdate, WellFoundedInduction, TLAPS

Entry == [id : Bundle, prevUI : Bundle \cup {""}, back : BOOLEAN]

(* Positions of the updater at which it applies, and at which it restores. *)
Applying == {"clear", "keep", "phase", "install", "start"}
Restoring == {"restore", "restart"}

Local ==
  [pc : Applying \cup Restoring \cup {"rest", "pass", "prune", "drop"},
   b : Bundle \cup {""}, i : Nat, todo : Seq(Component),
   for : {"", "recover", "fail", "rollback"}, prevUI : Bundle \cup {""},
   err : BOOLEAN, hist : Seq(Entry)]

(* What the updater remembers agrees with what it has saved, at every      *)
(* position it can be at.                                                  *)
Position ==
  /\ u \in Local
  /\ u.pc \notin {"rest", "pass"} => u.b \in Bundle
  /\ u.pc \in Restoring <=> u.for # ""
  /\ u.err => u.pc \in Restoring
  /\ u.pc \in Applying => pending.id = u.b
  /\ u.pc \in {"clear", "keep"} => pending.phase = "saving"
  /\ u.pc \in {"keep", "phase"} => u.i \in 1 .. Len(Comps[u.b]) + 1
  /\ u.pc \in {"install", "start"} => u.i \in 1 .. Len(Comps[u.b])
  /\ u.pc = "phase" =>
       pending.phase = IF u.i = 1 THEN "saving" ELSE Comps[u.b][u.i - 1]
  /\ u.pc \in {"install", "start"} => pending.phase = Comps[u.b][u.i]
  /\ u.pc = "start" => Comps[u.b][u.i] # "ui"
  /\ u.pc = "restart" => u.todo # <<>> /\ Last # "ui"
  /\ u.for \in {"recover", "fail"} =>
       pending.id = u.b /\ pending.prevUI = u.prevUI
  /\ u.for = "rollback" =>
       /\ pending = NoPending /\ Applied(history) # {}
       /\ history[Newest(history)].id = u.b
       /\ history[Newest(history)].prevUI = u.prevUI
  /\ u.pc \in Restoring =>
       \A c \in Component : c \in Range(u.todo) => c \in Range(Comps[u.b])
  /\ u.pc = "prune" =>
       \/ pending = NoPending /\ u.hist = history
       \/ /\ pending.id = u.b
          /\ Len(u.hist) = Len(history) + 1
          /\ \A i \in DOMAIN history : u.hist[i] = history[i]
  /\ pending # NoPending =>
       pending.phase = "saving" \/ pending.phase \in Range(Comps[pending.id])

CurrentIsNewest ==
  current = IF Applied(history) = {} THEN "" ELSE history[Newest(history)].id

(* Type correctness, and what holds whatever went wrong. *)
TInv == TypeOK /\ Position /\ CurrentIsNewest

(* The applied updates of H below position i, and those that replace c. *)
Under(H, i) == {j \in Applied(H) : j < i}
Below(H, i, c) == {j \in Under(H, i) : c \in Range(Comps[H[j].id])}

Top(S, m) == m \in S /\ \A j \in S : j <= m

Known(H, i) == Range(Packages) \cup {""} \cup {H[j].id : j \in Under(H, i)}

(* v is what a host with the history H has, or had, for c below position   *)
(* i: the build of the newest update that replaces c, or the one saved for *)
(* it if its rollback is in T, or else what the package k brought.         *)
Fits(H, T, sv, k, i, c, v) ==
  /\ Below(H, i, c) = {} => v = IF c = "ui" THEN "" ELSE Packages[k]
  /\ \A m \in Below(H, i, c) :
       Top(Below(H, i, c), m) =>
         \/ v = H[m].id
         \/ /\ H[m].id \in T
            /\ v \in Known(H, m)
            /\ IF c = "ui" THEN v = H[m].prevUI
                           ELSE sv[H[m].id][c] \in {"", v}

(* Rollbacks that began and are not recorded, the running one included. *)
Begun == torn \cup IF u.for = "rollback" THEN {u.b} ELSE {}

Fit(i, c, v) == Fits(history, Begun, saved, pkg, i, c, v)
Here == Len(history) + 1

(* The applied updates are different bundles; what each of them saved and  *)
(* recorded fits the updates below it.                                     *)
Layers ==
  /\ \A i, j \in Applied(history) : history[i].id = history[j].id => i = j
  /\ torn \subseteq {history[i].id : i \in Applied(history)}
  /\ \A i \in Applied(history) :
       LET e == history[i]
       IN  /\ "ui" \in Range(Comps[e.id]) => Fit(i, "ui", e.prevUI)
           /\ \A c \in Binary : c \in Range(Comps[e.id]) =>
                saved[e.id][c] = "" \/ Fit(i, c, saved[e.id][c])

(* What was there before the update b, whose apply began with the UI w. *)
Was(b, w, c) == IF c = "ui" THEN w ELSE saved[b][c]

(* The pending update has come to c. *)
Reached(c) ==
  \E i, j \in DOMAIN Comps[pending.id] :
    i <= j /\ Comps[pending.id][i] = c /\ Comps[pending.id][j] = pending.phase

(* Without a pending update the installed components fit the history; a    *)
(* rollback in progress has put back what it is past.                      *)
Unchanged ==
  pending = NoPending =>
    /\ \A c \in Component : Fit(Here, c, Installed(c))
    /\ u.for = "rollback" /\ ~u.err =>
         \A c \in Component : c \in Range(Comps[u.b]) =>
           c \in Range(u.todo) \/ Installed(c) = Was(u.b, u.prevUI, c)

(* With one, the components it does not replace fit. *)
Besides ==
  /\ \A i \in Applied(history) : history[i].id # pending.id
  /\ Fit(Here, "ui", pending.prevUI)
  /\ \A c \in Component :
       c \notin Range(Comps[pending.id]) => Fit(Here, c, Installed(c))

(* Before the first phase nothing is replaced. *)
NotYet ==
  /\ \A c \in Component : Fit(Here, c, Installed(c))
  /\ ui = pending.prevUI
  /\ u.pc # "clear" =>
       \A c \in Binary : saved[pending.id][c] \in {"", bin[c]}

(* Later what is kept of c fits, and c is the old or, once the update has  *)
(* come to it, the new build; a restore has put back what it is past.      *)
Halfway(c) ==
  LET was == Was(pending.id, pending.prevUI, c)
  IN  /\ Fit(Here, c, was)
      /\ c # "ui" => was # ""
      /\ Installed(c) = was \/ (Reached(c) /\ Installed(c) = pending.id)
      /\ u.for \in {"recover", "fail"} /\ ~u.err =>
           c \in Range(u.todo) \/ Installed(c) = was

Replacing ==
  pending # NoPending =>
    /\ Besides
    /\ pending.phase = "saving" => NotYet
    /\ pending.phase # "saving" =>
         \A c \in Component : c \in Range(Comps[pending.id]) => Halfway(c)

(* How far apply has come. *)
Stages ==
  LET S == Comps[u.b]
  IN  /\ u.pc = "keep" =>
           \A j \in 1 .. u.i - 1 : S[j] # "ui" => saved[u.b][S[j]] = bin[S[j]]
      /\ u.pc = "phase" /\ u.i = 1 =>
           \A c \in Binary : c \in Range(S) => saved[u.b][c] = bin[c]
      /\ u.pc \in {"phase", "install", "start"} =>
           \A j \in 1 .. u.i - 1 : Installed(S[j]) = u.b
      /\ u.pc = "install" =>
           \A j \in u.i .. Len(S) : Installed(S[j]) = Was(u.b, pending.prevUI, S[j])
      /\ u.pc = "start" => bin[S[u.i]] = u.b
      /\ u.pc = "restart" => bin[Last] = saved[u.b][Last]

(* A service runs something else than its installed binary only where the  *)
(* updater is about to restart it, was told that it failed, or left the    *)
(* binary of an update that is still pending.                              *)
Running ==
  \A c \in Binary :
    \/ run[c] = bin[c]
    \/ u.err
    \/ u.pc = "restart" /\ c = Last
    \/ u.pc = "start" /\ c = Comps[u.b][u.i]
    \/ /\ pending # NoPending /\ u.pc \notin {"phase", "install", "start"}
       /\ Reached(c) /\ bin[c] = pending.id

Sound == Layers /\ Unchanged /\ Replacing /\ Stages /\ Running

HInv == ~mishap => Sound

(* Of the updates that prune keeps nothing is gone that a rollback needs.  *)
Undoable(i) ==
  Window(i) =>
    /\ history[i].id \in releases
    /\ \A c \in Binary :
         c \in Range(Comps[history[i].id]) => saved[history[i].id][c] # ""

Whole ==
  /\ u.pc \in Applying \cup {"prune"} => u.b \in releases
  /\ \A i \in Applied(history) : Undoable(i)

KInv == ~mishap => Whole

(* No step brings an update back among those that prune keeps. *)
Shrinks == \A i \in DOMAIN history : Window(i)' => Window(i)

-----------------------------------------------------------------------------
(* The phase that pending names is one of its bundle's. *)
PendingOK ==
  pending # NoPending =>
    pending.phase = "saving" \/ pending.phase \in Range(Comps[pending.id])

(* What a prefix of a history holds: the updates before the i-th.          *)
LEMMA Before ==
  ASSUME NEW H \in Seq(Entry), NEW i \in 1 .. Len(H)
  PROVE  LET G == SubSeq(H, 1, i - 1)
         IN  /\ G \in Seq(Entry) /\ Len(G) = i - 1 /\ i - 1 \in Nat
             /\ DOMAIN G = 1 .. i - 1 /\ DOMAIN H = 1 .. Len(H) /\ Len(H) \in Nat
             /\ \A j \in 1 .. i - 1 : j \in 1 .. Len(H) /\ G[j] = H[j]
OBVIOUS

(* The components done once the i-th is: those before it, and the i-th.    *)
LEMMA UpTo ==
  ASSUME NEW n \in Nat, NEW i \in 1 .. n, NEW j \in 1 .. i + 1 - 1
  PROVE  j \in 1 .. n /\ (j \in 1 .. i - 1 \/ j = i)
OBVIOUS

(* What a step that leaves the variables of a conjunct alone preserves.    *)
LEMMA Frame ==
  ASSUME TInv
  PROVE  /\ UNCHANGED <<current, history>> => CurrentIsNewest'
         /\ UNCHANGED <<u, pending, history>> => Position'
         /\ UNCHANGED pending => PendingOK'
         /\ UNCHANGED <<files, state, inbox, pkg, crashes, notes>> => TypeOK'
<1>1. UNCHANGED <<current, history>> => CurrentIsNewest'
  BY Zenon DEF TInv, CurrentIsNewest
<1>2. UNCHANGED <<u, pending, history>> => Position'
  BY Zenon DEF TInv, Position, Last
<1>3. UNCHANGED pending => PendingOK'
  BY Zenon DEF TInv, Position, PendingOK
<1>4. UNCHANGED <<files, state, inbox, pkg, crashes, notes>> => TypeOK'
  BY Zenon DEF TInv, TypeOK, files, state, notes
<1>5. QED
  BY <1>1, <1>2, <1>3, <1>4

(* What is still applied was, and nothing of it is gone. *)
LEMMA WholeKept ==
  ASSUME Whole, Shrinks,
         \A i \in Applied(history') :
           /\ i \in Applied(history) /\ history'[i].id = history[i].id
           /\ history[i].id \in releases => history[i].id \in releases'
           /\ \A c \in Binary : saved'[history[i].id][c] = saved[history[i].id][c],
         u'.pc \in Applying \cup {"prune"} => u'.b \in releases'
  PROVE  Whole'
<1>1. ASSUME NEW i \in Applied(history'), Window(i)' PROVE Undoable(i)'
  <2>1. Undoable(i) /\ Window(i)
    BY <1>1, Zenon DEF Whole, Shrinks, Applied
  <2>2. history'[i].id = history[i].id /\ history[i].id \in releases'
    BY <2>1, Zenon DEF Undoable
  <2>3. \A c \in Binary : saved'[history[i].id][c] = saved[history[i].id][c]
    OBVIOUS
  <2>4. QED
    BY <2>1, <2>2, <2>3, Zenon DEF Undoable
<1>2. \A i \in Applied(history') : Undoable(i)'
  BY <1>1, Zenon DEF Undoable
<1>3. QED
  BY <1>2, Zenon DEF Whole

(* The updater's place as far as it matters here. *)
Places == u'.pc \in Applying \cup {"prune"} =>
            u.pc \in Applying \cup {"prune"} /\ u'.b = u.b

LEMMA WholeStays ==
  ASSUME Whole, Shrinks, Places, UNCHANGED <<history, releases, saved>>
  PROVE  Whole'
<1>1. u'.pc \in Applying \cup {"prune"} => u'.b \in releases'
  BY Zenon DEF Whole, Places
<1>2. QED
  BY <1>1, WholeKept, Zenon

(* What a step of the updater keeps: the types, the layers until a mishap,  *)
(* and all that a rollback needs of the updates that prune keeps.           *)
Keeps ==
  /\ TInv'
  /\ Sound /\ ~mishap' => Sound'
  /\ Sound /\ Whole /\ Shrinks /\ ~mishap' => Whole'

LEMMA StutterKeeps == TInv /\ UNCHANGED vars => Keeps
<1> SUFFICES ASSUME TInv, UNCHANGED vars PROVE Keeps
  OBVIOUS
<1>1. TInv'
  BY Frame DEF vars, state, TInv
<1>2. UNCHANGED <<bin, run, ui, releases, saved, pending, history, pkg, torn, u>>
  BY DEF vars, files, state, notes
<1>3. ASSUME Sound PROVE Sound'
  <2>2. Here' = Here /\ Last' = Last /\ Begun' = Begun
    BY <1>2 DEF Here, Last, Begun
  <2>3. \A c : Installed(c)' = Installed(c) /\ Reached(c)' = Reached(c)
    BY <1>2 DEF Installed, Reached
  <2>4. \A i, c, v : Fit(i, c, v)' = Fit(i, c, v)
    BY <1>2, <2>2 DEF Fit
  <2>5. \A b, w, c : Was(b, w, c)' = Was(b, w, c)
    BY <1>2 DEF Was
  <2>6. Layers' = Layers
    BY <1>2, <2>2, SMTT(30) DEF Layers, Fit
  <2>7. Unchanged' = Unchanged
    BY <1>2, <2>2, <2>3, <2>4, <2>5, Zenon DEF Unchanged
  <2>8. Besides' = Besides /\ NotYet' = NotYet /\ \A c : Halfway(c)' = Halfway(c)
    BY <1>2, <2>2, <2>3, <2>4, <2>5, Zenon DEF Besides, NotYet, Halfway
  <2>9. Replacing' = Replacing
    BY <1>2, <2>8, Zenon DEF Replacing
  <2>10. Stages' = Stages
    BY <1>2, Zenon DEF Stages, Installed, Was, Last
  <2>11. Running' = Running
    BY <1>2, <2>2, <2>3, Zenon DEF Running
  <2>12. QED
    BY <1>3, <2>6, <2>7, <2>9, <2>10, <2>11 DEF Sound
<1>4. ASSUME Whole, Shrinks PROVE Whole'
  BY <1>2, <1>4, WholeStays DEF Places
<1>5. QED
  BY <1>1, <1>3, <1>4, Zenon DEF Keeps

-----------------------------------------------------------------------------
(* prune. *)

(* A set of naturals with an upper bound has a greatest element. *)
LEMMA Greatest ==
  ASSUME NEW n \in Nat, NEW S \in SUBSET (1 .. n), S # {}
  PROVE  \E m \in S : Top(S, m)
<1> DEFINE T == {n - s : s \in S}
<1>1. T \subseteq Nat /\ T # {}
  <2>1. \A s \in S : n - s \in Nat
    OBVIOUS
  <2>2. PICK s \in S : TRUE
    BY Zenon
  <2>3. n - s \in T
    OBVIOUS
  <2>4. QED
    BY <2>1, <2>3
<1>2. PICK x \in T : \A y \in T : ~(<<y, x>> \in OpToRel(<, Nat))
  BY <1>1, NatLessThanWellFounded, WFMin, Zenon
<1>3. \A y \in T : x <= y
  <2> SUFFICES ASSUME NEW y \in T PROVE x <= y
    OBVIOUS
  <2>1. x \in Nat /\ y \in Nat
    BY <1>1
  <2>2. ~(y < x)
    BY <1>2, <2>1, Zenon DEF OpToRel
  <2>3. QED
    BY <2>1, <2>2
<1>4. PICK m \in S : x = n - m
  OBVIOUS
<1>5. \A j \in S : j <= m
  <2> SUFFICES ASSUME NEW j \in S PROVE j <= m
    OBVIOUS
  <2>1. n - j \in T
    BY Zenon
  <2>2. n - m <= n - j
    BY <1>3, <1>4, <2>1
  <2>3. j \in 1 .. n /\ m \in 1 .. n
    OBVIOUS
  <2>4. QED
    BY <2>2, <2>3
<1>6. QED
  BY <1>5 DEF Top

(* Then Max is that element. *)
LEMMA MaxIsTop ==
  ASSUME NEW n \in Nat, NEW S \in SUBSET (1 .. n), S # {}
  PROVE  Top(S, Max(S))
<1>1. \E m \in S : \A y \in S : m >= y
  BY Greatest, Zenon DEF Top
<1>2. Max(S) \in S /\ \A y \in S : Max(S) >= y
  BY <1>1, Zenon DEF Max
<1>3. QED
  BY <1>2 DEF Top

LEMMA BelowDomain ==
  ASSUME NEW H \in Seq(Entry), NEW i, NEW c
  PROVE  /\ Applied(H) \subseteq 1 .. Len(H)
         /\ Under(H, i) \subseteq 1 .. Len(H)
         /\ Below(H, i, c) \subseteq 1 .. Len(H)
BY DEF Applied, Under, Below

(* The updater between two operations. *)
Quiet == u = Rest \/ u = Pass \/ \E b \in Bundle : u = Drop(b)

LEMMA RestFields ==
  /\ <<>> \in Seq(Component) /\ <<>> \in Seq(Entry)
  /\ Rest \in Local /\ Rest.pc = "rest" /\ Rest.for = "" /\ ~Rest.err
  /\ Pass \in Local /\ Pass.pc = "pass" /\ Pass.for = "" /\ ~Pass.err
  /\ \A b \in Bundle : /\ Drop(b) \in Local /\ Drop(b).pc = "drop"
                       /\ Drop(b).for = "" /\ ~Drop(b).err /\ Drop(b).b = b
<1>1. <<>> \in Seq(Component) /\ <<>> \in Seq(Entry)
  OBVIOUS
<1>2. QED
  BY <1>1, Zenon DEF Rest, Pass, Drop, Local, Applying, Restoring

LEMMA IdlePosition ==
  ASSUME u' \in Local, u'.for = "", ~u'.err,
         \/ u'.pc = "rest"
         \/ u'.pc = "pass"
         \/ u'.pc = "drop" /\ u'.b \in Bundle,
         PendingOK'
  PROVE  Position'
BY Zenon DEF Position, PendingOK, Applying, Restoring

LEMMA QuietPosition ==
  ASSUME Quiet', PendingOK'
  PROVE  Position'
<1>1. /\ u' \in Local /\ u'.for = "" /\ ~u'.err
      /\ \/ u'.pc = "rest"
         \/ u'.pc = "pass"
         \/ u'.pc = "drop" /\ u'.b \in Bundle
  BY RestFields, Zenon DEF Quiet
<1>2. QED
  BY <1>1, IdlePosition, Zenon

LEMMA NewestIs ==
  ASSUME NEW H \in Seq(Entry), Applied(H) # {}
  PROVE  /\ Top(Applied(H), Newest(H)) /\ Newest(H) \in 1 .. Len(H)
         /\ H[Newest(H)] \in Entry /\ H[Newest(H)].id \in Bundle
         /\ H[Newest(H)].prevUI \in Bundle \cup {""}
<1>1. Applied(H) \in SUBSET (1 .. Len(H)) /\ Len(H) \in Nat
  BY BelowDomain
<1>2. Top(Applied(H), Newest(H))
  BY <1>1, MaxIsTop, Zenon DEF Newest
<1>3. Newest(H) \in 1 .. Len(H)
  BY <1>1, <1>2 DEF Top
<1>4. H[Newest(H)] \in Entry
  BY <1>3
<1>5. QED
  BY <1>2, <1>3, <1>4, Zenon DEF Entry

LEMMA Recorded ==
  ASSUME TInv
  PROVE  history \in Seq(Entry) /\ Len(history) \in Nat
<1>1. history \in Seq([id : Bundle, prevUI : Bundle \cup {""},
                       back : BOOLEAN])
  BY Zenon DEF TInv, TypeOK
<1>2. history \in Seq(Entry)
  BY <1>1, Zenon DEF Entry
<1>3. Len(history) \in Nat
  BY <1>2
<1>4. QED
  BY <1>2, <1>3

(* The layers.  Most steps add nothing to the history, take back no        *)
(* rollback that began, and change nothing that is saved for an applied    *)
(* update, other than to remove it.                                        *)
Steady ==
  /\ history' = history /\ pkg' = pkg /\ Begun \subseteq Begun'
  /\ \A i \in Applied(history) : \A c \in Binary :
       LET id == history[i].id
       IN  saved'[id][c] # "" => saved'[id][c] = saved[id][c]

Fit1(i, c, v) == Fits(history', Begun', saved', pkg', i, c, v)

LEMMA FitKept ==
  \A i : \A c \in Component : \A v :
      /\ Steady
      /\ Fit(i, c, v)
      => Fit1(i, c, v)
(* More rollbacks may have begun, and saved binaries may have gone. *)
<1>FitsLess.
  ASSUME NEW H, NEW T, NEW T2, T \subseteq T2, NEW sv, NEW sv2, NEW k,
         NEW i, NEW c, NEW v, Fits(H, T, sv, k, i, c, v),
         \A j \in Below(H, i, c) : c # "ui" /\ sv2[H[j].id][c] # "" =>
            sv2[H[j].id][c] = sv[H[j].id][c]
  PROVE  Fits(H, T2, sv2, k, i, c, v)
  BY <1>FitsLess, Zenon DEF Fits
<1> SUFFICES ASSUME Steady, NEW i, NEW c \in Component, NEW v, Fit(i, c, v)
             PROVE  Fit1(i, c, v)
  OBVIOUS
<1>1. \A j \in Below(history, i, c) : c # "ui" /\ saved'[history[j].id][c] # "" =>
        saved'[history[j].id][c] = saved[history[j].id][c]
  <2>1. \A j \in Below(history, i, c) : j \in Applied(history)
    BY DEF Below, Under
  <2>2. c # "ui" => c \in Binary
    BY DEF Component
  <2>3. QED
    BY <2>1, <2>2, Zenon DEF Steady
<1>2. Begun \subseteq Begun' /\ Fits(history, Begun, saved, pkg, i, c, v)
  BY Zenon DEF Steady, Fit
<1>3. Fits(history, Begun', saved', pkg, i, c, v)
  BY <1>1, <1>2, <1>FitsLess, Zenon
<1>4. QED
  BY <1>3, Zenon DEF Steady, Fit1

(* What an applied update rests on. *)
Rests(i) ==
  LET e == history[i]
  IN  /\ "ui" \in Range(Comps[e.id]) => Fit(i, "ui", e.prevUI)
      /\ \A c \in Binary : c \in Range(Comps[e.id]) =>
           saved[e.id][c] = "" \/ Fit(i, c, saved[e.id][c])

LEMMA LayersAre ==
  Layers <=>
    /\ \A i, j \in Applied(history) : history[i].id = history[j].id => i = j
    /\ torn \subseteq {history[i].id : i \in Applied(history)}
    /\ \A i \in Applied(history) : Rests(i)
BY Zenon DEF Layers, Rests

LEMMA LayersKept ==
  ASSUME TInv, Layers, Steady, torn' \subseteq Begun
  PROVE  Layers'
<1>BegunIsApplied.
  ASSUME TInv, Layers
  PROVE  Begun \subseteq {history[i].id : i \in Applied(history)}
  <2> USE <1>BegunIsApplied
  <2>1. torn \subseteq {history[i].id : i \in Applied(history)}
    BY LayersAre
  <2>2. ASSUME u.for = "rollback" PROVE u.b \in {history[i].id : i \in Applied(history)}
    <3>1. Applied(history) # {} /\ history[Newest(history)].id = u.b
      BY <2>2 DEF TInv, Position
    <3>2. Newest(history) \in Applied(history)
      BY <3>1, Recorded, NewestIs, Zenon DEF Top
    <3>3. QED
      BY <3>1, <3>2, Zenon
  <2>3. QED
    BY <2>1, <2>2 DEF Begun
<1>1. history' = history
  BY Zenon DEF Steady
<1>2. \A i, j \in Applied(history) : history[i].id = history[j].id => i = j
  BY LayersAre
<1>3. torn' \subseteq {history[i].id : i \in Applied(history)}
  BY <1>BegunIsApplied
<1>4. ASSUME NEW i \in Applied(history) PROVE Rests(i)'
  <2> DEFINE e == history[i]
  <2>1. Rests(i)
    BY LayersAre
  <2>2. "ui" \in Range(Comps[e.id]) => Fit1(i, "ui", e.prevUI)
    BY <2>1, FitKept, Zenon DEF Rests, Component
  <2>3. ASSUME NEW c \in Binary, c \in Range(Comps[e.id])
        PROVE  saved'[e.id][c] = "" \/ Fit1(i, c, saved'[e.id][c])
    <3>1. saved'[e.id][c] # "" => saved'[e.id][c] = saved[e.id][c]
      BY Zenon DEF Steady
    <3>2. saved[e.id][c] = "" \/ Fit(i, c, saved[e.id][c])
      BY <2>1, <2>3, Zenon DEF Rests
    <3>3. c \in Component
      BY DEF Component
    <3>4. QED
      BY <3>1, <3>2, <3>3, FitKept, Zenon
  <2>4. QED
    BY <1>1, <2>2, <2>3, Zenon DEF Rests, Fit, Fit1
<1>5. QED
  BY <1>1, <1>2, <1>3, <1>4, Zenon DEF Layers, Rests

(* A service whose binary a pending update left behind. *)
Behind(c) == pending # NoPending /\ Reached(c) /\ bin[c] = pending.id

(* The updater is at no operation afterwards, and nothing on the host has  *)
(* changed but what is saved, and the services.                            *)
LEMMA IdleSound ==
  ASSUME TInv, Sound, Steady, torn' \subseteq Begun,
         bin' = bin, ui' = ui, pending' = pending,
         u'.for = "", u'.pc \in {"rest", "pass", "drop", "prune"},
         pending # NoPending => \A c \in Binary : saved'[pending.id][c] = saved[pending.id][c],
         u.pc = "clear" => \A c \in Binary : saved[u.b][c] \in {"", bin[c]},
         \A c \in Binary : run'[c] = bin[c] \/ Behind(c)
  PROVE  Sound'
<1>1. Layers'
  BY LayersKept, Zenon DEF Sound
<1>2. Here' = Here /\ \A c : Installed(c)' = Installed(c) /\ Reached(c)' = Reached(c)
  BY Zenon DEF Steady, Here, Installed, Reached
<1>4. \A c \in Component : Fit(Here, c, Installed(c)) => Fit(Here, c, Installed(c))'
  BY <1>2, FitKept, Zenon DEF Fit1, Fit
<1>5. Unchanged'
  BY <1>4, Zenon DEF Sound, Unchanged
<1>6. ASSUME pending # NoPending PROVE Besides'
  <2>1. Besides /\ history' = history
    BY <1>6, Zenon DEF Sound, Replacing, Steady
  <2>2. Fit(Here, "ui", pending.prevUI)'
    BY <1>2, <2>1, FitKept, Zenon DEF Fit1, Fit, Besides, Component
  <2>3. QED
    BY <1>4, <2>1, <2>2, Zenon DEF Besides
<1>7. ASSUME pending # NoPending, pending.phase = "saving" PROVE NotYet'
  <2>1. NotYet
    BY <1>7, Zenon DEF Sound, Replacing
  <2>2. \A c \in Binary : saved[pending.id][c] \in {"", bin[c]}
    <3>1. CASE u.pc = "clear"
      <4>1. pending.id = u.b
        BY <3>1, Zenon DEF TInv, Position, Applying
      <4>2. QED
        BY <3>1, <4>1, Zenon
    <3>2. CASE u.pc # "clear"
      BY <2>1, <3>2, Zenon DEF NotYet
    <3>3. QED
      BY <3>1, <3>2, Zenon
  <2>3. QED
    BY <1>4, <1>7, <2>1, <2>2, Zenon DEF NotYet
<1>8. ASSUME pending # NoPending, NEW c \in Component, Halfway(c)
      PROVE  Halfway(c)'
  <2>1. Was(pending.id, pending.prevUI, c)' = Was(pending.id, pending.prevUI, c)
    BY <1>8, Zenon DEF Was, Component
  <2>2. Fit(Here, c, Was(pending.id, pending.prevUI, c))'
    BY <1>2, <1>8, <2>1, FitKept, Zenon DEF Fit1, Fit, Halfway
  <2>3. QED
    BY <1>2, <1>8, <2>1, <2>2, Zenon DEF Halfway
<1>9. Replacing'
  BY <1>6, <1>7, <1>8, Zenon DEF Sound, Replacing
<1>10. Stages'
  BY Zenon DEF Stages
<1>11. Running'
  BY <1>2, Zenon DEF Running, Behind
<1>12. QED
  BY <1>1, <1>5, <1>9, <1>10, <1>11, Zenon DEF Sound

LEMMA IdleRunning ==
  ASSUME TInv, Sound, ~u.err, u.pc \notin {"start", "restart"}
  PROVE  /\ \A c \in Binary : run[c] = bin[c] \/ Behind(c)
         /\ u.pc \in {"phase", "install"} => \A c \in Binary : run[c] = bin[c]
         /\ pending = NoPending => \A c \in Binary : run[c] = bin[c]
BY DEF Sound, Running, Behind

LEMMA AppliedIn ==
  ASSUME TInv, NEW i \in Applied(history)
  PROVE  /\ i \in 1 .. Len(history) /\ history[i].id \in Bundle
         /\ history[i].prevUI \in Bundle \cup {""}
<1>1. history \in Seq(Entry) /\ i \in 1 .. Len(history)
  BY Recorded, BelowDomain
<1>2. history[i] \in Entry
  BY <1>1
<1>3. QED
  BY <1>1, <1>2, Zenon DEF Entry

LEMMA PruneKeeps == TInv /\ prune => Keeps
<1>PruneTypes.
  ASSUME TInv, prune
  PROVE  /\ TInv' /\ u.pc = "prune" /\ u.b \in Bundle /\ u' = Drop(u.b)
         /\ \A b \in Bundle : \A c \in Binary :
              saved'[b][c] = saved[b][c] \/ (b \notin Kept /\ saved'[b][c] = "")
  <2> USE <1>PruneTypes
  <2>1. u.b \in Bundle /\ u.pc = "prune" /\ u' = Drop(u.b)
    BY Zenon DEF TInv, Position, prune
  <2>2. saved \in [Bundle -> [Binary -> Build \cup {""}]] /\ releases \subseteq Bundle
    BY Zenon DEF TInv, TypeOK
  <2>3. CurrentIsNewest' /\ PendingOK'
    BY Frame, Zenon DEF prune, state
  <2>4. Position'
    BY <2>1, <2>3, QuietPosition DEF Quiet
  <2>5. saved' = [b \in Bundle |-> IF b \in Kept THEN saved[b] ELSE [c \in Binary |-> ""]]
    BY Zenon DEF prune
  <2> HIDE DEF Kept
  <2>6. saved' \in [Bundle -> [Binary -> Build \cup {""}]]
    BY <2>2, <2>5, Zenon
  <2>7. releases' \subseteq Bundle
    BY <2>2, Zenon DEF prune
  <2>8. TypeOK'
    BY <2>6, <2>7, Zenon DEF TInv, TypeOK, prune, state, notes
  <2>9. \A b \in Bundle : \A c \in Binary :
          saved'[b][c] = saved[b][c] \/ (b \notin Kept /\ saved'[b][c] = "")
    BY <2>2, <2>5, Zenon
  <2>10. QED
    BY <2>1, <2>3, <2>4, <2>8, <2>9, Zenon DEF TInv
<1>PruneSound.
  ASSUME TInv, Sound, prune
  PROVE  Sound'
  <2> USE <1>PruneSound
  <2>1. /\ u.pc = "prune" /\ u.b \in Bundle /\ u' = Drop(u.b)
        /\ \A b \in Bundle : \A c \in Binary :
             saved'[b][c] = saved[b][c] \/ (b \notin Kept /\ saved'[b][c] = "")
    BY <1>PruneTypes, Zenon
  <2>2. u.for = "" /\ ~u.err
    BY <2>1, Zenon DEF TInv, Position, Restoring
  <2>3. u'.for = "" /\ u'.pc = "drop"
    BY <2>1, RestFields, Zenon
  <2>4. history' = history /\ pkg' = pkg /\ Begun' = Begun /\ Begun = torn /\ torn' = torn
    BY <2>2, <2>3, Zenon DEF prune, state, notes, Begun
  <2>5. \A i \in Applied(history) : history[i].id \in Bundle
    BY AppliedIn, Zenon
  <2>6. Steady
    BY <2>1, <2>4, <2>5, Zenon DEF Steady
  <2>7. ASSUME pending # NoPending, NEW c \in Binary
        PROVE  saved'[pending.id][c] = saved[pending.id][c]
    <3>1. pending.id = u.b
      BY <2>1, <2>7, Zenon DEF TInv, Position
    <3>2. u.b \in Kept
      BY DEF Kept
    <3>3. QED
      BY <2>1, <3>1, <3>2, Zenon
  <2>8. \A c \in Binary : run'[c] = bin[c] \/ Behind(c)
    BY <2>1, <2>2, IdleRunning, Zenon DEF prune
  <2>9. bin' = bin /\ ui' = ui /\ pending' = pending
    BY Zenon DEF prune, state
  <2>10. QED
    BY <2>1, <2>3, <2>4, <2>6, <2>7, <2>8, <2>9, IdleSound, Zenon
(* prune keeps the updates in the window, by a history that may be one     *)
(* longer than state.json's.                                               *)
<1>PruneWhole.
  ASSUME TInv, Whole, Shrinks, prune
  PROVE  Whole'
  <2> USE <1>PruneWhole
  <2>1. /\ u.pc = "prune" /\ u.b \in Bundle /\ u' = Drop(u.b)
        /\ \A b \in Bundle : \A c \in Binary :
             b \in Kept => saved'[b][c] = saved[b][c]
    BY <1>PruneTypes, Zenon
  <2>2. keepReleases \in Nat
    BY CompsAssumption, Zenon
  <2>3. ASSUME NEW i \in Applied(history), Window(i) PROVE history[i].id \in Kept
    <3>1. i \in 1 .. Len(history) /\ Len(history) \in Nat
      BY AppliedIn, Recorded, Zenon
    <3>2. u.hist \in Seq(Entry)
      BY Zenon DEF TInv, Position, Local
    <3>3. /\ Len(u.hist) \in {Len(history), Len(history) + 1}
          /\ u.hist[i] = history[i]
      <4>1. CASE u.hist = history
        BY <3>1, <4>1
      <4>2. CASE /\ Len(u.hist) = Len(history) + 1
                 /\ \A j \in DOMAIN history : u.hist[j] = history[j]
        <5>1. i \in DOMAIN history
          BY <3>1, Recorded
        <5>2. QED
          BY <4>2, <5>1
      <4>3. QED
        BY <2>1, <4>1, <4>2, Zenon DEF TInv, Position
    <3>4. i \in DOMAIN u.hist /\ i + keepReleases > Len(u.hist)
      BY <2>2, <2>3, <3>1, <3>2, <3>3 DEF Window
    <3>5. u.hist[i].id \in Kept
      BY <3>4, Zenon DEF Kept
    <3>6. QED
      BY <3>3, <3>5
  <2>4. history' = history /\ releases' = releases \cap Kept
    BY Zenon DEF prune, state
  <2>5. u'.pc \notin Applying \cup {"prune"}
    BY <2>1, RestFields, Zenon DEF Applying
  <2>6. ASSUME NEW i \in Applied(history), Window(i)
        PROVE  /\ history[i].id \in releases'
               /\ \A c \in Binary : c \in Range(Comps[history[i].id]) =>
                    saved'[history[i].id][c] # ""
    <3>1. Undoable(i) /\ history[i].id \in Bundle /\ history[i].id \in Kept
      BY <2>3, <2>6, AppliedIn, Zenon DEF Whole
    <3>2. QED
      BY <2>1, <2>4, <2>6, <3>1, Zenon DEF Undoable
  <2>7. \A i \in Applied(history') : Undoable(i)'
    BY <2>4, <2>6, Zenon DEF Undoable, Window
  <2>8. QED
    BY <2>5, <2>7, Zenon DEF Whole
<1> QED
  BY <1>PruneTypes, <1>PruneSound, <1>PruneWhole, Zenon DEF Keeps

-----------------------------------------------------------------------------
(* A rollback is recorded. *)

(* A value that fits is a package's build, or that of an update below. *)
LEMMA FitsKnown ==
  \A H \in Seq(Entry) : \A T : \A sv : \A k \in DOMAIN Packages : \A i \in Nat : \A c : \A v :
      Fits(H, T, sv, k, i, c, v)
      => v \in Known(H, i)
<1>UnderMono.
  ASSUME NEW H \in Seq(Entry), NEW m \in Nat, NEW i \in Nat, m <= i
  PROVE  Under(H, m) \subseteq Under(H, i) /\ Known(H, m) \subseteq Known(H, i)
  <2> USE <1>UnderMono
  <2>1. ASSUME NEW j \in Under(H, m) PROVE j \in Under(H, i)
    <3>1. j \in Applied(H) /\ j < m
      BY DEF Under
    <3>2. j \in Nat
      BY <3>1, BelowDomain
    <3>3. j < i
      BY <3>1, <3>2
    <3>4. QED
      BY <3>1, <3>3 DEF Under
  <2>2. QED
    BY <2>1, Zenon DEF Known
<1> SUFFICES ASSUME NEW H \in Seq(Entry), NEW T, NEW sv, NEW k \in DOMAIN Packages,
                    NEW i \in Nat, NEW c, NEW v, Fits(H, T, sv, k, i, c, v)
             PROVE  v \in Known(H, i)
  OBVIOUS
<1>1. CASE Below(H, i, c) = {}
  BY <1>1, Zenon DEF Fits, Known, Range
<1>2. CASE Below(H, i, c) # {}
  <2>1. Below(H, i, c) \in SUBSET (1 .. Len(H)) /\ Len(H) \in Nat
    BY BelowDomain
  <2>2. PICK m \in Below(H, i, c) : Top(Below(H, i, c), m)
    BY <1>2, <2>1, Greatest, Zenon
  <2>3. m \in Nat /\ m \in Under(H, i) /\ m < i
    BY <2>1 DEF Below, Under
  <2>4. Known(H, m) \subseteq Known(H, i)
    BY <2>3, <1>UnderMono
  <2>5. H[m].id \in Known(H, i)
    BY <2>3, Zenon DEF Known
  <2>6. v = H[m].id \/ v \in Known(H, m)
    BY <2>2, Zenon DEF Fits
  <2>7. QED
    BY <2>4, <2>5, <2>6
<1>3. QED
  BY <1>1, <1>2
Back(H, n) == [H EXCEPT ![n].back = TRUE]

LEMMA Constants ==
  /\ "" \notin Bundle /\ "" \notin Build /\ "down" \notin Build
  /\ \A b \in Bundle : /\ b \notin Range(Packages)
                       /\ Comps[b] \in Seq(Component)
                       /\ Len(Comps[b]) \in Nat
                       /\ DOMAIN Comps[b] = 1 .. Len(Comps[b])
                       /\ Range(Comps[b]) \subseteq Component
  /\ \A b \in Bundle : \A i, j \in 1 .. Len(Comps[b]) :
       Comps[b][i] = Comps[b][j] => i = j
  /\ \A k \in DOMAIN Packages : Packages[k] \in Build
  /\ Len(Packages) \in Nat \ {0} /\ DOMAIN Packages = 1 .. Len(Packages)
<1>1. \A b \in Bundle : /\ Comps[b] \in Seq(Component)
                        /\ Len(Comps[b]) \in Nat
                        /\ DOMAIN Comps[b] = 1 .. Len(Comps[b])
  <2>1. Comps \in [Bundle -> Seq(Component)]
    BY CompsAssumption, Zenon
  <2>2. QED
    BY <2>1
<1>2. \A b \in Bundle : Range(Comps[b]) \subseteq Component
  BY <1>1 DEF Range
<1>3. \A b \in Bundle : \A i, j \in 1 .. Len(Comps[b]) :
        Comps[b][i] = Comps[b][j] => i = j
  <2>1. \A b \in Bundle : IsInjective(Comps[b])
    BY CompsAssumption, Zenon
  <2>2. QED
    BY <1>1, <2>1 DEF IsInjective
<1>4. /\ "" \notin Bundle /\ "" \notin Build /\ "down" \notin Build
      /\ \A b \in Bundle : b \notin Range(Packages)
  BY CompsAssumption, Zenon DEF Build
<1>5. \A k \in DOMAIN Packages : Packages[k] \in Build
  BY DEF Build, Range
<1>6. Len(Packages) \in Nat \ {0} /\ DOMAIN Packages = 1 .. Len(Packages)
  BY CompsAssumption, Zenon
<1>7. QED
  BY <1>1, <1>2, <1>3, <1>4, <1>5, <1>6, Zenon

LEMMA HasPackage == TInv => pkg \in DOMAIN Packages
BY Zenon DEF TInv, TypeOK

(* Undoing the newest update, while that is not recorded. *)
Undoes(H, sv, n, c, v) ==
  /\ v \in Known(H, n)
  /\ IF c = "ui" THEN v = H[n].prevUI ELSE sv[H[n].id][c] \in {"", v}

Saved(b, c) == saved[b][c] # ""

(* What a rollback puts back. *)
LEMMA RollbackFits ==
  \A c \in Component :
      /\ TInv
      /\ Sound
      /\ u.for = "rollback"
      /\ c \in Range(Comps[u.b])
      /\ c = "ui" \/ Saved(u.b, c)
      => /\ Fit(Here, c, Was(u.b, u.prevUI, c))
         /\ Fit(Newest(history), c, Was(u.b, u.prevUI, c))
<1>FitsUndone.
  ASSUME NEW H \in Seq(Entry), NEW n, Top(Applied(H), n), NEW c, NEW v, NEW T,
         NEW sv, NEW k, c \in Range(Comps[H[n].id]), H[n].id \in T,
         Undoes(H, sv, n, c, v)
  PROVE  Fits(H, T, sv, k, Len(H) + 1, c, v)
  <2> USE <1>FitsUndone
  <2>1. Applied(H) \subseteq 1 .. Len(H) /\ n \in Applied(H)
    BY BelowDomain, Zenon DEF Top
  <2>2. n \in Below(H, Len(H) + 1, c)
    <3>1. n \in 1 .. Len(H) /\ Len(H) \in Nat
      BY <2>1, SMTT(20)
    <3>2. n < Len(H) + 1
      BY <3>1, SMTT(20)
    <3>3. QED
      BY <2>1, <3>2, Zenon DEF Below, Under
  <2>3. ASSUME NEW m \in Below(H, Len(H) + 1, c), Top(Below(H, Len(H) + 1, c), m) PROVE m = n
    <3>1. m \in Applied(H) /\ n <= m
      BY <2>2, <2>3 DEF Below, Under, Top
    <3>2. m <= n
      BY <3>1, SMTT(20) DEF Top
    <3>3. QED
      BY <2>1, <3>1, <3>2, SMTT(20)
  <2>4. QED
    BY <2>2, <2>3, Zenon DEF Fits, Undoes
<1> SUFFICES ASSUME TInv, Sound, u.for = "rollback", NEW c \in Component,
                    c \in Range(Comps[u.b]), c = "ui" \/ Saved(u.b, c)
             PROVE  /\ Fit(Here, c, Was(u.b, u.prevUI, c))
                    /\ Fit(Newest(history), c, Was(u.b, u.prevUI, c))
  OBVIOUS
<1> DEFINE n == Newest(history)
           v == Was(u.b, u.prevUI, c)
<1>1. history[n].id = u.b /\ history[n].prevUI = u.prevUI /\ Applied(history) # {}
  BY Zenon DEF TInv, Position
<1>2. history \in Seq(Entry) /\ Len(history) \in Nat
  BY Recorded
<1>3. Top(Applied(history), n) /\ n \in 1 .. Len(history)
  BY <1>1, <1>2, NewestIs, Zenon
<1> HIDE DEF n
<1>4. Rests(n)
  BY <1>3, LayersAre DEF Sound, Top
<1>5. Fit(n, c, v)
  BY <1>1, <1>4, Zenon DEF Rests, Was, Saved, Component
<1>6. v \in Known(history, n)
  <2>1. pkg \in DOMAIN Packages
    BY HasPackage
  <2> HIDE DEF v
  <2>2. n \in Nat
    BY <1>3
  <2>3. QED
    BY <1>2, <1>5, <2>1, <2>2, FitsKnown, SMTT(20) DEF Fit
<1>7. u.b \in Begun
  BY DEF Begun
<1>8. Undoes(history, saved, n, c, v)
  BY <1>1, <1>6 DEF Was, Undoes
<1> HIDE DEF v
<1>9. Fits(history, Begun, saved, pkg, Len(history) + 1, c, v)
  BY <1>1, <1>2, <1>3, <1>7, <1>8, <1>FitsUndone, Zenon
<1>10. QED
  BY <1>5, <1>9 DEF Fit, Here, n, v

LEMMA RolledBackKeeps == TInv /\ rolledBack => Keeps
<1>AppliedBack.
  ASSUME NEW H \in Seq(Entry), NEW n \in Applied(H)
  PROVE  /\ Back(H, n) \in Seq(Entry)
         /\ Len(Back(H, n)) = Len(H)
         /\ \A j \in 1 .. Len(H) : /\ Back(H, n)[j].id = H[j].id
                                   /\ Back(H, n)[j].prevUI = H[j].prevUI
         /\ Applied(Back(H, n)) = Applied(H) \ {n}
  <2>1. n \in 1 .. Len(H) /\ DOMAIN H = 1 .. Len(H)
    BY BelowDomain
  <2>2. \A j \in 1 .. Len(H) : H[j] \in Entry
    BY <2>1
  <2>3. \A j \in 1 .. Len(H) :
          Back(H, n)[j] = IF j = n THEN [H[j] EXCEPT !.back = TRUE] ELSE H[j]
    BY <2>1, Zenon DEF Back
  <2>4. [H[n] EXCEPT !.back = TRUE] \in Entry
    BY <2>1, <2>2, Zenon DEF Entry
  <2>5. DOMAIN Back(H, n) = 1 .. Len(H) /\ Len(Back(H, n)) = Len(H)
    BY <2>1 DEF Back
  <2>6. Back(H, n) \in Seq(Entry)
    BY <2>1, <2>4 DEF Back
  <2>7. \A j \in 1 .. Len(H) : /\ Back(H, n)[j].id = H[j].id
                               /\ Back(H, n)[j].prevUI = H[j].prevUI
                               /\ Back(H, n)[j].back = (j = n \/ H[j].back)
    BY <2>2, <2>3, Zenon DEF Entry
  <2>8. Applied(Back(H, n)) = Applied(H) \ {n}
    BY <2>1, <2>5, <2>7, Zenon DEF Applied
  <2>9. QED
    BY <2>5, <2>6, <2>7, <2>8
<1>RolledBackTypes.
  ASSUME TInv, rolledBack
  PROVE  /\ TInv' /\ u.b \in Bundle /\ u' = Pass
         /\ u.pc = "restore" /\ u.todo = <<>> /\ u.for = "rollback"
         /\ pending = NoPending /\ pending' = NoPending
         /\ Top(Applied(history), Newest(history))
         /\ history[Newest(history)].id = u.b
         /\ history[Newest(history)].prevUI = u.prevUI
         /\ \/ /\ history' = Back(history, Newest(history))
               /\ torn' = torn \ {u.b}
            \/ history' = history /\ torn' = torn \cup {u.b}
         /\ mishap' = (mishap \/ u.err)
  <2> USE <1>RolledBackTypes
  <2> DEFINE n == Newest(history)
             H == Back(history, n)
  <2>1. u.pc = "restore" /\ u.todo = <<>> /\ u.for = "rollback"
    BY Zenon DEF rolledBack
  <2>2. /\ u.b \in Bundle /\ pending = NoPending /\ Applied(history) # {}
        /\ history[n].id = u.b /\ history[n].prevUI = u.prevUI
    BY <2>1 DEF TInv, Position
  <2>3. Top(Applied(history), n) /\ history \in Seq(Entry)
    BY <2>2, NewestIs, Recorded, Zenon
  <2>4. H \in Seq(Entry)
    BY <2>3, <1>AppliedBack DEF Top
  <2>5. u' = Pass /\ pending' = NoPending /\ mishap' = (mishap \/ u.err)
    BY <2>2, Zenon DEF rolledBack
  <2>6. \/ /\ history' = H
           /\ current' = IF Applied(H) = {} THEN "" ELSE H[Newest(H)].id
           /\ torn' = torn \ {u.b}
        \/ history' = history /\ current' = current /\ torn' = torn \cup {u.b}
    BY Zenon DEF rolledBack, Back
  <2> HIDE DEF H, n
  <2>7. Position'
    <3>1. PendingOK'
      BY <2>5 DEF PendingOK
    <3>2. QED
      BY <2>5, <3>1, QuietPosition DEF Quiet
  <2>8. CurrentIsNewest'
    <3>1. CASE history' = H /\ current' = IF Applied(H) = {} THEN "" ELSE H[Newest(H)].id
      BY <3>1, Zenon DEF CurrentIsNewest
    <3>2. CASE history' = history /\ current' = current
      BY <3>2, Frame
    <3>3. QED
      BY <2>6, <3>1, <3>2, Zenon
  <2>9. history' \in Seq(Entry) /\ current' \in Bundle \cup {""}
    <3>1. CASE history' = H /\ current' = IF Applied(H) = {} THEN "" ELSE H[Newest(H)].id
      BY <2>4, <3>1, NewestIs, Zenon
    <3>2. CASE history' = history /\ current' = current
      BY <2>3, <3>2, Zenon DEF TInv, TypeOK
    <3>3. QED
      BY <2>6, <3>1, <3>2, Zenon
  <2>10. torn' \subseteq Bundle /\ mishap' \in BOOLEAN
    <3>1. torn \subseteq Bundle
      BY Zenon DEF TInv, TypeOK
    <3>2. torn' \subseteq Bundle
      BY <2>2, <2>6, <3>1, Zenon
    <3>3. QED
      BY <2>5, <3>2
  <2>11. TypeOK'
    BY <2>5, <2>9, <2>10, Zenon DEF TInv, TypeOK, rolledBack, files, Entry
  <2>12. QED
    BY <2>1, <2>2, <2>3, <2>5, <2>6, <2>7, <2>8, <2>11, Zenon DEF TInv, H, n
<1>RolledBackSound.
  ASSUME TInv, Sound, rolledBack, ~mishap'
  PROVE  Sound'
  (* Rolling the newest update back changes nothing below it. *)
  <2>FitsBack.
    ASSUME NEW H \in Seq(Entry), NEW n, Top(Applied(H), n),
           \A i, j \in Applied(H) : H[i].id = H[j].id => i = j,
           NEW T, NEW sv, NEW k, NEW i \in 1 .. Len(H) + 1, NEW c, NEW v,
           i <= n \/ c \notin Range(Comps[H[n].id]),
           Fits(H, T, sv, k, i, c, v)
    PROVE  Fits(Back(H, n), T \ {H[n].id}, sv, k, i, c, v)
    <3> USE <2>FitsBack
    <3> DEFINE A == Back(H, n)
    <3>1. n \in Applied(H) /\ Applied(H) \subseteq 1 .. Len(H)
      BY BelowDomain, Zenon DEF Top
    <3>2. \A j \in 1 .. Len(H) : A[j].id = H[j].id /\ A[j].prevUI = H[j].prevUI
      BY <3>1, <1>AppliedBack, Zenon
    <3>3. Applied(A) = Applied(H) \ {n}
      BY <3>1, <1>AppliedBack, Zenon
    <3> HIDE DEF A
    <3>4. Below(A, i, c) = Below(H, i, c)
      <4>1. n \notin Below(H, i, c)
        BY <3>1 DEF Below, Under
      <4>2. \A j \in Applied(H) : A[j].id = H[j].id
        BY <3>1, <3>2, Zenon
      <4>3. QED
        BY <3>3, <4>1, <4>2, Zenon DEF Below, Under
    <3>5. ASSUME NEW m \in Below(H, i, c)
          PROVE  /\ A[m].id = H[m].id /\ A[m].prevUI = H[m].prevUI
                 /\ Known(A, m) = Known(H, m)
                 /\ H[m].id # H[n].id
      <4>1. m \in Applied(H) /\ m < i /\ m # n
        BY <3>3, <3>4 DEF Below, Under
      <4>2. m <= n
        BY <4>1 DEF Top
      <4>3. Under(A, m) = Under(H, m)
        <5>1. n \notin Under(H, m)
          BY <3>1, <4>1, <4>2 DEF Under
        <5>2. QED
          BY <3>3, <5>1 DEF Under
      <4>4. \A j \in Under(H, m) : A[j].id = H[j].id
        BY <3>1, <3>2 DEF Under
      <4>5. Known(A, m) = Known(H, m)
        BY <4>3, <4>4, Zenon DEF Known
      <4>6. QED
        BY <3>1, <3>2, <4>1, <4>5, Zenon
    <3>6. Fits(A, T \ {H[n].id}, sv, k, i, c, v)
      BY <3>4, <3>5, Zenon DEF Fits
    <3>7. QED
      BY <3>6 DEF A
  (* What was below the update that was rolled back is on top again. *)
  <2>FitsReturned.
    ASSUME NEW H \in Seq(Entry), NEW n, Top(Applied(H), n),
           \A i, j \in Applied(H) : H[i].id = H[j].id => i = j,
           NEW T, NEW sv, NEW k, NEW c, NEW v, Fits(H, T, sv, k, n, c, v)
    PROVE  Fits(Back(H, n), T \ {H[n].id}, sv, k, Len(H) + 1, c, v)
    <3> USE <2>FitsReturned
    <3>1. n \in Applied(H) /\ n \in 1 .. Len(H) /\ Len(H) \in Nat
      BY BelowDomain, SMTT(20) DEF Top
    <3>2. Applied(Back(H, n)) = Applied(H) \ {n}
      BY <3>1, <1>AppliedBack
    <3>3. \A j \in Applied(H) : j \in 1 .. Len(H) /\ j <= n
      BY BelowDomain DEF Top
    <3>4. n \in 1 .. Len(H) + 1 /\ n <= n
      BY <3>1
    <3>5. Fits(Back(H, n), T \ {H[n].id}, sv, k, n, c, v)
      BY <3>4, <2>FitsBack, Zenon
    <3>6. Under(Back(H, n), Len(H) + 1) = Under(Back(H, n), n)
      <4>1. \A j \in Applied(H) \ {n} : j < n /\ j < Len(H) + 1
        BY <3>1, <3>3
      <4>2. \A j \in Applied(Back(H, n)) : j < n /\ j < Len(H) + 1
        BY <3>2, <4>1
      <4>3. QED
        BY <4>2, Zenon DEF Under
    <3>7. Below(Back(H, n), Len(H) + 1, c) = Below(Back(H, n), n, c)
      BY <3>6, Zenon DEF Below
    <3>8. QED
      BY <3>5, <3>7, Zenon DEF Fits
  <2> USE <1>RolledBackSound
  <2>a. PICK n : n = Newest(history)
    BY SMTT(20)
  <2>1. /\ u.b \in Bundle /\ u.pc = "restore" /\ u.todo = <<>> /\ u.for = "rollback"
        /\ pending = NoPending /\ pending' = NoPending /\ ~u.err
        /\ Top(Applied(history), n) /\ history[n].id = u.b
    BY <2>a, <1>RolledBackTypes, Zenon
  <2>2. u'.for = "" /\ u'.pc = "pass"
    BY <1>RolledBackTypes, RestFields, Zenon
  <2>3. UNCHANGED <<bin, run, ui, saved, pending, pkg>>
    BY Zenon DEF rolledBack, files
  <2>4. Begun = torn \cup {u.b} /\ Begun' = torn'
    BY <2>1, <2>2, Zenon DEF Begun
  <2>5. \A c \in Binary : run[c] = bin[c]
    BY <2>1, IdleRunning, Zenon
  <2>6. CASE history' = history /\ torn' = torn \cup {u.b}
    <3>1. Steady
      BY <2>3, <2>4, <2>6 DEF Steady
    <3>2. QED
      BY <2>1, <2>2, <2>3, <2>4, <2>5, <2>6, <3>1, IdleSound, Zenon
  <2>7. CASE history' = Back(history, n) /\ torn' = torn \ {u.b}
    <3>1. history \in Seq(Entry) /\ Len(history) \in Nat
      BY Recorded, SMTT(20)
    <3>2. /\ \A i, j \in Applied(history) : history[i].id = history[j].id => i = j
          /\ torn \subseteq {history[i].id : i \in Applied(history)}
          /\ \A i \in Applied(history) : Rests(i)
      BY LayersAre, SMTT(20) DEF Sound
    <3>3. n \in Applied(history) /\ \A i \in Applied(history) : i \in 1 .. Len(history) /\ i <= n
      BY <2>1, <3>1, BelowDomain, SMTT(20) DEF Top
    <3>4. /\ Applied(history') = Applied(history) \ {n} /\ Len(history') = Len(history)
          /\ \A i \in Applied(history) : /\ history'[i].id = history[i].id
                                         /\ history'[i].prevUI = history[i].prevUI
      BY <2>7, <3>1, <3>3, <1>AppliedBack, SMTT(20)
    <3>5. Begun' = Begun \ {history[n].id}
      BY <2>1, <2>4, <2>7
    <3>6. ASSUME NEW i \in 1 .. Len(history) + 1, NEW c, NEW v, Fit(i, c, v),
                 i <= n \/ c \notin Range(Comps[history[n].id])
          PROVE  Fit1(i, c, v)
      <4>1. Fits(Back(history, n), Begun \ {history[n].id}, saved, pkg, i, c, v)
        BY <2>1, <3>1, <3>2, <3>6, <2>FitsBack, Zenon DEF Fit
      <4>2. QED
        BY <2>3, <2>7, <3>5, <4>1 DEF Fit1
    <3>7. ASSUME NEW i \in Applied(history') PROVE Rests(i)'
      <4>1. i \in Applied(history) /\ i \in 1 .. Len(history) + 1 /\ i <= n
        BY <3>1, <3>3, <3>4
      <4>2. Rests(i) /\ history'[i].id = history[i].id /\ history'[i].prevUI = history[i].prevUI
        BY <3>2, <3>4, <4>1, SMTT(20)
      <4>3. \A c, v : Fit(i, c, v) => Fit1(i, c, v)
        BY <3>6, <4>1
      <4>4. QED
        BY <2>3, <4>2, <4>3, Zenon DEF Rests, Fit, Fit1
    <3>8. Layers'
      <4>1. \A i, j \in Applied(history') : history'[i].id = history'[j].id => i = j
        BY <3>2, <3>4, Zenon
      <4>2. torn' \subseteq {history'[i].id : i \in Applied(history')}
        BY <2>1, <2>7, <3>2, <3>4
      <4>3. QED
        BY <3>7, <4>1, <4>2, Zenon DEF Layers, Rests
    <3>9. ASSUME NEW c \in Component PROVE Fit1(Here, c, Installed(c))
      <4>1. Fit(Here, c, Installed(c))
        BY <2>1, Zenon DEF Sound, Unchanged
      <4>2. CASE c \notin Range(Comps[u.b])
        <5>1. Len(history) + 1 \in 1 .. Len(history) + 1
          BY <3>1
        <5>2. QED
          BY <2>1, <3>6, <4>1, <4>2, <5>1 DEF Here
      <4>3. CASE c \in Range(Comps[u.b])
        <5>1. c \notin Range(u.todo)
          BY <2>1, SMTT(20) DEF Range
        <5>2. Installed(c) = Was(u.b, u.prevUI, c)
          BY <2>1, <4>3, <5>1 DEF Sound, Unchanged
        <5>3. bin \in [Binary -> Build]
          BY Zenon DEF TInv, TypeOK
        <5>4. c = "ui" \/ Saved(u.b, c)
          <6>1. c # "ui" => c \in Binary /\ bin[c] = saved[u.b][c]
            BY <5>2 DEF Was, Installed, Component
          <6>2. c # "ui" => bin[c] \in Build
            BY <5>3, <6>1
          <6>3. QED
            BY <6>1, <6>2, Constants, Zenon DEF Saved
        <5>5. Fit(n, c, Installed(c))
          BY <2>1, <2>a, <4>3, <5>2, <5>4, RollbackFits, Zenon
        <5>6. Fits(Back(history, n), Begun \ {history[n].id}, saved, pkg,
                   Len(history) + 1, c, Installed(c))
          BY <2>1, <3>1, <3>2, <5>5, <2>FitsReturned, Zenon DEF Fit
        <5>7. QED
          BY <2>3, <2>7, <3>5, <5>6 DEF Fit1, Here
      <4>4. QED
        BY <4>2, <4>3
    <3>10. Unchanged'
      BY <2>2, <2>3, <3>4, <3>9, Zenon DEF Unchanged, Fit, Fit1, Here, Installed
    <3>11. Replacing' /\ Stages' /\ Running'
      BY <2>1, <2>2, <2>3, <2>5, Zenon DEF Replacing, Stages, Running
    <3>12. QED
      BY <3>8, <3>10, <3>11 DEF Sound
  <2>8. QED
    BY <2>a, <2>6, <2>7, <1>RolledBackTypes
<1>RolledBackWhole.
  ASSUME TInv, Whole, Shrinks, rolledBack
  PROVE  Whole'
  <2> USE <1>RolledBackWhole
  <2>1. releases' = releases /\ saved' = saved
    BY Zenon DEF rolledBack, files
  <2>2. u'.pc \notin Applying \cup {"prune"}
    BY <1>RolledBackTypes, RestFields, Zenon DEF Applying
  <2>3. \A i \in Applied(history') :
          i \in Applied(history) /\ history'[i].id = history[i].id
    <3>1. CASE history' = history
      BY <3>1
    <3>2. CASE history' = Back(history, Newest(history))
      <4>1. PICK n : n = Newest(history)
        BY Zenon
      <4>2. history \in Seq(Entry) /\ n \in Applied(history)
        BY <4>1, Recorded, <1>RolledBackTypes DEF Top
      <4>3. /\ Applied(Back(history, n)) = Applied(history) \ {n}
            /\ \A j \in 1 .. Len(history) : Back(history, n)[j].id = history[j].id
        BY <4>2, <1>AppliedBack
      <4>4. QED
        BY <3>2, <4>1, <4>3, AppliedIn, Zenon
    <3>3. QED
      BY <3>1, <3>2, <1>RolledBackTypes, Zenon
  <2>4. QED
    BY <2>1, <2>2, <2>3, WholeKept
<1> QED
  BY <1>RolledBackTypes, <1>RolledBackSound, <1>RolledBackWhole, Zenon DEF Keeps

-----------------------------------------------------------------------------
(* The types of the initial state. *)

LEMMA InitTypes == Init => TInv
<1> SUFFICES ASSUME Init PROVE TInv
  OBVIOUS
<1>1. Packages[1] \in Build /\ 1 \in DOMAIN Packages
  <2>1. Len(Packages) \in Nat \ {0} /\ DOMAIN Packages = 1 .. Len(Packages)
    BY Constants, Zenon
  <2>2. 1 \in DOMAIN Packages
    BY <2>1
  <2>3. QED
    BY <2>2, Constants, Zenon
<1>2. Applied(<<>>) = {}
  BY DEF Applied
<1>3. TypeOK
  <2>1. /\ bin \in [Binary -> Build] /\ run \in [Binary -> Build \cup {"down"}]
        /\ saved \in [Bundle -> [Binary -> Build \cup {""}]]
    BY <1>1, Zenon DEF Init
  <2>2. history \in Seq([id : Bundle, prevUI : Bundle \cup {""},
                         back : BOOLEAN])
    BY RestFields, Zenon DEF Init, Entry
  <2>3. QED
    BY <1>1, <2>1, <2>2, Zenon DEF Init, TypeOK
<1>4. Position
  <2>1. u \in Local /\ u.for = "" /\ ~u.err /\ u.pc = "rest"
    BY RestFields, Zenon DEF Init
  <2>2. QED
    BY <2>1, Zenon DEF Position, Applying, Restoring, Init
<1>5. CurrentIsNewest
  BY <1>2, Zenon DEF Init, CurrentIsNewest
<1>6. QED
  BY <1>3, <1>4, <1>5 DEF TInv

-----------------------------------------------------------------------------
(* Nothing changes at all. *)
LEMMA StillSound ==
  ASSUME TInv, Sound, ~u.err, u.for # "rollback",
         u.pc \notin {"start", "restart"},
         u.pc = "clear" => \A c \in Binary : saved[u.b][c] \in {"", bin[c]},
         UNCHANGED <<bin, run, ui, saved, pending, history, pkg, torn>>,
         u'.for = "", u'.pc \in {"rest", "pass", "drop", "prune"}
  PROVE  Sound'
<1>1. Begun' = torn /\ Begun = torn
  BY Zenon DEF Begun
<1>2. Steady /\ torn' \subseteq Begun
  BY <1>1, Zenon DEF Steady
<1>3. \A c \in Binary : run'[c] = bin[c] \/ Behind(c)
  BY IdleRunning, Zenon
<1>4. QED
  BY <1>2, <1>3, IdleSound, Zenon

LEMMA QuietPlaces ==
  ASSUME u' = Rest \/ u' = Pass \/ \E b \in Bundle : u' = Drop(b)
  PROVE  Places
BY RestFields, Zenon DEF Places, Applying

(* Run and what it takes from the inbox. *)
LEMMA RunKeeps ==
  TInv /\ (endRun \/ drop \/ \E b \in Bundle : refuse(b) \/ wait(b) \/ apply(b)) => Keeps
<1>SmallTypes.
  ASSUME TInv
  PROVE  /\ endRun => TInv'
         /\ \A b \in Bundle : refuse(b) \/ wait(b) => TInv'
         /\ drop => TInv' /\ u.b \in Bundle
  <2> USE <1>SmallTypes
  <2>1. ASSUME endRun PROVE TInv'
    <3>1. TypeOK' /\ CurrentIsNewest' /\ PendingOK'
      BY <2>1, Frame DEF endRun, state
    <3>2. Position'
      BY <2>1, <3>1, QuietPosition DEF Quiet, endRun
    <3>3. QED
      BY <3>1, <3>2 DEF TInv
  <2>2. ASSUME NEW b \in Bundle, refuse(b) PROVE TInv'
    <3>1. CurrentIsNewest' /\ Position'
      BY <2>2, Frame DEF refuse, state
    <3>2. releases' \subseteq Bundle /\ mishap' \in BOOLEAN
      BY <2>2, Zenon DEF refuse, TInv, TypeOK
    <3>3. TypeOK'
      BY <2>2, <3>2, Zenon DEF TInv, TypeOK, refuse, state
    <3>4. QED
      BY <3>1, <3>3 DEF TInv
  <2>3. ASSUME NEW b \in Bundle, wait(b) PROVE TInv'
    <3>1. CurrentIsNewest' /\ PendingOK'
      BY <2>3, Frame DEF wait, state
    <3>2. Position'
      BY <2>3, <3>1, QuietPosition DEF Quiet, wait
    <3>3. TypeOK'
      BY <2>3, Zenon DEF TInv, TypeOK, wait, state, notes
    <3>4. QED
      BY <3>1, <3>2, <3>3 DEF TInv
  <2>4. ASSUME drop PROVE TInv' /\ u.b \in Bundle
    <3>1. CurrentIsNewest' /\ PendingOK'
      BY <2>4, Frame DEF drop, state
    <3>2. Position'
      BY <2>4, <3>1, QuietPosition DEF Quiet, drop
    <3>3. TypeOK'
      BY <2>4, Zenon DEF TInv, TypeOK, drop, files, state, notes
    <3>4. u.b \in Bundle
      BY <2>4, Zenon DEF drop, TInv, Position
    <3>5. QED
      BY <3>1, <3>2, <3>3, <3>4 DEF TInv
  <2>5. QED
    BY <2>1, <2>2, <2>3, <2>4
<1>ApplyTypes.
  ASSUME TInv, NEW b \in Bundle, apply(b)
  PROVE  /\ TInv' /\ u.pc = "pass"
         /\ \/ /\ pending' = [id |-> b, phase |-> "saving", prevUI |-> ui]
               /\ u'.pc = "clear" /\ u'.b = b /\ u'.for = "" /\ ~u'.err
               /\ mishap' = (mishap \/ Again(b) \/ pending # NoPending)
            \/ u' = Drop(b) /\ pending' = pending /\ mishap' = mishap
  <2> USE <1>ApplyTypes
  <2>1. u.pc = "pass"
    BY DEF apply
  <2>2. CurrentIsNewest'
    BY Frame DEF apply
  <2>3. CASE /\ pending' = [id |-> b, phase |-> "saving", prevUI |-> ui]
             /\ u' = [Rest EXCEPT !.pc = "clear", !.b = b]
             /\ mishap' = (mishap \/ Again(b) \/ pending # NoPending)
    <3>1. u' \in Local /\ u'.pc = "clear" /\ u'.b = b /\ u'.for = "" /\ ~u'.err
      <4>1. u' = [Rest EXCEPT !.pc = "clear", !.b = b]
        BY <2>3
      <4>2. Rest \in Local /\ Rest.for = "" /\ ~Rest.err
        BY RestFields, Zenon
      <4>3. QED
        BY <4>1, <4>2, Zenon DEF Local, Applying
    <3>2. pending'.id = b /\ pending'.phase = "saving" /\ pending'.prevUI = ui
      BY <2>3
    <3>3. Position'
      BY <3>1, <3>2, Zenon DEF Position, Applying, Restoring
    <3>4. mishap' \in BOOLEAN
      BY <2>3
    <3>5. ui \in Bundle \cup {""}
      BY Zenon DEF TInv, TypeOK
    <3>6. pending' \in [id : Bundle, phase : Component \cup {"saving"},
                        prevUI : Bundle \cup {""}]
      BY <2>3, <3>5, Zenon
    <3>7. TypeOK'
      BY <3>4, <3>6, Zenon DEF TInv, TypeOK, apply
    <3>8. QED
      BY <2>1, <2>2, <2>3, <3>1, <3>3, <3>7, Zenon DEF TInv
  <2>4. CASE u' = Drop(b) /\ UNCHANGED <<pending, mishap>>
    <3>1. Position'
      BY <2>4, Frame, QuietPosition DEF Quiet
    <3>2. TypeOK'
      BY <2>4, Zenon DEF TInv, TypeOK, apply
    <3>3. QED
      BY <2>1, <2>2, <2>4, <3>1, <3>2 DEF TInv
  <2>5. QED
    BY <2>3, <2>4, Zenon DEF apply
<1>SmallSound.
  ASSUME TInv, Sound
  PROVE  /\ endRun => Sound'
         /\ \A b \in Bundle : refuse(b) \/ wait(b) => Sound'
         /\ drop => Sound'
  <2> USE <1>SmallSound
  <2>1. u.pc \in {"pass", "drop"} => u.for = "" /\ ~u.err
    BY Zenon DEF TInv, Position, Restoring
  <2>2. /\ Rest.for = "" /\ Rest.pc = "rest" /\ Pass.for = "" /\ Pass.pc = "pass"
    BY RestFields, Zenon
  <2>3. ASSUME endRun PROVE Sound'
    BY <2>1, <2>2, <2>3, StillSound, Zenon DEF endRun, files, state, notes
  <2>4. ASSUME NEW b \in Bundle, refuse(b) PROVE Sound'
    BY <2>1, <2>4, StillSound, Zenon DEF refuse, state
  <2>5. ASSUME NEW b \in Bundle, wait(b) PROVE Sound'
    BY <2>1, <2>2, <2>5, StillSound, Zenon DEF wait, state, notes
  <2>6. ASSUME drop PROVE Sound'
    BY <2>1, <2>2, <2>6, StillSound, Zenon DEF drop, files, state, notes
  <2>7. QED
    BY <2>3, <2>4, <2>5, <2>6
<1>ApplySound.
  ASSUME TInv, Sound, NEW b \in Bundle, apply(b), ~mishap'
  PROVE  Sound'
  <2> USE <1>ApplySound
  <2>1. u.pc = "pass" /\ u.for = "" /\ ~u.err
    BY Zenon DEF apply, TInv, Position, Restoring
  <2>2. UNCHANGED <<bin, run, ui, saved, history, pkg, torn>>
    BY DEF apply
  <2>3. CASE u' = Drop(b) /\ pending' = pending
    <3>1. u'.for = "" /\ u'.pc = "drop"
      BY <2>3, RestFields, Zenon
    <3>2. QED
      BY <2>1, <2>2, <2>3, <3>1, StillSound, Zenon
  <2>4. CASE /\ pending' = [id |-> b, phase |-> "saving", prevUI |-> ui]
             /\ u'.pc = "clear" /\ u'.b = b /\ u'.for = "" /\ ~u'.err
             /\ mishap' = (mishap \/ Again(b) \/ pending # NoPending)
    <3>1. pending = NoPending /\ ~Again(b)
      BY <2>4, Zenon
    <3>2. pending'.id = b /\ pending'.phase = "saving" /\ pending'.prevUI = ui
      BY <2>4, Zenon
    <3>3. u'.pc = "clear" /\ u'.for = ""
      BY <2>4, Zenon
    <3>4. pending' # NoPending
      <4>1. NoPending.id \notin Bundle
        BY Constants, Zenon DEF NoPending
      <4>2. QED
        BY <3>2, <4>1
    <3>5. Begun' = torn /\ Begun = torn
      BY <2>1, <2>2, <3>3, Zenon DEF Begun
    <3>6. Steady /\ torn' \subseteq Begun
      BY <2>2, <3>5 DEF Steady
    <3>7. Layers'
      BY <3>6, LayersKept DEF Sound
    <3>8. ASSUME NEW c \in Component PROVE Fit(Here, c, Installed(c))'
      <4>1. Fit(Here, c, Installed(c))
        BY <3>1, SMTT(20) DEF Sound, Unchanged
      <4>2. QED
        BY <2>2, <3>5, <4>1, SMTT(20) DEF Fit, Here, Installed
    <3>9. Besides'
      <4>1. Fit(Here, "ui", ui)'
        BY <3>8 DEF Installed, Component
      <4>2. \A i \in Applied(history) : history[i].id # b
        BY <3>1 DEF Again
      <4>3. QED
        BY <2>2, <3>2, <3>8, <4>1, <4>2 DEF Besides
    <3>10. NotYet'
      BY <2>2, <3>2, <3>3, <3>8, Zenon DEF NotYet
    <3>11. Unchanged' /\ Replacing'
      BY <3>2, <3>4, <3>9, <3>10, Zenon DEF Unchanged, Replacing
    <3>12. \A c \in Binary : run'[c] = bin'[c]
      BY <2>1, <2>2, <3>1, IdleRunning, Zenon
    <3>13. Stages' /\ Running'
      BY <3>3, <3>12, Zenon DEF Stages, Running
    <3>14. QED
      BY <3>7, <3>11, <3>13 DEF Sound
  <2>5. QED
    BY <2>3, <2>4, <1>ApplyTypes, Zenon
(* A refused bundle loses its release: it is not applied, or that is a     *)
(* mishap.                                                                 *)
<1>InboxWhole.
  ASSUME TInv, Whole, Shrinks, ~mishap', NEW b \in Bundle, refuse(b) \/ wait(b) \/ apply(b)
  PROVE  Whole'
  <2> USE <1>InboxWhole
  <2>1. history' = history /\ saved' = saved
    BY DEF refuse, wait, apply, state
  <2>2. CASE refuse(b)
    <3>1. u' = u /\ u.pc = "pass"
      BY <2>2 DEF refuse
    <3>2. releases' = releases \/ (releases' = releases \ {b} /\ ~Again(b))
      BY <2>2, Zenon DEF refuse
    <3>3. \A i \in Applied(history) :
            history[i].id \in releases => history[i].id \in releases'
      BY <3>2 DEF Again
    <3>4. u'.pc \notin Applying \cup {"prune"}
      BY <3>1, Zenon DEF Applying
    <3>5. QED
      BY <2>1, <3>3, <3>4, WholeKept, Zenon
  <2>3. CASE wait(b) \/ apply(b)
    <3>1. releases' = releases \cup {b}
      BY <2>3 DEF wait, apply
    <3>2. u'.pc \in Applying \cup {"prune"} => u'.b = b
      <4>1. CASE wait(b)
        BY <4>1, RestFields, Zenon DEF wait, Applying
      <4>2. CASE apply(b)
        BY <4>2, <1>ApplyTypes, RestFields, Zenon DEF Applying
      <4>3. QED
        BY <2>3, <4>1, <4>2
    <3>3. QED
      BY <2>1, <3>1, <3>2, WholeKept
  <2>4. QED
    BY <2>2, <2>3
<1>EndingWhole.
  ASSUME TInv, Whole, Shrinks, endRun \/ drop
  PROVE  Whole'
  <2> USE <1>EndingWhole
  <2>1. UNCHANGED <<history, releases, saved>>
    BY DEF endRun, drop, files, state
  <2>2. Places
    BY QuietPlaces DEF endRun, drop
  <2>3. QED
    BY <2>1, <2>2, WholeStays
<1>1. TInv /\ (endRun \/ drop) => Keeps
  BY <1>SmallTypes, <1>SmallSound, <1>EndingWhole, Zenon DEF Keeps
<1>2. TInv /\ (\E b \in Bundle : refuse(b) \/ wait(b)) => Keeps
  BY <1>SmallTypes, <1>SmallSound, <1>InboxWhole, Zenon DEF Keeps
<1>3. TInv /\ (\E b \in Bundle : apply(b)) => Keeps
  BY <1>ApplyTypes, <1>ApplySound, <1>InboxWhole, Zenon DEF Keeps
<1>4. QED
  BY <1>1, <1>2, <1>3, Zenon

-----------------------------------------------------------------------------
(* restore, one component after the other. *)

(* The components an interrupted apply came to, as a sequence. *)
LEMMA TouchedIs ==
  ASSUME TInv, pending # NoPending
  PROVE  /\ pending.id \in Bundle /\ pending.prevUI \in Bundle \cup {""}
         /\ Touched(pending) \in Seq(Component)
         /\ Range(Touched(pending)) \subseteq Range(Comps[pending.id])
         /\ \A c : Reached(c) => c \in Range(Touched(pending))
<1> DEFINE S == Comps[pending.id]
           n == IF \E i \in DOMAIN S : S[i] = pending.phase
                THEN CHOOSE i \in DOMAIN S : S[i] = pending.phase ELSE Len(S)
<1>1. pending.id \in Bundle /\ pending.prevUI \in Bundle \cup {""}
  <2>1. pending \in [id : Bundle, phase : Component \cup {"saving"},
                     prevUI : Bundle \cup {""}]
    BY Zenon DEF TInv, TypeOK
  <2>2. QED
    BY <2>1, Zenon
<1>2. S \in Seq(Component) /\ Len(S) \in Nat /\ DOMAIN S = 1 .. Len(S)
  BY <1>1, Constants, Zenon
<1>3. n \in 0 .. Len(S)
  BY <1>2
<1>4. ASSUME NEW j \in DOMAIN S, S[j] = pending.phase PROVE n = j
  <2>1. n \in DOMAIN S /\ S[n] = pending.phase
    BY <1>4
  <2>2. \A i, k \in 1 .. Len(S) : S[i] = S[k] => i = k
    BY <1>1, Constants, Zenon
  <2>3. QED
    BY <1>2, <1>4, <2>1, <2>2, Zenon
<1>5. Touched(pending) = SubSeq(S, 1, n)
  BY DEF Touched
<1> HIDE DEF n
<1>6. /\ SubSeq(S, 1, n) \in Seq(Component)
      /\ DOMAIN SubSeq(S, 1, n) = 1 .. n
      /\ \A i \in 1 .. n : SubSeq(S, 1, n)[i] = S[i]
  BY <1>2, <1>3
<1>7. Range(SubSeq(S, 1, n)) = {S[i] : i \in 1 .. n}
  BY <1>6 DEF Range
<1>8. \A i \in 1 .. n : S[i] \in Range(S)
  BY <1>2, <1>3 DEF Range
<1>9. ASSUME NEW c, Reached(c) PROVE c \in {S[i] : i \in 1 .. n}
  <2>1. PICK i \in DOMAIN S, j \in DOMAIN S :
          i <= j /\ S[i] = c /\ S[j] = pending.phase
    BY <1>9 DEF Reached
  <2>2. n = j
    BY <1>4, <2>1
  <2>3. i \in 1 .. n
    BY <1>2, <2>1, <2>2
  <2>4. QED
    BY <2>1, <2>3
<1>10. Range(Touched(pending)) = {S[i] : i \in 1 .. n}
  BY <1>5, <1>7
<1>11. \A c : Reached(c) => c \in Range(Touched(pending))
  BY <1>9, <1>10
<1>12. Range(Touched(pending)) \subseteq Range(S)
  BY <1>8, <1>10
<1>13. Touched(pending) \in Seq(Component)
  BY <1>5, <1>6
<1>14. QED
  BY <1>1, <1>11, <1>12, <1>13, Zenon

LEMMA HasPending == pending.id \in Bundle => pending # NoPending
<1>1. "" \notin Bundle
  BY Constants, Zenon
<1>2. NoPending.id = ""
  BY DEF NoPending
<1>3. QED
  BY <1>1, <1>2, Zenon

(* What was there before the update is back for c, or will be. *)
Back1(c) ==
  \/ c \in Range(u'.todo)
  \/ Installed(c)' = Was(u.b, u.prevUI, c)
  \/ u.for = "recover" /\ c # "ui" /\ ~Saved(u.b, c)

LEMMA RestoreKeeps ==
  TInv /\ (restoreUI \/ restoreBinary \/ restoreRestart \/ restored) => Keeps
(* restore walks down what it was given. *)
<1>StepsDown.
  ASSUME TInv, u.pc \in Restoring, u.todo # <<>>
  PROVE  /\ Len(u.todo) \in Nat \ {0}
         /\ Last \in Component /\ Last \in Range(u.todo)
         /\ Next1 \in Local
         /\ Next1 = [u EXCEPT !.todo = SubSeq(u.todo, 1, Len(u.todo) - 1)]
         /\ SubSeq(u.todo, 1, Len(u.todo) - 1) \in Seq(Component)
         /\ \A c \in Range(u.todo) :
              c = Last \/ c \in Range(SubSeq(u.todo, 1, Len(u.todo) - 1))
         /\ Range(SubSeq(u.todo, 1, Len(u.todo) - 1)) \subseteq Range(u.todo)
  <2> USE <1>StepsDown
  <2> DEFINE t == u.todo
             s == SubSeq(t, 1, Len(t) - 1)
  <2>1. u \in Local /\ t \in Seq(Component)
    BY Zenon DEF TInv, Position, Local
  <2>2. Len(t) \in Nat \ {0} /\ DOMAIN t = 1 .. Len(t)
    BY <2>1
  <2>3. Last \in Component /\ Last \in Range(t)
    BY <2>1, <2>2 DEF Last, Range
  <2>4. s \in Seq(Component) /\ Len(s) = Len(t) - 1
        /\ DOMAIN s = 1 .. Len(t) - 1 /\ \A i \in 1 .. Len(t) - 1 : s[i] = t[i]
    BY <2>1, <2>2
  <2>5. Next1 = [u EXCEPT !.todo = s]
    BY DEF Next1
  <2>6. Next1 \in Local
    BY <2>1, <2>4, <2>5, Zenon DEF Local
  <2> HIDE DEF s
  <2>7. \A c \in Range(t) : c = Last \/ c \in Range(s)
    <3> SUFFICES ASSUME NEW i \in 1 .. Len(t), t[i] # Last PROVE t[i] \in Range(s)
      BY <2>2 DEF Range
    <3>1. i \in 1 .. Len(t) - 1
      BY <2>2 DEF Last
    <3>2. QED
      BY <2>4, <3>1 DEF Range
  <2>8. Range(s) \subseteq Range(t)
    BY <2>2, <2>4 DEF Range
  <2>9. QED
    BY <2>2, <2>3, <2>4, <2>5, <2>6, <2>7, <2>8 DEF s
(* One more component is done, well or not. *)
<1>NextPosition.
  ASSUME TInv, u.pc \in Restoring, u.todo # <<>>, NEW e \in BOOLEAN,
         u' = [Next1 EXCEPT !.pc = "restore", !.err = e],
         UNCHANGED <<pending, history>>
  PROVE  /\ Position'
         /\ u'.pc = "restore" /\ u'.err = e /\ u'.b = u.b
         /\ u'.for = u.for /\ u'.prevUI = u.prevUI
         /\ u'.todo = SubSeq(u.todo, 1, Len(u.todo) - 1)
  <2> USE <1>NextPosition
  <2> DEFINE s == SubSeq(u.todo, 1, Len(u.todo) - 1)
  <2>1. /\ Next1 = [u EXCEPT !.todo = s] /\ Next1 \in Local
        /\ s \in Seq(Component) /\ Range(s) \subseteq Range(u.todo)
    BY <1>StepsDown
  <2>2. u \in Local
    BY Zenon DEF TInv, Position
  <2> HIDE DEF s
  <2>3. /\ Next1.b = u.b /\ Next1.for = u.for /\ Next1.prevUI = u.prevUI
        /\ Next1.todo = s /\ Next1.i = u.i /\ Next1.hist = u.hist
    BY <2>1, <2>2, Zenon DEF Local
  <2>4. /\ u'.pc = "restore" /\ u'.err = e /\ u'.b = u.b
        /\ u'.for = u.for /\ u'.prevUI = u.prevUI /\ u'.todo = s
    BY <2>1, <2>3, Zenon DEF Local
  <2>5. u' \in Local
    BY <2>1, Zenon DEF Local, Restoring
  <2>6. Position'
    BY <2>1, <2>4, <2>5, Zenon DEF TInv, Position, Applying, Restoring
  <2>7. QED
    BY <2>4, <2>6 DEF s
<1>RestoreUITypes.
  ASSUME TInv, restoreUI
  PROVE  /\ TInv'
         /\ u'.pc = "restore" /\ u'.b = u.b
         /\ u'.for = u.for /\ u'.prevUI = u.prevUI
         /\ u'.todo = SubSeq(u.todo, 1, Len(u.todo) - 1)
         /\ \/ ui' = u.prevUI /\ u'.err = u.err
            \/ ui' = ui /\ u'.err
  <2> USE <1>RestoreUITypes
  <2>1. u.pc = "restore" /\ u.pc \in Restoring /\ u.todo # <<>>
    BY DEF restoreUI, Restoring
  <2>2. u \in Local /\ Next1 \in Local
    BY <2>1, <1>StepsDown, Zenon DEF TInv, Position
  <2>3. Next1.pc = "restore" /\ Next1.err = u.err /\ u.err \in BOOLEAN
    BY <2>1, <2>2, Zenon DEF Next1, Local
  <2>4. Next1 = [Next1 EXCEPT !.pc = "restore", !.err = u.err]
    BY <2>2, <2>3, Zenon DEF Local
  <2>5. [Next1 EXCEPT !.err = TRUE] = [Next1 EXCEPT !.pc = "restore", !.err = TRUE]
    BY <2>2, <2>3, Zenon DEF Local
  <2>6. PICK e \in BOOLEAN :
          /\ u' = [Next1 EXCEPT !.pc = "restore", !.err = e]
          /\ \/ ui' = u.prevUI /\ e = u.err
             \/ ui' = ui /\ e = TRUE
    BY <2>3, <2>4, <2>5, Zenon DEF restoreUI
  <2>7. UNCHANGED <<pending, history, current>>
    BY DEF restoreUI, state
  <2>8. /\ Position'
        /\ u'.pc = "restore" /\ u'.err = e /\ u'.b = u.b
        /\ u'.for = u.for /\ u'.prevUI = u.prevUI
        /\ u'.todo = SubSeq(u.todo, 1, Len(u.todo) - 1)
    BY <2>1, <2>6, <2>7, <1>NextPosition, Zenon
  <2>9. TypeOK'
    <3>1. u.prevUI \in Bundle \cup {""}
      BY <2>2, Zenon DEF Local
    <3>2. QED
      BY <2>6, <3>1, Zenon DEF TInv, TypeOK, restoreUI, state, notes
  <2>10. QED
    BY <2>6, <2>7, <2>8, <2>9, Frame DEF TInv
<1>RestoreBinaryTypes.
  ASSUME TInv, restoreBinary
  PROVE  /\ TInv'
         /\ u.b \in Bundle /\ Last \in Binary
         /\ u'.b = u.b /\ u'.for = u.for /\ u'.prevUI = u.prevUI
         /\ \/ /\ saved[u.b][Last] # "" /\ saved[u.b][Last] # bin[Last]
               /\ bin' = [bin EXCEPT ![Last] = saved[u.b][Last]]
               /\ u'.pc = "restart" /\ u'.todo = u.todo /\ u'.err = u.err
            \/ /\ bin' = bin /\ u'.pc = "restore"
               /\ u'.todo = SubSeq(u.todo, 1, Len(u.todo) - 1)
               /\ \/ u'.err
                  \/ /\ saved[u.b][Last] = "" /\ u.for = "recover"
                     /\ u'.err = u.err
                  \/ saved[u.b][Last] = bin[Last] /\ u'.err = u.err
  (* Only the position changes. *)
  <2>NextKeepsPc.
    ASSUME TInv, u.pc = "restore", u.todo # <<>>, NEW e
    PROVE  /\ [Next1 EXCEPT !.err = e] = [Next1 EXCEPT !.pc = "restore", !.err = e]
           /\ Next1 = [Next1 EXCEPT !.pc = "restore", !.err = u.err]
    <3> USE <2>NextKeepsPc
    <3>1. u \in Local /\ Next1 \in Local
      BY <1>StepsDown, Zenon DEF TInv, Position, Restoring
    <3>2. Next1.pc = "restore" /\ Next1.err = u.err
      BY <3>1, Zenon DEF Next1, Local
    <3>3. [Next1 EXCEPT !.err = e] = [Next1 EXCEPT !.pc = "restore", !.err = e]
      BY <3>1, <3>2, Zenon DEF Local
    <3>4. Next1 = [Next1 EXCEPT !.pc = "restore", !.err = u.err]
      BY <3>1, <3>2, Zenon DEF Local
    <3>5. QED
      BY <3>3, <3>4
  <2> USE <1>RestoreBinaryTypes
  <2> DEFINE s == saved[u.b][Last]
  <2>1. u.pc = "restore" /\ u.pc \in Restoring /\ u.todo # <<>> /\ Last # "ui"
    BY Zenon DEF restoreBinary, Restoring
  <2>2. u \in Local /\ u.b \in Bundle
    BY <2>1, Zenon DEF TInv, Position
  <2>3. Last \in Binary
    BY <2>1, <1>StepsDown DEF Component
  <2>4. UNCHANGED <<pending, history, current>>
    BY Zenon DEF restoreBinary, state
  <2>5. u.err \in BOOLEAN /\ s \in Build \cup {""}
    <3>1. u.err \in BOOLEAN
      BY <2>2, Zenon DEF Local
    <3>2. saved \in [Bundle -> [Binary -> Build \cup {""}]]
      BY Zenon DEF TInv, TypeOK
    <3>3. QED
      BY <2>2, <2>3, <3>1, <3>2, Zenon
  <2>6. \/ /\ s # "" /\ s # bin[Last]
           /\ bin' = [bin EXCEPT ![Last] = s]
           /\ u' = [u EXCEPT !.pc = "restart"]
        \/ \E e \in BOOLEAN :
             /\ bin' = bin
             /\ u' = [Next1 EXCEPT !.pc = "restore", !.err = e]
             /\ \/ e = TRUE
                \/ s = "" /\ u.for = "recover" /\ e = u.err
                \/ s = bin[Last] /\ e = u.err
    <3>1. CASE s = "" /\ u' = [Next1 EXCEPT !.err = u.err \/ u.for # "recover"]
                 /\ UNCHANGED bin
      <4>1. u' = [Next1 EXCEPT !.pc = "restore",
                               !.err = u.err \/ u.for # "recover"]
        BY <2>1, <3>1, <2>NextKeepsPc, Zenon
      <4>2. CASE u.err \/ u.for # "recover"
        <5>1. (u.err \/ u.for # "recover") = TRUE
          BY <4>2
        <5>2. QED
          BY <3>1, <4>1, <5>1, Zenon
      <4>3. CASE ~(u.err \/ u.for # "recover")
        <5>1. (u.err \/ u.for # "recover") = u.err
          BY <2>5, <4>3, Zenon
        <5>2. QED
          BY <2>5, <3>1, <4>1, <4>3, <5>1, Zenon
      <4>4. QED
        BY <4>2, <4>3, Zenon
    <3>2. CASE s # "" /\ s = bin[Last] /\ u' = Next1 /\ UNCHANGED bin
      <4>1. u' = [Next1 EXCEPT !.pc = "restore", !.err = u.err]
        BY <2>1, <3>2, <2>NextKeepsPc, Zenon
      <4>2. QED
        BY <2>5, <3>2, <4>1, Zenon
    <3>3. CASE /\ s # "" /\ s # bin[Last]
               /\ bin' = [bin EXCEPT ![Last] = s]
               /\ u' = [u EXCEPT !.pc = "restart"]
      BY <3>3, Zenon
    <3>4. CASE u' = [Next1 EXCEPT !.err = TRUE] /\ UNCHANGED bin
      <4>1. u' = [Next1 EXCEPT !.pc = "restore", !.err = TRUE]
        BY <2>1, <3>4, <2>NextKeepsPc, Zenon
      <4>2. QED
        BY <3>4, <4>1, Zenon
    <3>5. QED
      BY <3>1, <3>2, <3>3, <3>4, Zenon DEF restoreBinary
  <2>7. CASE /\ s # "" /\ s # bin[Last]
             /\ bin' = [bin EXCEPT ![Last] = s]
             /\ u' = [u EXCEPT !.pc = "restart"]
    <3>1. /\ u' \in Local /\ u'.pc = "restart" /\ u'.b = u.b /\ u'.i = u.i
          /\ u'.todo = u.todo /\ u'.for = u.for /\ u'.prevUI = u.prevUI
          /\ u'.err = u.err /\ u'.hist = u.hist
      BY <2>2, <2>7, Zenon DEF Local, Restoring
    <3>2. Last' = Last
      BY <3>1 DEF Last
    <3>3. Position'
      BY <2>1, <2>4, <3>1, <3>2, Zenon DEF TInv, Position, Applying, Restoring
    <3>4. bin' \in [Binary -> Build]
      BY <2>5, <2>7, Zenon DEF TInv, TypeOK
    <3>5. TypeOK'
      BY <3>4, Zenon DEF TInv, TypeOK, restoreBinary, state, notes
    <3>6. TInv'
      BY <2>4, <3>3, <3>5, Frame DEF TInv
    <3>7. QED
      BY <2>2, <2>3, <2>7, <3>1, <3>6, Zenon
  <2>8. ASSUME NEW e \in BOOLEAN, bin' = bin,
               u' = [Next1 EXCEPT !.pc = "restore", !.err = e],
               \/ e = TRUE
               \/ s = "" /\ u.for = "recover" /\ e = u.err
               \/ s = bin[Last] /\ e = u.err
        PROVE  /\ TInv'
               /\ u'.b = u.b /\ u'.for = u.for /\ u'.prevUI = u.prevUI
               /\ u'.pc = "restore"
               /\ u'.todo = SubSeq(u.todo, 1, Len(u.todo) - 1)
               /\ \/ u'.err
                  \/ s = "" /\ u.for = "recover" /\ u'.err = u.err
                  \/ s = bin[Last] /\ u'.err = u.err
    <3>1. /\ Position'
          /\ u'.pc = "restore" /\ u'.err = e /\ u'.b = u.b
          /\ u'.for = u.for /\ u'.prevUI = u.prevUI
          /\ u'.todo = SubSeq(u.todo, 1, Len(u.todo) - 1)
      BY <2>1, <2>4, <2>8, <1>NextPosition, Zenon
    <3>2. TypeOK'
      BY <2>8, Zenon DEF TInv, TypeOK, restoreBinary, state, notes
    <3>3. TInv'
      BY <2>4, <3>1, <3>2, Frame DEF TInv
    <3>4. QED
      BY <2>8, <3>1, <3>3, Zenon
  <2>9. QED
    <3>1. CASE \E e \in BOOLEAN :
                 /\ bin' = bin
                 /\ u' = [Next1 EXCEPT !.pc = "restore", !.err = e]
                 /\ \/ e = TRUE
                    \/ s = "" /\ u.for = "recover" /\ e = u.err
                    \/ s = bin[Last] /\ e = u.err
      <4>1. PICK e \in BOOLEAN :
                 /\ bin' = bin
                 /\ u' = [Next1 EXCEPT !.pc = "restore", !.err = e]
                 /\ \/ e = TRUE
                    \/ s = "" /\ u.for = "recover" /\ e = u.err
                    \/ s = bin[Last] /\ e = u.err
        BY <3>1, Zenon
      <4>2. QED
        BY <2>2, <2>3, <2>8, <4>1, Zenon
    <3>2. QED
      BY <2>6, <2>7, <3>1, Zenon
<1>RestoreRestartTypes.
  ASSUME TInv, restoreRestart
  PROVE  /\ TInv'
         /\ u.b \in Bundle /\ Last \in Binary /\ u.todo # <<>>
         /\ u'.b = u.b /\ u'.for = u.for /\ u'.prevUI = u.prevUI
         /\ u'.pc = "restore"
         /\ u'.todo = SubSeq(u.todo, 1, Len(u.todo) - 1)
         /\ u'.err \/ (u'.err = u.err /\ run' = [run EXCEPT ![Last] = bin[Last]])
  <2> USE <1>RestoreRestartTypes
  <2>1. u.pc = "restart" /\ u.pc \in Restoring /\ u.todo # <<>> /\ Last # "ui"
    BY Zenon DEF restoreRestart, Restoring, TInv, Position
  <2>2. u \in Local /\ u.b \in Bundle /\ Next1 \in Local
    BY <2>1, <1>StepsDown, Zenon DEF TInv, Position
  <2>3. Last \in Binary
    BY <2>1, <1>StepsDown DEF Component
  <2>4. UNCHANGED <<pending, history, current>>
    BY DEF restoreRestart, state
  <2>5. u.err \in BOOLEAN
    BY <2>2, Zenon DEF Local
  <2>6. [Next1 EXCEPT !.pc = "restore"]
          = [Next1 EXCEPT !.pc = "restore", !.err = u.err]
    <3>1. Next1.err = u.err
      BY <2>2, Zenon DEF Next1, Local
    <3>2. QED
      BY <2>2, <3>1, Zenon DEF Local
  <2>7. PICK e \in BOOLEAN :
          /\ u' = [Next1 EXCEPT !.pc = "restore", !.err = e]
          /\ \E r \in {bin[Last], "down"} : run' = [run EXCEPT ![Last] = r]
          /\ e = TRUE \/ (e = u.err /\ run' = [run EXCEPT ![Last] = bin[Last]])
    <3>1. CASE /\ run' = [run EXCEPT ![Last] = bin[Last]]
               /\ u' = [Next1 EXCEPT !.pc = "restore"]
      BY <2>5, <2>6, <3>1, Zenon
    <3>2. CASE /\ \E r \in {bin[Last], "down"} : run' = [run EXCEPT ![Last] = r]
               /\ u' = [Next1 EXCEPT !.pc = "restore", !.err = TRUE]
      BY <3>2, Zenon
    <3>3. QED
      BY <3>1, <3>2, Zenon DEF restoreRestart
  <2>8. /\ Position'
        /\ u'.pc = "restore" /\ u'.err = e /\ u'.b = u.b
        /\ u'.for = u.for /\ u'.prevUI = u.prevUI
        /\ u'.todo = SubSeq(u.todo, 1, Len(u.todo) - 1)
    BY <2>1, <2>4, <2>7, <1>NextPosition, Zenon
  <2>9. run' \in [Binary -> Build \cup {"down"}]
    <3>1. bin[Last] \in Build /\ run \in [Binary -> Build \cup {"down"}]
      BY <2>3, Zenon DEF TInv, TypeOK
    <3>2. QED
      BY <2>7, <3>1, Zenon
  <2>10. TypeOK'
    BY <2>9, Zenon DEF TInv, TypeOK, restoreRestart, state, notes
  <2>11. TInv'
    BY <2>4, <2>8, <2>10, Frame DEF TInv
  <2>12. QED
    BY <2>1, <2>2, <2>3, <2>7, <2>8, <2>11
<1>RestoredTypes.
  ASSUME TInv, restored
  PROVE  /\ TInv' /\ u.b \in Bundle /\ Quiet'
         /\ u.pc = "restore" /\ u.todo = <<>> /\ u.for \in {"recover", "fail"}
         /\ pending.id = u.b /\ pending # NoPending
         /\ pending' = NoPending \/ pending' = pending
         /\ mishap' = (mishap \/ u.err)
  <2> USE <1>RestoredTypes
  <2>1. u.pc = "restore" /\ u.todo = <<>> /\ u.for \in {"recover", "fail"}
    BY DEF restored
  <2>2. u.b \in Bundle /\ pending.id = u.b
    BY <2>1, Zenon DEF TInv, Position
  <2>3. pending # NoPending
    BY <2>2, HasPending
  <2>4. Quiet'
    BY <2>2 DEF restored, Quiet
  <2>5. pending' = NoPending \/ pending' = pending
    BY DEF restored
  <2>6. PendingOK'
    BY <2>5, Frame DEF PendingOK
  <2>7. Position'
    BY <2>4, <2>6, QuietPosition
  <2>8. mishap' = (mishap \/ u.err) /\ mishap' \in BOOLEAN
    BY DEF restored
  <2>9. TypeOK'
    BY <2>5, <2>8, Zenon DEF TInv, TypeOK, restored, files
  <2>10. CurrentIsNewest'
    BY Frame DEF restored
  <2>11. QED
    BY <2>1, <2>2, <2>3, <2>4, <2>5, <2>7, <2>8, <2>9, <2>10 DEF TInv
(* One step of restore: l is put back or left alone. *)
<1>RestoreSound.
  ASSUME TInv, Sound, u.pc \in Restoring, NEW l \in Component,
         l \in Range(Comps[u.b]), Stages', Running',
         UNCHANGED <<saved, state, pkg, torn>>,
         u'.b = u.b, u'.for = u.for, u'.prevUI = u.prevUI, u'.pc \in Restoring,
         u.err => u'.err,
         \A c \in Component : c # l => Installed(c)' = Installed(c),
         \/ Installed(l)' = Installed(l)
         \/ /\ Installed(l)' = Was(u.b, u.prevUI, l)
            /\ l = "ui" \/ Saved(u.b, l),
         \A c \in Range(u.todo) : c \in Range(u'.todo) \/ c = l,
         ~u'.err => Back1(l)
  PROVE  Sound'
  <2> USE <1>RestoreSound
  <2>1. Begun' = Begun /\ Here' = Here /\ pending' = pending /\ history' = history
    BY DEF Begun, Here, state
  <2>2. Steady /\ torn' \subseteq Begun
    BY <2>1, Zenon DEF Steady, Begun
  <2>3. Layers'
    BY <2>2, LayersKept DEF Sound
  <2>4. \A c \in Component : \A v : Fit(Here, c, v) => Fit1(Here, c, v)
    BY <2>2, FitKept, Zenon
  <2>5. \A c : Reached(c)' = Reached(c)
    BY <2>1 DEF Reached
  <2>6. ASSUME pending = NoPending PROVE Unchanged'
    <3>1. u.for = "rollback"
      BY <2>6, HasPending, Zenon DEF TInv, Position, Restoring, Local
    <3>2. ASSUME NEW c \in Component PROVE Fit1(Here, c, Installed(c)')
      <4>1. CASE Installed(c)' = Installed(c)
        BY <2>4, <2>6, <4>1, Zenon DEF Sound, Unchanged
      <4>2. CASE c = l /\ Installed(l)' = Was(u.b, u.prevUI, l) /\ (l = "ui" \/ Saved(u.b, l))
        BY <2>4, <3>1, <4>2, RollbackFits, Zenon
      <4>3. QED
        BY <4>1, <4>2, Zenon
    <3>3. ASSUME ~u'.err, NEW c \in Component, c \in Range(Comps[u.b])
          PROVE  c \in Range(u'.todo) \/ Installed(c)' = Was(u.b, u.prevUI, c)
      <4>1. CASE c = l
        BY <3>1, <3>3, <4>1, Zenon DEF Back1
      <4>2. CASE c # l
        BY <2>6, <3>1, <3>3, <4>2, Zenon DEF Sound, Unchanged
      <4>3. QED
        BY <4>1, <4>2
    <3>4. \A c : Was(u.b, u.prevUI, c)' = Was(u.b, u.prevUI, c)
      BY DEF Was
    <3>5. \A c \in Component : Fit(Here, c, Installed(c))'
      BY <2>1, <3>2, Zenon DEF Fit, Fit1
    <3>6. QED
      BY <3>3, <3>4, <3>5, Zenon DEF Unchanged
  <2>7. ASSUME pending # NoPending PROVE Replacing'
    <3>1. /\ u.for \in {"recover", "fail"} /\ pending.id = u.b /\ pending.prevUI = u.prevUI
      BY <2>7, Zenon DEF TInv, Position, Restoring, Local
    <3>2. Besides'
      BY <2>1, <2>4, <2>7, <3>1, Zenon DEF Sound, Replacing, Besides, Fit, Fit1, Component
    <3>3. ASSUME pending.phase = "saving" PROVE NotYet'
      <4>1. NotYet /\ u.pc # "clear"
        BY <2>7, <3>3, Zenon DEF Sound, Replacing, Restoring
      <4>2. l = "ui" \/ l \in Binary
        BY DEF Component
      <4>3. Installed(l)' = Installed(l)
        BY <3>1, <4>1, <4>2, Zenon DEF NotYet, Was, Installed, Saved, Binary
      <4>4. \A c \in Component : Installed(c)' = Installed(c)
        BY <4>3, Zenon
      <4>5. ui' = ui /\ \A c \in Binary : bin'[c] = bin[c]
        BY <4>4 DEF Installed, Component, Binary
      <4>6. \A c \in Component : Fit(Here, c, Installed(c))'
        BY <2>1, <2>4, <4>1, <4>4, Zenon DEF NotYet, Fit, Fit1
      <4>7. QED
        BY <2>1, <4>1, <4>5, <4>6, Zenon DEF NotYet
    <3>4. ASSUME NEW c \in Component, Halfway(c) PROVE Halfway(c)'
      <4> DEFINE w == Was(u.b, u.prevUI, c)
      <4>1. Was(pending.id, pending.prevUI, c)' = w /\ Was(pending.id, pending.prevUI, c) = w
        BY <2>1, <3>1 DEF Was
      <4>2. Fit1(Here, c, w) /\ (c # "ui" => w # "")
        BY <2>4, <3>4, <4>1, Zenon DEF Halfway
      <4>3. Installed(c)' = w \/ (Reached(c) /\ Installed(c)' = pending.id)
        BY <3>4, <4>1, Zenon DEF Halfway
      <4>4. ~u'.err => c \in Range(u'.todo) \/ Installed(c)' = w
        <5>1. CASE c = l
          BY <4>2, <5>1, Zenon DEF Back1, Saved, Was
        <5>2. CASE c # l
          BY <3>1, <3>4, <4>1, <5>2, Zenon DEF Halfway
        <5>3. QED
          BY <5>1, <5>2, Zenon
      <4> HIDE DEF w
      <4>5. QED
        BY <2>1, <2>5, <4>1, <4>2, <4>3, <4>4, Zenon DEF Halfway, Fit, Fit1
    <3>5. QED
      BY <2>1, <2>7, <3>2, <3>3, <3>4 DEF Sound, Replacing
  <2>8. Unchanged' /\ Replacing'
    BY <2>1, <2>6, <2>7, Zenon DEF Unchanged, Replacing
  <2>9. QED
    BY <2>3, <2>8, Zenon DEF Sound
<1>RestoreIn.
  ASSUME TInv, u.pc \in Restoring, u.todo # <<>>
  PROVE  Last \in Component /\ Last \in Range(Comps[u.b]) /\ u.b \in Bundle
  <2> USE <1>RestoreIn
  <2>1. Last \in Component /\ Last \in Range(u.todo)
    BY <1>StepsDown
  <2>2. QED
    BY <2>1, Zenon DEF TInv, Position, Restoring
<1>RestoreUISound.
  ASSUME TInv, Sound, restoreUI
  PROVE  Sound'
  <2> USE <1>RestoreUISound
  <2>1. /\ u.pc = "restore" /\ u.todo # <<>> /\ Last = "ui"
        /\ bin' = bin /\ run' = run /\ UNCHANGED <<saved, state, pkg, torn>>
    BY DEF restoreUI, notes
  <2>2. /\ u'.pc = "restore" /\ u'.b = u.b /\ u'.for = u.for /\ u'.prevUI = u.prevUI
        /\ u'.todo = SubSeq(u.todo, 1, Len(u.todo) - 1)
        /\ (ui' = u.prevUI /\ u'.err = u.err) \/ (ui' = ui /\ u'.err)
    BY <1>RestoreUITypes, Zenon
  <2>3. "ui" \in Component /\ "ui" \in Range(Comps[u.b])
    BY <2>1, <1>RestoreIn DEF Restoring
  <2>4. \A c \in Range(u.todo) : c \in Range(u'.todo) \/ c = "ui"
    BY <2>1, <2>2, <1>StepsDown, Zenon DEF Restoring
  <2>5. Stages'
    BY <2>2, Zenon DEF Stages
  <2>6. Running'
    <3>1. \A c : Reached(c)' = Reached(c)
      BY <2>1 DEF Reached, state
    <3>2. QED
      BY <2>1, <2>2, <3>1, Zenon DEF Sound, Running, state
  <2>7. \A c \in Component : c # "ui" => Installed(c)' = Installed(c)
    BY <2>1 DEF Installed
  <2>8. Installed("ui")' = ui' /\ Installed("ui") = ui /\ Was(u.b, u.prevUI, "ui") = u.prevUI
    BY Zenon DEF Installed, Was
  <2>9. ~u'.err => Back1("ui")
    BY <2>2, <2>8 DEF Back1
  <2>10. QED
    BY <2>1, <2>2, <2>3, <2>4, <2>5, <2>6, <2>7, <2>8, <2>9, <1>RestoreSound, Zenon DEF Restoring
<1>RestoreBinarySound.
  ASSUME TInv, Sound, restoreBinary
  PROVE  Sound'
  <2> USE <1>RestoreBinarySound
  <2>1. /\ u.pc = "restore" /\ u.todo # <<>>
        /\ ui' = ui /\ run' = run /\ UNCHANGED <<saved, state, pkg, torn>>
    BY Zenon DEF restoreBinary, notes
  <2>a. PICK l : l = Last
    OBVIOUS
  <2> DEFINE s == saved[u.b][l]
  <2>2. /\ l \in Binary /\ u.b \in Bundle
        /\ u'.b = u.b /\ u'.for = u.for /\ u'.prevUI = u.prevUI
        /\ \/ /\ s # "" /\ s # bin[l] /\ bin' = [bin EXCEPT ![l] = s]
              /\ u'.pc = "restart" /\ u'.todo = u.todo /\ u'.err = u.err
           \/ /\ bin' = bin /\ u'.pc = "restore"
              /\ u'.todo = SubSeq(u.todo, 1, Len(u.todo) - 1)
              /\ \/ u'.err
                 \/ s = "" /\ u.for = "recover" /\ u'.err = u.err
                 \/ s = bin[l] /\ u'.err = u.err
    BY <2>a, <1>RestoreBinaryTypes, Zenon
  <2>3. l \in Component /\ l \in Range(Comps[u.b]) /\ l # "ui"
    BY <2>1, <2>2, <2>a, <1>RestoreIn, Zenon DEF Restoring, Binary
  <2>4. \A c \in Range(u.todo) :
          c \in Range(SubSeq(u.todo, 1, Len(u.todo) - 1)) \/ c = l
    BY <2>1, <2>a, <1>StepsDown, Zenon DEF Restoring
  <2>5. \A c : Reached(c)' = Reached(c)
    BY <2>1, Zenon DEF Reached, state
  <2>6. Was(u.b, u.prevUI, l) = s /\ (Saved(u.b, l) <=> s # "")
    BY <2>3, Zenon DEF Was, Saved
  <2>7. bin \in [Binary -> Build] /\ Installed(l) = bin[l] /\ Installed(l)' = bin'[l]
    <3>1. bin \in [Binary -> Build]
      BY Zenon DEF TInv, TypeOK
    <3>2. QED
      BY <2>3, <3>1 DEF Installed
  <2>8. u.pc \in Restoring /\ u'.pc \in Restoring /\ (u.err => u'.err)
    BY <2>1, <2>2, Zenon DEF Restoring
  <2>9. CASE /\ s # "" /\ s # bin[l] /\ bin' = [bin EXCEPT ![l] = s]
             /\ u'.pc = "restart" /\ u'.todo = u.todo /\ u'.err = u.err
    <3>1. Last' = l
      BY <2>9, <2>a, Zenon DEF Last
    <3> HIDE DEF s
    <3>2. bin'[l] = s /\ \A c \in Binary : c # l => bin'[c] = bin[c]
      BY <2>2, <2>7, <2>9, Zenon
    <3>3. \A c \in Component : c # l => Installed(c)' = Installed(c)
      BY <2>1, <3>2 DEF Installed, Component
    <3>4. Stages'
      <4>1. bin'[Last'] = saved'[u'.b][Last']
        BY <2>1, <2>2, <3>1, <3>2, Zenon DEF s
      <4>2. QED
        BY <2>9, <4>1, Zenon DEF Stages
    <3>5. Running'
      <4>1. \A c \in Binary : c # l => run[c] = bin[c] \/ u.err \/ Behind(c)
        BY <2>1, <2>a DEF Sound, Running, Behind
      <4>2. QED
        BY <2>1, <2>5, <2>9, <3>1, <3>2, <4>1, Zenon DEF Running, Behind, state
    <3>6. Back1(l)
      BY <2>6, <2>7, <3>2, Zenon DEF Back1
    <3>7. QED
      BY <2>1, <2>2, <2>3, <2>6, <2>7, <2>8, <2>9, <3>2, <3>3, <3>4, <3>5, <3>6, <1>RestoreSound, Zenon
  <2>10. CASE /\ bin' = bin /\ u'.pc = "restore"
              /\ u'.todo = SubSeq(u.todo, 1, Len(u.todo) - 1)
              /\ \/ u'.err
                 \/ s = "" /\ u.for = "recover" /\ u'.err = u.err
                 \/ s = bin[l] /\ u'.err = u.err
    <3> HIDE DEF s
    <3>1. Stages'
      BY <2>10, Zenon DEF Stages
    <3>2. \A c \in Component : Installed(c)' = Installed(c)
      BY <2>1, <2>10, Zenon DEF Installed
    <3>3. Running'
      <4>1. \A c \in Binary : run[c] = bin[c] \/ u.err \/ Behind(c)
        BY <2>1 DEF Sound, Running, Behind
      <4>2. QED
        BY <2>1, <2>5, <2>8, <2>10, <4>1, Zenon DEF Running, Behind, state
    <3>4. ~u'.err => Back1(l)
      BY <2>3, <2>6, <2>7, <2>10, Zenon DEF Back1
    <3>5. QED
      BY <2>1, <2>2, <2>3, <2>4, <2>8, <2>10, <3>1, <3>2, <3>3, <3>4, <1>RestoreSound, Zenon
  <2>11. QED
    BY <2>2, <2>9, <2>10, Zenon
<1>RestoreRestartSound.
  ASSUME TInv, Sound, restoreRestart
  PROVE  Sound'
  <2> USE <1>RestoreRestartSound
  <2>a. PICK l : l = Last
    OBVIOUS
  <2>1. /\ u.pc = "restart" /\ bin' = bin /\ ui' = ui
        /\ UNCHANGED <<saved, state, pkg, torn>>
    BY DEF restoreRestart, notes
  <2>2. /\ u.b \in Bundle /\ l \in Binary /\ u.todo # <<>>
        /\ u'.b = u.b /\ u'.for = u.for /\ u'.prevUI = u.prevUI
        /\ u'.pc = "restore"
        /\ u'.todo = SubSeq(u.todo, 1, Len(u.todo) - 1)
        /\ u'.err \/ (u'.err = u.err /\ run' = [run EXCEPT ![l] = bin[l]])
    BY <2>a, <1>RestoreRestartTypes, Zenon
  <2>3. l \in Component /\ l \in Range(Comps[u.b]) /\ l # "ui"
    BY <2>1, <2>2, <2>a, <1>RestoreIn DEF Restoring, Binary
  <2>4. \A c \in Range(u.todo) : c \in Range(u'.todo) \/ c = l
    BY <2>1, <2>2, <2>a, <1>StepsDown, Zenon DEF Restoring
  <2>5. Stages'
    BY <2>2 DEF Stages
  <2>6. \A c : Reached(c)' = Reached(c)
    BY <2>1, Zenon DEF Reached, state
  <2>7. Running'
    <3>1. \A c \in Binary : c # l => run[c] = bin[c] \/ u.err \/ Behind(c)
      BY <2>1, <2>a DEF Sound, Running, Behind
    <3>2. run \in [Binary -> Build \cup {"down"}]
      BY Zenon DEF TInv, TypeOK
    <3>3. ~u'.err => ~u.err /\ run'[l] = bin[l] /\ \A c \in Binary : c # l => run'[c] = run[c]
      BY <2>2, <3>2, Zenon
    <3>4. ~u'.err => \A c \in Binary : run'[c] = bin[c] \/ Behind(c)
      BY <3>1, <3>3
    <3>5. QED
      BY <2>1, <2>2, <2>6, <3>4, Zenon DEF Running, Behind, state
  <2>8. \A c \in Component : Installed(c)' = Installed(c)
    BY <2>1, Zenon DEF Installed
  <2>9. Back1(l)
    <3>1. bin[l] = saved[u.b][l]
      BY <2>1, <2>a, Zenon DEF Sound, Stages
    <3>2. QED
      BY <2>1, <2>3, <3>1 DEF Back1, Installed, Was
  <2>10. u.pc \in Restoring /\ u'.pc \in Restoring /\ (u.err => u'.err)
    BY <2>1, <2>2 DEF Restoring
  <2>11. QED
    BY <2>1, <2>2, <2>3, <2>4, <2>5, <2>7, <2>8, <2>9, <2>10, <1>RestoreSound, Zenon
<1>RestoredSound.
  ASSUME TInv, Sound, restored, ~mishap'
  PROVE  Sound'
  (* Nothing installed is the build of the update that is pending. *)
  <2>NotPending.
    ASSUME TInv, Besides, pending # NoPending, NEW c, NEW v, Fit(Here, c, v)
    PROVE  v # pending.id
    <3> USE <2>NotPending
    <3>1. history \in Seq(Entry) /\ Len(history) \in Nat /\ pkg \in DOMAIN Packages
      BY Recorded, HasPackage
    <3>2. v \in Known(history, Here)
      BY <3>1, FitsKnown DEF Fit, Here
    <3>3. pending.id \in Bundle
      BY TouchedIs, Zenon
    <3>4. pending.id \notin Range(Packages) \cup {""}
      BY <3>3, Constants, Zenon
    <3>5. \A j \in Under(history, Here) : history[j].id # pending.id
      BY DEF Besides, Under
    <3>6. QED
      BY <3>2, <3>4, <3>5, Zenon DEF Known
  <2> USE <1>RestoredSound
  <2>1. /\ u.pc = "restore" /\ u.todo = <<>> /\ u.for \in {"recover", "fail"}
        /\ pending # NoPending /\ u.b \in Bundle /\ ~u.err
    BY <1>RestoredTypes, Zenon
  <2>2. u'.for = "" /\ u'.pc \in {"pass", "drop"}
    BY <2>1, RestFields, Zenon DEF restored
  <2>3. UNCHANGED <<bin, run, ui, saved, history, pkg, torn>>
    BY DEF restored, files
  <2>4. CASE pending' = pending
    BY <2>1, <2>2, <2>3, <2>4, StillSound, Zenon
  <2>5. CASE pending' = NoPending
    <3>1. Begun' = torn /\ Begun = torn /\ torn' = torn
      BY <2>1, <2>2, <2>3, Zenon DEF Begun
    <3>2. Steady
      BY <2>3, <3>1 DEF Steady
    <3>3. Layers'
      BY <3>1, <3>2, LayersKept DEF Sound
    <3>4. Besides
      BY <2>1, Zenon DEF Sound, Replacing
    <3>5. ASSUME NEW c \in Component PROVE Fit(Here, c, Installed(c))
      <4>1. CASE c \notin Range(Comps[pending.id])
        BY <3>4, <4>1 DEF Besides
      <4>2. CASE pending.phase = "saving"
        BY <2>1, <4>2, Zenon DEF Sound, Replacing, NotYet
      <4>3. CASE c \in Range(Comps[pending.id]) /\ pending.phase # "saving"
        <5>1. Halfway(c)
          BY <2>1, <4>3 DEF Sound, Replacing
        <5>2. c \notin Range(u.todo)
          BY <2>1 DEF Range
        <5>3. QED
          BY <2>1, <5>1, <5>2, Zenon DEF Halfway
      <4>4. QED
        BY <4>1, <4>2, <4>3, Zenon
    <3>6. Unchanged'
      BY <2>2, <2>3, <3>1, <3>5, Zenon DEF Unchanged, Fit, Here, Installed
    <3>7. ASSUME NEW c \in Binary PROVE run'[c] = bin'[c]
      <4>1. c \in Component /\ Installed(c) = bin[c]
        BY Zenon DEF Component, Binary, Installed
      <4>2. bin[c] # pending.id
        BY <2>1, <3>4, <3>5, <4>1, <2>NotPending, Zenon
      <4>3. run[c] = bin[c]
        BY <2>1, <4>2, IdleRunning DEF Behind
      <4>4. QED
        BY <2>3, <4>3
    <3>8. Replacing' /\ Stages' /\ Running'
      BY <2>2, <2>5, <3>7, Zenon DEF Replacing, Stages, Running
    <3>9. QED
      BY <3>3, <3>6, <3>8 DEF Sound
  <2>6. QED
    BY <2>4, <2>5, <1>RestoredTypes
<1>RestoringWhole.
  ASSUME TInv, Whole, Shrinks, restoreUI \/ restoreBinary \/ restoreRestart \/ restored
  PROVE  Whole'
  <2> USE <1>RestoringWhole
  <2>1. UNCHANGED <<history, releases, saved>>
    BY Zenon DEF restoreUI, restoreBinary, restoreRestart, restored, files, state
  <2>2. ASSUME restored PROVE Places
    BY <2>2, <1>RestoredTypes, QuietPlaces DEF Quiet
  <2>3. ASSUME restoreUI \/ restoreBinary \/ restoreRestart PROVE Places
    <3>1. u'.pc \in Restoring
      BY <2>3, <1>RestoreUITypes, <1>RestoreBinaryTypes, <1>RestoreRestartTypes, Zenon DEF Restoring
    <3>2. QED
      BY <3>1 DEF Places, Applying, Restoring
  <2>4. QED
    BY <2>1, <2>2, <2>3, WholeStays, Zenon
<1>1. TInv /\ restoreUI => Keeps
  BY <1>RestoreUITypes, <1>RestoreUISound, <1>RestoringWhole, Zenon DEF Keeps
<1>2. TInv /\ restoreBinary => Keeps
  BY <1>RestoreBinaryTypes, <1>RestoreBinarySound, <1>RestoringWhole, Zenon DEF Keeps
<1>3. TInv /\ restoreRestart => Keeps
  BY <1>RestoreRestartTypes, <1>RestoreRestartSound, <1>RestoringWhole, Zenon DEF Keeps
<1>4. TInv /\ restored => Keeps
  BY <1>RestoredTypes, <1>RestoredSound, <1>RestoringWhole, Zenon DEF Keeps
<1>5. QED
  BY <1>1, <1>2, <1>3, <1>4, Zenon

-----------------------------------------------------------------------------
(* An apply is recorded. *)

LEMMA CompAt ==
  ASSUME NEW b \in Bundle, NEW i \in 1 .. Len(Comps[b])
  PROVE  Comps[b][i] \in Component /\ Comps[b][i] \in Range(Comps[b])
<1>1. DOMAIN Comps[b] = 1 .. Len(Comps[b]) /\ Range(Comps[b]) \subseteq Component
  BY Constants, Zenon
<1>2. Comps[b][i] \in Range(Comps[b])
  BY <1>1 DEF Range
<1>3. QED
  BY <1>1, <1>2

(* The updater at work on a bundle. *)
LEMMA AtWork ==
  ASSUME TInv, u.pc \in Applying
  PROVE  /\ u.b \in Bundle /\ u \in Local /\ u.for = "" /\ ~u.err
         /\ pending.id = u.b /\ pending # NoPending
         /\ pending.prevUI \in Bundle \cup {""}
         /\ Len(Comps[u.b]) \in Nat /\ u.i \in Nat
<1>1. u.b \in Bundle /\ u \in Local /\ u.for = "" /\ ~u.err /\ pending.id = u.b
  BY Zenon DEF TInv, Position, Applying, Restoring
<1>2. pending # NoPending
  BY <1>1, HasPending, Zenon
<1>3. pending.prevUI \in Bundle \cup {""}
  BY <1>2, TouchedIs, Zenon
<1>4. Len(Comps[u.b]) \in Nat
  BY <1>1, Constants, Zenon
<1>5. u.i \in Nat
  BY <1>1, Zenon DEF Local
<1>6. QED
  BY <1>1, <1>2, <1>3, <1>4, <1>5, Zenon

(* The record that applied adds. *)
Added == [id |-> u.b, prevUI |-> pending.prevUI, back |-> FALSE]

LEMMA AppliedKeeps == TInv /\ applied => Keeps
<1>AppliedAppend.
  ASSUME NEW H \in Seq(Entry), NEW e \in Entry, ~e.back
  PROVE  /\ Append(H, e) \in Seq(Entry)
         /\ Len(Append(H, e)) = Len(H) + 1
         /\ Append(H, e)[Len(H) + 1] = e
         /\ \A j \in 1 .. Len(H) : Append(H, e)[j] = H[j]
         /\ Applied(Append(H, e)) = Applied(H) \cup {Len(H) + 1}
  <2> USE <1>AppliedAppend
  <2>1. /\ Append(H, e) \in Seq(Entry)
        /\ Len(Append(H, e)) = Len(H) + 1
        /\ Append(H, e)[Len(H) + 1] = e
        /\ \A j \in 1 .. Len(H) : Append(H, e)[j] = H[j]
    OBVIOUS
  <2>2. DOMAIN H = 1 .. Len(H) /\ DOMAIN Append(H, e) = 1 .. Len(H) + 1
        /\ Len(H) \in Nat
    OBVIOUS
  <2>3. Applied(Append(H, e)) = Applied(H) \cup {Len(H) + 1}
    BY <2>1, <2>2 DEF Applied
  <2>4. QED
    BY <2>1, <2>3
<1>AppliedTypes.
  ASSUME TInv, applied
  PROVE  /\ TInv' /\ u.pc = "phase" /\ u.i = Len(Comps[u.b]) + 1
         /\ Added \in Entry /\ ~Added.back /\ Added.id = u.b
         /\ Added.prevUI = pending.prevUI
         /\ u'.pc = "prune" /\ u'.b = u.b /\ u'.for = "" /\ ~u'.err
         /\ u'.hist = Append(history, Added)
         /\ \/ pending' = NoPending /\ history' = Append(history, Added)
            \/ pending' = pending /\ history' = history
  <2> USE <1>AppliedTypes
  <2>1. /\ u.b \in Bundle /\ u \in Local /\ u.pc \in Applying /\ u.pc = "phase"
        /\ pending.id = u.b /\ Len(Comps[u.b]) \in Nat /\ u.i \in Nat
        /\ u.for = "" /\ ~u.err /\ pending.prevUI \in Bundle \cup {""}
    BY AtWork, Zenon DEF applied, Applying
  <2>2. u.i \in 1 .. Len(Comps[u.b]) + 1
    BY <2>1, Zenon DEF TInv, Position
  <2>3. u.i = Len(Comps[u.b]) + 1
    <3>1. u.i > Len(Comps[u.b]) /\ Len(Comps[u.b]) \in Nat
      BY <2>1, Zenon DEF applied
    <3>2. QED
      BY <2>2, <3>1
  <2>4. Added \in Entry /\ ~Added.back /\ Added.id = u.b /\ Added.prevUI = pending.prevUI
    BY <2>1, Zenon DEF Added, Entry
  <2>5. history \in Seq(Entry) /\ Len(history) \in Nat /\ DOMAIN history = 1 .. Len(history)
    BY Recorded
  <2> DEFINE H == Append(history, Added)
  <2>6. /\ H \in Seq(Entry) /\ Len(H) = Len(history) + 1
        /\ \A j \in 1 .. Len(history) : H[j] = history[j]
        /\ H[Len(history) + 1] = Added
        /\ Applied(H) = Applied(history) \cup {Len(history) + 1}
    BY <2>4, <2>5, <1>AppliedAppend
  <2>7. /\ u' = [u EXCEPT !.pc = "prune", !.hist = H]
        /\ \/ pending' = NoPending /\ current' = u.b /\ history' = H
           \/ UNCHANGED state
    BY DEF applied, Added
  <2> HIDE DEF H
  <2>8. /\ u' \in Local /\ u'.pc = "prune" /\ u'.b = u.b /\ u'.for = ""
        /\ ~u'.err /\ u'.hist = H
    BY <2>1, <2>6, <2>7, Zenon DEF Local
  <2>9. CASE pending' = NoPending /\ current' = u.b /\ history' = H
    <3>1. TypeOK'
      BY <2>1, <2>6, <2>9, Zenon DEF TInv, TypeOK, applied, files, notes, Entry
    <3>2. Position'
      BY <2>1, <2>8, <2>9, Zenon DEF Position, Restoring, Applying
    <3>3. Applied(H) # {}
      BY <2>6
    <3>4. Top(Applied(H), Newest(H))
      BY <2>6, <3>3, NewestIs, Zenon
    <3>5. Newest(H) = Len(history) + 1
      <4>1. Applied(H) \subseteq 1 .. Len(H)
        BY <2>6, BelowDomain
      <4>2. Len(history) + 1 <= Newest(H) /\ Newest(H) \in 1 .. Len(H)
        BY <2>6, <3>4, <4>1 DEF Top
      <4>3. QED
        BY <2>5, <2>6, <4>2
    <3>6. CurrentIsNewest'
      BY <2>4, <2>6, <2>9, <3>3, <3>5, Zenon DEF CurrentIsNewest
    <3>7. QED
      BY <2>1, <2>3, <2>4, <2>8, <2>9, <3>1, <3>2, <3>6, Zenon DEF TInv, H
  <2>10. CASE UNCHANGED state
    <3>1. TypeOK' /\ CurrentIsNewest' /\ PendingOK'
      BY <2>10, Frame DEF applied, state
    <3>2. Position'
      BY <2>1, <2>5, <2>6, <2>8, <2>10, <3>1, Zenon DEF Position, Restoring, Applying, PendingOK, state
    <3>3. QED
      BY <2>1, <2>3, <2>4, <2>8, <2>10, <3>1, <3>2, Zenon DEF TInv, state, H
  <2>11. QED
    BY <2>7, <2>9, <2>10, Zenon
<1>AppliedSound.
  ASSUME TInv, Sound, applied
  PROVE  Sound'
  (* A new update on top changes nothing below it. *)
  <2>FitsAppend.
    ASSUME NEW H \in Seq(Entry), NEW e \in Entry, ~e.back, NEW T, NEW sv,
           NEW k, NEW i \in 1 .. Len(H) + 1, NEW c, NEW v,
           Fits(H, T, sv, k, i, c, v)
    PROVE  Fits(Append(H, e), T, sv, k, i, c, v)
    <3> USE <2>FitsAppend
    <3> DEFINE A == Append(H, e)
    <3>1. \A j \in 1 .. Len(H) : A[j] = H[j]
      BY <1>AppliedAppend, Zenon
    <3>2. Applied(A) = Applied(H) \cup {Len(H) + 1}
      BY <1>AppliedAppend
    <3>3. Applied(H) \subseteq 1 .. Len(H)
      BY BelowDomain
    <3> HIDE DEF A
    <3>4. ASSUME NEW m \in 1 .. Len(H) + 1, m <= i PROVE Under(A, m) = Under(H, m)
      BY <3>2, <3>3 DEF Under
    <3>5. Below(A, i, c) = Below(H, i, c)
      <4>1. Under(A, i) = Under(H, i)
        BY <3>4
      <4>2. \A j \in Under(H, i) : A[j] = H[j]
        BY <3>1, <3>3 DEF Under
      <4>3. QED
        BY <4>1, <4>2 DEF Below
    <3>6. ASSUME NEW m \in Below(H, i, c)
          PROVE  A[m] = H[m] /\ Known(A, m) = Known(H, m)
      <4>1. m \in 1 .. Len(H) /\ m < i
        BY <3>3 DEF Below, Under
      <4>2. Under(A, m) = Under(H, m)
        BY <3>4, <4>1
      <4>3. \A j \in Under(H, m) : A[j] = H[j]
        BY <3>1, <3>3 DEF Under
      <4>4. QED
        BY <3>1, <4>1, <4>2, <4>3, Zenon DEF Known
    <3>7. Fits(A, T, sv, k, i, c, v)
      BY <3>5, <3>6, Zenon DEF Fits
    <3>8. QED
      BY <3>7, Zenon DEF A
  (* What the new update replaced is its build now; the rest stays. *)
  <2>FitsNew.
    ASSUME NEW H \in Seq(Entry), NEW e \in Entry, ~e.back, NEW T, NEW sv,
           NEW k, NEW c, NEW v,
           c \in Range(Comps[e.id]) => v = e.id,
           c \notin Range(Comps[e.id]) => Fits(H, T, sv, k, Len(H) + 1, c, v)
    PROVE  Fits(Append(H, e), T, sv, k, Len(H) + 2, c, v)
    <3> USE <2>FitsNew
    <3> DEFINE A == Append(H, e)
               n == Len(H) + 1
    <3>1. A[n] = e
      BY <1>AppliedAppend, Zenon
    <3>2. Applied(A) = Applied(H) \cup {n}
      BY <1>AppliedAppend, Zenon
    <3>3. Applied(H) \subseteq 1 .. Len(H) /\ Len(H) \in Nat
      BY BelowDomain
    <3>4. A \in Seq(Entry)
      BY <1>AppliedAppend, Zenon
    <3> HIDE DEF A
    <3>5. Under(A, Len(H) + 2) = Under(A, n) \cup {n}
      BY <3>2, <3>3 DEF Under
    <3>6. CASE c \in Range(Comps[e.id])
      <4>1. n \in Below(A, Len(H) + 2, c)
        BY <3>1, <3>5, <3>6, Zenon DEF Below
      <4>2. \A m \in Below(A, Len(H) + 2, c) : m \in Nat /\ m <= n
        BY <3>2, <3>3 DEF Below, Under
      <4>3. ASSUME NEW m, Top(Below(A, Len(H) + 2, c), m)
            PROVE  v = A[m].id
        <5>1. m \in Nat /\ m <= n /\ n <= m
          BY <4>1, <4>2, <4>3, Zenon DEF Top
        <5>2. m = n
          BY <3>3, <5>1
        <5>3. QED
          BY <3>1, <3>6, <5>2, Zenon
      <4>4. Fits(A, T, sv, k, Len(H) + 2, c, v)
        BY <4>1, <4>3, Zenon DEF Fits
      <4>5. QED
        BY <4>4, Zenon DEF A
    <3>7. CASE c \notin Range(Comps[e.id])
      <4>1. Fits(A, T, sv, k, n, c, v)
        BY <3>3, <3>7, <2>FitsAppend DEF A
      <4>2. Below(A, Len(H) + 2, c) = Below(A, n, c)
        BY <3>1, <3>5, <3>7 DEF Below
      <4>3. Fits(A, T, sv, k, Len(H) + 2, c, v)
        BY <4>1, <4>2, Zenon DEF Fits
      <4>4. QED
        BY <4>3, Zenon DEF A
    <3>8. QED
      BY <3>6, <3>7, Zenon
  <2> USE <1>AppliedSound
  <2>1. /\ u.pc = "phase" /\ u.i = Len(Comps[u.b]) + 1
        /\ Added \in Entry /\ ~Added.back /\ Added.id = u.b
        /\ Added.prevUI = pending.prevUI /\ u'.pc = "prune"
    BY <1>AppliedTypes, Zenon
  <2>2. /\ u.b \in Bundle /\ pending.id = u.b /\ pending # NoPending
        /\ u.for = "" /\ ~u.err /\ u'.for = ""
    BY <2>1, <1>AppliedTypes, AtWork, Zenon DEF Applying
  <2>3. UNCHANGED <<bin, run, ui, saved, pkg, torn>>
    BY DEF applied, files, notes
  <2>4. CASE pending' = pending /\ history' = history
    BY <2>1, <2>2, <2>3, <2>4, StillSound, Zenon
  <2>5. CASE pending' = NoPending /\ history' = Append(history, Added)
    <3> DEFINE S == Comps[u.b]
    <3>a. PICK n : n = Len(history) + 1
      OBVIOUS
    <3>1. Begun' = torn /\ Begun = torn /\ torn' = torn
      BY <2>2, <2>3, Zenon DEF Begun
    <3>2. history \in Seq(Entry) /\ Len(history) \in Nat
      BY Recorded, Zenon
    <3>3. /\ Applied(history') = Applied(history) \cup {n}
          /\ Len(history') = n /\ history'[n] = Added
          /\ \A i \in 1 .. Len(history) : history'[i] = history[i]
      BY <2>1, <2>5, <3>2, <3>a, <1>AppliedAppend
    <3>4. \A i \in Applied(history) : i \in 1 .. Len(history) /\ history'[i] = history[i]
      BY <3>2, <3>3, BelowDomain
    <3>5. ASSUME NEW i \in 1 .. Len(history) + 1, NEW c, NEW v, Fit(i, c, v)
          PROVE  Fit1(i, c, v)
      <4>1. Fits(Append(history, Added), torn, saved, pkg, i, c, v)
        BY <2>1, <3>1, <3>2, <3>5, <2>FitsAppend, Zenon DEF Fit
      <4>2. QED
        BY <2>3, <2>5, <3>1, <4>1 DEF Fit1
    <3>6. /\ \A i, j \in Applied(history) : history[i].id = history[j].id => i = j
          /\ torn \subseteq {history[i].id : i \in Applied(history)}
          /\ \A i \in Applied(history) : Rests(i)
      BY LayersAre DEF Sound
    <3>7. /\ \A i \in Applied(history) : history[i].id # u.b
          /\ Fit(n, "ui", pending.prevUI)
          /\ \A c \in Component : c \notin Range(S) => Fit(n, c, Installed(c))
      BY <2>2, <3>a, Zenon DEF Sound, Replacing, Besides, Here
    <3>8. ASSUME NEW c \in Component, c \in Range(S)
          PROVE  Installed(c) = u.b /\ Fit(n, c, Was(u.b, pending.prevUI, c))
      <4>1. PICK j \in 1 .. Len(S) : S[j] = c
        BY <2>2, <3>8, Constants, Zenon DEF Range
      <4>2. Len(S) \in Nat
        BY <2>2, Constants, Zenon
      <4>3. j \in 1 .. u.i - 1 /\ u.i # 1 /\ u.i - 1 \in 1 .. Len(S)
        <5>1. u.i = Len(S) + 1
          BY <2>1
        <5>2. QED
          BY <4>2, <5>1
      <4>4. Installed(c) = u.b
        BY <2>1, <4>1, <4>3, Zenon DEF Sound, Stages
      <4>5. pending.phase # "saving"
        <5>1. pending.phase = S[u.i - 1]
          BY <2>1, <4>3, Zenon DEF TInv, Position
        <5>2. QED
          BY <2>2, <4>3, <5>1, CompAt, Zenon DEF Component, Binary
      <4>6. Halfway(c)
        BY <2>2, <3>8, <4>5, Zenon DEF Sound, Replacing
      <4>7. QED
        BY <2>2, <3>a, <4>4, <4>6, Zenon DEF Halfway, Here
    <3>9. ASSUME NEW i \in Applied(history) PROVE Rests(i)'
      <4>1. Rests(i) /\ history'[i] = history[i]
        BY <3>4, <3>6, Zenon
      <4>2. i \in 1 .. Len(history) + 1
        BY <3>2, <3>4
      <4>3. \A c, v : Fit(i, c, v) => Fit1(i, c, v)
        BY <3>5, <4>2
      <4>4. QED
        BY <2>3, <4>1, <4>3, Zenon DEF Rests, Fit, Fit1
    <3>10. Rests(n)'
      <4>1. n \in 1 .. Len(history) + 1
        BY <3>2, <3>a
      <4>2. \A c, v : Fit(n, c, v) => Fit1(n, c, v)
        BY <3>5, <4>1, SMTT(20)
      <4>3. Fit1(n, "ui", pending.prevUI)
        BY <3>7, <4>2, Zenon
      <4>4. \A c \in Binary : c \in Range(S) => Fit1(n, c, saved[u.b][c])
        BY <3>8, <4>2, Zenon DEF Was, Component, Binary
      <4>5. history'[n].id = u.b /\ history'[n].prevUI = pending.prevUI
        BY <2>1, <3>3
      <4>6. QED
        BY <2>3, <4>3, <4>4, <4>5, Zenon DEF Rests, Fit, Fit1
    <3>11. Layers'
      <4>1. \A i, j \in Applied(history') : history'[i].id = history'[j].id => i = j
        BY <2>1, <3>3, <3>4, <3>6, <3>7, SMTT(30)
      <4>2. torn' \subseteq {history'[i].id : i \in Applied(history')}
        BY <3>1, <3>3, <3>4, <3>6
      <4>3. QED
        BY <3>3, <3>9, <3>10, <4>1, <4>2, Zenon DEF Layers, Rests
    <3>12. ASSUME NEW c \in Component PROVE Fit1(Len(history) + 2, c, Installed(c))
      <4>1. c \in Range(Comps[Added.id]) => Installed(c) = Added.id
        BY <2>1, <3>8, Zenon
      <4>2. c \notin Range(Comps[Added.id]) =>
              Fits(history, torn, saved, pkg, Len(history) + 1, c, Installed(c))
        BY <2>1, <3>1, <3>7, <3>a DEF Fit
      <4>3. Fits(Append(history, Added), torn, saved, pkg, Len(history) + 2, c, Installed(c))
        BY <2>1, <3>2, <4>1, <4>2, <2>FitsNew, Zenon
      <4>4. QED
        BY <2>3, <2>5, <3>1, <4>3 DEF Fit1
    <3>13. Here' = Len(history) + 2
      BY <3>2, <3>3, <3>a DEF Here
    <3>14. \A c : Installed(c)' = Installed(c)
      BY <2>3 DEF Installed
    <3>15. Unchanged'
      BY <2>2, <3>12, <3>13, <3>14, Zenon DEF Unchanged, Fit, Fit1
    <3>16. \A c \in Binary : run'[c] = bin'[c]
      BY <2>1, <2>2, <2>3, IdleRunning, Zenon
    <3>17. Replacing' /\ Stages' /\ Running'
      BY <2>1, <2>5, <3>16, Zenon DEF Replacing, Stages, Running
    <3>18. QED
      BY <3>11, <3>15, <3>17 DEF Sound
  <2>6. QED
    BY <2>4, <2>5, <1>AppliedTypes, Zenon
(* The new update has its release, and saved all that it replaced. *)
<1>AppliedWhole.
  ASSUME TInv, Sound, Whole, Shrinks, applied
  PROVE  Whole'
  <2> USE <1>AppliedWhole
  <2>1. /\ u.pc = "phase" /\ u.i = Len(Comps[u.b]) + 1
        /\ Added \in Entry /\ ~Added.back /\ Added.id = u.b
        /\ u'.pc = "prune" /\ u'.b = u.b
    BY <1>AppliedTypes, Zenon
  <2>2. u.b \in Bundle /\ pending.id = u.b /\ pending # NoPending
    BY <2>1, AtWork, Zenon DEF Applying
  <2>3. releases' = releases /\ saved' = saved
    BY DEF applied, files
  <2>4. u.b \in releases
    BY <2>1, Zenon DEF Whole, Applying
  <2>5. CASE history' = history
    BY <2>1, <2>3, <2>4, <2>5, WholeKept
  <2>6. CASE history' = Append(history, Added)
    <3> DEFINE S == Comps[u.b]
    <3>a. PICK n : n = Len(history) + 1
      OBVIOUS
    <3>1. history \in Seq(Entry)
      BY Recorded, Zenon
    <3>2. /\ Applied(history') = Applied(history) \cup {n}
          /\ history'[n] = Added
          /\ \A i \in 1 .. Len(history) : history'[i] = history[i]
      BY <2>1, <2>6, <3>1, <3>a, <1>AppliedAppend
    <3>3. ASSUME NEW c \in Binary, c \in Range(S) PROVE saved[u.b][c] # ""
      <4>1. PICK j \in 1 .. Len(S) : S[j] = c
        BY <2>2, <3>3, Constants, Zenon DEF Range
      <4>2. Len(S) \in Nat
        BY <2>2, Constants, Zenon
      <4>3. u.i # 1 /\ u.i - 1 \in 1 .. Len(S)
        <5>1. u.i = Len(S) + 1
          BY <2>1
        <5>2. QED
          BY <4>2, <5>1
      <4>4. pending.phase = S[u.i - 1]
        BY <2>1, <4>3, Zenon DEF TInv, Position
      <4>5. pending.phase # "saving"
        BY <2>2, <4>3, <4>4, CompAt, Zenon DEF Component, Binary
      <4>6. Halfway(c)
        BY <2>2, <3>3, <4>5 DEF Sound, Replacing, Component
      <4>7. c # "ui"
        BY DEF Binary
      <4>8. QED
        BY <2>2, <4>6, <4>7, Zenon DEF Halfway, Was
    <3>4. Undoable(n)'
      <4>1. history'[n].id = u.b
        BY <2>1, <3>2
      <4>2. QED
        BY <2>3, <2>4, <3>3, <4>1, Zenon DEF Undoable
    <3>5. ASSUME NEW i \in Applied(history) PROVE Undoable(i)'
      <4>1. Undoable(i) /\ history'[i] = history[i]
        BY <3>2, AppliedIn, Zenon DEF Whole
      <4>2. Window(i)' => Window(i)
        BY Zenon DEF Shrinks, Applied
      <4>3. QED
        BY <2>3, <4>1, <4>2, Zenon DEF Undoable
    <3>6. \A i \in Applied(history') : Undoable(i)'
      BY <3>2, <3>4, <3>5, SMTT(20)
    <3>7. QED
      BY <2>1, <2>3, <2>4, <3>6, Zenon DEF Whole
  <2>7. QED
    BY <2>5, <2>6, <1>AppliedTypes, Zenon
<1> QED
  BY <1>AppliedTypes, <1>AppliedSound, <1>AppliedWhole, Zenon DEF Keeps

-----------------------------------------------------------------------------
(* A crash. *)

(* The update has come to the component in progress and those before it. *)
LEMMA AtPhase ==
  ASSUME TInv, u.pc \in {"install", "start"}
  PROVE  \A j \in 1 .. Len(Comps[u.b]) : Reached(Comps[u.b][j]) <=> j <= u.i
<1>1. /\ pending.id = u.b /\ u.b \in Bundle /\ u.i \in 1 .. Len(Comps[u.b])
      /\ pending.phase = Comps[u.b][u.i]
  BY Zenon DEF TInv, Position, Applying
<1> DEFINE S == Comps[u.b]
<1>2. /\ DOMAIN S = 1 .. Len(S) /\ Len(S) \in Nat
      /\ \A i, j \in 1 .. Len(S) : S[i] = S[j] => i = j
  BY <1>1, Constants, Zenon
<1>3. \A c : Reached(c) <=> \E i, j \in 1 .. Len(S) : i <= j /\ S[i] = c /\ S[j] = S[u.i]
  BY <1>1, <1>2 DEF Reached
<1> HIDE DEF S
<1>4. ASSUME NEW j \in 1 .. Len(S) PROVE Reached(S[j]) <=> j <= u.i
  <2>1. u.i \in 1 .. Len(S)
    BY <1>1 DEF S
  <2>2. QED
    BY <1>2, <1>3, <2>1, Zenon
<1>5. QED
  BY <1>4 DEF S

LEMMA CrashKeeps == TInv /\ crash => Keeps
<1>CrashTypes.
  ASSUME TInv, crash
  PROVE  /\ TInv' /\ u' = Rest /\ bin' = bin /\ run' \in {run, bin}
         /\ Begun' = torn' /\ torn' = Begun
         /\ mishap' = (mishap \/ Stale) \/ mishap' = (mishap \/ Stale \/ u.pc = "restart" \/ u.err)
         /\ run' = bin \/ (mishap' = (mishap \/ Stale \/ u.pc = "restart" \/ u.err) /\ run' = run)
  <2> USE <1>CrashTypes
  <2>1. CurrentIsNewest' /\ PendingOK'
    BY Frame DEF crash, state
  <2>2. u' = Rest /\ Position'
    BY <2>1, QuietPosition DEF Quiet, crash
  <2>3. u'.for = ""
    BY <2>2, RestFields, Zenon
  <2>4. torn' = Begun
    BY DEF crash, Begun
  <2>5. Begun' = torn'
    BY <2>3, Zenon DEF Begun
  <2>6. crashes' \in Nat /\ torn' \subseteq Bundle
    <3>1. crashes \in Nat /\ torn \subseteq Bundle
      BY Zenon DEF TInv, TypeOK
    <3>2. u.for = "rollback" => u.b \in Bundle
      BY DEF TInv, Position, Restoring
    <3>3. QED
      BY <3>1, <3>2 DEF crash
  <2>7. run' \in [Binary -> Build \cup {"down"}] /\ mishap' \in BOOLEAN
    <3>1. bin \in [Binary -> Build] /\ run \in [Binary -> Build \cup {"down"}]
      BY Zenon DEF TInv, TypeOK
    <3>2. run' \in [Binary -> Build \cup {"down"}]
      BY <3>1 DEF crash
    <3>3. mishap' \in BOOLEAN
      BY Zenon DEF crash
    <3>4. QED
      BY <3>2, <3>3
  <2>8. TypeOK'
    BY <2>6, <2>7, Zenon DEF TInv, TypeOK, crash, state
  <2>9. /\ run' = bin \/ (mishap' = (mishap \/ Stale \/ u.pc = "restart" \/ u.err) /\ run' = run)
        /\ mishap' = (mishap \/ Stale) \/ mishap' = (mishap \/ Stale \/ u.pc = "restart" \/ u.err)
        /\ bin' = bin
    BY DEF crash
  <2>10. QED
    BY <2>1, <2>2, <2>4, <2>5, <2>8, <2>9, Zenon DEF TInv
<1>CrashSound.
  ASSUME TInv, Sound, crash, ~mishap'
  PROVE  Sound'
  <2> USE <1>CrashSound
  <2>1. /\ u' = Rest /\ bin' = bin /\ Begun' = torn' /\ torn' = Begun /\ ~Stale
        /\ run' = bin \/ (u.pc # "restart" /\ ~u.err /\ run' = run)
    BY <1>CrashTypes, Zenon
  <2>2. u'.for = "" /\ u'.pc = "rest"
    BY <2>1, RestFields, Zenon
  <2>3. Steady
    BY <2>1 DEF Steady, crash, state
  <2>4. u.pc = "clear" => \A c \in Binary : saved[u.b][c] \in {"", bin[c]}
    BY <2>1, Zenon DEF Stale
  <2>5. ASSUME NEW c \in Binary PROVE run'[c] = bin[c] \/ Behind(c)
    <3>1. CASE run' = bin
      BY <3>1, Zenon
    <3>2. CASE u.pc # "restart" /\ ~u.err /\ run' = run /\ u.pc # "start"
      BY <3>2, IdleRunning, Zenon
    <3>3. CASE ~u.err /\ run' = run /\ u.pc = "start"
      <4>1. /\ pending # NoPending /\ pending.id = u.b /\ u.b \in Bundle
            /\ Len(Comps[u.b]) \in Nat
        BY <3>3, AtWork, Zenon DEF Applying
      <4>2. u.i \in 1 .. Len(Comps[u.b]) /\ pending.phase = Comps[u.b][u.i]
        BY <3>3, Zenon DEF TInv, Position
      <4>3. bin[Comps[u.b][u.i]] = u.b
        BY <3>3, Zenon DEF Sound, Stages
      <4>4. run[c] = bin[c] \/ c = Comps[u.b][u.i]
        BY <3>3, Zenon DEF Sound, Running
      <4>5. Reached(Comps[u.b][u.i])
        <5>1. u.i <= u.i
          BY <4>1, <4>2
        <5>2. QED
          BY <3>3, <4>2, <5>1, AtPhase
      <4>6. QED
        BY <3>3, <4>1, <4>3, <4>4, <4>5 DEF Behind
    <3>4. QED
      BY <2>1, <3>1, <3>2, <3>3
  <2>6. bin' = bin /\ ui' = ui /\ pending' = pending /\ saved' = saved
    BY DEF crash, state
  <2>7. QED
    BY <2>1, <2>2, <2>3, <2>4, <2>5, <2>6, IdleSound, Zenon
<1>CrashWhole.
  ASSUME TInv, Whole, Shrinks, crash
  PROVE  Whole'
  <2> USE <1>CrashWhole
  <2>1. UNCHANGED <<history, releases, saved>> /\ u' = Rest
    BY Zenon DEF crash, files, state
  <2>2. QED
    BY <2>1, QuietPlaces, WholeStays
<1> QED
  BY <1>CrashTypes, <1>CrashSound, <1>CrashWhole, Zenon DEF Keeps

-----------------------------------------------------------------------------
(* Recover and Rollback begin. *)

(* A restore begins. *)
LEMMA RestorePosition ==
  ASSUME NEW id \in Bundle, NEW comps \in Seq(Component),
         NEW prevUI \in Bundle \cup {""},
         NEW for \in {"recover", "fail", "rollback"},
         restore(id, comps, prevUI, for),
         for \in {"recover", "fail"} =>
           pending'.id = id /\ pending'.prevUI = prevUI,
         for = "rollback" =>
           /\ pending' = NoPending /\ Applied(history') # {}
           /\ history'[Newest(history')].id = id
           /\ history'[Newest(history')].prevUI = prevUI,
         Range(comps) \subseteq Range(Comps[id]), PendingOK'
  PROVE  /\ Position'
         /\ u'.pc = "restore" /\ u'.b = id /\ u'.todo = comps
         /\ u'.prevUI = prevUI /\ u'.for = for /\ ~u'.err
<1>1. /\ u'.pc = "restore" /\ u'.b = id /\ u'.todo = comps
      /\ u'.prevUI = prevUI /\ u'.for = for /\ u'.err = FALSE
      /\ u'.i = 0 /\ u'.hist = <<>>
  BY Zenon DEF restore, Rest
<1>2. u' \in Local
  <2>1. <<>> \in Seq(Entry)
    BY RestFields, Zenon
  <2>2. u' = [pc |-> "restore", b |-> id, i |-> 0, todo |-> comps,
              for |-> for, prevUI |-> prevUI, err |-> FALSE, hist |-> <<>>]
    BY Zenon DEF restore, Rest
  <2>3. QED
    BY <2>1, <2>2, Zenon DEF Local, Restoring
<1>3. Position'
  BY <1>1, <1>2, Zenon DEF Position, PendingOK, Applying, Restoring
<1>4. QED
  BY <1>1, <1>3, Zenon

(* A restore of the pending update begins: what it will not come to was    *)
(* not replaced.                                                           *)
LEMMA EnterSound ==
  ASSUME TInv, Sound, pending # NoPending, u.pc # "clear", u.for = "",
         UNCHANGED <<bin, ui, saved, pending, history, pkg, torn>>,
         u'.for \in {"recover", "fail"}, u'.pc = "restore",
         pending.phase # "saving" =>
           \A c \in Component : c \in Range(Comps[pending.id]) =>
             c \in Range(u'.todo) \/ Installed(c) = Was(pending.id, pending.prevUI, c),
         \A c \in Binary : run'[c] = bin[c] \/ Behind(c)
  PROVE  Sound'
<1>1. Begun' = torn /\ Begun = torn
  BY Zenon DEF Begun
<1>2. Steady /\ torn' \subseteq Begun
  BY <1>1, Zenon DEF Steady
<1>3. Layers'
  BY <1>2, LayersKept, Zenon DEF Sound
<1>4. \A c : /\ Installed(c)' = Installed(c) /\ Reached(c)' = Reached(c)
             /\ Was(pending.id, pending.prevUI, c)' = Was(pending.id, pending.prevUI, c)
  BY Zenon DEF Installed, Reached, Was
<1>5. \A i, c, v : Fit(i, c, v)' = Fits(history, torn, saved, pkg, i, c, v)
  BY <1>1, Zenon DEF Fit
<1>6. \A i, c, v : Fit(i, c, v) = Fits(history, torn, saved, pkg, i, c, v)
  BY <1>1, Zenon DEF Fit
<1>7. Here' = Here
  BY Zenon DEF Here
<1>8. Besides /\ Besides'
  BY <1>4, <1>5, <1>6, <1>7, Zenon DEF Sound, Replacing, Besides
<1>9. pending.phase = "saving" => NotYet'
  BY <1>4, <1>5, <1>6, <1>7, Zenon DEF Sound, Replacing, NotYet
<1>10. ASSUME pending.phase # "saving", NEW c \in Component, c \in Range(Comps[pending.id])
       PROVE  Halfway(c)'
  <2>1. Halfway(c) /\ (c \in Range(u'.todo) \/ Installed(c) = Was(pending.id, pending.prevUI, c))
    BY <1>10, Zenon DEF Sound, Replacing
  <2>2. QED
    BY <1>4, <1>5, <1>6, <1>7, <2>1, Zenon DEF Halfway
<1>11. Replacing' /\ Unchanged'
  BY <1>8, <1>9, <1>10, Zenon DEF Replacing, Unchanged
<1>12. Stages' /\ Running'
  BY <1>4, Zenon DEF Stages, Running, Behind
<1>13. QED
  BY <1>3, <1>11, <1>12, Zenon DEF Sound

LEMMA BeginKeeps == TInv /\ (Recover \/ Rollback) => Keeps
<1>RecoverTypes.
  ASSUME TInv, Recover
  PROVE  /\ TInv' /\ u.pc = "rest" /\ u'.b = pending.id
         /\ ~u'.err /\ u'.pc \in {"pass", "restore"}
         /\ pending = NoPending => u' = Pass
         /\ pending # NoPending =>
              /\ u'.pc = "restore" /\ u'.for = "recover"
              /\ u'.todo = Touched(pending)
  <2> USE <1>RecoverTypes
  <2>1. UNCHANGED <<files, state, inbox, pkg, crashes, notes>>
    BY DEF Recover
  <2>2. UNCHANGED <<pending, history, current>>
    BY <2>1 DEF state
  <2>3. TypeOK' /\ CurrentIsNewest' /\ PendingOK'
    BY <2>1, <2>2, Frame
  <2>4. CASE pending = NoPending
    <3>1. u' = Pass
      BY <2>4 DEF Recover
    <3>2. Position'
      BY <2>3, <3>1, QuietPosition DEF Quiet
    <3>3. u'.b = pending.id
      BY <2>4, <3>1, Zenon DEF Pass, Rest, NoPending
    <3>4. QED
      BY <2>3, <2>4, <3>1, <3>2, <3>3, RestFields, Zenon DEF TInv, Recover
  <2>5. CASE pending # NoPending
    <3>1. restore(pending.id, Touched(pending), pending.prevUI, "recover")
      BY <2>5 DEF Recover
    <3>2. /\ pending.id \in Bundle /\ pending.prevUI \in Bundle \cup {""}
          /\ Touched(pending) \in Seq(Component)
          /\ Range(Touched(pending)) \subseteq Range(Comps[pending.id])
      BY <2>5, TouchedIs, Zenon
    <3>3. pending'.id = pending.id /\ pending'.prevUI = pending.prevUI
      BY <2>2
    <3>4. /\ Position' /\ u'.pc = "restore" /\ u'.b = pending.id
          /\ u'.todo = Touched(pending) /\ u'.for = "recover" /\ ~u'.err
      BY <2>3, <3>1, <3>2, <3>3, RestorePosition, Zenon
    <3>5. QED
      BY <2>3, <2>5, <3>4 DEF TInv, Recover
  <2>6. QED
    BY <2>4, <2>5
<1>RollbackTypes.
  ASSUME TInv, Rollback
  PROVE  /\ TInv' /\ u.pc = "pass" /\ pending = NoPending
         /\ Applied(history) # {}
         /\ u'.pc = "restore" /\ u'.for = "rollback" /\ ~u'.err
         /\ u'.b = history[Newest(history)].id
         /\ u'.todo = Comps[u'.b] /\ u'.b \in Bundle
  <2> USE <1>RollbackTypes
  <2> DEFINE e == history[Newest(history)]
  <2>1. u.pc = "pass" /\ pending = NoPending /\ Applied(history) # {}
    BY Zenon DEF Rollback
  <2>2. UNCHANGED <<files, state, inbox, pkg, crashes, notes>>
    BY DEF Rollback
  <2>3. UNCHANGED <<pending, history, current>>
    BY <2>2 DEF state
  <2>4. TypeOK' /\ CurrentIsNewest' /\ PendingOK'
    BY <2>2, <2>3, Frame
  <2>5. e.id \in Bundle /\ e.prevUI \in Bundle \cup {""}
    BY <2>1, NewestIs, Recorded, Zenon
  <2>6. Comps[e.id] \in Seq(Component)
    BY <2>5, Constants, Zenon
  <2>7. restore(e.id, Comps[e.id], e.prevUI, "rollback")
    BY DEF Rollback
  <2>8. /\ pending' = NoPending /\ Applied(history') # {}
        /\ history'[Newest(history')].id = e.id
        /\ history'[Newest(history')].prevUI = e.prevUI
    BY <2>1, <2>3
  <2> HIDE DEF e
  <2>9. /\ Position' /\ u'.pc = "restore" /\ u'.b = e.id
        /\ u'.todo = Comps[e.id] /\ u'.for = "rollback" /\ ~u'.err
    BY <2>4, <2>5, <2>6, <2>7, <2>8, RestorePosition, Zenon
  <2>10. QED
    BY <2>1, <2>4, <2>5, <2>9, Zenon DEF TInv, e
<1>RecoverSound.
  ASSUME TInv, Sound, Recover
  PROVE  Sound'
  <2> USE <1>RecoverSound
  <2>1. u.pc = "rest" /\ u.for = "" /\ ~u.err
    BY Zenon DEF Recover, TInv, Position, Restoring
  <2>2. UNCHANGED <<bin, run, ui, saved, pending, history, pkg, torn>>
    BY DEF Recover, files, state, notes
  <2>3. CASE pending = NoPending
    <3>1. u'.for = "" /\ u'.pc = "pass"
      BY <2>3, <1>RecoverTypes, RestFields, Zenon
    <3>2. QED
      BY <2>1, <2>2, <3>1, StillSound, Zenon
  <2>4. CASE pending # NoPending
    <3>1. u'.pc = "restore" /\ u'.for = "recover" /\ u'.todo = Touched(pending)
      BY <2>4, <1>RecoverTypes
    <3>2. \A c \in Binary : run'[c] = bin[c] \/ Behind(c)
      BY <2>1, <2>2, IdleRunning, Zenon
    <3>3. ASSUME pending.phase # "saving", NEW c \in Component, c \in Range(Comps[pending.id])
          PROVE  c \in Range(u'.todo) \/ Installed(c) = Was(pending.id, pending.prevUI, c)
      <4>1. Halfway(c)
        BY <2>4, <3>3 DEF Sound, Replacing
      <4>2. Reached(c) => c \in Range(u'.todo)
        BY <2>4, <3>1, TouchedIs, Zenon
      <4>3. QED
        BY <4>1, <4>2, Zenon DEF Halfway
    <3>4. QED
      BY <2>1, <2>2, <2>4, <3>1, <3>2, <3>3, EnterSound, Zenon
  <2>5. QED
    BY <2>3, <2>4
<1>RollbackSound.
  ASSUME TInv, Sound, Rollback
  PROVE  Sound'
  <2> USE <1>RollbackSound
  <2>1. /\ u.pc = "pass" /\ pending = NoPending /\ u'.pc = "restore"
        /\ u'.for = "rollback" /\ u'.todo = Comps[u'.b]
    BY <1>RollbackTypes
  <2>2. u.for = "" /\ ~u.err
    BY <2>1, Zenon DEF TInv, Position, Restoring
  <2>3. UNCHANGED <<bin, run, ui, saved, pending, history, pkg, torn>>
    BY Zenon DEF Rollback, files, state, notes
  <2>4. Begun \subseteq Begun' /\ torn' \subseteq Begun
    BY <2>2, <2>3, Zenon DEF Begun
  <2>5. Steady
    BY <2>3, <2>4 DEF Steady
  <2>6. Layers'
    BY <2>4, <2>5, LayersKept DEF Sound
  <2>7. ASSUME NEW c \in Component PROVE Fit(Here, c, Installed(c))'
    <3>1. Fit(Here, c, Installed(c))
      BY <2>1 DEF Sound, Unchanged
    <3>2. Fit1(Here, c, Installed(c))
      BY <2>5, <3>1, FitKept
    <3>3. Here' = Here /\ Installed(c)' = Installed(c)
      BY <2>3, Zenon DEF Here, Installed
    <3>4. QED
      BY <3>2, <3>3, Zenon DEF Fit, Fit1
  <2>8. Unchanged'
    BY <2>1, <2>7 DEF Unchanged
  <2>9. \A c \in Binary : run'[c] = bin'[c]
    BY <2>1, <2>2, <2>3, IdleRunning, Zenon
  <2>10. Replacing' /\ Stages' /\ Running'
    BY <2>1, <2>3, <2>9, Zenon DEF Replacing, Stages, Running
  <2>11. QED
    BY <2>6, <2>8, <2>10 DEF Sound
<1>BeginningWhole.
  ASSUME TInv, Whole, Shrinks, Recover \/ Rollback
  PROVE  Whole'
  <2>RestorePlaces.
    ASSUME NEW b, NEW S, NEW w, NEW f, restore(b, S, w, f)
    PROVE  Places
    BY <2>RestorePlaces DEF restore, Rest, Places, Applying
  <2> USE <1>BeginningWhole
  <2>1. UNCHANGED <<history, releases, saved>>
    BY Zenon DEF Recover, Rollback, files, state
  <2>2. ASSUME Recover PROVE Places
    BY <2>2, QuietPlaces, <2>RestorePlaces, Zenon DEF Recover
  <2>3. ASSUME Rollback PROVE Places
    BY <2>3, <2>RestorePlaces DEF Rollback
  <2>4. QED
    BY <2>1, <2>2, <2>3, WholeStays, Zenon
<1>1. TInv /\ Recover => Keeps
  BY <1>RecoverTypes, <1>RecoverSound, <1>BeginningWhole, Zenon DEF Keeps
<1>2. TInv /\ Rollback => Keeps
  BY <1>RollbackTypes, <1>RollbackSound, <1>BeginningWhole, Zenon DEF Keeps
<1>3. QED
  BY <1>1, <1>2, Zenon

-----------------------------------------------------------------------------
(* apply replaces the components and restarts the services. *)

(* fail goes to restore what is done. *)
LEMMA FailPosition ==
  ASSUME TInv, u.pc \in Applying, NEW done \in Seq(Component),
         Range(done) \subseteq Range(Comps[u.b]), fail(done), UNCHANGED pending
  PROVE  /\ Position'
         /\ u'.pc = "restore" /\ u'.b = u.b /\ u'.todo = done
         /\ u'.for = "fail" /\ ~u'.err
<1>1. u.b \in Bundle /\ pending.id = u.b
  BY Zenon DEF TInv, Position, Applying
<1>2. pending # NoPending
  BY <1>1, HasPending
<1>3. pending.prevUI \in Bundle \cup {""}
  BY <1>2, TouchedIs, Zenon
<1>4. restore(u.b, done, pending.prevUI, "fail")
  BY DEF fail
<1>5. pending'.id = u.b /\ pending'.prevUI = pending.prevUI
  BY <1>1, Zenon
<1>6. PendingOK'
  BY Frame
<1>7. QED
  BY <1>1, <1>3, <1>4, <1>5, <1>6, RestorePosition, Zenon

(* The step of apply at the same bundle. *)
LEMMA WorkPosition ==
  ASSUME TInv, u.pc \in Applying, NEW pc \in Applying \ {"start"}, NEW i \in Nat,
         u' = [u EXCEPT !.pc = pc, !.i = i], PendingOK',
         pending'.id = u.b,
         pc \in {"clear", "keep"} => pending'.phase = "saving",
         pc \in {"keep", "phase"} => i \in 1 .. Len(Comps[u.b]) + 1,
         pc = "install" =>
           i \in 1 .. Len(Comps[u.b]) /\ pending'.phase = Comps[u.b][i],
         pc = "phase" =>
           pending'.phase = IF i = 1 THEN "saving" ELSE Comps[u.b][i - 1]
  PROVE  /\ Position'
         /\ u'.pc = pc /\ u'.i = i /\ u'.b = u.b /\ u'.for = "" /\ ~u'.err
<1>1. u.b \in Bundle /\ u \in Local /\ u.for = "" /\ ~u.err
  BY AtWork, Zenon
<1>2. /\ u' \in Local /\ u'.pc = pc /\ u'.i = i /\ u'.b = u.b
      /\ u'.for = "" /\ ~u'.err
  BY <1>1, Zenon DEF Local, Applying
<1>3. pc \notin {"rest", "pass", "prune", "restart", "restore", "start"}
  BY DEF Applying
<1>4. Position'
  BY <1>1, <1>2, <1>3, Zenon DEF Position, PendingOK, Restoring
<1>5. QED
  BY <1>2, <1>4, Zenon

(* An update in the phase of its n-th component has come to the first n. *)
Came(b, phase, c) ==
  \E i, j \in DOMAIN Comps[b] : i <= j /\ Comps[b][i] = c /\ Comps[b][j] = phase

LEMMA ReplacingKeeps == TInv /\ (applyPhase \/ applyInstall \/ applyRestart) => Keeps
<1>PhaseTypes.
  ASSUME TInv, applyPhase
  PROVE  /\ TInv' /\ u.pc = "phase" /\ u.i \in 1 .. Len(Comps[u.b])
         /\ \/ /\ u'.pc = "install" /\ u'.i = u.i /\ u'.b = u.b /\ u'.for = "" /\ ~u'.err
               /\ pending' = [pending EXCEPT !.phase = Comps[u.b][u.i]]
               /\ pending'.id = pending.id /\ pending'.prevUI = pending.prevUI
               /\ pending'.phase = Comps[u.b][u.i] /\ pending'.phase # "saving"
            \/ u' = Drop(u.b) /\ pending' = pending
  <2> USE <1>PhaseTypes
  <2>1. /\ u.b \in Bundle /\ u \in Local /\ u.pc \in Applying /\ u.pc = "phase"
        /\ pending.id = u.b /\ Len(Comps[u.b]) \in Nat /\ u.i \in Nat
        /\ pending # NoPending
    BY AtWork, Zenon DEF applyPhase, Applying
  <2>2. u.i \in 1 .. Len(Comps[u.b]) + 1
    BY <2>1, Zenon DEF TInv, Position
  <2>3. u.i \in 1 .. Len(Comps[u.b])
    BY <2>1, <2>2 DEF applyPhase
  <2>4. CurrentIsNewest'
    BY Frame, Zenon DEF applyPhase
  <2> DEFINE c == Comps[u.b][u.i]
  <2>5. c \in Component /\ c \in Range(Comps[u.b])
    BY <2>1, <2>3, CompAt, Zenon
  <2>6. c # "saving"
    BY <2>5 DEF Component, Binary
  <2>7. CASE /\ pending' = [pending EXCEPT !.phase = c]
             /\ u' = [u EXCEPT !.pc = "install"]
    <3>1. pending \in [id : Bundle, phase : Component \cup {"saving"}, prevUI : Bundle \cup {""}]
      BY <2>1, Zenon DEF TInv, TypeOK
    <3> HIDE DEF c
    <3>2. /\ pending' \in [id : Bundle, phase : Component \cup {"saving"}, prevUI : Bundle \cup {""}]
          /\ pending'.id = pending.id /\ pending'.prevUI = pending.prevUI /\ pending'.phase = c
      BY <2>5, <2>7, <3>1, Zenon
    <3>3. TypeOK'
      BY <3>2, Zenon DEF TInv, TypeOK, applyPhase, files, notes
    <3>4. PendingOK'
      BY <2>1, <2>5, <3>2, Zenon DEF PendingOK
    <3>5. u' = [u EXCEPT !.pc = "install", !.i = u.i]
      BY <2>1, <2>7, Zenon DEF Local
    <3>6. "install" \in Applying \ {"start"}
      BY DEF Applying
    <3>7. /\ Position' /\ u'.pc = "install" /\ u'.i = u.i /\ u'.b = u.b
          /\ u'.for = "" /\ ~u'.err
      BY <2>1, <2>3, <3>2, <3>4, <3>5, <3>6, WorkPosition, Zenon DEF c
    <3>8. QED
      BY <2>1, <2>3, <2>4, <2>6, <2>7, <3>2, <3>3, <3>7, Zenon DEF TInv, c
  <2>8. CASE u' = Drop(u.b) /\ UNCHANGED pending
    <3>1. TypeOK'
      BY <2>8, Zenon DEF TInv, TypeOK, applyPhase, files, notes
    <3>2. Position'
      BY <2>1, <2>8, Frame, QuietPosition DEF Quiet
    <3>3. QED
      BY <2>1, <2>3, <2>4, <2>8, <3>1, <3>2 DEF TInv
  <2>9. QED
    BY <2>7, <2>8, Zenon DEF applyPhase
<1>OneUp.
  ASSUME NEW n \in Nat, NEW i \in 1 .. n
  PROVE  /\ i + 1 \in 1 .. n + 1 /\ i + 1 \in Nat /\ i + 1 # 1 /\ i + 1 - 1 = i
         /\ i - 1 \in 0 .. n /\ i \in 0 .. n
  OBVIOUS
(* The part of a bundle that is done. *)
<1>DoneIs.
  ASSUME TInv, u.b \in Bundle, NEW i \in 0 .. Len(Comps[u.b])
  PROVE  /\ Done(i) \in Seq(Component) /\ Range(Done(i)) \subseteq Range(Comps[u.b])
         /\ \A j \in 1 .. i : Comps[u.b][j] \in Range(Done(i))
  <2> USE <1>DoneIs
  <2> DEFINE S == Comps[u.b]
  <2>1. /\ S \in Seq(Component) /\ Len(S) \in Nat /\ DOMAIN S = 1 .. Len(S)
        /\ i \in 0 .. Len(S)
    BY Constants, Zenon
  <2>2. Done(i) = SubSeq(S, 1, i)
    BY DEF Done
  <2> HIDE DEF S
  <2>3. SubSeq(S, 1, i) \in Seq(Component) /\ Len(SubSeq(S, 1, i)) = i
    BY <2>1
  <2>4. \A j \in 1 .. i : SubSeq(S, 1, i)[j] = S[j] /\ j \in 1 .. Len(S)
    BY <2>1
  <2>5. DOMAIN SubSeq(S, 1, i) = 1 .. i
    BY <2>1, <2>3
  <2>6. Range(Done(i)) \subseteq Range(S) /\ \A j \in 1 .. i : S[j] \in Range(Done(i))
    BY <2>1, <2>2, <2>4, <2>5, Zenon DEF Range
  <2>7. QED
    BY <2>2, <2>3, <2>6 DEF S
(* The component is done. *)
<1>NextComponent.
  ASSUME TInv, u.pc \in {"install", "start"},
         u' = [u EXCEPT !.pc = "phase", !.i = u.i + 1], pending' = pending
  PROVE  /\ Position' /\ u'.pc = "phase" /\ u'.i = u.i + 1 /\ u'.b = u.b
         /\ u'.for = "" /\ ~u'.err
  <2> USE <1>NextComponent
  <2>1. u.pc \in Applying /\ u.b \in Bundle /\ pending.id = u.b /\ Len(Comps[u.b]) \in Nat
    BY AtWork, Zenon DEF Applying
  <2>2. u.i \in 1 .. Len(Comps[u.b]) /\ pending.phase = Comps[u.b][u.i]
    BY Zenon DEF TInv, Position
  <2>3. PICK n : n = u.i + 1
    OBVIOUS
  <2>4. n \in 1 .. Len(Comps[u.b]) + 1 /\ n \in Nat /\ n # 1 /\ n - 1 = u.i
    BY <2>1, <2>2, <2>3, <1>OneUp
  <2>5. "phase" \in Applying \ {"start"} /\ u' = [u EXCEPT !.pc = "phase", !.i = n]
    BY <2>3 DEF Applying
  <2>6. PendingOK'
    BY Frame
  <2>7. pending'.phase = Comps[u.b][n - 1]
    BY <2>2, <2>4
  <2>8. /\ Position' /\ u'.pc = "phase" /\ u'.i = n /\ u'.b = u.b
        /\ u'.for = "" /\ ~u'.err
    BY <2>1, <2>4, <2>5, <2>6, <2>7, WorkPosition, Zenon
  <2>9. QED
    BY <2>3, <2>8, Zenon
<1>InstallTypes.
  ASSUME TInv, applyInstall
  PROVE  /\ TInv' /\ u.pc = "install" /\ u.i \in 1 .. Len(Comps[u.b])
         /\ u'.b = u.b /\ ~u'.err
         /\ LET c == Comps[u.b][u.i]
            IN  \/ /\ c = "ui" /\ ui' = u.b /\ bin' = bin
                   /\ u'.pc = "phase" /\ u'.i = u.i + 1 /\ u'.for = ""
                \/ /\ c \in Binary /\ bin' = [bin EXCEPT ![c] = u.b] /\ ui' = ui
                   /\ u'.pc = "start" /\ u'.i = u.i /\ u'.for = ""
                \/ /\ bin' = bin /\ ui' = ui
                   /\ u'.pc = "restore" /\ u'.for = "fail" /\ u'.todo = Done(u.i - 1)
  <2> USE <1>InstallTypes
  <2>1. /\ u.b \in Bundle /\ u \in Local /\ u.pc \in Applying /\ u.pc = "install"
        /\ pending.id = u.b /\ Len(Comps[u.b]) \in Nat /\ u.i \in Nat
        /\ u.for = "" /\ ~u.err
    BY AtWork, Zenon DEF applyInstall, Applying
  <2>2. u.i \in 1 .. Len(Comps[u.b]) /\ pending.phase = Comps[u.b][u.i]
    BY <2>1, Zenon DEF TInv, Position
  <2>3. CurrentIsNewest' /\ PendingOK' /\ pending' = pending
    BY Frame DEF applyInstall, state
  <2>4. bin \in [Binary -> Build] /\ u.b \in Build
    BY <2>1, Zenon DEF TInv, TypeOK, Build
  <2> DEFINE c == Comps[u.b][u.i]
  <2>5. c \in Component
    BY <2>1, <2>2, CompAt, Zenon
  <2>6. CASE /\ c = "ui" /\ ui' = u.b
             /\ u' = [u EXCEPT !.pc = "phase", !.i = @ + 1]
             /\ UNCHANGED bin
    <3>1. TypeOK'
      BY <2>1, <2>6, Zenon DEF TInv, TypeOK, applyInstall, state, notes
    <3>2. /\ Position' /\ u'.pc = "phase" /\ u'.i = u.i + 1 /\ u'.b = u.b
          /\ u'.for = "" /\ ~u'.err
      BY <2>1, <2>3, <2>6, <1>NextComponent, Zenon
    <3>3. QED
      BY <2>1, <2>2, <2>3, <2>6, <3>1, <3>2, Zenon DEF TInv
  <2>7. CASE /\ c # "ui" /\ bin' = [bin EXCEPT ![c] = u.b]
             /\ u' = [u EXCEPT !.pc = "start"]
             /\ UNCHANGED ui
    <3>1. c \in Binary
      BY <2>5, <2>7 DEF Component
    <3>2. bin' \in [Binary -> Build]
      <4> HIDE DEF c
      <4>1. QED
        BY <2>4, <2>7, <3>1
    <3>3. TypeOK'
      BY <2>7, <3>2, Zenon DEF TInv, TypeOK, applyInstall, state, notes
    <3>4. /\ u' \in Local /\ u'.pc = "start" /\ u'.i = u.i /\ u'.b = u.b
          /\ u'.for = "" /\ ~u'.err
      BY <2>1, <2>7, Zenon DEF Local, Applying
    <3>5. Position'
      BY <2>1, <2>2, <2>3, <2>7, <3>4, Zenon DEF Position, PendingOK, Restoring
    <3>6. QED
      BY <2>1, <2>2, <2>3, <2>7, <3>1, <3>3, <3>4, <3>5, Zenon DEF TInv
  <2>8. CASE fail(Done(u.i - 1)) /\ UNCHANGED <<bin, ui>>
    <3>1. TypeOK'
      BY <2>8, Zenon DEF TInv, TypeOK, applyInstall, state, notes
    <3>2. u.i - 1 \in 0 .. Len(Comps[u.b])
      <4>1. u.i \in 1 .. Len(Comps[u.b]) /\ Len(Comps[u.b]) \in Nat
        BY <2>1, <2>2, Zenon
      <4>2. QED
        BY <4>1, <1>OneUp
    <3>3. Done(u.i - 1) \in Seq(Component) /\ Range(Done(u.i - 1)) \subseteq Range(Comps[u.b])
      BY <2>1, <3>2, <1>DoneIs, Zenon
    <3>4. /\ Position' /\ u'.pc = "restore" /\ u'.b = u.b /\ u'.todo = Done(u.i - 1)
          /\ u'.for = "fail" /\ ~u'.err
      BY <2>1, <2>3, <2>8, <3>3, FailPosition, Zenon
    <3>5. QED
      BY <2>1, <2>2, <2>3, <2>8, <3>1, <3>4, Zenon DEF TInv
  <2>9. QED
    BY <2>6, <2>7, <2>8, Zenon DEF applyInstall
<1>StartTypes.
  ASSUME TInv, applyRestart
  PROVE  /\ TInv' /\ u.pc = "start" /\ u.i \in 1 .. Len(Comps[u.b])
         /\ Comps[u.b][u.i] \in Binary /\ u'.b = u.b /\ ~u'.err
         /\ \/ /\ run' = [run EXCEPT ![Comps[u.b][u.i]] = bin[Comps[u.b][u.i]]]
               /\ u'.pc = "phase" /\ u'.i = u.i + 1 /\ u'.for = ""
            \/ /\ \A c \in Binary : c # Comps[u.b][u.i] => run'[c] = run[c]
               /\ u'.pc = "restore" /\ u'.for = "fail" /\ u'.todo = Done(u.i)
  <2> USE <1>StartTypes
  <2>1. /\ u.b \in Bundle /\ u \in Local /\ u.pc \in Applying /\ u.pc = "start"
        /\ pending.id = u.b /\ Len(Comps[u.b]) \in Nat /\ u.i \in Nat
        /\ u.for = "" /\ ~u.err
    BY AtWork, Zenon DEF applyRestart, Applying
  <2>2. /\ u.i \in 1 .. Len(Comps[u.b]) /\ pending.phase = Comps[u.b][u.i]
        /\ Comps[u.b][u.i] # "ui"
    BY <2>1, Zenon DEF TInv, Position
  <2>3. CurrentIsNewest' /\ PendingOK' /\ pending' = pending
    BY Frame DEF applyRestart, state
  <2>4. bin \in [Binary -> Build] /\ run \in [Binary -> Build \cup {"down"}]
    BY Zenon DEF TInv, TypeOK
  <2> DEFINE c == Comps[u.b][u.i]
  <2>5. c \in Binary
    BY <2>1, <2>2, CompAt, Zenon DEF Component
  <2>6. ASSUME NEW r \in {bin[c], "down"}, run' = [run EXCEPT ![c] = r]
        PROVE  TypeOK' /\ \A d \in Binary : d # c => run'[d] = run[d]
    <3> HIDE DEF c
    <3>1. run' \in [Binary -> Build \cup {"down"}]
      BY <2>4, <2>5, <2>6
    <3>2. \A d \in Binary : d # c => run'[d] = run[d]
      BY <2>4, <2>6
    <3>3. TypeOK'
      BY <3>1, Zenon DEF TInv, TypeOK, applyRestart, state, notes
    <3>4. QED
      BY <3>2, <3>3
  <2>7. CASE /\ run' = [run EXCEPT ![c] = bin[c]]
             /\ u' = [u EXCEPT !.pc = "phase", !.i = @ + 1]
    <3>1. TypeOK'
      BY <2>6, <2>7
    <3>2. /\ Position' /\ u'.pc = "phase" /\ u'.i = u.i + 1 /\ u'.b = u.b
          /\ u'.for = "" /\ ~u'.err
      BY <2>1, <2>3, <2>7, <1>NextComponent, Zenon
    <3>3. QED
      BY <2>1, <2>2, <2>3, <2>5, <2>7, <3>1, <3>2, Zenon DEF TInv
  <2>8. CASE /\ \E r \in {bin[c], "down"} : run' = [run EXCEPT ![c] = r]
             /\ fail(Done(u.i))
    <3>1. TypeOK' /\ \A d \in Binary : d # c => run'[d] = run[d]
      BY <2>6, <2>8, Zenon
    <3>2. u.i \in 0 .. Len(Comps[u.b])
      BY <2>1, <2>2, <1>OneUp, Zenon
    <3>3. Done(u.i) \in Seq(Component) /\ Range(Done(u.i)) \subseteq Range(Comps[u.b])
      BY <2>1, <3>2, <1>DoneIs, Zenon
    <3>4. /\ Position' /\ u'.pc = "restore" /\ u'.b = u.b /\ u'.todo = Done(u.i)
          /\ u'.for = "fail" /\ ~u'.err
      BY <2>1, <2>3, <2>8, <3>3, FailPosition, Zenon
    <3>5. QED
      BY <2>1, <2>2, <2>3, <2>5, <3>1, <3>4, Zenon DEF TInv
  <2>9. QED
    BY <2>7, <2>8, Zenon DEF applyRestart
<1>PhaseSound.
  ASSUME TInv, Sound, applyPhase
  PROVE  Sound'
  <2>CameTo.
    ASSUME NEW b \in Bundle, NEW n \in 1 .. Len(Comps[b]), NEW j \in 1 .. Len(Comps[b])
    PROVE  Came(b, Comps[b][n], Comps[b][j]) <=> j <= n
    <3> DEFINE S == Comps[b]
    <3>1. /\ DOMAIN S = 1 .. Len(S) /\ Len(S) \in Nat
          /\ \A i, k \in 1 .. Len(S) : S[i] = S[k] => i = k
      BY Constants, Zenon
    <3>2. Came(b, S[n], S[j]) <=> \E i, k \in DOMAIN S : i <= k /\ S[i] = S[j] /\ S[k] = S[n]
      BY DEF Came
    <3> HIDE DEF S
    <3>3. n \in 1 .. Len(S) /\ j \in 1 .. Len(S)
      BY Zenon DEF S
    <3>4. Came(b, S[n], S[j]) <=> j <= n
      BY <3>1, <3>2, <3>3
    <3>5. QED
      BY <3>4 DEF S
  <2> USE <1>PhaseSound
  <2>1. u.pc = "phase" /\ u.i \in 1 .. Len(Comps[u.b])
    BY <1>PhaseTypes, Zenon
  <2>2. /\ u.b \in Bundle /\ pending.id = u.b /\ pending # NoPending
        /\ u.for = "" /\ ~u.err
    BY <2>1, AtWork, Zenon DEF Applying
  <2>n. Len(Comps[u.b]) \in Nat
    BY <2>1, AtWork, Zenon DEF Applying
  <2>3. UNCHANGED <<bin, run, ui, saved, history, pkg, torn>>
    BY DEF applyPhase, files, notes
  <2>4. CASE u' = Drop(u.b) /\ pending' = pending
    <3>1. u'.for = "" /\ u'.pc = "drop"
      BY <2>2, <2>4, RestFields, Zenon
    <3>2. QED
      BY <2>1, <2>2, <2>3, <2>4, <3>1, StillSound, Zenon
  <2>5. CASE /\ u'.pc = "install" /\ u'.i = u.i /\ u'.b = u.b /\ u'.for = "" /\ ~u'.err
             /\ pending'.id = pending.id /\ pending'.prevUI = pending.prevUI
             /\ pending'.phase = Comps[u.b][u.i] /\ pending'.phase # "saving"
    <3> DEFINE S == Comps[u.b]
               was(c) == Was(u.b, pending.prevUI, c)
    <3>1. u'.for = "" /\ u'.pc = "install" /\ u'.i = u.i /\ u'.b = u.b
      BY <2>5, Zenon
    <3>2. /\ pending'.id = u.b /\ pending'.prevUI = pending.prevUI
          /\ pending'.phase = S[u.i] /\ pending'.phase # "saving"
      BY <2>2, <2>5, Zenon
    <3>3. Begun' = torn /\ Begun = torn
      BY <2>2, <2>3, <3>1, Zenon DEF Begun
    <3>4. Steady /\ torn' \subseteq Begun
      BY <2>3, <3>3 DEF Steady
    <3>5. Layers'
      BY <3>4, LayersKept, Zenon DEF Sound
    <3>6. \A c : Installed(c)' = Installed(c) /\ Was(pending.id, pending.prevUI, c)' = was(c)
      BY <2>3, <3>2 DEF Installed, Was
    <3>7. \A i, c, v : Fit(i, c, v)' = Fit(i, c, v)
      BY <2>3, <3>3 DEF Fit
    <3>8. Here' = Here
      BY <2>3 DEF Here
    <3>9. Besides'
      BY <2>2, <2>3, <3>2, <3>6, <3>7, <3>8, Zenon DEF Sound, Replacing, Besides
    <3>10. ASSUME NEW j \in 1 .. Len(S)
           PROVE  /\ Fit(Here, S[j], was(S[j])) /\ (S[j] # "ui" => was(S[j]) # "")
                  /\ Installed(S[j]) = was(S[j]) \/ (j < u.i /\ Installed(S[j]) = u.b)
      <4>1. S[j] \in Component /\ S[j] \in Range(S)
        BY <2>2, CompAt, Zenon
      <4>2. CASE u.i = 1
        <5>1. pending.phase = "saving"
          BY <2>1, <4>2, Zenon DEF TInv, Position
        <5>2. NotYet
          BY <2>2, <5>1, Zenon DEF Sound, Replacing
        <5>3. Installed(S[j]) = was(S[j])
          <6>1. \A c \in Binary : c \in Range(S) => saved[u.b][c] = bin[c]
            BY <2>1, <4>2, Zenon DEF Sound, Stages
          <6>2. QED
            BY <4>1, <5>2, <6>1, Zenon DEF NotYet, Installed, Was, Component, Binary
        <5>4. S[j] # "ui" => Installed(S[j]) \in Build
          <6>1. bin \in [Binary -> Build]
            BY Zenon DEF TInv, TypeOK
          <6>2. QED
            BY <4>1, <6>1 DEF Installed, Component
        <5>5. S[j] # "ui" => was(S[j]) # ""
          BY <5>3, <5>4, Constants, Zenon
        <5>6. QED
          BY <4>1, <5>2, <5>3, <5>5, Zenon DEF NotYet
      <4>3. CASE u.i # 1
        <5>1. pending.phase = S[u.i - 1]
          BY <2>1, <4>3, Zenon DEF TInv, Position
        <5>2. u.i - 1 \in 1 .. Len(S)
          BY <2>1, <2>n, <4>3
        <5>3. pending.phase # "saving"
          BY <2>2, <5>1, <5>2, CompAt, Zenon DEF Component, Binary
        <5>4. Halfway(S[j])
          BY <2>2, <4>1, <5>3, Zenon DEF Sound, Replacing
        <5>5. Reached(S[j]) <=> j <= u.i - 1
          <6>1. Reached(S[j]) <=> Came(u.b, S[u.i - 1], S[j])
            BY <2>2, <5>1, Zenon DEF Reached, Came
          <6>2. QED
            BY <2>2, <5>2, <6>1, <2>CameTo, Zenon
        <5>6. j <= u.i - 1 => j < u.i
          BY <2>1, <2>n
        <5>7. QED
          BY <2>2, <5>4, <5>5, <5>6, Zenon DEF Halfway
      <4>4. QED
        BY <4>2, <4>3, Zenon
    <3>11. ASSUME NEW c \in Component, c \in Range(S) PROVE Halfway(c)'
      <4>1. PICK j \in 1 .. Len(S) : S[j] = c
        BY <2>2, <3>11, Constants, Zenon DEF Range
      <4>2. j < u.i => Reached(c)'
        <5>1. Reached(c)' <=> Came(u.b, S[u.i], S[j])
          BY <3>2, <4>1, Zenon DEF Reached, Came
        <5>2. j < u.i => j <= u.i
          BY <2>1, <2>n
        <5>3. QED
          BY <2>1, <2>2, <5>1, <5>2, <2>CameTo, Zenon
      <4>3. /\ Fit(Here, c, was(c)) /\ (c # "ui" => was(c) # "")
            /\ Installed(c) = was(c) \/ (Reached(c)' /\ Installed(c) = u.b)
        BY <3>10, <4>1, <4>2, Zenon
      <4>4. QED
        BY <3>1, <3>2, <3>6, <3>7, <3>8, <4>3, Zenon DEF Halfway
    <3>12. pending' # NoPending
      <4>1. NoPending.id \notin Bundle
        BY Constants, Zenon DEF NoPending
      <4>2. QED
        BY <2>2, <3>2, <4>1, Zenon
    <3>13. Unchanged' /\ Replacing'
      BY <3>2, <3>9, <3>11, <3>12, Zenon DEF Unchanged, Replacing
    <3>14. Stages'
      <4>1. \A j \in 1 .. u.i - 1 : Installed(S[j]) = u.b
        BY <2>1, Zenon DEF Sound, Stages
      <4>2. ASSUME NEW j \in u.i .. Len(S) PROVE Installed(S[j]) = was(S[j])
        <5>1. j \in 1 .. Len(S) /\ ~(j < u.i)
          BY <2>1, <2>n
        <5>2. QED
          BY <3>10, <5>1, Zenon
      <4>3. QED
        BY <2>3, <3>1, <3>2, <3>6, <4>1, <4>2, Zenon DEF Stages, Was
    <3>15. Running'
      BY <2>1, <2>2, <2>3, IdleRunning, Zenon DEF Running
    <3>16. QED
      BY <3>5, <3>13, <3>14, <3>15 DEF Sound
  <2>6. QED
    BY <2>4, <2>5, <1>PhaseTypes, Zenon
<1>ReachedNow.
  ASSUME TInv, u.pc \in {"install", "start"}
  PROVE  Reached(Comps[u.b][u.i])
  <2> USE <1>ReachedNow
  <2>1. u.i \in 1 .. Len(Comps[u.b])
    BY Zenon DEF TInv, Position
  <2>2. u.i <= u.i
    <3>1. u.i \in Nat
      BY AtWork, Zenon DEF Applying
    <3>2. QED
      BY <3>1
  <2>3. QED
    BY <2>1, <2>2, AtPhase
(* The component l in progress is replaced; nothing else is. *)
<1>ReplacedSound.
  ASSUME TInv, Sound, u.pc \in {"install", "start"}, NEW l, l = Comps[u.b][u.i],
         UNCHANGED <<saved, pending, history, pkg, torn>>, u'.for = "",
         Installed(l)' = u.b,
         \A c \in Component : c # l => Installed(c)' = Installed(c),
         Stages', Running'
  PROVE  Sound'
  <2> USE <1>ReplacedSound
  <2>1. /\ u.b \in Bundle /\ pending.id = u.b /\ pending # NoPending /\ u.for = ""
    BY AtWork, Zenon DEF Applying
  <2>2. u.i \in 1 .. Len(Comps[u.b]) /\ pending.phase = l
    BY Zenon DEF TInv, Position
  <2>3. l \in Component /\ l \in Range(Comps[u.b])
    BY <2>1, <2>2, CompAt, Zenon
  <2>4. pending.phase # "saving"
    BY <2>2, <2>3, Zenon DEF Component, Binary
  <2>5. Reached(l)
    BY <1>ReachedNow, Zenon
  <2>6. Begun' = torn /\ Begun = torn
    BY <2>1, Zenon DEF Begun
  <2>7. Steady /\ torn' \subseteq Begun
    BY <2>6, Zenon DEF Steady
  <2>8. Layers'
    BY <2>7, LayersKept, Zenon DEF Sound
  <2>9. \A i, c, v : Fit(i, c, v)' = Fit(i, c, v)
    BY <2>6, Zenon DEF Fit
  <2>10. Here' = Here /\ \A c : Reached(c)' = Reached(c)
    BY Zenon DEF Here, Reached
  <2>11. \A c : Was(pending.id, pending.prevUI, c)' = Was(pending.id, pending.prevUI, c)
    BY Zenon DEF Was
  <2>12. Besides'
    <3>1. Besides
      BY <2>1, Zenon DEF Sound, Replacing
    <3>2. \A c \in Component : c \notin Range(Comps[pending.id]) => Installed(c)' = Installed(c)
      BY <2>1, <2>3, Zenon
    <3>3. QED
      BY <2>9, <2>10, <3>1, <3>2, Zenon DEF Besides
  <2>13. ASSUME NEW c \in Component, c \in Range(Comps[pending.id]) PROVE Halfway(c)'
    <3>1. Halfway(c)
      BY <2>1, <2>4, <2>13, Zenon DEF Sound, Replacing
    <3>2. \/ Installed(c)' = Was(pending.id, pending.prevUI, c)
          \/ Reached(c) /\ Installed(c)' = pending.id
      BY <2>1, <2>5, <3>1, Zenon DEF Halfway
    <3>3. QED
      BY <2>9, <2>10, <2>11, <3>1, <3>2, Zenon DEF Halfway
  <2>14. Unchanged' /\ Replacing'
    BY <2>1, <2>4, <2>12, <2>13, Zenon DEF Unchanged, Replacing
  <2>15. QED
    BY <2>8, <2>14, Zenon DEF Sound
<1>InstallSound.
  ASSUME TInv, Sound, applyInstall
  PROVE  Sound'
  <2> USE <1>InstallSound
  <2>a. PICK l : l = Comps[u.b][u.i]
    OBVIOUS
  <2>1. u.pc = "install" /\ u.i \in 1 .. Len(Comps[u.b]) /\ u'.b = u.b /\ ~u'.err
    BY <1>InstallTypes, Zenon
  <2>2. /\ u.b \in Bundle /\ pending.id = u.b /\ pending # NoPending
        /\ u.for = "" /\ ~u.err
    BY <2>1, AtWork, Zenon DEF Applying
  <2>3. Len(Comps[u.b]) \in Nat /\ u.i \in Nat
    BY <2>1, AtWork, Zenon DEF Applying
  <2>4. UNCHANGED <<run, saved, pending, history, pkg, torn>>
    BY DEF applyInstall, state, notes
  <2>5. \A c \in Binary : run[c] = bin[c]
    BY <2>1, <2>2, IdleRunning, Zenon
  <2>6. /\ \A j \in 1 .. u.i - 1 : Installed(Comps[u.b][j]) = u.b
        /\ \A j \in u.i .. Len(Comps[u.b]) :
             Installed(Comps[u.b][j]) = Was(u.b, pending.prevUI, Comps[u.b][j])
    BY <2>1, Zenon DEF Sound, Stages
  <2>7. \A j \in 1 .. Len(Comps[u.b]) : Comps[u.b][j] \in Component
    BY <2>2, CompAt, Zenon
  <2>8. l \in Component
    BY <2>a, <2>1, <2>7, Zenon
  <2>9. \A j \in 1 .. u.i : j \in 1 .. Len(Comps[u.b]) /\ (j \in 1 .. u.i - 1 \/ j = u.i)
    BY <2>1, <2>3
  <2>10. CASE /\ l = "ui" /\ ui' = u.b /\ bin' = bin
              /\ u'.pc = "phase" /\ u'.i = u.i + 1 /\ u'.for = ""
    <3>1. u'.pc = "phase" /\ u'.i = u.i + 1 /\ l = "ui" /\ ui' = u.b /\ bin' = bin
      BY <2>10, Zenon
    <3>2. Installed(l)' = u.b /\ \A c \in Component : c # l => Installed(c)' = Installed(c)
      BY <3>1 DEF Installed
    <3>3. ASSUME NEW j \in 1 .. u.i
          PROVE  Installed(Comps[u.b][j])' = u.b
      <4>1. PICK c : c = Comps[u.b][j]
        OBVIOUS
      <4>2. c \in Component /\ (c # l => Installed(c) = u.b)
        BY <2>a, <2>6, <2>7, <2>9, <4>1, Zenon
      <4>3. Installed(c)' = u.b
        BY <3>2, <4>2, Zenon
      <4>4. QED
        BY <2>1, <4>1, <4>3, Zenon DEF Installed
    <3>4. u'.i # 1 /\ u'.i - 1 = u.i
      BY <2>1, <2>3, <3>1
    <3>5. Stages'
      BY <2>1, <3>1, <3>3, <3>4, Zenon DEF Stages
    <3>6. Running'
      BY <2>4, <2>5, <3>1 DEF Running
    <3>7. u'.for = ""
      BY <2>10, Zenon
    <3>8. QED
      BY <2>a, <2>1, <2>4, <3>2, <3>5, <3>6, <3>7, <1>ReplacedSound, Zenon
  <2>11. CASE /\ l \in Binary /\ bin' = [bin EXCEPT ![l] = u.b] /\ ui' = ui
              /\ u'.pc = "start" /\ u'.i = u.i /\ u'.for = ""
    <3>1. /\ u'.pc = "start" /\ u'.i = u.i /\ l \in Binary /\ ui' = ui
          /\ bin' = [bin EXCEPT ![l] = u.b] /\ l # "ui"
      BY <2>11, Zenon DEF Binary
    <3>2. bin \in [Binary -> Build]
      BY Zenon DEF TInv, TypeOK
    <3>3. bin'[l] = u.b /\ \A c \in Binary : c # l => bin'[c] = bin[c]
      BY <3>1, <3>2, Zenon
    <3>4. Installed(l)' = u.b /\ \A c \in Component : c # l => Installed(c)' = Installed(c)
      BY <3>1, <3>3 DEF Installed, Component
    <3>5. \A j \in 1 .. u.i - 1 : Installed(Comps[u.b][j])' = u.b
      <4>1. \A j \in 1 .. u.i - 1 : j \in 1 .. u.i
        BY <2>3
      <4>2. ASSUME NEW j \in 1 .. u.i - 1
            PROVE  Installed(Comps[u.b][j])' = u.b
        <5>1. PICK c : c = Comps[u.b][j]
          OBVIOUS
        <5>2. c \in Component /\ Installed(c) = u.b
          BY <2>6, <2>7, <2>9, <4>1, <5>1, Zenon
        <5>3. Installed(c)' = u.b
          BY <3>4, <5>2, Zenon
        <5>4. QED
          BY <2>1, <5>1, <5>3, Zenon DEF Installed
      <4>3. QED
        BY <4>2, Zenon
    <3>6. Stages'
      BY <2>a, <2>1, <3>1, <3>3, <3>5, Zenon DEF Stages
    <3>7. Running'
      BY <2>a, <2>1, <2>4, <2>5, <3>1, <3>3 DEF Running
    <3>8. u'.for = ""
      BY <2>11, Zenon
    <3>9. QED
      BY <2>a, <2>1, <2>4, <3>4, <3>6, <3>7, <3>8, <1>ReplacedSound, Zenon
  <2>12. CASE /\ bin' = bin /\ ui' = ui
              /\ u'.pc = "restore" /\ u'.for = "fail" /\ u'.todo = Done(u.i - 1)
    <3>1. ASSUME NEW c \in Component, c \in Range(Comps[pending.id])
          PROVE  c \in Range(u'.todo) \/ Installed(c) = Was(pending.id, pending.prevUI, c)
      <4>1. PICK j \in 1 .. Len(Comps[u.b]) : Comps[u.b][j] = c
        BY <2>2, <3>1, Constants, Zenon DEF Range
      <4>2. j \in 1 .. u.i - 1 \/ j \in u.i .. Len(Comps[u.b])
        BY <2>3
      <4>3. u.i - 1 \in 0 .. Len(Comps[u.b])
        BY <2>1, <2>3, SMTT(30)
      <4>4. \A k \in 1 .. u.i - 1 : Comps[u.b][k] \in Range(Done(u.i - 1))
        BY <2>2, <4>3, <1>DoneIs, Zenon
      <4>5. QED
        BY <2>2, <2>6, <2>12, <4>1, <4>2, <4>4, Zenon
    <3>2. \A c \in Binary : run'[c] = bin[c] \/ Behind(c)
      BY <2>4, <2>5
    <3>3. QED
      BY <2>1, <2>2, <2>4, <2>12, <3>1, <3>2, EnterSound, Zenon
  <2>13. QED
    BY <2>a, <2>10, <2>11, <2>12, <1>InstallTypes, Zenon
<1>StartSound.
  ASSUME TInv, Sound, applyRestart
  PROVE  Sound'
  <2> USE <1>StartSound
  <2>a. PICK l : l = Comps[u.b][u.i]
    OBVIOUS
  <2>1. /\ u.pc = "start" /\ u.i \in 1 .. Len(Comps[u.b]) /\ l \in Binary
        /\ u'.b = u.b /\ ~u'.err
    BY <2>a, <1>StartTypes, Zenon
  <2>2. /\ u.b \in Bundle /\ pending.id = u.b /\ pending # NoPending
        /\ u.for = "" /\ ~u.err
    BY <2>1, AtWork, Zenon DEF Applying
  <2>3. Len(Comps[u.b]) \in Nat /\ u.i \in Nat
    BY <2>1, AtWork, Zenon DEF Applying
  <2>4. UNCHANGED <<bin, ui, saved, pending, history, pkg, torn>>
    BY DEF applyRestart, state, notes
  <2>5. \A c \in Binary : c # l => run[c] = bin[c]
    BY <2>a, <2>1, <2>2, Zenon DEF Sound, Running
  <2>6. bin[l] = u.b /\ \A j \in 1 .. u.i - 1 : Installed(Comps[u.b][j]) = u.b
    BY <2>a, <2>1, Zenon DEF Sound, Stages
  <2>7. Installed(l) = u.b /\ \A c : Installed(c)' = Installed(c)
    BY <2>1, <2>4, <2>6, Zenon DEF Installed, Binary
  <2>8. \A j \in 1 .. Len(Comps[u.b]) : Reached(Comps[u.b][j]) <=> j <= u.i
    BY <2>1, AtPhase
  <2>9. CASE /\ run' = [run EXCEPT ![l] = bin[l]]
             /\ u'.pc = "phase" /\ u'.i = u.i + 1 /\ u'.for = ""
    <3>1. u'.pc = "phase" /\ u'.i = u.i + 1 /\ run' = [run EXCEPT ![l] = bin[l]]
      BY <2>9, Zenon
    <3>2. u'.i # 1 /\ u'.i - 1 = u.i
      BY <2>1, <2>3, <3>1, SMTT(20)
    <3>3. ASSUME NEW j \in 1 .. u.i PROVE Installed(Comps[u.b][j])' = u.b
      <4>1. j \in 1 .. u.i - 1 \/ j = u.i
        BY <2>3
      <4>2. QED
        BY <2>a, <2>1, <2>4, <2>6, <2>7, <4>1 DEF Installed
    <3>4. Stages'
      BY <2>1, <3>1, <3>2, <3>3, Zenon DEF Stages
    <3>5. run \in [Binary -> Build \cup {"down"}]
      BY Zenon DEF TInv, TypeOK
    <3>6. \A c \in Binary : run'[c] = bin[c]
      BY <2>1, <2>5, <3>1, <3>5, Zenon
    <3>7. Running'
      BY <2>4, <3>6 DEF Running
    <3>8. u'.for = ""
      BY <2>9, Zenon
    <3>9. QED
      BY <2>a, <2>1, <2>4, <2>7, <3>4, <3>7, <3>8, <1>ReplacedSound, Zenon
  <2>10. CASE /\ \A c \in Binary : c # l => run'[c] = run[c]
              /\ u'.pc = "restore" /\ u'.for = "fail" /\ u'.todo = Done(u.i)
    <3>1. ASSUME pending.phase # "saving", NEW c \in Component, c \in Range(Comps[pending.id])
          PROVE  c \in Range(u'.todo) \/ Installed(c) = Was(pending.id, pending.prevUI, c)
      <4>1. PICK j \in 1 .. Len(Comps[u.b]) : Comps[u.b][j] = c
        BY <2>2, <3>1, Constants, Zenon DEF Range
      <4>2. Halfway(c)
        BY <2>2, <3>1, Zenon DEF Sound, Replacing
      <4>3. CASE j \in 1 .. u.i
        <5>1. u.i \in 0 .. Len(Comps[u.b])
          BY <2>1, <2>3
        <5>2. \A k \in 1 .. u.i : Comps[u.b][k] \in Range(Done(u.i))
          BY <2>2, <5>1, <1>DoneIs, Zenon
        <5>3. QED
          BY <2>10, <4>1, <4>3, <5>2, Zenon
      <4>4. CASE j \notin 1 .. u.i
        <5>1. ~(j <= u.i)
          BY <2>3, <4>4
        <5>2. QED
          BY <2>8, <4>1, <4>2, <5>1, Zenon DEF Halfway
      <4>5. QED
        BY <4>3, <4>4
    <3>2. ASSUME NEW c \in Binary PROVE run'[c] = bin[c] \/ Behind(c)
      <4>1. Behind(l)
        BY <2>a, <2>1, <2>2, <2>6, <1>ReachedNow, Zenon DEF Behind
      <4>2. QED
        BY <2>5, <2>10, <4>1
    <3>3. QED
      BY <2>1, <2>2, <2>4, <2>10, <3>1, <3>2, EnterSound, Zenon
  <2>11. QED
    BY <2>a, <2>9, <2>10, <1>StartTypes, Zenon
<1>ReplacingWhole.
  ASSUME TInv, Whole, Shrinks, applyPhase \/ applyInstall \/ applyRestart
  PROVE  Whole'
  <2> USE <1>ReplacingWhole
  <2>1. UNCHANGED <<history, releases, saved>>
    BY DEF applyPhase, applyInstall, applyRestart, files, state
  <2>2. ASSUME applyPhase PROVE Places
    BY <2>2, <1>PhaseTypes, RestFields, AtWork, Zenon DEF Places, Applying
  <2>3. ASSUME applyInstall \/ applyRestart PROVE Places
    BY <2>3, <1>InstallTypes, <1>StartTypes, Zenon DEF Places, Applying
  <2>4. QED
    BY <2>1, <2>2, <2>3, WholeStays, Zenon
<1>1. TInv /\ applyPhase => Keeps
  BY <1>PhaseTypes, <1>PhaseSound, <1>ReplacingWhole, Zenon DEF Keeps
<1>2. TInv /\ applyInstall => Keeps
  BY <1>InstallTypes, <1>InstallSound, <1>ReplacingWhole, Zenon DEF Keeps
<1>3. TInv /\ applyRestart => Keeps
  BY <1>StartTypes, <1>StartSound, <1>ReplacingWhole, Zenon DEF Keeps
<1>4. QED
  BY <1>1, <1>2, <1>3, Zenon

-----------------------------------------------------------------------------
(* apply saves what it is going to replace. *)

LEMMA SavingKeeps == TInv /\ (applyClear \/ applyKeep) => Keeps
<1>ClearTypes.
  ASSUME TInv, applyClear
  PROVE  /\ TInv' /\ u.b \in Bundle /\ u.pc = "clear"
         /\ \A b \in Bundle \ {u.b} : saved'[b] = saved[b]
         /\ \A c \in Binary : saved'[u.b][c] # "" => saved'[u.b][c] = saved[u.b][c]
         /\ \/ u' = u
            \/ /\ saved' = saved /\ \A c \in Binary : saved[u.b][c] = ""
               /\ \/ u' = Drop(u.b)
                  \/ /\ u'.pc = "keep" /\ u'.i = 1 /\ u'.b = u.b
                     /\ u'.for = "" /\ ~u'.err
  <2> USE <1>ClearTypes
  <2>1. u.pc = "clear" /\ u \in Local /\ u.b \in Bundle /\ u.for = "" /\ ~u.err
    BY Zenon DEF applyClear, TInv, Position, Restoring
  <2>2. saved \in [Bundle -> [Binary -> Build \cup {""}]]
    BY Zenon DEF TInv, TypeOK
  <2>3. CurrentIsNewest' /\ PendingOK' /\ pending' = pending /\ history' = history
    BY Frame, Zenon DEF applyClear, state
  <2>4. CASE /\ \E c \in Binary : saved' = [saved EXCEPT ![u.b][c] = ""]
             /\ UNCHANGED u
    <3>1. PICK c \in Binary : saved' = [saved EXCEPT ![u.b][c] = ""]
      BY <2>4, Zenon
    <3>2. saved' \in [Bundle -> [Binary -> Build \cup {""}]]
      BY <2>2, <3>1, Zenon
    <3>3. \A b \in Bundle \ {u.b} : saved'[b] = saved[b]
      BY <2>2, <3>1, Zenon
    <3>4. \A d \in Binary : saved'[u.b][d] = IF d = c THEN "" ELSE saved[u.b][d]
      BY <2>1, <2>2, <3>1, Zenon
    <3>5. TypeOK'
      BY <3>2, Zenon DEF TInv, TypeOK, applyClear, state, notes
    <3>6. Position'
      BY <2>3, <2>4, Frame, Zenon
    <3>7. QED
      BY <2>1, <2>3, <2>4, <3>3, <3>4, <3>5, <3>6, Zenon DEF TInv
  <2>5. CASE /\ \A c \in Binary : saved[u.b][c] = ""
             /\ UNCHANGED saved
             /\ \/ u' = [u EXCEPT !.pc = "keep", !.i = 1]
                \/ u' = Drop(u.b)
    <3>1. TypeOK'
      BY <2>5, Zenon DEF TInv, TypeOK, applyClear, state, notes
    <3>2. CASE u' = [u EXCEPT !.pc = "keep", !.i = 1]
      <4>1. /\ u' \in Local /\ u'.pc = "keep" /\ u'.i = 1 /\ u'.b = u.b
            /\ u'.for = "" /\ ~u'.err
        BY <2>1, <3>2, Zenon DEF Local, Applying
      <4>2. Len(Comps[u.b]) \in Nat
        BY <2>1, Constants, Zenon
      <4>3. pending.id = u.b /\ pending.phase = "saving"
        BY <2>1, Zenon DEF TInv, Position, Applying
      <4>4. Position'
        <5>1. 1 \in 1 .. Len(Comps[u.b]) + 1
          BY <4>2
        <5>2. u'.i \in 1 .. Len(Comps[u'.b]) + 1
          BY <4>1, <5>1, Zenon
        <5>3. pending'.id = u'.b /\ pending'.phase = "saving" /\ u'.b \in Bundle
          BY <2>1, <2>3, <4>1, <4>3, Zenon
        <5>4. QED
          BY <4>1, <5>2, <5>3, Zenon DEF Position, Applying, Restoring
      <4>5. QED
        BY <2>1, <2>3, <2>5, <3>1, <4>1, <4>4, Zenon DEF TInv
    <3>3. CASE u' = Drop(u.b)
      <4>1. Position'
        BY <2>1, <2>3, <3>3, QuietPosition, Zenon DEF Quiet
      <4>2. QED
        BY <2>1, <2>3, <2>5, <3>1, <3>3, <4>1, Zenon DEF TInv
    <3>4. QED
      BY <2>5, <3>2, <3>3, Zenon
  <2>6. QED
    <3>1. {c \in Binary : saved[u.b][c] # ""} = {}
            => \A c \in Binary : saved[u.b][c] = ""
      BY Zenon
    <3>2. QED
      BY <2>4, <2>5, <3>1, Zenon DEF applyClear
<1>KeepTypes.
  ASSUME TInv, applyKeep
  PROVE  /\ TInv' /\ u.pc = "keep" /\ u.i \in 1 .. Len(Comps[u.b]) + 1
         /\ \A b \in Bundle \ {u.b} : saved'[b] = saved[b]
         /\ \/ /\ u'.pc = "phase" /\ u'.i = 1 /\ u'.b = u.b /\ u'.for = "" /\ ~u'.err
               /\ u.i = Len(Comps[u.b]) + 1 /\ saved' = saved
            \/ /\ u'.pc = "keep" /\ u'.i = u.i + 1 /\ u'.b = u.b /\ u'.for = "" /\ ~u'.err
               /\ u.i \in 1 .. Len(Comps[u.b])
               /\ \A c \in Binary : saved'[u.b][c] =
                    IF c = Comps[u.b][u.i] THEN bin[c] ELSE saved[u.b][c]
            \/ /\ u'.pc = "restore" /\ u'.for = "fail" /\ u'.b = u.b /\ ~u'.err
               /\ u'.todo = <<>> /\ saved' = saved
  <2> USE <1>KeepTypes
  <2>1. /\ u.b \in Bundle /\ u \in Local /\ u.pc \in Applying /\ u.pc = "keep"
        /\ pending.id = u.b /\ Len(Comps[u.b]) \in Nat /\ u.i \in Nat
    BY AtWork, Zenon DEF applyKeep, Applying
  <2>2. /\ saved \in [Bundle -> [Binary -> Build \cup {""}]]
        /\ bin \in [Binary -> Build]
    BY Zenon DEF TInv, TypeOK
  <2>3. CurrentIsNewest' /\ PendingOK' /\ pending' = pending
    BY Frame DEF applyKeep, state
  <2>4. pending.phase = "saving" /\ u.i \in 1 .. Len(Comps[u.b]) + 1
    BY <2>1, Zenon DEF TInv, Position
  <2> DEFINE c == Comps[u.b][u.i]
  <2>5. CASE /\ u.i > Len(Comps[u.b])
             /\ u' = [u EXCEPT !.pc = "phase", !.i = 1]
             /\ UNCHANGED saved
    <3>1. TypeOK'
      BY <2>5, Zenon DEF TInv, TypeOK, applyKeep, state, notes
    <3>2. 1 \in 1 .. Len(Comps[u.b]) + 1 /\ u.i = Len(Comps[u.b]) + 1
      BY <2>1, <2>4, <2>5
    <3>3. "phase" \in Applying \ {"start"} /\ 1 \in Nat
      BY DEF Applying
    <3>4. /\ Position' /\ u'.pc = "phase" /\ u'.i = 1 /\ u'.b = u.b
          /\ u'.for = "" /\ ~u'.err
      BY <2>1, <2>3, <2>4, <2>5, <3>2, <3>3, WorkPosition, Zenon
    <3>5. QED
      BY <2>1, <2>3, <2>4, <2>5, <3>1, <3>2, <3>4, Zenon DEF TInv
  <2>6. CASE /\ u.i <= Len(Comps[u.b])
             /\ saved' = IF c = "ui" THEN saved
                         ELSE [saved EXCEPT ![u.b][c] = bin[c]]
             /\ u' = [u EXCEPT !.i = @ + 1]
    <3>1. u.i \in 1 .. Len(Comps[u.b]) /\ u.i + 1 \in 1 .. Len(Comps[u.b]) + 1 /\ u.i + 1 \in Nat
      BY <2>1, <2>4, <2>6
    <3>2. c \in Component
      BY <2>1, <3>1, CompAt
    <3>3. u' = [u EXCEPT !.pc = "keep", !.i = u.i + 1]
      BY <2>1, <2>6, Zenon DEF Local
    <3>4. "keep" \in Applying \ {"start"}
      BY DEF Applying
    <3>5. /\ Position' /\ u'.pc = "keep" /\ u'.i = u.i + 1 /\ u'.b = u.b
          /\ u'.for = "" /\ ~u'.err
      BY <2>1, <2>3, <2>4, <3>1, <3>3, <3>4, WorkPosition, Zenon
    <3> HIDE DEF c
    <3>6. c # "ui" => c \in Binary
      BY <3>2 DEF Component
    <3>7. saved' \in [Bundle -> [Binary -> Build \cup {""}]]
      BY <2>1, <2>2, <2>6, <3>6, Zenon
    <3>8. \A b \in Bundle \ {u.b} : saved'[b] = saved[b]
      BY <2>1, <2>2, <2>6, Zenon
    <3>9. \A d \in Binary : saved'[u.b][d] = IF d = c THEN bin[d] ELSE saved[u.b][d]
      <4>1. CASE c = "ui"
        BY <2>6, <4>1 DEF Binary
      <4>2. CASE c # "ui"
        BY <2>1, <2>2, <2>6, <3>6, <4>2, Zenon
      <4>3. QED
        BY <4>1, <4>2
    <3>10. TypeOK'
      BY <3>7, Zenon DEF TInv, TypeOK, applyKeep, state, notes
    <3>11. QED
      BY <2>1, <2>3, <2>4, <3>1, <3>5, <3>8, <3>9, <3>10, Zenon DEF TInv, c
  <2>7. CASE fail(<<>>) /\ UNCHANGED saved
    <3>1. TypeOK'
      BY <2>7, Zenon DEF TInv, TypeOK, applyKeep, state, notes
    <3>2. <<>> \in Seq(Component) /\ Range(<<>>) \subseteq Range(Comps[u.b])
      BY DEF Range
    <3>3. /\ Position' /\ u'.pc = "restore" /\ u'.b = u.b /\ u'.todo = <<>>
          /\ u'.for = "fail" /\ ~u'.err
      BY <2>1, <2>3, <2>7, <3>2, FailPosition, Zenon
    <3>4. QED
      BY <2>1, <2>3, <2>4, <2>7, <3>1, <3>3 DEF TInv
  <2>8. QED
    BY <2>5, <2>6, <2>7, Zenon DEF applyKeep, c
(* Until the first phase is saved only saved/<id> changes. *)
<1>SavingSound.
  ASSUME TInv, Sound, u.pc \in {"clear", "keep"},
         UNCHANGED <<bin, run, ui, pending, history, pkg, torn>>,
         u'.for = "", \A b \in Bundle \ {u.b} : saved'[b] = saved[b],
         u'.pc # "clear" => \A c \in Binary : saved'[u.b][c] \in {"", bin[c]},
         Stages'
  PROVE  Sound'
  <2> USE <1>SavingSound
  <2>1. /\ u.b \in Bundle /\ pending.id = u.b /\ pending # NoPending
        /\ u.for = "" /\ ~u.err
    BY AtWork, Zenon DEF Applying
  <2>2. pending.phase = "saving"
    BY Zenon DEF TInv, Position
  <2>3. Besides /\ NotYet
    BY <2>1, <2>2, Zenon DEF Sound, Replacing
  <2>4. Begun' = torn /\ Begun = torn
    BY <2>1, Zenon DEF Begun
  <2>5. \A i \in Applied(history) : history[i].id \in Bundle \ {u.b}
    BY <2>1, <2>3, AppliedIn, Zenon DEF Besides
  <2>6. Steady /\ torn' \subseteq Begun
    BY <2>4, <2>5, Zenon DEF Steady
  <2>7. Layers'
    BY <2>6, LayersKept, Zenon DEF Sound
  <2>8. \A c \in Component : \A v : Fit(Here, c, v) => Fit(Here, c, v)'
    <3>1. Here' = Here
      BY Zenon DEF Here
    <3>2. QED
      BY <2>6, <3>1, FitKept, Zenon DEF Fit, Fit1
  <2>9. \A c : Installed(c)' = Installed(c)
    BY Zenon DEF Installed
  <2>10. Besides'
    BY <2>3, <2>8, <2>9, Zenon DEF Besides, Component
  <2>11. NotYet'
    BY <2>1, <2>3, <2>8, <2>9, Zenon DEF NotYet
  <2>12. Unchanged' /\ Replacing'
    BY <2>1, <2>2, <2>10, <2>11, Zenon DEF Unchanged, Replacing
  <2>13. Running'
    <3>1. ASSUME NEW c PROVE ~Reached(c)
      <4>1. Range(Comps[u.b]) \subseteq Component /\ "saving" \notin Component
        BY <2>1, Constants, Zenon DEF Component, Binary
      <4>2. QED
        BY <2>1, <2>2, <4>1, Zenon DEF Reached, Range
    <3>2. \A c \in Binary : run[c] = bin[c]
      BY <2>1, <3>1, IdleRunning, Zenon DEF Behind
    <3>3. QED
      BY <3>2, Zenon DEF Running
  <2>14. QED
    BY <2>7, <2>12, <2>13, Zenon DEF Sound
<1>ClearSound.
  ASSUME TInv, Sound, applyClear
  PROVE  Sound'
  <2> USE <1>ClearSound
  <2>1. /\ u.b \in Bundle /\ u.pc = "clear"
        /\ \A b \in Bundle \ {u.b} : saved'[b] = saved[b]
    BY <1>ClearTypes, Zenon
  <2>2. UNCHANGED <<bin, run, ui, pending, history, pkg, torn>>
    BY Zenon DEF applyClear, state, notes
  <2>3. u.for = "" /\ ~u.err
    BY <2>1, AtWork, Zenon DEF Applying
  <2>4. CASE u' = u
    <3>1. Stages'
      BY <2>1, <2>4, Zenon DEF Stages
    <3>2. QED
      BY <2>1, <2>2, <2>3, <2>4, <3>1, <1>SavingSound, Zenon
  <2>5. CASE u' = Drop(u.b) /\ saved' = saved /\ \A c \in Binary : saved[u.b][c] = ""
    <3>1. u'.for = "" /\ u'.pc = "drop"
      BY <2>1, <2>5, RestFields, Zenon
    <3>2. \A c \in Binary : saved[u.b][c] \in {"", bin[c]}
      BY <2>5, Zenon
    <3>3. saved' = saved
      BY <2>5, Zenon
    <3>4. QED
      BY <2>1, <2>2, <2>3, <3>1, <3>2, <3>3, StillSound, Zenon
  <2>6. CASE /\ u'.pc = "keep" /\ u'.i = 1 /\ u'.b = u.b /\ u'.for = "" /\ ~u'.err
             /\ saved' = saved /\ \A c \in Binary : saved[u.b][c] = ""
    <3>1. u'.pc = "keep" /\ u'.i = 1
      BY <2>6, Zenon
    <3>2. Stages'
      BY <3>1 DEF Stages
    <3>3. \A c \in Binary : saved'[u.b][c] \in {"", bin[c]}
      BY <2>6, Zenon
    <3>4. QED
      BY <2>1, <2>2, <2>6, <3>2, <3>3, <1>SavingSound, Zenon
  <2>7. QED
    BY <2>4, <2>5, <2>6, <1>ClearTypes, Zenon
<1>KeepSound.
  ASSUME TInv, Sound, applyKeep
  PROVE  Sound'
  <2> USE <1>KeepSound
  <2>1. /\ u.pc = "keep" /\ u.i \in 1 .. Len(Comps[u.b]) + 1
        /\ \A b \in Bundle \ {u.b} : saved'[b] = saved[b]
    BY <1>KeepTypes, Zenon
  <2>2. UNCHANGED <<bin, run, ui, pending, history, pkg, torn>>
    BY DEF applyKeep, state, notes
  <2>3. /\ u.b \in Bundle /\ pending.id = u.b /\ pending # NoPending
        /\ u.for = "" /\ ~u.err /\ Len(Comps[u.b]) \in Nat
    BY <2>1, AtWork, Zenon DEF Applying
  <2>4. pending.phase = "saving"
    BY <2>1, Zenon DEF TInv, Position
  <2>5. \A c \in Binary : saved[u.b][c] \in {"", bin[c]}
    BY <2>1, <2>3, <2>4, Zenon DEF Sound, Replacing, NotYet
  <2>6. \A j \in 1 .. u.i - 1 : Comps[u.b][j] # "ui" =>
          saved[u.b][Comps[u.b][j]] = bin[Comps[u.b][j]]
    BY <2>1, Zenon DEF Sound, Stages
  <2>7. /\ DOMAIN Comps[u.b] = 1 .. Len(Comps[u.b])
        /\ \A j \in 1 .. Len(Comps[u.b]) : Comps[u.b][j] \in Component
    BY <2>3, CompAt, Constants, Zenon
  <2>8. CASE /\ u'.pc = "phase" /\ u'.i = 1 /\ u'.b = u.b /\ u'.for = "" /\ ~u'.err
             /\ u.i = Len(Comps[u.b]) + 1 /\ saved' = saved
    <3>1. ASSUME NEW c \in Binary, c \in Range(Comps[u.b]) PROVE saved[u.b][c] = bin[c]
      <4>1. PICK j \in 1 .. Len(Comps[u.b]) : Comps[u.b][j] = c
        BY <2>7, <3>1 DEF Range
      <4>2. j \in 1 .. u.i - 1
        <5>1. u.i = Len(Comps[u.b]) + 1 /\ Len(Comps[u.b]) \in Nat
          BY <2>3, <2>8, Zenon
        <5>2. QED
          BY <5>1
      <4>3. QED
        BY <2>6, <4>1, <4>2, Zenon DEF Binary
    <3>2. Stages'
      <4>1. u'.pc = "phase" /\ u'.i = 1 /\ u'.b = u.b /\ saved' = saved
        BY <2>8, Zenon
      <4>2. \A j \in 1 .. u'.i - 1 : FALSE
        BY <4>1
      <4>3. QED
        BY <2>2, <3>1, <4>1, <4>2, Zenon DEF Stages
    <3>3. QED
      BY <2>1, <2>2, <2>5, <2>8, <3>2, <1>SavingSound, Zenon
  <2>9. CASE /\ u'.pc = "keep" /\ u'.i = u.i + 1 /\ u'.b = u.b /\ u'.for = "" /\ ~u'.err
             /\ u.i \in 1 .. Len(Comps[u.b])
             /\ \A c \in Binary : saved'[u.b][c] =
                  IF c = Comps[u.b][u.i] THEN bin[c] ELSE saved[u.b][c]
    <3>1. ASSUME NEW j \in 1 .. u'.i - 1, Comps[u.b][j] # "ui"
          PROVE  saved'[u.b][Comps[u.b][j]] = bin[Comps[u.b][j]]
      <4>1. u.i \in 1 .. Len(Comps[u.b]) /\ u'.i = u.i + 1 /\ Len(Comps[u.b]) \in Nat
        BY <2>3, <2>9, Zenon
      <4>2. j \in 1 .. Len(Comps[u.b]) /\ (j \in 1 .. u.i - 1 \/ j = u.i)
        <5>1. j \in 1 .. u.i + 1 - 1
          BY <3>1, <4>1
        <5>2. QED
          BY <4>1, <5>1, UpTo, Zenon
      <4>3. Comps[u.b][j] \in Binary
        BY <2>7, <3>1, <4>2 DEF Component
      <4>4. CASE Comps[u.b][j] = Comps[u.b][u.i]
        BY <2>9, <4>3, <4>4, Zenon
      <4>5. CASE Comps[u.b][j] # Comps[u.b][u.i]
        BY <2>6, <2>9, <3>1, <4>2, <4>3, <4>5, Zenon
      <4>6. QED
        BY <4>4, <4>5
    <3>2. Stages'
      BY <2>2, <2>9, <3>1, Zenon DEF Stages
    <3>3. \A c \in Binary : saved'[u.b][c] \in {"", bin[c]}
      BY <2>5, <2>9, Zenon
    <3>4. u'.for = ""
      BY <2>9, Zenon
    <3>5. QED
      BY <2>1, <2>2, <3>2, <3>3, <3>4, <1>SavingSound, Zenon
  <2>10. CASE /\ u'.pc = "restore" /\ u'.for = "fail" /\ u'.b = u.b /\ ~u'.err
              /\ u'.todo = <<>> /\ saved' = saved
    <3>1. \A c \in Binary : run'[c] = bin[c] \/ Behind(c)
      BY <2>1, <2>2, <2>3, IdleRunning, Zenon
    <3>2. QED
      BY <2>1, <2>2, <2>3, <2>4, <2>10, <3>1, EnterSound, Zenon
  <2>11. QED
    BY <2>8, <2>9, <2>10, <1>KeepTypes, Zenon
(* clear and keep write only under the pending update, which is not        *)
(* applied.                                                                *)
<1>SavingWhole.
  ASSUME TInv, Sound, Whole, Shrinks, applyClear \/ applyKeep
  PROVE  Whole'
  <2> USE <1>SavingWhole
  <2>1. history' = history /\ releases' = releases
    BY Zenon DEF applyClear, applyKeep, state
  <2>2. u.pc \in {"clear", "keep"} /\ \A b \in Bundle \ {u.b} : saved'[b] = saved[b]
    BY <1>ClearTypes, <1>KeepTypes, Zenon
  <2>3. pending # NoPending /\ pending.id = u.b
    BY <2>2, AtWork, Zenon DEF Applying
  <2>4. \A i \in Applied(history) : history[i].id # u.b
    BY <2>3 DEF Sound, Replacing, Besides
  <2>5. \A i \in Applied(history) : saved'[history[i].id] = saved[history[i].id]
    BY <2>2, <2>4, AppliedIn, Zenon
  <2>6. Places
    <3>1. CASE applyClear
      BY <3>1, <1>ClearTypes, RestFields, Zenon DEF Places, Applying
    <3>2. CASE applyKeep
      BY <3>2, <1>KeepTypes, Zenon DEF Places, Applying
    <3>3. QED
      BY <3>1, <3>2
  <2>7. u'.pc \in Applying \cup {"prune"} => u'.b \in releases'
    BY <2>1, <2>6, Zenon DEF Whole, Places
  <2>8. QED
    BY <2>1, <2>5, <2>7, WholeKept
<1>1. TInv /\ applyClear => Keeps
  BY <1>ClearTypes, <1>ClearSound, <1>SavingWhole, Zenon DEF Keeps
<1>2. TInv /\ applyKeep => Keeps
  BY <1>KeepTypes, <1>KeepSound, <1>SavingWhole, Zenon DEF Keeps
<1>3. QED
  BY <1>1, <1>2, Zenon

-----------------------------------------------------------------------------
(* The initial host. *)

(* Without applied updates the package is what fits. *)
LEMMA FitsNone ==
  ASSUME NEW H, Applied(H) = {}, NEW T, NEW sv, NEW k, NEW i, NEW c,
         NEW v, v = IF c = "ui" THEN "" ELSE Packages[k]
  PROVE  Fits(H, T, sv, k, i, c, v)
BY Zenon DEF Fits, Below, Under

LEMMA InitSound == Init => Sound
<1> SUFFICES ASSUME Init PROVE Sound
  OBVIOUS
<1>1. /\ u.pc = "rest" /\ u.for = "" /\ pending = NoPending /\ torn = {}
      /\ run = bin /\ bin = [c \in Binary |-> Packages[pkg]] /\ ui = ""
  BY RestFields, Zenon DEF Init
<1>2. Applied(history) = {}
  <2>1. history = <<>>
    BY Zenon DEF Init
  <2>2. QED
    BY <2>1 DEF Applied
<1>3. Layers
  BY <1>1, <1>2, Zenon DEF Layers
<1>4. ASSUME NEW c \in Component PROVE Fit(Here, c, Installed(c))
  <2>1. Installed(c) = IF c = "ui" THEN "" ELSE Packages[pkg]
    BY <1>1, Zenon DEF Installed, Component
  <2>2. QED
    BY <1>2, <2>1, FitsNone, Zenon DEF Fit
<1>5. Unchanged
  BY <1>1, <1>4, Zenon DEF Unchanged
<1>6. Replacing /\ Stages /\ Running
  BY <1>1, Zenon DEF Replacing, Stages, Running
<1>7. QED
  BY <1>3, <1>5, <1>6 DEF Sound

-----------------------------------------------------------------------------
(* A package is installed. *)

(* The history of a new package: everything is rolled back. *)
AllBack(H) == [i \in DOMAIN H |-> [H[i] EXCEPT !.back = TRUE]]

LEMMA AllBackIs ==
  ASSUME NEW H \in Seq(Entry)
  PROVE  AllBack(H) \in Seq(Entry) /\ Applied(AllBack(H)) = {}
<1>1. DOMAIN H = 1 .. Len(H) /\ Len(H) \in Nat /\ \A i \in 1 .. Len(H) : H[i] \in Entry
  OBVIOUS
<1>2. \A i \in 1 .. Len(H) : /\ [H[i] EXCEPT !.back = TRUE] \in Entry
                             /\ [H[i] EXCEPT !.back = TRUE].back
  BY <1>1, Zenon DEF Entry
<1>3. AllBack(H) \in [1 .. Len(H) -> Entry]
  BY <1>1, <1>2 DEF AllBack
<1>4. \A i \in DOMAIN AllBack(H) : AllBack(H)[i].back
  BY <1>1, <1>2, Zenon DEF AllBack
<1> HIDE DEF AllBack
<1>5. AllBack(H) \in Seq(Entry)
  BY <1>1, <1>3
<1>6. QED
  BY <1>4, <1>5 DEF Applied

LEMMA PackageKeeps == TInv /\ PackageInstalled => Keeps
<1>PackageTypes.
  ASSUME TInv, PackageInstalled
  PROVE  /\ TInv' /\ u.pc = "rest" /\ u' = u /\ pkg' \in DOMAIN Packages
         /\ run' = bin' /\ bin' = [c \in Binary |-> Packages[pkg']]
         /\ saved' = saved
         /\ \/ mishap'
            \/ /\ ui' = "" /\ pending' = NoPending /\ Applied(history') = {}
               /\ torn' = {} \/ (torn' = torn /\ history' = history)
               /\ mishap' = mishap
  <2> USE <1>PackageTypes
  <2>1. /\ u.pc = "rest" /\ u' = u /\ pkg' = pkg + 1 /\ pkg < Len(Packages)
        /\ bin' = [c \in Binary |-> Packages[pkg + 1]]
        /\ run' = [c \in Binary |-> Packages[pkg + 1]]
        /\ saved' = saved
    BY Zenon DEF PackageInstalled
  <2>2. pkg' \in DOMAIN Packages /\ Packages[pkg + 1] \in Build
    <3>1. pkg \in DOMAIN Packages
      BY Zenon DEF TInv, TypeOK
    <3>2. pkg + 1 \in DOMAIN Packages
      <4>1. DOMAIN Packages = 1 .. Len(Packages) /\ Len(Packages) \in Nat
        BY Constants, Zenon
      <4>2. QED
        BY <2>1, <3>1, <4>1
    <3>3. QED
      BY <2>1, <3>2, Constants, Zenon
  <2>3. history \in Seq(Entry)
    BY Recorded
  <2>4. /\ bin' \in [Binary -> Build] /\ run' \in [Binary -> Build \cup {"down"}]
    BY <2>1, <2>2
  <2>5. u \in Local /\ u.for = "" /\ ~u.err
    BY <2>1, Zenon DEF TInv, Position, Restoring
  <2>6. CASE ui' = "" /\ current = "" /\ pending = NoPending /\ UNCHANGED <<state, notes>>
    <3>1. TypeOK'
      BY <2>2, <2>4, <2>6, Zenon DEF TInv, TypeOK, PackageInstalled, state, notes
    <3>2. CurrentIsNewest' /\ Position'
      BY <2>1, <2>6, Frame, Zenon DEF state
    <3>3. Applied(history') = {}
      <4>1. Applied(history) # {} => history[Newest(history)].id \in Bundle
        BY <2>3, NewestIs, Zenon
      <4>2. current = "" /\ "" \notin Bundle
        BY <2>6, Constants, Zenon
      <4>3. CurrentIsNewest
        BY DEF TInv
      <4>4. QED
        BY <2>6, <4>1, <4>2, <4>3, Zenon DEF CurrentIsNewest, state
    <3>4. QED
      BY <2>1, <2>2, <2>6, <3>1, <3>2, <3>3, Zenon DEF TInv, state, notes
  <2>7. CASE /\ ui' = "" /\ history' = AllBack(history)
             /\ current' = "" /\ pending' = NoPending
             /\ torn' = {} /\ UNCHANGED mishap
    <3>1. history' \in Seq(Entry) /\ Applied(history') = {}
      BY <2>3, <2>7, AllBackIs, Zenon
    <3>2. TypeOK'
      BY <2>2, <2>4, <2>7, <3>1, Zenon DEF TInv, TypeOK, PackageInstalled, Entry
    <3>3. CurrentIsNewest'
      BY <2>7, <3>1, Zenon DEF CurrentIsNewest
    <3>4. Position'
      BY <2>1, <2>5, <2>7, IdlePosition, Zenon DEF PendingOK
    <3>5. QED
      BY <2>1, <2>2, <2>7, <3>1, <3>2, <3>3, <3>4, Zenon DEF TInv
  <2>8. CASE ui' \in {ui, ""} /\ mishap' = TRUE /\ UNCHANGED <<state, torn>>
    <3>1. TypeOK'
      BY <2>2, <2>4, <2>8, Zenon DEF TInv, TypeOK, PackageInstalled, state
    <3>2. CurrentIsNewest' /\ Position'
      BY <2>1, <2>8, Frame, Zenon DEF state
    <3>3. QED
      BY <2>1, <2>2, <2>8, <3>1, <3>2, Zenon DEF TInv
  <2>9. QED
    BY <2>6, <2>7, <2>8, Zenon DEF PackageInstalled, AllBack
<1>PackageSound.
  ASSUME TInv, Sound, PackageInstalled, ~mishap'
  PROVE  Sound'
  <2> USE <1>PackageSound
  <2>1. /\ u.pc = "rest" /\ u' = u /\ run' = bin'
        /\ bin' = [c \in Binary |-> Packages[pkg']]
    BY <1>PackageTypes, Zenon
  <2>2. /\ ui' = "" /\ pending' = NoPending /\ Applied(history') = {}
        /\ torn' = {} \/ (torn' = torn /\ history' = history)
    BY <1>PackageTypes, Zenon
  <2>3. u.for = "" /\ u.for # "rollback"
    BY <2>1, Zenon DEF TInv, Position, Restoring
  <2>4. torn' = {}
    BY <2>2, LayersAre, Zenon DEF Sound
  <2>5. Layers'
    BY <2>2, <2>4, Zenon DEF Layers
  <2>6. ASSUME NEW c \in Component PROVE Fit(Here, c, Installed(c))'
    <3>1. Installed(c)' = IF c = "ui" THEN "" ELSE Packages[pkg']
      BY <2>1, <2>2, Zenon DEF Installed, Component
    <3>2. \A i : Fits(history', Begun', saved', pkg', i, c, Installed(c)')
      BY <2>2, <3>1, FitsNone, Zenon
    <3>3. QED
      BY <3>2 DEF Fit
  <2>7. Unchanged'
    BY <2>1, <2>3, <2>6, Zenon DEF Unchanged
  <2>8. Replacing' /\ Stages' /\ Running'
    BY <2>1, <2>2, Zenon DEF Replacing, Stages, Running
  <2>9. QED
    BY <2>5, <2>7, <2>8 DEF Sound
<1>PackageWhole.
  ASSUME TInv, Whole, Shrinks, ~mishap', PackageInstalled
  PROVE  Whole'
  <2> USE <1>PackageWhole
  <2>1. releases' = releases /\ saved' = saved
    BY Zenon DEF PackageInstalled, files
  <2>2. u'.pc \notin Applying \cup {"prune"} /\ Applied(history') = {}
    BY <1>PackageTypes, Zenon DEF Applying
  <2>3. QED
    BY <2>1, <2>2, WholeKept
<1> QED
  BY <1>PackageTypes, <1>PackageSound, <1>PackageWhole, Zenon DEF Keeps

-----------------------------------------------------------------------------
(* Every step. *)

LEMMA NextKeeps == TInv /\ [Next]_vars => Keeps
BY RestoreKeeps, BeginKeeps, RolledBackKeeps, RunKeeps, SavingKeeps, ReplacingKeeps,
   AppliedKeeps, PruneKeeps, PackageKeeps, CrashKeeps, StutterKeeps, Zenon DEF Next, updater

(* What went wrong is not forgotten. *)
LEMMA MishapStays == mishap /\ [Next]_vars => mishap'
<1> SUFFICES ASSUME mishap, [Next]_vars PROVE mishap'
  OBVIOUS
<1>1. CASE UNCHANGED vars
  BY <1>1 DEF vars, notes
<1>2. ASSUME NEW b \in Bundle, refuse(b) \/ wait(b) \/ apply(b) PROVE mishap'
  BY <1>2, Zenon DEF refuse, wait, apply, notes
<1>3. CASE Recover \/ restoreUI \/ restoreBinary \/ restoreRestart \/ restored
  BY <1>3, Zenon DEF Recover, restoreUI, restoreBinary, restoreRestart, restored, notes
<1>4. CASE Rollback \/ rolledBack \/ endRun \/ drop
  BY <1>4, Zenon DEF Rollback, rolledBack, endRun, drop, notes
<1>5. CASE applyClear \/ applyKeep \/ applyPhase \/ applyInstall \/ applyRestart
  BY <1>5, Zenon DEF applyClear, applyKeep, applyPhase, applyInstall, applyRestart, notes
<1>6. CASE applied \/ prune \/ PackageInstalled \/ crash
  BY <1>6, Zenon DEF applied, prune, PackageInstalled, crash, notes
<1>7. QED
  BY <1>1, <1>2, <1>3, <1>4, <1>5, <1>6 DEF Next, updater

(* No step shortens the history. *)
LEMMA Shrinking == TInv /\ [Next]_vars => Shrinks
<1> SUFFICES ASSUME TInv, [Next]_vars, NEW i \in DOMAIN history, Window(i)'
             PROVE  Window(i)
  BY DEF Shrinks
<1>1. history \in Seq(Entry) /\ Len(history) \in Nat /\ i \in Nat
      /\ keepReleases \in Nat
  <2>1. keepReleases \in Nat
    BY CompsAssumption, Zenon
  <2>2. QED
    BY <2>1, Recorded
<1>2. CASE history' = history
  BY <1>2 DEF Window
<1>3. CASE history' = Append(history, Added)
  <2>1. Len(history') = Len(history) + 1
    BY <1>1, <1>3
  <2>2. QED
    BY <1>1, <2>1 DEF Window
<1>4. CASE history' = Back(history, Newest(history))
  <2>1. Len(history') = Len(history)
    BY <1>1, <1>4 DEF Back
  <2>2. QED
    BY <2>1 DEF Window
<1>5. CASE history' = AllBack(history)
  <2>1. Len(history') = Len(history)
    BY <1>1, <1>5, AllBackIs DEF AllBack
  <2>2. QED
    BY <2>1 DEF Window
<1>6. \/ history' = history \/ history' = Append(history, Added)
      \/ history' = Back(history, Newest(history)) \/ history' = AllBack(history)
  <2>1. ASSUME UNCHANGED vars PROVE history' = history
    BY <2>1 DEF vars, state
  <2>2. ASSUME NEW b \in Bundle, refuse(b) \/ wait(b) \/ apply(b) PROVE history' = history
    BY <2>2 DEF refuse, wait, apply, state
  <2>3. ASSUME Recover \/ restoreUI \/ restoreBinary \/ restoreRestart \/ restored
        PROVE  history' = history
    BY <2>3, Zenon DEF Recover, restoreUI, restoreBinary, restoreRestart, restored, state
  <2>4. ASSUME Rollback \/ endRun \/ drop \/ prune \/ crash PROVE history' = history
    BY <2>4, Zenon DEF Rollback, endRun, drop, prune, crash, state
  <2>5. ASSUME applyClear \/ applyKeep \/ applyPhase \/ applyInstall \/ applyRestart
        PROVE  history' = history
    BY <2>5, Zenon DEF applyClear, applyKeep, applyPhase, applyInstall, applyRestart, state
  <2>6. ASSUME PackageInstalled PROVE history' \in {history, AllBack(history)}
    BY <2>6, Zenon DEF PackageInstalled, AllBack, state
  <2>7. ASSUME rolledBack PROVE history' \in {history, Back(history, Newest(history))}
    BY <2>7, Zenon DEF rolledBack, Back
  <2>8. ASSUME applied PROVE history' \in {history, Append(history, Added)}
    BY <2>8, Zenon DEF applied, Added, state
  <2>9. QED
    BY <2>1, <2>2, <2>3, <2>4, <2>5, <2>6, <2>7, <2>8, Zenon DEF Next, updater
<1>7. QED
  BY <1>2, <1>3, <1>4, <1>5, <1>6

LEMMA NextInductive ==
  /\ TInv /\ HInv /\ [Next]_vars => (TInv /\ HInv)'
  /\ TInv /\ HInv /\ KInv /\ [Next]_vars => KInv'
<1>1. TInv /\ HInv /\ [Next]_vars => (TInv /\ HInv)'
  BY NextKeeps, MishapStays DEF Keeps, HInv
<1>2. TInv /\ HInv /\ KInv /\ [Next]_vars => KInv'
  BY NextKeeps, MishapStays, Shrinking DEF Keeps, HInv, KInv
<1>3. QED
  BY <1>1, <1>2

-----------------------------------------------------------------------------
(* The theorems. *)

(* TypeOK holds, and current names the newest update that was not rolled   *)
(* back (PackageInstalled retires the history by it), whatever fails and   *)
(* wherever the updater dies.                                              *)
THEOREM Types == Spec => [](TypeOK /\ CurrentIsNewest)
<1>1. TInv => TypeOK /\ CurrentIsNewest
  BY DEF TInv
<1>2. TInv /\ [Next]_vars => TInv'
  BY NextKeeps, Zenon DEF Keeps
<1>3. QED
  BY <1>1, <1>2, InitTypes, PTL DEF Spec

(* The layers hold at every step, whatever fails and wherever the updater  *)
(* dies, until a mishap.                                                   *)
THEOREM Inductive == Spec => [](TInv /\ HInv)
<1>1. Init => TInv /\ HInv
  BY InitTypes, InitSound DEF HInv
<1>2. TInv /\ HInv /\ [Next]_vars => (TInv /\ HInv)'
  BY NextInductive, Zenon
<1>3. QED
  BY <1>1, <1>2, PTL DEF Spec

(* With nothing half rolled back, what fits is what state.json says. *)
LEMMA FitsExpected ==
  ASSUME NEW H \in Seq(Entry), NEW sv, NEW c, NEW v,
         Fits(H, {}, sv, pkg, Len(H) + 1, c, v)
  PROVE  v = Expected(H, c)
<1> DEFINE I == {i \in Applied(H) : c \in Range(Comps[H[i].id])}
<1>1. Below(H, Len(H) + 1, c) = I
  BY BelowDomain, SMTT(20) DEF Below, Under
<1>2. I \in SUBSET (1 .. Len(H)) /\ Len(H) \in Nat
  BY BelowDomain
<1>3. CASE I = {}
  BY <1>1, <1>3, Zenon DEF Fits, Expected
<1>4. CASE I # {}
  <2>1. Top(I, Max(I))
    BY <1>2, <1>4, MaxIsTop, Zenon
  <2>2. v = H[Max(I)].id
    BY <1>1, <2>1, Zenon DEF Fits, Top
  <2>3. QED
    BY <1>4, <2>2, Zenon DEF Expected
<1>5. QED
  BY <1>3, <1>4, Zenon
(* HostMatchesHistory: between runs, with nothing pending or half rolled   *)
(* back, every binary and the UI are those of the newest update that was   *)
(* not rolled back, or the package's, and current names that update.       *)
THEOREM HostMatches == Spec => []HostMatchesHistory
<1>1. TInv /\ HInv => HostMatchesHistory
  <2> SUFFICES ASSUME TInv, HInv, Settled, ~mishap
               PROVE  /\ \A c \in Component : Installed(c) = Expected(history, c)
                      /\ CurrentIsNewest
    BY Zenon DEF HostMatchesHistory, CurrentIsNewest
  <2>1. Begun = {} /\ pending = NoPending
    <3>1. u.pc = "rest" /\ torn = {} /\ pending = NoPending
      BY DEF Settled
    <3>2. u.for # "rollback"
      BY <3>1, Zenon DEF TInv, Position, Restoring
    <3>3. QED
      BY <3>1, <3>2 DEF Begun
  <2>2. ASSUME NEW c \in Component PROVE Installed(c) = Expected(history, c)
    <3>1. Fits(history, {}, saved, pkg, Len(history) + 1, c, Installed(c))
      BY <2>1, Zenon DEF HInv, Sound, Unchanged, Fit, Here
    <3>2. QED
      BY <3>1, Recorded, FitsExpected
  <2>3. QED
    BY <2>2 DEF TInv
<1>2. QED
  BY <1>1, Inductive, PTL

(* RunsWhatIsInstalled: then every service runs the binary installed for   *)
(* it, so whatever was put back was also restarted.                        *)
THEOREM RunsInstalled == Spec => []RunsWhatIsInstalled
<1>1. TInv /\ HInv => RunsWhatIsInstalled
  <2> SUFFICES ASSUME TInv, HInv, Settled, ~mishap PROVE run = bin
    BY DEF RunsWhatIsInstalled
  <2>1. u.pc = "rest" /\ pending = NoPending /\ Sound
    BY DEF Settled, HInv
  <2>2. ~u.err
    BY <2>1, Zenon DEF TInv, Position, Restoring
  <2>3. \A c \in Binary : run[c] = bin[c]
    BY <2>1, <2>2, IdleRunning
  <2>4. run \in [Binary -> Build \cup {"down"}] /\ bin \in [Binary -> Build]
    BY Zenon DEF TInv, TypeOK
  <2>5. QED
    BY <2>3, <2>4
<1>2. QED
  BY <1>1, Inductive, PTL

(* RollbackPossible: as far back as prune keeps, each update that was not  *)
(* rolled back has the binaries it replaced under saved/<id> and names the *)
(* UI it replaced, whatever was pruned, failed or interrupted since.       *)
THEOREM Undone == Spec => []RollbackPossible
(* What fits below an update, with nothing half rolled back, is what       *)
(* state.json said before it.                                              *)
<1>FitsBefore.
  ASSUME NEW H \in Seq(Entry), NEW i \in 1 .. Len(H), NEW sv, NEW c, NEW v,
         Fits(H, {}, sv, pkg, i, c, v)
  PROVE  v = Expected(SubSeq(H, 1, i - 1), c)
  <2> USE <1>FitsBefore
  <2> DEFINE G == SubSeq(H, 1, i - 1)
  <2>1. /\ G \in Seq(Entry) /\ Len(G) = i - 1 /\ i - 1 \in Nat
        /\ DOMAIN G = 1 .. i - 1 /\ DOMAIN H = 1 .. Len(H) /\ Len(H) \in Nat
        /\ \A j \in 1 .. i - 1 : j \in 1 .. Len(H) /\ G[j] = H[j]
    BY Before, Zenon DEF G
  <2> HIDE DEF G
  <2>2. Below(G, i, c) = Below(H, i, c)
    <3>1. Under(G, i) = Under(H, i)
      <4>1. ASSUME NEW j PROVE j \in Under(G, i) <=> j \in Under(H, i)
        BY <2>1, SMTT(20) DEF Under, Applied
      <4>2. QED
        BY <4>1, Zenon
    <3>2. \A j \in Under(H, i) : G[j] = H[j]
      BY <2>1 DEF Under, Applied
    <3>3. QED
      BY <3>1, <3>2 DEF Below
  <2>3. \A m \in Below(H, i, c) : G[m] = H[m]
    BY <2>1 DEF Below, Under, Applied
  <2>4. Fits(G, {}, sv, pkg, Len(G) + 1, c, v)
    <3>1. Len(G) + 1 = i
      BY <2>1
    <3>2. Fits(G, {}, sv, pkg, i, c, v)
      BY <2>2, <2>3, Zenon DEF Fits
    <3>3. QED
      BY <3>1, <3>2, Zenon
  <2>5. QED
    BY <2>1, <2>4, FitsExpected, Zenon DEF G
<1>1. TInv /\ HInv /\ KInv => RollbackPossible
  <2> SUFFICES ASSUME TInv, HInv, KInv, Settled, ~mishap,
                      NEW i \in Applied(history), Window(i)
               PROVE  /\ history[i].id \in releases
                      /\ \A c \in Range(Comps[history[i].id]) \cap Binary :
                           saved[history[i].id][c] = Expected(SubSeq(history, 1, i - 1), c)
                      /\ "ui" \in Range(Comps[history[i].id]) =>
                           history[i].prevUI = Expected(SubSeq(history, 1, i - 1), "ui")
    BY Zenon DEF RollbackPossible
  <2>1. Sound /\ Whole /\ history \in Seq(Entry) /\ i \in 1 .. Len(history)
    BY Recorded, AppliedIn, Zenon DEF HInv, KInv
  <2>2. Begun = {}
    <3>1. u.pc = "rest" /\ torn = {}
      BY DEF Settled
    <3>2. u.for # "rollback"
      BY <3>1, Zenon DEF TInv, Position, Restoring
    <3>3. QED
      BY <3>1, <3>2 DEF Begun
  <2>3. /\ "ui" \in Range(Comps[history[i].id]) =>
             Fits(history, {}, saved, pkg, i, "ui", history[i].prevUI)
        /\ \A c \in Binary : c \in Range(Comps[history[i].id]) =>
             \/ saved[history[i].id][c] = ""
             \/ Fits(history, {}, saved, pkg, i, c, saved[history[i].id][c])
    BY <2>1, <2>2, Zenon DEF Sound, Layers, Fit
  <2>4. /\ history[i].id \in releases
        /\ \A c \in Binary : c \in Range(Comps[history[i].id]) => saved[history[i].id][c] # ""
    BY <2>1, Zenon DEF Whole, Undoable
  <2>5. ASSUME NEW c \in Range(Comps[history[i].id]) \cap Binary
        PROVE  saved[history[i].id][c] = Expected(SubSeq(history, 1, i - 1), c)
    <3>1. Fits(history, {}, saved, pkg, i, c, saved[history[i].id][c])
      BY <2>3, <2>4, Zenon
    <3>2. QED
      BY <2>1, <3>1, <1>FitsBefore, Zenon
  <2>6. ASSUME "ui" \in Range(Comps[history[i].id])
        PROVE  history[i].prevUI = Expected(SubSeq(history, 1, i - 1), "ui")
    <3>1. Fits(history, {}, saved, pkg, i, "ui", history[i].prevUI)
      BY <2>3, <2>6, Zenon
    <3>2. QED
      BY <2>1, <3>1, <1>FitsBefore
  <2>7. QED
    BY <2>4, <2>5, <2>6, Zenon
<1>2. Init => KInv
  <2> SUFFICES ASSUME Init PROVE Whole
    BY DEF KInv
  <2>1. u.pc = "rest" /\ history = <<>>
    BY RestFields, Zenon DEF Init
  <2>2. Applied(history) = {}
    BY <2>1 DEF Applied
  <2>3. QED
    BY <2>1, <2>2 DEF Whole, Applying
<1>3. QED
  BY <1>1, <1>2, NextInductive, Inductive, PTL DEF Spec
=============================================================================
