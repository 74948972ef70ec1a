----------------------------- MODULE LiveUpdate -----------------------------
(***************************************************************************)
(* The live updater (internal/liveupdate/updater.go): it applies bundles   *)
(* that replace the agent, the control plane and the web UI, undoes an     *)
(* apply that failed or was interrupted, and rolls back.  One ndl-live     *)
(* process runs at a time; it may die between any two effects on disk.     *)
(***************************************************************************)
EXTENDS Naturals, Sequences, FiniteSets, Functions, FiniteSetsExt

CONSTANTS
  Bundle,        \* ids of the bundles that are queued
  Comps,         \* Manifest.Components: what each bundle replaces, in order
  keepReleases,  \* how many applied updates prune keeps
  Faults,        \* which calls may fail: "save", "io", "service"
  Packages,      \* package releases, in the order they are installed
  MaxCrashes     \* bound on crashes

Binary == {"agent", "control"}
Component == Binary \cup {"ui"}

ASSUME CompsAssumption ==
  /\ Comps \in [Bundle -> Seq(Component)]
  /\ \A b \in Bundle : IsInjective(Comps[b])
  /\ Len(Packages) \in Nat \ {0} /\ DOMAIN Packages = 1 .. Len(Packages)
  /\ {"", "down"} \cap (Bundle \cup Range(Packages)) = {}
  /\ Bundle \cap Range(Packages) = {}
  /\ keepReleases \in Nat

VARIABLES
  bin,       \* build of each installed binary
  run,       \* build each service runs, or "down"
  ui,        \* target of the ui link, "" when absent
  releases,  \* releases/<id>
  saved,     \* saved/<id>/<binary>: the build kept there, or ""
  current, pending, history,  \* state.json
  inbox,     \* queued bundles
  u,         \* the running updater: its position and local variables
  pkg,       \* the installed package, an index of Packages
  crashes,
  mishap,    \* history: something went wrong that the updater does not undo
  torn       \* history: updates whose rollback began and was not recorded

files == <<bin, run, ui, releases, saved>>
state == <<current, pending, history>>
notes == <<mishap, torn>>
vars == <<files, state, inbox, u, pkg, crashes, notes>>

Build == Bundle \cup Range(Packages)
NoPending == [id |-> "", phase |-> "", prevUI |-> ""]

(* Local variables of Run and what it calls: the bundle, the position in   *)
(* its components, what restore has left to do and for whom, whether it    *)
(* met an error, and the history in memory.                                *)
Rest == [pc |-> "rest", b |-> "", i |-> 0, todo |-> <<>>, for |-> "",
         prevUI |-> "", err |-> FALSE, hist |-> <<>>]
Pass == [Rest EXCEPT !.pc = "pass"]
Drop(b) == [Rest EXCEPT !.pc = "drop", !.b = b]

Init ==
  /\ bin = [c \in Binary |-> Packages[1]]
  /\ run = bin
  /\ ui = ""
  /\ releases = {}
  /\ saved = [b \in Bundle |-> [c \in Binary |-> ""]]
  /\ current = "" /\ pending = NoPending /\ history = <<>>
  /\ inbox = Bundle
  /\ u = Rest
  /\ pkg = 1
  /\ crashes = 0
  /\ mishap = FALSE
  /\ torn = {}

-----------------------------------------------------------------------------
(* restore: the saved binaries and the previous UI come back, last first.  *)

restore(id, comps, prevUI, for) ==
  u' = [Rest EXCEPT !.pc = "restore", !.b = id, !.todo = comps,
                    !.prevUI = prevUI, !.for = for]

Last == u.todo[Len(u.todo)]
Next1 == [u EXCEPT !.todo = SubSeq(@, 1, Len(@) - 1)]

restoreUI ==
  /\ u.pc = "restore" /\ u.todo # <<>> /\ Last = "ui"
  /\ \/ ui' = u.prevUI /\ u' = Next1
     \/ "io" \in Faults /\ u' = [Next1 EXCEPT !.err = TRUE] /\ UNCHANGED ui
  /\ UNCHANGED <<bin, run, releases, saved, state, inbox, pkg, crashes, notes>>

(* Without a saved binary there is nothing to restore: Recover leaves it   *)
(* out (no file comes or goes meanwhile), for the others it is an error.   *)
(* One that equals the installed one was never replaced.                   *)
restoreBinary ==
  /\ u.pc = "restore" /\ u.todo # <<>> /\ Last # "ui"
  /\ LET c == Last
         s == saved[u.b][c]
     IN  \/ /\ s = ""
            /\ u' = [Next1 EXCEPT !.err = u.err \/ u.for # "recover"]
            /\ UNCHANGED bin
         \/ /\ s # "" /\ s = bin[c]
            /\ u' = Next1
            /\ UNCHANGED bin
         \/ /\ s # "" /\ s # bin[c]
            /\ bin' = [bin EXCEPT ![c] = s]
            /\ u' = [u EXCEPT !.pc = "restart"]
         \/ /\ s # "" /\ s # bin[c] /\ "io" \in Faults
            /\ u' = [Next1 EXCEPT !.err = TRUE]
            /\ UNCHANGED bin
  /\ UNCHANGED <<run, ui, releases, saved, state, inbox, pkg, crashes, notes>>

(* Mutant: the binary is put back and its service not restarted. *)
restoreWithoutRestart ==
  /\ u.pc = "restart"
  /\ u' = [Next1 EXCEPT !.pc = "restore"]
  /\ UNCHANGED <<files, state, inbox, pkg, crashes, notes>>

(* Restart and Healthy: the service comes up with the installed binary, is *)
(* up and unhealthy, or is down.                                           *)
restoreRestart ==
  /\ u.pc = "restart"
  /\ LET c == Last
     IN  \/ /\ run' = [run EXCEPT ![c] = bin[c]]
            /\ u' = [Next1 EXCEPT !.pc = "restore"]
         \/ /\ "service" \in Faults
            /\ \E r \in {bin[c], "down"} : run' = [run EXCEPT ![c] = r]
            /\ u' = [Next1 EXCEPT !.pc = "restore", !.err = TRUE]
  /\ UNCHANGED <<bin, ui, releases, saved, state, inbox, pkg, crashes, notes>>

-----------------------------------------------------------------------------
(* Run: recover, then roll back if asked, then apply what is queued.       *)

(* Mutant: the component in progress is left alone. *)
TouchedBefore(p) ==
  LET S == Comps[p.id]
      n == IF \E i \in DOMAIN S : S[i] = p.phase
           THEN CHOOSE i \in DOMAIN S : S[i] = p.phase ELSE Len(S) + 1
  IN  SubSeq(S, 1, n - 1)

(* What an interrupted apply may have replaced: the components up to the   *)
(* one in progress; restore leaves out the binaries that were not saved.   *)
Touched(p) ==
  LET S == Comps[p.id]
      n == IF \E i \in DOMAIN S : S[i] = p.phase
           THEN CHOOSE i \in DOMAIN S : S[i] = p.phase ELSE Len(S)
  IN  SubSeq(S, 1, n)

Recover ==
  /\ u.pc = "rest"
  /\ IF pending = NoPending THEN u' = Pass
     ELSE restore(pending.id, Touched(pending), pending.prevUI, "recover")
  /\ UNCHANGED <<files, state, inbox, pkg, crashes, notes>>

(* Mutant: the update stays pending. *)
restoredNotSaved ==
  /\ u.pc = "restore" /\ u.todo = <<>> /\ u.for \in {"recover", "fail"}
  /\ u' = IF u.for = "fail" THEN Drop(u.b) ELSE Pass
  /\ UNCHANGED <<files, state, inbox, pkg, crashes, notes>>

(* record after restore: the pending update is over; a failed save is only *)
(* logged.  After fail, Run drops the bundle from the inbox.               *)
restored ==
  /\ u.pc = "restore" /\ u.todo = <<>> /\ u.for \in {"recover", "fail"}
  /\ \/ pending' = NoPending
     \/ "save" \in Faults /\ UNCHANGED pending
  /\ u' = IF u.for = "fail" THEN Drop(u.b) ELSE Pass
  /\ mishap' = (mishap \/ u.err)
  /\ UNCHANGED <<files, current, history, inbox, pkg, crashes, torn>>

(* The applied updates of H that were not rolled back. *)
Applied(H) == {i \in DOMAIN H : ~H[i].back}

Newest(H) == Max(Applied(H))

(* Rollback, asked for through the inbox or on the command line: after     *)
(* Recover and between bundles, where no update is pending.                *)
Rollback ==
  /\ u.pc = "pass"
  /\ pending = NoPending
  /\ Applied(history) # {}
  /\ LET e == history[Newest(history)]
     IN  restore(e.id, Comps[e.id], e.prevUI, "rollback")
  /\ UNCHANGED <<files, state, inbox, pkg, crashes, notes>>

rolledBack ==
  /\ u.pc = "restore" /\ u.todo = <<>> /\ u.for = "rollback"
  /\ LET n == Newest(history)
         H == [history EXCEPT ![n].back = TRUE]
     IN  \/ /\ history' = H
            /\ current' = IF Applied(H) = {} THEN "" ELSE H[Newest(H)].id
            /\ torn' = torn \ {u.b}
         \/ /\ "save" \in Faults
            /\ torn' = torn \cup {u.b}
            /\ UNCHANGED <<history, current>>
  /\ u' = Pass
  /\ mishap' = (mishap \/ u.err)
  /\ UNCHANGED <<files, pending, inbox, pkg, crashes>>

(* Run ends. *)
endRun ==
  /\ u.pc = "pass"
  /\ u' = Rest
  /\ UNCHANGED <<files, state, inbox, pkg, crashes, notes>>

-----------------------------------------------------------------------------
(* Install: a bundle is unpacked and refused, put off, or applied.         *)

(* The bundle is applied already. *)
Again(b) == \E i \in Applied(history) : history[i].id = b

(* unpack fails; or compatible does, on another package version or on      *)
(* migrations that do not fit or cannot be read, and the release is        *)
(* removed.                                                                *)
refuse(b) ==
  /\ u.pc = "pass" /\ b \in inbox
  /\ \/ /\ "io" \in Faults
        /\ UNCHANGED <<releases, mishap>>
     \/ /\ pkg > 1 \/ "control" \in Range(Comps[b])
        /\ releases' = releases \ {b}
        /\ mishap' = (mishap \/ Again(b))
  /\ inbox' = inbox \ {b}
  /\ UNCHANGED <<bin, run, ui, saved, state, u, pkg, crashes, torn>>

(* Operations are running: the bundle stays unpacked and queued. *)
wait(b) ==
  /\ u.pc = "pass" /\ b \in inbox
  /\ releases' = releases \cup {b}
  /\ u' = Rest
  /\ UNCHANGED <<bin, run, ui, saved, state, inbox, pkg, crashes, notes>>

(* Mutant: no phase is saved. *)
applyUnphased(b) ==
  /\ u.pc = "pass" /\ b \in inbox
  /\ releases' = releases \cup {b}
  /\ pending' = [id |-> b, phase |-> "", prevUI |-> ui]
  /\ u' = [Rest EXCEPT !.pc = "clear", !.b = b]
  /\ UNCHANGED <<bin, run, ui, saved, current, history, inbox, pkg, crashes,
                 notes>>

(* apply saves what it is about to do first.  It does not look whether     *)
(* another update is still pending.                                        *)
apply(b) ==
  /\ u.pc = "pass" /\ b \in inbox
  /\ releases' = releases \cup {b}
  /\ \/ /\ pending' = [id |-> b, phase |-> "saving", prevUI |-> ui]
        /\ u' = [Rest EXCEPT !.pc = "clear", !.b = b]
        /\ mishap' = (mishap \/ Again(b) \/ pending # NoPending)
     \/ /\ "save" \in Faults
        /\ u' = Drop(b)
        /\ UNCHANGED <<pending, mishap>>
  /\ UNCHANGED <<bin, run, ui, saved, current, history, inbox, pkg, crashes,
                 torn>>

(* fail with the components done so far. *)
fail(done) == restore(u.b, done, pending.prevUI, "fail")

(* RemoveAll(saved/<id>), file by file, and MkdirAll. *)
applyClear ==
  /\ u.pc = "clear"
  /\ LET left == {c \in Binary : saved[u.b][c] # ""}
     IN  \/ /\ \E c \in left : saved' = [saved EXCEPT ![u.b][c] = ""]
            /\ UNCHANGED u
         \/ /\ left = {}
            /\ u' = [u EXCEPT !.pc = "keep", !.i = 1]
            /\ UNCHANGED saved
         \/ /\ left = {} /\ "io" \in Faults
            /\ u' = Drop(u.b)
            /\ UNCHANGED saved
  /\ UNCHANGED <<bin, run, ui, releases, state, inbox, pkg, crashes, notes>>

(* CheckBinary, and a copy of each installed binary that will be replaced. *)
applyKeep ==
  /\ u.pc = "keep"
  /\ LET c == Comps[u.b][u.i]
     IN  \/ /\ u.i > Len(Comps[u.b])
            /\ u' = [u EXCEPT !.pc = "phase", !.i = 1]
            /\ UNCHANGED saved
         \/ /\ u.i <= Len(Comps[u.b])
            /\ saved' = IF c = "ui" THEN saved
                        ELSE [saved EXCEPT ![u.b][c] = bin[c]]
            /\ u' = [u EXCEPT !.i = @ + 1]
         \/ /\ u.i <= Len(Comps[u.b]) /\ c # "ui" /\ "io" \in Faults
            /\ fail(<<>>)
            /\ UNCHANGED saved
  /\ UNCHANGED <<bin, run, ui, releases, state, inbox, pkg, crashes, notes>>

(* The phase is saved before each component; if that fails apply returns   *)
(* as it is.  After the last component the update is applied.              *)
applyPhase ==
  /\ u.pc = "phase"
  /\ u.i <= Len(Comps[u.b])
  /\ \/ /\ pending' = [pending EXCEPT !.phase = Comps[u.b][u.i]]
        /\ u' = [u EXCEPT !.pc = "install"]
     \/ /\ "save" \in Faults
        /\ u' = Drop(u.b)
        /\ UNCHANGED pending
  /\ UNCHANGED <<files, current, history, inbox, pkg, crashes, notes>>

Done(i) == SubSeq(Comps[u.b], 1, i)

applyInstall ==
  /\ u.pc = "install"
  /\ LET c == Comps[u.b][u.i]
     IN  \/ /\ c = "ui"
            /\ ui' = u.b
            /\ u' = [u EXCEPT !.pc = "phase", !.i = @ + 1]
            /\ UNCHANGED bin
         \/ /\ c # "ui"
            /\ bin' = [bin EXCEPT ![c] = u.b]
            /\ u' = [u EXCEPT !.pc = "start"]
            /\ UNCHANGED ui
         \/ /\ "io" \in Faults
            /\ fail(Done(u.i - 1))
            /\ UNCHANGED <<bin, ui>>
  /\ UNCHANGED <<run, releases, saved, state, inbox, pkg, crashes, notes>>

applyRestart ==
  /\ u.pc = "start"
  /\ LET c == Comps[u.b][u.i]
     IN  \/ /\ run' = [run EXCEPT ![c] = bin[c]]
            /\ u' = [u EXCEPT !.pc = "phase", !.i = @ + 1]
         \/ /\ "service" \in Faults
            /\ \E r \in {bin[c], "down"} : run' = [run EXCEPT ![c] = r]
            /\ fail(Done(u.i))
  /\ UNCHANGED <<bin, ui, releases, saved, state, inbox, pkg, crashes, notes>>

(* The update is recorded; a failed save is only logged. *)
applied ==
  /\ u.pc = "phase"
  /\ u.i > Len(Comps[u.b])
  /\ LET H == Append(history, [id |-> u.b, prevUI |-> pending.prevUI,
                               back |-> FALSE])
     IN  /\ \/ /\ pending' = NoPending /\ current' = u.b /\ history' = H
            \/ "save" \in Faults /\ UNCHANGED state
         /\ u' = [u EXCEPT !.pc = "prune", !.hist = H]
  /\ UNCHANGED <<files, inbox, pkg, crashes, notes>>

(* Mutant: one too few is kept. *)
KeptLess ==
  {u.b, ui} \cup {u.hist[i].id : i \in {j \in DOMAIN u.hist :
                                         j + keepReleases > Len(u.hist) + 1}}

Kept ==
  {u.b, ui} \cup {u.hist[i].id : i \in {j \in DOMAIN u.hist :
                                         j + keepReleases > Len(u.hist)}}

prune ==
  /\ u.pc = "prune"
  /\ releases' = releases \cap Kept
  /\ saved' = [b \in Bundle |-> IF b \in Kept THEN saved[b]
                                ELSE [c \in Binary |-> ""]]
  /\ u' = Drop(u.b)
  /\ UNCHANGED <<bin, run, ui, state, inbox, pkg, crashes, notes>>

(* Run removes the bundle from the inbox. *)
drop ==
  /\ u.pc = "drop"
  /\ inbox' = inbox \ {u.b}
  /\ u' = Pass
  /\ UNCHANGED <<files, state, pkg, crashes, notes>>

-----------------------------------------------------------------------------
(* A package release replaces the binaries and restarts the services; its  *)
(* postinst then calls PackageInstalled, whose errors it ignores.          *)
PackageInstalled ==
  /\ u.pc = "rest"
  /\ pkg < Len(Packages)
  /\ pkg' = pkg + 1
  /\ bin' = [c \in Binary |-> Packages[pkg + 1]]
  /\ run' = [c \in Binary |-> Packages[pkg + 1]]
  /\ \/ /\ ui' = ""
        /\ IF current = "" /\ pending = NoPending
           THEN UNCHANGED <<state, notes>>
           ELSE /\ history' = [i \in DOMAIN history |->
                                 [history[i] EXCEPT !.back = TRUE]]
                /\ current' = "" /\ pending' = NoPending
                /\ torn' = {}
                /\ UNCHANGED mishap
     \/ /\ Faults \cap {"io", "save"} # {}
        /\ ui' \in {ui, ""}
        /\ mishap' = TRUE
        /\ UNCHANGED <<state, torn>>
  /\ UNCHANGED <<releases, saved, inbox, u, crashes>>

(* What an earlier attempt saved, of a build that is no longer installed,  *)
(* is still there: Recover would take it for what this attempt saved.      *)
Stale == u.pc = "clear" /\ \E c \in Binary : saved[u.b][c] \notin {"", bin[c]}

(* The host loses power and boots again, or the updater alone dies.  If it *)
(* dies between putting a binary back and restarting its service, or after *)
(* that failed, nothing restarts the service later: the next restore finds *)
(* the binary in place.                                                    *)
crash ==
  /\ u.pc # "rest"
  /\ crashes < MaxCrashes
  /\ crashes' = crashes + 1
  /\ \/ run' = bin /\ mishap' = (mishap \/ Stale)
     \/ /\ mishap' = (mishap \/ Stale \/ u.pc = "restart" \/ u.err)
        /\ UNCHANGED run
  /\ u' = Rest
  /\ torn' = IF u.for = "rollback" THEN torn \cup {u.b} ELSE torn
  /\ UNCHANGED <<bin, ui, releases, saved, state, inbox, pkg>>

updater ==
  \/ Recover \/ restoreUI \/ restoreBinary \/ restoreRestart \/ restored
  \/ Rollback \/ rolledBack \/ endRun
  \/ \E b \in Bundle : refuse(b) \/ wait(b) \/ apply(b)
  \/ applyClear \/ applyKeep \/ applyPhase \/ applyInstall \/ applyRestart
  \/ applied \/ prune \/ drop

Next == updater \/ PackageInstalled \/ crash

Spec == Init /\ [][Next]_vars

(* systemd starts the updater every five minutes, it does not stop in the  *)
(* middle, and state.json can be written in the end.                       *)
FairSpec ==
  /\ Spec
  /\ WF_vars(updater)
  /\ SF_vars(restored /\ pending' = NoPending)

-----------------------------------------------------------------------------
(* Properties. *)

(* The types of the variables. *)
TypeOK ==
  /\ bin \in [Binary -> Build]
  /\ run \in [Binary -> Build \cup {"down"}]
  /\ ui \in Bundle \cup {""}
  /\ releases \subseteq Bundle
  /\ saved \in [Bundle -> [Binary -> Build \cup {""}]]
  /\ current \in Bundle \cup {""}
  /\ pending = NoPending \/
       pending \in [id : Bundle, phase : Component \cup {"saving"},
                   prevUI : Bundle \cup {""}]
  /\ history \in Seq([id : Bundle, prevUI : Bundle \cup {""},
                      back : BOOLEAN])
  /\ inbox \subseteq Bundle
  /\ pkg \in DOMAIN Packages /\ crashes \in Nat
  /\ mishap \in BOOLEAN /\ torn \subseteq Bundle

(* What state.json says is installed: the newest update in H that replaces *)
(* c and was not rolled back, or else the package.                         *)
Expected(H, c) ==
  LET I == {i \in Applied(H) : c \in Range(Comps[H[i].id])}
  IN  IF I = {} THEN IF c = "ui" THEN "" ELSE Packages[pkg] ELSE H[Max(I)].id

Installed(c) == IF c = "ui" THEN ui ELSE bin[c]

(* Nothing is in progress, interrupted, or half rolled back. *)
Settled == u.pc = "rest" /\ pending = NoPending /\ torn = {}

(* Between runs the host has what state.json says: every binary and the UI *)
(* are those of the newest update not rolled back, which current names     *)
(* (PackageInstalled keys on it to retire the history).  A failed or       *)
(* interrupted apply leaves no trace, whatever it had replaced (Recover:   *)
(* "leaves the host as it was before that update").  Excepted is what the  *)
(* updater reports or cannot see (mishap): a restore that failed, a bundle *)
(* applied again, a pending update overwritten, an unrecorded package, and *)
(* a death before saved/<id> is cleared of an earlier attempt.             *)
HostMatchesHistory ==
  Settled /\ ~mishap =>
    /\ \A c \in Component : Installed(c) = Expected(history, c)
    /\ current = IF Applied(history) = {} THEN ""
                 ELSE history[Newest(history)].id

(* Between runs every service runs the installed binary: what was put back *)
(* was also restarted.                                                     *)
RunsWhatIsInstalled ==
  Settled /\ ~mishap => run = bin

(* The updates that prune cannot have touched: it keeps the newest         *)
(* keepReleases of the history it is given, which is one longer than       *)
(* state.json when the save before it failed.                              *)
Window(i) == i + keepReleases > Len(history) + 1

(* As far back as prune keeps ("the newest releases and their saved        *)
(* binaries"), every update that was not rolled back can be undone: its    *)
(* saved binaries are those it replaced, and it remembers the UI it        *)
(* replaced.  What is older is gone, and with it what that UI was.         *)
RollbackPossible ==
  Settled /\ ~mishap =>
    \A i \in Applied(history) :
      LET e == history[i]
          H == SubSeq(history, 1, i - 1)
      IN  Window(i) =>
            /\ e.id \in releases
            /\ \A c \in Range(Comps[e.id]) \cap Binary :
                 saved[e.id][c] = Expected(H, c)
            /\ "ui" \in Range(Comps[e.id]) => e.prevUI = Expected(H, "ui")

(* An interrupted update does not stay pending: a later run undoes it. *)
PendingEnds == pending # NoPending ~> pending = NoPending
=============================================================================
