----------------------------- MODULE SyncWatch -----------------------------
(***************************************************************************)
(* `mcpfold sync --watch`: runSyncWatch and runSync (cli/src/commands/     *)
(* sync.ts) on top of watchWithDebounce (io/watch.ts), with the backup and *)
(* the atomic rename a fold ends in (io/backup.ts, io/atomic-write.ts).    *)
(*                                                                         *)
(* The watcher is one JavaScript process: the run that holds `loop` goes   *)
(* on until it awaits something slow, and timers, file events and signals  *)
(* get in only then.  A run awaits something slow for the profiles in      *)
(* Inline only, whose secrets a provider resolves; every other await is a  *)
(* microtask.  The user's editor and a `mcpfold sync` run by hand are      *)
(* other processes: they interleave with every file operation.  A process  *)
(* that dies is a behaviour in which it takes no further step.             *)
(*                                                                         *)
(* A client file is abstracted to the config version its servers come      *)
(* from, a config to its version and whether it can be folded at all (it   *)
(* parses, and no strict policy blocks it).  Backups have distinct names.  *)
(***************************************************************************)
EXTENDS Naturals

CONSTANTS
  NumProfiles,  \* profiles of the config, folded in the order 1 .. NumProfiles
  Inline,       \* those whose strategy resolves secret values
  MaxVersion,   \* bound on the user's edits of the config
  EditsFrom,    \* earliest edit: "start", "watching" or "folded" (first run over)
  Manual,       \* whether `mcpfold sync` is also run by hand
  Own,          \* what the user had in a client file before
  Absent        \* no client file; no version loaded

Profiles == 1 .. NumProfiles
Versions == 0 .. MaxVersion   \* version 0 is the config at start

ASSUME SettingAssumption ==
  /\ NumProfiles \in Nat \ {0}
  /\ Inline \subseteq Profiles
  /\ MaxVersion \in Nat
  /\ EditsFrom \in {"start", "watching", "folded"}
  /\ Manual \in BOOLEAN
  /\ Own # Absent /\ {Own, Absent} \cap Nat = {}

VARIABLES
  config,    \* the canonical file: its version, and whether it can be folded
  target,    \* per profile: what its client file holds
  backups,   \* per profile: what its backups hold
  event,     \* a change of the config file awaits delivery
  watching,  \* the config's directory is watched
  timer, running, pending, stopped,   \* the state of watchWithDebounce
  fold,      \* per run of runSync: how far it got
  loop       \* the run that holds the watcher's event loop, or "free"

debounce == <<timer, running, pending, stopped>>
files    == <<config, target, backups>>
vars     == <<files, event, watching, debounce, fold, loop>>

(* The first run, those a change starts (the second of these is there for  *)
(* runs that would overlap), and the run by hand.                          *)
Changes == {"change", "overlapping"}
Mine    == {"initial"} \cup Changes
Runs    == Mine \cup {"manual"}

Content == Versions \cup {Own, Absent}

Idle(s) == fold[s].pc \in {"idle", "done", "failed"}

-----------------------------------------------------------------------------
(* runSync *)

Loading == [pc |-> "load", version |-> Absent, profile |-> 1, seen |-> Absent]

(* A run of the watcher goes on while it holds the loop, and comes back    *)
(* from a provider when the loop is free.                                  *)
GoesOn(s)    == s \in Mine => loop = s
ComesBack(s) == s \in Mine => loop = "free"

(* What follows its first await, the first run does with the watcher on.   *)
Attached(s) == s = "initial" => watching

Continue(s, at) ==
  /\ fold' = [fold EXCEPT ![s] = at]
  /\ loop' = IF s \in Mine THEN s ELSE loop
  /\ UNCHANGED debounce

AwaitProvider(s, at) ==
  /\ fold' = [fold EXCEPT ![s] = at]
  /\ loop' = IF s \in Mine THEN "free" ELSE loop
  /\ UNCHANGED debounce

(* Mutant: fire without its finally: a run that fails leaves `running` set. *)
EndRunNoFinally(s, at) ==
  /\ fold' = [fold EXCEPT ![s] = at]
  /\ loop' = IF s \in Mine THEN "free" ELSE loop
  /\ IF s \in Changes /\ at.pc = "done"
     THEN LET again == pending /\ ~stopped IN
          /\ running' = FALSE
          /\ timer' = (timer \/ again)
          /\ pending' = (pending /\ ~again)
          /\ UNCHANGED stopped
     ELSE UNCHANGED debounce

(* Mutant: the re-run that was noted is not scheduled.                     *)
EndRunNoRerun(s, at) ==
  /\ fold' = [fold EXCEPT ![s] = at]
  /\ loop' = IF s \in Mine THEN "free" ELSE loop
  /\ running' = (running /\ s \notin Changes)
  /\ UNCHANGED <<timer, pending, stopped>>

(* The end of a run, with the finally block of fire for one it started.    *)
EndRun(s, at) ==
  /\ fold' = [fold EXCEPT ![s] = at]
  /\ loop' = IF s \in Mine THEN "free" ELSE loop
  /\ IF s \in Changes
     THEN LET again == pending /\ ~stopped IN
          /\ running' = FALSE
          /\ timer' = (timer \/ again)
          /\ pending' = (pending /\ ~again)
          /\ UNCHANGED stopped
     ELSE UNCHANGED debounce

(* Mutant: one profile too many.                                           *)
NextProfileOneOver(s) ==
  IF fold[s].profile <= NumProfiles
  THEN Continue(s, [fold[s] EXCEPT !.profile = @ + 1, !.pc = "read"])
  ELSE EndRun(s, [fold[s] EXCEPT !.pc = "done"])

NextProfile(s) ==
  IF fold[s].profile < NumProfiles
  THEN Continue(s, [fold[s] EXCEPT !.profile = @ + 1, !.pc = "read"])
  ELSE EndRun(s, [fold[s] EXCEPT !.pc = "done"])

(* A rendering equal to what was read leaves the client file alone.        *)
Compare(s, onDisk) ==
  IF onDisk = fold[s].version THEN NextProfile(s)
  ELSE Continue(s, [fold[s] EXCEPT !.pc = "backup"])

(* The config is read once; one that does not load, or that a strict policy *)
(* blocks, ends the run before it touches a file.                          *)
LoadConfig(s) ==
  /\ fold[s].pc = "load" /\ GoesOn(s)
  /\ IF config.ok
     THEN Continue(s, [fold[s] EXCEPT !.pc = "read", !.version = config.version])
     ELSE EndRun(s, [fold[s] EXCEPT !.pc = "failed", !.version = config.version])
  /\ UNCHANGED <<files, event, watching>>

(* The client file is read before it is rendered.                          *)
ReadTarget(s) ==
  /\ fold[s].pc = "read" /\ GoesOn(s)
  /\ fold[s].profile > 1 => Attached(s)
  /\ LET p == fold[s].profile IN
     IF p \in Inline
     THEN AwaitProvider(s, [fold[s] EXCEPT !.pc = "resolve", !.seen = target[p]])
     ELSE Compare(s, target[p])
  /\ UNCHANGED <<files, event, watching>>

ProviderAnswers(s) ==
  /\ fold[s].pc = "resolve" /\ ComesBack(s) /\ Attached(s)
  /\ Compare(s, fold[s].seen)
  /\ UNCHANGED <<files, event, watching>>

(* A provider that fails or times out, or a file that is not gitignored:    *)
(* the error ends the run, and the profiles before this one stay written.  *)
ProviderFails(s) ==
  /\ fold[s].pc = "resolve" /\ ComesBack(s) /\ Attached(s)
  /\ EndRun(s, [fold[s] EXCEPT !.pc = "failed"])
  /\ UNCHANGED <<files, event, watching>>

(* Mutant: the backup is taken after the write.                            *)
BackupLate(s) ==
  /\ fold[s].pc = "backup" /\ GoesOn(s) /\ Attached(s)
  /\ LET p == fold[s].profile IN
     backups' = IF target[p] = Absent THEN backups
                ELSE [backups EXCEPT ![p] = @ \cup {fold[s].version}]
  /\ Continue(s, [fold[s] EXCEPT !.pc = "write"])
  /\ UNCHANGED <<config, target, event, watching>>

(* backupIfExists: what the client file holds by now is copied.            *)
Backup(s) ==
  /\ fold[s].pc = "backup" /\ GoesOn(s) /\ Attached(s)
  /\ LET p == fold[s].profile IN
     backups' = IF target[p] = Absent THEN backups
                ELSE [backups EXCEPT ![p] = @ \cup {target[p]}]
  /\ Continue(s, [fold[s] EXCEPT !.pc = "write"])
  /\ UNCHANGED <<config, target, event, watching>>

(* atomicWrite: nothing shows before the rename.                           *)
Write(s) ==
  /\ fold[s].pc = "write" /\ GoesOn(s) /\ Attached(s)
  /\ target' = [target EXCEPT ![fold[s].profile] = fold[s].version]
  /\ NextProfile(s)
  /\ UNCHANGED <<config, backups, event, watching>>

RunSync(s) ==
  \/ LoadConfig(s) \/ ReadTarget(s) \/ ProviderAnswers(s) \/ ProviderFails(s)
  \/ Backup(s) \/ Write(s)

-----------------------------------------------------------------------------
(* watchWithDebounce *)

(* runSyncWatch starts the first run, which executes up to its first await *)
(* (in the rendering of the first profile), and then attaches the watcher. *)
Attach ==
  /\ ~watching
  /\ ~(fold["initial"].pc \in {"load", "read"} /\ fold["initial"].profile = 1)
  /\ watching' = TRUE
  /\ UNCHANGED <<files, event, debounce, fold, loop>>

(* schedule: the timer is armed, or armed anew.                            *)
DeliverEvent ==
  /\ loop = "free" /\ event
  /\ event' = FALSE
  /\ timer' = TRUE
  /\ UNCHANGED <<files, watching, running, pending, stopped, fold, loop>>

(* Mutant: the runs are not kept apart.                                    *)
FireAnyway ==
  /\ loop = "free" /\ timer
  /\ timer' = FALSE
  /\ running' = TRUE
  /\ LET s == IF Idle("change") THEN "change" ELSE "overlapping" IN
     fold' = [fold EXCEPT ![s] = Loading] /\ loop' = s
  /\ UNCHANGED <<files, event, watching, pending, stopped>>

(* Mutant: a change during a run is not noted.                             *)
FireDrops ==
  /\ loop = "free" /\ timer
  /\ timer' = FALSE
  /\ IF running THEN UNCHANGED <<running, fold, loop>>
     ELSE /\ running' = TRUE
          /\ fold' = [fold EXCEPT !["change"] = Loading]
          /\ loop' = "change"
  /\ UNCHANGED <<files, event, watching, pending, stopped>>

(* fire: one run at a time, and one re-run noted for what changed meanwhile.*)
Fire ==
  /\ loop = "free" /\ timer
  /\ timer' = FALSE
  /\ IF running
     THEN pending' = TRUE /\ UNCHANGED <<running, fold, loop>>
     ELSE LET s == IF Idle("change") THEN "change" ELSE "overlapping" IN
          /\ running' = TRUE
          /\ fold' = [fold EXCEPT ![s] = Loading]
          /\ loop' = s
          /\ UNCHANGED pending
  /\ UNCHANGED <<files, event, watching, stopped>>

(* Mutant: the armed timer survives.                                       *)
StopKeepsTimer ==
  /\ loop = "free" /\ watching /\ ~stopped
  /\ stopped' = TRUE
  /\ event' = FALSE
  /\ UNCHANGED <<files, watching, timer, running, pending, fold, loop>>

(* stop, on SIGINT or SIGTERM; a run that awaits a provider goes on.       *)
Stop ==
  /\ loop = "free" /\ watching /\ ~stopped
  /\ stopped' = TRUE
  /\ timer' = FALSE
  /\ event' = FALSE
  /\ UNCHANGED <<files, watching, running, pending, fold, loop>>

-----------------------------------------------------------------------------
(* Other processes *)

(* Mutant: the file is watched, not its directory: once an editor has saved *)
(* by rename, the file it renamed over is the one watched.                 *)
EditConfigWatchedInode(ok) ==
  /\ config.version < MaxVersion
  /\ \/ EditsFrom = "start"
     \/ EditsFrom = "watching" /\ watching
     \/ EditsFrom = "folded" /\ watching /\ Idle("initial")
  /\ config' = [version |-> config.version + 1, ok |-> ok]
  /\ event' = (event \/ (watching /\ ~stopped /\ config.version = 0))
  /\ UNCHANGED <<target, backups, watching, debounce, fold, loop>>

(* The user saves the config; the editor may save a broken one.            *)
EditConfig(ok) ==
  /\ config.version < MaxVersion
  /\ \/ EditsFrom = "start"
     \/ EditsFrom = "watching" /\ watching
     \/ EditsFrom = "folded" /\ watching /\ Idle("initial")
  /\ config' = [version |-> config.version + 1, ok |-> ok]
  /\ event' = (watching /\ ~stopped)
  /\ UNCHANGED <<target, backups, watching, debounce, fold, loop>>

(* The user runs `mcpfold sync`.                                           *)
SyncByHand ==
  /\ Manual /\ fold["manual"].pc = "idle"
  /\ fold' = [fold EXCEPT !["manual"] = Loading]
  /\ UNCHANGED <<files, event, watching, debounce, loop>>

-----------------------------------------------------------------------------
Init ==
  /\ config = [version |-> 0, ok |-> TRUE]
  /\ target \in [Profiles -> {Own, Absent}]
  /\ backups = [p \in Profiles |-> {}]
  /\ event = FALSE /\ watching = FALSE
  /\ timer = FALSE /\ running = FALSE /\ pending = FALSE /\ stopped = FALSE
  /\ fold = [s \in Runs |-> IF s = "initial" THEN Loading ELSE [Loading EXCEPT !.pc = "idle"]]
  /\ loop = "initial"

WatcherStep == Attach \/ DeliverEvent \/ Fire \/ \E s \in Mine : RunSync(s)

Next ==
  \/ WatcherStep
  \/ Stop
  \/ RunSync("manual")
  \/ SyncByHand
  \/ \E ok \in BOOLEAN : EditConfig(ok)

(* The event loop runs a callback that is ready, and a provider answers or  *)
(* is timed out.  Nobody has to edit, to stop the watcher or to sync by hand.*)
Spec == Init /\ [][Next]_vars /\ WF_vars(WatcherStep)

-----------------------------------------------------------------------------
(* Correctness *)

TypeOK ==
  /\ config \in [version : Versions, ok : BOOLEAN]
  /\ target \in [Profiles -> Content]
  /\ backups \in [Profiles -> SUBSET Content]
  /\ event \in BOOLEAN /\ watching \in BOOLEAN
  /\ timer \in BOOLEAN /\ running \in BOOLEAN /\ pending \in BOOLEAN /\ stopped \in BOOLEAN
  /\ fold \in [Runs -> [pc : {"idle", "load", "read", "resolve", "backup", "write",
                              "done", "failed"},
                        version : Versions \cup {Absent}, profile : Profiles, seen : Content]]
  /\ loop \in Mine \cup {"free"}

(* A change of the config is never forgotten while the watcher lives: some *)
(* run has loaded it, or is about to load, or one is on its way: as a file *)
(* event, a timer or the noted re-run of the run under way (sync.ts:       *)
(* "re-folds on every change to the canonical config").                    *)
NoEditForgotten ==
  watching /\ ~stopped =>
    \/ event \/ timer
    \/ pending /\ \E s \in Changes : ~Idle(s)
    \/ \E s \in Mine : fold[s].pc = "load" \/ fold[s].version = config.version

(* Two runs started by changes are never under way together (watch.ts:     *)
(* "Never overlaps folds").                                                *)
NeverOverlaps == \E s \in Changes : Idle(s)

(* The watcher never takes a client file back to an older config, however  *)
(* slow its providers are, unless a run by hand wrote a newer one while    *)
(* the watcher's run was under way.                                        *)
OnlyForward ==
  [][\A p \in Profiles : target'[p] # target[p] =>
       \/ target[p] \in {Own, Absent}
       \/ target'[p] > target[p]
       \/ fold["manual"].pc # "idle"]_vars

(* What the user had in a client file before is, from then on, in the file *)
(* or in one of its backups, whoever overwrites it and in whatever order   *)
(* (quickstart.md: "a timestamped backup").                                *)
OwnIsKept ==
  [][\A p \in Profiles :
       Own \in {target[p]} \cup backups[p] => Own \in {target'[p]} \cup backups'[p]]_vars

(* After stop no run starts; one under way may end.                        *)
StopIsFinal ==
  [][stopped => \A s \in Mine : Idle(s) => fold'[s] = fold[s]]_vars

(* When the edits cease the client files catch up with the config, unless  *)
(* the watcher was stopped, the config is broken, a secret of it did not   *)
(* resolve, or a run by hand wrote what it had loaded before.              *)
CatchesUp ==
  <>[](\/ stopped
       \/ ~config.ok
       \/ \E s \in Mine : fold[s].pc = "failed" /\ fold[s].version = config.version
       \/ fold["manual"].pc # "idle"
       \/ \A p \in Profiles : target[p] = config.version)
=============================================================================
