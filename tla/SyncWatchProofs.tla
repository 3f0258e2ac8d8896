--------------------------- MODULE SyncWatchProofs ---------------------------
(***************************************************************************)
(* Theorems about SyncWatch: for any number of profiles, any set of those  *)
(* that wait for secrets and any number of edits, the folds that changes   *)
(* start never overlap, no edit made once the watcher is on is forgotten,  *)
(* what the user had stays in a backup, a stopped watcher starts nothing,  *)
(* and no client file goes back to an older config.                        *)
(***************************************************************************)
EXTENDS SyncWatch, TLAPS

Progress == [pc : {"idle", "load", "read", "resolve", "backup", "write", "done", "failed"},
             version : Versions \cup {Absent}, profile : Profiles, seen : Content]

Ended == {"done", "failed"}

(* What the end of a run does to the state of watchWithDebounce.           *)
Debounced(s) ==
  IF s \in Changes
  THEN /\ running' = FALSE
       /\ timer' = (timer \/ (pending /\ ~stopped))
       /\ pending' = (pending /\ stopped)
       /\ UNCHANGED stopped
  ELSE UNCHANGED debounce

(* A step of a run, as far as the invariants below can tell: it goes from  *)
(* `fold[s]` to `at`, and if that is its end it ends as fire has it.       *)
Advance(s, at) ==
  /\ fold' = [fold EXCEPT ![s] = at]
  /\ loop' \in Mine \cup {"free"}
  /\ \/ at.pc \in Ended /\ Debounced(s)
     \/ at.pc \notin Ended \cup {"idle", "load"} /\ UNCHANGED debounce

-----------------------------------------------------------------------------
(* Runs *)

LEMMA RunNames ==
  /\ Runs = {"initial", "change", "overlapping", "manual"}
  /\ Mine = {"initial", "change", "overlapping"}
  /\ Changes = {"change", "overlapping"}
BY DEF Runs, Mine, Changes

LEMMA ProfileTypes ==
  /\ NumProfiles \in Nat \ {0}
  /\ 1 \in Profiles
  /\ \A p \in Profiles : p < NumProfiles => p + 1 \in Profiles
BY SettingAssumption DEF Profiles

LEMMA LoadingType == Loading \in Progress /\ Loading.pc = "load"
BY ProfileTypes DEF Loading, Progress, Content

LEMMA ContinueAdvances ==
  ASSUME TypeOK, NEW s \in Runs, NEW at, Continue(s, at),
         at.pc \notin Ended \cup {"idle", "load"}
  PROVE  Advance(s, at)
BY DEF Continue, Advance, TypeOK, Runs

LEMMA AwaitAdvances ==
  ASSUME TypeOK, NEW s \in Runs, NEW at, AwaitProvider(s, at),
         at.pc \notin Ended \cup {"idle", "load"}
  PROVE  Advance(s, at)
BY DEF AwaitProvider, Advance, TypeOK, Runs

LEMMA EndAdvances ==
  ASSUME TypeOK, NEW s \in Runs, NEW at, EndRun(s, at), at.pc \in Ended
  PROVE  Advance(s, at)
<1>1. loop' \in Mine \cup {"free"}
  BY DEF EndRun, TypeOK
<1>2. Debounced(s)
  <2>1. CASE s \in Changes
    BY <2>1, Zenon DEF EndRun, Debounced, TypeOK
  <2>2. CASE s \notin Changes
    BY <2>2 DEF EndRun, Debounced
  <2>. QED  BY <2>1, <2>2
<1>. QED  BY <1>1, <1>2 DEF EndRun, Advance

(* What a run has loaded after a step of it.                                *)
Loaded(s) == IF fold[s].pc = "load" THEN config.version ELSE fold[s].version

Advances(s) == \E at \in Progress : Advance(s, at) /\ at.version = Loaded(s)

LEMMA ProgressType ==
  ASSUME TypeOK, NEW s \in Runs
  PROVE  /\ fold[s] \in Progress
         /\ fold[s].profile \in Profiles
         /\ config.version \in Versions
BY DEF TypeOK, Progress

LEMMA NextProfileAdvances ==
  ASSUME TypeOK, NEW s \in Runs, NextProfile(s), fold[s].pc # "load"
  PROVE  Advances(s)
<1>0. fold[s] \in Progress /\ fold[s].profile \in Profiles
  BY ProgressType
<1>1. CASE fold[s].profile < NumProfiles
  <2> DEFINE at == [fold[s] EXCEPT !.profile = @ + 1, !.pc = "read"]
  <2>1. fold[s].profile + 1 \in Profiles
    BY <1>0, <1>1, ProfileTypes
  <2>2. at \in Progress /\ at.pc = "read" /\ at.version = fold[s].version
    BY <1>0, <2>1 DEF Progress
  <2>3. Continue(s, at)
    BY <1>1 DEF NextProfile
  <2>4. Advance(s, at)
    BY <2>2, <2>3, ContinueAdvances DEF Ended
  <2>. QED  BY <2>2, <2>4 DEF Advances, Loaded
<1>2. CASE ~(fold[s].profile < NumProfiles)
  <2> DEFINE at == [fold[s] EXCEPT !.pc = "done"]
  <2>1. at \in Progress /\ at.pc = "done" /\ at.version = fold[s].version
    BY <1>0 DEF Progress
  <2>2. EndRun(s, at)
    BY <1>2 DEF NextProfile
  <2>3. Advance(s, at)
    BY <2>1, <2>2, EndAdvances DEF Ended
  <2>. QED  BY <2>1, <2>3 DEF Advances, Loaded
<1>. QED  BY <1>1, <1>2

LEMMA CompareAdvances ==
  ASSUME TypeOK, NEW s \in Runs, NEW onDisk, Compare(s, onDisk), fold[s].pc # "load"
  PROVE  Advances(s)
<1>0. fold[s] \in Progress
  BY ProgressType
<1>1. CASE onDisk = fold[s].version
  BY <1>1, NextProfileAdvances DEF Compare
<1>2. CASE onDisk # fold[s].version
  <2> DEFINE at == [fold[s] EXCEPT !.pc = "backup"]
  <2>1. at \in Progress /\ at.pc = "backup" /\ at.version = fold[s].version
    BY <1>0 DEF Progress
  <2>2. Continue(s, at)
    BY <1>2 DEF Compare
  <2>3. Advance(s, at)
    BY <2>1, <2>2, ContinueAdvances DEF Ended
  <2>. QED  BY <2>1, <2>3 DEF Advances, Loaded
<1>. QED  BY <1>1, <1>2

(* Every step of a run is such an advance, of a run that is under way, and  *)
(* touches neither the config nor what is known of its changes.             *)
LEMMA RunAdvances ==
  ASSUME TypeOK, NEW s \in Runs, RunSync(s)
  PROVE  /\ Advances(s)
         /\ ~Idle(s)
         /\ UNCHANGED <<config, event, watching>>
         /\ target' \in [Profiles -> Content]
         /\ backups' \in [Profiles -> SUBSET Content]
<1>0. /\ fold[s] \in Progress /\ fold[s].profile \in Profiles
      /\ config.version \in Versions
      /\ target \in [Profiles -> Content] /\ backups \in [Profiles -> SUBSET Content]
  BY ProgressType DEF TypeOK
<1>1. CASE LoadConfig(s)
  <2>1. CASE config.ok
    <3> DEFINE at == [fold[s] EXCEPT !.pc = "read", !.version = config.version]
    <3>1. at \in Progress /\ at.pc = "read" /\ at.version = config.version
      BY <1>0 DEF Progress
    <3>2. Continue(s, at)
      BY <1>1, <2>1 DEF LoadConfig
    <3>3. Advance(s, at)
      BY <3>1, <3>2, ContinueAdvances DEF Ended
    <3>. QED  BY <1>0, <1>1, <3>1, <3>3 DEF Advances, Loaded, LoadConfig, files, Idle
  <2>2. CASE ~config.ok
    <3> DEFINE at == [fold[s] EXCEPT !.pc = "failed", !.version = config.version]
    <3>1. at \in Progress /\ at.pc = "failed" /\ at.version = config.version
      BY <1>0 DEF Progress
    <3>2. EndRun(s, at)
      BY <1>1, <2>2 DEF LoadConfig
    <3>3. Advance(s, at)
      BY <3>1, <3>2, EndAdvances DEF Ended
    <3>. QED  BY <1>0, <1>1, <3>1, <3>3 DEF Advances, Loaded, LoadConfig, files, Idle
  <2>. QED  BY <2>1, <2>2
<1>2. CASE ReadTarget(s)
  <2> DEFINE p == fold[s].profile
  <2>1. CASE p \in Inline
    <3> DEFINE at == [fold[s] EXCEPT !.pc = "resolve", !.seen = target[p]]
    <3>1. at \in Progress /\ at.pc = "resolve" /\ at.version = fold[s].version
      BY <1>0 DEF Progress
    <3>2. AwaitProvider(s, at)
      BY <1>2, <2>1 DEF ReadTarget
    <3>3. Advance(s, at)
      BY <3>1, <3>2, AwaitAdvances DEF Ended
    <3>. QED  BY <1>0, <1>2, <3>1, <3>3 DEF Advances, Loaded, ReadTarget, files, Idle
  <2>2. CASE p \notin Inline
    <3>1. Compare(s, target[p]) /\ fold[s].pc # "load"
      BY <1>2, <2>2 DEF ReadTarget
    <3>2. Advances(s)
      BY <3>1, CompareAdvances
    <3>. QED  BY <1>0, <1>2, <3>2 DEF ReadTarget, files, Idle
  <2>. QED  BY <2>1, <2>2
<1>3. CASE ProviderAnswers(s)
  <2>1. Compare(s, fold[s].seen) /\ fold[s].pc # "load"
    BY <1>3 DEF ProviderAnswers
  <2>2. Advances(s)
    BY <2>1, CompareAdvances
  <2>. QED  BY <1>0, <1>3, <2>2 DEF ProviderAnswers, files, Idle
<1>4. CASE ProviderFails(s)
  <2> DEFINE at == [fold[s] EXCEPT !.pc = "failed"]
  <2>1. at \in Progress /\ at.pc = "failed" /\ at.version = fold[s].version
    BY <1>0 DEF Progress
  <2>2. EndRun(s, at)
    BY <1>4 DEF ProviderFails
  <2>3. Advance(s, at)
    BY <2>1, <2>2, EndAdvances DEF Ended
  <2>. QED  BY <1>0, <1>4, <2>1, <2>3 DEF Advances, Loaded, ProviderFails, files, Idle
<1>5. CASE Backup(s)
  <2> DEFINE at == [fold[s] EXCEPT !.pc = "write"]
  <2>1. at \in Progress /\ at.pc = "write" /\ at.version = fold[s].version
    BY <1>0 DEF Progress
  <2>2. Continue(s, at)
    BY <1>5 DEF Backup
  <2>3. Advance(s, at)
    BY <2>1, <2>2, ContinueAdvances DEF Ended
  <2>4. target' = target /\ backups' \in [Profiles -> SUBSET Content]
    BY <1>0, <1>5 DEF Backup
  <2>5. Advances(s)
    BY <1>5, <2>1, <2>3 DEF Advances, Loaded, Backup
  <2>. QED  BY <1>0, <1>5, <2>4, <2>5 DEF Backup, Idle
<1>6. CASE Write(s)
  <2>1. NextProfile(s) /\ fold[s].pc # "load"
    BY <1>6 DEF Write
  <2>2. Advances(s)
    BY <2>1, NextProfileAdvances
  <2>3. target' \in [Profiles -> Content] /\ backups' = backups
    BY <1>0, <1>6 DEF Write, Progress, Content
  <2>. QED  BY <1>0, <1>6, <2>2, <2>3 DEF Write, Idle
<1>. QED  BY <1>1, <1>2, <1>3, <1>4, <1>5, <1>6 DEF RunSync

-----------------------------------------------------------------------------
(* Type correctness *)

LEMMA InitTypeOK == Init => TypeOK
<1> SUFFICES ASSUME Init PROVE TypeOK
  OBVIOUS
<1>1. Loading \in Progress /\ [Loading EXCEPT !.pc = "idle"] \in Progress
  BY LoadingType DEF Progress
<1>2. fold \in [Runs -> Progress]
  BY <1>1 DEF Init
<1>3. config \in [version : Versions, ok : BOOLEAN] /\ loop \in Mine \cup {"free"}
  BY SettingAssumption DEF Init, Versions, Mine
<1>. QED  BY <1>2, <1>3 DEF Init, TypeOK, Content, Progress

LEMMA AdvanceType ==
  ASSUME TypeOK, NEW s \in Runs, NEW at \in Progress, Advance(s, at)
  PROVE  /\ fold' \in [Runs -> Progress]
         /\ loop' \in Mine \cup {"free"}
         /\ timer' \in BOOLEAN /\ running' \in BOOLEAN
         /\ pending' \in BOOLEAN /\ stopped' \in BOOLEAN
<1>1. fold' \in [Runs -> Progress]
  BY DEF Advance, TypeOK, Progress
<1>2. /\ timer' \in BOOLEAN /\ running' \in BOOLEAN
      /\ pending' \in BOOLEAN /\ stopped' \in BOOLEAN
  BY DEF Advance, Debounced, debounce, TypeOK
<1>. QED  BY <1>1, <1>2 DEF Advance

LEMMA StepTypeOK == TypeOK /\ [Next]_vars => TypeOK'
<1> SUFFICES ASSUME TypeOK, [Next]_vars
             PROVE  TypeOK'
  OBVIOUS
<1>0. fold \in [Runs -> Progress]
  BY DEF TypeOK, Progress
<1>1. ASSUME NEW s \in Runs, RunSync(s)
      PROVE  TypeOK'
  <2>1. PICK at \in Progress : Advance(s, at)
    BY <1>1, RunAdvances DEF Advances
  <2>2. /\ UNCHANGED <<config, event, watching>>
        /\ target' \in [Profiles -> Content]
        /\ backups' \in [Profiles -> SUBSET Content]
    BY <1>1, RunAdvances
  <2>. QED  BY <2>1, <2>2, AdvanceType DEF TypeOK, Progress
<1>2. CASE Attach
  BY <1>2 DEF Attach, TypeOK, files, debounce
<1>3. CASE DeliverEvent
  BY <1>3 DEF DeliverEvent, TypeOK, files
<1>4. CASE Fire
  <2>1. CASE running
    BY <1>4, <2>1 DEF Fire, TypeOK, files
  <2>2. CASE ~running
    <3>1. PICK s \in Changes : fold' = [fold EXCEPT ![s] = Loading] /\ loop' = s
      BY <1>4, <2>2, Zenon DEF Fire, Changes
    <3>2. fold' \in [Runs -> Progress] /\ loop' \in Mine
      BY <1>0, <3>1, LoadingType, RunNames
    <3>. QED  BY <1>4, <2>2, <3>2 DEF Fire, TypeOK, files, Progress
  <2>. QED  BY <2>1, <2>2
<1>5. CASE Stop
  BY <1>5 DEF Stop, TypeOK, files
<1>6. ASSUME NEW ok \in BOOLEAN, EditConfig(ok)
      PROVE  TypeOK'
  <2>1. config' \in [version : Versions, ok : BOOLEAN]
    BY <1>6, SettingAssumption DEF EditConfig, TypeOK, Versions
  <2>2. event' \in BOOLEAN
    BY <1>6 DEF EditConfig, TypeOK
  <2>. QED  BY <1>6, <2>1, <2>2 DEF EditConfig, TypeOK, debounce
<1>7. CASE SyncByHand
  <2>1. fold' \in [Runs -> Progress]
    BY <1>0, <1>7, LoadingType DEF SyncByHand
  <2>. QED  BY <1>7, <2>1 DEF SyncByHand, TypeOK, files, debounce, Progress
<1>8. CASE UNCHANGED vars
  BY <1>8 DEF vars, files, debounce, TypeOK
<1>. QED  BY <1>1, <1>2, <1>3, <1>4, <1>5, <1>6, <1>7, <1>8, RunNames DEF Next, WatcherStep

(* The watcher, the client files, the backups and the runs keep their types. *)
THEOREM TypeCorrect == Spec => []TypeOK
BY InitTypeOK, StepTypeOK, PTL DEF Spec

-----------------------------------------------------------------------------
(***************************************************************************)
(* The inductive invariant.  NoEditForgotten is not inductive alone: that  *)
(* a re-run which was noted will be scheduled rests on `running` telling   *)
(* that a run is under way, and that the first run knows the config when   *)
(* the watcher is attached rests on there being no edit before.            *)
(***************************************************************************)
OneAtATime ==
  /\ Idle("overlapping")
  /\ running <=> ~Idle("change")
  /\ pending /\ ~stopped => running

FirstRunKnows ==
  /\ fold["initial"].pc = "load" => fold["initial"].profile = 1
  /\ ~watching => \/ fold["initial"].pc = "load"
                  \/ fold["initial"].version = config.version

WInv == TypeOK /\ OneAtATime /\ FirstRunKnows /\ NoEditForgotten

LEMMA InitWInv == Init => WInv
<1> SUFFICES ASSUME Init PROVE WInv
  OBVIOUS
<1>1. TypeOK
  BY InitTypeOK
<1>2. /\ fold["initial"] = Loading
      /\ fold["change"].pc = "idle" /\ fold["overlapping"].pc = "idle"
  BY RunNames DEF Init, Loading
<1>3. OneAtATime
  BY <1>2 DEF OneAtATime, Init, Idle
<1>4. FirstRunKnows
  BY <1>2 DEF FirstRunKnows, Loading
<1>5. NoEditForgotten
  BY DEF NoEditForgotten, Init
<1>. QED  BY <1>1, <1>3, <1>4, <1>5 DEF WInv

(* A step of a run keeps the three parts.                                   *)
LEMMA RunKeepsOneAtATime ==
  ASSUME TypeOK, OneAtATime, NEW s \in Runs, RunSync(s)
  PROVE  OneAtATime'
<1>0. PICK at \in Progress : Advance(s, at)
  BY RunAdvances DEF Advances
<1>1. /\ fold' = [fold EXCEPT ![s] = at] /\ ~Idle(s) /\ s # "overlapping"
      /\ \A x \in Runs : x # s => fold'[x] = fold[x]
      /\ fold'[s] = at
  BY <1>0, RunAdvances DEF Advance, OneAtATime, TypeOK
<1>2. CASE s = "change"
  <2>1. CASE at.pc \in Ended /\ Debounced(s)
    <3>1. running' = FALSE /\ (pending /\ ~stopped => ~pending') /\ stopped' = stopped
          /\ (pending' => pending)
      BY <1>2, <2>1 DEF Debounced, Changes, TypeOK
    <3>2. Idle("change")' /\ Idle("overlapping")'
      BY <1>1, <1>2, <2>1, RunNames DEF Idle, Ended, OneAtATime
    <3>. QED  BY <3>1, <3>2 DEF OneAtATime
  <2>2. CASE at.pc \notin Ended \cup {"idle", "load"} /\ UNCHANGED debounce
    <3>1. ~Idle("change")' /\ Idle("overlapping")'
      BY <1>1, <1>2, <2>2, RunNames DEF Idle, Ended, OneAtATime
    <3>. QED  BY <1>1, <1>2, <2>2, <3>1 DEF OneAtATime, debounce
  <2>. QED  BY <1>0, <2>1, <2>2 DEF Advance
<1>3. CASE s # "change"
  <2>1. UNCHANGED debounce
    BY <1>0, <1>1, <1>3 DEF Advance, Debounced, Changes
  <2>2. (Idle("change")' <=> Idle("change")) /\ (Idle("overlapping")' <=> Idle("overlapping"))
    BY <1>1, <1>3, RunNames DEF Idle
  <2>. QED  BY <2>1, <2>2 DEF OneAtATime, debounce
<1>. QED  BY <1>2, <1>3

(* The re-run noted while a run is under way, and the flag that says so,    *)
(* agree with the runs at every step.                                       *)
LEMMA StepOneAtATime ==
  ASSUME TypeOK, OneAtATime, [Next]_vars
  PROVE  OneAtATime'
<1> USE RunNames
<1>1. ASSUME NEW s \in Runs, RunSync(s)
      PROVE  OneAtATime'
  BY <1>1, RunKeepsOneAtATime
<1>2. CASE Attach
  BY <1>2 DEF Attach, OneAtATime, Idle, debounce
<1>3. CASE DeliverEvent
  BY <1>3 DEF DeliverEvent, OneAtATime, Idle
<1>4. CASE Fire
  <2>1. CASE running
    <3>1. pending' /\ UNCHANGED <<fold, running, stopped>>
      BY <1>4, <2>1 DEF Fire
    <3>. QED  BY <2>1, <3>1 DEF OneAtATime, Idle
  <2>2. CASE ~running
    <3>1. /\ fold' = [fold EXCEPT !["change"] = Loading]
          /\ running' = TRUE
      BY <1>4, <2>2, Zenon DEF Fire, OneAtATime
    <3>2. /\ fold'["change"].pc = "load"
          /\ fold'["overlapping"] = fold["overlapping"]
      BY <3>1 DEF TypeOK, Loading
    <3>. QED  BY <3>1, <3>2 DEF OneAtATime, Idle
  <2>. QED  BY <2>1, <2>2
<1>5. CASE Stop
  BY <1>5 DEF Stop, OneAtATime, Idle
<1>6. ASSUME NEW ok \in BOOLEAN, EditConfig(ok)
      PROVE  OneAtATime'
  BY <1>6 DEF EditConfig, OneAtATime, Idle, debounce
<1>7. CASE SyncByHand
  <2>1. \A x \in Changes : fold'[x] = fold[x]
    BY <1>7 DEF SyncByHand, TypeOK
  <2>. QED  BY <1>7, <2>1 DEF SyncByHand, OneAtATime, Idle, debounce
<1>8. CASE UNCHANGED vars
  BY <1>8 DEF vars, debounce, OneAtATime, Idle
<1>. QED  BY <1>1, <1>2, <1>3, <1>4, <1>5, <1>6, <1>7, <1>8 DEF Next, WatcherStep

LEMMA RunKeepsFirstRunKnows ==
  ASSUME WInv, NEW s \in Runs, RunSync(s)
  PROVE  FirstRunKnows'
<1>0. PICK at \in Progress : Advance(s, at) /\ at.version = Loaded(s)
  BY RunAdvances DEF Advances, WInv
<1>1. UNCHANGED <<config, watching>>
  BY RunAdvances DEF WInv
<1>2. at.pc # "load"
  BY <1>0 DEF Advance, Ended
<1>3. CASE s = "initial"
  <2>1. fold'["initial"] = at
    BY <1>0, <1>3 DEF Advance, WInv, TypeOK
  <2>2. ~watching => at.version = config.version
    BY <1>0, <1>3 DEF Loaded, WInv, FirstRunKnows
  <2>. QED  BY <1>1, <1>2, <2>1, <2>2 DEF FirstRunKnows
<1>4. CASE s # "initial"
  <2>1. fold'["initial"] = fold["initial"]
    BY <1>0, <1>4, RunNames DEF Advance, WInv, TypeOK
  <2>. QED  BY <1>1, <2>1 DEF FirstRunKnows, WInv
<1>. QED  BY <1>3, <1>4

LEMMA RunKeepsNoEditForgotten ==
  ASSUME WInv, NEW s \in Runs, RunSync(s)
  PROVE  NoEditForgotten'
<1> SUFFICES ASSUME watching', ~stopped'
             PROVE  \/ event' \/ timer'
                    \/ pending' /\ \E x \in Changes : ~Idle(x)'
                    \/ \E x \in Mine : fold'[x].pc = "load" \/ fold'[x].version = config'.version
  BY DEF NoEditForgotten
<1>0. PICK at \in Progress : Advance(s, at) /\ at.version = Loaded(s)
  BY RunAdvances DEF Advances, WInv
<1>1. UNCHANGED <<config, event, watching>> /\ ~Idle(s) /\ stopped' = stopped
      /\ (timer => timer')
  <2>1. UNCHANGED <<config, event, watching>> /\ ~Idle(s)
    BY RunAdvances DEF WInv
  <2>2. Debounced(s) \/ UNCHANGED debounce
    BY <1>0 DEF Advance
  <2>3. stopped' = stopped /\ (timer => timer')
    <3>1. CASE UNCHANGED debounce
      BY <3>1 DEF debounce
    <3>2. CASE s \in Changes /\ Debounced(s)
      BY <3>2, Zenon DEF Debounced
    <3>3. CASE s \notin Changes /\ Debounced(s)
      BY <3>3 DEF Debounced, debounce
    <3>. QED  BY <2>2, <3>1, <3>2, <3>3
  <2>. QED  BY <2>1, <2>3
<1>2. /\ \A x \in Runs : x # s => fold'[x] = fold[x]
      /\ fold'[s] = at
  BY <1>0 DEF Advance, WInv, TypeOK
<1>3. CASE event \/ timer
  BY <1>1, <1>3
<1>4. CASE pending /\ \E x \in Changes : ~Idle(x)
  <2>1. CASE s \in Changes /\ at.pc \in Ended
    <3>1. Debounced(s)
      BY <1>0, <2>1 DEF Advance
    <3>. QED  BY <1>1, <1>4, <2>1, <3>1 DEF Debounced
  <2>2. CASE s \in Changes /\ at.pc \notin Ended
    <3>1. ~Idle(s)' /\ pending' = pending
      BY <1>0, <1>2, <2>2 DEF Advance, Idle, Ended, debounce
    <3>. QED  BY <1>4, <2>2, <3>1
  <2>3. CASE s \notin Changes
    <3>1. pending' = pending
      BY <1>0, <2>3 DEF Advance, Debounced, debounce
    <3>2. \A x \in Changes : Idle(x)' <=> Idle(x)
      BY <1>2, <2>3, RunNames DEF Idle
    <3>. QED  BY <1>4, <3>1, <3>2
  <2>. QED  BY <2>1, <2>2, <2>3
<1>5. ASSUME NEW x \in Mine, fold[x].pc = "load" \/ fold[x].version = config.version
      PROVE  fold'[x].pc = "load" \/ fold'[x].version = config'.version
  <2>1. CASE x = s
    BY <1>0, <1>1, <1>2, <1>5, <2>1 DEF Loaded
  <2>2. CASE x # s
    BY <1>1, <1>2, <1>5, <2>2, RunNames
  <2>. QED  BY <2>1, <2>2
<1>. QED  BY <1>1, <1>3, <1>4, <1>5 DEF WInv, NoEditForgotten

LEMMA StepWInv ==
  ASSUME EditsFrom # "start"
  PROVE  WInv /\ [Next]_vars => WInv'
<1> SUFFICES ASSUME WInv, [Next]_vars
             PROVE  WInv'
  OBVIOUS
<1>0. TypeOK /\ TypeOK'
  BY StepTypeOK DEF WInv
<1> SUFFICES FirstRunKnows' /\ NoEditForgotten'
  BY <1>0, StepOneAtATime DEF WInv
<1> USE RunNames DEF WInv
<1>1. ASSUME NEW s \in Runs, RunSync(s)
      PROVE  FirstRunKnows' /\ NoEditForgotten'
  BY <1>1, RunKeepsFirstRunKnows, RunKeepsNoEditForgotten
<1>2. CASE Attach
  <2>1. fold["initial"].version = config.version
    BY <1>2 DEF Attach, FirstRunKnows
  <2>. QED  BY <1>2, <2>1 DEF Attach, FirstRunKnows, NoEditForgotten, Idle, files, debounce
<1>3. CASE DeliverEvent
  BY <1>3 DEF DeliverEvent, FirstRunKnows, NoEditForgotten, Idle, files
<1>4. CASE Fire
  <2>1. CASE running
    <3>1. pending' /\ UNCHANGED <<fold, running, stopped, config, watching>>
      BY <1>4, <2>1 DEF Fire, files
    <3>. QED  BY <2>1, <3>1 DEF OneAtATime, FirstRunKnows, NoEditForgotten, Idle
  <2>2. CASE ~running
    <3>1. /\ fold' = [fold EXCEPT !["change"] = Loading]
          /\ running' = TRUE
          /\ UNCHANGED <<pending, stopped, config, watching>>
      BY <1>4, <2>2, Zenon DEF Fire, OneAtATime, files
    <3>2. /\ fold'["change"].pc = "load"
          /\ fold'["initial"] = fold["initial"]
      BY <1>0, <3>1 DEF TypeOK, Loading
    <3>3. FirstRunKnows'
      BY <3>1, <3>2 DEF FirstRunKnows
    <3>4. NoEditForgotten'
      BY <3>2 DEF NoEditForgotten
    <3>. QED  BY <3>3, <3>4
  <2>. QED  BY <2>1, <2>2
<1>5. CASE Stop
  BY <1>5 DEF Stop, FirstRunKnows, NoEditForgotten, Idle, files
<1>6. ASSUME NEW ok \in BOOLEAN, EditConfig(ok)
      PROVE  FirstRunKnows' /\ NoEditForgotten'
  <2>1. watching /\ watching' /\ (~stopped' => event')
        /\ UNCHANGED <<fold, debounce>>
    BY <1>6 DEF EditConfig, debounce
  <2>. QED  BY <2>1 DEF FirstRunKnows, NoEditForgotten, Idle, debounce
<1>7. CASE SyncByHand
  <2>1. /\ \A x \in Mine : fold'[x] = fold[x]
        /\ UNCHANGED <<config, event, watching, timer, running, pending, stopped>>
    BY <1>0, <1>7 DEF SyncByHand, TypeOK, files, debounce
  <2>. QED  BY <2>1 DEF FirstRunKnows, NoEditForgotten, Idle
<1>8. CASE UNCHANGED vars
  BY <1>8 DEF vars, files, debounce, FirstRunKnows, NoEditForgotten, Idle
<1>. QED  BY <1>1, <1>2, <1>3, <1>4, <1>5, <1>6, <1>7, <1>8 DEF Next, WatcherStep

LEMMA Invariance == ASSUME EditsFrom # "start" PROVE Spec => []WInv
<1>1. WInv /\ [Next]_vars => WInv'
  BY StepWInv
<1>. QED  BY <1>1, InitWInv, PTL DEF Spec

(* Two folds that changes started are never under way together, for any    *)
(* number of profiles, however many of them wait for secrets and whenever  *)
(* the edits come.                                                         *)
THEOREM FoldsNeverOverlap == Spec => []NeverOverlaps
<1>1. Init => TypeOK /\ OneAtATime
  BY InitWInv DEF WInv
<1>2. TypeOK /\ OneAtATime /\ [Next]_vars => TypeOK' /\ OneAtATime'
  BY StepTypeOK, StepOneAtATime
<1>3. OneAtATime => NeverOverlaps
  BY RunNames DEF OneAtATime, NeverOverlaps
<1>. QED  BY <1>1, <1>2, <1>3, PTL DEF Spec

(* No edit made once the watcher is on is forgotten while it lives.         *)
THEOREM EditsAreNotForgotten == ASSUME EditsFrom # "start" PROVE Spec => []NoEditForgotten
<1>1. WInv => NoEditForgotten
  BY DEF WInv
<1>. QED  BY <1>1, Invariance, PTL
-----------------------------------------------------------------------------
(* What a step of a run does to the files.                                  *)
LEMMA NextProfileEnds ==
  ASSUME TypeOK, NEW s \in Runs, NextProfile(s)
  PROVE  fold'[s].pc \in {"read", "done"}
<1>1. fold[s] \in Progress /\ fold \in [Runs -> Progress]
  BY ProgressType DEF TypeOK, Progress
<1>. QED  BY <1>1 DEF NextProfile, Continue, EndRun, Progress

LEMMA CompareEnds ==
  ASSUME TypeOK, NEW s \in Runs, NEW onDisk, Compare(s, onDisk)
  PROVE  fold'[s].pc \in {"read", "done", "backup"}
<1>1. fold[s] \in Progress /\ fold \in [Runs -> Progress]
  BY ProgressType DEF TypeOK, Progress
<1>. QED  BY <1>1, NextProfileEnds DEF Compare, Continue, Progress

LEMMA RunFiles ==
  ASSUME TypeOK, NEW s \in Runs, RunSync(s)
  PROVE  \/ UNCHANGED <<target, backups>> /\ fold'[s].pc # "write"
         \/ Backup(s)
         \/ Write(s) /\ fold'[s].pc # "write"
<1>0. fold[s] \in Progress /\ fold \in [Runs -> Progress]
  BY ProgressType DEF TypeOK, Progress
<1>1. CASE LoadConfig(s)
  BY <1>0, <1>1 DEF LoadConfig, Continue, EndRun, files, Progress
<1>2. CASE ReadTarget(s)
  <2>1. fold'[s].pc # "write"
    <3>1. CASE fold[s].profile \in Inline
      BY <1>0, <1>2, <3>1 DEF ReadTarget, AwaitProvider, Progress
    <3>2. CASE fold[s].profile \notin Inline
      BY <1>2, <3>2, CompareEnds DEF ReadTarget
    <3>. QED  BY <3>1, <3>2
  <2>. QED  BY <1>2, <2>1 DEF ReadTarget, files
<1>3. CASE ProviderAnswers(s)
  BY <1>3, CompareEnds DEF ProviderAnswers, files
<1>4. CASE ProviderFails(s)
  BY <1>0, <1>4 DEF ProviderFails, EndRun, files, Progress
<1>5. CASE Write(s)
  BY <1>5, NextProfileEnds DEF Write
<1>. QED  BY <1>1, <1>2, <1>3, <1>4, <1>5 DEF RunSync

(* The other steps leave the files to the runs.                             *)
LEMMA OthersKeepFiles ==
  ASSUME TypeOK, [Next]_vars, \A s \in Runs : ~RunSync(s)
  PROVE  /\ UNCHANGED <<target, backups>>
         /\ \A s \in Runs : fold'[s] = fold[s] \/ fold'[s] = Loading
<1>1. CASE Fire
  BY <1>1 DEF Fire, files, TypeOK
<1>2. CASE SyncByHand
  BY <1>2 DEF SyncByHand, files, TypeOK
<1>3. CASE Attach \/ DeliverEvent \/ Stop \/ \E ok \in BOOLEAN : EditConfig(ok)
  BY <1>3 DEF Attach, DeliverEvent, Stop, EditConfig, files
<1>4. CASE UNCHANGED vars
  BY <1>4 DEF vars, files
<1>. QED  BY <1>1, <1>2, <1>3, <1>4, RunNames DEF Next, WatcherStep

(* A run that is about to write over what the user had has a copy of it.   *)
Copied(s) ==
  fold[s].pc = "write" =>
    target[fold[s].profile] # Own \/ Own \in backups[fold[s].profile]

OwnInv == TypeOK /\ \A s \in Runs : Copied(s)

LEMMA InitOwnInv == Init => OwnInv
<1> SUFFICES ASSUME Init PROVE OwnInv
  OBVIOUS
<1>1. \A s \in Runs : fold[s].pc \in {"load", "idle"}
  BY DEF Init, Loading
<1>. QED  BY <1>1, InitTypeOK DEF OwnInv, Copied

OwnThere(p) == Own \in {target[p]} \cup backups[p]

LEMMA StepOwnInv ==
  ASSUME OwnInv, [Next]_vars
  PROVE  OwnInv' /\ \A p \in Profiles : OwnThere(p) => OwnThere(p)'
<1>0. TypeOK /\ TypeOK'
  BY StepTypeOK DEF OwnInv
<1>1. ASSUME NEW s \in Runs, RunSync(s)
      PROVE  /\ \A x \in Runs : Copied(x)'
             /\ \A p \in Profiles : OwnThere(p) => OwnThere(p)'
  <2> DEFINE q == fold[s].profile
  <2>1. PICK at \in Progress : Advance(s, at)
    BY <1>0, <1>1, RunAdvances DEF Advances
  <2>2. \A x \in Runs \ {s} : fold'[x] = fold[x]
    BY <1>0, <2>1 DEF Advance, TypeOK
  <2>3. /\ q \in Profiles /\ \A x \in Runs : fold[x].profile \in Profiles
        /\ target \in [Profiles -> Content] /\ backups \in [Profiles -> SUBSET Content]
    BY <1>0 DEF TypeOK
  <2>4. \A x \in Runs : Copied(x)
    BY DEF OwnInv
  <2>5. CASE UNCHANGED <<target, backups>> /\ fold'[s].pc # "write"
    BY <2>2, <2>4, <2>5 DEF Copied, OwnThere
  <2>6. CASE Backup(s)
    <3>1. fold'[s].profile = q
      BY <1>0, <2>6 DEF Backup, Continue, TypeOK
    <3>2. /\ target' = target
          /\ backups' = IF target[q] = Absent THEN backups
                        ELSE [backups EXCEPT ![q] = @ \cup {target[q]}]
      BY <2>6 DEF Backup
    <3>3. \A p \in Profiles : backups[p] \subseteq backups'[p]
      BY <2>3, <3>2
    <3>4. target[q] = Own => Own \in backups'[q]
      BY <2>3, <3>2, SettingAssumption
    <3>. QED  BY <2>2, <2>3, <2>4, <3>1, <3>2, <3>3, <3>4 DEF Copied, OwnThere
  <2>7. CASE Write(s) /\ fold'[s].pc # "write"
    <3>1. target' = [target EXCEPT ![q] = fold[s].version] /\ backups' = backups
          /\ fold[s].pc = "write"
      BY <2>7 DEF Write
    <3>2. fold[s].version # Own
      BY <1>0, SettingAssumption DEF TypeOK, Versions
    <3>3. \A p \in Profiles : target'[p] = target[p] \/ (p = q /\ target'[p] # Own)
      BY <2>3, <3>1, <3>2
    <3>. QED  BY <2>2, <2>3, <2>4, <2>7, <3>1, <3>3 DEF Copied, OwnThere
  <2>. QED  BY <1>0, <1>1, <2>5, <2>6, <2>7, RunFiles
<1>2. CASE \A s \in Runs : ~RunSync(s)
  <2>1. /\ UNCHANGED <<target, backups>>
        /\ \A s \in Runs : fold'[s] = fold[s] \/ fold'[s] = Loading
    BY <1>0, <1>2, OthersKeepFiles
  <2>. QED  BY <1>0, <2>1, LoadingType DEF OwnInv, Copied, OwnThere
<1>. QED  BY <1>0, <1>1, <1>2 DEF OwnInv

(* What the user had in a client file stays in it or in a backup of it,    *)
(* whichever runs overwrite it, in whatever order: each takes a copy of    *)
(* what is there, and nothing puts it back.                                *)
THEOREM OwnContentIsKept == Spec => OwnIsKept
<1>1. OwnInv /\ [Next]_vars => OwnInv'
  BY StepOwnInv
<1>2. OwnInv /\ [Next]_vars =>
        [\A p \in Profiles :
           Own \in {target[p]} \cup backups[p] => Own \in {target'[p]} \cup backups'[p]]_vars
  BY StepOwnInv DEF OwnThere
<1>. QED  BY <1>1, <1>2, InitOwnInv, PTL DEF Spec, OwnIsKept

-----------------------------------------------------------------------------
(* Nothing is under way that could start a run once the watcher stopped.   *)
Quiet == stopped => ~timer /\ ~event

StopInv == TypeOK /\ OneAtATime /\ Quiet

LEMMA StepStopInv ==
  ASSUME StopInv, [Next]_vars
  PROVE  StopInv' /\ (stopped => \A s \in Mine : Idle(s) => fold'[s] = fold[s])
<1>0. TypeOK /\ OneAtATime /\ TypeOK' /\ OneAtATime'
  BY StepTypeOK, StepOneAtATime DEF StopInv
<1> SUFFICES Quiet' /\ (stopped => \A s \in Mine : Idle(s) => fold'[s] = fold[s])
  BY <1>0 DEF StopInv
<1> USE RunNames
<1>1. ASSUME NEW s \in Runs, RunSync(s)
      PROVE  Quiet' /\ \A x \in Mine : Idle(x) => fold'[x] = fold[x]
  <2>1. PICK at \in Progress : Advance(s, at)
    BY <1>0, <1>1, RunAdvances DEF Advances
  <2>2. ~Idle(s) /\ event' = event
    BY <1>0, <1>1, RunAdvances
  <2>3. \A x \in Mine : Idle(x) => fold'[x] = fold[x]
    BY <1>0, <2>1, <2>2 DEF Advance, TypeOK
  <2>4. stopped' = stopped /\ (stopped /\ timer' => timer)
    <3>1. CASE UNCHANGED debounce
      BY <3>1 DEF debounce
    <3>2. CASE s \in Changes /\ Debounced(s)
      BY <3>2, Zenon DEF Debounced
    <3>3. CASE s \notin Changes /\ Debounced(s)
      BY <3>3 DEF Debounced, debounce
    <3>. QED  BY <2>1, <3>1, <3>2, <3>3 DEF Advance
  <2>. QED  BY <2>2, <2>3, <2>4 DEF StopInv, Quiet
<1>2. CASE Attach
  BY <1>2 DEF Attach, StopInv, Quiet, debounce
<1>3. CASE DeliverEvent
  BY <1>3 DEF DeliverEvent, StopInv, Quiet
<1>4. CASE Fire
  BY <1>4 DEF Fire, StopInv, Quiet
<1>5. CASE Stop
  BY <1>5 DEF Stop, StopInv, Quiet
<1>6. ASSUME NEW ok \in BOOLEAN, EditConfig(ok)
      PROVE  Quiet' /\ UNCHANGED fold
  BY <1>6 DEF EditConfig, StopInv, Quiet, debounce
<1>7. CASE SyncByHand
  BY <1>0, <1>7 DEF SyncByHand, StopInv, Quiet, debounce, TypeOK
<1>8. CASE UNCHANGED vars
  BY <1>8 DEF vars, debounce, StopInv, Quiet
<1>. QED  BY <1>1, <1>2, <1>3, <1>4, <1>5, <1>6, <1>7, <1>8 DEF Next, WatcherStep

(* Once the watcher stopped no run starts: the timer was cleared and is    *)
(* armed by no event and by no run that ends.                              *)
THEOREM NoRunAfterStop == Spec => StopIsFinal
<1>1. Init => StopInv
  BY InitWInv DEF WInv, StopInv, Quiet, Init
<1>2. StopInv /\ [Next]_vars => StopInv'
  BY StepStopInv
<1>3. StopInv /\ [Next]_vars => [stopped => \A s \in Mine : Idle(s) => fold'[s] = fold[s]]_vars
  BY StepStopInv
<1>. QED  BY <1>1, <1>2, <1>3, PTL DEF Spec, StopIsFinal

-----------------------------------------------------------------------------
(* Of the watcher's runs one works at a time when no edit comes before the *)
(* first has ended; and as long as nobody syncs by hand, no client file is *)
(* newer than what that run has loaded.                                    *)
Working == {"read", "resolve", "backup", "write"}

FirstAlone == ~Idle("initial") => ~event /\ ~timer /\ Idle("change")

NoNewer(v) == \A p \in Profiles : target[p] \in {Own, Absent} \/ target[p] <= v

UpTo(s) ==
  fold[s].version \in Versions /\ fold[s].version <= config.version /\ NoNewer(fold[s].version)

Newest ==
  fold["manual"].pc = "idle" =>
    /\ NoNewer(config.version)
    /\ \A s \in Mine : fold[s].pc \in Working => UpTo(s)

FInv == TypeOK /\ OneAtATime /\ FirstAlone /\ Newest

LEMMA InitFInv == Init => FInv
<1> SUFFICES ASSUME Init PROVE FInv
  OBVIOUS
<1>1. TypeOK /\ OneAtATime
  BY InitWInv DEF WInv
<1>2. /\ \A s \in Runs : fold[s].pc \in {"load", "idle"}
      /\ fold["change"].pc = "idle" /\ ~event /\ ~timer
      /\ \A p \in Profiles : target[p] \in {Own, Absent}
  BY RunNames DEF Init, Loading
<1>. QED  BY <1>1, <1>2, RunNames DEF FInv, FirstAlone, Newest, NoNewer, Idle, Working

LEMMA RunKeepsFirstAlone ==
  ASSUME FInv, NEW s \in Runs, RunSync(s)
  PROVE  FirstAlone'
<1> SUFFICES ASSUME ~Idle("initial")' PROVE ~event' /\ ~timer' /\ Idle("change")'
  BY DEF FirstAlone
<1>1. PICK at \in Progress : Advance(s, at)
  BY RunAdvances DEF Advances, FInv
<1>2. ~Idle(s) /\ event' = event /\ \A x \in Runs \ {s} : fold'[x] = fold[x]
  BY <1>1, RunAdvances DEF FInv, Advance, TypeOK
<1>3. ~Idle("initial")
  BY <1>2, RunNames DEF Idle
<1>4. ~event /\ ~timer /\ Idle("change") /\ Idle("overlapping")
  BY <1>3 DEF FInv, FirstAlone, OneAtATime
<1>5. s \notin Changes
  BY <1>2, <1>4, RunNames
<1>6. UNCHANGED debounce
  BY <1>1, <1>5 DEF Advance, Debounced
<1>. QED  BY <1>2, <1>4, <1>5, <1>6, RunNames DEF debounce, Idle

(* Of the watcher's runs, that one which takes a step is the only one.     *)
LEMMA OneWorks ==
  ASSUME FInv, NEW s \in Mine, ~Idle(s), NEW x \in Mine, x # s
  PROVE  Idle(x)
BY RunNames DEF FInv, FirstAlone, OneAtATime

LEMMA RunKeepsNewest ==
  ASSUME FInv, NEW s \in Runs, RunSync(s)
  PROVE  Newest' /\ (fold["manual"].pc = "idle" => \A p \in Profiles : target'[p] # target[p] =>
                       target[p] \in {Own, Absent} \/ target'[p] > target[p])
<1>0. TypeOK
  BY DEF FInv
<1>1. PICK at \in Progress : Advance(s, at) /\ at.version = Loaded(s)
  BY <1>0, RunAdvances DEF Advances
<1>2. /\ ~Idle(s) /\ config' = config /\ fold'[s] = at
      /\ \A x \in Runs \ {s} : fold'[x] = fold[x]
  BY <1>0, <1>1, RunAdvances DEF Advance, TypeOK
<1>3. CASE s = "manual"
  <2>1. fold["manual"].pc # "idle" /\ fold'["manual"].pc # "idle"
    BY <1>1, <1>2, <1>3 DEF Idle, Advance, Ended
  <2>. QED  BY <2>1 DEF Newest
<1>4. CASE s # "manual"
  <2> SUFFICES ASSUME fold["manual"].pc = "idle"
               PROVE  /\ NoNewer(config.version)'
                      /\ \A x \in Mine : fold'[x].pc \in Working => UpTo(x)'
                      /\ \A p \in Profiles : target'[p] # target[p] =>
                           target[p] \in {Own, Absent} \/ target'[p] > target[p]
    BY <1>2, <1>4, RunNames DEF Newest
  <2>1. s \in Mine
    BY <1>4, RunNames
  <2>2. \A x \in Mine : x # s => fold'[x].pc \notin Working
    BY <1>2, <2>1, OneWorks, RunNames DEF Idle, Working
  <2>3. /\ NoNewer(config.version)
        /\ config.version \in Versions /\ Versions \subseteq Nat
        /\ \A p \in Profiles : target[p] \in Versions \cup {Own, Absent}
    BY <1>0 DEF FInv, Newest, TypeOK, Versions, Content
  <2>4. at.version \in Versions /\ at.version <= config.version /\ NoNewer(at.version)
    <3>1. CASE fold[s].pc = "load"
      <4>1. at.version = config.version
        BY <1>1, <3>1 DEF Loaded
      <4>2. config.version \in Nat
        BY <2>3
      <4>3. \A n \in Nat : n <= n
        OBVIOUS
      <4>. QED  BY <2>3, <4>1, <4>2, <4>3
    <3>2. CASE fold[s].pc \in Working
      BY <1>1, <2>1, <3>2 DEF Loaded, FInv, Newest, UpTo, Working
    <3>3. fold[s].pc \in {"load"} \cup Working
      BY <1>0, <1>2 DEF TypeOK, Idle, Working
    <3>. QED  BY <3>1, <3>2, <3>3
  <2>5. CASE UNCHANGED target
    <3>1. UpTo(s)'
      BY <1>2, <2>4, <2>5 DEF UpTo, NoNewer
    <3>2. NoNewer(config.version)'
      BY <1>2, <2>3, <2>5 DEF NoNewer
    <3>. QED  BY <2>2, <2>5, <3>1, <3>2
  <2>6. CASE Write(s)
    <3> DEFINE q == fold[s].profile
    <3>1. target' = [target EXCEPT ![q] = fold[s].version] /\ fold[s].pc = "write"
      BY <2>6 DEF Write
    <3>2. fold[s].version = at.version
      BY <1>1, <3>1 DEF Loaded
    <3>3. \A p \in Profiles : target'[p] = target[p] \/ (p = q /\ target'[p] = at.version)
      BY <1>0, <3>1, <3>2 DEF TypeOK
    <3> HIDE DEF q
    <3> DEFINE v == at.version
               c == config.version
    <3>0. v \in Nat /\ c \in Nat /\ v <= c /\ v \in Versions
      BY <2>3, <2>4
    <3>a. \A p \in Profiles : target[p] \in {Own, Absent} \/ (target[p] \in Nat /\ target[p] <= v)
      BY <2>3, <2>4 DEF NoNewer
    <3>b. fold'[s].version = v /\ config'.version = c
      BY <1>2
    <3> HIDE DEF v, c
    <3>c. \A p \in Profiles : target'[p] = target[p] \/ target'[p] = v
      BY <3>3 DEF v
    <3>d. ASSUME NEW p \in Profiles
          PROVE  target'[p] \in {Own, Absent} \/ (target'[p] <= v /\ target'[p] <= c)
      <4>1. CASE target'[p] = v
        BY <3>0, <4>1
      <4>2. CASE target'[p] = target[p]
        BY <3>0, <3>a, <4>2
      <4>. QED  BY <3>c, <4>1, <4>2
    <3>4. UpTo(s)' /\ NoNewer(config.version)'
      BY <3>0, <3>b, <3>d DEF UpTo, NoNewer
    <3>5. \A p \in Profiles : target'[p] # target[p] =>
            target[p] \in {Own, Absent} \/ target'[p] > target[p]
      BY <3>0, <3>a, <3>c
    <3>. QED  BY <2>2, <3>4, <3>5
  <2>7. UNCHANGED target \/ Write(s)
    BY <1>0, RunFiles DEF Backup
  <2>. QED  BY <2>5, <2>6, <2>7
<1>. QED  BY <1>3, <1>4

LEMMA StepFInv ==
  ASSUME EditsFrom = "folded", FInv, [Next]_vars
  PROVE  /\ FInv'
         /\ \A p \in Profiles : target'[p] # target[p] =>
              \/ target[p] \in {Own, Absent}
              \/ target'[p] > target[p]
              \/ fold["manual"].pc # "idle"
<1>0. TypeOK /\ OneAtATime /\ TypeOK' /\ OneAtATime'
  BY StepTypeOK, StepOneAtATime DEF FInv
<1>1. ASSUME NEW s \in Runs, RunSync(s)
      PROVE  /\ FirstAlone' /\ Newest'
             /\ fold["manual"].pc = "idle" => \A p \in Profiles : target'[p] # target[p] =>
                       target[p] \in {Own, Absent} \/ target'[p] > target[p]
  BY <1>1, RunKeepsFirstAlone, RunKeepsNewest
<1>2. CASE \A s \in Runs : ~RunSync(s)
  <2>1. UNCHANGED target /\ \A s \in Runs : fold'[s] = fold[s] \/ fold'[s] = Loading
    BY <1>0, <1>2, OthersKeepFiles
  <2>2. config' = config \/ (config' \in [version : Nat, ok : BOOLEAN] /\ config'.version = config.version + 1)
    <3>1. ASSUME NEW ok \in BOOLEAN, EditConfig(ok)
          PROVE  config'.version = config.version + 1 /\ config' \in [version : Nat, ok : BOOLEAN]
      BY <1>0, <3>1 DEF EditConfig, TypeOK, Versions
    <3>. QED  BY <1>2, <3>1, RunNames DEF Next, WatcherStep, Attach, DeliverEvent, Fire, Stop,
                                      SyncByHand, files, vars
  <2>3. /\ config.version \in Nat /\ config'.version \in Nat /\ config.version <= config'.version
        /\ \A p \in Profiles : target[p] \in Nat \cup {Own, Absent}
    BY <1>0, <2>2 DEF TypeOK, Versions, Content
  <2>4. Newest'
    <3> SUFFICES ASSUME fold'["manual"].pc = "idle"
                 PROVE  NoNewer(config.version)'
                        /\ \A s \in Mine : fold'[s].pc \in Working => UpTo(s)'
      BY DEF Newest
    <3>1. fold["manual"].pc = "idle"
      BY <2>1, LoadingType, RunNames
    <3>2. NoNewer(config.version) /\ \A s \in Mine : fold[s].pc \in Working => UpTo(s)
      BY <3>1 DEF FInv, Newest
    <3>3. NoNewer(config.version)'
      BY <2>1, <2>3, <3>2 DEF NoNewer
    <3>4. ASSUME NEW s \in Mine, fold'[s].pc \in Working
          PROVE  UpTo(s)'
      <4>1. fold'[s] = fold[s] /\ UpTo(s)
        BY <2>1, <3>2, <3>4, LoadingType, RunNames DEF Working
      <4>. QED  BY <2>1, <2>3, <4>1 DEF UpTo, NoNewer, Versions
    <3>. QED  BY <3>3, <3>4
  <2>5. FirstAlone'
    <3> USE RunNames
    <3>1. CASE Attach \/ DeliverEvent \/ Stop
      BY <3>1 DEF Attach, DeliverEvent, Stop, FInv, FirstAlone, Idle, debounce
    <3>2. CASE Fire
      <4>1. Idle("initial") /\ fold'["initial"] = fold["initial"]
        BY <1>0, <3>2 DEF Fire, FInv, FirstAlone, TypeOK
      <4>. QED  BY <4>1 DEF FirstAlone, Idle
    <3>3. ASSUME NEW ok \in BOOLEAN, EditConfig(ok)
          PROVE  FirstAlone'
      BY <3>3 DEF EditConfig, FirstAlone, Idle
    <3>4. CASE SyncByHand
      <4>1. UNCHANGED <<event, timer>> /\ \A x \in Mine : fold'[x] = fold[x]
        BY <1>0, <3>4 DEF SyncByHand, debounce, TypeOK
      <4>. QED  BY <4>1 DEF FInv, FirstAlone, Idle
    <3>5. CASE UNCHANGED vars
      BY <3>5 DEF vars, debounce, FInv, FirstAlone, Idle
    <3>. QED  BY <1>2, <3>1, <3>2, <3>3, <3>4, <3>5 DEF Next, WatcherStep
  <2>. QED  BY <1>0, <2>1, <2>4, <2>5 DEF FInv
<1>. QED  BY <1>0, <1>1, <1>2 DEF FInv

(* When no edit comes before the first fold has ended, the watcher takes   *)
(* no client file back to an older config, whatever its providers do, as   *)
(* long as nobody syncs by hand.                                           *)
THEOREM FilesGoForward == ASSUME EditsFrom = "folded" PROVE Spec => OnlyForward
<1>1. FInv /\ [Next]_vars => FInv'
  BY StepFInv
<1>2. FInv /\ [Next]_vars =>
        [\A p \in Profiles : target'[p] # target[p] =>
           \/ target[p] \in {Own, Absent}
           \/ target'[p] > target[p]
           \/ fold["manual"].pc # "idle"]_vars
  BY StepFInv
<1>. QED  BY <1>1, <1>2, InitFInv, PTL DEF Spec, OnlyForward

=============================================================================
