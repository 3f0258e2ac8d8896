------------------------------- MODULE AuditLog -------------------------------
(***************************************************************************)
(* The audit log on disk: the file sink of proxy/src/audit.ts, one in each *)
(* `mcpfold run`, all appending to one path; its rotation; and the reader  *)
(* of cli/src/util/audit-log.ts, which `curate`, `status` and `doctor` use *)
(* while proxies go on writing.                                            *)
(*                                                                         *)
(* A file is known by a number, as an inode is: whoever holds it open goes *)
(* on writing to it after a rename.  Lines have one size, and an event is  *)
(* named by its writer and its place among the writer's events.            *)
(***************************************************************************)
EXTENDS Naturals, Integers, FiniteSets, FiniteSetsExt

CONSTANTS
  Writers,    \* the proxies that share the log
  MaxLines,   \* maxBytes, in lines
  MaxEvents,  \* events per writer
  MaxCrashes  \* proxies killed, in all

ASSUME LogAssumption ==
  /\ IsFiniteSet(Writers)
  /\ MaxLines \in Nat \ {0}
  /\ MaxEvents \in Nat
  /\ MaxCrashes \in Nat
  /\ "none" \notin Writers

VARIABLES
  lines,    \* the events in each file, by number
  primary,  \* the file under the log's own name, 0 if there is none
  pc,       \* per writer: the next step of its sink
  bytes,    \* per writer: the running counter, -1 until it is seeded
  fd,       \* per writer: the file it has open
  next,     \* per writer: the event it is at
  crashes,
  dropped,  \* history: events the sink gave up
  rotator,  \* history: the writer that renamed the log last
  reader,   \* the reader's next step
  listed,   \* the rotated files its scan of the directory found
  found,    \* and whether it found the log itself
  read,     \* the events it has read
  due,      \* history: the events on disk when it scanned
  moved     \* history: the log was renamed since

disk    == <<lines, primary>>
sinks   == <<pc, bytes, fd, next, crashes, dropped, rotator>>
reading == <<reader, listed, found, read, due>>
vars    == <<disk, sinks, reading, moved>>

Events == Writers \X (1..MaxEvents)
Files  == 1..(Cardinality(Events) + 1)
Rotated == {f \in DOMAIN lines : f # primary}
OnDisk == UNION {lines[f] : f \in DOMAIN lines}
Event(w) == <<w, next[w]>>
Size(f) == Cardinality(lines[f])

Goto(w, step) == pc' = [pc EXCEPT ![w] = step]

-----------------------------------------------------------------------------
(* The sink *)

(* Mutant of MustRotate: one line over the cap.                            *)
MustRotateLate(count) == count > MaxLines

MustRotate(count) == count >= MaxLines

(* Mutant of Seed: a log that is not there is taken for a full one.        *)
SeedFull == IF primary = 0 THEN MaxLines ELSE Size(primary)

Seed == IF primary = 0 THEN 0 ELSE Size(primary)

(* The counter is seeded from the log's size once, and only counts what    *)
(* this process appends from then on.                                      *)
Record(w) ==
  /\ pc[w] = "idle"
  /\ next[w] <= MaxEvents
  /\ bytes' = [bytes EXCEPT ![w] = IF @ < 0 THEN Seed ELSE @]
  /\ Goto(w, IF MustRotate(bytes'[w]) THEN "rename" ELSE "open")
  /\ UNCHANGED <<disk, fd, next, crashes, dropped, rotator, reading, moved>>

(* Mutant of Renamed: rotation always renames to `<path>.1`.               *)
RenamedToOne ==
  /\ lines' = [f \in (DOMAIN lines) \ Rotated |-> lines[f]]
  /\ primary' = 0

(* The rotated log gets a name of its own.                                 *)
Renamed == primary' = 0 /\ UNCHANGED lines

Rename(w) ==
  /\ pc[w] = "rename"
  /\ primary # 0
  /\ Renamed
  /\ rotator' = w
  /\ bytes' = [bytes EXCEPT ![w] = 0]
  /\ Goto(w, "open")
  /\ moved' = TRUE
  /\ UNCHANGED <<fd, next, crashes, dropped, reading>>

(* Another process has renamed the log and not opened a new one yet: the   *)
(* rename throws, the event is swallowed, and the counter stays where it   *)
(* is, so that the next event tries to rename again.                       *)
RenameFails(w) ==
  /\ pc[w] = "rename"
  /\ primary = 0
  /\ dropped' = dropped \cup {Event(w)}
  /\ next' = [next EXCEPT ![w] = @ + 1]
  /\ Goto(w, "idle")
  /\ UNCHANGED <<disk, bytes, fd, crashes, rotator, reading, moved>>

(* appendFileSync: open, creating the log if need be,                      *)
Open(w) ==
  /\ pc[w] = "open"
  /\ \E new \in Files :
       /\ new = 1 + Max({0} \cup DOMAIN lines)
       /\ primary' = IF primary = 0 THEN new ELSE primary
  /\ lines' = [f \in DOMAIN lines \cup {primary'} |-> IF f \in DOMAIN lines THEN lines[f] ELSE {}]
  /\ fd' = [fd EXCEPT ![w] = primary']
  /\ Goto(w, "write")
  /\ UNCHANGED <<bytes, next, crashes, dropped, rotator, reading, moved>>

(* and write at the end of whatever file that has become.                  *)
Write(w) ==
  /\ pc[w] = "write"
  /\ lines' = [lines EXCEPT ![fd[w]] = @ \cup {Event(w)}]
  /\ bytes' = [bytes EXCEPT ![w] = @ + 1]
  /\ next' = [next EXCEPT ![w] = @ + 1]
  /\ Goto(w, "idle")
  /\ UNCHANGED <<primary, fd, crashes, dropped, rotator, reading, moved>>

(* The proxy is killed; the next session of its server has a fresh sink.   *)
Crash(w) ==
  /\ crashes < MaxCrashes
  /\ crashes' = crashes + 1
  /\ bytes' = [bytes EXCEPT ![w] = -1]
  /\ dropped' = dropped \cup IF pc[w] = "idle" THEN {} ELSE {Event(w)}
  /\ next' = [next EXCEPT ![w] = IF pc[w] = "idle" THEN @ ELSE @ + 1]
  /\ Goto(w, "idle")
  /\ UNCHANGED <<disk, fd, rotator, reading, moved>>

-----------------------------------------------------------------------------
(* The reader: scan the directory, then read by name, the log first.       *)

(* Mutant of Siblings: only the primary is read.                           *)
NoSiblings == {}

Siblings == Rotated

Scan ==
  /\ reader = "idle"
  /\ listed' = Siblings
  /\ found' = (primary # 0)
  /\ due' = OnDisk
  /\ moved' = FALSE
  /\ reader' = "primary"
  /\ UNCHANGED <<disk, sinks, read>>

(* A name that is gone by now is skipped.                                  *)
ReadPrimary ==
  /\ reader = "primary"
  /\ read' = IF found /\ primary # 0 THEN lines[primary] ELSE {}
  /\ reader' = "siblings"
  /\ UNCHANGED <<disk, sinks, listed, found, due, moved>>

ReadSibling ==
  /\ reader = "siblings"
  /\ listed # {}
  /\ \E f \in listed :
       /\ read' = read \cup (IF f \in DOMAIN lines THEN lines[f] ELSE {})
       /\ listed' = listed \ {f}
  /\ UNCHANGED <<disk, sinks, reader, found, due, moved>>

ReadDone ==
  /\ reader = "siblings"
  /\ listed = {}
  /\ reader' = "done"
  /\ UNCHANGED <<disk, sinks, listed, found, read, due, moved>>

Init ==
  /\ lines = [f \in {} |-> {}]
  /\ primary = 0
  /\ pc = [w \in Writers |-> "idle"]
  /\ bytes = [w \in Writers |-> -1]
  /\ fd = [w \in Writers |-> 0]
  /\ next = [w \in Writers |-> 1]
  /\ crashes = 0
  /\ dropped = {}
  /\ rotator = "none"
  /\ reader = "idle"
  /\ listed = {} /\ read = {} /\ due = {}
  /\ found = FALSE /\ moved = FALSE

Next ==
  \/ \E w \in Writers : \/ Record(w) \/ Rename(w) \/ RenameFails(w)
                        \/ Open(w) \/ Write(w) \/ Crash(w)
  \/ Scan \/ ReadPrimary \/ ReadSibling \/ ReadDone

Spec == Init /\ [][Next]_vars

-----------------------------------------------------------------------------
(* Properties *)

TypeOK ==
  /\ DOMAIN lines \subseteq Files /\ \A f \in DOMAIN lines : lines[f] \subseteq Events
  /\ primary \in {0} \cup DOMAIN lines
  /\ pc \in [Writers -> {"idle", "rename", "open", "write"}]
  /\ bytes \in [Writers -> Nat \cup {-1}]
  /\ fd \in [Writers -> {0} \cup Files]
  /\ next \in [Writers -> 1..(MaxEvents + 1)]
  /\ crashes \in 0..MaxCrashes
  /\ dropped \subseteq Events /\ read \subseteq Events /\ due \subseteq Events
  /\ rotator \in Writers \cup {"none"}
  /\ reader \in {"idle", "primary", "siblings", "done"}
  /\ listed \subseteq Files
  /\ found \in BOOLEAN /\ moved \in BOOLEAN

(* Every event a sink is done with is in exactly one file, or was given up *)
(* and is in none: no rotation, of this process or another, takes away     *)
(* what was recorded.                                                      *)
KeptOnce ==
  \A w \in Writers, n \in 1..MaxEvents :
    n < next[w] =>
      Cardinality({f \in DOMAIN lines : <<w, n>> \in lines[f]}) =
        IF <<w, n>> \in dropped THEN 0 ELSE 1

(* A sink that lives gives up an event only because another process has    *)
(* just renamed the log: one that has it to itself records all.            *)
DropsNeedRival == [][\A w \in Writers : RenameFails(w) => rotator \notin {w, "none"}]_vars

(* Counting on their own, the sinks may overrun the cap, but no file grows *)
(* past the cap once for each of them.                                     *)
Overrun == \A f \in DOMAIN lines : Size(f) <= Cardinality(Writers) * MaxLines

(* A reader during whose work the log is not rotated reads all that was on *)
(* disk when it started.                                                   *)
ReadsAll == reader = "done" /\ ~moved => due \subseteq read

=============================================================================
