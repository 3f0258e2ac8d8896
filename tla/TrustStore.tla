------------------------------ MODULE TrustStore ------------------------------
(***************************************************************************)
(* Trust on first use: the per-machine store trust.json (cli/src/trust/    *)
(* tofu.ts), shared without a lock by the commands that read and write it: *)
(* `run` (commands/run.ts), `trust` (commands/trust.ts) and `pull`         *)
(* (commands/pull.ts).  Each command is a process of its own.  A change of *)
(* the store reads the whole file, changes the copy, and writes it back    *)
(* with writeFileSync, which truncates the file before it fills it; a      *)
(* reader that finds it truncated takes it for an empty store.             *)
(*                                                                         *)
(* An entry stands for what executableSignature hashes (command, args, pin *)
(* and env), or for a remote server, which has no such surface.            *)
(***************************************************************************)
EXTENDS FiniteSets, Naturals

CONSTANTS
  Procs,     \* one process for each command the user runs
  Servers,   \* the names of servers
  Entries,   \* what a name may stand for in the config
  Local,     \* those that are executable: stdio with a command
  Surfaces,  \* tool surfaces, as a probe reports them
  Denied,    \* <<name, entry>> pairs the org policy denies
  None,      \* no entry, no surface
  Initial,   \* the configs to start from
  Remotes,   \* those the cloud may hold
  MaxEdits   \* how often the user edits the config

Configs == [Servers -> Entries \cup {None}]

ASSUME StoreAssumption ==
  /\ Initial \cup Remotes \subseteq Configs
  /\ Local \subseteq Entries
  /\ None \notin Entries \cup Surfaces
  /\ Servers # {} /\ Surfaces # {}
  /\ MaxEdits \in Nat

VARIABLES
  config,    \* mcp.config.jsonc: what each name stands for
  edits,
  file,      \* trust.json
  pc,        \* per process: the next step of its command
  name,      \* per process: the server its command names
  text,      \* per process: the config it has read, or pulled
  todo,      \* per process: the servers it is still to approve
  tools,     \* per process: --tools was given
  copy,      \* per process: the store in memory, between read and write
  launched,  \* what `run` has started, and the tools it pinned
  consented, \* history: the pairs a user asked to trust
  kept,      \* history: the store, had every change been atomic
  raced      \* history: changes overlapped, or one was cut short

store   == <<file, copy, kept, raced>>
command == <<pc, name, text, todo, tools>>
vars    == <<config, edits, store, command, launched, consented>>

Stores  == [entries : [Servers -> Entries \cup {None}],
            tools : [Servers -> Surfaces \cup {None}]]
Empty   == [entries |-> [s \in Servers |-> None], tools |-> [s \in Servers |-> None]]

(* Mutant of Executable: isExecutable takes any entry for a local command.  *)
ExecutableAll(c) == {s \in Servers : c[s] # None}

Executable(c) == {s \in Servers : c[s] \in Local}

(* Every executable server of a config whose surface is not trusted.       *)
Untrusted(c) == {s \in Executable(c) : file.entries[s] # c[s]}

Writing == {"fill", "fillPin"}               \* the file is truncated
Changing == {"open", "openPin"} \cup Writing \* a copy of it is in memory
Steps == {"idle", "gate", "secrets", "apply", "approve", "probe", "pin", "done"}
           \cup Changing

Goto(p, step) == pc' = [pc EXCEPT ![p] = step]

-----------------------------------------------------------------------------
(* read, change, write: approve and approveTools each start from a fresh    *)
(* read and change the copy.                                                *)

(* Mutant of Approve: the rewritten store holds the entries only.           *)
ApproveForgetful(f, s, e) == [Empty EXCEPT !.entries = [f.entries EXCEPT ![s] = e]]

Approve(f, s, e) == [f EXCEPT !.entries[s] = e]
ApproveTools(f, s, t) == [f EXCEPT !.tools[s] = t]

ReadStore(p, changed, step) ==
  /\ copy' = [copy EXCEPT ![p] = changed]
  /\ raced' = (raced \/ \E q \in Procs : pc[q] \in Changing)
  /\ Goto(p, step)
  /\ UNCHANGED <<config, edits, file, kept, text, launched, consented>>

ReadToApprove(p) ==
  /\ pc[p] = "approve"
  /\ \E s \in todo[p] :
       /\ ReadStore(p, Approve(file, s, text[p][s]), "open")
       /\ name' = [name EXCEPT ![p] = s]
  /\ UNCHANGED <<todo, tools>>

ReadToPin(p) ==
  /\ pc[p] = "pin"
  /\ \E t \in Surfaces : ReadStore(p, ApproveTools(file, name[p], t), "openPin")
  /\ UNCHANGED <<name, todo, tools>>

(* writeFileSync: the open truncates,                                      *)
OpenToWrite(p) ==
  /\ pc[p] \in {"open", "openPin"}
  /\ file' = Empty
  /\ Goto(p, IF pc[p] = "open" THEN "fill" ELSE "fillPin")
  /\ UNCHANGED <<config, edits, copy, kept, raced, name, text, todo, tools, launched, consented>>

(* the write fills, and the command goes on to its next approval.          *)
FillApproval(p) ==
  /\ pc[p] = "fill"
  /\ file' = copy[p]
  /\ kept' = [kept EXCEPT !.entries[name[p]] = text[p][name[p]]]
  /\ todo' = [todo EXCEPT ![p] = @ \ {name[p]}]
  /\ \/ todo'[p] # {} /\ Goto(p, "approve")
     \/ todo'[p] = {} /\ Goto(p, IF tools[p] THEN "probe" ELSE "done")
  /\ UNCHANGED <<config, edits, copy, raced, name, text, tools, launched, consented>>

FillPin(p) ==
  /\ pc[p] = "fillPin"
  /\ file' = copy[p]
  /\ kept' = [kept EXCEPT !.tools[name[p]] = copy[p].tools[name[p]]]
  /\ Goto(p, "done")
  /\ UNCHANGED <<config, edits, copy, raced, name, text, todo, tools, launched, consented>>

-----------------------------------------------------------------------------
(* mcpfold trust *)

(* A named server is approved first, its tools are probed then; without a  *)
(* name every untrusted server is approved, each by a change of its own.   *)
Trust(p, s) ==
  /\ pc[p] = "idle"
  /\ config[s] # None
  /\ \E given \in BOOLEAN : tools' = [tools EXCEPT ![p] = given]
  /\ name' = [name EXCEPT ![p] = s]
  /\ text' = [text EXCEPT ![p] = config]
  /\ \/ /\ config[s] \in Local
        /\ todo' = [todo EXCEPT ![p] = {s}]
        /\ consented' = consented \cup {<<s, config[s]>>}
        /\ Goto(p, "approve")
     \/ /\ config[s] \notin Local   \* a remote server has tools to pin, no command
        /\ tools'[p]
        /\ Goto(p, "probe")
        /\ UNCHANGED <<todo, consented>>
  /\ UNCHANGED <<config, edits, store, launched>>

TrustAll(p) ==
  /\ pc[p] = "idle"
  /\ Untrusted(config) # {}
  /\ text' = [text EXCEPT ![p] = config]
  /\ todo' = [todo EXCEPT ![p] = Untrusted(config)]
  /\ consented' = consented \cup {<<s, config[s]>> : s \in Executable(config)}
  /\ Goto(p, "approve")
  /\ UNCHANGED <<config, edits, store, name, tools, launched>>

(* The probe resolves secrets and opens a session: it is slow and may fail, *)
(* after the approval of the launch command was written.                    *)
Probe(p) ==
  /\ pc[p] = "probe"
  /\ \E step \in {"pin", "done"} : Goto(p, step)
  /\ UNCHANGED <<config, edits, store, name, text, todo, tools, launched, consented>>

-----------------------------------------------------------------------------
(* mcpfold run *)

Load(p, s) ==
  /\ pc[p] = "idle"
  /\ config[s] # None
  /\ <<s, config[s]>> \notin Denied
  /\ name' = [name EXCEPT ![p] = s]
  /\ text' = [text EXCEPT ![p] = config]
  /\ Goto(p, IF config[s] \in Local THEN "gate" ELSE "secrets")
  /\ UNCHANGED <<config, edits, store, todo, tools, launched, consented>>

Gate(p) ==
  /\ pc[p] = "gate"
  /\ LET s == name[p]
     IN  Goto(p, IF file.entries[s] = text[p][s] THEN "secrets" ELSE "done")
  /\ UNCHANGED <<config, edits, store, name, text, todo, tools, launched, consented>>

(* Resolving a secret that is missing ends the run.                        *)
SecretMissing(p) ==
  /\ pc[p] = "secrets"
  /\ Goto(p, "done")
  /\ UNCHANGED <<config, edits, store, name, text, todo, tools, launched, consented>>

(* Only once the secrets are there is the pinned surface read, afresh.     *)
Launch(p) ==
  /\ pc[p] = "secrets"
  /\ LET s == name[p]
     IN  launched' = launched \cup {[server |-> s, entry |-> text[p][s],
                                     tools |-> file.tools[s], due |-> kept.tools[s]]}
  /\ raced' = (raced \/ \E q \in Procs : pc[q] \in Writing)
  /\ Goto(p, "done")
  /\ UNCHANGED <<config, edits, file, copy, kept, name, text, todo, tools, consented>>

-----------------------------------------------------------------------------
(* mcpfold pull *)

(* What the version-integrity check makes of a pulled config.              *)
Verified(key, sig) == key /\ sig = "valid"
Tampered(key, sig) == key /\ sig = "invalid"

(* Mutant of Refused: --yes is taken for --allow-unsigned as well.          *)
RefusedUnlessYes(remote, key, sig, yes, allowUnsigned) ==
  Tampered(key, sig) \/ remote = config \/ ~yes

(* The order of the refusals: tampered, no drift, no --yes, unverified.    *)
Refused(remote, key, sig, yes, allowUnsigned) ==
  \/ Tampered(key, sig)
  \/ remote = config
  \/ ~yes
  \/ ~Verified(key, sig) /\ ~allowUnsigned

(* The user consents to a pulled config by --yes, to an unverifiable one   *)
(* by --allow-unsigned as well, and never to one that was tampered with.   *)
Consents(key, sig, yes, allowUnsigned) ==
  yes /\ IF key /\ sig # "none" THEN sig = "valid" ELSE allowUnsigned

Pull(p, remote) ==
  \E key, yes, allowUnsigned \in BOOLEAN, sig \in {"none", "valid", "invalid"} :
    /\ pc[p] = "idle"
    /\ consented' = consented \cup
         {<<s, remote[s]>> : s \in IF Consents(key, sig, yes, allowUnsigned)
                                   THEN Executable(remote) ELSE {}}
    /\ IF Refused(remote, key, sig, yes, allowUnsigned)
       THEN Goto(p, "done") /\ UNCHANGED <<text, todo>>
       ELSE /\ text' = [text EXCEPT ![p] = remote]
            /\ todo' = [todo EXCEPT ![p] = Untrusted(remote)]
            /\ Goto(p, "apply")
    /\ UNCHANGED <<config, edits, store, name, tools, launched>>

(* Backup and atomicWrite, then the approvals.                             *)
Apply(p) ==
  /\ pc[p] = "apply"
  /\ config' = text[p]
  /\ Goto(p, IF todo[p] = {} THEN "done" ELSE "approve")
  /\ UNCHANGED <<edits, store, name, text, todo, tools, launched, consented>>

-----------------------------------------------------------------------------
(* The user edits the config (or has add, import or init write it); a      *)
(* command is killed.                                                      *)
Edit(s, e) ==
  /\ edits < MaxEdits
  /\ config[s] # e
  /\ edits' = edits + 1
  /\ config' = [config EXCEPT ![s] = e]
  /\ UNCHANGED <<store, command, launched, consented>>

Crash(p) ==
  /\ pc[p] \notin {"idle", "done"}
  /\ raced' = (raced \/ pc[p] \in Writing)
  /\ Goto(p, "done")
  /\ UNCHANGED <<config, edits, file, copy, kept, name, text, todo, tools, launched, consented>>

Init ==
  /\ config \in Initial
  /\ edits = 0
  /\ file \in {Empty, [entries |-> [s \in Servers |-> IF config[s] \in Local THEN config[s] ELSE None],
                       tools |-> [s \in Servers |-> CHOOSE t \in Surfaces : TRUE]]}
  /\ pc = [p \in Procs |-> "idle"]
  /\ name = [p \in Procs |-> CHOOSE s \in Servers : TRUE]
  /\ text = [p \in Procs |-> config]
  /\ todo = [p \in Procs |-> {}]
  /\ tools = [p \in Procs |-> FALSE]
  /\ copy = [p \in Procs |-> Empty]
  /\ launched = {}
  /\ consented = {<<s, file.entries[s]>> : s \in {t \in Servers : file.entries[t] # None}}
  /\ kept = file
  /\ raced = FALSE

Next ==
  \/ \E p \in Procs :
       \/ \E s \in Servers : Trust(p, s) \/ Load(p, s)
       \/ \E remote \in Remotes : Pull(p, remote)
       \/ TrustAll(p) \/ Probe(p) \/ ReadToApprove(p) \/ ReadToPin(p) \/ OpenToWrite(p)
       \/ FillApproval(p) \/ FillPin(p) \/ Gate(p) \/ SecretMissing(p) \/ Launch(p)
       \/ Apply(p) \/ Crash(p)
  \/ \E s \in Servers, e \in Entries : Edit(s, e)

Spec == Init /\ [][Next]_vars

-----------------------------------------------------------------------------
(* Properties *)

TypeOK ==
  /\ config \in Configs
  /\ edits \in 0..MaxEdits
  /\ file \in Stores
  /\ kept \in Stores
  /\ copy \in [Procs -> Stores]
  /\ pc \in [Procs -> Steps]
  /\ name \in [Procs -> Servers]
  /\ text \in [Procs -> Configs]
  /\ todo \in [Procs -> SUBSET Servers]
  /\ tools \in [Procs -> BOOLEAN]
  /\ launched \subseteq [server : Servers, entry : Entries,
                          tools : Surfaces \cup {None}, due : Surfaces \cup {None}]
  /\ consented \subseteq Servers \X Local
  /\ raced \in BOOLEAN

(* Whatever changes of the store overlap, are cut short or read a file     *)
(* half written, and whatever becomes of the config meanwhile: the store   *)
(* and every copy of it hold nothing a user did not ask to trust, and      *)
(* `run` has launched no local command that was not asked for under this   *)
(* name, and nothing the policy denies.                                    *)
Consented(f) == \A s \in Servers : f.entries[s] # None => <<s, f.entries[s]>> \in consented

OnlyConsented ==
  /\ Consented(file)
  /\ \A p \in Procs : Consented(copy[p])
  /\ \A l \in launched : /\ <<l.server, l.entry>> \notin Denied
                          /\ l.entry \in Local => <<l.server, l.entry>> \in consented

(* While changes neither overlap nor are cut short, the store is what the  *)
(* approvals made it, one after the other: none loses another's, an        *)
(* approval of a command keeps the pinned tools; and `run` enforces what   *)
(* was pinned when it launched.                                            *)
ChangesKept ==
  ~raced => /\ \/ file = kept
               \/ \E p \in Procs : pc[p] \in Writing
            /\ \A l \in launched : l.tools = l.due

=============================================================================
