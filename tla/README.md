# MCPFold: a formal model

MCPFold keeps one canonical MCP configuration (`mcp.config.jsonc`), folds it out to the
config files of some eighteen MCP clients, launches MCP servers behind a curating proxy
with their secrets injected, and syncs configs through a small cloud service.
This directory holds TLA+ modules that model its concurrent and stateful parts, TLC
configurations that check them on small instances, and proofs that TLAPS checks.

    tlc -workers 2 -config MCProxy.cfg MCProxy.tla      # a run
    tlapm ProxyProofs.tla                               # the proofs

`PROJECT.json` lists the components, the runs, the source lines each definition stands
for, the hazards each property is for, and for every property a plausible bug (a
`Mutant:` operator beside the real one) that makes it fail.

## 1. Inventory

Paths are under `src/`; `proxy`, `cli`, `secrets`, `core`, `adapters` are in `src/packages`.

| Component | State it keeps | Operations | Hard behaviour | What makes it correct |
|---|---|---|---|---|
| **Curating proxy** `proxy/src/{proxy,filter,tool-digest,audit}.ts` | ids of listings in flight, the audit recorder's in-flight calls | `client.onMessage`, `server.onMessage` | answers in any order, two id spaces in one set, calls without an id, a capped map | listings filtered and pinned; filtered calls never served; bookkeeping exact; each request answered once |
| **Sync and watch** `cli/src/commands/sync.ts`, `io/{watch,backup,atomic-write}.ts`, `sync/strategy.ts` | timer, running, pending, stopped; the client files and backups | `runSyncWatch`, `runSync`, `fire`, `schedule`, `stop` | edits during a fold, broken saves, slow secret providers, a second process | no edit forgotten, folds do not overlap, the user's file recoverable, files catch up |
| **Launch and teardown** `cli/src/commands/run.ts`, `proxy/src/transport/stdio.ts` | the child process, two pipes, `closed` | gate, spawn, forward a signal, EOF, exit | exit before the last output, half-closed pipes, a server that ignores signals | gates before the spawn; messages whole and in order; no process left behind |
| **Audit file sink** `proxy/src/audit.ts`, `cli/src/util/audit-log.ts` | a byte count per process, the log and its rotated files | append, rotate; scan and read | proxies that share the file, one killed, a reader meanwhile | each event in one file or knowingly given up; a reader misses nothing unless the log is rotated under it |
| **Trust on first use** `cli/src/trust/tofu.ts`, `commands/{trust,run,pull}.ts` | the trust file | approve, pin, gate a launch, trust what was pulled | read-modify-write by several processes, a truncating write, kills | nothing is trusted or launched that nobody asked for; approvals that do not overlap are kept |
| **Secret resolution** `secrets/src/{resolver,exec}.ts` | memo, timers, the provider's child | resolve, time out, abort, kill | timeout racing an answer, a provider that ignores SIGTERM | fail closed; nothing left running |
| **Handshake probe** `proxy/src/handshake.ts`, `cli/src/util/mcp-transport.ts`, `commands/test.ts` | pending requests with timers, the spawned server | initialize, list, close | answers late, twice or unasked; servers that never end | what is reported is the server's own listing; the command ends |
| **Cloud sessions** `services/edge/lib/device.ts`, `edge/src/session.ts`, `cli/src/cloud/session.ts` | device codes, token families, the CLI's saved session | start, approve, poll, refresh, revoke | concurrent refreshes, lost answers, a crash between claim and insert | one session per code; a stolen token revokes its family; an honest client stays logged in |
| **Cloud configs** `services/edge/functions/{push,pull,account}`, `cli/src/commands/{push,pull}.ts`, migrations | config versions, signatures | push, pull, delete the account | concurrent pushes, unsigned or forged versions | versions distinct and ordered; nothing unverified is written unasked |
| **Teams and billing** `services/edge/functions/{teams,billing}` | invites, members, event ledger, entitlements | invite, redeem, webhook | partial failure between two statements, events out of order | one membership per invite; the entitlement follows the last event |
| **Fold algorithms and adapters** `core/src/{resolve,policy}.ts`, `cli/src/sync/strategy.ts`, `adapters/src/{shared,vscode}.ts` | the client file against config and policy | fold, launch | five ways to write a server; a policy that changes after the fold | no secret value in a file unasked; a curated or denied server cannot get past its proxy or the policy |
| **Config loading, other commands, edge HTTP, web and site** | none of their own | text and I/O | – | not protocol code: left out |

How they interact: `mcpfold sync` writes client files whose entries launch `mcpfold run
<server>`; `run` passes the gates (config, policy, trust, secrets), spawns the server and
wires the proxy between the client's pipes and the server's; the proxy reports to the audit
sink and compares listings with the surface `mcpfold trust` recorded through the handshake
probe; `push` and `pull` move configs through the edge functions with a session that
`login` obtained; `pull` writes the canonical config, which is what `sync --watch` watches.

## 2. Modules

| Module | Stands for | Kind |
|---|---|---|
| `CuratedSession` | what a curated connection promises | abstract specification |
| `Proxy` | `connectProxy` with filter, pins and audit recorder | detailed specification |
| `MCProxy` | two tools, three spellings, one listing that names a tool twice; ids apart, or colliding | TLC instance |
| `SyncWatch` | `runSyncWatch`, `runSync`, `watchWithDebounce` | specification, checked as it is |
| `StdioSession` | a proxied session from the spawn to the last exit | specification |
| `MCStdioSession` | streams that end cleanly, in mid-line, in mid-message, or flood | TLC instance |
| `TrustStore` | `trust.json` under `run`, `trust` and `pull` | specification |
| `MCTrustStore` | two commands, two names, three entries | TLC instance |
| `AuditLog` | `fileAuditSink` of several proxies, `readAuditLogLines` | specification, checked as it is |
| `Probe` | `resolveSecrets`, then `handshake`, as `test`, `inspect` and `trust --tools` run them | specification |
| `MCProbe` | two servers that share a reference | TLC instance |
| `CloudSessions` | device login and refresh rotation, CLI and edge | specification |
| `MCCloudSessions` | two processes on one machine, a third on another | TLC instance |
| `CloudTeams` | members, invites, versions of the team's and private configs, machines, billing, account deletion | specification, checked as it is |
| `Fold` | what a sync writes for each server, and how it starts | specification |
| `MCFold` | the registry's adapters, every shape of a server | TLC instance |
| `LaunchProofs` | theorems about `StdioSession` and `Fold` | TLAPS |
| other `*Proofs` | theorems about the module of that name | TLAPS |

### Proxy

One action per path through a message handler. Both handlers are synchronous, so a
message's stay in a pipe commutes with everything else: the pipes are left out and the
server answers any open request at any time, or never.

| Action | Code |
|---|---|
| `DenyCall` | `client.onMessage`, the branch of a filtered-out `tools/call`: audited, refused when it has an id, dropped when it has none |
| `Forward` | the rest of `client.onMessage`: `callStart`, tracking a listing, `server.send` |
| `ClientReply` | a message of the client without a method |
| `ServerAnswer` | `server.onMessage` for a response: `callEnd`, eviction, drift check, filtering, `client.send` |
| `ServerRequest` | `server.onMessage` for a request of the server, which goes through the same eviction |

`Normal` is `normalizeToolName` as a map from spellings to spellings, so that the directive,
the surface and a call may each spell a tool their own way. A definition is a model value:
description and schema digest together. A listing is what the code has, an array of entries in
which a name may come twice: a function from positions up to `MaxTools`, where what is filtered out
leaves a gap. `filterTools` judges entry by entry; `diffToolSurface` fills a `Map` by name, so of the
entries of one name the last counts (`byName`), and those before it are compared with nothing. `tools/list` and `server/discover` are treated
alike in the code and are one kind here. `log` is the outcome the audit holds for a message
(its text is left out), `inflight` the recorder's map, whose insertion order is id order.
The client numbers its requests upwards, as every MCP SDK does, and never reuses an id.

`CuratedSession` knows no proxy: requests, answers, what was served. A listing may be shown
(`Showable`) when every entry is of an allowed name and, if a surface is frozen, the tools a client
that takes the last entry of a name sees (`Final`) are the frozen ones that are allowed. That is all
the code gives; of an entry with a later one of its name nothing is promised but the name. `Proxy!Promise`
instantiates the abstract session with `allowed` as the names the directive passes and `frozen` as
the pinned tools, `byName`, of a blocking pin; in-flight bookkeeping, audit and server requests are stutters.

### SyncWatch

The watcher is one JavaScript process. `loop` names the run that holds the event loop; file
events, timers and signals are delivered only when it is `"free"`, and a run gives it up only
where it awaits something slow: a secret provider, for profiles in `Inline`. Every other
`await` in `runSync` is a microtask. The editor and a `mcpfold sync` run by hand are other
processes and interleave with every file operation.

| Action | Code |
|---|---|
| `LoadConfig` | `runSync` up to the loop over profiles: load, policy |
| `ReadTarget`, `ProviderAnswers`, `ProviderFails` | reading a client file, rendering it, the comparison with what was read |
| `Backup`, `Write` | `backupIfExists` (a copy of what is there *now*), `atomicWrite` (the rename) |
| `Attach` | the rest of `runSyncWatch`, executed once the first run reaches its first await |
| `DeliverEvent`, `Fire`, `Stop`, `EndRun` | `schedule`, `fire`, `stop`, and the `finally` of `fire` |
| `EditConfig`, `SyncByHand` | the user |

A client file is abstracted to the config version it was folded from (`Own`: the user's file
from before; `Absent`: none). Distinct versions are taken to render to distinct files.
Backups are taken to have distinct names: the names carry a millisecond stamp, and two
backups of one file in one millisecond would share one.

No bundled adapter declares the `inline` strategy; the adapter contract (`docs/adapters.md:27`)
allows it and `strategy.ts:210` implements it. `Inline = {}` is the program as shipped.

### StdioSession

Three processes: the MCP client, `mcpfold run`, the server. `stream[side]` is everything that
side may go on to write, as units (the newline, and pieces of lines); `wrote` and `took` count
what is written and what the transport was handed; `passed[side]` are the messages sent to it.
What the proxy does to a message is `Proxy`'s subject and is left out here.

| Action | Code |
|---|---|
| `OnData` | `onData` of `streamTransport` with `drain`: any chunk of what is written and unread; the cap on an unterminated line |
| `OnEnd`, `OnOutputError` | `onEnd` with the last line, `onOutputError` (EPIPE) |
| `LateOutputError` | the same error once `finish` took the listener off: nobody handles it, and the process crashes |
| `Finish` (in all of these) | `finish`, which runs `dispose`, which finishes the other transport |
| `OnExit` | the child's `exit` or `error` event: dispose and resolve |
| `Forward` | the SIGINT and SIGTERM handlers, off after the exit |
| `Leave` | the process ends with nothing left for its event loop |
| `Writes`, `ClientCloses`, `ClientDies`, `ServerQuits`, `ServerSeesEnd`, `ServerObeys`, `SendSignal`, `KillWrapper` | the environment |

Node may emit `exit` before a child's output is read, so `OnExit` is enabled as soon as the
child is gone. `ServerSeesEnd` needs `mcpfold run` gone: nothing in the code ends the child's
input, only the end of the process that holds it does. The reference of framing is declarative:
`FirstMessages(q, t)` says that `q` are messages of consecutive lines of `t` from its beginning, and
`AllMessages(q, t)` that they are all of them, the unterminated tail included. It knows no buffer and
no chunk; `Drain` is the incremental one of the code, unit by unit.

### TrustStore

Each command is a process with a program counter; the store is read and rewritten whole, and
`writeFileSync` is two steps, the truncation and the fill. A torn or missing file reads as an
empty store (`tofu.ts:138`).

| Action | Code |
|---|---|
| `Trust`, `TrustAll`, `Probe` | `runTrust`: the named server with or without `--tools`, every untrusted one, and the slow probe in between |
| `ReadToApprove`, `ReadToPin`, `OpenToWrite`, `FillApproval`, `FillPin` | `approve` and `approveTools`: `read()`, the change of the copy, `write()` |
| `Load`, `Gate`, `SecretMissing`, `Launch` | `runRun`: policy, trust gate, secrets, and the second read of the store for the pinned surface |
| `Pull`, `Apply` | `runPull`: the refusals in their order, the write of the config, then an approval for each executable server |
| `Edit`, `Crash` | the user, or another command that writes the config; a kill at any step |

`consented` is what users asked for, `kept` what the store would hold had every change been
atomic, `raced` whether changes overlapped, were cut short or read a file half written.
An entry stands for what `executableSignature` hashes; two entries are two hashes.

### AuditLog

A file is a number, as an inode is: a sink that has the log open goes on writing to it after a
rename. `bytes` is the sink's own counter, seeded from the file once. `Record`, `Rename`,
`RenameFails`, `Open` and `Write` are one `record` call; `Scan`, `ReadPrimary`, `ReadSibling` and
`ReadDone` one `readAuditLogLines`. Lines have one size, and the cap is counted in lines.

### Probe

`Resolve`, `ProviderAnswers`, `ProviderFails` and `TimedOut` are `resolveSecrets`: references in
order, a memo, a timer raced against the provider's child. `Open`, `Answer`, `RequestTimesOut`
and `Report` are `handshake` over a spawned server: at any time at most one request waits.
`GraceOver` is the kill timer of `exec.ts`; `Leave` the end of a Node process, which comes only
when no child is left, because `bin.ts` sets `process.exitCode` and nothing calls `exit`. `deaf`
are the children that ignore SIGTERM. A server may send any answer to any id at any time; one
that is not awaited changes nothing. Remote servers are left out: `close` does nothing for
them, and the request in flight ends with Node's own timeout.

### CloudSessions

A call is a request to the edge; its handler is one action per SQL statement or transaction:
`PollDeviceAuth`, `Claim`, `InsertSession` for `pollDeviceAuth`; `Refresh`, `RevokeFamily`,
`CommitRotation` for `rotateRefresh`. `Lose` drops a call with its answer at any point, `Repeat`
has a poll or a refresh arrive twice (the copy is the caller `Echo`), `Killed` ends a process
before it saves. The CLI's side is `Poll`, `LoginTimedOut`, `Receive`, `SaveSession` and
`GetAccessToken`, on a keychain that the processes of a machine share. A code names the machine that
asked for it, and so do the tokens of the session opened with it (`ClaimedMachine`); a rotation
copies the machine of the token it replaces.

History variables name what is to be expected: `doomed` families must end, `late` ones had a
rotation in flight when they were revoked or rotated twice, `excused` ones met something that
may cost the session.

### CloudTeams

One team: `TeamInvite`, then `AddMember`, `MintInvite` or `InviteForbidden`, are an invitation,
whose billing gate asks nothing of the caller and whose insert is subject to the row-level
policies; `RedeemInvite` and `JoinTeam` the two statements of a redemption. `Deliver` and `UpsertEntitlement` the two statements of a
webhook. `AccountDelete` follows the foreign keys, cascading or not. `Cut*` ends a handler
between two statements.

Configs come in lines, as in the code (`coalesce(team_id, owner_id)`): the team's and a private one
per user; `MayPush` is the insert policy. `Push`, `Insert` and `CommitPush` are the transaction of a
push, with the trigger that numbers versions from the committed rows of the line and the unique index
that makes a rival wait. A push gives the name of the machine or does not; `CommitPush` writes the
machine's row only if it does (`Remembered`), and that is one row, whatever line was pushed. Of a
user's machines one is followed (another name is another row), and a user has one push under way at a
time.
 Hooks, invites and users are sets; Stripe sends each event at least once
and in any order.

### Fold

A server is a record of what decides how it is written: transport, the two places that may
hold a secret and their schemes, curation, tag, override. A bearer token is a reference as a whole;
a header or a variable is one, or embeds one in other text (`Whole`), and VS Code prompts only for
what is one as a whole (`Prompted`). An adapter is what the fold asks of
it. `Render` is `renderWithStrategy` with its five paths; `Sync` writes a file, `Launch` starts what it
holds, by the client itself or by `mcpfold run`, under the policy in force then. The two
directions a launch can go wrong are in the state: the file is older than policy and curation.

## 3. Runs

| Run | Bounds | Asks | Result |
|---|---|---|---|
| `proxy` | 3 client messages, 1 server request, 2 tools in 3 spellings, listings of up to 3 entries (as trusted, one tool renamed, one redefined, one listed twice), 3 directives, 3 pin modes, cap 2 | curation of listings and calls, exact bookkeeping, audit, refinement | holds |
| `proxy_collide` | 2 client messages, the server's id among the client's | `ListingsCurated` | **violated** |
| `sync` | 2 profiles, the second awaits a provider, 3 edits after the first fold, broken saves, a stop, a sync by hand | forgotten edits, overlap, going back, the user's file, stop, catching up | holds |
| `session` | streams of up to 8 units, cap 2, SIGINT and SIGTERM once each, a server that obeys SIGTERM | framing, teardown, exits, signals | holds |
| `session_halfopen` | the same streams, no signals | `EndOfClientEnds` | **violated** |
| `trust_store` | 2 commands, 2 names, 2 local entries and a remote one, 1 edit, any kills | consent, approvals kept | holds |
| `audit_log` | 2 proxies, cap of 2 lines, 3 events each, 1 kill, 1 reader | each event in one file, the overrun, the reader | holds |
| `probe` | 2 servers, 3 references of which 2 are the same, 1 rotation each, every set of deaf children | fail closed, the surface reported, the end of the command | holds |
| `probe_stuck` | the same | `StuckProviderKilled` | **violated** |
| `cloud_sessions` | 2 processes on a machine and a third on another, 3 tokens, 2 logins or 1 with a fault | one session per code and of the machine that asked, reuse detection, who stays logged in, logins end | holds |
| `teams` | owner and a user, so 3 lines of configs, 1 invite, 2 webhooks at once, 3 versions, 2 events, 3 pushes and events together, 1 fault | membership, numbers and what a machine is said to have pushed, the tier | holds |
| `fold` | 7 adapters, 360 shapes of a server, 2 profile overrides, policies over 2 names | secrets, policy and curation | holds |

Why the bounds suffice. `proxy`: with cap 2 the third call evicts the first, whose answer
then arrives; a listing, a call and anything else can all be in flight together; two
spellings of one tool meet in the directive, the surface and the call; three entries are a name
twice with another between. `sync`: the first
edit starts a fold, the second arrives during it and is noted, the third arrives during the
re-run; two profiles let a fold fail half-way. Edits while the first fold is under way are
covered by the theorem `EditsAreNotForgotten`. `session`: one message fits in a
chunk, one needs two, one is over the cap while unterminated; the streams end after a newline,
after a whole line without one, and in mid-message. `trust_store`: two commands are what one
lost update takes, the second entry of a name is what an edit or a pull brings. `audit_log`: six
events over a cap of two are three rotations, with both sinks past their seed. `probe`: the
shared reference is memoised across servers; the second server is probed while the first one
lingers. `cloud_sessions`: three tokens are a login, a refresh and a rival refresh
of the same token, or a second login among them; two processes are what the shared keychain takes,
the third, on another machine, has a code that a claim could be mistaken for. A bound on logins and
faults together (`MaxInputs`) leaves faults to the behaviours of one login; a token is kept for each
code (`Spare`), or a login would wait for one for ever. `teams`: two users push the team's line at
once and their own besides, or race for the invite; two events are one out of order. Pushes and
events share a bound (`MaxInputs`), since they meet only in the entitlement that lets a member in: one
event and two pushes, three pushes, or two events and one. `fold` enumerates its data: the shapes are all there
are, `whole` counting only where the second place holds a reference.

**Fairness.** `SyncWatch`: `WF_vars(WatcherStep)`, weak fairness of the
watcher's own steps taken together. Node's event loop runs what is ready, a fold is finite
synchronous code, and a provider's answer is raced against a timeout (`resolver.ts:37`).
Nothing is assumed of the user. `CatchesUp` names its exceptions: stopped, a broken config, a
fold that failed on the current version, a run by hand. `StdioSession`: weak fairness of the
event loop's steps, and of a server that got a signal it obeys or the end of its input; nobody has to
write, close, crash, signal or kill. `Probe`: the command's own steps, timers among them, and the
end of a child that was told to end and is not deaf; no provider and no server has to answer.
`CloudSessions`: the edge serves a call that reached it, the CLI goes on with its loop, and a
device code expires; nobody has to approve it.

**Deadlock** is not checked: in every run the environment has a bounded number of inputs, and the
system legitimately rests when they are used up.

### What the violated runs show

* `proxy_collide`: JSON-RPC numbers requests per direction, and a server that sends `ping` or
  `roots/list` with id 1 while the client's `tools/list` 1 is in flight makes
  `proxy.ts:151-155` forget the listing: it is forwarded unfiltered and unpinned.
* `session_halfopen`: `finish` destroys inputs and never ends an output, so a client that closes
  its stream leaves the server with an open input, and `mcpfold run` waiting for its exit.
* `probe_stuck`: `child.killed` is true once SIGTERM was sent, so `exec.ts:68` never sends SIGKILL: a
  provider that ignores SIGTERM lives on, and the command with it.

### What the models show besides

Behaviours of the code that a property excuses by name, or that no property is about:

* *Proxy.* Each page of a paginated listing is compared with the whole pinned surface, which is
  the first page only, so an unchanged server drifts (`proxy.ts:160`). `diffToolSurface` compares by
  name, the last entry of a name winning (`tool-digest.ts:106-107`), and `proxy.ts:181-185` forwards by
  entry: a listing with a changed definition first and the trusted one last is no drift, and a blocking
  pin lets both through. `--strict-tools` of
  `docs/threat-model.md:39` is not an option of the CLI.
* *Watch.* An edit between the first fold's reading of the config and the attaching of the watcher
  raises no event (`sync.ts:328`): the theorem `EditsAreNotForgotten` assumes there is none.
* *Session.* `finish` takes the `error` listener off an output while a write to it may be pending
  (`stdio.ts:51-57`): a client's last message, passed on in that step to a server that has gone, fails
  later, and the error, uncaught, ends the process (`LateOutputError`), while `stdio.ts:12-14` has an
  EPIPE tear the session down cleanly. `exit` disposes the session though the child's last output may be unread
  (`run.ts:97`). A second signal is not forwarded (`run.ts:89`, `child.killed`), while
  `docs/security.md:112` says the shim "adds no lifecycle gap".
* *Trust.* `run` reads the pinned surface after the secrets were resolved (`run.ts:257`): a store that is being
  rewritten then, or was lost to a kill during its rewriting, pins nothing, while
  `docs/threat-model.md:37-39` has a drifted listing reported. Overlapping approvals lose one.
* *Audit.* A rename that fails because another proxy has just rotated loses the event
  (`audit.ts:175`, whose comment has concurrent proxies drop no lines); a sink with a full counter
  whose log vanished never records again. A rotation between scan and read hides the lines of the
  log from the reader (`audit-log.ts:29`, "full recorded history"). Rotated files are never
  removed, though `docs/telemetry.md:15` calls the log size-capped and `docs/security.md:133` speaks
  of one `<path>.1`.
* *Probe.* A server that negotiates a version mcpfold does not speak is reported as reachable with no
  tools (`handshake.ts:165`), and `trust --tools` pins that empty surface (`trust.ts:62-67`).
* *Cloud sessions.* Two refreshes at once, or a retry after a lost answer, fork or end a family
  (`session.ts:53`); a rotation in flight outlives a revocation, while its comment says a replayed
  token "can't outlive its detection". A claimed code whose insert was cut leaves the login to
  time out.
* *Teams and configs.* A webhook cut between ledger and entitlement is lost, its retry being a
  duplicate; an older event that arrives late overwrites a newer state. Deleting an account fails
  on the keys that do not cascade (`0009_pending_invites.sql:37,41,53`, against
  `account/index.ts:64-66`), and deletes the versions the user pushed, whose numbers in the team's line
  are missing then, or given again: `HistorySound` says only that no two rows *there are* have one. The one row of a machine takes the
  number of whatever line was pushed (`push/index.ts:49-60`), and `status/index.ts:30-32` compares it
  with the private line: after a push to the team a machine that is behind passes for up to date, which
  `0005_machine_sync.sql:4-5` would have flagged. Inviting a member again fails, as no policy allows the update; redeeming an invite
  overwrites any role, the owner's included; an owner off the roster cannot manage the team. A
  member who was removed and presents the redeemed token again is told "ok" and stays out; a
  redemption cut after its claim has spent the invite.
* *Fold.* VS Code's environment of a stdio server keeps `${scheme:...}` literally (`vscode.ts`), as a
  header that embeds a reference does (`vscode.ts:67,76-78`; `secret-ref.ts:54` allows one): the server
  is sent the reference, though `vscode.ts:65` has "secret refs become inputs". `SecretsKept` excuses
  these two places of VS Code's file, and no others.


## 4. Proofs

TLAPS proves what follows for every value of the constants, under the assumptions named in the
modules (`NamesAssumption`, `LogAssumption`, ...), which TLC evaluates in every run. Each
`*Proofs` module has the same layout: the parts of an inductive invariant, one lemma for the
initial states, one for each action (or group of actions that disturb the same parts), one for
`Next`, and the theorems. A property of a run is seldom inductive as it stands; what had to be
added says why the code is right.

* **`ProxyProofs`**, under `DisjointIds`: server ids are none of the client's. Without it
  `ListingsCurated` is false (run `proxy_collide`). `IInv` joins the properties with
  `TrackedCalls` (the recorder holds only open calls); a listing is curated because its id is
  tracked as long as it is open (`PendingExact`), and what it shows under a blocking pin are the tools
  of the pin by their last entry (`byName`), for listings with any names twice. `AInv` adds that a call the record has lost was
  overtaken by as many later ones as the cap, by cardinalities of finite sets. `InflightIsBounded`
  and `RequestsAnsweredOnce` are proved and in no run. `ProxyImplementsSession` maps each action
  to one of `CuratedSession` or to a stutter.
* **`SyncWatchProofs`**: `NoEditForgotten` needs `OneAtATime` (`running` tells whether a run that
  a change started is under way, and what is `pending` will be re-run) and `FirstRunKnows`.
  `EditsAreNotForgotten` assumes that no edit is made while the watcher starts (`EditsFrom # "start"`),
  where it fails. `FoldsNeverOverlap` assumes nothing. `OwnContentIsKept` needs `Copied`: when a
  run is about to write, the file no longer holds the user's own content or a backup does. `NoRunAfterStop` needs `Quiet`: once stopped no event or timer is left to start one. `FilesGoForward` assumes `EditsFrom = "folded"` (else the first run and one started by
  a change overlap); `FirstAlone` then keeps the two apart, and `Newest` says that no file is newer
  than what the run under way loaded.
* **`TrustStoreProofs`**: `NothingUnasked` needs `Asked`: what a process is about to approve or
  launch was consented to when it read it; then no interleaving, torn file or kill can add trust.
  `SerialChangesKept` needs `Alone`: without a race one process at a time holds a copy, and that
  copy is what the file should become.
* **`AuditLogProofs`**: `Kept` places each event in one file, or nowhere when given up; `Missing`
  says that a sink which finds no log to rename has a rival, which is `DropsOnlyToRivals`;
  `Covered` says that what was on disk at the scan is read or in a file still to be read.
  `Overrun` needs `Bounded`: a sink has in a file never more than the cap, since its counter is at
  least what it has in the log itself, also after a crash, when it starts from all the log holds.
  `Shares` adds that up over the sinks, by induction on their number.
* **`ProbeProofs`**: `Resolved` ties the values put into a server to the memo and the memo to a
  value the backend had; `InTurn` keeps the servers still to come without a report.
* **`LaunchProofs`**, the session. `WholeInOrder` and `EndDelivers` need `Delivery`: at all times a
  transport has passed on, and holds in its buffer, what `Drain` makes of the whole of the stream it
  was handed, taken at once. That this is inductive is `DrainChunk`: draining a chunk after what was
  left of the last one is draining both together, so it does not matter where a stream is cut.
  `DrainConveys`, `DrainFirst` and `DrainAll` then relate `Drain`, for every stream, to the reference
  `FirstMessages` and `AllMessages`, which speak of lines and know no buffer. These are inductions
  over sequences. The library's induction theorems take an operator, which the backends cannot
  instantiate; here the statement is a *set* of numbers, and `NatSetInduction` follows from the
  well-foundedness of `<` (`WFMin`). `Recursion` shows in the same way that a recursive function such
  as the one in `Drain` has the values its equations say. `NoOrphan` needs `Teardown`: the spawner
  resolves only after the child is gone, and nothing else lets the process end.
* **`LaunchProofs`**, the fold. `Governed` is inductive alone: a policy or curation that changes
  leaves the file behind, and `run` decides again. `SecretsReachTheServer` needs `WellWritten`, what
  a fold left in the file, since the launch comes later: places and transport of a server do not
  change. Of VS Code's file it excepts, place by place (`Exempt`), the environment and an embedded
  header; what VS Code asks for is `Prompted`.
* **`CloudTeamsProofs`**: `PaidFor` (whatever lets somebody in passed the billing gate), `Redeemed`
  (a claim is on a minted invite that is not revoked, of an account there is) and `Members` give
  `NobodyUninvited`. `OneNumberPerVersion` proves `HistorySound` line by line, from `Numbered` (what
  it says of the rows there are), `Ahead` (a push under way is for a number not beyond the next one
  of its line), `Apart` (once its row is inserted nobody else has the number) and `Recalled` (what a
  machine is remembered to have pushed its user pushed by its name). What is left of the team's line
  after an account is deleted need not be free of gaps, but still has no duplicate.
  `TierCurrent` needs `Delivered` (an event of the ledger is on its way to the entitlement, by one
  delivery, or there) and `Applied` (the entitlement is the newest that reached it). `Greatest` says
  that `Max` of a set of numbers with a bound is its greatest element.
* **`CloudSessionsProofs`**: `Claims` says that the one call about to insert a session holds a
  claimed code no session is of yet, whence `OneFamily`. `OneSessionPerCode` adds that a token is
  filed under the machine that asked for its code (`Filed`), and that what a process has in hand, or a
  keychain holds, is of its own machine (`Homes`, below). `Spent` says, of a family without overlapping rotations, that
  one token is not yet used, that the token a rotation is about to replace is neither used nor
  revoked, and that a family to end is revoked but for a call about to revoke it. The exception
  `late` is what makes it inductive and what the code does not cover: `CommitRotation` does not
  look again. `Typed` adds to the types that calls, commands and keychains hold codes and tokens
  there are. `LoginsLast` follows the token `InHand` of a process, from the call that presents it
  until the next one is stored: of a family that nothing befell (`excused`) no token is revoked or
  expired (`Clean`), one process at most has one in hand (`Alone`), of its own machine (`Homes`) and
  not yet used (`Good`), so what a keychain holds is good or about to be replaced (`Stored`).

`TypeOK` of `AuditLog`, `CloudTeams` and `Probe` is proved and not checked by a run of its own.

**Model-checked only.** Every safety property of the passing runs, invariant or of steps, is a
theorem. Left to TLC is liveness (`CatchesUp`, `ExitPropagates`, `FirstSignalEnds`, `CommandEnds`,
`LoginEnds`): the prover has no rule for fairness or `ENABLED`. The three violated runs are
counterexamples and need no proof.

## 5. Not modelled

* **Config loading and migration** (`core/src/{load,schema,serialize,migrate}`): JSONC text to a
  typed value and back. No state, and the properties would be about characters. `SyncWatch` keeps
  the one thing others see of it: whether a config loads.
* **File layouts of the clients** (`adapters/src/*`): eighteen text transformations. `Fold` models
  what they have in common: the launch, and where a secret stands.
* **Other commands** (`import`, `add`, `doctor`, `restore`, `curate`, `directory`, the server
  directory, telemetry, the update notice): one-shot readers or writers around `backupIfExists` and
  `atomicWrite`; `TrustStore`'s `Edit` stands for those that write the config. `sync --check` and
  `--dry-run` write nothing.
* **Diff and curation advice** (`core/src/{diff,curate}.ts`): comparisons and a heuristic over
  counts, with no promise beyond their wording.
* **Providers without a child** (env, dotenv, infisical) and the text each passes to its backend.
* **The stateless handshake and the HTTP transport**: no command uses the former, nothing waits on
  the latter. **Plain passthrough** shares its pipes with the server, and `mcp-remote` is another
  program.
* **Edge HTTP, web, site, editor extension**: routing, rendering, generated bundles
  (`apps/site/dist-ssr`) and calculators. These, the tests and the tables of the site are most
  of the repository's lines; they hold no state that two actors share.
* Within modelled parts: a client that saves its own settings between a fold's read and its rename
  (`sync.ts:148`); the second signal, of which `FirstSignalEnds` says nothing (`run.ts:89`); the
  HMAC of a signature; team creation, checkout, portal and the audit events of the edge.

## 6. Plan

1. A composition of `TrustStore` and `Proxy`: the pinned surface as the one the store held.
2. The import of a client's file followed by a fold, as an abstract round trip.
3. The safety half of the liveness properties as theorems: in each state short of the goal, a step
   that the fairness covers is at hand.
