-------------------------------- MODULE Probe --------------------------------
(***************************************************************************)
(* Probing servers: `mcpfold test` and `mcpfold inspect` (cli/src/         *)
(* commands/test.ts, discover/surface.ts) and, for one server, `mcpfold    *)
(* trust --tools` (commands/trust.ts).  First the secret references of all *)
(* of them are resolved, one after the other (secrets/src/resolver.ts,     *)
(* exec.ts); then a session is opened with each server in turn (cli/src/   *)
(* util/mcp-transport.ts, proxy/src/handshake.ts).                         *)
(*                                                                         *)
(* The command is one JavaScript process; a provider's child, the servers  *)
(* and the backends that hold the secrets run beside it.  Servers are      *)
(* local.  A secret is known by how often it was rotated.                  *)
(***************************************************************************)
EXTENDS Naturals, Sequences

CONSTANTS
  Refs,         \* secret references, as they are spelt
  Places,       \* where they stand in the servers, in the order of resolution
  NumServers,
  Surfaces,     \* what a server may list
  NoTools,      \* the empty surface
  MaxRotations  \* how often a secret changes in its backend

Servers  == 1..NumServers
Children == Refs \cup Servers   \* a provider's child is named for what it is to read

ASSUME ProbeAssumption ==
  /\ Places \in Seq(Refs)
  /\ NumServers \in Nat \ {0}
  /\ Refs \cap Servers = {}
  /\ NoTools \in Surfaces
  /\ MaxRotations \in Nat

VARIABLES
  secret,   \* per reference: the value its backend holds
  deaf,     \* the children that ignore SIGTERM
  child,    \* per child: none yet, running, told to end, gone
  grace,    \* references whose child is to be killed after a grace period
  memo,     \* per reference: the value resolved in this run, or None
  given,    \* the values put in place so far
  pc,
  at,       \* the server that is probed
  nextId,   \* requests sent to it
  pending,  \* those that wait for an answer
  found,    \* per server: what the probe reports
  listed    \* history, per server: the surface it sent when it was asked to

secrets == <<secret, grace, memo, given>>
session == <<nextId, pending, found, listed>>
vars    == <<secrets, session, deaf, child, pc, at>>

None     == MaxRotations + 1
Unlisted == "unlisted"
Unprobed    == [is |-> "unprobed"]
Unreachable == [is |-> "unreachable"]
Reachable(supported, tools) == [is |-> "reachable", supported |-> supported, tools |-> tools]

(* What a server may answer, to whatever it was asked or was not: an error, *)
(* a null, or an object with a version and tools.                          *)
Answers ==
  [is : {"error", "null"}] \cup [is : {"object"}, supported : BOOLEAN, tools : Surfaces]

ToolsFrom(answer) == IF answer.is = "null" THEN NoTools ELSE answer.tools

Alive(c) == child[c] \in {"running", "told"}

(* kill('SIGTERM') of a child that is still there.                         *)
Told(c) == IF child[c] = "running" THEN [child EXCEPT ![c] = "told"] ELSE child

-----------------------------------------------------------------------------
(* Resolving the references *)

Wanted == Places[Len(given) + 1]

(* Mutant of Known: every reference is read afresh.                        *)
KnownNever == FALSE

Known == memo[Wanted] # None

Fill(value) ==
  /\ given' = Append(given, value)
  /\ memo' = [memo EXCEPT ![Wanted] = value]

Resolve ==
  /\ pc = "resolve"
  /\ \/ /\ Len(given) = Len(Places)
        /\ pc' = "open"
        /\ UNCHANGED <<child, memo, given>>
     \/ /\ Len(given) < Len(Places)
        /\ Known
        /\ Fill(memo[Wanted])
        /\ UNCHANGED <<child, pc>>
     \/ /\ Len(given) < Len(Places)
        /\ ~Known
        /\ \/ pc' = "wait" /\ child' = [child EXCEPT ![Wanted] = "running"]
           \/ pc' = "failed" /\ UNCHANGED child   \* no provider has this scheme
        /\ UNCHANGED <<memo, given>>
  /\ UNCHANGED <<secret, deaf, grace, session, at>>

(* The child prints the value and ends,                                    *)
ProviderAnswers ==
  /\ pc = "wait" /\ child[Wanted] = "running"
  /\ child' = [child EXCEPT ![Wanted] = "gone"]
  /\ Fill(secret[Wanted])
  /\ pc' = "resolve"
  /\ UNCHANGED <<secret, deaf, grace, session, at>>

(* or ends without one, or does not start: the whole resolution fails;     *)
ProviderFails ==
  /\ pc = "wait" /\ child[Wanted] = "running"
  /\ child' = [child EXCEPT ![Wanted] = "gone"]
  /\ pc' = "failed"
  /\ UNCHANGED <<secrets, deaf, session, at>>

(* Mutant of TimedOut: a reference that times out is left empty.           *)
TimedOutEmpty ==
  /\ pc = "wait"
  /\ child' = Told(Wanted)
  /\ grace' = grace \cup {Wanted}
  /\ Fill(None)
  /\ pc' = "resolve"
  /\ UNCHANGED <<secret, deaf, session, at>>

(* or the timer fires first, and aborts the child before it rejects.       *)
TimedOut ==
  /\ pc = "wait"
  /\ child' = Told(Wanted)
  /\ grace' = grace \cup {Wanted}
  /\ pc' = "failed"
  /\ UNCHANGED <<secret, deaf, memo, given, session, at>>

(* child.killed is true from the first signal that was sent.               *)
Killed(r) == child[r] = "told"

GraceOver(r) ==
  /\ r \in grace
  /\ grace' = grace \ {r}
  /\ child' = IF Alive(r) /\ ~Killed(r) THEN [child EXCEPT ![r] = "gone"] ELSE child
  /\ UNCHANGED <<secret, deaf, memo, given, session, pc, at>>

Rotate(r) ==
  /\ secret[r] < MaxRotations
  /\ secret' = [secret EXCEPT ![r] = @ + 1]
  /\ UNCHANGED <<grace, memo, given, session, deaf, child, pc, at>>

-----------------------------------------------------------------------------
(* The handshake *)

Request(id) == nextId' = id /\ pending' = {id}

(* A server that cannot be spawned gets the first request all the same.    *)
Open ==
  /\ pc = "open"
  /\ \E state \in {"running", "gone"} : child' = [child EXCEPT ![at] = state]
  /\ Request(1)
  /\ pc' = "probe"
  /\ UNCHANGED <<secrets, deaf, found, listed, at>>

(* Mutant of Close: the transport is closed, the child is not killed.      *)
CloseOnly == child

Close == Told(at)

(* handshake returns: it closes the transport, and the next server is due. *)
Report(result) ==
  /\ found' = [found EXCEPT ![at] = result]
  /\ child' = Close
  /\ pending' = {}
  /\ IF at < NumServers THEN at' = at + 1 /\ pc' = "open" ELSE pc' = "done" /\ UNCHANGED at

(* What the answer to initialize leads to.                                 *)
Initialized(answer) ==
  \/ /\ answer.is = "null"
     /\ Report(Unreachable)
     /\ UNCHANGED nextId
  \/ /\ answer.is = "object"
     /\ ~answer.supported
     /\ Report(Reachable(FALSE, NoTools))
     /\ UNCHANGED nextId
  \/ /\ answer.is = "object"
     /\ answer.supported
     /\ Request(2)
     /\ UNCHANGED <<child, found, at, pc>>

(* Mutant of Expected: any answer is taken for the one that is awaited.    *)
ExpectedAny(id) == pending # {}

Expected(id) == id \in pending

(* The server answers: in any order, more than once, or what was not asked.*)
Answer(id, answer) ==
  /\ pc = "probe" /\ child[at] = "running"
  /\ Expected(id)
  /\ listed' = [listed EXCEPT ![at] = IF id = 2 /\ nextId = 2 /\ answer.is # "error"
                                      THEN ToolsFrom(answer) ELSE @]
  /\ CASE answer.is = "error" -> Report(Unreachable) /\ UNCHANGED nextId
       [] answer.is # "error" /\ nextId = 1 -> Initialized(answer)
       [] OTHER -> Report(Reachable(TRUE, ToolsFrom(answer))) /\ UNCHANGED nextId
  /\ UNCHANGED <<secrets, deaf>>

(* The timer of the request that waits.  A server that ends does not fail  *)
(* it any sooner.                                                          *)
RequestTimesOut ==
  /\ pc = "probe" /\ pending # {}
  /\ Report(Unreachable)
  /\ UNCHANGED <<secrets, deaf, nextId, listed>>

-----------------------------------------------------------------------------
(* Children end, on their own or because they were told; the command does  *)
(* when none is left.                                                      *)
Ends(c) ==
  /\ Alive(c)
  /\ c \in Refs => child[c] = "told"   \* else its end is an answer or a failure
  /\ child' = [child EXCEPT ![c] = "gone"]
  /\ grace' = grace \ {c}
  /\ UNCHANGED <<secret, deaf, memo, given, session, pc, at>>

Leave ==
  /\ pc \in {"failed", "done"}
  /\ \A c \in Children : ~Alive(c)
  /\ pc' = "left"
  /\ UNCHANGED <<secrets, session, deaf, child, at>>

Init ==
  /\ secret = [r \in Refs |-> 0]
  /\ deaf \in SUBSET Children
  /\ child = [c \in Children |-> "none"]
  /\ grace = {}
  /\ memo = [r \in Refs |-> None]
  /\ given = <<>>
  /\ pc = "resolve"
  /\ at = 1 /\ nextId = 0 /\ pending = {}
  /\ found = [s \in Servers |-> Unprobed]
  /\ listed = [s \in Servers |-> Unlisted]

Command == Resolve \/ TimedOut \/ Open \/ RequestTimesOut \/ Leave

Next ==
  \/ Command
  \/ ProviderAnswers \/ ProviderFails
  \/ \E r \in Refs : GraceOver(r) \/ Rotate(r)
  \/ \E id \in {1, 2}, answer \in Answers : Answer(id, answer)
  \/ \E c \in Children : Ends(c)

(* Timers fire, and what is told to end does unless it is deaf; nobody has *)
(* to answer.                                                              *)
Fairness ==
  /\ WF_vars(Command)
  /\ \A r \in Refs : WF_vars(GraceOver(r))
  /\ \A c \in Children : WF_vars(c \notin deaf /\ child[c] = "told" /\ Ends(c))

Spec == Init /\ [][Next]_vars /\ Fairness

-----------------------------------------------------------------------------
(* Properties *)

TypeOK ==
  /\ secret \in [Refs -> 0..MaxRotations]
  /\ deaf \subseteq Children
  /\ child \in [Children -> {"none", "running", "told", "gone"}]
  /\ grace \subseteq Refs
  /\ memo \in [Refs -> 0..None]
  /\ given \in Seq(0..None) /\ Len(given) <= Len(Places)
  /\ pc \in {"resolve", "wait", "open", "probe", "failed", "done", "left"}
  /\ at \in Servers
  /\ nextId \in 0..2
  /\ pending \subseteq {nextId}
  /\ found \in [Servers -> {Unprobed, Unreachable}
                              \cup [is : {"reachable"}, supported : BOOLEAN, tools : Surfaces]]
  /\ listed \in [Servers -> Surfaces \cup {Unlisted}]

(* Fail closed: no server is started before every reference of every       *)
(* server has a value its backend really held, one value for each          *)
(* reference however often it stands and whatever is rotated meanwhile     *)
(* (resolver.ts: "NO server is returned partially resolved").              *)
FailClosed ==
  \A s \in Servers : child[s] # "none" =>
    /\ Len(given) = Len(Places)
    /\ \A k \in DOMAIN given : given[k] \in 0..secret[Places[k]]
    /\ \A j, k \in DOMAIN given : Places[j] = Places[k] => given[j] = given[k]

(* What is reported, and pinned by `trust --tools`, is what the server     *)
(* sent in answer to the tools/list of its own session, under a version    *)
(* mcpfold speaks; nothing else a server sends, early, late or twice, is   *)
(* taken for it, and one whose version is not spoken is reported to have   *)
(* no tools.                                                               *)
ReportsListing ==
  \A s \in Servers : found[s].is = "reachable" =>
    found[s].tools = IF found[s].supported THEN listed[s] ELSE NoTools

(* However slow, silent or gone providers and servers are, the command     *)
(* ends, and leaves no child behind; unless one of them ignores SIGTERM.   *)
CommandEnds ==
  <>(\/ pc = "left" /\ \A c \in Children : ~Alive(c)
     \/ \E c \in deaf : child[c] = "told")

(* exec.ts says of a provider's child that was told to end, and ignores it *)
(* ("a process that ignores SIGTERM is still force-killed").               *)
StuckProviderKilled == \A r \in Refs : child[r] = "told" ~> child[r] = "gone"

=============================================================================
