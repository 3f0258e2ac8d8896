------------------------------- MODULE Proxy -------------------------------
(***************************************************************************)
(* The curating MCP proxy: connectProxy (packages/proxy/src/proxy.ts) with *)
(* the tool filter (filter.ts), the pinned-surface check (tool-digest.ts)  *)
(* and the audit recorder's in-flight map (audit.ts).                      *)
(*                                                                         *)
(* Every action is one run of a message handler: client.onMessage for what *)
(* the MCP client wrote, server.onMessage for what the server wrote.  Each *)
(* handler is synchronous, so a message's stay in a pipe commutes with the *)
(* other steps and the pipes are left out: the server answers its open     *)
(* requests in any order, at any time, or never.  Disposing the session is *)
(* a behaviour that stops; teardown is the subject of another module.      *)
(***************************************************************************)
EXTENDS Naturals, FiniteSets

CONSTANTS
  Spelling,     \* tool names as they appear on the wire
  Normal,       \* normalizeToolName: the trimmed, lower-cased form of a name
  Directives,   \* the tools directives a server may be declared with
  Pins,         \* the pinned-surface options it may be launched with
  Defs,         \* tool definitions: a description with a schema digest
  MaxTools,     \* cap on the entries of a listing
  Offers,       \* tool surfaces the server may have
  Pages,        \* sets of names one listing response may carry
  ClientIds,    \* request ids the MCP client draws from, in increasing order
  ServerIds,    \* request ids the server draws from, in its own id space
  MaxInflight,  \* cap on the audit recorder's in-flight calls
  NoName        \* params.name is missing, empty or not a string

(* A tool surface is an array of tools, in which a name may come twice: a  *)
(* function from positions.  What is filtered out leaves a gap; nothing    *)
(* depends on the numbering but its order.                                 *)
Tools    == [name : Spelling, def : Defs]
Surfaces == UNION {[S -> Tools] : S \in SUBSET (1..MaxTools)}

ASSUME NamesAssumption ==
  /\ NoName \notin Spelling
  /\ Normal \in [Spelling -> Spelling]
ASSUME OptionsAssumption ==
  /\ Directives \subseteq [mode : {"off", "allow", "deny"}, list : SUBSET Spelling]
  /\ Pins \subseteq [mode : {"off", "warn", "block"}, surface : Surfaces]
  /\ Offers \subseteq Surfaces
  /\ Pages \subseteq SUBSET Spelling
ASSUME IdsAssumption ==
  /\ ClientIds \subseteq Nat
  /\ MaxTools \in Nat
  /\ MaxInflight \in Nat \ {0}

(* JSON-RPC gives client and server separate id spaces.  Nothing keeps     *)
(* them apart; what depends on them being apart says so by citing this.    *)
DisjointIds == ClientIds \cap ServerIds = {}

VARIABLES
  directive,           \* options.tools of this connection
  pin,                 \* options.pinnedTools of this connection
  asked,               \* per client message: the request it carried
  answer,              \* per client request: what the proxy sent back for it
  open,                \* client requests forwarded and not answered by the server
  served,              \* names of the tool calls the server received
  peer,                \* per server request: how far it got
  pendingToolListing,  \* the proxy's set of in-flight listing ids
  inflight,            \* the audit recorder's map (its keys; oldest = least id)
  log                  \* per client message: the audit outcome recorded for it

proxyVars == <<pendingToolListing, inflight, log>>
vars == <<directive, pin, asked, answer, open, served, peer, proxyVars>>

-----------------------------------------------------------------------------
(* Messages *)

Names     == Spelling \cup {NoName}
NoRequest == [kind |-> "none", name |-> NoName]
Requests  == [kind : {"call", "note"}, name : Names]
               \cup [kind : {"list", "other"}, name : {NoName}]

NoTools    == [k \in {} |-> k]   \* the empty surface
NoReply    == [kind |-> "none",  tools |-> NoTools]
Ok         == [kind |-> "ok",    tools |-> NoTools]
Error      == [kind |-> "error", tools |-> NoTools]
Listing(s) == [kind |-> "tools", tools |-> s]

(* The entries of a surface whose names are in a set: a page, or a filter. *)
Only(s, names) == [k \in {k \in DOMAIN s : s[k].name \in names} |-> s[k]]

(* A listing may be answered by a page of tools, by an error or by a       *)
(* result without a tools array; any other request by a result or an error.*)
ServerReplies(r) ==
  {Ok, Error} \cup IF r.kind = "list"
                   THEN {Listing(Only(s, p)) : s \in Offers, p \in Pages} ELSE {}

-----------------------------------------------------------------------------
(* Curation *)

(* Mutant: the names are compared as they are spelt. *)
ListedAsSpelt(name) == name \in directive.list

Listed(name) == \E l \in directive.list : Normal[l] = Normal[name]

(* compileDirective(...).allows, used by the listing filter and the call guard *)
Allows(name) ==
  \/ directive.mode = "off"
  \/ directive.mode = "allow" /\ Listed(name)
  \/ directive.mode = "deny" /\ ~Listed(name)

filterTools(s) == Only(s, {n \in Spelling : Allows(n)})

NamesOf(s) == {s[k].name : k \in DOMAIN s}

(* A Map filled from the array: of the entries of one name the last stays. *)
(* (canonicalizeTools sorts by name before; the sort is stable.)           *)
byName(s) == {s[k] : k \in {k \in DOMAIN s :
                \A j \in DOMAIN s : s[j].name = s[k].name => j <= k}}

(* Mutant: a redefined tool does not count. *)
diffNamesOnly(trusted, live) ==
  [added   |-> NamesOf(live) \ NamesOf(trusted),
   removed |-> NamesOf(trusted) \ NamesOf(live),
   changed |-> {}]

diffToolSurface(trusted, live) ==
  [added   |-> NamesOf(live) \ NamesOf(trusted),
   removed |-> NamesOf(trusted) \ NamesOf(live),
   changed |-> {t \in byName(trusted) : \E u \in byName(live) : u.name = t.name /\ u # t}]

hasToolDrift(diff) == diff.added \cup diff.removed \cup diff.changed # {}

Drifted(reply) == /\ pin.mode # "off"
                  /\ reply.kind = "tools"
                  /\ hasToolDrift(diffToolSurface(pin.surface, reply.tools))

Curating == directive.mode # "off" \/ pin.mode # "off"

-----------------------------------------------------------------------------
(* The audit recorder *)

Oldest(S) == CHOOSE i \in S : \A j \in S : i <= j

(* Mutant: the cap is checked one entry late. *)
callStartOneOver(id) ==
  inflight' = (IF Cardinality(inflight) > MaxInflight
               THEN inflight \ {Oldest(inflight)} ELSE inflight) \cup {id}

callStart(id) ==
  inflight' = (IF Cardinality(inflight) >= MaxInflight
               THEN inflight \ {Oldest(inflight)} ELSE inflight) \cup {id}

(* Mutant: a response whose call was evicted is recorded all the same. *)
callEndUntracked(id, outcome, drift) ==
  /\ inflight' = inflight \ {id}
  /\ log' = [log EXCEPT ![id] = IF drift THEN "drift" ELSE outcome]

(* What callEnd and drift together put on record for a response. *)
callEnd(id, outcome, drift) ==
  /\ inflight' = inflight \ {id}
  /\ log' = IF id \in inflight THEN [log EXCEPT ![id] = outcome]
            ELSE IF drift THEN [log EXCEPT ![id] = "drift"] ELSE log

-----------------------------------------------------------------------------
(* client.onMessage *)

Fresh(id) == \A j \in ClientIds : asked[j] # NoRequest => j < id

Ask(id, r) == Fresh(id) /\ asked' = [asked EXCEPT ![id] = r]

(* Mutant: a call without an id is not checked. *)
DeniedRequest(r) == r.kind = "call" /\ r.name # NoName /\ ~Allows(r.name)

Denied(r) == r.kind \in {"call", "note"} /\ r.name # NoName /\ ~Allows(r.name)

(* Mutant: the handler falls through to the send that ends it. *)
DenyCallFallsThrough(id, r) ==
  /\ Denied(r)
  /\ Ask(id, r)
  /\ log' = [log EXCEPT ![id] = "denied"]
  /\ answer' = IF r.kind = "call" THEN [answer EXCEPT ![id] = Error] ELSE answer
  /\ served' = served \cup {r.name}
  /\ open' = IF r.kind = "call" THEN open \cup {id} ELSE open
  /\ UNCHANGED <<directive, pin, peer, pendingToolListing, inflight>>

(* A filtered-out tools/call: audited, refused if it was a request, dropped *)
(* if it was a notification; the server never sees it.                      *)
DenyCall(id, r) ==
  /\ Denied(r)
  /\ Ask(id, r)
  /\ log' = [log EXCEPT ![id] = "denied"]
  /\ answer' = IF r.kind = "call" THEN [answer EXCEPT ![id] = Error] ELSE answer
  /\ UNCHANGED <<directive, pin, open, served, peer, pendingToolListing, inflight>>

(* Anything else is sent on: a call request starts an audit entry, a       *)
(* listing request is remembered so that its response can be curated.      *)
Forward(id, r) ==
  /\ ~Denied(r)
  /\ Ask(id, r)
  /\ IF r.kind = "call" THEN callStart(id) ELSE UNCHANGED inflight
  /\ pendingToolListing' = IF Curating /\ r.kind = "list"
                           THEN pendingToolListing \cup {id} ELSE pendingToolListing
  /\ served' = IF r.kind \in {"call", "note"} THEN served \cup {r.name} ELSE served
  /\ open' = IF r.kind = "note" THEN open ELSE open \cup {id}
  /\ UNCHANGED <<directive, pin, answer, peer, log>>

(* The client's response to a server request carries no method: forwarded. *)
ClientReply(sid) ==
  /\ peer[sid] = "asked"
  /\ peer' = [peer EXCEPT ![sid] = "answered"]
  /\ UNCHANGED <<directive, pin, asked, answer, open, served, proxyVars>>

-----------------------------------------------------------------------------
(* server.onMessage *)

(* Mutant: the drift of a blocked surface is reported and the tools let past. *)
CuratedWarnOnly(reply) ==
  IF reply.kind # "tools" THEN reply ELSE Listing(filterTools(reply.tools))

(* What the client is sent for a tracked listing. *)
Curated(reply) ==
  IF reply.kind # "tools" THEN reply
  ELSE IF Drifted(reply) /\ pin.mode = "block" THEN Error
  ELSE Listing(filterTools(reply.tools))

(* Mutant: only a response that carries tools is evicted. *)
EvictListing(id, reply) ==
  pendingToolListing' = IF reply.kind = "tools" THEN pendingToolListing \ {id}
                        ELSE pendingToolListing

(* Any message of the server with a tracked id ends the tracking. *)
Evict(id, reply) == pendingToolListing' = pendingToolListing \ {id}

(* A response to a request of the client. *)
ServerAnswer(id, reply) ==
  /\ id \in open
  /\ open' = open \ {id}
  /\ callEnd(id, IF reply = Error THEN "error" ELSE "ok",
                 id \in pendingToolListing /\ Drifted(reply))
  /\ answer' = [answer EXCEPT ![id] = IF id \in pendingToolListing
                                      THEN Curated(reply) ELSE reply]
  /\ Evict(id, reply)
  /\ UNCHANGED <<directive, pin, asked, served, peer>>

(* Mutant: the ids of server requests are tracked too. *)
ServerRequestTracked(sid) ==
  /\ peer[sid] = "unused"
  /\ peer' = [peer EXCEPT ![sid] = "asked"]
  /\ pendingToolListing' = pendingToolListing \cup {sid}
  /\ UNCHANGED <<directive, pin, asked, answer, open, served, inflight, log>>

(* A request of the server (ping, roots/list, sampling): forwarded, but its *)
(* id is looked up in the same set as the ids of the client's listings.     *)
ServerRequest(sid) ==
  /\ peer[sid] = "unused"
  /\ peer' = [peer EXCEPT ![sid] = "asked"]
  /\ Evict(sid, NoReply)
  /\ UNCHANGED <<directive, pin, asked, answer, open, served, inflight, log>>

-----------------------------------------------------------------------------
Init ==
  /\ directive \in Directives
  /\ pin \in Pins
  /\ asked = [i \in ClientIds |-> NoRequest]
  /\ answer = [i \in ClientIds |-> NoReply]
  /\ open = {}
  /\ served = {}
  /\ peer = [i \in ServerIds |-> "unused"]
  /\ pendingToolListing = {}
  /\ inflight = {}
  /\ log = [i \in ClientIds |-> "none"]

Next ==
  \/ \E id \in ClientIds, r \in Requests : DenyCall(id, r) \/ Forward(id, r)
  \/ \E id \in ClientIds : \E reply \in ServerReplies(asked[id]) : ServerAnswer(id, reply)
  \/ \E sid \in ServerIds : ServerRequest(sid) \/ ClientReply(sid)

Spec == Init /\ [][Next]_vars

-----------------------------------------------------------------------------
(* Correctness *)

TypeOK ==
  /\ directive \in Directives
  /\ pin \in Pins
  /\ asked \in [ClientIds -> Requests \cup {NoRequest}]
  /\ answer \in [ClientIds -> [kind : {"none", "ok", "error", "tools"}, tools : Surfaces]]
  /\ open \subseteq ClientIds
  /\ served \subseteq Names
  /\ peer \in [ServerIds -> {"unused", "asked", "answered"}]
  /\ pendingToolListing \subseteq ClientIds
  /\ inflight \subseteq ClientIds
  /\ log \in [ClientIds -> {"none", "ok", "error", "denied", "drift"}]

(* Every entry of a listing the client was given passes the directive; and *)
(* with a blocking pin the tools it lists are those that were trusted and  *)
(* the directive allows, no more, no less, each defined as it was: where a *)
(* name comes twice its last entry counts, here as in the code, which does *)
(* not compare those before it and lets them through.  All that whatever   *)
(* other requests were in flight when the listing was answered (proxy.ts:  *)
(* filter the list "in tools/list AND server/discover RESPONSES"; mode     *)
(* 'block': "replace the response with an error").                         *)
ListingsCurated ==
  \A i \in ClientIds : answer[i].kind = "tools" =>
    LET shown == answer[i].tools
    IN  /\ \A n \in NamesOf(shown) : Allows(n)
        /\ pin.mode = "block" =>
             byName(shown) = {t \in byName(pin.surface) : Allows(t.name)}

(* The list filter and the call guard agree (filter.ts: "agree by          *)
(* construction"): no call is refused, in any spelling, for a tool the     *)
(* client was shown in a listing.                                          *)
ShownIsCallable ==
  \A i, j \in ClientIds :
    /\ answer[i].kind = "tools"
    /\ log[j] = "denied"
    => \A n \in NamesOf(answer[i].tools) : Normal[n] # Normal[asked[j].name]

(* No tool call the directive filters out reaches the server in any        *)
(* spelling, as a request or as a notification, and each such call is on   *)
(* the audit record.                                                       *)
CallsCurated ==
  /\ \A n \in served : n # NoName => Allows(n)
  /\ \A i \in ClientIds : Denied(asked[i]) <=> log[i] = "denied"

(* The set of tracked listings holds exactly the listings still            *)
(* unanswered: nothing leaks (S22.13) and nothing is forgotten early.      *)
PendingExact ==
  pendingToolListing = {i \in open : Curating /\ asked[i].kind = "list"}

(* Every client request is, once, either waiting at the server or answered *)
(* for good; nothing is answered or audited that was not asked, and a      *)
(* waiting request is not on the audit record yet.                         *)
AnsweredOnce ==
  \A i \in ClientIds :
    /\ i \in open <=> asked[i].kind \in {"list", "call", "other"} /\ answer[i] = NoReply
    /\ asked[i] = NoRequest => answer[i] = NoReply /\ log[i] = "none"
    /\ i \in open => log[i] = "none"

(* The audit record of a forwarded call: only what the server answered is  *)
(* recorded, with the outcome the client saw; and a call that was answered *)
(* but is not on record was pushed out by MaxInflight later calls (S22.13).*)
AuditFaithful ==
  \A i \in ClientIds :
    /\ log[i] \in {"ok", "error"} => asked[i].kind = "call" /\ answer[i].kind = log[i]
    /\ asked[i].kind = "call" /\ i \notin open /\ log[i] = "none" =>
         Cardinality({j \in ClientIds : /\ j > i
                                        /\ asked[j].kind = "call"
                                        /\ log[j] # "denied"}) >= MaxInflight

(* The audit map never exceeds its cap and tracks only calls in flight.    *)
InflightBounded ==
  /\ Cardinality(inflight) <= MaxInflight
  /\ \A i \in inflight : i \in open /\ asked[i].kind = "call"

-----------------------------------------------------------------------------
(* What the proxy promises its client, and that this module keeps it: the  *)
(* session below forgets in-flight bookkeeping, audit and server requests. *)
Promise == INSTANCE CuratedSession WITH
  Ids <- ClientIds,
  allowed <- {n \in Spelling : Allows(n)},
  frozen <- IF pin.mode = "block" THEN {byName(pin.surface)} ELSE {}

(* The proxy implements the curated session: listings, refusals and        *)
(* answers cross it only as CuratedSession allows.                         *)
ImplementsSession == Promise!Spec
=============================================================================
