--------------------------- MODULE CuratedSession ---------------------------
(***************************************************************************)
(* What a curated MCP connection promises, with no proxy in sight: a client *)
(* asks, a server serves, every request is answered at most once and for   *)
(* good, a call outside the allowed set is refused and never served, and a *)
(* listing shows allowed tools only, and the frozen ones if any are: to    *)
(* the client the last entry of a name is the tool.                        *)
(***************************************************************************)
EXTENDS Naturals

CONSTANTS Spelling, NoName, Ids, Tools, Surfaces

VARIABLES
  allowed,   \* names the directive lets through; fixed for the session
  frozen,    \* the sets of tools a listing must show: at most one; fixed
  asked,     \* what each message of the client asked for
  answer,    \* what each request was answered
  served     \* names of the tool calls that reached the server

vars == <<allowed, frozen, asked, answer, served>>

Names     == Spelling \cup {NoName}
NoRequest == [kind |-> "none", name |-> NoName]
Requests  == [kind : {"call", "note"}, name : Names]
               \cup [kind : {"list", "other"}, name : {NoName}]
NoTools   == [k \in {} |-> k]
NoReply   == [kind |-> "none",  tools |-> NoTools]
Error     == [kind |-> "error", tools |-> NoTools]
Replies   == [kind : {"ok", "error"}, tools : {NoTools}] \cup [kind : {"tools"}, tools : Surfaces]

Permitted(r) == r.kind \in {"call", "note"} => r.name \in allowed \cup {NoName}

(* The tools of a listing. *)
Final(s) ==
  {s[k] : k \in {k \in DOMAIN s : \A j \in DOMAIN s : s[j].name = s[k].name => j <= k}}

(* A listing that may be shown. *)
Showable(s) ==
  /\ \A k \in DOMAIN s : s[k].name \in allowed
  /\ \A f \in frozen : Final(s) = {t \in f : t.name \in allowed}

Submit(id, r) ==
  /\ asked[id] = NoRequest
  /\ asked' = [asked EXCEPT ![id] = r]

(* A permitted message goes to the server. *)
Pass(id, r) ==
  /\ Permitted(r)
  /\ Submit(id, r)
  /\ served' = IF r.kind \in {"call", "note"} THEN served \cup {r.name} ELSE served
  /\ UNCHANGED <<allowed, frozen, answer>>

(* Any other is refused; a notification has nobody to tell. *)
Refuse(id, r) ==
  /\ ~Permitted(r)
  /\ Submit(id, r)
  /\ answer' = IF r.kind = "call" THEN [answer EXCEPT ![id] = Error] ELSE answer
  /\ UNCHANGED <<allowed, frozen, served>>

(* Any reply will do, but for a listing. *)
Respond(id, reply) ==
  /\ asked[id].kind \in {"list", "call", "other"}
  /\ answer[id] = NoReply
  /\ reply \in Replies
  /\ reply.kind = "tools" => asked[id].kind = "list" /\ Showable(reply.tools)
  /\ answer' = [answer EXCEPT ![id] = reply]
  /\ UNCHANGED <<allowed, frozen, asked, served>>

Init ==
  /\ allowed \in SUBSET Spelling
  /\ frozen \in SUBSET SUBSET Tools
  /\ asked = [i \in Ids |-> NoRequest]
  /\ answer = [i \in Ids |-> NoReply]
  /\ served = {}

Next ==
  \/ \E id \in Ids, r \in Requests : Pass(id, r) \/ Refuse(id, r)
  \/ \E id \in Ids : Respond(id, answer'[id])

Spec == Init /\ [][Next]_vars
=============================================================================
