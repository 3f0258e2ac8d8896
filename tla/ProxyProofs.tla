----------------------------- MODULE ProxyProofs -----------------------------
(***************************************************************************)
(* Proofs about Proxy, for every set of names, directives, pins, surfaces  *)
(* and ids.  The proxy's bookkeeping is right because a listing is tracked *)
(* from the moment it is forwarded to the moment it is answered, which     *)
(* needs the two id spaces to be apart: the theorems that rest on it       *)
(* assume DisjointIds.                                                     *)
(***************************************************************************)
EXTENDS Proxy, TLAPS, FiniteSetTheorems

USE NamesAssumption, OptionsAssumption, IdsAssumption

-----------------------------------------------------------------------------
(* Facts about the operators *)

LEMMA FreshIsUnasked ==
  ASSUME NEW id \in ClientIds, Fresh(id)
  PROVE  asked[id] = NoRequest
BY DEF Fresh

LEMMA KindOfRequest ==
  ASSUME NEW r \in Requests
  PROVE  /\ r.kind \in {"list", "call", "note", "other"}
         /\ r.name \in Names
         /\ r # NoRequest
         /\ r.kind \in {"list", "other"} => r.name = NoName
BY DEF Requests, NoRequest, Names

LEMMA FunctionIsSurface ==
  ASSUME NEW T \in SUBSET (1..MaxTools), NEW f \in [T -> Tools]
  PROVE  f \in Surfaces
<1>1. [T -> Tools] \in {[S -> Tools] : S \in SUBSET (1..MaxTools)}
  OBVIOUS
<1>. QED  BY <1>1 DEF Surfaces

LEMMA SurfaceIsFunction ==
  ASSUME NEW s \in Surfaces
  PROVE  /\ DOMAIN s \in SUBSET (1..MaxTools)
         /\ s \in [DOMAIN s -> Tools]
         /\ NamesOf(s) \subseteq Spelling
BY DEF Surfaces, NamesOf, Tools

LEMMA NoToolsType == NoTools \in Surfaces
<1>1. NoTools \in [{} -> Tools]
  BY DEF NoTools
<1>. QED  BY <1>1, FunctionIsSurface

(* A page of a surface, and what the directive leaves of one, are surfaces. *)
LEMMA OnlyType ==
  ASSUME NEW s \in Surfaces, NEW names
  PROVE  Only(s, names) \in Surfaces
<1> DEFINE T == {k \in DOMAIN s : s[k].name \in names}
<1>1. Only(s, names) \in [T -> Tools] /\ T \in SUBSET (1..MaxTools)
  BY SurfaceIsFunction DEF Only
<1>. QED  BY <1>1, FunctionIsSurface

LEMMA FilterType ==
  ASSUME NEW s \in Surfaces
  PROVE  filterTools(s) \in Surfaces
BY OnlyType DEF filterTools

(* A name that is listed has a last entry.                                 *)
LEMMA LastEntry ==
  ASSUME NEW s \in Surfaces, NEW n \in NamesOf(s)
  PROVE  \E t \in byName(s) : t.name = n
<1> DEFINE D == {MaxTools - k : k \in {k \in DOMAIN s : s[k].name = n}}
<1>0. /\ \A k \in DOMAIN s : k \in Nat /\ k <= MaxTools /\ MaxTools - k \in Nat
      /\ MaxTools \in Nat
  BY SurfaceIsFunction
<1>1. D \subseteq Nat /\ D # {}
  BY <1>0 DEF NamesOf
<1>2. PICK d \in D : \A e \in D : <<e, d>> \notin OpToRel(<, Nat)
  <2> HIDE DEF D
  <2>. QED  BY <1>1, WFMin, NatLessThanWellFounded
<1>3. \A e \in D : ~(e < d)
  BY <1>1, <1>2 DEF OpToRel
<1>4. PICK k \in DOMAIN s : s[k].name = n /\ d = MaxTools - k
  OBVIOUS
<1>5. ASSUME NEW j \in DOMAIN s, s[j].name = s[k].name
      PROVE  j <= k
  <2>1. MaxTools - j \in D
    BY <1>4, <1>5
  <2>2. ~(MaxTools - j < d)
    BY <1>3, <2>1
  <2>. QED  BY <1>0, <1>4, <2>2
<1>6. s[k] \in byName(s)
  BY <1>4, <1>5 DEF byName
<1>. QED  BY <1>4, <1>6

LEMMA TheirNames ==
  ASSUME NEW s, NEW t \in byName(s)
  PROVE  t.name \in NamesOf(s)
BY DEF byName, NamesOf

(* Of what the directive leaves the last entries are those it leaves of    *)
(* the last entries: entries of one name are kept or dropped together.     *)
LEMMA LastOfFiltered ==
  ASSUME NEW s \in Surfaces
  PROVE  /\ byName(filterTools(s)) = {t \in byName(s) : Allows(t.name)}
         /\ \A n \in NamesOf(filterTools(s)) : Allows(n)
<1> DEFINE f == filterTools(s)
<1>1. \A k \in DOMAIN s : s[k].name \in Spelling
  BY SurfaceIsFunction DEF NamesOf
<1>2. /\ DOMAIN f = {k \in DOMAIN s : Allows(s[k].name)}
      /\ \A k \in DOMAIN f : f[k] = s[k]
  BY <1>1 DEF filterTools, Only
<1> HIDE DEF f
<1>3. ASSUME NEW t \in byName(f)
      PROVE  t \in byName(s) /\ Allows(t.name)
  <2>1. PICK k \in DOMAIN f : /\ t = f[k]
                              /\ \A j \in DOMAIN f : f[j].name = f[k].name => j <= k
    BY <1>3 DEF byName
  <2>2. \A j \in DOMAIN s : s[j].name = s[k].name => j <= k
    BY <1>2, <2>1
  <2>. QED  BY <1>2, <2>1, <2>2 DEF byName
<1>4. ASSUME NEW t \in byName(s), Allows(t.name)
      PROVE  t \in byName(f)
  <2>1. PICK k \in DOMAIN s : /\ t = s[k]
                              /\ \A j \in DOMAIN s : s[j].name = s[k].name => j <= k
    BY <1>4 DEF byName
  <2>2. k \in DOMAIN f /\ f[k] = t /\ \A j \in DOMAIN f : f[j].name = f[k].name => j <= k
    BY <1>2, <1>4, <2>1
  <2>. QED  BY <2>2 DEF byName
<1>5. \A n \in NamesOf(f) : Allows(n)
  BY <1>2 DEF NamesOf
<1>. QED  BY <1>3, <1>4, <1>5 DEF f

Reply == [kind : {"ok", "error", "tools"}, tools : Surfaces]

LEMMA ServerReplyType ==
  ASSUME NEW r, NEW reply \in ServerReplies(r)
  PROVE  /\ reply \in Reply
         /\ reply.kind = "tools" => r.kind = "list"
<1>1. CASE reply \in {Ok, Error}
  BY <1>1, NoToolsType DEF Ok, Error, Reply
<1>2. CASE r.kind = "list" /\ \E s \in Offers, p \in Pages : reply = Listing(Only(s, p))
  BY <1>2, OnlyType DEF Listing, Reply
<1>. QED  BY <1>1, <1>2 DEF ServerReplies

LEMMA CuratedType ==
  ASSUME NEW reply \in Reply
  PROVE  Curated(reply) \in Reply
BY FilterType, NoToolsType DEF Curated, Reply, Listing, Error

(* No drift against the pinned surface means the same tools, as long as of *)
(* the entries of one name the last counts.                                *)
LEMMA NoDriftIsSame ==
  ASSUME NEW t \in Surfaces, NEW s \in Surfaces, ~hasToolDrift(diffToolSurface(t, s))
  PROVE  byName(s) = byName(t)
<1>1. /\ NamesOf(s) = NamesOf(t)
      /\ \A v \in byName(t), u \in byName(s) : u.name = v.name => u = v
  BY DEF hasToolDrift, diffToolSurface
<1>2. ASSUME NEW u \in byName(s)
      PROVE  u \in byName(t)
  <2>1. PICK v \in byName(t) : v.name = u.name
    BY <1>1, TheirNames, LastEntry
  <2>. QED  BY <1>1, <2>1
<1>3. ASSUME NEW v \in byName(t)
      PROVE  v \in byName(s)
  <2>1. PICK u \in byName(s) : u.name = v.name
    BY <1>1, TheirNames, LastEntry
  <2>. QED  BY <1>1, <2>1
<1>. QED  BY <1>2, <1>3

(* The guard and the filter see a name only through its normal form.       *)
LEMMA AllowsByNormalForm ==
  ASSUME NEW m \in Spelling, NEW n \in Spelling, Normal[m] = Normal[n]
  PROVE  Allows(m) <=> Allows(n)
BY DEF Allows, Listed

-----------------------------------------------------------------------------
(* Type correctness *)

LEMMA InitTypeOK == Init => TypeOK
BY NoToolsType DEF Init, TypeOK, NoReply

LEMMA StepTypeOK == TypeOK /\ [Next]_vars => TypeOK'
<1> SUFFICES ASSUME TypeOK, [Next]_vars
             PROVE  TypeOK'
  OBVIOUS
<1> USE DEF TypeOK
<1>1. ASSUME NEW id \in ClientIds, NEW r \in Requests, DenyCall(id, r)
      PROVE  TypeOK'
  BY <1>1, NoToolsType DEF DenyCall, Ask, Error
<1>2. ASSUME NEW id \in ClientIds, NEW r \in Requests, Forward(id, r)
      PROVE  TypeOK'
  <2>1. r.name \in Names
    BY KindOfRequest
  <2>2. inflight' \subseteq ClientIds
    BY <1>2 DEF Forward, callStart
  <2>3. asked' \in [ClientIds -> Requests \cup {NoRequest}]
    BY <1>2 DEF Forward, Ask
  <2>4. served' \subseteq Names
    BY <1>2, <2>1 DEF Forward
  <2>5. /\ open' \subseteq ClientIds
        /\ pendingToolListing' \subseteq ClientIds
    BY <1>2 DEF Forward
  <2>. QED  BY <1>2, <2>2, <2>3, <2>4, <2>5 DEF Forward
<1>3. ASSUME NEW id \in ClientIds, NEW reply \in ServerReplies(asked[id]),
             ServerAnswer(id, reply)
      PROVE  TypeOK'
  <2>1. reply \in Reply /\ Curated(reply) \in Reply
    BY ServerReplyType, CuratedType
  <2>2. answer' \in [ClientIds -> [kind : {"none", "ok", "error", "tools"}, tools : Surfaces]]
    BY <1>3, <2>1 DEF ServerAnswer, Evict, Reply
  <2>. QED  BY <1>3, <2>2 DEF ServerAnswer, Evict, callEnd
<1>4. ASSUME NEW sid \in ServerIds, ServerRequest(sid)
      PROVE  TypeOK'
  BY <1>4 DEF ServerRequest, Evict
<1>5. ASSUME NEW sid \in ServerIds, ClientReply(sid)
      PROVE  TypeOK'
  BY <1>5 DEF ClientReply, proxyVars
<1>6. CASE UNCHANGED vars
  BY <1>6 DEF vars, proxyVars
<1>. QED  BY <1>1, <1>2, <1>3, <1>4, <1>5, <1>6 DEF Next

(* Every variable keeps its type: in particular no id of the server ever   *)
(* enters the sets the proxy keeps for the client's requests.              *)
THEOREM TypeCorrect == Spec => []TypeOK
BY InitTypeOK, StepTypeOK, PTL DEF Spec

-----------------------------------------------------------------------------
(***************************************************************************)
(* The inductive invariant.  ListingsCurated is not inductive alone: that  *)
(* an answered listing was curated rests on its id still being tracked     *)
(* (PendingExact), and that rests on every open request being one the      *)
(* client made and nobody answered (AnsweredOnce).                         *)
(***************************************************************************)
TrackedCalls == \A i \in inflight : i \in open /\ asked[i].kind = "call"

IInv == /\ TypeOK
        /\ AnsweredOnce
        /\ PendingExact
        /\ TrackedCalls
        /\ CallsCurated
        /\ ListingsCurated

LEMMA InitIInv == Init => IInv
<1> SUFFICES ASSUME Init PROVE IInv
  OBVIOUS
<1>1. TypeOK
  BY InitTypeOK
<1>2. AnsweredOnce
  BY DEF Init, AnsweredOnce, NoRequest
<1>3. PendingExact /\ TrackedCalls
  BY DEF Init, PendingExact, TrackedCalls
<1>4. CallsCurated
  BY DEF Init, CallsCurated, Denied, NoRequest
<1>5. ListingsCurated
  BY DEF Init, ListingsCurated, NoReply
<1>. QED  BY <1>1, <1>2, <1>3, <1>4, <1>5 DEF IInv

(* The options of a connection are fixed, so what they say of a name is.   *)
LEMMA OptionsFixed ==
  ASSUME [Next]_vars
  PROVE  /\ directive' = directive /\ pin' = pin
         /\ \A n : Allows(n)' <=> Allows(n)
         /\ \A r : Denied(r)' <=> Denied(r)
         /\ Curating' <=> Curating
<1>1. directive' = directive /\ pin' = pin
  BY DEF Next, vars, DenyCall, Forward, ServerAnswer, Evict, ServerRequest, ClientReply
<1>2. \A n : Allows(n)' <=> Allows(n)
  BY <1>1 DEF Allows, Listed
<1>. QED  BY <1>1, <1>2 DEF Denied, Curating

(* What answering a listing puts in front of the client.                   *)
LEMMA CuratedIsCurated ==
  ASSUME TypeOK, NEW reply \in Reply, Curated(reply).kind = "tools"
  PROVE  /\ \A n \in NamesOf(Curated(reply).tools) : Allows(n)
         /\ pin.mode = "block" => byName(Curated(reply).tools)
                                    = {t \in byName(pin.surface) : Allows(t.name)}
<1>1. /\ reply.kind = "tools"
      /\ ~(Drifted(reply) /\ pin.mode = "block")
      /\ Curated(reply).tools = filterTools(reply.tools)
  BY DEF Curated, Error, Listing
<1>2. reply.tools \in Surfaces /\ pin.surface \in Surfaces
  BY DEF Reply, TypeOK
<1>3. pin.mode = "block" => byName(reply.tools) = byName(pin.surface)
  BY <1>1, <1>2, NoDriftIsSame DEF Drifted
<1>. QED  BY <1>1, <1>2, <1>3, LastOfFiltered

LEMMA UntrackedIsCurated ==
  ASSUME ~Curating, NEW n
  PROVE  Allows(n) /\ pin.mode # "block"
BY DEF Curating, Allows

LEMMA StepIInv ==
  ASSUME DisjointIds
  PROVE  IInv /\ [Next]_vars => IInv'
<1> SUFFICES ASSUME IInv, [Next]_vars
             PROVE  IInv'
  OBVIOUS
<1>0. TypeOK /\ TypeOK'
  BY StepTypeOK DEF IInv
<1> USE <1>0
<1>1. ASSUME NEW id \in ClientIds, NEW r \in Requests, DenyCall(id, r)
      PROVE  IInv'
  <2>1. /\ asked[id] = NoRequest /\ asked' = [asked EXCEPT ![id] = r]
        /\ r.kind \in {"call", "note"} /\ r # NoRequest
        /\ id \notin open /\ log[id] = "none" /\ answer[id] = NoReply
    BY <1>1, FreshIsUnasked, KindOfRequest
       DEF DenyCall, Denied, Ask, IInv, AnsweredOnce, NoRequest
  <2>2. AnsweredOnce'
    BY <1>1, <2>1 DEF DenyCall, IInv, AnsweredOnce, TypeOK, Error, NoReply
  <2>3. PendingExact'
    BY <1>1, <2>1, OptionsFixed DEF DenyCall, IInv, PendingExact, TypeOK
  <2>4. TrackedCalls'
    BY <1>1, <2>1 DEF DenyCall, IInv, TrackedCalls, TypeOK
  <2>5. CallsCurated'
    BY <1>1, <2>1, OptionsFixed DEF DenyCall, IInv, CallsCurated, TypeOK
  <2>6. ListingsCurated'
    BY <1>1, <2>1, OptionsFixed DEF DenyCall, IInv, ListingsCurated, TypeOK, Error
  <2>. QED  BY <2>2, <2>3, <2>4, <2>5, <2>6 DEF IInv
<1>2. ASSUME NEW id \in ClientIds, NEW r \in Requests, Forward(id, r)
      PROVE  IInv'
  <2>1. /\ asked[id] = NoRequest /\ asked' = [asked EXCEPT ![id] = r]
        /\ r.kind \in {"list", "call", "note", "other"} /\ r # NoRequest
        /\ r.name \in Names
        /\ id \notin open /\ log[id] = "none" /\ answer[id] = NoReply
    BY <1>2, FreshIsUnasked, KindOfRequest DEF Forward, Ask, IInv, AnsweredOnce, NoRequest
  <2>2. AnsweredOnce'
    BY <1>2, <2>1 DEF Forward, IInv, AnsweredOnce, TypeOK
  <2>3. PendingExact'
    BY <1>2, <2>1, OptionsFixed DEF Forward, IInv, PendingExact, TypeOK
  <2>4. TrackedCalls'
    <3>1. \A i \in inflight' : (i = id /\ r.kind = "call") \/ i \in inflight
      BY <1>2 DEF Forward, callStart
    <3>. QED  BY <1>2, <2>1, <3>1 DEF Forward, IInv, TrackedCalls, TypeOK
  <2>5. CallsCurated'
    <3>1. r.kind \in {"call", "note"} => r.name = NoName \/ Allows(r.name)
      BY <1>2 DEF Forward, Denied
    <3>2. \A n \in served' : n # NoName => Allows(n)
      BY <1>2, <3>1 DEF Forward, IInv, CallsCurated
    <3>3. \A i \in ClientIds : Denied(asked'[i]) <=> log'[i] = "denied"
      BY <1>2, <2>1 DEF Forward, IInv, CallsCurated, TypeOK
    <3>. QED  BY <3>2, <3>3, OptionsFixed DEF CallsCurated
  <2>6. ListingsCurated'
    BY <1>2, OptionsFixed DEF Forward, IInv, ListingsCurated
  <2>. QED  BY <2>2, <2>3, <2>4, <2>5, <2>6 DEF IInv
<1>3. ASSUME NEW id \in ClientIds, NEW reply \in ServerReplies(asked[id]),
             ServerAnswer(id, reply)
      PROVE  IInv'
  <2> DEFINE sent == IF id \in pendingToolListing THEN Curated(reply) ELSE reply
  <2>1. /\ id \in open /\ log[id] = "none"
        /\ asked[id].kind \in {"list", "call", "other"}
        /\ asked' = asked /\ answer' = [answer EXCEPT ![id] = sent]
        /\ open' = open \ {id}
    BY <1>3 DEF ServerAnswer, Evict, IInv, AnsweredOnce
  <2>2. sent \in Reply /\ sent # NoReply
    BY ServerReplyType, CuratedType DEF Reply, NoReply
  <2>3. \A i \in ClientIds : i # id => log'[i] = log[i]
    BY <1>3 DEF ServerAnswer, Evict, callEnd, TypeOK
  <2>4. log'[id] \in {"none", "ok", "error", "drift"}
    BY <1>3, <2>1 DEF ServerAnswer, Evict, callEnd, TypeOK
  <2>5. AnsweredOnce'
    <3>1. answer'[id] # NoReply /\ id \notin open'
      BY <2>1, <2>2 DEF TypeOK
    <3>2. \A i \in ClientIds : i # id => answer'[i] = answer[i] /\ (i \in open' <=> i \in open)
      BY <2>1 DEF TypeOK
    <3>3. asked[id] # NoRequest
      BY <2>1 DEF NoRequest
    <3>. QED  BY <2>1, <2>3, <3>1, <3>2, <3>3 DEF IInv, AnsweredOnce
  <2>6. PendingExact'
    BY <1>3, <2>1, OptionsFixed DEF ServerAnswer, Evict, IInv, PendingExact
  <2>7. TrackedCalls'
    BY <1>3, <2>1 DEF ServerAnswer, Evict, callEnd, IInv, TrackedCalls
  <2>8. CallsCurated'
    <3>1. ~Denied(asked[id])
      BY <2>1 DEF IInv, CallsCurated
    <3>2. \A i \in ClientIds : Denied(asked'[i]) <=> log'[i] = "denied"
      BY <2>1, <2>3, <2>4, <3>1 DEF IInv, CallsCurated
    <3>3. served' = served
      BY <1>3 DEF ServerAnswer, Evict
    <3>. QED  BY <3>2, <3>3, OptionsFixed DEF IInv, CallsCurated
  <2>9. ListingsCurated'
    <3>1. ASSUME sent.kind = "tools"
          PROVE  /\ \A n \in NamesOf(sent.tools) : Allows(n)
                 /\ pin.mode = "block" => byName(sent.tools)
                                            = {t \in byName(pin.surface) : Allows(t.name)}
      <4>1. CASE id \in pendingToolListing
        BY <3>1, <4>1, ServerReplyType, CuratedIsCurated
      <4>2. CASE id \notin pendingToolListing
        <5>1. asked[id].kind = "list"
          BY <3>1, <4>2, ServerReplyType
        <5>2. ~Curating
          BY <2>1, <4>2, <5>1 DEF IInv, PendingExact
        <5>. QED  BY <5>2, UntrackedIsCurated
      <4>. QED  BY <4>1, <4>2
    <3>2. /\ answer'[id] = sent
          /\ \A i \in ClientIds : i # id => answer'[i] = answer[i]
      BY <2>1 DEF TypeOK
    <3> HIDE DEF sent
    <3>3. ASSUME NEW i \in ClientIds, answer'[i].kind = "tools"
          PROVE  /\ \A n \in NamesOf(answer'[i].tools) : Allows(n)
                 /\ pin.mode = "block" => byName(answer'[i].tools)
                                            = {t \in byName(pin.surface) : Allows(t.name)}
      <4>1. CASE i = id
        BY <3>1, <3>2, <3>3, <4>1
      <4>2. CASE i # id
        BY <3>2, <3>3, <4>2 DEF IInv, ListingsCurated
      <4>. QED  BY <4>1, <4>2
    <3>. QED  BY <3>3, OptionsFixed DEF ListingsCurated
  <2>. QED  BY <2>5, <2>6, <2>7, <2>8, <2>9 DEF IInv
<1>4. ASSUME NEW sid \in ServerIds, ServerRequest(sid)
      PROVE  IInv'
  <2>1. sid \notin pendingToolListing
    BY DisjointIds DEF DisjointIds, TypeOK
  <2>2. /\ pendingToolListing' = pendingToolListing
        /\ UNCHANGED <<asked, answer, open, served, inflight, log>>
    BY <1>4, <2>1 DEF ServerRequest, Evict
  <2>. QED  BY <2>2, OptionsFixed DEF IInv, AnsweredOnce, PendingExact, TrackedCalls,
                                      CallsCurated, ListingsCurated
<1>5. CASE UNCHANGED <<asked, answer, open, served, pendingToolListing, inflight, log>>
  BY <1>5, OptionsFixed DEF IInv, AnsweredOnce, PendingExact, TrackedCalls,
                            CallsCurated, ListingsCurated
<1>6. ASSUME NEW sid \in ServerIds, ClientReply(sid)
      PROVE  IInv'
  BY <1>5, <1>6 DEF ClientReply, proxyVars
<1>7. CASE UNCHANGED vars
  BY <1>5, <1>7 DEF vars, proxyVars
<1>. QED  BY <1>1, <1>2, <1>3, <1>4, <1>6, <1>7 DEF Next

LEMMA Invariance == ASSUME DisjointIds PROVE Spec => []IInv
<1>1. IInv /\ [Next]_vars => IInv'
  BY DisjointIds, StepIInv
<1>. QED  BY <1>1, InitIInv, PTL DEF Spec

-----------------------------------------------------------------------------
(* What the invariant gives *)

(* Whatever interleaving of requests and answers, no listing reaches the   *)
(* client with a tool the directive filters out, or, under a blocking pin, *)
(* with other tools than the trusted ones, of two entries of one name the  *)
(* last being the tool.                                                    *)
THEOREM ListingsAreCurated == ASSUME DisjointIds PROVE Spec => []ListingsCurated
<1>1. IInv => ListingsCurated
  BY DEF IInv
<1>. QED  BY <1>1, Invariance, PTL

(* No filtered-out call ever reaches the server.                           *)
THEOREM CallsAreCurated == ASSUME DisjointIds PROVE Spec => []CallsCurated
<1>1. IInv => CallsCurated
  BY DEF IInv
<1>. QED  BY <1>1, Invariance, PTL

(* The tracked set neither leaks ids nor loses them early.                 *)
THEOREM TrackingIsExact == ASSUME DisjointIds PROVE Spec => []PendingExact
<1>1. IInv => PendingExact
  BY DEF IInv
<1>. QED  BY <1>1, Invariance, PTL

(* Every request is waiting or answered, once.                             *)
THEOREM RequestsAnsweredOnce == ASSUME DisjointIds PROVE Spec => []AnsweredOnce
<1>1. IInv => AnsweredOnce
  BY DEF IInv
<1>. QED  BY <1>1, Invariance, PTL

(* A tool the client was shown is never refused, in any spelling.          *)
THEOREM ShownToolsAreCallable == ASSUME DisjointIds PROVE Spec => []ShownIsCallable
<1>1. IInv => ShownIsCallable
  <2> SUFFICES ASSUME IInv, NEW i \in ClientIds, NEW j \in ClientIds,
                      answer[i].kind = "tools", log[j] = "denied",
                      NEW n \in NamesOf(answer[i].tools),
                      Normal[n] = Normal[asked[j].name]
               PROVE  FALSE
    BY DEF ShownIsCallable
  <2>1. Allows(n)
    BY DEF IInv, ListingsCurated
  <2>2. n \in Spelling
    BY SurfaceIsFunction DEF IInv, TypeOK
  <2>3. Denied(asked[j])
    BY DEF IInv, CallsCurated
  <2>4. asked[j].name \in Spelling /\ ~Allows(asked[j].name)
    BY <2>3, KindOfRequest DEF Denied, IInv, TypeOK, Names, NoRequest
  <2>. QED  BY <2>1, <2>2, <2>4, AllowsByNormalForm
<1>. QED  BY <1>1, Invariance, PTL

-----------------------------------------------------------------------------
(* Refinement: DenyCall is Refuse, Forward is Pass, ServerAnswer is        *)
(* Respond, and the steps of the server's own requests stutter.            *)

AllowedNames == {n \in Spelling : Allows(n)}
FrozenTo     == IF pin.mode = "block" THEN {byName(pin.surface)} ELSE {}

LEMMA SameVocabulary ==
  /\ Promise!Names = Names /\ Promise!NoRequest = NoRequest
  /\ Promise!Requests = Requests /\ Promise!NoTools = NoTools
  /\ Promise!NoReply = NoReply /\ Promise!Error = Error
BY DEF Promise!Names, Names, Promise!NoRequest, NoRequest, Promise!Requests, Requests,
       Promise!NoTools, NoTools, Promise!NoReply, NoReply, Promise!Error, Error

LEMMA SameFinal ==
  ASSUME NEW s
  PROVE  Promise!Final(s) = byName(s)
BY DEF Promise!Final, byName

LEMMA InitRefines == Init => Promise!Init
<1> SUFFICES ASSUME Init PROVE Promise!Init
  OBVIOUS
<1>1. pin.surface \in Surfaces
  BY DEF Init
<1>2. byName(pin.surface) \subseteq Tools
  BY <1>1, SurfaceIsFunction DEF byName
<1>3. FrozenTo \in SUBSET SUBSET Tools
  BY <1>2 DEF FrozenTo
<1>. QED  BY <1>3, SameVocabulary DEF Init, Promise!Init, FrozenTo

(* Replies carry no tools unless they are listings. *)
LEMMA ReplyShape ==
  ASSUME NEW r, NEW reply \in ServerReplies(r)
  PROVE  /\ reply \in Promise!Replies
         /\ Curated(reply) \in Promise!Replies
<1>1. reply \in Reply /\ Curated(reply) \in Reply
  BY ServerReplyType, CuratedType
<1>2. reply \in {Ok, Error} \/ reply.kind = "tools"
  BY DEF ServerReplies, Listing
<1>3. reply \in Promise!Replies
  BY <1>1, <1>2, SameVocabulary DEF Ok, Error, Reply, Promise!Replies
<1>4. Curated(reply) \in {Ok, Error} \/ Curated(reply).kind = "tools"
  BY <1>2 DEF Curated, Listing
<1>. QED  BY <1>1, <1>3, <1>4, SameVocabulary DEF Ok, Error, Reply, Promise!Replies

LEMMA StepRefines ==
  IInv /\ IInv' /\ [Next]_vars => [Promise!Next]_Promise!vars
<1> SUFFICES ASSUME IInv, IInv', [Next]_vars
             PROVE  Promise!Next \/ UNCHANGED Promise!vars
  OBVIOUS
<1>0. AllowedNames' = AllowedNames /\ FrozenTo' = FrozenTo
  BY OptionsFixed DEF AllowedNames, FrozenTo
<1>1. ASSUME NEW id \in ClientIds, NEW r \in Requests, DenyCall(id, r)
      PROVE  Promise!Next
  <2>1. ~Promise!Permitted(r)
    BY <1>1, KindOfRequest DEF DenyCall, Denied, Promise!Permitted, Names
  <2>2. Promise!Submit(id, r)
    BY <1>1, FreshIsUnasked, SameVocabulary DEF DenyCall, Ask, Promise!Submit
  <2>3. Promise!Refuse(id, r)
    BY <1>0, <1>1, <2>1, <2>2, SameVocabulary
       DEF DenyCall, Promise!Refuse, AllowedNames, FrozenTo
  <2>. QED  BY <2>3, SameVocabulary DEF Promise!Next
<1>2. ASSUME NEW id \in ClientIds, NEW r \in Requests, Forward(id, r)
      PROVE  Promise!Next
  <2>1. Promise!Permitted(r)
    BY <1>2, KindOfRequest DEF Forward, Denied, Promise!Permitted, Names
  <2>2. Promise!Submit(id, r)
    BY <1>2, FreshIsUnasked, SameVocabulary DEF Forward, Ask, Promise!Submit
  <2>3. Promise!Pass(id, r)
    BY <1>0, <1>2, <2>1, <2>2 DEF Forward, Promise!Pass, AllowedNames, FrozenTo
  <2>. QED  BY <2>3, SameVocabulary DEF Promise!Next
<1>3. ASSUME NEW id \in ClientIds, NEW reply \in ServerReplies(asked[id]),
             ServerAnswer(id, reply)
      PROVE  Promise!Next
  <2> DEFINE sent == IF id \in pendingToolListing THEN Curated(reply) ELSE reply
  <2>1. /\ asked[id].kind \in {"list", "call", "other"} /\ answer[id] = NoReply
        /\ answer' = [answer EXCEPT ![id] = sent]
        /\ UNCHANGED <<asked, served>>
    BY <1>3 DEF ServerAnswer, Evict, IInv, AnsweredOnce
  <2>2. sent \in Promise!Replies
    BY ReplyShape
  <2>3. sent.kind = "tools" => asked[id].kind = "list"
    BY ServerReplyType DEF Curated, Error, Listing
  <2>4. sent.kind = "tools" => Promise!Showable(sent.tools)
    <3> SUFFICES ASSUME sent.kind = "tools"
                 PROVE  Promise!Showable(sent.tools)
      OBVIOUS
    <3>1. answer'[id] = sent /\ sent.tools \in Surfaces
      BY <2>1 DEF IInv, TypeOK
    <3> HIDE DEF sent
    <3>2. /\ \A n \in NamesOf(sent.tools) : Allows(n)
          /\ pin.mode = "block" => byName(sent.tools)
                                     = {t \in byName(pin.surface) : Allows(t.name)}
      <4>1. /\ \A n \in NamesOf(answer'[id].tools) : Allows(n)'
            /\ pin'.mode = "block" => byName(answer'[id].tools)
                                        = {t \in byName(pin'.surface) : Allows(t.name)'}
        BY <3>1 DEF IInv, ListingsCurated
      <4>. QED  BY <3>1, <4>1, OptionsFixed
    <3>3. \A k \in DOMAIN sent.tools : sent.tools[k].name \in AllowedNames
      BY <3>1, <3>2, SurfaceIsFunction DEF AllowedNames, NamesOf
    <3>4. pin.surface \in Surfaces
      BY DEF IInv, TypeOK
    <3>5. \A f \in FrozenTo : Promise!Final(sent.tools) = {t \in f : t.name \in AllowedNames}
      <4>1. \A t \in byName(pin.surface) : t.name \in AllowedNames <=> Allows(t.name)
        BY <3>4, TheirNames, SurfaceIsFunction DEF AllowedNames
      <4>. QED  BY <3>2, <4>1, SameFinal DEF FrozenTo
    <3>. QED  BY <3>3, <3>5 DEF Promise!Showable, AllowedNames, FrozenTo
  <2>5. Promise!Respond(id, sent)
    BY <1>0, <2>1, <2>2, <2>3, <2>4, SameVocabulary
       DEF Promise!Respond, AllowedNames, FrozenTo
  <2>6. answer'[id] = sent
    BY <2>1 DEF IInv, TypeOK
  <2>. QED  BY <2>5, <2>6 DEF Promise!Next
<1>4. ASSUME NEW sid \in ServerIds, ServerRequest(sid) \/ ClientReply(sid)
      PROVE  UNCHANGED Promise!vars
  BY <1>0, <1>4 DEF ServerRequest, Evict, ClientReply, Promise!vars, AllowedNames, FrozenTo
<1>5. CASE UNCHANGED vars
  BY <1>0, <1>5 DEF vars, Promise!vars, AllowedNames, FrozenTo
<1>. QED  BY <1>1, <1>2, <1>3, <1>4, <1>5 DEF Next

(* The proxy, bookkeeping and all, implements the session it promises.     *)
THEOREM ProxyImplementsSession == ASSUME DisjointIds PROVE Spec => ImplementsSession
<1>1. Spec => []IInv
  BY Invariance
<1>2. IInv /\ IInv' /\ [Next]_vars => [Promise!Next]_Promise!vars
  BY StepRefines
<1>. QED  BY <1>1, <1>2, InitRefines, PTL DEF Spec, ImplementsSession, Promise!Spec

-----------------------------------------------------------------------------
(***************************************************************************)
(* The audit record.  A call that is neither tracked nor on record was     *)
(* evicted, and eviction takes the oldest of MaxInflight tracked calls to  *)
(* make room for one that is newer still: MaxInflight later calls exist,   *)
(* and there are only ever more of them.                                   *)
(***************************************************************************)
Asked    == {i \in ClientIds : asked[i] # NoRequest}
Later(i) == {j \in ClientIds : j > i /\ asked[j].kind = "call" /\ log[j] # "denied"}

LostWereOvertaken ==
  \A i \in ClientIds :
    asked[i].kind = "call" /\ log[i] = "none" /\ i \notin inflight =>
      Cardinality(Later(i)) >= MaxInflight

RecordedAsAnswered ==
  \A i \in ClientIds :
    log[i] \in {"ok", "error"} => asked[i].kind = "call" /\ answer[i].kind = log[i]

AInv == /\ IsFiniteSet(Asked)
        /\ Cardinality(inflight) <= MaxInflight
        /\ LostWereOvertaken
        /\ RecordedAsAnswered

LEMMA LaterFinite ==
  ASSUME IsFiniteSet(Asked), NEW i
  PROVE  IsFiniteSet(Later(i)) /\ Cardinality(Later(i)) \in Nat
<1>1. Later(i) \subseteq Asked
  BY DEF Later, Asked, NoRequest
<1>. QED  BY <1>1, FS_Subset, FS_CardinalityType

LEMMA OldestIsLeast ==
  ASSUME NEW S \in SUBSET ClientIds, S # {}
  PROVE  Oldest(S) \in S /\ \A j \in S : Oldest(S) <= j
<1>1. S \subseteq Nat
  OBVIOUS
<1>2. \E i \in S : \A j \in S : <<j, i>> \notin OpToRel(<, Nat)
  BY <1>1, NatLessThanWellFounded, WFMin
<1>3. ASSUME NEW i \in Nat, NEW j \in Nat, j < i
      PROVE  <<j, i>> \in OpToRel(<, Nat)
  <2>1. <<j, i>> \in Nat \X Nat /\ <<j, i>>[1] = j /\ <<j, i>>[2] = i
    OBVIOUS
  <2>. QED  BY <1>3, <2>1, Zenon DEF OpToRel
<1>4. \E i \in S : \A j \in S : ~(j < i)
  BY <1>1, <1>2, <1>3, Zenon
<1>5. \E i \in S : \A j \in S : i <= j
  BY <1>1, <1>4
<1>. QED  BY <1>5, Zenon DEF Oldest

(* What starting a call leaves in the map: never more than the cap, and    *)
(* whatever it drops is older than MaxInflight calls it keeps.             *)
LEMMA StartBounded ==
  ASSUME TypeOK, IsFiniteSet(inflight), Cardinality(inflight) <= MaxInflight,
         NEW id \in ClientIds, \A j \in inflight : j < id, callStart(id)
  PROVE  /\ IsFiniteSet(inflight')
         /\ Cardinality(inflight') <= MaxInflight
         /\ \A i \in inflight \ inflight' : /\ \A j \in inflight' : j > i
                                           /\ Cardinality(inflight') = MaxInflight
<1>0. /\ inflight \subseteq ClientIds /\ ClientIds \subseteq Nat /\ id \notin inflight
      /\ Cardinality(inflight) \in Nat /\ MaxInflight \in Nat \ {0}
  BY FS_CardinalityType DEF TypeOK
<1>1. CASE Cardinality(inflight) >= MaxInflight
  <2> DEFINE o == Oldest(inflight)
             kept == inflight \ {o}
  <2>1. inflight # {}
    BY <1>0, <1>1, FS_EmptySet
  <2>2. o \in inflight /\ \A j \in inflight : o <= j
    BY <1>0, <2>1, OldestIsLeast
  <2>3. inflight' = kept \cup {id}
    BY <1>1 DEF callStart
  <2>4. IsFiniteSet(kept) /\ Cardinality(kept) = Cardinality(inflight) - 1
    BY <2>2, FS_RemoveElement
  <2>5. /\ IsFiniteSet(kept \cup {id})
        /\ Cardinality(kept \cup {id}) = Cardinality(kept) + 1
    BY <1>0, <2>4, FS_AddElement
  <2>6. \A j \in inflight' : j > o
    <3>1. /\ o \in Nat /\ id \in Nat /\ o < id
          /\ \A j \in inflight : j \in Nat /\ o <= j
      BY <1>0, <2>2
    <3> HIDE DEF o
    <3>2. \A j \in kept : j \in Nat /\ o <= j /\ j # o
      BY <3>1
    <3>. QED  BY <2>3, <3>1, <3>2
  <2>7. Cardinality(inflight') = MaxInflight
    BY <1>0, <1>1, <2>3, <2>4, <2>5
  <2>8. inflight \ inflight' \subseteq {o}
    BY <2>3
  <2>. QED  BY <1>0, <2>3, <2>5, <2>6, <2>7, <2>8
<1>2. CASE ~(Cardinality(inflight) >= MaxInflight)
  <2>1. inflight' = inflight \cup {id}
    BY <1>2 DEF callStart
  <2>2. /\ IsFiniteSet(inflight \cup {id})
        /\ Cardinality(inflight \cup {id}) = Cardinality(inflight) + 1
    BY <1>0, FS_AddElement
  <2>. QED  BY <1>0, <1>2, <2>1, <2>2
<1>. QED  BY <1>1, <1>2

LEMMA InitAInv == Init => AInv
<1> SUFFICES ASSUME Init PROVE AInv
  OBVIOUS
<1>1. Asked = {}
  BY DEF Init, Asked
<1>2. inflight = {} /\ Cardinality({}) = 0 /\ IsFiniteSet({})
  BY FS_EmptySet DEF Init
<1>3. LostWereOvertaken /\ RecordedAsAnswered
  BY DEF Init, LostWereOvertaken, RecordedAsAnswered, NoRequest
<1>. QED  BY <1>1, <1>2, <1>3 DEF AInv

LEMMA StepAInv == IInv /\ IInv' /\ AInv /\ [Next]_vars => AInv'
<1> SUFFICES ASSUME IInv, IInv', AInv, [Next]_vars
             PROVE  AInv'
  OBVIOUS
<1>0. /\ TypeOK /\ TypeOK' /\ ClientIds \subseteq Nat /\ inflight \subseteq Asked
      /\ IsFiniteSet(inflight) /\ Cardinality(inflight) \in Nat
  <2>1. inflight \subseteq Asked
    BY DEF IInv, TypeOK, TrackedCalls, Asked, NoRequest
  <2>. QED  BY <2>1, FS_Subset, FS_CardinalityType DEF IInv, AInv
<1> USE <1>0
(* Later calls are never forgotten. *)
<1>1. ASSUME IsFiniteSet(Asked'), NEW i, Later(i) \subseteq Later(i)',
             Cardinality(Later(i)) >= MaxInflight
      PROVE  Cardinality(Later(i)') >= MaxInflight
  <2>1. Later(i)' \subseteq Asked'
    BY DEF Later, Asked, NoRequest
  <2>2. IsFiniteSet(Later(i)') /\ Cardinality(Later(i)') \in Nat
    BY <1>1, <2>1, FS_Subset, FS_CardinalityType
  <2>3. Cardinality(Later(i)) <= Cardinality(Later(i)')
    BY <1>1, <2>2, FS_Subset
  <2>4. Cardinality(Later(i)) \in Nat
    BY LaterFinite DEF AInv
  <2>. QED  BY <1>1, <2>2, <2>3, <2>4
<1>2. ASSUME NEW id \in ClientIds, NEW r \in Requests, Ask(id, r)
      PROVE  /\ IsFiniteSet(Asked')
             /\ \A j \in Asked : j < id
             /\ asked[id] = NoRequest /\ log[id] = "none" /\ answer[id] = NoReply
  <2>1. Asked' \subseteq Asked \cup {id}
    BY <1>2 DEF Ask, Asked, TypeOK
  <2>2. IsFiniteSet(Asked \cup {id})
    BY FS_AddElement DEF AInv
  <2>3. \A j \in Asked : j < id
    BY <1>2 DEF Ask, Fresh, Asked
  <2>. QED  BY <1>2, <2>1, <2>2, <2>3, FS_Subset, FreshIsUnasked DEF Ask, IInv, AnsweredOnce
<1>3. ASSUME NEW id \in ClientIds, NEW r \in Requests, DenyCall(id, r)
      PROVE  AInv'
  <2>1. IsFiniteSet(Asked') /\ asked[id] = NoRequest /\ answer[id] = NoReply
    BY <1>2, <1>3 DEF DenyCall
  <2>2. Cardinality(inflight') <= MaxInflight
    BY <1>3 DEF DenyCall, AInv
  <2>3. LostWereOvertaken'
    <3> SUFFICES ASSUME NEW i \in ClientIds, asked'[i].kind = "call",
                        log'[i] = "none", i \notin inflight'
                 PROVE  Cardinality(Later(i)') >= MaxInflight
      BY DEF LostWereOvertaken
    <3>1. i # id /\ asked[i].kind = "call" /\ log[i] = "none" /\ i \notin inflight
      BY <1>3 DEF DenyCall, Ask, TypeOK
    <3>2. Later(i) \subseteq Later(i)'
      BY <1>3, <2>1 DEF DenyCall, Ask, Later, TypeOK, NoRequest
    <3>. QED  BY <1>1, <2>1, <3>1, <3>2 DEF AInv, LostWereOvertaken
  <2>4. RecordedAsAnswered'
    BY <1>3, <2>1 DEF DenyCall, Ask, AInv, RecordedAsAnswered, TypeOK
  <2>. QED  BY <2>1, <2>2, <2>3, <2>4 DEF AInv
<1>4. ASSUME NEW id \in ClientIds, NEW r \in Requests, Forward(id, r)
      PROVE  AInv'
  <2>1. /\ IsFiniteSet(Asked') /\ asked[id] = NoRequest /\ log[id] = "none"
        /\ \A j \in inflight : j < id
        /\ log' = log /\ answer' = answer /\ asked' = [asked EXCEPT ![id] = r]
    BY <1>2, <1>4 DEF Forward, Ask
  <2>2. /\ Cardinality(inflight') <= MaxInflight
        /\ \A i \in inflight \ inflight' : /\ \A j \in inflight' : j > i
                                          /\ Cardinality(inflight') = MaxInflight
    <3>1. CASE r.kind = "call"
      BY <1>4, <2>1, <3>1, StartBounded DEF Forward, AInv
    <3>2. CASE r.kind # "call"
      BY <1>4, <3>2 DEF Forward, AInv
    <3>. QED  BY <3>1, <3>2
  <2>3. LostWereOvertaken'
    <3> SUFFICES ASSUME NEW i \in ClientIds, asked'[i].kind = "call",
                        log'[i] = "none", i \notin inflight'
                 PROVE  Cardinality(Later(i)') >= MaxInflight
      BY DEF LostWereOvertaken
    <3>1. i # id
      BY <1>4, <2>1 DEF Forward, callStart, TypeOK
    <3>2. asked[i].kind = "call" /\ log[i] = "none"
      BY <2>1, <3>1 DEF TypeOK
    <3>3. Later(i) \subseteq Later(i)'
      BY <2>1 DEF Later, TypeOK, NoRequest
    <3>4. CASE i \notin inflight
      BY <1>1, <2>1, <3>2, <3>3, <3>4 DEF AInv, LostWereOvertaken
    <3>5. CASE i \in inflight
      <4>1. inflight' \subseteq Later(i)'
        <5> SUFFICES ASSUME NEW j \in inflight' PROVE j \in Later(i)'
          OBVIOUS
        <5>1. j \in ClientIds /\ j > i
          BY <2>2, <3>5 DEF TypeOK
        <5>2. asked'[j].kind = "call" /\ log'[j] # "denied"
          <6>1. j \in open' /\ asked'[j].kind = "call"
            BY DEF IInv, TrackedCalls
          <6>2. log'[j] = "none"
            BY <5>1, <6>1 DEF IInv, AnsweredOnce
          <6>. QED  BY <6>1, <6>2
        <5>. QED  BY <5>1, <5>2 DEF Later
      <4>2. Later(i)' \subseteq Asked'
        BY DEF Later, Asked, NoRequest
      <4>3. IsFiniteSet(Later(i)') /\ Cardinality(Later(i)') \in Nat
        BY <2>1, <4>2, FS_Subset, FS_CardinalityType
      <4>4. Cardinality(inflight') <= Cardinality(Later(i)')
        BY <4>1, <4>3, FS_Subset
      <4>. QED  BY <2>2, <3>5, <4>3, <4>4
    <3>. QED  BY <3>4, <3>5
  <2>4. RecordedAsAnswered'
    BY <2>1 DEF AInv, RecordedAsAnswered, TypeOK
  <2>. QED  BY <2>1, <2>2, <2>3, <2>4 DEF AInv
<1>5. ASSUME NEW id \in ClientIds, NEW reply \in ServerReplies(asked[id]),
             ServerAnswer(id, reply)
      PROVE  AInv'
  <2>1. /\ id \in open /\ log[id] = "none" /\ asked' = asked /\ Asked' = Asked
        /\ inflight' = inflight \ {id}
        /\ \A i \in ClientIds : i # id => log'[i] = log[i] /\ answer'[i] = answer[i]
    BY <1>5 DEF ServerAnswer, Evict, callEnd, IInv, AnsweredOnce, TypeOK, Asked
  <2>2. Cardinality(inflight') <= MaxInflight
    <3>1. Cardinality(inflight') = IF id \in inflight THEN Cardinality(inflight) - 1
                                                      ELSE Cardinality(inflight)
      BY <2>1, FS_RemoveElement
    <3>. QED  BY <3>1 DEF AInv
  <2>3. log'[id] \in {"none", "ok", "error", "drift"}
    BY <1>5, <2>1 DEF ServerAnswer, Evict, callEnd, TypeOK
  <2>4. LostWereOvertaken'
    <3> SUFFICES ASSUME NEW i \in ClientIds, asked'[i].kind = "call",
                        log'[i] = "none", i \notin inflight'
                 PROVE  Cardinality(Later(i)') >= MaxInflight
      BY DEF LostWereOvertaken
    <3>1. log[i] = "none"
      BY <2>1
    <3>2. i \notin inflight
      BY <1>5, <2>1 DEF ServerAnswer, Evict, callEnd, TypeOK
    <3>3. Later(i) \subseteq Later(i)'
      BY <2>1, <2>3 DEF Later
    <3>. QED  BY <1>1, <2>1, <3>1, <3>2, <3>3 DEF AInv, LostWereOvertaken
  <2>5. RecordedAsAnswered'
    <3>1. ASSUME log'[id] \in {"ok", "error"}
          PROVE  asked[id].kind = "call" /\ answer'[id].kind = log'[id]
      <4>1. id \in inflight /\ log'[id] = IF reply = Error THEN "error" ELSE "ok"
        BY <1>5, <2>1, <3>1 DEF ServerAnswer, Evict, callEnd, TypeOK
      <4>2. asked[id].kind = "call" /\ id \notin pendingToolListing
        BY <4>1 DEF IInv, TrackedCalls, PendingExact
      <4>3. reply \in {Ok, Error} /\ answer'[id] = reply
        BY <1>5, <4>2 DEF ServerAnswer, Evict, ServerReplies, TypeOK
      <4>. QED  BY <4>1, <4>2, <4>3 DEF Ok, Error
    <3>. QED  BY <2>1, <3>1 DEF AInv, RecordedAsAnswered
  <2>. QED  BY <2>1, <2>2, <2>4, <2>5 DEF AInv
<1>6. CASE UNCHANGED <<asked, answer, inflight, log>>
  BY <1>6 DEF AInv, Asked, LostWereOvertaken, Later, RecordedAsAnswered
<1>7. ASSUME NEW sid \in ServerIds, ServerRequest(sid) \/ ClientReply(sid)
      PROVE  AInv'
  BY <1>6, <1>7 DEF ServerRequest, Evict, ClientReply, proxyVars
<1>8. CASE UNCHANGED vars
  BY <1>6, <1>8 DEF vars, proxyVars
<1>. QED  BY <1>3, <1>4, <1>5, <1>7, <1>8 DEF Next

LEMMA AuditInvariance == ASSUME DisjointIds PROVE Spec => []AInv
<1>1. Spec => []IInv
  BY Invariance
<1>2. IInv /\ IInv' /\ AInv /\ [Next]_vars => AInv'
  BY StepAInv
<1>. QED  BY <1>1, <1>2, InitAInv, PTL DEF Spec

(* The audit record is faithful: it holds what the server answered, and    *)
(* loses a call only to MaxInflight later ones.                            *)
THEOREM AuditIsFaithful == ASSUME DisjointIds PROVE Spec => []AuditFaithful
<1>1. IInv /\ AInv => AuditFaithful
  BY DEF IInv, TrackedCalls, AInv, LostWereOvertaken, RecordedAsAnswered, AuditFaithful, Later
<1>. QED  BY <1>1, Invariance, AuditInvariance, PTL

(* The recorder's memory is bounded by its cap.                            *)
THEOREM InflightIsBounded == ASSUME DisjointIds PROVE Spec => []InflightBounded
<1>1. IInv /\ AInv => InflightBounded
  BY DEF IInv, TrackedCalls, AInv, InflightBounded
<1>. QED  BY <1>1, Invariance, AuditInvariance, PTL
=============================================================================
