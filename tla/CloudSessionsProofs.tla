------------------------- MODULE CloudSessionsProofs -------------------------
(***************************************************************************)
(* Theorems about CloudSessions: for any number of processes, machines,    *)
(* logins and faults, a device code opens one session, a session has one   *)
(* live token, none once a used one came back, and what a keychain holds   *)
(* is good unless something befell the session.                            *)
(***************************************************************************)
EXTENDS CloudSessions, FiniteSetTheorems, SequenceTheorems, TLAPS

Code == [status : {"pending", "approved", "claimed", "expired"},
         over : BOOLEAN, machine : Machines, echoed : BOOLEAN]
Row  == [family : Tokens, code : Codes, machine : Machines,
         rotated : BOOLEAN, revoked : BOOLEAN, expired : BOOLEAN]
Call == [step : {"none", "poll", "claim", "insert", "refresh", "reuse", "commit", "answered"},
         arg : Codes \cup (0..Pending)]

(* What a call is about exists: a device code, or a token.                 *)
OnCode(x)  == call[x].step \in {"poll", "claim", "insert"}
OnToken(x) == call[x].step \in {"refresh", "reuse", "commit"}
CallOK(x) ==
  /\ OnCode(x)  => call[x].arg \in DOMAIN codes
  /\ OnToken(x) => call[x].arg \in Issued
  /\ call[x].step = "answered" => call[x].arg \in {Refusal, Pending} \cup Issued
Calls == \A x \in Callers : CallOK(x)

(* A process that logs in holds its code, one that saves holds a token;    *)
(* only one that waits for an answer has a call.                           *)
AboutCode(x) == OnCode(x) \/ (call[x].step = "answered" /\ call[x].arg = Pending)
HoldOK(p) ==
  /\ pc[p] \in {"login", "polling"} \/ AboutCode(p) => held[p] \in DOMAIN codes
  /\ pc[p] = "save" => held[p] \in Issued
  /\ pc[p] \in {"idle", "login", "save"} => call[p].step = "none"
Holdings == \A p \in Procs : HoldOK(p)

(* A family is named for its first token, and is one machine's.            *)
Families ==
  /\ \A t \in Issued : Family(t) \in Issued
  /\ \A t, u \in Issued : Family(t) = Family(u) => rows[t].machine = rows[u].machine
  /\ doomed \subseteq Issued

Typed == TypeOK /\ Calls /\ Holdings /\ Families

(* Whoever is to insert a session alone claimed the code, and none is      *)
(* there yet.                                                              *)
Inserting(x, c) == call[x].step = "insert" /\ call[x].arg = c
Claims ==
  /\ \A x \in Callers, c \in DOMAIN codes : Inserting(x, c) =>
       /\ codes[c].status = "claimed"
       /\ \A t \in Issued : rows[t].code # c
       /\ \A y \in Callers : Inserting(y, c) => y = x
  /\ \A t \in Issued : rows[t].code \in DOMAIN codes /\ codes[rows[t].code].status = "claimed"

(* Of a family with no overlapping rotations one token is not used yet;    *)
(* the token that a rotation is about to replace is neither used nor       *)
(* revoked; and a doomed family is revoked but for a call that is about to *)
(* revoke it.                                                              *)
Noticed(f) == \E x \in Callers : call[x].step = "reuse" /\ Family(call[x].arg) = f
Unused ==
  \A t, u \in Issued : Family(t) = Family(u) /\ Family(t) \notin late =>
    rows[t].rotated \/ rows[u].rotated \/ t = u
Rotating ==
  \A x \in Callers : call[x].step = "commit" /\ Family(call[x].arg) \notin late =>
    ~rows[call[x].arg].rotated /\ ~rows[call[x].arg].revoked
Doomed ==
  \A t \in Issued : Family(t) \in doomed /\ Family(t) \notin late =>
    rows[t].revoked \/ Noticed(Family(t))

Spent == Unused /\ Rotating /\ Doomed

OneFamily == \A t, u \in Issued : rows[t].code = rows[u].code => Family(t) = Family(u)

IInv == Typed /\ Claims /\ OneFamily /\ Spent

-----------------------------------------------------------------------------
LEMMA InitIInv == Init => IInv
<1> SUFFICES ASSUME Init PROVE IInv
  OBVIOUS
<1> USE SessionAssumption
<1>1. /\ codes = <<>> /\ rows = <<>> /\ Issued = {} /\ DOMAIN codes = {}
      /\ call = [x \in Callers |-> NoCall] /\ faults = 0
      /\ doomed = {} /\ late = {} /\ excused = {}
  BY DEF Init, Issued
<1>2. /\ keychain = [m \in Machines |-> 0] /\ fresh = [m \in Machines |-> FALSE]
      /\ pc = [p \in Procs |-> "idle"] /\ held = [p \in Procs |-> 0]
  BY DEF Init
<1>3. NoCall \in Call /\ NoCall.step = "none"
  BY DEF NoCall, Call, Pending
<1>4. codes \in Seq(Code) /\ Len(codes) <= MaxLogins /\ rows \in Seq(Row) /\ Len(rows) <= MaxTokens
  BY <1>1
<1>5. call \in [Callers -> Call]
  BY <1>1, <1>3
<1>6. TypeOK
  BY <1>1, <1>2, <1>4, <1>5 DEF TypeOK, Code, Row, Call
<1>7. \A x \in Callers : call[x].step = "none"
  BY <1>1, <1>3
<1>8. Calls /\ Holdings /\ Families
  BY <1>1, <1>2, <1>7 DEF Calls, Holdings, Families, CallOK, HoldOK, OnCode, OnToken,
                     AboutCode, Callers
<1>9. Claims /\ OneFamily /\ Unused /\ Rotating /\ Doomed
  BY <1>1, <1>7 DEF Claims, Inserting, OneFamily, Unused, Rotating, Doomed
<1> QED
  BY <1>6, <1>8, <1>9 DEF IInv, Typed, Spent

-----------------------------------------------------------------------------
LEMMA Types ==
  ASSUME Typed
  PROVE  /\ codes \in Seq(Code) /\ Len(codes) \in Nat /\ Len(codes) <= MaxLogins
         /\ DOMAIN codes = 1..Len(codes)
         /\ rows \in Seq(Row) /\ Len(rows) \in Nat /\ Len(rows) <= MaxTokens
         /\ Issued = 1..Len(rows) /\ Issued \subseteq Tokens
         /\ call \in [Callers -> Call]
         /\ Pending \notin Issued /\ Refusal \notin Issued
BY SessionAssumption, LenProperties DEF Typed, TypeOK, Code, Row, Call, Issued, Tokens, Pending, Refusal

(* Codes and tokens are only added to; only the call of one caller, and    *)
(* what one process holds, changes in a step.                              *)
Grows == DOMAIN codes \subseteq DOMAIN codes' /\ Issued \subseteq Issued'

LEMMA KeepCalls ==
  ASSUME Calls, Grows, NEW x \in Callers, CallOK(x)',
         \A y \in Callers \ {x} : call'[y] = call[y]
  PROVE  Calls'
<1> SUFFICES ASSUME NEW y \in Callers, y # x PROVE CallOK(y)'
  BY DEF Calls
<1>1. CallOK(y) /\ call'[y] = call[y]
  BY DEF Calls
<1> QED
  BY <1>1 DEF CallOK, OnCode, OnToken, Grows

LEMMA KeepHoldings ==
  ASSUME Holdings, Grows, NEW x \in Callers,
         \A y \in Callers \ {x} : call'[y] = call[y],
         \A p \in Procs \ {x} : pc'[p] = pc[p] /\ held'[p] = held[p],
         x \in Procs => HoldOK(x)'
  PROVE  Holdings'
<1> SUFFICES ASSUME NEW p \in Procs, p # x PROVE HoldOK(p)'
  BY DEF Holdings
<1>1. HoldOK(p) /\ call'[p] = call[p] /\ pc'[p] = pc[p] /\ held'[p] = held[p]
  BY DEF Holdings, Callers
<1> QED
  BY <1>1 DEF HoldOK, AboutCode, OnCode, Grows

(* Revoking a set of tokens changes nothing else of any.                   *)
LEMMA Revoking ==
  ASSUME Typed, NEW R,
         rows' = [t \in Issued |-> IF t \in R THEN [rows[t] EXCEPT !.revoked = TRUE] ELSE rows[t]]
  PROVE  /\ rows' \in Seq(Row) /\ Len(rows') = Len(rows) /\ Issued' = Issued
         /\ \A t \in Issued : /\ rows'[t].family = rows[t].family
                             /\ rows'[t].code = rows[t].code
                             /\ rows'[t].machine = rows[t].machine
                             /\ rows'[t].rotated = rows[t].rotated
                             /\ rows'[t].revoked <=> (t \in R \/ rows[t].revoked)
<1>1. \A t \in Issued : rows[t] \in Row
  BY Types, ElementOfSeq
<1>2. \A t \in Issued : [rows[t] EXCEPT !.revoked = TRUE] \in Row
  BY <1>1 DEF Row
<1>3. rows' \in [1..Len(rows) -> Row]
  BY <1>1, <1>2, Types
<1>4. rows' \in Seq(Row) /\ Len(rows') = Len(rows)
  BY <1>3, Types
<1>5. Issued' = Issued
  BY DEF Issued
<1> QED
  BY <1>1, <1>4, <1>5 DEF Row

(* A token that is issued comes after all others.                          *)
LEMMA Issuing ==
  ASSUME Typed, NEW row \in Row, NEW old, Len(rows) + 1 \in Tokens,
         old \in Seq(Row), Len(old) = Len(rows),
         rows' = Append(old, row)
  PROVE  /\ rows' \in Seq(Row) /\ Len(rows') <= MaxTokens
         /\ Issued' = Issued \cup {Len(rows) + 1} /\ Len(rows) + 1 \notin Issued
         /\ rows'[Len(rows) + 1] = row
         /\ \A t \in Issued : rows'[t] = old[t]
<1>1. Len(rows) \in Nat /\ Issued = 1..Len(rows)
  BY Types
<1>2. rows' \in Seq(Row) /\ Len(rows') = Len(rows) + 1
  BY <1>1
<1>3. Issued' = 1..(Len(rows) + 1)
  BY <1>2, LenProperties DEF Issued
<1>4. rows'[Len(rows) + 1] = row /\ \A t \in 1..Len(rows) : rows'[t] = old[t]
  BY <1>1
<1> QED
  BY <1>1, <1>2, <1>3, <1>4, SessionAssumption DEF Tokens

LEMMA KeepTyped ==
  ASSUME Typed, Grows, NEW x \in Callers,
         codes' \in Seq(Code), Len(codes') <= MaxLogins,
         rows' \in Seq(Row), Len(rows') <= MaxTokens, Families',
         call' \in [Callers -> Call], CallOK(x)',
         \A y \in Callers \ {x} : call'[y] = call[y],
         pc' \in [Procs -> {"idle", "login", "polling", "refreshing", "save"}],
         held' \in [Procs -> Nat],
         \A p \in Procs \ {x} : pc'[p] = pc[p] /\ held'[p] = held[p],
         x \in Procs => HoldOK(x)',
         keychain' \in [Machines -> {0} \cup Issued'], fresh' \in [Machines -> BOOLEAN],
         faults' \in 0..MaxFaults, late' \subseteq Tokens, excused' \subseteq Tokens
  PROVE  Typed'
<1>1. Calls' /\ Holdings'
  BY KeepCalls, KeepHoldings DEF Typed
<1>2. Issued' \subseteq Tokens
  BY LenProperties, SessionAssumption DEF Issued, Tokens
<1>3. doomed' \subseteq Tokens
  BY <1>2 DEF Families
<1>4. TypeOK'
  BY <1>3 DEF TypeOK, Code, Row, Call
<1> QED
  BY <1>1, <1>4 DEF Typed

(* What a step leaves of the tables that the properties speak of.          *)
QuietRows ==
  /\ Issued' = Issued /\ late' = late /\ doomed' \subseteq doomed
  /\ \A t \in Issued : /\ rows'[t].family = rows[t].family /\ rows'[t].code = rows[t].code
                      /\ rows'[t].machine = rows[t].machine
                      /\ rows'[t].rotated = rows[t].rotated
                      /\ rows'[t].revoked = rows[t].revoked
QuietCodes ==
  \A c \in DOMAIN codes : codes[c].status = "claimed" => codes'[c].status = "claimed"

LEMMA QuietFamilies == ASSUME Typed, QuietRows PROVE Families'
BY DEF Typed, QuietRows, Families, Family

LEMMA ClaimsQuiet ==
  ASSUME Typed, Claims, OneFamily, Grows, QuietCodes, Issued' = Issued,
         \A t \in Issued : rows'[t].family = rows[t].family /\ rows'[t].code = rows[t].code,
         \A x \in Callers : call'[x].step = "insert" => call'[x] = call[x]
  PROVE  Claims' /\ OneFamily'
<1>1. \A x \in Callers : call'[x].step = "insert" =>
        call[x].step = "insert" /\ call'[x].arg = call[x].arg /\ call[x].arg \in DOMAIN codes
  BY DEF Typed, Calls, CallOK, OnCode
<1>2. ASSUME NEW x \in Callers, NEW c \in DOMAIN codes', Inserting(x, c)'
      PROVE  /\ codes'[c].status = "claimed"
             /\ \A t \in Issued' : rows'[t].code # c
             /\ \A y \in Callers : Inserting(y, c)' => y = x
  <2>1. c \in DOMAIN codes /\ Inserting(x, c)
    BY <1>1, <1>2 DEF Inserting
  <2>2. \A y \in Callers : Inserting(y, c)' => Inserting(y, c)
    BY <1>1 DEF Inserting
  <2> QED
    BY <2>1, <2>2 DEF Claims, QuietCodes
<1>3. \A t \in Issued' : rows'[t].code \in DOMAIN codes' /\ codes'[rows'[t].code].status = "claimed"
  BY DEF Claims, QuietCodes, Grows
<1>4. OneFamily'
  BY DEF OneFamily, Family
<1> QED
  BY <1>2, <1>3, <1>4 DEF Claims

LEMMA SpentQuiet ==
  ASSUME Typed, Spent, QuietRows,
         \A x \in Callers : call'[x].step = "commit" => call'[x] = call[x],
         \A x \in Callers : call[x].step = "reuse" =>
           call'[x] = call[x] \/ Family(call[x].arg) \notin doomed'
  PROVE  Spent'
<1>1. Unused'
  BY DEF Spent, Unused, QuietRows, Family
<1>2. Rotating'
  <2> SUFFICES ASSUME NEW x \in Callers, call'[x].step = "commit",
                      Family(call[x].arg)' \notin late'
               PROVE  ~rows'[call'[x].arg].rotated /\ ~rows'[call'[x].arg].revoked
    BY DEF Rotating
  <2>1. call'[x] = call[x] /\ call[x].arg \in Issued
    BY DEF Typed, Calls, CallOK, OnToken
  <2> QED
    BY <2>1 DEF Spent, Rotating, QuietRows, Family
<1>3. Doomed'
  <2> SUFFICES ASSUME NEW t \in Issued, Family(t) \in doomed', Family(t) \notin late
               PROVE  rows[t].revoked \/ Noticed(Family(t))'
    BY DEF Doomed, QuietRows, Family
  <2>1. CASE rows[t].revoked
    BY <2>1
  <2>2. CASE ~rows[t].revoked
    <3>1. PICK x \in Callers : call[x].step = "reuse" /\ Family(call[x].arg) = Family(t)
      BY <2>2 DEF Spent, Doomed, Noticed, QuietRows
    <3>2. call'[x] = call[x] /\ call[x].arg \in Issued
      BY <3>1 DEF Typed, Calls, CallOK, OnToken
    <3> QED
      BY <3>1, <3>2 DEF Noticed, QuietRows, Family
  <2> QED
    BY <2>1, <2>2
<1> QED
  BY <1>1, <1>2, <1>3 DEF Spent

-----------------------------------------------------------------------------
(* Steps that leave the tables as they are, but for the state of a code or *)
(* the end of a token's life.                                              *)
LEMMA QuietStep ==
  ASSUME IInv, Grows, QuietRows, QuietCodes, NEW x \in Callers,
         codes' \in Seq(Code), Len(codes') <= MaxLogins,
         rows' \in Seq(Row), Len(rows') <= MaxTokens,
         call' \in [Callers -> Call], CallOK(x)',
         \A y \in Callers \ {x} : call'[y] = call[y],
         call'[x].step \in {"insert", "commit"} => call'[x] = call[x],
         call[x].step = "reuse" => call'[x] = call[x] \/ Family(call[x].arg) \notin doomed',
         pc' \in [Procs -> {"idle", "login", "polling", "refreshing", "save"}],
         held' \in [Procs -> Nat],
         \A p \in Procs \ {x} : pc'[p] = pc[p] /\ held'[p] = held[p],
         x \in Procs => HoldOK(x)',
         keychain' \in [Machines -> {0} \cup Issued], fresh' \in [Machines -> BOOLEAN],
         faults' \in 0..MaxFaults, excused' \subseteq Tokens
  PROVE  IInv'
<1>1. Typed'
  <2>1. late' \subseteq Tokens /\ Issued' = Issued
    BY DEF IInv, Typed, TypeOK, QuietRows
  <2>2. Families'
    BY QuietFamilies DEF IInv
  <2> QED
    BY <2>1, <2>2, KeepTyped DEF IInv
<1>2. Claims' /\ OneFamily'
  BY ClaimsQuiet DEF IInv, QuietRows
<1>3. Spent'
  BY SpentQuiet DEF IInv
<1> QED
  BY <1>1, <1>2, <1>3 DEF IInv

(* What is unchanged is typed.                                             *)
LEMMA Unchanged ==
  ASSUME Typed
  PROVE  /\ UNCHANGED codes => codes' \in Seq(Code) /\ Len(codes') <= MaxLogins
                               /\ DOMAIN codes \subseteq DOMAIN codes' /\ QuietCodes
         /\ UNCHANGED rows => rows' \in Seq(Row) /\ Len(rows') <= MaxTokens /\ Issued' = Issued
         /\ UNCHANGED <<rows, late, doomed>> => QuietRows
         /\ UNCHANGED call => call' \in [Callers -> Call]
         /\ UNCHANGED pc => pc' \in [Procs -> {"idle", "login", "polling", "refreshing", "save"}]
         /\ UNCHANGED held => held' \in [Procs -> Nat]
         /\ UNCHANGED keychain => keychain' \in [Machines -> {0} \cup Issued]
         /\ UNCHANGED fresh => fresh' \in [Machines -> BOOLEAN]
         /\ UNCHANGED faults \/ Fault => faults' \in 0..MaxFaults
         /\ UNCHANGED late => late' \subseteq Tokens
         /\ UNCHANGED excused => excused' \subseteq Tokens
<1>1. TypeOK
  BY DEF Typed
<1>2. UNCHANGED codes => codes' \in Seq(Code) /\ Len(codes') <= MaxLogins
                         /\ DOMAIN codes \subseteq DOMAIN codes' /\ QuietCodes
  BY Types DEF QuietCodes
<1>3. UNCHANGED rows => rows' \in Seq(Row) /\ Len(rows') <= MaxTokens /\ Issued' = Issued
  BY Types DEF Issued
<1>4. UNCHANGED <<rows, late, doomed>> => QuietRows
  BY DEF QuietRows, Issued
<1>5. UNCHANGED faults \/ Fault => faults' \in 0..MaxFaults
  BY <1>1, SessionAssumption DEF TypeOK, Fault
<1> QED
  BY <1>1, <1>2, <1>3, <1>4, <1>5, Types DEF TypeOK

(* One call has another step, about a code or a token there is.            *)
LEMMA Stepped ==
  ASSUME Typed, NEW x \in Callers, NEW step, NEW arg, Step(x, step, arg),
         [step |-> step, arg |-> arg] \in Call
  PROVE  /\ call' \in [Callers -> Call]
         /\ call'[x].step = step /\ call'[x].arg = arg
         /\ \A y \in Callers \ {x} : call'[y] = call[y]
BY Types DEF Step

LEMMA PollDeviceAuthInv ==
  ASSUME IInv, NEW x \in Callers, PollDeviceAuth(x)
  PROVE  IInv'
<1> DEFINE c == call[x].arg
<1>0. Typed
  BY DEF IInv
<1>1. /\ call[x].step = "poll" /\ c \in DOMAIN codes /\ CallOK(x)
      /\ UNCHANGED <<rows, keychain, fresh, pc, held, faults, doomed, late, excused>>
  BY <1>0 DEF PollDeviceAuth, cli, history, Typed, Calls, CallOK, OnCode
<1>2. codes' \in Seq(Code) /\ Len(codes') = Len(codes) /\ DOMAIN codes' = DOMAIN codes
      /\ QuietCodes
  <2>1. codes[c] \in Code
    BY <1>0, <1>1, Types, ElementOfSeq
  <2>2. \/ codes' = codes
        \/ codes[c].status # "claimed" /\ codes' = [codes EXCEPT ![c].status = "expired"]
        \/ codes' = [codes EXCEPT ![c].status = "claimed"]
              /\ codes[c].status = "claimed"
        \/ codes[c].status = "pending" /\ codes' = [codes EXCEPT ![c].echoed = (x = Echo)]
    BY DEF PollDeviceAuth
  <2>3. PICK entry \in Code : /\ codes' = [codes EXCEPT ![c] = entry] \/ codes' = codes
                              /\ codes[c].status = "claimed" => entry.status = "claimed"
    <3>1. [codes[c] EXCEPT !.status = "expired"] \in Code
          /\ [codes[c] EXCEPT !.status = "claimed"] \in Code
          /\ [codes[c] EXCEPT !.echoed = (x = Echo)] \in Code
      BY <2>1 DEF Code
    <3> QED
      BY <2>1, <2>2, <3>1 DEF Code
  <2>4. codes \in Seq(Code) /\ c \in 1..Len(codes) /\ DOMAIN codes = 1..Len(codes)
    BY <1>0, <1>1, Types
  <2>5. CASE codes' = codes
    BY <2>4, <2>5 DEF QuietCodes
  <2>6. CASE codes' = [codes EXCEPT ![c] = entry]
    <3>1. codes' \in Seq(Code) /\ Len(codes') = Len(codes)
      BY <2>4, <2>6, ExceptSeq
    <3>2. DOMAIN codes' = DOMAIN codes
      BY <2>6
    <3>3. QuietCodes
      BY <2>3, <2>4, <2>6 DEF QuietCodes
    <3> QED
      BY <3>1, <3>2, <3>3
  <2> QED
    BY <2>3, <2>5, <2>6
<1>3. c \in Codes \cup (0..Pending)
  BY <1>0, Types DEF Call
<1>4. CASE \E answer \in {Refusal, Pending} : Answer(x, answer)
  <2>1. PICK answer \in {Refusal, Pending} : Answer(x, answer)
    BY <1>4
  <2>2. [step |-> "answered", arg |-> answer] \in Call
    BY <2>1, SessionAssumption DEF Call, Refusal, Pending
  <2>3. /\ call' \in [Callers -> Call] /\ call'[x].step = "answered" /\ call'[x].arg = answer
        /\ \A y \in Callers \ {x} : call'[y] = call[y]
    BY <1>0, <2>1, <2>2, Stepped DEF Answer
  <2>4. CallOK(x)'
    BY <2>3 DEF CallOK, OnCode, OnToken
  <2>5. x \in Procs => HoldOK(x)'
    BY <1>0, <1>1, <1>2 DEF Typed, Holdings, HoldOK, AboutCode, OnCode, Issued
  <2> QED
    BY <1>0, <1>1, <1>2, <2>3, <2>4, <2>5, Unchanged, Types, QuietStep DEF Grows
<1>5. CASE Step(x, "claim", c)
  <2>1. [step |-> "claim", arg |-> c] \in Call
    BY <1>3 DEF Call
  <2>2. /\ call' \in [Callers -> Call] /\ call'[x].step = "claim" /\ call'[x].arg = c
        /\ \A y \in Callers \ {x} : call'[y] = call[y]
    BY <1>0, <1>5, <2>1, Stepped
  <2>3. CallOK(x)'
    BY <1>1, <1>2, <2>2 DEF CallOK, OnCode, OnToken
  <2>4. x \in Procs => HoldOK(x)'
    BY <1>0, <1>1, <1>2 DEF Typed, Holdings, HoldOK, AboutCode, OnCode, Issued
  <2> QED
    BY <1>0, <1>1, <1>2, <2>2, <2>3, <2>4, Unchanged, Types, QuietStep DEF Grows
<1> QED
  BY <1>4, <1>5 DEF PollDeviceAuth

(* Steps of the command line and of time, that leave all calls as they are.*)
LEMMA IdleStep ==
  ASSUME IInv, QuietRows, QuietCodes, NEW x \in Callers, UNCHANGED call,
         DOMAIN codes \subseteq DOMAIN codes',
         codes' \in Seq(Code), Len(codes') <= MaxLogins,
         rows' \in Seq(Row), Len(rows') <= MaxTokens,
         pc' \in [Procs -> {"idle", "login", "polling", "refreshing", "save"}],
         held' \in [Procs -> Nat],
         \A p \in Procs \ {x} : pc'[p] = pc[p] /\ held'[p] = held[p],
         x \in Procs => HoldOK(x)',
         keychain' \in [Machines -> {0} \cup Issued], fresh' \in [Machines -> BOOLEAN],
         faults' \in 0..MaxFaults, excused' \subseteq Tokens
  PROVE  IInv'
<1>1. Grows
  BY DEF Grows, QuietRows
<1>2. call' \in [Callers -> Call]
  BY Types DEF IInv
<1>3. CallOK(x)'
  BY DEF IInv, Typed, Calls, CallOK, OnCode, OnToken, QuietRows
<1> QED
  BY <1>1, <1>2, <1>3, QuietStep

LEMMA StartDeviceAuthInv ==
  ASSUME IInv, NEW p \in Procs, StartDeviceAuth(p)
  PROVE  IInv'
<1> DEFINE entry == [status |-> "pending", over |-> FALSE, machine |-> MachineOf[p],
                     echoed |-> FALSE]
<1>0. Typed /\ p \in Callers
  BY DEF IInv, Callers
<1>1. /\ codes' = Append(codes, entry) /\ Len(codes) < MaxLogins
      /\ held' = [held EXCEPT ![p] = Len(codes) + 1] /\ pc' = [pc EXCEPT ![p] = "login"]
      /\ UNCHANGED <<rows, call, keychain, fresh, faults, doomed, late, excused>>
      /\ pc[p] = "idle"
  BY DEF StartDeviceAuth, Goto, history
<1>2. codes \in Seq(Code) /\ Len(codes) \in Nat /\ DOMAIN codes = 1..Len(codes) /\ MaxLogins \in Nat
  BY <1>0, Types, SessionAssumption
<1>3. entry \in Code
  BY SessionAssumption DEF Code
<1>4. codes' \in Seq(Code) /\ Len(codes') = Len(codes) + 1
      /\ \A c \in 1..Len(codes) : codes'[c] = codes[c]
  BY <1>1, <1>2, <1>3
<1>5. DOMAIN codes' = 1..(Len(codes) + 1)
  BY <1>4, LenProperties
<1>6. Len(codes') <= MaxLogins /\ DOMAIN codes \subseteq DOMAIN codes' /\ QuietCodes
  BY <1>1, <1>2, <1>4, <1>5 DEF QuietCodes
<1>7. pc \in [Procs -> {"idle", "login", "polling", "refreshing", "save"}]
      /\ held \in [Procs -> Nat]
  BY <1>0 DEF Typed, TypeOK
<1>8. /\ pc' \in [Procs -> {"idle", "login", "polling", "refreshing", "save"}]
      /\ held' \in [Procs -> Nat]
      /\ \A q \in Procs \ {p} : pc'[q] = pc[q] /\ held'[q] = held[q]
      /\ pc'[p] = "login" /\ held'[p] = Len(codes) + 1
  BY <1>1, <1>2, <1>7
<1>9. HoldOK(p)'
  BY <1>0, <1>1, <1>2, <1>5, <1>8 DEF Typed, Holdings, HoldOK
<1>10. /\ rows' \in Seq(Row) /\ Len(rows') <= MaxTokens /\ QuietRows
       /\ keychain' \in [Machines -> {0} \cup Issued] /\ fresh' \in [Machines -> BOOLEAN]
       /\ faults' \in 0..MaxFaults /\ excused' \subseteq Tokens
  BY <1>0, <1>1, Unchanged
<1> QED
  BY <1>0, <1>1, <1>4, <1>6, <1>8, <1>9, <1>10, IdleStep

(* The state of one code changes, and it stays claimed if it was.          *)
LEMMA OneCode ==
  ASSUME Typed, NEW c \in DOMAIN codes, NEW entry \in Code,
         codes' = [codes EXCEPT ![c] = entry],
         codes[c].status = "claimed" => entry.status = "claimed"
  PROVE  /\ codes' \in Seq(Code) /\ Len(codes') = Len(codes) /\ Len(codes') <= MaxLogins
         /\ DOMAIN codes' = DOMAIN codes /\ QuietCodes
<1>1. codes \in Seq(Code) /\ c \in 1..Len(codes) /\ DOMAIN codes = 1..Len(codes)
      /\ Len(codes) <= MaxLogins
  BY Types
<1>2. codes' \in Seq(Code) /\ Len(codes') = Len(codes)
  BY <1>1, ExceptSeq
<1>3. DOMAIN codes' = DOMAIN codes /\ QuietCodes
  BY <1>1 DEF QuietCodes
<1> QED
  BY <1>1, <1>2, <1>3

LEMMA CodeStep ==
  ASSUME IInv, NEW c \in DOMAIN codes, NEW entry \in Code,
         codes' = [codes EXCEPT ![c] = entry],
         codes[c].status = "claimed" => entry.status = "claimed",
         UNCHANGED <<rows, call, cli, faults, history>>
  PROVE  IInv'
<1>0. Typed /\ Echo \in Callers /\ Echo \notin Procs
  BY SessionAssumption DEF IInv, Callers
<1>1. UNCHANGED <<rows, call, keychain, fresh, pc, held, faults, doomed, late, excused>>
  BY DEF cli, history
<1> QED
  BY <1>0, <1>1, OneCode, Unchanged, IdleStep

LEMMA ApproveDeviceAuthInv ==
  ASSUME IInv, NEW c \in DOMAIN codes, ApproveDeviceAuth(c)
  PROVE  IInv'
<1> DEFINE entry == [codes[c] EXCEPT !.status = "approved", !.echoed = FALSE]
<1>1. codes[c] \in Code
  BY Types, ElementOfSeq DEF IInv
<1>2. entry \in Code
  BY <1>1 DEF Code
<1>3. codes' = [codes EXCEPT ![c] = entry] /\ codes[c].status = "pending"
  BY DEF ApproveDeviceAuth
<1> QED
  BY <1>2, <1>3, CodeStep DEF ApproveDeviceAuth

LEMMA CodeExpiresInv ==
  ASSUME IInv, NEW c \in DOMAIN codes, CodeExpires(c)
  PROVE  IInv'
<1> DEFINE entry == [codes[c] EXCEPT !.over = TRUE, !.echoed = FALSE]
<1>1. codes[c] \in Code
  BY Types, ElementOfSeq DEF IInv
<1>2. entry \in Code /\ entry.status = codes[c].status
  BY <1>1 DEF Code
<1>3. codes' = [codes EXCEPT ![c] = entry]
  BY DEF CodeExpires
<1> QED
  BY <1>2, <1>3, CodeStep DEF CodeExpires

LEMMA TokenExpiresInv ==
  ASSUME IInv, NEW t \in Issued, TokenExpires(t)
  PROVE  IInv'
<1> DEFINE row == [rows[t] EXCEPT !.expired = TRUE]
<1>0. Typed /\ Echo \in Callers /\ Echo \notin Procs
  BY SessionAssumption DEF IInv, Callers
<1>1. /\ rows' = [rows EXCEPT ![t] = row] /\ excused' = excused \cup {Family(t)} /\ Fault
      /\ UNCHANGED <<codes, call, keychain, fresh, pc, held, doomed, late>>
  BY DEF TokenExpires, cli
<1>2. rows \in Seq(Row) /\ t \in 1..Len(rows) /\ rows[t] \in Row /\ Len(rows) <= MaxTokens
  BY <1>0, Types, ElementOfSeq
<1>3. /\ row \in Row /\ row.family = rows[t].family /\ row.code = rows[t].code
      /\ row.machine = rows[t].machine /\ row.rotated = rows[t].rotated
      /\ row.revoked = rows[t].revoked
  BY <1>2 DEF Row
<1>4. rows' \in Seq(Row) /\ Len(rows') = Len(rows)
  BY <1>1, <1>2, <1>3, ExceptSeq
<1>5. QuietRows
  BY <1>0, <1>1, <1>2, <1>3, Types DEF QuietRows, Issued
<1>6. excused' \subseteq Tokens
  BY <1>0, <1>1, <1>2 DEF Typed, TypeOK, Family, Row
<1> QED
  BY <1>0, <1>1, <1>2, <1>4, <1>5, <1>6, Unchanged, IdleStep

LEMMA AccessTokenExpiresInv ==
  ASSUME IInv, NEW m \in Machines, AccessTokenExpires(m)
  PROVE  IInv'
<1>0. Typed /\ Echo \in Callers /\ Echo \notin Procs
  BY SessionAssumption DEF IInv, Callers
<1>1. /\ fresh' = [fresh EXCEPT ![m] = FALSE]
      /\ UNCHANGED <<codes, rows, call, keychain, pc, held, faults, doomed, late, excused>>
  BY DEF AccessTokenExpires, edge, history
<1>2. fresh' \in [Machines -> BOOLEAN]
  BY <1>0, <1>1 DEF Typed, TypeOK
<1> QED
  BY <1>0, <1>1, <1>2, Unchanged, IdleStep

LEMMA LoginTimedOutInv ==
  ASSUME IInv, NEW p \in Procs, LoginTimedOut(p)
  PROVE  IInv'
<1>0. Typed /\ p \in Callers
  BY DEF IInv, Callers
<1>1. /\ pc' = [pc EXCEPT ![p] = "idle"] /\ pc[p] = "login"
      /\ UNCHANGED <<codes, rows, call, keychain, fresh, held, faults, doomed, late, excused>>
  BY DEF LoginTimedOut, Goto, edge, history
<1>2. pc \in [Procs -> {"idle", "login", "polling", "refreshing", "save"}]
  BY <1>0 DEF Typed, TypeOK
<1>3. HoldOK(p)'
  BY <1>0, <1>1, <1>2 DEF Typed, Holdings, HoldOK, AboutCode, OnCode
<1> QED
  BY <1>0, <1>1, <1>2, <1>3, Unchanged, IdleStep

LEMMA SaveSessionInv ==
  ASSUME IInv, NEW p \in Procs, SaveSession(p)
  PROVE  IInv'
<1>0. Typed /\ p \in Callers
  BY DEF IInv, Callers
<1>1. /\ pc' = [pc EXCEPT ![p] = "idle"] /\ pc[p] = "save"
      /\ keychain' = [keychain EXCEPT ![MachineOf[p]] = held[p]]
      /\ fresh' = [fresh EXCEPT ![MachineOf[p]] = TRUE]
      /\ UNCHANGED <<codes, rows, call, held, faults, doomed, late, excused>>
  BY DEF SaveSession, Goto, Kept, edge, history
<1>2. /\ pc \in [Procs -> {"idle", "login", "polling", "refreshing", "save"}]
      /\ keychain \in [Machines -> {0} \cup Issued] /\ fresh \in [Machines -> BOOLEAN]
      /\ held[p] \in Issued
  BY <1>0, <1>1 DEF Typed, TypeOK, Holdings, HoldOK
<1>3. keychain' \in [Machines -> {0} \cup Issued] /\ fresh' \in [Machines -> BOOLEAN]
  BY <1>1, <1>2
<1>4. HoldOK(p)'
  BY <1>0, <1>1, <1>2 DEF Typed, Holdings, HoldOK, AboutCode, OnCode
<1> QED
  BY <1>0, <1>1, <1>2, <1>3, <1>4, Unchanged, IdleStep

LEMMA KilledInv ==
  ASSUME IInv, NEW p \in Procs, Killed(p)
  PROVE  IInv'
<1>0. Typed /\ p \in Callers
  BY DEF IInv, Callers
<1>1. /\ pc' = [pc EXCEPT ![p] = "idle"] /\ pc[p] = "save" /\ Fault
      /\ excused' = excused \cup {Family(held[p])}
      /\ UNCHANGED <<codes, rows, call, keychain, fresh, held, doomed, late>>
  BY DEF Killed, Goto, edge
<1>2. /\ pc \in [Procs -> {"idle", "login", "polling", "refreshing", "save"}]
      /\ held[p] \in Issued
  BY <1>0, <1>1 DEF Typed, TypeOK, Holdings, HoldOK
<1>3. excused' \subseteq Tokens
  BY <1>0, <1>1, <1>2, Types DEF Typed, TypeOK, Families
<1>4. HoldOK(p)'
  BY <1>0, <1>1, <1>2 DEF Typed, Holdings, HoldOK, AboutCode, OnCode
<1> QED
  BY <1>0, <1>1, <1>2, <1>3, <1>4, Unchanged, IdleStep

(* A process starts or ends a call: a poll, a refresh, or an answer.       *)
LEMMA PollInv ==
  ASSUME IInv, NEW p \in Procs, Poll(p)
  PROVE  IInv'
<1>0. Typed /\ p \in Callers
  BY DEF IInv, Callers
<1>1. /\ pc' = [pc EXCEPT ![p] = "polling"] /\ pc[p] = "login" /\ Step(p, "poll", held[p])
      /\ UNCHANGED <<codes, rows, keychain, fresh, held, faults, doomed, late, excused>>
  BY DEF Poll, Goto, history
<1>2. /\ pc \in [Procs -> {"idle", "login", "polling", "refreshing", "save"}]
      /\ held[p] \in DOMAIN codes /\ call[p].step = "none"
  BY <1>0, <1>1 DEF Typed, TypeOK, Holdings, HoldOK
<1>3. [step |-> "poll", arg |-> held[p]] \in Call
  BY <1>0, <1>2, Types, SessionAssumption DEF Call, Codes
<1>4. /\ call' \in [Callers -> Call] /\ call'[p].step = "poll" /\ call'[p].arg = held[p]
      /\ \A y \in Callers \ {p} : call'[y] = call[y]
  BY <1>0, <1>1, <1>3, Stepped
<1>5. CallOK(p)'
  BY <1>1, <1>2, <1>4 DEF CallOK, OnCode, OnToken
<1>6. HoldOK(p)'
  BY <1>1, <1>2 DEF HoldOK
<1>7. \A q \in Procs \ {p} : pc'[q] = pc[q] /\ held'[q] = held[q]
  BY <1>1, <1>2
<1>8. pc' \in [Procs -> {"idle", "login", "polling", "refreshing", "save"}]
  BY <1>1, <1>2
<1>9. Grows
  BY <1>1 DEF Grows, Issued
<1> QED
  BY <1>0, <1>1, <1>2, <1>4, <1>5, <1>6, <1>7, <1>8, <1>9, Unchanged, QuietStep

LEMMA GetAccessTokenInv ==
  ASSUME IInv, NEW p \in Procs, GetAccessToken(p)
  PROVE  IInv'
<1> DEFINE t == keychain[MachineOf[p]]
<1>0. Typed /\ p \in Callers
  BY DEF IInv, Callers
<1>1. /\ pc' = [pc EXCEPT ![p] = "refreshing"] /\ pc[p] = "idle" /\ Step(p, "refresh", t)
      /\ t # 0 /\ excused' \subseteq excused \cup {Family(t)}
      /\ UNCHANGED <<codes, rows, keychain, fresh, held, faults, doomed, late>>
  BY DEF GetAccessToken, Goto
<1>2. /\ pc \in [Procs -> {"idle", "login", "polling", "refreshing", "save"}]
      /\ t \in Issued /\ call[p].step = "none"
  BY <1>0, <1>1, SessionAssumption DEF Typed, TypeOK, Holdings, HoldOK
<1>3. [step |-> "refresh", arg |-> t] \in Call
  BY <1>0, <1>2, Types, SessionAssumption DEF Call, Pending
<1>4. /\ call' \in [Callers -> Call] /\ call'[p].step = "refresh" /\ call'[p].arg = t
      /\ \A y \in Callers \ {p} : call'[y] = call[y]
  BY <1>0, <1>1, <1>3, Stepped
<1>5. Grows /\ Issued' = Issued
  BY <1>1 DEF Grows, Issued
<1>6. CallOK(p)'
  BY <1>2, <1>4, <1>5 DEF CallOK, OnCode, OnToken
<1>7. \A q \in Procs \ {p} : pc'[q] = pc[q] /\ held'[q] = held[q]
  BY <1>1, <1>2
<1>8. pc' \in [Procs -> {"idle", "login", "polling", "refreshing", "save"}]
      /\ pc'[p] = "refreshing"
  BY <1>1, <1>2
<1>9. HoldOK(p)'
  BY <1>4, <1>8 DEF HoldOK, AboutCode, OnCode
<1>10. excused' \subseteq Tokens
  BY <1>0, <1>1, <1>2, Types DEF Typed, TypeOK, Families
<1> QED
  BY <1>0, <1>1, <1>2, <1>4, <1>5, <1>6, <1>7, <1>8, <1>9, <1>10, Unchanged, QuietStep

LEMMA ReceiveInv ==
  ASSUME IInv, NEW p \in Procs, Receive(p)
  PROVE  IInv'
<1> DEFINE answer == call[p].arg
<1>0. Typed /\ p \in Callers
  BY DEF IInv, Callers
<1>1. /\ call[p].step = "answered" /\ call' = [call EXCEPT ![p] = NoCall]
      /\ held' = [held EXCEPT ![p] = IF Outcome(answer) = "save" THEN answer ELSE @]
      /\ pc' = [pc EXCEPT ![p] = Outcome(answer)]
      /\ UNCHANGED <<codes, rows, keychain, fresh, faults, doomed, late, excused>>
  BY DEF Receive, Goto, history
<1>2. /\ pc \in [Procs -> {"idle", "login", "polling", "refreshing", "save"}]
      /\ held \in [Procs -> Nat] /\ HoldOK(p) /\ CallOK(p)
  BY <1>0 DEF Typed, TypeOK, Holdings, Calls
<1>3. NoCall \in Call /\ NoCall.step = "none"
  BY SessionAssumption DEF NoCall, Call, Pending
<1>4. /\ call' \in [Callers -> Call] /\ call'[p].step = "none"
      /\ \A y \in Callers \ {p} : call'[y] = call[y]
  BY <1>0, <1>1, <1>3, Types
<1>5. Grows /\ Issued' = Issued
  BY <1>1 DEF Grows, Issued
<1>6. CallOK(p)'
  BY <1>4 DEF CallOK, OnCode, OnToken
<1>7. \/ answer = Refusal /\ Outcome(answer) = "idle"
      \/ answer = Pending /\ Outcome(answer) = "login" /\ held[p] \in DOMAIN codes
      \/ answer \in Issued /\ Outcome(answer) = "save"
  <2>1. Refusal # Pending /\ Pending \notin Issued /\ Refusal \notin Issued
    BY <1>0, Types, SessionAssumption DEF Refusal, Pending
  <2>2. answer \in {Refusal, Pending} \cup Issued
    BY <1>1, <1>2 DEF CallOK
  <2>3. answer = Pending => held[p] \in DOMAIN codes
    BY <1>1, <1>2 DEF HoldOK, AboutCode
  <2> QED
    BY <2>1, <2>2, <2>3 DEF Outcome
<1>8. /\ pc' \in [Procs -> {"idle", "login", "polling", "refreshing", "save"}]
      /\ pc'[p] = Outcome(answer)
      /\ \A q \in Procs \ {p} : pc'[q] = pc[q] /\ held'[q] = held[q]
  BY <1>1, <1>2, <1>7
<1>9. /\ held' \in [Procs -> Nat]
      /\ held'[p] = IF Outcome(answer) = "save" THEN answer ELSE held[p]
  BY <1>0, <1>1, <1>2, <1>7, Types
<1>10. HoldOK(p)'
  BY <1>1, <1>4, <1>5, <1>7, <1>8, <1>9 DEF HoldOK, AboutCode, OnCode
<1> QED
  BY <1>0, <1>1, <1>4, <1>5, <1>6, <1>8, <1>9, <1>10, Unchanged, QuietStep

LEMMA LoseInv ==
  ASSUME IInv, NEW x \in Callers, Lose(x)
  PROVE  IInv'
<1>0. Typed
  BY DEF IInv
<1>1. /\ call' = [call EXCEPT ![x] = NoCall] /\ Fault
      /\ excused' = excused \cup Touched(x)
      /\ doomed' = doomed \ (IF call[x].step = "reuse" THEN Touched(x) ELSE {})
      /\ UNCHANGED <<codes, rows, keychain, fresh, held, late>>
  BY DEF Lose
<1>2. IF x \in Procs THEN pc' = [pc EXCEPT ![x] = "idle"] ELSE UNCHANGED pc
  BY DEF Lose, Goto
<1>3. /\ pc \in [Procs -> {"idle", "login", "polling", "refreshing", "save"}]
      /\ CallOK(x)
  BY <1>0 DEF Typed, TypeOK, Calls
<1>4. NoCall \in Call /\ NoCall.step = "none"
  BY SessionAssumption DEF NoCall, Call, Pending
<1>5. /\ call' \in [Callers -> Call] /\ call'[x].step = "none"
      /\ \A y \in Callers \ {x} : call'[y] = call[y]
  BY <1>0, <1>1, <1>4, Types
<1>6. CallOK(x)'
  BY <1>5 DEF CallOK, OnCode, OnToken
<1>7. /\ pc' \in [Procs -> {"idle", "login", "polling", "refreshing", "save"}]
      /\ \A q \in Procs \ {x} : pc'[q] = pc[q] /\ held'[q] = held[q]
      /\ x \in Procs => pc'[x] = "idle"
  BY <1>1, <1>2, <1>3
<1>8. x \in Procs => HoldOK(x)'
  BY <1>5, <1>7 DEF HoldOK, AboutCode, OnCode
<1>9. Touched(x) \subseteq {Family(t) : t \in Issued}
  BY <1>3 DEF Touched, CallOK, OnToken
<1>10. excused' \subseteq Tokens
  BY <1>0, <1>1, <1>9, Types DEF Typed, TypeOK, Families
<1>11. QuietRows /\ Grows
  BY <1>1 DEF QuietRows, Grows, Issued
<1>12. call[x].step = "reuse" => Family(call[x].arg) \notin doomed'
  BY <1>1 DEF Touched
<1> QED
  BY <1>0, <1>1, <1>5, <1>6, <1>7, <1>8, <1>10, <1>11, <1>12, Unchanged, QuietStep

LEMMA RepeatInv ==
  ASSUME IInv, NEW p \in Procs, Repeat(p)
  PROVE  IInv'
<1>0. Typed /\ p \in Callers /\ Echo \in Callers /\ Echo \notin Procs
  BY SessionAssumption DEF IInv, Callers
<1>1. /\ call' = [call EXCEPT ![Echo] = call[p]] /\ Fault
      /\ call[Echo].step = "none" /\ call[p].step \in {"poll", "refresh"}
      /\ excused' = excused \cup Touched(p)
      /\ UNCHANGED <<codes, rows, keychain, fresh, pc, held, doomed, late>>
  BY DEF Repeat, cli
<1>2. /\ call' \in [Callers -> Call] /\ call'[Echo] = call[p]
      /\ \A y \in Callers \ {Echo} : call'[y] = call[y]
  BY <1>0, <1>1, Types
<1>3. CallOK(p)
  BY <1>0 DEF Typed, Calls
<1>4. CallOK(Echo)'
  BY <1>1, <1>2, <1>3 DEF CallOK, OnCode, OnToken, Issued
<1>5. Touched(p) \subseteq {Family(t) : t \in Issued}
  BY <1>3 DEF Touched, CallOK, OnToken
<1>6. excused' \subseteq Tokens
  BY <1>0, <1>1, <1>5, Types DEF Typed, TypeOK, Families
<1>7. Grows
  BY <1>1 DEF Grows, Issued
<1>8. \A q \in Procs : pc'[q] = pc[q] /\ held'[q] = held[q]
  BY <1>1
<1> QED
  BY <1>0, <1>1, <1>2, <1>4, <1>6, <1>7, <1>8, Unchanged, QuietStep

LEMMA EchoEndsInv ==
  ASSUME IInv, EchoEnds
  PROVE  IInv'
<1>0. Typed /\ Echo \in Callers /\ Echo \notin Procs
  BY SessionAssumption DEF IInv, Callers
<1>1. /\ call' = [call EXCEPT ![Echo] = NoCall] /\ call[Echo].step = "answered"
      /\ UNCHANGED <<codes, rows, keychain, fresh, pc, held, faults, doomed, late, excused>>
  BY DEF EchoEnds, cli, history
<1>2. NoCall \in Call /\ NoCall.step = "none"
  BY SessionAssumption DEF NoCall, Call, Pending
<1>3. /\ call' \in [Callers -> Call] /\ call'[Echo].step = "none"
      /\ \A y \in Callers \ {Echo} : call'[y] = call[y]
  BY <1>0, <1>1, <1>2, Types
<1>4. CallOK(Echo)'
  BY <1>3 DEF CallOK, OnCode, OnToken
<1>5. Grows
  BY <1>1 DEF Grows, Issued
<1>6. \A q \in Procs : pc'[q] = pc[q] /\ held'[q] = held[q]
  BY <1>1
<1> QED
  BY <1>0, <1>1, <1>3, <1>4, <1>5, <1>6, Unchanged, QuietStep

-----------------------------------------------------------------------------
(* An approved code is claimed by one call.                                *)
LEMMA ClaimInv ==
  ASSUME IInv, NEW x \in Callers, Claim(x)
  PROVE  IInv'
<1> DEFINE c == call[x].arg
           entry == [codes[c] EXCEPT !.status = "claimed"]
<1>0. Typed
  BY DEF IInv
<1>1. /\ call[x].step = "claim" /\ c \in DOMAIN codes
      /\ UNCHANGED <<rows, keychain, fresh, pc, held, faults, doomed, late, excused>>
  BY <1>0 DEF Claim, cli, history, Typed, Calls, CallOK, OnCode
<1>2. QuietRows /\ Issued' = Issued
  BY <1>1 DEF QuietRows, Issued
<1>3. c \in Codes \cup (0..Pending) /\ 0 \in Codes \cup (0..Pending)
  BY <1>0, Types, SessionAssumption DEF Call, Pending
<1>4. CASE ~Claimable(c)
  <2>1. UNCHANGED codes /\ Step(x, "answered", 0)
    BY <1>4 DEF Claim, Answer, Refusal
  <2>2. [step |-> "answered", arg |-> 0] \in Call
    BY <1>3 DEF Call
  <2>3. /\ call' \in [Callers -> Call] /\ call'[x].step = "answered" /\ call'[x].arg = 0
        /\ \A y \in Callers \ {x} : call'[y] = call[y]
    BY <1>0, <2>1, <2>2, Stepped
  <2>4. CallOK(x)'
    BY <2>3 DEF CallOK, OnCode, OnToken, Refusal
  <2>5. x \in Procs => HoldOK(x)'
    BY <1>0, <1>1, <2>1 DEF Typed, Holdings, HoldOK, AboutCode, OnCode, Issued
  <2>6. Grows
    BY <1>2, <2>1 DEF Grows
  <2> QED
    BY <1>0, <1>1, <1>2, <2>1, <2>3, <2>4, <2>5, <2>6, Unchanged, QuietStep
<1>5. CASE Claimable(c)
  <2>1. /\ codes' = [codes EXCEPT ![c] = entry] /\ Step(x, "insert", c)
        /\ codes[c].status = "approved"
    BY <1>5 DEF Claim, Claimable
  <2>2. [step |-> "insert", arg |-> c] \in Call
    BY <1>3 DEF Call
  <2>3. /\ call' \in [Callers -> Call] /\ call'[x].step = "insert" /\ call'[x].arg = c
        /\ \A y \in Callers \ {x} : call'[y] = call[y]
    BY <1>0, <2>1, <2>2, Stepped
  <2>4. codes[c] \in Code
    BY <1>0, <1>1, Types, ElementOfSeq
  <2>5. entry \in Code /\ entry.status = "claimed"
    BY <2>4 DEF Code
  <2>6. /\ codes' \in Seq(Code) /\ Len(codes') <= MaxLogins /\ DOMAIN codes' = DOMAIN codes
        /\ codes'[c].status = "claimed"
        /\ \A d \in DOMAIN codes : d # c => codes'[d] = codes[d]
    BY <1>0, <1>1, <2>1, <2>5, OneCode
  <2>7. CallOK(x)'
    BY <1>1, <2>3, <2>6 DEF CallOK, OnCode, OnToken
  <2>8. x \in Procs => HoldOK(x)'
    BY <1>0, <1>1, <2>3, <2>6 DEF Typed, Holdings, HoldOK, AboutCode, OnCode, Issued
  <2>9. Grows
    BY <1>2, <2>6 DEF Grows
  <2>10. Families'
    BY <1>0, <1>2, QuietFamilies
  <2>11. Typed'
    BY <1>0, <1>1, <1>2, <2>3, <2>6, <2>7, <2>8, <2>9, <2>10, Unchanged, KeepTyped
  <2>12. OneFamily'
    BY <1>1, <1>2 DEF IInv, OneFamily, Family
  <2>13. Claims'
    <3>1. \A t \in Issued : rows[t].code # c
      BY <2>1 DEF IInv, Claims
    <3>2. \A y \in Callers : ~Inserting(y, c)
      BY <1>1, <2>1 DEF IInv, Claims
    <3>3. \A y \in Callers, d \in DOMAIN codes :
            Inserting(y, d)' => IF d = c THEN y = x ELSE Inserting(y, d)
      BY <2>3, <3>2 DEF Inserting
    <3>4. ASSUME NEW y \in Callers, NEW d \in DOMAIN codes, Inserting(y, d)'
          PROVE  /\ codes'[d].status = "claimed"
                 /\ \A t \in Issued : rows[t].code # d
                 /\ \A z \in Callers : Inserting(z, d)' => z = y
      BY <2>6, <3>1, <3>3, <3>4 DEF IInv, Claims
    <3>5. \A t \in Issued : rows[t].code \in DOMAIN codes /\ codes'[rows[t].code].status = "claimed"
      BY <2>6 DEF IInv, Claims
    <3> QED
      BY <1>1, <1>2, <2>6, <3>4, <3>5 DEF Claims
  <2>14. Spent'
    BY <1>0, <1>1, <1>2, <2>3, SpentQuiet DEF IInv
  <2> QED
    BY <2>11, <2>12, <2>13, <2>14 DEF IInv
<1> QED
  BY <1>4, <1>5

(* The session of a claimed code is a family of its own.                   *)
LEMMA InsertSessionInv ==
  ASSUME IInv, NEW x \in Callers, InsertSession(x)
  PROVE  IInv'
<1> DEFINE c == call[x].arg
           t == Len(rows) + 1
           row == [family |-> t, code |-> c, machine |-> codes[c].machine,
                   rotated |-> FALSE, revoked |-> FALSE, expired |-> FALSE]
<1>0. Typed
  BY DEF IInv
<1>1. /\ call[x].step = "insert" /\ t \in Tokens /\ rows' = Append(rows, row)
      /\ Step(x, "answered", t)
      /\ UNCHANGED <<codes, keychain, fresh, pc, held, faults, doomed, late, excused>>
  BY DEF InsertSession, ClaimedMachine, Answer, cli, history
<1>2. c \in DOMAIN codes /\ DOMAIN codes \subseteq Codes /\ codes[c] \in Code
  <2>1. c \in DOMAIN codes
    BY <1>0, <1>1 DEF Typed, Calls, CallOK, OnCode
  <2> QED
    BY <1>0, <2>1, Types, ElementOfSeq, SessionAssumption DEF Codes
<1>3. row \in Row
  BY <1>1, <1>2 DEF Row, Code
<1>4. /\ rows' \in Seq(Row) /\ Len(rows') <= MaxTokens
      /\ Issued' = Issued \cup {t} /\ t \notin Issued /\ rows'[t] = row
      /\ \A u \in Issued : rows'[u] = rows[u]
  BY <1>0, <1>1, <1>3, Types, Issuing
<1>5. [step |-> "answered", arg |-> t] \in Call /\ t # Pending
  BY <1>1, SessionAssumption DEF Call, Pending, Tokens
<1>6. /\ call' \in [Callers -> Call] /\ call'[x].step = "answered" /\ call'[x].arg = t
      /\ \A y \in Callers \ {x} : call'[y] = call[y]
  BY <1>0, <1>1, <1>5, Stepped
<1>7. Grows
  BY <1>1, <1>4 DEF Grows
<1>8. CallOK(x)'
  BY <1>4, <1>6 DEF CallOK, OnCode, OnToken
<1>9. x \in Procs => HoldOK(x)'
  BY <1>0, <1>1, <1>5, <1>6 DEF Typed, Holdings, HoldOK, AboutCode, OnCode
<1>10. /\ \A u \in Issued : rows[u].family \in Issued /\ rows'[u].family = rows[u].family
       /\ rows'[t].family = t /\ rows'[t].code = c
  BY <1>0, <1>4 DEF Typed, Families, Family
<1> HIDE DEF row, t
<1>11. Families'
  <2>1. \A u, v \in Issued : rows[u].family = rows[v].family => rows[u].machine = rows[v].machine
    BY <1>0 DEF Typed, Families, Family
  <2>2. ASSUME NEW u \in Issued', NEW v \in Issued', rows'[u].family = rows'[v].family
        PROVE  rows'[u].machine = rows'[v].machine
    <3>1. CASE u \in Issued /\ v \in Issued
      BY <1>4, <2>1, <2>2, <3>1
    <3>2. CASE u = t \/ v = t
      <4>1. u = v
        BY <1>4, <1>10, <2>2, <3>2
      <4> QED
        BY <4>1
    <3> QED
      BY <1>4, <3>1, <3>2
  <2>3. \A u \in Issued' : rows'[u].family \in Issued'
    BY <1>4, <1>10
  <2>4. doomed' \subseteq Issued'
    BY <1>0, <1>1, <1>4 DEF Typed, Families
  <2> QED
    BY <2>2, <2>3, <2>4 DEF Families, Family
<1>12. keychain' \in [Machines -> {0} \cup Issued']
  BY <1>0, <1>1, <1>4 DEF Typed, TypeOK
<1>13. Typed'
  BY <1>0, <1>1, <1>4, <1>6, <1>7, <1>8, <1>9, <1>11, <1>12, Unchanged, KeepTyped
<1>14. /\ codes[c].status = "claimed" /\ \A u \in Issued : rows[u].code # c
       /\ \A y \in Callers : Inserting(y, c) => y = x
  BY <1>1, <1>2 DEF IInv, Claims, Inserting
<1>15. \A y \in Callers, d \in DOMAIN codes : Inserting(y, d)' => Inserting(y, d) /\ d # c
  BY <1>6, <1>14 DEF Inserting
<1>16. Claims'
  <2>1. ASSUME NEW y \in Callers, NEW d \in DOMAIN codes, Inserting(y, d)'
        PROVE  /\ codes[d].status = "claimed"
               /\ \A u \in Issued' : rows'[u].code # d
               /\ \A z \in Callers : Inserting(z, d)' => z = y
    BY <1>4, <1>10, <1>15, <2>1 DEF IInv, Claims
  <2>2. \A u \in Issued' : rows'[u].code \in DOMAIN codes /\ codes[rows'[u].code].status = "claimed"
    BY <1>2, <1>4, <1>10, <1>14 DEF IInv, Claims
  <2> QED
    BY <1>1, <2>1, <2>2 DEF Claims
<1>17. OneFamily'
  <2> SUFFICES ASSUME NEW u \in Issued', NEW v \in Issued', rows'[u].code = rows'[v].code
               PROVE  rows'[u].family = rows'[v].family
    BY DEF OneFamily, Family
  <2>1. CASE u \in Issued /\ v \in Issued
    BY <1>4, <2>1 DEF IInv, OneFamily, Family
  <2>2. CASE u = t \/ v = t
    BY <1>4, <1>10, <1>14, <2>2
  <2> QED
    BY <1>4, <2>1, <2>2
<1>18. Spent'
  <2>1. Unused'
    <3> SUFFICES ASSUME NEW u \in Issued', NEW v \in Issued',
                        rows'[u].family = rows'[v].family, rows'[u].family \notin late
                 PROVE  rows'[u].rotated \/ rows'[v].rotated \/ u = v
      BY <1>1 DEF Unused, Family
    <3>1. CASE u \in Issued /\ v \in Issued
      BY <1>4, <3>1 DEF IInv, Spent, Unused, Family
    <3>2. CASE u = t \/ v = t
      BY <1>4, <1>10, <3>2
    <3> QED
      BY <1>4, <3>1, <3>2
  <2>2. \A y \in Callers : call'[y].step = "commit" => call'[y] = call[y] /\ call[y].arg \in Issued
    BY <1>0, <1>6 DEF Typed, Calls, CallOK, OnToken
  <2>3. Rotating'
    <3> SUFFICES ASSUME NEW y \in Callers, call'[y].step = "commit",
                        rows'[call'[y].arg].family \notin late
                 PROVE  ~rows'[call'[y].arg].rotated /\ ~rows'[call'[y].arg].revoked
      BY <1>1 DEF Rotating, Family
    <3>1. call'[y] = call[y] /\ rows'[call[y].arg] = rows[call[y].arg]
      BY <1>4, <2>2
    <3> QED
      BY <3>1 DEF IInv, Spent, Rotating, Family
  <2>4. \A y \in Callers : call[y].step = "reuse" => call'[y] = call[y] /\ call[y].arg \in Issued
    BY <1>0, <1>1, <1>6 DEF Typed, Calls, CallOK, OnToken
  <2>5. \A f \in Issued : Noticed(f) => Noticed(f)'
    BY <1>4, <2>4 DEF Noticed, Family
  <2>6. t \notin doomed
    BY <1>0, <1>4 DEF Typed, Families
  <2>7. Doomed'
    BY <1>1, <1>4, <1>10, <2>5, <2>6 DEF IInv, Spent, Doomed, Family
  <2> QED
    BY <2>1, <2>3, <2>7 DEF Spent
<1> QED
  BY <1>13, <1>16, <1>17, <1>18 DEF IInv

-----------------------------------------------------------------------------
(* A used token is noticed, a good one is about to be replaced.            *)
LEMMA RefreshInv ==
  ASSUME IInv, NEW x \in Callers, Refresh(x)
  PROVE  IInv'
<1> DEFINE t == call[x].arg
<1>0. Typed
  BY DEF IInv
<1>1. /\ call[x].step = "refresh" /\ t \in Issued
      /\ doomed' = IF rows[t].rotated /\ ~rows[t].revoked THEN doomed \cup {Family(t)} ELSE doomed
      /\ UNCHANGED <<codes, rows, keychain, fresh, pc, held, faults, late, excused>>
  BY <1>0 DEF Refresh, Doom, Family, cli, Typed, Calls, CallOK, OnToken
<1>2. PICK step, arg : /\ Step(x, step, arg)
                       /\ \/ step = "answered" /\ arg = 0
                          \/ step \in {"reuse", "commit"} /\ arg = t
                       /\ step = "commit" => ~rows[t].rotated /\ ~rows[t].revoked
                       /\ rows[t].rotated /\ ~rows[t].revoked => step = "reuse"
  <2>1. rows[t] \in Row
    BY <1>0, <1>1, Types, ElementOfSeq
  <2>2. rows[t].revoked \in BOOLEAN /\ rows[t].rotated \in BOOLEAN /\ rows[t].expired \in BOOLEAN
    BY <2>1 DEF Row
  <2>3. CASE rows[t].revoked
    BY <2>3 DEF Refresh, Answer, Refusal
  <2>4. CASE ~rows[t].revoked /\ rows[t].rotated
    BY <2>4 DEF Refresh
  <2>5. CASE ~rows[t].revoked /\ ~rows[t].rotated
    BY <2>5 DEF Refresh, Answer, Refusal
  <2> QED
    BY <2>2, <2>3, <2>4, <2>5
<1>3. [step |-> step, arg |-> arg] \in Call
  <2>1. t \in Codes \cup (0..Pending) /\ 0 \in Codes \cup (0..Pending)
    BY <1>0, Types, SessionAssumption DEF Call, Pending
  <2> QED
    BY <1>2, <2>1 DEF Call
<1>4. /\ call' \in [Callers -> Call] /\ call'[x].step = step /\ call'[x].arg = arg
      /\ \A y \in Callers \ {x} : call'[y] = call[y]
  BY <1>0, <1>2, <1>3, Stepped
<1>5. Issued' = Issued /\ Grows
  BY <1>1 DEF Issued, Grows
<1>6. CallOK(x)'
  BY <1>1, <1>2, <1>4, <1>5 DEF CallOK, OnCode, OnToken, Refusal
<1>7. x \in Procs => HoldOK(x)'
  <2>1. Pending # 0
    BY SessionAssumption DEF Pending
  <2> QED
    BY <1>0, <1>1, <1>2, <1>4, <2>1 DEF Typed, Holdings, HoldOK, AboutCode, OnCode
<1>8. Families'
  BY <1>0, <1>1, <1>5 DEF Typed, Families, Family
<1>9. Typed'
  BY <1>0, <1>1, <1>4, <1>5, <1>6, <1>7, <1>8, Unchanged, KeepTyped
<1>10. Claims' /\ OneFamily'
  BY <1>0, <1>1, <1>2, <1>4, <1>5, Unchanged, ClaimsQuiet DEF IInv
<1>11. Unused'
  BY <1>1, <1>5 DEF IInv, Spent, Unused, Family
<1>12. Rotating'
  BY <1>1, <1>2, <1>4 DEF IInv, Spent, Rotating, Family
<1>13. \A u \in Issued : Noticed(Family(u)) => Noticed(Family(u))'
  BY <1>1, <1>4 DEF Noticed, Family
<1>14. Doomed'
  <2> SUFFICES ASSUME NEW u \in Issued, Family(u) \in doomed', Family(u) \notin late
               PROVE  rows[u].revoked \/ Noticed(Family(u))'
    BY <1>1, <1>5 DEF Doomed, Family
  <2>1. CASE Family(u) \in doomed
    BY <1>13, <2>1 DEF IInv, Spent, Doomed
  <2>2. CASE Family(u) \notin doomed
    <3>1. rows[t].rotated /\ ~rows[t].revoked /\ Family(u) = Family(t)
      BY <1>1, <2>2
    <3>2. call'[x].step = "reuse" /\ call'[x].arg = t
      BY <1>2, <1>4, <3>1
    <3> QED
      BY <1>1, <3>1, <3>2 DEF Noticed, Family
  <2> QED
    BY <2>1, <2>2
<1> QED
  BY <1>9, <1>10, <1>11, <1>12, <1>14 DEF IInv, Spent

-----------------------------------------------------------------------------
(* Whole families are revoked: those in R.  A rotation that is about to    *)
(* commit makes its family late.                                           *)
LEMMA RevokedInv ==
  ASSUME IInv, NEW x \in Callers, NEW R, NEW hit,
         \A t, u \in Issued : Family(t) = Family(u) /\ t \in R => u \in R,
         R \subseteq Issued, hit = {Family(t) : t \in {t \in R : ~rows[t].revoked}},
         rows' = [t \in Issued |-> IF t \in R THEN [rows[t] EXCEPT !.revoked = TRUE] ELSE rows[t]],
         doomed' = doomed \cup hit,
         late' = late \cup {f \in hit : Overlapping(f)},
         excused' = excused \cup hit,
         UNCHANGED <<codes, cli, faults>>,
         call' \in [Callers -> Call], CallOK(x)', x \in Procs => HoldOK(x)',
         \A y \in Callers \ {x} : call'[y] = call[y],
         call'[x].step \in {"insert", "commit"} => call'[x] = call[x],
         call[x].step = "reuse" => call'[x] = call[x] \/ call[x].arg \in R
  PROVE  IInv'
<1>0. Typed /\ UNCHANGED <<keychain, fresh, pc, held>>
  BY DEF IInv, cli
<1>1. /\ rows' \in Seq(Row) /\ Len(rows') <= MaxTokens /\ Issued' = Issued
      /\ \A t \in Issued : /\ rows'[t].family = rows[t].family
                          /\ rows'[t].code = rows[t].code
                          /\ rows'[t].machine = rows[t].machine
                          /\ rows'[t].rotated = rows[t].rotated
                          /\ rows'[t].revoked <=> (t \in R \/ rows[t].revoked)
  BY <1>0, Revoking, Types
<1>2. hit \subseteq {Family(t) : t \in Issued} /\ hit \subseteq Issued /\ hit \subseteq Tokens
  BY <1>0, Types DEF Typed, Families
<1>3. late' \subseteq Tokens /\ excused' \subseteq Tokens
  BY <1>0, <1>2 DEF Typed, TypeOK
<1>4. Families'
  BY <1>0, <1>1, <1>2 DEF Typed, Families, Family
<1>5. Grows
  BY <1>1 DEF Grows
<1>6. \A q \in Procs : pc'[q] = pc[q] /\ held'[q] = held[q]
  BY <1>0
<1>7. Typed'
  BY <1>0, <1>1, <1>3, <1>4, <1>5, <1>6, Unchanged, KeepTyped
<1>8. Claims' /\ OneFamily'
  BY <1>0, <1>1, <1>5, Unchanged, ClaimsQuiet DEF IInv
<1>9. Unused'
  BY <1>1 DEF IInv, Spent, Unused, Family
<1>10. \A y \in Callers : call[y].step \in {"commit", "reuse"} => call[y].arg \in Issued
  BY <1>0 DEF Typed, Calls, CallOK, OnToken
<1>11. Rotating'
  <2> SUFFICES ASSUME NEW y \in Callers, call'[y].step = "commit",
                      rows'[call'[y].arg].family \notin late'
               PROVE  ~rows'[call'[y].arg].rotated /\ ~rows'[call'[y].arg].revoked
    BY DEF Rotating, Family
  <2> DEFINE t == call[y].arg
  <2>1. call'[y] = call[y] /\ t \in Issued /\ call[y].step = "commit"
    BY <1>10
  <2>2. ~rows[t].rotated /\ ~rows[t].revoked /\ Family(t) \notin late'
    BY <1>1, <2>1 DEF IInv, Spent, Rotating, Family
  <2>3. t \in R => Family(t) \in hit
    BY <2>1, <2>2
  <2>4. Overlapping(Family(t))
    BY <2>1 DEF Overlapping
  <2>5. t \notin R
    BY <2>2, <2>3, <2>4
  <2> QED
    BY <1>1, <2>1, <2>2, <2>5
<1>12. Doomed'
  <2> SUFFICES ASSUME NEW t \in Issued, Family(t) \in doomed', Family(t) \notin late',
                      t \notin R
               PROVE  rows[t].revoked \/ Noticed(Family(t))'
    BY <1>1 DEF Doomed, Family
  <2>1. Family(t) \notin hit
    <3> SUFFICES ASSUME NEW u \in Issued, u \in R, Family(t) = Family(u) PROVE FALSE
      OBVIOUS
    <3> QED
      OBVIOUS
  <2>2. CASE rows[t].revoked
    BY <2>2
  <2>3. CASE ~rows[t].revoked
    <3>1. PICK y \in Callers : call[y].step = "reuse" /\ Family(call[y].arg) = Family(t)
      BY <2>1, <2>3 DEF IInv, Spent, Doomed, Noticed
    <3>2. call[y].arg \in Issued /\ call[y].arg \notin R
      BY <1>10, <3>1
    <3>3. call'[y] = call[y]
      BY <3>1, <3>2
    <3> QED
      BY <1>1, <3>1, <3>2, <3>3 DEF Noticed, Family
  <2> QED
    BY <2>2, <2>3
<1> QED
  BY <1>7, <1>8, <1>9, <1>11, <1>12 DEF IInv, Spent

LEMMA RevokeFamilyInv ==
  ASSUME IInv, NEW x \in Callers, RevokeFamily(x)
  PROVE  IInv'
<1> DEFINE R == {t \in Issued : Family(t) = Family(call[x].arg)}
           hit == {Family(t) : t \in {t \in R : ~rows[t].revoked}}
<1>0. Typed
  BY DEF IInv
<1>1. /\ call[x].step = "reuse" /\ call[x].arg \in Issued /\ Step(x, "answered", 0)
      /\ UNCHANGED <<codes, cli, faults>> /\ UNCHANGED <<codes, pc, held>>
  BY <1>0 DEF RevokeFamily, Answer, Refusal, Typed, Calls, CallOK, OnToken, cli
<1>2. R \subseteq Issued
  OBVIOUS
<1>3. /\ rows' = [t \in Issued |-> IF t \in R THEN [rows[t] EXCEPT !.revoked = TRUE] ELSE rows[t]]
      /\ doomed' = doomed \cup hit
      /\ late' = late \cup {f \in hit : Overlapping(f)}
      /\ excused' = excused \cup hit
  BY DEF RevokeFamily, RevokeRows
<1>4. [step |-> "answered", arg |-> 0] \in Call
  BY SessionAssumption DEF Call, Pending
<1>5. /\ call' \in [Callers -> Call] /\ call'[x].step = "answered" /\ call'[x].arg = 0
      /\ \A y \in Callers \ {x} : call'[y] = call[y]
  BY <1>0, <1>1, <1>4, Stepped
<1>6. CallOK(x)'
  BY <1>5 DEF CallOK, OnCode, OnToken, Refusal
<1>7. x \in Procs => HoldOK(x)'
  <2>1. Pending # 0
    BY SessionAssumption DEF Pending
  <2>2. Issued' = Issued
    BY <1>3 DEF Issued
  <2> QED
    BY <1>0, <1>1, <1>5, <2>1, <2>2 DEF Typed, Holdings, HoldOK, AboutCode, OnCode
<1>8. call[x].arg \in R /\ \A t, u \in Issued : Family(t) = Family(u) /\ t \in R => u \in R
  BY <1>1
<1> HIDE DEF R, hit
<1>9. hit = {Family(t) : t \in {t \in R : ~rows[t].revoked}}
  BY DEF hit
<1> QED
  BY <1>1, <1>2, <1>3, <1>5, <1>6, <1>7, <1>8, <1>9, RevokedInv

LEMMA RevokeMachineInv ==
  ASSUME IInv, NEW m \in Machines, RevokeMachine(m)
  PROVE  IInv'
<1> DEFINE R == {t \in Issued : rows[t].machine = m}
           hit == {Family(t) : t \in {t \in R : ~rows[t].revoked}}
<1>0. Typed /\ Echo \in Callers /\ Echo \notin Procs
  BY SessionAssumption DEF IInv, Callers
<1>1. UNCHANGED <<codes, cli, faults>> /\ UNCHANGED <<codes, call>>
  BY DEF RevokeMachine
<1>2. R \subseteq Issued
  OBVIOUS
<1>3. /\ rows' = [t \in Issued |-> IF t \in R THEN [rows[t] EXCEPT !.revoked = TRUE] ELSE rows[t]]
      /\ doomed' = doomed \cup hit
      /\ late' = late \cup {f \in hit : Overlapping(f)}
      /\ excused' = excused \cup hit
  BY DEF RevokeMachine, RevokeRows
<1>4. call' \in [Callers -> Call]
  BY <1>0, <1>1, Types
<1>5. CallOK(Echo)'
  <2>1. Issued' = Issued
    BY <1>3 DEF Issued
  <2> QED
    BY <1>0, <1>1, <2>1 DEF Typed, Calls, CallOK, OnCode, OnToken
<1>6. \A t, u \in Issued : Family(t) = Family(u) /\ t \in R => u \in R
  BY <1>0 DEF Typed, Families
<1> HIDE DEF R, hit
<1>7. hit = {Family(t) : t \in {t \in R : ~rows[t].revoked}}
  BY DEF hit
<1> QED
  BY <1>0, <1>1, <1>2, <1>3, <1>4, <1>5, <1>6, <1>7, RevokedInv

(* The token of a rotation is replaced by the last one issued.             *)
LEMMA CommitRotationInv ==
  ASSUME IInv, NEW x \in Callers, CommitRotation(x)
  PROVE  IInv'
<1> DEFINE t == call[x].arg
           new == Len(rows) + 1
           used == [rows[t] EXCEPT !.rotated = TRUE]
           row == [rows[t] EXCEPT !.rotated = FALSE, !.revoked = FALSE, !.expired = FALSE]
           old == [rows EXCEPT ![t] = used]
<1>0. Typed
  BY DEF IInv
<1>1. /\ call[x].step = "commit" /\ t \in Issued /\ new \in Tokens
      /\ rows' = Append(old, row) /\ Step(x, "answered", new)
      /\ late' = late \cup {f \in {Family(t)} : \E y \in Callers \ {x} :
                              call[y].step = "commit" /\ Family(call[y].arg) = f}
      /\ UNCHANGED <<codes, keychain, fresh, pc, held, faults, doomed, excused>>
  BY <1>0 DEF CommitRotation, Answer, Rotated, cli, Typed, Calls, CallOK, OnToken
<1>2. rows \in Seq(Row) /\ t \in 1..Len(rows) /\ rows[t] \in Row
  BY <1>0, <1>1, Types, ElementOfSeq
<1>3. /\ used \in Row /\ used.rotated /\ used.family = Family(t) /\ used.code = rows[t].code
      /\ used.machine = rows[t].machine /\ used.revoked = rows[t].revoked
      /\ row \in Row /\ row.family = Family(t) /\ row.code = rows[t].code
      /\ row.machine = rows[t].machine
  BY <1>2 DEF Row, Family
<1>4. old \in Seq(Row) /\ Len(old) = Len(rows)
  BY <1>2, <1>3, ExceptSeq
<1>5. old[t] = used /\ \A u \in Issued : u # t => old[u] = rows[u]
  BY <1>1 DEF Issued
<1> HIDE DEF old, used, row, new
<1>6. /\ rows' \in Seq(Row) /\ Len(rows') <= MaxTokens
      /\ Issued' = Issued \cup {new} /\ new \notin Issued /\ rows'[new] = row
      /\ \A u \in Issued : rows'[u] = old[u]
  BY <1>0, <1>1, <1>3, <1>4, Issuing DEF new
<1>7. /\ rows'[new] = row /\ rows'[t] = used
      /\ \A u \in Issued : u # t => rows'[u] = rows[u]
      /\ \A u \in Issued : /\ rows'[u].family = rows[u].family
                          /\ rows'[u].code = rows[u].code
                          /\ rows'[u].machine = rows[u].machine
                          /\ rows'[u].revoked = rows[u].revoked
  BY <1>1, <1>3, <1>5, <1>6 DEF Family
<1>8. [step |-> "answered", arg |-> new] \in Call /\ new # Pending
  BY <1>1, SessionAssumption DEF Call, Pending, Tokens
<1>9. /\ call' \in [Callers -> Call] /\ call'[x].step = "answered" /\ call'[x].arg = new
      /\ \A y \in Callers \ {x} : call'[y] = call[y]
  BY <1>0, <1>1, <1>8, Stepped
<1>10. Grows
  BY <1>1, <1>6 DEF Grows
<1>11. CallOK(x)'
  BY <1>6, <1>9 DEF CallOK, OnCode, OnToken
<1>12. x \in Procs => HoldOK(x)'
  BY <1>0, <1>1, <1>8, <1>9 DEF Typed, Holdings, HoldOK, AboutCode, OnCode
<1> DEFINE like(u) == IF u = new THEN t ELSE u
<1>13. /\ \A u \in Issued' : /\ like(u) \in Issued
                            /\ rows'[u].family = rows[like(u)].family
                            /\ rows'[u].code = rows[like(u)].code
                            /\ rows'[u].machine = rows[like(u)].machine
  BY <1>1, <1>3, <1>6, <1>7 DEF Family
<1>14. Families'
  <2>1. /\ \A u \in Issued : rows[u].family \in Issued
        /\ \A u, v \in Issued : rows[u].family = rows[v].family => rows[u].machine = rows[v].machine
        /\ doomed \subseteq Issued
    BY <1>0 DEF Typed, Families, Family
  <2>2. \A u \in Issued' : rows'[u].family \in Issued'
    BY <1>6, <1>13, <2>1
  <2>3. ASSUME NEW u \in Issued', NEW v \in Issued', rows'[u].family = rows'[v].family
        PROVE  rows'[u].machine = rows'[v].machine
    BY <1>13, <2>1, <2>3
  <2> QED
    BY <1>1, <1>6, <2>1, <2>2, <2>3 DEF Families, Family
<1>15. keychain' \in [Machines -> {0} \cup Issued'] /\ late' \subseteq Tokens
  BY <1>0, <1>1, <1>6, Types DEF Typed, TypeOK, Families
<1>16. Typed'
  BY <1>0, <1>1, <1>6, <1>9, <1>10, <1>11, <1>12, <1>14, <1>15, Unchanged, KeepTyped
<1>17. \A y \in Callers, d \in DOMAIN codes : Inserting(y, d)' => Inserting(y, d)
  BY <1>9 DEF Inserting
<1>18. Claims'
  <2>1. ASSUME NEW y \in Callers, NEW d \in DOMAIN codes, Inserting(y, d)'
        PROVE  /\ codes[d].status = "claimed"
               /\ \A u \in Issued' : rows'[u].code # d
               /\ \A z \in Callers : Inserting(z, d)' => z = y
    BY <1>13, <1>17, <2>1 DEF IInv, Claims
  <2>2. \A u \in Issued' : rows'[u].code \in DOMAIN codes /\ codes[rows'[u].code].status = "claimed"
    BY <1>13 DEF IInv, Claims
  <2> QED
    BY <1>1, <2>1, <2>2 DEF Claims
<1>19. OneFamily'
  BY <1>13 DEF IInv, OneFamily, Family
<1>20. late \subseteq late'
  BY <1>1
<1>21. \A y \in Callers : call'[y].step \in {"commit", "reuse"} =>
         y # x /\ call'[y] = call[y] /\ call[y].arg \in Issued
  BY <1>0, <1>9 DEF Typed, Calls, CallOK, OnToken
<1>22. Family(t) \notin late => ~rows[t].rotated /\ ~rows[t].revoked
  BY <1>1 DEF IInv, Spent, Rotating
<1>23. Unused'
  <2> SUFFICES ASSUME NEW u \in Issued', NEW v \in Issued', u # v,
                      rows'[u].family = rows'[v].family, rows'[u].family \notin late
               PROVE  rows'[u].rotated \/ rows'[v].rotated
    BY <1>20 DEF Unused, Family
  <2>1. \A w \in Issued : rows[w].rotated => rows'[w].rotated
    BY <1>3, <1>7
  <2>2. CASE u \in Issued /\ v \in Issued
    BY <1>7, <2>1, <2>2 DEF IInv, Spent, Unused, Family
  <2>3. \A w \in Issued : rows[w].family = rows[t].family /\ rows[t].family \notin late =>
          rows'[w].rotated
    BY <1>1, <1>3, <1>7, <1>22, <2>1 DEF IInv, Spent, Unused, Family
  <2>4. CASE u = new
    BY <1>6, <1>13, <2>3, <2>4
  <2>5. CASE v = new
    BY <1>6, <1>13, <2>3, <2>5
  <2> QED
    BY <1>6, <2>2, <2>4, <2>5
<1>24. Rotating'
  <2> SUFFICES ASSUME NEW y \in Callers, call'[y].step = "commit",
                      rows'[call'[y].arg].family \notin late'
               PROVE  ~rows'[call'[y].arg].rotated /\ ~rows'[call'[y].arg].revoked
    BY DEF Rotating, Family
  <2>1. y # x /\ call'[y] = call[y] /\ call[y].arg \in Issued /\ call[y].step = "commit"
    BY <1>21
  <2>2. Family(call[y].arg) \notin late'
    BY <1>7, <2>1 DEF Family
  <2>3. call[y].arg # t
    BY <1>1, <2>1, <2>2
  <2>4. ~rows[call[y].arg].rotated /\ ~rows[call[y].arg].revoked
    BY <1>20, <2>1, <2>2 DEF IInv, Spent, Rotating
  <2> QED
    BY <1>7, <2>1, <2>3, <2>4
<1>25. Doomed'
  <2> SUFFICES ASSUME NEW u \in Issued', rows'[u].family \in doomed, rows'[u].family \notin late
               PROVE  rows'[u].revoked \/ Noticed(Family(u))'
    BY <1>1, <1>20 DEF Doomed, Family
  <2> DEFINE w == like(u)
  <2>1. w \in Issued /\ Family(w) \in doomed /\ Family(w) \notin late /\ rows'[u].family = Family(w)
    BY <1>13 DEF Family
  <2>2. CASE Noticed(Family(w))
    <3>1. PICK y \in Callers : call[y].step = "reuse" /\ Family(call[y].arg) = Family(w)
      BY <2>2 DEF Noticed
    <3>2. call'[y] = call[y] /\ call[y].arg \in Issued
      BY <1>0, <1>1, <1>9, <3>1 DEF Typed, Calls, CallOK, OnToken
    <3>3. rows'[call'[y].arg].family = rows'[u].family /\ call'[y].step = "reuse"
      BY <1>7, <2>1, <3>1, <3>2 DEF Family
    <3> QED
      BY <3>3 DEF Noticed, Family
  <2>3. CASE rows[w].revoked
    <3>1. w # t
      BY <1>22, <2>1, <2>3
    <3>2. u = w /\ u \in Issued
      BY <1>6, <3>1
    <3> QED
      BY <1>7, <2>3, <3>2
  <2> QED
    BY <2>1, <2>2, <2>3 DEF IInv, Spent, Doomed
<1> QED
  BY <1>16, <1>18, <1>19, <1>23, <1>24, <1>25 DEF IInv, Spent

-----------------------------------------------------------------------------
LEMMA NextIInv == IInv /\ [Next]_vars => IInv'
<1> SUFFICES ASSUME IInv, [Next]_vars PROVE IInv'
  OBVIOUS
<1>1. ASSUME NEW p \in Procs, StartDeviceAuth(p) \/ Poll(p) \/ LoginTimedOut(p) \/ GetAccessToken(p)
      PROVE  IInv'
  BY <1>1, StartDeviceAuthInv, PollInv, LoginTimedOutInv, GetAccessTokenInv
<1>2. ASSUME NEW p \in Procs, Receive(p) \/ SaveSession(p) \/ Repeat(p) \/ Killed(p)
      PROVE  IInv'
  BY <1>2, ReceiveInv, SaveSessionInv, RepeatInv, KilledInv
<1>3. ASSUME NEW x \in Callers, Serve(x) \/ Lose(x)
      PROVE  IInv'
  BY <1>3, PollDeviceAuthInv, ClaimInv, InsertSessionInv, RefreshInv, RevokeFamilyInv,
     CommitRotationInv, LoseInv DEF Serve
<1>4. ASSUME NEW c \in DOMAIN codes, ApproveDeviceAuth(c) \/ CodeExpires(c)
      PROVE  IInv'
  BY <1>4, ApproveDeviceAuthInv, CodeExpiresInv
<1>5. ASSUME NEW m \in Machines, RevokeMachine(m) \/ AccessTokenExpires(m)
      PROVE  IInv'
  BY <1>5, RevokeMachineInv, AccessTokenExpiresInv
<1>6. ASSUME NEW t \in Issued, TokenExpires(t)
      PROVE  IInv'
  BY <1>6, TokenExpiresInv
<1>7. CASE UNCHANGED vars
  <2>1. /\ Typed /\ Echo \in Callers /\ Echo \notin Procs
        /\ UNCHANGED <<codes, rows, call, keychain, fresh, pc, held, faults, doomed, late, excused>>
    BY <1>7, SessionAssumption DEF IInv, Callers, vars, edge, cli, history
  <2> QED
    BY <2>1, Unchanged, IdleStep
<1> QED
  BY <1>1, <1>2, <1>3, <1>4, <1>5, <1>6, <1>7, EchoEndsInv DEF Next

LEMMA Invariance == Spec => []IInv
BY InitIInv, NextIInv, PTL DEF Spec

(* The tables, calls, commands and keychains keep their types: what a call *)
(* presents was issued, and what a command saves is a token.               *)
THEOREM SessionTypeCorrect == Spec => []TypeOK
<1>1. IInv => TypeOK
  BY DEF IInv, Typed
<1> QED
  BY <1>1, Invariance, PTL

(* Rotation leaves one live token in a family, and reuse detection none,   *)
(* but for rotations that overlap each other or the revocation.            *)
THEOREM OneLiveToken == Spec => []OneLive
<1>1. ASSUME IInv PROVE OneLive
  <2> SUFFICES ASSUME NEW f \in Tokens \ late,
                      NEW live, live = {t \in Issued : Family(t) = f /\ Live(t)}
               PROVE  Cardinality(live) <= 1 /\ (f \in doomed /\ ~Noticed(f) => live = {})
    BY DEF OneLive, Noticed
  <2>1. \A t, u \in live : t = u
    BY <1>1 DEF IInv, Spent, Unused, Live
  <2>2. live = {} \/ \E t \in live : live = {t}
    BY <2>1
  <2>3. Cardinality(live) <= 1
    BY <2>2, FS_EmptySet, FS_Singleton
  <2>4. f \in doomed /\ ~Noticed(f) => live = {}
    BY <1>1 DEF IInv, Spent, Doomed, Live
  <2> QED
    BY <2>3, <2>4
<1> QED
  BY <1>1, Invariance, PTL

-----------------------------------------------------------------------------
(* KeychainLive.  A process has a token in hand from the call that presents*)
(* it until the next one is stored.  Of a family that nothing befell no    *)
(* token is revoked or expired, and one process at most has one in hand,   *)
(* which is not used yet; so whatever the keychain holds is either good or *)
(* about to be replaced by a process of that machine.                      *)
InHand(p, t) ==
  \/ OnToken(p) /\ call[p].arg = t
  \/ call[p].step = "answered" /\ call[p].arg = t
  \/ pc[p] = "save" /\ held[p] = t

Clean == \A t \in Issued : rows[t].revoked \/ rows[t].expired => Family(t) \in excused
AtHome(p) ==
  /\ OnCode(p) => codes[call[p].arg].machine = MachineOf[p]
  /\ AboutCode(p) \/ pc[p] = "login" => codes[held[p]].machine = MachineOf[p]
Homes ==
  /\ \A p \in Procs : AtHome(p)
  /\ \A p \in Procs, t \in Issued : InHand(p, t) => rows[t].machine = MachineOf[p]
  /\ \A m \in Machines : keychain[m] # 0 => rows[keychain[m]].machine = m
Good ==
  \A p \in Procs, t \in Issued : InHand(p, t) =>
    Family(t) \in excused \/ (~rows[t].rotated /\ call[p].step # "reuse")
Alone ==
  /\ \A p, q \in Procs, t, u \in Issued :
       InHand(p, t) /\ InHand(q, u) /\ Family(t) = Family(u) => p = q \/ Family(t) \in excused
  /\ OnToken(Echo) => Family(call[Echo].arg) \in excused
Stored ==
  \A m \in Machines : keychain[m] # 0 /\ Family(keychain[m]) \notin excused =>
    \/ ~rows[keychain[m]].rotated
    \/ \E p \in Procs, t \in Issued : /\ MachineOf[p] = m /\ InHand(p, t)
                                     /\ Family(t) = Family(keychain[m])

(* The edge files a token under the machine that asked for its code.       *)
Filed == \A t \in Issued : rows[t].machine = AskedBy(t)

KInv == Clean /\ Homes /\ Good /\ Alone /\ Stored /\ Filed

(* What a process carries is what it has in hand.                          *)
LEMMA CarriedInHand ==
  ASSUME Typed, NEW p \in Procs, NEW f
  PROVE  f \in Carried(p) <=> \E t \in Issued : InHand(p, t) /\ Family(t) = f
<1>1. CallOK(p) /\ HoldOK(p)
  BY DEF Typed, Calls, Holdings, Callers
<1>2. CASE pc[p] = "save"
  <2>1. call[p].step = "none" /\ held[p] \in Issued
    BY <1>1, <1>2 DEF HoldOK
  <2>2. Carried(p) = {Family(held[p])} /\ \A t : InHand(p, t) <=> t = held[p]
    BY <1>2, <2>1 DEF Carried, Touched, InHand, OnToken
  <2> QED
    BY <2>1, <2>2
<1>3. CASE pc[p] # "save"
  <2>1. Carried(p) = Touched(p)
    BY <1>3 DEF Carried
  <2>2. CASE OnToken(p)
    <3>1. call[p].arg \in Issued /\ Touched(p) = {Family(call[p].arg)}
          /\ \A t : InHand(p, t) <=> t = call[p].arg
      BY <1>1, <1>3, <2>2 DEF CallOK, Touched, InHand, OnToken
    <3> QED
      BY <2>1, <3>1
  <2>3. CASE call[p].step = "answered" /\ call[p].arg \in Issued
    <3>1. Touched(p) = {Family(call[p].arg)} /\ \A t : InHand(p, t) <=> t = call[p].arg
      BY <1>3, <2>3 DEF Touched, InHand, OnToken
    <3> QED
      BY <2>1, <2>3, <3>1
  <2>4. CASE ~OnToken(p) /\ ~(call[p].step = "answered" /\ call[p].arg \in Issued)
    <3>1. Touched(p) = {} /\ \A t \in Issued : ~InHand(p, t)
      BY <1>3, <2>4 DEF Touched, InHand, OnToken
    <3> QED
      BY <2>1, <3>1
  <2> QED
    BY <2>2, <2>3, <2>4
<1> QED
  BY <1>2, <1>3

LEMMA StoredIsLive == Typed /\ KInv => KeychainLive
<1> SUFFICES ASSUME Typed, KInv, NEW m \in Machines, keychain[m] # 0,
                    Family(keychain[m]) \notin excused, ~Live(keychain[m])
             PROVE  \E p \in Procs : MachineOf[p] = m /\ Family(keychain[m]) \in Carried(p)
  BY DEF KeychainLive
<1>1. keychain[m] \in Issued
  BY DEF Typed, TypeOK
<1>2. rows[keychain[m]].rotated
  BY <1>1 DEF KInv, Clean, Live
<1>3. PICK p \in Procs, t \in Issued : /\ MachineOf[p] = m /\ InHand(p, t)
                                       /\ Family(t) = Family(keychain[m])
  BY <1>2 DEF KInv, Stored
<1> QED
  BY <1>3, CarriedInHand

LEMMA InitKInv == Init => KInv
<1> SUFFICES ASSUME Init PROVE KInv
  OBVIOUS
<1>1. /\ Issued = {} /\ \A m \in Machines : keychain[m] = 0
      /\ \A x \in Callers : call[x].step = "none"
      /\ \A p \in Procs : pc[p] = "idle"
  BY DEF Init, Issued, NoCall
<1> QED
  BY <1>1 DEF KInv, Clean, Homes, AtHome, Good, Alone, Stored, Filed, OnCode, OnToken, AboutCode, Callers

(* A step in which one process at most lets go of what it has in hand, if  *)
(* something befell it, and none takes a token in hand.                    *)
KeptRows ==
  /\ Issued' = Issued /\ excused \subseteq excused'
  /\ \A t \in Issued :
       /\ rows'[t].family = rows[t].family /\ rows'[t].machine = rows[t].machine
       /\ rows'[t].code = rows[t].code
       /\ rows[t].family \notin excused' =>
            /\ rows'[t].rotated = rows[t].rotated
            /\ rows'[t].revoked = rows[t].revoked /\ rows'[t].expired = rows[t].expired
KeptCodes == \A c \in DOMAIN codes : c \in DOMAIN codes' /\ codes'[c].machine = codes[c].machine
KeptHand(p) ==
  /\ AtHome(p)'
  /\ \A t \in Issued : InHand(p, t)' =>
       InHand(p, t) /\ (call'[p].step = "reuse" => rows[t].family \in excused')
  /\ \A t \in Issued : InHand(p, t) => InHand(p, t)' \/ rows[t].family \in excused'

LEMMA KStep ==
  ASSUME IInv, KInv, KeptRows, KeptCodes, UNCHANGED keychain, NEW x \in Callers,
         \A y \in Callers \ {x} : call'[y] = call[y],
         \A p \in Procs \ {x} : pc'[p] = pc[p] /\ held'[p] = held[p],
         x \in Procs => KeptHand(x),
         x = Echo /\ OnToken(Echo)' => call'[Echo].arg \in Issued /\ Family(call'[Echo].arg) \in excused'
  PROVE  KInv'
<1>0. Typed /\ Issued' = Issued /\ Procs \subseteq Callers /\ Echo \in Callers
      /\ \A t \in Issued : Family(t)' = Family(t)
  BY DEF IInv, KeptRows, Callers, Family
<1>1. ASSUME NEW p \in Procs
      PROVE  KeptHand(p)
  <2>1. CASE p = x
    BY <2>1
  <2>2. CASE p # x
    <3>1. call'[p] = call[p] /\ pc'[p] = pc[p] /\ held'[p] = held[p]
      BY <1>0, <2>2
    <3>2. CallOK(p) /\ HoldOK(p) /\ AtHome(p)
      BY <1>0 DEF Typed, Calls, Holdings, KInv, Homes
    <3>3. AtHome(p)'
      BY <3>1, <3>2 DEF AtHome, OnCode, AboutCode, CallOK, HoldOK, KeptCodes
    <3>4. \A t : InHand(p, t)' <=> InHand(p, t)
      BY <3>1 DEF InHand, OnToken
    <3>5. \A t \in Issued : InHand(p, t) /\ call[p].step = "reuse" => Family(t) \in excused
      BY DEF KInv, Good
    <3> QED
      BY <1>0, <3>1, <3>3, <3>4, <3>5 DEF KeptHand, KeptRows, Family
  <2> QED
    BY <2>1, <2>2
<1>2. Clean'
  BY <1>0 DEF KInv, Clean, KeptRows, Family
<1>3. Homes'
  <2>1. \A p \in Procs : AtHome(p)'
    BY <1>1 DEF KeptHand
  <2>2. \A p \in Procs, t \in Issued : InHand(p, t)' => rows'[t].machine = MachineOf[p]
    BY <1>1 DEF KeptHand, KInv, Homes, KeptRows
  <2>3. \A m \in Machines : keychain'[m] # 0 => rows'[keychain'[m]].machine = m
    BY <1>0 DEF KInv, Homes, KeptRows, Typed, TypeOK
  <2> QED
    BY <1>0, <2>1, <2>2, <2>3 DEF Homes
<1>4. Good'
  BY <1>0, <1>1 DEF KInv, Good, KeptHand, KeptRows, Family
<1>5. Alone'
  <2>1. ASSUME NEW p \in Procs, NEW q \in Procs, NEW t \in Issued, NEW u \in Issued,
               InHand(p, t)', InHand(q, u)', Family(t)' = Family(u)', p # q
        PROVE  Family(t)' \in excused'
    <3>1. InHand(p, t) /\ InHand(q, u) /\ Family(t) = Family(u)
      BY <1>0, <1>1, <2>1 DEF KeptHand
    <3> QED
      BY <1>0, <2>1, <3>1 DEF KInv, Alone, KeptRows
  <2>2. OnToken(Echo)' => Family(call[Echo].arg)' \in excused'
    <3>1. CASE x = Echo
      BY <3>1 DEF KeptRows, Family
    <3>2. CASE x # Echo
      <4>1. call'[Echo] = call[Echo] /\ CallOK(Echo)
        BY <1>0, <3>2 DEF Typed, Calls
      <4> QED
        BY <1>0, <4>1 DEF CallOK, OnToken, KInv, Alone, KeptRows
    <3> QED
      BY <3>1, <3>2
  <2> QED
    BY <1>0, <2>1, <2>2 DEF Alone
<1>6. Stored'
  <2> SUFFICES ASSUME NEW m \in Machines, keychain[m] # 0, Family(keychain[m])' \notin excused',
                      rows'[keychain[m]].rotated
               PROVE  \E p \in Procs, t \in Issued : /\ MachineOf[p] = m /\ InHand(p, t)'
                                                     /\ Family(t)' = Family(keychain[m])'
    BY <1>0 DEF Stored
  <2>1. keychain[m] \in Issued
    BY <1>0 DEF Typed, TypeOK
  <2>2. rows[keychain[m]].rotated /\ Family(keychain[m]) \notin excused
    BY <1>0, <2>1 DEF KeptRows, Family
  <2>3. PICK p \in Procs, t \in Issued : /\ MachineOf[p] = m /\ InHand(p, t)
                                         /\ Family(t) = Family(keychain[m])
    BY <2>2 DEF KInv, Stored
  <2>4. InHand(p, t)'
    BY <1>0, <1>1, <2>1, <2>3 DEF KeptHand, Family
  <2> QED
    BY <1>0, <2>1, <2>3, <2>4
<1>7. Filed'
  BY DEF IInv, Claims, KInv, Filed, AskedBy, KeptRows, KeptCodes
<1> QED
  BY <1>2, <1>3, <1>4, <1>5, <1>6, <1>7 DEF KInv

LEMMA SteppedTo ==
  ASSUME Typed, NEW x \in Callers, NEW step, NEW arg, Step(x, step, arg)
  PROVE  /\ call'[x].step = step /\ call'[x].arg = arg
         /\ \A y \in Callers \ {x} : call'[y] = call[y]
BY Types DEF Step

(* A process that has a call has its hand in it alone.                     *)
LEMMA CallingHand ==
  ASSUME Typed, NEW p \in Procs, call[p].step # "none"
  PROVE  pc[p] # "save" /\ \A t : InHand(p, t) <=>
           (OnToken(p) \/ call[p].step = "answered") /\ t = call[p].arg
<1>1. HoldOK(p)
  BY DEF Typed, Holdings
<1> QED
  BY <1>1 DEF HoldOK, InHand

LEMMA SameTables ==
  /\ UNCHANGED rows /\ excused \subseteq excused' => KeptRows
  /\ UNCHANGED codes => KeptCodes
BY DEF KeptRows, KeptCodes, Issued

LEMMA StartDeviceAuthK ==
  ASSUME IInv, KInv, NEW p \in Procs, StartDeviceAuth(p)
  PROVE  KInv'
<1> DEFINE entry == [status |-> "pending", over |-> FALSE, machine |-> MachineOf[p],
                     echoed |-> FALSE]
<1>0. Typed /\ p \in Callers /\ p # Echo
  BY SessionAssumption DEF IInv, Callers
<1>1. /\ codes' = Append(codes, entry) /\ pc[p] = "idle"
      /\ held' = [held EXCEPT ![p] = Len(codes) + 1] /\ pc' = [pc EXCEPT ![p] = "login"]
      /\ UNCHANGED <<rows, call, keychain, excused>>
  BY DEF StartDeviceAuth, Goto, history
<1>2. /\ codes \in Seq(Code) /\ Len(codes) \in Nat /\ DOMAIN codes = 1..Len(codes) /\ entry \in Code
      /\ pc \in [Procs -> {"idle", "login", "polling", "refreshing", "save"}]
      /\ held \in [Procs -> Nat] /\ call[p].step = "none"
  BY <1>0, <1>1, Types, SessionAssumption DEF Typed, TypeOK, Code, Holdings, HoldOK
<1>3. /\ codes' \in Seq(Code) /\ Len(codes') = Len(codes) + 1
      /\ codes'[Len(codes) + 1] = entry /\ \A c \in 1..Len(codes) : codes'[c] = codes[c]
  BY <1>1, <1>2
<1>4. DOMAIN codes' = 1..(Len(codes) + 1)
  BY <1>3, LenProperties
<1>5. KeptCodes
  BY <1>2, <1>3, <1>4 DEF KeptCodes
<1>6. pc'[p] = "login" /\ held'[p] = Len(codes) + 1
      /\ \A q \in Procs \ {p} : pc'[q] = pc[q] /\ held'[q] = held[q]
  BY <1>1, <1>2
<1>7. KeptHand(p)
  BY <1>1, <1>2, <1>3, <1>6 DEF KeptHand, AtHome, InHand, OnCode, OnToken, AboutCode
<1> QED
  BY <1>0, <1>1, <1>5, <1>6, <1>7, SameTables, KStep

LEMMA PollK ==
  ASSUME IInv, KInv, NEW p \in Procs, Poll(p)
  PROVE  KInv'
<1>0. Typed /\ p \in Callers /\ p # Echo
  BY SessionAssumption DEF IInv, Callers
<1>1. /\ pc[p] = "login" /\ Step(p, "poll", held[p]) /\ pc' = [pc EXCEPT ![p] = "polling"]
      /\ UNCHANGED <<codes, rows, keychain, held, excused>>
  BY DEF Poll, Goto, history
<1>2. /\ call'[p].step = "poll" /\ call'[p].arg = held[p]
      /\ \A y \in Callers \ {p} : call'[y] = call[y]
  BY <1>0, <1>1, SteppedTo
<1>3. /\ pc \in [Procs -> {"idle", "login", "polling", "refreshing", "save"}]
      /\ call[p].step = "none" /\ codes[held[p]].machine = MachineOf[p]
  BY <1>0, <1>1 DEF Typed, TypeOK, Holdings, HoldOK, KInv, Homes, AtHome
<1>4. pc'[p] = "polling" /\ \A q \in Procs \ {p} : pc'[q] = pc[q] /\ held'[q] = held[q]
  BY <1>1, <1>3
<1>5. KeptHand(p)
  BY <1>1, <1>2, <1>3, <1>4 DEF KeptHand, AtHome, InHand, OnCode, OnToken, AboutCode
<1> QED
  BY <1>0, <1>1, <1>2, <1>4, <1>5, SameTables, KStep

(* A login or a command ends with nothing in hand, or what befell it is    *)
(* noted.                                                                  *)
LEMMA LoginTimedOutK ==
  ASSUME IInv, KInv, NEW p \in Procs, LoginTimedOut(p)
  PROVE  KInv'
<1>0. Typed /\ p \in Callers /\ p # Echo
  BY SessionAssumption DEF IInv, Callers
<1>1. /\ pc[p] = "login" /\ pc' = [pc EXCEPT ![p] = "idle"]
      /\ UNCHANGED <<codes, rows, call, keychain, held, excused>>
  BY DEF LoginTimedOut, Goto, history, edge
<1>2. /\ pc \in [Procs -> {"idle", "login", "polling", "refreshing", "save"}]
      /\ call[p].step = "none"
  BY <1>0, <1>1 DEF Typed, TypeOK, Holdings, HoldOK
<1>3. pc'[p] = "idle" /\ \A q \in Procs \ {p} : pc'[q] = pc[q] /\ held'[q] = held[q]
  BY <1>1, <1>2
<1>4. KeptHand(p)
  BY <1>1, <1>2, <1>3 DEF KeptHand, AtHome, InHand, OnCode, OnToken, AboutCode
<1> QED
  BY <1>0, <1>1, <1>3, <1>4, SameTables, KStep

LEMMA KilledK ==
  ASSUME IInv, KInv, NEW p \in Procs, Killed(p)
  PROVE  KInv'
<1>0. Typed /\ p \in Callers /\ p # Echo
  BY SessionAssumption DEF IInv, Callers
<1>1. /\ pc[p] = "save" /\ pc' = [pc EXCEPT ![p] = "idle"]
      /\ excused' = excused \cup {Family(held[p])}
      /\ UNCHANGED <<codes, rows, call, keychain, held>>
  BY DEF Killed, Goto, edge
<1>2. /\ pc \in [Procs -> {"idle", "login", "polling", "refreshing", "save"}]
      /\ call[p].step = "none"
  BY <1>0, <1>1 DEF Typed, TypeOK, Holdings, HoldOK
<1>3. pc'[p] = "idle" /\ \A q \in Procs \ {p} : pc'[q] = pc[q] /\ held'[q] = held[q]
  BY <1>1, <1>2
<1>4. KeptHand(p)
  BY <1>1, <1>2, <1>3 DEF KeptHand, AtHome, InHand, OnCode, OnToken, AboutCode, Family
<1> QED
  BY <1>0, <1>1, <1>3, <1>4, SameTables, KStep

LEMMA ReceiveK ==
  ASSUME IInv, KInv, NEW p \in Procs, Receive(p)
  PROVE  KInv'
<1> DEFINE answer == call[p].arg
<1>0. Typed /\ p \in Callers /\ p # Echo
  BY SessionAssumption DEF IInv, Callers
<1>1. /\ call[p].step = "answered" /\ call' = [call EXCEPT ![p] = NoCall]
      /\ held' = [held EXCEPT ![p] = IF Outcome(answer) = "save" THEN answer ELSE @]
      /\ pc' = [pc EXCEPT ![p] = Outcome(answer)]
      /\ UNCHANGED <<codes, rows, keychain, excused>>
  BY DEF Receive, Goto, history
<1>2. /\ pc \in [Procs -> {"idle", "login", "polling", "refreshing", "save"}]
      /\ held \in [Procs -> Nat] /\ CallOK(p)
  BY <1>0 DEF Typed, TypeOK, Calls
<1>3. call'[p].step = "none" /\ \A y \in Callers \ {p} : call'[y] = call[y]
  BY <1>0, <1>1, Types DEF NoCall
<1>4. \/ answer \notin Issued /\ Outcome(answer) = "idle"
      \/ answer \notin Issued /\ Outcome(answer) = "login" /\ AboutCode(p)
      \/ answer \in Issued /\ Outcome(answer) = "save"
  <2>1. Refusal # Pending /\ Pending \notin Issued /\ Refusal \notin Issued
    BY <1>0, Types, SessionAssumption DEF Refusal, Pending
  <2>2. answer \in {Refusal, Pending} \cup Issued
    BY <1>1, <1>2 DEF CallOK
  <2> QED
    BY <1>1, <2>1, <2>2 DEF Outcome, AboutCode
<1>5. /\ pc'[p] = Outcome(answer) /\ held'[p] = IF Outcome(answer) = "save" THEN answer ELSE held[p]
      /\ \A q \in Procs \ {p} : pc'[q] = pc[q] /\ held'[q] = held[q]
  BY <1>1, <1>2
<1>6. AtHome(p)'
  BY <1>1, <1>3, <1>4, <1>5 DEF KInv, Homes, AtHome, AboutCode, OnCode
<1>7. \A t \in Issued : InHand(p, t)' <=> InHand(p, t)
  <2>1. \A t : InHand(p, t) <=> t = answer
    BY <1>0, <1>1, CallingHand
  <2>2. \A t : InHand(p, t)' <=> pc'[p] = "save" /\ t = held'[p]
    BY <1>3 DEF InHand, OnToken
  <2> QED
    BY <1>4, <1>5, <2>1, <2>2
<1>8. KeptHand(p)
  BY <1>3, <1>6, <1>7 DEF KeptHand
<1> QED
  BY <1>0, <1>1, <1>3, <1>5, <1>8, SameTables, KStep

LEMMA LoseK ==
  ASSUME IInv, KInv, NEW x \in Callers, Lose(x)
  PROVE  KInv'
<1>0. Typed
  BY DEF IInv
<1>1. /\ call' = [call EXCEPT ![x] = NoCall] /\ call[x].step # "none"
      /\ excused' = excused \cup Touched(x)
      /\ UNCHANGED <<codes, rows, keychain, held>>
      /\ IF x \in Procs THEN pc' = [pc EXCEPT ![x] = "idle"] ELSE UNCHANGED pc
  BY DEF Lose, Goto
<1>2. pc \in [Procs -> {"idle", "login", "polling", "refreshing", "save"}]
  BY <1>0 DEF Typed, TypeOK
<1>3. call'[x].step = "none" /\ \A y \in Callers \ {x} : call'[y] = call[y]
  BY <1>0, <1>1, Types DEF NoCall
<1>4. /\ \A q \in Procs \ {x} : pc'[q] = pc[q] /\ held'[q] = held[q]
      /\ x \in Procs => pc'[x] = "idle"
  BY <1>1, <1>2
<1>5. ASSUME x \in Procs PROVE KeptHand(x)
  <2>1. AtHome(x)' /\ \A t : ~InHand(x, t)'
    BY <1>3, <1>4, <1>5 DEF AtHome, AboutCode, OnCode, InHand, OnToken
  <2>2. \A t \in Issued : InHand(x, t) => Family(t) \in Touched(x)
    BY <1>0, <1>1, <1>5, CallingHand DEF Touched, OnToken
  <2> QED
    BY <1>1, <2>1, <2>2 DEF KeptHand, Family
<1>6. ~(x = Echo /\ OnToken(Echo)')
  BY <1>3 DEF OnToken
<1> QED
  BY <1>1, <1>3, <1>4, <1>5, <1>6, SameTables, KStep

LEMMA RepeatK ==
  ASSUME IInv, KInv, NEW p \in Procs, Repeat(p)
  PROVE  KInv'
<1>0. Typed /\ p \in Callers /\ Echo \in Callers /\ Echo \notin Procs
  BY SessionAssumption DEF IInv, Callers
<1>1. /\ call' = [call EXCEPT ![Echo] = call[p]] /\ excused' = excused \cup Touched(p)
      /\ UNCHANGED <<codes, rows, keychain, pc, held>>
  BY DEF Repeat, cli
<1>2. call'[Echo] = call[p] /\ \A y \in Callers \ {Echo} : call'[y] = call[y]
  BY <1>0, <1>1, Types
<1>3. OnToken(Echo)' => call'[Echo].arg \in Issued /\ Family(call'[Echo].arg) \in excused'
  <2>1. CallOK(p)
    BY <1>0 DEF Typed, Calls
  <2> QED
    BY <1>1, <1>2, <2>1 DEF CallOK, OnToken, Touched
<1> QED
  BY <1>0, <1>1, <1>2, <1>3, SameTables, KStep

(* The repeated call ends, time passes, the user approves.                 *)
LEMMA EchoEndsK ==
  ASSUME IInv, KInv, EchoEnds
  PROVE  KInv'
<1>0. Typed /\ Echo \in Callers /\ Echo \notin Procs
  BY SessionAssumption DEF IInv, Callers
<1>1. /\ call' = [call EXCEPT ![Echo] = NoCall]
      /\ UNCHANGED <<codes, rows, keychain, pc, held, excused>>
  BY DEF EchoEnds, cli, history
<1>2. call'[Echo].step = "none" /\ \A y \in Callers \ {Echo} : call'[y] = call[y]
  BY <1>0, <1>1, Types DEF NoCall
<1>3. ~OnToken(Echo)'
  BY <1>2 DEF OnToken
<1> QED
  BY <1>0, <1>1, <1>2, <1>3, SameTables, KStep

(* The state of a code changes, its machine does not.                      *)
LEMMA OneCodeKept ==
  ASSUME Typed, NEW c \in DOMAIN codes, NEW entry, entry.machine = codes[c].machine,
         codes' = [codes EXCEPT ![c] = entry]
  PROVE  KeptCodes
<1>1. codes \in Seq(Code) /\ DOMAIN codes = 1..Len(codes)
  BY Types
<1>2. codes \in [DOMAIN codes -> Code]
  BY <1>1
<1>3. DOMAIN codes' = DOMAIN codes /\ codes'[c] = entry
      /\ \A d \in DOMAIN codes : d # c => codes'[d] = codes[d]
  BY <1>2
<1> QED
  BY <1>3 DEF KeptCodes

LEMMA CodeK ==
  ASSUME IInv, KInv, NEW c \in DOMAIN codes, ApproveDeviceAuth(c) \/ CodeExpires(c)
  PROVE  KInv'
<1>0. Typed /\ Echo \in Callers /\ Echo \notin Procs
  BY SessionAssumption DEF IInv, Callers
<1>1. UNCHANGED <<rows, call, keychain, pc, held, excused>>
  BY DEF ApproveDeviceAuth, CodeExpires, cli, history
<1>2. \/ codes' = [codes EXCEPT ![c] = [codes[c] EXCEPT !.status = "approved", !.echoed = FALSE]]
      \/ codes' = [codes EXCEPT ![c] = [codes[c] EXCEPT !.over = TRUE, !.echoed = FALSE]]
  BY DEF ApproveDeviceAuth, CodeExpires
<1>3. KeptCodes
  <2>1. codes[c] \in Code
    BY <1>0, Types, ElementOfSeq
  <2>2. /\ [codes[c] EXCEPT !.status = "approved", !.echoed = FALSE].machine = codes[c].machine
        /\ [codes[c] EXCEPT !.over = TRUE, !.echoed = FALSE].machine = codes[c].machine
    BY <2>1 DEF Code
  <2> QED
    BY <1>0, <1>2, <2>2, OneCodeKept
<1>4. OnToken(Echo)' => call'[Echo].arg \in Issued /\ Family(call'[Echo].arg) \in excused'
  BY <1>0, <1>1 DEF Typed, Calls, CallOK, OnToken, KInv, Alone
<1> QED
  BY <1>0, <1>1, <1>3, <1>4, SameTables, KStep

LEMMA SameCallsK ==
  ASSUME IInv, KInv, KeptRows, UNCHANGED <<codes, call, keychain, pc, held>>
  PROVE  KInv'
<1>0. Typed /\ Echo \in Callers /\ Echo \notin Procs
  BY SessionAssumption DEF IInv, Callers
<1>1. OnToken(Echo)' => call'[Echo].arg \in Issued /\ Family(call'[Echo].arg) \in excused'
  BY <1>0 DEF Typed, Calls, CallOK, OnToken, KInv, Alone, KeptRows
<1> QED
  BY <1>0, <1>1, SameTables, KStep

LEMMA TokenExpiresK ==
  ASSUME IInv, KInv, NEW t \in Issued, TokenExpires(t)
  PROVE  KInv'
<1>1. /\ rows' = [rows EXCEPT ![t].expired = TRUE] /\ excused' = excused \cup {Family(t)}
      /\ UNCHANGED <<codes, call, keychain, pc, held>>
  BY DEF TokenExpires, cli
<1>2. Issued = 1..Len(rows) /\ rows \in Seq(Row)
  BY Types DEF IInv
<1>3. rows[t] \in Row
  BY <1>2, ElementOfSeq
<1> DEFINE row == [rows[t] EXCEPT !.expired = TRUE]
<1>4. /\ rows' = [rows EXCEPT ![t] = row]
      /\ row.family = rows[t].family /\ row.machine = rows[t].machine
      /\ row.code = rows[t].code
  BY <1>1, <1>3 DEF Row
<1> HIDE DEF row
<1>5. Issued' = Issued /\ rows'[t] = row /\ \A u \in Issued : u # t => rows'[u] = rows[u]
  BY <1>2, <1>4 DEF Issued
<1>6. KeptRows
  BY <1>1, <1>4, <1>5 DEF KeptRows, Family
<1> QED
  BY <1>1, <1>6, SameCallsK

(* Revoking befalls every family it changes.                               *)
LEMMA RevokedRows ==
  ASSUME IInv, NEW R, R \subseteq Issued, RevokeRows(R)
  PROVE  KeptRows
<1>1. /\ rows' = [t \in Issued |-> IF t \in R THEN [rows[t] EXCEPT !.revoked = TRUE] ELSE rows[t]]
      /\ excused' = excused \cup {Family(t) : t \in {t \in R : ~rows[t].revoked}}
  BY DEF RevokeRows
<1>2. Issued' = Issued
  BY <1>1 DEF Issued
<1>3. \A t \in Issued : rows[t] \in Row
  BY Types, ElementOfSeq DEF IInv
<1>4. \A t \in Issued : rows'[t] = IF t \in R THEN [rows[t] EXCEPT !.revoked = TRUE] ELSE rows[t]
  BY <1>1
<1>5. \A t \in R : rows[t].revoked \/ rows[t].family \in excused'
  BY <1>1 DEF Family
<1> QED
  BY <1>1, <1>2, <1>3, <1>4, <1>5 DEF KeptRows, Row

LEMMA RevokeMachineK ==
  ASSUME IInv, KInv, NEW m \in Machines, RevokeMachine(m)
  PROVE  KInv'
<1>1. KeptRows
  BY RevokedRows DEF RevokeMachine
<1>2. UNCHANGED <<codes, call, keychain, pc, held>>
  BY DEF RevokeMachine, cli
<1> QED
  BY <1>1, <1>2, SameCallsK

LEMMA AccessTokenExpiresK ==
  ASSUME IInv, KInv, NEW m \in Machines, AccessTokenExpires(m)
  PROVE  KInv'
<1>1. UNCHANGED <<rows, excused>> /\ UNCHANGED <<codes, call, keychain, pc, held>>
  BY DEF AccessTokenExpires, edge, history
<1> QED
  BY <1>1, SameTables, SameCallsK

-----------------------------------------------------------------------------
(* The edge's steps *)

(* A call answered or about a code leaves nothing in hand, unless with a   *)
(* token.                                                                  *)
LEMMA PollDeviceAuthK ==
  ASSUME IInv, KInv, NEW x \in Callers, PollDeviceAuth(x)
  PROVE  KInv'
<1> DEFINE c == call[x].arg
<1>0. Typed /\ Echo \notin Procs
  BY SessionAssumption DEF IInv
<1>1. /\ call[x].step = "poll" /\ UNCHANGED <<rows, keychain, pc, held, excused>>
      /\ \/ Step(x, "answered", Refusal) \/ Step(x, "answered", Pending)
         \/ Step(x, "claim", c) /\ UNCHANGED codes
      /\ \/ codes' = [codes EXCEPT ![c] = [codes[c] EXCEPT !.status =
                                             IF @ = "claimed" THEN @ ELSE "expired"]]
         \/ codes' = [codes EXCEPT ![c] = [codes[c] EXCEPT !.echoed = (x = Echo)]]
         \/ UNCHANGED codes
  BY DEF PollDeviceAuth, Answer, cli, history
<1>2. /\ \A y \in Callers \ {x} : call'[y] = call[y]
      /\ \/ call'[x].step = "answered" /\ call'[x].arg \in {Refusal, Pending}
         \/ call'[x].step = "claim" /\ call'[x].arg = c
  BY <1>0, <1>1, SteppedTo
<1>3. KeptCodes
  <2>1. c \in DOMAIN codes /\ codes[c] \in Code
    BY <1>0, <1>1, Types, ElementOfSeq DEF Typed, Calls, CallOK, OnCode
  <2> DEFINE over  == [codes[c] EXCEPT !.status = IF @ = "claimed" THEN @ ELSE "expired"]
             asked == [codes[c] EXCEPT !.echoed = (x = Echo)]
  <2>2. over.machine = codes[c].machine /\ asked.machine = codes[c].machine
    BY <2>1 DEF Code
  <2>3. \/ codes' = [codes EXCEPT ![c] = over] \/ codes' = [codes EXCEPT ![c] = asked]
        \/ UNCHANGED codes
    BY <1>1
  <2> HIDE DEF over, asked
  <2> QED
    BY <1>0, <2>1, <2>2, <2>3, OneCodeKept, SameTables
<1>4. ASSUME x \in Procs PROVE KeptHand(x)
  <2>1. pc[x] # "save" /\ CallOK(x) /\ HoldOK(x) /\ AtHome(x)
    BY <1>0, <1>1, <1>4, CallingHand DEF Typed, Calls, Holdings, KInv, Homes
  <2>2. AtHome(x)'
    BY <1>1, <1>2, <1>3, <2>1 DEF AtHome, AboutCode, OnCode, CallOK, HoldOK, KeptCodes
  <2>3. \A t \in Issued : ~InHand(x, t)' /\ ~InHand(x, t)
    BY <1>0, <1>1, <1>2, <2>1, Types DEF InHand, OnToken
  <2> QED
    BY <2>2, <2>3 DEF KeptHand
<1>5. ~(x = Echo /\ OnToken(Echo)')
  BY <1>2 DEF OnToken
<1> QED
  BY <1>1, <1>2, <1>3, <1>4, <1>5, SameTables, KStep

LEMMA ClaimK ==
  ASSUME IInv, KInv, NEW x \in Callers, Claim(x)
  PROVE  KInv'
<1> DEFINE c == call[x].arg
<1>0. Typed /\ Echo \notin Procs
  BY SessionAssumption DEF IInv
<1>1. /\ call[x].step = "claim" /\ UNCHANGED <<rows, keychain, pc, held, excused>>
      /\ Step(x, "answered", Refusal) \/ Step(x, "insert", c)
      /\ codes' = [codes EXCEPT ![c] = [codes[c] EXCEPT !.status = "claimed"]] \/ UNCHANGED codes
  BY DEF Claim, Answer, cli, history
<1>2. /\ \A y \in Callers \ {x} : call'[y] = call[y]
      /\ \/ call'[x].step = "answered" /\ call'[x].arg = Refusal
         \/ call'[x].step = "insert" /\ call'[x].arg = c
  BY <1>0, <1>1, SteppedTo
<1>3. KeptCodes
  <2>1. c \in DOMAIN codes /\ codes[c] \in Code
    BY <1>0, <1>1, Types, ElementOfSeq DEF Typed, Calls, CallOK, OnCode
  <2>2. [codes[c] EXCEPT !.status = "claimed"].machine = codes[c].machine
    BY <2>1 DEF Code
  <2> QED
    BY <1>0, <1>1, <2>1, <2>2, OneCodeKept, SameTables
<1>4. ASSUME x \in Procs PROVE KeptHand(x)
  <2>1. pc[x] # "save" /\ CallOK(x) /\ HoldOK(x) /\ AtHome(x)
    BY <1>0, <1>1, <1>4, CallingHand DEF Typed, Calls, Holdings, KInv, Homes
  <2>2. AtHome(x)'
    BY <1>1, <1>2, <1>3, <2>1 DEF AtHome, AboutCode, OnCode, CallOK, HoldOK, KeptCodes
  <2>3. \A t \in Issued : ~InHand(x, t)' /\ ~InHand(x, t)
    BY <1>0, <1>1, <1>2, <2>1, Types DEF InHand, OnToken
  <2> QED
    BY <2>2, <2>3 DEF KeptHand
<1>5. ~(x = Echo /\ OnToken(Echo)')
  BY <1>2 DEF OnToken
<1> QED
  BY <1>1, <1>2, <1>3, <1>4, <1>5, SameTables, KStep

(* What is refused or noticed as used is of a family something befell.     *)
LEMMA RefreshK ==
  ASSUME IInv, KInv, NEW x \in Callers, Refresh(x)
  PROVE  KInv'
<1> DEFINE t == call[x].arg
<1>0. Typed /\ Echo \notin Procs
  BY SessionAssumption DEF IInv
<1>1. /\ call[x].step = "refresh" /\ UNCHANGED <<codes, rows, keychain, pc, held, excused>>
      /\ \/ Step(x, "answered", Refusal) /\ (rows[t].revoked \/ rows[t].expired)
         \/ Step(x, "reuse", t) /\ rows[t].rotated
         \/ Step(x, "commit", t)
  BY DEF Refresh, Doom, Answer, cli
<1>2. /\ \A y \in Callers \ {x} : call'[y] = call[y]
      /\ \/ /\ call'[x].step = "answered" /\ call'[x].arg = Refusal
            /\ rows[t].revoked \/ rows[t].expired
         \/ call'[x].step = "reuse" /\ call'[x].arg = t /\ rows[t].rotated
         \/ call'[x].step = "commit" /\ call'[x].arg = t
  BY <1>0, <1>1, SteppedTo
<1>3. t \in Issued /\ Refusal \notin Issued /\ t # Pending
  BY <1>0, <1>1, Types DEF Typed, Calls, CallOK, OnToken
<1>4. ASSUME x \in Procs PROVE KeptHand(x)
  <2>1. pc[x] # "save" /\ \A u : InHand(x, u) <=> u = t
    BY <1>0, <1>1, <1>4, CallingHand DEF OnToken
  <2>2. pc[x] # "login" /\ Refusal # Pending
    BY <1>0, <1>1, <1>4, SessionAssumption DEF Typed, Holdings, HoldOK, Refusal, Pending
  <2>3. AtHome(x)'
    BY <1>1, <1>2, <1>3, <2>2 DEF AtHome, AboutCode, OnCode
  <2>4. rows[t].rotated \/ rows[t].revoked \/ rows[t].expired => Family(t) \in excused
    BY <1>3, <1>4, <2>1 DEF KInv, Clean, Good
  <2>5. \A u \in Issued : InHand(x, u)' <=> call'[x].step # "answered" /\ u = t
    BY <1>1, <1>2, <1>3, <2>1 DEF InHand, OnToken
  <2> QED
    BY <1>1, <1>2, <2>1, <2>3, <2>4, <2>5 DEF KeptHand, Family
<1>5. x = Echo /\ OnToken(Echo)' => call'[Echo].arg \in Issued /\ Family(call'[Echo].arg) \in excused'
  BY <1>1, <1>2, <1>3 DEF OnToken, KInv, Alone
<1> QED
  BY <1>1, <1>2, <1>4, <1>5, SameTables, KStep

LEMMA RevokeFamilyK ==
  ASSUME IInv, KInv, NEW x \in Callers, RevokeFamily(x)
  PROVE  KInv'
<1> DEFINE t == call[x].arg
<1>0. Typed /\ Echo \notin Procs
  BY SessionAssumption DEF IInv
<1>1. /\ call[x].step = "reuse" /\ Step(x, "answered", Refusal)
      /\ UNCHANGED <<codes, keychain, pc, held>>
      /\ RevokeRows({u \in Issued : Family(u) = Family(t)})
  BY DEF RevokeFamily, Answer, cli
<1>2. /\ \A y \in Callers \ {x} : call'[y] = call[y]
      /\ call'[x].step = "answered" /\ call'[x].arg = Refusal
  BY <1>0, <1>1, SteppedTo
<1>3. KeptRows /\ KeptCodes
  BY <1>1, RevokedRows, SameTables
<1>4. ASSUME x \in Procs PROVE KeptHand(x)
  <2>1. pc[x] # "save" /\ \A u : InHand(x, u) <=> u = t
    BY <1>0, <1>1, <1>4, CallingHand DEF OnToken
  <2>2. pc[x] # "login" /\ Refusal # Pending /\ Refusal \notin Issued
    BY <1>0, <1>1, <1>4, Types, SessionAssumption DEF Typed, Holdings, HoldOK, Refusal, Pending
  <2>3. AtHome(x)' /\ \A u \in Issued : ~InHand(x, u)'
    BY <1>1, <1>2, <2>1, <2>2 DEF AtHome, AboutCode, OnCode, InHand, OnToken
  <2>4. \A u \in Issued : InHand(x, u) => Family(u) \in excused
    BY <1>1, <1>4 DEF KInv, Good
  <2> QED
    BY <1>3, <2>3, <2>4 DEF KeptHand, KeptRows, Family
<1>5. ~(x = Echo /\ OnToken(Echo)')
  BY <1>2 DEF OnToken
<1> QED
  BY <1>1, <1>2, <1>3, <1>4, <1>5, KStep

-----------------------------------------------------------------------------
(* A token is presented, issued, stored *)

(* The keychain's token is good, or another process is about to replace it *)
(* - then the family is one that two processes refresh at once.            *)
LEMMA GetAccessTokenK ==
  ASSUME IInv, KInv, NEW p \in Procs, GetAccessToken(p)
  PROVE  KInv'
<1> DEFINE t == keychain[MachineOf[p]]
<1>0. Typed /\ Procs \subseteq Callers /\ Echo \in Callers /\ p # Echo /\ MachineOf[p] \in Machines
  BY SessionAssumption DEF IInv, Callers
<1>1. /\ pc' = [pc EXCEPT ![p] = "refreshing"] /\ pc[p] = "idle" /\ Step(p, "refresh", t)
      /\ t # 0 /\ UNCHANGED <<codes, rows, keychain, held>>
      /\ excused' = excused \cup
           {f \in {Family(t)} : \E q \in Procs \ {p} : f \in Carried(q)}
  BY DEF GetAccessToken, Goto
<1>2. /\ pc \in [Procs -> {"idle", "login", "polling", "refreshing", "save"}]
      /\ t \in Issued /\ call[p].step = "none"
  BY <1>0, <1>1 DEF Typed, TypeOK, Holdings, HoldOK
<1>3. /\ call'[p].step = "refresh" /\ call'[p].arg = t
      /\ \A y \in Callers \ {p} : call'[y] = call[y]
  BY <1>0, <1>1, SteppedTo
<1>4. pc'[p] = "refreshing" /\ \A q \in Procs \ {p} : pc'[q] = pc[q] /\ held'[q] = held[q]
  BY <1>1, <1>2
<1>5. /\ \A u : ~InHand(p, u)
      /\ \A u : InHand(p, u)' <=> u = t
      /\ \A q \in Procs \ {p}, u \in Issued : InHand(q, u)' <=> InHand(q, u)
  BY <1>0, <1>1, <1>2, <1>3, <1>4 DEF InHand, OnToken
<1>6. Issued' = Issued /\ excused \subseteq excused' /\ \A u \in Issued : Family(u)' = Family(u)
  BY <1>1 DEF Issued, Family
<1>7. \A q \in Procs \ {p}, u \in Issued :
        InHand(q, u) /\ Family(u) = Family(t) => Family(t) \in excused'
  BY <1>0, <1>1, CarriedInHand
<1> HIDE DEF t
<1>8. Clean'
  BY <1>1, <1>6 DEF KInv, Clean
<1>9. Homes'
  <2>1. rows[t].machine = MachineOf[p]
    BY <1>0, <1>1 DEF KInv, Homes, t
  <2>2. AtHome(p)'
    BY <1>3, <1>4 DEF AtHome, AboutCode, OnCode
  <2>3. \A q \in Procs \ {p} : AtHome(q)'
    BY <1>0, <1>1, <1>3, <1>4 DEF KInv, Homes, AtHome, AboutCode, OnCode
  <2>4. \A q \in Procs, u \in Issued : InHand(q, u)' => rows'[u].machine = MachineOf[q]
    BY <1>1, <1>5, <2>1 DEF KInv, Homes
  <2> QED
    BY <1>1, <1>6, <2>2, <2>3, <2>4 DEF KInv, Homes
<1>10. Good'
  <2>1. rows[t].rotated => Family(t) \in excused'
    BY <1>0, <1>1, <1>5, <1>6, <1>7 DEF KInv, Stored, t
  <2> SUFFICES ASSUME NEW q \in Procs, NEW u \in Issued, InHand(q, u)'
               PROVE  Family(u) \in excused' \/ (~rows[u].rotated /\ call'[q].step # "reuse")
    BY <1>1, <1>6 DEF Good
  <2>2. CASE q = p
    BY <1>3, <1>5, <2>1, <2>2
  <2>3. CASE q # p
    BY <1>0, <1>3, <1>5, <1>6, <2>3 DEF KInv, Good
  <2> QED
    BY <2>2, <2>3
<1>11. Alone'
  <2>1. ASSUME NEW q \in Procs, NEW r \in Procs, NEW u \in Issued, NEW v \in Issued,
               InHand(q, u)', InHand(r, v)', Family(u) = Family(v), q # r
        PROVE  Family(u) \in excused'
    <3>1. CASE q = p
      BY <1>5, <1>7, <2>1, <3>1
    <3>2. CASE r = p
      BY <1>5, <1>7, <2>1, <3>2
    <3>3. CASE q # p /\ r # p
      BY <1>5, <1>6, <2>1, <3>3 DEF KInv, Alone
    <3> QED
      BY <3>1, <3>2, <3>3
  <2>2. OnToken(Echo)' => Family(call[Echo].arg)' \in excused'
    BY <1>0, <1>1, <1>3, <1>6 DEF KInv, Alone, OnToken, Family
  <2> QED
    BY <1>6, <2>1, <2>2 DEF Alone
<1>12. Stored'
  <2> SUFFICES ASSUME NEW m \in Machines, keychain[m] # 0, Family(keychain[m]) \notin excused',
                      rows[keychain[m]].rotated
               PROVE  \E q \in Procs, u \in Issued : /\ MachineOf[q] = m /\ InHand(q, u)'
                                                     /\ Family(u) = Family(keychain[m])
    BY <1>1, <1>6 DEF Stored, Family
  <2>1. PICK q \in Procs, u \in Issued : /\ MachineOf[q] = m /\ InHand(q, u)
                                         /\ Family(u) = Family(keychain[m])
    BY <1>6 DEF KInv, Stored
  <2> QED
    BY <1>5, <2>1
<1>13. Filed'
  BY <1>1, <1>6 DEF KInv, Filed, AskedBy
<1> QED
  BY <1>8, <1>9, <1>10, <1>11, <1>12, <1>13 DEF KInv

(* What is stored is the good token in hand.                               *)
LEMMA SaveSessionK ==
  ASSUME IInv, KInv, NEW p \in Procs, SaveSession(p)
  PROVE  KInv'
<1> DEFINE t == held[p]
           h == MachineOf[p]
<1>0. Typed /\ h \in Machines
  BY SessionAssumption DEF IInv
<1>1. /\ pc[p] = "save" /\ pc' = [pc EXCEPT ![p] = "idle"]
      /\ keychain' = [keychain EXCEPT ![h] = t]
      /\ UNCHANGED <<codes, rows, call, held, excused>>
  BY DEF SaveSession, Kept, Goto, edge, history
<1>2. /\ pc \in [Procs -> {"idle", "login", "polling", "refreshing", "save"}]
      /\ keychain \in [Machines -> {0} \cup Issued]
      /\ t \in Issued /\ call[p].step = "none"
  BY <1>0, <1>1 DEF Typed, TypeOK, Holdings, HoldOK
<1>3. pc'[p] = "idle" /\ \A q \in Procs \ {p} : pc'[q] = pc[q]
  BY <1>1, <1>2
<1>4. keychain'[h] = t /\ \A m \in Machines \ {h} : keychain'[m] = keychain[m]
  BY <1>0, <1>1, <1>2
<1>5. InHand(p, t) /\ (\A u : ~InHand(p, u)')
      /\ \A q \in Procs \ {p}, u \in Issued : InHand(q, u)' <=> InHand(q, u)
  BY <1>1, <1>2, <1>3 DEF InHand, OnToken
<1>6. Issued' = Issued /\ \A u : Family(u)' = Family(u)
  BY <1>1 DEF Issued, Family
<1> HIDE DEF t, h
<1>7. Clean'
  BY <1>1, <1>6 DEF KInv, Clean
<1>8. Homes'
  <2>1. \A q \in Procs : AtHome(q)'
    BY <1>1, <1>2, <1>3 DEF KInv, Homes, AtHome, AboutCode, OnCode
  <2>2. \A q \in Procs, u \in Issued : InHand(q, u)' => rows'[u].machine = MachineOf[q]
    BY <1>1, <1>5 DEF KInv, Homes
  <2>3. rows[t].machine = h
    BY <1>2, <1>5 DEF KInv, Homes, h
  <2>4. \A m \in Machines : keychain'[m] # 0 => rows'[keychain'[m]].machine = m
    BY <1>1, <1>4, <2>3 DEF KInv, Homes
  <2> QED
    BY <1>6, <2>1, <2>2, <2>4 DEF Homes
<1>9. Good'
  BY <1>1, <1>5, <1>6 DEF KInv, Good
<1>10. Alone'
  <2>1. \A q, r \in Procs, u, v \in Issued :
          InHand(q, u)' /\ InHand(r, v)' /\ Family(u) = Family(v) => q = r \/ Family(u) \in excused
    BY <1>5 DEF KInv, Alone
  <2>2. OnToken(Echo)' => Family(call[Echo].arg)' \in excused'
    BY <1>1 DEF KInv, Alone, OnToken, Family
  <2> QED
    BY <1>1, <1>6, <2>1, <2>2 DEF Alone
<1>11. Stored'
  <2> SUFFICES ASSUME NEW m \in Machines, keychain'[m] # 0, Family(keychain'[m]) \notin excused,
                      rows[keychain'[m]].rotated
               PROVE  \E q \in Procs, u \in Issued : /\ MachineOf[q] = m /\ InHand(q, u)'
                                                     /\ Family(u) = Family(keychain'[m])
    BY <1>1, <1>6 DEF Stored, Family
  <2>1. m # h
    BY <1>2, <1>4, <1>5 DEF KInv, Good
  <2>2. keychain'[m] = keychain[m]
    BY <1>4, <2>1
  <2>3. PICK q \in Procs, u \in Issued : /\ MachineOf[q] = m /\ InHand(q, u)
                                         /\ Family(u) = Family(keychain[m])
    BY <2>2 DEF KInv, Stored
  <2>4. q # p
    BY <2>1, <2>3 DEF h
  <2> QED
    BY <1>5, <2>2, <2>3, <2>4
<1>12. Filed'
  BY <1>1, <1>6 DEF KInv, Filed, AskedBy
<1> QED
  BY <1>7, <1>8, <1>9, <1>10, <1>11, <1>12 DEF KInv

LEMMA HandIssued ==
  ASSUME Typed, NEW p \in Procs, NEW u \in Tokens, InHand(p, u)
  PROVE  u \in Issued
<1>1. CallOK(p) /\ HoldOK(p)
  BY DEF Typed, Calls, Holdings, Callers
<1>2. u # Refusal /\ u # Pending
  BY SessionAssumption DEF Tokens, Refusal, Pending
<1> QED
  BY <1>1, <1>2 DEF InHand, CallOK, HoldOK

(* A new family is in one hand, and in no keychain.                        *)
LEMMA InsertSessionK ==
  ASSUME IInv, KInv, NEW x \in Callers, InsertSession(x)
  PROVE  KInv'
<1> SUFFICES ASSUME NEW t, t = Len(rows) + 1 PROVE KInv'
  OBVIOUS
<1> DEFINE c == call[x].arg
           row == [family |-> t, code |-> c, machine |-> codes[c].machine,
                   rotated |-> FALSE, revoked |-> FALSE, expired |-> FALSE]
<1>0. Typed /\ Procs \subseteq Callers /\ Echo \in Callers /\ Echo \notin Procs
  BY SessionAssumption DEF IInv, Callers
<1>1. /\ call[x].step = "insert" /\ t \in Tokens /\ rows' = Append(rows, row)
      /\ Step(x, "answered", t) /\ UNCHANGED <<codes, keychain, pc, held, excused>>
  BY DEF InsertSession, ClaimedMachine, Answer, cli, history
<1>2. c \in DOMAIN codes /\ DOMAIN codes \subseteq Codes /\ codes[c] \in Code
  <2>1. c \in DOMAIN codes
    BY <1>0, <1>1 DEF Typed, Calls, CallOK, OnCode
  <2> QED
    BY <1>0, <2>1, Types, ElementOfSeq, SessionAssumption DEF Codes
<1>3. row \in Row
  BY <1>1, <1>2 DEF Row, Code
<1>4. /\ Issued' = Issued \cup {t} /\ t \notin Issued /\ rows'[t] = row
      /\ \A u \in Issued : rows'[u] = rows[u]
  BY <1>0, <1>1, <1>3, Types, Issuing
<1>5. /\ row.family = t /\ row.machine = codes[c].machine /\ row.code = c
      /\ ~row.rotated /\ ~row.revoked /\ ~row.expired
  OBVIOUS
<1>6. t # Pending
  BY <1>1, SessionAssumption DEF Pending, Tokens
<1>7. /\ call'[x].step = "answered" /\ call'[x].arg = t
      /\ \A y \in Callers \ {x} : call'[y] = call[y]
  BY <1>0, <1>1, SteppedTo
<1>8. \A q \in Procs : ~InHand(q, t)
  BY <1>0, <1>1, <1>4, HandIssued
<1> HIDE DEF row
<1>9. /\ Family(t)' = t /\ \A u \in Issued : Family(u)' = Family(u) /\ Family(u) \in Issued
  BY <1>0, <1>4, <1>5 DEF Family, Typed, Families
<1>10. ASSUME NEW q \in Procs, NEW u \in Issued', InHand(q, u)'
       PROVE  (u \in Issued /\ InHand(q, u) /\ call'[q] = call[q]) \/ (q = x /\ u = t)
  <2>1. CASE q = x
    <3>1. pc[x] # "save"
      BY <1>0, <1>1, <2>1, CallingHand
    <3> QED
      BY <1>1, <1>7, <1>10, <2>1, <3>1 DEF InHand, OnToken
  <2>2. CASE q # x
    <3>1. call'[q] = call[q]
      BY <1>0, <1>7, <2>2
    <3>2. InHand(q, u)
      BY <1>1, <1>10, <3>1 DEF InHand, OnToken
    <3> QED
      BY <1>4, <1>8, <3>1, <3>2
  <2> QED
    BY <2>1, <2>2
<1>11. \A q \in Procs, u \in Issued : InHand(q, u) => q # x /\ InHand(q, u)'
  <2>1. x \in Procs => \A u : ~InHand(x, u)
    BY <1>0, <1>1, CallingHand DEF OnToken
  <2> QED
    BY <1>0, <1>1, <1>7, <2>1 DEF InHand, OnToken
<1>12. Clean'
  BY <1>1, <1>4, <1>5, <1>9 DEF KInv, Clean
<1>13. Homes'
  <2>1. ASSUME NEW q \in Procs PROVE AtHome(q)'
    <3>1. AtHome(q)
      BY DEF KInv, Homes
    <3>2. CASE q = x
      <4>1. pc[x] # "login"
        BY <1>0, <1>1, <2>1, <3>2 DEF Typed, Holdings, HoldOK
      <4> QED
        BY <1>1, <1>6, <1>7, <3>2, <4>1 DEF AtHome, AboutCode, OnCode
    <3>3. CASE q # x
      <4>1. call'[q] = call[q]
        BY <1>0, <1>7, <3>3
      <4> QED
        BY <1>1, <3>1, <4>1 DEF AtHome, AboutCode, OnCode
    <3> QED
      BY <3>2, <3>3
  <2>2. x \in Procs => rows'[t].machine = MachineOf[x]
    BY <1>1, <1>4, <1>5 DEF KInv, Homes, AtHome, OnCode
  <2>3. \A q \in Procs, u \in Issued' : InHand(q, u)' => rows'[u].machine = MachineOf[q]
    BY <1>4, <1>10, <2>2 DEF KInv, Homes
  <2>4. \A m \in Machines : keychain[m] # 0 => rows'[keychain[m]].machine = m
    BY <1>0, <1>4 DEF KInv, Homes, Typed, TypeOK
  <2> QED
    BY <1>1, <2>1, <2>3, <2>4 DEF Homes
<1>14. Good'
  <2> SUFFICES ASSUME NEW q \in Procs, NEW u \in Issued', InHand(q, u)'
               PROVE  Family(u)' \in excused \/ (~rows'[u].rotated /\ call'[q].step # "reuse")
    BY <1>1 DEF Good
  <2>1. CASE u \in Issued /\ InHand(q, u) /\ call'[q] = call[q]
    BY <1>4, <1>9, <2>1 DEF KInv, Good
  <2>2. CASE q = x /\ u = t
    BY <1>4, <1>5, <1>7, <2>2
  <2> QED
    BY <1>10, <2>1, <2>2
<1>15. Alone'
  <2>1. ASSUME NEW q \in Procs, NEW r \in Procs, NEW u \in Issued', NEW v \in Issued',
               InHand(q, u)', InHand(r, v)', Family(u)' = Family(v)', q # r
        PROVE  Family(u)' \in excused
    <3>1. u \in Issued /\ v \in Issued /\ InHand(q, u) /\ InHand(r, v)
      BY <1>4, <1>9, <1>10, <2>1
    <3> QED
      BY <1>9, <2>1, <3>1 DEF KInv, Alone
  <2>2. OnToken(Echo)' => Family(call[Echo].arg)' \in excused
    <3>1. CASE x = Echo
      BY <1>7, <3>1 DEF OnToken
    <3>2. CASE x # Echo
      <4>1. call'[Echo] = call[Echo] /\ CallOK(Echo)
        BY <1>0, <1>7, <3>2 DEF Typed, Calls
      <4> QED
        BY <1>4, <4>1 DEF KInv, Alone, OnToken, CallOK, Family
    <3> QED
      BY <3>1, <3>2
  <2> QED
    BY <1>1, <2>1, <2>2 DEF Alone
<1>16. Stored'
  <2> SUFFICES ASSUME NEW m \in Machines, NEW k, k = keychain[m], k # 0,
                      Family(k)' \notin excused, rows'[k].rotated
               PROVE  \E q \in Procs, u \in Issued' : /\ MachineOf[q] = m /\ InHand(q, u)'
                                                      /\ Family(u)' = Family(k)'
    BY <1>1 DEF Stored
  <2>1. k \in Issued
    BY <1>0 DEF Typed, TypeOK
  <2>2. rows[k].rotated /\ Family(k) \notin excused
    BY <1>4, <1>9, <2>1
  <2>3. PICK q \in Procs, u \in Issued : /\ MachineOf[q] = m /\ InHand(q, u)
                                         /\ Family(u) = Family(k)
    BY <2>2 DEF KInv, Stored
  <2> QED
    BY <1>4, <1>9, <1>11, <2>1, <2>3
<1>17. Filed'
  <2>1. rows'[t].machine = AskedBy(t)'
    BY <1>1, <1>4, <1>5 DEF AskedBy
  <2>2. \A u \in Issued : rows'[u].machine = AskedBy(u)'
    BY <1>1, <1>4 DEF KInv, Filed, AskedBy
  <2> QED
    BY <1>4, <2>1, <2>2 DEF Filed
<1> QED
  BY <1>12, <1>13, <1>14, <1>15, <1>16, <1>17 DEF KInv

(* The next token of a family is in the hand that had the one before; a    *)
(* repeated call's is of a family something befell.                        *)
LEMMA CommitRotationK ==
  ASSUME IInv, KInv, NEW x \in Callers, CommitRotation(x)
  PROVE  KInv'
<1> SUFFICES ASSUME NEW t, NEW new, t = call[x].arg, new = Len(rows) + 1 PROVE KInv'
  OBVIOUS
<1> DEFINE used == [rows[t] EXCEPT !.rotated = TRUE]
           row == [rows[t] EXCEPT !.rotated = FALSE, !.revoked = FALSE, !.expired = FALSE]
           old == [rows EXCEPT ![t] = used]
<1>0. Typed /\ Procs \subseteq Callers /\ Echo \in Callers /\ Echo \notin Procs
  BY SessionAssumption DEF IInv, Callers
<1>1. /\ call[x].step = "commit" /\ t \in Issued /\ new \in Tokens
      /\ rows' = Append(old, row) /\ Step(x, "answered", new)
      /\ UNCHANGED <<codes, keychain, pc, held, excused>>
  BY <1>0 DEF CommitRotation, Answer, Rotated, cli, Typed, Calls, CallOK, OnToken
<1>2. rows \in Seq(Row) /\ t \in 1..Len(rows) /\ rows[t] \in Row
  BY <1>0, <1>1, Types, ElementOfSeq
<1>3. /\ used \in Row /\ used.family = Family(t) /\ used.machine = rows[t].machine
      /\ used.revoked = rows[t].revoked /\ used.expired = rows[t].expired
      /\ row \in Row /\ row.family = Family(t) /\ row.machine = rows[t].machine
      /\ ~row.rotated /\ ~row.revoked /\ ~row.expired
  BY <1>2 DEF Row, Family
<1>4. old \in Seq(Row) /\ Len(old) = Len(rows)
  BY <1>2, <1>3, ExceptSeq
<1>5. old[t] = used /\ \A u \in Issued : u # t => old[u] = rows[u]
  BY <1>1 DEF Issued
<1> HIDE DEF old, used, row
<1>6. /\ Issued' = Issued \cup {new} /\ new \notin Issued /\ rows'[new] = row
      /\ \A u \in Issued : rows'[u] = old[u]
  <2>1. Len(rows) + 1 \in Tokens /\ row \in Row /\ rows' = Append(old, row)
    BY <1>1, <1>3
  <2>2. /\ Issued' = Issued \cup {Len(rows) + 1} /\ Len(rows) + 1 \notin Issued
        /\ rows'[Len(rows) + 1] = row /\ \A u \in Issued : rows'[u] = old[u]
    BY <1>0, <1>4, <2>1, Issuing
  <2> QED
    BY <2>2
<1>7. new # Pending
  BY <1>1, SessionAssumption DEF Pending, Tokens
<1>8. \A q \in Procs : ~InHand(q, new)
  BY <1>0, <1>1, <1>6, HandIssued
<1>9. /\ call'[x].step = "answered" /\ call'[x].arg = new
      /\ \A y \in Callers \ {x} : call'[y] = call[y]
  BY <1>0, <1>1, SteppedTo
<1>10. /\ \A u \in Issued : /\ rows'[u].machine = rows[u].machine
                            /\ rows'[u].revoked = rows[u].revoked /\ rows'[u].expired = rows[u].expired
                            /\ u # t => rows'[u].rotated = rows[u].rotated
       /\ rows'[new].machine = rows[t].machine
       /\ ~rows'[new].rotated /\ ~rows'[new].revoked /\ ~rows'[new].expired
  BY <1>1, <1>3, <1>5, <1>6
<1>11. /\ \A u \in Issued : Family(u)' = Family(u)
       /\ Family(new)' = Family(t)
  BY <1>1, <1>3, <1>5, <1>6 DEF Family
<1>12. x \notin Procs => Family(t) \in excused
  BY <1>1 DEF Callers, KInv, Alone, OnToken
<1>13. x \in Procs => pc[x] # "save" /\ \A u : InHand(x, u) <=> u = t
  BY <1>0, <1>1, CallingHand DEF OnToken
<1>14. ASSUME NEW q \in Procs, NEW u \in Issued', InHand(q, u)'
       PROVE  (q # x /\ u \in Issued /\ InHand(q, u) /\ call'[q] = call[q]) \/ (q = x /\ u = new)
  <2>1. CASE q = x
    BY <1>1, <1>9, <1>13, <1>14, <2>1 DEF InHand, OnToken
  <2>2. CASE q # x
    <3>1. call'[q] = call[q]
      BY <1>0, <1>9, <2>2
    <3>2. InHand(q, u)
      BY <1>1, <1>14, <3>1 DEF InHand, OnToken
    <3> QED
      BY <1>6, <1>8, <2>2, <3>1, <3>2
  <2> QED
    BY <2>1, <2>2
<1>15. /\ \A q \in Procs, u \in Issued : q # x /\ InHand(q, u) => InHand(q, u)'
       /\ x \in Procs => InHand(x, new)'
  BY <1>0, <1>1, <1>9 DEF InHand, OnToken
<1>16. Clean'
  BY <1>1, <1>6, <1>10, <1>11 DEF KInv, Clean
<1>17. Homes'
  <2>1. ASSUME NEW q \in Procs PROVE AtHome(q)'
    <3>1. AtHome(q)
      BY DEF KInv, Homes
    <3>2. CASE q = x
      <4>1. pc[x] # "login"
        BY <1>0, <1>1, <2>1, <3>2 DEF Typed, Holdings, HoldOK
      <4> QED
        BY <1>1, <1>7, <1>9, <3>2, <4>1 DEF AtHome, AboutCode, OnCode
    <3>3. CASE q # x
      <4>1. call'[q] = call[q]
        BY <1>0, <1>9, <3>3
      <4> QED
        BY <1>1, <3>1, <4>1 DEF AtHome, AboutCode, OnCode
    <3> QED
      BY <3>2, <3>3
  <2>2. x \in Procs => rows'[new].machine = MachineOf[x]
    BY <1>1, <1>10, <1>13 DEF KInv, Homes
  <2>3. \A q \in Procs, u \in Issued' : InHand(q, u)' => rows'[u].machine = MachineOf[q]
    BY <1>10, <1>14, <2>2 DEF KInv, Homes
  <2>4. \A m \in Machines : keychain[m] # 0 => rows'[keychain[m]].machine = m
    BY <1>0, <1>10 DEF KInv, Homes, Typed, TypeOK
  <2> QED
    BY <1>1, <2>1, <2>3, <2>4 DEF Homes
<1>18. Good'
  <2> SUFFICES ASSUME NEW q \in Procs, NEW u \in Issued', InHand(q, u)'
               PROVE  Family(u)' \in excused \/ (~rows'[u].rotated /\ call'[q].step # "reuse")
    BY <1>1 DEF Good
  <2>1. CASE q # x /\ u \in Issued /\ InHand(q, u) /\ call'[q] = call[q]
    <3>1. CASE u = t
      <4>1. Family(t) \in excused
        BY <1>1, <1>12, <1>13, <2>1, <3>1 DEF KInv, Alone
      <4> QED
        BY <1>11, <2>1, <3>1, <4>1
    <3>2. CASE u # t
      BY <1>10, <1>11, <2>1, <3>2 DEF KInv, Good
    <3> QED
      BY <3>1, <3>2
  <2>2. CASE q = x /\ u = new
    BY <1>9, <1>10, <2>2
  <2> QED
    BY <1>14, <2>1, <2>2
<1>19. Alone'
  <2>1. ASSUME NEW q \in Procs, NEW r \in Procs, NEW u \in Issued', NEW v \in Issued',
               InHand(q, u)', InHand(r, v)', Family(u)' = Family(v)', q # r
        PROVE  Family(u)' \in excused
    <3> DEFINE like(w) == IF w = new THEN t ELSE w
    <3>1. /\ like(u) \in Issued /\ InHand(q, like(u)) /\ Family(u)' = Family(like(u))
          /\ like(v) \in Issued /\ InHand(r, like(v)) /\ Family(v)' = Family(like(v))
      BY <1>1, <1>6, <1>11, <1>13, <1>14, <2>1
    <3> HIDE DEF like
    <3> QED
      BY <2>1, <3>1 DEF KInv, Alone
  <2>2. OnToken(Echo)' => Family(call[Echo].arg)' \in excused
    <3>1. CASE x = Echo
      BY <1>9, <3>1 DEF OnToken
    <3>2. CASE x # Echo
      <4>1. call'[Echo] = call[Echo] /\ CallOK(Echo)
        BY <1>0, <1>9, <3>2 DEF Typed, Calls
      <4>2. OnToken(Echo)' => call[Echo].arg \in Issued /\ Family(call[Echo].arg) \in excused
        BY <4>1 DEF KInv, Alone, OnToken, CallOK
      <4>3. OnToken(Echo)' => Family(call'[Echo].arg) \in excused
                              /\ rows'[call'[Echo].arg].family = rows[call'[Echo].arg].family
        BY <1>11, <4>1, <4>2 DEF Family
      <4> QED
        BY <4>3 DEF Family
    <3> QED
      BY <3>1, <3>2
  <2> QED
    BY <1>1, <2>1, <2>2 DEF Alone
<1>20. Stored'
  <2> SUFFICES ASSUME NEW m \in Machines, NEW k, k = keychain[m], k # 0,
                      Family(k)' \notin excused, rows'[k].rotated
               PROVE  \E q \in Procs, u \in Issued' : /\ MachineOf[q] = m /\ InHand(q, u)'
                                                      /\ Family(u)' = Family(k)'
    BY <1>1 DEF Stored
  <2>1. k \in Issued /\ Family(k)' = Family(k) /\ Family(k) \notin excused
        /\ rows[k].machine = m
    BY <1>0, <1>11 DEF Typed, TypeOK, KInv, Homes
  <2>2. CASE Family(k) = Family(t)
    <3>1. x \in Procs /\ rows[t].machine = m
      BY <1>0, <1>1, <1>12, <2>1, <2>2 DEF Typed, Families
    <3>2. MachineOf[x] = m
      BY <1>1, <1>13, <3>1 DEF KInv, Homes
    <3> QED
      BY <1>6, <1>11, <1>15, <2>1, <2>2, <3>1, <3>2
  <2>3. CASE Family(k) # Family(t)
    <3>1. rows[k].rotated
      BY <1>10, <2>1, <2>3
    <3>2. PICK q \in Procs, u \in Issued : /\ MachineOf[q] = m /\ InHand(q, u)
                                           /\ Family(u) = Family(k)
      BY <2>1, <3>1 DEF KInv, Stored
    <3>3. q # x
      BY <1>13, <2>3, <3>2
    <3> QED
      BY <1>6, <1>11, <1>15, <2>1, <3>2, <3>3
  <2> QED
    BY <2>2, <2>3
<1>21. Filed'
  <2>1. used.code = rows[t].code /\ row.code = rows[t].code
    BY <1>2 DEF Row, used, row
  <2>2. /\ rows'[new].code = rows[t].code
        /\ \A u \in Issued : rows'[u].code = rows[u].code
    BY <1>1, <1>5, <1>6, <2>1
  <2>3. rows'[new].machine = AskedBy(new)'
    BY <1>1, <1>10, <2>2 DEF KInv, Filed, AskedBy
  <2>4. ASSUME NEW u \in Issued PROVE rows'[u].machine = AskedBy(u)'
    BY <1>1, <1>10, <2>2, <2>4 DEF KInv, Filed, AskedBy
  <2> QED
    BY <1>6, <2>3, <2>4 DEF Filed
<1> QED
  BY <1>16, <1>17, <1>18, <1>19, <1>20, <1>21 DEF KInv

LEMMA NextKInv == IInv /\ KInv /\ [Next]_vars => KInv'
<1> SUFFICES ASSUME IInv, KInv, [Next]_vars PROVE KInv'
  OBVIOUS
<1>1. ASSUME NEW p \in Procs, StartDeviceAuth(p) \/ Poll(p) \/ LoginTimedOut(p) \/ GetAccessToken(p)
      PROVE  KInv'
  BY <1>1, StartDeviceAuthK, PollK, LoginTimedOutK, GetAccessTokenK
<1>2. ASSUME NEW p \in Procs, Receive(p) \/ SaveSession(p) \/ Repeat(p) \/ Killed(p)
      PROVE  KInv'
  BY <1>2, ReceiveK, SaveSessionK, RepeatK, KilledK
<1>3. ASSUME NEW x \in Callers, Serve(x) \/ Lose(x)
      PROVE  KInv'
  BY <1>3, PollDeviceAuthK, ClaimK, InsertSessionK, RefreshK, RevokeFamilyK,
     CommitRotationK, LoseK DEF Serve
<1>4. ASSUME NEW c \in DOMAIN codes, ApproveDeviceAuth(c) \/ CodeExpires(c)
      PROVE  KInv'
  BY <1>4, CodeK
<1>5. ASSUME NEW m \in Machines, RevokeMachine(m) \/ AccessTokenExpires(m)
      PROVE  KInv'
  BY <1>5, RevokeMachineK, AccessTokenExpiresK
<1>6. ASSUME NEW t \in Issued, TokenExpires(t)
      PROVE  KInv'
  BY <1>6, TokenExpiresK
<1>7. CASE UNCHANGED vars
  <2>1. UNCHANGED <<rows, excused>> /\ UNCHANGED <<codes, call, keychain, pc, held>>
    BY <1>7 DEF vars, edge, cli, history
  <2> QED
    BY <2>1, SameTables, SameCallsK
<1> QED
  BY <1>1, <1>2, <1>3, <1>4, <1>5, <1>6, <1>7, EchoEndsK DEF Next

(* An approved code opens one session family: pollDeviceAuth claims it by  *)
(* a conditional update, so of two polls only one goes on to insert.  And  *)
(* the session is of the machine that asked: start records the machine     *)
(* with the code, insert and rotation copy it, and what a process stores   *)
(* answers a code, or presented a token, of its own machine.               *)
THEOREM OneSessionPerCode == Spec => []SingleClaim
<1>1. ASSUME IInv, KInv PROVE SingleClaim
  <2>1. ASSUME NEW t \in Issued, NEW p \in Procs, pc[p] = "save", held[p] = t
        PROVE  MachineOf[p] = AskedBy(t)
    BY <1>1, <2>1 DEF KInv, Homes, InHand, Filed
  <2>2. ASSUME NEW t \in Issued, NEW m \in Machines, keychain[m] = t
        PROVE  m = AskedBy(t)
    <3>1. keychain[m] # 0
      BY <1>1, <2>2, Types DEF IInv
    <3> QED
      BY <1>1, <2>2, <3>1 DEF KInv, Homes, Filed
  <2> QED
    BY <1>1, <2>1, <2>2 DEF SingleClaim, IInv, OneFamily, KInv, Filed
<1>2. IInv /\ KInv /\ [Next]_vars => KInv'
  BY NextKInv
<1> QED
  BY <1>1, <1>2, InitKInv, Invariance, PTL DEF Spec

(* Whoever logged in stays logged in: the keychain's token is good, or a   *)
(* process of that machine is about to store the next one, unless the      *)
(* session was revoked or expired, a call or process was cut off, a        *)
(* request came twice, or two processes refreshed it at once.              *)
THEOREM LoginsLast == Spec => []KeychainLive
<1>1. IInv /\ KInv => KeychainLive
  BY StoredIsLive DEF IInv
<1>2. IInv /\ KInv /\ [Next]_vars => KInv'
  BY NextKInv
<1> QED
  BY <1>1, <1>2, InitKInv, Invariance, PTL DEF Spec

=============================================================================
