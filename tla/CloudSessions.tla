---------------------------- MODULE CloudSessions ----------------------------
(***************************************************************************)
(* Sessions of the cloud: the device-code login and the rotation of        *)
(* refresh tokens, from the CLI (cli/src/commands/login.ts, cloud/         *)
(* session.ts) to the tables of the edge service (services/edge/lib/       *)
(* device.ts, src/session.ts).                                             *)
(*                                                                         *)
(* The processes of a machine share its keychain.  A call is a request to  *)
(* the edge: its handler runs one SQL statement, or one transaction, per   *)
(* step, and calls interleave between steps; a call may be lost at any     *)
(* point, its answer with it, and a poll or a refresh may reach the edge   *)
(* twice.  Tokens are numbers, in the order of issue.                      *)
(***************************************************************************)
EXTENDS Naturals, FiniteSets, Sequences

CONSTANTS
  Procs,      \* processes of the CLI
  Machines,
  MachineOf,  \* the machine a process runs on
  Echo,       \* the call of a request that arrives twice
  MaxLogins,  \* device codes, in all
  MaxTokens,  \* refresh tokens, in all
  MaxFaults,  \* calls lost or repeated, processes killed, tokens expired, in all
  MaxInputs   \* device codes and faults together

ASSUME SessionAssumption ==
  /\ MachineOf \in [Procs -> Machines]
  /\ Echo \notin Procs
  /\ MaxLogins \in Nat /\ MaxTokens \in Nat /\ MaxFaults \in Nat
  /\ MaxInputs \in Nat

VARIABLES
  codes,     \* device_codes
  rows,      \* sessions: one row per refresh token
  call,      \* the calls in progress
  keychain,  \* per machine: the refresh token stored, 0 if none
  fresh,     \* per machine: the access token stored is good for a while
  pc,        \* per process: the next step of its command
  held,      \* per process: the device code of its login, or the token to save
  faults,
  doomed,    \* history: the families to end: revoked by the user, or a used token came back
  late,      \* history: those with a rotation in flight as they were revoked
  excused    \* history: those something befell that may cost the session

edge    == <<codes, rows, call>>
cli     == <<keychain, fresh, pc, held>>
history == <<doomed, late, excused>>
vars    == <<edge, cli, faults, history>>

Tokens  == 1..MaxTokens
Codes   == 1..MaxLogins
Callers == Procs \cup {Echo}
NoCall  == [step |-> "none", arg |-> 0]

(* Answers: a token, or one of these.                                      *)
Refusal == 0
Pending == MaxTokens + 1

Family(t) == rows[t].family
Live(t)   == ~rows[t].rotated /\ ~rows[t].revoked /\ ~rows[t].expired
Issued    == DOMAIN rows

Step(x, step, arg) == call' = [call EXCEPT ![x] = [step |-> step, arg |-> arg]]
Answer(x, answer)  == Step(x, "answered", answer)
Goto(p, step)      == pc' = [pc EXCEPT ![p] = step]

(* Revoking a family while a rotation of it is between its check and its   *)
(* commit misses the token that rotation is about to issue.                *)
Overlapping(f) == \E y \in Callers : call[y].step = "commit" /\ Family(call[y].arg) = f
RevokeRows(R) ==
  LET hit == {Family(t) : t \in {t \in R : ~rows[t].revoked}}
  IN  /\ rows' = [t \in Issued |-> IF t \in R THEN [rows[t] EXCEPT !.revoked = TRUE] ELSE rows[t]]
      /\ doomed' = doomed \cup hit
      /\ late' = late \cup {f \in hit : Overlapping(f)}
      /\ excused' = excused \cup hit

(* The bounds: on what comes in, and on tokens, one of which is left for   *)
(* each code that may yet ask for it.                                      *)
Room  == Len(codes) + faults < MaxInputs
Spare == Len(rows) + Cardinality(DOMAIN codes \ {rows[t].code : t \in Issued}) < MaxTokens

-----------------------------------------------------------------------------
(* The edge: start, approve, poll *)

StartDeviceAuth(p) ==
  /\ pc[p] = "idle"
  /\ Len(codes) < MaxLogins /\ Room /\ Spare
  /\ codes' = Append(codes, [status |-> "pending", over |-> FALSE, machine |-> MachineOf[p],
                             echoed |-> FALSE])
  /\ held' = [held EXCEPT ![p] = Len(codes) + 1]
  /\ Goto(p, "login")
  /\ UNCHANGED <<rows, call, keychain, fresh, faults, history>>

ApproveDeviceAuth(c) ==
  /\ codes[c].status = "pending" /\ ~codes[c].over
  /\ codes' = [codes EXCEPT ![c].status = "approved", ![c].echoed = FALSE]
  /\ UNCHANGED <<rows, call, cli, faults, history>>

(* While a code is pending, a poll that follows another by less than the   *)
(* interval is refused (slow_down).  The CLI sleeps that long between its  *)
(* own polls, so that is one that follows a repeated poll.                 *)
TooSoon(x) == x # Echo /\ codes[call[x].arg].echoed

PollDeviceAuth(x) ==
  LET c == call[x].arg
  IN  /\ call[x].step = "poll"
      /\ \/ /\ codes[c].over
            /\ codes' = [codes EXCEPT ![c].status = IF @ = "claimed" THEN @ ELSE "expired"]
            /\ Answer(x, Refusal)
         \/ /\ ~codes[c].over /\ codes[c].status = "pending"
            /\ codes' = [codes EXCEPT ![c].echoed = (x = Echo)]
            /\ Answer(x, Pending)
         \/ /\ ~codes[c].over /\ codes[c].status = "pending" /\ TooSoon(x)
            /\ UNCHANGED codes
            /\ Answer(x, Refusal)
         \/ /\ ~codes[c].over /\ codes[c].status # "pending"
            /\ UNCHANGED codes
            /\ IF codes[c].status = "approved" THEN Step(x, "claim", c) ELSE Answer(x, Refusal)
      /\ UNCHANGED <<rows, cli, faults, history>>

(* Mutant of Claimable: the update does not ask for an approved code.      *)
ClaimableAnyway(c) == TRUE

Claimable(c) == codes[c].status = "approved"

Claim(x) ==
  LET c == call[x].arg
  IN  /\ call[x].step = "claim"
      /\ IF Claimable(c)
         THEN codes' = [codes EXCEPT ![c].status = "claimed"] /\ Step(x, "insert", c)
         ELSE Answer(x, Refusal) /\ UNCHANGED codes
      /\ UNCHANGED <<rows, cli, faults, history>>

(* Mutant of ClaimedMachine: the session is of the machine that asked last. *)
NewestMachine(c) == codes[Len(codes)].machine

ClaimedMachine(c) == codes[c].machine

(* A claimed code opens a new family.                                      *)
InsertSession(x) ==
  LET c == call[x].arg
      t == Len(rows) + 1
  IN  /\ call[x].step = "insert"
      /\ t \in Tokens
      /\ rows' = Append(rows, [family |-> t, code |-> c, machine |-> ClaimedMachine(c),
                               rotated |-> FALSE, revoked |-> FALSE, expired |-> FALSE])
      /\ Answer(x, t)
      /\ UNCHANGED <<codes, cli, faults, history>>

-----------------------------------------------------------------------------
(* The edge: rotation, reuse detection, revocation *)

Doom(row) ==
  /\ doomed' = IF row.rotated /\ ~row.revoked THEN doomed \cup {row.family} ELSE doomed
  /\ UNCHANGED <<codes, rows, cli, faults, late, excused>>

(* Mutant of Refresh: a token that was used is refused, and that is all.   *)
RefreshNoReuse(x) ==
  LET row == rows[call[x].arg]
  IN  /\ call[x].step = "refresh"
      /\ IF row.revoked \/ row.rotated \/ row.expired
         THEN Answer(x, Refusal)
         ELSE Step(x, "commit", call[x].arg)
      /\ Doom(row)

Refresh(x) ==
  LET row == rows[call[x].arg]
  IN  /\ call[x].step = "refresh"
      /\ CASE row.revoked -> Answer(x, Refusal)
           [] ~row.revoked /\ row.rotated -> Step(x, "reuse", call[x].arg)
           [] ~row.revoked /\ ~row.rotated ->
                IF row.expired THEN Answer(x, Refusal) ELSE Step(x, "commit", call[x].arg)
      /\ Doom(row)

RevokeFamily(x) ==
  /\ call[x].step = "reuse"
  /\ RevokeRows({t \in Issued : Family(t) = Family(call[x].arg)})
  /\ Answer(x, Refusal)
  /\ UNCHANGED <<codes, cli, faults>>

Rotated(t) == [rows EXCEPT ![t].rotated = TRUE]

(* One transaction; it does not ask again whether the token is still good. *)
CommitRotation(x) ==
  LET t == call[x].arg
      new == Len(rows) + 1
  IN  /\ call[x].step = "commit"
      /\ new \in Tokens /\ Spare
      /\ rows' = Append(Rotated(t), [rows[t] EXCEPT !.rotated = FALSE, !.revoked = FALSE,
                                                    !.expired = FALSE])
      /\ late' = late \cup {f \in {Family(t)} : \E y \in Callers \ {x} :
                              call[y].step = "commit" /\ Family(call[y].arg) = f}
      /\ Answer(x, new)
      /\ UNCHANGED <<codes, cli, faults, doomed, excused>>

RevokeMachine(m) ==
  /\ \E t \in Issued : rows[t].machine = m /\ ~rows[t].revoked
  /\ RevokeRows({t \in Issued : rows[t].machine = m})
  /\ UNCHANGED <<codes, call, cli, faults>>

-----------------------------------------------------------------------------
(* The CLI *)

(* The family whose next token a call is about or answers with; and the    *)
(* one whose next token a process waits for or is about to save.           *)
Touched(x) ==
  IF call[x].step \in {"refresh", "reuse", "commit"} THEN {Family(call[x].arg)}
  ELSE IF call[x].step = "answered" /\ call[x].arg \in Issued THEN {Family(call[x].arg)}
  ELSE {}

Carried(p) == Touched(p) \cup (IF pc[p] = "save" THEN {Family(held[p])} ELSE {})

Poll(p) ==
  /\ pc[p] = "login"
  /\ ~codes[held[p]].over          \* while (now() < deadline)
  /\ Step(p, "poll", held[p])
  /\ Goto(p, "polling")
  /\ UNCHANGED <<codes, rows, keychain, fresh, held, faults, history>>

(* Mutant of LoginTimedOut: the login waits to hear that the code expired. *)
LoginRefused(p) ==
  /\ pc[p] = "login"
  /\ codes[held[p]].status = "expired"
  /\ Goto(p, "idle")
  /\ UNCHANGED <<edge, keychain, fresh, held, faults, history>>

LoginTimedOut(p) ==
  /\ pc[p] = "login"
  /\ codes[held[p]].over
  /\ Goto(p, "idle")
  /\ UNCHANGED <<edge, keychain, fresh, held, faults, history>>

(* getAccessToken: no refresh as long as the access token stored is good.  *)
GetAccessToken(p) ==
  LET t == keychain[MachineOf[p]]
  IN  /\ pc[p] = "idle"
      /\ t # 0
      /\ ~fresh[MachineOf[p]]
      /\ Step(p, "refresh", t)
      /\ Goto(p, "refreshing")
      /\ excused' = excused \cup   \* another process refreshes as well
           {f \in {Family(t)} : \E q \in Procs \ {p} : f \in Carried(q)}
      /\ UNCHANGED <<codes, rows, keychain, fresh, held, faults, doomed, late>>

(* Mutant of Outcome: any answer but a refusal is taken for a session.     *)
OutcomeAnySession(answer) == IF answer = Refusal THEN "idle" ELSE "save"

(* The answer: pending sends a login back to sleep, a refusal ends it.     *)
Outcome(answer) ==
  CASE answer = Pending -> "login" [] answer = Refusal -> "idle" [] OTHER -> "save"

Receive(p) ==
  LET answer == call[p].arg
  IN  /\ call[p].step = "answered"
      /\ call' = [call EXCEPT ![p] = NoCall]
      /\ held' = [held EXCEPT ![p] = IF Outcome(answer) = "save" THEN answer ELSE @]
      /\ Goto(p, Outcome(answer))
      /\ UNCHANGED <<codes, rows, keychain, fresh, faults, history>>

(* Mutant of Kept: the rotated token is not stored.                        *)
KeptOld(p) == IF keychain[MachineOf[p]] # 0 THEN keychain[MachineOf[p]] ELSE held[p]

Kept(p) == held[p]

SaveSession(p) ==
  /\ pc[p] = "save"
  /\ keychain' = [keychain EXCEPT ![MachineOf[p]] = Kept(p)]
  /\ fresh' = [fresh EXCEPT ![MachineOf[p]] = TRUE]
  /\ Goto(p, "idle")
  /\ UNCHANGED <<edge, held, faults, history>>

-----------------------------------------------------------------------------
(* Time and faults *)

AccessTokenExpires(m) ==
  /\ fresh[m]
  /\ fresh' = [fresh EXCEPT ![m] = FALSE]
  /\ UNCHANGED <<edge, keychain, pc, held, faults, history>>

CodeExpires(c) ==
  /\ ~codes[c].over
  /\ codes' = [codes EXCEPT ![c].over = TRUE, ![c].echoed = FALSE]
  /\ UNCHANGED <<rows, call, cli, faults, history>>

Fault == faults < MaxFaults /\ Room /\ faults' = faults + 1

TokenExpires(t) ==
  /\ Fault
  /\ Live(t)
  /\ rows' = [rows EXCEPT ![t].expired = TRUE]
  /\ excused' = excused \cup {Family(t)}
  /\ UNCHANGED <<codes, call, cli, doomed, late>>

(* The request, its handler or its answer is lost: the command fails.      *)
Lose(x) ==
  /\ Fault
  /\ call[x].step # "none"
  /\ call' = [call EXCEPT ![x] = NoCall]
  /\ IF x \in Procs THEN Goto(x, "idle") ELSE UNCHANGED pc
  /\ excused' = excused \cup Touched(x)
  /\ doomed' = doomed \ (IF call[x].step = "reuse" THEN Touched(x) ELSE {})
  /\ UNCHANGED <<codes, rows, keychain, fresh, held, late>>

Repeat(p) ==
  /\ Fault
  /\ call[p].step \in {"poll", "refresh"}
  /\ call[Echo].step = "none"
  /\ call' = [call EXCEPT ![Echo] = call[p]]
  /\ excused' = excused \cup Touched(p)
  /\ UNCHANGED <<codes, rows, cli, doomed, late>>

EchoEnds ==
  /\ call[Echo].step = "answered"
  /\ call' = [call EXCEPT ![Echo] = NoCall]
  /\ UNCHANGED <<codes, rows, cli, faults, history>>

(* A process is killed before it has stored what it got.                   *)
Killed(p) ==
  /\ Fault
  /\ pc[p] = "save"
  /\ Goto(p, "idle")
  /\ excused' = excused \cup {Family(held[p])}
  /\ UNCHANGED <<edge, keychain, fresh, held, doomed, late>>

Init ==
  /\ codes = <<>> /\ rows = <<>>
  /\ call = [x \in Callers |-> NoCall]
  /\ keychain = [m \in Machines |-> 0]
  /\ fresh = [m \in Machines |-> FALSE]
  /\ pc = [p \in Procs |-> "idle"]
  /\ held = [p \in Procs |-> 0]
  /\ faults = 0
  /\ doomed = {} /\ late = {} /\ excused = {}

Serve(x) == \/ PollDeviceAuth(x) \/ Claim(x) \/ InsertSession(x)
            \/ Refresh(x) \/ RevokeFamily(x) \/ CommitRotation(x)

Next ==
  \/ \E p \in Procs : \/ StartDeviceAuth(p) \/ Poll(p) \/ LoginTimedOut(p) \/ GetAccessToken(p)
                      \/ Receive(p) \/ SaveSession(p) \/ Repeat(p) \/ Killed(p)
  \/ \E x \in Callers : Serve(x) \/ Lose(x)
  \/ EchoEnds
  \/ \E c \in DOMAIN codes : ApproveDeviceAuth(c) \/ CodeExpires(c)
  \/ \E m \in Machines : RevokeMachine(m) \/ AccessTokenExpires(m)
  \/ \E t \in Issued : TokenExpires(t)

(* The edge serves what reaches it, a login goes on polling, and a device  *)
(* code expires; whether anyone approves is up to the user.                *)
Fairness ==
  /\ \A x \in Callers : WF_vars(Serve(x))
  /\ \A p \in Procs : WF_vars(Poll(p) \/ LoginTimedOut(p) \/ Receive(p) \/ SaveSession(p))
  /\ \A c \in Codes : WF_vars(c \in DOMAIN codes /\ CodeExpires(c))

Spec == Init /\ [][Next]_vars /\ Fairness

-----------------------------------------------------------------------------
(* Properties *)

TypeOK ==
  /\ codes \in Seq([status : {"pending", "approved", "claimed", "expired"},
                    over : BOOLEAN, machine : Machines, echoed : BOOLEAN])
  /\ Len(codes) <= MaxLogins
  /\ rows \in Seq([family : Tokens, code : Codes, machine : Machines,
                   rotated : BOOLEAN, revoked : BOOLEAN, expired : BOOLEAN])
  /\ Len(rows) <= MaxTokens
  /\ call \in [Callers -> [step : {"none", "poll", "claim", "insert", "refresh", "reuse",
                                   "commit", "answered"}, arg : Codes \cup (0..Pending)]]
  /\ keychain \in [Machines -> {0} \cup Issued]
  /\ fresh \in [Machines -> BOOLEAN]
  /\ pc \in [Procs -> {"idle", "login", "polling", "refreshing", "save"}]
  /\ held \in [Procs -> Nat]
  /\ faults \in 0..MaxFaults
  /\ doomed \subseteq Tokens /\ late \subseteq Tokens /\ excused \subseteq Tokens

(* However often a poll reaches the edge, an approved device code opens    *)
(* one session family, and that session is the asking machine's: the edge  *)
(* files every token of it under that machine (so that revoking a machine  *)
(* ends it), and only that machine's processes and keychain get to store   *)
(* one.                                                                    *)
AskedBy(t) == codes[rows[t].code].machine
SingleClaim ==
  /\ \A t, u \in Issued : rows[t].code = rows[u].code => Family(t) = Family(u)
  /\ \A t \in Issued :
       /\ rows[t].machine = AskedBy(t)
       /\ \A p \in Procs : pc[p] = "save" /\ held[p] = t => MachineOf[p] = AskedBy(t)
       /\ \A m \in Machines : keychain[m] = t => m = AskedBy(t)

(* A family has one usable token at most, unless two of its rotations      *)
(* overlapped; and none once a used token of it came back, or the user     *)
(* revoked the machine, unless a rotation was in flight (session.ts: "a    *)
(* stolen-and-replayed token can't outlive its detection").                *)
OneLive ==
  \A f \in Tokens \ late :
    LET live == {t \in Issued : Family(t) = f /\ Live(t)}
        noticed == \E x \in Callers : call[x].step = "reuse" /\ Family(call[x].arg) = f
    IN  Cardinality(live) <= 1 /\ (f \in doomed /\ ~noticed => live = {})

(* The user has to log in again only if something happened to the session: *)
(* it was revoked or expired, a call or a process was cut off, a request   *)
(* came twice, or two processes refreshed at once.  Else the machine has a *)
(* good token, or a process of it is about to store the next one.          *)
KeychainLive ==
  \A m \in Machines :
    LET t == keychain[m]
    IN  \/ t = 0
        \/ Family(t) \in excused
        \/ Live(t)
        \/ \E p \in Procs : MachineOf[p] = m /\ Family(t) \in Carried(p)

(* A login ends, approved or not.                                          *)
LoginEnds == \A p \in Procs : pc[p] \in {"login", "polling"} ~> pc[p] \in {"idle", "save"}

=============================================================================
