------------------------------ MODULE CloudTeams ------------------------------
(***************************************************************************)
(* A team of the cloud: who is in it (services/edge/functions/teams), the  *)
(* versions of its config and of its members' private ones, with the       *)
(* machines that push them (functions/push), what it pays for              *)
(* (functions/billing, lib/entitlements.ts) and the end of an account      *)
(* (functions/account), on the tables, keys and row-level policies of      *)
(* supabase/migrations.                                                    *)
(*                                                                         *)
(* A handler runs one statement, or one transaction, per step; handlers    *)
(* interleave between steps and may be cut off there.  Stripe delivers     *)
(* each event at least once and in any order.  Of a user's machines one is *)
(* followed: a push gives its name, or another one or none.                *)
(***************************************************************************)
EXTENDS Naturals, FiniteSets, FiniteSetsExt, Sequences

CONSTANTS
  Users,
  Owner,        \* teams.owner_id
  Invites,      \* the pending invites that may be minted
  Hooks,        \* webhook deliveries that may be in progress together
  MaxVersions,  \* versions of a line of configs
  MaxEvents,    \* events of Stripe
  MaxInputs,    \* rows of configs, pushes and events together
  MaxFaults     \* handlers cut off, in all

ASSUME TeamAssumption ==
  /\ Owner \in Users
  /\ "nobody" \notin Users /\ "stranger" \notin Users /\ "nothing" \notin Invites
  /\ "team" \notin Users
  /\ MaxVersions \in Nat /\ MaxEvents \in Nat /\ MaxInputs \in Nat
  /\ MaxFaults \in Nat

VARIABLES
  account,   \* auth.users
  role,      \* team_members
  invites,   \* pending_invites
  gate,      \* whom an invite that passed the billing gate is for, or NoOne
  claim,     \* per user: the invite claimed, while the membership is to be written
  configs,   \* configs: line, version, author (history: did the machine push it)
  pushed,    \* machines: last_pushed_version of a user's machine, 0 if there is no row
  push,      \* per user: the transaction of a push
  events,    \* what Stripe sent: the state of the subscription, or something else
  ledger,    \* billing_events
  paid,      \* entitlements: the tier and status of the team grant team-config
  hook,      \* per delivery: its event while the entitlement is to be written, else 0
  faults,
  everPaid,  \* history: a paid entitlement was written
  added,     \* history: whom the owner added
  erased,    \* history: an account was deleted
  written,   \* history: the events that reached the entitlement
  excused    \* history: one was cut off, or overtaken by a later one

people  == <<account, role, invites, gate, claim, added>>
history == <<configs, pushed, push, erased>>
billing == <<events, ledger, paid, hook, everPaid, written, excused>>
vars    == <<people, history, billing, faults>>

NoOne   == "nobody"
Nothing == "nothing"
Stranger == "stranger"   \* an address that has no account
Team    == "team"
Lines   == Users \cup {Team}   \* coalesce(team_id, owner_id): a private line per user
NoPush  == [step |-> "none", line |-> Team, version |-> 0, named |-> FALSE]

Minted(redeemed) == [minted |-> TRUE, redeemed |-> redeemed, revoked |-> FALSE, expired |-> FALSE]
Unminted == [Minted(NoOne) EXCEPT !.minted = FALSE]

(* Row-level security: is_team_member.  What an owner writes to the roster *)
(* is read back, which takes a row of the owner's own.                     *)
IsMember(u)   == role[u] # "none"
OwnerOnRoster == IsMember(Owner)

(* The bound on what comes in.                                             *)
Pushing == {u \in Users : push[u] # NoPush}
Room    == Cardinality(configs) + Cardinality(Pushing) + Len(events) < MaxInputs

-----------------------------------------------------------------------------
(* Members and invites *)

(* Mutant of Entitled: the gate fails open.                                *)
EntitledAnyway == TRUE

Entitled == paid

(* The billing gate asks nothing of the caller; the insert that follows    *)
(* does, by the policies: it is the owner's, or it is forbidden.           *)
TeamInvite(u) ==
  /\ gate = NoOne
  /\ Entitled
  /\ gate' = u
  /\ UNCHANGED <<account, role, invites, claim, added, history, billing, faults>>

InviteForbidden ==
  /\ gate # NoOne
  /\ gate' = NoOne
  /\ UNCHANGED <<account, role, invites, claim, added, history, billing, faults>>

(* A user with an account: no policy allows the update of an existing row. *)
AddMember(u, r) ==
  /\ gate = u
  /\ OwnerOnRoster /\ u \in account /\ ~IsMember(u)
  /\ gate' = NoOne
  /\ role' = [role EXCEPT ![u] = r]
  /\ added' = added \cup {u}
  /\ UNCHANGED <<account, invites, claim, history, billing, faults>>

(* An address without one: an invite, which passes to whoever holds it.    *)
MintInvite(i) ==
  /\ gate = Stranger
  /\ ~invites[i].minted
  /\ gate' = NoOne
  /\ invites' = [invites EXCEPT ![i] = Minted(NoOne)]
  /\ UNCHANGED <<account, role, claim, added, history, billing, faults>>

RevokeInvite(i) ==
  /\ invites[i].minted /\ invites[i].redeemed = NoOne /\ ~invites[i].revoked
  /\ invites' = [invites EXCEPT ![i].revoked = TRUE]
  /\ UNCHANGED <<account, role, gate, claim, added, history, billing, faults>>

InviteExpires(i) ==
  /\ invites[i].minted /\ ~invites[i].expired
  /\ invites' = [invites EXCEPT ![i].expired = TRUE]
  /\ UNCHANGED <<account, role, gate, claim, added, history, billing, faults>>

(* Mutant of Claimable: an invite that was redeemed is not asked about.    *)
ClaimableAgain(i) == invites[i].minted /\ ~invites[i].revoked /\ ~invites[i].expired

Claimable(i) ==
  invites[i].minted /\ invites[i].redeemed = NoOne /\ ~invites[i].revoked /\ ~invites[i].expired

RedeemInvite(u, i) ==
  /\ u \in account
  /\ claim[u] = Nothing
  /\ Claimable(i)
  /\ invites' = [invites EXCEPT ![i].redeemed = u]
  /\ claim' = [claim EXCEPT ![u] = i]
  /\ UNCHANGED <<account, role, gate, added, history, billing, faults>>

(* The membership is written over the one there is, the owner's included.  *)
JoinTeam(u, r) ==
  /\ claim[u] # Nothing
  /\ claim' = [claim EXCEPT ![u] = Nothing]
  /\ role' = [role EXCEPT ![u] = r]
  /\ UNCHANGED <<account, invites, gate, added, history, billing, faults>>

TeamRemove(u) ==
  /\ OwnerOnRoster /\ IsMember(u)
  /\ role' = [role EXCEPT ![u] = "none"]
  /\ added' = added \ {u}
  /\ UNCHANGED <<account, invites, gate, claim, history, billing, faults>>

-----------------------------------------------------------------------------
(* Versions of the config *)

Rows(line)     == {c \in configs : c.line = line}
Versions(line) == {c.version : c \in Rows(line)}
Latest(line)   == Max({0} \cup Versions(line))

(* Mutant of NextVersion: the numbers run through all lines.               *)
NextOverall(line) == Max({0} \cup {c.version : c \in configs}) + 1

NextVersion(line) == Latest(line) + 1

(* The policy configs_insert.                                              *)
MayPush(u, line) == line = u \/ (line = Team /\ IsMember(u))

Holds(line, v) ==
  \E u \in Users : push[u].step = "held" /\ push[u].line = line /\ push[u].version = v

(* The policy and the trigger configs_set_version see what is committed.   *)
Push(u, line, named) ==
  /\ push[u] = NoPush
  /\ MayPush(u, line)
  /\ Room
  /\ \E v \in 0..MaxVersions :   \* the bound
       /\ v = NextVersion(line)
       /\ push' = [push EXCEPT ![u] = [step |-> "insert", line |-> line, version |-> v,
                                       named |-> named]]
  /\ UNCHANGED <<people, configs, pushed, erased, billing, faults>>

(* Mutant of VersionTaken: configs_line_version_uq is not there.           *)
VersionTakenNever(line, v) == FALSE

(* The unique index makes an insert wait for a rival that has not          *)
(* committed, and fail once the rival has.                                 *)
VersionTaken(line, v) == v \in Versions(line)

Insert(u) ==
  LET p == push[u]
  IN  /\ p.step = "insert"
      /\ ~Holds(p.line, p.version)
      /\ push' = [push EXCEPT ![u] = IF VersionTaken(p.line, p.version) \/ u \notin account
                                     THEN NoPush ELSE [p EXCEPT !.step = "held"]]
      /\ UNCHANGED <<people, configs, pushed, erased, billing, faults>>

(* Mutant of Remembered: the row is not asked for by name.                 *)
RememberedAnyway(u) == TRUE

Remembered(u) == push[u].named

(* The row of the machine is in the same transaction.  It is one row,      *)
(* whatever line is pushed.                                                *)
CommitPush(u) ==
  LET p == push[u]
  IN  /\ p.step = "held"
      /\ configs' = configs \cup {[line |-> p.line, version |-> p.version, author |-> u,
                                    named |-> p.named]}
      /\ pushed' = [pushed EXCEPT ![u] = IF Remembered(u) THEN p.version ELSE @]
      /\ push' = [push EXCEPT ![u] = NoPush]
      /\ UNCHANGED <<people, erased, billing, faults>>

(* Mutant of Cascades: the machines stay.                                  *)
CascadesButMachines(u) ==
  /\ role' = [role EXCEPT ![u] = "none"]
  /\ configs' = {c \in configs : c.author # u}
  /\ UNCHANGED pushed

Cascades(u) ==
  /\ role' = [role EXCEPT ![u] = "none"]
  /\ configs' = {c \in configs : c.author # u}
  /\ pushed' = [pushed EXCEPT ![u] = 0]

(* Of a member: the deletion waits for a push of theirs, and fails as long *)
(* as an invite names them (redeemed_by does not cascade).                 *)
AccountDelete(u) ==
  /\ u \in account \ {Owner}
  /\ push[u].step # "held"
  /\ \A i \in Invites : invites[i].redeemed # u
  /\ account' = account \ {u}
  /\ Cascades(u)
  /\ erased' = TRUE
  /\ added' = added \ {u}
  /\ UNCHANGED <<invites, gate, claim, push, billing, faults>>

-----------------------------------------------------------------------------
(* Billing *)

Stripe(e) ==
  /\ Len(events) < MaxEvents /\ Room
  /\ events' = Append(events, e)
  /\ UNCHANGED <<people, history, ledger, paid, hook, everPaid, written, excused, faults>>

(* Mutant of Recorded: the ledger is written and not asked.                *)
RecordedNever(n) == FALSE

Recorded(n) == n \in ledger

(* The first statement of applyEvent; a duplicate ends with it, and so     *)
(* does an event about something else than a subscription of a team.       *)
Deliver(h, n) ==
  /\ hook[h] = 0
  /\ ~Recorded(n)
  /\ ledger' = ledger \cup {n}
  /\ hook' = [hook EXCEPT ![h] = IF events[n] = "other" THEN 0 ELSE n]
  /\ UNCHANGED <<people, history, events, paid, everPaid, written, excused, faults>>

(* The second.                                                             *)
UpsertEntitlement(h) ==
  LET n == hook[h]
  IN  /\ n # 0
      /\ paid' = (events[n] = "paid")
      /\ everPaid' = (everPaid \/ paid')
      /\ hook' = [hook EXCEPT ![h] = 0]
      /\ written' = written \cup {n}
      /\ excused' = (excused \/ (n \notin written /\ \E later \in written : n < later))
      /\ UNCHANGED <<people, history, events, ledger, faults>>

-----------------------------------------------------------------------------
(* A handler is cut off between two of its statements *)

Fault == faults < MaxFaults /\ faults' = faults + 1

CutHook(h) ==
  /\ Fault
  /\ hook[h] # 0
  /\ hook' = [hook EXCEPT ![h] = 0]
  /\ excused' = TRUE
  /\ UNCHANGED <<people, history, events, ledger, paid, everPaid, written>>

CutRedeem(u) ==
  /\ Fault
  /\ claim[u] # Nothing
  /\ claim' = [claim EXCEPT ![u] = Nothing]
  /\ UNCHANGED <<account, role, invites, gate, added, history, billing>>

CutPush(u) ==
  /\ Fault
  /\ push[u] # NoPush
  /\ push' = [push EXCEPT ![u] = NoPush]
  /\ UNCHANGED <<people, configs, pushed, erased, billing>>

Init ==
  /\ account = Users
  /\ role = [u \in Users |-> IF u = Owner THEN "owner" ELSE "none"]
  /\ invites = [i \in Invites |-> Unminted]
  /\ gate = NoOne
  /\ claim = [u \in Users |-> Nothing]
  /\ configs = {} /\ pushed = [u \in Users |-> 0] /\ push = [u \in Users |-> NoPush]
  /\ events = <<>> /\ ledger = {} /\ paid = FALSE /\ hook = [h \in Hooks |-> 0]
  /\ faults = 0
  /\ everPaid = FALSE /\ added = {} /\ erased = FALSE /\ written = {} /\ excused = FALSE

Granted == {"admin", "member"}

Next ==
  \/ InviteForbidden \/ \E u \in Users \cup {Stranger} : TeamInvite(u)
  \/ \E u \in Users, r \in Granted : AddMember(u, r) \/ JoinTeam(u, r)
  \/ \E i \in Invites : MintInvite(i) \/ RevokeInvite(i) \/ InviteExpires(i)
  \/ \E u \in Users, i \in Invites : RedeemInvite(u, i)
  \/ \E u \in Users : TeamRemove(u) \/ AccountDelete(u) \/ CutRedeem(u)
  \/ \E u \in Users : \/ \E line \in {u, Team}, named \in BOOLEAN : Push(u, line, named)
                      \/ Insert(u) \/ CommitPush(u) \/ CutPush(u)
  \/ \E e \in {"paid", "unpaid", "other"} : Stripe(e)
  \/ \E h \in Hooks : UpsertEntitlement(h) \/ CutHook(h) \/ \E n \in DOMAIN events : Deliver(h, n)

Spec == Init /\ [][Next]_vars

-----------------------------------------------------------------------------
(* Properties *)

Roles == {"none", "owner"} \cup Granted

TypeOK ==
  /\ account \subseteq Users
  /\ role \in [Users -> Roles]
  /\ invites \in [Invites -> [minted : BOOLEAN, redeemed : Users \cup {NoOne},
                              revoked : BOOLEAN, expired : BOOLEAN]]
  /\ gate \in Users \cup {NoOne, Stranger}
  /\ claim \in [Users -> Invites \cup {Nothing}]
  /\ configs \subseteq [line : Lines, version : 0..MaxVersions, author : Users, named : BOOLEAN]
  /\ pushed \in [Users -> 0..MaxVersions]
  /\ push \in [Users -> [step : {"none", "insert", "held"}, line : Lines,
                          version : 0..MaxVersions, named : BOOLEAN]]
  /\ events \in Seq({"paid", "unpaid", "other"}) /\ Len(events) <= MaxEvents
  /\ ledger \subseteq 1..MaxEvents /\ written \subseteq 1..MaxEvents
  /\ paid \in BOOLEAN /\ everPaid \in BOOLEAN /\ erased \in BOOLEAN /\ excused \in BOOLEAN
  /\ hook \in [Hooks -> 0..MaxEvents]
  /\ faults \in 0..MaxFaults
  /\ added \subseteq Users

(* Whoever is in the team was added by its owner, or redeemed an invite:   *)
(* each lets in one user and, once revoked, nobody (teams/index.ts:        *)
(* "Atomic single-use claim"); and as long as the team never paid its      *)
(* owner is alone.                                                         *)
NoBackdoor ==
  /\ \A i \in Invites : invites[i].revoked => invites[i].redeemed = NoOne
  /\ \A u \in Users \ {Owner} :
       IsMember(u) => /\ everPaid
                      /\ u \in account
                      /\ u \in added \/ \E i \in Invites : invites[i].redeemed = u

(* However pushes interleave, no two rows of a line have one number        *)
(* (0002_schema.sql: "One version number per config"), and a line has no   *)
(* gaps; but for the team's once an account was deleted, whose numbers are *)
(* missing, or given again.  A private line is its user's.  What a machine *)
(* is said to have pushed last is a version that its user pushed by its    *)
(* name, so nothing of an account outlives it there.                       *)
HistorySound ==
  /\ \A c, d \in configs : c.line = d.line /\ c.version = d.version => c = d
  /\ \A l \in Lines : l # Team \/ ~erased => Versions(l) = 1..Cardinality(Rows(l))
  /\ \A c \in configs : c.line \in {c.author, Team} /\ c.author \in account
  /\ \A u \in Users : pushed[u] = 0 \/
       \E c \in configs : c.author = u /\ c.named /\ c.version = pushed[u]
  /\ \A u \in Users \ account : ~IsMember(u)

(* Once every event was delivered, however often, the tier is what the     *)
(* last one about the subscription said, unless a delivery was cut off     *)
(* between its statements or overtaken by a later event (0007: "never      *)
(* double-applies").                                                       *)
TierCurrent ==
  LET about == {n \in DOMAIN events : events[n] # "other"}
  IN  DOMAIN events \subseteq ledger /\ (\A h \in Hooks : hook[h] = 0) /\ ~excused
        => paid = (about # {} /\ events[Max(about)] = "paid")

=============================================================================
