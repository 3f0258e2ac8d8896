--------------------------- MODULE CloudTeamsProofs ---------------------------
(***************************************************************************)
(* Theorems about CloudTeams: for any number of users, invites, deliveries *)
(* of webhooks and faults, nobody is in a team who was not added or        *)
(* invited, and nobody but its owner as long as it never paid; lines of    *)
(* versions are sound; and the tier is what the last event said.           *)
(***************************************************************************)
EXTENDS CloudTeams, Integers, FiniteSetTheorems, WellFoundedInduction, TLAPS

(* The types, by the tables they belong to.                                *)
PeopleOK ==
  /\ account \subseteq Users
  /\ role \in [Users -> Roles]
  /\ invites \in [Invites -> [minted : BOOLEAN, redeemed : Users \cup {NoOne},
                              revoked : BOOLEAN, expired : BOOLEAN]]
  /\ gate \in Users \cup {NoOne, Stranger}
  /\ claim \in [Users -> Invites \cup {Nothing}]
  /\ added \subseteq Users
PushRow == [step : {"none", "insert", "held"}, line : Lines, version : 0..MaxVersions,
            named : BOOLEAN]
HistoryOK ==
  /\ configs \subseteq [line : Lines, version : 0..MaxVersions, author : Users, named : BOOLEAN]
  /\ pushed \in [Users -> 0..MaxVersions]
  /\ push \in [Users -> PushRow]
  /\ erased \in BOOLEAN
BillingOK ==
  /\ events \in Seq({"paid", "unpaid", "other"}) /\ Len(events) <= MaxEvents
  /\ ledger \subseteq 1..MaxEvents /\ written \subseteq 1..MaxEvents
  /\ paid \in BOOLEAN /\ everPaid \in BOOLEAN /\ excused \in BOOLEAN
  /\ hook \in [Hooks -> 0..MaxEvents]
Typed == PeopleOK /\ HistoryOK /\ BillingOK /\ faults \in 0..MaxFaults

(* Everything that lets somebody in passed the billing gate, which opens   *)
(* for a team that paid.                                                   *)
PaidFor ==
  /\ paid \/ gate # NoOne => everPaid
  /\ \A i \in Invites : invites[i].minted => everPaid

(* A redeemed invite is a minted one that is not revoked, and keeps the    *)
(* account of who redeemed it; a claim stands on such an invite.           *)
Redeemed ==
  /\ \A i \in Invites : invites[i].redeemed # NoOne =>
       invites[i].minted /\ ~invites[i].revoked /\ invites[i].redeemed \in account
  /\ \A u \in Users : claim[u] # Nothing => invites[claim[u]].redeemed = u

(* Who is in the team has a reason to be.                                  *)
LetIn(u) == u \in added \/ \E i \in Invites : invites[i].redeemed = u
Members ==
  \A u \in Users \ {Owner} : IsMember(u) => everPaid /\ u \in account /\ LetIn(u)

IInv == Typed /\ PaidFor /\ Redeemed /\ Members

(* A line of versions: each number once and, but for the team's once an    *)
(* account was deleted, without gaps; a private line is its user's.        *)
Gapless(l) == l # Team \/ ~erased
Numbered ==
  /\ IsFiniteSet(configs)
  /\ \A c, d \in configs : c.line = d.line /\ c.version = d.version => c = d
  /\ \A l \in Lines : Gapless(l) => Versions(l) = 1..Cardinality(Rows(l))
  /\ \A c \in configs : c.line \in {c.author, Team} /\ c.author \in account

(* A push under way is for a number not beyond the next one; once its row  *)
(* is inserted nobody else has it, and the account stays until it ends.    *)
Ahead(u) ==
  push[u].step # "none" =>
    /\ push[u].line \in {u, Team} /\ push[u].version >= 1
    /\ Gapless(push[u].line) /\ u \in account =>
         push[u].version <= Cardinality(Rows(push[u].line)) + 1
Apart(u) ==
  push[u].step = "held" =>
    /\ u \in account /\ push[u].version \notin Versions(push[u].line)
    /\ \A w \in Users \ {u} : push[w].step = "held" /\ push[w].line = push[u].line =>
         push[w].version # push[u].version

(* What a machine is remembered to have pushed last it did push.           *)
Recalled(u) ==
  pushed[u] = 0 \/ \E c \in configs : c.author = u /\ c.named /\ c.version = pushed[u]

Line == Numbered /\ Owner \in account /\ \A u \in Users : Ahead(u) /\ Apart(u) /\ Recalled(u)

(* An event is in the ledger once a delivery took it, and then either on   *)
(* its way to the entitlement, by one delivery and for the first time, or  *)
(* there, unless the delivery was cut off.                                 *)
About(n) == n \in DOMAIN events /\ events[n] # "other"
Delivered ==
  /\ ledger \subseteq DOMAIN events
  /\ \A h \in Hooks : hook[h] # 0 => /\ hook[h] \in ledger \ written /\ About(hook[h])
                                     /\ \A g \in Hooks \ {h} : hook[g] # hook[h]
  /\ \A n \in written : n \in ledger /\ About(n)
  /\ ~excused => \A n \in ledger : About(n) => n \in written \/ \E h \in Hooks : hook[h] = n

(* The entitlement is the last one that reached it.                        *)
Newest(n) == \A m \in written : m <= n
Applied ==
  ~excused => /\ written = {} => ~paid
              /\ \A n \in written : Newest(n) => (paid <=> events[n] = "paid")

-----------------------------------------------------------------------------
LEMMA SameTypes == Typed <=> TypeOK
BY DEF Typed, PeopleOK, HistoryOK, PushRow, BillingOK, TypeOK

LEMMA InitIInv == Init => IInv
<1> SUFFICES ASSUME Init PROVE IInv
  OBVIOUS
<1> USE TeamAssumption
<1>1. /\ account = Users /\ role = [u \in Users |-> IF u = Owner THEN "owner" ELSE "none"]
      /\ invites = [i \in Invites |-> Unminted] /\ gate = NoOne /\ added = {}
      /\ claim = [u \in Users |-> Nothing]
  BY DEF Init
<1>2. /\ configs = {} /\ pushed = [u \in Users |-> 0] /\ push = [u \in Users |-> NoPush]
      /\ erased = FALSE
  BY DEF Init
<1>3. /\ events = <<>> /\ ledger = {} /\ written = {} /\ hook = [h \in Hooks |-> 0]
      /\ paid = FALSE /\ everPaid = FALSE /\ excused = FALSE /\ faults = 0
  BY DEF Init
<1>4. /\ Unminted \in [minted : BOOLEAN, redeemed : Users \cup {NoOne},
                         revoked : BOOLEAN, expired : BOOLEAN]
      /\ ~Unminted.minted /\ Unminted.redeemed = NoOne
  BY DEF Unminted, Minted
<1>5. PeopleOK
  BY <1>1, <1>4 DEF PeopleOK, Roles
<1>6. HistoryOK
  <2>1. NoPush \in PushRow
    BY DEF NoPush, PushRow, Lines
  <2>2. push \in [Users -> PushRow]
    <3>1. push = [u \in Users |-> NoPush]
      BY <1>2
    <3> QED
      BY <2>1, <3>1, Zenon
  <2>3. pushed \in [Users -> 0..MaxVersions]
    <3>1. pushed = [u \in Users |-> 0] /\ 0 \in 0..MaxVersions
      BY <1>2
    <3> QED
      BY <3>1, Zenon
  <2>4. erased \in BOOLEAN /\ configs = {}
    BY <1>2
  <2> QED
    BY <2>2, <2>3, <2>4 DEF HistoryOK
<1>7. BillingOK /\ faults \in 0..MaxFaults
  <2>1. hook \in [Hooks -> 0..MaxEvents] /\ faults \in 0..MaxFaults
    BY <1>3
  <2>2. events \in Seq({"paid", "unpaid", "other"}) /\ Len(events) <= MaxEvents
    BY <1>3
  <2>3. paid \in BOOLEAN /\ everPaid \in BOOLEAN /\ excused \in BOOLEAN
    BY <1>3
  <2> QED
    BY <1>3, <2>1, <2>2, <2>3 DEF BillingOK
<1>8. PaidFor /\ Redeemed /\ Members
  BY <1>1, <1>3, <1>4 DEF PaidFor, Redeemed, Members, IsMember
<1> QED
  BY <1>5, <1>6, <1>7, <1>8 DEF IInv, Typed

(* What leaves the tables of a group alone leaves their types.             *)
LEMMA Unmoved ==
  /\ PeopleOK /\ UNCHANGED people => PeopleOK'
  /\ HistoryOK /\ UNCHANGED history => HistoryOK'
  /\ BillingOK /\ UNCHANGED billing => BillingOK'
BY DEF PeopleOK, HistoryOK, BillingOK, people, history, billing

LEMMA FaultTyped == faults \in 0..MaxFaults /\ (Fault \/ UNCHANGED faults) => faults' \in 0..MaxFaults
BY TeamAssumption DEF Fault

-----------------------------------------------------------------------------
(* Pushes and webhooks touch nothing the roster depends on, but that a     *)
(* team paid.                                                              *)
Pushes(u) ==
  \/ \E line \in {u, Team}, named \in BOOLEAN : Push(u, line, named)
  \/ Insert(u) \/ CommitPush(u) \/ CutPush(u)

LEMMA PushTyped ==
  ASSUME Typed, NEW u \in Users, Pushes(u)
  PROVE  Typed' /\ UNCHANGED <<people, billing>>
<1> USE TeamAssumption
<1>0. push \in [Users -> PushRow] /\ push[u] \in PushRow
  BY DEF Typed, HistoryOK
<1>1. NoPush \in PushRow
  BY DEF NoPush, PushRow, Lines
<1>2. UNCHANGED <<people, billing>> /\ faults' \in 0..MaxFaults
  BY FaultTyped DEF Pushes, Push, Insert, CommitPush, CutPush, Typed
<1>3. HistoryOK'
  <2>1. ASSUME NEW line \in {u, Team}, NEW named \in BOOLEAN, Push(u, line, named)
        PROVE  HistoryOK'
    <3>1. PICK v \in 0..MaxVersions :
            push' = [push EXCEPT ![u] = [step |-> "insert", line |-> line, version |-> v,
                                         named |-> named]]
      BY <2>1 DEF Push
    <3>2. [step |-> "insert", line |-> line, version |-> v, named |-> named] \in PushRow
      BY DEF PushRow, Lines
    <3>3. push' \in [Users -> PushRow]
      BY <1>0, <3>1, <3>2
    <3> QED
      BY <2>1, <3>3 DEF Push, Typed, HistoryOK
  <2>2. Insert(u) => HistoryOK'
    <3> SUFFICES ASSUME Insert(u) PROVE HistoryOK'
      OBVIOUS
    <3>1. \/ push' = [push EXCEPT ![u] = NoPush]
          \/ push' = [push EXCEPT ![u] = [push[u] EXCEPT !.step = "held"]]
      BY DEF Insert
    <3>2. [push[u] EXCEPT !.step = "held"] \in PushRow
      BY <1>0 DEF PushRow
    <3>3. push' \in [Users -> PushRow]
      BY <1>0, <1>1, <3>1, <3>2
    <3> QED
      BY <3>3 DEF Insert, Typed, HistoryOK
  <2>3. CommitPush(u) => HistoryOK'
    <3> SUFFICES ASSUME CommitPush(u) PROVE HistoryOK'
      OBVIOUS
    <3>1. push' \in [Users -> PushRow]
      BY <1>0, <1>1 DEF CommitPush
    <3>2. push[u].version \in 0..MaxVersions /\ push[u].line \in Lines /\ push[u].named \in BOOLEAN
      BY <1>0 DEF PushRow
    <3>3. [line |-> push[u].line, version |-> push[u].version, author |-> u, named |-> push[u].named]
            \in [line : Lines, version : 0..MaxVersions, author : Users, named : BOOLEAN]
      BY <3>2
    <3>4. pushed' \in [Users -> 0..MaxVersions]
      BY <3>2 DEF CommitPush, Typed, HistoryOK
    <3> QED
      BY <3>1, <3>3, <3>4 DEF CommitPush, Typed, HistoryOK
  <2>4. CutPush(u) => HistoryOK'
    BY <1>0, <1>1 DEF CutPush, Typed, HistoryOK
  <2> QED
    BY <2>1, <2>2, <2>3, <2>4 DEF Pushes
<1> QED
  BY <1>2, <1>3, Unmoved DEF Typed

LEMMA HookTyped ==
  ASSUME Typed, PaidFor, NEW h \in Hooks,
         UpsertEntitlement(h) \/ CutHook(h) \/ \E n \in DOMAIN events : Deliver(h, n)
  PROVE  Typed' /\ UNCHANGED people /\ (everPaid => everPaid') /\ (paid' => everPaid')
<1> USE TeamAssumption
<1>1. UNCHANGED <<people, history, events>> /\ faults' \in 0..MaxFaults
  BY FaultTyped DEF UpsertEntitlement, CutHook, Deliver, Typed
<1>2. hook[h] \in 0..MaxEvents
  BY DEF Typed, BillingOK
<1>3. BillingOK' /\ (everPaid => everPaid') /\ (paid' => everPaid')
  <2>1. CASE UpsertEntitlement(h)
    <3>1. /\ hook[h] \in 1..MaxEvents
          /\ paid' = (events[hook[h]] = "paid") /\ everPaid' = (everPaid \/ paid')
          /\ hook' = [hook EXCEPT ![h] = 0] /\ written' = written \cup {hook[h]}
          /\ UNCHANGED <<events, ledger>>
      BY <1>2, <2>1 DEF UpsertEntitlement
    <3>2. paid' \in BOOLEAN /\ everPaid' \in BOOLEAN
      BY <3>1, Zenon
    <3>3. excused' \in BOOLEAN
      BY <2>1, Zenon DEF UpsertEntitlement
    <3>4. (everPaid => everPaid') /\ (paid' => everPaid')
      BY <3>1, Zenon
    <3>5. written' \subseteq 1..MaxEvents
      BY <3>1 DEF Typed, BillingOK
    <3>8. hook' \in [Hooks -> 0..MaxEvents]
      <4>1. hook \in [Hooks -> 0..MaxEvents] /\ hook' = [hook EXCEPT ![h] = 0]
            /\ 0 \in 0..MaxEvents
        BY <3>1 DEF Typed, BillingOK
      <4> QED
        BY <4>1
    <3>6. events' = events /\ ledger' = ledger
      BY <3>1
    <3>7. BillingOK'
      BY <3>2, <3>3, <3>5, <3>6, <3>8 DEF Typed, BillingOK
    <3> QED
      BY <3>4, <3>7, Zenon
  <2>2. CASE CutHook(h)
    BY <2>2 DEF CutHook, Typed, BillingOK, PaidFor
  <2>3. ASSUME NEW n \in DOMAIN events, Deliver(h, n)
        PROVE  BillingOK' /\ (everPaid => everPaid') /\ (paid' => everPaid')
    <3>1. n \in 1..MaxEvents
      BY DEF Typed, BillingOK
    <3>2. ledger' = ledger \cup {n} /\ UNCHANGED <<events, paid, everPaid, written, excused>>
          /\ hook' = [hook EXCEPT ![h] = IF events[n] = "other" THEN 0 ELSE n]
      BY <2>3 DEF Deliver
    <3>3. ledger' \subseteq 1..MaxEvents
      BY <3>1, <3>2 DEF Typed, BillingOK
    <3>6. hook' \in [Hooks -> 0..MaxEvents]
      <4>1. hook \in [Hooks -> 0..MaxEvents]
        BY DEF Typed, BillingOK
      <4> DEFINE m == IF events[n] = "other" THEN 0 ELSE n
      <4>2. m \in 0..MaxEvents
        BY <3>1
      <4>3. hook' = [hook EXCEPT ![h] = m]
        BY <3>2
      <4> HIDE DEF m
      <4> QED
        BY <4>1, <4>2, <4>3
    <3>4. BillingOK'
      BY <3>2, <3>3, <3>6 DEF Typed, BillingOK
    <3>5. (everPaid => everPaid') /\ (paid' => everPaid')
      BY <3>2, Zenon DEF PaidFor
    <3> QED
      BY <3>4, <3>5, Zenon
  <2> QED
    BY <2>1, <2>2, <2>3
<1> QED
  BY <1>1, <1>3, Unmoved DEF Typed

LEMMA Elsewhere ==
  ASSUME IInv, Typed', UNCHANGED people, everPaid => everPaid', paid' => everPaid'
  PROVE  IInv'
BY DEF IInv, PaidFor, Redeemed, Members, LetIn, IsMember, people

(* One step each that writes the roster or an invite.                      *)
LEMMA AddMemberInv ==
  ASSUME IInv, NEW u \in Users, NEW r \in Granted, AddMember(u, r)
  PROVE  IInv'
<1> USE TeamAssumption DEF IInv
<1>1. /\ gate = u /\ u \in account /\ gate' = NoOne
      /\ role' = [role EXCEPT ![u] = r] /\ added' = added \cup {u}
      /\ UNCHANGED <<account, invites, claim, history, billing, faults>>
  BY DEF AddMember
<1>2. everPaid /\ UNCHANGED <<paid, everPaid>>
  BY <1>1 DEF PaidFor, NoOne, billing
<1>3. Typed'
  BY <1>1, Unmoved DEF Typed, PeopleOK, Roles
<1>4. PaidFor' /\ Redeemed'
  BY <1>1, <1>2 DEF PaidFor, Redeemed
<1>5. Members'
  BY <1>1, <1>2 DEF Members, IsMember, LetIn, Typed, PeopleOK
<1> QED
  BY <1>3, <1>4, <1>5

LEMMA JoinTeamInv ==
  ASSUME IInv, NEW u \in Users, NEW r \in Granted, JoinTeam(u, r)
  PROVE  IInv'
<1> USE TeamAssumption DEF IInv
<1>1. /\ claim[u] # Nothing
      /\ claim' = [claim EXCEPT ![u] = Nothing] /\ role' = [role EXCEPT ![u] = r]
      /\ UNCHANGED <<account, invites, gate, added, history, billing, faults>>
  BY DEF JoinTeam
<1>2. /\ claim[u] \in Invites /\ invites[claim[u]].redeemed = u /\ u \in account /\ everPaid
      /\ UNCHANGED <<paid, everPaid>>
  BY <1>1 DEF Redeemed, PaidFor, Typed, PeopleOK, NoOne, billing
<1>3. Typed'
  BY <1>1, Unmoved DEF Typed, PeopleOK, Roles
<1>4. PaidFor'
  BY <1>1, <1>2 DEF PaidFor
<1>5. Redeemed'
  BY <1>1 DEF Redeemed, Typed, PeopleOK
<1>6. Members'
  BY <1>1, <1>2 DEF Members, IsMember, LetIn, Typed, PeopleOK
<1> QED
  BY <1>3, <1>4, <1>5, <1>6

LEMMA InviteInv ==
  ASSUME IInv, NEW i \in Invites, MintInvite(i) \/ RevokeInvite(i) \/ InviteExpires(i)
  PROVE  IInv'
<1> USE TeamAssumption DEF IInv
<1>1. /\ UNCHANGED <<account, role, claim, added, history, billing, faults>>
      /\ gate' = gate \/ gate' = NoOne
  BY DEF MintInvite, RevokeInvite, InviteExpires
<1>2. UNCHANGED <<paid, everPaid>>
  BY <1>1 DEF billing
<1>3. /\ invites' \in [Invites -> [minted : BOOLEAN, redeemed : Users \cup {NoOne},
                                    revoked : BOOLEAN, expired : BOOLEAN]]
      /\ \A j \in Invites \ {i} : invites'[j] = invites[j]
  <2>1. CASE MintInvite(i)
    BY <2>1 DEF MintInvite, Minted, Typed, PeopleOK
  <2>2. CASE RevokeInvite(i)
    BY <2>2 DEF RevokeInvite, Typed, PeopleOK
  <2>3. CASE InviteExpires(i)
    BY <2>3 DEF InviteExpires, Typed, PeopleOK
  <2> QED
    BY <2>1, <2>2, <2>3
<1>4. /\ invites'[i].redeemed = invites[i].redeemed
      /\ invites'[i].minted => everPaid
      /\ invites'[i].redeemed # NoOne => invites'[i].minted /\ ~invites'[i].revoked
  <2>1. CASE MintInvite(i)
    BY <2>1 DEF MintInvite, Minted, Typed, PeopleOK, Redeemed, PaidFor, Stranger, NoOne
  <2>2. CASE RevokeInvite(i)
    BY <2>2 DEF RevokeInvite, Typed, PeopleOK, Redeemed, PaidFor
  <2>3. CASE InviteExpires(i)
    BY <2>3 DEF InviteExpires, Typed, PeopleOK, Redeemed, PaidFor
  <2> QED
    BY <2>1, <2>2, <2>3
<1>5. Typed'
  BY <1>1, <1>3, Unmoved DEF Typed, PeopleOK
<1>6. \A j \in Invites : invites'[j].redeemed = invites[j].redeemed
  BY <1>3, <1>4
<1>7. PaidFor'
  BY <1>1, <1>2, <1>3, <1>4 DEF PaidFor
<1>8. Redeemed'
  BY <1>1, <1>3, <1>4, <1>6 DEF Redeemed, Typed, PeopleOK
<1>9. Members'
  BY <1>1, <1>2, <1>6 DEF Members, IsMember, LetIn
<1> QED
  BY <1>5, <1>7, <1>8, <1>9

LEMMA RedeemInviteInv ==
  ASSUME IInv, NEW u \in Users, NEW i \in Invites, RedeemInvite(u, i)
  PROVE  IInv'
<1> USE TeamAssumption DEF IInv
<1>1. /\ u \in account /\ Claimable(i)
      /\ invites' = [invites EXCEPT ![i].redeemed = u]
      /\ claim' = [claim EXCEPT ![u] = i]
      /\ UNCHANGED <<account, role, gate, added, history, billing, faults>>
  BY DEF RedeemInvite
<1>2. UNCHANGED <<paid, everPaid>>
  BY <1>1 DEF billing
<1>3. /\ invites' \in [Invites -> [minted : BOOLEAN, redeemed : Users \cup {NoOne},
                                    revoked : BOOLEAN, expired : BOOLEAN]]
      /\ \A j \in Invites \ {i} : invites'[j] = invites[j]
      /\ invites'[i].redeemed = u /\ invites[i].redeemed = NoOne /\ u # NoOne
      /\ invites'[i].minted /\ ~invites'[i].revoked /\ invites[i].minted
  BY <1>1 DEF Claimable, Typed, PeopleOK, NoOne
<1>4. Typed'
  BY <1>1, <1>3, Unmoved DEF Typed, PeopleOK
<1>5. PaidFor'
  BY <1>1, <1>2, <1>3 DEF PaidFor
<1>6. Redeemed'
  <2>1. \A j \in Invites : invites'[j].redeemed # NoOne =>
          invites'[j].minted /\ ~invites'[j].revoked /\ invites'[j].redeemed \in account
    BY <1>1, <1>3 DEF Redeemed
  <2>2. ASSUME NEW v \in Users, claim'[v] # Nothing
        PROVE  invites'[claim'[v]].redeemed = v
    <3>1. CASE v = u
      BY <1>1, <1>3, <3>1 DEF Typed, PeopleOK
    <3>2. CASE v # u
      <4>1. claim'[v] = claim[v] /\ claim[v] \in Invites /\ invites[claim[v]].redeemed = v
        BY <1>1, <2>2, <3>2 DEF Typed, PeopleOK, Redeemed
      <4> QED
        BY <1>3, <4>1 DEF NoOne
    <3> QED
      BY <3>1, <3>2
  <2> QED
    BY <1>1, <2>1, <2>2 DEF Redeemed
<1>7. Members'
  <2>1. ASSUME NEW v \in Users, LetIn(v) PROVE LetIn(v)'
    BY <1>1, <1>3, <2>1 DEF LetIn, NoOne
  <2> QED
    BY <1>1, <1>2, <2>1 DEF Members, IsMember
<1> QED
  BY <1>4, <1>5, <1>6, <1>7

(* Those who leave take their entry in the roster with them.               *)
LEMMA LeaveInv ==
  ASSUME IInv, NEW u \in Users, TeamRemove(u) \/ AccountDelete(u)
  PROVE  IInv'
<1> USE TeamAssumption DEF IInv
<1>1. /\ role' = [role EXCEPT ![u] = "none"] /\ added' = added \ {u}
      /\ account' = account \/ (account' = account \ {u}
                                /\ \A i \in Invites : invites[i].redeemed # u)
      /\ UNCHANGED <<invites, gate, claim, push, billing, faults>>
  BY DEF TeamRemove, AccountDelete, Cascades, history
<1>2. UNCHANGED <<paid, everPaid>>
  BY <1>1 DEF billing
<1>3. Typed'
  <2>1. /\ configs' \subseteq configs /\ pushed' \in [Users -> 0..MaxVersions]
        /\ erased' \in BOOLEAN
    <3>1. CASE TeamRemove(u)
      BY <3>1 DEF TeamRemove, history, Typed, HistoryOK
    <3>2. CASE AccountDelete(u)
      BY <3>2 DEF AccountDelete, Cascades, Typed, HistoryOK
    <3> QED
      BY <3>1, <3>2
  <2>2. HistoryOK'
    BY <1>1, <2>1 DEF Typed, HistoryOK
  <2>3. PeopleOK'
    BY <1>1 DEF Typed, PeopleOK, Roles
  <2> QED
    BY <1>1, <2>2, <2>3, Unmoved DEF Typed
<1>4. PaidFor'
  BY <1>1, <1>2 DEF PaidFor
<1>5. Redeemed'
  BY <1>1 DEF Redeemed
<1>6. Members'
  BY <1>1, <1>2 DEF Members, IsMember, LetIn, Typed, PeopleOK
<1> QED
  BY <1>3, <1>4, <1>5, <1>6

-----------------------------------------------------------------------------
LEMMA NextIInv == IInv /\ [Next]_vars => IInv'
<1> SUFFICES ASSUME IInv, [Next]_vars PROVE IInv'
  OBVIOUS
<1> USE TeamAssumption
<1>0. Typed /\ PaidFor /\ Redeemed /\ Members
  BY DEF IInv
<1>1. ASSUME NEW u \in Users \cup {Stranger}, TeamInvite(u) \/ InviteForbidden PROVE IInv'
  <2>1. /\ UNCHANGED <<account, role, invites, claim, added, history, billing, faults>>
        /\ gate' = NoOne \/ (gate' = u /\ paid)
    BY <1>1 DEF TeamInvite, InviteForbidden, Entitled
  <2>2. Typed'
    BY <1>0, <2>1, Unmoved DEF Typed, PeopleOK
  <2>3. PaidFor'
    BY <1>0, <2>1 DEF PaidFor, billing
  <2>4. UNCHANGED everPaid
    BY <2>1 DEF billing
  <2> QED
    BY <1>0, <2>1, <2>2, <2>3, <2>4 DEF IInv, Redeemed, Members, LetIn, IsMember
<1>3. ASSUME NEW u \in Users, CutRedeem(u) PROVE IInv'
  <2>1. /\ claim' = [claim EXCEPT ![u] = Nothing] /\ faults' \in 0..MaxFaults
        /\ UNCHANGED <<account, role, invites, gate, added, history, billing>>
    BY <1>0, <1>3, FaultTyped DEF CutRedeem, Typed
  <2>2. Typed'
    BY <1>0, <2>1, Unmoved DEF Typed, PeopleOK
  <2>3. UNCHANGED <<paid, everPaid>>
    BY <2>1 DEF billing
  <2>4. Redeemed'
    BY <1>0, <2>1 DEF Redeemed, Typed, PeopleOK
  <2> QED
    BY <1>0, <2>1, <2>2, <2>3, <2>4 DEF IInv, PaidFor, Members, LetIn, IsMember
<1>4. ASSUME NEW e \in {"paid", "unpaid", "other"}, Stripe(e) PROVE IInv'
  <2>1. events' \in Seq({"paid", "unpaid", "other"}) /\ Len(events') <= MaxEvents
    BY <1>0, <1>4 DEF Stripe, Typed, BillingOK
  <2>2. Typed'
    BY <1>0, <1>4, <2>1, Unmoved DEF Stripe, Typed, BillingOK
  <2> QED
    BY <1>0, <1>4, <2>2, Elsewhere DEF Stripe, PaidFor
<1>5. ASSUME NEW u \in Users, Pushes(u) PROVE IInv'
  BY <1>0, <1>5, PushTyped, Elsewhere DEF PaidFor, billing
<1>6. ASSUME NEW h \in Hooks,
             UpsertEntitlement(h) \/ CutHook(h) \/ \E n \in DOMAIN events : Deliver(h, n)
      PROVE  IInv'
  BY <1>0, <1>6, HookTyped, Elsewhere
<1>7. CASE UNCHANGED vars
  <2>1. UNCHANGED <<people, history, billing, faults, paid, everPaid>>
    BY <1>7 DEF vars, billing
  <2>2. Typed'
    BY <1>0, <2>1, Unmoved DEF Typed
  <2> QED
    BY <1>0, <2>1, <2>2, Elsewhere DEF PaidFor
<1> QED
  BY <1>1, <1>3, <1>4, <1>5, <1>6, <1>7, AddMemberInv, JoinTeamInv, InviteInv,
     RedeemInviteInv, LeaveInv DEF Next, Pushes

(* A set of numbers below a bound has a greatest one, and Max is it.       *)
LEMMA Greatest ==
  ASSUME NEW N \in Nat, NEW S, S \subseteq 0..N, S # {}
  PROVE  Max(S) \in S /\ \A y \in S : y <= Max(S)
<1> DEFINE D == {N - x : x \in S}
<1>1. D \subseteq Nat /\ D # {}
  OBVIOUS
<1>2. PICK d \in D : \A e \in D : ~ (<<e, d>> \in OpToRel(<, Nat))
  <2> HIDE DEF D
  <2> QED
    BY <1>1, WFMin, NatLessThanWellFounded
<1>3. \A e \in D : ~ (e < d)
  BY <1>1, <1>2 DEF OpToRel
<1>4. PICK m \in S : d = N - m
  OBVIOUS
<1>5. \A y \in S : N - y \in D
  OBVIOUS
<1>6. \A y \in S : y \in 0..N /\ m \in 0..N
  OBVIOUS
<1>7. \A y \in S : m >= y
  BY <1>3, <1>4, <1>5, <1>6
<1>8. Max(S) \in S /\ \A y \in S : Max(S) >= y
  BY <1>7 DEF Max
<1> QED
  BY <1>6, <1>8

-----------------------------------------------------------------------------
(* The lines of versions.                                                  *)

LEMMA ConfigTypes ==
  ASSUME Typed
  PROVE  /\ \A c \in configs : /\ c.line \in Lines /\ c.version \in 0..MaxVersions
                                /\ c.author \in Users /\ c.version \in Nat
         /\ \A u \in Users : /\ push[u].step \in {"none", "insert", "held"}
                             /\ push[u].line \in Lines /\ push[u].version \in Nat
                             /\ pushed[u] \in Nat
         /\ MaxVersions \in Nat
BY TeamAssumption DEF Typed, HistoryOK, PushRow

LEMMA RowsFinite ==
  ASSUME Numbered, NEW l
  PROVE  IsFiniteSet(Rows(l)) /\ Cardinality(Rows(l)) \in Nat
<1>1. Rows(l) \subseteq configs
  BY DEF Rows
<1> QED
  BY <1>1, FS_Subset, FS_CardinalityType DEF Numbered

LEMMA LineUnmoved ==
  ASSUME Line, UNCHANGED <<configs, pushed, push, erased, account>>
  PROVE  Line'
<1>1. /\ \A l : Rows(l)' = Rows(l) /\ Versions(l)' = Versions(l)
      /\ \A l : Gapless(l)' <=> Gapless(l)
  BY DEF Rows, Versions, Gapless
<1>2. Numbered'
  BY <1>1 DEF Line, Numbered
<1>3. \A u \in Users : Ahead(u)' /\ Apart(u)' /\ Recalled(u)'
  BY <1>1 DEF Line, Ahead, Apart, Recalled
<1> QED
  BY <1>2, <1>3 DEF Line

(* The next number of a line without gaps is the one after all its rows.   *)
LEMMA NextIsFree ==
  ASSUME Typed, Numbered, NEW l \in Lines
  PROVE  /\ NextVersion(l) \in Nat /\ NextVersion(l) >= 1
         /\ Gapless(l) => NextVersion(l) <= Cardinality(Rows(l)) + 1
<1> DEFINE S == {0} \cup Versions(l)
<1>1. S \subseteq 0..MaxVersions /\ S # {} /\ MaxVersions \in Nat
  BY ConfigTypes DEF Versions, Rows
<1>2. \A y \in S : y \in Nat
  BY <1>1
<1>3. Cardinality(Rows(l)) \in Nat
  BY RowsFinite
<1>4. Gapless(l) => \A y \in S : y <= Cardinality(Rows(l))
  BY <1>3 DEF Numbered
<1>5. NextVersion(l) = Max(S) + 1
  BY DEF NextVersion, Latest
<1> HIDE DEF S
<1>6. Max(S) \in S
  BY <1>1, Greatest
<1>7. Max(S) \in Nat /\ (Gapless(l) => Max(S) <= Cardinality(Rows(l)))
  BY <1>2, <1>4, <1>6
<1> QED
  BY <1>3, <1>5, <1>7

(* A step that changes one push and no table.                              *)
LEMMA PushMoves ==
  ASSUME Typed, Line, NEW u \in Users, NEW p,
         p.step # "none" =>
           /\ p.line \in {u, Team} /\ p.version >= 1
           /\ Gapless(p.line) /\ u \in account => p.version <= Cardinality(Rows(p.line)) + 1,
         p.step = "held" =>
           /\ u \in account /\ p.version \notin Versions(p.line)
           /\ \A w \in Users \ {u} : push[w].step = "held" /\ push[w].line = p.line =>
                push[w].version # p.version,
         push' = [push EXCEPT ![u] = p], UNCHANGED <<configs, pushed, erased, account>>
  PROVE  Line'
<1>1. Numbered' /\ Owner \in account' /\ \A w \in Users : Recalled(w)'
  BY DEF Line, Numbered, Gapless, Recalled, Rows, Versions
<1>2. push'[u] = p /\ \A w \in Users \ {u} : push'[w] = push[w]
  BY DEF Typed, HistoryOK
<1>3. /\ \A l : Rows(l)' = Rows(l) /\ Versions(l)' = Versions(l)
      /\ \A l : Gapless(l)' <=> Gapless(l)
      /\ account' = account
  BY DEF Rows, Versions, Gapless
<1>4. ASSUME NEW w \in Users PROVE Ahead(w)' /\ Apart(w)'
  <2>1. Ahead(w) /\ Apart(w)
    BY DEF Line
  <2>2. CASE w = u
    BY <1>2, <1>3, <2>2 DEF Ahead, Apart
  <2>3. CASE w # u
    <3>1. push'[w] = push[w]
      BY <1>2, <2>3
    <3>2. Ahead(w)'
      BY <1>3, <2>1, <3>1 DEF Ahead
    <3>3. Apart(w)'
      BY <1>2, <1>3, <2>1, <2>3, <3>1 DEF Apart
    <3> QED
      BY <3>2, <3>3
  <2> QED
    BY <2>2, <2>3
<1> QED
  BY <1>1, <1>4 DEF Line

LEMMA PushLine ==
  ASSUME Typed, Line, NEW u \in Users,
         Insert(u) \/ CutPush(u) \/ \E line \in {u, Team}, named \in BOOLEAN : Push(u, line, named)
  PROVE  Line'
<1>0. Numbered /\ Ahead(u) /\ UNCHANGED <<configs, pushed, erased, account>>
  BY DEF Line, Push, Insert, CutPush, people
<1>1. NoPush.step = "none"
  BY DEF NoPush
<1>2. CASE push' = [push EXCEPT ![u] = NoPush]
  BY <1>0, <1>1, <1>2, PushMoves
<1>3. ASSUME NEW line \in {u, Team}, NEW named \in BOOLEAN, Push(u, line, named)
      PROVE  Line'
  <2> DEFINE p == [step |-> "insert", line |-> line, version |-> NextVersion(line), named |-> named]
  <2>1. push' = [push EXCEPT ![u] = p]
    BY <1>3 DEF Push
  <2>2. p.step = "insert" /\ p.line = line /\ p.version = NextVersion(line)
    OBVIOUS
  <2>3. line \in Lines
    BY DEF Lines
  <2>4. NextVersion(line) >= 1 /\ (Gapless(line) => NextVersion(line) <= Cardinality(Rows(line)) + 1)
    BY <1>0, <2>3, NextIsFree
  <2> HIDE DEF p
  <2> QED
    BY <1>0, <2>1, <2>2, <2>4, PushMoves
<1>4. CASE Insert(u) /\ push' # [push EXCEPT ![u] = NoPush]
  <2> DEFINE p == [push[u] EXCEPT !.step = "held"]
  <2>1. /\ push' = [push EXCEPT ![u] = p] /\ push[u].step = "insert" /\ u \in account
        /\ push[u].version \notin Versions(push[u].line) /\ ~Holds(push[u].line, push[u].version)
    BY <1>4 DEF Insert, VersionTaken
  <2>2. p.step = "held" /\ p.line = push[u].line /\ p.version = push[u].version
    BY DEF Typed, HistoryOK, PushRow
  <2>3. \A w \in Users \ {u} : push[w].step = "held" /\ push[w].line = push[u].line =>
          push[w].version # push[u].version
    BY <2>1 DEF Holds
  <2> HIDE DEF p
  <2> QED
    BY <1>0, <2>1, <2>2, <2>3, PushMoves DEF Ahead
<1> QED
  BY <1>2, <1>3, <1>4 DEF CutPush

(* The row that is committed is the next one of its line.                  *)
LEMMA CommitLine ==
  ASSUME Typed, Line, NEW u \in Users, CommitPush(u)
  PROVE  Line'
<1> SUFFICES ASSUME NEW v, NEW k, NEW named, v = push[u].version, k = push[u].line,
                    named = push[u].named
             PROVE  Line'
  OBVIOUS
<1> DEFINE e == [line |-> k, version |-> v, author |-> u, named |-> named]
<1>1. /\ push[u].step = "held" /\ configs' = configs \cup {e}
      /\ pushed' = [pushed EXCEPT ![u] = IF named THEN v ELSE @]
      /\ push' = [push EXCEPT ![u] = NoPush] /\ UNCHANGED <<erased, account>>
  BY DEF CommitPush, Remembered, people
<1>2. e.line = k /\ e.version = v /\ e.author = u /\ e.named = named
  OBVIOUS
<1>3. /\ v \in Nat /\ v >= 1 /\ v \notin Versions(k) /\ k \in {u, Team} /\ u \in account
      /\ k \in Lines
      /\ Gapless(k) => v <= Cardinality(Rows(k)) + 1
      /\ \A w \in Users \ {u} : push[w].step = "held" /\ push[w].line = k => push[w].version # v
  BY <1>1, ConfigTypes DEF Line, Ahead, Apart
<1>4. /\ pushed'[u] = (IF e.named THEN v ELSE pushed[u]) /\ push'[u].step = "none"
      /\ \A w \in Users \ {u} : pushed'[w] = pushed[w] /\ push'[w] = push[w]
  BY <1>1 DEF Typed, HistoryOK, NoPush
<1> HIDE DEF e
<1>5. /\ Rows(k)' = Rows(k) \cup {e} /\ Versions(k)' = Versions(k) \cup {v}
      /\ \A l : l # k => Rows(l)' = Rows(l) /\ Versions(l)' = Versions(l)
  <2>1. Rows(k)' = Rows(k) \cup {e} /\ \A l : l # k => Rows(l)' = Rows(l)
    BY <1>1, <1>2 DEF Rows
  <2> QED
    BY <1>2, <2>1 DEF Versions
<1>6. \A c \in configs : c.line = k => c.version # v
  BY <1>3 DEF Versions, Rows
<1>7. /\ Numbered /\ \A l : Gapless(l)' <=> Gapless(l)
      /\ \A l : Cardinality(Rows(l)) \in Nat /\ IsFiniteSet(Rows(l))
  BY <1>1, RowsFinite DEF Line, Gapless
<1>8. Cardinality(Rows(k))' = Cardinality(Rows(k)) + 1
  <2>1. e \notin Rows(k)
    BY <1>2, <1>6 DEF Rows
  <2> QED
    BY <1>5, <1>7, <2>1, FS_AddElement
<1>9. Numbered'
  <2>1. IsFiniteSet(configs')
    BY <1>1, <1>7, FS_AddElement DEF Numbered
  <2>2. \A c, d \in configs' : c.line = d.line /\ c.version = d.version => c = d
    BY <1>1, <1>2, <1>6, <1>7 DEF Numbered
  <2>3. ASSUME NEW l \in Lines, Gapless(l)
        PROVE  Versions(l)' = 1..Cardinality(Rows(l))'
    <3>1. Versions(l) = 1..Cardinality(Rows(l))
      BY <1>7, <2>3 DEF Numbered
    <3>2. CASE l = k
      <4>1. v = Cardinality(Rows(k)) + 1
        BY <1>3, <1>7, <2>3, <3>1, <3>2
      <4>2. Versions(k)' = (1..Cardinality(Rows(k))) \cup {Cardinality(Rows(k)) + 1}
        BY <1>5, <3>1, <3>2, <4>1
      <4> QED
        BY <1>7, <1>8, <3>2, <4>2
    <3>3. CASE l # k
      BY <1>5, <3>1, <3>3
    <3> QED
      BY <3>2, <3>3
  <2>4. \A c \in configs' : c.line \in {c.author, Team} /\ c.author \in account'
    BY <1>1, <1>2, <1>3, <1>7 DEF Numbered
  <2> QED
    BY <1>7, <2>1, <2>2, <2>3, <2>4 DEF Numbered
<1>10. ASSUME NEW w \in Users PROVE Ahead(w)' /\ Apart(w)' /\ Recalled(w)'
  <2>1. Ahead(w) /\ Apart(w) /\ Recalled(w)
    BY DEF Line
  <2>2. Recalled(w)'
    <3>1. CASE w = u /\ e.named
      BY <1>1, <1>2, <1>4, <3>1 DEF Recalled
    <3>2. CASE w # u \/ ~e.named
      BY <1>1, <1>4, <2>1, <3>2 DEF Recalled
    <3> QED
      BY <3>1, <3>2
  <2>3. CASE w = u
    BY <1>4, <2>2, <2>3 DEF Ahead, Apart
  <2>4. CASE w # u
    <3>1. push'[w] = push[w] /\ push[w].version \in Nat /\ account' = account
      BY <1>1, <1>4, <2>4, ConfigTypes
    <3>2. \A l : Cardinality(Rows(l)) <= Cardinality(Rows(l))'
      <4> TAKE l
      <4>1. CASE l = k
        BY <1>7, <1>8, <4>1
      <4>2. CASE l # k
        BY <1>5, <1>7, <4>2
      <4> QED
        BY <4>1, <4>2
    <3>3. \A l : Cardinality(Rows(l))' \in Nat
      <4> TAKE l
      <4>1. CASE l = k
        BY <1>7, <1>8, <4>1
      <4>2. CASE l # k
        BY <1>5, <1>7, <4>2
      <4> QED
        BY <4>1, <4>2
    <3>4. Ahead(w)'
      <4> SUFFICES ASSUME NEW l, l = push[w].line, push[w].step # "none"
                   PROVE  /\ l \in {w, Team} /\ push[w].version >= 1
                          /\ Gapless(l) /\ w \in account =>
                               push[w].version <= Cardinality(Rows(l))' + 1
        BY <1>7, <3>1 DEF Ahead
      <4>1. l \in {w, Team} /\ push[w].version >= 1
        BY <2>1 DEF Ahead
      <4>2. ASSUME Gapless(l), w \in account
            PROVE  push[w].version <= Cardinality(Rows(l))' + 1
        <5>1. push[w].version <= Cardinality(Rows(l)) + 1
          BY <2>1, <4>2 DEF Ahead
        <5>2. Cardinality(Rows(l)) \in Nat /\ Cardinality(Rows(l))' \in Nat
          BY <1>7, <3>3
        <5>3. Cardinality(Rows(l)) <= Cardinality(Rows(l))'
          BY <3>2
        <5> QED
          BY <3>1, <5>1, <5>2, <5>3
      <4> QED
        BY <4>1, <4>2
    <3>5. ASSUME NEW l, l = push[w].line, push[w].step = "held"
          PROVE  push[w].version \notin Versions(l)'
      <4>1. push[w].version \notin Versions(l) /\ (l = k => push[w].version # v)
        BY <1>3, <2>1, <2>4, <3>5 DEF Apart
      <4> QED
        BY <1>5, <4>1
    <3>6. ASSUME push[w].step = "held", NEW x \in Users \ {w}, push'[x].step = "held",
                 push'[x].line = push[w].line
          PROVE  push'[x].version # push[w].version
      BY <1>4, <2>1, <3>6 DEF Apart
    <3>7. Apart(w)'
      BY <2>1, <3>1, <3>5, <3>6 DEF Apart
    <3> QED
      BY <2>2, <3>4, <3>7
  <2> QED
    BY <2>3, <2>4
<1> QED
  BY <1>1, <1>9, <1>10 DEF Line

(* An account takes its rows, all of its private line, along.              *)
LEMMA DeleteLine ==
  ASSUME Typed, Line, NEW u \in Users, AccountDelete(u)
  PROVE  Line'
<1>1. /\ u # Owner /\ push[u].step # "held" /\ account' = account \ {u}
      /\ configs' = {c \in configs : c.author # u} /\ pushed' = [pushed EXCEPT ![u] = 0]
      /\ erased' /\ push' = push
  BY DEF AccountDelete, Cascades
<1>2. Numbered /\ Team \notin Users
  BY TeamAssumption DEF Line, Team
<1>3. /\ Rows(u)' = {} /\ Versions(u)' = {}
      /\ \A l \in Users \ {u} : Rows(l)' = Rows(l) /\ Versions(l)' = Versions(l)
  <2>1. Rows(u)' = {} /\ \A l \in Users \ {u} : Rows(l)' = Rows(l)
    BY <1>1, <1>2 DEF Rows, Numbered
  <2> QED
    BY <2>1 DEF Versions
<1>4. \A l : Versions(l)' \subseteq Versions(l)
  BY <1>1 DEF Versions, Rows
<1>5. \A l \in Lines : Gapless(l)' => l \in Users /\ Gapless(l)
  BY <1>1 DEF Gapless, Lines
<1>6. Numbered'
  <2>1. IsFiniteSet(configs')
    BY <1>1, <1>2, FS_Subset DEF Numbered
  <2>2. ASSUME NEW l \in Lines, Gapless(l)' PROVE Versions(l)' = 1..Cardinality(Rows(l))'
    <3>1. CASE l = u
      <4>1. Cardinality(Rows(u))' = 0
        BY <1>3, FS_EmptySet
      <4> QED
        BY <1>3, <3>1, <4>1
    <3>2. CASE l # u
      BY <1>2, <1>3, <1>5, <2>2, <3>2 DEF Numbered
    <3> QED
      BY <3>1, <3>2
  <2>3. \A c, d \in configs' : c.line = d.line /\ c.version = d.version => c = d
    BY <1>1, <1>2 DEF Numbered
  <2>4. \A c \in configs' : c.line \in {c.author, Team} /\ c.author \in account'
    BY <1>1, <1>2 DEF Numbered
  <2> QED
    BY <2>1, <2>2, <2>3, <2>4 DEF Numbered
<1>7. pushed'[u] = 0 /\ \A w \in Users \ {u} : pushed'[w] = pushed[w]
  BY <1>1 DEF Typed, HistoryOK
<1>8. ASSUME NEW w \in Users PROVE Ahead(w)' /\ Apart(w)' /\ Recalled(w)'
  <2>1. Ahead(w) /\ Apart(w) /\ Recalled(w)
    BY DEF Line
  <2>2. Recalled(w)'
    BY <1>1, <1>7, <2>1 DEF Recalled
  <2>3. Apart(w)'
    BY <1>1, <1>4, <2>1 DEF Apart
  <2>4. Ahead(w)'
    <3> SUFFICES ASSUME NEW l, l = push[w].line, push[w].step # "none"
                 PROVE  /\ l \in {w, Team} /\ push[w].version >= 1
                        /\ Gapless(l)' /\ w \in account' =>
                             push[w].version <= Cardinality(Rows(l))' + 1
      BY <1>1 DEF Ahead
    <3>1. l \in {w, Team} /\ push[w].version >= 1
      BY <2>1 DEF Ahead
    <3>2. ASSUME Gapless(l)', w \in account'
          PROVE  push[w].version <= Cardinality(Rows(l))' + 1
      <4>1. l = w /\ w # u /\ w \in account
        BY <1>1, <3>1, <3>2 DEF Gapless
      <4>2. Rows(w)' = Rows(w)
        BY <1>3, <4>1
      <4>3. Gapless(w)
        BY <1>2 DEF Gapless
      <4> QED
        BY <2>1, <4>1, <4>2, <4>3 DEF Ahead
    <3> QED
      BY <3>1, <3>2
  <2> QED
    BY <2>2, <2>3, <2>4
<1> QED
  BY <1>1, <1>6, <1>8 DEF Line

LEMMA NextLine == Typed /\ Line /\ [Next]_vars => Line'
<1> SUFFICES ASSUME Typed, Line, [Next]_vars PROVE Line'
  OBVIOUS
<1>1. CASE UNCHANGED <<configs, pushed, push, erased, account>>
  BY <1>1, LineUnmoved
<1>2. CASE UNCHANGED vars
  BY <1>1, <1>2 DEF vars, people, history
<1>3. ASSUME NEW u \in Users, NEW r \in Granted, AddMember(u, r) \/ JoinTeam(u, r) PROVE Line'
  BY <1>1, <1>3 DEF AddMember, JoinTeam, history
<1>4. ASSUME NEW i \in Invites, MintInvite(i) \/ RevokeInvite(i) \/ InviteExpires(i) PROVE Line'
  BY <1>1, <1>4 DEF MintInvite, RevokeInvite, InviteExpires, history
<1>5. ASSUME NEW u \in Users, NEW i \in Invites, RedeemInvite(u, i) PROVE Line'
  BY <1>1, <1>5 DEF RedeemInvite, history
<1>6. ASSUME NEW u \in Users, TeamRemove(u) \/ CutRedeem(u) PROVE Line'
  BY <1>1, <1>6 DEF TeamRemove, CutRedeem, history
<1>7. ASSUME NEW e, Stripe(e) PROVE Line'
  BY <1>1, <1>7 DEF Stripe, history, people
<1>8. ASSUME NEW h \in Hooks, UpsertEntitlement(h) \/ CutHook(h) \/ \E n \in DOMAIN events : Deliver(h, n)
      PROVE  Line'
  BY <1>1, <1>8 DEF UpsertEntitlement, CutHook, Deliver, history, people
<1>9. ASSUME NEW u, TeamInvite(u) \/ InviteForbidden PROVE Line'
  BY <1>1, <1>9 DEF TeamInvite, InviteForbidden, history
<1> QED
  BY <1>2, <1>3, <1>4, <1>5, <1>6, <1>7, <1>8, <1>9, PushLine, CommitLine, DeleteLine DEF Next

LEMMA InitLine == Init => Line
<1> SUFFICES ASSUME Init PROVE Line
  OBVIOUS
<1>1. /\ configs = {} /\ pushed = [u \in Users |-> 0] /\ push = [u \in Users |-> NoPush]
      /\ account = Users
  BY DEF Init
<1>2. IsFiniteSet(configs) /\ \A l : Rows(l) = {} /\ Versions(l) = {}
  BY <1>1, FS_EmptySet DEF Rows, Versions
<1>3. \A u \in Users : push[u].step = "none" /\ pushed[u] = 0
  BY <1>1 DEF NoPush
<1>4. \A l : Cardinality(Rows(l)) = 0
  BY <1>2, FS_EmptySet
<1>5. Numbered
  <2>1. 1..0 = {}
    OBVIOUS
  <2>2. \A l \in Lines : Versions(l) = 1..Cardinality(Rows(l))
    BY <1>2, <1>4, <2>1
  <2> QED
    BY <1>1, <1>2, <2>2 DEF Numbered
<1>6. \A u \in Users : Ahead(u) /\ Apart(u) /\ Recalled(u)
  BY <1>3 DEF Ahead, Apart, Recalled
<1> QED
  BY <1>1, <1>5, <1>6, TeamAssumption DEF Line

-----------------------------------------------------------------------------
(* The tier.                                                               *)
Tier == Delivered /\ Applied

LEMMA TierUnmoved == Tier /\ UNCHANGED billing => Tier'
BY DEF Tier, Delivered, Applied, About, Newest, billing

LEMMA InitTier == Init => Tier
<1> SUFFICES ASSUME Init PROVE Tier
  OBVIOUS
<1>1. ledger = {} /\ written = {} /\ \A h \in Hooks : hook[h] = 0
  BY DEF Init
<1>2. ~paid
  BY DEF Init
<1> QED
  BY <1>1, <1>2 DEF Tier, Delivered, Applied

(* What Stripe sends later leaves what it sent as it was.                  *)
LEMMA StripeTier ==
  ASSUME Typed, Tier, NEW e \in {"paid", "unpaid", "other"}, Stripe(e)
  PROVE  Tier'
<1>1. /\ events' = Append(events, e)
      /\ UNCHANGED <<ledger, hook, written>>
  BY DEF Stripe
<1>2. UNCHANGED excused /\ UNCHANGED paid
  BY DEF Stripe
<1>3. DOMAIN events \subseteq DOMAIN events' /\ \A n \in DOMAIN events : events'[n] = events[n]
  BY <1>1 DEF Typed, BillingOK
<1>4. \A n \in ledger : About(n)' <=> About(n)
  BY <1>3 DEF About, Tier, Delivered
<1>5. Delivered'
  BY <1>1, <1>2, <1>3, <1>4 DEF Tier, Delivered
<1>6. \A n \in written : events'[n] = events[n]
  BY <1>3 DEF Tier, Delivered, About
<1>7. Applied'
  BY <1>1, <1>2, <1>6 DEF Tier, Applied, Newest
<1> QED
  BY <1>5, <1>7 DEF Tier

LEMMA DeliverTier ==
  ASSUME Typed, Tier, NEW h \in Hooks, NEW n \in DOMAIN events, Deliver(h, n)
  PROVE  Tier'
<1> DEFINE m == IF events[n] = "other" THEN 0 ELSE n
<1>1. /\ hook[h] = 0 /\ n \notin ledger /\ ledger' = ledger \cup {n}
      /\ hook' = [hook EXCEPT ![h] = m] /\ UNCHANGED <<events, written>>
  BY DEF Deliver, Recorded
<1>2. UNCHANGED excused /\ UNCHANGED paid
  BY DEF Deliver
<1>3. m # 0 => m = n /\ About(n)
  BY DEF About
<1>4. About(n) => m = n
  BY DEF About
<1>5. n # 0
  BY DEF Typed, BillingOK
<1> HIDE DEF m
<1>6. hook'[h] = m /\ \A g \in Hooks \ {h} : hook'[g] = hook[g]
  BY <1>1 DEF Typed, BillingOK
<1>7. \A k : About(k)' <=> About(k)
  BY <1>1 DEF About
<1>8. n \notin written /\ \A g \in Hooks : hook[g] # n
  BY <1>1, <1>5 DEF Tier, Delivered
<1>9. ledger' \subseteq DOMAIN events' /\ \A k \in written' : k \in ledger' /\ About(k)'
  BY <1>1, <1>7 DEF Tier, Delivered
<1>10. ASSUME NEW g \in Hooks, hook'[g] # 0
       PROVE  /\ hook'[g] \in ledger' \ written' /\ About(hook[g])'
              /\ \A f \in Hooks \ {g} : hook'[f] # hook'[g]
  <2>1. CASE g = h
    BY <1>1, <1>3, <1>6, <1>7, <1>8, <1>10, <2>1
  <2>2. CASE g # h
    <3>1. hook'[g] = hook[g] /\ hook[g] \in ledger \ written /\ About(hook[g])
          /\ \A f \in Hooks \ {g} : hook[f] # hook[g]
      BY <1>6, <1>10, <2>2 DEF Tier, Delivered
    <3>2. \A f \in Hooks \ {g} : hook'[f] # hook'[g]
      BY <1>3, <1>6, <1>8, <1>10, <2>2, <3>1
    <3> QED
      BY <1>1, <1>7, <3>1, <3>2
  <2> QED
    BY <2>1, <2>2
<1>11. ASSUME ~excused', NEW k \in ledger', About(k)'
       PROVE  k \in written' \/ \E g \in Hooks : hook'[g] = k
  <2>1. CASE k = n
    BY <1>4, <1>6, <1>7, <1>11, <2>1
  <2>2. CASE k # n
    <3>1. k \in written \/ \E g \in Hooks : hook[g] = k
      BY <1>1, <1>2, <1>7, <1>11, <2>2 DEF Tier, Delivered
    <3>2. k # 0
      BY <1>7, <1>11 DEF About, Typed, BillingOK
    <3> QED
      BY <1>1, <1>6, <3>1, <3>2
  <2> QED
    BY <2>1, <2>2
<1>12. Delivered'
  BY <1>9, <1>10, <1>11 DEF Delivered
<1>13. Applied'
  BY <1>1, <1>2 DEF Tier, Applied, Newest
<1> QED
  BY <1>12, <1>13 DEF Tier

(* An event reaches the entitlement once, and overtakes none but by an     *)
(* excuse.                                                                 *)
LEMMA UpsertTier ==
  ASSUME Typed, Tier, NEW h \in Hooks, UpsertEntitlement(h)
  PROVE  Tier'
<1> DEFINE n == hook[h]
<1>1. /\ n # 0 /\ hook' = [hook EXCEPT ![h] = 0] /\ written' = written \cup {n}
      /\ UNCHANGED <<events, ledger>>
  BY DEF UpsertEntitlement
<1>2. paid' <=> events[n] = "paid"
  BY Zenon DEF UpsertEntitlement
<1>3. excused' <=> excused \/ (n \notin written /\ \E later \in written : n < later)
  BY Zenon DEF UpsertEntitlement
<1>4. /\ n \in ledger /\ n \notin written /\ About(n)
      /\ \A g \in Hooks \ {h} : hook[g] # n
  BY <1>1 DEF Tier, Delivered
<1>5. hook'[h] = 0 /\ \A g \in Hooks \ {h} : hook'[g] = hook[g]
  BY <1>1 DEF Typed, BillingOK
<1>6. n \in Nat /\ \A k \in written : k \in Nat
  BY DEF Typed, BillingOK
<1> HIDE DEF n
<1>7. \A k : About(k)' <=> About(k)
  BY <1>1 DEF About
<1>8. ASSUME NEW g \in Hooks, hook'[g] # 0
      PROVE  /\ hook'[g] \in ledger' \ written' /\ About(hook[g])'
             /\ \A f \in Hooks \ {g} : hook'[f] # hook'[g]
  <2>1. g # h /\ hook'[g] = hook[g] /\ hook[g] # n
    BY <1>4, <1>5, <1>8
  <2>2. /\ hook[g] \in ledger \ written /\ About(hook[g])
        /\ \A f \in Hooks \ {g} : hook[f] # hook[g]
    BY <1>8, <2>1 DEF Tier, Delivered
  <2> QED
    BY <1>1, <1>5, <1>7, <1>8, <2>1, <2>2
<1>9. ledger' \subseteq DOMAIN events' /\ \A k \in written' : k \in ledger' /\ About(k)'
  BY <1>1, <1>4, <1>7 DEF Tier, Delivered
<1>10. ASSUME ~excused', NEW k \in ledger', About(k)'
       PROVE  k \in written' \/ \E g \in Hooks : hook'[g] = k
  <2>1. k \in written \/ \E g \in Hooks : hook[g] = k
    BY <1>1, <1>3, <1>7, <1>10 DEF Tier, Delivered
  <2>2. CASE k = n
    BY <1>1, <2>2
  <2>3. CASE k # n
    <3>1. ASSUME NEW g \in Hooks, hook[g] = k PROVE hook'[g] = k
      <4>1. g # h
        BY <2>3, <3>1 DEF n
      <4> QED
        BY <1>5, <3>1, <4>1
    <3> QED
      BY <1>1, <2>1, <3>1
  <2> QED
    BY <2>2, <2>3
<1>11. Delivered'
  BY <1>8, <1>9, <1>10 DEF Delivered
<1>12. Applied'
  <2> SUFFICES ASSUME ~excused' PROVE /\ written' # {}
                                     /\ \A k \in written' : Newest(k)' => (paid' <=> events'[k] = "paid")
    BY DEF Applied
  <2>1. \A k \in written : ~ (n < k)
    BY <1>3, <1>4
  <2>2. ASSUME NEW k \in written', Newest(k)' PROVE k = n
    <3>1. n <= k /\ (k \in written \/ k = n)
      BY <1>1, <2>2 DEF Newest
    <3>2. CASE k \in written
      <4>1. ~ (n < k) /\ k \in Nat /\ n \in Nat
        BY <1>6, <2>1, <3>2
      <4> QED
        BY <3>1, <4>1
    <3> QED
      BY <3>1, <3>2
  <2>3. written' # {}
    BY <1>1
  <2>4. ASSUME NEW k \in written', Newest(k)' PROVE paid' <=> events'[k] = "paid"
    <3>1. k = n /\ events' = events
      BY <1>1, <2>2, <2>4
    <3> QED
      BY <1>2, <3>1, Zenon
  <2> QED
    BY <2>3, <2>4, Zenon
<1> QED
  BY <1>11, <1>12 DEF Tier

LEMMA CutHookTier ==
  ASSUME Typed, Tier, NEW h \in Hooks, CutHook(h)
  PROVE  Tier'
<1>1. hook' = [hook EXCEPT ![h] = 0] /\ UNCHANGED <<events, ledger, written>>
  BY DEF CutHook
<1>2. excused'
  BY DEF CutHook
<1>3. hook'[h] = 0 /\ \A g \in Hooks \ {h} : hook'[g] = hook[g]
  BY <1>1 DEF Typed, BillingOK
<1>4. \A k : About(k)' <=> About(k)
  BY <1>1 DEF About
<1>5. Delivered'
  BY <1>1, <1>2, <1>3, <1>4 DEF Tier, Delivered
<1> QED
  BY <1>2, <1>5 DEF Tier, Applied

LEMMA NextTier == Typed /\ Tier /\ [Next]_vars => Tier'
<1> SUFFICES ASSUME Typed, Tier, [Next]_vars PROVE Tier'
  OBVIOUS
<1>1. CASE UNCHANGED billing
  BY <1>1, TierUnmoved
<1>2. CASE UNCHANGED vars
  BY <1>1, <1>2 DEF vars
<1>3. ASSUME NEW u \in Users, NEW r \in Granted, AddMember(u, r) \/ JoinTeam(u, r) PROVE Tier'
  BY <1>1, <1>3 DEF AddMember, JoinTeam
<1>4. ASSUME NEW i \in Invites, MintInvite(i) \/ RevokeInvite(i) \/ InviteExpires(i) PROVE Tier'
  BY <1>1, <1>4 DEF MintInvite, RevokeInvite, InviteExpires
<1>5. ASSUME NEW u \in Users, NEW i \in Invites, RedeemInvite(u, i) PROVE Tier'
  BY <1>1, <1>5 DEF RedeemInvite
<1>6. ASSUME NEW u \in Users, TeamRemove(u) \/ AccountDelete(u) \/ CutRedeem(u) PROVE Tier'
  BY <1>1, <1>6 DEF TeamRemove, AccountDelete, CutRedeem
<1>7. ASSUME NEW u \in Users, Pushes(u) PROVE Tier'
  BY <1>1, <1>7 DEF Pushes, Push, Insert, CommitPush, CutPush
<1>8. ASSUME NEW u, TeamInvite(u) \/ InviteForbidden PROVE Tier'
  BY <1>1, <1>8 DEF TeamInvite, InviteForbidden
<1> QED
  BY <1>2, <1>3, <1>4, <1>5, <1>6, <1>7, <1>8, StripeTier, DeliverTier, UpsertTier, CutHookTier
     DEF Next, Pushes

-----------------------------------------------------------------------------
LEMMA Invariance == Spec => []IInv
BY InitIInv, NextIInv, PTL DEF Spec

(* The tables, the handlers and the deliveries keep their types.           *)
THEOREM TeamTypeCorrect == Spec => []TypeOK
<1>1. IInv => TypeOK
  BY SameTypes DEF IInv
<1> QED
  BY Invariance, <1>1, PTL

(* Whoever is in the team was added by its owner or redeemed an invite of  *)
(* its own, and as long as the team never paid its owner is alone.         *)
THEOREM NobodyUninvited == Spec => []NoBackdoor
<1>1. IInv => NoBackdoor
  BY DEF IInv, Redeemed, Members, LetIn, NoBackdoor, Typed, PeopleOK
<1> QED
  BY Invariance, <1>1, PTL

LEMMA LineInvariance == Spec => [](IInv /\ Line)
<1>1. Init => IInv /\ Line
  BY InitIInv, InitLine
<1>2. IInv /\ Line /\ [Next]_vars => (IInv /\ Line)'
  BY NextIInv, NextLine DEF IInv
<1> QED
  BY <1>1, <1>2, PTL DEF Spec

(* However pushes interleave, no two rows of a line have one number, and   *)
(* a line has no gaps, but for the team's once an account was deleted; a   *)
(* machine's last version is one its user pushed by its name, and nothing  *)
(* of a deleted account is left in the lines or the team.                  *)
THEOREM OneNumberPerVersion == Spec => []HistorySound
<1>1. IInv /\ Line => HistorySound
  BY DEF IInv, Members, Line, Numbered, Gapless, Recalled, HistorySound
<1> QED
  BY LineInvariance, <1>1, PTL

LEMMA TierInvariance == Spec => [](IInv /\ Tier)
<1>1. Init => IInv /\ Tier
  BY InitIInv, InitTier
<1>2. IInv /\ Tier /\ [Next]_vars => (IInv /\ Tier)'
  BY NextIInv, NextTier DEF IInv
<1> QED
  BY <1>1, <1>2, PTL DEF Spec

(* Once every event was delivered, however often and in any order, the     *)
(* tier is what the last one about the subscription said, unless a         *)
(* delivery was cut off or overtaken by a later event.                     *)
THEOREM TierIsTheLastEvents == Spec => []TierCurrent
<1>1. IInv /\ Tier => TierCurrent
  <2> DEFINE A == {n \in DOMAIN events : events[n] # "other"}
  <2> SUFFICES ASSUME IInv, Tier, DOMAIN events \subseteq ledger, \A h \in Hooks : hook[h] = 0,
                      ~excused
               PROVE  paid = (A # {} /\ events[Max(A)] = "paid")
    BY DEF TierCurrent
  <2>1. Typed /\ Delivered /\ Applied
    BY DEF IInv, Tier
  <2>2. paid \in BOOLEAN
    BY <2>1 DEF Typed, BillingOK
  <2>3. A = written
    <3>1. \A n \in A : n \in ledger /\ About(n) /\ n # 0
      BY <2>1 DEF About, Typed, BillingOK
    <3>2. A \subseteq written
      <4> HIDE DEF A
      <4> QED
        BY <2>1, <3>1 DEF Delivered
    <3>3. written \subseteq A
      BY <2>1 DEF Delivered, About
    <3> QED
      BY <3>2, <3>3
  <2>4. A = {} => ~paid
    BY <2>1, <2>3 DEF Applied
  <2>5. A # {} => (paid <=> events[Max(A)] = "paid")
    <3> SUFFICES ASSUME A # {} PROVE paid <=> events[Max(A)] = "paid"
      OBVIOUS
    <3>1. A \subseteq 0..MaxEvents /\ MaxEvents \in Nat
      BY <2>1, TeamAssumption DEF Typed, BillingOK
    <3> HIDE DEF A
    <3>2. Max(A) \in A /\ \A m \in A : m <= Max(A)
      BY <3>1, Greatest
    <3> QED
      BY <2>1, <2>3, <3>2 DEF Applied, Newest
  <2> HIDE DEF A
  <2> QED
    BY <2>2, <2>4, <2>5, Zenon
<1> QED
  BY TierInvariance, <1>1, PTL

=============================================================================
