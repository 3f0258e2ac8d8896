----------------------------- MODULE ProbeProofs -----------------------------
(***************************************************************************)
(* Theorems about Probe: for any servers, references and rotations, no     *)
(* server starts with an unresolved or a mixed secret, and what a probe    *)
(* reports is what the server listed when it was asked to.                 *)
(***************************************************************************)
EXTENDS Probe, TLAPS

(* What stands in a server is what the memo holds, and the memo holds what *)
(* a backend held; no server runs before all is in place.                  *)
Resolved ==
  /\ \A k \in DOMAIN given : memo[Places[k]] # None /\ given[k] = memo[Places[k]]
  /\ \A r \in Refs : memo[r] # None => memo[r] \in 0..secret[r]
  /\ pc \in {"open", "probe", "done"} => Len(given) = Len(Places)
  /\ pc = "wait" => Len(given) < Len(Places) /\ memo[Wanted] = None
  /\ \A s \in Servers : child[s] # "none" => Len(given) = Len(Places)

(* The servers still to come have no report.                               *)
InTurn ==
  pc \in {"resolve", "wait", "open", "probe"} =>
    \A s \in Servers : s >= at => found[s] = Unprobed

IInv == TypeOK /\ Resolved /\ InTurn /\ ReportsListing

-----------------------------------------------------------------------------
LEMMA WantedType ==
  ASSUME given \in Seq(0..None), Len(given) < Len(Places)
  PROVE  Wanted \in Refs /\ Len(given) + 1 \in DOMAIN Places /\ Wanted \notin Servers
BY ProbeAssumption DEF Wanted

LEMMA InitIInv == Init => IInv
<1> SUFFICES ASSUME Init PROVE IInv
  OBVIOUS
<1> USE ProbeAssumption
<1>1. None \in 0..None /\ 1 \in Servers
  BY DEF None, Servers
<1>2. TypeOK
  BY <1>1 DEF Init, TypeOK, None
<1>3. Resolved
  BY DEF Init, Resolved, None, Children
<1>4. InTurn
  BY DEF Init, InTurn
<1>5. ReportsListing
  BY DEF Init, ReportsListing, Unprobed
<1> QED
  BY <1>2, <1>3, <1>4, <1>5 DEF IInv

-----------------------------------------------------------------------------
(* A value put in its place: the one step that changes what is given.      *)
LEMMA FillInv ==
  ASSUME TypeOK, Resolved, Len(given) < Len(Places),
         NEW value \in 0..secret[Wanted], Fill(value),
         memo[Wanted] \in {None, value},
         UNCHANGED secret,
         \A s \in Servers : child'[s] = child[s]
  PROVE  /\ memo' \in [Refs -> 0..None]
         /\ given' \in Seq(0..None) /\ Len(given') = Len(given) + 1
         /\ \A k \in DOMAIN given' : memo'[Places[k]] # None /\ given'[k] = memo'[Places[k]]
         /\ \A r \in Refs : memo'[r] # None => memo'[r] \in 0..secret'[r]
         /\ \A s \in Servers : child'[s] = "none"
<1> USE ProbeAssumption
<1>1. Wanted \in Refs /\ Wanted = Places[Len(given) + 1] /\ given \in Seq(0..None)
  BY WantedType DEF TypeOK, Wanted
<1>2. value \in 0..MaxRotations /\ value # None /\ value \in 0..None
  BY <1>1 DEF TypeOK, None
<1>3. memo' = [memo EXCEPT ![Wanted] = value] /\ given' = Append(given, value)
  BY DEF Fill
<1>4. \A k \in DOMAIN given : Places[k] \in Refs
  BY <1>1
<1>5. ASSUME NEW k \in DOMAIN given'
      PROVE  memo'[Places[k]] # None /\ given'[k] = memo'[Places[k]]
  <2>1. CASE k \in DOMAIN given
    <3>1. given'[k] = given[k] /\ memo[Places[k]] # None /\ given[k] = memo[Places[k]]
      BY <1>1, <1>2, <1>3, <2>1 DEF Resolved
    <3> QED
      BY <1>1, <1>2, <1>3, <1>4, <2>1, <3>1 DEF TypeOK
  <2>2. CASE k = Len(given) + 1
    BY <1>1, <1>2, <1>3, <2>2 DEF TypeOK
  <2> QED
    BY <1>1, <1>2, <1>3, <2>1, <2>2
<1>6. memo' \in [Refs -> 0..None]
  BY <1>1, <1>2, <1>3 DEF TypeOK
<1>7. given' \in Seq(0..None) /\ Len(given') = Len(given) + 1
  BY <1>1, <1>2, <1>3
<1>8. ASSUME NEW r \in Refs, memo'[r] # None
      PROVE  memo'[r] \in 0..secret'[r]
  BY <1>1, <1>3, <1>8 DEF TypeOK, Resolved
<1>9. \A s \in Servers : child'[s] = "none"
  <2>1. \A s \in Servers : child[s] = "none"
    BY DEF Resolved
  <2> QED
    BY <2>1
<1> QED
  BY <1>5, <1>6, <1>7, <1>8, <1>9

(* A report: the session of one server ends.                               *)
LEMMA ReportInv ==
  ASSUME IInv, pc = "probe", NEW result, Report(result),
         result \in {Unreachable} \cup [is : {"reachable"}, supported : BOOLEAN, tools : Surfaces],
         listed' \in [Servers -> Surfaces \cup {Unlisted}],
         \A s \in Servers \ {at} : listed'[s] = listed[s],
         result.is = "reachable" =>
           result.tools = IF result.supported THEN listed'[at] ELSE NoTools,
         nextId' \in 0..2,
         UNCHANGED <<secret, deaf, grace, memo, given>>
  PROVE  IInv'
<1> USE ProbeAssumption
<1>1. at \in Servers /\ found \in [Servers -> {Unprobed, Unreachable}
                              \cup [is : {"reachable"}, supported : BOOLEAN, tools : Surfaces]]
  BY DEF IInv, TypeOK
<1>2. found' = [found EXCEPT ![at] = result] /\ pending' = {} /\ child' = Told(at)
  BY DEF Report, Close
<1>3. /\ at' \in Servers
      /\ (at' = at + 1 /\ pc' = "open") \/ (at' = at /\ pc' = "done")
  BY <1>1 DEF Report, Servers
<1>4. child' \in [Children -> {"none", "running", "told", "gone"}]
  BY <1>2 DEF IInv, TypeOK, Told
<1>5. TypeOK'
  BY <1>1, <1>2, <1>3, <1>4 DEF IInv, TypeOK
<1>6. \A s \in Servers : child'[s] # "none" => child[s] # "none"
  BY <1>2 DEF IInv, TypeOK, Told, Children
<1>7. Resolved'
  BY <1>3, <1>6 DEF IInv, Resolved
<1>8. InTurn'
  BY <1>1, <1>2, <1>3 DEF IInv, InTurn, Servers
<1>9. ReportsListing'
  <2> SUFFICES ASSUME NEW s \in Servers, found'[s].is = "reachable"
               PROVE  found'[s].tools = IF found'[s].supported THEN listed'[s] ELSE NoTools
    BY DEF ReportsListing
  <2>1. CASE s = at
    BY <1>1, <1>2, <2>1
  <2>2. CASE s # at
    BY <1>1, <1>2, <2>2 DEF IInv, ReportsListing
  <2> QED
    BY <2>1, <2>2
<1> QED
  BY <1>5, <1>7, <1>8, <1>9 DEF IInv

LEMMA NextIInv == IInv /\ [Next]_vars => IInv'
<1> SUFFICES ASSUME IInv, [Next]_vars PROVE IInv'
  OBVIOUS
<1> USE ProbeAssumption
<1>0. TypeOK /\ Resolved /\ InTurn /\ ReportsListing
  BY DEF IInv
<1>1. CASE Resolve
  <2>0. UNCHANGED <<secret, deaf, grace, session, at>> /\ pc = "resolve"
    BY <1>1 DEF Resolve
  <2>1. InTurn' /\ ReportsListing'
    <3>1. pc' \in {"resolve", "wait", "open", "failed"}
      BY <1>1 DEF Resolve
    <3> QED
      BY <1>0, <2>0, <3>1 DEF InTurn, ReportsListing, session
  <2>2. CASE Len(given) = Len(Places) /\ pc' = "open" /\ UNCHANGED <<child, memo, given>>
    BY <1>0, <2>0, <2>1, <2>2 DEF IInv, TypeOK, Resolved, session
  <2>3. CASE Len(given) < Len(Places) /\ Known /\ Fill(memo[Wanted]) /\ UNCHANGED <<child, pc>>
    <3>1. Wanted \in Refs
      BY <1>0, <2>3, WantedType DEF TypeOK
    <3>2. memo[Wanted] \in 0..secret[Wanted]
      BY <1>0, <2>3, <3>1 DEF Resolved, Known
    <3>3. /\ memo' \in [Refs -> 0..None]
          /\ given' \in Seq(0..None) /\ Len(given') = Len(given) + 1
          /\ \A k \in DOMAIN given' : memo'[Places[k]] # None /\ given'[k] = memo'[Places[k]]
          /\ \A r \in Refs : memo'[r] # None => memo'[r] \in 0..secret'[r]
          /\ \A s \in Servers : child'[s] = "none"
      BY <1>0, <2>0, <2>3, <3>2, FillInv
    <3>4. TypeOK'
      BY <1>0, <2>0, <2>3, <3>3 DEF TypeOK, session
    <3>5. Resolved'
      BY <2>0, <2>3, <3>3 DEF Resolved
    <3> QED
      BY <2>1, <3>4, <3>5 DEF IInv
  <2>4. CASE /\ Len(given) < Len(Places)
             /\ ~Known
             /\ \/ pc' = "wait" /\ child' = [child EXCEPT ![Wanted] = "running"]
                \/ pc' = "failed" /\ UNCHANGED child
             /\ UNCHANGED <<memo, given>>
    <3>1. Wanted \in Refs /\ Wanted \notin Servers
      BY <1>0, <2>4, WantedType DEF TypeOK
    <3>2. TypeOK'
      BY <1>0, <2>0, <2>4, <3>1 DEF TypeOK, session, Children
    <3>3. \A s \in Servers : child'[s] = child[s]
      BY <1>0, <2>4, <3>1 DEF TypeOK, Children
    <3>4. Wanted' = Wanted
      BY <2>4 DEF Wanted
    <3>5. Resolved'
      BY <1>0, <2>0, <2>4, <3>3, <3>4 DEF Resolved, Known
    <3> QED
      BY <2>1, <3>2, <3>5 DEF IInv
  <2> QED
    BY <1>1, <2>2, <2>3, <2>4 DEF Resolve
<1>2. CASE ProviderAnswers
  <2>1. pc = "wait" /\ Len(given) < Len(Places) /\ memo[Wanted] = None /\ Wanted \in Refs
        /\ Wanted \notin Servers
    BY <1>0, <1>2, WantedType DEF ProviderAnswers, Resolved, TypeOK
  <2>2. child' = [child EXCEPT ![Wanted] = "gone"] /\ Fill(secret[Wanted])
        /\ pc' = "resolve" /\ UNCHANGED <<secret, deaf, grace, session, at>>
    BY <1>2 DEF ProviderAnswers
  <2>3. secret[Wanted] \in 0..secret[Wanted]
    BY <1>0, <2>1 DEF TypeOK
  <2>4. \A s \in Servers : child'[s] = child[s]
    BY <1>0, <2>1, <2>2 DEF TypeOK, Children
  <2>5. /\ memo' \in [Refs -> 0..None]
        /\ given' \in Seq(0..None) /\ Len(given') = Len(given) + 1
        /\ \A k \in DOMAIN given' : memo'[Places[k]] # None /\ given'[k] = memo'[Places[k]]
        /\ \A r \in Refs : memo'[r] # None => memo'[r] \in 0..secret'[r]
        /\ \A s \in Servers : child'[s] = "none"
    BY <1>0, <2>1, <2>2, <2>3, <2>4, FillInv
  <2>6. TypeOK'
    <3>1. child' \in [Children -> {"none", "running", "told", "gone"}]
      BY <1>0, <2>1, <2>2 DEF TypeOK, Children
    <3>2. Len(given') <= Len(Places)
      BY <1>0, <2>1, <2>5 DEF TypeOK
    <3>3. UNCHANGED <<secret, deaf, grace, at, nextId, pending, found, listed>>
      BY <2>2 DEF session
    <3> QED
      BY <1>0, <2>2, <2>5, <3>1, <3>2, <3>3 DEF TypeOK
  <2>7. Resolved'
    BY <2>2, <2>5 DEF Resolved
  <2>8. InTurn' /\ ReportsListing'
    BY <1>0, <2>1, <2>2 DEF InTurn, ReportsListing, session
  <2> QED
    BY <2>6, <2>7, <2>8 DEF IInv
<1>3. CASE ProviderFails \/ TimedOut
  <2>1. pc = "wait" /\ pc' = "failed" /\ Wanted \in Refs /\ Wanted \notin Servers
    BY <1>0, <1>3, WantedType DEF ProviderFails, TimedOut, Resolved, TypeOK
  <2>2. UNCHANGED <<secret, memo, given, session, deaf, at>>
    BY <1>3 DEF ProviderFails, TimedOut, secrets
  <2>3. child' \in [Children -> {"none", "running", "told", "gone"}] /\ grace' \subseteq Refs
        /\ \A s \in Servers : child'[s] = child[s]
    BY <1>0, <1>3, <2>1 DEF ProviderFails, TimedOut, Told, TypeOK, Children, secrets
  <2> QED
    BY <1>0, <2>1, <2>2, <2>3 DEF IInv, TypeOK, Resolved, InTurn, ReportsListing, session
<1>4. ASSUME NEW r \in Refs, GraceOver(r) PROVE IInv'
  <2>1. child' \in [Children -> {"none", "running", "told", "gone"}] /\ grace' \subseteq Refs
        /\ \A s \in Servers : child'[s] = child[s]
    BY <1>0, <1>4 DEF GraceOver, TypeOK, Children
  <2>2. UNCHANGED <<secret, deaf, memo, given, session, pc, at>> /\ Wanted' = Wanted
    BY <1>4 DEF GraceOver, Wanted
  <2> QED
    BY <1>0, <2>1, <2>2 DEF IInv, TypeOK, Resolved, InTurn, ReportsListing, session
<1>5. ASSUME NEW r \in Refs, Rotate(r) PROVE IInv'
  <2>1. UNCHANGED <<grace, memo, given, session, deaf, child, pc, at>> /\ Wanted' = Wanted
    BY <1>5 DEF Rotate, Wanted
  <2>2. secret' \in [Refs -> 0..MaxRotations] /\ \A q \in Refs : secret'[q] >= secret[q]
    BY <1>0, <1>5 DEF Rotate, TypeOK
  <2>3. TypeOK'
    BY <1>0, <2>1, <2>2 DEF TypeOK, session
  <2>4. \A q \in Refs : memo[q] # None => memo[q] \in 0..secret'[q]
    BY <1>0, <2>2 DEF TypeOK, Resolved
  <2> QED
    BY <1>0, <2>1, <2>3, <2>4 DEF IInv, Resolved, InTurn, ReportsListing, session
<1>6. CASE Open
  <2>1. /\ pc = "open" /\ pc' = "probe" /\ UNCHANGED <<secrets, deaf, found, listed, at>>
        /\ nextId' = 1 /\ pending' = {1}
        /\ \E state \in {"running", "gone"} : child' = [child EXCEPT ![at] = state]
    BY <1>6 DEF Open, Request
  <2>2. TypeOK'
    BY <1>0, <2>1 DEF TypeOK, secrets, Children
  <2>3. Resolved'
    BY <1>0, <2>1 DEF Resolved, secrets
  <2> QED
    BY <1>0, <2>1, <2>2, <2>3 DEF IInv, InTurn, ReportsListing
<1>7. ASSUME NEW id \in {1, 2}, NEW answer \in Answers, Answer(id, answer) PROVE IInv'
  <2>0. /\ pc = "probe" /\ UNCHANGED <<secret, deaf, grace, memo, given>>
        /\ id = nextId /\ at \in Servers
    BY <1>0, <1>7 DEF Answer, Expected, TypeOK, secrets
  <2>1. answer.is # "error" => ToolsFrom(answer) \in Surfaces
    BY DEF Answers, ToolsFrom
  <2>2. listed' = [listed EXCEPT ![at] = IF id = 2 /\ nextId = 2 /\ answer.is # "error"
                                          THEN ToolsFrom(answer) ELSE @]
    BY <1>7 DEF Answer
  <2>3. listed' \in [Servers -> Surfaces \cup {Unlisted}] /\ \A s \in Servers \ {at} : listed'[s] = listed[s]
    BY <1>0, <2>0, <2>1, <2>2 DEF TypeOK
  <2>4. nextId \in 0..2
    BY <1>0 DEF TypeOK
  <2>5. CASE Report(Unreachable) /\ UNCHANGED nextId
    BY <2>0, <2>3, <2>4, <2>5, ReportInv DEF Unreachable
  <2>6. CASE answer.is # "error" /\ nextId # 1 /\ UNCHANGED nextId
               /\ Report(Reachable(TRUE, ToolsFrom(answer)))
    <3>1. listed'[at] = ToolsFrom(answer)
      BY <1>0, <2>0, <2>2, <2>6 DEF TypeOK
    <3>2. Reachable(TRUE, ToolsFrom(answer)) \in
            [is : {"reachable"}, supported : BOOLEAN, tools : Surfaces]
      BY <2>1, <2>6 DEF Reachable
    <3> QED
      BY <2>0, <2>3, <2>4, <2>6, <3>1, <3>2, ReportInv DEF Reachable
  <2>7. CASE Report(Reachable(FALSE, NoTools)) /\ UNCHANGED nextId
    <3>1. Reachable(FALSE, NoTools) \in
            [is : {"reachable"}, supported : BOOLEAN, tools : Surfaces]
      BY DEF Reachable
    <3> QED
      BY <2>0, <2>3, <2>4, <2>7, <3>1, ReportInv DEF Reachable
  <2>8. CASE nextId = 1 /\ Request(2) /\ UNCHANGED <<child, found, at, pc>>
    <3>1. listed' = listed
      BY <1>0, <2>0, <2>2, <2>8 DEF TypeOK
    <3>2. nextId' = 2 /\ pending' = {2}
      BY <2>8 DEF Request
    <3> QED
      BY <1>0, <2>0, <2>8, <3>1, <3>2 DEF IInv, TypeOK, Resolved, InTurn, ReportsListing, Wanted
  <2>9. /\ answer.is \in {"error", "null", "object"}
        /\ \/ answer.is = "error" /\ Report(Unreachable) /\ UNCHANGED nextId
           \/ answer.is # "error" /\ nextId = 1 /\ Initialized(answer)
           \/ /\ answer.is # "error" /\ nextId # 1
              /\ Report(Reachable(TRUE, ToolsFrom(answer))) /\ UNCHANGED nextId
    BY <1>7 DEF Answer, Answers
  <2> QED
    BY <2>5, <2>6, <2>7, <2>8, <2>9 DEF Initialized
<1>8. CASE RequestTimesOut
  <2>1. listed' = listed /\ nextId' = nextId /\ UNCHANGED <<secret, deaf, grace, memo, given>>
        /\ pc = "probe" /\ Report(Unreachable)
    BY <1>8 DEF RequestTimesOut, secrets
  <2>2. listed \in [Servers -> Surfaces \cup {Unlisted}] /\ nextId \in 0..2
    BY <1>0 DEF TypeOK
  <2> QED
    BY <2>1, <2>2, ReportInv DEF Unreachable
<1>9. ASSUME NEW c \in Children, Ends(c) PROVE IInv'
  <2>1. UNCHANGED <<secret, deaf, memo, given, session, pc, at>> /\ Wanted' = Wanted
    BY <1>9 DEF Ends, Wanted
  <2>2. child' \in [Children -> {"none", "running", "told", "gone"}] /\ grace' \subseteq Refs
        /\ \A s \in Servers : child'[s] # "none" => child[s] # "none"
    BY <1>0, <1>9 DEF Ends, Alive, TypeOK, Children
  <2> QED
    BY <1>0, <2>1, <2>2 DEF IInv, TypeOK, Resolved, InTurn, ReportsListing, session
<1>10. CASE Leave
  <2>1. pc' = "left" /\ UNCHANGED <<secrets, session, deaf, child, at>>
    BY <1>10 DEF Leave
  <2> QED
    BY <1>0, <2>1 DEF IInv, TypeOK, Resolved, InTurn, ReportsListing, session, secrets
<1>11. CASE UNCHANGED vars
  BY <1>0, <1>11 DEF vars, IInv, TypeOK, Resolved, InTurn, ReportsListing, session, secrets, Wanted
<1> QED
  BY <1>1, <1>2, <1>3, <1>4, <1>5, <1>6, <1>7, <1>8, <1>9, <1>10, <1>11 DEF Next, Command

LEMMA Invariance == Spec => []IInv
BY InitIInv, NextIInv, PTL DEF Spec

-----------------------------------------------------------------------------
(* Every variable keeps its type: at most one request waits at a time.     *)
THEOREM ProbeTypeCorrect == Spec => []TypeOK
<1>1. IInv => TypeOK
  BY DEF IInv
<1> QED
  BY Invariance, <1>1, PTL

(* No server is started before every reference has a value its backend     *)
(* held, one for each reference.                                           *)
THEOREM NothingHalfResolved == Spec => []FailClosed
<1>1. IInv => FailClosed
  BY ProbeAssumption DEF IInv, TypeOK, Resolved, FailClosed
<1> QED
  BY Invariance, <1>1, PTL

(* What a probe reports is the server's answer to its tools/list.          *)
THEOREM ListingIsTheServers == Spec => []ReportsListing
<1>1. IInv => ReportsListing
  BY DEF IInv
<1> QED
  BY Invariance, <1>1, PTL

=============================================================================
