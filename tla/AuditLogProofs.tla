---------------------------- MODULE AuditLogProofs ----------------------------
(***************************************************************************)
(* Theorems about AuditLog, for any number of proxies, any cap and any     *)
(* crashes: each event is in one file or was given up, a sink gives one up *)
(* only after another one's rotation, and a reader that no rotation        *)
(* overtakes reads all there was.                                          *)
(***************************************************************************)
EXTENDS AuditLog, FiniteSetTheorems, WellFoundedInduction, TLAPS

(* A sink at work has an event, and writes to a file there is.             *)
Busy ==
  \A w \in Writers :
    /\ pc[w] # "idle" => next[w] <= MaxEvents
    /\ pc[w] = "write" => fd[w] \in DOMAIN lines

(* Where an event is: nowhere before its sink is done with it, afterwards  *)
(* in one file and no other, or nowhere and given up.                      *)
Nowhere(e) == \A f \in DOMAIN lines : e \notin lines[f]
OnlyIn(e, f) == f \in DOMAIN lines /\ \A g \in DOMAIN lines : e \in lines[g] <=> g = f
Placed(w, n) ==
  /\ n >= next[w] => <<w, n>> \notin dropped /\ Nowhere(<<w, n>>)
  /\ n < next[w] => IF <<w, n>> \in dropped THEN Nowhere(<<w, n>>)
                                           ELSE \E f \in DOMAIN lines : OnlyIn(<<w, n>>, f)
Kept == \A w \in Writers, n \in 1..MaxEvents : Placed(w, n)

(* What was on disk at the scan is read, or is in a file still to be read. *)
Covered ==
  /\ listed \subseteq DOMAIN lines
  /\ reader # "idle" /\ ~moved =>
       \A e \in due : \/ reader # "primary" /\ e \in read
                      \/ \E f \in listed : e \in lines[f]
                      \/ reader = "primary" /\ found /\ primary # 0 /\ e \in lines[primary]
  /\ reader = "done" => listed = {}

(* While there is no log, whoever holds a full counter, or has the log     *)
(* open, did not make it disappear: some other sink renamed it.            *)
Rival(w) == rotator \notin {w, "none"}

Missing ==
  primary = 0 => \A w \in Writers :
    MustRotate(bytes[w]) \/ pc[w] \in {"rename", "write"} => Rival(w)

(* How much a sink has in a file: never more than the cap.  Its counter    *)
(* is at least what it has in the log itself, also after a crash, when it  *)
(* starts from all the log holds; and it opens a file only below the cap.  *)
Own(w, f) == {e \in lines[f] : e[1] = w}
Bounded(w) ==
  /\ pc[w] \in {"open", "write"} => bytes[w] \in Nat /\ bytes[w] < MaxLines
  /\ \A f \in DOMAIN lines :
       /\ Cardinality(Own(w, f)) <= MaxLines
       /\ f = primary /\ bytes[w] >= 0 => Cardinality(Own(w, f)) <= bytes[w]
       /\ pc[w] = "write" /\ fd[w] = f => Cardinality(Own(w, f)) < MaxLines
Within == \A w \in Writers : Bounded(w)

IInv == TypeOK /\ Busy /\ Kept /\ Covered /\ Missing /\ Within

-----------------------------------------------------------------------------
LEMMA InitIInv == Init => IInv
<1> SUFFICES ASSUME Init PROVE IInv
  OBVIOUS
<1> USE LogAssumption
<1>1. \A w \in Writers : bytes[w] = -1 /\ pc[w] = "idle"
  BY DEF Init
<1>2. ~MustRotate(-1)
  BY DEF MustRotate
<1>3. Missing
  BY <1>1, <1>2 DEF Init, Missing
<1>4. TypeOK
  <2>1. DOMAIN lines = {} /\ primary = 0 /\ 1 \in 1..(MaxEvents + 1) /\ 0 \in 0..MaxCrashes
    BY DEF Init
  <2> QED
    BY <2>1 DEF Init, TypeOK
<1>5. Busy /\ Kept /\ Covered
  BY DEF Init, Busy, Kept, Placed, Nowhere, Covered
<1>6. Within
  BY DEF Init, Within, Bounded
<1> QED
  BY <1>3, <1>4, <1>5, <1>6 DEF IInv

-----------------------------------------------------------------------------
LEMMA EventsFinite == IsFiniteSet(Events) /\ 0 \notin Files
<1> USE LogAssumption
<1>1. IsFiniteSet(1..MaxEvents)
  BY FS_Interval
<1>2. IsFiniteSet(Events)
  BY <1>1, FS_Product DEF Events
<1>3. Cardinality(Events) \in Nat
  BY <1>2, FS_CardinalityType
<1> QED
  BY <1>2, <1>3 DEF Files

(* The size of the log is a number.                                        *)
LEMMA SeedType ==
  ASSUME TypeOK
  PROVE  Seed \in Nat
<1>2. IsFiniteSet(Events)
  BY EventsFinite
<1>3. CASE primary = 0
  BY <1>3 DEF Seed
<1>4. CASE primary # 0
  <2>1. IsFiniteSet(lines[primary])
    BY <1>2, <1>4, FS_Subset DEF TypeOK
  <2> QED
    BY <1>4, <2>1, FS_CardinalityType DEF Seed, Size
<1> QED
  BY <1>3, <1>4

(* Each step keeps the types, and a busy sink its event and its file.      *)
LEMMA NextTyped == TypeOK /\ Busy /\ [Next]_vars => TypeOK' /\ Busy'
<1> SUFFICES ASSUME TypeOK, Busy, [Next]_vars PROVE TypeOK' /\ Busy'
  OBVIOUS
<1> USE LogAssumption
<1>1. ASSUME NEW w \in Writers, next[w] <= MaxEvents
      PROVE  Event(w) \in Events /\ next[w] + 1 \in 1..(MaxEvents + 1)
  BY <1>1 DEF TypeOK, Event, Events
<1>2. ASSUME NEW w \in Writers, Record(w) PROVE TypeOK' /\ Busy'
  <2>1. Seed \in Nat
    BY SeedType
  <2> QED
    BY <1>2, <2>1 DEF Record, TypeOK, Busy, Goto, disk, reading
<1>3. ASSUME NEW w \in Writers, Rename(w) PROVE TypeOK' /\ Busy'
  BY <1>3 DEF Rename, Renamed, TypeOK, Busy, Goto, reading
<1>4. ASSUME NEW w \in Writers, RenameFails(w) PROVE TypeOK' /\ Busy'
  BY <1>1, <1>4 DEF RenameFails, TypeOK, Busy, Goto, disk, reading
<1>5. ASSUME NEW w \in Writers, Open(w) PROVE TypeOK' /\ Busy'
  BY <1>5 DEF Open, TypeOK, Busy, Goto, reading
<1>6. ASSUME NEW w \in Writers, Write(w) PROVE TypeOK' /\ Busy'
  BY <1>1, <1>6 DEF Write, TypeOK, Busy, Goto, reading
<1>7. ASSUME NEW w \in Writers, Crash(w) PROVE TypeOK' /\ Busy'
  BY <1>1, <1>7 DEF Crash, TypeOK, Busy, Goto, disk, reading
<1>8. CASE Scan
  <2>1. OnDisk \subseteq Events /\ Siblings \subseteq Files /\ (primary # 0) \in BOOLEAN
    BY DEF TypeOK, OnDisk, Siblings, Rotated
  <2> QED
    BY <1>8, <2>1 DEF Scan, TypeOK, Busy, disk, sinks
<1>10. CASE ReadPrimary
  BY <1>10 DEF ReadPrimary, TypeOK, Busy, disk, sinks
<1>11. CASE ReadSibling
  BY <1>11 DEF ReadSibling, TypeOK, Busy, disk, sinks
<1>12. CASE ReadDone
  BY <1>12 DEF ReadDone, TypeOK, Busy, disk, sinks
<1>9. CASE UNCHANGED vars
  BY <1>9 DEF vars, disk, sinks, reading, TypeOK, Busy
<1> QED
  BY <1>2, <1>3, <1>4, <1>5, <1>6, <1>7, <1>8, <1>9, <1>10, <1>11, <1>12 DEF Next

(* Whoever made the log disappear, it was not a sink that holds it.        *)
LEMMA NextMissing == TypeOK /\ Missing /\ [Next]_vars => Missing'
<1> SUFFICES ASSUME TypeOK, Missing, [Next]_vars PROVE Missing'
  OBVIOUS
<1>0. DOMAIN pc = Writers /\ DOMAIN bytes = Writers
  BY DEF TypeOK
<1> USE <1>0 DEF Missing, Rival, Goto
<1>1. ~MustRotate(0)
  BY LogAssumption DEF MustRotate
<1>2. ASSUME NEW w \in Writers, Record(w) PROVE Missing'
  <2>1. primary' = primary /\ rotator' = rotator
    BY <1>2 DEF Record, disk
  <2>2. \A v \in Writers \ {w} : bytes'[v] = bytes[v] /\ pc'[v] = pc[v]
    BY <1>2 DEF Record
  <2>3. /\ primary = 0 => Seed = 0
        /\ bytes'[w] \in {Seed, bytes[w]}
        /\ pc'[w] = IF MustRotate(bytes'[w]) THEN "rename" ELSE "open"
    BY <1>2 DEF Record, Seed
  <2>4. primary = 0 /\ MustRotate(bytes'[w]) => Rival(w)
    BY <1>1, <2>3
  <2> QED
    BY <2>1, <2>2, <2>3, <2>4 DEF MustRotate
<1>3. ASSUME NEW w \in Writers, Rename(w) PROVE Missing'
  BY <1>1, <1>3, LogAssumption DEF Rename, Renamed, MustRotate
<1>4. ASSUME NEW w \in Writers, RenameFails(w) PROVE Missing'
  BY <1>4 DEF RenameFails, disk, MustRotate
<1>5. ASSUME NEW w \in Writers, Open(w) PROVE Missing'
  BY <1>5 DEF Open, MustRotate, Files
<1>6. ASSUME NEW w \in Writers, Write(w) PROVE Missing'
  BY <1>6 DEF Write, MustRotate
<1>7. ASSUME NEW w \in Writers, Crash(w) PROVE Missing'
  BY <1>7, LogAssumption DEF Crash, disk, MustRotate
<1>8. CASE Scan \/ ReadPrimary \/ ReadSibling \/ ReadDone
  BY <1>8 DEF Scan, ReadPrimary, ReadSibling, ReadDone, disk, sinks, MustRotate
<1>9. CASE UNCHANGED vars
  BY <1>9 DEF vars, disk, sinks, MustRotate
<1> QED
  BY <1>2, <1>3, <1>4, <1>5, <1>6, <1>7, <1>8, <1>9 DEF Next

-----------------------------------------------------------------------------
(* A sink that is done with its event leaves it in the one file it wrote,  *)
(* or in none; nobody else's event moves.                                  *)
LEMMA Untouched ==
  ASSUME UNCHANGED <<lines, next, dropped>>, Kept
  PROVE  Kept'
BY DEF Kept, Placed, Nowhere, OnlyIn

LEMMA GivenUp ==
  ASSUME TypeOK, Kept, NEW w \in Writers, next[w] <= MaxEvents,
         dropped' = dropped \cup {Event(w)},
         next' = [next EXCEPT ![w] = @ + 1],
         UNCHANGED lines
  PROVE  Kept'
<1> SUFFICES ASSUME NEW v \in Writers, NEW n \in 1..MaxEvents PROVE Placed(v, n)'
  BY DEF Kept
<1>1. Placed(v, n) /\ next[v] \in Nat
  BY DEF Kept, TypeOK
<1>2. CASE v = w /\ n = next[w]
  <2>1. next'[w] = n + 1 /\ <<v, n>> \in dropped' /\ Nowhere(<<v, n>>)
    BY <1>1, <1>2 DEF TypeOK, Event, Placed
  <2> QED
    BY <1>2, <2>1 DEF Placed, Nowhere
<1>3. CASE ~(v = w /\ n = next[w])
  <2>1. <<v, n>> \in dropped' <=> <<v, n>> \in dropped
    BY <1>3 DEF Event
  <2>2. n < next'[v] <=> n < next[v]
    BY <1>1, <1>3 DEF TypeOK
  <2>3. n >= next'[v] <=> n >= next[v]
    BY <1>1, <1>3 DEF TypeOK
  <2> QED
    BY <1>1, <2>1, <2>2, <2>3 DEF Placed, Nowhere, OnlyIn
<1> QED
  BY <1>2, <1>3

LEMMA WriteKept ==
  ASSUME TypeOK, Busy, Kept, NEW w \in Writers, Write(w)
  PROVE  Kept'
<1> SUFFICES ASSUME NEW v \in Writers, NEW n \in 1..MaxEvents PROVE Placed(v, n)'
  BY DEF Kept
<1>1. Placed(v, n) /\ next[v] \in Nat
  BY DEF Kept, TypeOK
<1>2. /\ fd[w] \in DOMAIN lines /\ DOMAIN lines' = DOMAIN lines
      /\ lines'[fd[w]] = lines[fd[w]] \cup {Event(w)}
      /\ \A f \in DOMAIN lines \ {fd[w]} : lines'[f] = lines[f]
      /\ next' = [next EXCEPT ![w] = @ + 1] /\ dropped' = dropped
  BY DEF Write, Busy
<1>3. CASE v = w /\ n = next[w]
  <2>1. <<v, n>> \notin dropped /\ Nowhere(<<v, n>>) /\ Event(w) = <<v, n>>
    BY <1>1, <1>3 DEF Placed, Event
  <2>2. OnlyIn(<<v, n>>, fd[w])'
    BY <1>2, <2>1 DEF OnlyIn, Nowhere, Write
  <2>3. next'[v] = n + 1
    BY <1>2, <1>3 DEF TypeOK
  <2> QED
    BY <1>2, <2>1, <2>2, <2>3 DEF Placed, OnlyIn, Write
<1>4. CASE ~(v = w /\ n = next[w])
  <2>1. \A f \in DOMAIN lines : <<v, n>> \in lines'[f] <=> <<v, n>> \in lines[f]
    BY <1>2, <1>4 DEF Event
  <2>2. (n < next'[v] <=> n < next[v]) /\ (n >= next'[v] <=> n >= next[v])
    BY <1>1, <1>2, <1>4 DEF TypeOK
  <2> QED
    BY <1>1, <1>2, <2>1, <2>2 DEF Placed, Nowhere, OnlyIn
<1> QED
  BY <1>3, <1>4

LEMMA NextKept == TypeOK /\ Busy /\ Kept /\ [Next]_vars => Kept'
<1> SUFFICES ASSUME TypeOK, Busy, Kept, [Next]_vars PROVE Kept'
  OBVIOUS
<1>1. ASSUME NEW w \in Writers, Record(w) \/ Rename(w) PROVE Kept'
  BY <1>1, Untouched DEF Record, Rename, Renamed, disk
<1>2. ASSUME NEW w \in Writers, RenameFails(w) PROVE Kept'
  BY <1>2, GivenUp DEF RenameFails, Busy, disk
<1>3. ASSUME NEW w \in Writers, Open(w) PROVE Kept'
  <2>1. /\ DOMAIN lines' = DOMAIN lines \cup {primary'}
        /\ \A f \in DOMAIN lines' : lines'[f] = IF f \in DOMAIN lines THEN lines[f] ELSE {}
        /\ UNCHANGED <<next, dropped>>
    BY <1>3 DEF Open
  <2> SUFFICES ASSUME NEW v \in Writers, NEW n \in 1..MaxEvents PROVE Placed(v, n)'
    BY DEF Kept
  <2>2. Placed(v, n)
    BY DEF Kept
  <2> QED
    BY <2>1, <2>2 DEF Placed, Nowhere, OnlyIn
<1>4. ASSUME NEW w \in Writers, Write(w) PROVE Kept'
  BY <1>4, WriteKept
<1>5. ASSUME NEW w \in Writers, Crash(w) PROVE Kept'
  <2>1. CASE pc[w] = "idle"
    <3>1. next' = next /\ dropped' = dropped /\ lines' = lines
      BY <1>5, <2>1 DEF Crash, TypeOK, disk
    <3> QED
      BY <3>1, Untouched
  <2>2. CASE pc[w] # "idle"
    BY <1>5, <2>2, GivenUp DEF Crash, Busy, disk
  <2> QED
    BY <2>1, <2>2
<1>6. CASE Scan \/ ReadPrimary \/ ReadSibling \/ ReadDone \/ UNCHANGED vars
  BY <1>6, Untouched DEF Scan, ReadPrimary, ReadSibling, ReadDone, disk, sinks, vars
<1> QED
  BY <1>1, <1>2, <1>3, <1>4, <1>5, <1>6 DEF Next

-----------------------------------------------------------------------------
(* The reader: files only grow, and only a rename takes the log away.      *)
LEMMA NextCovered == TypeOK /\ Busy /\ Covered /\ [Next]_vars => Covered'
<1> SUFFICES ASSUME TypeOK, Busy, Covered, [Next]_vars PROVE Covered'
  OBVIOUS
<1>1. ASSUME /\ UNCHANGED reading /\ moved' = moved
             /\ DOMAIN lines \subseteq DOMAIN lines'
             /\ \A f \in DOMAIN lines : lines[f] \subseteq lines'[f]
             /\ primary # 0 => primary' = primary
      PROVE  Covered'
  <2>1. primary # 0 => lines[primary] \subseteq lines'[primary]
    BY <1>1 DEF TypeOK
  <2> QED
    BY <1>1, <2>1 DEF Covered, reading
<1>2. ASSUME NEW w \in Writers, Record(w) \/ RenameFails(w) \/ Crash(w) PROVE Covered'
  BY <1>1, <1>2 DEF Record, RenameFails, Crash, disk
<1>3. ASSUME NEW w \in Writers, Rename(w) PROVE Covered'
  BY <1>3 DEF Rename, Renamed, Covered, reading
<1>4. ASSUME NEW w \in Writers, Open(w) PROVE Covered'
  BY <1>1, <1>4 DEF Open
<1>5. ASSUME NEW w \in Writers, Write(w) PROVE Covered'
  <2>1. DOMAIN lines' = DOMAIN lines /\ \A f \in DOMAIN lines : lines[f] \subseteq lines'[f]
    BY <1>5 DEF Write
  <2> QED
    BY <1>1, <1>5, <2>1 DEF Write
<1>6. CASE Scan
  <2>1. /\ listed' = Rotated /\ due' = OnDisk /\ reader' = "primary" /\ UNCHANGED disk
        /\ found' = (primary # 0)
    BY <1>6 DEF Scan, Siblings
  <2>2. \A e \in OnDisk : \/ \E f \in Rotated : e \in lines[f]
                          \/ primary # 0 /\ e \in lines[primary]
    <3> SUFFICES ASSUME NEW f \in DOMAIN lines, NEW e \in lines[f]
                 PROVE  \/ \E g \in Rotated : e \in lines[g]
                        \/ primary # 0 /\ e \in lines[primary]
      BY DEF OnDisk
    <3>1. CASE f = primary
      BY <3>1, EventsFinite DEF TypeOK
    <3>2. CASE f # primary
      BY <3>2 DEF Rotated
    <3> QED
      BY <3>1, <3>2
  <2>3. listed' \subseteq DOMAIN lines'
    BY <2>1 DEF Rotated, disk
  <2>4. \A e \in due' : \/ \E f \in listed' : e \in lines'[f]
                        \/ found' /\ primary' # 0 /\ e \in lines'[primary']
    BY <2>1, <2>2 DEF disk
  <2> QED
    BY <2>1, <2>3, <2>4 DEF Covered
<1>7. CASE ReadPrimary
  BY <1>7 DEF ReadPrimary, Covered, disk
<1>8. CASE ReadSibling
  BY <1>8 DEF ReadSibling, Covered, disk
<1>9. CASE ReadDone
  BY <1>9 DEF ReadDone, Covered, disk
<1>10. CASE UNCHANGED vars
  BY <1>1, <1>10 DEF vars, disk
<1> QED
  BY <1>2, <1>3, <1>4, <1>5, <1>6, <1>7, <1>8, <1>9, <1>10 DEF Next

-----------------------------------------------------------------------------
(* Counting the lines of a file.                                           *)

(* A set of numbers below a bound has a greatest one, and Max is it.       *)
LEMMA Greatest ==
  ASSUME NEW N \in Nat, NEW S, S \subseteq 0..N, S # {}
  PROVE  Max(S) \in S /\ \A y \in S : y <= Max(S)
<1> DEFINE D == {N - x : x \in S}
<1>1. D \subseteq Nat /\ D # {}
  OBVIOUS
<1>2. PICK d \in D : \A e \in D : ~ (<<e, d>> \in OpToRel(<, Nat))
  <2> HIDE DEF D
  <2> QED
    BY <1>1, WFMin, NatLessThanWellFounded
<1>3. \A e \in D : ~ (e < d)
  BY <1>1, <1>2 DEF OpToRel
<1>4. PICK m \in S : d = N - m
  OBVIOUS
<1>5. \A y \in S : N - y \in D
  OBVIOUS
<1>6. \A y \in S : y \in 0..N /\ m \in 0..N
  OBVIOUS
<1>7. \A y \in S : m >= y
  BY <1>3, <1>4, <1>5, <1>6
<1>8. Max(S) \in S /\ \A y \in S : Max(S) >= y
  BY <1>7 DEF Max
<1> QED
  BY <1>6, <1>8

LEMMA NatSetInduction ==
  ASSUME NEW T, 0 \in T, \A n \in Nat : n \in T => n + 1 \in T
  PROVE  \A n \in Nat : n \in T
<1> DEFINE B == Nat \ T
<1> SUFFICES ASSUME B # {} PROVE FALSE
  OBVIOUS
<1>1. PICK n \in B : \A m \in B : ~ (<<m, n>> \in OpToRel(<, Nat))
  <2>1. B \subseteq Nat
    OBVIOUS
  <2> HIDE DEF B
  <2> QED
    BY <2>1, WFMin, NatLessThanWellFounded
<1>2. n \in Nat /\ n # 0 /\ \A m \in B : ~ (m < n)
  BY <1>1 DEF OpToRel
<1>3. n - 1 \in Nat /\ n - 1 \notin B
  BY <1>2
<1> QED
  BY <1>2, <1>3

(* Where each of k writers has K events at most, there are k * K at most.  *)
LEMMA Shares ==
  ASSUME NEW W, IsFiniteSet(W), NEW L, IsFiniteSet(L), \A e \in L : e[1] \in W,
         NEW K \in Nat, \A w \in W : Cardinality({e \in L : e[1] = w}) <= K
  PROVE  Cardinality(L) <= Cardinality(W) * K
<1> DEFINE Of(V) == {e \in L : e[1] \in V}
<1> DEFINE T == {n \in Nat : \A V \in SUBSET W :
                   Cardinality(V) = n => Cardinality(Of(V)) <= n * K}
<1>1. \A V \in SUBSET W : IsFiniteSet(V) /\ Cardinality(V) \in Nat
  BY FS_Subset, FS_CardinalityType
<1>2. \A V : IsFiniteSet(Of(V)) /\ Cardinality(Of(V)) \in Nat
  BY FS_Subset, FS_CardinalityType
<1>3. 0 \in T
  <2> SUFFICES ASSUME NEW V \in SUBSET W, Cardinality(V) = 0 PROVE Cardinality(Of(V)) <= 0 * K
    OBVIOUS
  <2>1. V = {}
    BY <1>1, FS_EmptySet
  <2>2. Of(V) = {}
    BY <2>1
  <2>3. Cardinality(Of(V)) = 0
    <3> HIDE DEF Of
    <3> QED
      BY <2>2, FS_EmptySet
  <2>4. 0 * K = 0
    OBVIOUS
  <2> HIDE DEF Of
  <2> QED
    BY <2>3, <2>4
<1>4. ASSUME NEW n \in Nat, n \in T PROVE n + 1 \in T
  <2> SUFFICES ASSUME NEW V \in SUBSET W, Cardinality(V) = n + 1
               PROVE  Cardinality(Of(V)) <= (n + 1) * K
    OBVIOUS
  <2>1. V # {}
    <3>1. Cardinality({}) = 0 /\ n + 1 # 0
      BY FS_EmptySet
    <3> HIDE DEF T
    <3> QED
      BY <3>1
  <2>2. PICK w : w \in V
    BY <2>1
  <2>3. Cardinality(V \ {w}) = n /\ V \ {w} \in SUBSET W
    <3>1. IsFiniteSet(V)
      BY <1>1
    <3>2. Cardinality(V \ {w}) = Cardinality(V) - 1
      BY <2>2, <3>1, FS_RemoveElement
    <3>3. Cardinality(V \ {w}) = n
      <4> HIDE DEF T
      <4> QED
        BY <3>2
    <3> QED
      BY <3>3
  <2>4. Cardinality(Of(V \ {w})) <= n * K
    BY <1>4, <2>3
  <2>5. Of(V) = Of(V \ {w}) \cup {e \in L : e[1] = w}
    BY <2>2
  <2>6. IsFiniteSet({e \in L : e[1] = w}) /\ Cardinality({e \in L : e[1] = w}) <= K
    BY <2>2, FS_Subset
  <2> DEFINE A == Of(V \ {w})   Z == {e \in L : e[1] = w}
  <2>7. IsFiniteSet(A) /\ Cardinality(A) \in Nat /\ Cardinality(A) <= n * K
    BY <1>2, <2>4
  <2>8. IsFiniteSet(Z) /\ Cardinality(Z) <= K
    BY <2>6
  <2>9. A \cap Z = {}
    OBVIOUS
  <2> HIDE DEF A, Z
  <2>10. Cardinality(A \cup Z) = Cardinality(A) + Cardinality(Z) /\ Cardinality(Z) \in Nat
    <3>1. Cardinality(A \cup Z) = Cardinality(A) + Cardinality(Z) - Cardinality(A \cap Z)
      BY <2>7, <2>8, FS_Union
    <3>2. Cardinality(A \cap Z) = 0 /\ Cardinality(Z) \in Nat
      BY <2>8, <2>9, FS_EmptySet, FS_CardinalityType
    <3> QED
      BY <2>7, <3>1, <3>2
  <2>11. \A a, z, p, k \in Nat : a <= p * k /\ z <= k => a + z <= (p + 1) * k
    OBVIOUS
  <2>12. Cardinality(A) + Cardinality(Z) <= (n + 1) * K
    BY <2>7, <2>8, <2>10, <2>11
  <2>13. Of(V) = A \cup Z
    BY <2>5 DEF A, Z
  <2> HIDE DEF Of
  <2> QED
    BY <2>10, <2>12, <2>13
<1>5. Cardinality(W) \in T
  <2>1. Cardinality(W) \in Nat
    BY FS_CardinalityType
  <2> HIDE DEF T
  <2> QED
    BY <1>3, <1>4, <2>1, NatSetInduction
<1>6. Of(W) = L
  OBVIOUS
<1> HIDE DEF Of
<1> QED
  BY <1>5, <1>6

LEMMA OwnFinite ==
  ASSUME TypeOK, NEW w, NEW f \in DOMAIN lines
  PROVE  IsFiniteSet(lines[f]) /\ IsFiniteSet(Own(w, f)) /\ Cardinality(Own(w, f)) \in Nat
<1>1. IsFiniteSet(lines[f])
  BY EventsFinite, FS_Subset DEF TypeOK
<1> QED
  BY <1>1, FS_Subset, FS_CardinalityType DEF Own

(* A new log is a new file.                                                *)
LEMMA FreshFile ==
  ASSUME TypeOK
  PROVE  1 + Max({0} \cup DOMAIN lines) \notin DOMAIN lines
<1> DEFINE S == {0} \cup DOMAIN lines
           N == Cardinality(Events) + 1
<1>1. N \in Nat
  BY EventsFinite, FS_CardinalityType
<1>2. S \subseteq 0..N
  BY <1>1 DEF TypeOK, Files
<1>3. S # {}
  OBVIOUS
<1>4. Max(S) \in S /\ \A y \in S : y <= Max(S)
  <2> HIDE DEF S, N
  <2> QED
    BY <1>1, <1>2, <1>3, Greatest
<1>5. Max(S) \in Nat
  BY <1>1, <1>2, <1>4
<1> HIDE DEF N
<1>6. 1 + Max(S) \notin S
  <2> HIDE DEF S
  <2> QED
    BY <1>4, <1>5
<1> QED
  BY <1>6

(* What leaves a sink's step, counter and file, and the files, alone.      *)
LEMMA StillBounded ==
  ASSUME NEW w, Bounded(w), lines' = lines,
         primary' \in {0, primary}, 0 \notin DOMAIN lines,
         pc'[w] = pc[w], bytes'[w] = bytes[w], fd'[w] = fd[w]
  PROVE  Bounded(w)'
BY DEF Bounded, Own

LEMMA RecordWithin ==
  ASSUME TypeOK, Within, NEW w \in Writers, Record(w)
  PROVE  Within'
<1> SUFFICES ASSUME NEW v \in Writers PROVE Bounded(v)'
  BY DEF Within
<1>1. Bounded(v) /\ 0 \notin DOMAIN lines
  BY EventsFinite DEF Within, TypeOK
<1>2. CASE v # w
  BY <1>1, <1>2, StillBounded DEF Record, TypeOK, Goto, disk
<1>3. CASE v = w
  <2> DEFINE b == IF bytes[w] < 0 THEN Seed ELSE bytes[w]
  <2>1. b \in Nat /\ bytes' = [bytes EXCEPT ![w] = b]
    BY SeedType DEF Record, TypeOK
  <2>2. bytes'[w] = b
    BY <2>1 DEF TypeOK
  <2>3. UNCHANGED <<lines, primary, fd>>
    BY DEF Record, disk
  <2>4. pc'[w] = IF b >= MaxLines THEN "rename" ELSE "open"
    BY <2>2 DEF Record, Goto, MustRotate, TypeOK
  <2>5. pc'[w] # "write" /\ (pc'[w] = "open" => b < MaxLines)
    BY <2>1, <2>4, LogAssumption
  <2>6. ASSUME primary \in DOMAIN lines PROVE Cardinality(Own(w, primary)) <= b
    <3>1. CASE bytes[w] < 0
      <4>1. b = Cardinality(lines[primary])
        BY <1>1, <2>6, <3>1 DEF Seed, Size
      <4>2. Own(w, primary) \subseteq lines[primary]
        BY DEF Own
      <4> QED
        BY <2>6, <4>1, <4>2, OwnFinite, FS_Subset
    <3>2. CASE ~(bytes[w] < 0)
      BY <1>1, <1>3, <2>6, <3>2 DEF Bounded, TypeOK
    <3> QED
      BY <3>1, <3>2
  <2> HIDE DEF b
  <2> QED
    BY <1>1, <1>3, <2>1, <2>2, <2>3, <2>5, <2>6 DEF Bounded, Own
<1> QED
  BY <1>2, <1>3

LEMMA RenameWithin ==
  ASSUME TypeOK, Within, NEW w \in Writers, Rename(w)
  PROVE  Within'
<1> SUFFICES ASSUME NEW v \in Writers PROVE Bounded(v)'
  BY DEF Within
<1>1. Bounded(v) /\ 0 \notin DOMAIN lines
  BY EventsFinite DEF Within, TypeOK
<1>2. CASE v # w
  BY <1>1, <1>2, StillBounded DEF Rename, Renamed, TypeOK, Goto
<1>3. CASE v = w
  <2>1. bytes'[w] = 0 /\ pc'[w] = "open" /\ lines' = lines /\ primary' = 0
    BY DEF Rename, Renamed, Goto, TypeOK
  <2> QED
    BY <1>1, <1>3, <2>1, LogAssumption DEF Bounded, Own
<1> QED
  BY <1>2, <1>3

LEMMA OpenWithin ==
  ASSUME TypeOK, Within, NEW w \in Writers, Open(w)
  PROVE  Within'
<1> SUFFICES ASSUME NEW v \in Writers PROVE Bounded(v)'
  BY DEF Within
<1>1. Bounded(v) /\ 0 \notin DOMAIN lines
  BY EventsFinite DEF Within, TypeOK
<1>2. primary' = IF primary = 0 THEN 1 + Max({0} \cup DOMAIN lines) ELSE primary
  BY DEF Open
<1>3. primary = 0 => primary' \notin DOMAIN lines
  BY <1>2, FreshFile
<1>4. /\ DOMAIN lines' = DOMAIN lines \cup {primary'}
      /\ \A f \in DOMAIN lines' : lines'[f] = IF f \in DOMAIN lines THEN lines[f] ELSE {}
      /\ bytes' = bytes
  BY DEF Open
<1>5. /\ pc[w] = "open" /\ pc'[w] = "write" /\ fd'[w] = primary'
      /\ v # w => pc'[v] = pc[v] /\ fd'[v] = fd[v]
  BY DEF Open, Goto, TypeOK
<1>6. ASSUME NEW f \in DOMAIN lines
      PROVE  Own(v, f)' = Own(v, f) /\ f \in DOMAIN lines'
  BY <1>4 DEF Own
<1>7. ASSUME NEW f \in DOMAIN lines', f \notin DOMAIN lines
      PROVE  f = primary' /\ Cardinality(Own(v, f)') = 0
  <2>1. Own(v, f)' = {}
    BY <1>4, <1>7 DEF Own
  <2> QED
    BY <1>4, <1>7, <2>1, FS_EmptySet
<1>8. pc'[v] \in {"open", "write"} => bytes'[v] \in Nat /\ bytes'[v] < MaxLines
  BY <1>1, <1>4, <1>5 DEF Bounded
<1>9. ASSUME NEW f \in DOMAIN lines'
      PROVE  /\ Cardinality(Own(v, f)') <= MaxLines
             /\ f = primary' /\ bytes'[v] >= 0 => Cardinality(Own(v, f)') <= bytes'[v]
             /\ pc'[v] = "write" /\ fd'[v] = f => Cardinality(Own(v, f)') < MaxLines
  <2>1. CASE f \notin DOMAIN lines
    BY <1>7, <2>1, LogAssumption
  <2>2. CASE f \in DOMAIN lines
    <3>1. f = primary' => f = primary
      BY <1>2, <1>3, <2>2
    <3>2. CASE v # w
      BY <1>1, <1>4, <1>5, <1>6, <2>2, <3>1, <3>2 DEF Bounded
    <3>3. CASE v = w
      <4>1. bytes[w] \in Nat /\ bytes[w] < MaxLines /\ Cardinality(Own(w, f)) \in Nat
        BY <1>1, <1>5, <2>2, <3>3, OwnFinite DEF Bounded
      <4>2. f = primary => Cardinality(Own(w, f)) <= bytes[w]
        BY <1>1, <2>2, <3>3, <4>1 DEF Bounded
      <4>3. f = primary => Cardinality(Own(w, f)) < MaxLines
        BY <4>1, <4>2, LogAssumption
      <4>4. Cardinality(Own(w, f)) <= MaxLines
        BY <1>1, <2>2, <3>3 DEF Bounded
      <4> QED
        BY <1>4, <1>5, <1>6, <2>2, <3>1, <3>3, <4>2, <4>3, <4>4
    <3> QED
      BY <3>2, <3>3
  <2> QED
    BY <2>1, <2>2
<1> QED
  BY <1>8, <1>9 DEF Bounded

LEMMA WriteWithin ==
  ASSUME TypeOK, Busy, Within, NEW w \in Writers, Write(w)
  PROVE  Within'
<1> SUFFICES ASSUME NEW v \in Writers PROVE Bounded(v)'
  BY DEF Within
<1>1. Bounded(v)
  BY DEF Within
<1>2. /\ fd[w] \in DOMAIN lines /\ DOMAIN lines' = DOMAIN lines
      /\ lines'[fd[w]] = lines[fd[w]] \cup {Event(w)}
      /\ \A f \in DOMAIN lines \ {fd[w]} : lines'[f] = lines[f]
      /\ primary' = primary /\ fd' = fd
  BY DEF Write, Busy
<1>3. /\ pc[w] = "write" /\ pc'[w] = "idle" /\ bytes'[w] = bytes[w] + 1
      /\ v # w => pc'[v] = pc[v] /\ bytes'[v] = bytes[v]
  BY DEF Write, Goto, TypeOK
<1>4. CASE v # w
  <2>1. \A f \in DOMAIN lines : Own(v, f)' = Own(v, f)
    BY <1>2, <1>4 DEF Own, Event
  <2> QED
    BY <1>1, <1>2, <1>3, <1>4, <2>1 DEF Bounded
<1>5. CASE v = w
  <2>1. bytes[w] \in Nat
    BY <1>1, <1>3, <1>5 DEF Bounded
  <2>2. ASSUME NEW f \in DOMAIN lines
        PROVE  /\ Cardinality(Own(w, f)') <= MaxLines
               /\ f = primary => Cardinality(Own(w, f)') <= bytes[w] + 1
    <3> DEFINE O == Own(w, f)
    <3>1. IsFiniteSet(O) /\ Cardinality(O) \in Nat
      BY OwnFinite
    <3>2. /\ Cardinality(O) <= MaxLines
          /\ f = primary => Cardinality(O) <= bytes[w]
          /\ fd[w] = f => Cardinality(O) < MaxLines
      BY <1>1, <1>3, <1>5, <2>1 DEF Bounded
    <3>3. CASE f = fd[w]
      <4>1. O' = O \cup {Event(w)}
        BY <1>2, <3>3 DEF Own, Event
      <4>2. Cardinality(O') <= Cardinality(O) + 1 /\ Cardinality(O') \in Nat
        <5> HIDE DEF O
        <5>1. Cardinality(O \cup {Event(w)}) =
                IF Event(w) \in O THEN Cardinality(O) ELSE Cardinality(O) + 1
          BY <3>1, FS_AddElement
        <5> QED
          BY <3>1, <4>1, <5>1
      <4> HIDE DEF O
      <4>3. Cardinality(O') <= MaxLines /\ (f = primary => Cardinality(O') <= bytes[w] + 1)
        BY <2>1, <3>1, <3>2, <3>3, <4>2, LogAssumption
      <4> QED
        BY <4>3 DEF O
    <3>4. CASE f # fd[w]
      <4>1. O' = O
        BY <1>2, <3>4 DEF Own
      <4> HIDE DEF O
      <4>2. Cardinality(O') <= MaxLines /\ (f = primary => Cardinality(O') <= bytes[w] + 1)
        BY <2>1, <3>1, <3>2, <4>1
      <4> QED
        BY <4>2 DEF O
    <3> QED
      BY <3>3, <3>4
  <2> QED
    BY <1>2, <1>3, <1>5, <2>2 DEF Bounded
<1> QED
  BY <1>4, <1>5

(* No step takes a sink past the cap in any file.                          *)
LEMMA NextWithin == TypeOK /\ Busy /\ Within /\ [Next]_vars => Within'
<1> SUFFICES ASSUME TypeOK, Busy, Within, [Next]_vars PROVE Within'
  OBVIOUS
<1>1. ASSUME NEW w \in Writers, RenameFails(w) \/ Crash(w) PROVE Within'
  <2> SUFFICES ASSUME NEW v \in Writers PROVE Bounded(v)'
    BY DEF Within
  <2>1. Bounded(v) /\ 0 \notin DOMAIN lines
    BY EventsFinite DEF Within, TypeOK
  <2>2. CASE v # w
    BY <1>1, <2>1, <2>2, StillBounded DEF RenameFails, Crash, Goto, TypeOK, disk
  <2>3. CASE v = w
    <3>1. /\ UNCHANGED <<lines, primary>> /\ pc'[w] = "idle"
          /\ bytes'[w] = bytes[w] \/ bytes'[w] = -1
      BY <1>1 DEF RenameFails, Crash, Goto, TypeOK, disk
    <3> QED
      BY <2>1, <2>3, <3>1 DEF Bounded, Own
  <2> QED
    BY <2>2, <2>3
<1>2. CASE Scan \/ ReadPrimary \/ ReadSibling \/ ReadDone \/ UNCHANGED vars
  <2>1. UNCHANGED <<disk, pc, bytes, fd>>
    BY <1>2 DEF Scan, ReadPrimary, ReadSibling, ReadDone, sinks, vars
  <2> QED
    BY <2>1 DEF disk, Within, Bounded, Own
<1> QED
  BY <1>1, <1>2, RecordWithin, RenameWithin, OpenWithin, WriteWithin DEF Next

-----------------------------------------------------------------------------
LEMMA Invariance == Spec => []IInv
<1>1. IInv /\ [Next]_vars => IInv'
  BY NextTyped, NextKept, NextCovered, NextMissing, NextWithin DEF IInv
<1> QED
  BY InitIInv, <1>1, PTL DEF Spec

(* The log, its files, the sinks and the reader keep their types.          *)
THEOREM LogTypeCorrect == Spec => []TypeOK
<1>1. IInv => TypeOK
  BY DEF IInv
<1> QED
  BY Invariance, <1>1, PTL

(* Every event a sink is done with is in exactly one file, or was given up *)
(* and is in none, whatever rotates and crashes.                           *)
THEOREM EventsKeptOnce == Spec => []KeptOnce
<1>1. IInv => KeptOnce
  <2> SUFFICES ASSUME IInv, NEW w \in Writers, NEW n \in 1..MaxEvents, n < next[w]
               PROVE  Cardinality({f \in DOMAIN lines : <<w, n>> \in lines[f]}) =
                        IF <<w, n>> \in dropped THEN 0 ELSE 1
    BY DEF KeptOnce
  <2>1. Placed(w, n)
    BY DEF IInv, Kept
  <2>2. CASE <<w, n>> \in dropped
    <3>1. {f \in DOMAIN lines : <<w, n>> \in lines[f]} = {}
      BY <2>1, <2>2 DEF Placed, Nowhere
    <3> QED
      BY <2>2, <3>1, FS_EmptySet
  <2>3. CASE <<w, n>> \notin dropped
    <3>1. PICK f \in DOMAIN lines : OnlyIn(<<w, n>>, f)
      BY <2>1, <2>3 DEF Placed
    <3>2. {g \in DOMAIN lines : <<w, n>> \in lines[g]} = {f}
      BY <3>1 DEF OnlyIn
    <3> QED
      BY <2>3, <3>2, FS_Singleton
  <2> QED
    BY <2>2, <2>3
<1> QED
  BY Invariance, <1>1, PTL

(* A reader during whose work the log is not rotated reads all that was on *)
(* disk when it started.                                                   *)
THEOREM ReaderMissesNothing == Spec => []ReadsAll
<1>1. IInv => ReadsAll
  BY DEF IInv, Covered, ReadsAll
<1> QED
  BY Invariance, <1>1, PTL

(* A sink that lives gives up an event only because another process has    *)
(* just renamed the log.                                                   *)
THEOREM DropsOnlyToRivals == Spec => DropsNeedRival
<1>1. IInv /\ [Next]_vars => [\A w \in Writers : RenameFails(w) => rotator \notin {w, "none"}]_vars
  BY DEF IInv, Missing, Rival, RenameFails
<1> QED
  BY Invariance, <1>1, PTL DEF Spec, DropsNeedRival

(* Counting each on its own, the sinks make no file grow past the cap once *)
(* for each of them, whoever crashes or renames.                           *)
THEOREM FilesStayNearTheCap == Spec => []Overrun
<1>1. IInv => Overrun
  <2> SUFFICES ASSUME IInv, NEW f \in DOMAIN lines
               PROVE  Cardinality(lines[f]) <= Cardinality(Writers) * MaxLines
    BY DEF Overrun, Size
  <2>1. TypeOK /\ Within
    BY DEF IInv
  <2>2. IsFiniteSet(lines[f]) /\ \A e \in lines[f] : e[1] \in Writers
    BY <2>1, OwnFinite DEF TypeOK, Events
  <2>3. \A w \in Writers : Cardinality({e \in lines[f] : e[1] = w}) <= MaxLines
    BY <2>1 DEF Within, Bounded, Own
  <2> QED
    BY <2>2, <2>3, Shares, LogAssumption
<1> QED
  BY Invariance, <1>1, PTL

=============================================================================
