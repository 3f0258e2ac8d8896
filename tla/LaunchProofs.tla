---------------------------- MODULE LaunchProofs ----------------------------
(***************************************************************************)
(* Theorems about a launch: the session of `mcpfold run` (StdioSession),   *)
(* for any scripts of the two sides, any messages and any line cap, and at *)
(* the end what a sync folds for it to launch (Fold).                      *)
(*                                                                         *)
(* The argument about the session has two halves.  DrainChunk: it does not *)
(* matter how a stream is cut into chunks, so that a transport has at all  *)
(* times done what draining the stream so far at once would have done      *)
(* (Delivery, the inductive invariant).  DrainFirst and DrainAll: what     *)
(* draining makes of a stream is what the stream says.  Both are proved by *)
(* induction on the stream.                                                *)
(***************************************************************************)
EXTENDS StdioSession, Fold, Integers, SequenceTheorems, WellFoundedInduction, TLAPS

(* Induction.  The theorems of the library take the statement as an         *)
(* operator, which no prover here instantiates; a set of numbers or of      *)
(* sequences for which it holds serves as well, and that a set of numbers   *)
(* has a least one is WFMin.                                                *)

LEMMA LeastNat ==
  ASSUME NEW T, T \subseteq Nat, T # {}
  PROVE  \E n \in T : \A m \in T : n <= m
<1>1. PICK x \in T : \A y \in T : ~ (<<y, x>> \in OpToRel(<, Nat))
  BY WFMin, NatLessThanWellFounded
<1>2. \A y \in T : ~ (y < x)
  BY <1>1 DEF OpToRel
<1> QED BY <1>2

LEMMA NatSetInduction ==
  ASSUME NEW T, 0 \in T, \A n \in Nat : n \in T => n + 1 \in T
  PROVE  \A n \in Nat : n \in T
<1> DEFINE B == Nat \ T
<1> SUFFICES ASSUME B # {} PROVE FALSE
  OBVIOUS
<1>1. PICK n \in B : \A m \in B : n <= m
  <2>1. B \subseteq Nat
    BY DEF B
  <2> HIDE DEF B
  <2> QED BY <2>1, LeastNat
<1>2. n # 0
  BY <1>1
<1>3. n - 1 \in Nat /\ n - 1 \notin B
  BY <1>1, <1>2
<1> QED BY <1>3, <1>1

(* The functions a recursion from a by F computes on the first n numbers.   *)
Runs(S, a, F, n) ==
  {g \in [0 .. n -> S] : g[0] = a /\ \A i \in 0 .. n - 1 : g[i + 1] = F[i][g[i]]}

LEMMA RunsAgree ==
  ASSUME NEW S, NEW a, NEW F, NEW m \in Nat, NEW n \in Nat, m <= n,
         NEW g \in Runs(S, a, F, m), NEW h \in Runs(S, a, F, n)
  PROVE  g[m] = h[m]
<1> DEFINE T == {i \in Nat : i <= m => g[i] = h[i]}
<1>1. 0 \in T
  BY DEF Runs
<1>2. ASSUME NEW i \in Nat, i \in T PROVE i + 1 \in T
  <2> SUFFICES ASSUME i + 1 <= m PROVE g[i + 1] = h[i + 1]
    OBVIOUS
  <2>1. i \in 0 .. m - 1 /\ i \in 0 .. n - 1
    OBVIOUS
  <2>2. g[i + 1] = F[i][g[i]] /\ h[i + 1] = F[i][h[i]]
    BY <2>1 DEF Runs
  <2>3. g[i] = h[i]
    BY <1>2
  <2> QED BY <2>2, <2>3
<1>3. m \in T
  <2> HIDE DEF T
  <2> QED BY <1>1, <1>2, NatSetInduction
<1> QED BY <1>3

LEMMA RunsExist ==
  ASSUME NEW S, NEW a \in S, NEW F, \A n \in Nat, x \in S : F[n][x] \in S
  PROVE  \A n \in Nat : Runs(S, a, F, n) # {}
<1> DEFINE T == {n \in Nat : Runs(S, a, F, n) # {}}
<1>1. 0 \in T
  <2>1. [i \in 0 .. 0 |-> a] \in Runs(S, a, F, 0)
    BY DEF Runs
  <2> QED BY <2>1
<1>2. ASSUME NEW n \in Nat, n \in T PROVE n + 1 \in T
  <2>1. PICK g : g \in Runs(S, a, F, n)
    BY <1>2
  <2> DEFINE h == [i \in 0 .. n + 1 |-> IF i = n + 1 THEN F[n][g[n]] ELSE g[i]]
  <2>2. g \in [0 .. n -> S] /\ g[0] = a /\ \A i \in 0 .. n - 1 : g[i + 1] = F[i][g[i]]
    BY <2>1 DEF Runs
  <2>3. F[n][g[n]] \in S
    BY <2>2
  <2>4. h \in [0 .. n + 1 -> S]
    BY <2>2, <2>3
  <2>5. h[0] = a
    BY <2>2
  <2>6. ASSUME NEW i \in 0 .. (n + 1) - 1 PROVE h[i + 1] = F[i][h[i]]
    <3>1. i \in 0 .. n /\ i # n + 1 /\ i + 1 \in 0 .. n + 1
      OBVIOUS
    <3>2. h[i] = g[i]
      BY <3>1
    <3>3. CASE i = n
      BY <3>2, <3>3
    <3>4. CASE i # n
      <4>1. i \in 0 .. n - 1 /\ i + 1 # n + 1
        BY <3>4
      <4> QED BY <4>1, <3>1, <3>2, <2>2
    <3> QED BY <3>3, <3>4
  <2>7. h \in Runs(S, a, F, n + 1)
    <3> HIDE DEF h
    <3> QED BY <2>4, <2>5, <2>6 DEF Runs
  <2> QED BY <2>7
<1> QED
  <2> HIDE DEF T
  <2>1. \A n \in Nat : n \in T
    BY <1>1, <1>2, NatSetInduction
  <2> QED BY <2>1 DEF T

(* A recursion over the numbers has a solution: what the definition of a    *)
(* recursive function, a CHOOSE, needs to mean what it says.                *)
Computes(g, S, a, F) ==
  g \in [Nat -> S] /\ g[0] = a /\ \A n \in Nat : g[n + 1] = F[n][g[n]]

LEMMA Recursion ==
  ASSUME NEW S, NEW a \in S, NEW F, \A n \in Nat, x \in S : F[n][x] \in S
  PROVE  \E g : Computes(g, S, a, F)
<1> DEFINE run(n) == CHOOSE r : r \in Runs(S, a, F, n)
           g == [n \in Nat |-> run(n)[n]]
<1>1. \A n \in Nat : run(n) \in Runs(S, a, F, n)
  BY RunsExist
<1> HIDE DEF run
<1>2. \A n \in Nat : run(n)[n] \in S
  BY <1>1 DEF Runs
<1>3. g \in [Nat -> S]
  BY <1>2
<1>4. g[0] = a
  BY <1>1 DEF Runs
<1>5. ASSUME NEW n \in Nat PROVE g[n + 1] = F[n][g[n]]
  <2>1. run(n + 1)[n + 1] = F[n][run(n + 1)[n]]
    BY <1>1 DEF Runs
  <2>2. run(n)[n] = run(n + 1)[n]
    BY <1>1, RunsAgree
  <2> QED BY <2>1, <2>2
<1> HIDE DEF g
<1> QED BY <1>3, <1>4, <1>5 DEF Computes

LEMMA ConcatAppend ==
  ASSUME NEW S, NEW q \in Seq(S), NEW r \in Seq(S), NEW e \in S
  PROVE  q \o Append(r, e) = Append(q \o r, e)
<1>1. q \o r \in Seq(S) /\ Append(r, e) \in Seq(S) /\ <<e>> \in Seq(S)
  BY ConcatProperties, AppendProperties
<1>2. Append(r, e) = r \o <<e>> /\ Append(q \o r, e) = (q \o r) \o <<e>>
  BY <1>1, AppendIsConcat
<1>3. (q \o r) \o <<e>> = q \o (r \o <<e>>)
  BY <1>1, ConcatAssociative
<1> QED BY <1>2, <1>3

(* A set with the empty sequence that is closed under Append has them all.  *)
LEMMA SequenceInduction ==
  ASSUME NEW S, NEW T, <<>> \in T,
         \A q \in Seq(S), e \in S : q \in T => Append(q, e) \in T
  PROVE  \A q \in Seq(S) : q \in T
<1> DEFINE N == {n \in Nat : \A q \in Seq(S) : Len(q) = n => q \in T}
<1>1. 0 \in N
  <2>1. \A q \in Seq(S) : Len(q) = 0 => q = <<>>
    BY EmptySeq
  <2> QED BY <2>1
<1>2. ASSUME NEW n \in Nat, n \in N PROVE n + 1 \in N
  <2> SUFFICES ASSUME NEW q \in Seq(S), Len(q) = n + 1 PROVE q \in T
    OBVIOUS
  <2>1. SubSeq(q, 1, n) \in Seq(S) /\ Len(SubSeq(q, 1, n)) = n
    <3>1. \A i \in 1 .. n : q[i] \in S
      BY ElementOfSeq
    <3> QED BY <3>1, SubSeqProperties
  <2>2. q[n + 1] \in S
    BY ElementOfSeq
  <2>3. q = Append(SubSeq(q, 1, n), q[n + 1])
    <3>1. /\ Append(SubSeq(q, 1, n), q[n + 1]) \in Seq(S)
          /\ Len(Append(SubSeq(q, 1, n), q[n + 1])) = n + 1
          /\ \A i \in 1 .. n : Append(SubSeq(q, 1, n), q[n + 1])[i] = SubSeq(q, 1, n)[i]
          /\ Append(SubSeq(q, 1, n), q[n + 1])[n + 1] = q[n + 1]
      BY <2>1, <2>2, AppendProperties
    <3>2. \A i \in 1 .. n : SubSeq(q, 1, n)[i] = q[i]
      BY SubSeqProperties
    <3>3. \A i \in 1 .. Len(q) : q[i] = Append(SubSeq(q, 1, n), q[n + 1])[i]
      BY <3>1, <3>2
    <3> QED BY <3>1, <3>3, SeqEqual
  <2>4. SubSeq(q, 1, n) \in T
    BY <1>2, <2>1
  <2> HIDE DEF N
  <2> QED BY <2>1, <2>2, <2>3, <2>4
<1> QED
  <2> HIDE DEF N
  <2>1. \A n \in Nat : n \in N
    BY <1>1, <1>2, NatSetInduction
  <2> QED BY <2>1, LenProperties DEF N

-----------------------------------------------------------------------------
(* stdio.ts: drain *)

Drains == [out : Seq(Messages), rest : Seq(Units)]
Nothing == [out |-> <<>>, rest |-> <<>>]

LEMMA ParsedType == \A line : Parsed(line) \in Seq(Messages)
BY DEF Parsed

LEMMA DrainedType ==
  ASSUME NEW d \in Drains, NEW u \in Units
  PROVE  Drained(d, u) \in Drains
<1>1. d.out \in Seq(Messages) /\ d.rest \in Seq(Units) /\ <<>> \in Seq(Units)
  BY DEF Drains
<1>2. d.out \o Parsed(d.rest) \in Seq(Messages)
  BY <1>1, ParsedType, ConcatProperties
<1>3. Append(d.rest, u) \in Seq(Units)
  BY <1>1, AppendProperties
<1> QED BY <1>1, <1>2, <1>3 DEF Drained, Drains

(* The function that Drain is defined by exists and takes a unit at a time. *)
LEMMA DrainSteps ==
  ASSUME NEW b \in Seq(Units)
  PROVE  \E f \in [0 .. Len(b) -> Drains] :
           /\ f[0] = Nothing
           /\ \A n \in 1 .. Len(b) : f[n] = Drained(f[n - 1], b[n])
           /\ Drain(b) = f[Len(b)]
<1> DEFINE F == [n \in Nat |-> [d \in Drains |->
                   IF n + 1 \in 1 .. Len(b) THEN Drained(d, b[n + 1]) ELSE d]]
           Body(f) == [n \in 0 .. Len(b) |->
                         IF n = 0 THEN [out |-> <<>>, rest |-> <<>>] ELSE Drained(f[n - 1], b[n])]
<1>1. Len(b) \in Nat /\ \A n \in 1 .. Len(b) : b[n] \in Units
  BY LenProperties, ElementOfSeq
<1>2. Nothing \in Drains
  BY DEF Nothing, Drains
<1>3. \A n \in Nat, d \in Drains : F[n][d] \in Drains
  <2>1. ASSUME NEW n \in Nat, NEW d \in Drains
        PROVE  (IF n + 1 \in 1 .. Len(b) THEN Drained(d, b[n + 1]) ELSE d) \in Drains
    BY <1>1, DrainedType
  <2> QED BY <2>1
<1>4. PICK g : g \in [Nat -> Drains] /\ g[0] = Nothing /\ \A n \in Nat : g[n + 1] = F[n][g[n]]
  <2> HIDE DEF F
  <2>1. \E g : Computes(g, Drains, Nothing, F)
    BY <1>2, <1>3, Recursion
  <2> QED BY <2>1 DEF Computes
<1> DEFINE h == [n \in 0 .. Len(b) |-> g[n]]
<1>5. \A n \in 1 .. Len(b) : h[n] = Drained(h[n - 1], b[n])
  <2> SUFFICES ASSUME NEW n \in 1 .. Len(b) PROVE h[n] = Drained(h[n - 1], b[n])
    OBVIOUS
  <2>1. n - 1 \in Nat /\ (n - 1) + 1 = n /\ n - 1 \in 0 .. Len(b) /\ n \in 0 .. Len(b)
    BY <1>1
  <2>2. g[n] = F[n - 1][g[n - 1]]
    <3> HIDE DEF F
    <3> QED BY <1>4, <2>1
  <2>3. F[n - 1][g[n - 1]] = Drained(g[n - 1], b[n])
    BY <2>1, <1>4
  <2> QED BY <2>1, <2>2, <2>3
<1>6. h = Body(h)
  <2> DEFINE k == Body(h)
  <2>1. ASSUME NEW n \in 0 .. Len(b) PROVE h[n] = k[n]
    <3>1. CASE n = 0
      BY <3>1, <1>4, <1>1 DEF Nothing
    <3>2. CASE n # 0
      <4>1. n \in 1 .. Len(b)
        BY <3>2, <1>1
      <4>2. k[n] = Drained(h[n - 1], b[n])
        <5> HIDE DEF h
        <5> QED BY <3>2
      <4> HIDE DEF h, k
      <4> QED BY <4>1, <4>2, <1>5
    <3> QED BY <3>1, <3>2
  <2>2. k = [n \in 0 .. Len(b) |-> k[n]] /\ h = [n \in 0 .. Len(b) |-> h[n]]
    OBVIOUS
  <2> HIDE DEF h, k
  <2>3. h = k
    BY <2>1, <2>2
  <2> QED BY <2>3 DEF k
<1> DEFINE c == CHOOSE f : f = Body(f)
<1>7. c = Body(c)
  <2> HIDE DEF Body, h
  <2> QED BY <1>6
<1>8. Drain(b) = c[Len(b)]
  BY DEF Drain
<1>9. c = h
  <2> DEFINE T == {n \in Nat : n <= Len(b) => c[n] = h[n]}
  <2>0. /\ c = [n \in 0 .. Len(b) |-> c[n]]
        /\ c[0] = Nothing
        /\ \A n \in 1 .. Len(b) : c[n] = Drained(c[n - 1], b[n])
    <3> HIDE DEF c
    <3>1. c = [n \in 0 .. Len(b) |-> IF n = 0 THEN Nothing ELSE Drained(c[n - 1], b[n])]
      BY <1>7 DEF Nothing
    <3> HIDE DEF Body
    <3>2. 0 \in 0 .. Len(b) /\ \A n \in 1 .. Len(b) : n \in 0 .. Len(b) /\ n # 0
      BY <1>1
    <3>3. ASSUME NEW f, f = [n \in 0 .. Len(b) |-> IF n = 0 THEN Nothing ELSE Drained(c[n - 1], b[n])]
          PROVE  /\ f = [n \in 0 .. Len(b) |-> f[n]]
                 /\ f[0] = Nothing
                 /\ \A n \in 1 .. Len(b) : f[n] = Drained(c[n - 1], b[n])
      BY <3>2, <3>3
    <3> QED BY <3>1, <3>3
  <2>1. 0 \in T
    <3>1. h[0] = Nothing
      BY <1>1, <1>4
    <3> HIDE DEF h, c
    <3> QED BY <2>0, <3>1
  <2>2. ASSUME NEW n \in Nat, n \in T PROVE n + 1 \in T
    <3> HIDE DEF h, c
    <3> SUFFICES ASSUME n + 1 <= Len(b) PROVE c[n + 1] = h[n + 1]
      OBVIOUS
    <3>1. n + 1 \in 1 .. Len(b) /\ (n + 1) - 1 = n
      BY <1>1
    <3>2. c[n] = h[n]
      BY <2>2, <1>1
    <3> QED BY <3>1, <3>2, <2>0, <1>5
  <2>3. \A n \in 0 .. Len(b) : c[n] = h[n]
    <3>1. \A n \in Nat : n \in T
      <4> HIDE DEF T
      <4> QED BY <2>1, <2>2, NatSetInduction
    <3> HIDE DEF h, c
    <3> QED BY <3>1, <1>1
  <2>4. h = [n \in 0 .. Len(b) |-> h[n]]
    OBVIOUS
  <2> HIDE DEF h, c
  <2> QED BY <2>0, <2>3, <2>4
<1>10. h \in [0 .. Len(b) -> Drains] /\ h[0] = Nothing
  BY <1>1, <1>4
<1> HIDE DEF h, c
<1> QED BY <1>5, <1>8, <1>9, <1>10

LEMMA DrainType ==
  ASSUME NEW b \in Seq(Units)
  PROVE  Drain(b) \in Drains
BY DrainSteps, LenProperties

LEMMA DrainEmpty == Drain(<<>>) = Nothing
<1>1. <<>> \in Seq(Units) /\ Len(<<>>) = 0
  BY EmptySeq
<1> QED BY <1>1, DrainSteps

(* One unit more is one step more: drain does not look ahead.               *)
LEMMA DrainAppend ==
  ASSUME NEW b \in Seq(Units), NEW u \in Units
  PROVE  Drain(Append(b, u)) = Drained(Drain(b), u)
<1> DEFINE e == Append(b, u)
<1>1. /\ e \in Seq(Units) /\ Len(e) = Len(b) + 1 /\ Len(b) \in Nat
      /\ \A n \in 1 .. Len(b) : e[n] = b[n]
      /\ e[Len(b) + 1] = u
  BY AppendProperties, LenProperties
<1> HIDE DEF e
<1>2. PICK f \in [0 .. Len(b) -> Drains] :
        /\ f[0] = Nothing
        /\ \A n \in 1 .. Len(b) : f[n] = Drained(f[n - 1], b[n])
        /\ Drain(b) = f[Len(b)]
  BY DrainSteps
<1>3. PICK g \in [0 .. Len(e) -> Drains] :
        /\ g[0] = Nothing
        /\ \A n \in 1 .. Len(e) : g[n] = Drained(g[n - 1], e[n])
        /\ Drain(e) = g[Len(e)]
  BY <1>1, DrainSteps
<1> DEFINE T == {n \in Nat : n <= Len(b) => f[n] = g[n]}
<1>4. 0 \in T
  BY <1>2, <1>3
<1>5. ASSUME NEW n \in Nat, n \in T PROVE n + 1 \in T
  <2> SUFFICES ASSUME n + 1 <= Len(b) PROVE f[n + 1] = g[n + 1]
    OBVIOUS
  <2>1. n + 1 \in 1 .. Len(b) /\ n + 1 \in 1 .. Len(e) /\ (n + 1) - 1 = n /\ f[n] = g[n]
    BY <1>1, <1>5
  <2> QED BY <2>1, <1>1, <1>2, <1>3
<1>6. f[Len(b)] = g[Len(b)]
  <2> HIDE DEF T
  <2>1. Len(b) \in T
    BY <1>1, <1>4, <1>5, NatSetInduction
  <2> QED BY <2>1, <1>1 DEF T
<1>7. g[Len(e)] = Drained(g[Len(e) - 1], e[Len(e)]) /\ Len(e) - 1 = Len(b)
  BY <1>1, <1>3
<1> QED BY <1>1, <1>2, <1>3, <1>6, <1>7 DEF e

(* What is left over holds no newline, and nothing is made of a line that   *)
(* has not ended.                                                           *)
LEMMA RestIsUnterminated ==
  \A b \in Seq(Units) : \A n \in 1 .. Len(Drain(b).rest) : Drain(b).rest[n] # NL
<1> DEFINE T == {b \in Seq(Units) : \A n \in 1 .. Len(Drain(b).rest) : Drain(b).rest[n] # NL}
<1>1. <<>> \in T
  BY DrainEmpty, EmptySeq DEF Nothing
<1>2. ASSUME NEW b \in Seq(Units), NEW u \in Units, b \in T PROVE Append(b, u) \in T
  <2>1. Append(b, u) \in Seq(Units)
    BY AppendProperties
  <2>2. Drain(Append(b, u)) = Drained(Drain(b), u)
    BY DrainAppend
  <2>3. Drain(b).rest \in Seq(Units)
    BY DrainType DEF Drains
  <2> SUFFICES ASSUME NEW r, r = Drained(Drain(b), u).rest, NEW n \in 1 .. Len(r)
               PROVE  r[n] # NL
    BY <2>1, <2>2
  <2>4. CASE u = NL
    BY <2>4 DEF Drained
  <2>5. CASE u # NL
    <3>1. r = Append(Drain(b).rest, u)
      BY <2>5 DEF Drained
    <3> DEFINE q == Drain(b).rest
    <3>2. \A k \in 1 .. Len(q) : q[k] # NL
      BY <1>2
    <3> HIDE DEF q
    <3>3. q \in Seq(Units) /\ r = Append(q, u)
      BY <2>3, <3>1 DEF q
    <3>4. Len(r) = Len(q) + 1 /\ Len(q) \in Nat /\ r[Len(q) + 1] = u
          /\ \A k \in 1 .. Len(q) : r[k] = q[k]
      BY <3>3, AppendProperties, LenProperties
    <3> QED BY <3>2, <3>4, <2>5
  <2> QED BY <2>4, <2>5
<1> HIDE DEF T
<1>3. \A b \in Seq(Units) : b \in T
  BY <1>1, <1>2, SequenceInduction
<1> QED BY <1>3 DEF T

LEMMA DrainUnterminated ==
  ASSUME NEW b \in Seq(Units), \A n \in 1 .. Len(b) : b[n] # NL
  PROVE  Drain(b) = [out |-> <<>>, rest |-> b]
<1> DEFINE T == {q \in Seq(Units) : (\A n \in 1 .. Len(q) : q[n] # NL)
                                     => Drain(q) = [out |-> <<>>, rest |-> q]}
<1>1. <<>> \in T
  BY DrainEmpty DEF Nothing
<1>2. ASSUME NEW q \in Seq(Units), NEW u \in Units, q \in T PROVE Append(q, u) \in T
  <2>1. /\ Append(q, u) \in Seq(Units) /\ Len(Append(q, u)) = Len(q) + 1 /\ Len(q) \in Nat
        /\ Append(q, u)[Len(q) + 1] = u
        /\ \A n \in 1 .. Len(q) : Append(q, u)[n] = q[n]
    BY AppendProperties, LenProperties
  <2> SUFFICES ASSUME \A n \in 1 .. Len(Append(q, u)) : Append(q, u)[n] # NL
               PROVE  Drain(Append(q, u)) = [out |-> <<>>, rest |-> Append(q, u)]
    BY <2>1
  <2>2. u # NL
    BY <2>1
  <2>3. \A n \in 1 .. Len(q) : q[n] # NL
    BY <2>1
  <2>4. Drain(q) = [out |-> <<>>, rest |-> q]
    BY <1>2, <2>3
  <2>5. Drain(Append(q, u)) = Drained(Drain(q), u)
    BY DrainAppend
  <2> QED BY <2>2, <2>4, <2>5 DEF Drained
<1> HIDE DEF T
<1>3. b \in T
  BY <1>1, <1>2, SequenceInduction
<1> QED BY <1>3 DEF T

(* It does not matter how a stream is cut into chunks: draining a chunk     *)
(* after what the earlier ones left over comes to draining all of them.     *)
LEMMA DrainChunk ==
  ASSUME NEW b \in Seq(Units), NEW c \in Seq(Units)
  PROVE  Drain(b \o c) = [out  |-> Drain(b).out \o Drain(Drain(b).rest \o c).out,
                          rest |-> Drain(Drain(b).rest \o c).rest]
<1> DEFINE d == Drain(b)
           Claim(q) == Drain(b \o q) = [out  |-> d.out \o Drain(d.rest \o q).out,
                                        rest |-> Drain(d.rest \o q).rest]
           T == {q \in Seq(Units) : Claim(q)}
<1>1. d \in Drains /\ d.out \in Seq(Messages) /\ d.rest \in Seq(Units)
  BY DrainType DEF Drains
<1>2. Drain(d.rest) = [out |-> <<>>, rest |-> d.rest]
  BY <1>1, RestIsUnterminated, DrainUnterminated
<1> HIDE DEF d
<1>3. <<>> \in T
  <2>1. b \o <<>> = b /\ d.rest \o <<>> = d.rest /\ d.out \o <<>> = d.out
    BY <1>1, ConcatEmptySeq
  <2>2. d = [out |-> d.out, rest |-> d.rest]
    BY <1>1 DEF Drains
  <2>3. Drain(b) = d
    BY DEF d
  <2>4. <<>> \in Seq(Units)
    OBVIOUS
  <2>5. Drain(d.rest \o <<>>).out = <<>> /\ Drain(d.rest \o <<>>).rest = d.rest
    BY <1>2, <2>1
  <2>6. Claim(<<>>)
    BY <2>1, <2>2, <2>3, <2>5, Zenon
  <2> QED BY <2>4, <2>6
<1>4. ASSUME NEW q \in Seq(Units), NEW u \in Units, q \in T PROVE Append(q, u) \in T
  <2> DEFINE e == Drain(d.rest \o q)
  <2>1. b \o q \in Seq(Units) /\ d.rest \o q \in Seq(Units) /\ Append(q, u) \in Seq(Units)
    BY <1>1, ConcatProperties, AppendProperties
  <2>2. b \o Append(q, u) = Append(b \o q, u) /\ d.rest \o Append(q, u) = Append(d.rest \o q, u)
    <3>1. \A x, y \in Seq(Units) : x \o Append(y, u) = Append(x \o y, u)
      BY ConcatAppend
    <3> QED BY <1>1, <3>1, Zenon
  <2>3. e \in Drains /\ e.out \in Seq(Messages) /\ e.rest \in Seq(Units)
    BY <2>1, DrainType DEF Drains
  <2>4. Drain(d.rest \o Append(q, u)) = Drained(e, u)
    BY <2>1, <2>2, DrainAppend
  <2>5. Drain(b \o q) = [out |-> d.out \o e.out, rest |-> e.rest]
    BY <1>4
  <2>6. Drain(b \o Append(q, u)) = Drained(Drain(b \o q), u)
    BY <2>1, <2>2, DrainAppend
  <2> HIDE DEF e
  <2>7. Drained([out |-> d.out \o e.out, rest |-> e.rest], u)
          = [out |-> d.out \o Drained(e, u).out, rest |-> Drained(e, u).rest]
    <3>1. CASE u = NL
      <4>1. \A x, y, z \in Seq(Messages) : (x \o y) \o z = x \o (y \o z)
        BY ConcatAssociative
      <4>2. (d.out \o e.out) \o Parsed(e.rest) = d.out \o (e.out \o Parsed(e.rest))
        BY <4>1, <1>1, <2>3, ParsedType, Zenon
      <4> QED BY <3>1, <4>2 DEF Drained
    <3>2. CASE u # NL
      BY <3>2 DEF Drained
    <3> QED BY <3>1, <3>2
  <2> QED BY <2>1, <2>4, <2>5, <2>6, <2>7
<1> HIDE DEF T
<1>5. c \in T
  BY <1>3, <1>4, SequenceInduction
<1> QED BY <1>5 DEF T, d

-----------------------------------------------------------------------------
(* What drain makes of a stream is what the stream says.                    *)

(* A line starts at i and has not ended by n.                               *)
LineFrom(t, i, n) ==
  /\ i \in 1 .. n + 1
  /\ i = 1 \/ t[i - 1] = NL
  /\ \A k \in i .. n : t[k] # NL

(* f places the messages of q on the message lines of t that start before i.*)
Covers(f, q, t, i) ==
  /\ f \in [1 .. Len(q) -> MessageLines(t)]
  /\ \A n \in 1 .. Len(q) : q[n] = Piece(t, f[n]) /\ f[n][1] < i
  /\ \A m, n \in 1 .. Len(q) : m < n => f[m][1] < f[n][1]
  /\ \A l \in MessageLines(t) : l[1] < i => \E m \in 1 .. Len(q) : f[m] = l

LEMMA LineType ==
  ASSUME NEW t \in Seq(Units), NEW l \in MessageLines(t)
  PROVE  /\ l[1] \in 1 .. Len(t) + 1 /\ l[2] \in 0 .. Len(t) /\ l = <<l[1], l[2]>>
         /\ IsLine(t, l[1], l[2]) /\ Piece(t, l) \in Messages
BY DEF MessageLines

LEMMA CoversPlaces ==
  ASSUME NEW t \in Seq(Units), NEW q \in Seq(Messages), NEW i \in Nat, NEW f, Covers(f, q, t, i)
  PROVE  /\ f \in [DOMAIN q -> MessageLines(t)] /\ Places(f, q, t)
         /\ i > Len(t) + 1 => MessageLines(t) \subseteq Range(f)
<1>1. DOMAIN q = 1 .. Len(q) /\ Len(q) \in Nat /\ Len(t) \in Nat
  BY LenProperties
<1>2. \A l \in MessageLines(t) : l[1] \in 1 .. Len(t) + 1
  BY LineType
<1>3. f \in [DOMAIN q -> MessageLines(t)]
  BY <1>1 DEF Covers
<1>4. ASSUME NEW n \in DOMAIN q, NEW l \in MessageLines(t), l[1] < f[n][1]
      PROVE  \E m \in DOMAIN q : f[m] = l
  <2>1. f[n][1] < i /\ f[n] \in MessageLines(t)
    BY <1>1, <1>4 DEF Covers
  <2>2. l[1] < i
    BY <2>1, <1>2, <1>4
  <2> QED BY <2>2, <1>1 DEF Covers
<1>5. Places(f, q, t)
  BY <1>1, <1>4 DEF Places, Covers
<1>6. ASSUME i > Len(t) + 1, NEW l \in MessageLines(t) PROVE l \in Range(f)
  <2>1. l[1] < i
    BY <1>1, <1>2, <1>6
  <2>2. \E m \in 1 .. Len(q) : f[m] = l
    BY <2>1 DEF Covers
  <2> QED BY <2>2, <1>1, <1>3 DEF Range
<1> QED BY <1>3, <1>5, <1>6

(* Nothing starts between the start of a line and its end.                  *)
LEMMA OneLine ==
  ASSUME NEW t \in Seq(Units), NEW n \in 0 .. Len(t), NEW i \in 1 .. n + 1, LineFrom(t, i, n),
         n = Len(t) \/ t[n + 1] = NL,
         NEW l \in MessageLines(t), l[1] < n + 2
  PROVE  l[1] < i \/ l = <<i, n>>
<1>1. Len(t) \in Nat
  BY LenProperties
<1>2. /\ l[1] \in 1 .. Len(t) + 1 /\ l[2] \in 0 .. Len(t) /\ l = <<l[1], l[2]>>
      /\ IsLine(t, l[1], l[2])
  BY LineType
<1> SUFFICES ASSUME NEW a \in 1 .. Len(t) + 1, NEW z \in 0 .. Len(t),
                    a < n + 2, ~ (a < i), IsLine(t, a, z)
             PROVE  a = i /\ z = n
  BY <1>2
<1>3. /\ a <= z + 1
      /\ \A k \in a .. z : t[k] # NL
      /\ a = 1 \/ t[a - 1] = NL
      /\ z = Len(t) \/ t[z + 1] = NL
  BY DEF IsLine
<1>4. \A k \in i .. n : t[k] # NL
  BY DEF LineFrom
<1>5. a = i
  <2> SUFFICES ASSUME a # i PROVE FALSE
    OBVIOUS
  <2>1. a - 1 \in i .. n /\ a # 1
    BY <1>1
  <2> QED BY <2>1, <1>3, <1>4
<1>6. ~ (z < n)
  <2> SUFFICES ASSUME z < n PROVE FALSE
    OBVIOUS
  <2>1. z + 1 \in i .. n /\ z # Len(t)
    BY <1>1, <1>3, <1>5
  <2> QED BY <2>1, <1>3, <1>4
<1>7. ~ (z > n)
  <2> SUFFICES ASSUME z > n PROVE FALSE
    OBVIOUS
  <2>1. n + 1 \in a .. z /\ n # Len(t)
    BY <1>1, <1>5
  <2> QED BY <2>1, <1>3
<1> QED BY <1>1, <1>5, <1>6, <1>7

(* The end of a line adds the message it holds, if it holds one.            *)
LEMMA CoversLine ==
  ASSUME NEW t \in Seq(Units), NEW n \in 0 .. Len(t), NEW i \in 1 .. n + 1, LineFrom(t, i, n),
         n = Len(t) \/ t[n + 1] = NL,
         NEW q \in Seq(Messages), NEW f, Covers(f, q, t, i)
  PROVE  \E g : Covers(g, q \o Parsed(SubSeq(t, i, n)), t, n + 2)
<1> DEFINE w == SubSeq(t, i, n)
<1>1. Len(t) \in Nat /\ Len(q) \in Nat
  BY LenProperties
<1>2. \A l \in MessageLines(t) : l[1] < n + 2 => l[1] < i \/ l = <<i, n>>
  BY OneLine
<1>3. \A l \in MessageLines(t) : l[1] \in Nat
  BY <1>1, LineType
<1>4. CASE w \notin Messages
  <2>1. q \o Parsed(w) = q
    BY <1>4, ConcatEmptySeq DEF Parsed
  <2>2. ASSUME NEW l \in MessageLines(t), l[1] < n + 2
        PROVE  l[1] < i
    <3>1. l # <<i, n>>
      BY <1>4, LineType DEF Piece
    <3> QED BY <1>2, <2>2, <3>1
  <2>3. Covers(f, q, t, n + 2)
    <3>1. \A m \in 1 .. Len(q) : f[m][1] < n + 2
      <4> SUFFICES ASSUME NEW m \in 1 .. Len(q) PROVE f[m][1] < n + 2
        OBVIOUS
      <4>1. f[m] \in MessageLines(t) /\ f[m][1] < i
        BY DEF Covers
      <4> QED BY <4>1, <1>3, <1>1
    <3> QED BY <3>1, <2>2 DEF Covers
  <2> QED BY <2>1, <2>3
<1>5. CASE w \in Messages
  <2> DEFINE N == Len(q) + 1
             r == q \o Parsed(w)
             g == [m \in 1 .. N |-> IF m = N THEN <<i, n>> ELSE f[m]]
  <2>1. r = Append(q, w)
    <3>1. Parsed(w) = <<w>>
      BY <1>5 DEF Parsed
    <3> HIDE DEF w
    <3> QED BY <3>1, <1>5, AppendIsConcat
  <2>2. Len(r) = N /\ r[N] = w /\ \A m \in 1 .. Len(q) : r[m] = q[m]
    <3> HIDE DEF w
    <3> QED BY <2>1, <1>5, AppendProperties
  <2>3. <<i, n>> \in MessageLines(t)
    <3>1. <<i, n>> \in (1 .. Len(t) + 1) \X (0 .. Len(t))
      BY <1>1
    <3>2. IsLine(t, i, n)
      BY <1>1 DEF LineFrom, IsLine
    <3>3. Piece(t, <<i, n>>) = w
      BY DEF Piece
    <3> HIDE DEF w
    <3> QED BY <3>1, <3>2, <3>3, <1>5 DEF MessageLines
  <2>4. /\ f \in [1 .. Len(q) -> MessageLines(t)]
        /\ \A m \in 1 .. Len(q) : q[m] = Piece(t, f[m]) /\ f[m][1] < i
        /\ \A k, m \in 1 .. Len(q) : k < m => f[k][1] < f[m][1]
        /\ \A l \in MessageLines(t) : l[1] < i => \E m \in 1 .. Len(q) : f[m] = l
    BY DEF Covers
  <2>5. N \in 1 .. N /\ g[N] = <<i, n>>
        /\ \A m \in 1 .. Len(q) : m \in 1 .. N /\ m # N /\ g[m] = f[m]
    BY <1>1
  <2>6. g \in [1 .. N -> MessageLines(t)]
    <3>1. \A m \in 1 .. N : m # N => m \in 1 .. Len(q)
      BY <1>1
    <3> QED BY <3>1, <2>3, <2>4
  <2>7. Piece(t, <<i, n>>) = w
    BY DEF Piece
  <2> HIDE DEF w, g, r
  <2>8. ASSUME NEW m \in 1 .. N PROVE r[m] = Piece(t, g[m]) /\ g[m][1] < n + 2
    <3>1. CASE m = N
      BY <3>1, <2>2, <2>5, <2>7, <1>1
    <3>2. CASE m # N
      <4>1. m \in 1 .. Len(q)
        BY <3>2, <1>1
      <4>2. f[m] \in MessageLines(t) /\ f[m][1] < i /\ f[m][1] \in Nat
        BY <4>1, <2>4, <1>3
      <4> QED BY <4>1, <4>2, <2>2, <2>4, <2>5, <1>1
    <3> QED BY <3>1, <3>2
  <2>9. ASSUME NEW k \in 1 .. N, NEW m \in 1 .. N, k < m PROVE g[k][1] < g[m][1]
    <3>1. k \in 1 .. Len(q)
      BY <2>9, <1>1
    <3>2. CASE m = N
      BY <3>1, <3>2, <2>4, <2>5
    <3>3. CASE m # N
      <4>1. m \in 1 .. Len(q)
        BY <3>3, <1>1
      <4> QED BY <3>1, <4>1, <2>9, <2>4, <2>5
    <3> QED BY <3>2, <3>3
  <2>10. ASSUME NEW l \in MessageLines(t), l[1] < n + 2
         PROVE  \E m \in 1 .. N : g[m] = l
    <3>1. CASE l = <<i, n>>
      BY <3>1, <2>5
    <3>2. CASE l[1] < i
      BY <3>2, <2>4, <2>5
    <3> QED BY <3>1, <3>2, <2>10, <1>2
  <2>11. Covers(g, r, t, n + 2)
    BY <2>2, <2>6, <2>8, <2>9, <2>10 DEF Covers
  <2> QED BY <2>11 DEF r, w
<1> QED BY <1>4, <1>5

(* After n units of t: the line that has not ended is left over, and the    *)
(* messages of those that have are out.                                     *)
Conveyed(t, n, d) ==
  \E i \in 1 .. n + 1 : LineFrom(t, i, n) /\ d.rest = SubSeq(t, i, n) /\ \E f : Covers(f, d.out, t, i)

(* Prefixes of a stream.                                                    *)
LEMMA PrefixUnits ==
  ASSUME NEW t \in Seq(Units), NEW n \in 0 .. Len(t)
  PROVE  /\ SubSeq(t, 1, n) \in Seq(Units)
         /\ Len(SubSeq(t, 1, n)) = n
         /\ \A k \in 1 .. n : SubSeq(t, 1, n)[k] = t[k]
<1>1. Len(t) \in Nat /\ \A k \in 1 .. n : t[k] \in Units
  BY LenProperties, ElementOfSeq
<1> QED BY <1>1, SubSeqProperties

(* drain conveys a stream, by induction on how much of it there is.         *)
LEMMA DrainConveys ==
  ASSUME NEW t \in Seq(Units), NEW n \in 0 .. Len(t)
  PROVE  Conveyed(t, n, Drain(SubSeq(t, 1, n)))
<1> DEFINE T == {m \in Nat : m <= Len(t) => Conveyed(t, m, Drain(SubSeq(t, 1, m)))}
<1>0. Len(t) \in Nat
  BY LenProperties
<1>1. 0 \in T
  <2>1. SubSeq(t, 1, 0) = <<>>
    BY SubSeqEmpty
  <2>2. Drain(SubSeq(t, 1, 0)) = Nothing
    BY <2>1, DrainEmpty
  <2>3. 1 \in 1 .. 0 + 1 /\ LineFrom(t, 1, 0)
    BY DEF LineFrom
  <2>4. Nothing.rest = SubSeq(t, 1, 0) /\ Nothing.out = <<>>
    BY <2>1 DEF Nothing
  <2>5. Covers([m \in 1 .. 0 |-> <<1, 0>>], <<>>, t, 1)
    <3>1. \A l \in MessageLines(t) : ~ (l[1] < 1)
      BY <1>0, LineType
    <3>2. Len(<<>>) = 0 /\ 1 .. 0 = {}
      BY EmptySeq
    <3> QED BY <3>1, <3>2 DEF Covers
  <2>6. Conveyed(t, 0, Nothing)
    BY <2>3, <2>4, <2>5 DEF Conveyed
  <2> QED BY <2>2, <2>6
<1>2. ASSUME NEW m \in Nat, m \in T PROVE m + 1 \in T
  <2> SUFFICES ASSUME m + 1 <= Len(t) PROVE Conveyed(t, m + 1, Drain(SubSeq(t, 1, m + 1)))
    OBVIOUS
  <2> DEFINE d == Drain(SubSeq(t, 1, m))
             u == t[m + 1]
  <2>1. m \in 0 .. Len(t) /\ m + 1 \in 1 .. Len(t)
    BY <1>0
  <2>2. u \in Units /\ SubSeq(t, 1, m) \in Seq(Units)
    BY <2>1, PrefixUnits, ElementOfSeq
  <2>3. SubSeq(t, 1, m + 1) = Append(SubSeq(t, 1, m), u)
    <3>1. SubSeq(t, 1, m + 1) = SubSeq(t, 1, (m + 1) - 1) \o << t[m + 1] >>
      BY <2>1, SubSeqRecursiveSecond
    <3> QED BY <3>1, <2>2, AppendIsConcat
  <2>4. Drain(SubSeq(t, 1, m + 1)) = Drained(d, u)
    BY <2>2, <2>3, DrainAppend
  <2>5. d \in Drains /\ d.out \in Seq(Messages) /\ d.rest \in Seq(Units)
    BY <2>2, DrainType DEF Drains
  <2>6. Conveyed(t, m, d)
    BY <1>2, <2>1
  <2> HIDE DEF d
  <2>7. PICK i \in 1 .. m + 1 : LineFrom(t, i, m) /\ d.rest = SubSeq(t, i, m)
                                /\ \E f : Covers(f, d.out, t, i)
    BY <2>6 DEF Conveyed
  <2>8. PICK f : Covers(f, d.out, t, i)
    BY <2>7
  <2>9. CASE u = NL
    <3>1. PICK g : Covers(g, d.out \o Parsed(SubSeq(t, i, m)), t, m + 2)
      BY <2>1, <2>5, <2>7, <2>8, <2>9, CoversLine
    <3>2. Drained(d, u).out = d.out \o Parsed(SubSeq(t, i, m)) /\ Drained(d, u).rest = <<>>
      BY <2>7, <2>9 DEF Drained
    <3>3. m + 2 \in 1 .. (m + 1) + 1 /\ LineFrom(t, m + 2, m + 1)
      BY <2>9 DEF LineFrom
    <3>4. SubSeq(t, m + 2, m + 1) = <<>>
      BY SubSeqEmpty
    <3>5. Conveyed(t, m + 1, Drained(d, u))
      BY <3>1, <3>2, <3>3, <3>4 DEF Conveyed
    <3> QED BY <3>5, <2>4
  <2>10. CASE u # NL
    <3>1. Drained(d, u).out = d.out /\ Drained(d, u).rest = Append(d.rest, u)
      BY <2>10 DEF Drained
    <3>2. i \in 1 .. (m + 1) + 1 /\ LineFrom(t, i, m + 1)
      BY <2>7, <2>10 DEF LineFrom
    <3>3. SubSeq(t, i, m + 1) = Append(d.rest, u)
      <4>1. i \in 1 .. Len(t) /\ m + 1 \in i .. Len(t)
        BY <2>1, <1>0
      <4>2. SubSeq(t, i, m + 1) = SubSeq(t, i, (m + 1) - 1) \o << t[m + 1] >>
        BY <4>1, SubSeqRecursiveSecond
      <4> QED BY <4>2, <2>2, <2>5, <2>7, AppendIsConcat
    <3>4. Conveyed(t, m + 1, Drained(d, u))
      BY <3>1, <3>2, <3>3, <2>8 DEF Conveyed
    <3> QED BY <3>4, <2>4
  <2> QED BY <2>9, <2>10
<1>3. n \in T
  <2> HIDE DEF T
  <2> QED BY <1>0, <1>1, <1>2, NatSetInduction
<1> QED BY <1>3, <1>0

(* drain never passes on anything but what the stream says, from its start, *)
LEMMA DrainFirst ==
  ASSUME NEW t \in Seq(Units), NEW n \in 0 .. Len(t)
  PROVE  FirstMessages(Drain(SubSeq(t, 1, n)).out, t)
<1> DEFINE d == Drain(SubSeq(t, 1, n))
<1>1. d.out \in Seq(Messages)
  BY PrefixUnits, DrainType DEF Drains
<1>2. Conveyed(t, n, d)
  BY DrainConveys
<1> HIDE DEF d
<1>3. PICK i \in 1 .. n + 1 : \E f : Covers(f, d.out, t, i)
  BY <1>2 DEF Conveyed
<1>4. PICK f : Covers(f, d.out, t, i)
  BY <1>3
<1>5. i \in Nat
  OBVIOUS
<1>6. f \in [DOMAIN d.out -> MessageLines(t)] /\ Places(f, d.out, t)
  BY <1>1, <1>4, <1>5, CoversPlaces
<1>7. FirstMessages(d.out, t)
  BY <1>6 DEF FirstMessages
<1> QED BY <1>7 DEF d

(* and with the line that is left over at the end it has passed on all.     *)
LEMMA DrainAll ==
  ASSUME NEW t \in Seq(Units)
  PROVE  /\ AllMessages(Drain(t).out \o Parsed(Drain(t).rest), t)
         /\ FirstMessages(Drain(t).out \o Parsed(Drain(t).rest), t)
<1> DEFINE d == Drain(t)
           n == Len(t)
           q == d.out \o Parsed(d.rest)
<1>1. n \in Nat /\ n \in 0 .. Len(t)
  BY LenProperties
<1>2. SubSeq(t, 1, n) = t
  BY SubSeqFull
<1>3. d.out \in Seq(Messages)
  BY DrainType DEF Drains
<1>4. q \in Seq(Messages)
  BY <1>3, ParsedType, ConcatProperties
<1>5. Conveyed(t, n, d)
  BY <1>1, <1>2, DrainConveys
<1> HIDE DEF d
<1>6. PICK i \in 1 .. n + 1 : LineFrom(t, i, n) /\ d.rest = SubSeq(t, i, n)
                              /\ \E f : Covers(f, d.out, t, i)
  BY <1>5 DEF Conveyed
<1>7. PICK g : Covers(g, q, t, n + 2)
  BY <1>1, <1>3, <1>6, CoversLine
<1> HIDE DEF q
<1>8. /\ g \in [DOMAIN q -> MessageLines(t)] /\ Places(g, q, t)
      /\ MessageLines(t) \subseteq Range(g)
  BY <1>1, <1>4, <1>7, CoversPlaces
<1>9. AllMessages(q, t) /\ FirstMessages(q, t)
  BY <1>8 DEF AllMessages, FirstMessages
<1> QED BY <1>9 DEF q, d

-----------------------------------------------------------------------------
(* The session *)

Streams ==
  /\ stream \in [Sides -> AllScripts] /\ \A s \in Sides : stream[s] \in Scripts[s]
  /\ wrote \in [Sides -> Nat] /\ \A s \in Sides : wrote[s] <= Len(stream[s])
  /\ took \in [Sides -> Nat] /\ \A s \in Sides : took[s] <= wrote[s]
  /\ buffer \in [Sides -> Seq(Units)] /\ \A s \in Sides : Len(buffer[s]) <= MaxLine
  /\ passed \in [Sides -> Seq(Messages)]

Flags ==
  /\ ended \in [Sides -> BOOLEAN] /\ listening \in BOOLEAN
  /\ closed \in [Sides -> BOOLEAN]
  /\ broken \in [Sides -> BOOLEAN]
  /\ killed \in BOOLEAN
  /\ resolved \in BOOLEAN

Names ==
  /\ child \in {"running", "exited", "failed"}
  /\ reached \subseteq sent /\ waiting \subseteq sent /\ sent \subseteq Signals
  /\ cause \in {"none", "client", "server", "flood", "error", "exit"}
  /\ wrapper \in {"running", "exited", "killed", "crashed"}

LEMMA SidesOther ==
  /\ Sides = {"client", "server"}
  /\ \A s \in Sides : Other(s) \in Sides /\ Other(s) # s /\ Other(Other(s)) = s
  /\ \A s, x \in Sides : x # s => x = Other(s)
BY DEF Sides, Other

LEMMA StreamUnits ==
  ASSUME Streams, NEW s \in Sides
  PROVE  stream[s] \in Seq(Units) /\ Len(stream[s]) \in Nat
<1>1. stream[s] \in AllScripts
  BY DEF Streams
<1>2. stream[s] \in Seq(Units)
  BY <1>1, SessionAssumption
<1> QED BY <1>2, LenProperties

LEMMA PrefixSplit ==
  ASSUME NEW t \in Seq(Units), NEW m \in Nat, NEW n \in Nat, m <= n, n <= Len(t)
  PROVE  /\ SubSeq(t, m + 1, n) \in Seq(Units)
         /\ SubSeq(t, 1, n) = SubSeq(t, 1, m) \o SubSeq(t, m + 1, n)
<1>0. Len(t) \in Nat
  BY LenProperties
<1>1. \A i \in 1 .. Len(t) : t[i] \in Units
  BY ElementOfSeq
<1>2. \A i \in m + 1 .. n : t[i] \in Units
  BY <1>0, <1>1
<1>3. SubSeq(t, m + 1, n) \in Seq(Units)
  BY <1>2, SubSeqProperties
<1>4. 1 \in 1 .. Len(t) + 1 /\ m \in 1 - 1 .. Len(t) /\ n \in m .. Len(t)
  BY <1>0
<1>5. SubSeq(t, 1, m) \o SubSeq(t, m + 1, n) = SubSeq(t, 1, n)
  BY <1>4, ConcatAdjacentSubSeq
<1> QED BY <1>3, <1>5

(* A chunk, and what draining it after the buffer gives.                    *)
LEMMA Chunk ==
  ASSUME Streams, NEW s \in Sides, NEW k \in 1 .. (wrote[s] - took[s]),
         NEW c, c = SubSeq(stream[s], took[s] + 1, took[s] + k)
  PROVE  /\ c \in Seq(Units)
         /\ SubSeq(stream[s], 1, took[s]) \in Seq(Units)
         /\ SubSeq(stream[s], 1, took[s] + k) = SubSeq(stream[s], 1, took[s]) \o c
         /\ Drain(buffer[s] \o c) \in Drains
<1>1. /\ stream[s] \in Seq(Units) /\ Len(stream[s]) \in Nat
      /\ took[s] \in Nat /\ wrote[s] \in Nat /\ wrote[s] <= Len(stream[s])
      /\ buffer[s] \in Seq(Units)
  BY StreamUnits DEF Streams
<1>2. took[s] + k \in Nat /\ took[s] <= took[s] + k /\ took[s] + k <= Len(stream[s])
  <2>1. k \in Nat /\ k <= wrote[s] - took[s]
    BY <1>1
  <2>2. \A a, b, e, j \in Nat : b <= e /\ j <= b - a
                                 => a + j \in Nat /\ a <= a + j /\ a + j <= e
    OBVIOUS
  <2> QED BY <1>1, <2>1, <2>2, Zenon
<1>3. c \in Seq(Units)
  BY <1>1, <1>2, PrefixSplit
<1>4. SubSeq(stream[s], 1, took[s]) \in Seq(Units)
  BY <1>1, PrefixUnits
<1>5. SubSeq(stream[s], 1, took[s] + k) = SubSeq(stream[s], 1, took[s]) \o c
  BY <1>1, <1>2, PrefixSplit
<1>6. buffer[s] \o c \in Seq(Units)
  BY <1>1, <1>3, ConcatProperties
<1> QED BY <1>3, <1>4, <1>5, <1>6, DrainType

LEMMA PassTypes ==
  ASSUME passed \in [Sides -> Seq(Messages)], NEW s \in Sides, NEW ms \in Seq(Messages), Pass(s, ms)
  PROVE  /\ passed' \in [Sides -> Seq(Messages)]
         /\ passed'[Other(s)] = passed[Other(s)] \o ms
         /\ passed'[s] = passed[s]
<1>1. Other(s) \in Sides /\ Other(s) # s
  BY SidesOther
<1>2. passed[Other(s)] \o ms \in Seq(Messages)
  BY <1>1, ConcatProperties
<1> DEFINE entry == passed[Other(s)] \o ms
<1>3. passed' = [passed EXCEPT ![Other(s)] = entry]
  BY DEF Pass
<1> HIDE DEF entry
<1>4. entry \in Seq(Messages)
  BY <1>2 DEF entry
<1>5. passed' \in [Sides -> Seq(Messages)] /\ passed'[Other(s)] = entry /\ passed'[s] = passed[s]
  BY <1>1, <1>3, <1>4
<1> QED BY <1>5 DEF entry

LEMMA FinishStreams ==
  ASSUME Streams, NEW s \in Sides, NEW why, Finish(s, why)
  PROVE  buffer' \in [Sides -> Seq(Units)] /\ \A x \in Sides : Len(buffer'[x]) <= MaxLine
<1>1. buffer' = [x \in Sides |-> <<>>]
  BY DEF Finish
<1>2. <<>> \in Seq(Units) /\ Len(<<>>) = 0
  BY EmptySeq
<1> QED BY <1>1, <1>2, SessionAssumption

LEMMA StreamsInit ==
  ASSUME Init
  PROVE  Streams
<1>1. <<>> \in Seq(Units) /\ Len(<<>>) = 0
  BY EmptySeq
<1>2. stream \in [Sides -> AllScripts] /\ \A s \in Sides : stream[s] \in Scripts[s]
  BY DEF Init
<1>3. \A s \in Sides : Len(stream[s]) \in Nat
  BY <1>2, SessionAssumption, LenProperties
<1>4. /\ wrote = [s \in Sides |-> 0] /\ took = [s \in Sides |-> 0]
      /\ buffer = [s \in Sides |-> <<>>] /\ passed = [s \in Sides |-> <<>>]
  BY DEF Init
<1>5. <<>> \in Seq(Messages)
  OBVIOUS
<1> QED BY <1>1, <1>2, <1>3, <1>4, <1>5, SessionAssumption DEF Streams

LEMMA StreamsNext ==
  ASSUME Streams, [Next]_vars
  PROVE  Streams'
<1>1. ASSUME NEW s \in Sides, NEW k \in 1 .. Len(stream[s]), OnData(s, k)
      PROVE  Streams'
  <2> SUFFICES ASSUME NEW c, c = SubSeq(stream[s], took[s] + 1, took[s] + k),
                      NEW d, d = Drain(buffer[s] \o c)
               PROVE  Streams'
    OBVIOUS
  <2>1. /\ k \in 1 .. (wrote[s] - took[s])
        /\ took' = [took EXCEPT ![s] = took[s] + k]
        /\ Pass(s, d.out)
        /\ IF Len(d.rest) > MaxLine THEN Finish(s, "flood")
           ELSE buffer' = [buffer EXCEPT ![s] = d.rest] /\ UNCHANGED <<closed, cause>>
        /\ stream' = stream /\ wrote' = wrote
    BY <1>1 DEF OnData, peers
  <2>2. d \in Drains /\ d.out \in Seq(Messages) /\ d.rest \in Seq(Units) /\ Len(d.rest) \in Nat
    BY <2>1, Chunk, LenProperties DEF Drains
  <2>3. passed' \in [Sides -> Seq(Messages)]
    BY <2>1, <2>2, PassTypes DEF Streams
  <2>4. buffer' \in [Sides -> Seq(Units)] /\ \A x \in Sides : Len(buffer'[x]) <= MaxLine
    <3>1. CASE Len(d.rest) > MaxLine
      BY <3>1, <2>1, FinishStreams
    <3>2. CASE ~ (Len(d.rest) > MaxLine)
      <4>1. buffer' = [buffer EXCEPT ![s] = d.rest] /\ Len(d.rest) <= MaxLine
        BY <3>2, <2>1, <2>2, SessionAssumption
      <4> QED BY <4>1, <2>2 DEF Streams
    <3> QED BY <3>1, <3>2
  <2>5. took' \in [Sides -> Nat] /\ \A x \in Sides : took'[x] <= wrote'[x]
    BY <2>1 DEF Streams
  <2> QED BY <2>1, <2>3, <2>4, <2>5 DEF Streams
<1>2. ASSUME NEW s \in Sides, OnEnd(s)
      PROVE  Streams'
  <2>1. /\ Pass(s, Parsed(buffer[s])) /\ Finish(s, s)
        /\ took' = took /\ stream' = stream /\ wrote' = wrote
    BY <1>2 DEF OnEnd, peers
  <2>2. passed' \in [Sides -> Seq(Messages)]
    BY <2>1, PassTypes, ParsedType DEF Streams
  <2> QED BY <2>1, <2>2, FinishStreams DEF Streams
<1>3. ASSUME NEW s \in Sides, OnOutputError(s)
      PROVE  Streams'
  <2>1. /\ Finish(s, "error")
        /\ took' = took /\ stream' = stream /\ wrote' = wrote /\ passed' = passed
    BY <1>3 DEF OnOutputError, peers
  <2> QED BY <2>1, FinishStreams DEF Streams
<1>4. CASE OnExit
  <2>1. /\ Finish("server", "exit") /\ "server" \in Sides
        /\ took' = took /\ stream' = stream /\ wrote' = wrote /\ passed' = passed
    BY <1>4 DEF OnExit, peers, Sides
  <2> QED BY <2>1, FinishStreams DEF Streams
<1>5. ASSUME NEW s \in Sides, Writes(s)
      PROVE  Streams'
  <2>1. /\ wrote[s] < Len(stream[s]) /\ wrote' = [wrote EXCEPT ![s] = wrote[s] + 1]
        /\ UNCHANGED <<stream, took, buffer, passed>>
    BY <1>5 DEF Writes, transports
  <2>2. \A x \in Sides : Len(stream[x]) \in Nat
    BY StreamUnits
  <2> QED BY <2>1, <2>2 DEF Streams
<1>6. CASE UNCHANGED <<stream, wrote, took, buffer, passed>>
  BY <1>6 DEF Streams
<1>7. ASSUME NEW sig \in Signals, Forward(sig) \/ SendSignal(sig)
      PROVE  UNCHANGED <<stream, wrote, took, buffer, passed>>
  BY <1>7 DEF Forward, SendSignal, transports, peers
<1>8. ASSUME Leave \/ ServerReacts \/ ServerQuits \/ ClientCloses \/ ClientDies \/ KillWrapper
      PROVE  UNCHANGED <<stream, wrote, took, buffer, passed>>
  BY <1>8 DEF Leave, ServerReacts, ServerSeesEnd, ServerObeys, ServerQuits, Exits, ClientCloses,
              ClientDies, KillWrapper, transports, peers
<1>9. CASE UNCHANGED vars
  BY <1>9, <1>6 DEF vars, transports, peers
<1>10. ASSUME NEW s \in Sides, LateOutputError(s)
       PROVE  UNCHANGED <<stream, wrote, took, buffer, passed>>
  BY <1>10 DEF LateOutputError, peers
<1> QED BY <1>1, <1>2, <1>3, <1>4, <1>5, <1>6, <1>7, <1>8, <1>9, <1>10 DEF Next, WrapperStep

LEMMA FinishFlags ==
  ASSUME NEW s, NEW why, Finish(s, why)
  PROVE  /\ closed' \in [Sides -> BOOLEAN]
         /\ closed'["client"] /\ closed'["server"]
         /\ cause' = IF cause = "none" THEN why ELSE cause
BY DEF Finish, Sides

LEMMA FlagsNext ==
  ASSUME Flags, [Next]_vars
  PROVE  Flags'
<1> USE DEF Flags
<1>0. \A s \in Sides : Other(s) \in Sides
  BY SidesOther
<1>1. ASSUME NEW s \in Sides, NEW ms, Pass(s, ms)
      PROVE  broken' \in [Sides -> BOOLEAN]
  <2>1. PICK v \in BOOLEAN : v = (broken[Other(s)] \/ (ms # <<>> /\ Gone(Other(s))))
    OBVIOUS
  <2>2. broken' = [broken EXCEPT ![Other(s)] = v]
    BY <1>1, <2>1 DEF Pass
  <2> QED BY <1>0, <2>2
<1>2. ASSUME NEW s \in Sides, NEW k \in 1 .. Len(stream[s]), OnData(s, k)
      PROVE  Flags'
  <2>1. /\ closed' \in [Sides -> BOOLEAN] /\ broken' \in [Sides -> BOOLEAN]
        /\ UNCHANGED <<ended, listening, killed, resolved>>
    <3>1. PICK d : /\ Pass(s, d.out)
                   /\ IF Len(d.rest) > MaxLine THEN Finish(s, "flood")
                      ELSE closed' = closed
      BY <1>2 DEF OnData
    <3>2. closed' \in [Sides -> BOOLEAN]
      BY <3>1, FinishFlags
    <3> QED BY <1>1, <1>2, <3>1, <3>2 DEF OnData, peers, life
  <2> QED BY <2>1
<1>3. ASSUME NEW s \in Sides, OnEnd(s)
      PROVE  Flags'
  BY <1>1, <1>3, FinishFlags DEF OnEnd, peers, life
<1>4. ASSUME NEW s \in Sides, OnOutputError(s)
      PROVE  Flags'
  BY <1>4, FinishFlags DEF OnOutputError, peers, life
<1>5. CASE OnExit
  BY <1>5, FinishFlags DEF OnExit, peers
<1>6. ASSUME NEW sig \in Signals, Forward(sig)
      PROVE  Flags'
  BY <1>6 DEF Forward, transports, peers
<1>7. CASE Leave
  BY <1>7 DEF Leave, transports, peers
<1>8. CASE ServerReacts \/ ServerQuits
  BY <1>8 DEF ServerReacts, ServerSeesEnd, ServerObeys, ServerQuits, Exits, transports, life
<1>9. ASSUME NEW s \in Sides, Writes(s)
      PROVE  Flags'
  BY <1>9 DEF Writes, transports, life
<1>10. CASE ClientCloses \/ ClientDies
  BY <1>10 DEF ClientCloses, ClientDies, transports, life
<1>11. ASSUME NEW sig \in Signals, SendSignal(sig)
       PROVE  Flags'
  BY <1>11 DEF SendSignal, transports, peers
<1>12. CASE KillWrapper
  BY <1>12 DEF KillWrapper, transports, peers
<1>13. CASE UNCHANGED vars
  BY <1>13 DEF vars, transports, peers, life
<1>14. ASSUME NEW s \in Sides, LateOutputError(s)
       PROVE  Flags'
  BY <1>14 DEF LateOutputError, peers
<1> QED BY <1>2, <1>3, <1>4, <1>5, <1>6, <1>7, <1>8, <1>9, <1>10, <1>11, <1>12, <1>13, <1>14
        DEF Next, WrapperStep

LEMMA NamesNext ==
  ASSUME Names, [Next]_vars
  PROVE  Names'
<1> USE DEF Names
<1>1. ASSUME NEW s \in Sides, NEW k \in 1 .. Len(stream[s]), OnData(s, k)
      PROVE  Names'
  BY <1>1, FinishFlags DEF OnData, server, life
<1>2. ASSUME NEW s \in Sides, OnEnd(s) \/ OnOutputError(s)
      PROVE  Names'
  BY <1>2, FinishFlags DEF OnEnd, OnOutputError, server, life, Sides
<1>3. CASE OnExit
  BY <1>3, FinishFlags DEF OnExit, server
<1>4. ASSUME NEW sig \in Signals, Forward(sig) \/ SendSignal(sig)
      PROVE  Names'
  BY <1>4 DEF Forward, SendSignal, transports, server
<1>5. CASE Leave \/ KillWrapper
  BY <1>5 DEF Leave, KillWrapper, transports, server
<1>6. CASE ServerReacts \/ ServerQuits
  BY <1>6 DEF ServerReacts, ServerSeesEnd, ServerObeys, ServerQuits, Exits, transports, life
<1>7. ASSUME NEW s \in Sides, Writes(s)
      PROVE  Names'
  BY <1>7 DEF Writes, transports, server, life
<1>8. CASE ClientCloses \/ ClientDies
  BY <1>8 DEF ClientCloses, ClientDies, transports, server, life
<1>9. CASE UNCHANGED vars
  BY <1>9 DEF vars, transports, server, life
<1>10. ASSUME NEW s \in Sides, LateOutputError(s)
       PROVE  Names'
  BY <1>10 DEF LateOutputError, server
<1> QED BY <1>1, <1>2, <1>3, <1>4, <1>5, <1>6, <1>7, <1>8, <1>9, <1>10 DEF Next, WrapperStep

SessionTypes == Streams /\ Flags /\ Names

LEMMA TypesImply ==
  ASSUME SessionTypes
  PROVE  TypeOK
<1>1. \A s \in Sides : \A i \in DOMAIN passed[s] : passed[s][i] \in Messages
  <2> SUFFICES ASSUME NEW s \in Sides, NEW i \in DOMAIN passed[s] PROVE passed[s][i] \in Messages
    OBVIOUS
  <2>1. passed[s] \in Seq(Messages)
    BY DEF SessionTypes, Streams
  <2> QED BY <2>1, LenProperties, ElementOfSeq
<1>2. \A s \in Sides : /\ stream[s] \in Scripts[s]
                       /\ wrote[s] \in 0 .. Len(stream[s])
                       /\ took[s] \in 0 .. wrote[s]
                       /\ Len(buffer[s]) <= MaxLine
  BY StreamUnits DEF SessionTypes, Streams
<1> QED BY <1>1, <1>2 DEF SessionTypes, Flags, Names, TypeOK

LEMMA TypesInit ==
  ASSUME Init
  PROVE  SessionTypes
<1>1. Flags /\ Names
  BY DEF Init, Flags, Names, Sides
<1> QED BY <1>1, StreamsInit DEF SessionTypes

(* Every variable of the session has its type; a transport never holds more *)
(* of an unterminated line than the cap, and nothing is passed on that does *)
(* not parse.                                                               *)
THEOREM SessionTypesOK == Spec => []TypeOK
<1>1. Init => SessionTypes
  BY TypesInit
<1>2. SessionTypes /\ [Next]_vars => SessionTypes'
  BY StreamsNext, FlagsNext, NamesNext DEF SessionTypes
<1>3. SessionTypes => TypeOK
  BY TypesImply
<1> QED BY <1>1, <1>2, <1>3, PTL DEF Spec

(* The transports are torn down together, with a cause; the spawner         *)
(* resolves when the server is gone, and nothing else lets the process end. *)
Teardown ==
  /\ closed["client"] <=> closed["server"]
  /\ closed["client"] <=> cause # "none"
  /\ resolved => closed["server"] /\ child # "running"
  /\ wrapper = "exited" => resolved

LEMMA TeardownNext ==
  ASSUME Names, Teardown, [Next]_vars
  PROVE  Teardown'
<1> USE DEF Teardown
<1>1. ASSUME NEW s, NEW why, why # "none", Finish(s, why), UNCHANGED <<resolved, child, wrapper>>
      PROVE  Teardown'
  BY <1>1, FinishFlags
<1>2. CASE UNCHANGED <<closed, cause, resolved, child, wrapper>>
  BY <1>2
<1>3. ASSUME NEW s \in Sides, NEW k \in 1 .. Len(stream[s]), OnData(s, k)
      PROVE  Teardown'
  <2>1. /\ Finish(s, "flood") \/ UNCHANGED <<closed, cause>>
        /\ UNCHANGED <<resolved, child, wrapper>>
    BY <1>3 DEF OnData, server, life
  <2> QED BY <2>1, <1>1, <1>2
<1>4. ASSUME NEW s \in Sides, OnEnd(s) \/ OnOutputError(s)
      PROVE  Teardown'
  <2>1. /\ Finish(s, s) \/ Finish(s, "error")
        /\ UNCHANGED <<resolved, child, wrapper>>
    BY <1>4 DEF OnEnd, OnOutputError, server, life
  <2>2. s # "none" /\ "error" # "none"
    BY DEF Sides
  <2> QED BY <2>1, <2>2, <1>1
<1>5. CASE OnExit
  <2>1. Finish("server", "exit") /\ resolved' /\ child # "running" /\ UNCHANGED <<child, wrapper>>
    BY <1>5 DEF OnExit, server
  <2>2. closed'["client"] /\ closed'["server"] /\ cause' # "none"
    BY <2>1, FinishFlags
  <2> QED BY <2>1, <2>2
<1>6. ASSUME NEW sig \in Signals, Forward(sig)
      PROVE  Teardown'
  <2>1. /\ wrapper' = IF resolved /\ child = "exited" THEN "exited" ELSE wrapper
        /\ UNCHANGED <<closed, cause, resolved, child>>
    BY <1>6 DEF Forward, transports
  <2> QED BY <2>1
<1>7. CASE Leave \/ KillWrapper
  <2>1. /\ resolved \/ wrapper' = "killed"
        /\ UNCHANGED <<closed, cause, resolved, child>>
    BY <1>7 DEF Leave, KillWrapper, transports, server
  <2> QED BY <2>1
<1>8. CASE ServerReacts \/ ServerQuits
  <2>1. child' = "exited" /\ UNCHANGED <<closed, cause, resolved, wrapper>>
    BY <1>8 DEF ServerReacts, ServerSeesEnd, ServerObeys, ServerQuits, Exits, transports, life
  <2> QED BY <2>1
<1>9. ASSUME NEW s \in Sides, Writes(s)
      PROVE  Teardown'
  BY <1>9, <1>2 DEF Writes, transports, server, life
<1>10. CASE ClientCloses \/ ClientDies
  BY <1>10, <1>2 DEF ClientCloses, ClientDies, transports, server, life
<1>11. ASSUME NEW sig \in Signals, SendSignal(sig)
       PROVE  Teardown'
  BY <1>11, <1>2 DEF SendSignal, transports, server
<1>12. CASE UNCHANGED vars
  BY <1>12, <1>2 DEF vars, transports, server, life
<1>13. ASSUME NEW s \in Sides, LateOutputError(s)
       PROVE  Teardown'
  <2>1. wrapper' = "crashed" /\ UNCHANGED <<closed, cause, resolved, child>>
    BY <1>13 DEF LateOutputError, server
  <2> QED BY <2>1
<1> QED BY <1>3, <1>4, <1>5, <1>6, <1>7, <1>8, <1>9, <1>10, <1>11, <1>12, <1>13
        DEF Next, WrapperStep

(* The transports are torn down as one, and `mcpfold run` exits only after  *)
(* the server has gone and the transports are closed (unless it is killed,  *)
(* or crashes on a late write error).                                       *)
THEOREM SessionLeavesNoOrphan == Spec => []NoOrphan
<1>1. Init => Teardown
  BY DEF Init, Teardown, Sides
<1>2. Names /\ Teardown /\ [Next]_vars => Teardown'
  BY TeardownNext
<1>3. Teardown => NoOrphan
  BY DEF Teardown, NoOrphan
<1>4. Init => Names
  BY DEF Init, Names
<1>5. Names /\ [Next]_vars => Names'
  BY NamesNext
<1> QED BY <1>1, <1>2, <1>3, <1>4, <1>5, PTL DEF Spec

(* What a transport was handed is passed on or still in its buffer, until   *)
(* the end of the stream has the last line passed on too.                   *)
Handed(s) == SubSeq(stream[s], 1, took[s])
Fed(s) ==
  \/ /\ cause # s
     /\ passed[Other(s)] = Drain(Handed(s)).out
     /\ closed[s] \/ buffer[s] = Drain(Handed(s)).rest
  \/ /\ cause = s /\ ended[s] /\ took[s] = wrote[s]
     /\ passed[Other(s)] = Drain(Handed(s)).out \o Parsed(Drain(Handed(s)).rest)
Delivery == \A s \in Sides : Fed(s)

LEMMA DeliveryInit ==
  ASSUME Init
  PROVE  Delivery
<1> SUFFICES ASSUME NEW s \in Sides PROVE Fed(s)
  BY DEF Delivery
<1>1. /\ took[s] = 0 /\ passed[Other(s)] = <<>> /\ buffer[s] = <<>> /\ cause = "none"
  BY SidesOther DEF Init
<1>2. cause # s
  BY <1>1 DEF Sides
<1>3. Handed(s) = <<>>
  BY <1>1, SubSeqEmpty DEF Handed
<1>4. Drain(Handed(s)).out = <<>> /\ Drain(Handed(s)).rest = <<>>
  BY <1>3, DrainEmpty DEF Nothing
<1> QED BY <1>1, <1>2, <1>4 DEF Fed

(* A step that takes and passes on nothing of s, and tears nothing down but *)
(* for a reason other than the end of s.                                    *)
LEMMA FedKept ==
  ASSUME NEW s \in Sides, Fed(s),
         stream' = stream, took'[s] = took[s], passed'[Other(s)] = passed[Other(s)],
         closed[s] => closed'[s], closed'[s] \/ buffer'[s] = buffer[s],
         cause' = cause \/ (cause' # s /\ cause # s),
         ended[s] => ended'[s] /\ wrote'[s] = wrote[s]
  PROVE  Fed(s)'
BY DEF Fed, Handed

LEMMA FedFinish ==
  ASSUME NEW s \in Sides, Fed(s), NEW x, NEW why, why # s, Finish(x, why),
         stream' = stream, took'[s] = took[s], passed'[Other(s)] = passed[Other(s)],
         ended' = ended, wrote' = wrote
  PROVE  Fed(s)'
<1>1. closed'[s]
  BY FinishFlags DEF Sides
<1>2. cause' = cause \/ (cause' # s /\ cause # s)
  <2>1. cause' = IF cause = "none" THEN why ELSE cause
    BY FinishFlags
  <2>2. "none" # s
    BY DEF Sides
  <2> QED BY <2>1, <2>2
<1> QED BY <1>1, <1>2, FedKept

LEMMA OnDataFeeds ==
  ASSUME SessionTypes, Teardown, NEW s \in Sides, Fed(s),
         NEW k \in 1 .. Len(stream[s]), OnData(s, k)
  PROVE  Fed(s)'
<1> SUFFICES ASSUME NEW c, c = SubSeq(stream[s], took[s] + 1, took[s] + k),
                    NEW d, d = Drain(buffer[s] \o c),
                    NEW p, p = Handed(s)
             PROVE  Fed(s)'
  OBVIOUS
<1>1. /\ ~closed[s] /\ k \in 1 .. (wrote[s] - took[s])
      /\ took' = [took EXCEPT ![s] = took[s] + k]
      /\ Pass(s, d.out)
      /\ IF Len(d.rest) > MaxLine THEN Finish(s, "flood")
         ELSE buffer' = [buffer EXCEPT ![s] = d.rest] /\ UNCHANGED <<closed, cause>>
      /\ stream' = stream
  BY DEF OnData, peers
<1>2. c \in Seq(Units) /\ p \in Seq(Units) /\ d \in Drains
      /\ SubSeq(stream[s], 1, took[s] + k) = p \o c
  BY <1>1, Chunk DEF SessionTypes, Handed
<1>3. cause = "none" /\ cause # s
  <2>1. s = "client" \/ s = "server"
    BY DEF Sides
  <2> QED BY <1>1, <2>1 DEF Teardown
<1>4. passed[Other(s)] = Drain(p).out /\ buffer[s] = Drain(p).rest
  BY <1>1, <1>3 DEF Fed
<1>5. Drain(p \o c) = [out |-> Drain(p).out \o d.out, rest |-> d.rest]
  BY <1>2, <1>4, DrainChunk
<1>6. Handed(s)' = p \o c
  <2>1. took'[s] = took[s] + k
    BY <1>1 DEF SessionTypes, Streams
  <2> QED BY <1>1, <1>2, <2>1 DEF Handed
<1>7. d.out \in Seq(Messages) /\ d.rest \in Seq(Units)
  BY <1>2 DEF Drains
<1>8. passed'[Other(s)] = passed[Other(s)] \o d.out
  BY <1>1, <1>7, PassTypes DEF SessionTypes, Streams
<1>9. passed'[Other(s)] = Drain(p \o c).out
  <2> DEFINE y == Drain(p).out \o d.out
  <2>1. Drain(p \o c) = [out |-> y, rest |-> d.rest]
    BY <1>5
  <2> HIDE DEF y
  <2>2. Drain(p \o c).out = y
    BY <2>1
  <2>3. passed'[Other(s)] = y
    BY <1>4, <1>8, Zenon DEF y
  <2> QED BY <2>2, <2>3
<1>10. Drain(p \o c).rest = d.rest
  BY <1>5
<1>11. cause' # s /\ (closed'[s] \/ buffer'[s] = d.rest)
  <2>1. CASE Len(d.rest) > MaxLine
    <3>1. Finish(s, "flood")
      BY <1>1, <2>1
    <3>2. cause' = "flood" /\ closed'[s]
      BY <3>1, <1>3, FinishFlags DEF Sides
    <3> QED BY <3>2 DEF Sides
  <2>2. CASE ~ (Len(d.rest) > MaxLine)
    <3>1. buffer' = [buffer EXCEPT ![s] = d.rest] /\ cause' = cause
      BY <1>1, <2>2
    <3> QED BY <3>1, <1>3 DEF SessionTypes, Streams
  <2> QED BY <2>1, <2>2
<1> QED BY <1>6, <1>9, <1>10, <1>11 DEF Fed

LEMMA OnEndFeeds ==
  ASSUME SessionTypes, Teardown, NEW s \in Sides, Fed(s), OnEnd(s)
  PROVE  Fed(s)'
<1>1. /\ ~closed[s] /\ ended[s] /\ took[s] = wrote[s]
      /\ Pass(s, Parsed(buffer[s])) /\ Finish(s, s)
      /\ UNCHANGED <<took, stream, wrote, ended>>
  BY DEF OnEnd, peers
<1>2. cause = "none" /\ cause # s
  <2>1. s = "client" \/ s = "server"
    BY DEF Sides
  <2> QED BY <1>1, <2>1 DEF Teardown
<1>3. cause' = s
  BY <1>1, <1>2, FinishFlags
<1>4. passed[Other(s)] = Drain(Handed(s)).out /\ buffer[s] = Drain(Handed(s)).rest
  BY <1>1, <1>2 DEF Fed
<1>5. passed'[Other(s)] = passed[Other(s)] \o Parsed(buffer[s])
  BY <1>1, ParsedType, PassTypes DEF SessionTypes, Streams
<1>6. Handed(s)' = Handed(s)
  BY <1>1 DEF Handed
<1> QED BY <1>1, <1>3, <1>4, <1>5, <1>6 DEF Fed

LEMMA DeliveryNext ==
  ASSUME SessionTypes, Teardown, Delivery, [Next]_vars
  PROVE  Delivery'
<1> SUFFICES ASSUME NEW x \in Sides PROVE Fed(x)'
  BY DEF Delivery
<1>0. Fed(x)
  BY DEF Delivery
<1>1. ASSUME NEW s \in Sides, NEW k \in 1 .. Len(stream[s]), OnData(s, k)
      PROVE  Fed(x)'
  <2>1. CASE x = s
    BY <1>0, <1>1, <2>1, OnDataFeeds
  <2>2. CASE x # s
    <3> SUFFICES ASSUME NEW d, d = Drain(buffer[s] \o SubSeq(stream[s], took[s] + 1, took[s] + k))
                 PROVE  Fed(x)'
      OBVIOUS
    <3>1. /\ k \in 1 .. (wrote[s] - took[s])
          /\ took' = [took EXCEPT ![s] = took[s] + k]
          /\ Pass(s, d.out)
          /\ IF Len(d.rest) > MaxLine THEN Finish(s, "flood")
             ELSE buffer' = [buffer EXCEPT ![s] = d.rest] /\ UNCHANGED <<closed, cause>>
          /\ UNCHANGED <<stream, wrote, ended>>
      BY <1>1 DEF OnData, peers
    <3>2. d.out \in Seq(Messages)
      BY <3>1, Chunk DEF SessionTypes, Drains
    <3>3. Other(x) = s /\ took'[x] = took[x]
      BY <2>2, <3>1, SidesOther DEF SessionTypes, Streams
    <3>4. passed'[Other(x)] = passed[Other(x)]
      BY <3>1, <3>2, <3>3, PassTypes DEF SessionTypes, Streams
    <3>5. CASE Finish(s, "flood")
      <4>1. "flood" # x
        BY DEF Sides
      <4> QED BY <1>0, <3>1, <3>3, <3>4, <3>5, <4>1, FedFinish
    <3>6. CASE buffer' = [buffer EXCEPT ![s] = d.rest] /\ UNCHANGED <<closed, cause>>
      <4>1. buffer'[x] = buffer[x]
        BY <2>2, <3>6 DEF SessionTypes, Streams
      <4> QED BY <1>0, <3>1, <3>3, <3>4, <3>6, <4>1, FedKept
    <3> QED BY <3>1, <3>5, <3>6
  <2> QED BY <2>1, <2>2
<1>2. ASSUME NEW s \in Sides, OnEnd(s)
      PROVE  Fed(x)'
  <2>1. CASE x = s
    BY <1>0, <1>2, <2>1, OnEndFeeds
  <2>2. CASE x # s
    <3>1. /\ Pass(s, Parsed(buffer[s])) /\ Finish(s, s)
          /\ UNCHANGED <<took, stream, wrote, ended>>
      BY <1>2 DEF OnEnd, peers
    <3>2. Other(x) = s
      BY <2>2, SidesOther
    <3>3. passed'[Other(x)] = passed[Other(x)]
      BY <3>1, <3>2, ParsedType, PassTypes DEF SessionTypes, Streams
    <3> QED BY <1>0, <2>2, <3>1, <3>3, FedFinish
  <2> QED BY <2>1, <2>2
<1>3. ASSUME NEW s \in Sides, OnOutputError(s)
      PROVE  Fed(x)'
  <2>1. Finish(s, "error") /\ UNCHANGED <<took, passed, stream, wrote, ended>>
    BY <1>3 DEF OnOutputError, peers
  <2>2. "error" # x
    BY DEF Sides
  <2> QED BY <1>0, <2>1, <2>2, FedFinish
<1>4. CASE OnExit
  <2>1. Finish("server", "exit") /\ UNCHANGED <<took, passed, stream, wrote, ended>>
    BY <1>4 DEF OnExit, peers
  <2>2. "exit" # x
    BY DEF Sides
  <2> QED BY <1>0, <2>1, <2>2, FedFinish
<1>5. CASE UNCHANGED <<stream, took, passed, closed, buffer, cause, wrote, ended>>
  BY <1>0, <1>5, FedKept
<1>6. ASSUME NEW sig \in Signals, Forward(sig) \/ SendSignal(sig)
      PROVE  Fed(x)'
  BY <1>5, <1>6 DEF Forward, SendSignal, transports, peers
<1>7. CASE Leave \/ KillWrapper
  BY <1>5, <1>7 DEF Leave, KillWrapper, transports, peers
<1>8. ASSUME UNCHANGED <<stream, took, passed, closed, buffer, cause, wrote>>,
             NEW s \in Sides, ended' = [ended EXCEPT ![s] = TRUE]
      PROVE  Fed(x)'
  <2>1. ended[x] => ended'[x]
    BY <1>8 DEF SessionTypes, Flags
  <2> QED BY <1>0, <1>8, <2>1, FedKept
<1>9. CASE ServerReacts \/ ServerQuits
  BY <1>8, <1>9 DEF ServerReacts, ServerSeesEnd, ServerObeys, ServerQuits, Exits, transports, Sides
<1>10. CASE ClientCloses \/ ClientDies
  BY <1>8, <1>10 DEF ClientCloses, ClientDies, transports, Sides
<1>11. ASSUME NEW s \in Sides, Writes(s)
       PROVE  Fed(x)'
  <2>1. /\ ~ended[s] /\ wrote' = [wrote EXCEPT ![s] = wrote[s] + 1]
        /\ UNCHANGED <<stream, took, passed, closed, buffer, cause, ended>>
    BY <1>11 DEF Writes, transports
  <2>2. ended[x] => wrote'[x] = wrote[x]
    BY <2>1 DEF SessionTypes, Streams
  <2> QED BY <1>0, <2>1, <2>2, FedKept
<1>12. CASE UNCHANGED vars
  BY <1>5, <1>12 DEF vars, transports, peers
<1>13. ASSUME NEW s \in Sides, LateOutputError(s)
       PROVE  Fed(x)'
  BY <1>5, <1>13 DEF LateOutputError, peers
<1> QED BY <1>1, <1>2, <1>3, <1>4, <1>6, <1>7, <1>9, <1>10, <1>11, <1>12, <1>13
        DEF Next, WrapperStep

LEMMA PrefixOfPrefix ==
  ASSUME NEW t \in Seq(Units), NEW n \in 0 .. Len(t), NEW m \in 0 .. n
  PROVE  SubSeq(SubSeq(t, 1, n), 1, m) = SubSeq(t, 1, m)
<1> DEFINE p == SubSeq(t, 1, n)
<1>1. /\ p \in Seq(Units) /\ Len(p) = n /\ \A k \in 1 .. n : p[k] = t[k]
      /\ Len(t) \in Nat
  BY PrefixUnits, LenProperties
<1> HIDE DEF p
<1>2. m \in 0 .. Len(p) /\ m \in 0 .. Len(t)
  BY <1>1
<1>3. /\ SubSeq(p, 1, m) \in Seq(Units) /\ Len(SubSeq(p, 1, m)) = m
      /\ \A k \in 1 .. m : SubSeq(p, 1, m)[k] = p[k]
  BY <1>1, <1>2, PrefixUnits
<1>4. /\ SubSeq(t, 1, m) \in Seq(Units) /\ Len(SubSeq(t, 1, m)) = m
      /\ \A k \in 1 .. m : SubSeq(t, 1, m)[k] = t[k]
  BY <1>2, PrefixUnits
<1>5. \A k \in 1 .. m : SubSeq(p, 1, m)[k] = SubSeq(t, 1, m)[k]
  BY <1>1, <1>3, <1>4
<1>6. SubSeq(p, 1, m) = SubSeq(t, 1, m)
  BY <1>3, <1>4, <1>5, SeqEqual
<1> QED BY <1>6 DEF p

LEMMA DeliveryImplies ==
  ASSUME SessionTypes, Delivery
  PROVE  WholeInOrder /\ EndDelivers
<1> SUFFICES ASSUME NEW s \in Sides
             PROVE  /\ FirstMessages(passed[Other(s)], Written(s))
                    /\ cause = s => AllMessages(passed[Other(s)], Written(s))
  BY DEF WholeInOrder, EndDelivers
<1>1. /\ stream[s] \in Seq(Units) /\ Len(stream[s]) \in Nat
      /\ wrote[s] \in Nat /\ wrote[s] <= Len(stream[s]) /\ took[s] \in Nat /\ took[s] <= wrote[s]
  BY StreamUnits DEF SessionTypes, Streams
<1>2. wrote[s] \in 0 .. Len(stream[s]) /\ took[s] \in 0 .. wrote[s]
  BY <1>1
<1>3. Written(s) \in Seq(Units) /\ Len(Written(s)) = wrote[s]
  BY <1>1, <1>2, PrefixUnits DEF Written
<1>4. Handed(s) = SubSeq(Written(s), 1, took[s])
  BY <1>1, <1>2, PrefixOfPrefix DEF Written, Handed
<1>5. CASE cause # s
  <2>1. passed[Other(s)] = Drain(SubSeq(Written(s), 1, took[s])).out
    BY <1>4, <1>5 DEF Delivery, Fed
  <2> QED BY <1>2, <1>3, <1>5, <2>1, DrainFirst
<1>6. CASE cause = s
  <2>1. took[s] = wrote[s]
        /\ passed[Other(s)] = Drain(Handed(s)).out \o Parsed(Drain(Handed(s)).rest)
    BY <1>6 DEF Delivery, Fed
  <2>2. Handed(s) = Written(s)
    BY <2>1 DEF Handed, Written
  <2> QED BY <1>3, <2>1, <2>2, DrainAll
<1> QED BY <1>5, <1>6

LEMMA DeliveryInvariant == Spec => [](SessionTypes /\ Delivery)
<1>1. Init => SessionTypes /\ Teardown /\ Delivery
  BY TypesInit, DeliveryInit DEF Init, Teardown, Sides
<1>2. SessionTypes /\ Teardown /\ Delivery /\ [Next]_vars => (SessionTypes /\ Teardown /\ Delivery)'
  BY StreamsNext, FlagsNext, NamesNext, TeardownNext, DeliveryNext DEF SessionTypes
<1> QED BY <1>1, <1>2, PTL DEF Spec

(* However the streams are cut into chunks and however reads, writes, ends, *)
(* errors, signals and exits interleave, each side is sent the first        *)
(* messages the other one wrote: none torn, doubled, reordered or skipped.  *)
THEOREM SessionWholeInOrder == Spec => []WholeInOrder
<1>1. SessionTypes /\ Delivery => WholeInOrder
  BY DeliveryImplies
<1> QED BY <1>1, DeliveryInvariant, PTL

(* A session that ends with a side's stream has passed on all that side     *)
(* said, the last line without a newline included.                          *)
THEOREM SessionEndDelivers == Spec => []EndDelivers
<1>1. SessionTypes /\ Delivery => EndDelivers
  BY DeliveryImplies
<1> QED BY <1>1, DeliveryInvariant, PTL

-----------------------------------------------------------------------------
(* What is folded, and what a launch makes of it: the theorems about Fold.  *)

(* Governed is inductive as it stands: a policy or a curation that changes *)
(* leaves the file as it was and the last launch behind.                   *)

LEMMA ShimLaunchesRun ==
  ASSUME NEW a, NEW s, s.tools
  PROVE  Render(a, s).launch = "run"
BY DEF Render, ToShim, Entry

(* A policy lets through what it does not deny and, if strict, allows.     *)
LEMMA AllowedMeans ==
  ASSUME NEW p, NEW n
  PROVE  Allowed(p, n) <=> n \notin p.deny /\ (p.strict => n \in p.allow)
BY DEF Allowed

LEMMA FoldInitGoverned == FoldInit => Governed
<1> SUFFICES ASSUME FoldInit PROVE Governed
  OBVIOUS
<1>1. DOMAIN file = {} /\ seen.policy.deny = Servers /\ ran.by = "none"
  BY DEF FoldInit, DenyAll, NoRun
<1> QED
  BY <1>1 DEF Governed, Resolved

LEMMA FoldNextGoverned == Governed /\ [FoldNext]_(foldVars) => Governed'
<1> SUFFICES ASSUME Governed, [FoldNext]_(foldVars) PROVE Governed'
  OBVIOUS
<1>1. CASE Sync
  <2>1. /\ file' = [n \in Resolved(config) \ Violating |-> Render(adapter, config[n])]
        /\ seen' = [config |-> config, policy |-> policy]
        /\ ran' = NoRun
    BY <1>1 DEF Sync
  <2>2. DOMAIN file' = {n \in Resolved(seen'.config) :
                          /\ n \notin seen'.policy.deny
                          /\ seen'.policy.strict => n \in seen'.policy.allow}
    BY <2>1, AllowedMeans DEF Violating
  <2>3. \A n \in DOMAIN file' : seen'.config[n].tools => file'[n].launch = "run"
    BY <2>1, ShimLaunchesRun
  <2>4. ran'.by # "run"
    BY <2>1 DEF NoRun
  <2> QED
    BY <2>2, <2>3, <2>4 DEF Governed, Resolved
<1>2. ASSUME NEW n \in Servers, Launch(n) PROVE Governed'
  <2>1. UNCHANGED <<config, policy, file, seen>>
    BY <1>2 DEF Launch
  <2>2. ran'.by = "run" => ran'.of \notin policy.deny /\ (config[ran'.of].tools => ran'.proxied)
    <3>1. CASE file[n].launch = "run" /\ Allowed(policy, n)
      <4>1. ran'.of = n /\ ran'.proxied = config[n].tools
        BY <1>2, <3>1 DEF Launch, Run
      <4> QED
        BY <3>1, <4>1 DEF Allowed
    <3>2. CASE file[n].launch = "run" /\ ~Allowed(policy, n)
      <4>1. ran'.by = "refused"
        BY <1>2, <3>2 DEF Launch, Run, NoRun
      <4> QED
        BY <4>1
    <3>3. CASE file[n].launch # "run"
      <4>1. ran'.by = "client"
        BY <1>2, <3>3 DEF Launch, ByClient
      <4> QED
        BY <4>1
    <3> QED
      BY <3>1, <3>2, <3>3
  <2> QED
    BY <2>1, <2>2 DEF Governed, Resolved
<1>3. CASE Curate \/ \E p \in Policies : Publish(p)
  <2>1. UNCHANGED <<file, seen>> /\ ran' = NoRun
    BY <1>3 DEF Curate, Publish
  <2> QED
    BY <2>1 DEF Governed, Resolved, NoRun
<1>4. CASE UNCHANGED foldVars
  BY <1>4 DEF foldVars, Governed, Resolved
<1> QED
  BY <1>1, <1>2, <1>3, <1>4 DEF FoldNext

(* A client file holds what the policy of its sync allows, all of it; a    *)
(* curated server in it starts through `mcpfold run`, which starts nothing *)
(* that the policy in force denies, and nothing curated without its proxy. *)
THEOREM FoldedIsGoverned == FoldSpec => []Governed
BY FoldInitGoverned, FoldNextGoverned, PTL DEF FoldSpec

-----------------------------------------------------------------------------
(* SecretsKept.  A server started later gets what was written at the sync, *)
(* so the file is what has to be right; and where a server keeps its       *)
(* secrets does not change.                                                *)

Exempt(n, i) ==
  adapter.strategy = "native-input" /\ (config[n].transport = "stdio" \/ ~Whole(config[n], i))

WellWritten(n) ==
  /\ \A i \in SecretPlaces : file[n].stands[i] = "value" => adapter.strategy = "inline" /\ adapter.ignored
  /\ \/ file[n].launch = "run"
     \/ \A i \in Refs(config[n]) : file[n].stands[i] \in {"client", "value"} \/ Exempt(n, i)

Supplied ==
  ran.by \in {"run", "client"} =>
    \A i \in Refs(config[ran.of]) :
      ran.gets[i] = "value" \/ (ran.by = "client" /\ Exempt(ran.of, i))

Shape ==
  [transport : {"stdio", "remote"}, refs : [SecretPlaces -> Schemes \cup {"none"}],
   whole : BOOLEAN, tools : BOOLEAN, tagged : BOOLEAN,
   override : {"none", "shim", "native-env"}]

SecretInv ==
  /\ config \in [Servers -> Shape]
  /\ DOMAIN file \subseteq Servers
  /\ \A n \in DOMAIN file : WellWritten(n)
  /\ Supplied

LEMMA RefsArePlaces == \A s : Refs(s) \subseteq SecretPlaces
BY DEF Refs

LEMMA DirectStands ==
  ASSUME NEW a, NEW s, NEW stands, NEW i \in SecretPlaces
  PROVE  Direct(a, s, stands).stands[i] = IF i \in Refs(s) THEN stands[i] ELSE "none"
BY DEF Direct, Entry

(* What a server is written as: to `mcpfold run`, or with every secret as  *)
(* the client's or as the value, but for what VS Code's file passes        *)
(* through; the value is of the inline strategy.                           *)
LEMMA RenderKeeps ==
  ASSUME NEW a, NEW s \in Shape
  PROVE  /\ \A i \in SecretPlaces : Render(a, s).stands[i] = "value" => a.strategy = "inline"
         /\ \/ Render(a, s).launch = "run"
            \/ \A i \in Refs(s) :
                 \/ Render(a, s).stands[i] \in {"client", "value"}
                 \/ a.strategy = "native-input" /\ (s.transport = "stdio" \/ ~Whole(s, i))
<1> DEFINE r == Render(a, s)
<1>1. CASE r = ToShim
  BY <1>1 DEF ToShim, Entry, Everywhere
<1>2. CASE r = NativeInput(a, s) /\ a.strategy = "native-input"
  <2>1. \A i \in SecretPlaces : r.stands[i] = IF i \in Refs(s)
                            THEN IF Prompted(s, i) THEN "client" ELSE "ref" ELSE "none"
    BY <1>2, DirectStands DEF NativeInput
  <2> QED
    BY <1>2, <2>1, RefsArePlaces DEF Shape, Prompted
<1>3. CASE r = Inlined(a, s) /\ a.strategy = "inline"
  <2>1. \A i \in SecretPlaces : r.stands[i] = IF i \in Refs(s) THEN "value" ELSE "none"
    BY <1>3, DirectStands DEF Inlined, Everywhere
  <2> QED
    BY <1>3, <2>1, RefsArePlaces
<1>4. CASE r = Direct(a, s, Everywhere("none")) /\ Refs(s) = {}
  <2>1. \A i \in SecretPlaces : r.stands[i] = "none"
    BY <1>4, DirectStands
  <2> QED
    BY <1>4, <2>1
<1>5. CASE r = ToNativeEnv(a, s) /\ EnvOnly(s)
  <2>1. \A i \in SecretPlaces : r.stands[i] = IF i \in Refs(s)
                            THEN IF s.refs[i] = "env" THEN "client" ELSE "ref" ELSE "none"
    BY <1>5, DirectStands DEF ToNativeEnv
  <2> QED
    BY <1>5, <2>1, RefsArePlaces DEF EnvOnly
<1>6. \/ r = ToShim
      \/ r = NativeInput(a, s) /\ a.strategy = "native-input"
      \/ r = Inlined(a, s) /\ a.strategy = "inline"
      \/ r = Direct(a, s, Everywhere("none")) /\ Refs(s) = {}
      \/ r = ToNativeEnv(a, s) /\ EnvOnly(s)
  BY DEF Render, TransformSecret
<1> QED
  BY <1>1, <1>2, <1>3, <1>4, <1>5, <1>6

LEMMA FoldInitSecret == FoldInit => SecretInv
<1> SUFFICES ASSUME FoldInit PROVE SecretInv
  OBVIOUS
<1>1. config \in [Servers -> Shape]
  BY FoldAssumption DEF FoldInit, Shape, SecretPlaces, Schemes
<1>2. DOMAIN file = {} /\ ran.by = "none"
  BY DEF FoldInit, NoRun
<1> QED
  BY <1>1, <1>2 DEF SecretInv, Supplied

LEMMA FoldNextSecret == SecretInv /\ [FoldNext]_(foldVars) => SecretInv'
<1> SUFFICES ASSUME SecretInv, [FoldNext]_(foldVars) PROVE SecretInv'
  OBVIOUS
<1>1. CASE Sync
  <2>1. /\ file' = [n \in Resolved(config) \ Violating |-> Render(adapter, config[n])]
        /\ ran'.by = "none" /\ UNCHANGED <<config, adapter>>
        /\ adapter.strategy = "inline" => adapter.ignored
    BY <1>1 DEF Sync, NoRun
  <2>2. DOMAIN file' \subseteq Servers
    BY <2>1 DEF Resolved
  <2>3. ASSUME NEW n \in DOMAIN file'
        PROVE  WellWritten(n)'
    <3>1. file'[n] = Render(adapter, config[n]) /\ config[n] \in Shape
      BY <2>1, <2>2, <2>3 DEF SecretInv
    <3> QED
      BY <2>1, <3>1, RenderKeeps DEF WellWritten, Exempt
  <2> QED
    BY <2>1, <2>2, <2>3 DEF SecretInv, Supplied
<1>2. ASSUME NEW n \in Servers, Launch(n) PROVE SecretInv'
  <2>1. UNCHANGED <<config, adapter, file>> /\ n \in DOMAIN file
    BY <1>2 DEF Launch
  <2>2. Supplied'
    <3>1. CASE file[n].launch = "run" /\ Allowed(policy, n)
      <4>1. ran'.of = n /\ \A i \in Refs(config[n]) : ran'.gets[i] = "value"
        BY <1>2, <3>1, RefsArePlaces DEF Launch, Run
      <4> QED
        BY <2>1, <4>1 DEF Supplied
    <3>2. CASE file[n].launch = "run" /\ ~Allowed(policy, n)
      <4>1. ran'.by = "refused"
        BY <1>2, <3>2 DEF Launch, Run, NoRun
      <4> QED
        BY <4>1 DEF Supplied
    <3>3. CASE file[n].launch # "run"
      <4>1. /\ ran'.of = n /\ ran'.by = "client"
            /\ \A i \in SecretPlaces : ran'.gets[i] =
                 IF file[n].stands[i] = "client" THEN "value" ELSE file[n].stands[i]
        BY <1>2, <3>3 DEF Launch, ByClient
      <4>2. \A i \in Refs(config[n]) : file[n].stands[i] \in {"client", "value"} \/ Exempt(n, i)
        BY <2>1, <3>3 DEF SecretInv, WellWritten
      <4>3. \A i \in Refs(config[n]) : ran'.gets[i] = "value" \/ Exempt(n, i)
        BY <4>1, <4>2, RefsArePlaces
      <4>4. \A i \in Refs(config[n]) : Exempt(n, i) => Exempt(n, i)'
        BY <2>1 DEF Exempt
      <4> QED
        BY <2>1, <4>1, <4>3, <4>4 DEF Supplied
    <3> QED
      BY <3>1, <3>2, <3>3
  <2> QED
    BY <2>1, <2>2 DEF SecretInv, WellWritten, Exempt
<1>3. CASE Curate
  <2>1. UNCHANGED <<adapter, file>> /\ ran'.by = "none"
    BY <1>3 DEF Curate, NoRun
  <2>2. /\ config' \in [Servers -> Shape]
        /\ \A n \in Servers : config'[n].refs = config[n].refs
                              /\ config'[n].transport = config[n].transport
                              /\ config'[n].whole = config[n].whole
    BY <1>3 DEF Curate, SecretInv, Shape, Servers
  <2>3. \A n \in Servers : /\ Refs(config'[n]) = Refs(config[n])
                           /\ \A i : Whole(config'[n], i) <=> Whole(config[n], i)
    BY <2>2 DEF Refs, Whole
  <2> QED
    BY <2>1, <2>2, <2>3 DEF SecretInv, WellWritten, Exempt, Supplied
<1>4. CASE \E p \in Policies : Publish(p)
  <2>1. UNCHANGED <<config, adapter, file>> /\ ran'.by = "none"
    BY <1>4 DEF Publish, NoRun
  <2> QED
    BY <2>1 DEF SecretInv, WellWritten, Exempt, Supplied
<1>5. CASE UNCHANGED foldVars
  BY <1>5 DEF foldVars, SecretInv, WellWritten, Exempt, Supplied
<1> QED
  BY <1>1, <1>2, <1>3, <1>4, <1>5 DEF FoldNext

(* The value of a secret is in a client file only under the inline strategy*)
(* and where git ignores the file; and a server that starts gets every     *)
(* secret it refers to, whoever folded it and whatever changed since, but  *)
(* for the references that VS Code's file holds as they are.               *)
THEOREM SecretsReachTheServer == FoldSpec => []SecretsKept
<1>1. SecretInv => SecretsKept
  BY DEF SecretInv, SecretsKept, WellWritten, Supplied, Exempt
<1> QED
  BY <1>1, FoldInitSecret, FoldNextSecret, PTL DEF FoldSpec

=============================================================================
