-------------------------------- MODULE Facts --------------------------------
(***************************************************************************)
(* Facts the proofs keep needing: beginnings and ends of sequences, and    *)
(* least and greatest elements of finite sets of numbers.                  *)
(***************************************************************************)
EXTENDS FiniteSetsExt, SequenceTheorems, WellFoundedInduction, TLAPS

\* The first n elements of a sequence.
LEMMA PrefixProperties ==
  ASSUME NEW S, NEW s \in Seq(S), NEW n \in 0 .. Len(s)
  PROVE  /\ SubSeq(s, 1, n) \in Seq(S)
         /\ Len(SubSeq(s, 1, n)) = n
         /\ \A i \in 1 .. n : SubSeq(s, 1, n)[i] = s[i]
<1>1. \A i \in 1 .. n : s[i] \in S
  BY ElementOfSeq
<1> QED
  BY <1>1, SubSeqProperties

\* The elements after the first m, up to the nth.
LEMMA SegmentProperties ==
  ASSUME NEW S, NEW s \in Seq(S), NEW n \in 0 .. Len(s), NEW m \in 0 .. n
  PROVE  /\ SubSeq(s, m + 1, n) \in Seq(S)
         /\ Len(SubSeq(s, m + 1, n)) = n - m
         /\ \A i \in 1 .. (n - m) : SubSeq(s, m + 1, n)[i] = s[m + i]
<1>1. Len(s) \in Nat /\ m \in Nat /\ n \in Nat
  BY LenProperties
<1>2. ASSUME NEW i \in (m + 1) .. n PROVE s[i] \in S
  <2>1. i \in 1 .. Len(s)
    BY <1>1
  <2> QED
    BY <2>1, ElementOfSeq
<1> DEFINE a == m + 1
<1>3. /\ a \in Int /\ n \in Int /\ \A i \in a .. n : s[i] \in S
      /\ (IF a <= n THEN n - a + 1 ELSE 0) = n - m
      /\ n - a + 1 = n - m
      /\ \A i \in 1 .. (n - m) : a + i - 1 = m + i
  BY <1>1, <1>2
<1> HIDE DEF a
<1>4. /\ SubSeq(s, a, n) \in Seq(S)
      /\ Len(SubSeq(s, a, n)) = IF a <= n THEN n - a + 1 ELSE 0
      /\ \A i \in 1 .. n - a + 1 : SubSeq(s, a, n)[i] = s[a + i - 1]
  BY <1>3, SubSeqProperties
<1>5. /\ SubSeq(s, a, n) \in Seq(S)
      /\ Len(SubSeq(s, a, n)) = n - m
      /\ \A i \in 1 .. (n - m) : SubSeq(s, a, n)[i] = s[m + i]
  BY <1>3, <1>4
<1> QED
  BY <1>5 DEF a

\* A beginning of a concatenation that reaches into its second part.
LEMMA PrefixOfConcat ==
  ASSUME NEW S, NEW s \in Seq(S), NEW t \in Seq(S), NEW n \in 0 .. Len(t)
  PROVE  SubSeq(s \o t, 1, Len(s) + n) = s \o SubSeq(t, 1, n)
<1>1. /\ s \o t \in Seq(S) /\ Len(s \o t) = Len(s) + Len(t)
      /\ Len(s) \in Nat /\ Len(t) \in Nat /\ Len(s) + n \in 0 .. Len(s \o t)
  BY ConcatProperties, LenProperties
<1>2. SubSeq(t, 1, n) \in Seq(S) /\ Len(SubSeq(t, 1, n)) = n
  BY PrefixProperties
<1>3. s \o SubSeq(t, 1, n) \in Seq(S) /\ Len(s \o SubSeq(t, 1, n)) = Len(s) + n
  BY <1>1, <1>2, ConcatProperties
<1>4. SubSeq(s \o t, 1, Len(s) + n) \in Seq(S) /\ Len(SubSeq(s \o t, 1, Len(s) + n)) = Len(s) + n
  BY <1>1, PrefixProperties
<1>5. ASSUME NEW i \in 1 .. (Len(s) + n)
      PROVE  SubSeq(s \o t, 1, Len(s) + n)[i] = (s \o SubSeq(t, 1, n))[i]
  <2>1. SubSeq(s \o t, 1, Len(s) + n)[i] = (s \o t)[i]
    BY <1>1, PrefixProperties
  <2>2. (s \o t)[i] = IF i <= Len(s) THEN s[i] ELSE t[i - Len(s)]
    BY <1>1, ConcatProperties
  <2>3. (s \o SubSeq(t, 1, n))[i] = IF i <= Len(s) THEN s[i] ELSE SubSeq(t, 1, n)[i - Len(s)]
    BY <1>1, <1>2, ConcatProperties
  <2>4. ~(i <= Len(s)) => SubSeq(t, 1, n)[i - Len(s)] = t[i - Len(s)]
    BY <1>1, PrefixProperties
  <2> QED
    BY <2>1, <2>2, <2>3, <2>4
<1> QED
  BY <1>3, <1>4, <1>5, SeqEqual

\* A beginning that stays in the first part.
LEMMA PrefixOfExtended ==
  ASSUME NEW S, NEW s \in Seq(S), NEW t \in Seq(S), NEW n \in 0 .. Len(s)
  PROVE  SubSeq(s \o t, 1, n) = SubSeq(s, 1, n)
<1>1. Len(s) \in Nat /\ Len(t) \in Nat
  BY LenProperties
<1>2. CASE n = 0
  BY <1>2, SubSeqEmpty
<1>3. CASE n # 0
  <2>1. 1 \in 1 .. Len(s) /\ n \in 1 .. Len(s)
    BY <1>1, <1>3
  <2> QED
    BY <2>1, SubSeqOfConcat1
<1> QED
  BY <1>2, <1>3

\* A prefix of a prefix.
LEMMA PrefixOfPrefix ==
  ASSUME NEW S, NEW s \in Seq(S), NEW m \in 0 .. Len(s), NEW n \in 0 .. m
  PROVE  SubSeq(SubSeq(s, 1, m), 1, n) = SubSeq(s, 1, n)
<1>1. Len(s) \in Nat /\ n \in 0 .. Len(s)
  BY LenProperties
<1>2. /\ SubSeq(s, 1, m) \in Seq(S) /\ Len(SubSeq(s, 1, m)) = m
      /\ \A i \in 1 .. m : SubSeq(s, 1, m)[i] = s[i]
  BY PrefixProperties
<1>3. /\ SubSeq(s, 1, n) \in Seq(S) /\ Len(SubSeq(s, 1, n)) = n
      /\ \A i \in 1 .. n : SubSeq(s, 1, n)[i] = s[i]
  BY <1>1, PrefixProperties
<1>4. /\ SubSeq(SubSeq(s, 1, m), 1, n) \in Seq(S)
      /\ Len(SubSeq(SubSeq(s, 1, m), 1, n)) = n
      /\ \A i \in 1 .. n : SubSeq(SubSeq(s, 1, m), 1, n)[i] = SubSeq(s, 1, m)[i]
  BY <1>2, PrefixProperties
<1>5. \A i \in 1 .. n : i \in 1 .. m
  OBVIOUS
<1> QED
  BY <1>2, <1>3, <1>4, <1>5, SeqEqual

\* The end of a concatenation.
LEMMA EndOfConcat ==
  ASSUME NEW S, NEW s \in Seq(S), NEW t \in Seq(S)
  PROVE  SubSeq(s \o t, Len(s) + 1, Len(s) + Len(t)) = t
<1>1. /\ s \o t \in Seq(S) /\ Len(s \o t) = Len(s) + Len(t)
      /\ Len(s) \in Nat /\ Len(t) \in Nat
      /\ \A i \in 1 .. Len(s) + Len(t) : (s \o t)[i] = IF i <= Len(s) THEN s[i] ELSE t[i - Len(s)]
  BY ConcatProperties, LenProperties
<1> DEFINE n == Len(s) + Len(t)
<1>2. n \in 0 .. Len(s \o t) /\ Len(s) \in 0 .. n /\ n - Len(s) = Len(t)
  BY <1>1
<1> HIDE DEF n
<1>3. /\ SubSeq(s \o t, Len(s) + 1, n) \in Seq(S)
      /\ Len(SubSeq(s \o t, Len(s) + 1, n)) = Len(t)
      /\ \A i \in 1 .. Len(t) : SubSeq(s \o t, Len(s) + 1, n)[i] = (s \o t)[Len(s) + i]
  BY <1>1, <1>2, SegmentProperties
<1>4. ASSUME NEW i \in 1 .. Len(t) PROVE (s \o t)[Len(s) + i] = t[i]
  <2>1. Len(s) + i \in 1 .. Len(s) + Len(t) /\ ~(Len(s) + i <= Len(s)) /\ Len(s) + i - Len(s) = i
    BY <1>1
  <2> QED
    BY <1>1, <2>1
<1>5. SubSeq(s \o t, Len(s) + 1, n) = t
  BY <1>3, <1>4, SeqEqual
<1> QED
  BY <1>5 DEF n

\* One element more.
LEMMA OneMore ==
  ASSUME NEW S, NEW s \in Seq(S), NEW e \in S
  PROVE  /\ Append(s, e) \in Seq(S) /\ Len(Append(s, e)) = Len(s) + 1
         /\ Append(s, e) = s \o <<e>>
         /\ \A i \in 1 .. Len(s) : Append(s, e)[i] = s[i]
         /\ Append(s, e)[Len(s) + 1] = e
BY LenProperties

-----------------------------------------------------------------------------
\* The lesser of two numbers.
LEMMA MinOfTwo ==
  ASSUME NEW a \in Int, NEW b \in Int
  PROVE  Min({a, b}) = IF a <= b THEN a ELSE b
<1>1. \E x \in {a, b} : \A y \in {a, b} : x <= y
  OBVIOUS
<1>2. Min({a, b}) \in {a, b} /\ \A y \in {a, b} : Min({a, b}) <= y
  BY <1>1 DEF Min
<1> QED
  BY <1>2

\* The greater of two numbers.
LEMMA MaxOfTwo ==
  ASSUME NEW a \in Int, NEW b \in Int
  PROVE  Max({a, b}) = IF a >= b THEN a ELSE b
<1>1. \E x \in {a, b} : \A y \in {a, b} : x >= y
  OBVIOUS
<1>2. Max({a, b}) \in {a, b} /\ \A y \in {a, b} : Max({a, b}) >= y
  BY <1>1 DEF Max
<1> QED
  BY <1>2

\* The least of three numbers.
LEMMA MinOfThree ==
  ASSUME NEW a \in Int, NEW b \in Int, NEW c \in Int
  PROVE  /\ Min({a, b, c}) \in {a, b, c}
         /\ Min({a, b, c}) <= a /\ Min({a, b, c}) <= b /\ Min({a, b, c}) <= c
<1>1. \E x \in {a, b, c} : \A y \in {a, b, c} : x <= y
  OBVIOUS
<1>2. Min({a, b, c}) \in {a, b, c} /\ \A y \in {a, b, c} : Min({a, b, c}) <= y
  BY <1>1 DEF Min
<1> QED
  BY <1>2

\* A set of numbers that has a bound has a greatest element.
LEMMA MaxOfBounded ==
  ASSUME NEW n \in Nat, NEW S \in SUBSET (0 .. n), NEW e \in S
  PROVE  Max(S) \in S /\ \A y \in S : Max(S) >= y
<1> DEFINE T == {i \in Nat : n - i \in S}
<1>1. T \subseteq Nat /\ n - e \in T
  OBVIOUS
<1>2. PICK i \in T : \A j \in T : ~(<<j, i>> \in OpToRel(<, Nat))
  BY <1>1, WFMin, NatLessThanWellFounded
<1>3. ASSUME NEW y \in S PROVE n - i >= y
  <2>1. n - y \in T
    OBVIOUS
  <2>2. ~(n - y < i)
    BY <1>2, <2>1 DEF OpToRel
  <2> QED
    BY <2>2
<1>4. n - i \in S
  OBVIOUS
<1> QED
  BY <1>3, <1>4 DEF Max

-----------------------------------------------------------------------------
(***************************************************************************)
(* Recursive functions of a number: what a step preserves, all of them     *)
(* have, and there is one for every step.                                  *)
(***************************************************************************)
\* What holds first and is preserved by each step holds throughout.
LEMMA Throughout ==
  ASSUME NEW n \in Nat, NEW S, NEW f, f[0] \in S, \A i \in 1 .. n : f[i - 1] \in S => f[i] \in S
  PROVE  \A i \in 0 .. n : f[i] \in S
<1> DEFINE Bad == {i \in 0 .. n : f[i] \notin S}
<1>1. SUFFICES ASSUME Bad # {} PROVE FALSE
  OBVIOUS
<1>2. Bad \subseteq Nat /\ \E x : x \in Bad
  BY <1>1
<1>3. PICK i \in Bad : \A j \in Bad : ~(<<j, i>> \in OpToRel(<, Nat))
  <2> HIDE DEF Bad
  <2> QED
    BY <1>2, WFMin, NatLessThanWellFounded
<1>i. i \in 0 .. n /\ f[i] \notin S
  OBVIOUS
<1>4. i \in 1 .. n /\ i - 1 \in 0 .. n /\ i - 1 \in Nat /\ i - 1 < i
  <2>1. i # 0
    BY <1>i
  <2> HIDE DEF Bad
  <2> QED
    BY <1>i, <2>1
<1>5. i - 1 \in Bad
  <2>1. f[i - 1] \notin S
    BY <1>i, <1>4
  <2> QED
    BY <1>4, <2>1
<1>6. <<i - 1, i>> \in OpToRel(<, Nat)
  BY <1>4 DEF OpToRel
<1> QED
  BY <1>3, <1>5, <1>6

\* f begins with base and takes the step from each number to the next.
Recurs(f, n, S, base, step) ==
  f \in [0 .. n -> S] /\ f[0] = base /\ \A i \in 1 .. n : f[i] = step[<<f[i - 1], i>>]

\* Every step has a function that takes it.
LEMMA Recursion ==
  ASSUME NEW n \in Nat, NEW S, NEW base \in S, NEW step,
         \A x \in S, i \in 1 .. n : step[<<x, i>>] \in S
  PROVE  \E f : Recurs(f, n, S, base, step)
<1> DEFINE Good(k, f) == /\ f \in [0 .. k -> S] /\ f[0] = base
                         /\ \A i \in 1 .. k : f[i] = step[<<f[i - 1], i>>]
           Bad == {k \in 0 .. n : ~\E f : Good(k, f)}
<1>1. Bad = {}
  <2> SUFFICES ASSUME Bad # {} PROVE FALSE
    OBVIOUS
  <2>1. Bad \subseteq Nat /\ \E x : x \in Bad
    <3> HIDE DEF Good
    <3> QED
      OBVIOUS
  <2>2. PICK k \in Bad : \A j \in Bad : ~(<<j, k>> \in OpToRel(<, Nat))
    <3> HIDE DEF Bad
    <3> QED
      BY <2>1, WFMin, NatLessThanWellFounded
  <2>3. k \in 0 .. n /\ ~\E f : Good(k, f)
    <3> HIDE DEF Good
    <3> QED
      OBVIOUS
  <2>4. k # 0
    <3> DEFINE g == [i \in 0 .. 0 |-> base]
    <3>1. g \in [0 .. 0 -> S] /\ g[0] = base
      OBVIOUS
    <3>2. Good(0, g)
      BY <3>1
    <3> HIDE DEF Good
    <3> QED
      BY <2>3, <3>2
  <2>5. k \in 1 .. n /\ k - 1 \in 0 .. n /\ k - 1 \in Nat /\ k - 1 < k
    <3> HIDE DEF Good, Bad
    <3> QED
      BY <2>3, <2>4
  <2>6. \E f : Good(k - 1, f)
    <3>1. <<k - 1, k>> \in OpToRel(<, Nat)
      BY <2>5 DEF OpToRel
    <3> HIDE DEF Good
    <3> QED
      BY <2>2, <2>5, <3>1
  <2>7. PICK f : Good(k - 1, f)
    <3> HIDE DEF Good
    <3> QED
      BY <2>6
  <2> DEFINE g == [i \in 0 .. k |-> IF i = k THEN step[<<f[k - 1], k>>] ELSE f[i]]
  <2>8. f \in [0 .. (k - 1) -> S] /\ f[k - 1] \in S
    BY <2>5, <2>7
  <2>9. step[<<f[k - 1], k>>] \in S
    BY <2>5, <2>8
  <2>10. g \in [0 .. k -> S]
    BY <2>5, <2>8, <2>9
  <2>11. g[0] = base
    BY <2>5, <2>7
  <2>12. ASSUME NEW i \in 1 .. k PROVE g[i] = step[<<g[i - 1], i>>]
    <3>1. g[i - 1] = f[i - 1] /\ (i # k => g[i] = f[i] /\ i \in 1 .. (k - 1))
      BY <2>5
    <3>2. g[k] = step[<<f[k - 1], k>>]
      BY <2>5
    <3> HIDE DEF g
    <3> QED
      BY <2>7, <3>1, <3>2
  <2>13. Good(k, g)
    BY <2>10, <2>11, <2>12
  <2> HIDE DEF Good
  <2> QED
    BY <2>3, <2>13
<1>2. PICK f : Good(n, f)
  <2>1. n \in 0 .. n
    OBVIOUS
  <2>2. n \notin Bad
    BY <1>1
  <2> HIDE DEF Good
  <2> QED
    BY <2>1, <2>2
<1> QED
  BY <1>2 DEF Recurs
=============================================================================
