---------------------------- MODULE RecurrentProofs ----------------------------
(***************************************************************************)
(* The causal convolution takes a text in chunks: what its halo holds and  *)
(* what a row reads do not depend on how the text was cut, for every       *)
(* kernel and dilation.                                                    *)
(***************************************************************************)
EXTENDS Recurrent, Facts

\* A halo moved by one chunk and then another is moved by both.
LEMMA ShiftConcat ==
  ASSUME NEW R, NEW h, NEW x \in Seq(R), NEW y \in Seq(R)
  PROVE  Shift(Shift(h, x), y) = Shift(h, x \o y)
<1> DEFINE m == Len(x)
           n == Len(y)
           both == x \o y
           mid == Shift(h, x)
<1>1. Halo \in Nat /\ m \in Nat /\ n \in Nat
  <2>1. Kernel - 1 \in Nat /\ Dilation \in Nat /\ m \in Nat /\ n \in Nat
    BY RecurrentAssumption, LenProperties
  <2> QED
    BY <2>1, SMT DEF Halo
<1>2. /\ Len(both) = m + n
      /\ \A i \in 1 .. (m + n) : both[i] = IF i <= m THEN x[i] ELSE y[i - m]
  BY ConcatProperties
<1>3. \A r \in 1 .. Halo : mid[r] = IF r <= Halo - m THEN h[r + m] ELSE x[m - (Halo - r)]
  BY DEF Shift
<1> HIDE DEF both, mid
<1>4. ASSUME NEW r \in 1 .. Halo
      PROVE  (IF r <= Halo - n THEN mid[r + n] ELSE y[n - (Halo - r)])
             = (IF r <= Halo - (m + n) THEN h[r + (m + n)] ELSE both[(m + n) - (Halo - r)])
  <2> HIDE DEF m, n
  <2>1. CASE r <= Halo - (m + n)
    <3>1. r <= Halo - n /\ r + n \in 1 .. Halo /\ r + n <= Halo - m /\ r + n + m = r + (m + n)
      BY <1>1, <2>1
    <3>2. mid[r + n] = h[r + (m + n)]
      BY <1>3, <3>1
    <3> QED
      BY <2>1, <3>1, <3>2
  <2>2. CASE ~(r <= Halo - (m + n)) /\ r <= Halo - n
    <3>1. /\ r + n \in 1 .. Halo /\ ~(r + n <= Halo - m)
          /\ m - (Halo - (r + n)) = (m + n) - (Halo - r)
          /\ (m + n) - (Halo - r) \in 1 .. (m + n) /\ (m + n) - (Halo - r) <= m
      BY <1>1, <2>2
    <3>2. mid[r + n] = x[(m + n) - (Halo - r)]
      BY <1>3, <3>1
    <3>3. both[(m + n) - (Halo - r)] = x[(m + n) - (Halo - r)]
      BY <1>2, <3>1
    <3> QED
      BY <2>2, <3>2, <3>3
  <2>3. CASE ~(r <= Halo - n)
    <3>1. /\ ~(r <= Halo - (m + n)) /\ (m + n) - (Halo - r) \in 1 .. (m + n)
          /\ ~((m + n) - (Halo - r) <= m) /\ ((m + n) - (Halo - r)) - m = n - (Halo - r)
      BY <1>1, <2>3
    <3>2. both[(m + n) - (Halo - r)] = y[n - (Halo - r)]
      BY <1>2, <3>1
    <3> QED
      BY <2>3, <3>1, <3>2
  <2> QED
    BY <2>1, <2>2, <2>3
<1> QED
  BY <1>2, <1>4 DEF Shift, mid, both

\* The rows a tap may read lie in the halo and the chunk.
LEMMA TapsWithin ==
  ASSUME NEW j \in 1 .. Kernel
  PROVE  (j - 1) * Dilation \in 0 .. Halo /\ Halo \in Nat
<1> DEFINE i == j - 1
           k == Kernel - 1
<1>1. i \in Nat /\ k \in Nat /\ i <= k /\ Dilation \in Nat
  BY RecurrentAssumption
<1> HIDE DEF i, k
<1>2. i * Dilation <= k * Dilation /\ i * Dilation \in Nat /\ k * Dilation \in Nat
  BY <1>1, SMT
<1>3. i * Dilation \in 0 .. (k * Dilation)
  BY <1>2
<1> QED
  BY <1>2, <1>3 DEF Halo, i, k

\* A row of the second chunk reads what it would read in one.
LEMMA WindowSplit ==
  ASSUME NEW R, NEW h, NEW x \in Seq(R), NEW y \in Seq(R), NEW t \in 1 .. Len(y)
  PROVE  Window(Shift(h, x), y, t) = Window(h, x \o y, Len(x) + t)
<1> DEFINE m == Len(x)
           n == Len(y)
           both == x \o y
           mid == Shift(h, x)
<1>1. m \in Nat /\ n \in Nat /\ t \in 1 .. n
  BY LenProperties
<1>2. \A i \in 1 .. (m + n) : both[i] = IF i <= m THEN x[i] ELSE y[i - m]
  BY ConcatProperties
<1>3. \A r \in 1 .. Halo : mid[r] = IF r <= Halo - m THEN h[r + m] ELSE x[m - (Halo - r)]
  BY DEF Shift
<1> HIDE DEF both, mid
<1>4. ASSUME NEW j \in 1 .. Kernel
      PROVE  Tap(mid, y, t + ((j - 1) * Dilation)) = Tap(h, both, m + t + ((j - 1) * Dilation))
  <2> DEFINE i == t + ((j - 1) * Dilation)
  <2>1. Halo \in Nat /\ i \in 1 .. (Halo + n) /\ m + t + ((j - 1) * Dilation) = m + i
    <3> DEFINE a == (j - 1) * Dilation
    <3>1. a \in 0 .. Halo /\ Halo \in Nat
      BY TapsWithin
    <3> HIDE DEF a, m, n
    <3>2. t + a \in 1 .. (Halo + n) /\ m + t + a = m + (t + a)
      BY <1>1, <3>1
    <3> QED
      BY <3>1, <3>2 DEF a
  <2> HIDE DEF i, m, n
  <2>2. CASE m + i <= Halo
    <3>1. i <= Halo /\ i \in 1 .. Halo /\ i <= Halo - m /\ i + m = m + i
      BY <1>1, <2>1, <2>2
    <3>2. mid[i] = h[m + i]
      BY <1>3, <3>1
    <3>3. Tap(mid, y, i) = Tap(h, both, m + i)
      BY <2>2, <3>1, <3>2 DEF Tap
    <3> QED
      BY <2>1, <3>3 DEF i
  <2>3. CASE ~(m + i <= Halo) /\ i <= Halo
    <3>1. PICK k \in 1 .. (m + n) :
            /\ k = m + i - Halo /\ k <= m /\ k = m - (Halo - i)
            /\ i \in 1 .. Halo /\ ~(i <= Halo - m)
      BY <1>1, <2>1, <2>3
    <3>2. mid[i] = x[k] /\ both[k] = x[k]
      BY <1>2, <1>3, <3>1
    <3>3. Tap(mid, y, i) = Tap(h, both, m + i)
      BY <1>1, <2>1, <2>3, <3>1, <3>2 DEF Tap
    <3> QED
      BY <2>1, <3>3 DEF i
  <2>4. CASE ~(i <= Halo)
    <3>1. PICK k \in 1 .. (m + n) :
            k = m + i - Halo /\ ~(m + i <= Halo) /\ ~(k <= m) /\ k - m = i - Halo
      BY <1>1, <2>1, <2>4
    <3>2. both[k] = y[k - m]
      BY <1>2, <3>1
    <3>3. Tap(mid, y, i) = y[i - Halo]
      BY <2>4 DEF Tap
    <3>4. Tap(h, both, m + i) = both[k]
      BY <1>1, <2>1, <3>1 DEF Tap
    <3>5. Tap(mid, y, i) = Tap(h, both, m + i)
      BY <3>1, <3>2, <3>3, <3>4
    <3> QED
      BY <2>1, <3>5 DEF i
  <2> QED
    BY <2>2, <2>3, <2>4
<1> QED
  BY <1>4 DEF Window, mid, both

\* A row of the first chunk does not read the second.
LEMMA WindowPrefix ==
  ASSUME NEW R, NEW h, NEW x \in Seq(R), NEW y \in Seq(R), NEW t \in 1 .. Len(x)
  PROVE  Window(h, x \o y, t) = Window(h, x, t)
<1> DEFINE m == Len(x)
           both == x \o y
<1>1. m \in Nat /\ t \in 1 .. m
  BY LenProperties
<1>2. \A i \in 1 .. m : both[i] = x[i]
  BY <1>1, ConcatProperties, LenProperties
<1> HIDE DEF both
<1>3. ASSUME NEW j \in 1 .. Kernel
      PROVE  Tap(h, both, t + ((j - 1) * Dilation)) = Tap(h, x, t + ((j - 1) * Dilation))
  <2> DEFINE a == (j - 1) * Dilation
             i == t + a
  <2>1. a \in 0 .. Halo /\ Halo \in Nat
    BY TapsWithin
  <2>2. i \in 1 .. (Halo + m)
    <3> HIDE DEF a, m
    <3> QED
      BY <1>1, <2>1
  <2> HIDE DEF i, m
  <2>3. i <= Halo \/ i - Halo \in 1 .. m
    BY <1>1, <2>1, <2>2
  <2>4. Tap(h, both, i) = Tap(h, x, i)
    BY <1>2, <2>3 DEF Tap
  <2> QED
    BY <2>4 DEF i
<1> QED
  BY <1>3 DEF Window, both

\* The parts of a result.
LEMMA ResultParts ==
  ASSUME NEW status, NEW s, NEW out, NEW r, r = Result(status, s, out)
  PROVE  r.status = status /\ r.s = s /\ r.out = out
BY DEF Result

\* A usable state becomes the usable state of the same epoch copied to it.
LEMMA CopyIsSource ==
  ASSUME NEW e, NEW p, NEW d, NEW q, NEW f, NEW dst, NEW src,
         dst = [epoch |-> e, next_pos |-> p, valid |-> TRUE, data |-> d],
         src = [epoch |-> e, next_pos |-> q, valid |-> TRUE, data |-> f]
  PROVE  conv_state_copy(dst, src).status = "ok" /\ conv_state_copy(dst, src).s = src
<1> DEFINE copy == [dst EXCEPT !.data = src.data, !.next_pos = src.next_pos]
<1>1. src.data = f /\ src.next_pos = q /\ src.valid /\ dst.valid /\ src.epoch = dst.epoch
  OBVIOUS
<1>2. copy = [dst EXCEPT !.data = f, !.next_pos = q]
  BY <1>1
<1>3. conv_state_copy(dst, src) = Result("ok", copy, <<>>)
  BY <1>1 DEF conv_state_copy
<1> HIDE DEF copy
<1>4. copy = [epoch |-> e, next_pos |-> q, valid |-> TRUE, data |-> f]
  BY <1>2
<1>5. copy = src
  BY <1>4
<1> QED
  BY <1>3, <1>5, ResultParts
=============================================================================
