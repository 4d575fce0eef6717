---------------------------- MODULE GpuGraphProofs ----------------------------
(***************************************************************************)
(* What the graph's histories hold, for every capacity, window, block      *)
(* ratio, number of verify rows and sequence of calls: a valid graph is    *)
(* indistinguishable from one that has seen its text in one pass.          *)
(***************************************************************************)
EXTENDS GpuGraph, Facts

Vocab == Token \cup {Pad}
Text  == {s \in Seq(Token) : Len(s) <= Capacity}

-----------------------------------------------------------------------------
(* Lemmas on the representations of a text.                                *)

\* The rows of a convolution's window.
LEMMA LastRowsType ==
  ASSUME NEW s \in Seq(Token)
  PROVE  LastRows(s) \in Seq(Vocab) /\ Len(LastRows(s)) = Window
BY GraphAssumption DEF LastRows, Vocab

\* The newest tokens of a text.
LEMMA NewestType ==
  ASSUME NEW s \in Seq(Token)
  PROVE  Newest(s) \in [1 .. NgramHistory -> Vocab]
BY GraphAssumption DEF Newest, Vocab

\* The window after appending some tokens.
LEMMA WindowOfConcat ==
  ASSUME NEW s \in Seq(Token), NEW t \in Seq(Token), NEW k \in 0 .. Len(t)
  PROVE  SubSeq(LastRows(s) \o t, k + 1, k + Window) = LastRows(s \o SubSeq(t, 1, k))
<1> DEFINE u == SubSeq(t, 1, k)
           w == LastRows(s) \o t
<1>1. /\ u \in Seq(Token) /\ Len(u) = k /\ Len(s) \in Nat /\ Len(t) \in Nat /\ k \in Nat
      /\ \A i \in 1 .. k : u[i] = t[i]
  BY PrefixProperties, LenProperties
<1>2. /\ s \o u \in Seq(Token) /\ Len(s \o u) = Len(s) + k
      /\ \A i \in 1 .. (Len(s) + k) : (s \o u)[i] = IF i <= Len(s) THEN s[i] ELSE u[i - Len(s)]
  BY <1>1, ConcatProperties
<1> HIDE DEF u
<1>3. Window \in Nat /\ t \in Seq(Vocab)
  BY GraphAssumption, SeqMonotonic DEF Vocab
<1>4. LastRows(s) \in Seq(Vocab) /\ Len(LastRows(s)) = Window
  BY LastRowsType
<1>5. /\ w \in Seq(Vocab) /\ Len(w) = Window + Len(t)
      /\ \A i \in 1 .. (Window + Len(t)) :
           w[i] = IF i <= Window THEN LastRows(s)[i] ELSE t[i - Window]
  BY <1>3, <1>4, ConcatProperties
<1> HIDE DEF w
<1>6. \A i \in (k + 1) .. (k + Window) : w[i] \in Vocab
  <2> SUFFICES ASSUME NEW i \in (k + 1) .. (k + Window) PROVE w[i] \in Vocab
    OBVIOUS
  <2>1. i \in 1 .. Len(w)
    BY <1>1, <1>3, <1>5
  <2> QED
    BY <1>5, <2>1, ElementOfSeq
<1>7. /\ SubSeq(w, k + 1, k + Window) \in Seq(Vocab)
      /\ Len(SubSeq(w, k + 1, k + Window)) = Window
      /\ \A i \in 1 .. Window : SubSeq(w, k + 1, k + Window)[i] = w[k + i]
  <2> DEFINE m == k + 1
             n == k + Window
  <2>1. m \in Int /\ n \in Int /\ \A i \in m .. n : w[i] \in Vocab
    BY <1>1, <1>3, <1>6
  <2>2. /\ (IF m <= n THEN n - m + 1 ELSE 0) = Window
        /\ n - m + 1 = Window
        /\ \A i \in 1 .. Window : m + i - 1 = k + i
    BY <1>1, <1>3
  <2> HIDE DEF m, n
  <2>3. /\ SubSeq(w, m, n) \in Seq(Vocab)
        /\ Len(SubSeq(w, m, n)) = IF m <= n THEN n - m + 1 ELSE 0
        /\ \A i \in 1 .. (n - m + 1) : SubSeq(w, m, n)[i] = w[m + i - 1]
    BY <2>1, SubSeqProperties
  <2>4. /\ SubSeq(w, m, n) \in Seq(Vocab)
        /\ Len(SubSeq(w, m, n)) = Window
        /\ \A i \in 1 .. Window : SubSeq(w, m, n)[i] = w[k + i]
    BY <2>2, <2>3
  <2> QED
    BY <2>4 DEF m, n
<1>8. LastRows(s \o u) \in Seq(Vocab) /\ Len(LastRows(s \o u)) = Window
  BY <1>2, LastRowsType
<1>9. ASSUME NEW i \in 1 .. Window PROVE w[k + i] = LastRows(s \o u)[i]
  <2>1. LastRows(s \o u)[i] = IF Len(s) + k - Window + i > 0
                                THEN (s \o u)[Len(s) + k - Window + i] ELSE Pad
    BY <1>1, <1>2, <1>3 DEF LastRows
  <2>2. CASE k + i <= Window
    <3>1. w[k + i] = LastRows(s)[k + i]
      BY <1>1, <1>3, <1>5, <2>2
    <3>2. LastRows(s)[k + i] = IF Len(s) - Window + (k + i) > 0
                                 THEN s[Len(s) - Window + (k + i)] ELSE Pad
      BY <1>1, <1>3, <2>2 DEF LastRows
    <3>3. CASE Len(s) - Window + (k + i) > 0
      <4>1. (s \o u)[Len(s) + k - Window + i] = s[Len(s) + k - Window + i]
        BY <1>1, <1>2, <1>3, <2>2, <3>3
      <4>2. Len(s) - Window + (k + i) = Len(s) + k - Window + i
        BY <1>1, <1>3
      <4> QED
        BY <2>1, <3>1, <3>2, <3>3, <4>1, <4>2
    <3>4. CASE ~(Len(s) - Window + (k + i) > 0)
      BY <1>1, <1>3, <2>1, <3>1, <3>2, <3>4
    <3> QED
      BY <3>3, <3>4
  <2>3. CASE ~(k + i <= Window)
    <3>1. w[k + i] = t[k + i - Window]
      BY <1>1, <1>3, <1>5, <2>3
    <3>2. k + i - Window \in 1 .. k /\ Len(s) + k - Window + i - Len(s) = k + i - Window
      BY <1>1, <1>3, <2>3
    <3>3. (s \o u)[Len(s) + k - Window + i] = u[k + i - Window]
      BY <1>1, <1>2, <1>3, <2>3, <3>2
    <3> QED
      BY <1>1, <1>3, <2>1, <2>3, <3>1, <3>2, <3>3
  <2> QED
    BY <2>2, <2>3
<1> QED
  BY <1>7, <1>8, <1>9, SeqEqual DEF u, w

\* The n-gram tokens after k tokens of t, from those before.
Recent(t, k, before) ==
  [i \in 1 .. NgramHistory |-> IF i <= k THEN t[k + 1 - i] ELSE before[i - k]]

\* The newest tokens after appending some.
LEMMA NewestOfConcat ==
  ASSUME NEW s \in Seq(Token), NEW t \in Seq(Token), NEW k \in 0 .. Len(t)
  PROVE  Recent(t, k, Newest(s)) = Newest(s \o SubSeq(t, 1, k))
<1> DEFINE u == SubSeq(t, 1, k)
<1>1. /\ u \in Seq(Token) /\ Len(u) = k /\ Len(s) \in Nat /\ k \in Nat
      /\ \A i \in 1 .. k : u[i] = t[i]
  BY PrefixProperties, LenProperties
<1>2. /\ s \o u \in Seq(Token) /\ Len(s \o u) = Len(s) + k
      /\ \A i \in 1 .. (Len(s) + k) : (s \o u)[i] = IF i <= Len(s) THEN s[i] ELSE u[i - Len(s)]
  BY <1>1, ConcatProperties
<1>3. NgramHistory \in Nat
  BY GraphAssumption
<1>4. ASSUME NEW i \in 1 .. NgramHistory
      PROVE  (IF i <= k THEN t[k + 1 - i] ELSE Newest(s)[i - k]) = Newest(s \o u)[i]
  <2>1. Newest(s \o u)[i] = IF i <= Len(s) + k THEN (s \o u)[Len(s) + k + 1 - i] ELSE Pad
    BY <1>2 DEF Newest
  <2>2. CASE i <= k
    <3>1. (s \o u)[Len(s) + k + 1 - i] = u[Len(s) + k + 1 - i - Len(s)]
      BY <1>1, <1>2, <1>3, <2>2
    <3>2. Len(s) + k + 1 - i - Len(s) = k + 1 - i /\ k + 1 - i \in 1 .. k
      BY <1>1, <1>3, <2>2
    <3> QED
      BY <1>1, <1>3, <2>1, <2>2, <3>1, <3>2
  <2>3. CASE ~(i <= k)
    <3>1. i - k \in 1 .. NgramHistory
      BY <1>1, <1>3, <2>3
    <3>2. Newest(s)[i - k] = IF i - k <= Len(s) THEN s[Len(s) + 1 - (i - k)] ELSE Pad
      BY <3>1 DEF Newest
    <3>3. CASE i - k <= Len(s)
      <4>1. (s \o u)[Len(s) + k + 1 - i] = s[Len(s) + k + 1 - i]
        BY <1>1, <1>2, <1>3, <2>3, <3>3
      <4>2. Len(s) + 1 - (i - k) = Len(s) + k + 1 - i
        BY <1>1, <1>3
      <4> QED
        BY <1>1, <1>3, <2>1, <2>3, <3>2, <3>3, <4>1, <4>2
    <3>4. CASE ~(i - k <= Len(s))
      BY <1>1, <1>3, <2>1, <2>3, <3>2, <3>4
    <3> QED
      BY <3>3, <3>4
  <2> QED
    BY <2>2, <2>3
<1> QED
  BY <1>4 DEF Newest, Recent

\* Blocks within a prefix.
LEMMA BlockWithin ==
  ASSUME NEW n \in Nat, NEW b \in Nat 
  PROVE  n \div Ratio \in Nat /\ (b <= n \div Ratio <=> b * Ratio <= n)
<1>1. Ratio \in Nat \ {0}
  BY GraphAssumption
<1> QED
  BY <1>1

-----------------------------------------------------------------------------
(***************************************************************************)
(* The inductive invariant. What a valid graph holds is known from its     *)
(* text. It must also be known of everything a later call brings back: the *)
(* copies that keep reads while a verify is pending, and the host copy of  *)
(* the last checkpoint while its handle is fresh.                          *)
(***************************************************************************)
Pair == [row : Seq(Token), token : Token]
Handle == [epoch : Nat, serial : Nat, position : Nat, mtp_position : Nat]

\* The QSA caches hold the text s.
Cached(s, cache, pools) ==
  /\ \A p \in 1 .. Len(s) : cache[p] = s[p]
  /\ \A b \in 1 .. (Len(s) \div Ratio) : pools[b] = Pool(s, b)

\* The convolution window, the caches and the n-gram tokens are those of s.
Represents(s, window, cache, pools, previous) ==
  window = LastRows(s) /\ Cached(s, cache, pools) /\ previous = Newest(s)

\* The residual rows of the append that ended the text s.
Residual(s, start, count, res) ==
  count > 0 =>
    /\ start + count = Len(s)
    /\ \A j \in 1 .. count : res[j] = SubSeq(s, 1, start + j)

Buffered ==
  /\ mem \in [Buffers -> Text]
  /\ state_buf \in Buffers /\ history_buf = state_buf
  /\ snap_buf \in [1 .. (VerifyRows - 1) -> Buffers]
  /\ \A b \in Buffers \ {state_buf} : \E j \in 1 .. (VerifyRows - 1) : snap_buf[j] = b
  /\ \A i \in 1 .. (VerifyRows - 1) : snap_buf[i] # state_buf
  /\ \A i, j \in 1 .. (VerifyRows - 1) : snap_buf[i] = snap_buf[j] => i = j

Typed ==
  /\ valid \in BOOLEAN /\ changed \in BOOLEAN
  /\ next_pos \in 0 .. Capacity /\ last_start \in 0 .. Capacity /\ last_count \in 0 .. MaxTokens
  /\ snapshot_serial \in 0 .. MaxSerial
  /\ session \in [epoch : 1 .. MaxEpoch, pos : 0 .. Capacity, usable : BOOLEAN]
  /\ rows \in [1 .. Capacity -> Vocab]
  /\ blocks \in [1 .. (Capacity \div Ratio) -> [1 .. Ratio -> Vocab]]
  /\ r \in Seq(Text)
  /\ ngram \in [epoch : Nat, pos : Nat, previous : [1 .. NgramHistory -> Vocab]]
  /\ mtp \in [enabled : BOOLEAN, failed : BOOLEAN, usable : BOOLEAN, last_rows : Nat]
  /\ pairs \in Seq(Pair) /\ Len(pairs) <= Capacity
  /\ log \in Text

Exact ==
  valid =>
    /\ next_pos = Len(log)
    /\ mem[state_buf] = log
    /\ Represents(log, conv, rows, blocks, ngram.previous)
    /\ Residual(log, last_start, last_count, r)

\* The text before the rows of the pending verify.
Base == SubSeq(log, 1, verify.start)

Recorded ==
  /\ verify.rows \in 0 .. VerifyRows /\ verify.epoch \in Nat /\ verify.epoch <= session.epoch
  /\ verify.rows > 0 /\ valid /\ verify.epoch = session.epoch =>
       /\ verify.start \in Nat /\ verify.tokens \in Seq(Token) /\ Len(verify.tokens) = verify.rows
       /\ Len(log) = verify.start + verify.rows
       /\ last_start = verify.start /\ last_count = verify.rows
       /\ log = Base \o verify.tokens
       /\ verify.conv_ext = LastRows(Base) \o verify.tokens
       /\ verify.ple_prev = Newest(Base)
       /\ \A j \in 1 .. (verify.rows - 1) :
            mem[snap_buf[j]] = Base \o SubSeq(verify.tokens, 1, j)

\* The host copy is that of the text s, a beginning of the present one.
Copied(s) ==
  /\ snapshot.state = s /\ Represents(s, snapshot.conv, snapshot.rows, snapshot.blocks,
                                     snapshot.previous)
  /\ snapshot.rows \in [1 .. Capacity -> Vocab]
  /\ snapshot.blocks \in [1 .. (Capacity \div Ratio) -> [1 .. Ratio -> Vocab]]
  /\ snapshot.r \in Seq(Text)
  /\ snapshot.start \in 0 .. Capacity /\ snapshot.count \in 0 .. MaxTokens
  /\ Residual(s, snapshot.start, snapshot.count, snapshot.r)
  /\ Len(s) <= Len(log) /\ s = SubSeq(log, 1, Len(s))

Checkpointed ==
  \A s \in issued :
    /\ s.handle \in Handle /\ s.log \in Text
    /\ s.handle.position = Len(s.log)
    /\ s.handle.epoch <= session.epoch /\ s.handle.serial <= snapshot_serial
    /\ valid /\ s.handle.epoch = session.epoch /\ s.handle.serial = snapshot_serial => Copied(s.log)

IInv ==
  /\ Typed /\ Buffered
  /\ Exact /\ StatesAgree
  /\ Recorded /\ Checkpointed

-----------------------------------------------------------------------------
(* More on texts.                                                          *)

\* What a call may append is a sequence of tokens.
LEMMA AppendsAreTexts ==
  ASSUME NEW n \in Nat, NEW ts \in Appends(n)
  PROVE  ts \in Seq(Token) /\ Len(ts) \in 1 .. n
BY DEF Appends

\* A text and what is appended to it.
LEMMA ExtendedText ==
  ASSUME NEW s \in Text, NEW t \in Seq(Token), Len(s) + Len(t) <= Capacity
  PROVE  s \o t \in Text /\ Len(s \o t) = Len(s) + Len(t)
BY ConcatProperties DEF Text

\* The beginning of a text.
LEMMA PrefixIsText ==
  ASSUME NEW s \in Text, NEW k \in 0 .. Len(s)
  PROVE  SubSeq(s, 1, k) \in Text /\ Len(SubSeq(s, 1, k)) = k
<1>1. s \in Seq(Token) /\ Len(s) \in Nat /\ Len(s) <= Capacity /\ Capacity \in Nat
  BY LenProperties, GraphAssumption DEF Text
<1> QED
  BY <1>1, PrefixProperties DEF Text

\* The rows of a block within n lie within n.
LEMMA BlockRows ==
  ASSUME NEW n \in Nat, NEW b \in Nat \ {0}, b <= n \div Ratio, NEW i \in 1 .. Ratio
  PROVE  (b - 1) * Ratio + i \in 1 .. n
<1>1. Ratio \in Nat \ {0} /\ b * Ratio <= n
  BY BlockWithin, GraphAssumption
<1>2. (b - 1) * Ratio \in Nat /\ (b - 1) * Ratio + Ratio = b * Ratio
  BY <1>1
<1> QED
  BY <1>1, <1>2

-----------------------------------------------------------------------------
(* The kernels of an append.                                               *)

\* A forward over the newest tokens leaves every state that of the longer text.
LEMMA KernelsRun ==
  ASSUME IInv, NEW ts \in Appends(MaxTokens), NEW capture \in BOOLEAN,
         Admitted(ts), capture => Len(ts) <= VerifyRows, Kernels(ts, capture)
  PROVE  /\ mem' \in [Buffers -> Text] /\ mem'[state_buf] = log \o ts
         /\ capture => \A j \in 1 .. (Len(ts) - 1) : mem'[snap_buf[j]] = log \o SubSeq(ts, 1, j)
         /\ conv' = LastRows(log \o ts)
         /\ rows' \in [1 .. Capacity -> Vocab]
         /\ \A p \in 1 .. Len(log \o ts) : rows'[p] = (log \o ts)[p]
         /\ blocks' \in [1 .. (Capacity \div Ratio) -> [1 .. Ratio -> Vocab]]
         /\ \A b \in 1 .. (Len(log \o ts) \div Ratio) : blocks'[b] = Pool(log \o ts, b)
         /\ r' \in Seq(Text) /\ Len(r') = Len(ts)
         /\ \A j \in 1 .. Len(ts) : r'[j] = SubSeq(log \o ts, 1, Len(log) + j)
         /\ log \o ts \in Text /\ Len(log \o ts) = next_pos + Len(ts)
<1> DEFINE new == log \o ts
           snaps == 1 .. (VerifyRows - 1)
           kept  == {j \in snaps : capture /\ j < Len(ts)}
<1>1. /\ ts \in Seq(Token) /\ Len(ts) \in 1 .. MaxTokens /\ Len(ts) \in Nat
      /\ MaxTokens \in Nat /\ Capacity \in Nat \ {0} /\ VerifyRows \in Nat /\ Window \in Nat
      /\ Ratio \in Nat \ {0}
  BY AppendsAreTexts, GraphAssumption
<1>2. /\ valid /\ next_pos = Len(log) /\ mem[state_buf] = log
      /\ Represents(log, conv, rows, blocks, ngram.previous)
      /\ Len(ts) <= Capacity - next_pos /\ next_pos \in Nat
  BY DEF IInv, Typed, Exact, Admitted, Valid
<1>3. log \in Text /\ log \in Seq(Token) /\ Len(log) \in Nat
  BY LenProperties DEF IInv, Typed, Text
<1>4. /\ new \in Text /\ new \in Seq(Token) /\ Len(new) = next_pos + Len(ts)
      /\ \A i \in 1 .. Len(new) : new[i] = IF i <= Len(log) THEN log[i] ELSE ts[i - Len(log)]
  <2>1. new \in Text /\ Len(new) = Len(log) + Len(ts)
    BY <1>1, <1>2, <1>3, ExtendedText
  <2>2. new \in Seq(Token)
    BY <2>1 DEF Text
  <2>3. \A i \in 1 .. (Len(log) + Len(ts)) : new[i] = IF i <= Len(log) THEN log[i] ELSE ts[i - Len(log)]
    BY <1>1, <1>3, ConcatProperties
  <2> QED
    BY <1>2, <2>1, <2>2, <2>3
<1>5. \A j \in 0 .. Len(ts) : /\ log \o SubSeq(ts, 1, j) \in Text
                              /\ log \o SubSeq(ts, 1, j) = SubSeq(new, 1, Len(log) + j)
  <2> SUFFICES ASSUME NEW j \in 0 .. Len(ts)
               PROVE  /\ log \o SubSeq(ts, 1, j) \in Text
                      /\ log \o SubSeq(ts, 1, j) = SubSeq(new, 1, Len(log) + j)
    OBVIOUS
  <2>1. SubSeq(ts, 1, j) \in Seq(Token) /\ Len(SubSeq(ts, 1, j)) = j
    BY <1>1, PrefixProperties
  <2>2. log \o SubSeq(ts, 1, j) \in Text
    <3>1. Len(log) + Len(SubSeq(ts, 1, j)) <= Capacity
      BY <1>1, <1>2, <2>1
    <3> QED
      BY <1>3, <2>1, <3>1, ExtendedText
  <2> QED
    BY <1>1, <1>3, <2>2, PrefixOfConcat
<1>6. /\ snap_buf \in [snaps -> Buffers] /\ state_buf \in Buffers /\ mem \in [Buffers -> Text]
      /\ \A i \in snaps : snap_buf[i] # state_buf
      /\ \A i, j \in snaps : snap_buf[i] = snap_buf[j] => i = j
  BY DEF IInv, Buffered
<1>7. mem' = [b \in Buffers |->
               IF b = state_buf THEN new
               ELSE IF \E j \in kept : snap_buf[j] = b
                 THEN log \o SubSeq(ts, 1, CHOOSE j \in kept : snap_buf[j] = b)
                 ELSE mem[b]]
  BY <1>2 DEF Kernels
<1>8. \A j \in kept : mem'[snap_buf[j]] = log \o SubSeq(ts, 1, j)
  <2> SUFFICES ASSUME NEW j \in kept PROVE mem'[snap_buf[j]] = log \o SubSeq(ts, 1, j)
    OBVIOUS
  <2>1. snap_buf[j] \in Buffers /\ snap_buf[j] # state_buf
    BY <1>6
  <2>2. (CHOOSE i \in kept : snap_buf[i] = snap_buf[j]) = j
    BY <1>6
  <2> QED
    BY <1>7, <2>1, <2>2
<1>9. mem' \in [Buffers -> Text] /\ mem'[state_buf] = new
  <2>1. ASSUME NEW b \in Buffers, \E j \in kept : snap_buf[j] = b
        PROVE  log \o SubSeq(ts, 1, CHOOSE j \in kept : snap_buf[j] = b) \in Text
    <3> DEFINE i == CHOOSE j \in kept : snap_buf[j] = b
    <3>1. i \in kept
      BY <2>1
    <3>2. i \in 0 .. Len(ts)
      BY <1>1, <3>1
    <3> QED
      BY <1>5, <3>2
  <2> QED
    BY <1>4, <1>6, <1>7, <2>1
<1>10. capture => \A j \in 1 .. (Len(ts) - 1) : mem'[snap_buf[j]] = log \o SubSeq(ts, 1, j)
  <2>1. capture => \A j \in 1 .. (Len(ts) - 1) : j \in kept
    BY <1>1
  <2> QED
    BY <1>8, <2>1
<1>11. conv' = LastRows(new)
  <2>1. conv' = SubSeq(LastRows(log) \o ts, Len(ts) + 1, Len(ts) + Window)
    BY <1>2 DEF Kernels, Represents
  <2>2. SubSeq(ts, 1, Len(ts)) = ts /\ Len(ts) \in 0 .. Len(ts)
    BY <1>1, SubSeqFull
  <2> QED
    BY <1>1, <1>3, <2>1, <2>2, WindowOfConcat
<1>12. /\ rows' \in [1 .. Capacity -> Vocab]
       /\ \A p \in 1 .. Len(new) : rows'[p] = new[p]
  <2>1. rows' = [p \in 1 .. Capacity |->
                IF p \in (next_pos + 1) .. (next_pos + Len(ts)) THEN ts[p - next_pos] ELSE rows[p]]
    BY DEF Kernels
  <2>2. rows \in [1 .. Capacity -> Vocab] /\ \A p \in 1 .. Len(log) : rows[p] = log[p]
    BY <1>2 DEF IInv, Typed, Represents, Cached
  <2>3. \A p \in 1 .. Len(ts) : ts[p] \in Token
    BY <1>1, ElementOfSeq
  <2>4. \A p \in (next_pos + 1) .. (next_pos + Len(ts)) : ts[p - next_pos] \in Vocab
    BY <1>1, <1>2, <2>3 DEF Vocab
  <2>5. rows' \in [1 .. Capacity -> Vocab]
    BY <2>1, <2>2, <2>4
  <2>6. \A p \in 1 .. Len(new) : rows'[p] = new[p]
    BY <1>1, <1>2, <1>3, <1>4, <2>1, <2>2
  <2> QED
    BY <2>5, <2>6
<1>13. /\ blocks' \in [1 .. (Capacity \div Ratio) -> [1 .. Ratio -> Vocab]]
       /\ \A b \in 1 .. (Len(new) \div Ratio) : blocks'[b] = Pool(new, b)
  <2> DEFINE Bs == 1 .. (Capacity \div Ratio)
             upto == next_pos + Len(ts)
  <2>1. blocks' = [b \in Bs |-> IF b \in (next_pos \div Ratio + 1) .. (upto \div Ratio)
                                THEN Pool(rows', b) ELSE blocks[b]]
    BY DEF Kernels, IInv, Typed
  <2>2. blocks \in [Bs -> [1 .. Ratio -> Vocab]]
    BY DEF IInv, Typed
  <2>3. /\ Capacity \div Ratio \in Nat /\ next_pos \div Ratio \in Nat /\ upto \div Ratio \in Nat
        /\ upto \in Nat /\ upto = Len(new) /\ upto <= Capacity
    <3>1. upto \in Nat /\ upto = Len(new) /\ upto <= Capacity
      BY <1>1, <1>2, <1>4
    <3> QED
      BY <1>1, <1>2, <3>1, BlockWithin
  <2> HIDE DEF upto
  <2>4. \A b \in 1 .. (upto \div Ratio) : b \in Bs
    <3> SUFFICES ASSUME NEW b \in 1 .. (upto \div Ratio) PROVE b \in Bs
      OBVIOUS
    <3>1. b * Ratio <= upto
      BY <2>3, BlockWithin
    <3>2. b * Ratio <= Capacity
      BY <1>1, <2>3, <3>1
    <3>3. b \in Nat /\ Capacity \in Nat /\ 1 <= b
      BY <1>1, <2>3
    <3>4. b <= Capacity \div Ratio
      BY <3>2, <3>3, BlockWithin
    <3> QED
      BY <2>3, <3>3, <3>4
  <2>5. \A b \in 1 .. (upto \div Ratio) : Pool(rows', b) = Pool(new, b)
    <3>1. \A p \in 1 .. upto : rows'[p] = new[p]
      BY <1>12, <2>3
    <3>2. \A b \in 1 .. (upto \div Ratio) : b \in Nat \ {0} /\ b <= upto \div Ratio
      BY <2>3
    <3> QED
      BY <2>3, <3>1, <3>2, BlockRows DEF Pool
  <2>6. \A b \in Bs : Pool(rows', b) \in [1 .. Ratio -> Vocab]
    <3> SUFFICES ASSUME NEW b \in Bs, NEW i \in 1 .. Ratio
                 PROVE  rows'[(b - 1) * Ratio + i] \in Vocab
      BY DEF Pool
    <3>1. b * Ratio <= Capacity
      BY <1>1, <2>3, BlockWithin
    <3>2. (b - 1) * Ratio \in Nat /\ (b - 1) * Ratio + Ratio = b * Ratio
      BY <1>1, <2>3
    <3> QED
      BY <1>1, <1>12, <3>1, <3>2
  <2>7. ASSUME NEW b \in 1 .. (upto \div Ratio), b <= next_pos \div Ratio
        PROVE  blocks[b] = Pool(new, b)
    <3>1. b \in 1 .. (next_pos \div Ratio)
      BY <2>3, <2>7
    <3>2. blocks[b] = Pool(log, b)
      BY <1>2, <3>1 DEF Represents, Cached
    <3>3. \A p \in 1 .. next_pos : log[p] = new[p]
      BY <1>1, <1>2, <1>3, <1>4
    <3>4. b \in Nat \ {0} /\ b <= next_pos \div Ratio
      BY <2>3, <2>7
    <3>5. Pool(log, b) = Pool(new, b)
      BY <1>2, <3>3, <3>4, BlockRows DEF Pool
    <3> QED
      BY <3>2, <3>5
  <2>8. \A b \in 1 .. (upto \div Ratio) : blocks'[b] = Pool(new, b)
    BY <2>1, <2>3, <2>4, <2>5, <2>7 DEF upto
  <2>9. blocks' \in [Bs -> [1 .. Ratio -> Vocab]]
    BY <2>1, <2>2, <2>6 DEF upto
  <2> QED
    BY <2>3, <2>8, <2>9
<1>14. /\ r' \in Seq(Text) /\ Len(r') = Len(ts)
       /\ \A j \in 1 .. Len(ts) : r'[j] = SubSeq(new, 1, Len(log) + j)
  <2>1. r' = [j \in 1 .. Len(ts) |-> log \o SubSeq(ts, 1, j)]
    BY <1>2 DEF Kernels
  <2>2. \A j \in 1 .. Len(ts) : j \in 0 .. Len(ts)
    OBVIOUS
  <2> QED
    BY <1>1, <1>5, <2>1, <2>2
<1> QED
  BY <1>4, <1>9, <1>10, <1>11, <1>12, <1>13, <1>14

-----------------------------------------------------------------------------
(* What the invariant of a copy needs to survive a step.                   *)

\* Without a verify to settle, nothing is recorded.
LEMMA VerifyCleared == IInv /\ verify' = NoVerify /\ session'.epoch \in Nat => Recorded'
BY GraphAssumption DEF NoVerify, Recorded

\* A call that leaves the verify and its epoch alone keeps what is recorded.
LEMMA VerifyKept ==
  ASSUME IInv, verify' = verify, session.epoch <= session'.epoch, session'.epoch \in Nat,
         valid' /\ session'.epoch = session.epoch =>
           valid /\ UNCHANGED <<log, last_start, last_count, mem, snap_buf>>
  PROVE  Recorded'
<1>1. Recorded /\ session.epoch \in Nat
  BY GraphAssumption DEF IInv, Typed
<1>2. verify'.rows \in 0 .. VerifyRows /\ verify'.epoch \in Nat /\ verify'.epoch <= session'.epoch
  BY <1>1 DEF Recorded
<1>3. ASSUME verify'.rows > 0, valid', verify'.epoch = session'.epoch
      PROVE  valid /\ verify.epoch = session.epoch /\ UNCHANGED <<log, last_start, last_count, mem, snap_buf>>
  BY <1>1, <1>3 DEF Recorded
<1> QED
  BY <1>1, <1>2, <1>3 DEF Recorded, Base

\* A call that moves no snapshot buffer keeps the checkpoints.
LEMMA CheckpointsKept ==
  ASSUME IInv, UNCHANGED <<issued, snapshot>>,
         session.epoch <= session'.epoch, session'.epoch \in Nat,
         snapshot_serial <= snapshot_serial', snapshot_serial' \in Nat,
         valid' /\ session'.epoch = session.epoch /\ snapshot_serial' = snapshot_serial =>
           valid /\ \E t \in Seq(Token) : log' = log \o t
  PROVE  Checkpointed'
<1> SUFFICES ASSUME NEW s \in issued
             PROVE  /\ s.handle \in Handle /\ s.log \in Text
                    /\ s.handle.position = Len(s.log)
                    /\ s.handle.epoch <= session'.epoch /\ s.handle.serial <= snapshot_serial'
                    /\ valid' /\ s.handle.epoch = session'.epoch
                       /\ s.handle.serial = snapshot_serial' => Copied(s.log)'
  BY DEF Checkpointed
<1>1. /\ session.epoch \in Nat /\ snapshot_serial \in Nat /\ log \in Seq(Token) /\ Len(log) \in Nat
      /\ s.log \in Seq(Token) /\ Len(s.log) \in Nat
  BY GraphAssumption, LenProperties DEF IInv, Typed, Checkpointed, Text
<1>2. /\ s.handle \in Handle /\ s.log \in Text
      /\ s.handle.position = Len(s.log)
      /\ s.handle.epoch <= session.epoch /\ s.handle.serial <= snapshot_serial
      /\ s.handle.epoch \in Nat /\ s.handle.serial \in Nat
  BY DEF IInv, Checkpointed, Handle
<1>3. ASSUME valid', s.handle.epoch = session'.epoch, s.handle.serial = snapshot_serial'
      PROVE  Copied(s.log)'
  <2>1. s.handle.epoch = session.epoch /\ s.handle.serial = snapshot_serial
        /\ session'.epoch = session.epoch /\ snapshot_serial' = snapshot_serial
    BY <1>1, <1>2, <1>3
  <2>2. Copied(s.log)
    BY <1>3, <2>1 DEF IInv, Checkpointed
  <2>3. PICK t \in Seq(Token) : log' = log \o t
    BY <1>3, <2>1
  <2>4. Len(s.log) <= Len(log) /\ s.log = SubSeq(log, 1, Len(s.log))
    BY <2>2 DEF Copied
  <2>5. Len(log') = Len(log) + Len(t) /\ Len(t) \in Nat
    BY <1>1, <2>3, ConcatProperties, LenProperties
  <2>6. SubSeq(log', 1, Len(s.log)) = SubSeq(log, 1, Len(s.log))
    BY <1>1, <2>3, <2>4, PrefixOfExtended
  <2>7. Len(s.log) <= Len(log') /\ s.log = SubSeq(log', 1, Len(s.log))
    BY <1>1, <2>4, <2>5, <2>6
  <2> QED
    BY <2>2, <2>7 DEF Copied
<1> QED
  BY <1>1, <1>2, <1>3

-----------------------------------------------------------------------------
(* The steps.                                                              *)

\* The invariant holds of a graph just created.
LEMMA InitIInv == Init => IInv
<1> SUFFICES ASSUME Init PROVE IInv
  OBVIOUS
<1>1. /\ Capacity \in Nat \ {0} /\ MaxTokens \in Nat /\ VerifyRows \in Nat \ {0, 1}
      /\ Window \in Nat /\ NgramHistory \in Nat /\ Ratio \in Nat \ {0}
      /\ MaxEpoch \in Nat \ {0} /\ MaxSerial \in Nat
  BY GraphAssumption
<1>2. <<>> \in Text /\ <<>> \in Seq(Token) /\ Len(<<>>) = 0
  BY <1>1 DEF Text
<1>3. Newest(<<>>) \in [1 .. NgramHistory -> Vocab]
  BY <1>2, NewestType
<1>4. EmptyBlocks \in [1 .. (Capacity \div Ratio) -> [1 .. Ratio -> Vocab]]
  BY DEF EmptyBlocks, Vocab
<1>5. Typed
  <2>1. /\ session \in [epoch : 1 .. MaxEpoch, pos : 0 .. Capacity, usable : BOOLEAN]
        /\ mtp \in [enabled : BOOLEAN, failed : BOOLEAN, usable : BOOLEAN, last_rows : Nat]
    BY <1>1 DEF Init
  <2>2. ngram \in [epoch : Nat, pos : Nat, previous : [1 .. NgramHistory -> Vocab]]
    BY <1>3 DEF Init
  <2>3. rows \in [1 .. Capacity -> Vocab] /\ r \in Seq(Text) /\ pairs \in Seq(Pair) /\ Len(pairs) <= Capacity
    BY <1>1 DEF Init, EmptyRows, Vocab
  <2>4. valid \in BOOLEAN /\ changed \in BOOLEAN
    BY DEF Init
  <2>6. /\ next_pos \in 0 .. Capacity /\ last_start \in 0 .. Capacity /\ last_count \in 0 .. MaxTokens
        /\ snapshot_serial \in 0 .. MaxSerial
    BY <1>1 DEF Init
  <2>5. /\ blocks \in [1 .. (Capacity \div Ratio) -> [1 .. Ratio -> Vocab]] /\ log \in Text
    BY <1>2, <1>4 DEF Init
  <2> QED
    BY <2>1, <2>2, <2>3, <2>4, <2>5, <2>6 DEF Typed
<1>6. Buffered
  BY <1>1, <1>2 DEF Init, Buffered, Buffers
<1>7. 0 \div Ratio = 0
  <2>1. ~(1 <= 0 \div Ratio) /\ 0 \div Ratio \in Nat
    BY <1>1, BlockWithin
  <2> QED
    BY <2>1
<1>8. Represents(<<>>, LastRows(<<>>), EmptyRows, EmptyBlocks, Newest(<<>>))
  BY <1>2, <1>7 DEF Represents, Cached
<1>9. Exact /\ StatesAgree
  BY <1>1, <1>2, <1>6, <1>8 DEF Init, Exact, Residual, StatesAgree, Buffered
<1>10. Recorded /\ Checkpointed
  BY <1>1 DEF Init, Recorded, NoVerify, Checkpointed
<1> QED
  BY <1>5, <1>6, <1>9, <1>10 DEF IInv

\* forward: a command that is published.
LEMMA ForwardStep ==
  ASSUME IInv, NEW ts \in Appends(MaxTokens), NEW capture \in BOOLEAN,
         capture => Len(ts) <= VerifyRows, Forward(ts, capture)
  PROVE  Typed' /\ Buffered' /\ Exact' /\ StatesAgree' /\ Checkpointed'
<1>1. /\ ts \in Seq(Token) /\ Len(ts) \in 1 .. MaxTokens
      /\ MaxTokens \in Nat /\ Capacity \in Nat \ {0} /\ MaxEpoch \in Nat /\ MaxSerial \in Nat
      /\ NgramHistory \in Nat
  BY AppendsAreTexts, GraphAssumption
<1>2. /\ mem' \in [Buffers -> Text] /\ mem'[state_buf] = log \o ts
      /\ conv' = LastRows(log \o ts)
      /\ rows' \in [1 .. Capacity -> Vocab]
      /\ \A p \in 1 .. Len(log \o ts) : rows'[p] = (log \o ts)[p]
      /\ blocks' \in [1 .. (Capacity \div Ratio) -> [1 .. Ratio -> Vocab]]
      /\ \A b \in 1 .. (Len(log \o ts) \div Ratio) : blocks'[b] = Pool(log \o ts, b)
      /\ r' \in Seq(Text) /\ Len(r') = Len(ts)
      /\ \A j \in 1 .. Len(ts) : r'[j] = SubSeq(log \o ts, 1, Len(log) + j)
      /\ log \o ts \in Text /\ Len(log \o ts) = next_pos + Len(ts)
  BY KernelsRun DEF Forward
<1>3. /\ valid /\ next_pos = Len(log) /\ session.usable /\ ~changed /\ session.pos = next_pos
      /\ ngram.pos = next_pos /\ ngram.epoch = session.epoch /\ ngram.previous = Newest(log)
      /\ Len(ts) <= Capacity - next_pos /\ next_pos \in Nat /\ log \in Seq(Token)
      /\ session \in [epoch : 1 .. MaxEpoch, pos : 0 .. Capacity, usable : BOOLEAN]
      /\ ngram \in [epoch : Nat, pos : Nat, previous : [1 .. NgramHistory -> Vocab]]
  BY DEF IInv, Typed, Exact, StatesAgree, Represents, Forward, Admitted, Valid, Text
<1>4. /\ valid' = valid /\ changed' = changed /\ last_start' = next_pos /\ last_count' = Len(ts)
      /\ next_pos' = next_pos + Len(ts) /\ log' = log \o ts
      /\ UNCHANGED <<snapshot_serial, state_buf, snap_buf, history_buf, saved, snapshot, issued, mtp, pairs>>
      /\ session' = [session EXCEPT !.pos = next_pos + Len(ts)]
  BY DEF Forward, restores, predictor
<1>5. ngram' = [ngram EXCEPT !.pos = next_pos + Len(ts), !.previous = Newest(log \o ts)]
  <2>1. Recent(ts, Len(ts), Newest(log)) = Newest(log \o ts)
    <3>1. SubSeq(ts, 1, Len(ts)) = ts /\ Len(ts) \in 0 .. Len(ts)
      BY <1>1, SubSeqFull
    <3> QED
      <4>1. Recent(ts, Len(ts), Newest(log)) = Newest(log \o SubSeq(ts, 1, Len(ts)))
        BY <1>1, <1>3, <3>1, NewestOfConcat
      <4> QED
        BY <3>1, <4>1
  <2>2. ngram' = [ngram EXCEPT !.pos = @ + Len(ts), !.previous = Recent(ts, Len(ts), @)]
    BY DEF Forward, Recent
  <2> QED
    BY <1>3, <2>1, <2>2
<1>6. /\ session' \in [epoch : 1 .. MaxEpoch, pos : 0 .. Capacity, usable : BOOLEAN]
      /\ session'.epoch = session.epoch /\ session'.usable /\ session'.pos = next_pos + Len(ts)
  <2>1. next_pos + Len(ts) \in 0 .. Capacity
    BY <1>1, <1>3
  <2> QED
    BY <1>3, <1>4, <2>1
<1>7. /\ ngram' \in [epoch : Nat, pos : Nat, previous : [1 .. NgramHistory -> Vocab]]
      /\ ngram'.epoch = ngram.epoch /\ ngram'.pos = next_pos + Len(ts)
      /\ ngram'.previous = Newest(log \o ts)
  <2>1. Newest(log \o ts) \in [1 .. NgramHistory -> Vocab]
    BY <1>2, NewestType DEF Text
  <2>2. next_pos + Len(ts) \in Nat
    BY <1>1, <1>3
  <2> QED
    BY <1>3, <1>5, <2>1, <2>2
<1>8. Typed'
  <2>1. next_pos' \in 0 .. Capacity /\ last_start' \in 0 .. Capacity /\ last_count' \in 0 .. MaxTokens
    BY <1>1, <1>3, <1>4
  <2> QED
    BY <1>2, <1>4, <1>6, <1>7, <2>1 DEF IInv, Typed
<1>9. Buffered'
  BY <1>2, <1>4 DEF IInv, Buffered
<1>10. Exact'
  BY <1>1, <1>2, <1>3, <1>4, <1>7 DEF Exact, Represents, Cached, Residual
<1>11. StatesAgree'
  BY <1>3, <1>4, <1>6, <1>7 DEF StatesAgree
<1>12. Checkpointed'
  <2>1. session.epoch \in Nat /\ session'.epoch = session.epoch /\ snapshot_serial \in Nat
    BY <1>1, <1>3, <1>6 DEF IInv, Typed
  <2>2. \E t \in Seq(Token) : log' = log \o t
    BY <1>1, <1>4
  <2>3. /\ UNCHANGED <<issued, snapshot>>
        /\ session.epoch <= session'.epoch /\ session'.epoch \in Nat
        /\ snapshot_serial <= snapshot_serial' /\ snapshot_serial' \in Nat
    BY <1>4, <2>1
  <2> QED
    BY <1>3, <2>2, <2>3, CheckpointsKept
<1> QED
  BY <1>8, <1>9, <1>10, <1>11, <1>12

\* forward: a command that fails and invalidates the graph.
LEMMA ForwardFailedStep ==
  ASSUME IInv, NEW ts \in Appends(MaxTokens), NEW capture \in BOOLEAN,
         capture => Len(ts) <= VerifyRows, ForwardFailed(ts, capture)
  PROVE  /\ Typed' /\ Buffered' /\ Exact' /\ StatesAgree' /\ Checkpointed'
         /\ session'.epoch = session.epoch
<1>1. /\ ts \in Seq(Token) /\ Len(ts) \in 1 .. MaxTokens
      /\ MaxTokens \in Nat /\ Capacity \in Nat \ {0} /\ MaxEpoch \in Nat /\ MaxSerial \in Nat
  BY AppendsAreTexts, GraphAssumption
<1>2. /\ valid' = FALSE
      /\ UNCHANGED <<next_pos, last_start, last_count, snapshot_serial, state_buf, snap_buf,
                     history_buf, ngram, saved, snapshot, issued, mtp, pairs, log>>
  BY DEF ForwardFailed, restores, predictor
<1>3. /\ mem' \in [Buffers -> Text] /\ rows' \in [1 .. Capacity -> Vocab]
      /\ blocks' \in [1 .. (Capacity \div Ratio) -> [1 .. Ratio -> Vocab]] /\ r' \in Seq(Text)
  <2>1. CASE Kernels(ts, capture)
    BY <2>1, KernelsRun DEF ForwardFailed
  <2>2. CASE UNCHANGED <<mem, device>>
    BY <2>2 DEF device, IInv, Typed, Buffered
  <2> QED
    BY <2>1, <2>2 DEF ForwardFailed, FailedBefore, FailedEncoding, SomeKernels, FailedAfter
<1>4. /\ session.pos = next_pos /\ Len(ts) <= Capacity - next_pos /\ next_pos \in Nat
      /\ session \in [epoch : 1 .. MaxEpoch, pos : 0 .. Capacity, usable : BOOLEAN]
      /\ changed \in BOOLEAN
  BY DEF IInv, Typed, StatesAgree, ForwardFailed, Admitted, Valid
<1>5. /\ session' \in [epoch : 1 .. MaxEpoch, pos : 0 .. Capacity, usable : BOOLEAN]
      /\ session'.epoch = session.epoch /\ changed' \in BOOLEAN
  <2>1. CASE FailedBefore
    BY <1>4, <2>1 DEF FailedBefore
  <2>2. CASE FailedEncoding(ts, capture) /\ UNCHANGED changed
    BY <1>4, <2>2 DEF FailedEncoding
  <2>3. CASE FailedAfter(ts, capture)
    <3>1. session.pos + Len(ts) \in 0 .. Capacity
      BY <1>1, <1>4
    <3> QED
      BY <1>4, <2>3, <3>1 DEF FailedAfter
  <2> QED
    BY <2>1, <2>2, <2>3 DEF ForwardFailed
<1>6. Typed' /\ Buffered'
  BY <1>2, <1>3, <1>5 DEF IInv, Typed, Buffered
<1>7. Exact' /\ StatesAgree'
  BY <1>2 DEF Exact, StatesAgree
<1>8. Checkpointed'
  BY <1>1, <1>2, <1>4, <1>5, CheckpointsKept DEF IInv, Typed
<1> QED
  BY <1>5, <1>6, <1>7, <1>8

\* Steps that leave the trunk as it is, or only end its use.
LEMMA TrunkKept ==
  ASSUME IInv,
         UNCHANGED <<next_pos, last_start, last_count, snapshot_serial, gdn, device, hash,
                     issued, snapshot, log>>,
         valid' \in {valid, FALSE},
         \/ UNCHANGED session
         \/ ResetSession /\ valid' = FALSE,
         verify' \in {verify, NoVerify},
         mtp' \in [enabled : BOOLEAN, failed : BOOLEAN, usable : BOOLEAN, last_rows : Nat],
         pairs' \in Seq(Pair), Len(pairs') <= Capacity
  PROVE  IInv'
<1>1. /\ UNCHANGED <<mem, state_buf, snap_buf, history_buf, conv, rows, blocks, r, ngram, changed>>
      /\ Capacity \in Nat /\ MaxEpoch \in Nat
  BY GraphAssumption DEF gdn, device, hash
<1>2. session \in [epoch : 1 .. MaxEpoch, pos : 0 .. Capacity, usable : BOOLEAN] /\ valid \in BOOLEAN
      /\ snapshot_serial \in Nat /\ log \in Seq(Token)
  BY GraphAssumption DEF IInv, Typed, Text
<1>3. /\ session' \in [epoch : 1 .. MaxEpoch, pos : 0 .. Capacity, usable : BOOLEAN]
      /\ session.epoch <= session'.epoch /\ session'.epoch \in Nat /\ session.epoch \in Nat
      /\ valid' => valid /\ UNCHANGED session
  <2>1. CASE UNCHANGED session
    <3>1. valid' => valid
      OBVIOUS
    <3> QED
      BY <1>1, <1>2, <2>1, <3>1
  <2>2. CASE ResetSession /\ valid' = FALSE
    BY <1>1, <1>2, <2>2 DEF ResetSession
  <2> QED
    BY <2>1, <2>2
<1>4. Typed'
  BY <1>1, <1>2, <1>3 DEF IInv, Typed
<1>5. Buffered' /\ Exact' /\ StatesAgree'
  BY <1>1, <1>3 DEF IInv, Buffered, Exact, StatesAgree
<1>6. Recorded'
  BY <1>1, <1>2, <1>3, VerifyCleared, VerifyKept
<1>7. Checkpointed'
  <2>1. valid' => valid /\ \E t \in Seq(Token) : log' = log \o t
    <3>1. log' = log \o <<>> /\ <<>> \in Seq(Token)
      BY <1>2, ConcatEmptySeq
    <3> QED
      BY <1>3, <3>1
  <2>2. /\ UNCHANGED <<issued, snapshot>>
        /\ session.epoch <= session'.epoch /\ session'.epoch \in Nat
        /\ snapshot_serial <= snapshot_serial' /\ snapshot_serial' \in Nat
    BY <1>2, <1>3
  <2> QED
    BY <2>1, <2>2, CheckpointsKept
<1> QED
  BY <1>4, <1>5, <1>6, <1>7 DEF IInv

\* append_prefix: the first layers only, for diagnosis; the graph is unusable afterwards.
LEMMA AppendPrefixStep ==
  ASSUME IInv, NEW ts \in Appends(MaxTokens), append_prefix(ts) PROVE IInv'
<1>1. /\ Len(ts) \in 1 .. MaxTokens /\ MaxTokens \in Nat /\ Capacity \in Nat \ {0}
  BY AppendsAreTexts, GraphAssumption
<1>2. /\ valid' = FALSE /\ verify' = NoVerify
      /\ UNCHANGED <<next_pos, last_start, last_count, snapshot_serial, state_buf, snap_buf,
                     history_buf, ngram, changed, saved, snapshot, issued, mtp, pairs, log>>
      /\ session' = [session EXCEPT !.pos = @ + Len(ts)]
  BY DEF append_prefix, restores, predictor, hash
<1>3. /\ mem' \in [Buffers -> Text] /\ rows' \in [1 .. Capacity -> Vocab]
      /\ blocks' \in [1 .. (Capacity \div Ratio) -> [1 .. Ratio -> Vocab]] /\ r' \in Seq(Text)
  BY KernelsRun DEF append_prefix
<1>4. /\ session.pos = next_pos /\ Len(ts) <= Capacity - next_pos /\ next_pos \in Nat
      /\ session \in [epoch : 1 .. MaxEpoch, pos : 0 .. Capacity, usable : BOOLEAN]
      /\ snapshot_serial \in Nat /\ MaxEpoch \in Nat
  BY GraphAssumption DEF IInv, Typed, StatesAgree, append_prefix, Admitted, Valid
<1>5. /\ session' \in [epoch : 1 .. MaxEpoch, pos : 0 .. Capacity, usable : BOOLEAN]
      /\ session'.epoch = session.epoch /\ session.epoch \in Nat
  <2>1. session.pos + Len(ts) \in 0 .. Capacity
    BY <1>1, <1>4
  <2> QED
    BY <1>2, <1>4, <2>1
<1>6. Typed' /\ Buffered'
  BY <1>2, <1>3, <1>5 DEF IInv, Typed, Buffered
<1>7. Exact' /\ StatesAgree'
  BY <1>2 DEF Exact, StatesAgree
<1>8. Recorded'
  BY <1>2, <1>5, VerifyCleared
<1>9. Checkpointed'
  BY <1>2, <1>4, <1>5, CheckpointsKept
<1> QED
  BY <1>6, <1>7, <1>8, <1>9 DEF IInv

\* append: a published or a failed command, after which no verify can be settled.
LEMMA AppendStep ==
  ASSUME IInv, NEW ts \in Appends(MaxTokens), append(ts) PROVE IInv'
<1>1. Typed' /\ Buffered' /\ Exact' /\ StatesAgree' /\ Checkpointed'
  <2>1. CASE Forward(ts, FALSE)
    BY <2>1, ForwardStep
  <2>2. CASE ForwardFailed(ts, FALSE)
    BY <2>2, ForwardFailedStep
  <2> QED
    BY <2>1, <2>2 DEF append
<1>2. Recorded'
  <2>1. session'.epoch \in Nat
    BY <1>1, GraphAssumption DEF Typed
  <2> QED
    BY <2>1, VerifyCleared DEF append
<1> QED
  BY <1>1, <1>2 DEF IInv

\* verify: rows to be judged, with the states before them recorded.
LEMMA VerifyStep ==
  ASSUME IInv, NEW ts \in Appends(MaxTokens), verify_append(ts) PROVE IInv'
<1>1. /\ ts \in Seq(Token) /\ Len(ts) \in 2 .. VerifyRows /\ Len(ts) <= VerifyRows
      /\ Len(ts) \in Nat /\ VerifyRows \in Nat
  BY AppendsAreTexts, GraphAssumption DEF verify_append
<1>2. CASE Forward(ts, TRUE) /\ verify' = [rows |-> Len(ts), start |-> next_pos,
                 epoch |-> session.epoch, tokens |-> ts, conv_ext |-> conv \o ts,
                 ple_prev |-> ngram.previous]
  <2>1. Typed' /\ Buffered' /\ Exact' /\ StatesAgree' /\ Checkpointed'
    BY <1>1, <1>2, ForwardStep
  <2>2. /\ valid /\ next_pos = Len(log) /\ next_pos \in Nat /\ log \in Seq(Token)
        /\ conv = LastRows(log) /\ ngram.previous = Newest(log)
        /\ session.epoch \in Nat
    BY <1>2, GraphAssumption
    DEF IInv, Typed, Exact, StatesAgree, Represents, Forward, Admitted, Valid, Text
  <2>3. /\ last_start' = next_pos /\ last_count' = Len(ts) /\ log' = log \o ts
        /\ snap_buf' = snap_buf /\ session'.epoch = session.epoch
    BY <1>2 DEF Forward, IInv, Typed
  <2>4. SubSeq(log', 1, next_pos) = log
    <3>1. SubSeq(log \o ts, 1, Len(log)) = SubSeq(log, 1, Len(log))
      BY <1>1, <2>2, PrefixOfExtended
    <3> QED
      BY <2>2, <2>3, <3>1, SubSeqFull
  <2>5. \A j \in 1 .. (Len(ts) - 1) : mem'[snap_buf[j]] = log \o SubSeq(ts, 1, j)
    BY <1>1, <1>2, KernelsRun DEF Forward
  <2>6. Base' = log
    BY <1>2, <2>4 DEF Base
  <2>7. Len(log') = next_pos + Len(ts)
    BY <1>1, <2>2, <2>3, ConcatProperties
  <2>8. Recorded'
    <3>1. /\ verify'.rows = Len(ts) /\ verify'.start = next_pos /\ verify'.epoch = session.epoch
          /\ verify'.tokens = ts /\ verify'.conv_ext = LastRows(log) \o ts
          /\ verify'.ple_prev = Newest(log)
      BY <1>2, <2>2
    <3>2. Len(ts) \in 0 .. VerifyRows
      BY <1>1
    <3>3. verify'.rows \in 0 .. VerifyRows /\ verify'.epoch \in Nat /\ verify'.epoch <= session'.epoch
      BY <2>2, <2>3, <3>1, <3>2
    <3>4. /\ verify'.start \in Nat /\ verify'.tokens \in Seq(Token) /\ Len(verify'.tokens) = verify'.rows
          /\ Len(log') = verify'.start + verify'.rows
          /\ last_start' = verify'.start /\ last_count' = verify'.rows
      BY <1>1, <2>2, <2>3, <2>7, <3>1
    <3>5. /\ log' = Base' \o verify'.tokens
          /\ verify'.conv_ext = LastRows(Base') \o verify'.tokens
          /\ verify'.ple_prev = Newest(Base')
      BY <2>3, <2>6, <3>1
    <3>6. \A j \in 1 .. (verify'.rows - 1) :
            mem'[snap_buf'[j]] = Base' \o SubSeq(verify'.tokens, 1, j)
      BY <2>3, <2>5, <2>6, <3>1
    <3> QED
      BY <3>3, <3>4, <3>5, <3>6 DEF Recorded
  <2> QED
    BY <2>1, <2>8 DEF IInv
<1>3. CASE ForwardFailed(ts, TRUE) /\ verify' = NoVerify
  <2>1. Typed' /\ Buffered' /\ Exact' /\ StatesAgree' /\ Checkpointed'
    BY <1>1, <1>3, ForwardFailedStep
  <2>2. session'.epoch \in Nat
    BY <2>1, GraphAssumption DEF Typed
  <2> QED
    BY <1>3, <2>1, <2>2, VerifyCleared DEF IInv
<1> QED
  BY <1>2, <1>3 DEF verify_append

\* The caches of a text hold every beginning of it.
LEMMA CachesOfPrefix ==
  ASSUME NEW s \in Seq(Token), NEW m \in 0 .. Len(s), NEW cache, NEW pools, Cached(s, cache, pools)
  PROVE  Cached(SubSeq(s, 1, m), cache, pools)
<1>1. Len(s) \in Nat /\ m \in Nat /\ Ratio \in Nat \ {0}
  BY LenProperties, GraphAssumption
<1>2. \A p \in 1 .. m : SubSeq(s, 1, m)[p] = s[p]
  BY PrefixProperties
<1>3. ASSUME NEW b \in 1 .. (m \div Ratio) PROVE pools[b] = Pool(SubSeq(s, 1, m), b)
  <2>1. m \div Ratio \in Nat /\ Len(s) \div Ratio \in Nat
    BY <1>1, BlockWithin
  <2>2. b \in Nat \ {0} /\ b <= m \div Ratio
    BY <2>1
  <2>3. b * Ratio <= m /\ b * Ratio \in Nat
    BY <1>1, <2>2, BlockWithin
  <2>4. b * Ratio <= Len(s)
    BY <1>1, <2>3
  <2>5. b <= Len(s) \div Ratio
    BY <1>1, <2>2, <2>4, BlockWithin
  <2>6. pools[b] = Pool(s, b)
    BY <2>1, <2>2, <2>5 DEF Cached
  <2>7. \A i \in 1 .. Ratio : (b - 1) * Ratio + i \in 1 .. m
    BY <1>1, <2>2, BlockRows
  <2> QED
    BY <1>2, <2>6, <2>7 DEF Pool
<1>4. Len(SubSeq(s, 1, m)) = m /\ \A p \in 1 .. m : p \in 1 .. Len(s)
  BY <1>1, PrefixProperties
<1> QED
  BY <1>2, <1>3, <1>4 DEF Cached

\* Rolling back to the recorded states.
LEMMA SnapshotBecomesState ==
  ASSUME IInv, NEW k \in 1 .. (VerifyRows - 1), KeepState(k), UNCHANGED mem
  PROVE  Buffered' /\ state_buf' = snap_buf[k]
<1>1. Buffered /\ VerifyRows \in Nat
  BY GraphAssumption DEF IInv
<1>2. state_buf' = snap_buf[k] /\ history_buf' = snap_buf[k] /\ snap_buf[k] \in Buffers
  BY <1>1 DEF KeepState, Buffered
<1>3. /\ snap_buf' \in [1 .. (VerifyRows - 1) -> Buffers]
      /\ \A i \in 1 .. (VerifyRows - 1) : snap_buf'[i] = IF i = k THEN state_buf ELSE snap_buf[i]
  BY <1>1 DEF KeepState, Buffered
<1>4. \A b \in Buffers \ {state_buf'} : \E j \in 1 .. (VerifyRows - 1) : snap_buf'[j] = b
  <2> SUFFICES ASSUME NEW b \in Buffers, b # snap_buf[k]
               PROVE  \E j \in 1 .. (VerifyRows - 1) : snap_buf'[j] = b
    BY <1>2
  <2>1. CASE b = state_buf
    BY <1>3, <2>1
  <2>2. CASE b # state_buf
    <3>1. PICK j \in 1 .. (VerifyRows - 1) : snap_buf[j] = b
      BY <1>1, <2>2 DEF Buffered
    <3>2. snap_buf'[j] = b
      BY <1>3, <3>1
    <3> QED
      BY <3>2
  <2> QED
    BY <2>1, <2>2
<1>5. \A i \in 1 .. (VerifyRows - 1) : snap_buf'[i] # state_buf'
  BY <1>1, <1>2, <1>3 DEF Buffered
<1>6. \A i, j \in 1 .. (VerifyRows - 1) : snap_buf'[i] = snap_buf'[j] => i = j
  BY <1>1, <1>3 DEF Buffered
<1> QED
  BY <1>1, <1>2, <1>3, <1>4, <1>5, <1>6 DEF Buffered

\* keep: all, a prefix or none of the verified rows.
LEMMA KeepStep ==
  ASSUME IInv, NEW k \in 1 .. VerifyRows, keep(k) PROVE IInv'
<1>1. CASE k = verify.rows \/ session.epoch = MaxEpoch
  <2>1. /\ UNCHANGED <<next_pos, last_start, last_count, snapshot_serial, valid, session, gdn, device,
                       hash, issued, snapshot, log, mtp, pairs>>
        /\ verify' = NoVerify
    BY <1>1 DEF keep, graph, restores, predictor
  <2>2. valid' \in {valid, FALSE}
    BY <2>1
  <2> QED
    BY <2>1, <2>2, TrunkKept DEF IInv, Typed
<1>2. CASE ~(k = verify.rows \/ session.epoch = MaxEpoch)
  <2> DEFINE n == verify.start
             kept == Base \o SubSeq(verify.tokens, 1, k)
  <2>1. /\ verify' = NoVerify /\ SessionRewind(n + k) /\ KeepState(k)
        /\ conv' = KeptWindow(k) /\ ngram' = KeptNgram(k) /\ next_pos' = n + k /\ last_count' = k
        /\ snapshot_serial' = snapshot_serial + 1 /\ snapshot_serial < MaxSerial
        /\ log' = SubSeq(log, 1, n + k)
        /\ UNCHANGED <<valid, last_start, mem, rows, blocks, r, changed, saved, snapshot, issued, mtp, pairs>>
    BY <1>2 DEF keep, KeptRows, restores, predictor
  <2>2. /\ verify.rows > 0 /\ valid /\ verify.epoch = session.epoch /\ k \in 1 .. verify.rows
        /\ session.usable
    BY DEF keep, Pending, Valid
  <2>3. /\ Capacity \in Nat \ {0} /\ MaxTokens \in Nat /\ VerifyRows \in Nat /\ MaxEpoch \in Nat
        /\ MaxSerial \in Nat /\ Window \in Nat /\ verify.rows \in 0 .. VerifyRows
        /\ log \in Text /\ log \in Seq(Token) /\ Len(log) \in Nat /\ Len(log) <= Capacity
        /\ last_count \in 0 .. MaxTokens /\ snapshot_serial \in Nat
        /\ session \in [epoch : 1 .. MaxEpoch, pos : 0 .. Capacity, usable : BOOLEAN]
    BY GraphAssumption, LenProperties DEF IInv, Typed, Text, Recorded
  <2>4. /\ n \in Nat /\ verify.tokens \in Seq(Token) /\ Len(verify.tokens) = verify.rows
        /\ Len(log) = n + verify.rows
        /\ last_start = n /\ last_count = verify.rows
        /\ log = Base \o verify.tokens
        /\ verify.conv_ext = LastRows(Base) \o verify.tokens
        /\ verify.ple_prev = Newest(Base)
        /\ \A j \in 1 .. (verify.rows - 1) : mem[snap_buf[j]] = Base \o SubSeq(verify.tokens, 1, j)
    BY <2>2 DEF IInv, Recorded
  <2>5. /\ k \in 0 .. Len(verify.tokens) /\ k \in 1 .. (verify.rows - 1) /\ k \in 1 .. (VerifyRows - 1)
        /\ n \in 0 .. Len(log) /\ n + k \in 0 .. Len(log) /\ n + k \in 0 .. Capacity /\ k \in 0 .. MaxTokens
    <3>1. /\ k \in Nat /\ k # verify.rows /\ k \in 1 .. verify.rows /\ verify.rows \in Nat
          /\ verify.rows <= VerifyRows /\ verify.rows <= MaxTokens
      BY <1>2, <2>2, <2>3, <2>4
    <3>2. k <= verify.rows - 1
      BY <3>1
    <3>3. k \in 0 .. verify.rows /\ k \in 1 .. (verify.rows - 1) /\ k \in 1 .. (VerifyRows - 1)
          /\ k \in 0 .. MaxTokens
      BY <2>3, <3>1, <3>2
    <3>4. n \in 0 .. Len(log) /\ n + k \in 0 .. Len(log) /\ n + k \in 0 .. Capacity
      <4>1. n \in Nat /\ Len(log) = n + verify.rows /\ Len(log) <= Capacity /\ Capacity \in Nat
        BY <2>3, <2>4
      <4> HIDE DEF n
      <4> QED
        BY <3>1, <4>1
    <3> QED
      BY <2>4, <3>3, <3>4
  <2>6. Base \in Seq(Token) /\ Len(Base) = n
    BY <2>3, <2>5, PrefixProperties DEF Base
  <2>7. log' = kept /\ log' \in Text /\ Len(log') = n + k /\ log' \in Seq(Token)
    <3>1. SubSeq(Base \o verify.tokens, 1, Len(Base) + k) = kept
      BY <2>4, <2>5, <2>6, PrefixOfConcat
    <3>2. log' = kept
      BY <2>1, <2>4, <2>6, <3>1
    <3> QED
      BY <2>1, <2>3, <2>5, <3>2, PrefixIsText DEF Text
  <2>8. Buffered' /\ mem'[state_buf'] = log'
    <3>1. Buffered' /\ state_buf' = snap_buf[k]
      BY <2>1, <2>5, SnapshotBecomesState
    <3> QED
      BY <2>1, <2>4, <2>5, <2>7, <3>1
  <2>9. conv' = LastRows(log')
    BY <2>1, <2>4, <2>5, <2>6, <2>7, WindowOfConcat DEF KeptWindow
  <2>10. /\ ngram'.previous = Newest(log') /\ ngram'.pos = n + k /\ ngram'.epoch = session'.epoch
         /\ ngram' = [epoch |-> session'.epoch, pos |-> n + k, previous |-> Newest(log')]
    <3>1. Recent(verify.tokens, k, Newest(Base)) = Newest(kept)
      BY <2>4, <2>5, <2>6, NewestOfConcat
    <3>2. ngram' = [epoch |-> session'.epoch, pos |-> n + k, previous |-> Recent(verify.tokens, k, verify.ple_prev)]
      BY <2>1 DEF KeptNgram, Recent
    <3> QED
      BY <2>4, <2>7, <3>1, <3>2
  <2>11. /\ session' \in [epoch : 1 .. MaxEpoch, pos : 0 .. Capacity, usable : BOOLEAN]
         /\ session'.epoch = session.epoch + 1 /\ session'.pos = n + k /\ session'.usable
         /\ session.epoch \in Nat
    <3>1. session.epoch < MaxEpoch /\ session' = [session EXCEPT !.epoch = @ + 1, !.pos = n + k]
      BY <2>1 DEF SessionRewind
    <3>2. session.epoch + 1 \in 1 .. MaxEpoch
      BY <2>3, <3>1
    <3>3. session'.epoch = session.epoch + 1 /\ session'.pos = n + k /\ session'.usable
      BY <2>2, <2>3, <3>1
    <3>4. session.epoch \in Nat
      BY <2>3
    <3>5. session' \in [epoch : 1 .. MaxEpoch, pos : 0 .. Capacity, usable : BOOLEAN]
      BY <2>3, <2>5, <3>1, <3>2
    <3> QED
      BY <3>3, <3>4, <3>5
  <2>12. ngram' \in [epoch : Nat, pos : Nat, previous : [1 .. NgramHistory -> Vocab]]
    <3>1. Newest(log') \in [1 .. NgramHistory -> Vocab]
      BY <2>7, NewestType
    <3>2. session'.epoch \in Nat /\ n + k \in Nat
      BY <2>5, <2>11
    <3> QED
      BY <2>10, <3>1, <3>2
  <2>13. Typed'
    <3>1. snapshot_serial' \in 0 .. MaxSerial
      BY <2>1, <2>3
    <3> QED
      BY <2>1, <2>5, <2>7, <2>11, <2>12, <3>1 DEF IInv, Typed
  <2>14. Exact'
    <3>1. Cached(log', rows', blocks')
      <4>1. Cached(log, rows, blocks)
        BY <2>2 DEF IInv, Exact, Represents
      <4>2. Cached(SubSeq(log, 1, n + k), rows, blocks)
        BY <2>3, <2>5, <4>1, CachesOfPrefix
      <4> QED
        BY <2>1, <4>2
    <3>2. Residual(log', last_start', last_count', r')
      <4>1. \A j \in 1 .. verify.rows : r[j] = SubSeq(log, 1, n + j)
        BY <2>2, <2>4 DEF IInv, Exact, Residual
      <4>2. \A j \in 1 .. k : SubSeq(SubSeq(log, 1, n + k), 1, n + j) = SubSeq(log, 1, n + j)
        <5> SUFFICES ASSUME NEW j \in 1 .. k
                     PROVE  SubSeq(SubSeq(log, 1, n + k), 1, n + j) = SubSeq(log, 1, n + j)
          OBVIOUS
        <5>1. n + j \in 0 .. (n + k)
          BY <2>4, <2>5
        <5> QED
          BY <2>3, <2>5, <5>1, PrefixOfPrefix
      <4>3. \A j \in 1 .. k : j \in 1 .. verify.rows
        BY <2>3, <2>5
      <4> QED
        BY <2>1, <2>4, <2>5, <2>7, <4>1, <4>2, <4>3 DEF Residual
    <3> QED
      BY <2>1, <2>7, <2>8, <2>9, <2>10, <3>1, <3>2 DEF Exact, Represents
  <2>15. StatesAgree'
    BY <2>1, <2>2, <2>10, <2>11 DEF IInv, StatesAgree
  <2>16. Recorded' /\ Checkpointed'
    <3>1. session'.epoch \in Nat /\ session.epoch <= session'.epoch /\ session'.epoch # session.epoch
      BY <2>11
    <3>2. snapshot_serial <= snapshot_serial' /\ snapshot_serial' \in Nat
      BY <2>1, <2>3
    <3> QED
      BY <2>1, <3>1, <3>2, VerifyCleared, CheckpointsKept
  <2> QED
    BY <2>8, <2>13, <2>14, <2>15, <2>16 DEF IInv
<1> QED
  BY <1>1, <1>2

\* save: a checkpoint of states and text.
LEMMA SaveStep ==
  ASSUME IInv, save PROVE IInv'
<1>1. /\ valid /\ snapshot_serial < MaxSerial /\ snapshot_serial' = snapshot_serial + 1
      /\ snapshot' = [state |-> mem[history_buf], conv |-> conv, rows |-> rows,
                      blocks |-> blocks, r |-> r, previous |-> ngram.previous,
                      start |-> last_start, count |-> last_count]
      /\ saved' = [epoch |-> session.epoch, serial |-> snapshot_serial + 1,
                   position |-> next_pos, mtp_position |-> MtpPos]
      /\ issued' = issued \cup {[handle |-> saved', log |-> log, pairs |-> pairs]}
      /\ UNCHANGED <<valid, next_pos, last_start, last_count, session, gdn, device, hash,
                     verify, mtp, pairs, log>>
  BY DEF save, Valid, predictor
<1>2. /\ UNCHANGED <<mem, state_buf, snap_buf, history_buf, conv, rows, blocks, r, ngram, changed>>
      /\ MaxSerial \in Nat /\ Capacity \in Nat
  BY <1>1, GraphAssumption DEF gdn, device, hash
<1>3. /\ log \in Text /\ log \in Seq(Token) /\ Len(log) \in Nat /\ next_pos = Len(log)
      /\ mem[history_buf] = log /\ Represents(log, conv, rows, blocks, ngram.previous)
      /\ Residual(log, last_start, last_count, r)
      /\ snapshot_serial \in Nat /\ session.epoch \in Nat /\ MtpPos \in Nat
  BY <1>1, LenProperties DEF IInv, Typed, Buffered, Exact, Text, MtpPos
<1>4. Typed'
  <2>1. snapshot_serial' \in 0 .. MaxSerial
    BY <1>1, <1>2, <1>3
  <2> QED
    BY <1>1, <1>2, <2>1 DEF IInv, Typed
<1>5. Buffered' /\ Exact' /\ StatesAgree'
  BY <1>1, <1>2 DEF IInv, Buffered, Exact, StatesAgree
<1>6. Recorded'
  BY <1>1, <1>2, <1>3, VerifyKept
<1>7. Checkpointed'
  <2> SUFFICES ASSUME NEW s \in issued'
               PROVE  /\ s.handle \in Handle /\ s.log \in Text
                      /\ s.handle.position = Len(s.log)
                      /\ s.handle.epoch <= session'.epoch /\ s.handle.serial <= snapshot_serial'
                      /\ s.handle.serial = snapshot_serial' => Copied(s.log)'
    BY DEF Checkpointed
  <2>1. CASE s \in issued
    <3>1. /\ s.handle \in Handle /\ s.log \in Text
          /\ s.handle.position = Len(s.log)
          /\ s.handle.epoch <= session.epoch /\ s.handle.serial <= snapshot_serial
          /\ s.handle.serial \in Nat
      BY <2>1 DEF IInv, Checkpointed, Handle
    <3> QED
      BY <1>1, <1>3, <3>1
  <2>2. CASE s = [handle |-> saved', log |-> log, pairs |-> pairs]
    <3>1. /\ s.handle = saved' /\ s.log = log
          /\ saved'.epoch = session.epoch /\ saved'.serial = snapshot_serial'
          /\ saved'.position = Len(log) /\ saved' \in Handle
      BY <1>1, <1>3, <2>2 DEF Handle
    <3>2. Copied(log)'
      <4>1. /\ snapshot'.state = log /\ snapshot'.conv = conv /\ snapshot'.rows = rows
            /\ snapshot'.blocks = blocks /\ snapshot'.r = r /\ snapshot'.previous = ngram.previous
            /\ snapshot'.start = last_start /\ snapshot'.count = last_count
        BY <1>1, <1>3
      <4>2. SubSeq(log, 1, Len(log)) = log /\ Len(log) <= Len(log) /\ log' = log
        BY <1>1, <1>3, SubSeqFull
      <4> QED
        BY <1>3, <4>1, <4>2 DEF Copied, IInv, Typed
    <3>3. Copied(s.log)'
      BY <1>1, <3>1, <3>2 DEF Copied
    <3> QED
      BY <1>1, <1>3, <3>1, <3>3
  <2> QED
    BY <1>1, <2>1, <2>2
<1> QED
  BY <1>4, <1>5, <1>6, <1>7 DEF IInv

\* restore: the checkpoint's states, under a new epoch.
LEMMA RestoreStep ==
  ASSUME IInv, NEW s \in issued, restore(s) PROVE IInv'
<1> DEFINE p == s.handle.position
<1>1. /\ s.handle.epoch = session.epoch /\ s.handle.serial = snapshot_serial
      /\ valid /\ SessionRewind(p) /\ ~changed /\ snapshot_serial < MaxSerial
      /\ mem' = [mem EXCEPT ![history_buf] = snapshot.state]
      /\ conv' = snapshot.conv /\ rows' = snapshot.rows /\ blocks' = snapshot.blocks
      /\ r' = snapshot.r
      /\ last_start' = snapshot.start /\ last_count' = snapshot.count
      /\ ngram' = [epoch |-> session'.epoch, pos |-> p, previous |-> snapshot.previous]
      /\ next_pos' = p /\ snapshot_serial' = snapshot_serial + 1 /\ log' = s.log
      /\ UNCHANGED <<valid, state_buf, snap_buf, history_buf, changed, verify, snapshot, issued, mtp, pairs>>
  BY DEF restore, Fresh, Valid, Transfer, restores, predictor
<1>2. /\ s.log \in Text /\ s.log \in Seq(Token) /\ p = Len(s.log) /\ Copied(s.log) /\ p \in Nat
      /\ p <= Capacity
  BY <1>1, LenProperties DEF IInv, Checkpointed, Text
<1>3. /\ Capacity \in Nat /\ MaxEpoch \in Nat /\ MaxSerial \in Nat /\ snapshot_serial \in Nat
      /\ session \in [epoch : 1 .. MaxEpoch, pos : 0 .. Capacity, usable : BOOLEAN]
      /\ session.usable
      /\ mem \in [Buffers -> Text] /\ history_buf = state_buf /\ state_buf \in Buffers
  BY <1>1, GraphAssumption DEF IInv, Typed, Buffered, StatesAgree
<1>4. /\ session' \in [epoch : 1 .. MaxEpoch, pos : 0 .. Capacity, usable : BOOLEAN]
      /\ session'.epoch = session.epoch + 1 /\ session'.pos = p /\ session'.usable
      /\ session.epoch \in Nat
  <2>1. session.epoch < MaxEpoch /\ session' = [session EXCEPT !.epoch = @ + 1, !.pos = p]
    BY <1>1 DEF SessionRewind
  <2>2. session.epoch + 1 \in 1 .. MaxEpoch /\ p \in 0 .. Capacity /\ session.epoch \in Nat
    BY <1>2, <1>3, <2>1
  <2>3. session'.epoch = session.epoch + 1 /\ session'.pos = p /\ session'.usable
    BY <1>3, <2>1
  <2>4. session' \in [epoch : 1 .. MaxEpoch, pos : 0 .. Capacity, usable : BOOLEAN]
    BY <1>3, <2>1, <2>2
  <2> QED
    BY <2>2, <2>3, <2>4
<1>5. /\ snapshot.previous = Newest(s.log) /\ snapshot.conv = LastRows(s.log) /\ snapshot.state = s.log
      /\ Cached(s.log, snapshot.rows, snapshot.blocks)
      /\ Residual(s.log, snapshot.start, snapshot.count, snapshot.r)
      /\ snapshot.rows \in [1 .. Capacity -> Vocab]
      /\ snapshot.blocks \in [1 .. (Capacity \div Ratio) -> [1 .. Ratio -> Vocab]]
      /\ snapshot.r \in Seq(Text)
      /\ snapshot.start \in 0 .. Capacity /\ snapshot.count \in 0 .. MaxTokens
  BY <1>2 DEF Copied, Represents
<1>6. ngram' \in [epoch : Nat, pos : Nat, previous : [1 .. NgramHistory -> Vocab]]
  <2>1. Newest(s.log) \in [1 .. NgramHistory -> Vocab]
    BY <1>2, NewestType
  <2>2. session'.epoch \in Nat
    BY <1>4
  <2> QED
    BY <1>1, <1>2, <1>5, <2>1, <2>2
<1>7. Typed'
  <2>1. next_pos' \in 0 .. Capacity /\ snapshot_serial' \in 0 .. MaxSerial
    BY <1>1, <1>2, <1>3
  <2> QED
    BY <1>1, <1>2, <1>4, <1>5, <1>6, <2>1 DEF IInv, Typed
<1>8. Buffered' /\ mem'[state_buf'] = s.log
  <2>1. mem' \in [Buffers -> Text] /\ mem'[state_buf] = s.log
    BY <1>1, <1>2, <1>3, <1>5
  <2> QED
    BY <1>1, <2>1 DEF IInv, Buffered
<1>9. Exact'
  BY <1>1, <1>2, <1>5, <1>8 DEF Exact, Represents
<1>10. StatesAgree'
  BY <1>1, <1>4 DEF StatesAgree
<1>11. Recorded' /\ Checkpointed'
  <2>1. session'.epoch \in Nat /\ session.epoch <= session'.epoch /\ session'.epoch # session.epoch
    BY <1>4
  <2>2. snapshot_serial <= snapshot_serial' /\ snapshot_serial' \in Nat
    BY <1>1, <1>3
  <2> QED
    BY <1>1, <2>1, <2>2, VerifyKept, CheckpointsKept
<1> QED
  BY <1>7, <1>8, <1>9, <1>10, <1>11 DEF IInv

\* reset: an empty graph under a new epoch.
LEMMA ResetStep ==
  ASSUME IInv, reset PROVE IInv'
<1>1. /\ ResetSession /\ ~changed /\ snapshot_serial < MaxSerial
      /\ mem' = [mem EXCEPT ![history_buf] = <<>>]
      /\ conv' = LastRows(<<>>) /\ rows' = EmptyRows /\ blocks' = EmptyBlocks
      /\ ngram' = [epoch |-> session'.epoch, pos |-> 0, previous |-> Newest(<<>>)]
      /\ next_pos' = 0 /\ last_count' = 0 /\ snapshot_serial' = snapshot_serial + 1
      /\ verify' = NoVerify /\ mtp' = [mtp EXCEPT !.usable = TRUE, !.last_rows = 0] /\ pairs' = <<>>
      /\ valid' = TRUE /\ log' = <<>>
      /\ UNCHANGED <<last_start, state_buf, snap_buf, history_buf, r, changed, snapshot, issued>>
  BY DEF reset, restores
<1>2. /\ Capacity \in Nat \ {0} /\ MaxTokens \in Nat /\ MaxEpoch \in Nat /\ MaxSerial \in Nat
      /\ Ratio \in Nat \ {0}
      /\ session \in [epoch : 1 .. MaxEpoch, pos : 0 .. Capacity, usable : BOOLEAN]
      /\ mtp \in [enabled : BOOLEAN, failed : BOOLEAN, usable : BOOLEAN, last_rows : Nat]
      /\ snapshot_serial \in Nat
      /\ mem \in [Buffers -> Text] /\ history_buf = state_buf /\ state_buf \in Buffers
  BY GraphAssumption DEF IInv, Typed, Buffered
<1>3. <<>> \in Text /\ <<>> \in Seq(Token) /\ Len(<<>>) = 0
  BY <1>2 DEF Text
<1>4. /\ session' \in [epoch : 1 .. MaxEpoch, pos : 0 .. Capacity, usable : BOOLEAN]
      /\ session'.epoch = session.epoch + 1 /\ session'.pos = 0 /\ session'.usable
      /\ session.epoch \in Nat
  BY <1>1, <1>2 DEF ResetSession
<1>5. ngram' \in [epoch : Nat, pos : Nat, previous : [1 .. NgramHistory -> Vocab]]
  <2>1. Newest(<<>>) \in [1 .. NgramHistory -> Vocab]
    BY <1>3, NewestType
  <2>2. session'.epoch \in Nat
    BY <1>4
  <2> QED
    BY <1>1, <2>1, <2>2
<1>6. Typed'
  <2>1. /\ next_pos' \in 0 .. Capacity /\ last_count' \in 0 .. MaxTokens /\ snapshot_serial' \in 0 .. MaxSerial
        /\ last_start' \in 0 .. Capacity
    BY <1>1, <1>2 DEF IInv, Typed
  <2>2. /\ rows' \in [1 .. Capacity -> Vocab]
        /\ blocks' \in [1 .. (Capacity \div Ratio) -> [1 .. Ratio -> Vocab]]
    BY <1>1 DEF EmptyRows, EmptyBlocks, Vocab
  <2>3. mtp' \in [enabled : BOOLEAN, failed : BOOLEAN, usable : BOOLEAN, last_rows : Nat]
    BY <1>1, <1>2
  <2>4. pairs' \in Seq(Pair) /\ Len(pairs') <= Capacity /\ log' \in Text
    BY <1>1, <1>2, <1>3
  <2> QED
    BY <1>1, <1>4, <1>5, <2>1, <2>2, <2>3, <2>4 DEF IInv, Typed
<1>7. Buffered' /\ mem'[state_buf'] = <<>>
  <2>1. mem' \in [Buffers -> Text] /\ mem'[state_buf] = <<>>
    BY <1>1, <1>2, <1>3
  <2> QED
    BY <1>1, <2>1 DEF IInv, Buffered
<1>8. Exact'
  <2>1. 0 \div Ratio = 0
    <3>1. ~(1 <= 0 \div Ratio) /\ 0 \div Ratio \in Nat
      BY <1>2, BlockWithin
    <3> QED
      BY <3>1
  <2>2. Cached(<<>>, rows', blocks')
    BY <1>3, <2>1 DEF Cached
  <2> QED
    BY <1>1, <1>3, <1>7, <2>2 DEF Exact, Represents, Residual
<1>9. StatesAgree'
  BY <1>1, <1>4 DEF StatesAgree
<1>10. Recorded' /\ Checkpointed'
  <2>1. session'.epoch \in Nat /\ session.epoch <= session'.epoch /\ session'.epoch # session.epoch
    BY <1>4
  <2>2. snapshot_serial <= snapshot_serial' /\ snapshot_serial' \in Nat
    BY <1>1, <1>2
  <2> QED
    BY <1>1, <2>1, <2>2, VerifyCleared, CheckpointsKept
<1> QED
  BY <1>6, <1>7, <1>8, <1>9, <1>10 DEF IInv

\* The rows mtp_append offers are those of the positions it is admitted for.
LEMMA OfferedRows ==
  ASSUME IInv, NEW offset \in 0 .. MaxTokens, NEW ts \in Appends(MaxTokens), NEW j \in 1 .. Len(ts),
         MtpValid, offset + Len(ts) <= last_count, Len(pairs) = last_start + offset
  PROVE  /\ r[offset + j] \in Seq(Token)
         /\ Len(pairs) + j <= Len(log) /\ r[offset + j] = SubSeq(log, 1, Len(pairs) + j)
<1>1. /\ MaxTokens \in Nat /\ Len(ts) \in Nat /\ log \in Seq(Token) /\ Len(log) \in Nat
      /\ last_count \in Nat /\ last_start \in Nat /\ Len(ts) >= 1
  BY AppendsAreTexts, LenProperties, GraphAssumption DEF IInv, Typed, Text
<1>2. offset + j \in 1 .. last_count /\ last_count > 0
  BY <1>1
<1>3. /\ last_start + last_count = Len(log)
      /\ r[offset + j] = SubSeq(log, 1, last_start + (offset + j))
  BY <1>2 DEF IInv, Exact, Residual, MtpValid, Valid
<1>4. last_start + (offset + j) \in 0 .. Len(log) /\ last_start + (offset + j) = Len(pairs) + j
  BY <1>1, <1>2, <1>3
<1> QED
  BY <1>1, <1>3, <1>4, PrefixProperties

\* The predictor's own append.
LEMMA PredictorAppendStep ==
  ASSUME IInv, NEW new \in Seq(Pair), PredictorAppend(new) PROVE IInv'
<1>1. /\ UNCHANGED <<next_pos, last_start, last_count, snapshot_serial, gdn, device, hash,
                     issued, snapshot, log, session, verify>>
      /\ Len(new) \in 1 .. (Capacity - Len(pairs))
  BY DEF PredictorAppend, restores
<1>2. /\ mtp \in [enabled : BOOLEAN, failed : BOOLEAN, usable : BOOLEAN, last_rows : Nat]
      /\ pairs \in Seq(Pair) /\ Len(pairs) \in Nat /\ Len(pairs) <= Capacity /\ Capacity \in Nat
      /\ Len(new) \in Nat
  BY GraphAssumption, LenProperties DEF IInv, Typed
<1>3. pairs \o new \in Seq(Pair) /\ Len(pairs \o new) <= Capacity
  BY <1>1, <1>2, ConcatProperties
<1>4. CASE /\ pairs' = pairs \o new
           /\ mtp' = [mtp EXCEPT !.last_rows = Len(new)]
           /\ UNCHANGED valid
  <2>1. mtp' \in [enabled : BOOLEAN, failed : BOOLEAN, usable : BOOLEAN, last_rows : Nat]
    BY <1>2, <1>4
  <2>2. valid' \in {valid, FALSE}
    BY <1>4
  <2> QED
    BY <1>1, <1>3, <1>4, <2>1, <2>2, TrunkKept
<1>5. CASE /\ \E u \in {mtp.usable, FALSE} : mtp' = [mtp EXCEPT !.last_rows = 0, !.usable = u]
           /\ valid' = FALSE
           /\ UNCHANGED pairs
  <2>1. mtp' \in [enabled : BOOLEAN, failed : BOOLEAN, usable : BOOLEAN, last_rows : Nat]
    <3>1. PICK u \in {mtp.usable, FALSE} : mtp' = [mtp EXCEPT !.last_rows = 0, !.usable = u]
      BY <1>5
    <3>2. u \in BOOLEAN
      BY <1>2
    <3> HIDE <1>5
    <3> QED
      BY <1>2, <3>1, <3>2
  <2> QED
    BY <1>1, <1>2, <1>5, <2>1, TrunkKept
<1> QED
  BY <1>4, <1>5 DEF PredictorAppend

\* The pairs an append of the predictor adds.
LEMMA NewPairs ==
  ASSUME IInv, NEW offset \in 0 .. MaxTokens, NEW ts \in Appends(MaxTokens), mtp_append(offset, ts)
  PROVE  [j \in 1 .. Len(ts) |-> [row |-> r[offset + j], token |-> ts[j]]] \in Seq(Pair)
<1>1. ts \in Seq(Token) /\ Len(ts) \in Nat
  BY AppendsAreTexts, GraphAssumption
<1>2. ASSUME NEW j \in 1 .. Len(ts) PROVE [row |-> r[offset + j], token |-> ts[j]] \in Pair
  <2>1. r[offset + j] \in Seq(Token)
    BY OfferedRows DEF mtp_append
  <2>2. ts[j] \in Token
    BY <1>1, ElementOfSeq
  <2> QED
    BY <2>1, <2>2 DEF Pair
<1> QED
  BY <1>1, <1>2

\* The calls of the predictor.
LEMMA PredictorStep ==
  ASSUME IInv, Predictor PROVE IInv'
<1>1. /\ mtp \in [enabled : BOOLEAN, failed : BOOLEAN, usable : BOOLEAN, last_rows : Nat]
      /\ pairs \in Seq(Pair) /\ Len(pairs) \in Nat /\ Len(pairs) <= Capacity /\ Capacity \in Nat
  BY GraphAssumption, LenProperties DEF IInv, Typed
<1>2. CASE mtp_enable
  <2>1. /\ mtp' \in [enabled : BOOLEAN, failed : BOOLEAN, usable : BOOLEAN, last_rows : Nat]
        /\ valid' \in {valid, FALSE}
    BY <1>1, <1>2 DEF mtp_enable
  <2>2. UNCHANGED <<next_pos, last_start, last_count, snapshot_serial, gdn, device, hash,
                    issued, snapshot, log, session, verify, pairs>>
    BY <1>2 DEF mtp_enable, restores
  <2> QED
    BY <1>1, <2>1, <2>2, TrunkKept
<1>3. ASSUME NEW ts \in Appends(MaxTokens), NEW offset \in 0 .. MaxTokens, mtp_append(offset, ts)
      PROVE  IInv'
  BY <1>3, NewPairs, PredictorAppendStep DEF mtp_append
<1>4. ASSUME NEW t \in Token, mtp_chain(t) PROVE IInv'
  <2>1. <<[row |-> Own, token |-> t]>> \in Seq(Pair)
    BY DEF Own, Pair
  <2> QED
    BY <1>4, <2>1, PredictorAppendStep DEF mtp_chain
<1>5. ASSUME NEW p \in 0 .. Capacity, mtp_rewind(p) PROVE IInv'
  <2>1. /\ UNCHANGED <<next_pos, last_start, last_count, snapshot_serial, gdn, device, hash,
                       issued, snapshot, log, session, verify, valid>>
        /\ p < Len(pairs) /\ pairs' = SubSeq(pairs, 1, p) /\ mtp' = [mtp EXCEPT !.last_rows = 0]
    BY <1>5 DEF mtp_rewind, restores, graph
  <2>2. pairs' \in Seq(Pair) /\ Len(pairs') <= Capacity
    <3>1. p \in 0 .. Len(pairs)
      BY <1>1, <2>1
    <3> QED
      BY <1>1, <2>1, <3>1, PrefixProperties
  <2>3. mtp' \in [enabled : BOOLEAN, failed : BOOLEAN, usable : BOOLEAN, last_rows : Nat]
        /\ valid' \in {valid, FALSE}
    BY <1>1, <2>1
  <2> QED
    BY <2>1, <2>2, <2>3, TrunkKept
<1>6. CASE reset_halfway
  <2>1. /\ UNCHANGED <<next_pos, last_start, last_count, snapshot_serial, gdn, device, hash,
                       issued, snapshot, log, verify, mtp, pairs>>
        /\ ResetSession /\ valid' = FALSE
    BY <1>6 DEF reset_halfway, restores, predictor
  <2> QED
    BY <1>1, <2>1, TrunkKept
<1> QED
  BY <1>2, <1>3, <1>4, <1>5, <1>6 DEF Predictor

\* The calls of the trunk.
LEMMA TrunkStep ==
  ASSUME IInv, Trunk PROVE IInv'
<1>1. /\ mtp \in [enabled : BOOLEAN, failed : BOOLEAN, usable : BOOLEAN, last_rows : Nat]
      /\ pairs \in Seq(Pair) /\ Len(pairs) <= Capacity /\ Capacity \in Nat
  BY GraphAssumption DEF IInv, Typed
<1>2. CASE append_refused
  <2>1. /\ UNCHANGED <<next_pos, last_start, last_count, snapshot_serial, gdn, device, hash,
                       issued, snapshot, log, session, valid, mtp, pairs>>
        /\ verify' = NoVerify
    BY <1>2 DEF append_refused, restores, graph, predictor
  <2>2. valid' \in {valid, FALSE}
    BY <2>1
  <2> QED
    BY <1>1, <2>1, <2>2, TrunkKept
<1>3. CASE reset_failed
  <2>1. /\ UNCHANGED <<next_pos, last_start, last_count, snapshot_serial, gdn, device, hash,
                       issued, snapshot, log, verify>>
        /\ valid' = FALSE
    BY <1>3 DEF reset_failed, restores
  <2>2. CASE UNCHANGED <<session, pairs, mtp>>
    BY <1>1, <2>1, <2>2, TrunkKept
  <2>3. CASE ResetSession /\ pairs' = <<>> /\ mtp' = [mtp EXCEPT !.usable = TRUE]
    <3>1. <<>> \in Seq(Pair) /\ Len(<<>>) <= Capacity
      BY <1>1
    <3>2. mtp' \in [enabled : BOOLEAN, failed : BOOLEAN, usable : BOOLEAN, last_rows : Nat]
      BY <1>1, <2>3
    <3> QED
      BY <2>1, <2>3, <3>1, <3>2, TrunkKept
  <2> QED
    BY <1>3, <2>2, <2>3 DEF reset_failed
<1> QED
  BY <1>2, <1>3, AppendStep, AppendPrefixStep, VerifyStep, KeepStep, SaveStep, RestoreStep,
     ResetStep
  DEF Trunk

\* Every step keeps the invariant.
LEMMA StepIInv ==
  ASSUME IInv, [Next]_vars PROVE IInv'
<1>1. CASE Next
  BY <1>1, TrunkStep, PredictorStep DEF Next
<1>2. CASE UNCHANGED vars
  <2>1. /\ UNCHANGED <<next_pos, last_start, last_count, snapshot_serial, gdn, device, hash,
                       issued, snapshot, log, session, verify, valid, mtp, pairs>>
    BY <1>2 DEF vars, graph, restores, predictor
  <2>2. valid' \in {valid, FALSE}
    BY <2>1
  <2> QED
    BY <2>1, <2>2, TrunkKept DEF IInv, Typed
<1> QED
  BY <1>1, <1>2

\* The invariant holds in every reachable state.
LEMMA Invariance == Spec => []IInv
BY InitIInv, StepIInv, PTL DEF Spec

-----------------------------------------------------------------------------
(* What follows for the program.                                           *)

\* The state of a valid graph is that of one fresh pass over its tokens,
\* whatever was verified, kept in part, saved, restored, reset or poisoned
\* before: position, recurrent state, window, QSA rows and blocks, n-grams.
THEOREM ExactHistory == Spec => []HistoryExact
<1>1. IInv => HistoryExact
  BY DEF IInv, Exact, Represents, Cached, HistoryExact
<1> QED
  BY <1>1, Invariance, PTL

\* The next append of a valid graph is refused neither by its session nor by
\* the n-gram store: positions, epochs and usability agree.
THEOREM AgreeingStates == Spec => []StatesAgree
<1>1. IInv => StatesAgree
  BY DEF IInv
<1> QED
  BY <1>1, Invariance, PTL

\* The residual rows on offer to the predictor are those of the last rows kept.
THEOREM MatchingResidual == Spec => []ResidualMatch
<1>1. IInv => ResidualMatch
  BY DEF IInv, Exact, Residual, ResidualMatch
<1> QED
  BY <1>1, Invariance, PTL

\* Every step keeps the predictor's cache, cuts it at its end or adds pairs of
\* the text the graph holds: mtp_append admits only the rows of the position the
\* predictor stands at, and those of a valid graph are of its text.
LEMMA FeedStep ==
  ASSUME IInv, [Next]_vars PROVE [Feeds]_pairs
<1>1. pairs \in Seq(Pair) /\ Len(pairs) \in Nat
  BY LenProperties DEF IInv, Typed
<1>2. CASE UNCHANGED pairs
  BY <1>2
<1>3. CASE pairs' = <<>>
  <2>1. 0 \in 0 .. Len(pairs) /\ SubSeq(pairs, 1, 0) = <<>>
    BY <1>1, SubSeqEmpty
  <2> QED
    BY <1>3, <2>1 DEF Feeds
<1>4. ASSUME NEW new \in Seq(Pair), pairs' = pairs \o new,
             \A j \in 1 .. Len(new) :
                \/ new[j].row = Own
                \/ Len(pairs) + j <= Len(log) /\ new[j].row = SubSeq(log, 1, Len(pairs) + j)
      PROVE  Feeds
  <2>1. /\ Len(pairs') = Len(pairs) + Len(new) /\ Len(new) \in Nat
        /\ \A p \in 1 .. Len(pairs') :
             pairs'[p] = IF p <= Len(pairs) THEN pairs[p] ELSE new[p - Len(pairs)]
    BY <1>1, <1>4, ConcatProperties, LenProperties
  <2>2. ASSUME NEW p \in (Len(pairs) + 1) .. Len(pairs')
        PROVE  \/ pairs'[p].row = Own
               \/ p <= Len(log) /\ pairs'[p].row = SubSeq(log, 1, p)
    <3>1. /\ p - Len(pairs) \in 1 .. Len(new) /\ Len(pairs) + (p - Len(pairs)) = p
          /\ pairs'[p] = new[p - Len(pairs)]
      BY <1>1, <2>1
    <3> QED
      BY <1>4, <3>1
  <2>3. SubSeq(pairs', 1, Len(pairs)) = pairs
    BY <1>1, <1>4, PrefixOfExtended, SubSeqFull
  <2> QED
    BY <1>1, <2>1, <2>2, <2>3 DEF Feeds
<1>5. ASSUME NEW ts \in Appends(MaxTokens), NEW offset \in 0 .. MaxTokens, mtp_append(offset, ts)
      PROVE  [Feeds]_pairs
  <2> DEFINE new == [j \in 1 .. Len(ts) |-> [row |-> r[offset + j], token |-> ts[j]]]
  <2>1. new \in Seq(Pair)
    BY <1>5, NewPairs
  <2>2. Len(ts) \in Nat /\ Len(new) = Len(ts)
    BY AppendsAreTexts, GraphAssumption
  <2>3. ASSUME NEW j \in 1 .. Len(new)
        PROVE  Len(pairs) + j <= Len(log) /\ new[j].row = SubSeq(log, 1, Len(pairs) + j)
    <3>1. new[j].row = r[offset + j]
      BY <2>2
    <3> QED
      BY <1>5, <2>2, <3>1, OfferedRows DEF mtp_append
  <2>4. UNCHANGED pairs \/ pairs' = pairs \o new
    BY <1>5 DEF mtp_append, PredictorAppend
  <2> HIDE DEF new
  <2> QED
    BY <1>4, <2>1, <2>3, <2>4
<1>6. ASSUME NEW t \in Token, mtp_chain(t) PROVE [Feeds]_pairs
  <2> DEFINE new == <<[row |-> Own, token |-> t]>>
  <2>1. new \in Seq(Pair) /\ \A j \in 1 .. Len(new) : new[j].row = Own
    BY DEF Own, Pair
  <2>2. UNCHANGED pairs \/ pairs' = pairs \o new
    BY <1>6 DEF mtp_chain, PredictorAppend
  <2> HIDE DEF new
  <2> QED
    BY <1>4, <2>1, <2>2
<1>7. ASSUME NEW p \in 0 .. Capacity, mtp_rewind(p) PROVE Feeds
  BY <1>1, <1>7 DEF mtp_rewind, Feeds
<1>8. CASE Trunk
  BY <1>2, <1>3, <1>8
  DEF Trunk, append, Forward, ForwardFailed, append_prefix, verify_append, append_refused, keep,
      save, restore, reset, reset_failed, predictor
<1>9. CASE Predictor
  BY <1>2, <1>5, <1>6, <1>7, <1>9 DEF Predictor, mtp_enable, reset_halfway, predictor
<1> QED
  BY <1>2, <1>8, <1>9 DEF Next, vars, predictor

\* Whatever was verified, kept in part, restored, reset or rewound before, a
\* call feeds the predictor rows of the text the graph holds at that moment,
\* each at its own position, or the predictor's own.
THEOREM PairsFromText == Spec => FedFromText
BY FeedStep, Invariance, PTL DEF Spec, FedFromText

-----------------------------------------------------------------------------
(* The graph as a user of its session.                                     *)

\* A call either leaves the session's log alone or appends one command to it.
LEMMA SessionKeptOrLogged ==
  ASSUME IInv, NEW ts \in Appends(MaxTokens), Admitted(ts),
         \/ UNCHANGED session
         \/ session' = [session EXCEPT !.usable = FALSE]
         \/ session' = [session EXCEPT !.pos = session.pos + Len(ts)]
  PROVE  [Log!Next]_(Log!vars)
<1>1. /\ Len(ts) \in 1 .. Capacity /\ session.pos + Len(ts) <= Capacity
      /\ session.usable = TRUE
  <2>1. Len(ts) \in 1 .. MaxTokens /\ MaxTokens \in 1 .. Capacity /\ Capacity \in Nat
    BY AppendsAreTexts, GraphAssumption
  <2>2. session.pos = next_pos /\ next_pos \in Nat /\ Len(ts) <= Capacity - next_pos /\ session.usable
        /\ session.usable \in BOOLEAN
    BY DEF IInv, Typed, StatesAgree, Admitted, Valid
  <2> QED
    BY <2>1, <2>2
<1>2. session \in [epoch : 1 .. MaxEpoch, pos : 0 .. Capacity, usable : BOOLEAN]
  BY DEF IInv, Typed
<1>3. CASE UNCHANGED session
  BY <1>3 DEF Log!vars
<1>4. CASE session' = [session EXCEPT !.usable = FALSE]
  <2>1. Log!Poison
    BY <1>1, <1>2, <1>4 DEF Log!Poison
  <2> QED
    BY <2>1 DEF Log!Next
<1>5. CASE session' = [session EXCEPT !.pos = session.pos + Len(ts)]
  <2>1. Log!Publish(Len(ts))
    BY <1>1, <1>2, <1>5 DEF Log!Publish
  <2> QED
    BY <1>1, <2>1 DEF Log!Next
<1> QED
  BY <1>3, <1>4, <1>5

\* A rollback or a restore rewinds the log under a new epoch.
LEMMA SessionRewound ==
  ASSUME IInv, NEW p \in Nat, SessionRewind(p) PROVE Log!Next
<1>1. /\ session \in [epoch : 1 .. MaxEpoch, pos : 0 .. Capacity, usable : BOOLEAN]
      /\ RewindWindow \in Nat /\ Capacity \in Nat /\ MaxEpoch \in Nat
  BY GraphAssumption DEF IInv, Typed
<1>2. session.usable /\ p \in 0 .. session.pos /\ session.pos <= p + RewindWindow
      /\ session.epoch < MaxEpoch
  BY <1>1 DEF SessionRewind
<1>3. session'.epoch = session.epoch + 1 /\ session'.pos = p /\ session'.usable = session.usable
  BY <1>1 DEF SessionRewind
<1>4. Log!Rewind(p)
  BY <1>2, <1>3 DEF Log!Rewind
<1> QED
  BY <1>2, <1>4 DEF Log!Next

\* Towards its session the graph publishes whole appends, poisons it, rewinds
\* it by a few rows for keep and restore, or resets it: nothing else.
THEOREM SessionAsLog == Spec => SessionIsLog
<1>1. Init => Log!Init
  BY DEF Init, Log!Init
<1>2. ASSUME IInv, [Next]_vars PROVE [Log!Next]_(Log!vars)
  <2>1. CASE UNCHANGED session
    BY <2>1 DEF Log!vars
  <2>2. ASSUME ResetSession PROVE [Log!Next]_(Log!vars)
    BY <2>2 DEF ResetSession, Log!Next, Log!Reset
  <2>3. ASSUME NEW ts \in Appends(MaxTokens), NEW capture \in BOOLEAN,
               Forward(ts, capture) \/ ForwardFailed(ts, capture)
        PROVE  [Log!Next]_(Log!vars)
    <3>1. Admitted(ts)
      BY <2>3 DEF Forward, ForwardFailed
    <3>2. CASE Forward(ts, capture)
      <4>1. session' = [session EXCEPT !.pos = session.pos + Len(ts)]
        BY <3>2 DEF Forward
      <4> QED
        BY <1>2, <3>1, <4>1, SessionKeptOrLogged
    <3>3. CASE ForwardFailed(ts, capture)
      <4>1. \/ UNCHANGED session
            \/ session' = [session EXCEPT !.usable = FALSE]
            \/ session' = [session EXCEPT !.pos = session.pos + Len(ts)]
        BY <3>3 DEF ForwardFailed, FailedBefore, FailedEncoding, FailedAfter
      <4> QED
        BY <1>2, <3>1, <4>1, SessionKeptOrLogged
    <3> QED
      BY <2>3, <3>2, <3>3
  <2>4. ASSUME NEW ts \in Appends(MaxTokens), append_prefix(ts) PROVE [Log!Next]_(Log!vars)
    <3>1. Admitted(ts) /\ session' = [session EXCEPT !.pos = session.pos + Len(ts)]
      BY <2>4 DEF append_prefix
    <3> QED
      BY <1>2, <3>1, SessionKeptOrLogged
  <2>5. ASSUME NEW k \in 1 .. VerifyRows, keep(k) PROVE [Log!Next]_(Log!vars)
    <3>1. CASE SessionRewind(verify.start + k)
      <4>1. verify.start + k \in Nat
        <5>1. Pending
          BY <2>5 DEF keep
        <5>2. verify.start = last_start /\ last_start \in Nat /\ k \in Nat
          BY <1>2, <5>1, GraphAssumption DEF Pending, IInv, Typed
        <5> QED
          BY <5>2
      <4> QED
        BY <1>2, <3>1, <4>1, SessionRewound
    <3> QED
      BY <2>1, <2>5, <3>1 DEF keep
  <2>6. ASSUME NEW s \in issued, restore(s) PROVE [Log!Next]_(Log!vars)
    <3>1. SessionRewind(s.handle.position) /\ s.handle.position \in Nat
      BY <1>2, <2>6 DEF restore, IInv, Checkpointed, Handle
    <3> QED
      BY <1>2, <3>1, SessionRewound
  <2>7. CASE Trunk
    <3>1. CASE \E ts \in Appends(MaxTokens) : append(ts) \/ append_prefix(ts) \/ verify_append(ts)
      BY <2>3, <2>4, <3>1 DEF append, verify_append
    <3>2. CASE append_refused \/ save
      BY <2>1, <3>2 DEF append_refused, save
    <3>3. CASE reset \/ reset_failed
      BY <2>1, <2>2, <3>3 DEF reset, reset_failed
    <3> QED
      BY <2>5, <2>6, <2>7, <3>1, <3>2, <3>3 DEF Trunk
  <2>8. CASE Predictor
    BY <2>1, <2>2, <2>8
    DEF Predictor, mtp_enable, mtp_append, mtp_chain, PredictorAppend, mtp_rewind, reset_halfway
  <2> QED
    BY <1>2, <2>1, <2>7, <2>8 DEF Next, vars
<1> QED
  BY <1>1, <1>2, Invariance, PTL DEF Spec, SessionIsLog, Log!Spec
-----------------------------------------------------------------------------
(* The graph as a text with a predictor beside it.                         *)

\* The values TokenGraph's variables have.
Partner == [p \in 1 .. Len(pairs) |-> pairs[p].token]
Waiting == IF Pending THEN verify.rows ELSE 0

\* The graph is valid exactly when its session is usable.
LEMMA ValidIsUsable == IInv => (Valid <=> valid)
BY DEF IInv, StatesAgree, Valid

\* The tokens the predictor has seen.
LEMMA PartnerType ==
  ASSUME IInv
  PROVE  Partner \in Seq(Token) /\ Len(Partner) = Len(pairs) /\ Len(pairs) \in Nat
<1>1. pairs \in Seq(Pair) /\ Len(pairs) \in Nat
  BY LenProperties DEF IInv, Typed
<1>2. ASSUME NEW p \in 1 .. Len(pairs) PROVE pairs[p].token \in Token
  <2>1. pairs[p] \in Pair
    BY <1>1, ElementOfSeq
  <2> QED
    BY <2>1 DEF Pair
<1> QED
  BY <1>1, <1>2 DEF Partner

\* Dropping all pairs drops all its tokens.
LEMMA PartnerEmptied == pairs' = <<>> => Partner' = <<>>
BY DEF Partner

\* Appending pairs.
LEMMA PairsAppended ==
  ASSUME NEW s \in Seq(Pair), NEW t \in Seq(Pair)
  PROVE  /\ s \o t \in Seq(Pair) /\ Len(s \o t) = Len(s) + Len(t)
         /\ \A p \in 1 .. (Len(s) + Len(t)) :
              (s \o t)[p] = IF p <= Len(s) THEN s[p] ELSE t[p - Len(s)]
BY ConcatProperties

\* Appending pairs appends their tokens.
LEMMA PartnerExtended ==
  ASSUME IInv, NEW new \in Seq(Pair), NEW ts \in Seq(Token), Len(new) = Len(ts),
         \A j \in 1 .. Len(ts) : new[j].token = ts[j], pairs' = pairs \o new
  PROVE  Partner' = Partner \o ts
<1>1. /\ pairs \in Seq(Pair) /\ Len(pairs) \in Nat /\ Len(ts) \in Nat
      /\ Partner \in Seq(Token) /\ Len(Partner) = Len(pairs)
  BY PartnerType, LenProperties DEF IInv, Typed
<1>2. /\ Len(pairs') = Len(pairs) + Len(ts) /\ pairs' \in Seq(Pair)
      /\ \A p \in 1 .. Len(pairs') :
           pairs'[p] = IF p <= Len(pairs) THEN pairs[p] ELSE new[p - Len(pairs)]
  <2>1. /\ pairs \o new \in Seq(Pair) /\ Len(pairs \o new) = Len(pairs) + Len(new)
        /\ \A p \in 1 .. (Len(pairs) + Len(new)) :
             (pairs \o new)[p] = IF p <= Len(pairs) THEN pairs[p] ELSE new[p - Len(pairs)]
    BY <1>1, PairsAppended
  <2> QED
    BY <2>1
<1>3. /\ Partner \o ts \in Seq(Token) /\ Len(Partner \o ts) = Len(pairs) + Len(ts)
      /\ \A p \in 1 .. (Len(pairs) + Len(ts)) :
           (Partner \o ts)[p] = IF p <= Len(pairs) THEN Partner[p] ELSE ts[p - Len(pairs)]
  <2>1. /\ Partner \o ts \in Seq(Token) /\ Len(Partner \o ts) = Len(Partner) + Len(ts)
        /\ \A p \in 1 .. (Len(Partner) + Len(ts)) :
             (Partner \o ts)[p] = IF p <= Len(Partner) THEN Partner[p] ELSE ts[p - Len(Partner)]
    BY <1>1, ConcatProperties
  <2> QED
    BY <1>1, <2>1
<1>4. ASSUME NEW p \in 1 .. Len(pairs') PROVE pairs'[p].token \in Token
  <2>1. pairs'[p] \in Pair
    BY <1>2, ElementOfSeq
  <2> QED
    BY <2>1 DEF Pair
<1>5. Partner' \in Seq(Token) /\ Len(Partner') = Len(pairs) + Len(ts)
  BY <1>1, <1>2, <1>4 DEF Partner
<1>6. ASSUME NEW p \in 1 .. (Len(pairs) + Len(ts)) PROVE Partner'[p] = (Partner \o ts)[p]
  <2>1. Partner'[p] = pairs'[p].token
    BY <1>2 DEF Partner
  <2>2. CASE p <= Len(pairs)
    <3>1. Partner[p] = pairs[p].token
      BY <1>1, <2>2 DEF Partner
    <3> QED
      BY <1>2, <1>3, <2>1, <2>2, <3>1
  <2>3. CASE ~(p <= Len(pairs))
    <3>1. p - Len(pairs) \in 1 .. Len(ts)
      BY <1>1, <2>3
    <3> QED
      BY <1>2, <1>3, <2>1, <2>3, <3>1
  <2> QED
    BY <2>2, <2>3
<1> QED
  BY <1>3, <1>5, <1>6, SeqEqual

\* Dropping pairs drops their tokens.
LEMMA PartnerRewound ==
  ASSUME IInv, NEW p \in 0 .. Len(pairs), pairs' = SubSeq(pairs, 1, p)
  PROVE  Partner' = SubSeq(Partner, 1, p)
<1>1. /\ pairs \in Seq(Pair) /\ Len(pairs) \in Nat
      /\ Partner \in Seq(Token) /\ Len(Partner) = Len(pairs)
  BY PartnerType DEF IInv, Typed
<1>2. /\ Len(pairs') = p /\ \A i \in 1 .. p : pairs'[i] = pairs[i]
      /\ SubSeq(Partner, 1, p) \in Seq(Token) /\ Len(SubSeq(Partner, 1, p)) = p
      /\ \A i \in 1 .. p : SubSeq(Partner, 1, p)[i] = Partner[i]
  BY <1>1, PrefixProperties
<1>3. ASSUME NEW i \in 1 .. p PROVE i \in 1 .. Len(pairs) /\ pairs[i].token \in Token
  <2>1. i \in 1 .. Len(pairs) /\ pairs[i] \in Pair
    BY <1>1, ElementOfSeq
  <2> QED
    BY <2>1 DEF Pair
<1>4. Partner' \in Seq(Token) /\ Len(Partner') = p /\ \A i \in 1 .. p : Partner'[i] = Partner[i]
  BY <1>1, <1>2, <1>3 DEF Partner
<1> QED
  BY <1>2, <1>4, SeqEqual

\* A settled verify leaves nothing waiting.
LEMMA WaitingEnds == verify' = NoVerify => Waiting' = 0
BY DEF Waiting, Pending, NoVerify

\* Any step that leaves the graph invalid and the text alone.
LEMMA FailStep ==
  ASSUME valid' = FALSE, UNCHANGED <<log, last_start, last_count>>,
         mtp'.enabled = mtp.enabled,
         mtp'.last_rows = mtp.last_rows \/ mtp'.last_rows = 0,
         UNCHANGED pairs \/ pairs' = <<>>
  PROVE  Calls!GNext
<1>1. Valid' = FALSE /\ Waiting' = 0
  BY DEF Valid, Waiting, Pending
<1>2. Partner' \in {Partner, <<>>}
  BY PartnerEmptied DEF Partner
<1>3. Calls!Fail
  BY <1>1, <1>2 DEF Calls!Fail, Calls!trunk, Partner, Waiting
<1> QED
  BY <1>3 DEF Calls!GNext

\* A failed forward is an abstract failure.
LEMMA ForwardFails ==
  ASSUME NEW ts, NEW capture, ForwardFailed(ts, capture) PROVE Calls!GNext
<1>1. valid' = FALSE /\ UNCHANGED <<log, last_start, last_count, mtp, pairs>>
  BY DEF ForwardFailed, predictor
<1> QED
  BY <1>1, FailStep

\* A published forward extends the abstract text.
LEMMA ForwardExtends ==
  ASSUME IInv, IInv', NEW ts \in Appends(MaxTokens), NEW capture \in BOOLEAN, Forward(ts, capture)
  PROVE  Calls!CanAppend(ts) /\ Calls!Extended(ts)
<1>1. Len(ts) \in 1 .. MaxTokens /\ MaxTokens \in Nat /\ Capacity \in Nat
  BY AppendsAreTexts, GraphAssumption
<1>2. Valid /\ valid /\ next_pos = Len(log) /\ Len(ts) <= Capacity - next_pos /\ next_pos \in Nat
  BY DEF IInv, Typed, Exact, Forward, Admitted, Valid
<1>3. /\ log' = log \o ts /\ last_start' = next_pos /\ last_count' = Len(ts)
      /\ UNCHANGED <<valid, mtp, pairs>>
  BY DEF Forward, predictor
<1>4. Valid' /\ Partner' = Partner
  <2>1. valid' /\ session'.usable
    BY <1>2, <1>3 DEF IInv, StatesAgree
  <2> QED
    BY <1>3, <2>1 DEF Valid, Partner
<1>5. Valid' = Valid
  BY <1>2, <1>4 DEF Valid
<1>6. Calls!CanAppend(ts)
  BY <1>1, <1>2 DEF Calls!CanAppend
<1>7. Calls!Extended(ts)
  BY <1>2, <1>3, <1>4, <1>5 DEF Calls!Extended, Calls!predictor, Partner
<1> QED
  BY <1>6, <1>7

\* keep is the abstract keep, whichever way it ends.
LEMMA KeepCalls ==
  ASSUME IInv, IInv', NEW k \in 1 .. VerifyRows, keep(k) PROVE Calls!GNext
<1>1. Pending /\ k \in 1 .. verify.rows /\ verify' = NoVerify /\ UNCHANGED <<mtp, pairs>>
  BY DEF keep, predictor
<1>2. /\ Valid /\ last_start = verify.start /\ Waiting = verify.rows /\ Waiting' = 0
      /\ Partner' = Partner
  BY <1>1, WaitingEnds DEF Pending, Waiting, Partner
<1>3. CASE UNCHANGED <<graph, session, log>>
  <2>1. Calls!Forget
    BY <1>1, <1>2, <1>3 DEF Calls!Forget, Calls!trunk, Calls!predictor, graph, Valid, Partner,
       Waiting
  <2> QED
    BY <2>1 DEF Calls!GNext
<1>4. CASE /\ SessionRewind(verify.start + k)
           /\ last_count' = KeptRows(k) /\ log' = SubSeq(log, 1, verify.start + k)
           /\ UNCHANGED <<valid, last_start>>
  <2>1. Valid' = Valid
    <3>1. valid' = valid
      BY <1>4
    <3>2. Valid <=> valid
      BY ValidIsUsable
    <3>3. Valid' <=> valid'
      BY DEF IInv, StatesAgree, Valid
    <3> QED
      BY <3>1, <3>2, <3>3 DEF Valid
  <2>2. Calls!Keep(k)
    BY <1>1, <1>2, <1>4, <2>1
    DEF Calls!Keep, Calls!CanKeep, Calls!predictor, KeptRows, Partner, Waiting
  <2> QED
    BY <2>2 DEF Calls!GNext
<1> QED
  BY <1>3, <1>4 DEF keep

\* restore is the abstract restore, or fails.
LEMMA RestoreCalls ==
  ASSUME IInv, IInv', NEW s \in issued, restore(s) PROVE Calls!GNext
<1> DEFINE p == s.handle.position
<1>1. /\ Fresh(s.handle) /\ Valid /\ valid
      /\ p <= next_pos /\ next_pos - p <= RestoreWindow
      /\ SessionRewind(p)
      /\ log' = s.log /\ last_start' = snapshot.start /\ last_count' = snapshot.count
      /\ UNCHANGED <<valid, verify, mtp, pairs>>
  BY DEF restore, Transfer, Valid, predictor
<1>2. /\ next_pos = Len(log) /\ Len(log) \in Nat /\ Capacity \in Nat /\ next_pos <= Capacity
      /\ p = Len(s.log) /\ p \in Nat /\ Copied(s.log)
      /\ session.epoch \in Nat /\ session'.epoch = session.epoch + 1
  <2>1. /\ next_pos = Len(log) /\ next_pos \in 0 .. Capacity /\ Capacity \in Nat
        /\ session \in [epoch : 1 .. MaxEpoch, pos : 0 .. Capacity, usable : BOOLEAN]
    BY <1>1, GraphAssumption DEF IInv, Typed, Exact
  <2>2. s.handle \in Handle /\ p = Len(s.log)
    BY DEF IInv, Checkpointed
  <2>3. s.handle.epoch = session.epoch /\ s.handle.serial = snapshot_serial
    BY <1>1 DEF Fresh
  <2>4. Copied(s.log)
    BY <1>1, <2>3 DEF IInv, Checkpointed
  <2>5. session.epoch \in Nat /\ session'.epoch = session.epoch + 1
    BY <1>1, <2>1, GraphAssumption DEF SessionRewind
  <2> QED
    BY <2>1, <2>2, <2>4, <2>5 DEF Handle
<1>3. /\ s.log = SubSeq(log, 1, p)
      /\ snapshot.start \in 0 .. Capacity /\ snapshot.count \in 0 .. MaxTokens
      /\ snapshot.count > 0 => snapshot.start + snapshot.count = p
  BY <1>2 DEF Copied, Residual
<1>4. Waiting' = 0
  <2>1. verify.epoch <= session.epoch /\ verify.epoch \in Nat
    BY DEF IInv, Recorded
  <2>2. session'.epoch # verify'.epoch
    BY <1>1, <1>2, <2>1
  <2> QED
    BY <2>2 DEF Waiting, Pending
<1>5. Valid' = Valid /\ Partner' = Partner
  <2>1. Valid' <=> valid'
    BY DEF IInv, StatesAgree, Valid
  <2> QED
    BY <1>1, <2>1 DEF Valid, Partner
<1>6. p \in 0 .. Capacity
  BY <1>1, <1>2
<1>7. Calls!Restore(p, snapshot.start, snapshot.count)
  BY <1>1, <1>2, <1>3, <1>4, <1>5 DEF Calls!Restore, Calls!predictor, Partner, Waiting
<1> QED
  BY <1>3, <1>6, <1>7 DEF Calls!GNext

\* An append of the predictor extends its abstract pairs, or fails.
LEMMA PredictorAppendCalls ==
  ASSUME IInv, NEW new \in Seq(Pair), NEW ts \in Seq(Token), Len(new) = Len(ts),
         \A j \in 1 .. Len(ts) : new[j].token = ts[j], PredictorAppend(new)
  PROVE  Calls!Paired(ts) \/ Calls!GNext
<1>1. /\ mtp \in [enabled : BOOLEAN, failed : BOOLEAN, usable : BOOLEAN, last_rows : Nat]
      /\ UNCHANGED <<next_pos, last_start, last_count, session, verify, log>>
  BY DEF IInv, Typed, PredictorAppend
<1>2. CASE /\ pairs' = pairs \o new
           /\ mtp' = [mtp EXCEPT !.last_rows = Len(new)]
           /\ UNCHANGED valid
  <2>1. Partner' = Partner \o ts
    BY <1>2, PartnerExtended
  <2>2. mtp'.enabled = mtp.enabled /\ mtp'.last_rows = Len(ts)
    BY <1>1, <1>2
  <2>3. Valid' = Valid /\ Waiting' = Waiting
    BY <1>1, <1>2 DEF Valid, Waiting, Pending
  <2>4. Calls!Paired(ts)
    BY <1>1, <2>1, <2>2, <2>3 DEF Calls!Paired, Calls!trunk, Partner, Waiting
  <2> QED
    BY <2>4
<1>3. CASE /\ \E u \in {mtp.usable, FALSE} : mtp' = [mtp EXCEPT !.last_rows = 0, !.usable = u]
           /\ valid' = FALSE
           /\ UNCHANGED pairs
  <2>1. mtp'.enabled = mtp.enabled /\ mtp'.last_rows = 0
    BY <1>1, <1>3
  <2> QED
    BY <1>1, <1>3, <2>1, FailStep
<1> QED
  BY <1>2, <1>3 DEF PredictorAppend

\* mtp_append is the abstract one.
LEMMA MtpAppendCalls ==
  ASSUME IInv, NEW ts \in Appends(MaxTokens), NEW offset \in 0 .. MaxTokens, mtp_append(offset, ts)
  PROVE  Calls!GNext
<1> DEFINE new == [j \in 1 .. Len(ts) |-> [row |-> r[offset + j], token |-> ts[j]]]
<1>1. ts \in Seq(Token) /\ Len(ts) \in Nat
  BY AppendsAreTexts, GraphAssumption
<1>2. /\ new \in Seq(Pair) /\ Len(new) = Len(ts) /\ \A j \in 1 .. Len(ts) : new[j].token = ts[j]
      /\ PredictorAppend(new)
  BY <1>1, NewPairs DEF mtp_append
<1>3. Len(Partner) = Len(pairs)
  BY PartnerType
<1>4. Calls!CanPair(offset, ts)
  <2>1. /\ Valid /\ mtp.enabled /\ offset + Len(ts) <= last_count
        /\ Len(pairs) = last_start + offset
    BY DEF mtp_append, MtpValid
  <2>2. Len(ts) \in 1 .. (Capacity - Len(pairs))
    BY <1>2 DEF PredictorAppend
  <2> QED
    BY <1>3, <2>1, <2>2 DEF Calls!CanPair, Partner
<1> HIDE DEF new
<1>5. Calls!Paired(ts) \/ Calls!GNext
  BY <1>1, <1>2, PredictorAppendCalls
<1>6. Calls!Paired(ts) => Calls!Pair(offset, ts)
  BY <1>4 DEF Calls!Pair
<1>7. Calls!Pair(offset, ts) => Calls!GNext
  BY DEF Calls!GNext, Calls!Appends, Appends
<1> QED
  BY <1>5, <1>6, <1>7

\* mtp_chain is the abstract one.
LEMMA MtpChainCalls ==
  ASSUME IInv, NEW t \in Token, mtp_chain(t) PROVE Calls!GNext
<1> DEFINE new == <<[row |-> Own, token |-> t]>>
<1>1. /\ new \in Seq(Pair) /\ <<t>> \in Seq(Token) /\ Len(new) = 1 /\ Len(<<t>>) = 1
      /\ new[1].token = <<t>>[1]
  BY DEF Own, Pair
<1>2. PredictorAppend(new) /\ Valid /\ mtp.enabled /\ mtp.last_rows > 0
  BY DEF mtp_chain, MtpValid
<1>3. Len(pairs) < Capacity /\ Len(Partner) = Len(pairs)
  <2>1. 1 \in 1 .. (Capacity - Len(pairs))
    BY <1>1, <1>2 DEF PredictorAppend
  <2> QED
    BY <2>1, PartnerType, GraphAssumption
<1>4. Calls!CanChain
  BY <1>2, <1>3 DEF Calls!CanChain, Partner
<1> HIDE DEF new
<1>5. Calls!Paired(<<t>>) \/ Calls!GNext
  <2>1. \A j \in 1 .. Len(<<t>>) : new[j].token = <<t>>[j]
    BY <1>1
  <2> QED
    BY <1>1, <1>2, <2>1, PredictorAppendCalls
<1> QED
  BY <1>4, <1>5 DEF Calls!Chain, Calls!GNext

\* mtp_rewind is the abstract one.
LEMMA MtpRewindCalls ==
  ASSUME IInv, NEW p \in 0 .. Capacity, mtp_rewind(p) PROVE Calls!GNext
<1>1. /\ Valid /\ mtp.enabled /\ p < Len(pairs) /\ Len(pairs) - p <= RewindWindow
      /\ pairs' = SubSeq(pairs, 1, p)
      /\ mtp' = [mtp EXCEPT !.last_rows = 0]
      /\ UNCHANGED <<graph, session, verify, log>>
  BY DEF mtp_rewind, MtpValid
<1>2. Len(Partner) = Len(pairs) /\ p \in 0 .. Len(pairs)
  BY <1>1, PartnerType
<1>3. mtp'.enabled = mtp.enabled /\ mtp'.last_rows = 0
  BY <1>1 DEF IInv, Typed
<1>4. Valid' = Valid /\ Waiting' = Waiting
  BY <1>1 DEF graph, Valid, Waiting, Pending
<1>5. Partner' = SubSeq(Partner, 1, p)
  BY <1>1, <1>2, PartnerRewound
<1>6. Calls!Rewind(p)
  BY <1>1, <1>2, <1>3, <1>4, <1>5
  DEF Calls!Rewind, Calls!CanRewind, Calls!trunk, graph, Partner, Waiting
<1> QED
  BY <1>6 DEF Calls!GNext

\* To the program that drives it the graph is a text that appends extend, keep
\* and restore shorten and reset empties, with a predictor beside it: every call
\* of the code is a step of TokenGraph or changes nothing that can be seen.
THEOREM GraphIsText == Spec => IsTokenGraph
<1>1. ASSUME Init PROVE Calls!GInit
  <2>1. /\ Valid = TRUE /\ mtp.enabled = FALSE /\ log = <<>> /\ last_start = 0 /\ last_count = 0
        /\ mtp.last_rows = 0 /\ pairs = <<>>
    BY <1>1 DEF Init, Valid
  <2>2. Partner = <<>> /\ Waiting = 0
    BY <1>1, <2>1 DEF Init, NoVerify, Partner, Waiting, Pending
  <2> QED
    BY <2>1, <2>2 DEF Calls!GInit, Partner, Waiting
<1>2. ASSUME IInv, IInv', [Next]_vars PROVE [Calls!GNext]_(Calls!gvars)
  <2>1. CASE UNCHANGED <<valid, session, log, last_start, last_count, next_pos, verify, mtp, pairs>>
    <3>1. Valid' = Valid /\ Partner' = Partner /\ Waiting' = Waiting
      BY <2>1 DEF Valid, Partner, Waiting, Pending
    <3> QED
      BY <2>1, <3>1 DEF Calls!gvars, Calls!trunk, Calls!predictor, Partner, Waiting
  <2>2. ASSUME NEW ts \in Appends(MaxTokens), append(ts) PROVE Calls!GNext
    <3>1. CASE Forward(ts, FALSE)
      <4>1. Calls!CanAppend(ts) /\ Calls!Extended(ts)
        BY <1>2, <3>1, ForwardExtends
      <4>2. Waiting' = 0
        BY <2>2, WaitingEnds DEF append
      <4>3. Calls!Extend(ts)
        BY <4>1, <4>2 DEF Calls!Extend, Waiting
      <4> QED
        BY <4>3 DEF Calls!GNext, Calls!Appends, Appends
    <3> QED
      BY <2>2, <3>1, ForwardFails DEF append
  <2>3. ASSUME NEW ts \in Appends(MaxTokens), append_prefix(ts) PROVE Calls!GNext
    BY <2>3, FailStep DEF append_prefix, predictor
  <2>4. ASSUME NEW ts \in Appends(MaxTokens), verify_append(ts) PROVE Calls!GNext
    <3>1. CASE /\ Forward(ts, TRUE)
               /\ verify' = [rows |-> Len(ts), start |-> next_pos, epoch |-> session.epoch,
                             tokens |-> ts, conv_ext |-> conv \o ts, ple_prev |-> ngram.previous]
      <4>1. Calls!CanAppend(ts) /\ Calls!Extended(ts)
        BY <1>2, <3>1, ForwardExtends
      <4>2. mtp.enabled /\ Len(ts) \in 2 .. VerifyRows
        BY <2>4 DEF verify_append
      <4>3. /\ session \in [epoch : 1 .. MaxEpoch, pos : 0 .. Capacity, usable : BOOLEAN]
            /\ session' = [session EXCEPT !.pos = next_pos + Len(ts)]
            /\ last_start' = next_pos /\ last_count' = Len(ts) /\ next_pos' = next_pos + Len(ts)
            /\ UNCHANGED valid /\ Valid
        BY <1>2, <3>1 DEF Forward, Admitted, IInv, Typed
      <4>4. session'.epoch = session.epoch /\ Valid'
        BY <4>3 DEF Valid
      <4>5. Waiting' = Len(ts)
        BY <3>1, <4>2, <4>3, <4>4 DEF Waiting, Pending
      <4>6. Calls!Verify(ts)
        BY <4>1, <4>2, <4>5 DEF Calls!Verify, Calls!CanVerify, Waiting
      <4> QED
        BY <4>6 DEF Calls!GNext, Calls!Appends, Appends
    <3> QED
      BY <2>4, <3>1, ForwardFails DEF verify_append
  <2>5. CASE append_refused
    <3>1. UNCHANGED <<valid, session, log, last_start, last_count, mtp, pairs>> /\ verify' = NoVerify
      BY <2>5 DEF append_refused, graph, predictor
    <3>2. Valid' = Valid /\ Partner' = Partner /\ Waiting' = 0
      BY <3>1, WaitingEnds DEF Valid, Partner
    <3>3. Calls!Forget
      BY <3>1, <3>2 DEF Calls!Forget, Calls!trunk, Calls!predictor, Partner, Waiting
    <3> QED
      BY <3>3 DEF Calls!GNext
  <2>6. CASE save
    BY <2>1, <2>6 DEF save, predictor
  <2>7. CASE reset
    <3>1. /\ mtp \in [enabled : BOOLEAN, failed : BOOLEAN, usable : BOOLEAN, last_rows : Nat]
          /\ mtp' = [mtp EXCEPT !.usable = TRUE, !.last_rows = 0]
          /\ valid' = TRUE /\ session'.usable = TRUE /\ log' = <<>> /\ last_count' = 0
          /\ pairs' = <<>> /\ verify' = NoVerify /\ UNCHANGED last_start
      BY <1>2, <2>7 DEF reset, ResetSession, IInv, Typed
    <3>2. Valid' = TRUE /\ Partner' = <<>> /\ Waiting' = 0
      BY <3>1, WaitingEnds, PartnerEmptied DEF Valid
    <3>3. mtp'.enabled = mtp.enabled /\ mtp'.last_rows = 0
      BY <3>1
    <3>4. Calls!Reset
      BY <3>1, <3>2, <3>3 DEF Calls!Reset, Partner, Waiting
    <3> QED
      BY <3>4 DEF Calls!GNext
  <2>8. CASE reset_failed
    <3>1. mtp \in [enabled : BOOLEAN, failed : BOOLEAN, usable : BOOLEAN, last_rows : Nat]
      BY <1>2 DEF IInv, Typed
    <3>2. /\ valid' = FALSE /\ UNCHANGED <<log, last_start, last_count>>
          /\ UNCHANGED pairs \/ pairs' = <<>>
          /\ mtp' = mtp \/ mtp' = [mtp EXCEPT !.usable = TRUE]
      BY <2>8 DEF reset_failed
    <3>3. mtp'.enabled = mtp.enabled /\ mtp'.last_rows = mtp.last_rows
      BY <3>1, <3>2
    <3> QED
      BY <3>2, <3>3, FailStep
  <2>9. CASE mtp_enable
    <3>1. mtp \in [enabled : BOOLEAN, failed : BOOLEAN, usable : BOOLEAN, last_rows : Nat]
      BY <1>2 DEF IInv, Typed
    <3>2. CASE mtp' = [mtp EXCEPT !.enabled = TRUE] /\ UNCHANGED valid
      <4>1. log = <<>>
        <5>1. Len(log) = 0 /\ log \in Seq(Token)
          BY <1>2, <2>9 DEF mtp_enable, Valid, IInv, Typed, Exact, Text
        <5> QED
          BY <5>1, EmptySeq
      <4>2. mtp'.enabled = TRUE /\ mtp'.last_rows = mtp.last_rows
        BY <3>1, <3>2
      <4>3. Valid /\ UNCHANGED <<valid, next_pos, last_start, last_count, session, verify, pairs, log>>
        BY <2>9, <3>2 DEF mtp_enable
      <4>4. Valid' = Valid /\ Partner' = Partner /\ Waiting' = Waiting
        BY <4>3 DEF Valid, Partner, Waiting, Pending
      <4>5. Calls!Enable
        BY <4>1, <4>2, <4>3, <4>4 DEF Calls!Enable, Calls!trunk, Partner, Waiting
      <4> QED
        BY <4>5 DEF Calls!GNext
    <3>3. CASE mtp' = [mtp EXCEPT !.failed = TRUE] /\ valid' = FALSE
      <4>1. mtp'.enabled = mtp.enabled /\ mtp'.last_rows = mtp.last_rows
        BY <3>1, <3>3
      <4> QED
        BY <2>9, <3>3, <4>1, FailStep DEF mtp_enable
    <3> QED
      BY <2>9, <3>2, <3>3 DEF mtp_enable
  <2>10. CASE reset_halfway
    BY <2>10, FailStep DEF reset_halfway, predictor
  <2>11. CASE Trunk
    BY <1>2, <2>2, <2>3, <2>4, <2>5, <2>6, <2>7, <2>8, <2>11, KeepCalls, RestoreCalls DEF Trunk
  <2>12. CASE Predictor
    BY <1>2, <2>9, <2>10, <2>12, MtpAppendCalls, MtpChainCalls, MtpRewindCalls DEF Predictor
  <2> QED
    BY <1>2, <2>1, <2>11, <2>12 DEF Next, vars, graph, predictor
<1> QED
  BY <1>1, <1>2, Invariance, PTL DEF Spec, IsTokenGraph, Calls!GSpec
=============================================================================
