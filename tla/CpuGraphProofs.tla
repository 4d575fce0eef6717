---------------------------- MODULE CpuGraphProofs ----------------------------
(***************************************************************************)
(* Safety of the reference graph, for every trunk of layers, order of      *)
(* n-grams, kernel, dilation, block ratio, chunk size and context.  What   *)
(* the graph keeps is many small states that are moved one after another   *)
(* in the middle of a call.  The invariant names, for each, the text it    *)
(* holds: the text told to the graph, or that text and the call's tokens   *)
(* once the call has passed it (TextAt); what it then is must be what one  *)
(* pass over that text leaves (Histories, Embeddings), and the residual in *)
(* flight must be the call's part of that one pass (Residual).  That       *)
(* chunks do not matter is shown of the data first: a chunk read with the  *)
(* state of what came before it gives the rows of one reading of both      *)
(* (ConvChunk, ScanChunk, QsaChunk), and what one pass makes of a          *)
(* beginning is the beginning of what it makes of the whole (PassPrefix).  *)
(* A call that fails, or a state that cannot be moved, leaves the graph    *)
(* invalid, and nothing is claimed of it until it is reset (Sound).  That  *)
(* every ticket and job is closed again (Closed) does not depend on it.    *)
(***************************************************************************)
EXTENDS CpuGraph, RecurrentProofs

-----------------------------------------------------------------------------
(* Rows. What a row is does not matter: x is only known to be n of them.   *)

IsRows(x, n)  == x = [t \in 1 .. n |-> x[t]]
Values(x)     == {x[t] : t \in DOMAIN x}
Part(x, p, n) == [t \in 1 .. n |-> x[p + t]]

\* Rows are a sequence.
LEMMA RowsSeq ==
  ASSUME NEW x, NEW n \in Nat, IsRows(x, n)
  PROVE  x \in Seq(Values(x)) /\ Len(x) = n /\ DOMAIN x = 1 .. n
<1>1. DOMAIN x = 1 .. n
  BY DEF IsRows
<1>2. x \in [1 .. n -> Values(x)]
  BY <1>1 DEF IsRows, Values
<1>3. x \in Seq(Values(x))
  BY <1>2, SeqDef
<1> QED
  BY <1>1, <1>3, LenProperties

\* A sequence is rows.
LEMMA SeqRows ==
  ASSUME NEW S, NEW x \in Seq(S)
  PROVE  IsRows(x, Len(x)) /\ Len(x) \in Nat
BY LenProperties DEF IsRows

\* A function on the first numbers is rows.
LEMMA PartRows ==
  ASSUME NEW x, NEW p, NEW n \in Nat
  PROVE  /\ IsRows(Part(x, p, n), n) /\ Len(Part(x, p, n)) = n
         /\ DOMAIN Part(x, p, n) = 1 .. n
         /\ \A t \in 1 .. n : Part(x, p, n)[t] = x[p + t]
<1>1. IsRows(Part(x, p, n), n)
  BY DEF IsRows, Part
<1> QED
  BY <1>1, RowsSeq DEF Part

\* Rows are equal when they are so one by one.
LEMMA RowsEqual ==
  ASSUME NEW n \in Nat, NEW x, NEW y, IsRows(x, n), IsRows(y, n), \A t \in 1 .. n : x[t] = y[t]
  PROVE  x = y
BY DEF IsRows

\* A beginning and the rest are the whole.
LEMMA PartsJoin ==
  ASSUME NEW p \in Nat, NEW n \in Nat, NEW x, IsRows(x, p + n)
  PROVE  /\ Part(x, 0, p) \in Seq(Values(x)) /\ Part(x, p, n) \in Seq(Values(x))
         /\ Part(x, 0, p) \o Part(x, p, n) = x
<1>0. p + n \in Nat
  OBVIOUS
<1>1. x \in Seq(Values(x)) /\ Len(x) = p + n /\ DOMAIN x = 1 .. p + n
  BY <1>0, RowsSeq
<1>2. Part(x, 0, p) \in [1 .. p -> Values(x)]
  <2>1. \A t \in 1 .. p : 0 + t \in 1 .. p + n
    OBVIOUS
  <2> QED
    BY <1>1, <2>1 DEF Part, Values
<1>3. Part(x, p, n) \in [1 .. n -> Values(x)]
  <2>1. \A t \in 1 .. n : p + t \in 1 .. p + n
    OBVIOUS
  <2> QED
    BY <1>1, <2>1 DEF Part, Values
<1>4. Part(x, 0, p) \in Seq(Values(x)) /\ Part(x, p, n) \in Seq(Values(x))
  BY <1>2, <1>3, SeqDef
<1>5. Len(Part(x, 0, p)) = p /\ Len(Part(x, p, n)) = n
  BY PartRows
<1> DEFINE a == Part(x, 0, p)
           b == Part(x, p, n)
           y == a \o b
<1>6. /\ y \in Seq(Values(x)) /\ Len(y) = p + n
      /\ \A t \in 1 .. p + n : y[t] = IF t <= p THEN a[t] ELSE b[t - p]
  <2>1. a \in Seq(Values(x)) /\ b \in Seq(Values(x)) /\ Len(a) = p /\ Len(b) = n
    BY <1>4, <1>5
  <2> HIDE DEF a, b
  <2> QED
    BY <2>1, ConcatProperties
<1> HIDE DEF y
<1>7. ASSUME NEW t \in 1 .. p + n PROVE y[t] = x[t]
  <2>1. CASE t <= p
    <3>1. t \in 1 .. p /\ 0 + t = t
      BY <2>1
    <3> QED
      BY <1>6, <2>1, <3>1 DEF Part
  <2>2. CASE ~(t <= p)
    <3>1. t - p \in 1 .. n /\ p + (t - p) = t
      BY <2>2
    <3> QED
      BY <1>6, <2>2, <3>1 DEF Part
  <2> QED
    BY <2>1, <2>2
<1>8. y = x
  BY <1>1, <1>6, <1>7, SeqEqual
<1> QED
  BY <1>4, <1>8 DEF y

\* All of it.
LEMMA PartWhole ==
  ASSUME NEW n \in Nat, NEW x, IsRows(x, n)
  PROVE  Part(x, 0, n) = x
<1>1. \A t \in 1 .. n : 0 + t = t
  OBVIOUS
<1> QED
  BY <1>1 DEF Part, IsRows

\* A beginning of a beginning.
LEMMA PartOfPart ==
  ASSUME NEW n \in Nat, NEW m \in 0 .. n, NEW x
  PROVE  Part(Part(x, 0, n), 0, m) = Part(x, 0, m)
<1>1. ASSUME NEW t \in 1 .. m PROVE Part(x, 0, n)[0 + t] = x[0 + t]
  <2>1. t \in 1 .. n /\ 0 + t = t
    OBVIOUS
  <2> QED
    BY <2>1 DEF Part
<1> QED
  BY <1>1 DEF Part

-----------------------------------------------------------------------------
(* The convolution and the recurrence, a chunk at a time. *)

Windows(x)    == [t \in 1 .. Len(x) |-> Window(Zeros, x, t)]
Moved(e, x)   == [epoch |-> e, next_pos |-> Len(x), valid |-> TRUE, data |-> Shift(Zeros, x)]
Scanned(e, y) == [epoch |-> e, next_pos |-> Len(y), valid |-> TRUE, data |-> y]

\* What a row reads does not depend on the rows after it.
LEMMA WindowsPrefix ==
  ASSUME NEW p \in Nat, NEW n \in Nat, NEW x, IsRows(x, p + n)
  PROVE  /\ IsRows(Windows(x), p + n) /\ Len(Windows(x)) = p + n
         /\ Windows(Part(x, 0, p)) = Part(Windows(x), 0, p)
<1>0. p + n \in Nat
  OBVIOUS
<1>1. Len(x) = p + n
  BY <1>0, RowsSeq
<1>2. IsRows(Windows(x), p + n)
  BY <1>1 DEF IsRows, Windows
<1>3. Len(Windows(x)) = p + n
  BY <1>0, <1>2, RowsSeq
<1> DEFINE a == Part(x, 0, p)
           b == Part(x, p, n)
<1>4. a \in Seq(Values(x)) /\ b \in Seq(Values(x)) /\ a \o b = x /\ Len(a) = p
  <2>1. a \in Seq(Values(x)) /\ b \in Seq(Values(x)) /\ a \o b = x
    BY PartsJoin
  <2>2. Len(a) = p
    BY PartRows
  <2> QED
    BY <2>1, <2>2
<1> HIDE DEF a, b
<1>5. ASSUME NEW t \in 1 .. p PROVE Window(Zeros, a, t) = Windows(x)[0 + t]
  <2>1. Window(Zeros, a \o b, t) = Window(Zeros, a, t)
    BY <1>4, WindowPrefix, ZenonT(60)
  <2>2. 0 + t = t /\ t \in 1 .. p + n
    OBVIOUS
  <2> QED
    BY <1>1, <1>4, <2>1, <2>2 DEF Windows
<1>6. Windows(a) = Part(Windows(x), 0, p)
  BY <1>4, <1>5 DEF Windows, Part
<1> QED
  BY <1>2, <1>3, <1>6 DEF a

\* An empty chunk moves nothing.
LEMMA ShiftNothing == Shift(Zeros, <<>>) = Zeros /\ Windows(<<>>) = <<>>
<1>1. Len(<<>>) = 0
  OBVIOUS
<1>2. Halo \in Nat
  <2>1. 1 \in 1 .. Kernel
    BY RecurrentAssumption
  <2> QED
    BY <2>1, TapsWithin
<1>3. ASSUME NEW r \in 1 .. Halo PROVE r <= Halo - 0 /\ r + 0 = r
  BY <1>2
<1>4. Shift(Zeros, <<>>) = [r \in 1 .. Halo |-> Zeros[r]]
  BY <1>1, <1>3 DEF Shift
<1>5. Windows(<<>>) = [t \in 1 .. 0 |-> Window(Zeros, <<>>, t)]
  BY <1>1 DEF Windows
<1>6. IsRows(Windows(<<>>), 0)
  BY <1>5 DEF IsRows
<1>7. Windows(<<>>) = <<>>
  BY <1>6, RowsSeq, EmptySeq
<1> QED
  BY <1>4, <1>7 DEF Zeros

\* The convolution of a chunk is that part of the convolution of the whole.
LEMMA ConvChunk ==
  ASSUME NEW p \in Nat, NEW n \in Nat, NEW x, IsRows(x, p + n), NEW e
  PROVE  conv_causal(Moved(e, Part(x, 0, p)), Part(x, p, n), p, TRUE)
         = Result("ok", Moved(e, x), Part(Windows(x), p, n))
<1> DEFINE a == Part(x, 0, p)
           b == Part(x, p, n)
           s == Moved(e, a)
<1>0. p + n \in Nat
  OBVIOUS
<1>1. /\ a \in Seq(Values(x)) /\ b \in Seq(Values(x)) /\ a \o b = x
      /\ Len(a) = p /\ Len(b) = n /\ Len(x) = p + n
  <2>1. a \in Seq(Values(x)) /\ b \in Seq(Values(x)) /\ a \o b = x
    BY PartsJoin
  <2>2. Len(a) = p /\ Len(b) = n
    BY PartRows
  <2>3. Len(x) = p + n
    BY <1>0, RowsSeq
  <2> QED
    BY <2>1, <2>2, <2>3
<1> HIDE DEF a, b
<1>2. s = [epoch |-> e, next_pos |-> p, valid |-> TRUE, data |-> Shift(Zeros, a)]
  BY <1>1 DEF Moved
<1> HIDE DEF s
<1>3. s.valid /\ s.next_pos = p /\ s.data = Shift(Zeros, a)
  BY <1>2
<1>4. Append_status(s, p) = "ok"
  BY <1>3 DEF Append_status
<1>5. CASE b = <<>>
  <2>1. n = 0 /\ p + n = p
    BY <1>1, <1>5
  <2>2. x = a
    BY <1>1, <1>5, ConcatEmptySeq
  <2>3. conv_causal(s, b, p, TRUE) = Result("ok", s, <<>>)
    BY <1>4, <1>5 DEF conv_causal
  <2>4. Moved(e, x) = s
    BY <2>2 DEF s
  <2>5. Part(Windows(x), p, n) = <<>>
    BY <2>1, PartRows, RowsSeq, EmptySeq
  <2> QED
    BY <2>3, <2>4, <2>5 DEF s, a, b
<1>6. CASE b # <<>>
  <2> DEFINE new == [s EXCEPT !.data = Shift(s.data, b), !.next_pos = p + Len(b)]
             out == [t \in 1 .. Len(b) |-> Window(s.data, b, t)]
  <2>1. conv_causal(s, b, p, TRUE) = Result("ok", new, out)
    BY <1>4, <1>6 DEF conv_causal
  <2>2. Shift(Shift(Zeros, a), b) = Shift(Zeros, a \o b)
    <3>1. a \in Seq(Values(x)) /\ b \in Seq(Values(x))
      BY <1>1
    <3> QED
      BY <3>1, ShiftConcat
  <2>3. new = [epoch |-> e, next_pos |-> p + n, valid |-> TRUE, data |-> Shift(Zeros, x)]
    <3>1. new = [s EXCEPT !.data = Shift(Zeros, x), !.next_pos = p + n]
      BY <1>1, <1>3, <2>2
    <3> HIDE DEF new
    <3> QED
      BY <1>2, <3>1
  <2>4. new = Moved(e, x)
    <3> HIDE DEF new
    <3> QED
      BY <1>1, <2>3 DEF Moved
  <2>5. ASSUME NEW t \in 1 .. n PROVE Window(s.data, b, t) = Windows(x)[p + t]
    <3>1. Window(Shift(Zeros, a), b, t) = Window(Zeros, a \o b, Len(a) + t)
      <4>1. a \in Seq(Values(x)) /\ b \in Seq(Values(x)) /\ t \in 1 .. Len(b)
        BY <1>1
      <4> QED
        BY <4>1, WindowSplit
    <3>2. p + t \in 1 .. p + n
      OBVIOUS
    <3> QED
      BY <1>1, <1>3, <3>1, <3>2 DEF Windows
  <2>6. out = Part(Windows(x), p, n)
    BY <1>1, <2>5 DEF Part
  <2> HIDE DEF new, out
  <2> QED
    BY <2>1, <2>4, <2>6 DEF s, a, b
<1> QED
  BY <1>5, <1>6

\* The rows up to each row of a chunk.
Prefixes(y, p, n) == [t \in 1 .. n |-> Part(y, 0, p + t)]

\* The recurrence over a chunk is that part of the recurrence over the whole.
LEMMA ScanChunk ==
  ASSUME NEW p \in Nat, NEW n \in Nat, NEW y, IsRows(y, p + n), NEW e
  PROVE  gdn_scan(Scanned(e, Part(y, 0, p)), Part(y, p, n), p, TRUE)
         = Result("ok", Scanned(e, y), Prefixes(y, p, n))
<1> DEFINE a == Part(y, 0, p)
           b == Part(y, p, n)
           s == Scanned(e, a)
<1>0. p + n \in Nat
  OBVIOUS
<1>1. /\ a \in Seq(Values(y)) /\ b \in Seq(Values(y)) /\ a \o b = y
      /\ Len(a) = p /\ Len(b) = n /\ Len(y) = p + n /\ y \in Seq(Values(y))
  <2>1. a \in Seq(Values(y)) /\ b \in Seq(Values(y)) /\ a \o b = y
    BY PartsJoin
  <2>2. Len(a) = p /\ Len(b) = n
    BY PartRows
  <2>3. Len(y) = p + n /\ y \in Seq(Values(y))
    BY <1>0, RowsSeq
  <2> QED
    BY <2>1, <2>2, <2>3
<1> HIDE DEF a, b
<1>2. s = [epoch |-> e, next_pos |-> p, valid |-> TRUE, data |-> a]
  BY <1>1 DEF Scanned
<1>e. n = 0 => Prefixes(y, p, n) = <<>>
  <2>1. IsRows(Prefixes(y, p, 0), 0)
    BY DEF IsRows, Prefixes
  <2> QED
    BY <2>1, RowsSeq, EmptySeq
<1>p. ASSUME NEW t \in 1 .. n PROVE a \o SubSeq(b, 1, t) = Part(y, 0, p + t)
  <2>1. t \in 0 .. Len(b) /\ p + t \in 0 .. Len(y) /\ p + t \in Nat
    BY <1>1
  <2>2. SubSeq(a \o b, 1, Len(a) + t) = a \o SubSeq(b, 1, t)
    <3>1. a \in Seq(Values(y)) /\ b \in Seq(Values(y))
      BY <1>1
    <3> QED
      BY <2>1, <3>1, PrefixOfConcat
  <2>3. /\ SubSeq(y, 1, p + t) \in Seq(Values(y)) /\ Len(SubSeq(y, 1, p + t)) = p + t
        /\ \A i \in 1 .. p + t : SubSeq(y, 1, p + t)[i] = y[i]
    BY <1>1, <2>1, PrefixProperties
  <2>4. IsRows(SubSeq(y, 1, p + t), p + t)
    BY <2>3, SeqRows
  <2>5. SubSeq(y, 1, p + t) = Part(y, 0, p + t)
    <3>1. \A i \in 1 .. p + t : 0 + i = i
      OBVIOUS
    <3> QED
      BY <2>3, <2>4, <3>1 DEF IsRows, Part
  <2> QED
    BY <1>1, <2>2, <2>5
<1> HIDE DEF s
<1>3. s.valid /\ s.next_pos = p /\ s.data = a
  BY <1>2
<1>4. Append_status(s, p) = "ok"
  BY <1>3 DEF Append_status
<1>5. CASE b = <<>>
  <2>1. n = 0 /\ p + n = p
    BY <1>1, <1>5
  <2>2. y = a
    BY <1>1, <1>5, ConcatEmptySeq
  <2>3. gdn_scan(s, b, p, TRUE) = Result("ok", s, <<>>)
    BY <1>4, <1>5 DEF gdn_scan
  <2>4. Scanned(e, y) = s
    BY <2>2 DEF s
  <2> QED
    BY <1>e, <2>1, <2>3, <2>4 DEF s, a, b
<1>6. CASE b # <<>>
  <2> DEFINE new == [s EXCEPT !.data = @ \o b, !.next_pos = p + Len(b)]
             out == [t \in 1 .. Len(b) |-> s.data \o SubSeq(b, 1, t)]
  <2>1. gdn_scan(s, b, p, TRUE) = Result("ok", new, out)
    BY <1>4, <1>6 DEF gdn_scan
  <2>3. new = [epoch |-> e, next_pos |-> p + n, valid |-> TRUE, data |-> y]
    <3>1. new = [s EXCEPT !.data = y, !.next_pos = p + n]
      BY <1>1, <1>3
    <3> HIDE DEF new
    <3> QED
      BY <1>2, <3>1
  <2>4. new = Scanned(e, y)
    <3> HIDE DEF new
    <3> QED
      BY <1>1, <2>3 DEF Scanned
  <2>6. out = Prefixes(y, p, n)
    BY <1>1, <1>3, <1>p DEF Prefixes
  <2> HIDE DEF new, out
  <2> QED
    BY <2>1, <2>4, <2>6 DEF s, a, b
<1> QED
  BY <1>5, <1>6

-----------------------------------------------------------------------------
(* The gated delta rule's block, a chunk at a time. *)

GdnHolding(x, e) ==
  [conv |-> Moved(e, x), scan |-> Scanned(e, Windows(x)),
   valid |-> TRUE, busy |-> FALSE, epoch |-> e]
GdnOut(x) == [t \in 1 .. Len(x) |-> <<x[t], Part(Windows(x), 0, t)>>]

\* A fresh block holds nothing.
LEMMA FreshBlock ==
  ASSUME NEW e
  PROVE  FreshGdn(e) = GdnHolding(<<>>, e)
<1>1. Moved(e, <<>>) = state_init(e, Zeros) /\ Scanned(e, <<>>) = state_init(e, <<>>)
  BY ShiftNothing, EmptySeq DEF Moved, Scanned, state_init
<1> QED
  BY <1>1, ShiftNothing DEF FreshGdn, GdnHolding

\* The block over a chunk does that part of what it does over the whole.
LEMMA GdnChunk ==
  ASSUME NEW p \in Nat, NEW n \in Nat, NEW x, IsRows(x, p + n), NEW e
  PROVE  gdn_block(GdnHolding(Part(x, 0, p), e), Part(x, p, n), p, "none")
         = [ok |-> TRUE, s |-> GdnHolding(x, e), out |-> Part(GdnOut(x), p, n)]
<1> DEFINE a == Part(x, 0, p)
           b == Part(x, p, n)
           s == GdnHolding(a, e)
           c == conv_causal(s.conv, b, p, "none" # "conv")
           g == gdn_scan(s.scan, c.out, p, "none" # "scan")
<1>0. p + n \in Nat
  OBVIOUS
<1>1. Len(x) = p + n /\ Len(a) = p /\ Len(b) = n
  BY <1>0, PartRows, RowsSeq
<1>2. IsRows(Windows(x), p + n) /\ Len(Windows(x)) = p + n /\ Windows(a) = Part(Windows(x), 0, p)
  BY WindowsPrefix
<1>3. s.conv = Moved(e, a) /\ s.scan = Scanned(e, Part(Windows(x), 0, p)) /\ s.valid
  BY <1>2 DEF GdnHolding
<1>4. c = Result("ok", Moved(e, x), Part(Windows(x), p, n))
  BY <1>3, ConvChunk
<1>5. c.s = Moved(e, x) /\ c.out = Part(Windows(x), p, n)
  <2> HIDE DEF c
  <2> QED
    BY <1>4 DEF Result
<1>6. g = Result("ok", Scanned(e, Windows(x)), Prefixes(Windows(x), p, n))
  <2> DEFINE w == Windows(x)
  <2>1. IsRows(w, p + n)
    BY <1>2
  <2> HIDE DEF w
  <2>2. gdn_scan(Scanned(e, Part(w, 0, p)), Part(w, p, n), p, TRUE)
        = Result("ok", Scanned(e, w), Prefixes(w, p, n))
    BY <2>1, ScanChunk
  <2> HIDE DEF c, s
  <2> QED
    BY <1>3, <1>5, <2>2 DEF w
<1>7. g.s = Scanned(e, Windows(x)) /\ g.out = Prefixes(Windows(x), p, n)
  <2> HIDE DEF g
  <2> QED
    BY <1>6 DEF Result
<1>8. Append_status(s.conv, p) = "ok" /\ Append_status(s.scan, p) = "ok"
  <2>1. Len(Part(Windows(x), 0, p)) = p
    BY PartRows
  <2> QED
    BY <1>1, <1>3, <2>1 DEF Append_status, Moved, Scanned
<1>9. gdn_block(s, b, p, "none")
      = [ok |-> TRUE, s |-> [s EXCEPT !.conv = c.s, !.scan = g.s], out |-> Add(b, g.out)]
  <2> HIDE DEF s, b
  <2> QED
    BY <1>3, <1>8 DEF gdn_block
<1> HIDE DEF c, g
<1>10. [s EXCEPT !.conv = c.s, !.scan = g.s] = GdnHolding(x, e)
  <2> DEFINE new == [s EXCEPT !.conv = c.s, !.scan = g.s]
  <2>1. s = [conv |-> Moved(e, a), scan |-> Scanned(e, Windows(a)),
             valid |-> TRUE, busy |-> FALSE, epoch |-> e]
    BY DEF GdnHolding
  <2> HIDE DEF s
  <2>2. new = [s EXCEPT !.conv = Moved(e, x), !.scan = Scanned(e, Windows(x))]
    BY <1>5, <1>7
  <2> HIDE DEF new
  <2>3. new = [conv |-> Moved(e, x), scan |-> Scanned(e, Windows(x)),
               valid |-> TRUE, busy |-> FALSE, epoch |-> e]
    BY <2>1, <2>2
  <2> QED
    BY <2>3 DEF new, GdnHolding
<1>11. Add(b, g.out) = Part(GdnOut(x), p, n)
  <2>1. ASSUME NEW t \in 1 .. n PROVE <<b[t], g.out[t]>> = GdnOut(x)[p + t]
    <3>1. p + t \in 1 .. Len(x)
      BY <1>1
    <3>2. b[t] = x[p + t] /\ g.out[t] = Part(Windows(x), 0, p + t)
      BY <1>7 DEF Part, Prefixes
    <3> QED
      BY <3>1, <3>2 DEF GdnOut
  <2> HIDE DEF b
  <2> QED
    BY <1>1, <2>1 DEF Add, Part
<1> HIDE DEF s, b
<1>12. gdn_block(s, b, p, "none")
       = [ok |-> TRUE, s |-> GdnHolding(x, e), out |-> Part(GdnOut(x), p, n)]
  BY <1>9, <1>10, <1>11
<1> QED
  BY <1>12 DEF s, b, a

-----------------------------------------------------------------------------
(* Sparse attention, a chunk at a time. *)

Block(x, b) == [r \in 1 .. Ratio |-> x[(b - 1) * Ratio + r]]
Heard(x, q) == <<[b \in 1 .. q \div Ratio |-> Block(x, b)], Part(x, 0, q)>>
QsaOut(x)   == [t \in 1 .. Len(x) |-> <<x[t], Heard(x, t)>>]

\* The cache and the blocks of s are those of n rows x.
CacheHolds(s, x, n) ==
  /\ \A q \in 1 .. n : s.cache[q] = x[q]
  /\ \A b \in 1 .. n \div Ratio : s.blocks[b] = Block(x, b)

\* The blocks that are full.
LEMMA FullBlocks ==
  ASSUME NEW b \in Nat \ {0}, NEW m \in Nat
  PROVE  /\ b \in 1 .. m \div Ratio <=> b * Ratio <= m
         /\ m \div Ratio \in Nat /\ b * Ratio \in Nat
         /\ \A r \in 1 .. Ratio : (b - 1) * Ratio + r \in 1 .. b * Ratio
<1> DEFINE d == m \div Ratio
           e == m % Ratio
<1>0. Ratio \in Nat \ {0}
  BY CpuGraphAssumption
<1>1. d \in Nat /\ e \in 0 .. Ratio - 1 /\ m = Ratio * d + e
  BY <1>0, SMT
<1> HIDE DEF d, e
<1>2. ASSUME b <= d PROVE b * Ratio <= m
  <2>1. PICK k \in Nat : d = b + k
    <3>1. d - b \in Nat /\ d = b + (d - b)
      BY <1>1, <1>2
    <3> QED
      BY <3>1
  <2>2. Ratio * d = Ratio * b + Ratio * k /\ Ratio * k \in Nat /\ Ratio * b = b * Ratio
    BY <1>0, <2>1, SMT
  <2>3. b * Ratio <= m
    BY <1>0, <1>1, <2>2
  <2> QED
    BY <2>3
<1>3. ASSUME ~(b <= d) PROVE ~(b * Ratio <= m)
  <2>1. PICK k \in Nat : b = d + 1 + k
    <3>1. b - d - 1 \in Nat /\ b = d + 1 + (b - d - 1)
      BY <1>1, <1>3
    <3> QED
      BY <3>1
  <2>2. b * Ratio = Ratio * d + Ratio + Ratio * k /\ Ratio * k \in Nat /\ Ratio * d \in Nat
    BY <1>0, <1>1, <2>1, SMT
  <2>3. ~(b * Ratio <= m)
    BY <1>0, <1>1, <2>2
  <2> QED
    BY <2>3
<1>4. ASSUME NEW r \in 1 .. Ratio PROVE (b - 1) * Ratio + r \in 1 .. b * Ratio
  <2>1. PICK k \in Nat : b = k + 1
    <3>1. b - 1 \in Nat /\ b = (b - 1) + 1
      OBVIOUS
    <3> QED
      BY <3>1
  <2>2. k * Ratio \in Nat /\ b * Ratio = k * Ratio + Ratio /\ b - 1 = k
    BY <1>0, <2>1, SMT
  <2> QED
    BY <1>0, <2>2
<1>5. b * Ratio \in Nat
  BY <1>0, SMT
<1> QED
  BY <1>1, <1>2, <1>3, <1>4, <1>5 DEF d

\* The cache of nothing.
LEMMA NothingCached ==
  ASSUME NEW s, NEW x
  PROVE  CacheHolds(s, x, 0)
<1>1. ASSUME NEW b \in 1 .. 0 \div Ratio PROVE FALSE
  <2>1. 0 \div Ratio \in Nat
    <3>1. 1 \in Nat \ {0} /\ 0 \in Nat
      OBVIOUS
    <3> QED
      BY <3>1, FullBlocks
  <2>2. b \in Nat \ {0}
    BY <2>1
  <2>3. b * Ratio <= 0 /\ b * Ratio \in Nat
    <3>1. 0 \in Nat
      OBVIOUS
    <3> QED
      BY <2>2, <3>1, FullBlocks
  <2>4. b * Ratio > 0
    BY <2>2, CpuGraphAssumption, SMT
  <2> QED
    BY <2>3, <2>4
<1> QED
  BY <1>1 DEF CacheHolds

\* What a row attends to is the rows up to it and their full blocks.
LEMMA AttendedHeard ==
  ASSUME NEW s, NEW x, NEW n \in Nat, CacheHolds(s, x, n), NEW q \in 0 .. n
  PROVE  Attended(s, q) = Heard(x, q)
<1> DEFINE d == q \div Ratio
           B == {s.blocks[b] : b \in 1 .. d}
           C == {s.cache[t] : t \in 1 .. q}
<1>0. q \in Nat /\ 1 \in Nat \ {0}
  OBVIOUS
<1>1. d \in Nat
  BY <1>0, FullBlocks
<1>2. ASSUME NEW b \in 1 .. d PROVE b \in 1 .. n \div Ratio
  <2>0. b \in Nat \ {0}
    BY <1>1
  <2>1. b * Ratio <= q /\ b * Ratio \in Nat
    BY <1>0, <2>0, FullBlocks
  <2>2. b * Ratio <= n
    BY <2>1
  <2> QED
    BY <2>0, <2>2, FullBlocks
<1> HIDE DEF d
<1>3. SubSeq(s.blocks, 1, d) = [b \in 1 .. d |-> Block(x, b)]
  <2>1. /\ SubSeq(s.blocks, 1, d) \in Seq(B)
        /\ Len(SubSeq(s.blocks, 1, d)) = IF 1 <= d THEN d - 1 + 1 ELSE 0
        /\ \A i \in 1 .. d - 1 + 1 : SubSeq(s.blocks, 1, d)[i] = s.blocks[1 + i - 1]
    <3>1. 1 \in Int /\ d \in Int /\ \A i \in 1 .. d : s.blocks[i] \in B
      BY <1>1
    <3> HIDE DEF B
    <3> QED
      BY <3>1, SubSeqProperties
  <2> HIDE DEF B
  <2>2. Len(SubSeq(s.blocks, 1, d)) = d
    BY <1>1, <2>1
  <2>3. \A i \in 1 .. d : SubSeq(s.blocks, 1, d)[i] = Block(x, i)
    <3>1. \A i \in 1 .. d : i \in 1 .. d - 1 + 1 /\ 1 + i - 1 = i
      BY <1>1
    <3> QED
      BY <1>2, <2>1, <3>1 DEF CacheHolds
  <2>4. IsRows(SubSeq(s.blocks, 1, d), d)
    BY <2>1, <2>2, SeqRows
  <2> QED
    BY <2>3, <2>4 DEF IsRows
<1>4. SubSeq(s.cache, 1, q) = Part(x, 0, q)
  <2>1. /\ SubSeq(s.cache, 1, q) \in Seq(C)
        /\ Len(SubSeq(s.cache, 1, q)) = IF 1 <= q THEN q - 1 + 1 ELSE 0
        /\ \A i \in 1 .. q - 1 + 1 : SubSeq(s.cache, 1, q)[i] = s.cache[1 + i - 1]
    <3>1. 1 \in Int /\ q \in Int /\ \A i \in 1 .. q : s.cache[i] \in C
      OBVIOUS
    <3> HIDE DEF C
    <3> QED
      BY <3>1, SubSeqProperties
  <2> HIDE DEF C
  <2>2. Len(SubSeq(s.cache, 1, q)) = q
    BY <2>1
  <2>3. \A i \in 1 .. q : SubSeq(s.cache, 1, q)[i] = x[0 + i]
    <3>1. \A i \in 1 .. q : i \in 1 .. q - 1 + 1 /\ 1 + i - 1 = i /\ 0 + i = i /\ i \in 1 .. n
      OBVIOUS
    <3> QED
      BY <2>1, <3>1 DEF CacheHolds
  <2>4. IsRows(SubSeq(s.cache, 1, q), q)
    BY <2>1, <2>2, SeqRows
  <2> QED
    BY <2>3, <2>4 DEF IsRows, Part
<1> QED
  BY <1>3, <1>4 DEF Attended, Heard, d

\* The parts a chunk does not write stay, and those it writes are its own.
LEMMA CachedChunk ==
  ASSUME NEW p \in Nat, NEW n \in Nat, NEW x, p + n <= Context,
         NEW s, {"cache", "blocks"} \subseteq DOMAIN s, CacheHolds(s, Part(x, 0, p), p)
  PROVE  CacheHolds(Cached(s, Part(x, p, n), p), x, p + n)
<1> DEFINE y == Part(x, p, n)
           cache == [q \in 1 .. Context |-> IF q \in p + 1 .. p + n THEN y[q - p] ELSE s.cache[q]]
           blocks == [b \in 1 .. Context \div Ratio |->
                        IF b * Ratio \in p + 1 .. p + n THEN Pooled(cache, b, p) ELSE s.blocks[b]]
           c == Cached(s, y, p)
<1>0. p + n \in Nat /\ Context \in Nat /\ Ratio \in Nat \ {0} /\ Len(y) = n
  BY PartRows, CpuGraphAssumption
<1>1. c = [s EXCEPT !.cache = cache, !.blocks = blocks]
  <2> HIDE DEF y
  <2> QED
    BY <1>0 DEF Cached
<1>2. c.cache = cache /\ c.blocks = blocks
  <2> HIDE DEF c, cache, blocks
  <2> QED
    BY <1>1
<1>3. ASSUME NEW q \in 1 .. p + n PROVE cache[q] = x[q]
  <2>1. q \in 1 .. Context
    BY <1>0
  <2>2. CASE q \in p + 1 .. p + n
    <3>1. q - p \in 1 .. n /\ p + (q - p) = q
      BY <2>2
    <3> QED
      BY <2>1, <2>2, <3>1 DEF Part
  <2>3. CASE q \notin p + 1 .. p + n
    <3>1. q \in 1 .. p /\ 0 + q = q
      BY <2>3
    <3>2. s.cache[q] = x[q]
      BY <3>1 DEF CacheHolds, Part
    <3> QED
      BY <2>1, <2>3, <3>2
  <2> QED
    BY <2>2, <2>3
<1>4. ASSUME NEW b \in 1 .. (p + n) \div Ratio PROVE blocks[b] = Block(x, b)
  <2>1. (p + n) \div Ratio \in Nat
    BY <1>0, FullBlocks
  <2>2. b \in Nat \ {0}
    BY <2>1
  <2>3. b * Ratio <= p + n /\ b * Ratio \in Nat
    BY <1>0, <2>2, FullBlocks
  <2>4. b * Ratio <= Context
    BY <1>0, <2>3
  <2>5. b \in 1 .. Context \div Ratio
    BY <1>0, <2>2, <2>4, FullBlocks
  <2>6. \A r \in 1 .. Ratio : (b - 1) * Ratio + r \in 1 .. b * Ratio
    BY <1>0, <2>2, FullBlocks
  <2>7. CASE b * Ratio \in p + 1 .. p + n
    <3>1. \A r \in 1 .. Ratio : (b - 1) * Ratio + r \in 1 .. p + n
      BY <2>3, <2>6
    <3>2. Pooled(cache, b, p) = Block(x, b)
      <4> HIDE DEF cache
      <4> QED
        BY <1>3, <3>1 DEF Pooled, Block
    <3> QED
      BY <2>5, <2>7, <3>2
  <2>8. CASE b * Ratio \notin p + 1 .. p + n
    <3>1. b * Ratio <= p
      BY <2>3, <2>8
    <3>2. b \in 1 .. p \div Ratio
      BY <2>2, <3>1, FullBlocks
    <3>3. s.blocks[b] = Block(Part(x, 0, p), b)
      BY <3>2 DEF CacheHolds
    <3>4. ASSUME NEW r \in 1 .. Ratio
          PROVE  Part(x, 0, p)[(b - 1) * Ratio + r] = x[(b - 1) * Ratio + r]
      <4>1. PICK k \in 1 .. p : k = (b - 1) * Ratio + r
        BY <2>3, <2>6, <3>1
      <4>2. Part(x, 0, p)[k] = x[k]
        <5>1. 0 + k = k
          OBVIOUS
        <5> QED
          BY <5>1 DEF Part
      <4> QED
        BY <4>1, <4>2
    <3>5. Block(Part(x, 0, p), b) = Block(x, b)
      BY <3>4 DEF Block
    <3> QED
      BY <2>5, <2>8, <3>3, <3>5
  <2> QED
    BY <2>7, <2>8
<1> HIDE DEF cache, blocks, c
<1>5. CacheHolds(c, x, p + n)
  BY <1>2, <1>3, <1>4 DEF CacheHolds
<1> QED
  BY <1>5 DEF c, y

\* The parts of an attention state and of its ticket.
Account(s) ==
  s = [next_pos |-> s.next_pos, valid |-> s.valid, busy |-> s.busy, epoch |-> s.epoch,
       cache |-> s.cache, blocks |-> s.blocks, ticket |-> s.ticket]
Ticket(t, n, e) == t = [active |-> TRUE, tokens |-> n, epoch |-> e, computed |-> t.computed]

\* r is s with a ticket for n tokens opened, and its rows may be written.
Opened(r, s, n) ==
  /\ Account(r) /\ r.epoch = s.epoch /\ r.next_pos = s.next_pos
  /\ r.busy = TRUE /\ Ticket(r.ticket, n, s.epoch)

Computed(c) == [c EXCEPT !.ticket.computed = TRUE]
Broken(c)   == [c EXCEPT !.valid = FALSE]

\* A ticket is opened for the chunk.
LEMMA BeginOpens ==
  ASSUME NEW s, Account(s), NEW n
  PROVE  /\ Opened(attention_begin(s, n, s.epoch), s, n)
         /\ attention_begin(s, n, s.epoch).valid = s.valid
         /\ attention_begin(s, n, s.epoch).cache = s.cache
         /\ attention_begin(s, n, s.epoch).blocks = s.blocks
<1> DEFINE b == attention_begin(s, n, s.epoch)
           t == [active |-> TRUE, tokens |-> n, epoch |-> s.epoch, computed |-> n = 0]
<1>1. b = [s EXCEPT !.busy = TRUE, !.ticket = t]
  BY DEF attention_begin
<1>2. Ticket(t, n, s.epoch)
  BY DEF Ticket
<1> HIDE DEF b, t
<1>3. b = [next_pos |-> s.next_pos, valid |-> s.valid, busy |-> TRUE, epoch |-> s.epoch,
           cache |-> s.cache, blocks |-> s.blocks, ticket |-> t]
  BY <1>1 DEF Account
<1>4. /\ Account(b) /\ b.next_pos = s.next_pos /\ b.valid = s.valid /\ b.busy = TRUE
      /\ b.epoch = s.epoch /\ b.ticket = t /\ b.cache = s.cache /\ b.blocks = s.blocks
  BY <1>3 DEF Account
<1>5. Opened(b, s, n) /\ b.valid = s.valid /\ b.cache = s.cache /\ b.blocks = s.blocks
  BY <1>2, <1>4 DEF Opened
<1> QED
  BY <1>5 DEF b

\* Writing the cache leaves the account alone.
LEMMA CachedOpen ==
  ASSUME NEW s, NEW n, NEW b, Opened(b, s, n), NEW x, NEW p
  PROVE  /\ Opened(Cached(b, x, p), s, n) /\ Cached(b, x, p).valid = b.valid
         /\ Cached(b, x, p).ticket = b.ticket
<1> DEFINE c == Cached(b, x, p)
<1>1. PICK cache, blocks : c = [b EXCEPT !.cache = cache, !.blocks = blocks]
  BY DEF Cached
<1> HIDE DEF c
<1>2. c = [next_pos |-> b.next_pos, valid |-> b.valid, busy |-> b.busy, epoch |-> b.epoch,
           cache |-> cache, blocks |-> blocks, ticket |-> b.ticket]
  BY <1>1 DEF Opened, Account
<1>3. /\ Account(c) /\ c.next_pos = b.next_pos /\ c.valid = b.valid /\ c.busy = b.busy
      /\ c.epoch = b.epoch /\ c.ticket = b.ticket
  BY <1>2 DEF Account
<1>4. Opened(c, s, n) /\ c.valid = b.valid /\ c.ticket = b.ticket
  BY <1>3 DEF Opened
<1> QED
  BY <1>4 DEF c

\* A failure in the middle of the rows.
LEMMA BrokenOpen ==
  ASSUME NEW s, NEW n, NEW c, Opened(c, s, n)
  PROVE  Opened(Broken(c), s, n)
<1> DEFINE d == Broken(c)
<1>1. d = [c EXCEPT !.valid = FALSE]
  BY DEF Broken
<1> HIDE DEF d
<1>2. d = [next_pos |-> c.next_pos, valid |-> FALSE, busy |-> c.busy, epoch |-> c.epoch,
           cache |-> c.cache, blocks |-> c.blocks, ticket |-> c.ticket]
  BY <1>1 DEF Opened, Account
<1>3. /\ Account(d) /\ d.next_pos = c.next_pos /\ d.busy = c.busy
      /\ d.epoch = c.epoch /\ d.ticket = c.ticket
  BY <1>2 DEF Account
<1>4. Opened(d, s, n)
  BY <1>3 DEF Opened
<1> QED
  BY <1>4 DEF d

\* The rows of a chunk are computed under its ticket.
LEMMA ComputedOpen ==
  ASSUME NEW s, NEW n, NEW c, Opened(c, s, n)
  PROVE  /\ Opened(Computed(c), s, n) /\ Computed(c).ticket.computed = TRUE
         /\ Computed(c).valid = c.valid
         /\ Computed(c).cache = c.cache /\ Computed(c).blocks = c.blocks
<1> DEFINE d == Computed(c)
           t == [c.ticket EXCEPT !.computed = TRUE]
           u == c.ticket
<1>1. t = [u EXCEPT !.computed = TRUE] /\ Ticket(u, n, s.epoch)
  BY DEF Opened
<1>2. d = [c EXCEPT !.ticket = t]
  BY DEF Computed, Opened, Account
<1> HIDE DEF d, t, u
<1>u. PICK k : u = [active |-> TRUE, tokens |-> n, epoch |-> s.epoch, computed |-> k]
  BY <1>1 DEF Ticket
<1>3. t = [active |-> TRUE, tokens |-> n, epoch |-> s.epoch, computed |-> TRUE]
  BY <1>1, <1>u
<1>4. Ticket(t, n, s.epoch) /\ t.computed = TRUE
  BY <1>3 DEF Ticket
<1>5. d = [next_pos |-> c.next_pos, valid |-> c.valid, busy |-> c.busy, epoch |-> c.epoch,
           cache |-> c.cache, blocks |-> c.blocks, ticket |-> t]
  BY <1>2 DEF Opened, Account
<1>6. /\ Account(d) /\ d.next_pos = c.next_pos /\ d.valid = c.valid
      /\ d.busy = c.busy /\ d.epoch = c.epoch /\ d.ticket = t
      /\ d.cache = c.cache /\ d.blocks = c.blocks
  BY <1>5 DEF Account
<1>7. /\ Opened(d, s, n) /\ d.ticket.computed = TRUE /\ d.valid = c.valid
      /\ d.cache = c.cache /\ d.blocks = c.blocks
  BY <1>4, <1>6 DEF Opened
<1> QED
  BY <1>7 DEF d

\* Whatever fails, the state is the old one or shows the ticket that was opened.
LEMMA QsaTicket ==
  ASSUME NEW s, Account(s), NEW x, NEW p, NEW e, NEW failing \in QsaFailures \cup {"none"}, NEW m
  PROVE  \/ qsa_block(s, x, p, e, failing, m).s = s
         \/ Opened(qsa_block(s, x, p, e, failing, m).s, s, Len(x))
<1> DEFINE n == Len(x)
           b == attention_begin(s, n, e)
           c == Cached(b, x, p)
           cut == Cached(b, SubSeq(x, 1, m), p)
           r == qsa_block(s, x, p, e, failing, m)
<1>1. CASE failing = "before" \/ attention_begin_status(s, p, n, e) # "ok"
  <2> HIDE DEF b, n
  <2>1. r = [ok |-> FALSE, s |-> s, out |-> x]
    BY <1>1 DEF qsa_block, n
  <2> QED
    BY <2>1
<1>2. CASE ~(failing = "before" \/ attention_begin_status(s, p, n, e) # "ok")
  <2>1. e = s.epoch
    BY <1>2 DEF attention_begin_status
  <2>2. Opened(b, s, n)
    BY <2>1, BeginOpens
  <2>3. r.s \in {b, Broken(cut), Computed(c)}
    BY <1>2 DEF qsa_block, QsaFailures, Broken, Computed
  <2> HIDE DEF b, n, r
  <2>4. Opened(c, s, n) /\ Opened(cut, s, n)
    BY <2>2, CachedOpen
  <2> HIDE DEF c, cut
  <2>5. Opened(Broken(cut), s, n) /\ Opened(Computed(c), s, n)
    BY <2>4, BrokenOpen, ComputedOpen
  <2>6. Opened(r.s, s, n)
    BY <2>2, <2>3, <2>5
  <2> QED
    BY <2>6 DEF r, n
<1> QED
  BY <1>1, <1>2

\* r is what attention makes of rows p + 1 to p + n of x from a cache of the first p.
Attends(r, s, x, p, n, e, failing, m) ==
  /\ p \in Nat /\ n \in Nat /\ IsRows(x, p + n) /\ p + n <= Context
  /\ Account(s) /\ CacheHolds(s, Part(x, 0, p), p)
  /\ failing \in QsaFailures \cup {"none"}
  /\ r = qsa_block(s, Part(x, p, n), p, e, failing, m) /\ r.ok

\* Attention over a chunk does that part of what it does over the whole.
LEMMA QsaChunk ==
  ASSUME NEW r, NEW s, NEW x, NEW p, NEW n, NEW e, NEW failing, NEW m,
         Attends(r, s, x, p, n, e, failing, m)
  PROVE  /\ s.valid /\ s.epoch = e /\ s.next_pos = p /\ ~s.busy
         /\ r.out = Part(QsaOut(x), p, n)
         /\ CacheHolds(r.s, x, p + n)
         /\ r.s.valid = s.valid /\ Opened(r.s, s, n) /\ r.s.ticket.computed
<1> SUFFICES ASSUME p \in Nat, n \in Nat, IsRows(x, p + n), p + n <= Context,
                    Account(s), CacheHolds(s, Part(x, 0, p), p),
                    failing \in QsaFailures \cup {"none"},
                    r = qsa_block(s, Part(x, p, n), p, e, failing, m), r.ok
             PROVE  /\ s.valid /\ s.epoch = e /\ s.next_pos = p /\ ~s.busy
                    /\ r.out = Part(QsaOut(x), p, n)
                    /\ CacheHolds(r.s, x, p + n)
                    /\ r.s.valid = s.valid /\ Opened(r.s, s, n) /\ r.s.ticket.computed
  BY DEF Attends
<1> DEFINE y == Part(x, p, n)
           b == attention_begin(s, n, e)
           c == Cached(b, y, p)
           done == Computed(c)
<1>0. p + n \in Nat
  OBVIOUS
<1>1. Len(y) = n /\ Len(x) = p + n
  BY <1>0, PartRows, RowsSeq
<1>2. attention_begin_status(s, p, n, e) = "ok" /\ failing = "none"
  <2> HIDE DEF y
  <2> QED
    BY <1>1 DEF qsa_block, QsaFailures, y
<1>3. s.valid /\ s.epoch = e /\ s.next_pos = p /\ ~s.busy
  BY <1>2 DEF attention_begin_status
<1>4. r = [ok |-> TRUE, s |-> done,
           out |-> Add(y, [t \in 1 .. Len(y) |-> Attended(done, p + t)])]
  <2>1. qsa_block(s, y, p, e, "none", m)
        = [ok |-> TRUE, s |-> done,
           out |-> Add(y, [t \in 1 .. Len(y) |-> Attended(done, p + t)])]
    <3> HIDE DEF y
    <3> QED
      BY <1>1, <1>2 DEF qsa_block, Computed
  <2> QED
    BY <1>2, <2>1
<1>5. Opened(b, s, n) /\ b.valid = s.valid /\ b.cache = s.cache /\ b.blocks = s.blocks
  BY <1>3, BeginOpens
<1> HIDE DEF b
<1>6. CacheHolds(b, Part(x, 0, p), p) /\ {"cache", "blocks"} \subseteq DOMAIN b
  BY <1>5 DEF CacheHolds, Opened, Account
<1>7. CacheHolds(c, x, p + n)
  BY <1>6, CachedChunk
<1>8. Opened(c, s, n) /\ c.valid = s.valid
  BY <1>5, CachedOpen
<1> HIDE DEF c
<1>9. /\ Opened(done, s, n) /\ done.valid = s.valid /\ done.ticket.computed
      /\ done.cache = c.cache /\ done.blocks = c.blocks
  BY <1>8, ComputedOpen
<1> HIDE DEF done
<1>10. CacheHolds(done, x, p + n)
  BY <1>7, <1>9 DEF CacheHolds
<1>11. ASSUME NEW t \in 1 .. n PROVE <<y[t], Attended(done, p + t)>> = QsaOut(x)[p + t]
  <2>1. p + t \in 1 .. p + n /\ p + t \in 0 .. p + n
    OBVIOUS
  <2>2. Attended(done, p + t) = Heard(x, p + t)
    BY <1>0, <1>10, <2>1, AttendedHeard
  <2>3. y[t] = x[p + t]
    BY DEF Part
  <2> QED
    BY <1>1, <2>1, <2>2, <2>3 DEF QsaOut
<1>12. Add(y, [t \in 1 .. Len(y) |-> Attended(done, p + t)]) = Part(QsaOut(x), p, n)
  <2> HIDE DEF y
  <2> QED
    BY <1>1, <1>11 DEF Add, Part
<1>13. r.out = Part(QsaOut(x), p, n) /\ r.s = done
  BY <1>4, <1>12
<1> QED
  BY <1>3, <1>9, <1>10, <1>13

-----------------------------------------------------------------------------
(* The n-grams of a text taken in chunks.                                  *)

\* Residual and addend row by row, for a chunk of both.
LEMMA AddChunk ==
  ASSUME NEW p \in Nat, NEW n \in Nat, NEW x, NEW y, Len(x) \in Nat, p + n <= Len(x)
  PROVE  Add(Part(x, p, n), Part(y, p, n)) = Part(Add(x, y), p, n)
<1>1. Len(Part(x, p, n)) = n
  BY PartRows
<1>2. ASSUME NEW t \in 1 .. n PROVE <<Part(x, p, n)[t], Part(y, p, n)[t]>> = Add(x, y)[p + t]
  <2>1. p + t \in 1 .. Len(x)
    OBVIOUS
  <2> QED
    BY <2>1 DEF Part, Add
<1> QED
  BY <1>1, <1>2 DEF Add, Part

\* The reach of the hash.
LEMMA Reach == Hash!History(Grams) = Order - 1 /\ Order - 1 \in Nat
BY CpuGraphAssumption DEF Hash!History, Grams

\* The history after a chunk and another is that after both.
LEMMA NextPrevJoin ==
  ASSUME NEW V, NEW prev, NEW old \in Seq(V), NEW tokens \in Seq(V)
  PROVE  Hash!Next_prev(Grams, Hash!Next_prev(Grams, prev, old), tokens)
         = Hash!Next_prev(Grams, prev, old \o tokens)
<1> DEFINE H == Hash!History(Grams)
           m == Len(old)
           n == Len(tokens)
           both == old \o tokens
           mid == Hash!Next_prev(Grams, prev, old)
<1>1. H \in Nat /\ m \in Nat /\ n \in Nat
  BY Reach, LenProperties
<1>2. /\ both \in Seq(V) /\ Len(both) = m + n
      /\ \A i \in 1 .. (m + n) : both[i] = IF i <= m THEN old[i] ELSE tokens[i - m]
  BY ConcatProperties
<1>3. \A j \in 1 .. H : mid[j] = IF m >= j THEN old[m - j + 1] ELSE prev[j - m]
  BY DEF Hash!Next_prev
<1> HIDE DEF both, mid
<1>4. ASSUME NEW j \in 1 .. H
      PROVE  (IF n >= j THEN tokens[n - j + 1] ELSE mid[j - n])
             = (IF m + n >= j THEN both[m + n - j + 1] ELSE prev[j - (m + n)])
  <2> HIDE DEF m, n, H
  <2>1. CASE n >= j
    <3>1. PICK k \in 1 .. (m + n) :
            k = m + n - j + 1 /\ ~(k <= m) /\ k - m = n - j + 1 /\ m + n >= j
      BY <1>1, <2>1
    <3>2. both[k] = tokens[k - m]
      BY <1>2, <3>1
    <3> QED
      BY <2>1, <3>1, <3>2
  <2>2. CASE ~(n >= j) /\ m + n >= j
    <3>1. /\ m + n - j + 1 \in 1 .. (m + n) /\ m + n - j + 1 <= m
          /\ j - n \in 1 .. H /\ m >= j - n /\ m - (j - n) + 1 = m + n - j + 1
      BY <1>1, <2>2
    <3>2. both[m + n - j + 1] = old[m + n - j + 1]
      BY <1>2, <3>1
    <3>3. mid[j - n] = old[m + n - j + 1]
      BY <1>3, <3>1
    <3> QED
      BY <2>2, <3>2, <3>3
  <2>3. CASE ~(m + n >= j)
    <3>1. ~(n >= j) /\ j - n \in 1 .. H /\ ~(m >= j - n) /\ (j - n) - m = j - (m + n)
      BY <1>1, <2>3
    <3>2. mid[j - n] = prev[j - (m + n)]
      BY <1>3, <3>1
    <3> QED
      BY <2>3, <3>1, <3>2
  <2> QED
    BY <2>1, <2>2, <2>3
<1> QED
  BY <1>2, <1>4, SMTT(90) DEF Hash!Next_prev, mid, both

\* A token of the second chunk sees the tokens it would see in one.
LEMMA BeforeJoin ==
  ASSUME NEW V, NEW prev, NEW old \in Seq(V), NEW tokens \in Seq(V),
         NEW t \in 1 .. Len(tokens), NEW j \in 1 .. Order - 1
  PROVE  Hash!Before(Hash!Next_prev(Grams, prev, old), tokens, t, j)
         = Hash!Before(prev, old \o tokens, Len(old) + t, j)
<1> DEFINE H == Order - 1
           m == Len(old)
           n == Len(tokens)
           both == old \o tokens
           mid == Hash!Next_prev(Grams, prev, old)
<1>1. H \in Nat /\ m \in Nat /\ n \in Nat /\ t \in 1 .. n /\ j \in 1 .. H
  BY Reach, LenProperties
<1>2. \A i \in 1 .. (m + n) : both[i] = IF i <= m THEN old[i] ELSE tokens[i - m]
  BY ConcatProperties
<1>3. \A i \in 1 .. H : mid[i] = IF m >= i THEN old[m - i + 1] ELSE prev[i - m]
  BY Reach DEF Hash!Next_prev
<1> HIDE DEF both, mid, m, n, H
<1>4. CASE t > j
  <2>1. PICK k \in 1 .. (m + n) : k = m + t - j /\ ~(k <= m) /\ k - m = t - j /\ m + t > j
    BY <1>1, <1>4
  <2>2. both[k] = tokens[k - m]
    BY <1>2, <2>1
  <2>3. Hash!Before(mid, tokens, t, j) = tokens[t - j]
    BY <1>4 DEF Hash!Before
  <2>4. Hash!Before(prev, both, m + t, j) = both[k]
    <3>1. Hash!Before(prev, both, m + t, j) = both[(m + t) - j]
      BY <2>1 DEF Hash!Before
    <3> QED
      BY <1>1, <2>1, <3>1
  <2>5. Hash!Before(mid, tokens, t, j) = Hash!Before(prev, both, m + t, j)
    BY <2>1, <2>2, <2>3, <2>4
  <2> QED
    BY <2>5 DEF mid, both, m
<1>5. CASE ~(t > j) /\ m + t > j
  <2>1. PICK k \in 1 .. (m + n) : k = m + t - j /\ k <= m
    BY <1>1, <1>5
  <2>2. PICK i \in 1 .. H : i = j - t + 1 /\ m >= i /\ m - i + 1 = k
    BY <1>1, <1>5, <2>1
  <2>3. both[k] = old[k] /\ mid[i] = old[k]
    BY <1>2, <1>3, <2>1, <2>2
  <2>4. Hash!Before(mid, tokens, t, j) = mid[i]
    BY <1>5, <2>2 DEF Hash!Before
  <2>5. Hash!Before(prev, both, m + t, j) = both[k]
    <3>1. Hash!Before(prev, both, m + t, j) = both[(m + t) - j]
      BY <1>5 DEF Hash!Before
    <3> QED
      BY <1>1, <2>1, <3>1
  <2>6. Hash!Before(mid, tokens, t, j) = Hash!Before(prev, both, m + t, j)
    BY <2>3, <2>4, <2>5
  <2> QED
    BY <2>6 DEF mid, both, m
<1>6. CASE ~(m + t > j)
  <2>1. PICK i \in 1 .. H :
          ~(t > j) /\ i = j - t + 1 /\ ~(m >= i) /\ i - m = j - (m + t) + 1
    BY <1>1, <1>6
  <2>2. mid[i] = prev[i - m]
    BY <1>3, <2>1
  <2>3. Hash!Before(mid, tokens, t, j) = mid[i]
    BY <2>1 DEF Hash!Before
  <2>4. Hash!Before(prev, both, m + t, j) = prev[i - m]
    BY <1>6, <2>1 DEF Hash!Before
  <2>5. Hash!Before(mid, tokens, t, j) = Hash!Before(prev, both, m + t, j)
    BY <2>2, <2>3, <2>4
  <2> QED
    BY <2>5 DEF mid, both, m
<1> QED
  BY <1>4, <1>5, <1>6

\* A token of the first chunk does not see the second.
LEMMA BeforePrefix ==
  ASSUME NEW V, NEW prev, NEW old \in Seq(V), NEW tokens \in Seq(V),
         NEW t \in 1 .. Len(old), NEW j \in 1 .. Order - 1
  PROVE  Hash!Before(prev, old \o tokens, t, j) = Hash!Before(prev, old, t, j)
<1> DEFINE both == old \o tokens
<1>1. Order - 1 \in Nat /\ Len(old) \in Nat /\ Len(tokens) \in Nat
  BY Reach, LenProperties
<1>2. \A i \in 1 .. Len(old) : both[i] = old[i]
  BY <1>1, ConcatProperties
<1> HIDE DEF both
<1>3. t > j => t - j \in 1 .. Len(old)
  BY <1>1
<1>4. Hash!Before(prev, both, t, j) = Hash!Before(prev, old, t, j)
  BY <1>2, <1>3 DEF Hash!Before
<1> QED
  BY <1>4 DEF both

\* The n-grams of a text, and those of its chunks.
Texts     == Seq(Vocabulary)
Grams_of(text) == Rows(EmptyText, text)
Prev(text)     == Hash!Next_prev(Grams, EmptyText, text)

\* The n-grams of a text and of the chunk behind it are those of both.
LEMMA RowsJoin ==
  ASSUME NEW old \in Texts, NEW tokens \in Texts
  PROVE  /\ IsRows(Grams_of(old \o tokens), Len(old) + Len(tokens))
         /\ Grams_of(old) = Part(Grams_of(old \o tokens), 0, Len(old))
         /\ Rows(Prev(old), tokens) = Part(Grams_of(old \o tokens), Len(old), Len(tokens))
<1> DEFINE m == Len(old)
           n == Len(tokens)
           both == old \o tokens
           x == Grams_of(both)
           row(prev, ts, t) == <<ts[t]>> \o [j \in 1 .. Order - 1 |-> Hash!Before(prev, ts, t, j)]
<1>1. m \in Nat /\ n \in Nat /\ Len(both) = m + n
  BY ConcatProperties, LenProperties DEF Texts
<1>2. \A i \in 1 .. (m + n) : both[i] = IF i <= m THEN old[i] ELSE tokens[i - m]
  BY ConcatProperties DEF Texts
<1>3. x = [t \in 1 .. (m + n) |-> row(EmptyText, both, t)]
  BY <1>1 DEF Grams_of, Rows
<1>4. IsRows(x, m + n)
  BY <1>3 DEF IsRows
<1>5. ASSUME NEW t \in 1 .. m PROVE row(EmptyText, old, t) = x[0 + t]
  <2>1. 0 + t = t /\ t \in 1 .. (m + n) /\ t <= m
    BY <1>1
  <2>2. both[t] = old[t]
    BY <1>2, <2>1
  <2>3. \A j \in 1 .. Order - 1 : Hash!Before(EmptyText, both, t, j) = Hash!Before(EmptyText, old, t, j)
    BY BeforePrefix DEF Texts
  <2> HIDE DEF x, both
  <2> QED
    BY <1>3, <2>1, <2>2, <2>3
<1>6. ASSUME NEW t \in 1 .. n PROVE row(Prev(old), tokens, t) = x[m + t]
  <2>1. m + t \in 1 .. (m + n) /\ ~(m + t <= m) /\ (m + t) - m = t
    BY <1>1
  <2>2. both[m + t] = tokens[t]
    BY <1>2, <2>1
  <2>3. \A j \in 1 .. Order - 1 :
          Hash!Before(EmptyText, both, m + t, j) = Hash!Before(Prev(old), tokens, t, j)
    BY BeforeJoin DEF Texts, Prev
  <2> HIDE DEF x, both, m
  <2> QED
    BY <1>3, <2>1, <2>2, <2>3
<1> HIDE DEF x
<1>7. Grams_of(old) = Part(x, 0, m)
  BY <1>5 DEF Grams_of, Rows, Part
<1>8. Rows(Prev(old), tokens) = Part(x, m, n)
  BY <1>6 DEF Rows, Part
<1> QED
  BY <1>4, <1>7, <1>8 DEF x

-----------------------------------------------------------------------------
(* One pass over a text, layer by layer.                                   *)

MixIn(i, text) ==
  IF i \in Ple THEN PleOut(Entering(text)[i - 1], text) ELSE Entering(text)[i - 1]
LayerOut(i, x) == IF i \in Gdn THEN GdnOut(x) ELSE QsaOut(x)

\* Nothing of something.
LEMMA PartNone ==
  ASSUME NEW x, NEW p
  PROVE  Part(x, p, 0) = <<>>
BY PartRows, RowsSeq, EmptySeq

\* The trunk is a finite sequence of layers.
LEMMA TrunkType == Len(Layers) \in Nat /\ Trunk = 1 .. Len(Layers)
BY CpuGraphAssumption, LenProperties DEF Trunk

\* What enters the layers in one pass.
LEMMA EnteringUnfold ==
  ASSUME NEW text
  PROVE  /\ Entering(text)[0] = Embed(text)
         /\ \A i \in Trunk : Entering(text)[i] = Mixer(i, MixIn(i, text)).out
<1> DEFINE N == Len(Layers)
           step(i, y) == Mixer(i, IF i \in Ple THEN PleOut(y, text) ELSE y).out
           Good(k, g) == g = [i \in 0 .. k |-> IF i = 0 THEN Embed(text) ELSE step(i, g[i - 1])]
           Bad == {k \in 0 .. N : ~\E g : Good(k, g)}
<1>0. N \in Nat
  BY TrunkType
<1>1. Bad = {}
  <2> SUFFICES ASSUME Bad # {} PROVE FALSE
    OBVIOUS
  <2>1. Bad \subseteq Nat /\ \E k : k \in Bad
    <3> HIDE DEF Good
    <3> QED
      BY <1>0
  <2>2. PICK k \in Bad : \A j \in Bad : ~(<<j, k>> \in OpToRel(<, Nat))
    <3> HIDE DEF Bad
    <3> QED
      BY <2>1, WFMin, NatLessThanWellFounded
  <2>3. k \in 0 .. N /\ ~\E g : Good(k, g)
    <3> HIDE DEF Good
    <3> QED
      OBVIOUS
  <2>4. k # 0
    <3> DEFINE g == [i \in 0 .. 0 |-> Embed(text)]
    <3>1. Good(0, g)
      OBVIOUS
    <3> HIDE DEF Good
    <3> QED
      BY <2>3, <3>1
  <2>5. k \in 1 .. N /\ k - 1 \in 0 .. N /\ k - 1 \in Nat /\ k - 1 < k
    <3> HIDE DEF Good, Bad
    <3> QED
      BY <1>0, <2>3, <2>4
  <2>6. \E f1 : Good(k - 1, f1)
    <3>1. <<k - 1, k>> \in OpToRel(<, Nat)
      BY <1>0, <2>5 DEF OpToRel
    <3> HIDE DEF Good
    <3> QED
      BY <2>2, <2>5, <3>1
  <2>7. PICK f1 : Good(k - 1, f1)
    <3> HIDE DEF Good
    <3> QED
      BY <2>6
  <2> DEFINE g == [i \in 0 .. k |-> IF i = k THEN step(k, f1[k - 1]) ELSE f1[i]]
             h == [i \in 0 .. k |-> IF i = 0 THEN Embed(text) ELSE step(i, g[i - 1])]
  <2> HIDE DEF step
  <2>8. ASSUME NEW i \in 0 .. k PROVE g[i] = IF i = 0 THEN Embed(text) ELSE step(i, g[i - 1])
    <3>1. CASE i = 0
      <4>1. 0 \in 0 .. k - 1 /\ i # k
        BY <2>5, <3>1
      <4> QED
        BY <2>7, <3>1, <4>1
    <3>2. CASE i \in 1 .. k - 1
      <4>1. i \in 0 .. k - 1 /\ i # 0 /\ i # k /\ i - 1 \in 0 .. k /\ i - 1 # k
        BY <2>5, <3>2
      <4>2. g[i - 1] = f1[i - 1] /\ g[i] = f1[i]
        BY <4>1
      <4>3. f1[i] = step(i, f1[i - 1])
        BY <2>7, <4>1
      <4> HIDE DEF g
      <4> QED
        BY <4>1, <4>2, <4>3
    <3>3. CASE i = k
      <4>1. k # 0 /\ k - 1 \in 0 .. k /\ k - 1 # k
        BY <2>5
      <4>2. g[k - 1] = f1[k - 1] /\ g[k] = step(k, f1[k - 1])
        BY <4>1
      <4> HIDE DEF g
      <4> QED
        BY <3>3, <4>1, <4>2
    <3>4. i = 0 \/ i = k \/ i \in 1 .. k - 1
      BY <2>5
    <3> QED
      BY <3>1, <3>2, <3>3, <3>4
  <2>9. Good(k, g)
    BY <2>8
  <2> HIDE DEF Good
  <2> QED
    BY <2>3, <2>9
<1>2. \E g : Good(N, g)
  <2>1. N \in 0 .. N
    BY <1>0
  <2>2. N \notin Bad
    BY <1>1
  <2> HIDE DEF Good
  <2> QED
    BY <2>1, <2>2
<1> DEFINE in == CHOOSE g : Good(N, g)
<1>3. Good(N, in)
  <2> HIDE DEF Good
  <2> QED
    BY <1>2
<1>4. Entering(text) = in
  BY DEF Entering
<1> HIDE DEF in
<1>5. in[0] = Embed(text)
  BY <1>0, <1>3
<1>6. ASSUME NEW i \in Trunk PROVE in[i] = step(i, in[i - 1])
  <2>1. i \in 0 .. N /\ i # 0
    BY <1>0, TrunkType
  <2> HIDE DEF step
  <2> QED
    BY <1>3, <2>1
<1>7. ASSUME NEW i \in Trunk PROVE step(i, in[i - 1]) = Mixer(i, MixIn(i, text)).out
  BY <1>4 DEF MixIn
<1> HIDE DEF step
<1> QED
  BY <1>4, <1>5, <1>6, <1>7

\* A layer on fresh states.
LEMMA FreshMixer ==
  ASSUME NEW n \in Nat, n <= Context, NEW x, IsRows(x, n), NEW i \in Trunk
  PROVE  /\ Mixer(i, x).out = LayerOut(i, x)
         /\ i \in Gdn => Mixer(i, x).s = GdnHolding(x, 1)
         /\ i \notin Gdn => CacheHolds(Mixer(i, x).s, x, n)
<1>1. /\ 0 + n = n /\ 0 \in Nat /\ IsRows(x, 0 + n) /\ Len(x) = n
      /\ Part(x, 0, 0) = <<>> /\ Part(x, 0, n) = x
  BY PartNone, PartWhole, RowsSeq
<1>2. CASE i \in Gdn
  <2>1. gdn_block(GdnHolding(Part(x, 0, 0), 1), Part(x, 0, n), 0, "none")
        = [ok |-> TRUE, s |-> GdnHolding(x, 1), out |-> Part(GdnOut(x), 0, n)]
    BY <1>1, GdnChunk
  <2>2. IsRows(GdnOut(x), n)
    BY <1>1 DEF IsRows, GdnOut
  <2>3. Part(GdnOut(x), 0, n) = GdnOut(x)
    BY <2>2, PartWhole
  <2>4. Mixer(i, x) = [ok |-> TRUE, s |-> GdnHolding(x, 1), out |-> GdnOut(x)]
    BY <1>1, <1>2, <2>1, <2>3, FreshBlock DEF Mixer
  <2> QED
    BY <1>2, <2>4 DEF LayerOut
<1>3. CASE i \notin Gdn
  <2> DEFINE s == Cached(FreshAtt(1), x, 0)
             out == Add(x, [t \in 1 .. Len(x) |-> Attended(s, t)])
  <2>1. Mixer(i, x) = [s |-> s, out |-> out]
    BY <1>3 DEF Mixer
  <2>2. CacheHolds(s, x, n)
    <3>1. {"cache", "blocks"} \subseteq DOMAIN FreshAtt(1)
      BY DEF FreshAtt
    <3>2. CacheHolds(FreshAtt(1), Part(x, 0, 0), 0)
      BY NothingCached
    <3>3. CacheHolds(Cached(FreshAtt(1), Part(x, 0, n), 0), x, 0 + n)
      <4> DEFINE fresh == FreshAtt(1)
      <4>1. {"cache", "blocks"} \subseteq DOMAIN fresh /\ CacheHolds(fresh, Part(x, 0, 0), 0)
        BY <3>1, <3>2
      <4>2. 0 \in Nat /\ 0 + n <= Context
        BY <1>1
      <4> HIDE DEF fresh
      <4>3. CacheHolds(Cached(fresh, Part(x, 0, n), 0), x, 0 + n)
        BY <4>1, <4>2, CachedChunk
      <4> QED
        BY <4>3 DEF fresh
    <3> QED
      BY <1>1, <3>3
  <2> HIDE DEF s
  <2>3. ASSUME NEW t \in 1 .. n PROVE Attended(s, t) = Heard(x, t)
    <3>1. t \in 0 .. n
      OBVIOUS
    <3> QED
      BY <2>2, <3>1, AttendedHeard
  <2>4. out = QsaOut(x)
    BY <1>1, <2>3 DEF Add, QsaOut
  <2> HIDE DEF out
  <2> QED
    BY <1>3, <2>1, <2>2, <2>4 DEF LayerOut
<1> QED
  BY <1>2, <1>3

\* The per-layer embedding in one pass.
LEMMA PlePass ==
  ASSUME NEW text \in Texts, NEW x
  PROVE  /\ PleOut(x, text) = Add(x, Windows(Grams_of(text)))
         /\ conv_causal(FreshPle(1).conv, Grams_of(text), 0, TRUE).s = Moved(1, Grams_of(text))
         /\ IsRows(Grams_of(text), Len(text)) /\ Len(text) \in Nat
<1> DEFINE g == Grams_of(text)
           n == Len(text)
<1>1. n \in Nat /\ 0 \in Nat /\ 0 + n = n
  BY LenProperties DEF Texts
<1>2. IsRows(g, n)
  BY DEF IsRows, Grams_of, Rows
<1>3. FreshPle(1).conv = Moved(1, <<>>)
  BY ShiftNothing, EmptySeq DEF FreshPle, Moved, state_init
<1> HIDE DEF g, n
<1>4. Part(g, 0, 0) = <<>> /\ Part(g, 0, n) = g /\ Len(g) = n
  BY <1>1, <1>2, PartNone, PartWhole, RowsSeq
<1>5. conv_causal(Moved(1, Part(g, 0, 0)), Part(g, 0, n), 0, TRUE)
      = Result("ok", Moved(1, g), Part(Windows(g), 0, n))
  BY <1>1, <1>2, ConvChunk
<1>6. Part(Windows(g), 0, n) = Windows(g)
  <2>1. IsRows(Windows(g), n)
    BY <1>4 DEF IsRows, Windows
  <2> QED
    BY <1>1, <2>1, PartWhole
<1>7. conv_causal(FreshPle(1).conv, g, 0, TRUE) = Result("ok", Moved(1, g), Windows(g))
  BY <1>3, <1>4, <1>5, <1>6
<1> DEFINE c == conv_causal(FreshPle(1).conv, g, 0, TRUE)
<1>8. c.s = Moved(1, g) /\ c.out = Windows(g)
  <2>1. c = Result("ok", Moved(1, g), Windows(g))
    BY <1>7
  <2> HIDE DEF c
  <2> QED
    BY <2>1 DEF Result
<1> QED
  BY <1>1, <1>2, <1>8 DEF PleOut, Grams_of, g, n

\* A layer does to a beginning what it does to the whole.
LEMMA LayerPrefix ==
  ASSUME NEW m \in Nat, NEW n \in Nat, NEW x, IsRows(x, m + n), NEW i
  PROVE  /\ LayerOut(i, Part(x, 0, m)) = Part(LayerOut(i, x), 0, m)
         /\ IsRows(LayerOut(i, x), m + n)
<1> DEFINE y == Part(x, 0, m)
<1>0. m + n \in Nat
  OBVIOUS
<1>1. Len(x) = m + n /\ Len(y) = m
  BY <1>0, PartRows, RowsSeq
<1>2. ASSUME NEW t \in 1 .. m
      PROVE  0 + t = t /\ t \in 1 .. m + n /\ t \in 0 .. m /\ y[t] = x[t]
  <2>1. 0 + t = t /\ t \in 1 .. m + n /\ t \in 0 .. m
    OBVIOUS
  <2> QED
    BY <2>1 DEF Part
<1>3. IsRows(GdnOut(x), m + n) /\ IsRows(QsaOut(x), m + n)
  BY <1>1 DEF IsRows, GdnOut, QsaOut
<1>4. GdnOut(y) = Part(GdnOut(x), 0, m)
  <2>1. ASSUME NEW t \in 1 .. m
        PROVE  <<y[t], Part(Windows(y), 0, t)>> = GdnOut(x)[0 + t]
    <3>1. Windows(y) = Part(Windows(x), 0, m)
      BY WindowsPrefix
    <3>2. Part(Part(Windows(x), 0, m), 0, t) = Part(Windows(x), 0, t)
      BY <1>2, PartOfPart
    <3> QED
      BY <1>1, <1>2, <3>1, <3>2 DEF GdnOut
  <2> HIDE DEF y
  <2> QED
    BY <1>1, <2>1 DEF GdnOut, Part
<1>5. QsaOut(y) = Part(QsaOut(x), 0, m)
  <2>1. ASSUME NEW t \in 1 .. m PROVE <<y[t], Heard(y, t)>> = QsaOut(x)[0 + t]
    <3>1. Part(y, 0, t) = Part(x, 0, t)
      BY <1>2, PartOfPart
    <3>2. ASSUME NEW b \in 1 .. t \div Ratio PROVE Block(y, b) = Block(x, b)
      <4>1. t \in Nat /\ t \div Ratio \in Nat
        <5>1. t \in Nat /\ 1 \in Nat \ {0}
          OBVIOUS
        <5> QED
          BY <5>1, FullBlocks
      <4>2. b \in Nat \ {0}
        BY <4>1
      <4>3. /\ b * Ratio <= t /\ b * Ratio \in Nat
            /\ \A r \in 1 .. Ratio : (b - 1) * Ratio + r \in 1 .. b * Ratio
        BY <4>1, <4>2, FullBlocks
      <4>4. ASSUME NEW r \in 1 .. Ratio PROVE y[(b - 1) * Ratio + r] = x[(b - 1) * Ratio + r]
        <5>1. PICK k \in 1 .. m : k = (b - 1) * Ratio + r
          BY <4>3
        <5> QED
          BY <1>2, <5>1
      <4> HIDE DEF y
      <4> QED
        BY <4>4 DEF Block
    <3>3. Heard(y, t) = Heard(x, t)
      <4> HIDE DEF y
      <4> QED
        BY <3>1, <3>2 DEF Heard
    <3> QED
      BY <1>1, <1>2, <3>3 DEF QsaOut
  <2> HIDE DEF y
  <2> QED
    BY <1>1, <2>1 DEF QsaOut, Part
<1> QED
  BY <1>3, <1>4, <1>5 DEF LayerOut

\* One pass yields a row for each token in every layer.
LEMMA PassRows ==
  ASSUME NEW text \in Texts, Len(text) <= Context
  PROVE  /\ \A i \in 0 .. Len(Layers) : IsRows(Entering(text)[i], Len(text))
         /\ \A i \in Trunk : /\ IsRows(MixIn(i, text), Len(text))
                             /\ Entering(text)[i] = LayerOut(i, MixIn(i, text))
<1> DEFINE n == Len(text)
           in == Entering(text)
           N == Len(Layers)
           sized == [i \in 0 .. N |-> IF IsRows(in[i], n) THEN 1 ELSE 0]
<1>0. N \in Nat /\ n \in Nat /\ Trunk = 1 .. N
  BY TrunkType, LenProperties DEF Texts
<1>1. IsRows(in[0], n)
  BY EnteringUnfold DEF IsRows, Embed
<1>2. ASSUME NEW i \in Trunk, IsRows(in[i - 1], n)
      PROVE  IsRows(MixIn(i, text), n) /\ in[i] = LayerOut(i, MixIn(i, text)) /\ IsRows(in[i], n)
  <2>1. IsRows(MixIn(i, text), n)
    <3>1. IsRows(PleOut(in[i - 1], text), n)
      <4>1. Len(in[i - 1]) = n
        BY <1>0, <1>2, RowsSeq
      <4>2. PleOut(in[i - 1], text) = Add(in[i - 1], Windows(Grams_of(text)))
        BY PlePass
      <4> HIDE DEF in, n
      <4> QED
        BY <4>1, <4>2 DEF Add, IsRows
    <3> QED
      BY <1>2, <3>1 DEF MixIn
  <2>2. Mixer(i, MixIn(i, text)).out = LayerOut(i, MixIn(i, text))
    BY <1>0, <2>1, FreshMixer
  <2>3. in[i] = LayerOut(i, MixIn(i, text))
    BY <2>2, EnteringUnfold
  <2>4. 0 + n = n /\ 0 \in Nat
    BY <1>0
  <2>5. IsRows(LayerOut(i, MixIn(i, text)), 0 + n)
    BY <1>0, <2>1, <2>4, LayerPrefix
  <2> QED
    BY <2>1, <2>3, <2>4, <2>5
<1> HIDE DEF in, n, N
<1>3. \A i \in 0 .. N : sized[i] \in {1}
  <2>1. sized[0] \in {1}
    BY <1>0, <1>1
  <2>2. ASSUME NEW i \in 1 .. N, sized[i - 1] \in {1} PROVE sized[i] \in {1}
    <3>1. i - 1 \in 0 .. N /\ i \in 0 .. N /\ i \in Trunk
      BY <1>0
    <3> QED
      BY <1>2, <2>2, <3>1
  <2> DEFINE S == {1}
  <2>3. sized[0] \in S /\ \A i \in 1 .. N : sized[i - 1] \in S => sized[i] \in S
    BY <2>1, <2>2
  <2> HIDE DEF sized, S
  <2>4. \A i \in 0 .. N : sized[i] \in S
    BY <1>0, <2>3, Throughout
  <2> QED
    BY <2>4 DEF S
<1>4. \A i \in 0 .. N : IsRows(in[i], n)
  BY <1>3
<1>5. \A i \in Trunk : i - 1 \in 0 .. N
  BY <1>0
<1> QED
  BY <1>2, <1>4, <1>5 DEF in, n, N

\* The pass over a beginning is the beginning of the pass.
LEMMA PassPrefix ==
  ASSUME NEW old \in Texts, NEW tokens \in Texts, Len(old \o tokens) <= Context
  PROVE  /\ \A i \in 0 .. Len(Layers) :
              Entering(old)[i] = Part(Entering(old \o tokens)[i], 0, Len(old))
         /\ \A i \in Trunk : MixIn(i, old) = Part(MixIn(i, old \o tokens), 0, Len(old))
<1> DEFINE both == old \o tokens
           m == Len(old)
           n == Len(tokens)
           N == Len(Layers)
           same == [i \in 0 .. N |-> IF Entering(old)[i] = Part(Entering(both)[i], 0, m) THEN 1 ELSE 0]
<1>0. /\ N \in Nat /\ m \in Nat /\ n \in Nat /\ m + n \in Nat /\ Trunk = 1 .. N
      /\ both \in Texts /\ Len(both) = m + n /\ m <= Context /\ m + n <= Context
      /\ \A t \in 1 .. m : both[t] = old[t]
  <2>1. both \in Texts /\ Len(both) = m + n /\ m \in Nat /\ n \in Nat
        /\ \A i \in 1 .. m + n : both[i] = IF i <= m THEN old[i] ELSE tokens[i - m]
    BY ConcatProperties, LenProperties DEF Texts
  <2> HIDE DEF both, m, n
  <2> QED
    BY <2>1, TrunkType, CpuGraphAssumption DEF both
<1>1. Entering(old)[0] = Part(Entering(both)[0], 0, m)
  <2>1. Entering(old)[0] = Embed(old) /\ Entering(both)[0] = Embed(both)
    BY EnteringUnfold
  <2>2. ASSUME NEW t \in 1 .. m PROVE <<old[t]>> = Embed(both)[0 + t]
    <3>1. 0 + t = t /\ t \in 1 .. m + n
      BY <1>0
    <3>2. both[t] = old[t] /\ t \in 1 .. Len(both)
      BY <1>0, <3>1
    <3> HIDE DEF both, m, n
    <3> QED
      BY <3>1, <3>2 DEF Embed
  <2> QED
    BY <2>1, <2>2 DEF Embed, Part
<1>2. /\ \A i \in 0 .. N : IsRows(Entering(both)[i], m + n)
      /\ \A i \in Trunk : /\ IsRows(MixIn(i, both), m + n)
                          /\ Entering(both)[i] = LayerOut(i, MixIn(i, both))
      /\ \A i \in Trunk : Entering(old)[i] = LayerOut(i, MixIn(i, old))
  <2>1. /\ both \in Texts /\ Len(both) <= Context /\ old \in Texts /\ Len(old) <= Context
        /\ Len(both) = m + n
    BY <1>0
  <2>2. /\ \A i \in 0 .. Len(Layers) : IsRows(Entering(both)[i], Len(both))
        /\ \A i \in Trunk : /\ IsRows(MixIn(i, both), Len(both))
                            /\ Entering(both)[i] = LayerOut(i, MixIn(i, both))
    <3> HIDE DEF both
    <3> QED
      BY <2>1, PassRows
  <2>3. \A i \in Trunk : Entering(old)[i] = LayerOut(i, MixIn(i, old))
    BY <2>1, PassRows
  <2> QED
    BY <2>1, <2>2, <2>3
<1>3. ASSUME NEW i \in Trunk, Entering(old)[i - 1] = Part(Entering(both)[i - 1], 0, m)
      PROVE  MixIn(i, old) = Part(MixIn(i, both), 0, m)
  <2> DEFINE y == Entering(both)[i - 1]
             w == Windows(Grams_of(both))
  <2>0. i - 1 \in 0 .. N
    BY <1>0
  <2>1. IsRows(y, m + n) /\ Len(y) = m + n
    BY <1>0, <1>2, <2>0, RowsSeq, ZenonT(60)
  <2>2. Windows(Grams_of(old)) = Part(w, 0, m)
    <3>1. IsRows(Grams_of(both), m + n) /\ Grams_of(old) = Part(Grams_of(both), 0, m)
      BY RowsJoin
    <3> HIDE DEF both
    <3> QED
      BY <1>0, <3>1, WindowsPrefix
  <2>3. PleOut(Part(y, 0, m), old) = Add(Part(y, 0, m), Part(w, 0, m)) /\ PleOut(y, both) = Add(y, w)
    BY <1>0, <2>2, PlePass
  <2> HIDE DEF y, w, both, m, n
  <2>4. Add(Part(y, 0, m), Part(w, 0, m)) = Part(Add(y, w), 0, m)
    <3>1. 0 \in Nat /\ Len(y) \in Nat /\ 0 + m <= Len(y)
      BY <1>0, <2>1
    <3> QED
      BY <1>0, <3>1, AddChunk
  <2> QED
    BY <1>3, <2>3, <2>4 DEF MixIn, y
<1>4. ASSUME NEW i \in Trunk, Entering(old)[i - 1] = Part(Entering(both)[i - 1], 0, m)
      PROVE  Entering(old)[i] = Part(Entering(both)[i], 0, m)
  <2>1. LayerOut(i, Part(MixIn(i, both), 0, m)) = Part(LayerOut(i, MixIn(i, both)), 0, m)
    <3> HIDE DEF both, m, n
    <3> QED
      BY <1>0, <1>2, LayerPrefix, SMTT(60)
  <2> QED
    BY <1>2, <1>3, <1>4, <2>1
<1> HIDE DEF both, m, n, N
<1>5. \A i \in 0 .. N : same[i] \in {1}
  <2>1. same[0] \in {1}
    BY <1>0, <1>1
  <2>2. ASSUME NEW i \in 1 .. N, same[i - 1] \in {1} PROVE same[i] \in {1}
    <3>1. i - 1 \in 0 .. N /\ i \in 0 .. N /\ i \in Trunk
      BY <1>0
    <3> QED
      BY <1>4, <2>2, <3>1
  <2> DEFINE S == {1}
  <2>3. same[0] \in S /\ \A i \in 1 .. N : same[i - 1] \in S => same[i] \in S
    BY <2>1, <2>2
  <2> HIDE DEF same, S
  <2>4. \A i \in 0 .. N : same[i] \in S
    BY <1>0, <2>3, Throughout
  <2> QED
    BY <2>4 DEF S
<1>6. \A i \in 0 .. N : Entering(old)[i] = Part(Entering(both)[i], 0, m)
  BY <1>5
<1>7. \A i \in Trunk : i - 1 \in 0 .. N
  BY <1>0
<1> QED
  BY <1>3, <1>6, <1>7 DEF both, m, N

-----------------------------------------------------------------------------
(* The invariant.                                                          *)

Calling == ~Running("idle")
whole   == told \o call.tokens
Chunk(x)       == Part(x, Len(told), Len(call.tokens))
LastRows(x, n) == [t \in 1 .. n |-> x[Len(x) - n + t]]

\* The layers whose mixer, and whose embedding, the call has gone through.
Passed(i)   == Calling /\ (i < call.at \/ (i = call.at /\ Running("ffn")))
Embedded(i) == Calling /\ (i < call.at \/ (i = call.at /\ call.stage \in {"mixer", "ffn"}))
TextAt(i)   == IF Passed(i) THEN whole ELSE told
Sound       == f.valid /\ (Calling => call.ok)

\* An embedding, its job and a cache that hold a text.
PleHolding(text, busy, e) ==
  [conv |-> Moved(e, Grams_of(text)), prev |-> Prev(text), next_pos |-> Len(text),
   valid |-> TRUE, busy |-> busy, epoch |-> e]
JobHolding(text, n, e) ==
  [phase |-> "computed", next |-> Prev(text), candidate |-> Moved(e, Grams_of(text)), tokens |-> n]
AttHolding(s, i, text, e, p) ==
  CacheHolds(s, MixIn(i, text), Len(text)) /\ s.valid /\ s.epoch = e /\ s.next_pos = p

\* A valid graph stands behind the text told to it.
Session ==
  /\ f = [epoch |-> f.epoch, next_pos |-> f.next_pos, valid |-> f.valid]
  /\ f.valid \in BOOLEAN /\ f.epoch \in Nat /\ told \in Texts
  /\ f.valid => f.next_pos = Len(told) /\ Len(told) <= Context

Layered == DOMAIN gdn = Gdn /\ DOMAIN att = Qsa /\ DOMAIN ple = Ple /\ DOMAIN job = Ple

\* Where a call can be.
Calls ==
  Calling =>
    /\ f.valid
    /\ call = [at |-> call.at, stage |-> call.stage, tokens |-> call.tokens, layers |-> call.layers,
               rows |-> call.rows, x |-> call.x, ok |-> call.ok]
    /\ call.stage \in {"ple", "mixer", "ffn", "head", "finish"}
    /\ call.tokens \in Texts /\ Len(told) + Len(call.tokens) <= Context
    /\ call.layers \in 0 .. Len(Layers) /\ call.rows \in 0 .. Len(call.tokens)
    /\ call.ok \in BOOLEAN /\ (call.stage # "finish" => call.ok)
    /\ call.ok => call.at \in 1 .. call.layers + 1
    /\ call.stage \in {"ple", "mixer", "ffn"} => call.at <= call.layers
    /\ call.ok /\ call.stage \in {"head", "finish"} => call.at = call.layers + 1

\* A state is busy exactly with its ticket or job, and only during a call.
Closed ==
  /\ \A i \in Qsa :
       /\ Account(att[i]) /\ att[i].busy \in BOOLEAN /\ att[i].ticket.active \in BOOLEAN
       /\ att[i].busy <=> att[i].ticket.active
       /\ att[i].ticket.active => Calling /\ Ticket(att[i].ticket, Len(call.tokens), att[i].epoch)
  /\ \A i \in Ple :
       /\ ple[i].busy \in BOOLEAN /\ (ple[i].busy <=> job[i] # NoJob)
       /\ job[i] # NoJob => Calling

\* Every state holds one pass over its text, and has a job or ticket if the call has passed it.
Histories ==
  Sound =>
    /\ \A i \in Gdn : gdn[i] = GdnHolding(MixIn(i, TextAt(i)), f.epoch)
    /\ \A i \in Qsa : AttHolding(att[i], i, TextAt(i), f.epoch, f.next_pos)
    /\ \A i \in Qsa : (att[i].ticket.active <=> Passed(i)) /\ (Passed(i) => att[i].ticket.computed)
    /\ \A i \in Ple : job[i] = IF Embedded(i) THEN JobHolding(whole, Len(call.tokens), f.epoch)
                                              ELSE NoJob

\* The call does not move an embedding until it finishes.
Embeddings == f.valid => \A i \in Ple : ple[i] = PleHolding(told, ple[i].busy, f.epoch)

\* The rows in flight are the call's part of one pass over the whole text.
Residual ==
  Calling /\ call.ok =>
    /\ Running("ple") => call.x = Chunk(Entering(whole)[call.at - 1])
    /\ Running("mixer") => call.x = Chunk(MixIn(call.at, whole))
    /\ Running("ffn") => call.x = Chunk(Entering(whole)[call.at])
    /\ Running("head") => call.x = Chunk(Entering(whole)[call.layers])
    /\ Running("finish") => logits = LastRows(Entering(whole)[call.layers], call.rows)

\* The logits of the last call are those of one pass.
Returned ==
  ~Calling /\ f.valid /\ told # <<>> =>
    \E n \in 0 .. Len(told) : logits = LastRows(Entering(told)[Len(Layers)], n)

IInv == Session /\ Layered /\ Calls /\ Closed /\ Histories /\ Embeddings /\ Residual /\ Returned

-----------------------------------------------------------------------------
(* What the actions share.                                                 *)

\* Nothing has been appended.
LEMMA EmptyPass ==
  /\ <<>> \in Texts /\ Len(<<>>) = 0 /\ 0 <= Context
  /\ \A i \in Trunk : MixIn(i, <<>>) = <<>>
  /\ Grams_of(<<>>) = <<>> /\ Prev(<<>>) = EmptyText
  /\ \A e : FreshPle(e) = PleHolding(<<>>, FALSE, e)
<1>1. <<>> \in Texts /\ Len(<<>>) = 0 /\ 0 <= Context
  BY EmptySeq, CpuGraphAssumption DEF Texts
<1>2. ASSUME NEW i \in Trunk PROVE MixIn(i, <<>>) = <<>>
  <2>1. IsRows(MixIn(i, <<>>), 0)
    BY <1>1, PassRows
  <2> QED
    BY <2>1, RowsSeq, EmptySeq
<1>3. Grams_of(<<>>) = <<>>
  <2>1. IsRows(Grams_of(<<>>), 0)
    BY <1>1, PlePass
  <2> QED
    BY <2>1, RowsSeq, EmptySeq
<1>4. Prev(<<>>) = EmptyText
  <2>1. Order - 1 \in Nat /\ Hash!History(Grams) = Order - 1
    BY Reach
  <2>2. ASSUME NEW j \in 1 .. Order - 1
        PROVE  ~(0 >= j) /\ j - 0 = j /\ EmptyText[j] = Eos
    BY <2>1 DEF EmptyText
  <2>3. Prev(<<>>) = [j \in 1 .. Order - 1 |-> EmptyText[j - 0]]
    BY <1>1, <2>1, <2>2 DEF Prev, Hash!Next_prev
  <2> QED
    BY <2>2, <2>3 DEF EmptyText
<1>5. ASSUME NEW e PROVE FreshPle(e) = PleHolding(<<>>, FALSE, e)
  <2>1. Moved(e, <<>>) = state_init(e, Zeros)
    BY <1>1, ShiftNothing DEF Moved, state_init
  <2> QED
    BY <1>1, <1>3, <1>4, <2>1 DEF FreshPle, PleHolding
<1> QED
  BY <1>1, <1>2, <1>3, <1>4, <1>5

\* The text of a call.
LEMMA WholeText ==
  ASSUME NEW old \in Texts, NEW tokens \in Texts
  PROVE  /\ old \o tokens \in Texts /\ Len(old \o tokens) = Len(old) + Len(tokens)
         /\ Len(old) \in Nat /\ Len(tokens) \in Nat /\ Len(old) + Len(tokens) \in Nat
         /\ Embed(tokens) = Part(Embed(old \o tokens), Len(old), Len(tokens))
<1>1. /\ old \o tokens \in Texts /\ Len(old \o tokens) = Len(old) + Len(tokens)
      /\ Len(old) \in Nat /\ Len(tokens) \in Nat
      /\ \A i \in 1 .. Len(old) + Len(tokens) :
           (old \o tokens)[i] = IF i <= Len(old) THEN old[i] ELSE tokens[i - Len(old)]
  BY ConcatProperties, LenProperties DEF Texts
<1> DEFINE m == Len(old)
           n == Len(tokens)
           both == old \o tokens
<1> HIDE DEF m, n, both
<1>2. ASSUME NEW t \in 1 .. n PROVE <<tokens[t]>> = Embed(both)[m + t]
  <2>1. m + t \in 1 .. m + n /\ ~(m + t <= m) /\ (m + t) - m = t
    BY <1>1 DEF m, n
  <2>2. both[m + t] = tokens[t]
    BY <1>1, <2>1 DEF m, n, both
  <2>3. m + t \in 1 .. Len(both)
    BY <1>1, <2>1 DEF m, n, both
  <2> QED
    BY <2>2, <2>3 DEF Embed
<1>3. Embed(tokens) = Part(Embed(both), m, n)
  BY <1>2 DEF Embed, Part, n
<1> QED
  BY <1>1, <1>3 DEF m, n, both

\* A job in flight is not no job.
LEMMA JobsDiffer ==
  /\ \A text, n, e : JobHolding(text, n, e) # NoJob
  /\ \A phase \in {"aborted", "computed"} : \A next, candidate, n :
       [phase |-> phase, next |-> next, candidate |-> candidate, tokens |-> n] # NoJob
<1>1. NoJob.phase = "none"
  BY DEF NoJob
<1>2. ASSUME NEW phase \in {"aborted", "computed"}, NEW next, NEW candidate, NEW n
      PROVE  [phase |-> phase, next |-> next, candidate |-> candidate, tokens |-> n] # NoJob
  <2>1. [phase |-> phase, next |-> next, candidate |-> candidate, tokens |-> n].phase # "none"
    OBVIOUS
  <2> QED
    BY <1>1, <2>1
<1> QED
  BY <1>2 DEF JobHolding

\* A call that goes on with the layers untouched.
LEMMA LayersStay ==
  ASSUME IInv, Calling, Calling', call.ok,
         UNCHANGED <<f, gdn, att, job, told>>, call'.tokens = call.tokens,
         \A i \in Trunk : Passed(i)' <=> Passed(i),
         \A i \in Ple : Embedded(i)' <=> Embedded(i)
  PROVE  Histories'
<1>1. /\ Sound /\ whole' = whole /\ \A i \in Trunk : TextAt(i)' = TextAt(i)
  BY DEF IInv, Calls, Sound, whole, TextAt
<1>2. /\ \A i \in Gdn : gdn[i] = GdnHolding(MixIn(i, TextAt(i)), f.epoch)
      /\ \A i \in Qsa : AttHolding(att[i], i, TextAt(i), f.epoch, f.next_pos)
      /\ \A i \in Qsa : (att[i].ticket.active <=> Passed(i)) /\ (Passed(i) => att[i].ticket.computed)
      /\ \A i \in Ple : job[i] = IF Embedded(i) THEN JobHolding(whole, Len(call.tokens), f.epoch)
                                                ELSE NoJob
  BY <1>1 DEF IInv, Histories
<1>3. Gdn \subseteq Trunk /\ Qsa \subseteq Trunk
  BY DEF Gdn, Qsa
<1>4. \A i \in Gdn : gdn'[i] = GdnHolding(MixIn(i, TextAt(i)'), f'.epoch)
  BY <1>1, <1>2, <1>3
<1>5. \A i \in Qsa : AttHolding(att'[i], i, TextAt(i)', f'.epoch, f'.next_pos)
  BY <1>1, <1>2, <1>3
<1>6. \A i \in Qsa : (att'[i].ticket.active <=> Passed(i)') /\ (Passed(i)' => att'[i].ticket.computed)
  BY <1>2, <1>3
<1>7. \A i \in Ple : job'[i] = IF Embedded(i)' THEN JobHolding(whole', Len(call'.tokens), f'.epoch)
                                               ELSE NoJob
  BY <1>1, <1>2
<1> QED
  BY <1>4, <1>5, <1>6, <1>7 DEF Histories

\* A call that fails, whatever has become of the layer it is in.
LEMMA FailKeeps ==
  ASSUME IInv, Calling, NEW l, call' = Fail(l), UNCHANGED <<f, told>>,
         Layered', Closed', Embeddings'
  PROVE  IInv'
<1>1. call = [at |-> call.at, stage |-> call.stage, tokens |-> call.tokens, layers |-> call.layers,
              rows |-> call.rows, x |-> call.x, ok |-> call.ok]
  BY DEF IInv, Calls
<1>2. call' = [at |-> call.at, stage |-> "finish", tokens |-> call.tokens, layers |-> call.layers,
               rows |-> call.rows, x |-> call.x, ok |-> FALSE]
  BY <1>1 DEF Fail
<1>3. /\ call'.stage = "finish" /\ call'.ok = FALSE /\ call'.tokens = call.tokens
      /\ call'.layers = call.layers /\ call'.rows = call.rows /\ call'.x = call.x /\ call'.at = call.at
  BY <1>2
<1>4. Session'
  BY DEF IInv, Session
<1>5. Calls'
  BY <1>2, <1>3 DEF IInv, Calls, Calling
<1>6. Calling' /\ ~Sound'
  BY <1>3 DEF Calling, Running, Sound
<1>7. Histories' /\ Residual' /\ Returned'
  BY <1>3, <1>6 DEF Histories, Residual, Returned
<1> QED
  BY <1>4, <1>5, <1>7 DEF IInv

-----------------------------------------------------------------------------
(* The actions.                                                            *)

\* A chunk is a text.
LEMMA ChunkType ==
  ASSUME NEW ts \in Chunks
  PROVE  ts \in Texts /\ Len(ts) \in Nat
<1>1. PICK n \in 1 .. ChunkTokens : ts \in [1 .. n -> Vocabulary]
  BY DEF Chunks
<1>2. n \in Nat
  BY CpuGraphAssumption
<1>3. ts \in Texts
  BY <1>1, <1>2, SeqDef DEF Texts
<1> QED
  BY <1>3, LenProperties DEF Texts

\* A call is admitted: nothing has gone through any layer yet.
LEMMA ForwardKeeps ==
  ASSUME IInv, NEW ts \in Chunks, NEW n \in 0 .. Len(Layers), NEW rows \in 0 .. Len(ts),
         forward_cpu(ts, n, rows)
  PROVE  IInv'
<1> DEFINE stage == IF n = 0 THEN "head" ELSE "ple"
<1>0. ts \in Texts /\ Len(ts) \in Nat /\ Len(Layers) \in Nat /\ n \in Nat
  BY ChunkType, TrunkType
<1>1. /\ ~Calling /\ f.valid /\ f.next_pos = Len(told) /\ Len(ts) <= Context - f.next_pos
      /\ call' = [at |-> 1, stage |-> stage, tokens |-> ts, layers |-> n,
                  rows |-> rows, x |-> Embed(ts), ok |-> TRUE]
      /\ UNCHANGED <<f, gdn, att, ple, job, told, logits>>
      /\ told \in Texts
  BY DEF forward_cpu, Admitted, IInv, Session, states, Calling
<1>2. stage \in {"head", "ple"}
  OBVIOUS
<1>3. /\ call'.at = 1 /\ call'.stage = stage /\ call'.tokens = ts /\ call'.layers = n
      /\ call'.rows = rows /\ call'.x = Embed(ts) /\ call'.ok = TRUE
  BY <1>1
<1>4. Calling'
  BY <1>2, <1>3 DEF Calling, Running
<1>5. Session' /\ Layered'
  BY <1>1 DEF IInv, Session, Layered
<1>6. Calls'
  <2>1. Len(told) \in Nat /\ Len(told) + Len(ts) <= Context
    BY <1>0, <1>1, CpuGraphAssumption, WholeText
  <2>2. n = 0 => stage = "head"
    OBVIOUS
  <2>3. n # 0 => stage = "ple"
    OBVIOUS
  <2> HIDE DEF stage
  <2>4. call'.stage \in {"ple", "mixer", "ffn", "head", "finish"}
    BY <1>2, <1>3
  <2>5. call'.at \in 1 .. call'.layers + 1
    BY <1>0, <1>3
  <2>6. call'.stage \in {"ple", "mixer", "ffn"} => call'.at <= call'.layers
    BY <1>0, <1>2, <1>3, <2>2
  <2>7. call'.stage \in {"head", "finish"} => call'.at = call'.layers + 1
    BY <1>0, <1>2, <1>3, <2>3
  <2>8. call' = [at |-> call'.at, stage |-> call'.stage, tokens |-> call'.tokens,
                 layers |-> call'.layers, rows |-> call'.rows, x |-> call'.x, ok |-> call'.ok]
    BY <1>1, <1>3
  <2> QED
    BY <1>0, <1>1, <1>3, <2>1, <2>4, <2>5, <2>6, <2>7, <2>8 DEF Calls
<1>7. Closed'
  BY <1>1 DEF IInv, Closed
<1>8. Sound /\ \A i \in Trunk : ~Passed(i) /\ ~Embedded(i) /\ ~Passed(i)' /\ ~Embedded(i)'
  <2>1. \A i \in Trunk : i \in Nat /\ ~(i < 1)
    BY TrunkType
  <2>2. stage \notin {"mixer", "ffn"}
    OBVIOUS
  <2> HIDE DEF stage
  <2> QED
    BY <1>1, <1>3, <1>4, <2>1, <2>2 DEF Sound, Passed, Embedded, Running
<1>9. Histories'
  <2>1. Gdn \subseteq Trunk /\ Qsa \subseteq Trunk /\ Ple \subseteq Trunk
    BY DEF Gdn, Qsa, Ple
  <2>2. \A i \in Trunk : TextAt(i) = told /\ TextAt(i)' = told
    BY <1>1, <1>8 DEF TextAt
  <2> HIDE DEF stage
  <2> QED
    BY <1>1, <1>8, <2>1, <2>2 DEF IInv, Histories
<1>10. Embeddings'
  BY <1>1 DEF IInv, Embeddings
<1>11. Residual'
  <2>1. Embed(ts) = Part(Entering(told \o ts)[0], Len(told), Len(ts))
    <3>1. Entering(told \o ts)[0] = Embed(told \o ts)
      BY EnteringUnfold
    <3>2. Embed(ts) = Part(Embed(told \o ts), Len(told), Len(ts))
      BY <1>0, <1>1, WholeText
    <3> QED
      BY <3>1, <3>2
  <2>2. Running("ple")' => call'.x = Chunk(Entering(whole)[call.at - 1])'
    <3>1. call'.at - 1 = 0
      BY <1>3
    <3> HIDE DEF stage
    <3> QED
      BY <1>1, <1>3, <2>1, <3>1 DEF Chunk, whole
  <2>3. Running("head")' => call'.x = Chunk(Entering(whole)[call.layers])'
    <3>1. stage = "head" => n = 0
      OBVIOUS
    <3> HIDE DEF stage
    <3> QED
      BY <1>1, <1>3, <2>1, <3>1 DEF Chunk, whole, Running
  <2>4. ~Running("mixer")' /\ ~Running("ffn")' /\ ~Running("finish")'
    BY <1>2, <1>3 DEF Running
  <2> QED
    BY <2>2, <2>3, <2>4 DEF Residual
<1>12. Returned'
  BY <1>4 DEF Returned
<1> QED
  BY <1>5, <1>6, <1>7, <1>9, <1>10, <1>11, <1>12 DEF IInv

\* A call that goes on to another operator.
Goes(at, stage, x) ==
  call' = [at |-> at, stage |-> stage, tokens |-> call.tokens, layers |-> call.layers,
           rows |-> call.rows, x |-> x, ok |-> call.ok]

\* What a call that runs knows.
LEMMA Underway ==
  ASSUME IInv, Calling, call.ok
  PROVE  /\ told \in Texts /\ call.tokens \in Texts /\ whole \in Texts
         /\ Len(told) \in Nat /\ Len(call.tokens) \in Nat
         /\ Len(whole) = Len(told) + Len(call.tokens) /\ Len(whole) \in Nat /\ Len(whole) <= Context
         /\ f.valid /\ f.next_pos = Len(told) /\ Sound
         /\ call.at \in Nat /\ call.layers \in Nat /\ Len(Layers) \in Nat
         /\ call.at \in 1 .. call.layers + 1 /\ call.layers <= Len(Layers)
         /\ call.at <= call.layers => call.at \in Trunk /\ call.at - 1 \in 0 .. Len(Layers)
<1>1. /\ told \in Texts /\ call.tokens \in Texts /\ f.valid /\ f.next_pos = Len(told)
      /\ Len(told) + Len(call.tokens) <= Context /\ call.at \in 1 .. call.layers + 1
      /\ call.layers \in 0 .. Len(Layers)
  BY DEF IInv, Session, Calls
<1>2. /\ whole \in Texts /\ Len(told) \in Nat /\ Len(call.tokens) \in Nat
      /\ Len(whole) = Len(told) + Len(call.tokens) /\ Len(whole) \in Nat
  BY <1>1, WholeText DEF whole
<1>3. Len(Layers) \in Nat /\ Trunk = 1 .. Len(Layers)
  BY TrunkType
<1> QED
  BY <1>1, <1>2, <1>3 DEF Sound

\* The part of the invariant that speaks of the call itself, when it goes on.
LEMMA GoesOn ==
  ASSUME IInv, Calling, call.ok, NEW at, NEW stage, NEW x, Goes(at, stage, x),
         stage \in {"ple", "mixer", "ffn", "head", "finish"}, UNCHANGED <<f, told>>,
         at \in 1 .. call.layers + 1,
         stage \in {"ple", "mixer", "ffn"} => at <= call.layers,
         stage \in {"head", "finish"} => at = call.layers + 1
  PROVE  /\ Calling' /\ Session' /\ Calls' /\ Returned' /\ whole' = whole /\ Sound'
         /\ call'.at = at /\ call'.stage = stage /\ call'.x = x
         /\ call'.tokens = call.tokens /\ call'.layers = call.layers /\ call'.rows = call.rows
         /\ call'.ok = call.ok
<1>1. /\ call'.at = at /\ call'.stage = stage /\ call'.x = x
      /\ call'.tokens = call.tokens /\ call'.layers = call.layers /\ call'.rows = call.rows
      /\ call'.ok = call.ok
  BY DEF Goes
<1>2. Calling'
  BY <1>1 DEF Calling, Running
<1>3. Session'
  BY DEF IInv, Session
<1>4. Calls'
  <2>1. call' = [at |-> call'.at, stage |-> call'.stage, tokens |-> call'.tokens,
                 layers |-> call'.layers, rows |-> call'.rows, x |-> call'.x, ok |-> call'.ok]
    BY <1>1 DEF Goes
  <2> QED
    BY <1>1, <2>1 DEF IInv, Calls
<1>5. Returned'
  BY <1>2 DEF Returned
<1>6. whole' = whole
  BY <1>1 DEF whole
<1>7. Sound'
  BY <1>1 DEF IInv, Calls, Sound
<1> QED
  BY <1>1, <1>2, <1>3, <1>4, <1>5, <1>6, <1>7

\* A layer without an embedding hands its rows on.
LEMMA NoPleKeeps ==
  ASSUME IInv, no_ple_layer
  PROVE  IInv'
<1>1. /\ Calling /\ Running("ple") /\ call.at \notin Ple
      /\ call' = [call EXCEPT !.stage = "mixer"]
      /\ UNCHANGED <<f, gdn, att, ple, job, told, logits>>
  BY DEF no_ple_layer, states, Calling, Running
<1>2. /\ call.ok /\ call.at \in 1 .. call.layers + 1 /\ call.at <= call.layers
      /\ Goes(call.at, "mixer", call.x)
  BY <1>1 DEF IInv, Calls, Goes, Running
<1>3. /\ Calling' /\ Session' /\ Calls' /\ Returned' /\ whole' = whole
      /\ call'.at = call.at /\ call'.stage = "mixer" /\ call'.x = call.x
      /\ call'.tokens = call.tokens /\ call'.layers = call.layers /\ call'.rows = call.rows
  BY <1>1, <1>2, GoesOn, ZenonT(60)
<1>4. Layered' /\ Closed' /\ Embeddings'
  BY <1>1, <1>3 DEF IInv, Layered, Closed, Embeddings
<1>5. Histories'
  <2>1. \A i \in Trunk : Passed(i)' <=> Passed(i)
    BY <1>1, <1>3 DEF Passed, Running
  <2>2. \A i \in Ple : Embedded(i)' <=> Embedded(i)
    BY <1>1, <1>3 DEF Embedded, Running
  <2> QED
    BY <1>1, <1>2, <1>3, <2>1, <2>2, LayersStay
<1>6. Residual'
  <2>1. call.x = Chunk(MixIn(call.at, whole))
    BY <1>1, <1>2 DEF IInv, Residual, MixIn
  <2> QED
    BY <1>1, <1>3, <2>1 DEF Residual, Chunk, Running
<1> QED
  BY <1>3, <1>4, <1>5, <1>6 DEF IInv

\* The experts are the last of a layer.
LEMMA FfnKeeps ==
  ASSUME IInv, ffn_layer
  PROVE  IInv'
<1>1. /\ Calling /\ Running("ffn") /\ call.ok
      /\ UNCHANGED <<f, gdn, att, ple, job, told, logits>>
  BY DEF ffn_layer, IInv, Calls, Calling, Running
<1>2. CASE call' = Fail(call.at)
  <2>1. call'.tokens = call.tokens /\ Calling'
    BY <1>1, <1>2 DEF IInv, Calls, Fail, Calling, Running
  <2>2. Layered' /\ Closed' /\ Embeddings'
    BY <1>1, <2>1 DEF IInv, Layered, Closed, Embeddings
  <2> QED
    BY <1>1, <1>2, <2>2, FailKeeps
<1>3. CASE call' = [call EXCEPT !.at = call.at + 1,
                                !.stage = IF call.at = call.layers THEN "head" ELSE "ple"]
  <2> DEFINE stage == IF call.at = call.layers THEN "head" ELSE "ple"
  <2>1. /\ call.at \in 1 .. call.layers + 1 /\ call.at <= call.layers
        /\ call.at \in Nat /\ call.layers \in Nat
    BY <1>1, Underway DEF IInv, Calls, Running
  <2>2. Goes(call.at + 1, stage, call.x)
    BY <1>1, <1>3 DEF IInv, Calls, Goes
  <2>3. /\ stage \in {"ple", "head"} /\ call.at + 1 \in 1 .. call.layers + 1
        /\ stage = "ple" => call.at + 1 <= call.layers
        /\ stage = "head" => call.at = call.layers
    BY <2>1
  <2> HIDE DEF stage
  <2>4. /\ stage \in {"ple", "mixer", "ffn", "head", "finish"}
        /\ stage \in {"ple", "mixer", "ffn"} => call.at + 1 <= call.layers
        /\ stage \in {"head", "finish"} => call.at + 1 = call.layers + 1
    BY <2>3
  <2>5. /\ Calling' /\ Session' /\ Calls' /\ Returned' /\ whole' = whole
        /\ call'.at = call.at + 1 /\ call'.stage = stage /\ call'.x = call.x
        /\ call'.tokens = call.tokens /\ call'.layers = call.layers /\ call'.rows = call.rows
    BY <1>1, <2>2, <2>3, <2>4, GoesOn
  <2>6. Layered' /\ Closed' /\ Embeddings'
    BY <1>1, <2>5 DEF IInv, Layered, Closed, Embeddings
  <2>7. Histories'
    <3>1. ASSUME NEW i \in Trunk
          PROVE  (Passed(i)' <=> Passed(i)) /\ (Embedded(i)' <=> Embedded(i))
      <4>1. i \in Nat /\ (i < call.at + 1 <=> (i < call.at \/ i = call.at))
        BY <2>1, TrunkType
      <4> QED
        BY <1>1, <2>3, <2>5, <4>1 DEF Passed, Embedded, Running
    <3>2. Ple \subseteq Trunk
      BY DEF Ple
    <3> QED
      BY <1>1, <2>5, <3>1, <3>2, LayersStay
  <2>8. Residual'
    <3>1. call.x = Chunk(Entering(whole)[call.at])
      BY <1>1 DEF IInv, Residual
    <3>2. call'.at - 1 = call.at
      BY <2>1, <2>5
    <3>3. CASE stage = "ple"
      <4>1. call'.x = Chunk(Entering(whole)[call.at - 1])'
        BY <2>5, <3>1, <3>2, <1>1 DEF Chunk
      <4> QED
        BY <2>5, <3>3, <4>1 DEF Residual, Running
    <3>4. CASE stage = "head"
      <4>1. call'.layers = call.at
        BY <2>3, <2>5, <3>4
      <4>2. call'.x = Chunk(Entering(whole)[call.layers])'
        BY <2>5, <3>1, <4>1, <1>1 DEF Chunk
      <4> QED
        BY <2>5, <3>4, <4>2 DEF Residual, Running
    <3> QED
      BY <2>3, <3>3, <3>4
  <2> QED
    BY <2>5, <2>6, <2>7, <2>8 DEF IInv
<1> QED
  BY <1>2, <1>3 DEF ffn_layer

\* The rows that reach the mixer of the layer the call is in.
LEMMA MixerRows ==
  ASSUME IInv, Calling, call.ok, call.at <= call.layers
  PROVE  /\ call.at \in Trunk
         /\ MixIn(call.at, told) = Part(MixIn(call.at, whole), 0, Len(told))
         /\ IsRows(MixIn(call.at, whole), Len(told) + Len(call.tokens))
         /\ Entering(whole)[call.at] = LayerOut(call.at, MixIn(call.at, whole))
<1>1. /\ told \in Texts /\ call.tokens \in Texts /\ whole \in Texts /\ Len(whole) <= Context
      /\ Len(whole) = Len(told) + Len(call.tokens) /\ call.at \in Trunk
  BY Underway
<1>2. MixIn(call.at, told) = Part(MixIn(call.at, whole), 0, Len(told))
  BY <1>1, PassPrefix DEF whole
<1>3. /\ IsRows(MixIn(call.at, whole), Len(whole))
      /\ Entering(whole)[call.at] = LayerOut(call.at, MixIn(call.at, whole))
  BY <1>1, PassRows
<1> QED
  BY <1>1, <1>2, <1>3

\* The mixer of a layer is done: the history of that layer alone is that of
\* the whole text now.
LEMMA MixerDone ==
  ASSUME IInv, Running("mixer"), call.ok, call'.at = call.at, call'.stage = "ffn",
         call'.tokens = call.tokens, UNCHANGED told
  PROVE  /\ \A j \in Trunk : Passed(j)' <=> (Passed(j) \/ j = call.at)
         /\ \A j \in Trunk : Embedded(j)' <=> Embedded(j)
         /\ ~Passed(call.at) /\ TextAt(call.at) = told
         /\ \A j \in Trunk : TextAt(j)' = IF j = call.at THEN whole ELSE TextAt(j)
<1>1. Calling /\ Calling' /\ call.stage = "mixer" /\ whole' = whole
  BY DEF Calling, Running, whole
<1>2. call.at \in Nat
  BY <1>1, Underway
<1>3. ~Passed(call.at) /\ TextAt(call.at) = told
  BY <1>1, <1>2 DEF Passed, Running, TextAt
<1>4. ASSUME NEW j \in Trunk
      PROVE  (Passed(j)' <=> (Passed(j) \/ j = call.at)) /\ (Embedded(j)' <=> Embedded(j))
  BY <1>1 DEF Passed, Embedded, Running
<1>5. ASSUME NEW j \in Trunk
      PROVE  TextAt(j)' = IF j = call.at THEN whole ELSE TextAt(j)
  BY <1>1, <1>3, <1>4 DEF TextAt
<1> QED
  BY <1>3, <1>4, <1>5

\* The recurrent mixer: it fails, or leaves what one pass over the whole leaves.
LEMMA GdnKeeps ==
  ASSUME IInv, gdn_layer
  PROVE  IInv'
<1> DEFINE i == call.at
<1>1. PICK failing \in GdnFailures \cup {"none"} :
        /\ gdn' = [gdn EXCEPT ![i] = gdn_block(gdn[i], call.x, f.next_pos, failing).s]
        /\ call' = After(gdn_block(gdn[i], call.x, f.next_pos, failing))
  BY DEF gdn_layer
<1> DEFINE r == gdn_block(gdn[i], call.x, f.next_pos, failing)
<1>2. /\ Calling /\ Running("mixer") /\ i \in Gdn /\ call.ok /\ call.at <= call.layers
      /\ UNCHANGED <<f, att, ple, job, told, logits>>
  BY DEF gdn_layer, IInv, Calls, Calling, Running
<1>3. /\ DOMAIN gdn' = Gdn /\ gdn'[i] = r.s
      /\ \A j \in Gdn : j # i => gdn'[j] = gdn[j]
  BY <1>1, <1>2 DEF IInv, Layered
<1>4. Layered'
  BY <1>2, <1>3 DEF IInv, Layered
<1>5. CASE ~r.ok
  <2>1. call' = Fail(i)
    BY <1>1, <1>5 DEF After
  <2>2. call'.tokens = call.tokens /\ Calling'
    BY <1>2, <2>1 DEF IInv, Calls, Fail, Calling, Running
  <2>3. Closed' /\ Embeddings'
    BY <1>2, <2>2 DEF IInv, Closed, Embeddings
  <2> HIDE DEF i, r
  <2> QED
    BY <1>2, <1>4, <2>1, <2>3, FailKeeps
<1>6. CASE r.ok
  <2> DEFINE p == Len(told)
             n == Len(call.tokens)
             x == MixIn(i, whole)
             e == f.epoch
  <2>1. /\ p \in Nat /\ n \in Nat /\ f.next_pos = p /\ Sound /\ i \in Nat /\ call.layers \in Nat
        /\ i \in 1 .. call.layers + 1
    BY <1>2, Underway
  <2>2. failing = "none"
    BY <1>6 DEF gdn_block, GdnFailures
  <2>3. /\ MixIn(i, told) = Part(x, 0, p) /\ IsRows(x, p + n) /\ i \in Trunk
        /\ Entering(whole)[i] = GdnOut(x)
    BY <1>2, MixerRows DEF LayerOut
  <2>4. gdn[i] = GdnHolding(Part(x, 0, p), e)
    <3>1. TextAt(i) = told
      BY <1>2, <2>1 DEF TextAt, Passed, Running
    <3> QED
      BY <1>2, <2>1, <2>3, <3>1 DEF IInv, Histories
  <2>5. call.x = Part(x, p, n)
    BY <1>2 DEF IInv, Residual, Chunk
  <2>6. r = [ok |-> TRUE, s |-> GdnHolding(x, e), out |-> Part(GdnOut(x), p, n)]
    <3>1. r = gdn_block(GdnHolding(Part(x, 0, p), e), Part(x, p, n), p, "none")
      BY <2>1, <2>2, <2>4, <2>5
    <3> HIDE DEF r, x, p, n, e
    <3> QED
      BY <2>1, <2>3, <3>1, GdnChunk
  <2>7. r.s = GdnHolding(x, e) /\ r.out = Chunk(Entering(whole)[i])
    <3> HIDE DEF r
    <3> QED
      BY <2>3, <2>6 DEF Chunk
  <2> HIDE DEF r
  <2>8. Goes(i, "ffn", r.out)
    BY <1>1, <1>2, <1>6 DEF r, After, Goes, IInv, Calls
  <2>9. /\ Calling' /\ Session' /\ Calls' /\ Returned' /\ whole' = whole
        /\ call'.at = i /\ call'.stage = "ffn" /\ call'.x = r.out
        /\ call'.tokens = call.tokens /\ call'.layers = call.layers /\ call'.rows = call.rows
    <3> DEFINE out == r.out
               stage == "ffn"
    <3>1. /\ Goes(call.at, stage, out) /\ call.at \in 1 .. call.layers + 1
          /\ UNCHANGED <<f, told>> /\ stage \in {"ple", "mixer", "ffn", "head", "finish"}
          /\ stage \in {"ple", "mixer", "ffn"} => call.at <= call.layers
          /\ stage \in {"head", "finish"} => call.at = call.layers + 1
          /\ Calling /\ call.ok
      BY <1>2, <2>1, <2>8
    <3> HIDE DEF i, out, stage
    <3>2. /\ Calling' /\ Session' /\ Calls' /\ Returned' /\ whole' = whole
          /\ call'.at = call.at /\ call'.stage = stage /\ call'.x = out
          /\ call'.tokens = call.tokens /\ call'.layers = call.layers /\ call'.rows = call.rows
      BY <3>1, GoesOn
    <3> QED
      BY <3>2 DEF i, out, stage
  <2>10. Closed' /\ Embeddings'
    BY <1>2, <2>9 DEF IInv, Closed, Embeddings
  <2>11. Histories'
    <3>1. /\ \A j \in Trunk : Passed(j)' <=> (Passed(j) \/ j = i)
          /\ \A j \in Trunk : Embedded(j)' <=> Embedded(j)
          /\ \A j \in Trunk : TextAt(j)' = IF j = i THEN whole ELSE TextAt(j)
      BY <1>2, <2>9, MixerDone
    <3>2. Gdn \subseteq Trunk /\ Qsa \subseteq Trunk /\ Ple \subseteq Trunk /\ i \notin Qsa
      BY <1>2 DEF Gdn, Qsa, Ple
    <3>3. ASSUME NEW j \in Gdn PROVE gdn'[j] = GdnHolding(MixIn(j, TextAt(j)'), f'.epoch)
      <4>1. CASE j = i
        BY <1>2, <1>3, <2>7, <3>1, <3>2, <4>1
      <4>2. CASE j # i
        BY <1>2, <1>3, <2>1, <3>1, <3>2, <4>2 DEF IInv, Histories
      <4> QED
        BY <4>1, <4>2
    <3>4. \A j \in Qsa : AttHolding(att'[j], j, TextAt(j)', f'.epoch, f'.next_pos)
      BY <1>2, <2>1, <3>1, <3>2 DEF IInv, Histories
    <3>5. \A j \in Qsa : (att'[j].ticket.active <=> Passed(j)')
                         /\ (Passed(j)' => att'[j].ticket.computed)
      BY <1>2, <2>1, <3>1, <3>2 DEF IInv, Histories
    <3>6. \A j \in Ple : job'[j] = IF Embedded(j)'
                                     THEN JobHolding(whole', Len(call'.tokens), f'.epoch) ELSE NoJob
      BY <1>2, <2>1, <2>9, <3>1, <3>2 DEF IInv, Histories
    <3> QED
      BY <3>3, <3>4, <3>5, <3>6 DEF Histories
  <2>12. Residual'
    BY <1>2, <2>7, <2>9 DEF Residual, Chunk, Running
  <2> QED
    BY <1>4, <2>9, <2>10, <2>11, <2>12 DEF IInv
<1> QED
  BY <1>5, <1>6

\* Sparse attention: a ticket may stay open, and the rows are those of one pass.
LEMMA QsaKeeps ==
  ASSUME IInv, qsa_layer
  PROVE  IInv'
<1> DEFINE i == call.at
<1>1. PICK failing \in QsaFailures \cup {"none"}, m \in 0 .. Len(call.x) :
        /\ att' = [att EXCEPT ![i] = qsa_block(att[i], call.x, f.next_pos, f.epoch, failing, m).s]
        /\ call' = After(qsa_block(att[i], call.x, f.next_pos, f.epoch, failing, m))
  BY DEF qsa_layer
<1> DEFINE s == att[i]
           r == qsa_block(s, call.x, f.next_pos, f.epoch, failing, m)
           p == Len(told)
           n == Len(call.tokens)
           x == MixIn(i, whole)
<1>2. /\ Calling /\ Running("mixer") /\ i \in Qsa /\ call.ok /\ call.at <= call.layers
      /\ UNCHANGED <<f, gdn, ple, job, told, logits>>
  BY DEF qsa_layer, IInv, Calls, Calling, Running
<1>3. /\ DOMAIN att' = Qsa /\ att'[i] = r.s
      /\ \A j \in Qsa : j # i => att'[j] = att[j]
  BY <1>1, <1>2 DEF IInv, Layered
<1>4. Layered'
  BY <1>2, <1>3 DEF IInv, Layered
<1>5. /\ p \in Nat /\ n \in Nat /\ f.next_pos = p /\ Sound /\ i \in Nat /\ call.layers \in Nat
      /\ i \in 1 .. call.layers + 1 /\ Len(whole) = p + n /\ p + n <= Context
  BY <1>2, Underway
<1>6. call.x = Part(x, p, n) /\ Len(call.x) = n
  <2>1. call.x = Part(x, p, n)
    BY <1>2 DEF IInv, Residual, Chunk
  <2> QED
    BY <1>5, <2>1, PartRows
<1>7. Account(s) /\ s.busy \in BOOLEAN /\ s.ticket.active \in BOOLEAN
      /\ (s.busy <=> s.ticket.active) /\ (s.ticket.active => Ticket(s.ticket, n, s.epoch))
  BY <1>2 DEF IInv, Closed
<1>8. r.s = s \/ Opened(r.s, s, n)
  <2> HIDE DEF s, n
  <2> QED
    BY <1>6, <1>7, QsaTicket
<1>9. ASSUME Calling', call'.tokens = call.tokens
      PROVE  Closed'
  <2>1. /\ Account(r.s) /\ r.s.busy \in BOOLEAN /\ r.s.ticket.active \in BOOLEAN
        /\ r.s.busy <=> r.s.ticket.active
        /\ r.s.ticket.active => Ticket(r.s.ticket, n, r.s.epoch)
    <3>1. CASE r.s = s
      <4> HIDE DEF r, s
      <4> QED
        BY <1>7, <3>1
    <3>2. CASE Opened(r.s, s, n)
      <4> HIDE DEF r, s, n
      <4>1. r.s.ticket.active = TRUE
        BY <3>2 DEF Opened, Ticket
      <4> QED
        BY <3>2, <4>1 DEF Opened
    <3> QED
      BY <1>8, <3>1, <3>2
  <2> HIDE DEF r, s
  <2> QED
    BY <1>2, <1>3, <1>9, <2>1 DEF IInv, Closed
<1>10. CASE ~r.ok
  <2>1. call' = Fail(i)
    BY <1>1, <1>10 DEF After
  <2>2. call'.tokens = call.tokens /\ Calling'
    BY <1>2, <2>1 DEF IInv, Calls, Fail, Calling, Running
  <2>3. Closed' /\ Embeddings'
    BY <1>2, <1>9, <2>2 DEF IInv, Embeddings
  <2> HIDE DEF i, r
  <2> QED
    BY <1>2, <1>4, <2>1, <2>3, FailKeeps
<1>11. CASE r.ok
  <2>1. /\ MixIn(i, told) = Part(x, 0, p) /\ IsRows(x, p + n) /\ i \in Trunk
        /\ Entering(whole)[i] = QsaOut(x)
    BY <1>2, MixerRows DEF LayerOut, Qsa
  <2>2. /\ CacheHolds(s, Part(x, 0, p), p) /\ s.valid /\ s.epoch = f.epoch /\ s.next_pos = p
    <3>1. TextAt(i) = told
      BY <1>2, <1>5 DEF TextAt, Passed, Running
    <3> QED
      BY <1>2, <1>5, <2>1, <3>1 DEF IInv, Histories, AttHolding
  <2>3. /\ r.out = Part(QsaOut(x), p, n) /\ CacheHolds(r.s, x, p + n)
        /\ r.s.valid = s.valid /\ Opened(r.s, s, n) /\ r.s.ticket.computed
    <3> DEFINE e == f.epoch
    <3>1. /\ r = qsa_block(s, Part(x, p, n), p, e, failing, m) /\ r.ok
          /\ p \in Nat /\ n \in Nat /\ p + n <= Context /\ IsRows(x, p + n)
          /\ Account(s) /\ CacheHolds(s, Part(x, 0, p), p)
      BY <1>5, <1>6, <1>7, <1>11, <2>1, <2>2
    <3> HIDE DEF r, x, p, n, s, e
    <3>2. Attends(r, s, x, p, n, e, failing, m)
      BY <3>1 DEF Attends
    <3> QED
      BY <3>2, QsaChunk
  <2>4. r.out = Chunk(Entering(whole)[i])
    BY <2>1, <2>3 DEF Chunk
  <2>5. AttHolding(r.s, i, whole, f.epoch, f.next_pos) /\ r.s.ticket.active
    <3> HIDE DEF r, s, p, n
    <3>1. r.s.valid /\ r.s.epoch = f.epoch /\ r.s.next_pos = f.next_pos
      BY <1>5, <2>2, <2>3 DEF Opened
    <3>2. r.s.ticket.active
      BY <2>3 DEF Opened, Ticket
    <3> QED
      BY <1>5, <2>3, <3>1, <3>2 DEF AttHolding
  <2> HIDE DEF r
  <2>6. Goes(i, "ffn", r.out)
    BY <1>1, <1>2, <1>11 DEF r, After, Goes, IInv, Calls
  <2>7. /\ Calling' /\ Session' /\ Calls' /\ Returned' /\ whole' = whole
        /\ call'.at = i /\ call'.stage = "ffn" /\ call'.x = r.out
        /\ call'.tokens = call.tokens /\ call'.layers = call.layers /\ call'.rows = call.rows
    <3> DEFINE out == r.out
               stage == "ffn"
    <3>1. /\ Goes(call.at, stage, out) /\ call.at \in 1 .. call.layers + 1
          /\ UNCHANGED <<f, told>> /\ stage \in {"ple", "mixer", "ffn", "head", "finish"}
          /\ stage \in {"ple", "mixer", "ffn"} => call.at <= call.layers
          /\ stage \in {"head", "finish"} => call.at = call.layers + 1
          /\ Calling /\ call.ok
      BY <1>2, <1>5, <2>6
    <3> HIDE DEF i, out, stage
    <3>2. /\ Calling' /\ Session' /\ Calls' /\ Returned' /\ whole' = whole
          /\ call'.at = call.at /\ call'.stage = stage /\ call'.x = out
          /\ call'.tokens = call.tokens /\ call'.layers = call.layers /\ call'.rows = call.rows
      BY <3>1, GoesOn
    <3> QED
      BY <3>2 DEF i, out, stage
  <2>8. Closed' /\ Embeddings'
    BY <1>2, <1>9, <2>7 DEF IInv, Embeddings
  <2>9. Histories'
    <3>1. /\ \A j \in Trunk : Passed(j)' <=> (Passed(j) \/ j = i)
          /\ \A j \in Trunk : Embedded(j)' <=> Embedded(j)
          /\ \A j \in Trunk : TextAt(j)' = IF j = i THEN whole ELSE TextAt(j)
      BY <1>2, <2>7, MixerDone
    <3>2. Gdn \subseteq Trunk /\ Qsa \subseteq Trunk /\ Ple \subseteq Trunk /\ i \notin Gdn
      BY <1>2 DEF Gdn, Qsa, Ple
    <3>3. \A j \in Gdn : gdn'[j] = GdnHolding(MixIn(j, TextAt(j)'), f'.epoch)
      BY <1>2, <1>5, <3>1, <3>2 DEF IInv, Histories
    <3>4. ASSUME NEW j \in Qsa
          PROVE  /\ AttHolding(att'[j], j, TextAt(j)', f'.epoch, f'.next_pos)
                 /\ att'[j].ticket.active <=> Passed(j)'
                 /\ Passed(j)' => att'[j].ticket.computed
      <4>1. CASE j = i
        BY <1>2, <1>3, <2>3, <2>5, <3>1, <3>2, <4>1
      <4>2. CASE j # i
        BY <1>2, <1>3, <1>5, <3>1, <3>2, <4>2 DEF IInv, Histories
      <4> QED
        BY <4>1, <4>2
    <3>5. \A j \in Ple : job'[j] = IF Embedded(j)'
                                     THEN JobHolding(whole', Len(call'.tokens), f'.epoch) ELSE NoJob
      BY <1>2, <1>5, <2>7, <3>1, <3>2 DEF IInv, Histories
    <3> QED
      BY <3>3, <3>4, <3>5 DEF Histories
  <2>10. Residual'
    BY <1>2, <2>4, <2>7 DEF Residual, Chunk, Running
  <2> QED
    BY <1>4, <2>7, <2>8, <2>9, <2>10 DEF IInv
<1> QED
  BY <1>10, <1>11

\* The last of some rows, as a sequence.
LEMMA LastSubSeq ==
  ASSUME NEW n \in Nat, NEW y, IsRows(y, n), NEW m \in 0 .. n
  PROVE  SubSeq(y, n - m + 1, n) = LastRows(y, m) /\ Len(LastRows(y, m)) = m
<1> DEFINE from == n - m + 1
           last == SubSeq(y, from, n)
<1>1. y \in Seq(Values(y)) /\ Len(y) = n
  BY RowsSeq
<1>2. \A t \in from .. n : y[t] \in Values(y)
  <2>1. y \in [1 .. n -> Values(y)]
    BY <1>1, LenProperties
  <2> QED
    BY <2>1
<1>3. from \in Int /\ n \in Int /\ n - from + 1 = m /\ m \in Nat
      /\ (from <= n => m # 0) /\ (~(from <= n) => m = 0)
  OBVIOUS
<1>4. /\ last \in Seq(Values(y)) /\ Len(last) = m
      /\ \A t \in 1 .. m : last[t] = y[from + t - 1]
  <2>1. last = SubSeq(y, from, n)
    OBVIOUS
  <2> HIDE DEF last, from
  <2> QED
    BY <1>2, <1>3, <2>1, SubSeqProperties
<1>5. ASSUME NEW t \in 1 .. m PROVE last[t] = y[Len(y) - m + t]
  <2>1. from + t - 1 = Len(y) - m + t
    BY <1>1
  <2> HIDE DEF last, from
  <2> QED
    BY <1>4, <2>1
<1>6. IsRows(last, m)
  <2> HIDE DEF last
  <2> QED
    BY <1>3, <1>4, SeqRows
<1>7. last = LastRows(y, m)
  <2> HIDE DEF last
  <2> QED
    BY <1>5, <1>6 DEF IsRows, LastRows
<1> QED
  BY <1>4, <1>7

\* The output mixer and the head return the last rows that were asked for.
LEMMA HeadKeeps ==
  ASSUME IInv, head
  PROVE  IInv'
<1>1. /\ Calling /\ Running("head") /\ call.ok
      /\ UNCHANGED <<f, gdn, att, ple, job, told>>
  BY DEF head, states, IInv, Calls, Calling, Running
<1>2. CASE call' = Fail(0)
  <2>1. call'.tokens = call.tokens /\ Calling'
    BY <1>1, <1>2 DEF IInv, Calls, Fail, Calling, Running
  <2>2. Layered' /\ Closed' /\ Embeddings'
    BY <1>1, <2>1 DEF IInv, Layered, Closed, Embeddings
  <2> QED
    BY <1>1, <1>2, <2>2, FailKeeps
<1>3. CASE /\ call' = [call EXCEPT !.stage = "finish"]
           /\ logits' = SubSeq(call.x, Len(call.x) - call.rows + 1, Len(call.x))
  <2> DEFINE p == Len(told)
             n == Len(call.tokens)
             rows == call.rows
             x == Entering(whole)[call.layers]
             y == Part(x, p, n)
             stage == "finish"
  <2>1. /\ p \in Nat /\ n \in Nat /\ Len(whole) = p + n /\ call.layers \in 0 .. Len(Layers)
        /\ Len(whole) <= Context /\ whole \in Texts /\ call.at = call.layers + 1
        /\ call.at \in 1 .. call.layers + 1 /\ rows \in 0 .. n /\ rows \in Nat
    BY <1>1, Underway DEF IInv, Calls, Running
  <2>2. IsRows(x, p + n)
    BY <2>1, PassRows
  <2>3. call.x = y
    BY <1>1 DEF IInv, Residual, Chunk
  <2>4. logits' = LastRows(x, rows)
    <3> HIDE DEF p, n, x, rows
    <3>1. Len(x) = p + n /\ Len(y) = n /\ \A t \in 1 .. n : y[t] = x[p + t]
      BY <2>1, <2>2, RowsSeq, PartRows
    <3>2. SubSeq(y, n - rows + 1, n) = LastRows(y, rows)
      <4>1. IsRows(y, n)
        BY <2>1, PartRows
      <4> HIDE DEF y
      <4> QED
        BY <2>1, <4>1, LastSubSeq
    <3>3. ASSUME NEW t \in 1 .. rows
          PROVE  y[Len(y) - rows + t] = x[Len(x) - rows + t]
      <4>1. Len(y) - rows + t \in 1 .. n /\ p + (Len(y) - rows + t) = Len(x) - rows + t
        BY <2>1, <3>1
      <4> QED
        BY <3>1, <4>1
    <3>4. LastRows(y, rows) = LastRows(x, rows)
      BY <3>3 DEF LastRows
    <3> QED
      BY <1>3, <2>3, <3>1, <3>2, <3>4 DEF rows
  <2>5. Goes(call.at, stage, call.x)
    BY <1>1, <1>3 DEF IInv, Calls, Goes
  <2>6. /\ Calling' /\ Session' /\ Calls' /\ Returned' /\ whole' = whole
        /\ call'.at = call.at /\ call'.stage = stage
        /\ call'.tokens = call.tokens /\ call'.layers = call.layers /\ call'.rows = call.rows
    <3>1. /\ stage \in {"ple", "mixer", "ffn", "head", "finish"}
          /\ stage \in {"ple", "mixer", "ffn"} => call.at <= call.layers
          /\ stage \in {"head", "finish"} => call.at = call.layers + 1
          /\ UNCHANGED <<f, told>>
      BY <1>1, <2>1
    <3> HIDE DEF stage
    <3> QED
      BY <1>1, <2>1, <2>5, <3>1, GoesOn
  <2>7. Layered' /\ Closed' /\ Embeddings'
    BY <1>1, <2>6 DEF IInv, Layered, Closed, Embeddings
  <2>8. Histories'
    <3>1. ASSUME NEW i \in Trunk
          PROVE  (Passed(i)' <=> Passed(i)) /\ (Embedded(i)' <=> Embedded(i))
      BY <1>1, <2>6 DEF Passed, Embedded, Running
    <3>2. Ple \subseteq Trunk
      BY DEF Ple
    <3> QED
      BY <1>1, <2>6, <3>1, <3>2, LayersStay
  <2>9. Residual'
    <3> HIDE DEF x
    <3> QED
      BY <1>1, <2>4, <2>6 DEF Residual, Running, x
  <2> QED
    BY <2>6, <2>7, <2>8, <2>9 DEF IInv
<1> QED
  BY <1>2, <1>3 DEF head

\* A job of the layer the call is in is begun, computed or aborted.
LEMMA JobBegins ==
  ASSUME IInv, Calling, call.ok, NEW i \in Ple, NEW phase \in {"aborted", "computed"},
         NEW next, NEW candidate, NEW n, UNCHANGED <<f, gdn, att, told>>,
         job' = [job EXCEPT ![i] = [phase |-> phase, next |-> next,
                                    candidate |-> candidate, tokens |-> n]],
         ple' = [ple EXCEPT ![i].busy = TRUE],
         Calling', call'.tokens = call.tokens
  PROVE  Layered' /\ Closed' /\ Embeddings'
<1> DEFINE begun == [phase |-> phase, next |-> next, candidate |-> candidate, tokens |-> n]
           s == [ple[i] EXCEPT !.busy = TRUE]
<1>1. begun # NoJob
  BY JobsDiffer
<1>2. /\ DOMAIN job' = Ple /\ DOMAIN ple' = Ple /\ job'[i] = begun /\ ple'[i] = s
      /\ \A j \in Ple : j # i => job'[j] = job[j] /\ ple'[j] = ple[j]
  BY DEF IInv, Layered
<1>3. Layered'
  BY <1>2 DEF IInv, Layered
<1>4. /\ f.valid
      /\ ple[i] = PleHolding(told, ple[i].busy, f.epoch)
  BY DEF IInv, Calls, Embeddings
<1>5. s = PleHolding(told, TRUE, f.epoch) /\ s.busy = TRUE
  <2> DEFINE conv == Moved(f.epoch, Grams_of(told))
             prev == Prev(told)
             pos == Len(told)
             busy == ple[i].busy
             u == ple[i]
  <2>1. u = [conv |-> conv, prev |-> prev, next_pos |-> pos, valid |-> TRUE,
             busy |-> busy, epoch |-> f.epoch]
    BY <1>4 DEF PleHolding
  <2>2. s = [u EXCEPT !.busy = TRUE]
    OBVIOUS
  <2> HIDE DEF s, u, conv, prev, pos, busy
  <2>3. s = [conv |-> conv, prev |-> prev, next_pos |-> pos, valid |-> TRUE,
             busy |-> TRUE, epoch |-> f.epoch]
    BY <2>1, <2>2
  <2> QED
    BY <2>3 DEF PleHolding, conv, prev, pos
<1> HIDE DEF s, begun
<1>6. Closed'
  <2>1. \A j \in Qsa :
          /\ Account(att'[j]) /\ att'[j].busy \in BOOLEAN /\ att'[j].ticket.active \in BOOLEAN
          /\ att'[j].busy <=> att'[j].ticket.active
          /\ att'[j].ticket.active =>
               Calling' /\ Ticket(att'[j].ticket, Len(call'.tokens), att'[j].epoch)
    BY DEF IInv, Closed
  <2>2. ASSUME NEW j \in Ple
        PROVE  /\ ple'[j].busy \in BOOLEAN /\ (ple'[j].busy <=> job'[j] # NoJob)
               /\ job'[j] # NoJob => Calling'
    <3>1. CASE j = i
      BY <1>1, <1>2, <1>5, <3>1
    <3>2. CASE j # i
      BY <1>2, <3>2 DEF IInv, Closed
    <3> QED
      BY <3>1, <3>2
  <2> QED
    BY <2>1, <2>2 DEF Closed
<1>7. Embeddings'
  <2>1. ASSUME NEW j \in Ple PROVE ple'[j] = PleHolding(told, ple'[j].busy, f.epoch)
    <3>1. CASE j = i
      BY <1>2, <1>5, <3>1
    <3>2. CASE j # i
      BY <1>2, <1>4, <3>2 DEF IInv, Embeddings
    <3> QED
      BY <3>1, <3>2
  <2> QED
    BY <2>1 DEF Embeddings
<1> QED
  BY <1>3, <1>6, <1>7

\* The embedding of the layer, on a candidate: the store of the layer keeps the
\* told tokens until the call is committed.
PleJob(i, phase, candidate) ==
  [phase |-> phase, next |-> Hash!Next_prev(Grams, ple[i].prev, call.tokens),
   candidate |-> candidate, tokens |-> Len(call.tokens)]
PleConv(i) == conv_causal(ple[i].conv, Rows(ple[i].prev, call.tokens), f.next_pos, TRUE)
PleBegins(i, phase, candidate) ==
  /\ job' = [job EXCEPT ![i] = PleJob(i, phase, candidate)]
  /\ ple' = [ple EXCEPT ![i].busy = TRUE]

\* What the action does, case by case.
LEMMA PleCases ==
  ASSUME ple_layer
  PROVE  /\ Running("ple") /\ call.at \in Ple
         /\ UNCHANGED <<f, gdn, att, told, logits>>
         /\ \/ call' = Fail(call.at) /\ UNCHANGED <<ple, job>>
            \/ /\ call' = Fail(call.at)
               /\ \E phase \in {"aborted", "computed"} : \E candidate :
                    PleBegins(call.at, phase, candidate)
            \/ /\ PleBegins(call.at, "computed", PleConv(call.at).s)
               /\ call' = [call EXCEPT !.stage = "mixer", !.x = Add(@, PleConv(call.at).out)]
<1> DEFINE i == call.at
           s == ple[i]
           j == [phase |-> "computed", next |-> Hash!Next_prev(Grams, s.prev, call.tokens),
                 candidate |-> s.conv, tokens |-> Len(call.tokens)]
           c == conv_causal(s.conv, Rows(s.prev, call.tokens), f.next_pos, TRUE)
           begun(phase, candidate) ==
             /\ job' = [job EXCEPT ![i] = [j EXCEPT !.phase = phase, !.candidate = candidate]]
             /\ ple' = [ple EXCEPT ![i].busy = TRUE]
<1>1. ASSUME NEW phase, NEW candidate, begun(phase, candidate)
      PROVE  PleBegins(i, phase, candidate)
  <2>1. [j EXCEPT !.phase = phase, !.candidate = candidate] = PleJob(i, phase, candidate)
    <3> DEFINE next == Hash!Next_prev(Grams, s.prev, call.tokens)
               conv == s.conv
               n == Len(call.tokens)
               k == j
    <3>1. k = [phase |-> "computed", next |-> next, candidate |-> conv, tokens |-> n]
      OBVIOUS
    <3> HIDE DEF k, next, conv, n
    <3> DEFINE new == [k EXCEPT !.phase = phase, !.candidate = candidate]
    <3>2. new = [k EXCEPT !.phase = phase, !.candidate = candidate]
      OBVIOUS
    <3> HIDE DEF new
    <3>3. new = [phase |-> phase, next |-> next, candidate |-> candidate, tokens |-> n]
      BY <3>1, <3>2
    <3> QED
      BY <3>3 DEF PleJob, new, k, next, n
  <2> QED
    BY <1>1, <2>1 DEF PleBegins
<1>2. c = PleConv(i)
  BY DEF PleConv
<1>3. /\ Running("ple") /\ i \in Ple /\ UNCHANGED <<f, gdn, att, told, logits>>
      /\ \/ call' = Fail(i) /\ UNCHANGED <<ple, job>>
         \/ begun("aborted", s.conv) /\ call' = Fail(i)
         \/ begun("aborted", c.s) /\ call' = Fail(i)
         \/ begun("computed", c.s) /\ call' = Fail(i)
         \/ /\ begun("computed", c.s)
            /\ call' = [call EXCEPT !.stage = "mixer", !.x = Add(@, c.out)]
  BY DEF ple_layer
<1> HIDE DEF c, begun
<1> QED
  BY <1>1, <1>2, <1>3

\* The embedding: it fails, or its job holds what one pass over the whole leaves.
LEMMA PleKeeps ==
  ASSUME IInv, ple_layer
  PROVE  IInv'
<1> DEFINE i == call.at
<1>1. /\ Calling /\ Running("ple") /\ call.ok /\ i \in Ple /\ call.at <= call.layers
      /\ UNCHANGED <<f, gdn, att, told, logits>>
  BY PleCases DEF IInv, Calls, Calling, Running
<1>2. ASSUME call' = Fail(i)
      PROVE  call'.tokens = call.tokens /\ Calling'
  BY <1>1, <1>2 DEF IInv, Calls, Fail, Calling, Running
<1>3. CASE call' = Fail(i) /\ UNCHANGED <<ple, job>>
  <2>1. Layered' /\ Closed' /\ Embeddings'
    BY <1>1, <1>2, <1>3 DEF IInv, Layered, Closed, Embeddings
  <2> HIDE DEF i
  <2> QED
    BY <1>1, <1>3, <2>1, FailKeeps
<1>4. ASSUME call' = Fail(i), NEW phase \in {"aborted", "computed"}, NEW candidate,
             PleBegins(i, phase, candidate)
      PROVE  IInv'
  <2>1. Layered' /\ Closed' /\ Embeddings'
    <3> DEFINE next == Hash!Next_prev(Grams, ple[i].prev, call.tokens)
               n == Len(call.tokens)
    <3>1. /\ job' = [job EXCEPT ![i] = [phase |-> phase, next |-> next,
                                        candidate |-> candidate, tokens |-> n]]
          /\ ple' = [ple EXCEPT ![i].busy = TRUE]
          /\ call'.tokens = call.tokens /\ Calling' /\ UNCHANGED <<f, gdn, att, told>>
      BY <1>1, <1>2, <1>4 DEF PleBegins, PleJob
    <3> HIDE DEF next, n, i
    <3> QED
      BY <1>1, <3>1, JobBegins
  <2> HIDE DEF i
  <2> QED
    BY <1>1, <1>4, <2>1, FailKeeps
<1>5. ASSUME PleBegins(i, "computed", PleConv(i).s),
             call' = [call EXCEPT !.stage = "mixer", !.x = Add(@, PleConv(i).out)]
      PROVE  IInv'
  <2> DEFINE p == Len(told)
             n == Len(call.tokens)
             e == f.epoch
             g == Grams_of(whole)
             x == Entering(whole)[i - 1]
             c == PleConv(i)
             out == Add(call.x, c.out)
             stage == "mixer"
  <2>1. /\ p \in Nat /\ n \in Nat /\ Len(whole) = p + n /\ Len(whole) <= Context
        /\ whole \in Texts /\ told \in Texts /\ call.tokens \in Texts
        /\ f.valid /\ f.next_pos = p /\ Sound /\ i \in Nat /\ i \in Trunk
        /\ i - 1 \in 0 .. Len(Layers) /\ call.at \in 1 .. call.layers + 1
    BY <1>1, Underway
  <2>2. ple[i].conv = Moved(e, Grams_of(told)) /\ ple[i].prev = Prev(told)
    <3>1. ple[i] = PleHolding(told, ple[i].busy, e)
      BY <1>1, <2>1 DEF IInv, Embeddings
    <3> DEFINE u == ple[i]
               busy == ple[i].busy
    <3> HIDE DEF u, busy, e
    <3>2. u = PleHolding(told, busy, e)
      BY <3>1 DEF u, busy
    <3>3. u.conv = Moved(e, Grams_of(told)) /\ u.prev = Prev(told)
      BY <3>2 DEF PleHolding
    <3> QED
      BY <3>3 DEF u
  <2>3. /\ IsRows(g, p + n) /\ Grams_of(told) = Part(g, 0, p)
        /\ Rows(Prev(told), call.tokens) = Part(g, p, n)
    BY <2>1, RowsJoin DEF whole
  <2>4. c = Result("ok", Moved(e, g), Part(Windows(g), p, n))
    <3>1. c = conv_causal(Moved(e, Part(g, 0, p)), Part(g, p, n), p, TRUE)
      BY <2>1, <2>2, <2>3 DEF PleConv
    <3>2. p \in Nat /\ n \in Nat /\ IsRows(g, p + n)
      BY <2>1, <2>3
    <3> HIDE DEF c, g, p, n, e
    <3>3. conv_causal(Moved(e, Part(g, 0, p)), Part(g, p, n), p, TRUE)
          = Result("ok", Moved(e, g), Part(Windows(g), p, n))
      BY <3>2, ConvChunk
    <3> QED
      BY <3>1, <3>3
  <2>5. c.s = Moved(e, g) /\ c.out = Part(Windows(g), p, n)
    <3> HIDE DEF c
    <3> QED
      BY <2>4 DEF Result
  <2>6. call.x = Part(x, p, n) /\ Len(x) = p + n
    <3>1. call.x = Part(x, p, n)
      BY <1>1 DEF IInv, Residual, Chunk
    <3>2. IsRows(x, p + n)
      BY <2>1, PassRows
    <3> HIDE DEF x, p, n
    <3> QED
      BY <2>1, <3>1, <3>2, RowsSeq
  <2>7. out = Chunk(MixIn(i, whole))
    <3>1. out = Part(Add(x, Windows(g)), p, n)
      <4> DEFINE w == Windows(g)
      <4>1. out = Add(Part(x, p, n), Part(w, p, n))
        BY <2>5, <2>6
      <4>2. Len(x) \in Nat /\ p + n <= Len(x)
        BY <2>1, <2>6
      <4> HIDE DEF out, x, w, p, n
      <4>3. out = Part(Add(x, w), p, n)
        BY <2>1, <4>1, <4>2, AddChunk
      <4> QED
        BY <4>3 DEF w
    <3>2. MixIn(i, whole) = Add(x, Windows(g))
      <4>1. MixIn(i, whole) = PleOut(x, whole)
        BY <1>1 DEF MixIn
      <4>2. PleOut(x, whole) = Add(x, Windows(g))
        <5> HIDE DEF x
        <5> QED
          BY <2>1, PlePass
      <4> QED
        BY <4>1, <4>2
    <3> HIDE DEF out
    <3> QED
      BY <3>1, <3>2 DEF Chunk
  <2>8. PleJob(i, "computed", c.s) = JobHolding(whole, n, e)
    <3>1. Hash!Next_prev(Grams, ple[i].prev, call.tokens) = Prev(whole)
      <4>1. Hash!Next_prev(Grams, Hash!Next_prev(Grams, EmptyText, told), call.tokens)
            = Hash!Next_prev(Grams, EmptyText, told \o call.tokens)
        BY <2>1, NextPrevJoin DEF Texts
      <4> QED
        BY <2>2, <4>1 DEF Prev, whole
    <3> HIDE DEF c
    <3> QED
      BY <2>5, <3>1 DEF PleJob, JobHolding
  <2>9. /\ DOMAIN job' = Ple /\ job'[i] = JobHolding(whole, n, e)
        /\ \A j \in Ple : j # i => job'[j] = job[j]
    <3> HIDE DEF c, n, e
    <3>1. job' = [job EXCEPT ![i] = JobHolding(whole, n, e)]
      BY <1>5, <2>8 DEF PleBegins, c
    <3> QED
      BY <1>1, <3>1 DEF IInv, Layered
  <2>10. Goes(call.at, stage, out)
    <3>1. call' = [call EXCEPT !.stage = stage, !.x = out]
      BY <1>5
    <3> HIDE DEF out, stage, i
    <3> QED
      BY <1>1, <3>1 DEF IInv, Calls, Goes
  <2>11. /\ Calling' /\ Session' /\ Calls' /\ Returned' /\ whole' = whole
         /\ call'.at = call.at /\ call'.stage = stage /\ call'.x = out
         /\ call'.tokens = call.tokens /\ call'.layers = call.layers /\ call'.rows = call.rows
    <3>1. /\ stage \in {"ple", "mixer", "ffn", "head", "finish"}
          /\ stage \in {"ple", "mixer", "ffn"} => call.at <= call.layers
          /\ stage \in {"head", "finish"} => call.at = call.layers + 1
          /\ UNCHANGED <<f, told>> /\ Calling /\ call.ok /\ call.at \in 1 .. call.layers + 1
      BY <1>1, <2>1
    <3> HIDE DEF stage, out, i
    <3> QED
      BY <2>10, <3>1, GoesOn
  <2>12. Layered' /\ Closed' /\ Embeddings'
    <3> DEFINE next == Hash!Next_prev(Grams, ple[i].prev, call.tokens)
               candidate == c.s
               phase == "computed"
    <3>1. /\ job' = [job EXCEPT ![i] = [phase |-> phase, next |-> next,
                                        candidate |-> candidate, tokens |-> n]]
          /\ ple' = [ple EXCEPT ![i].busy = TRUE]
      BY <1>5 DEF PleBegins, PleJob
    <3>2. phase \in {"aborted", "computed"}
      OBVIOUS
    <3>3. call'.tokens = call.tokens /\ Calling' /\ UNCHANGED <<f, gdn, att, told>>
      BY <1>1, <2>11
    <3> HIDE DEF next, n, i, candidate, phase
    <3> QED
      BY <1>1, <3>1, <3>2, <3>3, JobBegins
  <2>13. Histories'
    <3>1. /\ \A j \in Trunk : (Passed(j)' <=> Passed(j)) /\ TextAt(j)' = TextAt(j)
          /\ \A j \in Trunk : Embedded(j)' <=> (Embedded(j) \/ j = i)
      <4>1. \A j \in Trunk : (Passed(j)' <=> Passed(j)) /\ (Embedded(j)' <=> (Embedded(j) \/ j = i))
        BY <1>1, <2>1, <2>11 DEF Passed, Embedded, Running
      <4> QED
        BY <1>1, <2>11, <4>1 DEF TextAt
    <3>2. Gdn \subseteq Trunk /\ Qsa \subseteq Trunk /\ Ple \subseteq Trunk
      BY DEF Gdn, Qsa, Ple
    <3> HIDE DEF c, out, stage, x, g
    <3>3. /\ \A j \in Gdn : gdn'[j] = GdnHolding(MixIn(j, TextAt(j)'), f'.epoch)
          /\ \A j \in Qsa : AttHolding(att'[j], j, TextAt(j)', f'.epoch, f'.next_pos)
      BY <1>1, <2>1, <3>1, <3>2 DEF IInv, Histories
    <3>4. \A j \in Qsa : (att'[j].ticket.active <=> Passed(j)')
                         /\ (Passed(j)' => att'[j].ticket.computed)
      BY <1>1, <2>1, <3>1, <3>2 DEF IInv, Histories
    <3>5. ASSUME NEW j \in Ple
          PROVE  job'[j] = IF Embedded(j)' THEN JobHolding(whole', Len(call'.tokens), f'.epoch)
                                           ELSE NoJob
      <4>1. CASE j = i
        BY <1>1, <2>9, <2>11, <3>1, <3>2, <4>1
      <4>2. CASE j # i
        BY <1>1, <2>1, <2>9, <2>11, <3>1, <3>2, <4>2 DEF IInv, Histories
      <4> QED
        BY <4>1, <4>2
    <3> QED
      BY <3>3, <3>4, <3>5 DEF Histories
  <2>14. Residual'
    <3> HIDE DEF out
    <3> QED
      BY <1>1, <2>7, <2>11 DEF Residual, Chunk, Running
  <2> QED
    BY <2>11, <2>12, <2>13, <2>14 DEF IInv
<1> HIDE DEF i
<1> QED
  BY <1>3, <1>4, <1>5, PleCases DEF i

\* An open ticket is closed, whatever became of the rows; with success the rows
\* are taken over.
LEMMA FinishCloses ==
  ASSUME NEW s, Account(s), NEW n, Ticket(s.ticket, n, s.epoch), NEW success \in BOOLEAN,
         success => s.ticket.computed /\ s.valid,
         NEW r, r = attention_finish(s, success)
  PROVE  /\ r.ok /\ Account(r.s) /\ r.s.busy = FALSE /\ r.s.ticket = NoTicket
         /\ success => /\ r.s.valid /\ r.s.epoch = s.epoch /\ r.s.next_pos = s.next_pos + n
                       /\ r.s.cache = s.cache /\ r.s.blocks = s.blocks
<1> DEFINE pos == IF success THEN s.next_pos + s.ticket.tokens ELSE s.next_pos
           valid == s.valid /\ success
           new == [s EXCEPT !.next_pos = pos, !.valid = valid, !.busy = FALSE, !.ticket = NoTicket]
<1>1. s.ticket.active /\ s.ticket.epoch = s.epoch /\ s.ticket.tokens = n
  BY DEF Ticket
<1>2. r = [ok |-> TRUE, s |-> new]
  <2>1. ~(\/ ~s.ticket.active \/ s.ticket.epoch # s.epoch
          \/ success /\ (~s.ticket.computed \/ ~s.valid))
    BY <1>1
  <2>2. [s EXCEPT !.next_pos = IF success THEN @ + s.ticket.tokens ELSE @,
                  !.valid = @ /\ success, !.busy = FALSE, !.ticket = NoTicket] = new
    BY DEF Account
  <2> HIDE DEF new
  <2> QED
    BY <2>1, <2>2 DEF attention_finish
<1>3. success => pos = s.next_pos + n /\ valid
  BY <1>1
<1>4. new = [s EXCEPT !.next_pos = pos, !.valid = valid, !.busy = FALSE, !.ticket = NoTicket]
  OBVIOUS
<1> HIDE DEF new, pos, valid
<1>5. new = [next_pos |-> pos, valid |-> valid, busy |-> FALSE, epoch |-> s.epoch,
             cache |-> s.cache, blocks |-> s.blocks, ticket |-> NoTicket]
  BY <1>4 DEF Account
<1>6. /\ Account(new) /\ new.busy = FALSE /\ new.ticket = NoTicket /\ new.valid = valid
      /\ new.epoch = s.epoch /\ new.next_pos = pos /\ new.cache = s.cache /\ new.blocks = s.blocks
  BY <1>5 DEF Account
<1>7. r.ok /\ r.s = new
  BY <1>2
<1> QED
  BY <1>3, <1>6, <1>7

\* The end of a call for the attention and the embedding of each layer.
FinishedAtt(i) == IF att[i].ticket.active THEN attention_finish(att[i], Commits).s ELSE att[i]
FinishedPle(i) ==
  IF job[i] = NoJob THEN ple[i]
  ELSE IF JobCommits(i)
    THEN [ple[i] EXCEPT !.busy = FALSE, !.prev = job[i].next, !.next_pos = @ + job[i].tokens,
                        !.conv = conv_state_copy(@, job[i].candidate).s]
    ELSE [ple[i] EXCEPT !.busy = FALSE]

\* What the action does: it takes over the tokens only if everything commits.
LEMMA FinishCases ==
  ASSUME finish
  PROVE  /\ Running("finish") /\ call' = Idle /\ UNCHANGED <<gdn, logits>>
         /\ att' = [i \in Qsa |-> FinishedAtt(i)]
         /\ ple' = [i \in Ple |-> FinishedPle(i)]
         /\ job' = [i \in Ple |-> NoJob]
         /\ \/ f' = [f EXCEPT !.valid = FALSE] /\ UNCHANGED told
            \/ /\ Commits /\ \A i \in Ple : job[i] # NoJob => JobCommits(i)
               /\ f' = [f EXCEPT !.next_pos = @ + Len(call.tokens)]
               /\ told' = told \o call.tokens
<1> DEFINE open == {i \in Qsa : att[i].ticket.active}
           jobs == {i \in Ple : job[i] # NoJob}
<1>1. /\ Running("finish") /\ call' = Idle /\ UNCHANGED <<gdn, logits>>
      /\ att' = [i \in Qsa |-> IF i \in open THEN attention_finish(att[i], Commits).s ELSE att[i]]
      /\ ple' = [i \in Ple |->
           IF i \notin jobs THEN ple[i]
           ELSE IF JobCommits(i)
             THEN [ple[i] EXCEPT !.busy = FALSE, !.prev = job[i].next,
                                 !.next_pos = @ + job[i].tokens,
                                 !.conv = conv_state_copy(@, job[i].candidate).s]
             ELSE [ple[i] EXCEPT !.busy = FALSE]]
      /\ job' = [i \in Ple |-> NoJob]
  BY DEF finish
<1>2. att' = [i \in Qsa |-> FinishedAtt(i)]
  <2>1. \A i \in Qsa : (IF i \in open THEN attention_finish(att[i], Commits).s ELSE att[i])
                       = FinishedAtt(i)
    BY DEF FinishedAtt
  <2> QED
    BY <1>1, <2>1
<1>3. ple' = [i \in Ple |-> FinishedPle(i)]
  <2>1. \A i \in Ple :
          (IF i \notin jobs THEN ple[i]
           ELSE IF JobCommits(i)
             THEN [ple[i] EXCEPT !.busy = FALSE, !.prev = job[i].next,
                                 !.next_pos = @ + job[i].tokens,
                                 !.conv = conv_state_copy(@, job[i].candidate).s]
             ELSE [ple[i] EXCEPT !.busy = FALSE]) = FinishedPle(i)
    BY DEF FinishedPle
  <2> QED
    BY <1>1, <2>1
<1>4. \/ f' = [f EXCEPT !.valid = FALSE] /\ UNCHANGED told
      \/ /\ Commits /\ \A i \in jobs : JobCommits(i)
         /\ f' = [f EXCEPT !.next_pos = @ + Len(call.tokens)] /\ told' = told \o call.tokens
  BY DEF finish, Commits
<1> QED
  BY <1>1, <1>2, <1>3, <1>4

\* Everything is closed, whatever failed.
LEMMA FinishClosed ==
  ASSUME IInv, finish
  PROVE  /\ ~Calling' /\ Layered' /\ Closed'
         /\ \A i \in Qsa : ~att'[i].ticket.active
         /\ \A i \in Ple : ple'[i].busy = FALSE /\ job'[i] = NoJob
<1>1. /\ Running("finish") /\ call' = Idle /\ UNCHANGED gdn
      /\ att' = [i \in Qsa |-> FinishedAtt(i)]
      /\ ple' = [i \in Ple |-> FinishedPle(i)]
      /\ job' = [i \in Ple |-> NoJob]
  BY FinishCases
<1>2. ~Calling' /\ Layered'
  BY <1>1 DEF Calling, Running, Idle, Layered, IInv
<1>3. Calling /\ f.valid /\ call.ok \in BOOLEAN /\ (call.ok => Sound)
  BY <1>1 DEF Calling, Running, IInv, Calls, Sound
<1>4. ASSUME NEW i \in Qsa
      PROVE  Account(att'[i]) /\ att'[i].busy = FALSE /\ att'[i].ticket.active = FALSE
  <2> DEFINE s == att[i]
             n == Len(call.tokens)
             success == Commits
             r == attention_finish(s, success)
  <2>1. /\ Account(s) /\ s.busy \in BOOLEAN /\ s.ticket.active \in BOOLEAN
        /\ (s.busy <=> s.ticket.active) /\ (s.ticket.active => Ticket(s.ticket, n, s.epoch))
    BY DEF IInv, Closed
  <2>2. success \in BOOLEAN /\ (success => s.valid /\ (s.ticket.active => s.ticket.computed))
    BY <1>3 DEF Commits, IInv, Histories, AttHolding
  <2>3. att'[i] = IF s.ticket.active THEN r.s ELSE s
    BY <1>1 DEF FinishedAtt
  <2>4. CASE s.ticket.active
    <3>1. r = attention_finish(s, success) /\ (success => s.ticket.computed /\ s.valid)
          /\ Ticket(s.ticket, n, s.epoch)
      BY <2>1, <2>2, <2>4
    <3> HIDE DEF r, s, n, success
    <3>2. Account(r.s) /\ r.s.busy = FALSE /\ r.s.ticket = NoTicket
      BY <2>1, <2>2, <3>1, FinishCloses
    <3>3. NoTicket.active = FALSE
      BY DEF NoTicket
    <3> QED
      BY <2>3, <2>4, <3>2, <3>3
  <2>5. CASE ~s.ticket.active
    <3> HIDE DEF s, r
    <3> QED
      BY <2>1, <2>3, <2>5
  <2> QED
    BY <2>4, <2>5
<1>5. ASSUME NEW i \in Ple
      PROVE  ple'[i].busy = FALSE /\ job'[i] = NoJob
  <2> DEFINE u == ple[i]
  <2>1. {"conv", "prev", "next_pos", "valid", "busy", "epoch"} = DOMAIN u
    <3> DEFINE conv == Moved(f.epoch, Grams_of(told))
               prev == Prev(told)
               pos == Len(told)
               busy == ple[i].busy
    <3>1. u = [conv |-> conv, prev |-> prev, next_pos |-> pos, valid |-> TRUE,
               busy |-> busy, epoch |-> f.epoch]
      BY <1>3 DEF IInv, Embeddings, PleHolding
    <3> HIDE DEF u, conv, prev, pos, busy
    <3> QED
      BY <3>1
  <2>2. job[i] = NoJob => u.busy = FALSE
    BY DEF IInv, Closed
  <2>3. ple'[i] = FinishedPle(i) /\ job'[i] = NoJob
    BY <1>1
  <2>4. CASE job[i] = NoJob
    BY <2>2, <2>3, <2>4 DEF FinishedPle
  <2>5. CASE job[i] # NoJob
    <3>1. PICK next, pos, conv :
            \/ ple'[i] = [u EXCEPT !.busy = FALSE, !.prev = next, !.next_pos = pos, !.conv = conv]
            \/ ple'[i] = [u EXCEPT !.busy = FALSE]
      BY <2>3, <2>5 DEF FinishedPle
    <3> HIDE DEF u
    <3> QED
      BY <2>1, <2>3, <3>1
  <2> QED
    BY <2>4, <2>5
<1>6. Closed'
  BY <1>4, <1>5 DEF Closed
<1> QED
  BY <1>2, <1>4, <1>5, <1>6

\* A job that commits leaves the embedding of the text it was computed from.
LEMMA JobCommitted ==
  ASSUME NEW i \in Ple, NEW old, NEW text, NEW e, NEW n, NEW busy,
         Len(text) = Len(old) + n, ple[i] = PleHolding(old, busy, e),
         job[i] = JobHolding(text, n, e), JobCommits(i)
  PROVE  FinishedPle(i) = PleHolding(text, FALSE, e)
<1> DEFINE u == ple[i]
           j == job[i]
           was == Moved(e, Grams_of(old))
           conv == Moved(e, Grams_of(text))
           copy == conv_state_copy(was, conv).s
           prev == Prev(text)
           told_prev == Prev(old)
           p == Len(old)
           q == Len(text)
           new == [u EXCEPT !.busy = FALSE, !.prev = j.next, !.next_pos = @ + j.tokens,
                            !.conv = conv_state_copy(@, j.candidate).s]
<1>1. FinishedPle(i) = new
  BY JobsDiffer DEF FinishedPle
<1>2. u = [conv |-> was, prev |-> told_prev, next_pos |-> p, valid |-> TRUE,
           busy |-> busy, epoch |-> e]
  BY DEF PleHolding
<1>3. j = [phase |-> "computed", next |-> prev, candidate |-> conv, tokens |-> n]
  BY DEF JobHolding
<1>4. copy = conv
  <2> DEFINE a == Shift(Zeros, Grams_of(old))
             b == Shift(Zeros, Grams_of(text))
             k == Len(Grams_of(old))
             m == Len(Grams_of(text))
  <2>1. /\ was = [epoch |-> e, next_pos |-> k, valid |-> TRUE, data |-> a]
        /\ conv = [epoch |-> e, next_pos |-> m, valid |-> TRUE, data |-> b]
    BY DEF Moved
  <2> HIDE DEF was, conv, a, b, k, m
  <2> QED
    BY <2>1, CopyIsSource
<1>5. p + n = q
  OBVIOUS
<1> HIDE DEF u, j
<1>6. j.next = prev /\ j.tokens = n /\ j.candidate = conv
  BY <1>3
<1>7. u.conv = was /\ u.next_pos = p
  BY <1>2
<1>8. new = [u EXCEPT !.busy = FALSE, !.prev = prev, !.next_pos = q, !.conv = conv]
  <2>1. new = [u EXCEPT !.busy = FALSE, !.prev = j.next, !.next_pos = u.next_pos + j.tokens,
                        !.conv = conv_state_copy(u.conv, j.candidate).s]
    BY <1>2
  <2>2. conv_state_copy(u.conv, j.candidate).s = conv /\ u.next_pos + j.tokens = q
    BY <1>4, <1>5, <1>6, <1>7
  <2> HIDE DEF new, prev, conv, q
  <2> QED
    BY <1>6, <2>1, <2>2
<1> HIDE DEF new, prev, conv, q, p, was, told_prev
<1>9. new = [conv |-> conv, prev |-> prev, next_pos |-> q, valid |-> TRUE,
             busy |-> FALSE, epoch |-> e]
  BY <1>2, <1>8
<1> QED
  BY <1>1, <1>9 DEF PleHolding, prev, conv, q

\* Only a whole pass without a failure is taken over; any other ends the session.
LEMMA FinishKeeps ==
  ASSUME IInv, finish
  PROVE  IInv'
<1>1. /\ Running("finish") /\ Calling /\ f.valid
      /\ f = [epoch |-> f.epoch, next_pos |-> f.next_pos, valid |-> f.valid]
  BY FinishCases DEF Calling, Running, IInv, Calls, Session
<1>2. /\ ~Calling' /\ Layered' /\ Closed'
      /\ \A i \in Qsa : ~att'[i].ticket.active
      /\ \A i \in Ple : ple'[i].busy = FALSE /\ job'[i] = NoJob
  BY FinishClosed
<1>3. Calls' /\ Residual'
  BY <1>2 DEF Calls, Residual
<1>4. CASE f' = [f EXCEPT !.valid = FALSE] /\ UNCHANGED told
  <2>1. f' = [epoch |-> f.epoch, next_pos |-> f.next_pos, valid |-> FALSE]
    <3> DEFINE e == f.epoch
               p == f.next_pos
               v == f.valid
               new == f'
    <3> HIDE DEF e, p, v, new
    <3>1. f = [epoch |-> e, next_pos |-> p, valid |-> v] /\ new = [f EXCEPT !.valid = FALSE]
      BY <1>1, <1>4 DEF e, p, v, new
    <3>2. new = [epoch |-> e, next_pos |-> p, valid |-> FALSE]
      BY <3>1
    <3> QED
      BY <3>2 DEF e, p, new
  <2>2. f'.valid = FALSE /\ f'.epoch = f.epoch /\ f'.next_pos = f.next_pos
    BY <2>1
  <2>3. Session'
    BY <1>4, <2>1, <2>2 DEF IInv, Session
  <2>4. Histories' /\ Embeddings' /\ Returned'
    BY <2>2 DEF Histories, Sound, Embeddings, Returned
  <2> QED
    BY <1>2, <1>3, <2>3, <2>4 DEF IInv
<1>5. CASE /\ Commits /\ \A i \in Ple : job[i] # NoJob => JobCommits(i)
           /\ f' = [f EXCEPT !.next_pos = @ + Len(call.tokens)]
           /\ told' = told \o call.tokens
  <2> DEFINE p == Len(told)
             n == Len(call.tokens)
             e == f.epoch
  <2>1. /\ p \in Nat /\ n \in Nat /\ Len(whole) = p + n /\ Len(whole) <= Context
        /\ whole \in Texts /\ f.next_pos = p /\ Sound /\ call.ok
        /\ call.layers = Len(Layers) /\ Len(Layers) \in Nat
    BY <1>1, <1>5, Underway DEF Commits
  <2>2. call.at = Len(Layers) + 1
    BY <1>1, <2>1 DEF IInv, Calls, Running
  <2>3. f' = [epoch |-> e, next_pos |-> p + n, valid |-> TRUE]
    <3> DEFINE new == f'
               old == f
               q == p + n
    <3>1. f.valid = TRUE
      BY <1>1 DEF IInv, Session
    <3>2. old = [epoch |-> e, next_pos |-> p, valid |-> TRUE]
      BY <1>1, <2>1, <3>1
    <3>3. new = [old EXCEPT !.next_pos = q]
      BY <1>5, <2>1
    <3> HIDE DEF e, p, n, q, new, old
    <3>4. new = [epoch |-> e, next_pos |-> q, valid |-> TRUE]
      BY <3>2, <3>3
    <3> QED
      BY <3>4 DEF new, q
  <2>4. f'.epoch = e /\ f'.next_pos = p + n /\ f'.valid = TRUE
    BY <2>3
  <2>5. told' = whole
    BY <1>5 DEF whole
  <2>6. Session'
    BY <2>1, <2>3, <2>4, <2>5 DEF IInv, Session
  <2>7. \A i \in Trunk : Passed(i) /\ Embedded(i) /\ TextAt(i) = whole /\ TextAt(i)' = whole
                         /\ ~Passed(i)' /\ ~Embedded(i)'
    <3>1. \A i \in Trunk : i < call.at
      BY <2>1, <2>2, TrunkType
    <3> QED
      BY <1>1, <1>2, <2>5, <3>1 DEF Passed, Embedded, TextAt
  <2>8. Gdn \subseteq Trunk /\ Qsa \subseteq Trunk /\ Ple \subseteq Trunk
    BY DEF Gdn, Qsa, Ple
  <2>9. \A i \in Gdn : gdn'[i] = GdnHolding(MixIn(i, TextAt(i)'), f'.epoch)
    <3>1. \A i \in Gdn : gdn[i] = GdnHolding(MixIn(i, TextAt(i)), f.epoch)
      BY <2>1 DEF IInv, Histories
    <3> QED
      BY <2>4, <2>7, <2>8, <3>1, FinishCases
  <2>10. ASSUME NEW i \in Qsa
         PROVE  AttHolding(att'[i], i, TextAt(i)', f'.epoch, f'.next_pos)
    <3> DEFINE s == att[i]
               success == TRUE
               r == attention_finish(s, success)
    <3>1. /\ CacheHolds(s, MixIn(i, whole), Len(whole)) /\ s.valid /\ s.epoch = e
          /\ s.next_pos = p /\ s.ticket.active /\ s.ticket.computed
      BY <2>1, <2>7, <2>8 DEF IInv, Histories, AttHolding
    <3>2. Account(s) /\ Ticket(s.ticket, n, s.epoch)
      BY <3>1 DEF IInv, Closed
    <3>3. Commits = TRUE
      BY <1>5, <2>1 DEF Commits
    <3>4. att'[i] = r.s
      BY <3>1, <3>3, FinishCases DEF FinishedAtt
    <3>5. r = attention_finish(s, success) /\ s.ticket.computed /\ s.valid /\ success
          /\ success \in BOOLEAN
      BY <3>1
    <3> HIDE DEF r, s, n, p, e
    <3>6. /\ r.s.valid /\ r.s.epoch = s.epoch /\ r.s.next_pos = s.next_pos + n
          /\ r.s.cache = s.cache /\ r.s.blocks = s.blocks
      BY <3>2, <3>5, FinishCloses, ZenonT(90)
    <3>7. AttHolding(r.s, i, whole, e, p + n)
      BY <3>1, <3>6 DEF AttHolding, CacheHolds
    <3> QED
      BY <2>4, <2>7, <2>8, <3>4, <3>7
  <2>11. Histories'
    <3>1. \A i \in Qsa : (att'[i].ticket.active <=> Passed(i)')
                         /\ (Passed(i)' => att'[i].ticket.computed)
      BY <1>2, <2>7, <2>8
    <3>2. \A i \in Ple : job'[i] = IF Embedded(i)' THEN JobHolding(whole', Len(call'.tokens), f'.epoch)
                                                   ELSE NoJob
      BY <1>2, <2>7, <2>8
    <3> QED
      BY <2>9, <2>10, <3>1, <3>2 DEF Histories
  <2>12. Embeddings'
    <3>1. ASSUME NEW i \in Ple
          PROVE  ple'[i] = PleHolding(told', ple'[i].busy, f'.epoch)
      <4> DEFINE busy == ple[i].busy
      <4>1. ple[i] = PleHolding(told, busy, e) /\ job[i] = JobHolding(whole, n, e)
        BY <1>1, <2>1, <2>7, <2>8 DEF IInv, Embeddings, Histories
      <4>2. JobCommits(i)
        BY <1>5, <4>1, JobsDiffer
      <4> HIDE DEF busy, n, e
      <4>3. FinishedPle(i) = PleHolding(whole, FALSE, e)
        BY <2>1, <4>1, <4>2, JobCommitted DEF n
      <4>4. ple'[i] = PleHolding(whole, FALSE, e)
        BY <4>3, FinishCases
      <4> QED
        BY <1>2, <2>4, <2>5, <4>4
    <3> QED
      BY <3>1 DEF Embeddings
  <2>13. Returned'
    <3>1. logits = LastRows(Entering(whole)[Len(Layers)], call.rows)
      BY <1>1, <2>1 DEF IInv, Residual
    <3>2. call.rows \in 0 .. Len(whole)
      BY <1>1, <2>1 DEF IInv, Calls
    <3>3. logits' = logits
      BY FinishCases
    <3> QED
      BY <2>5, <3>1, <3>2, <3>3 DEF Returned
  <2> QED
    BY <1>2, <1>3, <2>6, <2>11, <2>12, <2>13 DEF IInv
<1> QED
  BY <1>4, <1>5, FinishCases

\* A reset that is not refused leaves a fresh state.
LEMMA ResetFresh ==
  ASSUME NEW s, NEW e, NEW data, state_reset(s, e, data).status = "ok"
  PROVE  state_reset(s, e, data).s = state_init(e, data)
<1> DEFINE r == state_reset(s, e, data)
           fresh == state_init(e, data)
<1>1. r = Refuse("overflow", s) \/ r = Refuse("stale", s) \/ r = Result("ok", fresh, <<>>)
  BY DEF state_reset
<1>2. r.status = "ok"
  OBVIOUS
<1> HIDE DEF r, fresh
<1>3. r = Result("ok", fresh, <<>>)
  BY <1>1, <1>2 DEF Refuse, Result
<1>4. r.s = fresh
  BY <1>3 DEF Result
<1> QED
  BY <1>4 DEF r, fresh

\* A recurrent block is fresh after its reset.
LEMMA BlockReset ==
  ASSUME NEW s, NEW e, block_reset(s, e).ok
  PROVE  block_reset(s, e).s = FreshGdn(e)
<1> DEFINE c == state_reset(s.conv, e, Zeros)
           g == state_reset(s.scan, e, <<>>)
           new == [conv |-> c.s, scan |-> g.s, valid |-> TRUE, busy |-> FALSE, epoch |-> e]
           good == c.status = "ok" /\ g.status = "ok"
           r == block_reset(s, e)
<1>1. r = [ok |-> FALSE, s |-> s] \/ r = [ok |-> good, s |-> new]
  BY DEF block_reset
<1>2. r.ok
  OBVIOUS
<1> HIDE DEF r, new
<1>3. c.status = "ok" /\ g.status = "ok" /\ r.s = new
  <2> HIDE DEF c, g, good
  <2>1. good /\ r.s = new
    BY <1>1, <1>2
  <2> QED
    BY <2>1 DEF good
<1>4. c.s = state_init(e, Zeros) /\ g.s = state_init(e, <<>>)
  BY <1>3, ResetFresh
<1>5. new = FreshGdn(e)
  <2> HIDE DEF c, g
  <2> QED
    BY <1>4 DEF new, FreshGdn
<1> QED
  BY <1>3, <1>5 DEF r

\* An embedding is fresh after its reset, or what it was if that was refused.
LEMMA PleReset ==
  ASSUME NEW i \in Ple, NEW e
  PROVE  IF ngram_state_reset(i, e).ok THEN ngram_state_reset(i, e).s = FreshPle(e)
                                       ELSE ngram_state_reset(i, e).s = ple[i]
<1> DEFINE r == ngram_state_reset(i, e)
           u == ple[i]
           fresh == FreshPle(e)
<1>1. r = [ok |-> FALSE, s |-> u] \/ r = [ok |-> TRUE, s |-> fresh]
  BY DEF ngram_state_reset
<1> HIDE DEF r, u, fresh
<1>2. IF r.ok THEN r.s = fresh ELSE r.s = u
  BY <1>1
<1> QED
  BY <1>2 DEF r, u, fresh

\* So is a cache.
LEMMA AttReset ==
  ASSUME NEW s, Account(s), NEW e, NEW r, r = attention_reset(s, e)
  PROVE  /\ Account(r.s) /\ r.s.busy = s.busy /\ r.s.ticket = s.ticket
         /\ r.ok => r.s.valid /\ r.s.epoch = e /\ r.s.next_pos = 0
<1> DEFINE new == [s EXCEPT !.epoch = e, !.next_pos = 0, !.valid = TRUE]
<1>1. r = [ok |-> FALSE, s |-> s] \/ r = [ok |-> TRUE, s |-> new]
  BY DEF attention_reset
<1>2. new = [s EXCEPT !.epoch = e, !.next_pos = 0, !.valid = TRUE]
  OBVIOUS
<1> HIDE DEF new
<1>3. new = [next_pos |-> 0, valid |-> TRUE, busy |-> s.busy, epoch |-> e,
             cache |-> s.cache, blocks |-> s.blocks, ticket |-> s.ticket]
  BY <1>2 DEF Account
<1>4. /\ Account(new) /\ new.busy = s.busy /\ new.ticket = s.ticket
      /\ new.valid = TRUE /\ new.epoch = e /\ new.next_pos = 0
  BY <1>3 DEF Account
<1> QED
  BY <1>1, <1>4

\* What the action does: the session is usable only if every layer was reset.
LEMMA ResetCases ==
  ASSUME forward_reset
  PROVE  /\ ~Calling /\ UNCHANGED <<job, call>>
         /\ DOMAIN gdn' = Gdn /\ DOMAIN ple' = Ple /\ DOMAIN att' = Qsa
         /\ \A i \in Ple : ple'[i] \in {ple[i], ngram_state_reset(i, f.epoch + 1).s}
         /\ \A i \in Qsa : att'[i] \in {att[i], attention_reset(att[i], f.epoch + 1).s}
         /\ \/ f' = [f EXCEPT !.valid = FALSE] /\ UNCHANGED told
            \/ /\ f' = [epoch |-> f.epoch + 1, next_pos |-> 0, valid |-> TRUE] /\ told' = <<>>
               /\ \A i \in Gdn : /\ block_reset(gdn[i], f.epoch + 1).ok
                                 /\ gdn'[i] = block_reset(gdn[i], f.epoch + 1).s
               /\ \A i \in Ple : /\ ngram_state_reset(i, f.epoch + 1).ok
                                 /\ ple'[i] = ngram_state_reset(i, f.epoch + 1).s
               /\ \A i \in Qsa : /\ attention_reset(att[i], f.epoch + 1).ok
                                 /\ att'[i] = attention_reset(att[i], f.epoch + 1).s
<1> DEFINE e == f.epoch + 1
           g(i) == block_reset(gdn[i], e)
           p(i) == ngram_state_reset(i, e)
           a(i) == attention_reset(att[i], e)
           gs == \A i \in Gdn : g(i).ok
           ps == gs /\ \A i \in Ple : p(i).ok
           as == ps /\ \A i \in Qsa : a(i).ok
<1>1. /\ ~Calling /\ UNCHANGED <<job, call>>
      /\ gdn' = [i \in Gdn |-> IF \A j \in Gdn : j < i => g(j).ok THEN g(i).s ELSE gdn[i]]
      /\ ple' = [i \in Ple |-> IF gs /\ \A j \in Ple : j < i => p(j).ok THEN p(i).s ELSE ple[i]]
      /\ att' = [i \in Qsa |-> IF ps /\ \A j \in Qsa : j < i => a(j).ok THEN a(i).s ELSE att[i]]
      /\ IF as THEN f' = [epoch |-> e, next_pos |-> 0, valid |-> TRUE] /\ told' = <<>>
               ELSE f' = [f EXCEPT !.valid = FALSE] /\ UNCHANGED told
  BY DEF forward_reset, Calling
<1>2. /\ \A i \in Ple : ple'[i] \in {ple[i], p(i).s}
      /\ \A i \in Qsa : att'[i] \in {att[i], a(i).s}
  <2> HIDE DEF g, p, a
  <2> QED
    BY <1>1
<1>3. CASE as
  <2>1. \A i \in Gdn : g(i).ok /\ gdn'[i] = g(i).s
    <3> HIDE DEF g, p, a
    <3> QED
      BY <1>1, <1>3
  <2>2. \A i \in Ple : p(i).ok /\ ple'[i] = p(i).s
    <3> HIDE DEF g, p, a
    <3> QED
      BY <1>1, <1>3
  <2>3. \A i \in Qsa : a(i).ok /\ att'[i] = a(i).s
    <3> HIDE DEF g, p, a
    <3> QED
      BY <1>1, <1>3
  <2>4. f' = [epoch |-> e, next_pos |-> 0, valid |-> TRUE] /\ told' = <<>>
    <3> HIDE DEF as
    <3> QED
      BY <1>1, <1>3
  <2> HIDE DEF gs, ps, as
  <2> QED
    BY <1>1, <1>2, <2>1, <2>2, <2>3, <2>4
<1>4. CASE ~as
  <2> HIDE DEF as
  <2>1. f' = [f EXCEPT !.valid = FALSE] /\ UNCHANGED told
    BY <1>1, <1>4
  <2> QED
    BY <1>1, <1>2, <2>1
<1> QED
  BY <1>3, <1>4

\* After a reset every layer holds nothing, or the session cannot be used.
LEMMA ResetKeeps ==
  ASSUME IInv, forward_reset
  PROVE  IInv'
<1> DEFINE e == f.epoch + 1
<1>1. /\ ~Calling /\ UNCHANGED <<job, call>>
      /\ DOMAIN gdn' = Gdn /\ DOMAIN ple' = Ple /\ DOMAIN att' = Qsa
      /\ \A i \in Ple : ple'[i] \in {ple[i], ngram_state_reset(i, e).s}
      /\ \A i \in Qsa : att'[i] \in {att[i], attention_reset(att[i], e).s}
      /\ f = [epoch |-> f.epoch, next_pos |-> f.next_pos, valid |-> f.valid] /\ f.epoch \in Nat
  BY ResetCases DEF IInv, Session
<1>2. ~Calling' /\ Layered' /\ Calls' /\ Residual'
  BY <1>1 DEF IInv, Layered, Calls, Residual, Calling, Running
<1>3. ASSUME NEW i \in Qsa
      PROVE  /\ Account(att'[i]) /\ att'[i].busy = FALSE /\ att'[i].ticket.active = FALSE
  <2> DEFINE s == att[i]
             r == attention_reset(s, e)
  <2>1. Account(s) /\ s.busy = FALSE /\ s.ticket.active = FALSE
    BY <1>1 DEF IInv, Closed
  <2>2. r = attention_reset(s, e)
    OBVIOUS
  <2>3. att'[i] = s \/ att'[i] = r.s
    BY <1>1
  <2> HIDE DEF s, r, e
  <2>4. Account(r.s) /\ r.s.busy = s.busy /\ r.s.ticket = s.ticket
    BY <2>1, <2>2, AttReset
  <2> QED
    BY <2>1, <2>3, <2>4
<1>4. ASSUME NEW i \in Ple
      PROVE  ple'[i].busy = FALSE /\ job'[i] = NoJob
  <2>1. job[i] = NoJob /\ ple[i].busy = FALSE
    BY <1>1 DEF IInv, Closed
  <2>2. ple'[i] = ple[i] \/ ple'[i] = FreshPle(e)
    <3> HIDE DEF e
    <3> QED
      BY <1>1, PleReset
  <2>3. FreshPle(e).busy = FALSE
    BY DEF FreshPle
  <2> QED
    BY <1>1, <2>1, <2>2, <2>3
<1>5. Closed'
  BY <1>3, <1>4 DEF Closed
<1>6. CASE f' = [f EXCEPT !.valid = FALSE] /\ UNCHANGED told
  <2> DEFINE old == f.epoch
             p == f.next_pos
             v == f.valid
             was == f
             new == f'
  <2> HIDE DEF old, p, v, new, was
  <2>1. was = [epoch |-> old, next_pos |-> p, valid |-> v] /\ new = [was EXCEPT !.valid = FALSE]
    BY <1>1, <1>6 DEF old, p, v, new, was
  <2>2. new = [epoch |-> old, next_pos |-> p, valid |-> FALSE]
    BY <2>1
  <2>3. f'.valid = FALSE /\ f'.epoch = f.epoch /\ f'.next_pos = f.next_pos /\ f' = new
    BY <2>2 DEF new, old, p
  <2>4. Session'
    BY <1>1, <1>6, <2>2, <2>3 DEF IInv, Session
  <2>5. Histories' /\ Embeddings' /\ Returned'
    BY <2>3 DEF Histories, Sound, Embeddings, Returned
  <2> QED
    BY <1>2, <1>5, <2>4, <2>5 DEF IInv
<1>7. CASE /\ f' = [epoch |-> e, next_pos |-> 0, valid |-> TRUE] /\ told' = <<>>
           /\ \A i \in Gdn : block_reset(gdn[i], e).ok /\ gdn'[i] = block_reset(gdn[i], e).s
           /\ \A i \in Ple : ngram_state_reset(i, e).ok /\ ple'[i] = ngram_state_reset(i, e).s
           /\ \A i \in Qsa : attention_reset(att[i], e).ok /\ att'[i] = attention_reset(att[i], e).s
  <2>1. f'.epoch = e /\ f'.next_pos = 0 /\ f'.valid = TRUE /\ e \in Nat
    BY <1>1, <1>7
  <2>2. /\ <<>> \in Texts /\ Len(<<>>) = 0 /\ 0 <= Context
        /\ \A i \in Trunk : MixIn(i, <<>>) = <<>>
    BY EmptyPass
  <2>3. Session'
    BY <1>7, <2>1, <2>2 DEF Session
  <2>4. \A i \in Trunk : TextAt(i)' = <<>> /\ ~Passed(i)' /\ ~Embedded(i)'
    BY <1>2, <1>7 DEF TextAt, Passed, Embedded
  <2>5. Gdn \subseteq Trunk /\ Qsa \subseteq Trunk /\ Ple \subseteq Trunk
    BY DEF Gdn, Qsa, Ple
  <2>6. \A i \in Gdn : gdn'[i] = GdnHolding(MixIn(i, TextAt(i)'), f'.epoch)
    <3> HIDE DEF e
    <3>1. \A i \in Gdn : gdn'[i] = FreshGdn(e)
      BY <1>7, BlockReset
    <3>2. FreshGdn(e) = GdnHolding(<<>>, e)
      BY FreshBlock
    <3> QED
      BY <2>1, <2>2, <2>4, <2>5, <3>1, <3>2
  <2>7. ASSUME NEW i \in Qsa
        PROVE  AttHolding(att'[i], i, TextAt(i)', f'.epoch, f'.next_pos)
    <3> DEFINE s == att[i]
               r == attention_reset(s, e)
               x == MixIn(i, <<>>)
    <3>1. Account(s) /\ r = attention_reset(s, e) /\ r.ok /\ att'[i] = r.s
      BY <1>7 DEF IInv, Closed
    <3> HIDE DEF s, r, e, x
    <3>2. r.s.valid /\ r.s.epoch = e /\ r.s.next_pos = 0
      BY <3>1, AttReset
    <3>3. CacheHolds(r.s, x, 0)
      BY NothingCached
    <3>4. AttHolding(r.s, i, <<>>, e, 0)
      BY <2>2, <3>2, <3>3 DEF AttHolding, x
    <3> QED
      BY <2>1, <2>4, <2>5, <3>1, <3>4
  <2>8. Histories'
    <3>1. \A i \in Qsa : (att'[i].ticket.active <=> Passed(i)')
                         /\ (Passed(i)' => att'[i].ticket.computed)
      BY <1>3, <2>4, <2>5
    <3>2. \A i \in Ple : job'[i] = IF Embedded(i)' THEN JobHolding(whole', Len(call'.tokens), f'.epoch)
                                                   ELSE NoJob
      BY <1>4, <2>4, <2>5
    <3> QED
      BY <2>6, <2>7, <3>1, <3>2 DEF Histories
  <2>9. Embeddings'
    <3> HIDE DEF e
    <3>1. \A i \in Ple : ple'[i] = FreshPle(e)
      BY <1>7, PleReset
    <3>2. FreshPle(e) = PleHolding(<<>>, FALSE, e)
      BY EmptyPass
    <3>3. \A i \in Ple : ple'[i] = PleHolding(told', ple'[i].busy, f'.epoch)
      BY <1>4, <1>7, <2>1, <3>1, <3>2
    <3> QED
      BY <3>3 DEF Embeddings
  <2>10. Returned'
    BY <1>7 DEF Returned
  <2> QED
    BY <1>2, <1>5, <2>3, <2>8, <2>9, <2>10 DEF IInv
<1> HIDE DEF e
<1>8. \/ f' = [f EXCEPT !.valid = FALSE] /\ UNCHANGED told
      \/ /\ f' = [epoch |-> e, next_pos |-> 0, valid |-> TRUE] /\ told' = <<>>
         /\ \A i \in Gdn : block_reset(gdn[i], e).ok /\ gdn'[i] = block_reset(gdn[i], e).s
         /\ \A i \in Ple : ngram_state_reset(i, e).ok /\ ple'[i] = ngram_state_reset(i, e).s
         /\ \A i \in Qsa : attention_reset(att[i], e).ok /\ att'[i] = attention_reset(att[i], e).s
  BY ResetCases DEF e
<1> QED
  BY <1>6, <1>7, <1>8

\* A session as it is created.
LEMMA InitIInv == Init => IInv
<1> SUFFICES ASSUME Init PROVE IInv
  OBVIOUS
<1>1. /\ f = [epoch |-> 1, next_pos |-> 0, valid |-> TRUE]
      /\ gdn = [i \in Gdn |-> FreshGdn(1)] /\ att = [i \in Qsa |-> FreshAtt(1)]
      /\ ple = [i \in Ple |-> FreshPle(1)] /\ job = [i \in Ple |-> NoJob]
      /\ call = Idle /\ told = <<>>
  BY DEF Init
<1>2. f.epoch = 1 /\ f.next_pos = 0 /\ f.valid = TRUE
  BY <1>1
<1>3. ~Calling
  BY <1>1 DEF Calling, Running, Idle
<1>4. /\ <<>> \in Texts /\ Len(<<>>) = 0 /\ 0 <= Context
      /\ \A i \in Trunk : MixIn(i, <<>>) = <<>>
      /\ FreshPle(1) = PleHolding(<<>>, FALSE, 1)
  BY EmptyPass
<1>5. Session
  BY <1>1, <1>2, <1>4 DEF Session
<1>6. Layered
  BY <1>1 DEF Layered
<1>7. Calls /\ Residual
  BY <1>3 DEF Calls, Residual
<1> DEFINE s == FreshAtt(1)
<1>8. Account(s) /\ s.busy = FALSE /\ s.ticket.active = FALSE
      /\ s.valid = TRUE /\ s.epoch = 1 /\ s.next_pos = 0
  BY DEF FreshAtt, NoTicket, Account
<1>9. FreshPle(1).busy = FALSE
  BY DEF FreshPle
<1> HIDE DEF s
<1>10. \A i \in Qsa : att[i] = s
  BY <1>1 DEF s
<1>11. Closed
  BY <1>1, <1>8, <1>9, <1>10 DEF Closed
<1>12. \A i \in Trunk : TextAt(i) = <<>> /\ ~Passed(i) /\ ~Embedded(i)
  BY <1>1, <1>3 DEF TextAt, Passed, Embedded
<1>13. Gdn \subseteq Trunk /\ Qsa \subseteq Trunk /\ Ple \subseteq Trunk
  BY DEF Gdn, Qsa, Ple
<1>14. Histories
  <2>1. \A i \in Gdn : gdn[i] = GdnHolding(MixIn(i, TextAt(i)), f.epoch)
    <3>1. FreshGdn(1) = GdnHolding(<<>>, 1)
      BY FreshBlock
    <3> QED
      BY <1>1, <1>2, <1>4, <1>12, <1>13, <3>1
  <2>2. ASSUME NEW i \in Qsa
        PROVE  AttHolding(att[i], i, TextAt(i), f.epoch, f.next_pos)
    <3> DEFINE x == MixIn(i, <<>>)
    <3> HIDE DEF x
    <3>1. CacheHolds(s, x, 0)
      BY NothingCached
    <3>2. AttHolding(s, i, <<>>, 1, 0)
      BY <1>4, <1>8, <3>1 DEF AttHolding, x
    <3> QED
      BY <1>2, <1>10, <1>12, <1>13, <3>2
  <2>3. \A i \in Qsa : (att[i].ticket.active <=> Passed(i)) /\ (Passed(i) => att[i].ticket.computed)
    BY <1>8, <1>10, <1>12, <1>13
  <2>4. \A i \in Ple : job[i] = IF Embedded(i) THEN JobHolding(whole, Len(call.tokens), f.epoch)
                                               ELSE NoJob
    BY <1>1, <1>12, <1>13
  <2> QED
    BY <2>1, <2>2, <2>3, <2>4 DEF Histories
<1>15. Embeddings
  BY <1>1, <1>2, <1>4, <1>9 DEF Embeddings
<1>16. Returned
  BY <1>1 DEF Returned
<1> QED
  BY <1>5, <1>6, <1>7, <1>11, <1>14, <1>15, <1>16 DEF IInv

\* Every step keeps the invariant; whether the file is rewritten does not matter
\* to it.
LEMMA NextIInv == IInv /\ [Next]_vars => IInv'
<1> SUFFICES ASSUME IInv, [Next]_vars PROVE IInv'
  OBVIOUS
<1>1. ASSUME NEW ts \in Chunks, NEW n \in 0 .. Len(Layers), NEW rows \in 0 .. Len(ts),
             forward_cpu(ts, n, rows)
      PROVE  IInv'
  BY <1>1, ForwardKeeps
<1>2. ASSUME UNCHANGED <<f, gdn, att, ple, job, call, told, logits>> PROVE IInv'
  <2>1. Session' /\ Layered' /\ Calls' /\ Closed'
    BY <1>2 DEF IInv, Session, Layered, Calls, Closed, Calling, Running
  <2>2. \A i \in Trunk : (Passed(i)' <=> Passed(i)) /\ (Embedded(i)' <=> Embedded(i))
                         /\ TextAt(i)' = TextAt(i)
    BY <1>2 DEF Passed, Embedded, TextAt, Calling, Running, whole
  <2>3. /\ (Sound' <=> Sound) /\ whole' = whole /\ Gdn \subseteq Trunk /\ Qsa \subseteq Trunk
        /\ Ple \subseteq Trunk /\ (Calling' <=> Calling)
    BY <1>2 DEF Sound, Calling, Running, whole, Gdn, Qsa, Ple
  <2>4. Histories'
    BY <1>2, <2>2, <2>3 DEF IInv, Histories
  <2>5. Embeddings' /\ Residual' /\ Returned'
    BY <1>2, <2>3 DEF IInv, Embeddings, Residual, Returned, Running, Chunk
  <2> QED
    BY <2>1, <2>4, <2>5 DEF IInv
<1>3. CASE rewrite
  BY <1>2, <1>3 DEF rewrite, states
<1>4. CASE UNCHANGED vars
  BY <1>2, <1>4 DEF vars, states
<1> QED
  BY <1>1, <1>3, <1>4, PleKeeps, NoPleKeeps, GdnKeeps, QsaKeeps, FfnKeeps, HeadKeeps, FinishKeeps,
     ResetKeeps DEF Next

\* The invariant holds throughout.
THEOREM Inductive == Spec => []IInv
<1>1. Init => IInv
  BY InitIInv
<1>2. IInv /\ [Next]_vars => IInv'
  BY NextIInv
<1> QED
  BY <1>1, <1>2, PTL DEF Spec

-----------------------------------------------------------------------------
(* What it says between calls.                                             *)

\* The histories of the layers are those of one pass over the tokens told.
LEMMA HistoriesFollow ==
  ASSUME IInv PROVE StatesFollowText
<1> SUFFICES ASSUME Running("idle"), f.valid
             PROVE  /\ f.next_pos = Len(told)
                    /\ \A i \in Gdn :
                         /\ gdn[i].valid /\ gdn[i].epoch = f.epoch
                         /\ gdn[i].conv.next_pos = f.next_pos /\ gdn[i].scan.next_pos = f.next_pos
                         /\ gdn[i].conv.data = Mixed(i, told).conv.data
                         /\ gdn[i].scan.data = Mixed(i, told).scan.data
                    /\ \A i \in Qsa :
                         /\ att[i].valid /\ att[i].epoch = f.epoch /\ att[i].next_pos = f.next_pos
                         /\ Attended(att[i], f.next_pos) = Attended(Mixed(i, told), f.next_pos)
                    /\ \A i \in Ple :
                         /\ ple[i].valid /\ ple[i].epoch = f.epoch /\ ple[i].next_pos = f.next_pos
                         /\ ple[i].prev = Hash!Next_prev(Grams, EmptyText, told)
                         /\ ple[i].conv.data =
                              conv_causal(FreshPle(1).conv, Rows(EmptyText, told), 0, TRUE).s.data
  BY DEF StatesFollowText
<1>1. /\ ~Calling /\ Sound /\ f.next_pos = Len(told) /\ Len(told) <= Context /\ told \in Texts
      /\ Len(told) \in Nat /\ Len(told) + 0 = Len(told)
  BY LenProperties DEF Calling, Sound, IInv, Session, Texts
<1>2. \A i \in Trunk : TextAt(i) = told
  BY <1>1 DEF TextAt, Passed
<1>3. Gdn \subseteq Trunk /\ Qsa \subseteq Trunk /\ Ple \subseteq Trunk
  BY DEF Gdn, Qsa, Ple
<1> DEFINE p == Len(told)
           e == f.epoch
<1>4. \A i \in Trunk : IsRows(MixIn(i, told), p) /\ Mixed(i, told) = Mixer(i, MixIn(i, told)).s
  BY <1>1, PassRows DEF Mixed, MixIn
<1>5. ASSUME NEW i \in Gdn
      PROVE  /\ gdn[i].valid /\ gdn[i].epoch = e
             /\ gdn[i].conv.next_pos = p /\ gdn[i].scan.next_pos = p
             /\ gdn[i].conv.data = Mixed(i, told).conv.data
             /\ gdn[i].scan.data = Mixed(i, told).scan.data
  <2> DEFINE x == MixIn(i, told)
             s == gdn[i]
             t == Mixed(i, told)
  <2>1. s = GdnHolding(x, e)
    BY <1>1, <1>2, <1>3 DEF IInv, Histories
  <2>2. i \in Trunk /\ IsRows(x, p)
    BY <1>3, <1>4
  <2>3. t = GdnHolding(x, 1)
    <3>1. t = Mixer(i, x).s
      BY <1>3, <1>4
    <3> HIDE DEF x, p, t
    <3> QED
      BY <1>1, <2>2, <3>1, FreshMixer DEF p
  <2>4. Len(x) = p /\ Len(Windows(x)) = p
    <3>1. p \in Nat /\ 0 \in Nat /\ IsRows(x, p + 0) /\ p + 0 = p
      BY <1>1, <2>2
    <3> HIDE DEF x, p
    <3> QED
      BY <3>1, RowsSeq, WindowsPrefix
  <2> HIDE DEF x, s, p, e, t
  <2>5. /\ s.valid /\ s.epoch = e /\ s.conv = Moved(e, x) /\ s.scan = Scanned(e, Windows(x))
    BY <2>1 DEF GdnHolding
  <2>6. t.conv = Moved(1, x) /\ t.scan = Scanned(1, Windows(x))
    BY <2>3 DEF GdnHolding
  <2>7. \A k : /\ Moved(k, x).next_pos = p /\ Moved(k, x).data = Shift(Zeros, x)
               /\ Scanned(k, Windows(x)).next_pos = p /\ Scanned(k, Windows(x)).data = Windows(x)
    BY <2>4 DEF Moved, Scanned
  <2> QED
    BY <2>5, <2>6, <2>7 DEF s, t
<1>6. ASSUME NEW i \in Qsa
      PROVE  /\ att[i].valid /\ att[i].epoch = e /\ att[i].next_pos = p
             /\ Attended(att[i], p) = Attended(Mixed(i, told), p)
  <2> DEFINE x == MixIn(i, told)
             s == att[i]
             t == Mixed(i, told)
  <2>1. CacheHolds(s, x, p) /\ s.valid /\ s.epoch = e /\ s.next_pos = p
    BY <1>1, <1>2, <1>3 DEF IInv, Histories, AttHolding
  <2>2. i \in Trunk /\ IsRows(x, p) /\ i \notin Gdn /\ t = Mixer(i, x).s /\ p \in Nat /\ p <= Context
    BY <1>1, <1>3, <1>4 DEF Qsa
  <2> HIDE DEF x, s, t, p, e
  <2>3. CacheHolds(t, x, p)
    BY <2>2, FreshMixer
  <2>4. p \in 0 .. p
    BY <2>2
  <2>5. Attended(s, p) = Heard(x, p) /\ Attended(t, p) = Heard(x, p)
    BY <2>1, <2>2, <2>3, <2>4, AttendedHeard
  <2> QED
    BY <2>1, <2>5 DEF s, t
<1>7. ASSUME NEW i \in Ple
      PROVE  /\ ple[i].valid /\ ple[i].epoch = e /\ ple[i].next_pos = p
             /\ ple[i].prev = Hash!Next_prev(Grams, EmptyText, told)
             /\ ple[i].conv.data =
                  conv_causal(FreshPle(1).conv, Rows(EmptyText, told), 0, TRUE).s.data
  <2> DEFINE s == ple[i]
             g == Grams_of(told)
             busy == ple[i].busy
             c == conv_causal(FreshPle(1).conv, g, 0, TRUE).s
  <2>1. s = PleHolding(told, busy, e)
    BY <1>1 DEF IInv, Embeddings
  <2>2. c = Moved(1, g)
    BY <1>1, PlePass
  <2> HIDE DEF s, busy, e, p, c
  <2>3. /\ s.valid /\ s.epoch = e /\ s.next_pos = Len(told) /\ s.prev = Prev(told)
        /\ s.conv = Moved(e, g)
    BY <2>1 DEF PleHolding
  <2>4. \A k : Moved(k, g).data = Shift(Zeros, g)
    BY DEF Moved
  <2>5. s.conv.data = c.data
    BY <2>2, <2>3, <2>4
  <2> QED
    BY <2>3, <2>5 DEF s, p, c, Prev, Grams_of
<1> QED
  BY <1>1, <1>5, <1>6, <1>7

\* Logits are the last rows of one pass.
LEMMA LogitsFollow ==
  ASSUME IInv PROVE LogitsAreOneShot
<1> SUFFICES ASSUME Running("idle"), f.valid, told # <<>>
             PROVE  logits = SubSeq(Entering(told)[Len(Layers)],
                                    Len(told) - Len(logits) + 1, Len(told))
  BY DEF LogitsAreOneShot
<1>1. ~Calling /\ told \in Texts /\ Len(told) <= Context /\ Len(told) \in Nat
  BY LenProperties DEF Calling, IInv, Session, Texts
<1> DEFINE x == Entering(told)[Len(Layers)]
           p == Len(told)
<1>2. PICK n \in 0 .. p : logits = LastRows(x, n)
  BY <1>1 DEF IInv, Returned
<1>3. IsRows(x, p)
  <2>1. Len(Layers) \in 0 .. Len(Layers)
    BY TrunkType
  <2> QED
    BY <1>1, <2>1, PassRows
<1>4. SubSeq(x, p - n + 1, p) = LastRows(x, n) /\ Len(LastRows(x, n)) = n
  <2> HIDE DEF x, p
  <2> QED
    BY <1>1, <1>3, LastSubSeq DEF p
<1> HIDE DEF x
<1> QED
  BY <1>2, <1>4 DEF x

\* Between calls a session that may be used (valid) holds in every layer what
\* one pass over its tokens leaves, whatever the chunks, the failures and the
\* resets were (qwen38_forward.c: forward_cpu, finish, forward_reset).
THEOREM StateIsOnePass == Spec => []StatesFollowText
<1>1. IInv => StatesFollowText
  BY HistoriesFollow
<1> QED
  BY <1>1, Inductive, PTL

\* Between calls no ticket, no job and no busy state is left, so that a reset is
\* never refused for one (qwen38_forward.c: finish).
THEOREM FinishClosesAll == Spec => []NothingLeftOpen
<1>1. IInv => NothingLeftOpen
  <2> SUFFICES ASSUME IInv, Running("idle")
               PROVE  /\ \A i \in Qsa : ~att[i].busy /\ ~att[i].ticket.active
                      /\ \A i \in Ple : ~ple[i].busy /\ job[i] = NoJob
    BY DEF NothingLeftOpen
  <2> QED
    BY DEF IInv, Closed, Calling
<1> QED
  BY <1>1, Inductive, PTL

\* The logits of a call that committed are the last rows of one pass over all
\* the tokens told (qwen38_forward.c: forward_cpu, the head).
THEOREM LogitsOfOnePass == Spec => []LogitsAreOneShot
<1>1. IInv => LogitsAreOneShot
  BY LogitsFollow
<1> QED
  BY <1>1, Inductive, PTL
=============================================================================
