--------------------------- MODULE NgramStoreProofs ---------------------------
(***************************************************************************)
(* Safety of the n-gram store, for every table, hash, kernel, block size   *)
(* and budget the code accepts.  The invariant says that there is only one *)
(* thing a state can be: what one pass over the text told to it leaves     *)
(* (Holding).  A job in flight carries, phase by phase, what that pass     *)
(* does to its tokens (Phases), because the state it took cannot move      *)
(* while it is busy (Handles); publishing it is then one step of the pass. *)
(* It also shows that the commit's own fallback, an invalid state, is      *)
(* never needed.                                                           *)
(***************************************************************************)
EXTENDS NgramStore, RecurrentProofs, FiniteSetTheorems

CONSTANT Uint32Max   \* 2^32 - 1 in the code: a limit of the loader of configurations
Loader == INSTANCE Config

-----------------------------------------------------------------------------
(* The reader: what a lease serves, for every table, unit size, staging    *)
(* buffer, batch and history of the file.                                  *)

(***************************************************************************)
(* The inductive invariant. The lease property speaks of complete batches  *)
(* only, so it needs to know what a read in progress has achieved: as long *)
(* as the file is the one opened, the requests behind begin are served     *)
(* (Served) and the bytes of the current interval are those of its rows    *)
(* (Staged). A rewrite in the middle makes both vacuous, and the second    *)
(* look at the file keeps such a read from becoming a batch.               *)
(***************************************************************************)
Cell == Nat \X Int \X Int

Shape ==
  /\ version \in Nat \ {0}
  /\ call.on \in BOOLEAN
  /\ call.on =>
       /\ ~ready
       /\ call = [on |-> TRUE, rows |-> call.rows, order |-> call.order,
                  begin |-> call.begin, raw |-> call.raw]
       /\ call.rows \in Seq(0 .. Rows - 1)
       /\ Len(call.rows) <= Slots
       /\ call.order \in Orders(call.rows)
       /\ call.begin \in 1 .. Len(call.rows) + 1
       /\ call.raw \in Seq(Cell)

ServedAt(k) ==
  /\ call.rows[call.order[k]] \notin BadRows
  /\ values[call.order[k]] = Content(call.rows[call.order[k]])

Served ==
  call.on /\ unchanged => \A k \in 1 .. call.begin - 1 : ServedAt(k)

RowByRow(raw) ==
  \A j \in 1 .. Len(raw) :
    raw[j] = Unit(Opened, First + ((j - 1) \div Units), ((j - 1) % Units) + 1)

Filled(raw, e) == Len(raw) = Length(e) * Units

Staged ==
  call.on /\ unchanged => RowByRow(call.raw)

RInv == Shape /\ Served /\ Staged /\ LeaseServesItsRows

(* The unit of a row a byte offset falls in.                               *)
LEMMA DivMod ==
  ASSUME NEW U \in Nat \ {0}, NEW d \in Nat, NEW u \in 1 .. U,
         NEW at \in Int, at = d * U + (u - 1)
  PROVE  at \div U = d /\ at % U = u - 1
<1> DEFINE q == at \div U
           r == at % U
<1>1. q \in Int /\ r \in 0 .. U - 1 /\ at = U * q + r
  BY SMT
<1>2. q = d
  <2> HIDE DEF q, r
  <2>1. CASE q > d
    <3>1. q >= d + 1 /\ U * q >= U * (d + 1)
      BY <1>1, <2>1, SMT
    <3> QED BY <1>1, <3>1, SMT
  <2>2. CASE q < d
    <3>1. q + 1 <= d /\ U * (q + 1) <= U * d
      BY <1>1, <2>2, SMT
    <3> QED BY <1>1, <3>1, SMT
  <2> QED BY <1>1, <2>1, <2>2
<1> QED BY <1>1, <1>2

(* Unit u of the d-th row of an interval of n rows lies in its n * U units. *)
LEMMA Within ==
  ASSUME NEW U \in Nat \ {0}, NEW n \in Nat, NEW d \in 0 .. n - 1, NEW u \in 1 .. U
  PROVE  d * U + u \in 1 .. n * U
<1>1. (d + 1) * U <= n * U
  BY SMT
<1>2. (d + 1) * U = d * U + U /\ d * U >= 0 /\ d * U \in Int /\ n * U \in Int
  BY SMT
<1> QED BY <1>1, <1>2

(* What a pread appends continues the rows of the interval, if the file is *)
(* still the one opened; and it is a sequence of cells in any case.        *)
LEMMA ReadStages ==
  ASSUME ReaderAssumption, Shape, Staged, call.on, Remaining,
         First \in Int, NEW n \in Nat
  PROVE  LET raw == Read(call.raw, n)
         IN  /\ raw \in Seq(Cell)
             /\ Len(raw) = Len(call.raw) + n
             /\ unchanged => RowByRow(raw)
<1> DEFINE more == [i \in 1 .. n |-> LET at == Len(call.raw) + i - 1
                                     IN  Unit(version, First + (at \div Units), (at % Units) + 1)]
           raw == Read(call.raw, n)
<1>0. Units \in Nat \ {0} /\ version \in Nat /\ call.raw \in Seq(Cell)
  BY DEF ReaderAssumption, Shape
<1>1. \A at \in Nat : Unit(version, First + (at \div Units), (at % Units) + 1) \in Cell
  BY <1>0 DEF Unit, Cell
<1>2. more \in Seq(Cell) /\ Len(more) = n
  <2>1. \A i \in 1 .. n : more[i] \in Cell
    <3> TAKE i \in 1 .. n
    <3>1. Len(call.raw) + i - 1 \in Nat
      BY <1>0
    <3> QED BY <1>1, <3>1
  <2>2. more = [i \in 1 .. n |-> more[i]]
    OBVIOUS
  <2> HIDE DEF more
  <2> QED BY <2>1, <2>2
<1>3. raw = call.raw \o more
  BY DEF Read
<1>4. raw \in Seq(Cell) /\ Len(raw) = Len(call.raw) + n
  <2>1. raw = call.raw \o more /\ call.raw \in Seq(Cell) /\ more \in Seq(Cell) /\ Len(more) = n
    BY <1>0, <1>2, <1>3
  <2> HIDE DEF more, raw
  <2> QED BY <2>1, ConcatProperties, ZenonT(60)
<1>5. ASSUME unchanged, NEW j \in 1 .. Len(raw)
      PROVE  raw[j] = Unit(Opened, First + ((j - 1) \div Units), ((j - 1) % Units) + 1)
  <2>1. CASE j <= Len(call.raw)
    <3>1. raw[j] = call.raw[j]
      <4> HIDE DEF more, raw
      <4> QED BY <1>0, <1>2, <1>3, <2>1
    <3> QED BY <1>0, <1>5, <2>1, <3>1 DEF Staged, RowByRow
  <2>2. CASE j > Len(call.raw)
    <3>1. j - Len(call.raw) \in 1 .. n
      <4> HIDE DEF more, raw
      <4> QED BY <1>0, <1>4, <2>2
    <3>2. raw[j] = more[j - Len(call.raw)]
      <4> HIDE DEF more, raw
      <4> QED BY <1>0, <1>2, <1>3, <1>4, <2>2
    <3>3. Len(call.raw) + (j - Len(call.raw)) - 1 = j - 1
      <4> HIDE DEF more, raw
      <4> QED BY <1>0, <1>4
    <3> QED BY <1>5, <3>1, <3>2, <3>3 DEF unchanged
  <2> QED BY <1>0, <1>4, <2>1, <2>2
<1> QED BY <1>4, <1>5 DEF RowByRow

(* The facts about a plan that the steps use.                              *)
LEMMA Planned ==
  ASSUME ReaderAssumption, Shape, call.on
  PROVE  /\ \A k \in 1 .. Len(call.rows) : call.order[k] \in 1 .. Len(call.rows)
         /\ \A i \in 1 .. Len(call.rows) : \E k \in 1 .. Len(call.rows) : call.order[k] = i
         /\ \A i \in 1 .. Len(call.rows) : call.rows[i] \in 0 .. Rows - 1
         /\ \A i, j \in 1 .. Len(call.rows) :
              i < j => call.rows[call.order[i]] <= call.rows[call.order[j]]
         /\ Len(call.rows) \in Nat
         /\ Rows \in Nat
<1>1. /\ call.rows \in Seq(0 .. Rows - 1) /\ call.order \in Orders(call.rows)
      /\ Rows \in Nat
  BY DEF Shape, ReaderAssumption
<1>2. Len(call.rows) \in Nat /\ \A i \in 1 .. Len(call.rows) : call.rows[i] \in 0 .. Rows - 1
  BY <1>1
<1>3. /\ call.order \in [1 .. Len(call.rows) -> 1 .. Len(call.rows)]
      /\ \A i \in 1 .. Len(call.rows) : \E k \in 1 .. Len(call.rows) : call.order[k] = i
      /\ \A i, j \in 1 .. Len(call.rows) :
           i < j => call.rows[call.order[i]] <= call.rows[call.order[j]]
  BY <1>1 DEF Orders
<1> QED BY <1>1, <1>2, <1>3

(* Once every byte of an interval is there, the slots of its requests hold *)
(* their rows, if the file is still the one opened.                        *)
LEMMA ScatterServes ==
  ASSUME ReaderAssumption, Shape, call.on, Remaining, unchanged,
         NEW e \in call.begin + 1 .. Len(call.rows) + 1,
         NEW raw \in Seq(Cell), Filled(raw, e), RowByRow(raw),
         NEW k \in call.begin .. e - 1
  PROVE  Decoded(raw, call.rows[call.order[k]]) = Content(call.rows[call.order[k]])
<1> DEFINE row == call.rows[call.order[k]]
           d   == row - First
           n   == Length(e)
<1> HIDE DEF row, d, n
<1>1. /\ Units \in Nat \ {0} /\ call.begin \in 1 .. Len(call.rows) /\ Len(call.rows) \in Nat
      /\ k \in 1 .. Len(call.rows) /\ e - 1 \in 1 .. Len(call.rows)
  <2>1. call.begin \in 1 .. Len(call.rows) + 1
    BY DEF Shape
  <2>2. Units \in Nat \ {0} /\ Len(call.rows) \in Nat
    BY Planned DEF ReaderAssumption
  <2> QED BY <2>1, <2>2 DEF Remaining
<1>2. /\ First \in 0 .. Rows - 1 /\ row \in 0 .. Rows - 1 /\ Rows \in Nat
      /\ call.rows[call.order[e - 1]] \in 0 .. Rows - 1
  BY <1>1, Planned DEF First, row
<1>3. First <= row
  <2>1. CASE k = call.begin
    BY <1>2, <2>1 DEF First, row
  <2>2. CASE call.begin < k
    BY <1>1, <2>2, Planned DEF First, row
  <2> QED BY <1>1, <2>1, <2>2
<1>4. row <= call.rows[call.order[e - 1]]
  <2>1. CASE k = e - 1
    BY <1>2, <2>1 DEF row
  <2>2. CASE k < e - 1
    BY <1>1, <2>2, Planned DEF row
  <2> QED BY <1>1, <2>1, <2>2
<1>5. n \in Nat /\ d \in 0 .. n - 1
  <2> DEFINE last == call.rows[call.order[e - 1]]
  <2>1. n = last - First + 1
    BY Zenon DEF n, Length
  <2>2. last \in 0 .. Rows - 1 /\ row <= last
    BY <1>2, <1>4
  <2> HIDE DEF last
  <2>3. n \in Int /\ d \in Int
    BY <1>2, <2>1, <2>2 DEF d
  <2>4. 0 <= d /\ d <= n - 1
    BY <1>2, <1>3, <2>1, <2>2 DEF d
  <2> QED BY <2>3, <2>4
<1> SUFFICES ASSUME NEW u \in 1 .. Units
             PROVE  raw[d * Units + u] = Unit(Opened, row, u)
  BY DEF Decoded, Content, row, d
<1>6. d * Units + u \in 1 .. n * Units
  BY <1>1, <1>5, Within
<1>7. Len(raw) = n * Units
  BY Zenon DEF n, Filled
<1>8. d * Units \in Int
  BY <1>1, <1>5
<1> DEFINE at == d * Units + (u - 1)
<1> HIDE DEF at
<1>9. at \in Int /\ d * Units + u - 1 = at
  BY <1>1, <1>8 DEF at
<1>10. at \div Units = d /\ at % Units = u - 1
  <2>1. d \in Nat
    BY <1>5
  <2> QED BY <1>1, <1>9, <2>1, DivMod DEF at
<1>11. raw[d * Units + u] = Unit(Opened, First + (at \div Units), (at % Units) + 1)
  <2> DEFINE j == d * Units + u
  <2> HIDE DEF j
  <2>1. j \in 1 .. Len(raw) /\ j - 1 = at
    BY <1>1, <1>6, <1>7, <1>8, <1>9 DEF j
  <2>2. raw[j] = Unit(Opened, First + ((j - 1) \div Units), ((j - 1) % Units) + 1)
    BY <2>1, Zenon DEF RowByRow
  <2> QED BY <2>1, <2>2, Zenon DEF j
<1>12. First + d = row /\ (u - 1) + 1 = u
  BY <1>2 DEF d
<1> QED
  BY <1>10, <1>11, <1>12

LEMMA IdleOff == \A status : Idle(status).on = FALSE
BY DEF Idle

LEMMA InitRInv == reader_open => RInv
<1> SUFFICES ASSUME reader_open PROVE RInv
  OBVIOUS
<1>1. ~call.on /\ call.on \in BOOLEAN /\ version \in Nat \ {0}
  BY DEF reader_open, Idle, Opened
<1>2. LeaseServesItsRows
  BY DEF reader_open, LeaseServesItsRows
<1> QED BY <1>1, <1>2 DEF RInv, Shape, Served, Staged

(* A rewrite of the file leaves the values alone.                          *)
LEMMA ModifyKeeps == RInv /\ Modify => RInv'
<1> SUFFICES ASSUME RInv, Modify PROVE RInv'
  OBVIOUS
<1>1. UNCHANGED <<ready, generation, values, call, granted>>
  BY DEF Modify
<1>2. version' \in Nat \ {0} /\ ~unchanged'
  BY DEF Modify, RInv, Shape, unchanged, Opened
<1>3. Shape'
  BY <1>1, <1>2 DEF RInv, Shape
<1>4. Served' /\ Staged'
  BY <1>2 DEF Served, Staged
<1>5. LeaseServesItsRows'
  BY <1>1 DEF RInv, LeaseServesItsRows, Current
<1> QED BY <1>3, <1>4, <1>5 DEF RInv

(* A new request ends the previous batch before it looks at its own rows.  *)
LEMMA BeginKeeps ==
  ASSUME ReaderAssumption, RInv, NEW rows \in Seq(0 .. Rows), Begin(rows)
  PROVE  RInv'
<1>1. ~ready' /\ version' = version
  BY DEF Begin, Invalidate
<1>2. LeaseServesItsRows'
  BY <1>1 DEF LeaseServesItsRows, Current
<1>3. version' \in Nat \ {0}
  BY <1>1 DEF RInv, Shape
<1>4. CASE Refused(rows) # "ok"
  <2>1. call' = Idle(Refused(rows))
    BY <1>4, Zenon DEF Begin
  <2>2. call'.on = FALSE
    BY <2>1, IdleOff, Zenon
  <2> QED BY <1>2, <1>3, <2>2 DEF RInv, Shape, Served, Staged
<1>5. CASE Refused(rows) = "ok"
  <2>1. PICK order \in Orders(rows) :
          call' = [on |-> TRUE, rows |-> rows, order |-> order, begin |-> 1, raw |-> <<>>]
    BY <1>5 DEF Begin
  <2>2. Len(rows) \in Nat /\ Len(rows) <= Slots /\ \A i \in 1 .. Len(rows) : rows[i] < Rows
    BY <1>5 DEF Refused, ReaderAssumption
  <2>3. rows \in Seq(0 .. Rows - 1)
    <3>1. \A i \in 1 .. Len(rows) : rows[i] \in 0 .. Rows - 1
      BY <2>2 DEF ReaderAssumption
    <3>2. rows \in [1 .. Len(rows) -> 0 .. Rows]
      BY LenProperties
    <3>3. rows \in [1 .. Len(rows) -> 0 .. Rows - 1]
      BY <3>1, <3>2
    <3> QED BY <2>2, <3>3, SeqDef
  <2>4. /\ call'.on /\ call'.rows = rows /\ call'.order = order
        /\ call'.begin = 1 /\ call'.raw = <<>>
    BY <2>1
  <2>5. Shape'
    <3>1. call'.raw \in Seq(Cell) /\ call'.begin \in 1 .. Len(rows) + 1
      BY <2>2, <2>4
    <3> QED BY <1>1, <1>3, <2>1, <2>2, <2>3, <2>4, <3>1 DEF Shape
  <2>6. Served' /\ Staged'
    BY <2>4 DEF Served, Staged, RowByRow
  <2> QED BY <1>2, <2>5, <2>6 DEF RInv
<1> QED BY <1>4, <1>5

(* A failed pread ends the call without a batch.                           *)
LEMMA FaultKeeps ==
  ASSUME RInv, Fault
  PROVE  RInv'
<1>1. ~call'.on /\ call'.on \in BOOLEAN /\ UNCHANGED <<version, ready, generation, values, granted>>
  BY DEF Fault, Idle
<1>2. LeaseServesItsRows'
  BY <1>1 DEF RInv, LeaseServesItsRows, Current
<1> QED BY <1>1, <1>2 DEF RInv, Shape, Served, Staged

(* The second look at the file lets only a whole batch out.                *)
LEMMA FinishKeeps ==
  ASSUME ReaderAssumption, RInv, Finish
  PROVE  RInv'
<1>1. call'.on = FALSE /\ UNCHANGED <<version, generation, values>>
  <2>1. call' = Idle("ok") \/ call' = Idle("stale")
    BY Zenon DEF Finish
  <2>2. UNCHANGED <<version, generation, values>>
    BY DEF Finish
  <2> QED BY <2>1, <2>2, IdleOff, Zenon
<1>2. Shape' /\ Served' /\ Staged'
  BY <1>1 DEF RInv, Shape, Served, Staged
<1>3. CASE ~Verified
  BY <1>1, <1>2, <1>3 DEF Finish, RInv, LeaseServesItsRows, Current
<1>4. CASE Verified
  <2>1. granted'[generation] = call.rows /\ generation' = generation
    BY <1>4 DEF Finish
  <2>2. SUFFICES ASSUME NEW i \in DOMAIN call.rows
                 PROVE  call.rows[i] \notin BadRows /\ values[i] = Content(call.rows[i])
    BY <1>1, <1>2, <2>1 DEF RInv, LeaseServesItsRows, Current
  <2>3. call.on /\ i \in 1 .. Len(call.rows) /\ call.rows # <<>>
    BY SMTT(30) DEF Finish, RInv, Shape
  <2>4. unchanged
    BY <1>4, <2>3 DEF Verified
  <2>5. PICK k \in 1 .. Len(call.rows) : call.order[k] = i
    BY <2>3, Planned DEF RInv
  <2>6. k \in 1 .. call.begin - 1
    <3>1. Len(call.rows) \in Nat /\ call.begin \in 1 .. Len(call.rows) + 1
      BY <2>3 DEF RInv, Shape
    <3> QED BY <3>1 DEF Finish, Remaining
  <2> QED BY <2>3, <2>4, <2>5, <2>6 DEF RInv, Served, ServedAt
<1> QED BY <1>3, <1>4

(* Part of an interval adds to the bytes; all of it serves its requests.   *)
LEMMA TransferKeeps ==
  ASSUME ReaderAssumption, RInv, Transfer
  PROVE  RInv'
<1>1. /\ call.on /\ Remaining /\ Shape /\ Staged /\ ~ready
      /\ UNCHANGED <<version, ready, generation, granted>>
  BY DEF Transfer, RInv, Shape
<1>2. LeaseServesItsRows'
  BY <1>1 DEF LeaseServesItsRows, Current
<1>3. unchanged' = unchanged /\ version' \in Nat \ {0}
  BY <1>1 DEF unchanged, Shape
<1>4. PICK e \in call.begin + 1 .. Len(call.rows) + 1 :
        \E n \in 1 .. Length(e) * Units - Len(call.raw) :
          LET raw == Read(call.raw, n)
          IN  IF Len(raw) < Length(e) * Units
                THEN call' = [call EXCEPT !.raw = raw] /\ UNCHANGED values
                ELSE /\ values' = Scatter(raw, e)
                     /\ \/ Poisoned(e) /\ call' = Idle("nonfinite")
                        \/ Finite(e) /\ call' = [call EXCEPT !.begin = e, !.raw = <<>>]
  BY Zenon DEF Transfer
<1>5. /\ Len(call.rows) \in Nat /\ call.begin \in 1 .. Len(call.rows) /\ Len(call.rows) <= Slots
      /\ Len(call.raw) \in Nat /\ Units \in Nat \ {0}
  BY <1>1, SMTT(30) DEF Shape, Remaining, ReaderAssumption
<1>6. First \in Int /\ Length(e) * Units \in Int
  <2>0. e - 1 \in 1 .. Len(call.rows)
    BY <1>5
  <2>1. First \in 0 .. Rows - 1 /\ call.rows[call.order[e - 1]] \in 0 .. Rows - 1 /\ Rows \in Nat
    BY <1>1, <1>5, <2>0, Planned DEF First
  <2>2. Length(e) \in Int
    BY <2>1 DEF Length
  <2> QED BY <1>5, <2>1, <2>2
<1>7. PICK n \in 1 .. Length(e) * Units - Len(call.raw) :
          LET raw == Read(call.raw, n)
          IN  IF Len(raw) < Length(e) * Units
                THEN call' = [call EXCEPT !.raw = raw] /\ UNCHANGED values
                ELSE /\ values' = Scatter(raw, e)
                     /\ \/ Poisoned(e) /\ call' = Idle("nonfinite")
                        \/ Finite(e) /\ call' = [call EXCEPT !.begin = e, !.raw = <<>>]
  BY <1>4, Zenon
<1> DEFINE raw == Read(call.raw, n)
           full == Length(e) * Units
<1>8. n \in Nat /\ n <= full - Len(call.raw)
  <2> HIDE DEF full
  <2>1. full \in Int
    BY <1>6 DEF full
  <2>2. n \in 1 .. full - Len(call.raw)
    BY DEF full
  <2> QED BY <1>5, <2>1, <2>2
<1>9. raw \in Seq(Cell) /\ Len(raw) = Len(call.raw) + n /\ (unchanged => RowByRow(raw))
  BY <1>1, <1>6, <1>8, ReadStages
<1>10. /\ Len(raw) < full => call' = [call EXCEPT !.raw = raw] /\ UNCHANGED values
       /\ ~(Len(raw) < full) =>
            /\ values' = Scatter(raw, e)
            /\ \/ Poisoned(e) /\ call' = Idle("nonfinite")
               \/ Finite(e) /\ call' = [call EXCEPT !.begin = e, !.raw = <<>>]
  BY <1>7, Zenon
<1>11. full \in Int
  BY <1>6
<1> HIDE DEF raw, full
<1>12. CASE Len(raw) < full
  <2>1. /\ call'.on = TRUE /\ call'.rows = call.rows /\ call'.order = call.order
        /\ call'.begin = call.begin /\ call'.raw = raw /\ values' = values
        /\ call' = [on |-> TRUE, rows |-> call.rows, order |-> call.order,
                    begin |-> call.begin, raw |-> raw]
    BY <1>1, <1>10, <1>12 DEF Shape
  <2>2. Shape'
    BY <1>1, <1>3, <1>9, <2>1 DEF Shape
  <2>3. Served'
    BY <1>1, <1>3, <2>1 DEF RInv, Served, ServedAt
  <2>4. Staged'
    <3>1. First' = First
      BY <2>1 DEF First
    <3> QED BY <1>1, <1>3, <1>9, <2>1, <3>1 DEF Staged, RowByRow
  <2> QED BY <1>2, <2>2, <2>3, <2>4 DEF RInv
<1>13. CASE ~(Len(raw) < full) /\ call' = Idle("nonfinite")
  <2>1. call'.on = FALSE
    BY <1>13, IdleOff, Zenon
  <2> QED BY <1>2, <1>3, <2>1 DEF RInv, Shape, Served, Staged
<1>14. CASE /\ ~(Len(raw) < full) /\ Finite(e)
            /\ call' = [call EXCEPT !.begin = e, !.raw = <<>>]
  <2>1. /\ call'.on = TRUE /\ call'.rows = call.rows /\ call'.order = call.order
        /\ call'.begin = e /\ call'.raw = <<>>
        /\ call' = [on |-> TRUE, rows |-> call.rows, order |-> call.order,
                    begin |-> e, raw |-> <<>>]
    BY <1>1, <1>14 DEF Shape
  <2>2. values' = Scatter(raw, e)
    BY <1>10, <1>14
  <2>3. Shape'
    <3>1. e \in 1 .. Len(call.rows) + 1 /\ <<>> \in Seq(Cell)
      BY <1>5
    <3> QED BY <1>1, <1>3, <2>1, <3>1 DEF Shape
  <2>4. Staged'
    BY <2>1 DEF Staged, RowByRow
  <2>5. Served'
    <3> SUFFICES ASSUME unchanged, NEW k \in 1 .. e - 1 PROVE ServedAt(k)'
      BY <1>3, <2>1 DEF Served
    <3> DEFINE i == call.order[k]
    <3>0. k \in 1 .. Len(call.rows)
      BY <1>5
    <3>1. i \in 1 .. Len(call.rows) /\ i \in 1 .. Slots
      <4>1. i \in 1 .. Len(call.rows)
        BY <1>1, <3>0, Planned
      <4>2. Slots \in Nat
        BY DEF ReaderAssumption
      <4> QED BY <1>5, <4>1, <4>2
    <3>2. Len(raw) = full
      <4>1. /\ n \in Nat /\ n <= full - Len(call.raw) /\ Len(call.raw) \in Nat
            /\ Len(raw) = Len(call.raw) + n /\ ~(Len(raw) < full)
        BY <1>5, <1>8, <1>9, <1>14, Zenon
      <4> QED BY <1>11, <4>1
    <3>3. Filled(raw, e)
      BY <3>2, Zenon DEF Filled, full
    <3>4. \A j \in call.begin .. e - 1 :
            Decoded(raw, call.rows[call.order[j]]) = Content(call.rows[call.order[j]])
      BY <1>1, <1>9, <3>3, ScatterServes
    <3>5. values'[i] = IF \E j \in call.begin .. e - 1 : call.order[j] = i
                         THEN Decoded(raw, call.rows[i]) ELSE values[i]
      BY <2>2, <3>1 DEF Scatter
    <3>6. ServedAt(k) \/ k \in call.begin .. e - 1
      BY <1>1, <1>5 DEF RInv, Served
    <3>7. call.rows[i] \notin BadRows
      BY <1>14, <3>6 DEF Finite, ServedAt
    <3>8. values'[i] = Content(call.rows[i])
      BY <3>4, <3>5, <3>6 DEF ServedAt
    <3> QED BY <2>1, <3>7, <3>8 DEF ServedAt
  <2> QED BY <1>2, <2>3, <2>4, <2>5 DEF RInv
<1> QED BY <1>10, <1>12, <1>13, <1>14

(***************************************************************************)
(* The rows a lease gives access to are those of its batch, whole, finite  *)
(* and of the file that was opened, for every table and batch.             *)
(***************************************************************************)
THEOREM LeaseIsItsBatch == ReaderSpec => []LeaseServesItsRows
<1>1. reader_open => RInv
  BY InitRInv
<1>2. RInv /\ [ReaderNext]_rvars => RInv'
  <2> SUFFICES ASSUME RInv, [ReaderNext]_rvars PROVE RInv'
    OBVIOUS
  <2> USE ReaderAssumption
  <2>1. CASE Modify
    BY <2>1, ModifyKeeps
  <2>2. CASE Transfer
    BY <2>2, TransferKeeps
  <2>3. CASE Fault
    BY <2>3, FaultKeeps
  <2>4. CASE Finish
    BY <2>4, FinishKeeps
  <2>5. CASE \E n \in 0 .. Slots + 1 : \E rows \in [1 .. n -> 0 .. Rows] : Begin(rows)
    <3>1. PICK n \in 0 .. Slots + 1 : \E rows \in [1 .. n -> 0 .. Rows] : Begin(rows)
      BY <2>5
    <3>2. PICK rows \in [1 .. n -> 0 .. Rows] : Begin(rows)
      BY <3>1
    <3>3. n \in Nat
      BY DEF ReaderAssumption
    <3>4. rows \in Seq(0 .. Rows)
      BY <3>3, SeqDef
    <3> QED BY <3>2, <3>4, BeginKeeps
  <2>6. CASE UNCHANGED rvars
    BY <2>6 DEF rvars, RInv, Shape, Served, ServedAt, Staged, RowByRow, First, unchanged,
                LeaseServesItsRows, Current
  <2> QED BY <2>1, <2>2, <2>3, <2>4, <2>5, <2>6 DEF ReaderNext, Advance
<1>3. RInv => LeaseServesItsRows
  BY DEF RInv
<1> QED BY <1>1, <1>2, <1>3, PTL DEF ReaderSpec

-----------------------------------------------------------------------------
(* The hash.                                                               *)

Ids == 0 .. Config.vocab - 1
Histories == [1 .. History(Config) -> Ids]

\* Nothing out of order is found only if everything is in order.
LEMMA FirstStatus ==
  ASSUME NEW n \in Nat, NEW status, DOMAIN status = 1 .. n, First_status(status) = "ok"
  PROVE  \A i \in 1 .. n : status[i] = "ok"
<1> DEFINE bad == {i \in DOMAIN status : status[i] # "ok"}
<1>1. SUFFICES ASSUME bad # {} PROVE FALSE
  OBVIOUS
<1>2. bad \subseteq Nat /\ \E x : x \in bad
  BY <1>1
<1>3. PICK i \in bad : \A j \in bad : ~(<<j, i>> \in OpToRel(<, Nat))
  <2> HIDE DEF bad
  <2> QED
    BY <1>2, WFMin, NatLessThanWellFounded
<1>4. \A j \in bad : i <= j
  <2> TAKE j \in bad
  <2>1. i \in Nat /\ j \in Nat /\ ~(j < i)
    <3> HIDE DEF bad
    <3> QED
      BY <1>2, <1>3 DEF OpToRel
  <2> QED
    BY <2>1
<1> DEFINE least == CHOOSE k \in bad : \A j \in bad : k <= j
<1>5. least \in bad
  <2> HIDE DEF bad
  <2> QED
    BY <1>4
<1>6. status[least] # "ok"
  <2> HIDE DEF least
  <2> QED
    BY <1>5
<1>7. First_status(status) = status[least]
  BY <1>1 DEF First_status
<1> QED
  BY <1>6, <1>7

\* What a configuration the hash accepts is.
LEMMA Accepted ==
  /\ Config.vocab \in Nat \ {0} /\ Config.eos \in Ids
  /\ Config.order \in Nat /\ Config.order >= 2 /\ Config.per_order \in Nat \ {0}
  /\ History(Config) \in Nat /\ History(Config) = Config.order - 1
  /\ Heads \in Nat /\ Heads = (Config.order - 1) * Config.per_order
  /\ Len(Config.multipliers) = Config.order
  /\ \A j \in 1 .. Config.order :
       Config.multipliers[j] \in Nat /\ multiplier_status(Config, j) = "ok"
  /\ \A h \in 1 .. Heads :
       /\ Config.sizes[h] \in Nat /\ Config.offsets[h] \in Nat
       /\ head_status(Config, h) = "ok"
<1> DEFINE c == Config
<1>1. /\ c.vocab \in Nat /\ c.eos \in Nat /\ c.row_count \in Nat /\ c.order \in Nat /\ c.per_order \in Nat
      /\ c.multipliers \in Seq(Nat) /\ c.sizes \in Seq(Nat) /\ c.offsets \in Seq(Nat)
      /\ Len(c.offsets) = Len(c.sizes) /\ config_status(c) = "ok"
  BY StoreAssumption
<1> DEFINE mults == [j \in 1 .. c.order |-> multiplier_status(c, j)]
           heads == [h \in 1 .. Len(c.sizes) |-> head_status(c, h)]
<1> HIDE DEF c
<1>2. /\ ~(c.vocab \notin 1 .. Int32Max + 1 \/ c.eos >= c.vocab \/ c.row_count = 0)
      /\ ~(\/ c.order < 2 \/ c.per_order = 0
           \/ Len(c.multipliers) # c.order \/ Len(c.sizes) # (c.order - 1) * c.per_order)
      /\ First_status(mults) = "ok" /\ First_status(heads) = "ok"
  BY <1>1 DEF config_status
<1>3. Len(c.sizes) \in Nat /\ c.order \in Nat
  BY <1>1, LenProperties
<1>4. \A j \in 1 .. c.order : multiplier_status(c, j) = "ok"
  <2>1. \A j \in 1 .. c.order : mults[j] = "ok"
    <3>1. DOMAIN mults = 1 .. c.order
      OBVIOUS
    <3> HIDE DEF mults
    <3> QED
      BY <1>2, <1>3, <3>1, FirstStatus
  <2> QED
    BY <2>1
<1>5. \A h \in 1 .. Len(c.sizes) : head_status(c, h) = "ok"
  <2>1. \A h \in 1 .. Len(c.sizes) : heads[h] = "ok"
    <3>1. DOMAIN heads = 1 .. Len(c.sizes)
      OBVIOUS
    <3> HIDE DEF heads
    <3> QED
      BY <1>2, <1>3, <3>1, FirstStatus
  <2> QED
    BY <2>1
<1>6. \A j \in 1 .. c.order : c.multipliers[j] \in Nat
  BY <1>1, <1>2, ElementOfSeq
<1>7. \A h \in 1 .. Len(c.sizes) : c.sizes[h] \in Nat /\ c.offsets[h] \in Nat
  BY <1>1, ElementOfSeq
<1>8. c.vocab \in Nat \ {0} /\ c.eos < c.vocab /\ c.order >= 2 /\ c.order - 1 \in Nat
      /\ c.per_order \in Nat \ {0}
  BY <1>1, <1>2, SMTT(30)
<1>9. /\ c.vocab \in Nat \ {0} /\ c.eos \in 0 .. c.vocab - 1
      /\ c.order \in Nat /\ c.order >= 2 /\ c.per_order \in Nat \ {0}
      /\ History(c) \in Nat /\ History(c) = c.order - 1
      /\ Len(c.sizes) \in Nat /\ Len(c.sizes) = (c.order - 1) * c.per_order
      /\ Len(c.multipliers) = c.order
  <2>1. c.eos \in 0 .. c.vocab - 1
    BY <1>1, <1>8
  <2> QED
    BY <1>1, <1>2, <1>3, <1>8, <2>1 DEF History
<1> HIDE DEF mults, heads
<1>10. /\ \A j \in 1 .. c.order : c.multipliers[j] \in Nat /\ multiplier_status(c, j) = "ok"
       /\ \A h \in 1 .. Len(c.sizes) :
            c.sizes[h] \in Nat /\ c.offsets[h] \in Nat /\ head_status(c, h) = "ok"
  BY <1>4, <1>5, <1>6, <1>7
<1> QED
  BY <1>9, <1>10 DEF c, Ids, Heads

\* No product of a token and a multiplier overflows.
LEMMA ProductFits ==
  ASSUME NEW t \in Ids, NEW j \in 1 .. Config.order
  PROVE  t * Config.multipliers[j] \in 0 .. Int64Max
<1> DEFINE m == Config.multipliers[j]
           v == Config.vocab - 1
<1>1. /\ m \in Nat /\ v \in Nat /\ t \in 0 .. v /\ Int64Max \in Nat
      /\ m <= Int64Max /\ (Config.vocab > 1 => m <= Int64Max \div v)
  <2>1. m \in Nat /\ multiplier_status(Config, j) = "ok" /\ Config.vocab \in Nat \ {0}
    BY Accepted
  <2>2. Int64Max \in Nat
    BY StoreAssumption
  <2>3. ~(m > Int64Max) /\ (Config.vocab > 1 => ~(m > Int64Max \div v))
    BY <2>1 DEF multiplier_status
  <2>4. v \in Nat /\ t \in 0 .. v
    BY <2>1 DEF Ids
  <2>5. Config.vocab > 1 => Int64Max \div v \in Int
    BY <2>1, <2>2, <2>4
  <2> DEFINE q == Int64Max \div v
  <2>6. m <= Int64Max
    <3>1. ~(m > Int64Max)
      BY <2>3
    <3> HIDE DEF m, v
    <3> QED
      BY <2>1, <2>2, <3>1
  <2>7. Config.vocab > 1 => m <= q
    <3>1. Config.vocab > 1 => q \in Int /\ ~(m > q)
      BY <2>3, <2>5
    <3> HIDE DEF m, v, q
    <3> QED
      BY <2>1, <3>1
  <2> HIDE DEF m, v
  <2> QED
    BY <2>1, <2>2, <2>4, <2>6, <2>7
<1>2. CASE v = 0
  <2>1. t = 0
    BY <1>1, <1>2
  <2> HIDE DEF m, v
  <2> QED
    BY <1>1, <2>1 DEF m
<1>3. CASE v > 0
  <2>1. m <= Int64Max \div v
    BY <1>1, <1>3, Accepted
  <2> HIDE DEF m, v
  <2>2. v * (Int64Max \div v) <= Int64Max /\ Int64Max \div v \in Int
    BY <1>1, <1>3
  <2>3. v * m <= v * (Int64Max \div v)
    BY <1>1, <2>1, <2>2
  <2>4. t * m <= v * m /\ t * m >= 0 /\ t * m \in Int /\ v * m \in Int
    BY <1>1
  <2> QED
    BY <1>1, <2>2, <2>3, <2>4 DEF m
<1> QED
  BY <1>1, <1>2, <1>3

\* What is hashed are tokens.
LEMMA SeenType ==
  ASSUME NEW prev \in Histories, NEW tokens \in Seq(Ids), NEW t \in 1 .. Len(tokens)
  PROVE  Seen(Config, prev, tokens, t) \in [0 .. History(Config) -> Ids]
<1>1. History(Config) \in Nat /\ Config.eos \in Ids /\ Len(tokens) \in Nat
  BY Accepted, LenProperties
<1>2. ASSUME NEW j \in 0 .. History(Config) PROVE Before(prev, tokens, t, j) \in Ids
  <2>1. CASE t > j
    <3>1. t - j \in 1 .. Len(tokens)
      BY <1>1, <2>1
    <3> QED
      BY <2>1, <3>1, ElementOfSeq DEF Before
  <2>2. CASE ~(t > j)
    <3>1. j - t + 1 \in 1 .. History(Config)
      BY <1>1, <2>2
    <3> QED
      BY <2>2, <3>1 DEF Before, Histories
  <2> QED
    BY <2>1, <2>2
<1>3. \A j \in 0 .. History(Config) : Hashed(Config, prev, tokens, t, j) \in Ids
  BY <1>1, <1>2 DEF Hashed
<1> QED
  BY <1>3 DEF Seen

\* The mixture of some tokens is a number the code can hold.
LEMMA MixedType ==
  ASSUME NEW seen \in [0 .. History(Config) -> Ids]
  PROVE  \A j \in 0 .. History(Config) : Mixed(Config, seen)[j] \in 0 .. Int64Max
<1> DEFINE n == History(Config)
           W == 0 .. Int64Max
           term(j) == seen[j] * Config.multipliers[j + 1]
           step == [p \in W \X (1 .. n) |-> Mix(p[1], term(p[2]))]
           Mixes(m) == m = [j \in 0 .. n |-> IF j = 0 THEN seen[0] * Config.multipliers[1]
                                             ELSE Mix(m[j - 1], seen[j] * Config.multipliers[j + 1])]
           mixed == CHOOSE m : Mixes(m)
<1>1. n \in Nat /\ \A j \in 0 .. n : term(j) \in W
  <2>1. n \in Nat /\ \A j \in 0 .. n : j + 1 \in 1 .. Config.order
    BY Accepted
  <2>2. \A j \in 0 .. n : seen[j] \in Ids
    OBVIOUS
  <2> QED
    BY <2>1, <2>2, ProductFits
<1>2. \A a, b \in W : Mix(a, b) \in W
  BY StoreAssumption
<1>b. term(0) = seen[0] * Config.multipliers[1] /\ term(0) \in W
  <2>1. 0 \in 0 .. n
    BY <1>1
  <2> QED
    BY <1>1, <2>1
<1> HIDE DEF W, n
<1>3. \E m : Mixes(m)
  <2>1. \A x \in W, i \in 1 .. n : step[<<x, i>>] = Mix(x, term(i)) /\ step[<<x, i>>] \in W
    <3>1. \A i \in 1 .. n : i \in 0 .. n
      BY <1>1
    <3> HIDE DEF term
    <3> QED
      BY <1>1, <1>2, <3>1
  <2> DEFINE base == term(0)
  <2>2. \E f : Recurs(f, n, W, base, step)
    <3>1. base \in W /\ n \in Nat /\ \A x \in W, i \in 1 .. n : step[<<x, i>>] \in W
      BY <1>1, <1>b, <2>1
    <3> HIDE DEF base, step
    <3> QED
      BY <3>1, Recursion
  <2>3. PICK f : Recurs(f, n, W, base, step)
    BY <2>2
  <2>4. f \in [0 .. n -> W] /\ f[0] = term(0) /\ \A i \in 1 .. n : f[i] = Mix(f[i - 1], term(i))
    <3>1. \A i \in 1 .. n : i - 1 \in 0 .. n
      BY <1>1
    <3> HIDE DEF term, step
    <3> QED
      BY <2>1, <2>3, <3>1 DEF Recurs, base
  <2>5. \A j \in 0 .. n : f[j] = IF j = 0 THEN seen[0] * Config.multipliers[1]
                                 ELSE Mix(f[j - 1], seen[j] * Config.multipliers[j + 1])
    <3>1. \A i \in 0 .. n : i # 0 => i \in 1 .. n
      BY <1>1
    <3> QED
      BY <1>b, <2>4, <3>1
  <2>6. Mixes(f)
    <3>1. f = [j \in 0 .. n |-> f[j]]
      BY <2>4
    <3> QED
      BY <2>5, <3>1
  <2> QED
    BY <2>6
<1>4. Mixes(mixed)
  <2> HIDE DEF Mixes
  <2> QED
    BY <1>3
<1>5. Mixed(Config, seen) = mixed
  BY DEF Mixed, n
<1>6. \A j \in 0 .. n : mixed[j] \in W
  <2> HIDE DEF mixed
  <2>1. mixed[0] \in W
    BY <1>1, <1>4, <1>b
  <2>2. ASSUME NEW j \in 1 .. n, mixed[j - 1] \in W PROVE mixed[j] \in W
    <3>1. j \in 0 .. n /\ j # 0 /\ term(j) \in W
      BY <1>1
    <3>2. mixed[j] = Mix(mixed[j - 1], term(j))
      BY <1>4, <3>1
    <3> HIDE DEF term
    <3> QED
      BY <1>2, <2>2, <3>1, <3>2
  <2> HIDE DEF Mixes
  <2> QED
    BY <1>1, <2>1, <2>2, Throughout
<1> QED
  BY <1>5, <1>6 DEF n, W

\* Division of a number below a product.
LEMMA Below ==
  ASSUME NEW U \in Nat \ {0}, NEW n \in Nat, NEW a \in 0 .. (n * U) - 1
  PROVE  a \div U \in 0 .. n - 1 /\ a % U \in 0 .. U - 1
<1> DEFINE q == a \div U
           r == a % U
           b == n * U
<1>1. b \in Nat /\ a \in Nat /\ a < b
  BY SMT
<1>2. q \in Int /\ r \in 0 .. U - 1 /\ a = U * q + r
  BY <1>1, SMT
<1>3. q >= 0
  <2> SUFFICES ASSUME q < 0 PROVE FALSE
    BY <1>2
  <2> HIDE DEF q, r, b
  <2>1. q <= -1 /\ U * q <= U * (-1)
    BY <1>2, SMT
  <2> QED
    BY <1>1, <1>2, <2>1, SMT
<1>4. q < n
  <2> SUFFICES ASSUME ~(q < n) PROVE FALSE
    OBVIOUS
  <2>1. U * n = b
    BY SMT
  <2> HIDE DEF q, r, b
  <2>2. q >= n /\ U * q >= U * n
    BY <1>2, SMT
  <2> QED
    BY <1>1, <1>2, <2>1, <2>2, SMT
<1> HIDE DEF q, r
<1> QED
  BY <1>2, <1>3, <1>4 DEF q, r

\* There are heads.
LEMMA HeadsPositive == Heads \in Nat \ {0}
<1>1. /\ Heads = (Config.order - 1) * Config.per_order /\ Config.order - 1 \in Nat \ {0}
      /\ Config.per_order \in Nat \ {0}
  BY Accepted
<1> DEFINE a == Config.order - 1
           b == Config.per_order
<1> HIDE DEF a, b
<1>2. a \in Nat \ {0} /\ b \in Nat \ {0} => a * b \in Nat \ {0}
  <2> SUFFICES ASSUME a \in Nat \ {0}, b \in Nat \ {0} PROVE a * b \in Nat \ {0}
    OBVIOUS
  <2>1. a * b >= 1 * b /\ a * b \in Int
    BY SMT
  <2> QED
    BY <2>1
<1> QED
  BY <1>1, <1>2 DEF a, b

\* Every row the hash asks for is one of the table.
LEMMA IdType ==
  ASSUME NEW prev \in Histories, NEW tokens \in Seq(Ids), NEW t \in 1 .. Len(tokens),
         NEW h \in 1 .. Heads
  PROVE  Id(Config, prev, tokens, t, h) \in 0 .. Config.row_count - 1
<1> DEFINE seen == Seen(Config, prev, tokens, t)
           j == ((h - 1) \div Config.per_order) + 1
           x == Mixed(Config, seen)[j]
           end == IF h = 1 THEN 0 ELSE Config.offsets[h - 1] + Config.sizes[h - 1]
           size == Config.sizes[h]
<1>1. j \in 0 .. History(Config)
  <2>1. /\ Config.per_order \in Nat \ {0} /\ Config.order - 1 \in Nat
        /\ Heads = (Config.order - 1) * Config.per_order
        /\ History(Config) = Config.order - 1
    BY Accepted
  <2>2. h - 1 \in 0 .. ((Config.order - 1) * Config.per_order) - 1
    BY <2>1, HeadsPositive
  <2>3. (h - 1) \div Config.per_order \in 0 .. (Config.order - 1) - 1
    <3> DEFINE n == Config.order - 1
               U == Config.per_order
               a == h - 1
    <3>1. n \in Nat /\ U \in Nat \ {0} /\ a \in 0 .. (n * U) - 1
      BY <2>1, <2>2
    <3> HIDE DEF n, U, a
    <3>2. a \div U \in 0 .. n - 1
      BY <3>1, Below
    <3> QED
      BY <3>2 DEF n, U, a
  <2> QED
    BY <2>1, <2>3
<1>2. x \in 0 .. Int64Max
  <2>1. seen \in [0 .. History(Config) -> Ids]
    BY SeenType
  <2> HIDE DEF seen, j
  <2> QED
    BY <1>1, <2>1, MixedType
<1>3. size \in Nat /\ Config.offsets[h] \in Nat /\ head_status(Config, h) = "ok"
  BY Accepted
<1>4. /\ Config.offsets[h] = end /\ size # 0 /\ ~(end + size > Config.row_count)
  BY <1>3 DEF head_status
<1>5. x % size \in 0 .. size - 1
  <2>1. Int64Max \in Nat
    BY StoreAssumption
  <2>2. x \in Nat /\ size \in Nat \ {0}
    <3> HIDE DEF x, size
    <3> QED
      BY <1>2, <1>3, <1>4, <2>1
  <2> HIDE DEF x, size
  <2> QED
    BY <2>2
<1>6. Id(Config, prev, tokens, t, h) = Config.offsets[h] + (x % size)
  BY DEF Id
<1>7. Config.row_count \in Nat
  BY StoreAssumption
<1> HIDE DEF x, size, end
<1> QED
  BY <1>3, <1>4, <1>5, <1>6, <1>7

\* The rows of a chunk, token after token.
LEMMA IdsOfChunk ==
  ASSUME NEW prev \in Histories, NEW tokens \in Seq(Ids)
  PROVE  LET ids == ngram_ids(Config, prev, tokens) IN
         /\ ids \in Seq(0 .. Rows - 1) /\ Len(ids) = Len(tokens) * Heads
         /\ \A t \in 1 .. Len(tokens), h \in 1 .. Heads :
              /\ ((t - 1) * Heads) + h \in 1 .. Len(ids)
              /\ ids[((t - 1) * Heads) + h] = Id(Config, prev, tokens, t, h)
<1> DEFINE ids == ngram_ids(Config, prev, tokens)
           n == Len(tokens)
           total == n * Heads
<1>1. n \in Nat /\ Heads \in Nat \ {0} /\ total \in Nat
  <2>1. n \in Nat /\ Heads \in Nat \ {0}
    BY HeadsPositive, LenProperties
  <2> HIDE DEF n
  <2> QED
    BY <2>1, SMT
<1>2. ids = [i \in 1 .. total |-> Id(Config, prev, tokens, ((i - 1) \div Heads) + 1, ((i - 1) % Heads) + 1)]
  BY DEF ngram_ids, Heads
<1>3. ASSUME NEW i \in 1 .. total PROVE ids[i] \in 0 .. Rows - 1
  <2>1. i - 1 \in 0 .. (n * Heads) - 1
    <3> HIDE DEF n
    <3> QED
      BY <1>1
  <2>2. (i - 1) \div Heads \in 0 .. n - 1 /\ (i - 1) % Heads \in 0 .. Heads - 1
    <3> DEFINE a == i - 1
    <3> HIDE DEF n, a
    <3>1. a \in 0 .. (n * Heads) - 1 => a \div Heads \in 0 .. n - 1 /\ a % Heads \in 0 .. Heads - 1
      BY <1>1, Below
    <3> QED
      BY <2>1, <3>1 DEF a
  <2> DEFINE t == ((i - 1) \div Heads) + 1
             h == ((i - 1) % Heads) + 1
  <2>3. t \in 1 .. n /\ h \in 1 .. Heads
    BY <1>1, <2>2
  <2>4. ids[i] = Id(Config, prev, tokens, t, h)
    BY <1>2
  <2> HIDE DEF ids, t, h
  <2>5. Id(Config, prev, tokens, t, h) \in 0 .. Config.row_count - 1
    BY <2>3, IdType
  <2> QED
    BY <2>4, <2>5, StoreAssumption
<1>4. ids \in Seq(0 .. Rows - 1) /\ Len(ids) = total
  <2> HIDE DEF total, n
  <2>1. ids = [i \in 1 .. total |-> ids[i]]
    BY <1>2
  <2> DEFINE S == 0 .. Rows - 1
  <2> HIDE DEF ids, S
  <2>2. ids \in [1 .. total -> S]
    BY <1>3, <2>1 DEF S
  <2>3. ids \in Seq(S) /\ Len(ids) = total
    <3> HIDE DEF total
    <3> QED
      BY <1>1, <2>2
  <2> QED
    BY <2>3 DEF S, total, n
<1>5. ASSUME NEW t \in 1 .. n, NEW h \in 1 .. Heads
      PROVE  /\ ((t - 1) * Heads) + h \in 1 .. total
             /\ ids[((t - 1) * Heads) + h] = Id(Config, prev, tokens, t, h)
  <2> DEFINE d == t - 1
             i == (d * Heads) + h
  <2>1. d \in 0 .. n - 1 /\ d \in Nat
    BY <1>1
  <2>2. i \in 1 .. n * Heads
    <3> HIDE DEF n, d
    <3> QED
      BY <1>1, <2>1, Within
  <2>3. (i - 1) \div Heads = d /\ (i - 1) % Heads = h - 1
    <3> DEFINE at == i - 1
    <3>1. at \in Int /\ at = (d * Heads) + (h - 1)
      <4>1. d * Heads \in Int
        BY <1>1, <2>1, SMT
      <4> QED
        BY <1>1, <4>1
    <3> HIDE DEF at, d
    <3>2. at \div Heads = d /\ at % Heads = h - 1
      BY <1>1, <2>1, <3>1, DivMod
    <3> QED
      BY <3>2 DEF at
  <2>4. ids[i] = Id(Config, prev, tokens, ((i - 1) \div Heads) + 1, ((i - 1) % Heads) + 1)
    <3> HIDE DEF ids, i
    <3> QED
      BY <1>2, <2>2
  <2>5. d + 1 = t /\ (h - 1) + 1 = h
    BY <1>1
  <2> HIDE DEF ids
  <2> QED
    BY <2>2, <2>3, <2>4, <2>5
<1> QED
  BY <1>4, <1>5

\* The history after a chunk.
LEMMA NextPrevType ==
  ASSUME NEW prev \in Histories, NEW tokens \in Seq(Ids)
  PROVE  Next_prev(Config, prev, tokens) \in Histories
<1>1. History(Config) \in Nat /\ Len(tokens) \in Nat
  BY Accepted, LenProperties
<1>2. ASSUME NEW j \in 1 .. History(Config), Len(tokens) >= j
      PROVE  tokens[Len(tokens) - j + 1] \in Ids
  <2>1. Len(tokens) - j + 1 \in 1 .. Len(tokens)
    BY <1>1, <1>2
  <2> QED
    BY <2>1, ElementOfSeq
<1>3. ASSUME NEW j \in 1 .. History(Config), ~(Len(tokens) >= j)
      PROVE  prev[j - Len(tokens)] \in Ids
  <2>1. j - Len(tokens) \in 1 .. History(Config)
    BY <1>1, <1>3
  <2> QED
    BY <2>1 DEF Histories
<1> QED
  BY <1>2, <1>3 DEF Next_prev, Histories

\* A chunk after another leaves the history both leave in one.
LEMMA NextPrevConcat ==
  ASSUME NEW prev \in Histories, NEW old \in Seq(Ids), NEW tokens \in Seq(Ids)
  PROVE  Next_prev(Config, Next_prev(Config, prev, old), tokens)
         = Next_prev(Config, prev, old \o tokens)
<1> DEFINE H == History(Config)
           m == Len(old)
           n == Len(tokens)
           both == old \o tokens
           mid == Next_prev(Config, prev, old)
<1>1. H \in Nat /\ m \in Nat /\ n \in Nat
  BY Accepted, LenProperties
<1>2. /\ both \in Seq(Ids) /\ Len(both) = m + n
      /\ \A i \in 1 .. (m + n) : both[i] = IF i <= m THEN old[i] ELSE tokens[i - m]
  BY ConcatProperties
<1>3. \A j \in 1 .. H : mid[j] = IF m >= j THEN old[m - j + 1] ELSE prev[j - m]
  BY DEF Next_prev
<1> HIDE DEF both, mid
<1>4. ASSUME NEW j \in 1 .. H
      PROVE  (IF n >= j THEN tokens[n - j + 1] ELSE mid[j - n])
             = (IF m + n >= j THEN both[m + n - j + 1] ELSE prev[j - (m + n)])
  <2> HIDE DEF m, n, H
  <2>1. CASE n >= j
    <3>1. PICK k \in 1 .. (m + n) :
            k = m + n - j + 1 /\ ~(k <= m) /\ k - m = n - j + 1 /\ m + n >= j
      BY <1>1, <2>1
    <3>2. both[k] = tokens[k - m]
      BY <1>2, <3>1
    <3> QED
      BY <2>1, <3>1, <3>2
  <2>2. CASE ~(n >= j) /\ m + n >= j
    <3>1. /\ m + n - j + 1 \in 1 .. (m + n) /\ m + n - j + 1 <= m
          /\ j - n \in 1 .. H /\ m >= j - n /\ m - (j - n) + 1 = m + n - j + 1
      BY <1>1, <2>2
    <3>2. both[m + n - j + 1] = old[m + n - j + 1]
      BY <1>2, <3>1
    <3>3. mid[j - n] = old[m + n - j + 1]
      BY <1>3, <3>1
    <3> QED
      BY <2>2, <3>2, <3>3
  <2>3. CASE ~(m + n >= j)
    <3>1. ~(n >= j) /\ j - n \in 1 .. H /\ ~(m >= j - n) /\ (j - n) - m = j - (m + n)
      BY <1>1, <2>3
    <3>2. mid[j - n] = prev[j - (m + n)]
      BY <1>3, <3>1
    <3> QED
      BY <2>3, <3>1, <3>2
  <2> QED
    BY <2>1, <2>2, <2>3
<1> QED
  BY <1>2, <1>4, SMTT(30) DEF Next_prev, mid, both

\* What is hashed for a token depends on the tokens before it only.
LEMMA SameSeen ==
  ASSUME NEW prev1, NEW tokens1, NEW t1, NEW prev2, NEW tokens2, NEW t2,
         \A j \in 0 .. History(Config) :
           Before(prev1, tokens1, t1, j) = Before(prev2, tokens2, t2, j)
  PROVE  Seen(Config, prev1, tokens1, t1) = Seen(Config, prev2, tokens2, t2)
<1>1. History(Config) \in Nat
  BY Accepted
<1>2. ASSUME NEW j \in 0 .. History(Config)
      PROVE  Hashed(Config, prev1, tokens1, t1, j) = Hashed(Config, prev2, tokens2, t2, j)
  <2>1. \A i \in 1 .. j : i \in 0 .. History(Config)
    BY <1>1
  <2> QED
    BY <2>1 DEF Hashed
<1> QED
  BY <1>2 DEF Seen

\* A token of the second chunk sees what it would see in one.
LEMMA SeenSplit ==
  ASSUME NEW prev \in Histories, NEW old \in Seq(Ids), NEW tokens \in Seq(Ids),
         NEW t \in 1 .. Len(tokens)
  PROVE  Seen(Config, Next_prev(Config, prev, old), tokens, t)
         = Seen(Config, prev, old \o tokens, Len(old) + t)
<1> DEFINE H == History(Config)
           m == Len(old)
           n == Len(tokens)
           both == old \o tokens
           mid == Next_prev(Config, prev, old)
<1>1. H \in Nat /\ m \in Nat /\ n \in Nat
  BY Accepted, LenProperties
<1>2. /\ both \in Seq(Ids) /\ Len(both) = m + n
      /\ \A i \in 1 .. (m + n) : both[i] = IF i <= m THEN old[i] ELSE tokens[i - m]
  BY ConcatProperties
<1>3. \A j \in 1 .. H : mid[j] = IF m >= j THEN old[m - j + 1] ELSE prev[j - m]
  BY DEF Next_prev
<1> HIDE DEF both, mid
<1>4. ASSUME NEW j \in 0 .. H
      PROVE  Before(mid, tokens, t, j) = Before(prev, both, m + t, j)
  <2>0. t \in 1 .. n
    OBVIOUS
  <2> HIDE DEF m, n, H
  <2>1. CASE t > j
    <3>1. PICK k \in 1 .. (m + n) : /\ k = m + t - j /\ ~(k <= m) /\ k - m = t - j
                                    /\ m + t > j
      BY <1>1, <2>0, <2>1
    <3>2. both[k] = tokens[k - m]
      BY <1>2, <3>1
    <3> QED
      BY <1>1, <2>0, <2>1, <3>1, <3>2, SMTT(30) DEF Before
  <2>2. CASE ~(t > j) /\ m + t > j
    <3>1. PICK k \in 1 .. (m + n), i \in 1 .. H :
            k = m + t - j /\ k <= m /\ i = j - t + 1 /\ m >= i /\ m - i + 1 = k
      BY <1>1, <2>0, <2>2
    <3>2. both[k] = old[k]
      BY <1>2, <3>1
    <3>3. mid[i] = old[k]
      BY <1>3, <3>1
    <3> QED
      BY <1>1, <2>0, <2>2, <3>1, <3>2, <3>3 DEF Before
  <2>3. CASE ~(m + t > j)
    <3>1. PICK i \in 1 .. H :
            ~(t > j) /\ i = j - t + 1 /\ ~(m >= i) /\ i - m = j - (m + t) + 1
      BY <1>1, <2>0, <2>3
    <3>2. mid[i] = prev[i - m]
      BY <1>3, <3>1
    <3> QED
      BY <2>3, <3>1, <3>2 DEF Before
  <2> QED
    BY <2>1, <2>2, <2>3
<1> QED
  BY <1>4, SameSeen DEF mid, both

\* A token of the first chunk does not see the second.
LEMMA SeenPrefix ==
  ASSUME NEW prev \in Histories, NEW old \in Seq(Ids), NEW tokens \in Seq(Ids),
         NEW t \in 1 .. Len(old)
  PROVE  Seen(Config, prev, old \o tokens, t) = Seen(Config, prev, old, t)
<1> DEFINE both == old \o tokens
<1>1. History(Config) \in Nat /\ Len(old) \in Nat /\ Len(tokens) \in Nat
  BY Accepted, LenProperties
<1>2. \A i \in 1 .. Len(old) : both[i] = old[i]
  BY <1>1, ConcatProperties
<1> HIDE DEF both
<1>3. ASSUME NEW j \in 0 .. History(Config)
      PROVE  Before(prev, both, t, j) = Before(prev, old, t, j)
  <2>1. t > j => t - j \in 1 .. Len(old)
    BY <1>1
  <2> QED
    BY <1>2, <2>1 DEF Before
<1> QED
  BY <1>3, SameSeen DEF both

-----------------------------------------------------------------------------
(* The bytes.                                                              *)

\* The sum of the blocks.
LEMMA BytesType ==
  ASSUME NEW blocks \in Seq(Nat)
  PROVE  Bytes(blocks) \in Nat
<1> DEFINE n == Len(blocks)
           step == [p \in Nat \X (1 .. n) |-> p[1] + blocks[p[2]]]
           Sums(sum) == sum = [i \in 0 .. n |-> IF i = 0 THEN 0 ELSE sum[i - 1] + blocks[i]]
           sum == CHOOSE s : Sums(s)
<1>1. n \in Nat /\ \A i \in 1 .. n : blocks[i] \in Nat
  BY LenProperties, ElementOfSeq
<1>2. \E s : Sums(s)
  <2>1. \A x \in Nat, i \in 1 .. n : step[<<x, i>>] = x + blocks[i] /\ step[<<x, i>>] \in Nat
    BY <1>1, SMTT(30)
  <2>2. PICK f \in [0 .. n -> Nat] :
           f[0] = 0 /\ \A i \in 1 .. n : f[i] = step[<<f[i - 1], i>>]
    <3> DEFINE S == Nat
               base == 0
    <3>1. base \in S /\ n \in Nat /\ \A x \in S, i \in 1 .. n : step[<<x, i>>] \in S
      BY <1>1, <2>1
    <3> HIDE DEF step, n, S, base
    <3>2. \E f : Recurs(f, n, S, base, step)
      BY <3>1, Recursion
    <3> QED
      BY <3>2 DEF S, base, Recurs
  <2>3. \A i \in 1 .. n : step[<<f[i - 1], i>>] = f[i - 1] + blocks[i]
    <3>1. \A i \in 1 .. n : i - 1 \in 0 .. n
      BY <1>1
    <3> QED
      BY <1>1, <2>2, <3>1
  <2>4. \A i \in 0 .. n : f[i] = IF i = 0 THEN 0 ELSE f[i - 1] + blocks[i]
    <3>1. \A i \in 0 .. n : i # 0 => i \in 1 .. n
      BY <1>1
    <3> HIDE DEF step, n
    <3> QED
      BY <2>2, <2>3, <3>1
  <2>5. Sums(f)
    BY <2>2, <2>4
  <2> QED
    BY <2>5
<1>3. Sums(sum)
  <2> HIDE DEF Sums
  <2> QED
    BY <1>2
<1>4. Bytes(blocks) = sum[n]
  BY DEF Bytes
<1>5. \A i \in 0 .. n : sum[i] \in Nat
  <2> HIDE DEF sum
  <2>1. sum[0] \in Nat
    BY <1>1, <1>3
  <2>2. ASSUME NEW i \in 1 .. n, sum[i - 1] \in Nat PROVE sum[i] \in Nat
    <3>1. i \in 0 .. n /\ i # 0 /\ blocks[i] \in Nat
      BY <1>1
    <3>2. sum[i] = sum[i - 1] + blocks[i]
      <4> HIDE DEF n
      <4> QED
        BY <1>3, <3>1
    <3> QED
      BY <2>2, <3>1, <3>2
  <2> HIDE DEF n
  <2> QED
    BY <1>1, <2>1, <2>2, Throughout
<1> QED
  BY <1>1, <1>4, <1>5

-----------------------------------------------------------------------------
(* The invariant.                                                          *)

\* The rows the tokens look up after a history, as the file holds them.
RowsFor(prev, tokens) ==
  LET ids == ngram_ids(Config, prev, tokens) IN
  [t \in 1 .. Len(tokens) |-> [h \in 1 .. Heads |-> Content(ids[(t - 1) * Heads + h])]]

\* The state one pass over a text leaves.
Holding(text, busy, epoch) ==
  [told |-> text, prev |-> Next_prev(Config, Fresh, text),
   conv |-> [epoch |-> epoch, next_pos |-> Len(text), valid |-> TRUE,
             data |-> Shift(Zeros, OneShotRows(text))],
   next_pos |-> Len(text), valid |-> TRUE, busy |-> busy, epoch |-> epoch]

\* The fields are exactly those of a state one pass leaves.
StateHolds(st) ==
  /\ st.told \in Seq(Ids) /\ st.busy \in BOOLEAN
  /\ st = Holding(st.told, st.busy, st.epoch)

\* The fields of a job.
Record ==
  [phase |-> job.phase, state |-> job.state, tokens |-> job.tokens, position |-> job.position,
   epoch |-> job.epoch, ids |-> job.ids, next |-> job.next, candidate |-> job.candidate,
   lease |-> job.lease, workspace |-> job.workspace, delta |-> job.delta]

StatesHold == \A s \in DOMAIN states : StateHolds(states[s])

\* A handle is busy exactly while the job holds it.
Handles ==
  /\ IsFiniteSet(DOMAIN states) /\ IsFiniteSet(DOMAIN workspaces)
  /\ \A w \in DOMAIN workspaces : workspaces[w] \in BOOLEAN
  /\ closed \in BOOLEAN /\ changed \in BOOLEAN
  /\ HasJob =>
       /\ job = Record /\ job.tokens \in Seq(Ids)
       /\ job.state \in DOMAIN states /\ job.workspace \subseteq DOMAIN workspaces
  /\ \A s \in DOMAIN states : states[s].busy <=> HasJob /\ job.state = s
  /\ \A w \in DOMAIN workspaces : workspaces[w] <=> HasJob /\ w \in job.workspace
  /\ closed => DOMAIN states = {} /\ DOMAIN workspaces = {} /\ ~HasJob

\* Every byte used belongs to a live handle.
Accounts ==
  /\ used \in Nat /\ used <= Budget
  /\ used = Fixed + Cardinality(DOMAIN states) * Bytes(StateBlocks)
                  + Cardinality(DOMAIN workspaces) * Bytes(WorkspaceBlocks)
                  + (IF HasJob THEN Bytes(JobBlocks(Len(job.tokens))) ELSE 0)

\* A convolution after a chunk, and what the chunk reads of it.
Moved(conv, n, rows)  == [conv EXCEPT !.next_pos = @ + n, !.data = Shift(@, rows)]
Deltas(conv, n, rows) == [t \in 1 .. n |-> Window(conv.data, rows, t)]

\* What a job in each phase knows of the state it will be published to.
Phases ==
  HasJob =>
    LET st   == states[job.state]
        rows == RowsFor(st.prev, job.tokens)
    IN
    /\ job.phase \in {"prepared", "ready"} =>
         job.workspace = {} /\ job.tokens # <<>> /\ job.candidate = st.conv
    /\ job.phase \in {"prepared", "ready", "computed"} =>
         /\ job.position = Len(st.told)
         /\ job.ids = ngram_ids(Config, st.prev, job.tokens)
         /\ job.next = Next_prev(Config, st.prev, job.tokens)
    /\ job.phase = "ready" => job.lease \in DOMAIN granted /\ granted[job.lease] = job.ids
    /\ job.phase = "computed" =>
         /\ job.candidate = Moved(st.conv, Len(job.tokens), rows)
         /\ job.delta = Deltas(st.conv, Len(job.tokens), rows)

\* A read in flight is that of the prepared job.
Reads == call.on => ~closed /\ job.phase = "prepared" /\ call.rows = job.ids

IInv == RInv /\ StatesHold /\ Handles /\ Accounts /\ Phases /\ Reads

-----------------------------------------------------------------------------
(* Text, rows and what a state holds.                                      *)

\* The history of a state nothing was committed to.
LEMMA FreshHistory == Fresh \in Histories
  BY Accepted DEF Fresh, Histories

RowSet == [1 .. Heads -> {Content(r) : r \in Int}]

\* The rows of a chunk.
LEMMA RowsForType ==
  ASSUME NEW prev \in Histories, NEW tokens \in Seq(Ids)
  PROVE  /\ RowsFor(prev, tokens) \in Seq(RowSet)
         /\ Len(RowsFor(prev, tokens)) = Len(tokens)
         /\ \A t \in 1 .. Len(tokens) :
              RowsFor(prev, tokens)[t]
              = [h \in 1 .. Heads |-> Content(Id(Config, prev, tokens, t, h))]
<1> DEFINE ids == ngram_ids(Config, prev, tokens)
           n == Len(tokens)
           rows == [t \in 1 .. n |-> [h \in 1 .. Heads |-> Content(ids[((t - 1) * Heads) + h])]]
<1>1. n \in Nat /\ RowsFor(prev, tokens) = rows
  BY LenProperties DEF RowsFor
<1>2. \A t \in 1 .. n, h \in 1 .. Heads :
        ids[((t - 1) * Heads) + h] = Id(Config, prev, tokens, t, h)
  BY IdsOfChunk
<1>3. \A t \in 1 .. n : rows[t] = [h \in 1 .. Heads |-> Content(Id(Config, prev, tokens, t, h))]
  BY <1>2
<1>4. \A t \in 1 .. n : rows[t] \in RowSet
  <2> TAKE t \in 1 .. n
  <2>1. \A h \in 1 .. Heads : Id(Config, prev, tokens, t, h) \in Int
    <3>1. Config.row_count \in Nat
      BY StoreAssumption
    <3> QED
      BY <3>1, IdType
  <2> HIDE DEF rows
  <2> QED
    BY <1>3, <2>1 DEF RowSet
<1>5. rows \in Seq(RowSet) /\ Len(rows) = n
  <2>1. rows = [t \in 1 .. n |-> rows[t]]
    OBVIOUS
  <2> HIDE DEF rows, n
  <2>2. rows \in [1 .. n -> RowSet]
    BY <1>4, <2>1
  <2> QED
    BY <1>1, <2>1, <2>2, SeqDef, LenProperties
<1> QED
  BY <1>1, <1>3, <1>5

\* The head of a token depends on what it sees only.
LEMMA SameId ==
  ASSUME NEW prev1, NEW tokens1, NEW t1, NEW prev2, NEW tokens2, NEW t2,
         Seen(Config, prev1, tokens1, t1) = Seen(Config, prev2, tokens2, t2)
  PROVE  \A h \in 1 .. Heads :
           Id(Config, prev1, tokens1, t1, h) = Id(Config, prev2, tokens2, t2, h)
BY DEF Id

\* The rows of a text cut in two.
LEMMA RowsJoin ==
  ASSUME NEW prev \in Histories, NEW old \in Seq(Ids), NEW tokens \in Seq(Ids)
  PROVE  RowsFor(prev, old \o tokens)
         = RowsFor(prev, old) \o RowsFor(Next_prev(Config, prev, old), tokens)
<1> DEFINE mid == Next_prev(Config, prev, old)
           both == old \o tokens
           a == RowsFor(prev, old)
           b == RowsFor(mid, tokens)
           c == RowsFor(prev, both)
           m == Len(old)
           n == Len(tokens)
           row(p, ts, t) == [h \in 1 .. Heads |-> Content(Id(Config, p, ts, t, h))]
<1>1. m \in Nat /\ n \in Nat /\ both \in Seq(Ids) /\ Len(both) = m + n /\ mid \in Histories
  BY LenProperties, ConcatProperties, NextPrevType
<1>2. /\ a \in Seq(RowSet) /\ Len(a) = m /\ \A t \in 1 .. m : a[t] = row(prev, old, t)
      /\ b \in Seq(RowSet) /\ Len(b) = n /\ \A t \in 1 .. n : b[t] = row(mid, tokens, t)
      /\ c \in Seq(RowSet) /\ Len(c) = m + n /\ \A t \in 1 .. (m + n) : c[t] = row(prev, both, t)
  <2> HIDE DEF mid, both
  <2> QED
    BY <1>1, RowsForType
<1>3. \A t \in 1 .. m : row(prev, both, t) = row(prev, old, t)
  <2> TAKE t \in 1 .. m
  <2>1. Seen(Config, prev, both, t) = Seen(Config, prev, old, t)
    BY SeenPrefix
  <2> HIDE DEF both
  <2> QED
    BY <2>1, SameId
<1>4. \A t \in 1 .. n : row(prev, both, m + t) = row(mid, tokens, t)
  <2> TAKE t \in 1 .. n
  <2>1. Seen(Config, prev, both, m + t) = Seen(Config, mid, tokens, t)
    BY SeenSplit
  <2> HIDE DEF both, mid, m
  <2> QED
    BY <2>1, SameId
<1>5. /\ a \o b \in Seq(RowSet) /\ Len(a \o b) = m + n
      /\ \A i \in 1 .. (m + n) : (a \o b)[i] = IF i <= m THEN a[i] ELSE b[i - m]
  <2>1. a \in Seq(RowSet) /\ Len(a) = m /\ b \in Seq(RowSet) /\ Len(b) = n
    BY <1>2
  <2> HIDE DEF a, b, m, n
  <2>2. \A i \in 1 .. (Len(a) + Len(b)) :
          (a \o b)[i] = IF i <= Len(a) THEN a[i] ELSE b[i - Len(a)]
    BY <2>1, ConcatProperties
  <2> QED
    BY <2>1, <2>2, ConcatProperties
<1> HIDE DEF a, b, c, row, m, n, both, mid
<1>6. \A i \in 1 .. (m + n) : c[i] = (a \o b)[i]
  <2> TAKE i \in 1 .. (m + n)
  <2>1. CASE i <= m
    <3>1. i \in 1 .. m
      BY <1>1, <2>1
    <3> QED
      BY <1>2, <1>3, <1>5, <2>1, <3>1
  <2>2. CASE ~(i <= m)
    <3>1. PICK t \in 1 .. n : i = m + t /\ t = i - m
      BY <1>1, <2>2
    <3> QED
      BY <1>2, <1>4, <1>5, <2>2, <3>1, SMTT(30)
  <2> QED
    BY <2>1, <2>2
<1>7. c = a \o b
  BY <1>2, <1>5, <1>6, SeqEqual
<1> QED
  BY <1>7 DEF a, b, c, both, mid

\* One pass over a text, and one over nothing.
LEMMA OnePass ==
  ASSUME NEW text \in Seq(Ids)
  PROVE  /\ OneShotRows(text) = RowsFor(Fresh, text)
         /\ OneShotHalo(text) = Shift(Zeros, OneShotRows(text))
         /\ conv_causal(state_init(1, Zeros), OneShotRows(text), 0, TRUE).out
            = [t \in 1 .. Len(text) |-> Window(Zeros, OneShotRows(text), t)]
         /\ text = <<>> => /\ Shift(Zeros, OneShotRows(text)) = Zeros
                           /\ Next_prev(Config, Fresh, text) = Fresh
<1> DEFINE rows == OneShotRows(text)
           s == state_init(1, Zeros)
           r == conv_causal(s, rows, 0, TRUE)
<1>1. rows = RowsFor(Fresh, text)
  BY DEF OneShotRows, RowsFor
<1>2. rows \in Seq(RowSet) /\ Len(rows) = Len(text) /\ Len(text) \in Nat
  <2> HIDE DEF rows
  <2> QED
    BY <1>1, FreshHistory, RowsForType, LenProperties
<1>3. s = [epoch |-> 1, next_pos |-> 0, valid |-> TRUE, data |-> Zeros]
  BY DEF state_init
<1>4. ASSUME rows = <<>>
      PROVE  Shift(Zeros, rows) = Zeros /\ text = <<>>
  <2>1. Len(rows) = 0 /\ Halo \in Nat
    <3>1. Halo \in Nat
      BY TapsWithin, RecurrentAssumption
    <3> QED
      BY <1>4, <3>1
  <2>2. text = <<>>
    <3>1. Len(text) = 0
      BY <1>2, <2>1
    <3> QED
      BY <3>1, EmptySeq
  <2> HIDE DEF rows
  <2>3. \A i \in 1 .. Halo : i <= Halo - Len(rows) /\ i + Len(rows) = i
    BY <2>1
  <2>4. \A i \in 1 .. Halo : Zeros[i] = Zero
    BY DEF Zeros
  <2> QED
    BY <2>2, <2>3, <2>4 DEF Shift, Zeros
<1>5. text = <<>> => rows = <<>>
  <2>1. text = <<>> => Len(rows) = 0
    BY <1>2
  <2> HIDE DEF rows
  <2> QED
    BY <1>2, <2>1, EmptySeq
<1>6. Append_status(s, 0) = "ok"
  BY <1>3 DEF Append_status
<1> HIDE DEF s, rows
<1>7. ASSUME rows = <<>>
      PROVE  r.s.data = Shift(Zeros, rows) /\ r.out = [t \in 1 .. Len(text) |-> Window(Zeros, rows, t)]
  <2>1. r = Result("ok", s, <<>>)
    BY <1>6, <1>7 DEF conv_causal
  <2> HIDE DEF r
  <2>2. r.s = s /\ r.out = <<>>
    BY <2>1 DEF Result
  <2>3. s.data = Zeros
    BY <1>3
  <2>4. Len(text) = 0
    BY <1>2, <1>7
  <2>5. [t \in 1 .. Len(text) |-> Window(Zeros, rows, t)] = <<>>
    BY <2>4
  <2>6. Shift(Zeros, rows) = Zeros
    BY <1>4, <1>7
  <2> QED
    BY <2>2, <2>3, <2>5, <2>6
<1>8. ASSUME rows # <<>>
      PROVE  r.s.data = Shift(Zeros, rows) /\ r.out = [t \in 1 .. Len(text) |-> Window(Zeros, rows, t)]
  <2>1. r = Result("ok", [s EXCEPT !.data = Shift(s.data, rows), !.next_pos = 0 + Len(rows)],
                   [t \in 1 .. Len(rows) |-> Window(s.data, rows, t)])
    BY <1>6, <1>8 DEF conv_causal
  <2> DEFINE moved == [s EXCEPT !.data = Shift(s.data, rows), !.next_pos = 0 + Len(rows)]
             out == [t \in 1 .. Len(rows) |-> Window(s.data, rows, t)]
  <2>2. moved.data = Shift(Zeros, rows) /\ s.data = Zeros
    BY <1>3
  <2>3. out = [t \in 1 .. Len(text) |-> Window(Zeros, rows, t)]
    BY <1>2, <2>2
  <2> HIDE DEF r, moved, out
  <2>4. r.s = moved /\ r.out = out
    BY <2>1 DEF Result, moved, out
  <2> QED
    BY <2>2, <2>3, <2>4
<1>9. text = <<>> => Next_prev(Config, Fresh, text) = Fresh
  <2> SUFFICES ASSUME text = <<>> PROVE Next_prev(Config, Fresh, text) = Fresh
    OBVIOUS
  <2>1. \A j \in 1 .. History(Config) : ~(Len(text) >= j) /\ Fresh[j - Len(text)] = Config.eos
    <3>1. Len(text) = 0 /\ History(Config) \in Nat
      BY Accepted
    <3>2. \A j \in 1 .. History(Config) : j - Len(text) = j /\ ~(Len(text) >= j)
      BY <3>1
    <3> QED
      BY <3>2 DEF Fresh
  <2> QED
    BY <2>1 DEF Next_prev, Fresh
<1>10. r.s.data = Shift(Zeros, rows) /\ r.out = [t \in 1 .. Len(text) |-> Window(Zeros, rows, t)]
  <2> HIDE DEF r
  <2> QED
    BY <1>7, <1>8
<1>11. text = <<>> => Shift(Zeros, rows) = Zeros
  BY <1>4, <1>5
<1>12. OneShotHalo(text) = r.s.data
  BY DEF OneShotHalo, s, rows
<1> QED
  BY <1>1, <1>9, <1>10, <1>11, <1>12 DEF s, rows

\* What a state holds after a text and a chunk.
LEMMA HoldingMore ==
  ASSUME NEW old \in Seq(Ids), NEW tokens \in Seq(Ids)
  PROVE  LET prev == Next_prev(Config, Fresh, old)
             rows == RowsFor(prev, tokens)
         IN  /\ old \o tokens \in Seq(Ids) /\ Len(old \o tokens) = Len(old) + Len(tokens)
             /\ prev \in Histories
             /\ Next_prev(Config, prev, tokens) = Next_prev(Config, Fresh, old \o tokens)
             /\ rows \in Seq(RowSet) /\ Len(rows) = Len(tokens)
             /\ OneShotRows(old) \in Seq(RowSet) /\ Len(OneShotRows(old)) = Len(old)
             /\ OneShotRows(old \o tokens) = OneShotRows(old) \o rows
             /\ Shift(Shift(Zeros, OneShotRows(old)), rows)
                = Shift(Zeros, OneShotRows(old \o tokens))
<1> DEFINE prev == Next_prev(Config, Fresh, old)
           rows == RowsFor(prev, tokens)
           first == OneShotRows(old)
<1>1. old \o tokens \in Seq(Ids) /\ Len(old \o tokens) = Len(old) + Len(tokens) /\ prev \in Histories
  BY ConcatProperties, FreshHistory, NextPrevType
<1>2. Next_prev(Config, prev, tokens) = Next_prev(Config, Fresh, old \o tokens)
  BY FreshHistory, NextPrevConcat
<1>3. /\ first = RowsFor(Fresh, old) /\ OneShotRows(old \o tokens) = RowsFor(Fresh, old \o tokens)
      /\ RowsFor(Fresh, old \o tokens) = RowsFor(Fresh, old) \o rows
  BY <1>1, OnePass, FreshHistory, RowsJoin
<1>4. first \in Seq(RowSet) /\ Len(first) = Len(old) /\ rows \in Seq(RowSet) /\ Len(rows) = Len(tokens)
  <2> HIDE DEF prev, first
  <2> QED
    BY <1>1, <1>3, FreshHistory, RowsForType
<1> HIDE DEF rows, first, prev
<1>5. Shift(Shift(Zeros, first), rows) = Shift(Zeros, first \o rows)
  BY <1>4, ShiftConcat
<1> QED
  BY <1>1, <1>2, <1>3, <1>4, <1>5 DEF rows, first, prev

\* The delta of a chunk is that of its tokens in one pass.
LEMMA DeltaOfChunk ==
  ASSUME NEW old \in Seq(Ids), NEW tokens \in Seq(Ids)
  PROVE  LET rows == RowsFor(Next_prev(Config, Fresh, old), tokens)
             text == old \o tokens
             all  == [t \in 1 .. Len(text) |-> Window(Zeros, OneShotRows(text), t)]
         IN  [t \in 1 .. Len(tokens) |-> Window(Shift(Zeros, OneShotRows(old)), rows, t)]
             = SubSeq(all, Len(old) + 1, Len(text))
<1> DEFINE rows == RowsFor(Next_prev(Config, Fresh, old), tokens)
           text == old \o tokens
           first == OneShotRows(old)
           both == OneShotRows(text)
           all == [t \in 1 .. Len(text) |-> Window(Zeros, both, t)]
           delta == [t \in 1 .. Len(tokens) |-> Window(Shift(Zeros, first), rows, t)]
           m == Len(old)
           n == Len(text)
           S == {all[t] : t \in 1 .. n}
<1>1. /\ m \in Nat /\ Len(tokens) \in Nat /\ n = m + Len(tokens)
      /\ rows \in Seq(RowSet) /\ Len(rows) = Len(tokens)
      /\ first \in Seq(RowSet) /\ Len(first) = m /\ both = first \o rows
  BY HoldingMore, LenProperties
<1>2. all \in Seq(S) /\ Len(all) = n
  <2>1. all = [t \in 1 .. n |-> all[t]] /\ n \in Nat
    BY <1>1
  <2> HIDE DEF all, n
  <2>2. all \in [1 .. n -> S]
    BY <2>1
  <2> HIDE DEF S
  <2> QED
    BY <2>1, <2>2
<1>w. \A i \in 1 .. Len(rows) :
        Window(Shift(Zeros, first), rows, i) = Window(Zeros, first \o rows, Len(first) + i)
  <2>1. first \in Seq(RowSet) /\ rows \in Seq(RowSet)
    BY <1>1
  <2> HIDE DEF rows, first, both, m, n, all, delta, S
  <2> QED
    BY <2>1, WindowSplit
<1>3. ASSUME NEW t \in 1 .. Len(tokens)
      PROVE  Window(Shift(Zeros, first), rows, t) = Window(Zeros, both, m + t) /\ m + t \in 1 .. n
  <2>1. t \in 1 .. Len(rows)
    BY <1>1
  <2>2. m + t \in 1 .. n
    BY <1>1
  <2> HIDE DEF rows, first, both, m, n
  <2>3. Window(Shift(Zeros, first), rows, t) = Window(Zeros, first \o rows, Len(first) + t)
    BY <1>w, <2>1
  <2> QED
    BY <1>1, <2>2, <2>3
<1>4. \A t \in 1 .. Len(tokens) : delta[t] = all[m + t]
  <2> TAKE t \in 1 .. Len(tokens)
  <2>1. all[m + t] = Window(Zeros, both, m + t)
    <3>1. m + t \in 1 .. n
      BY <1>3
    <3> HIDE DEF m, both
    <3> QED
      BY <3>1
  <2> HIDE DEF all, rows, first, both, m
  <2> QED
    BY <1>3, <2>1
<1>5. delta = [t \in 1 .. Len(tokens) |-> delta[t]]
  OBVIOUS
<1> HIDE DEF all, rows, first, both, m, n, S, delta
<1>6. LET part == SubSeq(all, m + 1, n) IN
      /\ part \in Seq(S) /\ Len(part) = Len(tokens)
      /\ \A i \in 1 .. Len(tokens) : part[i] = all[m + i]
  <2>1. n \in 0 .. Len(all) /\ m \in 0 .. n /\ n - m = Len(tokens)
    BY <1>1, <1>2
  <2> QED
    BY <1>2, <2>1, SegmentProperties
<1> DEFINE part == SubSeq(all, m + 1, n)
<1>7. delta = part
  <2>1. part = [t \in 1 .. Len(tokens) |-> part[t]]
    <3> HIDE DEF part
    <3> QED
      BY <1>6, LenProperties DEF part
  <2> HIDE DEF part
  <2>2. \A t \in 1 .. Len(tokens) : delta[t] = part[t]
    BY <1>4, <1>6 DEF part
  <2> QED
    BY <1>5, <2>1, <2>2
<1> QED
  BY <1>7 DEF all, rows, first, both, m, n, delta

-----------------------------------------------------------------------------
(* What the operations on a convolution do to one that is usable.          *)

\* The candidate of a usable state is the state.
LEMMA CandidateCopies ==
  ASSUME NEW e, NEW p, NEW d, NEW conv,
         conv = [epoch |-> e, next_pos |-> p, valid |-> TRUE, data |-> d]
  PROVE  Candidate(conv).status = "ok" /\ Candidate(conv).s = conv
<1>1. state_init(conv.epoch, Zeros) = [epoch |-> e, next_pos |-> 0, valid |-> TRUE, data |-> Zeros]
  BY DEF state_init
<1> QED
  BY <1>1, CopyIsSource DEF Candidate

\* A chunk appended moves the halo, or leaves no candidate to commit.
LEMMA Appends ==
  ASSUME NEW p, NEW conv, NEW R, NEW x \in Seq(R), x # <<>>, NEW finite \in BOOLEAN,
         conv.valid, conv.next_pos = p, conv_causal(conv, x, p, finite).status = "ok"
  PROVE  /\ conv_causal(conv, x, p, finite).s = Moved(conv, Len(x), x)
         /\ conv_causal(conv, x, p, finite).out = Deltas(conv, Len(x), x)
<1> DEFINE r == conv_causal(conv, x, p, finite)
           bad == [conv EXCEPT !.valid = FALSE]
           moved == [conv EXCEPT !.data = Shift(conv.data, x), !.next_pos = p + Len(x)]
           out == [t \in 1 .. Len(x) |-> Window(conv.data, x, t)]
<1>1. Append_status(conv, p) = "ok"
  BY DEF Append_status
<1>2. finite = TRUE
  <2> SUFFICES ASSUME ~finite PROVE FALSE
    OBVIOUS
  <2> HIDE DEF bad
  <2>1. r = Refuse("nonfinite", bad)
    BY <1>1 DEF conv_causal, bad
  <2> HIDE DEF r
  <2>2. r.status = "nonfinite"
    BY <2>1 DEF Refuse, Result
  <2> QED
    BY <2>2 DEF r
<1>3. r = Result("ok", moved, out)
  BY <1>1, <1>2 DEF conv_causal
<1>4. moved = Moved(conv, Len(x), x)
  <2>1. conv.next_pos = p
    OBVIOUS
  <2> QED
    BY <2>1 DEF Moved
<1>5. out = Deltas(conv, Len(x), x)
  BY DEF Deltas
<1> HIDE DEF r, moved, out
<1>6. r.s = moved /\ r.out = out
  BY <1>3 DEF Result
<1> QED
  BY <1>4, <1>5, <1>6 DEF r

\* What is published is the state one pass over all of the text leaves.
LEMMA Publishes ==
  ASSUME NEW old \in Seq(Ids), NEW busy \in BOOLEAN, NEW epoch, NEW st,
         st = Holding(old, busy, epoch), job.tokens \in Seq(Ids),
         job.next = Next_prev(Config, st.prev, job.tokens),
         job.candidate = Moved(st.conv, Len(job.tokens), RowsFor(st.prev, job.tokens))
  PROVE  /\ conv_state_copy(st.conv, job.candidate).status = "ok"
         /\ Published(st) = Holding(old \o job.tokens, busy, epoch)
<1> DEFINE prev == Next_prev(Config, Fresh, old)
           rows == RowsFor(prev, job.tokens)
           halo == Shift(Zeros, OneShotRows(old))
           conv == st.conv
           n == Len(job.tokens)
           text == old \o job.tokens
           moved == [epoch |-> epoch, next_pos |-> Len(old) + n, valid |-> TRUE, data |-> Shift(halo, rows)]
<1>1. /\ st.prev = prev /\ st.next_pos = Len(old) /\ st.told = old
      /\ conv = [epoch |-> epoch, next_pos |-> Len(old), valid |-> TRUE, data |-> halo]
      /\ st.valid = TRUE /\ st.busy = busy /\ st.epoch = epoch
      /\ st = [told |-> old, prev |-> prev, conv |-> conv, next_pos |-> Len(old), valid |-> TRUE,
               busy |-> busy, epoch |-> epoch]
  BY DEF Holding
<1>2. job.candidate = moved
  <2>1. job.candidate = [conv EXCEPT !.next_pos = @ + n, !.data = Shift(@, rows)]
    BY <1>1 DEF Moved
  <2> HIDE DEF rows, halo, n, conv
  <2> QED
    BY <1>1, <2>1
<1>3. /\ text \in Seq(Ids) /\ Len(text) = Len(old) + n
      /\ Next_prev(Config, prev, job.tokens) = Next_prev(Config, Fresh, text)
      /\ Shift(halo, rows) = Shift(Zeros, OneShotRows(text))
  BY HoldingMore
<1> HIDE DEF prev, rows, halo, conv, n, text
<1>5. conv_state_copy(conv, job.candidate).status = "ok" /\ conv_state_copy(conv, job.candidate).s = moved
  BY <1>1, <1>2, CopyIsSource
<1>6. Published(st) = [told |-> text, prev |-> Next_prev(Config, Fresh, text), conv |-> moved,
                       next_pos |-> Len(text), valid |-> TRUE, busy |-> busy, epoch |-> epoch]
  <2> DEFINE new == Published(st)
  <2>1. new = [st EXCEPT !.conv = moved, !.prev = job.next, !.next_pos = Len(old) + n,
                         !.told = old \o job.tokens]
    <3> HIDE DEF moved
    <3> QED
      BY <1>1, <1>5 DEF Published, n, conv
  <2>2. job.next = Next_prev(Config, Fresh, text)
    BY <1>1, <1>3
  <2> HIDE DEF moved
  <2>3. old \o job.tokens = text
    BY DEF text
  <2> HIDE DEF new
  <2>4. new = [told |-> old \o job.tokens, prev |-> job.next, conv |-> moved,
               next_pos |-> Len(old) + n, valid |-> TRUE, busy |-> busy, epoch |-> epoch]
    BY <1>1, <2>1
  <2> QED
    BY <1>3, <2>2, <2>3, <2>4 DEF new
<1> QED
  BY <1>3, <1>5, <1>6 DEF Holding, conv, text

-----------------------------------------------------------------------------
(* What the actions share.                                                 *)

\* The reader is not concerned.
LEMMA ReaderStays ==
  ASSUME RInv, UNCHANGED rvars
  PROVE  RInv'
BY DEF rvars, RInv, Shape, Served, ServedAt, Staged, RowByRow, First, unchanged,
       LeaseServesItsRows, Current

\* Nothing happens.
LEMMA StutterKeeps ==
  ASSUME IInv, UNCHANGED vars
  PROVE  IInv'
<1>1. RInv'
  BY ReaderStays DEF vars, IInv
<1>2. StatesHold' /\ Handles'
  BY DEF vars, svars, rvars, IInv, StatesHold, Handles, HasJob, Record
<1>3. Accounts'
  BY DEF vars, svars, rvars, IInv, Accounts, HasJob
<1>4. Phases' /\ Reads'
  BY DEF vars, svars, rvars, IInv, Phases, Reads, HasJob
<1> QED
  BY <1>1, <1>2, <1>3, <1>4 DEF IInv

\* The blocks of every handle.
LEMMA BlockBytes ==
  /\ StateBlocks \in Seq(Nat) /\ WorkspaceBlocks \in Seq(Nat)
  /\ Bytes(StateBlocks) \in Nat /\ Bytes(WorkspaceBlocks) \in Nat
  /\ \A n \in Nat : JobBlocks(n) \in Seq(Nat) /\ Bytes(JobBlocks(n)) \in Nat
<1>1. /\ Size.state \in Nat /\ Size.previous \in Nat /\ Size.conv \in Nat /\ Size.workspace \in Nat
      /\ Size.data \in Nat /\ Size.job \in Nat /\ Size.next \in Nat /\ Size.id \in Nat
  BY StoreAssumption
<1>2. StateBlocks \in Seq(Nat) /\ WorkspaceBlocks \in Seq(Nat)
  BY <1>1 DEF StateBlocks, WorkspaceBlocks
<1>3. ASSUME NEW n \in Nat PROVE JobBlocks(n) \in Seq(Nat)
  <2>1. n * Heads * Size.id \in Nat
    <3> DEFINE a == Size.id
    <3>1. a \in Nat
      BY <1>1
    <3> HIDE DEF a
    <3>2. n * Heads \in Nat
      BY HeadsPositive, SMT
    <3> DEFINE b == n * Heads
    <3>3. b \in Nat
      BY <3>2
    <3> HIDE DEF b
    <3>4. b * a \in Nat
      BY <3>1, <3>3, SMT
    <3> QED
      BY <3>4 DEF a, b
  <2> DEFINE ids == n * Heads * Size.id
  <2> HIDE DEF ids
  <2>2. <<Size.job, Size.next>> \in Seq(Nat) /\ <<Size.job, ids, Size.next, Size.conv>> \in Seq(Nat)
    BY <1>1, <2>1 DEF ids
  <2> QED
    BY <2>2 DEF JobBlocks, ids
<1> QED
  BY <1>2, <1>3, BytesType

\* An allocation that fails changes nothing.
LEMMA FailedAllocation ==
  ASSUME used \in Nat, NEW blocks \in Seq(Nat), AllocateFails(blocks)
  PROVE  used' = used
<1>1. PICK n \in 0 .. Len(blocks) - 1 :
        used' = used + Bytes(SubSeq(blocks, 1, n)) - Undone(blocks, n)
  BY DEF AllocateFails
<1>2. n \in 0 .. Len(blocks)
  BY LenProperties
<1>3. Bytes(SubSeq(blocks, 1, n)) \in Nat
  BY <1>2, PrefixProperties, BytesType
<1> QED
  BY <1>1, <1>3 DEF Undone

\* The bytes of the handles of one kind.
LEMMA Multiple ==
  ASSUME NEW n \in Nat, NEW b \in Nat, NEW i \in {-1, 0, 1}
  PROVE  n * b \in Nat /\ (n + i) * b = n * b + i * b
<1>1. n * b \in Nat
  BY SMT
<1>2. (n + 1) * b = n * b + 1 * b
  BY SMT
<1>3. (n + 0) * b = n * b + 0 * b
  BY SMT
<1>4. (n + (-1)) * b = n * b + (-1) * b
  BY SMT
<1> QED
  BY <1>1, <1>2, <1>3, <1>4

\* A handle is allocated or freed with its blocks.
LEMMA AccountsMove ==
  ASSUME IInv, job' = job, IsFiniteSet(DOMAIN states'), IsFiniteSet(DOMAIN workspaces'),
         NEW i \in {-1, 0, 1}, NEW k \in {-1, 0, 1},
         Cardinality(DOMAIN states') = Cardinality(DOMAIN states) + i,
         Cardinality(DOMAIN workspaces') = Cardinality(DOMAIN workspaces) + k,
         used' = used + i * Bytes(StateBlocks) + k * Bytes(WorkspaceBlocks), used' <= Budget
  PROVE  Accounts'
<1> DEFINE n == Cardinality(DOMAIN states)
           m == Cardinality(DOMAIN workspaces)
           b == Bytes(StateBlocks)
           c == Bytes(WorkspaceBlocks)
           j == IF HasJob THEN Bytes(JobBlocks(Len(job.tokens))) ELSE 0
<1>1. /\ used \in Nat /\ used = Fixed + (n * b) + (m * c) + j /\ Fixed \in Nat
      /\ used' = used + (i * b) + (k * c) /\ used' <= Budget
  BY StoreAssumption DEF IInv, Accounts, Fixed
<1>2. n \in Nat /\ m \in Nat /\ n' \in Nat /\ m' \in Nat
  BY FS_CardinalityType DEF IInv, Handles
<1>3. b \in Nat /\ c \in Nat /\ j \in Nat
  <2>1. HasJob => Len(job.tokens) \in Nat
    BY LenProperties DEF IInv, Handles
  <2> QED
    BY <2>1, BlockBytes
<1>4. n' = n + i /\ m' = m + k /\ b' = b /\ c' = c
  OBVIOUS
<1>5. j' = j
  BY DEF HasJob
<1> HIDE DEF n, m, b, c, j
<1>6. (n + i) * b = n * b + i * b /\ (m + k) * c = m * c + k * c
  BY <1>2, <1>3, Multiple
<1>7. (n + i) * b \in Nat /\ (m + k) * c \in Nat
  <2>1. n + i \in Nat /\ m + k \in Nat
    BY <1>2, <1>4
  <2> QED
    BY <1>3, <2>1, Multiple
<1>8. i * b \in Int /\ k * c \in Int /\ n * b \in Int /\ m * c \in Int
  BY <1>2, <1>3
<1>9. used' = Fixed + ((n + i) * b) + ((m + k) * c) + j /\ used' \in Nat
  BY <1>1, <1>3, <1>6, <1>7, <1>8
<1>10. used' = Fixed + (n' * b') + (m' * c') + j'
  BY <1>4, <1>5, <1>9
<1> QED
  BY <1>1, <1>9, <1>10 DEF Accounts, n, m, b, c, j

\* What is known of a job stays known while its state keeps what was committed to it.
LEMMA PhasesStay ==
  ASSUME Phases, job' = job, granted' = granted,
         HasJob => /\ states'[job.state].told = states[job.state].told
                   /\ states'[job.state].prev = states[job.state].prev
                   /\ states'[job.state].conv = states[job.state].conv
  PROVE  Phases'
BY DEF Phases, HasJob

-----------------------------------------------------------------------------
(* The actions on states and workspaces.                                   *)

\* A state is made or made anew.
LEMMA NothingHeld ==
  ASSUME NEW epoch, NEW busy \in BOOLEAN
  PROVE  LET st == [told |-> <<>>, prev |-> Fresh, conv |-> state_init(epoch, Zeros),
                    next_pos |-> 0, valid |-> TRUE, busy |-> busy, epoch |-> epoch]
         IN  st = Holding(<<>>, busy, epoch) /\ StateHolds(st)
<1> DEFINE st == [told |-> <<>>, prev |-> Fresh, conv |-> state_init(epoch, Zeros),
                  next_pos |-> 0, valid |-> TRUE, busy |-> busy, epoch |-> epoch]
<1>1. <<>> \in Seq(Ids) /\ Len(<<>>) = 0
  OBVIOUS
<1>2. Shift(Zeros, OneShotRows(<<>>)) = Zeros /\ Next_prev(Config, Fresh, <<>>) = Fresh
  BY <1>1, OnePass
<1>3. st = Holding(<<>>, busy, epoch)
  BY <1>1, <1>2 DEF Holding, state_init
<1>4. st.told = <<>> /\ st.busy = busy /\ st.epoch = epoch
  OBVIOUS
<1> HIDE DEF st
<1> QED
  BY <1>1, <1>3, <1>4 DEF StateHolds, st

\* state_create: an empty history, or what a failed allocation undoes.
LEMMA StateCreateKeeps ==
  ASSUME IInv, NEW s, state_create(s)
  PROVE  IInv'
<1>1. /\ ~call.on /\ ~closed /\ s \notin DOMAIN states
      /\ UNCHANGED <<version, ready, generation, values, call, granted, changed, workspaces, job, closed>>
  BY DEF state_create, Host, rvars
<1>2. RInv' /\ Reads'
  BY <1>1, ReaderStays DEF IInv, Reads, rvars
<1>3. CASE AllocateFails(StateBlocks) /\ UNCHANGED states
  <2>1. used' = used
    BY <1>3, BlockBytes, FailedAllocation DEF IInv, Accounts
  <2> QED
    BY <1>1, <1>3, <2>1, StutterKeeps DEF vars, rvars, svars
<1> DEFINE st == [told |-> <<>>, prev |-> Fresh, conv |-> state_init(1, Zeros),
                  next_pos |-> 0, valid |-> TRUE, busy |-> FALSE, epoch |-> 1]
<1>4. ASSUME Allocate(StateBlocks), states' = With(states, s, st)
      PROVE  IInv'
  <2>1. StateHolds(st) /\ st.busy = FALSE
    BY NothingHeld
  <2> HIDE DEF st
  <2>2. /\ DOMAIN states' = DOMAIN states \union {s} /\ states'[s] = st
        /\ \A y \in DOMAIN states : states'[y] = states[y]
    <3>1. states' = With(states, s, st)
      BY <1>4
    <3>2. /\ DOMAIN states' = DOMAIN states \union {s} /\ states'[s] = st
          /\ \A y \in DOMAIN states : y # s => states'[y] = states[y]
      BY <3>1 DEF With
    <3> QED
      BY <1>1, <3>2
  <2>3. StatesHold'
    BY <2>1, <2>2 DEF IInv, StatesHold, StateHolds
  <2>4. IsFiniteSet(DOMAIN states') /\ Cardinality(DOMAIN states') = Cardinality(DOMAIN states) + 1
    <3>1. IsFiniteSet(DOMAIN states)
      BY DEF IInv, Handles
    <3> DEFINE D == DOMAIN states
    <3>2. s \notin D
      BY <1>1
    <3> HIDE DEF D
    <3>3. IsFiniteSet(D \union {s}) /\ Cardinality(D \union {s}) = Cardinality(D) + 1
      BY <3>1, <3>2, FS_AddElement DEF D
    <3> QED
      BY <2>2, <3>3 DEF D
  <2>5. Handles'
    <3>1. HasJob' = HasJob /\ Record' = Record
      BY <1>1 DEF HasJob, Record
    <3>2. HasJob => job.state \in DOMAIN states
      BY DEF IInv, Handles
    <3>3. \A y \in DOMAIN states' : states'[y].busy <=> HasJob /\ job.state = y
      BY <1>1, <2>1, <2>2, <3>2 DEF IInv, Handles
    <3> QED
      BY <1>1, <2>2, <2>4, <3>1, <3>3 DEF IInv, Handles
  <2>6. Accounts'
    <3>1. used \in Nat /\ used' = used + Bytes(StateBlocks) /\ used' <= Budget
      BY <1>4 DEF IInv, Accounts, Allocate
    <3>2. used' = used + 1 * Bytes(StateBlocks) + 0 * Bytes(WorkspaceBlocks)
      BY <3>1, BlockBytes
    <3>3. IsFiniteSet(DOMAIN workspaces) /\ Cardinality(DOMAIN workspaces) \in Nat
      BY FS_CardinalityType DEF IInv, Handles
    <3>4. Cardinality(DOMAIN workspaces') = Cardinality(DOMAIN workspaces) + 0
      BY <1>1, <3>3
    <3> QED
      BY <1>1, <2>4, <3>1, <3>2, <3>3, <3>4, AccountsMove
  <2>7. Phases'
    BY <1>1, <2>2, PhasesStay DEF IInv, Handles
  <2> QED
    BY <1>2, <2>3, <2>5, <2>6, <2>7 DEF IInv
<1> QED
  BY <1>3, <1>4 DEF state_create

\* state_destroy: only a state no job holds.
LEMMA StateDestroyKeeps ==
  ASSUME IInv, NEW s, state_destroy(s)
  PROVE  IInv'
<1>1. /\ ~call.on /\ ~closed /\ s \in DOMAIN states /\ ~states[s].busy
      /\ states' = Without(states, s) /\ used' = used - Bytes(StateBlocks)
      /\ UNCHANGED <<version, ready, generation, values, call, granted, changed, workspaces, job, closed>>
  BY DEF state_destroy, Host, rvars, Free
<1>2. RInv' /\ Reads'
  BY <1>1, ReaderStays DEF IInv, Reads, rvars
<1>3. /\ DOMAIN states' = DOMAIN states \ {s}
      /\ \A y \in DOMAIN states' : y \in DOMAIN states /\ states'[y] = states[y]
  BY <1>1 DEF Without
<1>4. StatesHold'
  BY <1>3 DEF IInv, StatesHold, StateHolds
<1>5. IsFiniteSet(DOMAIN states') /\ Cardinality(DOMAIN states') = Cardinality(DOMAIN states) - 1
  BY <1>1, <1>3, FS_RemoveElement DEF IInv, Handles
<1>6. HasJob => job.state \in DOMAIN states'
  BY <1>1, <1>3 DEF IInv, Handles
<1>7. Handles'
  <2>1. HasJob' = HasJob /\ Record' = Record
    BY <1>1 DEF HasJob, Record
  <2> QED
    BY <1>1, <1>3, <1>5, <1>6, <2>1 DEF IInv, Handles
<1>8. Accounts'
  <2>1. IsFiniteSet(DOMAIN workspaces) /\ Cardinality(DOMAIN workspaces) \in Nat
    BY FS_CardinalityType DEF IInv, Handles
  <2>2. used \in Nat /\ used <= Budget /\ Budget \in Nat
    BY StoreAssumption DEF IInv, Accounts
  <2> DEFINE b == Bytes(StateBlocks)
             c == Bytes(WorkspaceBlocks)
  <2>b. b \in Nat /\ c \in Nat /\ used' = used - b
    BY <1>1, BlockBytes
  <2> HIDE DEF b, c
  <2>3. used' = used + ((-1) * b) + (0 * c) /\ used' <= Budget
    BY <2>2, <2>b
  <2>4. /\ Cardinality(DOMAIN workspaces') = Cardinality(DOMAIN workspaces) + 0
        /\ Cardinality(DOMAIN states') = Cardinality(DOMAIN states) + (-1)
    BY <1>1, <1>5, <2>1, FS_CardinalityType DEF IInv, Handles
  <2> QED
    BY <1>1, <1>5, <2>1, <2>3, <2>4, AccountsMove DEF b, c
<1>9. Phases'
  BY <1>1, <1>3, <1>6, PhasesStay DEF IInv
<1> QED
  BY <1>2, <1>4, <1>7, <1>8, <1>9 DEF IInv

\* state_reset: the empty history under a new epoch.
LEMMA StateResetKeeps ==
  ASSUME IInv, NEW s, NEW epoch, state_reset_call(s, epoch)
  PROVE  IInv'
<1> DEFINE st == states[s]
           conv == st.conv
           r == state_reset(conv, epoch, Zeros)
           new == [st EXCEPT !.conv = r.s, !.epoch = epoch, !.next_pos = 0, !.valid = TRUE,
                             !.prev = Fresh, !.told = <<>>]
<1>1. /\ ~call.on /\ ~closed /\ s \in DOMAIN states /\ ~st.busy /\ r.status = "ok"
      /\ states' = [states EXCEPT ![s] = new]
      /\ UNCHANGED <<version, ready, generation, values, call, granted, changed, workspaces, job,
                     closed, used>>
  BY DEF state_reset_call, Host, rvars
<1>2. RInv' /\ Reads'
  BY <1>1, ReaderStays DEF IInv, Reads, rvars
<1>3. r.s = state_init(epoch, Zeros)
  <2>1. \/ r = Refuse("overflow", conv) \/ r = Refuse("stale", conv)
        \/ r = Result("ok", state_init(epoch, Zeros), <<>>)
    BY DEF state_reset
  <2> HIDE DEF r
  <2>2. r = Result("ok", state_init(epoch, Zeros), <<>>)
    BY <1>1, <2>1, ResultParts DEF Refuse
  <2> QED
    BY <2>2, ResultParts
<1>4. st = Holding(st.told, st.busy, st.epoch) /\ st.busy \in BOOLEAN
  BY <1>1 DEF IInv, StatesHold, StateHolds
<1>5. new = [told |-> <<>>, prev |-> Fresh, conv |-> state_init(epoch, Zeros),
             next_pos |-> 0, valid |-> TRUE, busy |-> st.busy, epoch |-> epoch]
  <2>1. st = [told |-> st.told, prev |-> st.prev, conv |-> st.conv, next_pos |-> st.next_pos,
              valid |-> st.valid, busy |-> st.busy, epoch |-> st.epoch]
    BY <1>4 DEF Holding
  <2>2. new = [st EXCEPT !.conv = state_init(epoch, Zeros), !.epoch = epoch, !.next_pos = 0,
                         !.valid = TRUE, !.prev = Fresh, !.told = <<>>]
    BY <1>3
  <2> HIDE DEF new, st
  <2> QED
    BY <2>1, <2>2
<1>6. StateHolds(new) /\ new.busy = st.busy
  BY <1>4, <1>5, NothingHeld
<1> HIDE DEF new
<1>7. /\ DOMAIN states' = DOMAIN states /\ states'[s] = new
      /\ \A y \in DOMAIN states : y # s => states'[y] = states[y]
  BY <1>1
<1>8. StatesHold'
  BY <1>6, <1>7 DEF IInv, StatesHold, StateHolds
<1>9. HasJob => job.state \in DOMAIN states /\ job.state # s
  BY <1>1 DEF IInv, Handles
<1>10. Handles'
  <2>1. HasJob' = HasJob /\ Record' = Record
    BY <1>1 DEF HasJob, Record
  <2>2. \A y \in DOMAIN states : states'[y].busy <=> states[y].busy
    BY <1>6, <1>7
  <2> QED
    BY <1>1, <1>7, <2>1, <2>2 DEF IInv, Handles
<1>11. Accounts'
  BY <1>1, <1>7 DEF IInv, Accounts, HasJob
<1>12. Phases'
  BY <1>1, <1>7, <1>9, PhasesStay DEF IInv
<1> QED
  BY <1>2, <1>8, <1>10, <1>11, <1>12 DEF IInv

\* workspace_create: its blocks are counted, or undone.
LEMMA WorkspaceCreateKeeps ==
  ASSUME IInv, NEW w, workspace_create(w)
  PROVE  IInv'
<1>1. /\ ~call.on /\ ~closed /\ w \notin DOMAIN workspaces
      /\ UNCHANGED <<version, ready, generation, values, call, granted, changed, states, job, closed>>
  BY DEF workspace_create, Host, rvars
<1>2. RInv' /\ Reads'
  BY <1>1, ReaderStays DEF IInv, Reads, rvars
<1>3. CASE AllocateFails(WorkspaceBlocks) /\ UNCHANGED workspaces
  <2>1. used' = used
    BY <1>3, BlockBytes, FailedAllocation DEF IInv, Accounts
  <2> QED
    BY <1>1, <1>3, <2>1, StutterKeeps DEF vars, rvars, svars
<1>4. ASSUME Allocate(WorkspaceBlocks), workspaces' = With(workspaces, w, FALSE)
      PROVE  IInv'
  <2>1. /\ DOMAIN workspaces' = DOMAIN workspaces \union {w} /\ workspaces'[w] = FALSE
        /\ \A y \in DOMAIN workspaces : workspaces'[y] = workspaces[y]
    <3>1. workspaces' = With(workspaces, w, FALSE)
      BY <1>4
    <3>2. /\ DOMAIN workspaces' = DOMAIN workspaces \union {w} /\ workspaces'[w] = FALSE
          /\ \A y \in DOMAIN workspaces : y # w => workspaces'[y] = workspaces[y]
      BY <3>1 DEF With
    <3> QED
      BY <1>1, <3>2
  <2>2. StatesHold'
    BY <1>1 DEF IInv, StatesHold
  <2>3. /\ IsFiniteSet(DOMAIN workspaces')
        /\ Cardinality(DOMAIN workspaces') = Cardinality(DOMAIN workspaces) + 1
    BY <1>1, <2>1, FS_AddElement DEF IInv, Handles
  <2>4. Handles'
    <3>1. HasJob' = HasJob /\ Record' = Record
      BY <1>1 DEF HasJob, Record
    <3>2. HasJob => job.workspace \subseteq DOMAIN workspaces
      BY DEF IInv, Handles
    <3>3. \A y \in DOMAIN workspaces' :
            workspaces'[y] \in BOOLEAN /\ (workspaces'[y] <=> HasJob /\ y \in job.workspace)
      BY <1>1, <2>1, <3>2 DEF IInv, Handles
    <3> QED
      BY <1>1, <2>1, <2>3, <3>1, <3>3 DEF IInv, Handles
  <2>5. Accounts'
    <3>1. used \in Nat /\ used' = used + Bytes(WorkspaceBlocks) /\ used' <= Budget
      BY <1>4 DEF IInv, Accounts, Allocate
    <3>2. used' = used + 0 * Bytes(StateBlocks) + 1 * Bytes(WorkspaceBlocks)
      BY <3>1, BlockBytes
    <3>3. IsFiniteSet(DOMAIN states) /\ Cardinality(DOMAIN states) \in Nat
      BY FS_CardinalityType DEF IInv, Handles
    <3>4. Cardinality(DOMAIN states') = Cardinality(DOMAIN states) + 0
      BY <1>1, <3>3
    <3> QED
      BY <1>1, <2>3, <3>1, <3>2, <3>3, <3>4, AccountsMove
  <2>6. Phases'
    BY <1>1, PhasesStay DEF IInv
  <2> QED
    BY <1>2, <2>2, <2>4, <2>5, <2>6 DEF IInv
<1> QED
  BY <1>3, <1>4 DEF workspace_create

\* workspace_destroy: only a workspace no job holds.
LEMMA WorkspaceDestroyKeeps ==
  ASSUME IInv, NEW w, workspace_destroy(w)
  PROVE  IInv'
<1>1. /\ ~call.on /\ ~closed /\ w \in DOMAIN workspaces /\ ~workspaces[w]
      /\ workspaces' = Without(workspaces, w) /\ used' = used - Bytes(WorkspaceBlocks)
      /\ UNCHANGED <<version, ready, generation, values, call, granted, changed, states, job, closed>>
  BY DEF workspace_destroy, Host, rvars, Free
<1>2. RInv' /\ Reads'
  BY <1>1, ReaderStays DEF IInv, Reads, rvars
<1>3. /\ DOMAIN workspaces' = DOMAIN workspaces \ {w}
      /\ \A y \in DOMAIN workspaces' : y \in DOMAIN workspaces /\ workspaces'[y] = workspaces[y]
  BY <1>1 DEF Without
<1>4. StatesHold'
  BY <1>1 DEF IInv, StatesHold
<1>5. /\ IsFiniteSet(DOMAIN workspaces')
      /\ Cardinality(DOMAIN workspaces') = Cardinality(DOMAIN workspaces) - 1
  BY <1>1, <1>3, FS_RemoveElement DEF IInv, Handles
<1>6. HasJob => job.workspace \subseteq DOMAIN workspaces'
  BY <1>1, <1>3 DEF IInv, Handles
<1>7. Handles'
  <2>1. HasJob' = HasJob /\ Record' = Record
    BY <1>1 DEF HasJob, Record
  <2> QED
    BY <1>1, <1>3, <1>5, <1>6, <2>1 DEF IInv, Handles
<1>8. Accounts'
  <2>1. IsFiniteSet(DOMAIN states) /\ Cardinality(DOMAIN states) \in Nat
    BY FS_CardinalityType DEF IInv, Handles
  <2>2. used \in Nat /\ used <= Budget /\ Budget \in Nat
    BY StoreAssumption DEF IInv, Accounts
  <2> DEFINE b == Bytes(StateBlocks)
             c == Bytes(WorkspaceBlocks)
  <2>b. b \in Nat /\ c \in Nat /\ used' = used - c
    BY <1>1, BlockBytes
  <2> HIDE DEF b, c
  <2>3. used' = used + (0 * b) + ((-1) * c) /\ used' <= Budget
    BY <2>2, <2>b
  <2>4. /\ Cardinality(DOMAIN states') = Cardinality(DOMAIN states) + 0
        /\ Cardinality(DOMAIN workspaces') = Cardinality(DOMAIN workspaces) + (-1)
    BY <1>1, <1>5, <2>1, FS_CardinalityType DEF IInv, Handles
  <2> QED
    BY <1>1, <1>5, <2>1, <2>3, <2>4, AccountsMove DEF b, c
<1>9. Phases'
  BY <1>1, PhasesStay DEF IInv
<1> QED
  BY <1>2, <1>4, <1>7, <1>8, <1>9 DEF IInv

\* ngram_close: refused while a handle lives.
LEMMA CloseKeeps ==
  ASSUME IInv, ngram_close
  PROVE  IInv'
<1>1. /\ ~call.on /\ ~HasJob /\ DOMAIN states = {} /\ DOMAIN workspaces = {} /\ closed' = TRUE
      /\ UNCHANGED <<version, ready, generation, values, call, granted, changed, states, workspaces,
                     job, used>>
  BY DEF ngram_close, Host, rvars
<1>2. RInv' /\ Reads'
  BY <1>1, ReaderStays DEF IInv, Reads, rvars
<1>3. StatesHold'
  BY <1>1 DEF StatesHold
<1>4. Handles'
  BY <1>1 DEF IInv, Handles, HasJob
<1>5. Accounts' /\ Phases'
  BY <1>1 DEF IInv, Accounts, Phases, HasJob
<1> QED
  BY <1>2, <1>3, <1>4, <1>5 DEF IInv

-----------------------------------------------------------------------------
(* The actions on the job.                                                 *)

\* The job goes on to another phase, and nothing else is touched.
LEMMA Relabelled ==
  ASSUME IInv, HasJob, NEW ph, ph # "none", NEW lease,
         job' = [job EXCEPT !.phase = ph, !.lease = lease],
         changed' \in BOOLEAN, UNCHANGED <<used, states, workspaces, closed>>
  PROVE  /\ StatesHold' /\ Handles' /\ Accounts' /\ HasJob'
         /\ job'.phase = ph /\ job'.lease = lease
         /\ job'.state = job.state /\ job'.tokens = job.tokens /\ job'.position = job.position
         /\ job'.ids = job.ids /\ job'.next = job.next /\ job'.candidate = job.candidate
         /\ job'.workspace = job.workspace /\ job'.delta = job.delta
<1>1. job = Record
  BY DEF IInv, Handles
<1>2. job' = [phase |-> ph, state |-> job.state, tokens |-> job.tokens, position |-> job.position,
              epoch |-> job.epoch, ids |-> job.ids, next |-> job.next,
              candidate |-> job.candidate, lease |-> lease, workspace |-> job.workspace,
              delta |-> job.delta]
  BY <1>1 DEF Record
<1>3. /\ job'.phase = ph /\ job'.lease = lease /\ job'.epoch = job.epoch
      /\ job'.state = job.state /\ job'.tokens = job.tokens /\ job'.position = job.position
      /\ job'.ids = job.ids /\ job'.next = job.next /\ job'.candidate = job.candidate
      /\ job'.workspace = job.workspace /\ job'.delta = job.delta
  BY <1>2
<1>4. HasJob'
  BY <1>3 DEF HasJob
<1>5. StatesHold'
  BY DEF IInv, StatesHold
<1>6. Handles'
  <2>1. job' = Record'
    BY <1>2, <1>3 DEF Record
  <2> QED
    BY <1>3, <1>4, <2>1 DEF IInv, Handles
<1>7. Accounts'
  BY <1>3, <1>4 DEF IInv, Accounts
<1> QED
  BY <1>3, <1>4, <1>5, <1>6, <1>7

\* A job whose phase promises nothing.
LEMMA NothingPromised ==
  ASSUME HasJob' => job'.phase \in {"aborted", "committed"}
  PROVE  Phases'
BY DEF Phases

\* abort: the job promises nothing any more, and still holds its state.
LEMMA AbortKeeps ==
  ASSUME IInv, abort
  PROVE  IInv'
<1>1. /\ ~call.on /\ ~closed /\ HasJob /\ job' = [job EXCEPT !.phase = "aborted", !.lease = NoLease]
      /\ UNCHANGED <<version, ready, generation, values, call, granted, used, changed, states,
                     workspaces, closed>>
  BY DEF abort, Host, Admissible, rvars
<1>2. RInv' /\ Reads'
  BY <1>1, ReaderStays DEF IInv, Reads, rvars
<1>3. StatesHold' /\ Handles' /\ Accounts' /\ HasJob' /\ job'.phase = "aborted"
  <2>1. changed' \in BOOLEAN
    BY <1>1 DEF IInv, Handles
  <2> QED
    BY <1>1, <2>1, Relabelled
<1> QED
  BY <1>2, <1>3, NothingPromised DEF IInv

\* The file changes under the store: its flag, and no state.
LEMMA ModifiedKeeps ==
  ASSUME IInv, Modified
  PROVE  IInv'
<1>1. Modify /\ UNCHANGED <<used, changed, states, workspaces, job, closed, call, granted>>
  BY DEF Modified, svars, Modify
<1>2. RInv'
  BY <1>1, ModifyKeeps, ReaderAssumption DEF IInv
<1>3. StatesHold' /\ Handles'
  BY <1>1 DEF IInv, StatesHold, Handles, HasJob, Record
<1>4. Accounts' /\ Reads'
  BY <1>1 DEF IInv, Accounts, Reads, HasJob
<1>5. Phases'
  BY <1>1 DEF IInv, Phases, HasJob
<1> QED
  BY <1>2, <1>3, <1>4, <1>5 DEF IInv

\* What the reader does with the call of a job.
LEMMA AdvanceFacts ==
  ASSUME RInv, Advance
  PROVE  /\ call.on /\ generation' = generation
         /\ call'.on => call'.rows = call.rows /\ granted' = granted
         /\ ~call'.on /\ call'.status = "ok" =>
              generation \in DOMAIN granted' /\ granted'[generation] = call.rows
<1>i. \A status : Idle(status).on = FALSE /\ Idle(status).status = status
  BY DEF Idle
<1>1. CASE Transfer
  <2>1. call.on /\ UNCHANGED <<generation, granted>>
    BY <1>1 DEF Transfer
  <2>2. \/ call' = Idle("nonfinite")
        \/ \E raw : call' = [call EXCEPT !.raw = raw]
        \/ \E e : call' = [call EXCEPT !.begin = e, !.raw = <<>>]
    BY <1>1 DEF Transfer
  <2>3. CASE call' = Idle("nonfinite")
    BY <1>i, <2>1, <2>3
  <2>4. CASE \E raw : call' = [call EXCEPT !.raw = raw]
    BY <2>1, <2>4 DEF RInv, Shape
  <2>5. CASE \E e : call' = [call EXCEPT !.begin = e, !.raw = <<>>]
    BY <2>1, <2>5 DEF RInv, Shape
  <2> QED
    BY <2>2, <2>3, <2>4, <2>5
<1>2. CASE Fault
  <2>1. call.on /\ UNCHANGED <<generation, granted>>
    BY <1>2 DEF Fault
  <2>2. call' = Idle("io") \/ call' = Idle("eof")
    BY <1>2 DEF Fault
  <2> QED
    BY <1>i, <2>1, <2>2
<1>3. CASE Finish
  <2>1. call.on /\ UNCHANGED generation
    BY <1>3 DEF Finish
  <2>2. CASE Verified
    <3>1. /\ call' = Idle("ok")
          /\ granted' = [g \in DOMAIN granted \union {generation} |->
                           IF g = generation THEN call.rows ELSE granted[g]]
      BY <1>3, <2>2 DEF Finish
    <3> QED
      BY <1>i, <2>1, <3>1
  <2>3. CASE ~Verified
    <3>1. call' = Idle("stale")
      BY <1>3, <2>3 DEF Finish
    <3> QED
      BY <1>i, <2>1, <3>1
  <2> QED
    BY <2>2, <2>3
<1> QED
  BY <1>1, <1>2, <1>3 DEF Advance

\* The reader advances within the call the job waits for.
LEMMA ReadingKeeps ==
  ASSUME IInv, reading
  PROVE  IInv'
<1>1. Advance /\ Returned /\ UNCHANGED <<used, states, workspaces, closed>>
  BY DEF reading
<1>2. RInv'
  BY <1>1, TransferKeeps, FaultKeeps, FinishKeeps, ReaderAssumption DEF IInv, Advance
<1>3. /\ call.on /\ generation' = generation
      /\ call'.on => call'.rows = call.rows /\ granted' = granted
      /\ ~call'.on /\ call'.status = "ok" =>
           generation \in DOMAIN granted' /\ granted'[generation] = call.rows
  BY <1>1, AdvanceFacts DEF IInv
<1>4. HasJob /\ ~closed /\ job.phase = "prepared" /\ call.rows = job.ids /\ changed \in BOOLEAN
  BY <1>3 DEF IInv, Reads, HasJob, Handles
<1>5. CASE call'.on
  <2>1. UNCHANGED <<job, changed>>
    BY <1>1, <1>5 DEF Returned
  <2>2. StatesHold' /\ Handles'
    BY <1>1, <2>1 DEF IInv, StatesHold, Handles, HasJob, Record
  <2>3. Accounts' /\ Reads'
    BY <1>1, <1>3, <1>4, <1>5, <2>1 DEF IInv, Accounts, Reads, HasJob
  <2>4. Phases'
    BY <1>1, <1>3, <1>5, <2>1, PhasesStay DEF IInv
  <2> QED
    BY <1>2, <2>2, <2>3, <2>4 DEF IInv
<1>6. CASE ~call'.on
  <2> DEFINE ph == IF call'.status = "ok" THEN "ready" ELSE "aborted"
             lease == IF call'.status = "ok" THEN generation' ELSE NoLease
  <2>1. /\ job' = [job EXCEPT !.phase = ph, !.lease = lease]
        /\ changed' = (changed \/ call'.status = "stale")
    BY <1>1, <1>6 DEF Returned
  <2>2. changed' \in BOOLEAN /\ ph # "none"
    BY <1>4, <2>1
  <2>3. /\ StatesHold' /\ Handles' /\ Accounts' /\ HasJob'
        /\ job'.phase = ph /\ job'.lease = lease
        /\ job'.state = job.state /\ job'.tokens = job.tokens /\ job'.position = job.position
        /\ job'.ids = job.ids /\ job'.next = job.next /\ job'.candidate = job.candidate
        /\ job'.workspace = job.workspace
    <3> HIDE DEF ph, lease
    <3> QED
      BY <1>1, <1>4, <2>1, <2>2, Relabelled
  <2>4. Reads'
    BY <1>6 DEF Reads
  <2>5. Phases'
    <3>1. CASE call'.status = "ok"
      <4>1. job'.phase = "ready" /\ job'.lease \in DOMAIN granted' /\ granted'[job'.lease] = job.ids
        BY <1>3, <1>4, <1>6, <2>3, <3>1
      <4> QED
        BY <1>1, <1>4, <2>3, <4>1 DEF IInv, Phases
    <3>2. CASE call'.status # "ok"
      BY <2>3, <3>2, NothingPromised
    <3> QED
      BY <3>1, <3>2
  <2> QED
    BY <1>2, <2>3, <2>4, <2>5 DEF IInv
<1> QED
  BY <1>5, <1>6

\* The state a job will be published to.
LEMMA StateOfJob ==
  ASSUME IInv, HasJob
  PROVE  LET st == states[job.state] IN
         /\ job.state \in DOMAIN states /\ job.tokens \in Seq(Ids)
         /\ st.told \in Seq(Ids) /\ st.busy = TRUE /\ st = Holding(st.told, TRUE, st.epoch)
         /\ st.prev = Next_prev(Config, Fresh, st.told) /\ st.prev \in Histories
         /\ st.next_pos = Len(st.told) /\ st.valid = TRUE
         /\ st.conv = [epoch |-> st.epoch, next_pos |-> Len(st.told), valid |-> TRUE,
                       data |-> Shift(Zeros, OneShotRows(st.told))]
<1> DEFINE st == states[job.state]
<1>1. job.state \in DOMAIN states /\ job.tokens \in Seq(Ids)
  BY DEF IInv, Handles
<1>2. st.told \in Seq(Ids) /\ st.busy \in BOOLEAN /\ st = Holding(st.told, st.busy, st.epoch)
  BY <1>1 DEF IInv, StatesHold, StateHolds
<1>3. st.busy = TRUE
  BY <1>1, <1>2 DEF IInv, Handles
<1>4. /\ st.prev = Next_prev(Config, Fresh, st.told) /\ st.next_pos = Len(st.told) /\ st.valid = TRUE
      /\ st.conv = [epoch |-> st.epoch, next_pos |-> Len(st.told), valid |-> TRUE,
                    data |-> Shift(Zeros, OneShotRows(st.told))]
  <2> HIDE DEF st
  <2> QED
    BY <1>2 DEF Holding
<1>5. st.prev \in Histories
  BY <1>2, <1>4, FreshHistory, NextPrevType
<1> HIDE DEF st
<1> QED
  BY <1>1, <1>2, <1>3, <1>4, <1>5 DEF st

\* read: the call asks for the rows the job planned.
LEMMA ReadKeeps ==
  ASSUME IInv, read
  PROVE  IInv'
<1>1. /\ Host /\ HasJob /\ job.phase = "prepared" /\ Begin(job.ids) /\ Returned
      /\ UNCHANGED <<used, states, workspaces, closed>>
  BY DEF read, Admissible
<1>2. job.ids \in Seq(0 .. Rows)
  <2>1. job.ids = ngram_ids(Config, states[job.state].prev, job.tokens)
    BY <1>1 DEF IInv, Phases
  <2>2. job.ids \in Seq(0 .. Rows - 1)
    BY <1>1, <2>1, StateOfJob, IdsOfChunk
  <2>3. 0 .. Rows - 1 \subseteq 0 .. Rows
    BY ReaderAssumption
  <2> DEFINE S == 0 .. Rows - 1
             T == 0 .. Rows
  <2> HIDE DEF S, T
  <2>4. job.ids \in Seq(S) /\ S \subseteq T
    BY <2>2, <2>3 DEF S, T
  <2>5. job.ids \in Seq(T)
    BY <2>4
  <2> QED
    BY <2>5 DEF T
<1>3. RInv'
  BY <1>1, <1>2, BeginKeeps, ReaderAssumption DEF IInv
<1>4. granted' = granted /\ changed \in BOOLEAN /\ ~closed
  BY <1>1 DEF Begin, IInv, Handles, Host
<1>5. CASE call'.on
  <2>1. UNCHANGED <<job, changed>>
    BY <1>1, <1>5 DEF Returned
  <2>2. call'.rows = job.ids
    <3>1. CASE Refused(job.ids) # "ok"
      BY <1>1, <1>5, <3>1, IdleOff DEF Begin
    <3>2. CASE Refused(job.ids) = "ok"
      BY <1>1, <3>2 DEF Begin
    <3> QED
      BY <3>1, <3>2
  <2>3. StatesHold' /\ Handles'
    BY <1>1, <2>1 DEF IInv, StatesHold, Handles, HasJob, Record
  <2>4. Accounts' /\ Reads'
    BY <1>1, <1>4, <2>1, <2>2 DEF IInv, Accounts, Reads, HasJob
  <2>5. Phases'
    BY <1>1, <1>4, <2>1, PhasesStay DEF IInv
  <2> QED
    BY <1>3, <2>3, <2>4, <2>5 DEF IInv
<1>6. CASE ~call'.on
  <2>1. call'.status # "ok"
    <3>1. CASE Refused(job.ids) # "ok"
      BY <1>1, <3>1 DEF Begin, Idle
    <3>2. CASE Refused(job.ids) = "ok"
      BY <1>1, <1>6, <3>2 DEF Begin
    <3> QED
      BY <3>1, <3>2
  <2>2. /\ job' = [job EXCEPT !.phase = "aborted", !.lease = NoLease]
        /\ changed' = (changed \/ call'.status = "stale")
    BY <1>1, <1>6, <2>1 DEF Returned
  <2>3. changed' \in BOOLEAN
    BY <1>4, <2>2
  <2>4. StatesHold' /\ Handles' /\ Accounts' /\ HasJob' /\ job'.phase = "aborted"
    BY <1>1, <2>2, <2>3, Relabelled
  <2>5. Reads' /\ Phases'
    BY <1>6, <2>4, NothingPromised DEF Reads
  <2> QED
    BY <1>3, <2>4, <2>5 DEF IInv
<1> QED
  BY <1>5, <1>6

\* An empty chunk leaves a convolution as it is.
LEMMA EmptyChunk ==
  ASSUME NEW old \in Seq(Ids), NEW epoch, NEW conv,
         conv = [epoch |-> epoch, next_pos |-> Len(old), valid |-> TRUE,
                 data |-> Shift(Zeros, OneShotRows(old))]
  PROVE  conv = Moved(conv, 0, RowsFor(Next_prev(Config, Fresh, old), <<>>))
<1> DEFINE rows == RowsFor(Next_prev(Config, Fresh, old), <<>>)
           halo == Shift(Zeros, OneShotRows(old))
           new == [conv EXCEPT !.next_pos = @ + 0, !.data = Shift(@, rows)]
<1>1. <<>> \in Seq(Ids) /\ old \o <<>> = old /\ Len(old) + 0 = Len(old)
  <2>1. old \o <<>> = old /\ <<>> \in Seq(Ids)
    BY ConcatEmptySeq, EmptySeq
  <2>2. Len(old) \in Nat
    BY LenProperties
  <2> QED
    BY <2>1, <2>2
<1>2. Shift(halo, rows) = halo
  <2> DEFINE none == <<>>
             more == RowsFor(Next_prev(Config, Fresh, old), none)
  <2>1. none \in Seq(Ids) /\ old \o none = old
    BY <1>1
  <2> HIDE DEF none
  <2>2. Shift(Shift(Zeros, OneShotRows(old)), more) = Shift(Zeros, OneShotRows(old \o none))
    BY <2>1, HoldingMore
  <2>3. more = rows
    BY DEF none
  <2> HIDE DEF more, rows
  <2> QED
    BY <2>1, <2>2, <2>3
<1>3. new = [conv EXCEPT !.next_pos = Len(old), !.data = halo]
  <2> HIDE DEF rows, halo
  <2> QED
    BY <1>1, <1>2 DEF halo
<1> HIDE DEF new, halo
<1>4. new = [epoch |-> epoch, next_pos |-> Len(old), valid |-> TRUE, data |-> halo]
  BY <1>3 DEF halo
<1>5. new = conv
  BY <1>4 DEF halo
<1> QED
  BY <1>5 DEF new, Moved

\* prepare: position, rows and next history of the state the job takes.
LEMMA PrepareKeeps ==
  ASSUME IInv, NEW s, NEW tokens \in Seq(Ids), NEW position, prepare(s, tokens, position)
  PROVE  IInv'
<1> DEFINE st == states[s]
           n == Len(tokens)
           c == Candidate(st.conv)
<1>1. /\ ~call.on /\ ~closed /\ s \in DOMAIN states /\ ~HasJob /\ position = st.next_pos
      /\ UNCHANGED <<version, ready, generation, values, call, granted, changed, workspaces, closed>>
  BY DEF prepare, Host, rvars
<1>2. RInv' /\ Reads'
  BY <1>1, ReaderStays DEF IInv, Reads, rvars
<1>3. CASE AllocateFails(JobBlocks(n)) /\ UNCHANGED <<states, job>>
  <2>1. n \in Nat /\ JobBlocks(n) \in Seq(Nat)
    BY LenProperties, BlockBytes
  <2>2. used' = used
    BY <1>3, <2>1, FailedAllocation DEF IInv, Accounts
  <2> QED
    BY <1>1, <1>3, <2>2, StutterKeeps DEF vars, rvars, svars
<1>4. ASSUME Allocate(JobBlocks(n)),
             job' = [phase |-> IF n = 0 THEN "computed" ELSE "prepared",
                     state |-> s, tokens |-> tokens, position |-> position, epoch |-> st.epoch,
                     ids |-> ngram_ids(Config, st.prev, tokens),
                     next |-> Next_prev(Config, st.prev, tokens),
                     candidate |-> c.s, lease |-> NoLease, workspace |-> {}, delta |-> <<>>],
             states' = [states EXCEPT ![s].busy = TRUE]
      PROVE  IInv'
  <2> DEFINE new == states'[s]
             rows == RowsFor(st.prev, tokens)
  <2>1. st.told \in Seq(Ids) /\ st = Holding(st.told, st.busy, st.epoch)
    BY <1>1 DEF IInv, StatesHold, StateHolds
  <2>2. /\ st.prev = Next_prev(Config, Fresh, st.told) /\ st.next_pos = Len(st.told)
        /\ st.conv = [epoch |-> st.epoch, next_pos |-> Len(st.told), valid |-> TRUE,
                      data |-> Shift(Zeros, OneShotRows(st.told))]
    <3> HIDE DEF st
    <3> QED
      BY <2>1 DEF Holding
  <2>3. c.s = st.conv
    BY <2>2, CandidateCopies
  <2>4. /\ DOMAIN states' = DOMAIN states /\ new = [st EXCEPT !.busy = TRUE]
        /\ \A y \in DOMAIN states : y # s => states'[y] = states[y]
    BY <1>1, <1>4
  <2>5. /\ new = Holding(st.told, TRUE, st.epoch) /\ new.told = st.told /\ new.busy = TRUE
        /\ new.epoch = st.epoch /\ new.prev = st.prev /\ new.conv = st.conv
    <3>1. st = [told |-> st.told, prev |-> st.prev, conv |-> st.conv, next_pos |-> st.next_pos,
                valid |-> st.valid, busy |-> st.busy, epoch |-> st.epoch]
      BY <2>1 DEF Holding
    <3> HIDE DEF st, new
    <3>2. new = [told |-> st.told, prev |-> st.prev, conv |-> st.conv, next_pos |-> st.next_pos,
                 valid |-> st.valid, busy |-> TRUE, epoch |-> st.epoch]
      BY <2>4, <3>1
    <3>3. st.valid = TRUE
      BY <2>1 DEF Holding
    <3> QED
      BY <2>2, <3>2, <3>3 DEF Holding
  <2>6. StatesHold'
    <3>1. StateHolds(new)
      <4> HIDE DEF new
      <4> QED
        BY <2>1, <2>5 DEF StateHolds
    <3>2. \A y \in DOMAIN states' : StateHolds(states'[y])
      BY <2>4, <3>1 DEF IInv, StatesHold
    <3> QED
      BY <3>2 DEF StatesHold, StateHolds
  <2> HIDE DEF c, st, new
  <2>7. /\ job'.phase = (IF n = 0 THEN "computed" ELSE "prepared") /\ job'.state = s
        /\ job'.tokens = tokens /\ job'.position = position /\ job'.workspace = {}
        /\ job'.ids = ngram_ids(Config, st.prev, tokens)
        /\ job'.next = Next_prev(Config, st.prev, tokens)
        /\ job'.candidate = st.conv /\ job'.delta = <<>> /\ job' = Record'
    BY <1>4, <2>3 DEF Record
  <2>8. HasJob'
    BY <2>7 DEF HasJob
  <2>9. Handles'
    <3>1. \A y \in DOMAIN states' : states'[y].busy <=> s = y
      BY <1>1, <2>4, <2>5 DEF IInv, Handles, new
    <3>2. \A w \in DOMAIN workspaces' : workspaces'[w] \in BOOLEAN /\ ~workspaces'[w]
      BY <1>1 DEF IInv, Handles
    <3>3. IsFiniteSet(DOMAIN states') /\ IsFiniteSet(DOMAIN workspaces')
      BY <1>1, <2>4 DEF IInv, Handles
    <3>4. closed' \in BOOLEAN /\ changed' \in BOOLEAN /\ ~closed'
      BY <1>1 DEF IInv, Handles
    <3> QED
      BY <1>1, <2>4, <2>7, <2>8, <3>1, <3>2, <3>3, <3>4 DEF Handles
  <2>10. Accounts'
    <3> DEFINE a == Cardinality(DOMAIN states) * Bytes(StateBlocks)
               b == Cardinality(DOMAIN workspaces) * Bytes(WorkspaceBlocks)
               j == Bytes(JobBlocks(n))
    <3>1. used \in Nat /\ used = Fixed + a + b + 0 /\ used' = used + j /\ used + j <= Budget
      BY <1>1, <1>4 DEF IInv, Accounts, Allocate
    <3>2. a' = a /\ b' = b
      BY <1>1, <2>4
    <3>3. j \in Nat /\ a \in Nat /\ b \in Nat /\ Fixed \in Nat
      <4>1. Cardinality(DOMAIN states) \in Nat /\ Cardinality(DOMAIN workspaces) \in Nat
        BY FS_CardinalityType DEF IInv, Handles
      <4>2. n \in Nat
        BY LenProperties
      <4>3. 0 \in {-1, 0, 1}
        OBVIOUS
      <4> QED
        BY <4>1, <4>2, <4>3, BlockBytes, Multiple, StoreAssumption DEF Fixed
    <3>4. (IF HasJob' THEN Bytes(JobBlocks(Len(job'.tokens))) ELSE 0) = j
      BY <2>7, <2>8
    <3> HIDE DEF a, b, j
    <3>5. used' \in Nat /\ used' <= Budget /\ used' = Fixed + a' + b' + j
      BY <3>1, <3>2, <3>3
    <3> QED
      BY <3>4, <3>5 DEF Accounts, a, b
  <2>11. Phases'
    <3>1. CASE n = 0
      <4>1. tokens = <<>>
        BY <3>1, EmptySeq
      <4>2. st.conv = Moved(st.conv, 0, RowsFor(Next_prev(Config, Fresh, st.told), <<>>))
        BY <2>1, <2>2, EmptyChunk
      <4>3. <<>> = Deltas(st.conv, n, rows)
        BY <3>1 DEF Deltas
      <4>4. st.conv = Moved(st.conv, n, rows) /\ n = Len(tokens)
        BY <2>2, <3>1, <4>1, <4>2
      <4> HIDE DEF n, rows
      <4>5. job'.phase = "computed"
        BY <2>7, <3>1
      <4>6. /\ states'[job'.state] = new /\ new.conv = st.conv /\ new.prev = st.prev
            /\ new.told = st.told
        BY <2>5, <2>7 DEF new
      <4>7. RowsFor(states'[job'.state].prev, job'.tokens) = rows
        BY <2>7, <4>6 DEF rows
      <4>8. /\ job'.candidate = Moved(states'[job'.state].conv, Len(job'.tokens), rows)
            /\ job'.delta = Deltas(states'[job'.state].conv, Len(job'.tokens), rows)
        BY <2>7, <4>3, <4>4, <4>6
      <4>9. /\ job'.position = Len(states'[job'.state].told)
            /\ job'.ids = ngram_ids(Config, states'[job'.state].prev, job'.tokens)
            /\ job'.next = Next_prev(Config, states'[job'.state].prev, job'.tokens)
        BY <1>1, <2>2, <2>7, <4>6
      <4> QED
        BY <4>5, <4>7, <4>8, <4>9 DEF Phases
    <3>2. CASE n # 0
      <4>1. tokens # <<>>
        BY <3>2
      <4> HIDE DEF n
      <4> QED
        BY <1>1, <2>2, <2>5, <2>7, <3>2, <4>1 DEF Phases, new
    <3> QED
      BY <3>1, <3>2
  <2> QED
    BY <1>2, <2>6, <2>9, <2>10, <2>11 DEF IInv
<1> QED
  BY <1>3, <1>4, Zenon DEF prepare

\* job_release: its bytes, its state and its workspace are given back.
LEMMA ReleaseKeeps ==
  ASSUME IInv, job_release
  PROVE  IInv'
<1> DEFINE s == job.state
           st == states[s]
           new == states'[s]
<1>1. /\ ~call.on /\ ~closed /\ HasJob /\ job' = NoJob
      /\ workspaces' = [w \in DOMAIN workspaces |-> workspaces[w] /\ w \notin job.workspace]
      /\ states' = [states EXCEPT ![s].busy = FALSE]
      /\ used' = used - Bytes(JobBlocks(Len(job.tokens)))
      /\ UNCHANGED <<version, ready, generation, values, call, granted, changed, closed>>
  BY DEF job_release, Host, rvars, Free
<1>2. RInv' /\ Reads'
  BY <1>1, ReaderStays DEF IInv, Reads, rvars
<1>3. ~HasJob'
  BY <1>1 DEF HasJob, NoJob
<1>4. s \in DOMAIN states /\ st.told \in Seq(Ids) /\ st = Holding(st.told, TRUE, st.epoch)
  BY <1>1, StateOfJob
<1>5. /\ DOMAIN states' = DOMAIN states /\ new = [st EXCEPT !.busy = FALSE]
      /\ \A y \in DOMAIN states : y # s => states'[y] = states[y]
  BY <1>1, <1>4
<1>6. /\ new = Holding(st.told, FALSE, st.epoch) /\ new.told = st.told /\ new.busy = FALSE
      /\ new.epoch = st.epoch
  <2>1. st = [told |-> st.told, prev |-> st.prev, conv |-> st.conv, next_pos |-> st.next_pos,
              valid |-> st.valid, busy |-> st.busy, epoch |-> st.epoch]
    BY <1>4 DEF Holding
  <2>2. /\ st.prev = Next_prev(Config, Fresh, st.told) /\ st.next_pos = Len(st.told) /\ st.valid = TRUE
        /\ st.conv = [epoch |-> st.epoch, next_pos |-> Len(st.told), valid |-> TRUE,
                      data |-> Shift(Zeros, OneShotRows(st.told))]
    BY <1>1, StateOfJob
  <2> HIDE DEF st, new
  <2>3. new = [told |-> st.told, prev |-> st.prev, conv |-> st.conv, next_pos |-> st.next_pos,
               valid |-> st.valid, busy |-> FALSE, epoch |-> st.epoch]
    BY <1>5, <2>1
  <2> QED
    BY <2>2, <2>3 DEF Holding
<1>7. StatesHold'
  <2>1. StateHolds(new)
    <3> HIDE DEF new, st
    <3> QED
      BY <1>4, <1>6 DEF StateHolds
  <2>2. \A y \in DOMAIN states' : StateHolds(states'[y])
    BY <1>5, <2>1 DEF IInv, StatesHold
  <2> QED
    BY <2>2 DEF StatesHold, StateHolds
<1>8. Handles'
  <2>1. \A y \in DOMAIN states' : ~states'[y].busy
    BY <1>1, <1>5, <1>6 DEF IInv, Handles
  <2>2. /\ DOMAIN workspaces' = DOMAIN workspaces
        /\ \A w \in DOMAIN workspaces' : workspaces'[w] \in BOOLEAN /\ ~workspaces'[w]
    BY <1>1 DEF IInv, Handles
  <2>3. /\ IsFiniteSet(DOMAIN states') /\ IsFiniteSet(DOMAIN workspaces')
        /\ closed' \in BOOLEAN /\ changed' \in BOOLEAN /\ ~closed'
    BY <1>1, <1>5, <2>2 DEF IInv, Handles
  <2> QED
    BY <1>3, <2>1, <2>2, <2>3 DEF Handles
<1>9. Accounts'
  <2> DEFINE a == Cardinality(DOMAIN states) * Bytes(StateBlocks)
             b == Cardinality(DOMAIN workspaces) * Bytes(WorkspaceBlocks)
             j == Bytes(JobBlocks(Len(job.tokens)))
  <2>1. used \in Nat /\ used = Fixed + a + b + j /\ used' = used - j /\ used <= Budget
    BY <1>1 DEF IInv, Accounts
  <2>2. a' = a /\ b' = b
    <3>1. DOMAIN workspaces' = DOMAIN workspaces
      BY <1>1
    <3> QED
      BY <1>5, <3>1
  <2>3. j \in Nat /\ a \in Nat /\ b \in Nat /\ Fixed \in Nat /\ Budget \in Nat
    <3>1. Cardinality(DOMAIN states) \in Nat /\ Cardinality(DOMAIN workspaces) \in Nat
      BY FS_CardinalityType DEF IInv, Handles
    <3>2. Len(job.tokens) \in Nat
      BY <1>1, LenProperties DEF IInv, Handles
    <3>3. 0 \in {-1, 0, 1}
      OBVIOUS
    <3> QED
      BY <3>1, <3>2, <3>3, BlockBytes, Multiple, StoreAssumption DEF Fixed
  <2> HIDE DEF a, b, j
  <2>4. used' \in Nat /\ used' <= Budget /\ used' = Fixed + a' + b' + 0
    BY <2>1, <2>2, <2>3
  <2> QED
    BY <1>3, <2>4 DEF Accounts, a, b
<1>10. Phases'
  BY <1>3 DEF Phases
<1> QED
  BY <1>2, <1>7, <1>8, <1>9, <1>10 DEF IInv

\* The values a current lease serves are the rows of the job's chunk.
LEMMA RowsServed ==
  ASSUME IInv, HasJob, job.phase = "ready", ~RowsFail
  PROVE  [t \in 1 .. Len(job.tokens) |-> RowsOf(t)] = RowsFor(states[job.state].prev, job.tokens)
<1> DEFINE prev == states[job.state].prev
           ids == ngram_ids(Config, prev, job.tokens)
           n == Len(job.tokens)
           rows == RowsFor(prev, job.tokens)
<1>1. prev \in Histories /\ job.tokens \in Seq(Ids)
  BY StateOfJob
<1>2. /\ job.tokens # <<>> /\ job.ids = ids /\ job.lease \in DOMAIN granted
      /\ granted[job.lease] = ids
  BY DEF IInv, Phases
<1>3. Current(job.lease)
  BY <1>2 DEF RowsFail
<1>4. \A i \in DOMAIN ids : values[i] = Content(ids[i])
  BY <1>2, <1>3 DEF IInv, RInv, LeaseServesItsRows
<1>5. /\ ids \in Seq(0 .. Rows - 1)
      /\ \A t \in 1 .. n, h \in 1 .. Heads : ((t - 1) * Heads) + h \in 1 .. Len(ids)
  <2> HIDE DEF prev
  <2> QED
    BY <1>1, IdsOfChunk
<1>6. DOMAIN ids = 1 .. Len(ids)
  <2> DEFINE S == 0 .. Rows - 1
  <2> HIDE DEF ids, S
  <2>1. ids \in Seq(S)
    BY <1>5 DEF S
  <2> QED
    BY <2>1, LenProperties
<1>7. rows = [t \in 1 .. n |-> [h \in 1 .. Heads |-> Content(ids[((t - 1) * Heads) + h])]]
  BY DEF RowsFor
<1> HIDE DEF ids, rows
<1>8. \A t \in 1 .. n, h \in 1 .. Heads :
        values[((t - 1) * Heads) + h] = Content(ids[((t - 1) * Heads) + h])
  BY <1>4, <1>5, <1>6
<1>9. \A t \in 1 .. n : RowsOf(t) = [h \in 1 .. Heads |-> Content(ids[((t - 1) * Heads) + h])]
  BY <1>8 DEF RowsOf
<1> QED
  BY <1>7, <1>9 DEF rows

\* ple_cpu: the candidate after the chunk and its Delta, or an aborted job.
LEMMA PleKeeps ==
  ASSUME IInv, NEW w, ple_cpu(w)
  PROVE  IInv'
<1> DEFINE x == [t \in 1 .. Len(job.tokens) |-> RowsOf(t)]
           st == states[job.state]
           rows == RowsFor(st.prev, job.tokens)
           r(finite) == conv_causal(job.candidate, x, job.position, finite)
<1>1. /\ ~call.on /\ ~closed /\ HasJob /\ w \in DOMAIN workspaces /\ ~workspaces[w]
      /\ job.phase = "ready"
      /\ UNCHANGED <<version, ready, generation, values, call, granted, used, states, closed>>
  BY DEF ple_cpu, Host, Admissible, rvars
<1>2. RInv' /\ Reads'
  <2>1. RInv'
    BY <1>1, ReaderStays DEF IInv, rvars
  <2> QED
    BY <1>1, <2>1 DEF Reads
<1>3. StatesHold'
  BY <1>1 DEF IInv, StatesHold
<1>4. CASE RowsFail
  <2>1. job' = job /\ workspaces' = workspaces
        /\ changed' = (changed \/ (Current(job.lease) /\ ~unchanged))
    BY <1>4 DEF ple_cpu
  <2>2. changed' \in BOOLEAN
    BY <2>1 DEF IInv, Handles
  <2>3. Handles'
    BY <1>1, <2>1, <2>2 DEF IInv, Handles, HasJob, Record
  <2>4. Accounts' /\ Phases'
    <3>1. Accounts'
      BY <1>1, <2>1 DEF IInv, Accounts, HasJob
    <3> QED
      BY <1>1, <2>1, <3>1, PhasesStay DEF IInv
  <2> QED
    BY <1>2, <1>3, <2>3, <2>4 DEF IInv
<1>5. CASE ~RowsFail
  <2>1. /\ workspaces' = [workspaces EXCEPT ![w] = TRUE] /\ changed' = changed
        /\ \/ job' = [job EXCEPT !.phase = "aborted", !.workspace = {w}]
           \/ \E finite \in BOOLEAN :
                \/ job' = [job EXCEPT !.candidate = r(finite).s, !.phase = "aborted", !.workspace = {w}]
                \/ /\ r(finite).status = "ok"
                   /\ job' = [job EXCEPT !.candidate = r(finite).s, !.phase = "computed",
                                         !.workspace = {w}, !.delta = r(finite).out]
    BY <1>5 DEF ple_cpu
  <2>2. job = Record /\ job.workspace = {} /\ job.tokens # <<>> /\ job.candidate = st.conv
        /\ job.position = Len(st.told)
    BY <1>1 DEF IInv, Handles, Phases
  <2>3. ASSUME job'.workspace = {w}, job'.state = job.state, job'.tokens = job.tokens, job' = Record',
               HasJob'
        PROVE  Handles' /\ Accounts'
    <3>1. \A y \in DOMAIN workspaces' :
            workspaces'[y] \in BOOLEAN /\ (workspaces'[y] <=> y \in {w})
      <4>1. DOMAIN workspaces' = DOMAIN workspaces /\ workspaces'[w] = TRUE
            /\ \A y \in DOMAIN workspaces : y # w => workspaces'[y] = workspaces[y]
        BY <1>1, <2>1
      <4>2. \A y \in DOMAIN workspaces : workspaces[y] \in BOOLEAN /\ ~workspaces[y]
        BY <1>1, <2>2 DEF IInv, Handles
      <4> QED
        BY <4>1, <4>2
    <3>2. DOMAIN workspaces' = DOMAIN workspaces
      BY <2>1
    <3>3. Handles'
      BY <1>1, <2>1, <2>3, <3>1, <3>2 DEF IInv, Handles
    <3>4. Accounts'
      BY <1>1, <2>3, <3>2 DEF IInv, Accounts
    <3> QED
      BY <3>3, <3>4
  <2>4. ASSUME job'.phase = "aborted", job'.workspace = {w}, job'.state = job.state,
               job'.tokens = job.tokens, job' = Record'
        PROVE  IInv'
    <3>1. HasJob' /\ Phases'
      BY <2>4, NothingPromised DEF HasJob
    <3> QED
      BY <1>2, <1>3, <2>3, <2>4, <3>1 DEF IInv
  <2>5. CASE job' = [job EXCEPT !.phase = "aborted", !.workspace = {w}]
    <3>1. /\ job'.phase = "aborted" /\ job'.workspace = {w} /\ job'.state = job.state
          /\ job'.tokens = job.tokens /\ job' = Record'
      BY <2>2, <2>5 DEF Record
    <3> QED
      BY <2>4, <3>1
  <2>6. ASSUME NEW finite \in BOOLEAN,
               job' = [job EXCEPT !.candidate = r(finite).s, !.phase = "aborted", !.workspace = {w}]
        PROVE  IInv'
    <3> DEFINE s == r(finite).s
    <3> HIDE DEF s, r
    <3>1. job' = [job EXCEPT !.candidate = s, !.phase = "aborted", !.workspace = {w}]
      BY <2>6 DEF s
    <3>2. /\ job'.phase = "aborted" /\ job'.workspace = {w} /\ job'.state = job.state
          /\ job'.tokens = job.tokens /\ job' = Record'
      BY <2>2, <3>1 DEF Record
    <3> QED
      BY <2>4, <3>2
  <2>7. ASSUME NEW finite \in BOOLEAN, r(finite).status = "ok",
               job' = [job EXCEPT !.candidate = r(finite).s, !.phase = "computed",
                                  !.workspace = {w}, !.delta = r(finite).out]
        PROVE  IInv'
    <3> DEFINE s == r(finite).s
               out == r(finite).out
               n == Len(job.tokens)
    <3>1. x = rows /\ rows \in Seq(RowSet) /\ Len(rows) = n /\ rows # <<>>
      <4>1. x = rows
        BY <1>1, <1>5, RowsServed
      <4>2. rows \in Seq(RowSet) /\ Len(rows) = n
        BY <1>1, StateOfJob, RowsForType
      <4>3. n # 0
        <5>1. job.tokens \in Seq(Ids)
          BY <1>1, StateOfJob
        <5> QED
          BY <2>2, <5>1, EmptySeq
      <4> HIDE DEF x, rows, n
      <4>4. rows # <<>>
        BY <4>2, <4>3
      <4> QED
        BY <4>1, <4>2, <4>4
    <3>2. s = Moved(st.conv, n, rows) /\ out = Deltas(st.conv, n, rows)
      <4> DEFINE conv == st.conv
      <4>1. conv = [epoch |-> st.epoch, next_pos |-> Len(st.told), valid |-> TRUE,
                    data |-> Shift(Zeros, OneShotRows(st.told))]
        BY <1>1, StateOfJob
      <4> DEFINE y == conv_causal(conv, rows, Len(st.told), finite)
      <4>2. r(finite) = y
        <5> HIDE DEF x, rows, st
        <5> QED
          BY <2>2, <3>1
      <4>3. y.status = "ok"
        BY <2>7, <4>2
      <4> HIDE DEF conv, rows, st
      <4>4. y.s = Moved(conv, Len(rows), rows) /\ y.out = Deltas(conv, Len(rows), rows)
        <5> DEFINE p == Len(st.told)
                   d == Shift(Zeros, OneShotRows(st.told))
                   e == st.epoch
        <5>1. conv = [epoch |-> e, next_pos |-> p, valid |-> TRUE, data |-> d]
          BY <4>1
        <5>2. conv_causal(conv, rows, p, finite).status = "ok"
          BY <4>3
        <5>3. rows \in Seq(RowSet) /\ rows # <<>>
          BY <3>1
        <5> HIDE DEF p, d, e
        <5>4. /\ conv_causal(conv, rows, p, finite).s = Moved(conv, Len(rows), rows)
              /\ conv_causal(conv, rows, p, finite).out = Deltas(conv, Len(rows), rows)
          <6> HIDE DEF n, y, r, x
          <6>1. finite \in BOOLEAN /\ conv.valid /\ conv.next_pos = p
            BY <5>1
          <6> QED
            BY <5>2, <5>3, <6>1, Appends
        <5> QED
          BY <5>4 DEF p
      <4> HIDE DEF r, y, n
      <4> QED
        BY <3>1, <4>2, <4>4 DEF conv
    <3> HIDE DEF s, out, r
    <3>3. job' = [job EXCEPT !.candidate = s, !.phase = "computed", !.workspace = {w}, !.delta = out]
      BY <2>7 DEF s, out
    <3>4. /\ job'.phase = "computed" /\ job'.workspace = {w} /\ job'.state = job.state
          /\ job'.tokens = job.tokens /\ job'.candidate = s /\ job'.delta = out
          /\ job'.position = job.position /\ job'.ids = job.ids /\ job'.next = job.next
          /\ job' = Record'
      BY <2>2, <3>3 DEF Record
    <3>5. HasJob'
      BY <3>4 DEF HasJob
    <3>6. Phases'
      <4>1. /\ job.position = Len(st.told) /\ job.ids = ngram_ids(Config, st.prev, job.tokens)
            /\ job.next = Next_prev(Config, st.prev, job.tokens)
        BY <1>1 DEF IInv, Phases
      <4>2. states'[job'.state] = st
        BY <1>1, <3>4
      <4> QED
        BY <3>2, <3>4, <4>1, <4>2 DEF Phases
    <3> QED
      BY <1>2, <1>3, <2>3, <3>4, <3>5, <3>6 DEF IInv
  <2> HIDE DEF r
  <2> QED
    BY <2>1, <2>5, <2>4, <2>6, <2>7
<1> QED
  BY <1>4, <1>5

\* commit: one write publishes text, history and convolution together.
LEMMA CommitKeeps ==
  ASSUME IInv, commit
  PROVE  IInv'
<1> DEFINE s == job.state
           st == states[s]
           rows == RowsFor(st.prev, job.tokens)
<1>1. /\ ~call.on /\ ~closed /\ HasJob /\ job.phase = "computed"
      /\ UNCHANGED <<version, ready, generation, values, call, granted, used, workspaces, closed>>
  BY DEF commit, Host, Admissible, rvars
<1>2. RInv' /\ Reads'
  <2>1. RInv'
    BY <1>1, ReaderStays DEF IInv, rvars
  <2> QED
    BY <1>1, <2>1 DEF Reads
<1>3. /\ job = Record /\ job.next = Next_prev(Config, st.prev, job.tokens)
      /\ job.candidate = Moved(st.conv, Len(job.tokens), rows) /\ changed \in BOOLEAN
  BY <1>1 DEF IInv, Handles, Phases
<1>4. ASSUME NEW ph \in {"aborted", "committed"}, job' = [job EXCEPT !.phase = ph],
             changed' \in BOOLEAN, states' = states
      PROVE  IInv'
  <2>1. job' = [job EXCEPT !.phase = ph, !.lease = job.lease]
    <3>1. job' = [phase |-> ph, state |-> job.state, tokens |-> job.tokens, position |-> job.position,
                  epoch |-> job.epoch, ids |-> job.ids, next |-> job.next,
                  candidate |-> job.candidate, lease |-> job.lease, workspace |-> job.workspace,
                  delta |-> job.delta]
      BY <1>3, <1>4 DEF Record
    <3> DEFINE new == [job EXCEPT !.phase = ph, !.lease = job.lease]
    <3>2. new = [job EXCEPT !.phase = ph, !.lease = job.lease]
      OBVIOUS
    <3> HIDE DEF new
    <3>3. new = [phase |-> ph, state |-> job.state, tokens |-> job.tokens, position |-> job.position,
                 epoch |-> job.epoch, ids |-> job.ids, next |-> job.next,
                 candidate |-> job.candidate, lease |-> job.lease, workspace |-> job.workspace,
                 delta |-> job.delta]
      BY <1>3, <3>2 DEF Record
    <3> QED
      BY <3>1, <3>3 DEF new
  <2>2. ph # "none"
    BY <1>4
  <2>3. StatesHold' /\ Handles' /\ Accounts' /\ HasJob' /\ job'.phase = ph
    <3> DEFINE lease == job.lease
    <3>1. job' = [job EXCEPT !.phase = ph, !.lease = lease]
      BY <2>1
    <3>2. UNCHANGED <<used, states, workspaces, closed>>
      BY <1>1, <1>4
    <3>3. changed' \in BOOLEAN /\ HasJob
      BY <1>1, <1>4
    <3> HIDE DEF lease
    <3> QED
      BY <2>2, <3>1, <3>2, <3>3, Relabelled
  <2> QED
    BY <1>2, <1>4, <2>3, NothingPromised DEF IInv
<1>5. CASE job.tokens = <<>>
  <2>1. job' = [job EXCEPT !.phase = "committed"] /\ states' = states /\ changed' = changed
    BY <1>5 DEF commit
  <2> QED
    BY <1>3, <1>4, <2>1
<1>6. CASE job.tokens # <<>> /\ RowsFail
  <2>1. /\ job' = [job EXCEPT !.phase = "aborted"] /\ states' = states
        /\ changed' = (changed \/ (Current(job.lease) /\ ~unchanged))
    BY <1>6 DEF commit
  <2>2. changed' \in BOOLEAN
    BY <2>1
  <2> QED
    BY <1>4, <2>1, <2>2
<1>7. CASE job.tokens # <<>> /\ ~RowsFail
  <2> DEFINE text == st.told \o job.tokens
             new == Published(st)
  <2>1. /\ st.told \in Seq(Ids) /\ st = Holding(st.told, TRUE, st.epoch) /\ s \in DOMAIN states
        /\ job.tokens \in Seq(Ids)
    BY <1>1, StateOfJob
  <2>2. conv_state_copy(st.conv, job.candidate).status = "ok" /\ new = Holding(text, TRUE, st.epoch)
    <3> DEFINE old == st.told
               epoch == st.epoch
    <3>1. old \in Seq(Ids) /\ st = Holding(old, TRUE, epoch) /\ job.tokens \in Seq(Ids) /\ TRUE \in BOOLEAN
      BY <2>1
    <3>2. job.next = Next_prev(Config, st.prev, job.tokens)
          /\ job.candidate = Moved(st.conv, Len(job.tokens), RowsFor(st.prev, job.tokens))
      BY <1>3
    <3> HIDE DEF st, old, epoch, rows
    <3>3. conv_state_copy(st.conv, job.candidate).status = "ok"
          /\ Published(st) = Holding(old \o job.tokens, TRUE, epoch)
      BY <3>1, <3>2, Publishes
    <3> QED
      BY <3>3 DEF old, epoch
  <2>3. /\ states' = [states EXCEPT ![s] = new] /\ job' = [job EXCEPT !.phase = "committed"]
        /\ changed' = changed
    BY <1>7, <2>2 DEF commit
  <2>4. text \in Seq(Ids)
    BY <2>1, HoldingMore
  <2> HIDE DEF st, new, text
  <2>5. new.told = text /\ new.busy = TRUE /\ new.epoch = st.epoch
    BY <2>2 DEF Holding
  <2>6. StateHolds(new)
    BY <2>2, <2>4, <2>5 DEF StateHolds
  <2>7. /\ DOMAIN states' = DOMAIN states /\ states'[s] = new
        /\ \A y \in DOMAIN states : y # s => states'[y] = states[y]
    BY <2>1, <2>3
  <2>8. StatesHold'
    <3>1. \A y \in DOMAIN states' : StateHolds(states'[y])
      BY <2>6, <2>7 DEF IInv, StatesHold
    <3> QED
      BY <3>1 DEF StatesHold, StateHolds
  <2>9. /\ job'.phase = "committed" /\ job'.state = job.state /\ job'.tokens = job.tokens
        /\ job'.workspace = job.workspace /\ job' = Record'
    BY <1>3, <2>3 DEF Record
  <2>10. HasJob'
    BY <2>9 DEF HasJob
  <2>11. Handles'
    <3>1. \A y \in DOMAIN states' : states'[y].busy <=> job.state = y
      BY <1>1, <2>5, <2>7 DEF IInv, Handles
    <3>2. /\ IsFiniteSet(DOMAIN states') /\ IsFiniteSet(DOMAIN workspaces')
          /\ closed' \in BOOLEAN /\ changed' \in BOOLEAN /\ ~closed'
      BY <1>1, <2>3, <2>7 DEF IInv, Handles
    <3>3. /\ job.workspace \subseteq DOMAIN workspaces'
          /\ \A w \in DOMAIN workspaces' :
               workspaces'[w] \in BOOLEAN /\ (workspaces'[w] <=> w \in job.workspace)
      BY <1>1 DEF IInv, Handles
    <3> QED
      BY <2>1, <2>7, <2>9, <2>10, <3>1, <3>2, <3>3 DEF Handles
  <2>12. Accounts'
    BY <1>1, <2>7, <2>9, <2>10 DEF IInv, Accounts
  <2>13. Phases'
    BY <2>9, NothingPromised
  <2> QED
    BY <1>2, <2>8, <2>11, <2>12, <2>13 DEF IInv
<1> QED
  BY <1>5, <1>6, <1>7

-----------------------------------------------------------------------------
(* The theorems.                                                           *)

\* The invariant holds of a store just opened.
LEMMA InitIInv == Init => IInv
<1> SUFFICES ASSUME Init PROVE IInv
  OBVIOUS
<1>1. RInv /\ ~call.on
  BY InitRInv DEF Init, reader_open, Idle
<1>2. /\ DOMAIN states = {} /\ DOMAIN workspaces = {} /\ ~HasJob /\ used = Fixed
      /\ changed = FALSE /\ closed = FALSE
  BY DEF Init, NoJob, HasJob
<1>3. StatesHold /\ Phases /\ Reads
  BY <1>1, <1>2 DEF StatesHold, Phases, Reads
<1>4. Handles
  BY <1>2, FS_EmptySet DEF Handles
<1>5. Accounts
  <2>1. Fixed \in Nat /\ Fixed <= Budget
    BY StoreAssumption DEF Fixed
  <2>2. 0 * Bytes(StateBlocks) = 0 /\ 0 * Bytes(WorkspaceBlocks) = 0
    <3>1. Bytes(StateBlocks) \in Nat /\ Bytes(WorkspaceBlocks) \in Nat
      BY BlockBytes
    <3> QED
      BY <3>1
  <2>3. Cardinality(DOMAIN states) = 0 /\ Cardinality(DOMAIN workspaces) = 0
    BY <1>2, FS_EmptySet
  <2> QED
    BY <1>2, <2>1, <2>2, <2>3 DEF Accounts
<1> QED
  BY <1>1, <1>3, <1>4, <1>5 DEF IInv

\* Every step keeps the invariant.
LEMMA NextIInv == IInv /\ [Next]_vars => IInv'
<1> SUFFICES ASSUME IInv, [Next]_vars PROVE IInv'
  OBVIOUS
<1>1. CASE \E s \in States : state_create(s) \/ state_destroy(s)
  BY <1>1, StateCreateKeeps, StateDestroyKeeps
<1>2. CASE \E s \in States, epoch \in 1 .. StateEpochs : state_reset_call(s, epoch)
  BY <1>2, StateResetKeeps
<1>3. CASE \E w \in Workspaces : workspace_create(w) \/ workspace_destroy(w) \/ ple_cpu(w)
  BY <1>3, WorkspaceCreateKeeps, WorkspaceDestroyKeeps, PleKeeps
<1>4. CASE \E s \in DOMAIN states : \E ts \in Chunks(s) : prepare(s, ts, states[s].next_pos)
  <2>0. PICK s \in DOMAIN states : \E ts \in Chunks(s) : prepare(s, ts, states[s].next_pos)
    BY <1>4
  <2>1. PICK ts \in Chunks(s) : prepare(s, ts, states[s].next_pos)
    BY <2>0
  <2>2. ts \in Seq(Ids)
    <3>1. PICK n \in 0 .. MaxTokens : ts \in [1 .. n -> Token]
      BY DEF Chunks
    <3>2. n \in Nat /\ Token \subseteq Ids
      BY StoreAssumption DEF Ids
    <3>3. ts \in [1 .. n -> Ids]
      BY <3>1, <3>2
    <3> QED
      BY <3>2, <3>3, SeqDef
  <2> QED
    BY <2>1, <2>2, PrepareKeeps
<1>5. CASE read
  BY <1>5, ReadKeeps
<1>6. CASE reading
  BY <1>6, ReadingKeeps
<1>7. CASE commit
  BY <1>7, CommitKeeps
<1>8. CASE abort
  BY <1>8, AbortKeeps
<1>9. CASE job_release
  BY <1>9, ReleaseKeeps
<1>10. CASE ngram_close
  BY <1>10, CloseKeeps
<1>11. CASE Modified
  BY <1>11, ModifiedKeeps
<1>12. CASE UNCHANGED vars
  BY <1>12, StutterKeeps
<1> QED
  BY <1>1, <1>2, <1>3, <1>4, <1>5, <1>6, <1>7, <1>8, <1>9, <1>10, <1>11, <1>12, Zenon DEF Next

\* Every reachable state of the store satisfies the invariant.
LEMMA Inductive == Spec => []IInv
BY InitIInv, NextIInv, PTL DEF Spec

(***************************************************************************)
(* A state holds what one pass over the tokens committed to it leaves, for *)
(* every configuration the hash accepts, every cut of the text into jobs   *)
(* and every failure or change of the file in between.                     *)
(***************************************************************************)
THEOREM HistoryIsOnePass == Spec => []CommittedHistory
<1>1. IInv => CommittedHistory
  <2> SUFFICES ASSUME IInv, NEW s \in DOMAIN states
               PROVE  LET st == states[s] IN
                      /\ st.next_pos = Len(st.told) /\ st.conv.next_pos = st.next_pos
                      /\ st.conv.valid /\ st.prev = Next_prev(Config, Fresh, st.told)
                      /\ st.conv.data = OneShotHalo(st.told)
    BY DEF CommittedHistory
  <2> DEFINE st == states[s]
  <2>1. st.told \in Seq(Ids) /\ st = Holding(st.told, st.busy, st.epoch)
    BY DEF IInv, StatesHold, StateHolds
  <2> HIDE DEF st
  <2>2. /\ st.next_pos = Len(st.told) /\ st.prev = Next_prev(Config, Fresh, st.told)
        /\ st.conv = [epoch |-> st.epoch, next_pos |-> Len(st.told), valid |-> TRUE,
                      data |-> Shift(Zeros, OneShotRows(st.told))]
    BY <2>1 DEF Holding
  <2>3. /\ st.conv.next_pos = Len(st.told) /\ st.conv.valid
        /\ st.conv.data = Shift(Zeros, OneShotRows(st.told))
    BY <2>2
  <2> QED
    BY <2>1, <2>2, <2>3, OnePass DEF st
<1> QED
  BY <1>1, Inductive, PTL

(***************************************************************************)
(* The Delta of a computed job is that of its tokens in one pass over all  *)
(* of the text, from rows of the opened file.                              *)
(***************************************************************************)
THEOREM DeltaIsOnePass == Spec => []DeltaIsOneShot
<1>1. IInv => DeltaIsOneShot
  <2> SUFFICES ASSUME IInv, HasJob, job.phase = "computed"
               PROVE  LET old  == states[job.state].told
                          text == old \o job.tokens
                          all  == conv_causal(state_init(1, Zeros), OneShotRows(text), 0, TRUE).out
                      IN  job.delta = SubSeq(all, Len(old) + 1, Len(text))
    BY DEF DeltaIsOneShot
  <2> DEFINE st == states[job.state]
             old == st.told
             text == old \o job.tokens
             rows == RowsFor(Next_prev(Config, Fresh, old), job.tokens)
             all == conv_causal(state_init(1, Zeros), OneShotRows(text), 0, TRUE).out
  <2>1. /\ job.tokens \in Seq(Ids) /\ old \in Seq(Ids) /\ st.prev = Next_prev(Config, Fresh, old)
        /\ st.conv = [epoch |-> st.epoch, next_pos |-> Len(old), valid |-> TRUE,
                      data |-> Shift(Zeros, OneShotRows(old))]
    BY StateOfJob
  <2>2. job.delta = Deltas(st.conv, Len(job.tokens), RowsFor(st.prev, job.tokens))
    BY DEF IInv, Phases
  <2>3. text \in Seq(Ids)
    BY <2>1, HoldingMore
  <2>4. all = [t \in 1 .. Len(text) |-> Window(Zeros, OneShotRows(text), t)]
    <3> HIDE DEF text
    <3> QED
      BY <2>3, OnePass
  <2>5. [t \in 1 .. Len(job.tokens) |-> Window(Shift(Zeros, OneShotRows(old)), rows, t)]
        = SubSeq([t \in 1 .. Len(text) |-> Window(Zeros, OneShotRows(text), t)],
                 Len(old) + 1, Len(text))
    BY <2>1, DeltaOfChunk
  <2>6. job.delta = [t \in 1 .. Len(job.tokens) |-> Window(Shift(Zeros, OneShotRows(old)), rows, t)]
    <3>1. st.conv.data = Shift(Zeros, OneShotRows(old))
      BY <2>1
    <3> QED
      BY <2>1, <2>2, <3>1 DEF Deltas
  <2> HIDE DEF all, text, rows, old
  <2> QED
    BY <2>4, <2>5, <2>6 DEF all, text, old
<1> QED
  BY <1>1, Inductive, PTL

(***************************************************************************)
(* The bytes counted are those of the live handles, within the budget,     *)
(* whatever allocation failed, for every size of a block.                  *)
(***************************************************************************)
THEOREM BytesAreCounted == Spec => []BudgetExact
<1>1. IInv => BudgetExact
  <2> SUFFICES ASSUME IInv PROVE BudgetExact
    OBVIOUS
  <2>1. closed => used = Fixed
    <3> SUFFICES ASSUME closed PROVE used = Fixed
      OBVIOUS
    <3>1. ~HasJob /\ DOMAIN states = {} /\ DOMAIN workspaces = {}
      BY DEF IInv, Handles
    <3>2. Cardinality(DOMAIN states) = 0 /\ Cardinality(DOMAIN workspaces) = 0
      BY <3>1, FS_EmptySet
    <3>3. 0 * Bytes(StateBlocks) = 0 /\ 0 * Bytes(WorkspaceBlocks) = 0 /\ Fixed \in Nat
      <4>1. Bytes(StateBlocks) \in Nat /\ Bytes(WorkspaceBlocks) \in Nat
        BY BlockBytes
      <4>2. Fixed \in Nat
        BY StoreAssumption DEF Fixed
      <4> QED
        BY <4>1, <4>2
    <3> QED
      BY <3>1, <3>2, <3>3 DEF IInv, Accounts
  <2> QED
    BY <2>1 DEF IInv, Accounts, Handles, BudgetExact
<1> QED
  BY <1>1, Inductive, PTL

\* The lease serves its rows in the composed system too, where the store calls the reader.
THEOREM StoreLeaseIsItsBatch == Spec => []LeaseServesItsRows
<1>1. IInv => LeaseServesItsRows
  BY DEF IInv, RInv
<1> QED
  BY <1>1, Inductive, PTL
-----------------------------------------------------------------------------
(* Where the configuration comes from: what the loader admits, the hash    *)
(* accepts, so that a store can be opened on it.                           *)

\* The fields of a configuration the hash depends on, as the file stores them.
HashFields(c) ==
  /\ {"vocab_size", "eos_id", "row_count", "order", "heads_per_order",
      "multipliers", "offsets", "vocabs"} \subseteq DOMAIN c
  /\ c.vocab_size \in Nat /\ c.eos_id \in Nat /\ c.row_count \in Nat
  /\ c.order \in Nat /\ c.heads_per_order \in Nat
  /\ c.multipliers \in Seq(Nat) /\ c.offsets \in Seq(Nat) /\ c.vocabs \in Seq(Nat)

\* If everything is in order, nothing else is found.
LEMMA AllInOrder ==
  ASSUME NEW status, \A i \in DOMAIN status : status[i] = "ok"
  PROVE  First_status(status) = "ok"
BY DEF First_status

\* A quotient is no more than what is divided.
LEMMA QuotientBelow ==
  ASSUME NEW a \in Nat, NEW d \in Nat \ {0}
  PROVE  a \div d \in Nat /\ a \div d <= a
<1>1. /\ a \div d \in Int /\ a = d * (a \div d) + (a % d) /\ a % d \in 0 .. d - 1
  OBVIOUS
<1> DEFINE q == a \div d
           r == a % d
<1> HIDE DEF q, r
<1>2. q \in Int /\ r \in 0 .. d - 1 /\ a = d * q + r
  BY <1>1 DEF q, r
<1>3. q >= 0
  <2>1. ASSUME q <= -1 PROVE FALSE
    <3>1. d * q <= d * (-1)
      BY <1>2, <2>1
    <3> QED
      BY <1>2, <3>1
  <2> QED
    BY <1>2, <2>1
<1>4. q <= d * q
  BY <1>2, <1>3
<1> QED
  BY <1>2, <1>3, <1>4 DEF q

\* What the loader has checked of an admitted configuration.
LEMMA Admitted ==
  ASSUME NEW c, HashFields(c), Loader!config_load(c) = "OK"
  PROVE  /\ c.row_count # 0 /\ c.heads_per_order # 0 /\ c.order >= 2 /\ c.vocab_size >= 2
         /\ c.eos_id < c.vocab_size
         /\ Len(c.multipliers) = c.order
         /\ Len(c.offsets) = (c.order - 1) * c.heads_per_order
         /\ Len(c.vocabs) = (c.order - 1) * c.heads_per_order
         /\ Loader!Signed(c) /\ Loader!contiguous(c)
<1>1. /\ Loader!load_fields(c) = "OK" /\ Loader!validate_fields(c) = "OK"
      /\ Loader!load_arrays(c) = "OK"
  BY DEF Loader!config_load
<1>2. c.row_count # 0 /\ c.heads_per_order # 0
  <2> DEFINE free == {"mtp_blocks", "eos_id", "ratios", "ple_layer", "multipliers",
                      "offsets", "vocabs"}
  <2>1. \A f \in DOMAIN c \ free : ~(c[f] <= 0)
    BY <1>1 DEF Loader!load_fields
  <2>2. "row_count" \in DOMAIN c \ free /\ "heads_per_order" \in DOMAIN c \ free
    BY DEF HashFields
  <2>3. ~(c["row_count"] <= 0) /\ ~(c["heads_per_order"] <= 0)
    BY <2>1, <2>2
  <2> QED
    BY <2>3
<1>3. c.vocab_size >= 2 /\ c.order >= 2 /\ c.eos_id < c.vocab_size
  <2>1. Loader!Bounded(c)
    BY <1>1, Zenon DEF Loader!validate_fields
  <2>2. ASSUME c.eos_id >= c.vocab_size PROVE FALSE
    <3>1. Loader!validate_fields(c) \in {"RANGE", "SHAPE", "UNSUPPORTED"}
      BY <2>2, ZenonT(60) DEF Loader!validate_fields
    <3> QED
      BY <1>1, <3>1
  <2> QED
    <3>1. ~(c.eos_id >= c.vocab_size)
      BY <2>2, Zenon
    <3>2. c.vocab_size >= 2 /\ c.order \in 2 .. 64
      BY <2>1 DEF Loader!Bounded
    <3>3. c.vocab_size \in Nat /\ c.eos_id \in Nat
      BY DEF HashFields
    <3> QED
      BY <3>1, <3>2, <3>3
<1>4. /\ Len(c.multipliers) = c.order
      /\ Len(c.offsets) = Loader!heads(c) /\ Len(c.vocabs) = Loader!heads(c)
      /\ Loader!Signed(c) /\ Loader!contiguous(c)
  BY <1>1 DEF Loader!load_arrays
<1> QED
  BY <1>2, <1>3, <1>4 DEF Loader!heads

(* A configuration that the loader admits (config_load), the n-gram store  *)
(* and its hash accept (config_status), with as many offsets as sizes: the *)
(* first three lines of StoreAssumption hold of every admitted file whose  *)
(* ids and rows are signed numbers.                                        *)
THEOREM LoadedIsHashable ==
  ASSUME NEW c, HashFields(c), Loader!config_load(c) = "OK",
         Int64Max \in Nat, Int32Max \in Nat,
         c.vocab_size <= Int32Max + 1, c.row_count <= Int64Max
  PROVE  LET hash == Loader!config_ngram(c) IN
         /\ hash \in [vocab : Nat, eos : Nat, row_count : Nat, order : Nat, per_order : Nat,
                      multipliers : Seq(Nat), sizes : Seq(Nat), offsets : Seq(Nat)]
         /\ Len(hash.offsets) = Len(hash.sizes) /\ config_status(hash) = "ok"
<1> DEFINE hash == Loader!config_ngram(c)
           v == c.vocab_size - 1
<1>1. /\ hash.vocab = c.vocab_size /\ hash.eos = c.eos_id /\ hash.row_count = c.row_count
      /\ hash.order = c.order /\ hash.per_order = c.heads_per_order
      /\ hash.multipliers = c.multipliers /\ hash.offsets = c.offsets /\ hash.sizes = c.vocabs
  BY DEF Loader!config_ngram
<1> HIDE DEF hash
<1>2. \A j \in 1 .. hash.order : multiplier_status(hash, j) = "ok"
  <2> TAKE j \in 1 .. hash.order
  <2> DEFINE m == c.multipliers[j]
             q == Int64Max \div v
  <2>1. v \in Nat \ {0} /\ DOMAIN c.multipliers = 1 .. c.order
    <3>1. /\ c.vocab_size \in Nat /\ c.multipliers \in Seq(Nat)
          /\ c.vocab_size >= 2 /\ Len(c.multipliers) = c.order
      BY Admitted DEF HashFields
    <3> QED
      BY <3>1, LenProperties
  <2>2. m \in 1 .. q
    BY <1>1, <2>1, Admitted DEF Loader!Signed
  <2>3. q \in Nat /\ q <= Int64Max
    <3> HIDE DEF v
    <3> QED
      BY <2>1, QuotientBelow
  <2>4. ~(m = 0) /\ ~(m > Int64Max) /\ ~(m > q)
    <3> HIDE DEF m, q
    <3> QED
      BY <2>2, <2>3
  <2> QED
    BY <1>1, <2>4 DEF multiplier_status
<1>3. \A h \in 1 .. Len(hash.sizes) : head_status(hash, h) = "ok"
  <2> TAKE h \in 1 .. Len(hash.sizes)
  <2> DEFINE end == IF h = 1 THEN 0 ELSE c.offsets[h - 1] + c.vocabs[h - 1]
             n == c.vocabs[h]
  <2>1. /\ Len(c.vocabs) = Len(c.offsets) /\ DOMAIN c.offsets = 1 .. Len(c.offsets)
        /\ Loader!contiguous(c)
    BY Admitted, LenProperties DEF HashFields
  <2>2. n > 0 /\ c.offsets[h] = end /\ n <= c.row_count - end
    BY <1>1, <2>1 DEF Loader!contiguous, Loader!Behind
  <2>3. n \in Nat /\ c.offsets[h] \in Nat /\ c.row_count \in Nat
    BY <1>1, <2>1, ElementOfSeq DEF HashFields
  <2>4. ~(n = 0) /\ ~(n > Int64Max - end) /\ ~(end + n > c.row_count)
    <3>1. end \in Nat
      BY <2>2, <2>3
    <3> HIDE DEF end, n
    <3> QED
      BY <2>2, <2>3, <3>1
  <2> QED
    BY <1>1, <2>2, <2>4 DEF head_status
<1>4. /\ First_status([j \in 1 .. hash.order |-> multiplier_status(hash, j)]) = "ok"
      /\ First_status([h \in 1 .. Len(hash.sizes) |-> head_status(hash, h)]) = "ok"
  BY <1>2, <1>3, AllInOrder
<1>5. hash.vocab \in 1 .. Int32Max + 1 /\ ~(hash.eos >= hash.vocab) /\ ~(hash.row_count = 0)
  <2>1. /\ c.vocab_size \in Nat /\ c.eos_id \in Nat /\ c.vocab_size >= 2
        /\ c.eos_id < c.vocab_size /\ c.row_count # 0
    BY Admitted DEF HashFields
  <2> QED
    BY <1>1, <2>1
<1>7. hash \in [vocab : Nat, eos : Nat, row_count : Nat, order : Nat, per_order : Nat,
                multipliers : Seq(Nat), sizes : Seq(Nat), offsets : Seq(Nat)]
  BY DEF Loader!config_ngram, HashFields, hash
<1>6. /\ ~(hash.order < 2) /\ ~(hash.per_order = 0) /\ Len(hash.multipliers) = hash.order
      /\ Len(hash.sizes) = (hash.order - 1) * hash.per_order
      /\ Len(hash.offsets) = Len(hash.sizes)
  BY <1>1, Admitted DEF HashFields
<1> QED
  BY <1>4, <1>5, <1>6, <1>7 DEF config_status, hash
=============================================================================
