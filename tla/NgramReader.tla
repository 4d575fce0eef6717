------------------------------ MODULE NgramReader ------------------------------
(***************************************************************************)
(* The bounded reader of the disk table (Q38eReader in qwen38_ngram.c):    *)
(* a batch of rows is sorted, merged into intervals that fit the staging   *)
(* buffer, read with as many preads as the system needs, and decoded into  *)
(* the slots of the caller; a lease names the batch it was given for.      *)
(*                                                                         *)
(* The caller is synchronous, the file is not: between any two system      *)
(* calls another process may rewrite or truncate it. A read moves whole    *)
(* units, several to a row, so that a row may be torn.                     *)
(***************************************************************************)
EXTENDS Integers, Sequences, FiniteSets

CONSTANTS
  Rows,          \* rows of the table
  BadRows,       \* rows whose values are not finite
  Units,         \* units of a row a pread may return separately
  StagingRows,   \* rows the staging buffer holds
  Slots,         \* ids of the largest batch
  MaxGeneration, \* last generation (UINT64_MAX in the code)
  MaxVersion     \* bound: versions of the file

ASSUME ReaderAssumption ==
  /\ Rows \in Nat /\ BadRows \subseteq 0 .. Rows - 1
  /\ Units \in Nat \ {0} /\ StagingRows \in Nat \ {0} /\ Slots \in Nat \ {0}
  /\ MaxGeneration \in Nat /\ MaxVersion \in Nat \ {0}

VARIABLES
  version,    \* of the file; the reader was opened on version 1
  ready,      \* values hold a complete batch
  generation, \* of the batch
  values,     \* one slot per id of the batch
  call,       \* the read in progress, or what the last one returned
  granted     \* history: the batch each granted lease was given for

rvars == <<version, ready, generation, values, call, granted>>

Opened       == 1
Garbage      == <<"garbage">>              \* malloc'd, never written
Unit(v, row, u) == <<v, row, u>>
Content(row) == [u \in 1 .. Units |-> Unit(Opened, row, u)]
Idle(status) == [on |-> FALSE, status |-> status]
NoLease      == 0

reader_open ==
  /\ version = Opened
  /\ ready = FALSE /\ generation = 0
  /\ values = [i \in 1 .. Slots |-> Garbage]
  /\ call = Idle("ok")
  /\ granted = [g \in {} |-> <<>>]

\* fstat: every change of the file changes what it answers.
unchanged == version = Opened

\* The file is rewritten or truncated by somebody else.
Modify ==
  /\ version < MaxVersion
  /\ version' = version + 1
  /\ UNCHANGED <<ready, generation, values, call, granted>>

-----------------------------------------------------------------------------
(* The plan of a batch                                                     *)

\* qsort is not stable: any order of equal rows.
Orders(rows) ==
  LET n == Len(rows) IN
  {p \in [1 .. n -> 1 .. n] :
     /\ \A i \in 1 .. n : \E k \in 1 .. n : p[k] = i
     /\ \A i, j \in 1 .. n : i < j => rows[p[i]] <= rows[p[j]]}

\* A row joins an interval that began at first and has come to last.
Merges(first, last, next) == next <= last + 1 /\ next - first < StagingRows

\* Request e is the first one behind the interval that begins with request b.
IntervalEnd(rows, order, b, e) ==
  /\ \A i \in b + 1 .. e - 1 : Merges(rows[order[b]], rows[order[i - 1]], rows[order[i]])
  /\ e <= Len(rows) => ~Merges(rows[order[b]], rows[order[e - 1]], rows[order[e]])

-----------------------------------------------------------------------------
(* reader_read_impl                                                        *)

\* Even a refused request ends the life of the previous batch.
Invalidate(rows) ==
  /\ ready' = FALSE
  /\ generation' = IF generation = MaxGeneration THEN generation ELSE generation + 1

Refused(rows) ==
  IF generation = MaxGeneration THEN "overflow"
  ELSE IF Len(rows) > Slots THEN "capacity"
  ELSE IF \E i \in 1 .. Len(rows) : rows[i] >= Rows THEN "range"
  ELSE IF rows # <<>> /\ ~unchanged THEN "stale"
  ELSE "ok"

Begin(rows) ==
  /\ ~call.on
  /\ Invalidate(rows)
  /\ IF Refused(rows) # "ok" THEN call' = Idle(Refused(rows))
     ELSE \E order \in Orders(rows) :
            call' = [on |-> TRUE, rows |-> rows, order |-> order, begin |-> 1, raw |-> <<>>]
  /\ UNCHANGED <<version, values, granted>>

\* The interval being read: its first row, and how many rows up to request e.
First     == call.rows[call.order[call.begin]]
Length(e) == call.rows[call.order[e - 1]] - First + 1
Remaining == call.begin <= Len(call.rows)

\* A requested row, as it lies in the staging buffer.
Decoded(raw, row) == [u \in 1 .. Units |-> raw[(row - First) * Units + u]]

\* The rows of the interval go to the slots they were asked for.
Scatter(raw, e) ==
  [i \in 1 .. Slots |->
     IF \E k \in call.begin .. e - 1 : call.order[k] = i
       THEN Decoded(raw, call.rows[i]) ELSE values[i]]

\* A value of the interval is not finite; a rewritten file may hold anything.
Poisoned(e) == \/ \E k \in call.begin .. e - 1 : call.rows[call.order[k]] \in BadRows
               \/ ~unchanged
Finite(e)   == \/ \A k \in call.begin .. e - 1 : call.rows[call.order[k]] \notin BadRows
               \/ ~unchanged

\* What a pread of n units appends to the raw bytes of the interval.
Read(raw, n) ==
  raw \o [i \in 1 .. n |-> LET at == Len(raw) + i - 1
                           IN  Unit(version, First + (at \div Units), (at % Units) + 1)]

\* One pread: part or all of what is left of the interval (EINTR: a stutter).
Transfer ==
  /\ call.on /\ Remaining
  /\ \E e \in call.begin + 1 .. Len(call.rows) + 1 :
       /\ IntervalEnd(call.rows, call.order, call.begin, e)
       /\ \E n \in 1 .. Length(e) * Units - Len(call.raw) :
            LET raw == Read(call.raw, n)
            IN  IF Len(raw) < Length(e) * Units
                  THEN call' = [call EXCEPT !.raw = raw] /\ UNCHANGED values
                  ELSE /\ values' = Scatter(raw, e)
                       /\ \/ Poisoned(e) /\ call' = Idle("nonfinite")
                          \/ Finite(e) /\ call' = [call EXCEPT !.begin = e, !.raw = <<>>]
  /\ UNCHANGED <<version, ready, generation, granted>>

\* The pread fails, or the file has become shorter.
Fault ==
  /\ call.on /\ Remaining
  /\ \E status \in IF unchanged THEN {"io"} ELSE {"io", "eof"} : call' = Idle(status)
  /\ UNCHANGED <<version, ready, generation, values, granted>>

\* Mutant: the file is not looked at again.
Verified_never == TRUE

\* The second look at the file, when anything was read.
Verified == call.rows = <<>> \/ unchanged

Finish ==
  /\ call.on /\ ~Remaining
  /\ IF Verified
       THEN /\ ready' = TRUE
            /\ granted' = [g \in DOMAIN granted \union {generation} |->
                             IF g = generation THEN call.rows ELSE granted[g]]
            /\ call' = Idle("ok")
       ELSE call' = Idle("stale") /\ UNCHANGED <<ready, granted>>
  /\ UNCHANGED <<version, generation, values>>

Advance == Transfer \/ Fault \/ Finish

\* reader_copy_impl and qwen38_ngram_rows: is the lease that of the batch held?
Current(lease) == ready /\ lease = generation

ReaderNext == Modify \/ Advance \/ \E n \in 0 .. Slots + 1 : \E rows \in [1 .. n -> 0 .. Rows] : Begin(rows)
ReaderSpec == reader_open /\ [][ReaderNext]_rvars

-----------------------------------------------------------------------------
(* The rows a lease gives access to are those it was granted for, each in  *)
(* its slot, whole, finite, and of the file the reader was opened on,      *)
(* whatever happened to the file and to the batches in between.            *)
LeaseServesItsRows ==
  \A g \in DOMAIN granted :
    Current(g) => \A i \in DOMAIN granted[g] :
      granted[g][i] \notin BadRows /\ values[i] = Content(granted[g][i])
=============================================================================
