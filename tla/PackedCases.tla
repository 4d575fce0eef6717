------------------------------ MODULE PackedCases ------------------------------
(***************************************************************************)
(* What packed weights and their products are owed, stated without blocks, *)
(* planes or lanes.                                                        *)
(***************************************************************************)
EXTENDS Packed, FiniteSetsExt

\* The bits a value is computed from; at chooses inside a grid entry.
Sources(v) == UNION {ToSet(v[f]) : f \in DOMAIN v \ {"at"}}
BitsOf(from, bytes) == {<<b, i>> : b \in from .. from + bytes - 1, i \in 0 .. 7}
\* What one element has to itself.
Own(v) == IF "at" \in DOMAIN v THEN [grid |-> v.grid, at |-> v.at] ELSE v.code

\* The values of a chunk are those of its columns.
ChunkIsItsColumns(type, c) ==
  \A i \in 0 .. CHUNK[type] - 1 : chunk_of(type, c)[i] = packed_value(type, (c * CHUNK[type]) + i)
\* A block is used up: no value reads another block, every bit is read, no element's twice.
BlockIsUsedUp(type, b) ==
  LET n == gguf_format[type][1]
      bytes == gguf_format[type][2]
      value == [i \in 0 .. n - 1 |-> packed_value(type, (b * n) + i)] IN
  /\ UNION {Sources(value[i]) : i \in DOMAIN value} = BitsOf(b * bytes, bytes)
  /\ Cardinality({Own(value[i]) : i \in DOMAIN value}) = n
\* Chunks sum every column once, in order.
ColumnsInOrder(type, k) ==
  LET chunks == (k + CHUNK[type] - 1) \div CHUNK[type] IN
  FlattenSeq([c \in 1 .. chunks |-> quant_chunk(type, k, c - 1)]) = [i \in 1 .. k |-> i - 1]

\* A half is a sign and fraction * 2^-24 or (1024 + fraction) * 2^(exponent - 25).
HalfIs(exponent, fraction) ==
  CASE exponent = 31 -> IF fraction = 0 THEN "inf" ELSE "nan"
    [] exponent = 0 -> Dyadic(fraction, -24)
    [] OTHER -> Dyadic(1024 + fraction, exponent - 25)
HalvesAgree(exponent) ==
  \A f \in 0 .. 1023, s \in {0, 1} :
    LET cpu == half_value(s, exponent, f) IN
    cpu = fp16_bits(s, exponent, f) /\ Number(cpu) = HalfIs(exponent, f) /\ cpu.sign = s
Mxfp4Agrees(e) ==
  \A m \in 0 .. 7, s \in {0, 1} :
    /\ mxfp4_decode(e, s, m) = mxfp4_value(e, s, m)
    /\ Number(mxfp4_value(e, s, m)) = mxfp4_product(e, m)

\* Rows that share the rounds of their tails sum in each lane what a row alone sums there,
\* in its order.
LanesAgree(nr, chunks, lanes, most) ==
  \A r \in 0 .. nr - 1, lane \in 0 .. lanes - 1 :
    quant_rows(nr, chunks, lanes, most)[r][lane] = quant_row(r, chunks, lane, lanes)

\* An admitted product reads the mapped weights and the bytes its input has, writes the bytes
\* its output has, and writes nothing it reads; and so does a decoded row.
Owned(at, bytes) == (at .. (at + bytes) - 1) \intersect (1 .. SizeMax - 1)
Contained(w, expert, x, y) ==
  LET p == packed_matmul(w, expert, x, y)
      row == [at |-> y.at, count |-> y.capacity \div 4]
      decoded == y.at .. (y.at + (4 * w.layout.k_storage)) - 1 IN
  /\ matmul_status(w, expert, x, y) = "OK" =>
       /\ p.reads \subseteq Owned(w.at, w.bytes) \union Owned(x.at, x.capacity)
       /\ p.writes \subseteq Owned(y.at, y.capacity)
       /\ p.reads \intersect p.writes = {}
       /\ Cardinality(p.writes) = 4 * x.rows * y.cols
  /\ \A n \in 0 .. 2 : decode_row_status(w, expert, n, row) = "OK" =>
       /\ WeightRow(w, expert, n) \subseteq Owned(w.at, w.bytes)
       /\ decoded \subseteq Owned(y.at, y.capacity) /\ decoded \intersect WeightRow(w, expert, n) = {}

\* Weights of F32 with one or two experts, whole or short of their last byte.
ViewsAt(addresses) ==
  {[layout |-> layout_init([type |-> 0, shape |-> shape, bytes |-> Bytes(0, shape), file_offset |-> 0], k),
    at |-> at, bytes |-> Bytes(0, shape) - short] :
      shape \in {<<2, 2>>, <<2, 1, 2>>}, k \in {1, 2}, at \in addresses, short \in {0, 1}}
\* Matrices that have what they reach, their rows apart or not.
MatricesAt(addresses, rows, cols) ==
  {[at |-> at, rows |-> rows, cols |-> cols, pitch |-> (4 * cols) + apart,
    capacity |-> rows * ((4 * cols) + apart)] : at \in addresses, apart \in {0, 4}}
\* One thing wrong with a matrix.
Disturbed(v) ==
  {[v EXCEPT !.rows = @ + 1], [v EXCEPT !.cols = 3 - @], [v EXCEPT !.pitch = @ + 2],
   [v EXCEPT !.pitch = @ - 4], [v EXCEPT !.at = @ + 2]}
  \union {[v EXCEPT !.capacity = @ - n] : n \in {n \in {1, 5} : n <= v.capacity}}
=============================================================================
