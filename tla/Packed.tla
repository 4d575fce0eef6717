--------------------------------- MODULE Packed ---------------------------------
(***************************************************************************)
(* Packed weights: the layout of a tensor and the admission of a product   *)
(* (qwen38_packed.c, qwen38_b_internal.h), and the two decoders of a row,  *)
(* the CPU's by column (packed_value) and the GPU's by chunk               *)
(* (qwen38_quant_decode.h).  A value is known by the bits of its row it is *)
(* computed from; both decoders then multiply and subtract alike.  Numbers *)
(* are dyadic: <<n, k>> is n * 2^k.                                        *)
(***************************************************************************)
EXTENDS Gguf, Integers

-----------------------------------------------------------------------------
(* Layouts and views.                                                       *)

\* A pointer (0 is null) and its bytes stay in the address space, of which SizeMax is the last.
address(at, bytes) == at # 0 /\ bytes <= SizeMax - at
overlap(a, na, b, nb) == na > 0 /\ nb > 0 /\ a < b + nb /\ b < a + na

layout_init(t, logical) ==
    LET n(i) == IF i <= Len(t.shape) THEN t.shape[i] ELSE 1
        row == (n(1) \div gguf_format[t.type][1]) * gguf_format[t.type][2]
        l == [type |-> t.type, k_storage |-> n(1), k_logical |-> logical, n_out |-> n(2),
              n_experts |-> n(3), row_bytes |-> row, expert_bytes |-> row * n(2),
              tensor_bytes |-> row * n(2) * n(3), status |-> "OK"]
        refused(why) == [status |-> why]
    IN CASE Len(t.shape) \notin 1 .. 3 -> refused("SHAPE")
         [] Len(t.shape) \in 1 .. 3 /\ t.type \notin DOMAIN gguf_format -> refused("FORMAT")
         [] OTHER ->
              IF logical = 0 \/ logical > n(1) \/ n(2) = 0 \/ n(3) = 0 THEN refused("SHAPE")
              ELSE IF n(1) % gguf_format[t.type][1] # 0 THEN refused("FORMAT")
              ELSE IF l.tensor_bytes > SizeMax \/ t.file_offset > SizeMax - l.tensor_bytes
                   THEN refused("OVERFLOW")
              ELSE IF t.bytes # l.tensor_bytes THEN refused("FORMAT") ELSE l

\* w: a layout, the address of its weights, how many bytes are mapped there.
packed_view(w, expert) ==
    LET l == w.layout
        expected == layout_init([type |-> l.type, shape |-> <<l.k_storage, l.n_out, l.n_experts>>,
                                 bytes |-> l.tensor_bytes, file_offset |-> 0], l.k_logical)
    IN CASE expected.status # "OK" -> expected.status
         [] expected.status = "OK" /\ l # expected -> "FORMAT"
         [] OTHER -> IF expert >= l.n_experts THEN "RANGE"
                     ELSE IF w.bytes < l.tensor_bytes THEN "CAPACITY"
                     ELSE IF address(w.at, l.tensor_bytes) THEN "OK" ELSE "INVALID_ARGUMENT"

-----------------------------------------------------------------------------
(* Products.                                                                *)

\* The bytes an activation matrix reaches, not all its owner has allocated.
Extent(v) == IF v.rows = 0 THEN 0 ELSE (v.rows - 1) * v.pitch + 4 * v.cols
matrix(v) ==
    CASE v.cols = 0 -> "SHAPE"
      [] v.cols > 0 /\ 4 * v.cols > SizeMax -> "OVERFLOW"
      [] OTHER -> IF v.pitch % 4 # 0 \/ v.pitch < 4 * v.cols THEN "STRIDE"
                  ELSE IF Extent(v) > SizeMax THEN "OVERFLOW"
                  ELSE IF Extent(v) > v.capacity THEN "CAPACITY" ELSE "OK"

matmul_status(w, expert, x, y) ==
    LET aligned(v) == address(v.at, Extent(v)) /\ v.at % 4 = 0
        aliased == \/ overlap(x.at, Extent(x), y.at, Extent(y))
                   \/ overlap(w.at, w.layout.tensor_bytes, x.at, Extent(x))
                   \/ overlap(w.at, w.layout.tensor_bytes, y.at, Extent(y))
        first == SelectSeq(<<packed_view(w, expert), matrix(x), matrix(y)>>, LAMBDA s : s # "OK")
    IN CASE first # <<>> -> first[1]
         [] first = <<>> /\ ~(x.rows = y.rows /\ x.cols = w.layout.k_logical
                              /\ y.cols = w.layout.n_out) -> "SHAPE"
         [] OTHER -> IF x.rows > 0 /\ (~aligned(x) \/ ~aligned(y) \/ aliased)
                     THEN "INVALID_ARGUMENT" ELSE "OK"

\* The addresses of row m of a matrix, and of row n of an expert.
RowOf(v, m) == {v.at + m * v.pitch + i : i \in 0 .. (4 * v.cols) - 1}
WeightRow(w, expert, n) ==
    {w.at + expert * w.layout.expert_bytes + n * w.layout.row_bytes + i : i \in 0 .. w.layout.row_bytes - 1}
\* Every row of the matrix with every row of the expert, into one number.
packed_matmul(w, expert, x, y) ==
    [reads  |-> UNION ({RowOf(x, m) : m \in 0 .. x.rows - 1}
                       \union {WeightRow(w, expert, n) : n \in {n \in 0 .. w.layout.n_out - 1 : x.rows > 0}}),
     writes |-> UNION {RowOf(y, m) : m \in 0 .. x.rows - 1}]

\* One row, all its stored columns, into a buffer of count numbers.
decode_row_status(w, expert, row, out) ==
    LET bytes == 4 * w.layout.k_storage IN
    CASE packed_view(w, expert) # "OK" -> packed_view(w, expert)
      [] packed_view(w, expert) = "OK" /\ row >= w.layout.n_out -> "RANGE"
      [] OTHER -> IF bytes > SizeMax THEN "OVERFLOW"
                  ELSE IF out.count < w.layout.k_storage THEN "CAPACITY"
                  ELSE IF \/ ~address(out.at, bytes) \/ out.at % 4 # 0
                          \/ overlap(w.at, w.layout.tensor_bytes, out.at, bytes)
                  THEN "INVALID_ARGUMENT" ELSE "OK"

-----------------------------------------------------------------------------
(* The bits of a value, lowest first.                                       *)

Bits(byte, low, n) == [i \in 1 .. n |-> <<byte, low + i - 1>>]
Word(byte, w) == FlattenSeq([i \in 1 .. w |-> Bits(byte + i - 1, 0, 8)])

\* Q4_K: eight scales and eight minima of six bits in twelve bytes.
scale(sc, g) == IF g < 4 THEN Bits(sc + g, 0, 6) ELSE Bits(sc + g + 4, 0, 4) \o Bits(sc + g - 4, 6, 2)
minimum(sc, g) == IF g < 4 THEN Bits(sc + g + 4, 0, 6) ELSE Bits(sc + g + 4, 4, 4) \o Bits(sc + g, 6, 2)
\* IQ2_XXS: seven signs of eight magnitudes, the last of them by parity.
signs(word, slot) == SubSeq(word, (7 * slot) + 1, (7 * slot) + 7)
sign(word, slot, i) == IF i < 7 THEN <<signs(word, slot)[i + 1]>> ELSE signs(word, slot)

\* The CPU: one column of a row.
packed_value(type, column) ==
    LET b == (column \div gguf_format[type][1]) * gguf_format[type][2]
        lane == column % gguf_format[type][1]
        g == lane \div 32
        group == b + 2 + (g * 8)
        slot == (lane % 32) \div 8 IN
    CASE type = 0 -> [float |-> Word(b, 4)]
      [] type = 30 -> [upper |-> Word(b, 2)]
      [] type = 1 -> [half |-> Word(b, 2)]
      [] type = 8 -> [d |-> Word(b, 2), code |-> Bits(b + 2 + lane, 0, 8)]
      [] type = 12 -> [d |-> Word(b, 2), dmin |-> Word(b + 2, 2), scale |-> scale(b + 4, g),
                       minimum |-> minimum(b + 4, g),
                       code |-> Bits(b + 16 + ((g \div 2) * 32) + (lane % 32), (g % 2) * 4, 4)]
      [] type = 39 -> [e |-> Bits(b, 0, 8),
                       code |-> Bits(b + 1 + (lane % 16), (lane \div 16) * 4, 4)]
      [] type = 16 -> [d |-> Word(b, 2), scale |-> SubSeq(Word(group + 4, 4), 29, 32),
                       grid |-> Bits(group + slot, 0, 8), at |-> lane % 8,
                       sign |-> sign(Word(group + 4, 4), slot, lane % 8)]
      [] type = 10 -> [d |-> Word(b + 80, 2), dmin |-> Word(b + 82, 2),
                       scale |-> Bits(b + (lane \div 16), 0, 4), minimum |-> Bits(b + (lane \div 16), 4, 4),
                       code |-> Bits(b + 16 + ((lane \div 128) * 32) + (lane % 32),
                                     2 * ((lane % 128) \div 32), 2)]

\* The GPU: a chunk of consecutive columns.
CHUNK == [type \in {10, 12, 16, 39} |-> IF type = 10 THEN 16 ELSE 32]
Iq2Xxs(c) ==
    LET b == (c \div 8) * 66
        g == b + 2 + ((c % 8) * 8)
        bits == Word(g + 4, 4) IN
    [k \in 0 .. 31 |-> [d |-> Word(b, 2), scale |-> SubSeq(bits, 29, 32),
                        grid |-> Bits(g + (k \div 8), 0, 8), at |-> k % 8,
                        sign |-> sign(bits, k \div 8, k % 8)]]
Q2K_plane(j) == 2 * (j % 8)    \* mutant: a bit plane for every sixteen columns
Q2K_shift(j) == 2 * ((j % 8) \div 2)
Q2K(c) ==
    LET b == (c \div 16) * 84
        j == c % 16
        q == b + 16 + ((j \div 8) * 32) + ((j % 2) * 16) IN
    [i \in 0 .. 15 |-> [d |-> Word(b + 80, 2), dmin |-> Word(b + 82, 2), scale |-> Bits(b + j, 0, 4),
                        minimum |-> Bits(b + j, 4, 4), code |-> Bits(q + i, Q2K_shift(j), 2)]]
Q4K(c) ==
    LET b == (c \div 8) * 144
        g == c % 8
        q == b + 16 + ((g \div 2) * 32) IN
    [i \in 0 .. 31 |-> [d |-> Word(b, 2), dmin |-> Word(b + 2, 2), scale |-> scale(b + 4, g),
                        minimum |-> minimum(b + 4, g), code |-> Bits(q + i, (g % 2) * 4, 4)]]
Mxfp4(c) ==
    [i \in 0 .. 31 |-> [e |-> Bits(c * 17, 0, 8),
                        code |-> IF i < 16 THEN Bits((c * 17) + 1 + i, 0, 4)
                                 ELSE Bits((c * 17) + 1 + (i - 16), 4, 4)]]
chunk_of(type, c) ==
    CASE type = 10 -> Q2K(c) [] type = 12 -> Q4K(c) [] type = 16 -> Iq2Xxs(c) [] type = 39 -> Mxfp4(c)

\* The columns a chunk of a row of k numbers sums, in their order.
quant_chunk(type, k, c) ==
    LET rest == k - (c * CHUNK[type])
        cols == IF rest < CHUNK[type] THEN rest ELSE CHUNK[type] IN
    [i \in 1 .. cols |-> (c * CHUNK[type]) + i - 1]

-----------------------------------------------------------------------------
(* Lanes: the order in which a lane adds up the chunks <<row, chunk>>.      *)

\* One row on all the lanes.
quant_row(r, chunks, lane, lanes) ==
    SelectSeq([c \in 1 .. chunks |-> <<r, c - 1>>], LAMBDA p : p[2] % lanes = lane)

\* Several rows at once: the tails share rounds, and each sum goes back to its lane.
quant_rows(nr, chunks, lanes, most) ==
    LET head == (chunks \div lanes) * lanes
        tail == chunks - head
        pooled(j, lane) == LET i == (lanes * j) + lane IN
                           IF i < nr * tail THEN <<i \div tail, head + (i % tail)>> ELSE <<>>
        shuffled(i) == IF i \div lanes < most THEN pooled(i \div lanes, i % lanes) ELSE <<>>
    IN [r \in 0 .. nr - 1 |-> [lane \in 0 .. lanes - 1 |->
          quant_row(r, head, lane, lanes)
          \o (IF lane < tail THEN <<shuffled((r * tail) + lane)>> ELSE <<>>)]]

-----------------------------------------------------------------------------
(* Numbers.                                                                 *)

\* n * 2^k with n odd, or nothing.
Dyadic(n, k) ==
    IF n = 0 THEN <<0, 0>>
    ELSE LET z == CHOOSE z \in 0 .. 24 : n % (2 ^ z) = 0 /\ (n \div (2 ^ z)) % 2 = 1
         IN <<n \div (2 ^ z), k + z>>

Binary32(s, exponent, fraction) == [sign |-> s, exponent |-> exponent, fraction |-> fraction]
\* What the bits of a binary32 say.
Number(f) ==
    CASE f.exponent = 255 -> IF f.fraction = 0 THEN "inf" ELSE "nan"
      [] f.exponent = 0 -> Dyadic(f.fraction, -149)
      [] OTHER -> Dyadic((2 ^ 23) + f.fraction, f.exponent - 150)

\* A half widened, by doubling its fraction on the CPU ...
half_value(s, exponent, fraction) ==
    LET n == CHOOSE n \in 0 .. 10 : (fraction * (2 ^ n)) \in 1024 .. 2047 IN
    CASE exponent = 0 /\ fraction = 0 -> Binary32(s, 0, 0)
      [] exponent = 0 /\ fraction > 0 -> Binary32(s, 113 - n, ((fraction * (2 ^ n)) % 1024) * (2 ^ 13))
      [] OTHER -> Binary32(s, IF exponent = 31 THEN 255 ELSE exponent + 112, fraction * (2 ^ 13))
\* ... and by counting its leading zeros on the GPU.
clz(f) == CHOOSE z \in 22 .. 31 : 2 ^ (31 - z) <= f /\ f < 2 ^ (32 - z)
fp16_bits(s, exponent, fraction) ==
    LET shift == clz(fraction) - 21 IN
    IF exponent > 0
    THEN Binary32(s, IF exponent = 31 THEN 255 ELSE exponent + 112, fraction * (2 ^ 13))
    ELSE IF fraction = 0 THEN Binary32(s, 0, 0)
    ELSE Binary32(s, 113 - shift, ((fraction * (2 ^ shift)) % 1024) * (2 ^ 13))

\* An MXFP4 value on the CPU, a product: code is a sign and half the magnitudes below.
Halves == <<0, 1, 2, 3, 4, 6, 8, 12>>
mxfp4_product(e, m) ==
    LET n == Halves[m + 1] IN
    CASE e = 255 -> IF n = 0 THEN "nan" ELSE "inf"
      [] e < 255 /\ n * (2 ^ (IF e > 250 THEN e - 250 ELSE 0)) >= 2 ^ 6 -> "inf"
      [] OTHER -> Dyadic(n, e - 128)
\* On the GPU, bits built by hand ...
mxfp4_value(e, s, m) ==
    LET fraction == IF m > 1 THEN (m % 2) * (2 ^ 22) ELSE 0
        exponent == 126 + (m \div 2) + e - 127 IN
    CASE e = 255 -> Binary32(s, 255, IF m > 0 THEN 0 ELSE 2 ^ 22)
      [] e < 255 /\ m = 0 -> Binary32(s, 0, 0)
      [] e < 255 /\ m > 0 /\ exponent <= 0 -> Binary32(s, 0, ((2 ^ 23) + fraction) \div (2 ^ (1 - exponent)))
      [] e < 255 /\ m > 0 /\ exponent >= 255 -> Binary32(s, 255, 0)
      [] OTHER -> Binary32(s, exponent, fraction)
\* ... or, in a block whose values are all normal, without a branch.
mxfp4_decode(e, s, m) ==
    IF e \in 2 .. 252
    THEN IF m = 0 THEN Binary32(s, 0, 0)
         ELSE Binary32(s, e - 1 + (m \div 2), IF m > 1 THEN (m % 2) * (2 ^ 22) ELSE 0)
    ELSE mxfp4_value(e, s, m)
===============================================================================
