------------------------------- MODULE GgufHeader -------------------------------
(***************************************************************************)
(* The bounded cursor gguf_reader.c puts over the header of a file.  A     *)
(* refusal that ends the process (die) leaves ok FALSE, for good.          *)
(***************************************************************************)
EXTENDS Naturals, Sequences, SequencesExt

CONSTANTS Radix,        \* values of a byte, 256
          StringMax,    \* longest string, 16 MiB
          ArrayMax,     \* longest array, 2000000
          Identifier    \* the bytes a name may have

Cursor(data) == [data |-> data, pos |-> 0, ok |-> TRUE]
Die(c) == [c EXCEPT !.ok = FALSE]

gguf_bytes(c, n) == IF c.ok /\ n <= Len(c.data) - c.pos THEN [c EXCEPT !.pos = @ + n] ELSE Die(c)
\* An integer of width bytes, lowest first, and the cursor behind it.
gguf_uint(c, width) ==
    LET after == gguf_bytes(c, width)
        digits == SubSeq(c.data, c.pos + 1, c.pos + width) IN
    [after |-> after, value |-> IF after.ok THEN FoldRight(LAMBDA b, v : (Radix * v) + b, digits, 0) ELSE 0]
gguf_string(c) ==
    LET n == gguf_uint(c, 8) IN IF n.value > StringMax THEN Die(n.after) ELSE gguf_bytes(n.after, n.value)
\* A key or the name of a tensor, shorter than its buffer.
gguf_name(c, capacity) ==
    LET n == gguf_uint(c, 8).value
        after == gguf_string(c) IN
    IF n = 0 \/ n >= capacity \/ (after.ok /\ ~(ToSet(SubSeq(c.data, after.pos - n + 1, after.pos)) \subseteq Identifier))
    THEN Die(after) ELSE after

\* Metadata types: integers and floats by width, 7 a boolean, 8 a string, 9 an array.
widths == [type \in (0 .. 12) \ {7, 8, 9} |->
    CASE type \in 0 .. 1 -> 1 [] type \in 2 .. 3 -> 2 [] type \in 4 .. 6 -> 4 [] type \in 10 .. 12 -> 8]
skip_one(c, type) ==
    CASE type \in DOMAIN widths -> gguf_bytes(c, widths[type])
      [] type = 7 -> IF gguf_uint(c, 1).value > 1 THEN Die(c) ELSE gguf_bytes(c, 1)
      [] type = 8 -> gguf_string(c)
      [] OTHER -> Die(c)
\* An array has no arrays in it.
gguf_skip_value(c, type) ==
    IF type # 9 THEN skip_one(c, type)
    ELSE LET element == gguf_uint(c, 4)
             count == gguf_uint(element.after, 8) IN
         IF count.value > ArrayMax \/ element.value \notin (0 .. 12) \ {9} THEN Die(count.after)
         ELSE FoldLeft(LAMBDA st, i : skip_one(st, element.value), count.after, [i \in 1 .. count.value |-> i])
===============================================================================
