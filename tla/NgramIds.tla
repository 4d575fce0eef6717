------------------------------- MODULE NgramIds -------------------------------
(***************************************************************************)
(* The n-gram hash (qwen38_ngram_ids): which rows of the disk table each   *)
(* token of a chunk looks up, given the tokens before the chunk. Pure: the *)
(* configuration is a record c, the history is newest first.               *)
(***************************************************************************)
EXTENDS Integers, Sequences

CONSTANTS
  Mix(_, _),   \* exclusive or of two 64-bit words
  Int64Max,    \* 2^63 - 1 in the code
  Int32Max     \* 2^31 - 1 in the code

History(c) == c.order - 1
\* No product of a token and a multiplier leaves the signed range.
multiplier_status(c, j) ==
  IF c.multipliers[j] = 0 THEN "range"
  ELSE IF \/ c.multipliers[j] > Int64Max
          \/ c.vocab > 1 /\ c.multipliers[j] > Int64Max \div (c.vocab - 1)
    THEN "overflow" ELSE "ok"

\* The heads fill the table one after the other.
head_status(c, h) ==
  LET end == IF h = 1 THEN 0 ELSE c.offsets[h - 1] + c.sizes[h - 1] IN
  IF c.offsets[h] # end \/ c.sizes[h] = 0 THEN "range"
  ELSE IF c.sizes[h] > Int64Max - end THEN "overflow"
  ELSE IF end + c.sizes[h] > c.row_count THEN "range" ELSE "ok"

\* The status of the first item that is not in order.
First_status(status) ==
  LET bad == {i \in DOMAIN status : status[i] # "ok"} IN
  IF bad = {} THEN "ok" ELSE status[CHOOSE i \in bad : \A j \in bad : i <= j]

\* What the code refuses before it hashes anything, in its order.
config_status(c) ==
  IF c.vocab \notin 1 .. Int32Max + 1 \/ c.eos >= c.vocab \/ c.row_count = 0 THEN "invalid_argument"
  ELSE IF \/ c.order < 2 \/ c.per_order = 0
          \/ Len(c.multipliers) # c.order \/ Len(c.sizes) # (c.order - 1) * c.per_order
    THEN "shape"
  ELSE LET first == First_status([j \in 1 .. c.order |-> multiplier_status(c, j)]) IN
       IF first # "ok" THEN first
       ELSE First_status([h \in 1 .. Len(c.sizes) |-> head_status(c, h)])

\* The token j places before token t of the chunk.
Before(prev, tokens, t, j) ==
  IF t > j THEN tokens[t - j] ELSE prev[j - t + 1]

\* What is hashed at distance j: nothing before an end of text is seen.
Hashed(c, prev, tokens, t, j) ==
  IF \E i \in 1 .. j : Before(prev, tokens, t, i) = c.eos
    THEN c.eos ELSE Before(prev, tokens, t, j)

Seen(c, prev, tokens, t) == [j \in 0 .. History(c) |-> Hashed(c, prev, tokens, t, j)]

\* The j + 1 newest tokens, mixed.
Mixed(c, seen) ==
  LET mixed[j \in 0 .. History(c)] ==
        IF j = 0 THEN seen[0] * c.multipliers[1]
        ELSE Mix(mixed[j - 1], seen[j] * c.multipliers[j + 1])
  IN  mixed

\* The row of head h for token t.
Id(c, prev, tokens, t, h) ==
  c.offsets[h] + (Mixed(c, Seen(c, prev, tokens, t))[((h - 1) \div c.per_order) + 1] % c.sizes[h])

\* Mutant: the new history is taken from the chunk alone.
Next_prev_from_chunk(c, prev, tokens) ==
  [j \in 1 .. History(c) |-> IF Len(tokens) >= j THEN tokens[Len(tokens) - j + 1] ELSE prev[j]]

\* The history after the chunk.
Next_prev(c, prev, tokens) ==
  [j \in 1 .. History(c) |->
     IF Len(tokens) >= j THEN tokens[Len(tokens) - j + 1] ELSE prev[j - Len(tokens)]]

\* The rows of a chunk, head after head, token after token.
ngram_ids(c, prev, tokens) ==
  LET heads == Len(c.sizes) IN
  [i \in 1 .. Len(tokens) * heads |->
     Id(c, prev, tokens, ((i - 1) \div heads) + 1, ((i - 1) % heads) + 1)]
=============================================================================
