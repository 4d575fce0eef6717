--------------------------------- MODULE Config ---------------------------------
(***************************************************************************)
(* Admission of a model's configuration (qwen38_config.c): the fields of   *)
(* the file as a record c, the checks that relate them, the kind of every  *)
(* layer, and the table of the n-gram hash.                                *)
(***************************************************************************)
EXTENDS Integers, Sequences

CONSTANTS
  Uint32Max,   \* 2^32 - 1 in the code
  Int64Max     \* 2^63 - 1 in the code

Rounded(n, unit) == ((n + unit - 1) \div unit) * unit

\* Every dimension but the number of predictor blocks and the end of text is positive.
load_fields(c) ==
  IF \E f \in DOMAIN c \ {"mtp_blocks", "eos_id", "ratios", "ple_layer", "multipliers",
                          "offsets", "vocabs"} : c[f] <= 0
  THEN "RANGE" ELSE "OK"

heads(c) == (c.order - 1) * c.heads_per_order

\* How the fields must be bounded and fit one another.
Bounded(c) ==
  c.blocks <= 4096 /\ c.mtp_blocks < c.blocks /\ c.vocab_size >= 2 /\ c.order \in 2 .. 64
Divisible(c) ==
  /\ c.heads % c.kv_heads = 0 /\ c.value_heads % c.key_heads = 0 /\ c.inner % c.value_heads = 0
  /\ c.rotary_dim % 2 = 0 /\ c.rotary_dim <= c.head_dim /\ c.rotary_dim <= c.index_dim
  /\ c.top_k <= c.experts
Narrow(c) ==
  /\ c.hidden_size * c.streams <= Uint32Max
  /\ c.heads * c.head_dim <= Uint32Max \div 2
  /\ c.index_heads * c.index_dim <= Uint32Max
  /\ c.key_heads * c.key_dim <= (Uint32Max - c.inner) \div 2
  /\ c.mtp_blocks > 0 => c.hidden_size <= Uint32Max \div 2

validate_fields(c) ==
  IF ~Bounded(c) THEN "RANGE"
  ELSE IF ~Divisible(c) THEN "SHAPE"
  ELSE IF c.inner \div c.value_heads # c.key_dim THEN "UNSUPPORTED"
  ELSE IF c.down_physical # Rounded(c.intermediate, 256) THEN "SHAPE"
  ELSE IF heads(c) * c.ngram_dim # c.hidden_size \/ c.eos_id >= c.vocab_size THEN "SHAPE"
  ELSE IF ~Narrow(c) THEN "OVERFLOW" ELSE "OK"

\* Blocks from 0: every interval-th trunk block and the predictor's attend sparsely.
sparse(c, i) == i >= c.blocks - c.mtp_blocks \/ (i + 1) % c.interval = 0
ratio_admitted(c, i) ==
  IF sparse(c, i)
  THEN c.ratios[i + 1] \in 1 .. Uint32Max /\ c.token_budget % c.ratios[i + 1] = 0
  ELSE c.ratios[i + 1] = 0

\* A product of a token and its multiplier stays a signed number.
Signed_first(c) == c.multipliers[1] \in 1 .. Int64Max \div (c.vocab_size - 1)   \* mutant
Signed(c) == \A i \in DOMAIN c.multipliers :
               c.multipliers[i] \in 1 .. Int64Max \div (c.vocab_size - 1)

\* The heads fill the table one behind the other, rounded up to the divisor.
Behind(c, i) == IF i = 1 THEN 0 ELSE c.offsets[i - 1] + c.vocabs[i - 1]
contiguous(c) ==
  \A i \in DOMAIN c.offsets :
    c.vocabs[i] > 0 /\ c.offsets[i] = Behind(c, i) /\ c.vocabs[i] <= c.row_count - Behind(c, i)

load_arrays(c) ==
  IF Len(c.ratios) # c.blocks \/ \E i \in 0 .. c.blocks - 1 : ~ratio_admitted(c, i) THEN "SHAPE"
  ELSE IF c.ple_layer >= c.blocks - c.mtp_blocks THEN "RANGE"
  ELSE IF \/ Len(c.multipliers) # c.order
          \/ Len(c.offsets) # heads(c) \/ Len(c.vocabs) # heads(c) THEN "SHAPE"
  ELSE IF ~Signed(c) \/ ~contiguous(c) THEN "RANGE"
  ELSE IF Rounded(Behind(c, heads(c) + 1), c.divisor) # c.row_count THEN "SHAPE" ELSE "OK"

config_load(c) ==
  IF load_fields(c) # "OK" THEN load_fields(c)
  ELSE IF validate_fields(c) # "OK" THEN validate_fields(c) ELSE load_arrays(c)

config_layer(c, i) ==
  [kind   |-> IF sparse(c, i) THEN "QSA" ELSE "GDN",
   domain |-> IF i >= c.blocks - c.mtp_blocks THEN "MTP" ELSE "TRUNK",
   ratio  |-> c.ratios[i + 1],
   has_ple |-> i = c.ple_layer]

\* What the hash of the n-grams is given.
config_ngram(c) ==
  [vocab |-> c.vocab_size, eos |-> c.eos_id, row_count |-> c.row_count, order |-> c.order,
   per_order |-> c.heads_per_order, multipliers |-> c.multipliers,
   offsets |-> c.offsets, sizes |-> c.vocabs]
=============================================================================
