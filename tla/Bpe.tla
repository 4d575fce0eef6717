---------------------------------- MODULE Bpe ----------------------------------
(***************************************************************************)
(* The byte-level BPE of qwen38_bpe.c.  A text is a sequence of code       *)
(* points; a token is the byte string it stands for, which identifies it   *)
(* (the loader refuses a second token of the same spelling).  A merge is a *)
(* pair of tokens and its rank is its place in the file.                   *)
(***************************************************************************)
EXTENDS Unicode

-----------------------------------------------------------------------------
(* Tables.                                                                  *)

\* GPT-2's alphabet, inverted: printable Latin-1 stands for itself, the other 68 bytes
\* follow from 256 on.
Printable == (33 .. 126) \union (161 .. 172) \union (174 .. 255)
build_alphabet ==
    LET spelled(b) == IF b \in Printable THEN b
                      ELSE 256 + Cardinality({x \in 0 .. b - 1 : x \notin Printable})
    IN [cp \in {spelled(b) : b \in 0 .. 255} |-> CHOOSE b \in 0 .. 255 : spelled(b) = cp]

\* q38a_bpe_load on spellings already undone.
bpe_load(tokens, merges) ==
    CASE tokens = <<>> -> "RANGE"
      [] tokens # <<>> /\ \E i \in DOMAIN tokens : tokens[i] = <<>> -> "FORMAT"
      [] tokens # <<>> /\ Cardinality(ToSet(tokens)) # Len(tokens) -> "FORMAT"
      [] tokens # <<>> /\ ~({<<b>> : b \in 0 .. 255} \subseteq ToSet(tokens)) -> "MISSING"
      [] OTHER ->
            IF /\ \A m \in ToSet(merges) : {m[1], m[2], m[1] \o m[2]} \subseteq ToSet(tokens)
               /\ Cardinality(ToSet(merges)) = Len(merges)
            THEN "OK" ELSE "FORMAT"

\* Two hash tables with linear probing, at most half full; 0 is a free slot. h is the hash
\* of the key.
pow2_at_least(n) == CHOOSE cap \in {2 ^ i : i \in 4 .. 21} : cap >= 2 * n /\ (cap = 16 \/ cap < 4 * n)
Probe(table, h, Stop(_)) ==
    LET cap == Cardinality(DOMAIN table)
        d == CHOOSE d \in 0 .. cap - 1 : /\ Stop(table[(h + d) % cap])
                                        /\ \A b \in 0 .. d - 1 : ~Stop(table[(h + b) % cap])
    IN (h + d) % cap

\* Tokens by their spelling: a slot has the place of the token in the file.
str_insert(table, h, id) == [table EXCEPT ![Probe(table, h, LAMBDA e : e = 0)] = id]
tokenizer_find(tokens, table, h, b) == table[Probe(table, h, LAMBDA e : e = 0 \/ tokens[e] = b)]

\* Merges by their pair: a slot has the rank, and the first rule of a pair stays.
merge_insert(rules, table, h, r) ==
    LET i == Probe(table, h, LAMBDA e : e = 0 \/ rules[e] = rules[r]) IN
    IF table[i] = 0 THEN [table EXCEPT ![i] = r] ELSE table
tokenizer_rank(rules, table, h, l, r) ==
    table[Probe(table, h, LAMBDA e : e = 0 \/ rules[e] = <<l, r>>)]

-----------------------------------------------------------------------------
(* The pre-tokenizer: the alternatives in order, each the length it takes,  *)
(* 0 if it does not match.                                                  *)

is_space(cp) == cp \in (9 .. 13) \union {32, 133, 160, 5760, 8232, 8233, 8239, 8287, 12288}
                       \union (8192 .. 8202)
is_nl(cp) == cp \in {10, 13}

\* Where the longest run of P from position i of t ends.
RunEnd(t, i, P(_)) ==
    CHOOSE j \in i .. Len(t) + 1 :
        /\ \A k \in i .. j - 1 : P(t[k])
        /\ j = Len(t) + 1 \/ ~P(t[j])
Lower(cp) == IF cp \in 65 .. 90 THEN cp + 32 ELSE cp

\* 's 't 'm 'd, 're 've 'll in either case
contraction(t) ==
    IF t[1] # 39 \/ Len(t) < 2 THEN 0
    ELSE IF Lower(t[2]) \in {115, 116, 109, 100} THEN 2
    ELSE IF Len(t) > 2 /\ <<Lower(t[2]), Lower(t[3])>> \in
                {<<114, 101>>, <<118, 101>>, <<108, 108>>} THEN 3
    ELSE 0

\* Letters and marks after one optional character that is no letter, digit or newline; a
\* mark taken as that character stands alone if nothing follows it.
word(t) ==
    LET prefix == ~is_nl(t[1]) /\ category(t[1]) \intersect {"L", "N"} = {}
        first == IF prefix THEN 2 ELSE 1
        last == RunEnd(t, first, LAMBDA cp : category(cp) \intersect {"L", "M"} # {}) IN
    CASE last > first -> last - 1
      [] last = first /\ prefix /\ "M" \in category(t[1]) -> 1
      [] OTHER -> 0

digit(t) == IF "N" \in category(t[1]) THEN 1 ELSE 0

\* Symbols after an optional space, with the newlines that follow.
symbols(t) ==
    LET first == IF t[1] = 32 THEN 2 ELSE 1
        last == RunEnd(t, first, LAMBDA cp : ~is_space(cp) /\ category(cp) = {}) IN
    IF last = first THEN 0 ELSE RunEnd(t, last, is_nl) - 1

\* A run of spaces: through its last newline; whole at the end of the text; otherwise all
\* but the last, which goes to the word that follows.
Before_word_whole(n) == n    \* mutant: the look-ahead is forgotten
Before_word(n) == n - 1

space(t) ==
    LET n == RunEnd(t, 1, is_space) - 1
        newlines == {i \in 1 .. n : is_nl(t[i])} IN
    CASE newlines # {} -> CHOOSE i \in newlines : \A j \in newlines : j <= i
      [] newlines = {} /\ n < Len(t) /\ n > 1 -> Before_word(n)
      [] OTHER -> n

pretoken_len(t) ==
    LET lengths == <<contraction(t), word(t), digit(t), symbols(t), space(t)>> IN
    SelectSeq(lengths, LAMBDA n : n > 0)[1]

-----------------------------------------------------------------------------
(* Merging.                                                                 *)

\* The rank of a pair is the place of its rule.
rank(merges, l, r) == IF \E k \in DOMAIN merges : merges[k] = <<l, r>>
                      THEN CHOOSE k \in DOMAIN merges : merges[k] = <<l, r>> ELSE 0

\* The pair of the best rank, the leftmost of them.
best(merges, ids) ==
    LET r == [i \in 1 .. Len(ids) - 1 |-> rank(merges, ids[i], ids[i + 1])]
        pairs == {i \in DOMAIN r : r[i] > 0} IN
    IF pairs = {} THEN 0
    ELSE CHOOSE i \in pairs : \A j \in pairs \ {i} :
            r[i] < r[j] \/ (r[i] = r[j] /\ i < j)

merge(ids, i) == SubSeq(ids, 1, i - 1) \o <<ids[i] \o ids[i + 1]>> \o SubSeq(ids, i + 2, Len(ids))

bpe_chunk(merges, bytes) ==
    LET step(ids, i) == IF best(merges, ids) = 0 THEN ids ELSE merge(ids, best(merges, ids))
    IN FoldLeft(step, [i \in DOMAIN bytes |-> <<bytes[i]>>], bytes)

Utf8(t) == FlattenSeq([i \in DOMAIN t |-> put_utf8(t[i])])

\* The pre-tokens of a text, and its tokens: no merge crosses a pre-token.
pretokens(t) ==
    LET step(st, i) ==
            IF st.rest = <<>> THEN st
            ELSE LET n == pretoken_len(st.rest) IN
                 [out |-> Append(st.out, SubSeq(st.rest, 1, n)),
                  rest |-> SubSeq(st.rest, n + 1, Len(st.rest))]
    IN FoldLeft(step, [out |-> <<>>, rest |-> t], t).out
segment(merges, t) ==
    FlattenSeq([i \in DOMAIN pretokens(t) |-> bpe_chunk(merges, Utf8(pretokens(t)[i]))])
===============================================================================
