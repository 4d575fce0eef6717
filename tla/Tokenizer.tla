------------------------------- MODULE Tokenizer -------------------------------
(***************************************************************************)
(* The tokenizer facade of qwen38_tokenizer.c: admission of a vocabulary,  *)
(* encoding around the added tokens, decoding to bytes, and the streaming  *)
(* UTF-8 decoder.  A token ID is <<"bpe", spelling>>, <<"added", k>> or    *)
(* <<"unused", k>>.                                                        *)
(***************************************************************************)
EXTENDS Bpe

CONSTANT Added      \* the added tokens in order: name (code points), special, kind (33 in the code)

-----------------------------------------------------------------------------
(* Loading: normal tokens, the added ones, then unused padding.             *)

load_tables(vocab, merges) ==
    LET base == RunEnd(vocab, 1, LAMBDA v : v.kind = 1) - 1
        after == base + Len(Added) IN
    CASE Len(vocab) < after -> "FORMAT"
      [] Len(vocab) >= after /\ \E i \in DOMAIN Added :
            \/ vocab[base + i].name # Added[i].name
            \/ vocab[base + i].kind # Added[i].kind -> "UNSUPPORTED"
      [] OTHER -> IF \E i \in after + 1 .. Len(vocab) : vocab[i].kind # 5 THEN "FORMAT"
                  ELSE bpe_load([i \in 1 .. base |-> vocab[i].name], merges)

\* The first added token is the padding and the begin of text, the third ends a turn; no
\* token is put in front of a text.
pad == <<"added", 1>>
eos == <<"added", 3>>
tokenizer_load(file) ==
    LET s == load_tables(file.vocab, file.merges) IN
    CASE s # "OK" -> s
      [] s = "OK" /\ (file.eos # eos \/ file.padding # pad \/ file.bos # pad) -> "FORMAT"
      [] s = "OK" /\ file.add_bos -> "UNSUPPORTED"
      [] OTHER -> IF file.ngram_eos # pad THEN "SHAPE" ELSE "OK"

token_is_stop(id) == id \in {eos, pad}

-----------------------------------------------------------------------------
(* Encoding.                                                                *)

Occurs(name, t, j) == j + Len(name) - 1 <= Len(t) /\ SubSeq(t, j, j + Len(name) - 1) = name

\* One step of the search: the added token i if it occurs earlier, or as early and longer.
Better(j, n, hit) == j < hit.at \/ (j = hit.at /\ n > hit.len)

Found(t, hit, i) ==
    LET n == Len(Added[i].name)
        at == {j \in 1 .. hit.at : Occurs(Added[i].name, t, j)} IN
    IF at = {} THEN hit
    ELSE LET j == CHOOSE j \in at : \A k \in at : j <= k IN
         IF Better(j, n, hit) THEN [at |-> j, which |-> i, len |-> n] ELSE hit

\* The text before the next added token is normalized and segmented, the token is taken.
BpeIds(tokens) == [i \in DOMAIN tokens |-> <<"bpe", tokens[i]>>]
Taken(merges, st, hit) ==
    [out |-> st.out \o BpeIds(segment(merges, nfc(SubSeq(st.rest, 1, hit.at - 1))))
                    \o (IF hit.which = 0 THEN <<>> ELSE <<<<"added", hit.which>>>>),
     rest |-> SubSeq(st.rest, hit.at + hit.len, Len(st.rest))]
Encoded(merges, st, x) ==
    IF st.rest = <<>> THEN st
    ELSE Taken(merges, st, FoldLeft(LAMBDA h, i : Found(st.rest, h, i),
                                    [at |-> Len(st.rest) + 1, which |-> 0, len |-> 0],
                                    [i \in DOMAIN Added |-> i]))

ids_of(merges, t) == FoldLeft(LAMBDA st, x : Encoded(merges, st, x), [out |-> <<>>, rest |-> t], t).out

\* The number of IDs is always told; they are written only if all fit.
Fitting(ids, cap) ==
    IF cap < Len(ids) THEN [status |-> "CAPACITY", needed |-> Len(ids), ids |-> <<>>]
    ELSE [status |-> "OK", needed |-> Len(ids), ids |-> ids]
encode(merges, t, cap) == Fitting(ids_of(merges, t), cap)

-----------------------------------------------------------------------------
(* Decoding.                                                                *)

token_bytes(id, skip) ==
    CASE id[1] = "bpe" -> id[2]
      [] id[1] = "added" -> IF skip /\ Added[id[2]].special THEN <<>> ELSE Utf8(Added[id[2]].name)
      [] OTHER -> <<>>
decode_bytes(ids, skip) == FlattenSeq([i \in DOMAIN ids |-> token_bytes(ids[i], skip)])

decoder_create == [carry |-> <<>>, finished |-> FALSE]

\* The bytes carried over and those of the IDs are rendered; what is incomplete is carried
\* on.  Nothing changes in the decoder when the output does not fit or is only measured.
Carry_last(r) == IF Len(r.rest) > 1 THEN <<Last(r.rest)>> ELSE r.rest   \* mutant: one byte waits
Carry(r) == r.rest

\* What becomes of a rendered text r.
Rendered(d, r, finish, cap) ==
    LET answer(s, next, text) == [status |-> s, needed |-> Len(r.out), out |-> text, next |-> next] IN
    CASE d.finished -> [status |-> "BAD_STATE", needed |-> 0, out |-> <<>>, next |-> d]
      [] ~d.finished /\ cap < Len(r.out) -> answer("CAPACITY", d, <<>>)
      [] OTHER -> answer("OK", [carry |-> Carry(r), finished |-> finish], r.out)

decoder_run(d, ids, skip, finish, cap) ==
    Rendered(d, utf8_render(d.carry \o decode_bytes(ids, skip), finish), finish, cap)
decoder_append(d, ids, skip, cap) == decoder_run(d, ids, skip, FALSE, cap)
decoder_finish(d, skip, cap) == decoder_run(d, <<>>, skip, TRUE, cap)
decode_utf8(ids, skip, cap) == decoder_run(decoder_create, ids, skip, TRUE, cap)
===============================================================================
