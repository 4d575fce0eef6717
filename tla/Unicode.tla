-------------------------------- MODULE Unicode --------------------------------
(***************************************************************************)
(* UTF-8 and normalization form C (qwen38_unicode.c and the inline helper  *)
(* of qwen38_a_internal.h).  Code points and bytes are numbers.  The       *)
(* generated tables are kept for a few letters, marks and Hangul           *)
(* syllables; the algorithms are those of the code.                        *)
(***************************************************************************)
EXTENDS Integers, Sequences, SequencesExt

\* Rows of the tables: Latin a, e with marks above (230), below (220) and inside (1).
nfd_table == (225 :> <<97, 769>>) @@ (224 :> <<97, 768>>) @@ (7841 :> <<97, 803>>)
nfc_compose == {<<97, 769, 225>>, <<97, 768, 224>>, <<97, 803, 7841>>}
nfc_ccc == (768 :> 230) @@ (769 :> 230) @@ (803 :> 220) @@ (820 :> 1)

category_L == (65 .. 90) \union (97 .. 122) \union {224, 225, 7841} \union (4352 .. 4607)
              \union (44032 .. 55203)
category_N == 48 .. 57
category_M == 768 .. 879

category(cp) == {k \in {"L", "N", "M"} :
                    \/ k = "L" /\ cp \in category_L
                    \/ k = "N" /\ cp \in category_N
                    \/ k = "M" /\ cp \in category_M}

combining(cp) == IF cp \in DOMAIN nfc_ccc THEN nfc_ccc[cp] ELSE 0

\* Canonical decomposition; Hangul syllables by arithmetic.
Syllables == 44032 .. 44032 + 11171
decompose_cp(cp) ==
    IF cp \in Syllables THEN
        LET s == cp - 44032
            pair == <<4352 + (s \div 588), 4449 + ((s % 588) \div 28)>> IN
        IF s % 28 = 0 THEN pair ELSE Append(pair, 4519 + (s % 28))
    ELSE IF cp \in DOMAIN nfd_table THEN nfd_table[cp] ELSE <<cp>>

\* The composite of two code points, 0 if there is none.
compose_cp(a, b) ==
    CASE a \in 4352 .. 4370 /\ b \in 4449 .. 4469 ->
            44032 + (((a - 4352) * 21 + (b - 4449)) * 28)
      [] a \in Syllables /\ (a - 44032) % 28 = 0 /\ b \in 4520 .. 4546 -> a + b - 4519
      [] OTHER -> IF \E t \in nfc_compose : t[1] = a /\ t[2] = b
                  THEN (CHOOSE t \in nfc_compose : t[1] = a /\ t[2] = b)[3] ELSE 0

\* One step of the insertion sort of marks: behind the last code point of no higher class.
Below_unstable(s, cc) ==      \* mutant: equal classes change places
    {k \in 1 .. Len(s) : combining(s[k]) < cc \/ combining(s[k]) = 0}
Below(s, cc) == {k \in 1 .. Len(s) : combining(s[k]) <= cc}

Sorted(s, cp) ==
    IF combining(cp) = 0 THEN Append(s, cp)
    ELSE LET k == Below(s, combining(cp)) IN
         InsertAt(s, (IF k = {} THEN 0 ELSE CHOOSE j \in k : \A i \in k : i <= j) + 1, cp)

\* One step of the composition loop: kept code points, the last starter, the class before.
Composed(st, cp) ==
    LET cc == combining(cp)
        open == st.starter # 0 /\ (st.previous = -1 \/ st.previous < cc)
        c == IF open THEN compose_cp(st.out[st.starter], cp) ELSE 0 IN
    IF c # 0 THEN [st EXCEPT !.out[st.starter] = c]
    ELSE [out |-> Append(st.out, cp),
          starter |-> IF cc = 0 THEN Len(st.out) + 1 ELSE st.starter,
          previous |-> IF cc = 0 THEN -1 ELSE cc]

Decomposed(s) == FoldLeft(Sorted, <<>>, FlattenSeq([i \in DOMAIN s |-> decompose_cp(s[i])]))
nfc(s) == FoldLeft(Composed, [out |-> <<>>, starter |-> 0, previous |-> -1], Decomposed(s)).out

-----------------------------------------------------------------------------
(* UTF-8.                                                                   *)

put_utf8(cp) ==
    CASE cp < 128 -> <<cp>>
      [] cp \in 128 .. 2047 -> <<192 + (cp \div 64), 128 + (cp % 64)>>
      [] cp \in 2048 .. 65535 -> <<224 + (cp \div 4096), 128 + ((cp \div 64) % 64),
                                   128 + (cp % 64)>>
      [] OTHER -> <<240 + (cp \div 262144), 128 + ((cp \div 4096) % 64),
                    128 + ((cp \div 64) % 64), 128 + (cp % 64)>>

\* The length a lead byte announces; no other byte may lead.
Width(c) == CASE c < 128 -> 1 [] c \in 194 .. 223 -> 2 [] c \in 224 .. 239 -> 3
              [] c \in 240 .. 244 -> 4 [] OTHER -> 0
\* Overlong forms, surrogates and code points past the last one.
BadSecond(c, d) ==
    \/ c = 224 /\ d < 160
    \/ c = 237 /\ d >= 160
    \/ c = 240 /\ d < 144
    \/ c = 244 /\ d >= 144

\* 0 for an incomplete sequence, -1 for a malformed one, otherwise its length.
utf8(p) ==
    IF p = <<>> THEN 0
    ELSE LET k == Width(p[1]) IN
         CASE k = 0 -> -1
           [] k # 0 /\ \E i \in 2 .. k : i <= Len(p) /\ p[i] \notin 128 .. 191 -> -1
           [] k # 0 /\ Len(p) > 1 /\ BadSecond(p[1], p[2]) -> -1
           [] OTHER -> IF Len(p) < k THEN 0 ELSE k

\* How much of a malformed sequence one replacement character stands for.
invalid_prefix(p) ==
    IF Len(p) > 1 /\ BadSecond(p[1], p[2]) THEN 1
    ELSE CHOOSE k \in 1 .. Len(p) :
            /\ \A i \in 2 .. k : i <= Width(p[1]) /\ p[i] \in 128 .. 191
            /\ k = Len(p) \/ k >= Width(p[1]) \/ p[k + 1] \notin 128 .. 191

Replacement == <<239, 191, 189>>
\* The rendered text and the bytes not used yet: an incomplete tail waits unless finishing.
utf8_render(raw, finish) ==
    LET step(st, i) ==
            LET k == utf8(st.rest) IN
            IF st.rest = <<>> \/ (k = 0 /\ ~finish) THEN st
            ELSE LET n == IF k > 0 THEN k ELSE invalid_prefix(st.rest) IN
                 [out |-> st.out \o (IF k > 0 THEN SubSeq(st.rest, 1, n) ELSE Replacement),
                  rest |-> SubSeq(st.rest, n + 1, Len(st.rest))]
    IN FoldLeft(step, [out |-> <<>>, rest |-> raw], [i \in DOMAIN raw |-> i])
===============================================================================
