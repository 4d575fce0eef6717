----------------------------------- MODULE Moe -----------------------------------
(***************************************************************************)
(* Choosing: the routed experts of qwen38_moe.c and the sparse selection   *)
(* of qwen38_attention.c.  Scores are numbers that may tie; a row and an   *)
(* expert's answer to it are symbols, so that a result says which row met  *)
(* which expert with which weight.                                         *)
(***************************************************************************)
EXTENDS Naturals, Sequences, SequencesExt, FiniteSets

CONSTANT Micro      \* rows of one micro-batch, 32 in the code

Swapped(s, i, j) == [s EXCEPT ![i] = s[j], ![j] = s[i]]
Upto(n) == [i \in 1 .. n |-> i]

-----------------------------------------------------------------------------
(* q38d_select: a bounded heap whose root is the worst of those kept.        *)

worse_any_tie(s, a, b) == s[a] < s[b]    \* mutant: ties are not broken
worse(s, a, b) == s[a] < s[b] \/ (s[a] = s[b] /\ a > b)

sift(s, heap, root) ==
    LET n == Len(heap)
        down(st, x) ==
            IF st.root > n \div 2 THEN st
            ELSE LET left == 2 * st.root
                     child == IF left < n /\ worse(s, st.heap[left + 1], st.heap[left])
                              THEN left + 1 ELSE left IN
                 IF ~worse(s, st.heap[child], st.heap[st.root]) THEN [st EXCEPT !.root = n]
                 ELSE [heap |-> Swapped(st.heap, child, st.root), root |-> child]
    IN FoldLeft(down, [heap |-> heap, root |-> root], Upto(n)).heap

select(s, budget) ==
    LET n == IF Len(s) < budget THEN Len(s) ELSE budget
        built == FoldLeft(LAMBDA h, i : sift(s, h, (n \div 2) + 1 - i), Upto(n), Upto(n \div 2))
        offered(h, i) == IF worse(s, h[1], i) THEN sift(s, [h EXCEPT ![1] = i], 1) ELSE h
        kept == FoldLeft(offered, built, [i \in 1 .. Len(s) - n |-> n + i])
    IN IF n = 0 THEN <<>> ELSE SetToSortSeq(ToSet(kept), LAMBDA a, b : a < b)

-----------------------------------------------------------------------------
(* The router: the unused expert of the highest probability, k times.        *)

route(p, k) ==
    LET unused(ids) == SelectSeq(Upto(Len(p)), LAMBDA e : e \notin ToSet(ids))
        scan(ids) == FoldLeft(LAMBDA best, e : IF p[e] > p[best] THEN e ELSE best,
                              Head(unused(ids)), Tail(unused(ids)))
    IN FoldLeft(LAMBDA ids, x : Append(ids, scan(ids)), <<>>, Upto(k))

-----------------------------------------------------------------------------
(* Pairs of a row and a slot, grouped by expert: a stable counting sort with *)
(* the permutation and its inverse.                                          *)

grouping_status(ids, experts) ==
    CASE \E t \in DOMAIN ids : \E s \in DOMAIN ids[t] : ids[t][s] \notin 1 .. experts -> "RANGE"
      [] \E t \in DOMAIN ids : Cardinality(ToSet(ids[t])) # Len(ids[t]) -> "INVALID"
      [] OTHER -> "OK"

group_pairs(ids, experts, k) ==
    LET pairs == [i \in 1 .. Len(ids) * k |-> ids[((i - 1) \div k) + 1][((i - 1) % k) + 1]]
        offsets == [e \in 1 .. experts + 1 |->
                        Cardinality({i \in DOMAIN pairs : pairs[i] < e})]
        place(g, i) ==
            LET row == g.cursors[pairs[i]] + 1 IN
            [cursors |-> [g.cursors EXCEPT ![pairs[i]] = row],
             pair_to_row |-> [g.pair_to_row EXCEPT ![i] = row],
             row_to_pair |-> [g.row_to_pair EXCEPT ![row] = i]]
        zero == [i \in DOMAIN pairs |-> 0]
        g == FoldLeft(place, [cursors |-> [e \in 1 .. experts |-> offsets[e]],
                              pair_to_row |-> zero, row_to_pair |-> zero], Upto(Len(pairs)))
    IN [offsets |-> offsets, pair_to_row |-> g.pair_to_row, row_to_pair |-> g.row_to_pair]

\* An expert on a contiguous group of gathered rows.
moe_expert(e, rows) == [i \in DOMAIN rows |-> <<e, rows[i]>>]

\* One micro-batch: route, group, gather, every expert once, and the pairs summed back.
moe_batch(x, probs, experts, k) ==
    LET ids == [t \in DOMAIN x |-> route(probs[t], k)]
        g == group_pairs(ids, experts, k)
        gather == [row \in DOMAIN g.row_to_pair |-> x[((g.row_to_pair[row] - 1) \div k) + 1]]
        down == FlattenSeq([e \in 1 .. experts |->
                    moe_expert(e, SubSeq(gather, g.offsets[e] + 1, g.offsets[e + 1]))])
    IN [t \in DOMAIN x |->
          [routed |-> [s \in 1 .. k |->
                          <<probs[t][ids[t][s]], down[g.pair_to_row[((t - 1) * k) + s]]>>],
           shared |-> x[t]]]

\* A call of any length, in micro-batches.
moe_forward(x, probs, experts, k) ==
    LET batches == ((Len(x) + Micro) - 1) \div Micro
        of(s, b) == SubSeq(s, ((b - 1) * Micro) + 1,
                           IF b * Micro < Len(s) THEN b * Micro ELSE Len(s))
    IN FlattenSeq([b \in 1 .. batches |-> moe_batch(of(x, b), of(probs, b), experts, k)])
===============================================================================
