------------------------------ MODULE MCNgramStore ------------------------------
EXTENDS NgramStore
LOCAL INSTANCE Bitwise

MCMix(a, b) == a ^^ b
\* Trigrams and bigrams of two tokens and the end of text, one head each.
MCConfig == [vocab |-> 3, eos |-> 2, row_count |-> 6, order |-> 3, per_order |-> 1,
             multipliers |-> <<3, 5, 7>>, sizes |-> <<2, 4>>, offsets |-> <<0, 2>>]
MCSize == [store |-> 1, state |-> 1, previous |-> 1, conv |-> 2, job |-> 1, id |-> 1,
           next |-> 1, workspace |-> 1, data |-> 2]
=============================================================================
