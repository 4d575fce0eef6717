--------------------------- MODULE MCSessionClaims ---------------------------
(* Weights overlap each other (tensors in one shared page view), so that the *)
(* search needs the running maximum of the ends; 0 is CPU-visible memory,    *)
(* 1 a private buffer.                                                       *)
EXTENDS SessionClaims

At(ident, lo, hi) == [ident |-> ident, lo |-> lo, hi |-> hi]
MCWordSpan == At(0, 4, 5)
MCWeights  == <<At(0, 2, 3), At(0, 0, 4), At(1, 0, 1)>>
MCSpans    == {At(0, 0, 1), At(0, 3, 4), At(0, 3, 5), At(0, 4, 6), At(0, 5, 6),
               At(1, 0, 1), At(1, 1, 2)}
=============================================================================
