------------------------------- MODULE MCTurn -------------------------------
(* im_end ends a message, nl is the newline after it, word anything else. *)
EXTENDS Turn

CONSTANTS word, nl, im_end
MCBodies == {<<word>>, <<nl>>}
=============================================================================
