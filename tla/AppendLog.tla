------------------------------ MODULE AppendLog ------------------------------
(***************************************************************************)
(* What a GPU session promises to the graph that uses it: a position that  *)
(* only whole, cleanly executed commands advance, that moves back only a   *)
(* few rows and only under a new epoch, and that, once a failure may have  *)
(* touched the state, nothing but a reset recovers.                        *)
(***************************************************************************)
EXTENDS Naturals

CONSTANTS
  Capacity,      \* rows the session was created for
  MaxEpoch,      \* the last epoch (UINT64_MAX in the code)
  RewindWindow   \* rows a rewind may drop (4 in the code)

VARIABLES
  pos,    \* published rows
  usable, \* FALSE from a failure to the next reset
  era     \* the epoch: handles of an older one are void

vars == <<pos, usable, era>>

Init == pos = 0 /\ usable = TRUE /\ era = 1

\* A command of n rows executed completely and without any error.
Publish(n) ==
  /\ usable
  /\ pos + n <= Capacity
  /\ pos' = pos + n
  /\ UNCHANGED <<usable, era>>

\* A failure: the rows stay published but may no longer be used.
Poison ==
  /\ usable
  /\ usable' = FALSE
  /\ UNCHANGED <<pos, era>>

Reset ==
  /\ era < MaxEpoch
  /\ era' = era + 1
  /\ pos' = 0
  /\ usable' = TRUE

\* The last rows are dropped.
Rewind(p) ==
  /\ usable
  /\ era < MaxEpoch
  /\ pos <= p + RewindWindow
  /\ era' = era + 1
  /\ pos' = p
  /\ UNCHANGED usable

Next ==
  \/ \E n \in 1 .. Capacity : Publish(n)
  \/ Poison
  \/ Reset
  \/ \E p \in 0 .. pos : Rewind(p)

Spec == Init /\ [][Next]_vars
=============================================================================
