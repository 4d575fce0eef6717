----------------------------- MODULE TokenGraph -----------------------------
(***************************************************************************)
(* What the GPU graph promises to the program that drives it: a text that  *)
(* appends extend, that keep and restore shorten by a few rows and reset   *)
(* empties, and a predictor whose rows pair with those of the last append. *)
(* The guards are the preconditions of the calls (qwen38_forward_gpu.m);   *)
(* nothing else can make a call of a valid graph fail but the machine.     *)
(***************************************************************************)
EXTENDS Integers, Sequences

CONSTANTS
  Token,         \* the vocabulary
  Capacity,      \* positions of the graph
  MaxTokens,     \* rows of one append
  VerifyRows,    \* rows of one verify
  RewindWindow,  \* rows a predictor rewind may drop
  RestoreWindow  \* rows a restore may drop

VARIABLES
  valid,
  enabled,  \* the predictor exists
  text,     \* the tokens published
  first,    \* the last append's rows, first+1 .. first+count: those the
  count,    \* predictor may still be given
  partner,  \* the predictor's rows: the token each position is paired with
  chained,  \* rows of the predictor's last append
  pending   \* rows of the verify that keep may shorten

trunk     == <<text, first, count>>
predictor == <<enabled, partner, chained>>
gvars     == <<valid, trunk, predictor, pending>>

Appends(n) == UNION {[1 .. j -> Token] : j \in 1 .. n}

GInit ==
  /\ valid = TRUE /\ enabled = FALSE
  /\ text = <<>> /\ first = 0 /\ count = 0
  /\ partner = <<>> /\ chained = 0
  /\ pending = 0

-----------------------------------------------------------------------------
CanAppend(ts) ==
  /\ valid
  /\ Len(ts) \in 1 .. MaxTokens
  /\ Len(text) + Len(ts) <= Capacity

CanVerify(ts) == enabled /\ Len(ts) \in 2 .. VerifyRows /\ CanAppend(ts)

CanKeep(k) == valid /\ k \in 1 .. pending

\* Rows offset .. of the last append, if the predictor stands exactly there.
CanPair(offset, ts) ==
  /\ valid /\ enabled
  /\ offset + Len(ts) <= count
  /\ Len(partner) = first + offset
  /\ Len(ts) \in 1 .. (Capacity - Len(partner))

CanChain == valid /\ enabled /\ chained > 0 /\ Len(partner) < Capacity

CanRewind(p) ==
  valid /\ enabled /\ p \in 0 .. Len(partner) /\ Len(partner) - p <= RewindWindow

-----------------------------------------------------------------------------
Extended(ts) ==
  /\ text' = text \o ts
  /\ first' = Len(text) /\ count' = Len(ts)
  /\ UNCHANGED <<valid, predictor>>

Extend(ts) == CanAppend(ts) /\ Extended(ts) /\ pending' = 0
Verify(ts) == CanVerify(ts) /\ Extended(ts) /\ pending' = Len(ts)

Keep(k) ==
  /\ CanKeep(k)
  /\ text' = SubSeq(text, 1, first + k)
  /\ count' = k
  /\ pending' = 0
  /\ UNCHANGED <<valid, first, predictor>>

\* A call that is refused may still end the pending verify.
Forget == pending' = 0 /\ UNCHANGED <<valid, trunk, predictor>>

Paired(ts) ==
  /\ partner' = partner \o ts
  /\ chained' = Len(ts)
  /\ UNCHANGED <<valid, trunk, enabled, pending>>

Pair(offset, ts) == CanPair(offset, ts) /\ Paired(ts)
Chain(t) == CanChain /\ Paired(<<t>>)

Rewind(p) ==
  /\ CanRewind(p) /\ p < Len(partner)
  /\ partner' = SubSeq(partner, 1, p)
  /\ chained' = 0
  /\ UNCHANGED <<valid, trunk, enabled, pending>>

Enable ==
  /\ valid /\ text = <<>>
  /\ enabled' = TRUE
  /\ UNCHANGED <<valid, trunk, partner, chained, pending>>

Reset ==
  /\ valid' = TRUE
  /\ text' = <<>> /\ count' = 0
  /\ partner' = <<>> /\ chained' = 0
  /\ pending' = 0
  /\ UNCHANGED <<first, enabled>>

\* Back to a text of at most RestoreWindow rows less, with its last append.
Restore(p, f, c) ==
  /\ valid
  /\ p <= Len(text) /\ Len(text) - p <= RestoreWindow
  /\ text' = SubSeq(text, 1, p)
  /\ first' = f /\ count' = c
  /\ c > 0 => f + c = p
  /\ pending' = 0
  /\ UNCHANGED <<valid, predictor>>

\* A failure: the text is not extended and only a reset recovers.
Fail ==
  /\ valid' = FALSE /\ pending' = 0
  /\ partner' \in {partner, <<>>} /\ chained' \in {chained, 0}
  /\ UNCHANGED <<trunk, enabled>>

GNext ==
  \/ \E ts \in Appends(MaxTokens) : Extend(ts) \/ Verify(ts)
  \/ \E k \in 1 .. VerifyRows : Keep(k)
  \/ Forget
  \/ \E offset \in 0 .. MaxTokens, ts \in Appends(MaxTokens) : Pair(offset, ts)
  \/ \E t \in Token : Chain(t)
  \/ \E p \in 0 .. Capacity : Rewind(p)
  \/ Enable
  \/ Reset
  \/ \E p, f \in 0 .. Capacity, c \in 0 .. MaxTokens : Restore(p, f, c)
  \/ Fail

GSpec == GInit /\ [][GNext]_gvars
=============================================================================
