------------------------------- MODULE Recurrent -------------------------------
(***************************************************************************)
(* The two recurrent histories of a layer on the CPU, as values: the halo  *)
(* of the causal dilated convolution (qwen38_conv.c) and the state of the  *)
(* gated delta rule (qwen38_gdn.c). An operation returns a status, the     *)
(* state it leaves, and its output. What a row is does not matter here, so *)
(* a sum over taps is the tuple of the rows it reads, and the recurrence   *)
(* is the sequence of the rows it has consumed.                            *)
(***************************************************************************)
EXTENDS Integers, Sequences

CONSTANTS
  Kernel, Dilation,  \* taps of the convolution, and the distance between two
  StateEpochs        \* the last epoch of a state (UINT64_MAX in the code)

ASSUME RecurrentAssumption == Kernel \in Nat \ {0} /\ Dilation \in Nat \ {0} /\ StateEpochs \in Nat

Zero    == <<>>                        \* a row of zeros
Halo    == (Kernel - 1) * Dilation     \* conv_shape: rows of history
Zeros   == [i \in 1 .. Halo |-> Zero]
Result(status, s, out) == [status |-> status, s |-> s, out |-> out]
Refuse(status, s)      == Result(status, s, <<>>)

state_init(epoch, data) == [epoch |-> epoch, next_pos |-> 0, valid |-> TRUE, data |-> data]

\* Mutant: the rows stay.
state_reset_keeps_data(s, epoch, data) ==
  IF s.epoch = StateEpochs THEN Refuse("overflow", s)
  ELSE IF epoch <= s.epoch THEN Refuse("stale", s)
  ELSE Result("ok", state_init(epoch, s.data), <<>>)

\* q38c_state_reset: only a newer epoch makes a state usable again.
state_reset(s, epoch, data) ==
  IF s.epoch = StateEpochs THEN Refuse("overflow", s)
  ELSE IF epoch <= s.epoch THEN Refuse("stale", s)
  ELSE Result("ok", state_init(epoch, data), <<>>)

conv_state_copy(dst, src) ==
  IF ~dst.valid \/ ~src.valid THEN Refuse("bad_state", dst)
  ELSE IF dst.epoch # src.epoch THEN Refuse("stale", dst)
  ELSE Result("ok", [dst EXCEPT !.data = src.data, !.next_pos = src.next_pos], <<>>)

\* What the append checks of both recurrences share.
Append_status(s, start) ==
  IF ~s.valid \/ start # s.next_pos THEN "bad_state" ELSE "ok"

\* Row i of the halo followed by the chunk; tap Kernel is the current row.
Tap(h, x, i) == IF i <= Halo THEN h[i] ELSE x[i - Halo]
Window(h, x, t) == [j \in 1 .. Kernel |-> Tap(h, x, t + (j - 1) * Dilation)]

\* The halo after the chunk: what of the old one is kept, then the chunk's last rows.
Shift(h, x) ==
  [r \in 1 .. Halo |-> IF r <= Halo - Len(x) THEN h[r + Len(x)] ELSE x[Len(x) - (Halo - r)]]

\* The halo is read for the whole chunk before it moves; a sum that is not
\* finite leaves it alone but makes the state unusable.
conv_causal(s, x, start, finite) ==
  IF Append_status(s, start) # "ok" THEN Refuse(Append_status(s, start), s)
  ELSE IF x = <<>> THEN Result("ok", s, <<>>)
  ELSE IF ~finite THEN Refuse("nonfinite", [s EXCEPT !.valid = FALSE])
  ELSE Result("ok", [s EXCEPT !.data = Shift(s.data, x), !.next_pos = start + Len(x)],
              [t \in 1 .. Len(x) |-> Window(s.data, x, t)])

\* The recurrence is advanced in place, row by row: a sum that is not finite
\* leaves some rows consumed.
gdn_scan(s, x, start, finite) ==
  IF Append_status(s, start) # "ok" THEN Refuse(Append_status(s, start), s)
  ELSE IF x = <<>> THEN Result("ok", s, <<>>)
  ELSE IF ~finite THEN Refuse("nonfinite", [s EXCEPT !.valid = FALSE, !.data = @ \o <<x[1]>>])
  ELSE Result("ok", [s EXCEPT !.data = @ \o x, !.next_pos = start + Len(x)],
              [t \in 1 .. Len(x) |-> s.data \o SubSeq(x, 1, t)])
=============================================================================
