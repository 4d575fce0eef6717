-------------------------- MODULE SessionClaimsProofs --------------------------
(***************************************************************************)
(* The GPU session's safety, for every capacity, number of early command   *)
(* buffers, rewind window and range of epochs; and what a running command  *)
(* may touch, for every set of weights and every claim.                    *)
(***************************************************************************)
EXTENDS SessionClaims, Facts, FiniteSetTheorems

-----------------------------------------------------------------------------
(* The session.                                                            *)

(***************************************************************************)
(* The inductive invariant. Trusted alone is not inductive: what a command *)
(* leaves behind depends on which of its buffers have run (Buffers), on    *)
(* what they did to the rows (Device) and on the open ticket being the one *)
(* begin admitted at next_pos (Ledger). NoReplay needs Replay: published   *)
(* tickets of the current epoch lie below next_pos.                        *)
(***************************************************************************)
Ledger ==
  busy => /\ alive
          /\ open.epoch = epoch
          /\ open.start = next_pos
          /\ next_pos + open.count <= Capacity

Buffers ==
  /\ ~busy => early = NoEarly /\ early_count = 0 /\ command = "none"
  /\ state = "ENCODING" => command = "open"
  /\ state = "IN_FLIGHT" => command \in {"pending", "ok", "failed"}
  /\ \A i \in 1 .. MaxFlush : early[i] # "none" => i <= early_count
  /\ command \in {"ok", "failed"} => EarlyDrained

Device ==
  busy =>
    /\ command \in {"open", "pending"} => content = next_pos
    /\ command \in {"open", "pending"} /\ early_count = 0 => ~torn
    /\ open.count = 0 => ~torn /\ content = next_pos
    /\ command_ok(command) /\ ~word => ~torn /\ content = next_pos + open.count

Replay ==
  \A t \in published :
    /\ t.count > 0
    /\ t.epoch <= epoch
    /\ t.epoch = epoch => t.start + t.count <= next_pos

IInv == TypeOK /\ Trusted /\ Ledger /\ Buffers /\ Device /\ Replay

LEMMA InitIInv == Init => IInv
<1> SUFFICES ASSUME Init PROVE IInv
  OBVIOUS
<1>1. TypeOK
  <2>1. state \in States /\ resume \in {"IDLE", "VALID"}
    BY DEF Init, States
  <2>2. /\ epoch \in 1 .. MaxEpoch /\ next_pos \in 0 .. Capacity
        /\ content \in 0 .. Capacity /\ early_count \in 0 .. MaxFlush
    BY SessionAssumption DEF Init
  <2>3. open \in Tickets
    BY SessionAssumption DEF Init, Tickets, NoTicket
  <2>4. early \in [1 .. MaxFlush -> Outcomes] /\ command \in Outcomes \cup {"open"}
    BY DEF Init, NoEarly, Outcomes
  <2>5. word \in BOOLEAN /\ alive \in BOOLEAN /\ torn \in BOOLEAN
    BY DEF Init
  <2>6. published \in SUBSET Tickets
    BY DEF Init
  <2> QED
    BY <2>1, <2>2, <2>3, <2>4, <2>5, <2>6 DEF TypeOK
<1>2. Trusted /\ Ledger /\ Device /\ Replay
  BY DEF Init, Trusted, Ledger, Device, Replay, busy
<1>3. Buffers
  BY DEF Init, Buffers, NoEarly, busy
<1> QED
  BY <1>1, <1>2, <1>3 DEF IInv

LEMMA BeginIInv ==
  ASSUME IInv, NEW n \in 0 .. Capacity, begin(n) PROVE IInv'
<1> USE SessionAssumption DEF IInv
<1>1. /\ state \in {"IDLE", "VALID"} /\ state' = "ENCODING" /\ resume' = state
      /\ ~busy /\ alive /\ ~torn /\ content = next_pos /\ n <= Capacity - next_pos
  BY DEF begin, Admit, busy, Trusted
<1>2. UNCHANGED <<epoch, next_pos, device, alive, published, early, early_count>>
  BY DEF begin, Admit
<1>3. TypeOK'
  <2>1. open' \in Tickets
    BY <1>1, <1>2 DEF begin, Admit, TypeOK, Tickets
  <2>2. command' = "open" /\ word' = FALSE
    BY DEF begin
  <2> QED
    BY <1>1, <1>2, <2>1, <2>2 DEF TypeOK, States, device
<1>4. Trusted' /\ Ledger'
  BY <1>1, <1>2 DEF begin, Admit, TypeOK, Trusted, Ledger, busy
<1>5. Buffers'
  BY <1>1, <1>2 DEF begin, Buffers, NoEarly, busy, EarlyDrained
<1>6. Device'
  BY <1>1, <1>2 DEF begin, Device, busy, device, command_ok
<1>7. Replay'
  BY <1>2 DEF Replay
<1> QED
  BY <1>3, <1>4, <1>5, <1>6, <1>7

LEMMA BeginNoEncoderIInv ==
  ASSUME IInv, NEW n \in 0 .. Capacity, begin_no_encoder(n) PROVE IInv'
<1> USE SessionAssumption DEF IInv
<1>1. /\ state \in {"IDLE", "VALID"} /\ ~busy /\ ~busy' /\ resume' = state
      /\ n <= Capacity - next_pos
  BY DEF begin_no_encoder, Admit, busy
<1>2. UNCHANGED <<state, epoch, next_pos, device, alive, published, buffers>>
  BY DEF begin_no_encoder, Admit
<1>3. TypeOK'
  BY <1>1, <1>2 DEF begin_no_encoder, Admit, TypeOK, Tickets, device, buffers
<1>4. Trusted' /\ Ledger' /\ Device' /\ Replay'
  BY <1>1, <1>2 DEF Trusted, Ledger, Device, Replay, device
<1>5. Buffers'
  BY <1>1, <1>2 DEF Buffers, buffers, EarlyDrained
<1> QED
  BY <1>3, <1>4, <1>5

LEMMA FlushIInv ==
  ASSUME IInv, NEW t \in Presented, flush(t) PROVE IInv'
<1> USE SessionAssumption DEF IInv
<1>1. /\ state = "ENCODING" /\ busy /\ busy' /\ command = "open"
      /\ early_count < MaxFlush /\ early_count' = early_count + 1
      /\ early' = [early EXCEPT ![early_count + 1] = "pending"]
  BY DEF flush, check, busy, Buffers, ledger
<1>2. UNCHANGED <<ledger, command, word, device, alive, published>>
  BY DEF flush
<1>3. TypeOK'
  BY <1>1, <1>2 DEF TypeOK, Outcomes, ledger, device
<1>4. Trusted' /\ Ledger' /\ Replay'
  BY <1>1, <1>2 DEF Trusted, Ledger, Replay, ledger, device, busy
<1>5. Buffers'
  BY <1>1, <1>2 DEF Buffers, TypeOK, ledger, busy
<1>6. Device'
  BY <1>1, <1>2 DEF Device, TypeOK, ledger, device, command_ok
<1> QED
  BY <1>3, <1>4, <1>5, <1>6

LEMMA SubmitIInv ==
  ASSUME IInv, NEW t \in Presented, submit(t) PROVE IInv'
<1> USE SessionAssumption DEF IInv
<1>1. /\ state = "ENCODING" /\ state' = "IN_FLIGHT" /\ busy /\ busy'
      /\ command = "open" /\ command' = "pending"
  BY DEF submit, check, busy, Buffers
<1>2. UNCHANGED <<resume, epoch, next_pos, open, early, early_count, word, device,
                 alive, published>>
  BY DEF submit
<1>3. TypeOK'
  BY <1>1, <1>2 DEF TypeOK, States, Outcomes, device
<1>4. Trusted' /\ Ledger' /\ Replay'
  BY <1>1, <1>2 DEF Trusted, Ledger, Replay
<1>5. Buffers'
  BY <1>1, <1>2 DEF Buffers
<1>6. Device'
  BY <1>1, <1>2 DEF Device, device, command_ok
<1> QED
  BY <1>3, <1>4, <1>5, <1>6

LEMMA AbortIInv ==
  ASSUME IInv, NEW t \in Presented, NEW mutated \in BOOLEAN, abort(t, mutated)
  PROVE  IInv'
<1> USE SessionAssumption DEF IInv
<1>1. /\ state = "ENCODING" /\ busy /\ command = "open"
      /\ state' = AbortState(mutated) /\ ~busy'
  BY DEF abort, check, busy, Buffers, TypeOK, AbortState
<1>2. UNCHANGED <<resume, epoch, next_pos, open, word, content, alive, published>>
  BY DEF abort
<1>3. early' = NoEarly /\ early_count' = 0 /\ command' = "none" /\ torn' = (torn \/ mutated)
  BY DEF abort
<1>4. TypeOK'
  <2>1. state' \in States
    BY <1>1 DEF TypeOK, AbortState, States
  <2>2. early' \in [1 .. MaxFlush -> Outcomes] /\ command' \in Outcomes \cup {"open"}
    BY <1>3 DEF NoEarly, Outcomes
  <2>3. torn' \in BOOLEAN
    BY <1>3 DEF TypeOK
  <2> QED
    BY <1>2, <1>3, <2>1, <2>2, <2>3 DEF TypeOK
<1>5. Trusted'
  <2> SUFFICES ASSUME state' \in {"IDLE", "VALID"} PROVE ~torn' /\ content' = next_pos'
    BY DEF Trusted
  <2>1. ~mutated /\ early_count = 0
    BY <1>1 DEF AbortState, TypeOK
  <2> QED
    BY <1>1, <1>2, <1>3, <2>1 DEF Device
<1>6. Ledger' /\ Device' /\ Replay'
  BY <1>1, <1>2 DEF Ledger, Device, Replay
<1>7. Buffers'
  BY <1>1, <1>3 DEF Buffers, NoEarly, busy
<1> QED
  BY <1>4, <1>5, <1>6, <1>7

LEMMA FinishIInv ==
  ASSUME IInv, NEW t \in Presented, finish(t) PROVE IInv'
<1> USE SessionAssumption DEF IInv
<1>1. /\ state = "IN_FLIGHT" /\ busy /\ t.epoch = epoch
      /\ t.start = open.start /\ t.count = open.count
  BY DEF finish, check, busy
<1>2. UNCHANGED <<resume, epoch, open, word, device, alive>>
  BY DEF finish
<1>3. early' = NoEarly /\ early_count' = 0 /\ command' = "none"
  BY DEF finish
<1>4. t \in Tickets /\ open \in Tickets /\ open.count \in Nat /\ next_pos \in Nat
  BY DEF Presented, TypeOK, Tickets
<1>5. open.epoch = epoch /\ open.start = next_pos /\ next_pos + open.count <= Capacity
  BY <1>1 DEF Ledger
<1>6. early' \in [1 .. MaxFlush -> Outcomes] /\ command' \in Outcomes \cup {"open"}
  BY <1>3 DEF NoEarly, Outcomes
<1>7. CASE publish(t)
  <2>1. ~busy' /\ state' \in {"IDLE", "VALID"} /\ next_pos' = next_pos + open.count
    BY <1>1, <1>7 DEF publish, busy, TypeOK
  <2>2. ~torn /\ content = next_pos + open.count
    BY <1>1, <1>7 DEF publish, Device
  <2>3. published' \in SUBSET Tickets
    BY <1>4, <1>7 DEF publish, TypeOK
  <2>4. TypeOK'
    BY <1>2, <1>3, <1>4, <1>5, <1>6, <2>1, <2>3 DEF TypeOK, States, device
  <2>5. Trusted' /\ Ledger' /\ Device'
    BY <1>2, <2>1, <2>2 DEF Trusted, Ledger, Device, device
  <2>6. Buffers'
    BY <1>3, <2>1 DEF Buffers, NoEarly, busy
  <2>7. Replay'
    BY <1>1, <1>2, <1>4, <1>5, <1>7, <2>1 DEF publish, Replay, TypeOK, Tickets
  <2> QED
    BY <2>4, <2>5, <2>6, <2>7
<1>8. CASE poison
  <2>1. ~busy' /\ state' = "INVALID" /\ UNCHANGED <<next_pos, published>>
    BY <1>8 DEF poison, busy
  <2>2. TypeOK'
    BY <1>2, <1>3, <1>6, <2>1 DEF TypeOK, States, device
  <2>3. Trusted' /\ Ledger' /\ Device' /\ Replay'
    BY <1>2, <2>1 DEF Trusted, Ledger, Device, Replay
  <2>4. Buffers'
    BY <1>3, <2>1 DEF Buffers, NoEarly, busy
  <2> QED
    BY <2>2, <2>3, <2>4
<1> QED
  BY <1>7, <1>8 DEF finish

LEMMA ResetIInv ==
  ASSUME IInv, reset PROVE IInv'
<1> USE SessionAssumption DEF IInv
<1>1. ~busy /\ ~busy' /\ state' = "IDLE" /\ resume' = "IDLE"
  BY DEF reset, busy
<1>2. /\ epoch' = epoch + 1 /\ epoch < MaxEpoch /\ next_pos' = 0 /\ open' = NoTicket
      /\ content' = 0 /\ torn' = FALSE
      /\ UNCHANGED <<buffers, alive, published>>
  BY DEF reset
<1>3. open' \in Tickets
  BY <1>2 DEF NoTicket, Tickets
<1>4. TypeOK'
  <2>1. torn' \in BOOLEAN /\ UNCHANGED <<early, early_count, command, word, alive, published>>
    BY <1>2 DEF buffers
  <2> QED
    BY <1>1, <1>2, <1>3, <2>1 DEF TypeOK, States
<1>5. Trusted' /\ Ledger' /\ Device'
  BY <1>1, <1>2 DEF Trusted, Ledger, Device
<1>6. Buffers'
  BY <1>1, <1>2 DEF Buffers, buffers, EarlyDrained, busy
<1>7. Replay'
  BY <1>2 DEF Replay, TypeOK, Tickets
<1> QED
  BY <1>4, <1>5, <1>6, <1>7

LEMMA RewindIInv ==
  ASSUME IInv, NEW p \in 0 .. Capacity, rewind(p) PROVE IInv'
<1> USE SessionAssumption DEF IInv
<1>1. /\ ~busy /\ ~busy' /\ state \in {"IDLE", "VALID"} /\ p <= next_pos
      /\ state' \in {"IDLE", "VALID"} /\ resume' = "IDLE"
  BY DEF rewind, busy, TypeOK, States
<1>2. /\ epoch' = epoch + 1 /\ epoch < MaxEpoch /\ next_pos' = p /\ open' = NoTicket
      /\ content' = p
      /\ UNCHANGED <<torn, buffers, alive, published>>
  BY DEF rewind
<1>3. open' \in Tickets
  BY <1>2 DEF NoTicket, Tickets
<1>4. TypeOK'
  BY <1>1, <1>2, <1>3 DEF TypeOK, States, buffers
<1>5. Trusted' /\ Ledger' /\ Device'
  BY <1>1, <1>2 DEF Trusted, Ledger, Device
<1>6. Buffers'
  BY <1>1, <1>2 DEF Buffers, buffers, EarlyDrained, busy
<1>7. Replay'
  BY <1>2 DEF Replay, TypeOK, Tickets
<1> QED
  BY <1>4, <1>5, <1>6, <1>7

LEMMA DestroyIInv ==
  ASSUME IInv, destroy PROVE IInv'
<1> USE DEF IInv
<1>1. ~busy /\ ~busy' /\ alive' = FALSE /\ UNCHANGED <<ledger, buffers, device, published>>
  BY DEF destroy, busy, ledger
<1>2. TypeOK'
  BY <1>1 DEF TypeOK, ledger, buffers, device
<1>3. Trusted' /\ Ledger' /\ Device' /\ Replay'
  BY <1>1 DEF Trusted, Ledger, Device, Replay, ledger, device
<1>4. Buffers'
  BY <1>1 DEF Buffers, ledger, buffers, EarlyDrained
<1> QED
  BY <1>2, <1>3, <1>4

\* What a GPU step relies on: buffers run only under an open command.
LEMMA PendingIsBusy ==
  ASSUME IInv PROVE
    /\ \A i \in 1 .. MaxFlush : early[i] = "pending" =>
         busy /\ command \in {"open", "pending"} /\ early_count > 0
    /\ command = "pending" => state = "IN_FLIGHT"
  BY SessionAssumption
  DEF IInv, TypeOK, States, Outcomes, Buffers, NoEarly, EarlyDrained, busy

LEMMA GpuRunEarlyIInv ==
  ASSUME IInv, NEW i \in 1 .. MaxFlush, NEW outcome \in {"ok", "failed"},
         NEW flagged \in BOOLEAN, GpuRunEarly(i, outcome, flagged)
  PROVE  IInv'
<1> USE SessionAssumption DEF IInv
<1>1. busy /\ busy' /\ command \in {"open", "pending"} /\ early_count > 0
  BY PendingIsBusy DEF GpuRunEarly, ledger, busy
<1>2. UNCHANGED <<ledger, early_count, command, content, alive, published>>
  BY DEF GpuRunEarly
<1>3. /\ early' = [early EXCEPT ![i] = outcome] /\ early[i] = "pending"
      /\ torn' = (torn \/ open.count > 0)
  BY DEF GpuRunEarly
<1>4. TypeOK'
  <2>1. word' \in BOOLEAN /\ torn' \in BOOLEAN
    BY DEF GpuRunEarly, TypeOK
  <2> QED
    BY <1>2, <1>3, <2>1 DEF TypeOK, Outcomes, ledger
<1>5. Trusted' /\ Ledger' /\ Replay'
  BY <1>1, <1>2 DEF Trusted, Ledger, Replay, ledger, busy
<1>6. Buffers'
  BY <1>1, <1>2, <1>3 DEF Buffers, TypeOK, ledger
<1>7. Device'
  BY <1>1, <1>2, <1>3 DEF Device, command_ok, TypeOK, Tickets, ledger
<1> QED
  BY <1>4, <1>5, <1>6, <1>7

LEMMA GpuRunLastIInv ==
  ASSUME IInv, NEW outcome \in {"ok", "failed"}, NEW flagged \in BOOLEAN,
         GpuRunLast(outcome, flagged)
  PROVE  IInv'
<1> USE SessionAssumption DEF IInv
<1>1. busy /\ busy' /\ state = "IN_FLIGHT" /\ command = "pending" /\ EarlyDrained
  BY PendingIsBusy DEF GpuRunLast, ledger, busy
<1>2. UNCHANGED <<ledger, early, early_count, alive, published>> /\ command' = outcome
  BY DEF GpuRunLast
<1>3. open \in Tickets /\ open.start = next_pos /\ next_pos + open.count <= Capacity
  BY <1>1 DEF TypeOK, Ledger
<1>4. content = next_pos /\ (open.count = 0 => ~torn)
  BY <1>1 DEF Device
<1>5. \/ /\ command_ok(outcome) /\ ~word'
         /\ content' = open.start + open.count /\ torn' = FALSE
      \/ /\ ~(command_ok(outcome) /\ ~word')
         /\ torn' = (torn \/ open.count > 0) /\ content' = content
  BY DEF GpuRunLast
<1>6. TypeOK'
  <2>1. word' \in BOOLEAN
    BY DEF GpuRunLast, TypeOK
  <2>2. torn' \in BOOLEAN
    BY <1>5 DEF TypeOK
  <2>3. content' \in 0 .. Capacity
    BY <1>3, <1>5 DEF TypeOK, Tickets
  <2> QED
    BY <1>2, <2>1, <2>2, <2>3 DEF TypeOK, Outcomes, ledger
<1>7. Trusted' /\ Ledger' /\ Replay'
  BY <1>1, <1>2 DEF Trusted, Ledger, Replay, ledger, busy
<1>8. Buffers'
  BY <1>1, <1>2 DEF Buffers, EarlyDrained, ledger
<1>9. Device'
  <2>1. command_ok(command)' <=> command_ok(outcome)
    BY <1>2 DEF command_ok
  <2>2. command' \notin {"open", "pending"}
    BY <1>2
  <2>3. CASE command_ok(outcome) /\ ~word'
    <3>1. ~torn' /\ content' = next_pos' + open'.count /\ next_pos' = content /\ open' = open
      BY <1>2, <1>3, <1>4, <1>5, <2>3 DEF ledger
    <3>2. open'.count = 0 => content' = next_pos'
      BY <1>3, <3>1 DEF Tickets, TypeOK
    <3> QED
      BY <2>2, <3>1, <3>2 DEF Device
  <2>4. CASE ~(command_ok(outcome) /\ ~word')
    <3>1. torn' = (torn \/ open.count > 0) /\ content' = next_pos' /\ open' = open
      BY <1>2, <1>4, <1>5, <2>4 DEF ledger
    <3>2. open.count = 0 => ~(open.count > 0)
      OBVIOUS
    <3>3. open'.count = 0 => ~torn'
      BY <1>4, <3>1, <3>2, Zenon
    <3> QED
      BY <2>1, <2>2, <2>4, <3>1, <3>3 DEF Device
  <2> QED
    BY <2>3, <2>4
<1> QED
  BY <1>6, <1>7, <1>8, <1>9

LEMMA StepIInv == IInv /\ [Next]_vars => IInv'
<1> SUFFICES ASSUME IInv, [Next]_vars PROVE IInv'
  OBVIOUS
<1>1. ASSUME UNCHANGED vars PROVE IInv'
  <2>1. UNCHANGED <<ledger, buffers, device, alive, published>>
    BY <1>1 DEF vars
  <2>2. TypeOK'
    BY <2>1 DEF IInv, TypeOK, ledger, buffers, device
  <2>3. Trusted' /\ Ledger' /\ Replay'
    BY <2>1 DEF IInv, Trusted, Ledger, Replay, ledger, device, busy
  <2>4. Buffers' /\ Device'
    BY <2>1 DEF IInv, Buffers, Device, ledger, buffers, device, busy, EarlyDrained,
                command_ok
  <2> QED
    BY <2>2, <2>3, <2>4 DEF IInv
<1>2. ASSUME NEW n \in 0 .. Capacity, begin(n) \/ begin_no_encoder(n) PROVE IInv'
  BY <1>2, BeginIInv, BeginNoEncoderIInv
<1>3. ASSUME NEW t \in Presented, Calls(t) PROVE IInv'
  BY <1>3, FlushIInv, SubmitIInv, AbortIInv, FinishIInv DEF Calls
<1>4. ASSUME NEW p \in 0 .. Capacity, rewind(p) PROVE IInv'
  BY <1>4, RewindIInv
<1>5. ASSUME GpuRun PROVE IInv'
  BY <1>5, GpuRunEarlyIInv, GpuRunLastIInv DEF GpuRun
<1> QED
  BY <1>1, <1>2, <1>3, <1>4, <1>5, ResetIInv, DestroyIInv DEF Next

(***************************************************************************)
(* The invariants the runs check.                                          *)
(***************************************************************************)

\* IInv holds in every reachable state of a session (all of src/qwen38_gpu.m's
\* calls, made in any order with the tickets the session gave out).
THEOREM Inductive == Spec => []IInv
  BY InitIInv, StepIInv, PTL DEF Spec

\* Every variable keeps its type; in particular next_pos never exceeds the
\* capacity, on which begin's subtraction relies (src/qwen38_gpu.m:57).
THEOREM TypeCorrect == Spec => []TypeOK
<1>1. IInv => TypeOK
  BY DEF IInv
<1> QED
  BY <1>1, Inductive, PTL

\* A session that accepts commands holds exactly the rows it has published.
THEOREM TrustedAlways == Spec => []Trusted
<1>1. IInv => Trusted
  BY DEF IInv
<1> QED
  BY <1>1, Inductive, PTL

\* The ticket of published rows is never honoured again.
THEOREM NeverReplayed == Spec => []NoReplay
<1>1. ASSUME IInv PROVE NoReplay
  <2> SUFFICES ASSUME NEW t \in published, busy, t.epoch = epoch, t.start = open.start,
                      t.count = open.count
               PROVE  FALSE
    BY DEF NoReplay, check, busy
  <2>1. t \in Tickets /\ next_pos \in Nat /\ open.start = next_pos
    BY <1>1 DEF IInv, TypeOK, Ledger
  <2>2. t.count > 0 /\ t.start + t.count <= next_pos
    BY <1>1 DEF IInv, Replay
  <2> QED
    BY <2>1, <2>2 DEF Tickets
<1> QED
  BY <1>1, Inductive, PTL

\* Outside a command no buffer runs and none is kept.
THEOREM QuietAlways == Spec => []QuietWhenIdle
<1>1. IInv => QuietWhenIdle
  BY DEF IInv, QuietWhenIdle, Buffers, Ledger
<1> QED
  BY <1>1, Inductive, PTL

(***************************************************************************)
(* Refinement: the session implements AppendLog.                           *)
(***************************************************************************)

\* Steps that move neither the position, nor the epoch, nor the usability.
LEMMA QuietSteps ==
  ASSUME IInv,
         \/ UNCHANGED vars
         \/ \E n \in 0 .. Capacity : begin(n) \/ begin_no_encoder(n)
         \/ \E t \in Presented : flush(t) \/ submit(t)
         \/ destroy
         \/ GpuRun
  PROVE  UNCHANGED Log!vars
<1> USE DEF Log!vars
<1>1. CASE UNCHANGED vars \/ destroy \/ GpuRun
  BY <1>1 DEF vars, destroy, GpuRun, GpuRunEarly, GpuRunLast, ledger
<1>2. ASSUME NEW n \in 0 .. Capacity, begin(n) \/ begin_no_encoder(n) PROVE UNCHANGED Log!vars
  BY <1>2 DEF begin, begin_no_encoder, Admit
<1>3. ASSUME NEW t \in Presented, flush(t) \/ submit(t) PROVE UNCHANGED Log!vars
  BY <1>3 DEF flush, submit, check, ledger
<1> QED
  BY <1>1, <1>2, <1>3

LEMMA AbortSteps ==
  ASSUME IInv, NEW t \in Presented, NEW mutated \in BOOLEAN, abort(t, mutated)
  PROVE  Log!Poison \/ UNCHANGED Log!vars
<1>1. UNCHANGED <<epoch, next_pos>> /\ state = "ENCODING"
  BY DEF abort, check
<1>2. state' \in {"INVALID", resume} /\ resume # "INVALID"
  BY DEF abort, AbortState, IInv, TypeOK
<1>3. CASE state' = "INVALID"
  BY <1>1, <1>3 DEF Log!Poison
<1>4. CASE state' # "INVALID"
  BY <1>1, <1>4 DEF Log!vars
<1> QED
  BY <1>3, <1>4

LEMMA FinishSteps ==
  ASSUME IInv, NEW t \in Presented, finish(t)
  PROVE  Log!Next \/ UNCHANGED Log!vars
<1>1. epoch' = epoch /\ state = "IN_FLIGHT" /\ t.count = open.count
  BY DEF finish, check
<1>2. /\ open.count \in 0 .. Capacity /\ next_pos \in Nat
      /\ next_pos + open.count <= Capacity
  BY <1>1 DEF IInv, TypeOK, Tickets, Ledger, busy
<1>3. CASE publish(t)
  <2>1. next_pos' = next_pos + open.count /\ state' # "INVALID"
    BY <1>1, <1>3 DEF publish, IInv, TypeOK
  <2>2. CASE open.count = 0
    BY <1>1, <1>2, <2>1, <2>2 DEF Log!vars
  <2>3. CASE open.count > 0
    <3>1. open.count \in 1 .. Capacity
      BY SessionAssumption, <1>2, <2>3
    <3>2. Log!Publish(open.count)
      BY <1>1, <1>2, <2>1 DEF Log!Publish
    <3> QED
      BY <3>1, <3>2 DEF Log!Next
  <2> QED
    BY <1>2, <2>2, <2>3
<1>4. CASE poison
  BY <1>1, <1>4 DEF poison, Log!Poison, Log!Next
<1> QED
  BY <1>3, <1>4 DEF finish

LEMMA RewindSteps ==
  ASSUME IInv, NEW p \in 0 .. Capacity, rewind(p) PROVE Log!Next
<1>1. /\ state # "INVALID" /\ state' # "INVALID" /\ p \in 0 .. next_pos
      /\ epoch < MaxEpoch /\ epoch' = epoch + 1 /\ next_pos' = p
  BY DEF rewind, IInv, TypeOK
<1>2. next_pos <= p + RewindWindow
  BY SessionAssumption DEF rewind, IInv, TypeOK
<1>3. Log!Rewind(p)
  BY <1>1, <1>2 DEF Log!Rewind
<1> QED
  BY <1>1, <1>3 DEF Log!Next

\* Every step of the session is a step of AppendLog or a stutter: its position
\* grows only by whole, clean commands and shrinks only under a new epoch.
THEOREM ImplementsAppendLog == Spec => IsAppendLog
<1>1. Init => Log!Init
  BY DEF Init, Log!Init
<1>2. IInv /\ [Next]_vars => [Log!Next]_(Log!vars)
  <2> SUFFICES ASSUME IInv, [Next]_vars PROVE Log!Next \/ UNCHANGED Log!vars
    OBVIOUS
  <2>1. CASE reset
    BY <2>1 DEF reset, Log!Reset, Log!Next
  <2>2. ASSUME NEW t \in Presented, Calls(t) PROVE Log!Next \/ UNCHANGED Log!vars
    BY <2>2, QuietSteps, AbortSteps, FinishSteps DEF Calls, Log!Next
  <2> QED
    BY <2>1, <2>2, QuietSteps, RewindSteps DEF Next
<1> QED
  BY <1>1, <1>2, Inductive, PTL DEF Spec, IsAppendLog, Log!Spec

-----------------------------------------------------------------------------
(* Claims and pins.                                                        *)

(***************************************************************************)
(* The inductive invariant. A flush leaves buffers running while the host  *)
(* goes on encoding, so Running alone does not tell where the caller       *)
(* stands: the seal must be known to precede both the run (phase) and      *)
(* every submitted command (IN_FLIGHT), and a pass in progress must be     *)
(* known to have pinned a prefix of the weights, none once it has failed.  *)
(***************************************************************************)
Prefix ==
  /\ pins \in Seq([ident : Nat, lo : Nat, hi : Nat])
  /\ Len(pins) <= Len(Weights)
  /\ \A i \in 1 .. Len(pins) : pins[i] = Weights[i]

Sealed ==
  /\ pins_sealed \in BOOLEAN
  /\ phase = "running" \/ state = "IN_FLIGHT" \/ Running => pins_sealed
  /\ pins_sealed => pins = Weights

Cleared == ~pins_sealed /\ (~busy \/ phase = "failed") => pins = <<>>

CInv == Prefix /\ Sealed /\ Cleared

LEMMA InitCInv == CInit => CInv
<1> SUFFICES ASSUME CInit PROVE CInv
  OBVIOUS
<1>1. ~Running
  BY DEF CInit, Init, Running, NoEarly
<1>2. Prefix
  BY ClaimsAssumption DEF CInit, Prefix
<1>3. Sealed /\ Cleared
  BY <1>1 DEF CInit, Init, Sealed, Cleared
<1> QED
  BY <1>2, <1>3 DEF CInv

\* The caller's calls are calls of the session.
LEMMA StepsOfSession == CNext => [Next]_vars
  BY DEF CNext, c_begin, claim_write, pin_read, pin_failed, pins_seal, c_run, c_abort, c_finish,
         Next, Calls

LEMMA RunningIsBusy == IInv /\ Running => busy
  BY PendingIsBusy DEF Running, busy

\* No step of the host but flush and submit starts a buffer.
LEMMA RunsOn ==
  ASSUME IInv, CNext, Running' PROVE Running \/ phase = "running"
<1>1. CASE \E n \in 0 .. Capacity : c_begin(n)
  BY <1>1 DEF c_begin, begin, Admit, Running
<1>2. CASE \E n \in 0 .. Capacity : begin_no_encoder(n)
  BY <1>2 DEF begin_no_encoder, buffers, Running
<1>3. ASSUME NEW t \in Presented, NEW c \in Spans, claim_write(t, c) PROVE Running
  BY <1>3 DEF claim_write, vars, buffers, Running
<1>4. ASSUME NEW t \in Presented, pin_read(t) \/ pin_failed(t) \/ pins_seal(t) PROVE Running
  BY <1>4 DEF pin_read, pin_failed, pins_seal, vars, buffers, Running
<1>5. ASSUME NEW t \in Presented, c_run(t) PROVE phase = "running"
  BY <1>5 DEF c_run
<1>6. ASSUME NEW t \in Presented, c_abort(t) \/ c_finish(t) PROVE FALSE
  BY <1>6 DEF c_abort, c_finish, abort, finish, NoEarly, Running
<1>7. CASE reset
  BY <1>7 DEF reset, buffers, Running
<1>8. CASE GpuRun
  <2>1. PICK outcome \in {"ok", "failed"}, flagged \in BOOLEAN :
           \/ \E i \in 1 .. MaxFlush : GpuRunEarly(i, outcome, flagged)
           \/ GpuRunLast(outcome, flagged)
    BY <1>8 DEF GpuRun
  <2>2. ASSUME NEW i \in 1 .. MaxFlush, GpuRunEarly(i, outcome, flagged) PROVE Running
    BY <2>2 DEF GpuRunEarly, Running
  <2>3. ASSUME GpuRunLast(outcome, flagged) PROVE Running
    BY <2>3 DEF GpuRunLast, Running
  <2> QED
    BY <2>1, <2>2, <2>3
<1> QED
  BY <1>1, <1>2, <1>3, <1>4, <1>5, <1>6, <1>7, <1>8 DEF CNext

\* What every step of the host that leaves the pins alone preserves.
LEMMA SamePins ==
  ASSUME CInv, UNCHANGED <<pins, pins_sealed>> PROVE Prefix' /\ (pins_sealed => pins = Weights)'
  BY DEF CInv, Prefix, Sealed

LEMMA StepCInv ==
  ASSUME IInv, CInv, CNext PROVE CInv'
<1>r. Running' => Running \/ phase = "running"
  BY RunsOn
<1>1. CASE \E n \in 0 .. Capacity : c_begin(n)
  <2>1. PICK n \in 0 .. Capacity : c_begin(n)
    BY <1>1
  <2>2. ~busy /\ ~busy => ~Running
    BY <2>1, RunningIsBusy DEF c_begin, begin, Admit, busy
  <2>3. Prefix' /\ (pins_sealed => pins = Weights)'
    BY <2>1, SamePins DEF c_begin
  <2>4. Sealed'
    BY <2>1, <2>2, <2>3, <1>r DEF c_begin, begin, CInv, Sealed
  <2>5. Cleared'
    BY <2>1, <2>2 DEF c_begin, begin, busy, Cleared
  <2> QED
    BY <2>3, <2>4, <2>5 DEF CInv
<1>2. CASE \E n \in 0 .. Capacity : begin_no_encoder(n) /\ UNCHANGED <<claims, pinned, phase>>
  BY <1>2, <1>r, SamePins DEF begin_no_encoder, pinned, CInv, Sealed, Cleared, busy
<1>3. ASSUME NEW t \in Presented, NEW c \in Spans, claim_write(t, c) PROVE CInv'
  BY <1>3, <1>r, SamePins DEF claim_write, check, vars, ledger, CInv, Sealed, Cleared, busy
<1>4. ASSUME NEW t \in Presented, pin_read(t) PROVE CInv'
  <2>1. Len(pins) < Len(Weights) /\ ~pins_sealed /\ pins_sealed' = pins_sealed
        /\ pins' = Append(pins, Weights[Len(pins) + 1])
    BY <1>4 DEF pin_read
  <2>2. Prefix'
    <3>1. /\ pins \in Seq([ident : Nat, lo : Nat, hi : Nat])
          /\ Weights \in Seq([ident : Nat, lo : Nat, hi : Nat])
          /\ Len(pins) \in Nat /\ Len(Weights) \in Nat
      BY ClaimsAssumption, LenProperties DEF CInv, Prefix, Extent
    <3>2. Weights[Len(pins) + 1] \in [ident : Nat, lo : Nat, hi : Nat]
      <4>1. Len(pins) + 1 \in 1 .. Len(Weights)
        BY <2>1, <3>1
      <4> QED
        BY <3>1, <4>1, ElementOfSeq
    <3>3. /\ pins' \in Seq([ident : Nat, lo : Nat, hi : Nat])
          /\ Len(pins') = Len(pins) + 1
          /\ \A i \in 1 .. Len(pins) : pins'[i] = pins[i]
          /\ pins'[Len(pins) + 1] = Weights[Len(pins) + 1]
      BY <2>1, <3>1, <3>2, AppendProperties
    <3>4. ASSUME NEW i \in 1 .. Len(pins') PROVE pins'[i] = Weights[i]
      <4>1. i \in 1 .. Len(pins) \/ i = Len(pins) + 1
        BY <3>1, <3>3
      <4> QED
        BY <3>3, <4>1 DEF CInv, Prefix
    <3>5. Len(pins') <= Len(Weights)
      BY <2>1, <3>1, <3>3
    <3> QED
      BY <3>3, <3>4, <3>5 DEF Prefix
  <2>3. state = "ENCODING" /\ state' = state /\ phase' = phase /\ phase = "claiming"
    BY <1>4 DEF pin_read, check, vars, ledger
  <2>4. Sealed'
    BY <2>1, <2>3, <1>r DEF CInv, Sealed
  <2>5. Cleared'
    BY <2>3 DEF Cleared, busy
  <2> QED
    BY <2>2, <2>4, <2>5 DEF CInv
<1>5. ASSUME NEW t \in Presented, pin_failed(t) PROVE CInv'
  <2>1. Prefix'
    BY <1>5, ClaimsAssumption DEF pin_failed, Prefix
  <2>2. Sealed' /\ Cleared'
    BY <1>5, <1>r DEF pin_failed, check, vars, ledger, CInv, Sealed, Cleared, busy
  <2> QED
    BY <2>1, <2>2 DEF CInv
<1>6. ASSUME NEW t \in Presented, pins_seal(t) PROVE CInv'
  <2>1. pins = Weights
    <3> DEFINE S == Extent
    <3>1. pins \in Seq(S) /\ Weights \in Seq(S)
      BY ClaimsAssumption DEF CInv, Prefix, Extent
    <3>2. \A i \in 1 .. Len(pins) : pins[i] = Weights[i]
      BY DEF CInv, Prefix
    <3>3. CASE Len(pins) = Len(Weights)
      <4> HIDE DEF S
      <4> QED
        BY <3>1, <3>2, <3>3, SeqEqual
    <3> QED
      BY <1>6, <3>3 DEF pins_seal, CInv, Sealed
  <2>2. Prefix'
    BY <1>6 DEF pins_seal, CInv, Prefix
  <2> QED
    BY <1>6, <2>1, <2>2 DEF pins_seal, CInv, Sealed, Cleared
<1>7. ASSUME NEW t \in Presented, c_run(t) PROVE CInv'
  <2>1. pins_sealed /\ UNCHANGED <<claims, pinned, phase>>
    BY <1>7 DEF c_run, CInv, Sealed
  <2> QED
    BY <2>1, SamePins DEF pinned, CInv, Sealed, Cleared
<1>8. ASSUME NEW t \in Presented, c_abort(t) \/ c_finish(t) PROVE CInv'
  <2>1. UNCHANGED <<pinned, phase>>
    BY <1>8 DEF c_abort, c_finish, release_claims
  <2>2. pins_sealed \/ pins = <<>>
    BY <1>8 DEF c_abort, c_finish, finish, abort, check, CInv, Sealed, Cleared
  <2>3. state' = "IN_FLIGHT" => pins_sealed
    <3>1. CASE c_abort(t)
      BY <3>1 DEF c_abort, abort, AbortState, IInv, TypeOK
    <3>2. CASE c_finish(t)
      BY <3>2 DEF c_finish, finish, check, CInv, Sealed
    <3> QED
      BY <1>8, <3>1, <3>2
  <2>4. Sealed' /\ Cleared'
    BY <2>1, <2>2, <2>3, <1>r, SamePins DEF pinned, CInv, Sealed, Cleared
  <2> QED
    BY <2>1, <2>4, SamePins DEF pinned, CInv
<1>9. CASE reset /\ UNCHANGED <<claims, pinned, phase>>
  BY <1>9, <1>r, SamePins DEF reset, pinned, CInv, Sealed, Cleared, busy
<1>10. CASE GpuRun /\ UNCHANGED <<claims, pinned, phase>>
  <2>1. UNCHANGED state
    BY <1>10 DEF GpuRun, GpuRunEarly, GpuRunLast, ledger
  <2> QED
    BY <1>10, <2>1, <1>r, SamePins DEF pinned, CInv, Sealed, Cleared, busy
<1> QED
  BY <1>1, <1>2, <1>3, <1>4, <1>5, <1>6, <1>7, <1>8, <1>9, <1>10 DEF CNext

\* The two invariants together, in every reachable state.
LEMMA Claims == CSpec => [](IInv /\ CInv)
<1>1. CInit => IInv /\ CInv
  BY InitCInv, InitIInv DEF CInit
<1>2. IInv /\ CInv /\ [CNext]_cvars => (IInv /\ CInv)'
  <2> SUFFICES ASSUME IInv, CInv, [CNext]_cvars PROVE (IInv /\ CInv)'
    OBVIOUS
  <2>1. CASE CNext
    BY <2>1, StepsOfSession, StepIInv, StepCInv
  <2>2. CASE UNCHANGED cvars
    <3>1. UNCHANGED vars /\ UNCHANGED <<pinned, phase>>
      BY <2>2 DEF cvars
    <3>2. IInv'
      BY <3>1, StepIInv
    <3>3. UNCHANGED <<state, early, command, pins, pins_sealed, phase>>
      BY <3>1 DEF vars, ledger, buffers, pinned
    <3>4. Sealed' /\ Cleared'
      BY <3>3, SamePins DEF CInv, Sealed, Cleared, busy, Running
    <3> QED
      BY <3>2, <3>3, <3>4, SamePins DEF CInv
  <2> QED
    BY <2>1, <2>2
<1> QED
  BY <1>1, <1>2, PTL DEF CSpec

\* No buffer of a command ever runs while a weight is not pinned, a pass that failed leaves no
\* pin behind, and a sealed table is exactly the weights (qwen38_gpu.m's pins and the pass over
\* the plan in the graph's claim()).
THEOREM PinnedTogether == CSpec => []PinsAllOrNothing
<1>1. IInv /\ CInv => PinsAllOrNothing
  BY DEF CInv, Sealed, Cleared, PinsAllOrNothing
<1> QED
  BY <1>1, Claims, PTL

\* While any buffer runs, no step of the host drops a claim or touches a pin: claims go only
\* with an abort or a finish, which have waited for every buffer.
THEOREM ClaimsHeld == CSpec => HeldWhileRunning
<1>1. ASSUME IInv, CInv, [CNext]_cvars, Running PROVE claims \subseteq claims' /\ pins' = pins
  <2>1. busy /\ pins_sealed
    BY <1>1, RunningIsBusy DEF CInv, Sealed
  <2>2. CASE UNCHANGED cvars
    BY <2>2 DEF cvars, pinned
  <2>3. CASE \E n \in 0 .. Capacity : c_begin(n)
    BY <2>1, <2>3 DEF c_begin, begin, Admit, busy
  <2>4. CASE \E n \in 0 .. Capacity : begin_no_encoder(n) /\ UNCHANGED <<claims, pinned, phase>>
    BY <2>4 DEF pinned
  <2>5. ASSUME NEW t \in Presented, NEW c \in Spans, claim_write(t, c)
        PROVE  claims \subseteq claims' /\ pins' = pins
    BY <2>5 DEF claim_write
  <2>6. ASSUME NEW t \in Presented, pin_read(t) \/ pin_failed(t) PROVE FALSE
    BY <2>1, <2>6 DEF pin_read, pin_failed
  <2>7. ASSUME NEW t \in Presented, pins_seal(t) \/ c_run(t)
        PROVE  claims \subseteq claims' /\ pins' = pins
    BY <2>7 DEF pins_seal, c_run, pinned
  <2>8. ASSUME NEW t \in Presented, c_abort(t) \/ c_finish(t) PROVE FALSE
    BY <1>1, <2>8, PendingIsBusy DEF c_abort, c_finish, abort, finish, check, EarlyDrained, Drained,
                                     Running
  <2>9. CASE (reset \/ GpuRun) /\ UNCHANGED <<claims, pinned, phase>>
    BY <2>9 DEF pinned
  <2> QED
    BY <1>1, <2>2, <2>3, <2>4, <2>5, <2>6, <2>7, <2>8, <2>9 DEF CNext
<1>2. IInv /\ CInv /\ [CNext]_cvars => [Running => claims \subseteq claims' /\ pins' = pins]_cvars
  BY <1>1
<1> QED
  BY <1>2, Claims, PTL DEF CSpec, HeldWhileRunning
-----------------------------------------------------------------------------
(***************************************************************************)
(* The table.                                                              *)
(***************************************************************************)
\* Pin j comes before pin i: by where it starts or, of equal ones, by number.
Earlier(s, j, i) == pin_before(s[j], s[i]) \/ (~pin_before(s[i], s[j]) /\ j < i)
Rank(s) == [i \in 1 .. Len(s) |-> Cardinality({j \in 1 .. Len(s) : Earlier(s, j, i) \/ j = i})]

\* Each pin has a rank of its own, which tells it from those before it.
LEMMA Ranks ==
  ASSUME NEW s \in Seq(Extent)
  PROVE  /\ Rank(s) \in [1 .. Len(s) -> 1 .. Len(s)]
         /\ \A i, k \in 1 .. Len(s) : Earlier(s, i, k) => Rank(s)[i] < Rank(s)[k]
         /\ \A i, k \in 1 .. Len(s) : Rank(s)[i] = Rank(s)[k] => i = k
<1> DEFINE n == Len(s)
           Upto(i) == {j \in 1 .. n : Earlier(s, j, i) \/ j = i}
<1>1. n \in Nat /\ \A i \in 1 .. n : s[i].ident \in Nat /\ s[i].lo \in Nat
  <2>1. \A i \in 1 .. n : s[i] \in Extent
    BY ElementOfSeq
  <2> QED
    BY <2>1, LenProperties DEF Extent
<1>2. IsFiniteSet(1 .. n) /\ Cardinality(1 .. n) = n
  <2>1. 1 \in Int /\ n \in Int /\ ~(1 > n /\ n # 0) /\ n - 1 + 1 = n
    BY <1>1
  <2> HIDE DEF n
  <2>2. IsFiniteSet(1 .. n) /\ Cardinality(1 .. n) = IF 1 > n THEN 0 ELSE n - 1 + 1
    BY <2>1, FS_Interval
  <2> QED
    BY <2>1, <2>2
<1>3. ASSUME NEW i \in 1 .. n
      PROVE  IsFiniteSet(Upto(i)) /\ Cardinality(Upto(i)) \in 1 .. n
  <2>1. IsFiniteSet(Upto(i)) /\ Cardinality(Upto(i)) <= n
    BY <1>2, FS_Subset
  <2>2. Cardinality(Upto(i)) \in Nat
    BY <2>1, FS_CardinalityType
  <2>3. i \in Upto(i)
    OBVIOUS
  <2>4. Cardinality(Upto(i)) # 0
    BY <2>1, <2>3, FS_EmptySet
  <2> HIDE DEF Upto
  <2> QED
    BY <1>1, <2>1, <2>2, <2>4
<1>4. ASSUME NEW i \in 1 .. n, NEW k \in 1 .. n, Earlier(s, i, k)
      PROVE  Cardinality(Upto(i)) < Cardinality(Upto(k))
  <2>1. ~Earlier(s, k, i) /\ k # i
    BY <1>1, <1>4 DEF Earlier, pin_before
  <2>2. ASSUME NEW j \in 1 .. n, Earlier(s, j, i) PROVE Earlier(s, j, k)
    BY <1>1, <1>4, <2>2, SMTT(30) DEF Earlier, pin_before
  <2>3. Upto(i) \in SUBSET Upto(k) /\ k \in Upto(k) /\ k \notin Upto(i)
    BY <1>4, <2>1, <2>2
  <2>4. IsFiniteSet(Upto(k)) /\ Cardinality(Upto(k)) \in 1 .. n /\ Cardinality(Upto(i)) \in 1 .. n
    BY <1>3
  <2> HIDE DEF Upto
  <2>5. /\ Cardinality(Upto(i)) <= Cardinality(Upto(k))
        /\ Cardinality(Upto(k)) = Cardinality(Upto(i)) => Upto(i) = Upto(k)
    BY <2>3, <2>4, FS_Subset
  <2> QED
    BY <1>1, <2>3, <2>4, <2>5
<1>5. ASSUME NEW i \in 1 .. n, NEW k \in 1 .. n, i # k
      PROVE  Earlier(s, i, k) \/ Earlier(s, k, i)
  BY <1>1, <1>5 DEF Earlier, pin_before
<1>6. Rank(s) = [i \in 1 .. n |-> Cardinality(Upto(i))]
  BY DEF Rank
<1> HIDE DEF Upto
<1>7. \A i \in 1 .. n : Rank(s)[i] = Cardinality(Upto(i)) /\ Rank(s)[i] \in 1 .. n
  BY <1>3, <1>6
<1>8. \A i, k \in 1 .. n : Earlier(s, i, k) => Rank(s)[i] < Rank(s)[k]
  BY <1>4, <1>7
<1>9. Rank(s) \in [1 .. n -> 1 .. n]
  BY <1>3, <1>6
<1>10. \A i, k \in 1 .. n : Rank(s)[i] = Rank(s)[k] => i = k
  <2>1. SUFFICES ASSUME NEW i \in 1 .. n, NEW k \in 1 .. n, i # k PROVE Rank(s)[i] # Rank(s)[k]
    OBVIOUS
  <2> QED
    BY <1>1, <1>5, <1>7, <1>8, <2>1
<1> QED
  BY <1>8, <1>9, <1>10

\* The sorted table holds the pins, each in its place.
LEMMA SortedTable ==
  ASSUME NEW s \in Seq(Extent)
  PROVE  /\ Sort(s) \in Seq(Extent) /\ Len(Sort(s)) = Len(s) /\ Ordered(Sort(s))
         /\ \A i \in 1 .. Len(s) : \E j \in 1 .. Len(s) : Sort(s)[i] = s[j]
         /\ \A j \in 1 .. Len(s) : \E i \in 1 .. Len(s) : Sort(s)[i] = s[j]
<1> DEFINE n == Len(s)
           rank == Rank(s)
           From == [k \in 1 .. n |-> CHOOSE i \in 1 .. n : rank[i] = k]
           By(p) == [i \in 1 .. n |-> s[p[i]]]
<1>1. n \in Nat /\ DOMAIN s = 1 .. n /\ \A i \in 1 .. n : s[i] \in Extent
  BY LenProperties, ElementOfSeq
<1>2. IsFiniteSet(1 .. n)
  BY <1>1, FS_Interval
<1>3. /\ rank \in [1 .. n -> 1 .. n]
      /\ \A i, k \in 1 .. n : Earlier(s, i, k) => rank[i] < rank[k]
      /\ \A i, k \in 1 .. n : rank[i] = rank[k] => i = k
  BY Ranks
<1> HIDE DEF rank
<1>4. rank \in Surjection(1 .. n, 1 .. n)
  <2>1. rank \in Injection(1 .. n, 1 .. n)
    BY <1>3 DEF Injection, IsInjective
  <2> QED
    BY <1>2, <2>1, FS_Injection
<1>5. \A k \in 1 .. n : From[k] \in 1 .. n /\ rank[From[k]] = k
  <2>1. \A k \in 1 .. n : \E i \in 1 .. n : rank[i] = k
    BY <1>4 DEF Surjection
  <2> QED
    BY <2>1
<1>6. From \in Bijection(1 .. n, 1 .. n)
  <2>1. From \in [1 .. n -> 1 .. n]
    BY <1>5
  <2>2. From \in Injection(1 .. n, 1 .. n)
    <3> HIDE DEF From
    <3>1. ASSUME NEW k \in 1 .. n, NEW l \in 1 .. n, From[k] = From[l] PROVE k = l
      BY <1>5, <3>1
    <3> QED
      BY <2>1, <3>1 DEF Injection, IsInjective
  <2> HIDE DEF From
  <2>3. From \in Surjection(1 .. n, 1 .. n)
    BY <1>2, <2>2, FS_Injection
  <2> QED
    BY <2>2, <2>3 DEF Bijection
<1>7. Ordered(By(From))
  <2>1. DOMAIN By(From) = 1 .. n
    OBVIOUS
  <2>2. SUFFICES ASSUME NEW i \in 1 .. n, NEW j \in 1 .. n, i < j,
                        pin_before(By(From)[j], By(From)[i])
                 PROVE  FALSE
    BY <2>1 DEF Ordered
  <2>3. pin_before(s[From[j]], s[From[i]])
    BY <2>2
  <2>4. Earlier(s, From[j], From[i])
    BY <2>3 DEF Earlier
  <2>5. From[i] \in 1 .. n /\ From[j] \in 1 .. n /\ rank[From[i]] = i /\ rank[From[j]] = j
    BY <1>5
  <2> HIDE DEF From
  <2> QED
    BY <1>3, <2>2, <2>4, <2>5
<1>8. \E t \in {By(p) : p \in Bijection(1 .. n, 1 .. n)} : Ordered(t)
  <2> HIDE DEF From, By
  <2> QED
    BY <1>6, <1>7
<1>9. Sort(s) = CHOOSE t \in {By(p) : p \in Bijection(1 .. n, 1 .. n)} : Ordered(t)
  BY <1>1 DEF Sort
<1>10. Sort(s) \in {By(p) : p \in Bijection(1 .. n, 1 .. n)} /\ Ordered(Sort(s))
  BY <1>8, <1>9
<1>11. PICK p \in Bijection(1 .. n, 1 .. n) : Sort(s) = By(p)
  BY <1>10
<1>12. p \in [1 .. n -> 1 .. n] /\ \A j \in 1 .. n : \E i \in 1 .. n : p[i] = j
  BY <1>11 DEF Bijection, Injection, Surjection
<1>13. \A i \in 1 .. n : Sort(s)[i] = s[p[i]] /\ p[i] \in 1 .. n
  BY <1>11, <1>12
<1>14. Sort(s) \in Seq(Extent) /\ Len(Sort(s)) = n
  <2>1. Sort(s) \in [1 .. n -> Extent]
    BY <1>1, <1>11, <1>12
  <2> QED
    BY <1>1, <2>1
<1>15. \A i \in 1 .. n : \E j \in 1 .. n : Sort(s)[i] = s[j]
  BY <1>13
<1>16. ASSUME NEW j \in 1 .. n PROVE \E i \in 1 .. n : Sort(s)[i] = s[j]
  <2>1. PICK i \in 1 .. n : p[i] = j
    BY <1>12
  <2> QED
    BY <1>13, <2>1
<1> QED
  BY <1>10, <1>14, <1>15, <1>16

\* Ends have a bound.
LEMMA EndsBounded ==
  ASSUME NEW t \in Seq(Extent), NEW n \in 0 .. Len(t)
  PROVE  \E b \in Nat : \A j \in 1 .. n : t[j].hi <= b
<1> DEFINE Bounded(k) == \E b \in Nat : \A j \in 1 .. k : t[j].hi <= b
           Bad == {k \in 0 .. n : ~Bounded(k)}
<1>1. Len(t) \in Nat /\ \A j \in 1 .. n : t[j].hi \in Nat
  <2>1. \A j \in 1 .. n : t[j] \in Extent
    BY LenProperties, ElementOfSeq
  <2> QED
    BY <2>1, LenProperties DEF Extent
<1>2. SUFFICES ASSUME Bad # {} PROVE FALSE
  <2>1. n \in 0 .. n
    BY <1>1
  <2>2. n \notin Bad
    BY <1>2
  <2>3. Bounded(n)
    <3> HIDE DEF Bounded
    <3> QED
      BY <2>1, <2>2
  <2> QED
    BY <2>3
<1>3. PICK k \in Bad : \A i \in Bad : ~(<<i, k>> \in OpToRel(<, Nat))
  <2>1. Bad \subseteq Nat /\ \E x : x \in Bad
    <3> HIDE DEF Bounded
    <3> QED
      BY <1>1, <1>2
  <2> HIDE DEF Bad
  <2> QED
    BY <2>1, WFMin, NatLessThanWellFounded
<1>k. k \in 0 .. n /\ ~Bounded(k)
  <2> HIDE DEF Bounded
  <2> QED
    BY <1>3
<1>l. k \in 0 .. n
  <2> HIDE DEF Bad
  <2> QED
    BY <1>k
<1>4. k # 0
  <2>1. 0 \in Nat /\ \A j \in 1 .. 0 : t[j].hi <= 0
    OBVIOUS
  <2>2. Bounded(0)
    BY <2>1
  <2> HIDE DEF Bounded
  <2> QED
    BY <2>2, <1>k
<1>5. Bounded(k - 1)
  <2>1. k - 1 \in Nat /\ k - 1 \in 0 .. n /\ k \in Nat /\ k - 1 < k
    BY <1>1, <1>4, <1>k
  <2>2. <<k - 1, k>> \in OpToRel(<, Nat)
    BY <2>1 DEF OpToRel
  <2> HIDE DEF Bounded
  <2> QED
    BY <1>3, <2>1, <2>2
<1>6. PICK b \in Nat : \A j \in 1 .. (k - 1) : t[j].hi <= b
  BY <1>5
<1>7. k \in 1 .. n /\ t[k].hi \in Nat
  <2> HIDE DEF Bad, Bounded
  <2> QED
    BY <1>1, <1>4, <1>l
<1>8. \A j \in 1 .. k : t[j].hi <= b + t[k].hi
  <2> HIDE DEF Bad, Bounded
  <2> TAKE j \in 1 .. k
  <2>1. t[j].hi \in Nat /\ b \in Nat /\ t[k].hi \in Nat
    BY <1>1, <1>6, <1>7
  <2>2. CASE j = k
    BY <2>1, <2>2
  <2>3. CASE j \in 1 .. (k - 1)
    <3>1. t[j].hi <= b
      BY <1>6, <2>3
    <3> QED
      BY <2>1, <3>1
  <2> QED
    BY <1>7, <2>2, <2>3
<1>9. Bounded(k)
  <2>1. b + t[k].hi \in Nat
    <3> HIDE DEF Bad, Bounded
    <3> QED
      BY <1>6, <1>7
  <2> QED
    BY <1>8, <2>1
<1> QED
  <2> HIDE DEF Bounded
  <2> QED
    BY <1>k, <1>9

\* The search tells whether a range overlaps a pin, whichever order the table is in.
LEMMA SearchIsExact ==
  ASSUME NEW s \in Seq(Extent), NEW c \in Extent, Table = Sort(s)
  PROVE  overlaps_pin(c) <=> \E j \in 1 .. Len(s) : Overlap(c, s[j])
<1> DEFINE n == Len(s)
           t == Sort(s)
           key == [ident |-> c.ident, lo |-> c.hi]
           Below == {i \in 1 .. n : pin_before(t[i], key)}
           last == Cardinality(Below)
           Same(i) == {k \in 1 .. i : t[k].ident = t[i].ident}
<1>1. /\ t \in Seq(Extent) /\ Len(t) = n /\ Ordered(t) /\ n \in Nat /\ DOMAIN t = 1 .. n
      /\ \A i \in 1 .. n : \E j \in 1 .. n : t[i] = s[j]
      /\ \A j \in 1 .. n : \E i \in 1 .. n : t[i] = s[j]
  BY SortedTable, LenProperties
<1> HIDE DEF t
<1>2. /\ \A i \in 1 .. n : t[i].ident \in Nat /\ t[i].lo \in Nat /\ t[i].hi \in Nat
      /\ c.ident \in Nat /\ c.lo \in Nat /\ c.hi \in Nat
  <2>1. \A i \in 1 .. n : t[i] \in Extent
    BY <1>1, ElementOfSeq
  <2> QED
    BY <2>1 DEF Extent
<1>3. overlaps_pin(c) <=> last > 0 /\ t[last].ident = c.ident /\ PinHi(t, last) > c.lo
  <2>1. Table = t /\ {i \in DOMAIN t : pin_before(t[i], key)} = Below
    BY <1>1 DEF t
  <2> HIDE DEF Below, key
  <2> QED
    BY <2>1 DEF overlaps_pin, key
<1>4. (\E j \in 1 .. n : Overlap(c, s[j])) <=> \E i \in 1 .. n : Overlap(c, t[i])
  BY <1>1
<1>5. ASSUME NEW i \in Below, NEW j \in 1 .. i PROVE j \in Below
  <2>1. i \in 1 .. n /\ j \in 1 .. n /\ pin_before(t[i], key) /\ j <= i
    BY <1>1
  <2>2. j # i => ~pin_before(t[i], t[j])
    <3> HIDE DEF n
    <3>1. j # i => j < i
      BY <1>1, <2>1
    <3> QED
      BY <1>1, <2>1, <3>1 DEF Ordered
  <2>3. pin_before(t[j], key)
    BY <1>2, <2>1, <2>2 DEF pin_before
  <2> QED
    BY <2>1, <2>3
<1>6. last \in 0 .. n /\ Below = 1 .. last
  <2>1. CASE Below = {}
    <3>1. last = 0
      <4> HIDE DEF Below
      <4> QED
        BY <2>1, FS_EmptySet
    <3> HIDE DEF last, Below, n
    <3> QED
      BY <1>1, <2>1, <3>1
  <2>2. CASE Below # {}
    <3>1. PICK e \in Below : TRUE
      BY <2>2
    <3>2. Below \in SUBSET (0 .. n)
      BY <1>1
    <3> DEFINE m == Max(Below)
    <3>3. m \in Below /\ \A y \in Below : m >= y
      <4> HIDE DEF Below
      <4> QED
        BY <1>1, <3>1, <3>2, MaxOfBounded
    <3>4. m \in 1 .. n
      BY <3>3
    <3>5. Below = 1 .. m
      <4>1. ASSUME NEW j \in 1 .. m PROVE j \in Below
        <5> HIDE DEF Below, m
        <5> QED
          BY <1>5, <3>3
      <4>2. ASSUME NEW j \in Below PROVE j \in 1 .. m
        <5>1. j \in 1 .. n
          OBVIOUS
        <5> HIDE DEF Below, m
        <5> QED
          BY <1>1, <3>3, <3>4, <5>1
      <4> HIDE DEF Below, m
      <4> QED
        BY <4>1, <4>2
    <3> HIDE DEF m
    <3>6. Cardinality(1 .. m) = m
      <4>1. m \in Int /\ ~(1 > m) /\ m - 1 + 1 = m
        BY <1>1, <3>4
      <4>2. Cardinality(1 .. m) = IF 1 > m THEN 0 ELSE m - 1 + 1
        BY <4>1, FS_Interval
      <4> QED
        BY <4>1, <4>2
    <3>7. last = m
      BY <3>5, <3>6
    <3> HIDE DEF last, Below
    <3> QED
      BY <1>1, <3>4, <3>5, <3>7
  <2> QED
    BY <2>1, <2>2
<1>7. \A i \in 1 .. n : i <= last <=> pin_before(t[i], key)
  <2>1. \A i \in 1 .. n : i \in Below <=> pin_before(t[i], key)
    OBVIOUS
  <2> HIDE DEF Below, key, last, n
  <2>2. \A i \in 1 .. n : i \in 1 .. last <=> i <= last
    BY <1>1, <1>6
  <2> QED
    BY <1>6, <2>1, <2>2
<1>8. ASSUME last > 0
      PROVE  PinHi(t, last) > c.lo <=> \E k \in Same(last) : t[k].hi > c.lo
  <2>0. last \in 1 .. n
    BY <1>1, <1>6, <1>8
  <2> HIDE DEF last, Below, key
  <2> DEFINE his == {t[k].hi : k \in Same(last)}
  <2>1. PinHi(t, last) = Max(his)
    BY Zenon DEF PinHi
  <2>l. last \in 0 .. Len(t)
    BY <1>1, <2>0
  <2>2. PICK b \in Nat : \A k \in 1 .. last : t[k].hi <= b
    BY <1>1, <2>l, EndsBounded
  <2>3. his \in SUBSET (0 .. b) /\ t[last].hi \in his
    <3>1. ASSUME NEW k \in Same(last) PROVE t[k].hi \in 0 .. b
      <4>1. k \in 1 .. last /\ k \in 1 .. n
        BY <1>1, <2>0
      <4> QED
        BY <1>2, <2>2, <4>1
    <3>2. last \in Same(last)
      BY <1>1, <2>0
    <3> HIDE DEF Same
    <3> QED
      BY <3>1, <3>2
  <2>4. Max(his) \in his /\ \A y \in his : Max(his) >= y
    <3> DEFINE e == t[last].hi
    <3>1. e \in his /\ b \in Nat
      BY <2>3
    <3>2. his \in SUBSET (0 .. b)
      BY <2>3
    <3> HIDE DEF his, e, last, Same, n, Below, key
    <3> QED
      BY <3>1, <3>2, MaxOfBounded
  <2>5. ASSUME NEW k \in Same(last) PROVE t[k].hi \in his /\ t[k].hi \in Nat
    <3>1. k \in 1 .. n
      BY <1>1, <2>0
    <3> QED
      BY <1>2, <3>1
  <2>6. PICK k \in Same(last) : Max(his) = t[k].hi
    BY <2>4
  <2> HIDE DEF his
  <2>7. PinHi(t, last) = t[k].hi /\ t[k].hi \in Nat
    BY <2>1, <2>5, <2>6
  <2>8. \A j \in Same(last) : t[k].hi >= t[j].hi /\ t[j].hi \in Nat
    BY <2>4, <2>5, <2>6
  <2> HIDE DEF Same
  <2> QED
    BY <1>2, <2>6, <2>7, <2>8
<1> HIDE DEF last, Below
<1>9. ASSUME NEW i \in 1 .. n, Overlap(c, t[i]) PROVE overlaps_pin(c)
  <2>1. t[i].ident = c.ident /\ t[i].lo < c.hi /\ c.lo < t[i].hi
    BY <1>2, <1>9 DEF Overlap
  <2>2. i <= last /\ last \in 1 .. n
    <3>1. pin_before(t[i], key)
      BY <1>2, <2>1 DEF pin_before
    <3> HIDE DEF n, key
    <3>2. i <= last
      BY <1>7, <3>1
    <3> QED
      BY <1>1, <1>6, <3>2
  <2>3. pin_before(t[last], key) /\ (last # i => ~pin_before(t[last], t[i]))
    <3> HIDE DEF n, key
    <3>1. last <= last /\ (last # i => i < last)
      BY <1>1, <2>2
    <3> QED
      BY <1>1, <1>7, <2>2, <3>1 DEF Ordered
  <2>4. t[last].ident = c.ident
    BY <1>2, <2>1, <2>2, <2>3 DEF pin_before
  <2>5. i \in Same(last)
    BY <1>1, <2>1, <2>2, <2>4
  <2>6. t[i].hi > c.lo
    BY <1>2, <2>1
  <2> HIDE DEF Same
  <2> QED
    BY <1>3, <1>8, <2>2, <2>4, <2>5, <2>6
<1>10. ASSUME overlaps_pin(c) PROVE \E i \in 1 .. n : Overlap(c, t[i])
  <2>1. last > 0 /\ t[last].ident = c.ident /\ \E k \in Same(last) : t[k].hi > c.lo
    BY <1>3, <1>8, <1>10
  <2>2. PICK k \in 1 .. last : t[k].ident = t[last].ident /\ t[k].hi > c.lo
    BY <2>1
  <2>3. k \in 1 .. n /\ k <= last
    BY <1>1, <1>6
  <2>4. pin_before(t[k], key)
    BY <1>7, <2>3
  <2>5. t[k].lo < c.hi
    BY <1>2, <2>1, <2>2, <2>3, <2>4 DEF pin_before
  <2>6. Overlap(c, t[k])
    BY <1>2, <2>1, <2>2, <2>3, <2>5 DEF Overlap
  <2> QED
    BY <2>3, <2>6
<1> QED
  BY <1>4, <1>9, <1>10

-----------------------------------------------------------------------------
(***************************************************************************)
(* No write over a weight or over another write. The table searched is the *)
(* one sorted last: it must be that of the present pins. That the error    *)
(* word can be claimed at every begin, which no call checks, is due to the *)
(* first pass: it pinned no weight over the word, which was claimed then.  *)
(***************************************************************************)
Fresh == pins_sorted \in BOOLEAN /\ (pins_sorted => order = Sort(pins))

Apart ==
  /\ claims \subseteq Extent
  /\ ~busy => claims = {}
  /\ \A i \in 1 .. Len(pins) : ~Overlap(WordSpan, pins[i])
  /\ NoAliasedWrite

AInv == Fresh /\ Apart

\* A claim let in overlaps neither a pin nor a claim, and the search never refuses another.
LEMMA AdmissibleIsApart ==
  ASSUME Fresh, Prefix, NEW c \in Extent
  PROVE  Admissible(c) <=> /\ \A j \in 1 .. Len(pins) : ~Overlap(c, pins[j])
                           /\ \A o \in claims : ~Overlap(o, c)
<1>1. Table = Sort(pins) /\ pins \in Seq(Extent)
  BY DEF Table, Fresh, Prefix, Extent
<1>2. overlaps_pin(c) <=> \E j \in 1 .. Len(pins) : Overlap(c, pins[j])
  BY <1>1, SearchIsExact
<1> QED
  BY <1>2 DEF Admissible

\* A search leaves the table that of the pins.
LEMMA LookupFresh == Fresh /\ Lookup /\ UNCHANGED pins => Fresh'
  BY DEF Fresh, Lookup, Table

\* Overlapping is mutual.
LEMMA OverlapMutual == \A a, b \in Extent : Overlap(a, b) <=> Overlap(b, a)
  BY DEF Overlap, Extent

\* Steps that leave claims and pins alone, within a command or between two.
LEMMA SameClaims ==
  ASSUME AInv, UNCHANGED <<claims, pinned>>, busy' => busy, busy => busy' PROVE AInv'
  BY DEF AInv, Fresh, Apart, NoAliasedWrite, pinned

\* A claim is added that overlaps none.
LEMMA OneMoreClaim ==
  ASSUME Apart, Prefix, NEW c \in Extent, busy',
         claims' = claims \cup {c}, pins' = pins, WordSpan \in claims',
         claims # {} => busy,
         \A j \in 1 .. Len(pins) : ~Overlap(c, pins[j]), \A o \in claims : ~Overlap(o, c)
  PROVE  Apart'
<1>1. claims' \subseteq Extent
  BY DEF Apart
<1>2. \A a, o \in claims' : a # o => ~Overlap(a, o)
  <2> SUFFICES ASSUME NEW a \in claims', NEW o \in claims', a # o PROVE ~Overlap(a, o)
    OBVIOUS
  <2>1. a \in Extent /\ o \in Extent
    BY <1>1
  <2>2. CASE a \in claims /\ o \in claims
    BY <2>2 DEF Apart, NoAliasedWrite
  <2>3. CASE o = c
    BY <2>3
  <2>4. CASE a = c
    BY <2>1, <2>4, OverlapMutual
  <2> QED
    BY <2>2, <2>3, <2>4
<1>3. \A a \in claims', i \in 1 .. Len(pins) : ~Overlap(a, pins[i])
  BY DEF Apart, NoAliasedWrite
<1> QED
  BY <1>1, <1>2, <1>3 DEF Apart, NoAliasedWrite

LEMMA StepAInv ==
  ASSUME IInv, CInv, AInv, CNext PROVE AInv'
<1>p. pins \in Seq(Extent) /\ Len(pins) \in Nat /\ Prefix
  BY LenProperties DEF CInv, Prefix, Extent
<1>w. WordSpan \in Extent /\ Spans \subseteq Extent /\ Weights \in Seq(Extent)
  BY ClaimsAssumption
<1>1. CASE \E n \in 0 .. Capacity : c_begin(n)
  <2>1. PICK n \in 0 .. Capacity : c_begin(n)
    BY <1>1
  <2>2. ~busy /\ busy' /\ pins' = pins /\ pins_sealed' = pins_sealed /\ Lookup
    BY <2>1 DEF c_begin, begin, Admit, busy
  <2>3. claims = {} /\ \A i \in 1 .. Len(pins) : ~Overlap(WordSpan, pins[i])
    BY <2>2 DEF AInv, Apart
  <2>4. Admissible(WordSpan)
    BY <1>p, <1>w, <2>3, AdmissibleIsApart DEF AInv
  <2>5. claims' = claims \cup {WordSpan}
    BY <2>1, <2>4 DEF c_begin
  <2>6. Apart'
    BY <1>p, <1>w, <2>2, <2>3, <2>5, OneMoreClaim DEF AInv
  <2> QED
    BY <2>2, <2>6, LookupFresh DEF AInv
<1>2. CASE \E n \in 0 .. Capacity : begin_no_encoder(n) /\ UNCHANGED <<claims, pinned, phase>>
  BY <1>2, SameClaims DEF begin_no_encoder, busy
<1>3. ASSUME NEW t \in Presented, NEW c \in Spans, claim_write(t, c) PROVE AInv'
  <2>1. /\ busy /\ busy' /\ pins' = pins /\ Lookup
        /\ UNCHANGED pins_sealed
    BY <1>3 DEF claim_write, check, vars, ledger, busy
  <2>2. CASE Admissible(c)
    <3>1. claims' = claims \cup {c}
      BY <1>3, <2>2 DEF claim_write
    <3>2. /\ \A j \in 1 .. Len(pins) : ~Overlap(c, pins[j])
          /\ \A o \in claims : ~Overlap(o, c)
      BY <1>p, <1>w, <2>2, AdmissibleIsApart DEF AInv
    <3>3. WordSpan \in claims' /\ c \in Extent
      BY <1>w, <2>1, <3>1 DEF AInv, Apart, NoAliasedWrite
    <3>4. Apart'
      BY <1>p, <2>1, <3>1, <3>2, <3>3, OneMoreClaim DEF AInv
    <3> QED
      BY <2>1, <3>4, LookupFresh DEF AInv
  <2>3. CASE ~Admissible(c)
    <3>1. claims' = claims
      BY <1>3, <2>3 DEF claim_write
    <3>2. Apart'
      BY <2>1, <3>1 DEF AInv, Apart, NoAliasedWrite
    <3> QED
      BY <2>1, <3>2, LookupFresh DEF AInv
  <2> QED
    BY <2>2, <2>3
<1>4. ASSUME NEW t \in Presented, pin_read(t) PROVE AInv'
  <2> DEFINE w == Weights[Len(pins) + 1]
  <2>1. /\ busy /\ busy' /\ claims' = claims /\ pins_sorted' = FALSE
        /\ pins' = Append(pins, w) /\ Len(pins) < Len(Weights)
        /\ \A o \in claims : ~Overlap(o, w)
    BY <1>4 DEF pin_read, check, vars, ledger, busy
  <2>2. w \in Extent
    <3>1. Len(pins) + 1 \in 1 .. Len(Weights)
      BY <1>p, <1>w, <2>1, LenProperties
    <3> QED
      BY <1>w, <3>1, ElementOfSeq
  <2> HIDE DEF w
  <2>3. /\ Len(pins') = Len(pins) + 1
        /\ \A i \in 1 .. Len(pins) : pins'[i] = pins[i]
        /\ pins'[Len(pins) + 1] = w
    BY <1>p, <2>1, <2>2, AppendProperties
  <2>4. ASSUME NEW i \in 1 .. Len(pins'), NEW c \in claims PROVE ~Overlap(c, pins'[i])
    <3>1. i \in 1 .. Len(pins) \/ i = Len(pins) + 1
      BY <1>p, <2>3
    <3> QED
      BY <2>1, <2>3, <3>1 DEF AInv, Apart, NoAliasedWrite
  <2>5. WordSpan \in claims
    BY <2>1 DEF AInv, Apart, NoAliasedWrite
  <2>6. Apart'
    BY <2>1, <2>4, <2>5 DEF AInv, Apart, NoAliasedWrite
  <2>7. Fresh'
    BY <2>1 DEF Fresh
  <2> QED
    BY <2>6, <2>7 DEF AInv
<1>5. ASSUME NEW t \in Presented, pin_failed(t) PROVE AInv'
  <2>1. busy /\ busy' /\ claims' = claims /\ pins_sorted' = FALSE /\ pins' = <<>>
    BY <1>5 DEF pin_failed, check, vars, ledger, busy
  <2>2. 1 .. Len(pins') = {}
    BY <2>1
  <2> QED
    BY <2>1, <2>2 DEF AInv, Fresh, Apart, NoAliasedWrite
<1>6. ASSUME NEW t \in Presented, pins_seal(t) PROVE AInv'
  <2>1. busy /\ busy' /\ UNCHANGED <<claims, pins, order, pins_sorted>>
    BY <1>6 DEF pins_seal, check, vars, ledger, busy
  <2> QED
    BY <2>1 DEF AInv, Fresh, Apart, NoAliasedWrite
<1>7. ASSUME NEW t \in Presented, c_run(t) PROVE AInv'
  <2>1. UNCHANGED <<claims, pinned>> /\ busy /\ busy'
    BY <1>7 DEF c_run, flush, submit, check, ledger, busy
  <2> QED
    BY <2>1, SameClaims
<1>8. ASSUME NEW t \in Presented, c_abort(t) \/ c_finish(t) PROVE AInv'
  <2>1. claims' = {} /\ UNCHANGED pinned
    BY <1>8 DEF c_abort, c_finish, release_claims
  <2>2. ~busy'
    BY <1>8 DEF c_abort, c_finish, abort, AbortState, finish, publish, poison, IInv, TypeOK, busy
  <2> QED
    BY <2>1, <2>2 DEF AInv, Fresh, Apart, NoAliasedWrite, pinned
<1>9. CASE reset /\ UNCHANGED <<claims, pinned, phase>>
  BY <1>9, SameClaims DEF reset, busy
<1>10. CASE GpuRun /\ UNCHANGED <<claims, pinned, phase>>
  <2>1. UNCHANGED state
    BY <1>10 DEF GpuRun, GpuRunEarly, GpuRunLast, ledger
  <2> QED
    BY <1>10, <2>1, SameClaims DEF busy
<1> QED
  BY <1>1, <1>2, <1>3, <1>4, <1>5, <1>6, <1>7, <1>8, <1>9, <1>10 DEF CNext

\* While a command is open, the error word is claimed, no two claims share a byte and no claim
\* shares one with a pinned weight, however the weights overlap each other and whatever order
\* the table is left in (add_claim and overlaps_pin, qwen38_gpu.m).
THEOREM WritesApart == CSpec => []NoAliasedWrite
<1>1. CInit => AInv
  <2> SUFFICES ASSUME CInit PROVE AInv
    OBVIOUS
  <2>1. ~busy /\ claims = {} /\ pins = <<>> /\ pins_sorted = FALSE
    BY DEF CInit, Init, busy
  <2>2. 1 .. Len(pins) = {}
    BY <2>1
  <2> QED
    BY <2>1, <2>2 DEF AInv, Fresh, Apart, NoAliasedWrite
<1>2. IInv /\ CInv /\ AInv /\ [CNext]_cvars => AInv'
  <2>1. ASSUME AInv, UNCHANGED cvars PROVE AInv'
    BY <2>1, SameClaims DEF cvars, vars, ledger, busy
  <2> QED
    BY <2>1, StepAInv
<1>3. AInv => NoAliasedWrite
  BY DEF AInv, Apart
<1> QED
  BY <1>1, <1>2, <1>3, Claims, PTL DEF CSpec
=============================================================================
