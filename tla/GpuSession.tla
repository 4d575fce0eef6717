----------------------------- MODULE GpuSession -----------------------------
(***************************************************************************)
(* G0, the common GPU session (src/qwen38_gpu.m): the ledger that decides  *)
(* whether a command may run and whether its result is published, and the  *)
(* Metal command buffers and error word it protects.                       *)
(*                                                                         *)
(* Two actors: the single host thread, which calls the session, and the    *)
(* GPU, which runs the committed command buffers in queue order while the  *)
(* host goes on encoding. A command may be cut into several buffers (D1),  *)
(* all but the last committed early. A call that only returns an error     *)
(* changes nothing, so it is a stuttering step and has no action here.     *)
(***************************************************************************)
EXTENDS Naturals

CONSTANTS
  Capacity,      \* positions of the session
  MaxEpoch,      \* UINT64_MAX: the epoch where reset reports an overflow
  MaxFlush,      \* early command buffers of one command (8)
  RewindWindow   \* rows a rewind may drop (4)

ASSUME SessionAssumption ==
  /\ Capacity \in Nat \ {0}
  /\ MaxEpoch \in Nat \ {0}
  /\ MaxFlush \in Nat \ {0}
  /\ RewindWindow \in Nat

VARIABLES
  \* Qwen38GpuLedger
  state, resume, epoch, next_pos,
  open,         \* the ticket of the one command begin() admitted
  \* Qwen38GpuSession
  early,        \* what became of each early command buffer
  early_count,
  command,      \* the last command buffer of the open command
  word,         \* TRUE: a kernel has set a bit of the error word
  alive,        \* FALSE once destroyed
  \* What the commands leave in the graph's persistent buffers.
  content,      \* rows they hold
  torn,         \* TRUE: a command has run in part
  \* Tickets whose rows were published, kept to replay them.
  published

ledger  == <<state, resume, epoch, next_pos, open>>
buffers == <<early, early_count, command, word>>
device  == <<content, torn>>
vars    == <<ledger, buffers, device, alive, published>>

States   == {"IDLE", "ENCODING", "IN_FLIGHT", "VALID", "INVALID"}
Outcomes == {"none", "pending", "ok", "failed"}     \* of a command buffer
Tickets  == [epoch : 0 .. MaxEpoch, start : 0 .. Capacity, count : 0 .. Capacity]
NoTicket == [epoch |-> 0, start |-> 0, count |-> 0]
NoEarly  == [i \in 1 .. MaxFlush |-> "none"]

busy == state \in {"ENCODING", "IN_FLIGHT"}

-----------------------------------------------------------------------------
(* Tickets                                                                 *)

\* Mutant: a stale ticket passes.
check_no_epoch(t, want) ==
  /\ state = want
  /\ t.start = open.start
  /\ t.count = open.count

\* A ticket is honoured if it is the open command's, in the expected phase.
check(t, want) ==
  /\ t.epoch = epoch
  /\ state = want
  /\ t.start = open.start
  /\ t.count = open.count

\* Tickets a caller can present: the open command's and those it kept.
Presented == published \cup {open}

\* waitUntilCompleted returns for every early buffer, and for the last one,
\* which it never does for a buffer that was not committed.
EarlyDrained == \A i \in 1 .. MaxFlush : early[i] # "pending"
Drained == EarlyDrained /\ command \in {"ok", "failed"}

\* Every command buffer, the last one included, completed without a Metal error.
command_ok(last) ==
  /\ last = "ok"
  /\ \A i \in 1 .. early_count : early[i] = "ok"

-----------------------------------------------------------------------------
(* The host                                                                *)

Init ==
  /\ state = "IDLE" /\ resume = "IDLE" /\ epoch = 1 /\ next_pos = 0
  /\ open = NoTicket
  /\ early = NoEarly /\ early_count = 0 /\ command = "none" /\ word = FALSE
  /\ content = 0 /\ torn = FALSE
  /\ alive = TRUE
  /\ published = {}

Admit(n) ==
  /\ alive
  /\ state \in {"IDLE", "VALID"}
  /\ n <= Capacity - next_pos
  /\ resume' = state
  /\ open' = [epoch |-> epoch, start |-> next_pos, count |-> n]
  /\ UNCHANGED <<epoch, next_pos, device, alive, published>>

begin(n) ==
  /\ Admit(n)
  /\ state' = "ENCODING"
  /\ command' = "open"
  /\ word' = FALSE
  /\ UNCHANGED <<early, early_count>>

\* Metal returns no encoder: the admitted command is aborted untouched.
begin_no_encoder(n) ==
  /\ Admit(n)
  /\ UNCHANGED <<state, buffers>>

\* D1: what is encoded so far is committed and may run at once.
flush(t) ==
  /\ alive
  /\ early_count < MaxFlush
  /\ check(t, "ENCODING")
  /\ early' = [early EXCEPT ![early_count + 1] = "pending"]
  /\ early_count' = early_count + 1
  /\ UNCHANGED <<ledger, command, word, device, alive, published>>

\* Mutant: the last buffer is never committed.
submit_uncommitted(t) ==
  /\ alive
  /\ check(t, "ENCODING")
  /\ state' = "IN_FLIGHT"
  /\ UNCHANGED <<resume, epoch, next_pos, open, buffers, device, alive, published>>

submit(t) ==
  /\ alive
  /\ check(t, "ENCODING")
  /\ state' = "IN_FLIGHT"
  /\ command' = "pending"
  /\ UNCHANGED <<resume, epoch, next_pos, open, early, early_count, word, device,
                 alive, published>>

\* Mutant: abort as it was before a command could be flushed early.
AbortState_no_early(mutated) == IF mutated THEN "INVALID" ELSE resume

\* mutated: the caller has changed the state itself. The buffers committed
\* early are waited for; the last one was never committed.
AbortState(mutated) ==
  IF mutated \/ early_count > 0 THEN "INVALID" ELSE resume

\* Mutant: the buffers committed early are neither waited for nor dropped.
abort_no_wait(t, mutated) ==
  /\ alive
  /\ check(t, "ENCODING")
  /\ state' = AbortState(mutated)
  /\ command' = "none"
  /\ torn' = (torn \/ mutated)
  /\ UNCHANGED <<resume, epoch, next_pos, open, early, early_count, word, content,
                 alive, published>>

abort(t, mutated) ==
  /\ alive
  /\ check(t, "ENCODING")
  /\ EarlyDrained
  /\ state' = AbortState(mutated)
  /\ early' = NoEarly /\ early_count' = 0 /\ command' = "none"
  /\ torn' = (torn \/ mutated)
  /\ UNCHANGED <<resume, epoch, next_pos, open, word, content, alive, published>>

publish(t) ==
  /\ command_ok(command) /\ ~word
  /\ next_pos' = next_pos + t.count
  /\ state' = IF t.count > 0 THEN "VALID" ELSE resume
  /\ published' = IF t.count > 0 THEN published \cup {t} ELSE published

poison ==
  /\ ~command_ok(command) \/ word
  /\ state' = "INVALID"
  /\ UNCHANGED <<next_pos, published>>

\* finish waits for every committed buffer, reads the Metal errors and the
\* error word, and publishes or poisons. Only then may scratch be reused.
finish(t) ==
  /\ alive
  /\ check(t, "IN_FLIGHT")
  /\ Drained
  /\ publish(t) \/ poison
  /\ early' = NoEarly /\ early_count' = 0 /\ command' = "none"
  /\ UNCHANGED <<resume, epoch, open, word, device, alive>>

\* Mutant: the epoch stays, and with it every ticket.
reset_same_epoch ==
  /\ alive /\ ~busy
  /\ next_pos' = 0
  /\ state' = "IDLE" /\ resume' = "IDLE"
  /\ open' = NoTicket
  /\ content' = 0 /\ torn' = FALSE
  /\ UNCHANGED <<epoch, buffers, alive, published>>

\* The caller clears every history with it (qwen38_gpu_forward_reset).
reset ==
  /\ alive /\ ~busy
  /\ epoch < MaxEpoch
  /\ epoch' = epoch + 1
  /\ next_pos' = 0
  /\ state' = "IDLE" /\ resume' = "IDLE"
  /\ open' = NoTicket
  /\ content' = 0 /\ torn' = FALSE
  /\ UNCHANGED <<buffers, alive, published>>

\* The caller restores the histories of position p with it (keep, restore).
rewind(p) ==
  /\ alive /\ ~busy
  /\ state # "INVALID" /\ p <= next_pos /\ next_pos - p <= RewindWindow
  /\ epoch < MaxEpoch
  /\ epoch' = epoch + 1
  /\ next_pos' = p
  /\ state' = IF p > 0 THEN "VALID" ELSE "IDLE"
  /\ resume' = "IDLE"
  /\ open' = NoTicket
  /\ content' = p
  /\ UNCHANGED <<torn, buffers, alive, published>>

destroy ==
  /\ alive /\ ~busy
  /\ alive' = FALSE
  /\ UNCHANGED <<ledger, buffers, device, published>>

-----------------------------------------------------------------------------
(* The GPU: one queue, buffers in the order of their commits. Each ends    *)
(* with or without a Metal error, and its kernels may set the error word.  *)

GpuRunEarly(i, outcome, flagged) ==
  /\ early[i] = "pending"
  /\ \A j \in 1 .. (i - 1) : early[j] # "pending"
  /\ early' = [early EXCEPT ![i] = outcome]
  /\ word' = (word \/ flagged)
  /\ torn' = (torn \/ open.count > 0)
  /\ UNCHANGED <<ledger, early_count, command, content, alive, published>>

\* The last buffer completes the rows if every other one was clean.
GpuRunLast(outcome, flagged) ==
  /\ command = "pending"
  /\ EarlyDrained
  /\ command' = outcome
  /\ word' = (word \/ flagged)
  /\ IF command_ok(outcome) /\ ~word'
       THEN content' = open.start + open.count /\ torn' = FALSE
       ELSE torn' = (torn \/ open.count > 0) /\ UNCHANGED content
  /\ UNCHANGED <<ledger, early, early_count, alive, published>>
-----------------------------------------------------------------------------
Calls(t) ==
  \/ flush(t)
  \/ submit(t)
  \/ \E mutated \in BOOLEAN : abort(t, mutated)
  \/ finish(t)

GpuRun ==
  \E outcome \in {"ok", "failed"}, flagged \in BOOLEAN :
    \/ \E i \in 1 .. MaxFlush : GpuRunEarly(i, outcome, flagged)
    \/ GpuRunLast(outcome, flagged)

Next ==
  \/ \E n \in 0 .. Capacity : begin(n) \/ begin_no_encoder(n)
  \/ \E t \in Presented : Calls(t)
  \/ reset
  \/ \E p \in 0 .. Capacity : rewind(p)
  \/ destroy
  \/ GpuRun

Spec == Init /\ [][Next]_vars

\* A committed buffer completes; the graph submits or aborts what it begins and
\* finishes what it submits before it returns (forward, mtp_append).
Fairness ==
  /\ WF_vars(GpuRun)
  /\ WF_vars(\E t \in Presented : submit(t) \/ abort(t, FALSE))
  /\ WF_vars(\E t \in Presented : finish(t))

FairSpec == Spec /\ Fairness

\* finish with a ticket that is not the open command's, while a command is in
\* flight: it has waited for the buffers and dropped the early ones before the
\* ledger refuses the ticket. The graph never does this.
finish_refused ==
  /\ alive
  /\ state = "IN_FLIGHT"
  /\ Drained
  /\ early' = NoEarly /\ early_count' = 0
  /\ UNCHANGED <<ledger, command, word, device, alive, published>>

SpecAnyTicket == Init /\ [][Next \/ finish_refused]_vars

-----------------------------------------------------------------------------
(* Properties                                                              *)

TypeOK ==
  /\ state \in States /\ resume \in {"IDLE", "VALID"}
  /\ epoch \in 1 .. MaxEpoch
  /\ next_pos \in 0 .. Capacity
  /\ open \in Tickets
  /\ early \in [1 .. MaxFlush -> Outcomes]
  /\ early_count \in 0 .. MaxFlush
  /\ command \in Outcomes \cup {"open"}
  /\ word \in BOOLEAN /\ alive \in BOOLEAN /\ torn \in BOOLEAN
  /\ content \in 0 .. Capacity
  /\ published \in SUBSET Tickets

\* A session that accepts commands is on top of exactly the rows it has
\* published: no command that ran in part, failed or set an error bit has left
\* anything behind that a later command would build on.
Trusted ==
  state \in {"IDLE", "VALID"} => ~torn /\ content = next_pos

\* The ticket of a command whose rows were published is never honoured again,
\* however often the session is rewound to the same position or reset.
NoReplay ==
  \A t \in published : ~check(t, "ENCODING") /\ ~check(t, "IN_FLIGHT")

\* When the session is not busy (or is gone) no command buffer is running and
\* none is kept, so the caller may reuse and free what the commands touch.
QuietWhenIdle ==
  ~busy \/ ~alive => early = NoEarly /\ early_count = 0 /\ command = "none"

\* The session is an append-only log of rows (see AppendLog): every step that
\* changes the published position, the epoch or the usability is one of its steps.
Log == INSTANCE AppendLog
         WITH pos <- next_pos, usable <- state # "INVALID", era <- epoch
IsAppendLog == Log!Spec

\* Every admitted command ends: no wait is for a buffer that was never committed.
EveryCommandEnds == busy ~> ~busy
=============================================================================
