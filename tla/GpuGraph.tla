------------------------------ MODULE GpuGraph ------------------------------
(***************************************************************************)
(* G2, the transactional GPU graph (src/qwen38_forward_gpu.m), at the      *)
(* granularity of its synchronous calls: append, verify/keep, checkpoint   *)
(* save/restore, reset, and the MTP predictor with its own session.        *)
(*                                                                         *)
(* The commands of a call run through a GpuSession, of which only what     *)
(* AppendLog says is visible here: epoch, position, usability. What a      *)
(* history buffer holds is represented by the tokens it has absorbed. One  *)
(* layer of each kind stands for all of its kind: GDN (recurrent state and *)
(* convolution window), QSA (row and block caches), PLE (n-gram history).  *)
(*                                                                         *)
(* Nobody restricts the caller here: any sequence of calls is a behaviour. *)
(***************************************************************************)
EXTENDS Integers, Sequences, FiniteSets

CONSTANTS
  Token,         \* the vocabulary
  Pad,           \* what a zeroed window and a fresh n-gram history hold
  Capacity,      \* positions of the graph
  MaxTokens,     \* rows of one append
  VerifyRows,    \* rows of one verify (QWEN38_VERIFY_ROWS = 4)
  Window,        \* rows a convolution looks back
  NgramHistory,  \* tokens an n-gram looks back (order - 1)
  Ratio,         \* rows pooled into one QSA block
  RewindWindow,  \* rows a session rewind may drop (4)
  RestoreWindow, \* rows a restore may drop (2)
  MaxEpoch,      \* UINT64_MAX: where reset, keep and restore overflow
  MaxSerial      \* bound: checkpoint serials

ASSUME GraphAssumption ==
  /\ Capacity \in Nat \ {0} /\ MaxTokens \in 1 .. Capacity
  /\ VerifyRows \in Nat \ {0, 1} /\ Window \in Nat /\ NgramHistory \in Nat
  /\ Ratio \in Nat \ {0} /\ RewindWindow \in Nat /\ RestoreWindow \in Nat
  /\ MaxEpoch \in Nat \ {0} /\ MaxSerial \in Nat
  /\ Pad \notin Token
  /\ RestoreWindow <= RewindWindow /\ VerifyRows - 1 <= RewindWindow

VARIABLES
  valid, next_pos,
  last_start, last_count,  \* the last append: its residual rows pair with the predictor
  snapshot_serial,
  session,                 \* the trunk's session: [epoch, pos, usable]
  changed,                 \* the n-gram file changed: every prepare and reset fails
  mem,                     \* GDN state buffers: the tokens absorbed
  state_buf, snap_buf,     \* which of them is the state, and the row snapshots
  history_buf,             \* the state's entry of the histories list
  conv,                    \* the convolution window
  rows, blocks,            \* QSA index/key/value rows and the pooled blocks
  r,                       \* residual rows of the last append: the prefix each stands for
  ngram,                   \* [epoch, pos, previous], newest token first
  verify,                  \* the pending verify, with the copies only keep reads: the
                           \* window followed by the rows, the n-gram tokens before
  saved, snapshot,         \* the last checkpoint handle and the host copy
  mtp,                     \* predictor: [enabled, failed, usable, last_rows]
  pairs,                   \* its cache: (trunk row, next token) by position
  log, issued              \* history: the tokens published; handles with their log

graph    == <<valid, next_pos, last_start, last_count, snapshot_serial>>
gdn      == <<mem, state_buf, snap_buf, history_buf>>
device   == <<conv, rows, blocks, r>>
hash     == <<ngram, changed>>
restores == <<saved, snapshot, issued>>
predictor == <<mtp, pairs>>
vars == <<graph, session, gdn, device, hash, verify, restores, predictor, log>>

Appends(n) == UNION {[1 .. k -> Token] : k \in 1 .. n}
NoVerify   == [rows |-> 0, start |-> 0, epoch |-> 0, tokens |-> <<>>,
               conv_ext |-> <<>>, ple_prev |-> <<>>]
Buffers    == 0 .. (VerifyRows - 1)
Own        == <<>>         \* a chained pair has the predictor's own output row

-----------------------------------------------------------------------------
(* What the histories hold after the tokens s.                             *)

LastRows(s) == [i \in 1 .. Window |->
                  IF Len(s) - Window + i > 0 THEN s[Len(s) - Window + i] ELSE Pad]
Newest(s)   == [i \in 1 .. NgramHistory |->
                  IF i <= Len(s) THEN s[Len(s) + 1 - i] ELSE Pad]
Pool(cache, b) == [i \in 1 .. Ratio |-> cache[(b - 1) * Ratio + i]]

EmptyRows   == [p \in 1 .. Capacity |-> Pad]
EmptyBlocks == [b \in 1 .. (Capacity \div Ratio) |-> [i \in 1 .. Ratio |-> Pad]]

-----------------------------------------------------------------------------
Init ==
  /\ valid = TRUE /\ next_pos = 0 /\ last_start = 0 /\ last_count = 0
  /\ snapshot_serial = 0
  /\ session = [epoch |-> 1, pos |-> 0, usable |-> TRUE]
  /\ changed = FALSE
  /\ mem = [b \in Buffers |-> <<>>]
  /\ state_buf = 0 /\ snap_buf = [j \in 1 .. (VerifyRows - 1) |-> j] /\ history_buf = 0
  /\ conv = LastRows(<<>>)
  /\ rows = EmptyRows /\ blocks = EmptyBlocks
  /\ r = <<>>
  /\ ngram = [epoch |-> 1, pos |-> 0, previous |-> Newest(<<>>)]
  /\ verify = NoVerify
  /\ saved = [epoch |-> 0, serial |-> 0, position |-> 0, mtp_position |-> 0]
  /\ snapshot = <<>>
  /\ mtp = [enabled |-> FALSE, failed |-> FALSE, usable |-> TRUE, last_rows |-> 0]
  /\ pairs = <<>>
  /\ log = <<>> /\ issued = {}

Valid == valid /\ session.usable           \* qwen38_gpu_forward_info
MtpValid == mtp.enabled /\ mtp.usable /\ Valid
MtpPos == IF mtp.enabled THEN Len(pairs) ELSE 0

-----------------------------------------------------------------------------
(* Append (forward)                                                        *)

\* The kernels of an append of ts. A verify also copies the state after each
\* row but the last.
Kernels(ts, capture) ==
  LET old   == mem[state_buf]
      kept  == {j \in 1 .. (VerifyRows - 1) : capture /\ j < Len(ts)}
      upto  == next_pos + Len(ts)
  IN
  /\ mem' = [b \in Buffers |->
               IF b = state_buf THEN old \o ts
               ELSE IF \E j \in kept : snap_buf[j] = b
                 THEN old \o SubSeq(ts, 1, CHOOSE j \in kept : snap_buf[j] = b)
                 ELSE mem[b]]
  /\ conv' = SubSeq(conv \o ts, Len(ts) + 1, Len(ts) + Window)
  /\ rows' = [p \in 1 .. Capacity |->
                IF p \in (next_pos + 1) .. upto THEN ts[p - next_pos] ELSE rows[p]]
  /\ blocks' = [b \in DOMAIN blocks |->
                  IF b \in (next_pos \div Ratio + 1) .. (upto \div Ratio)
                    THEN Pool(rows', b) ELSE blocks[b]]
  /\ r' = [j \in 1 .. Len(ts) |-> old \o SubSeq(ts, 1, j)]

\* What forward checks before it changes anything.
Admitted(ts) ==
  /\ Valid
  /\ Len(ts) <= MaxTokens
  /\ Len(ts) <= Capacity - next_pos

\* The whole append: read the n-grams, run the command, publish, commit.
Forward(ts, capture) ==
  /\ Admitted(ts)
  /\ ~changed /\ ngram.pos = next_pos /\ ngram.epoch = session.epoch
  /\ session.pos = next_pos
  /\ Kernels(ts, capture)
  /\ session' = [session EXCEPT !.pos = next_pos + Len(ts)]
  /\ ngram' = [ngram EXCEPT !.pos = @ + Len(ts),
                 !.previous = [i \in 1 .. NgramHistory |->
                   IF i <= Len(ts) THEN ts[Len(ts) + 1 - i]
                                   ELSE @[i - Len(ts)]]]
  /\ last_start' = next_pos /\ last_count' = Len(ts)
  /\ next_pos' = next_pos + Len(ts)
  /\ log' = log \o ts
  /\ UNCHANGED <<valid, snapshot_serial, changed, state_buf, snap_buf, history_buf,
                 restores, predictor>>

\* Every failure after admission poisons the graph, wherever it happens. The
\* kernels have then run in part: not at all and completely stand for that.
SomeKernels(ts, capture) == Kernels(ts, capture) \/ UNCHANGED <<mem, device>>

\* The n-gram read fails, or sees that the file changed, or no command is begun.
FailedBefore ==
  /\ changed' \in {changed, TRUE}
  /\ UNCHANGED <<session, mem, device>>

\* The encoding fails: the session is kept, or poisoned if a part was flushed.
FailedEncoding(ts, capture) ==
  \/ UNCHANGED <<session, mem, device>>
  \/ session' = [session EXCEPT !.usable = FALSE] /\ SomeKernels(ts, capture)

\* The session has published the rows, then a job's commit or the profile fails.
FailedAfter(ts, capture) ==
  /\ session' = [session EXCEPT !.pos = @ + Len(ts)]
  /\ Kernels(ts, capture)
  /\ changed' \in {changed, TRUE}

ForwardFailed(ts, capture) ==
  /\ Admitted(ts)
  /\ \/ FailedBefore
     \/ FailedEncoding(ts, capture) /\ UNCHANGED changed
     \/ FailedAfter(ts, capture)
  /\ valid' = FALSE
  /\ UNCHANGED <<next_pos, last_start, last_count, snapshot_serial, state_buf, snap_buf,
                 history_buf, ngram, restores, predictor, log>>

\* A refused append still ends the pending verify.
append_refused ==
  /\ verify' = NoVerify
  /\ UNCHANGED <<graph, session, gdn, device, hash, restores, predictor, log>>

append(ts) ==
  /\ Forward(ts, FALSE) \/ ForwardFailed(ts, FALSE)
  /\ verify' = NoVerify

\* layers < trunk_blocks, for diagnosis: a fresh graph, unusable afterwards.
append_prefix(ts) ==
  /\ Admitted(ts) /\ next_pos = 0
  /\ ~changed
  /\ Kernels(ts, FALSE)
  /\ session' = [session EXCEPT !.pos = @ + Len(ts)]
  /\ valid' = FALSE
  /\ verify' = NoVerify
  /\ UNCHANGED <<next_pos, last_start, last_count, snapshot_serial, state_buf, snap_buf,
                 history_buf, hash, restores, predictor, log>>

-----------------------------------------------------------------------------
(* Speculative verify                                                      *)

verify_append(ts) ==
  /\ mtp.enabled
  /\ Len(ts) \in 2 .. VerifyRows
  /\ \/ /\ Forward(ts, TRUE)
        /\ verify' = [rows |-> Len(ts), start |-> next_pos, epoch |-> session.epoch, tokens |-> ts,
                      conv_ext |-> conv \o ts, ple_prev |-> ngram.previous]
     \/ /\ ForwardFailed(ts, TRUE)
        /\ verify' = NoVerify

Pending ==
  /\ Valid
  /\ verify.rows > 0
  /\ session.epoch = verify.epoch
  /\ last_start = verify.start /\ last_count = verify.rows
  /\ next_pos = verify.start + verify.rows

\* q38g_session_rewind.
SessionRewind(p) ==
  /\ session.usable
  /\ p <= session.pos /\ session.pos - p <= RewindWindow
  /\ session.epoch < MaxEpoch
  /\ session' = [session EXCEPT !.epoch = @ + 1, !.pos = p]

\* The state buffer and the snapshot swap roles, in the histories list too.
KeepState(k) ==
  /\ state_buf' = snap_buf[k]
  /\ snap_buf' = [snap_buf EXCEPT ![k] = state_buf]
  /\ history_buf' = IF history_buf = state_buf THEN snap_buf[k] ELSE history_buf

\* Mutant: the window that ends one row early.
KeptWindow_early(k) == SubSeq(verify.conv_ext, k, k + Window - 1)

\* The window that ends at the last kept row.
KeptWindow(k) == SubSeq(verify.conv_ext, k + 1, k + Window)

\* Mutant: the n-gram state keeps the epoch of the verify.
KeptNgram_stale(k) ==
  [epoch |-> verify.epoch, pos |-> verify.start + k,
   previous |-> [i \in 1 .. NgramHistory |->
      IF i <= k THEN verify.tokens[k + 1 - i] ELSE verify.ple_prev[i - k]]]

KeptNgram(k) ==
  [epoch |-> session'.epoch, pos |-> verify.start + k,
   previous |-> [i \in 1 .. NgramHistory |->
      IF i <= k THEN verify.tokens[k + 1 - i] ELSE verify.ple_prev[i - k]]]

\* Mutant: the rows that were dropped stay on offer to the predictor.
KeptRows_all(k) == verify.rows

\* Residual rows of the append that remain.
KeptRows(k) == k

\* Keeps the first k rows of the pending verify, without replay.
keep(k) ==
  /\ Pending /\ k \in 1 .. verify.rows
  /\ verify' = NoVerify
  /\ IF k = verify.rows \/ session.epoch = MaxEpoch
       THEN UNCHANGED <<graph, session, gdn, device, hash, log>>
       ELSE
         /\ snapshot_serial < MaxSerial
         /\ SessionRewind(verify.start + k)
         /\ KeepState(k)
         /\ conv' = KeptWindow(k)
         /\ ngram' = KeptNgram(k)
         /\ next_pos' = verify.start + k
         /\ last_count' = KeptRows(k)
         /\ snapshot_serial' = snapshot_serial + 1
         /\ log' = SubSeq(log, 1, verify.start + k)
         /\ UNCHANGED <<valid, last_start, mem, rows, blocks, r, changed>>
  /\ UNCHANGED <<restores, predictor>>

-----------------------------------------------------------------------------
(* Checkpoint                                                              *)

\* The buffers of the histories list, the residual and the n-gram tokens.
save ==
  /\ Valid
  /\ snapshot_serial < MaxSerial
  /\ snapshot_serial' = snapshot_serial + 1
  /\ snapshot' = [state |-> mem[history_buf], conv |-> conv, rows |-> rows,
                  blocks |-> blocks, r |-> r, previous |-> ngram.previous,
                  start |-> last_start, count |-> last_count]
  /\ saved' = [epoch |-> session.epoch, serial |-> snapshot_serial + 1,
               position |-> next_pos, mtp_position |-> MtpPos]
  /\ issued' = issued \cup {[handle |-> saved', log |-> log, pairs |-> pairs]}
  /\ UNCHANGED <<valid, next_pos, last_start, last_count, session, gdn, device, hash,
                 verify, predictor, log>>

\* Only the last save, with no reset, restore or dropped row since.
Fresh(h) ==
  /\ h.epoch = session.epoch /\ h.serial = snapshot_serial
  /\ h.position = saved.position /\ h.mtp_position = saved.mtp_position

\* Mutant: the residual rows come back without the append they belong to.
Transfer_rows_only ==
  /\ mem' = [mem EXCEPT ![history_buf] = snapshot.state]
  /\ conv' = snapshot.conv /\ rows' = snapshot.rows /\ blocks' = snapshot.blocks
  /\ r' = snapshot.r
  /\ UNCHANGED <<last_start, last_count>>

Transfer ==
  /\ mem' = [mem EXCEPT ![history_buf] = snapshot.state]
  /\ conv' = snapshot.conv /\ rows' = snapshot.rows /\ blocks' = snapshot.blocks
  /\ r' = snapshot.r
  /\ last_start' = snapshot.start /\ last_count' = snapshot.count

restore(s) ==
  /\ Fresh(s.handle)
  /\ Valid
  /\ s.handle.position <= next_pos /\ next_pos - s.handle.position <= RestoreWindow
  /\ s.handle.mtp_position = MtpPos
  /\ SessionRewind(s.handle.position)
  /\ ~changed
  /\ snapshot_serial < MaxSerial
  /\ Transfer
  /\ ngram' = [epoch |-> session'.epoch, pos |-> s.handle.position,
               previous |-> snapshot.previous]
  /\ next_pos' = s.handle.position
  /\ snapshot_serial' = snapshot_serial + 1
  /\ log' = s.log
  /\ UNCHANGED <<valid, state_buf, snap_buf, history_buf, changed, verify, restores,
                 predictor>>

-----------------------------------------------------------------------------
(* Reset                                                                   *)

\* Mutant: the session is reset under the epoch it had.
ResetSession_same_epoch ==
  session.epoch < MaxEpoch /\ session' = [session EXCEPT !.pos = 0, !.usable = TRUE]

ResetSession ==
  /\ session.epoch < MaxEpoch
  /\ session' = [epoch |-> session.epoch + 1, pos |-> 0, usable |-> TRUE]

\* Every buffer of the histories list is zeroed; the snapshots are not.
reset ==
  /\ ~mtp.failed
  /\ ResetSession /\ ~changed
  /\ snapshot_serial < MaxSerial
  /\ mem' = [mem EXCEPT ![history_buf] = <<>>]
  /\ conv' = LastRows(<<>>) /\ rows' = EmptyRows /\ blocks' = EmptyBlocks
  /\ ngram' = [epoch |-> session'.epoch, pos |-> 0, previous |-> Newest(<<>>)]
  /\ next_pos' = 0 /\ last_count' = 0
  /\ snapshot_serial' = snapshot_serial + 1
  /\ verify' = NoVerify
  /\ mtp' = [mtp EXCEPT !.usable = TRUE, !.last_rows = 0]
  /\ pairs' = <<>>
  /\ valid' = TRUE
  /\ log' = <<>>
  /\ UNCHANGED <<last_start, state_buf, snap_buf, history_buf, r, changed, restores>>

\* The epoch is exhausted, or the n-gram store wants to be reopened: the graph
\* is left invalid, with the sessions reset in the second case.
reset_failed ==
  /\ ~mtp.failed
  /\ valid' = FALSE
  /\ \/ session.epoch = MaxEpoch /\ UNCHANGED <<session, pairs, mtp>>
     \/ changed /\ ResetSession
        /\ pairs' = <<>> /\ mtp' = [mtp EXCEPT !.usable = TRUE]
  /\ UNCHANGED <<next_pos, last_start, last_count, snapshot_serial, gdn, device, hash,
                 verify, restores, log>>

-----------------------------------------------------------------------------
(* The MTP predictor                                                       *)

mtp_enable ==
  /\ Valid /\ next_pos = 0 /\ ~mtp.enabled /\ ~mtp.failed
  /\ \/ mtp' = [mtp EXCEPT !.enabled = TRUE] /\ UNCHANGED valid
     \/ mtp' = [mtp EXCEPT !.failed = TRUE] /\ valid' = FALSE
  /\ UNCHANGED <<next_pos, last_start, last_count, snapshot_serial, session, gdn, device,
                 hash, verify, restores, pairs, log>>

\* One predictor append; any failure poisons both graphs.
PredictorAppend(new) ==
  /\ Len(new) \in 1 .. (Capacity - Len(pairs))
  /\ \/ /\ pairs' = pairs \o new
        /\ mtp' = [mtp EXCEPT !.last_rows = Len(new)]
        /\ UNCHANGED valid
     \/ /\ \E u \in {mtp.usable, FALSE} : mtp' = [mtp EXCEPT !.last_rows = 0, !.usable = u]
        /\ valid' = FALSE
        /\ UNCHANGED pairs
  /\ UNCHANGED <<next_pos, last_start, last_count, snapshot_serial, session, gdn, device,
                 hash, verify, restores, log>>

\* Mutant: any residual row of the last append, wherever the predictor stands.
mtp_append_anywhere(offset, ts) ==
  /\ MtpValid
  /\ offset + Len(ts) <= last_count
  /\ PredictorAppend([j \in 1 .. Len(ts) |-> [row |-> r[offset + j], token |-> ts[j]]])

\* Residual rows of the last append paired with the tokens that follow them.
mtp_append(offset, ts) ==
  /\ MtpValid
  /\ offset + Len(ts) <= last_count
  /\ Len(pairs) = last_start + offset
  /\ PredictorAppend([j \in 1 .. Len(ts) |-> [row |-> r[offset + j], token |-> ts[j]]])

mtp_chain(t) ==
  /\ MtpValid
  /\ mtp.last_rows > 0
  /\ PredictorAppend(<<[row |-> Own, token |-> t]>>)

\* Rewinds use up the epochs of the predictor's session, which are not counted
\* here: a reset may find them exhausted when it has reset the trunk's session.
reset_halfway ==
  /\ mtp.enabled
  /\ ResetSession
  /\ valid' = FALSE
  /\ UNCHANGED <<next_pos, last_start, last_count, snapshot_serial, gdn, device, hash,
                 verify, restores, predictor, log>>

mtp_rewind(p) ==
  /\ MtpValid
  /\ p < Len(pairs) /\ Len(pairs) - p <= RewindWindow
  /\ pairs' = SubSeq(pairs, 1, p)
  /\ mtp' = [mtp EXCEPT !.last_rows = 0]
  /\ UNCHANGED <<graph, session, gdn, device, hash, verify, restores, log>>

-----------------------------------------------------------------------------
Trunk ==
  \/ \E ts \in Appends(MaxTokens) :
       append(ts) \/ append_prefix(ts) \/ verify_append(ts)
  \/ append_refused
  \/ \E k \in 1 .. VerifyRows : keep(k)
  \/ save
  \/ \E s \in issued : restore(s)
  \/ reset \/ reset_failed

Predictor ==
  \/ mtp_enable
  \/ \E ts \in Appends(MaxTokens), offset \in 0 .. MaxTokens : mtp_append(offset, ts)
  \/ \E t \in Token : mtp_chain(t)
  \/ \E p \in 0 .. Capacity : mtp_rewind(p)
  \/ reset_halfway

Next == Trunk \/ Predictor
Spec == Init /\ [][Next]_vars

\* A caller that enables the predictor for its verifies and never feeds it.
TrunkSpec == Init /\ [][Trunk \/ mtp_enable]_vars

-----------------------------------------------------------------------------
(* Properties                                                              *)

TypeOK ==
  /\ valid \in BOOLEAN /\ changed \in BOOLEAN
  /\ next_pos \in 0 .. Capacity /\ last_start \in 0 .. Capacity
  /\ last_count \in 0 .. MaxTokens
  /\ snapshot_serial \in 0 .. MaxSerial
  /\ session \in [epoch : 1 .. MaxEpoch, pos : 0 .. Capacity, usable : BOOLEAN]
  /\ \A b \in Buffers : Len(mem[b]) <= Capacity
  /\ {state_buf} \cup {snap_buf[j] : j \in 1 .. (VerifyRows - 1)} = Buffers
  /\ history_buf = state_buf
  /\ verify.rows \in 0 .. VerifyRows
  /\ Len(pairs) <= Capacity

\* The state of a valid graph is exactly that of one fresh pass over the tokens
\* published: whatever was verified, kept in part, saved, restored, reset or
\* poisoned before has left nothing in any history.
HistoryExact ==
  valid =>
    /\ next_pos = Len(log)
    /\ mem[state_buf] = log
    /\ conv = LastRows(log)
    /\ \A p \in 1 .. next_pos : rows[p] = log[p]
    /\ \A b \in 1 .. (next_pos \div Ratio) : blocks[b] = Pool(log, b)
    /\ ngram.previous = Newest(log)

\* A valid graph can go on: graph, session and n-gram state agree, so that the
\* next append is refused neither by the session nor by the n-gram store.
StatesAgree ==
  valid =>
    /\ session.usable /\ ~changed
    /\ session.pos = next_pos
    /\ ngram.pos = next_pos /\ ngram.epoch = session.epoch

\* The residual rows offered to the predictor are those of the last rows kept.
ResidualMatch ==
  valid /\ last_count > 0 =>
    /\ last_start + last_count = next_pos
    /\ \A j \in 1 .. last_count : r[j] = SubSeq(log, 1, last_start + j)

\* A call either cuts the predictor's cache at its end or adds pairs to it, and
\* the pairs it adds join a row of the predictor's own or that of the text the
\* graph holds then, at the position of the pair: never a row left over from a
\* text that keep, restore or reset has dropped, nor one of another position.
\* What was fed before may outlive its text: a restore does not look at it.
Feeds ==
  \/ \E n \in 0 .. Len(pairs) : pairs' = SubSeq(pairs, 1, n)
  \/ /\ Len(pairs) <= Len(pairs') /\ SubSeq(pairs', 1, Len(pairs)) = pairs
     /\ \A p \in (Len(pairs) + 1) .. Len(pairs') :
          \/ pairs'[p].row = Own
          \/ p <= Len(log) /\ pairs'[p].row = SubSeq(log, 1, p)
FedFromText == [][Feeds]_pairs

\* Towards its session the graph is a user of an append-only log.
Log == INSTANCE AppendLog
         WITH pos <- session.pos, usable <- session.usable, era <- session.epoch
SessionIsLog == Log!Spec

\* Towards the program the graph is a text with a predictor beside it: what the
\* calls promise, TokenGraph, is all that can be seen of the histories.
Calls == INSTANCE TokenGraph
           WITH valid <- Valid, enabled <- mtp.enabled,
                text <- log, first <- last_start, count <- last_count,
                partner <- [p \in 1 .. Len(pairs) |-> pairs[p].token],
                chained <- mtp.last_rows,
                pending <- IF Pending THEN verify.rows ELSE 0
IsTokenGraph == Calls!GSpec

\* A restore finds the predictor as the save left it.
RestoreKeepsPredictor ==
  [][\A s \in issued : restore(s) => pairs = s.pairs]_vars
=============================================================================
