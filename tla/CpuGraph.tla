-------------------------------- MODULE CpuGraph --------------------------------
(***************************************************************************)
(* The reference graph on the CPU (src/qwen38_forward.c) with the state of *)
(* every layer: the gated delta rule's block (qwen38_gdn.c), the cache and *)
(* the ticket of sparse attention (qwen38_attention.c), the n-gram job of  *)
(* the per-layer embedding (as NgramStore describes it), and the workspace *)
(* of the experts (qwen38_moe.c).                                          *)
(*                                                                         *)
(* A call appends a chunk layer by layer and may fail at every operator,   *)
(* some of whose states are advanced in place and some only at the end.    *)
(* The file of the n-gram table may be rewritten between two operators.    *)
(* A row is the term it was computed from, so that two rows agree only if  *)
(* the same operators saw the same rows.                                   *)
(***************************************************************************)
EXTENDS Recurrent, FiniteSets

CONSTANTS
  Layers,      \* the trunk: [kind: "gdn" or "qsa", ple: BOOLEAN]
  Vocabulary,
  Order,       \* of the n-grams
  Eos,
  ChunkTokens, \* max_tokens: the largest append
  Context,     \* capacity
  Ratio        \* tokens of one block of keys

ASSUME CpuGraphAssumption ==
  /\ Layers \in Seq([kind : {"gdn", "qsa"}, ple : BOOLEAN])
  /\ Order \in Nat \ {0, 1} /\ Ratio \in Nat \ {0}
  /\ Context \in Nat /\ ChunkTokens \in 1 .. Context

VARIABLES
  f,        \* the session: epoch, next_pos, valid
  gdn, att, ple, job, moe_failed,  \* per layer
  rewritten,  \* the table is no longer the file that was opened
  changed,    \* per layer: its n-gram store has noticed
  call,     \* the append in progress
  told,     \* history: tokens appended since the last reset
  logits    \* history: what the last append returned

states == <<gdn, att, ple, job, moe_failed, changed>>
vars   == <<f, states, rewritten, call, told, logits>>

Trunk == 1 .. Len(Layers)
Gdn   == {i \in Trunk : Layers[i].kind = "gdn"}
Qsa   == Trunk \ Gdn
Ple   == {i \in Trunk : Layers[i].ple}

Hash  == INSTANCE NgramIds WITH Mix <- LAMBDA a, b : a, Int64Max <- 0, Int32Max <- 0
Grams == [order |-> Order]
EmptyText == [j \in 1 .. Order - 1 |-> Eos]

FreshGdn(e) == [conv |-> state_init(e, Zeros), scan |-> state_init(e, <<>>),
                valid |-> TRUE, busy |-> FALSE, epoch |-> e]
NoTicket    == [active |-> FALSE]
FreshAtt(e) == [next_pos |-> 0, valid |-> TRUE, busy |-> FALSE, epoch |-> e,
                cache |-> [p \in 1 .. Context |-> Zero],
                blocks |-> [b \in 1 .. Context \div Ratio |-> Zero], ticket |-> NoTicket]
FreshPle(e) == [conv |-> state_init(e, Zeros), prev |-> EmptyText, next_pos |-> 0,
                valid |-> TRUE, busy |-> FALSE, epoch |-> e]
NoJob       == [phase |-> "none"]
Idle        == [at |-> 0, stage |-> "idle"]

Init ==
  /\ f = [epoch |-> 1, next_pos |-> 0, valid |-> TRUE]
  /\ gdn = [i \in Gdn |-> FreshGdn(1)]
  /\ att = [i \in Qsa |-> FreshAtt(1)]
  /\ ple = [i \in Ple |-> FreshPle(1)] /\ job = [i \in Ple |-> NoJob]
  /\ changed = [i \in Ple |-> FALSE] /\ rewritten = FALSE
  /\ moe_failed = [i \in Trunk |-> FALSE]
  /\ call = Idle /\ told = <<>> /\ logits = <<>>

-----------------------------------------------------------------------------
(* Operators over a chunk x of rows that begins at position pos. What they *)
(* add to the residual is paired with it.                                  *)

Add(x, y) == [t \in 1 .. Len(x) |-> <<x[t], y[t]>>]
Embed(ts) == [t \in 1 .. Len(ts) |-> <<ts[t]>>]

\* The n-gram rows of a chunk after the tokens prev.
Rows(prev, ts) ==
  [t \in 1 .. Len(ts) |-> <<ts[t]>> \o [j \in 1 .. Order - 1 |-> Hash!Before(prev, ts, t, j)]]

\* q38c_block_cpu, with the operator that fails, if any.
GdnFailures == {"preflight", "projections", "conv", "prepare", "scan", "output"}
gdn_block(s, x, pos, failing) ==
  LET c == conv_causal(s.conv, x, pos, failing # "conv")
      g == gdn_scan(s.scan, c.out, pos, failing # "scan")
  IN
  IF \/ ~s.valid \/ failing = "preflight"
     \/ Append_status(s.conv, pos) # "ok" \/ Append_status(s.scan, pos) # "ok"
    THEN [ok |-> FALSE, s |-> s, out |-> x]
  ELSE CASE failing = "projections" -> [ok |-> FALSE, s |-> [s EXCEPT !.valid = FALSE], out |-> x]
         [] failing \in {"conv", "prepare"} ->
              [ok |-> FALSE, s |-> [s EXCEPT !.conv = c.s, !.valid = FALSE], out |-> x]
         [] failing \in {"scan", "output"} ->
              [ok |-> FALSE, s |-> [s EXCEPT !.conv = c.s, !.scan = g.s, !.valid = FALSE], out |-> x]
         [] OTHER -> [ok |-> TRUE, s |-> [s EXCEPT !.conv = c.s, !.scan = g.s], out |-> Add(x, g.out)]

\* Mutant: a block of keys is pooled from the rows of this chunk only.
Pooled_chunk(cache, b, pos) ==
  [r \in 1 .. Ratio |-> IF (b - 1) * Ratio + r > pos THEN cache[(b - 1) * Ratio + r] ELSE Zero]

\* The mean of a complete block, of rows of this and of earlier chunks.
Pooled(cache, b, pos) == [r \in 1 .. Ratio |-> cache[(b - 1) * Ratio + r]]

\* The cache after rows x from position pos on: a block is pooled when full.
Cached(s, x, pos) ==
  LET end   == pos + Len(x)
      cache == [p \in 1 .. Context |-> IF p \in pos + 1 .. end THEN x[p - pos] ELSE s.cache[p]]
  IN  [s EXCEPT !.cache = cache,
                !.blocks = [b \in 1 .. Context \div Ratio |->
                              IF b * Ratio \in pos + 1 .. end THEN Pooled(cache, b, pos) ELSE s.blocks[b]]]

\* A row scores every complete block and attends to rows up to its own.
Attended(s, p) == <<SubSeq(s.blocks, 1, p \div Ratio), SubSeq(s.cache, 1, p)>>

attention_begin_status(s, pos, n, epoch) ==
  IF epoch # s.epoch THEN "stale"
  ELSE IF s.busy THEN "busy"
  ELSE IF ~s.valid \/ pos # s.next_pos THEN "bad_state"
  ELSE IF n > ChunkTokens \/ n > Context - pos THEN "capacity"
  ELSE "ok"

attention_begin(s, n, epoch) ==
  [s EXCEPT !.busy = TRUE,
            !.ticket = [active |-> TRUE, tokens |-> n, epoch |-> epoch, computed |-> n = 0]]

\* attention_cpu and what follows it; "rows" fails after m rows are written.
QsaFailures == {"before", "admission", "rows", "after"}
qsa_block(s, x, pos, epoch, failing, m) ==
  LET b == attention_begin(s, Len(x), epoch)
      c == Cached(b, x, pos)
      done == [c EXCEPT !.ticket.computed = TRUE]
  IN
  IF failing = "before" \/ attention_begin_status(s, pos, Len(x), epoch) # "ok"
    THEN [ok |-> FALSE, s |-> s, out |-> x]
  ELSE CASE failing = "admission" -> [ok |-> FALSE, s |-> b, out |-> x]
         [] failing = "rows" ->
              [ok |-> FALSE, s |-> [Cached(b, SubSeq(x, 1, m), pos) EXCEPT !.valid = FALSE], out |-> x]
         [] failing = "after" -> [ok |-> FALSE, s |-> done, out |-> x]
         [] OTHER -> [ok |-> TRUE, s |-> done,
                      out |-> Add(x, [t \in 1 .. Len(x) |-> Attended(done, pos + t)])]

\* Mutant: a ticket that failed is not closed.
attention_finish_success_only(s, success) ==
  IF ~s.ticket.active \/ ~success THEN [ok |-> FALSE, s |-> [s EXCEPT !.valid = FALSE]]
  ELSE [ok |-> TRUE, s |-> [s EXCEPT !.next_pos = @ + s.ticket.tokens, !.busy = FALSE,
                                     !.ticket = NoTicket]]

attention_finish(s, success) ==
  IF \/ ~s.ticket.active \/ s.ticket.epoch # s.epoch
     \/ success /\ (~s.ticket.computed \/ ~s.valid)
    THEN [ok |-> FALSE, s |-> s]
    ELSE [ok |-> TRUE,
          s |-> [s EXCEPT !.next_pos = IF success THEN @ + s.ticket.tokens ELSE @,
                          !.valid = @ /\ success, !.busy = FALSE, !.ticket = NoTicket]]

-----------------------------------------------------------------------------
(* The append, operator by operator                                        *)

Running(stage) == call.stage = stage
Fail(l)        == [call EXCEPT !.stage = "finish", !.ok = FALSE]

Admitted(ts, n) ==
  /\ f.valid
  /\ n < Len(Layers) => f.next_pos = 0
  /\ Len(ts) <= Context - f.next_pos

forward_cpu(ts, n, rows) ==
  /\ Running("idle")
  /\ Admitted(ts, n)
  /\ call' = [at |-> 1, stage |-> IF n = 0 THEN "head" ELSE "ple", tokens |-> ts, layers |-> n,
              rows |-> rows, x |-> Embed(ts), ok |-> TRUE]
  /\ UNCHANGED <<f, states, rewritten, told, logits>>

\* ple_cpu: prepare, read, Delta on the candidate, sum.
ple_layer ==
  LET i == call.at
      s == ple[i]
      j == [phase |-> "computed", next |-> Hash!Next_prev(Grams, s.prev, call.tokens),
            candidate |-> s.conv, tokens |-> Len(call.tokens)]
      c == conv_causal(s.conv, Rows(s.prev, call.tokens), f.next_pos, TRUE)
      begun(phase, candidate) ==
        /\ job' = [job EXCEPT ![i] = [j EXCEPT !.phase = phase, !.candidate = candidate]]
        /\ ple' = [ple EXCEPT ![i].busy = TRUE]
  IN
  /\ Running("ple") /\ i \in Ple
  /\ \/ call' = Fail(i) /\ UNCHANGED <<ple, job, changed>>           \* prepare
     \/ /\ s.valid /\ ~changed[i] /\ s.next_pos = f.next_pos
        /\ \/ /\ begun("aborted", s.conv)                            \* read, projections
              /\ changed' = [changed EXCEPT ![i] = rewritten]
              /\ call' = Fail(i)
           \/ /\ ~rewritten /\ c.status = "ok"
              /\ \/ begun("aborted", c.s) /\ call' = Fail(i)         \* overflow in Delta
                 \/ begun("computed", c.s) /\ call' = Fail(i)        \* overflow in the sum
                 \/ /\ begun("computed", c.s)
                    /\ call' = [call EXCEPT !.stage = "mixer", !.x = Add(@, c.out)]
              /\ UNCHANGED changed
  /\ UNCHANGED <<f, gdn, att, moe_failed, rewritten, told, logits>>

no_ple_layer ==
  /\ Running("ple") /\ call.at \notin Ple
  /\ call' = [call EXCEPT !.stage = "mixer"]
  /\ UNCHANGED <<f, states, rewritten, told, logits>>

After(r) == IF r.ok THEN [call EXCEPT !.stage = "ffn", !.x = r.out] ELSE Fail(call.at)

gdn_layer ==
  /\ Running("mixer") /\ call.at \in Gdn
  /\ \E failing \in GdnFailures \cup {"none"} :
       LET r == gdn_block(gdn[call.at], call.x, f.next_pos, failing)
       IN  gdn' = [gdn EXCEPT ![call.at] = r.s] /\ call' = After(r)
  /\ UNCHANGED <<f, att, ple, job, moe_failed, changed, rewritten, told, logits>>

qsa_layer ==
  /\ Running("mixer") /\ call.at \in Qsa
  /\ \E failing \in QsaFailures \cup {"none"}, m \in 0 .. Len(call.x) :
       LET r == qsa_block(att[call.at], call.x, f.next_pos, f.epoch, failing, m)
       IN  att' = [att EXCEPT ![call.at] = r.s] /\ call' = After(r)
  /\ UNCHANGED <<f, gdn, ple, job, moe_failed, changed, rewritten, told, logits>>

\* The experts are a function of the row; a batch that fails marks the workspace.
ffn_layer ==
  LET i == call.at IN
  /\ Running("ffn")
  /\ \/ call' = Fail(i) /\ UNCHANGED moe_failed
     \/ ~moe_failed[i] /\ call' = Fail(i) /\ moe_failed' = [moe_failed EXCEPT ![i] = TRUE]
     \/ /\ ~moe_failed[i]
        /\ call' = [call EXCEPT !.at = i + 1, !.stage = IF i = call.layers THEN "head" ELSE "ple"]
        /\ UNCHANGED moe_failed
  /\ UNCHANGED <<f, gdn, att, ple, job, changed, rewritten, told, logits>>

\* The output mixer and the head, over the last rows asked for.
head ==
  /\ Running("head")
  /\ \/ call' = Fail(0) /\ UNCHANGED logits
     \/ /\ call' = [call EXCEPT !.stage = "finish"]
        /\ logits' = SubSeq(call.x, Len(call.x) - call.rows + 1, Len(call.x))
  /\ UNCHANGED <<f, states, rewritten, told>>

\* Only a whole pass commits.
Commits == call.ok /\ call.layers = Len(Layers)

\* qwen38_ngram_commit of the job of layer i looks at the file once more.
JobCommits(i) == Commits /\ job[i].phase = "computed" /\ ~changed[i] /\ ~rewritten

\* finish: every ticket and job is closed, whatever fails.
finish ==
  LET closed(i) == attention_finish(att[i], Commits)
      open      == {i \in Qsa : att[i].ticket.active}
      jobs      == {i \in Ple : job[i] # NoJob}
      ok        == /\ call.ok
                   /\ \A i \in open : closed(i).ok
                   /\ Commits => \A i \in jobs : JobCommits(i)
                   /\ ~Commits => \A i \in jobs : ~changed[i]
  IN
  /\ Running("finish")
  /\ att' = [i \in Qsa |-> IF i \in open THEN closed(i).s ELSE att[i]]
  /\ ple' = [i \in Ple |->
       IF i \notin jobs THEN ple[i]
       ELSE IF JobCommits(i)
         THEN [ple[i] EXCEPT !.busy = FALSE, !.prev = job[i].next, !.next_pos = @ + job[i].tokens,
                             !.conv = conv_state_copy(@, job[i].candidate).s]
         ELSE [ple[i] EXCEPT !.busy = FALSE]]
  /\ changed' = [i \in Ple |-> changed[i] \/ (i \in jobs /\ Commits /\ rewritten)]
  /\ job' = [i \in Ple |-> NoJob]
  /\ IF ok /\ call.layers = Len(Layers)
       THEN f' = [f EXCEPT !.next_pos = @ + Len(call.tokens)] /\ told' = told \o call.tokens
       ELSE f' = [f EXCEPT !.valid = FALSE] /\ UNCHANGED told
  /\ call' = Idle
  /\ UNCHANGED <<gdn, moe_failed, rewritten, logits>>

-----------------------------------------------------------------------------
(* Reset                                                                   *)

block_reset(s, epoch) ==
  IF s.busy \/ s.epoch = StateEpochs \/ epoch <= s.epoch THEN [ok |-> FALSE, s |-> s]
  ELSE LET c == state_reset(s.conv, epoch, Zeros)
           g == state_reset(s.scan, epoch, <<>>)
       IN  [ok |-> c.status = "ok" /\ g.status = "ok",
            s |-> [conv |-> c.s, scan |-> g.s, valid |-> TRUE, busy |-> FALSE, epoch |-> epoch]]

\* The old rows stay in memory; only the length says which are valid.
attention_reset(s, epoch) ==
  IF s.busy \/ epoch <= s.epoch THEN [ok |-> FALSE, s |-> s]
  ELSE [ok |-> TRUE, s |-> [s EXCEPT !.epoch = epoch, !.next_pos = 0, !.valid = TRUE]]

ngram_state_reset(i, epoch) ==
  LET c == state_reset(ple[i].conv, epoch, Zeros) IN
  IF ple[i].busy \/ changed[i] \/ c.status # "ok" THEN [ok |-> FALSE, s |-> ple[i]]
  ELSE [ok |-> TRUE, s |-> FreshPle(epoch)]

\* Layer after layer, kind after kind, up to the first that refuses: then the
\* epochs differ, and the session stays unusable.
forward_reset ==
  LET e     == f.epoch + 1
      g(i)  == block_reset(gdn[i], e)
      p(i)  == ngram_state_reset(i, e)
      a(i)  == attention_reset(att[i], e)
      gs    == \A i \in Gdn : g(i).ok
      ps    == gs /\ \A i \in Ple : p(i).ok
      as    == ps /\ \A i \in Qsa : a(i).ok
  IN
  /\ Running("idle")
  /\ f.epoch < StateEpochs
  /\ gdn' = [i \in Gdn |-> IF \A j \in Gdn : j < i => g(j).ok THEN g(i).s ELSE gdn[i]]
  /\ ple' = [i \in Ple |-> IF gs /\ \A j \in Ple : j < i => p(j).ok THEN p(i).s ELSE ple[i]]
  /\ att' = [i \in Qsa |-> IF ps /\ \A j \in Qsa : j < i => a(j).ok THEN a(i).s ELSE att[i]]
  /\ IF as THEN f' = [epoch |-> e, next_pos |-> 0, valid |-> TRUE] /\ told' = <<>>
           ELSE f' = [f EXCEPT !.valid = FALSE] /\ UNCHANGED told
  /\ logits' = <<>>
  /\ UNCHANGED <<job, moe_failed, changed, rewritten, call>>

rewrite ==
  /\ ~rewritten /\ rewritten' = TRUE
  /\ UNCHANGED <<f, states, call, told, logits>>

Chunks == UNION {[1 .. n -> Vocabulary] : n \in 1 .. ChunkTokens}

Next ==
  \/ \E ts \in Chunks, n \in 0 .. Len(Layers) : \E rows \in 0 .. Len(ts) : forward_cpu(ts, n, rows)
  \/ ple_layer \/ no_ple_layer \/ gdn_layer \/ qsa_layer \/ ffn_layer \/ head \/ finish
  \/ forward_reset
  \/ rewrite

Spec == Init /\ [][Next]_vars

-----------------------------------------------------------------------------
(* One pass over a text, on fresh states                                   *)

PleOut(x, text) == Add(x, conv_causal(FreshPle(1).conv, Rows(EmptyText, text), 0, TRUE).out)
Mixer(i, x) ==
  IF i \in Gdn THEN gdn_block(FreshGdn(1), x, 0, "none")
  ELSE LET s == Cached(FreshAtt(1), x, 0)
       IN  [s |-> s, out |-> Add(x, [t \in 1 .. Len(x) |-> Attended(s, t)])]
Entering(text) ==
  LET in[i \in 0 .. Len(Layers)] ==
        IF i = 0 THEN Embed(text)
        ELSE Mixer(i, IF i \in Ple THEN PleOut(in[i - 1], text) ELSE in[i - 1]).out
  IN  in
Mixed(i, text) ==
  LET x == Entering(text)[i - 1]
  IN  Mixer(i, IF i \in Ple THEN PleOut(x, text) ELSE x).s

\* Between calls, a session that may be used holds in every layer exactly what
\* one pass over its tokens leaves, under one epoch and at one position: after
\* chunks of any size, failed and partial passes and resets.
StatesFollowText ==
  Running("idle") /\ f.valid =>
    /\ f.next_pos = Len(told)
    /\ \A i \in Gdn : /\ gdn[i].valid /\ gdn[i].epoch = f.epoch
                      /\ gdn[i].conv.next_pos = f.next_pos /\ gdn[i].scan.next_pos = f.next_pos
                      /\ gdn[i].conv.data = Mixed(i, told).conv.data
                      /\ gdn[i].scan.data = Mixed(i, told).scan.data
    /\ \A i \in Qsa : /\ att[i].valid /\ att[i].epoch = f.epoch /\ att[i].next_pos = f.next_pos
                      /\ Attended(att[i], f.next_pos) = Attended(Mixed(i, told), f.next_pos)
    /\ \A i \in Ple : /\ ple[i].valid /\ ple[i].epoch = f.epoch /\ ple[i].next_pos = f.next_pos
                      /\ ple[i].prev = Hash!Next_prev(Grams, EmptyText, told)
                      /\ ple[i].conv.data =
                           conv_causal(FreshPle(1).conv, Rows(EmptyText, told), 0, TRUE).s.data

\* A call leaves no ticket, no job and no busy state behind, whatever failed:
\* the next reset can never be refused for it.
NothingLeftOpen ==
  Running("idle") =>
    /\ \A i \in Qsa : ~att[i].busy /\ ~att[i].ticket.active
    /\ \A i \in Ple : ~ple[i].busy /\ job[i] = NoJob

\* Logits are those of the last tokens of one pass over the whole text.
LogitsAreOneShot ==
  Running("idle") /\ f.valid /\ told # <<>> =>
    logits = SubSeq(Entering(told)[Len(Layers)], Len(told) - Len(logits) + 1, Len(told))

\* qwen38_forward.h: a failure invalidates the session until reset. After a
\* reset every layer can run again.
ResetRecovers == Running("idle") /\ f.valid => \A i \in Trunk : ~moe_failed[i]
=============================================================================
