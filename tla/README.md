# Formal model of picoforge's Qwen3.8 engine

picoforge runs one large language model on one Mac. Its engine keeps a *stateful*
forward graph on the GPU (recurrent states, convolution windows, attention caches,
n-gram histories); text comes out right only if, after every call that was made,
refused, interrupted or undone, that state is exactly the state of one fresh pass
over the tokens the program believes it has processed. The TLA+ modules of this
directory model the protocols that keep it so, the server and the loops around them,
and the pure algorithms that text, weights and choices pass through. Floating point is
left out: what a buffer holds is represented by the tokens or rows it has absorbed.

Paths below are relative to the repository root; the engine is `src/`.

## 1. Inventory

| Component | State | Operations | Talks to | What is hard | What makes it correct |
|---|---|---|---|---|---|
| **GPU session** `qwen38_gpu.m` | ledger (state, epoch, next_pos, open ticket), command buffers, error word, claims, pins | begin, flush, submit, abort, finish, reset, rewind, destroy, claim, pin | Metal; the graph above it | the GPU runs early buffers while the host still encodes; partial failure; stale tickets | publishes only clean, complete commands; nothing survives a failure; tickets are good once |
| **GPU graph** `qwen38_forward_gpu.m` (+ `_attention_gpu.m`, `_ple_gpu.m`, `_recurrent_gpu.m`) | positions, validity, GDN state buffers and row snapshots, conv windows, QSA row/block caches, residual rows, checkpoint | forward (append), forward_argmax, verify, keep, checkpoint save/restore, reset, trace prefix | session, n-gram store, predictor | keep without replay (pointer swaps, windows), failures after publication, three positions moved one after the other, stale handles | a valid graph holds the state of one fresh pass; graph, session and n-gram agree |
| **MTP predictor** (same file) | own session and cache, rows of its last append | enable, mtp, chain, rewind | residual rows of the trunk's last append | pairs must line up across keep, restore and rewind | what a call feeds is rows of the text the graph holds then, each at its position |
| **N-gram store** `qwen38_ngram.c`, `qwen38_ple.c` | file identity, reader (plan, staging, values, generation), states, one job with a phase, byte budget | create, reset, prepare, read, rows, compute, commit, abort, release, close | file system; the graphs | leases on views, short and interrupted reads, file changed under the reader, allocation that fails half way | a lease never reads another batch; a changed file is refused for ever; a state holds one pass over what was committed; no byte is lost |
| **CPU graph** `qwen38_forward.c`, `_gdn.c`, `_conv.c`, `_attention.c`, `_moe.c`, `_packed.c` | the same histories, per layer; tickets, jobs, MoE work area | append, partial pass, finish, reset | n-gram store; tests | any operator of any layer may fail when some layers have moved in place and others only hold a ticket | published states are those of one pass; a failure leaves nothing open, and reset recovers |
| **Turn** `qwen38_cli.m` `q38_turn` | generated ids, pending pairs, confirmed predictor position, draft policy | prefill, greedy decode, speculative cycle | graph, stop flag | stop between any two calls; room at the end of the context | speculative text = plain greedy text; no precondition of the graph is ever violated |
| **REPL** `qwen38_repl.c` | transcript, last_count, stop flag | reply, /reset, /ctx, Ctrl+C, tag printer | turn, terminal signals | graph ahead of the transcript after a cancel; predictor behind | the graph holds a prefix of the transcript or is replayed |
| **Worker protocol** `qwen38_cli.m` | request on stdin, events on stdout, SIGUSR1 | G, R, Q | server | a stop for an earlier request | one done event per request |
| **Web server** `tools/ui/qwen38/server.py` | active request, process, event queue, mutexes, conversation | start, chat, stop, reset, drain, close | worker, HTTP clients | threads; deferred stop; client gone mid-stream; worker dies | a stop hits only its own request; no event leaks into the next one; every request ends |
| **Text** `qwen38_unicode.c`, `_bpe.c`, `_tokenizer.c`, `_chat.c` | carry bytes of a decoder; phase of the printer | load, encode, decode, render, print | turn, REPL | hand-coded look-ahead and backtracking; bytes cut anywhere; marks in any order | round trips; the trained segmentation; chunking changes nothing |
| **Model file** `gguf_reader.c`, `gguf.c`, `gguf_plan.c`, `qwen38_weights.c`, `qwen38_config.c` | a cursor; the catalog | open, plan, describe, attach, load | weights, session | boundaries of pages, tensors, integers | views cover every tensor and never the disk-only table; what is admitted cannot overflow |
| **Packed weights** `qwen38_packed.c`, `metal/qwen38_quant_decode.h` | none | layout, row decoding, products | both graphs | the same format decoded twice, by column and by chunk | both decoders read the same bits |
| **Tools** `qwen38_gpu_lock.py`, `eval/run_observed.py` | lock file; a child process | acquire with deadline, exec; poll, terminate, kill | OS | deadline races, a child that ignores SIGTERM | one GPU user; the child is always gone |
| **Metal kernels**, residency, profile | – | – | – | numerics, measurement | – |

The hazards this code is exposed to, each at its line and with the properties that
would catch it going wrong, are the `hazards` of `PROJECT.json`.

## 2. Modules

| Module | Models | Composed of |
|---|---|---|
| `AppendLog` | what a session promises: a position advanced only by whole commands, moved back only a few rows and under a new epoch, unusable from a failure to a reset | – |
| `GpuSession` | the ledger, the command buffers of one command and the error word; two actors, host and GPU | refines `AppendLog` |
| `SessionClaims` | the ranges a command may touch: claims, pinned weights, the lazily sorted pin table and its binary search, and the graph's `claim()` pass | extends `GpuSession` |
| `SessionClaimsProofs` | theorems about `GpuSession`, then about claims and pins | extends `SessionClaims` and `Facts` |
| `GpuGraph` | all calls of the transactional graph and of the predictor, for a caller that may do anything | uses `AppendLog` for its session; refines `TokenGraph` |
| `GpuGraphProofs` | theorems about `GpuGraph`: its histories, and that it implements `AppendLog` and `TokenGraph` | extends it and `Facts` |
| `TokenGraph` | what the graph promises its caller: a text and a predictor's pairs, and the precondition of every call | – |
| `Turn` | the caller: `q38_turn`, the chat around it, requests, the stop flag | extends `TokenGraph` |
| `TurnProofs` | theorems about `Turn` | extends it and `Facts` |
| `NgramIds` | the hash: which rows of the table a chunk looks up | – |
| `NgramReader` | the bounded reader: plan, staging, scatter, leases, a file that changes | – |
| `Recurrent` | the two recurrent histories on the CPU, as values | – |
| `RecurrentProofs` | lemmas about them: the window of the convolution over a text in two parts | extends it and `Facts` |
| `NgramStore` | states, the one job and its phases, workspaces, allocation | extends `NgramIds`, `NgramReader`, `Recurrent` |
| `NgramStoreProofs` | theorems about the reader's leases, `NgramStore`, and the configurations it is opened with | extends `NgramStore` and `RecurrentProofs`, uses `Config` |
| `CpuGraph` | the reference graph, operator by operator | extends `Recurrent`, uses `NgramIds` |
| `CpuGraphProofs` | theorems about `CpuGraph` | extends it and `RecurrentProofs` |
| `Server` | HTTP threads, loader thread, worker, pipes, signal | – |
| `ServerProofs` | theorems about `Server` | extends it and `Facts` |
| `Facts` | lemmas that several proofs cite: sequences, minima and maxima, recursive functions of a number | – |
| `Unicode`, `Bpe`, `Tokenizer` | UTF-8 and NFC; pre-tokenizer, merges, hash tables; added tokens, encode, decode, the streaming decoder | each extends the one before |
| `Chat`, `ToJson` | template, transcript and tag printer; JSON of a tree in a prompt | – |
| `GgufHeader`, `Gguf`, `Config` | header cursor; descriptors, view plan, catalog; configuration | – |
| `Packed`, `Moe` | layouts, decoders, admission of products; selection, routing, micro-batches | `Packed` extends `Gguf` |
| `JsonCases`, `PackedCases` | reference definitions and inputs for `ToJson` and `Packed` | extend them |
| `Algorithms` | inputs grown one item at a time, references and properties of all pure parts | extends them |

### GpuSession
One action per function of `qwen38_gpu.m`; `state`, `epoch`, `next_pos`, `open` are the
fields of `Qwen38GpuLedger`, `early`, `early_count`, `command` those of the session (a
buffer is `open`, `pending` once committed, then `ok` or `failed`). A call that only
returns an error is a stuttering step. A caller presents the open ticket or any ticket
that was published (`Presented`). `GpuRunEarly`/`GpuRunLast` are the GPU: committed
buffers end in queue order, each with or without a Metal error, each possibly setting
the error word. `content` and `torn` say what the kernels have left in the caller's
histories. `reset` and `rewind` include the restoring of these histories, which the
graph does in the same call.

`finish_refused` is a finish whose ticket the ledger refuses. The graph never does it,
so it is a step of `SpecAnyTicket` only (run `stray_finish`).

### SessionClaims
A range is `[ident, lo, hi)`; `ident` tells memory visible to the CPU (compared by
address) from private buffers. `order`/`PinHi` are the sorted table with its running
maximum of ends, rebuilt when `pins_sorted` is FALSE as in `overlaps_pin`. `phase` is the
caller's control: write claims, the pass over the weights (all or nothing), the run.

### GpuGraph
One action per call of `qwen38_forward_gpu.h`, since a call is synchronous and the graph
has one caller. One layer of each kind stands for all of that kind. A history is the
sequence of tokens it has absorbed: `mem` (one entry per GDN state buffer; `state_buf`,
`snap_buf` and `history_buf` are the pointers that keep swaps), `conv`, `rows`, `blocks`,
`r`, `ngram`. Every failure after admission leaves the graph invalid; its kernels have
run not at all or completely (`SomeKernels`), which brackets running in part, because no
property looks at an invalid graph's contents but only at what a later reset or restore
makes of them. `log` (what has been published) and `issued` (handles a caller may still
hold, with the log and predictor at that time) are history variables.

`IsTokenGraph` shows that a graph, failures included, does to the token positions only
what `TokenGraph` says. That the contents behind a position are right is `HistoryExact`.

### Turn
The program is sequential: `pc` is where it stands between two calls of the graph, and the
only other actor is the user, who types (`reply`, `forget`), requests (`serve`) and raises
the stop flag (`interrupt`) between any two steps. A step reads the flag where the code
does; a flag raised inside a step has the effect of one raised after it. A call of the
graph whose precondition does not hold ends the program (`q38_check`): `pc = "dead"`.
A failure of the machine also ends it and has no step.

Nothing is assumed of the model: `ReadBack` and `Judged` choose any argmax. A row of logits
carries the text it was computed from (`of`), so a row used for another text is seen. A
row of the predictor (`Draft`) belongs to no text. The policy's choice is any number of
drafts up to `Kmax`; a probe (`catch_up` with no draft) overwrites the logits as in the code.
`use_id` is the read-back of the id alone; with a logits file the row itself is read.
A request with `--stop-after` or `--max-new` 0 is included, the teacher-forced mode is not.

The code comment at `qwen38_repl.c:128-129` says that after a dropped message the graph is
ahead of the transcript and the next turn replays. With chunks of one token it may not be:
the first chunk is then the last token of the old reply, and the turn can be stopped with the
graph exactly at the end of the transcript and the predictor already paired with the first token
of the dropped message. `PredictorFollows` holds even so, because every later message begins with the
same closing token; the mutant `Suffix_bare` shows that it depends on it.

### NgramReader, NgramStore
`call` is the read in progress: a batch is put in *some* sorted order (`Orders`: qsort is not
stable), cut into intervals that fit the staging buffer (`Merges`, `IntervalEnd`), and each
interval is read by one or more `Transfer`s (short reads), decoded and scattered. `Modify`
rewrites the file between any two system calls; `unchanged` is what fstat tells. A unit read
carries the version of the file it was read from. `granted` is a history variable.
The store adds states, the one job (`prepare`, `read`/`reading`, `ple_cpu`, `commit`, `abort`,
`job_release` are the calls; a refusal is a stuttering step), the budget, and allocations that
fail after any prefix of their blocks. The residual is left out: the Delta of a token is the
window of rows its convolution reads, which is what chunking could get wrong. The GPU graph
uses the same calls through its own projection, so `GpuGraph` keeps only the job's outcome.

### Recurrent, CpuGraph
`Recurrent` gives what an operation on a convolution halo or a GDN state returns: a status, the
state it leaves (moved, untouched, or invalid) and its output. A row is the term it was computed
from, so that two rows are equal only if the same operators saw the same rows.
`CpuGraph` has one action per operator of `qwen38_forward_cpu` (n-gram embedding, mixer, experts, head,
`finish`) and `call` is where the append stands; every operator may fail in every way its code can,
having moved its own state or not (`GdnFailures`, `QsaFailures`). `n` and `rows` are the layers and logits
asked for. The file of the table may be rewritten between two operators, so `finish` may find
that a job no longer commits although every layer has succeeded. `told` and `logits` are history.

### Server
One action per statement of `server.py` that another thread can observe: a client's `do_POST`
is `pc[c]` with the locals of the request in `job` (only the holder of the mutex has any). The
loader thread moves lines from `stdout` to `events`. `press_stop` and `close` may be called at any
time; `show_fails` is a client that is gone; `worker_dies` may happen anywhere. The state is
read before the mutex is tried (`server.py:176-177`), against the intent of the comment at `:115-116`: a
request may thus be admitted after the worker has died. `RequestEnds` and
`QuietBetweenRequests` show that it is harmless: the write fails or the loader's last error answers.
`transcript` is a ghost: what users were shown.

### The pure parts
Every operator of `Unicode`, `Bpe`, `Tokenizer`, `Chat`, `ToJson`, `GgufHeader`, `Gguf`, `Config`, `Packed`,
`Moe` and `NgramIds` has the name of the function it models. `Algorithms` is a state machine whose states are inputs:
`Init` chooses a part, each action adds one item (a letter, a rule, a byte, a turn, a tensor, a damaged
byte), and the invariants compare the code's algorithm with a definition that does not use its loops:
the alternatives of the trained pattern, merge rules in training order, canonical ordering, the
template over the whole conversation, a JSON reader, sets of best scores, disjoint ranges, numbers.
Tables are samples: a few letters, marks and Hangul syllables stand for the Unicode
data, three added tokens for the 33, small tensors for large ones.
The comment at `qwen38_bpe.c:229` gives the pattern `[^\r\n\p{L}\p{N}]?\p{L}+`; the code (`:275`) counts
marks as letters, as the pattern of the model does (`docs/specs/qwen38/A.md:320`), and so does `Bpe`.

A reply is kept as it was generated (`repl.c:128-132`): it may end on either stop token, or be cut in its thought or its
answer by Ctrl+C or the limit. What the REPL sends next is then not always what the template renders of the parsed messages:
a reply cut in its thought is closed by `<|im_end|>` alone (`repl.c:66`) where the template writes `</think>` first, one
that ended with a space keeps it, and one that ended on `<|endoftext|>` keeps that too. `docs/devlog.md:575` describes this.
`TranscriptIsTheTemplate` therefore claims the whole text only if every reply is one the template can write (`Settled`), and in general that
every block but those of such replies is the template's. In a list of messages that begins with a
tool's answer the template itself opens no block for it (`loop.previtem and …`, `qwen38_chat.c:50`); the claim on lists leaves these out.
In `Gguf` the catalog has no 4 MiB budget (`qwen38_weights.c:148-152`), and `weights_attach` is called once, for the reader
the catalog was described from: the refusals for another one are left out.

## 3. Runs

| Run | Question | Bounds | Result |
|---|---|---|---|
| `gpu_session` | Under every interleaving of host and GPU, flushes, failures, replayed tickets: does the session stand on exactly what it published, honour no old ticket, keep no buffer when idle, implement `AppendLog`, and end every command? | Capacity 3, 3 epochs, 2 early buffers, rewind window 2 | holds, about 190 000 states |
| `stray_finish` | …and if finish is called with a refused ticket? | one position, epoch and early buffer | **violated** (finding 1) |
| `session_claims` | No aliased writes, pins all or nothing, claims held while a buffer runs | 7 ranges, 3 weights that overlap each other, 3 claims | holds |
| `gpu_trunk` | After any sequence of append, verify, keep, save, restore, reset and failures, is a valid graph in the state of one fresh pass, do the three positions agree, are the residual rows the right ones, is the session used as a log? | 2 tokens (symmetric), capacity 4, appends of 3, verify of 3, window 2, 3 epochs, 2 serials | holds, about 780 000 states |
| `gpu_predictor` | The predictor fed, chained and rewound anywhere between the calls of the trunk: is it fed only rows of the text the graph holds, each at its position, and does each call do what `TokenGraph` says? | 2 tokens (symmetric, so that a row of a dropped text can be told from one of its length), capacity 2, verify of 2, 2 serials | holds, about 250 000 states (also with 1 token and capacity 3) |
| `turn` | Chat turns and requests under any model, drafts and stop: is the text plain greedy text, is no call refused, does what is left fit the next turn, does every turn end? | 3 tokens (one ends a reply), capacity 7, verify of 3, chunks of 1 and 2, limits 0, 1, 4 | holds, about 340 000 states |
| `stale_predictor` | Does a restore find the predictor it saved? | 2 tokens | **violated** (finding 2) |
| `ngram_store` | With jobs begun, advanced and ended in any order, reads cut short, failing or racing a rewrite of the file, allocations that fail anywhere: does a lease serve its rows, a state hold one pass over what was committed, a job hand over the Delta of one pass, and every byte come back? | table of 6 rows (one not finite), staging of 2, batches of 4 ids, 3 generations, 2 versions of the file, jobs of 2 tokens, 3 tokens of text, 1 state, 1 workspace, a budget of exactly what these need | holds, about 1 020 000 states |
| `cpu_graph` | With chunks of any size, partial passes, any operator of any layer failing and the file rewritten: are published states and logits those of one pass, and does a failure leave nothing open? | layers GDN, attention with n-grams, GDN; 2 tokens, chunks of 2, context 3, blocks of 2, 3 epochs | holds, about 850 000 states |
| `cpu_reset` | Can every layer run again after a reset? | one layer | **violated** (finding 3) |
| `server` | Concurrent requests, Stop at any time, clients that leave, a worker that dies: does a stop hit only its turn, is nothing left between requests, does the model see the chat users saw, does every request end? | 2 clients, 2 prompts, 2 tokens a turn, conversations of 3 messages | holds, about 420 000 states |
| `algorithms` | Do the pure parts compute what their definitions say? | texts of 4 code points, words of 5 bytes under 3 rules, 4 streamed bytes in any chunks, 4 printed pieces, 3 turns with a reply that ends anywhere, lists of 4 messages with calls of tools, trees nested twice, 6 scores, 3 rows of 3 experts, 3 tensors, pages of 8 and views of 8 to 32, headers damaged at any byte, 2 heads, 16 chunks of each format, every exponent of a half and of E8M0 | holds, about 330 000 states |

*Why the bounds suffice.* The counters matter through comparisons with their limits and
through "older / same / newer": three epochs let a handle be stale twice and let the last
epoch overflow. Two early buffers give the cases first, middle and last failure. A verify
of three rows lets one, two or all rows be kept, and two keeps in a row rotate the three
state buffers; capacity 4 lets a dropped block be pooled again (ratio 2) and an append
meet the end. Windows of two rows straddle every append boundary.

In `turn`, capacity 7 lets a chat go into a second message after a reply that was drafted,
cut by the stop flag or by its limit, and lets both the limit and the context end a reply;
a verify of three rows gives accept none, some and all. It was also run once with
capacity 8, with the same result.

In `ngram_store`, six rows and a staging buffer of two make batches that merge, that fill an
interval exactly and that need several; the third generation is the last, so a reader that has run out
is reached; the budget is what one state, one workspace and the largest job need together, so that a single
block lost would be refused later, and the system may refuse any block before. In `cpu_graph` the middle layer has both an
attention ticket and an n-gram job, with a layer that moves in place before and behind it, and the third
token completes a block begun in an earlier chunk. Two clients are a holder and a contender of the mutex;
three messages let the conversation reach its limit. `algorithms` uses small constants where the code has large
ones (`SizeMax`, `Int64Max`, `MaxDepth`, `Radix`…), so that the boundaries are inside the bounds.

*Fairness* (`EveryCommandEnds`, `TurnEnds` and `RequestEnds`). In `turn` the program keeps taking steps
(`WF(Program)`): its calls are synchronous and return, which is `EveryCommandEnds`; the
user is never obliged to do anything. In `gpu_session` a committed Metal buffer
completes (`WF(GpuRun)`); `forward` and `mtp_append` submit or abort what they began and finish what
they submitted before they return (`qwen38_forward_gpu.m:724-727`, `:979-982`), hence weak
fairness of submit-or-abort and of finish. A finish or an abort *waits*, and is enabled
only when its buffers have completed, so a wait on a buffer never committed shows as a
violation. In `server` the threads and the worker run (`WF` of `Worker`, `Loader` and of each client's
request, whose browser reads what it is sent or is gone: a client that did neither could hold its request, and the mutex, for ever);
nobody has to type, press Stop, leave or die, and a turn may emit any number of tokens up to
its limit. Deadlock is checked in `turn` only: elsewhere, after `destroy` or a close, or when the
epochs, the generations or the inputs of the model are exhausted, the system has nothing left to do.

*Symmetry.* Tokens are interchangeable in `gpu_trunk` and `gpu_predictor`: the graph compares them with nothing.

Every property has a mutant, a plausible slip in the code, under which its run fails
(`mutants` in `PROJECT.json`; the mutated operators are marked `Mutant:` in the modules).

## 4. Proofs

`SessionClaimsProofs` proves first of `GpuSession`, for every `Capacity`, `MaxEpoch`, `MaxFlush` (all positive) and
`RewindWindow` (assumption `SessionAssumption`): `TypeOK` (which no run repeats), `Trusted`, `NoReplay`,
`QuietWhenIdle`, and that the session implements `AppendLog`. The other runs are bounded.

None of these is inductive alone. Whether a finished command left the right content
depends on which of its buffers have run, so the invariant `IInv` adds:
`Ledger` (while busy, the open ticket is the one begin admitted at `next_pos`, and it
fits), `Buffers` (the phase determines which buffers exist, early buffers are the first
`early_count`, and the last buffer ends after them), `Device` (what `content` and `torn`
are, by what has run; in particular, all buffers clean and the error word clear imply the
rows are complete) and `Replay` (published tickets of the current epoch end at or below
`next_pos`, so none can equal an open one, which starts there and is not empty when
published). There is one lemma per action; `AbortSteps`, `FinishSteps` and
`RewindSteps` give the steps of the abstract log for the calls that move it.

Of `SessionClaims` it proves `PinsAllOrNothing` and `HeldWhileRunning` for every list of weights
(`ClaimsAssumption`: a sequence of ranges), every range a caller may claim and every number of early buffers.
A flush leaves buffers running while the host goes on encoding, so `CInv` says that the seal precedes the run and
every submitted command (`Sealed`), that a pass in progress has pinned a prefix of the weights (`Prefix`) and
that a failed or finished one has left all or none (`Cleared`); `IInv` supplies that a running buffer belongs to an
open command and that an abort or a finish has waited for it. `NoAliasedWrite` is proved by `SearchIsExact`: the binary search
over the running maximum of the ends tells exactly whether a range overlaps a pin, in any order of the table that is
sorted; `Fresh` says that the table is that of the present pins. That the error word can be claimed at every begin, which no call
checks, needs no assumption on the weights: the first pass claimed the word before it pinned anything.

`GpuGraphProofs` proves `HistoryExact`, `StatesAgree`, `ResidualMatch` and `FedFromText` under
`GraphAssumption`: any capacity, batch limit, convolution window, block ratio and n-gram history, any number of
verify rows and any sequence of calls. It assumes of the windows only what the header fixes: a rewind can undo every draft of
a verify, and a restore needs no more than a rewind allows. A call that goes back in the text (keep, rewind, restore) takes most of the
state from copies made earlier, so the histories are exact only if the copies are. The
invariant `IInv` therefore adds `Recorded` (while a verify is pending, each snapshot buffer, the extended window and
the old n-gram tokens are those of the text cut at that row) and `Checkpointed` (while a handle is the latest of its epoch,
the host copy is that of its text, which the present text still begins with), and `Buffered`
(the state buffer and the row snapshots are a permutation of the buffers, so exchanging two of them on a keep loses
none). `Exact` states the four representations (state, window, rows and blocks, n-gram
tokens) of one text; the lemmas before it say how each grows by an append and what of it a shorter text leaves in place. From the same invariant
follow the two refinements: `SessionAsLog` (the graph moves its session only as `AppendLog` allows) and
`GraphIsText` (each call is the step of `TokenGraph` of the same name, or a stutter), which is what entitles `Turn` to
use `TokenGraph` in place of the graph. `FedFromText` is a property of the steps: a call adds to the predictor's cache only rows of the text
the graph holds at that moment. It does not say that all pairs are still those of the present text: a restore
looks only at the predictor's position, and finding 2 shows pairs of a dropped text that survive one.

`TurnProofs` proves `NeverRefused`, `EndsForItsReason`, `PrefixOrReplay`, `PredictorFollows`, the action
properties `PlainGreedy` and `NothingAfterStop`, and `TypeOK`, under `TurnAssumption`: any vocabulary, capacity, chunk size, number
of verify rows, draft policy, limits, and any moment of Ctrl+C. That no call of the graph is refused depends on
counters kept in two places, the program's and the graph's. `IInv` relates them at each program
counter: `Counted` (the rows on offer are the last of the text), `Budget` (prompt and limit fit the capacity), `Ahead` (text and conversation
never part; either may be the longer), `Follows` (confirmed pairs are those of the conversation, and at most a
verify's drafts lie beyond), `Prefilling`, `Decoding` with `Due` (the pairs still owed to the predictor are those of
the rows kept last), `ToJudge` (row j of a verify answers the conversation and j - 1 drafts, which is why acceptance is greedy
decoding), `Ended`, and `Resting` (between turns the text is a beginning of the transcript, and pairs end on the closing
token that the next turn is going to write). `IInv` was model-checked on the constants of run `turn` before it was proved (335,144 states).
`Bounded` adds the bounds of the types.

`ServerProofs` proves `StopHitsItsTurn`, `QuietBetweenRequests` and `ModelSeesTheChat` under
`ServerAssumption`, for every set of clients and prompts and every limit. The properties compare ends of the system that
share nothing but two pipes and a queue. What holds them together is a protocol the code never states, the conjunct
`Piped`: while the worker lives, request pipe, event pipe and queue together hold exactly what is still to come of
the one request whose client holds the mutex, and nothing once it has seen its end. It
rests on `Exclusive` (one client is past the mutex), `Holding` (what the holder knows by where it
stands: in particular `active` only from the write to the close, `started` only after the turn's first event), `Chatting` (history and transcript are the same,
and the request goes on from them) and `Booting` (nobody asks before the worker is ready). When the worker dies in mid-turn
`Piped` says nothing; `Holding` and `Chatting` do not depend on it. `IInv` was model-checked on the constants of run
`server` first (421,791 states).

`NgramStoreProofs` proves first of the reader `LeaseServesItsRows`, for every table, unit size, staging buffer, batch and
history of the file. `ReaderSpec` lets a client ask for any batch at any time, which is more than the store
does; the run has rows of one unit, the theorem tears rows as well. A lease is good only for a complete batch, so the property alone says nothing of a read in
progress; the invariant `RInv` adds `Shape` (a read in progress has revoked the batch before it, its
order is one of the sorted orders, `begin` is in range), `Served` (while the file is the one opened, requests behind `begin`
have their rows in their slots) and `Staged` (the bytes of the current interval are those of its rows).
A rewrite makes `Served` and `Staged` vacuous, and the second look at the file (`Verified`) keeps
such a read from becoming a batch.

Of the store it proves `CommittedHistory`, `DeltaIsOneShot`, `BudgetExact` and, for the store's own way of calling
the reader, `LeaseServesItsRows`, under `StoreAssumption`: any table, order, number of heads, kernel, dilation, job
size, block sizes and budget, and any configuration `config_status` accepts, which is what opening the store has
checked; of the exclusive or it takes only that two words below the sign bit give one. The property speaks of a text cut into
jobs, the code of one job at a time, so the invariant `IInv` says what is left between jobs: every state equals
`Holding` of its text, whatever failed before (`StatesHold`); a handle is busy exactly while the
job holds it (`Handles`), so the state a job was planned on is the one it is published to; each phase of the job knows what one pass does to its
tokens (`Phases`); bytes belong to live handles (`Accounts`); a read in flight asks for the job's rows (`Reads`,
with `RInv` of the reader). The lemmas under it are about the data: `RowsJoin` (the rows of a text are those of its first part followed by
those of the rest under the history the first part leaves; what the hash sees of an
earlier token, `order - 1` back at most, is in the chunk or in that history), `OnePass` and `DeltaOfChunk` (the same of the convolution's window), `IdType` (no
product leaves the signed range and every row is in the table) and `BytesType`. An accepted state is never left invalid: the branch of
`commit` that would do so is unreachable. `IInv` was model-checked on the constants of run `ngram_store` first (1,017,780 states).

That a store can be opened on what the loader admits is `LoadedIsHashable`: every configuration that passes
`config_load` gives the hash one it accepts, with as many offsets as sizes, which is what
`StoreAssumption` says of `Config`. It assumes of the file that ids are 32-bit and the row count
is a signed 64-bit number; the loader itself compares unsigned ones. (`HashableConfig` checks the
same by evaluation, and the rows it gives; for the rows `IdType` is the general statement.)

`CpuGraphProofs` proves `StatesFollowText`, `NothingLeftOpen` and `LogitsAreOneShot` under `CpuGraphAssumption`
and `RecurrentAssumption`: any sequence of recurrent and attention layers with or without an embedding, any order
of at least 2, vocabulary, chunk size, context, block ratio, kernel, dilation and number of epochs, and any operator
that fails on the way. The properties speak of the moment between calls, but a forward moves dozens of small states one
after another, and fails between any two. The invariant `IInv` names the text each of them holds in the middle of a call:
the text told, or that text and the call's tokens once the call has passed the layer (`TextAt`). It has eight
parts. `Histories` and `Embeddings`: each state is what one pass over its text leaves. `Residual`: the rows in flight
are the call's part of that pass, before and after each operator. `Closed`: a state is busy exactly with its ticket
or job, and only during a call; it holds whether the call succeeds or not. `Returned`: the logits of the
last call are rows of one pass. `Session`, `Layered` and `Calls` say where a call can be. Once an operator
has failed only `Closed` matters: the finish closes what is open and leaves the graph invalid until a reset.
Under it are lemmas about the data, which do not mention a step: `ConvChunk` and `ScanChunk` (a chunk run from the
state its past left gives that part of one run over both), `CachedChunk` and `QsaChunk` (the same of the block
cache, whose last block may be half full), `RowsJoin` (the n-grams of a chunk with the history before it) and `PassPrefix`
(one pass over a beginning is the beginning of one pass over the whole, in every layer), which is what makes the
text told before a call agree with the text after it. The number of layers is arbitrary, so they are proved layer by layer with `Throughout`.
`IInv` was model-checked on the constants of run `cpu_graph` first (848,122 states).

Model-checked only: liveness (`EveryCommandEnds`, `TurnEnds`, `RequestEnds`), which is out of the prover's reach, and
the pure parts of `Algorithms` (`SegmentsAsTrained`, `EncodeRoundTrips`, `DecoderStreams`, `TranscriptIsTheTemplate`,
`ChoosesTheBest`, `ViewsCoverTensors`, `ProductsAgree`), most of whose definitions are recursive operators or folds over
data. A recursive *function* of a number can be reasoned about with `Throughout` and `Recursion` of `Facts`, as the hash,
the byte counts and the layers are.

## 5. Findings

1. `qwen38_gpu.m:420-431`: `finish` waits for and drops the early buffers *before* the
   ledger looks at the ticket. A refused finish therefore forgets an early buffer's Metal
   error, and the right finish then publishes a command that failed, against
   `qwen38_gpu.h:66`. `abort` checks first. No caller in the repository passes a wrong ticket.
2. `qwen38_forward_gpu.m:1023`: restore takes "the predictor is at the saved position" for
   the "predictor unchanged" of `qwen38_forward_gpu.h:46-48`. A predictor rewound and fed
   other tokens up to the same position is accepted.
3. `qwen38_forward.c:431-444`: `qwen38_forward_reset` resets every recurrent, attention and n-gram state but
   not the MoE work area. A batch that fails there sets `failed` (`qwen38_moe.c:421`), only
   `qwen38_moe_work_reset` (`:121`) clears it, nothing calls it, and every later forward is refused
   (`:388`), against `qwen38_forward.h:32`, by which a failure lasts until a reset.

## 6. Not modelled

- **Arithmetic**: Metal kernels other than the row decoders and the order of the lanes' sums, the sums,
  norms and nonfinite checks of the CPU operators (a check that refuses is a failure an action may take), the
  estimates of the draft policy (any choice up to its limit is allowed). Correctness there is numeric,
  and TLC has no floating point.
- **Memory layout**: the arenas of the work areas, residency of the weights and the residency set, creation
  and destruction of the graph, the profile-only split of encoders. None changes what is published.
- **Text formatting**: the JSON of the worker's events, `/ctx`, `/read`, HTML and request parsing of the server, the
  logits file and teacher-forced decoding. They keep no state another part reads.
- **Unicode tables** (4 500 generated lines) are sampled; the algorithms over them are modelled.
- **Generic JSON parser** `json.c`: the Qwen3.8 programs do not call it.
- **Tools around one process** (`qwen38_gpu_lock.py`, `run_observed.py`), profile and microbenchmarks: what can
  go wrong is the kernel's file lock, signals and clock; there is no state shared with the engine.
