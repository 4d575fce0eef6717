------------------------------- MODULE NgramStore -------------------------------
(***************************************************************************)
(* The n-gram store (src/qwen38_ngram.c) with its states, its one job and  *)
(* the workspaces of the per-layer embedding on the CPU (qwen38_ple.c).    *)
(*                                                                         *)
(* A job hashes a chunk (prepare), reads its rows (read), turns them into  *)
(* Delta on a candidate copy of the convolution (ple), publishes history,  *)
(* position and candidate (commit) or not (abort), and is released. Any    *)
(* allocation may fail, any computation may overflow, and the file may be  *)
(* rewritten between any two system calls. The residual is left out: Delta *)
(* of a token is the window of rows its convolution reads.                 *)
(***************************************************************************)
EXTENDS NgramReader, NgramIds, Recurrent

CONSTANTS
  Config,      \* of the hash (NgramIds)
  Token,       \* ids a chunk may hold
  States, Workspaces,  \* handles
  MaxTokens,   \* tokens of one job
  Budget,      \* bytes the store may allocate
  Size,        \* bytes of each kind of block
  MaxText      \* bound: tokens ever committed to a state

\* The store is opened with a configuration the hash accepts, and its own blocks fit.
ASSUME StoreAssumption ==
  /\ Config \in [vocab : Nat, eos : Nat, row_count : Nat, order : Nat, per_order : Nat,
                 multipliers : Seq(Nat), sizes : Seq(Nat), offsets : Seq(Nat)]
  /\ Len(Config.offsets) = Len(Config.sizes)
  /\ Int64Max \in Nat /\ config_status(Config) = "ok"
  /\ \A a, b \in 0 .. Int64Max : Mix(a, b) \in 0 .. Int64Max
  /\ Token \subseteq 0 .. Config.vocab - 1
  /\ MaxTokens \in Nat /\ Slots = MaxTokens * Len(Config.sizes)
  /\ Rows = Config.row_count
  /\ Size \in [{"store", "state", "previous", "conv", "job", "id", "next", "workspace", "data"} -> Nat]
  /\ Budget \in Nat /\ Size.store <= Budget

VARIABLES
  used,        \* bytes allocated
  changed,     \* a read or a look at the file found another one: reopen
  states,      \* live states
  workspaces,  \* live workspaces: is one pinned by the job?
  job,         \* the one job, or NoJob
  closed       \* the store is gone

svars == <<used, changed, states, workspaces, job, closed>>
vars  == <<rvars, svars>>

Heads   == Len(Config.sizes)
Fixed   == Size.store
NoJob   == [phase |-> "none"]
Fresh   == [j \in 1 .. History(Config) |-> Config.eos]
HasJob  == job.phase # "none"
Host    == ~call.on /\ ~closed       \* the caller has control
Without(f, x) == [y \in DOMAIN f \ {x} |-> f[y]]
With(f, x, v) == [y \in DOMAIN f \union {x} |-> IF y = x THEN v ELSE f[y]]

Init ==
  /\ reader_open
  /\ used = Fixed /\ changed = FALSE /\ closed = FALSE
  /\ states = [s \in {} |-> 0] /\ workspaces = [w \in {} |-> FALSE]
  /\ job = NoJob

-----------------------------------------------------------------------------
(* Allocation                                                              *)

Bytes(blocks) ==
  LET sum[n \in 0 .. Len(blocks)] == IF n = 0 THEN 0 ELSE sum[n - 1] + blocks[n]
  IN  sum[Len(blocks)]

StateBlocks     == <<Size.state, Size.previous, Size.conv>>
WorkspaceBlocks == <<Size.workspace, Size.data>>
JobBlocks(n)    == IF n = 0 THEN <<Size.job, Size.next>>
                   ELSE <<Size.job, n * Heads * Size.id, Size.next, Size.conv>>

\* Mutant: the block allocated last before the failure is not given back.
Undone_all_but_last(blocks, n) == Bytes(SubSeq(blocks, 1, n - 1))

\* What a call that failed after n of its blocks frees again.
Undone(blocks, n) == Bytes(SubSeq(blocks, 1, n))

\* q38e_allocate, block after block: the budget or the system refuses one.
AllocateFails(blocks) ==
  \E n \in 0 .. Len(blocks) - 1 :
    /\ used + Bytes(SubSeq(blocks, 1, n)) <= Budget
    /\ used' = used + Bytes(SubSeq(blocks, 1, n)) - Undone(blocks, n)
Allocate(blocks) ==
  /\ used + Bytes(blocks) <= Budget
  /\ used' = used + Bytes(blocks)
Free(blocks) == used' = used - Bytes(blocks)

-----------------------------------------------------------------------------
(* States                                                                  *)

state_create(s) ==
  /\ Host /\ s \notin DOMAIN states /\ ~changed
  /\ \/ AllocateFails(StateBlocks) /\ UNCHANGED states
     \/ /\ Allocate(StateBlocks)
        /\ states' = With(states, s,
             [told |-> <<>>, prev |-> Fresh, conv |-> state_init(1, Zeros),
              next_pos |-> 0, valid |-> TRUE, busy |-> FALSE, epoch |-> 1])
  /\ UNCHANGED <<rvars, changed, workspaces, job, closed>>

state_reset_call(s, epoch) ==
  LET r == state_reset(states[s].conv, epoch, Zeros) IN
  /\ Host /\ s \in DOMAIN states /\ ~states[s].busy /\ ~changed
  /\ r.status = "ok"
  /\ states' = [states EXCEPT ![s] =
       [@ EXCEPT !.conv = r.s, !.epoch = epoch, !.next_pos = 0, !.valid = TRUE,
                 !.prev = Fresh, !.told = <<>>]]
  /\ UNCHANGED <<rvars, used, changed, workspaces, job, closed>>

state_destroy(s) ==
  /\ Host /\ s \in DOMAIN states /\ ~states[s].busy
  /\ states' = Without(states, s)
  /\ Free(StateBlocks)
  /\ UNCHANGED <<rvars, changed, workspaces, job, closed>>

workspace_create(w) ==
  /\ Host /\ w \notin DOMAIN workspaces
  /\ \/ AllocateFails(WorkspaceBlocks) /\ UNCHANGED workspaces
     \/ Allocate(WorkspaceBlocks) /\ workspaces' = With(workspaces, w, FALSE)
  /\ UNCHANGED <<rvars, changed, states, job, closed>>

workspace_destroy(w) ==
  /\ Host /\ w \in DOMAIN workspaces /\ ~workspaces[w]
  /\ workspaces' = Without(workspaces, w)
  /\ Free(WorkspaceBlocks)
  /\ UNCHANGED <<rvars, changed, states, job, closed>>

\* Refused while a job, a state or a workspace refers to the store.
ngram_close ==
  /\ Host /\ ~HasJob /\ states = <<>> /\ workspaces = <<>>
  /\ closed' = TRUE
  /\ UNCHANGED <<rvars, used, changed, states, workspaces, job>>

-----------------------------------------------------------------------------
(* The job                                                                 *)

\* q38e_job_check
Admissible == HasJob /\ ~changed /\ states[job.state].epoch = job.epoch
                     /\ states[job.state].valid

\* Mutant: the candidate begins with an empty halo.
Candidate_fresh(conv) == Result("ok", [conv EXCEPT !.data = Zeros], <<>>)

\* The candidate of a job: a copy of the state's convolution.
Candidate(conv) == conv_state_copy(state_init(conv.epoch, Zeros), conv)

prepare(s, tokens, position) ==
  LET st == states[s]
      n  == Len(tokens)
      c  == Candidate(st.conv)
  IN
  /\ Host /\ s \in DOMAIN states /\ ~changed
  /\ ~HasJob /\ ~st.busy
  /\ st.valid /\ position = st.next_pos
  /\ n <= MaxTokens
  /\ \/ AllocateFails(JobBlocks(n)) /\ UNCHANGED <<states, job>>
     \/ /\ Allocate(JobBlocks(n))
        /\ n > 0 => c.status = "ok"
        /\ job' = [phase |-> IF n = 0 THEN "computed" ELSE "prepared",
                   state |-> s, tokens |-> tokens, position |-> position, epoch |-> st.epoch,
                   ids |-> ngram_ids(Config, st.prev, tokens),
                   next |-> Next_prev(Config, st.prev, tokens),
                   candidate |-> c.s, lease |-> NoLease, workspace |-> {}, delta |-> <<>>]
        /\ states' = [states EXCEPT ![s].busy = TRUE]
  /\ UNCHANGED <<rvars, changed, workspaces, closed>>

\* What the read leaves in the job, once the reader has come to an end.
Returned ==
  IF call'.on THEN UNCHANGED <<job, changed>>
  ELSE /\ job' = [job EXCEPT !.phase = IF call'.status = "ok" THEN "ready" ELSE "aborted",
                             !.lease = IF call'.status = "ok" THEN generation' ELSE NoLease]
       /\ changed' = (changed \/ call'.status = "stale")

read ==
  /\ Host /\ Admissible /\ job.phase = "prepared"
  /\ Begin(job.ids)
  /\ Returned
  /\ UNCHANGED <<used, states, workspaces, closed>>

reading ==
  /\ Advance
  /\ Returned
  /\ UNCHANGED <<used, states, workspaces, closed>>

\* qwen38_ngram_rows: the lease, then another look at the file.
RowsFail == job.tokens # <<>> /\ (~Current(job.lease) \/ ~unchanged)

\* The rows of token t, head after head.
RowsOf(t) == [h \in 1 .. Heads |-> values[(t - 1) * Heads + h]]

\* A projection, a norm, the gate, the convolution or the sum may overflow:
\* the job is aborted, with a candidate that may have advanced or be unusable.
ple_cpu(w) ==
  LET x == [t \in 1 .. Len(job.tokens) |-> RowsOf(t)] IN
  /\ Host /\ Admissible
  /\ w \in DOMAIN workspaces /\ ~workspaces[w]
  /\ job.phase = "ready"
  /\ IF RowsFail
       THEN changed' = (changed \/ (Current(job.lease) /\ ~unchanged)) /\ UNCHANGED <<workspaces, job>>
       ELSE /\ workspaces' = [workspaces EXCEPT ![w] = TRUE]
            /\ \/ job' = [job EXCEPT !.phase = "aborted", !.workspace = {w}]
               \/ \E finite \in BOOLEAN :
                    LET r == conv_causal(job.candidate, x, job.position, finite) IN
                    \/ job' = [job EXCEPT !.candidate = r.s, !.phase = "aborted", !.workspace = {w}]
                    \/ /\ r.status = "ok"
                       /\ job' = [job EXCEPT !.candidate = r.s, !.phase = "computed",
                                             !.workspace = {w}, !.delta = r.out]
            /\ UNCHANGED changed
  /\ UNCHANGED <<rvars, used, states, closed>>

\* What a commit makes of the state.
Published(st) ==
  [st EXCEPT !.conv = conv_state_copy(@, job.candidate).s, !.prev = job.next,
             !.next_pos = @ + Len(job.tokens), !.told = @ \o job.tokens]

commit ==
  LET st == states[job.state] IN
  /\ Host /\ Admissible
  /\ job.phase = "computed" /\ st.next_pos = job.position
  /\ IF job.tokens = <<>>
       THEN job' = [job EXCEPT !.phase = "committed"] /\ UNCHANGED <<states, changed>>
     ELSE IF RowsFail
       THEN /\ job' = [job EXCEPT !.phase = "aborted"]
            /\ changed' = (changed \/ (Current(job.lease) /\ ~unchanged))
            /\ UNCHANGED states
     ELSE /\ job.candidate.valid /\ job.candidate.next_pos = job.position + Len(job.tokens)
          /\ IF conv_state_copy(st.conv, job.candidate).status = "ok"
               THEN /\ states' = [states EXCEPT ![job.state] = Published(st)]
                    /\ job' = [job EXCEPT !.phase = "committed"]
               ELSE /\ states' = [states EXCEPT ![job.state].valid = FALSE]
                    /\ job' = [job EXCEPT !.phase = "aborted"]
          /\ UNCHANGED changed
  /\ UNCHANGED <<rvars, used, workspaces, closed>>

abort ==
  /\ Host /\ Admissible
  /\ job.phase # "committed"
  /\ job' = [job EXCEPT !.phase = "aborted", !.lease = NoLease]
  /\ UNCHANGED <<rvars, used, changed, states, workspaces, closed>>

\* Allowed in every phase, and after the file has changed.
job_release ==
  /\ Host /\ HasJob
  /\ workspaces' = [w \in DOMAIN workspaces |-> workspaces[w] /\ w \notin job.workspace]
  /\ states' = [states EXCEPT ![job.state].busy = FALSE]
  /\ Free(JobBlocks(Len(job.tokens)))
  /\ job' = NoJob
  /\ UNCHANGED <<rvars, changed, closed>>

Modified == Modify /\ UNCHANGED svars

Chunks(s) == {ts \in UNION {[1 .. n -> Token] : n \in 0 .. MaxTokens} :
               Len(states[s].told) + Len(ts) <= MaxText}

Next ==
  \/ \E s \in States : state_create(s) \/ state_destroy(s)
  \/ \E s \in States, epoch \in 1 .. StateEpochs : state_reset_call(s, epoch)
  \/ \E w \in Workspaces : workspace_create(w) \/ workspace_destroy(w) \/ ple_cpu(w)
  \/ \E s \in DOMAIN states : \E ts \in Chunks(s) : prepare(s, ts, states[s].next_pos)
  \/ read \/ reading \/ commit \/ abort \/ job_release
  \/ ngram_close
  \/ Modified

Spec == Init /\ [][Next]_vars

-----------------------------------------------------------------------------
(* Properties                                                              *)

\* The rows and the deltas of a text hashed and convolved in one pass.
OneShotRows(text) ==
  LET ids == ngram_ids(Config, Fresh, text) IN
  [t \in 1 .. Len(text) |-> [h \in 1 .. Heads |-> Content(ids[(t - 1) * Heads + h])]]
OneShotHalo(text) == conv_causal(state_init(1, Zeros), OneShotRows(text), 0, TRUE).s.data

\* A state holds exactly what one pass over the tokens committed to it would
\* leave, however they were cut into jobs and whatever jobs failed or were
\* aborted in between: the hash history, the halo, and both positions.
CommittedHistory ==
  \A s \in DOMAIN states :
    LET st == states[s] IN
    st.valid =>
      /\ st.next_pos = Len(st.told) /\ st.conv.next_pos = st.next_pos /\ st.conv.valid
      /\ st.prev = Next_prev(Config, Fresh, st.told)
      /\ st.conv.data = OneShotHalo(st.told)

\* The Delta a computed job hands over is the one its tokens have in one pass
\* over everything committed before them, from rows of the opened file.
DeltaIsOneShot ==
  HasJob /\ job.phase = "computed" =>
    LET old  == states[job.state].told
        text == old \o job.tokens
        all  == conv_causal(state_init(1, Zeros), OneShotRows(text), 0, TRUE).out
    IN  job.delta = SubSeq(all, Len(old) + 1, Len(text))

\* The bytes counted are those of the handles that live: no failure leaks a
\* block or gives one back twice, and a store is closed with nothing left.
BudgetExact ==
  /\ used = Fixed + Cardinality(DOMAIN states) * Bytes(StateBlocks)
                  + Cardinality(DOMAIN workspaces) * Bytes(WorkspaceBlocks)
                  + (IF HasJob THEN Bytes(JobBlocks(Len(job.tokens))) ELSE 0)
  /\ used <= Budget
  /\ HasJob => job.state \in DOMAIN states /\ job.workspace \subseteq DOMAIN workspaces
  /\ \A s \in DOMAIN states : states[s].busy <=> HasJob /\ job.state = s
  /\ closed => used = Fixed
=============================================================================
