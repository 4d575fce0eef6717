-------------------------------- MODULE Turn --------------------------------
(***************************************************************************)
(* The program that drives the graph: q38_turn (src/qwen38_cli.m), with    *)
(* prefill, greedy decode and the speculative cycle, and its two callers,  *)
(* the interactive chat (src/qwen38_repl.c), which goes on from what the   *)
(* graph holds, and the one-shot or worker request, which resets it.       *)
(*                                                                         *)
(* Between any two calls of the graph the user may raise the stop flag.    *)
(* The model's next token, the predictor's drafts and the number of drafts *)
(* the policy asks for are arbitrary. A failure of the machine ends the    *)
(* program (q38_check) and has no step here.                               *)
(***************************************************************************)
EXTENDS TokenGraph, FiniteSetsExt

CONSTANTS
  StopTokens,  \* tokens that end a reply
  ImEnd,       \* <|im_end|>, which closes a message
  Newline,     \* what follows it
  Bodies,      \* what a user may type, as tokens: never empty
  Chunks,      \* --chunk and --replay-chunk: tokens of one prefill append
  MaxNew,      \* --max-new of the chat
  Limits       \* --max-new and --stop-after of a request

ASSUME TurnAssumption ==
  /\ ImEnd \in Token /\ Newline \in Token /\ StopTokens \subseteq Token
  /\ Bodies \subseteq Seq(Token) \ {<<>>}
  /\ Capacity \in Nat /\ MaxTokens \in 1 .. Capacity
  /\ Chunks \subseteq 1 .. MaxTokens /\ VerifyRows \in 2 .. MaxTokens
  /\ RewindWindow \in Nat /\ VerifyRows - 1 <= RewindWindow
  /\ MaxNew \in Nat \ {0} /\ Limits \subseteq Nat

VARIABLES
  pc,
  chat,        \* TRUE: the interactive chat
  stopped,     \* q38_stopped
  transcript,  \* the conversation, chat only
  prompt,      \* the tokens this turn answers
  o,           \* options of the turn: [chunk, max_new, stop_after, keep_predictor, use_id]
  generated,
  reason,
  fed,         \* tokens of the prompt appended so far
  last_count,  \* Q38Run: tokens of the last append, as the program counts them
  have_id, next_id,  \* the argmax of an append, if it has been read back
  logits,      \* the logits rows of the last call that wrote any
  k,           \* drafts of this cycle
  d,           \* the drafts
  pend, pend_off,    \* kept drafts whose pairs are due, and their first row
  mtp_done     \* the predictor's confirmed position

request == <<chat, transcript, prompt, o>>
output  == <<generated, reason>>
model   == <<have_id, next_id, logits>>
cycle   == <<k, d, pend, pend_off, mtp_done>>
pvars   == <<pc, stopped, request, output, fed, last_count, model, cycle>>
vars    == <<gvars, pvars>>

-----------------------------------------------------------------------------
(* A row of logits: the text it was computed from, and its argmax. One of  *)
(* the predictor belongs to no text.                                       *)

Row(s, t)  == [of |-> s, argmax |-> t]
Draft(t)   == Row(<<>>, t)
Argmax     == IF have_id THEN next_id ELSE logits[1]
IsStop(t)  == t \in StopTokens
LastOf(s)  == s[Len(s)]
Confirmed  == IF enabled THEN Len(partner) ELSE 0

Unlimited == Capacity + 1        \* UINT32_MAX
NoOptions(n) == [chunk |-> n, max_new |-> 0, stop_after |-> Unlimited,
                 keep_predictor |-> FALSE, use_id |-> TRUE]

Init ==
  /\ valid = TRUE /\ enabled \in BOOLEAN
  /\ text = <<>> /\ first = 0 /\ count = 0
  /\ partner = <<>> /\ chained = 0 /\ pending = 0
  /\ pc = "idle" /\ chat \in BOOLEAN /\ stopped = FALSE
  /\ transcript = <<>> /\ prompt = <<>> /\ \E n \in Chunks : o = NoOptions(n)
  /\ generated = <<>> /\ reason = "length"
  /\ fed = 0 /\ last_count = 0
  /\ have_id = FALSE /\ next_id = Draft(Newline) /\ logits = <<Draft(Newline)>>
  /\ k = 0 /\ d = <<>> /\ pend = <<>> /\ pend_off = 0 /\ mtp_done = 0

\* A call of the graph; refused, it ends the program.
Call(admitted, call) ==
  IF admitted
    THEN call
    ELSE pc' = "dead"
         /\ UNCHANGED <<gvars, stopped, request, output, fed, last_count, model, cycle>>

-----------------------------------------------------------------------------
(* Between turns                                                           *)

\* Mutant: a message begins with its own first token.
Suffix_bare(body) == body

\* A new message closes the last reply, if the model has not done it itself.
Suffix(body) ==
  IF transcript = <<>> THEN body
  ELSE (IF LastOf(transcript) = ImEnd THEN <<Newline>> ELSE <<ImEnd, Newline>>) \o body

Start(options) ==
  /\ o' = options
  /\ stopped' = FALSE
  /\ generated' = <<>> /\ reason' = "length"
  /\ pc' = "prefill"
  /\ UNCHANGED <<chat, transcript, model, cycle>>

\* What the graph holds is kept if the conversation begins with it and the
\* predictor lags by the rows of the last append at most; it then catches up.
reply(body) ==
  LET pos   == Len(text)
      mpos  == IF enabled THEN Len(partner) ELSE pos
      whole == transcript \o Suffix(body)
      room  == Capacity - Len(whole)
      go    == /\ prompt' = whole
               /\ \E n \in {room, Min({MaxNew, room})} :
                    Start([o EXCEPT !.max_new = n, !.keep_predictor = TRUE])
  IN
  /\ pc = "idle" /\ chat
  /\ room > 0
  /\ \/ /\ pos > Len(transcript) \/ mpos + last_count < pos
        /\ Reset /\ go /\ fed' = 0 /\ last_count' = 0
     \/ /\ pos <= Len(transcript) /\ mpos + last_count >= pos
        /\ mpos < pos
        /\ LET offset == mpos - (pos - last_count)
               ts     == SubSeq(whole, mpos + 2, pos + 1)
           IN  Call(CanPair(offset, ts),
                    Pair(offset, ts) /\ go /\ fed' = pos /\ UNCHANGED last_count)
     \/ /\ pos <= Len(transcript) /\ mpos >= pos
        /\ go /\ fed' = pos /\ UNCHANGED <<gvars, last_count>>

\* /reset of the chat, R of the worker.
forget ==
  /\ pc = "idle"
  /\ Reset
  /\ transcript' = <<>> /\ last_count' = IF chat THEN 0 ELSE last_count
  /\ UNCHANGED <<pc, chat, stopped, prompt, o, output, fed, model, cycle>>

\* One-shot run, repetition or worker request: the graph is reset.
serve(whole, chunk, max_new, stop_after, use_id) ==
  /\ pc = "idle" /\ ~chat
  /\ max_new <= Capacity - Len(whole)
  /\ Reset
  /\ prompt' = whole
  /\ Start([chunk |-> chunk, max_new |-> max_new, stop_after |-> stop_after,
            keep_predictor |-> FALSE, use_id |-> use_id])
  /\ fed' = 0
  /\ UNCHANGED last_count

\* Ctrl+C or SIGUSR1; one that arrives between turns is cleared by the next.
interrupt ==
  /\ pc \notin {"idle", "dead"} /\ ~stopped
  /\ stopped' = TRUE
  /\ UNCHANGED <<gvars, pc, request, output, fed, last_count, model, cycle>>

-----------------------------------------------------------------------------
(* Prefill                                                                 *)

\* The argmax of an append's last row, read back as an id or from its logits.
ReadBack(s) ==
  \E t \in Token :
    IF o.use_id THEN next_id' = Row(s, t) /\ UNCHANGED logits
                ELSE logits' = <<Row(s, t)>> /\ UNCHANGED next_id

\* Mutant: the last row of a full chunk.
LastRow_of_chunk(n) == o.chunk - 1

\* The row of an append of n tokens whose pair is still due.
LastRow(n) == n - 1

prefill ==
  LET n  == Min({o.chunk, Len(prompt) - fed})
      ts == SubSeq(prompt, fed + 1, fed + n)
  IN
  /\ pc = "prefill" /\ ~stopped /\ fed < Len(prompt)
  /\ Call(CanAppend(ts),
       /\ Extend(ts)
       /\ last_count' = n /\ pend_off' = LastRow(n)
       /\ IF fed + n = Len(prompt) THEN ReadBack(text')
                                   ELSE UNCHANGED <<next_id, logits>>
       /\ pc' = "pairs"
       /\ UNCHANGED <<stopped, request, output, fed, have_id, k, d, pend, mtp_done>>)

\* Mutant: the prompt advances by the rows paired.
pair_prompt_stuck ==
  LET n  == Min({last_count, Len(prompt) - fed - 1})
      ts == SubSeq(prompt, fed + 2, fed + 1 + n)
  IN
  /\ pc = "pairs" /\ pc' = "prefill"
  /\ fed' = fed + n
  /\ IF enabled /\ ~stopped /\ n > 0 THEN Pair(0, ts) ELSE UNCHANGED gvars
  /\ UNCHANGED <<stopped, request, output, last_count, model, cycle>>

\* The rows of the chunk with the tokens that follow them, all but the last of
\* the prompt.
pair_prompt ==
  LET n  == Min({last_count, Len(prompt) - fed - 1})
      ts == SubSeq(prompt, fed + 2, fed + 1 + n)
      on == /\ fed' = fed + last_count
            /\ pc' = "prefill"
            /\ UNCHANGED <<stopped, request, output, last_count, model, cycle>>
  IN
  /\ pc = "pairs"
  /\ IF enabled /\ ~stopped /\ n > 0
       THEN Call(CanPair(0, ts), Pair(0, ts) /\ on)
       ELSE on /\ UNCHANGED gvars

start_decode ==
  /\ pc = "prefill" /\ (stopped \/ fed >= Len(prompt))
  /\ reason' = IF stopped THEN "cancelled" ELSE reason
  /\ have_id' = o.use_id
  /\ pend' = <<>> /\ mtp_done' = Confirmed
  /\ pc' = "next"
  /\ UNCHANGED <<gvars, stopped, request, generated, fed, last_count, next_id, logits,
                 k, d, pend_off>>

-----------------------------------------------------------------------------
(* Decode: each cycle emits the next token, catches the predictor up with  *)
(* it, drafts, verifies and keeps the accepted drafts.                     *)

end == pc' = "end"

\* Mutant: the stop flag is left to the end of the turn.
MayEmit_unstopped(got) == got < Max({o.max_new, 1})

\* With nothing to generate the loop is entered once all the same.
MayEmit(got) == ~stopped /\ got < Max({o.max_new, 1})

emit_next ==
  LET got == Len(generated)
      t   == Argmax.argmax
  IN
  /\ pc = "next"
  /\ \/ ~MayEmit(got) /\ end /\ UNCHANGED output
     \/ MayEmit(got) /\ got = o.stop_after
        /\ end /\ reason' = "cancelled" /\ UNCHANGED generated
     \/ MayEmit(got) /\ got # o.stop_after /\ o.max_new = 0
        /\ end /\ UNCHANGED output
     \/ MayEmit(got) /\ got # o.stop_after /\ o.max_new > 0
        /\ generated' = Append(generated, t)
        /\ IF IsStop(t) THEN end /\ reason' = "stop"
           ELSE IF got + 1 = o.stop_after THEN end /\ reason' = "cancelled"
           ELSE UNCHANGED reason /\ IF got + 1 >= o.max_new THEN end ELSE pc' = "plan"
  /\ UNCHANGED <<gvars, stopped, request, fed, last_count, model, cycle>>

\* Drafts that can still be emitted, and verify rows that fit. (The code's last
\* operand would wrap on a full graph.)
Kmax ==
  LET room == Min({o.max_new, o.stop_after}) - Len(generated)
  IN  IF enabled
        THEN Min({VerifyRows - 1, IF room > 0 THEN room - 1 ELSE 0,
                  Capacity - Len(text) - 1})
        ELSE 0

\* The number of drafts is the policy's. A predictor that has drafted ahead is
\* first brought back to where it was confirmed.
plan ==
  /\ pc = "plan"
  /\ \E n \in 0 .. Kmax :
       /\ k' = n
       /\ IF enabled /\ (n > 0 \/ Kmax > 0 \/ o.keep_predictor)
            THEN IF Len(partner) = mtp_done
                   THEN pc' = "catch_up" /\ UNCHANGED gvars
                   ELSE IF CanRewind(mtp_done)
                     THEN pc' = "catch_up" /\ Rewind(mtp_done)
                     ELSE pc' = "dead" /\ UNCHANGED gvars
            ELSE pc' = "step" /\ UNCHANGED gvars
  /\ UNCHANGED <<stopped, request, output, fed, last_count, model, d, pend, pend_off,
                 mtp_done>>

\* After a draft t: chain, or verify what there is.
Drafted(t) ==
  /\ logits' = [logits EXCEPT ![1] = Draft(t)]
  /\ d' = Append(d, t)
  /\ pc' = IF Len(d') < k /\ ~IsStop(t) THEN "chain" ELSE "verify"

\* The drafts kept in the last cycle and the token just emitted.
catch_up ==
  LET ts == Append(pend, LastOf(generated)) IN
  /\ pc = "catch_up"
  /\ Call(CanPair(pend_off, ts),
       /\ Pair(pend_off, ts)
       /\ pend' = <<>> /\ mtp_done' = Len(partner')
       /\ IF stopped THEN end /\ UNCHANGED <<logits, d>>
          ELSE IF k > 0 THEN \E t \in Token : Drafted(t)
          ELSE /\ pc' = "step"
               /\ \/ UNCHANGED logits
                  \/ Kmax > 0 /\ \E t \in Token : logits' = [logits EXCEPT ![1] = Draft(t)]
               /\ UNCHANGED d
       /\ UNCHANGED <<stopped, request, output, fed, last_count, have_id, next_id, k,
                      pend_off>>)

chain ==
  /\ pc = "chain"
  /\ Call(CanChain,
       /\ Chain(LastOf(d))
       /\ \E t \in Token : Drafted(t)
       /\ UNCHANGED <<stopped, request, output, fed, last_count, have_id, next_id, k, pend,
                      pend_off, mtp_done>>)

\* No draft: an ordinary append.
step ==
  /\ pc = "step"
  /\ Call(CanAppend(<<LastOf(generated)>>),
       /\ Extend(<<LastOf(generated)>>)
       /\ ReadBack(text')
       /\ have_id' = o.use_id
       /\ last_count' = 1 /\ pend_off' = 0
       /\ pc' = "next"
       /\ UNCHANGED <<stopped, request, output, fed, k, d, pend, mtp_done>>)

\* Mutant: a stop token enters the trunk like any draft.
Live_all == Len(d)

\* A stop token proposed last is judged from the row before it and never
\* enters the trunk.
Live == IF IsStop(LastOf(d)) THEN Len(d) - 1 ELSE Len(d)
RowIds == <<LastOf(generated)>> \o SubSeq(d, 1, Live)

\* n drafts agree with the model, which then says t. Later rows are of a text
\* the model rejects; what they say is not read.
Judged(n, t) ==
  [j \in 1 .. (Live + 1) |->
     Row(text \o SubSeq(RowIds, 1, j), IF j <= n THEN d[j] ELSE t)]

verify ==
  /\ pc = "verify"
  /\ Call(IF Live > 0 THEN CanVerify(RowIds) ELSE CanAppend(RowIds),
       /\ IF Live > 0 THEN Verify(RowIds) /\ UNCHANGED last_count
                      ELSE Extend(RowIds) /\ last_count' = 1
       /\ \E n \in 0 .. Live, t \in Token :
            (n < Live => t # d[n + 1]) /\ logits' = Judged(n, t)
       /\ pc' = "keep"
       /\ UNCHANGED <<stopped, request, output, fed, have_id, next_id, cycle>>)

\* Mutant: every row that agrees counts, also after one that does not.
Accepted_holes == Cardinality({j \in 1 .. Live : logits[j].argmax = d[j]})

\* Drafts whose row before them says the same.
Accepted == Max({n \in 0 .. Live : \A j \in 1 .. n : logits[j].argmax = d[j]})

\* Mutant: the first rejected draft is kept too.
Kept_rejected == IF stopped THEN 1 ELSE Min({Accepted + 2, Live + 1})

Kept == IF stopped THEN 1 ELSE Accepted + 1

keep ==
  /\ pc = "keep"
  /\ Call(Live > 0 => CanKeep(Kept),
       /\ IF Live > 0 THEN Keep(Kept) ELSE UNCHANGED gvars
       /\ last_count' = Kept
       /\ pend_off' = 0 /\ have_id' = FALSE
       /\ pc' = "accept"
       /\ UNCHANGED <<stopped, request, output, fed, next_id, logits, k, d, pend, mtp_done>>)

\* The accepted drafts are emitted, unless the stop flag has been raised since.
accept ==
  LET m    == Accepted
      room == o.stop_after - Len(generated)
      n    == Min({m, room})
  IN
  /\ pc = "accept"
  /\ IF stopped
       THEN end /\ UNCHANGED <<output, logits, pend>>
       ELSE /\ pend' = SubSeq(d, 1, m)
            /\ generated' = generated \o SubSeq(d, 1, n)
            /\ IF n > 0 /\ n = room
                 THEN end /\ reason' = "cancelled" /\ UNCHANGED logits
                 ELSE /\ pc' = "next" /\ UNCHANGED reason
                      /\ logits' = <<logits[m + 1]>>
  /\ d' = <<>>
  /\ UNCHANGED <<gvars, stopped, request, fed, last_count, have_id, next_id, k, pend_off,
                 mtp_done>>

\* The predictor is left at its confirmed position. The chat drops a message
\* that was stopped before the first token of its reply. (The logits stay, but
\* are no row of any later text: Draft stands for that.)
finish ==
  LET why  == IF stopped THEN "cancelled" ELSE reason
      rest == /\ reason' = why
              /\ transcript' = IF chat /\ (generated # <<>> \/ why # "cancelled")
                                 THEN prompt \o generated ELSE transcript
              /\ pc' = "idle" /\ fed' = 0
              /\ have_id' = FALSE /\ next_id' = Draft(Newline) /\ logits' = <<Draft(Newline)>>
              /\ k' = 0 /\ d' = <<>> /\ pend' = <<>> /\ pend_off' = 0 /\ mtp_done' = 0
              /\ UNCHANGED <<stopped, chat, prompt, o, generated, last_count>>
  IN
  /\ pc = "end"
  /\ IF enabled /\ Len(partner) > mtp_done
       THEN Call(CanRewind(mtp_done), Rewind(mtp_done) /\ rest)
       ELSE rest /\ UNCHANGED gvars

-----------------------------------------------------------------------------
Program ==
  \/ prefill \/ pair_prompt \/ start_decode
  \/ emit_next \/ plan \/ catch_up \/ chain \/ step \/ verify \/ keep \/ accept
  \/ finish

User ==
  \/ \E body \in Bodies : reply(body)
  \/ forget
  \/ \E body \in Bodies, c \in Chunks, n \in Limits, s \in Limits \cup {Unlimited},
        b \in BOOLEAN : serve(body, c, n, s, b)
  \/ interrupt

Next == Program \/ User
Spec == Init /\ [][Next]_vars /\ WF_vars(Program)

-----------------------------------------------------------------------------
(* Properties                                                              *)

\* Types; a reply never exceeds what was asked for, nor the context.
TypeOK ==
  /\ pc \in {"idle", "prefill", "pairs", "next", "plan", "catch_up", "chain", "step",
             "verify", "keep", "accept", "end", "dead"}
  /\ reason \in {"length", "stop", "cancelled"}
  /\ Len(prompt) + Len(generated) <= Capacity
  /\ pc # "idle" => /\ Len(generated) <= o.max_new
                    /\ Len(generated) <= o.stop_after
  /\ Len(text) <= Capacity /\ Len(partner) <= Len(text) + VerifyRows
  /\ last_count \in 0 .. MaxTokens /\ k \in 0 .. (VerifyRows - 1)
  /\ Len(d) <= k /\ Len(pend) < VerifyRows

\* The program never calls the graph in a way it refuses: it would exit.
NeverRefused == pc # "dead"

\* Every token emitted is the argmax of the model for exactly the text before
\* it, whatever was drafted, accepted or stopped: plain greedy decoding.
PlainGreedy ==
  [][Len(generated') > Len(generated) =>
       \A j \in 1 .. (Len(generated') - Len(generated)) :
         LET i == Len(generated) + j IN
         (IF have_id THEN next_id ELSE logits[j])
           = Row(prompt \o SubSeq(generated', 1, i - 1), generated'[i])]_vars

\* A reply ends for the reason it gives, and no stop token is passed over.
EndsForItsReason ==
  pc = "idle" =>
    /\ \A j \in 1 .. (Len(generated) - 1) : ~IsStop(generated[j])
    /\ reason = "stop" => generated # <<>> /\ IsStop(LastOf(generated))
    /\ reason = "length" => Len(generated) = o.max_new

\* Between turns the graph holds the beginning of the conversation, or is so
\* far ahead of it that the next turn replays.
PrefixOrReplay ==
  pc = "idle" /\ chat /\ Len(text) <= Len(transcript)
    => text = SubSeq(transcript, 1, Len(text))

\* The confirmed rows of the predictor are paired with the tokens that follow
\* them, also after a turn that was stopped or dropped.
PredictorFollows ==
  pc \notin {"idle", "dead"} /\ enabled =>
    LET known     == prompt \o generated
        confirmed == IF pc \in {"prefill", "pairs"} THEN Len(partner)
                     ELSE Min({mtp_done, Len(partner)})
    IN  confirmed < Len(known)
        /\ \A p \in 1 .. confirmed : partner[p] = known[p + 1]

\* A turn that finds the stop flag up emits nothing more and appends no more to
\* the trunk than the cycle under way had decided on: no chunk, no new cycle.
NothingAfterStop ==
  [][stopped /\ stopped' =>
       /\ generated' = generated
       /\ Len(text') > Len(text) => pc \in {"step", "verify"}]_vars

\* Every turn ends.
TurnEnds == pc # "idle" ~> pc = "idle"
=============================================================================
