----------------------------- MODULE TurnProofs -----------------------------
(***************************************************************************)
(* The generation turn, for every vocabulary, capacity, chunk, number of   *)
(* verify rows, draft policy, model and moment of a stop: no call of the   *)
(* graph is refused and the output is that of plain greedy decoding.       *)
(***************************************************************************)
EXTENDS Turn, Facts

\* The conversation so far, and how far the predictor's rows are confirmed.
Known == prompt \o generated
Done  == IF pc \in {"prefill", "pairs"} THEN Len(partner) ELSE mtp_done

Busy     == pc \notin {"idle", "dead"}
Drafting == pc \in {"chain", "verify"}
Emitted  == pc \in {"plan", "catch_up", "chain", "step", "verify"}
Judging  == pc \in {"keep", "accept"}

Rows == [of : Seq(Token), argmax : Token]

\* No stop token among the first n drafts, or among the first n tokens emitted.
Plain(n)  == \A j \in 1 .. n : ~IsStop(d[j])
Silent(n) == \A j \in 1 .. n : ~IsStop(generated[j])

Typed ==
  /\ pc \in {"idle", "prefill", "pairs", "next", "plan", "catch_up", "chain", "step",
             "verify", "keep", "accept", "end"}
  /\ valid = TRUE /\ enabled \in BOOLEAN /\ chat \in BOOLEAN /\ stopped \in BOOLEAN
  /\ text \in Seq(Token) /\ Len(text) <= Capacity /\ partner \in Seq(Token)
  /\ first \in Nat /\ count \in Nat /\ chained \in Nat /\ pending \in Nat
  /\ transcript \in Seq(Token) /\ prompt \in Seq(Token) /\ generated \in Seq(Token)
  /\ o \in [chunk : 1 .. MaxTokens, max_new : Nat, stop_after : Nat,
            keep_predictor : BOOLEAN, use_id : BOOLEAN]
  /\ reason \in {"length", "stop", "cancelled"}
  /\ fed \in Nat /\ last_count \in Nat /\ pend_off \in Nat /\ mtp_done \in Nat
  /\ have_id \in BOOLEAN /\ next_id \in Rows /\ logits \in Seq(Rows) /\ Len(logits) >= 1
  /\ k \in 0 .. (VerifyRows - 1) /\ d \in Seq(Token) /\ pend \in Seq(Token)
  /\ ~Drafting /\ ~Judging => d = <<>>

\* The rows on offer are the last of the text, and the program counts them.
Counted ==
  /\ count > 0 => first + count = Len(text)
  /\ chat /\ pc # "keep" => last_count = count

\* A turn under way.
Budget ==
  Busy =>
    /\ prompt # <<>> /\ Len(prompt) + o.max_new <= Capacity
    /\ Len(generated) <= o.max_new /\ Len(generated) <= o.stop_after
    /\ chat => \E body \in Bodies : prompt = transcript \o Suffix(body)

\* The text and the conversation never part.
Ahead == Busy /\ Len(text) <= Len(Known) => text = SubSeq(Known, 1, Len(text))

Follows ==
  Busy /\ enabled =>
    /\ Done <= Len(text) /\ Done < Len(Known) /\ Done <= Len(partner)
    /\ Len(partner) <= Done + VerifyRows - 2
    /\ \A p \in 1 .. Done : partner[p] = Known[p + 1]

LastRead == (IF o.use_id THEN next_id ELSE logits[1]).of = text

Prefilling ==
  /\ pc = "prefill" =>
       /\ fed = Len(text) /\ fed <= Len(prompt)
       /\ enabled /\ ~stopped =>
            Len(partner) = IF fed < Len(prompt) THEN fed ELSE fed - 1
       /\ fed = Len(prompt) => LastRead /\ pend_off + 1 = count
  /\ pc = "pairs" =>
       /\ fed + last_count = Len(text) /\ fed + last_count <= Len(prompt)
       /\ last_count = count /\ count > 0 /\ pend_off + 1 = count
       /\ enabled /\ ~stopped => Len(partner) = fed
       /\ Len(text) = Len(prompt) => LastRead
  /\ pc \in {"prefill", "pairs"} => generated = <<>> /\ reason = "length"

\* The pairs due to the predictor are those of the rows kept last.
Due ==
  enabled /\ (o.keep_predictor \/ Kmax > 0) =>
    /\ first + pend_off = mtp_done /\ pend_off + Len(pend) + 1 = count
    /\ pend = SubSeq(text, mtp_done + 2, Len(text))

Decoding ==
  /\ pc = "next" =>
       /\ reason = "length" \/ (reason = "cancelled" /\ stopped)
       /\ Silent(Len(generated))
       /\ ~stopped => text = Known /\ Argmax.of = Known /\ Due
  /\ Emitted =>
       /\ generated # <<>> /\ Known = text \o <<LastOf(generated)>>
       /\ Silent(Len(generated)) /\ reason = "length"
       /\ Len(generated) < o.stop_after /\ Len(generated) < o.max_new
  /\ pc \in {"catch_up", "chain", "step", "verify"} => k <= Kmax
  /\ pc = "plan" => Due
  /\ pc = "catch_up" =>
       Due /\ enabled /\ (o.keep_predictor \/ Kmax > 0) /\ Len(partner) = mtp_done
  /\ pc = "step" =>
       (enabled /\ (o.keep_predictor \/ Kmax > 0) => mtp_done = Len(text) /\ pend = <<>>)
  /\ Drafting =>
       /\ enabled /\ mtp_done = Len(text) /\ pend = <<>> /\ chained > 0
       /\ Len(d) \in 1 .. k /\ Len(partner) + 1 = mtp_done + Len(d)
       /\ Plain(Len(d) - 1)
  /\ pc = "chain" => Len(d) < k /\ ~IsStop(LastOf(d))

\* What a verify leaves to be judged.
ToJudge ==
  Judging =>
    /\ enabled /\ Len(d) >= 1 /\ Plain(Live) /\ pend = <<>> /\ reason = "length"
    /\ generated # <<>> /\ Silent(Len(generated))
    /\ Live + Len(generated) < o.stop_after /\ Live + Len(generated) < o.max_new
    /\ mtp_done + 1 = Len(Known) /\ mtp_done = first
    /\ Len(logits) = Live + 1
    /\ \A j \in 1 .. (Live + 1) : logits[j].of = Known \o SubSeq(d, 1, j - 1)
    /\ pc = "keep" => count = Live + 1 /\ (Live > 0 => pending = Live + 1)
    /\ pc = "accept" =>
         /\ count \in 1 .. (Live + 1) /\ pend_off = 0 /\ have_id = FALSE
         /\ ~stopped => count = Accepted + 1
    /\ text = Known \o SubSeq(d, 1, count - 1)

Ended ==
  pc = "end" =>
    /\ Silent(Len(generated) - 1)
    /\ reason = "stop" => generated # <<>> /\ IsStop(LastOf(generated))
    /\ reason = "length" => stopped \/ Len(generated) = o.max_new

\* Between turns the chat can go on.
Closing == IF LastOf(transcript) = ImEnd THEN Newline ELSE ImEnd
Resting ==
  pc = "idle" /\ chat /\ Len(text) <= Len(transcript) =>
    /\ text = SubSeq(transcript, 1, Len(text))
    /\ enabled =>
         /\ Len(partner) <= Len(text)
         /\ \A p \in 1 .. Len(partner) :
              partner[p] = IF p < Len(transcript) THEN transcript[p + 1] ELSE Closing

IInv ==
  /\ Typed /\ Counted /\ Budget /\ Ahead /\ Follows
  /\ Prefilling /\ Decoding /\ ToJudge /\ Ended /\ Resting
  /\ EndsForItsReason

-----------------------------------------------------------------------------
(* Lemmas on the state.                                                    *)

\* The limits are numbers.
LEMMA Constants ==
  /\ Capacity \in Nat /\ MaxTokens \in 1 .. Capacity /\ VerifyRows \in 2 .. MaxTokens
  /\ RewindWindow \in Nat /\ VerifyRows - 1 <= RewindWindow
  /\ ImEnd \in Token /\ Newline \in Token /\ Bodies \subseteq Seq(Token) \ {<<>>}
  /\ Chunks \subseteq 1 .. MaxTokens /\ MaxNew \in Nat \ {0} /\ Limits \subseteq Nat
BY TurnAssumption

\* A draft token is a row of the predictor.
LEMMA DraftRow == \A t \in Token : Draft(t) \in Rows /\ <<Draft(t)>> \in Seq(Rows) /\ Len(<<Draft(t)>>) = 1
BY DEF Draft, Row, Rows

\* Lengths are numbers.
LEMMA Lengths ==
  ASSUME Typed
  PROVE  /\ Len(text) \in Nat /\ Len(partner) \in Nat /\ Len(transcript) \in Nat
         /\ Len(prompt) \in Nat /\ Len(generated) \in Nat /\ Len(d) \in Nat /\ Len(pend) \in Nat
         /\ o.chunk \in 1 .. MaxTokens /\ o.max_new \in Nat /\ o.stop_after \in Nat
         /\ o.keep_predictor \in BOOLEAN /\ o.use_id \in BOOLEAN
BY LenProperties DEF Typed

\* What the host knows of the text is a sequence of tokens.
LEMMA KnownTokens ==
  ASSUME Typed
  PROVE  /\ Known \in Seq(Token) /\ Len(Known) = Len(prompt) + Len(generated)
         /\ Len(Known) \in Nat
         /\ generated = <<>> => Known = prompt
<1>1. prompt \in Seq(Token) /\ generated \in Seq(Token)
  BY DEF Typed
<1>2. Len(prompt) \in Nat /\ Len(generated) \in Nat
  BY Lengths
<1> QED
  BY <1>1, <1>2, ConcatProperties, ConcatEmptySeq DEF Known

\* A conversation cut at its own length is whole.
LEMMA AheadIsKnown ==
  ASSUME IInv, Busy, Len(text) = Len(Known)
  PROVE  text = Known
<1>1. Known \in Seq(Token) /\ Len(Known) \in Nat
  BY KnownTokens DEF IInv
<1>2. text = SubSeq(Known, 1, Len(Known))
  BY <1>1 DEF IInv, Ahead
<1> QED
  BY <1>1, <1>2, SubSeqFull

\* The newest token of what the host knows.
LEMMA LastToken ==
  ASSUME NEW s \in Seq(Token), s # <<>>
  PROVE  LastOf(s) \in Token /\ Len(s) >= 1
<1>1. Len(s) \in Nat \ {0}
  BY EmptySeq
<1>2. Len(s) \in 1 .. Len(s)
  BY <1>1
<1> QED
  BY <1>1, <1>2, ElementOfSeq DEF LastOf

\* Drafts are asked for only as far as they can be emitted and verified.
DraftRoom ==
  /\ Kmax \in Int /\ Kmax <= VerifyRows - 1
  /\ Kmax > 0 => /\ enabled
                 /\ Len(generated) + 1 + Kmax <= o.max_new
                 /\ Len(generated) + 1 + Kmax <= o.stop_after
                 /\ Len(text) + 1 + Kmax <= Capacity
  /\ /\ enabled /\ Len(generated) + 2 <= o.max_new /\ Len(generated) + 2 <= o.stop_after
     /\ Len(text) + 2 <= Capacity
     => Kmax > 0

\* A cycle is started only with room for its rows.
LEMMA RoomForDrafts == Typed => DraftRoom
<1> SUFFICES ASSUME Typed PROVE DraftRoom
  OBVIOUS
<1>1. /\ Len(text) \in Nat /\ Len(generated) \in Nat /\ o.max_new \in Nat /\ o.stop_after \in Nat
      /\ Capacity \in Nat /\ VerifyRows \in Nat /\ VerifyRows >= 2 /\ enabled \in BOOLEAN
  BY Lengths, Constants DEF Typed
<1> DEFINE lim  == Min({o.max_new, o.stop_after})
           room == lim - Len(generated)
           some == IF room > 0 THEN room - 1 ELSE 0
           left == Capacity - Len(text) - 1
           rows == VerifyRows - 1
<1>2. lim \in Nat /\ lim = IF o.max_new <= o.stop_after THEN o.max_new ELSE o.stop_after
  BY <1>1, MinOfTwo
<1>3. Kmax = IF enabled THEN Min({rows, some, left}) ELSE 0
  BY DEF Kmax
<1> HIDE DEF lim
<1>4. rows \in Int /\ some \in Int /\ left \in Int
  BY <1>1, <1>2
<1>5. /\ Min({rows, some, left}) \in {rows, some, left}
      /\ Min({rows, some, left}) <= rows /\ Min({rows, some, left}) <= some
      /\ Min({rows, some, left}) <= left
  <2> HIDE DEF rows, some, left
  <2> QED
    BY <1>4, MinOfThree
<1> DEFINE least == Min({rows, some, left})
<1>6. /\ least \in {rows, some, left} /\ least <= rows /\ least <= some /\ least <= left
      /\ Kmax = IF enabled THEN least ELSE 0
  BY <1>3, <1>5
<1> HIDE DEF least
<1>7. CASE ~enabled
  BY <1>1, <1>6, <1>7 DEF DraftRoom
<1>8. CASE enabled
  <2>1. Kmax = least
    BY <1>6, <1>8
  <2>2. least \in Int /\ least <= rows
    BY <1>4, <1>6
  <2>3. ASSUME least > 0
        PROVE  /\ Len(generated) + 1 + least <= o.max_new
               /\ Len(generated) + 1 + least <= o.stop_after
               /\ Len(text) + 1 + least <= Capacity
    BY <1>1, <1>2, <1>6, <2>2, <2>3
  <2>4. ASSUME Len(generated) + 2 <= o.max_new, Len(generated) + 2 <= o.stop_after,
               Len(text) + 2 <= Capacity
        PROVE  least > 0
    BY <1>1, <1>2, <1>6, <2>4
  <2> QED
    BY <1>8, <2>1, <2>2, <2>3, <2>4 DEF DraftRoom
<1> QED
  BY <1>1, <1>7, <1>8

\* The same of the next state.
LEMMA RoomForDraftsNext == Typed' => DraftRoom'
<1>1. (Typed => DraftRoom)'
  BY RoomForDrafts, PTL
<1> QED
  BY <1>1

\* The drafts that are still in play.
LEMMA DraftsLive ==
  ASSUME Typed, Len(d) >= 1
  PROVE  /\ Live \in Nat /\ Live <= Len(d) /\ Live + 1 >= Len(d)
         /\ Plain(Len(d) - 1) => Plain(Live)
         /\ SubSeq(d, 1, Live) \in Seq(Token) /\ Len(SubSeq(d, 1, Live)) = Live
<1>1. Len(d) \in Nat /\ d \in Seq(Token)
  BY Lengths DEF Typed
<1>2. Live \in 0 .. Len(d) /\ Live + 1 >= Len(d)
  BY <1>1 DEF Live
<1>3. Plain(Len(d) - 1) => Plain(Live)
  <2>1. CASE IsStop(LastOf(d))
    BY <2>1 DEF Live
  <2>2. CASE ~IsStop(LastOf(d))
    <3> SUFFICES ASSUME Plain(Len(d) - 1), NEW j \in 1 .. Len(d) PROVE ~IsStop(d[j])
      BY <1>1, <2>2 DEF Plain, Live
    <3>1. CASE j = Len(d)
      BY <2>2, <3>1 DEF LastOf
    <3>2. CASE j # Len(d)
      BY <1>1, <3>2 DEF Plain
    <3> QED
      BY <3>1, <3>2
  <2> QED
    BY <2>1, <2>2
<1> QED
  BY <1>1, <1>2, <1>3, PrefixProperties

\* The drafts an accepted prefix consists of.
LEMMA DraftsAccepted ==
  ASSUME Typed, Len(d) >= 1
  PROVE  Accepted \in 0 .. Live /\ \A j \in 1 .. Accepted : logits[j].argmax = d[j]
<1>1. Live \in Nat
  BY DraftsLive
<1> DEFINE S == {n \in 0 .. Live : \A j \in 1 .. n : logits[j].argmax = d[j]}
<1>2. S \in SUBSET (0 .. Live) /\ 0 \in S
  BY <1>1
<1>3. Max(S) \in S
  <2> HIDE DEF S
  <2> QED
    BY <1>1, <1>2, MaxOfBounded
<1> QED
  BY <1>3 DEF Accepted

-----------------------------------------------------------------------------
(* Between turns.                                                          *)

\* The invariant holds before the first turn.
LEMMA InitIInv == Init => IInv
<1> SUFFICES ASSUME Init PROVE IInv
  OBVIOUS
<1>1. <<>> \in Seq(Token) /\ Len(<<>>) = 0
  BY EmptySeq
<1>2. next_id \in Rows /\ logits \in Seq(Rows) /\ Len(logits) >= 1
  BY Constants, DraftRow DEF Init
<1>3. o \in [chunk : 1 .. MaxTokens, max_new : Nat, stop_after : Nat,
             keep_predictor : BOOLEAN, use_id : BOOLEAN] /\ o.max_new = 0
  BY Constants DEF Init, NoOptions, Unlimited
<1>4. Typed
  <2>1. 0 \in 0 .. (VerifyRows - 1) /\ Capacity \in Nat /\ 0 <= Capacity
    BY Constants
  <2> QED
    BY <1>1, <1>2, <1>3, <2>1 DEF Init, Typed, Drafting, Judging
<1>5. Counted /\ Budget /\ Ahead /\ Follows
  BY DEF Init, Counted, Budget, Ahead, Follows, Busy
<1>6. Prefilling /\ Decoding /\ ToJudge /\ Ended
  BY DEF Init, Prefilling, Decoding, ToJudge, Ended, Emitted, Drafting, Judging
<1>7. Resting
  BY <1>1, SubSeqEmpty DEF Init, Resting
<1>8. EndsForItsReason
  BY <1>1, <1>3 DEF Init, EndsForItsReason
<1> QED
  BY <1>4, <1>5, <1>6, <1>7, <1>8 DEF IInv

\* A turn begins: what the graph holds is a beginning of the prompt, and the
\* predictor has caught up with it.
LEMMA StartStep ==
  ASSUME IInv, pc = "idle",
         NEW options \in [chunk : 1 .. MaxTokens, max_new : Nat, stop_after : Nat,
                          keep_predictor : BOOLEAN, use_id : BOOLEAN],
         Start(options),
         prompt' \in Seq(Token), Len(prompt') + options.max_new <= Capacity,
         chat => \E body \in Bodies : prompt' = transcript \o Suffix(body),
         valid' = TRUE, enabled' = enabled,
         fed' \in Nat, fed' < Len(prompt'), text' = SubSeq(prompt', 1, fed'),
         partner' \in Seq(Token),
         enabled => Len(partner') = fed' /\ \A p \in 1 .. fed' : partner'[p] = prompt'[p + 1],
         first' \in Nat, count' \in Nat, chained' \in Nat, pending' \in Nat, last_count' \in Nat,
         count' > 0 => first' + count' = Len(text'),
         chat => last_count' = count'
  PROVE  IInv'
<1>1. /\ o' = options /\ stopped' = FALSE /\ generated' = <<>> /\ reason' = "length"
      /\ pc' = "prefill" /\ UNCHANGED <<chat, transcript, have_id, next_id, logits, k, d, pend,
                                        pend_off, mtp_done>>
  BY DEF Start, model, cycle
<1>2. Typed /\ d = <<>>
  BY DEF IInv, Typed, Drafting, Judging
<1>3. /\ Len(prompt') \in Nat /\ Capacity \in Nat /\ VerifyRows \in Nat /\ VerifyRows >= 2
      /\ options.max_new \in Nat /\ options.stop_after \in Nat /\ fed' \in 0 .. Len(prompt')
      /\ <<>> \in Seq(Token) /\ Len(<<>>) = 0
  BY Constants, LenProperties, EmptySeq
<1>4. text' \in Seq(Token) /\ Len(text') = fed' /\ Len(text') <= Capacity
  <2>1. text' \in Seq(Token) /\ Len(text') = fed'
    BY <1>3, PrefixProperties
  <2>2. fed' <= Capacity
    BY <1>3
  <2> QED
    BY <2>1, <2>2
<1>5. Typed'
  BY <1>1, <1>2, <1>3, <1>4 DEF Typed, Drafting, Judging
<1>6. Known' = prompt'
  BY <1>1, <1>5, KnownTokens, ConcatEmptySeq DEF Known
<1>7. Counted'
  BY <1>1 DEF Counted
<1>8. Budget'
  <2>1. prompt' # <<>> /\ Len(generated') <= o'.max_new /\ Len(generated') <= o'.stop_after
    BY <1>1, <1>3
  <2>2. chat' => \E body \in Bodies : prompt' = transcript' \o Suffix(body)'
    BY <1>1 DEF Suffix
  <2> QED
    BY <1>1, <2>1, <2>2 DEF Budget
<1>9. Ahead' /\ Follows'
  <2>1. text' = SubSeq(Known', 1, Len(text'))
    BY <1>4, <1>6
  <2>2. Done' = Len(partner')
    BY <1>1 DEF Done
  <2>3. ASSUME enabled'
        PROVE  /\ Done' <= Len(text') /\ Done' < Len(Known') /\ Done' <= Len(partner')
               /\ Len(partner') <= Done' + VerifyRows - 2
               /\ \A p \in 1 .. Done' : partner'[p] = Known'[p + 1]
    <3>1. Done' = fed' /\ Len(partner') = fed' /\ Len(text') = fed'
      BY <1>4, <2>2, <2>3
    <3>2. \A p \in 1 .. fed' : partner'[p] = Known'[p + 1]
      BY <1>6, <2>3
    <3>3. fed' < Len(Known')
      BY <1>6
    <3>4. fed' <= fed' + VerifyRows - 2
      <4>1. \A i, j \in Nat : j >= 2 => i <= i + j - 2
        OBVIOUS
      <4>2. VerifyRows \in Nat /\ VerifyRows >= 2 /\ fed' \in Nat
        BY <1>3
      <4> QED
        BY <4>1, <4>2
    <3>5. Done' <= Len(text') /\ Done' <= Len(partner')
      BY ONLY <1>3, <3>1
    <3> QED
      BY <3>1, <3>2, <3>3, <3>4, <3>5
  <2> QED
    BY <2>1, <2>3 DEF Ahead, Follows
<1>10. Prefilling'
  <2>1. fed' = Len(text') /\ fed' <= Len(prompt') /\ fed' # Len(prompt')
    <3>1. \A i, j \in Nat : i < j => i <= j /\ i # j
      OBVIOUS
    <3>2. fed' \in Nat /\ Len(prompt') \in Nat /\ fed' < Len(prompt') /\ Len(text') = fed'
      BY <1>3, <1>4
    <3> QED
      BY ONLY <3>1, <3>2
  <2>2. enabled' /\ ~stopped' => Len(partner') = IF fed' < Len(prompt') THEN fed' ELSE fed' - 1
    OBVIOUS
  <2>3. pc' # "pairs"
    BY <1>1
  <2> QED
    BY <1>1, <2>1, <2>2, <2>3 DEF Prefilling
<1>11. Decoding' /\ ToJudge' /\ Ended' /\ Resting' /\ EndsForItsReason'
  BY <1>1 DEF Decoding, ToJudge, Ended, Resting, EndsForItsReason, Emitted, Drafting, Judging
<1> QED
  BY <1>5, <1>7, <1>8, <1>9, <1>10, <1>11 DEF IInv

\* A turn begins on an emptied graph.
LEMMA FreshStart ==
  ASSUME IInv, pc = "idle", Reset,
         NEW options \in [chunk : 1 .. MaxTokens, max_new : Nat, stop_after : Nat,
                          keep_predictor : BOOLEAN, use_id : BOOLEAN],
         Start(options),
         prompt' \in Seq(Token), prompt' # <<>>, Len(prompt') + options.max_new <= Capacity,
         chat => \E body \in Bodies : prompt' = transcript \o Suffix(body),
         fed' = 0, last_count' \in Nat, chat => last_count' = 0
  PROVE  IInv'
<1>1. /\ valid' = TRUE /\ text' = <<>> /\ count' = 0 /\ partner' = <<>> /\ chained' = 0
      /\ pending' = 0 /\ first' = first /\ enabled' = enabled
  BY DEF Reset
<1>2. /\ first \in Nat /\ <<>> \in Seq(Token) /\ Len(<<>>) = 0 /\ SubSeq(prompt', 1, 0) = <<>>
  BY EmptySeq, SubSeqEmpty DEF IInv, Typed
<1>3. 0 < Len(prompt')
  BY EmptySeq
<1> QED
  BY <1>1, <1>2, <1>3, StartStep

\* serve: a request replaces the text.
LEMMA ServeStep ==
  ASSUME IInv, NEW body \in Bodies, NEW c \in Chunks, NEW n \in Limits,
         NEW s \in Limits \cup {Unlimited}, NEW b \in BOOLEAN, serve(body, c, n, s, b)
  PROVE  IInv'
<1> DEFINE options == [chunk |-> c, max_new |-> n, stop_after |-> s,
                       keep_predictor |-> FALSE, use_id |-> b]
<1>1. /\ pc = "idle" /\ ~chat /\ n <= Capacity - Len(body) /\ Reset /\ prompt' = body
      /\ Start(options) /\ fed' = 0 /\ last_count' = last_count
  BY DEF serve
<1>2. /\ body \in Seq(Token) /\ body # <<>> /\ n \in Nat /\ s \in Nat /\ c \in 1 .. MaxTokens
      /\ last_count \in Nat /\ Capacity \in Nat
  BY Constants DEF Unlimited, IInv, Typed
<1>3. Len(body) \in Nat
  BY <1>2, LenProperties
<1>4. options \in [chunk : 1 .. MaxTokens, max_new : Nat, stop_after : Nat,
                   keep_predictor : BOOLEAN, use_id : BOOLEAN] /\ options.max_new = n
  BY <1>2
<1> HIDE DEF options
<1>5. Len(prompt') + options.max_new <= Capacity
  BY <1>1, <1>2, <1>3, <1>4
<1> QED
  BY <1>1, <1>2, <1>4, <1>5, FreshStart

\* forget: a reset empties text and pairs.
LEMMA ForgetStep ==
  ASSUME IInv, forget PROVE IInv'
<1>1. /\ pc = "idle" /\ valid' = TRUE /\ text' = <<>> /\ count' = 0 /\ partner' = <<>> /\ chained' = 0
      /\ pending' = 0 /\ transcript' = <<>> /\ last_count' = (IF chat THEN 0 ELSE last_count)
      /\ UNCHANGED <<first, enabled, pc, chat, stopped, prompt, o, generated, reason, fed, have_id,
                     next_id, logits, k, d, pend, pend_off, mtp_done>>
  BY DEF forget, Reset, output, model, cycle
<1>2. <<>> \in Seq(Token) /\ Len(<<>>) = 0 /\ SubSeq(<<>>, 1, 0) = <<>> /\ Capacity \in Nat
  BY EmptySeq, SubSeqEmpty, Constants
<1>3. Typed'
  BY <1>1, <1>2 DEF IInv, Typed, Drafting, Judging
<1>4. Counted' /\ Budget' /\ Ahead' /\ Follows'
  BY <1>1 DEF Counted, Budget, Ahead, Follows, Busy
<1>5. Prefilling' /\ Decoding' /\ ToJudge' /\ Ended'
  BY <1>1 DEF Prefilling, Decoding, ToJudge, Ended, Emitted, Drafting, Judging
<1>6. Resting'
  BY <1>1, <1>2 DEF Resting
<1>7. EndsForItsReason'
  BY <1>1 DEF IInv, EndsForItsReason
<1> QED
  BY <1>3, <1>4, <1>5, <1>6, <1>7 DEF IInv

\* A stop may come at any moment of a turn.
LEMMA InterruptStep ==
  ASSUME IInv, interrupt PROVE IInv'
<1>1. /\ pc # "idle" /\ stopped' = TRUE
      /\ UNCHANGED <<valid, text, first, count, enabled, partner, chained, pending>>
      /\ UNCHANGED <<pc, chat, transcript, prompt, o, generated, reason, fed, last_count, have_id,
                     next_id, logits, k, d, pend, pend_off, mtp_done>>
  BY DEF interrupt, gvars, trunk, predictor, request, output, model, cycle
<1>2. Known' = Known /\ Done' = Done /\ Kmax' = Kmax /\ Live' = Live
  BY <1>1 DEF Known, Done, Kmax, Live, LastOf
<1>3. Typed'
  BY <1>1 DEF IInv, Typed, Drafting, Judging
<1>4. Counted' /\ Budget'
  BY <1>1 DEF IInv, Counted, Budget, Busy, Suffix
<1>5. Ahead' /\ Follows'
  BY <1>1, <1>2 DEF IInv, Ahead, Follows, Busy
<1>6. Prefilling'
  BY <1>1 DEF IInv, Prefilling, LastRead
<1>7. Due => Due'
  BY <1>1, <1>2 DEF Due
<1>8. Decoding'
  BY <1>1, <1>2, <1>7 DEF IInv, Decoding, Emitted, Drafting, Silent, Plain, LastOf
<1>9. ToJudge'
  BY <1>1, <1>2 DEF IInv, ToJudge, Judging, Silent, Plain
<1>10. Ended' /\ Resting' /\ EndsForItsReason'
  BY <1>1 DEF IInv, Ended, Resting, EndsForItsReason, Silent
<1> QED
  BY <1>3, <1>4, <1>5, <1>6, <1>8, <1>9, <1>10 DEF IInv

\* What a new message adds to the conversation.
LEMMA SuffixProperties ==
  ASSUME Typed, NEW body \in Bodies
  PROVE  /\ Suffix(body) \in Seq(Token) /\ Len(Suffix(body)) >= 1 /\ Len(Suffix(body)) \in Nat
         /\ transcript # <<>> => Suffix(body)[1] = Closing
<1>1. body \in Seq(Token) /\ Len(body) \in Nat /\ Len(body) >= 1 /\ ImEnd \in Token /\ Newline \in Token
  BY Constants, EmptySeq
<1>2. CASE transcript = <<>>
  BY <1>1, <1>2 DEF Suffix
<1>3. CASE transcript # <<>>
  <2> DEFINE head == IF LastOf(transcript) = ImEnd THEN <<Newline>> ELSE <<ImEnd, Newline>>
  <2>1. head \in Seq(Token) /\ Len(head) \in Nat /\ Len(head) >= 1 /\ head[1] = Closing
    BY <1>1 DEF Closing
  <2>2. Suffix(body) = head \o body
    BY <1>3 DEF Suffix
  <2> HIDE DEF head
  <2>3. /\ head \o body \in Seq(Token) /\ Len(head \o body) = Len(head) + Len(body)
        /\ (head \o body)[1] = head[1]
    BY <1>1, <2>1, ConcatProperties
  <2> QED
    BY <1>1, <2>1, <2>2, <2>3
<1> QED
  BY <1>2, <1>3

\* The graph of a resting chat stands at a beginning of the new prompt, and the
\* predictor's rows are paired with what follows them in it.
LEMMA RestingFollows ==
  ASSUME IInv, pc = "idle", chat, Len(text) <= Len(transcript), NEW body \in Bodies
  PROVE  LET whole == transcript \o Suffix(body)
         IN  /\ whole \in Seq(Token) /\ Len(whole) \in Nat /\ Len(whole) > Len(transcript)
             /\ text = SubSeq(whole, 1, Len(text))
             /\ enabled => /\ Len(partner) <= Len(text)
                           /\ \A p \in 1 .. Len(partner) : partner[p] = whole[p + 1]
<1> DEFINE whole == transcript \o Suffix(body)
<1>1. /\ Suffix(body) \in Seq(Token) /\ Len(Suffix(body)) >= 1 /\ Len(Suffix(body)) \in Nat
      /\ transcript # <<>> => Suffix(body)[1] = Closing
  BY SuffixProperties DEF IInv
<1>2. /\ transcript \in Seq(Token) /\ Len(transcript) \in Nat /\ Len(text) \in Nat /\ Len(partner) \in Nat
  BY Lengths DEF IInv, Typed
<1>3. /\ whole \in Seq(Token) /\ Len(whole) = Len(transcript) + Len(Suffix(body))
      /\ \A i \in 1 .. Len(transcript) + Len(Suffix(body)) :
           whole[i] = IF i <= Len(transcript) THEN transcript[i] ELSE Suffix(body)[i - Len(transcript)]
  BY <1>1, <1>2, ConcatProperties
<1>4. /\ text = SubSeq(transcript, 1, Len(text))
      /\ enabled => /\ Len(partner) <= Len(text)
                    /\ \A p \in 1 .. Len(partner) :
                         partner[p] = IF p < Len(transcript) THEN transcript[p + 1] ELSE Closing
  BY DEF IInv, Resting
<1>5. text = SubSeq(whole, 1, Len(text))
  BY <1>1, <1>2, <1>4, PrefixOfExtended
<1>6. ASSUME enabled, NEW p \in 1 .. Len(partner) PROVE partner[p] = whole[p + 1]
  <2>1. CASE p < Len(transcript)
    <3>1. p + 1 \in 1 .. Len(transcript) + Len(Suffix(body)) /\ p + 1 <= Len(transcript)
      BY <1>1, <1>2, <2>1
    <3> QED
      BY <1>3, <1>4, <1>6, <2>1, <3>1
  <2>2. CASE ~(p < Len(transcript))
    <3>1. p = Len(transcript)
      BY <1>2, <1>4, <1>6, <2>2
    <3>2. transcript # <<>>
      BY <3>1, EmptySeq
    <3>3. /\ p + 1 \in 1 .. Len(transcript) + Len(Suffix(body)) /\ ~(p + 1 <= Len(transcript))
          /\ p + 1 - Len(transcript) = 1
      BY <1>1, <1>2, <3>1
    <3>4. whole[p + 1] = Suffix(body)[1]
      BY <1>3, <3>3
    <3> QED
      BY <1>1, <1>4, <1>6, <2>2, <3>2, <3>4
  <2> QED
    BY <2>1, <2>2
<1>7. Len(whole) \in Nat /\ Len(whole) > Len(transcript)
  BY <1>1, <1>2, <1>3
<1> QED
  BY <1>3, <1>4, <1>5, <1>6, <1>7

\* The predictor catches up before a reply with the rows of the last append.
LEMMA CatchUpBefore ==
  ASSUME IInv, pc = "idle", chat, Len(text) <= Len(transcript), NEW body \in Bodies,
         enabled, Len(partner) < Len(text), Len(partner) + last_count >= Len(text)
  PROVE  LET whole == transcript \o Suffix(body)
             offset == Len(partner) - (Len(text) - last_count)
             ts == SubSeq(whole, Len(partner) + 2, Len(text) + 1)
         IN  /\ CanPair(offset, ts)
             /\ ts \in Seq(Token) /\ Len(ts) = Len(text) - Len(partner)
             /\ partner \o ts \in Seq(Token) /\ Len(partner \o ts) = Len(text)
             /\ \A p \in 1 .. Len(text) : (partner \o ts)[p] = whole[p + 1]
<1> DEFINE whole == transcript \o Suffix(body)
           offset == Len(partner) - (Len(text) - last_count)
           ts == SubSeq(whole, Len(partner) + 2, Len(text) + 1)
<1>1. /\ whole \in Seq(Token) /\ Len(whole) \in Nat /\ Len(whole) > Len(transcript)
      /\ \A p \in 1 .. Len(partner) : partner[p] = whole[p + 1]
  BY RestingFollows
<1>2. /\ Len(text) \in Nat /\ Len(partner) \in Nat /\ Len(transcript) \in Nat /\ partner \in Seq(Token)
      /\ Len(text) <= Capacity /\ Capacity \in Nat /\ valid = TRUE
      /\ count \in Nat /\ first \in Nat /\ last_count = count
      /\ count > 0 => first + count = Len(text)
  BY Lengths, Constants DEF IInv, Typed, Counted
<1> HIDE DEF whole
<1>3. /\ ts \in Seq(Token) /\ Len(ts) = Len(text) - Len(partner)
      /\ \A i \in 1 .. (Len(text) - Len(partner)) : ts[i] = whole[Len(partner) + 1 + i]
  <2> DEFINE m == Len(partner) + 1
             n == Len(text) + 1
  <2>1. /\ n \in 0 .. Len(whole) /\ m \in 0 .. n /\ n - m = Len(text) - Len(partner)
        /\ m + 1 = Len(partner) + 2
    BY <1>1, <1>2
  <2> HIDE DEF m, n
  <2>2. /\ SubSeq(whole, m + 1, n) \in Seq(Token) /\ Len(SubSeq(whole, m + 1, n)) = n - m
        /\ \A i \in 1 .. (n - m) : SubSeq(whole, m + 1, n)[i] = whole[m + i]
    BY <1>1, <2>1, SegmentProperties
  <2> QED
    BY <2>1, <2>2 DEF m, n
<1> HIDE DEF ts
<1>4. /\ offset + Len(ts) = count /\ Len(partner) = first + offset
      /\ Len(ts) \in 1 .. (Capacity - Len(partner))
  <2>1. \A t, p, c, f, n, cap \in Nat :
          p < t /\ p + c >= t /\ (c > 0 => f + c = t) /\ t <= cap /\ n = t - p
            => /\ (p - (t - c)) + n = c /\ p = f + (p - (t - c)) /\ n \in 1 .. (cap - p)
    OBVIOUS
  <2>2. Len(ts) = Len(text) - Len(partner) /\ Len(ts) \in Nat
    BY <1>2, <1>3
  <2>3. offset = Len(partner) - (Len(text) - count)
    BY <1>2
  <2> HIDE DEF offset
  <2> QED
    BY <1>2, <2>1, <2>2, <2>3
<1>5. CanPair(offset, ts)
  BY <1>2, <1>4 DEF CanPair
<1>6. /\ partner \o ts \in Seq(Token) /\ Len(partner \o ts) = Len(partner) + Len(ts)
      /\ \A p \in 1 .. Len(partner) + Len(ts) :
           (partner \o ts)[p] = IF p <= Len(partner) THEN partner[p] ELSE ts[p - Len(partner)]
  BY <1>2, <1>3, ConcatProperties
<1>7. Len(partner \o ts) = Len(text) /\ Len(partner) + Len(ts) = Len(text)
  BY <1>2, <1>3, <1>6
<1>8. ASSUME NEW p \in 1 .. Len(text) PROVE (partner \o ts)[p] = whole[p + 1]
  <2>1. CASE p <= Len(partner)
    BY <1>1, <1>2, <1>6, <1>7, <2>1
  <2>2. CASE ~(p <= Len(partner))
    <3>1. p - Len(partner) \in 1 .. (Len(text) - Len(partner))
          /\ Len(partner) + 1 + (p - Len(partner)) = p + 1
      BY <1>2, <2>2
    <3>2. ts[p - Len(partner)] = whole[Len(partner) + 1 + (p - Len(partner))]
      BY <1>3, <3>1
    <3> QED
      BY <1>6, <1>7, <2>2, <3>1, <3>2
  <2> QED
    BY <2>1, <2>2
<1> QED
  BY <1>3, <1>5, <1>6, <1>7, <1>8 DEF whole, ts

\* reply: a message of the chat, with a replay if the graph holds another text.
LEMMA ReplyStep ==
  ASSUME IInv, NEW body \in Bodies, reply(body) PROVE IInv'
<1> DEFINE whole == transcript \o Suffix(body)
           room == Capacity - Len(whole)
           pos == Len(text)
           mpos == IF enabled THEN Len(partner) ELSE pos
           options(n) == [o EXCEPT !.max_new = n, !.keep_predictor = TRUE]
           go == prompt' = whole /\ \E n \in {room, Min({MaxNew, room})} : Start(options(n))
<1>1. pc = "idle" /\ chat /\ room > 0
  BY DEF reply
<1>2. /\ Capacity \in Nat /\ MaxNew \in Nat \ {0}
      /\ o \in [chunk : 1 .. MaxTokens, max_new : Nat, stop_after : Nat,
                keep_predictor : BOOLEAN, use_id : BOOLEAN]
      /\ transcript \in Seq(Token) /\ Len(transcript) \in Nat /\ Len(text) \in Nat
      /\ Len(partner) \in Nat /\ last_count = count /\ count \in Nat /\ first \in Nat
      /\ chained \in Nat /\ pending \in Nat /\ valid = TRUE /\ partner \in Seq(Token)
      /\ count > 0 => first + count = Len(text)
      /\ enabled \in BOOLEAN
  BY <1>1, Constants, Lengths DEF IInv, Typed, Counted
<1>3. whole \in Seq(Token) /\ Len(whole) \in Nat /\ Len(whole) > Len(transcript)
  BY <1>2, SuffixProperties, ConcatProperties DEF IInv
<1>4. ASSUME go
      PROVE  \E options1 \in [chunk : 1 .. MaxTokens, max_new : Nat, stop_after : Nat,
                              keep_predictor : BOOLEAN, use_id : BOOLEAN] :
               /\ Start(options1) /\ Len(prompt') + options1.max_new <= Capacity
               /\ prompt' = whole
  <2>1. PICK n \in {room, Min({MaxNew, room})} : Start(options(n))
    BY <1>4
  <2>2. n \in Nat /\ n <= room
    <3>1. room \in Nat /\ MaxNew \in Nat
      BY <1>1, <1>2, <1>3
    <3> HIDE DEF room
    <3>2. Min({MaxNew, room}) = IF MaxNew <= room THEN MaxNew ELSE room
      BY <3>1, MinOfTwo
    <3> QED
      BY <3>1, <3>2
  <2>3. /\ options(n) \in [chunk : 1 .. MaxTokens, max_new : Nat, stop_after : Nat,
                           keep_predictor : BOOLEAN, use_id : BOOLEAN]
        /\ options(n).max_new = n
    BY <1>2, <2>2
  <2>4. Len(whole) + n <= Capacity
    BY <1>2, <1>3, <2>2
  <2> HIDE DEF whole, options
  <2> QED
    BY <1>4, <2>1, <2>3, <2>4
<1>5. prompt' = whole => prompt' \in Seq(Token) /\ prompt' # <<>>
                         /\ \E b \in Bodies : prompt' = transcript \o Suffix(b)
  <2>1. whole # <<>>
    BY <1>2, <1>3, EmptySeq
  <2>2. \E b \in Bodies : whole = transcript \o Suffix(b)
    OBVIOUS
  <2> HIDE DEF whole
  <2> QED
    BY <1>3, <2>1, <2>2
<1> HIDE DEF go, whole, options
<1>6. CASE Reset /\ go /\ fed' = 0 /\ last_count' = 0
  <2>1. PICK options1 \in [chunk : 1 .. MaxTokens, max_new : Nat, stop_after : Nat,
                           keep_predictor : BOOLEAN, use_id : BOOLEAN] :
               /\ Start(options1) /\ Len(prompt') + options1.max_new <= Capacity
               /\ prompt' = whole
    BY <1>4, <1>6
  <2> QED
    BY <1>1, <1>5, <1>6, <2>1, FreshStart
<1>7. CASE /\ pos <= Len(transcript) /\ mpos + last_count >= pos /\ mpos < pos
           /\ LET offset == mpos - (pos - last_count)
                  ts     == SubSeq(whole, mpos + 2, pos + 1)
              IN  Call(CanPair(offset, ts),
                       Pair(offset, ts) /\ go /\ fed' = pos /\ UNCHANGED last_count)
  <2> DEFINE ts == SubSeq(whole, Len(partner) + 2, pos + 1)
             offset == Len(partner) - (pos - last_count)
  <2>1. enabled /\ mpos = Len(partner) /\ Len(partner) < pos
    BY <1>2, <1>7
  <2>2. /\ CanPair(offset, ts)
        /\ ts \in Seq(Token) /\ Len(ts) = pos - Len(partner)
        /\ partner \o ts \in Seq(Token) /\ Len(partner \o ts) = pos
        /\ \A p \in 1 .. pos : (partner \o ts)[p] = whole[p + 1]
    BY <1>1, <1>7, <2>1, CatchUpBefore DEF whole
  <2>3. Pair(offset, ts) /\ go /\ fed' = pos /\ last_count' = last_count
    BY <1>7, <2>1, <2>2 DEF Call
  <2> HIDE DEF ts, offset
  <2>4. /\ partner' = partner \o ts /\ chained' = Len(ts)
        /\ UNCHANGED <<valid, text, first, count, enabled, pending>>
    BY <2>3 DEF Pair, Paired, trunk
  <2>5. PICK options1 \in [chunk : 1 .. MaxTokens, max_new : Nat, stop_after : Nat,
                           keep_predictor : BOOLEAN, use_id : BOOLEAN] :
               /\ Start(options1) /\ Len(prompt') + options1.max_new <= Capacity
               /\ prompt' = whole
    BY <1>4, <2>3
  <2>6. text' = SubSeq(prompt', 1, fed') /\ fed' < Len(prompt') /\ fed' \in Nat
    <3>1. text = SubSeq(whole, 1, pos)
      BY <1>1, <1>7, RestingFollows DEF whole
    <3>2. text' = text /\ prompt' = whole /\ fed' = Len(text)
      BY <2>3, <2>4, <2>5
    <3>3. Len(text) < Len(whole)
      BY <1>2, <1>3, <1>7
    <3> QED
      BY <1>2, <3>1, <3>2, <3>3
  <2>7. /\ partner' \in Seq(Token) /\ chained' \in Nat
        /\ Len(partner') = fed' /\ \A p \in 1 .. fed' : partner'[p] = prompt'[p + 1]
    <3>1. fed' = Len(text) /\ prompt' = whole /\ partner' = partner \o ts /\ chained' = Len(ts)
      BY <2>3, <2>4, <2>5
    <3>2. Len(ts) \in Nat
      BY <1>2, <2>1, <2>2
    <3> QED
      BY <2>2, <3>1, <3>2
  <2> QED
    BY <1>1, <1>2, <1>5, <2>3, <2>4, <2>5, <2>6, <2>7, StartStep
<1>8. CASE /\ pos <= Len(transcript) /\ mpos >= pos
           /\ go /\ fed' = pos /\ UNCHANGED <<gvars, last_count>>
  <2>1. PICK options1 \in [chunk : 1 .. MaxTokens, max_new : Nat, stop_after : Nat,
                           keep_predictor : BOOLEAN, use_id : BOOLEAN] :
               /\ Start(options1) /\ Len(prompt') + options1.max_new <= Capacity
               /\ prompt' = whole
    BY <1>4, <1>8
  <2>2. /\ UNCHANGED <<valid, text, first, count, enabled, partner, chained, pending, last_count>>
        /\ fed' = pos
    BY <1>8 DEF gvars, trunk, predictor
  <2>3. /\ text = SubSeq(whole, 1, pos)
        /\ enabled => /\ Len(partner) <= pos
                      /\ \A p \in 1 .. Len(partner) : partner[p] = whole[p + 1]
    BY <1>1, <1>8, RestingFollows DEF whole
  <2>4. text' = SubSeq(prompt', 1, fed') /\ fed' < Len(prompt') /\ fed' \in Nat
    BY <1>2, <1>3, <1>8, <2>1, <2>2, <2>3
  <2>5. enabled => Len(partner') = fed' /\ \A p \in 1 .. fed' : partner'[p] = prompt'[p + 1]
    BY <1>2, <1>8, <2>1, <2>2, <2>3
  <2> QED
    BY <1>1, <1>2, <1>5, <2>1, <2>2, <2>4, <2>5, StartStep
<1> QED
  BY <1>6, <1>7, <1>8 DEF reply, go, whole, options

-----------------------------------------------------------------------------
(* Prefill.                                                                *)

\* What an append reads back is the argmax of the text it ends.
LEMMA ReadBackOf ==
  ASSUME Typed, NEW s \in Seq(Token), ReadBack(s)
  PROVE  /\ next_id' \in Rows /\ logits' \in Seq(Rows) /\ Len(logits') >= 1
         /\ (IF o.use_id THEN next_id' ELSE logits'[1]).of = s
<1>1. PICK t \in Token : IF o.use_id THEN next_id' = Row(s, t) /\ UNCHANGED logits
                                     ELSE logits' = <<Row(s, t)>> /\ UNCHANGED next_id
  BY DEF ReadBack
<1>2. Row(s, t) \in Rows /\ Row(s, t).of = s
  BY DEF Row, Rows
<1> DEFINE r == Row(s, t)
<1>3. <<r>> \in Seq(Rows) /\ Len(<<r>>) = 1 /\ <<r>>[1] = r
  <2> HIDE DEF r
  <2>1. r \in Rows
    BY <1>2 DEF r
  <2> QED
    BY <2>1
<1>4. next_id \in Rows /\ logits \in Seq(Rows) /\ Len(logits) >= 1
  BY DEF Typed
<1>5. r \in Rows /\ r.of = s
  BY <1>2
<1>6. IF o.use_id THEN next_id' = r /\ UNCHANGED logits ELSE logits' = <<r>> /\ UNCHANGED next_id
  BY <1>1
<1> HIDE DEF r
<1>7. CASE o.use_id
  BY <1>4, <1>5, <1>6, <1>7
<1>8. CASE ~o.use_id
  <2>1. logits' = <<r>> /\ next_id' = next_id
    BY <1>6, <1>8
  <2>2. logits'[1] = r
    BY <1>3, <2>1
  <2>3. logits' \in Seq(Rows) /\ Len(logits') >= 1
    BY <1>3, <2>1
  <2> QED
    BY <1>4, <1>5, <1>8, <2>1, <2>2, <2>3
<1> QED
  BY <1>7, <1>8

\* prefill: one chunk of the prompt, with the predictor beside it.
LEMMA PrefillStep ==
  ASSUME IInv, prefill PROVE IInv'
<1> DEFINE n  == Min({o.chunk, Len(prompt) - fed})
           ts == SubSeq(prompt, fed + 1, fed + n)
<1>1. /\ pc = "prefill" /\ ~stopped /\ fed < Len(prompt)
      /\ Call(CanAppend(ts),
           /\ Extend(ts)
           /\ last_count' = n /\ pend_off' = LastRow(n)
           /\ IF fed + n = Len(prompt) THEN ReadBack(text')
                                       ELSE UNCHANGED <<next_id, logits>>
           /\ pc' = "pairs"
           /\ UNCHANGED <<stopped, request, output, fed, have_id, k, d, pend, mtp_done>>)
  BY DEF prefill
<1>2. /\ Len(prompt) \in Nat /\ Len(text) \in Nat /\ fed \in Nat /\ o.chunk \in 1 .. MaxTokens
      /\ Capacity \in Nat /\ MaxTokens \in 1 .. Capacity /\ prompt \in Seq(Token) /\ text \in Seq(Token)
      /\ o.max_new \in Nat /\ valid = TRUE /\ d = <<>> /\ enabled \in BOOLEAN
      /\ partner \in Seq(Token) /\ Len(partner) \in Nat /\ Typed
  BY <1>1, Lengths, Constants DEF IInv, Typed, Drafting, Judging
<1>3. /\ fed = Len(text) /\ generated = <<>> /\ reason = "length" /\ Known = prompt
      /\ enabled => Len(partner) = fed
      /\ Len(prompt) + o.max_new <= Capacity
  BY <1>1, KnownTokens DEF IInv, Prefilling, Budget, Busy
<1>4. text = SubSeq(prompt, 1, fed)
  BY <1>1, <1>2, <1>3 DEF IInv, Ahead, Busy
<1>5. n \in 1 .. MaxTokens /\ n <= Len(prompt) - fed
  <2> DEFINE rest == Len(prompt) - fed
  <2>1. rest \in Nat /\ rest >= 1 /\ o.chunk \in Int
    BY <1>1, <1>2
  <2> HIDE DEF rest
  <2>2. Min({o.chunk, rest}) = IF o.chunk <= rest THEN o.chunk ELSE rest
    BY <2>1, MinOfTwo
  <2>3. Min({o.chunk, rest}) \in 1 .. MaxTokens /\ Min({o.chunk, rest}) <= rest
    BY <1>2, <2>1, <2>2
  <2> QED
    BY <2>3 DEF rest
<1> HIDE DEF n
<1>6. ts \in Seq(Token) /\ Len(ts) = n /\ text \o ts = SubSeq(prompt, 1, fed + n)
      /\ SubSeq(prompt, 1, fed + n) \in Seq(Token) /\ Len(SubSeq(prompt, 1, fed + n)) = fed + n
  <2> DEFINE upto == fed + n
  <2>1. upto \in 0 .. Len(prompt) /\ fed \in 0 .. upto /\ upto - fed = n
    BY <1>2, <1>5
  <2> HIDE DEF upto
  <2>2. SubSeq(prompt, fed + 1, upto) \in Seq(Token) /\ Len(SubSeq(prompt, fed + 1, upto)) = n
    BY <1>2, <2>1, SegmentProperties
  <2>3. SubSeq(prompt, 1, upto) \in Seq(Token) /\ Len(SubSeq(prompt, 1, upto)) = upto
    BY <1>2, <2>1, PrefixProperties
  <2>4. text \o SubSeq(prompt, fed + 1, upto) = SubSeq(prompt, 1, upto)
    BY <1>2, <1>4, <2>1, ConcatAdjacentSubSeq
  <2> QED
    BY <2>2, <2>3, <2>4 DEF upto
<1> HIDE DEF ts
<1>7. CanAppend(ts)
  <2>1. Len(ts) \in 1 .. MaxTokens /\ Len(text) + Len(ts) <= Capacity
    BY <1>2, <1>3, <1>5, <1>6
  <2> QED
    BY <1>2, <2>1 DEF CanAppend
<1>8. /\ Extend(ts) /\ last_count' = n /\ pend_off' = n - 1
      /\ IF fed + n = Len(prompt) THEN ReadBack(text') ELSE UNCHANGED <<next_id, logits>>
      /\ pc' = "pairs"
      /\ UNCHANGED <<chat, transcript, prompt, o, generated, reason>>
      /\ UNCHANGED <<stopped, fed, have_id, k, d, pend, mtp_done>>
  BY <1>1, <1>7 DEF Call, LastRow, request, output
<1>9. /\ text' = text \o ts /\ first' = Len(text) /\ count' = Len(ts) /\ pending' = 0
      /\ UNCHANGED <<valid, enabled, partner, chained>>
  BY <1>8 DEF Extend, Extended, predictor
<1>10. text' = SubSeq(prompt, 1, fed + n) /\ text' \in Seq(Token) /\ Len(text') = fed + n
       /\ first' = fed /\ count' = n
  BY <1>3, <1>6, <1>9
<1>11. /\ next_id' \in Rows /\ logits' \in Seq(Rows) /\ Len(logits') >= 1
       /\ fed + n = Len(prompt) => LastRead'
  <2>1. CASE fed + n = Len(prompt)
    BY <1>2, <1>8, <1>10, <2>1, ReadBackOf DEF LastRead
  <2>2. CASE fed + n # Len(prompt)
    BY <1>2, <1>8, <2>2 DEF Typed
  <2> QED
    BY <2>1, <2>2
<1>12. /\ fed + n <= Len(prompt) /\ fed + n <= Capacity /\ n \in Nat /\ n - 1 \in Nat /\ n > 0
       /\ fed + n \in Nat /\ (n - 1) + 1 = n
  BY <1>2, <1>3, <1>5
<1>13. Known' = Known /\ Done' = Done
  BY <1>1, <1>8, <1>9 DEF Known, Done
<1>14. Typed'
  BY <1>2, <1>8, <1>9, <1>10, <1>11, <1>12 DEF Typed, Drafting, Judging
<1>15. Counted'
  BY <1>8, <1>10 DEF Counted
<1>16. Budget'
  BY <1>1, <1>8 DEF IInv, Budget, Busy, Suffix
<1>17. Ahead'
  BY <1>3, <1>10, <1>13 DEF Ahead
<1>18. Follows'
  <2>1. Busy
    BY <1>1 DEF Busy
  <2>2. ASSUME enabled PROVE Done' <= Len(text')
    <3>1. Done <= Len(text) /\ Done = Len(partner)
      BY <1>1, <2>1, <2>2 DEF IInv, Follows, Done
    <3> QED
      BY <1>2, <1>3, <1>5, <1>10, <1>13, <3>1
  <2> QED
    BY <1>9, <1>13, <2>1, <2>2 DEF IInv, Follows
<1>19. Prefilling'
  BY <1>3, <1>8, <1>9, <1>10, <1>11, <1>12 DEF Prefilling
<1>20. Decoding' /\ ToJudge' /\ Ended' /\ Resting' /\ EndsForItsReason'
  BY <1>8 DEF Decoding, ToJudge, Ended, Resting, EndsForItsReason, Emitted, Drafting, Judging
<1> QED
  BY <1>14, <1>15, <1>16, <1>17, <1>18, <1>19, <1>20 DEF IInv

\* The predictor is given the rows of the chunk with the tokens that follow.
LEMMA PairPromptStep ==
  ASSUME IInv, pair_prompt PROVE IInv'
<1> DEFINE n  == Min({last_count, Len(prompt) - fed - 1})
           ts == SubSeq(prompt, fed + 2, fed + 1 + n)
           on == /\ fed' = fed + last_count
                 /\ pc' = "prefill"
                 /\ UNCHANGED <<stopped, request, output, last_count, model, cycle>>
<1>1. /\ pc = "pairs"
      /\ IF enabled /\ ~stopped /\ n > 0
           THEN Call(CanPair(0, ts), Pair(0, ts) /\ on)
           ELSE on /\ UNCHANGED gvars
  BY DEF pair_prompt
<1>2. /\ Len(prompt) \in Nat /\ Len(text) \in Nat /\ fed \in Nat /\ Typed
      /\ Capacity \in Nat /\ prompt \in Seq(Token) /\ text \in Seq(Token) /\ Len(text) <= Capacity
      /\ valid = TRUE /\ d = <<>> /\ enabled \in BOOLEAN /\ first \in Nat /\ count \in Nat
      /\ partner \in Seq(Token) /\ Len(partner) \in Nat /\ VerifyRows \in Nat /\ VerifyRows >= 2
  BY <1>1, Lengths, Constants DEF IInv, Typed, Drafting, Judging
<1>3. /\ fed + last_count = Len(text) /\ fed + last_count <= Len(prompt)
      /\ last_count = count /\ count > 0 /\ pend_off + 1 = count
      /\ enabled /\ ~stopped => Len(partner) = fed
      /\ Len(text) = Len(prompt) => LastRead
      /\ generated = <<>> /\ reason = "length" /\ Known = prompt
  BY <1>1, KnownTokens DEF IInv, Prefilling
<1>4. first = fed /\ fed < Len(prompt) /\ fed + count = Len(text)
  BY <1>2, <1>3 DEF IInv, Counted
<1>5. /\ n = IF fed + last_count < Len(prompt) THEN last_count ELSE last_count - 1
      /\ n \in Nat
  <2> DEFINE rest == Len(prompt) - fed - 1
  <2>1. rest \in Int /\ last_count \in Int
    BY <1>2, <1>3
  <2> HIDE DEF rest
  <2>2. Min({last_count, rest}) = IF last_count <= rest THEN last_count ELSE rest
    BY <2>1, MinOfTwo
  <2> QED
    BY <1>2, <1>3, <2>2 DEF rest
<1> HIDE DEF n
<1>6. /\ on /\ UNCHANGED <<valid, text, first, count, enabled, pending>>
      /\ partner' \in Seq(Token) /\ chained' \in Nat
      /\ ~(enabled /\ ~stopped) => partner' = partner
      /\ enabled /\ ~stopped => /\ Len(partner') = fed + n
                                /\ \A p \in 1 .. (fed + n) : partner'[p] = prompt[p + 1]
  <2>1. CASE ~(enabled /\ ~stopped /\ n > 0)
    <3>1. on /\ UNCHANGED <<valid, text, first, count, enabled, partner, chained, pending>>
      BY <1>1, <2>1 DEF gvars, trunk, predictor
    <3>2. chained \in Nat
      BY <1>2 DEF Typed
    <3>3. ASSUME enabled, ~stopped
          PROVE  /\ Len(partner) = fed + n
                 /\ \A p \in 1 .. (fed + n) : partner[p] = prompt[p + 1]
      <4>1. n = 0 /\ Len(partner) = fed
        BY <1>3, <1>5, <2>1, <3>3
      <4>2. \A p \in 1 .. Len(partner) : partner[p] = prompt[p + 1]
        BY <1>1, <1>3, <3>3 DEF IInv, Follows, Busy, Done
      <4> QED
        BY <1>2, <4>1, <4>2
    <3> QED
      BY <1>2, <3>1, <3>2, <3>3
  <2>2. CASE enabled /\ ~stopped /\ n > 0
    <3>1. Len(partner) = fed /\ \A p \in 1 .. fed : partner[p] = prompt[p + 1]
      BY <1>1, <1>3, <2>2 DEF IInv, Follows, Busy, Done
    <3>2. /\ ts \in Seq(Token) /\ Len(ts) = n
          /\ \A i \in 1 .. n : ts[i] = prompt[fed + 1 + i]
      <4> DEFINE m == fed + 1
                 upto == fed + 1 + n
      <4>1. /\ upto \in 0 .. Len(prompt) /\ m \in 0 .. upto /\ upto - m = n /\ m + 1 = fed + 2
            /\ m = fed + 1
        BY <1>2, <1>3, <1>5
      <4> HIDE DEF m, upto
      <4>2. /\ SubSeq(prompt, m + 1, upto) \in Seq(Token) /\ Len(SubSeq(prompt, m + 1, upto)) = upto - m
            /\ \A i \in 1 .. (upto - m) : SubSeq(prompt, m + 1, upto)[i] = prompt[m + i]
        BY <1>2, <4>1, SegmentProperties
      <4>3. ts = SubSeq(prompt, m + 1, upto)
        BY <4>1 DEF upto
      <4> QED
        BY <4>1, <4>2, <4>3
    <3> HIDE DEF ts
    <3>3. CanPair(0, ts)
      <4>1. Len(ts) \in 1 .. (Capacity - Len(partner)) /\ 0 + Len(ts) <= count
            /\ Len(partner) = first + 0
        BY <1>2, <1>3, <1>4, <1>5, <2>2, <3>1, <3>2
      <4> QED
        BY <1>2, <2>2, <4>1 DEF CanPair
    <3>4. Pair(0, ts) /\ on
      BY <1>1, <2>2, <3>3 DEF Call
    <3>5. /\ partner' = partner \o ts /\ chained' = Len(ts)
          /\ UNCHANGED <<valid, text, first, count, enabled, pending>>
      BY <3>4 DEF Pair, Paired, trunk
    <3>6. /\ partner \o ts \in Seq(Token) /\ Len(partner \o ts) = Len(partner) + Len(ts)
          /\ \A p \in 1 .. Len(partner) + Len(ts) :
               (partner \o ts)[p] = IF p <= Len(partner) THEN partner[p] ELSE ts[p - Len(partner)]
      BY <1>2, <3>2, ConcatProperties
    <3>7. Len(partner) + Len(ts) = fed + n
      BY <3>1, <3>2
    <3>8. ASSUME NEW p \in 1 .. (fed + n) PROVE (partner \o ts)[p] = prompt[p + 1]
      <4>1. CASE p <= fed
        BY <1>2, <3>1, <3>6, <3>7, <4>1
      <4>2. CASE ~(p <= fed)
        <5>1. p - fed \in 1 .. n /\ fed + 1 + (p - fed) = p + 1
          BY <1>2, <1>5, <4>2
        <5>2. ts[p - fed] = prompt[fed + 1 + (p - fed)]
          BY <3>2, <5>1
        <5> QED
          BY <3>1, <3>6, <3>7, <4>2, <5>1, <5>2
      <4> QED
        BY <4>1, <4>2
    <3>9. Len(ts) \in Nat
      BY <1>5, <3>2
    <3> QED
      BY <2>2, <3>4, <3>5, <3>6, <3>7, <3>8, <3>9
  <2> QED
    BY <2>1, <2>2
<1>7. /\ fed' = Len(text) /\ pc' = "prefill"
      /\ UNCHANGED <<chat, transcript, prompt, o, generated, reason>>
      /\ UNCHANGED <<stopped, last_count, have_id, next_id, logits, k, d, pend, pend_off, mtp_done>>
  BY <1>3, <1>6 DEF request, output, model, cycle
<1>8. Known' = prompt /\ Done = Len(partner) /\ Done' = Len(partner')
  BY <1>1, <1>3, <1>7 DEF Known, Done
<1>9. Typed'
  BY <1>1, <1>2, <1>6, <1>7 DEF Typed, Drafting, Judging
<1>10. Counted' /\ Budget'
  BY <1>1, <1>6, <1>7 DEF IInv, Counted, Budget, Busy, Suffix
<1>11. Ahead'
  BY <1>1, <1>3, <1>6, <1>8 DEF IInv, Ahead, Busy
<1>12. Follows'
  <2> SUFFICES ASSUME enabled
               PROVE  /\ Len(partner') <= Len(text) /\ Len(partner') < Len(prompt)
                      /\ Len(partner') <= Len(partner') + VerifyRows - 2
                      /\ \A p \in 1 .. Len(partner') : partner'[p] = prompt[p + 1]
    <3>1. Len(partner') \in Nat
      BY <1>6, LenProperties
    <3> QED
      BY <1>6, <1>8, <3>1 DEF Follows
  <2>1. Len(partner') <= Len(partner') + VerifyRows - 2
    <3>1. \A i, j \in Nat : j >= 2 => i <= i + j - 2
      OBVIOUS
    <3>2. Len(partner') \in Nat
      BY <1>6, LenProperties
    <3> QED
      BY <1>2, <3>1, <3>2
  <2>2. CASE stopped
    <3>1. partner' = partner
      BY <1>6, <2>2
    <3>2. /\ Done <= Len(text) /\ Done < Len(Known) /\ \A p \in 1 .. Done : partner[p] = Known[p + 1]
      BY <1>1 DEF IInv, Follows, Busy
    <3> QED
      BY <1>3, <1>8, <2>1, <3>1, <3>2
  <2>3. CASE ~stopped
    <3>1. Len(partner') = fed + n /\ \A p \in 1 .. (fed + n) : partner'[p] = prompt[p + 1]
      BY <1>6, <2>3
    <3>2. fed + n <= Len(text) /\ fed + n < Len(prompt)
      BY <1>2, <1>3, <1>4, <1>5
    <3> QED
      BY <2>1, <3>1, <3>2
  <2> QED
    BY <1>2, <2>2, <2>3 DEF Typed
<1>13. Prefilling'
  <2>1. Len(text) = Len(prompt) => LastRead'
    BY <1>3, <1>6, <1>7 DEF LastRead
  <2>2. enabled /\ ~stopped =>
          Len(partner') = IF Len(text) < Len(prompt) THEN Len(text) ELSE Len(text) - 1
    <3>1. fed + n = IF Len(text) < Len(prompt) THEN Len(text) ELSE Len(text) - 1
      BY <1>2, <1>3, <1>4, <1>5
    <3> QED
      BY <1>6, <3>1
  <2>3. Len(text) <= Len(prompt)
    BY <1>3
  <2> QED
    BY <1>3, <1>6, <1>7, <2>1, <2>2, <2>3 DEF Prefilling
<1>14. Decoding' /\ ToJudge' /\ Ended' /\ Resting' /\ EndsForItsReason'
  BY <1>7 DEF Decoding, ToJudge, Ended, Resting, EndsForItsReason, Emitted, Drafting, Judging
<1> QED
  BY <1>9, <1>10, <1>11, <1>12, <1>13, <1>14 DEF IInv

\* start_decode: the prompt is in, or the turn was stopped, and decoding begins.
LEMMA StartDecodeStep ==
  ASSUME IInv, start_decode PROVE IInv'
<1>1. /\ pc = "prefill"
      /\ stopped \/ fed >= Len(prompt)
      /\ reason' = (IF stopped THEN "cancelled" ELSE reason)
      /\ have_id' = o.use_id /\ pend' = <<>> /\ mtp_done' = Confirmed /\ pc' = "next"
      /\ UNCHANGED <<valid, text, first, count, enabled, partner, chained, pending>>
      /\ UNCHANGED <<stopped, chat, transcript, prompt, o, generated, fed, last_count, next_id,
                     logits, k, d, pend_off>>
  BY DEF start_decode, gvars, trunk, predictor, request
<1>2. /\ pc = "prefill" /\ Typed /\ Len(prompt) \in Nat /\ Len(text) \in Nat /\ d = <<>>
      /\ Len(partner) \in Nat /\ fed \in Nat /\ first \in Nat /\ count \in Nat /\ pend_off \in Nat
      /\ enabled \in BOOLEAN /\ stopped \in BOOLEAN /\ o.use_id \in BOOLEAN
      /\ text \in Seq(Token)
  BY Lengths DEF IInv, Typed, start_decode, Drafting, Judging
<1>3. generated = <<>> /\ reason = "length" /\ Known = prompt /\ Len(generated) = 0
  BY <1>2, KnownTokens, EmptySeq DEF IInv, Prefilling
<1>4. Confirmed \in Nat /\ (enabled => Confirmed = Len(partner)) /\ <<>> \in Seq(Token)
  BY <1>2, EmptySeq DEF Confirmed
<1>5. Known' = Known /\ (enabled => Done' = Done)
  <2>1. Known' = Known
    BY <1>1 DEF Known
  <2>2. enabled => Done' = Confirmed /\ Done = Len(partner)
    BY <1>1, <1>2 DEF Done
  <2> QED
    BY <1>4, <2>1, <2>2
<1>6. Typed'
  BY <1>1, <1>2, <1>3, <1>4 DEF Typed, Drafting, Judging
<1>7. Counted' /\ Budget'
  BY <1>1, <1>2 DEF IInv, Counted, Budget, Busy, Suffix
<1>8. Ahead' /\ Follows'
  BY <1>1, <1>2, <1>5 DEF IInv, Ahead, Follows, Busy
<1>9. Prefilling' /\ ToJudge' /\ Ended' /\ Resting' /\ EndsForItsReason'
  BY <1>1 DEF Prefilling, ToJudge, Ended, Resting, EndsForItsReason, Judging
<1>10. ASSUME ~stopped PROVE text' = Known' /\ Argmax'.of = Known' /\ Due'
  <2>1. /\ fed = Len(text) /\ fed = Len(prompt) /\ LastRead /\ pend_off + 1 = count
        /\ enabled => Len(partner) = fed - 1
    BY <1>1, <1>2, <1>10 DEF IInv, Prefilling
  <2>2. text = Known
    BY <1>2, <1>3, <2>1, AheadIsKnown DEF Busy
  <2>3. Argmax' = IF o.use_id THEN next_id ELSE logits[1]
    BY <1>1 DEF Argmax
  <2>4. ASSUME enabled
        PROVE  /\ first + pend_off = mtp_done' /\ pend_off + Len(pend') + 1 = count
               /\ pend' = SubSeq(text, mtp_done' + 2, Len(text))
    <3>1. mtp_done' = Len(text) - 1 /\ Len(text) >= 1
      BY <1>1, <1>2, <1>4, <2>1, <2>4
    <3>2. first + count = Len(text)
      BY <1>2, <2>1 DEF IInv, Counted
    <3>3. Len(pend') = 0
      BY <1>1, EmptySeq
    <3>4. SubSeq(text, Len(text) + 1, Len(text)) = <<>>
      BY <1>2, SubSeqEmpty
    <3>5. mtp_done' + 2 = Len(text) + 1
      BY <1>2, <3>1
    <3>6. pend' = SubSeq(text, mtp_done' + 2, Len(text))
      BY <1>1, <3>4, <3>5
    <3>7. first + pend_off = mtp_done' /\ pend_off + 0 + 1 = count
      <4>1. \A f, p, c, l \in Nat : p + 1 = c /\ f + c = l => f + p = l - 1 /\ p + 0 + 1 = c
        OBVIOUS
      <4>2. first + pend_off = Len(text) - 1 /\ pend_off + 0 + 1 = count
        BY <1>2, <2>1, <3>2, <4>1
      <4> QED
        BY <3>1, <4>2
    <3> QED
      BY <3>3, <3>6, <3>7
  <2>5. Due'
    BY <1>1, <2>4 DEF Due
  <2> QED
    BY <1>1, <1>5, <2>1, <2>2, <2>3, <2>5 DEF LastRead
<1>11. Decoding'
  <2>1. Silent(Len(generated))'
    BY <1>1, <1>3 DEF Silent
  <2> QED
    BY <1>1, <1>3, <1>10, <2>1 DEF Decoding, Emitted, Drafting
<1> QED
  BY <1>6, <1>7, <1>8, <1>9, <1>11 DEF IInv

-----------------------------------------------------------------------------
(* Decode.                                                                 *)

\* The loop ends without another token.
LEMMA EmitEnds ==
  ASSUME IInv, pc = "next", end, generated' = generated,
         UNCHANGED <<gvars, stopped, request, fed, last_count, model, cycle>>,
         reason' = "cancelled" \/ (reason' = reason /\ (stopped \/ Len(generated) = o.max_new))
  PROVE  IInv'
<1>1. /\ pc' = "end" /\ generated' = generated
      /\ UNCHANGED <<valid, text, first, count, enabled, partner, chained, pending>>
      /\ UNCHANGED <<stopped, chat, transcript, prompt, o, fed, last_count, have_id, next_id,
                     logits, k, d, pend, pend_off, mtp_done>>
  BY DEF end, gvars, trunk, predictor, request, model, cycle
<1>2. Known' = Known /\ Done' = Done
  BY <1>1 DEF Known, Done
<1>3. Typed'
  BY <1>1 DEF IInv, Typed, Drafting, Judging
<1>4. Counted' /\ Budget'
  BY <1>1 DEF IInv, Counted, Budget, Busy, Suffix
<1>5. Ahead' /\ Follows'
  BY <1>1, <1>2 DEF IInv, Ahead, Follows, Busy
<1>6. Prefilling' /\ Decoding' /\ ToJudge' /\ Resting' /\ EndsForItsReason'
  BY <1>1 DEF Prefilling, Decoding, ToJudge, Resting, EndsForItsReason, Emitted, Drafting, Judging
<1>7. Ended'
  <2>1. Silent(Len(generated)) /\ (reason = "length" \/ reason = "cancelled")
    BY DEF IInv, Decoding
  <2>2. Len(generated) \in Nat
    BY Lengths DEF IInv
  <2>3. Silent(Len(generated) - 1)'
    BY <1>1, <2>1, <2>2 DEF Silent
  <2> QED
    BY <1>1, <2>1, <2>3 DEF Ended
<1> QED
  BY <1>3, <1>4, <1>5, <1>6, <1>7 DEF IInv

\* Emitted tokens extend the conversation.
LEMMA KnownGrows ==
  ASSUME Typed, NEW s \in Seq(Token), generated' = generated \o s, prompt' = prompt
  PROVE  /\ generated' \in Seq(Token) /\ Len(generated') = Len(generated) + Len(s)
         /\ \A p \in 1 .. Len(generated) : generated'[p] = generated[p]
         /\ \A p \in 1 .. Len(s) : generated'[Len(generated) + p] = s[p]
         /\ Known' = Known \o s /\ Known' \in Seq(Token) /\ Len(Known') = Len(Known) + Len(s)
         /\ \A p \in 1 .. Len(Known) : Known'[p] = Known[p]
         /\ \A n \in 0 .. Len(Known) : SubSeq(Known', 1, n) = SubSeq(Known, 1, n)
<1>1. /\ prompt \in Seq(Token) /\ generated \in Seq(Token) /\ Known \in Seq(Token)
      /\ Len(generated) \in Nat /\ Len(s) \in Nat /\ Len(Known) \in Nat
  BY Lengths, KnownTokens DEF Typed
<1>2. /\ generated \o s \in Seq(Token) /\ Len(generated \o s) = Len(generated) + Len(s)
      /\ \A i \in 1 .. Len(generated) + Len(s) :
           (generated \o s)[i] = IF i <= Len(generated) THEN generated[i] ELSE s[i - Len(generated)]
  BY <1>1, ConcatProperties
<1>3. ASSUME NEW p \in 1 .. Len(generated) PROVE generated'[p] = generated[p]
  <2>1. p \in 1 .. Len(generated) + Len(s) /\ p <= Len(generated)
    BY <1>1
  <2> QED
    BY <1>2, <2>1
<1>4. ASSUME NEW p \in 1 .. Len(s) PROVE generated'[Len(generated) + p] = s[p]
  <2> DEFINE q == Len(generated) + p
  <2>1. q \in 1 .. Len(generated) + Len(s) /\ ~(q <= Len(generated)) /\ q - Len(generated) = p
    BY <1>1
  <2> HIDE DEF q
  <2>2. generated'[q] = s[p]
    BY <1>2, <2>1
  <2> QED
    BY <2>2 DEF q
<1>5. Known' = Known \o s
  <2>1. (prompt \o generated) \o s = prompt \o (generated \o s)
    <3>1. prompt \in Seq(Token) /\ generated \in Seq(Token) /\ s \in Seq(Token)
      BY <1>1
    <3> QED
      BY ONLY <3>1, ConcatAssociative
  <2>2. Known' = prompt \o (generated \o s)
    BY DEF Known
  <2> QED
    BY <2>1, <2>2 DEF Known
<1>6. /\ Known \o s \in Seq(Token) /\ Len(Known \o s) = Len(Known) + Len(s)
      /\ \A i \in 1 .. Len(Known) + Len(s) :
           (Known \o s)[i] = IF i <= Len(Known) THEN Known[i] ELSE s[i - Len(Known)]
  BY <1>1, ConcatProperties
<1>7. ASSUME NEW p \in 1 .. Len(Known) PROVE Known'[p] = Known[p]
  <2>1. p \in 1 .. Len(Known) + Len(s) /\ p <= Len(Known)
    BY <1>1
  <2> QED
    BY <1>5, <1>6, <2>1
<1>8. ASSUME NEW n \in 0 .. Len(Known) PROVE SubSeq(Known', 1, n) = SubSeq(Known, 1, n)
  BY <1>1, <1>5, PrefixOfExtended
<1> QED
  BY <1>2, <1>3, <1>4, <1>5, <1>6, <1>7, <1>8

\* The loop emits the argmax of the conversation so far.
LEMMA EmitToken ==
  ASSUME IInv, pc = "next", ~stopped, Len(generated) < o.max_new, Len(generated) # o.stop_after,
         generated' = Append(generated, Argmax.argmax),
         IF IsStop(Argmax.argmax) THEN end /\ reason' = "stop"
         ELSE IF Len(generated) + 1 = o.stop_after THEN end /\ reason' = "cancelled"
         ELSE /\ UNCHANGED reason
              /\ IF Len(generated) + 1 >= o.max_new THEN end ELSE pc' = "plan",
         UNCHANGED <<gvars, stopped, request, fed, last_count, model, cycle>>
  PROVE  IInv'
<1> DEFINE t == Argmax.argmax
           got == Len(generated)
<1>1. /\ UNCHANGED <<valid, text, first, count, enabled, partner, chained, pending>>
      /\ UNCHANGED <<stopped, chat, transcript, prompt, o, fed, last_count, have_id, next_id,
                     logits, k, d, pend, pend_off, mtp_done>>
  BY DEF gvars, trunk, predictor, request, model, cycle
<1>2. /\ Typed /\ d = <<>> /\ got \in Nat /\ Len(text) \in Nat /\ o.max_new \in Nat
      /\ o.stop_after \in Nat /\ generated \in Seq(Token) /\ text \in Seq(Token)
      /\ Known \in Seq(Token) /\ Len(Known) \in Nat /\ enabled \in BOOLEAN
  BY Lengths, KnownTokens DEF IInv, Typed, Drafting, Judging
<1>3. /\ reason = "length" /\ Silent(got) /\ text = Known /\ Due
      /\ got <= o.stop_after
  <2>1. reason = "length" \/ (reason = "cancelled" /\ stopped)
    BY DEF IInv, Decoding
  <2> QED
    BY <2>1 DEF IInv, Decoding, Budget, Busy
<1>4. t \in Token
  <2>1. Argmax \in Rows
    BY <1>2, ElementOfSeq DEF Typed, Argmax
  <2> QED
    BY <2>1 DEF Rows
<1> HIDE DEF t
<1>5. generated' = generated \o <<t>> /\ <<t>> \in Seq(Token) /\ Len(<<t>>) = 1 /\ <<t>>[1] = t
  BY <1>2, <1>4, OneMore DEF t
<1>6. /\ generated' \in Seq(Token) /\ Len(generated') = got + 1
      /\ \A p \in 1 .. got : generated'[p] = generated[p]
      /\ generated'[got + 1] = t
      /\ Known' = Known \o <<t>> /\ Len(Known') = Len(Known) + 1
      /\ \A p \in 1 .. Len(Known) : Known'[p] = Known[p]
      /\ SubSeq(Known', 1, Len(Known)) = SubSeq(Known, 1, Len(Known))
  <2>1. 1 \in 1 .. Len(<<t>>) /\ Len(Known) \in 0 .. Len(Known)
    BY <1>2, <1>5
  <2> QED
    BY <1>1, <1>2, <1>5, <2>1, KnownGrows
<1>7. /\ IF IsStop(t) THEN pc' = "end" /\ reason' = "stop"
         ELSE IF got + 1 = o.stop_after THEN pc' = "end" /\ reason' = "cancelled"
         ELSE /\ reason' = reason
              /\ IF got + 1 >= o.max_new THEN pc' = "end" ELSE pc' = "plan"
  BY DEF t, end
<1>8. pc' \in {"end", "plan"} /\ reason' \in {"length", "stop", "cancelled"}
  BY <1>3, <1>7
<1>9. Done' = Done
  BY <1>1, <1>8 DEF Done
<1>10. Typed'
  BY <1>1, <1>2, <1>6, <1>8 DEF Typed, Drafting, Judging
<1>11. Counted'
  BY <1>1, <1>8 DEF IInv, Counted
<1>12. Budget'
  <2>1. /\ prompt # <<>> /\ Len(prompt) + o.max_new <= Capacity
        /\ chat => \E body \in Bodies : prompt = transcript \o Suffix(body)
    BY DEF IInv, Budget, Busy
  <2>2. got + 1 <= o.max_new /\ got + 1 <= o.stop_after
    BY <1>2, <1>3
  <2> QED
    BY <1>1, <1>6, <2>1, <2>2 DEF Budget, Suffix
<1>13. Ahead'
  <2>1. text = SubSeq(Known', 1, Len(text))
    BY <1>2, <1>3, <1>6, SubSeqFull
  <2> QED
    BY <1>1, <2>1 DEF Ahead
<1>14. Follows'
  <2> SUFFICES ASSUME enabled
               PROVE  /\ Done <= Len(text) /\ Done < Len(Known') /\ Done <= Len(partner)
                      /\ Len(partner) <= Done + VerifyRows - 2
                      /\ \A p \in 1 .. Done : partner[p] = Known'[p + 1]
    BY <1>1, <1>9 DEF Follows
  <2>1. /\ Done <= Len(text) /\ Done < Len(Known) /\ Done <= Len(partner)
        /\ Len(partner) <= Done + VerifyRows - 2
        /\ \A p \in 1 .. Done : partner[p] = Known[p + 1]
    BY DEF IInv, Follows, Busy
  <2>2. Done \in Nat
    BY <1>2 DEF Typed, Done
  <2>3. ASSUME NEW p \in 1 .. Done PROVE partner[p] = Known'[p + 1]
    <3>1. p + 1 \in 1 .. Len(Known)
      BY <1>2, <2>1, <2>2
    <3> QED
      BY <1>6, <2>1, <3>1
  <2> QED
    BY <1>2, <1>6, <2>1, <2>2, <2>3
<1>15. Prefilling' /\ ToJudge' /\ Resting' /\ EndsForItsReason'
  BY <1>8 DEF Prefilling, ToJudge, Resting, EndsForItsReason, Judging
<1>16. /\ LastOf(generated') = t /\ generated' # <<>>
       /\ \A p \in 1 .. got : ~IsStop(generated'[p])
  <2>1. generated' # <<>>
    BY <1>2, <1>6, EmptySeq
  <2>2. \A p \in 1 .. got : ~IsStop(generated'[p])
    BY <1>3, <1>6 DEF Silent
  <2> QED
    BY <1>6, <2>1, <2>2 DEF LastOf
<1> HIDE DEF got
<1>17. Ended'
  <2>1. Silent(Len(generated) - 1)'
    <3>1. Len(generated') - 1 = got
      BY <1>2, <1>6
    <3> QED
      BY <1>16, <3>1 DEF Silent
  <2>2. pc' = "end" /\ reason' = "stop" => IsStop(LastOf(generated'))
    BY <1>3, <1>7, <1>16
  <2>3. pc' = "end" /\ reason' = "length" => got + 1 = o.max_new
    <3>1. got + 1 <= o.max_new
      BY <1>2 DEF got
    <3> QED
      BY <1>2, <1>3, <1>7, <3>1
  <2> QED
    BY <1>1, <1>6, <1>16, <2>1, <2>2, <2>3 DEF Ended, IsStop
<1>18. Decoding'
  <2>1. CASE pc' = "end"
    BY <2>1 DEF Decoding, Emitted, Drafting
  <2>2. CASE pc' = "plan"
    <3>1. reason' = "length" /\ ~IsStop(t) /\ got + 1 < o.stop_after /\ got + 1 < o.max_new
      <4>1. reason' = reason /\ ~IsStop(t) /\ got + 1 # o.stop_after /\ ~(got + 1 >= o.max_new)
        BY <1>7, <2>2
      <4>2. got # o.stop_after
        BY DEF got
      <4> QED
        BY <1>2, <1>3, <4>1, <4>2
    <3>2. Silent(Len(generated))'
      <4>1. ASSUME NEW p \in 1 .. (got + 1) PROVE ~IsStop(generated'[p])
        <5>1. CASE p = got + 1
          BY <1>6, <3>1, <5>1
        <5>2. CASE p # got + 1
          <6>1. p \in 1 .. got
            BY <1>2, <5>2
          <6> QED
            BY <1>16, <6>1
        <5> QED
          BY <5>1, <5>2
      <4> QED
        BY <1>6, <4>1 DEF Silent
    <3>3. Known' = text' \o <<LastOf(generated')>>
      BY <1>1, <1>3, <1>6, <1>16
    <3>4. Due'
      <4>1. enabled /\ Kmax' > 0 => Kmax > 0
        <5> SUFFICES ASSUME enabled, Kmax' > 0 PROVE Kmax > 0
          OBVIOUS
        <5>1. DraftRoom' /\ DraftRoom
          BY <1>2, <1>10, RoomForDrafts, RoomForDraftsNext
        <5>2. /\ Kmax' \in Int /\ Len(generated') + 1 + Kmax' <= o.max_new
              /\ Len(generated') + 1 + Kmax' <= o.stop_after
              /\ Len(text) + 1 + Kmax' <= Capacity
          BY <1>1, <5>1 DEF DraftRoom
        <5>3. \A g, r, l, m, i \in Int : g = r + 1 /\ i > 0 /\ g + 1 + i <= m => r + 2 <= m
          OBVIOUS
        <5>4. \A l, m, i \in Int : i > 0 /\ l + 1 + i <= m => l + 2 <= m
          OBVIOUS
        <5>5. Len(generated') \in Int /\ Len(generated') = got + 1 /\ Capacity \in Int
          BY <1>2, <1>6, Constants
        <5>6. got + 2 <= o.max_new /\ got + 2 <= o.stop_after /\ Len(text) + 2 <= Capacity
          BY <1>2, <5>2, <5>3, <5>4, <5>5
        <5> QED
          BY <5>1, <5>6 DEF DraftRoom, got
      <4> QED
        BY <1>1, <1>3, <4>1 DEF Due
    <3> QED
      BY <1>1, <1>6, <1>16, <2>2, <3>1, <3>2, <3>3, <3>4 DEF Decoding, Emitted, Drafting
  <2> QED
    BY <1>8, <2>1, <2>2
<1> QED
  BY <1>10, <1>11, <1>12, <1>13, <1>14, <1>15, <1>17, <1>18 DEF IInv

\* emit_next: a token is emitted and the next cycle planned.
LEMMA EmitNextStep ==
  ASSUME IInv, emit_next PROVE IInv'
<1>1. pc = "next" /\ UNCHANGED <<gvars, stopped, request, fed, last_count, model, cycle>>
  BY DEF emit_next
<1>2. Len(generated) \in Nat /\ o.max_new \in Nat /\ Len(generated) <= o.max_new
  BY <1>1, Lengths DEF IInv, Budget, Busy
<1>3. MayEmit(Len(generated)) <=>
        ~stopped /\ Len(generated) < (IF o.max_new >= 1 THEN o.max_new ELSE 1)
  <2>1. Max({o.max_new, 1}) = IF o.max_new >= 1 THEN o.max_new ELSE 1
    BY <1>2, MaxOfTwo
  <2> QED
    BY <2>1 DEF MayEmit
<1>4. CASE ~MayEmit(Len(generated)) /\ end /\ UNCHANGED output
  <2>1. generated' = generated /\ reason' = reason
    BY <1>4 DEF output
  <2>2. stopped \/ Len(generated) = o.max_new
    BY <1>2, <1>3, <1>4 DEF IInv, Typed
  <2> QED
    BY <1>1, <1>4, <2>1, <2>2, EmitEnds
<1>5. CASE /\ MayEmit(Len(generated)) /\ Len(generated) = o.stop_after
           /\ end /\ reason' = "cancelled" /\ UNCHANGED generated
  BY <1>1, <1>5, EmitEnds
<1>6. CASE /\ MayEmit(Len(generated)) /\ Len(generated) # o.stop_after /\ o.max_new = 0
           /\ end /\ UNCHANGED output
  <2>1. generated' = generated /\ reason' = reason
    BY <1>6 DEF output
  <2>2. Len(generated) = o.max_new
    BY <1>2, <1>6
  <2> QED
    BY <1>1, <1>6, <2>1, <2>2, EmitEnds
<1>7. CASE /\ MayEmit(Len(generated)) /\ Len(generated) # o.stop_after /\ o.max_new > 0
           /\ generated' = Append(generated, Argmax.argmax)
           /\ IF IsStop(Argmax.argmax) THEN end /\ reason' = "stop"
              ELSE IF Len(generated) + 1 = o.stop_after THEN end /\ reason' = "cancelled"
              ELSE /\ UNCHANGED reason
                   /\ IF Len(generated) + 1 >= o.max_new THEN end ELSE pc' = "plan"
  <2>1. ~stopped /\ Len(generated) < o.max_new
    BY <1>2, <1>3, <1>7
  <2> QED
    BY <1>1, <1>7, <2>1, EmitToken
<1> QED
  BY <1>4, <1>5, <1>6, <1>7 DEF emit_next

\* A cycle is planned; the predictor is brought back to where it is confirmed.
LEMMA PlanStep ==
  ASSUME IInv, plan PROVE IInv'
<1>1. pc = "plan" /\ UNCHANGED <<stopped, request, output, fed, last_count, model, d, pend,
                                 pend_off, mtp_done>>
  BY DEF plan
<1>2. /\ UNCHANGED <<chat, transcript, prompt, o, generated, reason, stopped, fed, last_count,
                     have_id, next_id, logits, d, pend, pend_off, mtp_done>>
  BY <1>1 DEF request, output, model
<1>3. /\ Typed /\ d = <<>> /\ Len(partner) \in Nat /\ partner \in Seq(Token) /\ mtp_done \in Nat
      /\ VerifyRows \in Nat /\ VerifyRows >= 2 /\ RewindWindow \in Nat /\ VerifyRows - 1 <= RewindWindow
      /\ valid = TRUE /\ enabled \in BOOLEAN
  BY <1>1, Lengths, Constants DEF IInv, Typed, Drafting, Judging
<1>4. Kmax \in Int /\ Kmax <= VerifyRows - 1
  BY <1>3, RoomForDrafts DEF DraftRoom
<1>5. PICK n \in 0 .. Kmax :
        /\ k' = n
        /\ IF enabled /\ (n > 0 \/ Kmax > 0 \/ o.keep_predictor)
             THEN IF Len(partner) = mtp_done
                    THEN pc' = "catch_up" /\ UNCHANGED gvars
                    ELSE IF CanRewind(mtp_done)
                      THEN pc' = "catch_up" /\ Rewind(mtp_done)
                      ELSE pc' = "dead" /\ UNCHANGED gvars
             ELSE pc' = "step" /\ UNCHANGED gvars
  BY DEF plan
<1>6. k' \in 0 .. (VerifyRows - 1) /\ k' <= Kmax
  BY <1>3, <1>4, <1>5
<1>7. /\ pc' \in {"catch_up", "step"}
      /\ UNCHANGED <<valid, text, first, count, enabled, pending>>
      /\ partner' \in Seq(Token) /\ chained' \in Nat
      /\ pc' = "catch_up" => /\ enabled /\ (o.keep_predictor \/ Kmax > 0)
                             /\ Len(partner') = mtp_done
      /\ pc' = "step" => ~(enabled /\ (o.keep_predictor \/ Kmax > 0))
      /\ enabled => /\ mtp_done <= Len(partner') /\ Len(partner') <= Len(partner)
                    /\ \A p \in 1 .. mtp_done : partner'[p] = partner[p]
  <2>1. CASE UNCHANGED gvars /\ pc' = "step" /\ ~(enabled /\ (n > 0 \/ Kmax > 0 \/ o.keep_predictor))
    <3>1. enabled => mtp_done <= Len(partner)
      BY <1>1 DEF IInv, Follows, Busy, Done
    <3> QED
      BY <1>3, <2>1, <3>1 DEF gvars, trunk, predictor, Typed
  <2>2. CASE enabled /\ (n > 0 \/ Kmax > 0 \/ o.keep_predictor)
    <3>1. o.keep_predictor \/ Kmax > 0
      BY <1>4, <1>5, <2>2
    <3>2. mtp_done <= Len(partner) /\ Len(partner) <= mtp_done + VerifyRows - 2
      BY <1>1, <2>2 DEF IInv, Follows, Busy, Done
    <3>3. CASE Len(partner) = mtp_done
      <4>1. pc' = "catch_up" /\ UNCHANGED gvars
        BY <1>5, <2>2, <3>3
      <4> QED
        BY <1>3, <2>2, <3>1, <3>3, <4>1 DEF gvars, trunk, predictor, Typed
    <3>4. CASE Len(partner) # mtp_done
      <4>1. CanRewind(mtp_done)
        <5>1. mtp_done \in 0 .. Len(partner) /\ Len(partner) - mtp_done <= RewindWindow
          BY <1>3, <3>2
        <5> QED
          BY <1>3, <2>2, <5>1 DEF CanRewind
      <4>2. pc' = "catch_up" /\ Rewind(mtp_done)
        BY <1>5, <2>2, <3>4, <4>1
      <4>3. /\ partner' = SubSeq(partner, 1, mtp_done) /\ chained' = 0
            /\ UNCHANGED <<valid, text, first, count, enabled, pending>>
        BY <4>2 DEF Rewind, trunk
      <4>4. /\ SubSeq(partner, 1, mtp_done) \in Seq(Token) /\ Len(SubSeq(partner, 1, mtp_done)) = mtp_done
            /\ \A p \in 1 .. mtp_done : SubSeq(partner, 1, mtp_done)[p] = partner[p]
        <5>1. mtp_done \in 0 .. Len(partner)
          BY <1>3, <3>2
        <5> QED
          BY <1>3, <5>1, PrefixProperties
      <4>5. mtp_done <= mtp_done
        BY <1>3
      <4> QED
        BY <2>2, <3>1, <3>2, <4>2, <4>3, <4>4, <4>5
    <3> QED
      BY <3>3, <3>4
  <2> QED
    BY <1>5, <2>1, <2>2
<1>8. Known' = Known /\ Done' = mtp_done /\ Done = mtp_done /\ Kmax' = Kmax
  BY <1>1, <1>2, <1>7 DEF Known, Done, Kmax
<1>9. Typed'
  BY <1>2, <1>3, <1>6, <1>7 DEF Typed, Drafting, Judging
<1>10. Counted' /\ Budget'
  BY <1>1, <1>2, <1>7 DEF IInv, Counted, Budget, Busy, Suffix
<1>11. Ahead'
  BY <1>1, <1>7, <1>8 DEF IInv, Ahead, Busy
<1>12. Follows'
  <2> SUFFICES ASSUME enabled
               PROVE  /\ mtp_done <= Len(text) /\ mtp_done < Len(Known) /\ mtp_done <= Len(partner')
                      /\ Len(partner') <= mtp_done + VerifyRows - 2
                      /\ \A p \in 1 .. mtp_done : partner'[p] = Known[p + 1]
    BY <1>7, <1>8 DEF Follows
  <2>1. /\ mtp_done <= Len(text) /\ mtp_done < Len(Known)
        /\ Len(partner) <= mtp_done + VerifyRows - 2
        /\ \A p \in 1 .. mtp_done : partner[p] = Known[p + 1]
    BY <1>1, <1>8 DEF IInv, Follows, Busy
  <2>2. Len(partner') <= mtp_done + VerifyRows - 2
    <3>1. Len(partner') \in Nat /\ Len(partner') <= Len(partner)
      BY <1>7, LenProperties
    <3>2. \A i, j, l \in Int : i <= j /\ j <= l => i <= l
      OBVIOUS
    <3>3. mtp_done + VerifyRows - 2 \in Int
      BY <1>3
    <3> QED
      BY <1>3, <2>1, <3>1, <3>2, <3>3
  <2> QED
    BY <1>7, <2>1, <2>2
<1>13. Prefilling' /\ ToJudge' /\ Ended' /\ Resting' /\ EndsForItsReason'
  BY <1>7 DEF Prefilling, ToJudge, Ended, Resting, EndsForItsReason, Judging
<1>14. Decoding'
  <2>1. /\ generated # <<>> /\ Known = text \o <<LastOf(generated)>>
        /\ Silent(Len(generated)) /\ reason = "length" /\ Due
        /\ Len(generated) < o.stop_after /\ Len(generated) < o.max_new
    BY <1>1 DEF IInv, Decoding, Emitted
  <2>2. Due'
    BY <1>2, <1>7, <1>8, <2>1 DEF Due
  <2>3. Silent(Len(generated))' /\ LastOf(generated)' = LastOf(generated)
    BY <1>2, <2>1 DEF Silent, LastOf
  <2> QED
    BY <1>2, <1>6, <1>7, <1>8, <2>1, <2>2, <2>3 DEF Decoding, Drafting, Emitted
<1> QED
  BY <1>9, <1>10, <1>11, <1>12, <1>13, <1>14 DEF IInv

\* One more draft.
LEMMA OneMoreDraft ==
  ASSUME Typed, NEW t \in Token, Drafted(t)
  PROVE  /\ logits' \in Seq(Rows) /\ Len(logits') >= 1
         /\ d' \in Seq(Token) /\ Len(d') = Len(d) + 1 /\ LastOf(d') = t
         /\ \A j \in 1 .. Len(d) : d'[j] = d[j]
         /\ pc' \in {"chain", "verify"}
         /\ pc' = "chain" => Len(d') < k /\ ~IsStop(t)
<1>1. /\ logits' = [logits EXCEPT ![1] = Draft(t)] /\ d' = Append(d, t)
      /\ pc' = IF Len(d') < k /\ ~IsStop(t) THEN "chain" ELSE "verify"
  BY DEF Drafted
<1>2. logits \in Seq(Rows) /\ Len(logits) \in Nat /\ 1 \in 1 .. Len(logits) /\ Draft(t) \in Rows
  BY LenProperties, DraftRow DEF Typed
<1>3. logits' \in Seq(Rows) /\ Len(logits') = Len(logits)
  BY <1>1, <1>2, ExceptSeq
<1>4. d \in Seq(Token) /\ Len(d) \in Nat
  BY Lengths DEF Typed
<1>5. d' \in Seq(Token) /\ Len(d') = Len(d) + 1 /\ d'[Len(d) + 1] = t
      /\ \A j \in 1 .. Len(d) : d'[j] = d[j]
  BY <1>1, <1>4, OneMore
<1> QED
  BY <1>1, <1>2, <1>3, <1>5 DEF LastOf

\* The pairs due are admitted, and pair the predictor with the conversation.
LEMMA CatchUpPairs ==
  ASSUME IInv, pc = "catch_up"
  PROVE  LET ts == Append(pend, LastOf(generated))
         IN  /\ CanPair(pend_off, ts)
             /\ partner \o ts \in Seq(Token) /\ Len(partner \o ts) = Len(text)
             /\ \A p \in 1 .. Len(text) : (partner \o ts)[p] = Known[p + 1]
             /\ Len(ts) \in Nat /\ Len(ts) > 0
<1> DEFINE t == LastOf(generated)
           ts == Append(pend, t)
<1>1. /\ text \in Seq(Token) /\ Len(text) \in Nat /\ Len(text) <= Capacity /\ Capacity \in Nat
      /\ partner \in Seq(Token) /\ Len(partner) \in Nat /\ pend \in Seq(Token) /\ Len(pend) \in Nat
      /\ first \in Nat /\ count \in Nat /\ pend_off \in Nat /\ mtp_done \in Nat /\ valid = TRUE
      /\ generated \in Seq(Token) /\ Typed
  BY Lengths, Constants DEF IInv, Typed
<1>2. /\ enabled /\ (o.keep_predictor \/ Kmax > 0) /\ Len(partner) = mtp_done
      /\ generated # <<>> /\ Known = text \o <<t>>
      /\ first + pend_off = mtp_done /\ pend_off + Len(pend) + 1 = count
      /\ pend = SubSeq(text, mtp_done + 2, Len(text))
      /\ count > 0 => first + count = Len(text)
      /\ \A p \in 1 .. mtp_done : partner[p] = Known[p + 1]
  BY DEF IInv, Decoding, Emitted, Due, Counted, Follows, Busy, Done
<1>3. t \in Token
  BY <1>1, <1>2, LastToken
<1> HIDE DEF t
<1>4. /\ ts \in Seq(Token) /\ Len(ts) = Len(pend) + 1 /\ ts[Len(pend) + 1] = t
      /\ \A i \in 1 .. Len(pend) : ts[i] = pend[i]
  BY <1>1, <1>3, OneMore
<1> HIDE DEF ts
<1>5. mtp_done + Len(pend) + 1 = Len(text) /\ count > 0
  BY <1>1, <1>2
<1>6. CanPair(pend_off, ts)
  <2>1. /\ pend_off + Len(ts) <= count /\ Len(partner) = first + pend_off
        /\ Len(ts) \in 1 .. (Capacity - Len(partner))
    BY <1>1, <1>2, <1>4, <1>5
  <2> QED
    BY <1>1, <1>2, <2>1 DEF CanPair
<1>7. /\ partner \o ts \in Seq(Token) /\ Len(partner \o ts) = Len(partner) + Len(ts)
      /\ \A p \in 1 .. Len(partner) + Len(ts) :
           (partner \o ts)[p] = IF p <= Len(partner) THEN partner[p] ELSE ts[p - Len(partner)]
  BY <1>1, <1>4, ConcatProperties
<1>8. Len(partner) + Len(ts) = Len(text)
  BY <1>1, <1>2, <1>4, <1>5
<1>9. /\ Known[Len(text) + 1] = t
      /\ \A p \in 1 .. Len(text) : Known[p] = text[p]
  <2>1. Append(text, t) = text \o <<t>>
    BY <1>1, <1>3, OneMore
  <2> QED
    BY <1>1, <1>2, <1>3, <2>1, OneMore
<1>10. \A i \in 1 .. Len(pend) : pend[i] = text[mtp_done + 1 + i]
  <2> DEFINE m == mtp_done + 1
             n == Len(text)
  <2>1. n \in 0 .. Len(text) /\ m \in 0 .. n /\ n - m = Len(pend) /\ m + 1 = mtp_done + 2
    BY <1>1, <1>5
  <2> HIDE DEF m
  <2>2. \A i \in 1 .. (n - m) : SubSeq(text, m + 1, n)[i] = text[m + i]
    BY <1>1, <2>1, SegmentProperties
  <2> QED
    BY <1>2, <2>1, <2>2 DEF m
<1>11. ASSUME NEW p \in 1 .. Len(text) PROVE (partner \o ts)[p] = Known[p + 1]
  <2>1. CASE p <= mtp_done
    <3>1. p \in 1 .. mtp_done
      BY <1>1, <2>1
    <3>2. partner[p] = Known[p + 1]
      BY <1>2, <3>1
    <3>3. (partner \o ts)[p] = partner[p]
      BY <1>1, <1>2, <1>7, <1>8, <2>1
    <3> QED
      BY <3>2, <3>3
  <2>2. CASE ~(p <= mtp_done)
    <3>1. (partner \o ts)[p] = ts[p - mtp_done]
      BY <1>1, <1>2, <1>7, <1>8, <2>2
    <3>2. CASE p = Len(text)
      <4>1. p - mtp_done = Len(pend) + 1
        BY <1>1, <1>5, <3>2
      <4> QED
        BY <1>4, <1>9, <3>1, <3>2, <4>1
    <3>3. CASE p # Len(text)
      <4>1. p - mtp_done \in 1 .. Len(pend) /\ mtp_done + 1 + (p - mtp_done) = p + 1
            /\ p + 1 \in 1 .. Len(text)
        BY <1>1, <1>5, <2>2, <3>3
      <4>2. pend[p - mtp_done] = text[mtp_done + 1 + (p - mtp_done)]
        BY <1>10, <4>1
      <4> QED
        BY <1>4, <1>9, <3>1, <4>1, <4>2
    <3> QED
      BY <3>2, <3>3
  <2> QED
    BY <2>1, <2>2
<1>12. Len(ts) \in Nat /\ Len(ts) > 0
  BY <1>1, <1>4
<1> QED
  BY <1>6, <1>7, <1>8, <1>11, <1>12 DEF ts, t

\* catch_up: the predictor is brought to the end of the text.
LEMMA CatchUpStep ==
  ASSUME IInv, catch_up PROVE IInv'
<1> DEFINE ts == Append(pend, LastOf(generated))
<1>1. /\ pc = "catch_up"
      /\ Call(CanPair(pend_off, ts),
           /\ Pair(pend_off, ts)
           /\ pend' = <<>> /\ mtp_done' = Len(partner')
           /\ IF stopped THEN end /\ UNCHANGED <<logits, d>>
              ELSE IF k > 0 THEN \E t \in Token : Drafted(t)
              ELSE /\ pc' = "step"
                   /\ \/ UNCHANGED logits
                      \/ Kmax > 0 /\ \E t \in Token : logits' = [logits EXCEPT ![1] = Draft(t)]
                   /\ UNCHANGED d
           /\ UNCHANGED <<stopped, request, output, fed, last_count, have_id, next_id, k,
                          pend_off>>)
  BY DEF catch_up
<1>2. /\ CanPair(pend_off, ts)
      /\ partner \o ts \in Seq(Token) /\ Len(partner \o ts) = Len(text)
      /\ \A p \in 1 .. Len(text) : (partner \o ts)[p] = Known[p + 1]
      /\ Len(ts) \in Nat /\ Len(ts) > 0
  BY <1>1, CatchUpPairs
<1> HIDE DEF ts
<1>3. /\ partner' = partner \o ts /\ chained' = Len(ts)
      /\ UNCHANGED <<valid, text, first, count, enabled, pending>>
      /\ pend' = <<>> /\ mtp_done' = Len(partner')
      /\ IF stopped THEN pc' = "end" /\ UNCHANGED <<logits, d>>
         ELSE IF k > 0 THEN \E t \in Token : Drafted(t)
         ELSE /\ pc' = "step"
              /\ \/ UNCHANGED logits
                 \/ \E t \in Token : logits' = [logits EXCEPT ![1] = Draft(t)]
              /\ UNCHANGED d
      /\ UNCHANGED <<chat, transcript, prompt, o, generated, reason, stopped, fed, last_count,
                     have_id, next_id, k, pend_off>>
  BY <1>1, <1>2 DEF Call, Pair, Paired, trunk, end, request, output
<1>4. /\ Typed /\ d = <<>> /\ Len(d) = 0 /\ Len(text) \in Nat /\ VerifyRows \in Nat /\ VerifyRows >= 2
      /\ logits \in Seq(Rows) /\ Len(logits) >= 1 /\ stopped \in BOOLEAN /\ k \in Nat
      /\ text \in Seq(Token) /\ Len(Known) \in Nat
  BY <1>1, Lengths, Constants, EmptySeq, KnownTokens DEF IInv, Typed, Drafting, Judging
<1>5. /\ enabled /\ (o.keep_predictor \/ Kmax > 0) /\ k <= Kmax
      /\ generated # <<>> /\ Known = text \o <<LastOf(generated)>> /\ Silent(Len(generated))
      /\ reason = "length" /\ Len(generated) < o.stop_after /\ Len(generated) < o.max_new
  BY <1>1 DEF IInv, Decoding, Emitted
<1>6. /\ pc' \in {"end", "step", "chain", "verify"}
      /\ pc' = "end" => stopped
      /\ logits' \in Seq(Rows) /\ Len(logits') >= 1 /\ d' \in Seq(Token)
      /\ pc' \in {"end", "step"} => d' = <<>>
      /\ pc' \in {"chain", "verify"} => /\ k > 0 /\ Len(d') = 1
                                        /\ pc' = "chain" => Len(d') < k /\ ~IsStop(LastOf(d'))
  <2>1. CASE stopped
    BY <1>3, <1>4, <2>1, EmptySeq
  <2>2. CASE ~stopped /\ k > 0
    <3>1. PICK t \in Token : Drafted(t)
      BY <1>3, <2>2
    <3>2. /\ logits' \in Seq(Rows) /\ Len(logits') >= 1
          /\ d' \in Seq(Token) /\ Len(d') = Len(d) + 1 /\ LastOf(d') = t
          /\ pc' \in {"chain", "verify"}
          /\ pc' = "chain" => Len(d') < k /\ ~IsStop(t)
      BY <1>4, <3>1, OneMoreDraft
    <3>3. Len(d') = 1
      BY <1>4, <3>2
    <3> QED
      BY <2>2, <3>2, <3>3
  <2>3. CASE ~stopped /\ ~(k > 0)
    <3>1. logits' \in Seq(Rows) /\ Len(logits') >= 1
      <4>1. CASE UNCHANGED logits
        BY <1>4, <4>1
      <4>2. CASE \E t \in Token : logits' = [logits EXCEPT ![1] = Draft(t)]
        <5>1. PICK t \in Token : logits' = [logits EXCEPT ![1] = Draft(t)]
          BY <4>2
        <5>2. 1 \in 1 .. Len(logits) /\ Draft(t) \in Rows
          BY <1>4, DraftRow, LenProperties
        <5> QED
          BY <1>4, <5>1, <5>2, ExceptSeq
      <4> QED
        BY <1>3, <2>3, <4>1, <4>2
    <3> QED
      BY <1>3, <1>4, <2>3, <3>1, EmptySeq
  <2> QED
    BY <2>1, <2>2, <2>3
<1>7. Known' = Known /\ Done' = Len(text) /\ Kmax' = Kmax /\ mtp_done' = Len(text) /\ Len(partner') = Len(text)
  BY <1>2, <1>3, <1>6 DEF Known, Done, Kmax
<1>8. Typed'
  BY <1>2, <1>3, <1>4, <1>6, <1>7, EmptySeq DEF Typed, Drafting, Judging
<1>9. Counted' /\ Budget'
  BY <1>1, <1>3, <1>6 DEF IInv, Counted, Budget, Busy, Suffix
<1>10. Ahead'
  BY <1>1, <1>3, <1>7 DEF IInv, Ahead, Busy
<1>11. Follows'
  <2>1. Len(text) < Len(Known)
    <3>1. LastOf(generated) \in Token
      BY <1>4, <1>5, LastToken DEF Typed
    <3>2. Len(text \o <<LastOf(generated)>>) = Len(text) + 1
      BY <1>4, <3>1, OneMore
    <3> QED
      BY <1>4, <1>5, <3>2
  <2>2. Len(text) <= Len(text) + VerifyRows - 2
    <3>1. \A i, j \in Nat : j >= 2 => i <= i + j - 2
      OBVIOUS
    <3> QED
      BY <1>4, <3>1
  <2>3. \A p \in 1 .. Len(text) : partner'[p] = Known[p + 1]
    BY <1>2, <1>3
  <2>4. Len(text) <= Len(text)
    BY <1>4
  <2> QED
    BY <1>3, <1>7, <2>1, <2>2, <2>3, <2>4 DEF Follows
<1>12. Prefilling' /\ ToJudge' /\ Resting' /\ EndsForItsReason'
  BY <1>6 DEF Prefilling, ToJudge, Resting, EndsForItsReason, Judging
<1>13. Ended'
  <2>1. Silent(Len(generated) - 1)'
    BY <1>3, <1>4, <1>5, Lengths DEF Silent
  <2> QED
    BY <1>3, <1>5, <1>6, <2>1 DEF Ended
<1>14. Decoding'
  <2>1. /\ generated' # <<>> /\ Known' = text' \o <<LastOf(generated')>>
        /\ Silent(Len(generated))' /\ reason' = "length"
        /\ Len(generated') < o'.stop_after /\ Len(generated') < o'.max_new
    BY <1>3, <1>5, <1>7 DEF Silent
  <2>2. pc' \in {"chain", "verify"} =>
          /\ enabled' /\ mtp_done' = Len(text') /\ pend' = <<>> /\ chained' > 0
          /\ Len(d') \in 1 .. k' /\ Len(partner') + 1 = mtp_done' + Len(d')
          /\ Plain(Len(d) - 1)'
    <3> SUFFICES ASSUME pc' \in {"chain", "verify"}
                 PROVE  /\ enabled /\ chained' > 0
                        /\ Len(d') \in 1 .. k /\ Len(partner') + 1 = mtp_done' + Len(d')
                        /\ Plain(Len(d) - 1)'
      BY <1>3, <1>7
    <3>1. Len(d') = 1 /\ k > 0
      BY <1>6
    <3>2. Plain(Len(d) - 1)'
      BY <3>1 DEF Plain
    <3>3. Len(partner') + 1 = mtp_done' + Len(d')
      BY <1>7, <3>1
    <3> QED
      BY <1>2, <1>3, <1>4, <1>5, <3>1, <3>2, <3>3
  <2>3. pc' # "next" /\ pc' # "plan" /\ pc' # "catch_up"
    BY <1>6
  <2>4. pc' = "step" => mtp_done' = Len(text') /\ pend' = <<>>
    BY <1>3, <1>7
  <2>5. k' <= Kmax'
    BY <1>3, <1>5, <1>7
  <2>6. pc' = "chain" => Len(d') < k' /\ ~IsStop(LastOf(d'))
    BY <1>3, <1>6
  <2> QED
    BY <2>1, <2>2, <2>3, <2>4, <2>5, <2>6 DEF Decoding, Drafting, IsStop
<1> QED
  BY <1>8, <1>9, <1>10, <1>11, <1>12, <1>13, <1>14 DEF IInv

\* The predictor drafts on from its own draft.
LEMMA ChainStep ==
  ASSUME IInv, chain PROVE IInv'
<1>1. /\ pc = "chain"
      /\ Call(CanChain,
           /\ Chain(LastOf(d))
           /\ \E t \in Token : Drafted(t)
           /\ UNCHANGED <<stopped, request, output, fed, last_count, have_id, next_id, k, pend,
                          pend_off, mtp_done>>)
  BY DEF chain
<1>2. /\ Typed /\ d \in Seq(Token) /\ Len(d) \in Nat /\ Len(text) \in Nat /\ text \in Seq(Token)
      /\ Capacity \in Nat /\ partner \in Seq(Token) /\ Len(partner) \in Nat /\ valid = TRUE
      /\ k \in 0 .. (VerifyRows - 1) /\ VerifyRows \in Nat /\ VerifyRows >= 2 /\ mtp_done \in Nat
  BY Lengths, Constants DEF IInv, Typed
<1>3. /\ enabled /\ mtp_done = Len(text) /\ pend = <<>> /\ chained > 0
      /\ Len(d) \in 1 .. k /\ Len(partner) + 1 = mtp_done + Len(d)
      /\ Plain(Len(d) - 1) /\ k <= Kmax /\ Len(d) < k /\ ~IsStop(LastOf(d))
  BY <1>1 DEF IInv, Decoding, Drafting
<1>4. /\ generated # <<>> /\ Known = text \o <<LastOf(generated)>> /\ Silent(Len(generated))
      /\ reason = "length" /\ Len(generated) < o.stop_after /\ Len(generated) < o.max_new
  BY <1>1 DEF IInv, Decoding, Emitted
<1>5. Kmax \in Int /\ Len(text) + 1 + Kmax <= Capacity
  <2>1. Kmax \in Int
    BY <1>2, RoomForDrafts DEF DraftRoom
  <2>2. Kmax > 0
    BY <1>2, <1>3, <2>1
  <2> QED
    BY <1>2, <2>2, RoomForDrafts DEF DraftRoom
<1>6. CanChain
  <2>1. Len(partner) < Capacity
    BY <1>2, <1>3, <1>5
  <2> QED
    BY <1>2, <1>3, <2>1 DEF CanChain
<1>7. /\ partner' = partner \o <<LastOf(d)>> /\ chained' = Len(<<LastOf(d)>>)
      /\ \E t \in Token : Drafted(t)
      /\ UNCHANGED <<valid, text, first, count, enabled, pending>>
      /\ UNCHANGED <<chat, transcript, prompt, o, generated, reason, stopped, fed, last_count,
                     have_id, next_id, k, pend, pend_off, mtp_done>>
  BY <1>1, <1>6 DEF Call, Chain, Paired, trunk, request, output
<1>8. PICK t \in Token : Drafted(t)
  BY <1>7
<1>9. /\ logits' \in Seq(Rows) /\ Len(logits') >= 1
      /\ d' \in Seq(Token) /\ Len(d') = Len(d) + 1 /\ LastOf(d') = t
      /\ \A j \in 1 .. Len(d) : d'[j] = d[j]
      /\ pc' \in {"chain", "verify"}
      /\ pc' = "chain" => Len(d') < k /\ ~IsStop(t)
  BY <1>2, <1>8, OneMoreDraft
<1>10. /\ partner' \in Seq(Token) /\ Len(partner') = Len(partner) + 1 /\ chained' = 1
       /\ \A p \in 1 .. Len(partner) : partner'[p] = partner[p]
  <2>1. LastOf(d) \in Token
    <3>1. d # <<>>
      BY <1>2, <1>3, EmptySeq
    <3> QED
      BY <1>2, <3>1, LastToken
  <2>2. Append(partner, LastOf(d)) = partner \o <<LastOf(d)>>
    BY <1>2, <2>1, OneMore
  <2>3. Len(<<LastOf(d)>>) = 1
    OBVIOUS
  <2> QED
    BY <1>2, <1>7, <2>1, <2>2, <2>3, OneMore
<1>11. Known' = Known /\ Kmax' = Kmax /\ Done' = mtp_done /\ Done = mtp_done
  BY <1>1, <1>7, <1>9 DEF Known, Kmax, Done
<1>12. Typed'
  BY <1>2, <1>7, <1>9, <1>10 DEF Typed, Drafting, Judging
<1>13. Counted' /\ Budget'
  BY <1>1, <1>7, <1>9 DEF IInv, Counted, Budget, Busy, Suffix
<1>14. Ahead'
  BY <1>1, <1>7, <1>11 DEF IInv, Ahead, Busy
<1>15. Follows'
  <2>1. /\ mtp_done <= Len(text) /\ mtp_done < Len(Known) /\ mtp_done <= Len(partner)
        /\ \A p \in 1 .. mtp_done : partner[p] = Known[p + 1]
    BY <1>1, <1>3, <1>11 DEF IInv, Follows, Busy
  <2>2. mtp_done <= Len(partner') /\ Len(partner') <= mtp_done + VerifyRows - 2
    <3>1. Len(partner) + 1 = mtp_done + Len(d) /\ Len(d) + 1 <= k /\ k <= VerifyRows - 1
      BY <1>2, <1>3
    <3>2. Len(partner) + 1 <= mtp_done + VerifyRows - 2 /\ mtp_done <= Len(partner) + 1
      BY <1>2, <1>3, <3>1
    <3> QED
      BY <1>10, <3>2
  <2>3. ASSUME NEW p \in 1 .. mtp_done PROVE partner'[p] = Known[p + 1]
    <3>1. p \in 1 .. Len(partner)
      BY <1>2, <2>1
    <3> QED
      BY <1>10, <2>1, <3>1
  <2> QED
    BY <1>3, <1>7, <1>11, <2>1, <2>2, <2>3 DEF Follows
<1>16. Prefilling' /\ ToJudge' /\ Ended' /\ Resting' /\ EndsForItsReason'
  BY <1>9 DEF Prefilling, ToJudge, Ended, Resting, EndsForItsReason, Judging
<1>17. Decoding'
  <2>1. /\ generated' # <<>> /\ Known' = text' \o <<LastOf(generated')>>
        /\ Silent(Len(generated))' /\ reason' = "length"
        /\ Len(generated') < o'.stop_after /\ Len(generated') < o'.max_new
    BY <1>4, <1>7, <1>11 DEF Silent
  <2>2. Plain(Len(d) - 1)'
    <3>1. ASSUME NEW j \in 1 .. Len(d) PROVE ~IsStop(d'[j])
      <4>1. CASE j = Len(d)
        BY <1>3, <1>9, <4>1 DEF LastOf
      <4>2. CASE j # Len(d)
        <5>1. j \in 1 .. (Len(d) - 1)
          BY <1>2, <4>2
        <5> QED
          BY <1>3, <1>9, <5>1 DEF Plain
      <4> QED
        BY <4>1, <4>2
    <3>2. Len(d') - 1 = Len(d)
      BY <1>2, <1>9
    <3> QED
      BY <3>1, <3>2 DEF Plain, IsStop
  <2>3. Len(d') \in 1 .. k /\ Len(partner') + 1 = mtp_done + Len(d')
    <3>1. Len(d) + 1 \in 1 .. k /\ Len(partner) + 1 + 1 = mtp_done + (Len(d) + 1)
      BY <1>2, <1>3
    <3> QED
      BY <1>9, <1>10, <3>1
  <2>4. chained' > 0 /\ k' <= Kmax'
    BY <1>3, <1>7, <1>10, <1>11
  <2>5. pc' = "chain" => Len(d') < k' /\ ~IsStop(LastOf(d'))
    BY <1>7, <1>9
  <2> QED
    BY <1>3, <1>7, <1>9, <2>1, <2>2, <2>3, <2>4, <2>5 DEF Decoding, Drafting, IsStop
<1> QED
  BY <1>12, <1>13, <1>14, <1>15, <1>16, <1>17 DEF IInv

\* The trunk reads the token emitted last.
LEMMA StepStep ==
  ASSUME IInv, step PROVE IInv'
<1> DEFINE t == LastOf(generated)
<1>1. /\ pc = "step"
      /\ Call(CanAppend(<<t>>),
           /\ Extend(<<t>>)
           /\ ReadBack(text')
           /\ have_id' = o.use_id
           /\ last_count' = 1 /\ pend_off' = 0
           /\ pc' = "next"
           /\ UNCHANGED <<stopped, request, output, fed, k, d, pend, mtp_done>>)
  BY DEF step
<1>2. /\ Typed /\ d = <<>> /\ Len(text) \in Nat /\ text \in Seq(Token) /\ valid = TRUE
      /\ Capacity \in Nat /\ MaxTokens \in 1 .. Capacity /\ generated \in Seq(Token)
      /\ Len(generated) \in Nat /\ Len(prompt) \in Nat /\ o.max_new \in Nat
      /\ Known \in Seq(Token) /\ Len(Known) = Len(prompt) + Len(generated) /\ o.use_id \in BOOLEAN
  BY <1>1, Lengths, Constants, KnownTokens DEF IInv, Typed, Drafting, Judging
<1>3. /\ generated # <<>> /\ Known = text \o <<t>> /\ Silent(Len(generated))
      /\ reason = "length" /\ Len(generated) < o.stop_after /\ Len(generated) < o.max_new
      /\ enabled /\ (o.keep_predictor \/ Kmax > 0) => mtp_done = Len(text) /\ pend = <<>>
      /\ Len(prompt) + o.max_new <= Capacity
  BY <1>1 DEF IInv, Decoding, Emitted, Budget, Busy
<1>4. t \in Token
  BY <1>2, <1>3, LastToken
<1> HIDE DEF t
<1>5. /\ <<t>> \in Seq(Token) /\ Len(<<t>>) = 1 /\ Len(Known) = Len(text) + 1
  <2>1. Len(Append(text, t)) = Len(text) + 1 /\ Append(text, t) = text \o <<t>>
    BY <1>2, <1>4, OneMore
  <2> QED
    BY <1>3, <1>4, <2>1
<1>6. Len(text) + 1 <= Capacity
  BY <1>2, <1>3, <1>5
<1>7. CanAppend(<<t>>)
  BY <1>2, <1>5, <1>6 DEF CanAppend
<1>8. /\ text' = text \o <<t>> /\ first' = Len(text) /\ count' = Len(<<t>>) /\ pending' = 0
      /\ ReadBack(text') /\ have_id' = o.use_id /\ last_count' = 1 /\ pend_off' = 0 /\ pc' = "next"
      /\ UNCHANGED <<valid, enabled, partner, chained>>
      /\ UNCHANGED <<chat, transcript, prompt, o, generated, reason, stopped, fed, k, d, pend, mtp_done>>
  BY <1>1, <1>7 DEF Call, Extend, Extended, predictor, request, output
<1>9. text' = Known /\ Len(text') = Len(text) + 1 /\ count' = 1 /\ text' \in Seq(Token)
  BY <1>2, <1>3, <1>5, <1>8
<1>10. /\ next_id' \in Rows /\ logits' \in Seq(Rows) /\ Len(logits') >= 1 /\ LastRead'
  BY <1>2, <1>8, <1>9, ReadBackOf DEF LastRead
<1>11. Known' = Known /\ Done' = mtp_done /\ Done = mtp_done
  BY <1>1, <1>8 DEF Known, Done
<1>12. Typed'
  BY <1>2, <1>6, <1>8, <1>9, <1>10 DEF Typed, Drafting, Judging
<1>13. Counted'
  BY <1>2, <1>8, <1>9 DEF Counted
<1>14. Budget'
  BY <1>1, <1>8 DEF IInv, Budget, Busy, Suffix
<1>15. Ahead'
  BY <1>2, <1>9, <1>11, SubSeqFull DEF Ahead
<1>16. Follows'
  <2>1. Busy
    BY <1>1 DEF Busy
  <2>2. ASSUME enabled PROVE mtp_done <= Len(text')
    <3>1. mtp_done <= Len(text) /\ mtp_done \in Nat
      BY <1>2, <1>11, <2>1, <2>2 DEF IInv, Follows, Typed
    <3> QED
      BY <1>2, <1>9, <3>1
  <2> QED
    BY <1>8, <1>11, <2>1, <2>2 DEF IInv, Follows
<1>17. Prefilling' /\ ToJudge' /\ Ended' /\ Resting' /\ EndsForItsReason'
  BY <1>8 DEF Prefilling, ToJudge, Ended, Resting, EndsForItsReason, Judging
<1>18. Decoding'
  <2>1. Argmax'.of = Known'
    BY <1>8, <1>9, <1>10, <1>11 DEF Argmax, LastRead
  <2>2. Silent(Len(generated))'
    BY <1>3, <1>8 DEF Silent
  <2>3. Due'
    <3> SUFFICES ASSUME enabled, o.keep_predictor \/ Kmax' > 0
                 PROVE  /\ first' + pend_off' = mtp_done /\ pend_off' + Len(pend) + 1 = count'
                        /\ pend = SubSeq(text', mtp_done + 2, Len(text'))
      BY <1>8 DEF Due
    <3>1. o.keep_predictor \/ Kmax > 0
      <4> SUFFICES ASSUME Kmax' > 0 PROVE Kmax > 0
        OBVIOUS
      <4>1. DraftRoom' /\ DraftRoom
        BY <1>2, <1>12, RoomForDrafts, RoomForDraftsNext
      <4>2. /\ Kmax' \in Int /\ Len(generated) + 1 + Kmax' <= o.max_new
            /\ Len(generated) + 1 + Kmax' <= o.stop_after
            /\ Len(text') + 1 + Kmax' <= Capacity
        BY <1>8, <4>1 DEF DraftRoom
      <4>3. \A l, m, i \in Int : i > 0 /\ l + 1 + i <= m => l + 2 <= m
        OBVIOUS
      <4>4. Len(generated) + 2 <= o.max_new /\ Len(generated) + 2 <= o.stop_after
            /\ Len(text') + 2 <= Capacity
        <5>1. Len(text') \in Int /\ Len(generated) \in Int /\ o.max_new \in Int
              /\ o.stop_after \in Int /\ Capacity \in Int
          BY <1>2, <1>9, Lengths
        <5>2. Len(text') + 2 <= Capacity
          BY <4>2, <4>3, <5>1
        <5> QED
          BY <4>2, <4>3, <5>1, <5>2
      <4>5. Len(text) + 2 <= Capacity
        BY <1>2, <1>9, <4>4
      <4> QED
        BY <4>1, <4>4, <4>5 DEF DraftRoom
    <3>2. mtp_done = Len(text) /\ pend = <<>> /\ Len(pend) = 0
      BY <1>3, <3>1, EmptySeq
    <3>3. SubSeq(text', Len(text) + 2, Len(text) + 1) = <<>>
      BY <1>2, <1>9, SubSeqEmpty
    <3>4. first' + pend_off' = mtp_done /\ pend_off' + Len(pend) + 1 = count'
      BY <1>2, <1>8, <1>9, <3>2
    <3> QED
      BY <1>9, <3>2, <3>3, <3>4
  <2> QED
    BY <1>3, <1>8, <1>9, <1>11, <2>1, <2>2, <2>3 DEF Decoding, Emitted, Drafting
<1> QED
  BY <1>12, <1>13, <1>14, <1>15, <1>16, <1>17, <1>18 DEF IInv

\* The rows of a verify: the token emitted last and the drafts that may follow it.
LEMMA VerifyRowIds ==
  ASSUME IInv, pc = "verify"
  PROVE  /\ Live \in Nat /\ Live <= Len(d) /\ Plain(Live) /\ Live + 1 <= VerifyRows
         /\ RowIds \in Seq(Token) /\ Len(RowIds) = Live + 1
         /\ Len(text) + (Live + 1) <= Capacity
         /\ Live + Len(generated) < o.stop_after /\ Live + Len(generated) < o.max_new
         /\ text \o RowIds = Known \o SubSeq(d, 1, Live)
         /\ \A j \in 1 .. (Live + 1) : text \o SubSeq(RowIds, 1, j) = Known \o SubSeq(d, 1, j - 1)
<1> DEFINE t == LastOf(generated)
           D == SubSeq(d, 1, Live)
<1>1. /\ Typed /\ d \in Seq(Token) /\ Len(d) \in Nat /\ Len(text) \in Nat /\ text \in Seq(Token)
      /\ Capacity \in Nat /\ VerifyRows \in Nat /\ generated \in Seq(Token) /\ Len(generated) \in Nat
      /\ k \in 0 .. (VerifyRows - 1) /\ o.max_new \in Nat /\ o.stop_after \in Nat
  BY Lengths, Constants DEF IInv, Typed
<1>2. /\ Len(d) \in 1 .. k /\ k <= Kmax /\ Plain(Len(d) - 1)
      /\ generated # <<>> /\ Known = text \o <<t>>
  BY DEF IInv, Decoding, Drafting, Emitted
<1>3. t \in Token
  BY <1>1, <1>2, LastToken
<1> HIDE DEF t
<1>4. /\ Live \in Nat /\ Live <= Len(d) /\ Plain(Live) /\ D \in Seq(Token) /\ Len(D) = Live
  BY <1>1, <1>2, DraftsLive
<1>5. /\ Kmax \in Int /\ Len(generated) + 1 + Kmax <= o.max_new
      /\ Len(generated) + 1 + Kmax <= o.stop_after /\ Len(text) + 1 + Kmax <= Capacity
  <2>1. Kmax \in Int
    BY <1>1, RoomForDrafts DEF DraftRoom
  <2>2. Kmax > 0
    BY <1>1, <1>2, <2>1
  <2> QED
    BY <1>1, <2>1, <2>2, RoomForDrafts DEF DraftRoom
<1>6. RowIds = <<t>> \o D
  BY DEF RowIds, t
<1>7. /\ <<t>> \in Seq(Token) /\ Len(<<t>>) = 1
  BY <1>3
<1> HIDE DEF D
<1>8. RowIds \in Seq(Token) /\ Len(RowIds) = Live + 1
  <2>1. <<t>> \o D \in Seq(Token) /\ Len(<<t>> \o D) = Len(<<t>>) + Len(D)
    BY <1>4, <1>7, ConcatProperties
  <2> QED
    BY <1>4, <1>6, <1>7, <2>1
<1>9. ASSUME NEW X \in Seq(Token) PROVE text \o (<<t>> \o X) = Known \o X
  <2>1. (text \o <<t>>) \o X = text \o (<<t>> \o X)
    <3>1. text \in Seq(Token) /\ <<t>> \in Seq(Token) /\ X \in Seq(Token)
      BY <1>1, <1>7
    <3> QED
      BY ONLY <3>1, ConcatAssociative
  <2> QED
    BY <1>2, <2>1
<1>10. text \o RowIds = Known \o D
  BY <1>4, <1>6, <1>9
<1>11. ASSUME NEW j \in 1 .. (Live + 1)
       PROVE  text \o SubSeq(RowIds, 1, j) = Known \o SubSeq(d, 1, j - 1)
  <2> DEFINE i == j - 1
  <2>1. i \in 0 .. Live /\ Live \in 0 .. Len(d) /\ i \in 0 .. Len(D) /\ i \in 0 .. Len(d) /\ 1 + i = j
    BY <1>1, <1>4
  <2> HIDE DEF i
  <2>2. SubSeq(<<t>> \o D, 1, Len(<<t>>) + i) = <<t>> \o SubSeq(D, 1, i)
    BY <1>4, <1>7, <2>1, PrefixOfConcat
  <2>3. SubSeq(D, 1, i) = SubSeq(d, 1, i)
    BY <1>1, <2>1, PrefixOfPrefix DEF D
  <2>4. SubSeq(d, 1, i) \in Seq(Token)
    BY <1>1, <2>1, PrefixProperties
  <2>5. SubSeq(RowIds, 1, j) = <<t>> \o SubSeq(d, 1, i)
    BY <1>6, <1>7, <2>1, <2>2, <2>3
  <2>6. text \o SubSeq(RowIds, 1, j) = Known \o SubSeq(d, 1, i)
    BY <1>9, <2>4, <2>5
  <2> QED
    BY <2>6 DEF i
<1>12. /\ Live + 1 <= VerifyRows /\ Len(text) + (Live + 1) <= Capacity
       /\ Live + Len(generated) < o.stop_after /\ Live + Len(generated) < o.max_new
  <2>1. Live <= k /\ Live <= Kmax /\ k + 1 <= VerifyRows
    BY <1>1, <1>2, <1>4, <1>5
  <2> QED
    BY <1>1, <1>4, <1>5, <2>1
<1> QED
  BY <1>4, <1>8, <1>10, <1>11, <1>12 DEF D

\* While drafts are judged the text runs ahead of the conversation by those kept.
LEMMA JudgingAhead ==
  Typed /\ ToJudge /\ Judging =>
    /\ Len(text) = Len(Known) + (count - 1) /\ count \in 1 .. (Live + 1)
    /\ Ahead
<1> SUFFICES ASSUME Typed, ToJudge, Judging
             PROVE  /\ Len(text) = Len(Known) + (count - 1) /\ count \in 1 .. (Live + 1)
                    /\ Ahead
  OBVIOUS
<1>1. /\ Known \in Seq(Token) /\ Len(Known) \in Nat /\ d \in Seq(Token) /\ Len(d) \in Nat
      /\ count \in Nat
  BY Lengths, KnownTokens DEF Typed
<1>2. Live \in Nat /\ Live <= Len(d)
  BY <1>1, DraftsLive DEF ToJudge
<1>3. count \in 1 .. (Live + 1)
  <2>1. CASE pc = "keep"
    BY <1>2, <2>1 DEF ToJudge
  <2>2. CASE pc = "accept"
    BY <2>2 DEF ToJudge
  <2> QED
    BY <2>1, <2>2 DEF Judging
<1> DEFINE n == count - 1
<1>4. n \in 0 .. Len(d) /\ n \in Nat
  BY <1>1, <1>2, <1>3
<1>5. text = Known \o SubSeq(d, 1, n)
  BY DEF ToJudge
<1> HIDE DEF n
<1>6. SubSeq(d, 1, n) \in Seq(Token) /\ Len(SubSeq(d, 1, n)) = n
  BY <1>1, <1>4, PrefixProperties
<1>7. Len(text) = Len(Known) + n
  BY <1>1, <1>5, <1>6, ConcatProperties
<1>8. ASSUME Len(text) <= Len(Known) PROVE text = SubSeq(Known, 1, Len(text))
  <2>1. n = 0
    BY <1>1, <1>4, <1>7, <1>8
  <2>2. SubSeq(d, 1, n) = <<>>
    BY <1>6, <2>1, EmptySeq
  <2>3. text = Known
    BY <1>1, <1>5, <2>2, ConcatEmptySeq
  <2> QED
    BY <1>1, <2>3, SubSeqFull
<1> QED
  BY <1>3, <1>7, <1>8 DEF Ahead, n

\* verify: the drafts are appended to be judged.
LEMMA VerifyStep ==
  ASSUME IInv, verify PROVE IInv'
<1>1. /\ pc = "verify"
      /\ Call(IF Live > 0 THEN CanVerify(RowIds) ELSE CanAppend(RowIds),
           /\ IF Live > 0 THEN Verify(RowIds) /\ UNCHANGED last_count
                          ELSE Extend(RowIds) /\ last_count' = 1
           /\ \E n \in 0 .. Live, t \in Token :
                (n < Live => t # d[n + 1]) /\ logits' = Judged(n, t)
           /\ pc' = "keep"
           /\ UNCHANGED <<stopped, request, output, fed, have_id, next_id, cycle>>)
  BY DEF verify
<1>2. /\ Typed /\ Len(text) \in Nat /\ text \in Seq(Token) /\ valid = TRUE /\ Capacity \in Nat
      /\ VerifyRows \in 2 .. MaxTokens /\ MaxTokens \in Nat /\ d \in Seq(Token) /\ Len(d) \in Nat
      /\ Known \in Seq(Token) /\ Len(Known) \in Nat /\ last_count \in Nat /\ generated \in Seq(Token)
      /\ mtp_done \in Nat
  BY Lengths, Constants, KnownTokens DEF IInv, Typed
<1>3. /\ enabled /\ mtp_done = Len(text) /\ pend = <<>> /\ chained > 0 /\ Len(d) >= 1
      /\ generated # <<>> /\ Known = text \o <<LastOf(generated)>> /\ Silent(Len(generated))
      /\ reason = "length"
  BY <1>1 DEF IInv, Decoding, Drafting, Emitted
<1>4. /\ Live \in Nat /\ Live <= Len(d) /\ Plain(Live) /\ Live + 1 <= VerifyRows
      /\ RowIds \in Seq(Token) /\ Len(RowIds) = Live + 1
      /\ Len(text) + (Live + 1) <= Capacity
      /\ Live + Len(generated) < o.stop_after /\ Live + Len(generated) < o.max_new
      /\ text \o RowIds = Known \o SubSeq(d, 1, Live)
      /\ \A j \in 1 .. (Live + 1) : text \o SubSeq(RowIds, 1, j) = Known \o SubSeq(d, 1, j - 1)
  BY <1>1, VerifyRowIds
<1>5. Len(Known) = Len(text) + 1
  <2>1. LastOf(generated) \in Token
    BY <1>2, <1>3, LastToken
  <2>2. Len(Append(text, LastOf(generated))) = Len(text) + 1
        /\ Append(text, LastOf(generated)) = text \o <<LastOf(generated)>>
    BY <1>2, <2>1, OneMore
  <2> QED
    BY <1>3, <2>2
<1>6. CanAppend(RowIds) /\ (Live > 0 => CanVerify(RowIds))
  <2>1. CanAppend(RowIds)
    <3>1. Len(RowIds) \in 1 .. MaxTokens /\ Len(text) + Len(RowIds) <= Capacity
      BY <1>2, <1>4
    <3> QED
      BY <1>2, <3>1 DEF CanAppend
  <2>2. Live > 0 => Len(RowIds) \in 2 .. VerifyRows
    BY <1>2, <1>4
  <2> QED
    BY <1>3, <2>1, <2>2 DEF CanVerify
<1>7. /\ text' = text \o RowIds /\ first' = Len(text) /\ count' = Len(RowIds)
      /\ pending' = IF Live > 0 THEN Len(RowIds) ELSE 0
      /\ last_count' \in Nat
      /\ \E n \in 0 .. Live, t \in Token : logits' = Judged(n, t)
      /\ pc' = "keep"
      /\ UNCHANGED <<valid, enabled, partner, chained>>
      /\ UNCHANGED <<chat, transcript, prompt, o, generated, reason, stopped, fed, have_id, next_id,
                     k, d, pend, pend_off, mtp_done>>
  <2>1. /\ IF Live > 0 THEN Verify(RowIds) /\ UNCHANGED last_count
                       ELSE Extend(RowIds) /\ last_count' = 1
        /\ \E n \in 0 .. Live, t \in Token : logits' = Judged(n, t)
        /\ pc' = "keep"
        /\ UNCHANGED <<stopped, request, output, fed, have_id, next_id, cycle>>
    BY <1>1, <1>6 DEF Call
  <2>2. /\ text' = text \o RowIds /\ first' = Len(text) /\ count' = Len(RowIds)
        /\ pending' = IF Live > 0 THEN Len(RowIds) ELSE 0
        /\ last_count' \in Nat
        /\ UNCHANGED <<valid, enabled, partner, chained>>
    <3>1. CASE Live > 0
      BY <1>2, <2>1, <3>1 DEF Verify, Extended, predictor
    <3>2. CASE ~(Live > 0)
      BY <1>2, <2>1, <3>2 DEF Extend, Extended, predictor
    <3> QED
      BY <3>1, <3>2
  <2> QED
    BY <2>1, <2>2 DEF request, output, cycle
<1>8. /\ text' = Known \o SubSeq(d, 1, Live) /\ Len(text') = Len(text) + (Live + 1)
      /\ text' \in Seq(Token) /\ count' = Live + 1
      /\ pending' = IF Live > 0 THEN Live + 1 ELSE 0
  <2>1. text \o RowIds \in Seq(Token) /\ Len(text \o RowIds) = Len(text) + Len(RowIds)
    BY <1>2, <1>4, ConcatProperties
  <2> QED
    BY <1>4, <1>7, <2>1
<1>9. /\ logits' \in Seq(Rows) /\ Len(logits') = Live + 1
      /\ \A j \in 1 .. (Live + 1) : logits'[j].of = Known \o SubSeq(d, 1, j - 1)
  <2>1. PICK n \in 0 .. Live, t \in Token : logits' = Judged(n, t)
    BY <1>7
  <2> DEFINE row(j) == Row(text \o SubSeq(RowIds, 1, j), IF j <= n THEN d[j] ELSE t)
  <2>2. logits' = [j \in 1 .. (Live + 1) |-> row(j)]
    BY <2>1 DEF Judged
  <2>3. ASSUME NEW j \in 1 .. (Live + 1)
        PROVE  row(j) \in Rows /\ row(j).of = Known \o SubSeq(d, 1, j - 1)
    <3>1. text \o SubSeq(RowIds, 1, j) \in Seq(Token)
      <4>1. SubSeq(RowIds, 1, j) \in Seq(Token)
        BY <1>4, PrefixProperties
      <4> QED
        BY <1>2, <4>1, ConcatProperties
    <3>2. (IF j <= n THEN d[j] ELSE t) \in Token
      <4>1. CASE j <= n
        <5>1. j \in 1 .. Len(d)
          BY <1>2, <1>4, <4>1
        <5> QED
          BY <1>2, <4>1, <5>1, ElementOfSeq
      <4>2. CASE ~(j <= n)
        BY <4>2
      <4> QED
        BY <4>1, <4>2
    <3> QED
      BY <1>4, <3>1, <3>2 DEF Row, Rows
  <2> HIDE DEF row
  <2>4. logits' \in [1 .. (Live + 1) -> Rows]
    BY <2>2, <2>3
  <2>5. Live + 1 \in Nat
    BY <1>4
  <2>6. logits' \in Seq(Rows) /\ Len(logits') = Live + 1
    BY <2>4, <2>5
  <2> QED
    BY <2>2, <2>3, <2>6
<1>10. Known' = Known /\ Live' = Live /\ Done' = mtp_done /\ Done = mtp_done
  BY <1>1, <1>7 DEF Known, Live, LastOf, Done
<1>11. Typed'
  <2>1. Len(text') <= Capacity /\ count' \in Nat /\ pending' \in Nat /\ Len(logits') >= 1
    BY <1>4, <1>8, <1>9
  <2> QED
    BY <1>2, <1>7, <1>8, <1>9, <2>1 DEF Typed, Drafting, Judging
<1>12. Counted'
  BY <1>7, <1>8 DEF Counted
<1>13. Budget'
  BY <1>1, <1>7 DEF IInv, Budget, Busy, Suffix
<1>14. ToJudge'
  <2>1. Plain(Live)' /\ Silent(Len(generated))'
    BY <1>3, <1>4, <1>7, <1>10 DEF Plain, Silent
  <2>2. (\A j \in 1 .. (Live + 1) : logits[j].of = Known \o SubSeq(d, 1, j - 1))'
    BY <1>7, <1>9, <1>10
  <2>3. text' = Known' \o SubSeq(d', 1, count' - 1)
    <3>1. count' - 1 = Live
      BY <1>4, <1>8
    <3> QED
      BY <1>7, <1>8, <1>10, <3>1
  <2>4. mtp_done' + 1 = Len(Known') /\ mtp_done' = first'
    BY <1>3, <1>5, <1>7, <1>10
  <2> QED
    BY <1>3, <1>4, <1>7, <1>8, <1>9, <1>10, <2>1, <2>2, <2>3, <2>4 DEF ToJudge
<1>15. Ahead'
  <2>1. (Typed /\ ToJudge /\ Judging => Ahead)'
    BY JudgingAhead, PTL
  <2> QED
    BY <1>7, <1>11, <1>14, <2>1 DEF Judging
<1>16. Follows'
  <2>1. Busy
    BY <1>1 DEF Busy
  <2>2. Done <= Len(text')
    BY <1>2, <1>3, <1>4, <1>8, <1>10
  <2> QED
    BY <1>7, <1>10, <2>1, <2>2 DEF IInv, Follows
<1>17. Prefilling' /\ Decoding' /\ Ended' /\ Resting' /\ EndsForItsReason'
  BY <1>7 DEF Prefilling, Decoding, Ended, Resting, EndsForItsReason, Emitted, Drafting
<1> QED
  BY <1>11, <1>12, <1>13, <1>14, <1>15, <1>16, <1>17 DEF IInv

\* The accepted rows are kept, or after a stop the first alone.
LEMMA KeepStep ==
  ASSUME IInv, keep PROVE IInv'
<1>1. /\ pc = "keep"
      /\ Call(Live > 0 => CanKeep(Kept),
           /\ IF Live > 0 THEN Keep(Kept) ELSE UNCHANGED gvars
           /\ last_count' = Kept
           /\ pend_off' = 0 /\ have_id' = FALSE
           /\ pc' = "accept"
           /\ UNCHANGED <<stopped, request, output, fed, next_id, logits, k, d, pend, mtp_done>>)
  BY DEF keep
<1>2. /\ Typed /\ Len(text) \in Nat /\ text \in Seq(Token) /\ valid = TRUE /\ Capacity \in Nat
      /\ Len(text) <= Capacity /\ d \in Seq(Token) /\ Len(d) \in Nat /\ Known \in Seq(Token)
      /\ Len(Known) \in Nat /\ first \in Nat /\ stopped \in BOOLEAN
  BY Lengths, Constants, KnownTokens DEF IInv, Typed
<1>3. /\ enabled /\ Len(d) >= 1 /\ Plain(Live) /\ pend = <<>> /\ reason = "length"
      /\ generated # <<>> /\ Silent(Len(generated))
      /\ Live + Len(generated) < o.stop_after /\ Live + Len(generated) < o.max_new
      /\ mtp_done + 1 = Len(Known) /\ mtp_done = first
      /\ Len(logits) = Live + 1
      /\ \A j \in 1 .. (Live + 1) : logits[j].of = Known \o SubSeq(d, 1, j - 1)
      /\ count = Live + 1 /\ (Live > 0 => pending = Live + 1)
      /\ text = Known \o SubSeq(d, 1, count - 1)
  BY <1>1 DEF IInv, ToJudge, Judging
<1>4. Live \in Nat /\ Live <= Len(d) /\ Accepted \in 0 .. Live
  BY <1>2, <1>3, DraftsLive, DraftsAccepted
<1>5. Kept \in 1 .. (Live + 1) /\ (~stopped => Kept = Accepted + 1)
  BY <1>4 DEF Kept
<1>6. Live > 0 => CanKeep(Kept)
  BY <1>2, <1>3, <1>5 DEF CanKeep
<1>7. /\ IF Live > 0 THEN Keep(Kept) ELSE UNCHANGED gvars
      /\ last_count' = Kept /\ pend_off' = 0 /\ have_id' = FALSE /\ pc' = "accept"
      /\ UNCHANGED <<chat, transcript, prompt, o, generated, reason, stopped, fed, next_id, logits,
                     k, d, pend, mtp_done>>
  BY <1>1, <1>6 DEF Call, request, output
<1> DEFINE i == Kept - 1
<1>8. i \in 0 .. Live /\ i \in 0 .. Len(d) /\ Live \in 0 .. Len(d) /\ Kept = i + 1
  BY <1>2, <1>4, <1>5
<1> HIDE DEF i
<1>9. SubSeq(d, 1, i) \in Seq(Token) /\ Len(SubSeq(d, 1, i)) = i
  BY <1>2, <1>8, PrefixProperties
<1>10. /\ text' = Known \o SubSeq(d, 1, i) /\ count' = i + 1 /\ pending' \in Nat
       /\ UNCHANGED <<valid, first, enabled, partner, chained>>
  <2>1. CASE Live > 0
    <3>1. /\ text' = SubSeq(text, 1, first + Kept) /\ count' = Kept /\ pending' = 0
          /\ UNCHANGED <<valid, first, enabled, partner, chained>>
      BY <1>7, <2>1 DEF Keep, predictor
    <3>2. text = Known \o SubSeq(d, 1, Live)
      <4>1. count - 1 = Live
        BY <1>3, <1>4
      <4> QED
        BY <1>3, <4>1
    <3>3. first + Kept = Len(Known) + i
      <4>1. first + 1 = Len(Known) /\ i \in Int
        BY <1>2, <1>3, <1>8
      <4>2. \A f, j, l \in Int : f + 1 = l => f + (j + 1) = l + j
        OBVIOUS
      <4>3. first + (i + 1) = Len(Known) + i
        BY <1>2, <4>1, <4>2
      <4> QED
        BY <1>8, <4>3
    <3>4. SubSeq(d, 1, Live) \in Seq(Token) /\ i \in 0 .. Len(SubSeq(d, 1, Live))
      BY <1>2, <1>4, <1>8, PrefixProperties
    <3>5. SubSeq(Known \o SubSeq(d, 1, Live), 1, Len(Known) + i)
            = Known \o SubSeq(SubSeq(d, 1, Live), 1, i)
      <4> DEFINE D == SubSeq(d, 1, Live)
      <4>1. D \in Seq(Token) /\ i \in 0 .. Len(D) /\ Known \in Seq(Token)
        BY <1>2, <3>4
      <4> HIDE DEF D
      <4>2. SubSeq(Known \o D, 1, Len(Known) + i) = Known \o SubSeq(D, 1, i)
        BY ONLY <4>1, PrefixOfConcat
      <4> QED
        BY <4>2 DEF D
    <3>6. SubSeq(SubSeq(d, 1, Live), 1, i) = SubSeq(d, 1, i)
      BY <1>2, <1>8, PrefixOfPrefix
    <3> QED
      BY <1>8, <3>1, <3>2, <3>3, <3>5, <3>6
  <2>2. CASE ~(Live > 0)
    <3>1. UNCHANGED <<valid, text, first, count, enabled, partner, chained, pending>>
      BY <1>7, <2>2 DEF gvars, trunk, predictor
    <3>2. i = 0 /\ count = 1 /\ count - 1 = i
      BY <1>3, <1>4, <1>8, <2>2
    <3> QED
      BY <1>2, <1>3, <3>1, <3>2 DEF Typed
  <2> QED
    BY <2>1, <2>2
<1>11. text' \in Seq(Token) /\ Len(text') = Len(Known) + i /\ Len(text') <= Len(text)
  <2>1. /\ Known \o SubSeq(d, 1, i) \in Seq(Token)
        /\ Len(Known \o SubSeq(d, 1, i)) = Len(Known) + Len(SubSeq(d, 1, i))
    BY <1>2, <1>9, ConcatProperties
  <2>2. Len(text) = Len(Known) + (count - 1)
    BY <1>1, <1>2, JudgingAhead DEF IInv, Judging
  <2> QED
    BY <1>2, <1>3, <1>4, <1>8, <1>9, <1>10, <2>1, <2>2
<1>12. Known' = Known /\ Live' = Live /\ Accepted' = Accepted /\ Done' = mtp_done /\ Done = mtp_done
  <2>1. Known' = Known /\ Done' = mtp_done /\ Done = mtp_done
    BY <1>1, <1>7 DEF Known, Done
  <2>2. Live' = Live
    BY <1>7 DEF Live, LastOf
  <2>3. Accepted' = Accepted
    BY <1>7, <2>2 DEF Accepted
  <2> QED
    BY <2>1, <2>2, <2>3
<1>13. Typed'
  <2>1. Len(text') <= Capacity /\ count' \in Nat /\ Kept \in Nat
    BY <1>2, <1>8, <1>10, <1>11
  <2> QED
    BY <1>2, <1>7, <1>10, <1>11, <2>1 DEF Typed, Drafting, Judging
<1>14. Counted'
  <2>1. first' + count' = Len(text')
    <3>1. first + 1 = Len(Known) /\ i \in Int
      BY <1>2, <1>3, <1>8
    <3>2. \A f, j, l \in Int : f + 1 = l => f + (j + 1) = l + j
      OBVIOUS
    <3>3. first + (i + 1) = Len(Known) + i
      BY <1>2, <3>1, <3>2
    <3> QED
      BY <1>10, <1>11, <3>3
  <2> QED
    BY <1>7, <1>8, <1>10, <2>1 DEF Counted
<1>15. Budget'
  BY <1>1, <1>7 DEF IInv, Budget, Busy, Suffix
<1>16. ToJudge'
  <2>1. Plain(Live)' /\ Silent(Len(generated))'
    BY <1>3, <1>7, <1>12 DEF Plain, Silent
  <2>2. (\A j \in 1 .. (Live + 1) : logits[j].of = Known \o SubSeq(d, 1, j - 1))'
    BY <1>3, <1>7, <1>12
  <2>3. text' = Known' \o SubSeq(d', 1, count' - 1)
    <3>1. count' - 1 = i
      BY <1>8, <1>10
    <3> QED
      BY <1>7, <1>10, <1>12, <3>1
  <2>4. count' \in 1 .. (Live' + 1) /\ (~stopped' => count' = Accepted' + 1)
    BY <1>5, <1>7, <1>8, <1>10, <1>12
  <2> QED
    BY <1>3, <1>7, <1>10, <1>12, <2>1, <2>2, <2>3, <2>4 DEF ToJudge
<1>17. Ahead'
  <2>1. (Typed /\ ToJudge /\ Judging => Ahead)'
    BY JudgingAhead, PTL
  <2> QED
    BY <1>7, <1>13, <1>16, <2>1 DEF Judging
<1>18. Follows'
  <2>1. Busy
    BY <1>1 DEF Busy
  <2>2. Done <= Len(text')
    BY <1>2, <1>3, <1>8, <1>11, <1>12
  <2> QED
    BY <1>10, <1>12, <2>1, <2>2 DEF IInv, Follows
<1>19. Prefilling' /\ Decoding' /\ Ended' /\ Resting' /\ EndsForItsReason'
  BY <1>7 DEF Prefilling, Decoding, Ended, Resting, EndsForItsReason, Emitted, Drafting
<1> QED
  BY <1>13, <1>14, <1>15, <1>16, <1>17, <1>18, <1>19 DEF IInv

\* What is known when the accepted drafts are emitted: they are the end of the
\* text, and neither limit of the turn is reached by them.
LEMMA AcceptedDrafts ==
  ASSUME IInv, pc = "accept", ~stopped
  PROVE  /\ Accepted \in 0 .. Live /\ Live \in Nat /\ Live <= Len(d)
         /\ SubSeq(d, 1, Accepted) \in Seq(Token) /\ Len(SubSeq(d, 1, Accepted)) = Accepted
         /\ \A j \in 1 .. Accepted : /\ SubSeq(d, 1, Accepted)[j] = d[j]
                                     /\ logits[j].argmax = d[j] /\ ~IsStop(d[j])
         /\ text = Known \o SubSeq(d, 1, Accepted) /\ count = Accepted + 1
         /\ Min({Accepted, o.stop_after - Len(generated)}) = Accepted
         /\ Accepted # o.stop_after - Len(generated)
         /\ Len(generated) + Accepted < o.max_new /\ Len(generated) + Accepted < o.stop_after
<1>1. /\ Typed /\ d \in Seq(Token) /\ Len(d) \in Nat /\ Len(generated) \in Nat /\ o.stop_after \in Nat
      /\ o.max_new \in Nat
  BY Lengths DEF IInv, Typed
<1>2. /\ Len(d) >= 1 /\ Plain(Live) /\ text = Known \o SubSeq(d, 1, count - 1)
      /\ Live + Len(generated) < o.stop_after /\ Live + Len(generated) < o.max_new
      /\ count = Accepted + 1
  BY DEF IInv, ToJudge, Judging
<1>3. /\ Live \in Nat /\ Live <= Len(d) /\ Accepted \in 0 .. Live
      /\ \A j \in 1 .. Accepted : logits[j].argmax = d[j]
  BY <1>1, <1>2, DraftsLive, DraftsAccepted
<1>4. Accepted \in 0 .. Len(d) /\ Accepted \in Nat /\ count - 1 = Accepted
  BY <1>1, <1>2, <1>3
<1>5. /\ SubSeq(d, 1, Accepted) \in Seq(Token) /\ Len(SubSeq(d, 1, Accepted)) = Accepted
      /\ \A j \in 1 .. Accepted : SubSeq(d, 1, Accepted)[j] = d[j]
  BY <1>1, <1>4, PrefixProperties
<1>6. \A j \in 1 .. Accepted : ~IsStop(d[j])
  BY <1>2, <1>3 DEF Plain
<1>7. /\ Len(generated) + Accepted < o.max_new /\ Len(generated) + Accepted < o.stop_after
      /\ Accepted # o.stop_after - Len(generated)
  BY <1>1, <1>2, <1>3, <1>4
<1>8. Min({Accepted, o.stop_after - Len(generated)}) = Accepted
  <2> DEFINE room == o.stop_after - Len(generated)
  <2>1. Accepted \in Int /\ room \in Int /\ Accepted <= room
    BY <1>1, <1>4, <1>7
  <2> HIDE DEF room
  <2>2. Min({Accepted, room}) = Accepted
    BY <2>1, MinOfTwo
  <2> QED
    BY <2>2 DEF room
<1> QED
  BY <1>2, <1>3, <1>4, <1>5, <1>6, <1>7, <1>8

\* accept: the prefix the trunk agrees with is kept, the rest rolled back.
LEMMA AcceptStep ==
  ASSUME IInv, accept PROVE IInv'
<1> DEFINE m    == Accepted
           room == o.stop_after - Len(generated)
           n    == Min({m, room})
           D    == SubSeq(d, 1, m)
<1>1. /\ pc = "accept"
      /\ IF stopped
           THEN end /\ UNCHANGED <<output, logits, pend>>
           ELSE /\ pend' = SubSeq(d, 1, m)
                /\ generated' = generated \o SubSeq(d, 1, n)
                /\ IF n > 0 /\ n = room
                     THEN end /\ reason' = "cancelled" /\ UNCHANGED logits
                     ELSE /\ pc' = "next" /\ UNCHANGED reason
                          /\ logits' = <<logits[m + 1]>>
      /\ d' = <<>>
      /\ UNCHANGED <<gvars, stopped, request, fed, last_count, have_id, next_id, k, pend_off,
                     mtp_done>>
  BY DEF accept
<1>2. /\ UNCHANGED <<valid, text, first, count, enabled, partner, chained, pending>>
      /\ UNCHANGED <<chat, transcript, prompt, o, stopped, fed, last_count, have_id, next_id, k,
                     pend_off, mtp_done>>
  BY <1>1 DEF gvars, trunk, predictor, request
<1>3. /\ Typed /\ Len(text) \in Nat /\ text \in Seq(Token) /\ Known \in Seq(Token)
      /\ Len(Known) \in Nat /\ generated \in Seq(Token) /\ Len(generated) \in Nat
      /\ o.max_new \in Nat /\ o.stop_after \in Nat /\ <<>> \in Seq(Token) /\ mtp_done \in Nat
      /\ logits \in Seq(Rows) /\ prompt \in Seq(Token)
  BY Lengths, KnownTokens, EmptySeq DEF IInv, Typed
<1>4. /\ enabled /\ pend = <<>> /\ reason = "length" /\ generated # <<>> /\ Silent(Len(generated))
      /\ mtp_done + 1 = Len(Known) /\ mtp_done = first /\ Len(logits) = Live + 1
      /\ \A j \in 1 .. (Live + 1) : logits[j].of = Known \o SubSeq(d, 1, j - 1)
      /\ pend_off = 0 /\ have_id = FALSE
  BY <1>1 DEF IInv, ToJudge, Judging
<1>5. CASE stopped
  <2>1. /\ pc' = "end" /\ d' = <<>>
        /\ UNCHANGED <<generated, reason, logits, pend>>
    BY <1>1, <1>5 DEF end, output
  <2>2. Known' = Known /\ Done' = mtp_done /\ Done = mtp_done
    BY <1>1, <1>2, <2>1 DEF Known, Done
  <2>3. Typed'
    BY <1>2, <1>3, <2>1 DEF Typed, Drafting, Judging
  <2>4. Counted' /\ Budget'
    BY <1>1, <1>2, <2>1 DEF IInv, Counted, Budget, Busy, Suffix
  <2>5. Ahead' /\ Follows'
    BY <1>1, <1>2, <2>1, <2>2 DEF IInv, Ahead, Follows, Busy
  <2>6. Prefilling' /\ Decoding' /\ ToJudge' /\ Resting' /\ EndsForItsReason'
    BY <2>1 DEF Prefilling, Decoding, ToJudge, Resting, EndsForItsReason, Emitted, Drafting, Judging
  <2>7. Ended'
    <3>1. Silent(Len(generated) - 1)'
      BY <1>3, <1>4, <2>1 DEF Silent
    <3> QED
      BY <1>2, <1>4, <1>5, <2>1, <3>1 DEF Ended
  <2> QED
    BY <2>3, <2>4, <2>5, <2>6, <2>7 DEF IInv
<1>6. CASE ~stopped
  <2>1. /\ m \in 0 .. Live /\ Live \in Nat /\ Live <= Len(d)
        /\ D \in Seq(Token) /\ Len(D) = m /\ \A j \in 1 .. m : D[j] = d[j] /\ ~IsStop(d[j])
        /\ text = Known \o D /\ count = m + 1 /\ n = m /\ m # room
        /\ Len(generated) + m < o.max_new /\ Len(generated) + m < o.stop_after
    BY <1>1, <1>6, AcceptedDrafts
  <2>2. /\ pend' = D /\ generated' = generated \o D /\ pc' = "next" /\ reason' = "length"
        /\ logits' = <<logits[m + 1]>> /\ d' = <<>>
    BY <1>1, <1>4, <1>6, <2>1
  <2> HIDE DEF m, n, room, D
  <2>3. m \in Nat /\ m + 1 \in 1 .. Len(logits) /\ m + 1 \in 1 .. (Live + 1) /\ (m + 1) - 1 = m
    BY <1>4, <2>1
  <2>4. /\ logits[m + 1] \in Rows /\ logits[m + 1].of = Known \o D
    <3>1. logits[m + 1] \in Rows
      BY <1>3, <2>3, ElementOfSeq
    <3>2. logits[m + 1].of = Known \o SubSeq(d, 1, (m + 1) - 1)
      BY <1>4, <2>3
    <3> QED
      BY <2>3, <3>1, <3>2 DEF D
  <2>5. logits' \in Seq(Rows) /\ Len(logits') >= 1 /\ logits'[1] = logits[m + 1]
    <3> DEFINE r == logits[m + 1]
    <3>1. r \in Rows /\ logits' = <<r>>
      BY <2>2, <2>4
    <3> HIDE DEF r
    <3>2. <<r>> \in Seq(Rows) /\ Len(<<r>>) = 1 /\ <<r>>[1] = r
      BY <3>1
    <3>3. logits'[1] = r /\ logits' \in Seq(Rows) /\ Len(logits') = 1
      BY <3>1, <3>2
    <3> QED
      BY <3>3 DEF r
  <2>6. /\ generated' \in Seq(Token) /\ Len(generated') = Len(generated) + m
        /\ \A p \in 1 .. Len(generated) : generated'[p] = generated[p]
        /\ \A p \in 1 .. m : generated'[Len(generated) + p] = D[p]
        /\ Known' = text /\ Len(Known') = Len(Known) + m
        /\ \A p \in 1 .. Len(Known) : Known'[p] = Known[p]
    BY <1>2, <1>3, <2>1, <2>2, KnownGrows
  <2>7. Done' = mtp_done /\ Done = mtp_done
    BY <1>1, <1>2, <2>2 DEF Done
  <2>8. Typed'
    BY <1>2, <1>3, <2>1, <2>2, <2>5, <2>6 DEF Typed, Drafting, Judging
  <2>9. Counted'
    BY <1>1, <1>2, <2>2 DEF IInv, Counted
  <2>10. Budget'
    <3>1. /\ prompt # <<>> /\ Len(prompt) + o.max_new <= Capacity
          /\ chat => \E body \in Bodies : prompt = transcript \o Suffix(body)
      BY <1>1 DEF IInv, Budget, Busy
    <3>2. Len(generated) + m <= o.max_new /\ Len(generated) + m <= o.stop_after
      <4>1. \A i, j \in Int : i < j => i <= j
        OBVIOUS
      <4>2. Len(generated) + m \in Int /\ o.max_new \in Int /\ o.stop_after \in Int
        BY <1>3, <2>3
      <4>3. Len(generated) + m < o.max_new /\ Len(generated) + m < o.stop_after
        BY <2>1
      <4> QED
        BY <4>1, <4>2, <4>3
    <3> QED
      BY <1>2, <2>6, <3>1, <3>2 DEF Budget, Suffix
  <2>11. Ahead'
    BY <1>2, <1>3, <2>6, SubSeqFull DEF Ahead
  <2>12. Follows'
    <3> SUFFICES /\ mtp_done <= Len(text) /\ mtp_done < Len(Known') /\ mtp_done <= Len(partner)
                 /\ Len(partner) <= mtp_done + VerifyRows - 2
                 /\ \A p \in 1 .. mtp_done : partner[p] = Known'[p + 1]
      BY <1>2, <2>7 DEF Follows
    <3>1. /\ mtp_done <= Len(text) /\ mtp_done < Len(Known) /\ mtp_done <= Len(partner)
          /\ Len(partner) <= mtp_done + VerifyRows - 2
          /\ \A p \in 1 .. mtp_done : partner[p] = Known[p + 1]
      BY <1>1, <1>4, <2>7 DEF IInv, Follows, Busy
    <3>2. ASSUME NEW p \in 1 .. mtp_done PROVE partner[p] = Known'[p + 1]
      <4>1. p + 1 \in 1 .. Len(Known)
        BY <1>3, <3>1
      <4> QED
        BY <2>6, <3>1, <4>1
    <3>3. mtp_done < Len(Known')
      BY <1>3, <2>3, <2>6, <3>1
    <3> QED
      BY <3>1, <3>2, <3>3
  <2>13. Prefilling' /\ ToJudge' /\ Ended' /\ Resting' /\ EndsForItsReason'
    BY <2>2 DEF Prefilling, ToJudge, Ended, Resting, EndsForItsReason, Judging
  <2>14. Due'
    <3>1. SubSeq(Known \o D, Len(Known) + 1, Len(Known) + Len(D)) = D
      BY <1>3, <2>1, EndOfConcat
    <3>2. mtp_done + 2 = Len(Known) + 1 /\ Len(text) = Len(Known) + Len(D)
      <4>1. Len(text) = Len(Known) + Len(D)
        <5>1. Len(Known \o D) = Len(Known) + Len(D)
          BY <1>3, <2>1, ConcatProperties
        <5> QED
          BY <2>1, <5>1
      <4>2. mtp_done + 1 = Len(Known)
        BY <1>4
      <4>3. \A i, l \in Nat : i + 1 = l => i + 2 = l + 1
        OBVIOUS
      <4> QED
        BY <1>3, <4>1, <4>2, <4>3
    <3>3. pend' = SubSeq(text, mtp_done + 2, Len(text))
      BY <2>1, <2>2, <3>1, <3>2
    <3>4. first + 0 = mtp_done /\ 0 + m + 1 = count
      BY <1>3, <1>4, <2>1, <2>3
    <3>5. Len(pend') = m
      BY <2>1, <2>2
    <3> QED
      BY <1>2, <1>4, <3>3, <3>4, <3>5 DEF Due
  <2>15. Decoding'
    <3>1. Argmax'.of = Known'
      BY <1>2, <1>4, <2>1, <2>4, <2>5, <2>6 DEF Argmax
    <3>2. Silent(Len(generated))'
      <4>1. ASSUME NEW p \in 1 .. (Len(generated) + m) PROVE ~IsStop(generated'[p])
        <5>1. CASE p <= Len(generated)
          <6>1. p \in 1 .. Len(generated)
            BY <1>3, <5>1
          <6> QED
            BY <1>4, <2>6, <6>1 DEF Silent
        <5>2. CASE ~(p <= Len(generated))
          <6> DEFINE q == p - Len(generated)
          <6>1. q \in 1 .. m /\ Len(generated) + q = p
            BY <1>3, <2>3, <5>2
          <6> HIDE DEF q
          <6> QED
            BY <2>1, <2>6, <6>1
        <5> QED
          BY <5>1, <5>2
      <4> QED
        BY <2>6, <4>1 DEF Silent, IsStop
    <3> QED
      BY <1>2, <2>2, <2>6, <2>14, <3>1, <3>2 DEF Decoding, Emitted, Drafting
  <2> QED
    BY <2>8, <2>9, <2>10, <2>11, <2>12, <2>13, <2>15 DEF IInv
<1> QED
  BY <1>5, <1>6

-----------------------------------------------------------------------------
(* The end of a turn.                                                      *)

\* The predictor's confirmed rows survive the turn, and only they.
LEMMA PredictorLeft ==
  ASSUME IInv, finish
  PROVE  /\ UNCHANGED <<valid, text, first, count, enabled, pending>>
         /\ partner' \in Seq(Token) /\ chained' \in Nat
         /\ enabled => /\ Len(partner') = mtp_done
                       /\ \A p \in 1 .. mtp_done : partner'[p] = Known[p + 1]
         /\ reason' = IF stopped THEN "cancelled" ELSE reason
         /\ transcript' = IF chat /\ (generated # <<>> \/ reason' # "cancelled")
                            THEN Known ELSE transcript
         /\ pc' = "idle" /\ fed' = 0
         /\ have_id' = FALSE /\ next_id' = Draft(Newline) /\ logits' = <<Draft(Newline)>>
         /\ k' = 0 /\ d' = <<>> /\ pend' = <<>> /\ pend_off' = 0 /\ mtp_done' = 0
         /\ UNCHANGED <<stopped, chat, prompt, o, generated, last_count>>
<1> DEFINE why  == IF stopped THEN "cancelled" ELSE reason
           rest == /\ reason' = why
                   /\ transcript' = IF chat /\ (generated # <<>> \/ why # "cancelled")
                                      THEN prompt \o generated ELSE transcript
                   /\ pc' = "idle" /\ fed' = 0
                   /\ have_id' = FALSE /\ next_id' = Draft(Newline) /\ logits' = <<Draft(Newline)>>
                   /\ k' = 0 /\ d' = <<>> /\ pend' = <<>> /\ pend_off' = 0 /\ mtp_done' = 0
                   /\ UNCHANGED <<stopped, chat, prompt, o, generated, last_count>>
<1>1. /\ pc = "end"
      /\ IF enabled /\ Len(partner) > mtp_done
           THEN Call(CanRewind(mtp_done), Rewind(mtp_done) /\ rest)
           ELSE rest /\ UNCHANGED gvars
  BY DEF finish
<1>2. /\ Len(partner) \in Nat /\ partner \in Seq(Token) /\ mtp_done \in Nat /\ valid = TRUE
      /\ VerifyRows \in Nat /\ RewindWindow \in Nat /\ VerifyRows - 1 <= RewindWindow
      /\ chained \in Nat
  BY Lengths, Constants DEF IInv, Typed
<1>3. enabled => /\ mtp_done <= Len(partner) /\ Len(partner) <= mtp_done + VerifyRows - 2
                 /\ \A p \in 1 .. mtp_done : partner[p] = Known[p + 1]
  BY <1>1 DEF IInv, Follows, Busy, Done
<1>4. CASE enabled /\ Len(partner) > mtp_done
  <2>1. CanRewind(mtp_done)
    <3>1. mtp_done \in 0 .. Len(partner) /\ Len(partner) - mtp_done <= RewindWindow
      BY <1>2, <1>3, <1>4
    <3> QED
      BY <1>2, <1>4, <3>1 DEF CanRewind
  <2>2. Rewind(mtp_done) /\ rest
    BY <1>1, <1>4, <2>1 DEF Call
  <2>3. /\ partner' = SubSeq(partner, 1, mtp_done) /\ chained' = 0
        /\ UNCHANGED <<valid, text, first, count, enabled, pending>>
    BY <2>2 DEF Rewind, trunk
  <2>4. /\ SubSeq(partner, 1, mtp_done) \in Seq(Token) /\ Len(SubSeq(partner, 1, mtp_done)) = mtp_done
        /\ \A p \in 1 .. mtp_done : SubSeq(partner, 1, mtp_done)[p] = partner[p]
    <3>1. mtp_done \in 0 .. Len(partner)
      BY <1>2, <1>3, <1>4
    <3> QED
      BY <1>2, <3>1, PrefixProperties
  <2> QED
    BY <1>3, <1>4, <2>2, <2>3, <2>4 DEF Known
<1>5. CASE ~(enabled /\ Len(partner) > mtp_done)
  <2>1. rest /\ UNCHANGED <<valid, text, first, count, enabled, partner, chained, pending>>
    BY <1>1, <1>5 DEF gvars, trunk, predictor
  <2>2. enabled => Len(partner) = mtp_done
    BY <1>2, <1>3, <1>5
  <2> QED
    BY <1>2, <1>3, <2>1, <2>2 DEF Known
<1> QED
  BY <1>4, <1>5

\* finish: the turn ends for its reason.
LEMMA FinishStep ==
  ASSUME IInv, finish PROVE IInv'
<1>1. pc = "end"
  BY DEF finish
<1>2. /\ UNCHANGED <<valid, text, first, count, enabled, pending>>
      /\ partner' \in Seq(Token) /\ chained' \in Nat
      /\ enabled => /\ Len(partner') = mtp_done
                    /\ \A p \in 1 .. mtp_done : partner'[p] = Known[p + 1]
      /\ reason' = (IF stopped THEN "cancelled" ELSE reason)
      /\ transcript' = (IF chat /\ (generated # <<>> \/ reason' # "cancelled")
                          THEN Known ELSE transcript)
      /\ pc' = "idle" /\ fed' = 0
      /\ have_id' = FALSE /\ next_id' = Draft(Newline) /\ logits' = <<Draft(Newline)>>
      /\ k' = 0 /\ d' = <<>> /\ pend' = <<>> /\ pend_off' = 0 /\ mtp_done' = 0
      /\ UNCHANGED <<stopped, chat, prompt, o, generated, last_count>>
  BY PredictorLeft
<1>3. /\ Typed /\ Known \in Seq(Token) /\ Len(Known) \in Nat /\ transcript \in Seq(Token)
      /\ Len(transcript) \in Nat /\ Len(text) \in Nat /\ Newline \in Token
      /\ <<>> \in Seq(Token) /\ VerifyRows \in Nat /\ VerifyRows >= 2 /\ mtp_done \in Nat
      /\ enabled \in BOOLEAN
  BY Lengths, Constants, KnownTokens, EmptySeq DEF IInv, Typed
<1>4. Typed'
  <2>1. next_id' \in Rows /\ logits' \in Seq(Rows) /\ Len(logits') >= 1
    BY <1>2, <1>3, DraftRow
  <2>2. transcript' \in Seq(Token)
    BY <1>2, <1>3
  <2>3. 0 \in 0 .. (VerifyRows - 1) /\ 0 \in Nat
    BY <1>3
  <2> QED
    BY <1>2, <1>3, <2>1, <2>2, <2>3 DEF Typed, Drafting, Judging
<1>5. Counted'
  BY <1>1, <1>2 DEF IInv, Counted
<1>6. Budget' /\ Ahead' /\ Follows'
  BY <1>2 DEF Budget, Ahead, Follows, Busy
<1>7. Prefilling' /\ Decoding' /\ ToJudge' /\ Ended'
  BY <1>2 DEF Prefilling, Decoding, ToJudge, Ended, Emitted, Drafting, Judging
<1>8. EndsForItsReason'
  <2>1. Silent(Len(generated) - 1)'
    BY <1>1, <1>2 DEF IInv, Ended, Silent
  <2>2. /\ reason = "stop" => generated # <<>> /\ IsStop(LastOf(generated))
        /\ reason = "length" => stopped \/ Len(generated) = o.max_new
    BY <1>1 DEF IInv, Ended
  <2> QED
    BY <1>2, <2>1, <2>2 DEF EndsForItsReason, Silent, IsStop, LastOf
<1>9. Resting'
  <2> SUFFICES ASSUME chat, Len(text) <= Len(transcript')
               PROVE  /\ text = SubSeq(transcript', 1, Len(text))
                      /\ enabled =>
                           /\ Len(partner') <= Len(text)
                           /\ \A p \in 1 .. Len(partner') :
                                partner'[p] = IF p < Len(transcript') THEN transcript'[p + 1]
                                              ELSE Closing'
    BY <1>2 DEF Resting
  <2>1. enabled => mtp_done <= Len(text) /\ mtp_done < Len(Known)
    BY <1>1 DEF IInv, Follows, Busy, Done
  <2>2. Len(text) <= Len(Known) => text = SubSeq(Known, 1, Len(text))
    BY <1>1 DEF IInv, Ahead, Busy
  <2>3. CASE generated # <<>> \/ reason' # "cancelled"
    <3>1. transcript' = Known
      BY <1>2, <2>3
    <3>2. ASSUME enabled, NEW p \in 1 .. Len(partner')
          PROVE  p < Len(transcript') /\ partner'[p] = transcript'[p + 1]
      <4>1. p \in 1 .. mtp_done
        BY <1>2, <3>2
      <4> QED
        BY <1>2, <1>3, <2>1, <3>1, <3>2, <4>1
    <3> QED
      BY <1>2, <2>1, <2>2, <3>1, <3>2
  <2>4. CASE ~(generated # <<>> \/ reason' # "cancelled")
    <3>1. transcript' = transcript /\ generated = <<>> /\ Known = prompt
      BY <1>2, <1>3, <2>4, KnownTokens
    <3>2. PICK body \in Bodies : prompt = transcript \o Suffix(body)
      BY <1>1 DEF IInv, Budget, Busy
    <3> DEFINE S == Suffix(body)
    <3>3. /\ S \in Seq(Token) /\ Len(S) >= 1 /\ Len(S) \in Nat
          /\ transcript # <<>> => S[1] = Closing
      BY <1>3, SuffixProperties
    <3>4. Known = transcript \o S
      BY <3>1, <3>2
    <3> HIDE DEF S
    <3>5. /\ Len(Known) = Len(transcript) + Len(S)
          /\ \A i \in 1 .. Len(transcript) + Len(S) :
               Known[i] = IF i <= Len(transcript) THEN transcript[i] ELSE S[i - Len(transcript)]
      BY <1>3, <3>3, <3>4, ConcatProperties
    <3>6. Len(text) <= Len(transcript) /\ Len(text) <= Len(Known)
      BY <1>3, <3>1, <3>3, <3>5
    <3>7. text = SubSeq(transcript, 1, Len(text))
      <4>1. Len(text) \in 0 .. Len(transcript)
        BY <1>3, <3>6
      <4>2. SubSeq(transcript \o S, 1, Len(text)) = SubSeq(transcript, 1, Len(text))
        BY <1>3, <3>3, <4>1, PrefixOfExtended
      <4> QED
        BY <2>2, <3>4, <3>6, <4>2
    <3>8. ASSUME enabled, NEW p \in 1 .. mtp_done
          PROVE  Known[p + 1] = IF p < Len(transcript) THEN transcript[p + 1] ELSE Closing
      <4>1. p + 1 \in 1 .. Len(transcript) + Len(S) /\ p <= Len(transcript)
        BY <1>3, <2>1, <3>5, <3>6, <3>8
      <4>2. CASE p < Len(transcript)
        <5>1. p + 1 <= Len(transcript)
          BY <1>3, <4>2
        <5> QED
          BY <3>5, <4>1, <4>2, <5>1
      <4>3. CASE ~(p < Len(transcript))
        <5>1. p = Len(transcript) /\ ~(p + 1 <= Len(transcript)) /\ p + 1 - Len(transcript) = 1
          BY <1>3, <4>1, <4>3
        <5>2. transcript # <<>>
          BY <5>1, EmptySeq
        <5>3. Known[p + 1] = S[1]
          BY <3>5, <4>1, <5>1
        <5> QED
          BY <3>3, <4>3, <5>2, <5>3
      <4> QED
        BY <4>2, <4>3
    <3>9. Closing' = Closing
      BY <3>1 DEF Closing, LastOf
    <3> QED
      BY <1>2, <2>1, <3>1, <3>7, <3>8, <3>9
  <2> QED
    BY <2>3, <2>4
<1> QED
  BY <1>4, <1>5, <1>6, <1>7, <1>8, <1>9 DEF IInv

-----------------------------------------------------------------------------
(* The invariant, and the safety of the turn.                              *)

\* A step that changes nothing.
LEMMA StutterStep ==
  ASSUME IInv, UNCHANGED vars PROVE IInv'
<1>1. /\ UNCHANGED <<valid, text, first, count, enabled, partner, chained, pending>>
      /\ UNCHANGED <<pc, chat, stopped, transcript, prompt, o, generated, reason, fed, last_count,
                     have_id, next_id, logits, k, d, pend, pend_off, mtp_done>>
  BY DEF vars, gvars, pvars, trunk, predictor, request, output, model, cycle
<1>2. Known' = Known /\ Done' = Done /\ Kmax' = Kmax /\ Live' = Live
  BY <1>1 DEF Known, Done, Kmax, Live, LastOf
<1>3. Typed'
  BY <1>1 DEF IInv, Typed, Drafting, Judging
<1>4. Counted' /\ Budget'
  BY <1>1 DEF IInv, Counted, Budget, Busy, Suffix
<1>5. Ahead' /\ Follows'
  BY <1>1, <1>2 DEF IInv, Ahead, Follows, Busy
<1>6. Prefilling' /\ Ended' /\ Resting' /\ EndsForItsReason'
  BY <1>1 DEF IInv, Prefilling, LastRead, Ended, Resting, EndsForItsReason, Silent, Closing, LastOf
<1>7. Decoding'
  <2>1. Due => Due'
    BY <1>1, <1>2 DEF Due
  <2> QED
    BY <1>1, <1>2, <2>1 DEF IInv, Decoding, Emitted, Drafting, Silent, Plain, LastOf, Argmax
<1>8. ToJudge'
  <2>1. Accepted' = Accepted
    BY <1>1, <1>2 DEF Accepted
  <2> QED
    BY <1>1, <1>2, <2>1 DEF IInv, ToJudge, Judging, Silent, Plain
<1> QED
  BY <1>3, <1>4, <1>5, <1>6, <1>7, <1>8 DEF IInv

\* Every step keeps the invariant.
LEMMA StepIInv == IInv /\ [Next]_vars => IInv'
<1> SUFFICES ASSUME IInv, [Next]_vars PROVE IInv'
  OBVIOUS
<1>1. CASE Program
  <2>1. CASE prefill
    BY <2>1, PrefillStep
  <2>2. CASE pair_prompt
    BY <2>2, PairPromptStep
  <2>3. CASE start_decode
    BY <2>3, StartDecodeStep
  <2>4. CASE emit_next
    BY <2>4, EmitNextStep
  <2>5. CASE plan
    BY <2>5, PlanStep
  <2>6. CASE catch_up
    BY <2>6, CatchUpStep
  <2>7. CASE chain
    BY <2>7, ChainStep
  <2>8. CASE step
    BY <2>8, StepStep
  <2>9. CASE verify
    BY <2>9, VerifyStep
  <2>10. CASE keep
    BY <2>10, KeepStep
  <2>11. CASE accept
    BY <2>11, AcceptStep
  <2>12. CASE finish
    BY <2>12, FinishStep
  <2> QED
    BY <1>1, <2>1, <2>2, <2>3, <2>4, <2>5, <2>6, <2>7, <2>8, <2>9, <2>10, <2>11, <2>12 DEF Program
<1>2. CASE User
  <2>1. CASE \E body \in Bodies : reply(body)
    BY <2>1, ReplyStep
  <2>2. CASE forget
    BY <2>2, ForgetStep
  <2>3. CASE \E body \in Bodies, c \in Chunks, n \in Limits, s \in Limits \cup {Unlimited},
                b \in BOOLEAN : serve(body, c, n, s, b)
    BY <2>3, ServeStep
  <2>4. CASE interrupt
    BY <2>4, InterruptStep
  <2> QED
    BY <1>2, <2>1, <2>2, <2>3, <2>4 DEF User
<1>3. CASE UNCHANGED vars
  BY <1>3, StutterStep
<1> QED
  BY <1>1, <1>2, <1>3 DEF Next

\* The invariant of the turn holds throughout.
LEMMA Invariance == Spec => []IInv
BY InitIInv, StepIInv, PTL DEF Spec

\* No call the program makes is ever refused by the graph: appends fit, the rows
\* kept are rows verified, and the predictor is given the rows it is due, within
\* its rewind window, after every stop, dropped message and replayed conversation.
THEOREM CallsAdmitted == Spec => []NeverRefused
<1>1. IInv => NeverRefused
  BY DEF IInv, Typed, NeverRefused
<1> QED
  BY <1>1, Invariance, PTL

\* A reply ends for the reason it gives, with no stop token inside it, for every
\* sequence of drafts accepted and rejected.
THEOREM ReasonGiven == Spec => []EndsForItsReason
<1>1. IInv => EndsForItsReason
  BY DEF IInv
<1> QED
  BY <1>1, Invariance, PTL

\* Between turns the graph holds a beginning of the conversation or is replayed.
THEOREM ConversationResumes == Spec => []PrefixOrReplay
<1>1. IInv => PrefixOrReplay
  BY DEF IInv, Resting, PrefixOrReplay
<1> QED
  BY <1>1, Invariance, PTL

\* The confirmed rows of the predictor are paired with the tokens that follow them.
THEOREM PairsOfConversation == Spec => []PredictorFollows
<1>1. IInv => PredictorFollows
  <2> SUFFICES ASSUME IInv, Busy, enabled
               PROVE  LET known     == prompt \o generated
                          confirmed == IF pc \in {"prefill", "pairs"} THEN Len(partner)
                                       ELSE Min({mtp_done, Len(partner)})
                      IN  confirmed < Len(known)
                          /\ \A p \in 1 .. confirmed : partner[p] = known[p + 1]
    BY DEF PredictorFollows, Busy
  <2>1. /\ Done < Len(Known) /\ Done <= Len(partner)
        /\ \A p \in 1 .. Done : partner[p] = Known[p + 1]
    BY DEF IInv, Follows
  <2>2. (IF pc \in {"prefill", "pairs"} THEN Len(partner) ELSE Min({mtp_done, Len(partner)})) = Done
    <3>1. CASE pc \in {"prefill", "pairs"}
      BY <3>1 DEF Done
    <3>2. CASE pc \notin {"prefill", "pairs"}
      <4>1. Done = mtp_done /\ mtp_done \in Nat /\ Len(partner) \in Nat
        BY <3>2, Lengths DEF Done, IInv, Typed
      <4>2. Min({mtp_done, Len(partner)}) = mtp_done
        BY <2>1, <4>1, MinOfTwo
      <4> QED
        BY <3>2, <4>1, <4>2
    <3> QED
      BY <3>1, <3>2
  <2> QED
    BY <2>1, <2>2 DEF Known
<1> QED
  BY <1>1, Invariance, PTL

\* A record is its fields.
LEMMA RowOf == \A r \in Rows : r = Row(r.of, r.argmax)
BY DEF Rows, Row

\* The argmax of the loop was computed for the conversation it extends.
LEMMA EmitGreedy ==
  ASSUME IInv, emit_next, Len(generated') > Len(generated),
         NEW j \in 1 .. (Len(generated') - Len(generated))
  PROVE  (IF have_id THEN next_id ELSE logits[j])
           = Row(prompt \o SubSeq(generated', 1, Len(generated) + j - 1),
                 generated'[Len(generated) + j])
<1>1. pc = "next" /\ Typed /\ Len(generated) \in Nat /\ generated \in Seq(Token)
  BY Lengths DEF emit_next, IInv, Typed
<1>2. MayEmit(Len(generated)) /\ generated' = Append(generated, Argmax.argmax)
  BY <1>1 DEF emit_next, output
<1>3. ~stopped
  BY <1>2 DEF MayEmit
<1>4. Argmax \in Rows /\ Argmax.of = Known
  <2>1. Argmax \in Rows
    BY <1>1, ElementOfSeq DEF Typed, Argmax
  <2> QED
    BY <1>1, <1>3, <2>1 DEF IInv, Decoding
<1>5. Argmax.argmax \in Token /\ Argmax = Row(Known, Argmax.argmax)
  BY <1>4, RowOf DEF Rows
<1>6. /\ generated' = generated \o <<Argmax.argmax>> /\ Len(generated') = Len(generated) + 1
      /\ generated'[Len(generated) + 1] = Argmax.argmax
  BY <1>1, <1>2, <1>5, OneMore
<1>7. j = 1 /\ Len(generated) + j - 1 = Len(generated)
  BY <1>1, <1>6
<1>8. SubSeq(generated', 1, Len(generated)) = generated
  <2>1. <<Argmax.argmax>> \in Seq(Token) /\ Len(generated) \in 0 .. Len(generated)
    BY <1>1, <1>5
  <2>2. SubSeq(generated \o <<Argmax.argmax>>, 1, Len(generated)) = SubSeq(generated, 1, Len(generated))
    BY <1>1, <2>1, PrefixOfExtended
  <2> QED
    BY <1>1, <1>6, <2>2, SubSeqFull
<1> QED
  BY <1>5, <1>6, <1>7, <1>8 DEF Known, Argmax

\* So was the row that judged an accepted draft.
LEMMA AcceptGreedy ==
  ASSUME IInv, accept, Len(generated') > Len(generated),
         NEW j \in 1 .. (Len(generated') - Len(generated))
  PROVE  (IF have_id THEN next_id ELSE logits[j])
           = Row(prompt \o SubSeq(generated', 1, Len(generated) + j - 1),
                 generated'[Len(generated) + j])
<1> DEFINE m == Accepted
           D == SubSeq(d, 1, m)
           i == j - 1
<1>1. /\ pc = "accept" /\ Typed /\ Len(generated) \in Nat /\ generated \in Seq(Token)
      /\ logits \in Seq(Rows) /\ prompt \in Seq(Token) /\ d \in Seq(Token)
  BY Lengths DEF accept, IInv, Typed
<1>2. ~stopped
  BY <1>1 DEF accept, output
<1>3. /\ m \in 0 .. Live /\ Live \in Nat /\ Live <= Len(d)
      /\ D \in Seq(Token) /\ Len(D) = m
      /\ \A q \in 1 .. m : D[q] = d[q] /\ logits[q].argmax = d[q]
      /\ Min({m, o.stop_after - Len(generated)}) = m
  BY <1>1, <1>2, AcceptedDrafts
<1>4. generated' = generated \o D
  BY <1>2, <1>3 DEF accept
<1>5. /\ have_id = FALSE /\ Len(logits) = Live + 1
      /\ \A q \in 1 .. (Live + 1) : logits[q].of = Known \o SubSeq(d, 1, q - 1)
  BY <1>1 DEF IInv, ToJudge, Judging
<1> HIDE DEF m, D
<1>6. /\ Len(generated \o D) = Len(generated) + m
      /\ \A q \in 1 .. Len(generated) + Len(D) :
           (generated \o D)[q] = IF q <= Len(generated) THEN generated[q] ELSE D[q - Len(generated)]
  BY <1>1, <1>3, ConcatProperties
<1>7. /\ j \in 1 .. m /\ m \in Nat /\ i \in 0 .. m /\ i \in 0 .. Len(d) /\ i \in 0 .. Len(D)
      /\ j \in 1 .. (Live + 1) /\ j \in 1 .. Len(logits) /\ Len(generated) + j - 1 = Len(generated) + i
      /\ m \in 0 .. Len(d)
  <2>1. m \in Nat /\ Len(d) \in Nat
    BY <1>1, <1>3, LenProperties
  <2>2. Len(generated') - Len(generated) = m
    BY <1>1, <1>4, <1>6, <2>1
  <2> QED
    BY <1>1, <1>3, <1>5, <2>1, <2>2
<1>8. generated'[Len(generated) + j] = d[j]
  <2> DEFINE q == Len(generated) + j
  <2>1. q \in 1 .. Len(generated) + Len(D) /\ ~(q <= Len(generated)) /\ q - Len(generated) = j
    BY <1>1, <1>3, <1>7
  <2> HIDE DEF q
  <2>2. generated'[q] = D[j]
    BY <1>4, <1>6, <2>1
  <2> QED
    BY <1>3, <1>7, <2>2 DEF q
<1> DEFINE X == SubSeq(d, 1, i)
<1>9. logits[j] = Row(Known \o X, d[j])
  <2>1. logits[j] \in Rows /\ logits[j].of = Known \o X /\ logits[j].argmax = d[j]
    BY <1>1, <1>3, <1>5, <1>7, ElementOfSeq
  <2> QED
    BY <2>1, RowOf
<1> HIDE DEF i
<1>10. X \in Seq(Token)
  BY <1>1, <1>7, PrefixProperties
<1>11. SubSeq(generated', 1, Len(generated) + i) = generated \o X
  <2>1. SubSeq(generated \o D, 1, Len(generated) + i) = generated \o SubSeq(D, 1, i)
    <3>1. generated \in Seq(Token) /\ D \in Seq(Token) /\ i \in 0 .. Len(D)
      BY <1>1, <1>3, <1>7
    <3> QED
      BY ONLY <3>1, PrefixOfConcat
  <2>2. SubSeq(D, 1, i) = X
    BY <1>1, <1>7, PrefixOfPrefix DEF D
  <2> QED
    BY <1>4, <2>1, <2>2
<1> HIDE DEF X
<1>12. (prompt \o generated) \o X = prompt \o (generated \o X)
  <2>1. prompt \in Seq(Token) /\ generated \in Seq(Token) /\ X \in Seq(Token)
    BY <1>1, <1>10
  <2> QED
    BY ONLY <2>1, ConcatAssociative
<1> QED
  BY <1>5, <1>7, <1>8, <1>9, <1>11, <1>12 DEF Known

\* Only these two emit.
LEMMA OnlyTwoEmit ==
  ASSUME IInv, [Next]_vars, ~emit_next, ~accept
  PROVE  generated' = generated \/ generated' = <<>>
<1>1. CASE prefill
  BY <1>1 DEF prefill, Call, output
<1>2. CASE pair_prompt
  BY <1>2 DEF pair_prompt, Call, output
<1>3. CASE start_decode
  BY <1>3 DEF start_decode
<1>4. CASE plan
  BY <1>4 DEF plan, output
<1>5. CASE catch_up
  BY <1>5 DEF catch_up, Call, output
<1>6. CASE chain
  BY <1>6 DEF chain, Call, output
<1>7. CASE step
  BY <1>7 DEF step, Call, output
<1>8. CASE verify
  BY <1>8 DEF verify, Call, output
<1>9. CASE keep
  BY <1>9 DEF keep, Call, output
<1>10. CASE finish
  BY <1>10 DEF finish, Call, output
<1>11. CASE \E body \in Bodies : reply(body)
  BY <1>11 DEF reply, Call, output, Start
<1>12. CASE forget
  BY <1>12 DEF forget, output
<1>13. CASE \E body \in Bodies, c \in Chunks, n \in Limits, s \in Limits \cup {Unlimited},
               b \in BOOLEAN : serve(body, c, n, s, b)
  BY <1>13 DEF serve, Start
<1>14. CASE interrupt
  BY <1>14 DEF interrupt, output
<1>15. CASE UNCHANGED vars
  BY <1>15 DEF vars, pvars, output
<1> QED
  BY <1>1, <1>2, <1>3, <1>4, <1>5, <1>6, <1>7, <1>8, <1>9, <1>10, <1>11, <1>12, <1>13, <1>14,
     <1>15 DEF Next, Program, User

\* Every token emitted is the argmax of the model for exactly the text before it:
\* the output is that of plain greedy decoding, whatever was drafted.
THEOREM GreedyOutput == Spec => PlainGreedy
<1>1. ASSUME IInv, [Next]_vars
      PROVE  [Len(generated') > Len(generated) =>
                \A j \in 1 .. (Len(generated') - Len(generated)) :
                  LET i == Len(generated) + j IN
                  (IF have_id THEN next_id ELSE logits[j])
                    = Row(prompt \o SubSeq(generated', 1, i - 1), generated'[i])]_vars
  <2>1. CASE emit_next
    BY <1>1, <2>1, EmitGreedy
  <2>2. CASE accept
    BY <1>1, <2>2, AcceptGreedy
  <2>3. CASE ~emit_next /\ ~accept
    <3>1. generated' = generated \/ generated' = <<>>
      BY <1>1, <2>3, OnlyTwoEmit
    <3>2. Len(generated) \in Nat /\ Len(<<>>) = 0
      BY <1>1, Lengths, EmptySeq DEF IInv
    <3>3. ~(Len(generated') > Len(generated))
      BY <3>1, <3>2
    <3> QED
      BY <3>3
  <2> QED
    BY <2>1, <2>2, <2>3
<1> QED
  BY <1>1, Invariance, PTL DEF Spec, PlainGreedy

\* keep only shortens the text.
LEMMA KeepShortens ==
  ASSUME IInv, keep PROVE Len(text') <= Len(text)
<1>1. pc = "keep" /\ text \in Seq(Token) /\ Len(text) \in Nat /\ Typed /\ first \in Nat /\ count \in Nat
  BY Lengths DEF keep, IInv, Typed
<1>2. CASE UNCHANGED text
  BY <1>1, <1>2
<1>3. CASE ~UNCHANGED text
  <2>1. Live > 0 /\ Keep(Kept)
    BY <1>3 DEF keep, Call, gvars, trunk
  <2>2. Kept \in 1 .. pending /\ text' = SubSeq(text, 1, first + Kept)
    BY <2>1 DEF Keep, CanKeep
  <2>3. pending = count /\ count > 0 /\ first + count = Len(text)
    <3>1. count = Live + 1 /\ pending = Live + 1
      BY <1>1, <2>1 DEF IInv, ToJudge, Judging
    <3>2. count > 0
      BY <1>1, <2>2, <3>1
    <3> QED
      BY <3>1, <3>2 DEF IInv, Counted
  <2>4. first + Kept \in 0 .. Len(text) /\ first + Kept <= Len(text)
    BY <1>1, <2>2, <2>3
  <2>5. Len(SubSeq(text, 1, first + Kept)) = first + Kept
    BY <1>1, <2>4, PrefixProperties
  <2> QED
    BY <2>2, <2>4, <2>5
<1> QED
  BY <1>2, <1>3

\* After a stop nothing more is emitted, and the trunk reads at most the token
\* or the drafts of the cycle under way.
THEOREM StopsAtOnce == Spec => NothingAfterStop
<1>1. ASSUME IInv, [Next]_vars
      PROVE  [stopped /\ stopped' =>
                /\ generated' = generated
                /\ Len(text') > Len(text) => pc \in {"step", "verify"}]_vars
  <2> SUFFICES ASSUME stopped, stopped'
               PROVE  /\ generated' = generated
                      /\ Len(text') > Len(text) => pc \in {"step", "verify"}
    OBVIOUS
  <2>1. Len(text) \in Nat /\ Len(<<>>) = 0 /\ ~(Len(text) > Len(text)) /\ ~(0 > Len(text))
    BY <1>1, Lengths, EmptySeq DEF IInv
  <2> DEFINE held == generated' = generated /\ (text' = text \/ text' = <<>>)
  <2>2. held => /\ generated' = generated
                /\ Len(text') > Len(text) => pc \in {"step", "verify"}
    BY <2>1
  <2>3. CASE pair_prompt
    <3>1. held
      BY <2>3 DEF pair_prompt, Call, output, gvars, trunk, Pair, Paired
    <3> QED
      BY <2>2, <3>1
  <2>4. CASE start_decode
    <3>1. held
      BY <2>4 DEF start_decode, gvars, trunk
    <3> QED
      BY <2>2, <3>1
  <2>5. CASE emit_next
    <3>1. held
      BY <2>5 DEF emit_next, MayEmit, output, gvars, trunk
    <3> QED
      BY <2>2, <3>1
  <2>6. CASE plan
    <3>1. held
      BY <2>6 DEF plan, output, gvars, trunk, Rewind
    <3> QED
      BY <2>2, <3>1
  <2>7. CASE catch_up
    <3>1. held
      BY <2>7 DEF catch_up, Call, output, gvars, trunk, Pair, Paired
    <3> QED
      BY <2>2, <3>1
  <2>8. CASE chain
    <3>1. held
      BY <2>8 DEF chain, Call, output, gvars, trunk, Chain, Paired
    <3> QED
      BY <2>2, <3>1
  <2>9. CASE step
    BY <2>9 DEF step, Call, output
  <2>10. CASE verify
    BY <2>10 DEF verify, Call, output
  <2>11. CASE keep
    <3>1. generated' = generated
      BY <2>11 DEF keep, Call, output
    <3>2. Len(text') <= Len(text)
      BY <1>1, <2>11, KeepShortens
    <3>3. Len(text') \in Nat
      BY <1>1, StepIInv, LenProperties DEF IInv, Typed
    <3> QED
      BY <2>1, <3>1, <3>2, <3>3
  <2>12. CASE accept
    <3>1. held
      BY <2>12 DEF accept, output, gvars, trunk
    <3> QED
      BY <2>2, <3>1
  <2>13. CASE finish
    <3>1. held
      BY <2>13 DEF finish, Call, output, gvars, trunk, Rewind
    <3> QED
      BY <2>2, <3>1
  <2>14. CASE forget
    <3>1. held
      BY <2>14 DEF forget, Reset, output
    <3> QED
      BY <2>2, <3>1
  <2>15. CASE UNCHANGED vars
    <3>1. held
      BY <2>15 DEF vars, gvars, pvars, trunk, output
    <3> QED
      BY <2>2, <3>1
  <2>16. CASE \E body \in Bodies : reply(body)
    <3>1. held
      BY <2>16 DEF reply, Call, output, gvars, trunk, Start
    <3> QED
      BY <2>2, <3>1
  <2>17. ~prefill /\ ~interrupt
    BY DEF prefill, interrupt
  <2>18. ~(\E body \in Bodies, c \in Chunks, n \in Limits, s \in Limits \cup {Unlimited},
              b \in BOOLEAN : serve(body, c, n, s, b))
    BY DEF serve, Start
  <2> QED
    BY <1>1, <2>3, <2>4, <2>5, <2>6, <2>7, <2>8, <2>9, <2>10, <2>11, <2>12, <2>13, <2>14, <2>15,
       <2>16, <2>17, <2>18 DEF Next, Program, User
<1> QED
  BY <1>1, Invariance, PTL DEF Spec, NothingAfterStop

-----------------------------------------------------------------------------
(* The bounds of the types.                                                *)

Bounded ==
  /\ Len(prompt) + Len(generated) <= Capacity
  /\ Len(partner) <= Len(text) + VerifyRows /\ (~enabled => partner = <<>>)
  /\ last_count <= MaxTokens /\ Len(d) <= k /\ Len(pend) < VerifyRows

\* During a turn the counters stay in their bounds.
LEMMA BusyBounds ==
  IInv /\ Busy /\ (~enabled => partner = <<>>) =>
    /\ Len(prompt) + Len(generated) <= Capacity
    /\ Len(partner) <= Len(text) + VerifyRows
<1> SUFFICES ASSUME IInv, Busy, ~enabled => partner = <<>>
             PROVE  /\ Len(prompt) + Len(generated) <= Capacity
                    /\ Len(partner) <= Len(text) + VerifyRows
  OBVIOUS
<1>1. /\ Len(text) \in Nat /\ Len(partner) \in Nat /\ Len(prompt) \in Nat /\ Len(generated) \in Nat
      /\ o.max_new \in Nat /\ Capacity \in Nat /\ VerifyRows \in Nat /\ mtp_done \in Nat
      /\ Typed
  BY Lengths, Constants DEF IInv, Typed
<1>2. Len(prompt) + Len(generated) <= Capacity
  <2>1. Len(prompt) + o.max_new <= Capacity /\ Len(generated) <= o.max_new
    BY DEF IInv, Budget
  <2> QED
    BY <1>1, <2>1
<1>3. CASE enabled
  <2>1. Done <= Len(text) /\ Len(partner) <= Done + VerifyRows - 2
    BY <1>3 DEF IInv, Follows
  <2>2. Done \in Nat
    BY <1>1 DEF Done
  <2> QED
    BY <1>1, <1>2, <2>1, <2>2
<1>4. CASE ~enabled
  <2>1. Len(partner) = 0
    BY <1>4, EmptySeq
  <2> QED
    BY <1>1, <1>2, <2>1
<1> QED
  BY <1>3, <1>4

\* What remains of the bounds, action by action.
LEMMA ProgramBounds ==
  ASSUME IInv, Bounded, Program
  PROVE  /\ ~enabled' => partner' = <<>>
         /\ last_count' <= MaxTokens /\ Len(d') <= k' /\ Len(pend') < VerifyRows
<1>1. /\ VerifyRows \in Nat /\ VerifyRows >= 2 /\ MaxTokens \in Nat /\ VerifyRows <= MaxTokens
      /\ MaxTokens >= 1 /\ k \in 0 .. (VerifyRows - 1) /\ Len(<<>>) = 0 /\ Typed
      /\ Len(d) \in Nat /\ d \in Seq(Token)
  BY Constants, EmptySeq, Lengths DEF IInv, Typed
<1>2. /\ ~enabled => partner = <<>>
      /\ last_count <= MaxTokens /\ Len(d) <= k /\ Len(pend) < VerifyRows
  BY DEF Bounded
<1> DEFINE Unpaired == ~enabled' => partner' = <<>>
<1>3. CASE prefill
  <2>1. Unpaired /\ UNCHANGED <<k, d, pend>>
    BY <1>2, <1>3 DEF prefill, Call, gvars, predictor, cycle, Extend, Extended
  <2>2. last_count' <= MaxTokens
    <3>1. last_count' = last_count \/ last_count' = Min({o.chunk, Len(prompt) - fed})
      BY <1>3 DEF prefill, Call
    <3> DEFINE rest == Len(prompt) - fed
    <3>2. rest \in Int /\ o.chunk \in 1 .. MaxTokens
      BY <1>1, Lengths DEF Typed
    <3> HIDE DEF rest
    <3>3. Min({o.chunk, rest}) = IF o.chunk <= rest THEN o.chunk ELSE rest
      BY <3>2, MinOfTwo
    <3>4. Min({o.chunk, rest}) <= MaxTokens
      BY <1>1, <3>2, <3>3
    <3> QED
      BY <1>2, <3>1, <3>4 DEF rest
  <2> QED
    BY <1>2, <2>1, <2>2
<1>4. CASE pair_prompt
  BY <1>2, <1>4 DEF pair_prompt, Call, gvars, predictor, cycle, Pair, Paired, CanPair
<1>5. CASE start_decode
  BY <1>1, <1>2, <1>5 DEF start_decode, gvars, predictor
<1>6. CASE emit_next
  BY <1>2, <1>6 DEF emit_next, gvars, predictor, cycle
<1>7. CASE plan
  <2>1. Unpaired /\ UNCHANGED <<last_count, d, pend>> /\ pc = "plan"
    BY <1>2, <1>7 DEF plan, gvars, predictor, Rewind, CanRewind
  <2>2. Len(d) = 0
    BY <1>1, <2>1 DEF Typed, Drafting, Judging
  <2>3. Len(d') = 0 /\ k' \in Nat
    <3>1. PICK n \in 0 .. Kmax : k' = n
      BY <1>7 DEF plan
    <3>2. Kmax \in Int
      BY <1>1, RoomForDrafts DEF DraftRoom
    <3> QED
      BY <2>1, <2>2, <3>1, <3>2
  <2>4. Len(d') <= k'
    BY <2>3
  <2> QED
    BY <1>2, <2>1, <2>4
<1>8. CASE catch_up
  <2>1. /\ Unpaired /\ UNCHANGED <<last_count, k>> /\ (pend' = pend \/ pend' = <<>>) /\ pc = "catch_up"
    BY <1>2, <1>8 DEF catch_up, Call, gvars, predictor, cycle, Pair, Paired, CanPair
  <2>2. d' = d \/ (k > 0 /\ \E t \in Token : Drafted(t))
    BY <1>8 DEF catch_up, Call, cycle
  <2>3. Len(d') <= k
    <3>1. Len(d) = 0
      BY <1>1, <2>1 DEF Typed, Drafting, Judging
    <3>2. CASE k > 0 /\ \E t \in Token : Drafted(t)
      <4>1. Len(d') = 0 + 1
        BY <1>1, <3>1, <3>2, OneMoreDraft
      <4> QED
        BY <1>1, <3>2, <4>1
    <3> QED
      BY <1>2, <2>2, <3>2
  <2> QED
    BY <1>1, <1>2, <2>1, <2>3
<1>9. CASE chain
  <2>1. Unpaired /\ UNCHANGED <<last_count, k, pend>> /\ pc = "chain"
    BY <1>2, <1>9 DEF chain, Call, gvars, predictor, cycle, Chain, Paired, CanChain
  <2>2. d' = d \/ \E t \in Token : Drafted(t)
    BY <1>9 DEF chain, Call, cycle
  <2>3. Len(d') <= k
    <3>1. Len(d) < k
      BY <2>1 DEF IInv, Decoding
    <3>2. CASE \E t \in Token : Drafted(t)
      <4>1. Len(d') = Len(d) + 1
        BY <1>1, <3>2, OneMoreDraft
      <4> QED
        BY <1>1, <3>1, <4>1
    <3> QED
      BY <1>2, <2>2, <3>2
  <2> QED
    BY <1>2, <2>1, <2>3
<1>10. CASE step
  <2>1. Unpaired /\ UNCHANGED <<k, d, pend>> /\ (last_count' = last_count \/ last_count' = 1)
    BY <1>2, <1>10 DEF step, Call, gvars, predictor, cycle, Extend, Extended
  <2> QED
    BY <1>1, <1>2, <2>1
<1>11. CASE verify
  <2>1. Unpaired /\ UNCHANGED <<k, d, pend>> /\ (last_count' = last_count \/ last_count' = 1)
    BY <1>2, <1>11 DEF verify, Call, gvars, predictor, cycle, Extend, Verify, Extended
  <2> QED
    BY <1>1, <1>2, <2>1
<1>12. CASE keep
  <2>1. Unpaired /\ UNCHANGED <<k, d, pend>> /\ (last_count' = last_count \/ last_count' = Kept)
        /\ pc = "keep"
    BY <1>2, <1>12 DEF keep, Call, gvars, predictor, cycle, Keep
  <2>2. Kept <= MaxTokens
    <3>1. Len(d) >= 1
      BY <2>1 DEF IInv, ToJudge, Judging
    <3>2. Accepted \in 0 .. Live /\ Live \in Nat /\ Live <= Len(d)
      BY <1>1, <3>1, DraftsLive, DraftsAccepted
    <3>3. Kept \in 1 .. (Live + 1)
      BY <3>2 DEF Kept
    <3> QED
      BY <1>1, <1>2, <3>2, <3>3
  <2> QED
    BY <1>2, <2>1, <2>2
<1>13. CASE accept
  <2>1. Unpaired /\ UNCHANGED <<k, last_count>> /\ d' = <<>> /\ pc = "accept"
        /\ (pend' = pend \/ (~stopped /\ pend' = SubSeq(d, 1, Accepted)))
    BY <1>2, <1>13 DEF accept, gvars, predictor
  <2>2. Len(pend') < VerifyRows
    <3>1. CASE pend' = pend
      BY <1>2, <3>1
    <3>2. CASE ~stopped /\ pend' = SubSeq(d, 1, Accepted)
      <4>1. /\ Accepted \in 0 .. Live /\ Live \in Nat /\ Live <= Len(d)
            /\ Len(SubSeq(d, 1, Accepted)) = Accepted
        BY <2>1, <3>2, AcceptedDrafts
      <4> QED
        BY <1>1, <1>2, <3>2, <4>1
    <3> QED
      BY <2>1, <3>1, <3>2
  <2> QED
    BY <1>1, <1>2, <2>1, <2>2
<1>14. CASE finish
  <2>1. Unpaired /\ last_count' = last_count
        /\ ((k' = k /\ d' = d /\ pend' = pend) \/ (k' = 0 /\ d' = <<>> /\ pend' = <<>>))
    BY <1>2, <1>14 DEF finish, Call, gvars, predictor, cycle, Rewind, CanRewind
  <2> QED
    BY <1>1, <1>2, <2>1
<1> QED
  BY <1>3, <1>4, <1>5, <1>6, <1>7, <1>8, <1>9, <1>10, <1>11, <1>12, <1>13, <1>14 DEF Program

\* So they do between turns.
LEMMA UserBounds ==
  ASSUME IInv, Bounded, User \/ UNCHANGED vars
  PROVE  /\ ~enabled' => partner' = <<>>
         /\ last_count' <= MaxTokens /\ Len(d') <= k' /\ Len(pend') < VerifyRows
<1>1. /\ ~enabled => partner = <<>>
      /\ last_count <= MaxTokens /\ Len(d) <= k /\ Len(pend) < VerifyRows
  BY DEF Bounded
<1>2. 0 <= MaxTokens
  BY Constants
<1>3. /\ ~enabled' => partner' = <<>>
      /\ UNCHANGED <<k, d, pend>> /\ (last_count' = last_count \/ last_count' = 0)
  <2>1. CASE \E body \in Bodies : reply(body)
    <3>1. PICK body \in Bodies : reply(body)
      BY <2>1
    <3>2. UNCHANGED cycle
      BY <3>1 DEF reply, Call, Start
    <3>3. last_count' = last_count \/ last_count' = 0
      BY <3>1 DEF reply, Call
    <3>4. enabled' = enabled /\ (partner' = partner \/ partner' = <<>> \/ enabled)
      BY <3>1 DEF reply, Call, gvars, predictor, Reset, Pair, Paired, CanPair
    <3> QED
      BY <1>1, <3>2, <3>3, <3>4 DEF cycle
  <2>2. CASE forget
    BY <1>1, <2>2 DEF forget, Reset, cycle
  <2>3. CASE \E body \in Bodies, c \in Chunks, n \in Limits, s \in Limits \cup {Unlimited},
                b \in BOOLEAN : serve(body, c, n, s, b)
    BY <1>1, <2>3 DEF serve, Start, Reset, cycle
  <2>4. CASE interrupt
    BY <1>1, <2>4 DEF interrupt, gvars, predictor, cycle
  <2>5. CASE UNCHANGED vars
    BY <1>1, <2>5 DEF vars, gvars, pvars, predictor, cycle
  <2> QED
    BY <2>1, <2>2, <2>3, <2>4, <2>5 DEF User
<1> QED
  BY <1>1, <1>2, <1>3

\* Every step keeps the bounds.
LEMMA StepBounded == IInv /\ Bounded /\ [Next]_vars => Bounded'
<1> SUFFICES ASSUME IInv, Bounded, [Next]_vars PROVE Bounded'
  OBVIOUS
<1>1. IInv'
  BY StepIInv
<1>2. /\ ~enabled' => partner' = <<>>
      /\ last_count' <= MaxTokens /\ Len(d') <= k' /\ Len(pend') < VerifyRows
  BY ProgramBounds, UserBounds DEF Next
<1>3. CASE pc' # "idle"
  <2>1. Busy'
    BY <1>1, <1>3 DEF IInv, Typed, Busy
  <2>2. (IInv /\ Busy /\ (~enabled => partner = <<>>) =>
           /\ Len(prompt) + Len(generated) <= Capacity
           /\ Len(partner) <= Len(text) + VerifyRows)'
    BY BusyBounds, PTL
  <2> QED
    BY <1>1, <1>2, <2>1, <2>2 DEF Bounded
<1>4. CASE pc' = "idle"
  <2>1. finish \/ forget \/ UNCHANGED vars
    <3>1. Program => finish
      BY <1>4 DEF Program, prefill, pair_prompt, start_decode, emit_next, end, plan, catch_up,
         Drafted,
                  chain, step, verify, keep, accept, Call
    <3>2. User => forget
      BY <1>4 DEF User, reply, serve, Start, interrupt, Call
    <3> QED
      BY <3>1, <3>2 DEF Next
  <2>2. UNCHANGED <<prompt, generated>>
    BY <2>1 DEF finish, forget, vars, pvars, request, output, Call
  <2>3. Len(partner') <= Len(text') + VerifyRows
    <3>1. Len(<<>>) = 0 /\ VerifyRows \in Nat
      BY Constants, EmptySeq
    <3>2. CASE finish
      <4>1. /\ text' = text /\ enabled' = enabled /\ Len(text) \in Nat /\ mtp_done \in Nat
            /\ enabled => Len(partner') = mtp_done
        BY <3>2, PredictorLeft, Lengths DEF IInv, Typed
      <4>2. enabled => mtp_done <= Len(text)
        BY <3>2 DEF finish, IInv, Follows, Busy, Done
      <4> QED
        BY <1>2, <3>1, <4>1, <4>2
    <3>3. CASE forget
      BY <3>1, <3>3 DEF forget, Reset
    <3>4. CASE UNCHANGED vars
      BY <3>4 DEF vars, gvars, trunk, predictor, Bounded
    <3> QED
      BY <2>1, <3>2, <3>3, <3>4
  <2> QED
    BY <1>2, <2>2, <2>3 DEF Bounded
<1> QED
  BY <1>3, <1>4

\* A reply and its prompt fit the context, whatever was asked for, and every
\* count stays within the rows the graph was built for.
THEOREM TurnTypes == Spec => []TypeOK
<1>1. Init => Bounded
  <2> SUFFICES ASSUME Init PROVE Bounded
    OBVIOUS
  <2>1. Len(<<>>) = 0 /\ Capacity \in Nat /\ MaxTokens \in Nat /\ VerifyRows \in Nat /\ VerifyRows >= 2
    BY Constants, EmptySeq
  <2> QED
    BY <2>1 DEF Init, Bounded
<1>2. IInv /\ Bounded => TypeOK
  <2> SUFFICES ASSUME IInv, Bounded PROVE TypeOK
    OBVIOUS
  <2>1. pc # "idle" => Len(generated) <= o.max_new /\ Len(generated) <= o.stop_after
    BY DEF IInv, Typed, Budget, Busy
  <2>2. last_count \in 0 .. MaxTokens
    BY Constants DEF IInv, Typed, Bounded
  <2> QED
    BY <2>1, <2>2 DEF IInv, Typed, Bounded, TypeOK
<1> QED
  BY <1>1, <1>2, Invariance, StepBounded, PTL DEF Spec
=============================================================================
