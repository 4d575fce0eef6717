------------------------------- MODULE Algorithms -------------------------------
(***************************************************************************)
(* Inputs of the pure parts, grown one item at a time, and what each part  *)
(* owes its input, stated without the code's loops: a text and its         *)
(* segments, merge rules and their tokens, chunks of bytes and the decoded *)
(* stream, a reply and its printed form, a conversation and its transcript,*)
(* a tree and its JSON, scores and the choice made from them, a model file *)
(* and its views, a table of heads and its hash, packed rows and products. *)
(***************************************************************************)
EXTENDS Tokenizer, Chat, JsonCases, GgufHeader, PackedCases, Moe, Config

CONSTANTS
  Int32Max,                \* 2^31 - 1 in the code
  Letters, MaxText,        \* code points of a text for the pre-tokenizer, bound
  Raw, MaxRaw,             \* code points of a text to encode, bound
  MaxRules, MaxWord,       \* bounds: merge rules, bytes of a word they are applied to
  Octets, MaxOctets,       \* bytes a model may emit, bound
  MaxTurns, MaxListed,     \* bounds: turns of a conversation, messages of a list
  MaxScores, MaxRows, TopK, Experts, \* bounds of the choices
  MaxTensors, Pages, Limits,         \* bound; page sizes and view limits
  MaxHeads,                \* bound: heads of an n-gram table
  MaxPieces,               \* bound: pieces of a reply to print
  MaxNest,                 \* bound: how often a tree is put into another
  MaxChunks, Lanes, MaxShared        \* bounds: chunks of a row, lanes, rows that share rounds

INSTANCE NgramIds WITH Mix <- LAMBDA a, b : a + b

VARIABLE input             \* what part it is for, and the data so far
vars == <<input>>

At(part) == input.part = part
Grow(field, item) == input' = [input EXCEPT ![field] = Append(@, item)]

-----------------------------------------------------------------------------
(* The pre-tokenizer.                                                       *)

\* Digits, letters and so on of the pattern the merges were trained with: the lengths at
\* which each alternative matches the beginning of t, look-ahead included.
Letter(cp) == "L" \in category(cp)
Mark(cp)   == "M" \in category(cp)
Digit(cp)  == "N" \in category(cp)
All(t, i, j, P(_)) == \A k \in i .. j : P(t[k])
Contractions == {<<39, 115>>, <<39, 116>>, <<39, 109>>, <<39, 100>>, <<39, 114, 101>>,
                 <<39, 118, 101>>, <<39, 108, 108>>}
\* docs/specs/qwen38/A.md:320. (The comment above pretoken_len leaves the marks out of words.)
Inside(cp) == Letter(cp) \/ Mark(cp)
Symbol(cp) == ~is_space(cp) /\ category(cp) = {}
Alternatives(t) ==
  LET lengths == 1 .. Len(t)
      lettered(i, j) == i <= j /\ All(t, i, j, Inside)
      spaces(n) == All(t, 1, n, is_space)
      symbolic(i, j) == \E k \in i .. j : All(t, i, k, Symbol) /\ All(t, k + 1, j, is_nl)
  IN << {n \in lengths : [i \in 1 .. n |-> Lower(t[i])] \in Contractions},
        {n \in lengths : \/ lettered(1, n)
                         \/ ~is_nl(t[1]) /\ ~Letter(t[1]) /\ ~Digit(t[1]) /\ lettered(2, n)},
        {n \in lengths : n = 1 /\ Digit(t[1])},
        {n \in lengths : symbolic(1, n) \/ (t[1] = 32 /\ symbolic(2, n))},
        {n \in lengths : spaces(n) /\ is_nl(t[n])},
        {n \in lengths : spaces(n) /\ (n = Len(t) \/ is_space(t[n + 1]))},
        {n \in lengths : spaces(n)} >>
\* Ordered alternatives: the first that matches, as long as it goes.
Longest(alternatives) ==
  LET matches == SelectSeq(alternatives, LAMBDA S : S # {})[1] IN
  CHOOSE n \in matches : \A m \in matches : m <= n

Pattern(t) == Longest(Alternatives(t))

TypeLetter == At("text") /\ Len(input.text) < MaxText /\ \E cp \in Letters : Grow("text", cp)

-----------------------------------------------------------------------------
(* Merging and encoding.                                                    *)

\* A trained table makes one new token a rule, out of earlier ones.
Known(rules) == {<<97>>, <<98>>} \union {r[1] \o r[2] : r \in ToSet(rules)}
AddRule ==
  /\ At("word") /\ input.text = <<>> /\ Len(input.rules) < MaxRules
  /\ \E l, r \in Known(input.rules) :
        l \o r \notin Known(input.rules) /\ Grow("rules", <<l, r>>)
TypeByte == At("word") /\ Len(input.text) < MaxWord /\ \E b \in {97, 98} : Grow("text", b)

\* Training order: every rule in turn, from left to right, wherever it applies.
Applied(ids, rule) ==
  FoldLeft(LAMBDA out, id : IF out # <<>> /\ <<Last(out), id>> = rule
                            THEN Append(Front(out), rule[1] \o rule[2]) ELSE Append(out, id),
           <<>>, ids)
Trained(rules, bytes) == FoldLeft(Applied, [i \in DOMAIN bytes |-> <<bytes[i]>>], rules)

\* The tables of the loader, under a hash that collides always or sometimes, wrapping around.
TablesFind(rules) ==
  LET tokens == SetToSeq(Known(rules))
      any == Known(rules) \union {<<97, 97, 97, 97, 97>>}
      slots(n) == [i \in 0 .. pow2_at_least(n) - 1 |-> 0]
      hash(S, k(_)) == {[x \in S |-> 15], [x \in S |-> (13 + Len(k(x))) % 16]} IN
  /\ \A h \in hash(any, LAMBDA x : x) :
       LET table == FoldLeft(LAMBDA t, i : str_insert(t, h[tokens[i]], i), slots(Len(tokens)),
                             Upto(Len(tokens))) IN
       \A b \in any : LET i == tokenizer_find(tokens, table, h[b], b) IN
                      IF b \in Known(rules) THEN i > 0 /\ tokens[i] = b ELSE i = 0
  /\ \A h \in hash(any \X any, LAMBDA x : x[1]) :
       LET table == FoldLeft(LAMBDA t, r : merge_insert(rules, t, h[rules[r]], r), slots(Len(rules)),
                             Upto(Len(rules))) IN
       \A l, r \in any : tokenizer_rank(rules, table, h[<<l, r>>], l, r) = rank(rules, l, r)

TypeRaw == At("raw") /\ Len(input.text) < MaxRaw /\ \E cp \in Raw : Grow("text", cp)

\* Two spellings of a text are the same if marks of different classes changed places.
Classes == {nfc_ccc[cp] : cp \in DOMAIN nfc_ccc}
Ordered(s) ==
  \A i \in 1 .. Len(s) - 1 : combining(s[i + 1]) # 0 => combining(s[i]) <= combining(s[i + 1])
SameMarks(s, t) ==
  \A k \in Classes : SelectSeq(s, LAMBDA cp : combining(cp) \in {0, k})
                     = SelectSeq(t, LAMBDA cp : combining(cp) \in {0, k})
Canonical(t) ==
  LET bare == FlattenSeq([i \in DOMAIN t |-> decompose_cp(t[i])]) IN
  /\ Ordered(Decomposed(t)) /\ SameMarks(bare, Decomposed(t))
  /\ Decomposed(nfc(t)) = Decomposed(t) /\ nfc(Decomposed(t)) = nfc(t) /\ nfc(nfc(t)) = nfc(t)

\* A text around its added tokens, the leftmost of them first and of these the longest.
RECURSIVE Kept(_)
Kept(t) ==
  LET hits == {<<j, i>> \in (1 .. Len(t)) \X DOMAIN Added : Occurs(Added[i].name, t, j)}
      first == {h \in hits : \A k \in hits : h[1] <= k[1]}
      hit == CHOOSE h \in first : \A k \in first : Len(Added[h[2]].name) >= Len(Added[k[2]].name)
      behind == hit[1] + Len(Added[hit[2]].name) IN
  IF hits = {} THEN [text |-> nfc(t), tokens |-> <<>>]
  ELSE LET rest == Kept(SubSeq(t, behind, Len(t))) IN
       [text |-> nfc(SubSeq(t, 1, hit[1] - 1)) \o Added[hit[2]].name \o rest.text,
        tokens |-> <<hit[2]>> \o rest.tokens]

\* The rules the raw texts are encoded with.
Rules == <<<<<<62>>, <<97>>>>, <<<<204>>, <<129>>>>, <<<<97>>, <<204, 129>>>>>>
AddedOf(ids) == LET a == SelectSeq(ids, LAMBDA id : id[1] = "added")
                IN [i \in DOMAIN a |-> a[i][2]]

-----------------------------------------------------------------------------
(* The streaming decoder.                                                   *)

Emitted == Len(FlattenSeq(input.chunks))
EmitByte ==
  /\ At("bytes") /\ Emitted < MaxOctets
  /\ \E b \in Octets : input' = [input EXCEPT !.chunks[Len(input.chunks)] = Append(@, b)]
NextChunk == At("bytes") /\ Last(input.chunks) # <<>> /\ Emitted < MaxOctets /\ Grow("chunks", <<>>)

IdsOf(bytes) == [i \in DOMAIN bytes |-> <<"bpe", <<bytes[i]>>>>]
Ample == 3 * MaxOctets
\* Every chunk once into a buffer that is too small, then into one that is not.
Streamed(chunks) ==
  LET offer(decoder, chunk, cap) == decoder_append(decoder, IdsOf(chunk), FALSE, cap)
      again(refused, chunk) == IF refused.status = "OK" THEN refused
                               ELSE offer(refused.next, chunk, Ample)
      fed(st, refused, r) ==
        [decoder |-> r.next, out |-> st.out \o r.out,
         short |-> st.short /\ (refused.status = "OK" \/ refused.next = st.decoder)
                   /\ Len(r.next.carry) <= 3]
      feed(st, chunk) == LET refused == offer(st.decoder, chunk, 0) IN
                         fed(st, refused, again(refused, chunk))
  IN FoldLeft(feed, [decoder |-> decoder_create, out |-> <<>>, short |-> TRUE], chunks)

\* Well-formed UTF-8 is what code points are spelled as.
CodePoint(b) ==
  CASE Len(b) = 1 -> b[1]
    [] Len(b) = 2 -> ((b[1] - 192) * 64) + (b[2] - 128)
    [] Len(b) = 3 -> ((b[1] - 224) * 4096) + ((b[2] - 128) * 64) + (b[3] - 128)
    [] Len(b) = 4 -> ((b[1] - 240) * 262144) + ((b[2] - 128) * 4096) + ((b[3] - 128) * 64)
                     + (b[4] - 128)
Spelled(b) ==
  /\ CodePoint(b) \in 0 .. 55295 \/ CodePoint(b) \in 57344 .. 1114111
  /\ put_utf8(CodePoint(b)) = b
RECURSIVE WellFormed(_)
WellFormed(b) ==
  b = <<>> \/ \E k \in 1 .. 4 : /\ k <= Len(b) /\ Spelled(SubSeq(b, 1, k))
                                /\ WellFormed(SubSeq(b, k + 1, Len(b)))

-----------------------------------------------------------------------------
(* A reply as it is printed.                                                *)

Pieces == {ThinkOpen, ThinkClose, <<"<">>, <<"<", "/">>, <<"t", "h", "i", "n", "k", ">">>, <<"a">>, <<"\n">>}
SayPiece == At("reply") /\ Len(input.pieces) < MaxPieces /\ \E p \in Pieces : Grow("pieces", p)

\* The text without its tags, a new line where a thought ends in the middle of one; line says
\* whether the last character printed ended its line.
RECURSIVE Shown(_, _, _)
Shown(text, thinking, line) ==
  CASE text = <<>> -> <<>>
    [] text # <<>> /\ IsPrefix(ThinkOpen, text) -> Shown(SubSeq(text, 8, Len(text)), TRUE, line)
    [] text # <<>> /\ IsPrefix(ThinkClose, text) ->
         (IF line THEN <<>> ELSE <<<<"\n", FALSE>>>>) \o Shown(SubSeq(text, 9, Len(text)), FALSE, TRUE)
    [] OTHER -> <<<<Head(text), thinking>>>> \o Shown(Tail(text), thinking, Head(text) = "\n")

-----------------------------------------------------------------------------
(* A conversation of the REPL.                                              *)

Said == {<<"hi">>, <<" ", "hi", "\n", "you">>, <<"<tool_response>", "</tool_response>">>}
\* What the model would say: a thought if asked for one, then the answer.
Thoughts(thinking) == IF thinking THEN <<"thought", "\n", "</think>">> \o Blank ELSE <<>>
Words == <<"an", " ", "answer">>
Whole(thinking) == Thoughts(thinking) \o Words
\* What it does say: any beginning of it, cut by Ctrl+C or the limit or ended by a stop token.
Stops == {"<|im_end|>", "<|endoftext|>"}
Replies(thinking) ==
  {SubSeq(Whole(thinking), 1, k) \o end :
      k \in 0 .. Len(Whole(thinking)), end \in {<<>>} \union {<<s>> : s \in Stops}}
Ask ==
  /\ At("chat") /\ Len(input.turns) < MaxTurns
  /\ \E t \in Said, thinking \in BOOLEAN :
        Grow("turns", [text |-> t, thinking |-> thinking, reply |-> <<>>])
Reply ==
  /\ At("chat") /\ Len(input.turns) \in 1 .. MaxTurns - 1
  /\ Last(input.turns).reply = <<>> /\ turn_accepted(Last(input.turns).text)
  /\ \E r \in Replies(Last(input.turns).thinking) :
        input' = [input EXCEPT !.turns[Len(input.turns)].reply = r]

\* The transcript before the reply to the last turn, as the REPL builds it.
Transcript(turns) ==
  FoldLeft(LAMBDA tr, i : LET asked == user_turn(tr, turns[i].text, turns[i].thinking) IN
                          IF i = Len(turns) \/ asked = tr THEN asked
                          ELSE reply_kept(tr, asked, turns[i].reply),
           <<>>, Upto(Len(turns)))

\* The turns that are part of the conversation, the last one being asked.
Accepted(turns) ==
  SelectSeq(Front(turns), LAMBDA t : turn_accepted(t.text) /\ t.reply # <<>>)
  \o SelectSeq(<<Last(turns)>>, LAMBDA t : turn_accepted(t.text))
Body(reply) == IF Last(reply) \in Stops THEN Front(reply) ELSE reply
Content(t) == SubSeq(Body(t.reply), Len(Thoughts(t.thinking)) + 1, Len(Body(t.reply)))
Assistant(thinking, content, calls) ==
  [role |-> "assistant", content |-> content, calls |-> calls,
   reasoning |-> IF thinking THEN <<"thought">> ELSE <<>>]
Messages(turns) ==
  FlattenSeq([i \in DOMAIN turns |->
    <<User(turns[i].text)>> \o
    IF i = Len(turns) THEN <<>> ELSE <<Assistant(turns[i].thinking, Content(turns[i]), <<>>)>>])

\* A reply the template can write: its thought is over, its answer ends in no space that the
\* template would strip, and it did not end with <|endoftext|>.
Settled(t) ==
  /\ IsPrefix(Thoughts(t.thinking), t.reply) /\ Content(t) = trim(Content(t))
  /\ Last(t.reply) # "<|endoftext|>"
\* The template's block of the whole reply up to where the reply ended, then closed.
BlockOf(t) ==
  LET whole == render_message(<<Assistant(t.thinking, Words, <<>>)>>, 1,
                              TurnOptions(t.thinking, "omitted"), 0)
      unsaid == Len(Whole(t.thinking)) - Len(Body(t.reply)) IN
  SubSeq(whole, 1, (Len(whole) - 2) - unsaid)
  \o (IF Last(t.reply) = "<|endoftext|>" THEN <<"<|endoftext|>">> ELSE <<>>) \o <<"<|im_end|>", "\n">>

\* A list of messages with calls of tools and their answers.
Calls == {<<>>, <<[name |-> <<"f">>, args |-> <<<<"x", "1">>>>]>>,
          <<[name |-> <<"f">>, args |-> <<>>], [name |-> <<"g">>, args |-> <<<<"x", "1">>>>]>>}
Message ==
  {User(<<"hi">>)} \union {[User(<<"42">>) EXCEPT !.role = r] : r \in {"tool", "system"}}
  \union {Assistant(TRUE, c, calls) : c \in {<<>>, <<"ok">>}, calls \in Calls}
AddMessage ==
  At("messages") /\ Len(input.messages) < MaxListed /\ \E m \in Message : Grow("messages", m)
\* What is open after another piece: a call, an answer of a tool or a thought in a block.
Closer == [p \in {"<|im_start|>", "<tool_call>", "<tool_response>", "<think>", "astray"} |->
             CASE p = "<|im_start|>" -> "<|im_end|>"  [] p = "<tool_call>" -> "</tool_call>"
               [] p = "<think>" -> "</think>"         [] p = "<tool_response>" -> "</tool_response>"
               [] p = "astray" -> ""]
Open(open, p) ==
  CASE p \in DOMAIN Closer ->
         IF Len(open) = (IF p = "<|im_start|>" THEN 0 ELSE 1) THEN Append(open, p) ELSE <<"astray">>
    [] p \in {Closer[q] : q \in DOMAIN Closer} ->
         IF open # <<>> /\ Closer[Last(open)] = p THEN Front(open) ELSE <<"astray">>
    [] OTHER -> open

\* A tree for the prompt.
Nest == At("tree") /\ input.nested < MaxNest /\ \E v \in Around(input.tree) :
          input' = [input EXCEPT !.tree = v, !.nested = @ + 1]

-----------------------------------------------------------------------------
(* Choices, the model file, the table of heads.                             *)

AddScore == At("scores") /\ Len(input.scores) < MaxScores /\ \E x \in 0 .. 2 : Grow("scores", x)
AddRow == At("rows") /\ Len(input.probs) < MaxRows /\ \E p \in [1 .. Experts -> 0 .. 2] : Grow("probs", p)

\* The k best of s: no one outside is better, and among equals the first ones are taken.
Best(s, k) ==
  CHOOSE S \in SUBSET (1 .. Len(s)) :
    /\ Cardinality(S) = k
    /\ \A i \in S, j \in (1 .. Len(s)) \ S : s[i] > s[j] \/ (s[i] = s[j] /\ i < j)

Names == <<"a", "b", "c", "d">>
\* The next tensor of a file: against, behind or into the one before it.
AddTensor ==
  /\ At("file") /\ Len(input.tensors) < MaxTensors
  /\ LET ts == input.tensors
         end == IF ts = <<>> THEN 0
                ELSE Ceiling(Last(ts).at + Bytes(Last(ts).type, Last(ts).shape), 4) IN
     \E table \in BOOLEAN, n \in {1, 3, 4}, gap \in {0, 4, 8}, back \in {0, 4} :
        /\ back <= end
        /\ Grow("tensors", [name |-> IF table THEN Table ELSE Names[Len(ts) + 1],
                            type |-> IF table THEN 30 ELSE 0, shape |-> IF table THEN <<2, n>> ELSE <<n>>,
                            at |-> (end + gap) - back])
FileOf(tensors, size) ==
  [size |-> size, header |-> 23, alignment |-> 4, architecture |-> TRUE,
   keys |-> <<"general.architecture">>, tensors |-> tensors]
RolesOf(tensors) == [i \in DOMAIN tensors |->
                       [name |-> tensors[i].name, type |-> tensors[i].type, shape |-> tensors[i].shape]]
\* Metadata values as they are written: type, items of an array or bytes of a string.
Little(n, width) == [i \in 1 .. width |-> (n \div (Radix ^ (i - 1))) % Radix]
Item(type, n) == CASE type \in DOMAIN widths -> [i \in 1 .. widths[type] |-> n]
                   [] type = 7 -> <<n % 2>>
                   [] type = 8 -> Little(n, 8) \o [i \in 1 .. n |-> i]
                   [] OTHER -> <<n>>
Listed(type, n) == Little(type, 4) \o Little(n, 8) \o FlattenSeq([i \in 1 .. n |-> Item(type, i % 3)])
Written == {<<type, Item(type, n)>> : type \in (0 .. 13) \ {9}, n \in 0 .. 2}
           \union {<<9, Listed(type, n)>> : type \in (0 .. 12) \ {9}, n \in 0 .. 2}
Damage ==
  /\ At("header") /\ input.damage = "none"
  /\ \/ \E k \in 0 .. Len(input.data) - 1 :
          input' = [input EXCEPT !.damage = "cut", !.data = SubSeq(@, 1, k)]
     \/ \E i \in DOMAIN input.data, b \in 0 .. Radix - 1 :
          input' = [input EXCEPT !.damage = "changed", !.data[i] = b]
\* A value written is skipped to its end, whatever follows; one that is cut is refused, and
\* none is read past what was needed to tell.
Skipped(type, data, damage) ==
  LET c == gguf_skip_value(Cursor(data), type)
      more == gguf_skip_value(Cursor(data \o <<1, 0>>), type) IN
  /\ damage = "none" => c.ok = (type < 13) /\ (c.ok => c.pos = Len(data))
  /\ damage = "cut" => ~c.ok
  /\ c.ok => /\ more.ok /\ more.pos = c.pos
             /\ \A k \in 0 .. c.pos - 1 : ~gguf_skip_value(Cursor(SubSeq(data, 1, k)), type).ok
  /\ type = 8 =>
       LET named == gguf_name(Cursor(data), 2) IN
       named.ok <=> c.ok /\ c.pos = 9 /\ data[9] \in Identifier

Disjoint(a, b) ==
  a.file_offset + a.bytes <= b.file_offset \/ b.file_offset + b.bytes <= a.file_offset

AddMultiplier ==
  /\ At("config") /\ Len(input.c.multipliers) < input.c.order
  /\ \E m \in {0, 2, 3, 5} : input' = [input EXCEPT !.c.multipliers = Append(@, m)]
AddHead ==
  /\ At("config") /\ Len(input.c.offsets) < MaxHeads
  /\ \E o \in 0 .. 3, n \in 0 .. 2 :
        input' = [input EXCEPT !.c.offsets = Append(@, o), !.c.vocabs = Append(@, n)]

-----------------------------------------------------------------------------
(* Packed rows and products.                                                *)

NextColumns == At("block") /\ input.chunk < MaxChunks /\ input' = [input EXCEPT !.chunk = @ + 1]
NextExponent ==
  \/ At("half") /\ input.exponent < 31 /\ input' = [input EXCEPT !.exponent = @ + 1]
  \/ At("e8m0") /\ input.exponent < 255 /\ input' = [input EXCEPT !.exponent = @ + 1]
NextTail == At("lanes") /\ input.chunks < MaxChunks /\ input' = [input EXCEPT !.chunks = @ + 1]
Addresses == {4 * i : i \in 0 .. 8} \union {SizeMax - 15}
PlaceInput ==
  /\ At("product") /\ input.placed = <<>>
  /\ \E rows \in 0 .. 2 : \E x \in MatricesAt({4, 40}, rows, input.weights.layout.k_logical) :
        Grow("placed", x)
PlaceOutput ==
  /\ At("product") /\ Len(input.placed) = 1
  /\ \E y \in MatricesAt(Addresses, input.placed[1].rows, input.weights.layout.n_out) : Grow("placed", y)
Disturb ==
  /\ At("product") /\ Len(input.placed) = 2 /\ ~input.disturbed
  /\ \E i \in 1 .. 2 : \E v \in Disturbed(input.placed[i]) :
        input' = [input EXCEPT !.placed[i] = v, !.disturbed = TRUE]

-----------------------------------------------------------------------------
Heads(words, last, per_head) ==
  [blocks |-> 4, mtp_blocks |-> 1, vocab_size |-> words, order |-> 2, heads |-> 2, kv_heads |-> 1,
   rotary_dim |-> 2, head_dim |-> 2, index_heads |-> 1, index_dim |-> 2, token_budget |-> 4,
   value_heads |-> 1, key_heads |-> 1, key_dim |-> 2, inner |-> 2, top_k |-> 1, experts |-> 2,
   intermediate |-> 3, down_physical |-> 256, heads_per_order |-> per_head, ngram_dim |-> 2,
   hidden_size |-> 2 * per_head, streams |-> 2, eos_id |-> last, interval |-> 3,
   ratios |-> <<0, 0, 2, 2>>, ple_layer |-> 1, multipliers |-> <<>>, offsets |-> <<>>,
   vocabs |-> <<>>, row_count |-> 4, divisor |-> 2]

Init ==
  input \in {[part |-> "text", text |-> <<>>],
             [part |-> "word", rules |-> <<>>, text |-> <<>>],
             [part |-> "raw", text |-> <<>>],
             [part |-> "bytes", chunks |-> <<<<>>>>],
             [part |-> "chat", turns |-> <<>>], [part |-> "messages", messages |-> <<>>],
             [part |-> "scores", scores |-> <<>>],
             [part |-> "rows", probs |-> <<>>],
             [part |-> "file", tensors |-> <<>>],
             [part |-> "half", exponent |-> 0], [part |-> "e8m0", exponent |-> 0]}
            \union {[part |-> "reply", thinking |-> b, pieces |-> <<>>] : b \in BOOLEAN}
            \union {[part |-> "header", type |-> w[1], data |-> w[2], damage |-> "none"] : w \in Written}
            \union {[part |-> "tree", nested |-> 0, tree |-> v] : v \in Leaves}
            \union {[part |-> "block", type |-> t, chunk |-> 0] : t \in DOMAIN CHUNK}
            \union {[part |-> "lanes", rows |-> n, chunks |-> 0] : n \in 1 .. MaxShared}
            \union {[part |-> "product", weights |-> w, expert |-> e, placed |-> <<>>, disturbed |-> FALSE] :
                       w \in ViewsAt({0, 16}), e \in 0 .. 1}
            \union {[part |-> "config", c |-> Heads(v, e, n)] :
                       v \in {2, 3}, e \in {0, 1, 3}, n \in {1, 2}}

Next == \/ TypeLetter \/ AddRule \/ TypeByte \/ TypeRaw \/ EmitByte \/ NextChunk
        \/ Ask \/ Reply \/ AddMessage
        \/ AddScore \/ AddRow \/ AddTensor \/ AddMultiplier \/ AddHead
        \/ Damage \/ SayPiece \/ Nest \/ NextColumns \/ NextExponent \/ NextTail \/ PlaceInput \/ PlaceOutput \/ Disturb
Spec == Init /\ [][Next]_vars

-----------------------------------------------------------------------------
(* Properties.                                                              *)

\* A text is cut where the first alternative of the trained pattern that matches ends, taken
\* as long as it goes (pretoken_len hand-codes the backtracking), and a word becomes the
\* tokens its merge rules make of it in the order they were trained (bpe_chunk looks for the
\* best pair instead); and the hash tables know every token and every rule, whatever collides.
SegmentsAsTrained ==
  /\ At("text") /\ input.text # <<>> => pretoken_len(input.text) = Pattern(input.text)
  /\ At("word") => bpe_chunk(input.rules, input.text) = Trained(input.rules, input.text)
  /\ At("word") /\ input.text = <<>> => TablesFind(input.rules)

\* Encoding loses nothing but the form of its marks: the IDs of a text decode to its normal
\* form, with the added tokens verbatim, leftmost and longest first, whatever they contain;
\* the normal form is one for all spellings of the text, and normalizing it changes nothing.
EncodeRoundTrips ==
  At("raw") =>
    LET t == input.text
        e == encode(Rules, t, 4 * Len(t)) IN
    /\ e.status = "OK"
    /\ decode_bytes(e.ids, FALSE) = Utf8(Kept(t).text)
    /\ AddedOf(e.ids) = Kept(t).tokens
    /\ Canonical(t)

\* However the bytes of a reply are dealt out to the decoder, and though every buffer is
\* offered too small first, the stream is the decoding of the whole; it is well-formed, equal
\* to the bytes if they are, and at most three bytes wait. And what the REPL prints of it,
\* character by character, is the whole text without its tags in the shade of its thoughts.
DecoderStreams ==
  /\ At("bytes") =>
       LET raw == FlattenSeq(input.chunks)
           st == Streamed(input.chunks)
           end == decoder_finish(st.decoder, FALSE, Ample)
           whole == decode_utf8(IdsOf(raw), FALSE, Ample) IN
       /\ st.short /\ end.status = "OK"
       /\ st.out \o end.out = whole.out
       /\ WellFormed(whole.out)
       /\ WellFormed(raw) => whole.out = raw
  /\ At("reply") =>
       LET said == FlattenSeq(input.pieces) IN
       print_end(print_text(Printer(input.thinking), said)).out = Shown(said, input.thinking, FALSE)

\* The transcript a REPL extends turn by turn, after replies cut or stopped anywhere, messages
\* dropped or refused and changes of the thinking mode, is block by block that of the template
\* over the whole conversation: the system block of the first turn, every message once, and the
\* prompt of the last turn. The block of a reply is the template's up to where the reply ended,
\* closed once. It is exactly what the template renders if every reply is one the template can
\* write; of a reply that ended in its thought it differs, because user_turn writes only
\* <|im_end|> there and not the </think> of the template. Lists of messages with calls of tools
\* come out as blocks that open and close in turn, every call and every answer once, unless an
\* answer comes first. And a tree of tools is accepted if it is within the limits and no object
\* has two members of a name; the JSON in the prompt then reads as that tree.
TranscriptIsTheTemplate ==
  /\ At("chat") /\ input.turns # <<>> /\ Last(input.turns).reply = <<>> =>
       LET turns == Accepted(input.turns)
           said == Transcript(input.turns)
           ms == Messages(turns)
           first == [TurnOptions(turns[1].thinking, "omitted") EXCEPT !.add_generation_prompt = FALSE]
           prompt == generation_prompt(TurnOptions(Last(turns).thinking, "omitted"))
           block(i) == IF i % 2 = 0 THEN BlockOf(turns[i \div 2]) ELSE render_message(ms, i, first, 0) IN
       IF turns = <<>> THEN said = <<>>
       ELSE turn_accepted(Last(input.turns).text) =>
              /\ said = system_block(ms, <<>>, first) \o FlattenSeq([i \in DOMAIN ms |-> block(i)]) \o prompt
              /\ (\A i \in 1 .. Len(turns) - 1 : Settled(turns[i])) =>
                    said = chat_render(ms, <<>>, first).text \o prompt
  /\ At("messages") =>
       \A kept \in {"omitted", "false"} :
         LET ms == input.messages
             list == chat_render(ms, <<>>, [enable_thinking |-> "true", preserve_thinking |-> kept,
                       reasoning_effort |-> "low", add_generation_prompt |-> FALSE])
             begins(i) == ms[i].role = "tool" => ms[i - 1].role # "tool"
             calls == FlattenSeq([i \in DOMAIN ms |-> ms[i].calls])
             count(p) == Cardinality({i \in DOMAIN list.text : list.text[i] = p}) IN
         list.status = "OK" /\ ms[1].role # "tool" =>
           /\ FoldLeft(Open, <<>>, list.text) = <<>>
           /\ count("<|im_start|>") = 1 + Cardinality({i \in DOMAIN ms : ms[i].role # "system" /\ begins(i)})
           /\ count("<tool_response>") = Cardinality({i \in DOMAIN ms : ms[i].role = "tool"})
           /\ SelectSeq(list.text, LAMBDA p : p \in {"f", "g"})
              = FlattenSeq([k \in DOMAIN calls |-> calls[k].name])
           /\ count("<tool_call>") = Len(calls)
  /\ At("tree") =>
       LET v == input.tree IN
       /\ json_status(v) = "OK" <=> Depth(v) <= MaxDepth /\ Nodes(v) <= MaxNodes /\ Unambiguous(v)
       /\ json_status(v) = "OK" => ReadValue(json_value(v) \o <<"]">>) = Read(v, <<"]">>)

\* The blocks a query attends to are the best of those it sees, in their order, though the
\* heap sees them once; and each row of an MoE call gets the answers of its own best experts
\* to that row with its own weights, wherever micro-batches and groups cut the call.
ChoosesTheBest ==
  /\ At("scores") =>
       \A k \in 1 .. Len(input.scores) + 1 :
         LET s == input.scores
             n == IF Len(s) < k THEN Len(s) ELSE k IN
         select(s, k) = SetToSortSeq(Best(s, n), LAMBDA a, b : a < b)
  /\ At("rows") =>
       LET p == input.probs
           y == moe_forward(Upto(Len(p)), p, Experts, TopK) IN
       /\ Len(y) = Len(p)
       /\ \A t \in DOMAIN p :
            /\ y[t].shared = t
            /\ {y[t].routed[s] : s \in 1 .. TopK} = {<<p[t][e], <<e, t>>>> : e \in Best(p[t], TopK)}

\* Of an accepted file no two tensors share a byte and none leaves it; whatever the page and
\* the largest buffer, a plan binds every tensor but the table once, inside a view of whole
\* pages that is no larger than the buffer, shares no byte with the table and at most a page
\* with the view before it; and a catalog that describes the file can be attached to it.
\* Before that, its metadata are skipped value by value to exactly where the next one begins.
ViewsCoverTensors ==
  /\ At("header") => Skipped(input.type, input.data, input.damage)
  /\ At("file") =>
       \A cut \in {0, 1}, page \in Pages, limit \in Limits :
         LET ts == input.tensors
             ends == {24 + ts[i].at + Bytes(ts[i].type, ts[i].shape) : i \in DOMAIN ts}
             g == gguf_open(FileOf(ts, (FoldSet(LAMBDA a, b : IF a > b THEN a ELSE b, 24, ends)) - cut))
             p == gguf_plan(g, page, limit)
             whole(v) == v.file_offset % page = 0 /\ v.bytes % page = 0 /\ v.bytes <= limit IN
         g.ok =>
           /\ \A i \in DOMAIN g.tensors : \A j \in DOMAIN g.tensors \ {i} :
                Disjoint(g.tensors[i], g.tensors[j])
           /\ \A i \in DOMAIN g.tensors : g.tensors[i].file_offset + g.tensors[i].bytes <= g.file_size
           /\ p.ok =>
                /\ [b \in DOMAIN p.weights |-> p.weights[b].tensor]
                   = SelectSeq(g.tensors, LAMBDA t : t.name # Table)
                /\ \A b \in DOMAIN p.weights : spans(p, p.weights[b], p.weights[b].tensor)
                /\ \A v \in DOMAIN p.views :
                     /\ whole(p.views[v])
                     /\ p.disk.bytes > 0 => Disjoint(p.views[v], p.disk)
                     /\ v > 1 => p.views[v - 1].file_offset + p.views[v - 1].bytes
                                 <= p.views[v].file_offset + page
                /\ p.disk.bytes > 0 /\ weights_describe(g, RolesOf(ts)) = "OK" =>
                     weights_attach(g, p) = "OK"

\* A configuration that is admitted can be hashed: the n-gram store accepts it, no product of
\* a token and its multiplier leaves the signed range, and whatever the history and the chunk,
\* every row is one of its head and of the table.
HashableConfig ==
  At("config") /\ config_load(input.c) = "OK" =>
    LET c == config_ngram(input.c)
        tokens == 0 .. c.vocab - 1 IN
    /\ c.vocab - 1 <= Int32Max => config_status(c) = "ok"
    /\ \A t \in tokens, j \in 1 .. c.order : t * c.multipliers[j] <= Int64Max
    /\ \A prev, a, b \in tokens :
         LET ids == ngram_ids(c, <<prev>>, <<a, b>>) IN
         \A i \in DOMAIN ids :
           LET h == ((i - 1) % Len(c.sizes)) + 1 IN
           ids[i] \in c.offsets[h] .. (c.offsets[h] + c.sizes[h]) - 1 /\ ids[i] < c.row_count

\* The GPU's chunks and the CPU's columns decode a row from the same bits, which are all of
\* its block and no other's; both widen a half and an MXFP4 value to the number it stands
\* for; rows that share their last rounds sum what each would sum alone, in its order; and
\* an admitted product stays inside its weights and matrices and overwrites nothing it reads.
ProductsAgree ==
  /\ At("block") =>
       /\ ChunkIsItsColumns(input.type, input.chunk)
       /\ input.chunk % (gguf_format[input.type][1] \div CHUNK[input.type]) = 0 =>
            BlockIsUsedUp(input.type, (input.chunk * CHUNK[input.type]) \div gguf_format[input.type][1])
       /\ \A more \in {0, 1, CHUNK[input.type] - 1} :
            ColumnsInOrder(input.type, (input.chunk * CHUNK[input.type]) + more)
  /\ At("half") => HalvesAgree(input.exponent)
  /\ At("e8m0") => Mxfp4Agrees(input.exponent)
  /\ At("lanes") => \A most \in input.rows .. MaxShared : LanesAgree(input.rows, input.chunks, Lanes, most)
  /\ At("product") /\ Len(input.placed) = 2 =>
       Contained(input.weights, input.expert, input.placed[1], input.placed[2])
=============================================================================
