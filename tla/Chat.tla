---------------------------------- MODULE Chat ----------------------------------
(***************************************************************************)
(* The chat template as qwen38_chat.c renders it, and the turns the REPL   *)
(* appends to its transcript (qwen38_repl.c).  A text is a sequence of     *)
(* pieces: a literal of the template, a word or a space of its user.  A    *)
(* message is [role, content, reasoning, calls]; a call has a name and     *)
(* pairs of a parameter and its value.                                     *)
(***************************************************************************)
EXTENDS Naturals, Sequences, SequencesExt

Space == {" ", "\n"}

\* What is left between the first and the last piece that is not a space.
trim(s) ==
    LET solid == {i \in DOMAIN s : s[i] \notin Space} IN
    IF solid = {} THEN <<>>
    ELSE SubSeq(s, CHOOSE i \in solid : \A j \in solid : i <= j,
                   CHOOSE i \in solid : \A j \in solid : i >= j)

tool_response(s) == Len(s) >= 2 /\ s[1] = "<tool_response>" /\ s[Len(s)] = "</tool_response>"

Roles == {"system", "user", "assistant", "tool"}
\* The schema of one message in its place.
message_schema(m, i) ==
    CASE m.role \notin Roles -> "FORMAT"
      [] m.role = "system" /\ i > 1 -> "FORMAT"
      [] m.calls # <<>> /\ m.role # "assistant" -> "TYPE"
      [] \E k \in DOMAIN m.calls : m.calls[k].name = <<>> -> "TYPE"
      [] OTHER -> "OK"

-----------------------------------------------------------------------------
Block(role, text) == <<"<|im_start|>", role, "\n">> \o text \o <<"<|im_end|>", "\n">>
Blank == <<"\n", "\n">>

render_parameter(a) == <<"<parameter=", a[1], ">", "\n", a[2], "\n", "</parameter>", "\n">>
render_call(c, lead) ==
    lead \o <<"<tool_call>", "\n", "<function=">> \o c.name \o <<">", "\n">>
         \o FlattenSeq([j \in DOMAIN c.args |-> render_parameter(c.args[j])])
         \o <<"</function>", "\n", "</tool_call>">>
render_calls(m) ==
    FlattenSeq([i \in DOMAIN m.calls |->
        render_call(m.calls[i], IF i > 1 THEN <<"\n">>
                                ELSE IF trim(m.content) # <<>> THEN Blank ELSE <<>>)])

Instructions(o) ==
    IF o.enable_thinking = "false" THEN <<>>
    ELSE CASE o.reasoning_effort \in {"omitted", "xhigh"} -> <<"xhigh">>
           [] o.reasoning_effort = "low" -> <<"low">>
           [] o.reasoning_effort = "medium" -> <<>>

system_block(ms, tools, o) ==
    LET reason == Instructions(o)
        system == IF ms[1].role = "system" THEN trim(ms[1].content) ELSE <<>>
        listed == IF tools = <<>> THEN <<>>
                  ELSE (IF reason # <<>> THEN Blank ELSE <<>>) \o <<"# Tools">>
                       \o FlattenSeq([i \in DOMAIN tools |-> <<"\n", tools[i]>>])
                       \o <<"\n", "</tools>", "call instructions">> IN
    IF reason \o listed \o system = <<>> THEN <<>>
    ELSE Block("system", reason \o listed \o
             (IF system # <<>> /\ reason \o listed # <<>> THEN Blank ELSE <<>>) \o system)

\* Earlier thoughts stay unless preserve_thinking is false, then only those after the last
\* query of the user.
Thought(m, i, o, last_query) ==
    IF o.preserve_thinking # "false" \/ i > last_query
    THEN <<"<think>", "\n">> \o trim(m.reasoning) \o <<"\n", "</think>">> \o Blank ELSE <<>>

\* Consecutive tool answers share one user block.
render_tool(ms, i) ==
    (IF i > 1 /\ ms[i - 1].role # "tool" THEN <<"<|im_start|>", "user">> ELSE <<>>)
    \o <<"\n", "<tool_response>", "\n">> \o trim(ms[i].content) \o <<"\n", "</tool_response>">>
    \o (IF i = Len(ms) \/ ms[i + 1].role # "tool" THEN <<"<|im_end|>", "\n">> ELSE <<>>)

render_message(ms, i, o, last_query) ==
    CASE ms[i].role = "system" -> <<>>
      [] ms[i].role = "user" -> Block("user", trim(ms[i].content))
      [] ms[i].role = "assistant" ->
            Block("assistant", Thought(ms[i], i, o, last_query) \o trim(ms[i].content)
                               \o render_calls(ms[i]))
      [] ms[i].role = "tool" -> render_tool(ms, i)

generation_prompt(o) ==
    IF ~o.add_generation_prompt THEN <<>>
    ELSE <<"<|im_start|>", "assistant", "\n", "<think>", "\n">> \o
         IF o.enable_thinking = "false" THEN <<"\n", "</think>">> \o Blank ELSE <<>>

chat_render(ms, tools, o) ==
    LET bad == {i \in DOMAIN ms : message_schema(ms[i], i) # "OK"}
        queries == {i \in DOMAIN ms : ms[i].role = "user" /\ ~tool_response(trim(ms[i].content))} IN
    CASE ms = <<>> -> [status |-> "FORMAT", text |-> <<>>]
      [] ms # <<>> /\ bad # {} ->
            [status |-> LET i == CHOOSE i \in bad : \A j \in bad : i <= j
                        IN message_schema(ms[i], i), text |-> <<>>]
      [] ms # <<>> /\ bad = {} /\ queries = {} -> [status |-> "FORMAT", text |-> <<>>]
      [] OTHER ->
            LET last_query == CHOOSE i \in queries : \A j \in queries : i >= j IN
            [status |-> "OK",
             text |-> system_block(ms, tools, o)
                      \o FlattenSeq([i \in DOMAIN ms |-> render_message(ms, i, o, last_query)])
                      \o generation_prompt(o)]

-----------------------------------------------------------------------------
(* The REPL.                                                                *)

User(text) == [role |-> "user", content |-> text, reasoning |-> <<>>, calls |-> <<>>]
TurnOptions(thinking, effort) ==
    [enable_thinking |-> IF thinking THEN "true" ELSE "false", preserve_thinking |-> "omitted",
     reasoning_effort |-> effort, add_generation_prompt |-> TRUE]

\* Turns after the first carry no system block.
TurnEffort_omitted(transcript, thinking) == "omitted"    \* mutant: every turn is a first one
TurnEffort(transcript, thinking) == IF transcript # <<>> /\ thinking THEN "medium" ELSE "omitted"

\* The end of the reply before: a turn that was cut is closed first.
Close(transcript) ==
    CASE transcript = <<>> -> <<>>
      [] transcript # <<>> /\ transcript[Len(transcript)] = "<|im_end|>" -> <<"\n">>
      [] OTHER -> <<"<|im_end|>", "\n">>

\* Nothing is appended if the template refuses the message.
turn_accepted(text) == chat_render(<<User(text)>>, <<>>, TurnOptions(FALSE, "omitted")).status = "OK"
user_turn(transcript, text, thinking) ==
    IF ~turn_accepted(text) THEN transcript
    ELSE transcript \o Close(transcript) \o
         chat_render(<<User(text)>>, <<>>,
                     TurnOptions(thinking, TurnEffort(transcript, thinking))).text

\* What was generated is kept as it is, wherever it was stopped; a turn stopped before its
\* first token is dropped with its message.
reply_kept(transcript, asked, generated) ==
    IF generated = <<>> THEN transcript ELSE asked \o generated

\* The printer: the tags of a thought are dropped and what is between them is grey. What may
\* be the beginning of a tag waits. The output is of characters and their shade.
ThinkOpen  == <<"<", "t", "h", "i", "n", "k", ">">>
ThinkClose == <<"<", "/", "t", "h", "i", "n", "k", ">">>
tag_prefix(s) == IsPrefix(s, ThinkOpen) \/ IsPrefix(s, ThinkClose)

Put(p, c) == [p EXCEPT !.out = Append(@, <<c, p.in_think>>), !.newline = (c = "\n")]
\* Characters leave the front until the rest may be a tag.
RECURSIVE Flush(_)
Flush(p) == IF tag_prefix(p.pending) THEN p
            ELSE Flush([Put(p, Head(p.pending)) EXCEPT !.pending = Tail(p.pending)])
\* One character of print_text.
print_char(p, c) ==
    LET q == [p EXCEPT !.pending = Append(@, c)]
        closed == [q EXCEPT !.in_think = FALSE, !.pending = <<>>] IN
    CASE q.pending = ThinkOpen -> [q EXCEPT !.in_think = TRUE, !.pending = <<>>]
      [] q.pending = ThinkClose -> IF q.newline THEN closed ELSE Put(closed, "\n")
      [] OTHER -> Flush(q)
print_text(p, text) == FoldLeft(print_char, p, text)
\* The turn begins in the shade of its mode; at its end what waits is printed as it is.
Printer(thinking) == [in_think |-> thinking, newline |-> FALSE, pending |-> <<>>, out |-> <<>>]
print_end(p) == [p EXCEPT !.out = @ \o [i \in DOMAIN p.pending |-> <<p.pending[i], p.in_think>>],
                          !.pending = <<>>, !.in_think = FALSE]
===============================================================================
