--------------------------------- MODULE ToJson ---------------------------------
(***************************************************************************)
(* What qwen38_chat.c makes of a JSON value in a prompt (tools, arguments  *)
(* of calls): the check of the tree, and Python's json.dumps.  A text is a *)
(* sequence of characters; an integer is written as one.  A float is its   *)
(* shortest digits and decimal exponent: d.ddd * 10^exponent.  Values are  *)
(* trees: that a cycle of pointers is refused is not modelled.             *)
(***************************************************************************)
EXTENDS Integers, Sequences, SequencesExt

CONSTANTS MaxDepth,    \* 64
          MaxNodes,    \* 100000
          Controls     \* the characters below 32 that have no escape of their own

Null == [kind |-> "null"]
Boolean(b) == [kind |-> "bool", is |-> b]
Integer(n) == [kind |-> "int", integer |-> n]
Decimal(negative, digits, exponent) ==
    [kind |-> "float", negative |-> negative, digits |-> digits, exponent |-> exponent]
String(s) == [kind |-> "string", text |-> s]
Array(items) == [kind |-> "array", items |-> items]
\* Members are pairs of a key and a value.
Object(members) == [kind |-> "object", items |-> members]

\* The values right below v, and whether member i has a key of a member before it.
Children(v) == CASE v.kind = "array" -> v.items
                 [] v.kind = "object" -> [i \in DOMAIN v.items |-> v.items[i][2]]
                 [] OTHER -> <<>>
Duplicate(v, i) == v.kind = "object" /\ \E j \in 1 .. i - 1 : v.items[j][1] = v.items[i][1]

\* The walk in order: the nodes counted so far, and why it ended. (The limits of 100000
\* items and 4096 members, and the budget of text, are left out.)
RECURSIVE validate_tree(_, _, _)
validate_tree(st, v, depth) ==
    LET walk(s, i) == IF s.status = "OK" /\ Duplicate(v, i) THEN [s EXCEPT !.status = "FORMAT"]
                      ELSE validate_tree(s, Children(v)[i], depth + 1) IN
    CASE st.status # "OK" -> st
      [] st.status = "OK" /\ (depth = MaxDepth \/ st.nodes = MaxNodes) -> [st EXCEPT !.status = "RANGE"]
      [] OTHER -> FoldLeft(walk, [st EXCEPT !.nodes = @ + 1], [i \in DOMAIN Children(v) |-> i])
json_status(v) == validate_tree([status |-> "OK", nodes |-> 0], v, 0).status

-----------------------------------------------------------------------------
escaped(c) ==
    CASE c = "\"" -> <<"\\", "\"">> [] c = "\\" -> <<"\\", "\\">> [] c = "\n" -> <<"\\", "n">>
      [] c = "\t" -> <<"\\", "t">>  [] c \in Controls -> <<"\\", "u", c>>
      [] OTHER -> <<c>>
quoted_string(s) == <<"\"">> \o FlattenSeq([i \in DOMAIN s |-> escaped(s[i])]) \o <<"\"">>

ZeroDigits(n) == [i \in 1 .. n |-> "0"]
\* repr() of a float: fixed for exponents -4 to 15, else scientific.
json_float(v) ==
    LET d == v.digits
        e == v.exponent
        whole == e + 1 IN
    (IF v.negative THEN <<"-">> ELSE <<>>) \o
    CASE e < -4 \/ e >= 16 ->
            <<d[1]>> \o (IF Len(d) > 1 THEN <<".">> \o Tail(d) ELSE <<>>) \o <<"e", ToString(e)>>
      [] e \in 0 .. 15 ->
            [i \in 1 .. whole |-> IF i <= Len(d) THEN d[i] ELSE "0"] \o <<".">>
            \o (IF Len(d) > whole THEN SubSeq(d, whole + 1, Len(d)) ELSE <<"0">>)
      [] e \in -4 .. -1 -> <<"0", ".">> \o ZeroDigits(-(e + 1)) \o d

Joined(parts) ==
    FlattenSeq([i \in DOMAIN parts |-> (IF i > 1 THEN <<",", " ">> ELSE <<>>) \o parts[i]])
RECURSIVE json_value(_)
json_value(v) ==
    LET below == [i \in DOMAIN Children(v) |-> json_value(Children(v)[i])] IN
    CASE v.kind = "null" -> <<"null">>
      [] v.kind = "bool" -> IF v.is THEN <<"true">> ELSE <<"false">>
      [] v.kind = "int" -> <<v.integer>>
      [] v.kind = "float" -> json_float(v)
      [] v.kind = "string" -> quoted_string(v.text)
      [] v.kind = "array" -> <<"[">> \o Joined(below) \o <<"]">>
      [] v.kind = "object" ->
            <<"{">> \o Joined([i \in DOMAIN below |->
                                 quoted_string(v.items[i][1]) \o <<":", " ">> \o below[i]]) \o <<"}">>
===============================================================================
