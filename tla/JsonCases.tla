------------------------------- MODULE JsonCases -------------------------------
(***************************************************************************)
(* What JSON says of a text, to read what json_value writes.               *)
(***************************************************************************)
EXTENDS ToJson, FiniteSets

Digits == {"0", "1", "2", "3", "4", "5", "6", "7", "8", "9"}

\* A reader gives back what it read and what is left.
Read(v, rest) == [value |-> v, rest |-> rest]
From(s, n) == SubSeq(s, n, Len(s))

\* The characters up to the closing quote.
RECURSIVE ReadText(_)
ReadText(s) ==
  LET then(c, rest) == LET r == ReadText(rest) IN Read(<<c>> \o r.value, r.rest) IN
  CASE s[1] = "\"" -> Read(<<>>, Tail(s))
    [] s[1] = "\\" -> IF s[2] = "u" THEN then(s[3], From(s, 4))
                      ELSE then(CASE s[2] = "n" -> "\n" [] s[2] = "t" -> "\t" [] OTHER -> s[2], From(s, 3))
    [] OTHER -> then(s[1], Tail(s))

\* A decimal of whole and fraction digits and an exponent, normalized.
Normal(negative, whole, fraction, exponent) ==
  LET all == whole \o fraction
      solid == {i \in DOMAIN all : all[i] # "0"}
      first == CHOOSE i \in solid : \A j \in solid : i <= j
      last == CHOOSE i \in solid : \A j \in solid : i >= j IN
  IF solid = {} THEN Decimal(negative, <<"0">>, 0)
  ELSE Decimal(negative, SubSeq(all, first, last), exponent + Len(whole) - first)
DigitsEnd(s) == CHOOSE n \in 0 .. Len(s) : /\ \A i \in 1 .. n : s[i] \in Digits
                                           /\ n = Len(s) \/ s[n + 1] \notin Digits
\* Exponents in the range that is written.
ReadFloat(s) ==
  LET negative == s[1] = "-"
      t == IF negative THEN Tail(s) ELSE s
      w == DigitsEnd(t)
      pointed == w < Len(t) /\ t[w + 1] = "."
      f == IF pointed THEN DigitsEnd(From(t, w + 2)) ELSE 0
      n == IF pointed THEN w + 1 + f ELSE w
      scientific == n < Len(t) /\ t[n + 1] = "e"
      exponent == IF scientific THEN CHOOSE e \in -400 .. 400 : ToString(e) = t[n + 2] ELSE 0 IN
  Read(Normal(negative, SubSeq(t, 1, w), SubSeq(t, w + 2, w + 1 + f), exponent),
       From(t, IF scientific THEN n + 3 ELSE n + 1))
IsFloat(s) == s[1] = "-" \/ (s[1] \in Digits /\ Len(s) > 1 /\ s[2] \in Digits \union {".", "e"})

RECURSIVE ReadValue(_), ReadItems(_), ReadMembers(_)
ReadValue(s) ==
  CASE s[1] = "null" -> Read(Null, Tail(s))
    [] s[1] = "true" -> Read(Boolean(TRUE), Tail(s))
    [] s[1] = "false" -> Read(Boolean(FALSE), Tail(s))
    [] s[1] = "\"" -> LET r == ReadText(Tail(s)) IN Read(String(r.value), r.rest)
    [] s[1] = "[" -> IF s[2] = "]" THEN Read(Array(<<>>), From(s, 3))
                     ELSE LET r == ReadItems(Tail(s)) IN Read(Array(r.value), r.rest)
    [] s[1] = "{" -> IF s[2] = "}" THEN Read(Object(<<>>), From(s, 3))
                     ELSE LET r == ReadMembers(Tail(s)) IN Read(Object(r.value), r.rest)
    [] OTHER -> IF IsFloat(s) THEN ReadFloat(s) ELSE Read(Integer(s[1]), Tail(s))
ReadItems(s) ==
  LET first == ReadValue(s) IN
  IF first.rest[1] = "]" THEN Read(<<first.value>>, Tail(first.rest))
  ELSE LET r == ReadItems(From(first.rest, 3)) IN Read(<<first.value>> \o r.value, r.rest)
ReadMembers(s) ==
  LET key == ReadText(Tail(s))
      first == ReadValue(From(key.rest, 3)) IN
  IF first.rest[1] = "}" THEN Read(<<<<key.value, first.value>>>>, Tail(first.rest))
  ELSE LET r == ReadMembers(From(first.rest, 3))
       IN Read(<<<<key.value, first.value>>>> \o r.value, r.rest)

-----------------------------------------------------------------------------
(* What the limits are about.                                               *)

RECURSIVE Nodes(_), Depth(_), Unambiguous(_)
Nodes(v) == 1 + FoldLeft(LAMBDA n, c : n + Nodes(c), 0, Children(v))
Depth(v) == 1 + FoldLeft(LAMBDA n, c : IF Depth(c) > n THEN Depth(c) ELSE n, 0, Children(v))
Unambiguous(v) ==
  /\ v.kind = "object" => \A i, j \in DOMAIN v.items : v.items[i][1] = v.items[j][1] => i = j
  /\ \A i \in DOMAIN Children(v) : Unambiguous(Children(v)[i])

-----------------------------------------------------------------------------
(* The values a tool schema is grown from.                                  *)

Floats == {<<<<"1", "2", "3">>, e>> : e \in {-5, -4, -1, 0, 1, 2, 15, 16}}
          \union {<<<<"5">>, e>> : e \in {-4, 0, 15, 16}} \union {<<<<"0">>, 0>>}
Texts == {<<>>, <<"a">>, <<"\"", "\\">>, <<"u", "\n", "^A">>, <<"\\", "u">>}
Leaves == {Null, Boolean(TRUE), Boolean(FALSE), Array(<<>>), Object(<<>>)}
          \union {Integer(n) : n \in {"7", "17"}}
          \union {Decimal(s, f[1], f[2]) : s \in BOOLEAN, f \in Floats}
          \union {String(t) : t \in Texts}
Others == {Null, Integer("17"), String(<<"\"">>)}
Around(v) ==
  {Array(<<v>>)} \union {Array(<<v, o>>) : o \in Others} \union {Array(<<o, v>>) : o \in Others}
  \union {Object(<<<<k, v>>>>) : k \in {<<>>, <<"\"">>}}
  \union {Object(<<<<k, v>>, <<l, o>>>>) : k, l \in {<<>>, <<"\"">>}, o \in Others}
=============================================================================
