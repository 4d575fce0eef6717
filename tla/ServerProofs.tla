----------------------------- MODULE ServerProofs -----------------------------
(***************************************************************************)
(* Safety of the local chat server, for any number of clients, any prompts *)
(* and any limits.  What makes it work is a protocol nobody states: as     *)
(* long as the worker lives, the request pipe, the event pipe and the      *)
(* queue together hold exactly what is still to come of the one request    *)
(* whose client holds the mutex, and nothing once it has seen its end.     *)
(***************************************************************************)
EXTENDS Server, Facts

Text == Seq({"c", "?"})
Message == [prompt : Prompts] \union [prompt : Prompts, answer : Text]
Event == [event : {"ready", "reset", "error", "started", "done"}]
           \union [event : {"token"}, bytes : {"c", "h"}]
Asking == [kind : {"R", "G"}, messages : Seq(Message)]
Quit == [kind |-> "Q"]
Places == {"idle", "checked", "begin", "write", "wait", "show", "close", "release"}
Jobs == [kind : {"none", "R", "G"}, messages : Seq(Message), answer : Text, open : BOOLEAN,
         event : {"none", "started", "token", "end"}, left : BOOLEAN]
Workers == [phase : {"absent", "loading", "idle", "turn", "dead"}, messages : Seq(Message),
            tokens : 0 .. MaxNew, stopped : BOOLEAN]

Typed ==
    /\ state \in {"loading", "ready", "error"}
    /\ mutex \in Clients \union {Nobody}
    /\ active \in BOOLEAN /\ started \in BOOLEAN /\ cancel \in BOOLEAN
    /\ closing \in BOOLEAN
    /\ history \in Seq(Message) /\ events \in Seq(Event)
    /\ loader \in {"spawn", "reading", "dead", "done"}
    /\ pc \in [Clients -> Places] /\ job \in Jobs /\ worker \in Workers
    /\ stdin \in Seq({Quit} \union Asking) /\ stdout \in Seq(Event)

\* One client at a time is past the mutex.
Exclusive == \A c \in Clients : mutex = c <=> pc[c] \notin {"idle", "checked"}

\* What the holder of the mutex knows of its request, by where it stands.
At(places) == mutex # Nobody /\ pc[mutex] \in places
Holding ==
    /\ mutex = Nobody <=> job.kind = "none"
    /\ job.kind = "R" => At({"write", "wait", "release"})
    /\ active <=> job.kind = "G" /\ At({"write", "wait", "show", "close"})
    /\ started => active /\ job.event # "none"
    /\ At({"begin", "write"}) => job.event = "none"
    /\ At({"begin", "show"}) => job.kind = "G"
    /\ At({"wait"}) => job.event # "end"
    /\ At({"show"}) => job.event # "none"
    /\ At({"close"}) => job.event = "end"

\* The history is the chat, and a request for it goes on from it.
Chatting ==
    /\ history = transcript
    /\ job.kind = "G" /\ job.event # "end" =>
         \E p \in Prompts : job.messages = Append(history, [prompt |-> p])

\* Before the worker is ready nobody asks.
Booting ==
    /\ loader = "spawn" => worker.phase = "absent" /\ state = "loading" /\ stdout = <<>>
    /\ state = "loading" => \A c \in Clients : pc[c] = "idle"
    /\ worker.phase = "absent" => loader \in {"spawn", "done"} /\ state = "loading" /\ events = <<>> /\ stdin = <<>>
    /\ Alive => loader = "reading" /\ state # "error"

-----------------------------------------------------------------------------
(* The pipes of a live worker.                                              *)

\* What is still to be consumed of the worker's events.
Stream == events \o stdout

\* Nothing is asked; of what close sent, nothing has been read.
NoneAsked == stdin = IF closing THEN <<Quit>> ELSE <<>>
Asked ==
    LET r == [kind |-> job.kind, messages |-> job.messages] IN
    IF closing THEN stdin = <<Quit, r>> \/ stdin = <<r, Quit>> ELSE stdin = <<r>>

\* From the kth on: tokens, and the end if the worker is through with the turn.
Tokens(s, k, over) ==
    /\ \A i \in k .. Len(s) : s[i].event = IF i = Len(s) /\ over THEN "done" ELSE "token"
    /\ over => Len(s) >= k
Turning(k) == Tokens(Stream, k, worker.phase = "idle")

Only(e) == Len(Stream) = 1 /\ Stream[1].event = e

Loading ==
    /\ NoneAsked
    /\ \/ worker.phase = "loading" /\ Stream = <<>>
       \/ worker.phase = "idle" /\ Only("ready")
Quiet == worker.phase = "idle" /\ NoneAsked /\ Stream = <<>>
Waiting == worker.phase = "idle" /\ Asked /\ Stream = <<>>
Answered ==
    /\ worker.phase = "idle" /\ NoneAsked
    /\ Only(IF job.kind = "R" THEN "reset" ELSE "error")
Running ==
    /\ job.kind = "G" /\ worker.phase \in {"idle", "turn"} /\ NoneAsked
    /\ worker.phase = "turn" => worker.messages = job.messages
    /\ job.event = "none" => Len(Stream) > 0 /\ Stream[1].event = "started" /\ Turning(2)
    /\ job.event # "none" => started /\ Turning(1)

\* The client expects an event.
Expecting == At({"wait", "show"}) /\ job.event # "end"
Piped ==
    Alive =>
      IF state = "loading" THEN Loading
      ELSE IF ~Expecting THEN Quiet
      ELSE Running \/ (job.event = "none" /\ (Waiting \/ Answered))

IInv == /\ Typed /\ Exclusive /\ Holding /\ Chatting /\ Booting /\ Piped
        /\ StopHitsItsTurn
-----------------------------------------------------------------------------
(* Sequences.                                                               *)

\* The loader moves a line from the pipe to the queue: what is to come stays the same.
LEMMA StreamMoves ==
  ASSUME NEW S, NEW a \in Seq(S), NEW b \in Seq(S), b # <<>>
  PROVE  Append(a, Head(b)) \o Tail(b) = a \o b
<1>1. /\ Head(b) \in S /\ Tail(b) \in Seq(S) /\ Len(Tail(b)) = Len(b) - 1
      /\ \A i \in 1 .. Len(Tail(b)) : Tail(b)[i] = b[i + 1]
      /\ Head(b) = b[1]
  BY HeadTailProperties
<1>2. Len(a) \in Nat /\ Len(b) \in Nat /\ Len(b) # 0
  BY LenProperties, EmptySeq
<1> DEFINE c == Append(a, Head(b))
<1>3. /\ c \in Seq(S) /\ Len(c) = Len(a) + 1
      /\ \A i \in 1 .. Len(a) : c[i] = a[i]
      /\ c[Len(a) + 1] = Head(b)
  BY <1>1, AppendProperties
<1> HIDE DEF c
<1>4. /\ c \o Tail(b) \in Seq(S) /\ Len(c \o Tail(b)) = Len(c) + Len(Tail(b))
      /\ \A i \in 1 .. Len(c) + Len(Tail(b)) :
           (c \o Tail(b))[i] = IF i <= Len(c) THEN c[i] ELSE Tail(b)[i - Len(c)]
  BY <1>1, <1>3, ConcatProperties
<1>5. /\ a \o b \in Seq(S) /\ Len(a \o b) = Len(a) + Len(b)
      /\ \A i \in 1 .. Len(a) + Len(b) : (a \o b)[i] = IF i <= Len(a) THEN a[i] ELSE b[i - Len(a)]
  BY ConcatProperties
<1>6. Len(c \o Tail(b)) = Len(a \o b)
  BY <1>1, <1>2, <1>3, <1>4, <1>5
<1>7. ASSUME NEW i \in 1 .. Len(a \o b) PROVE (c \o Tail(b))[i] = (a \o b)[i]
  <2>1. CASE i <= Len(a)
    BY <2>1, <1>1, <1>2, <1>3, <1>4, <1>5
  <2>2. CASE i = Len(a) + 1
    BY <2>2, <1>1, <1>2, <1>3, <1>4, <1>5
  <2>3. CASE i > Len(a) + 1
    <3>1. /\ i \in Nat /\ i - Len(c) \in 1 .. Len(Tail(b)) /\ (i - Len(c)) + 1 = i - Len(a)
          /\ ~(i <= Len(c)) /\ ~(i <= Len(a)) /\ i \in 1 .. Len(c) + Len(Tail(b))
          /\ i \in 1 .. Len(a) + Len(b)
      BY <2>3, <1>1, <1>2, <1>3, <1>5
    <3>2. (c \o Tail(b))[i] = Tail(b)[i - Len(c)]
      BY <3>1, <1>4
    <3>3. Tail(b)[i - Len(c)] = b[(i - Len(c)) + 1]
      BY <3>1, <1>1
    <3>4. (a \o b)[i] = b[i - Len(a)]
      BY <3>1, <1>5
    <3> QED
      BY <3>1, <3>2, <3>3, <3>4
  <2>4. Len(a \o b) \in Nat
    BY <1>5, LenProperties
  <2>5. i \in Int /\ Len(a) \in Int
    BY <1>2, <2>4
  <2>6. i <= Len(a) \/ i = Len(a) + 1 \/ i > Len(a) + 1
    BY <2>5
  <2> QED
    BY <2>1, <2>2, <2>3, <2>6
<1> QED
  BY <1>4, <1>5, <1>6, <1>7, SeqEqual DEF c

\* The worker writes a line: it comes last.
LEMMA StreamGrows ==
  ASSUME NEW S, NEW a \in Seq(S), NEW b \in Seq(S), NEW e \in S
  PROVE  a \o Append(b, e) = Append(a \o b, e)
<1>1. <<e>> \in Seq(S)
  OBVIOUS
<1>2. Append(b, e) = b \o <<e>>
  BY AppendIsConcat
<1>3. a \o b \in Seq(S)
  BY ConcatProperties
<1>4. Append(a \o b, e) = (a \o b) \o <<e>>
  BY <1>3, AppendIsConcat
<1>5. (a \o b) \o <<e>> = a \o (b \o <<e>>)
  BY <1>1, ConcatAssociative
<1> QED
  BY <1>2, <1>4, <1>5

\* A client takes an event: it was the first.
LEMMA StreamTaken ==
  ASSUME NEW S, NEW a \in Seq(S), NEW b \in Seq(S), a # <<>>
  PROVE  /\ Tail(a) \o b = Tail(a \o b) /\ a \o b # <<>>
         /\ Head(a) = (a \o b)[1]
<1>1. /\ Tail(a) \in Seq(S) /\ Len(Tail(a)) = Len(a) - 1 /\ Head(a) = a[1]
      /\ \A i \in 1 .. Len(Tail(a)) : Tail(a)[i] = a[i + 1]
  BY HeadTailProperties
<1>2. Len(a) \in Nat /\ Len(b) \in Nat /\ Len(a) # 0
  BY LenProperties, EmptySeq
<1>3. /\ a \o b \in Seq(S) /\ Len(a \o b) = Len(a) + Len(b)
      /\ \A i \in 1 .. Len(a) + Len(b) : (a \o b)[i] = IF i <= Len(a) THEN a[i] ELSE b[i - Len(a)]
  BY ConcatProperties
<1>4. a \o b # <<>>
  BY <1>2, <1>3, EmptySeq
<1>5. /\ Tail(a \o b) \in Seq(S) /\ Len(Tail(a \o b)) = Len(a \o b) - 1
      /\ \A i \in 1 .. Len(Tail(a \o b)) : Tail(a \o b)[i] = (a \o b)[i + 1]
  BY <1>3, <1>4, HeadTailProperties
<1>6. /\ Tail(a) \o b \in Seq(S) /\ Len(Tail(a) \o b) = Len(Tail(a)) + Len(b)
      /\ \A i \in 1 .. Len(Tail(a)) + Len(b) :
           (Tail(a) \o b)[i] = IF i <= Len(Tail(a)) THEN Tail(a)[i] ELSE b[i - Len(Tail(a))]
  BY <1>1, ConcatProperties
<1>7. Len(Tail(a) \o b) = Len(Tail(a \o b))
  BY <1>1, <1>2, <1>3, <1>5, <1>6
<1>8. ASSUME NEW i \in 1 .. Len(Tail(a) \o b) PROVE (Tail(a) \o b)[i] = Tail(a \o b)[i]
  <2>1. /\ i \in Nat /\ i \in 1 .. Len(Tail(a)) + Len(b) /\ i \in 1 .. Len(Tail(a \o b))
        /\ i + 1 \in 1 .. Len(a) + Len(b)
        /\ i <= Len(Tail(a)) <=> i + 1 <= Len(a)
        /\ i <= Len(Tail(a)) => i \in 1 .. Len(Tail(a))
        /\ i - Len(Tail(a)) = (i + 1) - Len(a)
    BY <1>1, <1>2, <1>3, <1>5, <1>6, <1>7
  <2> QED
    BY <2>1, <1>1, <1>3, <1>5, <1>6
<1>9. Head(a) = (a \o b)[1]
  BY <1>1, <1>2, <1>3
<1> QED
  BY <1>4, <1>5, <1>6, <1>7, <1>8, <1>9, SeqEqual

\* A sequence of one.
LEMMA OneElement ==
  ASSUME NEW S, NEW e \in S
  PROVE  /\ Append(<<>>, e) = <<e>> /\ <<e>> \in Seq(S) /\ <<e>> # <<>>
         /\ Len(<<e>>) = 1 /\ <<e>>[1] = e /\ Head(<<e>>) = e /\ Tail(<<e>>) = <<>>
  OBVIOUS

\* A sequence of two.
LEMMA TwoElements ==
  ASSUME NEW d, NEW e
  PROVE  /\ Append(<<d>>, e) = <<d, e>> /\ <<d, e>> # <<>>
         /\ Head(<<d, e>>) = d /\ Tail(<<d, e>>) = <<e>>
<1> DEFINE S == {d, e}
<1>2. /\ <<d, e>> \in Seq(S) /\ <<e>> \in Seq(S) /\ Len(<<d, e>>) = 2 /\ Len(<<e>>) = 1
      /\ <<d, e>>[1] = d /\ <<d, e>>[2] = e /\ <<e>>[1] = e
      /\ <<d>> \in Seq(S) /\ Len(<<d>>) = 1 /\ <<d>>[1] = d
  OBVIOUS
<1>a. /\ Append(<<d>>, e) \in Seq(S) /\ Len(Append(<<d>>, e)) = 2
      /\ Append(<<d>>, e)[1] = d /\ Append(<<d>>, e)[2] = e
  <2>1. /\ Append(<<d>>, e) \in Seq(S) /\ Len(Append(<<d>>, e)) = 1 + 1
        /\ \A i \in 1 .. 1 : Append(<<d>>, e)[i] = <<d>>[i] /\ Append(<<d>>, e)[1 + 1] = e
    BY <1>2, AppendProperties
  <2> QED
    BY <2>1, <1>2
<1>b. Append(<<d>>, e) = <<d, e>>
  <2>1. \A i \in 1 .. 2 : i = 1 \/ i = 2
    OBVIOUS
  <2> QED
    BY <2>1, <1>2, <1>a, SeqEqual
<1>c. <<d, e>> # <<>> /\ Head(<<d, e>>) = d
  <2>1. <<d, e>> # <<>>
    BY <1>2, EmptySeq
  <2> QED
    BY <2>1, <1>2
<1>1. Append(<<d>>, e) = <<d, e>> /\ <<d, e>> # <<>> /\ Head(<<d, e>>) = d
  BY <1>b, <1>c
<1>3. /\ Tail(<<d, e>>) \in Seq(S) /\ Len(Tail(<<d, e>>)) = 1
      /\ \A i \in 1 .. 1 : Tail(<<d, e>>)[i] = <<d, e>>[i + 1]
  BY <1>1, <1>2, HeadTailProperties
<1>4. Tail(<<d, e>>) = <<e>>
  BY <1>2, <1>3, SeqEqual
<1> QED
  BY <1>1, <1>4

\* The last of one.
LEMMA TailOfOne ==
  ASSUME NEW S, NEW s \in Seq(S), Len(s) = 1
  PROVE  s # <<>> /\ Tail(s) = <<>>
<1>1. s # <<>>
  BY EmptySeq
<1>2. Tail(s) \in Seq(S) /\ Len(Tail(s)) = 0
  BY <1>1, HeadTailProperties
<1> QED
  BY <1>1, <1>2, EmptySeq

\* A turn's events, as the worker adds to them and a client takes them.
LEMMA TokensGrow ==
  ASSUME NEW s \in Seq(Event), NEW k \in {1, 2}, Tokens(s, k, FALSE), Len(s) + 1 >= k
  PROVE  /\ \A b \in {"c", "h"} : Tokens(Append(s, [event |-> "token", bytes |-> b]), k, FALSE)
         /\ Tokens(Append(s, [event |-> "done"]), k, TRUE)
<1>1. /\ \A b \in {"c", "h"} : [event |-> "token", bytes |-> b] \in Event
      /\ [event |-> "done"] \in Event
  BY DEF Event
<1>2. Len(s) \in Nat
  BY LenProperties
<1>3. ASSUME NEW e \in Event
      PROVE  /\ Len(Append(s, e)) = Len(s) + 1 /\ Append(s, e)[Len(s) + 1] = e
             /\ \A i \in 1 .. Len(s) : Append(s, e)[i] = s[i]
  BY AppendProperties
<1>4. ASSUME NEW b \in {"c", "h"}
      PROVE  Tokens(Append(s, [event |-> "token", bytes |-> b]), k, FALSE)
  BY <1>1, <1>2, <1>3 DEF Tokens
<1>5. Tokens(Append(s, [event |-> "done"]), k, TRUE)
  BY <1>1, <1>2, <1>3 DEF Tokens
<1> QED
  BY <1>4, <1>5

\* What a client finds at the head of a turn's events, and what it leaves.
LEMMA TokensTaken ==
  ASSUME NEW s \in Seq(Event), s # <<>>, NEW over \in BOOLEAN
  PROVE  /\ Tokens(s, 2, over) => Tokens(Tail(s), 1, over)
         /\ Tokens(s, 1, over) =>
              /\ s[1].event \in {"token", "done"}
              /\ s[1].event = "token" => Tokens(Tail(s), 1, over)
              /\ s[1].event = "done" => over /\ Tail(s) = <<>>
<1>1. Len(s) \in Nat \ {0}
  BY LenProperties, EmptySeq
<1>2. /\ Len(Tail(s)) = Len(s) - 1
      /\ \A i \in 1 .. Len(Tail(s)) : Tail(s)[i] = s[i + 1]
  BY HeadTailProperties
<1>3. Tokens(s, 2, over) => Tokens(Tail(s), 1, over)
  <2>1. SUFFICES ASSUME Tokens(s, 2, over) PROVE Tokens(Tail(s), 1, over)
    OBVIOUS
  <2>2. ASSUME NEW i \in 1 .. Len(Tail(s))
        PROVE  Tail(s)[i].event = IF i = Len(Tail(s)) /\ over THEN "done" ELSE "token"
    <3>1. i + 1 \in 2 .. Len(s) /\ (i = Len(Tail(s)) <=> i + 1 = Len(s))
      BY <1>1, <1>2
    <3> QED
      BY <2>1, <3>1, <1>2 DEF Tokens
  <2>3. over => Len(Tail(s)) >= 1
    <3>1. over => Len(s) >= 2
      BY <2>1 DEF Tokens
    <3> QED
      BY <3>1, <1>1, <1>2
  <2> QED
    BY <2>2, <2>3 DEF Tokens
<1>4. ASSUME Tokens(s, 1, over)
      PROVE  /\ s[1].event \in {"token", "done"}
             /\ s[1].event = "token" => Tokens(Tail(s), 1, over)
             /\ s[1].event = "done" => over /\ Tail(s) = <<>>
  <2>1. 1 \in 1 .. Len(s)
    BY <1>1
  <2>2. s[1].event = IF 1 = Len(s) /\ over THEN "done" ELSE "token"
    BY <1>4, <2>1 DEF Tokens
  <2>3. s[1].event = "done" => over /\ Tail(s) = <<>>
    BY <2>2, TailOfOne
  <2>4. ASSUME s[1].event = "token" PROVE Tokens(Tail(s), 1, over)
    <3>1. ~(1 = Len(s) /\ over)
      BY <2>2, <2>4
    <3>2. ASSUME NEW i \in 1 .. Len(Tail(s))
          PROVE  Tail(s)[i].event = IF i = Len(Tail(s)) /\ over THEN "done" ELSE "token"
      <4>1. i + 1 \in 1 .. Len(s) /\ (i = Len(Tail(s)) <=> i + 1 = Len(s))
        BY <1>1, <1>2
      <4> QED
        BY <1>4, <4>1, <1>2 DEF Tokens
    <3>3. over => Len(Tail(s)) >= 1
      BY <3>1, <1>1, <1>2
    <3> QED
      BY <3>2, <3>3 DEF Tokens
  <2> QED
    BY <2>2, <2>3, <2>4
<1> QED
  BY <1>3, <1>4

-----------------------------------------------------------------------------
(* Types, the mutex, what its holder knows, and the chat.                   *)

\* Every step keeps the types; the history stays a list of exchanges.
LEMMA TypedStep ==
  ASSUME Typed, Exclusive, Holding, Chatting, [Next]_vars
  PROVE  Typed'
<1> USE ServerAssumption
<1>1. \A S : <<>> \in Seq(S)
  OBVIOUS
<1>2. \A S : \A s \in Seq(S), e \in S : Append(s, e) \in Seq(S)
  BY AppendProperties
<1>3. \A S : \A s \in Seq(S) : s # <<>> => Head(s) \in S /\ Tail(s) \in Seq(S)
  BY HeadTailProperties
<1>4. /\ \A k \in {"ready", "reset", "error", "started", "done"} : [event |-> k] \in Event
      /\ \A b \in {"c", "h"} : [event |-> "token", bytes |-> b] \in Event
      /\ \A e \in Event : e.event = "token" => e.bytes \in {"c", "h"}
  BY DEF Event
<1>5. /\ NoJob \in Jobs /\ [NoJob EXCEPT !.kind = "R"] \in Jobs
      /\ \A m \in Seq(Message) : [NoJob EXCEPT !.kind = "G", !.messages = m] \in Jobs
      /\ \A j \in Jobs :
           /\ [j EXCEPT !.event = "started"] \in Jobs /\ [j EXCEPT !.event = "end"] \in Jobs
           /\ [j EXCEPT !.left = TRUE] \in Jobs
           /\ \A t \in Text, b \in BOOLEAN :
                /\ [j EXCEPT !.event = "token", !.answer = t, !.open = b] \in Jobs
                /\ [j EXCEPT !.event = "end", !.answer = t, !.open = b] \in Jobs
  <2>1. NoJob \in Jobs /\ [NoJob EXCEPT !.kind = "R"] \in Jobs
    BY <1>1 DEF NoJob, Text, Jobs
  <2>2. \A m \in Seq(Message) : [NoJob EXCEPT !.kind = "G", !.messages = m] \in Jobs
    BY <1>1 DEF NoJob, Text, Jobs
  <2> QED
    BY <2>1, <2>2 DEF Jobs
<1>6. /\ Exited \in Workers
      /\ \A w \in Workers :
           /\ [w EXCEPT !.phase = "idle"] \in Workers /\ [w EXCEPT !.phase = "loading"] \in Workers
           /\ [w EXCEPT !.stopped = TRUE] \in Workers
           /\ w.tokens < MaxNew => [w EXCEPT !.tokens = @ + 1] \in Workers
           /\ [w EXCEPT !.phase = "idle", !.messages = <<>>, !.tokens = 0] \in Workers
      /\ \A m \in Seq(Message) :
           [phase |-> "turn", messages |-> m, tokens |-> 0, stopped |-> FALSE] \in Workers
  <2>1. MaxNew \in Nat /\ 0 \in 0 .. MaxNew
    OBVIOUS
  <2>2. Exited \in Workers
    BY <1>1, <2>1 DEF Exited, Workers
  <2>3. \A w \in Workers :
           /\ [w EXCEPT !.phase = "idle"] \in Workers /\ [w EXCEPT !.phase = "loading"] \in Workers
           /\ [w EXCEPT !.stopped = TRUE] \in Workers
    BY DEF Workers
  <2>4. \A w \in Workers : w.tokens < MaxNew => [w EXCEPT !.tokens = @ + 1] \in Workers
    BY <2>1 DEF Workers
  <2>5. \A w \in Workers :
          [w EXCEPT !.phase = "idle", !.messages = <<>>, !.tokens = 0] \in Workers
    BY <1>1, <2>1 DEF Workers
  <2>6. \A m \in Seq(Message) :
           [phase |-> "turn", messages |-> m, tokens |-> 0, stopped |-> FALSE] \in Workers
    BY <2>1 DEF Workers
  <2> QED
    BY <2>2, <2>3, <2>4, <2>5, <2>6
<1>7. /\ \A p \in Prompts : [prompt |-> p] \in Message
      /\ \A p \in Prompts, t \in Text : [prompt |-> p, answer |-> t] \in Message
      /\ \A m \in Message : m.prompt \in Prompts
  BY DEF Message
<1>8. /\ Quit \in {Quit} \union Asking
      /\ \A k \in {"R", "G"}, m \in Seq(Message) :
           [kind |-> k, messages |-> m] \in {Quit} \union Asking
      /\ \A r \in {Quit} \union Asking : r.kind # "Q" => r \in Asking
      /\ \A r \in Asking : r.messages \in Seq(Message)
  BY DEF Asking, Quit
<1>9. Signalled \in Workers
  BY <1>6 DEF Typed, Signalled
<1>10. \A c \in Clients : \A p \in Places : [pc EXCEPT ![c] = p] \in [Clients -> Places]
  BY DEF Typed
<1>11. {"idle", "checked", "begin", "write", "wait", "show", "close", "release"} \subseteq Places
  BY DEF Places
<1>12. \A c \in Clients : c \in Clients \union {Nobody}
  OBVIOUS
<1>14. /\ <<>> \in Text /\ <<"?">> \in Text
       /\ \A t \in Text : Append(t, "c") \in Text
       /\ \A t, u \in Text : t \o u \in Text
  BY <1>1, <1>2, ConcatProperties DEF Text
<1>15. job.answer \in Text /\ job.messages \in Seq(Message) /\ job.kind \in {"none", "R", "G"}
  BY DEF Typed, Jobs
<1>13. Nobody \in Clients \union {Nobody}
  OBVIOUS
<1>worker_ready. ASSUME worker_ready PROVE Typed'
  BY <1>worker_ready, <1>2, <1>4, <1>6 DEF worker_ready, Typed, server, Says

<1>session_request. ASSUME session_request PROVE Typed'
  <2>1. /\ Head(stdin) \in {Quit} \union Asking /\ Tail(stdin) \in Seq({Quit} \union Asking)
        /\ \A k \in {"reset", "error", "started"} : Append(stdout, [event |-> k]) \in Seq(Event)
    BY <1>session_request, <1>2, <1>3, <1>4 DEF session_request, Typed
  <2>2. Head(stdin).kind = "G" => Serving(Head(stdin)) \in Workers
    BY <2>1, <1>6, <1>8 DEF Serving
  <2> QED
    BY <1>session_request, <1>6, <2>1, <2>2 DEF session_request, Typed, server, Says, Served

<1>worker_token. ASSUME worker_token PROVE Typed'
  <2>1. \A b \in {"c", "h"} : Append(stdout, [event |-> "token", bytes |-> b]) \in Seq(Event)
    BY <1>2, <1>4 DEF Typed
  <2> QED
    BY <1>worker_token, <1>6, <2>1 DEF worker_token, Typed, server, Says

<1>worker_done. ASSUME worker_done PROVE Typed'
  <2>1. Append(stdout, [event |-> "done"]) \in Seq(Event)
    BY <1>2, <1>4 DEF Typed
  <2> QED
    BY <1>worker_done, <1>6, <2>1 DEF worker_done, Typed, server, Says

<1>worker_dies. ASSUME worker_dies PROVE Typed'
  BY <1>worker_dies, <1>1, <1>6 DEF worker_dies, Typed, server

<1>spawn. ASSUME spawn PROVE Typed'
  BY <1>spawn, <1>6 DEF spawn, Typed, server

<1>load_line. ASSUME load_line PROVE Typed'
  <2>1. /\ Tail(stdout) \in Seq(Event) /\ Append(events, Head(stdout)) \in Seq(Event)
    BY <1>load_line, <1>2, <1>3 DEF load_line, Typed
  <2> QED
    BY <1>load_line, <2>1 DEF load_line, Typed

<1>load_exit. ASSUME load_exit PROVE Typed'
  BY <1>load_exit, <1>10, <1>11, <1>12, <1>13 DEF load_exit, Typed, vars, server
<1>load_error. ASSUME load_error PROVE Typed'
  <2>1. Append(events, [event |-> "error"]) \in Seq(Event)
    BY <1>2, <1>4 DEF Typed
  <2> QED
    BY <1>load_error, <2>1 DEF load_error, Typed, server, Final, Farewell

<1>press_stop. ASSUME press_stop PROVE Typed'
  BY <1>press_stop, <1>9 DEF press_stop, Typed, Stopping

<1>close. ASSUME close PROVE Typed'
  <2>1. Append(stdin, Quit) \in Seq({Quit} \union Asking)
    BY <1>2, <1>8 DEF Typed
  <2> QED
    BY <1>close, <1>9, <2>1 DEF close, Typed, Stopping, Quit

<1>check_state. ASSUME NEW c \in Clients, check_state(c) PROVE Typed'
  BY <1>check_state, <1>10, <1>11, <1>12, <1>13 DEF check_state, Typed, vars, server
<1>acquire. ASSUME NEW c \in Clients, acquire(c) PROVE Typed'
  <2>1. \A p \in Prompts : Append(history, [prompt |-> p]) \in Seq(Message)
    BY <1>2, <1>7 DEF Typed
  <2>2. ASSUME NEW p \in Prompts PROVE
          [NoJob EXCEPT !.kind = "G", !.messages = Append(history, [prompt |-> p])] \in Jobs
    BY <1>5, <2>1
  <2>3. job' \in Jobs
    <3>1. CASE job' = [NoJob EXCEPT !.kind = "R"]
      BY <3>1, <1>5
    <3>2. CASE \E p \in Prompts : job' =
                 [NoJob EXCEPT !.kind = "G", !.messages = Append(history, [prompt |-> p])]
      BY <3>2, <2>2
    <3>3. CASE UNCHANGED job
      BY <3>3 DEF Typed
    <3> QED
      BY <1>acquire, <3>1, <3>2, <3>3 DEF acquire
  <2>4. mutex' \in Clients \union {Nobody}
    BY <1>acquire DEF acquire, Typed
  <2>5. pc' \in [Clients -> Places]
    BY <1>acquire, <1>10, <1>11 DEF acquire, Typed
  <2> QED
    BY <1>acquire, <2>3, <2>4, <2>5 DEF acquire, Typed

<1>begin_generate. ASSUME NEW c \in Clients, begin_generate(c) PROVE Typed'
  BY <1>begin_generate, <1>10, <1>11, <1>12, <1>13 DEF begin_generate, Typed, vars, server
<1>write_request. ASSUME NEW c \in Clients, write_request(c) PROVE Typed'
  <2>1. job.kind \in {"R", "G"}
    <3>1. mutex = c
      BY <1>write_request DEF write_request, Exclusive
    <3> QED
      BY <3>1, <1>15 DEF Holding
  <2>2. Append(stdin, [kind |-> job.kind, messages |-> job.messages]) \in Seq({Quit} \union Asking)
    BY <2>1, <1>2, <1>8, <1>15 DEF Typed
  <2> QED
    BY <1>write_request, <2>2, <1>10, <1>11 DEF write_request, Typed, server

<1>write_fails. ASSUME NEW c \in Clients, write_fails(c) PROVE Typed'
  BY <1>write_fails, <1>10, <1>11, <1>12, <1>13 DEF write_fails, Typed, vars, server
<1>take_started. ASSUME NEW c \in Clients, take_started(c) PROVE Typed'
  <2>1. Tail(events) \in Seq(Event)
    BY <1>take_started, <1>3 DEF take_started, Take, Typed
  <2> QED
    BY <1>take_started, <1>5, <1>9, <1>10, <1>11, <2>1 DEF take_started, Take, OnStart, Typed

<1>take_token. ASSUME NEW c \in Clients, take_token(c) PROVE Typed'
  <2>1. Tail(events) \in Seq(Event)
    BY <1>take_token, <1>3 DEF take_token, Take, Typed
  <2>2. /\ Head(events) \in Event /\ Head(events).bytes \in {"c", "h"}
    BY <1>take_token, <1>3, <1>4 DEF take_token, Take, Typed
  <2>3. Decoded(Head(events).bytes) \in Text
    BY <1>14 DEF Decoded, Broken
  <2>4. job.answer \o Decoded(Head(events).bytes) \in Text
    BY <2>3, <1>14, <1>15
  <2> QED
    BY <1>take_token, <1>5, <1>10, <1>11, <2>1, <2>4 DEF take_token, Take, Typed, server

<1>take_done. ASSUME NEW c \in Clients, take_done(c) PROVE Typed'
  <2>1. Tail(events) \in Seq(Event)
    BY <1>take_done, <1>3 DEF take_done, Take, Typed
  <2>2. Answer \in Text
    BY <1>14, <1>15 DEF Broken, Answer
  <2>3. Exchange(Answer) \in Message
    <3>1. pc[c] = "wait" /\ job.kind = "G" /\ job.event # "end"
      BY <1>take_done DEF take_done, Take, Holding, Exclusive, At, Typed
    <3>2. PICK p \in Prompts : job.messages = Append(history, [prompt |-> p])
      BY <3>1 DEF Chatting
    <3>3. job.messages # <<>> /\ job.messages \in Seq(Message)
      BY <3>2, <1>7, AppendProperties DEF Typed
    <3>4. Len(job.messages) \in 1 .. Len(job.messages)
      BY <3>3, EmptySeq
    <3>5. job.messages[Len(job.messages)] \in Message
      BY <3>3, <3>4, ElementOfSeq
    <3> QED
      BY <2>2, <3>5, <1>7 DEF Exchange
  <2>4. Append(history, Exchange(Answer)) \in Seq(Message)
    BY <2>3, <1>2 DEF Typed
  <2> QED
    BY <1>take_done, <1>5, <1>10, <1>11, <2>1, <2>2, <2>4 DEF take_done, Take, Remembered, Typed

<1>take_error. ASSUME NEW c \in Clients, take_error(c) PROVE Typed'
  <2>1. Tail(events) \in Seq(Event)
    BY <1>take_error, <1>3 DEF take_error, Take, Typed
  <2> QED
    BY <1>take_error, <1>5, <1>10, <1>11, <2>1 DEF take_error, Take, Typed, server

<1>show. ASSUME NEW c \in Clients, show(c) PROVE Typed'
  BY <1>show, <1>10, <1>11 DEF show, Typed, server, Resumed

<1>show_fails. ASSUME NEW c \in Clients, show_fails(c) PROVE Typed'
  BY <1>show_fails, <1>5, <1>9, <1>10, <1>11 DEF show_fails, Typed, Stopping, Next_after_loss,
     AfterLoss, Resumed

<1>end_generate. ASSUME NEW c \in Clients, end_generate(c) PROVE Typed'
  BY <1>end_generate, <1>10, <1>11, <1>12, <1>13 DEF end_generate, Typed, vars, server
<1>take_reset. ASSUME NEW c \in Clients, take_reset(c) PROVE Typed'
  <2>1. Tail(events) \in Seq(Event)
    BY <1>take_reset, <1>3 DEF take_reset, Typed
  <2>2. history' \in Seq(Message)
    BY <1>take_reset, <1>1 DEF take_reset, Typed
  <2> QED
    BY <1>take_reset, <1>10, <1>11, <2>1, <2>2 DEF take_reset, Typed

<1>release. ASSUME NEW c \in Clients, release(c) PROVE Typed'
  BY <1>release, <1>5, <1>10, <1>11, <1>13 DEF release, Typed

<1>still. ASSUME UNCHANGED vars PROVE Typed'
  BY <1>still, <1>10, <1>11, <1>12, <1>13 DEF  Typed, vars, server
<1> QED
  BY <1>worker_ready, <1>session_request, <1>worker_token, <1>worker_done, <1>worker_dies, <1>spawn,
     <1>load_line, <1>load_exit, <1>load_error, <1>press_stop, <1>close, <1>check_state, <1>acquire,
     <1>begin_generate, <1>write_request, <1>write_fails, <1>take_started, <1>take_token,
     <1>take_done, <1>take_error, <1>show, <1>show_fails, <1>end_generate, <1>take_reset,
     <1>release, <1>still DEF Next, Worker, Loader, Served_by

\* Every step keeps one client past the mutex.
LEMMA ExclusiveStep ==
  ASSUME Typed, Exclusive, [Next]_vars
  PROVE  Exclusive'
<1> USE ServerAssumption
<1>1. pc \in [Clients -> Places] /\ mutex \in Clients \union {Nobody}
  BY DEF Typed
<1>worker_ready. ASSUME worker_ready PROVE Exclusive'
  BY <1>worker_ready, <1>1 DEF worker_ready, Exclusive, vars, server

<1>session_request. ASSUME session_request PROVE Exclusive'
  BY <1>session_request, <1>1 DEF session_request, Exclusive, vars, server

<1>worker_token. ASSUME worker_token PROVE Exclusive'
  BY <1>worker_token, <1>1 DEF worker_token, Exclusive, vars, server

<1>worker_done. ASSUME worker_done PROVE Exclusive'
  BY <1>worker_done, <1>1 DEF worker_done, Exclusive, vars, server

<1>worker_dies. ASSUME worker_dies PROVE Exclusive'
  BY <1>worker_dies, <1>1 DEF worker_dies, Exclusive, vars, server

<1>spawn. ASSUME spawn PROVE Exclusive'
  BY <1>spawn, <1>1 DEF spawn, Exclusive, vars, server

<1>load_line. ASSUME load_line PROVE Exclusive'
  BY <1>load_line, <1>1 DEF load_line, Exclusive, vars, server

<1>load_exit. ASSUME load_exit PROVE Exclusive'
  BY <1>load_exit, <1>1 DEF load_exit, Exclusive, vars, server

<1>load_error. ASSUME load_error PROVE Exclusive'
  BY <1>load_error, <1>1 DEF load_error, Exclusive, vars, server

<1>press_stop. ASSUME press_stop PROVE Exclusive'
  BY <1>press_stop, <1>1 DEF press_stop, Exclusive, vars, server

<1>close. ASSUME close PROVE Exclusive'
  BY <1>close, <1>1 DEF close, Exclusive, vars, server

<1>check_state. ASSUME NEW c \in Clients, check_state(c) PROVE Exclusive'
  BY <1>check_state, <1>1 DEF check_state, Exclusive, vars, server

<1>acquire. ASSUME NEW c \in Clients, acquire(c) PROVE Exclusive'
  <2>1. CASE mutex # Nobody /\ pc' = [pc EXCEPT ![c] = "idle"] /\ mutex' = mutex
    BY <1>acquire, <2>1, <1>1 DEF acquire, Exclusive
  <2>2. CASE mutex = Nobody /\ mutex' = c /\ \E p \in {"write", "begin", "release"} : pc' = [pc EXCEPT ![c] = p]
    BY <2>2, <1>1 DEF Exclusive
  <2>3. mutex = Nobody => \E p \in {"write", "begin", "release"} : pc' = [pc EXCEPT ![c] = p]
    BY <1>acquire DEF acquire
  <2> QED
    BY <1>acquire, <2>1, <2>2, <2>3 DEF acquire

<1>begin_generate. ASSUME NEW c \in Clients, begin_generate(c) PROVE Exclusive'
  BY <1>begin_generate, <1>1 DEF begin_generate, Exclusive, vars, server

<1>write_request. ASSUME NEW c \in Clients, write_request(c) PROVE Exclusive'
  BY <1>write_request, <1>1 DEF write_request, Exclusive, vars, server

<1>write_fails. ASSUME NEW c \in Clients, write_fails(c) PROVE Exclusive'
  BY <1>write_fails, <1>1 DEF write_fails, Exclusive, vars, server

<1>take_started. ASSUME NEW c \in Clients, take_started(c) PROVE Exclusive'
  BY <1>take_started, <1>1 DEF take_started, Take, Exclusive, server

<1>take_token. ASSUME NEW c \in Clients, take_token(c) PROVE Exclusive'
  BY <1>take_token, <1>1 DEF take_token, Take, Exclusive, server

<1>take_done. ASSUME NEW c \in Clients, take_done(c) PROVE Exclusive'
  BY <1>take_done, <1>1 DEF take_done, Take, Exclusive, server

<1>take_error. ASSUME NEW c \in Clients, take_error(c) PROVE Exclusive'
  BY <1>take_error, <1>1 DEF take_error, Take, Exclusive, server

<1>show. ASSUME NEW c \in Clients, show(c) PROVE Exclusive'
  BY <1>show, <1>1 DEF show, Exclusive, server, Resumed

<1>show_fails. ASSUME NEW c \in Clients, show_fails(c) PROVE Exclusive'
  BY <1>show_fails, <1>1 DEF show_fails, Exclusive, Resumed, Next_after_loss, AfterLoss

<1>end_generate. ASSUME NEW c \in Clients, end_generate(c) PROVE Exclusive'
  BY <1>end_generate, <1>1 DEF end_generate, Exclusive, vars, server

<1>take_reset. ASSUME NEW c \in Clients, take_reset(c) PROVE Exclusive'
  BY <1>take_reset, <1>1 DEF take_reset, Exclusive, vars, server

<1>release. ASSUME NEW c \in Clients, release(c) PROVE Exclusive'
  BY <1>release, <1>1 DEF release, Exclusive, vars, server

<1>still. ASSUME UNCHANGED vars PROVE Exclusive'
  BY <1>still, <1>1 DEF  Exclusive, vars, server

<1> QED
  BY <1>worker_ready, <1>session_request, <1>worker_token, <1>worker_done, <1>worker_dies, <1>spawn,
     <1>load_line, <1>load_exit, <1>load_error, <1>press_stop, <1>close, <1>check_state, <1>acquire,
     <1>begin_generate, <1>write_request, <1>write_fails, <1>take_started, <1>take_token,
     <1>take_done, <1>take_error, <1>show, <1>show_fails, <1>end_generate, <1>take_reset,
     <1>release, <1>still DEF Next, Worker, Loader, Served_by

\* Every step keeps what the holder of the mutex knows of its request.
LEMMA HoldingStep ==
  ASSUME Typed, Exclusive, Holding, [Next]_vars
  PROVE  Holding'
<1> USE ServerAssumption
<1>1. /\ pc \in [Clients -> Places] /\ mutex \in Clients \union {Nobody} /\ job \in Jobs
      /\ active \in BOOLEAN /\ started \in BOOLEAN /\ cancel \in BOOLEAN
  BY DEF Typed
<1>2. \A c \in Clients : pc[c] \notin {"idle", "checked"} => mutex = c /\ mutex # Nobody
  BY DEF Exclusive
<1>3. /\ DOMAIN job = {"kind", "messages", "answer", "open", "event", "left"}
      /\ job.kind \in {"none", "R", "G"}
      /\ \A t, b : LET j == [job EXCEPT !.event = "token", !.answer = t, !.open = b]
                       k == [job EXCEPT !.event = "end", !.answer = t, !.open = b] IN
            j.kind = job.kind /\ j.event = "token" /\ k.kind = job.kind /\ k.event = "end"
      /\ LET j == [job EXCEPT !.event = "started"]
             k == [job EXCEPT !.event = "end"]
             l == [job EXCEPT !.left = TRUE] IN
            /\ j.kind = job.kind /\ j.event = "started" /\ k.kind = job.kind /\ k.event = "end"
            /\ l.kind = job.kind /\ l.event = job.event
  BY <1>1 DEF Jobs
<1>4. /\ NoJob.kind = "none" /\ NoJob.event = "none"
      /\ [NoJob EXCEPT !.kind = "R"].kind = "R" /\ [NoJob EXCEPT !.kind = "R"].event = "none"
      /\ \A m : LET j == [NoJob EXCEPT !.kind = "G", !.messages = m] IN
            j.kind = "G" /\ j.event = "none"
  BY DEF NoJob
<1>worker_ready. ASSUME worker_ready PROVE Holding'
  BY <1>worker_ready, <1>1 DEF worker_ready, Holding, At, server, Stopping

<1>session_request. ASSUME session_request PROVE Holding'
  BY <1>session_request, <1>1 DEF session_request, Holding, At, server, Stopping

<1>worker_token. ASSUME worker_token PROVE Holding'
  BY <1>worker_token, <1>1 DEF worker_token, Holding, At, server, Stopping

<1>worker_done. ASSUME worker_done PROVE Holding'
  BY <1>worker_done, <1>1 DEF worker_done, Holding, At, server, Stopping

<1>worker_dies. ASSUME worker_dies PROVE Holding'
  BY <1>worker_dies, <1>1 DEF worker_dies, Holding, At, server, Stopping

<1>spawn. ASSUME spawn PROVE Holding'
  BY <1>spawn, <1>1 DEF spawn, Holding, At, server, Stopping

<1>load_line. ASSUME load_line PROVE Holding'
  BY <1>load_line, <1>1 DEF load_line, Holding, At, server, Stopping

<1>load_exit. ASSUME load_exit PROVE Holding'
  BY <1>load_exit, <1>1 DEF load_exit, Holding, At, server, Stopping

<1>load_error. ASSUME load_error PROVE Holding'
  BY <1>load_error, <1>1 DEF load_error, Holding, At, server, Stopping

<1>press_stop. ASSUME press_stop PROVE Holding'
  BY <1>press_stop, <1>1 DEF press_stop, Holding, At, server, Stopping

<1>close. ASSUME close PROVE Holding'
  BY <1>close, <1>1 DEF close, Holding, At, server, Stopping

<1>check_state. ASSUME NEW c \in Clients, check_state(c) PROVE Holding'
  BY <1>check_state, <1>1, <1>2 DEF check_state, Holding, At, server

<1>acquire. ASSUME NEW c \in Clients, acquire(c) PROVE Holding'
  <2>1. CASE mutex # Nobody /\ pc' = [pc EXCEPT ![c] = "idle"] /\ mutex' = mutex /\ job' = job
    BY <1>acquire, <2>1, <1>1, <1>2 DEF acquire, Holding, At
  <2>2. CASE /\ mutex = Nobody /\ mutex' = c /\ pc' = [pc EXCEPT ![c] = "write"]
             /\ job' = [NoJob EXCEPT !.kind = "R"]
    BY <1>acquire, <2>2, <1>1, <1>4 DEF acquire, Holding, At
  <2>3. CASE /\ mutex = Nobody /\ mutex' = c
             /\ \E p \in {"release", "begin"} : pc' = [pc EXCEPT ![c] = p]
             /\ job'.kind = "G" /\ job'.event = "none"
    BY <1>acquire, <2>3, <1>1 DEF acquire, Holding, At
  <2>4. ASSUME NEW p \in Prompts,
               job' = [NoJob EXCEPT !.kind = "G", !.messages = Append(history, [prompt |-> p])]
        PROVE  job'.kind = "G" /\ job'.event = "none"
    BY <2>4, <1>4
  <2> QED
    BY <1>acquire, <2>1, <2>2, <2>3, <2>4 DEF acquire

<1>begin_generate. ASSUME NEW c \in Clients, begin_generate(c) PROVE Holding'
  BY <1>begin_generate, <1>1, <1>2, <1>3, <1>4 DEF begin_generate, Holding, At, server

<1>write_request. ASSUME NEW c \in Clients, write_request(c) PROVE Holding'
  BY <1>write_request, <1>1, <1>2, <1>3, <1>4 DEF write_request, Holding, At, server

<1>write_fails. ASSUME NEW c \in Clients, write_fails(c) PROVE Holding'
  BY <1>write_fails, <1>1, <1>2, <1>3, <1>4 DEF write_fails, Holding, At, server

<1>take_started. ASSUME NEW c \in Clients, take_started(c) PROVE Holding'
  BY <1>take_started, <1>1, <1>2, <1>3, <1>4 DEF take_started, Holding, At, server, Take

<1>take_token. ASSUME NEW c \in Clients, take_token(c) PROVE Holding'
  BY <1>take_token, <1>1, <1>2, <1>3, <1>4 DEF take_token, Holding, At, server, Take

<1>take_done. ASSUME NEW c \in Clients, take_done(c) PROVE Holding'
  BY <1>take_done, <1>1, <1>2, <1>3, <1>4 DEF take_done, Holding, At, server, Take

<1>take_error. ASSUME NEW c \in Clients, take_error(c) PROVE Holding'
  BY <1>take_error, <1>1, <1>2, <1>3, <1>4 DEF take_error, Holding, At, server, Take

<1>show. ASSUME NEW c \in Clients, show(c) PROVE Holding'
  BY <1>show, <1>1, <1>2, <1>3, <1>4 DEF show, Holding, At, server, Resumed

<1>show_fails. ASSUME NEW c \in Clients, show_fails(c) PROVE Holding'
  BY <1>show_fails, <1>1, <1>2, <1>3, <1>4 DEF show_fails, Holding, At, server, Resumed,
     Next_after_loss, AfterLoss, Stopping

<1>end_generate. ASSUME NEW c \in Clients, end_generate(c) PROVE Holding'
  BY <1>end_generate, <1>1, <1>2, <1>3, <1>4 DEF end_generate, Holding, At, server

<1>take_reset. ASSUME NEW c \in Clients, take_reset(c) PROVE Holding'
  BY <1>take_reset, <1>1, <1>2, <1>3, <1>4 DEF take_reset, Holding, At, server

<1>release. ASSUME NEW c \in Clients, release(c) PROVE Holding'
  BY <1>release, <1>1, <1>2, <1>3, <1>4 DEF release, Holding, At, server

<1>still. ASSUME UNCHANGED vars PROVE Holding'
  BY <1>still DEF Holding, At, vars, server

<1> QED
  BY <1>worker_ready, <1>session_request, <1>worker_token, <1>worker_done, <1>worker_dies, <1>spawn,
     <1>load_line, <1>load_exit, <1>load_error, <1>press_stop, <1>close, <1>check_state, <1>acquire,
     <1>begin_generate, <1>write_request, <1>write_fails, <1>take_started, <1>take_token,
     <1>take_done, <1>take_error, <1>show, <1>show_fails, <1>end_generate, <1>take_reset,
     <1>release, <1>still DEF Next, Worker, Loader, Served_by

\* Every step keeps the history the chat, and a request its continuation.
LEMMA ChattingStep ==
  ASSUME Typed, Exclusive, Holding, Chatting, [Next]_vars
  PROVE  Chatting'
<1> USE ServerAssumption
<1>1. /\ pc \in [Clients -> Places] /\ mutex \in Clients \union {Nobody} /\ job \in Jobs
      /\ active \in BOOLEAN /\ started \in BOOLEAN /\ cancel \in BOOLEAN
  BY DEF Typed
<1>2. \A c \in Clients : pc[c] \notin {"idle", "checked"} => mutex = c /\ mutex # Nobody
  BY DEF Exclusive
<1>3. /\ DOMAIN job = {"kind", "messages", "answer", "open", "event", "left"}
      /\ job.kind \in {"none", "R", "G"}
      /\ \A t, b : LET j == [job EXCEPT !.event = "token", !.answer = t, !.open = b]
                       k == [job EXCEPT !.event = "end", !.answer = t, !.open = b] IN
            j.kind = job.kind /\ j.event = "token" /\ k.kind = job.kind /\ k.event = "end"
      /\ LET j == [job EXCEPT !.event = "started"]
             k == [job EXCEPT !.event = "end"]
             l == [job EXCEPT !.left = TRUE] IN
            /\ j.kind = job.kind /\ j.event = "started" /\ k.kind = job.kind /\ k.event = "end"
            /\ l.kind = job.kind /\ l.event = job.event
  BY <1>1 DEF Jobs
<1>4. /\ NoJob.kind = "none" /\ [NoJob EXCEPT !.kind = "R"].kind = "R"
      /\ \A m : LET j == [NoJob EXCEPT !.kind = "G", !.messages = m] IN j.messages = m
  BY DEF NoJob
<1>5. /\ [job EXCEPT !.event = "started"].messages = job.messages
      /\ [job EXCEPT !.left = TRUE].messages = job.messages
      /\ \A t, b : [job EXCEPT !.event = "token", !.answer = t, !.open = b].messages = job.messages
  BY <1>1 DEF Jobs
<1>worker_ready. ASSUME worker_ready PROVE Chatting'
  BY <1>worker_ready DEF worker_ready, Chatting, vars, server, Stopping

<1>session_request. ASSUME session_request PROVE Chatting'
  BY <1>session_request DEF session_request, Chatting, vars, server, Stopping

<1>worker_token. ASSUME worker_token PROVE Chatting'
  BY <1>worker_token DEF worker_token, Chatting, vars, server, Stopping

<1>worker_done. ASSUME worker_done PROVE Chatting'
  BY <1>worker_done DEF worker_done, Chatting, vars, server, Stopping

<1>worker_dies. ASSUME worker_dies PROVE Chatting'
  BY <1>worker_dies DEF worker_dies, Chatting, vars, server, Stopping

<1>spawn. ASSUME spawn PROVE Chatting'
  BY <1>spawn DEF spawn, Chatting, vars, server, Stopping

<1>load_line. ASSUME load_line PROVE Chatting'
  BY <1>load_line DEF load_line, Chatting, vars, server, Stopping

<1>load_exit. ASSUME load_exit PROVE Chatting'
  BY <1>load_exit DEF load_exit, Chatting, vars, server, Stopping

<1>load_error. ASSUME load_error PROVE Chatting'
  BY <1>load_error DEF load_error, Chatting, vars, server, Stopping

<1>press_stop. ASSUME press_stop PROVE Chatting'
  BY <1>press_stop DEF press_stop, Chatting, vars, server, Stopping

<1>close. ASSUME close PROVE Chatting'
  BY <1>close DEF close, Chatting, vars, server, Stopping

<1>check_state. ASSUME NEW c \in Clients, check_state(c) PROVE Chatting'
  BY <1>check_state DEF check_state, Chatting, vars, server, Stopping

<1>acquire. ASSUME NEW c \in Clients, acquire(c) PROVE Chatting'
  <2>1. history' = history /\ transcript' = transcript
    BY <1>acquire DEF acquire
  <2>2. CASE UNCHANGED job
    BY <2>1, <2>2 DEF Chatting
  <2>3. CASE job' = [NoJob EXCEPT !.kind = "R"]
    BY <2>1, <2>3, <1>4 DEF Chatting
  <2>4. CASE \E p \in Prompts :
               job' = [NoJob EXCEPT !.kind = "G", !.messages = Append(history, [prompt |-> p])]
    BY <2>1, <2>4, <1>4 DEF Chatting
  <2> QED
    BY <1>acquire, <2>2, <2>3, <2>4 DEF acquire

<1>begin_generate. ASSUME NEW c \in Clients, begin_generate(c) PROVE Chatting'
  BY <1>begin_generate DEF begin_generate, Chatting, vars, server, Stopping

<1>write_request. ASSUME NEW c \in Clients, write_request(c) PROVE Chatting'
  BY <1>write_request DEF write_request, Chatting, vars, server, Stopping

<1>write_fails. ASSUME NEW c \in Clients, write_fails(c) PROVE Chatting'
  BY <1>write_fails DEF write_fails, Chatting

<1>take_started. ASSUME NEW c \in Clients, take_started(c) PROVE Chatting'
  <2>1. job.kind = "G" /\ job.event # "end"
    <3>1. mutex = c /\ mutex # Nobody /\ pc[c] = "wait" /\ job.kind = "G"
      BY <1>take_started, <1>2 DEF take_started, Take
    <3> QED
      BY <3>1 DEF Holding, At
  <2>2. job'.messages = job.messages
    BY <1>take_started, <1>5 DEF take_started
  <2>3. history' = history /\ transcript' = transcript
    BY <1>take_started DEF take_started, server
  <2> QED
    BY <2>1, <2>2, <2>3 DEF Chatting

<1>take_token. ASSUME NEW c \in Clients, take_token(c) PROVE Chatting'
  <2>1. job.kind = "G" /\ job.event # "end"
    <3>1. mutex = c /\ mutex # Nobody /\ pc[c] = "wait" /\ job.kind = "G"
      BY <1>take_token, <1>2 DEF take_token, Take
    <3> QED
      BY <3>1 DEF Holding, At
  <2>2. job'.messages = job.messages
    BY <1>take_token, <1>5 DEF take_token
  <2>3. history' = history /\ transcript' = transcript
    BY <1>take_token DEF take_token, server
  <2> QED
    BY <2>1, <2>2, <2>3 DEF Chatting

<1>take_done. ASSUME NEW c \in Clients, take_done(c) PROVE Chatting'
  <2>1. job'.event = "end"
    BY <1>take_done, <1>3 DEF take_done
  <2>2. history' = transcript'
    BY <1>take_done DEF take_done, Remembered, Chatting
  <2> QED
    BY <2>1, <2>2 DEF Chatting

<1>take_error. ASSUME NEW c \in Clients, take_error(c) PROVE Chatting'
  BY <1>take_error, <1>3 DEF take_error, Take, Chatting, server

<1>show. ASSUME NEW c \in Clients, show(c) PROVE Chatting'
  BY <1>show DEF show, Chatting, vars, server, Stopping

<1>show_fails. ASSUME NEW c \in Clients, show_fails(c) PROVE Chatting'
  BY <1>show_fails, <1>3, <1>5 DEF show_fails, Chatting

<1>end_generate. ASSUME NEW c \in Clients, end_generate(c) PROVE Chatting'
  BY <1>end_generate DEF end_generate, Chatting, vars, server, Stopping

<1>take_reset. ASSUME NEW c \in Clients, take_reset(c) PROVE Chatting'
  <2>1. job'.kind = "R"
    BY <1>take_reset DEF take_reset
  <2> QED
    BY <1>take_reset, <2>1 DEF take_reset, Chatting

<1>release. ASSUME NEW c \in Clients, release(c) PROVE Chatting'
  BY <1>release, <1>4 DEF release, Chatting

<1>still. ASSUME UNCHANGED vars PROVE Chatting'
  BY <1>still DEF  Chatting, vars, server, Stopping

<1> QED
  BY <1>worker_ready, <1>session_request, <1>worker_token, <1>worker_done, <1>worker_dies, <1>spawn,
     <1>load_line, <1>load_exit, <1>load_error, <1>press_stop, <1>close, <1>check_state, <1>acquire,
     <1>begin_generate, <1>write_request, <1>write_fails, <1>take_started, <1>take_token,
     <1>take_done, <1>take_error, <1>show, <1>show_fails, <1>end_generate, <1>take_reset,
     <1>release, <1>still DEF Next, Worker, Loader, Served_by

\* Every step keeps the order of the start: worker, line reader, clients.
LEMMA BootingStep ==
  ASSUME Typed, Booting, [Next]_vars
  PROVE  Booting'
<1> USE ServerAssumption
<1>1. /\ pc \in [Clients -> Places] /\ worker \in Workers /\ state \in {"loading", "ready", "error"}
      /\ loader \in {"spawn", "reading", "dead", "done"}
  BY DEF Typed
<1>2. /\ worker.phase \in {"absent", "loading", "idle", "turn", "dead"}
      /\ \A k : [worker EXCEPT !.phase = k].phase = k
      /\ [worker EXCEPT !.stopped = TRUE].phase = worker.phase
      /\ [worker EXCEPT !.tokens = @ + 1].phase = worker.phase
      /\ [worker EXCEPT !.phase = "idle", !.messages = <<>>, !.tokens = 0].phase = "idle"
  BY <1>1 DEF Workers
<1>3. Exited.phase = "dead" /\ \A r : Serving(r).phase = "turn"
  BY DEF Exited, Serving
<1>4. Signalled.phase = worker.phase
  BY <1>2 DEF Signalled
<1>worker_ready. ASSUME worker_ready PROVE Booting'
  BY <1>worker_ready, <1>1, <1>2, <1>3, <1>4 DEF worker_ready, Booting, Alive, server, Says

<1>session_request. ASSUME session_request PROVE Booting'
  BY <1>session_request, <1>1, <1>2, <1>3, <1>4 DEF session_request, Booting, Alive, server,
     Served, Says

<1>worker_token. ASSUME worker_token PROVE Booting'
  BY <1>worker_token, <1>1, <1>2, <1>3, <1>4 DEF worker_token, Booting, Alive, server, Says

<1>worker_done. ASSUME worker_done PROVE Booting'
  BY <1>worker_done, <1>1, <1>2, <1>3, <1>4 DEF worker_done, Booting, Alive, server, Says

<1>worker_dies. ASSUME worker_dies PROVE Booting'
  BY <1>worker_dies, <1>1, <1>2, <1>3, <1>4 DEF worker_dies, Booting, Alive, server, vars, Stopping

<1>spawn. ASSUME spawn PROVE Booting'
  BY <1>spawn, <1>1, <1>2, <1>3, <1>4 DEF spawn, Booting, Alive, server, vars, Stopping

<1>load_line. ASSUME load_line PROVE Booting'
  BY <1>load_line, <1>1, <1>2, <1>3, <1>4 DEF load_line, Booting, Alive, server

<1>load_exit. ASSUME load_exit PROVE Booting'
  BY <1>load_exit, <1>1, <1>2, <1>3, <1>4 DEF load_exit, Booting, Alive, server, vars, Stopping

<1>load_error. ASSUME load_error PROVE Booting'
  BY <1>load_error, <1>1, <1>2, <1>3, <1>4 DEF load_error, Booting, Alive, server, vars, Stopping

<1>press_stop. ASSUME press_stop PROVE Booting'
  BY <1>press_stop, <1>1, <1>2, <1>3, <1>4 DEF press_stop, Booting, Alive, server, vars, Stopping

<1>close. ASSUME close PROVE Booting'
  BY <1>close, <1>1, <1>2, <1>3, <1>4 DEF close, Booting, Alive, server, vars, Stopping

<1>check_state. ASSUME NEW c \in Clients, check_state(c) PROVE Booting'
  BY <1>check_state, <1>1, <1>2, <1>3, <1>4 DEF check_state, Booting, Alive, server, vars, Stopping

<1>acquire. ASSUME NEW c \in Clients, acquire(c) PROVE Booting'
  BY <1>acquire, <1>1, <1>2, <1>3, <1>4 DEF acquire, Booting, Alive, server, vars, Stopping

<1>begin_generate. ASSUME NEW c \in Clients, begin_generate(c) PROVE Booting'
  BY <1>begin_generate, <1>1, <1>2, <1>3, <1>4 DEF begin_generate, Booting, Alive, server, vars,
     Stopping

<1>write_request. ASSUME NEW c \in Clients, write_request(c) PROVE Booting'
  BY <1>write_request, <1>1, <1>2, <1>3, <1>4 DEF write_request, Booting, Alive, server, vars,
     Stopping

<1>write_fails. ASSUME NEW c \in Clients, write_fails(c) PROVE Booting'
  BY <1>write_fails, <1>1, <1>2, <1>3, <1>4 DEF write_fails, Booting, Alive, server, vars, Stopping

<1>take_started. ASSUME NEW c \in Clients, take_started(c) PROVE Booting'
  BY <1>take_started, <1>1, <1>2, <1>3, <1>4 DEF take_started, Booting, Alive, server, Take, OnStart

<1>take_token. ASSUME NEW c \in Clients, take_token(c) PROVE Booting'
  BY <1>take_token, <1>1, <1>2, <1>3, <1>4 DEF take_token, Booting, Alive, server, Take, OnStart

<1>take_done. ASSUME NEW c \in Clients, take_done(c) PROVE Booting'
  BY <1>take_done, <1>1, <1>2, <1>3, <1>4 DEF take_done, Booting, Alive, server, Take, OnStart

<1>take_error. ASSUME NEW c \in Clients, take_error(c) PROVE Booting'
  BY <1>take_error, <1>1, <1>2, <1>3, <1>4 DEF take_error, Booting, Alive, server, Take, OnStart

<1>show. ASSUME NEW c \in Clients, show(c) PROVE Booting'
  BY <1>show, <1>1, <1>2, <1>3, <1>4 DEF show, Booting, Alive, server, vars, Stopping

<1>show_fails. ASSUME NEW c \in Clients, show_fails(c) PROVE Booting'
  BY <1>show_fails, <1>1, <1>2, <1>3, <1>4 DEF show_fails, Booting, Alive, server, vars, Stopping

<1>end_generate. ASSUME NEW c \in Clients, end_generate(c) PROVE Booting'
  BY <1>end_generate, <1>1, <1>2, <1>3, <1>4 DEF end_generate, Booting, Alive, server, vars,
     Stopping

<1>take_reset. ASSUME NEW c \in Clients, take_reset(c) PROVE Booting'
  BY <1>take_reset, <1>1, <1>2, <1>3, <1>4 DEF take_reset, Booting, Alive, server, vars, Stopping

<1>release. ASSUME NEW c \in Clients, release(c) PROVE Booting'
  BY <1>release, <1>1, <1>2, <1>3, <1>4 DEF release, Booting, Alive, server, vars, Stopping

<1>still. ASSUME UNCHANGED vars PROVE Booting'
  BY <1>still, <1>1, <1>2, <1>3, <1>4 DEF  Booting, Alive, server, vars, Stopping

<1> QED
  BY <1>worker_ready, <1>session_request, <1>worker_token, <1>worker_done, <1>worker_dies, <1>spawn,
     <1>load_line, <1>load_exit, <1>load_error, <1>press_stop, <1>close, <1>check_state, <1>acquire,
     <1>begin_generate, <1>write_request, <1>write_fails, <1>take_started, <1>take_token,
     <1>take_done, <1>take_error, <1>show, <1>show_fails, <1>end_generate, <1>take_reset,
     <1>release, <1>still DEF Next, Worker, Loader, Served_by

-----------------------------------------------------------------------------
(* The pipes and the stop flag.                                             *)

\* Every step keeps in the pipes exactly what is to come of the request.
LEMMA PipedStep ==
  ASSUME IInv, [Next]_vars
  PROVE  Piped'
<1> USE ServerAssumption
<1>1. /\ pc \in [Clients -> Places] /\ worker \in Workers /\ job \in Jobs
      /\ mutex \in Clients \union {Nobody} /\ events \in Seq(Event) /\ stdout \in Seq(Event)
      /\ started \in BOOLEAN /\ closing \in BOOLEAN
  BY DEF IInv, Typed
<1>2. \A c \in Clients : pc[c] \notin {"idle", "checked"} => mutex = c /\ mutex # Nobody
  BY DEF IInv, Exclusive
<1>3. Signalled.phase = worker.phase /\ Signalled.messages = worker.messages
  BY <1>1 DEF Signalled, Workers
<1>4. /\ Stream \in Seq(Event) /\ Len(Stream) \in Nat
      /\ UNCHANGED <<events, stdout>> => Stream' = Stream
  BY <1>1, ConcatProperties, LenProperties DEF Stream
<1>5. ASSUME NEW e \in Event, events' = events, Says(e)
      PROVE  Stream' = Append(Stream, e)
  BY <1>1, <1>5, StreamGrows DEF Stream, Says
<1>6. ASSUME events # <<>>, events' = Tail(events), stdout' = stdout
      PROVE  Stream' = Tail(Stream) /\ Stream # <<>> /\ Head(events) = Stream[1]
  BY <1>1, <1>6, StreamTaken DEF Stream
<1>7. ASSUME NEW c \in Clients, pc[c] = "wait"
      PROVE  Expecting /\ state # "loading" /\ mutex = c /\ mutex # Nobody
  BY <1>7, <1>2 DEF Expecting, At, Holding, IInv, Booting
<1>8. Alive => worker.phase \in {"loading", "idle", "turn"}
  BY DEF Alive
<1>worker_ready. ASSUME worker_ready PROVE Piped'
  <2>1. state = "loading" /\ Loading /\ Stream = <<>>
    BY <1>worker_ready DEF worker_ready, IInv, Piped, Alive, Loading, Quiet, Waiting, Answered,
       Running
  <2>2. [event |-> "ready"] \in Event
    BY DEF Event
  <2>3. Stream' = <<[event |-> "ready"]>>
    BY <1>worker_ready, <1>5, <2>1, <2>2, OneElement DEF worker_ready
  <2>4. worker'.phase = "idle" /\ Only("ready")'
    BY <1>worker_ready, <1>1, <2>3 DEF worker_ready, Workers, Only
  <2> QED
    BY <1>worker_ready, <2>1, <2>4 DEF worker_ready, server, Piped, Loading, NoneAsked

<1>session_request. ASSUME session_request PROVE Piped'
  <2> DEFINE r == [kind |-> job.kind, messages |-> job.messages]
  <2>1. CASE Head(stdin).kind = "Q"
    BY <1>session_request, <2>1 DEF session_request, Piped, Alive, Exited
  <2>2. CASE Head(stdin).kind # "Q"
    <3>1. ~NoneAsked /\ Head(stdin) # Quit
      <4>1. Head(stdin) # Quit
        BY <2>2 DEF Quit
      <4> QED
        BY <1>session_request, <4>1 DEF session_request, NoneAsked
    <3>2. state # "loading" /\ Expecting /\ Waiting /\ job.event = "none"
      BY <1>session_request, <3>1 DEF session_request, IInv, Piped, Alive, Loading, Quiet,
         Waiting, Answered, Running
    <3>3. Head(stdin) = r /\ NoneAsked'
      <4>1. \A d, e : Head(<<d, e>>) = d /\ Tail(<<d, e>>) = <<e>>
        BY TwoElements
      <4>2. \A e : Head(<<e>>) = e /\ Tail(<<e>>) = <<>>
        BY OneElement
      <4>3. closing' = closing /\ stdin' = Tail(stdin)
        BY <1>session_request DEF session_request, server
      <4> QED
        BY <3>1, <3>2, <4>1, <4>2, <4>3 DEF Waiting, Asked, NoneAsked
    <3>4. Head(stdin).kind = job.kind /\ Head(stdin).messages = job.messages
      BY <3>3
    <3>5. Expecting' /\ state' # "loading" /\ job' = job /\ events' = events
      BY <1>session_request, <3>2 DEF session_request, server, Expecting, At
    <3>6. \A k \in {"reset", "error", "started"} : [event |-> k] \in Event
      BY DEF Event
    <3>7. ASSUME NEW k \in {"reset", "error", "started"}, Says([event |-> k])
          PROVE  Stream' = <<[event |-> k]>>
      BY <3>2, <3>5, <3>6, <3>7, <1>5, OneElement DEF Waiting
    <3>8. CASE job.kind = "R"
      <4>1. worker' = worker /\ Says([event |-> "reset"])
        BY <1>session_request, <3>4, <3>8, <2>2 DEF session_request
      <4>2. Answered'
        BY <3>2, <3>3, <3>5, <3>7, <3>8, <4>1 DEF Answered, Only, Waiting
      <4> QED
        BY <3>2, <3>5, <4>2 DEF Piped
    <3>9. CASE job.kind = "G" /\ worker' = worker /\ Says([event |-> "error"])
      <4>2. Answered'
        BY <3>2, <3>3, <3>5, <3>7, <3>9 DEF Answered, Only, Waiting
      <4> QED
        BY <3>2, <3>5, <4>2 DEF Piped
    <3>10. CASE job.kind = "G" /\ worker' = Served(Head(stdin)) /\ Says([event |-> "started"])
      <4>1. worker'.phase = "turn" /\ worker'.messages = job.messages
        BY <3>4, <3>10 DEF Served, Serving
      <4>2. /\ Len(Stream') = 1 /\ Stream'[1].event = "started"
        BY <3>7, <3>10
      <4>3. Tokens(Stream', 2, FALSE)
        BY <4>2 DEF Tokens
      <4>4. (worker'.phase = "idle") = FALSE
        BY <4>1
      <4>5. Turning(2)'
        BY <4>3, <4>4 DEF Turning
      <4>6. Len(Stream') > 0
        BY <4>2
      <4>7. Running'
        BY <3>2, <3>3, <3>5, <3>10, <4>1, <4>2, <4>5, <4>6 DEF Running
      <4> QED
        BY <3>2, <3>5, <4>7 DEF Piped
    <3>11. job.kind \in {"R", "G"}
      BY <1>session_request, <2>2, <3>4 DEF session_request
    <3> QED
      BY <1>session_request, <2>2, <3>4, <3>8, <3>9, <3>10, <3>11 DEF session_request
  <2> QED
    BY <2>1, <2>2

<1>worker_token. ASSUME worker_token PROVE Piped'
  <2>1. /\ state # "loading" /\ Expecting /\ Running /\ Tokens(Stream, IF job.event = "none" THEN 2 ELSE 1, FALSE)
    BY <1>worker_token DEF worker_token, IInv, Piped, Alive, Loading, Quiet, Waiting, Answered,
       Running, Turning
  <2>2. PICK b \in {"c", "h"} : Says([event |-> "token", bytes |-> b])
    BY <1>worker_token DEF worker_token
  <2>3. [event |-> "token", bytes |-> b] \in Event
    BY DEF Event
  <2>4. Stream' = Append(Stream, [event |-> "token", bytes |-> b])
    BY <1>worker_token, <1>5, <2>2, <2>3 DEF worker_token, server
  <2>5. Len(Stream) + 1 >= IF job.event = "none" THEN 2 ELSE 1
    BY <1>4, <2>1 DEF Running
  <2>6. Tokens(Stream', IF job.event = "none" THEN 2 ELSE 1, FALSE)
    BY <1>4, <2>1, <2>4, <2>5, TokensGrow
  <2>7. worker'.phase = "turn" /\ worker'.messages = worker.messages /\ worker.phase = "turn"
    BY <1>worker_token, <1>1 DEF worker_token, Workers
  <2>8. job.event = "none" => Len(Stream') > 0 /\ Stream'[1] = Stream[1]
    BY <1>4, <2>1, <2>3, <2>4, AppendProperties DEF Running
  <2>9. Running'
    BY <1>worker_token, <2>1, <2>6, <2>7, <2>8 DEF worker_token, server, Running, NoneAsked, Turning
  <2>10. Expecting' /\ state' # "loading"
    BY <1>worker_token, <2>1 DEF worker_token, server, Expecting, At
  <2> QED
    BY <2>9, <2>10 DEF Piped

<1>worker_done. ASSUME worker_done PROVE Piped'
  <2>1. /\ state # "loading" /\ Expecting /\ Running /\ Tokens(Stream, IF job.event = "none" THEN 2 ELSE 1, FALSE)
    BY <1>worker_done DEF worker_done, IInv, Piped, Alive, Loading, Quiet, Waiting, Answered,
       Running, Turning
  <2>3. [event |-> "done"] \in Event
    BY DEF Event
  <2>4. Stream' = Append(Stream, [event |-> "done"])
    BY <1>worker_done, <1>5, <2>3 DEF worker_done, server
  <2>5. Len(Stream) + 1 >= IF job.event = "none" THEN 2 ELSE 1
    BY <1>4, <2>1 DEF Running
  <2>6. Tokens(Stream', IF job.event = "none" THEN 2 ELSE 1, TRUE)
    BY <1>4, <2>1, <2>4, <2>5, TokensGrow
  <2>7. worker'.phase = "idle"
    BY <1>worker_done, <1>1 DEF worker_done, Workers
  <2>8. job.event = "none" => Len(Stream') > 0 /\ Stream'[1] = Stream[1]
    BY <1>4, <2>1, <2>3, <2>4, AppendProperties DEF Running
  <2>9. Running'
    BY <1>worker_done, <2>1, <2>6, <2>7, <2>8 DEF worker_done, server, Running, NoneAsked, Turning
  <2>10. Expecting' /\ state' # "loading"
    BY <1>worker_done, <2>1 DEF worker_done, server, Expecting, At
  <2> QED
    BY <2>9, <2>10 DEF Piped

<1>worker_dies. ASSUME worker_dies PROVE Piped'
  BY <1>worker_dies DEF worker_dies, Piped, Alive, Exited

<1>spawn. ASSUME spawn PROVE Piped'
  <2>1. worker.phase = "absent" /\ state = "loading" /\ stdout = <<>> /\ events = <<>> /\ stdin = <<>>
    BY <1>spawn DEF spawn, IInv, Booting
  <2>2. Stream' = <<>>
    BY <1>spawn, <1>4, <2>1, ConcatEmptySeq DEF spawn, server, Stream
  <2>3. CASE closing /\ UNCHANGED worker
    BY <2>1, <2>3 DEF Piped, Alive
  <2>4. CASE ~closing /\ worker' = [worker EXCEPT !.phase = "loading"]
    <3>1. worker'.phase = "loading"
      BY <1>1, <2>4 DEF Workers
    <3> QED
      BY <1>spawn, <2>1, <2>2, <2>4, <3>1 DEF spawn, server, Piped, Loading, NoneAsked
  <2>5. CASE worker' = Exited
    BY <2>5 DEF Piped, Alive, Exited
  <2> QED
    BY <1>spawn, <2>3, <2>4, <2>5 DEF spawn

<1>load_line. ASSUME load_line PROVE Piped'
  <2>1. SUFFICES ASSUME Alive PROVE Piped'
    BY <1>load_line DEF load_line, Piped, Alive
  <2>2. CASE state = "loading"
    <3>1. Loading
      BY <2>1, <2>2 DEF IInv, Piped
    <3>2. Stream # <<>> /\ Len(Stream) = Len(events) + Len(stdout) /\ Len(stdout) # 0
          /\ Len(events) \in Nat /\ Len(stdout) \in Nat
      BY <1>load_line, <1>1, EmptySeq, ConcatProperties, LenProperties DEF load_line, Stream
    <3>3. worker.phase = "idle" /\ Only("ready") /\ NoneAsked
      BY <3>1, <3>2 DEF Loading
    <3>4. Len(events) = 0 /\ Len(stdout) = 1 /\ events = <<>>
      <4>1. Len(events) + Len(stdout) = 1
        BY <3>2, <3>3 DEF Only
      <4>2. \A i, j \in Nat : i + j = 1 /\ j # 0 => i = 0 /\ j = 1
        OBVIOUS
      <4>3. Len(events) = 0 /\ Len(stdout) = 1
        BY <4>1, <4>2, <3>2
      <4> QED
        BY <4>3, <1>1, EmptySeq
    <3>5. stdout[1] = Stream[1]
      BY <1>1, <3>4, ConcatEmptySeq DEF Stream
    <3>6. Head(stdout).event = "ready"
      BY <3>3, <3>5 DEF Only
    <3>7. state' = "ready" /\ events' = <<>> /\ stdout' = <<>>
      BY <1>load_line, <1>1, <3>4, <3>6, TailOfOne DEF load_line
    <3>8. Stream' = <<>>
      BY <3>7, ConcatEmptySeq, <1>1 DEF Stream
    <3>9. ~Expecting'
      BY <1>load_line, <2>2 DEF load_line, IInv, Booting, Expecting, At, Typed
    <3> QED
      BY <1>load_line, <3>3, <3>7, <3>8, <3>9 DEF load_line, Piped, Quiet, NoneAsked
  <2>3. CASE state # "loading"
    <3>1. Head(stdout).event # "ready"
      <4>1. /\ Len(events) + 1 \in 1 .. Len(Stream) /\ Stream[Len(events) + 1] = Head(stdout)
            /\ Len(Stream) \in Nat /\ Stream # <<>>
        <5>1. stdout # <<>> /\ Len(stdout) \in Nat /\ Len(stdout) # 0 /\ Len(events) \in Nat
          BY <1>load_line, <1>1, LenProperties, EmptySeq DEF load_line
        <5>2. /\ Len(Stream) = Len(events) + Len(stdout)
              /\ \A i \in 1 .. Len(events) + Len(stdout) :
                   Stream[i] = IF i <= Len(events) THEN events[i] ELSE stdout[i - Len(events)]
          BY <1>1, ConcatProperties DEF Stream
        <5>3. Stream[Len(events) + 1] = stdout[(Len(events) + 1) - Len(events)]
          BY <5>1, <5>2
        <5> QED
          BY <1>4, <5>1, <5>2, <5>3, EmptySeq
      <4>2. \A i \in 1 .. Len(Stream) : Stream[i].event # "ready"
        <5>1. Expecting /\ (Running \/ Answered)
          BY <2>1, <2>3, <4>1 DEF IInv, Piped, Quiet, Waiting
        <5>2. CASE Answered
          BY <5>2 DEF Answered, Only
        <5>3. CASE Running
          BY <5>3, <1>4 DEF Running, Turning, Tokens
        <5> QED
          BY <5>1, <5>2, <5>3
      <4> QED
        BY <4>1, <4>2
    <3>2. Stream' = Stream /\ state' = state
      BY <1>load_line, <3>1, <1>1, StreamMoves DEF load_line, Stream
    <3>3. Expecting' <=> Expecting
      BY <1>load_line DEF load_line, Expecting, At
    <3> QED
      BY <1>load_line, <2>1, <2>3, <3>2, <3>3 DEF load_line, IInv, Piped, Quiet, Waiting,
         Answered, Running,
         NoneAsked, Asked, Turning, Only, Alive
  <2> QED
    BY <2>2, <2>3

<1>load_exit. ASSUME load_exit PROVE Piped'
  BY <1>load_exit DEF load_exit, Piped, Alive

<1>load_error. ASSUME load_error PROVE Piped'
  BY <1>load_error DEF load_error, Piped, Alive, Booting, IInv, server

<1>press_stop. ASSUME press_stop PROVE Piped'
  <2>1. /\ worker'.phase = worker.phase /\ worker'.messages = worker.messages
        /\ Stream' = Stream /\ state' = state
    BY <1>press_stop, <1>3, <1>4 DEF press_stop, Stopping, server, vars
  <2>2. (Expecting' <=> Expecting) /\ (job'.event = job.event) /\ job'.kind = job.kind
        /\ job'.messages = job.messages
    BY <1>press_stop, <1>1, <1>2 DEF press_stop, server, vars, Expecting, At, Stopping, Jobs,
       Resumed, Next_after_loss, AfterLoss
  <2> QED
    BY <1>press_stop, <2>1, <2>2 DEF press_stop, server, vars, IInv, Piped, Loading, Quiet,
       Waiting, Answered, Running,
       NoneAsked, Asked, Turning, Only, Alive

<1>close. ASSUME close PROVE Piped'
  <2>1. /\ worker'.phase = worker.phase /\ worker'.messages = worker.messages
        /\ Stream' = Stream /\ state' = state
    BY <1>close, <1>3, <1>4 DEF close, Stopping
  <2>2. (Expecting' <=> Expecting) /\ job' = job /\ started' = started
    BY <1>close DEF close, Expecting, At, Stopping
  <2>3. Alive => stdin' = Append(stdin, Quit) /\ ~closing /\ closing'
    BY <1>close DEF close, Quit
  <2>4. Alive => (NoneAsked => NoneAsked') /\ (Asked => Asked')
    BY <2>2, <2>3, OneElement, TwoElements DEF NoneAsked, Asked
  <2> QED
    BY <2>1, <2>2, <2>4 DEF IInv, Piped, Loading, Quiet, Waiting, Answered, Running, Turning,
       Only, Alive

<1>check_state. ASSUME NEW c \in Clients, check_state(c) PROVE Piped'
  <2>1. /\ worker'.phase = worker.phase /\ worker'.messages = worker.messages
        /\ Stream' = Stream /\ state' = state
    BY <1>check_state, <1>3, <1>4 DEF check_state, Stopping, server, vars
  <2>2. (Expecting' <=> Expecting) /\ (job'.event = job.event) /\ job'.kind = job.kind
        /\ job'.messages = job.messages
    BY <1>check_state, <1>1, <1>2 DEF check_state, server, vars, Expecting, At, Stopping, Jobs,
       Resumed, Next_after_loss, AfterLoss
  <2> QED
    BY <1>check_state, <2>1, <2>2 DEF check_state, server, vars, IInv, Piped, Loading, Quiet,
       Waiting, Answered, Running,
       NoneAsked, Asked, Turning, Only, Alive

<1>acquire. ASSUME NEW c \in Clients, acquire(c) PROVE Piped'
  <2>1. /\ worker'.phase = worker.phase /\ worker'.messages = worker.messages
        /\ Stream' = Stream /\ state' = state
    BY <1>acquire, <1>3, <1>4 DEF acquire, Stopping, server, vars
  <2>2. CASE mutex # Nobody
    <3>1. (Expecting' <=> Expecting) /\ job' = job
      BY <1>acquire, <2>2, <1>1, <1>2 DEF acquire, Expecting, At
    <3> QED
      BY <1>acquire, <2>1, <2>2, <3>1 DEF acquire, IInv, Piped, Loading, Quiet, Waiting, Answered,
         Running,
         NoneAsked, Asked, Turning, Only, Alive
  <2>3. CASE mutex = Nobody
    <3>1. ~Expecting /\ ~Expecting'
      BY <1>acquire, <2>3, <1>1 DEF acquire, Expecting, At
    <3> QED
      BY <1>acquire, <2>1, <3>1 DEF acquire, IInv, Piped, Loading, Quiet, NoneAsked, Only, Alive
  <2> QED
    BY <2>2, <2>3

<1>begin_generate. ASSUME NEW c \in Clients, begin_generate(c) PROVE Piped'
  <2>1. /\ worker'.phase = worker.phase /\ worker'.messages = worker.messages
        /\ Stream' = Stream /\ state' = state
    BY <1>begin_generate, <1>3, <1>4 DEF begin_generate, Stopping, server, vars
  <2>2. ~Expecting /\ ~Expecting'
    BY <1>begin_generate, <1>1, <1>2 DEF begin_generate, Expecting, At
  <2> QED
    BY <1>begin_generate, <2>1, <2>2 DEF begin_generate, server, IInv, Piped, Loading, Quiet,
       NoneAsked, Only, Alive

<1>write_request. ASSUME NEW c \in Clients, write_request(c) PROVE Piped'
  <2>1. mutex = c /\ mutex # Nobody /\ ~Expecting /\ state # "loading"
    BY <1>write_request, <1>2 DEF write_request, IInv, Expecting, At, Booting
  <2>2. Quiet
    BY <1>write_request, <2>1 DEF write_request, IInv, Piped
  <2>3. job.event = "none"
    BY <1>write_request, <2>1 DEF write_request, IInv, Holding, At
  <2>4. Asked'
    <3> DEFINE r == [kind |-> job.kind, messages |-> job.messages]
    <3>1. stdin' = Append(stdin, r) /\ job' = job /\ closing' = closing
      BY <1>write_request DEF write_request, server
    <3>2. Append(<<>>, r) = <<r>>
      BY OneElement
    <3>3. Append(<<Quit>>, r) = <<Quit, r>>
      BY TwoElements
    <3> QED
      BY <2>2, <3>1, <3>2, <3>3 DEF Quiet, NoneAsked, Asked
  <2>5. Stream' = Stream /\ worker' = worker /\ job' = job /\ state' = state
    BY <1>write_request, <1>4 DEF write_request, server
  <2>6. Expecting'
    BY <1>write_request, <1>1, <2>1, <2>3 DEF write_request, server, Expecting, At
  <2> QED
    BY <2>1, <2>2, <2>3, <2>4, <2>5, <2>6 DEF Piped, Quiet, Waiting

<1>write_fails. ASSUME NEW c \in Clients, write_fails(c) PROVE Piped'
  BY <1>write_fails DEF write_fails, Piped, Alive

<1>take_started. ASSUME NEW c \in Clients, take_started(c) PROVE Piped'
  <2>1. /\ pc[c] = "wait" /\ job.kind = "G" /\ events # <<>> /\ events' = Tail(events)
        /\ Head(events).event = "started" /\ stdout' = stdout /\ pc' = [pc EXCEPT ![c] = "show"]
        /\ UNCHANGED <<mutex, state, closing, stdin>>
    BY <1>take_started DEF take_started, Take, server
  <2>2. Expecting /\ state # "loading" /\ mutex = c /\ mutex # Nobody
    BY <2>1, <1>7
  <2>3. Stream' = Tail(Stream) /\ Stream # <<>> /\ Stream[1].event = "started"
    BY <2>1, <1>6
  <2>4. SUFFICES ASSUME Alive' PROVE Piped'
    BY DEF Piped
  <2>5. Alive /\ worker'.phase = worker.phase /\ worker'.messages = worker.messages
    BY <1>take_started, <2>4, <1>3 DEF take_started, OnStart, server, Alive
  <2>6. Running \/ (job.event = "none" /\ Answered )
    BY <2>1, <2>2, <2>3, <2>5 DEF IInv, Piped, Waiting
  <2>7. /\ Running /\ job.event = "none" /\ Turning(2)
    <3>1. ~Answered
      BY <2>1, <2>3 DEF Answered, Only
    <3>2. Running
      BY <2>6, <3>1
    <3>3. Turning(1) => Stream[1].event \in {"token", "done"}
      BY <1>4, <2>3, TokensTaken DEF Turning
    <3> QED
      BY <2>3, <3>2, <3>3 DEF Running
  <2>8. Turning(1)'
    BY <1>4, <2>3, <2>5, <2>7, TokensTaken DEF Turning
  <2>9. job'.event = "started" /\ job'.kind = job.kind /\ job'.messages = job.messages /\ started'
    BY <1>take_started, <1>1 DEF take_started, Jobs
  <2>10. Running'
    BY <2>1, <2>5, <2>7, <2>8, <2>9 DEF Running, NoneAsked
  <2>11. Expecting' /\ state' # "loading"
    BY <1>1, <2>1, <2>2, <2>9 DEF Expecting, At
  <2> QED
    BY <2>10, <2>11 DEF Piped

<1>take_token. ASSUME NEW c \in Clients, take_token(c) PROVE Piped'
  <2>1. /\ pc[c] = "wait" /\ job.kind = "G" /\ events # <<>> /\ events' = Tail(events)
        /\ Head(events).event = "token" /\ stdout' = stdout /\ pc' = [pc EXCEPT ![c] = "show"]
        /\ UNCHANGED <<mutex, state, closing, stdin>>
    BY <1>take_token DEF take_token, Take, server
  <2>2. Expecting /\ state # "loading" /\ mutex = c /\ mutex # Nobody
    BY <2>1, <1>7
  <2>3. Stream' = Tail(Stream) /\ Stream # <<>> /\ Stream[1].event = "token"
    BY <2>1, <1>6
  <2>4. SUFFICES ASSUME Alive' PROVE Piped'
    BY DEF Piped
  <2>5. Alive /\ worker'.phase = worker.phase /\ worker'.messages = worker.messages
    BY <1>take_token, <2>4, <1>3 DEF take_token, OnStart, server, Alive
  <2>6. Running \/ (job.event = "none" /\ Answered )
    BY <2>1, <2>2, <2>3, <2>5 DEF IInv, Piped, Waiting
  <2>7. /\ Running /\ job.event # "none" /\ Turning(1)
    <3>1. ~Answered
      BY <2>1, <2>3 DEF Answered, Only
    <3>2. Running
      BY <2>6, <3>1
    <3> QED
      BY <2>3, <3>2 DEF Running
  <2>8. Turning(1)'
    BY <1>4, <2>3, <2>5, <2>7, TokensTaken DEF Turning
  <2>9. job'.event = "token" /\ job'.kind = job.kind /\ job'.messages = job.messages /\ started' = started
    BY <1>take_token, <1>1 DEF take_token, Jobs, server
  <2>10. Running'
    BY <2>1, <2>5, <2>7, <2>8, <2>9 DEF Running, NoneAsked
  <2>11. Expecting' /\ state' # "loading"
    BY <1>1, <2>1, <2>2, <2>9 DEF Expecting, At
  <2> QED
    BY <2>10, <2>11 DEF Piped

<1>take_done. ASSUME NEW c \in Clients, take_done(c) PROVE Piped'
  <2>1. /\ pc[c] = "wait" /\ job.kind = "G" /\ events # <<>> /\ events' = Tail(events)
        /\ Head(events).event = "done" /\ stdout' = stdout /\ pc' = [pc EXCEPT ![c] = "show"]
        /\ UNCHANGED <<mutex, state, closing, stdin>>
    BY <1>take_done DEF take_done, Take, server
  <2>2. Expecting /\ state # "loading" /\ mutex = c /\ mutex # Nobody
    BY <2>1, <1>7
  <2>3. Stream' = Tail(Stream) /\ Stream # <<>> /\ Stream[1].event = "done"
    BY <2>1, <1>6
  <2>4. SUFFICES ASSUME Alive' PROVE Piped'
    BY DEF Piped
  <2>5. Alive /\ worker'.phase = worker.phase /\ worker'.messages = worker.messages
    BY <1>take_done, <2>4, <1>3 DEF take_done, OnStart, server, Alive
  <2>6. Running \/ (job.event = "none" /\ Answered )
    BY <2>1, <2>2, <2>3, <2>5 DEF IInv, Piped, Waiting
  <2>7. /\ Running /\ job.event # "none" /\ Turning(1)
    <3>1. ~Answered
      BY <2>1, <2>3 DEF Answered, Only
    <3>2. Running
      BY <2>6, <3>1
    <3> QED
      BY <2>3, <3>2 DEF Running
  <2>8. worker.phase = "idle" /\ Tail(Stream) = <<>>
    BY <1>4, <2>3, <2>7, TokensTaken DEF Turning
  <2>9. job'.event = "end"
    BY <1>take_done, <1>1 DEF take_done, Jobs
  <2>10. Quiet'
    BY <2>1, <2>3, <2>5, <2>7, <2>8 DEF Running, NoneAsked, Quiet
  <2>11. ~Expecting' /\ state' # "loading"
    BY <2>1, <2>2, <2>9 DEF Expecting
  <2> QED
    BY <2>10, <2>11 DEF Piped

<1>take_error. ASSUME NEW c \in Clients, take_error(c) PROVE Piped'
  <2>1. /\ pc[c] = "wait" /\ job.kind = "G" /\ events # <<>> /\ events' = Tail(events)
        /\ Head(events).event = "error" /\ stdout' = stdout /\ pc' = [pc EXCEPT ![c] = "show"]
        /\ UNCHANGED <<mutex, state, closing, stdin>>
    BY <1>take_error DEF take_error, Take, server
  <2>2. Expecting /\ state # "loading" /\ mutex = c /\ mutex # Nobody
    BY <2>1, <1>7
  <2>3. Stream' = Tail(Stream) /\ Stream # <<>> /\ Stream[1].event = "error"
    BY <2>1, <1>6
  <2>4. SUFFICES ASSUME Alive' PROVE Piped'
    BY DEF Piped
  <2>5. Alive /\ worker'.phase = worker.phase /\ worker'.messages = worker.messages
    BY <1>take_error, <2>4, <1>3 DEF take_error, OnStart, server, Alive
  <2>6. Running \/ (job.event = "none" /\ Answered )
    BY <2>1, <2>2, <2>3, <2>5 DEF IInv, Piped, Waiting
  <2>7. Answered
    <3>1. Running => FALSE
      <4>1. Turning(1) => Stream[1].event \in {"token", "done"}
        BY <1>4, <2>3, TokensTaken DEF Turning
      <4> QED
        BY <2>3, <4>1 DEF Running
    <3> QED
      BY <2>6, <3>1
  <2>8. Tail(Stream) = <<>>
    BY <1>4, <2>7, TailOfOne DEF Answered, Only
  <2>9. job'.event = "end"
    BY <1>take_error, <1>1 DEF take_error, Jobs
  <2>10. Quiet'
    BY <2>1, <2>3, <2>5, <2>7, <2>8 DEF Answered, NoneAsked, Quiet
  <2>11. ~Expecting' /\ state' # "loading"
    BY <2>1, <2>2, <2>9 DEF Expecting
  <2> QED
    BY <2>10, <2>11 DEF Piped

<1>show. ASSUME NEW c \in Clients, show(c) PROVE Piped'
  <2>1. /\ worker'.phase = worker.phase /\ worker'.messages = worker.messages
        /\ Stream' = Stream /\ state' = state
    BY <1>show, <1>3, <1>4 DEF show, Stopping, server, vars
  <2>2. (Expecting' <=> Expecting) /\ (job'.event = job.event) /\ job'.kind = job.kind
        /\ job'.messages = job.messages
    BY <1>show, <1>1, <1>2 DEF show, server, vars, Expecting, At, Stopping, Jobs, Resumed,
       Next_after_loss, AfterLoss
  <2> QED
    BY <1>show, <2>1, <2>2 DEF show, server, vars, IInv, Piped, Loading, Quiet, Waiting, Answered,
       Running,
       NoneAsked, Asked, Turning, Only, Alive

<1>show_fails. ASSUME NEW c \in Clients, show_fails(c) PROVE Piped'
  <2>1. /\ worker'.phase = worker.phase /\ worker'.messages = worker.messages
        /\ Stream' = Stream /\ state' = state
    BY <1>show_fails, <1>3, <1>4 DEF show_fails, Stopping, server, vars
  <2>2. (Expecting' <=> Expecting) /\ (job'.event = job.event) /\ job'.kind = job.kind
        /\ job'.messages = job.messages
    BY <1>show_fails, <1>1, <1>2 DEF show_fails, server, vars, Expecting, At, Stopping, Jobs,
       Resumed, Next_after_loss, AfterLoss
  <2> QED
    BY <1>show_fails, <2>1, <2>2 DEF show_fails, server, vars, IInv, Piped, Loading, Quiet,
       Waiting, Answered, Running,
       NoneAsked, Asked, Turning, Only, Alive

<1>end_generate. ASSUME NEW c \in Clients, end_generate(c) PROVE Piped'
  <2>1. /\ worker'.phase = worker.phase /\ worker'.messages = worker.messages
        /\ Stream' = Stream /\ state' = state
    BY <1>end_generate, <1>3, <1>4 DEF end_generate, Stopping, server, vars
  <2>2. ~Expecting /\ ~Expecting'
    BY <1>end_generate, <1>1, <1>2 DEF end_generate, Expecting, At
  <2> QED
    BY <1>end_generate, <2>1, <2>2 DEF end_generate, server, IInv, Piped, Loading, Quiet,
       NoneAsked, Only, Alive

<1>take_reset. ASSUME NEW c \in Clients, take_reset(c) PROVE Piped'
  <2>1. /\ pc[c] = "wait" /\ job.kind = "R" /\ events # <<>> /\ events' = Tail(events)
        /\ stdout' = stdout /\ pc' = [pc EXCEPT ![c] = "release"]
        /\ UNCHANGED <<mutex, state, closing, stdin, worker>>
    BY <1>take_reset DEF take_reset
  <2>2. Expecting /\ state # "loading" /\ mutex = c /\ mutex # Nobody
    BY <2>1, <1>7
  <2>3. Stream' = Tail(Stream) /\ Stream # <<>>
    BY <2>1, <1>6
  <2>4. SUFFICES ASSUME Alive' PROVE Piped'
    BY DEF Piped
  <2>5. Alive
    BY <2>1, <2>4 DEF Alive
  <2>6. Answered
    BY <2>1, <2>2, <2>3, <2>5 DEF IInv, Piped, Waiting, Running
  <2>7. Tail(Stream) = <<>>
    BY <1>4, <2>6, TailOfOne DEF Answered, Only
  <2>8. Quiet'
    BY <2>1, <2>3, <2>6, <2>7 DEF Answered, NoneAsked, Quiet
  <2>9. ~Expecting' /\ state' # "loading"
    BY <1>1, <2>1, <2>2 DEF Expecting, At
  <2> QED
    BY <2>8, <2>9 DEF Piped

<1>release. ASSUME NEW c \in Clients, release(c) PROVE Piped'
  <2>1. /\ worker'.phase = worker.phase /\ worker'.messages = worker.messages
        /\ Stream' = Stream /\ state' = state
    BY <1>release, <1>3, <1>4 DEF release, Stopping, server, vars
  <2>2. ~Expecting /\ ~Expecting'
    BY <1>release, <1>1, <1>2 DEF release, Expecting, At
  <2> QED
    BY <1>release, <2>1, <2>2 DEF release, server, IInv, Piped, Loading, Quiet, NoneAsked, Only,
       Alive

<1>still. ASSUME UNCHANGED vars PROVE Piped'
  <2>1. /\ Stream' = Stream /\ (Expecting' <=> Expecting)
    BY <1>still, <1>4 DEF vars, server, Expecting, At
  <2> QED
    BY <1>still, <2>1 DEF vars, server, IInv, Piped, Loading, Quiet, Waiting, Answered, Running,
       NoneAsked, Asked, Turning, Only, Alive

<1> QED
  BY <1>worker_ready, <1>session_request, <1>worker_token, <1>worker_done, <1>worker_dies, <1>spawn,
     <1>load_line, <1>load_exit, <1>load_error, <1>press_stop, <1>close, <1>check_state, <1>acquire,
     <1>begin_generate, <1>write_request, <1>write_fails, <1>take_started, <1>take_token,
     <1>take_done, <1>take_error, <1>show, <1>show_fails, <1>end_generate, <1>take_reset,
     <1>release, <1>still DEF Next, Worker, Loader, Served_by

\* Every step keeps the stop flag that of the turn.
LEMMA StopStep ==
  ASSUME IInv, [Next]_vars
  PROVE  StopHitsItsTurn'
<1> USE ServerAssumption
<1>1. /\ pc \in [Clients -> Places] /\ worker \in Workers /\ job \in Jobs
      /\ active \in BOOLEAN /\ started \in BOOLEAN /\ cancel \in BOOLEAN
  BY DEF IInv, Typed
<1>2. worker.phase = "turn" =>
        /\ Running /\ mutex # Nobody /\ pc[mutex] \in {"wait", "show"} /\ active
        /\ \A c \in Clients : pc[c] \in {"idle", "checked", "wait", "show"}
  <2>1. SUFFICES ASSUME worker.phase = "turn"
        PROVE /\ Running /\ mutex # Nobody /\ pc[mutex] \in {"wait", "show"} /\ active
              /\ \A c \in Clients : pc[c] \in {"idle", "checked", "wait", "show"}
    OBVIOUS
  <2>2. Running /\ Expecting
    BY <2>1 DEF IInv, Piped, Alive, Loading, Quiet, Waiting, Answered
  <2>3. mutex # Nobody /\ pc[mutex] \in {"wait", "show"} /\ job.kind = "G"
    BY <2>2 DEF Running, Expecting, At
  <2>4. active
    BY <2>3 DEF IInv, Holding, At
  <2>5. \A c \in Clients : pc[c] \in {"idle", "checked", "wait", "show"}
    BY <2>3 DEF IInv, Exclusive
  <2> QED
    BY <2>2, <2>3, <2>4, <2>5
<1>3. /\ Signalled.phase = worker.phase
      /\ Alive => Signalled.stopped = TRUE
      /\ worker.phase = "turn" => Alive
  BY <1>1 DEF Signalled, Workers, Alive
<1>4. /\ worker.phase = "turn" /\ worker.stopped => cancel /\ active
      /\ worker.phase = "turn" /\ active /\ started /\ cancel => worker.stopped
  BY DEF IInv, StopHitsItsTurn
<1>worker_ready. ASSUME worker_ready PROVE StopHitsItsTurn'
  BY <1>worker_ready, <1>1 DEF worker_ready, StopHitsItsTurn, Workers

<1>session_request. ASSUME session_request PROVE StopHitsItsTurn'
  <2>1. SUFFICES ASSUME worker'.phase = "turn" PROVE StopHitsItsTurn'
    BY DEF StopHitsItsTurn
  <2>2. worker.phase = "idle" /\ worker' = Serving(Head(stdin)) /\ Head(stdin).kind = "G"
    BY <1>session_request, <2>1 DEF session_request, Served, Exited
  <2>3. ~worker'.stopped
    BY <2>2 DEF Serving
  <2>4. ~NoneAsked
    BY <1>session_request, <2>2 DEF session_request, NoneAsked, Quit
  <2>5. job.event = "none"
    BY <2>2, <2>4 DEF IInv, Piped, Alive, Loading, Quiet, Running, Answered
  <2>6. ~started
    BY <2>5 DEF IInv, Holding
  <2> QED
    BY <1>session_request, <2>3, <2>6 DEF session_request, server, StopHitsItsTurn

<1>worker_token. ASSUME worker_token PROVE StopHitsItsTurn'
  <2>1. worker'.stopped = worker.stopped /\ worker'.phase = worker.phase
    BY <1>worker_token, <1>1 DEF worker_token, Workers
  <2> QED
    BY <1>worker_token, <2>1, <1>4 DEF worker_token, server, StopHitsItsTurn

<1>worker_done. ASSUME worker_done PROVE StopHitsItsTurn'
  BY <1>worker_done, <1>1 DEF worker_done, StopHitsItsTurn, Workers

<1>worker_dies. ASSUME worker_dies PROVE StopHitsItsTurn'
  BY <1>worker_dies DEF worker_dies, StopHitsItsTurn, Exited

<1>spawn. ASSUME spawn PROVE StopHitsItsTurn'
  <2>1. worker.phase = "absent"
    BY <1>spawn DEF spawn, IInv, Booting
  <2>2. worker'.phase # "turn"
    BY <1>spawn, <2>1, <1>1 DEF spawn, Exited, Workers
  <2> QED
    BY <2>2 DEF StopHitsItsTurn

<1>load_line. ASSUME load_line PROVE StopHitsItsTurn'
  BY <1>load_line, <1>1, <1>2, <1>4 DEF load_line, StopHitsItsTurn, server

<1>load_exit. ASSUME load_exit PROVE StopHitsItsTurn'
  BY <1>load_exit, <1>1, <1>2, <1>4 DEF load_exit, StopHitsItsTurn, server

<1>load_error. ASSUME load_error PROVE StopHitsItsTurn'
  BY <1>load_error, <1>1, <1>2, <1>4 DEF load_error, StopHitsItsTurn, server

<1>press_stop. ASSUME press_stop PROVE StopHitsItsTurn'
  <2>1. Stopping /\ active' = active /\ started' = started
    BY <1>press_stop DEF press_stop
  <2> QED
    BY <2>1, <1>1, <1>2, <1>3, <1>4 DEF Stopping, StopHitsItsTurn

<1>close. ASSUME close PROVE StopHitsItsTurn'
  <2>1. Stopping /\ active' = active /\ started' = started
    BY <1>close DEF close
  <2> QED
    BY <2>1, <1>1, <1>2, <1>3, <1>4 DEF Stopping, StopHitsItsTurn

<1>check_state. ASSUME NEW c \in Clients, check_state(c) PROVE StopHitsItsTurn'
  BY <1>check_state, <1>1, <1>2, <1>4 DEF check_state, StopHitsItsTurn, server

<1>acquire. ASSUME NEW c \in Clients, acquire(c) PROVE StopHitsItsTurn'
  BY <1>acquire, <1>1, <1>2, <1>4 DEF acquire, StopHitsItsTurn, server

<1>begin_generate. ASSUME NEW c \in Clients, begin_generate(c) PROVE StopHitsItsTurn'
  BY <1>begin_generate, <1>1, <1>2, <1>4 DEF begin_generate, StopHitsItsTurn, server

<1>write_request. ASSUME NEW c \in Clients, write_request(c) PROVE StopHitsItsTurn'
  BY <1>write_request, <1>1, <1>2, <1>4 DEF write_request, StopHitsItsTurn, server

<1>write_fails. ASSUME NEW c \in Clients, write_fails(c) PROVE StopHitsItsTurn'
  <2>1. worker' = worker /\ worker.phase # "turn"
    BY <1>write_fails, <1>3 DEF write_fails
  <2> QED
    BY <2>1 DEF StopHitsItsTurn

<1>take_started. ASSUME NEW c \in Clients, take_started(c) PROVE StopHitsItsTurn'
  <2>1. worker' = OnStart /\ active' = active /\ cancel' = cancel
    BY <1>take_started DEF take_started
  <2> QED
    BY <2>1, <1>1, <1>2, <1>3, <1>4 DEF OnStart, StopHitsItsTurn

<1>take_token. ASSUME NEW c \in Clients, take_token(c) PROVE StopHitsItsTurn'
  BY <1>take_token, <1>4 DEF take_token, Take, StopHitsItsTurn, server

<1>take_done. ASSUME NEW c \in Clients, take_done(c) PROVE StopHitsItsTurn'
  BY <1>take_done, <1>4 DEF take_done, Take, StopHitsItsTurn, server

<1>take_error. ASSUME NEW c \in Clients, take_error(c) PROVE StopHitsItsTurn'
  BY <1>take_error, <1>4 DEF take_error, Take, StopHitsItsTurn, server

<1>show. ASSUME NEW c \in Clients, show(c) PROVE StopHitsItsTurn'
  BY <1>show, <1>1, <1>2, <1>4 DEF show, StopHitsItsTurn, server

<1>show_fails. ASSUME NEW c \in Clients, show_fails(c) PROVE StopHitsItsTurn'
  <2>1. Stopping /\ active' = active /\ started' = started
    BY <1>show_fails DEF show_fails
  <2> QED
    BY <2>1, <1>1, <1>2, <1>3, <1>4 DEF Stopping, StopHitsItsTurn

<1>end_generate. ASSUME NEW c \in Clients, end_generate(c) PROVE StopHitsItsTurn'
  BY <1>end_generate, <1>1, <1>2, <1>4 DEF end_generate, StopHitsItsTurn, server

<1>take_reset. ASSUME NEW c \in Clients, take_reset(c) PROVE StopHitsItsTurn'
  BY <1>take_reset, <1>1, <1>2, <1>4 DEF take_reset, StopHitsItsTurn, server

<1>release. ASSUME NEW c \in Clients, release(c) PROVE StopHitsItsTurn'
  BY <1>release, <1>1, <1>2, <1>4 DEF release, StopHitsItsTurn, server

<1>still. ASSUME UNCHANGED vars PROVE StopHitsItsTurn'
  BY <1>still, <1>4 DEF vars, server, StopHitsItsTurn

<1> QED
  BY <1>worker_ready, <1>session_request, <1>worker_token, <1>worker_done, <1>worker_dies, <1>spawn,
     <1>load_line, <1>load_exit, <1>load_error, <1>press_stop, <1>close, <1>check_state, <1>acquire,
     <1>begin_generate, <1>write_request, <1>write_fails, <1>take_started, <1>take_token,
     <1>take_done, <1>take_error, <1>show, <1>show_fails, <1>end_generate, <1>take_reset,
     <1>release, <1>still DEF Next, Worker, Loader, Served_by


\* At the start nothing runs and nothing is in the pipes.
LEMMA Initially ==
  ASSUME Init
  PROVE  IInv
<1> USE ServerAssumption
<1>1. \A S : <<>> \in Seq(S)
  OBVIOUS
<1>2. worker \in Workers /\ worker.phase = "absent"
  <2>1. 0 \in 0 .. MaxNew
    OBVIOUS
  <2>2. worker = [phase |-> "absent", messages |-> <<>>, tokens |-> 0, stopped |-> FALSE]
    BY DEF Init, Exited
  <2> QED
    BY <1>1, <2>1, <2>2 DEF Workers
<1>3. job \in Jobs /\ job.kind = "none" /\ job.event = "none"
  BY <1>1 DEF Init, NoJob, Jobs, Text
<1>4. pc \in [Clients -> Places] /\ \A c \in Clients : pc[c] = "idle"
  BY DEF Init, Places
<1>5. Typed
  BY <1>1, <1>2, <1>3, <1>4 DEF Init, Typed
<1>6. Exclusive /\ Holding
  BY <1>3, <1>4 DEF Init, Exclusive, Holding, At
<1>7. Chatting /\ Booting
  BY <1>2, <1>3, <1>4 DEF Init, Chatting, Booting, Alive
<1>8. Piped /\ StopHitsItsTurn
  BY <1>2 DEF Init, Piped, Alive, StopHitsItsTurn
<1> QED
  BY <1>5, <1>6, <1>7, <1>8 DEF IInv

\* The invariant holds in every reachable state.
LEMMA Invariance == Spec => []IInv
<1>1. Init => IInv
  BY Initially
<1>2. IInv /\ [Next]_vars => IInv'
  BY TypedStep, ExclusiveStep, HoldingStep, ChattingStep, BootingStep, PipedStep, StopStep DEF IInv
<1> QED
  BY <1>1, <1>2, PTL DEF Spec

-----------------------------------------------------------------------------
(* Theorems.                                                                *)

\* The signal of Stop reaches the turn it was pressed for and no other (stop, generate, and
\* the clearing of the flag before "started").
THEOREM StopReachesItsTurn == Spec => []StopHitsItsTurn
<1>1. IInv => StopHitsItsTurn
  BY DEF IInv
<1> QED
  BY <1>1, Invariance, PTL

\* A free mutex means empty pipes and an idle worker, whoever left, stopped or failed before
\* (the draining of do_POST).
THEOREM NothingLeftBehind == Spec => []QuietBetweenRequests
<1>1. IInv => QuietBetweenRequests
  <2>1. SUFFICES ASSUME IInv, mutex = Nobody, Alive, state = "ready", ~closing
        PROVE  worker.phase = "idle" /\ stdin = <<>> /\ stdout = <<>> /\ events = <<>>
    BY DEF QuietBetweenRequests
  <2>2. Quiet
    BY <2>1 DEF IInv, Piped, Expecting, At
  <2>3. events = <<>> /\ stdout = <<>>
    BY <2>1, <2>2, ConcatEqualIffEmpty DEF Quiet, Stream, IInv, Typed
  <2> QED
    BY <2>1, <2>2, <2>3 DEF Quiet, NoneAsked
<1> QED
  BY <1>1, Invariance, PTL

\* What users were shown since the last reset is what is kept, and what the model is given
\* before a new prompt (generate and reset).
THEOREM ChatIsKept == Spec => []ModelSeesTheChat
<1>1. IInv => ModelSeesTheChat
  <2>1. SUFFICES ASSUME IInv PROVE ModelSeesTheChat
    OBVIOUS
  <2>2. history = transcript
    BY <2>1 DEF IInv, Chatting
  <2>3. ASSUME worker.phase = "turn", job.event # "end"
        PROVE  \E p \in Prompts : worker.messages = Append(transcript, [prompt |-> p])
    <3>1. Running
      BY <2>1, <2>3 DEF IInv, Piped, Alive, Loading, Quiet, Waiting, Answered
    <3>2. job.kind = "G" /\ worker.messages = job.messages
      BY <2>3, <3>1 DEF Running
    <3> QED
      BY <2>1, <2>2, <2>3, <3>2 DEF IInv, Chatting
  <2> QED
    BY <2>2, <2>3 DEF ModelSeesTheChat
<1> QED
  BY <1>1, Invariance, PTL

===============================================================================
