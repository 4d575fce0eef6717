-------------------------------- MODULE Server --------------------------------
(***************************************************************************)
(* The local chat server (tools/ui/qwen38/server.py) around one resident   *)
(* worker process (the --session loop of qwen38_cli.m).  HTTP threads take *)
(* a mutex for a whole conversation request; a loader thread moves the     *)
(* worker's lines to an event queue; Stop may be pressed by anyone at any  *)
(* moment; clients disconnect, and the worker may die.                     *)
(*                                                                         *)
(* Text is a sequence of characters.  A token of the worker is the bytes   *)
(* of a whole character "c" or of the head "h" of one that never ends; the *)
(* incremental decoder shows "?" for it.                                   *)
(***************************************************************************)
EXTENDS Naturals, Sequences

CONSTANTS
    Clients,        \* threads serving POST requests
    Prompts,        \* what users type
    Nobody,         \* holder of a free mutex
    MaxNew,         \* what a turn may print: the tokens asked for and the tail
    MaxMessages     \* longest conversation sent to the worker (127 in the code)

ASSUME ServerAssumption ==
    MaxNew \in Nat \ {0} /\ MaxMessages \in Nat \ {0} /\ Nobody \notin Clients

VARIABLES
    state,          \* Engine.state: loading, ready, error
    mutex,          \* Engine.mutex: the client whose request is being served
    active, started, cancel, closing, history,   \* fields of Engine
    events,         \* Engine.events
    loader,         \* load(): spawn, reading, dead (state published), done
    pc,             \* where each client's do_POST stands
    job,            \* locals of the request that holds the mutex
    worker,         \* the worker process
    stdin, stdout,  \* its pipes: requests not read, events not read
    transcript      \* what users were shown since the last reset (a ghost)

server == <<state, mutex, active, started, cancel, closing, history>>
vars == <<server, events, loader, pc, job, worker, stdin, stdout, transcript>>

NoJob == [kind |-> "none", messages |-> <<>>, answer |-> <<>>, open |-> FALSE,
          event |-> "none", left |-> FALSE]
Alive == worker.phase \in {"loading", "idle", "turn"}
Exited == [phase |-> "dead", messages |-> <<>>, tokens |-> 0, stopped |-> FALSE]

Init ==
    /\ state = "loading" /\ mutex = Nobody
    /\ active = FALSE /\ started = FALSE /\ cancel = FALSE /\ closing = FALSE
    /\ history = <<>> /\ events = <<>> /\ loader = "spawn"
    /\ pc = [c \in Clients |-> "idle"] /\ job = NoJob
    /\ worker = [Exited EXCEPT !.phase = "absent"]
    /\ stdin = <<>> /\ stdout = <<>> /\ transcript = <<>>

-----------------------------------------------------------------------------
(* The worker process.                                                      *)

Says(e) == stdout' = Append(stdout, e)

worker_ready ==
    /\ worker.phase = "loading"
    /\ worker' = [worker EXCEPT !.phase = "idle"] /\ Says([event |-> "ready"])
    /\ UNCHANGED <<server, events, loader, pc, job, stdin, transcript>>

\* A request starts a turn with the stop flag cleared.
Serving(r) == [phase |-> "turn", messages |-> r.messages, tokens |-> 0, stopped |-> FALSE]
Serving_keeps_flag(r) == [phase |-> "turn", messages |-> r.messages, tokens |-> 0,
                          stopped |-> worker.stopped]
Served(r) == Serving(r)

session_request ==
    /\ worker.phase = "idle" /\ stdin # <<>>
    /\ stdin' = Tail(stdin)
    /\ \/ /\ Head(stdin).kind = "Q" /\ worker' = Exited /\ UNCHANGED stdout
       \/ /\ Head(stdin).kind = "R" /\ UNCHANGED worker /\ Says([event |-> "reset"])
       \/ /\ Head(stdin).kind = "G"     \* the conversation does not fit
          /\ UNCHANGED worker /\ Says([event |-> "error"])
       \/ /\ Head(stdin).kind = "G"
          /\ worker' = Served(Head(stdin)) /\ Says([event |-> "started"])
    /\ UNCHANGED <<server, events, loader, pc, job, transcript>>

\* A token or the decoder's tail. The flag is read between appends: after the
\* signal the tokens of the cycle in progress and the tail are still printed.
worker_token ==
    /\ worker.phase = "turn" /\ worker.tokens < MaxNew
    /\ worker' = [worker EXCEPT !.tokens = @ + 1]
    /\ \E b \in {"c", "h"} : Says([event |-> "token", bytes |-> b])
    /\ UNCHANGED <<server, events, loader, pc, job, stdin, transcript>>

\* The turn ends by a stop token, the limit or the signal.
worker_done ==
    /\ worker.phase = "turn"
    /\ worker' = [worker EXCEPT !.phase = "idle", !.messages = <<>>, !.tokens = 0]
    /\ Says([event |-> "done"])
    /\ UNCHANGED <<server, events, loader, pc, job, stdin, transcript>>

\* die(), the memory guard, or close's terminate and kill.
worker_dies ==
    /\ Alive /\ worker' = Exited /\ stdin' = <<>>
    /\ UNCHANGED <<server, events, loader, pc, job, stdout, transcript>>

-----------------------------------------------------------------------------
(* The loader thread.                                                       *)

spawn ==
    /\ loader = "spawn"
    /\ \/ closing /\ loader' = "done" /\ UNCHANGED worker
       \/ ~closing /\ loader' = "reading" /\ worker' = [worker EXCEPT !.phase = "loading"]
       \/ ~closing /\ loader' = "reading" /\ worker' = Exited     \* Popen raises
    /\ UNCHANGED <<server, events, pc, job, stdin, stdout, transcript>>

load_line ==
    /\ loader = "reading" /\ stdout # <<>> /\ stdout' = Tail(stdout)
    /\ \/ /\ Head(stdout).event = "ready" /\ state' = "ready" /\ UNCHANGED events
       \/ /\ Head(stdout).event # "ready" /\ events' = Append(events, Head(stdout))
          /\ UNCHANGED state
    /\ UNCHANGED <<mutex, active, started, cancel, closing, history, loader, pc, job,
                   worker, stdin, transcript>>

load_exit ==
    /\ loader = "reading" /\ stdout = <<>> /\ worker.phase = "dead"
    /\ state' = "error" /\ loader' = "dead"
    /\ UNCHANGED <<mutex, active, started, cancel, closing, history, events, pc, job,
                   worker, stdin, stdout, transcript>>

Farewell == Append(events, [event |-> "error"])
Farewell_none == events
Final == Farewell

load_error ==
    /\ loader = "dead" /\ loader' = "done" /\ events' = Final
    /\ UNCHANGED <<server, pc, job, worker, stdin, stdout, transcript>>

-----------------------------------------------------------------------------
(* stop(), in its caller's thread, under the control lock.                  *)

Signalled == IF Alive THEN [worker EXCEPT !.stopped = TRUE] ELSE worker
Stopping ==
    /\ cancel' = (active \/ cancel)
    /\ worker' = IF active /\ started THEN Signalled ELSE worker

press_stop ==
    /\ Stopping
    /\ UNCHANGED <<state, mutex, active, started, closing, history, events, loader, pc,
                   job, stdin, stdout, transcript>>

close ==
    /\ ~closing /\ closing' = TRUE /\ Stopping
    /\ stdin' = IF Alive THEN Append(stdin, [kind |-> "Q"]) ELSE stdin
    /\ UNCHANGED <<state, mutex, active, started, history, events, loader, pc, job,
                   stdout, transcript>>

-----------------------------------------------------------------------------
(* do_POST.  The state is read before the mutex is tried.                   *)

check_state(c) ==
    /\ pc[c] = "idle" /\ ~closing /\ state = "ready"
    /\ pc' = [pc EXCEPT ![c] = "checked"]
    /\ UNCHANGED <<server, events, loader, job, worker, stdin, stdout, transcript>>

acquire(c) ==
    /\ pc[c] = "checked"
    /\ \/ /\ mutex # Nobody /\ pc' = [pc EXCEPT ![c] = "idle"] /\ UNCHANGED <<mutex, job>>
       \/ /\ mutex = Nobody /\ mutex' = c
          /\ \/ /\ pc' = [pc EXCEPT ![c] = "write"] /\ job' = [NoJob EXCEPT !.kind = "R"]
             \/ /\ \E p \in Prompts :
                     job' = [NoJob EXCEPT !.kind = "G",
                               !.messages = Append(history, [prompt |-> p])]
                /\ pc' = [pc EXCEPT ![c] = IF 2 * Len(history) + 1 > MaxMessages
                                           THEN "release" ELSE "begin"]
    /\ UNCHANGED <<state, active, started, cancel, closing, history, events, loader,
                   worker, stdin, stdout, transcript>>

begin_generate(c) ==
    /\ pc[c] = "begin" /\ pc' = [pc EXCEPT ![c] = "write"]
    /\ active' = TRUE /\ started' = FALSE /\ cancel' = FALSE
    /\ UNCHANGED <<state, mutex, closing, history, events, loader, job, worker, stdin,
                   stdout, transcript>>

write_request(c) ==
    /\ pc[c] = "write" /\ Alive
    /\ stdin' = Append(stdin, [kind |-> job.kind, messages |-> job.messages])
    /\ pc' = [pc EXCEPT ![c] = "wait"]
    /\ UNCHANGED <<server, events, loader, job, worker, stdout, transcript>>

\* BrokenPipeError: a generation stops and publishes the error state, a reset only fails.
write_fails(c) ==
    /\ pc[c] = "write" /\ ~Alive /\ pc' = [pc EXCEPT ![c] = "release"]
    /\ \/ /\ job.kind = "G" /\ state' = "error" /\ cancel' = TRUE
          /\ active' = FALSE /\ started' = FALSE
       \/ /\ job.kind = "R" /\ UNCHANGED <<state, cancel, active, started>>
    /\ UNCHANGED <<mutex, closing, history, events, loader, job, worker, stdin, stdout,
                   transcript>>

-----------------------------------------------------------------------------
(* generate(): one event from the queue, then a yield to do_POST.           *)

Take(c, kind) ==
    /\ pc[c] = "wait" /\ job.kind = "G" /\ events # <<>> /\ Head(events).event = kind
    /\ events' = Tail(events)
    /\ pc' = [pc EXCEPT ![c] = "show"]

\* A stop pressed before the worker had started is delivered now.
OnStart == IF cancel THEN Signalled ELSE worker

take_started(c) ==
    /\ Take(c, "started") /\ started' = TRUE /\ worker' = OnStart
    /\ job' = [job EXCEPT !.event = "started"]
    /\ UNCHANGED <<state, mutex, active, cancel, closing, history, loader, stdin, stdout,
                   transcript>>

\* codecs.IncrementalDecoder with errors="replace".
Broken == IF job.open THEN <<"?">> ELSE <<>>
Decoded(b) == IF b = "h" THEN Broken ELSE Append(Broken, "c")

take_token(c) ==
    /\ Take(c, "token")
    /\ LET b == Head(events).bytes IN
       job' = [job EXCEPT !.event = "token", !.answer = @ \o Decoded(b), !.open = b = "h"]
    /\ UNCHANGED <<server, loader, worker, stdin, stdout, transcript>>

\* At the end of a turn the answer shown, with the tail of the decoder, joins the history;
\* a turn cancelled before any text leaves the conversation as it was.
Answer == job.answer \o Broken
Answer_no_tail == job.answer
Remembered == Answer

Exchange(text) == [prompt |-> job.messages[Len(job.messages)].prompt, answer |-> text]
take_done(c) ==
    /\ Take(c, "done")
    /\ history' = IF Remembered = <<>> THEN history
                  ELSE Append(history, Exchange(Remembered))
    /\ transcript' = IF Answer = <<>> THEN transcript
                     ELSE Append(transcript, Exchange(Answer))
    /\ job' = [job EXCEPT !.event = "end", !.answer = Remembered, !.open = FALSE]
    /\ UNCHANGED <<state, mutex, active, started, cancel, closing, loader, worker, stdin,
                   stdout>>

take_error(c) ==
    /\ Take(c, "error") /\ job' = [job EXCEPT !.event = "end"]
    /\ UNCHANGED <<server, loader, worker, stdin, stdout, transcript>>

\* What follows a yield: the next event, or the finally clause of the generator.
Resumed == IF job.event = "end" THEN "close" ELSE "wait"

show(c) ==
    /\ pc[c] = "show" /\ pc' = [pc EXCEPT ![c] = Resumed]
    /\ UNCHANGED <<server, events, loader, job, worker, stdin, stdout, transcript>>

\* The client is gone, in the headers or in the stream: stop, and keep draining.
AfterLoss == Resumed
AfterLoss_leaves == "close"
Next_after_loss == AfterLoss

show_fails(c) ==
    /\ pc[c] = "show" /\ ~job.left /\ job' = [job EXCEPT !.left = TRUE]
    /\ pc' = [pc EXCEPT ![c] = Next_after_loss] /\ Stopping
    /\ UNCHANGED <<state, mutex, active, started, closing, history, events, loader, stdin,
                   stdout, transcript>>

end_generate(c) ==
    /\ pc[c] = "close" /\ pc' = [pc EXCEPT ![c] = "release"]
    /\ active' = FALSE /\ started' = FALSE
    /\ UNCHANGED <<state, mutex, cancel, closing, history, events, loader, job, worker,
                   stdin, stdout, transcript>>

\* reset(): any event but "reset" raises and leaves the history.
take_reset(c) ==
    /\ pc[c] = "wait" /\ job.kind = "R" /\ events # <<>> /\ events' = Tail(events)
    /\ \/ Head(events).event = "reset" /\ history' = <<>> /\ transcript' = <<>>
       \/ Head(events).event # "reset" /\ UNCHANGED <<history, transcript>>
    /\ pc' = [pc EXCEPT ![c] = "release"]
    /\ UNCHANGED <<state, mutex, active, started, cancel, closing, loader, job, worker,
                   stdin, stdout>>

release(c) ==
    /\ pc[c] = "release" /\ pc' = [pc EXCEPT ![c] = "idle"]
    /\ mutex' = Nobody /\ job' = NoJob
    /\ UNCHANGED <<state, active, started, cancel, closing, history, events, loader, worker,
                   stdin, stdout, transcript>>

-----------------------------------------------------------------------------
Served_by(c) ==
    \/ acquire(c) \/ begin_generate(c) \/ write_request(c) \/ write_fails(c)
    \/ take_started(c) \/ take_token(c) \/ take_done(c) \/ take_error(c)
    \/ show(c) \/ show_fails(c) \/ end_generate(c) \/ take_reset(c) \/ release(c)
Worker == worker_ready \/ session_request \/ worker_token \/ worker_done
Loader == spawn \/ load_line \/ load_exit \/ load_error

Next ==
    \/ Worker \/ worker_dies \/ Loader \/ press_stop \/ close
    \/ \E c \in Clients : check_state(c) \/ Served_by(c)

\* The threads and the worker run; nobody has to type, press Stop, leave or die.
Fairness ==
    /\ WF_vars(Worker) /\ WF_vars(Loader)
    /\ \A c \in Clients : WF_vars(Served_by(c))

Spec == Init /\ [][Next]_vars /\ Fairness

-----------------------------------------------------------------------------
(* Properties.                                                              *)

\* The stop flag of the worker is raised in a turn only by a Stop pressed for that turn, and
\* a Stop pressed for it has been raised once generate knows that the turn has started
\* (stop, generate, and the clearing of the flag before "started").
StopHitsItsTurn ==
    worker.phase = "turn" =>
        /\ worker.stopped => cancel /\ active
        /\ active /\ started /\ cancel => worker.stopped

\* Between requests nothing of an earlier one is left in the pipes or in the queue for the
\* next to consume, and the worker waits for a request (the draining of do_POST).
QuietBetweenRequests ==
    mutex = Nobody /\ Alive /\ state = "ready" /\ ~closing =>
        worker.phase = "idle" /\ stdin = <<>> /\ stdout = <<>> /\ events = <<>>

\* The conversation kept between requests is what users were shown since the last reset, and
\* it is what the model is given in a turn, followed by the new prompt.
ModelSeesTheChat ==
    /\ mutex = Nobody => history = transcript
    /\ worker.phase = "turn" /\ job.event # "end" =>
         \E p \in Prompts : worker.messages = Append(transcript, [prompt |-> p])

\* Every request ends and frees the mutex, although the worker may die at any moment, the
\* client may leave, and the state was checked before the mutex was taken.
RequestEnds == \A c \in Clients : pc[c] # "idle" ~> pc[c] = "idle"
===============================================================================
