------------------------------ MODULE StdioServer ------------------------------
(***************************************************************************)
(* StdioJsonRpcServer (stdio_jsonrpc.cpp): one thread reads frames from    *)
(* stdin and submits requests to the task runtime; the completion callback *)
(* of a request, which runs on a worker (or on the reader itself when the  *)
(* runtime refuses the request), writes its response to stdout.            *)
(*                                                                         *)
(* The runtime is what RequestService promises: an accepted request is     *)
(* eventually answered through its callback, once.                         *)
(***************************************************************************)
EXTENDS Integers, Sequences, FiniteSets

CONSTANTS
    Messages,   \* frames the client may send
    Nobody      \* no message; nobody holds output_mutex_

VARIABLES
    timeoutThrows,  \* GetRequestTimeoutMs throws; belongs to the configuration
    framing,    \* framing_
    input,      \* state of the stream in_
    reader,     \* where run() is
    current,    \* the message the reader works on
    kind,       \* what each message turned out to be
    callback,   \* progress of the response of each message
    pending,    \* pending_response_count_
    lock,       \* holder of output_mutex_
    out,        \* what was written to out_: <<message, first or second part>>
    mute,       \* messages whose response could not be serialised (history)
    alive       \* the server object exists

vars == <<framing, input, reader, current, kind, callback, pending, lock, out, mute, alive>>
response == <<callback, pending, lock, out, mute>>

Framings == {"unknown", "newline", "content_length"}

\* A request with an id, a notification, either of them when its time limit
\* cannot be read, a cancellation notification, a response object, a value that is
\* no JSON-RPC request, text that is no JSON, text whose error message is not
\* valid UTF-8, a frame with an unusable header, a Content-Length that no string
\* can have.
Kinds == {"call", "note", "untimed", "cancel", "response", "invalid", "garbage", "ill_formed",
          "bad_header", "oversized"}

\* "refused": the callback of the current message runs on the reader's thread.
ReaderStates == {"reading", "begun", "refused", "erring", "waiting", "returned", "threw"}

CallbackStates == {"none", "queued", "locking", "first", "second", "finishing", "done"}

Init ==
    /\ framing = "unknown"
    /\ input = "open"
    /\ reader = "reading"
    /\ current = Nobody
    /\ kind = [m \in Messages |-> "unread"]
    /\ callback = [m \in Messages |-> "none"]
    /\ pending = 0
    /\ lock = Nobody
    /\ out = <<>>
    /\ mute = {}
    /\ alive = TRUE

-------------------------------------------------------------------------------
(* The reader thread *)

\* The first line of the stream fixes the framing; only frames with a header can
\* have a bad one.
FramingOf(k) ==
    IF framing # "unknown" THEN {framing}
    ELSE IF k \in {"bad_header", "oversized"} THEN {"content_length"}
    ELSE {"newline", "content_length"}

\* Faulty: notifications, which have no response, do not count as pending.
CallsOnly == {"call"}
Counted == {"call", "note"}

NextState(k) ==
    CASE k \in {"call", "note"} -> "begun"
      [] k \in {"invalid", "garbage", "ill_formed"} -> "erring"
      [] k \in {"untimed", "oversized"} -> "threw"
      [] OTHER -> "reading"

(* readMessage returns a frame, or false with the stream still good, and run *)
(* looks at what it is.  A request begins to count as pending at once, unless *)
(* GetRequestTimeoutMs throws before that; nothing on the reader catches it.  *)
(* After a bad header the rest of that frame is taken for the next header, so *)
(* that a bad header may well be followed by another one.                     *)
Read(m, k) ==
    /\ reader = "reading" /\ input = "open" /\ kind[m] = "unread"
    /\ framing' \in FramingOf(k)
    /\ k \in {"bad_header", "oversized"} => framing' = "content_length"
    /\ k \in {"call", "note"} => ~timeoutThrows
    /\ k = "untimed" => timeoutThrows
    /\ kind' = [kind EXCEPT ![m] = k]
    /\ reader' = NextState(k)
    /\ current' = IF NextState(k) \in {"begun", "erring"} THEN m ELSE Nobody
    /\ pending' = IF k \in Counted THEN pending + 1 ELSE pending
    /\ callback' = IF NextState(k) = "erring" THEN [callback EXCEPT ![m] = "locking"] ELSE callback
    /\ UNCHANGED <<input, lock, out, mute, alive>>

(* submit: the runtime takes the task, or calls back before it returns. *)
Submit(m) ==
    /\ reader = "begun" /\ current = m
    /\ callback' = [callback EXCEPT ![m] = "queued"]
    /\ \/ reader' = "reading" /\ current' = Nobody
       \/ reader' = "refused" /\ UNCHANGED current
    /\ UNCHANGED <<framing, input, kind, pending, lock, out, mute, alive>>

\* The reader goes on once its own write, or the callback it runs, is over.
Resume ==
    /\ reader \in {"refused", "erring"}
    /\ callback[current] = "done"
    /\ reader' = "reading"
    /\ current' = Nobody
    /\ UNCHANGED <<framing, input, kind, response, alive>>

(* readMessage fails at the end of the input.  On a stream that is broken    *)
(* without being at its end, run tries again for ever.                       *)
ReadEof ==
    /\ reader = "reading" /\ input = "eof"
    /\ reader' = "waiting"
    /\ UNCHANGED <<framing, input, current, kind, response, alive>>

\* Faulty: run returns without waiting for the responses.
NoWait == TRUE
PendingDrained == pending = 0

(* wait_for_pending_responses *)
Return ==
    /\ reader = "waiting" /\ PendingDrained
    /\ reader' = "returned"
    /\ UNCHANGED <<framing, input, current, kind, response, alive>>

(* run_stdio_mode leaves, by return or by exception, and destroys the server. *)
Destroy ==
    /\ reader \in {"returned", "threw"} /\ alive
    /\ alive' = FALSE
    /\ UNCHANGED <<framing, input, reader, current, kind, response>>

-------------------------------------------------------------------------------
(* Responses: error responses of the reader and completion callbacks *)

(* The runtime is done with an accepted task, or has refused it: it runs the *)
(* callback, which has nothing to write for a notification.                  *)
Complete(m) ==
    /\ callback[m] = "queued"
    /\ callback' = [callback EXCEPT ![m] = IF kind[m] = "note" THEN "finishing" ELSE "locking"]
    /\ UNCHANGED <<framing, input, reader, current, kind, pending, lock, out, mute, alive>>

\* Faulty: output is written without the lock.
Unlocked == TRUE
OutputFree == lock = Nobody

(* writeMessage locks, and dump() succeeds. *)
LockOutput(m) ==
    /\ callback[m] = "locking" /\ kind[m] # "ill_formed"
    /\ OutputFree
    /\ lock' = m
    /\ callback' = [callback EXCEPT ![m] = "first"]
    /\ UNCHANGED <<framing, input, reader, current, kind, pending, out, mute, alive>>

(* dump() throws inside writeMessage, on a string that is not UTF-8.  The    *)
(* callback swallows the exception; nothing catches it on the reader.        *)
DumpThrows(m) ==
    /\ callback[m] = "locking" /\ kind[m] \in {"call", "ill_formed"}
    /\ OutputFree
    /\ mute' = mute \cup {m}
    /\ IF kind[m] = "ill_formed"
       THEN /\ reader' = "threw"
            /\ callback' = [callback EXCEPT ![m] = "done"]
       ELSE /\ callback' = [callback EXCEPT ![m] = "finishing"]
            /\ UNCHANGED reader
    /\ UNCHANGED <<framing, input, current, kind, pending, lock, out, alive>>

\* Header and payload, or payload and newline.
WriteFirst(m) ==
    /\ callback[m] = "first"
    /\ out' = Append(out, <<m, 1>>)
    /\ callback' = [callback EXCEPT ![m] = "second"]
    /\ UNCHANGED <<framing, input, reader, current, kind, pending, lock, mute, alive>>

WriteSecond(m) ==
    /\ callback[m] = "second"
    /\ out' = Append(out, <<m, 2>>)
    /\ lock' = Nobody
    /\ callback' = [callback EXCEPT ![m] = IF kind[m] = "call" THEN "finishing" ELSE "done"]
    /\ UNCHANGED <<framing, input, reader, current, kind, pending, mute, alive>>

\* Faulty: the callback of a refused request finishes it a second time, without
\* the check for zero.
FinishTwice(m) ==
    /\ callback[m] \in {"finishing", "done"} /\ kind[m] \in {"call", "note"}
    /\ pending' = pending - 1
    /\ callback' = [callback EXCEPT ![m] = "done"]
    /\ UNCHANGED <<framing, input, reader, current, kind, lock, out, mute, alive>>

(* finish_pending_response *)
FinishPending(m) ==
    /\ callback[m] = "finishing"
    /\ pending' = IF pending = 0 THEN 0 ELSE pending - 1
    /\ callback' = [callback EXCEPT ![m] = "done"]
    /\ UNCHANGED <<framing, input, reader, current, kind, lock, out, mute, alive>>

-------------------------------------------------------------------------------
\* The client closes its end, or reading fails for good.
InputEnds(state) ==
    /\ input = "open"
    /\ input' = state
    /\ UNCHANGED <<framing, reader, current, kind, response, alive>>

ReaderRuns == (\E m \in Messages : Submit(m)) \/ Resume \/ ReadEof \/ Return

Respond(m) ==
    \/ Complete(m) \/ LockOutput(m) \/ DumpThrows(m) \/ WriteFirst(m) \/ WriteSecond(m)
    \/ FinishPending(m)

\* What the client does: send a frame, close its end, break the connection.
Client(m) ==
    \/ \E k \in Kinds : Read(m, k)
    \/ \E state \in {"eof", "broken"} : InputEnds(state)

-------------------------------------------------------------------------------
TypeOK ==
    /\ framing \in Framings
    /\ input \in {"open", "eof", "broken"}
    /\ reader \in ReaderStates
    /\ current \in Messages \cup {Nobody}
    /\ kind \in [Messages -> Kinds \cup {"unread"}]
    /\ callback \in [Messages -> CallbackStates]
    /\ pending \in Nat
    /\ lock \in Messages \cup {Nobody}
    /\ out \in Seq(Messages \X {1, 2})
    /\ mute \subseteq Messages
    /\ alive \in BOOLEAN

Written(m) == \E i \in DOMAIN out : out[i] = <<m, 2>>

\* Responses of concurrent workers and of the reader never mix on stdout: a frame
\* that was begun is completed before anything else is written, and no message
\* gets two frames (the comment on output_mutex_ in jsonrpc.h).
FramesWhole ==
    \A i \in DOMAIN out :
        /\ i % 2 = 1 => out[i][2] = 1 /\ (i < Len(out) => out[i + 1] = <<out[i][1], 2>>)
        /\ \A j \in DOMAIN out : out[i] = out[j] => i = j

\* When run() returns, every request it read has its response on stdout, whether
\* the runtime took it or refused it; the exception is a response that cannot be
\* serialised, which the callback drops.
AnsweredBeforeReturn ==
    reader = "returned" =>
        \A m \in Messages : kind[m] \in {"call", "invalid", "garbage"} => Written(m) \/ m \in mute

\* No completion callback runs on a destroyed server after a run() that returned
\* (stdio_jsonrpc.cpp, the comment on the wait at the end of run).
CallbacksOnLiveServer ==
    reader # "threw" =>
        \A m \in Messages :
            callback[m] \in {"queued", "locking", "first", "second", "finishing"} => alive
===============================================================================
