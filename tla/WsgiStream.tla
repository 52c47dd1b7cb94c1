----------------------------- MODULE WsgiStream -----------------------------
(***************************************************************************)
(* ConnectWSGIApplication: one call, from the WSGI server's call of the    *)
(* application to the end of the iterable it returns.                      *)
(*                                                                         *)
(* Everything runs in one thread, but not in one go: start_response must   *)
(* be called before the iterable is returned, so the service runs up to    *)
(* its first message inside the application and the rest of the way inside *)
(* the iterable, each with an error handling of its own.  The WSGI server  *)
(* asks for the chunks of the response and may close it between any two.   *)
(***************************************************************************)
EXTENDS Naturals

CONSTANT MaxRequests  \* bound: messages a request is made of

ASSUME WsgiAssumption == MaxRequests \in Nat

VARIABLES
    kind,       \* the endpoint type
    trailers,   \* protocol.uses_trailers()
    http1,      \* SERVER_PROTOCOL is HTTP/1
    plain,      \* the response is not enveloped: unary Connect, or an early error
    pc,         \* where control is
    error,      \* an exception has been caught and is to be told
    input,      \* the request body: messages not read, "eof" when none can be
    service,    \* "running", "completed" or "failed"
    owed, lost, \* a message produced and not taken yet / dropped
    phase,      \* the response: "idle", "open" or "closed"
    verdict,    \* "none", "ok" or "error": what the client is told
    outcome     \* "running", "over", "closed" by the server, "crashed"

request  == <<kind, trailers, http1>>
made     == <<service, owed, lost>>
sent     == <<phase, verdict>>

vars == <<request, plain, pc, error, input, made, sent, outcome>>

Kinds == {"unary", "client_stream", "server_stream", "bidi_stream"}

Inputs == [left : 0..MaxRequests, eof : BOOLEAN]

TypeOK ==
    /\ kind \in Kinds
    /\ trailers \in BOOLEAN /\ http1 \in BOOLEAN /\ plain \in BOOLEAN
    /\ pc \in {"dispatch", "read", "call", "first", "start", "returned", "service",
               "last", "ends", "body", "stop", "done"}
    /\ error \in BOOLEAN
    /\ input \in Inputs
    /\ service \in {"running", "completed", "failed"}
    /\ owed \in BOOLEAN /\ lost \in BOOLEAN
    /\ phase \in {"idle", "open", "closed"}
    /\ verdict \in {"none", "ok", "error"}
    /\ outcome \in {"running", "over", "closed", "crashed"}

Init ==
    /\ kind \in Kinds
    /\ trailers \in BOOLEAN
    /\ http1 \in BOOLEAN
    /\ plain \in BOOLEAN
    /\ plain => kind = "unary" /\ ~trailers
    /\ pc = "dispatch"
    /\ error = FALSE
    /\ input \in [left : 0..MaxRequests, eof : {FALSE}]
    /\ plain => input.left <= 1
    /\ service = "running"
    /\ owed = FALSE /\ lost = FALSE
    /\ phase = "idle" /\ verdict = "none"
    /\ outcome = "running"
-----------------------------------------------------------------------------
Streaming  == kind \in {"server_stream", "bidi_stream"}
ReadsFirst == kind \in {"unary", "server_stream"}

Drained == [left |-> 0, eof |-> TRUE]

(* Slips in the operators that follow.                                      *)
LeaveInput  == UNCHANGED input
AlwaysOk    == "ok"
StartLater  == UNCHANGED phase /\ pc' = IF owed THEN "returned" ELSE "ends"
NoEndAfter  == LeaveInput /\ error' = TRUE /\ pc' = "stop" /\ UNCHANGED outcome

\* _drain_request_body: only HTTP/1 servers need it.  It reads from the client,
\* which may fail.
Drain      == input' = IF http1 THEN Drained ELSE input
DrainFails == http1 /\ ~input.eof /\ UNCHANGED input

Crash == pc' = "done" /\ outcome' = "crashed"

\* The handler of __call__: the error becomes an HTTP error response.
FailPlainly ==
    \/ Drain /\ error' = TRUE /\ plain' = TRUE /\ pc' = "start" /\ UNCHANGED outcome
    \/ DrainFails /\ Crash /\ UNCHANGED <<plain, error>>

\* An exception before anything was sent.  The handler of _handle_stream makes
\* it a stream of its end alone; what that handler raises itself goes further.
Fail ==
    \/ plain /\ FailPlainly
    \/ ~plain /\ \/ Drain /\ error' = TRUE /\ pc' = "start" /\ UNCHANGED <<plain, outcome>>
                 \/ http1 /\ ~input.eof /\ FailPlainly

\* An exception in _response_stream: what remains to be sent is the end.
FailLate ==
    \/ Drain /\ error' = TRUE /\ pc' = "last" /\ UNCHANGED outcome
    \/ DrainFails /\ Crash /\ UNCHANGED error

Verdict == IF error THEN "error" ELSE "ok"

DropOwed == lost' = (lost \/ owed) /\ owed' = FALSE

\* What a service that was given the request stream may have read of it.
Reads ==
    IF ReadsFirst THEN input' = input
    ELSE input' \in {[left |-> n, eof |-> e /\ n = 0] : n \in 0..input.left, e \in BOOLEAN}
-----------------------------------------------------------------------------
\* __call__ up to the endpoint: an unknown path, method, codec or protocol is
\* answered with an HTTP error; a stream's unknown compression in the stream.
Dispatch ==
    /\ pc = "dispatch"
    /\ \/ FailPlainly
       \/ ~plain /\ Fail
       \/ /\ pc' = IF ReadsFirst THEN "read"
                   ELSE IF Streaming THEN "first" ELSE "call"
          /\ UNCHANGED <<plain, error, input, outcome>>
    /\ UNCHANGED <<request, made, sent>>

\* _consume_single_request reads to the end, or to a second message; of a plain
\* request the Content-Length is read, or to the end without one.  Either may
\* turn out bad.
Read ==
    /\ pc = "read"
    /\ \/ /\ plain \/ input.left = 1
          /\ input' \in [left : {0}, eof : IF plain THEN BOOLEAN ELSE {TRUE}]
          /\ pc' = IF Streaming THEN "first" ELSE "call"
          /\ UNCHANGED <<plain, error, outcome>>
       \/ Fail
    /\ UNCHANGED <<request, made, sent>>

CallReturns ==
    /\ pc = "call"
    /\ Reads
    /\ service' = "completed" /\ owed' = TRUE
    /\ pc' = "first"
    /\ UNCHANGED <<request, plain, error, lost, sent, outcome>>

CallRaises ==
    /\ pc = "call"
    /\ service' = "failed"
    /\ Fail
    /\ UNCHANGED <<request, owed, lost, sent>>

\* The first message, on which the headers wait: a plain response is encoded
\* here, and may fail to be.
FirstMessage ==
    /\ pc = "first"
    /\ \/ /\ IF Streaming THEN Reads ELSE UNCHANGED input
          /\ owed' = TRUE
          /\ pc' = "start"
          /\ UNCHANGED <<plain, lost, error, outcome>>
       \/ plain /\ DropOwed /\ Fail
    /\ UNCHANGED <<request, service, sent>>

\* A stream without messages, or one that fails before its first.
FirstEnds ==
    /\ pc = "first" /\ Streaming
    /\ Reads
    /\ service' = "completed"
    /\ pc' = "start"
    /\ UNCHANGED <<request, plain, error, owed, lost, sent, outcome>>

FirstRaises ==
    /\ pc = "first" /\ Streaming
    /\ service' = "failed"
    /\ Fail
    /\ UNCHANGED <<request, owed, lost, sent>>

\* start_response, then what is returned: a plain body, the end alone, or the
\* generator of the messages.
Open == phase' = "open"
        /\ pc' = IF plain THEN "body" ELSE IF owed THEN "returned" ELSE "ends"

Start ==
    /\ pc = "start"
    /\ Open
    /\ UNCHANGED <<request, plain, error, input, made, verdict, outcome>>

\* start_response refuses a header the service set; it does so again for the
\* responses the handlers make of that error, which repeat the headers.
StartFails ==
    /\ pc = "start"
    /\ Crash
    /\ Drain \/ DrainFails
    /\ UNCHANGED <<request, plain, error, made, sent>>

\* A response of its end alone is made before it is returned.  If the trailers
\* cannot be handed over, the handlers call start_response again, which a WSGI
\* server refuses.
EndAlone ==
    /\ pc = "ends"
    /\ \/ pc' = "body" /\ UNCHANGED <<input, outcome>>
       \/ trailers /\ Crash /\ (Drain \/ DrainFails)
    /\ UNCHANGED <<request, plain, error, made, sent>>
-----------------------------------------------------------------------------
\* The WSGI server asks for the next chunk: a message that encodes.
TakeMessage ==
    /\ pc = "returned" /\ owed
    /\ owed' = FALSE
    /\ pc' = "service"
    /\ UNCHANGED <<request, plain, error, input, service, lost, sent, outcome>>

EncodeFails ==
    /\ pc = "returned" /\ owed
    /\ DropOwed
    /\ FailLate
    /\ UNCHANGED <<request, plain, service, sent>>

\* And then the next: the service goes on behind the message just taken.
NextMessage ==
    /\ pc = "service" /\ Streaming
    /\ Reads
    /\ owed' = TRUE
    /\ pc' = "returned"
    /\ UNCHANGED <<request, plain, error, service, lost, sent, outcome>>

NextEnds ==
    /\ pc = "service"
    /\ IF Streaming THEN Reads ELSE UNCHANGED input
    /\ service' = "completed"
    /\ pc' = "last"
    /\ UNCHANGED <<request, plain, error, owed, lost, sent, outcome>>

NextRaises ==
    /\ pc = "service" /\ Streaming
    /\ service' = "failed"
    /\ FailLate
    /\ UNCHANGED <<request, plain, owed, lost, sent>>

Told == verdict' = Verdict /\ phase' = "closed" /\ pc' = "stop"

\* The generator's end message, or the trailers handed to the server's
\* extension and an empty chunk; the extension may raise.
End ==
    /\ pc = "last"
    /\ \/ Told /\ UNCHANGED outcome
       \/ trailers /\ Crash /\ UNCHANGED sent
    /\ UNCHANGED <<request, plain, error, input, made>>

\* What was returned as a list: an answer under the HTTP status 200 and nothing
\* behind it, an HTTP error, or the end of a stream.
TakeBody ==
    /\ pc = "body"
    /\ IF owed THEN owed' = FALSE /\ UNCHANGED <<sent, pc>>
       ELSE Told /\ UNCHANGED owed
    /\ UNCHANGED <<request, plain, error, input, service, lost, outcome>>

\* StopIteration.
Stop ==
    /\ pc = "stop"
    /\ pc' = "done"
    /\ outcome' = "over"
    /\ UNCHANGED <<request, plain, error, input, made, sent>>

\* The server closes the iterable, the client being gone: GeneratorExit is not
\* an Exception, so no end is made.
Close ==
    /\ pc \in {"returned", "service", "last", "body", "stop"}
    /\ pc' = "done"
    /\ outcome' = "closed"
    /\ UNCHANGED <<request, plain, error, input, made, sent>>

Over == pc = "done" /\ UNCHANGED vars

Application == Dispatch \/ Read \/ CallReturns \/ CallRaises \/ FirstMessage
               \/ FirstEnds \/ FirstRaises \/ Start \/ StartFails \/ EndAlone
Iteration   == TakeMessage \/ EncodeFails \/ NextMessage \/ NextEnds \/ NextRaises
               \/ End \/ TakeBody \/ Stop

Next == Application \/ Iteration \/ Close \/ Over

Spec == Init /\ [][Next]_vars

\* The server asks for the chunks until it closes the response.  Of a service
\* it is only assumed that it does something when it is asked.
FairSpec == Spec /\ WF_vars(Application) /\ WF_vars(Iteration)
-----------------------------------------------------------------------------
(* The properties.                                                          *)

\* The client is told "ok" only when it was given everything the service made,
\* and an error that was caught is told, whichever of the two error handlings
\* caught it.
TruthfulEnd ==
    /\ verdict = "ok" => service = "completed" /\ ~owed /\ ~lost
    /\ verdict # "none" /\ (error \/ lost \/ service = "failed") => verdict = "error"

\* "In HTTP/1, the request body should be drained before returning", says
\* _drain_request_body; it is, before every response that tells of an error.
ErrorIsDrained == http1 /\ verdict = "error" => input.eof

\* An error that was caught reaches the client unless the client is gone or
\* the server's own callables fail.
ErrorsAreTold ==
    error ~> (verdict = "error" \/ outcome \in {"closed", "crashed"})

\* The promise the asynchronous server keeps too, here without its licence:
\* nothing aborts a call from outside, and the trailers are not told apart.
Response == INSTANCE ResponseStream
              WITH trailers <- FALSE, aborted <- FALSE

IsResponse == Response!Spec
=============================================================================
