---------------------------- MODULE ClientStream ----------------------------
(***************************************************************************)
(* One call made by ConnectClient or ConnectClientSync: a unary call over  *)
(* the Connect protocol, or the generator of _send_request_bidi_stream,    *)
(* which every other call is made of.                                      *)
(*                                                                         *)
(* The generator and the code that iterates over it, the consumer, share   *)
(* one task.  The asynchronous flavours put the whole body of the          *)
(* generator, its yields included, under a timeout that cancels this task; *)
(* "async" has the timeout of the standard library, "backport" the one     *)
(* _asyncio_timeout.py keeps for Python 3.10.  The synchronous flavour     *)
(* leaves its timeout to the HTTP client.  A step is the code between two  *)
(* awaits, or between two calls of the HTTP client; pc names the await.    *)
(***************************************************************************)
EXTENDS Naturals

CONSTANTS
    MaxBatch,   \* bound: messages in a chunk of the body
    MaxAsks     \* bound: times the consumer's task is cancelled from outside

ASSUME ClientAssumption == MaxBatch \in Nat /\ MaxAsks \in Nat

VARIABLES
    flavor,      \* "async", "backport" or "sync"
    shape,       \* "unary" (Connect only) or "stream"
    proto,       \* "connect", "grpc" or "grpc_web"
    deadline,    \* the call has a timeout
    late,        \* and the time is up: ctx.timeout_ms <= 0
    pc, exc,     \* where the call is, and the exception in flight
    timer,       \* the asyncio timeout: "off", "armed" or "expiring"
    asked,       \* cancellations of the task from outside
    pending,     \* a CancelledError is due at the task's next await
    http,        \* the HTTP stream: "none", "open" or "closed"
    body,        \* the body of the response: "coming", "finished" or "broken"
    hstatus,     \* the grpc-status among the response headers
    tstatus,     \* and among the trailers
    reader,      \* the envelope reader exists
    readMessage, \* and has read a message
    batch, tail, \* the messages left in this feed, and what comes after them
    streamError, \* the synchronous stream_error
    consumer,    \* "iterating", "closing" the generator, or "gone"
    struck,      \* ghost: the consumer's own code was hit by a CancelledError
    result, cause \* what the generator ended with, and ghost: why

call     == <<flavor, shape, proto, deadline>>
clock    == <<late, timer, asked, pending>>
response == <<body, hstatus, tstatus, reader, readMessage>>
feeding  == <<batch, tail, streamError>>
ending   == <<result, cause>>

vars == <<call, clock, response, feeding, ending, pc, exc, http, consumer, struck>>

Async    == flavor # "sync"
NetErrors == {"etimedout", "reset", "rst_cancel", "other"}
Excs     == {"none", "timeout", "cancel", "connect", "exit"} \cup NetErrors
Statuses == {"absent", "ok", "error", "garbage"}
Awaits   == {"posting", "opening", "reading", "checking", "draining", "closing"}

TypeOK ==
    /\ flavor \in {"async", "backport", "sync"}
    /\ shape \in {"unary", "stream"}
    /\ proto \in {"connect", "grpc", "grpc_web"}
    /\ deadline \in BOOLEAN /\ late \in BOOLEAN
    /\ pc \in Awaits \cup {"created", "yielded", "ended"}
    /\ exc \in Excs
    /\ timer \in {"off", "armed", "expiring"}
    /\ asked \in 0..MaxAsks
    /\ pending \in BOOLEAN
    /\ http \in {"none", "open", "closed"}
    /\ body \in {"coming", "finished", "broken"}
    /\ hstatus \in Statuses /\ tstatus \in Statuses
    /\ reader \in BOOLEAN /\ readMessage \in BOOLEAN
    /\ batch \in 0..MaxBatch
    /\ tail \in {"more", "end", "connect", "other"}
    /\ streamError \in BOOLEAN
    /\ consumer \in {"iterating", "closing", "gone"}
    /\ struck \in {"no", "asked", "unasked"}
    /\ result \in {"none", "done", "closed", "raw", "deadline", "canceled",
                   "unavailable", "reset", "connect"}
    /\ cause \in Excs

Init ==
    /\ flavor \in {"async", "backport", "sync"}
    /\ shape \in {"unary", "stream"}
    /\ proto \in IF shape = "unary" THEN {"connect"} ELSE {"connect", "grpc", "grpc_web"}
    /\ deadline \in BOOLEAN
    /\ late = FALSE
    /\ pc = "created" /\ exc = "none"
    /\ timer = "off" /\ asked = 0 /\ pending = FALSE
    /\ http = "none"
    /\ body = "coming"
    /\ hstatus = "absent" /\ tstatus = "absent"
    /\ reader = FALSE /\ readMessage = FALSE
    /\ batch = 0 /\ tail = "more"
    /\ streamError = FALSE
    /\ consumer = "iterating" /\ struck = "no"
    /\ result = "none" /\ cause = "none"
-----------------------------------------------------------------------------
(* How a call ends.                                                         *)

\* The status that counts: the trailers', or, when no message was read and the
\* trailers have none, the headers'.
StatusWith(t) == IF t = "absent" /\ ~readMessage THEN hstatus ELSE t
GrpcStatus    == StatusWith(tstatus)

(* Slips in the operators that follow.                                      *)
MissingIsFine(s)  == IF s = "error" THEN "connect" ELSE "none"
NeverConvert(e)   == e
LastError(e)      == FALSE
NoStatus(e)       == IF reader /\ GrpcStatus = "absent" THEN "raw" ELSE "reset"
KeepTimer         == UNCHANGED timer
NeverArmed        == timer' = "off"
Swallow(e)        == exc' = e /\ UNCHANGED pc

\* handle_response_complete after a whole body, for a gRPC status s.
Completion(s) ==
    IF s = "ok" THEN "none" ELSE IF s = "garbage" THEN "other" ELSE "connect"

\* The exit of the timeout.  The standard library's converts a CancelledError
\* only if nobody but itself has cancelled the task, the backport always.
Converted(e) ==
    IF e = "cancel" /\ timer = "expiring" /\ (flavor = "backport" \/ asked = 0)
    THEN "timeout" ELSE e

\* In the synchronous client an error of the reader survives one of the exit
\* of the HTTP stream.
KeepsStreamError(e) == streamError /\ e \in {"reset", "rst_cancel", "other"}

\* A stream reset, mapped to a code.  The reader may still raise for the status
\* in the trailers, with the reset's code; trailers that cannot be decoded raise
\* while the reset is being handled, and nothing maps that.
ResetResult(e) ==
    IF reader /\ proto # "connect" /\ GrpcStatus = "garbage" THEN "raw"
    ELSE IF e = "reset" THEN "reset"
    ELSE IF deadline /\ late THEN "deadline" ELSE "canceled"

\* The except clauses, in their order.
ResultOf(e) ==
    IF e = "none" THEN "done"
    ELSE IF e = "exit" THEN "closed"
    ELSE IF e \in {"timeout", "etimedout"} THEN "deadline"
    ELSE IF e = "connect" THEN "connect"
    ELSE IF e = "cancel" THEN "canceled"
    ELSE IF KeepsStreamError(e) THEN "connect"
    ELSE IF shape = "stream" /\ e \in {"reset", "rst_cancel"} THEN ResetResult(e)
    ELSE "unavailable"

\* The timeout is entered, if there is one, and left.
Arm    == timer' = IF Async /\ deadline THEN "armed" ELSE "off"
Disarm == timer' = "off"

\* The call ends, e being in flight when the HTTP stream has been left.
Settle(e) ==
    /\ result' = ResultOf(Converted(e))
    /\ cause' = Converted(e)
    /\ exc' = e
    /\ pc' = "ended"
    /\ http' = "closed"
    /\ Disarm

\* The body of the async with is left with e in flight.
LeaveStream(e) == exc' = e /\ pc' = "closing"

\* What the trailers may say once the body is over; gRPC-Web has them in it.
TrailerStatuses == IF proto = "grpc" THEN Statuses ELSE {tstatus}
-----------------------------------------------------------------------------
(* The request.                                                             *)

\* The first __anext__ (or the unary call): the timeout is entered first.
Start ==
    /\ pc = "created" /\ consumer = "iterating"
    /\ pc' = IF shape = "unary" THEN "posting" ELSE "opening"
    /\ Arm
    /\ http' = "open"
    /\ UNCHANGED <<call, late, asked, pending, response, feeding, ending, exc,
                   consumer, struck>>

\* The whole unary response: a message, an error or one that is refused; or
\* the network fails, the mapping of resets being for streams only.
Answer ==
    /\ pc = "posting" /\ ~pending
    /\ \/ body' = "finished" /\ \E e \in {"none", "connect", "other"} : Settle(e)
       \/ body' = "broken" /\ \E e \in NetErrors : Settle(e)
    /\ UNCHANGED <<call, late, asked, pending, hstatus, tstatus, reader,
                   readMessage, feeding, consumer, struck>>

OpenFails ==
    /\ pc = "opening" /\ ~pending
    /\ body' = "broken"
    /\ \E e \in NetErrors : Settle(e)
    /\ UNCHANGED <<call, late, asked, pending, hstatus, tstatus, reader,
                   readMessage, feeding, consumer, struck>>

\* The head of the response: another status than 200, a content type or a
\* compression that is refused, or a stream to be read.
Opens ==
    /\ pc = "opening" /\ ~pending
    /\ \/ pc' = "draining" /\ UNCHANGED <<exc, reader, hstatus>>
       \/ LeaveStream("connect") /\ UNCHANGED <<reader, hstatus>>
       \/ /\ pc' = "reading"
          /\ reader' = TRUE
          /\ IF proto = "connect" THEN UNCHANGED hstatus ELSE hstatus' \in Statuses
          /\ UNCHANGED exc
    /\ UNCHANGED <<call, clock, body, tstatus, readMessage, feeding, ending,
                   http, consumer, struck>>

\* The body of a response that is not a 200 holds the error.
Drained ==
    /\ pc = "draining" /\ ~pending
    /\ body' = "finished"
    /\ LeaveStream("connect")
    /\ UNCHANGED <<call, clock, hstatus, tstatus, reader, readMessage, feeding,
                   ending, http, consumer, struck>>
-----------------------------------------------------------------------------
(* The response.                                                            *)

\* The feed goes on with n messages left and t behind them.
Advance(n, t) ==
    /\ tail' = t
    /\ IF n > 0
       THEN /\ pc' = "yielded"
            /\ batch' = n - 1
            /\ readMessage' = TRUE
            /\ UNCHANGED <<exc, tstatus, streamError>>
       ELSE /\ batch' = 0
            /\ IF t \in {"connect", "other"}
               THEN /\ LeaveStream(t)
                    /\ streamError' = (t = "connect" /\ ~Async)
                    /\ readMessage' \in {readMessage, TRUE}
                    /\ UNCHANGED tstatus
               ELSE /\ pc' = "reading"
                    /\ readMessage' = (readMessage \/ t = "end")
                    /\ IF t = "end" /\ proto = "grpc_web"
                       THEN tstatus' \in Statuses ELSE UNCHANGED tstatus
                    /\ UNCHANGED <<exc, streamError>>

\* A chunk of the body is fed to the reader: some messages, then nothing more
\* for now, the end message, or a frame that raises.
Chunk ==
    /\ pc = "reading" /\ ~pending
    /\ \E n \in 0..MaxBatch, t \in {"more", "end", "connect", "other"} :
         /\ t = "end" => proto # "grpc"
         /\ Advance(n, t)
    /\ UNCHANGED <<call, clock, body, hstatus, reader, ending, http, consumer, struck>>

\* The consumer asks for the next message: the asynchronous flavours first
\* give a cancellation its chance, with sleep(0).
Resume ==
    /\ pc = "yielded" /\ consumer = "iterating"
    /\ IF Async
       THEN pc' = "checking" /\ UNCHANGED <<exc, feeding, tstatus, readMessage>>
       ELSE Advance(batch, tail)
    /\ UNCHANGED <<call, clock, body, hstatus, reader, ending, http, consumer, struck>>

Checked ==
    /\ pc = "checking" /\ ~pending
    /\ Advance(batch, tail)
    /\ UNCHANGED <<call, clock, body, hstatus, reader, ending, http, consumer, struck>>

\* The body ends: the synchronous client looks at the time before it asks the
\* reader whether the response was complete.
BodyEnds ==
    /\ pc = "reading" /\ ~pending
    /\ body' = "finished"
    /\ \E t \in TrailerStatuses :
         /\ tstatus' = t
         /\ LeaveStream(IF ~Async /\ deadline /\ late THEN "timeout"
                        ELSE IF proto = "connect" THEN "none"
                        ELSE Completion(StatusWith(t)))
    /\ UNCHANGED <<call, clock, hstatus, reader, readMessage, feeding, ending,
                   http, consumer, struck>>

\* The network fails, or the server resets the stream, perhaps with trailers.
NetFails ==
    /\ pc \in {"reading", "draining"} /\ ~pending
    /\ body' = "broken"
    /\ tstatus' \in TrailerStatuses
    /\ \E e \in NetErrors : LeaveStream(e)
    /\ UNCHANGED <<call, clock, hstatus, reader, readMessage, feeding, ending,
                   http, consumer, struck>>

\* The exit of the HTTP stream, which may raise in its turn.
ExitStream ==
    /\ pc = "closing" /\ (pending => consumer = "gone")
    /\ \E e \in {exc} \cup NetErrors : Settle(e)
    /\ UNCHANGED <<call, late, asked, pending, response, feeding, consumer, struck>>
-----------------------------------------------------------------------------
(* The consumer.                                                            *)

\* It stops early and closes the generator, or drops it; in the latter case
\* someone else closes it later, the event loop or the garbage collector.
Stop ==
    /\ pc = "yielded" /\ consumer = "iterating"
    /\ \/ consumer' = "closing" /\ LeaveStream("exit")
       \/ consumer' = "gone" /\ UNCHANGED <<pc, exc>>
    /\ UNCHANGED <<call, clock, response, feeding, ending, http, struck>>

CloseOrphan ==
    /\ pc = "yielded" /\ consumer = "gone"
    /\ LeaveStream("exit")
    /\ UNCHANGED <<call, clock, response, feeding, ending, http, consumer, struck>>

\* The task is suspended in the consumer's own code when a CancelledError is
\* due: it is raised there, and nothing of this library sees it.
Strike ==
    /\ pending
    /\ consumer = "gone" \/ pc = "yielded"
    /\ pending' = FALSE
    /\ consumer' = "gone"
    /\ struck' = IF asked = 0 THEN "unasked" ELSE "asked"
    /\ UNCHANGED <<call, late, timer, asked, response, feeding, ending, pc, exc, http>>
-----------------------------------------------------------------------------
(* Time and cancellation.                                                   *)

TimeIsUp ==
    /\ deadline /\ ~late
    /\ late' = TRUE
    /\ UNCHANGED <<call, timer, asked, pending, response, feeding, ending, pc,
                   exc, http, consumer, struck>>

\* _on_timeout: the task is cancelled, wherever it is suspended.
FireTimer ==
    /\ timer = "armed" /\ late
    /\ timer' = "expiring"
    /\ pending' = TRUE
    /\ UNCHANGED <<call, late, asked, response, feeding, ending, pc, exc, http,
                   consumer, struck>>

AskCancel ==
    /\ Async /\ asked < MaxAsks
    /\ pc \in Awaits \cup {"yielded"} /\ consumer # "gone"
    /\ asked' = asked + 1
    /\ pending' = TRUE
    /\ UNCHANGED <<call, late, timer, response, feeding, ending, pc, exc, http,
                   consumer, struck>>

\* The CancelledError is raised at the await of the call.  One raised while
\* the stream is being entered or left ends the matter.
Throw ==
    /\ pending /\ pc \in Awaits /\ consumer # "gone"
    /\ pending' = FALSE
    /\ IF pc \in {"reading", "checking", "draining"}
       THEN LeaveStream("cancel") /\ UNCHANGED <<timer, http, ending>>
       ELSE Settle("cancel")
    /\ UNCHANGED <<call, late, asked, response, feeding, consumer, struck>>

Over == pc = "ended" /\ UNCHANGED vars

Consumer == Start \/ Resume \/ Stop
Network  == Answer \/ OpenFails \/ Opens \/ Drained \/ Chunk \/ BodyEnds \/ NetFails
Client   == Checked \/ ExitStream \/ Throw \/ CloseOrphan
Clock    == TimeIsUp \/ FireTimer

Next == Consumer \/ Network \/ Client \/ Clock \/ AskCancel \/ Strike \/ Over

Spec == Init /\ [][Next]_vars

(***************************************************************************)
(* The task runs, timers fire, the HTTP stream can be left, and dropped    *)
(* generators are closed.  Nothing is assumed of the server, of the        *)
(* consumer or of time.                                                    *)
(***************************************************************************)
FairSpec == Spec /\ WF_vars(Client) /\ WF_vars(FireTimer)
-----------------------------------------------------------------------------
(* The properties.                                                          *)

\* A call that ends well had its whole response: the body came to its end,
\* every message was handed over, no frame was refused, and under gRPC the
\* status that counts said so.  (Connect asks for no end message.)
DoneIsComplete ==
    result = "done" =>
        /\ body = "finished"
        /\ batch = 0 /\ tail \in {"more", "end"}
        /\ shape = "stream" => reader
        /\ proto # "connect" => GrpcStatus = "ok"

\* Deadline and cancellation are told apart although both arrive as a
\* CancelledError of the same task: a call is over its deadline only when time
\* was up or the network timed out, and canceled only when somebody else than
\* the timeout asked, or the server's reset said so.
BlameIsRight ==
    /\ result = "deadline" => (deadline /\ late) \/ cause = "etimedout"
    /\ result = "canceled" => asked > 0 \/ cause = "rst_cancel"

\* Only a reset whose trailers cannot be decoded leaves the call as anything
\* but a ConnectError.
RawIsGarbage ==
    result = "raw" => cause \in {"reset", "rst_cancel"} /\ GrpcStatus = "garbage"

\* _client_sync.py, of an error of its own stream handling: "It should always
\* be fine to prioritize the stream error here."  It is, short of a timeout.
StreamErrorFirst ==
    streamError /\ pc = "ended" => result = "connect" \/ cause = "etimedout"

\* A call that is over has nothing in store for its task: no HTTP stream, no
\* timeout that would cancel whatever it does next, and no CancelledError still
\* to be raised in it, unless it had dropped the generator before.
NothingHeld ==
    pc = "ended" => http = "closed" /\ timer = "off" /\ (pending => consumer = "gone")

\* A consumer that stops, in whatever way, leaves no call behind.
Released == (consumer # "iterating") ~> pc = "ended"

\* An asynchronous call whose time is up waits for the network no longer: it
\* ends, or its consumer has not come back for the next message.
DeadlineHolds ==
    (Async /\ deadline /\ late /\ pc # "created") ~> (pc \in {"ended", "yielded"})

\* errors.py: "Errors surfacing on the client side such as timeouts will also
\* be raised as a ConnectError with an appropriate [Code][]."  A timeout that
\* fires while the consumer is busy with a message is a bare CancelledError.
TimeoutIsConnectError == struck # "unasked"
=============================================================================
