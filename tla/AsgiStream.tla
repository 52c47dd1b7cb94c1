----------------------------- MODULE AsgiStream -----------------------------
(***************************************************************************)
(* ConnectASGIApplication._handle_stream: one call of an enveloped RPC     *)
(* (every kind under gRPC and gRPC-Web, the streaming kinds under          *)
(* Connect) served by an asyncio task, from the negotiation of the request *)
(* compression to the last event handed to the ASGI server.                *)
(*                                                                         *)
(* Actors: the handler task, the _watch_for_disconnect task it starts for  *)
(* a server stream, the user's service, the client, and the ASGI server,   *)
(* which may cancel the handler at any await.  A step of the handler is    *)
(* the code between two awaits; pc names the await it is suspended at.     *)
(***************************************************************************)
EXTENDS Naturals

CONSTANTS
    MaxCancels,           \* bound: times the ASGI server cancels the task
    CancelAfterDelivery,  \* BOOLEAN: a cancelled send may have taken effect
    ReceiveMayFail        \* BOOLEAN: receive() may raise in the monitor

ASSUME AsgiAssumption ==
    /\ MaxCancels \in Nat
    /\ CancelAfterDelivery \in BOOLEAN
    /\ ReceiveMayFail \in BOOLEAN

Kinds == {"unary", "client_stream", "server_stream", "bidi_stream"}

VARIABLES
    kind,         \* the endpoint type
    trailers,     \* protocol.uses_trailers()
    pc,           \* the await the handler is suspended at, or "done"
    exc,          \* the exception in flight; in the finally, the one caught
    sentHeaders,  \* the local sent_headers
    nread,        \* messages taken by _consume_single_request
    client,       \* "sending", "complete" (request fully sent) or "gone"
    mon,          \* the monitor task
    gen,          \* response_stream: "none", "fresh", "suspended", "finished"
    service,      \* "running", "completed" or "failed"
    owed, lost,   \* a message yielded and not sent yet / dropped
    wire,         \* what the ASGI server has accepted so far
    verdict,      \* the outcome the accepted events tell the client
    late,         \* messages accepted after the disconnect was detected
    cancels,      \* cancellations so far
    outcome       \* how the handler left: "running", "returned" or what it raised

rpc         == <<kind, trailers>>
serviceVars == <<gen, service, owed, lost>>
wireVars    == <<wire, verdict, late>>

vars == <<kind, trailers, pc, exc, sentHeaders, nread, client, mon, gen,
          service, owed, lost, wire, verdict, late, cancels, outcome>>

Pcs == {"start", "read", "call", "next", "headers", "body", "join", "close",
        "endStart", "endBody", "endTrailers", "done"}

TypeOK ==
    /\ kind \in Kinds
    /\ trailers \in BOOLEAN
    /\ pc \in Pcs
    /\ exc \in {"none", "cancel", "connect", "other"}
    /\ sentHeaders \in BOOLEAN
    /\ nread \in 0..1
    /\ client \in {"sending", "complete", "gone"}
    /\ mon \in {"none", "watching", "cancelling", "cancelled", "detected", "failed"}
    /\ gen \in {"none", "fresh", "suspended", "finished"}
    /\ service \in {"running", "completed", "failed"}
    /\ owed \in BOOLEAN
    /\ lost \in BOOLEAN
    /\ wire \in {"idle", "open", "ended", "closed", "broken"}
    /\ verdict \in {"none", "ok", "error"}
    /\ late \in 0..2
    /\ cancels \in 0..MaxCancels
    /\ outcome \in {"running", "returned", "connect", "other", "cancel"}

Init ==
    /\ kind \in Kinds
    /\ trailers \in BOOLEAN
    /\ pc = "start"
    /\ exc = "none"
    /\ sentHeaders = FALSE
    /\ nread = 0
    /\ client = "sending"
    /\ mon = "none"
    /\ gen = "none"
    /\ service = "running"
    /\ owed = FALSE
    /\ lost = FALSE
    /\ wire = "idle"
    /\ verdict = "none"
    /\ late = 0
    /\ cancels = 0
    /\ outcome = "running"
-----------------------------------------------------------------------------
(* The endpoint types whose response_stream is the service's own generator, *)
(* and those whose request is consumed before the service is called.        *)
Streaming   == kind \in {"server_stream", "bidi_stream"}
ReadsFirst  == kind \in {"unary", "server_stream"}

(* Slips a maintainer could make in the operators that follow them, kept so  *)
(* that each property can be shown to notice one.                           *)
ForgetHeaders     == UNCHANGED sentHeaders
NeverLooks        == FALSE
AlwaysOk          == "ok"
ResendHeaders(p)  == exc' = p /\ pc' = "endStart"
ForgetMonitor(p)  == exc' = p /\ pc' = "close" /\ UNCHANGED mon

\* The local is set once the await of the headers is over.
HeadersAreSent == sentHeaders' = TRUE

\* disconnect_detected.is_set()
Disconnected == mon = "detected"

\* The ASGI server's side of one response: it takes an event in its order.
Takes == {<<"idle", "start">>, <<"open", "more">>, <<"open", "final">>,
          <<"ended", "trailers">>}

Deliver(event) ==
    IF <<wire, event>> \notin Takes THEN wire' = "broken"
    ELSE \/ event \in {"start", "more"} /\ wire' = "open"
         \/ event = "final" /\ wire' = IF trailers THEN "ended" ELSE "closed"
         \/ event = "trailers" /\ wire' = "closed"

\* writer.end is given an error only when `except Exception` caught one.
Verdict == IF exc \in {"connect", "other"} THEN "error" ELSE "ok"

\* The exception clauses of the outer try, reached with p in flight: the
\* finally begins, at the headers when none were sent.
Leave(p) ==
    /\ exc' = p
    /\ pc' = IF sentHeaders THEN "endBody" ELSE "endStart"

\* The inner finally, reached with p in flight: the monitor is cancelled and
\* awaited unless it has ended, then the stream is closed.  A monitor that
\* raised makes the await raise, and the stream is not closed.
LeaveLoop(p) ==
    \/ /\ mon = "watching"
       /\ mon' = "cancelling"
       /\ exc' = p /\ pc' = "join"
    \/ /\ mon = "failed"
       /\ Leave("other") /\ UNCHANGED mon
    \/ /\ mon \in {"none", "detected"}
       /\ exc' = p /\ pc' = "close" /\ UNCHANGED mon

DropOwed == lost' = (lost \/ owed) /\ owed' = FALSE
-----------------------------------------------------------------------------
(* The request.                                                            *)

\* Negotiation of the request compression, and the match on the endpoint.
Negotiate ==
    /\ pc = "start"
    /\ \/ Leave("connect") /\ UNCHANGED gen
       \/ /\ pc' = IF ReadsFirst THEN "read"
                   ELSE IF Streaming THEN "next" ELSE "call"
          /\ gen' = IF ~ReadsFirst /\ Streaming THEN "fresh" ELSE gen
          /\ UNCHANGED exc
    /\ UNCHANGED <<rpc, sentHeaders, nread, client, mon, service, owed, lost,
                   wireVars, cancels, outcome>>

\* _consume_single_request is given a message; a second one is refused.  What
\* a client sent before it left is still read.
ReadMessage ==
    /\ pc = "read"
    /\ \/ nread = 0 /\ nread' = 1 /\ UNCHANGED <<pc, exc>>
       \/ nread = 1 /\ Leave("connect") /\ UNCHANGED nread
    /\ UNCHANGED <<rpc, sentHeaders, client, mon, serviceVars, wireVars, cancels, outcome>>

\* The last chunk of the request has been read.  Zero messages are refused;
\* one is given to the service, a server stream getting its monitor here.
ReadEnd ==
    /\ pc = "read"
    /\ client' = IF client = "gone" THEN "gone" ELSE "complete"
    /\ \/ nread = 0 /\ Leave("connect") /\ UNCHANGED <<gen, mon>>
       \/ /\ nread = 1 /\ kind = "unary"
          /\ pc' = "call"
          /\ UNCHANGED <<exc, gen, mon>>
       \/ /\ nread = 1 /\ kind = "server_stream"
          /\ pc' = "next"
          /\ gen' = "fresh"
          /\ mon' = "watching"
          /\ UNCHANGED exc
    /\ UNCHANGED <<rpc, sentHeaders, nread, service, owed, lost, wireVars, cancels, outcome>>

\* http.disconnect before the request is complete, an event that is not a
\* request, a frame that is refused, or (p = "other") one that does not decode.
ReadFails ==
    /\ pc = "read"
    /\ \E p \in {"connect", "other"} : Leave(p)
    /\ UNCHANGED <<rpc, sentHeaders, nread, client, mon, serviceVars, wireVars,
                   cancels, outcome>>

\* A unary or client-streaming service answers, or raises.
CallReturns ==
    /\ pc = "call"
    /\ service' = "completed"
    /\ owed' = TRUE
    /\ gen' = "fresh"
    /\ pc' = "next"
    /\ UNCHANGED <<rpc, exc, sentHeaders, nread, client, mon, lost, wireVars,
                   cancels, outcome>>

CallRaises ==
    /\ pc = "call"
    /\ service' = "failed"
    /\ \E p \in {"connect", "other"} : Leave(p)
    /\ UNCHANGED <<rpc, sentHeaders, nread, client, mon, gen, owed, lost,
                   wireVars, cancels, outcome>>
-----------------------------------------------------------------------------
(* The response loop.                                                      *)

\* response_stream yields.  The disconnect is looked at here and only here:
\* a message yielded after it is dropped.
GenYields ==
    /\ pc = "next"
    /\ Streaming \/ gen = "fresh"
    /\ gen' = "suspended"
    /\ IF Disconnected
       THEN LeaveLoop("connect") /\ lost' = TRUE /\ owed' = FALSE
       ELSE /\ pc' = IF sentHeaders THEN "body" ELSE "headers"
            /\ owed' = TRUE
            /\ UNCHANGED <<exc, mon, lost>>
    /\ UNCHANGED <<rpc, sentHeaders, nread, client, service, wireVars, cancels, outcome>>

GenReturns ==
    /\ pc = "next"
    /\ Streaming \/ gen = "suspended"
    /\ gen' = "finished"
    /\ service' = "completed"
    /\ LeaveLoop("none")
    /\ UNCHANGED <<rpc, sentHeaders, nread, client, owed, lost, wireVars, cancels, outcome>>

GenRaises ==
    /\ pc = "next" /\ Streaming
    /\ gen' = "finished"
    /\ service' = "failed"
    /\ \E p \in {"connect", "other"} : LeaveLoop(p)
    /\ UNCHANGED <<rpc, sentHeaders, nread, client, owed, lost, wireVars, cancels, outcome>>

SendHeaders ==
    /\ pc = "headers"
    /\ Deliver("start")
    /\ HeadersAreSent
    /\ pc' = "body"
    /\ UNCHANGED <<rpc, exc, nread, client, mon, serviceVars, verdict, late,
                   cancels, outcome>>

\* Ghost: a message is accepted although the monitor has seen the disconnect.
CountLate == late' = IF mon = "detected" /\ late < 2 THEN late + 1 ELSE late

SendBody ==
    /\ pc = "body"
    /\ Deliver("more")
    /\ CountLate
    /\ owed' = FALSE
    /\ pc' = "next"
    /\ UNCHANGED <<rpc, exc, sentHeaders, nread, client, mon, gen, service, lost,
                   verdict, cancels, outcome>>

\* send raises, which an ASGI server may do once the client is gone; or the
\* message does not encode, which is found after the headers were sent.
SendFails ==
    /\ pc = "body" \/ (pc = "headers" /\ client = "gone")
    /\ LeaveLoop("other")
    /\ DropOwed
    /\ UNCHANGED <<rpc, sentHeaders, nread, client, gen, service, wireVars,
                   cancels, outcome>>

\* The await of the cancelled monitor is over.
Join ==
    /\ pc = "join" /\ mon = "cancelled"
    /\ pc' = "close"
    /\ UNCHANGED <<rpc, exc, sentHeaders, nread, client, mon, serviceVars,
                   wireVars, cancels, outcome>>

\* aclose(): nothing to do for a generator that ended; a suspended one runs
\* its finally-blocks, which may raise in their turn.
Close ==
    /\ pc = "close"
    /\ gen' = "finished"
    /\ service' = IF service = "running" THEN "failed" ELSE service
    /\ \/ Leave(exc)
       \/ /\ gen = "suspended" /\ Streaming
          /\ \E p \in {"connect", "other"} : Leave(p)
    /\ UNCHANGED <<rpc, sentHeaders, nread, client, mon, owed, lost, wireVars,
                   cancels, outcome>>
-----------------------------------------------------------------------------
(* The outer finally.                                                      *)

Finish(o) == pc' = "done" /\ outcome' = o

\* A caught CancelledError leaves as a ConnectError, an error that is not a
\* ConnectError is raised again, any other is swallowed.
Conclusion == IF exc = "cancel" THEN "connect"
              ELSE IF exc = "other" THEN "other" ELSE "returned"

EndStart ==
    /\ pc = "endStart"
    /\ Deliver("start")
    /\ pc' = "endBody"
    /\ UNCHANGED <<rpc, exc, sentHeaders, nread, client, mon, serviceVars,
                   verdict, late, cancels, outcome>>

\* The last body event: the enveloped end message, or empty before trailers.
EndBody ==
    /\ pc = "endBody"
    /\ Deliver("final")
    /\ IF trailers
       THEN pc' = "endTrailers" /\ UNCHANGED <<verdict, outcome>>
       ELSE verdict' = Verdict /\ Finish(Conclusion)
    /\ UNCHANGED <<rpc, exc, sentHeaders, nread, client, mon, serviceVars, late, cancels>>

EndTrailers ==
    /\ pc = "endTrailers"
    /\ Deliver("trailers")
    /\ verdict' = Verdict
    /\ Finish(Conclusion)
    /\ UNCHANGED <<rpc, exc, sentHeaders, nread, client, mon, serviceVars, late, cancels>>

\* A send of the finally raises: nothing catches it.
EndFails ==
    /\ pc \in {"endStart", "endBody", "endTrailers"}
    /\ client = "gone"
    /\ Finish("other")
    /\ UNCHANGED <<rpc, exc, sentHeaders, nread, client, mon, serviceVars,
                   wireVars, cancels>>
-----------------------------------------------------------------------------
(* Cancellation of the handler task, at the await it is suspended at.      *)

Cancel == cancels < MaxCancels /\ cancels' = cancels + 1

\* _request_stream turns a cancellation of its own awaits into a ConnectError.
CancelRead ==
    /\ pc = "read" /\ Cancel
    /\ Leave("connect")
    /\ UNCHANGED <<rpc, sentHeaders, nread, client, mon, serviceVars, wireVars, outcome>>

\* Inside the service: it may let the cancellation through, fail with an
\* error of its own (a request stream it reads raises ConnectError), or
\* swallow the cancellation and go on.
CancelService ==
    /\ pc = "call" \/ (pc = "next" /\ Streaming)
    /\ Cancel
    /\ \/ UNCHANGED <<pc, exc, mon, gen, service>>
       \/ /\ service' = "failed"
          /\ \E p \in {"cancel", "connect", "other"} :
               IF pc = "call" THEN Leave(p) /\ UNCHANGED <<mon, gen>>
               ELSE LeaveLoop(p) /\ gen' = "finished"
    /\ UNCHANGED <<rpc, sentHeaders, nread, client, owed, lost, wireVars, outcome>>

\* At a send of the loop, before or (CancelAfterDelivery) after it took effect.
CancelSend ==
    /\ pc \in {"headers", "body"} /\ Cancel
    /\ LeaveLoop("cancel")
    /\ \/ DropOwed /\ UNCHANGED wireVars
       \/ /\ CancelAfterDelivery /\ pc = "headers"
          /\ Deliver("start")
          /\ DropOwed /\ UNCHANGED <<verdict, late>>
       \/ /\ CancelAfterDelivery /\ pc = "body"
          /\ Deliver("more")
          /\ CountLate
          /\ owed' = FALSE /\ UNCHANGED <<lost, verdict>>
    /\ UNCHANGED <<rpc, sentHeaders, nread, client, gen, service, outcome>>

\* At the await of the monitor: suppress(CancelledError) hides it.
CancelJoin ==
    /\ pc = "join" /\ mon = "cancelling" /\ Cancel
    /\ mon' = "cancelled"
    /\ pc' = "close"
    /\ UNCHANGED <<rpc, exc, sentHeaders, nread, client, serviceVars, wireVars, outcome>>

\* Inside aclose(), in the finally-blocks of the service's generator.
CancelClose ==
    /\ pc = "close" /\ gen = "suspended" /\ Streaming /\ Cancel
    /\ gen' = "finished"
    /\ service' = IF service = "running" THEN "failed" ELSE service
    /\ \E p \in {"cancel", "connect", "other"} : Leave(p)
    /\ UNCHANGED <<rpc, sentHeaders, nread, client, mon, owed, lost, wireVars, outcome>>

\* At a send of the finally: the response stays unfinished.
CancelEnd ==
    /\ pc \in {"endStart", "endBody", "endTrailers"} /\ Cancel
    /\ Finish("cancel")
    /\ UNCHANGED <<rpc, exc, sentHeaders, nread, client, mon, serviceVars, wireVars>>
-----------------------------------------------------------------------------
(* The monitor task and the client.                                        *)

MonitorSees ==
    /\ mon = "watching" /\ client = "gone"
    /\ mon' = "detected"
    /\ UNCHANGED <<rpc, pc, exc, sentHeaders, nread, client, serviceVars,
                   wireVars, cancels, outcome>>

MonitorFails ==
    /\ ReceiveMayFail
    /\ mon = "watching"
    /\ mon' = "failed"
    /\ UNCHANGED <<rpc, pc, exc, sentHeaders, nread, client, serviceVars,
                   wireVars, cancels, outcome>>

MonitorEnds ==
    /\ mon = "cancelling"
    /\ mon' = "cancelled"
    /\ UNCHANGED <<rpc, pc, exc, sentHeaders, nread, client, serviceVars,
                   wireVars, cancels, outcome>>

ClientLeaves ==
    /\ client # "gone"
    /\ client' = "gone"
    /\ UNCHANGED <<rpc, pc, exc, sentHeaders, nread, mon, serviceVars,
                   wireVars, cancels, outcome>>

\* The call is over and its tasks with it: nothing is left to happen.
Over ==
    /\ pc = "done" /\ mon \notin {"watching", "cancelling"}
    /\ UNCHANGED vars
-----------------------------------------------------------------------------
Request  == Negotiate \/ ReadMessage \/ ReadEnd \/ ReadFails \/ CallReturns \/ CallRaises
Service  == GenYields \/ GenReturns \/ GenRaises
Loop     == SendHeaders \/ SendBody \/ SendFails \/ Join \/ Close
Finally  == EndStart \/ EndBody \/ EndTrailers \/ EndFails
Cancelled == CancelRead \/ CancelService \/ CancelSend \/ CancelJoin
             \/ CancelClose \/ CancelEnd
Monitor  == MonitorSees \/ MonitorEnds

Next == \/ Request \/ Service \/ Loop \/ Finally \/ Cancelled
        \/ Monitor \/ MonitorFails \/ ClientLeaves \/ Over

Spec == Init /\ [][Next]_vars

(***************************************************************************)
(* The event loop runs every ready task, sends and closes complete, and a  *)
(* service asked for its next message answers in some way, not necessarily *)
(* by ending: it may yield forever.  Nothing is assumed of the client, of  *)
(* cancellations, or of a service that has been called and must return.    *)
(***************************************************************************)
Fairness ==
    /\ WF_vars(Service)
    /\ WF_vars(Loop)
    /\ WF_vars(Finally)
    /\ WF_vars(Monitor)

FairSpec == Spec /\ Fairness
-----------------------------------------------------------------------------
(* The properties.                                                          *)

\* The ASGI server is never handed an event it cannot take: one start, before
\* every body, one last body, trailers after it and only when announced.
\* Headers are sent from the loop and from the finally, so this rests on what
\* sent_headers says after every way out of the loop.
InOrder == wire # "broken"

\* A handler that returned has closed the response.  A client told "ok" was
\* sent all the service produced, unless a cancellation is what ended the call
\* (one that was swallowed or overtaken is no excuse).  An exception raised to
\* the ASGI server over a closed response was first told to the client.
TruthfulEnd ==
    /\ outcome = "returned" => wire = "closed"
    /\ verdict = "ok" => \/ service = "completed" /\ ~owed /\ ~lost
                         \/ exc = "cancel"
    /\ outcome = "other" /\ wire = "closed" => verdict = "error"

\* Where a cancelled send may have taken effect, the start event can be sent
\* twice; then it was a cancellation, of the send that carried the headers.
TwiceOnlyByCancel == wire = "broken" => cancels > 0 /\ ~sentHeaders

\* When the call is over no monitor task is left behind and the service's
\* generator has been closed, the comment above the inner finally says;
\* except after a monitor whose receive() raised.
NothingLeft ==
    pc = "done" => /\ mon \notin {"watching", "cancelling"}
                   /\ gen = "suspended" => mon = "failed"

\* After the monitor saw the client go, at most the one message that was
\* already past the check is sent.
OneLate == late <= 1

\* A server stream whose client has gone is over after finitely many steps
\* even if the service would yield forever, unless its monitor died: then
\* nobody is watching, and only the service can end the call.
StopsAfterDisconnect ==
    (mon # "none" /\ client = "gone") ~> (pc = "done" \/ mon = "failed")

\* The response is a ResponseStream: cancelled means aborted.
Response == INSTANCE ResponseStream WITH phase <- wire, aborted <- cancels > 0

IsResponse == Response!Spec
=============================================================================
