------------------------------ MODULE AsgiApp ------------------------------
(***************************************************************************)
(* ConnectASGIApplication as its server sees it: one lifespan call and any *)
(* number of requests, tasks of one event loop that share two things, the  *)
(* service and the table of endpoints resolved from it.  The service may   *)
(* be an asynchronous generator, which has to be started before and closed *)
(* after all use; without a lifespan the table is resolved by the first    *)
(* request.  Unary Connect requests are modelled to their last event, the  *)
(* others are handed to _handle_stream (see AsgiStream).                   *)
(*                                                                         *)
(* A step is the code between two awaits; step and life name the await.    *)
(***************************************************************************)
EXTENDS Naturals

CONSTANT Requests  \* the requests the server ever makes of the application

VARIABLES
    generator,  \* BOOLEAN: the service is an asynchronous generator
    lifespan,   \* BOOLEAN: the server supports lifespans
    server,     \* "starting", "serving", "draining" or "stopped"
    life,       \* the lifespan call
    gen,        \* the generator: "fresh", "open" (at its yield) or "closed"
    resolved,   \* BOOLEAN: _resolved_endpoints is set
    step,       \* [Requests -> the await the request is at]
    error,      \* [Requests -> the error being handled: "none", "connect" or "other"]
    answer,     \* [Requests -> what the server was given: "none", "open", "ok", "error"]
    starts,     \* [Requests -> starts it was offered]
    broken,     \* [Requests -> BOOLEAN: a send has failed]
    left        \* [Requests -> how the call ended]

setup   == <<generator, lifespan>>
service == <<gen, resolved>>
calls   == <<step, error, answer, starts, broken, left>>

vars == <<setup, server, life, service, calls>>

InService == {"calling", "streaming"}
Sends     == {"start", "body", "errorStart", "errorBody"}
Active    == {"reading"} \cup InService \cup Sends

TypeOK ==
    /\ generator \in BOOLEAN /\ lifespan \in BOOLEAN
    /\ server \in {"starting", "serving", "draining", "stopped"}
    /\ life \in {"none", "starting", "announcing", "refusing", "waiting",
                 "stopping", "ending", "over", "raised"}
    /\ gen \in {"fresh", "open", "closed"}
    /\ resolved \in BOOLEAN
    /\ step \in [Requests -> {"new", "over"} \cup Active]
    /\ error \in [Requests -> {"none", "connect", "other"}]
    /\ answer \in [Requests -> {"none", "open", "ok", "error"}]
    /\ starts \in [Requests -> 0..2]
    /\ broken \in [Requests -> BOOLEAN]
    /\ left \in [Requests -> {"running", "returned", "raised", "cancelled"}]

Init ==
    /\ generator \in BOOLEAN /\ lifespan \in BOOLEAN
    /\ server = "starting"
    /\ life = "none"
    /\ gen = "fresh"
    /\ resolved = FALSE
    /\ step = [r \in Requests |-> "new"]
    /\ error = [r \in Requests |-> "none"]
    /\ answer = [r \in Requests |-> "none"]
    /\ starts = [r \in Requests |-> 0]
    /\ broken = [r \in Requests |-> FALSE]
    /\ left = [r \in Requests |-> "running"]
-----------------------------------------------------------------------------
(* Slips in the operators that follow.                                      *)
AnyService   == TRUE
LeaveItOpen  == UNCHANGED gen
Swallowed(r) == "returned"
ToldNot(r,e) == step' = [step EXCEPT ![r] = "errorStart"] /\ UNCHANGED error

\* What a request may do about a table that is not there yet.
MayResolve == ~generator

\* The generator is closed, or has ended by raising.
CloseService == gen' = "closed"

Go(r, s) == step' = [step EXCEPT ![r] = s]

Leave(r, how) == Go(r, "over") /\ left' = [left EXCEPT ![r] = how]

\* An exception in the try block of __call__: _handle_error is entered.
Fail(r, e) == error' = [error EXCEPT ![r] = e] /\ Go(r, "errorStart")

\* What is not a ConnectError or an HTTPException is raised again behind its
\* response.
HowAnswered(r) == IF error[r] = "other" THEN "raised" ELSE "returned"

\* send() has raised: in the try block, or in the handler of its exceptions.
FailAgain(r) ==
    IF step[r] \in {"start", "body"} THEN Fail(r, "other") /\ UNCHANGED left
    ELSE Leave(r, "raised") /\ UNCHANGED error

Answered(r, what) == answer' = [answer EXCEPT ![r] = what]
-----------------------------------------------------------------------------
(* The lifespan.                                                            *)

\* The endpoints are resolved from the service, and the service or an
\* interceptor may raise; nothing catches that.
Resolve(next) ==
    \/ resolved' = TRUE /\ life' = next
    \/ life' = "raised" /\ UNCHANGED resolved

Startup ==
    /\ lifespan /\ life = "none"
    /\ IF generator THEN life' = "starting" /\ UNCHANGED resolved
       ELSE Resolve("announcing")
    /\ UNCHANGED <<setup, server, gen, calls>>

ServiceStarts ==
    /\ life = "starting"
    /\ gen' = "open"
    /\ Resolve("announcing")
    /\ UNCHANGED <<setup, server, calls>>

ServiceRefuses ==
    /\ life = "starting"
    /\ gen' = "closed"
    /\ life' = "refusing"
    /\ UNCHANGED <<setup, server, resolved, calls>>

\* startup.complete and startup.failed reach the server.
Announce ==
    /\ life = "announcing"
    /\ life' = "waiting"
    /\ server' = "serving"
    /\ UNCHANGED <<setup, service, calls>>

Refuse ==
    /\ life = "refusing"
    /\ life' = "over"
    /\ server' = "stopped"
    /\ UNCHANGED <<setup, service, calls>>

Shutdown ==
    /\ life = "waiting" /\ server = "serving"
    /\ \A r \in Requests : step[r] \notin Active
    /\ server' = "draining"
    /\ life' = IF generator THEN "stopping" ELSE "ending"
    /\ UNCHANGED <<setup, service, calls>>

\* aclose() runs the rest of the generator, and may raise what that raises.
ServiceStops ==
    /\ life = "stopping"
    /\ CloseService
    /\ life' = "ending"
    /\ UNCHANGED <<setup, server, resolved, calls>>

\* shutdown.complete or shutdown.failed.
EndLifespan ==
    /\ life = "ending"
    /\ life' = "over"
    /\ server' = "stopped"
    /\ UNCHANGED <<setup, service, calls>>

\* The server gives up on the lifespan call, at any of its awaits.
CancelLifespan ==
    /\ life \notin {"none", "over", "raised"}
    /\ life' = "raised"
    /\ server' = "stopped"
    /\ gen' = IF life \in {"starting", "stopping"} THEN "closed" ELSE gen
    /\ UNCHANGED <<setup, resolved, calls>>

\* The ASGI specification: without a lifespan, or when the lifespan call
\* raises, the server goes on without one.  It stops when it likes.
ServeAnyway ==
    /\ server = "starting"
    /\ ~lifespan \/ life = "raised"
    /\ server' = "serving"
    /\ UNCHANGED <<setup, life, service, calls>>

StopServing ==
    /\ server = "serving" /\ life \in {"none", "raised"}
    /\ server' = "stopped"
    /\ UNCHANGED <<setup, life, service, calls>>
-----------------------------------------------------------------------------
(* A request.                                                               *)

\* Up to the first await: the table, the path, the protocol, the codec.
Arrive(r) ==
    /\ server = "serving" /\ step[r] = "new"
    /\ \/ resolved /\ UNCHANGED resolved
       \/ ~resolved /\ MayResolve /\ resolved' = TRUE
    /\ \/ \E s \in {"reading", "calling", "streaming"} : Go(r, s) /\ UNCHANGED error
       \/ \E e \in {"connect", "other"} : Fail(r, e)
    /\ UNCHANGED <<setup, server, life, gen, answer, starts, broken, left>>

\* Without a table, and none to be had: the request ends in an exception.
ArriveInVain(r) ==
    /\ server = "serving" /\ step[r] = "new"
    /\ ~resolved
    /\ Leave(r, "raised")
    /\ UNCHANGED <<setup, server, life, service, error, answer, starts, broken>>

\* The body of a POST is there; a codec's error is told as it is.
ReadPost(r) ==
    /\ step[r] = "reading"
    /\ \/ Go(r, "calling") /\ UNCHANGED error
       \/ \E e \in {"connect", "other"} : Fail(r, e)
    /\ UNCHANGED <<setup, server, life, service, answer, starts, broken, left>>

\* The service returns, or raises; or its answer cannot be encoded.
CallEnds(r) ==
    /\ step[r] = "calling"
    /\ \/ Go(r, "start") /\ UNCHANGED error
       \/ \E e \in {"connect", "other"} : Fail(r, e)
    /\ UNCHANGED <<setup, server, life, service, answer, starts, broken, left>>

StreamEnds(r) ==
    /\ step[r] = "streaming"
    /\ \E how \in {"returned", "raised"} : Leave(r, how)
    /\ UNCHANGED <<setup, server, life, service, error, answer, starts, broken>>

\* The event of step[r] reaches the server, which heeds it if no send failed
\* before.
SendStart(r) ==
    /\ step[r] \in {"start", "errorStart"}
    /\ starts' = [starts EXCEPT ![r] = @ + 1]
    /\ IF broken[r] THEN UNCHANGED answer ELSE Answered(r, "open")
    /\ Go(r, IF step[r] = "start" THEN "body" ELSE "errorBody")
    /\ UNCHANGED <<setup, server, life, service, error, broken, left>>

SendBody(r) ==
    /\ step[r] = "body"
    /\ Answered(r, "ok")
    /\ Leave(r, "returned")
    /\ UNCHANGED <<setup, server, life, service, error, starts, broken>>

SendErrorBody(r) ==
    /\ step[r] = "errorBody"
    /\ IF broken[r] THEN UNCHANGED answer ELSE Answered(r, "error")
    /\ Leave(r, HowAnswered(r))
    /\ UNCHANGED <<setup, server, life, service, error, starts, broken>>

SendFails(r) ==
    /\ step[r] \in Sends
    /\ broken' = [broken EXCEPT ![r] = TRUE]
    /\ FailAgain(r)
    /\ UNCHANGED <<setup, server, life, service, answer, starts>>

\* The server cancels a request: CancelledError is not an Exception.
CancelRequest(r) ==
    /\ step[r] \in Active
    /\ Leave(r, "cancelled")
    /\ UNCHANGED <<setup, server, life, service, error, answer, starts, broken>>

Lifespan == Startup \/ ServiceStarts \/ ServiceRefuses \/ Announce \/ Refuse
            \/ Shutdown \/ ServiceStops \/ EndLifespan \/ CancelLifespan
Request(r) == Arrive(r) \/ ArriveInVain(r) \/ ReadPost(r) \/ CallEnds(r)
              \/ StreamEnds(r) \/ SendStart(r) \/ SendBody(r) \/ SendErrorBody(r)
              \/ SendFails(r) \/ CancelRequest(r)
Over       == server = "stopped" /\ UNCHANGED vars

Next == Lifespan \/ ServeAnyway \/ StopServing \/ (\E r \in Requests : Request(r)) \/ Over

Spec == Init /\ [][Next]_vars
-----------------------------------------------------------------------------
(* The properties.                                                          *)

\* No request is given to a service that is not there: a generator is at its
\* yield as long as a request is in it, whether or not the server supports
\* lifespans, and whatever became of the lifespan call.
ServedWhileOpen ==
    \A r \in Requests : step[r] \in InService /\ generator => gen = "open"

\* A lifespan call that returned has run the generator to its end, started or
\* not: what the service acquired it has had the occasion to release.
ClosedAtTheEnd == life = "over" /\ generator => gen = "closed"

\* A unary request is answered once, and truthfully: a second start is offered
\* only to a server that failed a send; a call that returns was answered; a
\* service's success is told as such and nothing else is.
AnsweredOnce ==
    \A r \in Requests :
        /\ starts[r] = 2 => broken[r]
        /\ left[r] = "returned" /\ ~broken[r] /\ starts[r] > 0 =>
               answer[r] = IF error[r] = "none" THEN "ok" ELSE "error"
        /\ answer[r] = "ok" => error[r] = "none"

\* "other" errors are bugs of somebody: the server gets to see them all.
BugsAreRaised ==
    \A r \in Requests :
        step[r] = "over" /\ error[r] = "other" => left[r] \in {"raised", "cancelled"}
=============================================================================
