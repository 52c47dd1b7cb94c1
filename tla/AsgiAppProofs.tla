---------------------------- MODULE AsgiAppProofs ----------------------------
(***************************************************************************)
(* Any number of requests, infinitely many included.                       *)
(***************************************************************************)
EXTENDS AsgiApp, TLAPS

\* Where the lifespan call is, and what that says of the server.
LifeInv ==
    /\ life = "none" /\ lifespan => server = "starting"
    /\ life \in {"starting", "announcing", "refusing"} => server = "starting"
    /\ life \in {"stopping", "ending"} => server = "draining"
    /\ server = "serving" => life \in {"none", "waiting", "raised"}
    /\ life # "none" => lifespan

\* What it says of a generator and of the table resolved from it.
GenInv ==
    generator =>
        /\ life \in {"none", "starting", "refusing"} => ~resolved
        /\ life = "raised" /\ server # "stopped" => ~resolved
        /\ life \in {"announcing", "waiting"} => gen = "open"
        /\ life \in {"refusing", "ending", "over"} => gen = "closed"

\* And of the requests.
UseInv ==
    /\ server \in {"starting", "draining"} => \A r \in Requests : step[r] \notin Active
    /\ \A r \in Requests :
           step[r] \in {"reading"} \cup InService /\ generator => gen = "open"

\* How far a request has come.
Answering(r) ==
    /\ step[r] \in {"new", "reading", "calling", "streaming", "start"} =>
         starts[r] = 0 /\ answer[r] = "none" /\ ~broken[r] /\ error[r] = "none"
    /\ step[r] = "body" =>
         starts[r] = 1 /\ answer[r] = "open" /\ ~broken[r] /\ error[r] = "none"
    /\ step[r] = "errorStart" =>
         /\ error[r] # "none" /\ answer[r] # "ok"
         /\ starts[r] = 0 \/ (starts[r] = 1 /\ broken[r])
    /\ step[r] = "errorBody" =>
         /\ error[r] # "none" /\ answer[r] # "ok"
         /\ starts[r] = 1 \/ (starts[r] = 2 /\ broken[r])
    /\ step[r] # "over" => left[r] = "running"
    /\ starts[r] = 2 => broken[r]
    /\ left[r] = "returned" /\ ~broken[r] /\ starts[r] > 0 =>
           answer[r] = IF error[r] = "none" THEN "ok" ELSE "error"
    /\ answer[r] = "ok" => error[r] = "none"
    /\ step[r] = "over" /\ error[r] = "other" => left[r] \in {"raised", "cancelled"}

AnswerInv == \A r \in Requests : Answering(r)

Inv == TypeOK /\ LifeInv /\ GenInv /\ UseInv /\ AnswerInv
-----------------------------------------------------------------------------
LEMMA InitInv == Init => Inv
<1> SUFFICES ASSUME Init PROVE Inv
  OBVIOUS
<1>1. TypeOK
  <2>1. /\ step \in [Requests -> {"new", "over"} \cup Active]
        /\ starts \in [Requests -> 0..2]
    BY DEF Init
  <2> QED  BY <2>1, Zenon DEF Init, TypeOK
<1>2. LifeInv /\ GenInv /\ UseInv
  BY DEF Init, LifeInv, GenInv, UseInv, ServedWhileOpen, InService, Sends, Active
<1>3. AnswerInv
  <2> SUFFICES ASSUME NEW r \in Requests PROVE Answering(r)
    BY DEF AnswerInv
  <2>1. step[r] = "new" /\ error[r] = "none" /\ answer[r] = "none" /\ starts[r] = 0
    BY DEF Init
  <2>2. ~broken[r] /\ left[r] = "running"  BY DEF Init
  <2> QED  BY <2>1, <2>2 DEF Answering
<1> QED  BY <1>1, <1>2, <1>3 DEF Inv

\* The lifespan call and the server disturb no request.
LEMMA LifespanInv ==
    ASSUME Inv, Lifespan \/ ServeAnyway \/ StopServing PROVE Inv'
<1> USE DEF Inv, TypeOK, LifeInv, GenInv, UseInv, InService, Active,
            Sends, setup, service, calls, Resolve
<1>1. AnswerInv'
  BY DEF Lifespan, Startup, ServiceStarts, ServiceRefuses, Announce, Refuse, Shutdown,
     ServiceStops, EndLifespan, CancelLifespan, ServeAnyway, StopServing, AnswerInv,
     Answering
<1>2. CASE Startup  BY <1>1, <1>2 DEF Startup
<1>3. CASE ServiceStarts
  <2>1. CASE life' = "raised"  BY <1>1, <1>3, <2>1 DEF ServiceStarts
  <2>2. CASE life' = "announcing"  BY <1>1, <1>3, <2>2 DEF ServiceStarts
  <2> QED  BY <1>3, <2>1, <2>2 DEF ServiceStarts
<1>4. CASE ServiceRefuses  BY <1>1, <1>4 DEF ServiceRefuses
<1>5. CASE Announce  BY <1>1, <1>5 DEF Announce
<1>6. CASE Refuse  BY <1>1, <1>6 DEF Refuse
<1>7. CASE Shutdown  BY <1>1, <1>7 DEF Shutdown
<1>8. CASE ServiceStops  BY <1>1, <1>8 DEF ServiceStops, CloseService
<1>9. CASE EndLifespan  BY <1>1, <1>9 DEF EndLifespan
<1>10. CASE CancelLifespan  BY <1>1, <1>10 DEF CancelLifespan
<1>11. CASE ServeAnyway \/ StopServing
  BY <1>1, <1>11 DEF ServeAnyway, StopServing
<1> QED
  BY <1>2, <1>3, <1>4, <1>5, <1>6, <1>7, <1>8, <1>9, <1>10, <1>11 DEF Lifespan

LEMMA RequestTyped ==
    ASSUME Inv, NEW q \in Requests, Request(q) PROVE TypeOK'
<1> USE DEF Inv, TypeOK, Go, Leave, Fail, Answered, InService, Active, Sends,
            setup, service, calls
<1>1. CASE Arrive(q)
  <2>1. step' \in [Requests -> {"new", "over"} \cup Active]  BY <1>1 DEF Arrive
  <2>2. error' \in [Requests -> {"none", "connect", "other"}]  BY <1>1 DEF Arrive
  <2>3. resolved' \in BOOLEAN  BY <1>1 DEF Arrive
  <2> QED  BY <1>1, <2>1, <2>2, <2>3 DEF Arrive
<1>2. CASE ArriveInVain(q)  BY <1>2 DEF ArriveInVain
<1>3. CASE ReadPost(q)  BY <1>3 DEF ReadPost
<1>4. CASE CallEnds(q)  BY <1>4 DEF CallEnds
<1>5. CASE StreamEnds(q)  BY <1>5 DEF StreamEnds
<1>6. CASE SendStart(q)
  <2>1. starts[q] \in 0..1  BY <1>6 DEF SendStart, AnswerInv, Answering
  <2>2. starts' \in [Requests -> 0..2]  BY <1>6, <2>1 DEF SendStart
  <2>3. step' \in [Requests -> {"new", "over"} \cup Active]  BY <1>6 DEF SendStart
  <2> QED  BY <1>6, <2>2, <2>3 DEF SendStart
<1>7. CASE SendBody(q)  BY <1>7 DEF SendBody
<1>8. CASE SendErrorBody(q)  BY <1>8 DEF SendErrorBody, HowAnswered
<1>9. CASE SendFails(q)  BY <1>9 DEF SendFails, FailAgain
<1>10. CASE CancelRequest(q)  BY <1>10 DEF CancelRequest
<1> QED
  BY <1>1, <1>2, <1>3, <1>4, <1>5, <1>6, <1>7, <1>8, <1>9, <1>10
  DEF Request

\* A request moves itself only, and meets a table only if the service is there.
LEMMA RequestUse ==
    ASSUME Inv, NEW q \in Requests, Request(q) PROVE LifeInv' /\ GenInv' /\ UseInv'
<1> USE DEF Inv, TypeOK, LifeInv, GenInv, UseInv, InService, Active,
            Sends, Go, Leave, Fail, setup, service
<1>1. CASE Arrive(q)  BY <1>1 DEF Arrive, MayResolve
<1>2. CASE ArriveInVain(q)  BY <1>2 DEF ArriveInVain
<1>3. CASE ReadPost(q)  BY <1>3 DEF ReadPost
<1>4. CASE CallEnds(q)  BY <1>4 DEF CallEnds
<1>5. CASE StreamEnds(q)  BY <1>5 DEF StreamEnds
<1>6. CASE SendStart(q)  BY <1>6 DEF SendStart
<1>7. CASE SendBody(q)  BY <1>7 DEF SendBody
<1>8. CASE SendErrorBody(q)  BY <1>8 DEF SendErrorBody, HowAnswered
<1>9. CASE SendFails(q)  BY <1>9 DEF SendFails, FailAgain
<1>10. CASE CancelRequest(q)  BY <1>10 DEF CancelRequest
<1> QED
  BY <1>1, <1>2, <1>3, <1>4, <1>5, <1>6, <1>7, <1>8, <1>9, <1>10
  DEF Request

LEMMA RequestAnswers ==
    ASSUME Inv, NEW q \in Requests, Request(q) PROVE AnswerInv'
<1> USE DEF Inv, TypeOK, AnswerInv, Answering, InService, Active, Sends, Go, Leave, Fail,
            Answered, calls
<1>1. CASE Arrive(q)  BY <1>1 DEF Arrive, MayResolve
<1>2. CASE ArriveInVain(q)  BY <1>2 DEF ArriveInVain
<1>3. CASE ReadPost(q)  BY <1>3 DEF ReadPost
<1>4. CASE CallEnds(q)  BY <1>4 DEF CallEnds
<1>5. CASE StreamEnds(q)  BY <1>5 DEF StreamEnds
<1>6. CASE SendStart(q)  BY <1>6 DEF SendStart
<1>7. CASE SendBody(q)  BY <1>7 DEF SendBody
<1>8. CASE SendErrorBody(q)  BY <1>8 DEF SendErrorBody, HowAnswered
<1>9. CASE SendFails(q)  BY <1>9 DEF SendFails, FailAgain
<1>10. CASE CancelRequest(q)  BY <1>10 DEF CancelRequest
<1> QED
  BY <1>1, <1>2, <1>3, <1>4, <1>5, <1>6, <1>7, <1>8, <1>9, <1>10
  DEF Request

LEMMA Inductive == Spec => []Inv
<1>1. Inv /\ [Next]_vars => Inv'
  <2> SUFFICES ASSUME Inv, [Next]_vars PROVE Inv'
    OBVIOUS
  <2>1. CASE Lifespan \/ ServeAnyway \/ StopServing  BY <2>1, LifespanInv
  <2>2. ASSUME NEW r \in Requests, Request(r) PROVE Inv'
    BY <2>2, RequestTyped, RequestUse, RequestAnswers DEF Inv
  <2>3. CASE Over \/ UNCHANGED vars
    BY <2>3 DEF Over, vars, setup, service, calls, Inv, TypeOK, LifeInv, GenInv,
       UseInv, ServedWhileOpen, AnswerInv, Answering
  <2> QED  BY <2>1, <2>2, <2>3 DEF Next
<1> QED  BY <1>1, InitInv, PTL DEF Spec

\* Every variable keeps its type.
THEOREM TypeCorrect == Spec => []TypeOK
<1>1. Inv => TypeOK  BY DEF Inv
<1> QED  BY <1>1, Inductive, PTL

\* No request runs in a service that is not started or is already closed.
THEOREM ServiceIsThere == Spec => []ServedWhileOpen
<1>1. Inv => ServedWhileOpen  BY DEF Inv, UseInv, ServedWhileOpen
<1> QED  BY <1>1, Inductive, PTL

\* A lifespan call that returns leaves the generator closed.
THEOREM ServiceIsClosed == Spec => []ClosedAtTheEnd
<1>1. Inv => ClosedAtTheEnd  BY DEF Inv, GenInv, ClosedAtTheEnd
<1> QED  BY <1>1, Inductive, PTL

\* Every unary request is answered at most once, and truthfully.
THEOREM AnswersAreTrue == Spec => []AnsweredOnce
<1>1. Inv => AnsweredOnce  BY DEF Inv, AnswerInv, Answering, AnsweredOnce
<1> QED  BY <1>1, Inductive, PTL

\* Every error that is not a ConnectError or an HTTPException is raised again.
THEOREM BugsReachTheServer == Spec => []BugsAreRaised
<1>1. Inv => BugsAreRaised  BY DEF Inv, AnswerInv, Answering, BugsAreRaised
<1> QED  BY <1>1, Inductive, PTL
=============================================================================
