-------------------------- MODULE WsgiStreamProofs --------------------------
(***************************************************************************)
(* Requests of any length.                                                 *)
(***************************************************************************)
EXTENDS WsgiStream, TLAPS

Before    == {"dispatch", "read", "call", "first"}
Delivered == {"returned", "service", "last", "ends", "body"}

\* What is on its way, and what the service is known to have done, at each
\* point of a call in which nothing has gone wrong.
WellInv ==
    ~error /\ pc # "done" =>
        /\ ~lost
        /\ service # "failed"
        /\ pc = "first" /\ ~Streaming => service = "completed"
        /\ pc = "start" /\ ~owed => service = "completed"
        /\ pc \in {"start", "body"} /\ plain => service = "completed"
        /\ pc \in {"start", "returned", "service"} /\ ~Streaming => service = "completed"
        /\ pc \in {"last", "ends", "body"} => service = "completed"
        /\ plain => kind = "unary"

\* Where a message can be waiting, and where the service can still be at work.
OwedInv ==
    /\ pc \in {"dispatch", "read", "call", "service", "last", "ends"} => ~owed
    /\ pc = "first" => owed = ~Streaming
    /\ error /\ pc # "done" => ~owed
    /\ pc = "start" /\ owed /\ Streaming => service = "running"
    /\ pc = "read" => ReadsFirst
    /\ pc = "call" => ~Streaming
    /\ pc \in {"dispatch", "read", "call"} => service = "running"
    /\ pc = "first" /\ Streaming => service = "running"
    /\ pc \in {"returned", "service"} /\ Streaming => service = "running"

\* An error is known only between the handlers and the end, and by then the
\* request has been drained.
ErrorInv ==
    /\ pc \in Before \cup {"returned", "service"} => ~error
    /\ pc \in {"returned", "service"} => ~plain
    /\ http1 /\ error => input.eof

\* The verdict and the response's end come together, behind the headers.
SentInv ==
    /\ pc \in Before \cup {"start"} => phase = "idle"
    /\ pc \in Delivered => phase = "open"
    /\ pc = "stop" => phase = "closed"
    /\ phase = "closed" <=> verdict # "none"
    /\ verdict = "ok" => ~error /\ service = "completed" /\ ~owed /\ ~lost
    /\ verdict = "error" => error

Whole == WellInv /\ OwedInv /\ ErrorInv /\ SentInv

Inv == TypeOK /\ Whole
-----------------------------------------------------------------------------
LEMMA InitInv == Init => Inv
BY DEF Init, Inv, Whole, TypeOK, Kinds, Inputs, WellInv, OwedInv, ErrorInv, SentInv,
   Before, Delivered, Streaming

\* The service reads the request without making more of it.
LEMMA ReadsTyped == ASSUME input \in Inputs, Reads PROVE input' \in Inputs
<1>1. CASE ReadsFirst  BY <1>1 DEF Reads
<1>2. CASE ~ReadsFirst
  <2>1. PICK n \in 0..input.left, e \in BOOLEAN :
          input' = [left |-> n, eof |-> e /\ n = 0]
    BY <1>2 DEF Reads
  <2>2. n \in 0..MaxRequests
    BY WsgiAssumption DEF WsgiAssumption, Inputs
  <2>3. (e /\ n = 0) \in BOOLEAN
    OBVIOUS
  <2> QED  BY <2>1, <2>2, <2>3, Zenon DEF Inputs
<1> QED  BY <1>1, <1>2

LEMMA DrainTyped ==
    ASSUME TypeOK, Drain
    PROVE  input' \in Inputs /\ (http1 => input'.eof)
BY WsgiAssumption DEF WsgiAssumption, TypeOK, Inputs, Drain, Drained

\* What the handlers before the first chunk leave: an error to be told behind a
\* drained request, or nothing more to come.
Handled(next) ==
    \/ /\ error' = TRUE /\ pc' = next
       /\ input' \in Inputs /\ (http1 => input'.eof)
       /\ UNCHANGED outcome
    \/ pc' = "done" /\ outcome' = "crashed" /\ UNCHANGED <<error, input>>

HandledFirst ==
    Handled("start") /\ plain' \in BOOLEAN /\ (pc' = "done" => plain' = plain)

LEMMA FailPlainlyHandles ==
    ASSUME TypeOK, FailPlainly
    PROVE  HandledFirst
BY DrainTyped DEF FailPlainly, DrainFails, Crash, HandledFirst, Handled, TypeOK

LEMMA FailHandles ==
    ASSUME TypeOK, Fail
    PROVE  HandledFirst
<1>1. CASE FailPlainly  BY <1>1, FailPlainlyHandles
<1>2. CASE ~FailPlainly
  BY <1>2, DrainTyped DEF Fail, HandledFirst, Handled, TypeOK
<1> QED  BY <1>1, <1>2

LEMMA FailLateHandles == ASSUME TypeOK, FailLate PROVE Handled("last")
BY DrainTyped DEF FailLate, DrainFails, Crash, Handled

LEMMA StepInv == Inv /\ [Next]_vars => Inv'
<1> SUFFICES ASSUME Inv, [Next]_vars PROVE Inv'
  OBVIOUS
<1> USE DEF Inv, Whole, WellInv, OwedInv, ErrorInv, SentInv, Before, Delivered,
            Streaming, ReadsFirst, request, made, sent
<1>1. CASE Dispatch /\ (Fail \/ FailPlainly)
  <2>1. HandledFirst
    BY <1>1, FailHandles, FailPlainlyHandles
  <2>2. TypeOK'  BY <1>1, <2>1 DEF Dispatch, HandledFirst, Handled, TypeOK
  <2>3. Whole'
    BY <1>1, <2>1 DEF Dispatch, HandledFirst, Handled, TypeOK
  <2> QED  BY <2>2, <2>3
<1>2. CASE Dispatch /\ ~Fail /\ ~FailPlainly
  BY <1>2 DEF Dispatch, TypeOK
<1>3. CASE Read /\ Fail
  <2>1. HandledFirst
    BY <1>3, FailHandles
  <2>2. TypeOK'  BY <1>3, <2>1 DEF Read, HandledFirst, Handled, TypeOK
  <2>3. Whole'
    BY <1>3, <2>1 DEF Read, HandledFirst, Handled, TypeOK
  <2> QED  BY <2>2, <2>3
<1>4. CASE Read /\ ~Fail
  <2>1. input' \in [left : {0}, eof : BOOLEAN]
    BY <1>4 DEF Read
  <2>2. input' \in Inputs
    BY <2>1, WsgiAssumption DEF Inputs, WsgiAssumption
  <2>3. TypeOK'  BY <1>4, <2>2 DEF Read, TypeOK
  <2>4. /\ pc = "read" /\ pc' = IF Streaming THEN "first" ELSE "call"
        /\ UNCHANGED <<request, plain, error, made, sent, outcome>>
    BY <1>4 DEF Read
  <2>5. Whole'
    BY <2>4 DEF TypeOK
  <2> QED  BY <2>3, <2>5
<1>5. CASE CallReturns  BY <1>5, ReadsTyped DEF CallReturns, TypeOK
<1>6. CASE CallRaises
  <2>1. HandledFirst
    BY <1>6, FailHandles DEF CallRaises
  <2>2. TypeOK'  BY <1>6, <2>1 DEF CallRaises, HandledFirst, Handled, TypeOK
  <2>3. Whole'
    BY <1>6, <2>1 DEF CallRaises, HandledFirst, Handled, TypeOK
  <2> QED  BY <2>2, <2>3
<1>7. CASE FirstMessage /\ plain /\ DropOwed /\ Fail
  <2>1. HandledFirst
    BY <1>7, FailHandles
  <2>2. lost' \in BOOLEAN  BY <1>7, Zenon DEF DropOwed, TypeOK
  <2>3. TypeOK'  BY <1>7, <2>1, <2>2 DEF FirstMessage, DropOwed, HandledFirst, Handled, TypeOK
  <2>4. Whole'
    BY <1>7, <2>1 DEF FirstMessage, DropOwed, HandledFirst, Handled, TypeOK
  <2> QED  BY <2>3, <2>4
<1>8. CASE FirstMessage /\ ~(plain /\ DropOwed /\ Fail)
  <2>1. input' \in Inputs  BY <1>8, ReadsTyped DEF FirstMessage, TypeOK
  <2>2. TypeOK'  BY <1>8, <2>1 DEF FirstMessage, TypeOK
  <2>3. Whole'
    BY <1>8 DEF FirstMessage, TypeOK
  <2> QED  BY <2>2, <2>3
<1>9. CASE FirstEnds  BY <1>9, ReadsTyped DEF FirstEnds, TypeOK
<1>10. CASE FirstRaises
  <2>1. HandledFirst
    BY <1>10, FailHandles DEF FirstRaises
  <2>2. TypeOK'  BY <1>10, <2>1 DEF FirstRaises, HandledFirst, Handled, TypeOK
  <2>3. Whole'
    BY <1>10, <2>1 DEF FirstRaises, HandledFirst, Handled, TypeOK
  <2> QED  BY <2>2, <2>3
<1>11. CASE Start  BY <1>11 DEF Start, Open, TypeOK, Kinds
<1>12. CASE StartFails
  BY <1>12, DrainTyped DEF StartFails, Crash, DrainFails, TypeOK
<1>13. CASE EndAlone
  BY <1>13, DrainTyped DEF EndAlone, Crash, DrainFails, TypeOK
<1>14. CASE TakeMessage  BY <1>14 DEF TakeMessage, TypeOK
<1>15. CASE EncodeFails
  <2>1. Handled("last")
    BY <1>15, FailLateHandles DEF EncodeFails
  <2>2. lost' \in BOOLEAN  BY <1>15, Zenon DEF EncodeFails, DropOwed, TypeOK
  <2>3. TypeOK'  BY <1>15, <2>1, <2>2 DEF EncodeFails, DropOwed, Handled, TypeOK
  <2>4. Whole'
    BY <1>15, <2>1 DEF EncodeFails, DropOwed, Handled, TypeOK
  <2> QED  BY <2>3, <2>4
<1>16. CASE NextMessage  BY <1>16, ReadsTyped DEF NextMessage, TypeOK
<1>17. CASE NextEnds  BY <1>17, ReadsTyped DEF NextEnds, TypeOK
<1>18. CASE NextRaises
  <2>1. Handled("last")
    BY <1>18, FailLateHandles DEF NextRaises
  <2>2. TypeOK'  BY <1>18, <2>1 DEF NextRaises, Handled, TypeOK
  <2>3. Whole'
    BY <1>18, <2>1 DEF NextRaises, Handled, TypeOK
  <2> QED  BY <2>2, <2>3
<1>19. CASE End  BY <1>19 DEF End, Told, Verdict, Crash, TypeOK
<1>20. CASE TakeBody  BY <1>20 DEF TakeBody, Told, Verdict, TypeOK
<1>21. CASE Stop \/ Close  BY <1>21 DEF Stop, Close, TypeOK
<1>22. CASE Over \/ UNCHANGED vars  BY <1>22 DEF Over, vars, TypeOK
<1> QED
  BY <1>1, <1>2, <1>3, <1>4, <1>5, <1>6, <1>7, <1>8, <1>9, <1>10, <1>11,
     <1>12, <1>13, <1>14, <1>15, <1>16, <1>17, <1>18, <1>19, <1>20, <1>21, <1>22
  DEF Next, Application, Iteration

LEMMA Inductive == Spec => []Inv
BY InitInv, StepInv, PTL DEF Spec

\* Every variable keeps its type, for requests of any length.
THEOREM TypeCorrect == Spec => []TypeOK
<1>1. Inv => TypeOK  BY DEF Inv
<1> QED  BY <1>1, Inductive, PTL

\* The client is told of success only when it is true, and of every error the
\* two error handlings of the code caught.
THEOREM EndIsTruthful == Spec => []TruthfulEnd
<1>1. Inv => TruthfulEnd
  BY DEF Inv, Whole, TypeOK, SentInv, TruthfulEnd
<1> QED  BY <1>1, Inductive, PTL

\* An HTTP/1 request is drained before the client is told of an error.
THEOREM ErrorsDrain == Spec => []ErrorIsDrained
<1>1. Inv => ErrorIsDrained
  BY DEF Inv, Whole, ErrorInv, SentInv, ErrorIsDrained
<1> QED  BY <1>1, Inductive, PTL
-----------------------------------------------------------------------------
LEMMA InitMaps == Init => Response!Init
BY DEF Init, Response!Init

LEMMA ApplicationMaps ==
    ASSUME Inv, Application
    PROVE  Response!Next \/ UNCHANGED Response!vars
<1> USE DEF Response!Next, Response!vars, request, made, sent
<1>1. CASE Dispatch \/ Read \/ StartFails \/ EndAlone
  BY <1>1 DEF Dispatch, Read, StartFails, EndAlone
<1>2. CASE CallReturns
  BY <1>2 DEF CallReturns, Inv, Whole, OwedInv, SentInv, Before, Response!Answer
<1>3. CASE CallRaises
  BY <1>3 DEF CallRaises, Inv, Whole, OwedInv, Response!Conclude
<1>4. CASE FirstMessage
  <2> USE <1>4 DEF FirstMessage, Inv, Whole, TypeOK, WellInv, OwedInv, ErrorInv, SentInv,
                   Before, Streaming
  <2>1. CASE DropOwed /\ Fail
    <3>1. owed /\ ~lost  BY <2>1 DEF DropOwed
    <3> QED  BY <2>1, <3>1 DEF DropOwed, Response!Drop
  <2>2. CASE ~(DropOwed /\ Fail) /\ owed  BY <2>2
  <2>3. CASE ~(DropOwed /\ Fail) /\ ~owed  BY <2>3 DEF Response!Produce
  <2> QED  BY <2>1, <2>2, <2>3
<1>5. CASE FirstEnds  BY <1>5 DEF FirstEnds, Inv, Whole, OwedInv, Response!Conclude
<1>6. CASE FirstRaises  BY <1>6 DEF FirstRaises, Inv, Whole, OwedInv, Response!Conclude
<1>7. CASE Start
  BY <1>7 DEF Start, Open, Inv, Whole, SentInv, Response!Open
<1> QED  BY <1>1, <1>2, <1>3, <1>4, <1>5, <1>6, <1>7 DEF Application

LEMMA IterationMaps ==
    ASSUME Inv, Iteration
    PROVE  Response!Next \/ UNCHANGED Response!vars
<1> USE DEF Response!Next, Response!vars, Inv, Whole, TypeOK, WellInv, OwedInv, ErrorInv,
            SentInv, Delivered, Before, request, made, sent
<1>1. CASE TakeMessage  BY <1>1 DEF TakeMessage, Response!Carry
<1>2. CASE EncodeFails  BY <1>2 DEF EncodeFails, DropOwed, Response!Drop
<1>3. CASE NextMessage  BY <1>3 DEF NextMessage, Response!Produce
<1>4. CASE NextEnds  BY <1>4 DEF NextEnds, Response!Conclude
<1>5. CASE NextRaises  BY <1>5 DEF NextRaises, Response!Conclude
<1>6. CASE End
  BY <1>6 DEF End, Told, Verdict, Response!End, Response!Judge, Response!Complete
<1>7. CASE TakeBody
  BY <1>7 DEF TakeBody, Told, Verdict, Response!Carry, Response!End, Response!Judge,
     Response!Complete
<1>8. CASE Stop  BY <1>8 DEF Stop
<1> QED
  BY <1>1, <1>2, <1>3, <1>4, <1>5, <1>6, <1>7, <1>8 DEF Iteration

LEMMA OthersMap ==
    ASSUME Close \/ Over \/ UNCHANGED vars
    PROVE  UNCHANGED Response!vars
BY DEF Close, Over, vars, Response!vars, request, made, sent

\* Every call is a behaviour of ResponseStream, without its licence for aborts.
THEOREM ImplementsResponse == Spec => IsResponse
<1>1. Init => Response!Init  BY InitMaps
<1>2. Inv /\ [Next]_vars => [Response!Next]_(Response!vars)
  BY ApplicationMaps, IterationMaps, OthersMap DEF Next
<1> QED  BY <1>1, <1>2, Inductive, PTL DEF Spec, Response!Spec, IsResponse
=============================================================================
