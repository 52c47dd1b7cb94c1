-------------------------- MODULE AsgiStreamProofs --------------------------
(***************************************************************************)
(* Proofs about AsgiStream, for every number of cancellations and whatever *)
(* receive() does; only the order of the events needs sends whose          *)
(* cancellation takes no effect.                                           *)
(***************************************************************************)
EXTENDS AsgiStream, TLAPS

(* Where the handler is, and what it has therefore sent, started, lost.    *)
InFinally == {"endStart", "endBody", "endTrailers"}
InLoop    == {"next", "headers", "body"}

\* The flag sent_headers, the control point and the server's view agree.
WireInv ==
    /\ pc \in {"start", "read", "call"} => ~sentHeaders
    /\ pc = "headers" => ~sentHeaders
    /\ pc = "body" => sentHeaders
    /\ pc = "endStart" => ~sentHeaders
    /\ pc = "endTrailers" => trailers
    /\ ~CancelAfterDelivery =>
         /\ wire # "broken"
         /\ pc \in {"start", "read", "call", "endStart"} => wire = "idle"
         /\ pc \in InLoop \cup {"join", "close"} =>
              wire = IF sentHeaders THEN "open" ELSE "idle"
         /\ pc = "endBody" => wire = "open"
         /\ pc = "endTrailers" => wire = "ended"

\* The monitor lives while the loop does.
MonitorInv ==
    /\ pc \in {"start", "read", "call"} => mon = "none" /\ gen = "none"
    /\ mon = "watching" => pc \in InLoop
    /\ mon = "cancelling" => pc = "join"
    /\ pc = "join" => mon \in {"cancelling", "cancelled"}
    /\ mon # "none" => kind = "server_stream"
    /\ pc \in InFinally \cup {"done"} => (gen = "suspended" => mon = "failed")

\* What the service has said and what has become of it.
ServiceInv ==
    /\ pc \in {"start", "read", "call"} => ~owed /\ service = "running"
    /\ pc \in {"start", "read", "call"} \cup InLoop => ~lost /\ exc = "none"
    /\ pc \notin InLoop => ~owed
    /\ pc = "call" => ~Streaming
    /\ pc = "next" /\ Streaming => ~owed
    /\ pc = "next" /\ gen = "suspended" => ~owed
    /\ pc \in {"headers", "body"} => owed /\ gen = "suspended"
    /\ pc = "next" /\ ~Streaming /\ gen = "fresh" => owed
    /\ pc \in InLoop => service = IF Streaming THEN "running" ELSE "completed"
    /\ pc \in InFinally \cup {"join", "close", "done"} =>
         (exc = "none" => service = "completed" /\ ~owed /\ ~lost)

\* The verdict is given once, at the end, and by the exception in flight.
VerdictInv ==
    /\ pc # "done" <=> outcome = "running"
    /\ pc # "done" => verdict = "none"
    /\ verdict = "ok" => exc \in {"none", "cancel"}
    /\ exc = "cancel" => cancels > 0
    /\ ~CancelAfterDelivery =>
         /\ pc # "done" => wire # "closed"
         /\ outcome = "returned" => wire = "closed"
         /\ outcome = "other" /\ wire = "closed" => verdict = "error"

Inv == TypeOK /\ WireInv /\ MonitorInv /\ ServiceInv /\ VerdictInv
-----------------------------------------------------------------------------
LEMMA InitInv == Init => Inv
<1> SUFFICES ASSUME Init PROVE Inv
  OBVIOUS
<1> USE AsgiAssumption DEF AsgiAssumption, Init, Kinds, Pcs, InLoop, InFinally, Streaming
<1>1. TypeOK
  <2>1. sentHeaders \in BOOLEAN /\ owed \in BOOLEAN /\ lost \in BOOLEAN  BY Zenon
  <2>2. cancels \in 0..MaxCancels /\ late \in 0..2 /\ nread \in 0..1  OBVIOUS
  <2> QED  BY <2>1, <2>2 DEF TypeOK
<1>2. WireInv  BY DEF WireInv
<1>3. MonitorInv  BY DEF MonitorInv
<1>4. ServiceInv  BY DEF ServiceInv
<1>5. VerdictInv  BY DEF VerdictInv
<1> QED  BY <1>1, <1>2, <1>3, <1>4, <1>5 DEF Inv

LEMMA RequestInv == Inv /\ Request => Inv'
<1> SUFFICES ASSUME Inv, Request PROVE Inv'
  OBVIOUS
<1> USE AsgiAssumption
    DEF AsgiAssumption, Inv, TypeOK, WireInv, MonitorInv, ServiceInv, VerdictInv, Kinds, Pcs,
        InLoop, InFinally, Streaming, ReadsFirst, Leave, rpc, serviceVars, wireVars
<1>1. CASE Negotiate  BY <1>1 DEF Negotiate
<1>2. CASE ReadMessage  BY <1>2 DEF ReadMessage
<1>3. CASE ReadEnd  BY <1>3 DEF ReadEnd
<1>4. CASE ReadFails  BY <1>4 DEF ReadFails
<1>5. CASE CallReturns  BY <1>5 DEF CallReturns
<1>6. CASE CallRaises  BY <1>6 DEF CallRaises
<1> QED  BY <1>1, <1>2, <1>3, <1>4, <1>5, <1>6 DEF Request

LEMMA ServiceStepInv == Inv /\ Service => Inv'
<1> SUFFICES ASSUME Inv, Service PROVE Inv'
  OBVIOUS
<1> USE AsgiAssumption
    DEF AsgiAssumption, Inv, TypeOK, WireInv, MonitorInv, ServiceInv, VerdictInv, Kinds, Pcs,
        InLoop, InFinally, Streaming, Leave, LeaveLoop, rpc, serviceVars, wireVars
<1>1. CASE GenYields
  <2> USE <1>1 DEF GenYields, Disconnected
  <2>1. TypeOK'
    <3>1. lost' \in BOOLEAN /\ owed' \in BOOLEAN  BY Zenon
    <3>2. mon' \in {"watching", "cancelling", "failed", "detected", "none", "cancelled"}  OBVIOUS
    <3> QED  BY <3>1, <3>2
  <2>2. WireInv'  OBVIOUS
  <2>3. MonitorInv'  OBVIOUS
  <2>4. ServiceInv'  OBVIOUS
  <2>5. VerdictInv'  OBVIOUS
  <2> QED  BY <2>1, <2>2, <2>3, <2>4, <2>5
<1>2. CASE GenReturns  BY <1>2 DEF GenReturns
<1>3. CASE GenRaises  BY <1>3 DEF GenRaises
<1> QED  BY <1>1, <1>2, <1>3 DEF Service

LEMMA LoopInv == Inv /\ Loop => Inv'
<1> SUFFICES ASSUME Inv, Loop PROVE Inv'
  OBVIOUS
<1> USE AsgiAssumption
    DEF AsgiAssumption, Inv, TypeOK, WireInv, MonitorInv, ServiceInv, VerdictInv, Kinds, Pcs,
        InLoop, InFinally, Streaming, Leave, LeaveLoop, DropOwed, CountLate, Deliver, Takes,
        rpc, serviceVars, wireVars
<1>1. CASE SendHeaders  BY <1>1 DEF SendHeaders, HeadersAreSent
<1>2. CASE SendBody
  <2> USE <1>2 DEF SendBody
  <2>1. TypeOK'
    <3>1. owed' \in BOOLEAN  BY Zenon
    <3>2. late' \in 0..2  OBVIOUS
    <3> QED  BY <3>1, <3>2
  <2>2. WireInv'  OBVIOUS
  <2>3. MonitorInv'  OBVIOUS
  <2>4. ServiceInv'  OBVIOUS
  <2>5. VerdictInv'  OBVIOUS
  <2> QED  BY <2>1, <2>2, <2>3, <2>4, <2>5
<1>3. CASE SendFails
  <2> USE <1>3 DEF SendFails
  <2>1. TypeOK'
    <3>1. lost' \in BOOLEAN /\ owed' \in BOOLEAN  BY Zenon
    <3> QED  BY <3>1
  <2>2. WireInv'  OBVIOUS
  <2>3. MonitorInv'  OBVIOUS
  <2>4. ServiceInv'  OBVIOUS
  <2>5. VerdictInv'  OBVIOUS
  <2> QED  BY <2>1, <2>2, <2>3, <2>4, <2>5
<1>4. CASE Join  BY <1>4 DEF Join
<1>5. CASE Close  BY <1>5 DEF Close
<1> QED  BY <1>1, <1>2, <1>3, <1>4, <1>5 DEF Loop

LEMMA FinallyInv == Inv /\ Finally => Inv'
<1> SUFFICES ASSUME Inv, Finally PROVE Inv'
  OBVIOUS
<1> USE AsgiAssumption
    DEF AsgiAssumption, Inv, TypeOK, WireInv, MonitorInv, ServiceInv, VerdictInv, Kinds, Pcs,
        InLoop, InFinally, Streaming, Deliver, Takes, Verdict, Conclusion, Finish,
        rpc, serviceVars, wireVars
<1>1. CASE EndStart  BY <1>1 DEF EndStart
<1>2. CASE EndBody  BY <1>2 DEF EndBody
<1>3. CASE EndTrailers  BY <1>3 DEF EndTrailers
<1>4. CASE EndFails  BY <1>4 DEF EndFails
<1> QED  BY <1>1, <1>2, <1>3, <1>4 DEF Finally

LEMMA CancelledInv == Inv /\ Cancelled => Inv'
<1> SUFFICES ASSUME Inv, Cancelled PROVE Inv'
  OBVIOUS
<1> USE AsgiAssumption
    DEF AsgiAssumption, Inv, TypeOK, WireInv, MonitorInv, ServiceInv, VerdictInv, Kinds, Pcs,
        InLoop, InFinally, Streaming, Leave, LeaveLoop, DropOwed, CountLate, Deliver, Takes,
        Finish, Cancel, rpc, serviceVars, wireVars
<1>1. CASE CancelRead  BY <1>1 DEF CancelRead
<1>2. CASE CancelService  BY <1>2 DEF CancelService
<1>3. CASE CancelSend
  <2> USE <1>3 DEF CancelSend
  <2>1. TypeOK'
    <3>1. lost' \in BOOLEAN /\ owed' \in BOOLEAN  BY Zenon
    <3>2. late' \in 0..2 /\ cancels' \in 0..MaxCancels  OBVIOUS
    <3> QED  BY <3>1, <3>2
  <2>2. WireInv'  OBVIOUS
  <2>3. MonitorInv'  OBVIOUS
  <2>4. ServiceInv'  OBVIOUS
  <2>5. VerdictInv'  OBVIOUS
  <2> QED  BY <2>1, <2>2, <2>3, <2>4, <2>5
<1>4. CASE CancelJoin  BY <1>4 DEF CancelJoin
<1>5. CASE CancelClose  BY <1>5 DEF CancelClose
<1>6. CASE CancelEnd  BY <1>6 DEF CancelEnd
<1> QED  BY <1>1, <1>2, <1>3, <1>4, <1>5, <1>6 DEF Cancelled

LEMMA OthersInv == Inv /\ (Monitor \/ MonitorFails \/ ClientLeaves \/ Over) => Inv'
<1> SUFFICES ASSUME Inv, Monitor \/ MonitorFails \/ ClientLeaves \/ Over PROVE Inv'
  OBVIOUS
<1> USE AsgiAssumption
    DEF AsgiAssumption, Inv, TypeOK, WireInv, MonitorInv, ServiceInv, VerdictInv, Kinds, Pcs,
        InLoop, InFinally, Streaming, rpc, serviceVars, wireVars
<1>1. CASE MonitorSees  BY <1>1 DEF MonitorSees
<1>2. CASE MonitorEnds  BY <1>2 DEF MonitorEnds
<1>3. CASE MonitorFails  BY <1>3 DEF MonitorFails
<1>4. CASE ClientLeaves  BY <1>4 DEF ClientLeaves
<1>5. CASE Over  BY <1>5 DEF Over, vars
<1> QED  BY <1>1, <1>2, <1>3, <1>4, <1>5 DEF Monitor

LEMMA StutterInv == Inv /\ UNCHANGED vars => Inv'
BY DEF Inv, TypeOK, WireInv, MonitorInv, ServiceInv, VerdictInv, InLoop, InFinally,
       Streaming, vars

LEMMA Inductive == Spec => []Inv
<1>1. Init => Inv  BY InitInv
<1>2. Inv /\ [Next]_vars => Inv'
  BY RequestInv, ServiceStepInv, LoopInv, FinallyInv, CancelledInv, OthersInv,
     StutterInv DEF Next
<1> QED  BY <1>1, <1>2, PTL DEF Spec
-----------------------------------------------------------------------------
\* Every variable keeps its type.
THEOREM TypeCorrect == Spec => []TypeOK
<1>1. Inv => TypeOK  BY DEF Inv
<1> QED  BY <1>1, Inductive, PTL

\* On a server whose cancelled sends have no effect, the events handed to it
\* are always in order: the headers go out once although two places send them.
THEOREM EventsInOrder == ASSUME ~CancelAfterDelivery PROVE Spec => []InOrder
<1>1. Inv => InOrder  BY DEF Inv, WireInv, InOrder
<1> QED  BY <1>1, Inductive, PTL

\* "ok" is told only of a response that carries all the service produced, or
\* of a call that a cancellation ended; what the handler leaves with matches.
THEOREM EndIsTruthful == ASSUME ~CancelAfterDelivery PROVE Spec => []TruthfulEnd
<1>1. Inv => TruthfulEnd
  BY DEF Inv, TypeOK, ServiceInv, VerdictInv, TruthfulEnd, InLoop, InFinally
<1> QED  BY <1>1, Inductive, PTL

\* Whatever cancels, raises or disconnects: when the call is over its monitor
\* is, and the service's generator is closed unless the monitor had raised.
THEOREM NothingIsLeft == Spec => []NothingLeft
<1>1. Inv => NothingLeft
  BY DEF Inv, MonitorInv, NothingLeft, InLoop, InFinally
<1> QED  BY <1>1, Inductive, PTL
-----------------------------------------------------------------------------
(* What a late disconnect and a cancelled send can do at most; both hold   *)
(* whatever a cancelled send does.                                         *)

\* A message sent late was past the check: the next one meets it.
LateInv == late = 0 \/ (late = 1 /\ mon = "detected" /\ pc \notin {"headers", "body"})

LEMMA LateStep == Inv /\ LateInv /\ [Next]_vars => LateInv'
<1> SUFFICES ASSUME Inv, LateInv, [Next]_vars PROVE LateInv'
  OBVIOUS
<1> USE DEF Inv, TypeOK, MonitorInv, LateInv, InLoop, InFinally, Leave, LeaveLoop, rpc,
        serviceVars, wireVars
<1>1. CASE Request
  BY <1>1 DEF Request, Negotiate, ReadMessage, ReadEnd, ReadFails, CallReturns, CallRaises
<1>2. CASE Service
  BY <1>2 DEF Service, GenYields, GenReturns, GenRaises, Disconnected
<1>3. CASE Loop
  BY <1>3 DEF Loop, SendHeaders, SendBody, SendFails, Join, Close, CountLate
<1>4. CASE Finally
  BY <1>4 DEF Finally, EndStart, EndBody, EndTrailers, EndFails, Finish
<1>5. CASE Cancelled
  BY <1>5 DEF Cancelled, CancelRead, CancelService, CancelSend, CancelJoin, CancelClose,
              CancelEnd, CountLate, Finish
<1>6. CASE Monitor \/ MonitorFails \/ ClientLeaves \/ Over \/ UNCHANGED vars
  BY <1>6 DEF Monitor, MonitorSees, MonitorEnds, MonitorFails, ClientLeaves, Over, vars
<1> QED  BY <1>1, <1>2, <1>3, <1>4, <1>5, <1>6 DEF Next

\* After the monitor saw the client go, at most one message is sent, however
\* the task is cancelled and whatever the send of it then did.
THEOREM AtMostOneLate == Spec => []OneLate
<1>1. Init => LateInv  BY DEF Init, LateInv
<1>2. LateInv => OneLate  BY DEF LateInv, OneLate
<1> QED  BY <1>1, <1>2, Inductive, LateStep, PTL DEF Spec

\* What the ASGI server may have that sent_headers does not say.
Twice == cancels > 0 /\ ~sentHeaders

SentInv ==
    /\ wire = "broken" => Twice
    /\ pc \in {"start", "read", "call", "headers"} => wire = "idle"
    /\ pc = "next" => wire = IF sentHeaders THEN "open" ELSE "idle"
    /\ pc = "body" => wire = "open"
    /\ pc \in {"join", "close", "endStart"} =>
         \/ wire = IF sentHeaders THEN "open" ELSE "idle"
         \/ Twice /\ wire = "open"
    /\ pc = "endBody" => wire = "open" \/ Twice
    /\ pc = "endTrailers" => wire = "ended" \/ Twice

LEMMA SentStep == Inv /\ SentInv /\ [Next]_vars => SentInv'
<1> SUFFICES ASSUME Inv, SentInv, [Next]_vars PROVE SentInv'
  OBVIOUS
<1> USE DEF Inv, TypeOK, WireInv, SentInv, Twice, InLoop, InFinally, Leave, LeaveLoop, rpc,
        serviceVars, wireVars
<1>1. CASE Request
  BY <1>1 DEF Request, Negotiate, ReadMessage, ReadEnd, ReadFails, CallReturns, CallRaises
<1>2. CASE Service
  BY <1>2 DEF Service, GenYields, GenReturns, GenRaises
<1>3. CASE Loop
  BY <1>3 DEF Loop, SendHeaders, SendBody, SendFails, Join, Close, HeadersAreSent,
              Deliver, Takes
<1>4. CASE Finally
  BY <1>4 DEF Finally, EndStart, EndBody, EndTrailers, EndFails, Finish, Deliver, Takes
<1>5. CASE Cancelled
  BY <1>5 DEF Cancelled, CancelRead, CancelService, CancelSend, CancelJoin, CancelClose,
              CancelEnd, Cancel, Finish, Deliver, Takes
<1>6. CASE Monitor \/ MonitorFails \/ ClientLeaves \/ Over \/ UNCHANGED vars
  BY <1>6 DEF Monitor, MonitorSees, MonitorEnds, MonitorFails, ClientLeaves, Over, vars
<1> QED  BY <1>1, <1>2, <1>3, <1>4, <1>5, <1>6 DEF Next

\* On every ASGI server: events out of order come of a cancellation only, and
\* only of one that kept the handler from noting that the headers were sent.
THEOREM OnlyCancelsSendTwice == Spec => []TwiceOnlyByCancel
<1>1. Init => SentInv  BY DEF Init, SentInv
<1>2. SentInv => TwiceOnlyByCancel  BY DEF SentInv, Twice, TwiceOnlyByCancel
<1> QED  BY <1>1, <1>2, Inductive, SentStep, PTL DEF Spec
-----------------------------------------------------------------------------
(* AsgiStream implements ResponseStream.                                   *)

LEMMA InitMaps == Init => Response!Init
<1> SUFFICES ASSUME Init PROVE Response!Init
  OBVIOUS
<1>1. (cancels > 0) = FALSE  BY DEF Init
<1> QED  BY <1>1, Zenon DEF Init, Response!Init

LEMMA RequestMaps ==
    ASSUME ~CancelAfterDelivery, Inv, Request
    PROVE  Response!Next \/ UNCHANGED Response!vars
<1> USE DEF Response!Next, Response!vars, rpc, serviceVars, wireVars
<1>1. CASE CallReturns
  BY <1>1 DEF CallReturns, Inv, WireInv, ServiceInv, Response!Answer
<1>2. CASE CallRaises
  BY <1>2 DEF CallRaises, Inv, ServiceInv, Response!Conclude
<1>3. CASE Negotiate \/ ReadMessage \/ ReadEnd \/ ReadFails
  BY <1>3 DEF Negotiate, ReadMessage, ReadEnd, ReadFails
<1> QED  BY <1>1, <1>2, <1>3 DEF Request

LEMMA ServiceMaps ==
    ASSUME ~CancelAfterDelivery, Inv, Service
    PROVE  Response!Next \/ UNCHANGED Response!vars
<1> USE DEF Response!Next, Response!vars, Inv, TypeOK, WireInv, MonitorInv,
            ServiceInv, InLoop, Streaming, rpc, serviceVars, wireVars
<1>1. CASE GenYields /\ Disconnected
  BY <1>1 DEF GenYields, Disconnected, Response!Drop
<1>2. CASE GenYields /\ ~Disconnected
  <2>1. CASE Streaming  BY <1>2, <2>1 DEF GenYields, Response!Produce
  <2>2. CASE ~Streaming  BY <1>2, <2>2 DEF GenYields
  <2> QED  BY <2>1, <2>2
<1>3. CASE GenReturns  BY <1>3 DEF GenReturns, Response!Conclude
<1>4. CASE GenRaises  BY <1>4 DEF GenRaises, Response!Conclude
<1> QED  BY <1>1, <1>2, <1>3, <1>4 DEF Service

LEMMA LoopMaps ==
    ASSUME ~CancelAfterDelivery, Inv, Loop
    PROVE  Response!Next \/ UNCHANGED Response!vars
<1> USE DEF Response!Next, Response!vars, Inv, WireInv, ServiceInv, InLoop,
            Deliver, Takes, rpc, serviceVars, wireVars
<1>1. CASE SendHeaders  BY <1>1 DEF SendHeaders, HeadersAreSent, Response!Open
<1>2. CASE SendBody  BY <1>2 DEF SendBody, Response!Carry
<1>3. CASE SendFails  BY <1>3 DEF SendFails, DropOwed, Response!Drop
<1>4. CASE Join  BY <1>4 DEF Join
<1>5. CASE Close  BY <1>5 DEF Close, Response!Conclude
<1> QED  BY <1>1, <1>2, <1>3, <1>4, <1>5 DEF Loop

LEMMA FinallyMaps ==
    ASSUME ~CancelAfterDelivery, Inv, Finally
    PROVE  Response!Next \/ UNCHANGED Response!vars
<1> USE DEF Response!Next, Response!vars, Inv, TypeOK, WireInv, ServiceInv,
            VerdictInv, InFinally, Deliver, Takes, Verdict, rpc, serviceVars, wireVars
<1>1. CASE EndStart  BY <1>1 DEF EndStart, Response!Open
<1>2. CASE EndBody
  <2>1. CASE trailers  BY <1>2, <2>1 DEF EndBody, Response!EndBody
  <2>2. CASE ~trailers
    BY <1>2, <2>2 DEF EndBody, Response!End, Response!Judge, Response!Complete
  <2> QED  BY <2>1, <2>2
<1>3. CASE EndTrailers
  BY <1>3 DEF EndTrailers, Response!End, Response!Judge, Response!Complete
<1>4. CASE EndFails  BY <1>4 DEF EndFails
<1> QED  BY <1>1, <1>2, <1>3, <1>4 DEF Finally

LEMMA CancelledMaps ==
    ASSUME ~CancelAfterDelivery, Inv, Cancelled
    PROVE  Response!Next \/ UNCHANGED Response!vars
<1>1. cancels' > 0
  BY DEF Cancelled, CancelRead, CancelService, CancelSend, CancelJoin, CancelClose,
         CancelEnd, Cancel, Inv, TypeOK
<1> USE <1>1 DEF Response!Next, Response!Abort, Inv, ServiceInv, InLoop, Streaming,
                 rpc, serviceVars, wireVars
<1>2. CASE CancelRead  BY <1>2 DEF CancelRead
<1>3. CASE CancelService  BY <1>3 DEF CancelService
<1>4. CASE CancelSend  BY <1>4 DEF CancelSend, DropOwed
<1>5. CASE CancelJoin  BY <1>5 DEF CancelJoin
<1>6. CASE CancelClose  BY <1>6 DEF CancelClose
<1>7. CASE CancelEnd  BY <1>7 DEF CancelEnd
<1> QED  BY <1>2, <1>3, <1>4, <1>5, <1>6, <1>7 DEF Cancelled

LEMMA OthersMap ==
    ASSUME Monitor \/ MonitorFails \/ ClientLeaves \/ Over \/ UNCHANGED vars
    PROVE  UNCHANGED Response!vars
BY DEF Monitor, MonitorSees, MonitorEnds, MonitorFails, ClientLeaves, Over, vars,
       Response!vars, rpc, serviceVars, wireVars

\* Every behaviour of the handler is one of ResponseStream: opened once, every
\* message carried or known to be lost, one verdict, and that one true.
THEOREM ImplementsResponse == ASSUME ~CancelAfterDelivery PROVE Spec => IsResponse
<1>1. Init => Response!Init  BY InitMaps
<1>2. Inv /\ [Next]_vars => [Response!Next]_(Response!vars)
  BY RequestMaps, ServiceMaps, LoopMaps, FinallyMaps, CancelledMaps, OthersMap DEF Next
<1> QED  BY <1>1, <1>2, Inductive, PTL DEF Spec, Response!Spec, IsResponse
=============================================================================
