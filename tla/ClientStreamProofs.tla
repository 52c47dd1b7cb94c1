------------------------- MODULE ClientStreamProofs -------------------------
(***************************************************************************)
(* Proofs about ClientStream, for chunks of any number of messages and any *)
(* number of cancellations from outside.                                   *)
(***************************************************************************)
EXTENDS ClientStream, TLAPS

\* What is known of a response none of whose end is in doubt.
Whole ==
    /\ body = "finished"
    /\ batch = 0 /\ tail \in {"more", "end"}
    /\ reader
    /\ proto # "connect" => GrpcStatus = "ok"

\* The control point, the exception in flight and the reader's state agree.
PlaceInv ==
    /\ pc = "ended" <=> result # "none"
    /\ shape = "unary" => proto = "connect" /\ pc \in {"created", "posting", "ended"}
    /\ pc = "posting" => shape = "unary"
    /\ pc \notin {"closing", "ended"} => exc = "none" /\ ~streamError
    /\ pc \in {"created", "posting", "opening", "draining"} => batch = 0 /\ tail = "more"
    /\ pc = "reading" => reader /\ batch = 0 /\ tail \in {"more", "end"}
    /\ pc \in {"yielded", "checking"} => reader
    /\ pc = "closing" /\ exc = "none" => Whole
    /\ streamError => ~Async
    /\ pc = "closing" /\ streamError => exc = "connect"

\* A CancelledError nobody asked for is the timeout's, and its time is up.
ClockInv ==
    /\ ~Async => ~pending /\ timer = "off"
    /\ timer # "off" => deadline
    /\ timer = "expiring" => late
    /\ pc = "created" => ~pending /\ timer = "off"
    /\ pending /\ pc # "ended" /\ asked = 0 => timer = "expiring"
    /\ pc = "closing" /\ exc = "cancel" /\ asked = 0 => timer = "expiring"
    /\ pc = "closing" /\ exc = "timeout" => deadline /\ late

Promises == DoneIsComplete /\ BlameIsRight /\ RawIsGarbage /\ StreamErrorFirst /\ NothingHeld

Inv == TypeOK /\ PlaceInv /\ ClockInv /\ Promises
-----------------------------------------------------------------------------
LEMMA InitInv == Init => Inv
<1> SUFFICES ASSUME Init PROVE Inv
  OBVIOUS
<1> USE ClientAssumption DEF ClientAssumption, Init, Awaits, Excs, NetErrors, Statuses, Async
<1>1. TypeOK
  <2>1. /\ late \in BOOLEAN /\ pending \in BOOLEAN /\ reader \in BOOLEAN
        /\ readMessage \in BOOLEAN /\ streamError \in BOOLEAN
    BY Zenon
  <2>2. asked \in 0..MaxAsks /\ batch \in 0..MaxBatch  OBVIOUS
  <2> QED  BY <2>1, <2>2 DEF TypeOK
<1>2. PlaceInv  BY DEF PlaceInv
<1>3. ClockInv  BY DEF ClockInv
<1>4. Promises
  BY DEF Promises, DoneIsComplete, BlameIsRight, RawIsGarbage, StreamErrorFirst, NothingHeld
<1> QED  BY <1>1, <1>2, <1>3, <1>4 DEF Inv

\* However the call is settled, what is promised of its end holds.
LEMMA Settled ==
    ASSUME Inv, NEW e \in Excs, Settle(e), pc # "ended",
           UNCHANGED <<call, late, asked, hstatus, tstatus, reader, readMessage, feeding>>,
           e = "none" => body' = "finished" /\ (shape = "unary" \/ Whole),
           e = "cancel" /\ asked = 0 => timer = "expiring",
           e = "timeout" => deadline /\ late,
           streamError => e \in {"connect"} \cup NetErrors,
           pending' => consumer' = "gone"
    PROVE  Promises' /\ PlaceInv' /\ result' \in {"done", "closed", "raw", "deadline",
               "canceled", "unavailable", "reset", "connect"} /\ cause' \in Excs
<1> USE DEF Inv, PlaceInv, ClockInv, Whole, Excs, NetErrors, Settle, Converted, ResultOf,
            ResetResult, KeepsStreamError, Disarm, GrpcStatus, StatusWith, Async,
            call, feeding
<1>1. cause' \in Excs /\ result' \in {"done", "closed", "raw", "deadline", "canceled",
                                      "unavailable", "reset", "connect"}
  OBVIOUS
<1>2. DoneIsComplete'  BY DEF DoneIsComplete
<1>3. BlameIsRight'
  <2>1. asked # 0 => asked > 0  BY ClientAssumption DEF TypeOK, ClientAssumption
  <2> QED  BY <2>1 DEF BlameIsRight
<1>4. RawIsGarbage'  BY DEF RawIsGarbage
<1>5. StreamErrorFirst'  BY DEF StreamErrorFirst
<1>6. NothingHeld'  BY DEF NothingHeld
<1>7. PlaceInv'  BY <1>1
<1> QED  BY <1>1, <1>2, <1>3, <1>4, <1>5, <1>6, <1>7 DEF Promises

\* A step that neither settles the call nor moves it out of an end.
LEMMA Unsettled ==
    ASSUME Promises, Inv, pc # "ended", pc' # "ended", result' = "none", result = "none"
    PROVE  Promises'
BY DEF Promises, DoneIsComplete, BlameIsRight, RawIsGarbage, StreamErrorFirst, NothingHeld

LEMMA AdvanceInv ==
    ASSUME Inv, NEW n \in 0..MaxBatch, NEW t \in {"more", "end", "connect", "other"},
           pc \in {"reading", "yielded", "checking"}, shape = "stream",
           Advance(n, t), UNCHANGED <<call, clock, body, hstatus, reader, ending, http, consumer, struck>>
    PROVE  Inv'
<1> USE ClientAssumption
    DEF ClientAssumption, Inv, Advance, LeaveStream, Whole, call, clock, ending, feeding, Awaits,
        Excs, NetErrors, Statuses, Async
<1>1. TypeOK'
  <2>1. readMessage' \in BOOLEAN /\ streamError' \in BOOLEAN
    BY Zenon DEF TypeOK
  <2>2. batch' \in 0..MaxBatch
    <3>1. CASE n > 0  BY <3>1
    <3>2. CASE ~(n > 0)  BY <3>2
    <3> QED  BY <3>1, <3>2
  <2>3. tstatus' \in Statuses /\ exc' \in Excs /\ pc' \in Awaits \cup {"yielded"}
        /\ tail' \in {"more", "end", "connect", "other"}
    BY DEF TypeOK
  <2> QED  BY <2>1, <2>2, <2>3 DEF TypeOK
<1>2. PlaceInv'  BY DEF PlaceInv
<1>3. ClockInv'  BY DEF ClockInv, PlaceInv
<1>4. Promises'  BY Unsettled DEF PlaceInv
<1> QED  BY <1>1, <1>2, <1>3, <1>4

LEMMA StepInv == Inv /\ [Next]_vars => Inv'
<1> SUFFICES ASSUME Inv, [Next]_vars PROVE Inv'
  OBVIOUS
<1> USE ClientAssumption
    DEF ClientAssumption, Inv, LeaveStream, call, clock, ending, response, feeding, Awaits,
        Excs, NetErrors, Statuses, Async
<1>1. CASE Start
  <2> USE <1>1 DEF Start, Arm
  <2>1. TypeOK'  BY DEF TypeOK
  <2>2. PlaceInv'  BY DEF PlaceInv
  <2>3. ClockInv'  BY DEF ClockInv
  <2>4. Promises'  BY Unsettled DEF PlaceInv
  <2> QED  BY <2>1, <2>2, <2>3, <2>4
<1>2. CASE Resume
  <2>1. CASE Async
    <3> USE <1>2, <2>1 DEF Resume
    <3>1. TypeOK'  BY DEF TypeOK
    <3>2. PlaceInv'  BY DEF PlaceInv
    <3>3. ClockInv'  BY DEF ClockInv
    <3>4. Promises'  BY Unsettled DEF PlaceInv
    <3> QED  BY <3>1, <3>2, <3>3, <3>4
  <2>2. CASE ~Async
    <3>1. Advance(batch, tail) /\ shape = "stream"
      BY <1>2, <2>2 DEF Resume, PlaceInv, TypeOK
    <3> QED  BY <1>2, <3>1, AdvanceInv DEF Resume, TypeOK
  <2> QED  BY <2>1, <2>2
<1>3. CASE Stop
  <2> USE <1>3 DEF Stop
  <2>1. TypeOK'  BY DEF TypeOK
  <2>2. PlaceInv'  BY DEF PlaceInv
  <2>3. ClockInv'  BY DEF ClockInv, PlaceInv
  <2>4. Promises'  BY Unsettled DEF PlaceInv
  <2> QED  BY <2>1, <2>2, <2>3, <2>4
<1>4. CASE Answer
  <2>1. PICK e \in {"none", "connect", "other"} \cup NetErrors :
           Settle(e) /\ (e = "none" => body' = "finished")
    BY <1>4 DEF Answer
  <2>2. Promises' /\ PlaceInv' /\ result' \in {"done", "closed", "raw", "deadline",
          "canceled", "unavailable", "reset", "connect"} /\ cause' \in Excs
    BY <1>4, <2>1, Settled DEF Answer, PlaceInv
  <2>3. TypeOK'  BY <1>4, <2>1, <2>2 DEF Answer, Settle, Disarm, TypeOK
  <2>4. ClockInv'  BY <1>4, <2>1 DEF Answer, Settle, Disarm, ClockInv
  <2> QED  BY <2>2, <2>3, <2>4
<1>5. CASE OpenFails
  <2>1. PICK e \in NetErrors : Settle(e)
    BY <1>5 DEF OpenFails
  <2>2. Promises' /\ PlaceInv' /\ result' \in {"done", "closed", "raw", "deadline",
          "canceled", "unavailable", "reset", "connect"} /\ cause' \in Excs
    BY <1>5, <2>1, Settled DEF OpenFails, PlaceInv
  <2>3. TypeOK'  BY <1>5, <2>1, <2>2 DEF OpenFails, Settle, Disarm, TypeOK
  <2>4. ClockInv'  BY <1>5, <2>1 DEF OpenFails, Settle, Disarm, ClockInv
  <2> QED  BY <2>2, <2>3, <2>4
<1>6. CASE Opens
  <2> USE <1>6 DEF Opens
  <2>1. TypeOK'
    <3>1. reader' \in BOOLEAN  BY Zenon DEF TypeOK
    <3> QED  BY <3>1 DEF TypeOK
  <2>2. PlaceInv'  BY DEF PlaceInv
  <2>3. ClockInv'  BY DEF ClockInv, PlaceInv
  <2>4. Promises'  BY Unsettled DEF PlaceInv
  <2> QED  BY <2>1, <2>2, <2>3, <2>4
<1>7. CASE Drained
  <2> USE <1>7 DEF Drained
  <2>1. TypeOK'  BY DEF TypeOK
  <2>2. PlaceInv'  BY DEF PlaceInv
  <2>3. ClockInv'  BY DEF ClockInv, PlaceInv
  <2>4. Promises'  BY Unsettled DEF PlaceInv
  <2> QED  BY <2>1, <2>2, <2>3, <2>4
<1>8. CASE Chunk
  <2>1. shape = "stream"  BY <1>8 DEF Chunk, PlaceInv, TypeOK
  <2>2. PICK n \in 0..MaxBatch, t \in {"more", "end", "connect", "other"} : Advance(n, t)
    BY <1>8 DEF Chunk
  <2> QED  BY <1>8, <2>1, <2>2, AdvanceInv DEF Chunk
<1>9. CASE Checked
  <2>1. shape = "stream"  BY <1>9 DEF Checked, PlaceInv, TypeOK
  <2> QED  BY <1>9, <2>1, AdvanceInv DEF Checked, TypeOK
<1>10. CASE BodyEnds
  <2> USE <1>10 DEF BodyEnds, Completion, StatusWith
  <2>1. TypeOK'  BY DEF TypeOK, TrailerStatuses
  <2>2. PlaceInv'  BY DEF PlaceInv, Whole, GrpcStatus
  <2>3. ClockInv'  BY DEF ClockInv, PlaceInv
  <2>4. Promises'  BY Unsettled DEF PlaceInv
  <2> QED  BY <2>1, <2>2, <2>3, <2>4
<1>11. CASE NetFails
  <2> USE <1>11 DEF NetFails
  <2>1. TypeOK'  BY DEF TypeOK, TrailerStatuses
  <2>2. PlaceInv'  BY DEF PlaceInv
  <2>3. ClockInv'  BY DEF ClockInv, PlaceInv
  <2>4. Promises'  BY Unsettled DEF PlaceInv
  <2> QED  BY <2>1, <2>2, <2>3, <2>4
<1>12. CASE ExitStream
  <2>1. PICK e \in {exc} \cup NetErrors : Settle(e)
    BY <1>12 DEF ExitStream
  <2>2. Promises' /\ PlaceInv' /\ result' \in {"done", "closed", "raw", "deadline",
          "canceled", "unavailable", "reset", "connect"} /\ cause' \in Excs
    <3>1. e \in Excs  BY <2>1 DEF TypeOK
    <3>2. e = "none" => Whole /\ body' = "finished"
      BY <1>12, <2>1 DEF ExitStream, PlaceInv, Whole
    <3>3. (e = "cancel" /\ asked = 0 => timer = "expiring") /\ (e = "timeout" => deadline /\ late)
      BY <1>12, <2>1 DEF ExitStream, ClockInv
    <3>4. streamError => e \in {"connect"} \cup NetErrors
      BY <1>12, <2>1 DEF ExitStream, PlaceInv
    <3>5. pc # "ended" /\ UNCHANGED <<call, late, asked, hstatus, tstatus, reader, readMessage, feeding>>
      BY <1>12 DEF ExitStream
    <3>6. pending' => consumer' = "gone"  BY <1>12 DEF ExitStream
    <3> HIDE DEF Inv, call, feeding, Excs, NetErrors
    <3> QED  BY <2>1, <3>1, <3>2, <3>3, <3>4, <3>5, <3>6, Settled
  <2>3. TypeOK'  BY <1>12, <2>1, <2>2 DEF ExitStream, Settle, Disarm, TypeOK
  <2>4. ClockInv'  BY <1>12, <2>1 DEF ExitStream, Settle, Disarm, ClockInv
  <2> QED  BY <2>2, <2>3, <2>4
<1>13. CASE CloseOrphan
  <2> USE <1>13 DEF CloseOrphan
  <2>1. TypeOK'  BY DEF TypeOK
  <2>2. PlaceInv'  BY DEF PlaceInv
  <2>3. ClockInv'  BY DEF ClockInv, PlaceInv
  <2>4. Promises'  BY Unsettled DEF PlaceInv
  <2> QED  BY <2>1, <2>2, <2>3, <2>4
<1>14. CASE Strike
  <2> USE <1>14 DEF Strike
  <2>1. TypeOK'
    <3>1. pending' \in BOOLEAN  BY Zenon
    <3> QED  BY <3>1 DEF TypeOK
  <2>2. PlaceInv'  BY DEF PlaceInv, Whole, GrpcStatus, StatusWith
  <2>3. ClockInv'  BY DEF ClockInv
  <2>4. Promises'
    BY DEF Promises, DoneIsComplete, BlameIsRight, RawIsGarbage, StreamErrorFirst,
           NothingHeld, GrpcStatus, StatusWith
  <2> QED  BY <2>1, <2>2, <2>3, <2>4
<1>15. CASE Throw
  <2>1. CASE pc \in {"reading", "checking", "draining"}
    <3> USE <1>15, <2>1 DEF Throw
    <3>1. TypeOK'
      <4>1. pending' \in BOOLEAN  BY Zenon
      <4> QED  BY <4>1 DEF TypeOK
    <3>2. PlaceInv'  BY DEF PlaceInv
    <3>3. ClockInv'  BY DEF ClockInv
    <3>4. Promises'  BY Unsettled DEF PlaceInv
    <3> QED  BY <3>1, <3>2, <3>3, <3>4
  <2>2. CASE pc \notin {"reading", "checking", "draining"}
    <3>1. Settle("cancel")  BY <1>15, <2>2 DEF Throw
    <3>2. Promises' /\ PlaceInv' /\ result' \in {"done", "closed", "raw", "deadline",
            "canceled", "unavailable", "reset", "connect"} /\ cause' \in Excs
      <4>1. asked = 0 => timer = "expiring"
        BY <1>15 DEF Throw, ClockInv
      <4>2. ~streamError
        BY <1>15 DEF Throw, ClockInv, PlaceInv
      <4>3. pc # "ended" /\ UNCHANGED <<call, late, asked, hstatus, tstatus, reader, readMessage, feeding>>
        BY <1>15 DEF Throw
      <4>4. "cancel" \in Excs  OBVIOUS
      <4>5. ~pending'  BY <1>15 DEF Throw
      <4> HIDE DEF Inv, call, feeding, Excs, NetErrors
      <4> QED  BY <3>1, <4>1, <4>2, <4>3, <4>4, <4>5, Settled
    <3>3. TypeOK'
      <4>1. pending' \in BOOLEAN  BY <1>15, Zenon DEF Throw
      <4> QED  BY <1>15, <3>1, <3>2, <4>1 DEF Throw, Settle, Disarm, TypeOK
    <3>4. ClockInv'  BY <1>15, <3>1 DEF Throw, Settle, Disarm, ClockInv
    <3> QED  BY <3>2, <3>3, <3>4
  <2> QED  BY <2>1, <2>2
<1>16. CASE TimeIsUp
  <2> USE <1>16 DEF TimeIsUp
  <2>1. TypeOK'  BY DEF TypeOK
  <2>2. PlaceInv'  BY DEF PlaceInv, Whole, GrpcStatus, StatusWith
  <2>3. ClockInv'  BY DEF ClockInv
  <2>4. Promises'
    BY DEF Promises, DoneIsComplete, BlameIsRight, RawIsGarbage, StreamErrorFirst,
           NothingHeld, GrpcStatus, StatusWith
  <2> QED  BY <2>1, <2>2, <2>3, <2>4
<1>17. CASE FireTimer
  <2>1. pc # "ended"  BY <1>17 DEF FireTimer, Promises, NothingHeld
  <2> USE <1>17, <2>1 DEF FireTimer
  <2>2. TypeOK'  BY DEF TypeOK
  <2>3. PlaceInv'  BY DEF PlaceInv, Whole, GrpcStatus, StatusWith
  <2>4. ClockInv'
    <3>1. pc # "created"  BY DEF ClockInv
    <3> QED  BY <3>1 DEF ClockInv
  <2>5. Promises'  BY Unsettled DEF PlaceInv
  <2> QED  BY <2>2, <2>3, <2>4, <2>5
<1>18. CASE AskCancel
  <2> USE <1>18 DEF AskCancel
  <2>1. TypeOK'  BY DEF TypeOK
  <2>2. PlaceInv'  BY DEF PlaceInv, Whole, GrpcStatus, StatusWith
  <2>3. ClockInv'  BY DEF ClockInv, TypeOK
  <2>4. Promises'  BY Unsettled DEF PlaceInv
  <2> QED  BY <2>1, <2>2, <2>3, <2>4
<1>19. CASE Over \/ UNCHANGED vars
  BY <1>19 DEF Over, vars, TypeOK, PlaceInv, ClockInv, Whole, Promises, DoneIsComplete,
     BlameIsRight, RawIsGarbage, StreamErrorFirst, NothingHeld, GrpcStatus, StatusWith
<1> HIDE DEF Inv
<1> QED
  BY <1>1, <1>2, <1>3, <1>4, <1>5, <1>6, <1>7, <1>8, <1>9, <1>10, <1>11, <1>12, <1>13,
     <1>14, <1>15, <1>16, <1>17, <1>18, <1>19 DEF Next, Consumer, Network, Client, Clock

\* The invariant that the promises below are read off.
LEMMA Inductive == Spec => []Inv
BY InitInv, StepInv, PTL DEF Spec

\* Every state of a call is well typed, whatever the server and the network do.
THEOREM TypeCorrect == Spec => []TypeOK
<1>1. Inv => TypeOK  BY DEF Inv
<1> QED  BY <1>1, Inductive, PTL

\* A call that ends well had its whole response, in chunks of any size.
THEOREM SuccessIsComplete == Spec => []DoneIsComplete
<1>1. Inv => DoneIsComplete  BY DEF Inv, Promises
<1> QED  BY <1>1, Inductive, PTL

\* The timeout's CancelledError and the consumer's are never confused, however
\* many cancellations there are.
THEOREM DeadlineAndCancelDiffer == Spec => []BlameIsRight
<1>1. Inv => BlameIsRight  BY DEF Inv, Promises
<1> QED  BY <1>1, Inductive, PTL

\* All but a reset with unreadable trailers is a ConnectError.
THEOREM ErrorsAreMapped == Spec => []RawIsGarbage
<1>1. Inv => RawIsGarbage  BY DEF Inv, Promises
<1> QED  BY <1>1, Inductive, PTL

\* An error the synchronous reader raised is the error the caller gets.
THEOREM StreamErrorIsKept == Spec => []StreamErrorFirst
<1>1. Inv => StreamErrorFirst  BY DEF Inv, Promises
<1> QED  BY <1>1, Inductive, PTL

\* A call that is over has left its HTTP stream and its timeout.
THEOREM NothingIsHeld == Spec => []NothingHeld
<1>1. Inv => NothingHeld  BY DEF Inv, Promises
<1> QED  BY <1>1, Inductive, PTL
=============================================================================
