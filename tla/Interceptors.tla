---------------------------- MODULE Interceptors ----------------------------
(***************************************************************************)
(* A stack of metadata interceptors (MetadataInterceptorInvoker) around a  *)
(* handler, in the asynchronous and the synchronous flavour, for RPCs that *)
(* answer once and for RPCs that answer with a stream.                     *)
(*                                                                         *)
(* Frame i of the stack is the i-th interceptor, outermost first; the last *)
(* frame is the handler.  Control is in one frame at a time and a signal   *)
(* says how it got there.  The two flavours differ in one construct only:  *)
(* the synchronous stream is passed on with `yield from`, which closes the *)
(* inner generator when the outer one is closed, the asynchronous one with *)
(* `async for`, which does not: the inner generator is dropped, and the    *)
(* event loop closes it some time later.                                   *)
(***************************************************************************)
EXTENDS Naturals

CONSTANT NumLayers  \* the number of interceptors

ASSUME LayerAssumption == NumLayers \in Nat \ {0}

Layers  == 1..NumLayers
Handler == NumLayers + 1
Frames  == 1..Handler

VARIABLES
    flavor,   \* "async" or "sync"
    shape,    \* "single" or "stream": what the RPC answers with
    depth,    \* the frame in control, 0 being the caller
    signal,   \* how control reached it
    frame,    \* each frame: "idle", "inside" its body, or "ended"
    left,     \* how each frame was left
    told,     \* what each interceptor's on_end was told of errors
    orphan    \* the frame dropped by an outer one, 0 when there is none

vars == <<flavor, shape, depth, signal, frame, left, told, orphan>>

\* Signals that leave a frame for good.
Exits == {"return", "error", "cancel", "closed"}

TypeOK ==
    /\ flavor \in {"async", "sync"}
    /\ shape \in {"single", "stream"}
    /\ depth \in 0..Handler
    /\ signal \in {"call", "value", "close"} \cup Exits
    /\ frame \in [Frames -> {"idle", "inside", "ended"}]
    /\ left \in [Frames -> Exits \cup {"none"}]
    /\ told \in [Layers -> {"untold", "none", "error"}]
    /\ orphan \in 0..Handler

Init ==
    /\ flavor \in {"async", "sync"}
    /\ shape \in {"single", "stream"}
    /\ depth = 1
    /\ signal = "call"
    /\ frame = [i \in Frames |-> "idle"]
    /\ left = [i \in Frames |-> "none"]
    /\ told = [i \in Layers |-> "untold"]
    /\ orphan = 0
-----------------------------------------------------------------------------
\* Awaits are where a cancellation strikes.
MayCancel == IF flavor = "async" THEN {"cancel"} ELSE {}

(* Slips in the operators that follow.                                      *)
ForgetRaise(i, s) ==
    LET r == IF i # Handler /\ s = "error" THEN "return" ELSE s
    IN  /\ frame' = [frame EXCEPT ![i] = "ended"]
        /\ left' = [left EXCEPT ![i] = r]
        /\ depth' = i - 1
        /\ signal' = r
Forgotten(i)       == 0

\* Frame i is left by s for the frame outside it.
Exit(i, s) ==
    /\ frame' = [frame EXCEPT ![i] = "ended"]
    /\ left' = [left EXCEPT ![i] = s]
    /\ depth' = i - 1
    /\ signal' = s

\* What `except Exception` keeps for on_end.
Told == IF signal = "error" THEN "error" ELSE "none"

\* The generator that frame i was iterating over, and the one inside that.
Inner(i)   == i + 1
NextOrphan == IF orphan = Handler THEN 0 ELSE Inner(orphan)

\* The caller asks for the answer, or for the next message of the stream.
Call ==
    /\ depth = 0 /\ signal = "value"
    /\ depth' = 1
    /\ signal' = "call"
    /\ UNCHANGED <<flavor, shape, frame, left, told, orphan>>

\* The caller stops early: aclose(), close().
CloseStream ==
    /\ depth = 0 /\ signal = "value"
    /\ depth' = 1
    /\ signal' = "close"
    /\ UNCHANGED <<flavor, shape, frame, left, told, orphan>>

\* on_start, outside the try: if it fails there is no on_end.
OnStart(i) ==
    /\ depth = i /\ signal = "call" /\ frame[i] = "idle"
    /\ \/ /\ frame' = [frame EXCEPT ![i] = "inside"]
          /\ depth' = i + 1
          /\ UNCHANGED <<signal, left>>
       \/ \E s \in {"error"} \cup MayCancel : Exit(i, s)
    /\ UNCHANGED <<flavor, shape, told, orphan>>

\* The next message is asked of the frame inside.
PassCall(i) ==
    /\ depth = i /\ signal = "call" /\ frame[i] = "inside"
    /\ depth' = i + 1
    /\ UNCHANGED <<flavor, shape, signal, frame, left, told, orphan>>

PassValue(i) ==
    /\ depth = i /\ signal = "value"
    /\ depth' = i - 1
    /\ UNCHANGED <<flavor, shape, signal, frame, left, told, orphan>>

\* GeneratorExit at the yield: `yield from` closes the inner generator and
\* waits for it; `async for` is abandoned, and its iterator with it.
PassClose(i) ==
    /\ depth = i /\ signal = "close"
    /\ IF flavor = "sync"
       THEN depth' = i + 1 /\ UNCHANGED <<signal, orphan>>
       ELSE orphan' = Inner(i) /\ signal' = "closed" /\ UNCHANGED depth
    /\ UNCHANGED <<flavor, shape, frame, left, told>>

\* The finally: on_end is told of an Exception and of nothing else, and
\* failing itself takes the place of what was in flight.
OnEnd(i) ==
    /\ depth = i /\ signal \in Exits
    /\ told' = [told EXCEPT ![i] = Told]
    /\ \E s \in {signal, "error"} \cup MayCancel : Exit(i, s)
    /\ UNCHANGED <<flavor, shape, orphan>>

\* The handler: a function that answers once, or a generator.
RunHandler ==
    /\ depth = Handler /\ signal = "call"
    /\ \/ \E s \in {"return", "error"} \cup MayCancel : Exit(Handler, s)
       \/ /\ shape = "stream"
          /\ frame' = [frame EXCEPT ![Handler] = "inside"]
          /\ signal' = "value"
          /\ depth' = NumLayers
          /\ UNCHANGED left
    /\ UNCHANGED <<flavor, shape, told, orphan>>

\* GeneratorExit in the handler; its finally-blocks may raise.
CloseHandler ==
    /\ depth = Handler /\ signal = "close"
    /\ \E s \in {"closed", "error"} : Exit(Handler, s)
    /\ UNCHANGED <<flavor, shape, told, orphan>>

\* The event loop closes a dropped generator, in a task of its own: its
\* finally runs with GeneratorExit, and the generator inside it is dropped.
\* Whatever its on_end raises is logged by the loop.
CloseOrphan ==
    /\ orphan # 0
    /\ frame' = [frame EXCEPT ![orphan] = "ended"]
    /\ left' = [left EXCEPT ![orphan] = "closed"]
    /\ told' = [i \in Layers |-> IF i = orphan THEN "none" ELSE told[i]]
    /\ orphan' = NextOrphan
    /\ UNCHANGED <<flavor, shape, depth, signal>>

Answered == depth = 0 /\ signal \in Exits

Over == Answered /\ orphan = 0 /\ UNCHANGED vars

Step == \/ RunHandler \/ CloseHandler \/ CloseOrphan
        \/ \E i \in Layers : OnStart(i) \/ PassCall(i) \/ PassValue(i)
                             \/ PassClose(i) \/ OnEnd(i)

Next == Call \/ CloseStream \/ Step \/ Over

Spec == Init /\ [][Next]_vars

\* Interceptors and handlers return, and the event loop runs its tasks.  The
\* caller may ask for messages forever.
FairSpec == Spec /\ WF_vars(Step)
-----------------------------------------------------------------------------
(* The properties.                                                          *)

\* on_end of an interceptor runs when nothing inside it is running any more,
\* as `try ... finally` around the call suggests; except where an early close
\* dropped what was inside.
Nested ==
    orphan = 0 => \A i, j \in Frames :
                    i < j /\ frame[i] = "ended" => frame[j] # "inside"

\* A caller that is told of success was given it by every frame: no failure,
\* of the handler or of an interceptor, is lost on the way out, and none of
\* the interceptors was told of one.
NothingSwallowed ==
    Answered /\ signal = "return" =>
        /\ \A i \in Frames : left[i] = "return"
        /\ \A i \in Layers : told[i] = "none"

\* An interceptor told of an error was told of one that came from inside it.
ToldOfInner ==
    \A i \in Layers : told[i] = "error" => left[i + 1] = "error"

\* Once the caller is done, every interceptor that was started is ended.
AllEnd == Answered ~> \A i \in Frames : frame[i] # "inside"
=============================================================================
