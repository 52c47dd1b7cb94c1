----------------------------- MODULE Telemetry -----------------------------
(***************************************************************************)
(* The spans of the OpenTelemetry interceptor.  Each end of a call has a   *)
(* frame: on_start() makes a span and makes it the current one of the      *)
(* context of the task it runs in, on_end() ends it and gives the context  *)
(* back what on_start() found there, whatever is there by then.  Between   *)
(* the two a stream's frame is suspended, and its consumer's other code    *)
(* runs, in the same context.  What spans and metrics say is left out.     *)
(***************************************************************************)
EXTENDS Naturals, SequencesExt

CONSTANTS Calls,
          Streams,  \* those of the calls whose answer is a stream
          Tasks,    \* contexts, of either side
          Traced,   \* those of the tasks that run within a span of their own
          None

Spans == Calls \X {"client", "server"}

(* Current is a span of these, a task's own or none, and never two of them *)
(* at once; streams are calls.                                             *)
ASSUME SpansAssumption ==
    /\ Streams \subseteq Calls /\ Traced \subseteq Tasks
    /\ None \notin Spans \cup Tasks /\ Spans \cap Tasks = {}

VARIABLES careful,  \* whether streams are read to their end in the order of a stack
          current,  \* of each task, the current span: a frame's, the task's own, or None
          open,     \* of each task, the frames that began there and did not end, in order
          saved,    \* of each frame, what on_start() found current
          header,   \* of each call, the span its request names
          parent,   \* of each frame, its span's parent
          trace,    \* of each frame, the first span of its trace
          begun     \* the frames there were

spanVars == <<careful, current, open, saved, header, parent, trace, begun>>

Outer(t) == IF t \in Traced THEN t ELSE None

(* Slips a maintainer could make in the operators that follow them.        *)
Cleared(f) == None
HeaderOnly(f, t) == IF f[2] = "client" THEN current[t] ELSE header[f[1]]

(* start_as_current_span() with a context of None takes the current span;  *)
(* a server with none takes the one the request names.                     *)
ParentOf(f, t) ==
    IF f[2] = "client" \/ current[t] # None THEN current[t] ELSE header[f[1]]

TraceOf(span, f) ==
    IF span = None THEN f ELSE IF span \in Tasks THEN span ELSE trace[span]

SpanInit ==
    /\ careful \in BOOLEAN
    /\ current = [t \in Tasks |-> Outer(t)]
    /\ open = [t \in Tasks |-> <<>>]
    /\ saved = [f \in Spans |-> None] /\ parent = saved /\ trace = saved
    /\ header = [c \in Calls |-> None]
    /\ begun = {}

IsOpen(f) == \E t \in Tasks : f \in ToSet(open[t])

(* A server meets a request while its client waits.  A client names in the *)
(* request the span it found, not the one it is about to begin.            *)
StartSpan(f, t) ==
    /\ f \notin begun
    /\ f[2] = "server" => IsOpen(<<f[1], "client">>)
    /\ begun' = begun \cup {f}
    /\ header' = IF f[2] = "client" THEN [header EXCEPT ![f[1]] = current[t]] ELSE header
    /\ parent' = [parent EXCEPT ![f] = ParentOf(f, t)]
    /\ trace' = [trace EXCEPT ![f] = TraceOf(ParentOf(f, t), f)]
    /\ saved' = [saved EXCEPT ![f] = current[t]]
    /\ current' = [current EXCEPT ![t] = f]
    /\ open' = [open EXCEPT ![t] = Append(@, f)]
    /\ UNCHANGED careful

Found(f) == saved[f]

(* A call that is awaited holds its task: what began there later and did   *)
(* not end is a stream somebody left.                                      *)
MayEnd(t, i) ==
    /\ i \in DOMAIN open[t]
    /\ careful => i = Len(open[t])
    /\ open[t][i][1] \notin Streams =>
            \A j \in i + 1..Len(open[t]) : open[t][j][1] \in Streams

Ended(t, i) ==
    /\ open' = [open EXCEPT ![t] = RemoveAt(@, i)]
    /\ UNCHANGED <<careful, saved, header, parent, trace, begun>>

EndSpan(t, i) ==
    /\ MayEnd(t, i)
    /\ current' = [current EXCEPT ![t] = Found(open[t][i])]
    /\ Ended(t, i)

(* A stream nobody reads any more is closed by the event loop, in a task   *)
(* of its own: its token is of another context, where it cannot be used.   *)
EndSpanElsewhere(t, i) ==
    /\ MayEnd(t, i) /\ ~careful /\ open[t][i][1] \in Streams
    /\ UNCHANGED current
    /\ Ended(t, i)

Idle == (\A t \in Tasks : open[t] = <<>>) /\ UNCHANGED spanVars

SpanNext ==
    \/ \E t \in Tasks :
        \/ \E f \in Spans : StartSpan(f, t)
        \/ \E i \in 1..Len(open[t]) : EndSpan(t, i) \/ EndSpanElsewhere(t, i)
    \/ Idle

SpanSpec == SpanInit /\ [][SpanNext]_spanVars

----------------------------------------------------------------------------
(* Streams that end in the order of a stack leave each task with the span  *)
(* of the innermost frame that is still open, or its own; so no span has a *)
(* parent, nor a log line an identifier, of a call that is over.  (Two     *)
(* streams read in turns, or one left to the event loop, end otherwise:    *)
(* the task is then left with a span that has ended.)                      *)
Restored ==
    careful => \A t \in Tasks :
        current[t] = IF open[t] = <<>> THEN Outer(t) ELSE Last(open[t])

(* The span of a server that finds none is of its client's trace exactly   *)
(* when the client found one, which the request then names; that of a      *)
(* server called in its client's own span is of its trace.  (One that      *)
(* finds another span, a framework's, is of that one's, whatever the       *)
(* request says; nothing is said of it here.)                              *)
TraceJoined ==
    \A c \in Calls : LET ours == <<c, "client">> theirs == <<c, "server">>
        IN  theirs \in begun =>
            /\ saved[theirs] = None =>
                (trace[theirs] = trace[ours] <=> saved[ours] # None)
            /\ saved[theirs] = ours => trace[theirs] = trace[ours]
=============================================================================
