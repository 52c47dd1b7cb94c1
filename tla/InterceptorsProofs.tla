------------------------- MODULE InterceptorsProofs -------------------------
(***************************************************************************)
(* Stacks of any height; and the spans that one of their interceptors, the  *)
(* one of OpenTelemetry, opens, in any number of calls and tasks.           *)
(***************************************************************************)
EXTENDS Interceptors, Telemetry, SequenceTheorems, TLAPS

\* What a dropped generator leaves behind: the frames from it inwards are
\* still inside their bodies, those between it and the outermost have ended.
DroppedInv ==
    orphan # 0 =>
        /\ orphan >= 2
        /\ flavor = "async"
        /\ signal \in {"error", "cancel", "closed"}
        /\ \/ depth = 1 /\ signal = "closed" /\ frame[1] = "inside"
           \/ depth = 0 /\ frame[1] = "ended"
        /\ \A j \in Frames : j >= orphan => frame[j] = "inside"
        /\ \A j \in Frames : 2 <= j /\ j < orphan => frame[j] = "ended"

\* Without one, the frames outside the one in control are inside their
\* bodies, and the signal tells what the others are.
StackInv ==
    orphan = 0 =>
        /\ signal \in {"value", "close"} => \A j \in Frames : frame[j] = "inside"
        /\ signal = "call" =>
             /\ \A j \in Frames : j < depth => frame[j] = "inside"
             /\ \/ \A j \in Frames : j >= depth => frame[j] = "idle"
                \/ \A j \in Frames : frame[j] = "inside"
        /\ signal \in Exits =>
             /\ \A j \in Frames : j <= depth => frame[j] = "inside"
             /\ \A j \in Frames : j > depth => frame[j] # "inside"

DepthInv ==
    /\ signal \in {"call", "close"} => depth > 0
    /\ signal = "close" /\ flavor = "async" => depth = 1
    /\ signal \in Exits \cup {"value"} => depth < Handler

\* What the frames inside the one in control were left with and told.
ToldInv ==
    /\ \A i \in Layers : frame[i] # "ended" => told[i] = "untold"
    /\ \A i \in Layers : told[i] = "error" =>
                           left[i + 1] = "error" /\ frame[i + 1] = "ended"
    /\ signal = "error" => left[depth + 1] = "error" /\ frame[depth + 1] = "ended"
    /\ signal = "return" =>
         /\ \A j \in Frames : j > depth => left[j] = "return"
         /\ \A j \in Layers : j > depth => told[j] = "none"

Inv == TypeOK /\ DroppedInv /\ StackInv /\ DepthInv /\ ToldInv
-----------------------------------------------------------------------------
LEMMA InitInv == Init => Inv
BY LayerAssumption DEF LayerAssumption, Init, Inv, TypeOK, DroppedInv, StackInv,
   DepthInv, ToldInv, Frames, Layers, Handler, Exits

LEMMA StepInv == Inv /\ [Next]_vars => Inv'
<1> SUFFICES ASSUME Inv, [Next]_vars PROVE Inv'
  OBVIOUS
<1> USE LayerAssumption
    DEF LayerAssumption, Inv, TypeOK, DroppedInv, StackInv, DepthInv, ToldInv,
        Frames, Layers, Handler, Exits, Exit, MayCancel
<1>1. CASE Call  BY <1>1 DEF Call
<1>2. CASE CloseStream  BY <1>2 DEF CloseStream
<1>3. CASE RunHandler  BY <1>3 DEF RunHandler
<1>4. CASE CloseHandler  BY <1>4 DEF CloseHandler
<1>5. CASE CloseOrphan  BY <1>5 DEF CloseOrphan, NextOrphan, Inner
<1>6. ASSUME NEW i \in Layers, OnStart(i) PROVE Inv'
  BY <1>6 DEF OnStart
<1>7. ASSUME NEW i \in Layers, PassCall(i) PROVE Inv'
  BY <1>7 DEF PassCall
<1>8. ASSUME NEW i \in Layers, PassValue(i) PROVE Inv'
  BY <1>8 DEF PassValue
<1>9. ASSUME NEW i \in Layers, PassClose(i) PROVE Inv'
  BY <1>9 DEF PassClose, Inner
<1>10. ASSUME NEW i \in Layers, OnEnd(i) PROVE Inv'
  BY <1>10 DEF OnEnd, Told
<1>11. CASE Over \/ UNCHANGED vars  BY <1>11 DEF Over, vars
<1> QED
  BY <1>1, <1>2, <1>3, <1>4, <1>5, <1>6, <1>7, <1>8, <1>9, <1>10, <1>11 DEF Next, Step

LEMMA Inductive == Spec => []Inv
BY InitInv, StepInv, PTL DEF Spec

\* Every variable keeps its type.
THEOREM TypeCorrect == Spec => []TypeOK
<1>1. Inv => TypeOK  BY DEF Inv
<1> QED  BY <1>1, Inductive, PTL

\* Unless an early close dropped a generator, an interceptor ends only when
\* everything inside it has.
THEOREM EndsAreNested == Spec => []Nested
<1>1. Inv => Nested
  BY DEF Inv, TypeOK, StackInv, DepthInv, Nested, Frames, Exits
<1> QED  BY <1>1, Inductive, PTL

\* An interceptor is told only of errors that came from the frame inside it.
THEOREM ErrorsAreReal == Spec => []ToldOfInner
<1>1. Inv => ToldOfInner  BY DEF Inv, ToldInv, ToldOfInner
<1> QED  BY <1>1, Inductive, PTL

\* A caller told of success was given it by every frame of the stack.
THEOREM NothingIsSwallowed == Spec => []NothingSwallowed
<1>1. Inv => NothingSwallowed
  BY LayerAssumption DEF LayerAssumption, Inv, ToldInv, NothingSwallowed, Answered,
     Frames, Layers, Handler
<1> QED  BY <1>1, Inductive, PTL

-----------------------------------------------------------------------------
(* The spans of the OpenTelemetry interceptor, in any number of tasks.     *)

Sources == {None} \cup Tasks \cup begun

SpanTypes ==
    /\ begun \subseteq Spans
    /\ open \in [Tasks -> Seq(begun)]
    /\ current \in [Tasks -> Sources]
    /\ saved \in [Spans -> Sources]
    /\ DOMAIN trace = Spans
    /\ DOMAIN header = Calls

\* The frames open in a task are a chain, each of which found the one before it.
ChainInv ==
    careful =>
        /\ \A t, u \in Tasks : \A i \in DOMAIN open[t], j \in DOMAIN open[u] :
                open[t][i] = open[u][j] => t = u /\ i = j
        /\ \A t \in Tasks : \A i \in DOMAIN open[t] :
                saved[open[t][i]] = IF i = 1 THEN Outer(t) ELSE open[t][i - 1]

\* What a request names is what its client found, of whose trace the client is;
\* a server is begun after its client.
HeaderInv ==
    \A c \in Calls : LET ours == <<c, "client">> IN
        /\ ours \in begun => /\ header[c] = saved[ours]
                             /\ trace[ours] = TraceOf(saved[ours], ours)
        /\ <<c, "server">> \in begun => ours \in begun

SpanInv == SpanTypes /\ ChainInv /\ Restored /\ HeaderInv /\ TraceJoined

\* A sequence without one of its members is one of the same; without its last
\* it is what was in front of that.
LEMMA RemoveFact ==
    ASSUME NEW S, NEW s \in Seq(S), NEW i \in 1..Len(s)
    PROVE  /\ RemoveAt(s, i) \in Seq(S)
           /\ i = Len(s) => /\ Len(RemoveAt(s, i)) = Len(s) - 1
                            /\ \A j \in 1..Len(s) - 1 : RemoveAt(s, i)[j] = s[j]
<1> DEFINE p == SubSeq(s, 1, i - 1)
           q == SubSeq(s, i + 1, Len(s))
<1>1. /\ p \in Seq(S) /\ Len(p) = i - 1
      /\ \A j \in 1..i - 1 : p[j] = s[j]
  OBVIOUS
<1>2. q \in Seq(S) /\ Len(q) = Len(s) - i
  OBVIOUS
<1>3. RemoveAt(s, i) = p \o q
  BY DEF RemoveAt
<1> HIDE DEF p, q
<1>4. /\ p \o q \in Seq(S) /\ Len(p \o q) = Len(p) + Len(q)
      /\ \A j \in 1..Len(p) + Len(q) :
            (p \o q)[j] = IF j <= Len(p) THEN p[j] ELSE q[j - Len(p)]
  BY <1>1, <1>2, ConcatProperties
<1> QED  BY <1>1, <1>2, <1>3, <1>4

LEMMA SpanInvInit == SpanInit => SpanInv
<1> SUFFICES ASSUME SpanInit  PROVE SpanInv
  OBVIOUS
<1>1. \A t \in Tasks : Outer(t) \in Sources
  BY DEF Outer, Sources
<1>2. /\ begun = {} /\ open = [t \in Tasks |-> <<>>]
      /\ current = [t \in Tasks |-> Outer(t)]
      /\ saved = [f \in Spans |-> None] /\ trace = saved
      /\ header = [c \in Calls |-> None]
  BY DEF SpanInit
<1>3. \A t \in Tasks : open[t] = <<>> /\ DOMAIN open[t] = {} /\ open[t] \in Seq(begun)
  BY <1>2
<1>4. SpanTypes
  BY <1>1, <1>2, <1>3 DEF SpanTypes, Sources
<1>5. Restored
  BY <1>2 DEF Restored
<1> QED  BY <1>2, <1>3, <1>4, <1>5 DEF SpanInv, ChainInv, HeaderInv, TraceJoined

LEMMA StartTypes ==
    ASSUME SpanInv, NEW f \in Spans, NEW t \in Tasks, StartSpan(f, t)
    PROVE  SpanTypes'
<1>1. /\ begun' = begun \cup {f} /\ open' = [open EXCEPT ![t] = Append(@, f)]
      /\ current' = [current EXCEPT ![t] = f]
      /\ saved' = [saved EXCEPT ![f] = current[t]]
      /\ DOMAIN trace' = DOMAIN trace /\ DOMAIN header' = DOMAIN header
  BY DEF StartSpan
<1>2. Sources \subseteq Sources' /\ f \in Sources'
  BY <1>1 DEF Sources
<1>3. \A u \in Tasks : open'[u] \in Seq(begun')
  <2> TAKE u \in Tasks
  <2>1. open[u] \in Seq(begun) /\ begun \subseteq begun' /\ f \in begun'
    BY <1>1 DEF SpanInv, SpanTypes
  <2>2. open[u] \in Seq(begun')
    BY <2>1, SeqMonotonic, Zenon
  <2>3. open'[u] = open[u] \/ open'[u] = Append(open[u], f)
    BY <1>1 DEF SpanInv, SpanTypes
  <2> QED  BY <2>1, <2>2, <2>3
<1>4. current' \in [Tasks -> Sources'] /\ saved' \in [Spans -> Sources']
  BY <1>1, <1>2 DEF SpanInv, SpanTypes
<1>5. open' \in [Tasks -> Seq(begun')]
  BY <1>1, <1>3 DEF SpanInv, SpanTypes
<1> QED  BY <1>1, <1>4, <1>5 DEF SpanInv, SpanTypes

LEMMA StartChain ==
    ASSUME SpanInv, NEW f \in Spans, NEW t \in Tasks, StartSpan(f, t)
    PROVE  ChainInv' /\ Restored'
<1> SUFFICES ASSUME careful  PROVE ChainInv' /\ Restored'
  BY DEF StartSpan, ChainInv, Restored
<1> DEFINE n == Len(open[t])
<1>1. /\ f \notin begun /\ open' = [open EXCEPT ![t] = Append(@, f)]
      /\ current' = [current EXCEPT ![t] = f]
      /\ saved' = [saved EXCEPT ![f] = current[t]]
  BY DEF StartSpan
<1>2. /\ \A u \in Tasks : open[u] \in Seq(begun)
      /\ \A u \in Tasks : \A i \in DOMAIN open[u] : open[u][i] \in begun /\ open[u][i] # f
  BY <1>1 DEF SpanInv, SpanTypes
<1>3. /\ n \in Nat /\ DOMAIN open[t] = 1..n /\ DOMAIN open'[t] = 1..n + 1 /\ Len(open'[t]) = n + 1
      /\ open'[t][n + 1] = f /\ \A i \in 1..n : open'[t][i] = open[t][i]
  BY <1>1, <1>2 DEF SpanInv, SpanTypes
<1>4. \A u \in Tasks : u # t => open'[u] = open[u] /\ current'[u] = current[u]
  BY <1>1 DEF SpanInv, SpanTypes
<1>5. current'[t] = f /\ saved'[f] = current[t]
      /\ \A g \in begun : saved'[g] = saved[g]
  BY <1>1 DEF SpanInv, SpanTypes
<1>6. /\ \A u, v \in Tasks : \A i \in DOMAIN open[u], j \in DOMAIN open[v] :
            open[u][i] = open[v][j] => u = v /\ i = j
      /\ \A u \in Tasks : \A i \in DOMAIN open[u] :
            saved[open[u][i]] = IF i = 1 THEN Outer(u) ELSE open[u][i - 1]
  BY DEF SpanInv, ChainInv
<1>7. current[t] = IF n = 0 THEN Outer(t) ELSE open[t][n]
  <2>1. current[t] = IF open[t] = <<>> THEN Outer(t) ELSE Last(open[t])
    BY DEF SpanInv, Restored
  <2> QED  BY <1>2, <2>1 DEF Last
<1> HIDE DEF n
<1>8. \A u \in Tasks : \A i \in DOMAIN open'[u] :
            \/ i \in DOMAIN open[u] /\ open'[u][i] = open[u][i]
            \/ u = t /\ i = n + 1 /\ open'[u][i] = f
  BY <1>3, <1>4
<1>9. ASSUME NEW u \in Tasks, NEW v \in Tasks, NEW i \in DOMAIN open'[u],
             NEW j \in DOMAIN open'[v], open'[u][i] = open'[v][j]
      PROVE  u = v /\ i = j
  BY <1>2, <1>6, <1>8, <1>9
<1>10. ASSUME NEW u \in Tasks, NEW i \in DOMAIN open'[u]
       PROVE  saved'[open'[u][i]] = IF i = 1 THEN Outer(u) ELSE open'[u][i - 1]
  <2>1. CASE i \in DOMAIN open[u] /\ open'[u][i] = open[u][i]
    <3>1. saved'[open'[u][i]] = IF i = 1 THEN Outer(u) ELSE open[u][i - 1]
      BY <1>2, <1>5, <1>6, <2>1
    <3>2. i # 1 => i - 1 \in DOMAIN open[u]
      BY <1>2, <2>1
    <3>3. i # 1 => open'[u][i - 1] = open[u][i - 1]
      BY <1>3, <1>4, <3>2
    <3> QED  BY <3>1, <3>3
  <2>2. CASE u = t /\ i = n + 1 /\ open'[u][i] = f
    <3>1. i # 1 => n \in 1..n /\ i - 1 = n /\ open'[t][i - 1] = open[t][n]
      BY <1>3, <2>2
    <3> QED  BY <1>3, <1>5, <1>7, <2>2, <3>1
  <2> QED  BY <1>8, <2>1, <2>2
<1>11. ChainInv'
  BY <1>9, <1>10 DEF ChainInv, Outer
<1>12. Restored'
  BY <1>3, <1>4, <1>5 DEF SpanInv, Restored, Outer, Last
<1> QED  BY <1>11, <1>12

\* A span that was there before is of the trace it was of.
LEMMA StartTraces ==
    ASSUME SpanInv, NEW f \in Spans, NEW t \in Tasks, StartSpan(f, t)
    PROVE  HeaderInv' /\ TraceJoined'
<1> DEFINE c0 == f[1]
           found == current[t]
           from == ParentOf(f, t)
<1>1. /\ f \notin begun /\ begun' = begun \cup {f}
      /\ f[2] = "server" => IsOpen(<<c0, "client">>)
      /\ header' = IF f[2] = "client" THEN [header EXCEPT ![c0] = found] ELSE header
      /\ trace' = [trace EXCEPT ![f] = TraceOf(from, f)]
      /\ saved' = [saved EXCEPT ![f] = found]
  BY DEF StartSpan
<1>2. /\ f = <<c0, f[2]>> /\ c0 \in Calls /\ f[2] \in {"client", "server"}
      /\ \A c \in Calls : <<c, "client">> \in Spans /\ <<c, "server">> \in Spans
      /\ \A c, d \in Calls : <<c, "client">> # <<d, "server">>
      /\ \A c, d \in Calls : <<c, "client">> = <<d, "client">> => c = d
      /\ \A c, d \in Calls : <<c, "server">> = <<d, "server">> => c = d
  BY DEF Spans
<1>3. /\ found \in Sources /\ begun \subseteq Spans
      /\ \A g \in Spans : saved[g] \in Sources
      /\ DOMAIN trace = Spans /\ DOMAIN saved = Spans /\ DOMAIN header = Calls
  BY DEF SpanInv, SpanTypes
<1>4. /\ \A g \in begun : g # f /\ saved'[g] = saved[g] /\ trace'[g] = trace[g]
      /\ saved'[f] = found /\ trace'[f] = TraceOf(from, f)
  BY <1>1, <1>3
<1>5. \A s \in Sources : \A g : TraceOf(s, g)' = TraceOf(s, g)
  BY <1>4 DEF Sources, TraceOf
<1>6. None \notin Spans /\ Spans \cap Tasks = {}
  BY SpansAssumption DEF SpansAssumption
<1>7. \A c \in Calls : LET ours == <<c, "client">> IN
        /\ ours \in begun => /\ header[c] = saved[ours]
                             /\ trace[ours] = TraceOf(saved[ours], ours)
        /\ <<c, "server">> \in begun => ours \in begun
  BY DEF SpanInv, HeaderInv
<1>8. f[2] = "server" => <<c0, "client">> \in begun
  <2> SUFFICES ASSUME f[2] = "server"  PROVE <<c0, "client">> \in begun
    OBVIOUS
  <2>1. PICK u \in Tasks : <<c0, "client">> \in ToSet(open[u])
    BY <1>1 DEF IsOpen
  <2>2. open[u] \in Seq(begun)
    BY DEF SpanInv, SpanTypes
  <2> QED  BY <2>1, <2>2 DEF ToSet
<1> HIDE DEF c0, found, from
<1>9. ASSUME NEW c \in Calls
      PROVE  LET ours == <<c, "client">>
             IN  /\ ours \in begun' => /\ header'[c] = saved'[ours]
                                       /\ trace'[ours] = TraceOf(saved[ours], ours)'
                 /\ <<c, "server">> \in begun' => ours \in begun'
  <2> DEFINE ours == <<c, "client">>
             theirs == <<c, "server">>
  <2>1. theirs \in begun' => ours \in begun'
    <3>1. theirs = f => c = c0 /\ f[2] = "server"
      BY <1>2
    <3> QED  BY <1>1, <1>7, <1>8, <3>1
  <2>2. CASE ours \in begun
    <3>1. header'[c] = header[c]
      <4>1. f[2] = "client" => c # c0
        BY <1>2, <1>4, <2>2
      <4> QED  BY <1>1, <1>3, <4>1
    <3>2. saved'[ours] = saved[ours] /\ trace'[ours] = trace[ours]
      BY <1>4, <2>2
    <3>3. saved[ours] \in Sources
      BY <1>2, <1>3
    <3>4. TraceOf(saved[ours], ours)' = TraceOf(saved[ours], ours)
      BY <1>5, <3>2, <3>3
    <3> HIDE DEF ours, theirs
    <3>5. header[c] = saved[ours] /\ trace[ours] = TraceOf(saved[ours], ours)
      BY <1>7, <2>2 DEF ours
    <3> QED  BY <2>1, <3>1, <3>2, <3>4, <3>5 DEF ours, theirs
  <2>3. CASE ours = f
    <3>1. c = c0 /\ f[2] = "client"
      BY <1>2, <2>3
    <3>2. header'[c] = found /\ saved'[ours] = found
      BY <1>1, <1>2, <1>3, <1>4, <2>3, <3>1
    <3>3. from = found
      BY <3>1 DEF ParentOf, from, found
    <3>4. trace'[ours] = TraceOf(found, ours)
      BY <1>4, <2>3, <3>3
    <3>5. TraceOf(saved[ours], ours)' = TraceOf(found, ours)
      BY <1>3, <1>5, <3>2
    <3> QED  BY <2>1, <3>2, <3>4, <3>5
  <2>4. CASE ours \notin begun'
    BY <2>1, <2>4
  <2> QED  BY <1>1, <2>2, <2>3, <2>4
<1>10. ASSUME NEW c \in Calls, <<c, "server">> \in begun'
       PROVE  LET ours == <<c, "client">>
                  theirs == <<c, "server">>
              IN  /\ saved'[theirs] = None =>
                        (trace'[theirs] = trace'[ours] <=> saved'[ours] # None)
                  /\ saved'[theirs] = ours => trace'[theirs] = trace'[ours]
  <2> DEFINE ours == <<c, "client">>
             theirs == <<c, "server">>
  <2>1. CASE theirs \in begun
    <3>1. ours \in begun
      BY <1>7, <2>1
    <3>2. /\ saved'[theirs] = saved[theirs] /\ saved'[ours] = saved[ours]
          /\ trace'[theirs] = trace[theirs] /\ trace'[ours] = trace[ours]
      BY <1>4, <2>1, <3>1
    <3>3. /\ saved[theirs] = None => (trace[theirs] = trace[ours] <=> saved[ours] # None)
          /\ saved[theirs] = ours => trace[theirs] = trace[ours]
      BY <2>1 DEF SpanInv, TraceJoined
    <3> HIDE DEF ours, theirs
    <3> QED  BY <3>2, <3>3 DEF ours, theirs
  <2>2. CASE theirs = f
    <3>1. c = c0 /\ f[2] = "server" /\ ours \in begun
      BY <1>2, <1>8, <2>2
    <3>2. /\ header[c] = saved[ours] /\ trace[ours] = TraceOf(saved[ours], ours)
          /\ saved'[ours] = saved[ours] /\ trace'[ours] = trace[ours]
      BY <1>4, <1>7, <3>1
    <3>3. from = IF found # None THEN found ELSE header[c]
      BY <3>1 DEF ParentOf, from, found, c0
    <3>4. saved'[theirs] = found /\ trace'[theirs] = TraceOf(from, theirs)
      BY <1>4, <2>2
    <3>5. ours # None /\ ours \notin Tasks /\ ours # theirs
      BY <1>2, <1>6
    <3> HIDE DEF ours, theirs
    <3>6. CASE found = None
      <4>1. trace'[theirs] = TraceOf(saved[ours], theirs)
        BY <3>2, <3>3, <3>4, <3>6
      <4>2. CASE saved[ours] = None
        <5>1. trace[ours] = ours /\ trace'[theirs] = theirs
          BY <3>2, <4>1, <4>2 DEF TraceOf
        <5> QED  BY <3>2, <3>4, <3>5, <3>6, <4>2, <5>1 DEF ours, theirs
      <4>3. CASE saved[ours] # None
        <5>1. trace[ours] = trace'[theirs]
          BY <3>2, <4>1, <4>3 DEF TraceOf
        <5> QED  BY <3>2, <3>4, <3>5, <3>6, <4>3, <5>1 DEF ours, theirs
      <4> QED  BY <4>2, <4>3
    <3>7. CASE found = ours
      <4>1. trace'[theirs] = trace[ours]
        BY <3>3, <3>4, <3>5, <3>7 DEF TraceOf
      <4> QED  BY <3>2, <3>4, <3>5, <3>7, <4>1 DEF ours, theirs
    <3>8. CASE found # None /\ found # ours
      BY <3>4, <3>8 DEF ours, theirs
    <3> QED  BY <3>6, <3>7, <3>8
  <2> QED  BY <1>1, <1>10, <2>1, <2>2
<1>11. HeaderInv'
  BY <1>9 DEF HeaderInv
<1>12. TraceJoined'
  BY <1>10 DEF TraceJoined
<1> QED  BY <1>11, <1>12

\* The end of a frame, in its task or elsewhere.
LEMMA EndStep ==
    ASSUME SpanInv, NEW t \in Tasks, NEW i \in 1..Len(open[t]),
           EndSpan(t, i) \/ EndSpanElsewhere(t, i)
    PROVE  SpanInv'
<1> DEFINE rest == RemoveAt(open[t], i)
<1>1. /\ open' = [open EXCEPT ![t] = rest]
      /\ UNCHANGED <<careful, saved, header, parent, trace, begun>>
  BY DEF EndSpan, EndSpanElsewhere, Ended
<1>2. open[t] \in Seq(begun) /\ i \in DOMAIN open[t] /\ open[t][i] \in begun
  BY DEF SpanInv, SpanTypes
<1>3. /\ rest \in Seq(begun)
      /\ i = Len(open[t]) => /\ Len(rest) = Len(open[t]) - 1
                             /\ \A j \in 1..Len(open[t]) - 1 : rest[j] = open[t][j]
  BY <1>2, RemoveFact
<1>4. \/ current' = current /\ ~careful
      \/ current' = [current EXCEPT ![t] = saved[open[t][i]]] /\ (careful => i = Len(open[t]))
  BY DEF EndSpan, EndSpanElsewhere, MayEnd, Found
<1> HIDE DEF rest
<1>5. Sources' = Sources
  BY <1>1 DEF Sources
<1>6. SpanTypes'
  <2>1. saved[open[t][i]] \in Sources
    BY <1>2 DEF SpanInv, SpanTypes
  <2>2. current' \in [Tasks -> Sources]
    BY <1>4, <2>1 DEF SpanInv, SpanTypes
  <2>3. open' \in [Tasks -> Seq(begun)]
    BY <1>1, <1>3 DEF SpanInv, SpanTypes
  <2> QED  BY <1>1, <1>5, <2>2, <2>3 DEF SpanInv, SpanTypes
<1>7. ChainInv' /\ Restored'
  <2> SUFFICES ASSUME careful  PROVE ChainInv' /\ Restored'
    BY <1>1 DEF ChainInv, Restored
  <2> DEFINE n == Len(open[t])
  <2>1. i = n /\ current' = [current EXCEPT ![t] = saved[open[t][n]]]
    BY <1>4
  <2>2. /\ n \in Nat /\ n > 0 /\ DOMAIN open[t] = 1..n /\ DOMAIN rest = 1..n - 1
        /\ Len(rest) = n - 1 /\ \A j \in 1..n - 1 : rest[j] = open[t][j]
    BY <1>2, <1>3, <2>1
  <2>3. /\ open'[t] = rest /\ current'[t] = saved[open[t][n]]
        /\ \A u \in Tasks : u # t => open'[u] = open[u] /\ current'[u] = current[u]
    BY <1>1, <2>1 DEF SpanInv, SpanTypes
  <2>4. /\ \A u, v \in Tasks : \A j \in DOMAIN open[u], k \in DOMAIN open[v] :
                open[u][j] = open[v][k] => u = v /\ j = k
        /\ \A u \in Tasks : \A j \in DOMAIN open[u] :
                saved[open[u][j]] = IF j = 1 THEN Outer(u) ELSE open[u][j - 1]
    BY DEF SpanInv, ChainInv
  <2> HIDE DEF n
  <2>5. \A u \in Tasks : \A j \in DOMAIN open'[u] :
            /\ j \in DOMAIN open[u] /\ open'[u][j] = open[u][j]
            /\ j # 1 => open'[u][j - 1] = open[u][j - 1]
    <3> TAKE u \in Tasks
    <3>1. CASE u = t
      BY <2>2, <2>3, <3>1
    <3>2. CASE u # t
      BY <2>3, <3>2
    <3> QED  BY <3>1, <3>2
  <2>6. ChainInv'
    <3>1. ASSUME NEW u \in Tasks, NEW v \in Tasks,
                 NEW j \in DOMAIN open'[u], NEW k \in DOMAIN open'[v],
                 open'[u][j] = open'[v][k]
          PROVE  u = v /\ j = k
      BY <2>4, <2>5, <3>1
    <3>2. ASSUME NEW u \in Tasks, NEW j \in DOMAIN open'[u]
          PROVE  saved'[open'[u][j]] = IF j = 1 THEN Outer(u) ELSE open'[u][j - 1]
      BY <1>1, <2>4, <2>5
    <3> QED  BY <3>1, <3>2 DEF ChainInv, Outer
  <2>7. current'[t] = IF n = 1 THEN Outer(t) ELSE rest[n - 1]
    BY <2>2, <2>3, <2>4
  <2>8. current'[t] = IF open'[t] = <<>> THEN Outer(t) ELSE Last(open'[t])
    BY <1>3, <2>2, <2>3, <2>7 DEF Last
  <2>9. Restored'
    BY <2>3, <2>8 DEF SpanInv, Restored, Outer
  <2> QED  BY <2>6, <2>9
<1>8. HeaderInv' /\ TraceJoined'
  BY <1>1 DEF SpanInv, HeaderInv, TraceJoined, TraceOf
<1> QED  BY <1>6, <1>7, <1>8 DEF SpanInv

LEMMA SpanInvStep ==
    ASSUME SpanInv, [SpanNext]_spanVars
    PROVE  SpanInv'
<1>1. CASE UNCHANGED spanVars \/ Idle
  BY <1>1 DEF SpanInv, SpanTypes, Sources, ChainInv, HeaderInv, Restored,
     TraceJoined, TraceOf, Outer, spanVars, Idle
<1>2. ASSUME NEW t \in Tasks, NEW f \in Spans, StartSpan(f, t)
      PROVE  SpanInv'
  BY <1>2, StartTypes, StartChain, StartTraces DEF SpanInv
<1>3. ASSUME NEW t \in Tasks, NEW i \in 1..Len(open[t]),
             EndSpan(t, i) \/ EndSpanElsewhere(t, i)
      PROVE  SpanInv'
  BY <1>3, EndStep
<1> QED  BY <1>1, <1>2, <1>3 DEF SpanNext

LEMMA SpansInductive == SpanSpec => []SpanInv
<1>1. SpanInv /\ [SpanNext]_spanVars => SpanInv'
  BY SpanInvStep
<1> QED  BY <1>1, SpanInvInit, PTL DEF SpanSpec

\* Programs that end their streams in the order of a stack find in each task the
\* span of the innermost frame that is open there, or the task's own.
THEOREM SpansAreRestored == SpanSpec => []Restored
<1>1. SpanInv => Restored  BY DEF SpanInv
<1> QED  BY <1>1, SpansInductive, PTL

\* However streams end, the span of a server that finds no other is of its
\* client's trace exactly when the client found one, and always when the server
\* is called in the client's own span.
THEOREM TracesAreJoined == SpanSpec => []TraceJoined
<1>1. SpanInv => TraceJoined  BY DEF SpanInv
<1> QED  BY <1>1, SpansInductive, PTL
=============================================================================
