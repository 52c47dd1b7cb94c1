------------------------ MODULE EnvelopeReaderProofs ------------------------
(***************************************************************************)
(* EnvelopeReader keeps its place in every body, however it is chunked.    *)
(***************************************************************************)
EXTENDS EnvelopeReader, FiniteSetTheorems, TLAPS

Fixed == stream \in Streams /\ reader \in Readers

Inv == Fixed /\ TypeOK /\ Aligned

\* What the header found at a frame boundary says of the next boundary.
LEMMA NextBoundary ==
    ASSUME NEW s \in Streams, NEW k \in Nat, k < s.n
    PROVE  /\ s.at[s.off[k]].size \in Nat
           /\ s.off[k] \in Nat
           /\ s.off[k + 1] = s.off[k] + 5 + s.at[s.off[k]].size
           /\ s.off[k + 1] \in Nat
<1>1. s.n \in Nat /\ k \in 0..s.n /\ k + 1 \in 1..s.n /\ k + 1 \in 0..s.n
  BY StreamAssumption DEF StreamAssumption
<1>2. s.off[k] \in Nat /\ s.off[k + 1] \in Nat
  BY <1>1, StreamAssumption DEF StreamAssumption
<1>3. /\ s.at[s.off[(k + 1) - 1]].size \in Nat
      /\ s.off[k + 1] = s.off[(k + 1) - 1] + 5 + s.at[s.off[(k + 1) - 1]].size
  BY <1>1, StreamAssumption DEF StreamAssumption
<1>4. (k + 1) - 1 = k  BY <1>1
<1> QED  BY <1>2, <1>3, <1>4

LEMMA InitInv == Init => Inv
<1> SUFFICES ASSUME Init PROVE Inv
  OBVIOUS
<1>1. stream.n \in Nat /\ stream.off[0] = 0 /\ stream.off[stream.n] \in Nat
  BY StreamAssumption DEF StreamAssumption, Init
<1>2. TypeOK  BY DEF Init, TypeOK
<1>3. Aligned  BY <1>1 DEF Init, Aligned, NoLength
<1> QED  BY <1>2, <1>3 DEF Inv, Fixed, Init

LEMMA StepInv == Inv /\ [Next]_vars => Inv'
<1> SUFFICES ASSUME Inv, [Next]_vars PROVE Inv'
  OBVIOUS
<1> USE DEF Inv, Fixed, TypeOK, Aligned, NoLength
<1>1. stream.n \in Nat /\ stream.off[stream.n] \in Nat /\ stream.off[taken] \in Nat
  BY StreamAssumption DEF StreamAssumption
<1>2. taken < stream.n =>
        /\ stream.at[lo].size \in Nat
        /\ stream.off[taken + 1] = lo + 5 + stream.at[lo].size
  BY NextBoundary
<1>3. CASE Feed  BY <1>1, <1>3 DEF Feed
<1>4. CASE ReadHeader  BY <1>1, <1>2, <1>4 DEF ReadHeader
<1>5. CASE WaitForMore  BY <1>5 DEF WaitForMore
<1>6. CASE TakeFrame
  <2>1. /\ lo' = stream.off[taken'] /\ taken' = taken + 1 /\ taken < stream.n
        /\ nextLength' = -1 /\ hi' = hi /\ stream' = stream /\ reader' = reader
    BY <1>2, <1>6 DEF TakeFrame, ForgetLength
  <2>2. lo' \in Nat /\ lo' <= hi' /\ last' \in Nat \X Nat
    BY <1>6 DEF TakeFrame, HasFrame
  <2>3. given' \in Nat /\ gen' \in {"done", "active", "raised"}
        /\ failure' \in Failures \cup {"none"}
    BY <1>6 DEF TakeFrame
  <2>4. ended' \in BOOLEAN  BY <1>6, Zenon DEF TakeFrame
  <2> QED  BY <1>1, <2>1, <2>2, <2>3, <2>4
<1>7. CASE Abandoned \/ UNCHANGED vars  BY <1>7 DEF Abandoned, vars
<1> QED  BY <1>3, <1>4, <1>5, <1>6, <1>7 DEF Next

LEMMA Inductive == Spec => []Inv
BY InitInv, StepInv, PTL DEF Spec

\* The reader never loses its place: its buffer begins at a frame boundary
\* and the length it remembers is that frame's.
THEOREM StaysAligned == Spec => []Aligned
<1>1. Inv => Aligned  BY DEF Inv
<1> QED  BY <1>1, Inductive, PTL

\* Every variable keeps its type.
THEOREM TypeCorrect == Spec => []TypeOK
<1>1. Inv => TypeOK  BY DEF Inv
<1> QED  BY <1>1, Inductive, PTL
-----------------------------------------------------------------------------
LEMMA HeldInit == Init => NothingHeldBack
<1> SUFFICES ASSUME Init, 0 < stream.n PROVE stream.off[0 + 1] > 0
  BY DEF Init, NothingHeldBack
<1>1. /\ stream.at[stream.off[0]].size \in Nat
      /\ stream.off[0 + 1] = stream.off[0] + 5 + stream.at[stream.off[0]].size
  BY NextBoundary DEF Init
<1>2. stream.off[0] = 0  BY StreamAssumption DEF StreamAssumption, Init
<1> QED  BY <1>1, <1>2

LEMMA HeldStep == Inv /\ NothingHeldBack /\ [Next]_vars => NothingHeldBack'
<1> SUFFICES ASSUME Inv, NothingHeldBack, [Next]_vars PROVE NothingHeldBack'
  OBVIOUS
<1> USE DEF NothingHeldBack
<1>1. CASE Feed  BY <1>1 DEF Feed
<1>2. CASE ReadHeader  BY <1>2 DEF ReadHeader
<1>3. CASE WaitForMore
  <2> SUFFICES ASSUME taken < stream.n PROVE stream.off[taken + 1] > hi
    BY <1>3 DEF WaitForMore
  <2>1. /\ stream.at[lo].size \in Nat
        /\ stream.off[taken + 1] = lo + 5 + stream.at[lo].size
    BY NextBoundary DEF Inv, Fixed, TypeOK, Aligned
  <2> QED  BY <1>3, <2>1 DEF WaitForMore, HasFrame, Inv, TypeOK, Aligned, NoLength
<1>4. CASE TakeFrame  BY <1>4 DEF TakeFrame, Inv, TypeOK
<1>5. CASE Abandoned \/ UNCHANGED vars  BY <1>5 DEF Abandoned, vars
<1> QED  BY <1>1, <1>2, <1>3, <1>4, <1>5 DEF Next

\* No whole frame is kept from the caller until another chunk comes.
THEOREM NothingIsHeldBack == Spec => []NothingHeldBack
BY HeldInit, HeldStep, Inductive, PTL DEF Spec
-----------------------------------------------------------------------------
\* Whatever the chunks, the frames taken are those of the body, in order,
\* each one once and each one whole.
THEOREM ReadsFrames == Spec => IsFrameStream
<1>1. Init => Frames!Init(Streams)  BY DEF Init, Frames!Init
<1>2. Inv /\ [Next]_vars => [Frames!Next]_(Frames!vars)
  <2> SUFFICES ASSUME Inv, [Next]_vars PROVE Frames!Next \/ UNCHANGED Frames!vars
    OBVIOUS
  <2> USE DEF Inv, Fixed, TypeOK, Aligned, Frames!Next, Frames!vars
  <2>1. CASE Feed
    <3>1. stream.off[stream.n] \in Nat
      BY StreamAssumption DEF StreamAssumption
    <3>2. hi' > hi \/ hi' = hi  BY <2>1, <3>1 DEF Feed
    <3> QED  BY <2>1, <3>2 DEF Feed, Frames!Arrive
  <2>2. CASE TakeFrame
    <3>1. taken < stream.n /\ nextLength = stream.at[lo].size /\ lo = stream.off[taken]
      BY <2>2 DEF TakeFrame
    <3>2. stream.off[taken + 1] = lo + 5 + nextLength
      BY <3>1, NextBoundary
    <3>3. stream.off[taken + 1] <= hi
      BY <2>2, <3>1, <3>2 DEF TakeFrame, HasFrame
    <3> QED  BY <2>2, <3>1, <3>2, <3>3 DEF TakeFrame, Frames!Take
  <2>3. CASE ReadHeader \/ WaitForMore \/ Abandoned \/ UNCHANGED vars
    BY <2>3 DEF ReadHeader, WaitForMore, Abandoned, vars
  <2> QED  BY <2>1, <2>2, <2>3 DEF Next
<1> QED  BY <1>1, <1>2, Inductive, PTL DEF Spec, IsFrameStream
-----------------------------------------------------------------------------
\* A fate is one of three kinds, of which TakeFrame has one disjunct each.
LEMMA FateKinds == "message" \notin Failures /\ "end" \notin Failures
BY DEF Failures

\* The same thing said with Fate, which is what the step is made of.
FateOf(k) == Fate(FrameAt(k))

FatesMet ==
    /\ given = Cardinality({k \in 1..taken : FateOf(k) = "message"})
    /\ ended <=> \E k \in 1..taken : FateOf(k) = "end"
    /\ \A k \in 1..taken : FateOf(k) \in Failures <=> k = taken /\ gen = "raised"
    /\ gen = "raised" => taken > 0 /\ failure = FateOf(taken)

LEMMA FatesInit == Init => FatesMet
<1> SUFFICES ASSUME Init PROVE FatesMet
  OBVIOUS
<1>1. 1..taken = {}  BY DEF Init
<1>2. {k \in 1..taken : FateOf(k) = "message"} = {}  BY <1>1
<1>3. Cardinality({}) = 0  BY FS_EmptySet
<1> QED  BY <1>1, <1>2, <1>3 DEF Init, FatesMet

LEMMA FatesStep == Inv /\ FatesMet /\ [Next]_vars => FatesMet'
<1> SUFFICES ASSUME Inv, FatesMet, [Next]_vars PROVE FatesMet'
  OBVIOUS
<1>1. CASE TakeFrame
  <2> DEFINE Given == {k \in 1..taken : FateOf(k) = "message"}
             new   == taken + 1
  <2>1. /\ taken \in Nat /\ taken' = new /\ lo = stream.off[taken]
        /\ stream' = stream /\ reader' = reader
    BY <1>1 DEF TakeFrame, Inv, TypeOK, Aligned
  <2>2. \A k : FateOf(k)' = FateOf(k)
    BY <2>1 DEF FateOf, FrameAt, Fate, IsEnd, Size
  <2>3. FateOf(new) = Fate(stream.at[lo])
    <3>1. new - 1 = taken  BY <2>1
    <3> QED  BY <2>1, <3>1 DEF FateOf, FrameAt
  <2>4. 1..taken' = (1..taken) \cup {new} /\ new \notin 1..taken
    BY <2>1
  <2>5. gen = "active"  BY <1>1 DEF TakeFrame
  <2>6. IsFiniteSet(Given) /\ Cardinality(Given) \in Nat
    <3>1. IsFiniteSet(1..taken)  BY <2>1, FS_Interval
    <3>2. IsFiniteSet(Given)  BY <3>1, FS_Subset
    <3> QED  BY <3>2, FS_CardinalityType
  <2>7. given = Cardinality(Given) /\ (ended <=> \E k \in 1..taken : FateOf(k) = "end")
    BY DEF FatesMet
  <2>8. \A k \in 1..taken : FateOf(k) \notin Failures
    BY <2>1, <2>5 DEF FatesMet
  <2>9. CASE FateOf(new) = "message"
    <3>1. {k \in 1..taken' : FateOf(k)' = "message"} = Given \cup {new}
      BY <2>2, <2>4, <2>9
    <3>2. Cardinality(Given \cup {new}) = Cardinality(Given) + 1
      BY <2>4, <2>6, FS_AddElement
    <3>3. given' = given + 1 /\ ended' = ended /\ gen' = "active"
      BY <1>1, <2>3, <2>9, FateKinds DEF TakeFrame
    <3> QED
      BY <2>1, <2>2, <2>4, <2>7, <2>8, <2>9, <3>1, <3>2, <3>3, FateKinds DEF FatesMet
  <2>10. CASE FateOf(new) # "message"
    <3>1. {k \in 1..taken' : FateOf(k)' = "message"} = Given
      BY <2>2, <2>4, <2>10
    <3>2. given' = given
      BY <1>1, <2>3, <2>10 DEF TakeFrame
    <3>3. CASE FateOf(new) = "end"
      <4>1. ended' = TRUE /\ gen' = "done"
        BY <1>1, <2>3, <3>3, FateKinds DEF TakeFrame
      <4> QED
        BY <2>1, <2>2, <2>4, <2>7, <2>8, <3>1, <3>2, <3>3, <4>1, FateKinds DEF FatesMet
    <3>4. CASE FateOf(new) \in Failures
      <4>1. ended' = ended /\ gen' = "raised" /\ failure' = FateOf(new)
        BY <1>1, <2>3, <3>4, FateKinds DEF TakeFrame
      <4> QED
        BY <2>1, <2>2, <2>4, <2>7, <2>8, <3>1, <3>2, <3>4, <4>1, FateKinds DEF FatesMet
    <3>5. FateOf(new) = "end" \/ FateOf(new) \in Failures
      BY <1>1, <2>3, <2>10 DEF TakeFrame
    <3> QED  BY <3>3, <3>4, <3>5
  <2> QED  BY <2>9, <2>10
<1>2. CASE Feed \/ ReadHeader \/ WaitForMore \/ Abandoned \/ UNCHANGED vars
  <2>1. UNCHANGED <<stream, reader, taken, given, ended, failure>>
        /\ (gen = "raised" <=> gen' = "raised")
    BY <1>2 DEF Feed, ReadHeader, WaitForMore, Abandoned, vars
  <2>2. \A k : FateOf(k)' = FateOf(k)
    BY <2>1 DEF FateOf, FrameAt, Fate, IsEnd, Size
  <2> QED  BY <2>1, <2>2 DEF FatesMet
<1> QED  BY <1>1, <1>2 DEF Next

\* What the order of the code's questions comes to, frame by frame.
LEMMA FateMeans ==
    ASSUME NEW f
    PROVE  /\ Fate(f) = "message" <=> Readable(f)
           /\ Fate(f) = "end" <=> Closing(f)
           /\ Fate(f) \in Failures <=> ~Readable(f) /\ ~Closing(f)
           /\ Fate(f) = "exhausted" => TooLarge(f)
BY DEF Fate, Readable, Closing, Admitted, TooLarge, IsEnd, Failures

LEMMA FatesAreOne == FatesMet => OneFateEach
<1> SUFFICES ASSUME FatesMet PROVE OneFateEach
  OBVIOUS
<1>1. {k \in 1..taken : FateOf(k) = "message"} = {k \in 1..taken : Readable(FrameAt(k))}
  BY FateMeans DEF FateOf
<1> QED  BY <1>1, FateMeans DEF FatesMet, OneFateEach, FateOf

\* Of the frames taken, the messages were all given and nothing else was, and
\* the first that is refused is the last that is taken.
THEOREM FatesAreMet == Spec => []OneFateEach
<1>1. Spec => []FatesMet
  BY FatesInit, FatesStep, Inductive, PTL DEF Spec
<1> QED  BY <1>1, FatesAreOne, PTL
=============================================================================
