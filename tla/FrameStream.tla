---------------------------- MODULE FrameStream -----------------------------
(***************************************************************************)
(* What an enveloped body means, whatever the chunks it travels in: it is  *)
(* a sequence of frames, each taken once it has arrived whole, in order,   *)
(* never twice and never in part.                                          *)
(***************************************************************************)
EXTENDS Naturals

VARIABLES
    stream,   \* the body: n frames, frame k between off[k - 1] and off[k]
    arrived,  \* bytes of it that have arrived
    taken,    \* frames of it that have been taken
    last      \* the bytes of the last frame taken: where from, where to

vars == <<stream, arrived, taken, last>>

Init(Streams) ==
    /\ stream \in Streams
    /\ arrived = 0
    /\ taken = 0
    /\ last = <<0, 0>>

Arrive ==
    /\ arrived' > arrived
    /\ UNCHANGED <<stream, taken, last>>

Take ==
    /\ taken < stream.n
    /\ stream.off[taken + 1] <= arrived
    /\ taken' = taken + 1
    /\ last' = <<stream.off[taken], stream.off[taken + 1]>>
    /\ UNCHANGED <<stream, arrived>>

Next == Arrive \/ Take
=============================================================================
