--------------------------- MODULE EnvelopeReader ---------------------------
(***************************************************************************)
(* EnvelopeReader: the incremental parser that both sides use to cut the   *)
(* chunks of an enveloped body into frames (one flag byte, four bytes of   *)
(* length, the data).                                                      *)
(*                                                                         *)
(* Bytes are positions in the body.  What stands at a position is read     *)
(* only when the reader looks there for a frame: at[p] is what it would    *)
(* find at p, the frame that begins there if one does and anything at all  *)
(* if none does.  A reader that loses its place therefore reads garbage.   *)
(***************************************************************************)
EXTENDS Integers, FiniteSets

CONSTANTS
    Streams,  \* the bodies considered
    Readers   \* the readers: how they were built

\* off marks the frame boundaries; a frame is as long as its header says.
ASSUME StreamAssumption ==
    \A s \in Streams :
        /\ s.n \in Nat
        /\ s.off[0] = 0
        /\ \A k \in 0..s.n : s.off[k] \in Nat
        /\ \A k \in 1..s.n :
             /\ s.at[s.off[k - 1]].size \in Nat
             /\ s.off[k] = s.off[k - 1] + 5 + s.at[s.off[k - 1]].size

VARIABLES
    stream, reader,
    lo, hi,       \* _buffer holds the bytes of the body from lo up to hi
    nextLength,   \* _next_message_length
    gen,          \* the generator of the last feed: "done", "active", "raised"
    taken, last,  \* frames cut off the buffer so far; the last one's bytes
    given,        \* messages yielded
    ended,        \* handle_end_message has returned True
    failure       \* why the generator raised

vars == <<stream, reader, lo, hi, nextLength, gen, taken, last, given, ended, failure>>

\* Python's None, where a number may stand.
NoLength == -1
NoMax    == -1

Failures == {"internal", "corrupt", "exhausted", "malformed_end", "wire_error",
             "undecodable"}

TypeOK ==
    /\ lo \in Nat /\ hi \in Nat
    /\ nextLength = NoLength \/ nextLength \in Nat
    /\ gen \in {"done", "active", "raised"}
    /\ taken \in Nat /\ given \in Nat
    /\ last \in Nat \X Nat
    /\ ended \in BOOLEAN
    /\ failure \in Failures \cup {"none"}

Init ==
    /\ stream \in Streams
    /\ reader \in Readers
    /\ lo = 0 /\ hi = 0
    /\ nextLength = NoLength
    /\ gen = "done"
    /\ taken = 0 /\ last = <<0, 0>>
    /\ given = 0
    /\ ended = FALSE
    /\ failure = "none"
-----------------------------------------------------------------------------
(* Slips in the operators that follow.                                      *)
NoRoomForHeader   == hi - lo >= nextLength
OneByteMore       == hi - lo > nextLength + 5
KeepLength        == UNCHANGED nextLength
LimitFirst(f)     == IF reader.max # NoMax /\ f.size > reader.max THEN "exhausted"
                     ELSE "message"

\* A frame's whole extent, header included.
Extent(f) == f.size + 5

\* The buffer holds the whole of the frame whose header has been read.
HasFrame == hi - lo >= nextLength + 5

ForgetLength == nextLength' = NoLength

\* len(message_data) when the limit is applied: after decompression.
Size(f) == IF f.compressed THEN f.raw ELSE f.size

\* The end-of-stream flag means something to the clients of Connect and
\* gRPC-Web only; the other readers decode such a frame as a message.
IsEnd(f) == f.end # "no" /\ reader.proto \in {"connect", "grpc_web"}

\* What becomes of a frame, in the order the code asks.
Fate(f) ==
    IF f.compressed /\ reader.identity THEN "internal"
    ELSE IF f.compressed /\ ~f.inflates THEN "corrupt"
    ELSE IF reader.max # NoMax /\ Size(f) > reader.max THEN "exhausted"
    ELSE IF IsEnd(f) /\ f.end = "malformed" THEN "malformed_end"
    ELSE IF IsEnd(f) /\ f.end = "error" /\ reader.proto = "connect" THEN "wire_error"
    ELSE IF IsEnd(f) THEN "end"
    ELSE IF ~f.decodes THEN "undecodable"
    ELSE "message"
-----------------------------------------------------------------------------
\* feed: a chunk is appended, possibly an empty one, and iterated over.
Feed ==
    /\ gen = "done"
    /\ hi' \in hi..stream.off[stream.n]
    /\ gen' = "active"
    /\ UNCHANGED <<stream, reader, lo, nextLength, taken, last, given, ended, failure>>

ReadHeader ==
    /\ gen = "active" /\ nextLength = NoLength
    /\ hi - lo >= 5
    /\ nextLength' = stream.at[lo].size
    /\ UNCHANGED <<stream, reader, lo, hi, gen, taken, last, given, ended, failure>>

\* The buffer is too short for the next header, or for the frame announced.
WaitForMore ==
    /\ gen = "active"
    /\ \/ nextLength = NoLength /\ hi - lo < 5
       \/ nextLength # NoLength /\ ~HasFrame
    /\ gen' = "done"
    /\ UNCHANGED <<stream, reader, lo, hi, nextLength, taken, last, given, ended, failure>>

\* The frame is cut off the buffer before anything is asked of it: one that
\* is refused is gone.
TakeFrame ==
    /\ gen = "active" /\ nextLength # NoLength
    /\ HasFrame
    /\ taken' = taken + 1
    /\ last' = <<lo, lo + 5 + nextLength>>
    /\ lo' = lo + 5 + nextLength
    /\ ForgetLength
    /\ LET fate == Fate(stream.at[lo]) IN
         \/ /\ fate = "message"
            /\ given' = given + 1
            /\ UNCHANGED <<gen, ended, failure>>
         \/ /\ fate = "end"
            /\ ended' = TRUE
            /\ gen' = "done"
            /\ UNCHANGED <<given, failure>>
         \/ /\ fate \in Failures
            /\ failure' = fate
            /\ gen' = "raised"
            /\ UNCHANGED <<given, ended>>
    /\ UNCHANGED <<stream, reader, hi>>

\* A reader that has raised is not used again; the caller gives up.
Abandoned == gen = "raised" /\ UNCHANGED vars

Next == Feed \/ ReadHeader \/ WaitForMore \/ TakeFrame \/ Abandoned

Spec == Init /\ [][Next]_vars
-----------------------------------------------------------------------------
(* The properties.                                                          *)

\* The buffer always begins at a frame boundary, and a remembered length is
\* that of the frame that begins there: the two fields are changed in separate
\* steps, with the caller's code between them.
Aligned ==
    /\ taken <= stream.n
    /\ lo = stream.off[taken]
    /\ lo <= hi /\ hi <= stream.off[stream.n]
    /\ nextLength # NoLength =>
         /\ taken < stream.n
         /\ hi - lo >= 5
         /\ nextLength = stream.at[lo].size

\* When feed's generator is exhausted, no whole frame is left in the buffer:
\* a message is never held back until the next chunk, which may not come.
\* (One behind an end-of-stream frame is.)
NothingHeldBack ==
    gen = "done" /\ ~ended /\ taken < stream.n => stream.off[taken + 1] > hi

\* Every frame that was cut off met the fate its own bytes call for, and met it
\* once: the readable ones are what the caller was given, an end of stream was
\* noticed, and any other raised, nothing being taken after it.  Too large is
\* what a frame is called only when its message is, not its bytes on the wire.
FrameAt(k)  == stream.at[stream.off[k - 1]]
TooLarge(f) == reader.max # NoMax /\ Size(f) > reader.max
Admitted(f) == (f.compressed => ~reader.identity /\ f.inflates) /\ ~TooLarge(f)
Readable(f) == Admitted(f) /\ ~IsEnd(f) /\ f.decodes
Closing(f)  == /\ Admitted(f) /\ IsEnd(f) /\ f.end # "malformed"
               /\ f.end = "error" => reader.proto # "connect"

OneFateEach ==
    /\ given = Cardinality({k \in 1..taken : Readable(FrameAt(k))})
    /\ ended <=> \E k \in 1..taken : Closing(FrameAt(k))
    /\ \A k \in 1..taken : ~Readable(FrameAt(k)) /\ ~Closing(FrameAt(k))
                            <=> k = taken /\ gen = "raised"
    /\ gen = "raised" => taken > 0 /\ (failure = "exhausted" => TooLarge(FrameAt(taken)))

\* The chunks do not matter: the reader takes the frames of the body.
Frames == INSTANCE FrameStream WITH arrived <- hi

IsFrameStream == Frames!Init(Streams) /\ [][Frames!Next]_(Frames!vars)
=============================================================================
