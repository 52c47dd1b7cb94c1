-------------------------- MODULE EnvelopeReaderMC --------------------------
(***************************************************************************)
(* EnvelopeReader on every body of up to two frames drawn from a frame of  *)
(* each fate, and on a few longer ones.                                    *)
(***************************************************************************)
EXTENDS EnvelopeReader, SequencesExt

Plain(size) == [size |-> size, compressed |-> FALSE, inflates |-> TRUE, raw |-> 0,
                end |-> "no", decodes |-> TRUE]

FrameSet ==
    {Plain(0), Plain(2), Plain(4)}
    \cup {[Plain(1) EXCEPT !.compressed = TRUE, !.raw = r] : r \in {2, 4}}
    \cup {[Plain(1) EXCEPT !.compressed = TRUE, !.inflates = FALSE],
          [Plain(1) EXCEPT !.decodes = FALSE]}
    \cup {[Plain(2) EXCEPT !.end = e] : e \in {"ok", "error", "malformed"}}

\* Where frame k + 1 begins in the body made of the frames of fs.
Offsets(fs) ==
    LET off[k \in 0..Len(fs)] == IF k = 0 THEN 0 ELSE off[k - 1] + 5 + fs[k].size
    IN  off

\* Away from the boundaries the reader would find a frame of no data.
StreamOf(fs) ==
    LET off == Offsets(fs)
    IN  [n   |-> Len(fs),
         off |-> off,
         at  |-> [p \in 0..off[Len(fs)] |->
                    IF \E k \in 1..Len(fs) : off[k - 1] = p
                    THEN fs[CHOOSE k \in 1..Len(fs) : off[k - 1] = p]
                    ELSE Plain(0)]]

MCStreams ==
    {StreamOf(fs) : fs \in BoundedSeq(FrameSet, 2)}
    \cup {StreamOf(<<Plain(a), Plain(b), Plain(c)>>) : a, b, c \in {0, 1}}

MCReaders ==
    [proto : {"server", "connect", "grpc_web"}, identity : BOOLEAN, max : {NoMax, 3}]
=============================================================================
