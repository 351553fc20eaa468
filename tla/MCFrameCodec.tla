---------------------------- MODULE MCFrameCodec ----------------------------
(***************************************************************************)
(* Checks the byte stuffing on every byte string up to a length: a string  *)
(* grows by one byte at a time.                                            *)
(***************************************************************************)
EXTENDS FrameCodec

CONSTANT MaxLength      \* bound: bytes of the string

VARIABLE data

CodecInit == data = <<>>
CodecNext == Len(data) < MaxLength /\ \E b \in Bytes : data' = Append(data, b)
CodecSpec == CodecInit /\ [][CodecNext]_data

\* Stuffing is undone exactly, whatever markers, escape bytes and bytes that
\* look like escape codes the string holds.
RoundTrip == Unescape(Escape(data)) = data

\* A stuffed string can be put between markers.
NoMarkerInside == \A i \in 1..Len(Escape(data)) : Escape(data)[i] # FLAG

\* Extraction gets one framed string back and keeps only its end marker, and
\* feed removes both.
OneFrameIsExtracted ==
    data # <<>> => /\ ExtractFrames(Frame(data)) = Result(<<data>>, <<FLAG>>)
                   /\ FeedFrames(Frame(data)) = Result(<<data>>, <<>>)

=============================================================================
