----------------------------- MODULE FrameStream -----------------------------
(***************************************************************************)
(* A byte stream from a peer to a frame receiver: the peer writes whole    *)
(* frames, TCP delivers the bytes in order and in chunks of any length,    *)
(* and the receiver extracts what it can after each chunk.  The receiver   *)
(* is extract_frames as the read loop of jt808/server.py and recv_message  *)
(* of test_simulator.py call it, or the feed of core/connection.py.        *)
(***************************************************************************)
EXTENDS FrameCodec, FiniteSets

CONSTANTS
    Payloads,   \* the payloads a peer sends: their checksum is right
    Links,      \* receivers, each with the way its peer separates frames
    Strays,     \* bytes that a peer may emit between two frames
    MaxSent,    \* bound: frames sent
    MaxStrays   \* bound: stray bytes

ASSUME PayloadsAssumption == \A m \in Payloads : m \in Seq(Bytes) /\ m # <<>>
ASSUME LinksAssumption ==
    Links \subseteq [receiver : {"jt808", "core"}, sharesMarkers : BOOLEAN]
ASSUME StraysAssumption == Strays \subseteq Bytes
ASSUME BoundsAssumption == MaxSent \in Nat /\ MaxStrays \in Nat

\* What the receivers cope with: extract_frames with frames that share markers,
\* feed with frames that have their own, stray bytes that are no markers and
\* that pass for no payload.
Suited ==
    /\ \A l \in Links : l.sharesMarkers <=> l.receiver = "jt808"
    /\ FLAG \notin Strays
    /\ \A n \in 0..MaxStrays : \A z \in [1..n -> Strays] : Unescape(z) \notin Payloads

VARIABLES
    link,       \* the receiver, and whether the marker that ends a frame also
                \* starts the next one
    stream,     \* bytes written by the peer and not yet read
    buf,        \* the receiver's buffer
    received,   \* payloads handed to the handlers
    sent,       \* history: payloads sent
    read,       \* history: all the bytes read
    strays,     \* history: stray bytes so far
    sharable    \* the peer's last byte was the marker that ended a frame

streamVars == <<link, stream, buf, received, sent, read, strays, sharable>>

\* One call of the receiver on its buffer extended by a chunk.
Extract(data) ==
    IF link.receiver = "jt808" THEN ExtractFrames(data) ELSE FeedFrames(data)

\* parse_message and parse_frame: the checksum accepts what a peer framed and
\* refuses what two frames and stray bytes were mixed into.
Accepted(frames) ==
    Concat([i \in 1..Len(frames) |->
              IF frames[i] \in Payloads THEN <<frames[i]>> ELSE <<>>])

StreamInit ==
    /\ link \in Links
    /\ stream = <<>>
    /\ buf = <<>>
    /\ received = <<>>
    /\ sent = <<>>
    /\ read = <<>>
    /\ strays = 0
    /\ sharable = FALSE

\* A frame shares the marker of the frame before it, if the peer does so and
\* nothing was emitted in between.
Send(payload) ==
    LET shares == link.sharesMarkers /\ sharable
    IN  /\ Len(sent) < MaxSent
        /\ stream' = stream \o (IF shares THEN Tail(Frame(payload))
                                ELSE Frame(payload))
        /\ sent' = Append(sent, payload)
        /\ sharable' = TRUE
        /\ UNCHANGED <<link, buf, received, read, strays>>

Stray(b) ==
    /\ strays < MaxStrays
    /\ stream' = Append(stream, b)
    /\ strays' = strays + 1
    /\ sharable' = FALSE
    /\ UNCHANGED <<link, buf, received, sent, read>>

\* Mutant of ReadChunk: the frames are taken but stay in the buffer.
ReadKeepsBuffer(n) ==
    LET chunk == SubSeq(stream, 1, n)
        result == Extract(buf \o chunk)
    IN  /\ stream' = SubSeq(stream, n + 1, Len(stream))
        /\ buf' = buf \o chunk
        /\ received' = received \o Accepted(result.frames)
        /\ read' = read \o chunk
        /\ UNCHANGED <<link, sent, strays, sharable>>

ReadChunk(n) ==
    LET chunk == SubSeq(stream, 1, n)
        result == Extract(buf \o chunk)
    IN  /\ stream' = SubSeq(stream, n + 1, Len(stream))
        /\ buf' = result.rest
        /\ received' = received \o Accepted(result.frames)
        /\ read' = read \o chunk
        /\ UNCHANGED <<link, sent, strays, sharable>>

StreamNext ==
    \/ \E payload \in Payloads : Send(payload)
    \/ \E b \in Strays : Stray(b)
    \/ \E n \in 1..Len(stream) : ReadChunk(n)

StreamSpec == StreamInit /\ [][StreamNext]_streamVars

-----------------------------------------------------------------------------
(* Properties *)

\* How the bytes are cut into chunks makes no difference: the payloads handed
\* on so far, and what is left in the buffer, are those of one call on all the
\* bytes read.
ChunksDoNotMatter ==
    LET whole == Extract(read)
    IN  received = Accepted(whole.frames) /\ buf = whole.rest

\* Nothing is invented, repeated or reordered: what was received is what was
\* sent, with gaps at most.
ReceivedWasSent ==
    \E kept \in SUBSET (1..Len(sent)) :
        received = [i \in 1..Cardinality(kept) |->
                      sent[CHOOSE k \in kept :
                             Cardinality({j \in kept : j <= k}) = i]]

\* Every frame that was read in full was handed on, and stray bytes that are no
\* markers cost none of the frames around them.
AllReadIsReceived == stream = <<>> => received = sent

\* What stays in the buffer between two reads is less than one frame and the
\* stray bytes, however many frames went through it.
BufferIsBounded ==
    \E payload \in Payloads : Len(buf) < Len(Frame(payload)) + strays

=============================================================================
