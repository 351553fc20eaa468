----------------------------- MODULE FrameCodec -----------------------------
(***************************************************************************)
(* How messages become bytes and bytes become messages: the byte stuffing  *)
(* and the frame extraction of jt808/protocol.py, and the second frame     *)
(* assembly, TerminalConnection.feed of core/connection.py.  A payload is  *)
(* a header, a body and a checksum; of its bytes only the marker, the      *)
(* escape byte and the two bytes that follow an escape are told apart.     *)
(***************************************************************************)
EXTENDS Naturals, SequencesExt

FLAG == "7e"
ESC == "7d"
Bytes == {FLAG, ESC, "01", "02", "xx"}

Concat(pieces) == FlattenSeq(pieces)

-----------------------------------------------------------------------------
(* escape, unescape and frame *)

\* Mutant of EscapeByte: the escape byte is not escaped itself.
EscapeFlagOnly(b) == IF b = FLAG THEN <<ESC, "02">> ELSE <<b>>

\* Mutant of EscapeByte: only the escape byte is escaped.
EscapeEscOnly(b) == IF b = ESC THEN <<ESC, "01">> ELSE <<b>>

EscapeByte(b) ==
    CASE b = FLAG -> <<ESC, "02">>
      [] b = ESC  -> <<ESC, "01">>
      [] OTHER    -> <<b>>

Escape(data) == Concat([i \in 1..Len(data) |-> EscapeByte(data[i])])

\* Mutant of UnescapePair: both codes exchanged.
UnescapeSwapped(b) ==
    CASE b = "01" -> <<FLAG>>
      [] b = "02" -> <<ESC>>
      [] OTHER    -> <<ESC, b>>

UnescapePair(b) ==
    CASE b = "02" -> <<FLAG>>
      [] b = "01" -> <<ESC>>
      [] OTHER    -> <<ESC, b>>

\* An escape byte at the very end stands for itself.
Unescape(data) ==
    LET from[i \in 1..(Len(data) + 2)] ==
          IF i > Len(data) THEN <<>>
          ELSE IF i < Len(data) /\ data[i] = ESC
               THEN UnescapePair(data[i + 1]) \o from[i + 2]
               ELSE <<data[i]>> \o from[i + 1]
    IN  from[1]

Frame(payload) == <<FLAG>> \o Escape(payload) \o <<FLAG>>

-----------------------------------------------------------------------------
(* The loops that look for frames *)

\* data.find(FLAG, i): the first marker from position i on, 0 if there is none.
Find(data, i) ==
    LET hits == {k \in i..Len(data) : data[k] = FLAG}
    IN  IF hits = {} THEN 0 ELSE Min(hits)

Between(data, start, end) == Unescape(SubSeq(data, start + 1, end - 1))

\* The frames found, and what is left in the buffer or where that starts.
Result(frames, rest) == [frames |-> frames, rest |-> rest]

\* Both loops look for a marker and for the next one after it: two adjacent
\* markers are dropped, what is between two others is a frame.  later[k] is what
\* the loop still does when the buffer starts at position k; it goes on `step`
\* bytes after the marker that ends a frame.
Iteration(data, i, later, step, dropsTail) ==
    LET start == Find(data, i)
        end == Find(data, start + 1)
    IN  IF start = 0 THEN Result(<<>>, IF dropsTail THEN Len(data) + 1 ELSE i)
        ELSE IF end = 0 THEN Result(<<>>, start)
        ELSE IF end = start + 1 THEN later[end + 1]
        ELSE Result(<<Between(data, start, end)>> \o later[end + step].frames,
                    later[end + step].rest)

Scan(data, step, dropsTail) ==
    LET from[i \in 1..(Len(data) + 1)] ==
          Iteration(data, i, from, step, dropsTail)
    IN  Result(from[1].frames, SubSeq(data, from[1].rest, Len(data)))

\* TerminalConnection.feed, before parse_frame checks the payloads: both
\* markers of a frame are removed, and everything when there is none.
FeedFrames(data) == Scan(data, 1, TRUE)

\* Mutant of ExtractFrames: what follows the last frame is thrown away.
ExtractWithoutRest(data) == Result(Scan(data, 0, FALSE).frames, <<>>)

\* extract_frames: the marker that ends a frame stays as the possible start of
\* the next one.
ExtractFrames(data) == Scan(data, 0, FALSE)

=============================================================================
