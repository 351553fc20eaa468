-------------------------------- MODULE MCWire --------------------------------
(***************************************************************************)
(* All that happens to the bytes on a connection, checked in one run: byte *)
(* stuffing, frames in a stream, header and bodies, and location reports.  *)
(* Nothing connects the four: each behaviour is about one of them.         *)
(***************************************************************************)
EXTENDS MCFrameCodec, MCFrameStream, MCLocationReport, MCMessages

VARIABLE subject
wireVars == <<subject, data, streamVars, items, messageVars>>

WireInit ==
    /\ subject \in {"codec", "stream", "location", "message"}
    /\ CodecInit /\ StreamInit /\ LocationInit /\ MessageInit
    /\ subject # "stream" => link = CHOOSE l \in Links : TRUE

WireNext ==
    /\ \/ subject = "codec" /\ CodecNext
          /\ UNCHANGED <<streamVars, items, messageVars>>
       \/ subject = "stream" /\ StreamNext
          /\ UNCHANGED <<data, items, messageVars>>
       \/ subject = "location" /\ LocationNext
          /\ UNCHANGED <<data, streamVars, messageVars>>
       \/ subject = "message" /\ MessageNext
          /\ UNCHANGED <<data, streamVars, items>>
    /\ UNCHANGED subject

WireSpec == WireInit /\ [][WireNext]_wireVars

=============================================================================
