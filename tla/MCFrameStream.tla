---------------------------- MODULE MCFrameStream ----------------------------
(***************************************************************************)
(* Small instances of FrameStream: payloads that hold a marker, an escape  *)
(* byte, and bytes that look like the second half of an escape.  None is a  *)
(* single byte, so that a stray byte between two markers is no payload.    *)
(***************************************************************************)
EXTENDS FrameStream

SomePayloads == { <<"xx", "xx">>, <<FLAG, "01">>, <<"02", ESC>> }

\* jt808/server.py with a peer whose frames share markers, core/server.py with
\* one whose frames have their own.
SuitedLinks ==
    { [receiver |-> "jt808", sharesMarkers |-> TRUE],
      [receiver |-> "core", sharesMarkers |-> FALSE] }

NoMarkers == {"xx", ESC}

ASSUME SuitedAssumption == Suited

==============================================================================
