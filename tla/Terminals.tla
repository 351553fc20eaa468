------------------------------- MODULE Terminals -------------------------------
(***************************************************************************)
(* What the TCP side of the server and its handlers have in common: a      *)
(* terminal is known by its phone number, as decode_header returns it.     *)
(***************************************************************************)
CONSTANT Phones     \* phone numbers

================================================================================
