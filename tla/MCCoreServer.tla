----------------------------- MODULE MCCoreServer -----------------------------
(***************************************************************************)
(* Small instances of CoreServer.                                          *)
(***************************************************************************)
EXTENDS CoreServer, TLC

CONSTANTS c1, c2, c3, p1, p2

\* c1 belongs to p1; c2 carries frames of p1 and p2; c3 is a terminal that has
\* not been given a number.
MixedSpeaks ==
    [c \in Conns |-> CASE c = c1 -> {p1} [] c = c2 -> {p1, p2} [] c = c3 -> {Zero}]

\* A terminal that is given its number while it is connected.
NumberedLaterSpeaks == [c \in Conns |-> {p1, Zero}]

=============================================================================
