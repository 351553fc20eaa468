----------------------------- MODULE MCTcpServer -----------------------------
(***************************************************************************)
(* Small instances of TcpServer.  The topologies differ in which phone     *)
(* numbers the frames of a connection carry.                               *)
(***************************************************************************)
EXTENDS TcpServer, TLC

CONSTANTS c1, c2, c3, p1, p2, r1, r2

\* Every connection carries the frames of p1: a terminal that connects again
\* while the server has not noticed the end of its former connections.
ReconnectSpeaks == [c \in Conns |-> {p1}]

\* c1 and c2 belong to p1, any other connection is that of a gateway, which
\* carries the frames of both terminals.
GatewaySpeaks == [c \in Conns |-> IF c \in {c1, c2} THEN {p1} ELSE {p1, p2}]

ConnsAreAlike == Permutations({c1, c2}) \cup Permutations(Requests)

==============================================================================
