----------------------------- MODULE MCJt808Server -----------------------------
(***************************************************************************)
(* A small instance of Jt808Server: a terminal with two connections.       *)
(***************************************************************************)
EXTENDS Jt808Server, TLC

OneTerminalSpeaks == [c \in Conns |-> Phones]

ConnectionsAreAlike == Permutations(Conns)

================================================================================
