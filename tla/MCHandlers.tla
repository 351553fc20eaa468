----------------------------- MODULE MCHandlers -----------------------------
(***************************************************************************)
(* Small instances of Handlers.                                            *)
(***************************************************************************)
EXTENDS Handlers, TLC

TerminalsAreAlike == Permutations(Phones)

=============================================================================
