------------------------------- MODULE Registry -------------------------------
(***************************************************************************)
(* What a registry of live terminal connections promises to those who send *)
(* commands: a phone number leads to a connection that is alive and that   *)
(* has spoken for it; its entry is removed only when that connection       *)
(* itself ends or moves on to another number, and replaced only by another *)
(* connection that is alive.  It does not promise that the newest one is   *)
(* found: a connection may enter itself late, over a newer one.            *)
(* "Registry of live terminal connections" are the words of                *)
(* ConnectionRegistry in core/server.py, "tracks active TCP connections"   *)
(* those of ConnectionManager in jt808/handlers.py; the first keeps this   *)
(* promise as long as no terminal changes between having a number and      *)
(* having none, the second does not.                                       *)
(***************************************************************************)

CONSTANTS Conns, Phones, None

VARIABLES
    route,  \* the connection that a phone number leads to, or None
    live    \* the connections whose handler is running

registryVars == <<route, live>>

RegistryInit ==
    /\ route = [p \in Phones |-> None]
    /\ live = {}

\* The phone numbers that lead to c lead nowhere any more.
Forget(c) == [p \in Phones |-> IF route[p] = c THEN None ELSE route[p]]

Connect(c) ==
    /\ c \notin live
    /\ live' = live \cup {c}
    /\ UNCHANGED route

\* A connection stands under one number at a time, and takes it from whoever
\* stood there.
Speak(c, p) ==
    /\ c \in live
    /\ route' = [Forget(c) EXCEPT ![p] = c]
    /\ UNCHANGED live

MoveOn(c) ==
    /\ c \in live
    /\ route' = Forget(c)
    /\ UNCHANGED live

Disconnect(c) ==
    /\ c \in live
    /\ live' = live \ {c}
    /\ route' = Forget(c)

RegistryNext ==
    \E c \in Conns :
        \/ Connect(c)
        \/ \E p \in Phones : Speak(c, p)
        \/ MoveOn(c)
        \/ Disconnect(c)

RegistrySpec == RegistryInit /\ [][RegistryNext]_registryVars

=============================================================================
