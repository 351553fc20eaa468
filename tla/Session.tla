------------------------------- MODULE Session -------------------------------
(***************************************************************************)
(* The session of the terminal simulator (run of test_simulator.py) with   *)
(* the server of jt808/server.py, on one connection, as markers and bytes: *)
(* both ends write with frame() and read with extract_frames.  A message   *)
(* is a payload of one byte, its kind.  No one pushes commands meanwhile,  *)
(* and the server's handlers do not fail.                                  *)
(***************************************************************************)
EXTENDS FrameCodec

CONSTANT
    MaxBeats        \* bound: heartbeats, each second one with a location report

VARIABLES
    phase,          \* where run() of the simulator stands
    toServer,       \* bytes written by the simulator and not yet read
    toSimulator,    \* bytes written by the server and not yet read
    serverBuf,      \* buf of handle_connection
    simulatorBuf,   \* self.buf
    authenticated,  \* terminals.authenticated on the server
    beats           \* hb_counter

serverSide == <<serverBuf, authenticated>>
sessionVars == <<phase, toServer, toSimulator, serverSide, simulatorBuf, beats>>

Framed(kind) == Frame(<<kind>>)

After(n, bytes) == SubSeq(bytes, n + 1, Len(bytes))

\* The simulator has connected and sent its registration.
SessionInit ==
    /\ phase = "registering"
    /\ toServer = Framed("register")
    /\ toSimulator = <<>>
    /\ serverBuf = <<>>
    /\ simulatorBuf = <<>>
    /\ authenticated = FALSE
    /\ beats = 0

-----------------------------------------------------------------------------
(* The server *)

\* dispatch: a registration is answered by a code, everything else by an
\* acknowledgement.
Reply(kind) == Framed(IF kind = "register" THEN "registered" ELSE "ack")

\* The simulator presents the code it was given.
AuthenticatedAfter(kinds) ==
    LET row[i \in 0..Len(kinds)] ==
          IF i = 0 THEN authenticated
          ELSE CASE kinds[i] = "register" -> FALSE
                 [] kinds[i] = "auth"     -> TRUE
                 [] OTHER                 -> row[i - 1]
    IN  row[Len(kinds)]

ServerReads(n) ==
    LET result == ExtractFrames(serverBuf \o SubSeq(toServer, 1, n))
        kinds == Concat(result.frames)
    IN  /\ toServer' = After(n, toServer)
        /\ serverBuf' = result.rest
        /\ authenticated' = AuthenticatedAfter(kinds)
        /\ toSimulator' = toSimulator
                          \o Concat([i \in 1..Len(kinds) |-> Reply(kinds[i])])
        /\ UNCHANGED <<phase, simulatorBuf, beats>>

-----------------------------------------------------------------------------
(* The simulator *)

\* What run() does with the message that recv_message returns, or with none.
Resume(message) ==
    CASE phase = "registering" /\ message = "registered" ->
           /\ phase' = "authenticating"
           /\ toServer' = toServer \o Framed("auth")
      [] phase = "registering" /\ message # "registered" ->
           phase' = "stopped" /\ UNCHANGED toServer
      [] OTHER ->
           phase' = "main" /\ UNCHANGED toServer

\* recv_message returns the first message of a chunk and drops the others.
SimulatorReads(n) ==
    LET result == ExtractFrames(simulatorBuf \o SubSeq(toSimulator, 1, n))
    IN  /\ phase # "stopped"
        /\ toSimulator' = After(n, toSimulator)
        /\ simulatorBuf' = result.rest
        /\ IF result.frames = <<>>
           THEN UNCHANGED <<phase, toServer>>
           ELSE Resume(Head(Head(result.frames)))
        /\ UNCHANGED <<serverSide, beats>>

\* recv_message gives up after ten seconds.  Here that is only when nothing is
\* on its way any more: no answer is late.
TimesOut ==
    /\ phase \in {"registering", "authenticating"}
    /\ toServer = <<>> /\ toSimulator = <<>>
    /\ Resume("none")
    /\ UNCHANGED <<toSimulator, serverSide, simulatorBuf, beats>>

Beat ==
    /\ phase = "main"
    /\ beats < MaxBeats
    /\ beats' = beats + 1
    /\ toServer' = toServer \o Framed("heartbeat")
                   \o (IF beats' % 2 = 0 THEN Framed("location") ELSE <<>>)
    /\ UNCHANGED <<phase, toSimulator, serverSide, simulatorBuf>>

SessionNext ==
    \/ \E n \in 1..Len(toServer) : ServerReads(n)
    \/ \E n \in 1..Len(toSimulator) : SimulatorReads(n)
    \/ TimesOut
    \/ Beat

SessionSpec == SessionInit /\ [][SessionNext]_sessionVars

-----------------------------------------------------------------------------
(* Properties *)

\* "3. Authenticates with the returned auth code (0x0102)": in its main loop
\* the simulator is authenticated.  It is not: the server never sees the second
\* frame of a connection, and no answer counts as a good one.
MainLoopIsAuthenticated == phase = "main" => authenticated

=============================================================================
