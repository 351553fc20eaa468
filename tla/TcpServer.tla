------------------------------ MODULE TcpServer ------------------------------
(***************************************************************************)
(* The live TCP side of the server: the coroutine handle_connection of     *)
(* jt808/server.py, one per accepted connection, the directory             *)
(* ConnectionManager of jt808/handlers.py that maps a phone number to the  *)
(* writer of a connection, and the pushes of the REST API that go through  *)
(* ConnectionManager.send.                                                 *)
(*                                                                         *)
(* Everything runs on one asyncio event loop, so a step of this model is   *)
(* what a coroutine does between two suspensions.  It can only suspend in  *)
(* reader.read() (task "reading") and in writer.drain() (task "draining"); *)
(* between the frames of one chunk (task "looping") it does not suspend,   *)
(* but letting other coroutines run there adds nothing that chunks of one  *)
(* frame do not already allow.  What the handlers do with a frame is in    *)
(* module Handlers; here a frame is its phone number and its kind.         *)
(***************************************************************************)
EXTENDS Naturals, Terminals

CONSTANTS
    Conns,      \* TCP connections; each is accepted at most once
    Requests,   \* concurrent REST requests that push a frame
    Speaks,     \* the phone numbers that the frames of a connection carry
    MaxChunk,   \* bound: complete frames that one read can hold
    None        \* no writer, no phone

ASSUME NoneAssumption == None \notin Conns \cup Phones
ASSUME SpeaksAssumption == Speaks \in [Conns -> SUBSET Phones]
ASSUME MaxChunkAssumption == MaxChunk \in Nat \ {0}

VARIABLES
    connections,    \* ConnectionManager._connections; None: no entry
    task,           \* where the coroutine of each connection is
    phone,          \* its local variable `phone`
    frames,         \* frames of the current chunk not yet dispatched
    transport,      \* the asyncio transport under the reader and the writer
    request,        \* the pushes suspended inside ConnectionManager.send
    lastSpoke,      \* history: the connection that last spoke for a phone
                    \* number and has not sent 0x0003 for it since
    contested       \* history: when it last spoke, a handler or a push of an
                    \* older connection of the same phone was still in flight

history == <<lastSpoke, contested>>
tcpVars ==
    <<connections, task, phone, frames, transport, request, history>>

TaskStates == {"absent", "reading", "looping", "draining", "closed"}

\* "stalled": the peer does not read and the write buffer is above its
\* high-water mark, so drain() suspends.  "lost": connection_lost() has run or
\* the transport is closing with nothing left to flush, so drain() raises.
TransportStates == {"absent", "open", "stalled", "lost"}

IdleRequest == [state |-> "idle", phone |-> None, writer |-> None]

-----------------------------------------------------------------------------
(* ConnectionManager *)

\* Mutant of Register: setdefault, which keeps the writer already there.
RegisterIfAbsent(p, c) ==
    [connections EXCEPT ![p] = IF @ = None \/ c = None THEN c ELSE @]
Register(p, c) == [connections EXCEPT ![p] = c]
Unregister(p) == [connections EXCEPT ![p] = None]
IsOnline(p) == connections[p] # None
OnlinePhones == {p \in Phones : IsOnline(p)}

-----------------------------------------------------------------------------
TcpInit ==
    /\ connections = [p \in Phones |-> None]
    /\ task = [c \in Conns |-> "absent"]
    /\ phone = [c \in Conns |-> None]
    /\ frames = [c \in Conns |-> 0]
    /\ transport = [c \in Conns |-> "absent"]
    /\ request = [r \in Requests |-> IdleRequest]
    /\ lastSpoke = [p \in Phones |-> None]
    /\ contested = [p \in Phones |-> FALSE]

-----------------------------------------------------------------------------
(* handle_connection *)

Accept(c) ==
    /\ task[c] = "absent"
    /\ task' = [task EXCEPT ![c] = "reading"]
    /\ transport' = [transport EXCEPT ![c] = "open"]
    /\ UNCHANGED <<connections, phone, frames, request, history>>

\* reader.read() returns a chunk that completes n frames; n is 0 when it holds
\* part of a frame only.
ReadChunk(c, n) ==
    /\ task[c] = "reading"
    /\ transport[c] # "lost"
    /\ frames' = [frames EXCEPT ![c] = n]
    /\ task' = [task EXCEPT ![c] = "looping"]
    /\ UNCHANGED <<connections, phone, transport, request, history>>

\* The next turn of the frame loop, or its end.
HasFrame(c) == task[c] = "looping" /\ frames[c] > 0
TakeFrame(c) == HasFrame(c) /\ frames' = [frames EXCEPT ![c] = @ - 1]

ChunkDone(c) ==
    /\ task[c] = "looping"
    /\ frames[c] = 0
    /\ task' = [task EXCEPT ![c] = "reading"]
    /\ UNCHANGED <<connections, phone, frames, transport, request, history>>

\* parse_message returned None: bad checksum or too short.
DiscardFrame(c) ==
    /\ TakeFrame(c)
    /\ UNCHANGED <<connections, task, phone, transport, request, history>>

\* What dispatch() did with the frame: it returned a response, it returned None
\* or raised (a database error), or it ran handle_unregistration.
FrameKinds == {"reply", "silent", "unregister"}

Live(c) == task[c] \in {"reading", "looping", "draining"}

\* Something of another connection than c can still unregister p: a handler
\* whose last frame was of p, or a push to p.
InFlightElsewhere(p, c) ==
    \/ \E d \in Conns \ {c} : Live(d) /\ phone[d] = p
    \/ \E r \in Requests : request[r].phone = p /\ request[r].writer # c

\* Mutant of Dispatch: register only when the phone number changes.
DispatchRegistersOnce(c, p, kind) ==
    LET entry == IF kind = "unregister" THEN None ELSE c
        suspends == kind # "silent" /\ transport[c] = "stalled"
    IN  /\ TakeFrame(c)
        /\ p \in Speaks[c]
        /\ phone' = [phone EXCEPT ![c] = p]
        /\ connections' = IF phone[c] = p /\ kind # "unregister"
                          THEN connections ELSE Register(p, entry)
        /\ lastSpoke' = [lastSpoke EXCEPT ![p] = entry]
        /\ contested' = [contested EXCEPT ![p] = InFlightElsewhere(p, c)]
        /\ task' = IF suspends THEN [task EXCEPT ![c] = "draining"] ELSE task
        /\ UNCHANGED <<transport, request>>

\* One turn of the frame loop: remember the phone number, register the writer,
\* dispatch, and write the response.  Writing to a lost transport raises in
\* drain(), which the loop logs and ignores.
Dispatch(c, p, kind) ==
    LET entry == IF kind = "unregister" THEN None ELSE c
        suspends == kind # "silent" /\ transport[c] = "stalled"
    IN  /\ TakeFrame(c)
        /\ p \in Speaks[c]
        /\ phone' = [phone EXCEPT ![c] = p]
        /\ connections' = Register(p, entry)
        /\ lastSpoke' = [lastSpoke EXCEPT ![p] = entry]
        /\ contested' = [contested EXCEPT ![p] = InFlightElsewhere(p, c)]
        /\ task' = IF suspends THEN [task EXCEPT ![c] = "draining"] ELSE task
        /\ UNCHANGED <<transport, request>>

\* Mutant of Finish: close the writer and leave the directory as it is.
FinishKeepsEntry(c) ==
    /\ task' = [task EXCEPT ![c] = "closed"]
    /\ frames' = [frames EXCEPT ![c] = 0]
    /\ transport' = [transport EXCEPT ![c] = IF @ = "stalled" THEN @
                                             ELSE "lost"]
    /\ UNCHANGED <<connections, phone, request, history>>

\* The finally block: unregister whatever entry the last phone number has, and
\* close the writer.  A transport with unsent data stays until it is flushed.
Finish(c) ==
    /\ connections' = IF phone[c] # None THEN Unregister(phone[c])
                      ELSE connections
    /\ task' = [task EXCEPT ![c] = "closed"]
    /\ frames' = [frames EXCEPT ![c] = 0]
    /\ transport' = [transport EXCEPT ![c] = IF @ = "stalled" THEN @
                                             ELSE "lost"]
    /\ UNCHANGED <<phone, request, history>>

\* parse_message raised: a sub-package frame too short for its header.
ParseRaises(c) == HasFrame(c) /\ Finish(c)

\* Mutant of IdleTimeout: only a terminal that has spoken can be idle.
IdleOnlyOnceKnown(c) ==
    task[c] = "reading" /\ transport[c] # "lost" /\ phone[c] # None /\ Finish(c)

\* wait_for(reader.read()) expired.
IdleTimeout(c) == task[c] = "reading" /\ transport[c] # "lost" /\ Finish(c)

\* reader.read() returned b"": the peer closed its side.
PeerCloses(c) == task[c] = "reading" /\ transport[c] # "lost" /\ Finish(c)

\* reader.read() raised because the connection was lost.
ReadRaises(c) == task[c] = "reading" /\ transport[c] = "lost" /\ Finish(c)

-----------------------------------------------------------------------------
(* The transport *)

\* The coroutines waiting in drain() on the writer of c.
WaitingOn(c) == {r \in Requests : request[r].state = "draining"
                                  /\ request[r].writer = c}

\* Mutant of LeaveDrain: a drain() that ends wakes the pushes only.
StayInDrain(c) == task

LeaveDrain(c) ==
    [task EXCEPT ![c] = IF @ = "draining" THEN "looping" ELSE @]

Stall(c) ==
    /\ transport[c] = "open"
    /\ transport' = [transport EXCEPT ![c] = "stalled"]
    /\ UNCHANGED <<connections, task, phone, frames, request, history>>

\* The peer reads again and the buffer is flushed: every drain() returns.
Unstall(c) ==
    /\ transport[c] = "stalled"
    /\ transport' = [transport EXCEPT ![c] = IF task[c] = "closed" THEN "lost"
                                             ELSE "open"]
    /\ task' = LeaveDrain(c)
    /\ request' = [r \in Requests |-> IF r \in WaitingOn(c) THEN IdleRequest
                                      ELSE request[r]]
    /\ UNCHANGED <<connections, phone, frames, history>>

\* connection_lost(exc): every drain() raises.  The frame loop logs it and goes
\* on with the chunk in hand; a push runs its except branch when it is resumed.
Lose(c) ==
    /\ transport[c] \in {"open", "stalled"}
    /\ task[c] # "looping"
    /\ transport' = [transport EXCEPT ![c] = "lost"]
    /\ task' = LeaveDrain(c)
    /\ request' = [r \in Requests |->
                     IF r \in WaitingOn(c)
                     THEN [request[r] EXCEPT !.state = "failing"]
                     ELSE request[r]]
    /\ UNCHANGED <<connections, phone, frames, history>>

-----------------------------------------------------------------------------
(* The REST endpoints that push a frame *)

\* Mutant of Push: give up at once on a terminal whose buffer is full.
PushGivesUp(r, p) ==
    LET c == connections[p]
    IN  /\ request[r] = IdleRequest
        /\ IsOnline(p)
        /\ request' = IF transport[c] = "open" THEN request
                      ELSE [request EXCEPT ![r] = [state |-> "failing",
                                                   phone |-> p, writer |-> c]]
        /\ UNCHANGED <<connections, task, phone, frames, transport, history>>

\* _check_online, then ConnectionManager.send up to its first suspension: there
\* is none in between, so the writer that send finds is the one just checked.
Push(r, p) ==
    LET c == connections[p]
        suspended(s) == [state |-> s, phone |-> p, writer |-> c]
    IN  /\ request[r] = IdleRequest
        /\ IsOnline(p)
        /\ request' = CASE transport[c] = "open" -> request
                        [] transport[c] = "stalled" ->
                             [request EXCEPT ![r] = suspended("draining")]
                        [] OTHER -> [request EXCEPT ![r] = suspended("failing")]
        /\ UNCHANGED <<connections, task, phone, frames, transport, history>>

\* Mutant of SendFails: retry instead of answering 503.
SendRetries(r) ==
    /\ request[r].state = "failing"
    /\ connections' = Unregister(request[r].phone)
    /\ UNCHANGED <<task, phone, frames, transport, request, history>>

\* The except branch of send: the entry of the phone number is removed and the
\* request is answered with 503.
SendFails(r) ==
    /\ request[r].state = "failing"
    /\ connections' = Unregister(request[r].phone)
    /\ request' = [request EXCEPT ![r] = IdleRequest]
    /\ UNCHANGED <<task, phone, frames, transport, history>>

-----------------------------------------------------------------------------
\* The process is killed and started again: nothing of this state persists.
Restart ==
    /\ connections' = [p \in Phones |-> None]
    /\ task' = [c \in Conns |-> IF task[c] = "absent" THEN "absent"
                                ELSE "closed"]
    /\ phone' = [c \in Conns |-> None]
    /\ frames' = [c \in Conns |-> 0]
    /\ transport' = [c \in Conns |-> IF task[c] = "absent" THEN "absent"
                                     ELSE "lost"]
    /\ request' = [r \in Requests |-> IdleRequest]
    /\ lastSpoke' = [p \in Phones |-> None]
    /\ contested' = [p \in Phones |-> FALSE]

\* What a connection does besides dispatching messages.
ReadAndClose(c) ==
    \/ Accept(c)
    \/ \E n \in 0..MaxChunk : ReadChunk(c, n)
    \/ ChunkDone(c)
    \/ DiscardFrame(c)
    \/ ParseRaises(c)
    \/ IdleTimeout(c)
    \/ PeerCloses(c)
    \/ ReadRaises(c)

Connection(c) ==
    \/ ReadAndClose(c)
    \/ \E p \in Phones, kind \in FrameKinds : Dispatch(c, p, kind)

Network(c) == Stall(c) \/ Unstall(c) \/ Lose(c)

Api(r) == (\E p \in Phones : Push(r, p)) \/ SendFails(r)

TcpNext ==
    \/ \E c \in Conns : Connection(c) \/ Network(c)
    \/ \E r \in Requests : Api(r)
    \/ Restart

TcpSpec == TcpInit /\ [][TcpNext]_tcpVars

\* What the event loop guarantees: a coroutine that can run is run, a read that
\* brings nothing expires, and a drain() that has raised is delivered.
LoopFairness ==
    /\ \A c \in Conns :
         /\ WF_tcpVars(/\ task[c] = "looping"
                       /\ Connection(c))
         /\ WF_tcpVars(IdleTimeout(c))
         /\ WF_tcpVars(ReadRaises(c))
    /\ \A r \in Requests : WF_tcpVars(SendFails(r))

\* An assumption on the peers, which nothing in the code enforces: one that
\* does not read either resumes or its connection is lost.
PeerFairness == \A c \in Conns : WF_tcpVars(Unstall(c))

TcpLoopSpec == TcpSpec /\ LoopFairness
TcpFairSpec == TcpSpec /\ LoopFairness /\ PeerFairness

-----------------------------------------------------------------------------
(* Safety *)

Writers == Conns \cup {None}

RequestType ==
    {IdleRequest} \cup
    [state : {"draining", "failing"}, phone : Phones, writer : Conns]

\* The values that the state of the server can take.  A coroutine has frames
\* in hand only inside the frame loop, and waits in drain() only on a transport
\* that is still there.
TcpTypeOK ==
    /\ connections \in [Phones -> Writers]
    /\ task \in [Conns -> TaskStates]
    /\ phone \in [Conns -> Phones \cup {None}]
    /\ frames \in [Conns -> 0..MaxChunk]
    /\ transport \in [Conns -> TransportStates]
    /\ request \in [Requests -> RequestType]
    /\ lastSpoke \in [Phones -> Writers]
    /\ contested \in [Phones -> BOOLEAN]
    /\ \A c \in Conns :
         /\ task[c] \in {"absent", "reading", "closed"} => frames[c] = 0
         /\ task[c] = "draining" => transport[c] = "stalled"
         /\ task[c] = "absent" <=> transport[c] = "absent"

\* A command for a phone number is never written to a connection on which the
\* terminal has spoken earlier but not last: register() always replaces the
\* writer, and no later step brings a replaced writer back.
RouteIsCurrent ==
    \A p \in Phones : connections[p] \in {None, lastSpoke[p]}

\* A connection that ends leaves no entry behind but those of a gateway: a phone
\* number that is listed as online leads to a connection whose coroutine is
\* running, or to one that has spoken for another phone number since, and of
\* whose entries only that of the last number was removed at its end.
OnlyGatewaysLeaveEntries ==
    \A p \in OnlinePhones :
        Live(connections[p]) \/ phone[connections[p]] # p

\* A terminal whose connection is alive is online.
Reachable(p) ==
    /\ lastSpoke[p] # None
    /\ Live(lastSpoke[p])
    /\ transport[lastSpoke[p]] # "lost"

ReachableIsOnline ==
    \A p \in Phones : Reachable(p) => IsOnline(p)

\* The same, for a terminal that spoke last when no handler and no push of an
\* older connection was still in flight: no other terminal's disconnection, no
\* slow push and no failed push to another terminal takes it offline.
UncontestedIsOnline ==
    \A p \in Phones : Reachable(p) /\ ~contested[p] => IsOnline(p)

\* send() gives up on a terminal, and removes it from the directory, only when
\* the connection it was writing to is gone; a full buffer is waited for.
FailingIsLost ==
    \A r \in Requests :
        request[r].state = "failing" => transport[request[r].writer] = "lost"

-----------------------------------------------------------------------------
(* Liveness *)

\* A connection on which nothing arrives any more is closed in the end.
SilentIsClosed ==
    \A c \in Conns :
        \/ []<><<\E n \in 0..MaxChunk : ReadChunk(c, n)>>_tcpVars
        \/ Live(c) ~> task[c] = "closed"

\* A REST request that pushes a frame is answered in the end.
PushIsAnswered ==
    \A r \in Requests : request[r].state # "idle" ~> request[r].state = "idle"

\* Once a terminal speaks on one connection only, and keeps sending frames,
\* its commands go to that connection for good, whatever the handlers of its
\* former connections removed when they ended: every frame registers again.
OnlySpeaker(c, p) ==
    /\ Live(c)
    /\ \A d \in Conns \ {c} : p \in Speaks[d] => ~Live(d)

HeartbeatRestoresRoute ==
    \A c \in Conns, p \in Phones :
        (/\ <>[]OnlySpeaker(c, p)
         /\ <>[][~Dispatch(c, p, "unregister")]_tcpVars
         /\ []<><<\E kind \in FrameKinds : Dispatch(c, p, kind)>>_tcpVars)
        => <>[](connections[p] = c)

=============================================================================
