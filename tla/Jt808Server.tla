------------------------------ MODULE Jt808Server ------------------------------
(***************************************************************************)
(* The live server as a whole: the coroutines, the directory and the pushes *)
(* of TcpServer with the handlers, the tables and the serial numbers of     *)
(* Handlers, and the frames on their way to the terminals.  dispatch() runs *)
(* in a step of the connection that read the message; a push runs in a step *)
(* with the endpoint that built the frame: neither suspends before it       *)
(* writes.                                                                  *)
(*                                                                         *)
(* A frame that is written reaches the terminal later, in the order of the *)
(* writes, or not at all if the connection is lost.  A terminal answers    *)
(* only what it has read, as often and as late as it likes, and on any     *)
(* connection of its own.                                                  *)
(***************************************************************************)
EXTENDS TcpServer, Handlers

VARIABLES
    wire,       \* frames written to a connection and not yet read by the peer
    delivered,  \* history: the pushes, by number, that a terminal has read
    confirmed   \* history: the location rows that a terminal knows are stored

linkVars == <<wire, delivered, confirmed>>
serverVars == <<tcpVars, handlerVars, linkVars>>

\* A frame on the wire.  `push` is the number of the push among those to its
\* phone number, `row` the location record that the frame is the answer to; an
\* answer has 0 for the one, any other frame for the other.
WireFrame(p, push, row) ==
    [phone |-> p, serial_no |-> NextSerial(p), push |-> push, row |-> row]

\* writer.write(): a transport that is lost takes nothing.
Write(c, frame) ==
    wire' = IF transport[c] = "lost" THEN wire
            ELSE [wire EXCEPT ![c] = Append(@, frame)]

ServerInit ==
    /\ TcpInit
    /\ HandlerInit
    /\ wire = [c \in Conns |-> <<>>]
    /\ delivered = [p \in Phones |-> {}]
    /\ confirmed = [p \in Phones |-> {}]

-----------------------------------------------------------------------------
(* Messages *)

\* A message that is answered.  handle_unregistration is answered as well, and
\* stores nothing.
Answer(c, p) ==
    \/ /\ Dispatch(c, p, "reply")
       /\ \/ HandleRegistration(p)
          \/ \E code \in 1..codes \cup {WrongCode} :
                HandleAuthentication(p, code)
          \/ AnswerOnly(p)
       /\ Write(c, WireFrame(p, 0, 0))
       /\ UNCHANGED <<delivered, confirmed>>
    \/ /\ Dispatch(c, p, "unregister")
       /\ AnswerOnly(p)
       /\ Write(c, WireFrame(p, 0, 0))
       /\ UNCHANGED <<delivered, confirmed>>

AnswerLocationReport(c, p) ==
    /\ Dispatch(c, p, "reply")
    /\ HandleLocationReport(p)
    /\ Write(c, WireFrame(p, 0, location_records[p] + 1))
    /\ UNCHANGED <<delivered, confirmed>>

\* A message without an answer, one whose handler raises, and one for which
\* already _touch_terminal raises.
TakeSilently(c, p) ==
    /\ Dispatch(c, p, "silent")
    /\ \/ \E k \in delivered[p], result \in Results :
             HandleTerminalAck(p, k, result)
       \/ \E k \in delivered[p] : TerminalAckFails(p, k)
       \/ HandleParamsResponse(p)
       \/ HandlerRaises(p)
       \/ UNCHANGED handlerVars
    /\ UNCHANGED linkVars

-----------------------------------------------------------------------------
(* Endpoints *)

\* Mutant of PushCommand: a command that is not logged.
PushCommandUnlogged(r, p) ==
    /\ Push(r, p)
    /\ TakeSerial(p)
    /\ PushFrame(p, Len(command_logs) + 1)
    /\ Write(connections[p], WireFrame(p, Len(pushed[p]) + 1, 0))
    /\ UNCHANGED <<tables, codes, accepted, answered, unsaved, restarts,
                   delivered, confirmed>>

\* The endpoint checks the directory, takes a serial number, commits the log
\* and writes.
PushCommand(r, p) ==
    /\ Push(r, p)
    /\ Command(p)
    /\ Write(connections[p], WireFrame(p, Len(pushed[p]) + 1, 0))
    /\ UNCHANGED <<delivered, confirmed>>

\* Building the frame or storing the log raises: nothing is written.
PushRaises(r, p) ==
    /\ request[r] = IdleRequest
    /\ IsOnline(p)
    /\ EndpointRaises(p)
    /\ UNCHANGED <<tcpVars, linkVars>>

-----------------------------------------------------------------------------
(* Connections, terminals and the process *)

TcpAlone ==
    /\ \/ \E c \in Conns : ReadAndClose(c) \/ Network(c)
       \/ \E r \in Requests : SendFails(r)
    /\ UNCHANGED <<handlerVars, linkVars>>

\* The peer reads the next frame.  It may have been sent before the server
\* closed the connection or was told that it is lost.
Deliver(c) ==
    /\ transport[c] # "stalled"
    /\ wire[c] # <<>>
    /\ LET frame == Head(wire[c])
           Noted(known, n) == IF n = 0 THEN known
                              ELSE [known EXCEPT ![frame.phone] = @ \cup {n}]
       IN  /\ delivered' = Noted(delivered, frame.push)
           /\ confirmed' = Noted(confirmed, frame.row)
    /\ wire' = [wire EXCEPT ![c] = Tail(@)]
    /\ UNCHANGED <<tcpVars, handlerVars>>

\* What a lost connection has not delivered is gone.
Drop(c) ==
    /\ transport[c] = "lost"
    /\ wire[c] # <<>>
    /\ wire' = [wire EXCEPT ![c] = <<>>]
    /\ UNCHANGED <<tcpVars, handlerVars, delivered, confirmed>>

ServerRestarts ==
    /\ Restart
    /\ ServerRestart
    /\ UNCHANGED linkVars

ServerNext ==
    \/ \E c \in Conns, p \in Phones :
          \/ Answer(c, p)
          \/ AnswerLocationReport(c, p)
          \/ TakeSilently(c, p)
    \/ \E r \in Requests, p \in Phones : PushCommand(r, p) \/ PushRaises(r, p)
    \/ TcpAlone
    \/ \E c \in Conns : Deliver(c) \/ Drop(c)
    \/ ServerRestarts

ServerSpec == ServerInit /\ [][ServerNext]_serverVars

-----------------------------------------------------------------------------
(* Properties; HandlerSpec is a property of it as well *)

\* The k-th push to p carried the i-th command.
Carried(p, k, i) == k \in 1..Len(pushed[p]) /\ pushed[p][k].command = i

\* A command that is marked as acknowledged has been read by the terminal it is
\* for: frames that are lost with their connection, pushes that fail, and
\* answers to other frames never mark it, as long as no serial number is used
\* twice.
AckedWasDelivered ==
    NoReuse =>
        \A i \in 1..Len(command_logs) :
            command_logs[i].acked =>
                \E k \in delivered[command_logs[i].phone] :
                    Carried(command_logs[i].phone, k, i)

\* A connection brings its terminal frames with increasing serial numbers, be
\* they answers or pushes, until the numbers come round: between taking a
\* number and writing the frame nothing else is written.
SerialsInOrder ==
    \A c \in Conns : \A i, j \in 1..Len(wire[c]) :
        LET p == wire[c][i].phone
        IN  (/\ i < j /\ wire[c][j].phone = p
             /\ restarts = 0 /\ consumed[p] < SerialMod)
              => wire[c][i].serial_no < wire[c][j].serial_no

\* A terminal that repeats a report until it is confirmed loses none: for each
\* confirmation, read or on its way, the record is stored, whatever fails and
\* also after a restart.  The converse does not hold: a report whose answer is
\* lost is stored again.
ConfirmedIsStored ==
    /\ \A p \in Phones : confirmed[p] \subseteq 1..location_records[p]
    /\ \A c \in Conns : \A i \in 1..Len(wire[c]) :
         wire[c][i].row <= location_records[wire[c][i].phone]

================================================================================
