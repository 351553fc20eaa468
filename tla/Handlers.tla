------------------------------ MODULE Handlers ------------------------------
(***************************************************************************)
(* What the server does with the content of the traffic: dispatch() and    *)
(* the message handlers of jt808/handlers.py, the three pushing endpoints  *)
(* of jt808/api.py up to the push itself, the tables of jt808/models.py    *)
(* they write, and the serial number that each frame to a terminal takes.  *)
(*                                                                         *)
(* A handler and the part of an endpoint before the push run without a     *)
(* suspension, so each is one action.  A commit that fails, and a crash    *)
(* between the commit of _touch_terminal and the commit of the handler,    *)
(* leave what was committed before.                                        *)
(***************************************************************************)
EXTENDS Naturals, Sequences, Terminals

CONSTANTS
    Results,            \* result codes of a terminal's general response
    NoRow,              \* no terminal of that phone number
    NoResult,           \* NULL in the column ack_result
    SerialMod,          \* 2^16 in the code: serial numbers wrap there
    \* Bounds, all of them counts of events:
    MaxRegistrations, MaxLocations, MaxCommands, MaxParameterLogs,
    MaxFrames, MaxRestarts

ASSUME SerialAssumption == SerialMod \in Nat \ {0}
ASSUME BoundAssumption == MaxRegistrations \in Nat
ASSUME NoResultAssumption == NoResult \notin Results
ASSUME NoRowAssumption ==
    \A code \in 0..MaxRegistrations, proved \in BOOLEAN :
        NoRow # [auth_code |-> code, authenticated |-> proved]

VARIABLES
    terminals,          \* table terminals: a row by phone number, or NoRow
    location_records,   \* number of rows of each phone number
    command_logs,       \* table command_logs, in the order of insertion
    parameter_logs,     \* table parameter_logs, in the order of insertion
    server_serial,      \* _server_serial: the last serial number taken
    codes,              \* authentication codes generated so far: 1..codes
    accepted,           \* history: the code of the last 0x0102 answered with 0
    consumed,           \* history: serial numbers taken for a phone number
    pushed,             \* history: what the endpoints pushed to a phone number
    answered,           \* history: commands an answer to which has come in
    unsaved,            \* history: those to which an answer could not be stored
    restarts            \* history: restarts of the process

tables == <<terminals, location_records, command_logs, parameter_logs>>
serials == <<server_serial, consumed>>
handlerVars ==
    <<tables, serials, codes, accepted, pushed, answered, unsaved, restarts>>

NoCode == 0
WrongCode == MaxRegistrations + 1
NoCommand == 0

NewTerminal == [auth_code |-> NoCode, authenticated |-> FALSE]

HandlerInit ==
    /\ terminals = [p \in Phones |-> NoRow]
    /\ location_records = [p \in Phones |-> 0]
    /\ command_logs = <<>>
    /\ parameter_logs = <<>>
    /\ server_serial = [p \in Phones |-> 0]
    /\ codes = 0
    /\ accepted = [p \in Phones |-> NoCode]
    /\ consumed = [p \in Phones |-> 0]
    /\ pushed = [p \in Phones |-> <<>>]
    /\ answered = {}
    /\ unsaved = {}
    /\ restarts = 0

-----------------------------------------------------------------------------
(* Helpers *)

\* Mutant of NextSerial: no mask to 16 bits.
NextSerialUnmasked(p) == server_serial[p] + 1
NextSerial(p) == (server_serial[p] + 1) % SerialMod

\* Mutant of TakeSerial: the number is computed and not kept.
TakeSerialForgets(p) ==
    /\ consumed[p] < MaxFrames
    /\ consumed' = [consumed EXCEPT ![p] = @ + 1]
    /\ UNCHANGED server_serial

\* _srv_serial(p)
TakeSerial(p) ==
    /\ consumed[p] < MaxFrames
    /\ server_serial' = [server_serial EXCEPT ![p] = NextSerial(p)]
    /\ consumed' = [consumed EXCEPT ![p] = @ + 1]

\* What _touch_terminal has committed before the handler runs.
Touched(p) == [terminals EXCEPT ![p] = IF @ = NoRow THEN NewTerminal ELSE @]

-----------------------------------------------------------------------------
(* dispatch and its handlers *)

\* Messages that are answered and store nothing but the last-seen time:
\* heartbeat, time request, 0x0003 and unknown ones, a registration too short
\* for its fixed fields, and a location report that cannot be parsed.
AnswerOnly(p) ==
    /\ terminals' = Touched(p)
    /\ TakeSerial(p)
    /\ UNCHANGED <<location_records, command_logs, parameter_logs, codes,
                   accepted, pushed, answered, unsaved, restarts>>

\* Mutant of HandleRegistration: a new code, but authenticated is not reset.
RegistrationKeepsProof(p) ==
    /\ codes < MaxRegistrations
    /\ codes' = codes + 1
    /\ terminals' = [terminals EXCEPT
                       ![p] = [auth_code |-> codes + 1,
                               authenticated |-> Touched(p)[p].authenticated]]
    /\ TakeSerial(p)
    /\ UNCHANGED <<location_records, command_logs, parameter_logs, accepted,
                   pushed, answered, unsaved, restarts>>

HandleRegistration(p) ==
    /\ codes < MaxRegistrations
    /\ codes' = codes + 1
    /\ terminals' = [terminals EXCEPT
                       ![p] = [auth_code |-> codes + 1,
                               authenticated |-> FALSE]]
    /\ TakeSerial(p)
    /\ UNCHANGED <<location_records, command_logs, parameter_logs, accepted,
                   pushed, answered, unsaved, restarts>>

\* A terminal may present any code: an old one, that of another terminal, or
\* one that was never issued.
HandleAuthentication(p, code) ==
    LET row == Touched(p)[p]
        matches == row.auth_code = code
    IN  /\ terminals' = [Touched(p) EXCEPT
                           ![p].authenticated = matches \/ @]
        /\ accepted' = IF matches THEN [accepted EXCEPT ![p] = code]
                       ELSE accepted
        /\ TakeSerial(p)
        /\ UNCHANGED <<location_records, command_logs, parameter_logs, codes,
                       pushed, answered, unsaved, restarts>>

\* Mutant of HandleLocationReport: a commit that fails is answered with 0.
LocationAnsweredAnyway(p) ==
    /\ location_records[p] < MaxLocations
    /\ terminals' = Touched(p)
    /\ \/ location_records' = [location_records EXCEPT ![p] = @ + 1]
       \/ UNCHANGED location_records
    /\ TakeSerial(p)
    /\ UNCHANGED <<command_logs, parameter_logs, codes, accepted, pushed,
                   answered, unsaved, restarts>>

HandleLocationReport(p) ==
    /\ location_records[p] < MaxLocations
    /\ terminals' = Touched(p)
    /\ location_records' = [location_records EXCEPT ![p] = @ + 1]
    /\ TakeSerial(p)
    /\ UNCHANGED <<command_logs, parameter_logs, codes, accepted, pushed,
                   answered, unsaved, restarts>>

\* Mutant of Pending: the filter on the phone number is missing.
PendingOfSerial(p, serial) ==
    {j \in 1..Len(command_logs) : /\ command_logs[j].serial_no = serial
                                  /\ ~command_logs[j].acked}

\* Mutant of Pending: the filter on the serial number is missing.
PendingOfPhone(p, serial) ==
    {j \in 1..Len(command_logs) : /\ command_logs[j].phone = p
                                  /\ ~command_logs[j].acked}

\* Mutant of Pending: the filter acked=False is missing.
AnyOfSerial(p, serial) ==
    {j \in 1..Len(command_logs) : /\ command_logs[j].phone = p
                                  /\ command_logs[j].serial_no = serial}

\* The rows that the query of handle_terminal_ack selects; first() has no
\* ORDER BY to choose among them.
Pending(p, serial) ==
    {j \in 1..Len(command_logs) : /\ command_logs[j].phone = p
                                  /\ command_logs[j].serial_no = serial
                                  /\ ~command_logs[j].acked}

\* An answer of the terminal to the k-th frame pushed to it, perhaps not the
\* first one and perhaps long after it was pushed.
HandleTerminalAck(p, k, result) ==
    LET frame == pushed[p][k]
        pending == Pending(p, frame.serial_no)
    IN  /\ terminals' = Touched(p)
        /\ \/ /\ pending = {}
              /\ UNCHANGED command_logs
           \/ \E j \in pending :
                command_logs' = [command_logs EXCEPT ![j].acked = TRUE,
                                                     ![j].ack_result = result]
        /\ answered' = answered \cup ({frame.command} \ {NoCommand})
        /\ UNCHANGED <<location_records, parameter_logs, serials, codes,
                       accepted, pushed, unsaved, restarts>>

\* Such an answer that is lost because a commit raises: that of _touch_terminal
\* or, when it has been made, that of the handler.
TerminalAckFails(p, k) ==
    LET command == {pushed[p][k].command} \ {NoCommand}
    IN  /\ terminals' \in {terminals, Touched(p)}
        /\ answered' = answered \cup command
        /\ unsaved' = unsaved \cup command
        /\ UNCHANGED <<location_records, command_logs, parameter_logs, serials,
                       codes, accepted, pushed, restarts>>

LogParameters(p, direction, serial) ==
    /\ Len(parameter_logs) < MaxParameterLogs
    /\ parameter_logs' =
         Append(parameter_logs,
                [phone |-> p, direction |-> direction, serial_no |-> serial])

NoSerial == SerialMod

\* The values are logged without the serial number of the query they answer.
HandleParamsResponse(p) ==
    /\ terminals' = Touched(p)
    /\ LogParameters(p, "get", NoSerial)
    /\ UNCHANGED <<location_records, command_logs, serials, codes, accepted,
                   pushed, answered, unsaved, restarts>>

\* An acknowledgement too short to hold its fields is dropped; the commit of any
\* other handler that fails raises before the reply takes a serial number.
HandlerRaises(p) ==
    /\ terminals' = Touched(p)
    /\ UNCHANGED <<location_records, command_logs, parameter_logs, serials,
                   codes, accepted, pushed, answered, unsaved, restarts>>

-----------------------------------------------------------------------------
(* The endpoints, up to the push *)

LogCommand(p, serial) ==
    /\ Len(command_logs) < MaxCommands
    /\ command_logs' =
         Append(command_logs,
                [phone |-> p, serial_no |-> serial,
                 acked |-> FALSE, ack_result |-> NoResult])

PushFrame(p, command) ==
    pushed' = [pushed EXCEPT ![p] =
                 Append(@, [serial_no |-> NextSerial(p), command |-> command])]

SendControlCommand(p) ==
    /\ TakeSerial(p)
    /\ LogCommand(p, NextSerial(p))
    /\ PushFrame(p, Len(command_logs) + 1)
    /\ UNCHANGED <<terminals, location_records, parameter_logs, codes,
                   accepted, answered, unsaved, restarts>>

\* Mutant of SetParameters: a commit after each of the two rows, the second of
\* which may fail.
SetParametersInTwoCommits(p) ==
    /\ TakeSerial(p)
    /\ LogParameters(p, "set", NextSerial(p))
    /\ \/ /\ LogCommand(p, NextSerial(p))
          /\ PushFrame(p, Len(command_logs) + 1)
       \/ UNCHANGED <<command_logs, pushed>>
    /\ UNCHANGED <<terminals, location_records, codes, accepted, answered,
                   unsaved, restarts>>

SetParameters(p) ==
    /\ TakeSerial(p)
    /\ LogParameters(p, "set", NextSerial(p))
    /\ LogCommand(p, NextSerial(p))
    /\ PushFrame(p, Len(command_logs) + 1)
    /\ UNCHANGED <<terminals, location_records, codes, accepted, answered,
                   unsaved, restarts>>

QueryParameters(p) ==
    /\ TakeSerial(p)
    /\ LogParameters(p, "get", NextSerial(p))
    /\ PushFrame(p, NoCommand)
    /\ UNCHANGED <<terminals, location_records, command_logs, codes, accepted,
                   answered, unsaved, restarts>>

\* Building the frame or committing the log raises: the serial number is gone.
EndpointRaises(p) ==
    /\ TakeSerial(p)
    /\ UNCHANGED <<tables, codes, accepted, pushed, answered, unsaved,
                   restarts>>

-----------------------------------------------------------------------------
\* The process is killed and started again: the tables persist.
ServerRestart ==
    /\ restarts < MaxRestarts
    /\ restarts' = restarts + 1
    /\ server_serial' = [p \in Phones |-> 0]
    /\ UNCHANGED <<tables, consumed, codes, accepted, pushed, answered,
                   unsaved>>

HandleMessage(p) ==
    \/ HandleRegistration(p)
    \/ \E code \in 1..codes \cup {WrongCode} : HandleAuthentication(p, code)
    \/ AnswerOnly(p)
    \/ HandleLocationReport(p)
    \/ \E k \in 1..Len(pushed[p]), result \in Results :
          HandleTerminalAck(p, k, result)
    \/ \E k \in 1..Len(pushed[p]) : TerminalAckFails(p, k)
    \/ HandleParamsResponse(p)
    \/ HandlerRaises(p)

\* The endpoints that get as far as the push.
Command(p) == SendControlCommand(p) \/ SetParameters(p) \/ QueryParameters(p)

Endpoint(p) == Command(p) \/ EndpointRaises(p)

HandlerNext ==
    \/ \E p \in Phones : HandleMessage(p) \/ Endpoint(p)
    \/ ServerRestart

HandlerSpec == HandlerInit /\ [][HandlerNext]_handlerVars

-----------------------------------------------------------------------------
(* Properties *)

Codes == NoCode..MaxRegistrations
Serials == 0..(SerialMod - 1)

TerminalRow == [auth_code : Codes, authenticated : BOOLEAN]

CommandRow ==
    [phone : Phones, serial_no : Serials, acked : BOOLEAN,
     ack_result : Results \cup {NoResult}]

ParameterRow ==
    [phone : Phones, direction : {"set", "get"},
     serial_no : Serials \cup {NoSerial}]

PushedFrame == [serial_no : Serials, command : Nat]

\* The values that the tables and the serial counters can take, and: a row has
\* an acknowledgement result exactly when it is acknowledged.
HandlerTypeOK ==
    /\ terminals \in [Phones -> TerminalRow \cup {NoRow}]
    /\ location_records \in [Phones -> Nat]
    /\ command_logs \in Seq(CommandRow)
    /\ parameter_logs \in Seq(ParameterRow)
    /\ server_serial \in [Phones -> Serials]
    /\ codes \in Codes
    /\ accepted \in [Phones -> Codes]
    /\ consumed \in [Phones -> Nat]
    /\ pushed \in [Phones -> Seq(PushedFrame)]
    /\ answered \in SUBSET Nat
    /\ unsaved \in SUBSET Nat
    /\ restarts \in Nat
    /\ \A i \in 1..Len(command_logs) :
         command_logs[i].acked <=> command_logs[i].ack_result # NoResult

\* A terminal shown as authenticated has presented the code of its latest
\* registration: a new registration withdraws what an older code had proved,
\* also across restarts and failed commits.
AuthenticatedByCurrentCode ==
    \A p \in Phones :
        (terminals[p] # NoRow /\ terminals[p].authenticated)
          => /\ terminals[p].auth_code # NoCode
             /\ accepted[p] = terminals[p].auth_code

\* Every parameter set in the parameter log has a row with its serial number in
\* the command log, so that its acknowledgement can be recorded.
SetsAreTracked ==
    \A i \in 1..Len(parameter_logs) :
        parameter_logs[i].direction = "set" =>
            \E j \in 1..Len(command_logs) :
                /\ command_logs[j].phone = parameter_logs[i].phone
                /\ command_logs[j].serial_no = parameter_logs[i].serial_no

\* The command log tells which commands were acknowledged: only a command that
\* the terminal has answered is marked.
AckedIsAnswered ==
    \A i \in 1..Len(command_logs) : command_logs[i].acked => i \in answered

\* An answered command is marked, unless storing an answer to it has failed; the
\* row is then pending until the terminal answers again.
AnsweredIsAcked ==
    \A i \in answered \ unsaved : command_logs[i].acked

\* No serial number of a terminal has been used twice: the process was not
\* restarted and the counter has not come round.
NoReuse == restarts = 0 /\ \A p \in Phones : consumed[p] <= SerialMod

\* As long as no serial number is used twice, answers that come late, out of
\* order, again, after one that could not be stored, or to a frame that is not
\* a command mark what they answer and nothing else.
AcksMatchAnswers == NoReuse => AckedIsAnswered /\ AnsweredIsAcked

\* An acknowledged command is never changed again, and no row of the command
\* log is removed or given another phone or serial number.
AckedIsFinal ==
    [][\A i \in 1..Len(command_logs) :
         /\ command_logs'[i].phone = command_logs[i].phone
         /\ command_logs'[i].serial_no = command_logs[i].serial_no
         /\ command_logs[i].acked => command_logs'[i] = command_logs[i]
      ]_handlerVars

=============================================================================
