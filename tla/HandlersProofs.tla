--------------------------- MODULE HandlersProofs ---------------------------
(***************************************************************************)
(* Proofs about Handlers for any phone numbers, any width of the serial    *)
(* numbers and any bounds.                                                 *)
(***************************************************************************)
EXTENDS Handlers, SequenceTheorems, TLAPS

-----------------------------------------------------------------------------
(* Serial numbers and sequences *)

\* What the remainder does to the serial numbers: it comes round to 0 once.
LEMMA SerialSuccessor ==
    ASSUME NEW s \in Serials
    PROVE  /\ (s + 1) % SerialMod \in Serials
           /\ (s + 1) % SerialMod = IF s + 1 = SerialMod THEN 0 ELSE s + 1
<1>1. CASE s + 1 = SerialMod
  BY <1>1, SerialAssumption DEF Serials
<1>2. CASE s + 1 < SerialMod
  BY <1>2, SerialAssumption DEF Serials
<1> QED
  BY <1>1, <1>2, SerialAssumption DEF Serials

\* What _srv_serial leaves behind.
LEMMA TakenSerial ==
    ASSUME HandlerTypeOK, NEW p \in Phones, TakeSerial(p)
    PROVE  /\ NextSerial(p) \in Serials
           /\ server_serial' = [server_serial EXCEPT ![p] = NextSerial(p)]
           /\ server_serial' \in [Phones -> Serials]
           /\ consumed' = [consumed EXCEPT ![p] = @ + 1]
           /\ consumed' \in [Phones -> Nat]
<1>1. server_serial[p] \in Serials
  BY DEF HandlerTypeOK
<1>2. NextSerial(p) \in Serials
  BY <1>1, SerialSuccessor DEF NextSerial
<1> QED
  BY <1>2 DEF TakeSerial, HandlerTypeOK

\* A sequence after a row was appended.
LEMMA Appended ==
    ASSUME NEW S, NEW seq \in Seq(S), NEW e \in S
    PROVE  /\ Append(seq, e) \in Seq(S)
           /\ Len(Append(seq, e)) = Len(seq) + 1
           /\ \A i \in 1..Len(seq) : Append(seq, e)[i] = seq[i]
           /\ Append(seq, e)[Len(seq) + 1] = e
  OBVIOUS

\* A sequence after a row was replaced.
LEMMA Replaced ==
    ASSUME NEW S, NEW seq \in Seq(S), NEW n \in 1..Len(seq), NEW e \in S,
           NEW new, new = [seq EXCEPT ![n] = e]
    PROVE  /\ new \in Seq(S)
           /\ Len(new) = Len(seq)
           /\ \A i \in 1..Len(seq) : new[i] = IF i = n THEN e ELSE seq[i]
  BY ExceptSeq

-----------------------------------------------------------------------------
(* Type correctness *)

LEMMA TouchedType ==
    ASSUME HandlerTypeOK, NEW p \in Phones
    PROVE  /\ Touched(p) \in [Phones -> TerminalRow \cup {NoRow}]
           /\ Touched(p)[p] \in TerminalRow
  BY BoundAssumption
  DEF HandlerTypeOK, Touched, NewTerminal, TerminalRow, NoCode, Codes

LEMMA LoggedCommand ==
    ASSUME HandlerTypeOK, NEW p \in Phones, NEW serial \in Serials,
           LogCommand(p, serial)
    PROVE  /\ command_logs' \in Seq(CommandRow)
           /\ Len(command_logs') = Len(command_logs) + 1
           /\ \A i \in 1..Len(command_logs) : command_logs'[i] = command_logs[i]
           /\ command_logs'[Len(command_logs) + 1] =
                [phone |-> p, serial_no |-> serial,
                 acked |-> FALSE, ack_result |-> NoResult]
<1> DEFINE row == [phone |-> p, serial_no |-> serial,
                   acked |-> FALSE, ack_result |-> NoResult]
<1>1. row \in CommandRow
  BY DEF CommandRow
<1>2. command_logs \in Seq(CommandRow) /\ command_logs' = Append(command_logs, row)
  BY DEF HandlerTypeOK, LogCommand
<1> HIDE DEF row
<1>3. /\ command_logs' \in Seq(CommandRow)
      /\ Len(command_logs') = Len(command_logs) + 1
      /\ \A i \in 1..Len(command_logs) : command_logs'[i] = command_logs[i]
      /\ command_logs'[Len(command_logs) + 1] = row
  BY <1>1, <1>2, Appended
<1> QED
  BY <1>3 DEF row

LEMMA LoggedParameters ==
    ASSUME HandlerTypeOK, NEW p \in Phones, NEW direction \in {"set", "get"},
           NEW serial \in Serials \cup {NoSerial},
           LogParameters(p, direction, serial)
    PROVE  /\ parameter_logs' \in Seq(ParameterRow)
           /\ Len(parameter_logs') = Len(parameter_logs) + 1
           /\ \A i \in 1..Len(parameter_logs) :
                parameter_logs'[i] = parameter_logs[i]
           /\ parameter_logs'[Len(parameter_logs) + 1] =
                [phone |-> p, direction |-> direction, serial_no |-> serial]
<1> DEFINE row == [phone |-> p, direction |-> direction, serial_no |-> serial]
<1>1. row \in ParameterRow
  BY DEF ParameterRow
<1>2. /\ parameter_logs \in Seq(ParameterRow)
      /\ parameter_logs' = Append(parameter_logs, row)
  BY DEF HandlerTypeOK, LogParameters
<1> HIDE DEF row
<1>3. /\ parameter_logs' \in Seq(ParameterRow)
      /\ Len(parameter_logs') = Len(parameter_logs) + 1
      /\ \A i \in 1..Len(parameter_logs) : parameter_logs'[i] = parameter_logs[i]
      /\ parameter_logs'[Len(parameter_logs) + 1] = row
  BY <1>1, <1>2, Appended
<1> QED
  BY <1>3 DEF row

LEMMA PushedFrameLemma ==
    ASSUME HandlerTypeOK, NEW p \in Phones, NEW command \in Nat,
           NextSerial(p) \in Serials, PushFrame(p, command)
    PROVE  /\ pushed' \in [Phones -> Seq(PushedFrame)]
           /\ \A q \in Phones \ {p} : pushed'[q] = pushed[q]
           /\ Len(pushed'[p]) = Len(pushed[p]) + 1
           /\ \A k \in 1..Len(pushed[p]) : pushed'[p][k] = pushed[p][k]
           /\ pushed'[p][Len(pushed[p]) + 1] =
                [serial_no |-> NextSerial(p), command |-> command]
<1> DEFINE frame == [serial_no |-> NextSerial(p), command |-> command]
<1>1. frame \in PushedFrame
  BY DEF PushedFrame
<1>2. pushed \in [Phones -> Seq(PushedFrame)]
  BY DEF HandlerTypeOK
<1>3. pushed' = [pushed EXCEPT ![p] = Append(@, frame)]
  BY DEF PushFrame
<1>4. pushed[p] \in Seq(PushedFrame)
  BY <1>2
<1> HIDE DEF frame
<1>5. /\ Append(pushed[p], frame) \in Seq(PushedFrame)
      /\ Len(Append(pushed[p], frame)) = Len(pushed[p]) + 1
      /\ \A k \in 1..Len(pushed[p]) : Append(pushed[p], frame)[k] = pushed[p][k]
      /\ Append(pushed[p], frame)[Len(pushed[p]) + 1] = frame
  BY <1>1, <1>4, Appended
<1>6. /\ pushed' \in [Phones -> Seq(PushedFrame)]
      /\ pushed'[p] = Append(pushed[p], frame)
      /\ \A q \in Phones \ {p} : pushed'[q] = pushed[q]
  BY <1>2, <1>3, <1>5
<1> QED
  BY <1>5, <1>6 DEF frame

\* What the two endpoints that log a command leave behind.
LEMMA PushedCommand ==
    ASSUME HandlerTypeOK, NEW p \in Phones, TakeSerial(p),
           LogCommand(p, NextSerial(p)), PushFrame(p, Len(command_logs) + 1)
    PROVE  /\ command_logs' \in Seq(CommandRow)
           /\ pushed' \in [Phones -> Seq(PushedFrame)]
           /\ \A i \in 1..Len(command_logs') :
                command_logs'[i].acked <=> command_logs'[i].ack_result # NoResult
<1>1. /\ NextSerial(p) \in Serials
      /\ Len(command_logs) \in Nat
      /\ Len(command_logs) + 1 \in Nat
  BY TakenSerial DEF HandlerTypeOK
<1>2. pushed' \in [Phones -> Seq(PushedFrame)]
  BY <1>1, PushedFrameLemma
<1>3. /\ command_logs' \in Seq(CommandRow)
      /\ Len(command_logs') = Len(command_logs) + 1
      /\ \A i \in 1..Len(command_logs) : command_logs'[i] = command_logs[i]
      /\ command_logs'[Len(command_logs) + 1] =
           [phone |-> p, serial_no |-> NextSerial(p),
            acked |-> FALSE, ack_result |-> NoResult]
  BY <1>1, LoggedCommand
<1>4. /\ command_logs'[Len(command_logs) + 1].acked = FALSE
      /\ command_logs'[Len(command_logs) + 1].ack_result = NoResult
  BY <1>3
<1>5. \A i \in 1..Len(command_logs') :
        i \in 1..Len(command_logs) \/ i = Len(command_logs) + 1
  BY <1>1, <1>3
<1>6. \A i \in 1..Len(command_logs') :
        command_logs'[i].acked <=> command_logs'[i].ack_result # NoResult
  <2> TAKE i \in 1..Len(command_logs')
  <2>1. CASE i \in 1..Len(command_logs)
    BY <2>1, <1>3 DEF HandlerTypeOK
  <2>2. CASE i = Len(command_logs) + 1
    BY <2>2, <1>4
  <2> QED
    BY <1>5, <2>1, <2>2
<1> QED
  BY <1>2, <1>3, <1>6

\* What marking a pending row does to the command log.
LEMMA MarkedCommand ==
    ASSUME HandlerTypeOK, NEW j \in 1..Len(command_logs), NEW result \in Results,
           command_logs' = [command_logs EXCEPT ![j].acked = TRUE,
                                                ![j].ack_result = result]
    PROVE  /\ command_logs' \in Seq(CommandRow)
           /\ Len(command_logs') = Len(command_logs)
           /\ \A i \in 1..Len(command_logs) :
                i # j => command_logs'[i] = command_logs[i]
           /\ command_logs'[j].phone = command_logs[j].phone
           /\ command_logs'[j].serial_no = command_logs[j].serial_no
           /\ command_logs'[j].acked
           /\ command_logs'[j].ack_result = result
<1> DEFINE row == [command_logs[j] EXCEPT !.acked = TRUE, !.ack_result = result]
<1>1. command_logs \in Seq(CommandRow) /\ command_logs[j] \in CommandRow
  BY DEF HandlerTypeOK
<1>2. row \in CommandRow
  BY <1>1 DEF CommandRow
<1>3. /\ row.phone = command_logs[j].phone
      /\ row.serial_no = command_logs[j].serial_no
      /\ row.acked
      /\ row.ack_result = result
  BY <1>1 DEF CommandRow
<1>4. command_logs' = [command_logs EXCEPT ![j] = row]
  BY <1>1
<1> HIDE DEF row
<1>5. /\ command_logs' \in Seq(CommandRow)
      /\ Len(command_logs') = Len(command_logs)
      /\ \A i \in 1..Len(command_logs) :
            command_logs'[i] = IF i = j THEN row ELSE command_logs[i]
  BY ONLY <1>1, <1>2, <1>4, j \in 1..Len(command_logs), Replaced
<1> QED
  BY <1>3, <1>5

\* The types of the rows of the logs, one at a time.
LEMMA RowTypes ==
    ASSUME HandlerTypeOK
    PROVE  /\ \A j \in 1..Len(command_logs) :
                /\ command_logs[j].phone \in Phones
                /\ command_logs[j].serial_no \in Serials
           /\ \A q \in Phones : \A k \in 1..Len(pushed[q]) :
                /\ pushed[q][k].serial_no \in Serials
                /\ pushed[q][k].command \in Nat
<1>1. \A j \in 1..Len(command_logs) : command_logs[j] \in CommandRow
  BY DEF HandlerTypeOK
<1>2. ASSUME NEW q \in Phones, NEW k \in 1..Len(pushed[q])
      PROVE  pushed[q][k] \in PushedFrame
  <2>1. pushed[q] \in Seq(PushedFrame)
    BY DEF HandlerTypeOK
  <2> QED
    BY <2>1, ElementOfSeq
<1> QED
  BY <1>1, <1>2 DEF CommandRow, PushedFrame

LEMMA HandlerTypeInit == HandlerInit => HandlerTypeOK
  BY SerialAssumption, BoundAssumption
  DEF HandlerInit, HandlerTypeOK, Serials, Codes, NoCode

LEMMA HandlerTypeStep ==
    HandlerTypeOK /\ [HandlerNext]_handlerVars => HandlerTypeOK'
<1> SUFFICES ASSUME HandlerTypeOK, [HandlerNext]_handlerVars
             PROVE  HandlerTypeOK'
  OBVIOUS
<1> USE DEF HandlerTypeOK, tables, serials
<1>1. ASSUME NEW p \in Phones, AnswerOnly(p)
      PROVE  HandlerTypeOK'
  BY <1>1, TouchedType, TakenSerial DEF AnswerOnly
<1>2. ASSUME NEW p \in Phones, HandleRegistration(p)
      PROVE  HandlerTypeOK'
  <2>1. codes + 1 \in Codes
    BY <1>2, BoundAssumption DEF HandleRegistration, Codes, NoCode
  <2>2. terminals' \in [Phones -> TerminalRow \cup {NoRow}]
    BY <1>2, <2>1 DEF HandleRegistration, TerminalRow
  <2> QED
    BY <1>2, <2>1, <2>2, TakenSerial DEF HandleRegistration
<1>3. ASSUME NEW p \in Phones, NEW code \in 1..codes \cup {WrongCode},
             HandleAuthentication(p, code)
      PROVE  HandlerTypeOK'
  <2> DEFINE matches == Touched(p)[p].auth_code = code
  <2>1. matches => code \in Codes
    BY TouchedType DEF TerminalRow
  <2>2. terminals' \in [Phones -> TerminalRow \cup {NoRow}]
    <3>1. Touched(p)[p].authenticated \in BOOLEAN
      BY TouchedType DEF TerminalRow
    <3>2. [Touched(p)[p] EXCEPT !.authenticated = matches \/ @] \in TerminalRow
      BY <3>1, TouchedType DEF TerminalRow
    <3>3. terminals' = [Touched(p) EXCEPT ![p] =
                          [Touched(p)[p] EXCEPT !.authenticated = matches \/ @]]
      BY <1>3, TouchedType DEF HandleAuthentication
    <3> QED
      BY <3>2, <3>3, TouchedType
  <2>3. accepted' \in [Phones -> Codes]
    BY <1>3, <2>1 DEF HandleAuthentication
  <2> QED
    BY <1>3, <2>2, <2>3, TakenSerial DEF HandleAuthentication
<1>4. ASSUME NEW p \in Phones, HandleLocationReport(p)
      PROVE  HandlerTypeOK'
  <2>1. /\ server_serial' \in [Phones -> Serials]
        /\ consumed' \in [Phones -> Nat]
    BY <1>4, TakenSerial DEF HandleLocationReport
  <2>2. /\ terminals' \in [Phones -> TerminalRow \cup {NoRow}]
        /\ location_records' \in [Phones -> Nat]
    BY <1>4, TouchedType DEF HandleLocationReport
  <2> QED
    BY <1>4, <2>1, <2>2, SMTT(30) DEF HandleLocationReport
<1>5. ASSUME NEW p \in Phones, NEW k \in 1..Len(pushed[p]),
             NEW result \in Results, HandleTerminalAck(p, k, result)
      PROVE  HandlerTypeOK'
  <2>1. pushed[p][k] \in PushedFrame
    OBVIOUS
  <2>2. answered' \in SUBSET Nat
    BY <1>5, <2>1 DEF HandleTerminalAck, PushedFrame
  <2>3. CASE UNCHANGED command_logs
    BY <1>5, <2>2, <2>3, TouchedType DEF HandleTerminalAck
  <2>4. ASSUME NEW j \in Pending(p, pushed[p][k].serial_no),
               command_logs' = [command_logs EXCEPT ![j].acked = TRUE,
                                                    ![j].ack_result = result]
        PROVE  HandlerTypeOK'
    <3>1. j \in 1..Len(command_logs)
      BY DEF Pending
    <3>2. /\ command_logs' \in Seq(CommandRow)
          /\ Len(command_logs') = Len(command_logs)
          /\ \A i \in 1..Len(command_logs) :
               i # j => command_logs'[i] = command_logs[i]
          /\ command_logs'[j].acked
          /\ command_logs'[j].ack_result = result
      BY <2>4, <3>1, MarkedCommand
    <3>3. \A i \in 1..Len(command_logs') :
            command_logs'[i].acked <=> command_logs'[i].ack_result # NoResult
      BY <3>2, NoResultAssumption
    <3> QED
      BY <1>5, <2>2, <3>2, <3>3, TouchedType DEF HandleTerminalAck
  <2> QED
    BY <1>5, <2>3, <2>4 DEF HandleTerminalAck
<1>6. ASSUME NEW p \in Phones, HandleParamsResponse(p)
      PROVE  HandlerTypeOK'
  BY <1>6, TouchedType, LoggedParameters DEF HandleParamsResponse
<1>7. ASSUME NEW p \in Phones, HandlerRaises(p)
      PROVE  HandlerTypeOK'
  BY <1>7, TouchedType DEF HandlerRaises
<1>8. ASSUME NEW p \in Phones, SendControlCommand(p)
      PROVE  HandlerTypeOK'
  BY <1>8, TakenSerial, PushedCommand DEF SendControlCommand
<1>9. ASSUME NEW p \in Phones, SetParameters(p)
       PROVE  HandlerTypeOK'
  BY <1>9, TakenSerial, PushedCommand, LoggedParameters DEF SetParameters
<1>10. ASSUME NEW p \in Phones, QueryParameters(p)
       PROVE  HandlerTypeOK'
  BY <1>10, TakenSerial, LoggedParameters, PushedFrameLemma
  DEF QueryParameters, NoCommand
<1>11. ASSUME NEW p \in Phones, EndpointRaises(p)
       PROVE  HandlerTypeOK'
  BY <1>11, TakenSerial DEF EndpointRaises
<1>12. CASE ServerRestart
  BY <1>12, SerialAssumption DEF ServerRestart, Serials
<1>13. ASSUME NEW p \in Phones, NEW k \in 1..Len(pushed[p]),
              TerminalAckFails(p, k)
       PROVE  HandlerTypeOK'
  <2>1. pushed[p][k] \in PushedFrame
    OBVIOUS
  <2>2. answered' \in SUBSET Nat /\ unsaved' \in SUBSET Nat
    BY <1>13, <2>1 DEF TerminalAckFails, PushedFrame
  <2>3. terminals' \in [Phones -> TerminalRow \cup {NoRow}]
    BY <1>13, TouchedType DEF TerminalAckFails
  <2> QED
    BY <1>13, <2>2, <2>3 DEF TerminalAckFails
<1>14. CASE UNCHANGED handlerVars
  BY <1>14 DEF handlerVars
<1> QED
  BY <1>1, <1>2, <1>3, <1>4, <1>5, <1>6, <1>7, <1>8, <1>9, <1>10, <1>11, <1>12,
     <1>13, <1>14
  DEF HandlerNext, HandleMessage, Endpoint, Command

\* The tables, the counters and the history always have values of their types,
\* and the three acknowledgement fields of a row change together.
THEOREM HandlerTypeCorrect == HandlerSpec => []HandlerTypeOK
  BY HandlerTypeInit, HandlerTypeStep, PTL DEF HandlerSpec

-----------------------------------------------------------------------------
(* Authentication *)

LEMMA AuthenticationStep ==
    HandlerTypeOK /\ AuthenticatedByCurrentCode /\ [HandlerNext]_handlerVars
      => AuthenticatedByCurrentCode'
<1> SUFFICES ASSUME HandlerTypeOK, AuthenticatedByCurrentCode,
                    [HandlerNext]_handlerVars
             PROVE  AuthenticatedByCurrentCode'
  OBVIOUS
<1> USE DEF AuthenticatedByCurrentCode
<1>1. terminals \in [Phones -> TerminalRow \cup {NoRow}]
  BY DEF HandlerTypeOK
<1>2. ASSUME NEW p \in Phones
      PROVE  \A q \in Phones :
               Touched(p)[q].authenticated /\ Touched(p)[q] # NoRow =>
                 /\ Touched(p)[q] = terminals[q]
                 /\ Touched(p)[q].auth_code # NoCode
                 /\ accepted[q] = Touched(p)[q].auth_code
  <2> TAKE q \in Phones
  <2>1. CASE q = p /\ terminals[p] = NoRow
    BY <1>1, <2>1 DEF Touched, NewTerminal
  <2>2. CASE ~(q = p /\ terminals[p] = NoRow)
    BY <1>1, <2>2 DEF Touched
  <2> QED
    BY <2>1, <2>2
<1>3. ASSUME NEW p \in Phones, terminals' = Touched(p), UNCHANGED accepted
      PROVE  AuthenticatedByCurrentCode'
  BY <1>2, <1>3
<1>4. ASSUME UNCHANGED <<terminals, accepted>>
      PROVE  AuthenticatedByCurrentCode'
  BY <1>4
<1>5. ASSUME NEW p \in Phones, HandleRegistration(p)
      PROVE  AuthenticatedByCurrentCode'
  <2>1. ~terminals'[p].authenticated
    BY <1>1, <1>5 DEF HandleRegistration
  <2>2. \A q \in Phones \ {p} : terminals'[q] = terminals[q]
    BY <1>1, <1>5 DEF HandleRegistration
  <2> QED
    BY <1>5, <2>1, <2>2 DEF HandleRegistration
<1>6. ASSUME NEW p \in Phones, NEW code \in 1..codes \cup {WrongCode},
             HandleAuthentication(p, code)
      PROVE  AuthenticatedByCurrentCode'
  <2> DEFINE row == Touched(p)[p]
             matches == row.auth_code = code
  <2>1. row \in TerminalRow /\ Touched(p) \in [Phones -> TerminalRow \cup {NoRow}]
    BY TouchedType
  <2>2. code # NoCode
    BY BoundAssumption DEF HandlerTypeOK, Codes, NoCode, WrongCode
  <2>3. \A q \in Phones \ {p} : /\ terminals'[q] = Touched(p)[q]
                                /\ accepted'[q] = accepted[q]
    BY <1>6, <2>1 DEF HandleAuthentication, HandlerTypeOK
  <2>4. terminals'[p].auth_code = row.auth_code
    BY <1>6, <2>1 DEF HandleAuthentication, TerminalRow
  <2>5. CASE matches
    <3>1. accepted'[p] = code
      BY <1>6, <2>5 DEF HandleAuthentication, HandlerTypeOK
    <3> QED
      BY <1>2, <2>2, <2>3, <2>4, <2>5, <3>1
  <2>6. CASE ~matches
    <3>1. row.authenticated \in BOOLEAN
      BY <2>1 DEF TerminalRow
    <3>2. terminals'[p] = [row EXCEPT !.authenticated = matches \/ @]
      BY <1>6, <2>1 DEF HandleAuthentication
    <3>3. terminals'[p].authenticated = row.authenticated
      BY <2>1, <2>6, <3>1, <3>2 DEF TerminalRow
    <3>4. accepted' = accepted
      BY <1>6, <2>6 DEF HandleAuthentication
    <3>5. row # NoRow
      BY <2>1, NoRowAssumption DEF TerminalRow, Codes, NoCode
    <3> QED
      BY <1>2, <2>3, <2>4, <3>3, <3>4, <3>5
  <2> QED
    BY <2>5, <2>6
<1> QED
  BY <1>3, <1>4, <1>5, <1>6
  DEF HandlerNext, HandleMessage, Endpoint, Command, AnswerOnly, HandleLocationReport,
      HandleTerminalAck, TerminalAckFails, HandleParamsResponse, HandlerRaises,
      SendControlCommand, SetParameters, QueryParameters, EndpointRaises,
      ServerRestart, handlerVars, tables

\* A terminal shown as authenticated has presented the code of its latest
\* registration, however registrations, authentications with old codes, failed
\* commits and restarts follow each other.
THEOREM AuthenticationIsCurrent ==
    HandlerSpec => []AuthenticatedByCurrentCode
<1>1. HandlerInit => AuthenticatedByCurrentCode
  BY DEF HandlerInit, AuthenticatedByCurrentCode
<1> QED
  BY <1>1, AuthenticationStep, HandlerTypeCorrect, PTL DEF HandlerSpec

-----------------------------------------------------------------------------
(* The command log only grows, and an acknowledged row is final *)

\* The three things that a step can do to the command log.
LEMMA CommandLogStep ==
    ASSUME HandlerNext
    PROVE  \/ UNCHANGED command_logs
           \/ \E p \in Phones : TakeSerial(p) /\ LogCommand(p, NextSerial(p))
           \/ \E p \in Phones, k \in Nat, result \in Results :
                \E j \in Pending(p, pushed[p][k].serial_no) :
                   command_logs' = [command_logs EXCEPT ![j].acked = TRUE,
                                                        ![j].ack_result = result]
  BY DEF HandlerNext, HandleMessage, Endpoint, Command, AnswerOnly, HandleRegistration,
      HandleAuthentication, HandleLocationReport, HandleTerminalAck,
      TerminalAckFails, HandleParamsResponse, HandlerRaises, SendControlCommand, SetParameters,
      QueryParameters, EndpointRaises, ServerRestart, tables

\* No acknowledgement, however late or repeated, changes a row of the command
\* log that is acknowledged already, and nothing changes what a row is about.
THEOREM AckedStaysFinal == HandlerSpec => AckedIsFinal
<1> DEFINE Kept ==
      \A i \in 1..Len(command_logs) :
         /\ command_logs'[i].phone = command_logs[i].phone
         /\ command_logs'[i].serial_no = command_logs[i].serial_no
         /\ command_logs[i].acked => command_logs'[i] = command_logs[i]
<1>1. HandlerTypeOK /\ [HandlerNext]_handlerVars => [Kept]_handlerVars
  <2> SUFFICES ASSUME HandlerTypeOK, HandlerNext
               PROVE  Kept
    OBVIOUS
  <2>1. CASE UNCHANGED command_logs
    BY <2>1
  <2>2. ASSUME NEW p \in Phones, TakeSerial(p), LogCommand(p, NextSerial(p))
        PROVE  Kept
    BY <2>2, TakenSerial, LoggedCommand
  <2>3. ASSUME NEW p \in Phones, NEW k \in Nat, NEW result \in Results,
               NEW j \in Pending(p, pushed[p][k].serial_no),
               command_logs' = [command_logs EXCEPT ![j].acked = TRUE,
                                                    ![j].ack_result = result]
        PROVE  Kept
    <3>1. j \in 1..Len(command_logs) /\ ~command_logs[j].acked
      BY DEF Pending
    <3>2. /\ \A i \in 1..Len(command_logs) :
               i # j => command_logs'[i] = command_logs[i]
          /\ command_logs'[j].phone = command_logs[j].phone
          /\ command_logs'[j].serial_no = command_logs[j].serial_no
      BY <2>3, <3>1, MarkedCommand
    <3> QED
      BY <3>1, <3>2
  <2> QED
    BY CommandLogStep, <2>1, <2>2, <2>3
<1> QED
  BY <1>1, HandlerTypeCorrect, PTL DEF HandlerSpec, AckedIsFinal

-----------------------------------------------------------------------------
(* Acknowledgements mark the command they answer *)

\* Serial number s has been taken for p, as long as none was taken twice.
Used(p, s) == s \in 1..consumed[p] \/ (s = 0 /\ consumed[p] = SerialMod)

\* Every pushed command is in the log under the serial number it carries.
PushedIsLogged ==
    /\ answered \subseteq 1..Len(command_logs)
    /\ \A p \in Phones : \A k \in 1..Len(pushed[p]) :
         LET frame == pushed[p][k]
         IN  frame.command # NoCommand =>
               /\ frame.command \in 1..Len(command_logs)
               /\ command_logs[frame.command].phone = p
               /\ command_logs[frame.command].serial_no = frame.serial_no

\* The counter still counts the serial numbers taken.
CounterIsExact ==
    \A p \in Phones :
        server_serial[p] = IF consumed[p] = SerialMod THEN 0 ELSE consumed[p]

\* A logged command shares its serial number with the frame that carried it
\* only.
SerialsAreDistinct ==
    /\ \A j \in 1..Len(command_logs) :
         Used(command_logs[j].phone, command_logs[j].serial_no)
    /\ \A p \in Phones : \A k \in 1..Len(pushed[p]) :
         /\ Used(p, pushed[p][k].serial_no)
         /\ \A j \in 1..Len(command_logs) :
              /\ command_logs[j].phone = p
              /\ command_logs[j].serial_no = pushed[p][k].serial_no
              => j = pushed[p][k].command

\* What the marks say of the answers.
AcksAnswer == AckedIsAnswered /\ AnsweredIsAcked

\* The inductive invariant: a mark is right because the serial number of an
\* answer leads to one row only.
AckInvariant ==
    /\ PushedIsLogged
    /\ NoReuse => CounterIsExact /\ SerialsAreDistinct /\ AcksAnswer

\* Taking a serial number, as long as none was taken twice, takes a new one.
LEMMA FreshSerial ==
    ASSUME HandlerTypeOK, NEW p \in Phones, TakeSerial(p), UNCHANGED restarts,
           NoReuse', NoReuse => CounterIsExact
    PROVE  /\ NoReuse
           /\ CounterIsExact'
           /\ ~Used(p, NextSerial(p))
           /\ \A s : s = NextSerial(p) => Used(p, s)'
           /\ \A q \in Phones, s \in Serials : Used(q, s) => Used(q, s)'
<1>1. /\ consumed \in [Phones -> Nat]
      /\ consumed' = [consumed EXCEPT ![p] = @ + 1]
      /\ server_serial \in [Phones -> Serials]
      /\ server_serial' = [server_serial EXCEPT ![p] = NextSerial(p)]
      /\ NextSerial(p) \in Serials
  BY TakenSerial DEF HandlerTypeOK
<1>2. /\ \A q \in Phones : consumed'[q] <= SerialMod
      /\ consumed'[p] = consumed[p] + 1
      /\ \A q \in Phones \ {p} : consumed'[q] = consumed[q]
  BY <1>1 DEF NoReuse
<1>3. consumed[p] < SerialMod /\ NoReuse
  BY <1>1, <1>2, SerialAssumption DEF NoReuse
<1>4. server_serial[p] = consumed[p] /\ consumed[p] \in Serials
  BY <1>1, <1>3, SerialAssumption DEF CounterIsExact, Serials
<1>5. NextSerial(p) =
        IF consumed[p] + 1 = SerialMod THEN 0 ELSE consumed[p] + 1
  BY <1>4, SerialSuccessor DEF NextSerial
<1>6. CounterIsExact'
  BY <1>1, <1>2, <1>3, <1>5 DEF CounterIsExact
<1>7. \A q \in Phones, s \in Serials : Used(q, s) => Used(q, s)'
  BY <1>1, <1>2, <1>3, SerialAssumption DEF Used, Serials
<1>8. /\ ~Used(p, NextSerial(p))
      /\ \A s : s = NextSerial(p) => Used(p, s)'
  BY <1>1, <1>2, <1>3, <1>5, SerialAssumption DEF Used
<1> QED
  BY <1>3, <1>6, <1>7, <1>8

LEMMA AckInit == HandlerInit => AckInvariant
  BY SerialAssumption
  DEF HandlerInit, AckInvariant, PushedIsLogged, CounterIsExact,
      SerialsAreDistinct, AcksAnswer, AckedIsAnswered, AnsweredIsAcked

\* A step that touches neither the logs nor what was pushed; it may take a
\* serial number.
LEMMA AckOther ==
    ASSUME HandlerTypeOK, AckInvariant,
           UNCHANGED <<command_logs, pushed, answered, unsaved, restarts>>,
           UNCHANGED <<server_serial, consumed>>
             \/ \E p \in Phones : TakeSerial(p)
    PROVE  AckInvariant'
<1>1. PushedIsLogged'
  BY DEF AckInvariant, PushedIsLogged
<1>2. CASE UNCHANGED <<server_serial, consumed>>
  BY <1>1, <1>2
  DEF AckInvariant, NoReuse, CounterIsExact, SerialsAreDistinct,
      AcksAnswer, AckedIsAnswered, AnsweredIsAcked, Used
<1>3. ASSUME NEW p \in Phones, TakeSerial(p), NoReuse'
      PROVE  CounterIsExact' /\ SerialsAreDistinct' /\ AcksAnswer'
  <2>1. /\ NoReuse
        /\ CounterIsExact'
        /\ \A q \in Phones, s \in Serials : Used(q, s) => Used(q, s)'
    BY <1>3, FreshSerial DEF AckInvariant
  <2>2. /\ \A j \in 1..Len(command_logs) : /\ command_logs[j].phone \in Phones
                                           /\ command_logs[j].serial_no \in Serials
        /\ \A q \in Phones : \A k \in 1..Len(pushed[q]) :
             pushed[q][k].serial_no \in Serials
    BY RowTypes
  <2>3. SerialsAreDistinct'
    BY <2>1, <2>2 DEF AckInvariant, SerialsAreDistinct
  <2> QED
    BY <2>1, <2>3
    DEF AckInvariant, AcksAnswer, AckedIsAnswered, AnsweredIsAcked
<1> QED
  BY <1>1, <1>2, <1>3 DEF AckInvariant

\* A query is pushed under a serial number that no command has.
LEMMA AckQuery ==
    ASSUME HandlerTypeOK, AckInvariant, NEW p \in Phones, TakeSerial(p),
           PushFrame(p, NoCommand),
           UNCHANGED <<command_logs, answered, unsaved, restarts>>
    PROVE  AckInvariant'
<1>1. /\ NextSerial(p) \in Serials
      /\ \A q \in Phones \ {p} : pushed'[q] = pushed[q]
      /\ Len(pushed'[p]) = Len(pushed[p]) + 1
      /\ \A k \in 1..Len(pushed[p]) : pushed'[p][k] = pushed[p][k]
      /\ pushed'[p][Len(pushed[p]) + 1] =
           [serial_no |-> NextSerial(p), command |-> NoCommand]
  BY TakenSerial, PushedFrameLemma DEF NoCommand
<1>2. pushed'[p][Len(pushed[p]) + 1].serial_no = NextSerial(p)
      /\ pushed'[p][Len(pushed[p]) + 1].command = NoCommand
  BY <1>1
<1>3. \A q \in Phones : Len(pushed[q]) \in Nat
  BY DEF HandlerTypeOK
<1>4. \A q \in Phones : \A k \in 1..Len(pushed'[q]) :
        \/ k \in 1..Len(pushed[q]) /\ pushed'[q][k] = pushed[q][k]
        \/ /\ q = p
           /\ pushed'[q][k].serial_no = NextSerial(p)
           /\ pushed'[q][k].command = NoCommand
  BY <1>1, <1>2, <1>3
<1>5. PushedIsLogged'
  BY <1>4, SMTT(30) DEF AckInvariant, PushedIsLogged
<1>6. ASSUME NoReuse'
      PROVE  CounterIsExact' /\ SerialsAreDistinct' /\ AcksAnswer'
  <2>1. /\ NoReuse
        /\ CounterIsExact'
        /\ ~Used(p, NextSerial(p))
        /\ \A s : s = NextSerial(p) => Used(p, s)'
        /\ \A q \in Phones, s \in Serials : Used(q, s) => Used(q, s)'
    BY <1>6, FreshSerial DEF AckInvariant
  <2>2. /\ \A j \in 1..Len(command_logs) : /\ command_logs[j].phone \in Phones
                                           /\ command_logs[j].serial_no \in Serials
        /\ \A q \in Phones : \A k \in 1..Len(pushed[q]) :
             pushed[q][k].serial_no \in Serials
    BY RowTypes
  <2>3. \A j \in 1..Len(command_logs) :
          Used(command_logs[j].phone, command_logs[j].serial_no)'
    BY <2>1, <2>2 DEF AckInvariant, SerialsAreDistinct
  <2>4. ASSUME NEW q \in Phones, NEW k \in 1..Len(pushed'[q])
        PROVE  /\ Used(q, pushed[q][k].serial_no)'
               /\ \A j \in 1..Len(command_logs) :
                    /\ command_logs[j].phone = q
                    /\ command_logs[j].serial_no = pushed'[q][k].serial_no
                    => j = pushed'[q][k].command
    <3>1. CASE k \in 1..Len(pushed[q]) /\ pushed'[q][k] = pushed[q][k]
      BY <2>1, <2>2, <3>1 DEF AckInvariant, SerialsAreDistinct
    <3>2. CASE q = p /\ pushed'[q][k].serial_no = NextSerial(p)
      BY <2>1, <2>2, <3>2 DEF AckInvariant, SerialsAreDistinct
    <3> QED
      BY <1>4, <3>1, <3>2
  <2>5. SerialsAreDistinct'
    BY <2>3, <2>4 DEF SerialsAreDistinct
  <2> QED
    BY <2>1, <2>5
    DEF AckInvariant, AcksAnswer, AckedIsAnswered, AnsweredIsAcked
<1> QED
  BY <1>5, <1>6 DEF AckInvariant

\* A command is logged and pushed under a serial number of its own.
LEMMA AckCommand ==
    ASSUME HandlerTypeOK, AckInvariant, NEW p \in Phones, TakeSerial(p),
           LogCommand(p, NextSerial(p)), PushFrame(p, Len(command_logs) + 1),
           UNCHANGED <<answered, unsaved, restarts>>
    PROVE  AckInvariant'
<1> DEFINE new == Len(command_logs) + 1
<1>1. /\ NextSerial(p) \in Serials
      /\ Len(command_logs) \in Nat
      /\ new \in Nat
      /\ \A q \in Phones : Len(pushed[q]) \in Nat
  BY TakenSerial DEF HandlerTypeOK
<1>2. /\ \A q \in Phones \ {p} : pushed'[q] = pushed[q]
      /\ Len(pushed'[p]) = Len(pushed[p]) + 1
      /\ \A k \in 1..Len(pushed[p]) : pushed'[p][k] = pushed[p][k]
      /\ pushed'[p][Len(pushed[p]) + 1] =
           [serial_no |-> NextSerial(p), command |-> new]
  BY <1>1, PushedFrameLemma
<1>3. /\ Len(command_logs') = new
      /\ \A i \in 1..Len(command_logs) : command_logs'[i] = command_logs[i]
      /\ command_logs'[new] =
           [phone |-> p, serial_no |-> NextSerial(p),
            acked |-> FALSE, ack_result |-> NoResult]
  BY <1>1, LoggedCommand
<1>4. /\ command_logs'[new].phone = p
      /\ command_logs'[new].serial_no = NextSerial(p)
      /\ command_logs'[new].acked = FALSE
      /\ pushed'[p][Len(pushed[p]) + 1].serial_no = NextSerial(p)
      /\ pushed'[p][Len(pushed[p]) + 1].command = new
  BY <1>2, <1>3
<1> HIDE DEF new
<1>5. \A q \in Phones : \A k \in 1..Len(pushed'[q]) :
        \/ k \in 1..Len(pushed[q]) /\ pushed'[q][k] = pushed[q][k]
        \/ /\ q = p
           /\ pushed'[q][k].serial_no = NextSerial(p)
           /\ pushed'[q][k].command = new
  BY <1>1, <1>2, <1>4, SMTT(30)
<1>6. \A j \in 1..Len(command_logs') : j \in 1..Len(command_logs) \/ j = new
  BY <1>1, <1>3 DEF new
<1>7. /\ new \in 1..Len(command_logs')
      /\ new \notin 1..Len(command_logs)
      /\ new \notin answered
      /\ \A i \in 1..Len(command_logs) : i \in 1..Len(command_logs')
  BY <1>1, <1>3 DEF new, AckInvariant, PushedIsLogged
<1>8. PushedIsLogged'
  <2>1. answered' \subseteq 1..Len(command_logs')
    BY <1>7 DEF AckInvariant, PushedIsLogged
  <2>2. ASSUME NEW q \in Phones, NEW k \in 1..Len(pushed'[q]),
               pushed'[q][k].command # NoCommand
        PROVE  /\ pushed'[q][k].command \in 1..Len(command_logs')
               /\ command_logs'[pushed'[q][k].command].phone = q
               /\ command_logs'[pushed'[q][k].command].serial_no =
                    pushed'[q][k].serial_no
    <3>1. CASE k \in 1..Len(pushed[q]) /\ pushed'[q][k] = pushed[q][k]
      BY <1>3, <1>7, <2>2, <3>1 DEF AckInvariant, PushedIsLogged
    <3>2. CASE /\ q = p
               /\ pushed'[q][k].serial_no = NextSerial(p)
               /\ pushed'[q][k].command = new
      BY <1>4, <1>7, <3>2
    <3> QED
      BY <1>5, <3>1, <3>2
  <2> QED
    BY <2>1, <2>2 DEF PushedIsLogged
<1>9. ASSUME NoReuse'
      PROVE  CounterIsExact' /\ SerialsAreDistinct' /\ AcksAnswer'
  <2>1. /\ NoReuse
        /\ CounterIsExact'
        /\ ~Used(p, NextSerial(p))
        /\ \A s : s = NextSerial(p) => Used(p, s)'
        /\ \A q \in Phones, s \in Serials : Used(q, s) => Used(q, s)'
    BY <1>9, FreshSerial DEF AckInvariant
  <2>2. /\ \A j \in 1..Len(command_logs) : /\ command_logs[j].phone \in Phones
                                           /\ command_logs[j].serial_no \in Serials
        /\ \A q \in Phones : \A k \in 1..Len(pushed[q]) :
             pushed[q][k].serial_no \in Serials
    BY RowTypes
  <2>3. ASSUME NEW j \in 1..Len(command_logs')
        PROVE  Used(command_logs[j].phone, command_logs[j].serial_no)'
    <3>1. CASE j \in 1..Len(command_logs)
      BY <1>3, <2>1, <2>2, <3>1 DEF AckInvariant, SerialsAreDistinct
    <3>2. CASE j = new
      BY <1>4, <2>1, <3>2
    <3> QED
      BY <1>6, <3>1, <3>2
  <2>4. ASSUME NEW q \in Phones, NEW k \in 1..Len(pushed'[q])
        PROVE  /\ Used(q, pushed[q][k].serial_no)'
               /\ \A j \in 1..Len(command_logs') :
                    /\ command_logs'[j].phone = q
                    /\ command_logs'[j].serial_no = pushed'[q][k].serial_no
                    => j = pushed'[q][k].command
    <3>1. CASE k \in 1..Len(pushed[q]) /\ pushed'[q][k] = pushed[q][k]
      <4>1. Used(q, pushed[q][k].serial_no)
        BY <2>1, <3>1 DEF AckInvariant, SerialsAreDistinct
      <4>2. Used(q, pushed[q][k].serial_no)'
        BY <2>1, <2>2, <3>1, <4>1
      <4>3. ~(q = p /\ pushed[q][k].serial_no = NextSerial(p))
        BY <2>1, <4>1
      <4> QED
        BY <1>3, <1>4, <1>6, <2>1, <3>1, <4>2, <4>3
        DEF AckInvariant, SerialsAreDistinct
    <3>2. CASE /\ q = p
               /\ pushed'[q][k].serial_no = NextSerial(p)
               /\ pushed'[q][k].command = new
      <4>1. \A j \in 1..Len(command_logs) :
              command_logs[j].phone = p => command_logs[j].serial_no # NextSerial(p)
        BY <2>1 DEF AckInvariant, SerialsAreDistinct
      <4> QED
        BY <1>3, <1>6, <2>1, <3>2, <4>1
    <3> QED
      BY <1>5, <3>1, <3>2
  <2>5. SerialsAreDistinct'
    BY <2>3, <2>4 DEF SerialsAreDistinct
  <2>6. ASSUME NEW i \in 1..Len(command_logs')
        PROVE  /\ command_logs'[i].acked => i \in answered'
               /\ i \in answered' \ unsaved' => command_logs'[i].acked
    <3>1. CASE i \in 1..Len(command_logs)
      BY <1>3, <2>1, <3>1
      DEF AckInvariant, AcksAnswer, AckedIsAnswered, AnsweredIsAcked
    <3>2. CASE i = new
      BY <1>4, <1>7, <3>2
    <3> QED
      BY <1>6, <3>1, <3>2
  <2> QED
    BY <1>8, <2>1, <2>5, <2>6
    DEF PushedIsLogged, AcksAnswer, AckedIsAnswered, AnsweredIsAcked
<1> QED
  BY <1>8, <1>9 DEF AckInvariant

\* An answer finds the row of the command it answers, or none.
LEMMA AckAnswer ==
    ASSUME HandlerTypeOK, AckInvariant, NEW p \in Phones,
           NEW k \in 1..Len(pushed[p]), NEW result \in Results,
           HandleTerminalAck(p, k, result)
    PROVE  AckInvariant'
<1> DEFINE frame == pushed[p][k]
<1>1. /\ frame.serial_no \in Serials
      /\ frame.command \in Nat
      /\ frame.command # NoCommand =>
           /\ frame.command \in 1..Len(command_logs)
           /\ command_logs[frame.command].phone = p
           /\ command_logs[frame.command].serial_no = frame.serial_no
  BY RowTypes DEF AckInvariant, PushedIsLogged
<1>2. /\ UNCHANGED <<pushed, unsaved, restarts, server_serial, consumed>>
      /\ answered' = answered \cup ({frame.command} \ {NoCommand})
  BY DEF HandleTerminalAck, serials
<1>3. PICK marked \in SUBSET Pending(p, frame.serial_no) :
        /\ Len(command_logs') = Len(command_logs)
        /\ marked = {} => Pending(p, frame.serial_no) = {}
        /\ \A i \in 1..Len(command_logs) :
             /\ command_logs'[i].phone = command_logs[i].phone
             /\ command_logs'[i].serial_no = command_logs[i].serial_no
             /\ i \notin marked => command_logs'[i] = command_logs[i]
             /\ i \in marked => command_logs'[i].acked
  <2>1. CASE Pending(p, frame.serial_no) = {} /\ UNCHANGED command_logs
    <3> WITNESS {} \in SUBSET Pending(p, frame.serial_no)
    <3> QED
      BY <2>1
  <2>2. ASSUME NEW j \in Pending(p, frame.serial_no),
               command_logs' = [command_logs EXCEPT ![j].acked = TRUE,
                                                    ![j].ack_result = result]
        PROVE  \E marked \in SUBSET Pending(p, frame.serial_no) :
                 /\ Len(command_logs') = Len(command_logs)
                 /\ marked = {} => Pending(p, frame.serial_no) = {}
                 /\ \A i \in 1..Len(command_logs) :
                      /\ command_logs'[i].phone = command_logs[i].phone
                      /\ command_logs'[i].serial_no = command_logs[i].serial_no
                      /\ i \notin marked => command_logs'[i] = command_logs[i]
                      /\ i \in marked => command_logs'[i].acked
    <3>1. j \in 1..Len(command_logs)
      BY DEF Pending
    <3>2. /\ Len(command_logs') = Len(command_logs)
          /\ \A i \in 1..Len(command_logs) :
               i # j => command_logs'[i] = command_logs[i]
          /\ command_logs'[j].phone = command_logs[j].phone
          /\ command_logs'[j].serial_no = command_logs[j].serial_no
          /\ command_logs'[j].acked
      BY <2>2, <3>1, MarkedCommand
    <3> WITNESS {j} \in SUBSET Pending(p, frame.serial_no)
    <3> QED
      BY <3>2
  <2> QED
    BY <2>1, <2>2 DEF HandleTerminalAck
<1>4. PushedIsLogged'
  <2>1. Len(command_logs) \in Nat
    BY DEF HandlerTypeOK
  <2>2. answered' \subseteq 1..Len(command_logs')
    BY <1>1, <1>2, <1>3, <2>1 DEF AckInvariant, PushedIsLogged
  <2>3. ASSUME NEW q \in Phones, NEW n \in 1..Len(pushed[q]),
               pushed[q][n].command # NoCommand
        PROVE  /\ pushed[q][n].command \in 1..Len(command_logs')
               /\ command_logs'[pushed[q][n].command].phone = q
               /\ command_logs'[pushed[q][n].command].serial_no =
                    pushed[q][n].serial_no
    <3>1. /\ pushed[q][n].command \in 1..Len(command_logs)
          /\ command_logs[pushed[q][n].command].phone = q
          /\ command_logs[pushed[q][n].command].serial_no = pushed[q][n].serial_no
      BY <2>3 DEF AckInvariant, PushedIsLogged
    <3> QED
      BY <1>3, <3>1
  <2> QED
    BY <1>2, <2>2, <2>3 DEF PushedIsLogged
<1>5. ASSUME NoReuse'
      PROVE  CounterIsExact' /\ SerialsAreDistinct' /\ AcksAnswer'
  <2>1. NoReuse /\ CounterIsExact' /\ SerialsAreDistinct /\ AcksAnswer
    BY <1>2, <1>5 DEF AckInvariant, NoReuse, CounterIsExact
  <2>2. SerialsAreDistinct'
    BY <1>2, <1>3, <2>1, SMTT(30) DEF SerialsAreDistinct, Used
  <2>3. \A j \in Pending(p, frame.serial_no) : j = frame.command
    BY <2>1 DEF Pending, SerialsAreDistinct
  <2>4. \A j \in marked : j = frame.command
    BY <1>3, <2>3
  <2>5. ASSUME NEW i \in 1..Len(command_logs)
        PROVE  /\ command_logs'[i].acked => i \in answered'
               /\ i \in answered' \ unsaved' => command_logs'[i].acked
    <3>1. CASE i \in marked
      BY <1>2, <1>3, <2>4, <3>1 DEF NoCommand
    <3>2. CASE i \notin marked /\ i # frame.command
      BY <1>2, <1>3, <2>1, <3>2 DEF AcksAnswer, AckedIsAnswered, AnsweredIsAcked
    <3>3. CASE i \notin marked /\ i = frame.command
      <4>1. marked = {}
        BY <2>4, <3>3
      <4>2. command_logs[i].acked
        BY <1>1, <1>3, <3>3, <4>1 DEF Pending, NoCommand
      <4> QED
        BY <1>2, <1>3, <3>3, <4>2 DEF NoCommand
    <3> QED
      BY <3>1, <3>2, <3>3
  <2> QED
    BY <1>3, <1>4, <2>1, <2>2, <2>5
    DEF PushedIsLogged, AcksAnswer, AckedIsAnswered, AnsweredIsAcked
<1> QED
  BY <1>4, <1>5 DEF AckInvariant

\* An answer that cannot be stored leaves the row of its command as it was.
LEMMA AckFails ==
    ASSUME HandlerTypeOK, AckInvariant, NEW p \in Phones,
           NEW k \in 1..Len(pushed[p]), TerminalAckFails(p, k)
    PROVE  AckInvariant'
<1> DEFINE command == {pushed[p][k].command} \ {NoCommand}
<1>1. command \subseteq 1..Len(command_logs)
  BY RowTypes DEF AckInvariant, PushedIsLogged
<1>2. /\ UNCHANGED <<command_logs, pushed, restarts, server_serial, consumed>>
      /\ answered' = answered \cup command
      /\ unsaved' = unsaved \cup command
  BY DEF TerminalAckFails, serials
<1> HIDE DEF command
<1>3. PushedIsLogged'
  BY <1>1, <1>2 DEF AckInvariant, PushedIsLogged
<1>4. ASSUME NoReuse'
      PROVE  CounterIsExact' /\ SerialsAreDistinct' /\ AcksAnswer'
  <2>1. NoReuse /\ AcksAnswer
    BY <1>2, <1>4 DEF AckInvariant, NoReuse
  <2>2. CounterIsExact' /\ SerialsAreDistinct'
    BY <1>2, <2>1 DEF AckInvariant, CounterIsExact, SerialsAreDistinct, Used
  <2>3. AcksAnswer'
    BY <1>2, <2>1 DEF AcksAnswer, AckedIsAnswered, AnsweredIsAcked
  <2> QED
    BY <2>2, <2>3
<1> QED
  BY <1>3, <1>4 DEF AckInvariant

LEMMA AckStep ==
    HandlerTypeOK /\ AckInvariant /\ [HandlerNext]_handlerVars => AckInvariant'
<1> SUFFICES ASSUME HandlerTypeOK, AckInvariant, [HandlerNext]_handlerVars
             PROVE  AckInvariant'
  OBVIOUS
<1>1. ASSUME NEW p \in Phones,
             \/ AnswerOnly(p)
             \/ HandleRegistration(p)
             \/ \E code \in 1..codes \cup {WrongCode} :
                   HandleAuthentication(p, code)
             \/ HandleLocationReport(p)
             \/ HandleParamsResponse(p)
             \/ HandlerRaises(p)
             \/ EndpointRaises(p)
      PROVE  AckInvariant'
  BY <1>1, AckOther
  DEF AnswerOnly, HandleRegistration, HandleAuthentication,
      HandleLocationReport, HandleParamsResponse, HandlerRaises,
      EndpointRaises, tables, serials
<1>2. ASSUME NEW p \in Phones, SendControlCommand(p) \/ SetParameters(p)
      PROVE  AckInvariant'
  BY <1>2, AckCommand DEF SendControlCommand, SetParameters
<1>3. ASSUME NEW p \in Phones, QueryParameters(p)
      PROVE  AckInvariant'
  BY <1>3, AckQuery DEF QueryParameters
<1>4. CASE ServerRestart
  BY <1>4
  DEF ServerRestart, HandlerTypeOK, AckInvariant, PushedIsLogged, NoReuse, tables
<1>5. CASE UNCHANGED handlerVars
  BY <1>5, AckOther DEF handlerVars, tables, serials
<1> QED
  BY <1>1, <1>2, <1>3, <1>4, <1>5, AckAnswer, AckFails
  DEF HandlerNext, HandleMessage, Endpoint, Command

\* Until the process restarts or the counter of a terminal comes round, the
\* command log marks only commands that the terminal has answered, and leaves an
\* answered one unmarked only when an answer to it could not be stored, whatever
\* the order and the repetitions of the answers.
THEOREM AcksMarkTheirCommands == HandlerSpec => []AcksMatchAnswers
<1>1. AckInvariant => AcksMatchAnswers
  BY DEF AckInvariant, AcksAnswer, AcksMatchAnswers
<1> QED
  BY <1>1, AckInit, AckStep, HandlerTypeCorrect, PTL DEF HandlerSpec

-----------------------------------------------------------------------------
(* The two logs *)

\* Rows of the command log keep their phone number and serial number.
LEMMA CommandRowsStay ==
    ASSUME HandlerTypeOK, HandlerNext
    PROVE  /\ Len(command_logs) \in Nat
           /\ Len(command_logs) <= Len(command_logs')
           /\ \A i \in 1..Len(command_logs) :
                /\ command_logs'[i].phone = command_logs[i].phone
                /\ command_logs'[i].serial_no = command_logs[i].serial_no
<1>1. Len(command_logs) \in Nat
  BY DEF HandlerTypeOK
<1>2. CASE UNCHANGED command_logs
  BY <1>1, <1>2
<1>3. ASSUME NEW p \in Phones, TakeSerial(p), LogCommand(p, NextSerial(p))
      PROVE  /\ Len(command_logs) <= Len(command_logs')
             /\ \A i \in 1..Len(command_logs) : command_logs'[i] = command_logs[i]
  <2>1. NextSerial(p) \in Serials
    BY <1>3, TakenSerial
  <2>2. /\ Len(command_logs') = Len(command_logs) + 1
        /\ \A i \in 1..Len(command_logs) : command_logs'[i] = command_logs[i]
    BY <1>3, <2>1, LoggedCommand
  <2> QED
    BY <1>1, <2>2
<1>4. ASSUME NEW p \in Phones, NEW k \in Nat, NEW result \in Results,
             NEW j \in Pending(p, pushed[p][k].serial_no),
             command_logs' = [command_logs EXCEPT ![j].acked = TRUE,
                                                  ![j].ack_result = result]
      PROVE  /\ Len(command_logs) <= Len(command_logs')
             /\ \A i \in 1..Len(command_logs) :
                  /\ command_logs'[i].phone = command_logs[i].phone
                  /\ command_logs'[i].serial_no = command_logs[i].serial_no
  <2>1. j \in 1..Len(command_logs)
    BY DEF Pending
  <2> QED
    BY <1>1, <1>4, <2>1, MarkedCommand
<1> QED
  BY <1>1, <1>2, <1>3, <1>4, CommandLogStep

\* What a step does to the parameter log: a set is logged together with a
\* command of the same phone number and serial number.
LEMMA ParameterLogStep ==
    ASSUME HandlerTypeOK, HandlerNext
    PROVE  \/ UNCHANGED parameter_logs
           \/ \E p \in Phones, serial \in Serials \cup {NoSerial} :
                LogParameters(p, "get", serial)
           \/ \E p \in Phones : /\ TakeSerial(p)
                                /\ LogParameters(p, "set", NextSerial(p))
                                /\ LogCommand(p, NextSerial(p))
<1>1. ASSUME NEW p \in Phones, QueryParameters(p)
      PROVE  \E serial \in Serials \cup {NoSerial} : LogParameters(p, "get", serial)
  BY <1>1, TakenSerial DEF QueryParameters
<1>2. ASSUME NEW p \in Phones, HandleParamsResponse(p)
      PROVE  \E serial \in Serials \cup {NoSerial} : LogParameters(p, "get", serial)
  BY <1>2 DEF HandleParamsResponse
<1> QED
  BY <1>1, <1>2
  DEF HandlerNext, HandleMessage, Endpoint, Command, AnswerOnly,
      HandleRegistration, HandleAuthentication, HandleLocationReport,
      HandleTerminalAck, TerminalAckFails, HandlerRaises, SendControlCommand,
      SetParameters,
      EndpointRaises, ServerRestart, tables

\* A parameter set that is logged can be acknowledged: the command log has its
\* row, whatever commits fail.
THEOREM SetsStayTracked == HandlerSpec => []SetsAreTracked
<1> DEFINE Tracked(row, log) ==
      \E j \in 1..Len(log) :
         log[j].phone = row.phone /\ log[j].serial_no = row.serial_no
<1>1. HandlerInit => SetsAreTracked
  BY DEF HandlerInit, SetsAreTracked
<1>2. HandlerTypeOK /\ SetsAreTracked /\ [HandlerNext]_handlerVars
        => SetsAreTracked'
  <2> SUFFICES ASSUME HandlerTypeOK, SetsAreTracked, HandlerNext
               PROVE  SetsAreTracked'
    BY DEF SetsAreTracked, handlerVars, tables
  <2>1. Len(parameter_logs) \in Nat /\ Len(command_logs) \in Nat
    BY DEF HandlerTypeOK
  <2>2. \A i \in 1..Len(parameter_logs) :
          parameter_logs[i].direction = "set"
            => Tracked(parameter_logs[i], command_logs')
    BY CommandRowsStay DEF SetsAreTracked
  <2>3. CASE UNCHANGED parameter_logs
    BY <2>2, <2>3 DEF SetsAreTracked
  <2>4. ASSUME NEW p \in Phones, NEW serial \in Serials \cup {NoSerial},
               LogParameters(p, "get", serial)
        PROVE  SetsAreTracked'
    <3>1. /\ Len(parameter_logs') = Len(parameter_logs) + 1
          /\ \A i \in 1..Len(parameter_logs) :
               parameter_logs'[i] = parameter_logs[i]
          /\ parameter_logs'[Len(parameter_logs) + 1] =
               [phone |-> p, direction |-> "get", serial_no |-> serial]
      BY ONLY HandlerTypeOK, <2>4, LoggedParameters
    <3>2. \A i \in 1..Len(parameter_logs') :
            i \in 1..Len(parameter_logs) \/ i = Len(parameter_logs) + 1
      BY <2>1, <3>1
    <3>3. parameter_logs'[Len(parameter_logs) + 1].direction # "set"
      BY <3>1
    <3>4. \A i \in 1..Len(parameter_logs') :
            parameter_logs'[i].direction = "set"
              => Tracked(parameter_logs'[i], command_logs')
      BY <2>2, <3>1, <3>2, <3>3
    <3> QED
      BY <3>4 DEF SetsAreTracked
  <2>5. ASSUME NEW p \in Phones, TakeSerial(p),
               LogParameters(p, "set", NextSerial(p)),
               LogCommand(p, NextSerial(p))
        PROVE  SetsAreTracked'
    <3>1. NextSerial(p) \in Serials
      BY <2>5, TakenSerial
    <3>2. /\ Len(parameter_logs') = Len(parameter_logs) + 1
          /\ \A i \in 1..Len(parameter_logs) :
               parameter_logs'[i] = parameter_logs[i]
          /\ parameter_logs'[Len(parameter_logs) + 1] =
               [phone |-> p, direction |-> "set", serial_no |-> NextSerial(p)]
      BY ONLY HandlerTypeOK, <2>5, <3>1, LoggedParameters
    <3>3. /\ Len(command_logs') = Len(command_logs) + 1
          /\ command_logs'[Len(command_logs) + 1] =
               [phone |-> p, serial_no |-> NextSerial(p),
                acked |-> FALSE, ack_result |-> NoResult]
      BY ONLY HandlerTypeOK, <2>5, <3>1, LoggedCommand
    <3>4. Tracked(parameter_logs'[Len(parameter_logs) + 1], command_logs')
      BY <2>1, <3>2, <3>3
    <3>5. \A i \in 1..Len(parameter_logs') :
            i \in 1..Len(parameter_logs) \/ i = Len(parameter_logs) + 1
      BY <2>1, <3>2
    <3>6. \A i \in 1..Len(parameter_logs') :
            parameter_logs'[i].direction = "set"
              => Tracked(parameter_logs'[i], command_logs')
      BY <2>2, <3>2, <3>4, <3>5
    <3> QED
      BY <3>6 DEF SetsAreTracked
  <2> QED
    BY <2>3, <2>4, <2>5, ParameterLogStep
<1> QED
  BY <1>1, <1>2, HandlerTypeCorrect, PTL DEF HandlerSpec

=============================================================================
