--------------------------- MODULE Jt808ServerProofs ---------------------------
(***************************************************************************)
(* Proofs about TcpServer, for any sets of connections, phone numbers and  *)
(* requests, and about Jt808Server, for any bounds as well: it implements  *)
(* TcpServer and Handlers, and what the server stores agrees with what the *)
(* terminals have read.                                                    *)
(***************************************************************************)
EXTENDS Jt808Server, HandlersProofs

\* Every action of a connection, of the network and of the API, by name: the
\* cases of the invariance proofs below.
LEMMA StepCases ==
    ASSUME TcpNext
    PROVE  \/ \E c \in Conns : \/ Accept(c)
                               \/ \E n \in 0..MaxChunk : ReadChunk(c, n)
                               \/ ChunkDone(c)
                               \/ DiscardFrame(c)
                               \/ \E p \in Phones, kind \in FrameKinds :
                                     Dispatch(c, p, kind)
                               \/ Finish(c) /\ Live(c)
                               \/ Stall(c)
                               \/ Unstall(c)
                               \/ Lose(c)
           \/ \E r \in Requests, p \in Phones : Push(r, p)
           \/ \E r \in Requests : SendFails(r)
           \/ Restart
  BY DEF TcpNext, Connection, ReadAndClose, Network, Api, ParseRaises, HasFrame, IdleTimeout,
         PeerCloses, ReadRaises, Live

-----------------------------------------------------------------------------
(* TcpServer: type correctness *)

LEMMA TcpTypeInit == TcpInit => TcpTypeOK
  BY MaxChunkAssumption
  DEF TcpInit, TcpTypeOK, Writers, TaskStates, TransportStates, RequestType

LEMMA TcpTypeStep == TcpTypeOK /\ [TcpNext]_tcpVars => TcpTypeOK'
<1> SUFFICES ASSUME TcpTypeOK, [TcpNext]_tcpVars
             PROVE  TcpTypeOK'
  OBVIOUS
<1> USE NoneAssumption, SpeaksAssumption, MaxChunkAssumption
    DEF TcpTypeOK, Writers, TaskStates, TransportStates
<1>1. ASSUME NEW c \in Conns, Accept(c)
      PROVE  TcpTypeOK'
  BY <1>1 DEF Accept, history
<1>2. ASSUME NEW c \in Conns, NEW n \in 0..MaxChunk, ReadChunk(c, n)
      PROVE  TcpTypeOK'
  BY <1>2 DEF ReadChunk, history
<1>3. ASSUME NEW c \in Conns, ChunkDone(c)
      PROVE  TcpTypeOK'
  BY <1>3 DEF ChunkDone, history
<1>4. ASSUME NEW c \in Conns, DiscardFrame(c)
      PROVE  TcpTypeOK'
  BY <1>4 DEF DiscardFrame, TakeFrame, HasFrame, history
<1>5. ASSUME NEW c \in Conns, NEW p \in Phones, NEW kind \in FrameKinds,
             Dispatch(c, p, kind)
      PROVE  TcpTypeOK'
  <2>1. InFlightElsewhere(p, c) \in BOOLEAN
    BY DEF InFlightElsewhere
  <2>2. connections' \in [Phones -> Writers] /\ lastSpoke' \in [Phones -> Writers]
    BY <1>5 DEF Dispatch, Register
  <2>3. contested' \in [Phones -> BOOLEAN]
    BY <1>5, <2>1 DEF Dispatch
  <2>4. /\ phone' \in [Conns -> Phones \cup {None}]
        /\ frames' \in [Conns -> 0..MaxChunk]
        /\ task' \in [Conns -> TaskStates]
        /\ \A d \in Conns :
             /\ task'[d] \in {"absent", "reading", "closed"} => frames'[d] = 0
             /\ task'[d] = "draining" => transport[d] = "stalled"
             /\ task'[d] = "absent" <=> transport[d] = "absent"
    BY <1>5 DEF Dispatch, TakeFrame, HasFrame
  <2> QED
    BY <1>5, <2>2, <2>3, <2>4 DEF Dispatch
<1>6. ASSUME NEW c \in Conns, Finish(c), Live(c)
      PROVE  TcpTypeOK'
  BY <1>6 DEF Finish, Unregister, Live, history
<1>7. ASSUME NEW c \in Conns, Stall(c)
      PROVE  TcpTypeOK'
  BY <1>7 DEF Stall, history
<1>8. ASSUME NEW c \in Conns, Unstall(c)
      PROVE  TcpTypeOK'
  BY <1>8 DEF Unstall, LeaveDrain, RequestType, history
<1>9. ASSUME NEW c \in Conns, Lose(c)
      PROVE  TcpTypeOK'
  <2>1. request' \in [Requests -> RequestType]
    BY <1>9 DEF Lose, WaitingOn, RequestType, IdleRequest
  <2> QED
    BY <1>9, <2>1 DEF Lose, LeaveDrain, history
<1>10. ASSUME NEW r \in Requests, NEW p \in Phones, Push(r, p)
       PROVE  TcpTypeOK'
  <2>1. connections[p] \in Conns
    BY <1>10 DEF Push, IsOnline
  <2>2. request' \in [Requests -> RequestType]
    BY <1>10, <2>1 DEF Push, RequestType
  <2> QED
    BY <1>10, <2>2 DEF Push, history
<1>11. ASSUME NEW r \in Requests, SendFails(r)
       PROVE  TcpTypeOK'
  BY <1>11 DEF SendFails, Unregister, RequestType, IdleRequest, history
<1>12. CASE Restart
  BY <1>12 DEF Restart, RequestType
<1>13. CASE UNCHANGED tcpVars
  BY <1>13 DEF tcpVars, history
<1> QED
  BY StepCases, <1>1, <1>2, <1>3, <1>4, <1>5, <1>6, <1>7, <1>8, <1>9, <1>10,
     <1>11, <1>12, <1>13

\* The variables of the TCP server always have values of their types, and no
\* coroutine sleeps in drain() on a transport that would not wake it.
THEOREM TcpTypeCorrect == TcpSpec => []TcpTypeOK
  BY TcpTypeInit, TcpTypeStep, PTL DEF TcpSpec

-----------------------------------------------------------------------------
(* The writer found for a phone number *)

LEMMA CurrentStep ==
    TcpTypeOK /\ RouteIsCurrent /\ [TcpNext]_tcpVars => RouteIsCurrent'
<1> SUFFICES ASSUME TcpTypeOK, RouteIsCurrent, [TcpNext]_tcpVars
             PROVE  RouteIsCurrent'
  OBVIOUS
<1> USE DEF TcpTypeOK, RouteIsCurrent
<1>1. ASSUME NEW c \in Conns, NEW p \in Phones, NEW kind \in FrameKinds,
             Dispatch(c, p, kind)
      PROVE  RouteIsCurrent'
  BY <1>1 DEF Dispatch, Register
<1>2. ASSUME NEW c \in Conns, Finish(c)
      PROVE  RouteIsCurrent'
  BY <1>2 DEF Finish, Unregister, history
<1>3. ASSUME NEW r \in Requests, SendFails(r)
      PROVE  RouteIsCurrent'
  BY <1>3 DEF SendFails, Unregister, history
<1>4. CASE Restart
  BY <1>4 DEF Restart
<1>5. ASSUME UNCHANGED <<connections, lastSpoke>>
      PROVE  RouteIsCurrent'
  BY <1>5
<1> QED
  BY StepCases, <1>1, <1>2, <1>3, <1>4, <1>5
  DEF Accept, ReadChunk, ChunkDone, DiscardFrame, Stall, Unstall, Lose, Push,
      tcpVars, history

\* A push is never written to a connection on which the terminal spoke before
\* it spoke on another one.
THEOREM PushesFollowTheTerminal == TcpSpec => []RouteIsCurrent
<1>1. TcpInit => RouteIsCurrent
  BY DEF TcpInit, RouteIsCurrent
<1> QED
  BY <1>1, CurrentStep, TcpTypeCorrect, PTL DEF TcpSpec

-----------------------------------------------------------------------------
(* What finally leaves in the directory *)

\* The same, writer by writer.
LeftByWriter ==
    \A p \in Phones, d \in Conns :
        connections[p] = d => Live(d) \/ phone[d] # p

\* Each step keeps the entries right: a coroutine that ends takes the entry of
\* the phone number it last spoke for along.
LEMMA LeftStep == TcpTypeOK /\ LeftByWriter /\ [TcpNext]_tcpVars => LeftByWriter'
<1> SUFFICES ASSUME TcpTypeOK, LeftByWriter, [TcpNext]_tcpVars,
                    NEW q \in Phones, NEW d \in Conns, connections'[q] = d
             PROVE  Live(d)' \/ phone'[d] # q
  BY DEF LeftByWriter
<1> USE NoneAssumption DEF TcpTypeOK, Writers
<1>1. connections[q] = d => Live(d) \/ phone[d] # q
  BY DEF LeftByWriter
<1>2. ASSUME NEW c \in Conns, NEW p \in Phones, NEW kind \in FrameKinds,
             Dispatch(c, p, kind)
      PROVE  Live(d)' \/ phone'[d] # q
  <2>1. Live(d)' <=> Live(d)
    BY <1>2 DEF Dispatch, TakeFrame, HasFrame, Live
  <2>2. Live(c) /\ (d # c => phone'[d] = phone[d])
    BY <1>2 DEF Dispatch, TakeFrame, HasFrame, Live
  <2>3. d = c \/ connections[q] = d
    BY <1>2 DEF Dispatch, Register
  <2> QED
    BY <1>1, <2>1, <2>2, <2>3
<1>3. ASSUME NEW c \in Conns, Finish(c)
      PROVE  Live(d)' \/ phone'[d] # q
  <2>1. connections[q] = d /\ (phone[c] # None => phone[c] # q)
    BY <1>3 DEF Finish, Unregister
  <2>2. phone' = phone /\ (d # c => (Live(d)' <=> Live(d)))
    BY <1>3 DEF Finish, Live
  <2> QED
    BY <1>1, <2>1, <2>2
<1>4. ASSUME NEW r \in Requests, SendFails(r)
      PROVE  Live(d)' \/ phone'[d] # q
  <2>1. connections[q] = d
    BY <1>4 DEF SendFails, Unregister
  <2> QED
    BY <1>1, <1>4, <2>1 DEF SendFails, Live
<1>5. CASE Restart
  BY <1>5 DEF Restart
<1>6. ASSUME UNCHANGED <<connections, phone>>, Live(d) => Live(d)'
      PROVE  Live(d)' \/ phone'[d] # q
  BY <1>1, <1>6
<1>7. ASSUME NEW c \in Conns,
             \/ Accept(c)
             \/ \E n \in 0..MaxChunk : ReadChunk(c, n)
             \/ ChunkDone(c)
             \/ DiscardFrame(c)
             \/ Stall(c)
             \/ Unstall(c)
             \/ Lose(c)
      PROVE  Live(d)' \/ phone'[d] # q
  BY <1>6, <1>7 DEF Accept, ReadChunk, ChunkDone, DiscardFrame, TakeFrame,
     HasFrame, Stall, Unstall, Lose, LeaveDrain, Live
<1>8. ASSUME NEW r \in Requests, NEW p \in Phones, Push(r, p)
      PROVE  Live(d)' \/ phone'[d] # q
  BY <1>6, <1>8 DEF Push, Live
<1>9. CASE UNCHANGED tcpVars
  BY <1>6, <1>9 DEF tcpVars, Live
<1> QED
  BY StepCases, <1>2, <1>3, <1>4, <1>5, <1>7, <1>8, <1>9

\* GET /terminals/online lists a terminal whose connection has ended only if
\* that connection has spoken for another terminal since.
THEOREM LeftEntriesAreOfGateways == TcpSpec => []OnlyGatewaysLeaveEntries
<1>1. TcpInit => LeftByWriter
  BY NoneAssumption DEF TcpInit, LeftByWriter
<1>2. ASSUME TcpTypeOK, LeftByWriter
      PROVE  OnlyGatewaysLeaveEntries
  <2>1. ASSUME NEW p \in Phones, connections[p] # None
        PROVE  connections[p] \in Conns
    BY <1>2, <2>1 DEF TcpTypeOK, Writers
  <2> QED
    BY <1>2, <2>1 DEF LeftByWriter, OnlyGatewaysLeaveEntries, OnlinePhones,
       IsOnline
<1> QED
  BY <1>1, <1>2, LeftStep, TcpTypeCorrect, PTL DEF TcpSpec

-----------------------------------------------------------------------------
(* An uncontested terminal is online *)

Uncontested(p) == Reachable(p) /\ ~contested[p]

\* Why nothing removes the entry of an uncontested terminal: it leads to the
\* connection it last spoke on, and no other handler and no other push holds
\* its phone number.  A push that fails held a lost connection.
UncontestedIsSafe ==
    /\ FailingIsLost
    /\ \A c \in Conns : task[c] = "absent" => phone[c] = None
    /\ \A p \in Phones : lastSpoke[p] # None => task[lastSpoke[p]] # "absent"
    /\ \A p \in Phones : Uncontested(p) =>
         /\ connections[p] = lastSpoke[p]
         /\ ~InFlightElsewhere(p, lastSpoke[p])

LEMMA SafeInit == TcpInit => UncontestedIsSafe
  BY DEF TcpInit, UncontestedIsSafe, FailingIsLost, Uncontested, Reachable,
     IdleRequest

LEMMA SafeStep ==
    TcpTypeOK /\ RouteIsCurrent /\ UncontestedIsSafe /\ [TcpNext]_tcpVars
      => UncontestedIsSafe'
<1> SUFFICES ASSUME TcpTypeOK, RouteIsCurrent, UncontestedIsSafe,
                    [TcpNext]_tcpVars
             PROVE  UncontestedIsSafe'
  OBVIOUS
<1> USE NoneAssumption
    DEF TcpTypeOK, Writers, UncontestedIsSafe, FailingIsLost, Uncontested,
        Reachable, Live, InFlightElsewhere
<1>1. ASSUME NEW c \in Conns, Accept(c)
      PROVE  UncontestedIsSafe'
  BY <1>1 DEF Accept, history, RequestType, IdleRequest
<1>2. ASSUME NEW c \in Conns,
             \/ \E n \in 0..MaxChunk : ReadChunk(c, n)
             \/ ChunkDone(c)
             \/ DiscardFrame(c)
             \/ Stall(c)
      PROVE  UncontestedIsSafe'
  BY <1>2 DEF ReadChunk, ChunkDone, DiscardFrame, TakeFrame, HasFrame, Stall,
     RequestType, IdleRequest, history
<1>3. ASSUME NEW c \in Conns, NEW p \in Phones, NEW kind \in FrameKinds,
             Dispatch(c, p, kind)
      PROVE  UncontestedIsSafe'
  BY <1>3 DEF Dispatch, TakeFrame, HasFrame, Register, FrameKinds
<1>4. ASSUME NEW c \in Conns, Finish(c), Live(c)
      PROVE  UncontestedIsSafe'
  BY <1>4 DEF Finish, Unregister, RequestType, IdleRequest, history
<1>5. ASSUME NEW c \in Conns, Unstall(c)
      PROVE  UncontestedIsSafe'
  BY <1>5 DEF Unstall, LeaveDrain, RequestType, IdleRequest, history
<1>6. ASSUME NEW c \in Conns, Lose(c)
      PROVE  UncontestedIsSafe'
  BY <1>6 DEF Lose, LeaveDrain, WaitingOn, RequestType, IdleRequest, history
<1>7. ASSUME NEW r \in Requests, NEW p \in Phones, Push(r, p)
      PROVE  UncontestedIsSafe'
  <2>1. connections[p] \in Conns /\ connections[p] = lastSpoke[p]
    BY <1>7 DEF Push, IsOnline, RouteIsCurrent
  <2>2. \A s \in Requests :
          \/ request'[s] = request[s]
          \/ /\ request'[s].phone = p
             /\ request'[s].writer = connections[p]
             /\ request'[s].state = "failing"
                  => transport[connections[p]] = "lost"
    BY <1>7, <2>1 DEF Push, TransportStates
  <2>3. UNCHANGED <<connections, task, phone, transport, lastSpoke, contested>>
    BY <1>7 DEF Push, history
  <2> QED
    BY <2>1, <2>2, <2>3
<1>8. ASSUME NEW r \in Requests, SendFails(r)
      PROVE  UncontestedIsSafe'
  BY <1>8 DEF SendFails, Unregister, RequestType, IdleRequest, history
<1>9. CASE Restart
  BY <1>9 DEF Restart, IdleRequest
<1>10. CASE UNCHANGED tcpVars
  BY <1>10 DEF tcpVars, history
<1> QED
  BY StepCases, <1>1, <1>2, <1>3, <1>4, <1>5, <1>6, <1>7, <1>8, <1>9, <1>10

\* A terminal that spoke when nothing of its older connections was in flight
\* stays online until its connection ends or it sends 0x0003, whatever the
\* other terminals and the REST requests do.
THEOREM UncontestedStaysOnline == TcpSpec => []UncontestedIsOnline
<1>1. UncontestedIsSafe => UncontestedIsOnline
  BY DEF UncontestedIsSafe, UncontestedIsOnline, Uncontested, Reachable,
     IsOnline
<1> QED
  BY <1>1, SafeInit, SafeStep, TcpTypeCorrect, PushesFollowTheTerminal, PTL
  DEF TcpSpec

-----------------------------------------------------------------------------
(* What the liveness properties rest on *)

\* A push waits only on a transport that will wake it.
WaitingWakes ==
    \A r \in Requests :
        request[r].state = "draining" => transport[request[r].writer] = "stalled"

LEMMA WakesStep ==
    TcpTypeOK /\ WaitingWakes /\ [TcpNext]_tcpVars => WaitingWakes'
<1> SUFFICES ASSUME TcpTypeOK, WaitingWakes, [TcpNext]_tcpVars
             PROVE  WaitingWakes'
  OBVIOUS
<1> USE DEF TcpTypeOK, WaitingWakes, RequestType, IdleRequest
<1>1. ASSUME NEW c \in Conns, Accept(c)
      PROVE  WaitingWakes'
  BY <1>1 DEF Accept
<1>2. ASSUME UNCHANGED <<transport, request>>
      PROVE  WaitingWakes'
  BY <1>2
<1>3. ASSUME NEW c \in Conns, Finish(c)
      PROVE  WaitingWakes'
  BY <1>3 DEF Finish
<1>4. ASSUME NEW c \in Conns, Stall(c)
      PROVE  WaitingWakes'
  BY <1>4 DEF Stall
<1>5. ASSUME NEW c \in Conns, Unstall(c)
      PROVE  WaitingWakes'
  BY <1>5 DEF Unstall, WaitingOn
<1>6. ASSUME NEW c \in Conns, Lose(c)
      PROVE  WaitingWakes'
  BY <1>6 DEF Lose, WaitingOn
<1>7. ASSUME NEW r \in Requests, NEW p \in Phones, Push(r, p)
      PROVE  WaitingWakes'
  <2>1. connections[p] \in Conns
    BY <1>7 DEF Push, IsOnline, Writers
  <2>2. \A s \in Requests :
          \/ request'[s] = request[s]
          \/ /\ request'[s].writer = connections[p]
             /\ request'[s].state = "draining"
                  => transport[connections[p]] = "stalled"
    BY <1>7, <2>1 DEF Push, TransportStates
  <2>3. UNCHANGED transport
    BY <1>7 DEF Push
  <2> QED
    BY <2>1, <2>2, <2>3
<1>8. ASSUME NEW r \in Requests, SendFails(r)
      PROVE  WaitingWakes'
  BY <1>8 DEF SendFails
<1>9. CASE Restart
  BY <1>9 DEF Restart
<1> QED
  BY StepCases, <1>1, <1>2, <1>3, <1>4, <1>5, <1>6, <1>7, <1>8, <1>9
  DEF ReadChunk, ChunkDone, DiscardFrame, Dispatch, tcpVars

\* A push that waits in drain() waits on a stalled transport, and one that gives
\* up does so on a lost one: what PushIsAnswered needs besides fairness.
THEOREM NoPushIsStranded == TcpSpec => [](WaitingWakes /\ FailingIsLost)
<1>1. TcpInit => WaitingWakes
  BY DEF TcpInit, WaitingWakes, IdleRequest
<1>2. UncontestedIsSafe => FailingIsLost
  BY DEF UncontestedIsSafe
<1> QED
  BY <1>1, <1>2, WakesStep, SafeInit, SafeStep, TcpTypeCorrect,
     PushesFollowTheTerminal, PTL DEF TcpSpec

\* A phone number leads to a live connection, and nothing of another one that
\* could unregister it is in flight.
Held(c, p) ==
    connections[p] = c /\ Live(c) /\ ~InFlightElsewhere(p, c)

\* A route that is held stays so, unless a frame of that phone number comes, on
\* this connection or another one, the connection ends, or it is lost and a push
\* to it gives up.
HeldStep ==
    \A c \in Conns, p \in Phones :
        Held(c, p) =>
          \/ Held(c, p)'
          \/ \E d \in Conns, kind \in FrameKinds : Dispatch(d, p, kind)
          \/ ~Live(c)'
          \/ transport[c] = "lost" /\ \E r \in Requests : SendFails(r)

LEMMA HeldHolds ==
    TcpTypeOK /\ UncontestedIsSafe /\ [TcpNext]_tcpVars => HeldStep
<1> SUFFICES ASSUME TcpTypeOK, UncontestedIsSafe, [TcpNext]_tcpVars,
                    NEW c \in Conns, NEW p \in Phones, Held(c, p), Live(c)',
                    ~\E d \in Conns, kind \in FrameKinds : Dispatch(d, p, kind),
                    ~(transport[c] = "lost" /\ \E r \in Requests : SendFails(r))
             PROVE  Held(c, p)'
  BY DEF HeldStep
<1>1. /\ connections[p] = c
      /\ \A d \in Conns : d # c => ~(Live(d) /\ phone[d] = p)
      /\ \A r \in Requests : request[r].phone = p => request[r].writer = c
  BY DEF Held, InFlightElsewhere
<1> USE NoneAssumption DEF TcpTypeOK, IdleRequest
<1>2. connections'[p] = c
  <2>1. ASSUME NEW d \in Conns, NEW q \in Phones, NEW kind \in FrameKinds,
               Dispatch(d, q, kind)
        PROVE  connections'[p] = c
    BY <1>1, <2>1 DEF Dispatch, Register
  <2>2. ASSUME NEW d \in Conns, Finish(d), Live(d)
        PROVE  connections'[p] = c
    <3>1. d # c
      BY <2>2 DEF Finish, Live
    <3> QED
      BY <1>1, <2>2, <3>1 DEF Finish, Unregister
  <2>3. ASSUME NEW r \in Requests, SendFails(r)
        PROVE  connections'[p] = c
    <3>1. transport[c] # "lost"
      BY <2>3
    <3>2. request[r].phone # p
      BY <1>1, <2>3, <3>1 DEF SendFails, UncontestedIsSafe, FailingIsLost
    <3> QED
      BY <1>1, <2>3, <3>2 DEF SendFails, Unregister
  <2>4. ~Restart
    BY DEF Restart, Live
  <2>5. UNCHANGED connections => connections'[p] = c
    BY <1>1
  <2> QED
    BY StepCases, <2>1, <2>2, <2>3, <2>4, <2>5
    DEF Accept, ReadChunk, ChunkDone, DiscardFrame, Stall, Unstall, Lose, Push,
        tcpVars
<1>3. ASSUME NEW d \in Conns, d # c
      PROVE  ~(Live(d)' /\ phone'[d] = p)
  <2>1. ASSUME NEW e \in Conns, NEW q \in Phones, NEW kind \in FrameKinds,
               Dispatch(e, q, kind)
        PROVE  ~(Live(d)' /\ phone'[d] = p)
    <3>1. q # p
      BY <2>1
    <3> QED
      BY <1>1, <1>3, <2>1, <3>1 DEF Dispatch, TakeFrame, HasFrame, Live
  <2>2. ASSUME NEW e \in Conns, Accept(e)
        PROVE  ~(Live(d)' /\ phone'[d] = p)
    BY <1>1, <1>3, <2>2 DEF Accept, Live, UncontestedIsSafe
  <2>3. ASSUME UNCHANGED phone, Live(d)' => Live(d)
        PROVE  ~(Live(d)' /\ phone'[d] = p)
    BY <1>1, <1>3, <2>3
  <2>4. ~Restart
    BY DEF Restart, Live
  <2>5. ASSUME NEW e \in Conns,
               \/ \E n \in 0..MaxChunk : ReadChunk(e, n)
               \/ ChunkDone(e)
               \/ DiscardFrame(e)
               \/ Finish(e)
               \/ Stall(e)
               \/ Unstall(e)
               \/ Lose(e)
        PROVE  ~(Live(d)' /\ phone'[d] = p)
    BY <2>3, <2>5 DEF ReadChunk, ChunkDone, DiscardFrame, TakeFrame, HasFrame,
       Finish, Stall, Unstall, Lose, LeaveDrain, Live
  <2>6. ASSUME NEW r \in Requests, SendFails(r) \/ \E q \in Phones : Push(r, q)
        PROVE  ~(Live(d)' /\ phone'[d] = p)
    BY <2>3, <2>6 DEF SendFails, Push, Live
  <2>7. CASE UNCHANGED tcpVars
    BY <2>3, <2>7 DEF tcpVars, Live
  <2> QED
    BY StepCases, <2>1, <2>2, <2>4, <2>5, <2>6, <2>7
<1>4. ASSUME NEW r \in Requests, request'[r].phone = p
      PROVE  request'[r].writer = c
  <2>1. ASSUME NEW s \in Requests, NEW q \in Phones, Push(s, q)
        PROVE  request'[r].writer = c
    <3>1. \/ request'[r] = request[r]
          \/ request'[r].phone = q /\ request'[r].writer = connections[q]
      BY <2>1 DEF Push, TransportStates, IsOnline, Writers
    <3> QED
      BY <1>1, <1>4, <3>1
  <2>2. ASSUME NEW s \in Requests, SendFails(s)
        PROVE  request'[r].writer = c
    BY <1>1, <1>4, <2>2 DEF SendFails
  <2>3. ASSUME NEW d \in Conns, Unstall(d) \/ Lose(d)
        PROVE  request'[r].writer = c
    <3>1. \/ request'[r] = IdleRequest
          \/ request'[r].phone = request[r].phone /\ request'[r].writer = request[r].writer
      BY <2>3 DEF Unstall, Lose, WaitingOn, RequestType
    <3> QED
      BY <1>1, <1>4, <3>1
  <2>4. ~Restart
    BY DEF Restart, Live
  <2>5. UNCHANGED request => request'[r].writer = c
    BY <1>1, <1>4
  <2> QED
    BY StepCases, <2>1, <2>2, <2>3, <2>4, <2>5
    DEF Accept, ReadChunk, ChunkDone, DiscardFrame, Dispatch, Finish, Stall, tcpVars
<1> QED
  BY <1>2, <1>3, <1>4 DEF Held, InFlightElsewhere, Live

\* A terminal that was found again stays found (the part of
\* HeartbeatRestoresRoute that is about single steps): once the handlers of its
\* former connections have ended, only frames of its own number, the end of its
\* connection or a push to a lost one change where its commands go.
THEOREM HeldIsKept == TcpSpec => [][HeldStep]_tcpVars
  BY HeldHolds, SafeInit, SafeStep, TcpTypeCorrect, PushesFollowTheTerminal, PTL
  DEF TcpSpec

-----------------------------------------------------------------------------
(* Jt808Server: the invariant *)

WireFrames == [phone : Phones, serial_no : Serials, push : Nat, row : Nat]

LinkTypeOK ==
    /\ wire \in [Conns -> Seq(WireFrames)]
    /\ delivered \in [Phones -> SUBSET Nat]
    /\ confirmed \in [Phones -> SUBSET Nat]

\* Nothing is on the wire, and nothing has been read, that was not pushed.
PushIsKnown ==
    /\ \A c \in Conns : \A i \in 1..Len(wire[c]) :
         wire[c][i].push \in 0..Len(pushed[wire[c][i].phone])
    /\ \A p \in Phones : delivered[p] \subseteq 1..Len(pushed[p])

\* Terminals have answered only commands that they have read.
AnsweredWasRead ==
    \A n \in answered :
        \E p \in Phones : \E k \in delivered[p] : Carried(p, k, n)

ServerInv ==
    /\ TcpTypeOK
    /\ HandlerTypeOK
    /\ LinkTypeOK
    /\ PushIsKnown
    /\ AnsweredWasRead
    /\ AckInvariant
    /\ ConfirmedIsStored

-----------------------------------------------------------------------------
(* Each step is a step of both components, or leaves one of them alone *)

LEMMA StepIsTcpStep ==
    ASSUME [ServerNext]_serverVars
    PROVE  [TcpNext]_tcpVars
<1>1. CASE \E c \in Conns, p \in Phones :
             Answer(c, p) \/ AnswerLocationReport(c, p) \/ TakeSilently(c, p)
  BY <1>1
  DEF Answer, AnswerLocationReport, TakeSilently, TcpNext, Connection, FrameKinds
<1>2. CASE \E r \in Requests, p \in Phones : PushCommand(r, p) \/ PushRaises(r, p)
  BY <1>2 DEF PushCommand, PushRaises, TcpNext, Api
<1>3. CASE TcpAlone
  BY <1>3 DEF TcpAlone, TcpNext, Connection, Api
<1>4. CASE \E c \in Conns : Deliver(c) \/ Drop(c)
  BY <1>4 DEF Deliver, Drop
<1>5. CASE ServerRestarts
  BY <1>5 DEF ServerRestarts, TcpNext
<1>6. CASE UNCHANGED serverVars
  BY <1>6 DEF serverVars
<1> QED
  BY <1>1, <1>2, <1>3, <1>4, <1>5, <1>6 DEF ServerNext

LEMMA StepIsHandlerStep ==
    ASSUME [ServerNext]_serverVars, PushIsKnown
    PROVE  [HandlerNext]_handlerVars
<1>1. CASE \E c \in Conns, p \in Phones :
             Answer(c, p) \/ AnswerLocationReport(c, p) \/ TakeSilently(c, p)
  BY <1>1
  DEF Answer, AnswerLocationReport, TakeSilently, HandlerNext, HandleMessage,
      PushIsKnown
<1>2. CASE \E r \in Requests, p \in Phones : PushCommand(r, p) \/ PushRaises(r, p)
  BY <1>2 DEF PushCommand, PushRaises, HandlerNext, Endpoint
<1>3. CASE TcpAlone
  BY <1>3 DEF TcpAlone
<1>4. CASE \E c \in Conns : Deliver(c) \/ Drop(c)
  BY <1>4 DEF Deliver, Drop
<1>5. CASE ServerRestarts
  BY <1>5 DEF ServerRestarts, HandlerNext
<1>6. CASE UNCHANGED serverVars
  BY <1>6 DEF serverVars
<1> QED
  BY <1>1, <1>2, <1>3, <1>4, <1>5, <1>6 DEF ServerNext

-----------------------------------------------------------------------------
(* What a step does to the histories and to the wire *)

\* Pushes are only added, and so are location records.
LEMMA HistoryGrows ==
    ASSUME HandlerTypeOK, [HandlerNext]_handlerVars
    PROVE  \A p \in Phones :
             /\ Len(pushed[p]) \in Nat /\ Len(pushed'[p]) \in Nat
             /\ Len(pushed[p]) <= Len(pushed'[p])
             /\ \A k \in 1..Len(pushed[p]) : pushed'[p][k] = pushed[p][k]
             /\ location_records[p] \in Nat /\ location_records'[p] \in Nat
             /\ location_records[p] <= location_records'[p]
<1>1. HandlerTypeOK'
  BY HandlerTypeStep
<1>2. \A p \in Phones :
        /\ Len(pushed[p]) \in Nat /\ Len(pushed'[p]) \in Nat
        /\ location_records[p] \in Nat /\ location_records'[p] \in Nat
  BY <1>1 DEF HandlerTypeOK
<1>3. \/ UNCHANGED pushed
      \/ \E p \in Phones, command \in Nat :
           TakeSerial(p) /\ PushFrame(p, command)
  <2>1. Len(command_logs) + 1 \in Nat /\ NoCommand \in Nat
    BY DEF HandlerTypeOK, NoCommand
  <2> QED
    BY <2>1
    DEF HandlerNext, HandleMessage, Endpoint, Command, AnswerOnly,
        HandleRegistration, HandleAuthentication, HandleLocationReport,
        HandleTerminalAck, TerminalAckFails, HandleParamsResponse, HandlerRaises,
        SendControlCommand, SetParameters, QueryParameters, EndpointRaises,
        ServerRestart, handlerVars
<1>4. ASSUME NEW p \in Phones, NEW command \in Nat, TakeSerial(p),
             PushFrame(p, command)
      PROVE  \A q \in Phones :
               /\ Len(pushed[q]) <= Len(pushed'[q])
               /\ \A k \in 1..Len(pushed[q]) : pushed'[q][k] = pushed[q][k]
  <2>1. NextSerial(p) \in Serials
    BY <1>4, TakenSerial
  <2>2. /\ \A q \in Phones \ {p} : pushed'[q] = pushed[q]
        /\ Len(pushed'[p]) = Len(pushed[p]) + 1
        /\ \A k \in 1..Len(pushed[p]) : pushed'[p][k] = pushed[p][k]
    BY <1>4, <2>1, PushedFrameLemma
  <2> QED
    BY <1>2, <2>2
<1>5. \/ UNCHANGED location_records
      \/ \E p \in Phones :
           location_records' = [location_records EXCEPT ![p] = @ + 1]
  BY DEF HandlerNext, HandleMessage, Endpoint, Command, AnswerOnly,
         HandleRegistration, HandleAuthentication, HandleLocationReport,
         HandleTerminalAck, TerminalAckFails, HandleParamsResponse, HandlerRaises,
         SendControlCommand, SetParameters, QueryParameters, EndpointRaises,
         ServerRestart, handlerVars, tables
<1>6. \A p \in Phones : location_records[p] <= location_records'[p]
  <2>1. location_records \in [Phones -> Nat]
    BY DEF HandlerTypeOK
  <2> QED
    BY <1>5, <2>1
<1> QED
  BY <1>2, <1>3, <1>4, <1>6

\* What a frame carries has been pushed or stored when it is written, and its
\* number is the one just taken.
Truthful(frame) ==
    /\ frame \in WireFrames
    /\ TakeSerial(frame.phone)
    /\ frame.serial_no = NextSerial(frame.phone)
    /\ frame.push \in 0..Len(pushed'[frame.phone])
    /\ frame.row <= location_records'[frame.phone]

\* What a step does to the wire and to what the terminals know.
LEMMA LinkCases ==
    ASSUME TcpTypeOK, HandlerTypeOK, HandlerTypeOK', ServerNext
    PROVE  \/ UNCHANGED linkVars
           \/ \E c \in Conns, frame \in WireFrames :
                /\ Write(c, frame)
                /\ Truthful(frame)
                /\ UNCHANGED <<delivered, confirmed>>
           \/ \E c \in Conns : Deliver(c) \/ Drop(c)
<1>1. \A p \in Phones : Len(pushed'[p]) \in Nat /\ location_records'[p] \in Nat
  BY DEF HandlerTypeOK
<1>2. ASSUME NEW p \in Phones, TakeSerial(p), NEW push \in 0..Len(pushed'[p]),
             NEW row \in Nat, row <= location_records'[p]
      PROVE  /\ WireFrame(p, push, row) \in WireFrames
             /\ Truthful(WireFrame(p, push, row))
  <2>1. NextSerial(p) \in Serials
    BY <1>2, TakenSerial
  <2> QED
    BY <1>1, <1>2, <2>1 DEF WireFrame, Truthful, WireFrames
<1>3. ASSUME NEW c \in Conns, NEW p \in Phones, Answer(c, p)
      PROVE  /\ TakeSerial(p)
             /\ Write(c, WireFrame(p, 0, 0))
             /\ UNCHANGED <<delivered, confirmed>>
  BY <1>3 DEF Answer, HandleRegistration, HandleAuthentication, AnswerOnly
<1>4. ASSUME NEW c \in Conns, NEW p \in Phones, AnswerLocationReport(c, p)
      PROVE  /\ TakeSerial(p)
             /\ Write(c, WireFrame(p, 0, location_records[p] + 1))
             /\ location_records'[p] = location_records[p] + 1
             /\ UNCHANGED <<delivered, confirmed>>
  BY <1>4 DEF AnswerLocationReport, HandleLocationReport, HandlerTypeOK
<1>5. ASSUME NEW r \in Requests, NEW p \in Phones, PushCommand(r, p)
      PROVE  /\ TakeSerial(p)
             /\ connections[p] \in Conns
             /\ Len(pushed'[p]) = Len(pushed[p]) + 1
             /\ Write(connections[p], WireFrame(p, Len(pushed[p]) + 1, 0))
             /\ UNCHANGED <<delivered, confirmed>>
  <2>1. TakeSerial(p) /\ \E command \in Nat : PushFrame(p, command)
    BY <1>5
    DEF PushCommand, Command, SendControlCommand, SetParameters,
        QueryParameters, HandlerTypeOK, NoCommand
  <2>2. connections[p] \in Conns
    BY <1>5 DEF PushCommand, Push, IsOnline, TcpTypeOK, Writers
  <2>3. Len(pushed'[p]) = Len(pushed[p]) + 1
    BY <2>1, TakenSerial, PushedFrameLemma
  <2> QED
    BY <1>5, <2>1, <2>2, <2>3 DEF PushCommand
<1>6. CASE \E c \in Conns, p \in Phones : Answer(c, p)
  <2>1. PICK c \in Conns, p \in Phones : Answer(c, p)
    BY <1>6
  <2>2. /\ WireFrame(p, 0, 0) \in WireFrames
        /\ Truthful(WireFrame(p, 0, 0))
    BY <1>1, <1>2, <1>3, <2>1
  <2> QED
    BY <1>3, <2>1, <2>2
<1>7. CASE \E c \in Conns, p \in Phones : AnswerLocationReport(c, p)
  <2>1. PICK c \in Conns, p \in Phones : AnswerLocationReport(c, p)
    BY <1>7
  <2>2. /\ WireFrame(p, 0, location_records[p] + 1) \in WireFrames
        /\ Truthful(WireFrame(p, 0, location_records[p] + 1))
    BY <1>1, <1>2, <1>4, <2>1
  <2> QED
    BY <1>4, <2>1, <2>2
<1>8. CASE \E r \in Requests, p \in Phones : PushCommand(r, p)
  <2>1. PICK r \in Requests, p \in Phones : PushCommand(r, p)
    BY <1>8
  <2>2. Len(pushed[p]) \in Nat
    BY DEF HandlerTypeOK
  <2>3. /\ WireFrame(p, Len(pushed[p]) + 1, 0) \in WireFrames
        /\ Truthful(WireFrame(p, Len(pushed[p]) + 1, 0))
    BY <1>1, <1>2, <1>5, <2>1, <2>2
  <2> QED
    BY <1>5, <2>1, <2>3
<1> QED
  BY <1>6, <1>7, <1>8
  DEF ServerNext, TakeSilently, PushRaises, TcpAlone, ServerRestarts, linkVars

-----------------------------------------------------------------------------
(* The wire *)

\* A sequence without its first element.
LEMMA Behead ==
    ASSUME NEW S, NEW seq \in Seq(S), seq # <<>>
    PROVE  /\ Tail(seq) \in Seq(S)
           /\ Len(Tail(seq)) = Len(seq) - 1
           /\ \A i \in 1..Len(Tail(seq)) : Tail(seq)[i] = seq[i + 1]
           /\ Head(seq) = seq[1]
           /\ 1 \in 1..Len(seq)
  OBVIOUS

\* Frames keep their place on the wire: a step adds one at the end of one
\* connection, or takes the first or all of one connection away.
LEMMA WireWritten ==
    ASSUME LinkTypeOK, NEW c \in Conns, NEW frame \in WireFrames, Write(c, frame)
    PROVE  /\ wire' \in [Conns -> Seq(WireFrames)]
           /\ \A d \in Conns :
                /\ Len(wire'[d]) \in {Len(wire[d]), Len(wire[d]) + 1}
                /\ \A i \in 1..Len(wire[d]) : wire'[d][i] = wire[d][i]
                /\ \A i \in 1..Len(wire'[d]) :
                     i \in 1..Len(wire[d]) \/ (/\ i = Len(wire[d]) + 1
                                               /\ wire'[d][i] = frame)
<1>1. wire \in [Conns -> Seq(WireFrames)] /\ wire[c] \in Seq(WireFrames)
  BY DEF LinkTypeOK
<1>2. \A d \in Conns : Len(wire[d]) \in Nat
  BY <1>1
<1>3. CASE UNCHANGED wire
  BY <1>1, <1>2, <1>3
<1>4. CASE wire' = [wire EXCEPT ![c] = Append(@, frame)]
  <2>1. /\ Append(wire[c], frame) \in Seq(WireFrames)
        /\ Len(Append(wire[c], frame)) = Len(wire[c]) + 1
        /\ \A i \in 1..Len(wire[c]) : Append(wire[c], frame)[i] = wire[c][i]
        /\ Append(wire[c], frame)[Len(wire[c]) + 1] = frame
    BY <1>1, Appended
  <2>2. /\ wire' \in [Conns -> Seq(WireFrames)]
        /\ wire'[c] = Append(wire[c], frame)
        /\ \A d \in Conns \ {c} : wire'[d] = wire[d]
    BY <1>1, <1>4, <2>1
  <2>3. ASSUME NEW d \in Conns
        PROVE  /\ Len(wire'[d]) \in {Len(wire[d]), Len(wire[d]) + 1}
               /\ \A i \in 1..Len(wire[d]) : wire'[d][i] = wire[d][i]
               /\ \A i \in 1..Len(wire'[d]) :
                    i \in 1..Len(wire[d]) \/ (/\ i = Len(wire[d]) + 1
                                              /\ wire'[d][i] = frame)
    <3>1. Len(wire[d]) \in Nat
      BY <1>2
    <3>2. CASE d = c
      <4>1. /\ Len(wire'[d]) = Len(wire[d]) + 1
            /\ \A i \in 1..Len(wire[d]) : wire'[d][i] = wire[d][i]
            /\ wire'[d][Len(wire[d]) + 1] = frame
        BY <2>1, <2>2, <3>2
      <4> QED
        BY <3>1, <4>1
    <3>3. CASE d # c
      <4>1. wire'[d] = wire[d]
        BY <2>2, <3>3
      <4> QED
        BY <3>1, <4>1
    <3> QED
      BY <3>2, <3>3
  <2> QED
    BY <2>2, <2>3
<1> QED
  BY <1>3, <1>4 DEF Write

LEMMA WireTaken ==
    ASSUME LinkTypeOK, NEW c \in Conns, Deliver(c) \/ Drop(c)
    PROVE  /\ wire' \in [Conns -> Seq(WireFrames)]
           /\ \A d \in Conns :
                \/ wire'[d] = wire[d]
                \/ wire'[d] = <<>>
                \/ /\ Len(wire'[d]) = Len(wire[d]) - 1
                   /\ \A i \in 1..Len(wire'[d]) : wire'[d][i] = wire[d][i + 1]
<1>1. wire \in [Conns -> Seq(WireFrames)] /\ wire[c] \in Seq(WireFrames)
  BY DEF LinkTypeOK
<1>2. wire[c] # <<>>
  BY DEF Deliver, Drop
<1>3. CASE wire' = [wire EXCEPT ![c] = Tail(@)]
  <2>1. /\ Tail(wire[c]) \in Seq(WireFrames)
        /\ Len(Tail(wire[c])) = Len(wire[c]) - 1
        /\ \A i \in 1..Len(Tail(wire[c])) : Tail(wire[c])[i] = wire[c][i + 1]
    BY <1>1, <1>2, Behead
  <2>2. /\ wire' \in [Conns -> Seq(WireFrames)]
        /\ wire'[c] = Tail(wire[c])
        /\ \A d \in Conns \ {c} : wire'[d] = wire[d]
    BY <1>1, <1>3, <2>1
  <2> QED
    BY <2>1, <2>2
<1>4. CASE wire' = [wire EXCEPT ![c] = <<>>]
  BY <1>1, <1>4
<1> QED
  BY <1>3, <1>4 DEF Deliver, Drop

\* What is left on the wire was there before.
LEMMA WireKept ==
    ASSUME LinkTypeOK, wire' \in [Conns -> Seq(WireFrames)],
           NEW d \in Conns, NEW i \in 1..Len(wire'[d]),
           \/ wire'[d] = wire[d]
           \/ wire'[d] = <<>>
           \/ /\ Len(wire'[d]) = Len(wire[d]) - 1
              /\ \A n \in 1..Len(wire'[d]) : wire'[d][n] = wire[d][n + 1]
    PROVE  \E j \in 1..Len(wire[d]) : wire'[d][i] = wire[d][j]
<1>1. Len(wire[d]) \in Nat /\ Len(wire'[d]) \in Nat
  BY DEF LinkTypeOK
<1>2. wire'[d] # <<>>
  OBVIOUS
<1>3. CASE wire'[d] = wire[d]
  BY <1>3
<1>4. CASE /\ Len(wire'[d]) = Len(wire[d]) - 1
           /\ \A n \in 1..Len(wire'[d]) : wire'[d][n] = wire[d][n + 1]
  BY <1>1, <1>4
<1> QED
  BY <1>2, <1>3, <1>4

\* Every frame on the wire after a step was on the wire of the same connection
\* before it, or has just been written.
LEMMA WireStep ==
    ASSUME TcpTypeOK, HandlerTypeOK, HandlerTypeOK', LinkTypeOK,
           [ServerNext]_serverVars
    PROVE  /\ wire' \in [Conns -> Seq(WireFrames)]
           /\ \A d \in Conns : \A i \in 1..Len(wire'[d]) :
                \/ \E j \in 1..Len(wire[d]) : wire'[d][i] = wire[d][j]
                \/ Truthful(wire'[d][i])
<1>1. CASE UNCHANGED linkVars
  <2>1. wire' = wire /\ wire \in [Conns -> Seq(WireFrames)]
    BY <1>1 DEF linkVars, LinkTypeOK
  <2> QED
    BY <2>1
<1>2. ASSUME NEW c \in Conns, NEW frame \in WireFrames, Write(c, frame),
             Truthful(frame)
      PROVE  /\ wire' \in [Conns -> Seq(WireFrames)]
             /\ \A d \in Conns : \A i \in 1..Len(wire'[d]) :
                  \/ \E j \in 1..Len(wire[d]) : wire'[d][i] = wire[d][j]
                  \/ Truthful(wire'[d][i])
  BY <1>2, WireWritten
<1>3. ASSUME NEW c \in Conns, Deliver(c) \/ Drop(c)
      PROVE  /\ wire' \in [Conns -> Seq(WireFrames)]
             /\ \A d \in Conns : \A i \in 1..Len(wire'[d]) :
                  \E j \in 1..Len(wire[d]) : wire'[d][i] = wire[d][j]
  <2>1. /\ wire' \in [Conns -> Seq(WireFrames)]
        /\ \A d \in Conns :
             \/ wire'[d] = wire[d]
             \/ wire'[d] = <<>>
             \/ /\ Len(wire'[d]) = Len(wire[d]) - 1
                /\ \A i \in 1..Len(wire'[d]) : wire'[d][i] = wire[d][i + 1]
    BY <1>3, WireTaken
  <2>2. ASSUME NEW d \in Conns, NEW i \in 1..Len(wire'[d])
        PROVE  \E j \in 1..Len(wire[d]) : wire'[d][i] = wire[d][j]
    BY <2>1, <2>2, WireKept
  <2> QED
    BY <2>1, <2>2
<1>4. CASE ServerNext
  BY <1>1, <1>2, <1>3, <1>4, LinkCases
<1>5. CASE UNCHANGED serverVars
  BY <1>1, <1>5 DEF serverVars
<1> QED
  BY <1>4, <1>5

\* The frame that a peer reads.
LEMMA HeadOfWire ==
    ASSUME LinkTypeOK, NEW c \in Conns, Deliver(c)
    PROVE  /\ Head(wire[c]) = wire[c][1]
           /\ 1 \in 1..Len(wire[c])
           /\ wire[c][1] \in WireFrames
<1>1. wire[c] \in Seq(WireFrames) /\ wire[c] # <<>>
  BY DEF LinkTypeOK, Deliver
<1> QED
  BY <1>1, Behead

\* What the terminals know after a step: what they knew, and what was carried
\* by the frame that one of them has read.
LEMMA KnownStep ==
    ASSUME TcpTypeOK, HandlerTypeOK, HandlerTypeOK', LinkTypeOK,
           [ServerNext]_serverVars
    PROVE  /\ delivered' \in [Phones -> SUBSET Nat]
           /\ confirmed' \in [Phones -> SUBSET Nat]
           /\ \A p \in Phones :
                /\ delivered[p] \subseteq delivered'[p]
                /\ \A k \in delivered'[p] \ delivered[p] :
                     k # 0 /\ \E c \in Conns : \E i \in 1..Len(wire[c]) :
                       wire[c][i].phone = p /\ wire[c][i].push = k
                /\ \A n \in confirmed'[p] \ confirmed[p] :
                     n # 0 /\ \E c \in Conns : \E i \in 1..Len(wire[c]) :
                       wire[c][i].phone = p /\ wire[c][i].row = n
<1> DEFINE Goal ==
             /\ delivered' \in [Phones -> SUBSET Nat]
             /\ confirmed' \in [Phones -> SUBSET Nat]
             /\ \A p \in Phones :
                  /\ delivered[p] \subseteq delivered'[p]
                  /\ \A k \in delivered'[p] \ delivered[p] :
                       k # 0 /\ \E c \in Conns : \E i \in 1..Len(wire[c]) :
                         wire[c][i].phone = p /\ wire[c][i].push = k
                  /\ \A n \in confirmed'[p] \ confirmed[p] :
                       n # 0 /\ \E c \in Conns : \E i \in 1..Len(wire[c]) :
                         wire[c][i].phone = p /\ wire[c][i].row = n
<1>1. CASE UNCHANGED <<delivered, confirmed>>
  BY <1>1 DEF LinkTypeOK
<1>2. ASSUME NEW c \in Conns, Deliver(c)
      PROVE  Goal
  <2> DEFINE frame == wire[c][1]
  <2>1. /\ frame \in WireFrames
        /\ 1 \in 1..Len(wire[c])
        /\ Head(wire[c]) = frame
    BY <1>2, HeadOfWire
  <2>2. frame.phone \in Phones /\ frame.push \in Nat /\ frame.row \in Nat
    BY <2>1 DEF WireFrames
  <2>3. /\ delivered' = IF frame.push = 0 THEN delivered
                        ELSE [delivered EXCEPT ![frame.phone] = @ \cup {frame.push}]
        /\ confirmed' = IF frame.row = 0 THEN confirmed
                        ELSE [confirmed EXCEPT ![frame.phone] = @ \cup {frame.row}]
    BY <1>2, <2>1 DEF Deliver
  <2>4. /\ delivered \in [Phones -> SUBSET Nat]
        /\ confirmed \in [Phones -> SUBSET Nat]
    BY DEF LinkTypeOK
  <2>5. \E d \in Conns : \E i \in 1..Len(wire[d]) : wire[d][i] = frame
    BY <2>1
  <2> HIDE DEF frame
  <2>6. \A p \in Phones :
          /\ delivered[p] \subseteq delivered'[p]
          /\ \A k \in delivered'[p] \ delivered[p] :
               p = frame.phone /\ k = frame.push /\ k # 0
          /\ \A n \in confirmed'[p] \ confirmed[p] :
               p = frame.phone /\ n = frame.row /\ n # 0
    BY <2>2, <2>3, <2>4
  <2>7. /\ delivered' \in [Phones -> SUBSET Nat]
        /\ confirmed' \in [Phones -> SUBSET Nat]
    BY <2>2, <2>3, <2>4
  <2> QED
    BY <2>5, <2>6, <2>7
<1>3. ASSUME NEW c \in Conns, Drop(c)
      PROVE  UNCHANGED <<delivered, confirmed>>
  BY <1>3 DEF Drop
<1>4. CASE ServerNext
  BY <1>1, <1>2, <1>3, <1>4, LinkCases DEF linkVars
<1> QED
  BY <1>1, <1>4 DEF serverVars, linkVars

-----------------------------------------------------------------------------
(* The invariant is inductive *)

LEMMA LinkTypeStep ==
    ASSUME TcpTypeOK, HandlerTypeOK, HandlerTypeOK', LinkTypeOK,
           [ServerNext]_serverVars
    PROVE  LinkTypeOK'
  BY WireStep, KnownStep DEF LinkTypeOK

\* One frame on the wire, with its types.
LEMMA FrameType ==
    ASSUME LinkTypeOK, NEW c \in Conns, NEW i \in 1..Len(wire[c])
    PROVE  /\ wire[c][i] \in WireFrames
           /\ wire[c][i].phone \in Phones
           /\ wire[c][i].serial_no \in Serials
           /\ wire[c][i].push \in Nat
           /\ wire[c][i].row \in Nat
<1>1. wire[c] \in Seq(WireFrames)
  BY DEF LinkTypeOK
<1>2. wire[c][i] \in WireFrames
  BY <1>1, ElementOfSeq
<1> QED
  BY <1>2 DEF WireFrames

LEMMA PushStep ==
    ASSUME ServerInv, HandlerTypeOK', [ServerNext]_serverVars
    PROVE  PushIsKnown'
<1> USE DEF ServerInv
<1>1. [HandlerNext]_handlerVars
  BY StepIsHandlerStep
<1>2. \A p \in Phones : /\ Len(pushed[p]) \in Nat /\ Len(pushed'[p]) \in Nat
                        /\ Len(pushed[p]) <= Len(pushed'[p])
  BY <1>1, HistoryGrows
<1>3. ASSUME NEW c \in Conns, NEW i \in 1..Len(wire'[c])
      PROVE  wire'[c][i].push \in 0..Len(pushed'[wire'[c][i].phone])
  <2>1. CASE Truthful(wire'[c][i])
    BY <2>1 DEF Truthful
  <2>2. ASSUME NEW j \in 1..Len(wire[c]), wire'[c][i] = wire[c][j]
        PROVE  wire'[c][i].push \in 0..Len(pushed'[wire'[c][i].phone])
    <3>1. wire[c][j].push \in 0..Len(pushed[wire[c][j].phone])
      BY DEF PushIsKnown
    <3>2. wire[c][j].phone \in Phones
      BY FrameType
    <3> QED
      BY <1>2, <2>2, <3>1, <3>2
  <2> QED
    BY <2>1, <2>2, WireStep
<1>4. ASSUME NEW p \in Phones, NEW k \in delivered'[p]
      PROVE  k \in 1..Len(pushed'[p])
  <2>1. CASE k \in delivered[p]
    BY <1>2, <2>1 DEF PushIsKnown
  <2>2. CASE k \notin delivered[p]
    <3>1. k # 0 /\ \E c \in Conns : \E i \in 1..Len(wire[c]) :
            wire[c][i].phone = p /\ wire[c][i].push = k
      BY <2>2, KnownStep
    <3>2. k \in 0..Len(pushed[p])
      BY <3>1 DEF PushIsKnown
    <3> QED
      BY <1>2, <3>1, <3>2
  <2> QED
    BY <2>1, <2>2
<1> QED
  BY <1>3, <1>4 DEF PushIsKnown

LEMMA ConfirmStep ==
    ASSUME ServerInv, HandlerTypeOK', [ServerNext]_serverVars
    PROVE  ConfirmedIsStored'
<1> USE DEF ServerInv
<1>1. [HandlerNext]_handlerVars
  BY StepIsHandlerStep
<1>2. \A p \in Phones :
        /\ location_records[p] \in Nat /\ location_records'[p] \in Nat
        /\ location_records[p] <= location_records'[p]
  BY <1>1, HistoryGrows
<1>3. ASSUME NEW c \in Conns, NEW i \in 1..Len(wire'[c])
      PROVE  wire'[c][i].row <= location_records'[wire'[c][i].phone]
  <2>1. CASE Truthful(wire'[c][i])
    BY <2>1 DEF Truthful
  <2>2. ASSUME NEW j \in 1..Len(wire[c]), wire'[c][i] = wire[c][j]
        PROVE  wire'[c][i].row <= location_records'[wire'[c][i].phone]
    <3>1. wire[c][j].row <= location_records[wire[c][j].phone]
      BY DEF ConfirmedIsStored
    <3>2. wire[c][j].phone \in Phones /\ wire[c][j].row \in Nat
      BY FrameType
    <3> QED
      BY <1>2, <2>2, <3>1, <3>2
  <2> QED
    BY <2>1, <2>2, WireStep
<1>4. ASSUME NEW p \in Phones, NEW n \in confirmed'[p]
      PROVE  n \in 1..location_records'[p]
  <2>1. CASE n \in confirmed[p]
    BY <1>2, <2>1 DEF ConfirmedIsStored
  <2>2. CASE n \notin confirmed[p]
    <3>1. n # 0 /\ \E c \in Conns : \E i \in 1..Len(wire[c]) :
            wire[c][i].phone = p /\ wire[c][i].row = n
      BY <2>2, KnownStep
    <3>2. n <= location_records[p] /\ n \in Nat
      BY <3>1, FrameType DEF ConfirmedIsStored
    <3> QED
      BY <1>2, <3>1, <3>2
  <2> QED
    BY <2>1, <2>2
<1> QED
  BY <1>3, <1>4 DEF ConfirmedIsStored

\* Only messages of a terminal that has read a push are answers to it.
LEMMA AnsweredStep ==
    ASSUME ServerInv, HandlerTypeOK', [ServerNext]_serverVars
    PROVE  AnsweredWasRead'
<1> USE DEF ServerInv
<1>1. [HandlerNext]_handlerVars
  BY StepIsHandlerStep
<1>2. \A p \in Phones :
        /\ Len(pushed[p]) \in Nat /\ Len(pushed'[p]) \in Nat
        /\ Len(pushed[p]) <= Len(pushed'[p])
        /\ \A k \in 1..Len(pushed[p]) : pushed'[p][k] = pushed[p][k]
  BY <1>1, HistoryGrows
<1>3. \A p \in Phones : delivered[p] \subseteq delivered'[p]
  BY KnownStep
<1>4. ASSUME NEW p \in Phones, NEW k \in delivered[p], NEW n, Carried(p, k, n)
      PROVE  k \in delivered'[p] /\ Carried(p, k, n)'
  BY <1>2, <1>3, <1>4 DEF Carried
<1>5. \/ UNCHANGED answered
      \/ \E p \in Phones : \E k \in delivered[p] :
           answered' = answered \cup ({pushed[p][k].command} \ {NoCommand})
  BY DEF ServerNext, Answer, AnswerLocationReport, TakeSilently, PushCommand,
         PushRaises, TcpAlone, Deliver, Drop, ServerRestarts, Command,
         AnswerOnly, HandleRegistration, HandleAuthentication,
         HandleLocationReport, HandleTerminalAck, TerminalAckFails, HandleParamsResponse,
         HandlerRaises, SendControlCommand, SetParameters, QueryParameters,
         EndpointRaises, ServerRestart, handlerVars, serverVars
<1>6. ASSUME NEW n \in answered'
      PROVE  \E p \in Phones : \E k \in delivered[p] : Carried(p, k, n)
  <2>1. CASE n \in answered
    BY <1>6, <2>1 DEF AnsweredWasRead
  <2>2. CASE n \notin answered
    <3>1. \E p \in Phones : \E k \in delivered[p] : n = pushed[p][k].command
      BY <1>5, <2>2
    <3> QED
      BY <3>1 DEF PushIsKnown, Carried
  <2> QED
    BY <2>1, <2>2
<1> QED
  BY <1>4, <1>6 DEF AnsweredWasRead

LEMMA ServerInvInit == ServerInit => ServerInv
<1> SUFFICES ASSUME ServerInit
             PROVE  ServerInv
  OBVIOUS
<1>1. TcpTypeOK /\ HandlerTypeOK /\ AckInvariant
  BY TcpTypeInit, HandlerTypeInit, AckInit DEF ServerInit
<1>2. LinkTypeOK /\ PushIsKnown /\ AnsweredWasRead /\ ConfirmedIsStored
  BY DEF ServerInit, HandlerInit, LinkTypeOK, PushIsKnown, AnsweredWasRead,
         ConfirmedIsStored
<1> QED
  BY <1>1, <1>2 DEF ServerInv

LEMMA ServerInvStep ==
    ServerInv /\ [ServerNext]_serverVars => ServerInv'
<1> SUFFICES ASSUME ServerInv, [ServerNext]_serverVars
             PROVE  ServerInv'
  OBVIOUS
<1>1. [TcpNext]_tcpVars /\ [HandlerNext]_handlerVars
  BY StepIsTcpStep, StepIsHandlerStep DEF ServerInv
<1>2. TcpTypeOK' /\ HandlerTypeOK' /\ AckInvariant'
  BY <1>1, TcpTypeStep, HandlerTypeStep, AckStep DEF ServerInv
<1>3. LinkTypeOK'
  BY <1>2, LinkTypeStep DEF ServerInv
<1>4. PushIsKnown' /\ AnsweredWasRead' /\ ConfirmedIsStored'
  BY <1>2, PushStep, AnsweredStep, ConfirmStep
<1> QED
  BY <1>2, <1>3, <1>4 DEF ServerInv

LEMMA ServerInvariant == ServerSpec => []ServerInv
  BY ServerInvInit, ServerInvStep, PTL DEF ServerSpec

-----------------------------------------------------------------------------
(* The theorems *)

\* The whole server does nothing on its connections that TcpServer does not
\* allow, by the way it is put together: what is proved of TcpServer holds of it.
LEMMA ServerImplementsTcp == ServerSpec => TcpSpec
<1>1. ServerInit => TcpInit
  BY DEF ServerInit
<1>2. [ServerNext]_serverVars => [TcpNext]_tcpVars
  BY StepIsTcpStep
<1> QED
  BY <1>1, <1>2, PTL DEF ServerSpec, TcpSpec

\* The whole server does nothing to its tables and serial numbers that Handlers
\* does not allow: terminals answer pushes only after they were made.
THEOREM ServerImplementsHandlers == ServerSpec => HandlerSpec
<1>1. ServerInit => HandlerInit
  BY DEF ServerInit
<1>2. ServerInv /\ [ServerNext]_serverVars => [HandlerNext]_handlerVars
  BY StepIsHandlerStep DEF ServerInv
<1> QED
  BY <1>1, <1>2, ServerInvariant, PTL DEF ServerSpec, HandlerSpec

\* So the whole server has the invariants of its halves (RouteIsCurrent,
\* UncontestedIsOnline, AuthenticatedByCurrentCode, AcksMatchAnswers),
\* although a message now changes both halves in one step.
THEOREM ServerKeepsItsHalves ==
    ServerSpec => [](/\ RouteIsCurrent /\ UncontestedIsOnline
                     /\ AuthenticatedByCurrentCode /\ AcksMatchAnswers)
  BY ServerImplementsTcp, ServerImplementsHandlers, PushesFollowTheTerminal,
     UncontestedStaysOnline, AuthenticationIsCurrent, AcksMarkTheirCommands, PTL

\* A command that is marked as acknowledged has been read by the terminal it is
\* for, unless the process was restarted or a counter has come round.
THEOREM AckedMeansDelivered == ServerSpec => []AckedWasDelivered
<1>1. ServerInv => AckedWasDelivered
  <2> SUFFICES ASSUME ServerInv, NoReuse, NEW i \in 1..Len(command_logs),
                      command_logs[i].acked
               PROVE  \E k \in delivered[command_logs[i].phone] :
                        Carried(command_logs[i].phone, k, i)
    BY DEF AckedWasDelivered
  <2>1. i \in answered
    BY DEF ServerInv, AckInvariant, AcksAnswer, AckedIsAnswered
  <2>2. PICK p \in Phones : \E k \in delivered[p] : Carried(p, k, i)
    BY <2>1 DEF ServerInv, AnsweredWasRead
  <2>3. command_logs[i].phone = p
    BY <2>1, <2>2 DEF ServerInv, AckInvariant, PushedIsLogged, Carried, NoCommand
  <2> QED
    BY <2>2, <2>3
<1> QED
  BY <1>1, ServerInvariant, PTL

\* What a terminal has been told is stored is stored, whatever was lost, failed
\* or restarted in between.
THEOREM ConfirmedStaysStored == ServerSpec => []ConfirmedIsStored
  BY ServerInvariant, PTL DEF ServerInv


-----------------------------------------------------------------------------
(* The order of the serial numbers *)

NotRound(p) == restarts = 0 /\ consumed[p] < SerialMod

\* Until it comes round the counter counts the numbers taken, and no number on
\* the wire is ahead of it.
CountsTaken == \A p \in Phones : NotRound(p) => server_serial[p] = consumed[p]

WireBelow ==
    \A c \in Conns : \A i \in 1..Len(wire[c]) : \A p \in Phones :
        wire[c][i].phone = p /\ NotRound(p)
          => wire[c][i].serial_no <= server_serial[p]

WireSorted ==
    \A c \in Conns : \A i, j \in 1..Len(wire[c]) : \A p \in Phones :
        (/\ i < j /\ wire[c][i].phone = p /\ wire[c][j].phone = p
         /\ NotRound(p))
          => wire[c][i].serial_no < wire[c][j].serial_no

OrderInv == CountsTaken /\ WireBelow /\ WireSorted

\* A number that is taken is the next one, unless the counter comes round.
LEMMA NumberTaken ==
    ASSUME HandlerTypeOK, CountsTaken, NEW q \in Phones, TakeSerial(q),
           UNCHANGED restarts, NEW p \in Phones, NotRound(p)'
    PROVE  /\ NotRound(p)
           /\ server_serial'[p] = consumed'[p]
           /\ server_serial'[p] = server_serial[p] + (IF p = q THEN 1 ELSE 0)
           /\ NextSerial(q) = server_serial'[q]
<1>1. /\ server_serial \in [Phones -> Serials]
      /\ consumed \in [Phones -> Nat]
  BY DEF HandlerTypeOK
<1>2. /\ server_serial' = [server_serial EXCEPT ![q] = NextSerial(q)]
      /\ consumed' = [consumed EXCEPT ![q] = @ + 1]
  BY TakenSerial
<1>3. NotRound(p) /\ server_serial[p] = consumed[p]
  <2>1. consumed[p] \in Nat /\ consumed'[p] \in {consumed[p], consumed[p] + 1}
    BY <1>1, <1>2
  <2>2. restarts = 0 /\ consumed'[p] < SerialMod
    BY DEF NotRound
  <2> QED
    BY <2>1, <2>2, SerialAssumption DEF NotRound, CountsTaken
<1>4. server_serial[p] + 1 \in Nat /\ server_serial[p] \in Serials
  BY <1>1 DEF Serials
<1>5. CASE p = q
  <2>1. consumed'[p] = consumed[p] + 1 /\ consumed'[p] < SerialMod
    BY <1>1, <1>2, <1>5 DEF NotRound
  <2>2. NextSerial(p) = server_serial[p] + 1
    BY <1>3, <1>4, <2>1, SerialSuccessor, SerialAssumption DEF NextSerial
  <2> QED
    BY <1>1, <1>2, <1>3, <1>5, <2>1, <2>2
<1>6. CASE p # q
  BY <1>1, <1>2, <1>3, <1>4, <1>6 DEF Serials
<1> QED
  BY <1>5, <1>6

\* What a step does to the serial numbers.
LEMMA NumberCases ==
    ASSUME [HandlerNext]_handlerVars
    PROVE  \/ UNCHANGED serials /\ UNCHANGED restarts
           \/ (\E q \in Phones : TakeSerial(q)) /\ UNCHANGED restarts
           \/ restarts' = restarts + 1 /\ UNCHANGED consumed
  BY DEF HandlerNext, HandleMessage, Endpoint, Command, AnswerOnly,
         HandleRegistration, HandleAuthentication, HandleLocationReport,
         HandleTerminalAck, TerminalAckFails, HandleParamsResponse, HandlerRaises,
         SendControlCommand, SetParameters, QueryParameters, EndpointRaises,
         ServerRestart, handlerVars, serials

LEMMA NumberStep ==
    ASSUME HandlerTypeOK, CountsTaken, [HandlerNext]_handlerVars,
           NEW p \in Phones, NotRound(p)'
    PROVE  /\ NotRound(p)
           /\ server_serial'[p] = consumed'[p]
           /\ server_serial[p] <= server_serial'[p]
<1>1. server_serial[p] \in Nat /\ restarts \in Nat
  BY SerialAssumption DEF HandlerTypeOK, Serials
<1>2. CASE UNCHANGED serials /\ UNCHANGED restarts
  BY <1>1, <1>2 DEF serials, NotRound, CountsTaken
<1>3. ASSUME NEW q \in Phones, TakeSerial(q), UNCHANGED restarts
      PROVE  /\ NotRound(p)
             /\ server_serial'[p] = consumed'[p]
             /\ server_serial[p] <= server_serial'[p]
  BY <1>1, <1>3, NumberTaken
<1>4. CASE restarts' = restarts + 1 /\ UNCHANGED consumed
  BY <1>1, <1>4 DEF NotRound
<1> QED
  BY <1>2, <1>3, <1>4, NumberCases

\* Who takes a number does not restart.
LEMMA NotRestarted ==
    ASSUME HandlerTypeOK, [HandlerNext]_handlerVars, NEW q \in Phones,
           TakeSerial(q)
    PROVE  UNCHANGED restarts
<1>1. consumed[q] \in Nat /\ consumed' = [consumed EXCEPT ![q] = @ + 1]
  BY DEF HandlerTypeOK, TakeSerial
<1>2. consumed' # consumed
  BY <1>1 DEF HandlerTypeOK
<1> QED
  BY <1>2, NumberCases DEF serials

\* A frame that is written goes behind the others and has a greater number.
LEMMA OrderAfterWrite ==
    ASSUME HandlerTypeOK, LinkTypeOK, OrderInv, [HandlerNext]_handlerVars,
           NEW c \in Conns, NEW frame \in WireFrames, Write(c, frame),
           Truthful(frame)
    PROVE  WireBelow' /\ WireSorted'
<1>1. /\ frame.phone \in Phones
      /\ TakeSerial(frame.phone)
      /\ frame.serial_no = NextSerial(frame.phone)
  BY DEF Truthful, WireFrames
<1>2. \A d \in Conns :
        /\ Len(wire[d]) \in Nat
        /\ Len(wire'[d]) \in {Len(wire[d]), Len(wire[d]) + 1}
        /\ \A i \in 1..Len(wire[d]) : wire'[d][i] = wire[d][i]
        /\ \A i \in 1..Len(wire'[d]) :
             i \in 1..Len(wire[d]) \/ (/\ i = Len(wire[d]) + 1
                                       /\ wire'[d][i] = frame)
  <2>1. \A d \in Conns :
          /\ Len(wire'[d]) \in {Len(wire[d]), Len(wire[d]) + 1}
          /\ \A i \in 1..Len(wire[d]) : wire'[d][i] = wire[d][i]
          /\ \A i \in 1..Len(wire'[d]) :
               i \in 1..Len(wire[d]) \/ (/\ i = Len(wire[d]) + 1
                                         /\ wire'[d][i] = frame)
    BY WireWritten
  <2>2. \A d \in Conns : Len(wire[d]) \in Nat
    BY DEF LinkTypeOK
  <2> QED
    BY <2>1, <2>2
<1>3. UNCHANGED restarts
  BY <1>1, NotRestarted
<1>4. ASSUME NEW p \in Phones, NotRound(p)'
      PROVE  /\ NotRound(p)
             /\ server_serial[p] \in Nat /\ server_serial'[p] \in Nat
             /\ server_serial[p] <= server_serial'[p]
             /\ p = frame.phone => /\ frame.serial_no = server_serial'[p]
                                   /\ server_serial[p] < server_serial'[p]
  <2>1. server_serial[p] \in Nat
    BY SerialAssumption DEF HandlerTypeOK, Serials
  <2>2. /\ NotRound(p)
        /\ server_serial'[p] =
             server_serial[p] + (IF p = frame.phone THEN 1 ELSE 0)
        /\ NextSerial(frame.phone) = server_serial'[frame.phone]
    BY <1>1, <1>3, <1>4, NumberTaken DEF OrderInv
  <2> QED
    BY <1>1, <2>1, <2>2
<1>5. ASSUME NEW d \in Conns, NEW i \in 1..Len(wire[d])
      PROVE  wire[d][i].serial_no \in Nat
  BY FrameType, SerialAssumption, SMTT(30) DEF Serials
<1>6. ASSUME NEW d \in Conns, NEW i \in 1..Len(wire'[d]), NEW p \in Phones,
             wire'[d][i].phone = p, NotRound(p)'
      PROVE  wire'[d][i].serial_no <= server_serial'[p]
  <2>1. CASE i \in 1..Len(wire[d])
    <3>1. wire'[d][i] = wire[d][i]
      BY <1>2, <2>1
    <3>2. wire[d][i].serial_no <= server_serial[p]
      BY <1>4, <1>6, <2>1, <3>1 DEF OrderInv, WireBelow
    <3> QED
      BY <1>4, <1>5, <1>6, <2>1, <3>1, <3>2
  <2>2. CASE wire'[d][i] = frame
    BY <1>4, <1>6, <2>2
  <2> QED
    BY <1>2, <2>1, <2>2
<1>7. ASSUME NEW d \in Conns, NEW i \in 1..Len(wire'[d]),
             NEW j \in 1..Len(wire'[d]), NEW p \in Phones, i < j,
             wire'[d][i].phone = p, wire'[d][j].phone = p, NotRound(p)'
      PROVE  wire'[d][i].serial_no < wire'[d][j].serial_no
  <2>1. i \in 1..Len(wire[d]) /\ wire'[d][i] = wire[d][i]
    BY <1>2, <1>7
  <2>2. CASE j \in 1..Len(wire[d])
    <3>1. wire'[d][j] = wire[d][j]
      BY <1>2, <2>2
    <3> QED
      BY <1>4, <1>7, <2>1, <2>2, <3>1 DEF OrderInv, WireSorted
  <2>3. CASE wire'[d][j] = frame
    <3>1. wire[d][i].serial_no <= server_serial[p]
      BY <1>4, <1>7, <2>1 DEF OrderInv, WireBelow
    <3> QED
      BY <1>4, <1>5, <1>7, <2>1, <2>3, <3>1
  <2> QED
    BY <1>2, <2>2, <2>3
<1> QED
  BY <1>6, <1>7 DEF WireBelow, WireSorted

\* What is read or lost leaves the order of the others as it is.
LEMMA OrderAfterTaking ==
    ASSUME HandlerTypeOK, LinkTypeOK, OrderInv, [HandlerNext]_handlerVars,
           wire' \in [Conns -> Seq(WireFrames)],
           \A d \in Conns :
              \/ wire'[d] = wire[d]
              \/ wire'[d] = <<>>
              \/ /\ Len(wire'[d]) = Len(wire[d]) - 1
                 /\ \A i \in 1..Len(wire'[d]) : wire'[d][i] = wire[d][i + 1]
    PROVE  WireBelow' /\ WireSorted'
<1>1. ASSUME NEW d \in Conns
      PROVE  \E k \in {0, 1} :
               \A i \in 1..Len(wire'[d]) :
                 i + k \in 1..Len(wire[d]) /\ wire'[d][i] = wire[d][i + k]
  <2>1. Len(wire[d]) \in Nat /\ Len(wire'[d]) \in Nat
    BY DEF LinkTypeOK
  <2>2. CASE wire'[d] = wire[d]
    BY <2>1, <2>2
  <2>3. CASE wire'[d] = <<>>
    BY <2>3
  <2>4. CASE /\ Len(wire'[d]) = Len(wire[d]) - 1
             /\ \A i \in 1..Len(wire'[d]) : wire'[d][i] = wire[d][i + 1]
    BY <2>1, <2>4
  <2> QED
    BY <2>2, <2>3, <2>4
<1>2. ASSUME NEW p \in Phones, NotRound(p)'
      PROVE  /\ NotRound(p)
             /\ server_serial[p] \in Nat /\ server_serial'[p] \in Nat
             /\ server_serial[p] <= server_serial'[p]
  <2>1. HandlerTypeOK'
    BY HandlerTypeStep
  <2>2. server_serial[p] \in Nat /\ server_serial'[p] \in Nat
    BY <2>1, SerialAssumption DEF HandlerTypeOK, Serials
  <2> QED
    BY <1>2, <2>2, NumberStep DEF OrderInv
<1>3. ASSUME NEW d \in Conns, NEW i \in 1..Len(wire[d])
      PROVE  wire[d][i].serial_no \in Nat
  BY FrameType, SerialAssumption, SMTT(30) DEF Serials
<1>4. ASSUME NEW d \in Conns, NEW i \in 1..Len(wire'[d]), NEW p \in Phones,
             wire'[d][i].phone = p, NotRound(p)'
      PROVE  wire'[d][i].serial_no <= server_serial'[p]
  <2>1. PICK k \in 1..Len(wire[d]) : wire'[d][i] = wire[d][k]
    BY <1>1
  <2>2. wire[d][k].serial_no <= server_serial[p]
    BY <1>2, <1>4, <2>1 DEF OrderInv, WireBelow
  <2> QED
    BY <1>2, <1>3, <1>4, <2>1, <2>2
<1>5. ASSUME NEW d \in Conns, NEW i \in 1..Len(wire'[d]),
             NEW j \in 1..Len(wire'[d]), NEW p \in Phones, i < j,
             wire'[d][i].phone = p, wire'[d][j].phone = p, NotRound(p)'
      PROVE  wire'[d][i].serial_no < wire'[d][j].serial_no
  <2>1. PICK k \in {0, 1} :
          \A n \in 1..Len(wire'[d]) :
            n + k \in 1..Len(wire[d]) /\ wire'[d][n] = wire[d][n + k]
    BY <1>1
  <2>2. PICK m \in 1..Len(wire[d]), n \in 1..Len(wire[d]) :
          /\ m < n
          /\ wire'[d][i] = wire[d][m]
          /\ wire'[d][j] = wire[d][n]
    <3>1. Len(wire'[d]) \in Nat
      BY DEF LinkTypeOK
    <3> QED
      BY <1>5, <2>1, <3>1, SMTT(30)
  <2>3. wire[d][m].phone = p /\ wire[d][n].phone = p /\ NotRound(p)
    BY <1>2, <1>5, <2>2
  <2>4. wire[d][m].serial_no < wire[d][n].serial_no
    BY <2>2, <2>3 DEF OrderInv, WireSorted
  <2> QED
    BY <2>2, <2>4
<1> QED
  BY <1>4, <1>5 DEF WireBelow, WireSorted

LEMMA OrderStep ==
    ASSUME ServerInv, OrderInv, [ServerNext]_serverVars
    PROVE  OrderInv'
<1>1. /\ TcpTypeOK /\ HandlerTypeOK /\ LinkTypeOK
      /\ [HandlerNext]_handlerVars
  BY StepIsHandlerStep DEF ServerInv
<1>2. HandlerTypeOK' /\ LinkTypeOK'
  BY <1>1, HandlerTypeStep, LinkTypeStep
<1>3. CountsTaken'
  BY <1>1, NumberStep DEF CountsTaken, OrderInv
<1>4. CASE UNCHANGED linkVars
  <2>1. wire' = wire /\ wire' \in [Conns -> Seq(WireFrames)]
    BY <1>1, <1>4 DEF linkVars, LinkTypeOK
  <2> QED
    BY <1>1, <1>3, <2>1, OrderAfterTaking DEF OrderInv
<1>5. ASSUME NEW c \in Conns, NEW frame \in WireFrames, Write(c, frame),
             Truthful(frame)
      PROVE  OrderInv'
  BY <1>1, <1>3, <1>5, OrderAfterWrite DEF OrderInv
<1>6. ASSUME NEW c \in Conns, Deliver(c) \/ Drop(c)
      PROVE  OrderInv'
  BY <1>1, <1>3, <1>6, WireTaken, OrderAfterTaking DEF OrderInv
<1> QED
  BY <1>1, <1>2, <1>4, <1>5, <1>6, LinkCases DEF serverVars

\* A connection brings its terminal frames with increasing serial numbers, be
\* they answers or pushes, until the numbers come round.
THEOREM FramesAreInOrder == ServerSpec => []SerialsInOrder
<1>1. ServerInit => OrderInv
  BY DEF ServerInit, HandlerInit, OrderInv, CountsTaken, WireBelow, WireSorted
<1>2. ServerInv /\ OrderInv /\ [ServerNext]_serverVars => OrderInv'
  BY OrderStep
<1>3. ServerInv /\ OrderInv => SerialsInOrder
  <2> SUFFICES ASSUME LinkTypeOK, OrderInv
               PROVE  SerialsInOrder
    BY DEF ServerInv
  <2> QED
    BY FrameType DEF SerialsInOrder, OrderInv, WireSorted, NotRound
<1> QED
  BY <1>1, <1>2, <1>3, ServerInvariant, PTL DEF ServerSpec

================================================================================
