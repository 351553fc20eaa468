------------------------------ MODULE CoreServer ------------------------------
(***************************************************************************)
(* The second TCP server of the repository, package core: the coroutine    *)
(* JT808Server._handle_client, the ConnectionRegistry, and what the        *)
(* handlers of MessageHandler do to the phone number of a connection and   *)
(* to the order of events.  Its database, storage.database, is not in the  *)
(* repository: here it is a call that suspends and may raise.              *)
(*                                                                         *)
(* A step is what a coroutine does between two suspensions: reader.read()  *)
(* ("reading"), a call of the database ("identifying", "locating",         *)
(* "recording", "closing") and writer.drain() ("draining").  The lock of   *)
(* the registry is never held across a suspension, so add() and remove()   *)
(* do not suspend.                                                         *)
(***************************************************************************)
EXTENDS Naturals

CONSTANTS
    Conns,      \* TCP connections; one that is over stands for a new one
    Phones,     \* phone numbers
    Zero,       \* "000000000000", the number of a terminal without one
    Speaks,     \* the phone numbers that the frames of a connection carry
    MaxChunk,   \* bound: complete frames that one read can hold
    None        \* no connection, no phone

ASSUME CoreNoneAssumption == None \notin Conns \cup Phones
ASSUME CoreSpeaksAssumption == Speaks \in [Conns -> SUBSET Phones]
ASSUME CoreMaxChunkAssumption == MaxChunk \in Nat \ {0}

VARIABLES
    registry,   \* ConnectionRegistry._by_phone; None: no entry
    task,       \* where _handle_client of each connection is
    phone,      \* TerminalConnection.phone
    frames,     \* frames of the current chunk not yet handled
    transport,  \* the asyncio transport under the connection
    lastSpoke,  \* history: the last connection that began a frame for a number
    contested   \* history: was another one in a frame for it at that moment?

history == <<lastSpoke, contested>>
coreVars == <<registry, task, phone, frames, transport, history>>

\* The handlers that wait for the database: registration and authentication,
\* location report, parameter report.
Storing == {"identifying", "locating", "recording"}

\* Suspended in a frame, with the add() after the handler still to come.
InFrame == {"draining"} \cup Storing

LiveTasks == {"reading", "looping"} \cup InFrame
Live(c) == task[c] \in LiveTasks

-----------------------------------------------------------------------------
(* ConnectionRegistry *)

Add(entries, c, p) ==
    IF p = None THEN entries ELSE [entries EXCEPT ![p] = c]

\* Mutant of Remove: by phone number, whoever is registered there.
RemoveAnyone(entries, c, p) ==
    IF p # None THEN [entries EXCEPT ![p] = None] ELSE entries

\* Remove the entry of phone number p if it is the entry of c.
Remove(entries, c, p) ==
    IF p # None /\ entries[p] = c THEN [entries EXCEPT ![p] = None]
    ELSE entries

-----------------------------------------------------------------------------
CoreInit ==
    /\ registry = [p \in Phones |-> None]
    /\ task = [c \in Conns |-> "closed"]
    /\ phone = [c \in Conns |-> None]
    /\ frames = [c \in Conns |-> 0]
    /\ transport = [c \in Conns |-> "lost"]
    /\ lastSpoke = [p \in Phones |-> None]
    /\ contested = [p \in Phones |-> FALSE]

CoreAccept(c) ==
    /\ task[c] \in {"closed", "leaked"}
    /\ transport[c] = "lost"
    /\ task' = [task EXCEPT ![c] = "reading"]
    /\ transport' = [transport EXCEPT ![c] = "open"]
    /\ phone' = [phone EXCEPT ![c] = None]
    /\ UNCHANGED <<registry, frames, history>>

CoreReadChunk(c, n) ==
    /\ task[c] = "reading"
    /\ transport[c] # "lost"
    /\ frames' = [frames EXCEPT ![c] = n]
    /\ task' = [task EXCEPT ![c] = "looping"]
    /\ UNCHANGED <<registry, phone, transport, history>>

CoreChunkDone(c) ==
    /\ task[c] = "looping"
    /\ frames[c] = 0
    /\ task' = [task EXCEPT ![c] = "reading"]
    /\ UNCHANGED <<registry, phone, frames, transport, history>>

-----------------------------------------------------------------------------
(* One frame *)

\* The phone number of the connection after the header of a frame of p, and
\* what that did to the registry.  A connection that changes its number is
\* removed under the old one and added under the new one after the handler.
HeaderPhone(c, p) == IF p = Zero THEN phone[c] ELSE p

\* Mutant of HeaderRegistry: the entry under the old number stays.
HeaderKeepsOld(c, p) ==
    IF phone[c] = None THEN Add(registry, c, HeaderPhone(c, p)) ELSE registry

HeaderRegistry(c, p) ==
    IF HeaderPhone(c, p) = phone[c] THEN registry
    ELSE IF phone[c] = None THEN Add(registry, c, p)
    ELSE Remove(registry, c, phone[c])

\* Mutant of TakeFrame: one turn too many.
TakeOneTooMany(c, p) ==
    /\ task[c] = "looping"
    /\ frames' = [frames EXCEPT ![c] = @ - 1]
    /\ p \in Speaks[c]

TakeFrame(c, p) ==
    /\ task[c] = "looping"
    /\ frames[c] > 0
    /\ frames' = [frames EXCEPT ![c] = @ - 1]
    /\ p \in Speaks[c]

\* The frame is one of the terminal with this number, if the terminal has one.
SpeakFor(c, number) ==
    IF number = None THEN UNCHANGED history
    ELSE /\ lastSpoke' = [lastSpoke EXCEPT ![number] = c]
         /\ contested' = [contested EXCEPT ![number] =
                            \E d \in Conns \ {c} : /\ phone[d] = number
                                                   /\ task[d] \in InFrame]

\* A frame whose handler does not suspend: a general response, an unknown
\* message, or an answer that fits into the write buffer.
HandleAtOnce(c, p) ==
    /\ TakeFrame(c, p)
    /\ phone' = [phone EXCEPT ![c] = HeaderPhone(c, p)]
    /\ registry' = Add(HeaderRegistry(c, p), c, HeaderPhone(c, p))
    /\ SpeakFor(c, HeaderPhone(c, p))
    /\ UNCHANGED <<task, transport>>

\* Heartbeat, time request, unregistration: drain() waits on a full buffer, and
\* suspends once before it raises on a lost connection.
HandleAndDrain(c, p) ==
    /\ TakeFrame(c, p)
    /\ transport[c] # "open"
    /\ phone' = [phone EXCEPT ![c] = HeaderPhone(c, p)]
    /\ registry' = HeaderRegistry(c, p)
    /\ task' = [task EXCEPT ![c] = "draining"]
    /\ SpeakFor(c, HeaderPhone(c, p))
    /\ UNCHANGED transport

\* A handler that stores something first.  Registration and authentication
\* take the number of the frame, whatever it is; a location report does if the
\* connection has none.
HandleAndStore(c, p, step) ==
    LET adopts == \/ step = "identifying"
                  \/ step = "locating" /\ HeaderPhone(c, p) = None
        number == IF adopts THEN p ELSE HeaderPhone(c, p)
    IN  /\ TakeFrame(c, p)
        /\ phone' = [phone EXCEPT ![c] = number]
        /\ registry' = HeaderRegistry(c, p)
        /\ task' = [task EXCEPT ![c] = step]
        /\ SpeakFor(c, number)
        /\ UNCHANGED transport

\* Mutant of StoreEnds: the connection is not added again after the handler.
StoreEndsUnseen(c, answers) ==
    LET drains == answers /\ transport[c] # "open"
    IN  /\ task[c] \in Storing
        /\ task[c] = "recording" => ~answers
        /\ task[c] = "locating" => answers
        /\ task' = [task EXCEPT ![c] = IF drains THEN "draining"
                                       ELSE "looping"]
        /\ UNCHANGED <<registry, phone, frames, transport, history>>

\* The database has answered or raised.  A parameter report is not answered, a
\* location report always is, the others unless the database raised.
StoreEnds(c, answers) ==
    LET drains == answers /\ transport[c] # "open"
    IN  /\ task[c] \in Storing
        /\ task[c] = "recording" => ~answers
        /\ task[c] = "locating" => answers
        /\ task' = [task EXCEPT ![c] = IF drains THEN "draining"
                                       ELSE "looping"]
        /\ registry' = IF drains THEN registry ELSE Add(registry, c, phone[c])
        /\ UNCHANGED <<phone, frames, transport, history>>

\* drain() has returned, or raised ConnectionResetError, which send_frame
\* swallows: either way the loop goes on and adds the connection again.
DrainEnds(c) ==
    /\ task[c] = "draining"
    /\ transport[c] # "stalled"
    /\ task' = [task EXCEPT ![c] = "looping"]
    /\ registry' = Add(registry, c, phone[c])
    /\ UNCHANGED <<phone, frames, transport, history>>

-----------------------------------------------------------------------------
(* The end of a connection *)

\* Mutant of CoreFinish: the connection is not removed.
FinishKeepsEntry(c) ==
    /\ task' = [task EXCEPT ![c] = IF phone[c] = None THEN "closed"
                                   ELSE "closing"]
    /\ frames' = [frames EXCEPT ![c] = 0]
    /\ transport' = [transport EXCEPT ![c] = IF phone[c] = None /\ @ = "open"
                                             THEN "lost" ELSE @]
    /\ UNCHANGED <<registry, phone, history>>

\* The finally block up to the call of set_terminal_offline, which is made for
\* a connection that has a phone number.
CoreFinish(c) ==
    /\ registry' = Remove(registry, c, phone[c])
    /\ task' = [task EXCEPT ![c] = IF phone[c] = None THEN "closed"
                                   ELSE "closing"]
    /\ frames' = [frames EXCEPT ![c] = 0]
    /\ transport' = [transport EXCEPT ![c] = IF phone[c] = None /\ @ = "open"
                                             THEN "lost" ELSE @]
    /\ UNCHANGED <<phone, history>>

CoreIdleTimeout(c) ==
    task[c] = "reading" /\ transport[c] # "lost" /\ CoreFinish(c)

CorePeerCloses(c) ==
    task[c] = "reading" /\ transport[c] # "lost" /\ CoreFinish(c)

CoreReadRaises(c) ==
    task[c] = "reading" /\ transport[c] = "lost" /\ CoreFinish(c)

\* set_terminal_offline has returned, and the connection is closed; if it
\* raised, conn.close() is skipped and the transport stays as it is.
OfflineDone(c, raised) ==
    /\ task[c] = "closing"
    /\ task' = [task EXCEPT ![c] = IF raised THEN "leaked" ELSE "closed"]
    /\ transport' = [transport EXCEPT ![c] = IF ~raised /\ @ = "open"
                                             THEN "lost" ELSE @]
    /\ UNCHANGED <<registry, phone, frames, history>>

-----------------------------------------------------------------------------
(* The transport *)

CoreStall(c) ==
    /\ transport[c] = "open"
    /\ transport' = [transport EXCEPT ![c] = "stalled"]
    /\ UNCHANGED <<registry, task, phone, frames, history>>

CoreUnstall(c) ==
    /\ transport[c] = "stalled"
    /\ transport' = [transport EXCEPT ![c] = IF task[c] = "closed" THEN "lost"
                                             ELSE "open"]
    /\ UNCHANGED <<registry, task, phone, frames, history>>

CoreLose(c) ==
    /\ transport[c] \in {"open", "stalled"}
    /\ transport' = [transport EXCEPT ![c] = "lost"]
    /\ UNCHANGED <<registry, task, phone, frames, history>>

-----------------------------------------------------------------------------
HandleClient(c) ==
    \/ CoreAccept(c)
    \/ \E n \in 0..MaxChunk : CoreReadChunk(c, n)
    \/ CoreChunkDone(c)
    \/ \E p \in Phones : HandleAtOnce(c, p) \/ HandleAndDrain(c, p)
    \/ \E p \in Phones, step \in Storing : HandleAndStore(c, p, step)
    \/ \E answers \in BOOLEAN : StoreEnds(c, answers)
    \/ DrainEnds(c)
    \/ CoreIdleTimeout(c)
    \/ CorePeerCloses(c)
    \/ CoreReadRaises(c)
    \/ \E raised \in BOOLEAN : OfflineDone(c, raised)

CoreNext ==
    \E c \in Conns :
        HandleClient(c) \/ CoreStall(c) \/ CoreUnstall(c) \/ CoreLose(c)

CoreSpec == CoreInit /\ [][CoreNext]_coreVars

-----------------------------------------------------------------------------
(* Properties *)

\* The values that the state can take.
CoreTypeOK ==
    /\ registry \in [Phones -> Conns \cup {None}]
    /\ task \in [Conns -> {"closing", "closed", "leaked"} \cup LiveTasks]
    /\ phone \in [Conns -> Phones \cup {None}]
    /\ frames \in [Conns -> 0..MaxChunk]
    /\ transport \in [Conns -> {"open", "stalled", "lost"}]
    /\ lastSpoke \in [Phones -> Conns \cup {None}]
    /\ contested \in [Phones -> BOOLEAN]

\* A terminal has a number in all its frames or in none.
NumberedOrNot == \A c \in Conns : Zero \in Speaks[c] => Speaks[c] = {Zero}

\* An entry of the registry is a connection whose handler is still running.
RegisteredIsLive ==
    \A p \in Phones : registry[p] # None => Live(registry[p])

\* An entry stands under the number that its connection has: the cleanup,
\* which looks under that number only, will find it.
RegisteredUnderItsNumber ==
    \A p \in Phones : registry[p] # None => phone[registry[p]] = p

\* Between two frames, the connection that last spoke for a phone number and
\* still has it is the one the registry finds, however many former connections
\* of the terminal change their number, end, or are noticed to be dead - unless
\* one of those was itself in a frame of the number at that moment: it is added
\* after its handler, over the newer connection, and its end then leaves the
\* number without an entry until the newer connection speaks again.
UncontestedIsRegistered ==
    \A p \in Phones, c \in Conns :
        (/\ lastSpoke[p] = c /\ ~contested[p]
         /\ phone[c] = p /\ task[c] \in {"reading", "looping"})
          => registry[p] = c

\* The registry keeps the promise of module Registry: whatever the handlers of
\* two connections of one terminal do, late answers of the database included,
\* no connection removes the entry of another.  A number is taken away from a
\* live connection only by that connection, or by another live one that enters
\* itself instead.
Promise == INSTANCE Registry WITH
    route <- registry,
    live <- {c \in Conns : Live(c)}

RegistryPromise == Promise!RegistrySpec

=============================================================================
