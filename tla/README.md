# A verification project for Selvehicle

Selvehicle is a server for vehicle terminals that speak JT/T 808 over TCP. It
keeps a directory of connected terminals, stores what they report, and lets a
REST API push commands to them. This directory holds TLA+ modules of its code,
the TLC configurations that check them on small instances, and proofs that
TLAPS checks for instances of any size. Paths below are those of the repository
(`src/...`); line numbers of every definition are in `PROJECT.json` under `map`.

## 1. The system

There are two servers in the repository. `main.py` starts the package `jt808`
(TCP server and REST API on one asyncio event loop). The packages `core` and
`protocol` are an older server of the same protocol: nothing starts it, and the
database package it imports, `storage.database`, is not in the repository. Both
are modelled, because the older one solves the problem that the newer one has
(section 4).

| part | state | operations | talks to |
|---|---|---|---|
| TCP server, `jt808/server.py` | per connection: phone of the last frame, byte buffer | read, extract, register, dispatch, reply, idle timeout, cleanup | ConnectionManager, dispatch |
| ConnectionManager, `jt808/handlers.py` | phone → writer | register, unregister, is_online, online_phones, send | server and endpoints, on one loop |
| message handlers, `jt808/handlers.py` | serial counter per phone; tables | touch, registration, authentication, location, acknowledgement, parameters, replies | database |
| REST endpoints, `jt808/api.py` | command log, parameter log | control, set, query: check online, log, push | ConnectionManager.send, database |
| models, `jt808/models.py` | terminals, location_records, command_logs, parameter_logs, users | create_tables, sessions | SQLite or MySQL |
| protocol, `jt808/protocol.py` | none | escape, frame, extract_frames, headers, location parser, builders | everything above |
| legacy server, `core/server.py` | ConnectionRegistry: phone → connection | add, remove, _handle_client | legacy handlers, absent database |
| legacy connection, `core/connection.py` | phone, serial, buffer | feed, send_frame, close | legacy server |
| legacy handlers, `core/handler.py` | none of their own; they set the phone | eight message handlers | absent database |
| legacy protocol, `protocol/` | none | parsers, builders, codec | legacy server |
| simulator, `test_simulator.py` | session, buffer, serial | register, authenticate, report | the TCP port |
| dashboard, `static/index.html` | token, list of terminals, selection, markers, trails | sign in and out, refresh, select, show details | reading endpoints, login |
| seed, deployment | — | sample rows, service files | — |

What makes the code hard is that a coroutine suspends in few places
(`reader.read`, `writer.drain`, database calls of the legacy server) and that
the directory is shared by all of them:

- a terminal reconnects while the handler of its former connection still waits;
- a push found its writer before it waited in `drain()` and removes an entry by
  phone number after it;
- a peer that does not read keeps a coroutine in `drain()`, which has no timeout;
- frames are cut anywhere by TCP, and peers may or may not share the marker
  between two frames;
- commands are acknowledged by serial number, and the counters are 16 bits wide,
  shared with replies, and lost in a restart while the command log is not;
- a handler commits in two steps, and the second may fail;
- in the legacy server a database call suspends a handler between a change of
  the phone number and the registration under it;
- frames are lost with their connection after the server has stored what they
  acknowledge or logged what they command;
- the page runs several asynchronous functions at once, each of which goes on
  with answers to requests it sent under another token or another selection.

What each part has to guarantee: a command goes to the connection on which its
terminal spoke last or to none (TcpServer); "online" means alive and alive means
online (TcpServer, Registry); silent connections end and pushes are answered
(TcpServer); "authenticated" stands for the current code, "acked" for an answered
command, and both survive restarts (Handlers); what a peer frames is what the
server receives (FrameCodec, FrameStream); header, bodies and reports are read in
full or refused, by both stacks alike (Messages, LocationReport); what the server
stores agrees with what the terminals have read (Jt808Server); the page shows the
selected terminal and asks for a new sign-in when it needs one (Dashboard).

## 2. The modules

| module | models | state |
|---|---|---|
| `Terminals` | the phone numbers that both halves of the server share | none: a constant |
| `TcpServer` | `handle_connection`, `ConnectionManager`, the push of the endpoints | `connections`, and per connection `task`, `phone`, `frames`, `transport`; pushes in `request` |
| `Handlers` | `dispatch` and its handlers, the endpoints up to the push, the tables | `terminals`, `location_records`, `command_logs`, `parameter_logs`, `server_serial`, `codes` |
| `Jt808Server` | the composition of the two, with frames in flight | theirs, `wire`, `delivered`, `confirmed` |
| `FrameCodec` | `escape`, `unescape`, `frame`, `extract_frames`, `TerminalConnection.feed` | none: operators |
| `FrameStream` | a peer, a TCP stream in chunks and one of the two receivers | `stream`, `buf`, `received` |
| `Messages` | checksum, header, bodies: both stacks' parsers, the builders, the simulator's registration | none: operators |
| `LocationReport` | both location parsers and the simulator's writer | none: operators |
| `Dict` | the dictionaries that the two above fill, and what a sequence of them comes to | none: operators |
| `Session` | the simulator's `run` against the server, over `FrameCodec` | `phase`, the bytes both ways, both buffers, `authenticated` |
| `Registry` | abstract: what a directory of live connections promises | `route`, `live` |
| `CoreServer` | `_handle_client`, `ConnectionRegistry`, the legacy handlers | `registry`, `task`, `phone`, `frames`, `transport` |
| `Dashboard` | the script of `static/index.html`, with the reading endpoints and login as answers | `token`, `overlay`, `call`, and what the page shows |

`MC...` modules give the constants values and, for modules of operators, name the
inputs that are checked. `MCWire` runs the four modules about bytes side by side.
`HandlersProofs`, `Jt808ServerProofs` (with those about `TcpServer`),
`CoreServerProofs`, `DashboardProofs`, `FrameProofs`, `PayloadProofs` and
`LocationReportProofs` hold the theorems, `SequenceFacts` what the last three need
to know of sequences and of functions defined by recursion.

`Jt808Server` extends `TcpServer` and `Handlers` and conjoins their actions: a
message is a `Dispatch` of the one and a handler of the other, a push is `Push`
and `Command`. Of the TCP half the result does nothing but its steps, by the way
it is put together. For the tables there is something to show: a terminal of
`Handlers` answers any frame that was pushed to it, that of `Jt808Server` only what
it has read, and a push that fails is an endpoint of `Handlers` without a frame. So
`HandlerSpec` is a property of the run and a theorem, and what is shown of the
halves holds of the whole.

**Steps.** A step is what a coroutine does between two suspensions. `task[c]`
says where the coroutine of connection `c` is: `"reading"` in `reader.read`,
`"looping"` between two frames of one chunk, `"draining"` in `writer.drain`, and
in CoreServer also `"identifying"`, `"locating"`, `"recording"` and `"closing"`
in a database call. Between two frames that do not suspend the code runs on
without a break; the models let other coroutines in there. That adds no outcome
that chunks of one frame do not have already, since TCP may cut chunks anywhere.

**The transport** (`open`, `stalled`, `lost`) is asyncio's, modelled from how the
code uses it: `drain()` returns at once on an open transport, waits on a stalled
one, and raises on a lost one. `Stall`, `Unstall` and `Lose` are steps of the
environment and are marked external.

**Data.** In Messages, bytes are numbers, and bodies, phone numbers and parameter
values are sequences of them; character sets are left out. Phones and connections are model values. In TcpServer and CoreServer a
frame is a phone number and what its handler does with the control; in Handlers
it is its fields that are compared or stored. In FrameCodec bytes are the marker,
the escape byte, the two escape codes and "any other". In LocationReport the
additional items are kept byte for byte, and of the 28 bytes before them what
the parsers branch on. Wording, logging and layout are left out.

**History variables** record what the code does not keep: in TcpServer
`lastSpoke` and `contested`, in Handlers `accepted`, `consumed`, `pushed`,
`answered`, `unsaved` and `restarts`, in CoreServer `lastSpoke` and `contested`,
in FrameStream `sent`, `read` and `strays`, in
Jt808Server `delivered` and `confirmed`, in Dashboard `twice` and `used`. They
guard steps through named bounds only, except that the terminal of `Handlers`
answers frames out of `pushed`, and that of `Jt808Server` those it has read.

How the actions correspond to the code:

- `TcpServer`: `Accept`, `ReadChunk`, `ChunkDone` are the outer loop of
  `handle_connection`; `DiscardFrame`, `Dispatch`, `ParseRaises` one turn of the
  frame loop; `IdleTimeout`, `PeerCloses`, `ReadRaises` the ways out, each with
  the finally block (`Finish`), which unregisters the last phone number whatever
  its entry is. `Push` is an endpoint from `_check_online` to the first
  suspension of `ConnectionManager.send`, `SendFails` its except branch.
- `Handlers`: one action per handler, with the commit of `_touch_terminal` before
  it, and one per endpoint up to the push. `TerminalAckFails` is an answer of a
  terminal that is lost because a commit raises: it counts as answered, its row
  stays pending. `HandlerRaises` and `EndpointRaises` are the other failing commits
  and acknowledgements too short to hold their fields; what was committed before
  stays. `ServerRestart` keeps the tables and loses the counters.
- `CoreServer`: `TakeFrame` with `HeaderPhone` and `HeaderRegistry` is the head of
  one turn of the frame loop; `HandleAtOnce`, `HandleAndDrain`, `HandleAndStore`
  are the handlers by where they suspend first; `StoreEnds` and `DrainEnds` go on
  from there and add the connection again; `CoreFinish` and `OfflineDone` are the
  finally block around the call of `set_terminal_offline`. The flag
  `authenticated` and the serial counter of a connection are left out: nothing
  reads the first, and nothing but a log line depends on the second.
- `Jt808Server`: `Answer`, `AnswerLocationReport` and `TakeSilently` are the turns
  of the frame loop by what they leave on the wire, `PushCommand` an endpoint from
  the check to the write, `PushRaises` one that fails before it; `TcpAlone` is
  every step of a connection without a message. `Deliver` takes one frame off a
  wire, `Drop` loses what is in flight on a lost connection. A lost transport
  takes no more frames.
- `Session`: both ends write with `Frame` and read with `ExtractFrames`, in chunks
  of any length; `Resume` is `run` between two calls of `recv_message`. The
  timeout strikes only when nothing is in flight, so no answer is ever late.
- `Dashboard`: a call is `doLogin`, the check of a stored token, `refresh` or
  `selectTerminal`, suspended at one request. `Serve` and `Fails` decide the
  answer, at any time after the request and with the tables of that moment; the
  `...Arrives` actions take it up and run to the next request. A request keeps
  the token it was sent with (`Fetch`, `Detached`).
- `FrameCodec`: `Scan` is the loop of both receivers, which differ in the marker
  they keep (`ExtractFrames`, `FeedFrames`) and in what they do with bytes that
  follow no marker.

## 3. The runs

Seven runs must pass and five end in a counterexample (section 4); the bounds are
in the configurations.

| run | question | instance and why it is enough |
|---|---|---|
| `TcpTerminals` | Do commands go where the terminal spoke last, what does a connection that ends leave in the directory, and what takes a terminal offline? | Two connections of one terminal, one of a gateway with the frames of two, a push, chunks of two frames. The entry of a phone is disturbed by at most one former handler or push at a time, and two connections and a push make both. |
| `TcpLive` | Do silent connections end, are pushes answered, does a talking terminal get its route back? | Two connections of one terminal and a push; temporal properties, no symmetry. |
| `Handlers` | Do the flags in the tables mean what they say? | Two terminals with equal serial numbers, a serial modulus of 3 with three frames each, two registrations, two commands, a restart, any commit failing. |
| `Jt808Server` | Are the tables of the whole those of `Handlers`, and does what is stored agree with what the terminal has read? | A terminal with two connections, two commands, a location report, three serial numbers, a restart: frames in flight on a former connection while the new one is used, a push that fails after its log is committed, an answer that is lost. |
| `Wire` | Is byte stuffing undone and a frame found? Does the way TCP cuts the bytes matter? Are headers, bodies and reports read in full or refused? | Byte strings up to five bytes over the five told apart; three frames with markers and escapes inside, one stray byte, every cut; bodies up to 20 bytes and around 1024, every length in the header, up to three parameters, every cut; up to three items out of eleven, four quadrants, every cut. |
| `Dashboard` | Does the page show what is selected, and offer a sign-in when it must? | Two calls at once, two terminals, and either two clicks in a lasting session, or a session that ends and a request that fails, or an expired token at the start. Answers cross from two calls on. |
| `CoreRegistry` | Does the legacy registry keep the promise of `Registry`, and does it find the newest connection? | A terminal with a number, one that carries two, one without; database calls that end late or raise. |
| `TcpReconnectOnline`, `TcpStalledPeer`, `HandlersAckRestart`, `Session`, `CoreNumberedLater` | Does the code do what its comments say? | The smallest instance with the counterexample. |

What the passing runs show:

- `RouteIsCurrent`: the entry of a phone is the connection that spoke for it last,
  or none. A replaced writer never comes back, whatever late frames, failing
  pushes and ending handlers do.
- `OnlyGatewaysLeaveEntries`: an online phone has a running handler, or leads to a
  connection that has spoken for another phone since. The finally block removes the
  entry of the last phone only, so a gateway that sends the frames of several
  terminals over one connection leaves the others listed as online after it has
  gone; nothing else leaves an entry behind.
- `UncontestedIsOnline`: a terminal whose connection is alive is online, unless a
  handler or a push of an *older* connection of the same terminal was in flight
  when it last spoke. This is exactly how far "online" can be trusted.
- `SilentIsClosed`, `PushIsAnswered`, `HeartbeatRestoresRoute`: liveness, under the
  fairness of section 5.
- `AuthenticatedByCurrentCode`: a terminal shown as authenticated has presented
  the code of its latest registration, across repeated registrations, foreign
  codes, failed commits and restarts.
- `SetsAreTracked`, `AckedIsFinal`: a logged parameter set can be acknowledged; an
  acknowledged command never changes again.
- `AcksMatchAnswers`: as long as no serial number is used twice, a marked command
  was answered, and an answered one is marked unless the commit of an answer to it
  failed (`unsaved`). Such a row stays pending until the terminal answers again; what
  fails never marks another row.
- `AckedWasDelivered`: until a serial number is used twice, a command that is
  marked as acknowledged has been read by its terminal. Frames that are lost with
  a connection, pushes that fail after the log is committed, and answers to
  something else never mark it.
- `SerialsInOrder`: on each connection the frames of a terminal carry increasing
  serial numbers until the counter, which replies and commands share, comes round.
  A number and its frame belong to one step, since nothing suspends in between.
- `ConfirmedIsStored`: a location report that the terminal knows is stored, is:
  also after a failed commit, a restart or a lost connection. The converse does
  not hold; a report whose answer is lost is sent again and stored twice.
- `ChunksDoNotMatter`, `ReceivedWasSent`, `AllReadIsReceived`, `BufferIsBounded`:
  with a peer that suits the receiver, each frame is handed on once and in order,
  and what is kept between two reads is less than a frame.
- `BuiltIsParsed`, `StacksAgree`, `DialogueIsRead`: what one end builds the other
  reads; where the legacy stack accepts a payload the other does too, with the
  same header. A body of 1024 bytes or more keeps only the last ten bits of its
  length in the header, which jt808 does not look at and the legacy stack obeys.
- `ParamsAreRead`: of an answer that is cut, every whole parameter is kept, and at
  most the cut one is added, with what is left of its value.
- `RegistryPromise` with `RegisteredIsLive` and `RegisteredUnderItsNumber`: an
  entry of the legacy registry is *removed* only when its own connection ends or
  takes another number. It may be *replaced*, by any live connection that enters
  itself, and not always by a newer one: a handler that was in the database while the
  terminal connected again adds its former connection afterwards.
- `UncontestedIsRegistered` says how far the registry finds the newest connection:
  always between two of its frames, unless another connection was in a frame of the
  same number when it last spoke. Then the late `add` takes the entry, and the end of
  the former connection leaves none until the newer one speaks again.
- `ReportIsRead`, `CutIsRefusedOrHarmless`, `LegacyReadsWholeItems`: later items
  override earlier ones; jt808 refuses a whole report exactly when it ends inside
  bytes that it reads, the legacy parser keeps the whole items before the cut.
- `SelectedIsMarked`, `DetailsSettle`: answers to earlier clicks may overwrite the
  details of the selected terminal, and the next refresh repairs them; the marks
  on the map and in the sidebar are right at every moment.
- `StrayTrailsAreOfDoubleClicks`: drawTrail says "Remove old trails". Two clicks
  whose requests overlap leave two trails, and if both were on the same terminal
  one of them can never be removed. This is the only way.
- `OnlyTheCheckEndsItsSession`: a session that has not expired is ended by the
  button, by the refusal of a request that was sent with a former token or without
  one (it is: a late 401 wipes the token of a new sign-in), or by the check of the
  stored token when it is answered with an error. Any other request with the
  session's own token, failed or answered late, leaves it alone.
- `SignInIsOffered`: an expired token is noticed, and a page that was opened by a
  late answer to the check of a token that is gone closes again, unless the
  refresh that would find out fails.

Every property has a mutant: a plausible bug (a dropped guard, a missing reset, a
swapped branch), written beside the operator it replaces, that makes the run fail.

`CHECK_DEADLOCK FALSE` stands where counters are bounded (`Handlers`,
`Jt808Server`, `Dashboard`, `Session`) or where the behaviour only grows a datum
(`Wire`). Symmetry is used in `TcpTerminals` and `Jt808Server` (two connections of
one terminal) and `Handlers` (the terminals); none of these runs checks a liveness
property, and no definition distinguishes the permuted values.

## 4. Where the code and its comments disagree

1. `TcpReconnectOnline`. When a terminal has reconnected before its former
   handler ends, `handle_connection`'s finally block removes the *new* entry; the
   terminal is alive, is listed as offline, and refuses commands until its next
   frame. `UncontestedIsOnline` and `HeartbeatRestoresRoute` say what still
   holds. The legacy registry compares the connection first, so that no
   connection removes the entry of another, which is proved (`CoreKeepsItsPromise`);
   it has a rarer case of its own, below.
2. `TcpStalledPeer`. The idle timeout covers `reader.read` only. A handler waits in
   `drain()` for a peer that neither reads nor sends without a limit.
3. `HandlersAckRestart`. After a restart serial numbers start again while
   unacknowledged rows remain; an acknowledgement then marks an old row. The wrap
   at 16 bits does the same after 65536 frames.
4. `Session`. `extract_frames` keeps the end marker as the possible start of the
   next frame. If the next frame brings its own marker, as `frame()` writes it,
   both are dropped and its payload is skipped: on such a connection only the first
   frame is ever extracted. Frames that share markers are extracted (`Wire`), so
   the effect depends on the peer. The simulator does not share them: the server
   sees its registration and never its authentication, heartbeats or reports.
   The simulator, which waits ten seconds for an answer and then goes on as if it
   had come, ends in its main loop unauthenticated.
5. `CoreNumberedLater`. In the legacy server, registration and authentication set
   the number of the connection without telling the registry.

Differences noted and not run:

- `models.py` declares the keys of `location_records`, `command_logs` and
  `parameter_logs` as `BigInteger`. SQLite, the default, numbers rows by itself
  only for `INTEGER` keys, so there an insert into them fails; in the models this
  is `HandlerRaises` and `EndpointRaises`.
- The legacy `build_server_time_response` packs integers where its comment
  promises BCD; the two stacks read a device id of 7 and of 20 bytes; jt808 raises
  on a sub-package of 13 to 15 bytes, and at 16 takes the checksum for a part of
  the packet number; the legacy `bcd_encode` keeps twelve digits.
- The endpoints know a terminal under its twelve digits only, zeros included.
- In the legacy server a former connection that was in its handler while the
  terminal connected again is added afterwards (`core/server.py:101-103`), over the
  newer connection, and removed at its end (line 113): the terminal is connected and
  in no entry until its next frame (`UncontestedIsRegistered`).
- `jt808/server.py:73-74` removes the entry of the last phone of a connection only:
  the other terminals of a gateway stay listed as online, and a push to one of them
  fails with 503 and removes its entry (`OnlyGatewaysLeaveEntries`).
- The check of a stored token (`index.html:677-679`) signs out on any answer that is
  not OK, HTTP 500 included; `get()` signs out on 401 only.
- With no answer at all to the check of a stored token the page keeps its sign-in
  form open while it refreshes behind it.

The two location parsers take the hemispheres from
different status bits (4 and 5, and 2 and 3); the simulator sets the former. The
legacy `feed` never regains its place after a stray *marker*, which is why the
stray bytes of `FrameStream` are not markers.

## 5. Fairness

`LoopFairness` is what one asyncio event loop gives: a coroutine that can run is
run, a read that brings nothing for `IDLE_TIMEOUT` expires, a lost transport is
reported, a `drain()` that has raised resumes. It is stated per connection and per
request, weakly. Nothing is assumed of frames arriving. `PeerFairness` is an
assumption on peers that the code does not enforce: one that does not read resumes
or its connection is lost. `TcpLive` needs it, and `TcpStalledPeer` shows what
happens without it.

In `Dashboard` the browser's timer fires again and again, and each request comes to
an answer or an error, which the page's only thread takes up. Nothing is assumed of
the user. `DetailsSettle` is conditional on a session that lasts; clicks and
failures are bounded, so it says what happens after the last of them. The other
specifications state no fairness.

`SilentIsClosed` and `HeartbeatRestoresRoute` are conditional: the first for a
connection on which chunks stop arriving, the second for a terminal that keeps
sending frames on its only live connection and does not unregister.

## 6. What is proved

Invariants are proved inductive, after the type invariant, for any sets of
connections, phones and requests and any bounds, from the assumptions that each
module names (`...Assumption`; TLC evaluates them in every run of the module).

- `TcpServer`, in `Jt808ServerProofs`: `TcpTypeCorrect`; `PushesFollowTheTerminal`
  (`RouteIsCurrent`, inductive as it stands); `LeftEntriesAreOfGateways`
  (`OnlyGatewaysLeaveEntries`, inductive as it stands once it is said of each writer,
  `LeftByWriter`: the step that ends a coroutine takes away the entry of its last
  phone, and every other entry of it is under another number);
  `UncontestedStaysOnline`. `UncontestedIsOnline` is not
  inductive alone: `UncontestedIsSafe` adds that a push gives up only on a lost
  transport (`FailingIsLost`) and that, once uncontested, nothing of another
  connection is in flight until the terminal speaks again. The proofs have one
  step per action. `HeldIsKept` and `NoPushIsStranded` are what the liveness
  properties rest on and can be proved: a route that nothing of another connection
  can touch stays, step by step, and a push waits only on a transport that will wake
  it and gives up only on a lost one. They are about every step, without fairness;
  that the handlers of former connections do end is left to TLC.
- `HandlersProofs`: `HandlerTypeCorrect`, `AuthenticationIsCurrent`,
  `AckedStaysFinal` (an action property), `SetsStayTracked`,
  `AcksMarkTheirCommands`. The last rests on `AckInvariant`: a pushed command is in the
  log under the number it carries, and without reuse the counter counts exactly the
  numbers taken and a logged command shares its number with its own frame only, so an
  answer finds its own row, and once one is stored that row is marked for good.
- `Jt808Server`, in `Jt808ServerProofs`: `ServerImplementsHandlers`, by steps:
  each action of the composition is one of `Handlers` or leaves the tables alone, which
  needs that only frames that were pushed have been read (`PushIsKnown`).
  `ServerKeepsItsHalves` has the invariants of both halves for the whole (that it does
  nothing else on its connections than `TcpServer` is a lemma, by expanding).
  `AckedMeansDelivered` combines `AckInvariant` of Handlers with
  `AnsweredWasRead`: a marked command was answered, what was answered was read, and
  the number of the command on the frame names its terminal.
  `ConfirmedStaysStored` follows since records are only added and a frame names a
  record that is stored when it is written. `FramesAreInOrder` adds that, until it
  comes round, the counter counts the numbers taken (`CountsTaken`) and is ahead of
  every frame on the wire (`WireBelow`), so that a frame written last is greatest.
  All rest on one invariant, `ServerInv`, and on what a step does to the wire
  (`LinkCases`, `WireWritten`, `WireTaken`).
- `CoreServerProofs`: `CoreTypeCorrect`, `RegisteredAreLive`, `RegisteredAreFound`,
  and `CoreKeepsItsPromise`, that `CoreServer` implements `Registry` under
  `route <- registry`, `live <- ` the connections whose handler runs. All but the
  first assume `NumberedOrNot`: a terminal has a number in all its frames or in none.
  `CoreNumberedLater` shows that they fail without it. The invariant is that a
  connection's number is one its frames have carried (`PhoneIsSpoken`) and that
  an entry is a live connection under its own number (`EntriesAreOwn`). The
  argument goes through the kinds of steps (`StepKinds`): a turn of a live
  handler, which leaves the registry alone, forgets the connection or has it
  under its new number and no other; a connection that begins or ends; a step
  that touches none of it. Each kind is one action of `Registry` or a stutter.
  `UncontestedStaysRegistered` assumes nothing about the numbers: while a terminal is
  uncontested no other connection is in a frame of its number (`Undisturbed`), and
  only what is in a frame is ever added.

- `DashboardProofs`: `SelectionIsMarked`, `OnlyDoubleClicksStray` and the action
  property `SessionsOutliveTheirGets`, for any number of terminals and of calls
  at once. One invariant, `DashInv`: two calls wait for the trail of one terminal
  only if it was selected again meanwhile (`AwaitedOnce`); while a trail is awaited
  none of its terminal is kept, or it was selected again (`AwaitedIsNotKept`); what
  is kept is drawn; and a refusal of a request with the token of the page means
  that this token is no longer good (`DeniedHasExpired`).
- `FrameProofs`, for strings and streams of any length and any cut into chunks.
  Of the operators: `StuffingIsUndone`, `StuffedHasNoMarker`, `FramedIsExtracted`.
  Of the stream: `ChunkingIsIrrelevant`, `AllThatIsReadIsReceived`,
  `NothingIsInvented`, `BufferStaysSmall`.
- `PayloadProofs`, for bodies, phone numbers and registrations of any size:
  `AnyMessageIsParsed`, `RegistrationIsRead`, and the properties of the run
  `WhatIsBuiltIsParsed`, `TheStacksAgree`, `TheDialogueIsRead`. For any number of
  parameters, cut anywhere: `TheParamsAreRead`, and `AnyParamsAreRead` for parameters
  of any ids and values.
- `LocationReportProofs`, for reports of any number of items: the properties of the
  run `TheReportIsRead`, `NoCutIsMisread`, `LegacyReadsWhatIsWhole`, and
  `AnyReportIsRead`, which is all three for items of any id, any size and any bytes.

The proofs about bytes go as follows. `Unescape` and `Scan` are functions defined by
recursion over the positions of a string. `RankedRecursion` of `SequenceFacts` says
that such a function exists when each value depends on values of lower rank only;
`UnescapeUnfolds` and `ScanUnfolds` apply it, and from there on only the equations
are used. An induction is one over a *set* of positions, strings or numbers, given
as `{x \in S : P(x)}` (`SetInduction`, `AppendInduction`), which needs no operator
as a parameter. `ScanOfConcat` carries the stream: to scan `a \o b` is to scan `a`,
and then what was left of it followed by `b`. From it follow `ReceiveConcat` and
`FramesOfConcat`, and from these `ReceivesAsOne`, which is `ChunksDoNotMatter` and
inductive after the type invariant.

`AllReadIsReceived` is about the moment when nothing is on its way. Its invariant
`WholeIsSent` is about every moment: a receiver that were given at once all that was
read and all that is still on its way would hand on exactly what was sent, and would
keep nothing (`feed`), or one marker followed by the stray bytes since the last frame
(`extract_frames`), or these bytes alone before the first. Since what was received is
a part of that from its beginning on, `ReceivedWasSent` follows too. Both theorems
assume `Suited`: the peer separates frames in the way that its receiver expects,
stray bytes are no markers, and no run of them passes for a payload, which is what
the checksum is there for. TLC evaluates `Suited` for the instance of `Wire`.
`Session` is what happens without it. `ChunkingIsIrrelevant` assumes nothing.

`BufferStaysSmall` needs no `Suited` either. Its invariant `GapInv` is about the bytes
themselves: between a marker and the next one there are no more bytes than a stuffed
payload and the stray bytes have (`GapsAreShort`), and no more after the last one
(`EndIsShort`). What a receiver keeps begins at the last marker, or is what comes
before the first. It assumes that there is a payload, since the bound is its frame.

`PayloadProofs` finds each field of a message or of a registration where it was put
(`LaidOut`, `At`): a message is six sequences one after the other, and what a parser
cuts out at a fixed place is one of them. From `HeaderIsFound` and `BothParse`, which
are about any header and any body, follow `StacksAgree`, for a header of any length,
and `AnyMessageIsParsed`, where the length is the one of the body. Two numbers matter
there: the ten bits of the length, which is why the legacy body is cut at `% 1024`,
and the bit that announces packet numbers, which no such length sets. A registration
is read if its texts fit their fields and do not end with a zero byte, since
`Stripped` could not tell that byte from the padding; `SomeIsARegistration` is that
the checks use such ones. The behaviours of `MCMessages` enter only by the invariant
that `size` is a natural number: the bounds on it are not used.

The loop of `handle_params_response` is a function on positions too (`StoredUnfolds`),
and a round of it depends on the bytes from there on only (`RoundsShifted`). So the
first parameter can be taken off the front (`ParamIsStored`), and by induction on the
parameters what is stored of whole ones and of the bytes after them is what they mean,
updated with what is stored of these bytes (`ParamsAreStored`). Where an answer is cut,
these are fewer than five bytes, which store nothing (`WholeOnesAreStored`), or a
parameter whose length is told but whose value has lost its end: Python's slice stores
what is there, and the loop ends (`CutOneIsStored`). `HeadsAre` finds which of the two
it is for the parameter that `ParamsAreRead` takes for the last. The behaviours enter
by the invariant that the parameters are among those of the checks (`ParamsOK`).

`LocationReportProofs` takes the loops over the additional items for what they are,
functions on positions (`JtUnfolds`, `LegacyUnfolds`). What a loop reads from a
position on depends on the bytes from there on only (`JtShifted`, `LegacyShifted`), so
that an item can be taken off the front (`JtReadsItem`, `LegacyReadsItem`). From this,
by induction on the items, `ItemsAreRead`: whole items say what each of them says, the
later one overriding the earlier, and then the loop goes on with whatever bytes follow.
What follows is nothing, or the first bytes of one more item (`WholeOnes`), of which a
single byte says nothing, and more of it is refused by jt808 or read as far as it needs,
and left alone by the legacy parser (`CutIsRead`). `JtSaid` and `LegacySaid` are not
recursive: what is said of a field is what its last item says (`JtSaidAppend`). All
this holds for items of which is known what each parser makes of them alone
(`AreRead`). For the items of the run it is written down beside them, and
`SomeItemsAreRead` proves it; for any other item it is what `JtItem` and `LegacyItem`
give (`AnyItemsAreRead`).

Only model-checked: the liveness properties, since proofs of liveness under fairness and
of ENABLED are beyond the prover, and what the runs with an expected violation refute.

## 7. What is not modelled

- Filters and pages of the reading endpoints, `/health`, password hashes and the
  users table: they change no state, and of the answers only what the page acts on
  is in `Dashboard`.
- Text and number conversions: character sets, BCD times, floats. Phone numbers are
  digits; one that BCD could not hold is not considered. Sub-packages are parsed
  but never put together, by either server.
- SQLite's shared connection: with `StaticPool` all sessions of the process use
  one connection, so worker threads of the reading endpoints can end a
  transaction of the event loop. The models take a commit as atomic and a session
  as isolated.
- What the legacy server stores: its database is not in the repository. It is a
  call that suspends, returns or raises.
- The seed script: `HandlerInit` starts from empty tables. Its sample rows include
  a pending command and a parameter set without a command row, to which
  `SetsAreTracked` and `AcksMatchAnswers` do not apply.
- Commands pushed to the simulator, the drift of its position; the wording and
  layout of the page; deployment.

## 8. The plan

Done, in this order: TcpServer and Handlers with runs and proofs, FrameCodec and
FrameStream, Registry and CoreServer with the refinement, LocationReport, Messages,
Jt808Server with its refinement, Dashboard, Session.

What could follow:

1. That `TcpServer` implements a weaker `Registry`, in which an entry may also be
   forgotten by others.
2. The SQLite pool, with the event loop and the worker threads, once its behaviour
   is pinned down by a version of its library.
3. Liveness of CoreServer: a handler that waits for the database or in `drain()`.
