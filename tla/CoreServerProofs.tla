--------------------------- MODULE CoreServerProofs ---------------------------
(***************************************************************************)
(* Proofs about CoreServer, for any number of connections and phone        *)
(* numbers: the type invariant, and that the last speaker is found; then,  *)
(* as long as each terminal has a number in all its frames or in none,     *)
(* what the entries of the registry are, and that the server implements    *)
(* Registry.                                                               *)
(***************************************************************************)
EXTENDS CoreServer, TLAPS

\* The number of a connection is one that its frames have carried.
PhoneIsSpoken == \A c \in Conns : phone[c] \in Speaks[c] \cup {None}

EntriesAreOwn ==
    \A p \in Phones :
        registry[p] # None => Live(registry[p]) /\ phone[registry[p]] = p

CoreInv == CoreTypeOK /\ PhoneIsSpoken /\ EntriesAreOwn

\* What every step of a live handler that stays alive is: only its own task and
\* number change, and the registry is left alone, or forgets the connection, or
\* has it under the number it has afterwards and under no other.
Turn(c) ==
    /\ Live(c)
    /\ task'[c] \in LiveTasks
    /\ \A d \in Conns \ {c} : task'[d] = task[d] /\ phone'[d] = phone[d]
    /\ phone'[c] \in Speaks[c] \cup {None}
    /\ \/ /\ registry' = registry
          /\ phone'[c] = phone[c] \/ \A q \in Phones : registry[q] # c
       \/ registry' = Promise!Forget(c)
       \/ /\ phone'[c] \in Phones
          /\ registry' = [Promise!Forget(c) EXCEPT ![phone'[c]] = c]

-----------------------------------------------------------------------------
(* Lemmas *)

\* The numbers under which a connection stands in the registry: its own.
LEMMA ForgetIsRemove ==
    ASSUME CoreInv, NEW c \in Conns
    PROVE  /\ Promise!Forget(c) = Remove(registry, c, phone[c])
           /\ phone[c] = None => \A q \in Phones : registry[q] # c
<1>1. \A q \in Phones : registry[q] = c => phone[c] = q
  BY CoreNoneAssumption DEF CoreInv, EntriesAreOwn
<1>2. phone[c] = None => \A q \in Phones : registry[q] # c
  BY <1>1, CoreNoneAssumption
<1>3. registry = [q \in Phones |-> registry[q]]
  BY DEF CoreInv, CoreTypeOK
<1>4. CASE phone[c] = None
  BY <1>2, <1>3, <1>4 DEF Promise!Forget, Remove
<1>5. CASE phone[c] # None
  <2>1. phone[c] \in Phones
    BY <1>5 DEF CoreInv, CoreTypeOK
  <2>2. CASE registry[phone[c]] = c
    BY <1>1, <1>3, <1>5, <2>1, <2>2 DEF Promise!Forget, Remove
  <2>3. CASE registry[phone[c]] # c
    BY <1>1, <1>3, <1>5, <2>1, <2>3 DEF Promise!Forget, Remove
  <2>4. QED
    BY <1>2, <2>2, <2>3
<1>6. QED
  BY <1>4, <1>5

\* Entering a connection under the number that it has anyway.
LEMMA AddIsSpeak ==
    ASSUME CoreInv, NEW c \in Conns, phone[c] # None
    PROVE  /\ phone[c] \in Phones
           /\ Add(registry, c, phone[c])
                = [Promise!Forget(c) EXCEPT ![phone[c]] = c]
<1>1. phone[c] \in Phones
  BY DEF CoreInv, CoreTypeOK
<1>2. registry = [q \in Phones |-> registry[q]]
  BY DEF CoreInv, CoreTypeOK
<1>3. CASE registry[phone[c]] = c
  BY <1>1, <1>2, <1>3, ForgetIsRemove, CoreNoneAssumption DEF Add, Remove
<1>4. CASE registry[phone[c]] # c
  BY <1>1, <1>2, <1>4, ForgetIsRemove, CoreNoneAssumption DEF Add, Remove
<1>5. QED
  BY <1>1, <1>3, <1>4

\* The registry as a function, with the entries of a connection forgotten.
LEMMA ForgetType ==
    ASSUME CoreInv, NEW c \in Conns
    PROVE  /\ Promise!Forget(c) \in [Phones -> Conns \cup {None}]
           /\ \A q \in Phones :
                Promise!Forget(c)[q] = IF registry[q] = c THEN None
                                       ELSE registry[q]
BY DEF CoreInv, CoreTypeOK, Promise!Forget

\* The header of a frame: what it makes of the number and of the registry.
LEMMA HeaderStep ==
    ASSUME CoreInv, NumberedOrNot,
           NEW c \in Conns, NEW p \in Speaks[c]
    PROVE  LET h == HeaderPhone(c, p)
               R == HeaderRegistry(c, p)
           IN  /\ p \in Phones
               /\ h \in Speaks[c] \cup {None}
               /\ \/ R = registry /\ h = phone[c]
                  \/ h \in Phones /\ R = [Promise!Forget(c) EXCEPT ![h] = c]
                  \/ R = Promise!Forget(c)
               /\ h # None => Add(R, c, h)
                                = [Promise!Forget(c) EXCEPT ![h] = c]
               /\ h = None => R = registry /\ phone[c] = None
<1> DEFINE h == HeaderPhone(c, p)
           R == HeaderRegistry(c, p)
<1>1. /\ p \in Phones /\ p # None
      /\ phone[c] \in Speaks[c] \cup {None}
      /\ Speaks[c] \subseteq Phones
  BY CoreSpeaksAssumption, CoreNoneAssumption DEF CoreInv, PhoneIsSpoken
<1>2. h \in Speaks[c] \cup {None}
  BY <1>1 DEF HeaderPhone
<1>3. CASE h = phone[c]
  <2>1. R = registry
    BY <1>3 DEF HeaderRegistry
  <2>2. h # None => Add(R, c, h) = [Promise!Forget(c) EXCEPT ![h] = c]
    BY <1>3, <2>1, AddIsSpeak
  <2>3. QED
    BY <1>1, <1>2, <1>3, <2>1, <2>2
<1>4. CASE h # phone[c] /\ phone[c] = None
  <2>1. h = p /\ h \in Phones /\ h # None
    BY <1>1, <1>4 DEF HeaderPhone
  <2>2. R = [registry EXCEPT ![h] = c]
    BY <1>4, <2>1 DEF HeaderRegistry, Add
  <2>3. Promise!Forget(c) = registry
    BY <1>4, ForgetIsRemove DEF Remove
  <2>4. Add(R, c, h) = [Promise!Forget(c) EXCEPT ![h] = c]
    BY <2>1, <2>2, <2>3 DEF Add, CoreInv, CoreTypeOK
  <2>5. QED
    BY <1>1, <1>2, <2>1, <2>2, <2>3, <2>4
<1>5. CASE h # phone[c] /\ phone[c] # None
  <2>1. h \in Phones /\ h # None
    BY <1>1, <1>5 DEF HeaderPhone
  <2>2. R = Promise!Forget(c)
    BY <1>5, ForgetIsRemove DEF HeaderRegistry
  <2>3. QED
    BY <1>1, <1>2, <2>1, <2>2 DEF Add
<1>6. QED
  BY <1>3, <1>4, <1>5

\* A turn keeps the entries right.
LEMMA TurnKeepsEntries ==
    ASSUME CoreInv, NEW c \in Conns, Turn(c)
    PROVE  EntriesAreOwn'
<1> SUFFICES ASSUME NEW p \in Phones, registry'[p] # None
             PROVE  /\ task'[registry'[p]] \in LiveTasks
                    /\ phone'[registry'[p]] = p
  BY DEF EntriesAreOwn, Live
<1>1. \A q \in Phones : registry[q] # None =>
        /\ registry[q] \in Conns
        /\ task[registry[q]] \in LiveTasks
        /\ phone[registry[q]] = q
  BY DEF CoreInv, CoreTypeOK, EntriesAreOwn, Live
<1>2. CASE registry' = registry
  BY <1>1, <1>2 DEF Turn, Promise!Forget
<1>3. CASE registry' = Promise!Forget(c)
  BY <1>1, <1>3, ForgetType DEF Turn
<1>4. CASE /\ phone'[c] \in Phones
           /\ registry' = [Promise!Forget(c) EXCEPT ![phone'[c]] = c]
  BY <1>1, <1>4, ForgetType DEF Turn
<1>5. QED
  BY <1>2, <1>3, <1>4 DEF Turn

\* A turn is a step of Registry, or none.
LEMMA TurnIsPromised ==
    ASSUME CoreInv, NEW c \in Conns, Turn(c)
    PROVE  [Promise!RegistryNext]_(Promise!registryVars)
<1>1. {d \in Conns : Live(d)}' = {d \in Conns : Live(d)}
  BY DEF Turn, Live
<1>2. c \in {d \in Conns : Live(d)}
  BY DEF Turn
<1>3. CASE registry' = registry
  BY <1>1, <1>3 DEF Promise!registryVars
<1>4. CASE registry' = Promise!Forget(c)
  BY <1>1, <1>2, <1>4 DEF Promise!RegistryNext, Promise!MoveOn
<1>5. CASE /\ phone'[c] \in Phones
           /\ registry' = [Promise!Forget(c) EXCEPT ![phone'[c]] = c]
  BY <1>1, <1>2, <1>5 DEF Promise!RegistryNext, Promise!Speak
<1>6. QED
  BY <1>3, <1>4, <1>5 DEF Turn

-----------------------------------------------------------------------------
(* The steps *)

\* Every step keeps the types.
LEMMA StepKeepsTypes ==
    ASSUME CoreTypeOK, [CoreNext]_coreVars
    PROVE  CoreTypeOK'
<1>1. CASE UNCHANGED coreVars
  BY <1>1 DEF CoreTypeOK, coreVars, history
<1> SUFFICES ASSUME NEW c \in Conns,
                    \/ HandleClient(c) \/ CoreStall(c)
                    \/ CoreUnstall(c) \/ CoreLose(c)
             PROVE  CoreTypeOK'
  BY <1>1 DEF CoreNext
<1> USE CoreMaxChunkAssumption DEF LiveTasks, InFrame, Storing, history
<1>2. ASSUME NEW number \in Phones \cup {None}, SpeakFor(c, number)
      PROVE  /\ lastSpoke' \in [Phones -> Conns \cup {None}]
             /\ contested' \in [Phones -> BOOLEAN]
  BY <1>2 DEF SpeakFor, CoreTypeOK
<1>3. ASSUME NEW entries \in [Phones -> Conns \cup {None}],
             NEW p \in Phones \cup {None}
      PROVE  /\ Add(entries, c, p) \in [Phones -> Conns \cup {None}]
             /\ Remove(entries, c, p) \in [Phones -> Conns \cup {None}]
  BY <1>3 DEF Add, Remove
<1>4. ASSUME NEW p \in Phones
      PROVE  /\ HeaderPhone(c, p) \in Phones \cup {None}
             /\ HeaderRegistry(c, p) \in [Phones -> Conns \cup {None}]
  BY <1>3 DEF HeaderPhone, HeaderRegistry, CoreTypeOK
<1>5. ASSUME NEW p \in Phones, TakeFrame(c, p)
      PROVE  frames' \in [Conns -> 0..MaxChunk]
  BY <1>5 DEF TakeFrame, CoreTypeOK
<1>6. CASE CoreAccept(c)
  BY <1>6 DEF CoreAccept, CoreTypeOK
<1>7. CASE \E n \in 0..MaxChunk : CoreReadChunk(c, n)
  BY <1>7 DEF CoreReadChunk, CoreTypeOK
<1>8. CASE CoreChunkDone(c)
  BY <1>8 DEF CoreChunkDone, CoreTypeOK
<1>9. ASSUME NEW p \in Phones, HandleAtOnce(c, p)
      PROVE  CoreTypeOK'
  BY <1>2, <1>3, <1>4, <1>5, <1>9 DEF HandleAtOnce, CoreTypeOK
<1>10. ASSUME NEW p \in Phones, HandleAndDrain(c, p)
       PROVE  CoreTypeOK'
  BY <1>2, <1>4, <1>5, <1>10 DEF HandleAndDrain, CoreTypeOK
<1>11. ASSUME NEW p \in Phones, NEW step \in Storing,
              HandleAndStore(c, p, step)
       PROVE  CoreTypeOK'
  <2> DEFINE number == IF \/ step = "identifying"
                          \/ step = "locating" /\ HeaderPhone(c, p) = None
                       THEN p ELSE HeaderPhone(c, p)
  <2>1. number \in Phones \cup {None}
    BY <1>4
  <2>2. /\ phone' = [phone EXCEPT ![c] = number]
        /\ SpeakFor(c, number)
    BY <1>11 DEF HandleAndStore
  <2> HIDE DEF number
  <2>3. QED
    BY <1>2, <1>4, <1>5, <1>11, <2>1, <2>2 DEF HandleAndStore, CoreTypeOK
<1>12. ASSUME NEW answers \in BOOLEAN, StoreEnds(c, answers)
       PROVE  CoreTypeOK'
  <2>1. Add(registry, c, phone[c]) \in [Phones -> Conns \cup {None}]
    BY <1>3 DEF CoreTypeOK
  <2>2. QED
    BY <1>12, <2>1 DEF StoreEnds, CoreTypeOK
<1>13. CASE DrainEnds(c)
  BY <1>3, <1>13 DEF DrainEnds, CoreTypeOK
<1>14. ASSUME CoreFinish(c)
       PROVE  CoreTypeOK'
  BY <1>3, <1>14 DEF CoreFinish, CoreTypeOK
<1>15. CASE CoreIdleTimeout(c) \/ CorePeerCloses(c) \/ CoreReadRaises(c)
  BY <1>14, <1>15 DEF CoreIdleTimeout, CorePeerCloses, CoreReadRaises
<1>16. ASSUME NEW raised \in BOOLEAN, OfflineDone(c, raised)
       PROVE  CoreTypeOK'
  BY <1>16 DEF OfflineDone, CoreTypeOK
<1>17. CASE CoreStall(c) \/ CoreUnstall(c) \/ CoreLose(c)
  BY <1>17 DEF CoreStall, CoreUnstall, CoreLose, CoreTypeOK
<1>18. QED
  BY <1>6, <1>7, <1>8, <1>9, <1>10, <1>11, <1>12, <1>13, <1>15, <1>16, <1>17
     DEF HandleClient

\* What any other step is to the registry: it connects or disconnects, or
\* touches neither numbers nor entries nor who is alive.
Connects(c) ==
    /\ ~Live(c) /\ task'[c] \in LiveTasks
    /\ phone'[c] = None
    /\ registry' = registry

Disconnects(c) ==
    /\ Live(c) /\ task'[c] \notin LiveTasks
    /\ phone'[c] = phone[c]
    /\ registry' = Promise!Forget(c)

Aside(c) ==
    /\ Live(c) <=> task'[c] \in LiveTasks
    /\ phone'[c] = phone[c]
    /\ registry' = registry

Others(c) ==
    \A d \in Conns \ {c} : task'[d] = task[d] /\ phone'[d] = phone[d]

\* Every step of the server is of one of these four kinds.
LEMMA StepKinds ==
    ASSUME CoreInv, NumberedOrNot, NEW c \in Conns,
           HandleClient(c) \/ CoreStall(c) \/ CoreUnstall(c) \/ CoreLose(c)
    PROVE  \/ Turn(c)
           \/ Others(c) /\ (Connects(c) \/ Disconnects(c) \/ Aside(c))
<1> USE DEF LiveTasks, InFrame, Storing, Live
<1>1. /\ task \in [Conns -> {"closing", "closed", "leaked"} \cup LiveTasks]
      /\ phone \in [Conns -> Phones \cup {None}]
      /\ phone[c] \in Speaks[c] \cup {None}
  BY DEF CoreInv, CoreTypeOK, PhoneIsSpoken
<1>2. ASSUME NEW p \in Phones, HandleAtOnce(c, p)
      PROVE  Turn(c)
  <2>1. p \in Speaks[c] /\ Live(c)
    BY <1>2 DEF HandleAtOnce, TakeFrame
  <2>2. phone'[c] = HeaderPhone(c, p)
    BY <1>1, <1>2 DEF HandleAtOnce
  <2>3. CASE HeaderPhone(c, p) = None
    BY <1>1, <1>2, <2>1, <2>2, <2>3, HeaderStep DEF HandleAtOnce, Turn, Add
  <2>4. CASE HeaderPhone(c, p) # None
    <3>1. HeaderPhone(c, p) \in Phones
      BY <2>1, <2>4, HeaderStep, CoreSpeaksAssumption
    <3>2. registry' = [Promise!Forget(c) EXCEPT ![phone'[c]] = c]
      BY <1>2, <2>1, <2>2, <2>4, HeaderStep DEF HandleAtOnce
    <3>3. phone'[c] \in Speaks[c] \cup {None}
      BY <2>1, <2>2, HeaderStep
    <3>4. QED
      BY <1>1, <1>2, <2>1, <2>2, <3>1, <3>2, <3>3 DEF HandleAtOnce, Turn
  <2>5. QED
    BY <2>3, <2>4
<1>3. ASSUME NEW p \in Phones, NEW state, state \in LiveTasks,
             TakeFrame(c, p),
             task' = [task EXCEPT ![c] = state],
             registry' = HeaderRegistry(c, p),
             NEW number, phone' = [phone EXCEPT ![c] = number],
             \/ number = HeaderPhone(c, p)
             \/ number = p /\ (p = Zero \/ HeaderPhone(c, p) = None)
      PROVE  Turn(c)
  <2>1. p \in Speaks[c] /\ p \in Phones /\ p # None /\ Live(c)
    BY <1>3, CoreNoneAssumption DEF TakeFrame
  <2>2. phone'[c] = number /\ task'[c] = state /\ Others(c)
    BY <1>1, <1>3 DEF Others
  <2>3. CASE number = HeaderPhone(c, p)
    BY <1>3, <2>1, <2>2, <2>3, HeaderStep DEF Turn, Others
  <2>4. CASE number = p /\ (p = Zero \/ HeaderPhone(c, p) = None)
    <3>1. HeaderRegistry(c, p) = registry
      BY <2>1, <2>4, HeaderStep DEF HeaderPhone, HeaderRegistry
    <3>2. phone[c] = p \/ phone[c] = None
      BY <1>1, <2>1, <2>4, HeaderStep DEF NumberedOrNot, HeaderPhone
    <3>3. QED
      BY <1>3, <2>1, <2>2, <2>4, <3>1, <3>2, ForgetIsRemove DEF Turn, Others
  <2>5. QED
    BY <1>3, <2>3, <2>4
<1>4. ASSUME NEW p \in Phones, HandleAndDrain(c, p)
      PROVE  Turn(c)
  BY <1>3, <1>4 DEF HandleAndDrain
<1>5. ASSUME NEW p \in Phones, NEW step \in Storing,
             HandleAndStore(c, p, step)
      PROVE  Turn(c)
  <2> DEFINE number == IF \/ step = "identifying"
                          \/ step = "locating" /\ HeaderPhone(c, p) = None
                       THEN p ELSE HeaderPhone(c, p)
  <2>1. number = p => p = Zero \/ number = HeaderPhone(c, p)
                      \/ HeaderPhone(c, p) = None
    BY DEF HeaderPhone
  <2>2. phone' = [phone EXCEPT ![c] = number]
    BY <1>5 DEF HandleAndStore
  <2>3. \/ number = HeaderPhone(c, p)
        \/ number = p /\ (p = Zero \/ HeaderPhone(c, p) = None)
    BY <2>1
  <2> HIDE DEF number
  <2>4. QED
    BY <1>3, <1>5, <2>2, <2>3 DEF HandleAndStore
<1>6. ASSUME registry' = registry \/ registry' = Add(registry, c, phone[c]),
             phone' = phone, Live(c),
             NEW state \in LiveTasks, task' = [task EXCEPT ![c] = state]
      PROVE  Turn(c)
  <2>1. CASE registry' = registry
    BY <1>1, <1>6, <2>1 DEF Turn
  <2>2. CASE registry' = Add(registry, c, phone[c]) /\ phone[c] = None
    BY <1>1, <1>6, <2>2 DEF Turn, Add
  <2>3. CASE registry' = Add(registry, c, phone[c]) /\ phone[c] # None
    BY <1>1, <1>6, <2>3, AddIsSpeak DEF Turn
  <2>4. QED
    BY <1>6, <2>1, <2>2, <2>3
<1>7. ASSUME NEW answers \in BOOLEAN, StoreEnds(c, answers)
      PROVE  Turn(c)
  BY <1>6, <1>7 DEF StoreEnds
<1>8. CASE DrainEnds(c)
  BY <1>6, <1>8 DEF DrainEnds
<1>9. CASE (\E n \in 0..MaxChunk : CoreReadChunk(c, n)) \/ CoreChunkDone(c)
  BY <1>6, <1>9 DEF CoreReadChunk, CoreChunkDone
<1>10. CASE CoreAccept(c)
  BY <1>1, <1>10 DEF CoreAccept, Connects, Others
<1>11. ASSUME CoreFinish(c), task[c] = "reading"
       PROVE  Disconnects(c) /\ Others(c)
  BY <1>1, <1>11, ForgetIsRemove DEF CoreFinish, Disconnects, Others
<1>12. CASE CoreIdleTimeout(c) \/ CorePeerCloses(c) \/ CoreReadRaises(c)
  BY <1>11, <1>12 DEF CoreIdleTimeout, CorePeerCloses, CoreReadRaises
<1>13. CASE \E raised \in BOOLEAN : OfflineDone(c, raised)
  BY <1>1, <1>13 DEF OfflineDone, Aside, Others
<1>14. CASE CoreStall(c) \/ CoreUnstall(c) \/ CoreLose(c)
  BY <1>1, <1>14 DEF CoreStall, CoreUnstall, CoreLose, Aside, Others
<1>15. QED
  BY <1>2, <1>4, <1>5, <1>7, <1>8, <1>9, <1>10, <1>12, <1>13, <1>14
     DEF HandleClient

\* The invariant holds at first, and every step keeps it.
LEMMA InvAtFirst ==
    ASSUME CoreInit
    PROVE  CoreInv
BY CoreMaxChunkAssumption
   DEF CoreInit, CoreInv, CoreTypeOK, PhoneIsSpoken, EntriesAreOwn

LEMMA InvIsKept ==
    ASSUME CoreInv, NumberedOrNot, [CoreNext]_coreVars
    PROVE  CoreInv'
<1>1. CoreTypeOK'
  BY StepKeepsTypes DEF CoreInv
<1>2. CASE UNCHANGED coreVars
  BY <1>1, <1>2
     DEF coreVars, CoreInv, PhoneIsSpoken, EntriesAreOwn, Live
<1>3. ASSUME NEW c \in Conns, Turn(c)
      PROVE  CoreInv'
  <2>1. PhoneIsSpoken'
    BY <1>3 DEF Turn, CoreInv, PhoneIsSpoken
  <2>2. QED
    BY <1>1, <1>3, <2>1, TurnKeepsEntries DEF CoreInv
<1>4. ASSUME NEW c \in Conns, Others(c),
             Connects(c) \/ Disconnects(c) \/ Aside(c)
      PROVE  CoreInv'
  <2>1. PhoneIsSpoken'
    BY <1>4
       DEF Others, Connects, Disconnects, Aside, CoreInv, PhoneIsSpoken
  <2>2. /\ registry \in [Phones -> Conns \cup {None}]
        /\ \A q \in Phones : registry[q] # None =>
             /\ registry[q] \in Conns
             /\ task[registry[q]] \in LiveTasks
             /\ phone[registry[q]] = q
    BY DEF CoreInv, CoreTypeOK, EntriesAreOwn, Live
  <2>3. ASSUME NEW p \in Phones, registry'[p] # None
        PROVE  /\ task'[registry'[p]] \in LiveTasks
               /\ phone'[registry'[p]] = p
    <3>1. CASE Connects(c)
      BY <1>4, <2>2, <2>3, <3>1 DEF Connects, Others, Live
    <3>2. CASE Disconnects(c)
      BY <1>4, <2>2, <2>3, <3>2, ForgetType DEF Disconnects, Others
    <3>3. CASE Aside(c)
      BY <1>4, <2>2, <2>3, <3>3 DEF Aside, Others, Live
    <3>4. QED
      BY <1>4, <3>1, <3>2, <3>3
  <2>4. EntriesAreOwn'
    BY <2>3 DEF EntriesAreOwn, Live
  <2>5. QED
    BY <1>1, <2>1, <2>4 DEF CoreInv
<1>5. QED
  BY <1>2, <1>3, <1>4, StepKinds DEF CoreNext

\* Every step of the server is one of Registry, or none.
LEMMA StepIsPromised ==
    ASSUME CoreInv, NumberedOrNot, [CoreNext]_coreVars
    PROVE  [Promise!RegistryNext]_(Promise!registryVars)
<1>1. CASE UNCHANGED coreVars
  BY <1>1 DEF coreVars, Promise!registryVars, Live
<1>2. ASSUME NEW c \in Conns, Turn(c)
      PROVE  [Promise!RegistryNext]_(Promise!registryVars)
  BY <1>2, TurnIsPromised
<1>3. ASSUME NEW c \in Conns, Others(c), Connects(c)
      PROVE  Promise!Connect(c)
  BY <1>3 DEF Others, Connects, Live, Promise!Connect
<1>4. ASSUME NEW c \in Conns, Others(c), Disconnects(c)
      PROVE  Promise!Disconnect(c)
  BY <1>4 DEF Others, Disconnects, Live, Promise!Disconnect
<1>5. ASSUME NEW c \in Conns, Others(c), Aside(c)
      PROVE  UNCHANGED Promise!registryVars
  BY <1>5 DEF Others, Aside, Live, Promise!registryVars
<1>6. QED
  BY <1>1, <1>2, <1>3, <1>4, <1>5, StepKinds
     DEF CoreNext, Promise!RegistryNext

-----------------------------------------------------------------------------
(* The connection that last spoke for a number *)

Between == {"reading", "looping"}

\* No other connection is in a frame of a number whose last speaker is not
\* contested: so nobody else will add itself, and the last speaker, once it has
\* been added, stays.
Undisturbed ==
    \A p \in Phones, c \in Conns :
        lastSpoke[p] = c /\ ~contested[p] =>
          /\ \A d \in Conns \ {c} : phone[d] = p => task[d] \notin InFrame
          /\ phone[c] = p /\ task[c] \in Between => registry[p] = c

\* What the steps of one connection are to the registry, the history, and its
\* own number and task: it begins a frame,
Begins(e) ==
    /\ phone'[e] \in Phones \cup {None}
    /\ SpeakFor(e, phone'[e])
    /\ phone'[e] # None => task'[e] \in InFrame \/ registry'[phone'[e]] = e
    /\ \A q \in Phones \ {phone'[e]} : registry[q] # e => registry'[q] = registry[q]

\* ends one, or waits once more in it,
Ends(e) ==
    /\ task[e] \in InFrame
    /\ phone'[e] = phone[e]
    /\ UNCHANGED history
    /\ \/ task'[e] \notin InFrame /\ registry' = Add(registry, e, phone[e])
       \/ task'[e] \in InFrame /\ registry' = registry

\* leaves,
Leaves(e) ==
    /\ task'[e] \notin Between \cup InFrame
    /\ UNCHANGED history
    /\ \A q \in Phones : registry[q] # e => registry'[q] = registry[q]

\* or does none of this.
Stays(e) ==
    /\ task'[e] \in InFrame => task[e] \in InFrame /\ phone'[e] = phone[e]
    /\ task'[e] \in Between =>
         phone'[e] = None \/ (task[e] \in Between /\ phone'[e] = phone[e])
    /\ UNCHANGED <<registry, history>>

\* Every step of a connection is one of these four.
LEMMA SpeakingKinds ==
    ASSUME CoreTypeOK, NEW e \in Conns,
           HandleClient(e) \/ CoreStall(e) \/ CoreUnstall(e) \/ CoreLose(e)
    PROVE  Others(e) /\ (Begins(e) \/ Ends(e) \/ Leaves(e) \/ Stays(e))
<1> USE DEF Between, LiveTasks, InFrame, Storing, history
<1>1. /\ task \in [Conns -> {"closing", "closed", "leaked"} \cup LiveTasks]
      /\ phone \in [Conns -> Phones \cup {None}]
      /\ registry \in [Phones -> Conns \cup {None}]
  BY DEF CoreTypeOK
<1>2. ASSUME NEW p \in Phones
      PROVE  /\ HeaderPhone(e, p) \in Phones \cup {None}
             /\ HeaderRegistry(e, p) \in [Phones -> Conns \cup {None}]
             /\ HeaderPhone(e, p) = phone[e] => HeaderRegistry(e, p) = registry
             /\ HeaderPhone(e, p) = phone[e] \/ HeaderPhone(e, p) = p
             /\ \A q \in Phones \ {p} :
                  registry[q] # e => HeaderRegistry(e, p)[q] = registry[q]
  BY <1>1, <1>2, CoreNoneAssumption
     DEF HeaderPhone, HeaderRegistry, Add, Remove
<1>3. ASSUME NEW p \in Phones, HandleAtOnce(e, p)
      PROVE  Others(e) /\ Begins(e)
  <2>1. /\ phone'[e] = HeaderPhone(e, p)
        /\ SpeakFor(e, phone'[e])
        /\ Others(e)
    BY <1>1, <1>3 DEF HandleAtOnce, Others
  <2>2. registry' = Add(HeaderRegistry(e, p), e, phone'[e])
    BY <1>3, <2>1 DEF HandleAtOnce
  <2>3. phone'[e] # None => registry'[phone'[e]] = e
    BY <1>2, <2>1, <2>2 DEF Add
  <2>4. \A q \in Phones \ {phone'[e]} : registry'[q] = HeaderRegistry(e, p)[q]
    BY <1>2, <2>1, <2>2 DEF Add
  <2>5. \A q \in Phones \ {phone'[e]} :
          registry[q] # e => registry'[q] = registry[q]
    BY <1>2, <2>1, <2>4
  <2>6. QED
    BY <1>2, <2>1, <2>3, <2>5 DEF Begins
<1>4. ASSUME NEW p \in Phones, NEW state \in InFrame,
             NEW number \in {p, HeaderPhone(e, p)},
             phone' = [phone EXCEPT ![e] = number],
             SpeakFor(e, number),
             registry' = HeaderRegistry(e, p),
             task' = [task EXCEPT ![e] = state]
      PROVE  Others(e) /\ Begins(e)
  <2>1. /\ phone'[e] = number /\ number \in Phones \cup {None}
        /\ task'[e] \in InFrame
        /\ Others(e)
    BY <1>1, <1>2, <1>4 DEF Others
  <2>2. \A q \in Phones \ {number} : registry[q] # e => registry'[q] = registry[q]
    BY <1>2, <1>4
  <2>3. QED
    BY <1>4, <2>1, <2>2 DEF Begins
<1>5. ASSUME NEW p \in Phones, HandleAndDrain(e, p)
      PROVE  Others(e) /\ Begins(e)
  BY <1>4, <1>5 DEF HandleAndDrain
<1>6. ASSUME NEW p \in Phones, NEW step \in Storing, HandleAndStore(e, p, step)
      PROVE  Others(e) /\ Begins(e)
  BY <1>4, <1>6 DEF HandleAndStore
<1>7. ASSUME NEW answers \in BOOLEAN, StoreEnds(e, answers)
      PROVE  Others(e) /\ Ends(e)
  BY <1>1, <1>7 DEF StoreEnds, Ends, Others
<1>8. CASE DrainEnds(e)
  BY <1>1, <1>8 DEF DrainEnds, Ends, Others
<1>9. ASSUME CoreFinish(e)
      PROVE  Others(e) /\ Leaves(e)
  BY <1>1, <1>9 DEF CoreFinish, Remove, Leaves, Others
<1>10. CASE CoreIdleTimeout(e) \/ CorePeerCloses(e) \/ CoreReadRaises(e)
  BY <1>9, <1>10 DEF CoreIdleTimeout, CorePeerCloses, CoreReadRaises
<1>11. CASE \/ CoreAccept(e) \/ CoreChunkDone(e)
            \/ \E n \in 0..MaxChunk : CoreReadChunk(e, n)
  BY <1>1, <1>11 DEF CoreAccept, CoreChunkDone, CoreReadChunk, Stays, Others
<1>12. CASE \E raised \in BOOLEAN : OfflineDone(e, raised)
  BY <1>1, <1>12 DEF OfflineDone, Stays, Others
<1>13. CASE CoreStall(e) \/ CoreUnstall(e) \/ CoreLose(e)
  BY <1>1, <1>13 DEF CoreStall, CoreUnstall, CoreLose, Stays, Others
<1>14. QED
  BY <1>3, <1>5, <1>6, <1>7, <1>8, <1>10, <1>11, <1>12, <1>13 DEF HandleClient

\* Each kind of step leaves the last speakers undisturbed.
LEMMA UndisturbedStep ==
    ASSUME CoreTypeOK, Undisturbed, NEW e \in Conns, Others(e),
           Begins(e) \/ Ends(e) \/ Leaves(e) \/ Stays(e)
    PROVE  Undisturbed'
<1> SUFFICES ASSUME NEW p \in Phones, NEW c \in Conns,
                    lastSpoke'[p] = c, ~contested'[p]
             PROVE  /\ \A d \in Conns \ {c} :
                         phone'[d] = p => task'[d] \notin InFrame
                    /\ phone'[c] = p /\ task'[c] \in Between => registry'[p] = c
  BY DEF Undisturbed
<1>1. \A d \in Conns \ {e} : task'[d] = task[d] /\ phone'[d] = phone[d]
  BY DEF Others
<1>2. /\ registry \in [Phones -> Conns \cup {None}]
      /\ lastSpoke \in [Phones -> Conns \cup {None}]
      /\ contested \in [Phones -> BOOLEAN]
      /\ p # None /\ c # None
  BY CoreNoneAssumption DEF CoreTypeOK
<1>3. Between \cap InFrame = {}
  BY DEF Between, InFrame, Storing
<1>4. ASSUME lastSpoke[p] = c, ~contested[p]
      PROVE  /\ \A d \in Conns \ {c} : phone[d] = p => task[d] \notin InFrame
             /\ phone[c] = p /\ task[c] \in Between => registry[p] = c
  BY <1>4 DEF Undisturbed
<1>5. CASE Begins(e) /\ phone'[e] = p
  <2>1. /\ lastSpoke'[p] = e
        /\ contested'[p] <=> \E d \in Conns \ {e} : /\ phone[d] = p
                                                    /\ task[d] \in InFrame
    BY <1>2, <1>5 DEF Begins, SpeakFor
  <2>2. c = e /\ \A d \in Conns \ {e} : phone[d] = p => task[d] \notin InFrame
    BY <2>1
  <2>3. task'[e] \in InFrame \/ registry'[p] = e
    BY <1>2, <1>5 DEF Begins
  <2>4. QED
    BY <1>1, <1>3, <2>2, <2>3
<1>6. CASE Begins(e) /\ phone'[e] # p
  <2>1. lastSpoke'[p] = lastSpoke[p] /\ contested'[p] = contested[p]
    BY <1>2, <1>6 DEF Begins, SpeakFor, history
  <2>2. registry[p] # e => registry'[p] = registry[p]
    BY <1>6 DEF Begins
  <2>3. QED
    BY <1>1, <1>4, <1>6, <2>1, <2>2
<1>7. CASE Ends(e)
  <2>1. /\ lastSpoke[p] = c /\ ~contested[p]
        /\ task[e] \in InFrame /\ phone'[e] = phone[e]
    BY <1>7 DEF Ends, history
  <2>2. CASE task'[e] \in InFrame /\ registry' = registry
    BY <1>1, <1>3, <1>4, <2>1, <2>2
  <2>3. CASE task'[e] \notin InFrame /\ registry' = Add(registry, e, phone[e])
    <3>1. /\ phone[e] = p => registry'[p] = e
          /\ phone[e] # p => registry'[p] = registry[p]
      BY <1>2, <2>3 DEF Add
    <3>2. QED
      BY <1>1, <1>4, <2>1, <2>3, <3>1
  <2>4. QED
    BY <1>7, <2>2, <2>3 DEF Ends
<1>8. CASE Leaves(e)
  <2>1. /\ lastSpoke[p] = c /\ ~contested[p]
        /\ task'[e] \notin Between /\ task'[e] \notin InFrame
        /\ registry[p] # e => registry'[p] = registry[p]
    BY <1>8 DEF Leaves, history
  <2>2. QED
    BY <1>1, <1>4, <2>1
<1>9. CASE Stays(e)
  <2>1. /\ lastSpoke[p] = c /\ ~contested[p]
        /\ registry'[p] = registry[p]
        /\ task'[e] \in InFrame => task[e] \in InFrame /\ phone'[e] = phone[e]
        /\ task'[e] \in Between /\ phone'[e] = p =>
             task[e] \in Between /\ phone[e] = p
    BY <1>2, <1>9 DEF Stays, history
  <2>2. QED
    BY <1>1, <1>4, <2>1
<1>10. QED
  BY <1>5, <1>6, <1>7, <1>8, <1>9

-----------------------------------------------------------------------------
(* Theorems *)

\* The inductive invariant of the legacy server.
THEOREM CoreInvariant ==
    ASSUME NumberedOrNot
    PROVE  CoreSpec => []CoreInv
<1>1. CoreInit => CoreInv
  BY InvAtFirst
<1>2. CoreInv /\ [CoreNext]_coreVars => CoreInv'
  BY InvIsKept
<1>3. QED
  BY <1>1, <1>2, PTL DEF CoreSpec

\* The state of the legacy server keeps its type, whatever numbers the frames of
\* a terminal carry.
THEOREM CoreTypeCorrect == CoreSpec => []CoreTypeOK
<1>1. CoreInit => CoreTypeOK
  BY CoreMaxChunkAssumption DEF CoreInit, CoreTypeOK
<1>2. CoreTypeOK /\ [CoreNext]_coreVars => CoreTypeOK'
  BY StepKeepsTypes
<1>3. QED
  BY <1>1, <1>2, PTL DEF CoreSpec

\* The connection that last spoke for a number is found under it between its
\* frames, for any number of former connections of the terminal and whatever
\* numbers they carry, unless one of them was in a frame of the number then.
THEOREM UncontestedStaysRegistered == CoreSpec => []UncontestedIsRegistered
<1>1. CoreInit => Undisturbed
  BY CoreNoneAssumption DEF CoreInit, Undisturbed
<1>2. CoreTypeOK /\ Undisturbed /\ [CoreNext]_coreVars => Undisturbed'
  <2>1. ASSUME CoreTypeOK, Undisturbed, CoreNext
        PROVE  Undisturbed'
    BY <2>1, SpeakingKinds, UndisturbedStep DEF CoreNext
  <2>2. ASSUME Undisturbed, UNCHANGED coreVars
        PROVE  Undisturbed'
    BY <2>2 DEF Undisturbed, coreVars, history
  <2>3. QED
    BY <2>1, <2>2
<1>3. Undisturbed => UncontestedIsRegistered
  BY DEF Undisturbed, UncontestedIsRegistered, Between
<1>4. QED
  BY <1>1, <1>2, <1>3, CoreTypeCorrect, PTL DEF CoreSpec

\* ConnectionRegistry holds connections whose handler is running.
THEOREM RegisteredAreLive ==
    ASSUME NumberedOrNot
    PROVE  CoreSpec => []RegisteredIsLive
<1>1. CoreInv => RegisteredIsLive
  BY DEF CoreInv, EntriesAreOwn, RegisteredIsLive
<1>2. QED
  BY <1>1, CoreInvariant, PTL

\* ConnectionRegistry holds a connection under the number it has, where the
\* cleanup of _handle_client looks for it.
THEOREM RegisteredAreFound ==
    ASSUME NumberedOrNot
    PROVE  CoreSpec => []RegisteredUnderItsNumber
<1>1. CoreInv => RegisteredUnderItsNumber
  BY DEF CoreInv, EntriesAreOwn, RegisteredUnderItsNumber
<1>2. QED
  BY <1>1, CoreInvariant, PTL

\* The legacy server implements Registry: what it does to its entries is what
\* the abstract registry allows, for any number of connections and terminals.
THEOREM CoreKeepsItsPromise ==
    ASSUME NumberedOrNot
    PROVE  CoreSpec => RegistryPromise
<1>1. CoreInit => Promise!RegistryInit
  BY DEF CoreInit, Live, LiveTasks, InFrame, Storing, Promise!RegistryInit
<1>2. CoreInv /\ [CoreNext]_coreVars
        => [Promise!RegistryNext]_(Promise!registryVars)
  BY StepIsPromised
<1>3. QED
  BY <1>1, <1>2, CoreInvariant, PTL
     DEF CoreSpec, RegistryPromise, Promise!RegistrySpec

=============================================================================
