--------------------------- MODULE DashboardProofs ---------------------------
(***************************************************************************)
(* Proofs about the dashboard: for any number of terminals, of calls at the *)
(* same time, of clicks, of sessions that end and of requests that fail.   *)
(***************************************************************************)
EXTENDS Dashboard, TLAPS

Looks == {"absent", "plain", "selected"}

Requests ==
    [at : {"idle", "login", "me", "terminals", "online", "marker", "trail",
           "locations", "commands"},
     phone : Phones \cup {None},
     list : SUBSET Phones,
     carries : {"own", "good", "bad"},
     answer : {"none", "ok", "failed", "denied"}]

\* Requests that name a terminal.
OfATerminal == {"marker", "trail", "locations", "commands"}

DashTypeOK ==
    /\ token \in {"none", "live", "dead"}
    /\ call \in [Calls -> Requests]
    /\ \A c \in Calls : call[c].at \in OfATerminal => call[c].phone \in Phones
    /\ terminals \subseteq Phones
    /\ registered \subseteq Phones
    /\ card \in [Phones -> Looks]
    /\ marker \in [Phones -> Looks]
    /\ selected \in Phones \cup {None}
    /\ kept \subseteq Phones
    /\ drawn \in [Phones -> Nat]

-----------------------------------------------------------------------------
(* Trails *)

Awaits(c, p) == call[c].at = "trail" /\ call[c].phone = p

\* Two calls wait for the trail of a terminal only if it was selected again
\* before the first of them had come.
AwaitedOnce ==
    \A c, d \in Calls, p \in Phones :
        c # d /\ Awaits(c, p) /\ Awaits(d, p) => p \in twice

\* While a trail is awaited none of its terminal is on the map, or it was
\* selected twice.
AwaitedIsNotKept ==
    \A c \in Calls, p \in Phones : Awaits(c, p) /\ p \in kept => p \in twice

\* What is kept is on the map.
KeptIsDrawn == \A p \in kept : drawn[p] >= 1

TrailInv ==
    AwaitedOnce /\ AwaitedIsNotKept /\ KeptIsDrawn /\ StrayTrailsAreOfDoubleClicks

-----------------------------------------------------------------------------
(* Sessions *)

\* A refusal of a request that carries the page's token means that this token is
\* no longer good; a call that waits for nothing has no answer.
DeniedHasExpired ==
    \A c \in Calls :
        /\ call[c].at = "idle" => call[c].answer = "none"
        /\ call[c].answer = "denied" /\ call[c].carries = "own" => token # "live"

DashInv ==
    DashTypeOK /\ SelectedIsMarked /\ TrailInv /\ DeniedHasExpired

-----------------------------------------------------------------------------
(* What a step does to the calls *)

\* Every call but c asks for what it asked for, and gets no new claim to the
\* page's token.
OthersGoOn(c) ==
    \A d \in Calls \ {c} :
        /\ call'[d].at = call[d].at
        /\ call'[d].phone = call[d].phone
        /\ call'[d].answer = call[d].answer
        /\ call'[d].carries = "own" => call[d].carries = "own"

\* No call but those that wait for nothing claims the page's token.
NoneOwns(c) ==
    \A d \in Calls \ {c} : call'[d].carries = "own" => call'[d].at = "idle"

\* Call c goes on with a request that is not for a trail.
Continued(c) ==
    /\ call' \in [Calls -> Requests]
    /\ call'[c].at # "trail"
    /\ call'[c].at \in OfATerminal => call'[c].phone \in Phones
    /\ call'[c].answer = "none"
    /\ OthersGoOn(c)

LEMMA IdleIsRequest ==
    Idle \in Requests /\ Idle.at = "idle" /\ Idle.answer = "none"
BY DEF Idle, Requests

LEMMA FetchIsRequest ==
    ASSUME NEW at \in {"login", "me", "terminals", "online", "marker", "trail",
                       "locations", "commands"},
           NEW p \in Phones \cup {None}, NEW list \in SUBSET Phones, NEW tok
    PROVE  /\ Fetch(at, p, list, tok) \in Requests
           /\ Fetch(at, p, list, tok).at = at
           /\ Fetch(at, p, list, tok).phone = p
           /\ Fetch(at, p, list, tok).answer = "none"
BY DEF Fetch, Requests

LEMMA DetachedCalls ==
    ASSUME DashTypeOK
    PROVE  /\ Detached \in [Calls -> Requests]
           /\ \A d \in Calls :
                /\ Detached[d].at = call[d].at
                /\ Detached[d].phone = call[d].phone
                /\ Detached[d].answer = call[d].answer
                /\ Detached[d].carries = "own" =>
                     call[d].at = "idle" /\ call[d].carries = "own"
BY DEF DashTypeOK, Detached, Requests

LEMMA ProceedContinues ==
    ASSUME DashTypeOK, NEW c \in Calls, NEW next \in Requests, Proceed(c, next),
           next.answer = "none", next.at # "trail",
           next.at \in OfATerminal => next.phone \in Phones
    PROVE  Continued(c) /\ (call[c].answer = "denied" => NoneOwns(c))
<1>1. CASE call[c].answer = "denied"
  BY <1>1, DetachedCalls
  DEF Proceed, DashTypeOK, Continued, OthersGoOn, NoneOwns
<1>2. CASE call[c].answer # "denied"
  BY <1>2 DEF Proceed, DashTypeOK, Continued, OthersGoOn
<1> QED
  BY <1>1, <1>2

LEMMA NextContinues ==
    ASSUME DashTypeOK, NEW c \in Calls, NEW next \in Requests,
           call' = [call EXCEPT ![c] = next],
           next.answer = "none", next.at # "trail",
           next.at \in OfATerminal => next.phone \in Phones
    PROVE  Continued(c)
BY DEF DashTypeOK, Continued, OthersGoOn

LEMMA LoadDetailsContinues ==
    ASSUME DashTypeOK, NEW c \in Calls, NEW p \in Phones, LoadDetails(c, p)
    PROVE  Continued(c) /\ (call[c].answer = "denied" => NoneOwns(c))
<1>1. CASE p \in terminals
  BY <1>1, FetchIsRequest, ProceedContinues DEF LoadDetails
<1>2. CASE p \notin terminals
  BY <1>2, IdleIsRequest, ProceedContinues DEF LoadDetails, OfATerminal
<1> QED
  BY <1>1, <1>2

LEMMA NextMarkerContinues ==
    ASSUME DashTypeOK, NEW c \in Calls, NEW list \in SUBSET Phones,
           NextMarker(c, list)
    PROVE  Continued(c) /\ (call[c].answer = "denied" => NoneOwns(c))
<1>1. CASE list # {}
  <2>1. PICK p \in list : Proceed(c, Fetch("marker", p, list \ {p}, token'))
    BY <1>1 DEF NextMarker
  <2> QED
    BY <2>1, FetchIsRequest, ProceedContinues
<1>2. CASE list = {} /\ selected # None
  BY <1>2, LoadDetailsContinues DEF NextMarker, DashTypeOK
<1>3. CASE list = {} /\ selected = None
  BY <1>3, IdleIsRequest, ProceedContinues DEF NextMarker, OfATerminal
<1> QED
  BY <1>1, <1>2, <1>3

\* Every call asks for what it asked for.
AllGoOn ==
    /\ call' \in [Calls -> Requests]
    /\ \A d \in Calls : call'[d].at = call[d].at /\ call'[d].phone = call[d].phone

\* Every call waits for the trail that it waited for, or for none.
LEMMA ContinuedAwaitsNothingNew ==
    ASSUME DashTypeOK, NEW c \in Calls, Continued(c)
    PROVE  \A d \in Calls : \A p \in Phones : Awaits(d, p)' => Awaits(d, p)
BY DEF Continued, OthersGoOn, Awaits

\* The answers that a call takes up with get().
Gets(c) ==
    \/ TerminalsArrive(c) \/ OnlineArrives(c) \/ MarkerArrives(c)
    \/ TrailArrives(c) \/ LocationsArrive(c) \/ CommandsArrive(c)

LEMMA GetsContinue ==
    ASSUME DashTypeOK, NEW c \in Calls, Gets(c)
    PROVE  Continued(c) /\ SignedOutIfDenied(c)
<1>1. CASE TerminalsArrive(c)
  BY <1>1, IdleIsRequest, FetchIsRequest, ProceedContinues
  DEF TerminalsArrive, OfATerminal
<1>2. CASE OnlineArrives(c)
  BY <1>2, IdleIsRequest, ProceedContinues, NextMarkerContinues
  DEF OnlineArrives, OfATerminal, DashTypeOK
<1>3. CASE MarkerArrives(c)
  BY <1>3, NextMarkerContinues DEF MarkerArrives, DashTypeOK, Requests
<1>4. CASE TrailArrives(c)
  BY <1>4, LoadDetailsContinues DEF TrailArrives, Arrives, DashTypeOK, OfATerminal
<1>5. CASE LocationsArrive(c)
  BY <1>5, FetchIsRequest, ProceedContinues
  DEF LocationsArrive, Arrives, DashTypeOK, OfATerminal
<1>6. CASE CommandsArrive(c)
  BY <1>6, IdleIsRequest, ProceedContinues DEF CommandsArrive, OfATerminal
<1> QED
  BY <1>1, <1>2, <1>3, <1>4, <1>5, <1>6 DEF Gets

\* The steps by what they do to the calls: only Select asks for a trail.
LEMMA StepKinds ==
    ASSUME DashTypeOK, [DashNext]_dashVars
    PROVE  \/ AllGoOn
           \/ \E c \in Calls : Continued(c)
           \/ \E c \in Calls, p \in Phones : Select(c, p)
<1>1. ASSUME NEW c \in Calls, Answered(c)
      PROVE  AllGoOn
  <2>1. ASSUME NEW answer \in {"ok", "failed", "denied"}
        PROVE  LET next == [call[c] EXCEPT !.answer = answer,
                              !.list = IF call[c].at = "terminals"
                                       THEN registered ELSE @]
               IN  /\ next \in Requests
                   /\ next.at = call[c].at /\ next.phone = call[c].phone
    <3>1. call[c] \in Requests /\ registered \in SUBSET Phones
      BY DEF DashTypeOK
    <3>2. \A request \in Requests, list \in SUBSET Phones :
            LET next == [request EXCEPT !.answer = answer, !.list = list]
            IN  /\ next \in Requests
                /\ next.at = request.at /\ next.phone = request.phone
      BY DEF Requests
    <3>3. (IF call[c].at = "terminals" THEN registered ELSE call[c].list)
            \in SUBSET Phones
      BY <3>1 DEF Requests
    <3> QED
      BY <3>1, <3>2, <3>3
  <2>2. LET next == [call[c] EXCEPT !.answer = "failed"]
        IN  /\ next \in Requests
            /\ next.at = call[c].at /\ next.phone = call[c].phone
    BY DEF DashTypeOK, Requests
  <2>3. PICK next \in Requests :
          /\ call' = [call EXCEPT ![c] = next]
          /\ next.at = call[c].at /\ next.phone = call[c].phone
    <3>1. CASE Serve(c)
      <4>1. PICK answer \in {"ok", "failed", "denied"} :
              call' = [call EXCEPT ![c].answer = answer,
                         ![c].list = IF call[c].at = "terminals" THEN registered
                                     ELSE @]
        BY <3>1 DEF Serve
      <4>2. call' = [call EXCEPT ![c] =
                       [call[c] EXCEPT !.answer = answer,
                          !.list = IF call[c].at = "terminals" THEN registered
                                   ELSE @]]
        BY <4>1 DEF DashTypeOK
      <4> QED
        BY <4>2, <2>1
    <3>2. CASE Fails(c)
      BY <3>2, <2>2 DEF Fails
    <3> QED
      BY <1>1, <3>1, <3>2 DEF Answered
  <2> QED
    BY <2>3 DEF AllGoOn, DashTypeOK
<1>2. ASSUME NEW c \in Calls, LoginArrives(c)
      PROVE  Continued(c)
  <2>1. CASE call[c].answer = "ok"
    <3>1. Fetch("terminals", None, {}, token') \in Requests
      BY FetchIsRequest
    <3> QED
      BY <1>2, <2>1, <3>1, FetchIsRequest, DetachedCalls, SMTT(30)
      DEF LoginArrives, Continued, OthersGoOn, OfATerminal
  <2>2. CASE call[c].answer # "ok"
    BY <1>2, <2>2, IdleIsRequest
    DEF LoginArrives, Continued, OthersGoOn, OfATerminal, DashTypeOK
  <2> QED
    BY <2>1, <2>2
<1>3. ASSUME NEW c \in Calls, MeArrives(c)
      PROVE  Continued(c)
  <2>1. CASE call' = [call EXCEPT ![c] = Fetch("terminals", None, {}, token)]
    BY <2>1, FetchIsRequest, NextContinues DEF OfATerminal
  <2>2. CASE call' = [Detached EXCEPT ![c] = Idle]
    BY <2>2, IdleIsRequest, DetachedCalls DEF Continued, OthersGoOn, OfATerminal
  <2>3. CASE call' = [call EXCEPT ![c] = Idle]
    BY <2>3, IdleIsRequest DEF Continued, OthersGoOn, OfATerminal, DashTypeOK
  <2> QED
    BY <1>3, <2>1, <2>2, <2>3 DEF MeArrives
<1>4. ASSUME NEW c \in Calls, Gets(c)
      PROVE  Continued(c)
  BY <1>4, GetsContinue
<1>5. ASSUME NEW c \in Calls, Tick(c) \/ Refresh(c)
      PROVE  Continued(c)
  BY <1>5, FetchIsRequest, NextContinues DEF Tick, Refresh, OfATerminal
<1>6. ASSUME NEW c \in Calls, SubmitLogin(c)
      PROVE  Continued(c)
  BY <1>6, FetchIsRequest, NextContinues DEF SubmitLogin, OfATerminal
<1>7. ASSUME Expire \/ SignOut
      PROVE  AllGoOn
  <2>1. \A d \in Calls :
          LET next == [call[d] EXCEPT !.carries = "bad"]
          IN  /\ next \in Requests
              /\ next.at = call[d].at /\ next.phone = call[d].phone
    BY DEF DashTypeOK, Requests
  <2>2. CASE Expire
    BY <2>1, <2>2 DEF Expire, AllGoOn, DashTypeOK
  <2>3. CASE SignOut
    BY <2>3, DetachedCalls DEF SignOut, AllGoOn
  <2> QED
    BY <1>7, <2>2, <2>3
<1>8. ASSUME UNCHANGED call
      PROVE  AllGoOn
  BY <1>8 DEF AllGoOn, DashTypeOK
<1> QED
  BY <1>1, <1>2, <1>3, <1>4, <1>5, <1>6, <1>7, <1>8
  DEF DashNext, Continues, Gets, Registers, dashVars

-----------------------------------------------------------------------------
(* Types *)

LEMMA DashTypeInit ==
    ASSUME DashInit
    PROVE  DashTypeOK
<1> DEFINE me == Fetch("me", None, {}, token)
<1>1. me \in Requests /\ me.at = "me"
  BY FetchIsRequest
<1>2. \A c \in Calls : call[c] \in {Idle, me} /\ call \in [Calls -> {Idle, me}]
  BY DEF DashInit
<1>3. call \in [Calls -> Requests]
  BY <1>1, <1>2, IdleIsRequest DEF DashInit
<1>4. \A c \in Calls : call[c].at \notin OfATerminal
  BY <1>1, <1>2, IdleIsRequest DEF OfATerminal
<1> QED
  BY <1>3, <1>4, BudgetsAssumption DEF DashInit, DashTypeOK, Looks

\* What the page shows is drawn by four actions.
LEMMA ViewSteps ==
    ASSUME [DashNext]_dashVars
    PROVE  \/ UNCHANGED <<card, marker, selected, kept, drawn, twice>>
           \/ \E c \in Calls : OnlineArrives(c) \/ MarkerArrives(c) \/ TrailArrives(c)
           \/ \E c \in Calls, p \in Phones : Select(c, p)
BY DEF DashNext, dashVars, view, Answered, Serve, Fails, Continues, LoginArrives,
       MeArrives, TerminalsArrive, LocationsArrive, CommandsArrive, Tick, Refresh,
       SubmitLogin, Registers, Expire, SignOut

LEMMA CallTypeStep ==
    ASSUME DashTypeOK, [DashNext]_dashVars
    PROVE  /\ call' \in [Calls -> Requests]
           /\ \A c \in Calls : call'[c].at \in OfATerminal => call'[c].phone \in Phones
<1>1. CASE AllGoOn
  BY <1>1 DEF AllGoOn, DashTypeOK
<1>2. ASSUME NEW c \in Calls, Continued(c)
      PROVE  /\ call' \in [Calls -> Requests]
             /\ \A d \in Calls :
                  call'[d].at \in OfATerminal => call'[d].phone \in Phones
  BY <1>2 DEF Continued, OthersGoOn, DashTypeOK
<1>3. ASSUME NEW c \in Calls, NEW p \in Phones, Select(c, p)
      PROVE  /\ call' \in [Calls -> Requests]
             /\ \A d \in Calls :
                  call'[d].at \in OfATerminal => call'[d].phone \in Phones
  BY <1>3, FetchIsRequest DEF Select, DashTypeOK
<1> QED
  BY <1>1, <1>2, <1>3, StepKinds

LEMMA ViewTypeStep ==
    ASSUME DashTypeOK, KeptIsDrawn, [DashNext]_dashVars
    PROVE  /\ card' \in [Phones -> Looks]
           /\ marker' \in [Phones -> Looks]
           /\ selected' \in Phones \cup {None}
           /\ kept' \subseteq Phones
           /\ drawn' \in [Phones -> Nat]
<1>1. CASE UNCHANGED <<card, marker, selected, kept, drawn, twice>>
  BY <1>1 DEF DashTypeOK
<1>2. ASSUME NEW c \in Calls, OnlineArrives(c)
      PROVE  UNCHANGED <<marker, selected, kept, drawn>> /\ card' \in [Phones -> Looks]
  BY <1>2 DEF OnlineArrives, DashTypeOK, Looks
<1>3. ASSUME NEW c \in Calls, MarkerArrives(c)
      PROVE  UNCHANGED <<card, selected, kept, drawn>> /\ marker' \in [Phones -> Looks]
  BY <1>3 DEF MarkerArrives, DashTypeOK, Icon, Looks
<1>4. ASSUME NEW c \in Calls, TrailArrives(c)
      PROVE  /\ UNCHANGED <<card, marker, selected>>
             /\ kept' \subseteq Phones
             /\ drawn' \in [Phones -> Nat]
  <2>1. call[c].phone \in Phones
    BY <1>4 DEF TrailArrives, Arrives, DashTypeOK, OfATerminal
  <2>2. UNCHANGED <<drawn, kept>>
        \/ /\ drawn' = [drawn EXCEPT ![call[c].phone] = @ + 1]
           /\ kept' = kept \cup {call[c].phone}
    BY <1>4 DEF TrailArrives
  <2> QED
    BY <1>4, <2>1, <2>2 DEF TrailArrives, DashTypeOK
<1>5. ASSUME NEW c \in Calls, NEW p \in Phones, Select(c, p)
      PROVE  /\ card' \in [Phones -> Looks] /\ marker' \in [Phones -> Looks]
             /\ selected' = p /\ kept' = {} /\ drawn' \in [Phones -> Nat]
  <2>1. card' \in [Phones -> Looks] /\ marker' \in [Phones -> Looks]
    BY <1>5 DEF Select, Mark, Looks
  <2>2. drawn' \in [Phones -> Nat]
    BY <1>5 DEF Select, TrailsRemoved, DashTypeOK, KeptIsDrawn
  <2> QED
    BY <1>5, <2>1, <2>2 DEF Select
<1> QED
  BY <1>1, <1>2, <1>3, <1>4, <1>5, ViewSteps DEF DashTypeOK

LEMMA DashTypeStep ==
    ASSUME DashTypeOK, KeptIsDrawn, [DashNext]_dashVars
    PROVE  DashTypeOK'
<1>1. token' \in {"none", "live", "dead"}
  BY DEF DashTypeOK, DashNext, dashVars, session, Answered, Serve, Fails,
         Continues, LoginArrives, MeArrives, TerminalsArrive, OnlineArrives,
         MarkerArrives, TrailArrives, LocationsArrive, CommandsArrive,
         SignedOutIfDenied, Tick, Refresh, SubmitLogin, Select, Registers, Expire,
         SignOut
<1>2. terminals' \subseteq Phones
  <2>1. \A c \in Calls : call[c].list \subseteq Phones
    BY DEF DashTypeOK, Requests
  <2> QED
    BY <2>1
    DEF DashTypeOK, DashNext, dashVars, view, Answered, Serve, Fails,
        Continues, LoginArrives, MeArrives, TerminalsArrive, OnlineArrives,
        MarkerArrives, TrailArrives, LocationsArrive, CommandsArrive,
        Tick, Refresh, SubmitLogin, Select, Registers, Expire, SignOut
<1>3. registered' \subseteq Phones
  BY DEF DashTypeOK, DashNext, dashVars, Answered, Serve, Fails,
         Continues, LoginArrives, MeArrives, TerminalsArrive, OnlineArrives,
         MarkerArrives, TrailArrives, LocationsArrive, CommandsArrive,
         Tick, Refresh, SubmitLogin, Select, Registers, Expire, SignOut
<1> QED
  BY <1>1, <1>2, <1>3, CallTypeStep, ViewTypeStep DEF DashTypeOK

-----------------------------------------------------------------------------
(* The selected terminal *)

LEMMA SelectedStep ==
    ASSUME DashTypeOK, SelectedIsMarked, [DashNext]_dashVars
    PROVE  SelectedIsMarked'
<1>1. CASE UNCHANGED <<card, marker, selected, kept, drawn, twice>>
  BY <1>1 DEF SelectedIsMarked
<1>2. ASSUME NEW c \in Calls, OnlineArrives(c)
      PROVE  SelectedIsMarked'
  BY <1>2 DEF OnlineArrives, SelectedIsMarked
<1>3. ASSUME NEW c \in Calls, MarkerArrives(c)
      PROVE  SelectedIsMarked'
  BY <1>3 DEF MarkerArrives, SelectedIsMarked, DashTypeOK, Icon
<1>4. ASSUME NEW c \in Calls, TrailArrives(c)
      PROVE  SelectedIsMarked'
  BY <1>4 DEF TrailArrives, SelectedIsMarked
<1>5. ASSUME NEW c \in Calls, NEW p \in Phones, Select(c, p)
      PROVE  SelectedIsMarked'
  BY <1>5 DEF Select, SelectedIsMarked, Mark
<1> QED
  BY <1>1, <1>2, <1>3, <1>4, <1>5, ViewSteps

-----------------------------------------------------------------------------
(* Trails *)

\* A step that leaves the trails alone and asks for none.
LEMMA TrailsLeftAlone ==
    ASSUME TrailInv, UNCHANGED <<kept, drawn, twice>>,
           \A d \in Calls : \A p \in Phones : Awaits(d, p)' => Awaits(d, p)
    PROVE  TrailInv'
BY DEF TrailInv, AwaitedOnce, AwaitedIsNotKept, KeptIsDrawn,
       StrayTrailsAreOfDoubleClicks

LEMMA TrailArrivesStep ==
    ASSUME DashTypeOK, TrailInv, NEW c \in Calls, TrailArrives(c)
    PROVE  TrailInv'
<1> DEFINE p == call[c].phone
<1>1. /\ p \in Phones
      /\ Awaits(c, p)
      /\ Continued(c)
      /\ twice' = twice
  BY LoadDetailsContinues
  DEF TrailArrives, Arrives, DashTypeOK, OfATerminal, Awaits
<1>2. /\ \A d \in Calls : \A q \in Phones : Awaits(d, q)' => Awaits(d, q)
      /\ \A q \in Phones : ~ Awaits(c, q)'
  BY <1>1, ContinuedAwaitsNothingNew DEF Continued, Awaits
<1>3. CASE UNCHANGED <<drawn, kept>>
  BY <1>1, <1>2, <1>3, TrailsLeftAlone
<1>4. CASE drawn' = [drawn EXCEPT ![p] = @ + 1] /\ kept' = kept \cup {p}
  <2>1. AwaitedOnce'
    BY <1>1, <1>2 DEF TrailInv, AwaitedOnce
  <2>2. AwaitedIsNotKept'
    BY <1>1, <1>2, <1>4 DEF TrailInv, AwaitedOnce, AwaitedIsNotKept
  <2>3. KeptIsDrawn'
    BY <1>1, <1>4 DEF TrailInv, KeptIsDrawn, DashTypeOK
  <2>4. StrayTrailsAreOfDoubleClicks'
    BY <1>1, <1>4
    DEF TrailInv, StrayTrailsAreOfDoubleClicks, AwaitedIsNotKept, DashTypeOK
  <2> QED
    BY <2>1, <2>2, <2>3, <2>4 DEF TrailInv
<1> QED
  BY <1>3, <1>4 DEF TrailArrives

LEMMA SelectStep ==
    ASSUME DashTypeOK, TrailInv, NEW c \in Calls, NEW p \in Phones, Select(c, p)
    PROVE  TrailInv'
<1>1. /\ kept' = {}
      /\ drawn' = TrailsRemoved
      /\ twice' = IF \E d \in Calls : Awaits(d, p) THEN twice \cup {p} ELSE twice
  BY DEF Select, Awaits
<1>2. /\ \A d \in Calls \ {c} : \A q \in Phones : Awaits(d, q)' => Awaits(d, q)
      /\ \A q \in Phones : Awaits(c, q)' => q = p
      /\ ~ \E q \in Phones : Awaits(c, q)
  BY FetchIsRequest, IdleIsRequest DEF Select, Awaits, DashTypeOK
<1>3. AwaitedOnce'
  BY <1>1, <1>2 DEF TrailInv, AwaitedOnce
<1>4. AwaitedIsNotKept' /\ KeptIsDrawn'
  BY <1>1 DEF AwaitedIsNotKept, KeptIsDrawn
<1>5. StrayTrailsAreOfDoubleClicks'
  BY <1>1 DEF TrailInv, StrayTrailsAreOfDoubleClicks, TrailsRemoved, DashTypeOK
<1> QED
  BY <1>3, <1>4, <1>5 DEF TrailInv

LEMMA TrailStep ==
    ASSUME DashTypeOK, TrailInv, [DashNext]_dashVars
    PROVE  TrailInv'
<1>1. CASE \E c \in Calls, p \in Phones : Select(c, p)
  BY <1>1, SelectStep
<1>2. CASE \E c \in Calls : TrailArrives(c)
  BY <1>2, TrailArrivesStep
<1>3. CASE /\ ~ \E c \in Calls, p \in Phones : Select(c, p)
           /\ ~ \E c \in Calls : TrailArrives(c)
  <2>1. \A d \in Calls : \A p \in Phones : Awaits(d, p)' => Awaits(d, p)
    BY <1>3, StepKinds, ContinuedAwaitsNothingNew DEF AllGoOn, Awaits
  <2>2. UNCHANGED <<kept, drawn, twice>>
    BY <1>3, ViewSteps DEF OnlineArrives, MarkerArrives
  <2> QED
    BY <2>1, <2>2, TrailsLeftAlone
<1> QED
  BY <1>1, <1>2, <1>3

-----------------------------------------------------------------------------
(* Sessions *)

\* Call c sends its first request.
Asks(c) == OthersGoOn(c) /\ call'[c].answer = "none"

\* The steps by what they do to the session.
LEMMA SessionSteps ==
    ASSUME DashTypeOK, [DashNext]_dashVars
    PROVE  \/ \E c \in Calls : (Answered(c) \/ Asks(c)) /\ UNCHANGED session
           \/ \E c \in Calls : LoginArrives(c) \/ MeArrives(c) \/ Gets(c)
           \/ Expire \/ SignOut
           \/ UNCHANGED <<call, session>>
<1>1. ASSUME NEW c \in Calls, Tick(c) \/ Refresh(c) \/ SubmitLogin(c)
      PROVE  Asks(c) /\ UNCHANGED session
  BY <1>1, FetchIsRequest, NextContinues
  DEF Tick, Refresh, SubmitLogin, OfATerminal, Asks, Continued
<1>2. ASSUME NEW c \in Calls, NEW p \in Phones, Select(c, p)
      PROVE  Asks(c) /\ UNCHANGED session
  BY <1>2, FetchIsRequest DEF Select, Asks, OthersGoOn, DashTypeOK
<1> QED
  BY <1>1, <1>2
  DEF DashNext, dashVars, Continues, Gets, Answered, Serve, Fails, Registers

LEMMA DeniedStep ==
    ASSUME DashTypeOK, DeniedHasExpired, [DashNext]_dashVars
    PROVE  DeniedHasExpired'
<1>1. ASSUME NEW c \in Calls, Answered(c), UNCHANGED session
      PROVE  DeniedHasExpired'
  <2>1. /\ call[c].at # "idle"
        /\ call'[c].at = call[c].at
        /\ call'[c].carries = call[c].carries
        /\ \A d \in Calls \ {c} : call'[d] = call[d]
    <3>1. CASE Serve(c)
      BY <3>1 DEF Serve, DashTypeOK, Requests
    <3>2. CASE Fails(c)
      BY <3>2 DEF Fails, DashTypeOK, Requests
    <3> QED
      BY <1>1, <3>1, <3>2 DEF Answered
  <2>2. call'[c].answer = "denied" => ~ Authenticates(c)
    <3>1. CASE Serve(c)
      <4>1. PICK answer \in IF call[c].at = "login" THEN {"ok", "failed"}
                            ELSE IF Authenticates(c) THEN {"ok"} ELSE {"denied"} :
              call'[c].answer = answer
        BY <3>1 DEF Serve, DashTypeOK, Requests
      <4> QED
        BY <4>1
    <3>2. CASE Fails(c)
      BY <3>2 DEF Fails, DashTypeOK, Requests
    <3> QED
      BY <1>1, <3>1, <3>2 DEF Answered
  <2> QED
    BY <1>1, <2>1, <2>2 DEF DeniedHasExpired, Authenticates, session
<1>2. ASSUME NEW c \in Calls, Asks(c), UNCHANGED session
      PROVE  DeniedHasExpired'
  BY <1>2 DEF Asks, OthersGoOn, DeniedHasExpired, session
<1>3. ASSUME NEW c \in Calls, LoginArrives(c)
      PROVE  DeniedHasExpired'
  <2>1. CASE call[c].answer = "ok"
    <3> DEFINE next == Fetch("terminals", None, {}, token')
    <3>1. next.at = "terminals" /\ next.answer = "none"
      BY FetchIsRequest
    <3>2. call' = [Detached EXCEPT ![c] = next]
      BY <1>3, <2>1 DEF LoginArrives
    <3>3. /\ call'[c] = next
          /\ \A d \in Calls \ {c} : call'[d] = Detached[d]
      BY <3>2, DetachedCalls
    <3>4. \A d \in Calls :
            /\ call'[d].at = "idle" => call'[d].answer = "none"
            /\ call'[d].carries = "own" => call'[d].answer # "denied"
      BY <3>1, <3>3, DetachedCalls DEF DeniedHasExpired
    <3> QED
      BY <3>4 DEF DeniedHasExpired
  <2>2. CASE call[c].answer # "ok"
    BY <1>3, <2>2, IdleIsRequest
    DEF LoginArrives, DeniedHasExpired, DashTypeOK, session
  <2> QED
    BY <2>1, <2>2
<1>4. ASSUME NEW c \in Calls, MeArrives(c)
      PROVE  DeniedHasExpired'
  <2>1. CASE call' = [call EXCEPT ![c] = Fetch("terminals", None, {}, token)]
             /\ UNCHANGED token
    <3> DEFINE next == Fetch("terminals", None, {}, token)
    <3>1. next.at = "terminals" /\ next.answer = "none"
      BY FetchIsRequest
    <3>2. /\ call'[c] = next
          /\ \A d \in Calls \ {c} : call'[d] = call[d]
      BY <2>1 DEF DashTypeOK
    <3> HIDE DEF next
    <3> QED
      BY <2>1, <3>1, <3>2 DEF DeniedHasExpired
  <2>2. CASE call' = [Detached EXCEPT ![c] = Idle] /\ token' = "none"
    BY <2>2, IdleIsRequest, DetachedCalls DEF DeniedHasExpired
  <2>3. CASE call' = [call EXCEPT ![c] = Idle] /\ UNCHANGED session
    BY <2>3, IdleIsRequest DEF DeniedHasExpired, DashTypeOK, session
  <2> QED
    BY <1>4, <2>1, <2>2, <2>3 DEF MeArrives
<1>5. ASSUME NEW c \in Calls, Gets(c)
      PROVE  DeniedHasExpired'
  BY <1>5, GetsContinue
  DEF Continued, OthersGoOn, SignedOutIfDenied, DeniedHasExpired, session
<1>6. CASE Expire
  <2>1. token' = "live" => token = "live"
    BY <1>6 DEF Expire, DashTypeOK
  <2>2. \A d \in Calls :
          /\ [call[d] EXCEPT !.carries = "bad"].at = call[d].at
          /\ [call[d] EXCEPT !.carries = "bad"].answer = call[d].answer
          /\ [call[d] EXCEPT !.carries = "bad"].carries = "bad"
    BY DEF DashTypeOK, Requests
  <2> QED
    BY <1>6, <2>1, <2>2 DEF Expire, DeniedHasExpired
<1>7. CASE SignOut
  BY <1>7, DetachedCalls DEF SignOut, DeniedHasExpired
<1>8. CASE UNCHANGED <<call, session>>
  BY <1>8 DEF DeniedHasExpired, session
<1> QED
  BY <1>1, <1>2, <1>3, <1>4, <1>5, <1>6, <1>7, <1>8, SessionSteps

\* What ends a good session besides the button: the answer to a request with
\* another token, or the check that is answered with an error.
LEMMA SessionEnds ==
    ASSUME DashTypeOK, DeniedHasExpired, [DashNext]_dashVars,
           token = "live", token' = "none"
    PROVE  \/ SignOut
           \/ \E c \in Calls :
                /\ call'[c].answer = "none"
                /\ \/ call[c].answer = "denied" /\ call[c].carries # "own"
                   \/ call[c].answer = "failed" /\ call[c].at = "me"
<1>1. ASSUME NEW c \in Calls, MeArrives(c)
      PROVE  /\ call'[c].answer = "none"
             /\ \/ call[c].answer = "denied" /\ call[c].carries # "own"
                \/ call[c].answer = "failed" /\ call[c].at = "me"
  <2>1. call[c].at = "me" /\ call[c].answer # "ok" /\ call[c].answer # "none"
    BY <1>1 DEF MeArrives, Arrives
  <2>2. call'[c] = Idle
    BY <1>1, <2>1, DetachedCalls DEF MeArrives, DashTypeOK
  <2>3. call[c].answer \in {"denied", "failed"}
    BY <2>1 DEF DashTypeOK, Requests
  <2> QED
    BY <2>1, <2>2, <2>3, IdleIsRequest DEF DeniedHasExpired
<1>2. ASSUME NEW c \in Calls, Gets(c)
      PROVE  /\ call[c].answer = "denied"
             /\ call[c].carries # "own"
             /\ call'[c].answer = "none"
  BY <1>2, GetsContinue
  DEF SignedOutIfDenied, Continued, DeniedHasExpired, session
<1>3. ASSUME NEW c \in Calls, LoginArrives(c)
      PROVE  FALSE
  BY <1>3 DEF LoginArrives, session
<1>4. ~ Expire /\ ~ UNCHANGED session
  BY DEF Expire, session
<1> QED
  BY <1>1, <1>2, <1>3, <1>4, SessionSteps DEF session

-----------------------------------------------------------------------------
(* Theorems *)

LEMMA DashInvInit ==
    ASSUME DashInit
    PROVE  DashInv
<1> DEFINE me == Fetch("me", None, {}, token)
<1>1. /\ \A c \in Calls : ~ \E p \in Phones : Awaits(c, p)
      /\ \A c \in Calls : call[c].answer = "none"
  <2>1. me.at = "me" /\ me.answer = "none"
    BY FetchIsRequest
  <2>2. \A c \in Calls : call[c] \in {Idle, me}
    BY DEF DashInit
  <2> QED
    BY <2>1, <2>2, IdleIsRequest DEF Awaits
<1>2. SelectedIsMarked
  BY DEF DashInit, SelectedIsMarked
<1>3. TrailInv
  BY <1>1
  DEF DashInit, TrailInv, AwaitedOnce, AwaitedIsNotKept, KeptIsDrawn,
      StrayTrailsAreOfDoubleClicks
<1> QED
  BY <1>1, <1>2, <1>3, DashTypeInit DEF DashInv, DeniedHasExpired

LEMMA DashInvStep ==
    ASSUME DashInv, [DashNext]_dashVars
    PROVE  DashInv'
<1>1. DashTypeOK /\ SelectedIsMarked /\ TrailInv /\ KeptIsDrawn /\ DeniedHasExpired
  BY DEF DashInv, TrailInv
<1> QED
  BY <1>1, DashTypeStep, SelectedStep, TrailStep, DeniedStep DEF DashInv

\* The invariant holds of every behaviour of the page.
THEOREM DashInvariant == DashSpec => []DashInv
BY DashInvInit, DashInvStep, PTL DEF DashSpec

\* However answers and clicks cross, exactly the selected terminal is marked, in
\* the sidebar and on the map (renderSidebar, updateMapMarkers, selectTerminal).
THEOREM SelectionIsMarked == DashSpec => []SelectedIsMarked
BY DashInvariant, PTL DEF DashInv

\* A trail that drawTrail can no longer remove belongs to a terminal that was
\* selected again before its first trail had come.
THEOREM OnlyDoubleClicksStray == DashSpec => []StrayTrailsAreOfDoubleClicks
BY DashInvariant, PTL DEF DashInv, TrailInv

\* A session that has not expired is ended only by the button, by the refusal of
\* a request with another token, or by an error that answers the check of a
\* stored token: get() never signs out for an answer to a request with the
\* session's own token.
THEOREM SessionsOutliveTheirGets == DashSpec => OnlyTheCheckEndsItsSession
<1>1. DashInv /\ [DashNext]_dashVars =>
        [token = "live" /\ token' = "none" =>
           \/ SignOut
           \/ \E c \in Calls :
                /\ call'[c].answer = "none"
                /\ \/ call[c].answer = "denied" /\ call[c].carries # "own"
                   \/ call[c].answer = "failed" /\ call[c].at = "me"]_dashVars
  BY SessionEnds DEF DashInv
<1> QED
  BY <1>1, DashInvariant, PTL DEF DashSpec, OnlyTheCheckEndsItsSession

=============================================================================
