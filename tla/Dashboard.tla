------------------------------ MODULE Dashboard ------------------------------
(***************************************************************************)
(* The dashboard (static/index.html): one page, one thread, and any number *)
(* of asynchronous calls that are suspended at a request each.  A call is  *)
(* doLogin, refresh, selectTerminal or the check of a stored token at the  *)
(* start.  Whatever a call read before a request may have changed when its *)
(* answer arrives.                                                         *)
(*                                                                         *)
(* The REST endpoints that only read are modelled by their answers: the    *)
(* list of terminals, or a refusal when the token does not authenticate.   *)
(***************************************************************************)
EXTENDS FiniteSets, Naturals

CONSTANTS
    Phones,     \* terminals
    None,       \* no terminal, or an empty table
    Calls,      \* bound: asynchronous calls at the same time
    Budgets     \* the token stored at first, and bounds: clicks, ends of a
                \* session, failed requests

ASSUME PhonesAssumption == IsFiniteSet(Phones) /\ None \notin Phones
ASSUME BudgetsAssumption ==
    Budgets \subseteq [stored : {"none", "live", "dead"},
                        clicks : Nat, ends : Nat, failures : Nat]

VARIABLES
    token,      \* _token: "none", "live", or "dead" once it has expired
    overlay,    \* the login form covers the page
    call,       \* the asynchronous calls, each with the request it waits for
    registered, \* the table of terminals on the server
    terminals,  \* the page's list of terminals
    card,       \* the sidebar: each terminal's card
    marker,     \* the map: each terminal's marker
    selected,   \* selectedPhone
    panel,      \* the terminal that each part of the details shows
    kept,       \* the keys of polylines
    drawn,      \* the number of trails of each terminal that are on the map
    twice,      \* history: terminals selected again before their trail came
    budget,     \* the case and the bounds of this behaviour
    used        \* history: what was used of them

session == <<token, overlay>>
view == <<terminals, card, marker, selected, panel, kept, drawn, twice>>
bounds == <<budget, used>>
dashVars == <<session, call, registered, view, bounds>>

Use(what) ==
    /\ used[what] < budget[what]
    /\ used' = [used EXCEPT ![what] = @ + 1]
    /\ UNCHANGED budget

-----------------------------------------------------------------------------
(* Requests *)

Idle == [at |-> "idle", phone |-> None, list |-> {}, carries |-> "own",
         answer |-> "none"]

\* A request carries the token of the moment it is sent: "own" as long as that
\* is the page's token, later a "good" or a "bad" token of the past.
Fetch(at, phone, list, tok) ==
    [at |-> at, phone |-> phone, list |-> list,
     carries |-> IF tok = "none" THEN "bad" ELSE "own", answer |-> "none"]

\* The calls after the page has dropped or replaced its token.
Detached ==
    [c \in Calls |->
       IF call[c].carries = "own" /\ call[c].at # "idle"
       THEN [call[c] EXCEPT !.carries = IF token = "live" THEN "good" ELSE "bad"]
       ELSE call[c]]

\* _get_current_user
Authenticates(c) ==
    \/ call[c].carries = "good"
    \/ call[c].carries = "own" /\ token = "live"

\* The server answers with what its tables hold at that moment.  login asks for
\* no token and refuses a wrong password.
Serve(c) ==
    /\ call[c].at # "idle" /\ call[c].answer = "none"
    /\ \E answer \in IF call[c].at = "login" THEN {"ok", "failed"}
                     ELSE IF Authenticates(c) THEN {"ok"} ELSE {"denied"} :
         call' = [call EXCEPT ![c].answer = answer,
                  ![c].list = IF call[c].at = "terminals" THEN registered ELSE @]
    /\ UNCHANGED <<session, registered, view, bounds>>

\* The server cannot be reached or answers with an error.
Fails(c) ==
    /\ call[c].at # "idle" /\ call[c].answer = "none"
    /\ Use("failures")
    /\ call' = [call EXCEPT ![c].answer = "failed"]
    /\ UNCHANGED <<session, registered, view>>

\* A terminal registers.
Registers(p) ==
    /\ p \notin registered
    /\ registered' = registered \cup {p}
    /\ UNCHANGED <<session, call, view, bounds>>

\* The token expires; those issued before it have expired by then.
Expire ==
    /\ Use("ends")
    /\ token' \in IF token = "live" THEN {"live", "dead"} ELSE {token}
    /\ call' = [c \in Calls |-> IF call[c].carries = "good"
                                THEN [call[c] EXCEPT !.carries = "bad"]
                                ELSE call[c]]
    /\ UNCHANGED <<overlay, registered, view>>

-----------------------------------------------------------------------------
(* doLogin, logout and the check of a stored token *)

Arrives(c, at) == call[c].at = at /\ call[c].answer # "none"

SubmitLogin(c) ==
    /\ overlay
    /\ call[c] = Idle
    /\ call' = [call EXCEPT ![c] = Fetch("login", None, {}, "none")]
    /\ UNCHANGED <<session, registered, view, bounds>>

\* A token is accepted and refresh() is called.
LoginArrives(c) ==
    /\ Arrives(c, "login")
    /\ IF call[c].answer = "ok"
       THEN /\ token' = "live"
            /\ overlay' = FALSE
            /\ call' = [Detached EXCEPT
                          ![c] = Fetch("terminals", None, {}, token')]
       ELSE /\ call' = [call EXCEPT ![c] = Idle]
            /\ UNCHANGED session
    /\ UNCHANGED <<registered, view, bounds>>

\* Mutant of MeArrives: the page is shown, and nothing is loaded yet.
MeShowsOnly(c) ==
    /\ Arrives(c, "me")
    /\ overlay' = (call[c].answer # "ok")
    /\ call' = [call EXCEPT ![c] = Idle]
    /\ UNCHANGED <<token, registered, view, bounds>>

\* Any other answer to the check signs out; without an answer nothing happens.
MeArrives(c) ==
    /\ Arrives(c, "me")
    /\ \/ /\ call[c].answer = "ok"
          /\ overlay' = FALSE
          /\ call' = [call EXCEPT ![c] = Fetch("terminals", None, {}, token)]
          /\ UNCHANGED token
       \/ /\ call[c].answer # "ok"
          /\ token' = "none"
          /\ overlay' = TRUE
          /\ call' = [Detached EXCEPT ![c] = Idle]
       \/ /\ call[c].answer = "failed"
          /\ call' = [call EXCEPT ![c] = Idle]
          /\ UNCHANGED session
    /\ UNCHANGED <<registered, view, bounds>>

\* The button; the overlay covers it.
SignOut ==
    /\ ~overlay
    /\ Use("ends")
    /\ token' = "none"
    /\ overlay' = TRUE
    /\ call' = Detached
    /\ UNCHANGED <<registered, view>>

\* Mutant of SignedOutIfDenied: any error signs out.
SignedOutIfFailed(c) ==
    IF call[c].answer # "ok"
    THEN token' = "none" /\ overlay' = TRUE
    ELSE UNCHANGED session

\* get(): a refusal signs out, whatever token the request carried.
SignedOutIfDenied(c) ==
    IF call[c].answer = "denied"
    THEN token' = "none" /\ overlay' = TRUE
    ELSE UNCHANGED session

\* The call goes on with `next`, its next request or the end.
Proceed(c, next) ==
    call' = [(IF call[c].answer = "denied" THEN Detached ELSE call)
               EXCEPT ![c] = next]

-----------------------------------------------------------------------------
(* refresh *)

\* loadTerminalDetails up to its first request.
LoadDetails(c, p) ==
    IF p \in terminals
    THEN /\ panel' = [panel EXCEPT !.info = p]
         /\ Proceed(c, Fetch("locations", p, {}, token'))
    ELSE /\ Proceed(c, Idle)
         /\ UNCHANGED panel

\* Mutant of NextMarker: a refresh leaves the details as they are.
NextMarkerOnly(c, list) ==
    /\ \/ list = {} /\ Proceed(c, Idle)
       \/ \E p \in list : Proceed(c, Fetch("marker", p, list \ {p}, token'))
    /\ UNCHANGED panel

\* updateMapMarkers asks for the last location of each terminal in turn; then
\* the details of the selected terminal are loaded.
NextMarker(c, list) ==
    \/ /\ list # {}
       /\ \E p \in list :
             Proceed(c, Fetch("marker", p, list \ {p}, token'))
       /\ UNCHANGED panel
    \/ /\ list = {}
       /\ IF selected # None
          THEN LoadDetails(c, selected)
          ELSE Proceed(c, Idle) /\ UNCHANGED panel

\* Called by the timer, and by a button unless the overlay covers it.
Refresh(c) ==
    /\ call[c] = Idle
    /\ call' = [call EXCEPT ![c] = Fetch("terminals", None, {}, token)]
    /\ UNCHANGED <<session, registered, view, bounds>>

Tick(c) == token # "none" /\ Refresh(c)

TerminalsArrive(c) ==
    /\ Arrives(c, "terminals")
    /\ SignedOutIfDenied(c)
    /\ IF call[c].answer = "ok"
       THEN /\ terminals' = call[c].list
            /\ Proceed(c, Fetch("online", None, {}, token'))
       ELSE Proceed(c, Idle) /\ UNCHANGED terminals
    /\ UNCHANGED <<registered, card, marker, selected, panel, kept, drawn,
                   twice, bounds>>

\* renderSidebar, with the list and the selection of this moment.
OnlineArrives(c) ==
    /\ Arrives(c, "online")
    /\ SignedOutIfDenied(c)
    /\ IF call[c].answer = "ok"
       THEN /\ card' = [p \in Phones |->
                          IF p \notin terminals THEN "absent"
                          ELSE IF p = selected THEN "selected" ELSE "plain"]
            /\ NextMarker(c, terminals)
       ELSE Proceed(c, Idle) /\ UNCHANGED <<card, panel>>
    /\ UNCHANGED <<registered, terminals, marker, selected, kept, drawn, twice,
                   bounds>>

Icon(p) == IF p = selected THEN "selected" ELSE "plain"

\* A terminal without a location gets no marker.
MarkerArrives(c) ==
    /\ Arrives(c, "marker")
    /\ SignedOutIfDenied(c)
    /\ LET p == call[c].phone
       IN  \/ /\ call[c].answer = "ok"
              /\ marker' = [marker EXCEPT ![p] = Icon(p)]
           \/ UNCHANGED marker
    /\ NextMarker(c, call[c].list)
    /\ UNCHANGED <<registered, terminals, card, selected, kept, drawn, twice,
                   bounds>>

-----------------------------------------------------------------------------
(* selectTerminal *)

\* Mutant of Mark: what is marked already stays marked.
MarkToo(look, p) ==
    [q \in Phones |-> IF look[q] = "absent" \/ q # p THEN look[q]
                      ELSE "selected"]

Mark(look, p) ==
    [q \in Phones |-> IF look[q] = "absent" THEN "absent"
                      ELSE IF q = p THEN "selected" ELSE "plain"]

\* Mutant of TrailsRemoved: the trails are forgotten and stay on the map.
TrailsForgotten == drawn

\* What drawTrail leaves on the map: of each terminal it knows one trail.
TrailsRemoved == [p \in Phones |-> IF p \in kept THEN drawn[p] - 1 ELSE drawn[p]]

\* A click on a card or on a marker.
Select(c, p) ==
    /\ ~overlay
    /\ card[p] # "absent" \/ marker[p] # "absent"
    /\ call[c] = Idle
    /\ Use("clicks")
    /\ selected' = p
    /\ card' = Mark(card, p)
    /\ marker' = Mark(marker, p)
    /\ drawn' = TrailsRemoved
    /\ kept' = {}
    /\ twice' = IF \E d \in Calls : call[d].at = "trail" /\ call[d].phone = p
                THEN twice \cup {p} ELSE twice
    /\ call' = [call EXCEPT ![c] = Fetch("trail", p, {}, token)]
    /\ UNCHANGED <<session, registered, terminals, panel>>

\* A trail of fewer than two points is not drawn.
TrailArrives(c) ==
    /\ Arrives(c, "trail")
    /\ SignedOutIfDenied(c)
    /\ LET p == call[c].phone
       IN  /\ \/ /\ call[c].answer = "ok"
                 /\ drawn' = [drawn EXCEPT ![p] = @ + 1]
                 /\ kept' = kept \cup {p}
              \/ UNCHANGED <<drawn, kept>>
           /\ LoadDetails(c, p)
    /\ UNCHANGED <<registered, terminals, card, marker, selected, twice, bounds>>

Shown(c) == IF call[c].answer = "ok" THEN call[c].phone ELSE None

LocationsArrive(c) ==
    /\ Arrives(c, "locations")
    /\ SignedOutIfDenied(c)
    /\ panel' = [panel EXCEPT !.locations = Shown(c)]
    /\ Proceed(c, Fetch("commands", call[c].phone, {}, token'))
    /\ UNCHANGED <<registered, terminals, card, marker, selected, kept, drawn,
                   twice, bounds>>

CommandsArrive(c) ==
    /\ Arrives(c, "commands")
    /\ SignedOutIfDenied(c)
    /\ panel' = [panel EXCEPT !.commands = Shown(c)]
    /\ Proceed(c, Idle)
    /\ UNCHANGED <<registered, terminals, card, marker, selected, kept, drawn,
                   twice, bounds>>

-----------------------------------------------------------------------------
(* The page *)

\* The page loads with the token that an earlier visit has stored, if any, and
\* asks the server whether it is still good.
DashInit ==
    /\ budget \in Budgets
    /\ used = [clicks |-> 0, ends |-> 0, failures |-> 0]
    /\ token = budget.stored
    /\ overlay = TRUE
    /\ IF token = "none"
       THEN call = [c \in Calls |-> Idle]
       ELSE \E c \in Calls :
              call = [d \in Calls |->
                        IF d = c THEN Fetch("me", None, {}, token) ELSE Idle]
    /\ registered = {}
    /\ terminals = {}
    /\ card = [p \in Phones |-> "absent"]
    /\ marker = [p \in Phones |-> "absent"]
    /\ selected = None
    /\ panel = [info |-> None, locations |-> None, commands |-> None]
    /\ kept = {}
    /\ drawn = [p \in Phones |-> 0]
    /\ twice = {}

Answered(c) == Serve(c) \/ Fails(c)

Continues(c) ==
    \/ LoginArrives(c) \/ MeArrives(c)
    \/ TerminalsArrive(c) \/ OnlineArrives(c) \/ MarkerArrives(c)
    \/ TrailArrives(c) \/ LocationsArrive(c) \/ CommandsArrive(c)

DashNext ==
    \/ \E c \in Calls : \/ Answered(c) \/ Continues(c)
                        \/ Tick(c) \/ SubmitLogin(c)
                        \/ ~overlay /\ Refresh(c)
    \/ \E c \in Calls, p \in Phones : Select(c, p)
    \/ \E p \in Phones : Registers(p)
    \/ Expire \/ SignOut

\* The timer fires again and again, and each request comes to an answer or to an
\* error, which the page's only thread takes up.  Nobody has to click, to sign
\* in or to sign out.
DashSpec ==
    /\ DashInit /\ [][DashNext]_dashVars
    /\ WF_dashVars(\E c \in Calls : Tick(c))
    /\ \A c \in Calls : WF_dashVars(Answered(c)) /\ WF_dashVars(Continues(c))

-----------------------------------------------------------------------------
(* Properties *)

\* However answers and clicks cross, the selected terminal is the only one that
\* is marked, in the sidebar and on the map.
SelectedIsMarked ==
    \A p \in Phones :
        /\ card[p] # "absent" => (card[p] = "selected" <=> p = selected)
        /\ marker[p] # "absent" => (marker[p] = "selected" <=> p = selected)

\* A trail that no click removes any more is of a terminal that was selected
\* again before its trail had come: a click on another one never leaves any.
StrayTrailsAreOfDoubleClicks ==
    \A p \in Phones :
        drawn[p] > (IF p \in kept THEN 1 ELSE 0) => p \in twice

\* A session that has not expired ends by the button, by the refusal of a
\* request that carries another token than the page's, or because the check of a
\* stored token is answered with an error.  Of the requests that carry its own
\* token only that check can end it, and only if the server fails: get() tells a
\* refusal from an error, the check does not.
OnlyTheCheckEndsItsSession ==
    [][token = "live" /\ token' = "none" =>
         \/ SignOut
         \/ \E c \in Calls :
              /\ call'[c].answer = "none"
              /\ \/ call[c].answer = "denied" /\ call[c].carries # "own"
                 \/ call[c].answer = "failed" /\ call[c].at = "me"]_dashVars

\* A page that can load nothing does not stay open: an expired token is noticed,
\* and a check of a stored token that succeeds too late, after its token was
\* dropped, is undone, unless a request failed.
SignInIsOffered ==
    (~overlay /\ token # "live") ~>
        (overlay \/ token = "live" \/ used.failures > 0)

\* When the clicks are over and the session lasts, all parts of the details
\* show the selected terminal, and go on doing so: what slower answers to
\* earlier clicks have put there is replaced.
DetailsSettle ==
    <>[](token = "live" /\ ~overlay) =>
        <>[](selected # None =>
               panel = [info |-> selected, locations |-> selected,
                        commands |-> selected])

=============================================================================
