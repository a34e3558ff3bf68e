------------------------------- MODULE Firing -------------------------------
(***************************************************************************)
(* The firing pipeline, over the tables of calendars and events: the       *)
(* automations service books the scheduled automations of its repo on the  *)
(* calendar (registration.go), execcal asks the calendar what is due and   *)
(* forwards it (execcal.go), and ping is the clock of both (ping.go).      *)
(*                                                                         *)
(* Every request may be lost, or be done with its answer lost.  All three  *)
(* services live in one process and die with it.  A tick of the            *)
(* automations service is one request after the other; the one at startup  *)
(* runs in a goroutine of its own, beside those that ping sends.  What the *)
(* arbiter does with a fire is in Automations.  A day stands for a window. *)
(***************************************************************************)
EXTENDS Calendars

CONSTANTS
    Repo,          \* the automations in the repo
    Scheduled,     \* those with a schedule template
    UserEvents,    \* the automations that a user's own event may name
    LastDay,       \* bound: the days
    MaxMishaps     \* bound: how many requests are lost, deaths and writes of users in all

Registration == "Automations"    \* registrationCalendar

ASSUME RepoAssumption == Scheduled \subseteq Repo /\ Repo \cup UserEvents \subseteq Automations
ASSUME CalendarAssumption == Registration \in CalendarNames
ASSUME DayAssumption == LastDay \in Nat \ {0}

VARIABLES
    up,            \* whether the process of the three services lives
    registry,      \* the automations that a fire finds
    ticks,         \* where each tick of the automations service is
    rows,          \* what the tick of execcal has fetched and not yet fired
    asked,         \* the windows that a fire has brought to an automation
    day,
    overlapped,    \* whether two ticks were ever under way at once
    mishaps        \* how many of these there were

services == <<up, registry, ticks, rows, asked, overlapped>>
vars == <<calendarVars, services, day, mishaps>>

Tickers == {"startup", "ping"}

Idle == [step |-> "idle", calendar |-> NoCalendar, todo |-> {}]

Due == [Idle EXCEPT !.step = "due"]

At(t, step) == up /\ ticks[t].step = step

Mishap == mishaps < MaxMishaps /\ mishaps' = mishaps + 1

Go(t, step, c, todo) ==
    ticks' = [ticks EXCEPT ![t] = [step |-> step, calendar |-> c, todo |-> todo]]

Give(t) == ticks' = [ticks EXCEPT ![t] = Idle]

OnlyTicks == UNCHANGED <<up, registry, rows, asked, overlapped, day>>

(***************************************************************************)
(* tick: discover the repo, then ensureRegistered.                         *)
(***************************************************************************)
Begin(t) ==
    /\ At(t, "due") \/ (t = "ping" /\ At(t, "idle"))
    /\ registry' = Repo
    /\ Go(t, "calendars", NoCalendar, {})
    /\ overlapped' = (overlapped \/ \E u \in Tickers \ {t} : ticks[u].step \notin {"idle", "due"})
    /\ UNCHANGED <<calendarVars, up, rows, asked, day, mishaps>>

\* A calendar of the name is taken as it is.
ListCalendars(t) ==
    LET found == CalendarNamed(Tables, Registration)
    IN  /\ At(t, "calendars")
        /\ IF found = {} THEN Go(t, "create", NoCalendar, {})
           ELSE \E c \in found : Go(t, "events", c, {})
        /\ UNCHANGED <<calendarVars, mishaps>>
        /\ OnlyTicks

RegistrationCalendar == CreatedCalendar(Tables, Registration, TRUE)

\* The name is unique; the loser of a race gives up.
CreateRegistration(t) ==
    /\ At(t, "create")
    /\ IF NameTaken(calendars, Registration, NoCalendar)
       THEN Give(t) /\ UNCHANGED calendarVars
       ELSE /\ Write(RegistrationCalendar)
            /\ Go(t, "events", lastCalendar + 1, {})
            /\ UNCHANGED emptied
    /\ UNCHANGED mishaps
    /\ OnlyTicks

\* Mutant: only the calendar of the registration is looked at.
BookedThere(c) == {events[e].automation : e \in EventsOf(c)}

\* What some event names, whatever calendar it is on.
Present(c) == {events[e].automation : e \in DOMAIN events}

ListEvents(t) ==
    /\ At(t, "events")
    /\ Go(t, "book", ticks[t].calendar, (Scheduled \cap registry) \ Present(ticks[t].calendar))
    /\ UNCHANGED <<calendarVars, mishaps>>
    /\ OnlyTicks

\* Every day from today on.
Template(c, a) ==
    [calendar |-> c, title |-> <<a>>, start |-> day, every |-> 1, count |-> LastDay,
     automation |-> a]

Takes(c, a) ==
    c \in DOMAIN calendars /\ RequireExecutable(Tables, Template(c, a), [automation |-> a])

\* A booking that fails leaves the others to be done, and nobody misses its answer.
Book(t, a) ==
    LET c == ticks[t].calendar
    IN  /\ At(t, "book") /\ a \in ticks[t].todo
        /\ IF Takes(c, a) THEN Write(InsertedEvent(Tables, Template(c, a))) /\ UNCHANGED emptied
           ELSE UNCHANGED calendarVars
        /\ Go(t, "book", c, ticks[t].todo \ {a})
        /\ UNCHANGED mishaps
        /\ OnlyTicks

End(t) ==
    /\ At(t, "book") /\ ticks[t].todo = {}
    /\ Give(t)
    /\ UNCHANGED <<calendarVars, mishaps>>
    /\ OnlyTicks

\* A request that fails ends the tick, unless it is a booking.
LoseRequest(t) ==
    /\ Mishap
    /\ \/ /\ up /\ ticks[t].step \in {"calendars", "create", "events"}
          /\ Give(t)
       \/ \E a \in ticks[t].todo :
             At(t, "book") /\ Go(t, "book", ticks[t].calendar, ticks[t].todo \ {a})
    /\ UNCHANGED calendarVars
    /\ OnlyTicks

\* The calendar is made, and the tick does not learn of it.
LoseAnswer(t) ==
    /\ Mishap
    /\ At(t, "create") /\ ~NameTaken(calendars, Registration, NoCalendar)
    /\ Write(RegistrationCalendar)
    /\ Give(t)
    /\ UNCHANGED emptied
    /\ OnlyTicks

TickStep(t) ==
    \/ Begin(t) \/ ListCalendars(t) \/ CreateRegistration(t) \/ ListEvents(t) \/ End(t)
    \/ \E a \in Scheduled : Book(t, a)

(***************************************************************************)
(* The tick of execcal: fetch the rows, then fire each of them.  The order *)
(* of the rows, that of their names, is left open.                         *)
(***************************************************************************)
Fetch ==
    /\ up /\ rows = {}
    /\ rows' = {[automation |-> events[e].automation, window |-> day] : e \in Fireable(day)}
    /\ UNCHANGED <<calendarVars, up, registry, ticks, asked, overlapped, day, mishaps>>

\* Mutant: the first fire that is refused ends the tick.
RestAbortedBy(r) == IF r.automation \in registry THEN rows \ {r} ELSE {}

\* A failing fire never aborts the tick.
RestAfter(r) == rows \ {r}

\* An automation that the service does not know is a 404.
Fire(r) ==
    /\ up /\ r \in rows
    /\ rows' = RestAfter(r)
    /\ asked' = IF r.automation \in registry THEN asked \cup {r} ELSE asked
    /\ UNCHANGED <<calendarVars, up, registry, ticks, overlapped, day, mishaps>>

LoseFire(r) ==
    /\ Mishap
    /\ up /\ r \in rows
    /\ rows' = RestAfter(r)
    /\ UNCHANGED <<calendarVars, up, registry, ticks, asked, overlapped, day>>

(***************************************************************************)
(* The process, the clock and the user.                                    *)
(***************************************************************************)
Die ==
    /\ up
    /\ Mishap
    /\ up' = FALSE
    /\ registry' = {}
    /\ ticks' = [t \in Tickers |-> Idle]
    /\ rows' = {}
    /\ UNCHANGED <<calendarVars, asked, overlapped, day>>

Restart ==
    /\ ~up
    /\ up' = TRUE
    /\ ticks' = [ticks EXCEPT !["startup"] = Due]
    /\ UNCHANGED <<calendarVars, registry, rows, asked, overlapped, day, mishaps>>

NextDay ==
    /\ day < LastDay
    /\ day' = day + 1
    /\ UNCHANGED <<calendarVars, services, mishaps>>

UserWrites ==
    /\ Mishap
    /\ \/ \E name \in CalendarNames, x \in BOOLEAN : CreateCalendar(name, x)
       \/ \E c \in DOMAIN calendars :
             \/ DeleteCalendar(c)
             \/ \E x \in BOOLEAN : UpdateCalendar(c, [executable |-> x])
             \/ \E name \in CalendarNames : UpdateCalendar(c, [name |-> name])
             \/ \E a \in UserEvents : CreateEvent(c, "mine", day, a)
             \/ \E e \in DOMAIN events : UpdateEvent(e, [calendar |-> c])
       \/ \E e \in DOMAIN events : DeleteEvent(e)
    /\ UNCHANGED <<services, day>>

Init ==
    /\ InitCalendars
    /\ up = TRUE
    /\ registry = {}
    /\ ticks = [t \in Tickers |-> IF t = "startup" THEN Due ELSE Idle]
    /\ rows = {}
    /\ asked = {}
    /\ day = 1
    /\ overlapped = FALSE
    /\ mishaps = 0

Next ==
    \/ \E t \in Tickers : TickStep(t) \/ LoseRequest(t) \/ LoseAnswer(t)
    \/ Fetch
    \/ \E r \in rows : Fire(r) \/ LoseFire(r)
    \/ Die \/ Restart \/ NextDay \/ UserWrites

Spec == Init /\ [][Next]_vars

\* Ping sends both ticks for ever, and a process that died is started again.
FairSpec ==
    /\ Spec
    /\ WF_vars(TickStep("ping"))
    /\ WF_vars(Fetch \/ \E r \in rows : Fire(r))
    /\ WF_vars(Restart)
    /\ WF_vars(NextDay)

-----------------------------------------------------------------------------
\* Types, and a tick that books holds a calendar id.
TypeOK ==
    /\ up \in BOOLEAN /\ overlapped \in BOOLEAN
    /\ registry \in {{}, Repo}
    /\ \A t \in Tickers :
          /\ ticks[t].step \in {"idle", "due", "calendars", "create", "events", "book"}
          /\ ticks[t].step \in {"events", "book"} <=> ticks[t].calendar # NoCalendar
          /\ ticks[t].todo \subseteq Scheduled
    /\ asked \subseteq [automation : Repo, window : 1..LastDay]
    /\ rows \subseteq [automation : Automations, window : 1..LastDay]

\* Ensure-if-absent: registration never books an automation that it has booked already,
\* wherever the user has moved that event and however requests are lost and processes
\* die, as long as no two ticks were under way at once.
BookedOnce ==
    ~overlapped =>
       \A e, f \in DOMAIN events :
          events[e].title = events[f].title /\ events[e].title # <<"mine">> => e = f

\* What a user can do to keep an automation from being fired: to give the calendar of
\* the registration's name to events that fire nothing, or to leave the events that
\* name the automation where or when they are not due.
TurnedOff(a) ==
    LET naming == {e \in DOMAIN events : events[e].automation = a}
    IN  IF naming = {}
        THEN \E c \in CalendarNamed(Tables, Registration) : ~calendars[c].executable
        ELSE naming \cap Fireable(LastDay) = {}

\* End to end: each scheduled automation of the repo is asked to run for the last day,
\* unless the user has turned it off, whatever was lost or deleted before.
EveryAutomationIsAsked ==
    \A a \in Scheduled :
       <>[]([automation |-> a, window |-> LastDay] \in asked \/ TurnedOff(a))
=============================================================================
