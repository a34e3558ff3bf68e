----------------------------- MODULE Calendars -----------------------------
(***************************************************************************)
(* The tables of calendars and events (go/botnet/store.go), and what the   *)
(* app and the calendar tool of a model do to them.  Each action is one    *)
(* transaction.  The tool's delete_calendar alone is several: it counts    *)
(* the events of a calendar and deletes the calendar later.                *)
(*                                                                         *)
(* An id is a number, handed out in order.  The operators that return      *)
(* tables are for the transactions of Projects, which write here as well.  *)
(***************************************************************************)
EXTENDS Integers, FiniteSets, Functions

CONSTANTS
    CalendarNames,     \* with the two that the server keys on
    Automations,
    MaxCalendars, MaxEvents   \* bounds on how many are ever created

Personal == "Personal"
Shadows  == "Projects"     \* projectsCalendarName

ASSUME NamesAssumption == {Personal, Shadows} \subseteq CalendarNames

NoAutomation == "none"
NoCalendar == 0

VARIABLES
    calendars,     \* id -> [name, executable]
    events,        \* id -> [calendar, title, start, every, count, automation]
    lastCalendar, lastEvent,   \* the ids handed out
    emptied        \* the calendars that a tool call found empty and is to delete

calendarVars == <<calendars, events, lastCalendar, lastEvent, emptied>>

Tables == [calendars |-> calendars, events |-> events,
           lastCalendar |-> lastCalendar, lastEvent |-> lastEvent]

Without(table, ids) == Restrict(table, DOMAIN table \ ids)

\* A row as a patch leaves it, and a table with one more row.
Patched(row, patch) ==
    [field \in DOMAIN row \cup DOMAIN patch |->
        IF field \in DOMAIN patch THEN patch[field] ELSE row[field]]

Inserted(table, id, row) == [i \in DOMAIN table \cup {id} |-> IF i = id THEN row ELSE table[i]]

EventsOf(c) == {e \in DOMAIN events : events[e].calendar = c}

NameTaken(table, name, self) == \E c \in DOMAIN table \ {self} : table[c].name = name

CalendarNamed(t, name) == {c \in DOMAIN t.calendars : t.calendars[c].name = name}

CreatedCalendar(t, name, executable) ==
    [t EXCEPT !.calendars = Inserted(@, t.lastCalendar + 1,
                                     [name |-> name, executable |-> executable]),
              !.lastCalendar = @ + 1]

\* ensureCalendar: the calendar of that name, made if there is none.
Ensured(t, name) ==
    IF CalendarNamed(t, name) # {} THEN t ELSE CreatedCalendar(t, name, FALSE)

TheCalendar(t, name) == CHOOSE c \in CalendarNamed(t, name) : TRUE

InsertedEvent(t, ev) ==
    [t EXCEPT !.events = Inserted(@, t.lastEvent + 1, ev), !.lastEvent = @ + 1]

UpdatedEvent(t, e, ev) == [t EXCEPT !.events[e] = ev]

InBounds(t) == t.lastCalendar <= MaxCalendars /\ t.lastEvent <= MaxEvents

Write(t) ==
    /\ InBounds(t)
    /\ calendars' = t.calendars
    /\ events' = t.events
    /\ lastCalendar' = t.lastCalendar
    /\ lastEvent' = t.lastEvent

\* Mutant: the patch is judged, not the event it makes.
PatchExecutable(t, ev, patch) ==
    "automation" \in DOMAIN patch =>
        patch.automation = NoAutomation \/ t.calendars[ev.calendar].executable

(***************************************************************************)
(* A lunch cannot fire a fetcher: judged on the event as it will be        *)
(* stored.                                                                 *)
(***************************************************************************)
RequireExecutable(t, ev, patch) ==
    ev.automation = NoAutomation \/ t.calendars[ev.calendar].executable

CreateCalendar(name, executable) ==
    /\ ~NameTaken(calendars, name, NoCalendar)
    /\ Write(CreatedCalendar(Tables, name, executable))
    /\ UNCHANGED emptied

UpdateCalendar(c, patch) ==
    LET new == Patched(calendars[c], patch)
    IN  /\ ~NameTaken(calendars, new.name, c)
        /\ calendars' = [calendars EXCEPT ![c] = new]
        /\ UNCHANGED <<events, lastCalendar, lastEvent, emptied>>

\* Mutant: a calendar goes without its events.
NothingCascaded(gone) == events

\* What is left when calendars go, with the events of them.
Cascaded(gone) == Without(events, UNION {EventsOf(c) : c \in gone})

DeleteCalendar(c) ==
    /\ calendars' = Without(calendars, {c})
    /\ events' = Cascaded({c})
    /\ UNCHANGED <<lastCalendar, lastEvent, emptied>>

\* An event that names no calendar gets the personal one.
CreateEvent(c, title, start, automation) ==
    LET t  == IF c = NoCalendar THEN Ensured(Tables, Personal) ELSE Tables
        ev == [calendar |-> IF c = NoCalendar THEN TheCalendar(t, Personal) ELSE c,
               title |-> <<title>>, start |-> start, every |-> 1, count |-> 0,
               automation |-> automation]
    IN  /\ RequireExecutable(t, ev, [automation |-> automation])
        /\ Write(InsertedEvent(t, ev))
        /\ UNCHANGED emptied

UpdateEvent(e, patch) ==
    LET new == Patched(events[e], patch)
    IN  /\ new.calendar \in DOMAIN calendars
        /\ RequireExecutable(Tables, new, patch)
        /\ Write(UpdatedEvent(Tables, e, new))
        /\ UNCHANGED emptied

DeleteEvent(e) ==
    /\ events' = Without(events, {e})
    /\ UNCHANGED <<calendars, lastCalendar, lastEvent, emptied>>

(***************************************************************************)
(* delete_calendar of the tool: refused if the calendar has events, and    *)
(* then the same deletion as the one the app confirms with the user.       *)
(***************************************************************************)
CountEvents(c) ==
    /\ EventsOf(c) = {}
    /\ emptied' = emptied \cup {c}
    /\ UNCHANGED <<calendars, events, lastCalendar, lastEvent>>

DeleteEmptyCalendar(c) ==
    /\ emptied' = emptied \ {c}
    /\ calendars' = Without(calendars, {c})
    /\ events' = Cascaded({c})
    /\ UNCHANGED <<lastCalendar, lastEvent>>

(***************************************************************************)
(* What GET /v1/fireable lists at a day.                                   *)
(***************************************************************************)
Active(ev, at) == \E k \in {0} \cup 0..(ev.count - 1) : ev.start + k * ev.every = at

Fireable(at) ==
    {e \in DOMAIN events : /\ events[e].automation # NoAutomation
                           /\ calendars[events[e].calendar].executable
                           /\ Active(events[e], at)}

InitCalendars ==
    /\ calendars = <<>>
    /\ events = <<>>
    /\ lastCalendar = 0
    /\ lastEvent = 0
    /\ emptied = {}
=============================================================================
