--------------------------- MODULE CalendarProofs ---------------------------
(* What the calendar keeps: the firing pipeline for every repo, any number   *)
(* of days, lost requests, deaths of the process and writes of users; and,   *)
(* from "Numbers" on, the expansion of recurring events for every event,     *)
(* rule, zone and client that pages through them.                            *)
EXTENDS Firing, Recurrence, FiniteSetTheorems, WellFoundedInduction, TLAPS

-----------------------------------------------------------------------------
(* The transactions of the calendar.                                         *)

LEMMA CalendarCreated ==
    ASSUME NEW name, NEW executable, Write(CreatedCalendar(Tables, name, executable))
    PROVE  /\ calendars' = Inserted(calendars, lastCalendar + 1, [name |-> name, executable |-> executable])
           /\ events' = events /\ lastCalendar' = lastCalendar + 1 /\ lastEvent' = lastEvent
BY DEF Write, CreatedCalendar, Tables

LEMMA EventInserted ==
    ASSUME NEW ev, Write(InsertedEvent(Tables, ev))
    PROVE  /\ events' = Inserted(events, lastEvent + 1, ev)
           /\ calendars' = calendars /\ lastCalendar' = lastCalendar /\ lastEvent' = lastEvent + 1
BY DEF Write, InsertedEvent, Tables

LEMMA EventUpdated ==
    ASSUME NEW e, NEW ev, Write(UpdatedEvent(Tables, e, ev))
    PROVE  /\ events' = [events EXCEPT ![e] = ev]
           /\ calendars' = calendars /\ lastCalendar' = lastCalendar /\ lastEvent' = lastEvent
BY DEF Write, UpdatedEvent, Tables

-----------------------------------------------------------------------------
(* Type correctness.                                                         *)

Steps == {"idle", "due", "calendars", "create", "events", "book"}

\* Where a tick may be.
TickOK(r) ==
    /\ r.step \in Steps
    /\ r.step \in {"events", "book"} <=> r.calendar # NoCalendar
    /\ r.todo \subseteq Scheduled

\* An event of the registration is named for what it fires.
EventOK(ev) ==
    /\ {"calendar", "title", "automation"} \subseteq DOMAIN ev
    /\ ev.automation \in Automations
    /\ ev.title = <<"mine">> \/ ev.title = <<ev.automation>>

TablesOK ==
    /\ lastCalendar \in Nat
    /\ DOMAIN calendars \subseteq 1..lastCalendar
    /\ \A e \in DOMAIN events : EventOK(events[e])

ServicesOK ==
    /\ DOMAIN ticks = Tickers
    /\ day \in 1..LastDay

FiringInv == TypeOK /\ TablesOK /\ ServicesOK

LEMMA TypeParts ==
    TypeOK <=> /\ up \in BOOLEAN /\ overlapped \in BOOLEAN /\ registry \in {{}, Repo}
               /\ \A t \in Tickers : TickOK(ticks[t])
               /\ asked \subseteq [automation : Repo, window : 1..LastDay]
               /\ rows \subseteq [automation : Automations, window : 1..LastDay]
BY DEF TypeOK, TickOK, Steps

\* Every event there is was there before, or is one that a user has made.
EventsKept ==
    \A e \in DOMAIN events' :
       /\ EventOK(events'[e])
       /\ \/ /\ e \in DOMAIN events
             /\ events'[e].title = events[e].title /\ events'[e].automation = events[e].automation
          \/ events'[e].title = <<"mine">>

LEMMA EventsStay ==
    ASSUME TablesOK, UNCHANGED events
    PROVE  EventsKept
BY DEF TablesOK, EventsKept

LEMMA EventsGo ==
    ASSUME TablesOK, NEW ids, events' = Without(events, ids)
    PROVE  EventsKept
<1>1. DOMAIN events' = DOMAIN events \ ids /\ \A i \in DOMAIN events' : events'[i] = events[i]
  BY DEF Without, Restrict
<1> QED
  BY <1>1 DEF TablesOK, EventsKept

LEMMA EventsCome ==
    ASSUME TablesOK, NEW ev, EventOK(ev), ev.title = <<"mine">>,
           NEW id, events' = Inserted(events, id, ev)
    PROVE  EventsKept
<1>1. /\ DOMAIN events' = DOMAIN events \cup {id}
      /\ \A i \in DOMAIN events' : events'[i] = IF i = id THEN ev ELSE events[i]
  BY DEF Inserted
<1> QED
  BY <1>1 DEF TablesOK, EventsKept

\* What a user does to the tables.
LEMMA UsersKeep ==
    ASSUME FiringInv, UserWrites
    PROVE  TablesOK' /\ EventsKept
<1>0. TablesOK /\ lastCalendar \in Nat /\ NoCalendar \notin DOMAIN calendars
  BY DEF FiringInv, TablesOK, NoCalendar
<1>1. ASSUME NEW name, NEW x, CreateCalendar(name, x)
      PROVE  TablesOK' /\ EventsKept
  <2>1. /\ calendars' = Inserted(calendars, lastCalendar + 1, [name |-> name, executable |-> x])
        /\ events' = events /\ lastCalendar' = lastCalendar + 1
    BY <1>1, CalendarCreated DEF CreateCalendar
  <2>2. DOMAIN calendars' = DOMAIN calendars \cup {lastCalendar + 1}
    BY <2>1 DEF Inserted
  <2>3. DOMAIN calendars' \subseteq 1..lastCalendar'
    BY <1>0, <2>1, <2>2 DEF TablesOK
  <2> QED
    BY <1>0, <2>1, <2>3, EventsStay DEF TablesOK
<1>2. ASSUME NEW c \in DOMAIN calendars, DeleteCalendar(c)
      PROVE  TablesOK' /\ EventsKept
  <2>1. DOMAIN calendars' \subseteq DOMAIN calendars /\ lastCalendar' = lastCalendar
    BY <1>2 DEF DeleteCalendar, Without, Restrict
  <2>2. EventsKept
    BY <1>0, <1>2, EventsGo DEF DeleteCalendar, Cascaded
  <2> QED
    BY <1>0, <2>1, <2>2 DEF TablesOK, EventsKept
<1>3. ASSUME NEW c \in DOMAIN calendars, NEW patch, UpdateCalendar(c, patch)
      PROVE  TablesOK' /\ EventsKept
  <2>1. DOMAIN calendars' = DOMAIN calendars /\ lastCalendar' = lastCalendar /\ events' = events
    BY <1>3 DEF UpdateCalendar
  <2> QED
    BY <1>0, <2>1, EventsStay DEF TablesOK
<1>4. ASSUME NEW c \in DOMAIN calendars, NEW a \in UserEvents, CreateEvent(c, "mine", day, a)
      PROVE  TablesOK' /\ EventsKept
  <2> DEFINE ev == [calendar |-> c, title |-> <<"mine">>, start |-> day, every |-> 1,
                    count |-> 0, automation |-> a]
  <2>1. Write(InsertedEvent(Tables, ev))
    BY <1>0, <1>4 DEF CreateEvent
  <2>2. /\ events' = Inserted(events, lastEvent + 1, ev)
        /\ calendars' = calendars /\ lastCalendar' = lastCalendar
    BY <2>1, EventInserted
  <2>3. EventOK(ev) /\ ev.title = <<"mine">>
    BY RepoAssumption DEF EventOK
  <2> HIDE DEF ev
  <2>4. EventsKept
    BY <1>0, <2>2, <2>3, EventsCome
  <2> QED
    BY <1>0, <2>2, <2>4 DEF TablesOK, EventsKept
<1>5. ASSUME NEW e \in DOMAIN events, NEW c, UpdateEvent(e, [calendar |-> c])
      PROVE  TablesOK' /\ EventsKept
  <2> DEFINE new == Patched(events[e], [calendar |-> c])
  <2>1. Write(UpdatedEvent(Tables, e, new))
    BY <1>5 DEF UpdateEvent
  <2>2. events' = [events EXCEPT ![e] = new] /\ calendars' = calendars /\ lastCalendar' = lastCalendar
    BY <2>1, EventUpdated
  <2>3. EventOK(events[e])
    BY <1>0 DEF TablesOK
  <2>4. /\ DOMAIN new = DOMAIN events[e] \cup {"calendar"}
        /\ new.title = events[e].title /\ new.automation = events[e].automation
    BY <2>3 DEF Patched, EventOK
  <2>5. EventOK(new)
    BY <2>3, <2>4 DEF EventOK
  <2> HIDE DEF new
  <2>6. EventsKept
    BY <1>0, <2>2, <2>4, <2>5 DEF TablesOK, EventsKept
  <2> QED
    BY <1>0, <2>2, <2>6 DEF TablesOK, EventsKept
<1>6. ASSUME NEW e \in DOMAIN events, DeleteEvent(e)
      PROVE  TablesOK' /\ EventsKept
  <2>1. EventsKept
    BY <1>0, <1>6, EventsGo DEF DeleteEvent
  <2> QED
    BY <1>0, <1>6, <2>1, Zenon DEF DeleteEvent, TablesOK, EventsKept
<1> QED
  BY <1>1, <1>2, <1>3, <1>4, <1>5, <1>6, Zenon DEF UserWrites

-----------------------------------------------------------------------------
(* The ticks, one request at a time.                                         *)

Moved(t, r) == ticks' = [ticks EXCEPT ![t] = r]

LEMMA TicksMove ==
    ASSUME FiringInv, NEW t \in Tickers, NEW r, TickOK(r), Moved(t, r)
    PROVE  /\ DOMAIN ticks' = Tickers
           /\ \A u \in Tickers : TickOK(ticks'[u])
           /\ ticks'[t] = r /\ \A u \in Tickers \ {t} : ticks'[u] = ticks[u]
<1>1. DOMAIN ticks = Tickers /\ \A u \in Tickers : TickOK(ticks[u])
  BY TypeParts DEF FiringInv, ServicesOK
<1> QED
  BY <1>1 DEF Moved

\* A request moves its tick to where a tick may be, and leaves the other tick alone.
\* What it does to the tables leaves the events as they were, except that a booking
\* adds one.
RequestOK(t) ==
    /\ \E r : TickOK(r) /\ Moved(t, r)
    /\ TablesOK'
    /\ UNCHANGED <<up, rows, asked, day>> /\ registry' \in {{}, Repo}
    /\ overlapped' \in BOOLEAN

LEMMA IdleOK == TickOK(Idle) /\ TickOK(Due)
BY DEF TickOK, Idle, Due, Steps, NoCalendar

LEMMA GoOK ==
    ASSUME NEW t, NEW step \in Steps, NEW c, NEW todo, Go(t, step, c, todo),
           step \in {"events", "book"} <=> c # NoCalendar, todo \subseteq Scheduled
    PROVE  \E r : TickOK(r) /\ Moved(t, r)
<1> DEFINE r == [step |-> step, calendar |-> c, todo |-> todo]
<1>1. TickOK(r) /\ Moved(t, r)
  BY DEF TickOK, Go, Moved
<1> QED
  BY <1>1

LEMMA TablesStay ==
    ASSUME TablesOK, UNCHANGED calendarVars
    PROVE  TablesOK'
BY DEF TablesOK, calendarVars

LEMMA RegistrationMade ==
    ASSUME TablesOK, Write(RegistrationCalendar)
    PROVE  TablesOK' /\ events' = events
<1>1. /\ calendars' = Inserted(calendars, lastCalendar + 1,
                               [name |-> Registration, executable |-> TRUE])
      /\ events' = events /\ lastCalendar' = lastCalendar + 1
  BY CalendarCreated, Zenon DEF RegistrationCalendar
<1>2. DOMAIN calendars' = DOMAIN calendars \cup {lastCalendar + 1}
  BY <1>1 DEF Inserted
<1>3. lastCalendar \in Nat /\ DOMAIN calendars \subseteq 1..lastCalendar
  BY DEF TablesOK
<1>4. lastCalendar' \in Nat /\ DOMAIN calendars' \subseteq 1..lastCalendar'
  BY <1>1, <1>2, <1>3
<1> QED
  BY <1>1, <1>4, Zenon DEF TablesOK

\* The event of a booking.
Booked(a) ==
    \E c : events' = Inserted(events, lastEvent + 1, Template(c, a))

LEMMA BookingMade ==
    ASSUME TablesOK, NEW c, NEW a \in Scheduled, Write(InsertedEvent(Tables, Template(c, a)))
    PROVE  TablesOK' /\ Booked(a)
<1> DEFINE ev == Template(c, a)
<1>1. /\ events' = Inserted(events, lastEvent + 1, ev)
      /\ calendars' = calendars /\ lastCalendar' = lastCalendar
  BY EventInserted
<1>2. EventOK(ev)
  BY RepoAssumption DEF EventOK, Template
<1>3. Booked(a)
  BY <1>1 DEF Booked
<1> HIDE DEF ev
<1>4. /\ DOMAIN events' = DOMAIN events \cup {lastEvent + 1}
      /\ \A i \in DOMAIN events' : events'[i] = IF i = lastEvent + 1 THEN ev ELSE events[i]
  BY <1>1 DEF Inserted
<1> QED
  BY <1>1, <1>2, <1>3, <1>4 DEF TablesOK

-----------------------------------------------------------------------------
\* What a step is to the proofs.
StepCases ==
    \/ \E t \in Tickers : TickStep(t) \/ LoseRequest(t) \/ LoseAnswer(t)
    \/ Fetch
    \/ \E r \in rows : Fire(r) \/ LoseFire(r)
    \/ Die \/ Restart \/ NextDay \/ UserWrites
    \/ UNCHANGED vars

LEMMA BeginMoves ==
    ASSUME FiringInv, NEW t \in Tickers, Begin(t)
    PROVE  RequestOK(t) /\ events' = events
<1>1. \E r : TickOK(r) /\ Moved(t, r)
  BY GoOK DEF Begin, Steps
<1>2. TablesOK'
  BY TablesStay DEF Begin, FiringInv
<1>3. overlapped \in BOOLEAN
  BY TypeParts DEF FiringInv
<1> QED
  BY <1>1, <1>2, <1>3 DEF Begin, RequestOK, calendarVars

LEMMA ListCalendarsMoves ==
    ASSUME FiringInv, NEW t \in Tickers, ListCalendars(t)
    PROVE  RequestOK(t) /\ events' = events
<1>1. TablesOK' /\ events' = events
  BY TablesStay DEF ListCalendars, FiringInv, calendarVars
<1>2. registry \in {{}, Repo} /\ overlapped \in BOOLEAN
  BY TypeParts DEF FiringInv
<1>3. \E r : TickOK(r) /\ Moved(t, r)
  <2>1. CASE CalendarNamed(Tables, Registration) = {}
    <3>1. Go(t, "create", NoCalendar, {})
      BY <2>1 DEF ListCalendars
    <3> QED
      BY <3>1, GoOK DEF Steps
  <2>2. CASE CalendarNamed(Tables, Registration) # {}
    <3>1. PICK c \in CalendarNamed(Tables, Registration) : Go(t, "events", c, {})
      BY <2>2 DEF ListCalendars
    <3>2. c # NoCalendar
      BY <3>1 DEF CalendarNamed, Tables, FiringInv, TablesOK, NoCalendar
    <3> QED
      BY <3>1, <3>2, GoOK DEF Steps
  <2> QED
    BY <2>1, <2>2
<1> QED
  BY <1>1, <1>2, <1>3 DEF ListCalendars, OnlyTicks, RequestOK

LEMMA CreateRegistrationMoves ==
    ASSUME FiringInv, NEW t \in Tickers, CreateRegistration(t)
    PROVE  RequestOK(t) /\ events' = events
<1>1. registry \in {{}, Repo} /\ overlapped \in BOOLEAN /\ TablesOK
  BY TypeParts DEF FiringInv
<1>2. CASE NameTaken(calendars, Registration, NoCalendar)
  <2>1. Moved(t, Idle) /\ TablesOK' /\ events' = events
    BY <1>1, <1>2, TablesStay DEF CreateRegistration, Give, Moved, calendarVars
  <2> QED
    BY <1>1, <2>1, IdleOK DEF CreateRegistration, OnlyTicks, RequestOK
<1>3. CASE ~NameTaken(calendars, Registration, NoCalendar)
  <2>1. TablesOK' /\ events' = events
    BY <1>1, <1>3, RegistrationMade DEF CreateRegistration
  <2>2. lastCalendar + 1 # NoCalendar
    BY <1>1 DEF TablesOK, NoCalendar
  <2>3. Go(t, "events", lastCalendar + 1, {})
    BY <1>3 DEF CreateRegistration
  <2>4. \E r : TickOK(r) /\ Moved(t, r)
    BY <2>2, <2>3, GoOK DEF Steps
  <2> QED
    BY <1>1, <2>1, <2>4 DEF CreateRegistration, OnlyTicks, RequestOK
<1> QED
  BY <1>2, <1>3

LEMMA ListEventsMoves ==
    ASSUME FiringInv, NEW t \in Tickers, ListEvents(t)
    PROVE  RequestOK(t) /\ events' = events
<1>1. registry \in {{}, Repo} /\ overlapped \in BOOLEAN /\ TickOK(ticks[t])
  BY TypeParts DEF FiringInv
<1>2. ticks[t].calendar # NoCalendar
  BY <1>1 DEF ListEvents, At, TickOK
<1>3. \E r : TickOK(r) /\ Moved(t, r)
  BY <1>2, GoOK DEF ListEvents, Steps
<1>4. TablesOK' /\ events' = events
  BY TablesStay DEF ListEvents, FiringInv, calendarVars
<1> QED
  BY <1>1, <1>3, <1>4 DEF ListEvents, OnlyTicks, RequestOK

LEMMA BookMoves ==
    ASSUME FiringInv, NEW t \in Tickers, NEW a \in Scheduled, Book(t, a)
    PROVE  RequestOK(t) /\ (events' = events \/ Booked(a))
<1>1. registry \in {{}, Repo} /\ overlapped \in BOOLEAN /\ TickOK(ticks[t]) /\ TablesOK
  BY TypeParts DEF FiringInv
<1>2. ticks[t].calendar # NoCalendar /\ ticks[t].todo \subseteq Scheduled
  BY <1>1 DEF Book, At, TickOK
<1>3. \E r : TickOK(r) /\ Moved(t, r)
  BY <1>2, GoOK DEF Book, Steps
<1>4. TablesOK' /\ (events' = events \/ Booked(a))
  <2>1. CASE Takes(ticks[t].calendar, a)
    BY <1>1, <2>1, BookingMade DEF Book
  <2>2. CASE ~Takes(ticks[t].calendar, a)
    BY <1>1, <2>2, TablesStay DEF Book, calendarVars
  <2> QED
    BY <2>1, <2>2
<1> QED
  BY <1>1, <1>3, <1>4 DEF Book, OnlyTicks, RequestOK

LEMMA EndMoves ==
    ASSUME FiringInv, NEW t \in Tickers, End(t)
    PROVE  RequestOK(t) /\ events' = events
<1>1. registry \in {{}, Repo} /\ overlapped \in BOOLEAN /\ TablesOK
  BY TypeParts DEF FiringInv
<1>2. Moved(t, Idle) /\ TablesOK' /\ events' = events
  BY <1>1, TablesStay DEF End, Give, Moved, calendarVars
<1> QED
  BY <1>1, <1>2, IdleOK DEF End, OnlyTicks, RequestOK

LEMMA LoseRequestMoves ==
    ASSUME FiringInv, NEW t \in Tickers, LoseRequest(t)
    PROVE  RequestOK(t) /\ events' = events
<1>1. registry \in {{}, Repo} /\ overlapped \in BOOLEAN /\ TickOK(ticks[t]) /\ TablesOK
  BY TypeParts DEF FiringInv
<1>2. TablesOK' /\ events' = events
  BY <1>1, TablesStay DEF LoseRequest, calendarVars
<1>3. CASE Give(t)
  BY <1>1, <1>2, <1>3, IdleOK, Zenon DEF Give, Moved, LoseRequest, OnlyTicks, RequestOK
<1>4. ASSUME NEW a \in ticks[t].todo, At(t, "book"),
             Go(t, "book", ticks[t].calendar, ticks[t].todo \ {a})
      PROVE  RequestOK(t)
  <2>1. ticks[t].calendar # NoCalendar /\ ticks[t].todo \subseteq Scheduled
    BY <1>1, <1>4 DEF At, TickOK
  <2>2. \E r : TickOK(r) /\ Moved(t, r)
    BY <1>4, <2>1, GoOK DEF Steps
  <2> QED
    BY <1>1, <1>2, <2>2 DEF LoseRequest, OnlyTicks, RequestOK
<1> QED
  BY <1>2, <1>3, <1>4, Zenon DEF LoseRequest

LEMMA LoseAnswerMoves ==
    ASSUME FiringInv, NEW t \in Tickers, LoseAnswer(t)
    PROVE  RequestOK(t) /\ events' = events
<1>1. registry \in {{}, Repo} /\ overlapped \in BOOLEAN /\ TablesOK
  BY TypeParts DEF FiringInv
<1>2. TablesOK' /\ events' = events
  BY <1>1, RegistrationMade DEF LoseAnswer
<1> QED
  BY <1>1, <1>2, IdleOK, Zenon DEF LoseAnswer, Give, Moved, OnlyTicks, RequestOK

\* A request of a tick keeps the invariant.
LEMMA RequestTyped ==
    ASSUME FiringInv, NEW t \in Tickers, RequestOK(t)
    PROVE  FiringInv'
<1>1. PICK r : TickOK(r) /\ Moved(t, r)
  BY DEF RequestOK
<1>2. DOMAIN ticks' = Tickers /\ \A u \in Tickers : TickOK(ticks'[u])
  BY <1>1, TicksMove
<1>3. /\ up \in BOOLEAN /\ day \in 1..LastDay
      /\ asked \subseteq [automation : Repo, window : 1..LastDay]
      /\ rows \subseteq [automation : Automations, window : 1..LastDay]
  BY TypeParts DEF FiringInv, ServicesOK
<1>4. TypeOK'
  BY <1>2, <1>3 DEF RequestOK, TypeOK, TickOK, Steps
<1> QED
  BY <1>2, <1>3, <1>4 DEF RequestOK, FiringInv, ServicesOK

-----------------------------------------------------------------------------
(* Every step keeps the invariant.                                           *)

LEMMA FetchTyped ==
    ASSUME FiringInv, Fetch
    PROVE  FiringInv'
<1>1. \A e \in DOMAIN events : events[e].automation \in Automations
  BY DEF FiringInv, TablesOK, EventOK
<1>2. rows' \subseteq [automation : Automations, window : 1..LastDay]
  BY <1>1 DEF Fetch, Fireable, FiringInv, ServicesOK
<1>3. TablesOK'
  BY TablesStay DEF Fetch, FiringInv
<1> QED
  BY <1>2, <1>3 DEF Fetch, FiringInv, TypeOK, ServicesOK

LEMMA FireTyped ==
    ASSUME FiringInv, NEW r \in rows, Fire(r) \/ LoseFire(r)
    PROVE  FiringInv'
<1>1. /\ registry \in {{}, Repo}
      /\ asked \subseteq [automation : Repo, window : 1..LastDay]
      /\ rows \subseteq [automation : Automations, window : 1..LastDay]
  BY DEF FiringInv, TypeOK
<1>2. r.automation \in registry => r \in [automation : Repo, window : 1..LastDay]
  BY <1>1
<1>3. rows' \subseteq rows
  BY DEF Fire, LoseFire, RestAfter
<1>4. asked' \subseteq [automation : Repo, window : 1..LastDay]
  BY <1>1, <1>2 DEF Fire, LoseFire
<1>5. TablesOK' /\ UNCHANGED <<up, registry, ticks, overlapped, day>>
  BY TablesStay DEF Fire, LoseFire, FiringInv
<1> QED
  BY <1>1, <1>3, <1>4, <1>5 DEF FiringInv, TypeOK, ServicesOK

LEMMA ProcessTyped ==
    ASSUME FiringInv, Die \/ Restart
    PROVE  FiringInv'
<1>1. DOMAIN ticks = Tickers /\ \A u \in Tickers : TickOK(ticks[u])
  BY TypeParts DEF FiringInv, ServicesOK
<1>2. DOMAIN ticks' = Tickers /\ \A u \in Tickers : TickOK(ticks'[u])
  BY <1>1, IdleOK DEF Die, Restart
<1>3. TablesOK'
  BY TablesStay DEF Die, Restart, FiringInv
<1>4. /\ overlapped \in BOOLEAN /\ registry \in {{}, Repo} /\ day \in 1..LastDay
      /\ asked \subseteq [automation : Repo, window : 1..LastDay]
      /\ rows \subseteq [automation : Automations, window : 1..LastDay]
  BY TypeParts DEF FiringInv, ServicesOK
<1>5. /\ up' \in BOOLEAN /\ overlapped' = overlapped /\ registry' \in {{}, Repo}
      /\ asked' = asked /\ rows' \subseteq rows /\ day' = day
  BY <1>4, Zenon DEF Die, Restart
<1> QED
  BY <1>2, <1>3, <1>4, <1>5 DEF FiringInv, TypeOK, TickOK, Steps, ServicesOK

LEMMA RestTyped ==
    ASSUME FiringInv, NextDay \/ UserWrites \/ UNCHANGED vars
    PROVE  FiringInv'
<1>1. TablesOK'
  BY TablesStay, UsersKeep DEF NextDay, vars, FiringInv
<1>2. day' \in 1..LastDay
  BY DayAssumption DEF NextDay, UserWrites, vars, FiringInv, ServicesOK
<1>3. UNCHANGED services
  BY DEF NextDay, UserWrites, vars
<1> QED
  BY <1>1, <1>2, <1>3 DEF services, FiringInv, TypeOK, ServicesOK

LEMMA FiringSteps ==
    [Next]_vars <=> StepCases
BY DEF Next, StepCases

LEMMA FiringInvariant == Spec => []FiringInv
<1>1. Init => FiringInv
  <2> SUFFICES ASSUME Init
               PROVE  FiringInv
    OBVIOUS
  <2>1. DOMAIN ticks = Tickers /\ \A t \in Tickers : TickOK(ticks[t])
    BY IdleOK DEF Init
  <2>2. TablesOK
    BY DEF Init, InitCalendars, TablesOK
  <2>3. ServicesOK
    BY <2>1, DayAssumption DEF Init, ServicesOK
  <2>4. TypeOK
    BY <2>1, TypeParts, Zenon DEF Init
  <2> QED
    BY <2>2, <2>3, <2>4 DEF FiringInv
<1>2. FiringInv /\ [Next]_vars => FiringInv'
  <2> SUFFICES ASSUME FiringInv, StepCases
               PROVE  FiringInv'
    BY FiringSteps
  <2>1. ASSUME NEW t \in Tickers, TickStep(t) \/ LoseRequest(t) \/ LoseAnswer(t)
        PROVE  FiringInv'
    <3>1. ASSUME NEW a \in Scheduled, Book(t, a)
          PROVE  RequestOK(t)
      BY <3>1, BookMoves
    <3> QED
      BY <2>1, <3>1, BeginMoves, ListCalendarsMoves, CreateRegistrationMoves, ListEventsMoves,
         EndMoves, LoseRequestMoves, LoseAnswerMoves, RequestTyped DEF TickStep
  <2> QED
    BY <2>1, FetchTyped, FireTyped, ProcessTyped, RestTyped DEF StepCases
<1> QED
  BY <1>1, <1>2, PTL DEF Spec

\* A tick that books holds a calendar; what execcal has fetched and what an automation
\* was asked for are windows of days that there are.
THEOREM FiringTypeCorrect == Spec => []TypeOK
BY FiringInvariant, PTL DEF FiringInv

-----------------------------------------------------------------------------
(* No automation is booked twice.  As long as no two ticks overlap, what the *)
(* tick that books has left to do is named by no event of the registration.  *)

Under(t) == ticks[t].step \notin {"idle", "due"}

\* No event that a user did not make names an automation of these.
Unbooked(todo) ==
    \A e \in DOMAIN events :
       events[e].title # <<"mine">> => events[e].automation \notin todo

TitlesDiffer ==
    \A e, f \in DOMAIN events :
       events[e].title = events[f].title /\ events[e].title # <<"mine">> => e = f

BooksTheRest(t) == ticks[t].step = "book" => Unbooked(ticks[t].todo)

BookInv ==
    ~overlapped =>
       /\ \A t, u \in Tickers : Under(t) /\ Under(u) => t = u
       /\ \A t \in Tickers : BooksTheRest(t)
       /\ TitlesDiffer

\* Events that only go leave titles apart, and automations unbooked.
LEMMA TitlesStayApart ==
    ASSUME EventsKept, TitlesDiffer
    PROVE  TitlesDiffer'
BY DEF EventsKept, TitlesDiffer

LEMMA StaysUnbooked ==
    ASSUME EventsKept, NEW t, NEW todo, Unbooked(todo), ticks'[t].todo \subseteq todo
    PROVE  BooksTheRest(t)'
BY DEF EventsKept, Unbooked, BooksTheRest

\* A step that starts no tick and books nothing.
LEMMA NothingBegins ==
    ASSUME BookInv, EventsKept, overlapped' = overlapped,
           \A t \in Tickers : Under(t)' => Under(t),
           \A t \in Tickers : ticks'[t].step = "book" =>
              \/ ticks[t].step = "book" /\ ticks'[t].todo \subseteq ticks[t].todo
              \/ Unbooked(ticks'[t].todo)
    PROVE  BookInv'
<1>1. CASE overlapped
  BY <1>1 DEF BookInv
<1>2. CASE ~overlapped
  <2>1. \A t, u \in Tickers : Under(t)' /\ Under(u)' => t = u
    BY <1>2 DEF BookInv
  <2>2. ASSUME NEW t \in Tickers
        PROVE  BooksTheRest(t)'
    <3>1. CASE ticks'[t].step # "book"
      BY <3>1 DEF BooksTheRest
    <3>2. CASE ticks'[t].step = "book"
      <4>1. PICK todo : Unbooked(todo) /\ ticks'[t].todo \subseteq todo
        BY <1>2, <2>2, <3>2 DEF BookInv, BooksTheRest
      <4> QED
        BY <4>1, StaysUnbooked
    <3> QED
      BY <3>1, <3>2
  <2>3. TitlesDiffer'
    BY <1>2, TitlesStayApart DEF BookInv
  <2> QED
    BY <2>1, <2>2, <2>3 DEF BookInv
<1> QED
  BY <1>1, <1>2

\* A request of a tick that is under way, and that books nothing.
LEMMA RequestBooksNothing ==
    ASSUME FiringInv, BookInv, NEW t \in Tickers, Under(t), NEW r, Moved(t, r),
           overlapped' = overlapped, UNCHANGED events,
           r.step = "book" =>
              \/ ticks[t].step = "book" /\ r.todo \subseteq ticks[t].todo
              \/ Unbooked(r.todo)
    PROVE  BookInv'
<1>1. DOMAIN ticks = Tickers
  BY DEF FiringInv, ServicesOK
<1>2. ticks'[t] = r /\ \A u \in Tickers \ {t} : ticks'[u] = ticks[u]
  BY <1>1 DEF Moved
<1>3. EventsKept
  BY EventsStay DEF FiringInv
<1>4. \A u \in Tickers : Under(u)' => Under(u)
  BY <1>2 DEF Under
<1>5. ASSUME NEW u \in Tickers, ticks'[u].step = "book"
      PROVE  \/ ticks[u].step = "book" /\ ticks'[u].todo \subseteq ticks[u].todo
             \/ Unbooked(ticks'[u].todo)
  BY <1>2, <1>5
<1> QED
  BY <1>3, <1>4, <1>5, NothingBegins

\* A step that leaves the ticks alone, or ends them all.
LEMMA TicksStay ==
    ASSUME FiringInv, BookInv, EventsKept, overlapped' = overlapped,
           \A t \in Tickers : ticks'[t] = ticks[t] \/ ticks'[t].step \in {"idle", "due"}
    PROVE  BookInv'
<1>1. \A t \in Tickers : Under(t)' => Under(t)
  BY DEF Under
<1>2. ASSUME NEW t \in Tickers, ticks'[t].step = "book"
      PROVE  ticks[t].step = "book" /\ ticks'[t].todo \subseteq ticks[t].todo
  BY <1>2
<1> QED
  BY <1>1, <1>2, NothingBegins

LEMMA BeginBooks ==
    ASSUME FiringInv, BookInv, NEW t \in Tickers, Begin(t)
    PROVE  BookInv'
<1>1. DOMAIN ticks = Tickers
  BY DEF FiringInv, ServicesOK
<1>2. ticks'[t].step = "calendars" /\ \A u \in Tickers \ {t} : ticks'[u] = ticks[u]
  BY <1>1 DEF Begin, Go
<1>3. EventsKept
  BY EventsStay DEF FiringInv, Begin, calendarVars
<1>4. CASE overlapped'
  BY <1>4 DEF BookInv
<1>5. CASE ~overlapped'
  <2>1. ~overlapped /\ \A u \in Tickers \ {t} : ~Under(u)'
    BY <1>2, <1>5, Zenon DEF Begin, Under
  <2>2. \A u \in Tickers : BooksTheRest(u)'
    BY <1>2, <2>1 DEF BooksTheRest, Under
  <2>3. TitlesDiffer'
    BY <1>3, <2>1, TitlesStayApart DEF BookInv
  <2> QED
    BY <2>1, <2>2, <2>3 DEF BookInv
<1> QED
  BY <1>4, <1>5

\* The event that a booking adds is the only one of its title.
LEMMA BookBooks ==
    ASSUME FiringInv, BookInv, NEW t \in Tickers, NEW a \in Scheduled, Book(t, a)
    PROVE  BookInv'
<1> DEFINE todo == ticks[t].todo
<1>1. /\ DOMAIN ticks = Tickers /\ ticks[t].step = "book" /\ a \in todo
      /\ \A e \in DOMAIN events : EventOK(events[e])
  BY DEF FiringInv, ServicesOK, TablesOK, Book, At
<1>2. /\ ticks'[t].step = "book" /\ ticks'[t].todo = todo \ {a}
      /\ \A u \in Tickers \ {t} : ticks'[u] = ticks[u]
  BY <1>1 DEF Book, Go
<1>3. overlapped' = overlapped
  BY DEF Book, OnlyTicks
<1>4. CASE overlapped
  BY <1>3, <1>4 DEF BookInv
<1>5. CASE ~overlapped
  <2>1. /\ \A u \in Tickers \ {t} : ~Under(u)
        /\ Unbooked(todo) /\ TitlesDiffer
    BY <1>1, <1>5 DEF BookInv, BooksTheRest, Under
  <2>2. \A u, v \in Tickers : Under(u)' /\ Under(v)' => u = v
    BY <1>2, <2>1 DEF Under
  <2>3. \A u \in Tickers \ {t} : BooksTheRest(u)'
    BY <1>2, <2>1 DEF BooksTheRest, Under
  <2>4. BooksTheRest(t)' /\ TitlesDiffer'
    <3>1. CASE events' = events
      BY <1>2, <2>1, <3>1 DEF BooksTheRest, Unbooked, TitlesDiffer
    <3>2. CASE Booked(a)
      <4>1. PICK ev, id : /\ events' = Inserted(events, id, ev)
                          /\ ev.title = <<a>> /\ ev.automation = a
        BY <3>2 DEF Booked, Template
      <4>2. /\ DOMAIN events' = DOMAIN events \cup {id}
            /\ \A i \in DOMAIN events' : events'[i] = IF i = id THEN ev ELSE events[i]
        BY <4>1 DEF Inserted
      <4>3. ASSUME NEW e \in DOMAIN events, events[e].title = <<a>>, <<a>> # <<"mine">>
            PROVE  FALSE
        <5>1. <<a>> = <<events[e].automation>>
          BY <1>1, <4>3 DEF EventOK
        <5>2. a = events[e].automation
          BY <5>1
        <5> QED
          BY <1>1, <2>1, <4>3, <5>2 DEF Unbooked
      <4>4. TitlesDiffer'
        BY <2>1, <4>1, <4>2, <4>3 DEF TitlesDiffer
      <4> QED
        BY <1>2, <2>1, <4>1, <4>2, <4>4 DEF BooksTheRest, Unbooked
    <3> QED
      BY <3>1, <3>2, BookMoves
  <2> QED
    BY <2>2, <2>3, <2>4 DEF BookInv
<1> QED
  BY <1>4, <1>5

LEMMA GoesElsewhere ==
    ASSUME NEW t, NEW step, NEW c, Go(t, step, c, {}), step # "book"
    PROVE  \E r : Moved(t, r) /\ r.step # "book"
<1> DEFINE r == [step |-> step, calendar |-> c, todo |-> {}]
<1>1. Moved(t, r) /\ r.step # "book"
  BY DEF Go, Moved
<1> QED
  BY <1>1

LEMMA TickStepBooks ==
    ASSUME FiringInv, BookInv, NEW t \in Tickers, TickStep(t) \/ LoseRequest(t) \/ LoseAnswer(t)
    PROVE  BookInv'
<1>1. CASE ListCalendars(t)
  <2>1. /\ UNCHANGED <<events, overlapped>>
        /\ Under(t)
    BY <1>1 DEF ListCalendars, At, Under, OnlyTicks, calendarVars
  <2>2. PICK step, c : Go(t, step, c, {}) /\ step # "book"
    BY <1>1 DEF ListCalendars
  <2>3. PICK r : Moved(t, r) /\ r.step # "book"
    BY <2>2, GoesElsewhere
  <2> QED
    BY <2>1, <2>3, RequestBooksNothing
<1>2. CASE CreateRegistration(t)
  <2>1. /\ UNCHANGED <<events, overlapped>>
        /\ Under(t)
    BY <1>2, CreateRegistrationMoves DEF CreateRegistration, At, Under, OnlyTicks
  <2>2. Give(t) \/ \E c : Go(t, "events", c, {})
    BY <1>2 DEF CreateRegistration
  <2>3. PICK r : Moved(t, r) /\ r.step # "book"
    <3>1. CASE Give(t)
      <4>1. Moved(t, Idle) /\ Idle.step # "book"
        BY <3>1 DEF Give, Moved, Idle
      <4> QED
        BY <4>1
    <3> QED
      BY <2>2, <3>1, GoesElsewhere
  <2> QED
    BY <2>1, <2>3, RequestBooksNothing
<1>3. CASE ListEvents(t)
  <2> DEFINE rest == (Scheduled \cap registry) \ Present(ticks[t].calendar)
  <2>1. /\ UNCHANGED <<events, overlapped>>
        /\ Under(t)
    BY <1>3 DEF ListEvents, At, Under, OnlyTicks, calendarVars
  <2>2. Unbooked(rest)
    BY DEF Present, Unbooked
  <2> DEFINE r == [step |-> "book", calendar |-> ticks[t].calendar, todo |-> rest]
  <2>3. Moved(t, r) /\ r.todo = rest
    BY <1>3 DEF ListEvents, Go, Moved
  <2> HIDE DEF r, rest
  <2> QED
    BY <2>1, <2>2, <2>3, RequestBooksNothing
<1>4. CASE End(t)
  <2>1. UNCHANGED <<events, overlapped>> /\ Under(t)
    BY <1>4 DEF End, At, Under, OnlyTicks, calendarVars
  <2>2. Moved(t, Idle) /\ Idle.step # "book"
    BY <1>4 DEF End, Give, Moved, Idle
  <2> QED
    BY <2>1, <2>2, RequestBooksNothing
<1>5. CASE LoseRequest(t)
  <2>1. UNCHANGED <<events, overlapped>>
    BY <1>5 DEF LoseRequest, OnlyTicks, calendarVars
  <2>2. CASE ticks[t].step \in {"calendars", "create", "events"} /\ Give(t)
    <3>1. Under(t) /\ Moved(t, Idle) /\ Idle.step # "book"
      BY <2>2 DEF Under, Give, Moved, Idle
    <3> QED
      BY <2>1, <3>1, RequestBooksNothing
  <2>3. ASSUME NEW a \in ticks[t].todo, At(t, "book"),
               Go(t, "book", ticks[t].calendar, ticks[t].todo \ {a})
        PROVE  BookInv'
    <3> DEFINE r == [step |-> "book", calendar |-> ticks[t].calendar, todo |-> ticks[t].todo \ {a}]
    <3>1. Under(t) /\ Moved(t, r) /\ r.todo \subseteq ticks[t].todo /\ ticks[t].step = "book"
      BY <2>3 DEF At, Under, Go, Moved
    <3> HIDE DEF r
    <3> QED
      BY <2>1, <3>1, RequestBooksNothing
  <2> QED
    BY <1>5, <2>2, <2>3, Zenon DEF LoseRequest
<1>6. CASE LoseAnswer(t)
  <2>1. UNCHANGED <<events, overlapped>> /\ Under(t)
    BY <1>6, LoseAnswerMoves DEF LoseAnswer, At, Under, OnlyTicks
  <2>2. Moved(t, Idle) /\ Idle.step # "book"
    BY <1>6 DEF LoseAnswer, Give, Moved, Idle
  <2> QED
    BY <2>1, <2>2, RequestBooksNothing
<1>7. ASSUME NEW a \in Scheduled, Book(t, a)
      PROVE  BookInv'
  BY <1>7, BookBooks
<1> QED
  BY <1>1, <1>2, <1>3, <1>4, <1>5, <1>6, <1>7, BeginBooks DEF TickStep

\* Registration never books an automation that it has booked already, wherever the user
\* has moved that event and however requests are lost and processes die, as long as no
\* two ticks were under way at once.
THEOREM NothingIsBookedTwice == Spec => []BookedOnce
<1>1. Init => BookInv
  BY DEF Init, InitCalendars, BookInv, TitlesDiffer, BooksTheRest, Under, Idle, Due, Tickers
<1>2. FiringInv /\ BookInv /\ [Next]_vars => BookInv'
  <2> SUFFICES ASSUME FiringInv, BookInv, StepCases
               PROVE  BookInv'
    BY FiringSteps
  <2>1. CASE Fetch \/ (\E r \in rows : Fire(r) \/ LoseFire(r)) \/ NextDay \/ UNCHANGED vars
    <3>1. UNCHANGED <<events, ticks, overlapped>>
      BY <2>1 DEF Fetch, Fire, LoseFire, NextDay, vars, calendarVars, services
    <3>2. EventsKept
      BY <3>1, EventsStay DEF FiringInv
    <3> QED
      BY <3>1, <3>2, TicksStay
  <2>2. CASE UserWrites
    BY <2>2, UsersKeep, TicksStay, Zenon DEF UserWrites, services
  <2>3. CASE Die \/ Restart
    <3>1. UNCHANGED <<events, overlapped>>
      BY <2>3 DEF Die, Restart, calendarVars
    <3>2. EventsKept
      BY <3>1, EventsStay DEF FiringInv
    <3>3. \A t \in Tickers : ticks'[t] = ticks[t] \/ ticks'[t].step \in {"idle", "due"}
      BY <2>3 DEF Die, Restart, Idle, Due, FiringInv, ServicesOK
    <3> QED
      BY <3>1, <3>2, <3>3, TicksStay
  <2> QED
    BY <2>1, <2>2, <2>3, TickStepBooks DEF StepCases
<1>3. BookInv => BookedOnce
  BY DEF BookInv, TitlesDiffer, BookedOnce
<1> QED
  BY <1>1, <1>2, <1>3, FiringInvariant, PTL DEF Spec

-----------------------------------------------------------------------------
(* Numbers.                                                                  *)

\* Numbers have a least one; so what goes on from each to the next goes on to the last.
LEMMA LeastNumber ==
    ASSUME NEW T, T \subseteq Nat, T # {}
    PROVE  \E x \in T : \A y \in T : x <= y
<1> DEFINE R == {ss \in Nat \X Nat : ss[1] < ss[2]}
<1>1. IsWellFoundedOn(R, Nat)
  BY NatLessThanWellFounded DEF OpToRel
<1> HIDE DEF R
<1>2. \E x \in T : \A y \in T : <<y, x>> \notin R
  BY <1>1, WFMin, Zenon
<1>3. \A x, y \in Nat : <<y, x>> \notin R => x <= y
  BY DEF R
<1> QED
  BY <1>2, <1>3, Zenon

LEMMA GoesOn ==
    ASSUME NEW M \in Nat, NEW S, 0 \in S, \A n \in 0..(M - 1) : n \in S => n + 1 \in S
    PROVE  0..M \subseteq S
<1> DEFINE T == (0..M) \ S
<1>1. SUFFICES ASSUME T # {}
               PROVE  FALSE
  OBVIOUS
<1>2. T \subseteq Nat
  OBVIOUS
<1>3. PICK x \in T : \A y \in T : x <= y
  <2> HIDE DEF T
  <2> QED
    BY <1>1, <1>2, LeastNumber, Zenon
<1>4. x \in 0..M /\ x \notin S /\ x # 0
  BY <1>3
<1>5. x - 1 \in 0..(M - 1) /\ x - 1 \notin S
  BY <1>4
<1>6. x - 1 \in T
  BY <1>5
<1> HIDE DEF T
<1>7. x <= x - 1 /\ x \in Int
  BY <1>3, <1>4, <1>6
<1> QED
  BY <1>7

-----------------------------------------------------------------------------
(* Instants and clocks.                                                      *)

\* An anchor shows the clock it was asked for, unless no instant does; then it is off by
\* what the zone skips.
THEOREM AnchorIsExact ==
    ASSUME NEW zone, IsZone(zone), NEW w \in Int
    PROVE  LET t    == Anchor(zone, w)
               skip == zone.after - zone.before
           IN  /\ t \in Int
               /\ \/ Wall(zone, t) = w
                  \/ w \in {Wall(zone, t) - skip, Wall(zone, t) + skip} /\ \A u \in Int : Wall(zone, u) # w
<1>1. zone.change \in Int /\ zone.before \in Int /\ zone.after \in Int
  BY DEF IsZone
<1> QED
  BY <1>1 DEF Anchor, Wall, Offset

\* What is past the limit of the walk anchors past the window: a day of slack is enough.
LEMMA SlackIsEnough ==
    ASSUME NEW zone, IsZone(zone), NEW w \in Int, NEW to \in Int, Anchor(zone, w) < to
    PROVE  w <= WallLimit(zone, to)
BY DEF IsZone, Anchor, WallLimit, Wall, Offset

LEMMA WallsAreNumbers ==
    ASSUME NEW zone, IsZone(zone), NEW t \in Int
    PROVE  Wall(zone, t) \in Int /\ WallLimit(zone, t) \in Int
BY DEF IsZone, WallLimit, Wall, Offset

LEMMA ClockOfDay ==
    ASSUME NEW w \in Int
    PROVE  /\ DayOf(w) \in Int /\ Clock(w) \in 0..23 /\ w = 24 * DayOf(w) + Clock(w)
           /\ \A d \in Int : Clock(24 * d + Clock(w)) = Clock(w)
           /\ \A v \in Int, x \in Int : Clock(v) = Clock(w) => Clock(v + (x - w)) = Clock(x)
BY DEF DayOf, Clock

-----------------------------------------------------------------------------
(* Periods: they begin one after the other, and their days follow.           *)

LEMMA DatesAreNumbers ==
    ASSUME NEW n \in Int
    PROVE  Date(n).y \in Int /\ Date(n).m \in 1..12 /\ Date(n).d \in Int
BY DEF Date

LEMMA MonthsRise ==
    ASSUME NEW i \in Int, NEW j \in Int, i <= j
    PROVE  DayNumber(i \div 12, (i % 12) + 1, 1) <= DayNumber(j \div 12, (j % 12) + 1, 1)
BY DEF DayNumber

LEMMA YearsRise ==
    ASSUME NEW y \in Int, NEW z \in Int, y <= z
    PROVE  DayNumber(y, 1, 1) <= DayNumber(z, 1, 1)
BY DEF DayNumber

LEMMA DaysFollow ==
    ASSUME NEW y \in Int, NEW m \in 1..12, NEW d \in Nat \ {0}
    PROVE  /\ DayNumber(y, m, d) \in Int
           /\ DayNumber(y, m, 1) <= DayNumber(y, m, d) /\ DayNumber(y, 1, 1) <= DayNumber(y, m, d)
BY DEF DayNumber

LEMMA PeriodsPass ==
    ASSUME NEW r, IsRule(r), NEW p \in Nat, NEW q \in Nat, p <= q
    PROVE  p * r.interval \in Nat /\ q * r.interval \in Nat /\ p * r.interval <= q * r.interval
<1>1. r.interval \in Nat
  BY DEF IsRule
<1> DEFINE n == r.interval
<1> HIDE DEF n
<1>2. n \in Nat
  BY <1>1 DEF n
<1>3. p * n \in Nat /\ q * n \in Nat /\ (q - p) * n \in Nat
  BY <1>2
<1>4. q * n = p * n + (q - p) * n
  BY <1>2
<1>5. p * n <= q * n
  BY <1>3, <1>4
<1> QED
  BY <1>3, <1>5 DEF n

LEMMA MonthDaysOfMonth ==
    ASSUME NEW r, NEW y \in Int, NEW m \in 1..12, NEW startDay \in Int
    PROVE  MonthDays(r, y, m, startDay) \subseteq Nat \ {0}
<1>1. DaysIn(y, m) \in Int
  BY DEF DaysIn, DayNumber
<1> DEFINE n == DaysIn(y, m)
<1> HIDE DEF n
<1>2. n \in Int
  BY <1>1 DEF n
<1>3. 1..n \subseteq Nat \ {0}
  BY <1>2
<1>4. MonthDaySet(n, r.byMonthDay) \subseteq 1..n
  BY DEF MonthDaySet
<1>5. ByDaySet(r, y, m, n) \subseteq 1..n
  BY Zenon DEF ByDaySet, InPlace
<1>6. MonthDays(r, y, m, startDay) \subseteq 1..n
  <2>1. CASE r.byMonthDay # {} /\ r.byDay # {}
    BY <2>1, <1>4 DEF MonthDays, n
  <2>2. CASE r.byMonthDay # {} /\ r.byDay = {}
    BY <2>2, <1>4 DEF MonthDays, n
  <2>3. CASE r.byMonthDay = {} /\ r.byDay # {}
    BY <2>3, <1>5 DEF MonthDays, n
  <2>4. CASE r.byMonthDay = {} /\ r.byDay = {}
    BY <2>4 DEF MonthDays, n
  <2> QED
    BY <2>1, <2>2, <2>3, <2>4
<1> QED
  BY <1>3, <1>6

LEMMA CandidatesFollow ==
    ASSUME NEW r, NEW y \in Int, NEW m \in 1..12, NEW startDay \in Int,
           NEW d \in MonthCandidates(r, y, m, startDay)
    PROVE  d \in Int /\ DayNumber(y, m, 1) <= d /\ DayNumber(y, 1, 1) <= d
<1>1. PICK n \in MonthDays(r, y, m, startDay) : d = DayNumber(y, m, n)
  BY DEF MonthCandidates
<1>2. n \in Nat \ {0}
  BY MonthDaysOfMonth, Zenon
<1> QED
  BY <1>1, <1>2, DaysFollow, Zenon

LEMMA WeekBegins ==
    ASSUME NEW startDay \in Int, NEW w \in 0..6
    PROVE  StartOfWeek(startDay, w) \in Int
BY DEF StartOfWeek, Weekday

\* A period has its days on or after the one it begins with.
LEMMA PeriodDays ==
    ASSUME NEW r, IsRule(r), NEW startDay \in Int, NEW p \in Nat
    PROVE  /\ Period(r, startDay, p).begins \in Int
           /\ \A d \in Period(r, startDay, p).days : d \in Int /\ Period(r, startDay, p).begins <= d
<1> DEFINE n == p * r.interval
<1>1. n \in Nat
  BY PeriodsPass
<1>2. Date(startDay).y \in Int /\ Date(startDay).m \in 1..12 /\ Date(startDay).d \in Int
  BY DatesAreNumbers
<1>3. r.byMonth \subseteq 1..12 /\ r.wkst \in 0..6 /\ r.freq \in Frequencies
  BY DEF IsRule
<1>4. \A y \in Int : DayNumber(y, 1, 1) \in Int
  BY DEF DayNumber
<1>5. CASE r.freq = "daily"
  BY <1>1, <1>5 DEF Period
<1>6. CASE r.freq = "weekly"
  <2> DEFINE week == StartOfWeek(startDay, r.wkst) + 7 * n
  <2>1. week \in Int
    <3> HIDE DEF n
    <3>1. StartOfWeek(startDay, r.wkst) \in Int
      BY <1>3, WeekBegins
    <3> QED
      BY <1>1, <3>1
  <2>2. Period(r, startDay, p).begins = week
    BY <1>6 DEF Period
  <2>3. Period(r, startDay, p).days \subseteq week..(week + 6)
    BY <1>6 DEF Period
  <2> QED
    BY <2>1, <2>2, <2>3
<1>7. CASE r.freq = "monthly"
  <2> DEFINE idx == Date(startDay).y * 12 + Date(startDay).m - 1 + n
             y == idx \div 12
             m == (idx % 12) + 1
  <2>1. idx \in Int
    BY <1>1, <1>2
  <2>2. y \in Int /\ m \in 1..12
    BY <2>1
  <2>3. Period(r, startDay, p).begins = DayNumber(y, m, 1)
    BY <1>7 DEF Period
  <2>4. Period(r, startDay, p).days \subseteq MonthCandidates(r, y, m, Date(startDay).d)
    BY <1>7 DEF Period
  <2>5. DayNumber(y, m, 1) \in Int
    <3> HIDE DEF y, m
    <3>1. 1 \in Nat \ {0}
      OBVIOUS
    <3> QED
      BY <2>2, <3>1, DaysFollow, Zenon
  <2> HIDE DEF y, m
  <2> QED
    BY <1>2, <2>2, <2>3, <2>4, <2>5, CandidatesFollow, Zenon
<1>8. CASE r.freq = "yearly"
  <2> DEFINE y == Date(startDay).y + n
             months == IF r.byMonth = {} THEN {Date(startDay).m} ELSE r.byMonth
  <2>1. y \in Int /\ months \subseteq 1..12
    BY <1>1, <1>2, <1>3
  <2>2. Period(r, startDay, p).begins = DayNumber(y, 1, 1)
    BY <1>8 DEF Period
  <2>3. Period(r, startDay, p).days = UNION {MonthCandidates(r, y, m, Date(startDay).d) : m \in months}
    BY <1>8 DEF Period
  <2> HIDE DEF y, months
  <2>4. ASSUME NEW d \in Period(r, startDay, p).days
        PROVE  d \in Int /\ DayNumber(y, 1, 1) <= d
    <3>1. PICK m \in months : d \in MonthCandidates(r, y, m, Date(startDay).d)
      BY <2>3
    <3> QED
      BY <1>2, <2>1, <3>1, CandidatesFollow, Zenon
  <2> QED
    BY <1>4, <2>1, <2>2, <2>4
<1> QED
  BY <1>3, <1>5, <1>6, <1>7, <1>8 DEF Frequencies

LEMMA PeriodsRise ==
    ASSUME NEW r, IsRule(r), NEW startDay \in Int, NEW p \in Nat, NEW q \in Nat, p <= q
    PROVE  Period(r, startDay, p).begins <= Period(r, startDay, q).begins
<1> DEFINE np == p * r.interval
           nq == q * r.interval
<1>1. np \in Nat /\ nq \in Nat /\ np <= nq
  BY PeriodsPass
<1>2. Date(startDay).y \in Int /\ Date(startDay).m \in 1..12
  BY DatesAreNumbers
<1>3. r.wkst \in 0..6 /\ r.freq \in Frequencies
  BY DEF IsRule
<1>5. CASE r.freq = "daily"
  <2>1. Period(r, startDay, p).begins = startDay + np /\ Period(r, startDay, q).begins = startDay + nq
    BY <1>5 DEF Period
  <2> HIDE DEF np, nq
  <2> QED
    BY <1>1, <2>1
<1>6. CASE r.freq = "weekly"
  <2>1. /\ Period(r, startDay, p).begins = StartOfWeek(startDay, r.wkst) + 7 * np
        /\ Period(r, startDay, q).begins = StartOfWeek(startDay, r.wkst) + 7 * nq
    BY <1>6 DEF Period
  <2> HIDE DEF np, nq
  <2>2. StartOfWeek(startDay, r.wkst) \in Int
    BY <1>3, WeekBegins, Zenon
  <2> QED
    BY <1>1, <2>1, <2>2
<1>7. CASE r.freq = "monthly"
  <2> DEFINE i == Date(startDay).y * 12 + Date(startDay).m - 1 + np
             j == Date(startDay).y * 12 + Date(startDay).m - 1 + nq
  <2>1. /\ Period(r, startDay, p).begins = DayNumber(i \div 12, (i % 12) + 1, 1)
        /\ Period(r, startDay, q).begins = DayNumber(j \div 12, (j % 12) + 1, 1)
    BY <1>7 DEF Period
  <2> HIDE DEF np, nq
  <2>2. i \in Int /\ j \in Int /\ i <= j
    BY <1>1, <1>2
  <2> HIDE DEF i, j
  <2> QED
    BY <2>1, <2>2, MonthsRise
<1>8. CASE r.freq = "yearly"
  <2>1. /\ Period(r, startDay, p).begins = DayNumber(Date(startDay).y + np, 1, 1)
        /\ Period(r, startDay, q).begins = DayNumber(Date(startDay).y + nq, 1, 1)
    BY <1>8 DEF Period
  <2> HIDE DEF np, nq
  <2>2. Date(startDay).y + np \in Int /\ Date(startDay).y + nq \in Int /\ Date(startDay).y + np <= Date(startDay).y + nq
    BY <1>1, <1>2
  <2> QED
    BY <2>1, <2>2, YearsRise
<1> QED
  BY <1>3, <1>5, <1>6, <1>7, <1>8 DEF Frequencies

-----------------------------------------------------------------------------
(* The walk over the periods.                                                *)

\* What a turn may add: clocks of the event, from its start on.
ClocksOf(start) == {w \in Int : Clock(w) = Clock(start) /\ start <= w}

LEMMA EmittedFollow ==
    ASSUME NEW r, IsRule(r), NEW start \in Int, NEW p \in Nat, NEW n,
           NEW w \in Emitted(r, start, n,
                             ApplySetPos(Period(r, DayOf(start), p).days, r.bySetPos)).taken
    PROVE  w \in ClocksOf(start) /\ 24 * Period(r, DayOf(start), p).begins <= w
<1> DEFINE period == Period(r, DayOf(start), p)
<1>1. ApplySetPos(period.days, r.bySetPos) \subseteq period.days
  BY DEF ApplySetPos, InPlace
<1>2. PICK d \in period.days : w = 24 * d + Clock(start) /\ start <= w
  BY <1>1 DEF Emitted
<1>3. DayOf(start) \in Int /\ Clock(start) \in 0..23 /\ \A x \in Int : Clock(24 * x + Clock(start)) = Clock(start)
  BY ClockOfDay, Zenon
<1>4. period.begins \in Int /\ d \in Int /\ period.begins <= d
  BY <1>3, PeriodDays
<1> HIDE DEF period
<1>5. Clock(w) = Clock(start)
  BY <1>2, <1>3, <1>4
<1> DEFINE c == Clock(start)
<1>6. c \in 0..23 /\ w = 24 * d + c /\ start <= w
  BY <1>2, <1>3
<1> HIDE DEF c
<1>7. w \in Int /\ 24 * period.begins <= w
  BY <1>4, <1>6
<1>8. w \in ClocksOf(start)
  BY <1>5, <1>6, <1>7 DEF ClocksOf
<1> QED
  BY <1>7, <1>8 DEF period

\* The walk up to a limit does not get to the p-th period, or stops before it.
Stops(r, start, limit, p, walked) ==
    LET begins == 24 * Period(r, DayOf(start), p).begins
    IN  walked.over \/ begins > limit \/ PastUntil(r, begins)

LEMMA TurnStops ==
    ASSUME NEW r, NEW start, NEW limit, NEW p, NEW walked, Stops(r, start, limit, p, walked)
    PROVE  Turn(r, start, limit, p, walked) = [out |-> walked.out, over |-> TRUE]
BY DEF Turn, Stops

LEMMA TurnTakes ==
    ASSUME NEW r, IsRule(r), NEW start \in Int, NEW limit, NEW p \in Nat, NEW walked
    PROVE  LET turn == Turn(r, start, limit, p, walked)
           IN  /\ walked.out \subseteq turn.out
               /\ turn.over \in BOOLEAN
               /\ \A w \in turn.out \ walked.out :
                     w \in ClocksOf(start) /\ 24 * Period(r, DayOf(start), p).begins <= w
<1> DEFINE turn == Turn(r, start, limit, p, walked)
           emitted == Emitted(r, start, Cardinality(walked.out),
                              ApplySetPos(Period(r, DayOf(start), p).days, r.bySetPos))
<1>1. CASE Stops(r, start, limit, p, walked)
  <2>1. turn = [out |-> walked.out, over |-> TRUE]
    BY <1>1, TurnStops
  <2> HIDE DEF turn
  <2>2. turn.out = walked.out /\ turn.over = TRUE
    BY <2>1
  <2> QED
    BY <2>2, Zenon DEF turn
<1>2. CASE ~Stops(r, start, limit, p, walked)
  <2>1. turn = [out |-> walked.out \cup emitted.taken, over |-> emitted.stop]
    BY <1>2 DEF Turn, Stops
  <2>2. emitted.stop \in BOOLEAN
    BY DEF Emitted
  <2>3. \A w \in emitted.taken : w \in ClocksOf(start) /\ 24 * Period(r, DayOf(start), p).begins <= w
    BY EmittedFollow, Zenon
  <2> HIDE DEF turn, emitted
  <2>4. turn.out = walked.out \cup emitted.taken /\ turn.over = emitted.stop
    BY <2>1
  <2>5. /\ walked.out \subseteq turn.out
        /\ turn.over \in BOOLEAN
        /\ \A w \in turn.out \ walked.out :
              w \in ClocksOf(start) /\ 24 * Period(r, DayOf(start), p).begins <= w
    BY <2>2, <2>3, <2>4
  <2> QED
    BY <2>5 DEF turn
<1> QED
  BY <1>1, <1>2

LEMMA TurnAlike ==
    ASSUME NEW r, NEW start, NEW L, NEW K, NEW p, NEW walked,
           Stops(r, start, L, p, walked) <=> Stops(r, start, K, p, walked)
    PROVE  Turn(r, start, L, p, walked) = Turn(r, start, K, p, walked)
BY DEF Turn, Stops

IsWalk(f, M, r, start, limit) ==
    f = [p \in 0..M |-> IF p = 0 THEN [out |-> {}, over |-> FALSE]
                        ELSE Turn(r, start, limit, p - 1, f[p - 1])]

Walk(r, start, limit) == CHOOSE f : IsWalk(f, MaxPeriods, r, start, limit)

LEMMA WalkExists ==
    ASSUME NEW r, NEW start, NEW limit
    PROVE  IsWalk(Walk(r, start, limit), MaxPeriods, r, start, limit)
<1> DEFINE S == {n \in Nat : \E f : IsWalk(f, n, r, start, limit)}
<1>1. 0 \in S
  <2> DEFINE g == [p \in 0..0 |-> [out |-> {}, over |-> FALSE]]
  <2>1. IsWalk(g, 0, r, start, limit)
    BY DEF IsWalk
  <2> QED
    BY <2>1
<1>2. ASSUME NEW n \in Nat, n \in S
      PROVE  n + 1 \in S
  <2>1. PICK f : IsWalk(f, n, r, start, limit)
    BY <1>2
  <2> DEFINE g == [p \in 0..(n + 1) |-> IF p = n + 1 THEN Turn(r, start, limit, n, f[n]) ELSE f[p]]
  <2>2. g[0] = [out |-> {}, over |-> FALSE]
    BY <2>1 DEF IsWalk
  <2>3. ASSUME NEW p \in 0..(n + 1), p # 0
        PROVE  g[p] = Turn(r, start, limit, p - 1, g[p - 1])
    <3>1. p - 1 \in 0..n /\ g[p - 1] = f[p - 1]
      BY <2>3
    <3>2. CASE p = n + 1
      BY <3>1, <3>2
    <3>3. CASE p # n + 1
      <4>1. p \in 0..n /\ g[p] = f[p]
        BY <2>3, <3>3
      <4>2. f[p] = Turn(r, start, limit, p - 1, f[p - 1])
        BY <2>1, <2>3, <4>1, Zenon DEF IsWalk
      <4> HIDE DEF g
      <4> QED
        BY <3>1, <4>1, <4>2
    <3> QED
      BY <3>2, <3>3
  <2>4. IsWalk(g, n + 1, r, start, limit)
    <3> DEFINE h == [p \in 0..(n + 1) |-> IF p = 0 THEN [out |-> {}, over |-> FALSE]
                                          ELSE Turn(r, start, limit, p - 1, g[p - 1])]
    <3>1. DOMAIN g = 0..(n + 1) /\ g = [p \in 0..(n + 1) |-> g[p]]
      OBVIOUS
    <3> HIDE DEF g
    <3>2. \A p \in 0..(n + 1) : g[p] = h[p]
      BY <2>2, <2>3
    <3>3. g = h
      BY <3>1, <3>2, Zenon
    <3> QED
      BY <3>3, Zenon DEF IsWalk
  <2> HIDE DEF g
  <2> QED
    BY <2>4
<1>3. MaxPeriods \in Nat
  BY PagesAssumption
<1> HIDE DEF S
<1>4. 0..MaxPeriods \subseteq S
  BY <1>1, <1>2, <1>3, GoesOn
<1>5. MaxPeriods \in S
  BY <1>3, <1>4
<1>6. \E f : IsWalk(f, MaxPeriods, r, start, limit)
  BY <1>5 DEF S
<1> QED
  BY <1>6 DEF Walk

LEMMA WalkTurns ==
    ASSUME NEW r, NEW start, NEW limit
    PROVE  /\ Occurrences(r, start, limit) = Walk(r, start, limit)[MaxPeriods].out
           /\ Walk(r, start, limit)[0] = [out |-> {}, over |-> FALSE]
           /\ \A p \in 0..(MaxPeriods - 1) :
                 Walk(r, start, limit)[p + 1] = Turn(r, start, limit, p, Walk(r, start, limit)[p])
<1>1. Occurrences(r, start, limit) = Walk(r, start, limit)[MaxPeriods].out
  BY DEF Occurrences, Walk, IsWalk
<1> DEFINE f == Walk(r, start, limit)
<1>2. IsWalk(f, MaxPeriods, r, start, limit)
  BY WalkExists
<1> HIDE DEF f
<1>3. MaxPeriods \in Nat
  BY PagesAssumption
<1>4. f[0] = [out |-> {}, over |-> FALSE]
  BY <1>2, <1>3 DEF IsWalk
<1>5. ASSUME NEW p \in 0..(MaxPeriods - 1)
      PROVE  f[p + 1] = Turn(r, start, limit, p, f[p])
  <2>1. p + 1 \in 0..MaxPeriods /\ p + 1 # 0 /\ (p + 1) - 1 = p
    BY <1>3
  <2>2. f[p + 1] = Turn(r, start, limit, (p + 1) - 1, f[(p + 1) - 1])
    BY <1>2, <2>1, Zenon DEF IsWalk
  <2> QED
    BY <2>1, <2>2
<1> QED
  BY <1>1, <1>4, <1>5 DEF f

\* Two walks up to limits L <= K are the same, or the first is over and the second has
\* gone on with a period that begins after L.
Apart(r, start, L, p) ==
    LET f == Walk(r, start, L)[p]
    IN  f.over /\ \E q \in 0..(p - 1) : 24 * Period(r, DayOf(start), q).begins > L

Alike(r, start, L, K, p) ==
    LET f == Walk(r, start, L)[p]
        g == Walk(r, start, K)[p]
    IN  /\ f.over \in BOOLEAN /\ g.over \in BOOLEAN
        /\ f.out \subseteq ClocksOf(start) /\ g.out \subseteq ClocksOf(start)
        /\ \/ f = g
           \/ /\ Apart(r, start, L, p)
              /\ f.out \subseteq g.out /\ \A w \in g.out \ f.out : w > L

LEMMA WalksStayAlike ==
    ASSUME NEW r, IsRule(r), NEW start \in Int, NEW L \in Int, NEW K \in Int, L <= K,
           NEW p \in 0..(MaxPeriods - 1), Alike(r, start, L, K, p)
    PROVE  Alike(r, start, L, K, p + 1)
<1>0. MaxPeriods \in Nat /\ p \in Nat /\ p + 1 \in Nat /\ DayOf(start) \in Int
  BY PagesAssumption, ClockOfDay
<1> DEFINE f == Walk(r, start, L)[p]
           g == Walk(r, start, K)[p]
           ff == Walk(r, start, L)[p + 1]
           gg == Walk(r, start, K)[p + 1]
           begins == 24 * Period(r, DayOf(start), p).begins
<1>1. ff = Turn(r, start, L, p, f) /\ gg = Turn(r, start, K, p, g)
  BY WalkTurns
<1>2. begins \in Int
  BY <1>0, PeriodDays
<1>3. /\ f.out \subseteq ff.out /\ ff.over \in BOOLEAN
      /\ \A w \in ff.out \ f.out : w \in ClocksOf(start) /\ begins <= w
  <2> HIDE DEF f, g, ff, gg
  <2> QED
    BY <1>0, <1>1, TurnTakes, Zenon
<1>4. /\ g.out \subseteq gg.out /\ gg.over \in BOOLEAN
      /\ \A w \in gg.out \ g.out : w \in ClocksOf(start) /\ begins <= w
  <2> HIDE DEF f, g, ff, gg
  <2> QED
    BY <1>0, <1>1, TurnTakes, Zenon
<1>5. /\ f.over \in BOOLEAN /\ g.over \in BOOLEAN
      /\ f.out \subseteq ClocksOf(start) /\ g.out \subseteq ClocksOf(start)
      /\ \/ f = g
         \/ /\ Apart(r, start, L, p)
            /\ f.out \subseteq g.out /\ \A w \in g.out \ f.out : w > L
  BY DEF Alike
<1>6. Stops(r, start, L, p, f) => ff = [out |-> f.out, over |-> TRUE]
  <2> HIDE DEF f, g, ff, gg
  <2> QED
    BY <1>1, TurnStops
<1>7. Stops(r, start, K, p, g) => gg = [out |-> g.out, over |-> TRUE]
  <2> HIDE DEF f, g, ff, gg
  <2> QED
    BY <1>1, TurnStops
<1>8. /\ Stops(r, start, L, p, f) <=> f.over \/ begins > L \/ PastUntil(r, begins)
      /\ Stops(r, start, K, p, g) <=> g.over \/ begins > K \/ PastUntil(r, begins)
  BY DEF Stops
<1>9. f = g /\ (Stops(r, start, L, p, f) <=> Stops(r, start, K, p, g)) => ff = gg
  BY <1>1, TurnAlike
<1>10. begins > L /\ ff.over => Apart(r, start, L, p + 1)
  BY <1>0 DEF Apart
<1>11. Apart(r, start, L, p) => f.over /\ \E q \in 0..(p - 1) : 24 * Period(r, DayOf(start), q).begins > L
  BY DEF Apart
<1>12. Apart(r, start, L, p) => begins > L
  <2> SUFFICES ASSUME Apart(r, start, L, p) PROVE begins > L
    OBVIOUS
  <2>1. PICK q \in 0..(p - 1) : 24 * Period(r, DayOf(start), q).begins > L
    BY <1>11
  <2>2. q \in Nat /\ q <= p
    BY <1>0
  <2>3. Period(r, DayOf(start), q).begins \in Int /\ Period(r, DayOf(start), p).begins \in Int
    BY <1>0, <2>2, PeriodDays
  <2>4. Period(r, DayOf(start), q).begins <= Period(r, DayOf(start), p).begins
    BY <1>0, <2>2, PeriodsRise
  <2> QED
    BY <2>1, <2>3, <2>4
<1>13. Alike(r, start, L, K, p + 1) <=>
         /\ ff.over \in BOOLEAN /\ gg.over \in BOOLEAN
         /\ ff.out \subseteq ClocksOf(start) /\ gg.out \subseteq ClocksOf(start)
         /\ \/ ff = gg
            \/ /\ Apart(r, start, L, p + 1)
               /\ ff.out \subseteq gg.out /\ \A w \in gg.out \ ff.out : w > L
  BY DEF Alike
<1> HIDE DEF f, g, ff, gg, begins
<1>14. \A w \in ClocksOf(start) : w \in Int
  BY DEF ClocksOf
<1>15. ff.out \subseteq ClocksOf(start) /\ gg.out \subseteq ClocksOf(start)
  BY <1>3, <1>4, <1>5
<1>16. \/ ff = gg
       \/ Apart(r, start, L, p + 1) /\ ff.out \subseteq gg.out /\ \A w \in gg.out \ ff.out : w > L
  <2>1. CASE f = g /\ (Stops(r, start, L, p, f) <=> Stops(r, start, K, p, g))
    BY <2>1, <1>9
  <2>2. CASE f = g /\ ~(Stops(r, start, L, p, f) <=> Stops(r, start, K, p, g))
    <3>1. Stops(r, start, L, p, f) /\ begins > L
      BY <2>2, <1>2, <1>8
    <3>2. ff.out = f.out /\ ff.over
      BY <3>1, <1>6
    <3>3. \A w \in gg.out \ ff.out : w > L
      BY <2>2, <3>1, <3>2, <1>2, <1>4, <1>14
    <3> QED
      BY <2>2, <3>1, <3>2, <3>3, <1>4, <1>10
  <2>3. CASE Apart(r, start, L, p) /\ f.out \subseteq g.out /\ \A w \in g.out \ f.out : w > L
    <3>1. Stops(r, start, L, p, f) /\ begins > L
      BY <2>3, <1>8, <1>11, <1>12
    <3>2. ff.out = f.out /\ ff.over
      BY <3>1, <1>6
    <3>3. \A w \in gg.out \ g.out : w > L
      BY <3>1, <1>2, <1>4, <1>14
    <3>4. ff.out \subseteq gg.out /\ \A w \in gg.out \ ff.out : w > L
      BY <2>3, <3>2, <3>3, <1>4
    <3> QED
      BY <3>1, <3>2, <3>4, <1>10
  <2> QED
    BY <2>1, <2>2, <2>3, <1>5
<1> QED
  BY <1>3, <1>4, <1>13, <1>15, <1>16

LEMMA WalksAgree ==
    ASSUME NEW r, IsRule(r), NEW start \in Int, NEW L \in Int, NEW K \in Int, L <= K
    PROVE  Alike(r, start, L, K, MaxPeriods)
<1> DEFINE S == {p \in Nat : Alike(r, start, L, K, p)}
<1>0. MaxPeriods \in Nat
  BY PagesAssumption
<1>1. 0 \in S
  <2>1. /\ Walk(r, start, L)[0] = [out |-> {}, over |-> FALSE]
        /\ Walk(r, start, K)[0] = [out |-> {}, over |-> FALSE]
    BY WalkTurns
  <2> QED
    <3>1. Walk(r, start, L)[0] = Walk(r, start, K)[0] /\ Walk(r, start, L)[0].over \in BOOLEAN
      BY <2>1
    <3>2. Walk(r, start, L)[0].out = {}
      BY <2>1
    <3> QED
      BY <3>1, <3>2 DEF Alike
<1>2. ASSUME NEW p \in 0..(MaxPeriods - 1), p \in S
      PROVE  p + 1 \in S
  BY <1>2, WalksStayAlike
<1> HIDE DEF S
<1>3. 0..MaxPeriods \subseteq S
  BY <1>0, <1>1, <1>2, GoesOn
<1>4. MaxPeriods \in S
  BY <1>0, <1>3
<1> QED
  BY <1>4 DEF S

\* The limit of the walk decides only over what is past it.
LEMMA OccurrencesAgree ==
    ASSUME NEW r, IsRule(r), NEW start \in Int, NEW L \in Int, NEW K \in Int,
           NEW w \in Occurrences(r, start, L), w <= K
    PROVE  w \in ClocksOf(start) /\ w \in Occurrences(r, start, K)
<1>1. /\ Occurrences(r, start, L) = Walk(r, start, L)[MaxPeriods].out
      /\ Occurrences(r, start, K) = Walk(r, start, K)[MaxPeriods].out
  BY WalkTurns
<1>2. CASE L <= K
  BY <1>1, <1>2, WalksAgree DEF Alike
<1>3. CASE K <= L
  <2>1. Alike(r, start, K, L, MaxPeriods)
    BY <1>3, WalksAgree
  <2>2. w \in ClocksOf(start) /\ w \in Int
    BY <1>1, <2>1 DEF Alike, ClocksOf
  <2>3. \/ Walk(r, start, K)[MaxPeriods] = Walk(r, start, L)[MaxPeriods]
        \/ \A v \in Walk(r, start, L)[MaxPeriods].out \ Walk(r, start, K)[MaxPeriods].out : v > K
    BY <2>1 DEF Alike
  <2> QED
    BY <1>1, <2>2, <2>3
<1> QED
  BY <1>2, <1>3

-----------------------------------------------------------------------------
(* Expansions: the window decides only over what is outside of it.           *)

LEMMA EventsRepeat ==
    ASSUME NEW e \in Repeating
    PROVE  /\ e.start \in Int /\ e.end \in Int /\ IsZone(e.zone)
           /\ e.rule # NoRule => IsRule(e.rule)
           /\ Wall(e.zone, e.start) \in Int /\ Wall(e.zone, e.end) \in Int
<1>1. e.start \in Int /\ e.end \in Int /\ IsZone(e.zone) /\ (e.rule = NoRule \/ IsRule(e.rule))
  BY RepeatingAssumption
<1> QED
  BY <1>1, WallsAreNumbers

\* An instance of a rule is anchored at an occurrence.
LEMMA InstanceIs ==
    ASSUME NEW e \in Repeating, e.rule # NoRule, NEW from, NEW to \in Int,
           NEW i \in Expand(e, from, to)
    PROVE  LET start == Wall(e.zone, e.start)
               dur   == Wall(e.zone, e.end) - start
           IN  \E w \in Occurrences(e.rule, start, WallLimit(e.zone, to)) :
                  /\ w \in ClocksOf(start) /\ w + dur \in Int
                  /\ i = [start |-> Anchor(e.zone, w), end |-> Anchor(e.zone, w + dur)]
<1> DEFINE start == Wall(e.zone, e.start)
           dur == Wall(e.zone, e.end) - start
           limit == WallLimit(e.zone, to)
<1>1. IsRule(e.rule) /\ start \in Int /\ dur \in Int /\ limit \in Int
  BY EventsRepeat, WallsAreNumbers
<1>2. PICK w \in Occurrences(e.rule, start, limit) :
         i = [start |-> Anchor(e.zone, w), end |-> Anchor(e.zone, w + dur)]
  BY DEF Expand, Instance
<1> HIDE DEF start, dur, limit
<1>3. Occurrences(e.rule, start, limit) = Walk(e.rule, start, limit)[MaxPeriods].out
  BY WalkTurns
<1>4. Alike(e.rule, start, limit, limit, MaxPeriods)
  BY <1>1, WalksAgree
<1>5. w \in ClocksOf(start)
  BY <1>2, <1>3, <1>4 DEF Alike
<1>6. w + dur \in Int
  BY <1>1, <1>5 DEF ClocksOf
<1> QED
  BY <1>2, <1>5, <1>6 DEF start, dur, limit

LEMMA ExpandsAgree ==
    ASSUME NEW e \in Repeating, NEW from, NEW to \in Int, NEW i \in Expand(e, from, to),
           NEW from2 \in Int, NEW to2 \in Int
    PROVE  /\ i.start \in Int /\ i.end \in Int /\ i.end > from /\ i.start < to
           /\ i.start < to2 /\ i.end > from2 => i \in Expand(e, from2, to2)
<1>1. i.end > from /\ i.start < to
  BY DEF Expand, Overlaps
<1>2. e.start \in Int /\ e.end \in Int /\ IsZone(e.zone)
  BY EventsRepeat
<1>3. CASE e.rule = NoRule
  <2>1. i = [start |-> e.start, end |-> e.end]
    BY <1>3 DEF Expand
  <2>2. i.start \in Int /\ i.end \in Int
    BY <1>2, <2>1
  <2>3. i.start < to2 /\ i.end > from2 => i \in Expand(e, from2, to2)
    BY <1>3, <2>1 DEF Expand, Overlaps
  <2> QED
    BY <1>1, <2>2, <2>3
<1>4. CASE e.rule # NoRule
  <2> DEFINE start == Wall(e.zone, e.start)
             dur == Wall(e.zone, e.end) - start
             limit == WallLimit(e.zone, to)
             limit2 == WallLimit(e.zone, to2)
  <2>1. PICK w \in Occurrences(e.rule, start, limit) :
           /\ w \in ClocksOf(start) /\ w + dur \in Int
           /\ i = [start |-> Anchor(e.zone, w), end |-> Anchor(e.zone, w + dur)]
    BY <1>4, InstanceIs
  <2>2. w \in Int
    BY <2>1 DEF ClocksOf
  <2>3. i.start = Anchor(e.zone, w) /\ i.end = Anchor(e.zone, w + dur)
    BY <2>1
  <2>4. i.start \in Int /\ i.end \in Int
    <3> HIDE DEF dur
    <3> QED
      BY <1>2, <2>1, <2>2, <2>3, AnchorIsExact
  <2>5. ASSUME i.start < to2, i.end > from2
        PROVE  i \in Expand(e, from2, to2)
    <3>1. w <= limit2
      BY <1>2, <2>2, <2>3, <2>5, SlackIsEnough
    <3>2. IsRule(e.rule) /\ start \in Int /\ limit \in Int /\ limit2 \in Int
      BY <1>4, EventsRepeat, WallsAreNumbers
    <3>3. w \in Occurrences(e.rule, start, limit2)
      <4> HIDE DEF start, limit, limit2
      <4> QED
        BY <2>1, <3>1, <3>2, OccurrencesAgree
    <3>4. i \in {Instance(e, v, dur) : v \in Occurrences(e.rule, start, limit2)}
      BY <2>1, <3>3 DEF Instance
    <3> QED
      BY <1>4, <2>5, <3>4 DEF Expand, Overlaps
  <2> QED
    BY <1>1, <2>4, <2>5
<1> QED
  BY <1>3, <1>4

\* What fires an automation is named by its window: the tick that fires it, a later one
\* in the window and the calendar on the screen expand the event each with a bound of
\* its own, and find the same window (expandEvent, Fireable).
THEOREM WindowsAgree ==
    ASSUME NEW e \in Repeating, NEW at \in Int, NEW now \in Int, NEW i \in ActiveAt(e, at),
           i.start <= now, now < i.end
    PROVE  i \in ActiveAt(e, now)
<1>1. i \in Expand(e, at, at + 1) /\ at + 1 \in Int /\ now + 1 \in Int
  BY DEF ActiveAt
<1>2. i.start \in Int
  BY <1>1, ExpandsAgree
<1>3. i.start < now + 1
  BY <1>2
<1>4. i \in Expand(e, now, now + 1)
  BY <1>1, <1>3, ExpandsAgree
<1> QED
  BY <1>4 DEF ActiveAt

-----------------------------------------------------------------------------
(* The pages of a client.                                                    *)

\* The pages, taken together, show what one page of their whole range would.
PagesMeet ==
    first < next /\ event.start < next => Lasting(seen) = Lasting(Instances(event, first, next))

PagingInv ==
    /\ event \in Repeating /\ first \in Int /\ next \in Int /\ first <= next
    /\ seen \subseteq Expand(event, first, next)
    /\ first < next /\ event.start < next => Lasting(Expand(event, first, next)) \subseteq seen

LEMMA PagingStarts == Open => PagingInv
<1> SUFFICES ASSUME Open
             PROVE  PagingInv
  OBVIOUS
<1>1. event \in Repeating /\ next = first /\ seen = {} /\ \E n \in Openings : first = event.start + n
  BY DEF Open
<1>2. event.start \in Int /\ Openings \subseteq Int
  BY <1>1, EventsRepeat, PagesAssumption
<1>3. first \in Int
  BY <1>1, <1>2
<1> QED
  BY <1>1, <1>3 DEF PagingInv

LEMMA PageLasts ==
    ASSUME PagingInv
    PROVE  Length(event) \in Nat \ {0}
<1>1. event.rule = NoRule \/ event.rule.freq \in Frequencies
  BY EventsRepeat DEF PagingInv, IsRule
<1>2. event.rule.freq \in Frequencies \cup {NoRule.freq}
  BY <1>1
<1> QED
  BY <1>2, PagesAssumption DEF Length

LEMMA PagingGoesOn == PagingInv /\ [Page]_paging => PagingInv'
<1> SUFFICES ASSUME PagingInv, [Page]_paging
             PROVE  PagingInv'
  OBVIOUS
<1>1. CASE UNCHANGED paging
  BY <1>1 DEF PagingInv, paging, Lasting, Lasts
<1>2. CASE Page
  <2>0. /\ event \in Repeating /\ first \in Int /\ next \in Int /\ first <= next
        /\ seen \subseteq Expand(event, first, next)
        /\ first < next /\ event.start < next => Lasting(Expand(event, first, next)) \subseteq seen
    BY DEF PagingInv
  <2>1. /\ next' = next + Length(event) /\ event' = event /\ first' = first
        /\ seen' = seen \cup Instances(event, next, next')
    BY <1>2 DEF Page
  <2>2. next' \in Int /\ next < next'
    BY <2>0, <2>1, PageLasts
  <2>3. event.start \in Int
    BY <2>0, EventsRepeat
  <2>4. Instances(event, next, next') \subseteq Expand(event, next, next')
    BY DEF Instances
  <2>5. ASSUME NEW i \in Expand(event, first, next)
        PROVE  i \in Expand(event, first, next')
    <3>1. i.start \in Int /\ i.end > first /\ i.start < next
      BY <2>0, <2>5, ExpandsAgree
    <3>2. i.start < next'
      BY <2>0, <2>2, <3>1
    <3> QED
      BY <2>0, <2>2, <2>5, <3>1, <3>2, ExpandsAgree
  <2>6. ASSUME NEW i \in Expand(event, next, next')
        PROVE  i \in Expand(event, first, next')
    <3>1. i.end \in Int /\ i.end > next /\ i.start < next'
      BY <2>0, <2>2, <2>6, ExpandsAgree
    <3>2. i.end > first
      BY <2>0, <3>1
    <3> QED
      BY <2>0, <2>2, <2>6, <3>1, <3>2, ExpandsAgree
  <2>7. seen' \subseteq Expand(event, first, next')
    BY <2>0, <2>1, <2>4, <2>5, <2>6
  <2>8. ASSUME event.start < next', NEW i \in Expand(event, first, next'),
               i.start < i.end, event.start < i.end
        PROVE  i \in seen'
    <3>1. i.start \in Int /\ i.end \in Int /\ i.end > first /\ i.start < next'
      BY <2>0, <2>2, <2>8, ExpandsAgree
    <3>2. CASE i.end > next
      <4>1. i \in Expand(event, next, next')
        BY <2>0, <2>2, <3>1, <3>2, ExpandsAgree
      <4> QED
        BY <2>1, <2>8, <4>1 DEF Instances
    <3>3. CASE ~(i.end > next)
      <4>1. i.start < next /\ event.start < next /\ first < next
        BY <2>0, <2>3, <2>8, <3>1, <3>3
      <4>2. i \in Expand(event, first, next)
        BY <2>0, <2>2, <3>1, <4>1, ExpandsAgree
      <4>3. i \in Lasting(Expand(event, first, next))
        BY <2>8, <4>2 DEF Lasting, Lasts
      <4> QED
        BY <2>0, <2>1, <4>1, <4>3
    <3> QED
      BY <3>2, <3>3
  <2>9. event.start < next' => {i \in Expand(event, first, next') : i.start < i.end /\ event.start < i.end} \subseteq seen'
    BY <2>8
  <2>10. Lasting(Expand(event, first, next))' =
            {i \in Expand(event, first, next') : i.start < i.end /\ event.start < i.end}
    BY <2>1 DEF Lasting, Lasts, Expand, Occurrences, Turn
  <2> QED
    BY <2>0, <2>1, <2>2, <2>7, <2>9, <2>10 DEF PagingInv
<1> QED
  BY <1>1, <1>2

LEMMA PagingKept == Paging => []PagingInv
<1>1. Open => PagingInv
  BY PagingStarts
<1>2. PagingInv /\ [Page]_paging => PagingInv'
  BY PagingGoesOn
<1> QED
  BY <1>1, <1>2, PTL DEF Paging

\* However a client pages through the calendar, its pages show together what a single
\* page of the whole range would: where two meet, nothing is lost and nothing is made up
\* (Instances, expandEvent).
THEOREM PagesAreOne == Paging => []PagesMeet
<1>1. PagingInv => PagesMeet
  <2> SUFFICES ASSUME PagingInv, first < next, event.start < next
               PROVE  Lasting(seen) = Lasting(Instances(event, first, next))
    BY DEF PagesMeet
  <2>1. Instances(event, first, next) = Expand(event, first, next)
    BY DEF Instances
  <2>2. seen \subseteq Expand(event, first, next) /\ Lasting(Expand(event, first, next)) \subseteq seen
    BY DEF PagingInv
  <2> QED
    BY <2>1, <2>2 DEF Lasting
<1> QED
  BY <1>1, PagingKept, PTL

\* For every event and zone, and at every instant of its calendar from the start of the
\* event on: what an automation may be fired for is what the calendar shows as active.
THEOREM WhatFiresIsShown == Paging => []FireableIsShown
<1>1. PagingInv => FireableIsShown
  <2> SUFFICES ASSUME PagingInv, NEW n \in Looks, next - n \in first..next, event.start <= next - n
               PROVE  ActiveAt(event, next - n) = {i \in seen : i.start <= next - n /\ next - n < i.end}
    BY DEF FireableIsShown
  <2> DEFINE at == next - n
  <2>1. /\ event \in Repeating /\ first \in Int /\ next \in Int /\ seen \subseteq Expand(event, first, next)
        /\ first < next /\ event.start < next => Lasting(Expand(event, first, next)) \subseteq seen
    BY DEF PagingInv
  <2>2. n \in Nat \ {0} /\ event.start \in Int
    BY <2>1, PagesAssumption, EventsRepeat
  <2>3. at \in Int /\ first <= at /\ at < next /\ event.start <= at /\ first < next /\ event.start < next
    BY <2>1, <2>2
  <2> HIDE DEF at
  <2>4. at + 1 \in Int
    BY <2>3
  <2>5. ASSUME NEW i \in ActiveAt(event, at)
        PROVE  i \in seen /\ i.start <= at /\ at < i.end
    <3>1. i \in Expand(event, at, at + 1) /\ i.start <= at /\ at < i.end
      BY DEF ActiveAt
    <3>2. i.start \in Int /\ i.end \in Int
      BY <2>1, <2>4, <3>1, ExpandsAgree
    <3>3. i.start < next /\ i.end > first /\ i.start < i.end /\ event.start < i.end
      BY <2>1, <2>2, <2>3, <3>1, <3>2
    <3>4. i \in Expand(event, first, next)
      BY <2>1, <2>4, <3>1, <3>3, ExpandsAgree
    <3>5. i \in Lasting(Expand(event, first, next))
      BY <3>3, <3>4 DEF Lasting, Lasts
    <3> QED
      BY <2>1, <2>3, <3>1, <3>5
  <2>6. ASSUME NEW i \in seen, i.start <= at, at < i.end
        PROVE  i \in ActiveAt(event, at)
    <3>1. i \in Expand(event, first, next)
      BY <2>1
    <3>2. i.start \in Int
      BY <2>1, <3>1, ExpandsAgree
    <3>3. i.start < at + 1 /\ i.end > at
      BY <2>3, <2>6, <3>2, <2>1, <3>1, ExpandsAgree
    <3>4. i \in Expand(event, at, at + 1)
      BY <2>1, <2>3, <2>4, <3>1, <3>3, ExpandsAgree
    <3> QED
      BY <2>6, <3>4 DEF ActiveAt
  <2> QED
    BY <2>5, <2>6 DEF at
<1> QED
  BY <1>1, PagingKept, PTL

LEMMA AnchorKeepsClock ==
    ASSUME NEW zone, IsZone(zone), NEW w \in Int
    PROVE  KeepsClock(zone, Anchor(zone, w), Clock(w))
<1> DEFINE t == Anchor(zone, w)
           skip == zone.after - zone.before
<1>1. /\ t \in Int
      /\ \/ Wall(zone, t) = w
         \/ w \in {Wall(zone, t) - skip, Wall(zone, t) + skip} /\ \A u \in Int : Wall(zone, u) # w
  BY AnchorIsExact
<1> HIDE DEF t, skip
<1>2. (t - 48)..(t + 48) \subseteq Int
  OBVIOUS
<1>3. KeepsClock(zone, t, Clock(w)) <=>
        \/ Clock(Wall(zone, t)) = Clock(w)
        \/ \E v \in {Wall(zone, t) - skip, Wall(zone, t) + skip} :
              Clock(v) = Clock(w) /\ \A u \in (t - 48)..(t + 48) : Wall(zone, u) # v
  BY DEF KeepsClock, skip
<1> QED
  BY <1>1, <1>2, <1>3 DEF t

\* Every instance that a client is shown begins and ends at the clock of its event, except
\* where no instant has that clock, for every rule and every change of the offset (anchor).
THEOREM InstancesKeepTheirClock == Paging => []ClockIsKept
<1>1. PagingInv => ClockIsKept
  <2> SUFFICES ASSUME PagingInv, NEW i \in seen, event.rule # NoRule
               PROVE  /\ KeepsClock(event.zone, i.start, Clock(Wall(event.zone, event.start)))
                      /\ KeepsClock(event.zone, i.end, Clock(Wall(event.zone, event.end)))
    BY DEF ClockIsKept
  <2> DEFINE start == Wall(event.zone, event.start)
             end == Wall(event.zone, event.end)
  <2>1. event \in Repeating /\ next \in Int /\ i \in Expand(event, first, next)
    BY DEF PagingInv
  <2>2. start \in Int /\ end \in Int /\ IsZone(event.zone)
    BY <2>1, EventsRepeat
  <2>3. PICK w \in ClocksOf(start) :
           /\ w + (end - start) \in Int
           /\ i = [start |-> Anchor(event.zone, w), end |-> Anchor(event.zone, w + (end - start))]
    BY <2>1, InstanceIs
  <2> HIDE DEF start, end
  <2>4. w \in Int /\ Clock(w) = Clock(start)
    BY DEF ClocksOf
  <2>5. Clock(w + (end - start)) = Clock(end)
    BY <2>2, <2>4, ClockOfDay
  <2>6. i.start = Anchor(event.zone, w) /\ i.end = Anchor(event.zone, w + (end - start))
    BY <2>3
  <2>7. /\ KeepsClock(event.zone, i.start, Clock(start))
        /\ KeepsClock(event.zone, i.end, Clock(end))
    BY <2>2, <2>3, <2>4, <2>5, <2>6, AnchorKeepsClock
  <2> QED
    BY <2>7 DEF start, end
<1> QED
  BY <1>1, PagingKept, PTL

-----------------------------------------------------------------------------
(* How many occurrences a rule has.                                          *)

\* There are no more than k members among the first k.
LEMMA FirstPlaces ==
    ASSUME NEW S \in SUBSET Int, IsFiniteSet(S), NEW k \in Nat
    PROVE  LET T == {x \in S : Place(S, x) <= k}
           IN  IsFiniteSet(T) /\ Cardinality(T) <= k
<1> DEFINE T == {x \in S : Place(S, x) <= k}
           Below(x) == {y \in S : y <= x}
<1>1. \A x \in S : IsFiniteSet(Below(x)) /\ Place(S, x) = Cardinality(Below(x)) /\ Place(S, x) \in Nat
  <2> TAKE x \in S
  <2>1. IsFiniteSet(Below(x))
    BY FS_Subset
  <2> QED
    BY <2>1, FS_CardinalityType DEF Place
<1>2. IsFiniteSet(T)
  BY FS_Subset
<1>3. CASE T = {}
  BY <1>2, <1>3, FS_EmptySet
<1>4. CASE T # {}
  <2> DEFINE N == {k - Place(S, x) : x \in T}
  <2>0. \A x \in T : x \in S /\ x \in Int /\ Place(S, x) \in Nat /\ k - Place(S, x) \in Nat
    <3> HIDE DEF Below
    <3> QED
      BY <1>1
  <2>1. N \subseteq Nat /\ N # {}
    <3> HIDE DEF T, Below
    <3> QED
      BY <1>4, <2>0
  <2>2. PICK n \in N : \A o \in N : n <= o
    <3> HIDE DEF N
    <3> QED
      BY <2>1, LeastNumber, Zenon
  <2>3. PICK m \in T : n = k - Place(S, m)
    OBVIOUS
  <2>4. ASSUME NEW y \in T
        PROVE  y <= m
    <3>1. SUFFICES ASSUME m < y
                   PROVE  FALSE
      OBVIOUS
    <3>2. k - Place(S, m) <= k - Place(S, y)
      BY <2>2, <2>3
    <3>3. Place(S, y) <= Place(S, m)
      <4> HIDE DEF T, Below, N
      <4> QED
        BY <2>0, <3>2
    <3>4. Below(m) \subseteq Below(y) /\ y \in Below(y) /\ y \notin Below(m)
      <4>1. m \in S /\ y \in S /\ m \in Int /\ y \in Int
        BY <2>0
      <4>2. \A z \in S : z \in Int /\ (z <= m => z <= y)
        BY <3>1, <4>1
      <4>3. y <= y /\ ~(y <= m)
        BY <3>1, <4>1
      <4> HIDE DEF T, N
      <4> QED
        BY <4>1, <4>2, <4>3, Zenon
    <3>5. /\ Cardinality(Below(m)) <= Cardinality(Below(y))
          /\ Cardinality(Below(m)) = Cardinality(Below(y)) => Below(m) = Below(y)
      <4> HIDE DEF Below
      <4> QED
        BY <1>1, <3>4, FS_Subset
    <3> HIDE DEF Below
    <3> QED
      BY <1>1, <3>3, <3>4, <3>5
  <2>5. T \subseteq Below(m)
    BY <2>4, Zenon
  <2>6. Cardinality(T) <= Cardinality(Below(m))
    <3> HIDE DEF T, Below
    <3>1. m \in S
      BY DEF T
    <3> QED
      BY <1>1, <2>5, <3>1, FS_Subset
  <2>7. Place(S, m) <= k /\ m \in S
    OBVIOUS
  <2>8. Cardinality(T) \in Nat
    BY <1>2, FS_CardinalityType
  <2> HIDE DEF T, Below, N
  <2>9. Cardinality(T) <= k
    BY <1>1, <2>6, <2>7, <2>8
  <2> QED
    BY <1>2, <2>9 DEF T
<1> QED
  BY <1>3, <1>4

LEMMA MonthsAreFinite ==
    ASSUME NEW r, NEW y \in Int, NEW m \in 1..12, NEW startDay \in Int
    PROVE  IsFiniteSet(MonthCandidates(r, y, m, startDay))
<1> DEFINE n == DaysIn(y, m)
<1>1. n \in Int
  BY DEF DaysIn, DayNumber
<1> HIDE DEF n
<1>2. MonthDaySet(n, r.byMonthDay) \subseteq 1..n /\ ByDaySet(r, y, m, n) \subseteq 1..n
  BY Zenon DEF MonthDaySet, ByDaySet, InPlace
<1>3. MonthDays(r, y, m, startDay) \subseteq 1..n
  <2>1. CASE r.byMonthDay # {} /\ r.byDay # {}
    BY <2>1, <1>2 DEF MonthDays, n
  <2>2. CASE r.byMonthDay # {} /\ r.byDay = {}
    BY <2>2, <1>2 DEF MonthDays, n
  <2>3. CASE r.byMonthDay = {} /\ r.byDay # {}
    BY <2>3, <1>2 DEF MonthDays, n
  <2>4. CASE r.byMonthDay = {} /\ r.byDay = {}
    BY <2>4 DEF MonthDays, n
  <2> QED
    BY <2>1, <2>2, <2>3, <2>4
<1>4. IsFiniteSet(1..n)
  BY <1>1, FS_Interval
<1>5. IsFiniteSet(MonthDays(r, y, m, startDay))
  BY <1>3, <1>4, FS_Subset, Zenon
<1> DEFINE D == MonthDays(r, y, m, startDay)
           days == {DayNumber(y, m, d) : d \in D}
           f == [d \in D |-> DayNumber(y, m, d)]
<1>6. f \in [D -> days] /\ \A x \in days : \E d \in D : f[d] = x
  OBVIOUS
<1>7. IsFiniteSet(days)
  <2>1. f \in Surjection(D, days)
    BY <1>6 DEF Surjection
  <2> HIDE DEF D, days, f
  <2> QED
    BY <1>5, <2>1, FS_Surjection DEF D
<1> QED
  BY <1>7 DEF MonthCandidates

LEMMA PeriodsAreFinite ==
    ASSUME NEW r, IsRule(r), NEW startDay \in Int, NEW p \in Nat
    PROVE  IsFiniteSet(Period(r, startDay, p).days)
<1> DEFINE n == p * r.interval
<1>1. n \in Nat
  BY PeriodsPass
<1>2. Date(startDay).y \in Int /\ Date(startDay).m \in 1..12 /\ Date(startDay).d \in Int
  BY DatesAreNumbers
<1>3. r.byMonth \subseteq 1..12 /\ r.wkst \in 0..6 /\ r.freq \in Frequencies
  BY DEF IsRule
<1>5. CASE r.freq = "daily"
  <2>1. Period(r, startDay, p).days \subseteq {startDay + n}
    BY <1>5 DEF Period
  <2> HIDE DEF n
  <2> QED
    BY <2>1, FS_Singleton, FS_Subset, Zenon
<1>6. CASE r.freq = "weekly"
  <2> DEFINE week == StartOfWeek(startDay, r.wkst) + 7 * n
  <2>1. week \in Int
    <3> HIDE DEF n
    <3>1. StartOfWeek(startDay, r.wkst) \in Int
      BY <1>3, WeekBegins
    <3> QED
      BY <1>1, <3>1
  <2>2. Period(r, startDay, p).days \subseteq week..(week + 6)
    BY <1>6 DEF Period
  <2> HIDE DEF week
  <2>3. IsFiniteSet(week..(week + 6))
    BY <2>1, FS_Interval
  <2> QED
    BY <2>2, <2>3, FS_Subset, Zenon
<1>7. CASE r.freq = "monthly"
  <2> DEFINE idx == Date(startDay).y * 12 + Date(startDay).m - 1 + n
             y == idx \div 12
             m == (idx % 12) + 1
  <2>1. idx \in Int
    BY <1>1, <1>2
  <2>2. y \in Int /\ m \in 1..12
    BY <2>1
  <2>3. Period(r, startDay, p).days \subseteq MonthCandidates(r, y, m, Date(startDay).d)
    BY <1>7 DEF Period
  <2> HIDE DEF y, m
  <2> QED
    BY <1>2, <2>2, <2>3, MonthsAreFinite, FS_Subset, Zenon
<1>8. CASE r.freq = "yearly"
  <2> DEFINE y == Date(startDay).y + n
             months == IF r.byMonth = {} THEN {Date(startDay).m} ELSE r.byMonth
             sets == {MonthCandidates(r, y, m, Date(startDay).d) : m \in months}
             f == [m \in months |-> MonthCandidates(r, y, m, Date(startDay).d)]
  <2>1. y \in Int /\ months \subseteq 1..12
    BY <1>1, <1>2, <1>3
  <2>2. Period(r, startDay, p).days = UNION sets
    BY <1>8 DEF Period
  <2>3. IsFiniteSet(months)
    <3> HIDE DEF months
    <3>1. 1..12 \in SUBSET Nat /\ 12 \in Nat /\ \A m \in 1..12 : m <= 12
      OBVIOUS
    <3>2. IsFiniteSet(1..12)
      BY ONLY <3>1, FS_BoundedSetOfNaturals
    <3> QED
      BY <2>1, <3>2, FS_Subset, Zenon
  <2> HIDE DEF y, months
  <2>4. f \in Surjection(months, sets)
    BY DEF Surjection
  <2>5. \A s \in sets : IsFiniteSet(s)
    BY <1>2, <2>1, MonthsAreFinite, Zenon
  <2> HIDE DEF sets, f
  <2>6. IsFiniteSet(sets)
    BY <2>3, <2>4, FS_Surjection
  <2>7. IsFiniteSet(UNION sets)
    BY <2>5, <2>6, FS_UNION
  <2> QED
    BY <2>2, <2>7
<1> QED
  BY <1>3, <1>5, <1>6, <1>7, <1>8 DEF Frequencies

\* What has been taken is within the end of the rule.
EndsInTime(r, out) ==
    /\ IsFiniteSet(out)
    /\ \A w \in out : ~PastUntil(r, w)
    /\ r.count # 0 => Cardinality(out) <= r.count

LEMMA EmittedLimited ==
    ASSUME NEW r, IsRule(r), NEW start \in Int, NEW n \in Nat, NEW days \in SUBSET Int,
           IsFiniteSet(days), r.count # 0 => n <= r.count
    PROVE  LET taken == Emitted(r, start, n, days).taken
           IN  /\ IsFiniteSet(taken) /\ \A w \in taken : ~PastUntil(r, w)
               /\ r.count # 0 => Cardinality(taken) <= r.count - n
<1> DEFINE clocks == {24 * d + Clock(start) : d \in days}
           begun == {w \in clocks : w >= start}
           within == {w \in begun : ~PastUntil(r, w)}
           taken == Emitted(r, start, n, days).taken
           f == [d \in days |-> 24 * d + Clock(start)]
<1>1. r.count \in Nat
  BY DEF IsRule
<1>2. taken = {w \in within : r.count = 0 \/ n + Place(within, w) <= r.count}
  BY DEF Emitted
<1>3. Clock(start) \in Int
  <2>1. Clock(start) \in 0..23
    BY ClockOfDay
  <2> QED
    BY <2>1
<1>4. clocks \subseteq Int
  BY <1>3
<1>5. IsFiniteSet(clocks)
  <2>1. f \in Surjection(days, clocks)
    BY DEF Surjection
  <2> HIDE DEF f, clocks
  <2> QED
    BY <2>1, FS_Surjection
<1>6. within \subseteq clocks /\ \A w \in within : ~PastUntil(r, w)
  OBVIOUS
<1> HIDE DEF clocks, begun, within, taken
<1>7. IsFiniteSet(within) /\ within \in SUBSET Int
  BY <1>4, <1>5, <1>6, FS_Subset, Zenon
<1>8. taken \subseteq within
  BY <1>2
<1>9. IsFiniteSet(taken)
  BY <1>7, <1>8, FS_Subset, Zenon
<1>10. ASSUME r.count # 0
       PROVE  Cardinality(taken) <= r.count - n
  <2> DEFINE k == r.count - n
  <2>1. k \in Nat
    BY <1>1, <1>10
  <2>2. \A w \in within : Place(within, w) \in Nat
    <3> TAKE w \in within
    <3>1. IsFiniteSet({y \in within : y <= w})
      BY <1>7, FS_Subset
    <3> QED
      BY <3>1, FS_CardinalityType DEF Place
  <2>3. taken = {w \in within : Place(within, w) <= k}
    BY <1>1, <1>2, <1>10, <2>2
  <2> HIDE DEF k
  <2>4. Cardinality(taken) <= k
    BY <1>7, <2>1, <2>3, FirstPlaces
  <2> QED
    BY <2>4 DEF k
<1> QED
  BY <1>6, <1>8, <1>9, <1>10 DEF taken

LEMMA TurnLimited ==
    ASSUME NEW r, IsRule(r), NEW start \in Int, NEW limit, NEW p \in Nat, NEW walked,
           EndsInTime(r, walked.out)
    PROVE  EndsInTime(r, Turn(r, start, limit, p, walked).out)
<1> DEFINE n == Cardinality(walked.out)
           days == ApplySetPos(Period(r, DayOf(start), p).days, r.bySetPos)
           emitted == Emitted(r, start, n, days)
           turn == Turn(r, start, limit, p, walked)
<1>1. CASE Stops(r, start, limit, p, walked)
  <2>1. turn = [out |-> walked.out, over |-> TRUE]
    BY <1>1, TurnStops
  <2>2. turn.out = walked.out
    BY <2>1
  <2> QED
    BY <2>2
<1>2. CASE ~Stops(r, start, limit, p, walked)
  <2>1. turn = [out |-> walked.out \cup emitted.taken, over |-> emitted.stop]
    BY <1>2 DEF Turn, Stops
  <2>2. /\ IsFiniteSet(walked.out) /\ (\A w \in walked.out : ~PastUntil(r, w))
        /\ r.count # 0 => n <= r.count
    BY DEF EndsInTime
  <2>3. n \in Nat /\ r.count \in Nat
    BY <2>2, FS_CardinalityType DEF IsRule
  <2>4. DayOf(start) \in Int
    BY ClockOfDay
  <2>5. Period(r, DayOf(start), p).days \subseteq Int /\ IsFiniteSet(Period(r, DayOf(start), p).days)
    BY <2>4, PeriodDays, PeriodsAreFinite
  <2>6. days \subseteq Period(r, DayOf(start), p).days
    BY DEF ApplySetPos, InPlace
  <2> HIDE DEF days, turn
  <2>7. days \in SUBSET Int /\ IsFiniteSet(days)
    BY <2>5, <2>6, FS_Subset
  <2>8. /\ IsFiniteSet(emitted.taken) /\ \A w \in emitted.taken : ~PastUntil(r, w)
        /\ r.count # 0 => Cardinality(emitted.taken) <= r.count - n
    <3> HIDE DEF n
    <3> QED
      BY <2>2, <2>3, <2>7, EmittedLimited, Zenon
  <2> DEFINE taken == emitted.taken
  <2>9. turn.out = walked.out \cup taken
    BY <2>1
  <2> HIDE DEF taken
  <2>10. IsFiniteSet(turn.out)
    BY <2>2, <2>8, <2>9, FS_Union, Zenon DEF taken
  <2>11. Cardinality(turn.out) <= n + Cardinality(taken)
    <3>1. /\ Cardinality(walked.out \cup taken) = Cardinality(walked.out) + Cardinality(taken)
                - Cardinality(walked.out \cap taken)
      BY <2>2, <2>8, FS_Union DEF taken
    <3>2. IsFiniteSet(walked.out \cap taken)
      BY <2>2, FS_Subset
    <3>3. Cardinality(walked.out \cap taken) \in Nat /\ Cardinality(taken) \in Nat
      BY <2>8, <3>2, FS_CardinalityType DEF taken
    <3> HIDE DEF n
    <3>4. n = Cardinality(walked.out)
      BY DEF n
    <3> QED
      BY <2>3, <2>9, <3>1, <3>3, <3>4
  <2>12. r.count # 0 => Cardinality(turn.out) <= r.count
    <3>1. Cardinality(taken) \in Nat /\ Cardinality(turn.out) \in Nat
      BY <2>8, <2>10, FS_CardinalityType DEF taken
    <3>2. r.count # 0 => Cardinality(taken) <= r.count - n
      BY <2>8 DEF taken
    <3> HIDE DEF n
    <3> QED
      BY <2>3, <2>11, <3>1, <3>2
  <2> QED
    BY <2>2, <2>8, <2>9, <2>10, <2>12 DEF EndsInTime, taken, turn
<1> QED
  BY <1>1, <1>2

\* Up to whatever limit a rule is expanded, it has no occurrence before its start or at
\* another clock, no more of them than its COUNT says, and none past its UNTIL (emit).
THEOREM RulesEnd ==
    ASSUME NEW r, IsRule(r), NEW start \in Int, NEW limit \in Int
    PROVE  Occurrences(r, start, limit) \subseteq ClocksOf(start) /\ EndsInTime(r, Occurrences(r, start, limit))
<1> DEFINE f == Walk(r, start, limit)
           S == {p \in Nat : EndsInTime(r, f[p].out)}
<1>0. MaxPeriods \in Nat
  BY PagesAssumption
<1>1. 0 \in S
  <2>1. f[0].out = {}
    BY WalkTurns
  <2>2. r.count \in Nat
    BY DEF IsRule
  <2>3. EndsInTime(r, {})
    BY <2>2, FS_EmptySet DEF EndsInTime
  <2> QED
    BY <2>1, <2>3
<1>2. ASSUME NEW p \in 0..(MaxPeriods - 1), p \in S
      PROVE  p + 1 \in S
  <2>1. f[p + 1] = Turn(r, start, limit, p, f[p])
    BY WalkTurns
  <2> HIDE DEF f
  <2>2. EndsInTime(r, f[p].out) /\ p \in Nat
    BY <1>2
  <2>3. EndsInTime(r, Turn(r, start, limit, p, f[p]).out)
    BY <2>2, TurnLimited
  <2> QED
    BY <2>1, <2>2, <2>3
<1> HIDE DEF S
<1>3. 0..MaxPeriods \subseteq S
  BY <1>0, <1>1, <1>2, GoesOn
<1>4. MaxPeriods \in S
  BY <1>0, <1>3
<1>5. Occurrences(r, start, limit) = f[MaxPeriods].out
  BY WalkTurns
<1>6. Alike(r, start, limit, limit, MaxPeriods)
  BY WalksAgree
<1> QED
  BY <1>4, <1>5, <1>6 DEF S, Alike

-----------------------------------------------------------------------------
(* Dates: a date is the one of its day, and a day the one of its date.      *)

\* Days of an era (400 years from a first of March) before one of its years.
YearStart(y) == IF y = 400 THEN 146097 ELSE 365 * y + y \div 4 - y \div 100

YearOfEra(doe) == (doe - doe \div 1460 + doe \div 36524 - doe \div 146096) \div 365

LEMMA DividedByCentury ==
    ASSUME NEW x \in Int
    PROVE  x \div 36524 \in Int /\ 36524 * (x \div 36524) <= x /\ x < 36524 * (x \div 36524) + 36524
BY SMT

LEMMA DividedByLeap ==
    ASSUME NEW x \in Int
    PROVE  x \div 1461 \in Int /\ 1461 * (x \div 1461) <= x /\ x < 1461 * (x \div 1461) + 1461
BY SMT

LEMMA DividedByYear ==
    ASSUME NEW x \in Int
    PROVE  x \div 365 \in Int /\ 365 * (x \div 365) <= x /\ x < 365 * (x \div 365) + 365
BY SMT

\* The day of a century, of a group of four years in it, and of one of these.
EraDay(c, q, a, r) == 36524 * c + 1461 * q + 365 * a + r

EraYear(c, q, a) == 100 * c + 4 * q + a

LEMMA CenturyOf ==
    ASSUME NEW doe \in Int, 0 <= doe, doe <= 146096
    PROVE  \E c, d \in Int : /\ 0 <= c /\ c <= 3 /\ 0 <= d /\ d <= 36524 /\ (d = 36524 => c = 3)
                            /\ doe = 36524 * c + d
<1>1. CASE doe = 146096
  <2>1. doe = 36524 * 3 + 36524
    BY <1>1, SMT
  <2> QED
    BY <2>1, SMT
<1>2. CASE doe # 146096
  <2> DEFINE c == doe \div 36524
  <2>1. c \in Int /\ 36524 * c <= doe /\ doe < 36524 * c + 36524
    BY DividedByCentury, SMT
  <2> HIDE DEF c
  <2> DEFINE d == doe - 36524 * c
  <2>2. d \in Int /\ doe = 36524 * c + d /\ 0 <= d /\ d < 36524
    BY <2>1, SMT
  <2> HIDE DEF d
  <2>3. 0 <= c /\ c <= 3
    BY <1>2, <2>1, SMT
  <2>4. d <= 36524 /\ (d = 36524 => c = 3)
    BY <2>2, SMT
  <2> QED
    BY <2>1, <2>2, <2>3, <2>4, SMT
<1> QED
  BY <1>1, <1>2, SMT

LEMMA LeapOf ==
    ASSUME NEW d \in Int, 0 <= d, d <= 36524
    PROVE  \E q, e \in Int : /\ 0 <= q /\ q <= 24 /\ 0 <= e /\ e <= 1460 /\ (e = 1460 /\ q = 24 => d = 36524)
                            /\ d = 1461 * q + e
<1> DEFINE q == d \div 1461
<1>1. q \in Int /\ 1461 * q <= d /\ d < 1461 * q + 1461
  BY DividedByLeap, SMT
<1> HIDE DEF q
<1> DEFINE e == d - 1461 * q
<1>2. e \in Int /\ d = 1461 * q + e /\ 0 <= e /\ e <= 1460
  BY <1>1, SMT
<1> HIDE DEF e
<1>3. 0 <= q /\ q <= 24
  BY <1>1, SMT
<1>4. e = 1460 /\ q = 24 => d = 36524
  BY <1>2, SMT
<1> QED
  BY <1>1, <1>2, <1>3, <1>4, SMT

LEMMA YearOf ==
    ASSUME NEW e \in Int, 0 <= e, e <= 1460
    PROVE  \E a, r \in Int : /\ 0 <= a /\ a <= 3 /\ 0 <= r /\ r <= 365 /\ (r = 365 => a = 3 /\ e = 1460)
                            /\ e = 365 * a + r
<1>1. CASE e = 1460
  <2>1. e = 365 * 3 + 365
    BY <1>1, SMT
  <2> QED
    BY <1>1, <2>1, SMT
<1>2. CASE e # 1460
  <2> DEFINE a == e \div 365
  <2>1. a \in Int /\ 365 * a <= e /\ e < 365 * a + 365
    BY DividedByYear, SMT
  <2> HIDE DEF a
  <2> DEFINE r == e - 365 * a
  <2>2. r \in Int /\ e = 365 * a + r /\ 0 <= r /\ r < 365
    BY <2>1, SMT
  <2> HIDE DEF r
  <2>3. 0 <= a /\ a <= 3
    BY <1>2, <2>1, SMT
  <2> QED
    BY <2>1, <2>2, <2>3, SMT
<1> QED
  BY <1>1, <1>2, SMT

\* Which century of the era, which four years of it, which of these, and which day of the year.
Divides(c, q, a, r) ==
    /\ c \in Nat /\ c <= 3 /\ q \in Nat /\ q <= 24 /\ a \in Nat /\ a <= 3 /\ r \in Nat /\ r <= 365
    /\ r = 365 => a = 3 /\ (q = 24 => c = 3)

LEMMA EraDivides ==
    ASSUME NEW doe \in Int, 0 <= doe, doe <= 146096
    PROVE  \E c, q, a, r \in Nat : doe = EraDay(c, q, a, r) /\ Divides(c, q, a, r)
<1>1. PICK c \in Int, d \in Int : /\ 0 <= c /\ c <= 3 /\ 0 <= d /\ d <= 36524 /\ (d = 36524 => c = 3)
                                 /\ doe = 36524 * c + d
  BY CenturyOf, SMT
<1>2. PICK q \in Int, e \in Int :
         /\ 0 <= q /\ q <= 24 /\ 0 <= e /\ e <= 1460 /\ (e = 1460 /\ q = 24 => d = 36524)
         /\ d = 1461 * q + e
  <2>1. d \in Int /\ 0 <= d /\ d <= 36524
    BY <1>1
  <2> QED
    BY ONLY <2>1, LeapOf, SMT
<1>3. PICK a \in Int, r \in Int : /\ 0 <= a /\ a <= 3 /\ 0 <= r /\ r <= 365 /\ (r = 365 => a = 3 /\ e = 1460)
                                 /\ e = 365 * a + r
  <2>1. e \in Int /\ 0 <= e /\ e <= 1460
    BY <1>2
  <2> QED
    BY <2>1, YearOf, SMT
<1>4. doe = EraDay(c, q, a, r)
  BY <1>1, <1>2, <1>3, SMT DEF EraDay
<1>5. Divides(c, q, a, r)
  BY <1>1, <1>2, <1>3, SMT DEF Divides
<1>6. c \in Nat /\ q \in Nat /\ a \in Nat /\ r \in Nat
  BY <1>5, SMT DEF Divides
<1> QED
  BY <1>4, <1>5, <1>6, SMT

LEMMA YearsOfEra ==
    ASSUME NEW c \in Nat, c <= 3, NEW q \in Nat, q <= 24, NEW a \in Nat, a <= 3
    PROVE  /\ EraYear(c, q, a) \in Nat /\ EraYear(c, q, a) <= 399
           /\ YearStart(EraYear(c, q, a)) = EraDay(c, q, a, 0)
           /\ YearStart(EraYear(c, q, a) + 1) = EraDay(c, q, a, 0) + (IF a = 3 /\ (q = 24 => c = 3) THEN 366 ELSE 365)
<1> DEFINE y == 100 * c + 4 * q + a
<1>1. y \in Nat /\ y <= 399
  BY SMT
<1>2. y \div 4 = 25 * c + q /\ y \div 100 = c
  BY SMT
<1>3. YearStart(y) = 36524 * c + 1461 * q + 365 * a
  BY <1>1, <1>2, SMT DEF YearStart
<1>4. (y + 1) \div 4 = 25 * c + q + (IF a = 3 THEN 1 ELSE 0)
  BY SMT
<1>5. (y + 1) \div 100 = c + (IF a = 3 /\ q = 24 THEN 1 ELSE 0)
  BY SMT
<1>6. YearStart(y + 1) = YearStart(y) + (IF a = 3 /\ (q = 24 => c = 3) THEN 366 ELSE 365)
  <2>1. CASE y = 399
    BY <1>1, <1>3, <2>1, SMT DEF YearStart
  <2>2. CASE y # 399
    BY <1>1, <1>2, <1>4, <1>5, <2>2, SMT DEF YearStart
  <2> QED
    BY <2>1, <2>2, SMT
<1> QED
  BY <1>1, <1>3, <1>6, SMT DEF EraDay, EraYear

LEMMA YearOfEraIs ==
    ASSUME NEW c, NEW q, NEW a, NEW r, Divides(c, q, a, r)
    PROVE  YearOfEra(EraDay(c, q, a, r)) = EraYear(c, q, a)
<1> DEFINE doe == EraDay(c, q, a, r)
           x == 24 * c + q + 365 * a + r
           k == IF x < 1460 THEN 0 ELSE 1
           z == 1461 * q + 365 * a + r
           l == IF z < 36524 THEN 0 ELSE 1
<1>0. /\ c \in Nat /\ c <= 3 /\ q \in Nat /\ q <= 24 /\ a \in Nat /\ a <= 3 /\ r \in Nat /\ r <= 365
      /\ r = 365 => a = 3 /\ (q = 24 => c = 3)
  BY SMT DEF Divides
<1>1. x \in Nat /\ x <= 2919 /\ doe = 1460 * (25 * c + q) + x
  BY <1>0, SMT DEF EraDay
<1>2. doe \div 1460 = 25 * c + q + k
  <2> HIDE DEF x, doe
  <2> QED
    BY <1>0, <1>1, SMT
<1>3. z \in Nat /\ z <= 36524 /\ (z = 36524 => c = 3) /\ doe = 36524 * c + z
  BY <1>0, SMT DEF EraDay
<1>4. doe \div 36524 = c + l
  <2> HIDE DEF z, doe
  <2> QED
    BY <1>0, <1>3, SMT
<1>5. doe \div 146096 = l
  <2> HIDE DEF z, doe
  <2> QED
    BY <1>0, <1>3, SMT
<1>6. r - k \in Nat /\ r - k <= 364
  BY <1>0, SMT
<1>7. doe - doe \div 1460 + doe \div 36524 - doe \div 146096 = 365 * (100 * c + 4 * q + a) + (r - k)
  <2>1. doe = 36524 * c + 1461 * q + 365 * a + r
    BY <1>0, SMT DEF EraDay
  <2> HIDE DEF doe, k, l
  <2>2. k \in Int /\ l \in Int
    BY SMT DEF k, l
  <2> QED
    BY <1>0, <1>2, <1>4, <1>5, <2>1, <2>2, SMT
<1> DEFINE m == r - k
<1> HIDE DEF doe, m
<1>8. m \in Nat /\ m <= 364 /\ YearOfEra(doe) = (365 * (100 * c + 4 * q + a) + m) \div 365
  BY <1>6, <1>7, SMT DEF YearOfEra, m
<1>9. YearOfEra(doe) = 100 * c + 4 * q + a
  BY <1>0, <1>8, SMT
<1> QED
  BY <1>9, SMT DEF doe, EraYear

LEMMA EraHasYears ==
    ASSUME NEW doe \in Int, 0 <= doe, doe <= 146096
    PROVE  LET y == YearOfEra(doe)
           IN  y \in Nat /\ y <= 399 /\ YearStart(y) <= doe /\ doe < YearStart(y + 1)
<1>1. PICK c \in Nat, q \in Nat, a \in Nat, r \in Nat : doe = EraDay(c, q, a, r) /\ Divides(c, q, a, r)
  BY EraDivides, SMT
<1>2. /\ c \in Nat /\ c <= 3 /\ q \in Nat /\ q <= 24 /\ a \in Nat /\ a <= 3 /\ r \in Nat /\ r <= 365
      /\ r = 365 => a = 3 /\ (q = 24 => c = 3)
  BY <1>1, SMT DEF Divides
<1> DEFINE y == EraYear(c, q, a)
<1>3. YearOfEra(doe) = y
  BY <1>1, YearOfEraIs, SMT
<1>4. /\ y \in Nat /\ y <= 399
      /\ YearStart(y) = EraDay(c, q, a, 0)
      /\ YearStart(y + 1) = EraDay(c, q, a, 0) + (IF a = 3 /\ (q = 24 => c = 3) THEN 366 ELSE 365)
  BY <1>2, YearsOfEra, SMT
<1> HIDE DEF y
<1>5. YearStart(y) <= doe /\ doe < YearStart(y + 1)
  BY <1>1, <1>2, <1>4, SMT DEF EraDay
<1> QED
  BY <1>3, <1>4, <1>5, SMT

\* Days before the first of March of a year, of its k-th month from there on, and before
\* the first of the i-th month of all, counted from January of the year 0.
MarchFirst(y) == 365 * y + y \div 4 - y \div 100 + y \div 400
MonthStart(k) == (153 * k + 2) \div 5
MonthFirst(i) == DayNumber(i \div 12, (i % 12) + 1, 1)

\* The number of a month from the first of all on.
MonthIndex(y, m) == 12 * y + m - 1

LEMMA MonthOfIndex ==
    ASSUME NEW y \in Int, NEW m \in Int, 1 <= m, m <= 12
    PROVE  /\ MonthIndex(y, m) \in Int
           /\ MonthIndex(y, m) \div 12 = y /\ (MonthIndex(y, m) % 12) + 1 = m
           /\ MonthFirst(MonthIndex(y, m)) = DayNumber(y, m, 1)
<1>1. MonthIndex(y, m) \in Int /\ MonthIndex(y, m) \div 12 = y /\ (MonthIndex(y, m) % 12) + 1 = m
  BY SMT DEF MonthIndex
<1> QED
  BY <1>1, SMT DEF MonthFirst

LEMMA MonthsDiffer ==
    ASSUME NEW y \in Int, NEW m \in 1..12, NEW z \in Int, NEW l \in 1..12
    PROVE  MonthIndex(y, m) = MonthIndex(z, l) <=> y = z /\ m = l
BY SMT DEF MonthIndex

LEMMA EraRepeats ==
    ASSUME NEW era \in Int, NEW y \in Nat, y <= 399
    PROVE  /\ MarchFirst(400 * era + y) = 146097 * era + YearStart(y)
           /\ MarchFirst(400 * era + y + 1) = 146097 * era + YearStart(y + 1)
<1>1. ASSUME NEW z \in Nat, z <= 399
      PROVE  MarchFirst(400 * era + z) = 146097 * era + YearStart(z)
  <2> DEFINE w == 400 * era + z
  <2>1. w \in Int /\ w \div 4 = 100 * era + z \div 4 /\ w \div 100 = 4 * era + z \div 100 /\ w \div 400 = era
    BY <1>1, SMT
  <2>2. z # 400 /\ z \div 4 \in Int /\ z \div 100 \in Int
    BY <1>1, SMT
  <2> QED
    BY <2>1, <2>2, SMT DEF MarchFirst, YearStart
<1>2. CASE y = 399
  <2> DEFINE w == 400 * (era + 1)
  <2>1. w \in Int /\ w \div 4 = 100 * (era + 1) /\ w \div 100 = 4 * (era + 1) /\ w \div 400 = era + 1
    BY SMT
  <2>2. MarchFirst(w) = 146097 * (era + 1)
    BY <2>1, SMT DEF MarchFirst
  <2>3. 400 * era + y + 1 = w
    BY <1>2, SMT
  <2>4. YearStart(y + 1) = 146097
    BY <1>2, SMT DEF YearStart
  <2> HIDE DEF w
  <2> QED
    BY <1>1, <2>2, <2>3, <2>4, SMT
<1>3. CASE y # 399
  <2>1. y + 1 \in Nat /\ y + 1 <= 399 /\ 400 * era + y + 1 = 400 * era + (y + 1)
    BY <1>3, SMT
  <2>2. MarchFirst(400 * era + (y + 1)) = 146097 * era + YearStart(y + 1)
    BY <1>1, <2>1, SMT
  <2> QED
    BY <1>1, <2>1, <2>2, SMT
<1> QED
  BY <1>2, <1>3, SMT

LEMMA MonthFirstIs ==
    ASSUME NEW y \in Int, NEW k \in Nat, k <= 11, NEW i \in Int, i = 12 * y + k + 2
    PROVE  /\ MonthFirst(i) = MarchFirst(y) + MonthStart(k)
           /\ MarchFirst(y) \in Int /\ MonthStart(k) \in Nat
<1>1. MarchFirst(y) \in Int /\ MonthStart(k) \in Nat
  BY SMT DEF MarchFirst, MonthStart
<1>2. CASE k <= 9
  <2>1. i \div 12 = y /\ (i % 12) + 1 = k + 3
    BY <1>2, SMT
  <2>2. (k + 3 + 9) % 12 = k /\ ~(k + 3 <= 2)
    BY <1>2, SMT
  <2>3. DayNumber(y, k + 3, 1) = MarchFirst(y) + MonthStart(k)
    BY <1>1, <2>2, SMT DEF DayNumber, MarchFirst, MonthStart
  <2>4. MonthFirst(i) = DayNumber(y, k + 3, 1)
    BY <2>1, SMT DEF MonthFirst
  <2> QED
    BY <1>1, <2>3, <2>4, SMT
<1>3. CASE ~(k <= 9)
  <2>1. i \div 12 = y + 1 /\ (i % 12) + 1 = k - 9
    BY <1>3, SMT
  <2>2. (k - 9 + 9) % 12 = k /\ k - 9 <= 2 /\ y + 1 - 1 = y
    BY <1>3, SMT
  <2>3. DayNumber(y + 1, k - 9, 1) = MarchFirst(y) + MonthStart(k)
    BY <1>1, <2>2, SMT DEF DayNumber, MarchFirst, MonthStart
  <2>4. MonthFirst(i) = DayNumber(y + 1, k - 9, 1)
    BY <2>1, SMT DEF MonthFirst
  <2> QED
    BY <1>1, <2>3, <2>4, SMT
<1> QED
  BY <1>2, <1>3, SMT

LEMMA YearIsOfEra ==
    ASSUME NEW n \in Int
    PROVE  LET era == n \div 146097
               doe == n % 146097
           IN  era \in Int /\ doe \in Int /\ 0 <= doe /\ doe <= 146096 /\ n = 146097 * era + doe
BY SMT

\* A date is one of the month of its day, and its day the one of that month.
LEMMA DateIs ==
    ASSUME NEW n \in Int
    PROVE  LET date == Date(n)
               i    == MonthIndex(date.y, date.m)
           IN  /\ date.y \in Int /\ date.m \in Int /\ 1 <= date.m /\ date.m <= 12
               /\ MonthFirst(i) <= n /\ n < MonthFirst(i + 1)
               /\ date.d = n - MonthFirst(i) + 1
<1> DEFINE era == n \div 146097
           doe == n % 146097
           yoe == YearOfEra(doe)
           doy == doe - (365 * yoe + yoe \div 4 - yoe \div 100)
           mp  == (5 * doy + 2) \div 153
           m   == IF mp < 10 THEN mp + 3 ELSE mp - 9
           y   == yoe + 400 * era + (IF m <= 2 THEN 1 ELSE 0)
           d   == doy - ((153 * mp + 2) \div 5) + 1
           Y   == 400 * era + yoe
<1>1. Date(n) = [y |-> y, m |-> m, d |-> d]
  BY SMT DEF Date, YearOfEra
<1>2. era \in Int /\ doe \in Int /\ 0 <= doe /\ doe <= 146096 /\ n = 146097 * era + doe
  BY YearIsOfEra, SMT
<1> HIDE DEF era, doe
<1>3. yoe \in Nat /\ yoe <= 399 /\ YearStart(yoe) <= doe /\ doe < YearStart(yoe + 1)
  BY <1>2, EraHasYears, SMT
<1> HIDE DEF yoe
<1>4. doy = doe - YearStart(yoe) /\ YearStart(yoe) \in Int /\ YearStart(yoe + 1) \in Int
  BY <1>3, SMT DEF YearStart
<1>5. YearStart(yoe + 1) - YearStart(yoe) <= 366
  BY <1>3, SMT DEF YearStart
<1>6. doy \in Int /\ 0 <= doy /\ doy <= 365 /\ doe = YearStart(yoe) + doy
  BY <1>2, <1>3, <1>4, <1>5, SMT
<1>7. /\ MarchFirst(Y) = 146097 * era + YearStart(yoe)
      /\ MarchFirst(Y + 1) = 146097 * era + YearStart(yoe + 1)
  BY <1>2, <1>3, EraRepeats, SMT
<1>8. Y \in Int
  BY <1>2, <1>3, SMT
<1> HIDE DEF doy
<1>9. n = MarchFirst(Y) + doy /\ n < MarchFirst(Y + 1) /\ MarchFirst(Y) \in Int
  BY <1>2, <1>3, <1>4, <1>6, <1>7, SMT
<1>10. /\ mp \in Nat /\ mp <= 11
       /\ MonthStart(mp) <= doy /\ doy < MonthStart(mp + 1) /\ MonthStart(mp) \in Int
       /\ d = doy - MonthStart(mp) + 1
  BY <1>6, SMT DEF MonthStart
<1> HIDE DEF mp, d
<1>11. m \in Int /\ 1 <= m /\ m <= 12 /\ y \in Int
       /\ MonthIndex(y, m) \in Int /\ MonthIndex(y, m) = 12 * Y + mp + 2
  BY <1>2, <1>3, <1>10, SMT DEF MonthIndex
<1> HIDE DEF m, y, Y
<1>12. MonthFirst(MonthIndex(y, m)) = MarchFirst(Y) + MonthStart(mp)
  BY <1>8, <1>10, <1>11, MonthFirstIs, SMT
<1>13. n < MonthFirst(MonthIndex(y, m) + 1)
  <2>1. CASE mp = 11
    <3>1. /\ MonthIndex(y, m) + 1 = 12 * (Y + 1) + 0 + 2
          /\ Y + 1 \in Int /\ MonthIndex(y, m) + 1 \in Int /\ 0 \in Nat /\ 0 <= 11
      BY <1>8, <1>11, <2>1, SMT
    <3>2. MonthFirst(MonthIndex(y, m) + 1) = MarchFirst(Y + 1) + MonthStart(0) /\ MarchFirst(Y + 1) \in Int
      <4> DEFINE i == MonthIndex(y, m) + 1
                 z == Y + 1
                 k == 0
      <4>1. z \in Int /\ k \in Nat /\ k <= 11 /\ i \in Int /\ i = 12 * z + k + 2
        BY <3>1, SMT
      <4> HIDE DEF i, z, k
      <4>2. MonthFirst(i) = MarchFirst(z) + MonthStart(k) /\ MarchFirst(z) \in Int
        BY ONLY <4>1, MonthFirstIs, SMT
      <4> QED
        BY <4>2, SMT DEF i, z, k
    <3>3. MonthStart(0) = 0
      BY SMT DEF MonthStart
    <3> QED
      BY <1>9, <3>1, <3>2, <3>3, SMT
  <2>2. CASE mp # 11
    <3>1. /\ MonthIndex(y, m) + 1 = 12 * Y + (mp + 1) + 2
          /\ mp + 1 \in Nat /\ mp + 1 <= 11 /\ MonthIndex(y, m) + 1 \in Int
      BY <1>8, <1>10, <1>11, <2>2, SMT
    <3>2. MonthFirst(MonthIndex(y, m) + 1) = MarchFirst(Y) + MonthStart(mp + 1) /\ MonthStart(mp + 1) \in Nat
      <4> DEFINE i == MonthIndex(y, m) + 1
                 k == mp + 1
      <4>1. Y \in Int /\ k \in Nat /\ k <= 11 /\ i \in Int /\ i = 12 * Y + k + 2
        BY <1>8, <3>1, SMT
      <4> HIDE DEF i, k
      <4>2. MonthFirst(i) = MarchFirst(Y) + MonthStart(k) /\ MonthStart(k) \in Nat
        BY ONLY <4>1, MonthFirstIs, SMT
      <4> QED
        BY <4>2, SMT DEF i, k
    <3> QED
      BY <1>6, <1>9, <1>10, <3>1, <3>2, SMT
  <2> QED
    BY <2>1, <2>2, SMT
<1>14. MonthFirst(MonthIndex(y, m)) <= n /\ d = n - MonthFirst(MonthIndex(y, m)) + 1
  BY <1>6, <1>9, <1>10, <1>12, SMT
<1> QED
  BY <1>1, <1>11, <1>13, <1>14, SMT

LEMMA MonthsFollow ==
    ASSUME NEW i \in Int, NEW j \in Int, i <= j
    PROVE  MonthFirst(i) \in Int /\ MonthFirst(j) \in Int /\ MonthFirst(i) <= MonthFirst(j)
<1>1. MonthFirst(i) \in Int /\ MonthFirst(j) \in Int
  BY SMT DEF MonthFirst, DayNumber
<1> QED
  BY <1>1, MonthsRise DEF MonthFirst

\* A day is of one month only.
LEMMA MonthOfDay ==
    ASSUME NEW n \in Int, NEW i \in Int
    PROVE  MonthIndex(Date(n).y, Date(n).m) = i <=> MonthFirst(i) <= n /\ n < MonthFirst(i + 1)
<1> DEFINE j == MonthIndex(Date(n).y, Date(n).m)
<1>1. Date(n).y \in Int /\ Date(n).m \in Int /\ 1 <= Date(n).m /\ Date(n).m <= 12
      /\ MonthFirst(j) <= n /\ n < MonthFirst(j + 1)
  BY DateIs
<1>2. j \in Int
  BY <1>1, MonthOfIndex, Zenon
<1> HIDE DEF j
<1>3. ASSUME j < i, MonthFirst(i) <= n
      PROVE  FALSE
  <2>1. j + 1 \in Int /\ j + 1 <= i
    BY <1>2, <1>3
  <2>2. MonthFirst(j + 1) <= MonthFirst(i) /\ MonthFirst(j + 1) \in Int /\ MonthFirst(i) \in Int
    BY <2>1, MonthsFollow
  <2> QED
    BY <1>1, <1>3, <2>2
<1>4. ASSUME i < j, n < MonthFirst(i + 1)
      PROVE  FALSE
  <2>1. i + 1 \in Int /\ i + 1 <= j
    BY <1>2, <1>4
  <2>2. MonthFirst(i + 1) <= MonthFirst(j) /\ MonthFirst(i + 1) \in Int /\ MonthFirst(j) \in Int
    BY <1>2, <2>1, MonthsFollow
  <2> QED
    BY <1>1, <1>4, <2>2
<1>5. j = i <=> MonthFirst(i) <= n /\ n < MonthFirst(i + 1)
  BY <1>1, <1>2, <1>3, <1>4
<1> QED
  BY <1>5 DEF j

LEMMA YearFirstIs ==
    ASSUME NEW y \in Int
    PROVE  MonthFirst(12 * y) = DayNumber(y, 1, 1) /\ DayNumber(y, 1, 1) \in Int
<1>1. (12 * y) \div 12 = y /\ ((12 * y) % 12) + 1 = 1
  BY SMT
<1>2. DayNumber(y, 1, 1) \in Int
  BY SMT DEF DayNumber
<1> QED
  BY <1>1, <1>2, SMT DEF MonthFirst

LEMMA YearOfDay ==
    ASSUME NEW n \in Int, NEW y \in Int
    PROVE  Date(n).y = y <=> DayNumber(y, 1, 1) <= n /\ n < DayNumber(y + 1, 1, 1)
<1> DEFINE z == Date(n).y
           m == Date(n).m
           j == MonthIndex(z, m)
<1>1. z \in Int /\ m \in Int /\ 1 <= m /\ m <= 12 /\ MonthFirst(j) <= n /\ n < MonthFirst(j + 1)
  BY DateIs
<1>2. j \in Int /\ 12 * z <= j /\ j + 1 <= 12 * (z + 1) /\ 12 * z \in Int /\ 12 * (z + 1) \in Int /\ j + 1 \in Int
  BY <1>1, SMT DEF MonthIndex
<1> HIDE DEF j
<1>3. MonthFirst(12 * z) = DayNumber(z, 1, 1) /\ MonthFirst(12 * (z + 1)) = DayNumber(z + 1, 1, 1)
  BY <1>1, YearFirstIs
<1>4. /\ MonthFirst(12 * z) <= MonthFirst(j) /\ MonthFirst(j + 1) <= MonthFirst(12 * (z + 1))
      /\ MonthFirst(12 * z) \in Int /\ MonthFirst(j) \in Int
      /\ MonthFirst(12 * (z + 1)) \in Int /\ MonthFirst(j + 1) \in Int
  BY <1>2, MonthsFollow
<1> HIDE DEF z, m
<1>5. DayNumber(z, 1, 1) <= n /\ n < DayNumber(z + 1, 1, 1)
  BY <1>1, <1>3, <1>4
<1>6. ASSUME z < y, DayNumber(y, 1, 1) <= n
      PROVE  FALSE
  <2>1. z + 1 \in Int /\ z + 1 <= y
    BY <1>1, <1>6
  <2>2. DayNumber(z + 1, 1, 1) <= DayNumber(y, 1, 1)
    BY <2>1, YearsRise
  <2>3. DayNumber(z + 1, 1, 1) \in Int /\ DayNumber(y, 1, 1) \in Int
    BY <2>1, YearFirstIs
  <2> QED
    BY <1>5, <1>6, <2>2, <2>3
<1>7. ASSUME y < z, n < DayNumber(y + 1, 1, 1)
      PROVE  FALSE
  <2>1. y + 1 \in Int /\ y + 1 <= z
    BY <1>1, <1>7
  <2>2. DayNumber(y + 1, 1, 1) <= DayNumber(z, 1, 1)
    BY <1>1, <2>1, YearsRise
  <2>3. DayNumber(y + 1, 1, 1) \in Int /\ DayNumber(z, 1, 1) \in Int
    BY <1>1, <2>1, YearFirstIs
  <2> QED
    BY <1>5, <1>7, <2>2, <2>3
<1>8. z = y <=> DayNumber(y, 1, 1) <= n /\ n < DayNumber(y + 1, 1, 1)
  BY <1>1, <1>5, <1>6, <1>7
<1> QED
  BY <1>8 DEF z

LEMMA DaysOfMonth ==
    ASSUME NEW y \in Int, NEW m \in 1..12
    PROVE  /\ DaysIn(y, m) \in Nat
           /\ MonthFirst(MonthIndex(y, m) + 1) = MonthFirst(MonthIndex(y, m)) + DaysIn(y, m)
           /\ \A d \in Int : DayNumber(y, m, d) = MonthFirst(MonthIndex(y, m)) + d - 1
           /\ MonthFirst(MonthIndex(y, m)) \in Int /\ MonthIndex(y, m) \in Int
<1>1. MonthIndex(y, m) \in Int /\ MonthFirst(MonthIndex(y, m)) = DayNumber(y, m, 1)
  <2>1. m \in Int /\ 1 <= m /\ m <= 12
    OBVIOUS
  <2> QED
    BY <2>1, MonthOfIndex
<1>2. DayNumber(y, m, 1) \in Int /\ \A d \in Int : DayNumber(y, m, d) = DayNumber(y, m, 1) + d - 1
  BY SMT DEF DayNumber
<1>3. MonthFirst(MonthIndex(y, m) + 1) = DayNumber(y, m, 1) + DaysIn(y, m) /\ DaysIn(y, m) \in Int
  <2>1. CASE m = 12
    <3>1. MonthIndex(y, m) + 1 = 12 * (y + 1)
      BY <2>1, SMT DEF MonthIndex
    <3>2. MonthFirst(12 * (y + 1)) = DayNumber(y + 1, 1, 1)
      BY YearFirstIs
    <3>3. DayNumber(y + 1, 1, 1) = DayNumber(y, 12, 1) + 31
      BY SMT DEF DayNumber
    <3> QED
      BY <1>2, <2>1, <3>1, <3>2, <3>3 DEF DaysIn
  <2>2. CASE m # 12
    <3>1. m + 1 \in Int /\ 1 <= m + 1 /\ m + 1 <= 12 /\ MonthIndex(y, m) + 1 = MonthIndex(y, m + 1)
      BY <2>2, SMT DEF MonthIndex
    <3>2. MonthFirst(MonthIndex(y, m + 1)) = DayNumber(y, m + 1, 1)
      BY <3>1, MonthOfIndex
    <3>3. DaysIn(y, m) = DayNumber(y, m + 1, 1) - DayNumber(y, m, 1) /\ DayNumber(y, m + 1, 1) \in Int
      BY <2>2, <3>1, SMT DEF DaysIn, DayNumber
    <3> QED
      BY <1>2, <3>1, <3>2, <3>3
  <2> QED
    BY <2>1, <2>2
<1>4. MonthFirst(MonthIndex(y, m)) <= MonthFirst(MonthIndex(y, m) + 1)
  <2>1. MonthIndex(y, m) + 1 \in Int /\ MonthIndex(y, m) <= MonthIndex(y, m) + 1
    BY <1>1
  <2> QED
    BY <1>1, <2>1, MonthsFollow
<1> QED
  BY <1>1, <1>2, <1>3, <1>4

\* A date is the one of its day.
LEMMA DateOfDay ==
    ASSUME NEW y \in Int, NEW m \in 1..12, NEW d \in 1..DaysIn(y, m), NEW x \in Int
    PROVE  x = DayNumber(y, m, d) <=> Date(x).y = y /\ Date(x).m = m /\ Date(x).d = d
<1> DEFINE i == MonthIndex(y, m)
           j == MonthIndex(Date(x).y, Date(x).m)
           n == DaysIn(y, m)
<1>1. /\ n \in Nat /\ MonthFirst(i + 1) = MonthFirst(i) + n /\ MonthFirst(i) \in Int /\ i \in Int
      /\ \A e \in Int : DayNumber(y, m, e) = MonthFirst(i) + e - 1
  BY DaysOfMonth, Zenon
<1>2. /\ Date(x).y \in Int /\ Date(x).m \in Int /\ 1 <= Date(x).m /\ Date(x).m <= 12
      /\ Date(x).d = x - MonthFirst(j) + 1
  BY DateIs
<1>3. j = i <=> Date(x).y = y /\ Date(x).m = m
  BY <1>2, SMT DEF MonthIndex
<1>4. j = i <=> MonthFirst(i) <= x /\ x < MonthFirst(i + 1)
  BY <1>1, MonthOfDay, Zenon
<1> HIDE DEF i, j, n
<1>5. d \in 1..n
  BY DEF n
<1>6. d \in Int /\ 1 <= d /\ d <= n
  BY <1>1, <1>5
<1>7. DayNumber(y, m, d) = MonthFirst(i) + d - 1
  BY <1>1, <1>6
<1>8. x = DayNumber(y, m, d) <=> j = i /\ Date(x).d = d
  BY <1>1, <1>2, <1>4, <1>6, <1>7
<1> QED
  BY <1>3, <1>8

LEMMA DayOfDate ==
    ASSUME NEW x \in Int
    PROVE  /\ Date(x).y \in Int /\ Date(x).m \in 1..12
           /\ DaysIn(Date(x).y, Date(x).m) \in Nat
           /\ Date(x).d \in 1..DaysIn(Date(x).y, Date(x).m)
           /\ x = DayNumber(Date(x).y, Date(x).m, Date(x).d)
<1> DEFINE y == Date(x).y
           m == Date(x).m
           i == MonthIndex(y, m)
<1>1. /\ y \in Int /\ m \in 1..12 /\ MonthFirst(i) <= x /\ x < MonthFirst(i + 1) /\ Date(x).d = x - MonthFirst(i) + 1
  <2>1. /\ y \in Int /\ m \in Int /\ 1 <= m /\ m <= 12 /\ MonthFirst(i) <= x /\ x < MonthFirst(i + 1)
        /\ Date(x).d = x - MonthFirst(i) + 1
    BY DateIs
  <2> QED
    BY <2>1
<1> HIDE DEF y, m
<1>2. /\ DaysIn(y, m) \in Nat /\ MonthFirst(i + 1) = MonthFirst(i) + DaysIn(y, m) /\ MonthFirst(i) \in Int
      /\ \A d \in Int : DayNumber(y, m, d) = MonthFirst(i) + d - 1
  BY <1>1, DaysOfMonth, Zenon
<1> HIDE DEF i
<1>3. Date(x).d \in 1..DaysIn(y, m) /\ x = DayNumber(y, m, Date(x).d)
  BY <1>1, <1>2
<1> QED
  BY <1>1, <1>2, <1>3 DEF y, m

-----------------------------------------------------------------------------
(* The days of a month that the parts of a rule pick.                        *)

LEMMA CountedBy ==
    ASSUME NEW k \in Nat, NEW S, NEW f \in [1..k -> S],
           \A i, j \in 1..k : f[i] = f[j] => i = j, \A s \in S : \E i \in 1..k : f[i] = s
    PROVE  Cardinality(S) = k
<1>1. f \in Bijection(1..k, S)
  BY DEF Bijection, Injection, Surjection, IsInjective
<1>2. ExistsBijection(1..k, S)
  BY <1>1 DEF ExistsBijection
<1>3. IsFiniteSet(1..k) /\ Cardinality(1..k) = k
  <2>1. IsFiniteSet(1..k) /\ Cardinality(1..k) = IF 1 > k THEN 0 ELSE k - 1 + 1
    BY FS_Interval
  <2> QED
    BY <2>1
<1> QED
  BY <1>2, <1>3, FS_Bijection

\* How many of the days up to the d-th, or from it to the n-th, are whole weeks from it.
LEMMA WeeksBefore ==
    ASSUME NEW d \in Nat \ {0}
    PROVE  Cardinality({e \in 1..d : (d - e) % 7 = 0}) = (d + 6) \div 7
<1> DEFINE k == (d + 6) \div 7
           S == {e \in 1..d : (d - e) % 7 = 0}
           f == [j \in 1..k |-> d - 7 * (j - 1)]
<1>1. k \in Nat /\ 7 * (k - 1) <= d - 1 /\ d - 1 < 7 * k
  OBVIOUS
<1> HIDE DEF k
<1>2. ASSUME NEW j \in 1..k
      PROVE  d - 7 * (j - 1) \in S
  BY <1>1, <1>2
<1>3. ASSUME NEW e \in S
      PROVE  \E j \in 1..k : d - 7 * (j - 1) = e
  <2> DEFINE j == (d - e) \div 7 + 1
  <2>1. e \in Int /\ 1 <= e /\ e <= d /\ (d - e) % 7 = 0
    OBVIOUS
  <2>2. j \in Int /\ d - 7 * (j - 1) = e /\ 1 <= j
    BY <2>1
  <2> HIDE DEF j
  <2>3. j \in 1..k
    BY <1>1, <2>1, <2>2
  <2> QED
    BY <2>2, <2>3
<1> HIDE DEF S
<1>4. \A i, j \in 1..k : d - 7 * (i - 1) = d - 7 * (j - 1) => i = j
  OBVIOUS
<1>5. f \in [1..k -> S]
  BY <1>2
<1>6. \A i, j \in 1..k : f[i] = f[j] => i = j
  BY <1>4
<1>7. \A s \in S : \E i \in 1..k : f[i] = s
  BY <1>3
<1> HIDE DEF f
<1>8. Cardinality(S) = k
  BY <1>1, <1>5, <1>6, <1>7, CountedBy
<1> QED
  BY <1>8 DEF k, S

LEMMA WeeksAfter ==
    ASSUME NEW n \in Nat, NEW d \in 1..n
    PROVE  Cardinality({e \in d..n : (e - d) % 7 = 0}) = (n - d + 7) \div 7
<1> DEFINE k == (n - d + 7) \div 7
           S == {e \in d..n : (e - d) % 7 = 0}
           f == [j \in 1..k |-> d + 7 * (j - 1)]
<1>1. k \in Nat /\ 7 * (k - 1) <= n - d /\ n - d < 7 * k
  OBVIOUS
<1> HIDE DEF k
<1>2. ASSUME NEW j \in 1..k
      PROVE  d + 7 * (j - 1) \in S
  BY <1>1, <1>2
<1>3. ASSUME NEW e \in S
      PROVE  \E j \in 1..k : d + 7 * (j - 1) = e
  <2> DEFINE j == (e - d) \div 7 + 1
  <2>1. e \in Int /\ d <= e /\ e <= n /\ (e - d) % 7 = 0
    OBVIOUS
  <2>2. j \in Int /\ d + 7 * (j - 1) = e /\ 1 <= j
    BY <2>1
  <2> HIDE DEF j
  <2>3. j \in 1..k
    BY <1>1, <2>1, <2>2
  <2> QED
    BY <2>2, <2>3
<1> HIDE DEF S
<1>4. \A i, j \in 1..k : d + 7 * (i - 1) = d + 7 * (j - 1) => i = j
  OBVIOUS
<1>5. f \in [1..k -> S]
  BY <1>2
<1>6. \A i, j \in 1..k : f[i] = f[j] => i = j
  BY <1>4
<1>7. \A s \in S : \E i \in 1..k : f[i] = s
  BY <1>3
<1> HIDE DEF f
<1>8. Cardinality(S) = k
  BY <1>1, <1>5, <1>6, <1>7, CountedBy
<1> QED
  BY <1>8 DEF k, S

\* The ordinals of a day are its places among the days of its month that are the same weekday.
LEMMA PlacesOfDay ==
    ASSUME NEW y \in Int, NEW m \in 1..12, NEW d \in 1..DaysIn(y, m)
    PROVE  LET n  == DaysIn(y, m)
               on == {e \in 1..n : Weekday(DayNumber(y, m, e)) = Weekday(DayNumber(y, m, d))}
           IN  Place(on, d) = (d + 6) \div 7 /\ PlaceFromLast(on, d) = (n - d + 7) \div 7
<1> DEFINE n  == DaysIn(y, m)
           on == {e \in 1..n : Weekday(DayNumber(y, m, e)) = Weekday(DayNumber(y, m, d))}
           F  == MonthFirst(MonthIndex(y, m))
<1>1. n \in Nat /\ F \in Int /\ \A e \in Int : DayNumber(y, m, e) = F + e - 1
  BY DaysOfMonth, Zenon
<1> HIDE DEF n, F
<1>2. d \in Int /\ 1 <= d /\ d <= n
  BY <1>1 DEF n
<1>3. ASSUME NEW e \in 1..n
      PROVE  /\ e \in on <=> (d - e) % 7 = 0
             /\ e \in on <=> (e - d) % 7 = 0
  <2>1. e \in Int
    BY <1>1
  <2>2. e \in on <=> (F + e - 1 + 3) % 7 = (F + d - 1 + 3) % 7
    BY <1>1, <1>2, <2>1 DEF Weekday
  <2>3. (F + e - 1 + 3) % 7 = (F + d - 1 + 3) % 7 <=> (d - e) % 7 = 0
    BY <1>1, <1>2, <2>1
  <2>4. (d - e) % 7 = 0 <=> (e - d) % 7 = 0
    BY <1>1, <1>2, <2>1
  <2> QED
    BY <2>2, <2>3, <2>4
<1>4. on \subseteq 1..n
  OBVIOUS
<1> HIDE DEF on
<1>5. {e \in on : e <= d} = {e \in 1..d : (d - e) % 7 = 0}
  <2>1. \A e : e \in 1..n /\ e <= d <=> e \in 1..d
    BY <1>1, <1>2
  <2> QED
    BY <1>3, <1>4, <2>1, Zenon
<1>6. {e \in on : e >= d} = {e \in d..n : (e - d) % 7 = 0}
  <2>1. \A e : e \in 1..n /\ e >= d <=> e \in d..n
    BY <1>1, <1>2
  <2> QED
    BY <1>3, <1>4, <2>1, Zenon
<1>7. Place(on, d) = (d + 6) \div 7
  BY <1>2, <1>5, WeeksBefore DEF Place
<1>8. PlaceFromLast(on, d) = (n - d + 7) \div 7
  <2>1. d \in 1..n
    BY DEF n
  <2>2. Cardinality({e \in d..n : (e - d) % 7 = 0}) = (n - d + 7) \div 7
    BY <1>1, <2>1, WeeksAfter, Zenon
  <2> QED
    BY <1>6, <2>2, Zenon DEF PlaceFromLast
<1> QED
  BY <1>7, <1>8 DEF on, n

\* A month has the days of the week that a rule asks for where the ordinals of a day say so.
LEMMA ByDaySetIs ==
    ASSUME NEW r, IsRule(r), NEW x \in Int
    PROVE  LET date == Date(x)
           IN  date.d \in ByDaySet(r, date.y, date.m, DaysIn(date.y, date.m)) <=>
                  \E b \in r.byDay : b.wd = Weekday(x) /\ b.ord \in Ordinals(x)
<1> DEFINE y == Date(x).y
           m == Date(x).m
           d == Date(x).d
           n == DaysIn(y, m)
           on(wd) == {e \in 1..n : Weekday(DayNumber(y, m, e)) = wd}
           nth == (d + 6) \div 7
           nthLast == (n - d + 7) \div 7
<1>1. y \in Int /\ m \in 1..12 /\ n \in Nat /\ d \in 1..n /\ x = DayNumber(y, m, d)
  BY DayOfDate
<1>2. Ordinals(x) = {0, nth, -nthLast}
  BY DEF Ordinals
<1>3. d \in ByDaySet(r, y, m, n) <=>
        \E b \in r.byDay : d \in (IF b.ord = 0 THEN on(b.wd) ELSE InPlace(on(b.wd), b.ord))
  BY Zenon DEF ByDaySet
<1>4. Place(on(Weekday(x)), d) = nth /\ PlaceFromLast(on(Weekday(x)), d) = nthLast
  <2> HIDE DEF y, m, d
  <2> QED
    BY <1>1, PlacesOfDay
<1> HIDE DEF y, m, d, n
<1>5. nth \in Int /\ 1 <= nth /\ nthLast \in Int /\ 1 <= nthLast
  BY <1>1
<1>6. ASSUME NEW b \in r.byDay
      PROVE  d \in (IF b.ord = 0 THEN on(b.wd) ELSE InPlace(on(b.wd), b.ord))
                <=> b.wd = Weekday(x) /\ b.ord \in {0, nth, -nthLast}
  <2>1. b.ord \in -53..53
    BY DEF IsRule
  <2>2. b.ord \in Int
    BY <2>1
  <2>3. d \in on(b.wd) <=> b.wd = Weekday(x)
    BY <1>1
  <2> HIDE DEF on, nth, nthLast
  <2>4. d \in InPlace(on(b.wd), b.ord) <=>
          d \in on(b.wd) /\ (Place(on(b.wd), d) = b.ord \/ PlaceFromLast(on(b.wd), d) = -b.ord)
    BY DEF InPlace
  <2>5. nthLast = -b.ord <=> b.ord = -nthLast
    BY <1>5, <2>2
  <2>6. nth # 0 /\ -nthLast # 0
    BY <1>5
  <2> QED
    BY <1>4, <2>3, <2>4, <2>5, <2>6
<1> HIDE DEF on, nth, nthLast
<1>7. d \in ByDaySet(r, y, m, n) <=> \E b \in r.byDay : b.wd = Weekday(x) /\ b.ord \in Ordinals(x)
  BY <1>2, <1>3, <1>6
<1> QED
  BY <1>7 DEF n, y, m, d

LEMMA MonthDaySetIs ==
    ASSUME NEW n \in Nat, NEW days, days \subseteq (-31..31) \ {0}, NEW d \in 1..n
    PROVE  d \in MonthDaySet(n, days) <=> d \in days \/ d - n - 1 \in days
<1>1. d \in MonthDaySet(n, days) <=> \E b \in days : d = IF b < 0 THEN n + 1 + b ELSE b
  BY DEF MonthDaySet
<1>2. ASSUME NEW b \in days
      PROVE  d = (IF b < 0 THEN n + 1 + b ELSE b) <=> b = d \/ b = d - n - 1
  <2>1. b \in Int /\ b # 0
    BY <1>2
  <2> QED
    BY <2>1
<1> QED
  BY <1>1, <1>2

\* What the parts of a rule say of a day within its month, if it starts on startDay of one.
FitsMonth(r, startDay, x) ==
    LET date == Date(x)
    IN  /\ r.byMonthDay # {} =>
              date.d \in r.byMonthDay \/ date.d - DaysIn(date.y, date.m) - 1 \in r.byMonthDay
        /\ r.byDay # {} => \E b \in r.byDay : b.wd = Weekday(x) /\ b.ord \in Ordinals(x)
        /\ r.byDay = {} /\ r.byMonthDay = {} => date.d = startDay

LEMMA CandidatesFit ==
    ASSUME NEW r, IsRule(r), NEW y \in Int, NEW m \in 1..12, NEW startDay \in Int, NEW x \in Int
    PROVE  x \in MonthCandidates(r, y, m, startDay) <=>
              Date(x).y = y /\ Date(x).m = m /\ FitsMonth(r, startDay, x)
<1> DEFINE n == DaysIn(y, m)
           D == MonthDays(r, y, m, startDay)
           d == Date(x).d
<1>1. n \in Nat
  BY DaysOfMonth, Zenon
<1> HIDE DEF n
<1>2. MonthDaySet(n, r.byMonthDay) \subseteq 1..n /\ ByDaySet(r, y, m, n) \subseteq 1..n
  BY Zenon DEF MonthDaySet, ByDaySet, InPlace
<1>3. /\ r.byMonthDay # {} /\ r.byDay # {} => D = MonthDaySet(n, r.byMonthDay) \cap ByDaySet(r, y, m, n)
      /\ r.byMonthDay # {} /\ r.byDay = {} => D = MonthDaySet(n, r.byMonthDay)
      /\ r.byMonthDay = {} /\ r.byDay # {} => D = ByDaySet(r, y, m, n)
      /\ r.byMonthDay = {} /\ r.byDay = {} => D = {startDay} \cap 1..n
  BY DEF MonthDays, n
<1>4. D \in SUBSET (1..n)
  <2> HIDE DEF D
  <2> QED
    BY <1>2, <1>3
<1>5. x \in MonthCandidates(r, y, m, startDay) <=> Date(x).y = y /\ Date(x).m = m /\ d \in D
  <2>1. x \in MonthCandidates(r, y, m, startDay) <=> \E e \in D : x = DayNumber(y, m, e)
    BY DEF MonthCandidates
  <2> HIDE DEF D
  <2>2. ASSUME NEW e \in D
        PROVE  x = DayNumber(y, m, e) <=> Date(x).y = y /\ Date(x).m = m /\ d = e
    <3>1. e \in 1..DaysIn(y, m)
      BY <1>4 DEF n
    <3> QED
      BY <3>1, DateOfDay
  <2> QED
    BY <2>1, <2>2
<1>6. ASSUME Date(x).y = y, Date(x).m = m
      PROVE  d \in D <=> FitsMonth(r, startDay, x)
  <2>1. d \in 1..n
    BY <1>6, DayOfDate DEF n
  <2>2. d \in ByDaySet(r, y, m, n) <=> \E b \in r.byDay : b.wd = Weekday(x) /\ b.ord \in Ordinals(x)
    BY <1>6, ByDaySetIs DEF n
  <2>3. d \in MonthDaySet(n, r.byMonthDay) <=> d \in r.byMonthDay \/ d - n - 1 \in r.byMonthDay
    <3>1. r.byMonthDay \subseteq (-31..31) \ {0}
      BY DEF IsRule
    <3> HIDE DEF d
    <3> QED
      BY <1>1, <2>1, <3>1, MonthDaySetIs
  <2>4. FitsMonth(r, startDay, x) <=>
           /\ r.byMonthDay # {} => d \in r.byMonthDay \/ d - n - 1 \in r.byMonthDay
           /\ r.byDay # {} => \E b \in r.byDay : b.wd = Weekday(x) /\ b.ord \in Ordinals(x)
           /\ r.byDay = {} /\ r.byMonthDay = {} => d = startDay
    BY <1>6 DEF FitsMonth, n
  <2> HIDE DEF D, d
  <2> QED
    BY <1>3, <2>1, <2>2, <2>3, <2>4
<1> QED
  BY <1>5, <1>6

-----------------------------------------------------------------------------
(* Units: the days, weeks, months and years that periods are made of.        *)

LEMMA WeekIs ==
    ASSUME NEW d \in Int, NEW w \in 0..6
    PROVE  /\ StartOfWeek(d, w) \in Int /\ StartOfWeek(d, w) <= d /\ d <= StartOfWeek(d, w) + 6
           /\ (StartOfWeek(d, w) + 3 - w) % 7 = 0
BY DEF StartOfWeek, Weekday

\* The day that the u-th day, week, month or year begins with, from the one of startDay on.
BeginOf(r, startDay, u) ==
    CASE r.freq = "daily"   -> startDay + u
      [] r.freq = "weekly"  -> StartOfWeek(startDay, r.wkst) + 7 * u
      [] r.freq = "monthly" -> MonthFirst(MonthIndex(Date(startDay).y, Date(startDay).m) + u)
      [] r.freq = "yearly"  -> DayNumber(Date(startDay).y + u, 1, 1)

LEMMA RuleParts ==
    ASSUME NEW r, IsRule(r)
    PROVE  /\ r.freq \in {"daily", "weekly", "monthly", "yearly"} /\ r.wkst \in 0..6
           /\ r.interval \in Nat \ {0} /\ r.count \in Nat /\ r.until \in Int
           /\ r.byMonth \subseteq 1..12
BY DEF IsRule, Frequencies

LEMMA StartIsDate ==
    ASSUME NEW startDay \in Int
    PROVE  /\ Date(startDay).y \in Int /\ Date(startDay).m \in 1..12 /\ Date(startDay).d \in Int
           /\ MonthIndex(Date(startDay).y, Date(startDay).m) \in Int
<1>1. Date(startDay).y \in Int /\ Date(startDay).m \in 1..12 /\ Date(startDay).d \in Int
  BY DatesAreNumbers
<1>2. MonthIndex(Date(startDay).y, Date(startDay).m) \in Int
  BY <1>1 DEF MonthIndex
<1> QED
  BY <1>1, <1>2

LEMMA UnitsRise ==
    ASSUME NEW r, IsRule(r), NEW startDay \in Int, NEW u \in Int, NEW v \in Int, u <= v
    PROVE  /\ BeginOf(r, startDay, u) \in Int /\ BeginOf(r, startDay, v) \in Int
           /\ BeginOf(r, startDay, u) <= BeginOf(r, startDay, v)
<1> DEFINE y == Date(startDay).y
           k == MonthIndex(Date(startDay).y, Date(startDay).m)
<1>1. y \in Int /\ k \in Int
  BY StartIsDate
<1>2. StartOfWeek(startDay, r.wkst) \in Int
  BY RuleParts, WeekIs, Zenon
<1> HIDE DEF y, k
<1>3. CASE r.freq = "daily"
  BY <1>3 DEF BeginOf
<1>4. CASE r.freq = "weekly"
  BY <1>2, <1>4 DEF BeginOf
<1>5. CASE r.freq = "monthly"
  <2>1. BeginOf(r, startDay, u) = MonthFirst(k + u) /\ BeginOf(r, startDay, v) = MonthFirst(k + v)
    BY <1>5 DEF BeginOf, k
  <2>2. k + u \in Int /\ k + v \in Int /\ k + u <= k + v
    BY <1>1
  <2> QED
    BY <2>1, <2>2, MonthsFollow
<1>6. CASE r.freq = "yearly"
  <2>1. BeginOf(r, startDay, u) = DayNumber(y + u, 1, 1) /\ BeginOf(r, startDay, v) = DayNumber(y + v, 1, 1)
    BY <1>6 DEF BeginOf, y
  <2>2. y + u \in Int /\ y + v \in Int /\ y + u <= y + v
    BY <1>1
  <2> QED
    BY <2>1, <2>2, YearsRise, YearFirstIs
<1> QED
  BY <1>3, <1>4, <1>5, <1>6, RuleParts

\* PeriodOf is the one of the units that the day lies in.
LEMMA UnitOfDay ==
    ASSUME NEW r, IsRule(r), NEW startDay \in Int, NEW d \in Int, NEW u \in Int
    PROVE  /\ PeriodOf(r, startDay, d) \in Int
           /\ PeriodOf(r, startDay, d) = u <=>
                 BeginOf(r, startDay, u) <= d /\ d < BeginOf(r, startDay, u + 1)
<1> DEFINE y == Date(startDay).y
           k == MonthIndex(Date(startDay).y, Date(startDay).m)
           p == PeriodOf(r, startDay, d)
<1>1. y \in Int /\ k \in Int
  BY StartIsDate
<1>3. CASE r.freq = "daily"
  <2>1. p = d - startDay /\ BeginOf(r, startDay, u) = startDay + u /\ BeginOf(r, startDay, u + 1) = startDay + (u + 1)
    BY <1>3 DEF PeriodOf, BeginOf
  <2> HIDE DEF p
  <2> QED
    BY <2>1 DEF p
<1>4. CASE r.freq = "weekly"
  <2> DEFINE a == StartOfWeek(startDay, r.wkst)
             b == StartOfWeek(d, r.wkst)
             w == r.wkst
  <2>1. w \in 0..6 /\ a \in Int /\ b \in Int /\ b <= d /\ d <= b + 6 /\ (a + 3 - w) % 7 = 0 /\ (b + 3 - w) % 7 = 0
    <3>1. w \in 0..6
      BY RuleParts
    <3> HIDE DEF w
    <3>2. /\ StartOfWeek(startDay, w) \in Int /\ StartOfWeek(d, w) \in Int
          /\ StartOfWeek(d, w) <= d /\ d <= StartOfWeek(d, w) + 6
          /\ (StartOfWeek(startDay, w) + 3 - w) % 7 = 0 /\ (StartOfWeek(d, w) + 3 - w) % 7 = 0
      BY <3>1, WeekIs, Zenon
    <3> QED
      BY <3>1, <3>2 DEF w
  <2>2. p = (b - a) \div 7 /\ BeginOf(r, startDay, u) = a + 7 * u /\ BeginOf(r, startDay, u + 1) = a + 7 * (u + 1)
    BY <1>4 DEF PeriodOf, BeginOf
  <2> HIDE DEF p, a, b, w
  <2>3. p \in Int /\ b = a + 7 * p
    BY <2>1, <2>2
  <2> QED
    BY <2>1, <2>2, <2>3 DEF p
<1>5. CASE r.freq = "monthly"
  <2> DEFINE j == MonthIndex(Date(d).y, Date(d).m)
  <2>1. /\ Date(d).y \in Int /\ Date(d).m \in 1..12 /\ j \in Int
        /\ Date(startDay).m \in 1..12
    BY StartIsDate
  <2>2. p = 12 * (Date(d).y - Date(startDay).y) + Date(d).m - Date(startDay).m
    BY <1>5 DEF PeriodOf
  <2>3. p = j - k
    <3> HIDE DEF p
    <3> DEFINE a == Date(d).y
               b == Date(d).m
               z == Date(startDay).m
    <3>1. a \in Int /\ b \in Int /\ y \in Int /\ z \in Int
      BY <1>1, <2>1
    <3>2. p = 12 * (a - y) + b - z /\ j = MonthIndex(a, b) /\ k = MonthIndex(y, z)
      BY <2>2
    <3> HIDE DEF a, b, y, z, j, k
    <3> QED
      BY ONLY <3>1, <3>2, SMT DEF MonthIndex
  <2>4. BeginOf(r, startDay, u) = MonthFirst(k + u) /\ BeginOf(r, startDay, u + 1) = MonthFirst(k + (u + 1))
    BY <1>5 DEF BeginOf
  <2>5. j = k + u <=> MonthFirst(k + u) <= d /\ d < MonthFirst((k + u) + 1)
    <3> DEFINE i == k + u
    <3>1. i \in Int
      BY <1>1
    <3> HIDE DEF i, k
    <3>2. j = i <=> MonthFirst(i) <= d /\ d < MonthFirst(i + 1)
      BY <3>1, MonthOfDay
    <3> QED
      BY <3>2 DEF i
  <2> HIDE DEF p, j, k
  <2>6. k + (u + 1) = (k + u) + 1 /\ p \in Int /\ (j = k + u <=> p = u)
    BY <1>1, <2>1, <2>3
  <2> QED
    BY <2>4, <2>5, <2>6 DEF p
<1>6. CASE r.freq = "yearly"
  <2>1. p = Date(d).y - y /\ Date(d).y \in Int
    BY <1>6, StartIsDate DEF PeriodOf
  <2>2. BeginOf(r, startDay, u) = DayNumber(y + u, 1, 1) /\ BeginOf(r, startDay, u + 1) = DayNumber(y + (u + 1), 1, 1)
    BY <1>6 DEF BeginOf
  <2>3. Date(d).y = y + u <=> DayNumber(y + u, 1, 1) <= d /\ d < DayNumber((y + u) + 1, 1, 1)
    <3> DEFINE i == y + u
    <3>1. i \in Int
      BY <1>1
    <3> HIDE DEF i
    <3>2. Date(d).y = i <=> DayNumber(i, 1, 1) <= d /\ d < DayNumber(i + 1, 1, 1)
      BY <3>1, YearOfDay
    <3> QED
      BY <3>2 DEF i
  <2> HIDE DEF p, y
  <2>4. y + (u + 1) = (y + u) + 1 /\ p \in Int /\ (Date(d).y = y + u <=> p = u)
    BY <1>1, <2>1
  <2> QED
    BY <2>2, <2>3, <2>4 DEF p
<1> QED
  BY <1>3, <1>4, <1>5, <1>6, RuleParts

LEMMA SpanIs ==
    ASSUME NEW r, IsRule(r), NEW startDay \in Int, NEW d \in Int
    PROVE  LET u == PeriodOf(r, startDay, d)
           IN  SpanOf(r, d) = BeginOf(r, startDay, u)..(BeginOf(r, startDay, u + 1) - 1)
<1> DEFINE u == PeriodOf(r, startDay, d)
           lo == BeginOf(r, startDay, u)
           hi == BeginOf(r, startDay, u + 1)
           k == MonthIndex(Date(startDay).y, Date(startDay).m)
           date == Date(d)
<1>1. u \in Int /\ k \in Int /\ date.y \in Int /\ date.m \in 1..12 /\ date.d \in Int /\ Date(startDay).y \in Int
      /\ Date(startDay).m \in 1..12
  BY UnitOfDay, StartIsDate, Zenon
<1>3. CASE r.freq = "daily"
  <2>1. u = d - startDay /\ lo = startDay + u /\ hi = startDay + (u + 1) /\ SpanOf(r, d) = {d}
    BY <1>3 DEF PeriodOf, BeginOf, SpanOf
  <2> HIDE DEF u, lo, hi
  <2>2. lo = d /\ hi - 1 = d
    BY <2>1
  <2>3. {d} = d..d
    OBVIOUS
  <2> QED
    BY <2>1, <2>2, <2>3 DEF u, lo, hi
<1>4. CASE r.freq = "weekly"
  <2> DEFINE a == StartOfWeek(startDay, r.wkst)
             b == StartOfWeek(d, r.wkst)
             w == r.wkst
  <2>1. w \in 0..6 /\ a \in Int /\ b \in Int /\ (a + 3 - w) % 7 = 0 /\ (b + 3 - w) % 7 = 0
    <3>1. w \in 0..6
      BY RuleParts
    <3> HIDE DEF w
    <3>2. /\ StartOfWeek(startDay, w) \in Int /\ StartOfWeek(d, w) \in Int
          /\ (StartOfWeek(startDay, w) + 3 - w) % 7 = 0 /\ (StartOfWeek(d, w) + 3 - w) % 7 = 0
      BY <3>1, WeekIs, Zenon
    <3> QED
      BY <3>1, <3>2 DEF w
  <2>2. u = (b - a) \div 7 /\ lo = a + 7 * u /\ hi = a + 7 * (u + 1) /\ SpanOf(r, d) = b..(b + 6)
    BY <1>4 DEF PeriodOf, BeginOf, SpanOf
  <2> HIDE DEF u, a, b, w, lo, hi
  <2>3. lo = b /\ hi - 1 = b + 6
    BY <2>1, <2>2
  <2> QED
    BY <2>2, <2>3 DEF u, lo, hi
<1>5. CASE r.freq = "monthly"
  <2> DEFINE j == MonthIndex(date.y, date.m)
             n == DaysIn(date.y, date.m)
  <2>1. u = 12 * (date.y - Date(startDay).y) + date.m - Date(startDay).m
    BY <1>5 DEF PeriodOf
  <2>2. j = k + u /\ j + 1 = k + (u + 1)
    <3>1. u = j - k /\ j \in Int
      <4> DEFINE a == date.y
                 b == date.m
                 y == Date(startDay).y
                 z == Date(startDay).m
      <4> HIDE DEF u
      <4>1. a \in Int /\ b \in Int /\ y \in Int /\ z \in Int
        BY <1>1
      <4>2. u = 12 * (a - y) + b - z /\ j = MonthIndex(a, b) /\ k = MonthIndex(y, z)
        BY <2>1
      <4> HIDE DEF a, b, y, z, j, k
      <4> QED
        BY ONLY <4>1, <4>2, SMT DEF MonthIndex
    <3> HIDE DEF u, j, k
    <3> QED
      BY <1>1, <3>1
  <2>3. lo = MonthFirst(k + u) /\ hi = MonthFirst(k + (u + 1))
    BY <1>5 DEF BeginOf
  <2>4. date.d = d - MonthFirst(j) + 1
    BY DateIs
  <2>5. n \in Nat /\ MonthFirst(j + 1) = MonthFirst(j) + n /\ MonthFirst(j) \in Int
    <3> HIDE DEF date
    <3> QED
      BY <1>1, DaysOfMonth, Zenon
  <2>6. SpanOf(r, d) = (d - date.d + 1)..(d - date.d + n)
    BY <1>5 DEF SpanOf
  <2> HIDE DEF u, lo, hi, j, k, date, n
  <2>7. lo = d - date.d + 1 /\ hi - 1 = d - date.d + n
    BY <1>1, <2>2, <2>3, <2>4, <2>5
  <2> QED
    BY <2>6, <2>7 DEF u, lo, hi
<1>6. CASE r.freq = "yearly"
  <2>1. u = date.y - Date(startDay).y
    BY <1>6 DEF PeriodOf
  <2>2. lo = DayNumber(Date(startDay).y + u, 1, 1) /\ hi = DayNumber(Date(startDay).y + (u + 1), 1, 1)
    BY <1>6 DEF BeginOf
  <2>3. SpanOf(r, d) = DayNumber(date.y, 1, 1)..DayNumber(date.y, 12, 31)
    BY <1>6 DEF SpanOf
  <2> HIDE DEF u, lo, hi, date
  <2>4. Date(startDay).y + u = date.y /\ Date(startDay).y + (u + 1) = date.y + 1
    BY <1>1, <2>1
  <2>5. DayNumber(date.y, 12, 31) = DayNumber(date.y + 1, 1, 1) - 1
    BY <1>1 DEF DayNumber
  <2> QED
    BY <2>2, <2>3, <2>4, <2>5 DEF u, lo, hi
<1> QED
  BY <1>3, <1>4, <1>5, <1>6, RuleParts

\* The candidates of a period are the days of its unit that satisfy the parts of the rule.
LEMMA PeriodIs ==
    ASSUME NEW r, IsRule(r), Parses(r), NEW startDay \in Int, NEW p \in Nat, NEW x \in Int
    PROVE  /\ p * r.interval \in Nat
           /\ Period(r, startDay, p).begins = BeginOf(r, startDay, p * r.interval)
           /\ x \in Period(r, startDay, p).days <=>
                 PeriodOf(r, startDay, x) = p * r.interval /\ Fits(r, startDay, x)
<1> DEFINE u == p * r.interval
           date == Date(x)
           start == Date(startDay)
           k == MonthIndex(start.y, start.m)
           n == DaysIn(date.y, date.m)
<1>0. u \in Nat
  BY RuleParts, PeriodsPass
<1>1. /\ k \in Int /\ date.y \in Int /\ date.m \in 1..12 /\ date.d \in Int
      /\ start.y \in Int /\ start.m \in 1..12 /\ start.d \in Int
  BY StartIsDate
<1>2. n \in Nat /\ date.d \in 1..n
  BY DayOfDate
<1>3. PeriodOf(r, startDay, x) = u <=> BeginOf(r, startDay, u) <= x /\ x < BeginOf(r, startDay, u + 1)
  <2> HIDE DEF u
  <2> QED
    BY <1>0, UnitOfDay
<1>4. date.d \in MonthDaySet(n, r.byMonthDay) <=> date.d \in r.byMonthDay \/ date.d - n - 1 \in r.byMonthDay
  <2>1. r.byMonthDay \subseteq (-31..31) \ {0}
    BY DEF IsRule
  <2> HIDE DEF date, n
  <2> QED
    BY <1>2, <2>1, MonthDaySetIs
<1>5. FitsMonth(r, start.d, x) <=>
        /\ r.byMonthDay # {} => date.d \in r.byMonthDay \/ date.d - n - 1 \in r.byMonthDay
        /\ r.byDay # {} => \E b \in r.byDay : b.wd = Weekday(x) /\ b.ord \in Ordinals(x)
        /\ r.byDay = {} /\ r.byMonthDay = {} => date.d = start.d
  BY DEF FitsMonth
<1>6. Fits(r, startDay, x) <=>
        /\ r.byMonth # {} => date.m \in r.byMonth
        /\ r.byMonthDay # {} => date.d \in r.byMonthDay \/ date.d - n - 1 \in r.byMonthDay
        /\ r.byDay # {} => \E b \in r.byDay : b.wd = Weekday(x) /\ b.ord \in Ordinals(x)
        /\ r.byDay = {} /\ r.freq = "weekly" => Weekday(x) = Weekday(startDay)
        /\ r.byDay = {} /\ r.byMonthDay = {} /\ r.freq \in {"monthly", "yearly"} => date.d = start.d
        /\ r.byMonth = {} /\ r.freq = "yearly" => date.m = start.m
  BY DEF Fits
<1>7. 0 \in Ordinals(x)
  BY DEF Ordinals
<1>8. CASE r.freq = "daily"
  <2>1. \A b \in r.byDay : b.ord = 0
    BY <1>8 DEF Parses
  <2>2. /\ Period(r, startDay, p).begins = startDay + u
        /\ Period(r, startDay, p).days = {d \in {startDay + u} : DayAllowed(r, d)}
        /\ BeginOf(r, startDay, u) = startDay + u
    BY <1>8 DEF Period, BeginOf
  <2>3. DayAllowed(r, x) <=>
           /\ r.byMonth = {} \/ date.m \in r.byMonth
           /\ r.byMonthDay # {} => date.d \in MonthDaySet(n, r.byMonthDay)
           /\ r.byDay # {} => \E b \in r.byDay : b.wd = Weekday(x)
    BY DEF DayAllowed, MonthAllowed
  <2> HIDE DEF u, date, n
  <2>4. DayAllowed(r, x) <=> Fits(r, startDay, x)
    BY <1>4, <1>6, <1>7, <1>8, <2>1, <2>3
  <2>5. PeriodOf(r, startDay, x) = u <=> x = startDay + u
    <3>1. PeriodOf(r, startDay, x) = x - startDay
      BY <1>8 DEF PeriodOf
    <3> QED
      BY <1>0, <3>1
  <2> QED
    BY <1>0, <2>2, <2>4, <2>5 DEF u
<1>9. CASE r.freq = "weekly"
  <2> DEFINE week == StartOfWeek(startDay, r.wkst) + 7 * u
             weekdays == IF r.byDay = {} THEN {Weekday(startDay)} ELSE {b.wd : b \in r.byDay}
  <2>1. (\A b \in r.byDay : b.ord = 0) /\ r.byMonthDay = {}
    BY <1>9 DEF Parses
  <2>2. /\ Period(r, startDay, p).begins = week
        /\ Period(r, startDay, p).days = {d \in week..(week + 6) : /\ Weekday(d) \in weekdays
                                                                 /\ MonthAllowed(r, Date(d).m)}
        /\ BeginOf(r, startDay, u) = week
        /\ BeginOf(r, startDay, u + 1) = StartOfWeek(startDay, r.wkst) + 7 * (u + 1)
    BY <1>9 DEF Period, BeginOf
  <2>3. StartOfWeek(startDay, r.wkst) \in Int
    BY RuleParts, WeekIs, Zenon
  <2>4. week \in Int /\ BeginOf(r, startDay, u + 1) = week + 7
    <3> HIDE DEF u
    <3> QED
      BY <1>0, <2>2, <2>3
  <2>5. MonthAllowed(r, date.m) <=> r.byMonth = {} \/ date.m \in r.byMonth
    BY DEF MonthAllowed
  <2>6. Weekday(x) \in weekdays <=> /\ r.byDay = {} => Weekday(x) = Weekday(startDay)
                                    /\ r.byDay # {} => \E b \in r.byDay : b.wd = Weekday(x)
    OBVIOUS
  <2>7. x \in Period(r, startDay, p).days <=>
           x \in week..(week + 6) /\ Weekday(x) \in weekdays /\ MonthAllowed(r, date.m)
    BY <2>2
  <2> HIDE DEF week, weekdays, u, date, n
  <2>8. Weekday(x) \in weekdays /\ MonthAllowed(r, date.m) <=> Fits(r, startDay, x)
    BY <1>6, <1>7, <1>9, <2>1, <2>5, <2>6
  <2>9. x \in week..(week + 6) <=> PeriodOf(r, startDay, x) = u
    BY <1>3, <2>2, <2>4
  <2> QED
    BY <1>0, <2>2, <2>7, <2>8, <2>9 DEF u
<1>10. CASE r.freq = "monthly"
  <2> DEFINE idx == start.y * 12 + start.m - 1 + u
             y == idx \div 12
             m == (idx % 12) + 1
  <2>1. Period(r, startDay, p) =
           [begins |-> DayNumber(y, m, 1),
            days |-> IF MonthAllowed(r, m) THEN MonthCandidates(r, y, m, start.d) ELSE {}]
    BY <1>10 DEF Period
  <2>2. BeginOf(r, startDay, u) = MonthFirst(k + u)
    BY <1>10 DEF BeginOf
  <2>3. PeriodOf(r, startDay, x) = 12 * (date.y - start.y) + date.m - start.m
    BY <1>10 DEF PeriodOf
  <2>4. idx = k + u /\ idx \in Int
    <3> HIDE DEF u
    <3> QED
      BY <1>0, <1>1 DEF MonthIndex
  <2>5. DayNumber(y, m, 1) = MonthFirst(k + u)
    <3> HIDE DEF idx
    <3> QED
      BY <2>4 DEF MonthFirst
  <2>6. y \in Int /\ m \in 1..12 /\ idx = 12 * y + m - 1
    <3> HIDE DEF idx
    <3>1. idx \in Int
      BY <2>4
    <3>2. y \in Int /\ idx % 12 \in 0..11 /\ idx = 12 * y + (idx % 12)
      BY ONLY <3>1, SMT
    <3> HIDE DEF y
    <3> QED
      BY <3>2
  <2>7. PeriodOf(r, startDay, x) = u <=> date.y = y /\ date.m = m
    <3> DEFINE j == MonthIndex(date.y, date.m)
               i == MonthIndex(y, m)
    <3> HIDE DEF u, y, m, idx, date, start
    <3>1. PeriodOf(r, startDay, x) = j - k /\ j \in Int
      <4> DEFINE v == PeriodOf(r, startDay, x)
                 a == date.y
                 b == date.m
                 z == start.y
                 l == start.m
      <4> HIDE DEF v
      <4>1. a \in Int /\ b \in Int /\ z \in Int /\ l \in Int
        BY <1>1
      <4>2. v = 12 * (a - z) + b - l /\ j = MonthIndex(a, b) /\ k = MonthIndex(z, l)
        BY <2>3 DEF v, start
      <4> HIDE DEF a, b, z, l, j, k
      <4>3. v = j - k /\ j \in Int
        BY ONLY <4>1, <4>2, SMT DEF MonthIndex
      <4> QED
        BY <4>3 DEF v
    <3>2. i = k + u
      BY <2>4, <2>6 DEF MonthIndex
    <3>3. j = i <=> date.y = y /\ date.m = m
      BY <1>1, <2>6, MonthsDiffer, SMT
    <3> HIDE DEF i, j, k
    <3> QED
      BY <1>0, <1>1, <3>1, <3>2, <3>3
  <2>8. MonthAllowed(r, m) <=> r.byMonth = {} \/ m \in r.byMonth
    BY DEF MonthAllowed
  <2>9. x \in MonthCandidates(r, y, m, start.d) <=> date.y = y /\ date.m = m /\ FitsMonth(r, start.d, x)
    <3> HIDE DEF y, m, start
    <3> QED
      BY <1>1, <2>6, CandidatesFit
  <2>10. x \in Period(r, startDay, p).days <=> MonthAllowed(r, m) /\ x \in MonthCandidates(r, y, m, start.d)
    BY <2>1
  <2>11. Period(r, startDay, p).begins = BeginOf(r, startDay, u)
    BY <2>1, <2>2, <2>5
  <2> HIDE DEF u, y, m, idx, date, start, n
  <2>12. date.m = m => (MonthAllowed(r, m) /\ FitsMonth(r, start.d, x) <=> Fits(r, startDay, x))
    BY <1>5, <1>6, <1>10, <2>8
  <2> QED
    BY <1>0, <2>7, <2>9, <2>10, <2>11, <2>12 DEF u
<1>11. CASE r.freq = "yearly"
  <2> DEFINE y == start.y + u
             months == IF r.byMonth = {} THEN {start.m} ELSE r.byMonth
  <2>1. Period(r, startDay, p) =
           [begins |-> DayNumber(y, 1, 1),
            days |-> UNION {MonthCandidates(r, y, m, start.d) : m \in months}]
    BY <1>11 DEF Period
  <2>2. BeginOf(r, startDay, u) = DayNumber(y, 1, 1)
    BY <1>11 DEF BeginOf
  <2>3. PeriodOf(r, startDay, x) = date.y - start.y
    BY <1>11 DEF PeriodOf
  <2>4. y \in Int /\ months \subseteq 1..12
    BY <1>0, <1>1, RuleParts
  <2>5. PeriodOf(r, startDay, x) = u <=> date.y = y
    <3> HIDE DEF u, date, start
    <3> QED
      BY <1>0, <1>1, <2>3
  <2>6. ASSUME NEW m \in months
        PROVE  x \in MonthCandidates(r, y, m, start.d) <=> date.y = y /\ date.m = m /\ FitsMonth(r, start.d, x)
    <3>1. m \in 1..12
      BY <2>4
    <3> HIDE DEF y, months, start
    <3> QED
      BY <1>1, <2>4, <3>1, CandidatesFit
  <2>7. x \in Period(r, startDay, p).days <=> \E m \in months : x \in MonthCandidates(r, y, m, start.d)
    BY <2>1
  <2>8. Period(r, startDay, p).begins = BeginOf(r, startDay, u)
    BY <2>1, <2>2
  <2>9. date.m \in months <=> /\ r.byMonth # {} => date.m \in r.byMonth
                              /\ r.byMonth = {} => date.m = start.m
    OBVIOUS
  <2> HIDE DEF u, y, months, date, start, n
  <2>10. date.m \in months /\ FitsMonth(r, start.d, x) <=> Fits(r, startDay, x)
    BY <1>5, <1>6, <1>11, <2>9
  <2>11. x \in Period(r, startDay, p).days <=> date.y = y /\ date.m \in months /\ FitsMonth(r, start.d, x)
    BY <2>6, <2>7
  <2> QED
    BY <1>0, <2>5, <2>8, <2>10, <2>11 DEF u
<1> QED
  BY <1>8, <1>9, <1>10, <1>11, RuleParts

-----------------------------------------------------------------------------
(* What a walk gives is what the rule means.                                 *)

LEMMA WholePeriods ==
    ASSUME NEW n \in Nat \ {0}, NEW p \in Nat, NEW u \in Int, p * n <= u, u < (p + 1) * n
    PROVE  u % n = 0 <=> u = p * n
<1> DEFINE t == u \div n
           s == u % n
<1>1. t \in Int /\ s \in 0..(n - 1) /\ u = n * t + s
  BY SMT
<1> HIDE DEF t, s
<1>2. p * n \in Int /\ (p + 1) * n = p * n + n /\ n * t \in Int
  BY <1>1, SMT
<1>3. ~(t > p)
  <2>1. SUFFICES ASSUME t > p
                 PROVE  FALSE
    OBVIOUS
  <2>2. t - p - 1 \in Nat
    BY <1>1, <2>1
  <2>3. (t - p - 1) * n \in Nat
    BY <2>2, SMT
  <2>4. n * t = p * n + n + (t - p - 1) * n
    BY <1>1, SMT
  <2> QED
    BY <1>1, <1>2, <2>3, <2>4, SMT
<1>4. ~(t < p)
  <2>1. SUFFICES ASSUME t < p
                 PROVE  FALSE
    OBVIOUS
  <2>2. p - t - 1 \in Nat
    BY <1>1, <2>1
  <2>3. (p - t - 1) * n \in Nat
    BY <2>2, SMT
  <2>4. n * t + n + (p - t - 1) * n = p * n
    BY <1>1, SMT
  <2> QED
    BY <1>1, <1>2, <2>3, <2>4, SMT
<1>5. t = p
  BY <1>1, <1>3, <1>4
<1>6. u = p * n + s
  BY <1>1, <1>5, SMT
<1>7. s = 0 <=> u = p * n
  BY <1>1, <1>2, <1>6
<1> QED
  BY <1>7 DEF s

LEMMA PeriodEnds ==
    ASSUME NEW r, IsRule(r), Parses(r), NEW startDay \in Int, NEW p \in Nat,
           NEW d \in Period(r, startDay, p).days
    PROVE  /\ d \in Int /\ Period(r, startDay, p + 1).begins \in Int
           /\ Period(r, startDay, p).begins <= d /\ d < Period(r, startDay, p + 1).begins
<1> DEFINE I == r.interval
<1>1. d \in Int /\ Period(r, startDay, p).begins <= d /\ Period(r, startDay, p + 1).begins \in Int
  BY PeriodDays
<1>2. PeriodOf(r, startDay, d) = p * I /\ p * I \in Nat
  BY <1>1, PeriodIs
<1>3. Period(r, startDay, p + 1).begins = BeginOf(r, startDay, (p + 1) * I) /\ (p + 1) * I \in Nat
  BY <1>1, PeriodIs
<1>4. p * I + 1 <= (p + 1) * I
  <2>1. I \in Nat \ {0}
    BY RuleParts
  <2> HIDE DEF I
  <2> QED
    BY <2>1, SMT
<1> DEFINE u == p * I
           v == (p + 1) * I
<1> HIDE DEF u, v
<1>5. u \in Int /\ v \in Int /\ u + 1 <= v
  BY <1>2, <1>3, <1>4 DEF u, v
<1>6. d < BeginOf(r, startDay, u + 1)
  BY <1>1, <1>2, <1>5, UnitOfDay, Zenon DEF u
<1>7. /\ BeginOf(r, startDay, u + 1) <= BeginOf(r, startDay, v)
      /\ BeginOf(r, startDay, u + 1) \in Int /\ BeginOf(r, startDay, v) \in Int
  BY <1>5, UnitsRise
<1> QED
  BY <1>1, <1>3, <1>6, <1>7 DEF v

LEMMA SetPosIs ==
    ASSUME NEW days \in SUBSET Int, IsFiniteSet(days), NEW pos \in SUBSET Int, NEW d
    PROVE  d \in ApplySetPos(days, pos) <=>
              /\ d \in days
              /\ pos # {} => Place(days, d) \in pos \/ -PlaceFromLast(days, d) \in pos
<1>1. CASE pos = {}
  BY <1>1 DEF ApplySetPos
<1>2. CASE pos # {}
  <2>1. d \in ApplySetPos(days, pos) <=>
           \E i \in pos : d \in days /\ (Place(days, d) = i \/ PlaceFromLast(days, d) = -i)
    <3>1. d \in ApplySetPos(days, pos) <=> \E i \in pos : d \in InPlace(days, i)
      BY <1>2, Zenon DEF ApplySetPos
    <3>2. \A i : d \in InPlace(days, i) <=>
                    d \in days /\ (Place(days, d) = i \/ PlaceFromLast(days, d) = -i)
      BY DEF InPlace
    <3> QED
      BY <3>1, <3>2
  <2>2. PlaceFromLast(days, d) \in Int
    <3>1. IsFiniteSet({y \in days : y >= d})
      BY FS_Subset
    <3> QED
      BY <3>1, FS_CardinalityType DEF PlaceFromLast
  <2>3. \A i \in pos : PlaceFromLast(days, d) = -i <=> i = -PlaceFromLast(days, d)
    BY <2>2
  <2> QED
    BY <1>2, <2>1, <2>3, Zenon
<1> QED
  BY <1>1, <1>2

\* The walk takes from a period the days before the next that the rule picks.
LEMMA PicksArePeriods ==
    ASSUME NEW r, IsRule(r), Parses(r), NEW startDay \in Int, NEW p \in Nat, NEW d \in Int,
           Period(r, startDay, p).begins <= d, d < Period(r, startDay, p + 1).begins
    PROVE  d \in ApplySetPos(Period(r, startDay, p).days, r.bySetPos) <=> Picks(r, startDay, d)
<1> DEFINE I == r.interval
           q == p * I
           v == (p + 1) * I
           u == PeriodOf(r, startDay, d)
           days == Period(r, startDay, p).days
           fit == {x \in SpanOf(r, d) : Fits(r, startDay, x)}
           pos == r.bySetPos
<1>1. I \in Nat \ {0} /\ pos \in SUBSET Int
  BY DEF IsRule
<1>2. /\ q \in Nat /\ v \in Nat
      /\ Period(r, startDay, p).begins = BeginOf(r, startDay, q)
      /\ Period(r, startDay, p + 1).begins = BeginOf(r, startDay, v)
  <2>1. p + 1 \in Nat
    OBVIOUS
  <2> QED
    BY ONLY <2>1, IsRule(r), Parses(r), startDay \in Int, p \in Nat, d \in Int, PeriodIs
<1>3. \A x \in Int : x \in days <=> PeriodOf(r, startDay, x) = q /\ Fits(r, startDay, x)
  BY PeriodIs
<1>4. days \in SUBSET Int /\ IsFiniteSet(days)
  BY PeriodDays, PeriodsAreFinite
<1>5. v = q + I
  <2> HIDE DEF I
  <2> QED
    BY <1>1, SMT
<1> HIDE DEF q, v
<1>6. u \in Int /\ BeginOf(r, startDay, u) <= d /\ d < BeginOf(r, startDay, u + 1)
  <2>1. u \in Int
    BY <1>2, UnitOfDay
  <2> HIDE DEF u
  <2>2. PeriodOf(r, startDay, d) = u <=> BeginOf(r, startDay, u) <= d /\ d < BeginOf(r, startDay, u + 1)
    BY <2>1, UnitOfDay
  <2> QED
    BY <2>1, <2>2 DEF u
<1>7. ~(u < q)
  <2>1. SUFFICES ASSUME u < q
                 PROVE  FALSE
    OBVIOUS
  <2> HIDE DEF u
  <2>2. u + 1 \in Int /\ q \in Int /\ u + 1 <= q
    BY <1>2, <1>6, <2>1
  <2>3. /\ BeginOf(r, startDay, u + 1) <= BeginOf(r, startDay, q)
        /\ BeginOf(r, startDay, u + 1) \in Int /\ BeginOf(r, startDay, q) \in Int
    BY <2>2, UnitsRise
  <2> QED
    BY <1>2, <1>6, <2>3
<1>8. ~(v <= u)
  <2>1. SUFFICES ASSUME v <= u
                 PROVE  FALSE
    OBVIOUS
  <2> HIDE DEF u
  <2>2. v \in Int
    BY <1>2
  <2>3. /\ BeginOf(r, startDay, v) <= BeginOf(r, startDay, u)
        /\ BeginOf(r, startDay, v) \in Int /\ BeginOf(r, startDay, u) \in Int
    BY <1>6, <2>1, <2>2, UnitsRise
  <2> QED
    BY <1>2, <1>6, <2>3
<1>9. u % I = 0 <=> u = q
  <2> DEFINE n == I
             w == u
  <2> HIDE DEF I, u
  <2>1. q <= u /\ u < v
    BY <1>2, <1>6, <1>7, <1>8
  <2>2. p * I <= u /\ u < (p + 1) * I
    BY <2>1 DEF q, v
  <2>3. u % I = 0 <=> u = p * I
    BY <1>1, <1>6, <2>2, WholePeriods, Zenon
  <2> QED
    BY <2>3 DEF q
<1>10. Picks(r, startDay, d) <=>
          /\ u % I = 0 /\ Fits(r, startDay, d)
          /\ pos # {} => Place(fit, d) \in pos \/ -PlaceFromLast(fit, d) \in pos
  BY DEF Picks, Place, PlaceFromLast
<1>11. u = q => fit = days
  <2>1. SUFFICES ASSUME u = q
                 PROVE  fit = days
    OBVIOUS
  <2>2. SpanOf(r, d) = BeginOf(r, startDay, q)..(BeginOf(r, startDay, q + 1) - 1)
    <3> HIDE DEF fit
    <3> QED
      BY <2>1, SpanIs
  <2>3. BeginOf(r, startDay, q) \in Int /\ BeginOf(r, startDay, q + 1) \in Int
    BY <1>2, UnitsRise
  <2>4. \A x : x \in SpanOf(r, d) <=> x \in Int /\ PeriodOf(r, startDay, x) = q
    <3>1. SpanOf(r, d) \subseteq Int
      BY <2>2, <2>3
    <3>2. ASSUME NEW x \in Int
          PROVE  x \in SpanOf(r, d) <=> PeriodOf(r, startDay, x) = q
      <4>1. PeriodOf(r, startDay, x) = q <=> BeginOf(r, startDay, q) <= x /\ x < BeginOf(r, startDay, q + 1)
        BY <1>2, UnitOfDay
      <4> QED
        BY <2>2, <2>3, <4>1
    <3> QED
      BY <3>1, <3>2
  <2> HIDE DEF u, days
  <2> QED
    BY <1>3, <1>4, <2>4, Zenon
<1>12. d \in ApplySetPos(days, pos) <=>
          /\ d \in days
          /\ pos # {} => Place(days, d) \in pos \/ -PlaceFromLast(days, d) \in pos
  <2> HIDE DEF days, pos
  <2> QED
    BY <1>1, <1>4, SetPosIs
<1>13. d \in days <=> u = q /\ Fits(r, startDay, d)
  BY <1>3
<1> HIDE DEF u, days, pos, fit, I
<1>14. d \in ApplySetPos(days, pos) <=> Picks(r, startDay, d)
  BY <1>9, <1>10, <1>11, <1>12, <1>13
<1> QED
  BY <1>14 DEF days, pos

\* The clocks at which the rule has the event begin: without its COUNT, and with it.
Wanted(r, start) == {w \in ClocksOf(start) : Picks(r, DayOf(start), DayOf(w)) /\ ~PastUntil(r, w)}

Owed(r, start) == {w \in Wanted(r, start) : r.count = 0 \/ Place(Wanted(r, start), w) <= r.count}

\* The clock with which a period begins, and those in it on days that the rule picks.
Beginning(r, start, p) == 24 * Period(r, DayOf(start), p).begins

PickedIn(r, start, p) ==
    {w \in ClocksOf(start) : /\ Picks(r, DayOf(start), DayOf(w))
                             /\ Beginning(r, start, p) <= w /\ w < Beginning(r, start, p + 1)}

WantedIn(r, start, p) == {w \in PickedIn(r, start, p) : ~PastUntil(r, w)}

LEMMA ClocksAreDays ==
    ASSUME NEW start \in Int, NEW w \in ClocksOf(start)
    PROVE  /\ w \in Int /\ start <= w /\ DayOf(w) \in Int /\ w = 24 * DayOf(w) + Clock(start)
           /\ \A b \in Int : 24 * b <= w <=> b <= DayOf(w)
<1>1. w \in Int /\ Clock(w) = Clock(start) /\ start <= w
  BY DEF ClocksOf
<1>2. DayOf(w) \in Int /\ Clock(w) \in 0..23 /\ w = 24 * DayOf(w) + Clock(w)
  BY <1>1, ClockOfDay
<1> DEFINE c == Clock(w)
           d == DayOf(w)
<1> HIDE DEF c, d
<1>3. c \in 0..23 /\ d \in Int /\ w = 24 * d + c
  BY <1>2 DEF c, d
<1>4. \A b \in Int : 24 * b <= w <=> b <= d
  BY <1>3
<1> QED
  BY <1>1, <1>2, <1>4 DEF d

LEMMA DaysAreClocks ==
    ASSUME NEW start \in Int, NEW d \in Int
    PROVE  LET w == 24 * d + Clock(start)
           IN  w \in Int /\ DayOf(w) = d /\ (w \in ClocksOf(start) <=> DayOf(start) <= d)
                 /\ (w >= start <=> DayOf(start) <= d)
<1>1. DayOf(start) \in Int /\ Clock(start) \in 0..23 /\ start = 24 * DayOf(start) + Clock(start)
      /\ Clock(24 * d + Clock(start)) = Clock(start)
  BY ClockOfDay
<1> DEFINE c == Clock(start)
           s == DayOf(start)
           w == 24 * d + c
<1>2. Clock(w) = c
  BY <1>1
<1> HIDE DEF c, s
<1>3. c \in 0..23 /\ s \in Int /\ start = 24 * s + c
  BY <1>1 DEF c, s
<1>4. w \in Int /\ DayOf(w) = d /\ (start <= w <=> s <= d) /\ (w >= start <=> s <= d)
  BY <1>3 DEF DayOf
<1> HIDE DEF w
<1>5. w \in ClocksOf(start) <=> s <= d
  BY <1>2, <1>4 DEF ClocksOf, c
<1> QED
  BY <1>4, <1>5 DEF s, c, w

LEMMA BeginningsRise ==
    ASSUME NEW r, IsRule(r), NEW start \in Int, NEW p \in Nat
    PROVE  /\ Beginning(r, start, p) \in Int /\ Beginning(r, start, p + 1) \in Int
           /\ Beginning(r, start, p) <= Beginning(r, start, p + 1)
<1>1. DayOf(start) \in Int
  BY ClockOfDay
<1>2. p + 1 \in Nat /\ p <= p + 1
  OBVIOUS
<1>3. Period(r, DayOf(start), p).begins \in Int /\ Period(r, DayOf(start), p + 1).begins \in Int
  BY <1>1, <1>2, PeriodDays
<1>4. Period(r, DayOf(start), p).begins <= Period(r, DayOf(start), p + 1).begins
  BY <1>1, <1>2, PeriodsRise
<1> QED
  BY <1>3, <1>4 DEF Beginning

\* What a period emits are the clocks of the days that the rule picks in it.
LEMMA EmittedIs ==
    ASSUME NEW r, IsRule(r), Parses(r), NEW start \in Int, NEW p \in Nat, NEW n
    PROVE  LET days == ApplySetPos(Period(r, DayOf(start), p).days, r.bySetPos)
               due  == WantedIn(r, start, p)
           IN  Emitted(r, start, n, days) =
                 [taken |-> {w \in due : r.count = 0 \/ n + Place(due, w) <= r.count},
                  stop |-> {w \in due : r.count = 0 \/ n + Place(due, w) <= r.count} # PickedIn(r, start, p)]
<1> DEFINE startDay == DayOf(start)
           days == ApplySetPos(Period(r, startDay, p).days, r.bySetPos)
           begun == {w \in {24 * d + Clock(start) : d \in days} : w >= start}
           b == Period(r, startDay, p).begins
           e == Period(r, startDay, p + 1).begins
<1>1. startDay \in Int
  BY ClockOfDay
<1>2. b \in Int /\ e \in Int
  <2>1. p + 1 \in Nat
    OBVIOUS
  <2> HIDE DEF startDay
  <2> QED
    BY <1>1, <2>1, PeriodDays
<1>3. ASSUME NEW d \in days
      PROVE  d \in Int /\ b <= d /\ d < e
  <2>1. d \in Period(r, startDay, p).days
    BY DEF ApplySetPos, InPlace
  <2> HIDE DEF startDay
  <2> QED
    BY <1>1, <2>1, PeriodEnds
<1>4. ASSUME NEW d \in Int, b <= d, d < e
      PROVE  d \in days <=> Picks(r, startDay, d)
  <2> HIDE DEF startDay
  <2> QED
    BY <1>1, <1>4, PicksArePeriods
<1> HIDE DEF days
<1>5. ASSUME NEW w \in begun
      PROVE  w \in PickedIn(r, start, p)
  <2>1. PICK d \in days : w = 24 * d + Clock(start) /\ w >= start
    OBVIOUS
  <2>2. d \in Int /\ b <= d /\ d < e
    BY <1>3
  <2>3. w \in Int /\ DayOf(w) = d /\ w \in ClocksOf(start)
    BY <2>1, <2>2, DaysAreClocks
  <2>4. (24 * b <= w <=> b <= d) /\ (24 * e <= w <=> e <= d)
    <3> HIDE DEF b, e
    <3>1. \A x \in Int : 24 * x <= w <=> x <= DayOf(w)
      BY <2>3, ClocksAreDays
    <3> QED
      BY <1>2, <2>3, <3>1
  <2>5. Picks(r, startDay, d)
    BY <1>4, <2>2
  <2>6. 24 * b <= w /\ w < 24 * e
    <3> HIDE DEF b, e
    <3> QED
      BY <1>2, <2>2, <2>3, <2>4
  <2> QED
    BY <2>3, <2>5, <2>6 DEF PickedIn, Beginning
<1>6. ASSUME NEW w \in PickedIn(r, start, p)
      PROVE  w \in begun
  <2>1. w \in ClocksOf(start) /\ Picks(r, startDay, DayOf(w)) /\ 24 * b <= w /\ w < 24 * e
    BY DEF PickedIn, Beginning
  <2>2. /\ w \in Int /\ start <= w /\ DayOf(w) \in Int /\ w = 24 * DayOf(w) + Clock(start)
        /\ \A x \in Int : 24 * x <= w <=> x <= DayOf(w)
    BY <2>1, ClocksAreDays
  <2>3. b <= DayOf(w) /\ DayOf(w) < e
    <3> HIDE DEF b, e
    <3> QED
      BY <1>2, <2>1, <2>2
  <2>4. DayOf(w) \in days
    BY <1>4, <2>1, <2>2, <2>3
  <2>5. w >= start
    BY <2>2
  <2> QED
    BY <2>2, <2>4, <2>5
<1>7. begun = PickedIn(r, start, p)
  <2> HIDE DEF begun
  <2>1. begun \subseteq PickedIn(r, start, p)
    BY <1>5
  <2>2. PickedIn(r, start, p) \subseteq begun
    BY <1>6
  <2> QED
    BY <2>1, <2>2
<1>8. Emitted(r, start, n, days) =
        LET within == {w \in begun : ~PastUntil(r, w)}
            taken  == {w \in within : r.count = 0 \/ n + Place(within, w) <= r.count}
        IN  [taken |-> taken, stop |-> taken # begun]
  BY DEF Emitted
<1> HIDE DEF begun
<1>9. {w \in begun : ~PastUntil(r, w)} = WantedIn(r, start, p)
  BY <1>7 DEF WantedIn
<1> QED
  BY <1>7, <1>8, <1>9, Zenon DEF days

LEMMA Ranks ==
    ASSUME NEW start \in Int, NEW S \in SUBSET ClocksOf(start), NEW w \in Int
    PROVE  IsFiniteSet({y \in S : y <= w}) /\ Place(S, w) \in Nat
<1>1. IsFiniteSet(start..w)
  BY FS_Interval
<1>2. {y \in S : y <= w} \subseteq start..w
  <2>1. \A y \in S : y \in Int /\ start <= y
    BY DEF ClocksOf
  <2> QED
    BY <2>1
<1>3. IsFiniteSet({y \in S : y <= w})
  BY <1>1, <1>2, FS_Subset
<1> QED
  BY <1>3, FS_CardinalityType DEF Place

LEMMA RanksRise ==
    ASSUME NEW start \in Int, NEW S \in SUBSET ClocksOf(start), NEW v \in Int, NEW w \in Int, v <= w
    PROVE  Place(S, v) \in Nat /\ Place(S, w) \in Nat /\ Place(S, v) <= Place(S, w)
<1>1. IsFiniteSet({y \in S : y <= w}) /\ Place(S, w) \in Nat /\ Place(S, v) \in Nat
  BY Ranks, Zenon
<1>2. {y \in S : y <= v} \subseteq {y \in S : y <= w}
  <2>1. \A y \in S : y \in Int
    BY DEF ClocksOf
  <2> QED
    BY <2>1
<1>3. Cardinality({y \in S : y <= v}) <= Cardinality({y \in S : y <= w})
  BY <1>1, <1>2, FS_Subset
<1> QED
  BY <1>1, <1>3 DEF Place

LEMMA WantedAre ==
    ASSUME NEW r, NEW start \in Int
    PROVE  /\ Wanted(r, start) \in SUBSET ClocksOf(start)
           /\ ClocksOf(start) \subseteq Int
           /\ \A p : WantedIn(r, start, p) = {w \in Wanted(r, start) :
                       Beginning(r, start, p) <= w /\ w < Beginning(r, start, p + 1)}
           /\ \A p : PickedIn(r, start, p) \subseteq ClocksOf(start)
BY DEF Wanted, ClocksOf, WantedIn, PickedIn

\* What was wanted before a period is owed as long as it is within the COUNT.
LEMMA EarlyAreOwed ==
    ASSUME NEW r, IsRule(r), NEW start \in Int, NEW b \in Int, NEW out,
           out = {w \in Wanted(r, start) : w < b}, EndsInTime(r, out)
    PROVE  out \subseteq Owed(r, start)
<1> DEFINE W == Wanted(r, start)
<1>1. W \in SUBSET ClocksOf(start) /\ ClocksOf(start) \subseteq Int
  BY WantedAre
<1>2. IsFiniteSet(out) /\ (r.count # 0 => Cardinality(out) <= r.count) /\ r.count \in Nat
  BY RuleParts DEF EndsInTime
<1> HIDE DEF W
<1>3. out = {w \in W : w < b}
  BY DEF W
<1>4. ASSUME NEW w \in out
      PROVE  r.count = 0 \/ Place(W, w) <= r.count
  <2>1. w \in Int /\ w < b
    BY <1>1, <1>3
  <2>2. {y \in W : y <= w} \subseteq out
    <3>1. \A y \in W : y \in Int
      BY <1>1
    <3>2. \A y \in W : y <= w => y < b
      BY <2>1, <3>1
    <3> QED
      BY <1>3, <3>2
  <2>3. Cardinality({y \in W : y <= w}) <= Cardinality(out)
    BY <1>2, <2>2, FS_Subset
  <2>4. Place(W, w) \in Nat /\ Cardinality(out) \in Nat
    BY <1>1, <1>2, <2>1, Ranks, FS_CardinalityType, Zenon
  <2>5. Place(W, w) <= Cardinality(out)
    BY <2>3 DEF Place
  <2> QED
    BY <1>2, <2>4, <2>5
<1> QED
  BY <1>3, <1>4 DEF Owed, W

\* The rank of a clock is its place in its period, after all that was wanted before.
LEMMA RankIs ==
    ASSUME NEW r, IsRule(r), NEW start \in Int, NEW p \in Nat, NEW out,
           out = {w \in Wanted(r, start) : w < Beginning(r, start, p)}, IsFiniteSet(out),
           NEW w \in WantedIn(r, start, p)
    PROVE  Place(Wanted(r, start), w) = Cardinality(out) + Place(WantedIn(r, start, p), w)
<1> DEFINE W == Wanted(r, start)
           D == WantedIn(r, start, p)
           b == Beginning(r, start, p)
           e == Beginning(r, start, p + 1)
           T == {y \in D : y <= w}
<1>1. /\ W \in SUBSET ClocksOf(start) /\ ClocksOf(start) \subseteq Int
      /\ D = {y \in W : b <= y /\ y < e}
  BY WantedAre
<1>2. b \in Int /\ e \in Int
  BY BeginningsRise
<1> HIDE DEF W, D, b, e
<1>3. w \in Int /\ b <= w /\ w < e /\ out = {y \in W : y < b}
  BY <1>1 DEF W, D, b
<1>4. D \in SUBSET ClocksOf(start)
  BY <1>1
<1>5. IsFiniteSet(T)
  BY <1>3, <1>4, Ranks, Zenon
<1>6. {y \in W : y <= w} = out \cup T
  <2>1. \A y \in W : y \in Int
    BY <1>1
  <2>2. \A y \in Int : y <= w <=> y < b \/ (b <= y /\ y < e /\ y <= w)
    BY <1>2, <1>3
  <2> QED
    BY <1>1, <1>3, <2>1, <2>2
<1>7. out \cap T = {}
  <2>1. \A y \in Int : ~(y < b /\ b <= y)
    BY <1>2
  <2> QED
    BY <1>1, <1>3, <2>1
<1> HIDE DEF T
<1>8. Cardinality(out \cup T) = Cardinality(out) + Cardinality(T) - Cardinality(out \cap T)
  BY <1>5, FS_Union
<1>9. Cardinality(out \cap T) = 0
  BY <1>7, FS_EmptySet
<1>10. Cardinality(out) \in Nat /\ Cardinality(T) \in Nat
  BY <1>5, FS_CardinalityType
<1>11. Cardinality(out \cup T) = Cardinality(out) + Cardinality(T)
  BY <1>8, <1>9, <1>10
<1> QED
  BY <1>6, <1>11 DEF Place, T, W, D

\* A walk up to a limit that has got to the p-th period: all that was wanted before it; or,
\* when it is over, what is owed, but for what is past the limit.
Walked(r, start, limit, p, walked) ==
    /\ EndsInTime(r, walked.out)
    /\ walked.over \in BOOLEAN
    /\ ~walked.over => walked.out = {w \in Wanted(r, start) : w < Beginning(r, start, p)}
    /\ walked.over => /\ walked.out \subseteq Owed(r, start)
                      /\ \A w \in Owed(r, start) : w \in walked.out \/ w > limit

LEMMA WalkStarts ==
    ASSUME NEW r, IsRule(r), Parses(r), NEW start \in Int, NEW limit
    PROVE  Walked(r, start, limit, 0, [out |-> {}, over |-> FALSE])
<1> DEFINE s == DayOf(start)
<1>1. s \in Int /\ Clock(start) \in 0..23 /\ start = 24 * s + Clock(start)
  BY ClockOfDay
<1>2. Period(r, s, 0).begins = BeginOf(r, s, 0 * r.interval)
  <2> HIDE DEF s
  <2> QED
    BY <1>1, PeriodIs
<1>3. 0 * r.interval = 0
  BY RuleParts
<1>4. PeriodOf(r, s, s) = 0
  <2>1. Date(s).y \in Int /\ Date(s).m \in Int /\ StartOfWeek(s, r.wkst) \in Int
    <3>1. r.wkst \in 0..6
      BY RuleParts
    <3> HIDE DEF s
    <3>2. Date(s).y \in Int /\ Date(s).m \in 1..12 /\ StartOfWeek(s, r.wkst) \in Int
      BY <1>1, <3>1, StartIsDate, WeekIs, Zenon
    <3> QED
      BY <3>2
  <2> HIDE DEF s
  <2> QED
    BY <1>1, <2>1, RuleParts DEF PeriodOf
<1>5. BeginOf(r, s, 0) <= s /\ BeginOf(r, s, 0) \in Int
  <2> HIDE DEF s
  <2>1. BeginOf(r, s, 0) <= s
    BY <1>1, <1>4, UnitOfDay
  <2>2. BeginOf(r, s, 0) \in Int
    BY <1>1, UnitsRise
  <2> QED
    BY <2>1, <2>2
<1>6. Beginning(r, start, 0) <= start
  <2> DEFINE b == BeginOf(r, s, 0)
             c == Clock(start)
  <2>1. Beginning(r, start, 0) = 24 * b
    BY <1>2, <1>3 DEF Beginning
  <2> HIDE DEF b, c, s
  <2>2. c \in 0..23 /\ b <= s /\ b \in Int /\ start = 24 * s + c
    BY <1>1, <1>5 DEF b, c
  <2> QED
    BY <1>1, <2>1, <2>2
<1>7. \A w \in Wanted(r, start) : ~(w < Beginning(r, start, 0))
  <2>1. Beginning(r, start, 0) \in Int
    BY BeginningsRise
  <2>2. \A w \in Wanted(r, start) : w \in Int /\ start <= w
    BY DEF Wanted, ClocksOf
  <2> QED
    BY <1>6, <2>1, <2>2
<1>8. EndsInTime(r, {})
  BY RuleParts, FS_EmptySet DEF EndsInTime
<1> QED
  BY <1>7, <1>8 DEF Walked

\* The walk does not go on because its limit is before the period, or the UNTIL is.
LEMMA WalkEnds ==
    ASSUME NEW r, IsRule(r), NEW start \in Int, NEW limit \in Int, NEW p \in Nat, NEW walked,
           Walked(r, start, limit, p, walked), Stops(r, start, limit, p, walked)
    PROVE  Walked(r, start, limit, p + 1, Turn(r, start, limit, p, walked))
<1> DEFINE b == Beginning(r, start, p)
           turn == Turn(r, start, limit, p, walked)
<1>1. turn.out = walked.out /\ turn.over = TRUE
  <2>1. turn = [out |-> walked.out, over |-> TRUE]
    BY TurnStops
  <2> HIDE DEF turn
  <2> QED
    BY <2>1
<1>2. b \in Int
  BY BeginningsRise
<1>3. walked.out \subseteq Owed(r, start) /\ \A w \in Owed(r, start) : w \in walked.out \/ w > limit
  <2>1. CASE walked.over
    BY <2>1 DEF Walked
  <2>2. CASE ~walked.over
    <3>1. walked.out = {w \in Wanted(r, start) : w < b} /\ EndsInTime(r, walked.out)
      BY <2>2 DEF Walked
    <3>2. b > limit \/ PastUntil(r, b)
      BY <2>2 DEF Stops, Beginning
    <3> HIDE DEF b
    <3>3. walked.out \subseteq Owed(r, start)
      BY <1>2, <3>1, EarlyAreOwed
    <3>4. ASSUME NEW w \in Owed(r, start), w \notin walked.out
          PROVE  w > limit
      <4>1. w \in Int /\ w \in Wanted(r, start) /\ ~PastUntil(r, w)
        BY DEF Owed, Wanted, ClocksOf
      <4>2. b <= w
        BY <1>2, <3>1, <3>4, <4>1
      <4>3. ~PastUntil(r, b)
        BY <1>2, <4>1, <4>2, RuleParts DEF PastUntil
      <4> QED
        BY <1>2, <3>2, <4>1, <4>2, <4>3
    <3> QED
      BY <3>3, <3>4
  <2> QED
    BY <2>1, <2>2
<1> HIDE DEF turn
<1>4. EndsInTime(r, turn.out)
  BY <1>1 DEF Walked
<1>5. Walked(r, start, limit, p + 1, turn)
  BY <1>1, <1>3, <1>4, Zenon DEF Walked
<1> QED
  BY <1>5 DEF turn

\* What a period does not give any more, no later one does.
LEMMA LaterAreNotOwed ==
    ASSUME NEW r, IsRule(r), NEW start \in Int, NEW v \in ClocksOf(start), NEW w \in ClocksOf(start), v <= w,
           \/ PastUntil(r, v)
           \/ r.count # 0 /\ Place(Wanted(r, start), v) > r.count
    PROVE  w \notin Owed(r, start)
<1>1. v \in Int /\ w \in Int
  BY DEF ClocksOf
<1>2. CASE PastUntil(r, v)
  <2>1. PastUntil(r, w)
    BY <1>1, <1>2, RuleParts DEF PastUntil
  <2> QED
    BY <2>1 DEF Owed, Wanted
<1>3. CASE r.count # 0 /\ Place(Wanted(r, start), v) > r.count
  <2> DEFINE W == Wanted(r, start)
  <2>1. W \in SUBSET ClocksOf(start)
    BY WantedAre
  <2> HIDE DEF W
  <2>2. Place(W, v) \in Nat /\ Place(W, w) \in Nat /\ Place(W, v) <= Place(W, w)
    BY <1>1, <2>1, RanksRise
  <2>3. r.count \in Nat /\ Place(W, v) > r.count
    BY <1>3, RuleParts DEF W
  <2>4. ~(r.count = 0 \/ Place(W, w) <= r.count)
    BY <1>3, <2>2, <2>3
  <2> QED
    BY <2>4 DEF Owed, W
<1> QED
  BY <1>2, <1>3

LEMMA WalkGoesOn ==
    ASSUME NEW r, IsRule(r), Parses(r), NEW start \in Int, NEW limit \in Int, NEW p \in Nat, NEW walked,
           Walked(r, start, limit, p, walked), ~Stops(r, start, limit, p, walked)
    PROVE  Walked(r, start, limit, p + 1, Turn(r, start, limit, p, walked))
<1> DEFINE b == Beginning(r, start, p)
           e == Beginning(r, start, p + 1)
           turn == Turn(r, start, limit, p, walked)
           out == walked.out
           n == Cardinality(out)
           W == Wanted(r, start)
           D == WantedIn(r, start, p)
           P == PickedIn(r, start, p)
           taken == {w \in D : r.count = 0 \/ n + Place(D, w) <= r.count}
<1>1. turn = [out |-> out \cup taken, over |-> taken # P]
  <2> DEFINE emitted == Emitted(r, start, n, ApplySetPos(Period(r, DayOf(start), p).days, r.bySetPos))
  <2>1. turn = [out |-> walked.out \cup emitted.taken, over |-> emitted.stop]
    BY DEF Turn, Stops
  <2>2. emitted = [taken |-> taken, stop |-> taken # P]
    <3> HIDE DEF n
    <3> QED
      BY EmittedIs
  <2> HIDE DEF emitted, taken, turn, P
  <2> QED
    BY <2>1, <2>2
<1>2. EndsInTime(r, turn.out)
  <2>1. EndsInTime(r, walked.out)
    BY DEF Walked
  <2> QED
    BY <2>1, TurnLimited
<1>3. b \in Int /\ e \in Int /\ b <= e
  BY BeginningsRise
<1>4. out = {w \in W : w < b} /\ EndsInTime(r, out)
  BY DEF Walked, Stops
<1>5. IsFiniteSet(out) /\ n \in Nat
  BY <1>4, FS_CardinalityType DEF EndsInTime
<1>6. /\ W \in SUBSET ClocksOf(start) /\ ClocksOf(start) \subseteq Int
      /\ D = {w \in W : b <= w /\ w < e} /\ P \subseteq ClocksOf(start)
  BY WantedAre, Zenon
<1>7. D \subseteq P /\ \A w \in P \ D : PastUntil(r, w)
  BY DEF WantedIn
<1>8. \A w \in P : b <= w /\ w < e
  BY DEF PickedIn
<1>9. \A w \in D : Place(W, w) = n + Place(D, w)
  BY <1>4, <1>5, RankIs
<1>10. out \subseteq Owed(r, start)
  <2> HIDE DEF b, out
  <2> QED
    BY <1>3, <1>4, EarlyAreOwed
<1>11. r.count \in Nat
  BY RuleParts
<1>12. \A w : w \in Owed(r, start) <=> w \in W /\ (r.count = 0 \/ Place(W, w) <= r.count)
  BY DEF Owed
<1> HIDE DEF turn, out, n, W, D, P, b, e
<1>13. taken \subseteq Owed(r, start)
  BY <1>6, <1>9, <1>12
<1>14. CASE taken = P
  <2>1. turn.out = out \cup D /\ turn.over = FALSE
    <3>1. D = taken
      BY <1>7, <1>14
    <3> HIDE DEF taken
    <3> QED
      BY <1>1, <1>14, <3>1, Zenon
  <2>2. out \cup D = {w \in W : w < e}
    <3>1. \A w \in W : w \in Int
      BY <1>6
    <3>2. \A w \in W : w < e <=> w < b \/ (b <= w /\ w < e)
      BY <1>3, <3>1
    <3> QED
      BY <1>4, <1>6, <3>2
  <2> QED
    BY <1>2, <2>1, <2>2, Zenon DEF Walked, turn, W, e
<1>15. CASE taken # P
  <2>1. turn.out = out \cup taken /\ turn.over = TRUE
    <3> HIDE DEF taken
    <3> QED
      BY <1>1, <1>15, Zenon
  <2>2. PICK v \in P : v \notin taken
    BY <1>7, <1>15
  <2>3. v \in ClocksOf(start) /\ v \in Int /\ b <= v /\ v < e
    BY <1>6, <1>8
  <2>4. PastUntil(r, v) \/ (r.count # 0 /\ Place(W, v) > r.count)
    <3>1. CASE v \notin D
      BY <1>7, <3>1
    <3>2. CASE v \in D
      <4>1. Place(W, v) = n + Place(D, v) /\ r.count # 0 /\ ~(n + Place(D, v) <= r.count)
        BY <1>9, <2>2, <3>2
      <4>2. Place(W, v) \in Nat
        BY <1>6, <2>3, Ranks, Zenon
      <4>3. Place(W, v) > r.count
        BY <1>11, <4>1, <4>2
      <4> QED
        BY <4>1, <4>3
    <3> QED
      BY <3>1, <3>2
  <2>5. ASSUME NEW w \in Owed(r, start), w \notin out
        PROVE  w \in taken
    <3>1. w \in W /\ (r.count = 0 \/ Place(W, w) <= r.count) /\ w \in ClocksOf(start) /\ w \in Int
      BY <1>6, <1>12
    <3>2. b <= w
      BY <1>3, <1>4, <2>5, <3>1
    <3>3. w < e
      <4>1. SUFFICES ASSUME e <= w
                     PROVE  FALSE
        BY <1>3, <3>1
      <4>2. v <= w
        BY <1>3, <2>3, <3>1, <4>1
      <4>3. PastUntil(r, v) \/ (r.count # 0 /\ Place(Wanted(r, start), v) > r.count)
        BY <2>4 DEF W
      <4>4. w \notin Owed(r, start)
        BY <2>3, <3>1, <4>2, <4>3, LaterAreNotOwed
      <4> QED
        BY <2>5, <4>4
    <3>4. w \in D
      BY <1>6, <3>1, <3>2, <3>3
    <3> QED
      BY <1>9, <3>1, <3>4
  <2> HIDE DEF taken
  <2>6. turn.out \subseteq Owed(r, start) /\ \A w \in Owed(r, start) : w \in turn.out \/ w > limit
    BY <1>10, <1>13, <2>1, <2>5
  <2> QED
    BY <1>2, <2>1, <2>6, Zenon DEF Walked, turn
<1> QED
  BY <1>14, <1>15

\* A rule has the occurrences that it means, day by day: up to a limit that the periods of
\* a walk reach past, an expansion emits a clock exactly if the rule picks its day and has
\* not ended before it, by COUNT or UNTIL (expand, emit).
THEOREM RulesMeanWhatTheyPick ==
    ASSUME NEW r, IsRule(r), Parses(r), NEW start \in Int, NEW limit \in Int,
           limit < 24 * Period(r, DayOf(start), MaxPeriods).begins
    PROVE  \A w \in Int : w <= limit => (w \in Occurrences(r, start, limit) <=> w \in Owed(r, start))
<1> DEFINE f == Walk(r, start, limit)
           S == {p \in Nat : Walked(r, start, limit, p, f[p])}
           out == f[MaxPeriods].out
           b == Beginning(r, start, MaxPeriods)
<1>0. MaxPeriods \in Nat
  BY PagesAssumption
<1>1. 0 \in S
  <2>1. f[0] = [out |-> {}, over |-> FALSE]
    BY WalkTurns
  <2> HIDE DEF f
  <2> QED
    BY <2>1, WalkStarts
<1>2. ASSUME NEW p \in 0..(MaxPeriods - 1), p \in S
      PROVE  p + 1 \in S
  <2>1. f[p + 1] = Turn(r, start, limit, p, f[p])
    BY WalkTurns
  <2> HIDE DEF f
  <2>2. Walked(r, start, limit, p, f[p]) /\ p \in Nat
    BY <1>2
  <2>3. Walked(r, start, limit, p + 1, Turn(r, start, limit, p, f[p]))
    BY <2>2, WalkEnds, WalkGoesOn
  <2> QED
    BY <2>1, <2>2, <2>3
<1> HIDE DEF S
<1>3. 0..MaxPeriods \subseteq S
  BY <1>0, <1>1, <1>2, GoesOn
<1>4. MaxPeriods \in S
  BY <1>0, <1>3
<1>5. Walked(r, start, limit, MaxPeriods, f[MaxPeriods])
  BY <1>4 DEF S
<1>6. Occurrences(r, start, limit) = out
  BY WalkTurns
<1> HIDE DEF f
<1>7. limit < b /\ b \in Int
  <2>1. b \in Int
    BY <1>0, BeginningsRise
  <2> QED
    BY <2>1 DEF Beginning
<1>8. CASE f[MaxPeriods].over
  <2>1. out \subseteq Owed(r, start) /\ \A w \in Owed(r, start) : w \in out \/ w > limit
    BY <1>5, <1>8 DEF Walked
  <2> HIDE DEF out
  <2> QED
    BY <1>6, <2>1
<1>9. CASE ~f[MaxPeriods].over
  <2>1. out = {w \in Wanted(r, start) : w < b} /\ EndsInTime(r, out)
    BY <1>5, <1>9 DEF Walked
  <2> HIDE DEF out, b
  <2>2. out \subseteq Owed(r, start)
    BY <1>7, <2>1, EarlyAreOwed
  <2>3. ASSUME NEW w \in Int, w <= limit, w \in Owed(r, start)
        PROVE  w \in out
    <3>1. w < b
      BY <1>7, <2>3
    <3>2. w \in Wanted(r, start)
      BY <2>3 DEF Owed
    <3> QED
      BY <2>1, <3>1, <3>2
  <2> QED
    BY <1>6, <2>2, <2>3
<1> QED
  BY <1>8, <1>9

-----------------------------------------------------------------------------
(* What the pages show is what the rule means.                               *)

LEMMA MeantIsOwed ==
    ASSUME NEW r, IsRule(r), NEW start \in Int, NEW lastDay \in Int, NEW d \in Int
    PROVE  d \in Meant(r, start, lastDay) <=>
              DayOf(start) <= d /\ d <= lastDay /\ 24 * d + Clock(start) \in Owed(r, start)
<1> DEFINE c == Clock(start)
           s == DayOf(start)
           w == 24 * d + c
           W == Wanted(r, start)
           picked == {x \in s..lastDay : Picks(r, s, x)}
           within == {x \in picked : r.until # NoUntil => 24 * x + c <= r.until}
           S == {x \in within : x <= d}
           T == {v \in W : v <= w}
           f == [x \in S |-> 24 * x + c]
<1>1. s \in Int /\ c \in 0..23 /\ r.count \in Nat /\ r.until \in Int
  BY ClockOfDay, RuleParts, Zenon
<1>2. d \in Meant(r, start, lastDay) <=> d \in within /\ (r.count = 0 \/ Cardinality(S) <= r.count)
  BY DEF Meant
<1>3. ASSUME NEW x \in Int
      PROVE  /\ 24 * x + c \in Int /\ DayOf(24 * x + c) = x
             /\ 24 * x + c \in W <=> s <= x /\ Picks(r, s, x) /\ (r.until # NoUntil => 24 * x + c <= r.until)
             /\ 24 * x + c <= w <=> x <= d
  <2>1. 24 * x + c \in Int /\ DayOf(24 * x + c) = x /\ (24 * x + c \in ClocksOf(start) <=> s <= x)
    BY DaysAreClocks
  <2>2. ~PastUntil(r, 24 * x + c) <=> (r.until # NoUntil => 24 * x + c <= r.until)
    <3> DEFINE v == 24 * x + c
    <3>1. v \in Int
      BY <2>1
    <3> HIDE DEF v
    <3> QED
      BY <1>1, <3>1 DEF PastUntil, v
  <2>3. 24 * x + c \in W <=> s <= x /\ Picks(r, s, x) /\ (r.until # NoUntil => 24 * x + c <= r.until)
    <3> DEFINE v == 24 * x + c
    <3> HIDE DEF v, s
    <3> QED
      BY <2>1, <2>2 DEF Wanted, v, s
  <2>4. 24 * x + c <= w <=> x <= d
    <3> HIDE DEF c
    <3> QED
      BY <1>1
  <2> QED
    BY <2>1, <2>3, <2>4
<1>4. ASSUME NEW x \in Int, x <= lastDay
      PROVE  x \in within <=> 24 * x + c \in W
  BY <1>1, <1>3, <1>4
<1>5. \A x \in within : x \in Int /\ x <= lastDay
  BY <1>1
<1> HIDE DEF within, picked, W, c, s
<1>6. ASSUME d \in within
      PROVE  Cardinality(S) = Place(W, w)
  <2>1. d \in Int /\ d <= lastDay
    BY <1>5, <1>6
  <2>2. \A x \in S : x \in Int /\ 24 * x + c \in T
    BY <1>3, <1>4, <1>5
  <2>3. \A v \in T : DayOf(v) \in S /\ 24 * DayOf(v) + c = v
    <3> TAKE v \in T
    <3>1. v \in W /\ v <= w
      OBVIOUS
    <3>2. v \in ClocksOf(start)
      BY <3>1 DEF W, Wanted
    <3>3. DayOf(v) \in Int /\ v = 24 * DayOf(v) + c
      BY <3>2, ClocksAreDays DEF c
    <3>4. DayOf(v) <= d
      BY <1>3, <3>1, <3>3
    <3>5. DayOf(v) <= lastDay
      BY <2>1, <3>3, <3>4
    <3>6. DayOf(v) \in within
      BY <1>4, <3>1, <3>3, <3>5
    <3> QED
      BY <3>3, <3>4, <3>6
  <2>4. \A x, y \in S : 24 * x + c = 24 * y + c => x = y
    <3>1. c \in Int
      BY <1>1
    <3> HIDE DEF S
    <3> QED
      BY <2>2, <3>1
  <2>5. IsFiniteSet(T) /\ Place(W, w) = Cardinality(T)
    <3>1. W \in SUBSET ClocksOf(start) /\ w \in Int
      BY <1>3, WantedAre, Zenon DEF W
    <3> HIDE DEF w
    <3> QED
      BY <3>1, Ranks, Zenon DEF Place
  <2> HIDE DEF S, T
  <2>6. f \in [S -> T] /\ (\A x, y \in S : f[x] = f[y] => x = y) /\ \A v \in T : \E x \in S : f[x] = v
    BY <2>2, <2>3, <2>4
  <2>7. f \in Injection(S, T) /\ f \in Surjection(S, T)
    BY <2>6 DEF Injection, Surjection, IsInjective
  <2> HIDE DEF f
  <2>8. Cardinality(S) = Cardinality(T)
    BY <2>5, <2>7, FS_Injection
  <2> QED
    BY <2>5, <2>8
<1>7. 24 * d + Clock(start) \in Owed(r, start) <=> w \in W /\ (r.count = 0 \/ Place(W, w) <= r.count)
  BY DEF Owed, c, W
<1> HIDE DEF S, w
<1>8. d \in within <=> d <= lastDay /\ w \in W
  BY <1>4, <1>5 DEF w
<1>9. w \in W => s <= d
  BY <1>3 DEF w
<1> QED
  BY <1>2, <1>6, <1>7, <1>8, <1>9 DEF s

LEMMA ExpandIsMeant ==
    ASSUME NEW e \in Repeating, e.rule # NoRule, Parses(e.rule), NEW from \in Int, NEW to \in Int,
           WallLimit(e.zone, to) < 24 * Period(e.rule, DayOf(Wall(e.zone, e.start)), MaxPeriods).begins
    PROVE  Expand(e, from, to) = MeantInstances(e, from, to)
<1> DEFINE start == Wall(e.zone, e.start)
           dur   == Wall(e.zone, e.end) - start
           limit == WallLimit(e.zone, to)
           lastDay == DayOf(Wall(e.zone, to)) + 2
           r == e.rule
           c == Clock(start)
           at(w) == Instance(e, w, dur)
           Shown(i) == Overlaps(i.start, i.end, from, to)
<1>1. IsRule(r) /\ IsZone(e.zone) /\ start \in Int
  BY EventsRepeat
<1>2. limit \in Int /\ Wall(e.zone, to) \in Int /\ limit = Wall(e.zone, to) + 24
  BY <1>1, WallsAreNumbers DEF WallLimit
<1>3. lastDay \in Int /\ \A d \in Int : 24 * d <= limit => d <= lastDay
  BY <1>2 DEF DayOf
<1>4. \A w \in Int : w <= limit => (w \in Occurrences(r, start, limit) <=> w \in Owed(r, start))
  <2> HIDE DEF start, limit
  <2> QED
    BY <1>1, <1>2, RulesMeanWhatTheyPick DEF start, limit
<1>5. ASSUME NEW w \in Int, Shown(at(w))
      PROVE  w <= limit
  <2>1. Anchor(e.zone, w) < to
    BY <1>5 DEF Overlaps, Instance
  <2> QED
    BY <1>1, <2>1, SlackIsEnough
<1>6. Expand(e, from, to) = {i \in {at(w) : w \in Occurrences(r, start, limit)} : Shown(i)}
  BY DEF Expand
<1>7. MeantInstances(e, from, to) = {i \in {at(24 * d + c) : d \in Meant(r, start, lastDay)} : Shown(i)}
  BY DEF MeantInstances
<1>8. \A w \in Occurrences(r, start, limit) : w \in Int
  <2>1. Occurrences(r, start, limit) \subseteq ClocksOf(start)
    BY <1>1, <1>2, RulesEnd
  <2> HIDE DEF start, limit, r
  <2> QED
    BY <2>1 DEF ClocksOf
<1>9. \A d \in Meant(r, start, lastDay) : d \in Int
  <2>1. Meant(r, start, lastDay) \subseteq DayOf(start)..lastDay
    BY DEF Meant
  <2>2. DayOf(start) \in Int
    BY <1>1, ClockOfDay
  <2> HIDE DEF start, lastDay
  <2> QED
    BY <1>3, <2>1, <2>2
<1> HIDE DEF start, dur, limit, lastDay, r, at, Shown
<1>10. ASSUME NEW w \in Occurrences(r, start, limit), Shown(at(w))
       PROVE  \E d \in Meant(r, start, lastDay) : w = 24 * d + c
  <2>1. w \in Int /\ w <= limit /\ w \in Owed(r, start)
    BY <1>4, <1>5, <1>8, <1>10
  <2>2. w \in ClocksOf(start)
    BY <2>1 DEF Owed, Wanted
  <2>3. /\ DayOf(w) \in Int /\ w = 24 * DayOf(w) + c
        /\ \A b \in Int : 24 * b <= w <=> b <= DayOf(w)
    BY <1>1, <2>2, ClocksAreDays
  <2>4. DayOf(start) <= DayOf(w)
    BY <1>1, <2>2, <2>3, DaysAreClocks
  <2>5. DayOf(w) <= lastDay
    <3> DEFINE d == DayOf(w)
    <3> HIDE DEF d
    <3>1. d \in Int /\ 24 * d <= w
      BY <2>3 DEF d
    <3>2. 24 * d <= limit
      BY <1>2, <2>1, <3>1
    <3> QED
      BY <1>3, <3>1, <3>2 DEF d
  <2>6. DayOf(w) \in Meant(r, start, lastDay)
    <3> DEFINE d == DayOf(w)
    <3> HIDE DEF d
    <3>1. d \in Int /\ DayOf(start) <= d /\ d <= lastDay /\ 24 * d + c \in Owed(r, start)
      BY <2>1, <2>3, <2>4, <2>5 DEF d
    <3> QED
      BY <1>1, <1>3, <3>1, MeantIsOwed DEF d
  <2> QED
    BY <2>3, <2>6
<1>11. ASSUME NEW d \in Meant(r, start, lastDay), Shown(at(24 * d + c))
       PROVE  24 * d + c \in Occurrences(r, start, limit)
  <2>1. d \in Int
    BY <1>9
  <2>2. 24 * d + c \in Owed(r, start) /\ 24 * d + c \in Int
    BY <1>1, <1>3, <2>1, MeantIsOwed, DaysAreClocks
  <2> HIDE DEF c
  <2> QED
    BY <1>4, <1>5, <1>11, <2>2
<1> HIDE DEF c
<1> QED
  BY <1>6, <1>7, <1>10, <1>11

\* A client pages no further than the walks reach.
PagesReached ==
    /\ event.rule = NoRule \/ Parses(event.rule)
    /\ \E n \in Openings : first = event.start + n
    /\ next <= first + (Pages + 1) * Length(event)

LEMMA PagesStayInReach == Paging => []PagesReached
<1>1. Open => PagesReached
  <2> SUFFICES ASSUME Open
               PROVE  PagesReached
    OBVIOUS
  <2>1. PagingInv
    BY PagingStarts
  <2>2. Length(event) \in Nat /\ Pages \in Nat /\ first \in Int
    BY <2>1, PageLasts, PagesAssumption DEF PagingInv
  <2> DEFINE n == Length(event)
  <2> HIDE DEF n
  <2>3. (Pages + 1) * n \in Nat
    BY <2>2 DEF n
  <2>4. first <= first + (Pages + 1) * n
    BY <2>2, <2>3
  <2> QED
    BY <2>4 DEF Open, PagesReached, n
<1>2. PagingInv /\ PagesReached /\ [Page]_paging => PagesReached'
  <2> SUFFICES ASSUME PagingInv, PagesReached, [Page]_paging
               PROVE  PagesReached'
    OBVIOUS
  <2>1. CASE UNCHANGED paging
    BY <2>1 DEF PagesReached, paging, Length
  <2>2. CASE Page
    <3>1. Length(event) \in Nat /\ Pages \in Nat /\ first \in Int /\ next \in Int
      BY PageLasts, PagesAssumption DEF PagingInv
    <3>2. next < first + Pages * Length(event) /\ next' = next + Length(event) /\ event' = event /\ first' = first
      BY <2>2 DEF Page
    <3> DEFINE n == Length(event)
    <3> HIDE DEF n
    <3>3. (Pages + 1) * n = Pages * n + n /\ Pages * n \in Nat
      BY <3>1 DEF n
    <3>4. next' <= first + (Pages + 1) * n
      BY <3>1, <3>2, <3>3 DEF n
    <3>5. Length(event)' = n
      BY <3>2 DEF Length, n
    <3> QED
      BY <3>2, <3>4, <3>5 DEF PagesReached
  <2> QED
    BY <2>1, <2>2
<1> QED
  BY <1>1, <1>2, PagingKept, PTL DEF Paging

\* For every event, zone and rule that parses, and however a client pages: its pages show
\* together exactly the instances that the rule means, day by day (Instances, expandEvent,
\* expand), for as long as the walks have periods.
THEOREM PagesShowWhatIsMeant == Paging => []PagesAreExact
<1>1. PagingInv /\ PagesReached /\ PagesMeet => PagesAreExact
  <2> SUFFICES ASSUME PagingInv, PagesReached, PagesMeet, first < next, event.start < next
               PROVE  Lasting(seen) = Lasting(MeantInstances(event, first, next))
    BY DEF PagesAreExact
  <2>1. event \in Repeating /\ first \in Int /\ next \in Int
    BY DEF PagingInv
  <2>2. Lasting(seen) = Lasting(Expand(event, first, next))
    BY DEF PagesMeet, Instances
  <2>3. CASE event.rule = NoRule
    <3>1. Expand(event, first, next) = MeantInstances(event, first, next)
      BY <2>3 DEF Expand, MeantInstances
    <3> QED
      BY <2>2, <3>1
  <2>4. CASE event.rule # NoRule
    <3>1. PICK n \in Openings : first = event.start + n
      BY DEF PagesReached
    <3> DEFINE end == event.start + n + (Pages + 1) * Length(event)
               b == 24 * Period(event.rule, DayOf(Wall(event.zone, event.start)), MaxPeriods).begins
    <3>2. b > WallLimit(event.zone, end) + 24
      BY <2>1, <2>4, PeriodsAssumption
    <3>3. next <= end /\ Parses(event.rule)
      BY <2>4, <3>1 DEF PagesReached
    <3>4. end \in Int /\ b \in Int /\ IsZone(event.zone)
      <4>1. Length(event) \in Nat /\ Pages \in Nat /\ event.start \in Int /\ n \in Int
        BY <2>1, <3>1, PageLasts, EventsRepeat, PagesAssumption DEF PagingInv
      <4>2. (Pages + 1) * Length(event) \in Nat
        BY <4>1
      <4>3. end \in Int
        BY <4>1, <4>2
      <4>4. IsRule(event.rule) /\ Wall(event.zone, event.start) \in Int /\ IsZone(event.zone)
        BY <2>1, <2>4, EventsRepeat
      <4>5. DayOf(Wall(event.zone, event.start)) \in Int
        BY <4>4, ClockOfDay
      <4>6. Period(event.rule, DayOf(Wall(event.zone, event.start)), MaxPeriods).begins \in Int
        BY <4>4, <4>5, PeriodDays, PagesAssumption
      <4> QED
        BY <4>3, <4>4, <4>6
    <3> HIDE DEF end, b
    <3>5. WallLimit(event.zone, next) < b
      BY <2>1, <3>2, <3>3, <3>4 DEF WallLimit, Wall, Offset, IsZone
    <3>6. Expand(event, first, next) = MeantInstances(event, first, next)
      BY <2>1, <2>4, <3>3, <3>5, ExpandIsMeant DEF b
    <3> QED
      BY <2>2, <3>6
  <2> QED
    BY <2>3, <2>4
<1> QED
  BY <1>1, PagingKept, PagesStayInReach, PagesAreOne, PTL
=============================================================================
