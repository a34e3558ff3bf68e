------------------------------ MODULE Recurrence ------------------------------
(***************************************************************************)
(* The expansion of recurring events (go/botnet/rrule.go), and a client    *)
(* that pages through the calendar with it (Instances in store.go).        *)
(*                                                                         *)
(* Instants and wall clocks are counted in hours, days from the first of   *)
(* March of the year 0; a zone has one change of its offset.  A rule is    *)
(* what parseRRULE makes of its text.  The code sorts what it expands, so  *)
(* the days of a period and the clocks of an expansion are sets here.      *)
(***************************************************************************)
EXTENDS Integers, FiniteSets

CONSTANTS
    Repeating,    \* [start, end, zone, rule]: the events to page through
    Openings,     \* where a client begins to page, from the start of the event
    PageLength,   \* [frequency -> hours]: of a page of the calendar
    Pages,        \* bound: the pages of a client
    Looks,        \* how long before the end of a page somebody looks for what is fireable
    MaxPeriods    \* periods that an expansion walks through

VARIABLES
    event,        \* the one that is looked at
    first, next,  \* the pages have covered the instants in first .. next - 1
    seen          \* the instances that they have shown

paging == <<event, first, next, seen>>

Frequencies == {"daily", "weekly", "monthly", "yearly"}
NoRule == [freq |-> "none"]
NoUntil == -1

\* Offsets differ by a day at the most.
IsZone(zone) ==
    /\ {zone.change, zone.before, zone.after} \subseteq Int
    /\ zone.after - zone.before \in -24..24

\* The ranges of parseRRULE.
IsRule(r) ==
    /\ r.freq \in Frequencies /\ r.interval \in Nat \ {0} /\ r.count \in Nat /\ r.until \in Int
    /\ \A b \in r.byDay : b.ord \in -53..53 /\ b.wd \in 0..6
    /\ r.byMonthDay \subseteq (-31..31) \ {0} /\ r.byMonth \subseteq 1..12
    /\ r.bySetPos \subseteq (-366..366) \ {0} /\ r.wkst \in 0..6

ASSUME RepeatingAssumption ==
    \A e \in Repeating : /\ e.start \in Int /\ e.end \in Int /\ e.start < e.end
                         /\ IsZone(e.zone) /\ (e.rule = NoRule \/ IsRule(e.rule))

ASSUME PagesAssumption ==
    /\ Openings \subseteq Int /\ Looks \subseteq Nat \ {0} /\ Pages \in Nat /\ MaxPeriods \in Nat
    /\ \A f \in Frequencies \cup {NoRule.freq} : PageLength[f] \in Nat \ {0}

(***************************************************************************)
(* Dates.                                                                  *)
(***************************************************************************)
\* Days before the first day of a month; months of the calculation begin in March.
DayNumber(y, m, d) ==
    LET y0 == IF m <= 2 THEN y - 1 ELSE y
        before == (153 * ((m + 9) % 12) + 2) \div 5
    IN  365 * y0 + y0 \div 4 - y0 \div 100 + y0 \div 400 + before + d - 1

Date(n) ==
    LET era == n \div 146097
        doe == n % 146097
        yoe == (doe - doe \div 1460 + doe \div 36524 - doe \div 146096) \div 365
        doy == doe - (365 * yoe + yoe \div 4 - yoe \div 100)
        mp  == (5 * doy + 2) \div 153
        m   == IF mp < 10 THEN mp + 3 ELSE mp - 9
    IN  [y |-> yoe + 400 * era + (IF m <= 2 THEN 1 ELSE 0), m |-> m,
         d |-> doy - ((153 * mp + 2) \div 5) + 1]

\* 0 is Sunday; the first of March of the year 0 was a Wednesday.
Weekday(n) == (n + 3) % 7

DaysIn(y, m) ==
    IF m = 12 THEN 31 ELSE DayNumber(y, m + 1, 1) - DayNumber(y, m, 1)

DayOf(w) == w \div 24
Clock(w) == w % 24

(***************************************************************************)
(* Zones: [change, before, after], the offsets from the instant of the     *)
(* change on and before it.                                                *)
(***************************************************************************)
Offset(zone, t) == IF t < zone.change THEN zone.before ELSE zone.after

\* wallCarrier.
Wall(zone, t) == t + Offset(zone, t)

\* Mutant: the offset is looked up once.
AnchorOnce(zone, w) == w - Offset(zone, w)

\* anchor: time.Date looks the offset up as if the clock were an instant, and
\* once more if the instant it gets is on the other side of the change.
Anchor(zone, w) == w - Offset(zone, w - Offset(zone, w))

(***************************************************************************)
(* Rules: [freq, interval, count, until, byDay, byMonthDay, byMonth,       *)
(* bySetPos, wkst].                                                        *)
(***************************************************************************)
\* parseRRULE: what is left of its checks once the values are in their ranges.
Parses(r) ==
    /\ r.count = 0 \/ r.until = NoUntil
    /\ r.freq \in {"daily", "weekly"} => \A b \in r.byDay : b.ord = 0
    /\ r.freq = "weekly" => r.byMonthDay = {}
    /\ r.freq = "yearly" /\ r.byDay # {} => r.byMonth # {}
    /\ r.bySetPos # {} => r.byDay # {} \/ r.byMonthDay # {} \/ r.byMonth # {}

\* Where a member of a set of numbers is in their order, and the one in the i-th place;
\* a negative place counts from the last.
Place(S, x) == Cardinality({y \in S : y <= x})
PlaceFromLast(S, x) == Cardinality({y \in S : y >= x})
InPlace(S, i) == {x \in S : Place(S, x) = i \/ PlaceFromLast(S, x) = -i}

MonthAllowed(r, m) == r.byMonth = {} \/ m \in r.byMonth

\* A negative day counts from the end of a month of n days.
MonthDaySet(n, days) == {IF d < 0 THEN n + 1 + d ELSE d : d \in days} \cap 1..n

\* The n-th day of the week in the month, the n-th last, or every one.
ByDaySet(r, y, m, n) ==
    LET on(wd) == {d \in 1..n : Weekday(DayNumber(y, m, d)) = wd}
    IN  UNION {IF b.ord = 0 THEN on(b.wd) ELSE InPlace(on(b.wd), b.ord) : b \in r.byDay}

\* Of both parts, BYDAY limits what BYMONTHDAY expands to.
MonthDays(r, y, m, startDay) ==
    LET n == DaysIn(y, m)
    IN  CASE r.byMonthDay # {} /\ r.byDay # {} ->
               MonthDaySet(n, r.byMonthDay) \cap ByDaySet(r, y, m, n)
          [] r.byMonthDay # {} /\ r.byDay = {} -> MonthDaySet(n, r.byMonthDay)
          [] r.byMonthDay = {} /\ r.byDay # {} -> ByDaySet(r, y, m, n)
          [] OTHER -> {startDay} \cap 1..n

DayAllowed(r, day) ==
    LET date == Date(day)
    IN  /\ MonthAllowed(r, date.m)
        /\ r.byMonthDay # {} => date.d \in MonthDaySet(DaysIn(date.y, date.m), r.byMonthDay)
        /\ r.byDay # {} => \E b \in r.byDay : b.wd = Weekday(day)

StartOfWeek(day, wkst) == day - ((Weekday(day) - wkst + 7) % 7)

\* The candidates of a month, as days.
MonthCandidates(r, y, m, startDay) ==
    {DayNumber(y, m, d) : d \in MonthDays(r, y, m, startDay)}

\* The p-th period of a rule that starts on a day: the day it begins, and its candidates.
Period(r, day, p) ==
    LET date == Date(day)
    IN  CASE r.freq = "daily" ->
               LET d == day + p * r.interval
               IN  [begins |-> d, days |-> {x \in {d} : DayAllowed(r, x)}]
          [] r.freq = "weekly" ->
               LET week == StartOfWeek(day, r.wkst) + 7 * (p * r.interval)
                   weekdays == IF r.byDay = {} THEN {Weekday(day)} ELSE {b.wd : b \in r.byDay}
               IN  [begins |-> week,
                    days |-> {d \in week..(week + 6) : /\ Weekday(d) \in weekdays
                                                      /\ MonthAllowed(r, Date(d).m)}]
          [] r.freq = "monthly" ->
               LET idx == date.y * 12 + date.m - 1 + p * r.interval
                   y == idx \div 12
                   m == (idx % 12) + 1
               IN  [begins |-> DayNumber(y, m, 1),
                    days |-> IF MonthAllowed(r, m) THEN MonthCandidates(r, y, m, date.d) ELSE {}]
          [] r.freq = "yearly" ->
               LET y == date.y + p * r.interval
                   months == IF r.byMonth = {} THEN {date.m} ELSE r.byMonth
               IN  [begins |-> DayNumber(y, 1, 1),
                    days |-> UNION {MonthCandidates(r, y, m, date.d) : m \in months}]

ApplySetPos(days, pos) == IF pos = {} THEN days ELSE UNION {InPlace(days, i) : i \in pos}

PastUntil(r, w) == r.until # NoUntil /\ w > r.until

\* emit: what of a period is taken, when n have been before, and whether that was
\* the last one.
Emitted(r, start, n, days) ==
    LET begun  == {w \in {24 * d + Clock(start) : d \in days} : w >= start}
        within == {w \in begun : ~PastUntil(r, w)}
        taken  == {w \in within : r.count = 0 \/ n + Place(within, w) <= r.count}
    IN  [taken |-> taken, stop |-> taken # begun]

\* One turn of the loop of daily, weekly, monthly and yearly, of which out has been emitted.
Turn(r, start, limit, p, walked) ==
    LET period  == Period(r, DayOf(start), p)
        begins  == 24 * period.begins
        emitted == Emitted(r, start, Cardinality(walked.out), ApplySetPos(period.days, r.bySetPos))
    IN  IF walked.over \/ begins > limit \/ PastUntil(r, begins)
        THEN [out |-> walked.out, over |-> TRUE]
        ELSE [out |-> walked.out \cup emitted.taken, over |-> emitted.stop]

Occurrences(r, start, limit) ==
    LET walk[p \in 0..MaxPeriods] ==
            IF p = 0 THEN [out |-> {}, over |-> FALSE]
            ELSE Turn(r, start, limit, p - 1, walk[p - 1])
    IN  walk[MaxPeriods].out

\* Mutant: no slack.
WallLimitExact(zone, to) == Wall(zone, to)

\* A day of slack.
WallLimit(zone, to) == Wall(zone, to) + 24

Overlaps(st, en, from, to) == en > from /\ st < to

Instance(e, w, dur) ==
    [start |-> Anchor(e.zone, w), end |-> Anchor(e.zone, w + dur)]

\* expandEvent.
Expand(e, from, to) ==
    LET start == Wall(e.zone, e.start)
        dur == Wall(e.zone, e.end) - start
        all == IF e.rule = NoRule THEN {[start |-> e.start, end |-> e.end]}
               ELSE {Instance(e, w, dur) :
                        w \in Occurrences(e.rule, start, WallLimit(e.zone, to))}
    IN  {i \in all : Overlaps(i.start, i.end, from, to)}

\* Mutant: the overlap test of ListEvents, on the first occurrence.
InstancesOverlapping(e, from, to) ==
    IF Overlaps(e.start, e.end, from, to) THEN Expand(e, from, to) ELSE {}

\* Instances: by SQL, a rule is not looked at whose first occurrence is not yet.
Instances(e, from, to) == IF e.start < to THEN Expand(e, from, to) ELSE {}

\* Fireable: the instances that are active at an instant.
ActiveAt(e, at) == {i \in Expand(e, at, at + 1) : i.start <= at /\ at < i.end}

-----------------------------------------------------------------------------
Length(e) == PageLength[e.rule.freq]

\* The walk has periods enough to get past the last page of a client, and past the clocks
\* that are set back by a day at the most (maxPeriods).
ASSUME PeriodsAssumption ==
    \A e \in {x \in Repeating : x.rule # NoRule}, n \in Openings :
        24 * Period(e.rule, DayOf(Wall(e.zone, e.start)), MaxPeriods).begins
            > WallLimit(e.zone, e.start + n + (Pages + 1) * Length(e)) + 24

Open ==
    /\ event \in {e \in Repeating : e.rule = NoRule \/ Parses(e.rule)}
    /\ first \in {event.start + n : n \in Openings}
    /\ next = first
    /\ seen = {}

\* The next page.
Page ==
    /\ next < first + Pages * Length(event)
    /\ seen' = seen \cup Instances(event, next, next + Length(event))
    /\ next' = next + Length(event)
    /\ UNCHANGED <<event, first>>

Paging == Open /\ [][Page]_paging

-----------------------------------------------------------------------------
(***************************************************************************)
(* What a rule means, day by day.                                          *)
(***************************************************************************)
\* The period that a day is in, counted from the one of the start.
PeriodOf(r, day, d) ==
    CASE r.freq = "daily"   -> d - day
      [] r.freq = "weekly"  -> (StartOfWeek(d, r.wkst) - StartOfWeek(day, r.wkst)) \div 7
      [] r.freq = "monthly" -> 12 * (Date(d).y - Date(day).y) + Date(d).m - Date(day).m
      [] r.freq = "yearly"  -> Date(d).y - Date(day).y

\* The rank of a day among those of its month that fall on the same day of the week.
Ordinals(d) ==
    LET date == Date(d)
    IN  {0, (date.d + 6) \div 7, -((DaysIn(date.y, date.m) - date.d + 7) \div 7)}

\* The day satisfies the BY* parts, and what the start stands for where there is none.
Fits(r, day, d) ==
    LET date == Date(d)
        start == Date(day)
    IN  /\ r.byMonth # {} => date.m \in r.byMonth
        /\ r.byMonthDay # {} =>
              date.d \in r.byMonthDay \/ date.d - DaysIn(date.y, date.m) - 1 \in r.byMonthDay
        /\ r.byDay # {} => \E b \in r.byDay : b.wd = Weekday(d) /\ b.ord \in Ordinals(d)
        /\ r.byDay = {} /\ r.freq = "weekly" => Weekday(d) = Weekday(day)
        /\ r.byDay = {} /\ r.byMonthDay = {} /\ r.freq \in {"monthly", "yearly"} => date.d = start.d
        /\ r.byMonth = {} /\ r.freq = "yearly" => date.m = start.m

\* The days of the period of a day.
SpanOf(r, d) ==
    LET date == Date(d)
    IN  CASE r.freq = "daily"   -> {d}
          [] r.freq = "weekly"  -> StartOfWeek(d, r.wkst)..(StartOfWeek(d, r.wkst) + 6)
          [] r.freq = "monthly" -> (d - date.d + 1)..(d - date.d + DaysIn(date.y, date.m))
          [] r.freq = "yearly"  -> DayNumber(date.y, 1, 1)..DayNumber(date.y, 12, 31)

\* The rule picks the day, but for its end.
Picks(r, day, d) ==
    /\ PeriodOf(r, day, d) % r.interval = 0
    /\ Fits(r, day, d)
    /\ r.bySetPos # {} =>
          LET fit == {x \in SpanOf(r, d) : Fits(r, day, x)}
          IN  \/ Cardinality({x \in fit : x <= d}) \in r.bySetPos
              \/ -Cardinality({x \in fit : x >= d}) \in r.bySetPos

\* The days on which the event begins, up to a last one.
Meant(r, start, lastDay) ==
    LET day == DayOf(start)
        picked == {d \in day..lastDay : Picks(r, day, d)}
        within == {d \in picked : r.until # NoUntil => 24 * d + Clock(start) <= r.until}
    IN  IF r.count = 0 THEN within
        ELSE {d \in within : Cardinality({x \in within : x <= d}) <= r.count}

\* The days before the one of the last instant, and two more, are enough.
MeantInstances(e, from, to) ==
    LET start == Wall(e.zone, e.start)
        dur == Wall(e.zone, e.end) - start
        all == IF e.rule = NoRule THEN {[start |-> e.start, end |-> e.end]}
               ELSE {Instance(e, 24 * d + Clock(start), dur) :
                        d \in Meant(e.rule, start, DayOf(Wall(e.zone, to)) + 2)}
    IN  {i \in all : Overlaps(i.start, i.end, from, to)}

\* What is left of an instance whose end the clock skips may last no time at all, and
\* one of an event that begins in the second of two hours of one clock may be over
\* before it: these two are shown or not as the pages happen to meet.
Lasts(i) == i.start < i.end /\ event.start < i.end

Lasting(instances) == {i \in instances : Lasts(i)}

\* The pages of a client show, taken together, what the rule means, day by day:
\* nothing is lost or made up where two pages meet, by a period that the walk
\* skips, by the change of the offset, or by an early end (expandEvent).
PagesAreExact ==
    first < next /\ event.start < next =>
        Lasting(seen) = Lasting(MeantInstances(event, first, next))

\* At any instant from the start of the event on, what is fireable is what the calendar
\* shows as active: the window of an automation is the same from whichever end of the
\* calendar it is expanded (Fireable, Instances).
FireableIsShown ==
    \A at \in {next - n : n \in Looks} \cap first..next :
        event.start <= at => ActiveAt(event, at) = {i \in seen : i.start <= at /\ at < i.end}

\* The clock that an instant shows, or, off by what the zone skips, one that no instant shows.
KeepsClock(zone, t, clock) ==
    LET skip == zone.after - zone.before
        wall == Wall(zone, t)
    IN  \/ Clock(wall) = clock
        \/ \E w \in {wall - skip, wall + skip} :
              Clock(w) = clock /\ \A u \in (t - 48)..(t + 48) : Wall(zone, u) # w

\* An instance begins and ends at the clock of the event on both sides of a change
\* of the offset, except where no instant has that clock (anchor).
ClockIsKept ==
    \A i \in {j \in seen : event.rule # NoRule} :
        /\ KeepsClock(event.zone, i.start, Clock(Wall(event.zone, event.start)))
        /\ KeepsClock(event.zone, i.end, Clock(Wall(event.zone, event.end)))

\* "A rule cannot produce an instance before its own first occurrence", as a comment of
\* Instances says, and the bound that it pushes into SQL relies on it (expandEvent).  An
\* event that begins in the second of two hours of one clock is expanded from the first.
NothingBeforeStart == \A i \in Expand(event, first, next) : i.start >= event.start
=============================================================================
