---------------------------- MODULE MCRecurrence ----------------------------
(***************************************************************************)
(* Events around changes of the offset: rules of every frequency and every *)
(* part, ends by COUNT and by UNTIL, and clocks in and next to the hours   *)
(* that are skipped and repeated.                                          *)
(***************************************************************************)
EXTENDS Recurrence

MCOpenings == {-30, 3}

MCPageLength ==
    [none |-> 20, daily |-> 55, weekly |-> 17 * 24 + 5, monthly |-> 50 * 24 + 7,
     yearly |-> 300 * 24 + 11]

Instant(y, m, d, h) == 24 * DayNumber(y, m, d) + h

NewYorkSpring == [change |-> Instant(2024, 3, 10, 7), before |-> -5, after |-> -4]
NewYorkAutumn == [change |-> Instant(2024, 11, 3, 6), before |-> -4, after |-> -5]
BerlinSpring == [change |-> Instant(2024, 3, 31, 1), before |-> 1, after |-> 2]
\* Samoa went over the date line: the 30th of December 2011 is missing.
Apia == [change |-> Instant(2011, 12, 30, 10), before |-> -10, after |-> 14]

Zones == {NewYorkSpring, NewYorkAutumn, BerlinSpring, Apia}

Every(f, n) == [freq |-> f, interval |-> n, count |-> 0, until |-> NoUntil, byDay |-> {},
                byMonthDay |-> {}, byMonth |-> {}, bySetPos |-> {}, wkst |-> 1]

On(wd) == [ord |-> 0, wd |-> wd]
Nth(n, wd) == [ord |-> n, wd |-> wd]
Workdays == {On(wd) : wd \in 1..5}

Daily ==
    LET r(n) == Every("daily", n)
    IN  {r(1), r(2), r(3)}
        \cup {[r(n) EXCEPT !.byDay = {On(0), On(3)}] : n \in {1, 3}}
        \cup {[r(1) EXCEPT !.byMonthDay = {-1, 10}], [r(1) EXCEPT !.byMonth = {1, 3}],
              [r(1) EXCEPT !.byMonthDay = {1, 11}, !.bySetPos = {-1}]}

Weekly ==
    LET r(n) == Every("weekly", n)
    IN  {r(1), r(2)}
        \cup {[r(2) EXCEPT !.byDay = {On(0), On(2), On(5)}, !.wkst = w] : w \in {0, 1, 4}}
        \cup {[r(1) EXCEPT !.byDay = Workdays, !.bySetPos = {2, -1}],
              [r(1) EXCEPT !.byDay = {On(0)}, !.byMonth = {3, 4, 11}]}
        \* refused
        \cup {[r(1) EXCEPT !.byMonthDay = {10}], [r(1) EXCEPT !.byDay = {Nth(1, 0)}],
              [r(1) EXCEPT !.bySetPos = {1}]}

Monthly ==
    LET r(n) == Every("monthly", n)
    IN  {r(1), r(2), [r(1) EXCEPT !.byMonthDay = {31}], [r(1) EXCEPT !.byMonthDay = {-1, 10}],
         [r(1) EXCEPT !.byDay = {Nth(1, 0), Nth(-1, 5)}], [r(1) EXCEPT !.byDay = {Nth(5, 0)}],
         [r(1) EXCEPT !.byDay = {Nth(-5, 0), Nth(2, 0)}],
         [r(1) EXCEPT !.byDay = {On(0), On(5)}, !.byMonthDay = 8..14],
         [r(1) EXCEPT !.byDay = Workdays, !.bySetPos = {-1, -2}],
         [r(2) EXCEPT !.byMonth = {1, 3, 11}]}

Yearly ==
    LET r(n) == Every("yearly", n)
    IN  {r(1), [r(1) EXCEPT !.byMonth = {1, 3}],
         [r(1) EXCEPT !.byMonth = {3, 11}, !.byDay = {Nth(2, 0)}],
         [r(1) EXCEPT !.byMonth = {2}, !.byMonthDay = {29}],
         [r(1) EXCEPT !.byMonth = {1, 12}, !.byDay = {On(0)}, !.bySetPos = {1, -1}],
         [r(2) EXCEPT !.byMonthDay = {-1}],
         \* refused
         [r(1) EXCEPT !.byDay = {On(0)}]}

\* With a limit: none, a few occurrences, a clock exactly on or just before one.
Limited(r, wall) ==
    {r, [r EXCEPT !.count = 1], [r EXCEPT !.count = 4], [r EXCEPT !.until = wall + 9 * 24],
     [r EXCEPT !.until = wall + 9 * 24 - 1], [r EXCEPT !.count = 2, !.until = wall]}

\* Events that begin some days before the change, and at such clocks.
EventsOf(rules, days, clocks, lengths) ==
    UNION {LET wall == 24 * (DayOf(Wall(zone, zone.change)) - days) + clock
           IN  {[zone |-> zone, start |-> Anchor(zone, wall), end |-> Anchor(zone, wall) + n,
                 rule |-> rule] :
                    n \in lengths, rule \in UNION {Limited(r, wall) : r \in rules}} :
           zone \in Zones, clock \in clocks}

Single == {[zone |-> z, start |-> z.change - 2, end |-> z.change + n, rule |-> NoRule] :
              z \in Zones, n \in {-1, 30}}

\* Events that begin in the second of the hours that have the same clock.
RepeatedEvents ==
    {[zone |-> NewYorkAutumn, start |-> NewYorkAutumn.change, end |-> NewYorkAutumn.change + n,
      rule |-> r] : r \in Daily \cup Weekly, n \in 1..3}

MCRepeating ==
    Single
    \cup EventsOf(Daily, 4, {0, 1, 2, 12}, {1, 30})
    \cup EventsOf(Weekly, 14, {0, 2}, {1, 30})
    \cup EventsOf(Monthly, 30, {0, 2}, {3})
    \cup EventsOf(Yearly, 366, {2}, {3})
    \cup RepeatedEvents
=============================================================================
