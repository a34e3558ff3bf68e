----------------------------- MODULE MCProjects -----------------------------
(* Projects on small instances.  A behaviour starts from a state that four   *)
(* writes reach: a project in a project, a dated fact, and its shadow.       *)
EXTENDS Projects

CONSTANTS A, B, C

Input(kind, title, due, every, count, blocked) ==
    [kind |-> kind, title |-> title, due |-> due, lead |-> 0, every |-> every,
     count |-> count, done |-> FALSE, blocked |-> blocked]

Deadline == Input("deadline", "x", 3, 1, 0, FALSE)

MCNewFacts ==
    {Deadline, Input("recurring", "x", 1, 1, 2, FALSE), Input("milestone", "y", 0, 1, 0, TRUE)}

MCFactPatches ==
    {[done |-> TRUE], [due |-> 2], [lead |-> 1], [title |-> "y"]}

MCEventPatches == {[start |-> 2], [automation |-> "fetch"]}

MCCalendarPatches ==
    {[name |-> "Projects"], [name |-> "Other"], [executable |-> TRUE], [executable |-> FALSE]}

MCInit ==
    /\ projects = <<[name |-> A, parent |-> None, lead |-> 2, owner |-> NoBot],
                    [name |-> B, parent |-> 1, lead |-> 0, owner |-> NoBot]>>
    /\ facts = <<Patched(Deadline, [project |-> 2, event |-> 1])>>
    /\ calendars = <<[name |-> Shadows, executable |-> FALSE]>>
    /\ events = <<Shadow(projects[2], facts[1], 1)>>
    /\ bots = Bots
    /\ leaving = {}
    /\ emptied = {}
    /\ lastProject = 2
    /\ lastFact = 1
    /\ lastCalendar = 1
    /\ lastEvent = 1
    /\ touched = {}
    /\ writes = 0

MCSpec == MCInit /\ [][Next]_vars

=============================================================================
