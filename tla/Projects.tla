------------------------------ MODULE Projects ------------------------------
(***************************************************************************)
(* Projects and facts (go/botnet/projects.go): the tree, whose parents are *)
(* checked on every write, the facts, and the shadow that an undone dated  *)
(* fact casts on the calendar.  A write is one transaction, so it is one   *)
(* action with all it does to the calendar; deleting a bot is several.     *)
(*                                                                         *)
(* Every client may send any of these at any time.  A request that names a *)
(* row that is gone, or is not valid, changes nothing and is no step.      *)
(***************************************************************************)
EXTENDS Calendars, ProjectHealth, Sequences

CONSTANTS
    Bots,
    ProjectNames,
    ProjectLeads,    \* the lead windows a project may set; 0 sets none
    NewFacts,        \* the facts that are asked to be created
    Days,            \* the days at which somebody looks
    FactPatches,     \* the patches of facts that are asked for
    EventPatches,    \* the patches of events that are asked for
    CalendarPatches, \* the patches of calendars that are asked for
    MaxProjects, MaxFacts,   \* bounds on how many are ever created
    MaxWrites        \* bound on the requests of a behaviour

\* What a request gives of a fact: neither its project, once it is made, nor its event.
FactFields == {"kind", "title", "due", "lead", "every", "count", "done", "blocked"}

\* Days and windows are numbers, and no window is negative (validateFact).
FieldsTyped(fields) ==
    /\ \A number \in {"due", "lead", "every", "count"} \cap DOMAIN fields : fields[number] \in Nat
    /\ \A flag \in {"done", "blocked"} \cap DOMAIN fields : fields[flag] \in BOOLEAN

ASSUME FactsAssumption ==
    /\ \A input \in NewFacts : /\ DOMAIN input = FactFields /\ input.kind \in DOMAIN FactRules
                               /\ FieldsTyped(input)
    /\ \A patch \in FactPatches : DOMAIN patch \subseteq FactFields \ {"kind"} /\ FieldsTyped(patch)

\* validateProject; and somebody looks on a day there is.
ASSUME WindowsAssumption == ProjectLeads \subseteq Nat /\ Days \subseteq Nat \ {None}

\* A title of two parts is a projected one.
ASSUME EventsAssumption ==
    /\ NoAutomation \in Automations
    /\ \A patch \in EventPatches :
          /\ DOMAIN patch \subseteq {"title", "start", "every", "count", "automation"}
          /\ "title" \in DOMAIN patch => Len(patch.title) = 1
          /\ "automation" \in DOMAIN patch => patch.automation \in Automations

ASSUME CalendarsAssumption ==
    \A patch \in CalendarPatches :
       /\ DOMAIN patch \subseteq {"name", "executable"}
       /\ "name" \in DOMAIN patch => patch.name \in CalendarNames
       /\ "executable" \in DOMAIN patch => patch.executable \in BOOLEAN

ASSUME BoundsAssumption == {MaxProjects, MaxFacts, MaxCalendars, MaxEvents} \subseteq Nat

VARIABLES
    projects,      \* id -> [name, parent, lead, owner]
    facts,         \* id -> [project, title, kind, due, ..., event]
    bots,          \* the bots there are
    leaving,       \* those whose deletion has cleared their projects
    lastProject, lastFact,   \* the ids handed out
    touched,       \* history: the shadows edited since their fact was written
    writes         \* bound

projectVars == <<projects, facts, bots, leaving, lastProject, lastFact>>
vars == <<calendarVars, projectVars, touched, writes>>

ProjectIds == 1..MaxProjects
Rows(table) == {table[i] : i \in DOMAIN table}

(***************************************************************************)
(* The tree.                                                               *)
(***************************************************************************)
Ancestors(p) ==
    LET above[n \in 0..MaxProjects] ==
            IF n = 0 THEN {p}
            ELSE LET below == above[n - 1]
                 IN  below \cup {projects[a].parent : a \in below \cap DOMAIN projects}
    IN  above[MaxProjects]

\* Mutant: no walk up from the new parent.
ParentExists(child, parent) ==
    parent # None => parent \in DOMAIN projects /\ child # parent

\* requireParentable: the parent exists and is not below the child.
Parentable(child, parent) ==
    parent # None => parent \in DOMAIN projects /\ child \notin Ancestors(parent)

RequireOwner(owner) == owner \in bots \cup {NoBot}

(***************************************************************************)
(* The shadow of a fact.                                                   *)
(***************************************************************************)
FactNeedsEvent(f) == ~f.done /\ f.kind \in {"deadline", "recurring"}

ProjectedTitle(project, f) == <<project.name, f.title>>

Shadow(project, f, c) ==
    [calendar |-> c, title |-> ProjectedTitle(project, f), start |-> f.due,
     every |-> f.every, count |-> f.count, automation |-> NoAutomation]

\* projectFact: the tables with the shadow brought into line, and the fact's pointer to it.
ProjectFact(project, f) ==
    LET t  == Ensured(Tables, Shadows)
        ev == Shadow(project, f, TheCalendar(t, Shadows))
    IN  IF ~FactNeedsEvent(f)
        THEN [tables |-> [Tables EXCEPT !.events = Without(@, {f.event})], event |-> None]
        ELSE IF f.event \in DOMAIN events
        THEN [tables |-> UpdatedEvent(t, f.event, ev), event |-> f.event]
        ELSE [tables |-> InsertedEvent(t, ev), event |-> lastEvent + 1]

UniqueTitle(project, self, title) ==
    \A f \in DOMAIN facts \ {self} : facts[f].project = project => facts[f].title # title

\* Mutant: a rename leaves the shadows alone.
KeepTitles(p, project) == events

\* retitleProjectedEvents
Retitled(p, project) ==
    LET shadows == {f \in DOMAIN facts : facts[f].project = p /\ facts[f].event \in DOMAIN events}
    IN  [e \in DOMAIN events |->
            IF \E f \in shadows : facts[f].event = e
            THEN LET f == CHOOSE f \in shadows : facts[f].event = e
                 IN  [events[e] EXCEPT !.title = ProjectedTitle(project, facts[f])]
            ELSE events[e]]

(***************************************************************************)
(* The writes.                                                             *)
(***************************************************************************)
CreateProject(name, parent, lead, owner) ==
    /\ lastProject < MaxProjects
    /\ ~NameTaken(projects, name, None)
    /\ Parentable(lastProject + 1, parent)
    /\ RequireOwner(owner)
    /\ lastProject' = lastProject + 1
    /\ projects' = Inserted(projects, lastProject + 1,
                    [name |-> name, parent |-> parent, lead |-> lead, owner |-> owner])
    /\ UNCHANGED <<calendarVars, facts, bots, leaving, lastFact, touched>>

UpdateProject(p, patch) ==
    LET new == Patched(projects[p], patch)
    IN  /\ ~NameTaken(projects, new.name, p)
        /\ Parentable(p, new.parent)
        /\ RequireOwner(new.owner)
        /\ projects' = [projects EXCEPT ![p] = new]
        /\ events' = IF new.name # projects[p].name THEN Retitled(p, new) ELSE events
        /\ UNCHANGED <<calendars, lastCalendar, lastEvent, emptied, facts, bots, leaving,
                       lastProject, lastFact, touched>>

\* The shadows that go with the facts of a set of projects.
ShadowsOf(ids) == {facts[f].event : f \in {g \in DOMAIN facts : facts[g].project \in ids}}

DeleteProject(p) ==
    LET gone == Subtree(projects, p)
    IN  /\ events' = Without(events, ShadowsOf(gone))
        /\ facts' = Without(facts, {f \in DOMAIN facts : facts[f].project \in gone})
        /\ projects' = Without(projects, gone)
        /\ UNCHANGED <<calendars, lastCalendar, lastEvent, emptied, bots, leaving,
                       lastProject, lastFact, touched>>

CreateFact(p, input) ==
    LET f    == Patched([project |-> p, event |-> None], input)
        done == ProjectFact(projects[p], f)
    IN  /\ lastFact < MaxFacts
        /\ ValidFact(f)
        /\ UniqueTitle(p, None, f.title)
        /\ Write(done.tables)
        /\ lastFact' = lastFact + 1
        /\ facts' = Inserted(facts, lastFact + 1, [f EXCEPT !.event = done.event])
        /\ UNCHANGED <<emptied, projects, bots, leaving, lastProject, touched>>

UpdateFact(id, patch) ==
    LET f    == Patched(facts[id], patch)
        done == ProjectFact(projects[f.project], f)
    IN  /\ ValidFact(f)
        /\ UniqueTitle(f.project, id, f.title)
        /\ Write(done.tables)
        /\ facts' = [facts EXCEPT ![id] = [f EXCEPT !.event = done.event]]
        /\ touched' = touched \ {done.event}
        /\ UNCHANGED <<emptied, projects, bots, leaving, lastProject, lastFact>>

DeleteFact(id) ==
    /\ events' = Without(events, {facts[id].event})
    /\ facts' = Without(facts, {id})
    /\ UNCHANGED <<calendars, lastCalendar, lastEvent, emptied, projects, bots, leaving,
                   lastProject, lastFact, touched>>

(***************************************************************************)
(* DeleteBot clears the projects of the bot first and removes it last.     *)
(***************************************************************************)
ClearOwner(b) ==
    /\ b \in bots
    /\ leaving' = leaving \cup {b}
    /\ projects' = [p \in DOMAIN projects |->
                       IF projects[p].owner = b THEN [projects[p] EXCEPT !.owner = NoBot]
                       ELSE projects[p]]
    /\ UNCHANGED <<calendarVars, facts, bots, lastProject, lastFact, touched>>

DeleteRow(b) ==
    /\ b \in leaving
    /\ leaving' = leaving \ {b}
    /\ bots' = bots \ {b}
    /\ UNCHANGED <<calendarVars, projects, facts, lastProject, lastFact, touched>>

\* The server dies: what was half done stays so.
Crash ==
    /\ leaving \cup emptied # {}
    /\ leaving' = {}
    /\ emptied' = {}
    /\ UNCHANGED <<calendars, events, lastCalendar, lastEvent, projects, facts, bots,
                   lastProject, lastFact, touched>>

(***************************************************************************)
(* The calendar, which anyone may edit.                                    *)
(***************************************************************************)
EditCalendar ==
    \/ \E name \in CalendarNames, executable \in BOOLEAN : CreateCalendar(name, executable)
    \/ \E c \in DOMAIN calendars, patch \in CalendarPatches : UpdateCalendar(c, patch)
    \/ \E c \in DOMAIN calendars : DeleteCalendar(c) \/ CountEvents(c)
    \/ \E c \in emptied : DeleteEmptyCalendar(c)

BookOrCancel ==
    \/ \E c \in DOMAIN calendars \cup {NoCalendar}, a \in Automations :
          CreateEvent(c, "user", 1, a)
    \/ \E e \in DOMAIN events : DeleteEvent(e)

EditEvent ==
    \E e \in DOMAIN events :
        /\ \/ \E patch \in EventPatches : UpdateEvent(e, patch)
           \/ \E c \in DOMAIN calendars : UpdateEvent(e, [calendar |-> c])
        /\ touched' = touched \cup {e}

ProjectRequest ==
    \/ \E name \in ProjectNames, parent \in DOMAIN projects \cup {None}, lead \in ProjectLeads,
          owner \in Bots \cup {NoBot} : CreateProject(name, parent, lead, owner)
    \/ \E p \in DOMAIN projects :
          \/ \E name \in ProjectNames : UpdateProject(p, [name |-> name])
          \/ \E parent \in DOMAIN projects \cup {None} : UpdateProject(p, [parent |-> parent])
          \/ \E lead \in ProjectLeads : UpdateProject(p, [lead |-> lead])
          \/ \E owner \in Bots \cup {NoBot} : UpdateProject(p, [owner |-> owner])
          \/ DeleteProject(p)

FactRequest ==
    \/ \E p \in DOMAIN projects, input \in NewFacts : CreateFact(p, input)
    \/ \E f \in DOMAIN facts :
          \/ \E patch \in FactPatches : UpdateFact(f, patch)
          \/ DeleteFact(f)

Request ==
    \/ ProjectRequest \/ FactRequest
    \/ \E b \in Bots : ClearOwner(b) \/ DeleteRow(b)
    \/ Crash
    \/ (EditCalendar \/ BookOrCancel) /\ UNCHANGED <<projectVars, touched>>
    \/ EditEvent /\ UNCHANGED projectVars

Init ==
    /\ InitCalendars
    /\ projects = <<>>
    /\ facts = <<>>
    /\ bots = Bots
    /\ leaving = {}
    /\ lastProject = 0
    /\ lastFact = 0
    /\ touched = {}
    /\ writes = 0

Next ==
    /\ writes < MaxWrites
    /\ writes' = writes + 1
    /\ Request

Spec == Init /\ [][Next]_vars

-----------------------------------------------------------------------------
\* The shapes of the tables, and that each id was handed out.
TypeOK ==
    /\ calendars \in [DOMAIN calendars -> [name : CalendarNames, executable : BOOLEAN]]
    /\ DOMAIN calendars \subseteq 1..lastCalendar /\ lastCalendar <= MaxCalendars
    /\ DOMAIN events \subseteq 1..lastEvent /\ lastEvent <= MaxEvents
    /\ \A ev \in Rows(events) : ev.automation \in Automations
    /\ DOMAIN projects \subseteq 1..lastProject /\ lastProject <= MaxProjects
    /\ \A q \in Rows(projects) : /\ q.name \in ProjectNames
                                 /\ q.parent \in 0..lastProject
                                 /\ q.lead \in ProjectLeads
                                 /\ q.owner \in Bots \cup {NoBot}
    /\ DOMAIN facts \subseteq 1..lastFact /\ lastFact <= MaxFacts
    /\ \A f \in Rows(facts) : ValidFact(f) /\ FieldsTyped(f) /\ f.event \in 0..lastEvent
    /\ leaving \subseteq bots /\ bots \subseteq Bots
    /\ emptied \subseteq 1..lastCalendar

\* Whatever is moved and deleted, the projects are a forest: each has its
\* parent, and none is above itself (requireParentable, DeleteProject).
IsForest ==
    \A p \in DOMAIN projects :
        /\ projects[p].parent \in DOMAIN projects \cup {None}
        /\ p \notin Ancestors(projects[p].parent)

\* No fact outlives its project and no event its calendar, through every
\* cascade and every move.
NothingDangles ==
    /\ \A f \in Rows(facts) : f.project \in DOMAIN projects
    /\ \A ev \in Rows(events) : ev.calendar \in DOMAIN calendars

\* A fact has a shadow exactly if it is dated and undone, and the shadow, if
\* the user has neither edited nor deleted it, says what the fact and the name
\* of its project say now (projectFact, retitleProjectedEvents); and the calendar
\* shows no shadow of a fact that is gone or done, and none twice.
ShadowsAreExact ==
    /\ \A f \in Rows(facts) :
          /\ FactNeedsEvent(f) <=> f.event # None
          /\ f.event \in DOMAIN events \ touched =>
                 events[f.event] = Shadow(projects[f.project], f, events[f.event].calendar)
    /\ \A e \in DOMAIN events :
          Len(events[e].title) = 2 => Cardinality({f \in DOMAIN facts : facts[f].event = e}) = 1

(***************************************************************************)
(* What a project answers for, told without the walk over the tree.        *)
(***************************************************************************)
Below(p) == {f \in Rows(facts) : p \in Ancestors(f.project)}

\* The value set nearest above p.
NearestAbove(p, own, unset, default) ==
    LET set == {a \in Ancestors(p) \ {None} : own[a] # unset}
    IN  IF set = {} THEN default
        ELSE own[CHOOSE a \in set : \A b \in set : b \in Ancestors(a)]

LeadAbove(f) ==
    IF f.lead > 0 THEN f.lead
    ELSE NearestAbove(f.project, [p \in DOMAIN projects |-> projects[p].lead], 0, DefaultLeadDays)

ReferenceHealth(p, now) ==
    LET open == {f \in Below(p) : ~f.done}
        looming(f) == /\ f.kind \in {"deadline", "recurring"}
                      /\ \E d \in Occurrences(f) : now <= d /\ d <= now + LeadAbove(f)
                                                  /\ \A c \in Occurrences(f) : c < now \/ d <= c
    IN  IF \E f \in open : f.kind = "deadline" /\ f.due <= now THEN "overdue"
        ELSE IF \E f \in open : f.blocked THEN "blocked"
        ELSE IF \E f \in open : looming(f) THEN "due_soon"
        ELSE IF Below(p) # {} THEN "ok" ELSE "unknown"

\* On every day, the health served of a project is the worst that any undone
\* fact anywhere below it has earned, with the lead windows as inherited.
HealthAnswersForSubtree ==
    \A now \in Days :
        LET forest == Forest(projects, Rows(facts), bots, now)
        IN  \A p \in DOMAIN projects : forest[p].health = ReferenceHealth(p, now)

\* A project that is loud has a fact to blame, so that the nudge about it
\* names one (drivingFacts).
LoudProjectsNameFacts ==
    \A now \in Days :
        LET forest == Forest(projects, Rows(facts), bots, now)
        IN  \A p \in DOMAIN projects :
                forest[p].severity # "tracked" =>
                    DrivingFacts(projects, Rows(facts), p, forest, now) # {}

\* A pointer at an owner never outlives the bot, as schema.go says of DeleteBot.
OwnerHasBot == \A q \in Rows(projects) : q.owner \in bots \cup {NoBot}

\* No write of an event, and no projection of a fact, brings an automation onto a
\* calendar that is not executable; only making the calendar plain does.
AutomationNeedsExecutable ==
    [][\A e \in DOMAIN events' :
          /\ events'[e].automation # NoAutomation
          /\ ~calendars'[events'[e].calendar].executable
          => /\ e \in DOMAIN events
             /\ events'[e].automation = events[e].automation
             /\ events'[e].calendar = events[e].calendar]_vars
=============================================================================
