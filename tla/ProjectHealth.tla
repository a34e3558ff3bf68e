--------------------------- MODULE ProjectHealth ---------------------------
(***************************************************************************)
(* What the server derives from its projects and facts on every read: the  *)
(* health of a project, its next date, the lead window and the owner it    *)
(* inherits (go/botnet/projects.go).  Nothing here has state; the tables   *)
(* are parameters.  Days are naturals from 1, and 0 is "no date".          *)
(*                                                                         *)
(* A fact is a record with the fields project, kind, due, lead, every,     *)
(* count, done, blocked.  every and count stand for the rule of a          *)
(* recurring fact: count occurrences, every so many days from due on; a    *)
(* count of 0 is no rule.                                                  *)
(***************************************************************************)
EXTENDS Integers, FiniteSets, FiniteSetsExt

CONSTANTS
    DefaultLeadDays,   \* the lead window nobody above has set
    NoBot              \* the owner of a project that has none

ASSUME LeadAssumption == DefaultLeadDays \in Nat \ {0}

None == 0

Healths == {"unknown", "ok", "due_soon", "blocked", "overdue"}

HealthRank == [unknown |-> 0, ok |-> 1, due_soon |-> 2, blocked |-> 3, overdue |-> 4]

SeverityOf == [unknown |-> "tracked", ok |-> "tracked", due_soon |-> "should",
               blocked |-> "should", overdue |-> "now"]

Worst(healths) == CHOOSE h \in healths : \A g \in healths : HealthRank[g] <= HealthRank[h]

Nearest(days) == IF days \ {None} = {} THEN None ELSE Min(days \ {None})

(***************************************************************************)
(* What one undone fact contributes.                                       *)
(***************************************************************************)
Occurrences(f) == {f.due + k * f.every : k \in {0} \cup 0..(f.count - 1)}

NextOccurrence(f, now) == Nearest({d \in Occurrences(f) : d >= now})

Signal(f, lead, now) ==
    LET within(d) == IF d - lead <= now THEN "due_soon" ELSE "ok"
        next == NextOccurrence(f, now)
    IN  CASE f.kind = "deadline"  -> [health |-> IF f.due <= now THEN "overdue"
                                                 ELSE within(f.due),
                                      due |-> f.due]
          [] f.kind = "recurring" -> [health |-> IF next = None THEN "ok" ELSE within(next),
                                      due |-> next]
          [] f.kind = "milestone" -> [health |-> IF f.blocked THEN "blocked" ELSE "ok",
                                      due |-> None]
          [] f.kind = "note"      -> [health |-> "ok", due |-> None]

LeadFor(f, projectLead) == IF f.lead > 0 THEN f.lead ELSE projectLead

(***************************************************************************)
(* The health of a project by its own facts, of which those that are done  *)
(* count in nothing but that there are some.                               *)
(***************************************************************************)
OwnHealth(facts, lead, now) ==
    LET signals == {Signal(f, LeadFor(f, lead), now) : f \in {g \in facts : ~g.done}}
    IN  [health |-> IF facts = {} THEN "unknown"
                    ELSE Worst({"ok"} \cup {s.health : s \in signals}),
         due    |-> Nearest({s.due : s \in signals})]

(***************************************************************************)
(* The tree.  A project whose parent is gone is a root.                    *)
(***************************************************************************)
IsRoot(projects, p) == projects[p].parent \notin DOMAIN projects \ {p}

Children(projects, p) ==
    {c \in DOMAIN projects : ~IsRoot(projects, c) /\ projects[c].parent = p}

\* A forest has heights at which what is below is lower, none above the number of projects.
HasHeights(projects) ==
    \E height \in [DOMAIN projects -> 0..Cardinality(DOMAIN projects)] :
        \A p \in DOMAIN projects : \A c \in Children(projects, p) : height[c] < height[p]

Subtree(projects, root) ==
    LET level[n \in 0..Cardinality(DOMAIN projects)] ==
            IF n = 0 THEN {root}
            ELSE LET above == level[n - 1]
                 IN  above \cup UNION {Children(projects, p) : p \in above}
    IN  level[Cardinality(DOMAIN projects)]

\* rollUp, on a forest.  What flows down: the project's own value, or that of its parent.
Inherited(projects, own, unset, default) ==
    LET value[p \in DOMAIN projects] ==
            IF own[p] # unset THEN own[p]
            ELSE IF IsRoot(projects, p) THEN default ELSE value[projects[p].parent]
    IN  value

\* What folds up: the worst health and the nearest date of the project and its children.
RolledUp(projects, own) ==
    LET fold[p \in DOMAIN projects] ==
            LET below == {fold[c] : c \in Children(projects, p)} \cup {own[p]}
            IN  [health |-> Worst({b.health : b \in below}),
                 due    |-> Nearest({b.due : b \in below})]
    IN  fold

\* An owner that is no bot reads as none.
LiveOwner(projects, bots, p) ==
    IF projects[p].owner \in bots THEN projects[p].owner ELSE NoBot

Owners(projects, bots) ==
    Inherited(projects, [p \in DOMAIN projects |-> LiveOwner(projects, bots, p)], NoBot, NoBot)

\* Mutant: the first pass of loadForest, before anything is inherited.
OwnLeads(projects) ==
    [p \in DOMAIN projects |-> IF projects[p].lead > 0 THEN projects[p].lead ELSE DefaultLeadDays]

Leads(projects) ==
    Inherited(projects, [p \in DOMAIN projects |-> projects[p].lead], 0, DefaultLeadDays)

\* loadForest: what is served of every project at the instant now.
Forest(projects, facts, bots, now) ==
    LET leads  == Leads(projects)
        owners == Owners(projects, bots)
        own    == [p \in DOMAIN projects |->
                      OwnHealth({f \in facts : f.project = p}, leads[p], now)]
        rolled == RolledUp(projects, own)
    IN  [p \in DOMAIN projects |->
            [health   |-> rolled[p].health,
             severity |-> SeverityOf[rolled[p].health],
             due      |-> rolled[p].due,
             lead     |-> leads[p],
             owner    |-> owners[p]]]

\* Mutant: no walk into the subtree.
OwnDrivingFacts(projects, facts, root, forest, now) ==
    {f \in facts : /\ f.project = root
                   /\ ~f.done
                   /\ LET h == Signal(f, LeadFor(f, forest[root].lead), now).health
                      IN  h # "ok" /\ SeverityOf[h] = forest[root].severity}

(***************************************************************************)
(* The facts a nudge about a project names: those of its subtree that are  *)
(* as loud as the project.  At most five of them are listed.               *)
(***************************************************************************)
DrivingFacts(projects, facts, root, forest, now) ==
    {f \in facts : /\ f.project \in Subtree(projects, root)
                   /\ ~f.done
                   /\ LET h == Signal(f, LeadFor(f, forest[f.project].lead), now).health
                      IN  h # "ok" /\ SeverityOf[h] = forest[root].severity}

(***************************************************************************)
(* The fields a fact of each kind must and may carry.                      *)
(***************************************************************************)
FactRules ==
    [deadline  |-> [required |-> {"due"}, allowed |-> {"due", "done"}],
     recurring |-> [required |-> {"due", "rrule"}, allowed |-> {"due", "rrule"}],
     milestone |-> [required |-> {}, allowed |-> {"done", "blocker"}],
     note      |-> [required |-> {}, allowed |-> {}]]

FieldsSet(f) ==
    (IF f.due # None THEN {"due"} ELSE {}) \cup (IF f.count > 0 THEN {"rrule"} ELSE {})
    \cup (IF f.done THEN {"done"} ELSE {}) \cup (IF f.blocked THEN {"blocker"} ELSE {})

ValidFact(f) ==
    /\ FactRules[f.kind].required \subseteq FieldsSet(f)
    /\ FieldsSet(f) \subseteq FactRules[f.kind].allowed
    /\ ~(f.kind = "milestone" /\ f.blocked /\ f.done)
=============================================================================
