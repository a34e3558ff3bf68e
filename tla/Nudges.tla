------------------------------- MODULE Nudges -------------------------------
(***************************************************************************)
(* The tick of the projects (TickProjects in go/botnet/projects.go and its *)
(* handler in server.go): the health of every project is derived, compared *)
(* with what the last tick recorded, and an owner is told of what got      *)
(* worse by a message of its own thread.                                   *)
(*                                                                         *)
(* A tick reads projects, facts and bots in three statements, decides all  *)
(* from that reading, and applies it project by project, each in one       *)
(* transaction, while anything else goes on.  The turns of its nudges are  *)
(* started when it is through.                                             *)
(*                                                                         *)
(* The facts of a project are abstracted to the health that they alone     *)
(* give it, which changes at any time: a fact is written, or a day passes. *)
(* A message that awaits its reply has an identity; one that was settled   *)
(* or deleted gives its identity back.                                     *)
(***************************************************************************)
EXTENDS ProjectHealth, TLC

CONSTANTS
    InitProjects,  \* id -> [parent, owner, last]: the projects there are at first
    Bots,
    Ticks,         \* the handlers of POST /v1/projects/tick that may overlap
    Ping,          \* the one that the ping service calls again and again
    Messages,      \* identities of messages that await a reply
    NoMessage,
    FirstHealth,   \* what the facts of every project give it at first
    OwnHealths,    \* what they may come to give it
    MaxFaults      \* bound

NeverRecorded == "never"   \* last_health of a project that no tick has seen

\* A project that no tick has seen counts as well.
Previous(last) == IF last = NeverRecorded THEN "ok" ELSE last

ProjectIds == DOMAIN InitProjects

ASSUME RowsAssumption ==
    /\ IsFiniteSet(ProjectIds)
    /\ InitProjects \in [ProjectIds -> [parent : ProjectIds \cup {None}, owner : Bots \cup {NoBot},
                                       last : Healths \cup {NeverRecorded}]]

\* The guards of the writes see to that (Projects): what is below is lower.
ASSUME ForestAssumption == HasHeights(InitProjects)

ASSUME HealthsAssumption == {FirstHealth} \cup OwnHealths \subseteq Healths

ASSUME NoMessageAssumption == NoMessage \notin Messages

VARIABLES
    projects,      \* id -> [parent, owner, last]
    own,           \* id -> what its facts give it
    bots,          \* the bots there are
    leaving,       \* bot -> how far its deletion is
    awaiting,      \* bot -> the message of its thread that awaits a reply
    turns,         \* the messages whose turn is running
    tick,          \* handler -> what it has read and has left to do
    lost,          \* history: the nudges of ticks that failed
    faults,        \* bound
    told           \* history: id -> the worst that a nudge about it has said

vars == <<projects, own, bots, leaving, awaiting, turns, tick, lost, faults, told>>
threads == <<bots, leaving, awaiting, turns>>

Idle == [at |-> "idle"]

Init ==
    /\ projects = InitProjects
    /\ own = [p \in ProjectIds |-> FirstHealth]
    /\ bots = Bots
    /\ leaving = [b \in Bots |-> "no"]
    /\ awaiting = [b \in Bots |-> NoMessage]
    /\ turns = {}
    /\ tick = [t \in Ticks |-> Idle]
    /\ lost = {}
    /\ faults = 0
    /\ told = [p \in ProjectIds |-> Worst({"ok", Previous(InitProjects[p].last)})]

(***************************************************************************)
(* The rest of the system, as far as a tick meets it.                      *)
(***************************************************************************)
\* A turn that was started outlives its message, so its identity is in use.
InUse == {awaiting[b] : b \in Bots} \cup turns \cup lost \cup UNION {t.nudged : t \in
            {tick[u] : u \in {v \in Ticks : tick[v].at = "each"}}}

Fresh == {m \in Messages : m \notin InUse}

HealthChanges(p) ==
    /\ p \in DOMAIN projects
    /\ \E h \in OwnHealths \ {own[p]} : own' = [own EXCEPT ![p] = h]
    /\ UNCHANGED <<projects, threads, tick, lost, faults, told>>

\* claimBot, then the append, then startTurn: nobody meets the steps between.
Send(b) ==
    /\ b \in bots
    /\ awaiting[b] = NoMessage
    /\ \E m \in Fresh : /\ awaiting' = [awaiting EXCEPT ![b] = m]
                        /\ turns' = turns \cup {m}
    /\ UNCHANGED <<projects, own, bots, leaving, tick, lost, faults, told>>

\* A turn ends, well or ill, and settles its message if that is still there.
TurnEnds(m) ==
    /\ m \in turns
    /\ turns' = turns \ {m}
    /\ awaiting' = [b \in Bots |-> IF awaiting[b] = m THEN NoMessage ELSE awaiting[b]]
    /\ UNCHANGED <<projects, own, bots, leaving, tick, lost, faults, told>>

DeleteProject(p) ==
    /\ p \in DOMAIN projects
    /\ projects' = [q \in DOMAIN projects \ Subtree(projects, p) |-> projects[q]]
    /\ UNCHANGED <<own, threads, tick, lost, faults, told>>

\* DeleteBot, a statement at a time.
ClearOwner(b) ==
    /\ b \in bots /\ leaving[b] = "no"
    /\ leaving' = [leaving EXCEPT ![b] = "cleared"]
    /\ projects' = [p \in DOMAIN projects |->
                       IF projects[p].owner = b THEN [projects[p] EXCEPT !.owner = NoBot]
                       ELSE projects[p]]
    /\ UNCHANGED <<own, bots, awaiting, turns, tick, lost, faults, told>>

DeleteMessages(b) ==
    /\ leaving[b] = "cleared"
    /\ leaving' = [leaving EXCEPT ![b] = "emptied"]
    /\ awaiting' = [awaiting EXCEPT ![b] = NoMessage]
    /\ UNCHANGED <<projects, own, bots, turns, tick, lost, faults, told>>

DeleteRow(b) ==
    /\ leaving[b] = "emptied"
    /\ leaving' = [leaving EXCEPT ![b] = "gone"]
    /\ bots' = bots \ {b}
    /\ UNCHANGED <<projects, own, awaiting, turns, tick, lost, faults, told>>

\* The process dies, and on its return the sweep fails whatever awaits a reply.
Restart ==
    /\ faults < MaxFaults
    /\ turns # {} \/ \E t \in Ticks : tick[t] # Idle
    /\ turns' = {}
    /\ tick' = [t \in Ticks |-> Idle]
    /\ leaving' = [b \in Bots |-> IF leaving[b] = "gone" THEN "gone" ELSE "no"]
    /\ awaiting' = [b \in Bots |-> NoMessage]
    /\ lost' = {}
    /\ faults' = faults + 1
    /\ UNCHANGED <<projects, own, bots, told>>

(***************************************************************************)
(* The tick.                                                               *)
(***************************************************************************)
ReadProjects(t) ==
    /\ tick[t] = Idle
    /\ tick' = [tick EXCEPT ![t] = [at |-> "facts", rows |-> projects]]
    /\ UNCHANGED <<projects, own, threads, lost, faults, told>>

ReadFacts(t) ==
    /\ tick[t].at = "facts"
    /\ tick' = [tick EXCEPT ![t] = [at |-> "bots", rows |-> tick[t].rows,
                                    own |-> [p \in DOMAIN tick[t].rows |-> own[p]]]]
    /\ UNCHANGED <<projects, own, threads, lost, faults, told>>

\* drivingFacts: those who own a fact that is as loud as the project is.
Driving(rows, healths, p, severity) ==
    {q \in Subtree(rows, p) : /\ healths[q] \notin {"ok", "unknown"}
                              /\ SeverityOf[healths[q]] = severity}

\* Mutant: the owner that is stored, not the one that is inherited.
VerdictsForOwner(rows, healths) ==
    LET rolled == RolledUp(rows, [p \in DOMAIN rows |-> [health |-> healths[p], due |-> None]])
    IN  [p \in DOMAIN rows |->
            [health |-> rolled[p].health,
             last   |-> rows[p].last,
             owner  |-> LiveOwner(rows, bots, p),
             facts  |-> TRUE]]

\* loadForest: all that the tick decides is decided by this.
Verdicts(rows, healths) ==
    LET rolled == RolledUp(rows, [p \in DOMAIN rows |-> [health |-> healths[p], due |-> None]])
        owners == Owners(rows, bots)
    IN  [p \in DOMAIN rows |->
            [health |-> rolled[p].health,
             last   |-> rows[p].last,
             owner  |-> owners[p],
             facts  |-> Driving(rows, healths, p, SeverityOf[rolled[p].health]) # {}]]

ReadBots(t) ==
    /\ tick[t].at = "bots"
    /\ tick' = [tick EXCEPT ![t] =
                   [at |-> "each", todo |-> Verdicts(tick[t].rows, tick[t].own),
                    nudged |-> {}]]
    /\ UNCHANGED <<projects, own, threads, lost, faults, told>>

\* The project that the tick takes next: the most urgent comes first.
MostUrgent(todo) ==
    {p \in DOMAIN todo : \A q \in DOMAIN todo :
        HealthRank[todo[q].health] <= HealthRank[todo[p].health]}

Idlers == {b \in bots : awaiting[b] = NoMessage}

Worsened(v) == HealthRank[v.health] > HealthRank[Previous(v.last)]

Handled(t, p, nudged) ==
    tick' = [tick EXCEPT ![t] =
                [at |-> "each", todo |-> [q \in DOMAIN tick[t].todo \ {p} |-> tick[t].todo[q]],
                 nudged |-> nudged]]

\* An UPDATE of last_health, of a row that may be gone.
Recorded(p, health) ==
    [q \in DOMAIN projects |->
        IF q = p THEN [projects[q] EXCEPT !.last = health] ELSE projects[q]]

\* Mutant: what is worse is recorded without a word.
RecordAny(t, p) ==
    /\ Handled(t, p, tick[t].nudged)
    /\ projects' = Recorded(p, tick[t].todo[p].health)
    /\ UNCHANGED <<own, threads, lost, faults, told>>

Record(t, p) ==
    LET v == tick[t].todo[p]
    IN  /\ ~Worsened(v)
        /\ Handled(t, p, tick[t].nudged)
        /\ projects' = IF v.health = v.last THEN projects ELSE Recorded(p, v.health)
        /\ UNCHANGED <<own, threads, lost, faults, told>>

\* Nobody to tell, or he is gone since, or a turn of his is in flight.
Skip(t, p) ==
    LET v == tick[t].todo[p]
    IN  /\ Worsened(v)
        /\ v.owner \notin Idlers
        /\ Handled(t, p, tick[t].nudged)
        /\ UNCHANGED <<projects, own, threads, lost, faults, told>>

Nudge(t, p) ==
    LET v == tick[t].todo[p]
    IN  /\ Worsened(v)
        /\ v.owner \in Idlers
        /\ \E m \in Fresh : /\ awaiting' = [awaiting EXCEPT ![v.owner] = m]
                            /\ Handled(t, p, tick[t].nudged \cup {m})
        /\ projects' = Recorded(p, v.health)
        /\ told' = [told EXCEPT ![p] = Worst({@, v.health})]
        /\ UNCHANGED <<own, bots, leaving, turns, lost, faults>>

\* Mutant: the handler answers without starting the turns.
NoTurns(t) ==
    /\ tick[t].at = "each" /\ DOMAIN tick[t].todo = {}
    /\ tick' = [tick EXCEPT ![t] = Idle]
    /\ UNCHANGED <<projects, own, threads, lost, faults, told>>

StartTurns(t) ==
    /\ tick[t].at = "each" /\ DOMAIN tick[t].todo = {}
    /\ turns' = turns \cup tick[t].nudged
    /\ tick' = [tick EXCEPT ![t] = Idle]
    /\ UNCHANGED <<projects, own, bots, leaving, awaiting, lost, faults, told>>

\* A statement of the tick fails: the handler answers 500 and starts nothing.
TickFails(t) ==
    /\ faults < MaxFaults
    /\ tick[t].at # "idle"
    /\ faults' = faults + 1
    /\ lost' = lost \cup (IF tick[t].at = "each" THEN tick[t].nudged ELSE {})
    /\ tick' = [tick EXCEPT ![t] = Idle]
    /\ UNCHANGED <<projects, own, threads, told>>

TickStep(t) ==
    \/ ReadProjects(t) \/ ReadFacts(t) \/ ReadBots(t)
    \/ /\ tick[t].at = "each"
       /\ \E p \in MostUrgent(tick[t].todo) : Record(t, p) \/ Skip(t, p) \/ Nudge(t, p)
    \/ StartTurns(t)

Next ==
    \/ \E p \in ProjectIds : HealthChanges(p) \/ DeleteProject(p)
    \/ \E b \in Bots : Send(b) \/ ClearOwner(b) \/ DeleteMessages(b) \/ DeleteRow(b)
    \/ \E m \in Messages : TurnEnds(m)
    \/ \E t \in Ticks : TickStep(t) \/ TickFails(t)
    \/ Restart

(***************************************************************************)
(* The ping service ticks for ever, and turns end: they have a timeout.    *)
(* Nothing is asked of other callers.                                      *)
(***************************************************************************)
Fairness ==
    /\ WF_vars(TickStep(Ping))
    /\ WF_vars(\E m \in Messages : TurnEnds(m))

Spec == Init /\ [][Next]_vars /\ Fairness

-----------------------------------------------------------------------------
TypeOK ==
    /\ DOMAIN projects \subseteq ProjectIds
    /\ \A p \in DOMAIN projects : /\ projects[p].last \in Healths \cup {NeverRecorded}
                                  /\ projects[p].owner \in Bots \cup {NoBot}
                                  /\ projects[p].parent \in DOMAIN projects \cup {None}
    /\ own \in [ProjectIds -> Healths]
    /\ bots \subseteq Bots
    /\ awaiting \in [Bots -> Messages \cup {NoMessage}]
    /\ turns \subseteq Messages /\ lost \subseteq Messages
    /\ \A t \in Ticks : tick[t].at \in {"idle", "facts", "bots", "each"}
    /\ told \in [ProjectIds -> Healths]

\* Nothing bad is on record that no owner was told of, in a nudge at least as
\* bad: however ticks overlap, are cut short by a death, or find the owner busy,
\* a deterioration is not swallowed (nudge: append and record in one transaction).
RecordedWasTold ==
    \A p \in DOMAIN projects :
        projects[p].last # NeverRecorded =>
            HealthRank[projects[p].last] <= HealthRank[told[p]]

\* An owner that awaits the reply to a nudge will get one: its turn is running,
\* or a tick that is under way has yet to start it, or else that tick has failed
\* half way, and nothing but a restart frees the owner.
NudgeHasTurn ==
    \A b \in bots :
        awaiting[b] # NoMessage =>
            \/ awaiting[b] \in turns \cup lost
            \/ \E t \in Ticks : tick[t].at = "each" /\ awaiting[b] \in tick[t].nudged

\* Every nudge names a fact to act on, unless the facts have moved meanwhile, as
\* the comment of nudgeMessage has it: what it tells of is what it has read.
NudgeNamesAFact ==
    [][\A t \in {u \in Ticks : tick[u].at = "each"} : \A p \in DOMAIN tick[t].todo :
            Nudge(t, p) => tick[t].todo[p].facts]_vars

\* The health of p now, by the rows as they are.
HealthNow(p) ==
    RolledUp(projects, [q \in DOMAIN projects |-> [health |-> own[q], due |-> None]])[p].health

\* p is worse than its record, and has somebody who could be told.
NewsOf(p) ==
    /\ p \in DOMAIN projects
    /\ HealthRank[HealthNow(p)] > HealthRank[Previous(projects[p].last)]
    /\ Owners(projects, bots)[p] # NoBot

OwnerBusy(p) ==
    /\ p \in DOMAIN projects
    /\ Owners(projects, bots)[p] # NoBot
    /\ awaiting[Owners(projects, bots)[p]] # NoMessage

\* News is not lost: it is told, or becomes stale, unless its owner is found busy
\* again and again.
NewsArrives == \A p \in ProjectIds : <>[]NewsOf(p) => []<>OwnerBusy(p)
=============================================================================
