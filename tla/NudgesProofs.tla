---------------------------- MODULE NudgesProofs ----------------------------
(* What the tick keeps for every forest of projects, and every number of     *)
(* bots, messages and ticks that overlap.                                    *)
EXTENDS Nudges, ProjectHealthProofs

-----------------------------------------------------------------------------
(* The inductive invariant.                                                  *)

Rank(h) == HealthRank[h]

Row == [parent : ProjectIds \cup {None}, owner : Bots \cup {NoBot},
        last : Healths \cup {NeverRecorded}]

\* Rows of the table, as they are or as somebody has read them.
AreRows(rows) ==
    /\ DOMAIN rows \subseteq ProjectIds
    /\ rows \in [DOMAIN rows -> Row]
    /\ \A p \in DOMAIN rows : rows[p].parent = InitProjects[p].parent

\* What is on record there was told.
WasTold(rows) ==
    \A p \in DOMAIN rows : rows[p].last # NeverRecorded => Rank(rows[p].last) <= Rank(told[p])

AreVerdicts(todo) ==
    /\ DOMAIN todo \subseteq ProjectIds
    /\ \A p \in DOMAIN todo : /\ todo[p].health \in Healths
                              /\ todo[p].last \in Healths \cup {NeverRecorded}

\* A tick has read rows whose record was told, and so are its verdicts.
TickIsRight(k) ==
    /\ k.at \in {"idle", "facts", "bots", "each"}
    /\ k.at \in {"facts", "bots"} => AreRows(k.rows) /\ WasTold(k.rows)
    /\ k.at = "bots" => k.own \in [DOMAIN k.rows -> Healths]
    /\ k.at = "each" => AreVerdicts(k.todo) /\ WasTold(k.todo)

Tables ==
    /\ AreRows(projects)
    /\ own \in [ProjectIds -> Healths]
    /\ told \in [ProjectIds -> Healths \ {"unknown"}]
    /\ bots \subseteq Bots
    /\ awaiting \in [Bots -> Messages \cup {NoMessage}]
    /\ DOMAIN tick = Ticks

TickInv ==
    /\ Tables
    /\ WasTold(projects)
    /\ \A t \in Ticks : TickIsRight(tick[t])
    /\ NudgeHasTurn

-----------------------------------------------------------------------------
(* Ranks, forests and what was told.                                         *)

\* Rows are a forest, whatever was deleted of it.
LEMMA RowsAscend ==
    ASSUME NEW rows, AreRows(rows)
    PROVE  IsFiniteSet(DOMAIN rows) /\ \E height : Ascends(rows, height)
<1>1. IsFiniteSet(ProjectIds) /\ IsFiniteSet(DOMAIN rows)
  BY RowsAssumption, FS_Subset DEF AreRows
<1>2. Cardinality(ProjectIds) \in Nat
  BY <1>1, FS_CardinalityType
<1>3. PICK height \in [ProjectIds -> 0..Cardinality(ProjectIds)] :
          \A p \in ProjectIds : \A c \in Children(InitProjects, p) : height[c] < height[p]
  BY ForestAssumption DEF HasHeights, ProjectIds
<1>4. ASSUME NEW p \in DOMAIN rows, NEW c \in Children(rows, p)
      PROVE  c \in Children(InitProjects, p)
  <2>1. c \in DOMAIN rows /\ rows[c].parent = p /\ rows[c].parent \in DOMAIN rows \ {c}
    BY <1>4 DEF Children, IsRoot
  <2>2. c \in ProjectIds /\ InitProjects[c].parent = p /\ p \in ProjectIds \ {c}
    BY <2>1 DEF AreRows
  <2> QED
    BY <2>2 DEF Children, IsRoot, ProjectIds
<1>5. \A p \in DOMAIN rows : p \in ProjectIds /\ height[p] \in Nat
  BY <1>2, <1>3 DEF AreRows
<1> QED
  BY <1>1, <1>3, <1>4, <1>5 DEF Ascends

\* So what is derived of them are verdicts, with the records that were read.
LEMMA VerdictsAreRight ==
    ASSUME NEW rows, AreRows(rows), WasTold(rows), NEW healths \in [DOMAIN rows -> Healths]
    PROVE  AreVerdicts(Verdicts(rows, healths)) /\ WasTold(Verdicts(rows, healths))
<1> DEFINE o == [p \in DOMAIN rows |-> [health |-> healths[p], due |-> None]]
           v == Verdicts(rows, healths)
<1>1. PICK height : IsFiniteSet(DOMAIN rows) /\ Ascends(rows, height)
  BY RowsAscend
<1>2. \A p \in DOMAIN rows : o[p].health \in Healths
  OBVIOUS
<1>3. \A p \in DOMAIN rows : RolledUp(rows, o)[p].health \in Healths
  <2> HIDE DEF o
  <2> QED
    BY <1>1, <1>2, RolledUpHealths
<1>4. DOMAIN v = DOMAIN rows
  BY DEF Verdicts
<1>5. \A p \in DOMAIN rows : v[p].health = RolledUp(rows, o)[p].health /\ v[p].last = rows[p].last
  BY DEF Verdicts
<1> HIDE DEF v, o
<1>6. AreVerdicts(v)
  BY <1>3, <1>4, <1>5 DEF AreVerdicts, AreRows, Row
<1>7. WasTold(v)
  BY <1>4, <1>5 DEF WasTold
<1> QED
  BY <1>6, <1>7 DEF v

\* What was told is never taken back.
LEMMA ToldStays ==
    ASSUME NEW rows, WasTold(rows), DOMAIN rows \subseteq ProjectIds,
           \A p \in DOMAIN rows : rows[p].last \in Healths \cup {NeverRecorded},
           told \in [ProjectIds -> Healths \ {"unknown"}],
           told' \in [ProjectIds -> Healths \ {"unknown"}],
           \A p \in ProjectIds : Rank(told[p]) <= Rank(told'[p])
    PROVE  \A p \in DOMAIN rows : rows[p].last # NeverRecorded => Rank(rows[p].last) <= Rank(told'[p])
<1> SUFFICES ASSUME NEW p \in DOMAIN rows, rows[p].last # NeverRecorded
             PROVE  Rank(rows[p].last) <= Rank(told'[p])
  OBVIOUS
<1>1. Rank(rows[p].last) <= Rank(told[p]) /\ Rank(told[p]) <= Rank(told'[p])
  BY DEF WasTold
<1>2. rows[p].last \in Healths /\ told[p] \in Healths /\ told'[p] \in Healths
  OBVIOUS
<1>3. Rank(rows[p].last) \in Int /\ Rank(told[p]) \in Int /\ Rank(told'[p]) \in Int
  BY <1>2, Ranks DEF Rank
<1> QED
  BY <1>1, <1>3

\* The worse of two healths, one of which is no "unknown".
LEMMA WorseOfTwo ==
    ASSUME NEW g \in Healths \ {"unknown"}, NEW h \in Healths
    PROVE  /\ Worst({g, h}) \in Healths \ {"unknown"}
           /\ Rank(g) <= Rank(Worst({g, h})) /\ Rank(h) <= Rank(Worst({g, h}))
<1>1. Worst({g, h}) \in {g, h} /\ \A k \in {g, h} : HealthRank[k] <= HealthRank[Worst({g, h})]
  BY WorstIsMember
<1>2. Worst({g, h}) # "unknown"
  BY <1>1 DEF HealthRank, Healths
<1> QED
  BY <1>1, <1>2 DEF Rank

-----------------------------------------------------------------------------
(* The steps.                                                                *)

\* What the rest of the system does, and what a tick does.
LEMMA StepCases ==
    ASSUME Next
    PROVE  \/ \E p \in ProjectIds : HealthChanges(p) \/ DeleteProject(p)
           \/ \E b \in Bots : Send(b) \/ ClearOwner(b) \/ DeleteMessages(b) \/ DeleteRow(b)
           \/ \E m \in Messages : TurnEnds(m)
           \/ Restart
           \/ \E t \in Ticks : ReadProjects(t) \/ ReadFacts(t) \/ ReadBots(t)
           \/ \E t \in Ticks : /\ tick[t].at = "each"
                               /\ \E p \in DOMAIN tick[t].todo : Record(t, p) \/ Skip(t, p) \/ Nudge(t, p)
           \/ \E t \in Ticks : StartTurns(t) \/ TickFails(t)
BY DEF Next, TickStep, MostUrgent

\* While what is told and the ticks stay, only the tables have to be looked at.
LEMMA TicksStay ==
    ASSUME TickInv, UNCHANGED <<tick, told>>
    PROVE  \A t \in Ticks : TickIsRight(tick[t])'
BY DEF TickInv, TickIsRight, WasTold

LEMMA OthersKeep ==
    ASSUME TickInv,
           \/ \E p \in ProjectIds : HealthChanges(p) \/ DeleteProject(p)
           \/ \E b \in Bots : Send(b) \/ ClearOwner(b) \/ DeleteMessages(b) \/ DeleteRow(b)
           \/ \E m \in Messages : TurnEnds(m)
    PROVE  TickInv'
<1>1. Tables /\ WasTold(projects) /\ NudgeHasTurn
  BY DEF TickInv
<1>2. UNCHANGED <<tick, told, lost>>
  BY DEF HealthChanges, DeleteProject, Send, ClearOwner, DeleteMessages, DeleteRow, TurnEnds, threads
<1>3. \A t \in Ticks : TickIsRight(tick[t])'
  BY <1>2, TicksStay
<1>4. ASSUME NEW p \in ProjectIds, HealthChanges(p)
      PROVE  TickInv'
  <2>1. PICK h \in OwnHealths : own' = [own EXCEPT ![p] = h]
    BY <1>4 DEF HealthChanges
  <2>2. own' \in [ProjectIds -> Healths]
    BY <1>1, <2>1, HealthsAssumption DEF Tables
  <2>3. UNCHANGED <<projects, bots, awaiting, turns>>
    BY <1>4 DEF HealthChanges, threads
  <2>4. Tables'
    BY <1>1, <1>2, <2>2, <2>3 DEF Tables, AreRows
  <2> QED
    BY <1>1, <1>2, <1>3, <2>3, <2>4 DEF TickInv, WasTold, NudgeHasTurn
<1>5. ASSUME NEW p \in ProjectIds, DeleteProject(p)
      PROVE  TickInv'
  <2>1. /\ DOMAIN projects' \subseteq DOMAIN projects
        /\ \A q \in DOMAIN projects' : projects'[q] = projects[q]
        /\ projects' = [q \in DOMAIN projects' |-> projects'[q]]
    BY <1>5 DEF DeleteProject
  <2>2. UNCHANGED <<own, bots, awaiting, turns>>
    BY <1>5 DEF DeleteProject, threads
  <2>3. AreRows(projects)'
    BY <1>1, <2>1 DEF Tables, AreRows
  <2>4. Tables'
    BY <1>1, <1>2, <2>2, <2>3 DEF Tables
  <2> QED
    BY <1>1, <1>2, <1>3, <2>1, <2>2, <2>4 DEF TickInv, WasTold, NudgeHasTurn
<1>6. ASSUME NEW b \in Bots, ClearOwner(b)
      PROVE  TickInv'
  <2>1. /\ DOMAIN projects' = DOMAIN projects
        /\ projects' = [q \in DOMAIN projects |-> projects'[q]]
        /\ \A q \in DOMAIN projects :
               projects'[q] = IF projects[q].owner = b THEN [projects[q] EXCEPT !.owner = NoBot]
                              ELSE projects[q]
    BY <1>6 DEF ClearOwner
  <2>2. \A q \in DOMAIN projects : /\ projects'[q] \in Row
                                   /\ projects'[q].parent = projects[q].parent
                                   /\ projects'[q].last = projects[q].last
    <3>1. TAKE q \in DOMAIN projects
    <3>2. projects[q] \in Row
      BY <1>1 DEF Tables, AreRows
    <3> QED
      BY <2>1, <3>2 DEF Row
  <2>3. UNCHANGED <<own, bots, awaiting, turns>>
    BY <1>6 DEF ClearOwner
  <2>4. AreRows(projects)'
    BY <1>1, <2>1, <2>2 DEF Tables, AreRows
  <2>5. Tables'
    BY <1>1, <1>2, <2>3, <2>4 DEF Tables
  <2> QED
    BY <1>1, <1>2, <1>3, <2>1, <2>2, <2>3, <2>5 DEF TickInv, WasTold, NudgeHasTurn
<1>7. ASSUME NEW b \in Bots, Send(b)
      PROVE  TickInv'
  <2>1. PICK m \in Messages : awaiting' = [awaiting EXCEPT ![b] = m] /\ turns' = turns \cup {m}
    BY <1>7 DEF Send, Fresh
  <2>2. UNCHANGED <<projects, own, bots>>
    BY <1>7 DEF Send
  <2>3. Tables'
    BY <1>1, <1>2, <2>1, <2>2 DEF Tables, AreRows
  <2>4. NudgeHasTurn'
    BY <1>1, <1>2, <2>1, <2>2 DEF Tables, NudgeHasTurn
  <2> QED
    BY <1>1, <1>2, <1>3, <2>2, <2>3, <2>4 DEF TickInv, WasTold
<1>8. ASSUME NEW b \in Bots, DeleteMessages(b) \/ DeleteRow(b)
      PROVE  TickInv'
  <2>1. /\ UNCHANGED <<projects, own, turns>> /\ bots' \subseteq bots
        /\ awaiting' = awaiting \/ awaiting' = [awaiting EXCEPT ![b] = NoMessage]
    BY <1>8 DEF DeleteMessages, DeleteRow
  <2>2. Tables'
    BY <1>1, <1>2, <2>1 DEF Tables, AreRows
  <2>3. NudgeHasTurn'
    BY <1>1, <1>2, <2>1 DEF Tables, NudgeHasTurn
  <2> QED
    BY <1>1, <1>2, <1>3, <2>1, <2>2, <2>3 DEF TickInv, WasTold
<1>9. ASSUME NEW m \in Messages, TurnEnds(m)
      PROVE  TickInv'
  <2>1. /\ UNCHANGED <<projects, own, bots>> /\ turns' = turns \ {m}
        /\ awaiting' = [b \in Bots |-> IF awaiting[b] = m THEN NoMessage ELSE awaiting[b]]
    BY <1>9 DEF TurnEnds
  <2>2. Tables'
    BY <1>1, <1>2, <2>1 DEF Tables, AreRows
  <2>3. NudgeHasTurn'
    BY <1>1, <1>2, <2>1 DEF Tables, NudgeHasTurn
  <2> QED
    BY <1>1, <1>2, <1>3, <2>1, <2>2, <2>3 DEF TickInv, WasTold
<1> QED
  BY <1>4, <1>5, <1>6, <1>7, <1>8, <1>9

\* On a restart nobody awaits anything, and no tick is under way.
LEMMA RestartKeeps ==
    ASSUME TickInv, Restart
    PROVE  TickInv'
<1>1. /\ UNCHANGED <<projects, own, bots, told>>
      /\ tick' = [t \in Ticks |-> Idle] /\ awaiting' = [b \in Bots |-> NoMessage]
  BY DEF Restart
<1>2. Tables'
  BY <1>1 DEF TickInv, Tables, AreRows
<1>3. \A t \in Ticks : TickIsRight(tick[t])'
  BY <1>1 DEF TickIsRight, Idle
<1>4. NudgeHasTurn'
  BY <1>1 DEF TickInv, Tables, NudgeHasTurn
<1> QED
  BY <1>1, <1>2, <1>3, <1>4 DEF TickInv, WasTold

\* A tick that is replaced by one that is right, and has the nudges of the old one
\* or has seen to them, keeps the invariant, if the tables are as they were.
LEMMA TickMoves ==
    ASSUME TickInv, NEW t \in Ticks, NEW k,
           tick' = [tick EXCEPT ![t] = k], TickIsRight(k),
           UNCHANGED <<projects, own, told, bots, awaiting>>,
           turns \cup lost \subseteq turns' \cup lost',
           tick[t].at = "each" =>
               \/ tick[t].nudged \subseteq turns' \cup lost'
               \/ k.at = "each" /\ tick[t].nudged \subseteq k.nudged
    PROVE  TickInv'
<1>1. \A u \in Ticks : tick'[u] = IF u = t THEN k ELSE tick[u]
  BY DEF TickInv, Tables
<1>2. Tables'
  BY DEF TickInv, Tables, AreRows
<1>3. \A u \in Ticks : TickIsRight(tick[u])'
  <2>1. ASSUME NEW u \in Ticks
        PROVE  TickIsRight(tick[u])'
    <3>1. TickIsRight(tick[u])
      BY DEF TickInv
    <3> QED
      BY <1>1, <3>1 DEF TickIsRight, WasTold
  <2> QED
    BY <2>1
<1>4. NudgeHasTurn'
  <2>1. ASSUME NEW b \in bots, awaiting[b] # NoMessage
        PROVE  \/ awaiting[b] \in turns' \cup lost'
               \/ \E u \in Ticks : tick'[u].at = "each" /\ awaiting[b] \in tick'[u].nudged
    <3>1. CASE awaiting[b] \in turns \cup lost
      BY <3>1
    <3>2. ASSUME NEW u \in Ticks, tick[u].at = "each", awaiting[b] \in tick[u].nudged
          PROVE  \/ awaiting[b] \in turns' \cup lost'
                 \/ \E w \in Ticks : tick'[w].at = "each" /\ awaiting[b] \in tick'[w].nudged
      <4>1. CASE u = t
        BY <1>1, <3>2, <4>1
      <4>2. CASE u # t
        BY <1>1, <3>2, <4>2
      <4> QED
        BY <4>1, <4>2
    <3> QED
      BY <2>1, <3>1, <3>2 DEF TickInv, NudgeHasTurn
  <2> QED
    BY <2>1 DEF NudgeHasTurn
<1> QED
  BY <1>2, <1>3, <1>4 DEF TickInv, WasTold

\* What a tick reads, and that it ends.
LEMMA ReadingKeeps ==
    ASSUME TickInv, NEW t \in Ticks,
           ReadProjects(t) \/ ReadFacts(t) \/ ReadBots(t) \/ StartTurns(t) \/ TickFails(t)
    PROVE  TickInv'
<1>1. Tables /\ WasTold(projects) /\ TickIsRight(tick[t])
  BY DEF TickInv
<1>2. TickIsRight(Idle)
  BY DEF TickIsRight, Idle
<1>3. CASE ReadProjects(t)
  <2> DEFINE k == [at |-> "facts", rows |-> projects]
  <2>1. k.at = "facts" /\ TickIsRight(k)
    BY <1>1 DEF TickIsRight, Tables
  <2>2. tick[t].at # "each"
    BY <1>3 DEF ReadProjects, Idle
  <2> HIDE DEF k
  <2>3. /\ tick' = [tick EXCEPT ![t] = k]
        /\ UNCHANGED <<projects, own, told, bots, awaiting, turns, lost>>
    BY <1>3 DEF ReadProjects, threads, k
  <2> QED
    BY <2>1, <2>2, <2>3, TickMoves
<1>4. CASE ReadFacts(t)
  <2> DEFINE r == tick[t].rows
             k == [at |-> "bots", rows |-> r, own |-> [p \in DOMAIN r |-> own[p]]]
  <2>1. tick[t].at = "facts" /\ AreRows(r) /\ WasTold(r)
    BY <1>1, <1>4 DEF ReadFacts, TickIsRight
  <2>2. [p \in DOMAIN r |-> own[p]] \in [DOMAIN r -> Healths]
    BY <1>1, <2>1 DEF AreRows, Tables
  <2>3. k.at = "bots" /\ TickIsRight(k)
    BY <2>1, <2>2 DEF TickIsRight
  <2>4. /\ tick' = [tick EXCEPT ![t] = k]
        /\ UNCHANGED <<projects, own, told, bots, awaiting, turns, lost>>
    BY <1>4 DEF ReadFacts, threads
  <2> HIDE DEF k
  <2> QED
    BY <2>1, <2>3, <2>4, TickMoves
<1>5. CASE ReadBots(t)
  <2> DEFINE v == Verdicts(tick[t].rows, tick[t].own)
             k == [at |-> "each", todo |-> v, nudged |-> {}]
  <2>1. tick[t].at = "bots" /\ AreVerdicts(v) /\ WasTold(v)
    BY <1>1, <1>5, VerdictsAreRight DEF ReadBots, TickIsRight
  <2>2. k.at = "each" /\ TickIsRight(k)
    <3> HIDE DEF v
    <3> QED
      BY <2>1 DEF TickIsRight
  <2>3. /\ tick' = [tick EXCEPT ![t] = k]
        /\ UNCHANGED <<projects, own, told, bots, awaiting, turns, lost>>
    BY <1>5 DEF ReadBots, threads
  <2> HIDE DEF k
  <2> QED
    BY <2>1, <2>2, <2>3, TickMoves
<1>6. CASE StartTurns(t)
  BY <1>2, <1>6, TickMoves DEF StartTurns
<1>7. CASE TickFails(t)
  BY <1>2, <1>7, TickMoves DEF TickFails, threads
<1> QED
  BY <1>3, <1>4, <1>5, <1>6, <1>7

\* What is left to do stays right.
LEMMA LeftToDo ==
    ASSUME TickInv, NEW t \in Ticks, tick[t].at = "each", NEW p \in DOMAIN tick[t].todo,
           NEW nudged
    PROVE  LET k == [at |-> "each", todo |-> [q \in DOMAIN tick[t].todo \ {p} |-> tick[t].todo[q]],
                     nudged |-> nudged]
           IN  /\ TickIsRight(k) /\ k.at = "each" /\ k.nudged = nudged
               /\ tick[t].todo[p].health \in Healths
               /\ tick[t].todo[p].last \in Healths \cup {NeverRecorded}
               /\ p \in ProjectIds
               /\ tick[t].todo[p].last # NeverRecorded => Rank(tick[t].todo[p].last) <= Rank(told[p])
BY DEF TickInv, TickIsRight, AreVerdicts, WasTold

\* A row that is written keeps its shape.
LEMMA RecordedRows ==
    ASSUME TickInv, NEW p, NEW health \in Healths
    PROVE  LET rows == Recorded(p, health)
           IN  /\ AreRows(rows)
               /\ DOMAIN rows = DOMAIN projects
               /\ \A q \in DOMAIN projects : rows[q].last = IF q = p THEN health ELSE projects[q].last
<1> DEFINE rows == Recorded(p, health)
<1>1. /\ DOMAIN rows = DOMAIN projects /\ rows = [q \in DOMAIN projects |-> rows[q]]
      /\ \A q \in DOMAIN projects :
             rows[q] = IF q = p THEN [projects[q] EXCEPT !.last = health] ELSE projects[q]
  BY DEF Recorded
<1>2. AreRows(projects)
  BY DEF TickInv, Tables
<1> HIDE DEF rows
<1>3. ASSUME NEW q \in DOMAIN projects
      PROVE  /\ rows[q] \in Row /\ rows[q].parent = projects[q].parent
             /\ rows[q].last = IF q = p THEN health ELSE projects[q].last
  <2>1. projects[q] \in Row
    BY <1>2 DEF AreRows
  <2> QED
    BY <1>1, <2>1 DEF Row
<1>4. AreRows(rows)
  BY <1>1, <1>2, <1>3 DEF AreRows
<1> QED
  BY <1>1, <1>3, <1>4 DEF rows

\* What is not worse than its record is recorded: it was told.
LEMMA RecordKeeps ==
    ASSUME TickInv, NEW t \in Ticks, tick[t].at = "each", NEW p \in DOMAIN tick[t].todo,
           Record(t, p) \/ Skip(t, p)
    PROVE  TickInv'
<1> DEFINE v == tick[t].todo[p]
           k == [at |-> "each", todo |-> [q \in DOMAIN tick[t].todo \ {p} |-> tick[t].todo[q]],
                 nudged |-> tick[t].nudged]
<1>1. /\ TickIsRight(k) /\ k.at = "each" /\ k.nudged = tick[t].nudged
      /\ v.health \in Healths /\ v.last \in Healths \cup {NeverRecorded} /\ p \in ProjectIds
      /\ v.last # NeverRecorded => Rank(v.last) <= Rank(told[p])
  BY LeftToDo
<1>2. /\ tick' = [tick EXCEPT ![t] = k]
      /\ UNCHANGED <<own, told, bots, awaiting, turns, lost>>
  BY DEF Record, Skip, Handled, threads
<1>3. \/ projects' = projects
      \/ ~Worsened(v) /\ projects' = Recorded(p, v.health)
  BY DEF Record, Skip
<1> HIDE DEF k, v
<1>4. CASE projects' = projects
  BY <1>1, <1>2, <1>4, TickMoves
<1>5. CASE ~Worsened(v) /\ projects' = Recorded(p, v.health)
  <2>1. Rank(v.health) <= Rank(told[p])
    <3>1. told[p] \in Healths \ {"unknown"}
      BY <1>1 DEF TickInv, Tables
    <3>2. Rank(v.health) \in 0..4 /\ Rank(told[p]) \in 0..4 /\ Rank("ok") \in 0..4
          /\ Rank("ok") <= Rank(told[p])
      BY <1>1, <3>1, Ranks DEF Rank
    <3>3. CASE v.last = NeverRecorded
      BY <1>5, <3>2, <3>3 DEF Worsened, Previous, Rank
    <3>4. CASE v.last # NeverRecorded
      <4>1. Rank(v.last) \in 0..4
        BY <1>1, <3>4, Ranks DEF Rank
      <4> QED
        BY <1>1, <1>5, <3>2, <3>4, <4>1 DEF Worsened, Previous, Rank
    <3> QED
      BY <3>3, <3>4
  <2>2. /\ AreRows(projects')
        /\ DOMAIN projects' = DOMAIN projects
        /\ \A q \in DOMAIN projects : projects'[q].last = IF q = p THEN v.health ELSE projects[q].last
    BY <1>1, <1>5, RecordedRows
  <2>3. Tables'
    BY <1>2, <2>2 DEF TickInv, Tables, AreRows
  <2>4. WasTold(projects)'
    BY <1>2, <2>1, <2>2 DEF TickInv, WasTold
  <2>5. \A u \in Ticks : tick'[u] = IF u = t THEN k ELSE tick[u]
    BY <1>2 DEF TickInv, Tables
  <2>6. \A u \in Ticks : TickIsRight(tick[u])'
    <3>1. ASSUME NEW u \in Ticks
          PROVE  TickIsRight(tick[u])'
      <4>1. TickIsRight(tick[u])
        BY DEF TickInv
      <4> QED
        BY <1>1, <1>2, <2>5, <4>1 DEF TickIsRight, WasTold
    <3> QED
      BY <3>1
  <2>7. NudgeHasTurn'
    BY <1>1, <1>2, <2>5 DEF TickInv, NudgeHasTurn
  <2> QED
    BY <2>3, <2>4, <2>6, <2>7 DEF TickInv
<1> QED
  BY <1>3, <1>4, <1>5

\* What is worse than its record is told as it is recorded, and the owner awaits the
\* reply to a nudge whose turn this tick has yet to start.
LEMMA NudgeKeeps ==
    ASSUME TickInv, NEW t \in Ticks, tick[t].at = "each", NEW p \in DOMAIN tick[t].todo,
           Nudge(t, p)
    PROVE  TickInv'
<1> DEFINE v == tick[t].todo[p]
<1>1. PICK m \in Messages : /\ awaiting' = [awaiting EXCEPT ![v.owner] = m]
                            /\ Handled(t, p, tick[t].nudged \cup {m})
  BY DEF Nudge, Fresh
<1> DEFINE k == [at |-> "each", todo |-> [q \in DOMAIN tick[t].todo \ {p} |-> tick[t].todo[q]],
                 nudged |-> tick[t].nudged \cup {m}]
<1>2. /\ TickIsRight(k) /\ k.at = "each" /\ k.nudged = tick[t].nudged \cup {m}
      /\ v.health \in Healths /\ p \in ProjectIds
  BY LeftToDo
<1>3. /\ tick' = [tick EXCEPT ![t] = k]
      /\ awaiting' = [awaiting EXCEPT ![v.owner] = m]
      /\ v.owner \in bots
      /\ projects' = Recorded(p, v.health)
      /\ told' = [told EXCEPT ![p] = Worst({told[p], v.health})]
      /\ UNCHANGED <<own, bots, turns, lost>>
  BY <1>1 DEF Nudge, Handled, Idlers
<1> HIDE DEF k, v
<1>4. Tables
  BY DEF TickInv
<1>5. /\ told' \in [ProjectIds -> Healths \ {"unknown"}]
      /\ \A q \in ProjectIds : Rank(told[q]) <= Rank(told'[q])
      /\ Rank(v.health) <= Rank(told'[p])
  <2>1. told \in [ProjectIds -> Healths \ {"unknown"}]
    BY <1>4 DEF Tables
  <2>2. /\ Worst({told[p], v.health}) \in Healths \ {"unknown"}
        /\ Rank(told[p]) <= Rank(Worst({told[p], v.health}))
        /\ Rank(v.health) <= Rank(Worst({told[p], v.health}))
    BY <1>2, <2>1, WorseOfTwo
  <2> DEFINE w == Worst({told[p], v.health})
  <2>3. told' = [told EXCEPT ![p] = w]
    BY <1>3
  <2> HIDE DEF w
  <2>4. \A q \in ProjectIds : told'[q] = IF q = p THEN w ELSE told[q]
    BY <2>1, <2>3
  <2>5. told' \in [ProjectIds -> Healths \ {"unknown"}]
    BY <2>1, <2>2, <2>3 DEF w
  <2>6. \A q \in ProjectIds : Rank(told[q]) <= Rank(told[q])
    <3>1. \A q \in ProjectIds : Rank(told[q]) \in 0..4
      BY <2>1, Ranks DEF Rank
    <3> QED
      BY <3>1
  <2> QED
    BY <1>2, <2>2, <2>4, <2>5, <2>6 DEF w
<1>6. /\ AreRows(projects')
      /\ DOMAIN projects' = DOMAIN projects
      /\ \A q \in DOMAIN projects : projects'[q].last = IF q = p THEN v.health ELSE projects[q].last
  BY <1>2, <1>3, RecordedRows
<1>7. awaiting' \in [Bots -> Messages \cup {NoMessage}]
      /\ \A b \in Bots : awaiting'[b] = IF b = v.owner THEN m ELSE awaiting[b]
  BY <1>3, <1>4 DEF Tables
<1>8. \A u \in Ticks : tick'[u] = IF u = t THEN k ELSE tick[u]
  BY <1>3, <1>4 DEF Tables
<1>9. Tables'
  BY <1>3, <1>4, <1>5, <1>6, <1>7 DEF Tables, AreRows
<1>10. WasTold(projects)'
  <2>1. \A q \in DOMAIN projects :
            projects[q].last # NeverRecorded => Rank(projects[q].last) <= Rank(told'[q])
    <3>1. /\ DOMAIN projects \subseteq ProjectIds
          /\ \A q \in DOMAIN projects : projects[q].last \in Healths \cup {NeverRecorded}
      BY <1>4 DEF Tables, AreRows, Row
    <3>2. WasTold(projects) /\ told \in [ProjectIds -> Healths \ {"unknown"}]
      BY <1>4 DEF TickInv, Tables
    <3> QED
      BY <1>5, <3>1, <3>2, ToldStays
  <2> QED
    BY <1>5, <1>6, <2>1 DEF WasTold
<1>11. \A u \in Ticks : TickIsRight(tick[u])'
  <2>1. ASSUME NEW d, TickIsRight(d)
        PROVE  TickIsRight(d)'
    <3>1. told \in [ProjectIds -> Healths \ {"unknown"}]
      BY <1>4 DEF Tables
    <3>2. ASSUME d.at \in {"facts", "bots"}
          PROVE  \A q \in DOMAIN d.rows :
                     d.rows[q].last # NeverRecorded => Rank(d.rows[q].last) <= Rank(told'[q])
      <4>1. /\ WasTold(d.rows) /\ DOMAIN d.rows \subseteq ProjectIds
            /\ \A q \in DOMAIN d.rows : d.rows[q].last \in Healths \cup {NeverRecorded}
        BY <2>1, <3>2 DEF TickIsRight, AreRows, Row
      <4> QED
        BY <1>5, <3>1, <4>1, ToldStays
    <3>3. ASSUME d.at = "each"
          PROVE  \A q \in DOMAIN d.todo :
                     d.todo[q].last # NeverRecorded => Rank(d.todo[q].last) <= Rank(told'[q])
      <4>1. /\ WasTold(d.todo) /\ DOMAIN d.todo \subseteq ProjectIds
            /\ \A q \in DOMAIN d.todo : d.todo[q].last \in Healths \cup {NeverRecorded}
        BY <2>1, <3>3 DEF TickIsRight, AreVerdicts
      <4> QED
        BY <1>5, <3>1, <4>1, ToldStays
    <3> QED
      BY <2>1, <3>2, <3>3 DEF TickIsRight, WasTold
  <2>2. ASSUME NEW u \in Ticks
        PROVE  TickIsRight(tick[u])'
    <3>1. TickIsRight(tick[u])
      BY DEF TickInv
    <3>2. \E d : d = tick'[u] /\ TickIsRight(d)
      BY <1>2, <1>8, <3>1
    <3>3. PICK d : d = tick'[u] /\ TickIsRight(d)
      BY <3>2
    <3>4. TickIsRight(d)'
      BY <2>1, <3>3
    <3> QED
      BY <3>3, <3>4 DEF TickIsRight, WasTold
  <2> QED
    BY <2>2
<1>12. NudgeHasTurn'
  <2>1. ASSUME NEW b \in bots', awaiting'[b] # NoMessage
        PROVE  \/ awaiting'[b] \in turns' \cup lost'
               \/ \E u \in Ticks : tick'[u].at = "each" /\ awaiting'[b] \in tick'[u].nudged
    <3>1. b \in Bots /\ b \in bots
      BY <1>3, <1>4, <2>1 DEF Tables
    <3>2. CASE b = v.owner
      BY <1>2, <1>7, <1>8, <3>1, <3>2
    <3>3. CASE b # v.owner
      <4>1. awaiting'[b] = awaiting[b]
        BY <1>7, <3>1, <3>3
      <4> QED
        BY <1>2, <1>3, <1>8, <2>1, <3>1, <4>1 DEF TickInv, NudgeHasTurn
    <3> QED
      BY <3>2, <3>3
  <2> QED
    BY <2>1 DEF NudgeHasTurn
<1> QED
  BY <1>9, <1>10, <1>11, <1>12 DEF TickInv

-----------------------------------------------------------------------------
(* The results.                                                              *)

LEMMA InitEstablishes ==
    ASSUME Init
    PROVE  TickInv
<1>1. ASSUME NEW p \in ProjectIds
      PROVE  /\ InitProjects[p] \in Row
             /\ told[p] \in Healths \ {"unknown"}
             /\ projects[p].last # NeverRecorded => Rank(projects[p].last) <= Rank(told[p])
  <2> DEFINE h == Previous(InitProjects[p].last)
  <2>1. InitProjects[p] \in Row
    BY RowsAssumption DEF Row
  <2>2. "ok" \in Healths \ {"unknown"} /\ h \in Healths
    BY <2>1 DEF Row, Previous, Healths
  <2>3. told[p] = Worst({"ok", h}) /\ projects = InitProjects
    BY DEF Init
  <2>4. projects[p].last # NeverRecorded => projects[p].last = h
    BY <2>3 DEF Previous
  <2> HIDE DEF h
  <2>5. told[p] \in Healths \ {"unknown"} /\ Rank(h) <= Rank(told[p])
    BY <2>2, <2>3, WorseOfTwo
  <2> QED
    BY <2>1, <2>4, <2>5
<1>2. /\ projects = InitProjects /\ DOMAIN projects = ProjectIds
      /\ own = [p \in ProjectIds |-> FirstHealth]
      /\ told = [p \in ProjectIds |-> told[p]]
      /\ bots = Bots /\ awaiting = [b \in Bots |-> NoMessage] /\ tick = [t \in Ticks |-> Idle]
  BY DEF Init, ProjectIds
<1>3. AreRows(projects)
  <2>1. projects \in [ProjectIds -> Row]
    BY <1>2, RowsAssumption DEF Row
  <2> QED
    BY <1>2, <2>1 DEF AreRows
<1>4. own \in [ProjectIds -> Healths]
  BY <1>2, HealthsAssumption
<1>5. told \in [ProjectIds -> Healths \ {"unknown"}]
  BY <1>1, <1>2
<1>6. Tables
  BY <1>2, <1>3, <1>4, <1>5 DEF Tables
<1>7. \A t \in Ticks : TickIsRight(tick[t])
  BY <1>2 DEF TickIsRight, Idle
<1> QED
  BY <1>1, <1>2, <1>6, <1>7 DEF TickInv, WasTold, NudgeHasTurn

LEMMA StepKeeps ==
    ASSUME TickInv, [Next]_vars
    PROVE  TickInv'
<1>1. CASE Next
  BY <1>1, StepCases, OthersKeep, RestartKeeps, ReadingKeeps, RecordKeeps, NudgeKeeps
<1>2. CASE UNCHANGED vars
  BY <1>2 DEF vars, threads, TickInv, Tables, AreRows, WasTold, TickIsRight, NudgeHasTurn
<1> QED
  BY <1>1, <1>2

LEMMA TickInvHolds == Spec => []TickInv
BY InitEstablishes, StepKeeps, PTL DEF Spec

\* However many ticks overlap, fail half way or die with the process, and whoever
\* deletes bots and projects meanwhile: what the projects table records as the last
\* health of a project was said in a nudge, or is no worse than what was.
THEOREM NothingIsSwallowed == Spec => []RecordedWasTold
<1>1. TickInv => RecordedWasTold
  BY DEF TickInv, WasTold, RecordedWasTold, Rank
<1> QED
  BY <1>1, TickInvHolds, PTL

\* A bot whose thread ends in a message without a reply has a turn that runs, or is
\* in the hands of a tick that will start one, or was left by a tick that failed.
THEOREM NudgesAreAnswered == Spec => []NudgeHasTurn
<1>1. TickInv => NudgeHasTurn
  BY DEF TickInv
<1> QED
  BY <1>1, TickInvHolds, PTL
=============================================================================
