# A verification project for botnet and its background services

The repository holds a chat server for bots (`go/botnet`), the background services that
run beside it (`go/std`: an automations runner, an artifacts store, the pipeline that fires
calendar events, a supervisor), two Swift clients, and a few scripts. This directory holds
TLA+ modules that model the parts with logic of their own, configurations that check them
with TLC, and theorems that TLAPS proves.

All paths below are relative to `src/`.

## The system

| Component | State | Operations | Talks to |
|---|---|---|---|
| Conversation core: `go/botnet/store.go`, `server.go` | SQLite tables `bots`, `segments`, `messages`; one goroutine per turn | create and delete a bot, send, retry, compact; the turn; Open after a death | model providers (slow, may fail), the change feed (triggers) |
| Change feed: `changes.go`, triggers in `store.go` | `change_log`, a wake-up channel | write by trigger, coalesced page, state token, long poll | every table; the clients mirror it |
| Opening and locking: `lock.go`, `store.go` Open, migrations | lock file, schema version | acquire, migrate, backfill, sweep | botnetsvc, botnetd, `stdd` |
| Calendars, events, recurrence: `store.go`, `rrule.go` | `calendars`, `events` | CRUD, expansion, the fireable window | projects, the firing pipeline |
| Projects, facts, health: `projects.go` | `projects`, `facts`, last health, the projected events | CRUD under tree guards, projection, tick and nudge | calendars; a nudge claims a bot like a send |
| Tools of a model: `tools.go` | none | one call per store operation | all of the store |
| Providers: `openrouter.go`, `backends.go`, `search.go`, `lib/modelSelector` | a static roster | HTTP calls | external |
| botnetsvc, botnetd | a port, a key file | start, stop | supervisor |
| Supervisor: `bg_services.go`, `stdd` | per service a backoff | run, restart, reset | launchd |
| Automations: `automations/*.go` | `runs` table, a bounded queue, registrations | enqueue, run, finish, sweep, fire verdict, register | calendar over HTTP, child processes |
| Firing pipeline: `ping`, `execcal` | none that outlives a tick | tick, list what may fire, forward | calendar, automations |
| Artifacts: `artifacts/*.go` | directories and stage files, a lock | insert by stages, sweep, status, query | drive |
| Drive syncer: `std/drive` | a token file | push with retries | external |
| Clients: `swift/botnet` | a mirror of bots and transcripts | send, poll for a reply, refresh | the server |
| Views, skills, extension | none that outlives a call | user interface, downloads | the user, external sites |

How they interact: the clients and the model's tools call the HTTP handlers; every handler
works on the one SQLite database through one connection; each write leaves a row in
`change_log`, from which the clients follow; `ping` asks the calendar what may fire,
`execcal` forwards it to automations, whose arbiter decides if a fire becomes a run;
`tickProjects` turns worsening health into messages to the owning bots, which start turns.

### What is hard, and what makes each part correct

- **Conversation.** A handler is several statements with other requests between them, a
  turn lasts minutes, the process dies in the middle. Correct when a bot never has two
  replies in flight, a reply lands behind its question, a question that says it was sent
  has one reply, no message awaits a reply that nobody will give, segments form a chain
  and summaries accumulate.
- **Change feed.** Pages are cut at a limit, changes of one id are coalesced, readers wait
  for a wake-up. Correct when a client that applies the pages holds what the tables hold,
  and no reader sleeps through a change.
- **Opening.** Several processes race for the lock, and a holder dies. Correct when one
  process at most serves the database.
- **Calendars.** Events are expanded into occurrences, edited and cancelled while the
  pipeline reads. Correct when the occurrences are those of a reference definition and
  nothing outside the window fires.
- **Projects.** Ticks overlap, fail half-way and read old health. Correct when the tree has
  no cycle, the projection equals the facts, and each worsening nudges its owner once.
- **Automations.** The queue is bounded, deaths leave rows half done, verdicts age. Correct
  when a run is executed at most once per accepted fire and each row ends settled.
- **Artifacts.** An insertion dies between stages, a sweep races it. Correct when a
  finished artifact is whole and a sweep condemns nothing that is alive.
- **Supervisor.** Correct when backoff grows until a healthy run resets it.

The hazards themselves, each at its line, are in `PROJECT.json`.

## The plan

In this order, the most important behaviour first. All of these are written, and the proofs of
each part are in a module of their own (`XProofs` of `X`; `CalendarProofs` holds those of `Firing`
and of `Recurrence`):

1. `Conversation`, `ReplySlots`, `ConversationSlots` and `ConversationProofs`: the
   conversation core, what it promises, that it keeps it, and proofs.
2. `ChangeFeed` and `ChangeFeedProofs`: the log with its triggers, coalescing, pages
   and tokens, a client that mirrors, and proofs.
3. `Calendars` (the tables), `ProjectHealth` (what is derived on read) and `Projects`, which
   extends both; `Nudges`, the tick, which extends `ProjectHealth`.
4. `Recurrence`: the expansion of rules against a reference definition.
5. `Automations` and `RunLedger`: the queue, the arbiter, the sweep, and what the table
   promises.
6. `Firing`, which extends `Calendars`: registration, ping and execcal, the composition of
   the calendar with the services around it.
7. `Artifacts`: the stages, the sweep, the lock, the reader of a status.

Left: a module `StoreLock` of the lock file and of `stdd` restarting its services.

## The conversation core

### Modules

`Conversation.tla` is the component. `ReplySlots.tla` is the abstract specification: a bot
has one slot, a question takes it, and only the turn that holds it settles the question.
`ConversationSlots.tla` maps the first to the second. `MCConversation.tla` is for TLC and
adds the symmetry. `ConversationProofs.tla` holds the proofs.

### How it corresponds to the code

The store calls `SetMaxOpenConns(1)`, so a statement outside a transaction and a whole
transaction inside one are atomic with regard to all others, and nothing larger is. Each
action is one of them, together with the computation up to the next.

| Code | Actions |
|---|---|
| `createBot`, `Store.CreateBot` | `CreateBot`, then `FindOpenSegment`, `ChooseIndex`, `InsertSegment` |
| `sendMessage`, `Store.SendMessage` | `SendMessage`, one transaction. The replay of an id, the conflict, the busy and the missing bot change nothing and are no steps |
| `retryMessage` | `RetryMessage` (reads the row), `FindOpenSegment` and perhaps two more, `ClaimRetry` |
| `compact`, `Store.Seal` | `CompactConversation`, `FindOpenSegment`..., `ListMessages`, `CheckInFlight`, `ReadSummary`, then `Seal` or `SummarizeFails` |
| `deleteBot`, `Store.DeleteBot` | `DeleteMessages`, `DeleteSegments`, `DeleteRow` |
| `startTurn`, `runTurn`, `turn` | `FindOpenSegment`..., `ListMessages`, `ReadSummary`, `CompleteTurn` or `ModelFails`, `SettleFailed` |
| the process dies, or stops | `Crash` |
| `Open`: backfill, `failInterruptedSends` | `Restart` |

State: `bots`, `messages` and `segments` are the tables; `serial` mints ids and rowids;
`proc` is, per request, the handler and the turn goroutine it starts, with their local
variables (`bot`, `msg`, `seg`, `idx`, `hist`, `sum`), which is where stale reads live; `up` and
`crashes` are the process. A message is its id. A summary is the set of the messages it
covers. `at` is the rowid. `answers` is no column: it remembers for the properties which
question a reply was written for. `botnetsvc` stops without waiting for turns, so an orderly
stop is a `Crash` as well.

`DeleteBot` also clears the owner of projects; that belongs to the module of projects.
`messages.segment_id` is no foreign key in the schema, so a message may outlive its segment.
Errors of the disk are left out: a statement fails on a constraint only.

### Properties

- `TypeOK`, with the points a process of each kind may be at, and what it then holds.
- `OneAwaitingPerBot`: never two replies in flight, whatever is requested.
- `TurnHoldsSlot`: a running turn has its question awaiting, and its bot to itself. Needs
  that no bot is deleted.
- `SlotHasTurn`: while the process is up, what awaits has a turn.
- `ReplyFollowsQuestion`: no user turn lies between a question and its reply. Needs that
  nothing is retried.
- `AnsweredOnce`: the status of a question says if it has its one reply. Needs the same.
- `SegmentChain`, `SummariesAccumulate`: of races of compactions with sends.
- `ImplementsSlots`: the refinement.
- `SlotIsFreed`: liveness.

### Runs

| Run | Shows | Bounds |
|---|---|---|
| `conversation_turns` | `TypeOK`, `TurnHoldsSlot`, `ImplementsSlots` | 4 requests of create, send, retry, compact; 2 bots, one to be created; one resent id; 1 death |
| `conversation_transcript` | `ReplyFollowsQuestion`, `AnsweredOnce`, `SegmentChain`, `SummariesAccumulate` | 5 of send, compact on one bot; 1 death |
| `conversation_liveness` | `OneAwaitingPerBot`, `SlotHasTurn`, `SlotIsFreed` | 3 of any kind, deletion included; 1 bot; 1 death; no symmetry |
| `summary_gap` | a comment of the code that the code does not keep, see below | 3 requests, no death |

Why the bounds suffice: a race here is between handlers of one bot. Four requests let two
racing ones follow a send that has been answered or has failed, with a fourth in the
middle; a death is interesting once, because a second one meets the same states. Two bots
show that nothing leaks from one to the other. The chain needs five, since two compactions
that race need something to seal twice. `OneAwaitingPerBot` and `SlotHasTurn` are proved as well,
so that three requests are enough for TLC. Each request slot is used once, so the number of
requests bounds the rowids and the behaviours; `MaxCrashes` bounds deaths. `Quiet` is the
server with nothing to do, so that deadlock checking stays on and finds any process that
waits for something that cannot happen.

Requests are interchangeable, and so are client ids; the liveness run uses no symmetry.

### Fairness

`WF(Step(p))` for each request: goroutines are scheduled, and a call of a model ends within
`turnTimeout` (`go/botnet/server.go:21`). `WF(Restart)`: the supervisor, and behind it
launchd, starts a dead process again. No client is made to ask, nothing is made to die.

### Where the comments and the code disagree

`summary_gap` is a run of kind `violation`, with an entry in `findings` that quotes the line:
a send that arrives during the call of the summarizer is sealed in and is in no summary
afterwards.

`MCConversation_reanswered.cfg` is a further configuration, of which TLC finds
`AnsweredIsNotRetried` violated: two retries of one message at once run it twice, since the
claim does not look at the status again.

Seen with the same module, and without a run of their own: such a send may be sealed in while
it still awaits its reply, though `compact` looks for that (before the call); a message that
is retried gets its reply behind later user turns, which is why `ReplyFollowsQuestion` excludes
retries; and a send that arrives while its bot is being created opens a segment, and the
creation opens another, which is why `SegmentChain` excludes creations.

### What is proved

For all sets of bots, ids, requests and kinds, and any number of deaths, from the four
assumptions on the constants in `Conversation.tla` (the one that matters:
`ClientIdsAreNotMinted`, an id from a client never equals a minted one, which are random
UUIDs in the code; without it an insert could hit a row of another bot):

- `TypeCorrect`: `Spec => []TypeOK`. `TypeOK` is inductive because it ties `pc` to the kind of the
  process: `ClaimRetry` needs to know that its `msg` is a message. One lemma per action;
  `HandleOK`, `StartTurnOK`, `GotoOK` and `FinishOK` say it for what they share.
- `OneReplyInFlight`: `Spec => []OneAwaitingPerBot`. The invariant is inductive with `TypeOK`. The
  lemma `AwaitingFrom` reduces each step to one question: where can an awaiting message come
  from? Only from a claim that has just seen the bot free.
- `AwaitingHasTurn`: `Spec => []SlotHasTurn`. A step makes a message awaiting only as it starts
  the turn, a turn ends only as it settles its message (`TurnStays`), and after a death nothing
  is up until the sweep.

The others name the kinds of requests that they are about, because the code breaks them with the
rest; the runs choose `Kinds` in the same way, and the sections above say what goes wrong.

- `OneTurnPerBot` (nothing is deleted): `[]TurnHoldsSlot`. `SlotInv` adds that a number in the tables
  was minted (`Minted`) and that the message a retry or a turn works on is a question of its own
  bot (`HasQuestion`), which stays true only while no message goes: deleting a bot frees the id
  for another one.
- `ServerGivesOneSlot` (nothing is deleted): `ImplementsSlots`. `StepWrites` says what a step of a
  handler does to the messages (asks, asks again, replies, fails, or nothing), `SlotsStep` which step of
  `ReplySlots` each of these is.
- `TranscriptInOrder`, `RepliesAreSingle` (nothing is retried or deleted): `[]ReplyFollowsQuestion` and
  `[]AnsweredOnce`. `TranscriptInv` adds that rowids are minted in order, that a reply belongs to a
  question that is marked as sent, and that a question that awaits is the newest of its bot
  (`AskedLast`), which is what makes its reply follow it.
- `SegmentsAreAChain`, `SummariesAreCumulative` (nothing is created or deleted): `ChainInv` says what
  a compaction under way knows (`CompactionKnows`): if the segment it has read is still the open one,
  then the summary it has read is still the latest. A second compaction that has read the same
  segment finds its index taken (`SealsOpenOne`).

Only model-checked: `SlotIsFreed`, which is liveness.

## The change feed

`ChangeFeed.tla` is the component with the clients that follow it, `MCChangeFeed.tla` is for TLC,
`ChangeFeedProofs.tla` holds the proofs.

### How it corresponds to the code

| Code | Definitions |
|---|---|
| the triggers `chg_*` of `store.go` | `Insert`, `Update`, `Delete`: a row and its log entry in one step |
| `ChangesSince` | `Page` is the query, `PageOf` its rows of one id, `Destroyed` and `Present` the buckets, `NewState` the token, `HasMoreChanges` its flag |
| `stateHeader`, then the collection (`listBots` and its like) | `ReadStateHeader`, then `ReadCollection`: two statements |
| `getChanges`, the long poll | `GetChanges` is the iteration that finds the state moved, `GetNothing` the answer after a vain wait |
| `MessagesByIDs` | `GetBatch`, at most `BatchLimit` ids |
| a client that starts again | `Relaunch` (external) |

A row is represented by its version, the number of the change that wrote it last, which tells
the properties everything about staleness and nothing else. The type of an entity is part
of its id. A statement that writes several rows appears as several changes, which allows more
interleavings than the server does. A client fetches what was named before it polls again, in
any order. Nothing prunes the log, so no token is too old.

### Properties and runs

- `NothingMissed`: a client that follows has the current version of each row, or is about to
  fetch it, or a later page will tell it. It relates the token, the buckets of every earlier
  page and the table, wherever pages are cut.
- `MirrorIsExact`: a client that has caught up holds the tables, deletions included, if it has
  followed from the first change on (phase `inStep`), and of ids that are used once. Without
  either condition the code breaks it. Both are conditions of the property: the runs have ids
  that return, and clients that list the collections.
- `ClientsCatchUp`: liveness, with a client that keeps polling. The server is not made to write.

| Run | Shows | Bounds |
|---|---|---|
| `feed` | `TypeOK`, `NothingMissed`, `MirrorIsExact`, `ClientsCatchUp` | 3 ids, 5 changes, pages of 2, batches of 1, 1 client that may be relaunched; no symmetry |

Clients share nothing but the tables, so one client shows what any of them sees. A page of two
entries is the smallest that can coalesce; five changes fill two pages and leave a partial one,
and let an id be created, destroyed and created again with another one in between.

`MCChangeFeed_ghost.cfg` is a further configuration, of which TLC finds `NoGhosts` violated: the
token of a collection is older than its rows, and a row created in between and destroyed
before the next poll is omitted as "created then destroyed", though the client has it from the
collection. The same omission happens when an id is destroyed, created and destroyed within a
page (a client may send a message with the id of one whose bot was deleted).

### What is proved

For all sets of ids and clients, all positive limits and a log of any length:

- `FeedTypeCorrect`: `Spec => []TypeOK`, with the invariant that no token is ahead of the log.
- `NoChangeIsMissed`: `Spec => []NothingMissed`. Inductive with `TableIsLogged`, which says that the
  version of a row is the position of its last entry and that this is no tombstone. If
  that position is on the page that a client reads, the row is in its bucket; if it is not, it
  is behind the token already or still ahead of the new one.
- `MirrorsAreExact`: `Spec => []MirrorIsExact`. The invariant says in addition that the first entry
  of an id is its creation (`BornFirst`), that a client in step knows only what the log tells up
  to its token, and that of what is gone it has been told, or will be: a creation on the same
  page as the tombstone means that the client never had the row, which is what coalescing
  counts on and what fails if an id returns. That an id is used once, and that a client is
  in step, were so at every earlier state if they are so now (`UsedOnceBefore`, `InStepBefore`), so
  the theorem needs no assumption beyond those on the constants.

Only model-checked: `ClientsCatchUp`.

## Calendars and projects

`Calendars.tla` has the tables of calendars and events, `ProjectHealth.tla` what is derived of
projects and facts on every read, `Projects.tla` extends both and has the tables of projects and
facts with all writes.

### How it corresponds to the code

A write of the store is one transaction here, and so one action with all it does to the
calendar. A request that is refused changes nothing and is no step.

| Code | Definitions |
|---|---|
| `CreateCalendar`, `UpdateCalendar`, `DeleteCalendar`, `ensureCalendar` | the actions of these names, `Ensured`; deleting takes the events along (`Cascaded`) |
| `CreateEvent`, `UpdateEvent`, `DeleteEvent`, `requireExecutable` | the actions of these names, `RequireExecutable` |
| the tool `runCalendarDeleteCalendar` | `CountEvents`, then `DeleteEmptyCalendar`: two transactions |
| `createProject`, `UpdateProject`, `DeleteProject` | the actions of these names, with `Parentable`, `RequireOwner`, `Retitled`, `ShadowsOf` |
| `CreateFact`, `UpdateFact`, `DeleteFact`, `projectFact` | the actions of these names, `ProjectFact`, `Shadow` |
| `DeleteBot` | `ClearOwner`, `DeleteRow`: here only the statements that meet a project |
| `factSignals`, `nextOccurrence`, `leadFor`, `projectHealth` | `Signal`, `NextOccurrence`, `LeadFor`, `OwnHealth` |
| `rollUp`, `loadForest`, `drivingFacts` | `Inherited`, `RolledUp`, `Forest`, `DrivingFacts` |
| handlers in `server.go` | `ProjectRequest`, `FactRequest`, `EditCalendar`, `EditEvent`, `BookOrCancel` |

A day is a number, and 0 is no date. The rule of a recurring fact is a period and a count.
An id is a number; the sequence of events and projects is that of the ids, which decides
nothing. `touched` is history: which shadows the user has edited since the fact was written.
`events[e].title` is a pair for a shadow and a single for an event of the user.

### Properties and run

- `IsForest`, `NothingDangles`: what the guards on parents and the cascades are for.
- `ShadowsAreExact`: a fact has a shadow on the calendar exactly if it is dated and undone, the
  shadow says what the fact and the project's name say now, and there is no other.
- `AutomationNeedsExecutable`: no write of an event brings an automation onto a plain calendar.
- `HealthAnswersForSubtree`: what the two passes of `rollUp` compute is what a definition without
  any walk says (`ReferenceHealth`: over all facts below, the nearest lead window above).
- `LoudProjectsNameFacts`: a project that is loud has a fact that a nudge about it can name.

| Run | Shows | Bounds |
|---|---|---|
| `projects` | all of these | 3 projects, 2 facts, 2 calendars and 2 events ever; 1 bot; 4 further writes after a state with a project in a project, a dated fact and its shadow; looked at on days 1 and 3 |

The state the run starts from is reached by four writes; with it, four more reach a chain of
three projects with a move in it, a second fact, a rename with two shadows, and a shadow that
is edited, lost with its calendar and made again. Requests beyond that repeat what two rows of a
kind do to each other.

### What is proved

For any tables of names, leads, patches and new facts, any bounds, and any number of requests:

- `ProjectsAreForest`: `[]IsForest`. A new parent is checked by a walk up, a deletion cascades by a walk
  down, and neither is of use unless it takes in all there is. The first part of
  `ProjectsProofs` shows that of any such walk: it adds a layer at each step, a step
  that adds nothing ends it, and there are no more steps that add something than there are places
  (`LayersReachAll`); so `Ancestors` and `Subtree` are closed (`AncestorsClose`, `SubtreeCloses`). The
  invariant `ForestInv` says that there is a height that rises from child to parent.
  A move raises the height of all that is above the new parent, which the guard has found not to
  be the moved project; `IsForest` follows since what is above is higher.
- `ProjectsTypeCorrect`, `NothingEverDangles`: `[]TypeOK`, `[]NothingDangles`, from `RowsInv`: the rows of
  each table have their fields, point at rows that are there, and have ids that were handed out.
- `NoAutomationSmuggled`: `AutomationNeedsExecutable`, from the same, write by write.
- `ShadowsStayExact`: `[]ShadowsAreExact`. `ShadowInv` adds that no two facts point at one event, so that
  `retitleProjectedEvents` and a cascade meet each shadow through its own fact. `ProjectFactCasts`
  lists what `projectFact` may do: remove, rewrite or make a shadow.
- `LoudNameFacts`: `[]LoudProjectsNameFacts`. From `ProjectHealthProofs`: the roll-up exists on
  every forest (`RolledUpHealths`), and the health of a project is that of some project in its
  subtree by its own facts (`HealthHasCause`), so that one of these drives it.
- `HealthIsWorstBelow`: `[]HealthAnswersForSubtree`. The reference speaks of all that is above a fact and
  all that is below a project, the code of one parent and of children. What joins them is that
  there are fewer places above a parent than above its child (`FewerAboveParent`), which makes the
  window nearest above a fact well defined, and that the worst of a subtree is that of a project or of
  one of its children's subtrees. A project about which the two disagree would have a child, or a
  parent, about which they disagree as well, and a forest is too short for that.
- `ForestsHaveHeights`: `[]HasHeights(projects)`, which is what `Nudges` assumes of the rows it reads.

The assumptions on the constants: a patch has only fields that `FactPatch` (`projects.go:1064`),
`EventPatch` (`store.go:1636`) and `CalendarPatch` (`store.go:1485`) have, none of which is the kind of a
fact or its pointer to its event; their values have the types of those fields, a lead window is no less than
0 and a day of looking is a day; a title of two parts stands for a projected one and is none a
user gives. The run starts from a state that four writes reach, the theorems are about `Spec`, from
the empty tables on.

Nothing of this component is left to TLC alone.

### Where words and code disagree

Where the code breaks what its words say: `MCProjects_owner.cfg` is a further configuration, of
which TLC finds `OwnerHasBot` violated. `DeleteBot` clears the owners first and removes the bot
last, and an update in between names it again; such an owner is read as none.

## Nudges

`Nudges.tla` is the tick of the projects: `TickProjects` and its handler.

### How it corresponds to the code

| Code | Actions |
|---|---|
| `loadForest`: projects, facts, bots | `ReadProjects`, `ReadFacts`, `ReadBots`, which decides all (`Verdicts`) |
| the loop of `TickProjects`, most urgent first | `Record`, `Skip` or `Nudge` of `MostUrgent`: each one transaction |
| `tickProjects`: a turn for each nudge | `StartTurns` |
| a statement that fails: the handler answers 500 | `TickFails`; `lost` remembers the messages that it leaves awaiting |
| `claimBot` and `startTurn`; a turn that ends | `Send`, `TurnEnds` |
| `DeleteBot` | `ClearOwner`, `DeleteMessages`, `DeleteRow` |
| death, `Open` and its sweep | `Restart` |

The facts of a project are what they alone give it, which changes at any time
(`HealthChanges`). A message has an identity while it awaits a reply. `told` is history: the worst
that a nudge has said of each project.

### Properties and run

- `RecordedWasTold`: nothing bad is on record that no owner was told of.
- `NudgeHasTurn`: what awaits a reply has a turn, or a tick that will start it, or it is one of
  those that a failed tick has stranded.
- `NewsArrives`: liveness. What stays worse than its record, with an owner, is told, unless the
  owner is found busy again and again.

Run `nudges`: a project in a project, the outer one with an owner; 1 bot, 2 ticks, 2 messages,
healths `ok` and `overdue`, 1 fault, which is a death or a failed statement; no symmetry. Two ticks
overlap only once the inner project is deleted, and before the bot is deleted or a fault happens
(`MCNext`): what two ticks do to each other shows on one project. `Ping` is the one handler that is
called for ever: `WF(TickStep(Ping))`, `WF(TurnEnds)`, the latter by `turnTimeout`.

Proved, for any bots, projects, ticks, messages and faults: `NothingIsSwallowed` (`[]RecordedWasTold`) and
`NudgesAreAnswered` (`[]NudgeHasTurn`). `TickInv` says of the rows that a tick has read, and of the verdicts that it has made of them, that
the record in them was told, although the table may hold another one by now: what a tick skips
or records without a nudge is no worse than the record it has read, and `told` only gets worse. The
assumption that the rows are a forest (`ForestAssumption`) is what `ForestsHaveHeights` proves of the writes. Only
model-checked: `NewsArrives`.

Where words and code disagree, seen with this module: `MCNudges_hollow.cfg`, of which TLC finds
`NudgeNamesAFact` violated (facts are read after projects, so that a health may be rolled up that
no fact of the reading drives). Two ticks that overlap tell the same owner twice. A tick that fails
half way leaves owners awaiting until the next restart (`lost` in `NudgeHasTurn`). A nudge may be
about a project that was deleted since it was read.

## Recurrence

`Recurrence.tla` is `rrule.go`, with the client that pages through `Instances`.

| Code | Definitions |
|---|---|
| `parseRRULE` | `Parses`, and `IsRule` for the ranges of the parts |
| `daily`, `weekly`, `monthly`, `yearly` | `Period`, the candidates of a period, and `Turn`, one round of the loop |
| `monthDays`, `byDaySet`, `applySetPos`, `dayAllowed` | `MonthDays`, `ByDaySet`, `ApplySetPos`, `DayAllowed`; `Place` and `InPlace` are positions in a sorted list |
| `emit`, `occurrences` | `Emitted`, `Occurrences` |
| `anchor`, `wallLimit`, `expandEvent` | `Anchor`, `WallLimit`, `Expand` |
| `Instances`, `Fireable` | `Instances`, `ActiveAt` |
| a client that asks for the next page | `Open`, `Page` |

Instants and clocks are counted in hours; a zone has one change of its offset. The state is the
event, how far the pages go and what they have shown.

- `PagesAreExact`: the pages together show what the rule means, which `Meant` says day by day: a day
  is picked if its period is one of the interval, it satisfies the parts, and its rank among such
  days of its period is asked for; a count and an end are then applied.
- `FireableIsShown`: what is fireable at an instant is what the calendar shows as active.
- `ClockIsKept`: an instance begins and ends at the clock of the event, except where no instant has that clock.

The first two have conditions, without which the code breaks them. They begin with the start of the
event, and say nothing of instances that are over before it: an event that begins in the
second of two hours with one clock is expanded from the first, so that it has an instance an hour
before itself, which a page may or may not look at (`event.start < to`). And
they leave out instances of no length: one that begins in a skipped hour may end at or
before its start; it then is shown or not depending on where pages meet, and never fires.

Run `recurrence`: some 2400 events, each paged from two starts (`Openings`, before and within the
event) by 4 pages of a length with no
relation to the period; every frequency, intervals of 1 to 3, each part alone and the pairs that
interact, COUNT, UNTIL exactly at and just before an occurrence; clocks in and around the hours that
New York and Berlin skip or repeat and the day that Samoa skipped; events of 1 to 30 hours;
somebody looks for what may fire 1 and 26 hours before the end of a page (`Looks`). Expansion
is a function of its input, so no bound on behaviours is involved. `MaxPeriods` is 20, where the
code has 100000; no event of the run comes near either.

### What is proved

For any events, rules, zones, starts and lengths of pages, in `CalendarProofs`:

- `PagesShowWhatIsMeant`: `Paging => []PagesAreExact`. It takes two steps, which are theorems of interest by
  themselves: `PagesAreOne` (nothing is lost or made up where pages meet) and `RulesMeanWhatTheyPick`.
- `PagesAreOne`: what the pages show is what one page over all of it would (`PagingInv`). An
  expansion stops at a limit that depends on its page, so two of them are different walks. They agree on
  every clock up to the lower limit, period by period (`Alike`), as a period that begins
  behind a limit holds nothing before it, and a COUNT counts the same ones. The day of slack
  in `WallLimit` is what makes the limit late enough for every instance that overlaps the page.
- `RulesMeanWhatTheyPick`: up to its limit, a walk emits exactly the clocks that the rule means. First,
  calendars: a day is in one month and one year (`DateOfDay`), the days of a unit are an interval and units
  follow each other, so the period of a day as the reference counts it is the period in which the
  walk comes by it (`PicksArePeriods`), and the days that `Period` makes of the parts are the days of its unit that
  fit (`CandidatesFit`); the n-th weekday of a month is the one with n - 1 weeks before it
  (`PlacesOfDay`). Then the loop, with the invariant `Walked`: before it is over, a walk has emitted what
  was wanted before its period; when it is over, it has emitted nothing that is not owed and
  all that is, up to its limit. COUNT and UNTIL end it early, and what is wanted later is not owed then.
- `WhatFiresIsShown` (`[]FireableIsShown`) and `WindowsAgree`: from whichever instant of its window an instance
  is looked at, it is the same, so the arbiter, which names a run by its window, is not fooled.
- `InstancesKeepTheirClock` (`[]ClockIsKept`), from `AnchorIsExact`: two looks at the offset are enough; an
  instant that `Anchor` gives has the clock it was asked for, unless no instant has that clock.
- `RulesEnd`: however far it is expanded, a rule has nothing before its start or at another clock, no more than
  its COUNT and nothing behind its UNTIL.

The assumptions are those of the constants: `RepeatingAssumption` (an event ends after it begins; the
ranges that `parseRRULE` admits; an offset changes by a day at most), `PagesAssumption`, and
`PeriodsAssumption`: the periods of a walk reach past the last page. The code has `maxPeriods` of 100000, which
for a daily rule is 274 years; what the rule means beyond them, the code does not show.

### Where words and code disagree

`MCRecurrence_repeated.cfg` is a further configuration, of which TLC finds `NothingBeforeStart` violated:
the instance an hour before the event of which the conditions above speak, though a comment in `store.go` says
that a rule cannot produce an instance before its own first occurrence.

Where the definition follows the code: a rule that is YEARLY, with BYMONTHDAY and without BYMONTH, only
takes the month of its start, where RFC 5545 takes every month. Not in the model: a BYMONTH that names a month twice
makes the code count its days twice; the model has sets.

## Automations

`Automations.tla` is the service, `RunLedger.tla` what its table promises.

### How it corresponds to the code

| Code | Actions |
|---|---|
| `New`, `Dial` in `Run` | `BeginRun` |
| `drainQueue` | `DrainQueue`, then `ResetPending`: only the second is under the mutex |
| `Store.SweepInterrupted` | `SweepInterrupted` |
| `serve`: remove the socket, listen | `Listen` |
| `tick`, the rescan half | `Discover`: what the repo holds may change |
| `POST .../run`, which the botnet gateway bridges | `ManualRun`, at any time in the life of the process |
| `POST .../fire`, on the socket only | `DecideFire` is `fireVerdict`, which takes no lock; then `EnqueueFire` or `RefuseFire` |
| `enqueue` | `Enqueue`, one step, as it holds the mutex; a full queue leaves a row in error |
| `worker`, `execute` | `TakeJob`, `MarkStarted`, `FinishRun`, `ReleaseAutomation` |
| `Run` returns; `Supervise` calls it again | `StopRun`, `ReturnFromRun`, and `BeginRun` once more |
| the process is told to stop | `StopRun`, `Exit` |
| the process dies | `Die` |

`runs` is the table, which alone outlives a process. `serves` says to whose listener the path of
the socket leads. `queue`, `pending`, `known` and `work` are the memory of each process, `life`
where it is in `Run`. A fire under way is in `fires` between its verdict and the lock. The status
`failed` stands for each status of an envelope other than ok. The envelope is reduced to the
newest period of one artifact, which is what `advanced` compares; a run fetches as it
ends, since no other run can see when it really did. Instants are numbers. Failing
statements are left out. A fire may be late: the calendar only offers open windows, but the
arbiter does not look at the end.

### Properties and run

- `QueueHoldsOne`, `RunsAreSerial`: what comments promise of the queue and the worker.
- `ImplementsLedger`: the refinement of `RunLedger`. Runs are taken up one at a time in the order
  in which they were asked for, none twice, an outcome is final, and a restart settles all that
  were under way.
- `NothingWaitsInVain`: no run is forgotten, and no automation is refused for nothing.
- `SatisfiedStays`: what the arbiter derives from the table is stable, so late fires are harmless.
- `EveryRunSettles`: liveness.

| Run | Shows | Bounds |
|---|---|---|
| `automations` | `TypeOK` and all of these | 2 automations, of which one has a pace; the repo holds both or none; a queue of 1; 1 window, 3 instants, periods 0 and 1; 1 fire at a time; 2 runs; 1 death or shutdown; 1 return of `Run` |

A queue of one place and two automations fill it. Two runs are a baseline and the one that
satisfies the window, or one under way and one that waits, or is swept. Three instants put runs
before a window, in it, and past the pace.

When `Run` has returned and is called again in a process that lives on, a manual run between
the two halves of `drainQueue` is queued and not pending, so that its automation can be queued
twice; one between `drainQueue` and the sweep is settled as interrupted and executed afterwards.
That is why `QueueHoldsOne`, and the mapping of the ledger, end with the first such return
(`NoReturns`). The other properties include it.

Fairness: `WF(Progress(p))`. Goroutines are scheduled, `runTimeout` ends each command, `Supervise` calls
`Run` again, and launchd starts the process again. Nobody is made to ask for a run.

### What is proved

For any automations, windows, bounds, deaths and returns of `Run`: `AutomationsTypeCorrect` and
`QueueNeverRepeats` (`[]TypeOK`, `[]QueueHoldsOne`) for any number of processes, from `SharedInv`. The
others need `OneProcess`, that all that ever runs on the root is one process after another, because the
code does not keep a second one out for certain (below); the run is made in the same way.
`RunnerInv` adds to `SharedInv`:

- `RowsInv`: the rows of the jobs say how far the worker is, and while `Run` works, a row that says
  running is the worker's (`SoleRunner`) and what has not settled is a job (`UnsettledIsJob`);
- `ClockLeads`: no row is from the future, and the run at work started after all that are ok.

From it: `SerialRuns`, `NobodyWaitsInVain` (an automation that is marked as pending is in the queue or
at work), `SatisfactionLasts` and `TableIsLedger`, the refinement: every step of the service is
one of `RunLedger` or leaves the table as it is. Only model-checked: `EveryRunSettles`.

### Where the comments and the code disagree

Two further configurations, of which TLC finds the property violated, as comments promise more than
the code keeps: `MCAutomations_double_fire.cfg` (`FiresAreIdempotent`; the verdict is read before the
lock is taken, so a fire can queue a run for a window that has just been satisfied) and
`MCAutomations_two_processes.cfg` (`RunsAreSerial`; the check for another service and the takeover of
the socket are two steps). The passing run has one process for that reason.

## The firing pipeline

`Firing.tla` composes the tables of `Calendars` with the services around them.

| Code | Actions |
|---|---|
| `ping`: a tick of each service, for ever | `TickStep("ping")` and `Fetch` under fairness |
| `tick` of automations, at startup (a goroutine of `Run`) and when pinged | `Begin`, of two tickers |
| `ensureRegistered`, request by request | `ListCalendars`, `CreateRegistration`, `ListEvents`, `Book` per automation, `End` |
| a request or its answer is lost | `LoseRequest`, `LoseAnswer`, `LoseFire` |
| execcal: fetch what is fireable, fire each row | `Fetch`, `Fire` |
| the process of the three services | `Die`, `Restart` |
| what the user does to calendars and events | `UserWrites` |

`asked` remembers which windows a fire has brought to an automation; what the arbiter makes of
them is in `Automations`. A day stands for a window. The order of rows is left open. The 30 s after
which a client gives up a request are a lost request; that a request given up is nevertheless
done later is not modelled. `UserWrites` has no patch of an event's own automation.

- `BookedOnce`: ensure-if-absent. An automation is never booked twice, wherever the user moves its
  event, as long as no two ticks were under way at once. The condition is needed: without it
  TLC finds the tick at startup and the first pinged one booking the same automation.
- `EveryAutomationIsAsked`: end to end, each scheduled automation is asked to run for the last
  day, unless the user has turned it off, whatever was lost before.

Run `firing`: 1 scheduled automation; the user's events name it or one that is gone; 2 days; 2
mishaps in all, which are lost requests and answers, deaths and writes of the user; no symmetry.
Fairness: ping's tick, execcal's tick, the restart and the clock. Two mishaps suffice for one that
makes a half-done state and one that hits it.

Proved, for any repo, any days and any mishaps: `FiringTypeCorrect` and `NothingIsBookedTwice`
(`[]BookedOnce`). `FiringInv` says that a tick that books holds a calendar, and that an event is named for what it
fires unless a user made it; `BookInv` says that while no two ticks have overlapped, what a tick has left to book has no event
yet: whatever it listed before, users only move, patch and delete events, or make ones of their
own. An answer that is lost leaves the booking done and ends the tick, so that the next one lists
again. Only model-checked: `EveryAutomationIsAsked`.

`TurnedOff` has a case that reads like a fault: the user makes a calendar by the registration's name
that is not executable. `ensureCalendar` takes it, every booking is refused, and registration
stays stuck, although a comment in `registration.go` calls the calendar "(executable)".

## Artifacts

`Artifacts.tla` is the managed store. A step is one change of the file system.

| Code | Actions |
|---|---|
| `Insert`, stage by stage | `Begin`, `Allocate`, `Mkdir`, `Mark`, `Move`, `CreateDir`, `Sync`, `WriteRefs`, `Complete`, `Fail` |
| the watcher of the inbox, a request, `stdd insert` | the slots `inbox`, `api`, `direct` |
| `New`, `acquireLock` | `Construct`, `Acquire` |
| `SweepInterrupted`, then serving | `SweepNext`, `SweepCondemn`, `SweepUntag`, `Serve` |
| `Status` | `ReadErr`, `ReadWip`, `ReadRefs` |
| a process dies; a complete directory is removed to save space | `Dies`, `DirectDies`, `DeleteDir` |

`place` says where a file is, `dirs` what markers a directory has; `meant`, `given`, `hit`, `orphans` are
history. Stages of remote storage may fail after they were done. Reading and writing the root does
not fail.

- `HandedOutIsGood`: a number that was handed out stays good: its directory is complete, holds just
  its files, and all are in remote storage; unless a starting service took a direct insertion for a
  dead one (`hit`).
- `DirsAreExclusive`: two insertions never share a directory, however old a counter they go on.
- `WipHasMachine`: while a service serves, what is tagged as in progress is in progress.
- `StatusIsSound`: what `Status` calls complete was copied, however its three reads interleave.
- `InboxDrains`: liveness.

Run `artifacts`: 2 services, 3 slots, 2 files of which one is in the inbox, 4 numbers, 1 death, 1
removal; the restrictions of `MCNext` are listed at the head of `MCArtifacts.tla`. They leave out
two things happening at once that touch different directories. Fairness: a process goes on with
what it has begun, services are started, the watcher looks again.

Proved, for any services, slots, files and numbers, any deaths and removals: `StoreTypeCorrect`, and
with the one invariant `StoreInv`

- `HandedOutStaysGood`, `InsertionsNeverShare`, `TagsAreLive`: the three invariants above;
- `StatusTellsTheTruth`: the action property `StatusIsSound`.

`StoreInv` says of each insertion at each stage which markers its directory has and where its
files are (`OnItsWay`), that one service at most holds the lock (`OneHolder`), that no two insertions have one
number (`Apart`), that what the references of a directory name was copied (`RefsAreCopied`), what a sweep has
listed and may condemn (`SweepIsRight`), and that a tag belongs to a live insertion, a sweep that
will come to it, or a direct process (`SweptOrLive`). An old counter never makes two insertions share a
directory, because `Mkdir` fails if it is there. Only model-checked: `InboxDrains`.

`swept_alive` is a run of kind `violation`, with an entry in `findings`: a service that starts while
`stdd insert` works on the root condemns its directory, and the insertion hands the number out.
Also seen: a number is used again when a waiting service goes on with the counter it read at
its construction and the directories are gone; `Status` answers as for a directory of old times
between `Mkdir` and the first marker, and COMPLETE while a sweep is condemning.

## Types

`TypeOK` is proved of `Conversation`, `ChangeFeed`, `Automations`, `Projects`, `Artifacts` and `Firing`,
and `Tables` in `NudgesProofs` says it of `Nudges`. Runs check it of the first three; the
others spend their time on the other properties.

## What is proved, and what is only checked

Every invariant and every action property that a passing run checks is proved for every value of the
constants, and so are both refinements. The sections of the components name the inductive
invariants. TLC checked each of them on small instances, but for the height of the forest,
which it cannot choose, and the invariants of `CalendarProofs` about walks, which speak of sets of clocks
without an end.

What recursion computes is proved although the prover has no induction over data: the recursions are
functions on an interval of numbers or on the projects of a forest, and a lemma says that a set
of numbers which contains 0 and with a number the next one contains them all (from the
least number outside of it: `SmallestNumber`, `LeastNumber`, `GoesOn`).

What stays with TLC is liveness under fairness, which is beyond this prover: `SlotIsFreed`, `ClientsCatchUp`,
`NewsArrives`, `EveryRunSettles`, `EveryAutomationIsAsked`, `InboxDrains`.

Hypotheses of theorems, beyond the assumptions on constants: `OneProcess` in `AutomationsProofs`, and
those on `Kinds` in `ConversationProofs`. They exclude what the sections
of the components describe as breaking a property, though not each property that is stated under
one of them needs it. Each is met by the instances of the runs, and by a server to which the excluded
request is not made.

## Not modelled

- The lock file and the migrations of `Open`: a holder that dies releases a lock of the operating
  system, and migrations run before anything else does.
- How long a service stays down (the backoff of the supervisor) and launchd.
- Model providers, web search, OAuth and HTTP of the Drive syncer: external; what the modelled parts
  ask of them may fail or be slow.
- The parsing of tool arguments, manifests, envelopes and rules, apart from the checks of `parseRRULE`.
- `PATCH` of a bot, its memory and `MarkRead`: they touch no message and no segment.
- The clients' own state and the views: the server's side of what they ask for is modelled, and so is
  a client of the change feed.
- Errors of the disk.

Hazards in `PROJECT.json` without a property are those where the code does what the hazard says;
the sections above name them.
