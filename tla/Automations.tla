---------------------------- MODULE Automations ----------------------------
(***************************************************************************)
(* The automations service: a registry of automations, the runs table, the *)
(* queue of the serial runner, and the arbiter that decides whether a fire *)
(* of a calendar window becomes a run.                                     *)
(*                                                                         *)
(* A process keeps the queue, the pending set and the registry in memory;  *)
(* the table is on disk and outlives it.  Each statement on the table is   *)
(* one step, and so is what happens under the mutex of the service.  Run,  *)
(* which sweeps, serves and works, may return and be called again in the   *)
(* same process; the gateway has the routes for manual runs mounted all    *)
(* the while.                                                              *)
(*                                                                         *)
(* An envelope is reduced to the newest period of its one artifact.        *)
(***************************************************************************)
EXTENDS Naturals, Sequences, FiniteSets

CONSTANTS
    Processes,     \* server processes on one root
    NoProcess,     \* stands for none of them
    Automations,   \* the names in the repo
    Discoveries,   \* sets of names that the repo may hold at a time
    Scheduled,     \* those with a schedule, that is with a pace
    Fires,         \* the fires that may be under way at a time
    Windows,       \* the starts of calendar windows
    QueueCap,      \* the capacity of the queue
    RetryEvery,    \* the pace of retries within a window
    MaxTime,       \* bound: the last instant
    MaxPeriod,     \* bound: the last period that the source publishes
    MaxRuns,       \* bound: the rows of the table
    MaxCrashes,    \* bound: how often a process dies
    MaxReturns     \* bound: how often Run returns in a process that lives on

ASSUME ScheduledAreAutomations == Scheduled \subseteq Automations
ASSUME DiscoveriesAreAutomations == Discoveries \subseteq SUBSET Automations
ASSUME BoundsAreNaturals ==
    {QueueCap, RetryEvery, MaxTime, MaxPeriod, MaxRuns, MaxCrashes, MaxReturns} \subseteq Nat
ASSUME TimeBegins == MaxTime >= 1
ASSUME NoProcessIsNone == NoProcess \notin Processes
ASSUME WindowsAreInstants == Windows \subseteq 1..MaxTime

VARIABLES
    runs,        \* the runs table, in the order of insertion
    serves,      \* whose listener the socket of the root leads to, if anyone's
    life,        \* where each process is in Run
    known,       \* the registry of each process: its latest discovery
    queue,       \* the run ids that wait for its worker
    pending,     \* the automations it believes queued or in flight
    work,        \* the run its worker executes, and how far
    fires,       \* the fires that have a verdict but not yet a run
    now,         \* the clock
    published,   \* the newest period that a run can fetch
    crashes,     \* how often a process has died
    returns      \* how often Run has returned

memory == <<life, known, queue, pending, work>>
world == <<now, published, crashes, returns>>
vars == <<runs, serves, memory, fires, world>>

RunIds == 1..MaxRuns

Unsettled == {"queued", "running"}

Statuses == Unsettled \cup {"ok", "failed", "error"}

\* A run that no window asked for has window 0; `failed` stands for each status of an
\* envelope that is not ok, `error` for a run without envelope.
RunRow ==
    [automation : Automations, window : Windows \cup {0}, started : 1..MaxTime,
     status : Statuses, newest : 0..MaxPeriod]

NoWork == [run |-> 0, pc |-> "none"]

Lives == {"down", "idle", "drain", "reset", "sweep", "up", "serving", "stopping"}

NoFire == [by |-> NoProcess, automation |-> NoProcess, window |-> 0]

TypeOK ==
    /\ runs \in Seq(RunRow) /\ Len(runs) <= MaxRuns
    /\ serves \in Processes \cup {NoProcess}
    /\ life \in [Processes -> Lives]
    /\ known \in [Processes -> SUBSET Automations]
    /\ queue \in [Processes -> Seq(RunIds)]
    /\ pending \in [Processes -> SUBSET Automations]
    /\ work \in [Processes -> [run : {0} \cup RunIds, pc : {"none", "taken", "running", "finished"}]]
    /\ fires \in [Fires -> {NoFire} \cup [by : Processes, automation : Automations, window : Windows]]
    /\ now \in 1..MaxTime /\ published \in 0..MaxPeriod
    /\ crashes \in 0..MaxCrashes /\ returns \in 0..MaxReturns
    /\ \A p \in Processes : Len(queue[p]) <= QueueCap

-----------------------------------------------------------------------------
(* What the arbiter derives from the table, each time anew.                  *)

RunsOf(a) == {r \in DOMAIN runs : runs[r].automation = a}

StartedSince(a, w) == {r \in RunsOf(a) : runs[r].started >= w}

OKBefore(a, w) == {r \in RunsOf(a) : runs[r].status = "ok" /\ runs[r].started < w}

\* ORDER BY started_at DESC, rowid DESC LIMIT 1.
Last(S) ==
    {r \in S : \A q \in S :
        \/ runs[q].started < runs[r].started
        \/ runs[q].started = runs[r].started /\ q <= r}

\* The run has data beyond the baseline of the window, the last ok run before it.
Advanced(r, w) == \A b \in Last(OKBefore(runs[r].automation, w)) : runs[b].newest < runs[r].newest

Satisfied(a, w) == \E r \in StartedSince(a, w) : runs[r].status = "ok" /\ Advanced(r, w)

Paced(a, w) == a \in Scheduled /\ \E r \in StartedSince(a, w) : now < runs[r].started + RetryEvery

-----------------------------------------------------------------------------
(* The queue and the worker.                                                 *)

Row(a, w, status) ==
    [automation |-> a, window |-> w, started |-> now, status |-> status, newest |-> 0]

\* Not the code: off by one.
HasAlmostRoom(p) == Len(queue[p]) <= QueueCap

HasRoom(p) == Len(queue[p]) < QueueCap

\* Not the code: forgets the automation that is in flight.
IsQueued(p, a) == \E i \in DOMAIN queue[p] : runs[queue[p][i]].automation = a

Busy(p, a) == a \in pending[p]

\* enqueue, under the mutex: a row first, then a place in the queue, if there is one.
Enqueue(p, a, w) ==
    /\ a \in known[p] /\ ~Busy(p, a)
    /\ Len(runs) < MaxRuns
    /\ IF HasRoom(p)
       THEN /\ runs' = Append(runs, Row(a, w, "queued"))
            /\ queue' = [queue EXCEPT ![p] = Append(@, Len(runs) + 1)]
            /\ pending' = [pending EXCEPT ![p] = @ \cup {a}]
       ELSE runs' = Append(runs, Row(a, w, "error")) /\ UNCHANGED <<queue, pending>>
    /\ UNCHANGED <<serves, life, known, work, world>>

\* POST .../run through the gateway, which is there as long as the process is.
ManualRun(p) ==
    /\ life[p] # "down"
    /\ \E a \in Automations : Enqueue(p, a, 0)
    /\ UNCHANGED fires

\* POST .../fire through the socket, as far as the verdict.  A fire that is satisfied,
\* paced or unknown has no effect and is no step.
DecideFire(f) ==
    /\ fires[f] = NoFire
    /\ serves # NoProcess /\ life[serves] = "serving"
    /\ \E a \in known[serves], w \in Windows :
          /\ w <= now
          /\ ~Satisfied(a, w) /\ ~Paced(a, w)
          /\ fires' = [fires EXCEPT ![f] = [by |-> serves, automation |-> a, window |-> w]]
    /\ UNCHANGED <<runs, serves, memory, world>>

\* The same request goes on: its verdict was to enqueue.
EnqueueFire(f) ==
    /\ fires[f] # NoFire
    /\ fires' = [fires EXCEPT ![f] = NoFire]
    /\ Enqueue(fires[f].by, fires[f].automation, fires[f].window)

\* errBusy, or the automation has left the registry.
RefuseFire(f) ==
    /\ fires[f] # NoFire
    /\ \/ Busy(fires[f].by, fires[f].automation)
       \/ fires[f].automation \notin known[fires[f].by]
    /\ fires' = [fires EXCEPT ![f] = NoFire]
    /\ UNCHANGED <<runs, serves, memory, world>>

Working(p) == life[p] \in {"up", "serving", "stopping"}

\* A worker that is told to stop may still take a job: select has both cases ready.
TakeJob(p) ==
    /\ Working(p)
    /\ work[p] = NoWork
    /\ queue[p] # <<>>
    /\ work' = [work EXCEPT ![p] = [run |-> Head(queue[p]), pc |-> "taken"]]
    /\ queue' = [queue EXCEPT ![p] = Tail(@)]
    /\ UNCHANGED <<runs, serves, life, known, pending, fires, world>>

MarkStarted(p) ==
    LET r == work[p].run
    IN  /\ work[p].pc = "taken"
        /\ runs' = [runs EXCEPT ![r].started = now, ![r].status = "running"]
        /\ work' = [work EXCEPT ![p].pc = "running"]
        /\ UNCHANGED <<serves, life, known, queue, pending, fires, world>>

\* The command has ended, by itself, at runTimeout, or killed because Run is stopping.
FinishRun(p) ==
    LET r == work[p].run
        outcomes == IF life[p] = "stopping" THEN {"error"} ELSE {"ok", "failed", "error"}
    IN  /\ work[p].pc = "running"
        /\ \E status \in outcomes :
              runs' = [runs EXCEPT ![r].status = status,
                                   ![r].newest = IF status = "ok" THEN published ELSE 0]
        /\ work' = [work EXCEPT ![p].pc = "finished"]
        /\ UNCHANGED <<serves, life, known, queue, pending, fires, world>>

\* The deferred function of execute.
ReleaseAutomation(p) ==
    /\ work[p].pc = "finished"
    /\ pending' = [pending EXCEPT ![p] = @ \ {runs[work[p].run].automation}]
    /\ work' = [work EXCEPT ![p] = NoWork]
    /\ UNCHANGED <<runs, serves, life, known, queue, fires, world>>

-----------------------------------------------------------------------------
(* A process, and Run within it.                                             *)

\* Run: New in a process that was down, and then Dial, which another service answers
\* only if it serves already.
BeginRun(p) ==
    /\ life[p] \in {"down", "idle"}
    /\ serves = NoProcess
    /\ life' = [life EXCEPT ![p] = "drain"]
    /\ UNCHANGED <<runs, serves, known, queue, pending, work, fires, world>>

\* drainQueue empties the queue, and only then takes the mutex to forget who is pending.
DrainQueue(p) ==
    /\ life[p] = "drain"
    /\ queue' = [queue EXCEPT ![p] = <<>>]
    /\ life' = [life EXCEPT ![p] = "reset"]
    /\ UNCHANGED <<runs, serves, known, pending, work, fires, world>>

\* Not the code: the queue is emptied, and its automations stay busy.
KeepPending(p) ==
    /\ life[p] = "reset"
    /\ life' = [life EXCEPT ![p] = "sweep"]
    /\ UNCHANGED <<runs, serves, known, queue, pending, work, fires, world>>

ResetPending(p) ==
    /\ life[p] = "reset"
    /\ pending' = [pending EXCEPT ![p] = {}]
    /\ life' = [life EXCEPT ![p] = "sweep"]
    /\ UNCHANGED <<runs, serves, known, queue, work, fires, world>>

\* Not the code: nothing is swept, and everything is.
NothingSwept == runs

EverythingSwept == [r \in DOMAIN runs |-> [runs[r] EXCEPT !.status = "error"]]

\* SweepInterrupted: such rows describe a runner that no longer exists.
Swept ==
    [r \in DOMAIN runs |->
        [runs[r] EXCEPT !.status = IF @ \in Unsettled THEN "error" ELSE @]]

SweepInterrupted(p) ==
    /\ life[p] = "sweep"
    /\ runs' = Swept
    /\ life' = [life EXCEPT ![p] = "up"]
    /\ UNCHANGED <<serves, known, queue, pending, work, fires, world>>

\* serve removes whatever socket is there and listens on one of its own.
Listen(p) ==
    /\ life[p] = "up"
    /\ serves' = p
    /\ life' = [life EXCEPT ![p] = "serving"]
    /\ UNCHANGED <<runs, known, queue, pending, work, fires, world>>

\* tick, at startup and when pinged: what the repo holds may have changed.
Discover(p) ==
    /\ Working(p)
    /\ \E found \in Discoveries \ {known[p]} : known' = [known EXCEPT ![p] = found]
    /\ UNCHANGED <<runs, serves, life, queue, pending, work, fires, world>>

\* The listener fails, or the service is told to stop.
StopRun(p) ==
    /\ life[p] \in {"up", "serving"}
    /\ returns < MaxReturns \/ crashes < MaxCrashes
    /\ life' = [life EXCEPT ![p] = "stopping"]
    /\ serves' = NoProcess
    /\ UNCHANGED <<runs, known, queue, pending, work, fires, now, published, crashes, returns>>

\* Run waits for the worker, which records the command that it has killed, and the
\* supervisor is about to call it again.
ReturnFromRun(p) ==
    /\ life[p] = "stopping"
    /\ work[p] = NoWork
    /\ returns < MaxReturns
    /\ life' = [life EXCEPT ![p] = "idle"]
    /\ returns' = returns + 1
    /\ UNCHANGED <<runs, serves, known, queue, pending, work, fires, now, published, crashes>>

\* The process dies, with all that it has in memory.
Die(p) ==
    /\ life[p] # "down"
    /\ crashes < MaxCrashes
    /\ crashes' = crashes + 1
    /\ life' = [life EXCEPT ![p] = "down"]
    /\ known' = [known EXCEPT ![p] = {}]
    /\ queue' = [queue EXCEPT ![p] = <<>>]
    /\ pending' = [pending EXCEPT ![p] = {}]
    /\ work' = [work EXCEPT ![p] = NoWork]
    /\ serves' = IF serves = p THEN NoProcess ELSE serves
    /\ fires' = [f \in Fires |-> IF fires[f].by = p THEN NoFire ELSE fires[f]]
    /\ UNCHANGED <<runs, now, published, returns>>

\* Run has returned because the process was told to stop, and that exits.
Exit(p) ==
    /\ life[p] = "stopping"
    /\ work[p] = NoWork
    /\ Die(p)

Pass ==
    /\ now < MaxTime
    /\ now' = now + 1
    /\ UNCHANGED <<runs, serves, memory, fires, published, crashes, returns>>

Publish ==
    /\ published < MaxPeriod
    /\ published' = published + 1
    /\ UNCHANGED <<runs, serves, memory, fires, now, crashes, returns>>

\* A service that has nothing to do waits.
Wait(p) ==
    /\ life[p] = "serving" /\ work[p] = NoWork /\ queue[p] = <<>>
    /\ UNCHANGED vars

-----------------------------------------------------------------------------
Init ==
    /\ runs = <<>>
    /\ serves = NoProcess
    /\ life = [p \in Processes |-> "down"]
    /\ known = [p \in Processes |-> {}]
    /\ queue = [p \in Processes |-> <<>>]
    /\ pending = [p \in Processes |-> {}]
    /\ work = [p \in Processes |-> NoWork]
    /\ fires = [f \in Fires |-> NoFire]
    /\ now = 1 /\ published = 0
    /\ crashes = 0 /\ returns = 0

Progress(p) ==
    \/ BeginRun(p) \/ DrainQueue(p) \/ ResetPending(p) \/ SweepInterrupted(p) \/ Listen(p)
    \/ TakeJob(p) \/ MarkStarted(p) \/ FinishRun(p) \/ ReleaseAutomation(p)
    \/ ReturnFromRun(p) \/ Exit(p)

Fire(f) == DecideFire(f) \/ EnqueueFire(f) \/ RefuseFire(f)

Next ==
    \/ \E p \in Processes : Progress(p) \/ Discover(p) \/ ManualRun(p) \/ StopRun(p) \/ Die(p) \/ Wait(p)
    \/ \E f \in Fires : Fire(f)
    \/ Pass
    \/ Publish

Spec == Init /\ [][Next]_vars

\* Goroutines are scheduled, runTimeout ends every command, and the supervisor calls Run
\* again, in a process that launchd keeps alive.
FairSpec == Spec /\ \A p \in Processes : WF_vars(Progress(p))

-----------------------------------------------------------------------------
(* What the service promises, to one process per root unless it is said.     *)

Jobs(p) == {queue[p][i] : i \in DOMAIN queue[p]} \cup ({work[p].run} \ {0})

Settled(r) == runs[r].status \notin Unsettled

\* Run has not returned in a process that lives on; where it has, what the routes of the
\* gateway enqueued in between may be swept and run nevertheless.
NoReturns == returns = 0

\* From the first such return on, the ledger takes every run for settled.
Ledger == INSTANCE RunLedger WITH
    ledger <- [r \in DOMAIN runs |->
                  IF NoReturns /\ ~Settled(r) THEN runs[r].status ELSE "settled"]

\* The queue only ever holds one entry per automation, the one that is in flight included,
\* so that it is never full of repeats.
QueueHoldsOne ==
    NoReturns => \A p \in Processes : \A r, q \in Jobs(p) :
       runs[r].automation = runs[q].automation => r = q

\* While the service works, nothing waits in vain: each run that has not settled is in the
\* queue or with the worker, so what another life of it left behind has been swept; and no
\* automation is refused as busy, till the process dies, when no run of it is left.
NothingWaitsInVain ==
    \A p \in Processes : Working(p) =>
       /\ \A r \in DOMAIN runs : Settled(r) \/ r \in Jobs(p)
       /\ \A a \in pending[p] : \E r \in Jobs(p) : runs[r].automation = a

\* Runs are serial across all automations, so that writes to the repo have one writer:
\* at most one row says running, over deaths and returns of Run.
RunsAreSerial ==
    \A r, q \in DOMAIN runs : runs[r].status = "running" /\ runs[q].status = "running" => r = q

\* Runs are taken up in the order in which they were asked for, one at a time, and none
\* twice, and one that has its outcome keeps it: the table is a ledger in this sense.
ImplementsLedger == Ledger!Spec

\* A window that has been satisfied stays so: the verdict is derived from rows that later
\* runs, sweeps and restarts do not touch, so a late fire is harmless.
SatisfiedStays ==
    [][\A a \in Automations, w \in Windows : Satisfied(a, w) => Satisfied(a, w)']_vars

\* Whatever was queued comes to an end: an outcome, or the sweep.
EveryRunSettles == \A r \in RunIds : r \in DOMAIN runs ~> (r \in DOMAIN runs /\ Settled(r))

\* A fire is idempotent: "a repeated, late or double fire changes nothing", so no run is
\* queued for a window that is satisfied already.
FiresAreIdempotent ==
    [][\A r \in DOMAIN runs' \ DOMAIN runs :
          runs'[r].window # 0 => ~Satisfied(runs'[r].automation, runs'[r].window)]_vars
=============================================================================
