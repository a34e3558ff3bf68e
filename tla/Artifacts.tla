----------------------------- MODULE Artifacts -----------------------------
(***************************************************************************)
(* The managed store (go/std/bg_services/artifacts): an insertion moves    *)
(* files into a directory of its own, has them copied to remote storage    *)
(* and hands out the number of the directory.  How far it is, is told by   *)
(* three files in the directory: a WIP marker, an ERR marker and the       *)
(* references.                                                             *)
(*                                                                         *)
(* At most one service works on a root, which the holder of the lock does. *)
(* It condemns what a dead one left half done before it serves.  A         *)
(* supervised service that finds the lock taken tries again later, with    *)
(* what it learnt when it was constructed.  "stdd insert" goes through the *)
(* service if one serves, and otherwise works on the root itself, without  *)
(* the lock (go/std/stdd/main.go).                                         *)
(*                                                                         *)
(* A step here is one change of the file system.  Reading and writing      *)
(* files of the root does not fail; remote storage does, and any process   *)
(* may die between two steps.                                              *)
(***************************************************************************)
EXTENDS Integers, FiniteSets, Functions, FiniteSetsExt

CONSTANTS
    Services,      \* the processes that would serve the root
    Slots,         \* insertions that may be under way at once
    Files,
    Inboxed,       \* those that lie in the inbox at first
    Nobody,
    MaxId,         \* bounds
    MaxDeaths,
    MaxDeletes

ASSUME InboxedAssumption == Inboxed \subseteq Files

ASSUME BoundAssumption == MaxId \in Nat

ASSUME NobodyAssumption == Nobody \notin Services

\* An insertion is of the watcher of the inbox, of a request to the service, or
\* of a process of its own.
ASSUME SlotsAssumption == Slots \subseteq {"inbox", "api", "direct"}

Stages == {"init", "moved", "remote_dir", "synced", "refs", "complete"}
Absent == "absent"

\* Where a file is that is in no directory: as directories, these are numbers.
Inbox   == 0
Desk    == -1
Deleted == -2

\* Mutant: the references are written before the files are copied.
AfterRefsFirst == [init |-> "moved", moved |-> "remote_dir", remote_dir |-> "refs",
                   refs |-> "synced", synced |-> "complete"]

\* The order of the stages.
After == [init |-> "moved", moved |-> "remote_dir", remote_dir |-> "synced",
          synced |-> "refs", refs |-> "complete"]

Direct == "direct process"

VARIABLES
    place,         \* file -> Inbox, Desk, Deleted or the directory it was moved to
    dirs,          \* id -> [wip, err, refs, meant]: its markers (of ERR only that it is
                   \* there); meant is history
    counter,       \* .last_id
    last,          \* process -> the last id it knows of
    service,       \* process -> "down", "waiting", "sweeping" or "serving"
    lock,          \* who holds it
    sweep,         \* what the sweep has left to look at, and what it has in hand
    machine,       \* slot -> the insertion there
    remote,        \* <<id, file>> that were copied
    reader,        \* a Status under way: the id, and what it reads next
    given,         \* history: id -> the files whose insertion handed it out
    hit,           \* history: ids that a sweep touched under a live insertion
    orphans,       \* history: ids that a dead direct process left
    deaths, deletes   \* bounds

fs == <<place, dirs, counter, remote>>
procs == <<last, service, lock, sweep>>
history == <<given, hit, orphans>>
bounds == <<deaths, deletes>>
vars == <<fs, procs, machine, reader, history, bounds>>

Idle == [at |-> "idle"]
NoReader == [at |-> "idle"]
NoSweep == [todo |-> {}, id |-> 0, step |-> "next"]

Ids == DOMAIN dirs

Init ==
    /\ place = [f \in Files |-> IF f \in Inboxed THEN Inbox ELSE Desk]
    /\ dirs = <<>>
    /\ counter = 0
    /\ last = [p \in Services \cup {Direct} |-> 0]
    /\ service = [s \in Services |-> "down"]
    /\ lock = Nobody
    /\ sweep = NoSweep
    /\ machine = [k \in Slots |-> Idle]
    /\ remote = {}
    /\ reader = NoReader
    /\ given = <<>>
    /\ hit = {}
    /\ orphans = {}
    /\ deaths = 0
    /\ deletes = 0

Serving == lock # Nobody /\ service[lock] = "serving"

\* recoverLastID: by the counter and by the directories that are there.
Recovered == Max({counter} \cup Ids)

Process(k) == IF k = "direct" THEN Direct ELSE lock

InPlace(f) == place[f] \in {Inbox, Desk}

(***************************************************************************)
(* The insert machine.                                                     *)
(***************************************************************************)
To(k, m) == machine' = [machine EXCEPT ![k] = m]

\* Insert sees that its files are there.  The watcher takes one file at a time.
Begin(k, files) ==
    /\ machine[k] = Idle
    /\ files # {} /\ \A f \in files : InPlace(f)
    /\ CASE k = "inbox"  -> Serving /\ \E f \in Files : files = {f} /\ place[f] = Inbox
         [] k = "api"    -> Serving
         [] k = "direct" -> ~Serving
    /\ To(k, [at |-> "allocate", files |-> files, id |-> 0, next |-> "init"])
    /\ last' = IF k = "direct" THEN [last EXCEPT ![Direct] = Recovered] ELSE last
    /\ UNCHANGED <<fs, service, lock, sweep, reader, history, bounds>>

\* Mutant: the id is remembered only once its directory is made.
AllocateForgetful(k) ==
    LET id == last[Process(k)] + 1
    IN  /\ machine[k].at = "allocate" /\ id <= MaxId
        /\ counter' = id
        /\ last' = IF id \in Ids THEN last ELSE [last EXCEPT ![Process(k)] = id]
        /\ To(k, [machine[k] EXCEPT !.at = "mkdir", !.id = id])
        /\ UNCHANGED <<place, dirs, remote, service, lock, sweep, reader, history, bounds>>

\* allocateID: recorded in the file, then in the memory of the process.
Allocate(k) ==
    LET id == last[Process(k)] + 1
    IN  /\ machine[k].at = "allocate" /\ id <= MaxId
        /\ counter' = id
        /\ last' = [last EXCEPT ![Process(k)] = id]
        /\ To(k, [machine[k] EXCEPT !.at = "mkdir", !.id = id])
        /\ UNCHANGED <<place, dirs, remote, service, lock, sweep, reader, history, bounds>>

\* f, with y at x.
With(f, x, y) == [i \in DOMAIN f \cup {x} |-> IF i = x THEN y ELSE f[i]]

Made(id, files) ==
    With(dirs, id, [wip |-> Absent, err |-> FALSE, refs |-> {}, meant |-> files])

\* Mutant: MkdirAll, which is content with a directory that is there.
MkdirAll(k) ==
    LET id == machine[k].id
    IN  /\ machine[k].at = "mkdir"
        /\ dirs' = IF id \in Ids THEN dirs ELSE Made(id, machine[k].files)
        /\ To(k, [machine[k] EXCEPT !.at = "mark"])
        /\ UNCHANGED <<place, counter, remote, procs, reader, history, bounds>>

\* Mkdir, which fails if the directory is there.
Mkdir(k) ==
    LET id == machine[k].id
    IN  /\ machine[k].at = "mkdir"
        /\ IF id \in Ids
           THEN To(k, Idle) /\ dirs' = dirs
           ELSE /\ To(k, [machine[k] EXCEPT !.at = "mark"])
                /\ dirs' = Made(id, machine[k].files)
        /\ UNCHANGED <<place, counter, remote, procs, reader, history, bounds>>

\* What is written into a directory: a tag, or its absence; an error; the references.
Tagged(id, stage) == [dirs EXCEPT ![id].wip = stage]
Condemned(id) == [dirs EXCEPT ![id].err = TRUE]
Referring(id, files) == [dirs EXCEPT ![id].refs = files]

\* setStage writes the marker anew, whether it is still there or not.
Mark(k) ==
    LET m == machine[k]
    IN  /\ m.at = "mark"
        /\ dirs' = Tagged(m.id, m.next)
        /\ To(k, [m EXCEPT !.at = "do", !.next = After[m.next]])
        /\ UNCHANGED <<place, counter, remote, procs, reader, history, bounds>>

ToMove(k) == {f \in machine[k].files : place[f] # machine[k].id}

\* Stage 1, file by file; one that is gone by now fails the insertion.
Move(k) ==
    LET m == machine[k]
    IN  /\ m.at = "do" /\ m.next = "moved"
        /\ \/ \E f \in ToMove(k) :
                 /\ InPlace(f)
                 /\ place' = [place EXCEPT ![f] = m.id]
                 /\ To(k, IF ToMove(k) = {f} THEN [m EXCEPT !.at = "mark"] ELSE m)
           \/ /\ \E f \in ToMove(k) : ~InPlace(f)
              /\ place' = place
              /\ To(k, [m EXCEPT !.at = "fail"])
        /\ UNCHANGED <<dirs, counter, remote, procs, reader, history, bounds>>

Content(id) == {f \in Files : place[f] = id}

\* Stage 2, after its retries; nothing of the root changes but the marker.
CreateDir(k) ==
    LET m == machine[k]
    IN  /\ m.at = "do" /\ m.next = "remote_dir"
        /\ \/ /\ dirs' = Tagged(m.id, "remote_dir")
              /\ To(k, [m EXCEPT !.next = After[m.next]])
           \/ /\ dirs' = dirs
              /\ To(k, [m EXCEPT !.at = "fail"])
        /\ UNCHANGED <<place, counter, remote, procs, reader, history, bounds>>

\* Mutant: the first acknowledgement stands for all.
SyncFirst(k) ==
    LET m == machine[k]
        left == {f \in Content(m.id) : <<m.id, f>> \notin remote}
    IN  /\ m.at = "do" /\ m.next = "synced"
        /\ \E f \in left : remote' = remote \cup {<<m.id, f>>}
        /\ To(k, [m EXCEPT !.at = "mark"])
        /\ UNCHANGED <<place, dirs, counter, procs, reader, history, bounds>>

\* Stage 3, file by file, each until remote storage has acknowledged it.
Sync(k) ==
    LET m == machine[k]
        left == {f \in Content(m.id) : <<m.id, f>> \notin remote}
    IN  /\ m.at = "do" /\ m.next = "synced"
        /\ \/ \E f \in left : /\ remote' = remote \cup {<<m.id, f>>}
                              /\ To(k, IF left = {f} THEN [m EXCEPT !.at = "mark"] ELSE m)
           \/ /\ remote' = remote
              /\ To(k, [m EXCEPT !.at = "fail"])
        /\ UNCHANGED <<place, dirs, counter, procs, reader, history, bounds>>

\* Stage 4.
WriteRefs(k) ==
    LET m == machine[k]
    IN  /\ m.at = "do" /\ m.next = "refs"
        /\ dirs' = Referring(m.id, Content(m.id))
        /\ To(k, [m EXCEPT !.at = "mark"])
        /\ UNCHANGED <<place, counter, remote, procs, reader, history, bounds>>

\* Stage 5: the tag goes and the id is handed out; if the tag is gone, it fails.
Complete(k) ==
    LET m == machine[k]
    IN  /\ m.at = "do" /\ m.next = "complete"
        /\ IF dirs[m.id].wip = Absent
           THEN /\ To(k, [m EXCEPT !.at = "fail"])
                /\ UNCHANGED <<dirs, given>>
           ELSE /\ dirs' = Tagged(m.id, Absent)
                /\ given' = With(given, m.id, m.files)
                /\ To(k, Idle)
        /\ UNCHANGED <<place, counter, remote, procs, reader, hit, orphans, bounds>>

\* fail: the ERR marker comes before the WIP marker goes.
Fail(k) ==
    LET m == machine[k]
    IN  /\ \/ /\ m.at = "fail"
              /\ dirs' = Condemned(m.id)
              /\ To(k, [m EXCEPT !.at = "untag"])
           \/ /\ m.at = "untag"
              /\ dirs' = Tagged(m.id, Absent)
              /\ To(k, Idle)
        /\ UNCHANGED <<place, counter, remote, procs, reader, history, bounds>>

MachineStep(k) ==
    \/ Allocate(k) \/ Mkdir(k) \/ Mark(k) \/ Move(k) \/ CreateDir(k) \/ Sync(k)
    \/ WriteRefs(k) \/ Complete(k) \/ Fail(k)

(***************************************************************************)
(* The service.                                                            *)
(***************************************************************************)
\* New, before anything is known of the lock.
Construct(s) ==
    /\ service[s] = "down"
    /\ service' = [service EXCEPT ![s] = "waiting"]
    /\ last' = [last EXCEPT ![s] = Recovered]
    /\ UNCHANGED <<fs, lock, sweep, machine, reader, history, bounds>>

\* Run, for the first time or again.
Acquire(s) ==
    /\ service[s] = "waiting" /\ lock = Nobody
    /\ lock' = s
    /\ service' = [service EXCEPT ![s] = "sweeping"]
    /\ sweep' = [todo |-> Ids, id |-> 0, step |-> "next"]
    /\ UNCHANGED <<fs, last, machine, reader, history, bounds>>

\* The slots whose insertion has a directory.
Working == {k \in Slots : machine[k].at \notin {"idle", "allocate", "mkdir"}}

Live(id) == \E k \in Working : machine[k].id = id

Touched(id) == hit' = IF Live(id) THEN hit \cup {id} ELSE hit

\* Every stage has succeeded, and the references are there.
Promotable(dir) == dir.wip = "refs" /\ dir.refs # {}

\* Mutant: what has failed before is left alone.
SweepUnfailed ==
    /\ sweep.step = "next" /\ sweep.todo # {}
    /\ LET id == Min(sweep.todo)
           rest == sweep.todo \ {id}
       IN  IF id \notin Ids \/ dirs[id].wip = Absent \/ dirs[id].err
           THEN sweep' = [sweep EXCEPT !.todo = rest] /\ hit' = hit
           ELSE /\ sweep' = [todo |-> rest, id |-> id,
                             step |-> IF Promotable(dirs[id]) THEN "untag" ELSE "condemn"]
                /\ Touched(id)
    /\ UNCHANGED <<fs, last, service, lock, machine, reader, given, orphans, bounds>>

\* The marker is read, and what is to be done decided by it.
SweepNext ==
    /\ sweep.step = "next" /\ sweep.todo # {}
    /\ LET id == Min(sweep.todo)
           rest == sweep.todo \ {id}
       IN  IF id \notin Ids \/ dirs[id].wip = Absent
           THEN sweep' = [sweep EXCEPT !.todo = rest] /\ hit' = hit
           ELSE /\ sweep' = [todo |-> rest, id |-> id,
                             step |-> IF Promotable(dirs[id]) THEN "untag" ELSE "condemn"]
                /\ Touched(id)
    /\ UNCHANGED <<fs, last, service, lock, machine, reader, given, orphans, bounds>>

SweepCondemn ==
    /\ sweep.step = "condemn"
    /\ dirs' = Condemned(sweep.id)
    /\ sweep' = [sweep EXCEPT !.step = "untag"]
    /\ UNCHANGED <<place, counter, remote, last, service, lock, machine, reader, history, bounds>>

\* The tag goes.  If it has gone already, Run fails, and is tried again.
SweepUntag ==
    /\ sweep.step = "untag"
    /\ dirs' = Tagged(sweep.id, Absent)
    /\ IF dirs[sweep.id].wip = Absent
       THEN /\ service' = [service EXCEPT ![lock] = "waiting"]
            /\ lock' = Nobody
            /\ sweep' = NoSweep
       ELSE /\ sweep' = [sweep EXCEPT !.step = "next", !.id = 0]
            /\ UNCHANGED <<service, lock>>
    /\ UNCHANGED <<place, counter, remote, last, machine, reader, history, bounds>>

Serve ==
    /\ lock # Nobody /\ service[lock] = "sweeping"
    /\ sweep.step = "next" /\ sweep.todo = {}
    /\ service' = [service EXCEPT ![lock] = "serving"]
    /\ sweep' = NoSweep
    /\ UNCHANGED <<fs, last, lock, machine, reader, history, bounds>>

SweepStep == SweepNext \/ SweepCondemn \/ SweepUntag \/ Serve

(***************************************************************************)
(* Death, and the hands of the user.                                       *)
(***************************************************************************)
Dies(s) ==
    /\ deaths < MaxDeaths
    /\ service[s] # "down"
    /\ deaths' = deaths + 1
    /\ service' = [service EXCEPT ![s] = "down"]
    /\ IF lock = s
       THEN /\ lock' = Nobody
            /\ sweep' = NoSweep
            /\ machine' = [k \in Slots |-> IF k = "direct" THEN machine[k] ELSE Idle]
       ELSE UNCHANGED <<lock, sweep, machine>>
    /\ UNCHANGED <<fs, last, reader, history, deletes>>

DirectDies ==
    /\ deaths < MaxDeaths
    /\ machine["direct"] # Idle
    /\ deaths' = deaths + 1
    /\ orphans' = IF "direct" \in Working THEN orphans \cup {machine["direct"].id} ELSE orphans
    /\ To("direct", Idle)
    /\ UNCHANGED <<fs, procs, reader, given, hit, deletes>>

\* The files of a complete directory are in remote storage: the local ones may go.
DeleteDir(id) ==
    /\ deletes < MaxDeletes
    /\ id \in Ids /\ id \in DOMAIN given /\ ~Live(id) /\ sweep = NoSweep
    /\ deletes' = deletes + 1
    /\ dirs' = Restrict(dirs, Ids \ {id})
    /\ given' = Restrict(given, DOMAIN given \ {id})
    /\ place' = [f \in Files |-> IF place[f] = id THEN Deleted ELSE place[f]]
    /\ UNCHANGED <<counter, remote, procs, machine, reader, hit, orphans, deaths>>

(***************************************************************************)
(* Status: what the markers say, read one after the other.                 *)
(***************************************************************************)
ReadErr(id) ==
    /\ reader = NoReader /\ id \in Ids
    /\ reader' = IF dirs[id].err THEN NoReader ELSE [at |-> "wip", id |-> id]
    /\ UNCHANGED <<fs, procs, machine, history, bounds>>

ReadWip ==
    /\ reader.at = "wip"
    /\ reader' = IF reader.id \in Ids /\ dirs[reader.id].wip # Absent THEN NoReader
                 ELSE [reader EXCEPT !.at = "refs"]
    /\ UNCHANGED <<fs, procs, machine, history, bounds>>

\* What is neither is complete if it has references, and failed if it has not.
ReadRefs ==
    /\ reader.at = "refs"
    /\ reader' = NoReader
    /\ UNCHANGED <<fs, procs, machine, history, bounds>>

SaysComplete == ReadRefs /\ reader.id \in Ids /\ dirs[reader.id].refs # {}

-----------------------------------------------------------------------------
Next ==
    \/ \E k \in Slots : MachineStep(k) \/ \E files \in SUBSET Files : Begin(k, files)
    \/ \E s \in Services : Construct(s) \/ Acquire(s) \/ Dies(s)
    \/ SweepStep
    \/ DirectDies
    \/ \E id \in Ids : DeleteDir(id) \/ ReadErr(id)
    \/ ReadWip \/ ReadRefs

(***************************************************************************)
(* A process gets on with what it has begun, the supervisor starts         *)
(* services, and the watcher looks at the inbox again and again.           *)
(***************************************************************************)
Fairness ==
    /\ \A k \in Slots : WF_vars(MachineStep(k))
    /\ \A s \in Services : WF_vars(Construct(s) \/ Acquire(s))
    /\ WF_vars(SweepStep)
    /\ \A f \in Files : WF_vars(Begin("inbox", {f}))

Spec == Init /\ [][Next]_vars /\ Fairness

-----------------------------------------------------------------------------
TypeOK ==
    /\ \A f \in Files : place[f] \in {Inbox, Desk, Deleted} \cup Ids
    /\ \A id \in Ids : /\ dirs[id].wip \in Stages \cup {Absent}
                       /\ dirs[id].err \in BOOLEAN
    /\ Ids \subseteq 1..MaxId /\ counter \in 0..MaxId
    /\ \A p \in DOMAIN last : last[p] \in 0..MaxId
    /\ lock # Nobody => service[lock] \in {"sweeping", "serving"}
    /\ \A s \in Services \ {lock} : service[s] \in {"down", "waiting"}
    /\ \A k \in Working : machine[k].id \in Ids

IsComplete(id) == dirs[id].wip = Absent /\ ~dirs[id].err /\ dirs[id].refs # {}

\* An id that was handed out stays good: its directory is complete, holds just
\* the files of its insertion, and remote storage has them all; unless a
\* starting service took the insertion of a direct process for a dead one.
HandedOutIsGood ==
    \A id \in DOMAIN given \ hit :
        /\ IsComplete(id)
        /\ Content(id) = given[id] /\ dirs[id].refs = given[id]
        /\ \A f \in given[id] : <<id, f>> \in remote

\* The same, with no exception: the id comes back only on COMPLETE.
HandedOutIsComplete == \A id \in DOMAIN given : IsComplete(id)

\* Two insertions never share a directory, with however old a counter the
\* processes go on (allocateID, and the Mkdir after it).
DirsAreExclusive == \A id \in Ids : Content(id) \subseteq dirs[id].meant

\* While a service serves, a directory that is tagged as in progress is in
\* progress; only that of a direct process may have been left behind.
WipHasMachine ==
    Serving => \A id \in Ids \ (orphans \cup hit) : dirs[id].wip # Absent => Live(id)

\* What Status calls complete was copied, however its reads interleave with the
\* machine and the sweep.
StatusIsSound ==
    [][SaysComplete => \A f \in Content(reader.id) : <<reader.id, f>> \in remote]_vars

\* A file in the inbox is taken out of it, whatever dies or fails on the way.
InboxDrains == \A f \in Files : place[f] = Inbox ~> place[f] # Inbox
=============================================================================
