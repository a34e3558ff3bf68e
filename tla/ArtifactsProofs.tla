-------------------------- MODULE ArtifactsProofs --------------------------
(* What the managed store keeps for every number of services, insertions,    *)
(* files, deaths and deletions, with every interleaving of them.             *)
EXTENDS Artifacts, WellFoundedInduction, TLAPS

-----------------------------------------------------------------------------
(* The least and the greatest of numbers.                                    *)

\* Numbers have a least one.
LEMMA LeastNumber ==
    ASSUME NEW T, T \subseteq Nat, T # {}
    PROVE  \E x \in T : \A y \in T : x <= y
<1> DEFINE R == {ss \in Nat \X Nat : ss[1] < ss[2]}
<1>1. IsWellFoundedOn(R, Nat)
  BY NatLessThanWellFounded DEF OpToRel
<1> HIDE DEF R
<1>2. \E x \in T : \A y \in T : <<y, x>> \notin R
  BY <1>1, WFMin
<1>3. \A x, y \in Nat : <<y, x>> \notin R => x <= y
  BY DEF R
<1> QED
  BY <1>2, <1>3

\* Min is one of the set.
LEMMA MinIsMember ==
    ASSUME NEW T, T \subseteq Nat, T # {}
    PROVE  Min(T) \in T
<1>1. \E x \in T : \A y \in T : x <= y
  BY LeastNumber
<1> QED
  BY <1>1 DEF Min

\* So is Max, if the set is bounded.
LEMMA MaxIsMember ==
    ASSUME NEW n \in Nat, NEW T, T \subseteq 0..n, T # {}
    PROVE  Max(T) \in T
<1> DEFINE D == {x \in Nat : n - x \in T}
<1>1. D # {}
  <2>1. PICK y \in T : TRUE
    OBVIOUS
  <2>2. n - y \in Nat /\ n - (n - y) = y
    BY <2>1
  <2> QED
    BY <2>1, <2>2
<1>2. PICK d \in D : \A e \in D : d <= e
  <2> HIDE DEF D
  <2>1. D \subseteq Nat
    BY DEF D
  <2> QED
    BY <1>1, <2>1, LeastNumber
<1>3. n - d \in T
  BY <1>2
<1>4. \A y \in T : n - d >= y
  <2>1. TAKE y \in T
  <2>2. y \in Int /\ n - y \in Nat /\ n - (n - y) = y
    BY <2>1
  <2>3. n - y \in D
    BY <2>1, <2>2
  <2> QED
    BY <1>2, <2>2, <2>3
<1>5. \E x \in T : \A y \in T : x >= y
  BY <1>3, <1>4
<1> QED
  BY <1>5 DEF Max

-----------------------------------------------------------------------------
(* The inductive invariant.                                                  *)

Markers == [wip : Stages \cup {Absent}, err : BOOLEAN, refs : SUBSET Files, meant : SUBSET Files]

NonEmpty == (SUBSET Files) \ {{}}

\* An insertion that has no directory yet, and one that has.
Allocating == [at : {"allocate"}, files : NonEmpty, id : {0}, next : {"init"}]
Making == [at : {"mkdir"}, files : NonEmpty, id : 1..MaxId, next : {"init"}]
Stamping == [at : {"mark"}, files : NonEmpty, id : 1..MaxId,
             next : {"init", "moved", "synced", "refs"}]
Doing == [at : {"do"}, files : NonEmpty, id : 1..MaxId,
          next : {"moved", "remote_dir", "synced", "refs", "complete"}]
Failing == [at : {"fail", "untag"}, files : NonEmpty, id : 1..MaxId,
            next : {"moved", "remote_dir", "synced", "refs", "complete"}]

Insertions == Allocating \cup Making \cup Stamping \cup Doing \cup Failing

Shapes ==
    /\ Ids \subseteq 1..MaxId
    /\ dirs \in [Ids -> Markers]
    /\ place \in [Files -> {Inbox, Desk, Deleted} \cup Ids]
    /\ counter \in 0..MaxId
    /\ last \in [Services \cup {Direct} -> 0..MaxId]
    /\ service \in [Services -> {"down", "waiting", "sweeping", "serving"}]
    /\ lock \in Services \cup {Nobody}
    /\ machine \in [Slots -> Insertions \cup {Idle}]
    /\ sweep \in [todo : SUBSET (1..MaxId), id : 0..MaxId, step : {"next", "condemn", "untag"}]
    /\ given \in [DOMAIN given -> SUBSET Files]
    /\ DOMAIN given \subseteq Ids

\* The holder of the lock sweeps, then serves; nobody else does, and no insertion
\* but a direct one is under way without it.
OneHolder ==
    /\ lock # Nobody => service[lock] \in {"sweeping", "serving"}
    /\ \A s \in Services \ {lock} : service[s] \in {"down", "waiting"}
    /\ lock = Nobody \/ Serving => sweep = NoSweep
    /\ ~Serving => \A k \in Slots \ {"direct"} : machine[k] = Idle

\* How far an insertion is: all of its files are in the directory, they are in
\* remote storage, and they are referred to.
IsFilled(m) ==
    \/ m.at = "mark" /\ m.next \in {"moved", "synced", "refs"}
    \/ m.at = "do" /\ m.next \in {"remote_dir", "synced", "refs", "complete"}

IsCopied(m) ==
    \/ m.at = "mark" /\ m.next \in {"synced", "refs"}
    \/ m.at = "do" /\ m.next \in {"refs", "complete"}

IsReferenced(m) ==
    \/ m.at = "mark" /\ m.next = "refs"
    \/ m.at = "do" /\ m.next = "complete"

AllCopied(id, files) == \A f \in files : <<id, f>> \in remote

\* The insertions that have a directory, each in its own, which is as far as it is.
OnItsWay(k) ==
    LET m == machine[k]
        dir == dirs[m.id]
    IN  /\ m.id \in Ids \ DOMAIN given
        /\ dir.meant = m.files
        /\ IsFilled(m) => Content(m.id) = m.files
        /\ IsCopied(m) => AllCopied(m.id, m.files)
        /\ IsReferenced(m) => dir.refs = m.files
        /\ m.at \in {"mark", "do"} /\ ~IsCopied(m) => dir.refs = {}
        /\ m.at \in {"mark", "do"} => m.id \in hit \/ ~dir.err

AllOnTheirWay == \A k \in Working : OnItsWay(k)

Apart == \A k, l \in Working : machine[k].id = machine[l].id => k = l

\* References are written once the files that are there are copied.
RefsAreCopied == \A id \in Ids : dirs[id].refs # {} => AllCopied(id, Content(id))

\* What the sweep has in hand was not handed out, nor will it be, unless it took
\* a live insertion for a dead one.
SweepIsRight ==
    sweep.step # "next" =>
        /\ sweep.id \in Ids
        /\ sweep.id \in hit \/ (~Live(sweep.id) /\ sweep.id \notin DOMAIN given)

\* A tag is that of a live insertion, or the sweep will come to it.
SweptOrLive ==
    lock # Nobody =>
        \A id \in Ids \ (orphans \cup hit) :
            dirs[id].wip # Absent =>
                \/ Live(id)
                \/ id \in sweep.todo
                \/ sweep.step # "next" /\ id = sweep.id

StoreInv ==
    /\ Shapes /\ OneHolder
    /\ AllOnTheirWay /\ Apart
    /\ DirsAreExclusive /\ RefsAreCopied /\ HandedOutIsGood
    /\ SweepIsRight /\ SweptOrLive

-----------------------------------------------------------------------------
(* The steps, and what they leave alone.                                     *)

\* What an insertion is at tells what it is.
LEMMA Kinds ==
    ASSUME NEW m \in Insertions \cup {Idle}
    PROVE  /\ m.at = "allocate" => m \in Allocating
           /\ m.at = "mkdir" => m \in Making
           /\ m.at = "mark" => m \in Stamping
           /\ m.at = "do" => m \in Doing
           /\ m.at \in {"fail", "untag"} => m \in Failing
           /\ m.at = "idle" <=> m = Idle
           /\ m.at \notin {"idle", "allocate", "mkdir"} => m \in Stamping \cup Doing \cup Failing
           /\ m # Idle => /\ m.id \in 0..MaxId /\ m.files \subseteq Files /\ m.files # {}
                          /\ m.at \in {"allocate", "mkdir", "mark", "do", "fail", "untag"}
                          /\ m = [at |-> m.at, files |-> m.files, id |-> m.id, next |-> m.next]
<1>1. CASE m = Idle
  BY <1>1 DEF Idle
<1>2. CASE m \in Allocating
  <2>1. m.files \in NonEmpty /\ m.id = 0 /\ m.at = "allocate"
    BY <1>2 DEF Allocating
  <2>2. m = [at |-> m.at, files |-> m.files, id |-> m.id, next |-> m.next]
    BY <1>2 DEF Allocating
  <2>3. m # Idle
    BY <2>1 DEF Idle
  <2> QED
    BY <1>2, <2>1, <2>2, <2>3, BoundAssumption DEF NonEmpty
<1>6. CASE m \in Making
  BY <1>6 DEF Making, NonEmpty, Idle
<1>3. CASE m \in Stamping
  BY <1>3 DEF Stamping, NonEmpty, Idle
<1>4. CASE m \in Doing
  BY <1>4 DEF Doing, NonEmpty, Idle
<1>5. CASE m \in Failing
  BY <1>5 DEF Failing, NonEmpty, Idle
<1> QED
  BY <1>1, <1>2, <1>3, <1>4, <1>5, <1>6 DEF Insertions

\* The steps in which nothing but the machine of one slot, the files and the
\* numbers change; those of the service; and those of a reader.
LEMMA StepCases ==
    ASSUME Next
    PROVE  \/ \E k \in Slots : MachineStep(k) \/ \E files \in SUBSET Files : Begin(k, files)
           \/ \E s \in Services : Construct(s) \/ Acquire(s) \/ Dies(s)
           \/ SweepNext \/ SweepCondemn \/ SweepUntag \/ Serve
           \/ DirectDies
           \/ \E id \in Ids : DeleteDir(id)
           \/ UNCHANGED <<fs, procs, machine, history, bounds>>
BY DEF Next, SweepStep, ReadErr, ReadWip, ReadRefs

\* Only the insertion of the slot moves.
LEMMA OthersStay ==
    ASSUME Shapes, NEW k \in Slots, NEW m, To(k, m)
    PROVE  /\ machine'[k] = m
           /\ \A l \in Slots \ {k} : machine'[l] = machine[l]
           /\ m \in Insertions \cup {Idle} => machine' \in [Slots -> Insertions \cup {Idle}]
BY DEF To, Shapes

\* The number that is recovered is a number.
LEMMA RecoveredIsId ==
    ASSUME Shapes
    PROVE  Recovered \in 0..MaxId
<1>1. {counter} \cup Ids \subseteq 0..MaxId /\ {counter} \cup Ids # {}
  BY DEF Shapes
<1>2. MaxId \in Nat
  BY BoundAssumption
<1> HIDE DEF Ids
<1>3. Max({counter} \cup Ids) \in {counter} \cup Ids
  BY <1>1, <1>2, MaxIsMember
<1> QED
  BY <1>1, <1>3 DEF Recovered

\* The sweep takes what it has left to look at.
LEMMA SweepTakes ==
    ASSUME Shapes, sweep.todo # {}
    PROVE  Min(sweep.todo) \in sweep.todo /\ Min(sweep.todo) \in 1..MaxId
<1>1. sweep.todo \subseteq 1..MaxId
  BY DEF Shapes
<1>2. sweep.todo \subseteq Nat
  BY <1>1, BoundAssumption
<1>3. Min(sweep.todo) \in sweep.todo
  BY <1>2, MinIsMember
<1> QED
  BY <1>1, <1>3

\* An insertion that asks for a number has a process.
LEMMA HasProcess ==
    ASSUME Shapes, OneHolder, NEW k \in Slots, machine[k] # Idle
    PROVE  Process(k) \in Services \cup {Direct}
<1>1. CASE k = "direct"
  BY <1>1 DEF Process
<1>2. CASE k # "direct"
  <2>1. Serving
    BY <1>2 DEF OneHolder
  <2> QED
    BY <1>2, <2>1 DEF Process, Serving, Shapes
<1> QED
  BY <1>1, <1>2

\* What is written into a directory changes that only.
LEMMA TaggedDirs ==
    ASSUME Shapes, NEW id, NEW s \in Stages \cup {Absent}
    PROVE  LET d == Tagged(id, s)
           IN  /\ DOMAIN d = Ids
               /\ d \in [Ids -> Markers]
               /\ \A i \in Ids : /\ d[i].err = dirs[i].err /\ d[i].refs = dirs[i].refs
                                 /\ d[i].meant = dirs[i].meant
                                 /\ i # id => d[i].wip = dirs[i].wip
                                 /\ i = id => d[i].wip = s
<1> DEFINE d == Tagged(id, s)
<1>1. \A i \in Ids : d[i] = IF i = id THEN [dirs[i] EXCEPT !.wip = s] ELSE dirs[i]
  BY DEF Tagged, Shapes
<1>2. DOMAIN d = Ids /\ d = [i \in Ids |-> d[i]]
  BY DEF Tagged, Shapes
<1>3. \A i \in Ids : dirs[i] \in Markers
  BY DEF Shapes
<1> HIDE DEF d
<1>4. ASSUME NEW i \in Ids
      PROVE  /\ d[i] \in Markers
             /\ d[i].err = dirs[i].err /\ d[i].refs = dirs[i].refs
             /\ d[i].meant = dirs[i].meant
             /\ i # id => d[i].wip = dirs[i].wip
             /\ i = id => d[i].wip = s
  BY <1>1, <1>3, <1>4 DEF Markers
<1>5. d \in [Ids -> Markers]
  BY <1>2, <1>4
<1> QED
  BY <1>2, <1>4, <1>5 DEF d

LEMMA CondemnedDirs ==
    ASSUME Shapes, NEW id
    PROVE  LET d == Condemned(id)
           IN  /\ DOMAIN d = Ids
               /\ d \in [Ids -> Markers]
               /\ \A i \in Ids : /\ d[i].wip = dirs[i].wip /\ d[i].refs = dirs[i].refs
                                 /\ d[i].meant = dirs[i].meant
                                 /\ i # id => d[i].err = dirs[i].err
<1> DEFINE d == Condemned(id)
<1>1. \A i \in Ids : d[i] = IF i = id THEN [dirs[i] EXCEPT !.err = TRUE] ELSE dirs[i]
  BY DEF Condemned, Shapes
<1>2. DOMAIN d = Ids /\ d = [i \in Ids |-> d[i]]
  BY DEF Condemned, Shapes
<1>3. \A i \in Ids : dirs[i] \in Markers
  BY DEF Shapes
<1> HIDE DEF d
<1>4. ASSUME NEW i \in Ids
      PROVE  /\ d[i] \in Markers
             /\ d[i].wip = dirs[i].wip /\ d[i].refs = dirs[i].refs
             /\ d[i].meant = dirs[i].meant
             /\ i # id => d[i].err = dirs[i].err
  BY <1>1, <1>3, <1>4 DEF Markers
<1>5. d \in [Ids -> Markers]
  BY <1>2, <1>4
<1> QED
  BY <1>2, <1>4, <1>5 DEF d

LEMMA ReferringDirs ==
    ASSUME Shapes, NEW id, NEW files \in SUBSET Files
    PROVE  LET d == Referring(id, files)
           IN  /\ DOMAIN d = Ids
               /\ d \in [Ids -> Markers]
               /\ \A i \in Ids : /\ d[i].wip = dirs[i].wip /\ d[i].err = dirs[i].err
                                 /\ d[i].meant = dirs[i].meant
                                 /\ i # id => d[i].refs = dirs[i].refs
                                 /\ i = id => d[i].refs = files
<1> DEFINE d == Referring(id, files)
<1>1. \A i \in Ids : d[i] = IF i = id THEN [dirs[i] EXCEPT !.refs = files] ELSE dirs[i]
  BY DEF Referring, Shapes
<1>2. DOMAIN d = Ids /\ d = [i \in Ids |-> d[i]]
  BY DEF Referring, Shapes
<1>3. \A i \in Ids : dirs[i] \in Markers
  BY DEF Shapes
<1> HIDE DEF d
<1>4. ASSUME NEW i \in Ids
      PROVE  /\ d[i] \in Markers
             /\ d[i].wip = dirs[i].wip /\ d[i].err = dirs[i].err
             /\ d[i].meant = dirs[i].meant
             /\ i # id => d[i].refs = dirs[i].refs
             /\ i = id => d[i].refs = files
  BY <1>1, <1>3, <1>4 DEF Markers
<1>5. d \in [Ids -> Markers]
  BY <1>2, <1>4
<1> QED
  BY <1>2, <1>4, <1>5 DEF d

\* What Mkdir makes.
LEMMA MadeDirs ==
    ASSUME Shapes, NEW id \in 1..MaxId, id \notin Ids, NEW files \in SUBSET Files
    PROVE  LET d == Made(id, files)
           IN  /\ DOMAIN d = Ids \cup {id}
               /\ d \in [Ids \cup {id} -> Markers]
               /\ d[id] = [wip |-> Absent, err |-> FALSE, refs |-> {}, meant |-> files]
               /\ \A i \in Ids : d[i] = dirs[i]
BY DEF Made, With, Shapes, Markers, Ids

-----------------------------------------------------------------------------
(* Shapes, and the one holder of the lock.                                   *)

\* A step of a machine keeps the shapes.
LEMMA MachineKeepsShapes ==
    ASSUME Shapes, OneHolder, AllOnTheirWay, NEW k \in Slots, MachineStep(k)
    PROVE  Shapes'
<1> DEFINE m == machine[k]
<1>0. m \in Insertions \cup {Idle} /\ MaxId \in Nat
  BY BoundAssumption DEF Shapes
<1>1. CASE Allocate(k)
  <2> DEFINE id == last[Process(k)] + 1
  <2>1. m \in Allocating /\ m # Idle
    BY <1>0, <1>1, Kinds DEF Allocate, Idle
  <2>2. Process(k) \in Services \cup {Direct}
    BY <2>1, HasProcess
  <2>3. id \in 1..MaxId
    BY <1>0, <1>1, <2>2 DEF Allocate, Shapes
  <2>4. [m EXCEPT !.at = "mkdir", !.id = id] \in Insertions
    BY <2>1, <2>3 DEF Allocating, Making, Insertions
  <2>5. machine' \in [Slots -> Insertions \cup {Idle}]
    BY <1>1, <2>4, OthersStay DEF Allocate
  <2>6. counter' \in 0..MaxId /\ last' \in [Services \cup {Direct} -> 0..MaxId]
    <3>1. id \in 0..MaxId
      BY <1>0, <2>3
    <3>2. counter' = id /\ last' = [last EXCEPT ![Process(k)] = id]
      BY <1>1 DEF Allocate
    <3> HIDE DEF id
    <3> QED
      BY <3>1, <3>2 DEF Shapes
  <2> QED
    BY <1>1, <2>5, <2>6 DEF Allocate, Shapes, Ids, history
<1>2. CASE Mkdir(k)
  <2>1. m \in Making
    BY <1>0, <1>2, Kinds DEF Mkdir
  <2>2. CASE m.id \in Ids
    <3>1. machine' \in [Slots -> Insertions \cup {Idle}]
      BY <1>2, <2>2, OthersStay DEF Mkdir
    <3> QED
      BY <1>2, <2>2, <3>1 DEF Mkdir, Shapes, Ids, procs, history
  <2>3. CASE m.id \notin Ids
    <3>1. [m EXCEPT !.at = "mark"] \in Insertions
      BY <2>1 DEF Making, Stamping, Insertions
    <3>2. machine' \in [Slots -> Insertions \cup {Idle}]
      BY <1>2, <2>3, <3>1, OthersStay DEF Mkdir
    <3>3. m.id \in 1..MaxId
      BY <2>1 DEF Making
    <3>4. m.files \in SUBSET Files
      BY <2>1 DEF Making, NonEmpty
    <3>5. Ids' = Ids \cup {m.id} /\ dirs' \in [Ids' -> Markers]
      <4>1. dirs' = Made(m.id, m.files)
        BY <1>2, <2>3 DEF Mkdir
      <4>2. DOMAIN Made(m.id, m.files) = Ids \cup {m.id} /\ Made(m.id, m.files) \in [Ids \cup {m.id} -> Markers]
        BY <2>3, <3>3, <3>4, MadeDirs
      <4> QED
        BY <4>1, <4>2 DEF Ids
    <3> QED
      BY <1>2, <3>2, <3>3, <3>5 DEF Mkdir, Shapes, procs, history
  <2> QED
    BY <2>2, <2>3
<1>3. CASE Mark(k)
  <2>1. m \in Stamping
    BY <1>0, <1>3, Kinds DEF Mark
  <2>2. [m EXCEPT !.at = "do", !.next = After[m.next]] \in Insertions
    <3>1. After[m.next] \in {"moved", "remote_dir", "refs", "complete"}
      BY <2>1 DEF Stamping, After
    <3> QED
      BY <2>1, <3>1 DEF Stamping, Doing, Insertions
  <2>3. m.next \in Stages \cup {Absent}
    BY <2>1 DEF Stamping, Stages
  <2>4. Ids' = Ids /\ dirs' \in [Ids' -> Markers]
    BY <1>3, <2>3, TaggedDirs DEF Mark, Ids
  <2>5. machine' \in [Slots -> Insertions \cup {Idle}]
    BY <1>3, <2>2, OthersStay DEF Mark
  <2> QED
    BY <1>3, <2>4, <2>5 DEF Mark, Shapes, procs, history
<1>4. CASE Move(k)
  <2>1. m \in Doing
    BY <1>0, <1>4, Kinds DEF Move
  <2>2. [m EXCEPT !.at = "mark"] \in Insertions /\ [m EXCEPT !.at = "fail"] \in Insertions
    BY <1>4, <2>1 DEF Move, Stamping, Doing, Failing, Insertions
  <2>3. m.id \in Ids
    BY <1>4 DEF Move, AllOnTheirWay, OnItsWay, Working
  <2>4. place' \in [Files -> {Inbox, Desk, Deleted} \cup Ids]
    BY <1>4, <2>3 DEF Move, Shapes
  <2>5. machine' \in [Slots -> Insertions \cup {Idle}]
    BY <1>0, <1>4, <2>2, OthersStay DEF Move
  <2> QED
    BY <1>4, <2>4, <2>5 DEF Move, Shapes, procs, history, Ids
<1>5. CASE CreateDir(k)
  <2>1. m \in Doing
    BY <1>0, <1>5, Kinds DEF CreateDir
  <2>2. [m EXCEPT !.next = After[m.next]] \in Insertions /\ [m EXCEPT !.at = "fail"] \in Insertions
    BY <1>5, <2>1 DEF CreateDir, Stamping, Doing, Failing, Insertions, After
  <2>3. Ids' = Ids /\ dirs' \in [Ids' -> Markers]
    BY <1>5, TaggedDirs DEF CreateDir, Ids, Stages, Shapes
  <2>4. machine' \in [Slots -> Insertions \cup {Idle}]
    BY <1>5, <2>2, OthersStay DEF CreateDir
  <2> QED
    BY <1>5, <2>3, <2>4 DEF CreateDir, Shapes, procs, history
<1>6. CASE Sync(k)
  <2>1. m \in Doing
    BY <1>0, <1>6, Kinds DEF Sync
  <2>2. [m EXCEPT !.at = "mark"] \in Insertions /\ [m EXCEPT !.at = "fail"] \in Insertions
    BY <1>6, <2>1 DEF Sync, Stamping, Doing, Failing, Insertions
  <2>3. machine' \in [Slots -> Insertions \cup {Idle}]
    BY <1>0, <1>6, <2>2, OthersStay DEF Sync
  <2> QED
    BY <1>6, <2>3 DEF Sync, Shapes, procs, history, Ids
<1>7. CASE WriteRefs(k)
  <2>1. m \in Doing
    BY <1>0, <1>7, Kinds DEF WriteRefs
  <2>2. [m EXCEPT !.at = "mark"] \in Insertions
    BY <1>7, <2>1 DEF WriteRefs, Stamping, Doing, Insertions
  <2>3. Ids' = Ids /\ dirs' \in [Ids' -> Markers]
    BY <1>7, Content(m.id) \in SUBSET Files, ReferringDirs DEF WriteRefs, Ids, Content
  <2>4. machine' \in [Slots -> Insertions \cup {Idle}]
    BY <1>7, <2>2, OthersStay DEF WriteRefs
  <2> QED
    BY <1>7, <2>3, <2>4 DEF WriteRefs, Shapes, procs, history
<1>8. CASE Complete(k)
  <2>1. m \in Doing
    BY <1>0, <1>8, Kinds DEF Complete
  <2>2. [m EXCEPT !.at = "fail"] \in Insertions /\ m.files \in SUBSET Files
    BY <1>8, <2>1 DEF Complete, Doing, Failing, NonEmpty, Insertions
  <2>3. m.id \in Ids
    BY <1>8 DEF Complete, AllOnTheirWay, OnItsWay, Working
  <2>4. Ids' = Ids /\ dirs' \in [Ids' -> Markers]
    BY <1>8, TaggedDirs DEF Complete, Ids, Shapes
  <2>5. machine' \in [Slots -> Insertions \cup {Idle}]
    BY <1>8, <2>2, OthersStay DEF Complete
  <2>6. given' \in [DOMAIN given' -> SUBSET Files] /\ DOMAIN given' \subseteq Ids
    <3>1. CASE given' = given
      BY <3>1 DEF Shapes
    <3>2. CASE given' = With(given, m.id, m.files)
      BY <2>2, <2>3, <3>2 DEF With, Shapes
    <3> QED
      BY <1>8, <3>1, <3>2 DEF Complete
  <2> QED
    BY <1>8, <2>4, <2>5, <2>6 DEF Complete, Shapes, procs, history
<1>9. CASE Fail(k)
  <2>1. m \in Failing
    BY <1>0, <1>9, Kinds DEF Fail
  <2>2. [m EXCEPT !.at = "untag"] \in Insertions
    BY <2>1 DEF Failing, Insertions
  <2>3. Ids' = Ids /\ dirs' \in [Ids' -> Markers]
    BY <1>9, TaggedDirs, CondemnedDirs DEF Fail, Ids
  <2>4. machine' \in [Slots -> Insertions \cup {Idle}]
    BY <1>9, <2>2, OthersStay DEF Fail
  <2> QED
    BY <1>9, <2>3, <2>4 DEF Fail, Shapes, procs, history
<1> QED
  BY <1>1, <1>2, <1>3, <1>4, <1>5, <1>6, <1>7, <1>8, <1>9 DEF MachineStep

\* So does the beginning of an insertion.
LEMMA BeginKeepsShapes ==
    ASSUME Shapes, NEW k \in Slots, NEW files \in SUBSET Files, Begin(k, files)
    PROVE  Shapes'
<1> DEFINE m == [at |-> "allocate", files |-> files, id |-> 0, next |-> "init"]
<1>1. m \in Insertions
  BY DEF Begin, Insertions, Allocating, NonEmpty
<1>2. machine' \in [Slots -> Insertions \cup {Idle}]
  BY <1>1, OthersStay DEF Begin
<1>3. last' \in [Services \cup {Direct} -> 0..MaxId]
  <2>1. Recovered \in 0..MaxId
    BY RecoveredIsId
  <2>2. last' = last \/ last' = [last EXCEPT ![Direct] = Recovered]
    BY DEF Begin
  <2> HIDE DEF Recovered
  <2> QED
    BY <2>1, <2>2 DEF Shapes
<1> QED
  BY <1>2, <1>3 DEF Begin, Shapes, fs, history, Ids

\* And whatever a service does.
LEMMA ServiceKeepsShapes ==
    ASSUME Shapes, OneHolder, SweepIsRight,
           \/ \E s \in Services : Construct(s) \/ Acquire(s) \/ Dies(s)
           \/ SweepNext \/ SweepCondemn \/ SweepUntag \/ Serve
    PROVE  Shapes'
<1>0. MaxId \in Nat /\ Ids \subseteq 1..MaxId
  BY BoundAssumption DEF Shapes
<1>1. NoSweep \in [todo : SUBSET (1..MaxId), id : 0..MaxId, step : {"next", "condemn", "untag"}]
  BY <1>0 DEF NoSweep
<1>2. ASSUME NEW s \in Services, Construct(s)
      PROVE  Shapes'
  <2>1. last' \in [Services \cup {Direct} -> 0..MaxId]
    BY <1>2, RecoveredIsId DEF Construct, Shapes
  <2> QED
    BY <1>2, <2>1 DEF Construct, Shapes, fs, history, Ids
<1>3. ASSUME NEW s \in Services, Acquire(s)
      PROVE  Shapes'
  <2>1. sweep' \in [todo : SUBSET (1..MaxId), id : 0..MaxId, step : {"next", "condemn", "untag"}]
    BY <1>0, <1>3 DEF Acquire
  <2> QED
    BY <1>3, <2>1 DEF Acquire, Shapes, fs, history, Ids
<1>4. ASSUME NEW s \in Services, Dies(s)
      PROVE  Shapes'
  <2>1. machine' \in [Slots -> Insertions \cup {Idle}]
    BY <1>4 DEF Dies, Shapes
  <2>2. sweep' \in [todo : SUBSET (1..MaxId), id : 0..MaxId, step : {"next", "condemn", "untag"}]
    BY <1>1, <1>4 DEF Dies, Shapes
  <2> QED
    BY <1>4, <2>1, <2>2 DEF Dies, Shapes, fs, history, Ids
<1>5. CASE SweepNext
  <2>1. Min(sweep.todo) \in sweep.todo /\ Min(sweep.todo) \in 1..MaxId
    BY <1>5, SweepTakes DEF SweepNext
  <2>2. sweep' \in [todo : SUBSET (1..MaxId), id : 0..MaxId, step : {"next", "condemn", "untag"}]
    BY <1>0, <1>5, <2>1 DEF SweepNext, Shapes
  <2> QED
    BY <1>5, <2>2 DEF SweepNext, Shapes, fs, Ids
<1>6. CASE SweepCondemn
  <2>1. Ids' = Ids /\ dirs' \in [Ids' -> Markers]
    BY <1>6, CondemnedDirs DEF SweepCondemn, Ids
  <2> QED
    BY <1>6, <2>1 DEF SweepCondemn, Shapes, history
<1>7. CASE SweepUntag
  <2>1. Ids' = Ids /\ dirs' \in [Ids' -> Markers]
    BY <1>7, TaggedDirs DEF SweepUntag, Ids
  <2>2. sweep' \in [todo : SUBSET (1..MaxId), id : 0..MaxId, step : {"next", "condemn", "untag"}]
    <3>1. sweep' = NoSweep \/ sweep' = [sweep EXCEPT !.step = "next", !.id = 0]
      BY <1>7 DEF SweepUntag
    <3> HIDE DEF NoSweep
    <3>2. 0 \in 0..MaxId
      BY <1>0
    <3>3. [sweep EXCEPT !.step = "next", !.id = 0]
              \in [todo : SUBSET (1..MaxId), id : 0..MaxId, step : {"next", "condemn", "untag"}]
      BY <3>2 DEF Shapes
    <3> QED
      BY <1>1, <3>1, <3>3
  <2> QED
    BY <1>7, <2>1, <2>2 DEF SweepUntag, Shapes, history
<1>8. CASE Serve
  BY <1>1, <1>8 DEF Serve, Shapes, fs, history, Ids
<1> QED
  BY <1>2, <1>3, <1>4, <1>5, <1>6, <1>7, <1>8

\* And the rest.
LEMMA RestKeepsShapes ==
    ASSUME Shapes,
           \/ DirectDies
           \/ \E id \in Ids : DeleteDir(id)
           \/ UNCHANGED <<fs, procs, machine, history, bounds>>
    PROVE  Shapes'
<1>1. CASE DirectDies
  <2>1. machine' \in [Slots -> Insertions \cup {Idle}]
    BY <1>1 DEF DirectDies, To, Shapes
  <2> QED
    BY <1>1, <2>1 DEF DirectDies, Shapes, fs, procs, Ids
<1>2. ASSUME NEW id \in Ids, DeleteDir(id)
      PROVE  Shapes'
  <2>1. Ids' = Ids \ {id} /\ dirs' \in [Ids' -> Markers]
    BY <1>2 DEF DeleteDir, Restrict, Shapes, Ids
  <2>2. given' \in [DOMAIN given' -> SUBSET Files] /\ DOMAIN given' \subseteq Ids'
    BY <1>2, <2>1 DEF DeleteDir, Restrict, Shapes
  <2>3. place' \in [Files -> {Inbox, Desk, Deleted} \cup Ids']
    BY <1>2, <2>1 DEF DeleteDir, Shapes
  <2> QED
    BY <1>2, <2>1, <2>2, <2>3 DEF DeleteDir, Shapes, procs
<1>3. CASE UNCHANGED <<fs, procs, machine, history, bounds>>
  BY <1>3 DEF Shapes, fs, procs, history, Ids
<1> QED
  BY <1>1, <1>2, <1>3

\* One service holds the lock, whatever happens.
LEMMA HolderKept ==
    ASSUME Shapes, OneHolder, Next
    PROVE  OneHolder'
<1>1. ASSUME NEW k \in Slots, MachineStep(k)
      PROVE  OneHolder'
  <2>1. machine[k] # Idle /\ UNCHANGED <<service, lock, sweep>>
    BY <1>1 DEF MachineStep, Allocate, Mkdir, Mark, Move, CreateDir, Sync, WriteRefs, Complete,
                Fail, Idle, procs
  <2>2. \A l \in Slots \ {k} : machine'[l] = machine[l]
    BY <1>1, OthersStay DEF MachineStep, Allocate, Mkdir, Mark, Move, CreateDir, Sync,
                            WriteRefs, Complete, Fail
  <2> QED
    BY <2>1, <2>2 DEF OneHolder, Serving
<1>2. ASSUME NEW k \in Slots, NEW files \in SUBSET Files, Begin(k, files)
      PROVE  OneHolder'
  <2>1. UNCHANGED <<service, lock, sweep>> /\ (k = "direct" \/ Serving)
    BY <1>2, SlotsAssumption DEF Begin
  <2>2. \A l \in Slots \ {k} : machine'[l] = machine[l]
    BY <1>2, OthersStay DEF Begin
  <2> QED
    BY <2>1, <2>2 DEF OneHolder, Serving
<1>3. ASSUME NEW s \in Services, Construct(s)
      PROVE  OneHolder'
  BY <1>3, NobodyAssumption DEF Construct, OneHolder, Serving, Shapes
<1>4. ASSUME NEW s \in Services, Acquire(s)
      PROVE  OneHolder'
  BY <1>4, NobodyAssumption DEF Acquire, OneHolder, Serving, Shapes
<1>5. ASSUME NEW s \in Services, Dies(s)
      PROVE  OneHolder'
  BY <1>5, NobodyAssumption DEF Dies, OneHolder, Serving, Shapes
<1>6. CASE SweepNext
  <2>1. sweep # NoSweep
    BY <1>6 DEF SweepNext, NoSweep
  <2> QED
    BY <1>6, <2>1 DEF SweepNext, OneHolder, Serving
<1>7. CASE SweepCondemn
  <2>1. sweep # NoSweep
    BY <1>7 DEF SweepCondemn, NoSweep
  <2> QED
    BY <1>7, <2>1 DEF SweepCondemn, OneHolder, Serving
<1>8. CASE SweepUntag
  <2>1. sweep # NoSweep
    BY <1>8 DEF SweepUntag, NoSweep
  <2> QED
    BY <1>8, <2>1, NobodyAssumption DEF SweepUntag, OneHolder, Serving, Shapes
<1>9. CASE Serve
  BY <1>9 DEF Serve, OneHolder, Serving, Shapes
<1>10. CASE DirectDies
  BY <1>10 DEF DirectDies, To, OneHolder, Serving, Shapes, procs
<1>11. ASSUME NEW id \in Ids, DeleteDir(id)
       PROVE  OneHolder'
  BY <1>11 DEF DeleteDir, OneHolder, Serving, procs
<1>12. CASE UNCHANGED <<fs, procs, machine, history, bounds>>
  BY <1>12 DEF OneHolder, Serving, procs
<1> QED
  BY <1>1, <1>2, <1>3, <1>4, <1>5, <1>6, <1>7, <1>8, <1>9, <1>10, <1>11, <1>12, StepCases

-----------------------------------------------------------------------------
(* The directories: what they hold, what was handed out, and the sweep.      *)
DirsInv ==
    /\ AllOnTheirWay /\ Apart
    /\ DirsAreExclusive /\ RefsAreCopied /\ HandedOutIsGood
    /\ SweepIsRight /\ SweptOrLive

\* Where nothing changes that DirsInv is about, it is kept.
LEMMA Quiet ==
    ASSUME DirsInv,
           UNCHANGED <<place, dirs, remote, given, hit, orphans, lock, sweep>>,
           Working' = Working, \A l \in Working : machine'[l] = machine[l]
    PROVE  DirsInv'
<1>1. Ids' = Ids /\ \A i : Content(i)' = Content(i) /\ Live(i)' = Live(i)
  BY DEF Ids, Content, Live
<1>2. AllOnTheirWay'
  <2>1. ASSUME NEW l \in Working
        PROVE  OnItsWay(l)'
    <3>1. OnItsWay(l) /\ machine'[l] = machine[l]
      BY DEF DirsInv, AllOnTheirWay
    <3> QED
      BY <1>1, <3>1 DEF OnItsWay, AllCopied
  <2> QED
    BY <2>1 DEF AllOnTheirWay
<1>3. Apart'
  BY DEF DirsInv, Apart
<1>4. DirsAreExclusive' /\ RefsAreCopied'
  BY <1>1 DEF DirsInv, DirsAreExclusive, RefsAreCopied, AllCopied
<1>5. HandedOutIsGood'
  BY <1>1 DEF DirsInv, HandedOutIsGood, IsComplete
<1>6. SweepIsRight' /\ SweptOrLive'
  BY <1>1 DEF DirsInv, SweepIsRight, SweptOrLive
<1> QED
  BY <1>2, <1>3, <1>4, <1>5, <1>6 DEF DirsInv

\* An insertion that works in its own directory disturbs no other.
LEMMA InOwnDir ==
    ASSUME Shapes, DirsInv, NEW k \in Working,
           UNCHANGED <<given, hit, orphans, lock, sweep>>,
           Working' = Working, \A l \in Working \ {k} : machine'[l] = machine[l],
           machine'[k].id = machine[k].id,
           Ids' = Ids, \A i \in Ids \ {machine[k].id} : dirs'[i] = dirs[i],
           remote \subseteq remote',
           \A f \in Files : place'[f] # place[f] =>
               place[f] \in {Inbox, Desk} /\ place'[f] = machine[k].id,
           OnItsWay(k)',
           Content(machine[k].id)' \subseteq dirs'[machine[k].id].meant,
           dirs'[machine[k].id].refs # {} => AllCopied(machine[k].id, Content(machine[k].id))'
    PROVE  DirsInv'
<1> DEFINE id == machine[k].id
<1>1. id \in Ids \ DOMAIN given
  BY DEF DirsInv, AllOnTheirWay, OnItsWay
<1>2. Ids \subseteq Nat \ {0}
  BY BoundAssumption DEF Shapes
<1>3. \A i \in Ids \ {id} : Content(i)' = Content(i)
  BY <1>2 DEF Content, Inbox, Desk
<1>4. \A i : Live(i)' = Live(i)
  BY DEF Live
<1>5. \A i, files : AllCopied(i, files) => AllCopied(i, files)'
  BY DEF AllCopied
<1>6. AllOnTheirWay'
  <2>1. ASSUME NEW l \in Working \ {k}
        PROVE  OnItsWay(l)'
    <3>1. OnItsWay(l) /\ machine'[l] = machine[l]
      BY DEF DirsInv, AllOnTheirWay
    <3>2. machine[l].id \in Ids \ {id}
      BY <3>1 DEF DirsInv, Apart, OnItsWay
    <3>3. dirs'[machine[l].id] = dirs[machine[l].id] /\ Content(machine[l].id)' = Content(machine[l].id)
      BY <1>3, <3>2
    <3> QED
      BY <1>5, <3>1, <3>2, <3>3 DEF OnItsWay, AllCopied
  <2> QED
    BY <2>1 DEF AllOnTheirWay
<1>7. Apart'
  BY DEF DirsInv, Apart
<1>8. DirsAreExclusive'
  BY <1>3 DEF DirsInv, DirsAreExclusive
<1>9. RefsAreCopied'
  <2>1. ASSUME NEW i \in Ids \ {id}, dirs'[i].refs # {}
        PROVE  AllCopied(i, Content(i))'
    <3>1. AllCopied(i, Content(i))
      BY <2>1 DEF DirsInv, RefsAreCopied
    <3> QED
      BY <1>3, <3>1 DEF AllCopied
  <2> QED
    BY <2>1 DEF RefsAreCopied
<1>10. HandedOutIsGood'
  <2>1. ASSUME NEW i \in DOMAIN given \ hit
        PROVE  /\ IsComplete(i)'
               /\ Content(i)' = given[i] /\ dirs'[i].refs = given[i]
               /\ \A f \in given[i] : <<i, f>> \in remote'
    <3>1. i \in Ids \ {id}
      BY <1>1, <2>1 DEF Shapes
    <3>2. dirs'[i] = dirs[i] /\ Content(i)' = Content(i)
      BY <1>3, <3>1
    <3>3. /\ IsComplete(i)
          /\ Content(i) = given[i] /\ dirs[i].refs = given[i]
          /\ \A f \in given[i] : <<i, f>> \in remote
      BY <2>1 DEF DirsInv, HandedOutIsGood
    <3> QED
      BY <3>2, <3>3 DEF IsComplete
  <2> QED
    BY <2>1 DEF HandedOutIsGood
<1>11. SweepIsRight'
  BY <1>4 DEF DirsInv, SweepIsRight
<1>12. SweptOrLive'
  <2>1. Live(id)
    BY DEF Live
  <2>2. ASSUME NEW i \in Ids \ (orphans \cup hit), lock # Nobody, dirs'[i].wip # Absent
        PROVE  Live(i) \/ i \in sweep.todo \/ (sweep.step # "next" /\ i = sweep.id)
    BY <2>1, <2>2 DEF DirsInv, SweptOrLive
  <2> QED
    BY <1>4, <2>2 DEF SweptOrLive
<1> QED
  BY <1>6, <1>7, <1>8, <1>9, <1>10, <1>11, <1>12 DEF DirsInv

\* An insertion that gets on stays one that works, and one that ends is none.
LEMMA WorkingMoves ==
    ASSUME Shapes, NEW k \in Slots, NEW m, To(k, m)
    PROVE  /\ m.at \notin {"idle", "allocate", "mkdir"} => Working' = Working \cup {k}
           /\ m.at \in {"idle", "allocate", "mkdir"} => Working' = Working \ {k}
<1>1. machine'[k] = m /\ \A l \in Slots \ {k} : machine'[l] = machine[l]
  BY OthersStay
<1> QED
  BY <1>1 DEF Working

\* Asking for a number, or finding that its directory is there, changes nothing.
LEMMA AllocateKeepsDirs ==
    ASSUME Shapes, DirsInv, NEW k \in Slots,
           Allocate(k) \/ (Mkdir(k) /\ machine[k].id \in Ids)
    PROVE  DirsInv'
<1>1. k \notin Working
  BY DEF Allocate, Mkdir, Working
<1>2. PICK m : To(k, m) /\ m.at \in {"idle", "allocate", "mkdir"}
  <2>1. CASE Allocate(k)
    <3>1. machine[k] \in Allocating
      BY <2>1, Kinds DEF Allocate, Shapes
    <3>2. [machine[k] EXCEPT !.at = "mkdir", !.id = last[Process(k)] + 1].at = "mkdir"
      BY <3>1 DEF Allocating
    <3> QED
      BY <2>1, <3>2 DEF Allocate
  <2>2. CASE Mkdir(k) /\ machine[k].id \in Ids
    BY <2>2 DEF Mkdir, Idle
  <2> QED
    BY <2>1, <2>2
<1>3. Working' = Working
  BY <1>1, <1>2, WorkingMoves
<1>4. \A l \in Working : machine'[l] = machine[l]
  BY <1>1, <1>2, OthersStay DEF Working
<1>5. UNCHANGED <<place, dirs, remote, given, hit, orphans, lock, sweep>>
  BY DEF Allocate, Mkdir, procs, history
<1> QED
  BY <1>3, <1>4, <1>5, Quiet

\* A directory that is made is new: no insertion has it, and nothing is in it.
LEMMA MkdirKeepsDirs ==
    ASSUME Shapes, DirsInv, NEW k \in Slots, Mkdir(k), machine[k].id \notin Ids
    PROVE  DirsInv'
<1> DEFINE m == machine[k]
           new == [wip |-> Absent, err |-> FALSE, refs |-> {}, meant |-> m.files]
<1>1. m \in Making
  BY Kinds DEF Mkdir, Shapes
<1>2. m.id \in 1..MaxId /\ m.files \in SUBSET Files
  BY <1>1 DEF Making, NonEmpty
<1>3. /\ dirs' = Made(m.id, m.files)
      /\ UNCHANGED <<place, remote, given, hit, orphans, lock, sweep>>
      /\ To(k, [m EXCEPT !.at = "mark"])
  BY DEF Mkdir, procs, history
<1>4. /\ Ids' = Ids \cup {m.id}
      /\ dirs'[m.id] = new
      /\ \A i \in Ids : dirs'[i] = dirs[i]
  <2>1. /\ DOMAIN Made(m.id, m.files) = Ids \cup {m.id}
        /\ Made(m.id, m.files)[m.id] = new
        /\ \A i \in Ids : Made(m.id, m.files)[i] = dirs[i]
    BY <1>2, MadeDirs
  <2> QED
    BY <1>3, <2>1 DEF Ids
<1>5. /\ machine'[k].at = "mark" /\ machine'[k].next = "init"
      /\ machine'[k].id = m.id /\ machine'[k].files = m.files
      /\ \A l \in Slots \ {k} : machine'[l] = machine[l]
  <2>1. machine'[k] = [m EXCEPT !.at = "mark"] /\ \A l \in Slots \ {k} : machine'[l] = machine[l]
    BY <1>3, OthersStay
  <2> QED
    BY <1>1, <2>1 DEF Making
<1>6. Working' = Working \cup {k} /\ k \notin Working
  <2>1. [m EXCEPT !.at = "mark"].at = "mark"
    BY <1>1 DEF Making
  <2>2. k \notin Working
    BY DEF Mkdir, Working
  <2> QED
    BY <1>3, <2>1, <2>2, WorkingMoves
<1>7. \A i : Content(i)' = Content(i)
  BY <1>3 DEF Content
<1>8. Content(m.id) = {}
  BY <1>2, BoundAssumption DEF Content, Shapes, Inbox, Desk, Deleted
<1>9. \A l \in Working : OnItsWay(l) /\ machine[l].id \in Ids
  BY DEF DirsInv, AllOnTheirWay, OnItsWay
<1>10. \A i \in Ids : Live(i)' = Live(i)
  BY <1>5, <1>6 DEF Live, Working
<1>11. AllOnTheirWay'
  <2>1. ASSUME NEW l \in Working
        PROVE  OnItsWay(l)'
    <3>1. machine'[l] = machine[l] /\ dirs'[machine[l].id] = dirs[machine[l].id]
      BY <1>4, <1>5, <1>6, <1>9 DEF Working
    <3> QED
      BY <1>3, <1>4, <1>7, <1>9, <3>1 DEF OnItsWay, AllCopied
  <2>2. OnItsWay(k)'
    <3>1. m.id \notin DOMAIN given
      BY DEF Shapes
    <3>2. ~IsFilled(machine'[k]) /\ ~IsCopied(machine'[k]) /\ ~IsReferenced(machine'[k])
      BY <1>5 DEF IsFilled, IsCopied, IsReferenced
    <3> QED
      BY <1>3, <1>4, <1>5, <3>1, <3>2 DEF OnItsWay
  <2> QED
    BY <1>6, <2>1, <2>2 DEF AllOnTheirWay
<1>12. Apart'
  BY <1>5, <1>6, <1>9 DEF DirsInv, Apart, Working
<1>13. DirsAreExclusive'
  BY <1>4, <1>7, <1>8 DEF DirsInv, DirsAreExclusive
<1>14. RefsAreCopied'
  <2>1. ASSUME NEW i \in Ids, dirs[i].refs # {}
        PROVE  AllCopied(i, Content(i))'
    <3>1. AllCopied(i, Content(i))
      BY <2>1 DEF DirsInv, RefsAreCopied
    <3> QED
      BY <1>3, <1>7, <3>1 DEF AllCopied
  <2> QED
    BY <1>4, <2>1 DEF RefsAreCopied
<1>15. HandedOutIsGood'
  <2>1. ASSUME NEW i \in DOMAIN given \ hit
        PROVE  dirs'[i] = dirs[i] /\ Content(i)' = Content(i)
    BY <1>4, <1>7 DEF Shapes
  <2> QED
    BY <1>3, <2>1 DEF DirsInv, HandedOutIsGood, IsComplete
<1>16. SweepIsRight'
  BY <1>3, <1>4, <1>10 DEF DirsInv, SweepIsRight
<1>17. SweptOrLive'
  BY <1>3, <1>4, <1>10 DEF DirsInv, SweptOrLive
<1> QED
  BY <1>11, <1>12, <1>13, <1>14, <1>15, <1>16, <1>17 DEF DirsInv

\* The steps of an insertion in its own directory, one after the other.
LEMMA MarkKeepsDirs ==
    ASSUME Shapes, DirsInv, NEW k \in Slots, Mark(k)
    PROVE  DirsInv'
<1> DEFINE m == machine[k]
           n == [m EXCEPT !.at = "do", !.next = After[m.next]]
<1>1. m \in Stamping /\ k \in Working
  BY Kinds DEF Mark, Shapes, Working
<1>2. OnItsWay(k) /\ m.id \in Ids
  BY <1>1 DEF DirsInv, AllOnTheirWay, OnItsWay
<1>3. /\ n.at = "do" /\ n.id = m.id /\ n.files = m.files
      /\ n.next = After[m.next] /\ m.at = "mark"
      /\ m.next \in {"init", "moved", "synced", "refs"}
  BY <1>1 DEF Stamping
<1>4. /\ To(k, n) /\ dirs' = Tagged(m.id, m.next)
      /\ UNCHANGED <<place, remote, given, hit, orphans, lock, sweep>>
  BY DEF Mark, procs, history
<1> HIDE DEF n
<1>5. machine'[k] = n /\ Working' = Working /\ \A l \in Working \ {k} : machine'[l] = machine[l]
  BY <1>1, <1>3, <1>4, OthersStay, WorkingMoves DEF Working
<1>6. /\ Ids' = Ids /\ \A i \in Ids \ {m.id} : dirs'[i] = dirs[i]
      /\ dirs'[m.id].err = dirs[m.id].err /\ dirs'[m.id].refs = dirs[m.id].refs
      /\ dirs'[m.id].meant = dirs[m.id].meant
  <2>1. m.next \in Stages
    BY <1>3 DEF Stages
  <2>2. \A i \in Ids \ {m.id} : dirs'[i] = dirs[i]
    BY <1>4 DEF Tagged, Shapes
  <2> QED
    BY <1>2, <1>4, <2>1, <2>2, TaggedDirs DEF Ids
<1>7. Content(m.id)' = Content(m.id)
  BY <1>4, <1>5, <1>3 DEF Content
<1>8. /\ IsFilled(n) <=> IsFilled(m)
      /\ IsCopied(n) <=> IsCopied(m)
      /\ IsReferenced(n) <=> IsReferenced(m)
  BY <1>3 DEF IsFilled, IsCopied, IsReferenced, After
<1>9. OnItsWay(k)'
  BY <1>2, <1>3, <1>4, <1>5, <1>6, <1>7, <1>8 DEF OnItsWay, AllCopied
<1>10. dirs'[m.id].refs # {} => AllCopied(m.id, Content(m.id))'
  BY <1>2, <1>3, <1>4, <1>5, <1>6, <1>7 DEF DirsInv, RefsAreCopied, AllCopied
<1>11. Content(m.id)' \subseteq dirs'[m.id].meant
  BY <1>2, <1>6, <1>7 DEF DirsInv, DirsAreExclusive
<1> QED
  BY <1>1, <1>3, <1>4, <1>5, <1>6, <1>9, <1>10, <1>11, InOwnDir

LEMMA MoveKeepsDirs ==
    ASSUME Shapes, DirsInv, NEW k \in Slots, Move(k)
    PROVE  DirsInv'
<1> DEFINE m == machine[k]
<1>1. m \in Doing /\ k \in Working
  BY Kinds DEF Move, Shapes, Working
<1>2. OnItsWay(k) /\ m.id \in Ids
  BY <1>1 DEF DirsInv, AllOnTheirWay, OnItsWay
<1>3. m.at = "do" /\ m.next = "moved" /\ m.files \subseteq Files
  BY <1>1 DEF Move, Doing, NonEmpty
<1>4. dirs[m.id].refs = {} /\ Content(m.id) \subseteq m.files /\ dirs[m.id].meant = m.files
  BY <1>2, <1>3 DEF OnItsWay, IsCopied, DirsInv, DirsAreExclusive
<1>5. UNCHANGED <<dirs, remote, given, hit, orphans, lock, sweep>>
  BY DEF Move, procs, history
<1>6. PICK n : /\ To(k, n) /\ n.id = m.id /\ n.files = m.files
               /\ n.at \in {"do", "mark", "fail"} /\ n.next = "moved"
               /\ \A f \in Files : place'[f] # place[f] =>
                      f \in m.files /\ place[f] \in {Inbox, Desk} /\ place'[f] = m.id
               /\ n.at = "mark" => \A f \in m.files : place'[f] = m.id
  <2>1. ASSUME NEW f \in ToMove(k), InPlace(f), place' = [place EXCEPT ![f] = m.id],
               To(k, IF ToMove(k) = {f} THEN [m EXCEPT !.at = "mark"] ELSE m)
        PROVE  \E n : /\ To(k, n) /\ n.id = m.id /\ n.files = m.files
                      /\ n.at \in {"do", "mark", "fail"} /\ n.next = "moved"
                      /\ \A g \in Files : place'[g] # place[g] =>
                             g \in m.files /\ place[g] \in {Inbox, Desk} /\ place'[g] = m.id
                      /\ n.at = "mark" => \A g \in m.files : place'[g] = m.id
    <3>1. f \in m.files /\ place[f] \in {Inbox, Desk}
      BY <2>1 DEF ToMove, InPlace
    <3>2. \A g \in Files : place'[g] = IF g = f THEN m.id ELSE place[g]
      BY <1>3, <2>1, <3>1 DEF Shapes
    <3>3. CASE ToMove(k) = {f}
      <4> DEFINE n == [m EXCEPT !.at = "mark"]
      <4>1. n.at = "mark" /\ n.id = m.id /\ n.files = m.files /\ n.next = "moved" /\ To(k, n)
        BY <1>1, <1>3, <2>1, <3>3 DEF Doing
      <4>2. \A g \in m.files : place'[g] = m.id
        BY <1>3, <3>2, <3>3 DEF ToMove
      <4> HIDE DEF n
      <4> QED
        BY <3>1, <3>2, <4>1, <4>2
    <3>4. CASE ToMove(k) # {f}
      BY <1>3, <2>1, <3>1, <3>2, <3>4
    <3> QED
      BY <3>3, <3>4
  <2>2. ASSUME place' = place, To(k, [m EXCEPT !.at = "fail"])
        PROVE  \E n : /\ To(k, n) /\ n.id = m.id /\ n.files = m.files
                      /\ n.at \in {"do", "mark", "fail"} /\ n.next = "moved"
                      /\ \A g \in Files : place'[g] # place[g] =>
                             g \in m.files /\ place[g] \in {Inbox, Desk} /\ place'[g] = m.id
                      /\ n.at = "mark" => \A g \in m.files : place'[g] = m.id
    <3> DEFINE n == [m EXCEPT !.at = "fail"]
    <3>1. n.at = "fail" /\ n.id = m.id /\ n.files = m.files /\ n.next = "moved" /\ To(k, n)
      BY <1>1, <1>3, <2>2 DEF Doing
    <3> HIDE DEF n
    <3> QED
      BY <2>2, <3>1
  <2> QED
    BY <2>1, <2>2 DEF Move
<1>7. machine'[k] = n /\ Working' = Working /\ \A l \in Working \ {k} : machine'[l] = machine[l]
  BY <1>1, <1>6, OthersStay, WorkingMoves DEF Working
<1>8. Content(m.id)' \subseteq m.files
  BY <1>4, <1>6, <1>7 DEF Content
<1>9. n.at = "mark" => Content(m.id)' = m.files
  BY <1>3, <1>6, <1>7, <1>8 DEF Content
<1>10. OnItsWay(k)'
  <2>1. ~IsCopied(n) /\ ~IsReferenced(n) /\ (IsFilled(n) => n.at = "mark")
    BY <1>6 DEF IsCopied, IsReferenced, IsFilled
  <2>2. n.at \in {"mark", "do"} => m.id \in hit \/ ~dirs[m.id].err
    BY <1>2, <1>3 DEF OnItsWay
  <2>3. m.id \in Ids' \ DOMAIN given' /\ Content(m.id)' = Content(n.id)'
    BY <1>2, <1>5, <1>6, <1>7 DEF OnItsWay, Ids, Content
  <2> QED
    BY <1>4, <1>5, <1>6, <1>7, <1>9, <2>1, <2>2, <2>3 DEF OnItsWay
<1>11. Ids' = Ids
  BY <1>5 DEF Ids
<1> QED
  BY <1>1, <1>4, <1>5, <1>6, <1>7, <1>8, <1>10, <1>11, InOwnDir

\* An insertion that gives up stays in its directory.
LEMMA GivingUp ==
    ASSUME Shapes, DirsInv, NEW k \in Working,
           machine[k].at = "do", To(k, [machine[k] EXCEPT !.at = "fail"]),
           UNCHANGED <<place, dirs, remote, given, hit, orphans, lock, sweep>>
    PROVE  DirsInv'
<1> DEFINE m == machine[k]
           n == [m EXCEPT !.at = "fail"]
<1>1. m \in Doing /\ k \in Slots
  BY Kinds DEF Shapes, Working
<1>2. OnItsWay(k) /\ m.id \in Ids
  BY <1>1 DEF DirsInv, AllOnTheirWay, OnItsWay
<1>3. n.at = "fail" /\ n.id = m.id /\ n.files = m.files /\ To(k, n)
  BY <1>1 DEF Doing
<1> HIDE DEF n
<1>4. machine'[k] = n /\ Working' = Working /\ \A l \in Working \ {k} : machine'[l] = machine[l]
  BY <1>1, <1>3, OthersStay, WorkingMoves DEF Working
<1>5. Ids' = Ids /\ Content(m.id)' = Content(m.id)
  BY <1>3, <1>4 DEF Ids, Content
<1>6. OnItsWay(k)'
  <2>1. ~IsFilled(n) /\ ~IsCopied(n) /\ ~IsReferenced(n)
    BY <1>3 DEF IsFilled, IsCopied, IsReferenced
  <2> QED
    BY <1>2, <1>3, <1>4, <1>5, <2>1 DEF OnItsWay
<1>7. dirs'[m.id].refs # {} => AllCopied(m.id, Content(m.id))'
  BY <1>2, <1>3, <1>4, <1>5 DEF DirsInv, RefsAreCopied, AllCopied
<1>8. Content(m.id)' \subseteq dirs'[m.id].meant
  BY <1>2, <1>5 DEF DirsInv, DirsAreExclusive
<1> QED
  BY <1>3, <1>4, <1>5, <1>6, <1>7, <1>8, InOwnDir

LEMMA CreateDirKeepsDirs ==
    ASSUME Shapes, DirsInv, NEW k \in Slots, CreateDir(k)
    PROVE  DirsInv'
<1> DEFINE m == machine[k]
           n == [m EXCEPT !.next = After[m.next]]
<1>1. m \in Doing /\ k \in Working /\ m.at = "do" /\ m.next = "remote_dir"
  BY Kinds DEF CreateDir, Shapes, Working
<1>2. OnItsWay(k) /\ m.id \in Ids
  BY <1>1 DEF DirsInv, AllOnTheirWay, OnItsWay
<1>3. UNCHANGED <<place, remote, given, hit, orphans, lock, sweep>>
  BY DEF CreateDir, procs, history
<1>4. CASE dirs' = Tagged(m.id, "remote_dir") /\ To(k, n)
  <2>1. n.at = "do" /\ n.id = m.id /\ n.files = m.files /\ n.next = "synced"
    BY <1>1 DEF Doing, After
  <2> HIDE DEF n
  <2>2. machine'[k] = n /\ Working' = Working /\ \A l \in Working \ {k} : machine'[l] = machine[l]
    BY <1>1, <1>4, <2>1, OthersStay, WorkingMoves DEF Working
  <2>3. /\ Ids' = Ids /\ \A i \in Ids \ {m.id} : dirs'[i] = dirs[i]
        /\ dirs'[m.id].err = dirs[m.id].err /\ dirs'[m.id].refs = dirs[m.id].refs
        /\ dirs'[m.id].meant = dirs[m.id].meant
    <3>1. \A i \in Ids \ {m.id} : dirs'[i] = dirs[i]
      BY <1>4 DEF Tagged, Shapes
    <3>2. "remote_dir" \in Stages
      BY DEF Stages
    <3> QED
      BY <1>2, <1>4, <3>1, <3>2, TaggedDirs DEF Ids
  <2>4. Content(m.id)' = Content(m.id)
    BY <1>3, <2>1, <2>2 DEF Content
  <2>5. IsFilled(m) /\ ~IsCopied(m) /\ ~IsCopied(n) /\ ~IsReferenced(n)
    BY <1>1, <2>1 DEF IsFilled, IsCopied, IsReferenced
  <2>6. OnItsWay(k)'
    BY <1>1, <1>2, <1>3, <2>1, <2>2, <2>3, <2>4, <2>5 DEF OnItsWay
  <2>7. dirs'[m.id].refs # {} => AllCopied(m.id, Content(m.id))'
    BY <1>1, <1>2, <2>3, <2>5 DEF OnItsWay
  <2>8. Content(m.id)' \subseteq dirs'[m.id].meant
    BY <1>2, <2>3, <2>4 DEF DirsInv, DirsAreExclusive
  <2> QED
    BY <1>1, <1>3, <2>1, <2>2, <2>3, <2>6, <2>7, <2>8, InOwnDir
<1>5. CASE dirs' = dirs /\ To(k, [m EXCEPT !.at = "fail"])
  BY <1>1, <1>3, <1>5, GivingUp
<1> QED
  BY <1>4, <1>5 DEF CreateDir

LEMMA SyncKeepsDirs ==
    ASSUME Shapes, DirsInv, NEW k \in Slots, Sync(k)
    PROVE  DirsInv'
<1> DEFINE m == machine[k]
           left == {f \in Content(m.id) : <<m.id, f>> \notin remote}
<1>1. m \in Doing /\ k \in Working /\ m.at = "do" /\ m.next = "synced"
  BY Kinds DEF Sync, Shapes, Working
<1>2. OnItsWay(k) /\ m.id \in Ids
  BY <1>1 DEF DirsInv, AllOnTheirWay, OnItsWay
<1>3. UNCHANGED <<place, dirs, given, hit, orphans, lock, sweep>>
  BY DEF Sync, procs, history
<1>4. ASSUME NEW f \in left, remote' = remote \cup {<<m.id, f>>},
             To(k, IF left = {f} THEN [m EXCEPT !.at = "mark"] ELSE m)
      PROVE  DirsInv'
  <2>1. PICK n : /\ To(k, n) /\ n.id = m.id /\ n.files = m.files /\ n.next = "synced"
                 /\ n.at = "do" \/ (n.at = "mark" /\ left = {f})
    <3>1. CASE left = {f}
      <4> DEFINE n == [m EXCEPT !.at = "mark"]
      <4>1. n.at = "mark" /\ n.id = m.id /\ n.files = m.files /\ n.next = "synced"
        BY <1>1 DEF Doing
      <4>2. To(k, n)
        BY <1>4, <3>1
      <4> HIDE DEF n
      <4> QED
        BY <3>1, <4>1, <4>2
    <3>2. CASE left # {f}
      BY <1>1, <1>4, <3>2
    <3> QED
      BY <3>1, <3>2
  <2>2. machine'[k] = n /\ Working' = Working /\ \A l \in Working \ {k} : machine'[l] = machine[l]
    BY <1>1, <2>1, OthersStay, WorkingMoves DEF Working
  <2>3. Ids' = Ids /\ Content(m.id)' = Content(m.id)
    BY <1>3, <2>1, <2>2 DEF Ids, Content
  <2>4. IsFilled(m) /\ ~IsCopied(m) /\ ~IsReferenced(n) /\ (IsCopied(n) => n.at = "mark")
    BY <1>1, <2>1 DEF IsFilled, IsCopied, IsReferenced
  <2>5. Content(m.id) = m.files /\ dirs[m.id].refs = {}
    BY <1>1, <1>2, <2>4 DEF OnItsWay
  <2>6. n.at = "mark" => \A g \in m.files : <<m.id, g>> \in remote'
    BY <1>4, <2>1, <2>5
  <2>7. OnItsWay(k)'
    BY <1>1, <1>2, <1>3, <2>1, <2>2, <2>3, <2>4, <2>5, <2>6 DEF OnItsWay, AllCopied
  <2>8. Content(m.id)' \subseteq dirs'[m.id].meant
    BY <1>2, <1>3, <2>3 DEF DirsInv, DirsAreExclusive
  <2> QED
    BY <1>1, <1>3, <1>4, <2>1, <2>2, <2>3, <2>5, <2>7, <2>8, InOwnDir
<1>5. CASE remote' = remote /\ To(k, [m EXCEPT !.at = "fail"])
  BY <1>1, <1>3, <1>5, GivingUp
<1> QED
  BY <1>4, <1>5 DEF Sync

LEMMA WriteRefsKeepsDirs ==
    ASSUME Shapes, DirsInv, NEW k \in Slots, WriteRefs(k)
    PROVE  DirsInv'
<1> DEFINE m == machine[k]
           n == [m EXCEPT !.at = "mark"]
<1>1. m \in Doing /\ k \in Working /\ m.at = "do" /\ m.next = "refs"
  BY Kinds DEF WriteRefs, Shapes, Working
<1>2. OnItsWay(k) /\ m.id \in Ids
  BY <1>1 DEF DirsInv, AllOnTheirWay, OnItsWay
<1>3. /\ UNCHANGED <<place, remote, given, hit, orphans, lock, sweep>>
      /\ dirs' = Referring(m.id, Content(m.id)) /\ To(k, n)
  BY DEF WriteRefs, procs, history
<1>4. n.at = "mark" /\ n.id = m.id /\ n.files = m.files /\ n.next = "refs"
  BY <1>1 DEF Doing
<1> HIDE DEF n
<1>5. machine'[k] = n /\ Working' = Working /\ \A l \in Working \ {k} : machine'[l] = machine[l]
  BY <1>1, <1>3, <1>4, OthersStay, WorkingMoves DEF Working
<1>6. IsFilled(m) /\ IsCopied(m)
  BY <1>1 DEF IsFilled, IsCopied
<1>7. Content(m.id) = m.files /\ AllCopied(m.id, m.files)
  BY <1>2, <1>6 DEF OnItsWay
<1>8. /\ Ids' = Ids /\ \A i \in Ids \ {m.id} : dirs'[i] = dirs[i]
      /\ dirs'[m.id].err = dirs[m.id].err /\ dirs'[m.id].refs = m.files
      /\ dirs'[m.id].meant = dirs[m.id].meant
  <2>1. Content(m.id) \in SUBSET Files
    BY DEF Content
  <2>2. \A i \in Ids \ {m.id} : dirs'[i] = dirs[i]
    BY <1>3 DEF Referring, Shapes
  <2> QED
    BY <1>2, <1>3, <1>7, <2>1, <2>2, ReferringDirs DEF Ids
<1>9. Content(m.id)' = m.files
  BY <1>3, <1>4, <1>5, <1>7 DEF Content
<1>10. OnItsWay(k)'
  <2>1. IsCopied(n)
    BY <1>4 DEF IsCopied
  <2> QED
    BY <1>1, <1>2, <1>3, <1>4, <1>5, <1>7, <1>8, <1>9, <2>1 DEF OnItsWay, AllCopied
<1>11. AllCopied(m.id, Content(m.id))'
  BY <1>3, <1>4, <1>5, <1>7, <1>9 DEF AllCopied
<1>12. Content(m.id)' \subseteq dirs'[m.id].meant
  BY <1>2, <1>8, <1>9 DEF OnItsWay
<1> QED
  BY <1>1, <1>3, <1>4, <1>5, <1>8, <1>10, <1>11, <1>12, InOwnDir

\* An insertion that ends takes its tag with it; if it was handed out, it is good.
LEMMA EndKeepsDirs ==
    ASSUME Shapes, DirsInv, NEW k \in Working,
           To(k, Idle), dirs' = Tagged(machine[k].id, Absent),
           UNCHANGED <<place, remote, hit, orphans, lock, sweep>>,
           \/ given' = given
           \/ /\ given' = With(given, machine[k].id, machine[k].files)
              /\ machine[k].at = "do" /\ machine[k].next = "complete"
    PROVE  DirsInv'
<1> DEFINE m == machine[k]
<1> PICK id : id = machine[k].id
  OBVIOUS
<1>1. k \in Slots /\ m \in Insertions /\ m # Idle /\ m.files # {}
  BY Kinds DEF Working, Shapes, Idle
<1>2. OnItsWay(k) /\ id \in Ids
  BY <1>1 DEF DirsInv, AllOnTheirWay, OnItsWay
<1>3. Working' = Working \ {k} /\ \A l \in Working \ {k} : machine'[l] = machine[l]
  BY <1>1, OthersStay, WorkingMoves DEF Working, Idle
<1>4. /\ Ids' = Ids /\ \A i \in Ids \ {id} : dirs'[i] = dirs[i]
      /\ dirs'[id].err = dirs[id].err /\ dirs'[id].refs = dirs[id].refs
      /\ dirs'[id].meant = dirs[id].meant /\ dirs'[id].wip = Absent
  <2>1. \A i \in Ids \ {id} : dirs'[i] = dirs[i]
    BY DEF Tagged, Shapes
  <2> QED
    BY <1>2, <2>1, TaggedDirs DEF Ids
<1>5. \A i : Content(i)' = Content(i)
  BY DEF Content
<1>6. \A l \in Working \ {k} : OnItsWay(l) /\ machine[l].id \in Ids \ {id}
  BY DEF DirsInv, AllOnTheirWay, OnItsWay, Apart
<1>7. \A i : (Live(i)' => Live(i)) /\ (Live(i) /\ i # id => Live(i)')
  BY <1>3 DEF Live
<1>8. /\ \A i \in DOMAIN given : i # id /\ given'[i] = given[i]
      /\ DOMAIN given \subseteq DOMAIN given' /\ DOMAIN given' \subseteq DOMAIN given \cup {id}
  BY <1>2 DEF OnItsWay, With
<1>9. AllOnTheirWay'
  <2>1. ASSUME NEW l \in Working \ {k}
        PROVE  OnItsWay(l)'
    <3>1. OnItsWay(l) /\ machine'[l] = machine[l] /\ dirs'[machine[l].id] = dirs[machine[l].id]
      BY <1>3, <1>4, <1>6
    <3>2. machine[l].id \in Ids \ DOMAIN given'
      BY <1>6, <1>8 DEF OnItsWay
    <3> QED
      BY <1>4, <1>5, <3>1, <3>2 DEF OnItsWay, AllCopied
  <2> QED
    BY <1>3, <2>1 DEF AllOnTheirWay
<1>10. Apart'
  BY <1>3 DEF DirsInv, Apart
<1>11. DirsAreExclusive'
  <2>1. \A i \in Ids : dirs'[i].meant = dirs[i].meant
    BY <1>4
  <2> QED
    BY <1>4, <1>5, <2>1 DEF DirsInv, DirsAreExclusive
<1>12. RefsAreCopied'
  <2>1. \A i \in Ids : dirs'[i].refs = dirs[i].refs
    BY <1>4
  <2>2. \A i : AllCopied(i, Content(i))' <=> AllCopied(i, Content(i))
    BY <1>5 DEF AllCopied
  <2> QED
    BY <1>4, <2>1, <2>2 DEF DirsInv, RefsAreCopied
<1>13. HandedOutIsGood'
  <2>1. ASSUME NEW i \in DOMAIN given \ hit
        PROVE  /\ IsComplete(i)'
               /\ Content(i)' = given'[i] /\ dirs'[i].refs = given'[i]
               /\ \A f \in given'[i] : <<i, f>> \in remote'
    <3>1. i \in Ids /\ i # id /\ given'[i] = given[i]
      BY <1>8, <2>1 DEF Shapes
    <3>2. dirs'[i] = dirs[i]
      BY <1>4, <3>1
    <3>3. /\ IsComplete(i)
          /\ Content(i) = given[i] /\ dirs[i].refs = given[i]
          /\ \A f \in given[i] : <<i, f>> \in remote
      BY <2>1 DEF DirsInv, HandedOutIsGood
    <3> QED
      BY <1>5, <3>1, <3>2, <3>3 DEF IsComplete
  <2>2. ASSUME id \in DOMAIN given', id \notin hit
        PROVE  /\ IsComplete(id)'
               /\ Content(id)' = given'[id] /\ dirs'[id].refs = given'[id]
               /\ \A f \in given'[id] : <<id, f>> \in remote'
    <3>1. m.at = "do" /\ m.next = "complete" /\ given'[id] = m.files
      BY <1>8, <2>2 DEF With
    <3>2. IsFilled(m) /\ IsCopied(m) /\ IsReferenced(m)
      BY <3>1 DEF IsFilled, IsCopied, IsReferenced
    <3>3. Content(id) = m.files /\ AllCopied(id, m.files) /\ dirs[id].refs = m.files /\ ~dirs[id].err
      BY <1>2, <2>2, <3>1, <3>2 DEF OnItsWay
    <3>4. dirs'[id].wip = Absent /\ ~dirs'[id].err /\ dirs'[id].refs = m.files
      BY <1>4, <3>3
    <3> QED
      BY <1>1, <1>5, <3>1, <3>3, <3>4 DEF IsComplete, AllCopied
  <2> QED
    BY <1>8, <2>1, <2>2 DEF HandedOutIsGood
<1>14. SweepIsRight'
  <2>1. Live(id)
    BY DEF Live
  <2> QED
    BY <1>4, <1>7, <1>8, <2>1 DEF DirsInv, SweepIsRight
<1>15. SweptOrLive'
  <2>1. ASSUME NEW i \in Ids \ (orphans \cup hit), lock # Nobody, dirs'[i].wip # Absent
        PROVE  Live(i)' \/ i \in sweep.todo \/ (sweep.step # "next" /\ i = sweep.id)
    BY <1>4, <1>7, <2>1 DEF DirsInv, SweptOrLive
  <2> QED
    BY <1>4, <2>1 DEF SweptOrLive
<1> QED
  BY <1>9, <1>10, <1>11, <1>12, <1>13, <1>14, <1>15 DEF DirsInv

LEMMA CompleteKeepsDirs ==
    ASSUME Shapes, DirsInv, NEW k \in Slots, Complete(k)
    PROVE  DirsInv'
<1>1. k \in Working
  BY DEF Complete, Working
<1>2. UNCHANGED <<place, remote, hit, orphans, lock, sweep>>
  BY DEF Complete, procs
<1>3. CASE dirs[machine[k].id].wip = Absent
  BY <1>1, <1>2, <1>3, GivingUp DEF Complete
<1>4. CASE dirs[machine[k].id].wip # Absent
  BY <1>1, <1>2, <1>4, EndKeepsDirs DEF Complete
<1> QED
  BY <1>3, <1>4

LEMMA FailKeepsDirs ==
    ASSUME Shapes, DirsInv, NEW k \in Slots, Fail(k)
    PROVE  DirsInv'
<1> DEFINE m == machine[k]
           n == [m EXCEPT !.at = "untag"]
<1>1. m \in Failing /\ k \in Working
  BY Kinds DEF Fail, Shapes, Working
<1>2. OnItsWay(k) /\ m.id \in Ids
  BY <1>1 DEF DirsInv, AllOnTheirWay, OnItsWay
<1>3. UNCHANGED <<place, remote, given, hit, orphans, lock, sweep>>
  BY DEF Fail, procs, history
<1>4. CASE dirs' = Condemned(m.id) /\ To(k, n)
  <2>1. n.at = "untag" /\ n.id = m.id /\ n.files = m.files
    BY <1>1 DEF Failing
  <2> HIDE DEF n
  <2>2. machine'[k] = n /\ Working' = Working /\ \A l \in Working \ {k} : machine'[l] = machine[l]
    BY <1>1, <1>4, <2>1, OthersStay, WorkingMoves DEF Working
  <2>3. /\ Ids' = Ids /\ \A i \in Ids \ {m.id} : dirs'[i] = dirs[i]
        /\ dirs'[m.id].refs = dirs[m.id].refs
        /\ dirs'[m.id].meant = dirs[m.id].meant
    <3>1. \A i \in Ids \ {m.id} : dirs'[i] = dirs[i]
      BY <1>4 DEF Condemned, Shapes
    <3> QED
      BY <1>2, <1>4, <3>1, CondemnedDirs DEF Ids
  <2>4. Content(m.id)' = Content(m.id)
    BY <1>3, <2>1, <2>2 DEF Content
  <2>5. ~IsFilled(n) /\ ~IsCopied(n) /\ ~IsReferenced(n)
    BY <2>1 DEF IsFilled, IsCopied, IsReferenced
  <2>6. OnItsWay(k)'
    BY <1>2, <1>3, <2>1, <2>2, <2>3, <2>4, <2>5 DEF OnItsWay
  <2>7. dirs'[m.id].refs # {} => AllCopied(m.id, Content(m.id))'
    BY <1>2, <1>3, <2>1, <2>2, <2>3, <2>4 DEF DirsInv, RefsAreCopied, AllCopied
  <2>8. Content(m.id)' \subseteq dirs'[m.id].meant
    BY <1>2, <2>3, <2>4 DEF DirsInv, DirsAreExclusive
  <2> QED
    BY <1>1, <1>3, <2>1, <2>2, <2>3, <2>6, <2>7, <2>8, InOwnDir
<1>5. CASE dirs' = Tagged(m.id, Absent) /\ To(k, Idle)
  BY <1>1, <1>3, <1>5, EndKeepsDirs
<1> QED
  BY <1>4, <1>5 DEF Fail

\* A death takes insertions away; what they had in hand stays as it is.  The
\* directory that a direct one leaves is an orphan, and the lock is free if the
\* service that held it has died.
LEMMA DeathKeepsDirs ==
    ASSUME Shapes, DirsInv,
           \/ DirectDies
           \/ \E s \in Services : Dies(s)
    PROVE  DirsInv'
<1>1. /\ UNCHANGED <<place, dirs, remote, given, hit>>
      /\ orphans \subseteq orphans'
      /\ sweep' = sweep \/ sweep' = NoSweep
  BY DEF DirectDies, Dies, fs, procs, history
<1>2. /\ Working' \subseteq Working
      /\ \A l \in Working' : machine'[l] = machine[l]
      /\ lock' # Nobody =>
             /\ lock' = lock /\ sweep' = sweep
             /\ \A l \in Working \ Working' : machine[l].id \in orphans'
  <2>1. CASE DirectDies
    <3>1. machine' = [machine EXCEPT !["direct"] = Idle] /\ lock' = lock /\ sweep' = sweep
      BY <2>1 DEF DirectDies, To, procs
    <3>2. /\ Working' = Working \ {"direct"}
          /\ \A l \in Working' : machine'[l] = machine[l]
      BY <3>1 DEF Working, Idle, Shapes
    <3> QED
      BY <2>1, <3>1, <3>2 DEF DirectDies
  <2>2. ASSUME NEW s \in Services, Dies(s)
        PROVE  /\ Working' \subseteq Working
               /\ \A l \in Working' : machine'[l] = machine[l]
               /\ lock' # Nobody => lock' = lock /\ sweep' = sweep /\ Working' = Working
    <3>1. CASE lock = s
      <4>1. lock' = Nobody /\ machine' = [k \in Slots |-> IF k = "direct" THEN machine[k] ELSE Idle]
        BY <2>2, <3>1 DEF Dies
      <4> QED
        BY <4>1 DEF Working, Idle
    <3>2. CASE lock # s
      BY <2>2, <3>2 DEF Dies, Working
    <3> QED
      BY <3>1, <3>2
  <2> QED
    BY <2>1, <2>2
<1>3. Ids' = Ids /\ \A i : Content(i)' = Content(i)
  BY <1>1 DEF Ids, Content
<1>4. \A i : Live(i)' => Live(i)
  BY <1>2 DEF Live
<1>5. AllOnTheirWay'
  <2>1. ASSUME NEW l \in Working'
        PROVE  OnItsWay(l)'
    <3>1. OnItsWay(l) /\ machine'[l] = machine[l]
      BY <1>2 DEF DirsInv, AllOnTheirWay
    <3> QED
      BY <1>1, <1>3, <3>1 DEF OnItsWay, AllCopied
  <2> QED
    BY <2>1 DEF AllOnTheirWay
<1>6. Apart'
  BY <1>2 DEF DirsInv, Apart
<1>7. DirsAreExclusive' /\ RefsAreCopied'
  BY <1>1, <1>3 DEF DirsInv, DirsAreExclusive, RefsAreCopied, AllCopied
<1>8. HandedOutIsGood'
  BY <1>1, <1>3 DEF DirsInv, HandedOutIsGood, IsComplete
<1>9. SweepIsRight'
  BY <1>1, <1>3, <1>4 DEF DirsInv, SweepIsRight, NoSweep
<1>10. SweptOrLive'
  <2>1. ASSUME NEW i \in Ids \ (orphans' \cup hit), lock' # Nobody, dirs[i].wip # Absent
        PROVE  Live(i)' \/ i \in sweep.todo \/ (sweep.step # "next" /\ i = sweep.id)
    <3>1. Live(i) => Live(i)'
      BY <1>2, <2>1 DEF Live
    <3> QED
      BY <1>1, <1>2, <2>1, <3>1 DEF DirsInv, SweptOrLive
  <2> QED
    BY <1>1, <1>2, <1>3, <2>1 DEF SweptOrLive
<1> QED
  BY <1>5, <1>6, <1>7, <1>8, <1>9, <1>10 DEF DirsInv

\* What the sweep does to a directory concerns no insertion that it knows of,
\* and nothing that was handed out.
LEMMA SweepSpares ==
    ASSUME Shapes, DirsInv, sweep.step # "next",
           UNCHANGED <<place, remote, given, hit, orphans, machine>>,
           Ids' = Ids,
           \A i \in Ids : /\ i # sweep.id => dirs'[i] = dirs[i]
                          /\ dirs'[i].refs = dirs[i].refs /\ dirs'[i].meant = dirs[i].meant
    PROVE  /\ AllOnTheirWay' /\ Apart'
           /\ DirsAreExclusive' /\ RefsAreCopied' /\ HandedOutIsGood'
           /\ \A i : Live(i)' = Live(i)
<1>1. /\ sweep.id \in Ids
      /\ sweep.id \in hit \/ (~Live(sweep.id) /\ sweep.id \notin DOMAIN given)
  BY DEF DirsInv, SweepIsRight
<1>2. Working' = Working /\ \A i : Content(i)' = Content(i) /\ Live(i)' = Live(i)
  BY DEF Working, Content, Live
<1>3. AllOnTheirWay'
  <2>1. ASSUME NEW l \in Working
        PROVE  OnItsWay(l)'
    <3>1. OnItsWay(l) /\ machine'[l] = machine[l] /\ machine[l].id \in Ids
      BY DEF DirsInv, AllOnTheirWay, OnItsWay
    <3>2. machine[l].id \in hit \/ dirs'[machine[l].id] = dirs[machine[l].id]
      BY <1>1, <3>1 DEF Live
    <3>3. /\ dirs'[machine[l].id].refs = dirs[machine[l].id].refs
          /\ dirs'[machine[l].id].meant = dirs[machine[l].id].meant
      BY <3>1
    <3> QED
      BY <1>2, <3>1, <3>2, <3>3 DEF OnItsWay, AllCopied
  <2> QED
    BY <1>2, <2>1 DEF AllOnTheirWay
<1>4. Apart'
  BY <1>2 DEF DirsInv, Apart
<1>5. DirsAreExclusive' /\ RefsAreCopied'
  BY <1>2 DEF DirsInv, DirsAreExclusive, RefsAreCopied, AllCopied
<1>6. HandedOutIsGood'
  <2>1. \A i \in DOMAIN given \ hit : i \in Ids /\ i # sweep.id
    BY <1>1 DEF Shapes
  <2>2. \A i \in DOMAIN given \ hit : dirs'[i] = dirs[i]
    BY <2>1
  <2> QED
    BY <1>2, <2>2 DEF DirsInv, HandedOutIsGood, IsComplete
<1> QED
  BY <1>2, <1>3, <1>4, <1>5, <1>6

LEMMA SweepKeepsDirs ==
    ASSUME Shapes, OneHolder, DirsInv, SweepNext \/ SweepCondemn \/ SweepUntag
    PROVE  DirsInv'
<1>1. CASE SweepNext
  <2> DEFINE id == Min(sweep.todo)
  <2>1. id \in sweep.todo /\ id \in 1..MaxId
    BY <1>1, SweepTakes DEF SweepNext
  <2>2. /\ UNCHANGED <<place, dirs, remote, given, orphans, machine, lock>>
        /\ hit \subseteq hit' /\ hit' \subseteq hit \cup {id}
        /\ \/ /\ id \notin Ids \/ dirs[id].wip = Absent
              /\ sweep' = [sweep EXCEPT !.todo = sweep.todo \ {id}] /\ hit' = hit
           \/ /\ id \in Ids /\ dirs[id].wip # Absent
              /\ \E s \in {"untag", "condemn"} :
                     sweep' = [todo |-> sweep.todo \ {id}, id |-> id, step |-> s]
              /\ Live(id) => id \in hit'
    BY <1>1 DEF SweepNext, fs, Touched
  <2> HIDE DEF id
  <2>3. /\ Working' = Working /\ Ids' = Ids
        /\ \A i : Content(i)' = Content(i) /\ Live(i)' = Live(i)
    BY <2>2 DEF Working, Ids, Content, Live
  <2>4. AllOnTheirWay'
    <3>1. ASSUME NEW l \in Working
          PROVE  OnItsWay(l)'
      <4>1. OnItsWay(l)
        BY DEF DirsInv, AllOnTheirWay
      <4> QED
        BY <2>2, <2>3, <4>1 DEF OnItsWay, AllCopied
    <3> QED
      BY <2>3, <3>1 DEF AllOnTheirWay
  <2>5. Apart' /\ DirsAreExclusive' /\ RefsAreCopied'
    BY <2>2, <2>3 DEF DirsInv, Apart, DirsAreExclusive, RefsAreCopied, AllCopied
  <2>6. HandedOutIsGood'
    BY <2>2, <2>3 DEF DirsInv, HandedOutIsGood, IsComplete
  <2>7. sweep'.todo = sweep.todo \ {id} /\ sweep.step = "next"
    BY <1>1, <2>2 DEF Shapes, SweepNext
  <2>8. \/ sweep'.step = "next" /\ (id \in Ids => dirs[id].wip = Absent)
        \/ /\ sweep'.step # "next" /\ sweep'.id = id /\ id \in Ids
           /\ dirs[id].wip # Absent /\ (Live(id) => id \in hit')
    BY <2>2, <2>7 DEF Shapes
  <2>9. SweepIsRight'
    <3>1. id \in DOMAIN given \ hit => dirs[id].wip = Absent
      BY DEF DirsInv, HandedOutIsGood, IsComplete
    <3> QED
      BY <2>2, <2>3, <2>8, <3>1 DEF SweepIsRight
  <2>10. SweptOrLive'
    BY <2>2, <2>3, <2>7, <2>8 DEF DirsInv, SweptOrLive
  <2> QED
    BY <2>4, <2>5, <2>6, <2>9, <2>10 DEF DirsInv
<1>2. CASE SweepCondemn
  <2>1. /\ sweep.step = "condemn" /\ sweep' = [sweep EXCEPT !.step = "untag"]
        /\ dirs' = Condemned(sweep.id)
        /\ UNCHANGED <<place, remote, given, hit, orphans, machine, lock>>
    BY <1>2 DEF SweepCondemn, history
  <2>2. sweep'.step = "untag" /\ sweep'.id = sweep.id /\ sweep'.todo = sweep.todo
    BY <2>1 DEF Shapes
  <2>3. /\ Ids' = Ids
        /\ \A i \in Ids : /\ i # sweep.id => dirs'[i] = dirs[i]
                          /\ dirs'[i].refs = dirs[i].refs /\ dirs'[i].meant = dirs[i].meant
                          /\ dirs'[i].wip = dirs[i].wip
    <3>1. \A i \in Ids \ {sweep.id} : dirs'[i] = dirs[i]
      BY <2>1 DEF Condemned, Shapes
    <3> QED
      BY <2>1, <3>1, CondemnedDirs DEF Ids
  <2>4. /\ AllOnTheirWay' /\ Apart'
        /\ DirsAreExclusive' /\ RefsAreCopied' /\ HandedOutIsGood'
        /\ \A i : Live(i)' = Live(i)
    BY <2>1, <2>3, SweepSpares
  <2>5. SweepIsRight'
    BY <2>1, <2>2, <2>3, <2>4 DEF DirsInv, SweepIsRight
  <2>6. SweptOrLive'
    BY <2>1, <2>2, <2>3, <2>4 DEF DirsInv, SweptOrLive
  <2> QED
    BY <2>4, <2>5, <2>6 DEF DirsInv
<1>3. CASE SweepUntag
  <2>1. /\ sweep.step = "untag" /\ dirs' = Tagged(sweep.id, Absent)
        /\ UNCHANGED <<place, remote, given, hit, orphans, machine>>
        /\ \/ lock' = Nobody /\ sweep' = NoSweep
           \/ lock' = lock /\ sweep' = [sweep EXCEPT !.step = "next", !.id = 0]
    BY <1>3 DEF SweepUntag, history
  <2>2. /\ Ids' = Ids
        /\ \A i \in Ids : /\ i # sweep.id => dirs'[i] = dirs[i]
                          /\ dirs'[i].refs = dirs[i].refs /\ dirs'[i].meant = dirs[i].meant
                          /\ i = sweep.id => dirs'[i].wip = Absent
    <3>1. \A i \in Ids \ {sweep.id} : dirs'[i] = dirs[i]
      BY <2>1 DEF Tagged, Shapes
    <3> QED
      BY <2>1, <3>1, TaggedDirs DEF Ids
  <2>3. /\ AllOnTheirWay' /\ Apart'
        /\ DirsAreExclusive' /\ RefsAreCopied' /\ HandedOutIsGood'
        /\ \A i : Live(i)' = Live(i)
    BY <2>1, <2>2, SweepSpares
  <2>4. sweep'.step = "next" /\ (lock' # Nobody => lock' = lock /\ sweep'.todo = sweep.todo)
    <3>1. NoSweep.step = "next"
      BY DEF NoSweep
    <3>2. /\ [sweep EXCEPT !.step = "next", !.id = 0].step = "next"
          /\ [sweep EXCEPT !.step = "next", !.id = 0].todo = sweep.todo
      BY DEF Shapes
    <3> QED
      BY <2>1, <3>1, <3>2
  <2>5. SweepIsRight'
    BY <2>4 DEF SweepIsRight
  <2>6. SweptOrLive'
    BY <2>1, <2>2, <2>3, <2>4 DEF DirsInv, SweptOrLive
  <2> QED
    BY <2>3, <2>5, <2>6 DEF DirsInv
<1> QED
  BY <1>1, <1>2, <1>3

\* A service that starts looks at every directory; one that serves is through.
LEMMA ServiceKeepsDirs ==
    ASSUME Shapes, OneHolder, DirsInv, NEW s \in Services,
           Construct(s) \/ Acquire(s) \/ Serve
    PROVE  DirsInv'
<1>1. /\ UNCHANGED <<place, dirs, remote, given, hit, orphans, machine>>
      /\ Working' = Working
  BY DEF Construct, Acquire, Serve, fs, history, Working
<1>2. CASE Construct(s)
  BY <1>1, <1>2, Quiet DEF Construct
<1>3. CASE Acquire(s) \/ Serve
  <2>1. sweep'.step = "next" /\ ((lock' = lock /\ sweep.todo = {} /\ sweep.step = "next") \/ sweep'.todo = Ids)
    BY <1>3 DEF Acquire, Serve, NoSweep
  <2>2. Ids' = Ids /\ \A i : Content(i)' = Content(i) /\ Live(i)' = Live(i)
    BY <1>1 DEF Ids, Content, Live
  <2>3. AllOnTheirWay'
    <3>1. ASSUME NEW l \in Working
          PROVE  OnItsWay(l)'
      <4>1. OnItsWay(l)
        BY DEF DirsInv, AllOnTheirWay
      <4> QED
        BY <1>1, <2>2, <4>1 DEF OnItsWay, AllCopied
    <3> QED
      BY <1>1, <3>1 DEF AllOnTheirWay
  <2>4. Apart' /\ DirsAreExclusive' /\ RefsAreCopied' /\ HandedOutIsGood'
    BY <1>1, <2>2 DEF DirsInv, Apart, DirsAreExclusive, RefsAreCopied, AllCopied,
                      HandedOutIsGood, IsComplete
  <2>5. SweepIsRight'
    BY <2>1 DEF SweepIsRight
  <2>6. SweptOrLive'
    BY <1>1, <2>1, <2>2 DEF DirsInv, SweptOrLive
  <2> QED
    BY <2>3, <2>4, <2>5, <2>6 DEF DirsInv
<1> QED
  BY <1>2, <1>3

\* An insertion that begins has no directory yet.
LEMMA BeginKeepsDirs ==
    ASSUME Shapes, DirsInv, NEW k \in Slots, NEW files \in SUBSET Files, Begin(k, files)
    PROVE  DirsInv'
<1> DEFINE m == [at |-> "allocate", files |-> files, id |-> 0, next |-> "init"]
<1>1. To(k, m) /\ k \notin Working
  BY DEF Begin, Working, Idle
<1>2. Working' = Working
  BY <1>1, WorkingMoves
<1>3. \A l \in Working : machine'[l] = machine[l]
  BY <1>1, OthersStay DEF Working
<1>4. UNCHANGED <<place, dirs, remote, given, hit, orphans, lock, sweep>>
  BY DEF Begin, fs, history
<1> QED
  BY <1>2, <1>3, <1>4, Quiet

\* What is deleted was handed out, and nobody works on it.
LEMMA DeleteKeepsDirs ==
    ASSUME Shapes, DirsInv, NEW id \in Ids, DeleteDir(id)
    PROVE  DirsInv'
<1>1. /\ ~Live(id) /\ sweep = NoSweep
      /\ UNCHANGED <<remote, machine, lock, sweep, hit, orphans>>
      /\ place' = [f \in Files |-> IF place[f] = id THEN Deleted ELSE place[f]]
  BY DEF DeleteDir, procs
<1>2. Ids' = Ids \ {id} /\ \A i \in Ids' : dirs'[i] = dirs[i]
  BY DEF DeleteDir, Restrict, Ids
<1>3. DOMAIN given' = DOMAIN given \ {id} /\ \A i \in DOMAIN given' : given'[i] = given[i]
  BY DEF DeleteDir, Restrict
<1>4. \A i \in Ids \ {id} : Content(i)' = Content(i)
  <2>1. Ids \subseteq Nat \ {0} /\ Deleted \notin Ids
    BY BoundAssumption DEF Shapes, Deleted
  <2> QED
    BY <1>1, <2>1 DEF Content
<1>5. Working' = Working /\ \A i : Live(i)' = Live(i)
  BY <1>1 DEF Working, Live
<1>6. AllOnTheirWay'
  <2>1. ASSUME NEW l \in Working
        PROVE  OnItsWay(l)'
    <3>1. OnItsWay(l) /\ machine'[l] = machine[l] /\ machine[l].id \in Ids \ {id}
      BY <1>1 DEF DirsInv, AllOnTheirWay, OnItsWay, Live
    <3> QED
      BY <1>1, <1>2, <1>3, <1>4, <3>1 DEF OnItsWay, AllCopied
  <2> QED
    BY <1>5, <2>1 DEF AllOnTheirWay
<1>7. Apart'
  BY <1>1, <1>5 DEF DirsInv, Apart
<1>8. DirsAreExclusive' /\ RefsAreCopied'
  BY <1>1, <1>2, <1>4 DEF DirsInv, DirsAreExclusive, RefsAreCopied, AllCopied
<1>9. HandedOutIsGood'
  <2>1. \A i \in DOMAIN given' : i \in Ids \ {id}
    BY <1>3 DEF Shapes
  <2> QED
    BY <1>1, <1>2, <1>3, <1>4, <2>1 DEF DirsInv, HandedOutIsGood, IsComplete
<1>10. SweepIsRight' /\ SweptOrLive'
  BY <1>1, <1>2, <1>5 DEF DirsInv, SweepIsRight, SweptOrLive, NoSweep
<1> QED
  BY <1>6, <1>7, <1>8, <1>9, <1>10 DEF DirsInv

-----------------------------------------------------------------------------
(* What follows for every behaviour.                                         *)
LEMMA InitEstablishes ==
    ASSUME Init
    PROVE  StoreInv
<1>1. Ids = {} /\ DOMAIN given = {} /\ MaxId \in Nat
  BY BoundAssumption DEF Init, Ids
<1>2. Working = {} /\ ~Serving
  BY DEF Init, Working, Idle, Serving
<1>3. Shapes
  <2>1. dirs \in [Ids -> Markers] /\ given \in [DOMAIN given -> SUBSET Files]
    BY <1>1 DEF Init
  <2>2. place \in [Files -> {Inbox, Desk, Deleted} \cup Ids] /\ counter \in 0..MaxId
    BY <1>1 DEF Init
  <2>3. NoSweep \in [todo : SUBSET (1..MaxId), id : 0..MaxId, step : {"next", "condemn", "untag"}]
    BY <1>1 DEF NoSweep
  <2> QED
    BY <1>1, <2>1, <2>2, <2>3 DEF Init, Shapes
<1>4. OneHolder
  BY <1>2 DEF Init, OneHolder
<1>5. AllOnTheirWay /\ Apart /\ DirsAreExclusive /\ RefsAreCopied /\ HandedOutIsGood
  BY <1>1, <1>2 DEF AllOnTheirWay, Apart, DirsAreExclusive, RefsAreCopied, HandedOutIsGood
<1>6. SweepIsRight /\ SweptOrLive
  BY <1>1 DEF Init, SweepIsRight, SweptOrLive, NoSweep
<1> QED
  BY <1>3, <1>4, <1>5, <1>6 DEF StoreInv

LEMMA StepKeeps ==
    ASSUME StoreInv, [Next]_vars
    PROVE  StoreInv'
<1>1. Shapes /\ OneHolder /\ DirsInv /\ AllOnTheirWay /\ SweepIsRight
  BY DEF StoreInv, DirsInv
<1>2. CASE Next
  <2>1. OneHolder'
    BY <1>1, <1>2, HolderKept
  <2>2. ASSUME NEW k \in Slots, MachineStep(k)
        PROVE  Shapes' /\ DirsInv'
    <3>1. DirsInv'
      BY <1>1, <2>2, AllocateKeepsDirs, MkdirKeepsDirs, MarkKeepsDirs, MoveKeepsDirs,
         CreateDirKeepsDirs, SyncKeepsDirs, WriteRefsKeepsDirs, CompleteKeepsDirs, FailKeepsDirs
         DEF MachineStep
    <3> QED
      BY <1>1, <2>2, <3>1, MachineKeepsShapes
  <2>3. ASSUME NEW k \in Slots, NEW files \in SUBSET Files, Begin(k, files)
        PROVE  Shapes' /\ DirsInv'
    BY <1>1, <2>3, BeginKeepsShapes, BeginKeepsDirs
  <2>4. ASSUME NEW s \in Services, Construct(s) \/ Acquire(s) \/ Dies(s)
        PROVE  Shapes' /\ DirsInv'
    BY <1>1, <2>4, ServiceKeepsShapes, ServiceKeepsDirs, DeathKeepsDirs
  <2>5. ASSUME SweepNext \/ SweepCondemn \/ SweepUntag
        PROVE  Shapes' /\ DirsInv'
    BY <1>1, <2>5, ServiceKeepsShapes, SweepKeepsDirs
  <2>6. ASSUME Serve
        PROVE  Shapes' /\ DirsInv'
    <3>1. lock \in Services
      BY <1>1, <2>6 DEF Serve, Shapes
    <3> QED
      BY <1>1, <2>6, <3>1, ServiceKeepsShapes, ServiceKeepsDirs
  <2>7. ASSUME DirectDies
        PROVE  Shapes' /\ DirsInv'
    BY <1>1, <2>7, RestKeepsShapes, DeathKeepsDirs
  <2>8. ASSUME NEW id \in Ids, DeleteDir(id)
        PROVE  Shapes' /\ DirsInv'
    BY <1>1, <2>8, RestKeepsShapes, DeleteKeepsDirs
  <2>9. ASSUME UNCHANGED <<fs, procs, machine, history, bounds>>
        PROVE  Shapes' /\ DirsInv'
    <3>1. /\ UNCHANGED <<place, dirs, remote, given, hit, orphans, lock, sweep, machine>>
          /\ Working' = Working
      BY <2>9 DEF fs, procs, history, Working
    <3> QED
      BY <1>1, <2>9, <3>1, RestKeepsShapes, Quiet
  <2>10. Shapes' /\ DirsInv'
    BY <1>2, <2>2, <2>3, <2>4, <2>5, <2>6, <2>7, <2>8, <2>9, StepCases
  <2> QED
    BY <2>1, <2>10 DEF StoreInv, DirsInv
<1>3. CASE UNCHANGED vars
  <2>1. UNCHANGED <<fs, procs, machine, history, bounds>>
    BY <1>3 DEF vars
  <2>2. /\ UNCHANGED <<place, dirs, remote, given, hit, orphans, service, lock, sweep, machine>>
        /\ Working' = Working
    BY <2>1 DEF fs, procs, history, Working
  <2>3. Shapes' /\ DirsInv'
    BY <1>1, <2>1, <2>2, RestKeepsShapes, Quiet
  <2>4. OneHolder'
    BY <1>1, <2>2 DEF OneHolder, Serving
  <2> QED
    BY <2>3, <2>4 DEF StoreInv, DirsInv
<1> QED
  BY <1>2, <1>3

LEMMA StoreInvHolds == Spec => []StoreInv
<1>1. Init => StoreInv
  BY InitEstablishes
<1>2. StoreInv /\ [Next]_vars => StoreInv'
  BY StepKeeps
<1> QED
  BY <1>1, <1>2, PTL DEF Spec

\* The places of files, the markers, the numbers and the states of the services
\* are those that the code knows; at most one service has the lock.
THEOREM StoreTypeCorrect == Spec => []TypeOK
<1>1. StoreInv => TypeOK
  <2> SUFFICES ASSUME StoreInv
               PROVE  TypeOK
    OBVIOUS
  <2>1. Shapes /\ OneHolder /\ AllOnTheirWay
    BY DEF StoreInv
  <2>2. \A k \in Working : machine[k].id \in Ids
    BY <2>1 DEF AllOnTheirWay, OnItsWay
  <2>3. \A i \in Ids : dirs[i].wip \in Stages \cup {Absent} /\ dirs[i].err \in BOOLEAN
    BY <2>1 DEF Shapes, Markers
  <2>4. \A f \in Files : place[f] \in {Inbox, Desk, Deleted} \cup Ids
    BY <2>1 DEF Shapes
  <2>5. Ids \subseteq 1..MaxId /\ counter \in 0..MaxId /\ \A p \in DOMAIN last : last[p] \in 0..MaxId
    BY <2>1 DEF Shapes
  <2> QED
    BY <2>1, <2>2, <2>3, <2>4, <2>5 DEF TypeOK, OneHolder
<1> QED
  BY <1>1, StoreInvHolds, PTL

\* Of an insertion that handed its number out, the directory is complete, holds
\* the files of the insertion and no other, and remote storage has each of them:
\* through every interleaving of insertions, services and deaths, as long as no
\* sweep took it for a dead one (Insert, SweepInterrupted).
THEOREM HandedOutStaysGood == Spec => []HandedOutIsGood
<1>1. StoreInv => HandedOutIsGood
  BY DEF StoreInv
<1> QED
  BY <1>1, StoreInvHolds, PTL

\* No two insertions ever put files into one directory, however old the counters
\* are that their processes go on (allocateID and the Mkdir after it).
THEOREM InsertionsNeverShare == Spec => []DirsAreExclusive
<1>1. StoreInv => DirsAreExclusive
  BY DEF StoreInv
<1> QED
  BY <1>1, StoreInvHolds, PTL

\* Once a service serves, a directory that is tagged as in progress is in progress,
\* but for those of direct processes (SweepInterrupted before the first request).
THEOREM TagsAreLive == Spec => []WipHasMachine
<1>1. StoreInv => WipHasMachine
  <2> SUFFICES ASSUME StoreInv, Serving,
                      NEW i \in Ids \ (orphans \cup hit), dirs[i].wip # Absent
               PROVE  Live(i)
    BY DEF WipHasMachine
  <2>1. sweep = NoSweep /\ lock # Nobody
    BY DEF StoreInv, OneHolder, Serving
  <2> QED
    BY <2>1 DEF StoreInv, SweptOrLive, NoSweep
<1> QED
  BY <1>1, StoreInvHolds, PTL

\* What Status calls complete was copied file by file, however its three reads
\* fall between the steps of insertions and of the sweep (Store.Status).
THEOREM StatusTellsTheTruth == Spec => StatusIsSound
<1>1. StoreInv /\ [Next]_vars
         => [SaysComplete => \A f \in Content(reader.id) : <<reader.id, f>> \in remote]_vars
  <2> SUFFICES ASSUME StoreInv, SaysComplete
               PROVE  \A f \in Content(reader.id) : <<reader.id, f>> \in remote
    OBVIOUS
  <2> QED
    BY DEF StoreInv, SaysComplete, RefsAreCopied, AllCopied
<1> QED
  BY <1>1, StoreInvHolds, PTL DEF Spec, StatusIsSound
=============================================================================
