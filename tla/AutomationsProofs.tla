------------------------- MODULE AutomationsProofs -------------------------
(* What the automations service keeps for every number of automations,       *)
(* fires, runs, deaths and returns of Run.  Where rows are concerned, the    *)
(* root must have one process, since two of them sweep each other's runs.    *)
EXTENDS Automations, SequenceTheorems, TLAPS

\* One process has the root.
OneProcess == \A p, q \in Processes : p = q

-----------------------------------------------------------------------------
(* Tables and queues.                                                        *)

\* The bounds are numbers.
LEMMA Bounds ==
    /\ QueueCap \in Nat /\ RetryEvery \in Nat /\ MaxTime \in Nat /\ MaxPeriod \in Nat
    /\ MaxRuns \in Nat /\ MaxCrashes \in Nat /\ MaxReturns \in Nat
BY BoundsAreNaturals

\* A function on the places of a sequence is a sequence as long.
LEMMA SameLength ==
    ASSUME NEW S, NEW n \in Nat, NEW t \in [1..n -> S]
    PROVE  t \in Seq(S) /\ Len(t) = n
<1>1. t \in Seq(S)
  BY SeqDef
<1>2. Len(t) \in Nat /\ 1..Len(t) = 1..n
  BY <1>1, LenProperties
<1>3. Len(t) = n
  <2>1. CASE Len(t) < n
    BY <1>2, <2>1, 1..Len(t) = 1..n
  <2>2. CASE n < Len(t)
    BY <1>2, <2>2, Len(t) \in 1..Len(t) /\ Len(t) \notin 1..n
  <2> QED
    BY <1>2, <2>1, <2>2
<1> QED
  BY <1>1, <1>3

\* An increasing sequence of numbers up to n stays increasing with n + 1 at its end.
LEMMA AppendInOrder ==
    ASSUME NEW T, T \subseteq Nat, NEW s \in Seq(T), NEW n \in Nat, n + 1 \in T,
           \A i \in 1..Len(s) : s[i] \in 1..n,
           \A i, j \in 1..Len(s) : i < j => s[i] < s[j]
    PROVE  LET t == Append(s, n + 1)
           IN  /\ \A i \in 1..Len(t) : t[i] \in 1..(n + 1)
               /\ \A i, j \in 1..Len(t) : i < j => t[i] < t[j]
               /\ \A i \in 1..Len(t) : t[i] = n + 1 \/ \E j \in 1..Len(s) : t[i] = s[j]
<1> DEFINE t == Append(s, n + 1)
           m == Len(s)
<1>1. m \in Nat
  BY LenProperties
<1>2. Len(t) = m + 1 /\ \A i \in 1..m : t[i] = s[i]
  BY AppendProperties
<1>3. t[m + 1] = n + 1
  BY AppendProperties
<1>4. \A i \in 1..Len(t) : i \in 1..m \/ i = m + 1
  BY <1>1, <1>2
<1> HIDE DEF t, m
<1>5. \A i \in 1..m : s[i] \in 1..n
  BY DEF m
<1>6. \A i, j \in 1..m : i < j => s[i] < s[j]
  BY DEF m
<1>7. \A i \in 1..Len(t) : t[i] \in 1..(n + 1)
  BY <1>2, <1>3, <1>4, <1>5
<1>8. ASSUME NEW i \in 1..Len(t), NEW j \in 1..Len(t), i < j PROVE t[i] < t[j]
  <2>1. i \in 1..m
    BY <1>1, <1>2, <1>4, <1>8
  <2>2. CASE j \in 1..m
    BY <1>2, <1>6, <1>8, <2>1, <2>2
  <2>3. CASE j = m + 1
    BY <1>2, <1>3, <1>5, <2>1, <2>3
  <2> QED
    BY <1>4, <2>2, <2>3
<1>9. \A i \in 1..Len(t) : t[i] = n + 1 \/ \E j \in 1..m : t[i] = s[j]
  BY <1>2, <1>3, <1>4
<1> QED
  BY <1>7, <1>8, <1>9 DEF t, m

\* What enqueue does: a row at the end of the table, and a place in the queue unless it is
\* full, in which case the row says so.
LEMMA EnqueueEffect ==
    ASSUME TypeOK, NEW p \in Processes, NEW a \in Automations, NEW w \in Windows \cup {0},
           Enqueue(p, a, w)
    PROVE  /\ runs' \in Seq(RunRow) /\ Len(runs') = Len(runs) + 1 /\ Len(runs') <= MaxRuns
           /\ Len(runs) \in Nat
           /\ \A r \in 1..Len(runs) : runs'[r] = runs[r]
           /\ queue' \in [Processes -> Seq(RunIds)] /\ pending' \in [Processes -> SUBSET Automations]
           /\ \A q \in Processes : q # p => queue'[q] = queue[q] /\ pending'[q] = pending[q]
           /\ \/ /\ runs'[Len(runs) + 1] = Row(a, w, "queued")
                 /\ queue'[p] = Append(queue[p], Len(runs) + 1)
                 /\ pending'[p] = pending[p] \cup {a}
                 /\ Len(queue'[p]) <= QueueCap
              \/ /\ runs'[Len(runs) + 1] = Row(a, w, "error")
                 /\ queue' = queue /\ pending' = pending
<1>1. /\ runs \in Seq(RunRow) /\ Len(runs) \in Nat /\ Len(runs) < MaxRuns
      /\ queue \in [Processes -> Seq(RunIds)] /\ pending \in [Processes -> SUBSET Automations]
  BY LenProperties DEF TypeOK, Enqueue
<1>2. Len(runs) + 1 \in RunIds
  BY <1>1, Bounds DEF RunIds
<1>3. ASSUME NEW status \in {"queued", "error"} PROVE Row(a, w, status) \in RunRow
  BY WindowsAreInstants, Bounds DEF TypeOK, Row, RunRow, Statuses, Unsettled
<1>4. CASE HasRoom(p)
  <2>1. /\ runs' = Append(runs, Row(a, w, "queued"))
        /\ queue' = [queue EXCEPT ![p] = Append(@, Len(runs) + 1)]
        /\ pending' = [pending EXCEPT ![p] = @ \cup {a}]
    BY <1>4 DEF Enqueue
  <2>2. Append(queue[p], Len(runs) + 1) \in Seq(RunIds)
        /\ Len(Append(queue[p], Len(runs) + 1)) = Len(queue[p]) + 1
        /\ Len(queue[p]) \in Nat
    BY <1>1, <1>2, AppendProperties, LenProperties
  <2>3. Len(queue[p]) + 1 <= QueueCap
    BY <1>4, <2>2, Bounds DEF HasRoom
  <2>4. Row(a, w, "queued") \in RunRow
    BY <1>3
  <2>5. /\ runs' \in Seq(RunRow) /\ Len(runs') = Len(runs) + 1
        /\ \A r \in 1..Len(runs) : runs'[r] = runs[r]
        /\ runs'[Len(runs) + 1] = Row(a, w, "queued")
    BY <1>1, <2>1, <2>4, AppendProperties
  <2> QED
    BY <1>1, <2>1, <2>2, <2>3, <2>5, Bounds
<1>5. CASE ~HasRoom(p)
  <2>1. runs' = Append(runs, Row(a, w, "error")) /\ UNCHANGED <<queue, pending>>
    BY <1>5 DEF Enqueue
  <2>2. Row(a, w, "error") \in RunRow
    BY <1>3
  <2>3. /\ runs' \in Seq(RunRow) /\ Len(runs') = Len(runs) + 1
        /\ \A r \in 1..Len(runs) : runs'[r] = runs[r]
        /\ runs'[Len(runs) + 1] = Row(a, w, "error")
    BY <1>1, <2>1, <2>2, AppendProperties
  <2> QED
    BY <1>1, <2>1, <2>3, Bounds
<1> QED
  BY <1>4, <1>5

\* Taking a job shortens the queue by its head.
LEMMA TakeJobEffect ==
    ASSUME TypeOK, NEW p \in Processes, TakeJob(p)
    PROVE  /\ queue' \in [Processes -> Seq(RunIds)]
           /\ \A q \in Processes : q # p => queue'[q] = queue[q]
           /\ Len(queue[p]) \in Nat \ {0} /\ Len(queue'[p]) = Len(queue[p]) - 1
           /\ \A i \in 1..Len(queue'[p]) : queue'[p][i] = queue[p][i + 1]
           /\ work' = [work EXCEPT ![p] = [run |-> queue[p][1], pc |-> "taken"]]
           /\ queue[p][1] \in RunIds
<1>1. queue[p] \in Seq(RunIds) /\ queue[p] # <<>>
  BY DEF TypeOK, TakeJob
<1>2. Head(queue[p]) = queue[p][1]
  BY <1>1
<1>3. Len(queue[p]) \in Nat \ {0}
  BY <1>1, EmptySeq
<1>4. queue' = [queue EXCEPT ![p] = Tail(@)]
  BY DEF TakeJob
<1>5. /\ Tail(queue[p]) \in Seq(RunIds) /\ Len(Tail(queue[p])) = Len(queue[p]) - 1
      /\ \A i \in 1..Len(Tail(queue[p])) : Tail(queue[p])[i] = queue[p][i + 1]
      /\ Head(queue[p]) \in RunIds
  BY <1>1, HeadTailProperties
<1>6. queue' \in [Processes -> Seq(RunIds)] /\ queue'[p] = Tail(queue[p])
      /\ \A q \in Processes : q # p => queue'[q] = queue[q]
  BY <1>4, <1>5 DEF TypeOK
<1> QED
  BY <1>2, <1>3, <1>5, <1>6 DEF TakeJob

\* Rows with two fields written.
LEMMA RowStarted ==
    ASSUME NEW x \in RunRow, NEW s, NEW c
    PROVE  [x EXCEPT !.started = s, !.status = c]
              = [automation |-> x.automation, window |-> x.window, started |-> s, status |-> c,
                 newest |-> x.newest]
<1> DEFINE y == [automation |-> x.automation, window |-> x.window, started |-> s,
                 status |-> x.status, newest |-> x.newest]
<1>1. [x EXCEPT !.started = s] = y
  BY DEF RunRow
<1>2. [x EXCEPT !.started = s, !.status = c] = [y EXCEPT !.status = c]
  BY <1>1
<1> QED
  BY <1>2

LEMMA RowFinished ==
    ASSUME NEW x \in RunRow, NEW c, NEW n
    PROVE  [x EXCEPT !.status = c, !.newest = n]
              = [automation |-> x.automation, window |-> x.window, started |-> x.started,
                 status |-> c, newest |-> n]
<1> DEFINE y == [automation |-> x.automation, window |-> x.window, started |-> x.started,
                 status |-> c, newest |-> x.newest]
<1>1. [x EXCEPT !.status = c] = y
  BY DEF RunRow
<1>2. [x EXCEPT !.status = c, !.newest = n] = [y EXCEPT !.newest = n]
  BY <1>1
<1> QED
  BY <1>2

\* Writing the worker's row.
LEMMA MarkStartedEffect ==
    ASSUME TypeOK, NEW p \in Processes, MarkStarted(p)
    PROVE  /\ runs' \in Seq(RunRow) /\ Len(runs') = Len(runs) /\ Len(runs) \in Nat
           /\ \A r \in 1..Len(runs) :
                 runs'[r] = IF r = work[p].run
                            THEN [automation |-> runs[r].automation, window |-> runs[r].window,
                                  started |-> now, status |-> "running", newest |-> runs[r].newest]
                            ELSE runs[r]
<1>1. runs \in Seq(RunRow) /\ Len(runs) \in Nat /\ runs \in [1..Len(runs) -> RunRow]
  BY LenProperties DEF TypeOK
<1> DEFINE row(r) == [automation |-> runs[r].automation, window |-> runs[r].window,
                      started |-> now, status |-> "running", newest |-> runs[r].newest]
<1>2. runs' = [runs EXCEPT ![work[p].run].started = now, ![work[p].run].status = "running"]
  BY DEF MarkStarted
<1>3. ASSUME NEW r \in 1..Len(runs)
      PROVE  /\ row(r) \in RunRow
             /\ runs'[r] = IF r = work[p].run THEN row(r) ELSE runs[r]
  <2>1. runs[r] \in RunRow
    BY <1>1
  <2>2. row(r) \in RunRow
    BY <2>1 DEF RunRow, Statuses, Unsettled, TypeOK
  <2>4. CASE r = work[p].run
    <3>1. runs'[r] = [runs[r] EXCEPT !.started = now, !.status = "running"]
      BY <1>1, <1>2, <2>4
    <3>2. [runs[r] EXCEPT !.started = now, !.status = "running"] = row(r)
      BY <2>1, RowStarted
    <3> QED
      BY <2>2, <2>4, <3>1, <3>2
  <2>5. CASE r # work[p].run
    BY <1>1, <1>2, <2>2, <2>5
  <2> QED
    BY <2>2, <2>4, <2>5
<1>4. DOMAIN runs' = 1..Len(runs)
  BY <1>1, <1>2
<1>5. runs' \in [1..Len(runs) -> RunRow]
  <2>1. runs' = [r \in DOMAIN runs' |-> runs'[r]]
    BY <1>2
  <2> QED
    BY <1>1, <1>3, <1>4, <2>1
<1>6. runs' \in Seq(RunRow) /\ Len(runs') = Len(runs)
  BY <1>1, <1>5, SameLength
<1> QED
  BY <1>1, <1>3, <1>6

LEMMA FinishRunEffect ==
    ASSUME TypeOK, NEW p \in Processes, FinishRun(p)
    PROVE  /\ runs' \in Seq(RunRow) /\ Len(runs') = Len(runs) /\ Len(runs) \in Nat
           /\ \E status \in {"ok", "failed", "error"} :
                 \A r \in 1..Len(runs) :
                    runs'[r] = IF r = work[p].run
                               THEN [automation |-> runs[r].automation, window |-> runs[r].window,
                                     started |-> runs[r].started, status |-> status,
                                     newest |-> IF status = "ok" THEN published ELSE 0]
                               ELSE runs[r]
<1>1. runs \in Seq(RunRow) /\ Len(runs) \in Nat /\ runs \in [1..Len(runs) -> RunRow]
  BY LenProperties DEF TypeOK
<1>2. PICK status \in {"ok", "failed", "error"} :
         runs' = [runs EXCEPT ![work[p].run].status = status,
                              ![work[p].run].newest = IF status = "ok" THEN published ELSE 0]
  BY DEF FinishRun
<1> DEFINE row(r) == [automation |-> runs[r].automation, window |-> runs[r].window,
                      started |-> runs[r].started, status |-> status,
                      newest |-> IF status = "ok" THEN published ELSE 0]
<1>3. ASSUME NEW r \in 1..Len(runs)
      PROVE  /\ row(r) \in RunRow
             /\ runs'[r] = IF r = work[p].run THEN row(r) ELSE runs[r]
  <2>1. runs[r] \in RunRow
    BY <1>1
  <2>2. row(r) \in RunRow
    <3>1. (IF status = "ok" THEN published ELSE 0) \in 0..MaxPeriod
      BY Bounds DEF TypeOK
    <3>2. status \in Statuses
      BY DEF Statuses
    <3> QED
      BY <2>1, <3>1, <3>2 DEF RunRow
  <2>4. CASE r = work[p].run
    <3> DEFINE newest == IF status = "ok" THEN published ELSE 0
    <3>1. runs'[r] = [runs[r] EXCEPT !.status = status, !.newest = newest]
      BY <1>1, <1>2, <2>4
    <3> HIDE DEF newest
    <3>2. [runs[r] EXCEPT !.status = status, !.newest = newest]
             = [automation |-> runs[r].automation, window |-> runs[r].window,
                started |-> runs[r].started, status |-> status, newest |-> newest]
      BY <2>1, RowFinished
    <3> QED
      BY <2>2, <2>4, <3>1, <3>2 DEF newest
  <2>5. CASE r # work[p].run
    BY <1>1, <1>2, <2>2, <2>5
  <2> QED
    BY <2>2, <2>4, <2>5
<1>4. DOMAIN runs' = 1..Len(runs)
  BY <1>1, <1>2
<1>5. runs' \in [1..Len(runs) -> RunRow]
  <2>1. runs' = [r \in DOMAIN runs' |-> runs'[r]]
    BY <1>2
  <2> QED
    BY <1>1, <1>3, <1>4, <2>1
<1>6. runs' \in Seq(RunRow) /\ Len(runs') = Len(runs)
  BY <1>1, <1>5, SameLength
<1> QED
  BY <1>1, <1>2, <1>3, <1>6

\* The same, field by field.
LEMMA MarkStartedFields ==
    ASSUME TypeOK, NEW p \in Processes, MarkStarted(p), NEW r \in 1..Len(runs)
    PROVE  /\ r # work[p].run => runs'[r] = runs[r]
           /\ r = work[p].run =>
                 /\ runs'[r].automation = runs[r].automation /\ runs'[r].window = runs[r].window
                 /\ runs'[r].started = now /\ runs'[r].status = "running"
                 /\ runs'[r].newest = runs[r].newest
<1>1. runs'[r] = IF r = work[p].run
                 THEN [automation |-> runs[r].automation, window |-> runs[r].window,
                       started |-> now, status |-> "running", newest |-> runs[r].newest]
                 ELSE runs[r]
  BY MarkStartedEffect
<1> QED
  BY <1>1

LEMMA FinishRunFields ==
    ASSUME TypeOK, NEW p \in Processes, FinishRun(p), NEW r \in 1..Len(runs)
    PROVE  /\ r # work[p].run => runs'[r] = runs[r]
           /\ r = work[p].run =>
                 /\ runs'[r].automation = runs[r].automation /\ runs'[r].window = runs[r].window
                 /\ runs'[r].started = runs[r].started
                 /\ runs'[r].status \in {"ok", "failed", "error"}
<1>1. PICK status \in {"ok", "failed", "error"} :
         runs'[r] = IF r = work[p].run
                    THEN [automation |-> runs[r].automation, window |-> runs[r].window,
                          started |-> runs[r].started, status |-> status,
                          newest |-> IF status = "ok" THEN published ELSE 0]
                    ELSE runs[r]
  BY FinishRunEffect
<1> QED
  BY <1>1

\* The sweep writes `error` over what has not settled, and nothing else.
LEMMA SweepEffect ==
    ASSUME TypeOK, NEW p \in Processes, SweepInterrupted(p)
    PROVE  /\ runs' \in Seq(RunRow) /\ Len(runs') = Len(runs) /\ Len(runs) \in Nat
           /\ \A r \in 1..Len(runs) :
                 runs'[r] = [runs[r] EXCEPT !.status = IF @ \in Unsettled THEN "error" ELSE @]
<1>1. runs \in Seq(RunRow) /\ Len(runs) \in Nat /\ runs \in [1..Len(runs) -> RunRow]
      /\ DOMAIN runs = 1..Len(runs)
  BY LenProperties DEF TypeOK
<1>2. /\ runs' \in [1..Len(runs) -> RunRow]
      /\ \A r \in 1..Len(runs) :
            runs'[r] = [runs[r] EXCEPT !.status = IF @ \in Unsettled THEN "error" ELSE @]
  BY <1>1 DEF SweepInterrupted, Swept, RunRow, Statuses, Unsettled
<1>3. runs' \in Seq(RunRow) /\ Len(runs') = Len(runs)
  BY <1>1, <1>2, SameLength
<1> QED
  BY <1>1, <1>2, <1>3

-----------------------------------------------------------------------------
(* Type correctness.                                                         *)

LEMMA InitType == Init => TypeOK
<1> SUFFICES ASSUME Init PROVE TypeOK
  OBVIOUS
<1>1. runs \in Seq(RunRow) /\ Len(runs) = 0
  BY EmptySeq DEF Init
<1>2. <<>> \in Seq(RunIds) /\ Len(<<>>) = 0
  BY EmptySeq
<1>3. NoWork \in [run : {0} \cup RunIds, pc : {"none", "taken", "running", "finished"}]
  BY DEF NoWork
<1> QED
  BY <1>1, <1>2, <1>3, Bounds, TimeBegins DEF Init, TypeOK, Lives

\* Types survive each step.
LEMMA StepType == TypeOK /\ [Next]_vars => TypeOK'
<1> SUFFICES ASSUME TypeOK, [Next]_vars PROVE TypeOK'
  OBVIOUS
<1>1. ASSUME NEW p \in Processes, NEW a \in Automations, NEW w \in Windows \cup {0}, Enqueue(p, a, w),
             fires' \in [Fires -> {NoFire} \cup [by : Processes, automation : Automations, window : Windows]]
      PROVE  TypeOK'
  <2>1. \A q \in Processes : Len(queue'[q]) <= QueueCap
    BY <1>1, EnqueueEffect DEF TypeOK
  <2>2. UNCHANGED <<serves, life, known, work, now, published, crashes, returns>>
    BY <1>1 DEF Enqueue, world
  <2> QED
    BY <1>1, <2>1, <2>2, EnqueueEffect DEF TypeOK
<1>2. ASSUME NEW p \in Processes, ManualRun(p) PROVE TypeOK'
  BY <1>1, <1>2 DEF ManualRun, TypeOK
<1>3. ASSUME NEW f \in Fires, DecideFire(f) PROVE TypeOK'
  <2>1. PICK a \in known[serves], w \in Windows :
           fires' = [fires EXCEPT ![f] = [by |-> serves, automation |-> a, window |-> w]]
    BY <1>3 DEF DecideFire
  <2>2. serves \in Processes /\ a \in Automations
    BY <1>3 DEF DecideFire, TypeOK
  <2>3. UNCHANGED <<runs, serves, memory, world>>
    BY <1>3 DEF DecideFire
  <2> QED
    BY <2>1, <2>2, <2>3 DEF TypeOK, memory, world
<1>4. ASSUME NEW f \in Fires, EnqueueFire(f) PROVE TypeOK'
  <2>1. fires[f] \in [by : Processes, automation : Automations, window : Windows]
    BY <1>4 DEF EnqueueFire, TypeOK
  <2>2. fires' = [fires EXCEPT ![f] = NoFire] /\ Enqueue(fires[f].by, fires[f].automation, fires[f].window)
    BY <1>4 DEF EnqueueFire
  <2> QED
    BY <2>1, <2>2, <1>1 DEF TypeOK
<1>5. ASSUME NEW f \in Fires, RefuseFire(f) PROVE TypeOK'
  BY <1>5 DEF RefuseFire, TypeOK, memory, world
<1>6. ASSUME NEW p \in Processes, Die(p) PROVE TypeOK'
  <2>1. <<>> \in Seq(RunIds) /\ Len(<<>>) = 0
    BY EmptySeq
  <2>2. /\ queue' \in [Processes -> Seq(RunIds)] /\ \A q \in Processes : Len(queue'[q]) <= QueueCap
    BY <1>6, <2>1, Bounds DEF Die, TypeOK
  <2>3. work' \in [Processes -> [run : {0} \cup RunIds, pc : {"none", "taken", "running", "finished"}]]
    BY <1>6 DEF Die, TypeOK, NoWork
  <2>4. fires' \in [Fires -> {NoFire} \cup [by : Processes, automation : Automations, window : Windows]]
    BY <1>6 DEF Die, TypeOK
  <2>5. crashes' \in 0..MaxCrashes
    BY <1>6, Bounds DEF Die, TypeOK
  <2>6. life' \in [Processes -> Lives] /\ known' \in [Processes -> SUBSET Automations]
        /\ pending' \in [Processes -> SUBSET Automations] /\ serves' \in Processes \cup {NoProcess}
    BY <1>6 DEF Die, TypeOK, Lives
  <2> QED
    BY <1>6, <2>2, <2>3, <2>4, <2>5, <2>6 DEF Die, TypeOK
<1>7. ASSUME NEW p \in Processes, TakeJob(p) PROVE TypeOK'
  <2>1. \A q \in Processes : Len(queue'[q]) <= QueueCap
    BY <1>7, TakeJobEffect, Bounds DEF TypeOK
  <2>2. work' \in [Processes -> [run : {0} \cup RunIds, pc : {"none", "taken", "running", "finished"}]]
    BY <1>7, TakeJobEffect DEF TypeOK
  <2> QED
    BY <1>7, <2>1, <2>2, TakeJobEffect DEF TakeJob, TypeOK, world
<1>8. ASSUME NEW p \in Processes, MarkStarted(p) PROVE TypeOK'
  <2>1. work' \in [Processes -> [run : {0} \cup RunIds, pc : {"none", "taken", "running", "finished"}]]
    BY <1>8 DEF MarkStarted, TypeOK
  <2> QED
    BY <1>8, <2>1, MarkStartedEffect DEF MarkStarted, TypeOK, world
<1>9. ASSUME NEW p \in Processes, FinishRun(p) PROVE TypeOK'
  <2>1. work' \in [Processes -> [run : {0} \cup RunIds, pc : {"none", "taken", "running", "finished"}]]
    BY <1>9 DEF FinishRun, TypeOK
  <2> QED
    BY <1>9, <2>1, FinishRunEffect DEF FinishRun, TypeOK, world
<1>10. ASSUME NEW p \in Processes, ReleaseAutomation(p) PROVE TypeOK'
  BY <1>10 DEF ReleaseAutomation, TypeOK, NoWork, world
<1>11. ASSUME NEW p \in Processes, DrainQueue(p) PROVE TypeOK'
  <2>1. <<>> \in Seq(RunIds) /\ Len(<<>>) = 0
    BY EmptySeq
  <2> QED
    BY <1>11, <2>1, Bounds DEF DrainQueue, TypeOK, Lives, world
<1>12. ASSUME NEW p \in Processes, SweepInterrupted(p) PROVE TypeOK'
  BY <1>12, SweepEffect DEF SweepInterrupted, TypeOK, Lives, world
<1>13. ASSUME NEW p \in Processes,
              BeginRun(p) \/ ResetPending(p) \/ Listen(p) \/ Discover(p) \/ StopRun(p) \/ ReturnFromRun(p)
       PROVE  TypeOK'
  <2>1. UNCHANGED <<runs, queue, work, fires, now, published, crashes>>
    BY <1>13 DEF BeginRun, ResetPending, Listen, Discover, StopRun, ReturnFromRun, world
  <2>2. life' \in [Processes -> Lives]
    BY <1>13 DEF BeginRun, ResetPending, Listen, Discover, StopRun, ReturnFromRun, TypeOK, Lives
  <2>3. known' \in [Processes -> SUBSET Automations]
    <3>1. CASE Discover(p)
      <4>1. PICK found \in Discoveries : known' = [known EXCEPT ![p] = found]
        BY <3>1 DEF Discover
      <4>2. found \in SUBSET Automations
        BY DiscoveriesAreAutomations
      <4> QED
        BY <4>1, <4>2 DEF TypeOK
    <3>2. CASE ~Discover(p)
      BY <1>13, <3>2 DEF BeginRun, ResetPending, Listen, StopRun, ReturnFromRun, TypeOK
    <3> QED
      BY <3>1, <3>2
  <2>4. pending' \in [Processes -> SUBSET Automations] /\ serves' \in Processes \cup {NoProcess}
    BY <1>13 DEF BeginRun, ResetPending, Listen, Discover, StopRun, ReturnFromRun, TypeOK
  <2>5. returns' \in 0..MaxReturns
    BY <1>13, Bounds DEF BeginRun, ResetPending, Listen, Discover, StopRun, ReturnFromRun, TypeOK, world
  <2> QED
    BY <2>1, <2>2, <2>3, <2>4, <2>5 DEF TypeOK
<1>14. CASE Pass \/ Publish
  BY <1>14, Bounds DEF Pass, Publish, TypeOK, memory
<1>15. CASE UNCHANGED vars
  BY <1>15 DEF TypeOK, vars, memory, world
<1> QED
  BY <1>2, <1>3, <1>4, <1>5, <1>6, <1>7, <1>8, <1>9, <1>10, <1>11, <1>12, <1>13, <1>14, <1>15
     DEF Next, Progress, Fire, Wait, Exit

\* The table and what each process has in memory keep their types, however many processes
\* there are.
THEOREM AutomationsTypeCorrect == Spec => []TypeOK
<1> QED
  BY InitType, StepType, PTL DEF Spec

-----------------------------------------------------------------------------
(* The inductive invariant, for one process.                                 *)

\* The worker has a run unless it has none, and it has one only while Run works.
WorkerWorks ==
    \A p \in Processes :
       /\ work[p].pc = "none" <=> work[p].run = 0
       /\ work[p].run # 0 => Working(p)

\* What waits is in the table, in the order of the table, after the run at work.
QueueInOrder ==
    \A p \in Processes :
       /\ \A i \in 1..Len(queue[p]) : queue[p][i] \in 1..Len(runs)
       /\ \A i, j \in 1..Len(queue[p]) : i < j => queue[p][i] < queue[p][j]
       /\ work[p].run # 0 =>
             /\ work[p].run \in 1..Len(runs)
             /\ \A i \in 1..Len(queue[p]) : work[p].run < queue[p][i]

\* Until Run returns, it starts in a process that knows no automation and holds no job.
StartsClean ==
    NoReturns => \A p \in Processes :
       /\ life[p] # "idle"
       /\ life[p] \in {"down", "drain", "reset", "sweep"} =>
             known[p] = {} /\ queue[p] = <<>> /\ pending[p] = {}

\* A row that waits says so, or that it was swept while it did.
Waiting(r) == runs[r].status = "queued" \/ (~NoReturns /\ runs[r].status = "error")

\* The rows of its jobs say how far the worker is.
RowsTellWork ==
    \A p \in Processes :
       /\ \A r \in Jobs(p) : r # work[p].run => Waiting(r)
       /\ work[p].pc = "taken" => Waiting(work[p].run)
       /\ work[p].pc = "running" => runs[work[p].run].status = "running"
       /\ work[p].pc = "finished" => Settled(work[p].run)

\* While Run works, a row that says running is the worker's.
SoleRunner ==
    \A p \in Processes : Working(p) =>
       \A r \in 1..Len(runs) : runs[r].status = "running" =>
          work[p].run = r /\ work[p].pc = "running"

\* Until Run returns, the automation of each job is busy.
JobsArePending ==
    NoReturns => \A p \in Processes : \A r \in Jobs(p) : runs[r].automation \in pending[p]

\* From the reset on, an automation is busy only for a job.
PendingHasJob ==
    \A p \in Processes : Working(p) \/ life[p] = "sweep" =>
       \A a \in pending[p] : \E r \in Jobs(p) : runs[r].automation = a

\* While Run works, what has not settled is a job.
UnsettledIsJob ==
    \A p \in Processes : Working(p) => \A r \in 1..Len(runs) : Settled(r) \/ r \in Jobs(p)

\* No row is from the future, and the run at work started after all that are ok.
ClockLeads ==
    /\ \A r \in 1..Len(runs) : runs[r].started <= now
    /\ \A p \in Processes : work[p].pc = "running" =>
          \A r \in 1..Len(runs) : runs[r].status = "ok" => runs[r].started <= runs[work[p].run].started

-----------------------------------------------------------------------------
(* The steps, and the parts of the invariant that hold for every number of   *)
(* processes.                                                                *)

\* A step that leaves the table and the memory of each process as they are.
Still == UNCHANGED <<runs, life, known, queue, pending, work, returns>> /\ now <= now'

LEMMA StepCases ==
    ASSUME TypeOK, [Next]_vars
    PROVE  \/ \E p \in Processes, a \in Automations, w \in Windows \cup {0} : Enqueue(p, a, w)
           \/ \E p \in Processes : BeginRun(p) \/ DrainQueue(p) \/ ResetPending(p) \/ SweepInterrupted(p)
           \/ \E p \in Processes : TakeJob(p) \/ MarkStarted(p) \/ FinishRun(p) \/ ReleaseAutomation(p)
           \/ \E p \in Processes : Listen(p) \/ Discover(p) \/ StopRun(p) \/ ReturnFromRun(p) \/ Die(p)
           \/ Still
<1>0. now \in Nat /\ now <= now
  BY Bounds DEF TypeOK
<1>1. ASSUME NEW p \in Processes, ManualRun(p)
      PROVE  \E a \in Automations, w \in Windows \cup {0} : Enqueue(p, a, w)
  BY <1>1 DEF ManualRun
<1>2. ASSUME NEW f \in Fires, Fire(f)
      PROVE  \/ \E p \in Processes, a \in Automations, w \in Windows \cup {0} : Enqueue(p, a, w)
             \/ Still
  <2>1. CASE EnqueueFire(f)
    <3>1. fires[f] \in [by : Processes, automation : Automations, window : Windows]
      BY <2>1 DEF EnqueueFire, TypeOK
    <3> QED
      BY <2>1, <3>1 DEF EnqueueFire
  <2>2. CASE DecideFire(f) \/ RefuseFire(f)
    BY <1>0, <2>2 DEF DecideFire, RefuseFire, Still, memory, world
  <2> QED
    BY <1>2, <2>1, <2>2 DEF Fire
<1>3. Pass \/ Publish \/ UNCHANGED vars => Still
  BY <1>0 DEF Pass, Publish, Still, vars, memory, world
<1> QED
  BY <1>1, <1>2, <1>3 DEF Next, Progress, Exit, Wait

\* The worker moves on with the run that it has.
LEMMA PcMoves ==
    ASSUME TypeOK, NEW p \in Processes, MarkStarted(p) \/ FinishRun(p)
    PROVE  \A q \in Processes :
              /\ work'[q].run = work[q].run
              /\ q # p => work'[q] = work[q]
              /\ q = p => work'[q].pc = IF MarkStarted(p) THEN "running" ELSE "finished"
<1> SUFFICES ASSUME NEW q \in Processes
             PROVE  /\ work'[q].run = work[q].run
                    /\ q # p => work'[q] = work[q]
                    /\ q = p => work'[q].pc = IF MarkStarted(p) THEN "running" ELSE "finished"
  OBVIOUS
<1>1. work[q] \in [run : {0} \cup RunIds, pc : {"none", "taken", "running", "finished"}]
  BY DEF TypeOK
<1>2. CASE q = p /\ MarkStarted(p)
  <2>1. work'[q] = [work[q] EXCEPT !.pc = "running"]
    BY <1>2 DEF TypeOK, MarkStarted
  <2> QED
    BY <1>1, <1>2, <2>1
<1>3. CASE q = p /\ ~MarkStarted(p)
  <2>1. work'[q] = [work[q] EXCEPT !.pc = "finished"]
    BY <1>3 DEF TypeOK, FinishRun
  <2> QED
    BY <1>1, <1>3, <2>1
<1>4. CASE q # p
  BY <1>4 DEF TypeOK, MarkStarted, FinishRun
<1> QED
  BY <1>2, <1>3, <1>4

\* The worker takes the head of the queue, or lets go.
LEMMA WorkIsSet ==
    ASSUME TypeOK, NEW p \in Processes, NEW w, work' = [work EXCEPT ![p] = w]
    PROVE  \A q \in Processes : work'[q] = IF q = p THEN w ELSE work[q]
BY DEF TypeOK

LEMMA WorkerStays == ASSUME TypeOK, WorkerWorks, [Next]_vars PROVE WorkerWorks'
<1>1. ASSUME NEW p \in Processes, TakeJob(p) PROVE WorkerWorks'
  <2>1. queue[p][1] # 0
    BY <1>1, TakeJobEffect DEF RunIds
  <2>2. Working(p)' /\ \A q \in Processes : life'[q] = life[q]
    BY <1>1 DEF TakeJob, Working
  <2> QED
    <3>1. \A q \in Processes :
             work'[q] = IF q = p THEN [run |-> queue[p][1], pc |-> "taken"] ELSE work[q]
      BY <1>1, TakeJobEffect, WorkIsSet
    <3> QED
      BY <2>1, <2>2, <3>1 DEF WorkerWorks, Working
<1>2. ASSUME NEW p \in Processes, MarkStarted(p) \/ FinishRun(p) PROVE WorkerWorks'
  <2>1. work[p].pc \in {"taken", "running"} /\ life' = life
    BY <1>2 DEF MarkStarted, FinishRun
  <2>2. \A q \in Processes :
           /\ work'[q].run = work[q].run
           /\ q # p => work'[q].pc = work[q].pc
           /\ q = p => work'[q].pc # "none"
    BY <1>2, PcMoves
  <2> QED
    BY <2>1, <2>2 DEF WorkerWorks, Working
<1>3. ASSUME NEW p \in Processes, ReleaseAutomation(p) \/ Die(p) PROVE WorkerWorks'
  <2>1. \A q \in Processes : work'[q] = IF q = p THEN NoWork ELSE work[q]
    BY <1>3, WorkIsSet DEF ReleaseAutomation, Die
  <2>2. \A q \in Processes : q # p => life'[q] = life[q]
    BY <1>3 DEF ReleaseAutomation, Die, TypeOK
  <2> QED
    BY <2>1, <2>2 DEF WorkerWorks, Working, NoWork
<1>4. ASSUME NEW p \in Processes,
             BeginRun(p) \/ DrainQueue(p) \/ ResetPending(p) \/ SweepInterrupted(p)
      PROVE  WorkerWorks'
  BY <1>4 DEF BeginRun, DrainQueue, ResetPending, SweepInterrupted, TypeOK, WorkerWorks, Working
<1>5. ASSUME NEW p \in Processes, Listen(p) \/ Discover(p) \/ StopRun(p) PROVE WorkerWorks'
  BY <1>5 DEF Listen, Discover, StopRun, TypeOK, WorkerWorks, Working
<1>6. ASSUME NEW p \in Processes, ReturnFromRun(p) PROVE WorkerWorks'
  BY <1>6 DEF ReturnFromRun, TypeOK, WorkerWorks, Working, NoWork
<1>7. ASSUME Still \/ \E p \in Processes, a \in Automations, w \in Windows \cup {0} : Enqueue(p, a, w)
      PROVE  WorkerWorks'
  BY <1>7 DEF Still, Enqueue, WorkerWorks, Working
<1> QED
  BY <1>1, <1>2, <1>3, <1>4, <1>5, <1>6, <1>7, StepCases

\* Entries are appended with the id of a new row, and taken from the front.
LEMMA OrderStays == ASSUME TypeOK, WorkerWorks, QueueInOrder, [Next]_vars PROVE QueueInOrder'
<1>0. \A p \in Processes : Len(queue[p]) \in Nat /\ \A i \in 1..Len(queue[p]) : queue[p][i] \in Nat
  BY LenProperties, ElementOfSeq, Bounds DEF TypeOK, RunIds
<1>a. Len(runs) \in Nat /\ \A p \in Processes : work[p].run \in Nat
  BY LenProperties, Bounds DEF TypeOK, RunIds
<1>1. ASSUME NEW p \in Processes, NEW a \in Automations, NEW w \in Windows \cup {0}, Enqueue(p, a, w)
      PROVE  QueueInOrder'
  <2>1. work' = work /\ Len(runs') = Len(runs) + 1
    BY <1>1, EnqueueEffect DEF Enqueue
  <2> SUFFICES ASSUME NEW q \in Processes
               PROVE  /\ \A i \in 1..Len(queue'[q]) : queue'[q][i] \in 1..Len(runs')
                      /\ \A i, j \in 1..Len(queue'[q]) : i < j => queue'[q][i] < queue'[q][j]
                      /\ work'[q].run # 0 =>
                            /\ work'[q].run \in 1..Len(runs')
                            /\ \A i \in 1..Len(queue'[q]) : work'[q].run < queue'[q][i]
    BY DEF QueueInOrder
  <2>2. CASE queue'[q] = queue[q]
    BY <1>0, <1>a, <2>1, <2>2 DEF QueueInOrder
  <2>3. CASE queue'[q] = Append(queue[q], Len(runs) + 1)
    <3>1. Len(runs) + 1 \in RunIds /\ queue[q] \in Seq(RunIds) /\ RunIds \subseteq Nat
      BY <1>1, <1>a, Bounds DEF Enqueue, TypeOK, RunIds
    <3>2. /\ \A i \in 1..Len(queue[q]) : queue[q][i] \in 1..Len(runs)
          /\ \A i, j \in 1..Len(queue[q]) : i < j => queue[q][i] < queue[q][j]
      BY DEF QueueInOrder
    <3>3. /\ \A i \in 1..Len(queue'[q]) : queue'[q][i] \in 1..(Len(runs) + 1)
          /\ \A i, j \in 1..Len(queue'[q]) : i < j => queue'[q][i] < queue'[q][j]
          /\ \A i \in 1..Len(queue'[q]) :
                queue'[q][i] = Len(runs) + 1 \/ \E j \in 1..Len(queue[q]) : queue'[q][i] = queue[q][j]
      BY <1>a, <2>3, <3>1, <3>2, AppendInOrder
    <3>4. work[q].run # 0 =>
             /\ work[q].run \in 1..Len(runs)
             /\ \A i \in 1..Len(queue[q]) : work[q].run < queue[q][i]
      BY DEF QueueInOrder
    <3>5. ASSUME work'[q].run # 0, NEW i \in 1..Len(queue'[q])
          PROVE  work'[q].run < queue'[q][i]
      <4>1. work'[q].run = work[q].run /\ work[q].run \in 1..Len(runs)
        BY <2>1, <3>4, <3>5
      <4>2. CASE queue'[q][i] = Len(runs) + 1
        BY <1>a, <4>1, <4>2
      <4>3. CASE \E j \in 1..Len(queue[q]) : queue'[q][i] = queue[q][j]
        BY <3>4, <3>5, <4>1, <4>3
      <4> QED
        BY <3>3, <4>2, <4>3
    <3>6. work'[q].run # 0 => work'[q].run \in 1..(Len(runs) + 1)
      BY <1>a, <2>1, <3>4
    <3>7. Len(runs') = Len(runs) + 1
      BY <2>1
    <3>8. /\ \A i \in 1..Len(queue'[q]) : queue'[q][i] \in 1..Len(runs')
          /\ work'[q].run # 0 => work'[q].run \in 1..Len(runs')
      BY <3>3, <3>6, <3>7
    <3> QED
      BY <3>3, <3>5, <3>8
  <2> QED
    BY <1>1, <2>2, <2>3, EnqueueEffect
<1>2. ASSUME NEW p \in Processes, TakeJob(p) PROVE QueueInOrder'
  <2>0. work[p] = NoWork /\ Len(runs') = Len(runs)
    BY <1>2 DEF TakeJob
  <2> SUFFICES ASSUME NEW q \in Processes
               PROVE  /\ \A i \in 1..Len(queue'[q]) : queue'[q][i] \in 1..Len(runs')
                      /\ \A i, j \in 1..Len(queue'[q]) : i < j => queue'[q][i] < queue'[q][j]
                      /\ work'[q].run # 0 =>
                            /\ work'[q].run \in 1..Len(runs')
                            /\ \A i \in 1..Len(queue'[q]) : work'[q].run < queue'[q][i]
    BY DEF QueueInOrder
  <2>1. CASE q # p
    <3>1. queue'[q] = queue[q] /\ work'[q] = work[q]
      BY <1>2, <2>1, TakeJobEffect DEF TypeOK
    <3> QED
      BY <2>0, <3>1 DEF QueueInOrder
  <2>2. CASE q = p
    <3>1. work'[q].run = queue[q][1]
      BY <1>2, <2>2, TakeJobEffect DEF TypeOK
    <3>2. Len(queue'[q]) = Len(queue[q]) - 1 /\ Len(queue[q]) \in Nat \ {0}
          /\ \A i \in 1..Len(queue'[q]) : queue'[q][i] = queue[q][i + 1]
      BY <1>2, <2>2, TakeJobEffect
    <3>3. \A i \in 1..Len(queue'[q]) : i + 1 \in 1..Len(queue[q]) /\ 1 < i + 1
      BY <3>2
    <3>4. 1 \in 1..Len(queue[q])
      BY <3>2
    <3>5. \A i, j \in 1..Len(queue'[q]) : i < j => i + 1 < j + 1
      BY <3>2
    <3> QED
      BY <2>0, <3>1, <3>2, <3>3, <3>4, <3>5 DEF QueueInOrder
  <2> QED
    BY <2>1, <2>2
<1>3. ASSUME NEW p \in Processes, MarkStarted(p) \/ FinishRun(p) PROVE QueueInOrder'
  <2>1. Len(runs') = Len(runs) /\ queue' = queue
    BY <1>3, MarkStartedEffect, FinishRunEffect DEF MarkStarted, FinishRun
  <2>2. \A q \in Processes : work'[q].run = work[q].run
    BY <1>3, PcMoves
  <2> QED
    BY <2>1, <2>2 DEF QueueInOrder
<1>4. ASSUME NEW p \in Processes, SweepInterrupted(p) PROVE QueueInOrder'
  <2>1. Len(runs') = Len(runs) /\ queue' = queue /\ work' = work
    BY <1>4, SweepEffect DEF SweepInterrupted
  <2> QED
    BY <2>1 DEF QueueInOrder
<1>5. ASSUME NEW p \in Processes, ReleaseAutomation(p) PROVE QueueInOrder'
  BY <1>5 DEF ReleaseAutomation, NoWork, TypeOK, QueueInOrder
<1>6. ASSUME NEW p \in Processes, DrainQueue(p) \/ Die(p) PROVE QueueInOrder'
  <2>1. Len(<<>>) = 0
    BY EmptySeq
  <2>2. \A q \in Processes : \/ queue'[q] = queue[q] /\ work'[q] = work[q]
                             \/ queue'[q] = <<>> /\ work'[q] = work[q]
                             \/ queue'[q] = <<>> /\ work'[q] = NoWork
    BY <1>6 DEF DrainQueue, Die, TypeOK
  <2>3. runs' = runs
    BY <1>6 DEF DrainQueue, Die
  <2> QED
    BY <2>1, <2>2, <2>3 DEF NoWork, QueueInOrder
<1>7. ASSUME \/ Still
             \/ \E p \in Processes : \/ BeginRun(p) \/ ResetPending(p) \/ Listen(p) \/ Discover(p)
                                     \/ StopRun(p) \/ ReturnFromRun(p)
      PROVE  QueueInOrder'
  <2>1. UNCHANGED <<runs, queue, work>>
    BY <1>7 DEF Still, BeginRun, ResetPending, Listen, Discover, StopRun, ReturnFromRun
  <2> QED
    BY <2>1 DEF QueueInOrder
<1> QED
  BY <1>1, <1>2, <1>3, <1>4, <1>5, <1>6, <1>7, StepCases

-----------------------------------------------------------------------------
(* What steps do to the jobs of a process.                                   *)

LEMMA JobsAre ==
    ASSUME TypeOK, NEW p \in Processes, NEW r
    PROVE  r \in Jobs(p) <=> (\E i \in 1..Len(queue[p]) : r = queue[p][i]) \/ (r = work[p].run /\ r # 0)
<1>1. DOMAIN queue[p] = 1..Len(queue[p])
  BY LenProperties DEF TypeOK
<1> QED
  BY <1>1 DEF Jobs

LEMMA NextJobsAre ==
    ASSUME TypeOK, [Next]_vars, NEW p \in Processes, NEW r
    PROVE  r \in Jobs(p)' <=>
              (\E i \in 1..Len(queue'[p]) : r = queue'[p][i]) \/ (r = work'[p].run /\ r # 0)
<1>1. TypeOK'
  BY StepType
<1>2. DOMAIN queue'[p] = 1..Len(queue'[p])
  BY <1>1, LenProperties DEF TypeOK
<1> QED
  BY <1>2 DEF Jobs

LEMMA SameJobs ==
    ASSUME NEW p \in Processes, queue'[p] = queue[p], work'[p].run = work[p].run
    PROVE  Jobs(p)' = Jobs(p)
<1>1. ASSUME NEW r PROVE r \in Jobs(p)' <=> r \in Jobs(p)
  BY DEF Jobs
<1> QED
  BY <1>1

\* Jobs are in the table, and the worker has the oldest.
LEMMA JobsInOrder ==
    ASSUME TypeOK, QueueInOrder, NEW p \in Processes, NEW r \in Jobs(p)
    PROVE  r \in 1..Len(runs) /\ work[p].run <= r
<1>1. Len(runs) \in Nat /\ work[p].run \in Nat
  BY LenProperties, Bounds DEF TypeOK, RunIds
<1>2. CASE r = work[p].run /\ r # 0
  BY <1>1, <1>2 DEF QueueInOrder
<1>3. CASE \E i \in 1..Len(queue[p]) : r = queue[p][i]
  <2>1. r \in 1..Len(runs) /\ (work[p].run # 0 => work[p].run < r)
    BY <1>3 DEF QueueInOrder
  <2> QED
    BY <1>1, <2>1
<1> QED
  BY <1>2, <1>3, JobsAre

LEMMA EnqueueJobs ==
    ASSUME TypeOK, [Next]_vars, NEW p \in Processes, NEW a \in Automations, NEW w \in Windows \cup {0},
           Enqueue(p, a, w)
    PROVE  /\ \A q \in Processes : q # p => Jobs(q)' = Jobs(q)
           /\ \/ /\ Jobs(p)' = Jobs(p) \cup {Len(runs) + 1}
                 /\ pending'[p] = pending[p] \cup {a}
                 /\ runs'[Len(runs) + 1] = Row(a, w, "queued")
              \/ /\ Jobs(p)' = Jobs(p) /\ pending' = pending
                 /\ runs'[Len(runs) + 1] = Row(a, w, "error")
<1>1. work' = work
  BY DEF Enqueue
<1>2. ASSUME NEW q \in Processes, queue'[q] = queue[q] PROVE Jobs(q)' = Jobs(q)
  BY <1>1, <1>2, SameJobs
<1>3. ASSUME queue'[p] = Append(queue[p], Len(runs) + 1) PROVE Jobs(p)' = Jobs(p) \cup {Len(runs) + 1}
  <2>1. Len(runs) + 1 \in RunIds /\ queue[p] \in Seq(RunIds) /\ Len(queue[p]) \in Nat
    BY EnqueueEffect, LenProperties, Bounds DEF TypeOK, RunIds
  <2>2. /\ Len(queue'[p]) = Len(queue[p]) + 1
        /\ \A i \in 1..Len(queue[p]) : queue'[p][i] = queue[p][i]
        /\ queue'[p][Len(queue[p]) + 1] = Len(runs) + 1
    BY <1>3, <2>1, AppendProperties
  <2>3. \A i \in 1..Len(queue'[p]) : i \in 1..Len(queue[p]) \/ i = Len(queue[p]) + 1
    BY <2>1, <2>2
  <2>4. /\ \A i \in 1..Len(queue[p]) : i \in 1..Len(queue'[p])
        /\ Len(queue[p]) + 1 \in 1..Len(queue'[p])
    BY <2>1, <2>2
  <2>5. Len(runs) + 1 # 0
    BY EnqueueEffect
  <2>6. ASSUME NEW r PROVE r \in Jobs(p)' <=> r \in Jobs(p) \/ r = Len(runs) + 1
    <3>1. r \in Jobs(p) <=> (\E i \in 1..Len(queue[p]) : r = queue[p][i]) \/ (r = work[p].run /\ r # 0)
      BY JobsAre
    <3>2. r \in Jobs(p)' <=> (\E i \in 1..Len(queue'[p]) : r = queue'[p][i]) \/ (r = work[p].run /\ r # 0)
      BY <1>1, NextJobsAre
    <3>3. (\E i \in 1..Len(queue'[p]) : r = queue'[p][i])
             <=> (\E i \in 1..Len(queue[p]) : r = queue[p][i]) \/ r = Len(runs) + 1
      <4>1. ASSUME NEW i \in 1..Len(queue'[p]), r = queue'[p][i]
            PROVE  (\E j \in 1..Len(queue[p]) : r = queue[p][j]) \/ r = Len(runs) + 1
        BY <2>2, <2>3, <4>1
      <4>2. ASSUME NEW i \in 1..Len(queue[p]), r = queue[p][i]
            PROVE  \E j \in 1..Len(queue'[p]) : r = queue'[p][j]
        BY <2>2, <2>4, <4>2
      <4>3. r = Len(runs) + 1 => \E j \in 1..Len(queue'[p]) : r = queue'[p][j]
        BY <2>2, <2>4
      <4> QED
        BY <4>1, <4>2, <4>3
    <3> QED
      BY <2>5, <3>1, <3>2, <3>3
  <2> QED
    BY <2>6
<1> QED
  BY <1>2, <1>3, EnqueueEffect

LEMMA TakeJobKeepsJobs ==
    ASSUME TypeOK, WorkerWorks, [Next]_vars, NEW p \in Processes, TakeJob(p)
    PROVE  /\ \A q \in Processes : Jobs(q)' = Jobs(q)
           /\ queue[p][1] \in Jobs(p)
           /\ \A q \in Processes :
                 work'[q] = IF q = p THEN [run |-> queue[p][1], pc |-> "taken"] ELSE work[q]
<1>1. \A q \in Processes :
         work'[q] = IF q = p THEN [run |-> queue[p][1], pc |-> "taken"] ELSE work[q]
  BY TakeJobEffect, WorkIsSet
<1>2. ASSUME NEW q \in Processes, q # p PROVE Jobs(q)' = Jobs(q)
  BY <1>1, <1>2, TakeJobEffect, SameJobs
<1>3. Jobs(p)' = Jobs(p) /\ queue[p][1] \in Jobs(p)
  <2>1. work[p].run = 0 /\ work'[p].run = queue[p][1] /\ queue[p][1] # 0
    <3>1. work[p].run = 0
      BY DEF TakeJob, NoWork
    <3>2. queue[p][1] # 0
      BY TakeJobEffect DEF RunIds
    <3> QED
      BY <1>1, <3>1, <3>2
  <2>2. Len(queue'[p]) = Len(queue[p]) - 1 /\ Len(queue[p]) \in Nat \ {0}
        /\ \A i \in 1..Len(queue'[p]) : queue'[p][i] = queue[p][i + 1]
    BY TakeJobEffect
  <2>3. 1 \in 1..Len(queue[p]) /\ \A i \in 1..Len(queue'[p]) : i + 1 \in 1..Len(queue[p])
    BY <2>2
  <2>4. ASSUME NEW i \in 1..Len(queue[p])
        PROVE  i = 1 \/ \E j \in 1..Len(queue'[p]) : queue[p][i] = queue'[p][j]
    <3>1. CASE i = 1
      BY <3>1
    <3>2. CASE i # 1
      <4>1. i - 1 \in 1..Len(queue'[p]) /\ (i - 1) + 1 = i
        BY <2>2, <3>2
      <4> QED
        BY <2>2, <4>1
    <3> QED
      BY <3>1, <3>2
  <2>5. ASSUME NEW r PROVE r \in Jobs(p)' <=> r \in Jobs(p)
    <3>1. r \in Jobs(p) <=> \E i \in 1..Len(queue[p]) : r = queue[p][i]
      BY <2>1, JobsAre
    <3>2. r \in Jobs(p)' <=> (\E i \in 1..Len(queue'[p]) : r = queue'[p][i]) \/ r = queue[p][1]
      BY <2>1, NextJobsAre
    <3> QED
      BY <2>2, <2>3, <2>4, <3>1, <3>2
  <2>6. queue[p][1] \in Jobs(p)
    BY <2>3, JobsAre
  <2> QED
    BY <2>5, <2>6
<1> QED
  BY <1>1, <1>2, <1>3

LEMMA ReleaseDropsJob ==
    ASSUME TypeOK, WorkerWorks, QueueInOrder, [Next]_vars, NEW p \in Processes, ReleaseAutomation(p)
    PROVE  /\ Jobs(p)' = Jobs(p) \ {work[p].run}
           /\ work[p].run \in Jobs(p)
           /\ \A q \in Processes : q # p => Jobs(q)' = Jobs(q)
<1>1. \A q \in Processes : work'[q] = IF q = p THEN NoWork ELSE work[q]
  BY WorkIsSet DEF ReleaseAutomation
<1>2. queue' = queue /\ work[p].run # 0
  BY DEF ReleaseAutomation, WorkerWorks
<1>3. ~ \E i \in 1..Len(queue[p]) : work[p].run = queue[p][i]
  <2>1. work[p].run \in Nat /\ \A i \in 1..Len(queue[p]) : work[p].run < queue[p][i]
    BY <1>2, Bounds DEF QueueInOrder, TypeOK, RunIds
  <2> QED
    BY <2>1
<1>4. \A q \in Processes : q # p => Jobs(q)' = Jobs(q)
  BY <1>1, <1>2, SameJobs
<1>5. work'[p].run = 0
  BY <1>1 DEF NoWork
<1>6. work[p].run \in Jobs(p)
  BY <1>2, JobsAre
<1>7. ASSUME NEW r PROVE r \in Jobs(p)' <=> r \in Jobs(p) /\ r # work[p].run
  BY <1>2, <1>3, <1>5, JobsAre, NextJobsAre
<1> QED
  BY <1>4, <1>6, <1>7

\* Of the other steps, two empty the memory, and the rest leaves the jobs alone.
LEMMA OtherJobs ==
    ASSUME TypeOK, WorkerWorks, [Next]_vars, NEW p \in Processes
    PROVE  /\ DrainQueue(p) \/ Die(p) =>
                 Jobs(p)' = {} /\ work'[p].run = 0 /\ \A q \in Processes : q # p => Jobs(q)' = Jobs(q)
           /\ \/ BeginRun(p) \/ ResetPending(p) \/ SweepInterrupted(p) \/ MarkStarted(p) \/ FinishRun(p)
              \/ Listen(p) \/ Discover(p) \/ StopRun(p) \/ ReturnFromRun(p)
              => \A q \in Processes : Jobs(q)' = Jobs(q)
<1>1. ASSUME DrainQueue(p) \/ Die(p)
      PROVE  Jobs(p)' = {} /\ work'[p].run = 0 /\ \A q \in Processes : q # p => Jobs(q)' = Jobs(q)
  <2>1. Len(<<>>) = 0 /\ 1..0 = {}
    BY EmptySeq
  <2>2. queue'[p] = <<>> /\ \A q \in Processes : q # p => queue'[q] = queue[q]
    BY <1>1 DEF DrainQueue, Die, TypeOK
  <2>3. work'[p].run = 0 /\ \A q \in Processes : q # p => work'[q] = work[q]
    <3>1. CASE DrainQueue(p)
      BY <3>1 DEF DrainQueue, WorkerWorks, Working
    <3>2. CASE Die(p)
      <4>1. \A q \in Processes : work'[q] = IF q = p THEN NoWork ELSE work[q]
        BY <3>2, WorkIsSet DEF Die
      <4> QED
        BY <4>1 DEF NoWork
    <3> QED
      BY <1>1, <3>1, <3>2
  <2>4. ASSUME NEW r PROVE r \notin Jobs(p)'
    BY <2>1, <2>2, <2>3, NextJobsAre
  <2> QED
    BY <2>2, <2>3, <2>4, SameJobs
<1>2. ASSUME MarkStarted(p) \/ FinishRun(p) PROVE \A q \in Processes : Jobs(q)' = Jobs(q)
  <2>1. queue' = queue /\ \A q \in Processes : work'[q].run = work[q].run
    BY <1>2, PcMoves DEF MarkStarted, FinishRun
  <2> QED
    BY <2>1, SameJobs
<1>3. ASSUME \/ BeginRun(p) \/ ResetPending(p) \/ SweepInterrupted(p) \/ Listen(p) \/ Discover(p)
             \/ StopRun(p) \/ ReturnFromRun(p)
      PROVE  \A q \in Processes : Jobs(q)' = Jobs(q)
  <2>1. queue' = queue /\ work' = work
    BY <1>3 DEF BeginRun, ResetPending, SweepInterrupted, Listen, Discover, StopRun, ReturnFromRun
  <2> QED
    BY <2>1, SameJobs
<1> QED
  BY <1>1, <1>2, <1>3

LEMMA StillJobs == ASSUME Still, NEW p \in Processes PROVE Jobs(p)' = Jobs(p)
BY DEF Still, Jobs

-----------------------------------------------------------------------------
(* The rest of the invariant, whose parts on rows need one process.          *)

\* The rows as a step leaves them, and how many returns there have been.
LEMMA RowsAfter ==
    ASSUME TypeOK, [Next]_vars
    PROVE  /\ Len(runs) \in Nat /\ returns \in Nat /\ (NoReturns' => NoReturns)
           /\ \A r \in 1..Len(runs) : r \in 1..Len(runs') /\ runs'[r].automation = runs[r].automation
<1>1. Len(runs) \in Nat /\ returns \in Nat
  BY LenProperties, Bounds DEF TypeOK
<1>2. NoReturns' => NoReturns
  <2>1. returns' = returns \/ returns' = returns + 1
    BY StepCases
       DEF Still, Enqueue, TakeJob, MarkStarted, FinishRun, ReleaseAutomation, BeginRun, DrainQueue,
           ResetPending, SweepInterrupted, Listen, Discover, StopRun, ReturnFromRun, Die, world
  <2> QED
    BY <1>1, <2>1 DEF NoReturns
<1> SUFFICES ASSUME NEW r \in 1..Len(runs)
             PROVE  r \in 1..Len(runs') /\ runs'[r].automation = runs[r].automation
  BY <1>1, <1>2
<1>3. ASSUME NEW p \in Processes, NEW a \in Automations, NEW w \in Windows \cup {0}, Enqueue(p, a, w)
      PROVE  r \in 1..Len(runs') /\ runs'[r].automation = runs[r].automation
  BY <1>1, <1>3, EnqueueEffect
<1>4. ASSUME NEW p \in Processes, MarkStarted(p)
      PROVE  r \in 1..Len(runs') /\ runs'[r].automation = runs[r].automation
  BY <1>4, MarkStartedEffect, MarkStartedFields
<1>5. ASSUME NEW p \in Processes, FinishRun(p)
      PROVE  r \in 1..Len(runs') /\ runs'[r].automation = runs[r].automation
  BY <1>5, FinishRunEffect, FinishRunFields
<1>6. ASSUME NEW p \in Processes, SweepInterrupted(p)
      PROVE  r \in 1..Len(runs') /\ runs'[r].automation = runs[r].automation
  <2>1. runs[r] \in RunRow
    BY ElementOfSeq DEF TypeOK
  <2> QED
    BY <1>6, <2>1, SweepEffect DEF RunRow
<1>7. ASSUME UNCHANGED runs
      PROVE  r \in 1..Len(runs') /\ runs'[r].automation = runs[r].automation
  BY <1>7
<1> QED
  BY <1>3, <1>4, <1>5, <1>6, <1>7, StepCases
     DEF Still, TakeJob, ReleaseAutomation, BeginRun, DrainQueue, ResetPending, Listen, Discover, StopRun,
         ReturnFromRun, Die

\* A process starts with nothing in memory, and before it has swept nobody can add to it.
LEMMA CleanStays ==
    ASSUME TypeOK, StartsClean, WorkerWorks, [Next]_vars
    PROVE  StartsClean'
<1>0. returns \in Nat /\ (NoReturns' => NoReturns)
  BY RowsAfter
<1> SUFFICES ASSUME NoReturns', NEW q \in Processes
             PROVE  /\ life'[q] # "idle"
                    /\ life'[q] \in {"down", "drain", "reset", "sweep"} =>
                          known'[q] = {} /\ queue'[q] = <<>> /\ pending'[q] = {}
  BY DEF StartsClean
<1>a. /\ life[q] # "idle"
      /\ life[q] \in {"down", "drain", "reset", "sweep"} =>
            known[q] = {} /\ queue[q] = <<>> /\ pending[q] = {}
  BY <1>0 DEF StartsClean
<1>1. ASSUME NEW p \in Processes, NEW a \in Automations, NEW w \in Windows \cup {0}, Enqueue(p, a, w)
      PROVE  /\ life'[q] # "idle"
             /\ life'[q] \in {"down", "drain", "reset", "sweep"} =>
                   known'[q] = {} /\ queue'[q] = <<>> /\ pending'[q] = {}
  <2>1. a \in known[p] /\ life' = life /\ known' = known
    BY <1>1 DEF Enqueue
  <2>2. q # p => queue'[q] = queue[q] /\ pending'[q] = pending[q]
    BY <1>1, EnqueueEffect
  <2> QED
    BY <1>a, <2>1, <2>2
<1>2. ASSUME NEW p \in Processes, BeginRun(p) \/ DrainQueue(p) \/ ResetPending(p) \/ SweepInterrupted(p)
      PROVE  /\ life'[q] # "idle"
             /\ life'[q] \in {"down", "drain", "reset", "sweep"} =>
                   known'[q] = {} /\ queue'[q] = <<>> /\ pending'[q] = {}
  BY <1>2, <1>a DEF BeginRun, DrainQueue, ResetPending, SweepInterrupted, TypeOK
<1>3. ASSUME NEW p \in Processes, TakeJob(p) \/ MarkStarted(p) \/ FinishRun(p) \/ ReleaseAutomation(p)
      PROVE  /\ life'[q] # "idle"
             /\ life'[q] \in {"down", "drain", "reset", "sweep"} =>
                   known'[q] = {} /\ queue'[q] = <<>> /\ pending'[q] = {}
  <2>1. Working(p) /\ life' = life /\ known' = known
    BY <1>3
       DEF TakeJob, MarkStarted, FinishRun, ReleaseAutomation, WorkerWorks
  <2>2. q # p => queue'[q] = queue[q] /\ pending'[q] = pending[q]
    BY <1>3 DEF TakeJob, MarkStarted, FinishRun, ReleaseAutomation, TypeOK
  <2> QED
    BY <1>a, <2>1, <2>2 DEF Working
<1>4. ASSUME NEW p \in Processes, Listen(p) \/ Discover(p) \/ StopRun(p) \/ Die(p)
      PROVE  /\ life'[q] # "idle"
             /\ life'[q] \in {"down", "drain", "reset", "sweep"} =>
                   known'[q] = {} /\ queue'[q] = <<>> /\ pending'[q] = {}
  BY <1>4, <1>a DEF Listen, Discover, StopRun, Die, TypeOK, Working
<1>5. ~ \E p \in Processes : ReturnFromRun(p)
  BY <1>0 DEF ReturnFromRun, NoReturns
<1>6. ASSUME Still
      PROVE  /\ life'[q] # "idle"
             /\ life'[q] \in {"down", "drain", "reset", "sweep"} =>
                   known'[q] = {} /\ queue'[q] = <<>> /\ pending'[q] = {}
  BY <1>6, <1>a DEF Still
<1> QED
  BY <1>1, <1>2, <1>3, <1>4, <1>5, <1>6, StepCases

\* Each process adds an automation to the pending set together with its job, and takes it out
\* with the job, whatever other processes do.
BusyInv == JobsArePending /\ QueueHoldsOne /\ PendingHasJob

LEMMA BusyStays ==
    ASSUME TypeOK, WorkerWorks, QueueInOrder, StartsClean, BusyInv, [Next]_vars
    PROVE  BusyInv'
<1> DEFINE Fine(q) ==
              /\ NoReturns => \A r \in Jobs(q) : runs[r].automation \in pending[q]
              /\ NoReturns => \A r, s \in Jobs(q) : runs[r].automation = runs[s].automation => r = s
              /\ Working(q) \/ life[q] = "sweep" =>
                    \A b \in pending[q] : \E r \in Jobs(q) : runs[r].automation = b
<1>0. \A q \in Processes : Fine(q)
  BY DEF BusyInv, JobsArePending, QueueHoldsOne, PendingHasJob
<1> SUFFICES ASSUME NEW q \in Processes PROVE Fine(q)'
  BY DEF BusyInv, JobsArePending, QueueHoldsOne, PendingHasJob
<1>1. /\ NoReturns' => NoReturns
      /\ \A r \in Jobs(q) : r \in 1..Len(runs) /\ runs'[r].automation = runs[r].automation
  BY RowsAfter, JobsInOrder
\* The jobs, what is pending and whether Run is past its reset stay as they are.
<1>2. ASSUME Jobs(q)' = Jobs(q), pending'[q] = pending[q],
             (Working(q) \/ life[q] = "sweep")' => Working(q) \/ life[q] = "sweep"
      PROVE  Fine(q)'
  BY <1>0, <1>1, <1>2
<1>3. ASSUME NEW p \in Processes, NEW a \in Automations, NEW w \in Windows \cup {0}, Enqueue(p, a, w)
      PROVE  Fine(q)'
  <2>1. life' = life /\ a \notin pending[p] /\ Len(runs) \in Nat
    BY <1>3, RowsAfter DEF Enqueue, Busy
  <2>2. CASE Jobs(q)' = Jobs(q) /\ pending'[q] = pending[q]
    BY <1>2, <2>1, <2>2 DEF Working
  <2>3. CASE /\ q = p /\ Jobs(p)' = Jobs(p) \cup {Len(runs) + 1}
             /\ pending'[p] = pending[p] \cup {a} /\ runs'[Len(runs) + 1] = Row(a, w, "queued")
    <3>1. runs'[Len(runs) + 1].automation = a
      BY <2>3 DEF Row
    <3>2. Len(runs) + 1 \notin Jobs(q)
      BY <1>1, <2>1
    <3>3. NoReturns' => \A r \in Jobs(q)' : runs'[r].automation \in pending'[q]
      BY <1>0, <1>1, <2>3, <3>1
    <3>4. NoReturns' => \A r, s \in Jobs(q)' : runs'[r].automation = runs'[s].automation => r = s
      BY <1>0, <1>1, <2>1, <2>3, <3>1
    <3>5. (Working(q) \/ life[q] = "sweep")' =>
             \A b \in pending'[q] : \E r \in Jobs(q)' : runs'[r].automation = b
      BY <1>0, <1>1, <2>1, <2>3, <3>1 DEF Working
    <3> QED
      BY <3>3, <3>4, <3>5
  <2> QED
    BY <1>3, <2>2, <2>3, EnqueueJobs, EnqueueEffect
<1>4. ASSUME NEW p \in Processes, TakeJob(p) \/ MarkStarted(p) \/ FinishRun(p) PROVE Fine(q)'
  <2>1. Jobs(q)' = Jobs(q)
    BY <1>4, TakeJobKeepsJobs, OtherJobs
  <2>2. pending' = pending /\ life' = life
    BY <1>4 DEF TakeJob, MarkStarted, FinishRun
  <2> QED
    BY <1>2, <2>1, <2>2 DEF Working
<1>5. ASSUME NEW p \in Processes, ReleaseAutomation(p) PROVE Fine(q)'
  <2>1. life' = life /\ runs' = runs
    BY <1>5 DEF ReleaseAutomation
  <2>2. CASE q # p
    <3>1. Jobs(q)' = Jobs(q) /\ pending'[q] = pending[q]
      BY <1>5, <2>2, ReleaseDropsJob DEF ReleaseAutomation, TypeOK
    <3> QED
      BY <1>2, <2>1, <3>1 DEF Working
  <2>3. CASE q = p
    <3>1. Jobs(q)' = Jobs(q) \ {work[q].run} /\ work[q].run \in Jobs(q)
      BY <1>5, <2>3, ReleaseDropsJob
    <3>2. pending'[q] = pending[q] \ {runs[work[q].run].automation}
      BY <1>5, <2>3 DEF ReleaseAutomation, TypeOK
    <3> QED
      BY <1>0, <1>1, <2>1, <3>1, <3>2 DEF Working
  <2> QED
    BY <2>2, <2>3
<1>6. ASSUME NEW p \in Processes, BeginRun(p) \/ SweepInterrupted(p) \/ Listen(p) \/ Discover(p) \/
             StopRun(p) \/ ReturnFromRun(p)
      PROVE  Fine(q)'
  <2>1. Jobs(q)' = Jobs(q) /\ pending'[q] = pending[q]
    BY <1>6, OtherJobs DEF BeginRun, SweepInterrupted, Listen, Discover, StopRun, ReturnFromRun
  <2>2. (Working(q) \/ life[q] = "sweep")' => Working(q) \/ life[q] = "sweep"
    BY <1>6
       DEF BeginRun, SweepInterrupted, Listen, Discover, StopRun, ReturnFromRun, Working, TypeOK
  <2> QED
    BY <1>2, <2>1, <2>2
<1>7. ASSUME NEW p \in Processes, DrainQueue(p) \/ ResetPending(p) \/ Die(p) PROVE Fine(q)'
  <2>1. CASE q # p
    <3>1. Jobs(q)' = Jobs(q)
      BY <1>7, <2>1, OtherJobs
    <3>2. pending'[q] = pending[q] /\ life'[q] = life[q]
      BY <1>7, <2>1 DEF DrainQueue, ResetPending, Die, TypeOK
    <3> QED
      BY <1>2, <3>1, <3>2 DEF Working
  <2>2. CASE q = p /\ (DrainQueue(p) \/ Die(p))
    <3>1. Jobs(q)' = {}
      BY <2>2, OtherJobs
    <3>2. ~(Working(q) \/ life[q] = "sweep")'
      BY <2>2 DEF DrainQueue, Die, Working, TypeOK
    <3> QED
      BY <3>1, <3>2
  <2>3. CASE q = p /\ ResetPending(p)
    <3>1. Jobs(q)' = Jobs(q) /\ pending'[q] = {}
      BY <2>3, OtherJobs DEF ResetPending, TypeOK
    <3>2. NoReturns => Jobs(q) = {}
      <4>1. NoReturns => queue[q] = <<>>
        BY <2>3 DEF ResetPending, StartsClean
      <4>2. work[q].run = 0
        BY <2>3 DEF ResetPending, WorkerWorks, Working
      <4>3. Len(<<>>) = 0
        BY EmptySeq
      <4>4. ASSUME NoReturns, NEW r PROVE r \notin Jobs(q)
        BY <4>1, <4>2, <4>3, <4>4, JobsAre
      <4> QED
        BY <4>4
    <3> QED
      BY <1>1, <3>1, <3>2
  <2> QED
    BY <1>7, <2>1, <2>2, <2>3
<1>8. ASSUME Still PROVE Fine(q)'
  <2>1. Jobs(q)' = Jobs(q)
    BY <1>8, StillJobs
  <2> QED
    BY <1>2, <1>8, <2>1 DEF Still, Working
<1> QED
  BY <1>3, <1>4, <1>5, <1>6, <1>7, <1>8, StepCases

\* What the rows say of the worker and its jobs, if nobody else writes them.
RowsInv == RowsTellWork /\ SoleRunner /\ UnsettledIsJob /\ RunsAreSerial

LEMMA RowsStay ==
    ASSUME OneProcess, TypeOK, WorkerWorks, QueueInOrder, StartsClean, RowsInv, [Next]_vars
    PROVE  RowsInv'
<1> USE DEF Waiting, Settled, Unsettled
<1> DEFINE Told(q) ==
              /\ \A r \in Jobs(q) : r # work[q].run => Waiting(r)
              /\ work[q].pc = "taken" => Waiting(work[q].run)
              /\ work[q].pc = "running" => runs[work[q].run].status = "running"
              /\ work[q].pc = "finished" => Settled(work[q].run)
           Sole(q) ==
              Working(q) =>
                 \A r \in 1..Len(runs) :
                    /\ runs[r].status = "running" => work[q].run = r /\ work[q].pc = "running"
                    /\ Settled(r) \/ r \in Jobs(q)
           Serial ==
              \A r, s \in 1..Len(runs) :
                 runs[r].status = "running" /\ runs[s].status = "running" => r = s
<1>a. DOMAIN runs = 1..Len(runs) /\ DOMAIN runs' = 1..Len(runs')
  BY StepType, LenProperties DEF TypeOK
<1>0. Serial /\ \A q \in Processes : Told(q) /\ Sole(q)
  BY <1>a DEF RowsInv, RowsTellWork, SoleRunner, UnsettledIsJob, RunsAreSerial
<1> SUFFICES Serial' /\ \A q \in Processes : Told(q)' /\ Sole(q)'
  BY <1>a DEF RowsInv, RowsTellWork, SoleRunner, UnsettledIsJob, RunsAreSerial
<1>b. \A p, q \in Processes : p = q
  BY DEF OneProcess
<1>c. /\ NoReturns' => NoReturns
      /\ Len(runs) \in Nat
      /\ \A p \in Processes : \A r \in Jobs(p) : r \in 1..Len(runs)
      /\ \A p \in Processes : work[p].run # 0 => work[p].run \in 1..Len(runs) /\ Working(p)
      /\ \A p \in Processes : work[p].pc = "none" <=> work[p].run = 0
  BY RowsAfter, JobsInOrder DEF QueueInOrder, WorkerWorks
<1>1. ASSUME NEW p \in Processes, NEW a \in Automations, NEW w \in Windows \cup {0}, Enqueue(p, a, w)
      PROVE  Serial' /\ Told(p)' /\ Sole(p)'
  <2>1. life' = life /\ work' = work /\ returns' = returns
    BY <1>1 DEF Enqueue, world
  <2>2. /\ Len(runs') = Len(runs) + 1
        /\ \A r \in 1..Len(runs) : runs'[r] = runs[r]
    BY <1>1, EnqueueEffect
  <2>3. \A r \in 1..Len(runs') : r \in 1..Len(runs) \/ r = Len(runs) + 1
    BY <1>c, <2>2
  <2>4. \/ Jobs(p)' = Jobs(p) \cup {Len(runs) + 1} /\ runs'[Len(runs) + 1].status = "queued"
        \/ Jobs(p)' = Jobs(p) /\ runs'[Len(runs) + 1].status = "error"
    <3>1. \/ Jobs(p)' = Jobs(p) \cup {Len(runs) + 1} /\ runs'[Len(runs) + 1] = Row(a, w, "queued")
          \/ Jobs(p)' = Jobs(p) /\ runs'[Len(runs) + 1] = Row(a, w, "error")
      BY <1>1, EnqueueJobs
    <3>2. Row(a, w, "queued").status = "queued" /\ Row(a, w, "error").status = "error"
      BY DEF Row
    <3> QED
      BY <3>1, <3>2
  <2>5. Serial'
    BY <1>0, <2>2, <2>3, <2>4
  <2>6. Told(p)'
    BY <1>0, <1>c, <2>1, <2>2, <2>4 DEF NoReturns
  <2>7. Sole(p)'
    BY <1>0, <1>c, <2>1, <2>2, <2>3, <2>4 DEF Working
  <2> QED
    BY <2>5, <2>6, <2>7
<1>2. ASSUME NEW p \in Processes, TakeJob(p) PROVE Serial' /\ Told(p)' /\ Sole(p)'
  <2>1. life' = life /\ runs' = runs /\ returns' = returns /\ work[p].run = 0
    BY <1>2 DEF TakeJob, world, NoWork
  <2>2. /\ Jobs(p)' = Jobs(p) /\ queue[p][1] \in Jobs(p)
        /\ work'[p].run = queue[p][1] /\ work'[p].pc = "taken"
    <3>1. /\ Jobs(p)' = Jobs(p) /\ queue[p][1] \in Jobs(p)
          /\ work'[p] = [run |-> queue[p][1], pc |-> "taken"]
      BY <1>2, TakeJobKeepsJobs
    <3> QED
      BY <3>1
  <2>3. Serial'
    BY <1>0, <2>1
  <2>4. Told(p)'
    BY <1>0, <1>c, <2>1, <2>2 DEF NoReturns
  <2>5. Sole(p)'
    BY <1>0, <1>c, <2>1, <2>2 DEF Working
  <2> QED
    BY <2>3, <2>4, <2>5
<1>3. ASSUME NEW p \in Processes, MarkStarted(p) PROVE Serial' /\ Told(p)' /\ Sole(p)'
  <2>1. life' = life /\ returns' = returns /\ work[p].pc = "taken" /\ Jobs(p)' = Jobs(p)
    BY <1>3, OtherJobs DEF MarkStarted, world
  <2>2. work'[p].run = work[p].run /\ work'[p].pc = "running"
    BY <1>3, PcMoves
  <2>3. Len(runs') = Len(runs)
        /\ \A r \in 1..Len(runs) :
              /\ r = work[p].run => runs'[r].status = "running"
              /\ r # work[p].run => runs'[r] = runs[r]
    BY <1>3, MarkStartedEffect, MarkStartedFields
  <2>4. work[p].run \in 1..Len(runs) /\ Working(p) /\ work[p].run \in Jobs(p)
    BY <1>c, <2>1, JobsAre
  <2>5. Serial'
    BY <1>0, <2>1, <2>3, <2>4
  <2>6. Told(p)'
    BY <1>0, <1>c, <2>1, <2>2, <2>3, <2>4 DEF NoReturns
  <2>7. Sole(p)'
    BY <1>0, <1>c, <2>1, <2>2, <2>3, <2>4 DEF Working
  <2> QED
    BY <2>5, <2>6, <2>7
<1>4. ASSUME NEW p \in Processes, FinishRun(p) PROVE Serial' /\ Told(p)' /\ Sole(p)'
  <2>1. life' = life /\ returns' = returns /\ work[p].pc = "running" /\ Jobs(p)' = Jobs(p)
    BY <1>4, OtherJobs DEF FinishRun, world
  <2>2. work'[p].run = work[p].run /\ work'[p].pc = "finished"
    <3>1. ~MarkStarted(p)
      BY <2>1 DEF MarkStarted
    <3> QED
      BY <1>4, <3>1, PcMoves
  <2>3. Len(runs') = Len(runs)
        /\ \A r \in 1..Len(runs) :
              /\ r = work[p].run => runs'[r].status \in {"ok", "failed", "error"}
              /\ r # work[p].run => runs'[r] = runs[r]
    BY <1>4, FinishRunEffect, FinishRunFields
  <2>4. work[p].run \in 1..Len(runs) /\ Working(p)
    BY <1>c, <2>1
  <2>5. Serial'
    BY <1>0, <2>3
  <2>6. Told(p)'
    BY <1>0, <1>c, <2>1, <2>2, <2>3, <2>4 DEF NoReturns
  <2>7. Sole(p)'
    BY <1>0, <1>c, <2>1, <2>2, <2>3, <2>4 DEF Working
  <2> QED
    BY <2>5, <2>6, <2>7
<1>5. ASSUME NEW p \in Processes, ReleaseAutomation(p) PROVE Serial' /\ Told(p)' /\ Sole(p)'
  <2>1. life' = life /\ runs' = runs /\ returns' = returns /\ work[p].pc = "finished"
    BY <1>5 DEF ReleaseAutomation, world
  <2>2. Jobs(p)' = Jobs(p) \ {work[p].run} /\ work[p].run \in Jobs(p)
    BY <1>5, ReleaseDropsJob
  <2>3. work'[p] = NoWork
    <3>1. \A q \in Processes : work'[q] = IF q = p THEN NoWork ELSE work[q]
      BY <1>5, WorkIsSet DEF ReleaseAutomation
    <3> QED
      BY <3>1
  <2>4. work'[p].run = 0 /\ work'[p].pc = "none"
    BY <2>3 DEF NoWork
  <2> QED
    BY <1>0, <1>c, <2>1, <2>2, <2>4 DEF Working, NoReturns
<1>6. ASSUME NEW p \in Processes, BeginRun(p) \/ ResetPending(p) \/ Listen(p) \/ Discover(p) \/ StopRun(p)
                                  \/ ReturnFromRun(p)
      PROVE  Serial' /\ Told(p)' /\ Sole(p)'
  <2>1. Jobs(p)' = Jobs(p)
    BY <1>6, OtherJobs
  <2>2. runs' = runs /\ work' = work
    BY <1>6 DEF BeginRun, ResetPending, Listen, Discover, StopRun, ReturnFromRun
  <2>3. Working(p)' => Working(p)
    BY <1>6 DEF BeginRun, ResetPending, Listen, Discover, StopRun, ReturnFromRun, Working, TypeOK
  <2> QED
    BY <1>0, <1>c, <2>1, <2>2, <2>3
<1>7. ASSUME NEW p \in Processes, DrainQueue(p) \/ Die(p) PROVE Serial' /\ Told(p)' /\ Sole(p)'
  <2>1. Jobs(p)' = {} /\ work'[p].run = 0
    BY <1>7, OtherJobs
  <2>2. runs' = runs /\ ~Working(p)'
    BY <1>7 DEF DrainQueue, Die, Working, TypeOK
  <2>3. work'[p].pc = "none"
    BY <2>1, WorkerStays DEF WorkerWorks
  <2> QED
    BY <1>0, <2>1, <2>2, <2>3
<1>8. ASSUME NEW p \in Processes, SweepInterrupted(p) PROVE Serial' /\ Told(p)' /\ Sole(p)'
  <2>1. life[p] = "sweep" /\ work' = work /\ Jobs(p)' = Jobs(p) /\ returns' = returns
    BY <1>8, OtherJobs DEF SweepInterrupted, world
  <2>2. work[p].run = 0 /\ work[p].pc = "none"
    BY <1>c, <2>1 DEF Working
  <2>3. /\ Len(runs') = Len(runs)
        /\ \A r \in 1..Len(runs) :
              /\ runs[r].status \in Unsettled => runs'[r].status = "error"
              /\ runs[r].status \notin Unsettled => runs'[r].status = runs[r].status
    <3>1. \A r \in 1..Len(runs) : runs[r] \in RunRow
      BY ElementOfSeq DEF TypeOK
    <3> QED
      BY <1>8, <3>1, SweepEffect DEF RunRow
  <2>4. NoReturns => Jobs(p) = {}
    <3>1. NoReturns => queue[p] = <<>>
      BY <2>1 DEF StartsClean
    <3>2. Len(<<>>) = 0
      BY EmptySeq
    <3>3. ASSUME NoReturns, NEW r PROVE r \notin Jobs(p)
      BY <2>2, <3>1, <3>2, <3>3, JobsAre
    <3> QED
      BY <3>3
  <2>5. Serial'
    BY <2>3
  <2>6. Told(p)'
    BY <1>0, <1>c, <2>1, <2>2, <2>3, <2>4
  <2>7. Sole(p)'
    BY <2>3
  <2> QED
    BY <2>5, <2>6, <2>7
<1>9. ASSUME Still, NEW p \in Processes PROVE Serial' /\ Told(p)' /\ Sole(p)'
  <2>1. Jobs(p)' = Jobs(p)
    BY <1>9, StillJobs
  <2> QED
    BY <1>0, <1>9, <2>1 DEF Still, Working, NoReturns
<1>10. CASE Still
  <2>1. Serial'
    BY <1>0, <1>10 DEF Still
  <2> QED
    BY <1>9, <1>10, <2>1
<1> QED
  BY <1>b, <1>1, <1>2, <1>3, <1>4, <1>5, <1>6, <1>7, <1>8, <1>10, StepCases

\* The run at work has started last of all, so an outcome is never older than those before it.
LEMMA ClockStays ==
    ASSUME OneProcess, TypeOK, WorkerWorks, QueueInOrder, RowsInv, ClockLeads, [Next]_vars
    PROVE  ClockLeads'
<1> DEFINE Latest(p) ==
              work[p].pc = "running" =>
                 \A r \in 1..Len(runs) :
                    runs[r].status = "ok" => runs[r].started <= runs[work[p].run].started
           Past == \A r \in 1..Len(runs) : runs[r].started <= now
<1>0. Past /\ \A p \in Processes : Latest(p)
  BY DEF ClockLeads
<1> SUFFICES Past' /\ \A p \in Processes : Latest(p)'
  BY DEF ClockLeads
<1>a. /\ now \in Nat /\ Len(runs) \in Nat
      /\ \A r \in 1..Len(runs) : runs[r] \in RunRow /\ runs[r].started \in Nat
  <2>1. now \in Nat /\ Len(runs) \in Nat
    BY LenProperties, Bounds DEF TypeOK
  <2>2. ASSUME NEW r \in 1..Len(runs) PROVE runs[r] \in RunRow /\ runs[r].started \in Nat
    <3>1. runs[r] \in RunRow
      BY ElementOfSeq DEF TypeOK
    <3> QED
      BY <3>1, Bounds DEF RunRow
  <2> QED
    BY <2>1, <2>2
<1>b. /\ \A p, q \in Processes : p = q
      /\ \A p \in Processes : work[p].run # 0 => work[p].run \in 1..Len(runs) /\ Working(p)
      /\ \A p \in Processes : work[p].pc = "none" <=> work[p].run = 0
      /\ \A p \in Processes : work[p].pc = "running" => runs[work[p].run].status = "running"
  BY DEF OneProcess, QueueInOrder, WorkerWorks, RowsInv, RowsTellWork
<1>1. ASSUME NEW p \in Processes, NEW a \in Automations, NEW w \in Windows \cup {0}, Enqueue(p, a, w)
      PROVE  Past' /\ Latest(p)'
  <2>1. work' = work /\ now' = now
    BY <1>1 DEF Enqueue, world
  <2>2. /\ Len(runs') = Len(runs) + 1
        /\ \A r \in 1..Len(runs) : runs'[r] = runs[r]
    BY <1>1, EnqueueEffect
  <2>3. \A r \in 1..Len(runs') : r \in 1..Len(runs) \/ r = Len(runs) + 1
    BY <1>a, <2>2
  <2>4. \/ runs'[Len(runs) + 1] = Row(a, w, "queued")
        \/ runs'[Len(runs) + 1] = Row(a, w, "error")
    BY <1>1, EnqueueJobs
  <2>5. runs'[Len(runs) + 1].started = now /\ runs'[Len(runs) + 1].status # "ok"
    BY <2>4 DEF Row
  <2>6. Past'
    BY <1>0, <1>a, <2>1, <2>2, <2>3, <2>5
  <2>7. Latest(p)'
    BY <1>0, <1>b, <2>1, <2>2, <2>3, <2>5
  <2> QED
    BY <2>6, <2>7
<1>2. ASSUME NEW p \in Processes, MarkStarted(p) PROVE Past' /\ Latest(p)'
  <2>1. now' = now /\ work[p].pc = "taken"
    BY <1>2 DEF MarkStarted, world
  <2>2. work'[p].run = work[p].run
    BY <1>2, PcMoves
  <2>3. Len(runs') = Len(runs)
        /\ \A r \in 1..Len(runs) :
              /\ r # work[p].run => runs'[r] = runs[r]
              /\ r = work[p].run => runs'[r].started = now
    BY <1>2, MarkStartedEffect, MarkStartedFields
  <2>4. work[p].run \in 1..Len(runs)
    BY <1>b, <2>1
  <2>5. Past'
    BY <1>0, <1>a, <2>1, <2>3
  <2>6. Latest(p)'
    BY <1>0, <1>a, <2>2, <2>3, <2>4
  <2> QED
    BY <2>5, <2>6
<1>3. ASSUME NEW p \in Processes, FinishRun(p) PROVE Past' /\ Latest(p)'
  <2>1. now' = now
    BY <1>3 DEF FinishRun, world
  <2>2. work'[p].pc # "running"
    <3>1. ~MarkStarted(p)
      BY <1>3 DEF FinishRun, MarkStarted
    <3> QED
      BY <1>3, <3>1, PcMoves
  <2>3. Len(runs') = Len(runs) /\ \A r \in 1..Len(runs) : runs'[r].started = runs[r].started
    BY <1>3, FinishRunEffect, FinishRunFields
  <2> QED
    BY <1>0, <2>1, <2>2, <2>3
<1>4. ASSUME NEW p \in Processes, SweepInterrupted(p) PROVE Past' /\ Latest(p)'
  <2>1. now' = now /\ work' = work /\ ~Working(p)
    BY <1>4 DEF SweepInterrupted, Working, world
  <2>2. work'[p].pc # "running"
    BY <1>b, <2>1
  <2>3. Len(runs') = Len(runs) /\ \A r \in 1..Len(runs) : runs'[r].started = runs[r].started
    BY <1>4, <1>a, SweepEffect DEF RunRow
  <2> QED
    BY <1>0, <2>1, <2>2, <2>3
<1>5. ASSUME NEW p \in Processes, TakeJob(p) \/ ReleaseAutomation(p) \/ Die(p) PROVE Past' /\ Latest(p)'
  <2>1. runs' = runs /\ now' = now
    BY <1>5 DEF TakeJob, ReleaseAutomation, Die, world
  <2>2. work'[p] = NoWork \/ work'[p] = [run |-> Head(queue[p]), pc |-> "taken"]
    BY <1>5 DEF TakeJob, ReleaseAutomation, Die, TypeOK
  <2>3. work'[p].pc # "running"
    BY <2>2 DEF NoWork
  <2> QED
    BY <1>0, <2>1, <2>3
<1>6. ASSUME NEW p \in Processes, BeginRun(p) \/ DrainQueue(p) \/ ResetPending(p) \/ Listen(p)
                                  \/ Discover(p) \/ StopRun(p) \/ ReturnFromRun(p)
      PROVE  Past' /\ Latest(p)'
  <2>1. UNCHANGED <<runs, work, now>>
    BY <1>6 DEF BeginRun, DrainQueue, ResetPending, Listen, Discover, StopRun, ReturnFromRun, world
  <2> QED
    BY <1>0, <2>1
<1>7. CASE Still
  <2>1. runs' = runs /\ work' = work /\ now <= now'
    BY <1>7 DEF Still
  <2>2. now' \in Nat
    BY StepType, Bounds DEF TypeOK
  <2> QED
    BY <1>0, <1>a, <2>1, <2>2
<1> QED
  BY <1>b, <1>1, <1>2, <1>3, <1>4, <1>5, <1>6, <1>7, StepCases

-----------------------------------------------------------------------------
(* What the service keeps.                                                   *)

\* What holds however many processes open the root.
SharedInv == TypeOK /\ WorkerWorks /\ QueueInOrder /\ StartsClean /\ BusyInv

RunnerInv == SharedInv /\ RowsInv /\ ClockLeads

LEMMA InitRunner == Init => RunnerInv
<1> SUFFICES ASSUME Init PROVE RunnerInv
  OBVIOUS
<1>1. /\ Len(<<>>) = 0 /\ runs = <<>> /\ DOMAIN runs = {}
  BY EmptySeq DEF Init
<1>2. TypeOK
  BY InitType
<1>3. \A p \in Processes : /\ queue[p] = <<>> /\ work[p].run = 0 /\ work[p].pc = "none" /\ pending[p] = {}
                           /\ known[p] = {} /\ life[p] = "down"
  BY DEF Init, NoWork
<1>4. WorkerWorks /\ QueueInOrder /\ StartsClean
  BY <1>1, <1>3 DEF WorkerWorks, QueueInOrder, StartsClean
<1>5. ASSUME NEW p \in Processes, NEW r PROVE r \notin Jobs(p)
  BY <1>1, <1>2, <1>3, JobsAre
<1>6. BusyInv
  BY <1>3, <1>5 DEF BusyInv, JobsArePending, QueueHoldsOne, PendingHasJob
<1>7. RowsInv
  BY <1>1, <1>3, <1>5
     DEF RowsInv, RowsTellWork, SoleRunner, UnsettledIsJob, RunsAreSerial, Working
<1>8. ClockLeads
  BY <1>1, <1>3 DEF ClockLeads
<1> QED
  BY <1>2, <1>4, <1>6, <1>7, <1>8 DEF RunnerInv, SharedInv

LEMMA SharedStays == SharedInv /\ [Next]_vars => SharedInv'
BY StepType, WorkerStays, OrderStays, CleanStays, BusyStays DEF SharedInv

LEMMA RunnerStays == ASSUME OneProcess PROVE RunnerInv /\ [Next]_vars => RunnerInv'
BY SharedStays, RowsStay, ClockStays DEF SharedInv, RunnerInv

\* The queue of a process holds no two entries of one automation, the run in flight counted,
\* until Run returns in it, whatever other processes do to the root.
THEOREM QueueNeverRepeats == Spec => []QueueHoldsOne
<1>1. Init => SharedInv
  BY InitRunner DEF RunnerInv
<1>2. SharedInv => QueueHoldsOne
  BY DEF SharedInv, BusyInv
<1> QED
  BY <1>1, <1>2, SharedStays, PTL DEF Spec

\* On a root with one process at most one run is running, over deaths and returns of Run.
THEOREM SerialRuns == ASSUME OneProcess PROVE Spec => []RunsAreSerial
<1>1. RunnerInv => RunsAreSerial
  BY DEF RunnerInv, RowsInv
<1> QED
  BY <1>1, InitRunner, RunnerStays, PTL DEF Spec

\* While Run works, each run that has not settled is a job, and each busy automation has one.
THEOREM NobodyWaitsInVain == ASSUME OneProcess PROVE Spec => []NothingWaitsInVain
<1>1. RunnerInv => NothingWaitsInVain
  <2> SUFFICES ASSUME RunnerInv PROVE NothingWaitsInVain
    OBVIOUS
  <2>1. DOMAIN runs = 1..Len(runs)
    BY LenProperties DEF RunnerInv, SharedInv, TypeOK
  <2> QED
    BY <2>1 DEF RunnerInv, SharedInv, BusyInv, PendingHasJob, RowsInv, UnsettledIsJob, NothingWaitsInVain
<1> QED
  BY <1>1, InitRunner, RunnerStays, PTL DEF Spec

-----------------------------------------------------------------------------
(* A window that is satisfied stays so.                                      *)

\* What is ok keeps all that the verdict reads, and what becomes ok started after it.
LEMMA OkIsKept ==
    ASSUME OneProcess, RunnerInv, [Next]_vars
    PROVE  /\ \A r \in 1..Len(runs) : runs[r].status = "ok" =>
                 /\ r \in 1..Len(runs')
                 /\ runs'[r].automation = runs[r].automation /\ runs'[r].started = runs[r].started
                 /\ runs'[r].status = "ok" /\ runs'[r].newest = runs[r].newest
           /\ \A b \in 1..Len(runs') : runs'[b].status = "ok" =>
                 \/ b \in 1..Len(runs) /\ runs[b].status = "ok"
                 \/ \A r \in 1..Len(runs) : runs[r].status = "ok" => runs[r].started <= runs'[b].started
<1> DEFINE Kept == \A r \in 1..Len(runs) : runs[r].status = "ok" =>
                      /\ r \in 1..Len(runs')
                      /\ runs'[r].automation = runs[r].automation /\ runs'[r].started = runs[r].started
                      /\ runs'[r].status = "ok" /\ runs'[r].newest = runs[r].newest
           Late == \A b \in 1..Len(runs') : runs'[b].status = "ok" =>
                      \/ b \in 1..Len(runs) /\ runs[b].status = "ok"
                      \/ \A r \in 1..Len(runs) :
                            runs[r].status = "ok" => runs[r].started <= runs'[b].started
<1>a. TypeOK /\ Len(runs) \in Nat
  BY RowsAfter DEF RunnerInv, SharedInv
<1>b. \A p \in Processes :
         /\ work[p].run # 0 => work[p].run \in 1..Len(runs)
         /\ work[p].pc = "none" <=> work[p].run = 0
         /\ work[p].pc = "taken" => runs[work[p].run].status # "ok"
         /\ work[p].pc = "running" => runs[work[p].run].status = "running"
         /\ work[p].pc = "running" =>
               \A r \in 1..Len(runs) :
                  runs[r].status = "ok" => runs[r].started <= runs[work[p].run].started
  BY DEF RunnerInv, SharedInv, RowsInv, QueueInOrder, WorkerWorks, RowsTellWork, Waiting, ClockLeads
<1>1. ASSUME NEW p \in Processes, NEW a \in Automations, NEW w \in Windows \cup {0}, Enqueue(p, a, w)
      PROVE  Kept /\ Late
  <2>1. Len(runs') = Len(runs) + 1 /\ \A r \in 1..Len(runs) : runs'[r] = runs[r]
    BY <1>1, <1>a, EnqueueEffect
  <2>2. \A r \in 1..Len(runs') : r \in 1..Len(runs) \/ r = Len(runs) + 1
    BY <1>a, <2>1
  <2>3. \/ runs'[Len(runs) + 1] = Row(a, w, "queued")
        \/ runs'[Len(runs) + 1] = Row(a, w, "error")
    BY <1>1, <1>a, EnqueueJobs
  <2>4. runs'[Len(runs) + 1].status # "ok"
    BY <2>3 DEF Row
  <2> QED
    BY <1>a, <2>1, <2>2, <2>4
<1>2. ASSUME NEW p \in Processes, MarkStarted(p) PROVE Kept /\ Late
  <2>1. Len(runs') = Len(runs)
        /\ \A r \in 1..Len(runs) :
              /\ r # work[p].run => runs'[r] = runs[r]
              /\ r = work[p].run => runs'[r].status = "running"
    BY <1>2, <1>a, MarkStartedEffect, MarkStartedFields
  <2>2. runs[work[p].run].status # "ok"
    BY <1>2, <1>b DEF MarkStarted
  <2> QED
    BY <2>1, <2>2
<1>3. ASSUME NEW p \in Processes, FinishRun(p) PROVE Kept /\ Late
  <2>1. Len(runs') = Len(runs)
        /\ \A r \in 1..Len(runs) :
              /\ r # work[p].run => runs'[r] = runs[r]
              /\ r = work[p].run => runs'[r].started = runs[r].started
    BY <1>3, <1>a, FinishRunEffect, FinishRunFields
  <2>2. work[p].pc = "running"
    BY <1>3 DEF FinishRun
  <2> QED
    BY <1>b, <2>1, <2>2
<1>4. ASSUME NEW p \in Processes, SweepInterrupted(p) PROVE Kept /\ Late
  <2>1. ASSUME NEW r \in 1..Len(runs)
        PROVE  /\ runs'[r].automation = runs[r].automation /\ runs'[r].started = runs[r].started
               /\ runs'[r].newest = runs[r].newest
               /\ runs'[r].status = "ok" <=> runs[r].status = "ok"
    <3>1. runs[r] \in RunRow
      BY <1>a, ElementOfSeq DEF TypeOK
    <3> QED
      BY <1>4, <1>a, <3>1, SweepEffect DEF RunRow, Unsettled
  <2> QED
    BY <1>4, <1>a, <2>1, SweepEffect
<1>5. ASSUME runs' = runs PROVE Kept /\ Late
  BY <1>5
<1>6. Kept /\ Late
  BY <1>a, <1>1, <1>2, <1>3, <1>4, <1>5, StepCases
     DEF Still, TakeJob, ReleaseAutomation, BeginRun, DrainQueue, ResetPending, Listen, Discover, StopRun,
         ReturnFromRun, Die
<1> QED
  BY <1>6

LEMMA SatisfiedStep ==
    ASSUME OneProcess, RunnerInv, [Next]_vars, NEW a \in Automations, NEW w \in Windows, Satisfied(a, w)
    PROVE  Satisfied(a, w)'
<1>1. TypeOK /\ TypeOK'
  BY StepType DEF RunnerInv, SharedInv
<1>2. DOMAIN runs = 1..Len(runs) /\ DOMAIN runs' = 1..Len(runs')
  BY <1>1, LenProperties DEF TypeOK
<1>3. w \in Nat /\ \A r \in 1..Len(runs) : runs[r].started \in Nat
  <2>1. ASSUME NEW r \in 1..Len(runs) PROVE runs[r].started \in Nat
    <3>1. runs[r] \in RunRow
      BY <1>1, ElementOfSeq DEF TypeOK
    <3> QED
      BY <3>1, Bounds DEF RunRow
  <2> QED
    BY <2>1, WindowsAreInstants, Bounds
<1>4. PICK r \in 1..Len(runs) :
         /\ runs[r].automation = a /\ runs[r].started >= w /\ runs[r].status = "ok" /\ Advanced(r, w)
  BY <1>2 DEF Satisfied, StartedSince, RunsOf
<1>5. /\ r \in 1..Len(runs') /\ runs'[r].automation = a /\ runs'[r].started >= w
      /\ runs'[r].status = "ok" /\ runs'[r].newest = runs[r].newest
  BY <1>4, OkIsKept
<1>6. ASSUME NEW q \in OKBefore(a, w) PROVE q \in OKBefore(a, w)' /\ runs'[q].started = runs[q].started
  BY <1>2, <1>6, OkIsKept DEF OKBefore, RunsOf
<1>7. ASSUME NEW b \in OKBefore(a, w)'
      PROVE  /\ b \in OKBefore(a, w) /\ runs'[b].newest = runs[b].newest
             /\ runs'[b].started = runs[b].started
  <2>1. b \in 1..Len(runs') /\ runs'[b].automation = a /\ runs'[b].status = "ok" /\ runs'[b].started < w
    BY <1>2, <1>7 DEF OKBefore, RunsOf
  <2>2. CASE b \in 1..Len(runs) /\ runs[b].status = "ok"
    BY <1>2, <2>1, <2>2, OkIsKept DEF OKBefore, RunsOf
  <2>3. CASE \A q \in 1..Len(runs) : runs[q].status = "ok" => runs[q].started <= runs'[b].started
    <3>1. runs'[b].started \in Nat
      <4>1. runs'[b] \in RunRow
        BY <1>1, <2>1, ElementOfSeq DEF TypeOK
      <4> QED
        BY <4>1, Bounds DEF RunRow
    <3>2. runs[r].started <= runs'[b].started
      BY <1>4, <2>3
    <3> QED
      BY <1>3, <1>4, <2>1, <3>1, <3>2
  <2> QED
    BY <2>1, <2>2, <2>3, OkIsKept
<1>8. ASSUME NEW b \in Last(OKBefore(a, w))' PROVE runs'[b].newest < runs'[r].newest
  <2>1. b \in OKBefore(a, w)' /\ \A q \in OKBefore(a, w)' :
           \/ runs'[q].started < runs'[b].started
           \/ runs'[q].started = runs'[b].started /\ q <= b
    BY <1>8 DEF Last
  <2>2. b \in Last(OKBefore(a, w))
    BY <1>6, <1>7, <2>1 DEF Last
  <2>3. runs[b].newest < runs[r].newest
    BY <1>4, <2>2 DEF Advanced
  <2> QED
    BY <1>5, <1>7, <2>1, <2>3
<1>9. Advanced(r, w)'
  BY <1>5, <1>8 DEF Advanced
<1> QED
  BY <1>2, <1>5, <1>9 DEF Satisfied, StartedSince, RunsOf

\* On a root with one process, no run, sweep, restart or passing of time makes a window
\* unsatisfied that was satisfied once.
THEOREM SatisfactionLasts == ASSUME OneProcess PROVE Spec => SatisfiedStays
<1>1. RunnerInv /\ [Next]_vars =>
         \A a \in Automations, w \in Windows : Satisfied(a, w) => Satisfied(a, w)'
  BY SatisfiedStep
<1> QED
  BY <1>1, InitRunner, RunnerStays, PTL DEF Spec, SatisfiedStays

-----------------------------------------------------------------------------
(* The table is a ledger.                                                    *)

Stages == {"queued", "running", "settled"}

\* The stage of a run in the ledger.
Stage(r) == IF NoReturns /\ ~Settled(r) THEN runs[r].status ELSE "settled"

Mapped == [r \in DOMAIN runs |-> IF NoReturns /\ ~Settled(r) THEN runs[r].status ELSE "settled"]

LEMMA MappedType ==
    ASSUME TypeOK
    PROVE  /\ Mapped \in Seq(Stages) /\ Len(Mapped) = Len(runs) /\ Len(runs) \in Nat
           /\ DOMAIN Mapped = 1..Len(runs) /\ DOMAIN runs = 1..Len(runs)
           /\ \A r \in 1..Len(runs) : Mapped[r] = Stage(r)
<1>1. Len(runs) \in Nat /\ DOMAIN runs = 1..Len(runs)
  BY LenProperties DEF TypeOK
<1>2. Mapped \in [1..Len(runs) -> Stages]
  BY <1>1 DEF Mapped, Stages, Settled, Unsettled
<1>3. Mapped \in Seq(Stages) /\ Len(Mapped) = Len(runs)
  BY <1>1, <1>2, SameLength
<1> QED
  BY <1>1, <1>2, <1>3 DEF Mapped, Stage

LEMMA NextMappedType ==
    ASSUME TypeOK'
    PROVE  /\ Mapped' \in Seq(Stages) /\ Len(Mapped') = Len(runs') /\ Len(runs') \in Nat
           /\ DOMAIN Mapped' = 1..Len(runs') /\ DOMAIN runs' = 1..Len(runs')
           /\ \A r \in 1..Len(runs') : Mapped'[r] = Stage(r)'
<1>1. Len(runs') \in Nat /\ DOMAIN runs' = 1..Len(runs')
  BY LenProperties DEF TypeOK
<1>2. Mapped' \in [1..Len(runs') -> Stages]
  BY <1>1 DEF Mapped, Stages, Settled, Unsettled
<1>3. Mapped' \in Seq(Stages) /\ Len(Mapped') = Len(runs')
  BY <1>1, <1>2, SameLength
<1> QED
  BY <1>1, <1>2, <1>3 DEF Mapped, Stage

\* A step that keeps the length of the table and each stage is no step of the ledger.
LEMMA SameStages ==
    ASSUME TypeOK, TypeOK', Len(runs') = Len(runs), \A r \in 1..Len(runs) : Stage(r)' = Stage(r)
    PROVE  Mapped' = Mapped
BY MappedType, NextMappedType, SeqEqual

\* Each step of the service is a step of the ledger, or none: a run is asked for, taken up as
\* the oldest that waits, settled, or given up.
LEMMA LedgerStep ==
    ASSUME OneProcess, RunnerInv, [Next]_vars
    PROVE  Ledger!Next \/ Mapped' = Mapped
<1>a. TypeOK /\ TypeOK'
  BY StepType DEF RunnerInv, SharedInv
<1>b. /\ Len(runs) \in Nat /\ Len(runs') \in Nat
      /\ DOMAIN Mapped = 1..Len(runs) /\ DOMAIN runs = 1..Len(runs)
      /\ DOMAIN Mapped' = 1..Len(runs') /\ DOMAIN runs' = 1..Len(runs')
      /\ \A r \in 1..Len(runs) : Mapped[r] = Stage(r)
      /\ \A r \in 1..Len(runs') : Mapped'[r] = Stage(r)'
  BY <1>a, MappedType, NextMappedType
<1>c. /\ Mapped = [r \in 1..Len(runs) |-> Mapped[r]]
      /\ Mapped' = [r \in 1..Len(runs') |-> Mapped'[r]]
  BY <1>b DEF Mapped
<1>d. \A p \in Processes :
         /\ work[p].run # 0 => work[p].run \in 1..Len(runs) /\ Working(p)
         /\ work[p].pc = "none" <=> work[p].run = 0
         /\ work[p].pc = "taken" => Waiting(work[p].run)
         /\ work[p].pc = "running" => runs[work[p].run].status = "running"
  BY DEF RunnerInv, SharedInv, RowsInv, QueueInOrder, WorkerWorks, RowsTellWork
<1>1. ASSUME NEW p \in Processes, NEW a \in Automations, NEW w \in Windows \cup {0}, Enqueue(p, a, w)
      PROVE  Ledger!Next
  <2>1. Len(runs') = Len(runs) + 1 /\ \A r \in 1..Len(runs) : runs'[r] = runs[r]
    BY <1>1, <1>a, EnqueueEffect
  <2>2. NoReturns' = NoReturns
    BY <1>1 DEF Enqueue, world, NoReturns
  <2>3. \/ runs'[Len(runs) + 1] = Row(a, w, "queued")
        \/ runs'[Len(runs) + 1] = Row(a, w, "error")
    BY <1>1, <1>a, EnqueueJobs
  <2>n. PICK n \in Nat : n = Len(runs) + 1
    BY <1>b
  <2>4. PICK stage \in {"queued", "settled"} : Stage(n)' = stage
    <3>1. runs'[n].status \in {"queued", "error"}
      BY <2>3, <2>n DEF Row
    <3> QED
      BY <3>1 DEF Stage, Settled, Unsettled
  <2>5. \A r \in 1..Len(runs) : Stage(r)' = Stage(r)
    BY <2>1, <2>2 DEF Stage, Settled
  <2>6. /\ Append(Mapped, stage) \in Seq(Stages) /\ Len(Append(Mapped, stage)) = Len(runs) + 1
        /\ \A r \in 1..Len(runs) : Append(Mapped, stage)[r] = Mapped[r]
        /\ Append(Mapped, stage)[Len(runs) + 1] = stage
    <3>1. stage \in Stages /\ Mapped \in Seq(Stages) /\ Len(Mapped) = Len(runs)
      BY <1>a, MappedType DEF Stages
    <3> QED
      BY <3>1, AppendProperties
  <2>7. \A r \in 1..(Len(runs) + 1) : r \in 1..Len(runs) \/ r = Len(runs) + 1
    BY <1>b
  <2>8. ASSUME NEW r \in 1..(Len(runs) + 1) PROVE Mapped'[r] = Append(Mapped, stage)[r]
    <3>1. Mapped'[r] = Stage(r)'
      BY <1>b, <2>1
    <3>2. CASE r \in 1..Len(runs)
      BY <1>b, <2>5, <2>6, <3>1, <3>2
    <3>3. CASE r = Len(runs) + 1
      BY <2>4, <2>6, <2>n, <3>1, <3>3
    <3> QED
      BY <2>7, <3>2, <3>3
  <2>9. Mapped' = Append(Mapped, stage)
    BY <1>a, <2>1, <2>6, <2>8, NextMappedType, SeqEqual
  <2> QED
    BY <2>4, <2>9 DEF Ledger!Next, Ledger!Ask, Mapped
<1>2. ASSUME NEW p \in Processes, MarkStarted(p) PROVE Ledger!Next \/ Mapped' = Mapped
  <2> DEFINE run == work[p].run
  <2>1. NoReturns' = NoReturns /\ work[p].pc = "taken"
    BY <1>2 DEF MarkStarted, world, NoReturns
  <2>2. run \in 1..Len(runs) /\ Working(p) /\ Waiting(run)
    BY <1>d, <2>1
  <2>3. Len(runs') = Len(runs)
        /\ \A r \in 1..Len(runs) :
              /\ r # run => runs'[r] = runs[r]
              /\ r = run => runs'[r].status = "running"
    BY <1>2, <1>a, MarkStartedEffect, MarkStartedFields
  <2>4. CASE NoReturns
    <3>1. Mapped[run] = "queued" /\ Mapped'[run] = "running"
          /\ \A r \in 1..Len(runs) : r # run => Mapped'[r] = Mapped[r]
      BY <1>b, <2>1, <2>2, <2>3, <2>4 DEF Stage, Settled, Unsettled, Waiting
    <3>2. Mapped' = [Mapped EXCEPT ![run] = "running"]
      BY <1>b, <1>c, <2>2, <2>3, <3>1
    <3>3. ASSUME NEW r \in 1..Len(runs) PROVE Mapped[r] # "running"
      BY <1>b, <2>1, <2>2 DEF RunnerInv, RowsInv, SoleRunner, Stage
    <3>4. ASSUME NEW q \in 1..Len(runs), Mapped[q] = "queued" PROVE run <= q
      <4>1. ~Settled(q)
        BY <1>b, <3>4 DEF Stage
      <4>2. q \in Jobs(p)
        BY <2>2, <4>1 DEF RunnerInv, RowsInv, UnsettledIsJob
      <4> QED
        BY <4>2, JobsInOrder DEF RunnerInv, SharedInv
    <3>5. Ledger!TakeUp
      BY <1>b, <2>2, <3>1, <3>2, <3>3, <3>4 DEF Ledger!TakeUp, Ledger!At, Mapped
    <3> QED
      BY <3>5 DEF Ledger!Next
  <2>5. CASE ~NoReturns
    BY <1>a, <2>1, <2>3, <2>5, SameStages DEF Stage
  <2> QED
    BY <2>4, <2>5
<1>3. ASSUME NEW p \in Processes, FinishRun(p) PROVE Ledger!Next \/ Mapped' = Mapped
  <2> DEFINE run == work[p].run
  <2>1. NoReturns' = NoReturns /\ work[p].pc = "running"
    BY <1>3 DEF FinishRun, world, NoReturns
  <2>2. run \in 1..Len(runs) /\ runs[run].status = "running"
    BY <1>d, <2>1
  <2>3. Len(runs') = Len(runs)
        /\ \A r \in 1..Len(runs) :
              /\ r # run => runs'[r] = runs[r]
              /\ r = run => runs'[r].status \in {"ok", "failed", "error"}
    BY <1>3, <1>a, FinishRunEffect, FinishRunFields
  <2>4. CASE NoReturns
    <3>1. Mapped[run] = "running" /\ Mapped'[run] = "settled"
          /\ \A r \in 1..Len(runs) : r # run => Mapped'[r] = Mapped[r]
      BY <1>b, <2>1, <2>2, <2>3, <2>4 DEF Stage, Settled, Unsettled
    <3>2. Mapped' = [Mapped EXCEPT ![run] = "settled"]
      BY <1>b, <1>c, <2>2, <2>3, <3>1
    <3>3. Ledger!Settle
      BY <1>b, <2>2, <3>1, <3>2 DEF Ledger!Settle, Ledger!At, Mapped
    <3> QED
      BY <3>3 DEF Ledger!Next
  <2>5. CASE ~NoReturns
    BY <1>a, <2>1, <2>3, <2>5, SameStages DEF Stage
  <2> QED
    BY <2>4, <2>5
<1>4. ASSUME Len(runs') = Len(runs), \A r \in 1..Len(runs) : Stage(r)' = "settled" PROVE Ledger!Next
  <2>1. Mapped' = [r \in DOMAIN Mapped |-> "settled"]
    BY <1>b, <1>c, <1>4
  <2> QED
    BY <2>1 DEF Ledger!Next, Ledger!GiveUp, Mapped
<1>5. ASSUME NEW p \in Processes, SweepInterrupted(p) PROVE Ledger!Next
  <2>1. Len(runs') = Len(runs)
    BY <1>5, <1>a, SweepEffect
  <2>2. ASSUME NEW r \in 1..Len(runs) PROVE Stage(r)' = "settled"
    <3>1. runs[r] \in RunRow
      BY <1>a, ElementOfSeq DEF TypeOK
    <3>2. runs'[r].status \notin Unsettled
      BY <1>5, <1>a, <3>1, SweepEffect DEF RunRow, Unsettled
    <3> QED
      BY <3>2 DEF Stage, Settled
  <2> QED
    BY <1>4, <2>1, <2>2
<1>6. ASSUME NEW p \in Processes, ReturnFromRun(p) PROVE Ledger!Next
  <2>1. runs' = runs /\ returns' = returns + 1 /\ returns \in Nat
    BY <1>6, <1>a, Bounds DEF ReturnFromRun, TypeOK
  <2>2. ~NoReturns'
    BY <2>1 DEF NoReturns
  <2> QED
    BY <1>4, <2>1, <2>2 DEF Stage
<1>7. ASSUME runs' = runs, returns' = returns PROVE Mapped' = Mapped
  BY <1>7 DEF Mapped, Settled, NoReturns
<1>8. \/ Ledger!Next
      \/ Mapped' = Mapped
      \/ runs' = runs /\ returns' = returns
  BY <1>1, <1>2, <1>3, <1>5, <1>6, <1>a, StepCases
     DEF Still, TakeJob, ReleaseAutomation, BeginRun, DrainQueue, ResetPending, Listen, Discover, StopRun,
         Die, world
<1> QED
  BY <1>7, <1>8

\* On a root with one process the table is a ledger of runs, each asked for, taken up one at a
\* time in that order, and settled once.
THEOREM TableIsLedger == ASSUME OneProcess PROVE Spec => ImplementsLedger
<1>1. Init => Ledger!Init
  <2> SUFFICES ASSUME Init PROVE Ledger!Init
    OBVIOUS
  <2>1. Mapped \in Seq(Stages) /\ Len(Mapped) = 0
    BY InitType, MappedType, EmptySeq DEF Init
  <2>2. Mapped = <<>>
    BY <2>1, EmptySeq
  <2> QED
    BY <2>2 DEF Ledger!Init, Mapped
<1>2. RunnerInv /\ [Next]_vars => Ledger!Next \/ Mapped' = Mapped
  BY LedgerStep
<1>3. RunnerInv /\ [Next]_vars => [Ledger!Next]_Mapped
  BY <1>2
<1> QED
  BY <1>1, <1>3, InitRunner, RunnerStays, PTL DEF Spec, ImplementsLedger, Ledger!Spec, Mapped
=============================================================================
