-------------------------- MODULE ChangeFeedProofs --------------------------
(* What the change feed never loses, for every number of ids and clients,    *)
(* every limit and a log of any length.                                      *)
EXTENDS ChangeFeed, TLAPS

\* A row is what its last log entry says: the triggers see every write.
TableIsLogged ==
    \A id \in Ids : Exists(id) =>
       /\ table[id] \in 1..Len(log)
       /\ log[table[id]].id = id
       /\ log[table[id]].op # "destroyed"
       /\ \A k \in 1..Len(log) : table[id] < k => log[k].id # id

\* No token is ahead of the log.
TokensAreIssued == \A c \in Clients : state[c] <= Len(log)

-----------------------------------------------------------------------------
(* Type correctness.                                                         *)

\* A token that a page hands out has been reached by the log.
LEMMA NewStateType ==
    ASSUME TypeOK, TokensAreIssued, NEW c \in Clients
    PROVE  /\ NewState(state[c]) \in Versions
           /\ NewState(state[c]) <= Len(log)
           /\ state[c] <= NewState(state[c])
<1>1. Len(log) \in Nat /\ Len(log) <= MaxChanges
  BY DEF TypeOK
<1>2. state[c] \in Nat /\ state[c] <= Len(log)
  BY ChangesAreCounted DEF TypeOK, TokensAreIssued, Versions
<1> QED
  BY <1>1, <1>2, LimitsArePositive, ChangesAreCounted DEF NewState, HasMoreChanges, Versions

\* A write appends one entry.
LEMMA LogGrows ==
    ASSUME TypeOK, NEW id \in Ids, NEW op \in {"created", "updated", "destroyed"}, Log(id, op)
    PROVE  /\ log' \in Seq([id : Ids, op : {"created", "updated", "destroyed"}])
           /\ Len(log') = Len(log) + 1 /\ Len(log) \in Nat /\ Len(log') <= MaxChanges
           /\ \A k \in 1..Len(log) : log'[k] = log[k]
           /\ log'[Len(log) + 1] = [id |-> id, op |-> op]
<1>1. log \in Seq([id : Ids, op : {"created", "updated", "destroyed"}])
  BY DEF TypeOK
<1>2. [id |-> id, op |-> op] \in [id : Ids, op : {"created", "updated", "destroyed"}]
  OBVIOUS
<1>3. log' = Append(log, [id |-> id, op |-> op]) /\ Len(log) < MaxChanges
  BY DEF Log
<1> HIDE DEF Log
<1> QED
  BY <1>1, <1>2, <1>3, ChangesAreCounted

LEMMA InitType == Init => TypeOK /\ TokensAreIssued
  BY ChangesAreCounted DEF Init, TypeOK, TokensAreIssued, Versions

\* Types and tokens survive each step.
LEMMA StepType == TypeOK /\ TokensAreIssued /\ [Next]_vars => TypeOK' /\ TokensAreIssued'
<1> SUFFICES ASSUME TypeOK, TokensAreIssued, [Next]_vars PROVE TypeOK' /\ TokensAreIssued'
  OBVIOUS
<1> USE DEF TypeOK, TokensAreIssued, Versions
<1>1. ASSUME NEW id \in Ids, Insert(id) PROVE TypeOK' /\ TokensAreIssued'
  BY <1>1, LogGrows, ChangesAreCounted DEF Insert, Log
<1>2. ASSUME NEW id \in Ids, Update(id) PROVE TypeOK' /\ TokensAreIssued'
  BY <1>2, LogGrows, ChangesAreCounted DEF Update, Log
<1>3. ASSUME NEW id \in Ids, Delete(id) PROVE TypeOK' /\ TokensAreIssued'
  BY <1>3, LogGrows, ChangesAreCounted DEF Delete, Log
<1>4. ASSUME NEW c \in Clients, ReadStateHeader(c) PROVE TypeOK' /\ TokensAreIssued'
  BY <1>4, ChangesAreCounted DEF ReadStateHeader
<1>5. ASSUME NEW c \in Clients, ReadCollection(c) PROVE TypeOK' /\ TokensAreIssued'
  BY <1>5 DEF ReadCollection
<1>6. ASSUME NEW c \in Clients, GetChanges(c) PROVE TypeOK' /\ TokensAreIssued'
  BY <1>6, NewStateType, ChangesAreCounted DEF GetChanges, Present, Named
<1>7. ASSUME NEW c \in Clients, GetBatch(c) PROVE TypeOK' /\ TokensAreIssued'
  BY <1>7 DEF GetBatch
<1>8. ASSUME NEW c \in Clients, Relaunch(c) PROVE TypeOK' /\ TokensAreIssued'
  BY <1>8, ChangesAreCounted DEF Relaunch
<1>9. CASE UNCHANGED vars
  BY <1>9 DEF vars
<1> QED
  BY <1>1, <1>2, <1>3, <1>4, <1>5, <1>6, <1>7, <1>8, <1>9
     DEF Next, Write, Follow, GetNothing

\* The log, the tables and what clients hold of them keep their types.
THEOREM FeedTypeCorrect == Spec => []TypeOK
<1>1. TypeOK /\ TokensAreIssued /\ [Next]_vars => (TypeOK /\ TokensAreIssued)'
  BY StepType
<1> QED
  BY <1>1, InitType, PTL DEF Spec

-----------------------------------------------------------------------------
(* Nothing is missed.                                                        *)

\* The tables change with the log and only so.
LEMMA TableStaysLogged ==
    ASSUME TypeOK, TableIsLogged, [Next]_vars
    PROVE  TableIsLogged'
<1>1. ASSUME NEW id \in Ids, NEW op \in {"created", "updated", "destroyed"}, Log(id, op),
             table' = [table EXCEPT ![id] = IF op = "destroyed" THEN 0 ELSE Len(log) + 1]
      PROVE  TableIsLogged'
  <2> SUFFICES ASSUME NEW i \in Ids, table'[i] # 0
               PROVE  /\ table'[i] \in 1..Len(log')
                      /\ log'[table'[i]].id = i
                      /\ log'[table'[i]].op # "destroyed"
                      /\ \A k \in 1..Len(log') : table'[i] < k => log'[k].id # i
    BY DEF TableIsLogged, Exists
  <2> DEFINE n == Len(log)
  <2>0. /\ Len(log') = n + 1 /\ n \in Nat
        /\ \A k \in 1..n : log'[k] = log[k]
        /\ log'[n + 1] = [id |-> id, op |-> op]
    BY <1>1, LogGrows
  <2> HIDE DEF n
  <2>1. CASE i = id
    <3>1. op # "destroyed" /\ table'[i] = n + 1
      BY <1>1, <2>1 DEF TypeOK, n
    <3> QED
      BY <2>0, <2>1, <3>1
  <2>2. CASE i # id
    <3>1. table'[i] = table[i]
      BY <1>1, <2>2 DEF TypeOK
    <3>2. /\ table[i] \in 1..n
          /\ log[table[i]].id = i
          /\ log[table[i]].op # "destroyed"
          /\ \A k \in 1..n : table[i] < k => log[k].id # i
      BY <3>1 DEF TableIsLogged, Exists, n
    <3>3. \A k \in 1..(n + 1) : k \in 1..n \/ k = n + 1
      BY <2>0
    <3> QED
      BY <2>0, <2>2, <3>1, <3>2, <3>3
  <2> QED
    BY <2>1, <2>2
<1>2. ASSUME UNCHANGED <<table, log>> PROVE TableIsLogged'
  BY <1>2 DEF TableIsLogged, Exists
<1> QED
  BY <1>1, <1>2 DEF Next, vars, Write, Insert, Update, Delete, Follow, GetNothing, ReadStateHeader,
                    ReadCollection, GetChanges, GetBatch, Relaunch

\* A page settles each row whose last change it reaches: the row is named as present.
LEMMA PageNames ==
    ASSUME TypeOK, TableIsLogged, TokensAreIssued, NEW c \in Clients, NEW id \in Ids,
           Exists(id), state[c] < table[id], table[id] <= NewState(state[c])
    PROVE  id \in Present(state[c])
<1>1. table[id] \in PageOf(state[c], id)
  BY LimitsArePositive, ChangesAreCounted
     DEF TypeOK, TableIsLogged, TokensAreIssued, NewState, HasMoreChanges, PageOf, Page, Versions
<1>2. \A k \in PageOf(state[c], id) : k <= table[id]
  BY <1>1 DEF TypeOK, TableIsLogged, PageOf, Page, Versions
<1>3. ~DestroyedIn(state[c], id)
  BY <1>1, <1>2 DEF DestroyedIn, TableIsLogged, PageOf, Page, TypeOK, Versions
<1> QED
  BY <1>1, <1>3 DEF Present, Named

\* A page takes from a client no row that exists and that it has had told.
LEMMA PageKeeps ==
    ASSUME TypeOK, TableIsLogged, NEW c \in Clients, NEW id \in Ids,
           Exists(id), id \in Destroyed(state[c])
    PROVE  NewState(state[c]) < table[id]
<1>1. /\ table[id] \in 1..Len(log) /\ log[table[id]].id = id
      /\ log[table[id]].op # "destroyed"
      /\ \A k \in 1..Len(log) : table[id] < k => log[k].id # id
  BY DEF TableIsLogged
<1>2. PICK j \in PageOf(state[c], id) : log[j].op = "destroyed" /\ \A i \in PageOf(state[c], id) : i <= j
  BY DEF Destroyed, DestroyedIn
<1>3. j \in 1..Len(log) /\ log[j].id = id /\ state[c] < j
  BY <1>2 DEF PageOf, Page
<1>4. Len(log) \in Nat /\ state[c] \in Nat
  BY ChangesAreCounted DEF TypeOK, Versions
<1>5. j < table[id]
  BY <1>1, <1>2, <1>3, <1>4
<1>6. table[id] \notin Page(state[c])
  BY <1>1, <1>2, <1>3, <1>4, <1>5 DEF PageOf, Page
<1> QED
  BY <1>1, <1>3, <1>4, <1>5, <1>6, LimitsArePositive DEF Page, NewState, HasMoreChanges

LEMMA StepMisses ==
    ASSUME TypeOK, TableIsLogged, TokensAreIssued, NothingMissed, [Next]_vars
    PROVE  NothingMissed'
<1> SUFFICES ASSUME NEW c \in Clients, NEW id \in Ids, Follows(c)', table'[id] # 0
             PROVE  \/ mirror'[c][id] = table'[id]
                    \/ id \in asked'[c]
                    \/ state'[c] < table'[id]
  BY DEF NothingMissed, Exists
<1> USE DEF Follows
<1>1. CASE Write
  <2>1. UNCHANGED <<mirror, state, asked, phase>>
    BY <1>1 DEF Write, Insert, Update, Delete, Log
  <2>2. table'[id] = table[id] \/ table'[id] = Len(log) + 1
    BY <1>1 DEF Write, Insert, Update, Delete, TypeOK
  <2> QED
    BY <2>1, <2>2 DEF NothingMissed, Exists, TypeOK, TokensAreIssued, Versions
<1>2. ASSUME NEW d \in Clients, Follow(d) \/ Relaunch(d), d # c
      PROVE  \/ mirror'[c][id] = table'[id]
             \/ id \in asked'[c]
             \/ state'[c] < table'[id]
  BY <1>2 DEF Follow, ReadStateHeader, ReadCollection, GetChanges, GetBatch, Relaunch,
              NothingMissed, Exists, TypeOK
<1>3. CASE ReadStateHeader(c) \/ Relaunch(c)
  BY <1>3 DEF ReadStateHeader, Relaunch, TypeOK
<1>4. CASE ReadCollection(c)
  BY <1>4 DEF ReadCollection, TypeOK
<1>5. CASE GetChanges(c)
  <2>1. /\ Exists(id) /\ Follows(c) /\ asked[c] = {}
        /\ table'[id] = table[id] /\ state'[c] = NewState(state[c])
        /\ asked'[c] = Present(state[c])
        /\ id \notin Destroyed(state[c]) => mirror'[c][id] = mirror[c][id]
    BY <1>5 DEF GetChanges, Exists, TypeOK
  <2>2. CASE mirror[c][id] = table[id]
    BY <2>1, <2>2, PageKeeps
  <2>3. CASE state[c] < table[id]
    BY <2>1, <2>3, PageNames, NewStateType DEF TypeOK, Versions
  <2> QED
    BY <2>1, <2>2, <2>3 DEF NothingMissed
<1>6. CASE GetBatch(c)
  <2>1. PICK batch \in SUBSET asked[c] :
          /\ mirror'[c] = [i \in Ids |-> IF i \in batch THEN table[i] ELSE mirror[c][i]]
          /\ asked'[c] = asked[c] \ batch
    BY <1>6 DEF GetBatch, TypeOK
  <2> QED
    BY <1>6, <2>1 DEF GetBatch, NothingMissed, Exists, TypeOK
<1>7. CASE UNCHANGED vars
  BY <1>7 DEF vars, NothingMissed, Exists
<1> QED
  BY <1>1, <1>2, <1>3, <1>4, <1>5, <1>6, <1>7 DEF Next, Follow, GetNothing

\* Wherever a page is cut, whatever it coalesces and however late the client fetches, a
\* client that follows the feed has each row's current version, or has yet to fetch it,
\* or will be told.
THEOREM NoChangeIsMissed == Spec => []NothingMissed
<1> DEFINE Inv == TypeOK /\ TokensAreIssued /\ TableIsLogged /\ NothingMissed
<1>1. Init => Inv
  BY InitType DEF Init, TableIsLogged, NothingMissed, Exists
<1>2. Inv /\ [Next]_vars => Inv'
  BY StepType, TableStaysLogged, StepMisses
<1>3. Inv => NothingMissed
  OBVIOUS
<1> QED
  BY <1>1, <1>2, <1>3, PTL DEF Spec

-----------------------------------------------------------------------------
(* Clients that started in step, and ids that are used once: deletions too.  *)

\* The first entry of an id is its creation.
BornFirst ==
    \A j \in 1..Len(log) : \E k \in 1..Len(log) :
       k <= j /\ log[k].id = log[j].id /\ log[k].op = "created"

\* What a client in step has, or means to fetch, it was told of by an entry that its token
\* covers.
KnownAreLogged ==
    \A c \in Clients, id \in Ids :
       phase[c] = "inStep" /\ (mirror[c][id] # 0 \/ id \in asked[c]) =>
          \E k \in 1..Len(log) : k <= state[c] /\ log[k].id = id

\* What a client in step still has, although it is gone, it will find gone or be told.
GoneAreTold ==
    \A c \in Clients, id \in Ids :
       phase[c] = "inStep" /\ UsedOnce(id) /\ ~Exists(id) /\ mirror[c][id] # 0 =>
          \/ id \in asked[c]
          \/ \E k \in 1..Len(log) :
                /\ state[c] < k
                /\ log[k].id = id /\ log[k].op = "destroyed"
                /\ \A j \in 1..Len(log) : k < j => log[j].id # id

\* A write is one new entry, of a row that it changes, and nothing that clients see.
LEMMA WriteLogs ==
    ASSUME TypeOK, TableIsLogged, NEW id \in Ids, Insert(id) \/ Update(id) \/ Delete(id)
    PROVE  /\ Len(log) \in Nat /\ Len(log') = Len(log) + 1
           /\ \A k \in 1..Len(log) : log'[k] = log[k]
           /\ log'[Len(log) + 1].id = id
           /\ \A i \in Ids : i # id => table'[i] = table[i]
           /\ log'[Len(log) + 1].op = "created" \/ Exists(id)
           /\ table'[id] = 0 => log'[Len(log) + 1].op = "destroyed"
           /\ UNCHANGED <<mirror, state, asked, phase>>
<1>1. CASE Insert(id)
  BY <1>1, LogGrows DEF Insert, Log, TypeOK
<1>2. CASE Update(id)
  BY <1>2, LogGrows DEF Update, Log, TypeOK
<1>3. CASE Delete(id)
  BY <1>3, LogGrows DEF Delete, Log, TypeOK
<1> QED
  BY <1>1, <1>2, <1>3

\* Only a row that exists is updated or destroyed, and so it has been created before.
LEMMA StepBorn ==
    ASSUME TypeOK, TableIsLogged, BornFirst, [Next]_vars
    PROVE  BornFirst'
<1>1. ASSUME NEW id \in Ids, Insert(id) \/ Update(id) \/ Delete(id) PROVE BornFirst'
  <2> DEFINE n == Len(log)
  <2>1. /\ n \in Nat /\ Len(log') = n + 1
        /\ \A k \in 1..n : log'[k] = log[k]
        /\ log'[n + 1].id = id
        /\ log'[n + 1].op = "created" \/ Exists(id)
    BY <1>1, WriteLogs
  <2>2. \A j \in 1..n : \E k \in 1..n : k <= j /\ log[k].id = log[j].id /\ log[k].op = "created"
    BY DEF BornFirst
  <2>3. ASSUME Exists(id) PROVE \E k \in 1..n : log[k].id = id /\ log[k].op = "created"
    <3>1. PICK v : v \in 1..n /\ log[v].id = id
      BY <2>3 DEF TableIsLogged
    <3> QED
      BY <2>2, <3>1
  <2> HIDE DEF n
  <2> SUFFICES ASSUME NEW j \in 1..(n + 1)
               PROVE  \E k \in 1..(n + 1) :
                         k <= j /\ log'[k].id = log'[j].id /\ log'[k].op = "created"
    BY <2>1 DEF BornFirst
  <2>4. CASE j \in 1..n
    <3>1. PICK k \in 1..n : k <= j /\ log[k].id = log[j].id /\ log[k].op = "created"
      BY <2>2, <2>4
    <3> QED
      BY <2>1, <2>4, <3>1
  <2>5. CASE j = n + 1 /\ log'[n + 1].op = "created"
    BY <2>1, <2>5
  <2>6. CASE j = n + 1 /\ Exists(id)
    <3>1. PICK k \in 1..n : log[k].id = id /\ log[k].op = "created"
      BY <2>3, <2>6
    <3> QED
      BY <2>1, <2>6, <3>1
  <2> QED
    BY <2>1, <2>4, <2>5, <2>6
<1>2. ASSUME UNCHANGED log PROVE BornFirst'
  BY <1>2 DEF BornFirst
<1> QED
  BY <1>1, <1>2 DEF Next, vars, Write, Follow, GetNothing, ReadStateHeader,
                    ReadCollection, GetChanges, GetBatch, Relaunch

\* An id that is used once now has never been used twice.
LEMMA UsedOnceBefore ==
    ASSUME TypeOK, TableIsLogged, [Next]_vars, NEW id \in Ids, UsedOnce(id)'
    PROVE  UsedOnce(id)
<1>1. ASSUME NEW i \in Ids, Insert(i) \/ Update(i) \/ Delete(i) PROVE UsedOnce(id)
  <2>1. Len(log) \in Nat /\ Len(log') = Len(log) + 1 /\ \A k \in 1..Len(log) : log'[k] = log[k]
    BY <1>1, WriteLogs
  <2> QED
    BY <2>1 DEF UsedOnce
<1>2. ASSUME UNCHANGED log PROVE UsedOnce(id)
  BY <1>2 DEF UsedOnce
<1> QED
  BY <1>1, <1>2 DEF Next, vars, Write, Follow, GetNothing, ReadStateHeader,
                    ReadCollection, GetChanges, GetBatch, Relaunch

\* Nothing makes a client be in step that was not before.
LEMMA InStepBefore ==
    ASSUME TypeOK, [Next]_vars, NEW c \in Clients, phase'[c] = "inStep"
    PROVE  /\ phase[c] = "inStep"
           /\ ~ReadStateHeader(c) /\ ~ReadCollection(c) /\ ~Relaunch(c)
  BY DEF TypeOK, Next, vars, Write, Insert, Update, Delete, Log, Follow, GetNothing,
         ReadStateHeader, ReadCollection, GetChanges, GetBatch, Relaunch

LEMMA StepKnown ==
    ASSUME TypeOK, TableIsLogged, TokensAreIssued, KnownAreLogged, [Next]_vars
    PROVE  KnownAreLogged'
<1> SUFFICES ASSUME NEW c \in Clients, NEW id \in Ids, phase'[c] = "inStep",
                    mirror'[c][id] # 0 \/ id \in asked'[c]
             PROVE  \E k \in 1..Len(log') : k <= state'[c] /\ log'[k].id = id
  BY DEF KnownAreLogged
<1>0. /\ phase[c] = "inStep"
      /\ ~ReadStateHeader(c) /\ ~ReadCollection(c) /\ ~Relaunch(c)
  BY InStepBefore
<1>1. ASSUME NEW i \in Ids, Insert(i) \/ Update(i) \/ Delete(i)
      PROVE  \E k \in 1..Len(log') : k <= state'[c] /\ log'[k].id = id
  <2>1. PICK k \in 1..Len(log) : k <= state[c] /\ log[k].id = id
    BY <1>0, <1>1, WriteLogs DEF KnownAreLogged
  <2> QED
    BY <1>1, <2>1, WriteLogs
<1>2. ASSUME NEW d \in Clients, Follow(d) \/ Relaunch(d), d # c
      PROVE  \E k \in 1..Len(log') : k <= state'[c] /\ log'[k].id = id
  <2>1. mirror'[c] = mirror[c] /\ asked'[c] = asked[c] /\ state'[c] = state[c] /\ log' = log
    BY <1>2 DEF Follow, ReadStateHeader, ReadCollection, GetChanges, GetBatch, Relaunch, TypeOK
  <2>2. \E k \in 1..Len(log) : k <= state[c] /\ log[k].id = id
    BY <1>0, <2>1 DEF KnownAreLogged
  <2> QED
    BY <2>1, <2>2
<1>3. CASE GetChanges(c)
  <2>1. /\ state'[c] = NewState(state[c]) /\ log' = log
        /\ asked'[c] = Present(state[c])
        /\ mirror'[c][id] # 0 => mirror[c][id] # 0
    BY <1>3 DEF GetChanges, TypeOK
  <2>2. CASE mirror[c][id] # 0
    <3>1. PICK k \in 1..Len(log) : k <= state[c] /\ log[k].id = id
      BY <1>0, <2>2 DEF KnownAreLogged
    <3>2. k <= NewState(state[c])
      BY <3>1, NewStateType, ChangesAreCounted DEF Versions, TypeOK
    <3> QED
      BY <2>1, <3>1, <3>2
  <2>3. CASE id \in Present(state[c])
    <3>1. PICK k \in PageOf(state[c], id) : TRUE
      BY <2>3 DEF Present, Named
    <3>2. k \in 1..Len(log) /\ log[k].id = id /\ k <= state[c] + PageLimit
      BY <3>1 DEF PageOf, Page
    <3>3. k <= NewState(state[c])
      BY <3>2, LimitsArePositive, ChangesAreCounted
         DEF NewState, HasMoreChanges, TypeOK, Versions
    <3> QED
      BY <2>1, <3>2, <3>3
  <2> QED
    BY <2>1, <2>2, <2>3
<1>4. CASE GetBatch(c)
  <2>1. mirror[c][id] # 0 \/ id \in asked[c]
    BY <1>4 DEF GetBatch, TypeOK
  <2> QED
    BY <1>0, <1>4, <2>1 DEF GetBatch, KnownAreLogged
<1>5. CASE UNCHANGED vars
  BY <1>0, <1>5 DEF vars, KnownAreLogged
<1> QED
  BY <1>0, <1>1, <1>2, <1>3, <1>4, <1>5 DEF Next, Write, Follow, GetNothing

LEMMA StepGone ==
    ASSUME TypeOK, TableIsLogged, TokensAreIssued, BornFirst, KnownAreLogged, GoneAreTold,
           [Next]_vars
    PROVE  GoneAreTold'
<1> DEFINE Told(c, id) ==
        \E k \in 1..Len(log) :
             /\ state[c] < k
             /\ log[k].id = id /\ log[k].op = "destroyed"
             /\ \A j \in 1..Len(log) : k < j => log[j].id # id
<1> SUFFICES ASSUME NEW c \in Clients, NEW id \in Ids, phase'[c] = "inStep", UsedOnce(id)',
                    table'[id] = 0, mirror'[c][id] # 0
             PROVE  id \in asked'[c] \/ Told(c, id)'
  BY DEF GoneAreTold, Exists
<1>0. /\ phase[c] = "inStep" /\ UsedOnce(id)
      /\ ~ReadStateHeader(c) /\ ~ReadCollection(c) /\ ~Relaunch(c)
  BY InStepBefore, UsedOnceBefore
<1>1. ASSUME NEW i \in Ids, Insert(i) \/ Update(i) \/ Delete(i)
      PROVE  id \in asked'[c] \/ Told(c, id)'
  <2> DEFINE n == Len(log)
  <2>1. /\ n \in Nat /\ Len(log') = n + 1
        /\ \A k \in 1..n : log'[k] = log[k]
        /\ log'[n + 1].id = i
        /\ UNCHANGED <<mirror, state, asked>>
    BY <1>1, WriteLogs
  <2>2. CASE i = id
    <3>1. log'[n + 1].op = "destroyed"
      BY <1>1, <2>2, WriteLogs
    <3>2. state'[c] < n + 1
      BY <2>1, ChangesAreCounted DEF TokensAreIssued, TypeOK, Versions
    <3> QED
      BY <2>1, <2>2, <3>1, <3>2
  <2>3. CASE i # id
    <3>1. table[id] = 0 /\ mirror[c][id] # 0
      BY <1>1, <2>1, <2>3, WriteLogs
    <3>2. CASE id \in asked[c]
      BY <2>1, <3>2
    <3>3. CASE Told(c, id)
      <4>1. PICK k \in 1..n : /\ state[c] < k
                              /\ log[k].id = id /\ log[k].op = "destroyed"
                              /\ \A j \in 1..n : k < j => log[j].id # id
        BY <3>3
      <4>2. \A j \in 1..(n + 1) : k < j => log'[j].id # id
        BY <2>1, <2>3, <4>1
      <4> QED
        BY <2>1, <4>1, <4>2
    <3> QED
      BY <1>0, <3>1, <3>2, <3>3 DEF GoneAreTold, Exists
  <2> QED
    BY <2>2, <2>3
<1>2. ASSUME NEW d \in Clients, Follow(d) \/ Relaunch(d), d # c
      PROVE  id \in asked'[c] \/ Told(c, id)'
  <2>1. /\ table' = table /\ log' = log
        /\ state'[c] = state[c] /\ asked'[c] = asked[c] /\ mirror'[c] = mirror[c]
    BY <1>2 DEF Follow, ReadStateHeader, ReadCollection, GetChanges, GetBatch, Relaunch, TypeOK
  <2> QED
    BY <1>0, <2>1 DEF GoneAreTold, Exists
<1>3. CASE GetChanges(c)
  <2>1. /\ state'[c] = NewState(state[c]) /\ log' = log /\ table' = table
        /\ asked[c] = {} /\ mirror[c][id] # 0 /\ id \notin Destroyed(state[c])
    BY <1>3 DEF GetChanges, TypeOK
  <2>2. PICK k \in 1..Len(log) :
           /\ state[c] < k
           /\ log[k].id = id /\ log[k].op = "destroyed"
           /\ \A j \in 1..Len(log) : k < j => log[j].id # id
    BY <1>0, <2>1 DEF GoneAreTold, Exists
  <2>3. PICK b \in 1..Len(log) : b <= state[c] /\ log[b].id = id
    BY <1>0, <2>1 DEF KnownAreLogged
  <2>4. Len(log) \in Nat /\ state[c] \in Nat
    BY ChangesAreCounted DEF TypeOK, Versions
  <2>5. ~CreatedIn(state[c], id)
    <3>1. PICK a \in 1..Len(log) : a <= b /\ log[a].id = id /\ log[a].op = "created"
      BY <2>3 DEF BornFirst
    <3> QED
      BY <1>0, <2>3, <2>4, <3>1 DEF CreatedIn, PageOf, Page, UsedOnce
  <2>6. k \notin PageOf(state[c], id)
    <3> SUFFICES ASSUME k \in PageOf(state[c], id) PROVE FALSE
      OBVIOUS
    <3>1. \A j \in PageOf(state[c], id) : j <= k
      BY <2>2, <2>4 DEF PageOf, Page
    <3>2. DestroyedIn(state[c], id)
      BY <2>2, <3>1 DEF DestroyedIn
    <3> QED
      BY <2>1, <2>5, <3>2 DEF Destroyed, Named
  <2>7. NewState(state[c]) < k
    BY <2>2, <2>4, <2>6, LimitsArePositive DEF PageOf, Page, NewState, HasMoreChanges
  <2> QED
    BY <2>1, <2>2, <2>7
<1>4. CASE GetBatch(c)
  <2>1. PICK batch \in SUBSET asked[c] :
          /\ mirror'[c] = [i \in Ids |-> IF i \in batch THEN table[i] ELSE mirror[c][i]]
          /\ asked'[c] = asked[c] \ batch
    BY <1>4 DEF GetBatch, TypeOK
  <2>2. id \notin batch /\ mirror[c][id] # 0 /\ table[id] = 0
    BY <1>4, <2>1 DEF GetBatch
  <2> QED
    BY <1>0, <1>4, <2>1, <2>2 DEF GetBatch, GoneAreTold, Exists
<1>5. CASE UNCHANGED vars
  BY <1>0, <1>5 DEF vars, GoneAreTold, Exists
<1> QED
  BY <1>0, <1>1, <1>2, <1>3, <1>4, <1>5 DEF Next, Write, Follow, GetNothing

\* A client that has been in step from the first change on, and has caught up, holds what
\* the tables hold of each id that is used once: coalescing hides no deletion from it.
THEOREM MirrorsAreExact == Spec => []MirrorIsExact
<1> DEFINE Inv == /\ TypeOK /\ TokensAreIssued /\ TableIsLogged /\ NothingMissed
                  /\ BornFirst /\ KnownAreLogged /\ GoneAreTold
<1>1. Init => Inv
  BY InitType DEF Init, TableIsLogged, NothingMissed, Exists, BornFirst, KnownAreLogged, GoneAreTold
<1>2. Inv /\ [Next]_vars => Inv'
  BY StepType, TableStaysLogged, StepMisses, StepBorn, StepKnown, StepGone
<1>3. Inv => MirrorIsExact
  <2> SUFFICES ASSUME Inv, NEW c \in Clients, NEW id \in Ids,
                      phase[c] = "inStep", CaughtUp(c), UsedOnce(id)
               PROVE  mirror[c][id] = table[id]
    BY DEF MirrorIsExact
  <2>1. CASE Exists(id)
    <3>1. table[id] \in 1..Len(log) /\ Len(log) \in Nat
      BY <2>1 DEF TableIsLogged, TypeOK
    <3>2. state[c] = Len(log) /\ asked[c] = {} /\ Follows(c)
      BY DEF CaughtUp
    <3> QED
      BY <2>1, <3>1, <3>2 DEF NothingMissed
  <2>2. CASE ~Exists(id)
    <3>1. \A k \in 1..Len(log) : ~(Len(log) < k)
      BY DEF TypeOK
    <3> QED
      BY <2>2, <3>1 DEF CaughtUp, GoneAreTold, Exists
  <2> QED
    BY <2>1, <2>2
<1> QED
  BY <1>1, <1>2, <1>3, PTL DEF Spec
=============================================================================
