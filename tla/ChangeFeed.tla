----------------------------- MODULE ChangeFeed -----------------------------
(***************************************************************************)
(* The change feed of the botnet store and the clients that follow it: the *)
(* log that triggers append to, its coalesced pages, and the collections   *)
(* and batches from which a client fetches what a page names.              *)
(*                                                                         *)
(* What a row holds is its version, the number of the change that wrote it *)
(* last, and 0 if there is no such row.  A statement that writes several   *)
(* rows is several changes here, which lets clients read in between where  *)
(* the server would not.                                                   *)
(***************************************************************************)
EXTENDS Naturals, Sequences, FiniteSets

CONSTANTS
    Ids,          \* the ids of synced entities, of whatever type
    Clients,
    PageLimit,    \* changePageLimit
    BatchLimit,   \* maxBatchIDs
    MaxChanges    \* bound: the length to which the log grows

ASSUME LimitsArePositive == PageLimit \in Nat \ {0} /\ BatchLimit \in Nat \ {0}
ASSUME ChangesAreCounted == MaxChanges \in Nat

VARIABLES
    table,    \* the synced tables: the version of each row
    log,      \* the change_log, seq being the position
    mirror,   \* what each client holds of the tables
    state,    \* the state token each client would poll from
    asked,    \* what pages have named and the client has not fetched yet
    phase     \* "anew", "listing" the collections, "following" the feed, or "inStep":
              \* it has followed from the first change on, and never listed anything

vars == <<table, log, mirror, state, asked, phase>>

Versions == 0..MaxChanges

TypeOK ==
    /\ table \in [Ids -> Versions]
    /\ log \in Seq([id : Ids, op : {"created", "updated", "destroyed"}])
    /\ Len(log) <= MaxChanges
    /\ mirror \in [Clients -> [Ids -> Versions]]
    /\ state \in [Clients -> Versions]
    /\ asked \in [Clients -> SUBSET Ids]
    /\ phase \in [Clients -> {"anew", "listing", "following", "inStep"}]

-----------------------------------------------------------------------------
(* The write side: a row and its trigger.                                    *)

Exists(id) == table[id] # 0

Log(id, op) ==
    /\ Len(log) < MaxChanges
    /\ log' = Append(log, [id |-> id, op |-> op])
    /\ UNCHANGED <<mirror, state, asked, phase>>

Insert(id) ==
    /\ ~Exists(id)
    /\ table' = [table EXCEPT ![id] = Len(log) + 1]
    /\ Log(id, "created")

Update(id) ==
    /\ Exists(id)
    /\ table' = [table EXCEPT ![id] = Len(log) + 1]
    /\ Log(id, "updated")

Delete(id) ==
    /\ Exists(id)
    /\ table' = [table EXCEPT ![id] = 0]
    /\ Log(id, "destroyed")

-----------------------------------------------------------------------------
(* ChangesSince: the rows of one page, and what becomes of them.             *)

Page(since) == {k \in 1..Len(log) : since < k /\ k <= since + PageLimit}

PageOf(since, id) == {k \in Page(since) : log[k].id = id}

Named(since) == {id \in Ids : PageOf(since, id) # {}}

\* Not the code: an update taken for a creation.
WrittenIn(since, id) == \E k \in PageOf(since, id) : log[k].op # "destroyed"

CreatedIn(since, id) == \E k \in PageOf(since, id) : log[k].op = "created"

DestroyedIn(since, id) ==
    \E k \in PageOf(since, id) :
       /\ log[k].op = "destroyed"
       /\ \A j \in PageOf(since, id) : j <= k

\* The bucket of tombstones: those that were created as well are in no bucket.
Destroyed(since) ==
    {id \in Named(since) : DestroyedIn(since, id) /\ ~CreatedIn(since, id)}

\* The buckets of what was created or updated, which a client has to fetch.
Present(since) == {id \in Named(since) : ~DestroyedIn(since, id)}

HasMoreChanges(since) == since + PageLimit < Len(log)

\* Not the code: a token that is ahead of the page, one that is ahead of the log, and
\* one that a full page holds back.
AheadOfPage(since) == Len(log)

AheadOfLog(since) == since + PageLimit

HeldBack(since) == IF HasMoreChanges(since) THEN since ELSE Len(log)

NewState(since) == IF HasMoreChanges(since) THEN since + PageLimit ELSE Len(log)

-----------------------------------------------------------------------------
(* A client, and the answers it gets.  An answer that is lost changes nothing *)
(* on either side, nor does the empty one of a poll.                          *)

Follows(c) == phase[c] \in {"following", "inStep"}

\* stateHeader is read before the collection that it is sent with.
ReadStateHeader(c) ==
    /\ phase[c] = "anew"
    /\ phase' = [phase EXCEPT ![c] = "listing"]
    /\ state' = [state EXCEPT ![c] = Len(log)]
    /\ UNCHANGED <<table, log, mirror, asked>>

ReadCollection(c) ==
    /\ phase[c] = "listing"
    /\ phase' = [phase EXCEPT ![c] = "following"]
    /\ mirror' = [mirror EXCEPT ![c] = table]
    /\ UNCHANGED <<table, log, state, asked>>

\* The iteration of getChanges that finds the state moved.
GetChanges(c) ==
    /\ Follows(c) /\ asked[c] = {}
    /\ NewState(state[c]) # state[c]
    /\ state' = [state EXCEPT ![c] = NewState(state[c])]
    /\ mirror' = [mirror EXCEPT ![c] =
                    [id \in Ids |-> IF id \in Destroyed(state[c]) THEN 0 ELSE mirror[c][id]]]
    /\ asked' = [asked EXCEPT ![c] = Present(state[c])]
    /\ UNCHANGED <<table, log, phase>>

\* batchMessages: an id that is not in the answer was destroyed since.
GetBatch(c) ==
    /\ Follows(c)
    /\ \E batch \in SUBSET asked[c] :
          /\ batch # {}
          /\ Cardinality(batch) <= BatchLimit
          /\ mirror' = [mirror EXCEPT ![c] =
                          [id \in Ids |-> IF id \in batch THEN table[id] ELSE mirror[c][id]]]
          /\ asked' = [asked EXCEPT ![c] = asked[c] \ batch]
    /\ UNCHANGED <<table, log, state, phase>>

\* The client starts anew, with nothing.
Relaunch(c) ==
    /\ phase[c] # "anew"
    /\ phase' = [phase EXCEPT ![c] = "anew"]
    /\ state' = [state EXCEPT ![c] = 0]
    /\ mirror' = [mirror EXCEPT ![c] = [id \in Ids |-> 0]]
    /\ asked' = [asked EXCEPT ![c] = {}]
    /\ UNCHANGED <<table, log>>

-----------------------------------------------------------------------------
Init ==
    /\ table = [id \in Ids |-> 0]
    /\ log = <<>>
    /\ mirror = [c \in Clients |-> [id \in Ids |-> 0]]
    /\ state = [c \in Clients |-> 0]
    /\ asked = [c \in Clients |-> {}]
    /\ phase \in [Clients -> {"anew", "inStep"}]

Write == \E id \in Ids : Insert(id) \/ Update(id) \/ Delete(id)

Follow(c) == ReadStateHeader(c) \/ ReadCollection(c) \/ GetChanges(c) \/ GetBatch(c)

\* A poll that has waited in vain answers with nothing.
GetNothing ==
    /\ \A c \in Clients : Follows(c) /\ asked[c] = {} /\ NewState(state[c]) = state[c]
    /\ UNCHANGED vars

Next ==
    \/ Write
    \/ \E c \in Clients : Follow(c) \/ Relaunch(c)
    \/ GetNothing

Spec == Init /\ [][Next]_vars

\* A client goes on polling and fetching; nothing makes the server write.
Fairness == \A c \in Clients : WF_vars(Follow(c))

FairSpec == Spec /\ Fairness

-----------------------------------------------------------------------------
CaughtUp(c) == Follows(c) /\ state[c] = Len(log) /\ asked[c] = {}

\* No change is lost on the way, wherever a page is cut, whatever it coalesces, and
\* however late the client fetches: of each row that exists, a client that follows the
\* feed has the current version, or has yet to fetch it, or will be told by a later page.
NothingMissed ==
    \A c \in Clients, id \in Ids :
       Follows(c) /\ Exists(id) =>
          \/ mirror[c][id] = table[id]
          \/ id \in asked[c]
          \/ state[c] < table[id]

\* At most one entry is the creation of the id.
UsedOnce(id) ==
    \A j, k \in 1..Len(log) :
       /\ log[j].id = id /\ log[j].op = "created"
       /\ log[k].id = id /\ log[k].op = "created"
       => j = k

\* A client that has caught up holds what the tables hold, deletions included: coalescing
\* hides none from it.  Holds of clients that were in step at the start, and of ids that
\* are not used again.
MirrorIsExact ==
    \A c \in Clients, id \in Ids :
       phase[c] = "inStep" /\ CaughtUp(c) /\ UsedOnce(id) => mirror[c][id] = table[id]

\* The same of all clients and ids, as the contract of the feed has it.
NoGhosts == \A c \in Clients : CaughtUp(c) => mirror[c] = table

\* A client that goes on polling, and is not relaunched again and again, is told of every
\* change and catches up, by pages that each move its token, also one whose changes are
\* all coalesced away.
ClientsCatchUp ==
    \A c \in Clients, n \in 1..MaxChanges :
       \/ []<><<Relaunch(c)>>_vars
       \/ Len(log) >= n ~> (Follows(c) /\ state[c] >= n /\ asked[c] = {})
=============================================================================
