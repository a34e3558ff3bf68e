---------------------------- MODULE Conversation ----------------------------
(***************************************************************************)
(* The conversation core of the botnet server (go/botnet): the handlers    *)
(* that append to, retry in, compact and delete a bot's one conversation,  *)
(* the background goroutine that answers a turn, and the process that runs *)
(* them, which may die and be started again on the same database.          *)
(*                                                                         *)
(* The store holds one database connection, so every statement and every   *)
(* transaction is one atomic step here, and nothing else is: a handler is  *)
(* a sequence of such steps, and any other request may run in between.     *)
(*                                                                         *)
(* Data are abstracted to what the properties tell apart.  A message is    *)
(* its id; a summary is the set of messages folded into it, and a prompt   *)
(* the set of messages it shows the model raw plus those its summary       *)
(* covers.                                                                 *)
(***************************************************************************)
EXTENDS Naturals

CONSTANTS
    Bots,        \* bot ids that the server may mint
    FirstBots,   \* the bots that exist, with an empty segment 0, at the start
    ClientIds,   \* message ids that clients supply to make a send idempotent
    NoId,        \* a send without an id: the server mints one
    Requests,    \* the HTTP requests of a behaviour, each served at most once
    Kinds,       \* the kinds of request that clients make
    MaxCrashes   \* how often the process may die

RequestKinds == {"create", "send", "retry", "compact", "delete"}

ASSUME FirstBotsExist == FirstBots \subseteq Bots
ASSUME KindsAreKnown == Kinds \subseteq RequestKinds
ASSUME ClientIdsAreNotMinted == ClientIds \cap Nat = {} /\ NoId \notin ClientIds \cup Nat
ASSUME CrashesAreCounted == MaxCrashes \in Nat

VARIABLES
    bots,        \* the bots table: is the row still to come, there or deleted
    messages,    \* the messages table, by id
    segments,    \* the segments table, by id: the bot and a minted number
    serial,      \* the last number minted, for ids and for rowids
    proc,        \* what serves each request: a handler, then maybe a turn
    up,          \* is the server process running
    crashes      \* how often it has died

vars == <<bots, messages, segments, serial, proc, up, crashes>>

MessageIds == ClientIds \cup Nat
SegmentIds == Bots \X Nat

Statuses == {"awaiting", "sent", "failed"}

\* `at` is the rowid, which orders the transcript.  `answers` is not a column:
\* it names the user turn that a reply was written for.
MessageRow ==
    [bot : Bots, role : {"user", "bot"}, seg : SegmentIds, status : Statuses,
     at : Nat, answers : MessageIds \cup {NoId}]

SegmentRow == [idx : Nat, open : BOOLEAN, covers : SUBSET MessageIds]

\* Where a process is in its handler or its turn: before the statement that is named.
Points == {"new", "find", "next", "insert", "list", "check", "summary", "seal", "complete",
           "settle", "claim", "clear segments", "clear bot", "done"}

\* A handler keeps what it has read in local variables, across the steps of others.
Process ==
    [kind : {"none", "create", "retry", "compact", "delete", "turn"},
     pc   : Points,
     bot  : Bots \cup {NoId},
     msg  : MessageIds \cup {NoId},
     seg  : SegmentIds \cup {NoId},
     idx  : Nat,
     hist : SUBSET MessageIds,
     sum  : SUBSET MessageIds]

\* Those of each kind of process.
Pcs(kind) ==
    CASE kind = "none"    -> {"new", "done"}
      [] kind = "create"  -> {"find", "next", "insert"}
      [] kind = "retry"   -> {"find", "next", "insert", "claim"}
      [] kind = "compact" -> {"find", "next", "insert", "list", "check", "summary", "seal"}
      [] kind = "delete"  -> {"clear segments", "clear bot"}
      [] kind = "turn"    -> {"find", "next", "insert", "list", "summary", "complete", "settle"}

NewRequest ==
    [kind |-> "none", pc |-> "new", bot |-> NoId, msg |-> NoId, seg |-> NoId,
     idx |-> 0, hist |-> {}, sum |-> {}]

Served == [NewRequest EXCEPT !.pc = "done"]

IsTable(f, keys, rows) ==
    /\ DOMAIN f \subseteq keys
    /\ f = [k \in DOMAIN f |-> f[k]]
    /\ \A k \in DOMAIN f : f[k] \in rows

TypeOK ==
    /\ bots \in [Bots -> {"unborn", "live", "deleted"}]
    /\ IsTable(messages, MessageIds, MessageRow)
    /\ IsTable(segments, SegmentIds, SegmentRow)
    /\ serial \in Nat
    /\ proc \in [Requests -> Process]
    /\ \A p \in Requests :
          /\ proc[p].pc \in Pcs(proc[p].kind)
          /\ proc[p].kind # "none" => proc[p].bot \in Bots
          /\ proc[p].kind \in {"turn", "retry"} => proc[p].msg \in MessageIds
    /\ up \in BOOLEAN
    /\ crashes \in 0..MaxCrashes

-----------------------------------------------------------------------------
(* Queries of the store.                                                   *)

Live(b) == bots[b] = "live"

MessagesOf(b) == {m \in DOMAIN messages : messages[m].bot = b}

Awaiting(b) == {m \in MessagesOf(b) : messages[m].status = "awaiting"}

Busy(b) == Awaiting(b) # {}

SegmentsOf(b) == {s \in DOMAIN segments : s[1] = b}

OpenSegments(b) == {s \in SegmentsOf(b) : segments[s].open}

\* The segment with the highest index, if any: ORDER BY idx DESC LIMIT 1.
Newest(S) == {s \in S : \A t \in S : segments[t].idx <= segments[s].idx}

\* COALESCE(MAX(idx) + 1, 0), as the set of its one value.
NextIndexes(b) ==
    IF SegmentsOf(b) = {} THEN {0}
    ELSE {segments[s].idx + 1 : s \in Newest(SegmentsOf(b))}

\* Not the code: no index.
IndexIgnored(b, i) == TRUE

\* The unique index on (bot_id, idx).
IndexFree(b, i) == \A s \in SegmentsOf(b) : segments[s].idx # i

SegmentMessages(s) == {m \in DOMAIN messages : messages[m].seg = s}

\* The newest sealed segment's cumulative summary, empty if there is none.
LatestSummary(b) ==
    UNION {segments[s].covers : s \in Newest(SegmentsOf(b) \ OpenSegments(b))}

\* One row written: a function with one more, or one changed, argument.
Put(f, k, v) == [x \in DOMAIN f \cup {k} |-> IF x = k THEN v ELSE f[x]]

\* The rows that survive a DELETE of those in gone.
Drop(f, gone) == [x \in DOMAIN f \ gone |-> f[x]]

SetStatus(m, status) == messages' = Put(messages, m, [messages[m] EXCEPT !.status = status])

FreshSegment(i) == [idx |-> i, open |-> TRUE, covers |-> {}]

-----------------------------------------------------------------------------
(* What serves a request goes on to the next step, or ends.  A request that *)
(* is refused before it has changed anything is as good as never made, so a  *)
(* handler starts where its first checks have passed.                        *)

Goto(p, pc) == proc' = [proc EXCEPT ![p].pc = pc]

Finish(p) == proc' = [proc EXCEPT ![p] = Served]

\* An error: a handler answers with it, a turn has its message to settle first.
Abort(p) == IF proc[p].kind = "turn" THEN Goto(p, "settle") ELSE Finish(p)

Admit(p, kind) == up /\ kind \in Kinds /\ proc[p].pc = "new"

Handle(p, kind, b, pc) ==
    proc' = [proc EXCEPT ![p] = [NewRequest EXCEPT !.kind = kind, !.bot = b, !.pc = pc]]

\* The handler has answered 202 and its goroutine is answering message m of bot b.
StartTurn(p, b, m) ==
    proc' = [proc EXCEPT ![p] = [NewRequest EXCEPT !.kind = "turn", !.pc = "find",
                                                   !.bot = b, !.msg = m]]

\* Not the code: nothing is claimed.
ClaimIgnored(b) == TRUE

\* claimBot and, behind it, the unique index on awaiting messages.
Claimable(b) == ~Busy(b)

\* appendMessage: INSERT in the open segment, opening one in the same transaction
\* if there is none.  The transaction may have changed other rows: they are in rows.
AppendMessage(rows, b, m, role, status, answers) ==
    LET row(s) == [bot |-> b, role |-> role, seg |-> s, status |-> status,
                   at |-> serial + 1, answers |-> answers]
        fresh  == <<b, serial + 1>>
    IN  IF OpenSegments(b) # {}
        THEN /\ \E s \in Newest(OpenSegments(b)) : messages' = Put(rows, m, row(s))
             /\ UNCHANGED segments
        ELSE /\ messages' = Put(rows, m, row(fresh))
             /\ \E i \in NextIndexes(b) : segments' = Put(segments, fresh, FreshSegment(i))

\* Not the code: the restart leaves what it finds, or gives it a status of its own.
SweepForgotten == messages

SweepInvents ==
    [m \in DOMAIN messages |->
        [messages[m] EXCEPT !.status = IF @ = "awaiting" THEN "interrupted" ELSE @]]

\* failInterruptedSends: nobody is left to complete an awaiting message.
FailInterrupted ==
    [m \in DOMAIN messages |->
        [messages[m] EXCEPT !.status = IF @ = "awaiting" THEN "failed" ELSE @]]

-----------------------------------------------------------------------------
(* Handlers.  Each action is one statement, or one transaction, and what the *)
(* handler does between it and the next.                                     *)

\* A bot comes into being without a segment; the next statements open one for it.
CreateBot(p) ==
    /\ Admit(p, "create")
    /\ \E b \in Bots :
          /\ bots[b] = "unborn"
          /\ bots' = [bots EXCEPT ![b] = "live"]
          /\ Handle(p, "create", b, "find")
    /\ UNCHANGED <<messages, segments, serial, up, crashes>>

\* An id that is there already is a replay, or a conflict: no turn starts for it.
SendMessage(p) ==
    /\ Admit(p, "send")
    /\ \E b \in Bots, id \in ClientIds \cup {NoId} :
          LET m == IF id = NoId THEN serial + 1 ELSE id
          IN  /\ Live(b)
              /\ m \notin DOMAIN messages
              /\ Claimable(b)
              /\ AppendMessage(messages, b, m, "user", "awaiting", NoId)
              /\ StartTurn(p, b, m)
    /\ serial' = serial + 1
    /\ UNCHANGED <<bots, up, crashes>>

\* The message is read once, here; all that follows trusts this copy of its row.
RetryMessage(p) ==
    /\ Admit(p, "retry")
    /\ \E m \in DOMAIN messages :
          /\ messages[m].role = "user"
          /\ messages[m].status = "failed"
          /\ proc' = [proc EXCEPT ![p] = [NewRequest EXCEPT
                        !.kind = "retry", !.pc = "find", !.msg = m,
                        !.bot = messages[m].bot, !.seg = messages[m].seg]]
    /\ UNCHANGED <<bots, messages, segments, serial, up, crashes>>

\* claimBot and setStatus in one transaction.  It does not look at the status again.
ClaimRetry(p) ==
    LET b == proc[p].bot
        m == proc[p].msg
    IN  /\ proc[p].pc = "claim"
        /\ IF Claimable(b) /\ m \in DOMAIN messages /\ Awaiting(messages[m].bot) \subseteq {m}
           THEN SetStatus(m, "awaiting") /\ StartTurn(p, b, m)
           ELSE Finish(p) /\ UNCHANGED messages
        /\ UNCHANGED <<bots, segments, serial, up, crashes>>

CompactConversation(p) ==
    /\ Admit(p, "compact")
    /\ \E b \in Bots : Live(b) /\ Handle(p, "compact", b, "find")
    /\ UNCHANGED <<bots, messages, segments, serial, up, crashes>>

\* Sealing mid-reply is refused, on what the store says before the summary is made.
CheckInFlight(p) ==
    /\ proc[p].pc = "check"
    /\ IF Busy(proc[p].bot) THEN Finish(p) ELSE Goto(p, "summary")
    /\ UNCHANGED <<bots, messages, segments, serial, up, crashes>>

\* Not the code: a summary of the segment alone.
SummaryOfSegment(p) == proc[p].hist

\* What Summarize makes of the previous summary and the messages of the segment.
Folded(p) == proc[p].sum \cup proc[p].hist

\* Both statements of Seal, or neither: a second seal of the same segment changes
\* no row, and then the index refuses the segment that it would open.
Seal(p) ==
    LET b == proc[p].bot
        s == proc[p].seg
        next == <<b, serial + 1>>
        sealed == IF s \in DOMAIN segments /\ segments[s].open
                  THEN Put(segments, s, [segments[s] EXCEPT
                            !.open = FALSE, !.covers = Folded(p)])
                  ELSE segments
    IN  /\ proc[p].pc = "seal"
        /\ IF Live(b) /\ IndexFree(b, proc[p].idx + 1)
           THEN /\ segments' = Put(sealed, next, FreshSegment(proc[p].idx + 1))
                /\ serial' = serial + 1
           ELSE UNCHANGED <<segments, serial>>
        /\ Finish(p)
        /\ UNCHANGED <<bots, messages, up, crashes>>

\* The summary could not be made, or the bot's model has left the roster.
SummarizeFails(p) ==
    /\ proc[p].pc = "seal"
    /\ Finish(p)
    /\ UNCHANGED <<bots, messages, segments, serial, up, crashes>>

\* DeleteBot is three statements, with no transaction around them.
DeleteMessages(p) ==
    /\ Admit(p, "delete")
    /\ \E b \in Bots :
          /\ Live(b)
          /\ messages' = Drop(messages, MessagesOf(b))
          /\ Handle(p, "delete", b, "clear segments")
    /\ UNCHANGED <<bots, segments, serial, up, crashes>>

DeleteSegments(p) ==
    /\ proc[p].pc = "clear segments"
    /\ segments' = Drop(segments, SegmentsOf(proc[p].bot))
    /\ Goto(p, "clear bot")
    /\ UNCHANGED <<bots, messages, serial, up, crashes>>

\* A message or a segment written since then still refers to the bot: the row stays.
DeleteRow(p) ==
    LET b == proc[p].bot
    IN  /\ proc[p].pc = "clear bot"
        /\ IF MessagesOf(b) = {} /\ SegmentsOf(b) = {}
           THEN bots' = [bots EXCEPT ![b] = "deleted"]
           ELSE UNCHANGED bots
        /\ Finish(p)
        /\ UNCHANGED <<messages, segments, serial, up, crashes>>

-----------------------------------------------------------------------------
(* OpenSegment, outside a transaction: three statements.                     *)

\* What each caller does with the open segment.  A message to retry that is in
\* another segment is history.
WithSegment(p, s, i) ==
    CASE proc[p].kind = "create" -> Finish(p)
      [] proc[p].kind = "retry"  -> IF proc[p].seg = s THEN Goto(p, "claim") ELSE Finish(p)
      [] OTHER -> proc' = [proc EXCEPT ![p].seg = s, ![p].idx = i, ![p].pc = "list"]

FindOpenSegment(p) ==
    LET open == OpenSegments(proc[p].bot)
    IN  /\ proc[p].pc = "find"
        /\ IF open # {} THEN \E s \in Newest(open) : WithSegment(p, s, segments[s].idx)
                        ELSE Goto(p, "next")
        /\ UNCHANGED <<bots, messages, segments, serial, up, crashes>>

ChooseIndex(p) ==
    /\ proc[p].pc = "next"
    /\ \E i \in NextIndexes(proc[p].bot) :
          proc' = [proc EXCEPT ![p].idx = i, ![p].pc = "insert"]
    /\ UNCHANGED <<bots, messages, segments, serial, up, crashes>>

\* The constraints refuse a segment of no bot, or at an index taken since.
InsertSegment(p) ==
    LET b == proc[p].bot
        s == <<b, serial + 1>>
        i == proc[p].idx
    IN  /\ proc[p].pc = "insert"
        /\ IF Live(b) /\ IndexFree(b, i)
           THEN /\ segments' = Put(segments, s, FreshSegment(i))
                /\ serial' = serial + 1
                /\ WithSegment(p, s, i)
           ELSE Abort(p) /\ UNCHANGED <<segments, serial>>
        /\ UNCHANGED <<bots, messages, up, crashes>>

\* SegmentMessages: what a turn shows its model, and what a compaction summarizes,
\* if there is anything.
ListMessages(p) ==
    LET listed == SegmentMessages(proc[p].seg)
    IN  /\ proc[p].pc = "list"
        /\ IF proc[p].kind = "compact" /\ listed = {}
           THEN Finish(p)
           ELSE proc' = [proc EXCEPT ![p].hist = listed,
                    ![p].pc = IF proc[p].kind = "compact" THEN "check" ELSE "summary"]
        /\ UNCHANGED <<bots, messages, segments, serial, up, crashes>>

\* LatestSummary, and the start of the slow call to the model.
ReadSummary(p) ==
    /\ proc[p].pc = "summary"
    /\ proc' = [proc EXCEPT ![p].sum = LatestSummary(proc[p].bot),
                    ![p].pc = IF proc[p].kind = "compact" THEN "seal" ELSE "complete"]
    /\ UNCHANGED <<bots, messages, segments, serial, up, crashes>>

-----------------------------------------------------------------------------
(* The goroutine of a turn: from the open segment to the model's answer.     *)

\* Not the code: CompleteTurn as two transactions, in either order.
SettleThenReply(p) ==
    LET b == proc[p].bot
        m == proc[p].msg
    IN  /\ proc[p].pc = "complete"
        /\ m \in DOMAIN messages /\ Live(b)
        /\ IF messages[m].status = "awaiting"
           THEN SetStatus(m, "sent") /\ UNCHANGED <<segments, serial, proc>>
           ELSE /\ AppendMessage(messages, b, serial + 1, "bot", "sent", m)
                /\ serial' = serial + 1
                /\ Finish(p)
        /\ UNCHANGED <<bots, up, crashes>>

ReplyThenSettle(p) ==
    LET b == proc[p].bot
        m == proc[p].msg
    IN  /\ proc[p].pc = "complete"
        /\ m \in DOMAIN messages /\ Live(b)
        /\ IF \E r \in DOMAIN messages : messages[r].answers = m
           THEN SetStatus(m, "sent") /\ Finish(p) /\ UNCHANGED <<segments, serial>>
           ELSE /\ AppendMessage(messages, b, serial + 1, "bot", "sent", m)
                /\ serial' = serial + 1
                /\ UNCHANGED proc
        /\ UNCHANGED <<bots, up, crashes>>

\* CompleteTurn: the reply is appended and the question settled, or neither.
CompleteTurn(p) ==
    LET b == proc[p].bot
        m == proc[p].msg
        settled == [messages EXCEPT ![m].status = "sent"]
    IN  /\ proc[p].pc = "complete"
        /\ IF Live(b) /\ m \in DOMAIN messages
           THEN /\ AppendMessage(settled, b, serial + 1, "bot", "sent", m)
                /\ serial' = serial + 1
                /\ Finish(p)
           ELSE /\ Goto(p, "settle")
                /\ UNCHANGED <<messages, segments, serial>>
        /\ UNCHANGED <<bots, up, crashes>>

\* The model is not on the roster, answers with an error, or exceeds turnTimeout.
ModelFails(p) ==
    /\ proc[p].kind = "turn"
    /\ proc[p].pc \in {"find", "complete"}
    /\ Goto(p, "settle")
    /\ UNCHANGED <<bots, messages, segments, serial, up, crashes>>

\* Not the code: a turn that fails is dropped.
FailureDropped(p) ==
    proc[p].pc = "settle" /\ Finish(p) /\ UNCHANGED <<bots, messages, segments, serial, up, crashes>>

\* SetMessageStatus: of whatever row has the id now, if any.
SettleFailed(p) ==
    /\ proc[p].pc = "settle"
    /\ IF proc[p].msg \in DOMAIN messages THEN SetStatus(proc[p].msg, "failed")
                                          ELSE UNCHANGED messages
    /\ Finish(p)
    /\ UNCHANGED <<bots, segments, serial, up, crashes>>

-----------------------------------------------------------------------------
(* The process.                                                              *)

\* Requests and turns go with the process; what they committed stays.
Crash ==
    /\ up
    /\ crashes < MaxCrashes
    /\ up' = FALSE
    /\ crashes' = crashes + 1
    /\ proc' = [p \in Requests |-> IF proc[p].pc = "new" THEN proc[p] ELSE Served]
    /\ UNCHANGED <<bots, messages, segments, serial>>

\* Open, before anything is served: backfill gives each bot that has none a segment,
\* and failInterruptedSends settles what the last process left awaiting.  Each of
\* its statements is its own guard, so a death between two of them shows in no state
\* that a second Open does not mend.
Restart ==
    LET bare == {b \in Bots : Live(b) /\ SegmentsOf(b) = {}}
        added == {<<b, serial + 1>> : b \in bare}
    IN  /\ ~up
        /\ up' = TRUE
        /\ segments' = [s \in DOMAIN segments \cup added |->
                            IF s \in added THEN FreshSegment(0) ELSE segments[s]]
        /\ messages' = FailInterrupted
        /\ serial' = serial + 1
        /\ UNCHANGED <<bots, proc, crashes>>

-----------------------------------------------------------------------------
Init ==
    /\ bots = [b \in Bots |-> IF b \in FirstBots THEN "live" ELSE "unborn"]
    /\ messages = [m \in {} |-> NoId]
    /\ segments = [s \in {<<b, 0>> : b \in FirstBots} |-> FreshSegment(0)]
    /\ serial = 0
    /\ proc = [p \in Requests |-> NewRequest]
    /\ up = TRUE
    /\ crashes = 0

\* A client makes a request.
Request(p) ==
    \/ CreateBot(p)
    \/ SendMessage(p)
    \/ RetryMessage(p)
    \/ CompactConversation(p)
    \/ DeleteMessages(p)

\* The server goes on with one.
Step(p) ==
    \/ FindOpenSegment(p)
    \/ ChooseIndex(p)
    \/ InsertSegment(p)
    \/ ClaimRetry(p)
    \/ ListMessages(p)
    \/ CheckInFlight(p)
    \/ ReadSummary(p)
    \/ Seal(p)
    \/ SummarizeFails(p)
    \/ DeleteSegments(p)
    \/ DeleteRow(p)
    \/ CompleteTurn(p)
    \/ ModelFails(p)
    \/ SettleFailed(p)

\* Nothing is being served, and no client need ever ask again.
Quiet ==
    /\ up
    /\ \A p \in Requests : proc[p].pc \in {"new", "done"}
    /\ UNCHANGED vars

Next ==
    \/ \E p \in Requests : Request(p) \/ Step(p)
    \/ Crash
    \/ Restart
    \/ Quiet

Spec == Init /\ [][Next]_vars

\* The server goes on with what it has begun (goroutines are scheduled, and a call
\* of the model ends within turnTimeout) and a dead process is started again.
\* Nothing makes a client ask, or the process die.
Fairness == (\A p \in Requests : WF_vars(Step(p))) /\ WF_vars(Restart)

FairSpec == Spec /\ Fairness

-----------------------------------------------------------------------------
(* What the conversation promises.  Which requests a property survives is    *)
(* said with it: the runs choose Kinds accordingly.                          *)

Turns == {p \in Requests : proc[p].kind = "turn"}

Sealed(b) == {s \in SegmentsOf(b) : ~segments[s].open}

Replies(m) == {r \in DOMAIN messages : messages[r].answers = m}

\* While the process is up, each message that awaits its reply has a goroutine that
\* will settle it, whatever clients do: startTurn follows every claim, and the sweep
\* of Open settles what a death has left.  An awaiting message without one would hold
\* its bot's slot until the next restart.
SlotHasTurn ==
    up => \A m \in DOMAIN messages :
             messages[m].status = "awaiting" => \E p \in Turns : proc[p].msg = m

\* A bot has at most one reply in flight, the storage invariant that all else rests on
\* (claimBot, with idx_messages_one_awaiting behind it): in no order of sends, retries,
\* deletions and restarts do two of its messages await a reply.
OneAwaitingPerBot ==
    \A m, n \in DOMAIN messages :
       /\ messages[m].status = "awaiting" /\ messages[n].status = "awaiting"
       /\ messages[m].bot = messages[n].bot
       => m = n

\* Unless bots are deleted, a running turn owns its bot: its question awaits it, and
\* no second turn of the bot runs, so no two goroutines ever race to write replies in
\* one conversation (claimBot and idx_messages_one_awaiting).
TurnHoldsSlot ==
    /\ \A p \in Turns : proc[p].msg \in Awaiting(proc[p].bot)
    /\ \A p, q \in Turns : proc[p].bot = proc[q].bot => p = q

\* The transcript keeps its order: no user turn lies between a question and its
\* reply.  Holds if nothing is retried or deleted.
ReplyFollowsQuestion ==
    \A r \in DOMAIN messages :
       LET q == messages[r].answers
       IN  q # NoId =>
              /\ q \in DOMAIN messages
              /\ messages[q].at < messages[r].at
              /\ \A u \in MessagesOf(messages[r].bot) :
                    messages[u].role = "user" =>
                        ~(messages[q].at < messages[u].at /\ messages[u].at < messages[r].at)

\* CompleteTurn is all or nothing: a question has exactly one reply once it is sent,
\* and none while it is awaiting or failed, across deaths of the process.  Holds if
\* nothing is retried.
AnsweredOnce ==
    \A m \in DOMAIN messages :
       messages[m].role = "user" =>
          IF messages[m].status = "sent" THEN \E r \in Replies(m) : Replies(m) = {r}
                                         ELSE Replies(m) = {}

\* The segments of a bot are a chain: no index twice and none missing, and the last
\* one, which is the one that messages join, is the one that is open, however
\* compactions race.  Holds if no bot is created or deleted meanwhile.
SegmentChain ==
    \A b \in Bots : Live(b) =>
       LET S == SegmentsOf(b)
       IN  /\ \A s, t \in S : segments[s].idx = segments[t].idx => s = t
           /\ \A s \in S : segments[s].idx # 0 =>
                 \E t \in S : segments[t].idx = segments[s].idx - 1
           /\ OpenSegments(b) = Newest(S)
           /\ S # {}

\* A summary is cumulative: it covers what the summaries before it cover, although a
\* compaction reads the one before long before it seals and another may seal in between.
SummariesAccumulate ==
    \A b \in Bots : \A s, t \in Sealed(b) :
       segments[s].idx < segments[t].idx => segments[s].covers \subseteq segments[t].covers

\* The one slot of a bot is not held forever: its turn settles, or the process dies and
\* the next one sweeps.
SlotIsFreed == \A b \in Bots : Busy(b) ~> ~Busy(b)

-----------------------------------------------------------------------------
(* What comments of the code say and the code does not keep.                 *)

\* retryMessage: a message that is retried is "not already answered".
AnsweredIsNotRetried ==
    [][\A m \in DOMAIN messages \cap DOMAIN messages' :
          messages[m].status = "sent" => messages'[m].status = "sent"]_vars

\* Segment: a bot's newest summary covers "everything so far", that is each message of
\* each of its sealed segments.
SummaryIsComplete ==
    \A b \in Bots : \A s \in Sealed(b) : SegmentMessages(s) \subseteq LatestSummary(b)
=============================================================================
