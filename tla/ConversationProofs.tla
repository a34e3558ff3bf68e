------------------------- MODULE ConversationProofs -------------------------
(* What the conversation keeps for every number of bots, ids, requests and   *)
(* deaths of the process.                                                    *)
EXTENDS ConversationSlots, TLAPS

-----------------------------------------------------------------------------
(* Tables.                                                                   *)

\* A row that is written has the type of the table's rows if the others have it.
LEMMA PutType ==
    ASSUME NEW K, NEW R, NEW f, IsTable(f, K, R), NEW k \in K, NEW v \in R
    PROVE  IsTable(Put(f, k, v), K, R)
BY DEF Put, IsTable

\* The newest segment of a set is one of them.
LEMMA NewestIsIn == \A S : Newest(S) \subseteq S
BY DEF Newest

\* The next index of a bot is a number.
LEMMA NextIndexType ==
    ASSUME TypeOK, NEW b \in Bots
    PROVE  NextIndexes(b) \subseteq Nat
<1>1. Newest(SegmentsOf(b)) \subseteq SegmentsOf(b)
  BY NewestIsIn
<1>2. SegmentsOf(b) \subseteq DOMAIN segments
  BY DEF SegmentsOf
<1>3. \A s \in DOMAIN segments : segments[s].idx \in Nat
  BY DEF TypeOK, IsTable, SegmentRow
<1> QED
  BY <1>1, <1>2, <1>3 DEF NextIndexes

\* What a compaction or a turn reads of the latest summary is a set of messages.
LEMMA SummaryType ==
    ASSUME TypeOK, NEW b \in Bots
    PROVE  LatestSummary(b) \in SUBSET MessageIds
<1> DEFINE sealed == SegmentsOf(b) \ OpenSegments(b)
<1>1. Newest(sealed) \subseteq DOMAIN segments
  BY NewestIsIn DEF SegmentsOf
<1>2. \A s \in DOMAIN segments : segments[s].covers \subseteq MessageIds
  BY DEF TypeOK, IsTable, SegmentRow
<1> QED
  BY <1>1, <1>2 DEF LatestSummary

\* The messages of a segment are messages.
LEMMA ListedType ==
    ASSUME TypeOK, NEW s
    PROVE  SegmentMessages(s) \in SUBSET MessageIds
BY DEF TypeOK, IsTable, SegmentMessages

\* appendMessage keeps the tables well-formed, whatever else its transaction has done
\* to the rows of messages.
LEMMA AppendType ==
    ASSUME TypeOK, NEW rows, IsTable(rows, MessageIds, MessageRow),
           NEW b \in Bots, NEW m \in MessageIds, NEW role \in {"user", "bot"},
           NEW status \in Statuses, NEW answers \in MessageIds \cup {NoId},
           AppendMessage(rows, b, m, role, status, answers)
    PROVE  /\ IsTable(messages', MessageIds, MessageRow)
           /\ IsTable(segments', SegmentIds, SegmentRow)
<1> DEFINE row(s) == [bot |-> b, role |-> role, seg |-> s, status |-> status,
                      at |-> serial + 1, answers |-> answers]
           fresh == <<b, serial + 1>>
<1>1. \A s \in SegmentIds : row(s) \in MessageRow
  BY DEF TypeOK, MessageRow
<1>2. fresh \in SegmentIds
  BY DEF TypeOK, SegmentIds
<1>3. CASE OpenSegments(b) # {}
  <2>1. PICK s \in Newest(OpenSegments(b)) : messages' = Put(rows, m, row(s))
    BY <1>3 DEF AppendMessage
  <2>2. s \in SegmentIds
    BY <2>1, NewestIsIn DEF OpenSegments, SegmentsOf, TypeOK, IsTable
  <2>3. UNCHANGED segments
    BY <1>3 DEF AppendMessage
  <2> QED
    BY <1>1, <2>1, <2>2, <2>3, PutType DEF TypeOK
<1>4. CASE OpenSegments(b) = {}
  <2>1. messages' = Put(rows, m, row(fresh))
    BY <1>4 DEF AppendMessage
  <2>2. PICK i \in NextIndexes(b) : segments' = Put(segments, fresh, FreshSegment(i))
    BY <1>4 DEF AppendMessage
  <2>3. FreshSegment(i) \in SegmentRow
    BY NextIndexType DEF FreshSegment, SegmentRow
  <2> QED
    BY <1>1, <1>2, <2>1, <2>2, <2>3, PutType DEF TypeOK
<1> QED
  BY <1>3, <1>4

-----------------------------------------------------------------------------
(* Processes.                                                                *)

\* A process record that is well-formed and where its kind may be.
ProcessOK(r) ==
    /\ r \in Process
    /\ r.pc \in Pcs(r.kind)
    /\ r.kind # "none" => r.bot \in Bots
    /\ r.kind \in {"turn", "retry"} => r.msg \in MessageIds

\* All of them are, and in TypeOK that is all there is to say of proc.
ProcOK == proc \in [Requests -> Process] /\ \A p \in Requests : ProcessOK(proc[p])

\* The other tables and variables.
StoreOK ==
    /\ bots \in [Bots -> {"unborn", "live", "deleted"}]
    /\ IsTable(messages, MessageIds, MessageRow)
    /\ IsTable(segments, SegmentIds, SegmentRow)
    /\ serial \in Nat
    /\ up \in BOOLEAN
    /\ crashes \in 0..MaxCrashes

LEMMA TypeParts == TypeOK <=> StoreOK /\ ProcOK
BY DEF TypeOK, StoreOK, ProcOK, ProcessOK

\* A step of a process alone.
LEMMA StoreStays ==
    ASSUME StoreOK, UNCHANGED <<bots, messages, segments, serial, up, crashes>>
    PROVE  StoreOK'
BY DEF StoreOK, IsTable

\* One process changes to a well-formed one.
LEMMA ProcUpdate ==
    ASSUME ProcOK, NEW p \in Requests, NEW r, ProcessOK(r), proc' = [proc EXCEPT ![p] = r]
    PROVE  ProcOK'
BY DEF ProcOK, ProcessOK

LEMMA PcsAt ==
    /\ Pcs("none") = {"new", "done"}
    /\ Pcs("create") = {"find", "next", "insert"}
    /\ Pcs("retry") = {"find", "next", "insert", "claim"}
    /\ Pcs("compact") = {"find", "next", "insert", "list", "check", "summary", "seal"}
    /\ Pcs("delete") = {"clear segments", "clear bot"}
    /\ Pcs("turn") = {"find", "next", "insert", "list", "summary", "complete", "settle"}
BY DEF Pcs

\* Where a process is tells of what kind it is.
LEMMA KindAt ==
    ASSUME NEW r, ProcessOK(r)
    PROVE  /\ r.pc \in {"new", "done"} => r.kind = "none"
           /\ r.pc \in {"find", "next", "insert"} =>
                 r.kind \in {"create", "retry", "compact", "turn"}
           /\ r.pc = "claim" => r.kind = "retry"
           /\ r.pc \in {"list", "summary"} => r.kind \in {"compact", "turn"}
           /\ r.pc \in {"check", "seal"} => r.kind = "compact"
           /\ r.pc \in {"clear segments", "clear bot"} => r.kind = "delete"
           /\ r.pc \in {"complete", "settle"} => r.kind = "turn"
<1>1. r.kind \in {"none", "create", "retry", "compact", "delete", "turn"}
  BY DEF ProcessOK, Process
<1>2. r.pc \in Pcs(r.kind)
  BY DEF ProcessOK
<1> QED
  BY <1>1, <1>2, PcsAt

\* A process that has nothing to do is well-formed.
LEMMA NewOK == ProcessOK(NewRequest) /\ ProcessOK(Served)
<1>1. NewRequest \in Process /\ NewRequest.kind = "none" /\ NewRequest.pc = "new"
  BY DEF NewRequest, Process, Points
<1>2. Served \in Process /\ Served.kind = "none" /\ Served.pc = "done"
  BY DEF NewRequest, Served, Process, Points
<1> QED
  BY <1>1, <1>2, PcsAt DEF ProcessOK

LEMMA FinishOK == ASSUME ProcOK, NEW p \in Requests, Finish(p) PROVE ProcOK'
BY NewOK, ProcUpdate DEF Finish

\* A step on the way of its kind.
LEMMA GotoOK ==
    ASSUME ProcOK, NEW p \in Requests, NEW pc \in Points, pc \in Pcs(proc[p].kind), Goto(p, pc)
    PROVE  ProcOK'
<1> DEFINE r == [proc[p] EXCEPT !.pc = pc]
<1>1. proc' = [proc EXCEPT ![p] = r]
  BY DEF Goto
<1>2. ProcessOK(proc[p])
  BY DEF ProcOK
<1>3. ProcessOK(r)
  BY <1>2 DEF ProcessOK, Process
<1> QED
  BY <1>1, <1>3, ProcUpdate

LEMMA StartTurnOK ==
    ASSUME ProcOK, NEW p \in Requests, NEW b \in Bots, NEW m \in MessageIds, StartTurn(p, b, m)
    PROVE  ProcOK'
<1> DEFINE r == [NewRequest EXCEPT !.kind = "turn", !.pc = "find", !.bot = b, !.msg = m]
<1>1. r \in Process
  BY DEF NewRequest, Process, Points
<1>2. r.kind = "turn" /\ r.pc = "find" /\ r.bot = b /\ r.msg = m
  BY DEF NewRequest
<1>3. ProcessOK(r)
  BY <1>1, <1>2, PcsAt DEF ProcessOK
<1> QED
  BY <1>3, ProcUpdate DEF StartTurn

\* Each request starts on its way.
LEMMA HandleOK ==
    ASSUME ProcOK, NEW p \in Requests, NEW b \in Bots, NEW kind \in {"create", "compact", "delete"},
           NEW pc \in Points, pc \in Pcs(kind), Handle(p, kind, b, pc)
    PROVE  ProcOK'
<1> DEFINE r == [NewRequest EXCEPT !.kind = kind, !.bot = b, !.pc = pc]
<1>1. ProcessOK(r)
  BY DEF ProcessOK, NewRequest, Process
<1> QED
  BY <1>1, ProcUpdate DEF Handle

-----------------------------------------------------------------------------
(* Type correctness.                                                         *)

\* Going on with the open segment: each caller stays on its way.
LEMMA WithSegmentOK ==
    ASSUME ProcOK, NEW p \in Requests, NEW s \in SegmentIds, NEW i \in Nat,
           proc[p].pc \in {"find", "insert"}, WithSegment(p, s, i)
    PROVE  ProcOK'
<1>1. ProcessOK(proc[p])
  BY DEF ProcOK
<1>2. CASE proc[p].kind = "create"
  BY <1>2, FinishOK DEF WithSegment
<1>3. CASE proc[p].kind = "retry"
  BY <1>3, FinishOK, GotoOK, PcsAt DEF WithSegment, Points
<1>4. CASE proc[p].kind \notin {"create", "retry"}
  <2> DEFINE r == [proc[p] EXCEPT !.seg = s, !.idx = i, !.pc = "list"]
  <2>1. proc' = [proc EXCEPT ![p] = r]
    BY <1>4 DEF WithSegment
  <2>2. r \in Process /\ r.kind = proc[p].kind /\ r.pc = "list"
               /\ r.bot = proc[p].bot /\ r.msg = proc[p].msg
    BY <1>1 DEF ProcessOK, Process, Points
  <2>3. proc[p].kind \in {"compact", "turn"}
    BY <1>1, <1>4, KindAt
  <2>4. ProcessOK(r)
    BY <1>1, <2>2, <2>3, PcsAt DEF ProcessOK
  <2> QED
    BY <2>1, <2>4, ProcUpdate
<1> QED
  BY <1>2, <1>3, <1>4

\* An error leaves a process on its way, or at its end.
LEMMA AbortOK ==
    ASSUME ProcOK, NEW p \in Requests, Abort(p)
    PROVE  ProcOK'
BY FinishOK, GotoOK, PcsAt DEF Abort, Points

\* The status of a row changes, and the table stays well-formed.
LEMMA SetStatusOK ==
    ASSUME StoreOK, NEW m \in DOMAIN messages, NEW status \in Statuses, SetStatus(m, status)
    PROVE  IsTable(messages', MessageIds, MessageRow)
<1>1. [messages[m] EXCEPT !.status = status] \in MessageRow /\ m \in MessageIds
  BY DEF StoreOK, IsTable, MessageRow
<1> QED
  BY <1>1, PutType DEF SetStatus, StoreOK

\* So it does when rows are deleted.
LEMMA DropOK ==
    ASSUME NEW K, NEW R, NEW f, IsTable(f, K, R), NEW gone
    PROVE  IsTable(Drop(f, gone), K, R)
BY DEF IsTable, Drop

\* The tables and processes are well-formed at the start.
LEMMA InitType == Init => TypeOK
<1> SUFFICES ASSUME Init PROVE StoreOK /\ ProcOK
  BY TypeParts
<1>1. StoreOK
  <2>1. bots \in [Bots -> {"unborn", "live", "deleted"}]
    BY DEF Init
  <2>2. IsTable(messages, MessageIds, MessageRow)
    BY DEF Init, IsTable
  <2>3. IsTable(segments, SegmentIds, SegmentRow)
    <3>1. \A s \in DOMAIN segments : s \in SegmentIds /\ segments[s] = FreshSegment(0)
      BY FirstBotsExist DEF Init, SegmentIds
    <3>2. FreshSegment(0) \in SegmentRow
      BY DEF FreshSegment, SegmentRow
    <3>3. segments = [s \in DOMAIN segments |-> segments[s]]
      BY DEF Init
    <3> QED
      BY <3>1, <3>2, <3>3 DEF IsTable
  <2> QED
    BY <2>1, <2>2, <2>3, CrashesAreCounted DEF Init, StoreOK
<1>2. ProcOK
  BY NewOK DEF Init, ProcOK, ProcessOK
<1> QED
  BY <1>1, <1>2

\* Every request begins with well-formed tables and processes.
LEMMA RequestType ==
    ASSUME TypeOK, NEW p \in Requests, Request(p)
    PROVE  TypeOK'
<1> SUFFICES StoreOK' /\ ProcOK'
  BY TypeParts DEF TypeOK, StoreOK, ProcOK, ProcessOK
<1>0. StoreOK /\ ProcOK /\ ProcessOK(proc[p])
  BY TypeParts DEF ProcOK
<1>1. CASE CreateBot(p)
  <2>1. PICK b \in Bots : bots' = [bots EXCEPT ![b] = "live"] /\ Handle(p, "create", b, "find")
    BY <1>1 DEF CreateBot
  <2>2. ProcOK'
    BY <1>0, <2>1, HandleOK, PcsAt DEF Points
  <2>3. StoreOK'
    BY <1>0, <1>1, <2>1 DEF CreateBot, StoreOK, IsTable
  <2> QED
    BY <2>2, <2>3
<1>2. CASE SendMessage(p)
  <2>1. PICK b \in Bots, id \in ClientIds \cup {NoId} :
           LET m == IF id = NoId THEN serial + 1 ELSE id
           IN  AppendMessage(messages, b, m, "user", "awaiting", NoId) /\ StartTurn(p, b, m)
    BY <1>2 DEF SendMessage
  <2> DEFINE m == IF id = NoId THEN serial + 1 ELSE id
  <2>2. m \in MessageIds
    BY <1>0, <2>1 DEF StoreOK, MessageIds
  <2>3. ProcOK'
    BY <1>0, <2>1, <2>2, StartTurnOK
  <2>4. IsTable(messages', MessageIds, MessageRow) /\ IsTable(segments', SegmentIds, SegmentRow)
    BY <1>0, <2>1, <2>2, AppendType DEF StoreOK, Statuses
  <2>5. StoreOK'
    BY <1>0, <1>2, <2>4 DEF SendMessage, StoreOK
  <2> QED
    BY <2>3, <2>5
<1>3. CASE RetryMessage(p)
  <2>1. PICK m \in DOMAIN messages :
           proc' = [proc EXCEPT ![p] = [NewRequest EXCEPT
                        !.kind = "retry", !.pc = "find", !.msg = m,
                        !.bot = messages[m].bot, !.seg = messages[m].seg]]
    BY <1>3 DEF RetryMessage
  <2> DEFINE r == [NewRequest EXCEPT !.kind = "retry", !.pc = "find", !.msg = m,
                        !.bot = messages[m].bot, !.seg = messages[m].seg]
  <2>2. m \in MessageIds /\ messages[m].bot \in Bots /\ messages[m].seg \in SegmentIds
    BY <1>0 DEF StoreOK, IsTable, MessageRow
  <2>3. r \in Process /\ r.kind = "retry" /\ r.pc = "find" /\ r.bot \in Bots /\ r.msg \in MessageIds
    BY <2>2 DEF NewRequest, Process, Points
  <2>4. ProcOK'
    BY <1>0, <2>1, <2>3, PcsAt, ProcUpdate DEF ProcessOK
  <2>5. StoreOK'
    BY <1>0, <1>3 DEF RetryMessage, StoreOK, IsTable
  <2> QED
    BY <2>4, <2>5
<1>4. CASE CompactConversation(p)
  <2>1. ProcOK'
    BY <1>0, <1>4, HandleOK, PcsAt DEF CompactConversation, Points
  <2>2. StoreOK'
    BY <1>0, <1>4 DEF CompactConversation, StoreOK, IsTable
  <2> QED
    BY <2>1, <2>2
<1>5. CASE DeleteMessages(p)
  <2>1. ProcOK'
    BY <1>0, <1>5, HandleOK, PcsAt DEF DeleteMessages, Points
  <2>2. IsTable(messages', MessageIds, MessageRow)
    BY <1>0, <1>5, DropOK DEF DeleteMessages, StoreOK
  <2>3. StoreOK'
    BY <1>0, <1>5, <2>2 DEF DeleteMessages, StoreOK, IsTable
  <2> QED
    BY <2>1, <2>3
<1> QED
  BY <1>1, <1>2, <1>3, <1>4, <1>5 DEF Request

\* The steps of OpenSegment outside a transaction.
LEMMA OpenSegmentType ==
    ASSUME TypeOK, NEW p \in Requests,
           FindOpenSegment(p) \/ ChooseIndex(p) \/ InsertSegment(p)
    PROVE  TypeOK'
<1> SUFFICES StoreOK' /\ ProcOK'
  BY TypeParts DEF TypeOK, StoreOK, ProcOK, ProcessOK
<1>0. StoreOK /\ ProcOK /\ ProcessOK(proc[p])
  BY TypeParts DEF ProcOK
<1>1. CASE FindOpenSegment(p)
  <2>1. StoreOK'
    BY <1>0, <1>1 DEF FindOpenSegment, StoreOK, IsTable
  <2>2. CASE OpenSegments(proc[p].bot) = {}
    <3>1. "next" \in Pcs(proc[p].kind)
      BY <1>0, <1>1, KindAt, PcsAt DEF FindOpenSegment
    <3> QED
      BY <1>0, <1>1, <2>1, <2>2, <3>1, GotoOK DEF FindOpenSegment, Points
  <2>3. CASE OpenSegments(proc[p].bot) # {}
    <3>1. PICK s \in Newest(OpenSegments(proc[p].bot)) : WithSegment(p, s, segments[s].idx)
      BY <1>1, <2>3 DEF FindOpenSegment
    <3>2. s \in DOMAIN segments
      BY <3>1, NewestIsIn DEF OpenSegments, SegmentsOf
    <3>3. s \in SegmentIds /\ segments[s].idx \in Nat
      BY <1>0, <3>2 DEF StoreOK, IsTable, SegmentRow
    <3> QED
      BY <1>0, <1>1, <2>1, <3>1, <3>3, WithSegmentOK DEF FindOpenSegment
  <2> QED
    BY <2>2, <2>3
<1>2. CASE ChooseIndex(p)
  <2>1. proc[p].kind \in {"create", "retry", "compact", "turn"}
    BY <1>0, <1>2, KindAt DEF ChooseIndex
  <2>2. proc[p].bot \in Bots
    BY <1>0, <2>1 DEF ProcessOK
  <2>3. PICK i \in NextIndexes(proc[p].bot) :
           proc' = [proc EXCEPT ![p].idx = i, ![p].pc = "insert"]
    BY <1>2 DEF ChooseIndex
  <2> DEFINE r == [proc[p] EXCEPT !.idx = i, !.pc = "insert"]
  <2>4. proc' = [proc EXCEPT ![p] = r]
    BY <2>3
  <2>5. i \in Nat
    BY <2>2, <2>3, NextIndexType
  <2>6. r \in Process /\ r.kind = proc[p].kind /\ r.pc = "insert"
                /\ r.bot = proc[p].bot /\ r.msg = proc[p].msg
    BY <1>0, <2>5 DEF ProcessOK, Process, Points
  <2>7. ProcessOK(r)
    BY <1>0, <2>1, <2>6, PcsAt DEF ProcessOK
  <2>8. StoreOK'
    BY <1>0, <1>2 DEF ChooseIndex, StoreOK, IsTable
  <2> QED
    BY <1>0, <2>4, <2>7, <2>8, ProcUpdate
<1>3. CASE InsertSegment(p)
  <2> DEFINE b == proc[p].bot
             s == <<b, serial + 1>>
             i == proc[p].idx
  <2>1. proc[p].pc = "insert" /\ UNCHANGED <<bots, messages, up, crashes>>
    BY <1>3 DEF InsertSegment
  <2>2. b \in Bots /\ i \in Nat
    BY <1>0, <2>1, KindAt DEF ProcessOK, Process
  <2>3. CASE Live(b) /\ IndexFree(b, i)
    <3>1. segments' = Put(segments, s, FreshSegment(i)) /\ serial' = serial + 1
             /\ WithSegment(p, s, i)
      BY <1>3, <2>3 DEF InsertSegment
    <3>2. s \in SegmentIds /\ FreshSegment(i) \in SegmentRow
      BY <1>0, <2>2 DEF StoreOK, SegmentIds, FreshSegment, SegmentRow
    <3>3. StoreOK'
      BY <1>0, <2>1, <3>1, <3>2, PutType DEF StoreOK
    <3> QED
      BY <1>0, <2>1, <2>2, <3>1, <3>2, <3>3, WithSegmentOK
  <2>4. CASE ~(Live(b) /\ IndexFree(b, i))
    <3>1. Abort(p) /\ UNCHANGED <<segments, serial>>
      BY <1>3, <2>4 DEF InsertSegment
    <3> QED
      BY <1>0, <2>1, <3>1, AbortOK DEF StoreOK, IsTable
  <2> QED
    BY <2>3, <2>4
<1> QED
  BY <1>1, <1>2, <1>3

\* The steps of a turn, and those that it shares with a compaction.
LEMMA TurnType ==
    ASSUME TypeOK, NEW p \in Requests,
           \/ ListMessages(p) \/ ReadSummary(p) \/ CompleteTurn(p)
           \/ ModelFails(p) \/ SettleFailed(p)
    PROVE  TypeOK'
<1> SUFFICES StoreOK' /\ ProcOK'
  BY TypeParts DEF TypeOK, StoreOK, ProcOK, ProcessOK
<1>0. StoreOK /\ ProcOK /\ ProcessOK(proc[p])
  BY TypeParts DEF ProcOK
<1>1. CASE ListMessages(p)
  <2> DEFINE listed == SegmentMessages(proc[p].seg)
             pc == IF proc[p].kind = "compact" THEN "check" ELSE "summary"
             r == [proc[p] EXCEPT !.hist = listed, !.pc = pc]
  <2>1. StoreOK'
    BY <1>0, <1>1 DEF ListMessages, StoreOK, IsTable
  <2>2. CASE Finish(p)
    BY <1>0, <2>1, <2>2, FinishOK
  <2>3. CASE proc' = [proc EXCEPT ![p] = r]
    <3>1. proc[p].kind \in {"compact", "turn"}
      BY <1>0, <1>1, KindAt DEF ListMessages
    <3>2. listed \in SUBSET MessageIds
      BY ListedType
    <3>3. r \in Process /\ r.kind = proc[p].kind /\ r.pc = pc
                  /\ r.bot = proc[p].bot /\ r.msg = proc[p].msg
      BY <1>0, <3>2 DEF ProcessOK, Process, Points
    <3>4. ProcessOK(r)
      BY <1>0, <3>1, <3>3, PcsAt DEF ProcessOK
    <3> QED
      BY <1>0, <2>1, <2>3, <3>4, ProcUpdate
  <2> QED
    BY <1>1, <2>2, <2>3 DEF ListMessages
<1>2. CASE ReadSummary(p)
  <2> DEFINE pc == IF proc[p].kind = "compact" THEN "seal" ELSE "complete"
             r == [proc[p] EXCEPT !.sum = LatestSummary(proc[p].bot), !.pc = pc]
  <2>1. proc[p].kind \in {"compact", "turn"}
    BY <1>0, <1>2, KindAt DEF ReadSummary
  <2>2. LatestSummary(proc[p].bot) \in SUBSET MessageIds
    BY <1>0, <2>1, SummaryType DEF ProcessOK
  <2>3. proc' = [proc EXCEPT ![p] = r]
    BY <1>2 DEF ReadSummary
  <2>4. r \in Process /\ r.kind = proc[p].kind /\ r.pc = pc
                /\ r.bot = proc[p].bot /\ r.msg = proc[p].msg
    BY <1>0, <2>2 DEF ProcessOK, Process, Points
  <2>5. ProcessOK(r)
    BY <1>0, <2>1, <2>4, PcsAt DEF ProcessOK
  <2>6. StoreOK'
    BY <1>0, <1>2 DEF ReadSummary, StoreOK, IsTable
  <2> QED
    BY <1>0, <2>3, <2>5, <2>6, ProcUpdate
<1>3. CASE CompleteTurn(p)
  <2> DEFINE b == proc[p].bot
             m == proc[p].msg
             settled == [messages EXCEPT ![m].status = "sent"]
  <2>1. proc[p].kind = "turn" /\ b \in Bots /\ m \in MessageIds
    BY <1>0, <1>3, KindAt DEF CompleteTurn, ProcessOK
  <2>2. CASE Live(b) /\ m \in DOMAIN messages
    <3>1. AppendMessage(settled, b, serial + 1, "bot", "sent", m) /\ Finish(p)
      BY <1>3, <2>2 DEF CompleteTurn
    <3>2. IsTable(settled, MessageIds, MessageRow)
      BY <1>0, <2>2 DEF StoreOK, IsTable, MessageRow, Statuses
    <3>3. serial + 1 \in MessageIds
      BY <1>0 DEF StoreOK, MessageIds
    <3>4. IsTable(messages', MessageIds, MessageRow) /\ IsTable(segments', SegmentIds, SegmentRow)
      BY <2>1, <3>1, <3>2, <3>3, AppendType DEF Statuses
    <3>5. StoreOK'
      BY <1>0, <1>3, <2>2, <3>4 DEF CompleteTurn, StoreOK
    <3> QED
      BY <1>0, <3>1, <3>5, FinishOK
  <2>3. CASE ~(Live(b) /\ m \in DOMAIN messages)
    <3>1. Goto(p, "settle") /\ UNCHANGED <<bots, messages, segments, serial, up, crashes>>
      BY <1>3, <2>3 DEF CompleteTurn
    <3>2. ProcOK'
      BY <1>0, <2>1, <3>1, GotoOK, PcsAt DEF Points
    <3> QED
      BY <1>0, <3>1, <3>2, StoreStays
  <2> QED
    BY <2>2, <2>3
<1>4. CASE ModelFails(p)
  <2>1. ProcOK'
    BY <1>0, <1>4, GotoOK, PcsAt DEF ModelFails, Points
  <2> QED
    BY <1>0, <1>4, <2>1, StoreStays DEF ModelFails
<1>5. CASE SettleFailed(p)
  <2>1. ProcOK'
    BY <1>0, <1>5, FinishOK DEF SettleFailed
  <2>2. IsTable(messages', MessageIds, MessageRow)
    BY <1>0, <1>5, SetStatusOK DEF SettleFailed, Statuses, StoreOK
  <2> QED
    BY <1>0, <1>5, <2>1, <2>2 DEF SettleFailed, StoreOK, IsTable
<1> QED
  BY <1>1, <1>2, <1>3, <1>4, <1>5

\* The other steps of the handlers.
LEMMA HandlerType ==
    ASSUME TypeOK, NEW p \in Requests,
           \/ ClaimRetry(p) \/ CheckInFlight(p) \/ Seal(p) \/ SummarizeFails(p)
           \/ DeleteSegments(p) \/ DeleteRow(p)
    PROVE  TypeOK'
<1> SUFFICES StoreOK' /\ ProcOK'
  BY TypeParts DEF TypeOK, StoreOK, ProcOK, ProcessOK
<1>0. StoreOK /\ ProcOK /\ ProcessOK(proc[p])
  BY TypeParts DEF ProcOK
<1>1. CASE ClaimRetry(p)
  <2> DEFINE b == proc[p].bot
             m == proc[p].msg
  <2>1. b \in Bots /\ m \in MessageIds
    BY <1>0, <1>1, KindAt DEF ClaimRetry, ProcessOK
  <2>2. CASE m \in DOMAIN messages /\ SetStatus(m, "awaiting") /\ StartTurn(p, b, m)
    <3>1. ProcOK'
      BY <1>0, <2>1, <2>2, StartTurnOK
    <3>2. IsTable(messages', MessageIds, MessageRow)
      BY <1>0, <2>2, SetStatusOK DEF Statuses
    <3> QED
      BY <1>0, <1>1, <3>1, <3>2 DEF ClaimRetry, StoreOK, IsTable
  <2>3. CASE Finish(p) /\ UNCHANGED messages
    BY <1>0, <1>1, <2>3, FinishOK, StoreStays DEF ClaimRetry
  <2> QED
    BY <1>1, <2>2, <2>3 DEF ClaimRetry
<1>2. CASE CheckInFlight(p)
  <2>1. proc[p].kind = "compact"
    BY <1>0, <1>2, KindAt DEF CheckInFlight
  <2>2. ProcOK'
    BY <1>0, <1>2, <2>1, FinishOK, GotoOK, PcsAt DEF CheckInFlight, Points
  <2> QED
    BY <1>0, <1>2, <2>2, StoreStays DEF CheckInFlight
<1>3. CASE Seal(p)
  <2> DEFINE b == proc[p].bot
             s == proc[p].seg
             next == <<b, serial + 1>>
             sealed == IF s \in DOMAIN segments /\ segments[s].open
                       THEN Put(segments, s, [segments[s] EXCEPT
                                 !.open = FALSE, !.covers = Folded(p)])
                       ELSE segments
             fresh == FreshSegment(proc[p].idx + 1)
  <2>1. ProcOK'
    BY <1>0, <1>3, FinishOK DEF Seal
  <2>2. b \in Bots /\ proc[p].idx \in Nat /\ Folded(p) \in SUBSET MessageIds
    BY <1>0, <1>3, KindAt DEF Seal, ProcessOK, Process, Folded
  <2>3. IsTable(sealed, SegmentIds, SegmentRow)
    <3>1. CASE s \in DOMAIN segments /\ segments[s].open
      <4>1. s \in SegmentIds /\ segments[s] \in SegmentRow
        BY <1>0, <3>1 DEF StoreOK, IsTable
      <4>2. [segments[s] EXCEPT !.open = FALSE, !.covers = Folded(p)]
               \in SegmentRow
        BY <2>2, <4>1 DEF SegmentRow
      <4> QED
        BY <1>0, <3>1, <4>1, <4>2, PutType DEF StoreOK
    <3> QED
      BY <1>0, <3>1 DEF StoreOK
  <2>4. next \in SegmentIds /\ fresh \in SegmentRow
    BY <1>0, <2>2 DEF StoreOK, SegmentIds, FreshSegment, SegmentRow
  <2>5. IsTable(Put(sealed, next, fresh), SegmentIds, SegmentRow)
    BY <2>3, <2>4, PutType
  <2>6. CASE segments' = Put(sealed, next, fresh) /\ serial' = serial + 1
    <3>1. UNCHANGED <<bots, messages, up, crashes>>
      BY <1>3 DEF Seal
    <3>2. IsTable(segments', SegmentIds, SegmentRow) /\ serial' \in Nat
      <4> HIDE DEF sealed, next, fresh
      <4> QED
        BY <1>0, <2>5, <2>6 DEF StoreOK
    <3> QED
      BY <1>0, <2>1, <3>1, <3>2 DEF StoreOK
  <2>7. CASE UNCHANGED <<segments, serial>>
    BY <1>0, <1>3, <2>1, <2>7, StoreStays DEF Seal
  <2> QED
    BY <1>3, <2>6, <2>7 DEF Seal
<1>4. CASE SummarizeFails(p)
  BY <1>0, <1>4, FinishOK, StoreStays DEF SummarizeFails
<1>5. CASE DeleteSegments(p)
  <2>1. ProcOK'
    BY <1>0, <1>5, KindAt, GotoOK, PcsAt DEF DeleteSegments, Points
  <2>2. IsTable(segments', SegmentIds, SegmentRow)
    BY <1>0, <1>5, DropOK DEF DeleteSegments, StoreOK
  <2> QED
    BY <1>0, <1>5, <2>1, <2>2 DEF DeleteSegments, StoreOK, IsTable
<1>6. CASE DeleteRow(p)
  <2>1. ProcOK'
    BY <1>0, <1>6, FinishOK DEF DeleteRow
  <2> QED
    BY <1>0, <1>6, <2>1 DEF DeleteRow, StoreOK, IsTable
<1> QED
  BY <1>1, <1>2, <1>3, <1>4, <1>5, <1>6

\* The death of the process and its restart.
LEMMA ProcessType ==
    ASSUME TypeOK, Crash \/ Restart
    PROVE  TypeOK'
<1> SUFFICES StoreOK' /\ ProcOK'
  BY TypeParts DEF TypeOK, StoreOK, ProcOK, ProcessOK
<1>0. StoreOK /\ ProcOK
  BY TypeParts
<1>1. CASE Crash
  <2>1. ProcOK'
    BY <1>0, <1>1, NewOK DEF Crash, ProcOK, ProcessOK
  <2>2. crashes' \in 0..MaxCrashes
    BY <1>0, <1>1, CrashesAreCounted DEF Crash, StoreOK
  <2> QED
    BY <1>0, <1>1, <2>1, <2>2 DEF Crash, StoreOK, IsTable
<1>2. CASE Restart
  <2> DEFINE bare == {b \in Bots : Live(b) /\ SegmentsOf(b) = {}}
             added == {<<b, serial + 1>> : b \in bare}
  <2>1. segments' = [s \in DOMAIN segments \cup added |->
                        IF s \in added THEN FreshSegment(0) ELSE segments[s]]
    BY <1>2 DEF Restart
  <2>2. added \subseteq SegmentIds /\ FreshSegment(0) \in SegmentRow
    BY <1>0 DEF StoreOK, SegmentIds, FreshSegment, SegmentRow
  <2>3. IsTable(segments', SegmentIds, SegmentRow)
    <3> HIDE DEF added
    <3> QED
      BY <1>0, <2>1, <2>2 DEF StoreOK, IsTable
  <2>4. IsTable(messages', MessageIds, MessageRow)
    <3>1. \A m \in DOMAIN messages :
             [messages[m] EXCEPT !.status = IF @ = "awaiting" THEN "failed" ELSE @] \in MessageRow
      BY <1>0 DEF StoreOK, IsTable, MessageRow, Statuses
    <3>2. messages' = FailInterrupted
      BY <1>2 DEF Restart
    <3> QED
      BY <1>0, <3>1, <3>2 DEF FailInterrupted, StoreOK, IsTable
  <2>5. ProcOK'
    BY <1>0, <1>2 DEF Restart, ProcOK, ProcessOK
  <2> QED
    BY <1>0, <1>2, <2>3, <2>4, <2>5 DEF Restart, StoreOK
<1> QED
  BY <1>1, <1>2

\* Every step of the server, whatever clients ask of it, keeps the tables and the local
\* variables of handlers and turns well-formed, and each of them on the way of its kind.
THEOREM TypeCorrect == Spec => []TypeOK
<1>1. TypeOK /\ [Next]_vars => TypeOK'
  <2> SUFFICES ASSUME TypeOK, [Next]_vars PROVE TypeOK'
    OBVIOUS
  <2>1. CASE \E p \in Requests : Request(p) \/ Step(p)
    BY <2>1, RequestType, OpenSegmentType, TurnType, HandlerType DEF Step
  <2>2. CASE Crash \/ Restart
    BY <2>2, ProcessType
  <2>3. CASE UNCHANGED vars
    BY <2>3 DEF vars, TypeOK, IsTable
  <2> QED
    BY <2>1, <2>2, <2>3 DEF Next, Quiet
<1> QED
  BY <1>1, InitType, PTL DEF Spec

-----------------------------------------------------------------------------
(* One reply in flight.                                                      *)

\* appendMessage writes one row, as it was told to, and of the other rows only what its
\* transaction did.
LEMMA AppendRow ==
    ASSUME NEW rows, NEW b, NEW m, NEW role, NEW status, NEW answers,
           AppendMessage(rows, b, m, role, status, answers)
    PROVE  \E row : /\ messages' = Put(rows, m, row)
                    /\ row.bot = b /\ row.role = role /\ row.status = status
                    /\ row.answers = answers /\ row.at = serial + 1
<1> DEFINE row(s) == [bot |-> b, role |-> role, seg |-> s, status |-> status,
                      at |-> serial + 1, answers |-> answers]
<1>1. \E s : messages' = Put(rows, m, row(s))
  BY DEF AppendMessage
<1> QED
  BY <1>1

\* Only a send and a claimed retry set a message awaiting.
LEMMA AwaitingFrom ==
    ASSUME TypeOK, NEW p \in Requests, Request(p) \/ Step(p), NEW m \in DOMAIN messages',
           messages'[m].status = "awaiting"
    PROVE  \/ m \in DOMAIN messages /\ messages[m] = messages'[m]
           \/ SendMessage(p) /\ messages'[m].bot = proc'[p].bot /\ proc'[p].msg = m
           \/ ClaimRetry(p) /\ proc[p].msg = m /\ m \in DOMAIN messages
                            /\ messages'[m].bot = messages[m].bot /\ proc'[p].msg = m
<1>1. CASE SendMessage(p)
  <2>1. PICK b \in Bots, id \in ClientIds \cup {NoId} :
           LET q == IF id = NoId THEN serial + 1 ELSE id
           IN  AppendMessage(messages, b, q, "user", "awaiting", NoId) /\ StartTurn(p, b, q)
    BY <1>1 DEF SendMessage
  <2> DEFINE q == IF id = NoId THEN serial + 1 ELSE id
  <2>2. PICK row : messages' = Put(messages, q, row) /\ row.bot = b
    BY <2>1, AppendRow
  <2>3. proc'[p].bot = b /\ proc'[p].msg = q
    BY <2>1 DEF StartTurn, TypeOK, NewRequest
  <2> QED
    BY <1>1, <2>2, <2>3 DEF Put
<1>2. CASE ClaimRetry(p)
  <2>1. CASE UNCHANGED messages
    BY <2>1
  <2>2. CASE /\ proc[p].msg \in DOMAIN messages
             /\ SetStatus(proc[p].msg, "awaiting")
             /\ StartTurn(p, proc[p].bot, proc[p].msg)
    <3>1. proc'[p].msg = proc[p].msg
      BY <2>2 DEF StartTurn, TypeOK, NewRequest
    <3>2. messages' = Put(messages, proc[p].msg,
                          [messages[proc[p].msg] EXCEPT !.status = "awaiting"])
      BY <2>2 DEF SetStatus
    <3>3. \A x \in DOMAIN messages : messages[x] \in MessageRow
      BY DEF TypeOK, IsTable
    <3> QED
      BY <1>2, <2>2, <3>1, <3>2, <3>3 DEF Put, MessageRow
  <2> QED
    BY <1>2, <2>1, <2>2 DEF ClaimRetry
<1>3. CASE CompleteTurn(p)
  <2> DEFINE q == proc[p].msg
             settled == [messages EXCEPT ![q].status = "sent"]
  <2>1. CASE UNCHANGED messages
    BY <2>1
  <2>2. CASE q \in DOMAIN messages /\ AppendMessage(settled, proc[p].bot, serial + 1, "bot", "sent", q)
    <3>1. PICK row : messages' = Put(settled, serial + 1, row) /\ row.status = "sent"
      BY <2>2, AppendRow
    <3>2. m # serial + 1
      BY <3>1 DEF Put
    <3>3. m \in DOMAIN messages /\ messages'[m] = settled[m]
      BY <3>1, <3>2 DEF Put
    <3>4. messages[q] \in MessageRow
      BY <2>2 DEF TypeOK, IsTable
    <3>5. m # q
      BY <3>3, <3>4 DEF MessageRow
    <3> QED
      BY <3>3, <3>5
  <2> QED
    BY <1>3, <2>1, <2>2 DEF CompleteTurn
<1>4. CASE SettleFailed(p)
  <2>1. \A x \in DOMAIN messages : messages[x] \in MessageRow
    BY DEF TypeOK, IsTable
  <2> QED
    BY <1>4, <2>1 DEF SettleFailed, SetStatus, Put, MessageRow
<1>5. CASE DeleteMessages(p)
  BY <1>5 DEF DeleteMessages, Drop
<1>6. CASE UNCHANGED messages
  BY <1>6
<1> QED
  BY <1>1, <1>2, <1>3, <1>4, <1>5, <1>6
     DEF Request, Step, CreateBot, RetryMessage, CompactConversation, FindOpenSegment,
         ChooseIndex, InsertSegment, ListMessages, CheckInFlight, ReadSummary, Seal,
         SummarizeFails, DeleteSegments, DeleteRow, ModelFails

\* The restart leaves nothing awaiting.
LEMMA RestartFails ==
    ASSUME TypeOK, Restart, NEW m \in DOMAIN messages'
    PROVE  messages'[m].status # "awaiting"
<1>1. messages[m] \in MessageRow /\ m \in DOMAIN messages
  BY DEF Restart, FailInterrupted, TypeOK, IsTable
<1> QED
  BY <1>1 DEF Restart, FailInterrupted, MessageRow

\* A message is set awaiting only if no other of its bot is, in the transaction that
\* sets it, so no bot ever has two replies in flight.
THEOREM OneReplyInFlight == Spec => []OneAwaitingPerBot
<1>1. Init => OneAwaitingPerBot
  BY DEF Init, OneAwaitingPerBot
<1>2. TypeOK /\ OneAwaitingPerBot /\ [Next]_vars => OneAwaitingPerBot'
  <2> SUFFICES ASSUME TypeOK, OneAwaitingPerBot, [Next]_vars,
                      NEW m \in DOMAIN messages', NEW n \in DOMAIN messages',
                      messages'[m].status = "awaiting", messages'[n].status = "awaiting",
                      messages'[m].bot = messages'[n].bot,
                      m # n
               PROVE  FALSE
    BY DEF OneAwaitingPerBot
  <2>1. CASE UNCHANGED messages
    BY <2>1 DEF OneAwaitingPerBot
  <2>2. CASE Restart
    BY <2>2, RestartFails
  <2>3. ASSUME NEW p \in Requests, Request(p) \/ Step(p), messages' # messages PROVE FALSE
    <3>1. CASE /\ m \in DOMAIN messages /\ messages[m] = messages'[m]
               /\ n \in DOMAIN messages /\ messages[n] = messages'[n]
      BY <3>1 DEF OneAwaitingPerBot
    <3>2. CASE SendMessage(p)
      <4>1. PICK b \in Bots : Claimable(b) /\ \E q : StartTurn(p, b, q)
        BY <3>2 DEF SendMessage
      <4>2. proc'[p].bot = b
        BY <4>1 DEF StartTurn, TypeOK, NewRequest
      <4>3. ~ClaimRetry(p)
        BY <3>2 DEF SendMessage, Admit, ClaimRetry
      <4>4. \/ n \in DOMAIN messages /\ messages[n] = messages'[n] /\ messages'[m].bot = b
            \/ m \in DOMAIN messages /\ messages[m] = messages'[m] /\ messages'[n].bot = b
        BY <2>3, <3>1, <4>2, <4>3, AwaitingFrom
      <4> QED
        BY <4>1, <4>4 DEF Claimable, Busy, Awaiting, MessagesOf
    <3>3. CASE ClaimRetry(p)
      <4>1. Awaiting(messages[proc[p].msg].bot) \subseteq {proc[p].msg}
        BY <2>3, <3>3 DEF ClaimRetry
      <4>2. ~SendMessage(p)
        BY <3>3 DEF SendMessage, Admit, ClaimRetry
      <4>3. \/ /\ m = proc[p].msg /\ messages'[m].bot = messages[m].bot
               /\ n \in DOMAIN messages /\ messages[n] = messages'[n]
            \/ /\ n = proc[p].msg /\ messages'[n].bot = messages[n].bot
               /\ m \in DOMAIN messages /\ messages[m] = messages'[m]
        BY <2>3, <3>1, <4>2, AwaitingFrom
      <4> QED
        BY <4>1, <4>3 DEF Awaiting, MessagesOf
    <3> QED
      BY <2>3, <3>1, <3>2, <3>3, AwaitingFrom
  <2> QED
    BY <2>1, <2>2, <2>3 DEF Next, Crash, Quiet, vars
<1> QED
  BY <1>1, <1>2, TypeCorrect, PTL DEF Spec

-----------------------------------------------------------------------------
(* No awaiting message is forgotten.                                         *)

\* A step is a step of one process: no other one's local variables change.
LEMMA OthersStay ==
    ASSUME TypeOK, NEW p \in Requests, Request(p) \/ Step(p), NEW q \in Requests, q # p
    PROVE  proc'[q] = proc[q]
<1> DEFINE Changes == \E r : proc' = [proc EXCEPT ![p] = r]
<1>1. \A pc : Goto(p, pc) => Changes
  BY DEF Goto
<1>2. Finish(p) => Changes
  BY DEF Finish
<1>3. Abort(p) => Changes
  BY <1>1, <1>2 DEF Abort
<1>4. \A kind, b, pc : Handle(p, kind, b, pc) => Changes
  BY DEF Handle
<1>5. \A b, m : StartTurn(p, b, m) => Changes
  BY DEF StartTurn
<1>6. \A s, i : WithSegment(p, s, i) => Changes
  <2> SUFFICES ASSUME NEW s, NEW i, WithSegment(p, s, i) PROVE Changes
    OBVIOUS
  <2>1. CASE proc[p].kind = "create"
    BY <1>2, <2>1 DEF WithSegment
  <2>2. CASE proc[p].kind = "retry"
    BY <1>1, <1>2, <2>2 DEF WithSegment
  <2>3. CASE proc[p].kind \notin {"create", "retry"}
    <3>1. proc' = [proc EXCEPT ![p] = [proc[p] EXCEPT !.seg = s, !.idx = i, !.pc = "list"]]
      BY <2>3 DEF WithSegment
    <3> QED
      BY <3>1
  <2> QED
    BY <2>1, <2>2, <2>3
<1>7. CASE Request(p)
  <2>1. RetryMessage(p) => Changes
    BY DEF RetryMessage
  <2>2. CreateBot(p) \/ SendMessage(p) \/ CompactConversation(p) \/ DeleteMessages(p) => Changes
    <3> HIDE DEF Changes
    <3> QED
      BY <1>4, <1>5 DEF CreateBot, SendMessage, CompactConversation, DeleteMessages
  <2>3. Changes
    BY <1>7, <2>1, <2>2 DEF Request
  <2> QED
    BY <2>3 DEF TypeOK
<1>8. CASE Step(p)
  <2>1. ChooseIndex(p) => Changes
    <3> SUFFICES ASSUME ChooseIndex(p) PROVE Changes
      OBVIOUS
    <3>1. PICK i : proc' = [proc EXCEPT ![p] = [proc[p] EXCEPT !.idx = i, !.pc = "insert"]]
      BY DEF ChooseIndex
    <3> QED
      BY <3>1
  <2>2. ListMessages(p) => Changes
    <3> SUFFICES ASSUME ListMessages(p), ~Finish(p) PROVE Changes
      BY <1>2
    <3>1. \E hist, pc : proc' = [proc EXCEPT ![p] = [proc[p] EXCEPT !.hist = hist, !.pc = pc]]
      BY DEF ListMessages
    <3> QED
      BY <3>1
  <2>3. ReadSummary(p) => Changes
    <3> SUFFICES ASSUME ReadSummary(p) PROVE Changes
      OBVIOUS
    <3>1. \E sum, pc : proc' = [proc EXCEPT ![p] = [proc[p] EXCEPT !.sum = sum, !.pc = pc]]
      BY DEF ReadSummary
    <3> QED
      BY <3>1
  <2>4. Changes
    <3> HIDE DEF Changes
    <3> QED
      BY <1>1, <1>2, <1>3, <1>4, <1>5, <1>6, <1>8, <2>1, <2>2, <2>3
         DEF Step, FindOpenSegment, InsertSegment, ClaimRetry, CheckInFlight, Seal,
             SummarizeFails, DeleteSegments, DeleteRow, CompleteTurn, ModelFails, SettleFailed
  <2> QED
    BY <2>4 DEF TypeOK
<1> QED
  BY <1>7, <1>8

\* Going on changes neither what a turn answers nor that it is a turn.
LEMMA GoesOn ==
    ASSUME TypeOK, NEW p \in Requests, proc[p].kind = "turn",
           \/ \E pc : Goto(p, pc)
           \/ Abort(p)
           \/ \E s, i : WithSegment(p, s, i)
    PROVE  proc'[p].kind = "turn" /\ proc'[p].msg = proc[p].msg /\ proc'[p].bot = proc[p].bot
<1>1. CASE \E pc : Goto(p, pc)
  BY <1>1 DEF Goto, TypeOK, Process
<1>2. CASE Abort(p)
  BY <1>2 DEF Abort, Goto, TypeOK, Process
<1>3. CASE \E s, i : WithSegment(p, s, i)
  <2>1. PICK s, i : WithSegment(p, s, i)
    BY <1>3
  <2>2. proc' = [proc EXCEPT ![p] = [proc[p] EXCEPT !.seg = s, !.idx = i, !.pc = "list"]]
    BY <2>1 DEF WithSegment
  <2> QED
    BY <2>2 DEF TypeOK, Process
<1> QED
  BY <1>1, <1>2, <1>3

\* A turn goes on as long as its message awaits it: it ends only by settling it.
LEMMA TurnStays ==
    ASSUME TypeOK, NEW p \in Requests, Request(p) \/ Step(p), proc[p].kind = "turn",
           proc[p].msg \in DOMAIN messages', messages'[proc[p].msg].status = "awaiting"
    PROVE  proc'[p].kind = "turn" /\ proc'[p].msg = proc[p].msg
<1> DEFINE m == proc[p].msg
<1>0. ProcessOK(proc[p])
  BY TypeParts DEF ProcOK
<1>1. proc[p].pc \notin {"new", "claim", "check", "seal", "clear segments", "clear bot"}
  BY <1>0, KindAt
<1>2. ~Request(p)
  BY <1>1 DEF Request, CreateBot, SendMessage, RetryMessage, CompactConversation,
              DeleteMessages, Admit
<1>3. CASE FindOpenSegment(p) \/ InsertSegment(p) \/ ModelFails(p)
  <2>1. \/ \E pc : Goto(p, pc)
        \/ Abort(p)
        \/ \E s, i : WithSegment(p, s, i)
    BY <1>3 DEF FindOpenSegment, InsertSegment, ModelFails
  <2> QED
    BY <2>1, GoesOn
<1>4. CASE ChooseIndex(p)
  <2>1. PICK i : proc' = [proc EXCEPT ![p] = [proc[p] EXCEPT !.idx = i, !.pc = "insert"]]
    BY <1>4 DEF ChooseIndex
  <2> QED
    BY <2>1 DEF TypeOK, Process
<1>5. CASE ListMessages(p)
  <2>1. proc' = [proc EXCEPT ![p] = [proc[p] EXCEPT !.hist = SegmentMessages(proc[p].seg),
                                                   !.pc = "summary"]]
    BY <1>5 DEF ListMessages
  <2> QED
    BY <2>1 DEF TypeOK, Process
<1>6. CASE ReadSummary(p)
  <2>1. PICK sum, pc : proc' = [proc EXCEPT ![p] = [proc[p] EXCEPT !.sum = sum, !.pc = pc]]
    BY <1>6 DEF ReadSummary
  <2> QED
    BY <2>1 DEF TypeOK, Process
<1>7. CASE CompleteTurn(p)
  <2> DEFINE settled == [messages EXCEPT ![m].status = "sent"]
  <2>1. CASE Goto(p, "settle")
    BY <2>1, GoesOn
  <2>2. CASE m \in DOMAIN messages
               /\ AppendMessage(settled, proc[p].bot, serial + 1, "bot", "sent", m)
    <3>1. PICK row : messages' = Put(settled, serial + 1, row) /\ row.status = "sent"
      BY <2>2, AppendRow
    <3>2. messages[m] \in MessageRow
      BY <2>2 DEF TypeOK, IsTable
    <3>3. settled[m].status = "sent"
      BY <2>2, <3>2 DEF MessageRow
    <3>4. messages'[m].status = "sent"
      BY <2>2, <3>1, <3>3 DEF Put
    <3> QED
      BY <3>4
  <2> QED
    BY <1>7, <2>1, <2>2 DEF CompleteTurn
<1>8. CASE SettleFailed(p)
  <2>1. m \in DOMAIN messages
    BY <1>8 DEF SettleFailed
  <2>2. messages[m] \in MessageRow
    BY <2>1 DEF TypeOK, IsTable
  <2>3. messages'[m].status = "failed"
    BY <1>8, <2>1, <2>2 DEF SettleFailed, SetStatus, Put, MessageRow
  <2> QED
    BY <2>3
<1> QED
  BY <1>1, <1>2, <1>3, <1>4, <1>5, <1>6, <1>7, <1>8
     DEF Step, ClaimRetry, CheckInFlight, Seal, SummarizeFails, DeleteSegments, DeleteRow

\* While a process is up, each awaiting message has the turn that will settle it: a
\* claim starts one, a turn ends by settling, and a restart settles what a death left.
THEOREM AwaitingHasTurn == Spec => []SlotHasTurn
<1>1. Init => SlotHasTurn
  BY DEF Init, SlotHasTurn
<1>2. TypeOK /\ SlotHasTurn /\ [Next]_vars => SlotHasTurn'
  <2> SUFFICES ASSUME TypeOK, SlotHasTurn, [Next]_vars, up',
                      NEW m \in DOMAIN messages', messages'[m].status = "awaiting"
               PROVE  \E q \in Requests : proc'[q].kind = "turn" /\ proc'[q].msg = m
    BY DEF SlotHasTurn, Turns
  <2>1. CASE UNCHANGED vars
    BY <2>1 DEF vars, SlotHasTurn, Turns
  <2>2. CASE Restart
    BY <2>2, RestartFails
  <2>3. ASSUME NEW p \in Requests, Request(p) \/ Step(p)
        PROVE  \E q \in Requests : proc'[q].kind = "turn" /\ proc'[q].msg = m
    <3>1. CASE SendMessage(p) /\ proc'[p].msg = m
      BY <3>1 DEF SendMessage, StartTurn, TypeOK, NewRequest
    <3>2. CASE ClaimRetry(p) /\ ~UNCHANGED messages /\ proc'[p].msg = m
      BY <3>2 DEF ClaimRetry, StartTurn, TypeOK, NewRequest
    <3>3. CASE m \in DOMAIN messages /\ messages[m] = messages'[m]
      <4>1. up
        BY <2>3 DEF Request, Step, CreateBot, SendMessage, RetryMessage, CompactConversation,
             DeleteMessages, FindOpenSegment, ChooseIndex, InsertSegment, ClaimRetry,
             ListMessages, CheckInFlight, ReadSummary, Seal, SummarizeFails, DeleteSegments,
             DeleteRow, CompleteTurn, ModelFails, SettleFailed
      <4>2. PICK q \in Requests : proc[q].kind = "turn" /\ proc[q].msg = m
        BY <3>3, <4>1 DEF SlotHasTurn, Turns
      <4>3. CASE q = p
        BY <2>3, <4>2, <4>3, TurnStays
      <4>4. CASE q # p
        BY <2>3, <4>2, <4>4, OthersStay
      <4> QED
        BY <4>3, <4>4
    <3> QED
      BY <2>3, <3>1, <3>2, <3>3, AwaitingFrom
  <2> QED
    BY <2>1, <2>2, <2>3 DEF Next, Crash, Quiet
<1> QED
  BY <1>1, <1>2, TypeCorrect, PTL DEF Spec

-----------------------------------------------------------------------------
(* What a step makes of its process and of the messages.                     *)

\* A process goes on: it is of the kind it was, and about what it was about.
Continues(p) ==
    /\ proc'[p].kind = proc[p].kind /\ proc[p].kind # "none"
    /\ proc'[p].msg = proc[p].msg /\ proc'[p].bot = proc[p].bot

\* A request is admitted that writes no message.
Begins(p) ==
    \/ /\ RetryMessage(p)
       /\ proc'[p].kind = "retry"
       /\ \E m \in DOMAIN messages : /\ messages[m].role = "user"
                                     /\ proc'[p].msg = m /\ proc'[p].bot = messages[m].bot
    \/ CreateBot(p) /\ proc'[p].kind = "create"
    \/ CompactConversation(p) /\ proc'[p].kind = "compact" /\ Live(proc'[p].bot)
    \/ DeleteMessages(p) /\ proc'[p].kind = "delete"

\* p has started to answer message m of bot b.
Answers(p, b, m) == proc'[p].kind = "turn" /\ proc'[p].bot = b /\ proc'[p].msg = m

LEMMA GoingOn ==
    ASSUME TypeOK, NEW p \in Requests, proc[p].kind # "none",
           \/ \E pc : Goto(p, pc)
           \/ \E s, i, pc : proc' = [proc EXCEPT ![p].seg = s, ![p].idx = i, ![p].pc = pc]
           \/ \E i, pc : proc' = [proc EXCEPT ![p].idx = i, ![p].pc = pc]
           \/ \E h, pc : proc' = [proc EXCEPT ![p].hist = h, ![p].pc = pc]
           \/ \E h, pc : proc' = [proc EXCEPT ![p].sum = h, ![p].pc = pc]
    PROVE  Continues(p)
<1>0. proc[p] \in Process /\ p \in DOMAIN proc
  BY DEF TypeOK
<1>1. CASE \E pc : Goto(p, pc)
  BY <1>0, <1>1 DEF Goto, Process, Continues
<1>2. CASE \E s, i, pc : proc' = [proc EXCEPT ![p].seg = s, ![p].idx = i, ![p].pc = pc]
  <2>1. PICK s, i, pc : proc' = [proc EXCEPT ![p].seg = s, ![p].idx = i, ![p].pc = pc]
    BY <1>2
  <2>2. proc' = [proc EXCEPT ![p] = [proc[p] EXCEPT !.seg = s, !.idx = i, !.pc = pc]]
    BY <2>1
  <2> QED
    BY <1>0, <2>2 DEF Process, Continues
<1>3. CASE \E i, pc : proc' = [proc EXCEPT ![p].idx = i, ![p].pc = pc]
  <2>1. PICK i, pc : proc' = [proc EXCEPT ![p] = [proc[p] EXCEPT !.idx = i, !.pc = pc]]
    BY <1>3
  <2> QED
    BY <1>0, <2>1 DEF Process, Continues
<1>4. CASE \E h, pc : proc' = [proc EXCEPT ![p].hist = h, ![p].pc = pc]
  <2>1. PICK h, pc : proc' = [proc EXCEPT ![p] = [proc[p] EXCEPT !.hist = h, !.pc = pc]]
    BY <1>4
  <2> QED
    BY <1>0, <2>1 DEF Process, Continues
<1>5. CASE \E h, pc : proc' = [proc EXCEPT ![p].sum = h, ![p].pc = pc]
  <2>1. PICK h, pc : proc' = [proc EXCEPT ![p] = [proc[p] EXCEPT !.sum = h, !.pc = pc]]
    BY <1>5
  <2> QED
    BY <1>0, <2>1 DEF Process, Continues
<1> QED
  BY <1>1, <1>2, <1>3, <1>4, <1>5

LEMMA Ending ==
    ASSUME TypeOK, NEW p \in Requests, Finish(p)
    PROVE  proc'[p] = Served /\ proc'[p].kind = "none"
BY DEF TypeOK, Finish, Served, NewRequest

\* A step that the handlers share: it goes on or ends, and writes no message.
LEMMA WithSegmentMoves ==
    ASSUME TypeOK, NEW p \in Requests, proc[p].kind # "none", NEW s, NEW i, WithSegment(p, s, i)
    PROVE  Continues(p) \/ proc'[p].kind = "none"
<1>1. CASE proc[p].kind = "create"
  BY <1>1, Ending DEF WithSegment
<1>2. CASE proc[p].kind = "retry"
  BY <1>2, Ending, GoingOn DEF WithSegment
<1>3. CASE proc[p].kind \notin {"create", "retry"}
  <2>1. proc' = [proc EXCEPT ![p].seg = s, ![p].idx = i, ![p].pc = "list"]
    BY <1>3 DEF WithSegment
  <2> QED
    BY <2>1, GoingOn
<1> QED
  BY <1>1, <1>2, <1>3

\* Whatever is under way runs in a process that is up, and has its kind.
LEMMA StepKinds ==
    ASSUME TypeOK, NEW p \in Requests, Step(p)
    PROVE  proc[p].kind # "none" /\ proc[p].pc \notin {"new", "done"}
<1>1. ProcessOK(proc[p])
  BY TypeParts DEF ProcOK
<1>2. proc[p].pc \notin {"new", "done"}
  BY DEF Step, FindOpenSegment, ChooseIndex, InsertSegment, ClaimRetry, ListMessages,
         CheckInFlight, ReadSummary, Seal, SummarizeFails, DeleteSegments, DeleteRow,
         CompleteTurn, ModelFails, SettleFailed
<1>3. proc[p].kind # "none"
  BY <1>1, <1>2, PcsAt DEF ProcessOK
<1> QED
  BY <1>2, <1>3

\* What a step may do to the messages.  A send writes a question ...
Asks(p, b, m) ==
    /\ proc[p].kind = "none" /\ Live(b) /\ ~Busy(b) /\ m \notin DOMAIN messages
    /\ \E row : /\ messages' = Put(messages, m, row)
                /\ row.bot = b /\ row.role = "user" /\ row.status = "awaiting"
                /\ row.answers = NoId /\ row.at = serial + 1
    /\ Answers(p, b, m)
    /\ m \in ClientIds \/ m = serial + 1
    /\ serial' = serial + 1

\* ... a retry asks an old one again ...
AsksAgain(p) ==
    LET m == proc[p].msg
    IN  /\ proc[p].kind = "retry" /\ m \in DOMAIN messages /\ ~Busy(proc[p].bot)
        /\ messages' = Put(messages, m, [messages[m] EXCEPT !.status = "awaiting"])
        /\ Answers(p, proc[p].bot, m)
        /\ serial' = serial

\* ... a turn replies, or it fails.
RepliesTo(p) ==
    LET m == proc[p].msg
    IN  /\ proc[p].kind = "turn" /\ m \in DOMAIN messages
        /\ \E row : /\ messages' = Put([messages EXCEPT ![m].status = "sent"], serial + 1, row)
                    /\ row.bot = proc[p].bot /\ row.role = "bot" /\ row.status = "sent"
                    /\ row.answers = m /\ row.at = serial + 1
        /\ proc'[p].kind = "none"
        /\ serial' = serial + 1

FailsOn(p) ==
    LET m == proc[p].msg
    IN  /\ proc[p].kind = "turn" /\ m \in DOMAIN messages
        /\ messages' = Put(messages, m, [messages[m] EXCEPT !.status = "failed"])
        /\ proc'[p].kind = "none"
        /\ serial' = serial

\* All else writes no message, and ends a turn only if its message is gone.
WritesNothing(p) ==
    /\ UNCHANGED messages
    /\ serial' \in {serial, serial + 1}
    /\ Continues(p) \/ Begins(p) \/ proc'[p].kind = "none"
    /\ proc[p].kind = "turn" => Continues(p) \/ proc[p].msg \notin DOMAIN messages

LEMMA RequestWrites ==
    ASSUME TypeOK, "delete" \notin Kinds, NEW p \in Requests, Request(p)
    PROVE  WritesNothing(p) \/ \E b \in Bots, m \in MessageIds : Asks(p, b, m)
<1>0. proc[p].kind = "none" /\ p \in DOMAIN proc
  <2>1. ProcessOK(proc[p]) /\ proc[p].pc = "new"
    BY TypeParts DEF ProcOK, Request, CreateBot, SendMessage, RetryMessage,
       CompactConversation, DeleteMessages, Admit
  <2> QED
    BY <2>1, KindAt DEF TypeOK
<1>1. CASE CreateBot(p)
  <2>1. proc'[p].kind = "create"
    BY <1>0, <1>1 DEF CreateBot, Handle, NewRequest
  <2> QED
    BY <1>0, <1>1, <2>1 DEF CreateBot, WritesNothing, Begins
<1>2. CASE RetryMessage(p)
  <2>1. PICK m \in DOMAIN messages :
           /\ messages[m].role = "user"
           /\ proc' = [proc EXCEPT ![p] = [NewRequest EXCEPT
                        !.kind = "retry", !.pc = "find", !.msg = m,
                        !.bot = messages[m].bot, !.seg = messages[m].seg]]
    BY <1>2 DEF RetryMessage
  <2>2. proc'[p].kind = "retry" /\ proc'[p].msg = m /\ proc'[p].bot = messages[m].bot
    BY <1>0, <2>1 DEF NewRequest
  <2> QED
    BY <1>0, <1>2, <2>1, <2>2 DEF RetryMessage, WritesNothing, Begins
<1>3. CASE CompactConversation(p)
  <2>1. PICK b \in Bots : Live(b) /\ Handle(p, "compact", b, "find")
    BY <1>3 DEF CompactConversation
  <2>2. proc'[p].kind = "compact" /\ proc'[p].bot = b
    BY <1>0, <2>1 DEF Handle, NewRequest
  <2> QED
    BY <1>0, <1>3, <2>1, <2>2 DEF CompactConversation, WritesNothing, Begins
<1>4. CASE SendMessage(p)
  <2>1. PICK b \in Bots, id \in ClientIds \cup {NoId} :
           LET m == IF id = NoId THEN serial + 1 ELSE id
           IN  /\ Live(b) /\ m \notin DOMAIN messages /\ Claimable(b)
               /\ AppendMessage(messages, b, m, "user", "awaiting", NoId) /\ StartTurn(p, b, m)
    BY <1>4 DEF SendMessage
  <2> DEFINE m == IF id = NoId THEN serial + 1 ELSE id
  <2>2. m \in MessageIds /\ (m \in ClientIds \/ m = serial + 1)
    <3>1. serial + 1 \in Nat
      BY DEF TypeOK
    <3>2. m = serial + 1 \/ (m = id /\ id \in ClientIds)
      OBVIOUS
    <3> QED
      BY <3>1, <3>2 DEF MessageIds
  <2>3. Live(b) /\ m \notin DOMAIN messages /\ ~Busy(b)
    BY <2>1 DEF Claimable
  <2>4. AppendMessage(messages, b, m, "user", "awaiting", NoId) /\ StartTurn(p, b, m)
    BY <2>1
  <2> HIDE DEF m
  <2>5. Answers(p, b, m)
    BY <1>0, <2>4 DEF StartTurn, Answers, NewRequest
  <2>6. Asks(p, b, m)
    BY <1>0, <1>4, <2>2, <2>3, <2>4, <2>5, AppendRow DEF Asks, SendMessage
  <2> QED
    BY <2>2, <2>6
<1>5. ~DeleteMessages(p)
  BY DEF DeleteMessages, Admit
<1> QED
  BY <1>1, <1>2, <1>3, <1>4, <1>5 DEF Request

LEMMA StepWrites ==
    ASSUME TypeOK, NEW p \in Requests, Step(p)
    PROVE  WritesNothing(p) \/ AsksAgain(p) \/ RepliesTo(p) \/ FailsOn(p)
<1>0. /\ ProcessOK(proc[p]) /\ proc[p].kind # "none" /\ p \in DOMAIN proc
  BY TypeParts, StepKinds DEF ProcOK, TypeOK
<1>1. CASE FindOpenSegment(p) \/ InsertSegment(p) \/ ModelFails(p)
  <2>1. \/ \E pc : Goto(p, pc)
        \/ Abort(p)
        \/ \E s, i : WithSegment(p, s, i)
    BY <1>1 DEF FindOpenSegment, InsertSegment, ModelFails
  <2>2. Continues(p) \/ (proc'[p].kind = "none" /\ proc[p].kind # "turn")
    <3>1. CASE \E pc : Goto(p, pc)
      BY <1>0, <3>1, GoingOn
    <3>2. CASE Abort(p)
      BY <1>0, <3>2, GoingOn, Ending DEF Abort
    <3>3. ASSUME NEW s, NEW i, WithSegment(p, s, i)
          PROVE  Continues(p) \/ (proc'[p].kind = "none" /\ proc[p].kind # "turn")
      <4>1. CASE proc[p].kind = "turn"
        <5>1. proc' = [proc EXCEPT ![p].seg = s, ![p].idx = i, ![p].pc = "list"]
          BY <3>3, <4>1 DEF WithSegment
        <5> QED
          BY <1>0, <5>1, GoingOn
      <4> QED
        BY <1>0, <3>3, <4>1, WithSegmentMoves
    <3> QED
      BY <2>1, <3>1, <3>2, <3>3
  <2>3. UNCHANGED messages /\ serial' \in {serial, serial + 1}
    BY <1>1 DEF FindOpenSegment, InsertSegment, ModelFails
  <2> QED
    BY <2>2, <2>3 DEF WritesNothing
<1>2. CASE ChooseIndex(p) \/ ReadSummary(p)
  <2>1. Continues(p)
    BY <1>0, <1>2, GoingOn DEF ChooseIndex, ReadSummary
  <2> QED
    BY <1>2, <2>1 DEF ChooseIndex, ReadSummary, WritesNothing
<1>3. CASE ListMessages(p) \/ CheckInFlight(p)
  <2>1. Continues(p) \/ (proc'[p].kind = "none" /\ proc[p].kind # "turn")
    <3>1. CASE ListMessages(p)
      <4>1. \/ proc[p].kind = "compact" /\ Finish(p)
            \/ \E h, pc : proc' = [proc EXCEPT ![p].hist = h, ![p].pc = pc]
        BY <3>1 DEF ListMessages
      <4> QED
        BY <1>0, <4>1, GoingOn, Ending
    <3>2. CASE CheckInFlight(p)
      <4>1. proc[p].kind = "compact" /\ (Finish(p) \/ Goto(p, "summary"))
        BY <1>0, <3>2, KindAt DEF CheckInFlight
      <4> QED
        BY <1>0, <4>1, GoingOn, Ending
    <3> QED
      BY <1>3, <3>1, <3>2
  <2> QED
    BY <1>3, <2>1 DEF ListMessages, CheckInFlight, WritesNothing
<1>4. CASE Seal(p) \/ SummarizeFails(p) \/ DeleteRow(p)
  <2>1. proc[p].kind \in {"compact", "delete"} /\ Finish(p)
    BY <1>0, <1>4, KindAt DEF Seal, SummarizeFails, DeleteRow
  <2>2. proc'[p].kind = "none"
    BY <2>1, Ending
  <2> QED
    BY <1>4, <2>1, <2>2 DEF Seal, SummarizeFails, DeleteRow, WritesNothing
<1>5. CASE DeleteSegments(p)
  <2>1. Continues(p)
    BY <1>0, <1>5, GoingOn DEF DeleteSegments
  <2> QED
    BY <1>5, <2>1 DEF DeleteSegments, WritesNothing
<1>6. CASE ClaimRetry(p)
  <2>1. proc[p].kind = "retry"
    BY <1>0, <1>6, KindAt DEF ClaimRetry
  <2>2. CASE Finish(p) /\ UNCHANGED messages
    BY <1>6, <2>1, <2>2, Ending DEF WritesNothing, ClaimRetry
  <2>3. CASE /\ Claimable(proc[p].bot) /\ proc[p].msg \in DOMAIN messages
             /\ SetStatus(proc[p].msg, "awaiting") /\ StartTurn(p, proc[p].bot, proc[p].msg)
    <3>1. Answers(p, proc[p].bot, proc[p].msg)
      BY <1>0, <2>3 DEF StartTurn, Answers, NewRequest
    <3> QED
      BY <1>6, <2>1, <2>3, <3>1 DEF AsksAgain, ClaimRetry, SetStatus, Claimable
  <2> QED
    BY <1>6, <2>2, <2>3 DEF ClaimRetry
<1>7. CASE CompleteTurn(p)
  <2> DEFINE m == proc[p].msg
             settled == [messages EXCEPT ![m].status = "sent"]
  <2>1. proc[p].kind = "turn"
    BY <1>0, <1>7, KindAt DEF CompleteTurn
  <2>2. CASE Goto(p, "settle") /\ UNCHANGED <<messages, segments, serial>>
    BY <1>0, <2>2, GoingOn DEF WritesNothing
  <2>3. CASE /\ m \in DOMAIN messages /\ serial' = serial + 1 /\ Finish(p)
             /\ AppendMessage(settled, proc[p].bot, serial + 1, "bot", "sent", m)
    <3>1. \E row : /\ messages' = Put(settled, serial + 1, row)
                   /\ row.bot = proc[p].bot /\ row.role = "bot" /\ row.status = "sent"
                   /\ row.answers = m /\ row.at = serial + 1
      BY <2>3, AppendRow
    <3>2. proc'[p].kind = "none"
      BY <2>3, Ending
    <3> QED
      BY <2>1, <2>3, <3>1, <3>2 DEF RepliesTo
  <2> QED
    BY <1>7, <2>2, <2>3 DEF CompleteTurn
<1>8. CASE SettleFailed(p)
  <2>1. proc[p].kind = "turn" /\ proc'[p].kind = "none" /\ serial' = serial
    BY <1>0, <1>8, KindAt, Ending DEF SettleFailed
  <2> QED
    BY <1>8, <2>1 DEF SettleFailed, SetStatus, FailsOn, WritesNothing
<1> QED
  BY <1>1, <1>2, <1>3, <1>4, <1>5, <1>6, <1>7, <1>8 DEF Step

-----------------------------------------------------------------------------
(* A running turn owns its bot, unless bots are deleted.                     *)

\* A row changes in its status alone.
SameQuestion(r, s) == r.bot = s.bot /\ r.role = s.role /\ r.at = s.at /\ r.answers = s.answers

\* p is about a question that is there, and of its bot.
HasQuestion(p) ==
    /\ proc[p].msg \in DOMAIN messages
    /\ messages[proc[p].msg].role = "user"
    /\ messages[proc[p].msg].bot = proc[p].bot

\* Minted ids are no larger than the last one.
Minted == \A m \in DOMAIN messages : m \in ClientIds \/ m <= serial

\* What is under way is of a kind that clients ask for, and dies with the process.
KindsServed ==
    \A p \in Requests : /\ proc[p].kind \in {"none", "turn"} \cup Kinds
                        /\ ~up => proc[p].kind = "none"

\* The inductive invariant.  What a retry has read of its message stays true, for no
\* message goes, and so the turn it may start answers a question of its own bot.
SlotInv ==
    /\ Minted
    /\ KindsServed
    /\ \A p \in Requests : proc[p].kind \in {"turn", "retry"} => HasQuestion(p)
    /\ TurnHoldsSlot

\* What a step of a handler or a turn does to the messages.
Writes(p) ==
    \/ WritesNothing(p) \/ AsksAgain(p) \/ RepliesTo(p) \/ FailsOn(p)
    \/ \E b \in Bots, m \in MessageIds : Asks(p, b, m)

LEMMA EveryStepWrites ==
    ASSUME TypeOK, "delete" \notin Kinds, NEW p \in Requests, Request(p) \/ Step(p)
    PROVE  Writes(p)
BY RequestWrites, StepWrites DEF Writes

LEMMA StatusAlone ==
    ASSUME NEW r \in MessageRow, NEW x
    PROVE  LET s == [r EXCEPT !.status = x] IN SameQuestion(s, r) /\ s.status = x
BY DEF MessageRow, SameQuestion

\* An id that is minted now is no message's yet.
LEMMA MintedIsFresh ==
    ASSUME TypeOK, Minted
    PROVE  serial \in Nat /\ serial + 1 \notin DOMAIN messages /\ serial + 1 \notin ClientIds
<1>1. serial \in Nat /\ serial + 1 \in Nat
  BY DEF TypeOK
<1>2. serial + 1 \notin ClientIds
  BY <1>1, ClientIdsAreNotMinted
<1>3. ~(serial + 1 <= serial)
  BY <1>1
<1> QED
  BY <1>1, <1>2, <1>3 DEF Minted

\* No message goes or becomes another; only of what p is about the status changes.
LEMMA RowsStay ==
    ASSUME TypeOK, Minted, NEW p \in Requests, Writes(p)
    PROVE  /\ DOMAIN messages \subseteq DOMAIN messages'
           /\ \A m \in DOMAIN messages : SameQuestion(messages'[m], messages[m])
           /\ \A m \in DOMAIN messages :
                 \/ messages'[m] = messages[m]
                 \/ m = proc[p].msg /\ (AsksAgain(p) \/ RepliesTo(p) \/ FailsOn(p))
<1>0. \A m \in DOMAIN messages : messages[m] \in MessageRow /\ SameQuestion(messages[m], messages[m])
  BY DEF TypeOK, IsTable, SameQuestion
<1>1. CASE WritesNothing(p)
  BY <1>0, <1>1 DEF WritesNothing
<1>2. ASSUME NEW b, NEW m, Asks(p, b, m)
      PROVE  /\ DOMAIN messages \subseteq DOMAIN messages'
             /\ \A k \in DOMAIN messages : messages'[k] = messages[k]
  BY <1>2 DEF Asks, Put
<1> DEFINE q == proc[p].msg
<1>3. ASSUME NEW x, q \in DOMAIN messages,
             messages' = Put(messages, q, [messages[q] EXCEPT !.status = x])
      PROVE  /\ DOMAIN messages \subseteq DOMAIN messages'
             /\ \A k \in DOMAIN messages : SameQuestion(messages'[k], messages[k])
             /\ \A k \in DOMAIN messages : k # q => messages'[k] = messages[k]
  <2>1. SameQuestion([messages[q] EXCEPT !.status = x], messages[q])
    BY <1>0, <1>3, StatusAlone
  <2> QED
    BY <1>0, <1>3, <2>1 DEF Put
<1>4. CASE RepliesTo(p)
  <2> DEFINE settled == [messages EXCEPT ![q].status = "sent"]
  <2>1. q \in DOMAIN messages /\ \E row : messages' = Put(settled, serial + 1, row)
    BY <1>4 DEF RepliesTo
  <2>2. /\ DOMAIN settled = DOMAIN messages
        /\ \A k \in DOMAIN messages :
              settled[k] = IF k = q THEN [messages[k] EXCEPT !.status = "sent"] ELSE messages[k]
    OBVIOUS
  <2> HIDE DEF settled
  <2>3. /\ DOMAIN messages \subseteq DOMAIN messages'
        /\ \A k \in DOMAIN messages : messages'[k] = settled[k]
    BY <2>1, <2>2, MintedIsFresh DEF Put
  <2>4. SameQuestion([messages[q] EXCEPT !.status = "sent"], messages[q])
    BY <1>0, <2>1, StatusAlone
  <2> QED
    BY <1>0, <1>4, <2>1, <2>2, <2>3, <2>4
<1>5. CASE AsksAgain(p) \/ FailsOn(p)
  <2>1. \E x : q \in DOMAIN messages
               /\ messages' = Put(messages, q, [messages[q] EXCEPT !.status = x])
    BY <1>5 DEF AsksAgain, FailsOn
  <2> QED
    BY <1>3, <1>5, <2>1
<1> QED
  BY <1>0, <1>1, <1>2, <1>4, <1>5 DEF Writes

\* What comes of the rows that a step writes.
LEMMA AskedRow ==
    ASSUME NEW p, NEW b, NEW m, Asks(p, b, m)
    PROVE  /\ DOMAIN messages' = DOMAIN messages \cup {m}
           /\ messages'[m].bot = b /\ messages'[m].role = "user"
           /\ messages'[m].status = "awaiting" /\ messages'[m].answers = NoId
           /\ messages'[m].at = serial + 1
BY DEF Asks, Put

LEMMA RowsWritten ==
    ASSUME TypeOK, Minted, NEW p \in Requests
    PROVE  /\ AsksAgain(p) => /\ DOMAIN messages' = DOMAIN messages
                              /\ messages'[proc[p].msg].status = "awaiting"
           /\ FailsOn(p) => /\ DOMAIN messages' = DOMAIN messages
                            /\ messages'[proc[p].msg].status = "failed"
           /\ RepliesTo(p) =>
                 /\ DOMAIN messages' = DOMAIN messages \cup {serial + 1}
                 /\ messages'[proc[p].msg].status = "sent"
                 /\ messages'[serial + 1].bot = proc[p].bot
                 /\ messages'[serial + 1].role = "bot" /\ messages'[serial + 1].status = "sent"
                 /\ messages'[serial + 1].answers = proc[p].msg
                 /\ messages'[serial + 1].at = serial + 1
<1>0. \A m \in DOMAIN messages : messages[m] \in MessageRow
  BY DEF TypeOK, IsTable
<1> DEFINE q == proc[p].msg
<1>2. ASSUME NEW x, q \in DOMAIN messages,
             messages' = Put(messages, q, [messages[q] EXCEPT !.status = x])
      PROVE  DOMAIN messages' = DOMAIN messages /\ messages'[q].status = x
  <2>1. [messages[q] EXCEPT !.status = x].status = x
    BY <1>0, <1>2, StatusAlone
  <2> QED
    BY <1>2, <2>1 DEF Put
<1>3. AsksAgain(p) => DOMAIN messages' = DOMAIN messages /\ messages'[q].status = "awaiting"
  BY <1>2 DEF AsksAgain
<1>4. FailsOn(p) => DOMAIN messages' = DOMAIN messages /\ messages'[q].status = "failed"
  BY <1>2 DEF FailsOn
<1>5. ASSUME RepliesTo(p)
      PROVE  /\ DOMAIN messages' = DOMAIN messages \cup {serial + 1}
             /\ messages'[q].status = "sent"
             /\ messages'[serial + 1].bot = proc[p].bot
             /\ messages'[serial + 1].role = "bot" /\ messages'[serial + 1].status = "sent"
             /\ messages'[serial + 1].answers = q
             /\ messages'[serial + 1].at = serial + 1
  <2> DEFINE settled == [messages EXCEPT ![q].status = "sent"]
  <2>1. PICK row : /\ messages' = Put(settled, serial + 1, row)
                   /\ row.bot = proc[p].bot /\ row.role = "bot" /\ row.status = "sent"
                   /\ row.answers = q /\ row.at = serial + 1
    BY <1>5 DEF RepliesTo
  <2>2. q \in DOMAIN messages
    BY <1>5 DEF RepliesTo
  <2>3. DOMAIN settled = DOMAIN messages /\ settled[q] = [messages[q] EXCEPT !.status = "sent"]
    BY <2>2
  <2>4. settled[q].status = "sent"
    BY <1>0, <2>2, <2>3, StatusAlone
  <2> HIDE DEF settled
  <2> QED
    BY <2>1, <2>2, <2>3, <2>4, MintedIsFresh DEF Put
<1> QED
  BY <1>3, <1>4, <1>5

LEMMA StepsNeedProcess ==
    ASSUME TypeOK, SlotInv, NEW p \in Requests, Request(p) \/ Step(p)
    PROVE  up /\ up' = up
<1>1. UNCHANGED up
  BY DEF Request, Step, CreateBot, SendMessage, RetryMessage, CompactConversation,
         DeleteMessages, FindOpenSegment, ChooseIndex, InsertSegment, ClaimRetry,
         ListMessages, CheckInFlight, ReadSummary, Seal, SummarizeFails, DeleteSegments,
         DeleteRow, CompleteTurn, ModelFails, SettleFailed
<1>2. Request(p) => up
  BY DEF Request, CreateBot, SendMessage, RetryMessage, CompactConversation, DeleteMessages, Admit
<1>3. Step(p) => up
  BY StepKinds DEF SlotInv, KindsServed, TypeOK
<1> QED
  BY <1>1, <1>2, <1>3

\* The process that takes the step.
LEMMA OwnStep ==
    ASSUME TypeOK, SlotInv, "delete" \notin Kinds, NEW p \in Requests, Request(p) \/ Step(p)
    PROVE  /\ proc'[p].kind \in {"none", "turn"} \cup Kinds
           /\ proc'[p].kind \in {"turn", "retry"} => HasQuestion(p)'
           /\ proc'[p].kind = "turn" => /\ messages'[proc'[p].msg].status = "awaiting"
                                        /\ (proc[p].kind = "turn" /\ Continues(p))
                                              \/ ~Busy(proc'[p].bot)
<1>0. Writes(p) /\ Minted
  BY EveryStepWrites DEF SlotInv
<1>1. \A m \in DOMAIN messages : m \in DOMAIN messages' /\ SameQuestion(messages'[m], messages[m])
  BY <1>0, RowsStay
<1>2. CASE Continues(p) /\ UNCHANGED messages
  <2>1. HasQuestion(p) => HasQuestion(p)'
    BY <1>2 DEF HasQuestion, Continues
  <2>2. proc[p].kind = "turn" => messages[proc[p].msg].status = "awaiting"
    BY DEF SlotInv, TurnHoldsSlot, Turns, Awaiting
  <2> QED
    BY <1>2, <2>1, <2>2 DEF Continues, SlotInv, KindsServed
<1>3. CASE Begins(p) /\ UNCHANGED messages
  BY <1>3 DEF Begins, HasQuestion, RetryMessage, CreateBot, CompactConversation, DeleteMessages, Admit
<1>4. CASE proc'[p].kind = "none"
  BY <1>4
<1>5. ASSUME NEW b, NEW m, Asks(p, b, m)
      PROVE  /\ HasQuestion(p)' /\ proc'[p].kind = "turn" /\ ~Busy(proc'[p].bot)
             /\ messages'[proc'[p].msg].status = "awaiting"
  <2>1. proc'[p].kind = "turn" /\ proc'[p].bot = b /\ proc'[p].msg = m /\ ~Busy(b)
    BY <1>5 DEF Asks, Answers
  <2>2. /\ m \in DOMAIN messages' /\ messages'[m].bot = b /\ messages'[m].role = "user"
        /\ messages'[m].status = "awaiting"
    BY <1>5 DEF Asks, Put
  <2> QED
    BY <2>1, <2>2 DEF HasQuestion
<1>6. CASE AsksAgain(p)
  <2>1. /\ proc'[p].kind = "turn" /\ proc'[p].bot = proc[p].bot /\ proc'[p].msg = proc[p].msg
        /\ ~Busy(proc'[p].bot)
    BY <1>6 DEF AsksAgain, Answers
  <2>2. messages'[proc[p].msg].status = "awaiting"
    BY <1>0, <1>6, RowsWritten
  <2>3. HasQuestion(p)
    BY <1>6 DEF AsksAgain, SlotInv
  <2>4. HasQuestion(p)'
    BY <1>1, <2>1, <2>3 DEF HasQuestion, SameQuestion
  <2> QED
    BY <2>1, <2>2, <2>4
<1>7. CASE RepliesTo(p) \/ FailsOn(p)
  BY <1>7 DEF RepliesTo, FailsOn
<1> QED
  BY <1>0, <1>2, <1>3, <1>4, <1>5, <1>6, <1>7 DEF Writes, WritesNothing

\* The other ones.
LEMMA OthersStep ==
    ASSUME TypeOK, SlotInv, "delete" \notin Kinds, NEW p \in Requests, Request(p) \/ Step(p),
           NEW q \in Requests, q # p
    PROVE  /\ proc[q].kind \in {"turn", "retry"} => HasQuestion(q)'
           /\ proc[q].kind = "turn" => messages'[proc[q].msg].status = "awaiting"
<1>0. Writes(p) /\ Minted /\ proc'[q] = proc[q]
  BY EveryStepWrites, OthersStay DEF SlotInv
<1>1. \A m \in DOMAIN messages : m \in DOMAIN messages' /\ SameQuestion(messages'[m], messages[m])
  BY <1>0, RowsStay
<1>2. HasQuestion(q) => HasQuestion(q)'
  BY <1>0, <1>1 DEF HasQuestion, SameQuestion
<1>3. ASSUME proc[q].kind = "turn"
      PROVE  messages'[proc[q].msg].status = "awaiting"
  <2> DEFINE m == proc[q].msg
  <2>1. m \in DOMAIN messages /\ messages[m].status = "awaiting" /\ messages[m].bot = proc[q].bot
    BY <1>3 DEF SlotInv, TurnHoldsSlot, Turns, Awaiting, MessagesOf
  <2>2. CASE messages'[m] = messages[m]
    BY <2>1, <2>2
  <2>3. CASE m = proc[p].msg /\ AsksAgain(p)
    BY <1>0, <2>3, RowsWritten
  <2>4. CASE m = proc[p].msg /\ (RepliesTo(p) \/ FailsOn(p))
    <3>1. proc[p].kind = "turn"
      BY <2>4 DEF RepliesTo, FailsOn
    <3>2. messages[m].bot = proc[p].bot
      BY <2>4, <3>1 DEF SlotInv, HasQuestion
    <3>3. p = q
      BY <1>3, <2>1, <3>1, <3>2 DEF SlotInv, TurnHoldsSlot, Turns
    <3> QED
      BY <3>3
  <2> QED
    BY <1>0, <2>1, <2>2, <2>3, <2>4, RowsStay
<1> QED
  BY <1>2, <1>3 DEF SlotInv

LEMMA SlotStep ==
    ASSUME TypeOK, SlotInv, "delete" \notin Kinds, NEW p \in Requests, Request(p) \/ Step(p)
    PROVE  SlotInv'
<1>0. Writes(p) /\ Minted /\ serial \in Nat
  BY EveryStepWrites, MintedIsFresh DEF SlotInv
<1>1. \A q \in Requests : q # p => proc'[q] = proc[q]
  BY OthersStay
<1>2. up /\ up'
  BY StepsNeedProcess
<1>3. Minted'
  <2>1. serial' \in {serial, serial + 1}
    BY <1>0 DEF Writes, WritesNothing, Asks, AsksAgain, RepliesTo, FailsOn
  <2>2. \A m \in DOMAIN messages' :
           m \in DOMAIN messages \/ m \in ClientIds \/ (m = serial + 1 /\ serial' = serial + 1)
    <3>1. ASSUME NEW b, NEW k, Asks(p, b, k)
          PROVE  DOMAIN messages' = DOMAIN messages \cup {k} /\ (k \in ClientIds \/ k = serial + 1)
                 /\ serial' = serial + 1
      BY <3>1 DEF Asks, Put
    <3>2. RepliesTo(p) => DOMAIN messages' = DOMAIN messages \cup {serial + 1} /\ serial' = serial + 1
      BY <1>0, RowsWritten DEF RepliesTo
    <3>3. AsksAgain(p) \/ FailsOn(p) \/ WritesNothing(p) => DOMAIN messages' = DOMAIN messages
      BY <1>0, RowsWritten DEF WritesNothing
    <3>4. CASE \E b, k : Asks(p, b, k)
      <4>1. PICK b, k : Asks(p, b, k)
        BY <3>4
      <4>2. /\ DOMAIN messages' = DOMAIN messages \cup {k} /\ (k \in ClientIds \/ k = serial + 1)
            /\ serial' = serial + 1
        BY <3>1, <4>1
      <4> QED
        BY <4>2
    <3>5. CASE RepliesTo(p)
      BY <3>2, <3>5
    <3>6. CASE AsksAgain(p) \/ FailsOn(p) \/ WritesNothing(p)
      BY <3>3, <3>6
    <3> QED
      BY <1>0, <3>4, <3>5, <3>6 DEF Writes
  <2>3. ASSUME NEW m \in DOMAIN messages
        PROVE  m \in ClientIds \/ m <= serial'
    <3>1. CASE m \notin ClientIds
      <4>1. m \in Nat /\ m <= serial
        BY <1>0, <3>1 DEF Minted, TypeOK, IsTable, MessageIds
      <4> QED
        BY <1>0, <2>1, <4>1
    <3> QED
      BY <3>1
  <2>4. serial + 1 <= serial + 1
    BY <1>0
  <2> QED
    BY <2>2, <2>3, <2>4 DEF Minted
<1>4. KindsServed'
  BY <1>1, <1>2, OwnStep DEF SlotInv, KindsServed
<1>5. \A q \in Requests : proc'[q].kind \in {"turn", "retry"} => HasQuestion(q)'
  BY <1>1, OwnStep, OthersStep
<1>6. \A q \in Requests : proc'[q].kind = "turn" => messages'[proc'[q].msg].status = "awaiting"
  BY <1>1, OwnStep, OthersStep
<1>7. ASSUME NEW q \in Requests, NEW r \in Requests, proc'[q].kind = "turn", proc'[r].kind = "turn",
             proc'[q].bot = proc'[r].bot
      PROVE  q = r
  <2>1. ASSUME NEW s \in Requests, s # p, proc'[s].kind = "turn", proc'[p].kind = "turn",
               proc'[s].bot = proc'[p].bot
        PROVE  FALSE
    <3>1. proc[s] = proc'[s]
      BY <1>1, <2>1
    <3>2. proc[s].msg \in Awaiting(proc[s].bot)
      BY <2>1, <3>1 DEF SlotInv, TurnHoldsSlot, Turns
    <3>3. CASE proc[p].kind = "turn" /\ Continues(p)
      BY <2>1, <3>1, <3>3 DEF SlotInv, TurnHoldsSlot, Turns, Continues
    <3>4. CASE ~Busy(proc'[p].bot)
      BY <2>1, <3>1, <3>2, <3>4 DEF Busy
    <3> QED
      BY <2>1, <3>3, <3>4, OwnStep
  <2>2. CASE q # p /\ r # p
    BY <1>1, <1>7, <2>2 DEF SlotInv, TurnHoldsSlot, Turns
  <2> QED
    BY <1>7, <2>1, <2>2
<1>8. TurnHoldsSlot'
  <2>1. \A q \in Requests : proc'[q].kind = "turn" => (proc[q].msg \in Awaiting(proc[q].bot))'
    BY <1>5, <1>6 DEF HasQuestion, Awaiting, MessagesOf
  <2> QED
    BY <1>7, <2>1 DEF TurnHoldsSlot, Turns
<1> QED
  BY <1>3, <1>4, <1>5, <1>8 DEF SlotInv

LEMMA SlotInvHolds ==
    ASSUME "delete" \notin Kinds
    PROVE  Spec => [](TypeOK /\ SlotInv)
<1>1. Init => SlotInv
  BY DEF Init, SlotInv, Minted, KindsServed, TurnHoldsSlot, Turns, NewRequest
<1>2. TypeOK /\ SlotInv /\ [Next]_vars => SlotInv'
  <2> SUFFICES ASSUME TypeOK, SlotInv, [Next]_vars
               PROVE  SlotInv'
    OBVIOUS
  <2>1. ASSUME NEW p \in Requests, Request(p) \/ Step(p)
        PROVE  SlotInv'
    BY <2>1, SlotStep
  <2>2. CASE Crash
    <3>1. \A p \in Requests : proc'[p].kind = "none"
      <4>1. \A p \in Requests : proc[p].pc = "new" => proc[p].kind = "none"
        BY KindAt, TypeParts DEF ProcOK
      <4> QED
        BY <2>2, <4>1 DEF Crash, Served, NewRequest
    <3>2. UNCHANGED <<messages, serial>>
      BY <2>2 DEF Crash
    <3> QED
      BY <3>1, <3>2 DEF SlotInv, Minted, KindsServed, TurnHoldsSlot, Turns
  <2>3. CASE Restart
    <3>1. DOMAIN messages' = DOMAIN messages /\ serial' = serial + 1 /\ UNCHANGED proc /\ ~up
      BY <2>3 DEF Restart, FailInterrupted
    <3>2. \A p \in Requests : proc'[p].kind = "none"
      BY <3>1 DEF SlotInv, KindsServed
    <3>3. \A m \in DOMAIN messages : m \in ClientIds \/ m <= serial + 1
      <4>1. \A m \in DOMAIN messages : m \in ClientIds \/ (m \in Nat /\ m <= serial)
        BY DEF SlotInv, Minted, TypeOK, IsTable, MessageIds
      <4>2. serial \in Nat
        BY DEF TypeOK
      <4> QED
        BY <4>1, <4>2
    <3> QED
      BY <3>1, <3>2, <3>3 DEF SlotInv, Minted, KindsServed, TurnHoldsSlot, Turns
  <2>4. CASE UNCHANGED vars
    BY <2>4 DEF vars, SlotInv, Minted, KindsServed, HasQuestion, TurnHoldsSlot, Turns, Awaiting, MessagesOf
  <2> QED
    BY <2>1, <2>2, <2>3, <2>4 DEF Next, Quiet
<1> QED
  BY <1>1, <1>2, TypeCorrect, PTL DEF Spec

\* Unless bots are deleted, a turn that runs has its question awaiting it, and no
\* second turn of its bot runs beside it, so no two goroutines write replies in one
\* conversation, in whatever order sends, retries, compactions, deaths and restarts go.
THEOREM OneTurnPerBot ==
    ASSUME "delete" \notin Kinds
    PROVE  Spec => []TurnHoldsSlot
<1>1. SlotInv => TurnHoldsSlot
  BY DEF SlotInv
<1> QED
  BY <1>1, SlotInvHolds, PTL

-----------------------------------------------------------------------------
(* The slots.                                                                *)

\* slotOf and questionsOf, of whatever processes and messages.
SlotFrom(pr) ==
    [b \in Bots |->
        LET serving == {p \in {q \in Requests : pr[q].kind = "turn"} : pr[p].bot = b}
        IN  IF serving = {} THEN NoId ELSE pr[CHOOSE p \in serving : TRUE].msg]

QuestionsFrom(ms) ==
    [m \in {k \in DOMAIN ms : ms[k].role = "user"} |-> [bot |-> ms[m].bot, status |-> ms[m].status]]

OneEach(pr) ==
    \A p, q \in Requests :
        pr[p].kind = "turn" /\ pr[q].kind = "turn" /\ pr[p].bot = pr[q].bot => p = q

LEMMA MappedFrom ==
    /\ slotOf = SlotFrom(proc) /\ slotOf' = SlotFrom(proc')
    /\ questionsOf = QuestionsFrom(messages) /\ questionsOf' = QuestionsFrom(messages')
BY DEF slotOf, Turns, SlotFrom, questionsOf, UserMessages, QuestionsFrom

\* The slot of a bot is the message that its one turn answers.
LEMMA SlotValue ==
    ASSUME NEW pr, OneEach(pr), NEW b \in Bots
    PROVE  /\ (\A p \in Requests : pr[p].kind = "turn" => pr[p].bot # b) => SlotFrom(pr)[b] = NoId
           /\ \A p \in Requests : pr[p].kind = "turn" /\ pr[p].bot = b => SlotFrom(pr)[b] = pr[p].msg
<1> DEFINE serving == {p \in {q \in Requests : pr[q].kind = "turn"} : pr[p].bot = b}
<1>1. SlotFrom(pr)[b] = IF serving = {} THEN NoId ELSE pr[CHOOSE p \in serving : TRUE].msg
  BY DEF SlotFrom
<1>2. ASSUME NEW p \in Requests, pr[p].kind = "turn", pr[p].bot = b
      PROVE  SlotFrom(pr)[b] = pr[p].msg
  <2>1. p \in serving /\ \A q \in serving : q = p
    BY <1>2 DEF OneEach
  <2> HIDE DEF serving
  <2>2. (CHOOSE q \in serving : TRUE) = p
    BY <2>1
  <2> QED
    BY <1>1, <2>1, <2>2
<1> QED
  BY <1>1, <1>2

\* A turn that starts takes the free slot of its bot, and one that ends frees it.
LEMMA SlotMoves ==
    ASSUME NEW old, NEW new, OneEach(old), OneEach(new), NEW p \in Requests,
           \A q \in Requests : q # p => new[q] = old[q],
           \A q \in Requests : old[q].kind = "turn" => old[q].bot \in Bots,
           \A q \in Requests : new[q].kind = "turn" => new[q].bot \in Bots
    PROVE  /\ old[p].kind # "turn" /\ new[p].kind = "turn" =>
                 /\ SlotFrom(old)[new[p].bot] = NoId
                 /\ SlotFrom(new) = [SlotFrom(old) EXCEPT ![new[p].bot] = new[p].msg]
           /\ old[p].kind = "turn" /\ new[p].kind # "turn" =>
                 /\ SlotFrom(old)[old[p].bot] = old[p].msg
                 /\ SlotFrom(new) = [SlotFrom(old) EXCEPT ![old[p].bot] = NoId]
           /\ \/ old[p].kind # "turn" /\ new[p].kind # "turn"
              \/ /\ old[p].kind = "turn" /\ new[p].kind = "turn"
                 /\ old[p].bot = new[p].bot /\ old[p].msg = new[p].msg
              => SlotFrom(new) = SlotFrom(old)
<1>0. DOMAIN SlotFrom(old) = Bots /\ DOMAIN SlotFrom(new) = Bots
      /\ SlotFrom(old) = [b \in Bots |-> SlotFrom(old)[b]]
      /\ SlotFrom(new) = [b \in Bots |-> SlotFrom(new)[b]]
  BY DEF SlotFrom
<1> DEFINE Free(pr, b) == \A q \in Requests : pr[q].kind = "turn" => pr[q].bot # b
<1>1. ASSUME NEW b \in Bots,
             ~(old[p].kind = "turn" /\ old[p].bot = b), ~(new[p].kind = "turn" /\ new[p].bot = b)
      PROVE  SlotFrom(new)[b] = SlotFrom(old)[b]
  <2>1. CASE Free(old, b)
    <3>1. Free(new, b)
      BY <1>1, <2>1
    <3> QED
      BY <2>1, <3>1, SlotValue
  <2>2. ASSUME NEW q \in Requests, old[q].kind = "turn", old[q].bot = b
        PROVE  SlotFrom(new)[b] = SlotFrom(old)[b]
    <3>1. q # p /\ new[q] = old[q]
      BY <1>1, <2>2
    <3>2. SlotFrom(old)[b] = old[q].msg
      BY <2>2, SlotValue
    <3>3. SlotFrom(new)[b] = new[q].msg
      BY <2>2, <3>1, SlotValue
    <3> QED
      BY <3>1, <3>2, <3>3
  <2> QED
    BY <2>1, <2>2
<1>2. ASSUME old[p].kind # "turn", new[p].kind = "turn"
      PROVE  /\ SlotFrom(old)[new[p].bot] = NoId
             /\ SlotFrom(new) = [SlotFrom(old) EXCEPT ![new[p].bot] = new[p].msg]
  <2>1. Free(old, new[p].bot) /\ new[p].bot \in Bots
    BY <1>2 DEF OneEach
  <2>2. SlotFrom(old)[new[p].bot] = NoId
    BY <2>1, SlotValue
  <2>3. SlotFrom(new)[new[p].bot] = new[p].msg
    BY <1>2, <2>1, SlotValue
  <2>4. \A b \in Bots : b # new[p].bot => SlotFrom(new)[b] = SlotFrom(old)[b]
    BY <1>1, <1>2
  <2> QED
    BY <1>0, <2>1, <2>2, <2>3, <2>4
<1>3. ASSUME old[p].kind = "turn", new[p].kind # "turn"
      PROVE  /\ SlotFrom(old)[old[p].bot] = old[p].msg
             /\ SlotFrom(new) = [SlotFrom(old) EXCEPT ![old[p].bot] = NoId]
  <2>1. Free(new, old[p].bot) /\ old[p].bot \in Bots
    BY <1>3 DEF OneEach
  <2>2. SlotFrom(new)[old[p].bot] = NoId
    BY <2>1, SlotValue
  <2>3. SlotFrom(old)[old[p].bot] = old[p].msg
    BY <1>3, <2>1, SlotValue
  <2>4. \A b \in Bots : b # old[p].bot => SlotFrom(new)[b] = SlotFrom(old)[b]
    BY <1>1, <1>3
  <2> QED
    BY <1>0, <2>1, <2>2, <2>3, <2>4
<1>4. ASSUME old[p].kind # "turn", new[p].kind # "turn"
      PROVE  SlotFrom(new) = SlotFrom(old)
  <2>1. \A b \in Bots : SlotFrom(new)[b] = SlotFrom(old)[b]
    BY <1>1, <1>4
  <2> QED
    BY <1>0, <2>1
<1>5. ASSUME old[p].kind = "turn", new[p].kind = "turn",
             old[p].bot = new[p].bot, old[p].msg = new[p].msg
      PROVE  SlotFrom(new) = SlotFrom(old)
  <2>1. SlotFrom(old)[old[p].bot] = old[p].msg /\ SlotFrom(new)[new[p].bot] = new[p].msg
    BY <1>5, SlotValue
  <2>2. \A b \in Bots : b # old[p].bot => SlotFrom(new)[b] = SlotFrom(old)[b]
    BY <1>1, <1>5
  <2>3. \A b \in Bots : SlotFrom(new)[b] = SlotFrom(old)[b]
    BY <1>5, <2>1, <2>2
  <2> QED
    BY <1>0, <2>3
<1> QED
  BY <1>2, <1>3, <1>4, <1>5

\* A question that is written, or whose status is, and the others as they were.
QuestionWritten(old, new, m) ==
    QuestionsFrom(new) = [q \in DOMAIN QuestionsFrom(old) \cup {m} |->
        IF q = m THEN [bot |-> new[m].bot, status |-> new[m].status] ELSE QuestionsFrom(old)[q]]

LEMMA QuestionsBecome ==
    ASSUME NEW old, NEW new, NEW m, m \in DOMAIN new, new[m].role = "user",
           DOMAIN old \subseteq DOMAIN new,
           \A k \in DOMAIN old : k # m => new[k] = old[k],
           \A k \in DOMAIN new \ DOMAIN old : k = m \/ new[k].role # "user",
           m \in DOMAIN old => old[m].role = "user"
    PROVE  QuestionWritten(old, new, m)
<1>1. DOMAIN QuestionsFrom(new) = DOMAIN QuestionsFrom(old) \cup {m}
  BY DEF QuestionsFrom
<1>2. QuestionsFrom(new)[m] = [bot |-> new[m].bot, status |-> new[m].status]
  BY DEF QuestionsFrom
<1>3. ASSUME NEW q \in DOMAIN QuestionsFrom(old), q # m
      PROVE  QuestionsFrom(new)[q] = QuestionsFrom(old)[q]
  <2>1. q \in DOMAIN old /\ old[q].role = "user" /\ new[q] = old[q]
    BY <1>3 DEF QuestionsFrom
  <2>2. /\ QuestionsFrom(new)[q] = [bot |-> new[q].bot, status |-> new[q].status]
        /\ QuestionsFrom(old)[q] = [bot |-> old[q].bot, status |-> old[q].status]
    BY <2>1 DEF QuestionsFrom
  <2> QED
    BY <2>1, <2>2
<1>4. QuestionsFrom(new) = [q \in DOMAIN QuestionsFrom(new) |-> QuestionsFrom(new)[q]]
  BY DEF QuestionsFrom
<1> HIDE DEF QuestionsFrom
<1> QED
  BY <1>1, <1>2, <1>3, <1>4 DEF QuestionWritten

LEMMA ProcsOfSlots ==
    ASSUME TypeOK, SlotInv
    PROVE  OneEach(proc) /\ \A q \in Requests : proc[q].kind = "turn" => proc[q].bot \in Bots
BY DEF TypeOK, SlotInv, TurnHoldsSlot, Turns, OneEach

LEMMA ProcsOfSlotsNext ==
    ASSUME TypeOK', SlotInv'
    PROVE  OneEach(proc') /\ \A q \in Requests : proc'[q].kind = "turn" => proc'[q].bot \in Bots
BY DEF TypeOK, SlotInv, TurnHoldsSlot, Turns, OneEach

\* A step of the server is one of the slots, or none.
LEMMA SlotsStep ==
    ASSUME TypeOK, SlotInv, TypeOK', SlotInv', "delete" \notin Kinds,
           NEW p \in Requests, Request(p) \/ Step(p)
    PROVE  Slots!SlotsNext \/ UNCHANGED <<questionsOf, slotOf, up>>
<1>0. Writes(p) /\ Minted
  BY EveryStepWrites DEF SlotInv
<1>1. up = TRUE /\ up' = up
  <2>1. up /\ up' = up
    BY StepsNeedProcess
  <2> QED
    BY <2>1 DEF TypeOK
<1>2. \A q \in Requests : q # p => proc'[q] = proc[q]
  BY OthersStay
<1>3. /\ OneEach(proc) /\ OneEach(proc')
      /\ \A q \in Requests : proc[q].kind = "turn" => proc[q].bot \in Bots
      /\ \A q \in Requests : proc'[q].kind = "turn" => proc'[q].bot \in Bots
  BY ProcsOfSlots, ProcsOfSlotsNext
<1> DEFINE m == proc[p].msg
           b == proc[p].bot
<1>4. ASSUME proc[p].kind # "turn", proc'[p].kind = "turn"
      PROVE  /\ slotOf[proc'[p].bot] = NoId
             /\ slotOf' = [slotOf EXCEPT ![proc'[p].bot] = proc'[p].msg]
  BY <1>2, <1>3, <1>4, SlotMoves, MappedFrom
<1>5. ASSUME proc[p].kind = "turn", proc'[p].kind # "turn"
      PROVE  slotOf[b] = m /\ slotOf' = [slotOf EXCEPT ![b] = NoId]
  BY <1>2, <1>3, <1>5, SlotMoves, MappedFrom
<1>6. CASE WritesNothing(p)
  <2>1. questionsOf' = questionsOf
    BY <1>6, MappedFrom DEF WritesNothing
  <2>2. proc[p].kind = "turn" => Continues(p)
    BY <1>6 DEF WritesNothing, SlotInv, HasQuestion
  <2>3. proc'[p].kind = "turn" => proc[p].kind = "turn"
    BY <1>6 DEF WritesNothing, Continues, Begins
  <2>4. slotOf' = slotOf
    BY <1>2, <1>3, <2>2, <2>3, SlotMoves, MappedFrom DEF Continues
  <2> QED
    BY <1>1, <2>1, <2>4
<1>7. ASSUME NEW c \in Bots, NEW n \in MessageIds, Asks(p, c, n)
      PROVE  Slots!SlotsNext
  <2>1. proc'[p].kind = "turn" /\ proc'[p].bot = c /\ proc'[p].msg = n /\ n \notin DOMAIN messages
    BY <1>7 DEF Asks, Answers
  <2>2. proc[p].kind # "turn"
    BY <1>7 DEF Asks
  <2>3. slotOf[c] = NoId /\ slotOf' = [slotOf EXCEPT ![c] = n]
    BY <1>4, <2>1, <2>2
  <2>4. /\ DOMAIN messages' = DOMAIN messages \cup {n}
        /\ messages'[n].bot = c /\ messages'[n].role = "user" /\ messages'[n].status = "awaiting"
        /\ \A k \in DOMAIN messages : messages'[k] = messages[k]
    BY <1>7 DEF Asks, Put
  <2>5. questionsOf' = [q \in DOMAIN questionsOf \cup {n} |->
            IF q = n THEN [bot |-> c, status |-> "awaiting"] ELSE questionsOf[q]]
    <3>1. QuestionWritten(messages, messages', n)
      <4>1. /\ n \in DOMAIN messages' /\ messages'[n].role = "user"
            /\ DOMAIN messages \subseteq DOMAIN messages'
            /\ \A k \in DOMAIN messages : k # n => messages'[k] = messages[k]
            /\ \A k \in DOMAIN messages' \ DOMAIN messages : k = n \/ messages'[k].role # "user"
            /\ n \in DOMAIN messages => messages[n].role = "user"
        BY <2>1, <2>4
      <4> QED
        BY <4>1, QuestionsBecome
    <3> QED
      BY <2>4, <3>1, MappedFrom DEF QuestionWritten
  <2>6. n \in DOMAIN questionsOf' \ DOMAIN questionsOf
    BY <2>1, <2>5 DEF questionsOf, UserMessages
  <2>7. Slots!Ask(c)
    BY <1>1, <2>3, <2>5, <2>6 DEF Slots!Ask, Slots!Become, Slots!Hold
  <2> QED
    BY <2>7 DEF Slots!SlotsNext
<1>8. CASE AsksAgain(p)
  <2>1. /\ proc[p].kind = "retry" /\ m \in DOMAIN messages
        /\ proc'[p].kind = "turn" /\ proc'[p].bot = b /\ proc'[p].msg = m
    BY <1>8 DEF AsksAgain, Answers
  <2>2. messages[m].role = "user" /\ messages[m].bot = b
    BY <2>1 DEF SlotInv, HasQuestion
  <2>3. slotOf[b] = NoId /\ slotOf' = [slotOf EXCEPT ![b] = m] /\ b \in Bots
    BY <1>3, <1>4, <2>1
  <2>4. /\ DOMAIN messages' = DOMAIN messages
        /\ messages'[m].bot = b /\ messages'[m].role = "user" /\ messages'[m].status = "awaiting"
        /\ \A k \in DOMAIN messages : k # m => messages'[k] = messages[k]
    BY <1>0, <1>8, <2>1, <2>2, RowsStay, RowsWritten DEF SameQuestion
  <2>5. questionsOf' = [q \in DOMAIN questionsOf \cup {m} |->
            IF q = m THEN [bot |-> b, status |-> "awaiting"] ELSE questionsOf[q]]
    <3>1. QuestionWritten(messages, messages', m)
      <4>1. /\ m \in DOMAIN messages' /\ messages'[m].role = "user"
            /\ DOMAIN messages \subseteq DOMAIN messages'
            /\ \A k \in DOMAIN messages : k # m => messages'[k] = messages[k]
            /\ \A k \in DOMAIN messages' \ DOMAIN messages : k = m \/ messages'[k].role # "user"
            /\ m \in DOMAIN messages => messages[m].role = "user"
        BY <2>1, <2>2, <2>4
      <4> QED
        BY <4>1, QuestionsBecome
    <3> QED
      BY <2>4, <3>1, MappedFrom DEF QuestionWritten
  <2>6. m \in DOMAIN questionsOf /\ questionsOf[m].bot = b
    BY <2>1, <2>2 DEF questionsOf, UserMessages
  <2>7. Slots!AskAgain(b)
    BY <1>1, <2>3, <2>5, <2>6 DEF Slots!AskAgain, Slots!Become, Slots!Hold
  <2> QED
    BY <2>3, <2>7 DEF Slots!SlotsNext
<1>9. ASSUME NEW outcome \in {"sent", "failed"}, proc[p].kind = "turn", proc'[p].kind = "none",
             m \in DOMAIN messages, messages'[m].status = outcome,
             DOMAIN messages \subseteq DOMAIN messages',
             \A k \in DOMAIN messages : k # m => messages'[k] = messages[k],
             \A k \in DOMAIN messages' \ DOMAIN messages : messages'[k].role # "user",
             SameQuestion(messages'[m], messages[m])
      PROVE  Slots!SlotsNext
  <2>1. messages[m].role = "user" /\ messages[m].bot = b
    BY <1>9 DEF SlotInv, HasQuestion
  <2>2. slotOf[b] = m /\ slotOf' = [slotOf EXCEPT ![b] = NoId] /\ b \in Bots
    BY <1>3, <1>5, <1>9
  <2>3. questionsOf' = [q \in DOMAIN questionsOf \cup {m} |->
            IF q = m THEN [bot |-> b, status |-> outcome] ELSE questionsOf[q]]
    <3>1. messages'[m].role = "user" /\ messages'[m].bot = b /\ m \in DOMAIN messages'
      BY <1>9, <2>1 DEF SameQuestion
    <3>2. /\ m \in DOMAIN messages' /\ messages'[m].role = "user" /\ messages'[m].bot = b /\ messages'[m].status = outcome
          /\ DOMAIN messages \subseteq DOMAIN messages' /\ \A k \in DOMAIN messages : k # m => messages'[k] = messages[k]
          /\ \A k \in DOMAIN messages' \ DOMAIN messages : k = m \/ messages'[k].role # "user"
          /\ m \in DOMAIN messages => messages[m].role = "user"
      BY <1>9, <2>1, <3>1
    <3>3. QuestionWritten(messages, messages', m)
      BY <3>2, QuestionsBecome
    <3> QED
      BY <3>2, <3>3, MappedFrom DEF QuestionWritten
  <2>4. m # NoId
    BY <1>9, ClientIdsAreNotMinted DEF TypeOK, IsTable, MessageIds
  <2>5. Slots!Settle(b)
    BY <1>1, <2>2, <2>3, <2>4 DEF Slots!Settle, Slots!Become, Slots!Hold
  <2> QED
    BY <2>2, <2>5 DEF Slots!SlotsNext
<1>10. CASE RepliesTo(p)
  <2>1. proc[p].kind = "turn" /\ proc'[p].kind = "none" /\ m \in DOMAIN messages
    BY <1>10 DEF RepliesTo
  <2>2. ~WritesNothing(p) /\ messages'[m].status = "sent"
        /\ DOMAIN messages' = DOMAIN messages \cup {serial + 1} /\ messages'[serial + 1].role = "bot"
    BY <1>0, <1>10, RowsWritten, MintedIsFresh DEF WritesNothing
  <2> QED
    BY <1>0, <1>9, <2>1, <2>2, RowsStay
<1>11. CASE FailsOn(p)
  <2>1. proc[p].kind = "turn" /\ proc'[p].kind = "none" /\ m \in DOMAIN messages
    BY <1>11 DEF FailsOn
  <2>2. messages'[m].status = "failed" /\ DOMAIN messages' = DOMAIN messages
    BY <1>0, <1>11, RowsWritten
  <2> QED
    BY <1>0, <1>9, <2>1, <2>2, RowsStay
<1> QED
  BY <1>0, <1>6, <1>7, <1>8, <1>10, <1>11 DEF Writes

\* No process, no slot.
LEMMA CrashFrees ==
    ASSUME TypeOK, Crash
    PROVE  Slots!Die
<1>1. \A p \in Requests : proc[p].pc = "new" => proc[p].kind = "none"
  BY KindAt, TypeParts DEF ProcOK
<1>2. \A p \in Requests : proc'[p].kind = "none"
  BY <1>1 DEF Crash, Served, NewRequest
<1>3. slotOf' = [b \in Bots |-> NoId]
  BY <1>2 DEF slotOf, Turns
<1>4. up = TRUE /\ up' = FALSE /\ questionsOf' = questionsOf
  BY DEF Crash, TypeOK, questionsOf, UserMessages
<1> QED
  BY <1>3, <1>4 DEF Slots!Die

\* The sweep of a restart fails the questions that nobody answers any more.
LEMMA RestartRecovers ==
    ASSUME TypeOK, Restart
    PROVE  Slots!Recover
<1>1. up = FALSE /\ up' = TRUE /\ slotOf' = slotOf
  BY DEF Restart, TypeOK, slotOf, Turns
<1>2. DOMAIN questionsOf' = DOMAIN questionsOf
      /\ \A m \in DOMAIN messages : /\ m \in DOMAIN messages' /\ messages'[m].role = messages[m].role
                                    /\ messages'[m].bot = messages[m].bot
                                    /\ messages'[m].status = IF messages[m].status = "awaiting" THEN "failed"
                                                             ELSE messages[m].status
  <2>1. \A m \in DOMAIN messages :
           messages'[m] = [messages[m] EXCEPT !.status = IF @ = "awaiting" THEN "failed" ELSE @]
    BY DEF Restart, FailInterrupted
  <2>2. \A m \in DOMAIN messages : messages[m] \in MessageRow
    BY DEF TypeOK, IsTable
  <2>3. DOMAIN messages' = DOMAIN messages
    BY DEF Restart, FailInterrupted
  <2>4. \A m \in DOMAIN messages :
           /\ messages'[m].role = messages[m].role /\ messages'[m].bot = messages[m].bot
           /\ messages'[m].status = IF messages[m].status = "awaiting" THEN "failed" ELSE messages[m].status
    BY <2>1, <2>2 DEF MessageRow
  <2> QED
    BY <2>3, <2>4 DEF questionsOf, UserMessages
<1>3. questionsOf' = [m \in DOMAIN questionsOf |->
            [questionsOf[m] EXCEPT !.status = IF @ = "awaiting" THEN "failed" ELSE @]]
  <2>1. \A m \in DOMAIN questionsOf :
           /\ m \in DOMAIN messages
           /\ questionsOf[m] = [bot |-> messages[m].bot, status |-> messages[m].status]
           /\ questionsOf'[m] = [bot |-> messages'[m].bot, status |-> messages'[m].status]
    BY <1>2 DEF questionsOf, UserMessages
  <2>2. \A m \in DOMAIN questionsOf :
           questionsOf'[m] = [questionsOf[m] EXCEPT !.status = IF @ = "awaiting" THEN "failed" ELSE @]
    BY <1>2, <2>1
  <2>3. questionsOf' = [m \in DOMAIN questionsOf' |-> questionsOf'[m]]
    BY DEF questionsOf
  <2> QED
    BY <1>2, <2>2, <2>3
<1> QED
  BY <1>1, <1>3 DEF Slots!Recover

\* Unless bots are deleted, the server is one that gives each bot a single slot: only
\* the turn that holds a slot settles its question, a death frees every slot, and the
\* restart fails what was being answered before anything else is served.
THEOREM ServerGivesOneSlot ==
    ASSUME "delete" \notin Kinds
    PROVE  Spec => ImplementsSlots
<1> DEFINE Inv == TypeOK /\ SlotInv
<1>1. Init => Slots!SlotsInit
  <2> SUFFICES ASSUME Init PROVE Slots!SlotsInit
    OBVIOUS
  <2>1. questionsOf = [m \in {} |-> NoId]
    BY DEF Init, questionsOf, UserMessages
  <2>2. \A p \in Requests : proc[p].kind = "none"
    BY DEF Init, NewRequest
  <2>3. slotOf = [b \in Bots |-> NoId]
    BY <2>2 DEF slotOf, Turns
  <2> QED
    BY <2>1, <2>3 DEF Slots!SlotsInit, Init
<1>2. Inv /\ Inv' /\ [Next]_vars => [Slots!SlotsNext]_<<questionsOf, slotOf, up>>
  <2> SUFFICES ASSUME Inv, Inv', [Next]_vars
               PROVE  Slots!SlotsNext \/ UNCHANGED <<questionsOf, slotOf, up>>
    OBVIOUS
  <2>1. ASSUME NEW p \in Requests, Request(p) \/ Step(p)
        PROVE  Slots!SlotsNext \/ UNCHANGED <<questionsOf, slotOf, up>>
    BY <2>1, SlotsStep
  <2>2. CASE Crash
    BY <2>2, CrashFrees DEF Slots!SlotsNext
  <2>3. CASE Restart
    BY <2>3, RestartRecovers DEF Slots!SlotsNext
  <2>4. CASE UNCHANGED vars
    BY <2>4 DEF vars, questionsOf, UserMessages, slotOf, Turns
  <2> QED
    BY <2>1, <2>2, <2>3, <2>4 DEF Next, Quiet
<1>3. Spec => []Inv
  BY SlotInvHolds
<1> QED
  BY <1>1, <1>2, <1>3, PTL DEF Spec, ImplementsSlots, Slots!SlotsSpec, Slots!slotVars

-----------------------------------------------------------------------------
(* The transcript, unless messages are retried or bots deleted.              *)

Dated == \A m \in DOMAIN messages : messages[m].at <= serial

\* What has a reply has been sent, in the same conversation.
RepliedIsSent ==
    \A r \in DOMAIN messages :
       LET q == messages[r].answers
       IN  q # NoId => /\ q \in DOMAIN messages /\ messages[q].status = "sent"
                       /\ messages[q].role = "user" /\ messages[q].bot = messages[r].bot

NoSecondReply ==
    \A r, s \in DOMAIN messages :
       messages[r].answers # NoId /\ messages[r].answers = messages[s].answers => r = s

SentIsReplied ==
    \A m \in DOMAIN messages :
       messages[m].role = "user" /\ messages[m].status = "sent" =>
          \E r \in DOMAIN messages : messages[r].answers = m

\* What awaits its reply was asked last.
AskedLast ==
    \A m, u \in DOMAIN messages :
       /\ messages[m].status = "awaiting" /\ messages[u].role = "user"
       /\ messages[u].bot = messages[m].bot
       => messages[u].at <= messages[m].at

TranscriptInv ==
    Dated /\ RepliedIsSent /\ NoSecondReply /\ SentIsReplied /\ AskedLast /\ ReplyFollowsQuestion

\* What may become of the transcript: awaiting messages fail, ...
SomeFail ==
    /\ DOMAIN messages' = DOMAIN messages
    /\ \A m \in DOMAIN messages :
          /\ SameQuestion(messages'[m], messages[m])
          /\ \/ messages'[m].status = messages[m].status
             \/ messages[m].status = "awaiting" /\ messages'[m].status = "failed"
    /\ serial' \in {serial, serial + 1}

\* ... or a question joins it that no other one waits beside, ...
QuestionJoins(m) ==
    /\ m \notin DOMAIN messages /\ DOMAIN messages' = DOMAIN messages \cup {m}
    /\ \A k \in DOMAIN messages : messages'[k] = messages[k]
    /\ messages'[m].role = "user" /\ messages'[m].status = "awaiting"
    /\ messages'[m].answers = NoId /\ messages'[m].at = serial + 1
    /\ \A k \in DOMAIN messages : messages[k].bot = messages'[m].bot => messages[k].status # "awaiting"
    /\ serial' = serial + 1

\* ... or the reply to one that has waited.
ReplyJoins(q) ==
    LET r == serial + 1
    IN  /\ r \notin DOMAIN messages /\ DOMAIN messages' = DOMAIN messages \cup {r}
        /\ q \in DOMAIN messages /\ messages[q].role = "user" /\ messages[q].status = "awaiting"
        /\ SameQuestion(messages'[q], messages[q]) /\ messages'[q].status = "sent"
        /\ \A k \in DOMAIN messages : k # q => messages'[k] = messages[k]
        /\ messages'[r].bot = messages[q].bot /\ messages'[r].role = "bot"
        /\ messages'[r].status = "sent" /\ messages'[r].answers = q /\ messages'[r].at = serial + 1
        /\ serial' = serial + 1

LEMMA RowTypes ==
    ASSUME TypeOK
    PROVE  /\ serial \in Nat /\ NoId \notin DOMAIN messages
           /\ \A m \in DOMAIN messages : messages[m].at \in Nat /\ messages[m] \in MessageRow
BY ClientIdsAreNotMinted DEF TypeOK, IsTable, MessageRow, MessageIds

LEMMA TranscriptFails ==
    ASSUME TypeOK, TranscriptInv, SomeFail
    PROVE  TranscriptInv'
<1>0. /\ DOMAIN messages' = DOMAIN messages
      /\ \A m \in DOMAIN messages :
          /\ messages'[m].bot = messages[m].bot /\ messages'[m].role = messages[m].role
          /\ messages'[m].at = messages[m].at /\ messages'[m].answers = messages[m].answers
          /\ messages'[m].status = "sent" <=> messages[m].status = "sent"
          /\ messages'[m].status = "awaiting" => messages[m].status = "awaiting"
  BY DEF SomeFail, SameQuestion
<1>1. Dated'
  BY <1>0, RowTypes DEF SomeFail, TranscriptInv, Dated
<1>2. RepliedIsSent' /\ NoSecondReply' /\ SentIsReplied'
  BY <1>0 DEF TranscriptInv, RepliedIsSent, NoSecondReply, SentIsReplied
<1>3. AskedLast' /\ ReplyFollowsQuestion'
  BY <1>0 DEF TranscriptInv, AskedLast, ReplyFollowsQuestion, MessagesOf
<1> QED
  BY <1>1, <1>2, <1>3 DEF TranscriptInv

LEMMA TranscriptAsks ==
    ASSUME TypeOK, TranscriptInv, NEW m, QuestionJoins(m)
    PROVE  TranscriptInv'
<1>0. serial \in Nat /\ \A k \in DOMAIN messages : messages[k].at \in Nat /\ messages[k].at <= serial
  BY RowTypes DEF TranscriptInv, Dated
<1>1. Dated'
  BY <1>0 DEF QuestionJoins, Dated
<1>2. RepliedIsSent' /\ NoSecondReply' /\ SentIsReplied'
  BY DEF QuestionJoins, TranscriptInv, RepliedIsSent, NoSecondReply, SentIsReplied
<1>3. AskedLast'
  BY <1>0 DEF QuestionJoins, TranscriptInv, AskedLast
<1>4. ReplyFollowsQuestion'
  <2> SUFFICES ASSUME NEW r \in DOMAIN messages', messages'[r].answers # NoId
               PROVE  LET q == messages'[r].answers
                      IN  /\ q \in DOMAIN messages' /\ messages'[q].at < messages'[r].at
                          /\ \A u \in DOMAIN messages' :
                                messages'[u].bot = messages'[r].bot /\ messages'[u].role = "user" =>
                                   ~(messages'[q].at < messages'[u].at /\ messages'[u].at < messages'[r].at)
    BY DEF ReplyFollowsQuestion, MessagesOf
  <2>1. r \in DOMAIN messages /\ r # m
    BY DEF QuestionJoins
  <2> QED
    BY <1>0, <2>1 DEF QuestionJoins, TranscriptInv, ReplyFollowsQuestion, MessagesOf
<1> QED
  BY <1>1, <1>2, <1>3, <1>4 DEF TranscriptInv

LEMMA TranscriptReplies ==
    ASSUME TypeOK, TranscriptInv, NEW q, ReplyJoins(q)
    PROVE  TranscriptInv'
<1> DEFINE n == serial + 1
<1>0. serial \in Nat /\ \A k \in DOMAIN messages : messages[k].at \in Nat /\ messages[k].at <= serial
  BY RowTypes DEF TranscriptInv, Dated
<1>1. /\ n \notin DOMAIN messages /\ DOMAIN messages' = DOMAIN messages \cup {n}
      /\ q \in DOMAIN messages /\ messages[q].role = "user" /\ messages[q].status = "awaiting"
      /\ messages'[q].status = "sent" /\ q # NoId
      /\ messages'[n].bot = messages[q].bot /\ messages'[n].role = "bot"
      /\ messages'[n].status = "sent" /\ messages'[n].answers = q /\ messages'[n].at = n
      /\ serial' = n
  BY RowTypes DEF ReplyJoins
<1>2. \A k \in DOMAIN messages :
          /\ messages'[k].bot = messages[k].bot /\ messages'[k].role = messages[k].role
          /\ messages'[k].at = messages[k].at /\ messages'[k].answers = messages[k].answers
          /\ k # q => messages'[k].status = messages[k].status
  BY DEF ReplyJoins, SameQuestion
<1>3. \A k \in DOMAIN messages : messages[k].answers # q
  BY <1>1 DEF TranscriptInv, RepliedIsSent
<1>4. Dated'
  BY <1>0, <1>1, <1>2 DEF Dated
<1>5. RepliedIsSent'
  BY <1>1, <1>2 DEF TranscriptInv, RepliedIsSent
<1>6. NoSecondReply'
  BY <1>1, <1>2, <1>3 DEF TranscriptInv, NoSecondReply
<1>7. SentIsReplied'
  BY <1>1, <1>2 DEF TranscriptInv, SentIsReplied
<1>8. AskedLast'
  BY <1>1, <1>2 DEF TranscriptInv, AskedLast
<1>9. ReplyFollowsQuestion'
  <2> SUFFICES ASSUME NEW r \in DOMAIN messages', messages'[r].answers # NoId
               PROVE  LET a == messages'[r].answers
                      IN  /\ a \in DOMAIN messages' /\ messages'[a].at < messages'[r].at
                          /\ \A u \in DOMAIN messages' :
                                messages'[u].bot = messages'[r].bot /\ messages'[u].role = "user" =>
                                   ~(messages'[a].at < messages'[u].at /\ messages'[u].at < messages'[r].at)
    BY DEF ReplyFollowsQuestion, MessagesOf
  <2>1. CASE r = n
    <3>1. \A u \in DOMAIN messages :
             messages[u].role = "user" /\ messages[u].bot = messages[q].bot => messages[u].at <= messages[q].at
      BY <1>1 DEF TranscriptInv, AskedLast
    <3>2. messages'[q].at < n
      BY <1>0, <1>1, <1>2
    <3> QED
      BY <1>0, <1>1, <1>2, <2>1, <3>1, <3>2
  <2>2. CASE r \in DOMAIN messages
    BY <1>0, <1>1, <1>2, <2>2 DEF TranscriptInv, ReplyFollowsQuestion, MessagesOf
  <2> QED
    BY <1>1, <2>1, <2>2
<1> QED
  BY <1>4, <1>5, <1>6, <1>7, <1>8, <1>9 DEF TranscriptInv

LEMMA TranscriptStep ==
    ASSUME TypeOK, SlotInv, Kinds \cap {"retry", "delete"} = {}, NEW p \in Requests, Request(p) \/ Step(p)
    PROVE  SomeFail \/ \E m : QuestionJoins(m) \/ ReplyJoins(m)
<1>0. Writes(p) /\ Minted /\ serial \in Nat /\ serial + 1 \notin DOMAIN messages
  BY EveryStepWrites, MintedIsFresh DEF SlotInv
<1>1. CASE WritesNothing(p)
  BY <1>1 DEF WritesNothing, SomeFail, SameQuestion
<1>2. ASSUME NEW b, NEW m, Asks(p, b, m)
      PROVE  QuestionJoins(m)
  <2>1. \A k \in DOMAIN messages : k # m => messages'[k] = messages[k]
    BY <1>2 DEF Asks, Put
  <2>2. /\ DOMAIN messages' = DOMAIN messages \cup {m} /\ messages'[m].bot = b
        /\ messages'[m].role = "user" /\ messages'[m].status = "awaiting"
        /\ messages'[m].answers = NoId /\ messages'[m].at = serial + 1
    BY <1>2 DEF Asks, Put
  <2>3. \A k \in DOMAIN messages : messages[k].bot = b => messages[k].status # "awaiting"
    BY <1>2 DEF Asks, Busy, Awaiting, MessagesOf
  <2> QED
    BY <1>2, <2>1, <2>2, <2>3 DEF QuestionJoins, Asks
<1>3. ~AsksAgain(p)
  BY DEF AsksAgain, SlotInv, KindsServed
<1> DEFINE q == proc[p].msg
<1>4. ASSUME proc[p].kind = "turn"
      PROVE  /\ q \in DOMAIN messages /\ messages[q].role = "user"
             /\ messages[q].bot = proc[p].bot /\ messages[q].status = "awaiting"
  BY <1>4 DEF SlotInv, HasQuestion, TurnHoldsSlot, Turns, Awaiting
<1>5. CASE RepliesTo(p)
  <2>1. proc[p].kind = "turn" /\ serial' = serial + 1
    BY <1>5 DEF RepliesTo
  <2>2. \A k \in DOMAIN messages : SameQuestion(messages'[k], messages[k])
            /\ (k # q => messages'[k] = messages[k])
    BY <1>0, <1>5, <2>1, RowsStay DEF AsksAgain, FailsOn
  <2> QED
    BY <1>0, <1>4, <1>5, <2>1, <2>2, RowsWritten DEF ReplyJoins
<1>6. CASE FailsOn(p)
  <2>1. proc[p].kind = "turn" /\ serial' = serial
    BY <1>6 DEF FailsOn
  <2>2. \A k \in DOMAIN messages : SameQuestion(messages'[k], messages[k])
            /\ (k # q => messages'[k] = messages[k])
    BY <1>0, <1>6, <2>1, RowsStay
  <2> QED
    BY <1>0, <1>4, <1>6, <2>1, <2>2, RowsWritten DEF SomeFail
<1> QED
  BY <1>0, <1>1, <1>2, <1>3, <1>5, <1>6 DEF Writes

LEMMA TranscriptInvHolds ==
    ASSUME Kinds \cap {"retry", "delete"} = {}
    PROVE  Spec => []TranscriptInv
<1>1. Init => TranscriptInv
  BY DEF Init, TranscriptInv, Dated, RepliedIsSent, NoSecondReply, SentIsReplied, AskedLast,
         ReplyFollowsQuestion, MessagesOf
<1>2. TypeOK /\ SlotInv /\ TranscriptInv /\ [Next]_vars => TranscriptInv'
  <2> SUFFICES ASSUME TypeOK, SlotInv, TranscriptInv, [Next]_vars
               PROVE  TranscriptInv'
    OBVIOUS
  <2>1. ASSUME NEW p \in Requests, Request(p) \/ Step(p)
        PROVE  TranscriptInv'
    BY <2>1, TranscriptStep, TranscriptFails, TranscriptAsks, TranscriptReplies
  <2>2. CASE Restart
    <3>1. DOMAIN messages' = DOMAIN messages /\ serial' = serial + 1
          /\ \A m \in DOMAIN messages : messages'[m] =
                [messages[m] EXCEPT !.status = IF @ = "awaiting" THEN "failed" ELSE @]
      BY <2>2 DEF Restart, FailInterrupted
    <3>2. \A m \in DOMAIN messages :
             /\ SameQuestion(messages'[m], messages[m])
             /\ messages'[m].status = IF messages[m].status = "awaiting" THEN "failed" ELSE messages[m].status
      BY <3>1, RowTypes DEF MessageRow, SameQuestion
    <3>3. SomeFail
      BY <3>1, <3>2 DEF SomeFail
    <3> QED
      BY <3>3, TranscriptFails
  <2>3. CASE Crash \/ UNCHANGED vars
    BY <2>3, TranscriptFails DEF Crash, vars, SomeFail, SameQuestion
  <2> QED
    BY <2>1, <2>2, <2>3 DEF Next, Quiet
<1>3. Spec => [](TypeOK /\ SlotInv)
  BY SlotInvHolds
<1> QED
  BY <1>1, <1>2, <1>3, PTL DEF Spec

\* If nothing is retried or deleted, no question ever lies between another one and its
\* reply, however turns fail and the process dies.
THEOREM TranscriptInOrder ==
    ASSUME Kinds \cap {"retry", "delete"} = {}
    PROVE  Spec => []ReplyFollowsQuestion
<1>1. TranscriptInv => ReplyFollowsQuestion
  BY DEF TranscriptInv
<1> QED
  BY <1>1, TranscriptInvHolds, PTL

\* If nothing is retried or deleted, a question that is sent has one reply, and one that
\* awaits it or has failed has none: CompleteTurn is all or nothing at every death.
THEOREM RepliesAreSingle ==
    ASSUME Kinds \cap {"retry", "delete"} = {}
    PROVE  Spec => []AnsweredOnce
<1>1. TypeOK /\ TranscriptInv => AnsweredOnce
  <2> SUFFICES ASSUME TypeOK, TranscriptInv, NEW m \in DOMAIN messages, messages[m].role = "user"
               PROVE  IF messages[m].status = "sent" THEN \E r \in Replies(m) : Replies(m) = {r}
                                                     ELSE Replies(m) = {}
    BY DEF AnsweredOnce
  <2>1. m # NoId
    BY RowTypes
  <2>2. CASE messages[m].status = "sent"
    <3>1. PICK r \in DOMAIN messages : messages[r].answers = m
      BY <2>2 DEF TranscriptInv, SentIsReplied
    <3>2. Replies(m) = {r}
      BY <2>1, <3>1 DEF TranscriptInv, NoSecondReply, Replies
    <3> QED
      BY <2>2, <3>2
  <2>3. CASE messages[m].status # "sent"
    BY <2>1, <2>3 DEF TranscriptInv, RepliedIsSent, Replies
  <2> QED
    BY <2>2, <2>3
<1> QED
  BY <1>1, TranscriptInvHolds, TypeCorrect, PTL

-----------------------------------------------------------------------------
(* The segments of a bot, unless bots are created or deleted.                *)

\* One segment is open and it is the last one; each index up to its own is used once.
Chained(b) ==
    LET S == SegmentsOf(b)
    IN  /\ \E o \in S : OpenSegments(b) = {o} /\ \A s \in S : segments[s].idx <= segments[o].idx
        /\ \A s, t \in S : segments[s].idx = segments[t].idx => s = t
        /\ \A s \in S : \A k \in 0..segments[s].idx : \E t \in S : segments[t].idx = k

\* A bot that is live has an open segment, so nobody opens another one for it.
OpensLate(p) == proc[p].pc \in {"next", "insert"} /\ Live(proc[p].bot)

\* A compaction knows its segment, and what it summarizes is still the latest summary
\* unless another one has sealed that segment meanwhile.
CompactionKnows(p) ==
    proc[p].kind = "compact" /\ proc[p].pc \in {"list", "check", "summary", "seal"} =>
       /\ proc[p].seg \in SegmentsOf(proc[p].bot)
       /\ segments[proc[p].seg].idx = proc[p].idx
       /\ proc[p].pc = "seal" /\ segments[proc[p].seg].open => proc[p].sum = LatestSummary(proc[p].bot)

SegmentsKnown == \A s \in DOMAIN segments : Live(s[1]) /\ s[2] <= serial

ChainInv ==
    /\ SegmentsKnown
    /\ \A b \in Bots : Live(b) => Chained(b)
    /\ SummariesAccumulate
    /\ \A p \in Requests : ~OpensLate(p) /\ CompactionKnows(p)

\* All that ever happens to segments: a compaction seals the open one and opens the next.
Seals(p) ==
    LET b == proc[p].bot
        s == proc[p].seg
        next == <<b, serial + 1>>
    IN  /\ Live(b) /\ proc[p].kind = "compact" /\ proc[p].pc = "seal" /\ proc'[p] = Served
        /\ IndexFree(b, proc[p].idx + 1)
        /\ segments' = Put(IF s \in DOMAIN segments /\ segments[s].open
                           THEN Put(segments, s, [segments[s] EXCEPT !.open = FALSE, !.covers = Folded(p)])
                           ELSE segments,
                           next, FreshSegment(proc[p].idx + 1))
        /\ serial' = serial + 1

LEMMA AppendsToOpen ==
    ASSUME NEW rows, NEW b, NEW m, NEW role, NEW status, NEW answers, OpenSegments(b) # {},
           AppendMessage(rows, b, m, role, status, answers)
    PROVE  UNCHANGED segments
BY DEF AppendMessage

LEMMA SegmentsMove ==
    ASSUME TypeOK, SlotInv, ChainInv, Kinds \cap {"create", "delete"} = {},
           NEW p \in Requests, Request(p) \/ Step(p)
    PROVE  /\ UNCHANGED bots
           /\ (UNCHANGED segments /\ serial' \in {serial, serial + 1}) \/ Seals(p)
<1>0. ProcessOK(proc[p]) /\ proc[p].kind \notin {"create", "delete"} /\ p \in DOMAIN proc
  BY TypeParts DEF ProcOK, TypeOK, SlotInv, KindsServed
<1>1. \A b \in Bots : Live(b) => OpenSegments(b) # {}
  BY DEF ChainInv, Chained
<1>2. ~CreateBot(p) /\ ~DeleteMessages(p)
  BY DEF CreateBot, DeleteMessages, Admit
<1>3. ~DeleteSegments(p) /\ ~DeleteRow(p)
  BY <1>0, KindAt DEF DeleteSegments, DeleteRow
<1>4. CASE SendMessage(p)
  <2>1. PICK b \in Bots, id \in ClientIds \cup {NoId} :
           LET m == IF id = NoId THEN serial + 1 ELSE id
           IN  Live(b) /\ AppendMessage(messages, b, m, "user", "awaiting", NoId)
    BY <1>4 DEF SendMessage
  <2> QED
    BY <1>1, <1>4, <2>1, AppendsToOpen DEF SendMessage
<1>5. CASE CompleteTurn(p)
  <2>1. proc[p].kind = "turn" /\ proc[p].bot \in Bots
    BY <1>0, <1>5, KindAt DEF CompleteTurn, ProcessOK
  <2> QED
    BY <1>1, <1>5, <2>1, AppendsToOpen DEF CompleteTurn
<1>6. CASE InsertSegment(p)
  <2>1. ~Live(proc[p].bot)
    BY <1>6 DEF ChainInv, OpensLate, InsertSegment
  <2> QED
    BY <1>6, <2>1 DEF InsertSegment
<1>7. CASE Seal(p)
  <2>1. proc[p].kind = "compact" /\ proc'[p] = Served
    BY <1>0, <1>7, KindAt, Ending DEF Seal
  <2> QED
    BY <1>7, <2>1 DEF Seal, Seals
<1>8. CASE RetryMessage(p) \/ CompactConversation(p)
  BY <1>8 DEF RetryMessage, CompactConversation
<1>9. CASE \/ FindOpenSegment(p) \/ ChooseIndex(p) \/ ClaimRetry(p) \/ ListMessages(p)
           \/ CheckInFlight(p) \/ ReadSummary(p) \/ SummarizeFails(p) \/ ModelFails(p) \/ SettleFailed(p)
  BY <1>9 DEF FindOpenSegment, ChooseIndex, ClaimRetry, ListMessages, CheckInFlight, ReadSummary,
              SummarizeFails, ModelFails, SettleFailed
<1> QED
  BY <1>2, <1>3, <1>4, <1>5, <1>6, <1>7, <1>8, <1>9 DEF Request, Step

\* What a process knows after its step.
LEMMA KnowsOnItsWay ==
    ASSUME TypeOK, SlotInv, ChainInv, Kinds \cap {"create", "delete"} = {},
           NEW p \in Requests, Request(p) \/ Step(p), UNCHANGED <<bots, segments>>
    PROVE  ~OpensLate(p)' /\ CompactionKnows(p)'
<1>0. /\ ProcessOK(proc[p]) /\ proc[p].kind \notin {"create", "delete"}
      /\ proc[p] \in Process /\ p \in DOMAIN proc
  BY TypeParts DEF ProcOK, TypeOK, SlotInv, KindsServed
<1> DEFINE b == proc[p].bot
           s == proc[p].seg
<1>1. ~CreateBot(p) /\ ~DeleteMessages(p)
  BY DEF CreateBot, DeleteMessages, Admit
<1>2. ~DeleteSegments(p) /\ ~DeleteRow(p)
  BY <1>0, KindAt DEF DeleteSegments, DeleteRow
<1>3. ~OpensLate(p) /\ CompactionKnows(p)
  BY DEF ChainInv
<1>4. ASSUME proc'[p].pc \in {"find", "claim", "settle", "new", "done"}
      PROVE  ~OpensLate(p)' /\ CompactionKnows(p)'
  BY <1>4 DEF OpensLate, CompactionKnows
<1>5. CASE Finish(p)
  <2>1. proc'[p].pc = "done"
    BY <1>5, Ending DEF Served, NewRequest
  <2> QED
    BY <1>4, <2>1
<1>6. CASE Abort(p) \/ Goto(p, "settle")
  <2>1. CASE Goto(p, "settle")
    BY <1>0, <1>4, <2>1 DEF Goto, Process
  <2> QED
    BY <1>5, <1>6, <2>1 DEF Abort
<1>7. CASE SendMessage(p) \/ ClaimRetry(p)
  <2>1. Finish(p) \/ \E c, m : StartTurn(p, c, m)
    BY <1>7 DEF SendMessage, ClaimRetry
  <2>2. ASSUME NEW c, NEW m, StartTurn(p, c, m)
        PROVE  proc'[p].pc = "find"
    BY <1>0, <2>2 DEF StartTurn, NewRequest
  <2> QED
    BY <1>4, <1>5, <2>1, <2>2
<1>8. CASE RetryMessage(p)
  BY <1>0, <1>4, <1>8 DEF RetryMessage, NewRequest
<1>9. CASE CompactConversation(p)
  BY <1>0, <1>4, <1>9 DEF CompactConversation, Handle, NewRequest
<1>10. CASE FindOpenSegment(p)
  <2>1. proc[p].kind \in {"retry", "compact", "turn"} /\ b \in Bots
    BY <1>0, <1>10, KindAt DEF FindOpenSegment, ProcessOK
  <2>2. CASE OpenSegments(b) = {} /\ Goto(p, "next")
    <3>1. ~Live(b)
      BY <2>1, <2>2 DEF ChainInv, Chained
    <3>2. proc'[p].bot = b /\ proc'[p].pc = "next"
      BY <1>0, <2>2 DEF Goto, Process
    <3> QED
      BY <3>1, <3>2 DEF OpensLate, CompactionKnows, Live
  <2>3. ASSUME NEW o \in Newest(OpenSegments(b)), WithSegment(p, o, segments[o].idx)
        PROVE  ~OpensLate(p)' /\ CompactionKnows(p)'
    <3>1. CASE proc[p].kind = "retry"
      <4>1. CASE Goto(p, "claim")
        BY <1>0, <1>4, <4>1 DEF Goto, Process
      <4> QED
        BY <1>5, <2>3, <3>1, <4>1 DEF WithSegment
    <3>2. CASE proc[p].kind # "retry"
      <4> DEFINE r == [proc[p] EXCEPT !.seg = o, !.idx = segments[o].idx, !.pc = "list"]
      <4>1. proc' = [proc EXCEPT ![p] = r]
        BY <2>1, <2>3, <3>2 DEF WithSegment
      <4>2. r.bot = b /\ r.seg = o /\ r.idx = segments[o].idx /\ r.pc = "list"
        BY <1>0 DEF Process
      <4>3. proc'[p] = r
        BY <1>0, <4>1
      <4>4. o \in SegmentsOf(b)
        BY <2>3, NewestIsIn DEF OpenSegments
      <4> HIDE DEF r
      <4> QED
        BY <4>2, <4>3, <4>4 DEF OpensLate, CompactionKnows, SegmentsOf
    <3> QED
      BY <3>1, <3>2
  <2> QED
    BY <1>10, <2>2, <2>3 DEF FindOpenSegment
<1>11. CASE ChooseIndex(p)
  <2>1. ~Live(b)
    BY <1>3, <1>11 DEF ChooseIndex, OpensLate
  <2>2. PICK i : proc' = [proc EXCEPT ![p] = [proc[p] EXCEPT !.idx = i, !.pc = "insert"]]
    BY <1>11 DEF ChooseIndex
  <2>3. proc'[p].bot = b /\ proc'[p].pc = "insert"
    BY <1>0, <2>2 DEF Process
  <2> QED
    BY <2>1, <2>3 DEF OpensLate, CompactionKnows, Live
<1>12. CASE InsertSegment(p)
  <2>1. ~Live(b)
    BY <1>3, <1>12 DEF InsertSegment, OpensLate
  <2> QED
    BY <1>6, <1>12, <2>1 DEF InsertSegment
<1>13. ASSUME NEW h, NEW pc, proc' = [proc EXCEPT ![p] = [proc[p] EXCEPT !.hist = h, !.pc = pc]],
              pc \in {"check", "summary"}, proc[p].pc \in {"list", "check"}
       PROVE  ~OpensLate(p)' /\ CompactionKnows(p)'
  <2>1. /\ proc'[p].kind = proc[p].kind /\ proc'[p].bot = b /\ proc'[p].seg = s
        /\ proc'[p].idx = proc[p].idx /\ proc'[p].pc = pc
    BY <1>0, <1>13 DEF Process
  <2> QED
    BY <1>3, <1>13, <2>1 DEF OpensLate, CompactionKnows, SegmentsOf
<1>14. CASE ListMessages(p)
  <2>1. \/ Finish(p)
        \/ \E h, pc : /\ proc' = [proc EXCEPT ![p] = [proc[p] EXCEPT !.hist = h, !.pc = pc]]
                      /\ pc \in {"check", "summary"}
    BY <1>14 DEF ListMessages
  <2> QED
    BY <1>5, <1>13, <1>14, <2>1 DEF ListMessages
<1>15. CASE CheckInFlight(p)
  <2>1. CASE Goto(p, "summary")
    <3>1. /\ proc'[p].kind = proc[p].kind /\ proc'[p].bot = b /\ proc'[p].seg = s
          /\ proc'[p].idx = proc[p].idx /\ proc'[p].pc = "summary"
      BY <1>0, <2>1 DEF Goto, Process
    <3> QED
      BY <1>3, <1>15, <3>1 DEF CheckInFlight, OpensLate, CompactionKnows, SegmentsOf
  <2> QED
    BY <1>5, <1>15, <2>1 DEF CheckInFlight
<1>16. CASE ReadSummary(p)
  <2> DEFINE pc == IF proc[p].kind = "compact" THEN "seal" ELSE "complete"
             r == [proc[p] EXCEPT !.sum = LatestSummary(b), !.pc = pc]
  <2>1. proc' = [proc EXCEPT ![p] = r]
    BY <1>16 DEF ReadSummary
  <2>2. /\ r.kind = proc[p].kind /\ r.bot = b /\ r.seg = s
        /\ r.idx = proc[p].idx /\ r.pc = pc /\ r.sum = LatestSummary(b)
    BY <1>0 DEF Process
  <2>3. proc'[p] = r
    BY <1>0, <2>1
  <2> HIDE DEF r
  <2>4. ASSUME NEW c
        PROVE  LatestSummary(c)' = LatestSummary(c) /\ SegmentsOf(c)' = SegmentsOf(c)
    BY DEF LatestSummary, OpenSegments, SegmentsOf, Newest
  <2>5. ~OpensLate(p)'
    BY <2>2, <2>3 DEF OpensLate
  <2>6. PICK c : c = b
    OBVIOUS
  <2>7. /\ proc'[p].bot = c /\ proc'[p].seg = s /\ proc'[p].idx = proc[p].idx
        /\ proc'[p].kind = proc[p].kind /\ proc'[p].sum = LatestSummary(c)
    BY <2>2, <2>3, <2>6
  <2>8. proc[p].kind = "compact" => s \in SegmentsOf(c) /\ segments[s].idx = proc[p].idx
    BY <1>3, <1>16, <2>6 DEF ReadSummary, CompactionKnows
  <2> QED
    BY <2>4, <2>5, <2>7, <2>8 DEF CompactionKnows
<1>17. CASE SummarizeFails(p) \/ SettleFailed(p)
  BY <1>5, <1>17 DEF SummarizeFails, SettleFailed
<1>18. CASE Seal(p)
  BY <1>5, <1>18 DEF Seal
<1>19. CASE CompleteTurn(p) \/ ModelFails(p)
  BY <1>5, <1>6, <1>19 DEF CompleteTurn, ModelFails
<1> QED
  BY <1>1, <1>2, <1>7, <1>8, <1>9, <1>10, <1>11, <1>12, <1>14, <1>15, <1>16, <1>17, <1>18, <1>19
     DEF Request, Step

\* The segment that a seal closes is the open one: the index lets no second seal through.
SealedNow(b, s, i, covers) ==
    LET n == <<b, serial + 1>>
    IN  /\ n \notin DOMAIN segments /\ s \in SegmentsOf(b) /\ segments[s].idx = i
        /\ OpenSegments(b) = {s} /\ LatestSummary(b) \subseteq covers
        /\ DOMAIN segments' = DOMAIN segments \cup {n}
        /\ segments'[n].idx = i + 1 /\ segments'[n].open
        /\ segments'[s].idx = i /\ ~segments'[s].open /\ segments'[s].covers = covers
        /\ \A k \in DOMAIN segments : k # s => segments'[k] = segments[k]
        /\ UNCHANGED bots /\ serial' = serial + 1

LEMMA SegmentTypes ==
    ASSUME TypeOK
    PROVE  \A k \in DOMAIN segments :
              /\ k \in SegmentIds /\ segments[k] \in SegmentRow /\ segments[k].idx \in Nat
              /\ segments[k].open \in BOOLEAN
BY DEF TypeOK, IsTable, SegmentRow

LEMMA SealsOpenOne ==
    ASSUME TypeOK, ChainInv, NEW p \in Requests, Seals(p), UNCHANGED bots
    PROVE  SealedNow(proc[p].bot, proc[p].seg, proc[p].idx, Folded(p))
<1> DEFINE b == proc[p].bot
           s == proc[p].seg
           i == proc[p].idx
           n == <<b, serial + 1>>
<1>0. /\ proc[p].kind = "compact" /\ proc[p].pc = "seal" /\ Live(b) /\ IndexFree(b, i + 1)
      /\ serial' = serial + 1 /\ serial \in Nat /\ b \in Bots /\ i \in Nat
  BY DEF Seals, TypeOK, Process
<1>1. s \in SegmentsOf(b) /\ segments[s].idx = i
      /\ (segments[s].open => proc[p].sum = LatestSummary(b))
  BY <1>0 DEF ChainInv, CompactionKnows
<1>2. n \notin DOMAIN segments
  <2>1. ~(serial + 1 <= serial)
    BY <1>0
  <2> QED
    BY <2>1 DEF ChainInv, SegmentsKnown
<1>3. PICK o \in SegmentsOf(b) :
         OpenSegments(b) = {o} /\ \A t \in SegmentsOf(b) : segments[t].idx <= segments[o].idx
  BY <1>0 DEF ChainInv, Chained
<1>4. s = o
  <2> SUFFICES ASSUME s # o PROVE FALSE
    OBVIOUS
  <2>1. segments[s].idx # segments[o].idx
    BY <1>0, <1>1, <1>3 DEF ChainInv, Chained
  <2>2. segments[o].idx \in Nat /\ i <= segments[o].idx /\ i # segments[o].idx
    BY <1>1, <1>3, <2>1, SegmentTypes DEF SegmentsOf
  <2>3. i + 1 \in 0..segments[o].idx
    BY <1>0, <2>2
  <2>4. \E t \in SegmentsOf(b) : segments[t].idx = i + 1
    BY <1>0, <1>3, <2>3 DEF ChainInv, Chained
  <2> QED
    BY <1>0, <2>4 DEF IndexFree
<1>5. segments[s].open /\ s \in DOMAIN segments
  BY <1>3, <1>4 DEF OpenSegments, SegmentsOf
<1> DEFINE row == [segments[s] EXCEPT !.open = FALSE, !.covers = Folded(p)]
<1>6. segments' = Put(Put(segments, s, row), n, FreshSegment(i + 1))
  BY <1>5 DEF Seals
<1>7. row.idx = i /\ ~row.open /\ row.covers = Folded(p)
  BY <1>1, <1>5, SegmentTypes DEF SegmentRow
<1> HIDE DEF row
<1>8. /\ DOMAIN segments' = DOMAIN segments \cup {n}
      /\ segments'[n] = FreshSegment(i + 1) /\ segments'[s] = row
      /\ \A k \in DOMAIN segments : k # s => segments'[k] = segments[k]
  BY <1>2, <1>5, <1>6 DEF Put
<1>9. LatestSummary(b) \subseteq Folded(p)
  BY <1>1, <1>5 DEF Folded
<1> QED
  BY <1>0, <1>1, <1>2, <1>3, <1>4, <1>7, <1>8, <1>9 DEF SealedNow, FreshSegment

\* The latest summary covers what each summary before it covers.
LEMMA LatestCovers ==
    ASSUME TypeOK, ChainInv, NEW b \in Bots, Live(b), NEW t \in Sealed(b)
    PROVE  segments[t].covers \subseteq LatestSummary(b)
<1>1. PICK o \in SegmentsOf(b) :
         OpenSegments(b) = {o} /\ \A u \in SegmentsOf(b) : segments[u].idx <= segments[o].idx
  BY DEF ChainInv, Chained
<1>2. \A u \in SegmentsOf(b) : segments[u].idx \in Nat
  BY SegmentTypes DEF SegmentsOf
<1>3. t \in SegmentsOf(b) /\ t # o
  BY <1>1 DEF Sealed, OpenSegments
<1>4. segments[t].idx # segments[o].idx
  BY <1>1, <1>3 DEF ChainInv, Chained
<1>5. segments[o].idx - 1 \in 0..segments[o].idx
  BY <1>1, <1>2, <1>3, <1>4
<1>6. PICK l \in SegmentsOf(b) : segments[l].idx = segments[o].idx - 1
  BY <1>1, <1>5 DEF ChainInv, Chained
<1>7. \A u \in SegmentsOf(b) : u # o => segments[u].idx <= segments[l].idx
  <2> TAKE u \in SegmentsOf(b)
  <2> HAVE u # o
  <2>1. segments[u].idx # segments[o].idx
    BY <1>1 DEF ChainInv, Chained
  <2> QED
    BY <1>1, <1>2, <1>6, <2>1
<1>8. l # o
  BY <1>1, <1>2, <1>6
<1>9. l \in Newest(SegmentsOf(b) \ OpenSegments(b))
  BY <1>1, <1>6, <1>7, <1>8 DEF Newest
<1>10. segments[t].covers \subseteq segments[l].covers
  <2>1. CASE segments[t].idx = segments[l].idx
    BY <1>3, <1>6, <2>1 DEF ChainInv, Chained
  <2>2. CASE segments[t].idx # segments[l].idx
    <3>1. segments[t].idx < segments[l].idx
      BY <1>2, <1>3, <1>6, <1>7, <2>2
    <3>2. l \in Sealed(b)
      BY <1>1, <1>6, <1>8 DEF Sealed, OpenSegments
    <3> QED
      BY <3>1, <3>2 DEF ChainInv, SummariesAccumulate
  <2> QED
    BY <2>1, <2>2
<1> QED
  BY <1>9, <1>10 DEF LatestSummary

LEMMA SealKeepsChain ==
    ASSUME TypeOK, ChainInv, NEW b \in Bots, Live(b), NEW s, NEW i \in Nat, NEW covers,
           SealedNow(b, s, i, covers)
    PROVE  /\ SegmentsKnown'
           /\ \A c \in Bots : Live(c)' => Chained(c)'
           /\ SummariesAccumulate'
<1> DEFINE n == <<b, serial + 1>>
<1>0. /\ \A k \in DOMAIN segments : segments[k].idx \in Nat /\ k = <<k[1], k[2]>> /\ k[2] \in Nat
      /\ serial \in Nat
  BY SegmentTypes DEF TypeOK, SegmentIds
<1>1. /\ n \notin DOMAIN segments /\ s \in SegmentsOf(b) /\ segments[s].idx = i
      /\ OpenSegments(b) = {s} /\ LatestSummary(b) \subseteq covers
      /\ DOMAIN segments' = DOMAIN segments \cup {n}
      /\ segments'[n].idx = i + 1 /\ segments'[n].open
      /\ segments'[s].idx = i /\ ~segments'[s].open /\ segments'[s].covers = covers
      /\ \A k \in DOMAIN segments : k # s => segments'[k] = segments[k]
      /\ bots' = bots /\ serial' = serial + 1
  BY DEF SealedNow
<1>2. SegmentsKnown'
  <2>1. \A k \in DOMAIN segments : Live(k[1]) /\ k[2] <= serial + 1
    BY <1>0 DEF ChainInv, SegmentsKnown
  <2>2. n[1] = b /\ n[2] <= serial + 1
    BY <1>0
  <2> QED
    BY <1>1, <2>1, <2>2 DEF SegmentsKnown, Live
<1> HIDE DEF n
<1>3. n[1] = b /\ s \in DOMAIN segments /\ s[1] = b
  BY <1>1 DEF n, SegmentsOf
<1>4. ASSUME NEW c \in Bots, c # b
      PROVE  /\ SegmentsOf(c)' = SegmentsOf(c) /\ OpenSegments(c)' = OpenSegments(c)
             /\ Sealed(c)' = Sealed(c)
             /\ \A k \in SegmentsOf(c) : segments'[k] = segments[k]
  <2>1. SegmentsOf(c)' = SegmentsOf(c) /\ \A k \in SegmentsOf(c) : segments'[k] = segments[k]
    BY <1>1, <1>3, <1>4 DEF SegmentsOf
  <2> QED
    BY <2>1 DEF OpenSegments, Sealed
<1>5. SegmentsOf(b)' = SegmentsOf(b) \cup {n} /\ n \notin SegmentsOf(b)
  BY <1>1, <1>3 DEF SegmentsOf
<1>6. \A k \in SegmentsOf(b) : k \in DOMAIN segments /\ segments'[k].idx = segments[k].idx
  BY <1>1 DEF SegmentsOf
<1>7. OpenSegments(b)' = {n}
  <2>1. \A k \in SegmentsOf(b) : ~segments'[k].open
    BY <1>1, <1>6 DEF OpenSegments
  <2> QED
    BY <1>1, <1>5, <2>1 DEF OpenSegments
<1>8. \A k \in SegmentsOf(b) : segments[k].idx <= i
  BY <1>1 DEF ChainInv, Chained
<1>9. Chained(b)'
  <2>1. \A k \in SegmentsOf(b)' : segments'[k].idx <= segments'[n].idx
    BY <1>0, <1>1, <1>5, <1>6, <1>8
  <2>2. \A k, t \in SegmentsOf(b)' : segments'[k].idx = segments'[t].idx => k = t
    <3>1. \A k, t \in SegmentsOf(b) : segments[k].idx = segments[t].idx => k = t
      BY DEF ChainInv, Chained
    <3>2. \A k \in SegmentsOf(b) : segments'[k].idx # i + 1
      BY <1>0, <1>6, <1>8
    <3> QED
      BY <1>1, <1>5, <1>6, <3>1, <3>2
  <2>3. ASSUME NEW k \in SegmentsOf(b)', NEW j \in 0..segments'[k].idx
        PROVE  \E t \in SegmentsOf(b)' : segments'[t].idx = j
    <3>1. CASE j = i + 1
      BY <1>1, <1>5, <3>1
    <3>2. CASE j # i + 1
      <4>1. segments'[k].idx \in Nat /\ segments'[k].idx <= i + 1
        BY <1>0, <1>1, <1>5, <1>6, <1>8
      <4>2. j \in 0..i
        BY <3>2, <4>1
      <4>3. \E t \in SegmentsOf(b) : segments[t].idx = j
        BY <1>1, <4>2 DEF ChainInv, Chained
      <4> QED
        BY <1>5, <1>6, <4>3
    <3> QED
      BY <3>1, <3>2
  <2> QED
    BY <1>5, <1>7, <2>1, <2>2, <2>3 DEF Chained
<1>10. ASSUME NEW c \in Bots, Live(c)'
       PROVE  Chained(c)'
  <2>1. CASE c # b
    BY <1>1, <1>4, <1>10, <2>1 DEF ChainInv, Chained, Live
  <2> QED
    BY <1>9, <2>1
<1>11. SummariesAccumulate'
  <2> SUFFICES ASSUME NEW c \in Bots, NEW t \in Sealed(c)', NEW u \in Sealed(c)',
                      segments'[t].idx < segments'[u].idx
               PROVE  segments'[t].covers \subseteq segments'[u].covers
    BY DEF SummariesAccumulate
  <2>1. CASE c # b
    <3>1. t \in Sealed(c) /\ u \in Sealed(c)
      BY <1>4, <2>1
    <3>2. segments'[t] = segments[t] /\ segments'[u] = segments[u]
      BY <1>4, <2>1, <3>1 DEF Sealed
    <3> QED
      BY <3>1, <3>2 DEF ChainInv, SummariesAccumulate
  <2>2. CASE c = b
    <3>1. /\ t \in SegmentsOf(b) /\ u \in SegmentsOf(b)
          /\ t = s \/ t \in Sealed(b)
          /\ u = s \/ u \in Sealed(b)
      BY <1>1, <1>5, <1>6, <2>2 DEF Sealed
    <3>2. CASE t = s
      BY <1>0, <1>1, <1>6, <1>8, <3>1, <3>2
    <3>3. CASE t \in Sealed(b) /\ t # s /\ u = s
      BY <1>1, <1>6, <3>1, <3>3, LatestCovers
    <3>4. CASE t \in Sealed(b) /\ t # s /\ u \in Sealed(b) /\ u # s
      <4>1. segments'[t] = segments[t] /\ segments'[u] = segments[u]
        BY <1>1, <1>6, <3>1, <3>4
      <4> QED
        BY <3>4, <4>1 DEF ChainInv, SummariesAccumulate
    <3> QED
      BY <3>1, <3>2, <3>3, <3>4
  <2> QED
    BY <2>1, <2>2
<1> QED
  BY <1>2, <1>10, <1>11

LEMMA ChainStep ==
    ASSUME TypeOK, SlotInv, ChainInv, Kinds \cap {"create", "delete"} = {},
           NEW p \in Requests, Request(p) \/ Step(p)
    PROVE  ChainInv'
<1>0. \A q \in Requests : q # p => proc'[q] = proc[q]
  BY OthersStay
<1>1. CASE UNCHANGED <<bots, segments>> /\ serial' \in {serial, serial + 1}
  <2>1. SegmentsKnown'
    <3>1. \A s \in DOMAIN segments : s[2] \in Nat
      BY SegmentTypes DEF SegmentIds
    <3>2. serial \in Nat
      BY DEF TypeOK
    <3>3. \A s \in DOMAIN segments : s[2] <= serial'
      BY <1>1, <3>1, <3>2 DEF ChainInv, SegmentsKnown
    <3> QED
      BY <1>1, <3>3 DEF ChainInv, SegmentsKnown, Live
  <2>2. ASSUME NEW c \in Bots
        PROVE  /\ Live(c)' => Chained(c)'
               /\ \A s, t \in Sealed(c)' :
                     segments'[s].idx < segments'[t].idx => segments'[s].covers \subseteq segments'[t].covers
    BY <1>1 DEF ChainInv, Chained, Live, SegmentsOf, OpenSegments, Sealed, SummariesAccumulate
  <2>3. ASSUME NEW q \in Requests, q # p
        PROVE  ~OpensLate(q)' /\ CompactionKnows(q)'
    <3>1. \A c : LatestSummary(c)' = LatestSummary(c) /\ SegmentsOf(c)' = SegmentsOf(c)
      BY <1>1 DEF LatestSummary, OpenSegments, SegmentsOf, Newest
    <3> QED
      BY <1>0, <1>1, <2>3, <3>1 DEF ChainInv, OpensLate, CompactionKnows, Live
  <2>4. ~OpensLate(p)' /\ CompactionKnows(p)'
    BY <1>1, KnowsOnItsWay
  <2> QED
    BY <2>1, <2>2, <2>3, <2>4 DEF ChainInv, SummariesAccumulate
<1>2. CASE Seals(p) /\ UNCHANGED bots
  <2>1. PICK b, s, i, covers :
           b = proc[p].bot /\ s = proc[p].seg /\ i = proc[p].idx /\ covers = Folded(p)
    OBVIOUS
  <2>2. SealedNow(b, s, i, covers)
    BY <1>2, <2>1, SealsOpenOne
  <2>3. b \in Bots /\ Live(b) /\ i \in Nat
    BY <1>2, <2>1 DEF Seals, TypeOK, Process
  <2>4. SegmentsKnown' /\ (\A c \in Bots : Live(c)' => Chained(c)') /\ SummariesAccumulate'
    BY <2>2, <2>3, SealKeepsChain
  <2>5. ~OpensLate(p)' /\ CompactionKnows(p)'
    BY <1>2 DEF Seals, Served, NewRequest, OpensLate, CompactionKnows
  <2>6. ASSUME NEW q \in Requests, q # p
        PROVE  ~OpensLate(q)' /\ CompactionKnows(q)'
    <3>1. ~OpensLate(q)'
      BY <1>0, <1>2, <2>6 DEF ChainInv, OpensLate, Live
    <3>2. PICK c, t : c = proc[q].bot /\ t = proc[q].seg
      OBVIOUS
    <3>3. ASSUME proc[q].kind = "compact", proc[q].pc \in {"list", "check", "summary", "seal"}
          PROVE  /\ t \in SegmentsOf(c)' /\ segments'[t].idx = proc[q].idx
                 /\ proc[q].pc = "seal" /\ segments'[t].open => proc[q].sum = LatestSummary(c)'
      <4>1. /\ t \in SegmentsOf(c) /\ segments[t].idx = proc[q].idx
            /\ proc[q].pc = "seal" /\ segments[t].open => proc[q].sum = LatestSummary(c)
        BY <3>2, <3>3 DEF ChainInv, CompactionKnows
      <4>2. t \in SegmentsOf(c)' /\ segments'[t].idx = proc[q].idx
        BY <2>2, <4>1 DEF SealedNow, SegmentsOf
      <4>3. CASE t = s
        BY <2>2, <4>2, <4>3 DEF SealedNow
      <4>4. CASE c = b /\ t # s
        <5>1. ~segments[t].open /\ segments'[t] = segments[t]
          BY <2>2, <4>1, <4>4 DEF SealedNow, OpenSegments, SegmentsOf
        <5> QED
          BY <4>2, <5>1
      <4>5. CASE c # b
        <5>1. s[1] = b /\ <<b, serial + 1>>[1] = b
          BY <2>2 DEF SealedNow, SegmentsOf
        <5>2. SegmentsOf(c)' = SegmentsOf(c) /\ \A k \in SegmentsOf(c) : segments'[k] = segments[k]
          BY <2>2, <4>5, <5>1 DEF SealedNow, SegmentsOf
        <5>3. LatestSummary(c)' = LatestSummary(c)
          BY <5>2 DEF LatestSummary, OpenSegments, Newest
        <5> QED
          BY <4>1, <4>2, <5>2, <5>3
      <4> QED
        BY <4>3, <4>4, <4>5
    <3>4. CompactionKnows(q)'
      BY <1>0, <2>6, <3>2, <3>3 DEF CompactionKnows
    <3> QED
      BY <3>1, <3>4
  <2> QED
    BY <2>4, <2>5, <2>6 DEF ChainInv
<1> QED
  BY <1>1, <1>2, SegmentsMove

LEMMA ChainInvHolds ==
    ASSUME Kinds \cap {"create", "delete"} = {}
    PROVE  Spec => [](TypeOK /\ ChainInv)
<1>1. Init => ChainInv
  <2> SUFFICES ASSUME Init PROVE ChainInv
    OBVIOUS
  <2>1. DOMAIN segments = {<<b, 0>> : b \in FirstBots} /\ serial = 0
        /\ \A s \in DOMAIN segments : segments[s] = FreshSegment(0)
    BY DEF Init
  <2>2. \A b \in Bots : Live(b) <=> b \in FirstBots
    BY DEF Init, Live
  <2>3. SegmentsKnown
    BY <2>1, <2>2, FirstBotsExist DEF SegmentsKnown
  <2>4. ASSUME NEW b \in Bots, Live(b)
        PROVE  Chained(b)
    <3> DEFINE o == <<b, 0>>
    <3>1. SegmentsOf(b) = {o}
      BY <2>1, <2>2, <2>4 DEF SegmentsOf
    <3>2. o \in DOMAIN segments /\ segments[o].idx = 0 /\ segments[o].open
      BY <2>1, <2>2, <2>4 DEF FreshSegment
    <3> HIDE DEF o
    <3>3. OpenSegments(b) = {o}
      BY <3>1, <3>2 DEF OpenSegments
    <3> QED
      BY <3>1, <3>2, <3>3 DEF Chained
  <2>5. SummariesAccumulate
    BY <2>1 DEF SummariesAccumulate, Sealed, SegmentsOf, FreshSegment
  <2>6. \A p \in Requests : ~OpensLate(p) /\ CompactionKnows(p)
    BY DEF Init, NewRequest, OpensLate, CompactionKnows
  <2> QED
    BY <2>3, <2>4, <2>5, <2>6 DEF ChainInv
<1>2. TypeOK /\ SlotInv /\ ChainInv /\ [Next]_vars => ChainInv'
  <2> SUFFICES ASSUME TypeOK, SlotInv, ChainInv, [Next]_vars
               PROVE  ChainInv'
    OBVIOUS
  <2>1. ASSUME NEW p \in Requests, Request(p) \/ Step(p)
        PROVE  ChainInv'
    BY <2>1, ChainStep
  <2>2. ASSUME UNCHANGED <<bots, segments>>, serial' \in {serial, serial + 1},
               \A p \in Requests : proc'[p] = proc[p] \/ proc'[p].pc = "done"
        PROVE  ChainInv'
    <3>1. SegmentsKnown'
      <4>1. \A s \in DOMAIN segments : s[2] \in Nat
        BY SegmentTypes DEF SegmentIds
      <4>2. \A s \in DOMAIN segments : s[2] <= serial'
        BY <2>2, <4>1 DEF ChainInv, SegmentsKnown, TypeOK
      <4> QED
        BY <2>2, <4>2 DEF ChainInv, SegmentsKnown, Live
    <3>2. ASSUME NEW c \in Bots
          PROVE  /\ Live(c)' => Chained(c)'
                 /\ \A s, t \in Sealed(c)' :
                       segments'[s].idx < segments'[t].idx => segments'[s].covers \subseteq segments'[t].covers
      BY <2>2 DEF ChainInv, Chained, Live, SegmentsOf, OpenSegments, Sealed, SummariesAccumulate
    <3>3. ASSUME NEW q \in Requests
          PROVE  ~OpensLate(q)' /\ CompactionKnows(q)'
      <4>1. \A c : LatestSummary(c)' = LatestSummary(c) /\ SegmentsOf(c)' = SegmentsOf(c)
        BY <2>2 DEF LatestSummary, OpenSegments, SegmentsOf, Newest
      <4>2. CASE proc'[q] = proc[q]
        BY <2>2, <4>1, <4>2 DEF ChainInv, OpensLate, CompactionKnows, Live
      <4> QED
        BY <2>2, <4>2 DEF OpensLate, CompactionKnows
    <3> QED
      BY <3>1, <3>2, <3>3 DEF ChainInv, SummariesAccumulate
  <2>3. CASE Crash
    BY <2>2, <2>3 DEF Crash, Served, NewRequest
  <2>4. CASE Restart
    <3>1. {b \in Bots : Live(b) /\ SegmentsOf(b) = {}} = {}
      BY DEF ChainInv, Chained
    <3>2. segments' = [s \in DOMAIN segments |-> segments[s]]
      BY <2>4, <3>1 DEF Restart
    <3>3. segments' = segments
      BY <3>2 DEF TypeOK, IsTable
    <3> QED
      BY <2>2, <2>4, <3>3 DEF Restart
  <2>5. CASE UNCHANGED vars
    BY <2>2, <2>5 DEF vars
  <2> QED
    BY <2>1, <2>3, <2>4, <2>5 DEF Next, Quiet
<1>3. Spec => [](TypeOK /\ SlotInv)
  BY SlotInvHolds
<1> QED
  BY <1>1, <1>2, <1>3, PTL DEF Spec

\* Unless bots are created or deleted, the segments of each bot are a chain with its last
\* link open: the index on (bot_id, idx) lets no second seal of a segment through, however
\* many compactions have read it.
THEOREM SegmentsAreAChain ==
    ASSUME Kinds \cap {"create", "delete"} = {}
    PROVE  Spec => []SegmentChain
<1>1. TypeOK /\ ChainInv => SegmentChain
  <2> SUFFICES ASSUME TypeOK, ChainInv, NEW b \in Bots, Live(b)
               PROVE  LET S == SegmentsOf(b)
                      IN  /\ \A s, t \in S : segments[s].idx = segments[t].idx => s = t
                          /\ \A s \in S : segments[s].idx # 0 =>
                                \E t \in S : segments[t].idx = segments[s].idx - 1
                          /\ OpenSegments(b) = Newest(S)
                          /\ S # {}
    BY DEF SegmentChain
  <2>1. Chained(b) /\ \A s \in SegmentsOf(b) : segments[s].idx \in Nat
    BY SegmentTypes DEF ChainInv, SegmentsOf
  <2>2. ASSUME NEW s \in SegmentsOf(b), segments[s].idx # 0
        PROVE  \E t \in SegmentsOf(b) : segments[t].idx = segments[s].idx - 1
    <3>1. segments[s].idx - 1 \in 0..segments[s].idx
      BY <2>1, <2>2
    <3> QED
      BY <2>1, <3>1 DEF Chained
  <2>3. PICK o \in SegmentsOf(b) :
           OpenSegments(b) = {o} /\ \A s \in SegmentsOf(b) : segments[s].idx <= segments[o].idx
    BY <2>1 DEF Chained
  <2>4. \A s \in SegmentsOf(b) : segments[o].idx <= segments[s].idx => s = o
    BY <2>1, <2>3 DEF Chained
  <2>5. Newest(SegmentsOf(b)) = {o}
    BY <2>3, <2>4 DEF Newest
  <2> QED
    BY <2>1, <2>2, <2>3, <2>5 DEF Chained
<1> QED
  BY <1>1, ChainInvHolds, PTL

\* So each summary covers what the ones before it cover, although a compaction reads the
\* latest of them long before it seals.
THEOREM SummariesAreCumulative ==
    ASSUME Kinds \cap {"create", "delete"} = {}
    PROVE  Spec => []SummariesAccumulate
<1>1. ChainInv => SummariesAccumulate
  BY DEF ChainInv
<1> QED
  BY <1>1, ChainInvHolds, PTL
=============================================================================
