-------------------------- MODULE ServeAsyncProofs --------------------------
(***************************************************************************)
(* What ServeAsync guarantees for any number of dispatchers, any tasks and *)
(* any capacity of the two queues.                                         *)
(***************************************************************************)
EXTENDS ServeAsync, FiniteSetTheorems, SequenceTheorems, TLAPS

-----------------------------------------------------------------------------
(* The bounded queue's operations.                                         *)

Queue(S) == [items : Seq(S), unfinished : Nat, closed : BOOLEAN]

Before == {p \in Nat \X Nat : p[1] < p[2]}

\* The Min that SelectInSeq takes is one of the positions.
LEMMA MinPosition == ASSUME NEW I \in SUBSET Nat, I # {} PROVE Min(I) \in I
<1>1. IsWellFoundedOn(Before, Nat)
  BY NatLessThanWellFounded DEF OpToRel, Before
<1>2. PICK m \in I : \A k \in I : ~ (<<k, m>> \in Before)
  BY <1>1, WFMin, Zenon
<1>3. \A k \in I : ~ (k < m)
  BY <1>2 DEF Before
<1>4. \A k \in I : m <= k
  BY <1>3
<1> QED
  BY <1>4 DEF Min

\* _find_key: 0, or the position of an item with the key.
LEMMA FindKeyFinds ==
    ASSUME NEW S, NEW q \in Queue(S), NEW key
    PROVE  \/ FindKey(q, key) = 0 /\ \A i \in DOMAIN q.items : q.items[i].key # key
           \/ /\ FindKey(q, key) \in DOMAIN q.items
              /\ q.items[FindKey(q, key)].key = key
<1> DEFINE I == {i \in 1 .. Len(q.items) : q.items[i].key = key}
<1>1. q.items \in Seq(S) /\ Len(q.items) \in Nat /\ DOMAIN q.items = 1 .. Len(q.items)
  BY DEF Queue
<1>2. FindKey(q, key) = IF I # {} THEN Min(I) ELSE 0
  BY DEF FindKey, SelectInSeq
<1>3. I # {} => Min(I) \in I
  <2>1. I \in SUBSET Nat
    BY <1>1
  <2> QED
    BY <2>1, MinPosition
<1>4. CASE I = {}
  BY <1>1, <1>2, <1>4
<1>5. CASE I # {}
  BY <1>1, <1>2, <1>3, <1>5
<1> QED
  BY <1>4, <1>5

\* What popleft leaves, and where the last item of the queue then is.
LEMMA TailEnds ==
    ASSUME NEW S, NEW s \in Seq(S), s # <<>>
    PROVE  /\ Len(s) \in Nat \ {0} /\ Head(s) = s[1]
           /\ Len(Tail(s)) = Len(s) - 1
           /\ Len(s) = 1 => Tail(s) = <<>>
           /\ Len(s) # 1 => Tail(s) # <<>> /\ Tail(s)[Len(s) - 1] = s[Len(s)]
<1>1. Len(s) \in Nat \ {0}
  BY EmptySeq, Zenon
<1>2. /\ Tail(s) \in Seq(S) /\ Len(Tail(s)) = Len(s) - 1
      /\ \A i \in 1 .. Len(Tail(s)) : Tail(s)[i] = s[i + 1]
  BY HeadTailProperties, Zenon
<1>3. Head(s) = s[1]
  OBVIOUS
<1>4. ASSUME Len(s) = 1 PROVE Tail(s) = <<>>
  <2> SUFFICES ASSUME Tail(s) # <<>> PROVE FALSE
    OBVIOUS
  <2>1. Len(Tail(s)) \in Nat \ {0}
    BY <1>2, EmptySeq, Zenon
  <2> QED
    BY <1>2, <1>4, <2>1
<1>5. ASSUME Len(s) # 1 PROVE Tail(s) # <<>> /\ Tail(s)[Len(s) - 1] = s[Len(s)]
  <2>1. Len(s) - 1 \in 1 .. Len(Tail(s)) /\ (Len(s) - 1) + 1 = Len(s) /\ Len(Tail(s)) # 0
    BY <1>1, <1>2, <1>5
  <2>2. Tail(s) # <<>>
    BY <2>1, EmptySeq, Zenon
  <2> QED
    BY <1>2, <2>1, <2>2
<1> QED
  BY <1>1, <1>2, <1>3, <1>4, <1>5

\* put, once there is room.
LEMMA PutEffect ==
    ASSUME NEW S, NEW q \in Queue(S), NEW item \in S
    PROVE  /\ PutItem(q, item) \in Queue(S)
           /\ PutItem(q, item).items = Append(q.items, item)
           /\ PutItem(q, item).unfinished = q.unfinished + 1
           /\ PutItem(q, item).closed = q.closed
<1>1. q.items \in Seq(S) /\ q.unfinished \in Nat
  BY DEF Queue
<1>2. Append(q.items, item) \in Seq(S) /\ q.unfinished + 1 \in Nat
  BY <1>1
<1> QED
  BY <1>2 DEF PutItem, Queue

\* get, once there is an item.
LEMMA PopEffect ==
    ASSUME NEW S, NEW q \in Queue(S), q.items # <<>>
    PROVE  /\ PopItem(q) \in Queue(S)
           /\ PopItem(q).items = Tail(q.items)
           /\ PopItem(q).unfinished = q.unfinished
           /\ PopItem(q).closed = q.closed
<1>1. q.items \in Seq(S)
  BY DEF Queue
<1>2. Tail(q.items) \in Seq(S)
  BY <1>1
<1> QED
  BY <1>2 DEF PopItem, Queue

\* task_done of an item that was taken.
LEMMA DoneEffect ==
    ASSUME NEW S, NEW q \in Queue(S), q.unfinished # 0
    PROVE  /\ TaskDone(q) \in Queue(S)
           /\ TaskDone(q).items = q.items
           /\ TaskDone(q).unfinished = q.unfinished - 1
           /\ TaskDone(q).closed = q.closed
BY DEF TaskDone, Queue

\* close.
LEMMA CloseEffect ==
    ASSUME NEW S, NEW q \in Queue(S)
    PROVE  /\ CloseQueue(q) \in Queue(S)
           /\ CloseQueue(q).items = q.items
           /\ CloseQueue(q).unfinished = q.unfinished
BY DEF CloseQueue, Queue

\* A put that replaces the queued item of its key.
LEMMA CoalesceEffect ==
    ASSUME NEW S, NEW q \in Queue(S), NEW item \in S, FindKey(q, item.key) # 0
    PROVE  /\ Coalesce(q, item) \in Queue(S)
           /\ Coalesce(q, item).items = [q.items EXCEPT ![FindKey(q, item.key)] = item]
           /\ Len(Coalesce(q, item).items) = Len(q.items)
           /\ Coalesce(q, item).unfinished = q.unfinished
           /\ Coalesce(q, item).closed = q.closed
<1>1. FindKey(q, item.key) \in DOMAIN q.items
  BY FindKeyFinds
<1>2. q.items \in Seq(S)
  BY DEF Queue
<1>3. /\ [q.items EXCEPT ![FindKey(q, item.key)] = item] \in Seq(S)
      /\ Len([q.items EXCEPT ![FindKey(q, item.key)] = item]) = Len(q.items)
  BY <1>1, <1>2
<1> QED
  BY <1>3 DEF Coalesce, Queue

-----------------------------------------------------------------------------
(* The inductive invariant.                                                *)

Values == {"none", "idle", "running", "ended", "stopped"}
Candidate == [key : Tasks, value : {"candidate"}]
Report == [key : ReportKeys, value : Values]

Busy == {"claim", "report_running", "wait_running", "run", "report_outcome", "wait_outcome"}
Closing == {"close", "await_writer", "exit"}

\* The stages and their queue.  The stop flag needs no type.
StageType ==
    /\ ingest \in {"discover", "put", "done", "failed"}
    /\ batch \in Seq(Tasks)
    /\ ingest = "put" => batch # <<>>
    /\ ingestQ \in Queue(Candidate)
    /\ dispatch \in [Dispatchers -> Busy \cup {"get", "done", "failed"}]
    /\ current \in [Dispatchers -> Tasks \cup {NoTask}]
    /\ \A d \in Dispatchers : current[d] # NoTask <=> dispatch[d] \in Busy

\* The reports, their queue and their writer.
ReportType ==
    /\ reportQ \in Queue(Report)
    /\ writer \in {"get", "writing", "done", "failed"}
    /\ payload \in Report
    /\ main \in {"ingest", "gather", "report", "wait_report", "raised"} \cup Closing
    /\ reported \in [ReportKeys -> Values]

TypeOK == StageType /\ ReportType

Held == {d \in Dispatchers : current[d] # NoTask}

\* The two halves of QueuesAccountForWork.
IngestAccount ==
    /\ Len(ingestQ.items) <= IngestCapacity
    /\ ingestQ.unfinished = Len(ingestQ.items) + Cardinality(Held)

ReportAccount ==
    /\ Len(reportQ.items) <= ReportCapacity
    /\ reportQ.unfinished = Len(reportQ.items) + (IF writer = "writing" THEN 1 ELSE 0)

\* The last state reported of key k is on its way to the file.
Pending(k) ==
    LET last == [key |-> k, value |-> reported[k]] IN
    \/ \E i \in DOMAIN reportQ.items : reportQ.items[i] = last
    \/ writer = "writing" /\ payload = last

\* What the file will say once the queue is worked off.
LastWord ==
    IF reportQ.items = <<>> THEN payload ELSE reportQ.items[Len(reportQ.items)]

\* Stages end in order: nobody reports once main does, and main closes the queue
\* behind its own report, which is the last.
ShutdownInv ==
    /\ main \in {"report", "wait_report"} \cup Closing => \A d \in Dispatchers : dispatch[d] = "done"
    /\ reportQ.closed => main \in {"await_writer", "exit", "raised"}
    /\ writer = "done" => reportQ.closed /\ reportQ.items = <<>>
    /\ main = "exit" => writer = "done"
    /\ main \notin Closing \cup {"raised"} =>
           \A i \in DOMAIN reportQ.items : reportQ.items[i].key # StatusKey
    /\ main \in Closing => LastWord = StoppedReport

FlushInv == writer # "failed" => \A k \in unwritten : k \in ReportKeys /\ Pending(k)

PipelineInv == TypeOK /\ IngestAccount /\ ReportAccount /\ ShutdownInv /\ FlushInv

\* What a report does to its queue, whether it coalesces or is appended.
LEMMA SendEffect ==
    ASSUME ReportType, NEW r \in Report, SendReport(r) \/ SendWaiting(r)
    PROVE  /\ reportQ' \in Queue(Report)
           /\ reportQ'.closed = reportQ.closed
           /\ \/ /\ Len(reportQ'.items) = Len(reportQ.items)
                 /\ reportQ'.unfinished = reportQ.unfinished
              \/ /\ Len(reportQ.items) < ReportCapacity
                 /\ Len(reportQ'.items) = Len(reportQ.items) + 1
                 /\ reportQ'.unfinished = reportQ.unfinished + 1
           /\ \E i \in DOMAIN reportQ'.items : reportQ'.items[i] = r
           /\ \A i \in DOMAIN reportQ.items : reportQ.items[i].key # r.key =>
                  i \in DOMAIN reportQ'.items /\ reportQ'.items[i] = reportQ.items[i]
           /\ \A i \in DOMAIN reportQ'.items : reportQ'.items[i].key # r.key =>
                  i \in DOMAIN reportQ.items /\ reportQ'.items[i] = reportQ.items[i]
           /\ (\A i \in DOMAIN reportQ.items : reportQ.items[i].key # r.key) =>
                  reportQ'.items = Append(reportQ.items, r)
           /\ reported' = [reported EXCEPT ![r.key] = r.value]
           /\ unwritten' = unwritten \cup {r.key}
           /\ UNCHANGED <<writer, payload>>
<1> DEFINE q == reportQ  items == reportQ.items
<1>0. /\ q \in Queue(Report) /\ items \in Seq(Report)
      /\ Len(items) \in Nat /\ DOMAIN items = 1 .. Len(items)
  BY DEF ReportType, Queue
<1>1. CASE Sent(r, PutItem(q, r)) /\ ~IsFull(q, ReportCapacity)
  <2>1. /\ q' \in Queue(Report) /\ q'.closed = q.closed
        /\ q'.items = Append(items, r) /\ q'.unfinished = q.unfinished + 1
    BY <1>0, <1>1, PutEffect DEF Sent
  <2>2. /\ Len(q'.items) = Len(items) + 1 /\ DOMAIN q'.items = 1 .. Len(items) + 1
        /\ q'.items[Len(items) + 1] = r
        /\ \A i \in DOMAIN items : q'.items[i] = items[i]
    BY <1>0, <2>1
  <2>3. Len(items) < ReportCapacity
    BY <1>0, <1>1, PipelineAssumption DEF IsFull
  <2>4. Len(items) + 1 \in DOMAIN q'.items /\ q'.items[Len(items) + 1] = r
    BY <1>0, <2>2
  <2>5. \A i \in DOMAIN q'.items : q'.items[i].key # r.key => i \in DOMAIN items
    BY <1>0, <2>2
  <2>6. \A i \in DOMAIN items : i \in DOMAIN q'.items
    BY <1>0, <2>2
  <2> QED
    BY <1>1, <2>1, <2>2, <2>3, <2>4, <2>5, <2>6 DEF Sent
<1>2. CASE Sent(r, Coalesce(q, r)) /\ FindKey(q, r.key) # 0
  <2> DEFINE n == FindKey(q, r.key)
  <2>1. n \in DOMAIN items /\ items[n].key = r.key
    BY <1>0, <1>2, FindKeyFinds
  <2>2. /\ q' \in Queue(Report) /\ q'.closed = q.closed /\ q'.unfinished = q.unfinished
        /\ q'.items = [items EXCEPT ![n] = r] /\ Len(q'.items) = Len(items)
    BY <1>0, <1>2, CoalesceEffect DEF Sent
  <2>3. DOMAIN q'.items = DOMAIN items /\ q'.items[n] = r
        /\ \A i \in DOMAIN items : i # n => q'.items[i] = items[i]
    BY <1>0, <2>1, <2>2
  <2> QED
    BY <1>2, <2>1, <2>2, <2>3 DEF Sent
<1> QED
  BY <1>1, <1>2 DEF SendReport, SendWaiting, MayCoalesce

-----------------------------------------------------------------------------
\* The initial states.
LEMMA PipelineInit == Init => PipelineInv
<1> SUFFICES ASSUME Init PROVE PipelineInv
  OBVIOUS
<1> USE PipelineAssumption DEF Init, EmptyQueue
<1>1. /\ ingestQ \in Queue(Candidate) /\ reportQ \in Queue(Report)
      /\ ingestQ.items = <<>> /\ ingestQ.unfinished = 0
      /\ reportQ.items = <<>> /\ reportQ.unfinished = 1 /\ reportQ.closed = FALSE
  <2>1. <<>> \in Seq(Candidate) /\ <<>> \in Seq(Report) /\ 0 \in Nat /\ 1 \in Nat
    OBVIOUS
  <2> QED
    BY <2>1 DEF Queue
<1>2. StageType
  BY <1>1 DEF StageType, Busy
<1>3. ReportType
  BY <1>1 DEF ReportType, Report, ReportKeys, Values, Closing
<1>4. Held = {} /\ Cardinality(Held) = 0
  BY FS_EmptySet DEF Held
<1>5. IngestAccount /\ ReportAccount
  BY <1>1, <1>4 DEF IngestAccount, ReportAccount
<1>6. ShutdownInv
  BY <1>1 DEF ShutdownInv, Closing
<1>7. FlushInv
  BY DEF FlushInv, Pending, ReportKeys
<1> QED
  BY <1>2, <1>3, <1>5, <1>6, <1>7 DEF PipelineInv, TypeOK

\* Counting the dispatchers that hold a candidate.
LEMMA HeldCount ==
    /\ IsFiniteSet(Held) /\ Cardinality(Held) \in Nat
    /\ \A d \in Held : Cardinality(Held \ {d}) = Cardinality(Held) - 1 /\ Cardinality(Held) # 0
    /\ \A d \in Dispatchers : d \notin Held => Cardinality(Held \cup {d}) = Cardinality(Held) + 1
<1>1. IsFiniteSet(Held) /\ Cardinality(Held) \in Nat
  BY PipelineAssumption, FS_Subset, FS_CardinalityType DEF Held
<1>2. \A d \in Held : Cardinality(Held \ {d}) = Cardinality(Held) - 1
  BY <1>1, FS_RemoveElement
<1>3. \A d \in Held : Cardinality(Held) # 0
  BY <1>1, FS_EmptySet
<1>4. \A d \in Dispatchers : d \notin Held => Cardinality(Held \cup {d}) = Cardinality(Held) + 1
  BY <1>1, FS_AddElement
<1> QED
  BY <1>1, <1>2, <1>3, <1>4

\* task_done in a dispatcher's finally.
LEMMA ReleaseEffect ==
    ASSUME StageType, IngestAccount, NEW d \in Dispatchers, dispatch[d] \in Busy,
           NEW position \in {"get", "failed"}, Release(d, position), UNCHANGED <<ingest, batch>>
    PROVE  StageType' /\ IngestAccount'
<1>1. ingestQ.items \in Seq(Candidate) /\ Len(ingestQ.items) \in Nat
  BY DEF StageType, Queue
<1>2. d \in Held
  BY DEF StageType, Held
<1>3. ingestQ.unfinished # 0
  <2>1. Cardinality(Held) \in Nat /\ Cardinality(Held) # 0
    BY <1>2, HeldCount, Zenon
  <2> QED
    BY <1>1, <2>1 DEF IngestAccount
<1>4. /\ ingestQ' \in Queue(Candidate) /\ ingestQ'.items = ingestQ.items
      /\ ingestQ'.unfinished = ingestQ.unfinished - 1
  BY <1>3, DoneEffect DEF StageType, Release
<1>5. StageType'
  BY <1>4 DEF StageType, Release, Move, Busy
<1>6. Held' = Held \ {d}
  BY DEF Held, Release, StageType
<1>7. Cardinality(Held') = Cardinality(Held) - 1 /\ Cardinality(Held) \in Nat
  BY <1>2, <1>6, HeldCount
<1>8. IngestAccount'
  BY <1>1, <1>4, <1>7 DEF IngestAccount
<1> QED
  BY <1>5, <1>8

\* A dispatcher moves on with the candidate it has.
LEMMA MoveEffect ==
    ASSUME StageType, IngestAccount, NEW d \in Dispatchers, dispatch[d] \in Busy,
           NEW position \in Busy, Move(d, position), UNCHANGED <<ingest, batch, ingestQ, current>>
    PROVE  StageType' /\ IngestAccount'
<1>1. StageType'
  BY DEF StageType, Move, Busy
<1> QED
  BY <1>1 DEF IngestAccount, Held

\* Every step keeps the stages well typed and the ingest queue accounted for.
LEMMA StageStep ==
    StageType /\ IngestAccount /\ [Next]_vars => StageType' /\ IngestAccount'
<1> SUFFICES ASSUME StageType, IngestAccount, [Next]_vars PROVE StageType' /\ IngestAccount'
  OBVIOUS
<1>0. /\ ingestQ \in Queue(Candidate) /\ ingestQ.items \in Seq(Candidate)
      /\ Len(ingestQ.items) \in Nat
  BY DEF StageType, Queue
<1>1. ASSUME NEW how \in {"done", "failed"}, EndIngest(how) PROVE StageType' /\ IngestAccount'
  <2>1. /\ ingestQ' \in Queue(Candidate) /\ ingestQ'.items = ingestQ.items
        /\ ingestQ'.unfinished = ingestQ.unfinished
    BY <1>0, <1>1, CloseEffect DEF EndIngest
  <2>2. batch' \in Seq(Tasks)
    BY <1>1 DEF EndIngest
  <2>3. StageType'
    BY <1>1, <2>1, <2>2 DEF EndIngest, StageType
  <2> QED
    BY <1>1, <2>1, <2>3 DEF EndIngest, IngestAccount, Held
<1>2. CASE Discover
  <2>1. Cardinality(Dispatchers) \in Nat
    BY PipelineAssumption, FS_CardinalityType
  <2>2. batch' \in Seq(Tasks)
    BY <1>2, <2>1 DEF Discover, Discoveries
  <2>3. StageType'
    BY <1>2, <2>2 DEF Discover, StageType
  <2> QED
    BY <1>2, <2>3 DEF Discover, IngestAccount, Held
<1>3. CASE IngestPut
  <2> DEFINE item == [key |-> Head(batch), value |-> "candidate"]
  <2>1. batch \in Seq(Tasks) /\ batch # <<>>
    BY <1>3 DEF IngestPut, StageType
  <2>2. Head(batch) \in Tasks /\ Tail(batch) \in Seq(Tasks)
    BY <2>1
  <2>3. item \in Candidate
    BY <2>2 DEF Candidate
  <2>4. /\ ingestQ' \in Queue(Candidate) /\ ingestQ'.items = Append(ingestQ.items, item)
        /\ ingestQ'.unfinished = ingestQ.unfinished + 1
    BY <1>0, <1>3, <2>3, PutEffect DEF IngestPut
  <2>5. Len(ingestQ'.items) = Len(ingestQ.items) + 1
    BY <1>0, <2>3, <2>4
  <2>6. StageType'
    BY <1>3, <2>2, <2>4 DEF IngestPut, StageType
  <2>7. Held' = Held /\ Cardinality(Held) \in Nat
    BY <1>3, HeldCount DEF IngestPut, Held
  <2>8. IngestAccount'
    BY <1>0, <1>3, <2>4, <2>5, <2>7, PipelineAssumption DEF IngestPut, IsFull, IngestAccount
  <2> QED
    BY <2>6, <2>8
<1>4. ASSUME NEW d \in Dispatchers, DispatchGet(d) PROVE StageType' /\ IngestAccount'
  <2>1. CASE /\ ingestQ.items # <<>>
             /\ current' = [current EXCEPT ![d] = Head(ingestQ.items).key]
             /\ ingestQ' = PopItem(ingestQ)
             /\ Move(d, "claim")
    <3>1. Head(ingestQ.items) \in Candidate
      BY <1>0, <2>1
    <3>2. Head(ingestQ.items).key \in Tasks /\ Head(ingestQ.items).key # NoTask
      BY <3>1, PipelineAssumption DEF Candidate
    <3>3. /\ ingestQ' \in Queue(Candidate) /\ ingestQ'.items = Tail(ingestQ.items)
          /\ ingestQ'.unfinished = ingestQ.unfinished
      BY <1>0, <2>1, PopEffect
    <3>4. Len(ingestQ'.items) = Len(ingestQ.items) - 1
      BY <1>0, <2>1, <3>3
    <3>5. StageType'
      BY <1>4, <2>1, <3>2, <3>3 DEF DispatchGet, StageType, Move, Busy
    <3>6. d \notin Held /\ Held' = Held \cup {d}
      BY <1>4, <2>1, <3>2 DEF DispatchGet, Held, StageType, Busy
    <3>7. Cardinality(Held') = Cardinality(Held) + 1 /\ Cardinality(Held) \in Nat
      BY <3>6, HeldCount
    <3>8. IngestAccount'
      BY <1>0, <3>3, <3>4, <3>7, PipelineAssumption DEF IngestAccount
    <3> QED
      BY <3>5, <3>8
  <2>2. CASE Move(d, "done") /\ UNCHANGED <<current, ingestQ>>
    <3>1. StageType'
      BY <1>4, <2>2 DEF DispatchGet, StageType, Move, Busy
    <3> QED
      BY <2>2, <3>1 DEF IngestAccount, Held
  <2> QED
    BY <1>4, <2>1, <2>2 DEF DispatchGet
<1>5. ASSUME NEW d \in Dispatchers, TryClaim(d) \/ RunTask(d) \/ DispatchRaises(d)
      PROVE  StageType' /\ IngestAccount'
  BY <1>5, ReleaseEffect, MoveEffect DEF TryClaim, RunTask, DispatchRaises, Busy
<1>6. ASSUME NEW d \in Dispatchers, ReportRunning(d) PROVE StageType' /\ IngestAccount'
  BY <1>6, MoveEffect DEF ReportRunning, Busy
<1>7. ASSUME NEW d \in Dispatchers, ReportOutcome(d) PROVE StageType' /\ IngestAccount'
  BY <1>7, ReleaseEffect, MoveEffect DEF ReportOutcome, Busy
<1>8. CASE UNCHANGED <<ingest, batch, ingestQ, dispatch, current>>
  <2>1. StageType'
    BY <1>8 DEF StageType
  <2> QED
    BY <1>8, <2>1 DEF IngestAccount, Held
<1> QED
  BY <1>1, <1>2, <1>3, <1>4, <1>5, <1>6, <1>7, <1>8
     DEF Next, Ingest, DiscoverRaises, IngestStops, Dispatch, Writer, WriterGet, WriterWrite, WriterRaises, Main,
         MainAwaitIngest, MainGather, MainReport, MainClose, MainAwaitWriter, Sigterm, stages, vars

\* The reports the stages send.
LEMMA ReportsAreTyped ==
    ASSUME StageType
    PROVE  /\ StoppedReport \in Report
           /\ \A d \in Dispatchers : dispatch[d] \in Busy =>
                  /\ RunningReport(d) \in Report /\ RunningReport(d).key # StatusKey
                  /\ OutcomeReport(d) \in Report /\ OutcomeReport(d).key # StatusKey
<1>1. StoppedReport \in Report
  BY DEF StoppedReport, Report, ReportKeys, Values
<1>2. \A d \in Dispatchers : dispatch[d] \in Busy => current[d] \in Tasks /\ current[d] # StatusKey
  BY PipelineAssumption DEF StageType, StatusKey
<1> QED
  BY <1>1, <1>2 DEF RunningReport, OutcomeReport, Report, ReportKeys, Values

Sends(r) == SendReport(r) \/ SendWaiting(r)

\* A step that changes the reports is a report of a dispatcher at work or of
\* main, the writer's, or main's closing of the queue.
LEMMA ReportSources ==
    ASSUME TypeOK, [Next]_vars
    PROVE  \/ \E d \in Dispatchers : /\ dispatch[d] \in Busy /\ UNCHANGED main /\ main \notin {"exit", "raised"}
                                     /\ Sends(RunningReport(d)) \/ Sends(OutcomeReport(d))
           \/ main \in {"report", "wait_report"} /\ main' = "close" /\ Sends(StoppedReport)
           \/ Writer \/ WriterRaises
           \/ MainClose
           \/ UNCHANGED reports /\ main' \in {main, "gather", "raised", "report", "wait_report"}
                                /\ main \notin Closing \cup {"raised"}
           \/ UNCHANGED reports /\ UNCHANGED main
           \/ MainAwaitWriter
<1>1. ASSUME NEW d \in Dispatchers, ReportRunning(d)
      PROVE  \/ /\ dispatch[d] \in Busy /\ UNCHANGED main /\ main \notin {"exit", "raised"}
                /\ Sends(RunningReport(d))
             \/ UNCHANGED reports /\ UNCHANGED main
  BY <1>1 DEF ReportRunning, Up, Sends, ReportWaits, Busy
<1>2. ASSUME NEW d \in Dispatchers, ReportOutcome(d)
      PROVE  \/ /\ dispatch[d] \in Busy /\ UNCHANGED main /\ main \notin {"exit", "raised"}
                /\ Sends(OutcomeReport(d))
             \/ UNCHANGED reports /\ UNCHANGED main
  BY <1>2 DEF ReportOutcome, Up, Sends, ReportWaits, Busy
<1>3. ASSUME NEW d \in Dispatchers,
             DispatchGet(d) \/ TryClaim(d) \/ RunTask(d) \/ DispatchRaises(d)
      PROVE  UNCHANGED reports /\ UNCHANGED main
  BY <1>3 DEF DispatchGet, TryClaim, RunTask, DispatchRaises
<1>4. CASE Sigterm \/ Ingest \/ DiscoverRaises
  BY <1>4 DEF Sigterm, Ingest, Discover, IngestPut, IngestStops, DiscoverRaises, EndIngest
<1>5. CASE MainAwaitIngest \/ MainGather
  BY <1>5 DEF MainAwaitIngest, MainGather, Closing
<1>6. CASE MainReport
  BY <1>6 DEF MainReport, Sends, ReportWaits, Closing
<1>7. CASE UNCHANGED vars
  BY <1>7 DEF vars
<1> QED
  BY <1>1, <1>2, <1>3, <1>4, <1>5, <1>6, <1>7 DEF Next, Dispatch, Main

\* The writer takes the oldest report.
LEMMA WriterTakes ==
    ASSUME ReportType, WriterGet, reportQ.items # <<>>
    PROVE  /\ reportQ' \in Queue(Report) /\ reportQ'.items = Tail(reportQ.items)
           /\ reportQ'.unfinished = reportQ.unfinished /\ reportQ'.closed = reportQ.closed
           /\ payload' = Head(reportQ.items) /\ payload' \in Report /\ writer' = "writing"
           /\ Len(reportQ'.items) = Len(reportQ.items) - 1
<1>1. reportQ.items \in Seq(Report) /\ Len(reportQ.items) \in Nat
  BY DEF ReportType, Queue
<1>2. /\ payload' = Head(reportQ.items) /\ reportQ' = PopItem(reportQ) /\ writer' = "writing"
  BY DEF WriterGet, Drained
<1>3. /\ reportQ' \in Queue(Report) /\ reportQ'.items = Tail(reportQ.items)
      /\ reportQ'.unfinished = reportQ.unfinished /\ reportQ'.closed = reportQ.closed
  BY <1>2, PopEffect DEF ReportType
<1>4. Head(reportQ.items) \in Report /\ Len(Tail(reportQ.items)) = Len(reportQ.items) - 1
  BY <1>1
<1> QED
  BY <1>2, <1>3, <1>4

\* The writer has written a report, or failed to.
LEMMA WriterDone ==
    ASSUME ReportType, ReportAccount, WriterWrite \/ WriterRaises
    PROVE  /\ reportQ' \in Queue(Report) /\ reportQ'.items = reportQ.items
           /\ reportQ'.unfinished = reportQ.unfinished - 1 /\ reportQ'.closed = reportQ.closed
           /\ writer = "writing" /\ writer' \in {"get", "failed"}
<1>1. Len(reportQ.items) \in Nat
  BY DEF ReportType, Queue
<1>2. writer = "writing" /\ writer' \in {"get", "failed"} /\ reportQ' = TaskDone(reportQ)
  BY DEF WriterWrite, WriterRaises
<1>3. reportQ.unfinished # 0
  BY <1>1, <1>2 DEF ReportAccount
<1> QED
  BY <1>2, <1>3, DoneEffect DEF ReportType

\* Every step keeps the reports well typed and their queue accounted for.
LEMMA ReportStep ==
    TypeOK /\ ReportAccount /\ [Next]_vars => ReportType' /\ ReportAccount'
<1> SUFFICES ASSUME TypeOK, ReportAccount, [Next]_vars PROVE ReportType' /\ ReportAccount'
  OBVIOUS
<1>0. /\ ReportType /\ reportQ.unfinished \in Nat /\ Len(reportQ.items) \in Nat
      /\ ReportCapacity \in Nat
  BY PipelineAssumption DEF TypeOK, ReportType, Queue
<1>1. ASSUME NEW r \in Report, Sends(r), main' \in {main, "close"} PROVE ReportType' /\ ReportAccount'
  <2>1. /\ reportQ' \in Queue(Report)
        /\ reported' = [reported EXCEPT ![r.key] = r.value]
        /\ UNCHANGED <<writer, payload>>
        /\ \/ /\ Len(reportQ'.items) = Len(reportQ.items)
              /\ reportQ'.unfinished = reportQ.unfinished
           \/ /\ Len(reportQ.items) < ReportCapacity
              /\ Len(reportQ'.items) = Len(reportQ.items) + 1
              /\ reportQ'.unfinished = reportQ.unfinished + 1
    BY <1>0, <1>1, SendEffect DEF Sends
  <2>2. r.key \in ReportKeys /\ r.value \in Values
    BY DEF Report
  <2>3. ReportType'
    BY <1>0, <1>1, <2>1, <2>2 DEF ReportType, Closing
  <2>4. ReportAccount'
    <3>1. CASE writer = "writing"
      BY <1>0, <2>1, <3>1 DEF ReportAccount
    <3>2. CASE writer # "writing"
      BY <1>0, <2>1, <3>2 DEF ReportAccount
    <3> QED
      BY <3>1, <3>2
  <2> QED
    BY <2>3, <2>4
<1>2. CASE WriterGet
  <2>1. CASE reportQ.items # <<>>
    <3>1. ReportType'
      BY <1>0, <1>2, <2>1, WriterTakes DEF WriterGet, ReportType
    <3>2. writer = "get" /\ writer' = "writing" /\ reportQ'.unfinished = reportQ.unfinished
          /\ Len(reportQ'.items) = Len(reportQ.items) - 1
      BY <1>0, <1>2, <2>1, WriterTakes DEF WriterGet
    <3>3. ReportAccount'
      BY <1>0, <3>2 DEF ReportAccount
    <3> QED
      BY <3>1, <3>3
  <2>2. CASE reportQ.items = <<>>
    BY <1>0, <1>2, <2>2 DEF WriterGet, ReportType, ReportAccount
  <2> QED
    BY <2>1, <2>2
<1>3. CASE WriterWrite \/ WriterRaises
  <2>1. ReportType'
    BY <1>0, <1>3, WriterDone DEF WriterWrite, WriterRaises, ReportType
  <2>2. writer = "writing" /\ writer' # "writing" /\ reportQ'.items = reportQ.items
        /\ reportQ'.unfinished = reportQ.unfinished - 1
    BY <1>0, <1>3, WriterDone
  <2>3. ReportAccount'
    BY <1>0, <2>2 DEF ReportAccount
  <2> QED
    BY <2>1, <2>3
<1>4. CASE MainClose
  <2>1. /\ reportQ' \in Queue(Report) /\ reportQ'.items = reportQ.items
        /\ reportQ'.unfinished = reportQ.unfinished
    BY <1>0, <1>4, CloseEffect DEF MainClose, ReportType
  <2> QED
    BY <1>0, <1>4, <2>1 DEF MainClose, ReportType, ReportAccount, Closing
<1>5. CASE UNCHANGED reports /\ main' \in {main, "gather", "raised", "report", "wait_report", "exit"}
  BY <1>0, <1>5 DEF reports, ReportType, ReportAccount, Closing
<1>6. CASE \E d \in Dispatchers : /\ dispatch[d] \in Busy /\ UNCHANGED main
                                  /\ Sends(RunningReport(d)) \/ Sends(OutcomeReport(d))
  BY <1>1, <1>6, ReportsAreTyped DEF TypeOK
<1>7. CASE main' = "close" /\ Sends(StoppedReport)
  BY <1>1, <1>7, ReportsAreTyped DEF TypeOK
<1> QED
  BY <1>2, <1>3, <1>4, <1>5, <1>6, <1>7, ReportSources DEF Writer, MainAwaitWriter

\* A dispatcher that is done stays so.
LEMMA DoneForGood ==
    ASSUME StageType, [Next]_vars, NEW d \in Dispatchers, dispatch[d] = "done"
    PROVE  dispatch'[d] = "done"
<1>1. ASSUME NEW e \in Dispatchers, Dispatch(e) \/ DispatchRaises(e) PROVE dispatch'[d] = "done"
  BY <1>1 DEF StageType, Dispatch, DispatchGet, TryClaim, ReportRunning, RunTask, ReportOutcome,
              DispatchRaises, Release, Move
<1>2. CASE UNCHANGED dispatch
  BY <1>2
<1> QED
  BY <1>1, <1>2
     DEF Next, Sigterm, Ingest, Discover, IngestPut, IngestStops, DiscoverRaises, EndIngest, Writer,
         WriterGet, WriterWrite, WriterRaises, Main, MainAwaitIngest, MainGather, MainReport, MainClose,
         MainAwaitWriter, stages, vars

\* Every step keeps the order in which the stages end.
LEMMA ShutdownStep == TypeOK /\ ReportAccount /\ ShutdownInv /\ [Next]_vars => ShutdownInv'
<1> SUFFICES ASSUME TypeOK, ReportAccount, ShutdownInv, [Next]_vars PROVE ShutdownInv'
  OBVIOUS
<1> DEFINE Late == {"report", "wait_report"} \cup Closing
<1>0. /\ ReportType /\ StageType /\ reportQ.items \in Seq(Report)
      /\ Len(reportQ.items) \in Nat /\ DOMAIN reportQ.items = 1 .. Len(reportQ.items)
  BY DEF TypeOK, ReportType, Queue
<1>1. main' \in Late => \A d \in Dispatchers : dispatch'[d] = "done"
  <2>1. main \in Late \/ (\A d \in Dispatchers : dispatch[d] = "done") \/ main' \notin Late
    BY <1>0 DEF Next, Sigterm, Ingest, Discover, IngestPut, IngestStops, DiscoverRaises, EndIngest,
         Dispatch, DispatchGet, TryClaim, ReportRunning, RunTask, ReportOutcome, DispatchRaises,
         Writer, WriterGet, WriterWrite, WriterRaises, Main, MainAwaitIngest, MainGather, MainReport,
         MainClose, MainAwaitWriter, vars, Closing
  <2> QED
    BY <1>0, <2>1, DoneForGood DEF ShutdownInv
<1>2. ASSUME NEW d \in Dispatchers, dispatch[d] \in Busy, UNCHANGED main, NEW r \in Report,
             main \notin {"exit", "raised"}, r.key # StatusKey, Sends(r)
      PROVE  ShutdownInv'
  <2>1. main \notin Late
    BY <1>2 DEF ShutdownInv, Busy
  <2>2. \A i \in DOMAIN reportQ'.items : reportQ'.items[i].key # StatusKey
    <3> TAKE i \in DOMAIN reportQ'.items
    <3>1. reportQ'.items[i].key = r.key \/ (i \in DOMAIN reportQ.items /\ reportQ'.items[i] = reportQ.items[i])
      BY <1>0, <1>2, SendEffect DEF Sends
    <3> QED
      BY <1>2, <2>1, <3>1 DEF ShutdownInv
  <2>3. reportQ'.closed = reportQ.closed /\ UNCHANGED writer
    BY <1>0, <1>2, SendEffect DEF Sends
  <2> QED
    BY <1>1, <1>2, <2>1, <2>2, <2>3 DEF ShutdownInv, Closing
<1>3. CASE main \in {"report", "wait_report"} /\ main' = "close" /\ Sends(StoppedReport)
  <2>1. /\ StoppedReport \in Report /\ StoppedReport.key = StatusKey
        /\ \A i \in DOMAIN reportQ.items : reportQ.items[i].key # StatusKey
    BY <1>0, <1>3, ReportsAreTyped DEF ShutdownInv, Closing, StoppedReport
  <2>2. /\ reportQ'.items = Append(reportQ.items, StoppedReport)
        /\ reportQ'.closed = reportQ.closed /\ UNCHANGED writer
    BY <1>0, <1>3, <2>1, SendEffect DEF Sends
  <2>3. LastWord' = StoppedReport
    <3>1. /\ reportQ'.items # <<>> /\ Len(reportQ'.items) = Len(reportQ.items) + 1
          /\ reportQ'.items[Len(reportQ.items) + 1] = StoppedReport
      BY <1>0, <2>1, <2>2
    <3> QED
      BY <3>1 DEF LastWord
  <2> QED
    BY <1>1, <1>3, <2>2, <2>3 DEF ShutdownInv, Closing
<1>4. CASE WriterGet
  <2>1. CASE reportQ.items # <<>>
    <3>1. /\ reportQ'.items = Tail(reportQ.items) /\ reportQ'.closed = reportQ.closed
          /\ payload' = Head(reportQ.items) /\ writer' = "writing" /\ UNCHANGED main
      BY <1>0, <1>4, <2>1, WriterTakes DEF WriterGet
    <3>2. main \notin Closing \cup {"raised"} =>
              \A i \in DOMAIN reportQ'.items : reportQ'.items[i].key # StatusKey
      <4>1. \A i \in DOMAIN reportQ'.items : i + 1 \in DOMAIN reportQ.items
                                             /\ reportQ'.items[i] = reportQ.items[i + 1]
        BY <1>0, <2>1, <3>1
      <4> QED
        BY <4>1 DEF ShutdownInv
    <3>3. LastWord' = LastWord
      <4>1. /\ Head(reportQ.items) = reportQ.items[1]
            /\ Len(Tail(reportQ.items)) = Len(reportQ.items) - 1
            /\ Len(reportQ.items) = 1 => Tail(reportQ.items) = <<>>
            /\ Len(reportQ.items) # 1 =>
                  /\ Tail(reportQ.items) # <<>>
                  /\ Tail(reportQ.items)[Len(reportQ.items) - 1] = reportQ.items[Len(reportQ.items)]
        BY <1>0, <2>1, TailEnds, Zenon
      <4>2. CASE Len(reportQ.items) = 1
        BY <2>1, <3>1, <4>1, <4>2 DEF LastWord
      <4>3. CASE Len(reportQ.items) # 1
        BY <2>1, <3>1, <4>1, <4>3 DEF LastWord
      <4> QED
        BY <4>2, <4>3
    <3>4. main # "exit"
      BY <1>4 DEF WriterGet, Up
    <3> QED
      BY <1>1, <3>1, <3>2, <3>3, <3>4 DEF ShutdownInv
  <2>2. CASE reportQ.items = <<>>
    BY <1>1, <1>4, <2>2 DEF WriterGet, Drained, ShutdownInv, LastWord, Up
  <2> QED
    BY <2>1, <2>2
<1>5. CASE WriterWrite \/ WriterRaises
  <2>1. /\ reportQ'.items = reportQ.items /\ reportQ'.closed = reportQ.closed
        /\ writer' # "done" /\ main # "exit" /\ UNCHANGED <<main, payload>>
    BY <1>0, <1>5, WriterDone DEF WriterWrite, WriterRaises, Up
  <2> QED
    BY <1>1, <2>1 DEF ShutdownInv, LastWord
<1>6. CASE MainClose
  <2>1. reportQ'.items = reportQ.items
    BY <1>0, <1>6, CloseEffect DEF MainClose, ReportType
  <2> QED
    BY <1>1, <1>6, <2>1 DEF MainClose, ShutdownInv, LastWord, Closing
<1>7. CASE UNCHANGED reports /\ main \notin Closing \cup {"raised"}
           /\ main' \in {main, "gather", "raised", "report", "wait_report"}
  BY <1>1, <1>7 DEF reports, ShutdownInv, Closing
<1>8. CASE UNCHANGED reports /\ UNCHANGED main
  BY <1>1, <1>8 DEF reports, ShutdownInv, LastWord
<1>9. CASE MainAwaitWriter
  BY <1>1, <1>9 DEF MainAwaitWriter, reports, ShutdownInv, LastWord, Closing
<1> QED
  BY <1>0, <1>2, <1>3, <1>4, <1>5, <1>6, <1>7, <1>8, <1>9, ReportSources, ReportsAreTyped
     DEF Writer

\* Every step keeps the news of every unwritten key on its way.
LEMMA FlushStep == TypeOK /\ ReportAccount /\ FlushInv /\ [Next]_vars => FlushInv'
<1> SUFFICES ASSUME TypeOK, ReportAccount, FlushInv, [Next]_vars PROVE FlushInv'
  OBVIOUS
<1>0. /\ ReportType /\ StageType /\ reportQ.items \in Seq(Report)
      /\ Len(reportQ.items) \in Nat /\ DOMAIN reportQ.items = 1 .. Len(reportQ.items)
  BY DEF TypeOK, ReportType, Queue
<1>1. ASSUME NEW r \in Report, Sends(r) PROVE FlushInv'
  <2> SUFFICES ASSUME writer' # "failed", NEW k \in unwritten' PROVE k \in ReportKeys /\ Pending(k)'
    BY DEF FlushInv
  <2>1. /\ reported' = [reported EXCEPT ![r.key] = r.value]
        /\ unwritten' = unwritten \cup {r.key} /\ UNCHANGED <<writer, payload>>
        /\ \E i \in DOMAIN reportQ'.items : reportQ'.items[i] = r
        /\ \A i \in DOMAIN reportQ.items : reportQ.items[i].key # r.key =>
               i \in DOMAIN reportQ'.items /\ reportQ'.items[i] = reportQ.items[i]
    BY <1>0, <1>1, SendEffect DEF Sends
  <2>2. r.key \in ReportKeys /\ r = [key |-> r.key, value |-> r.value]
    BY DEF Report
  <2>3. CASE k = r.key
    <3>1. reported'[k] = r.value
      BY <1>0, <2>1, <2>2, <2>3 DEF ReportType
    <3> QED
      BY <2>1, <2>2, <2>3, <3>1 DEF Pending
  <2>4. CASE k # r.key
    <3>1. k \in ReportKeys /\ Pending(k) /\ reported'[k] = reported[k]
      BY <1>0, <2>1, <2>4 DEF ReportType, FlushInv
    <3> QED
      BY <2>1, <2>4, <3>1 DEF Pending
  <2> QED
    BY <2>3, <2>4
<1>2. CASE WriterGet
  <2> SUFFICES ASSUME writer' # "failed", NEW k \in unwritten' PROVE k \in ReportKeys /\ Pending(k)'
    BY DEF FlushInv
  <2>0. /\ k \in unwritten /\ k \in ReportKeys /\ Pending(k) /\ UNCHANGED reported
        /\ writer = "get"
    BY <1>2 DEF WriterGet, FlushInv
  <2>1. PICK i \in DOMAIN reportQ.items : reportQ.items[i] = [key |-> k, value |-> reported[k]]
    BY <2>0 DEF Pending
  <2>2. /\ reportQ'.items = Tail(reportQ.items)
        /\ payload' = Head(reportQ.items) /\ writer' = "writing"
    BY <1>0, <1>2, <2>1, WriterTakes
  <2>3. CASE i = 1
    <3>1. Head(reportQ.items) = reportQ.items[1]
      BY <1>0, <2>1
    <3> QED
      BY <2>0, <2>1, <2>2, <2>3, <3>1 DEF Pending
  <2>4. CASE i # 1
    <3>1. i - 1 \in DOMAIN reportQ'.items /\ reportQ'.items[i - 1] = reportQ.items[i]
      BY <1>0, <2>1, <2>2, <2>4
    <3> QED
      BY <2>0, <2>1, <3>1 DEF Pending
  <2> QED
    BY <2>3, <2>4
<1>3. CASE WriterWrite
  <2> SUFFICES ASSUME writer' # "failed", NEW k \in unwritten' PROVE k \in ReportKeys /\ Pending(k)'
    BY DEF FlushInv
  <2>1. /\ reportQ'.items = reportQ.items /\ UNCHANGED reported
        /\ k \in unwritten /\ ~(payload.key = k /\ payload.value = reported[k])
    BY <1>0, <1>3, WriterDone DEF WriterWrite
  <2>2. payload # [key |-> k, value |-> reported[k]]
    BY <2>1
  <2> QED
    BY <1>3, <2>1, <2>2 DEF WriterWrite, FlushInv, Pending
<1>r. CASE WriterRaises
  BY <1>r DEF WriterRaises, FlushInv
<1>4. CASE MainClose
  <2>1. reportQ'.items = reportQ.items
    BY <1>0, <1>4, CloseEffect DEF MainClose, ReportType
  <2> QED
    BY <1>4, <2>1 DEF MainClose, FlushInv, Pending
<1>5. CASE UNCHANGED reports
  BY <1>5 DEF reports, FlushInv, Pending
<1> QED
  BY <1>0, <1>1, <1>2, <1>3, <1>r, <1>4, <1>5, ReportSources, ReportsAreTyped DEF Writer, MainAwaitWriter

-----------------------------------------------------------------------------
\* The invariant of the pipeline, whichever coroutine the loop resumes next.
THEOREM PipelineSafe == Spec => []PipelineInv
<1>1. PipelineInv /\ [Next]_vars => PipelineInv'
  BY StageStep, ReportStep, ShutdownStep, FlushStep DEF PipelineInv, TypeOK
<1> QED
  BY <1>1, PipelineInit, PTL DEF Spec

\* Both queues keep to their bounds and _unfinished is the work that is left
\* (put, get and task_done of AsyncBoundedQueue as the stages call them).
THEOREM WorkIsAccountedFor == Spec => []QueuesAccountForWork
<1>1. PipelineInv => QueuesAccountForWork
  BY DEF PipelineInv, IngestAccount, ReportAccount, Held, QueuesAccountForWork
<1> QED
  BY <1>1, PipelineSafe, PTL

\* When the process exits in good order every key's last report was written and
\* the file says "stopped" (_serve_async_main's shutdown).
THEOREM ExitFlushes == Spec => []ExitFlushesReports
<1>1. PipelineInv => ExitFlushesReports
  <2> SUFFICES ASSUME PipelineInv, main = "exit" PROVE unwritten = {} /\ payload = StoppedReport
    BY DEF ExitFlushesReports
  <2>1. reportQ.items = <<>> /\ writer = "done"
    BY DEF PipelineInv, ShutdownInv
  <2>2. payload = StoppedReport
    BY <2>1 DEF PipelineInv, ShutdownInv, LastWord, Closing
  <2>3. unwritten = {}
    BY <2>1 DEF PipelineInv, FlushInv, Pending
  <2> QED
    BY <2>2, <2>3
<1> QED
  BY <1>1, PipelineSafe, PTL
=============================================================================
