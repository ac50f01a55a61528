----------------------------- MODULE ServeAsync -----------------------------
(***************************************************************************)
(* simplicio_loop/remote_worker_cli.py, _serve_async_main: the worker      *)
(* process built from three stages on one event loop.  ingest discovers    *)
(* candidates and puts them on a bounded queue, the dispatchers claim and  *)
(* run them, every change of state goes over a second, coalescing queue to *)
(* the one task that writes the status file.  SIGTERM sets stop, and the   *)
(* main coroutine then ends the stages one after the other.                *)
(*                                                                         *)
(* An action is what a coroutine does from one await that suspends it to   *)
(* the next.  The remote queue is seen through discover, try_claim and     *)
(* run_task only (RemoteWorker models them): a claim may be won or lost, a *)
(* run ends in any of its three outcomes, and each call may raise.         *)
(***************************************************************************)
EXTENDS AsyncBoundedQueue

CONSTANTS
    Tasks,
    Dispatchers,     \* range(args.concurrency)
    IngestCapacity,  \* ingest_queue's max_items
    ReportCapacity,  \* report_queue's max_items
    NoTask

ASSUME PipelineAssumption ==
    /\ IngestCapacity \in Nat \ {0}
    /\ ReportCapacity \in Nat \ {0}
    /\ IsFiniteSet(Dispatchers)
    /\ NoTask \notin Tasks
    /\ "status" \notin Tasks  \* no task goes by the key of the worker's own reports

VARIABLES
    stop,      \* the asyncio.Event SIGTERM sets
    ingest,    \* the ingest task's position
    batch,     \* candidates discovered and not yet put
    ingestQ,
    dispatch,  \* each dispatcher's position
    current,   \* the candidate it took
    reportQ,
    writer,    \* the writer's position
    payload,   \* what it is writing or wrote last
    main,      \* the main coroutine's position
    reported,  \* history: the last state reported of each key
    unwritten  \* history: keys whose last report is not in the file yet

stages == <<stop, ingest, batch, ingestQ, dispatch, current>>
reports == <<reportQ, writer, payload, reported, unwritten>>
vars == <<stages, reports, main>>

StatusKey == "status"
ReportKeys == Tasks \cup {StatusKey}

(* The writer's first get is among the first steps of the loop, before any *)
(* call of a thread has returned: it has taken the "idle" report.          *)
Init ==
    /\ stop = FALSE
    /\ ingest = "discover"
    /\ batch = <<>>
    /\ ingestQ = EmptyQueue
    /\ dispatch = [d \in Dispatchers |-> "get"]
    /\ current = [d \in Dispatchers |-> NoTask]
    /\ reportQ = [EmptyQueue EXCEPT !.unfinished = 1]
    /\ writer = "writing"
    /\ payload = [key |-> StatusKey, value |-> "idle"]
    /\ main = "ingest"
    /\ reported = [k \in ReportKeys |-> IF k = StatusKey THEN "idle" ELSE "none"]
    /\ unwritten = {StatusKey}

(* The process is still running its loop.                                  *)
Up == main \notin {"exit", "raised"}

Sigterm ==
    /\ Up /\ ~stop
    /\ stop' = TRUE
    /\ UNCHANGED <<ingest, batch, ingestQ, dispatch, current, reports, main>>

-----------------------------------------------------------------------------
(* ingest.  Its finally closes the queue however it ends.                  *)
Discoveries == {s \in UNION {[1 .. n -> Tasks] : n \in 0 .. Cardinality(Dispatchers)} :
                   \A i, j \in DOMAIN s : s[i] = s[j] => i = j}

\* Faulty variant of EndIngest: the queue is left open.
EndIngestUnclosed(how) ==
    /\ ingest' = how
    /\ batch' = <<>>
    /\ UNCHANGED <<stop, ingestQ, dispatch, current, reports, main>>

EndIngest(how) ==
    /\ ingest' = how
    /\ batch' = <<>>
    /\ ingestQ' = CloseQueue(ingestQ)
    /\ UNCHANGED <<stop, dispatch, current, reports, main>>

(* discover returned; QueueUnavailable counts as nothing found.            *)
Discover ==
    /\ Up /\ ingest = "discover" /\ ~stop
    /\ batch' \in Discoveries
    /\ ingest' = IF batch' = <<>> THEN "discover" ELSE "put"
    /\ UNCHANGED <<stop, ingestQ, dispatch, current, reports, main>>

DiscoverRaises == Up /\ ingest = "discover" /\ ~stop /\ EndIngest("failed")

IngestPut ==
    /\ Up /\ ingest = "put"
    /\ ~IsFull(ingestQ, IngestCapacity)
    /\ ingestQ' = PutItem(ingestQ, [key |-> Head(batch), value |-> "candidate"])
    /\ batch' = Tail(batch)
    /\ ingest' = IF stop \/ batch' = <<>> THEN "discover" ELSE "put"
    /\ UNCHANGED <<stop, dispatch, current, reports, main>>

IngestStops == Up /\ ingest = "discover" /\ stop /\ EndIngest("done")

-----------------------------------------------------------------------------
(* report: a put on the coalescing queue.  It looks for its key once, on   *)
(* entry; a put that had to wait for room appends, whatever came meanwhile.*)
Sent(report, q) ==
    /\ reportQ' = q
    /\ reported' = [reported EXCEPT ![report.key] = report.value]
    /\ unwritten' = unwritten \cup {report.key}
    /\ UNCHANGED <<writer, payload>>

MayCoalesce(report) == FindKey(reportQ, report.key) # 0

SendReport(report) ==
    IF MayCoalesce(report)
    THEN Sent(report, Coalesce(reportQ, report))
    ELSE ~IsFull(reportQ, ReportCapacity) /\ Sent(report, PutItem(reportQ, report))

ReportWaits(report) ==
    /\ ~MayCoalesce(report)
    /\ IsFull(reportQ, ReportCapacity)
    /\ UNCHANGED reports

SendWaiting(report) ==
    /\ ~IsFull(reportQ, ReportCapacity)
    /\ Sent(report, PutItem(reportQ, report))

-----------------------------------------------------------------------------
(* A dispatcher.                                                           *)
Move(d, position) == dispatch' = [dispatch EXCEPT ![d] = position]

DispatchGet(d) ==
    /\ Up /\ dispatch[d] = "get"
    /\ \/ /\ ingestQ.items # <<>>
          /\ current' = [current EXCEPT ![d] = Head(ingestQ.items).key]
          /\ ingestQ' = PopItem(ingestQ)
          /\ Move(d, "claim")
       \/ /\ Drained(ingestQ)
          /\ Move(d, "done")
          /\ UNCHANGED <<current, ingestQ>>
    /\ UNCHANGED <<stop, ingest, batch, reports, main>>

(* task_done, in the finally: after a lost claim, a reported outcome, or   *)
(* an exception on its way out of the dispatcher.                          *)
Release(d, position) ==
    /\ ingestQ' = TaskDone(ingestQ)
    /\ current' = [current EXCEPT ![d] = NoTask]
    /\ Move(d, position)

(* A dispatcher may win a task another one still holds: the lease runs out *)
(* while that one waits to report, and ends before it reports its outcome. *)
TryClaim(d) ==
    /\ Up /\ dispatch[d] = "claim"
    /\ \/ /\ Move(d, "report_running")
          /\ UNCHANGED <<current, ingestQ>>
       \/ Release(d, "get")
    /\ UNCHANGED <<stop, ingest, batch, reports, main>>

RunningReport(d) == [key |-> current[d], value |-> "running"]

ReportRunning(d) ==
    /\ Up
    /\ \/ dispatch[d] = "report_running" /\ SendReport(RunningReport(d)) /\ Move(d, "run")
       \/ dispatch[d] = "report_running" /\ ReportWaits(RunningReport(d)) /\ Move(d, "wait_running")
       \/ dispatch[d] = "wait_running" /\ SendWaiting(RunningReport(d)) /\ Move(d, "run")
    /\ UNCHANGED <<stop, ingest, batch, ingestQ, current, main>>

(* completed, cancelled or lease_lost: the pipeline reports it and goes on.*)
RunTask(d) ==
    /\ Up /\ dispatch[d] = "run"
    /\ Move(d, "report_outcome")
    /\ UNCHANGED <<stop, ingest, batch, ingestQ, current, reports, main>>

OutcomeReport(d) == [key |-> current[d], value |-> "ended"]

ReportOutcome(d) ==
    /\ Up
    /\ \/ dispatch[d] = "report_outcome" /\ SendReport(OutcomeReport(d)) /\ Release(d, "get")
       \/ /\ dispatch[d] = "report_outcome" /\ ReportWaits(OutcomeReport(d))
          /\ Move(d, "wait_outcome") /\ UNCHANGED <<ingestQ, current>>
       \/ dispatch[d] = "wait_outcome" /\ SendWaiting(OutcomeReport(d)) /\ Release(d, "get")
    /\ UNCHANGED <<stop, ingest, batch, main>>

(* try_claim catches only QueueConflict, and run_task lets a refused       *)
(* release or complete through: the dispatcher's task ends with the error. *)
DispatchRaises(d) ==
    /\ Up /\ dispatch[d] \in {"claim", "run"}
    /\ Release(d, "failed")
    /\ UNCHANGED <<stop, ingest, batch, reports, main>>

-----------------------------------------------------------------------------
(* write_reports.                                                          *)
WriterGet ==
    /\ Up /\ writer = "get"
    /\ \/ /\ reportQ.items # <<>>
          /\ payload' = Head(reportQ.items)
          /\ reportQ' = PopItem(reportQ)
          /\ writer' = "writing"
       \/ /\ Drained(reportQ)
          /\ writer' = "done"
          /\ UNCHANGED <<payload, reportQ>>
    /\ UNCHANGED <<stages, main, reported, unwritten>>

(* The status file is replaced. *)
WriterWrite ==
    /\ Up /\ writer = "writing"
    /\ unwritten' = IF reported[payload.key] = payload.value
                    THEN unwritten \ {payload.key} ELSE unwritten
    /\ reportQ' = TaskDone(reportQ)
    /\ writer' = "get"
    /\ UNCHANGED <<stages, main, payload, reported>>

(* The write raises (the directory, the file or its replacement): task_done*)
(* in the finally, and the writer's task has ended.  Nobody awaits it yet. *)
WriterRaises ==
    /\ Up /\ writer = "writing"
    /\ reportQ' = TaskDone(reportQ)
    /\ writer' = "failed"
    /\ UNCHANGED <<stages, main, payload, reported, unwritten>>

-----------------------------------------------------------------------------
(* The main coroutine: await ingest, gather the dispatchers, report, close,*)
(* await the writer.  An exception of a stage is raised where it is        *)
(* awaited and ends the process; gather raises the first one at once.      *)
Failed == {d \in Dispatchers : dispatch[d] = "failed"}

MainAwaitIngest ==
    /\ main = "ingest"
    /\ \/ ingest = "done" /\ main' = "gather"
       \/ ingest = "failed" /\ main' = "raised"
    /\ UNCHANGED <<stages, reports>>

\* Faulty variant of MainGather: the dispatchers are not awaited.
MainGatherNone ==
    /\ main = "gather"
    /\ main' = "report"
    /\ UNCHANGED <<stages, reports>>

MainGather ==
    /\ main = "gather"
    /\ \/ Failed # {} /\ main' = "raised"
       \/ (\A d \in Dispatchers : dispatch[d] = "done") /\ main' = "report"
    /\ UNCHANGED <<stages, reports>>

StoppedReport == [key |-> StatusKey, value |-> "stopped"]

MainReport ==
    /\ \/ main = "report" /\ SendReport(StoppedReport) /\ main' = "close"
       \/ main = "report" /\ ReportWaits(StoppedReport) /\ main' = "wait_report"
       \/ main = "wait_report" /\ SendWaiting(StoppedReport) /\ main' = "close"
    /\ UNCHANGED stages

MainClose ==
    /\ main = "close"
    /\ reportQ' = CloseQueue(reportQ)
    /\ main' = "await_writer"
    /\ UNCHANGED <<stages, writer, payload, reported, unwritten>>

MainAwaitWriter ==
    /\ main = "await_writer"
    /\ \/ writer = "done" /\ main' = "exit"
       \/ writer = "failed" /\ main' = "raised"
    /\ UNCHANGED <<stages, reports>>

Ingest == Discover \/ IngestPut \/ IngestStops
Dispatch(d) == DispatchGet(d) \/ TryClaim(d) \/ ReportRunning(d) \/ RunTask(d) \/ ReportOutcome(d)
Writer == WriterGet \/ WriterWrite
Main == MainAwaitIngest \/ MainGather \/ MainReport \/ MainClose \/ MainAwaitWriter

Next ==
    \/ Sigterm
    \/ Ingest \/ DiscoverRaises
    \/ \E d \in Dispatchers : Dispatch(d) \/ DispatchRaises(d)
    \/ Writer \/ WriterRaises
    \/ Main

Spec == Init /\ [][Next]_vars

(* The event loop runs every coroutine that can go on, and every call made *)
(* in a thread returns.  Nobody need send SIGTERM, and nothing need fail.  *)
FairSpec ==
    /\ Spec
    /\ WF_vars(Ingest) /\ WF_vars(Writer) /\ WF_vars(Main)
    /\ \A d \in Dispatchers : WF_vars(Dispatch(d))

-----------------------------------------------------------------------------
(* Neither queue outgrows its bound, and _unfinished is exactly the items  *)
(* waiting and in someone's hands, so that task_done never raises "called  *)
(* too many times" and never reports a drained queue early.                *)
QueuesAccountForWork ==
    /\ Len(ingestQ.items) <= IngestCapacity
    /\ Len(reportQ.items) <= ReportCapacity
    /\ ingestQ.unfinished =
          Len(ingestQ.items) + Cardinality({d \in Dispatchers : current[d] # NoTask})
    /\ reportQ.unfinished = Len(reportQ.items) + (IF writer = "writing" THEN 1 ELSE 0)

(* An orderly exit loses no news: the last state reported of every task    *)
(* was written after it was reported, and the last thing the status file   *)
(* says is "stopped".                                                      *)
ExitFlushesReports ==
    main = "exit" =>
        /\ unwritten = {}
        /\ payload = StoppedReport

(* After SIGTERM the process ends, provided no dispatcher and not the      *)
(* writer failed: the blocked put gets room, the queued candidates are     *)
(* worked off, and each stage is seen to end.  Nobody takes over from a    *)
(* stage that failed, and whoever waits for room in its queue waits on.    *)
ShutdownEnds == stop ~> ~Up \/ Failed # {} \/ writer = "failed"
=============================================================================
