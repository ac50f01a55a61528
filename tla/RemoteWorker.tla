---------------------------- MODULE RemoteWorker ----------------------------
(***************************************************************************)
(* simplicio_loop/worker_daemon.py, class RemoteWorkerDaemon, driven by    *)
(* remote_worker_cli.py, over RemoteQueue: each worker process claims a    *)
(* task, works on it in its main thread while a second thread heartbeats,  *)
(* and then completes it, releases it or leaves it alone.  An operator     *)
(* asks for cancellations.  Processes die anywhere and are started again   *)
(* by their supervisor.                                                    *)
(***************************************************************************)
EXTENDS RemoteQueue

CONSTANTS
    Workers,
    KeysOf,     \* the idempotency keys each worker presents
    MaxCancels  \* bound: cancellations asked for

ASSUME WorkerAssumption ==
    /\ KeysOf \in [Workers -> SUBSET Keys]
    /\ \A v, w \in Workers : v # w => KeysOf[v] \cap KeysOf[w] = {}
    /\ MaxCancels \in Nat

VARIABLES
    pc,         \* main thread of each worker
    lease,      \* the lease it works under (state["lease"])
    hb,         \* its heartbeat thread
    cancelled,  \* state["cancelled"]
    lost,       \* state["lease_lost"] is not None
    request     \* the operator's request_cancel between its read and its append

workerVars == <<pc, lease, hb, cancelled, lost>>
vars == <<queueVars, workerVars, request>>

PCs == {"idle",       \* between tasks
        "looked",     \* claim: the journal offered no lease, claim_task is next
        "claimed",    \* claim: claim_task succeeded, its event is next
        "working",    \* run_task: work_fn runs
        "returned",   \* run_task: work_fn returned, stop_work is set
        "checking",   \* run_task: lease_lost was not set, check_cancelled() is next
        "release", "released",     \* release: MapperStore next, event next
        "complete", "completed"}   \* complete: likewise

HBs == {"off",      \* no thread
        "waiting",  \* in stop_work.wait
        "sent",     \* MapperStore extended the lease, event and flag are next
        "ended",    \* left the loop with a flag set, or because of stop_work
        "broken"}   \* ended by an error the loop does not catch

TypeOK ==
    /\ QueueTypeOK
    /\ pc \in [Workers -> PCs]
    /\ lease \in [Workers -> Lease \cup {None}]
    /\ hb \in [Workers -> HBs]
    /\ cancelled \in [Workers -> BOOLEAN]
    /\ lost \in [Workers -> BOOLEAN]
    /\ request \in Lease \cup {None}

Init ==
    /\ QueueInit
    /\ pc = [w \in Workers |-> "idle"]
    /\ lease = [w \in Workers |-> None]
    /\ hb = [w \in Workers |-> "off"]
    /\ cancelled = [w \in Workers |-> FALSE]
    /\ lost = [w \in Workers |-> FALSE]
    /\ request = None

-----------------------------------------------------------------------------
(* The worker is between tasks again: run_task returned or raised (which   *)
(* ends the process), or the process died.                                 *)
BackToIdle(w) ==
    /\ pc' = [pc EXCEPT ![w] = "idle"]
    /\ lease' = [lease EXCEPT ![w] = None]
    /\ hb' = [hb EXCEPT ![w] = "off"]
    /\ cancelled' = [cancelled EXCEPT ![w] = FALSE]
    /\ lost' = [lost EXCEPT ![w] = FALSE]

Goto(w, p) == pc' = [pc EXCEPT ![w] = p] /\ UNCHANGED <<lease, hb, cancelled, lost>>

(* run_task begins: the heartbeat thread starts, then work_fn.             *)
StartWork(w, l) ==
    /\ pc' = [pc EXCEPT ![w] = "working"]
    /\ lease' = [lease EXCEPT ![w] = l]
    /\ hb' = [hb EXCEPT ![w] = "waiting"]
    /\ UNCHANGED <<cancelled, lost>>

(* try_claim, first half: the key check and _active_idempotent_claim.      *)
Look(w, t, k) ==
    /\ pc[w] = "idle"
    /\ ~KeyTaken(t, k)
    /\ LET found == ActiveIdempotentClaim(t, k) IN
        \/ found # None /\ StartWork(w, found)
        \/ /\ found = None
           /\ fences < MaxFence
           /\ pc' = [pc EXCEPT ![w] = "looked"]
           /\ lease' = [lease EXCEPT ![w] = [task |-> t, key |-> k, fence |-> 1, until |-> 0]]
           /\ UNCHANGED <<hb, cancelled, lost>>
    /\ UNCHANGED <<queueVars, request>>

(* try_claim, second half: reclaim_expired and claim_task; no lease is a   *)
(* QueueConflict, which try_claim turns into None.                         *)
ClaimTask(w) ==
    LET t == lease[w].task
        l == NewLease(t, lease[w].key)
    IN
    /\ pc[w] = "looked"
    /\ \/ /\ Claimable(t)
          /\ MapperClaim(l)
          /\ pc' = [pc EXCEPT ![w] = "claimed"]
          /\ lease' = [lease EXCEPT ![w] = l]
          /\ UNCHANGED <<hb, cancelled, lost>>
       \/ ~Claimable(t) /\ MapperRefuse /\ BackToIdle(w)
    /\ UNCHANGED <<journal, now, request>>

EmitClaimed(w) ==
    /\ pc[w] = "claimed"
    /\ Emit("claimed", lease[w])
    /\ StartWork(w, lease[w])
    /\ UNCHANGED <<mapper, fences, now, request>>

-----------------------------------------------------------------------------
\* Faulty variant: A conflict does not end the loop.
HeartbeatKeepsTrying(w) ==
    /\ pc[w] = "working"
    /\ hb[w] = "waiting"
    /\ Honoured(lease[w])
    /\ MapperExtend(lease[w])
    /\ hb' = [hb EXCEPT ![w] = "sent"]
    /\ UNCHANGED <<fences, journal, now, pc, lease, cancelled, lost, request>>

(* The heartbeat thread.  While the main thread works it extends the       *)
(* lease; a conflict or an unreachable queue sets lease_lost.              *)
Heartbeat(w) ==
    /\ pc[w] = "working"
    /\ hb[w] = "waiting"
    /\ \/ /\ Honoured(lease[w])
          /\ MapperExtend(lease[w])
          /\ hb' = [hb EXCEPT ![w] = "sent"]
          /\ UNCHANGED lost
       \/ /\ ~Honoured(lease[w])
          /\ hb' = [hb EXCEPT ![w] = "ended"]
          /\ lost' = [lost EXCEPT ![w] = TRUE]
          /\ UNCHANGED mapper
    /\ UNCHANGED <<fences, journal, now, pc, lease, cancelled, request>>

(* The queue cannot be reached, or the answer does not come back.          *)
HeartbeatUnavailable(w) ==
    /\ hb[w] \in {"waiting", "sent"}
    /\ hb[w] = "waiting" => pc[w] = "working"
    /\ hb' = [hb EXCEPT ![w] = "ended"]
    /\ lost' = [lost EXCEPT ![w] = TRUE]
    /\ UNCHANGED <<queueVars, pc, lease, cancelled, request>>

(* A MapperOperationsError (any failure of the store that is neither a     *)
(* conflict nor an OSError) leaves the loop through its finally.           *)
HeartbeatBreaks(w) ==
    /\ pc[w] = "working"
    /\ hb[w] = "waiting"
    /\ hb' = [hb EXCEPT ![w] = "broken"]
    /\ UNCHANGED <<queueVars, pc, lease, cancelled, lost, request>>

\* Faulty variant: The journal's cancellations are not consulted.
HeartbeatAnswerUnread(w) ==
    /\ hb[w] = "sent"
    /\ hb' = [hb EXCEPT ![w] = IF pc[w] # "working" THEN "ended" ELSE "waiting"]
    /\ UNCHANGED <<queueVars, pc, lease, cancelled, lost, request>>

(* heartbeat's second half: the event, then the cancellation flag.  A      *)
(* thread whose main thread stopped waiting for it leaves the loop.        *)
HeartbeatAnswer(w) ==
    /\ hb[w] = "sent"
    /\ cancelled' = [cancelled EXCEPT ![w] = @ \/ CancelledFor(lease[w])]
    /\ hb' = [hb EXCEPT ![w] =
                 IF cancelled'[w] \/ pc[w] # "working" THEN "ended" ELSE "waiting"]
    /\ UNCHANGED <<queueVars, pc, lease, lost, request>>

-----------------------------------------------------------------------------
(* work_fn returns: when it is done, or because check_cancelled() is true. *)
WorkReturns(w) ==
    /\ pc[w] = "working"
    /\ Goto(w, "returned")
    /\ UNCHANGED <<queueVars, request>>

(* A cooperative work_fn polls check_cancelled().                          *)
WorkStops(w) == (cancelled[w] \/ lost[w]) /\ WorkReturns(w)

(* The join ended (or timed out, the heartbeat still under way): the flags *)
(* are read once.                                                          *)
ReadFlags(w) ==
    /\ pc[w] = "returned"
    /\ \/ lost[w] /\ BackToIdle(w)
       \/ ~lost[w] /\ cancelled[w] /\ Goto(w, "release")
       \/ ~lost[w] /\ ~cancelled[w] /\ Goto(w, "checking")
    /\ UNCHANGED <<queueVars, request>>

(* `cancelled or check_cancelled()`: a late heartbeat may have set a flag. *)
CheckCancelled(w) ==
    /\ pc[w] = "checking"
    /\ Goto(w, IF cancelled[w] \/ lost[w] THEN "release" ELSE "complete")
    /\ UNCHANGED <<queueVars, request>>

\* Faulty variant: A conflict is taken for success.
EndLeaseRegardless(w) ==
    /\ pc[w] \in {"release", "complete"}
    /\ \/ /\ Honoured(lease[w])
          /\ MapperEnd(lease[w], IF pc[w] = "release" THEN "queued" ELSE "completed")
       \/ ~Honoured(lease[w]) /\ UNCHANGED mapper
    /\ Goto(w, IF pc[w] = "release" THEN "released" ELSE "completed")
    /\ UNCHANGED <<fences, journal, now, request>>

(* release or complete in the MapperStore; a conflict propagates.          *)
EndLease(w) ==
    /\ pc[w] \in {"release", "complete"}
    /\ \/ /\ Honoured(lease[w])
          /\ MapperEnd(lease[w], IF pc[w] = "release" THEN "queued" ELSE "completed")
          /\ Goto(w, IF pc[w] = "release" THEN "released" ELSE "completed")
       \/ ~Honoured(lease[w]) /\ BackToIdle(w) /\ UNCHANGED mapper
    /\ UNCHANGED <<fences, journal, now, request>>

EmitOutcome(w) ==
    /\ pc[w] \in {"released", "completed"}
    /\ Emit(pc[w], lease[w])
    /\ BackToIdle(w)
    /\ UNCHANGED <<mapper, fences, now, request>>

Crash(w) ==
    /\ pc[w] # "idle"
    /\ BackToIdle(w)
    /\ UNCHANGED <<queueVars, request>>

-----------------------------------------------------------------------------
(* request_cancel reads the current lease, then appends its event.         *)
Cancels == {i \in DOMAIN journal : journal[i].kind = "cancel_requested"}

RequestCancel(t) ==
    /\ request = None
    /\ Cardinality(Cancels) < MaxCancels
    /\ CurrentLease(t) # None
    /\ request' = CurrentLease(t)
    /\ UNCHANGED <<queueVars, workerVars>>

EmitCancel ==
    /\ request # None
    /\ Emit("cancel_requested", request)
    /\ request' = None
    /\ UNCHANGED <<mapper, fences, now, workerVars>>

Tick ==
    /\ now < MaxClock
    /\ now' = now + 1
    /\ UNCHANGED <<mapper, fences, journal, workerVars, request>>

HeartbeatThread(w) == Heartbeat(w) \/ HeartbeatAnswer(w)

MainThread(w) ==
    ClaimTask(w) \/ EmitClaimed(w) \/ ReadFlags(w) \/ CheckCancelled(w) \/ EndLease(w)
    \/ EmitOutcome(w)

Step(w) ==
    \/ \E t \in Tasks, k \in KeysOf[w] : Look(w, t, k)
    \/ MainThread(w) \/ WorkReturns(w)
    \/ HeartbeatThread(w) \/ HeartbeatUnavailable(w) \/ HeartbeatBreaks(w)
    \/ Crash(w)

Next ==
    \/ \E w \in Workers : Step(w)
    \/ \E t \in Tasks : RequestCancel(t)
    \/ EmitCancel
    \/ Tick

Spec == Init /\ [][Next]_vars

(* Both threads of a process that stays up keep running, and work_fn polls *)
(* check_cancelled (sleep_in_slices does).  Nothing else is promised: work *)
(* may last for ever, and no worker need look for tasks.                   *)
FairSpec ==
    /\ Spec
    /\ \A w \in Workers :
          WF_vars(HeartbeatThread(w)) /\ WF_vars(MainThread(w)) /\ WF_vars(WorkStops(w))

-----------------------------------------------------------------------------
Working(w) == pc[w] \in {"working", "returned", "checking", "release", "complete"}

(* Exclusion: two workers never work under one fencing token, whatever     *)
(* claims were retried with an old idempotency key after a crash.          *)
OneWorkerPerFence ==
    \A v, w \in Workers :
        Working(v) /\ Working(w) /\ lease[v].fence = lease[w].fence => v = w

(* A cancellation is scoped to the lease it was asked for: a worker sees   *)
(* itself cancelled only if a request named its own fence, even when the   *)
(* request was read before, and appended after, the task changed hands.    *)
CancelHitsItsTarget ==
    \A w \in Workers :
        cancelled[w] => \E i \in Cancels : journal[i].lease.fence = lease[w].fence

(* The journal never tells a story the MapperStore does not know: a task   *)
(* is recorded completed at most once, and only if it is completed for     *)
(* good, under the last fence ever granted for it.                         *)
RecordedCompletionIsFinal ==
    \A i \in DOMAIN journal :
        journal[i].kind = "completed" =>
            /\ mapper[journal[i].lease.task].state = "completed"
            /\ mapper[journal[i].lease.task].fence = journal[i].lease.fence

(* "The worker must stop mutating immediately": a worker whose lease is no *)
(* longer honoured stops working, unless an uncaught error ended its       *)
(* heartbeat thread.                                                       *)
SupersededStops ==
    \A w \in Workers :
        pc[w] = "working" /\ ~Honoured(lease[w]) ~> pc[w] # "working" \/ hb[w] = "broken"

(* A worker whose lease was asked to stop sees it at a heartbeat and stops.*)
CancelIsSeen ==
    \A w \in Workers :
        pc[w] = "working" /\ CancelledFor(lease[w]) ~> pc[w] # "working" \/ hb[w] = "broken"
=============================================================================
