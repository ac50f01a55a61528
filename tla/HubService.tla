----------------------------- MODULE HubService -----------------------------
(***************************************************************************)
(* HubService (simplicio_loop/hub_service.py) behind the hub_submit,       *)
(* hub_claim, hub_complete and hub_fail handlers of HubDaemon: the durable *)
(* retry queue, the fair scheduler and the resource governor composed.     *)
(*                                                                         *)
(* The three parts lock themselves, and no lock spans a whole call of the  *)
(* service: a call is a sequence of steps of the parts, and the calls of   *)
(* several workers interleave (one thread per connection on the named-pipe *)
(* transport, and any in-process caller).  `pc' says which step a worker's *)
(* call has reached.  A crash loses the daemon's memory and every call     *)
(* under way; the queue's journal stays, start() rehydrates the scheduler  *)
(* from it, and the workers keep what they were given.                     *)
(*                                                                         *)
(* An operation of the queue may raise: for a ttl that is not positive     *)
(* (hub_claim passes the client's on unchecked), for a lease that is no    *)
(* longer valid, or because its store fails.  No caller catches that, and  *)
(* the call ends with the slot and the resources it had.                   *)
(*                                                                         *)
(* The scheduler answers None only when no client is eligible, which is so *)
(* when jobs cost at most four visits' gain (the default cost is one).     *)
(* Writes torn by a crash or a failing save are checked in HubRetryQueue,  *)
(* not again here.                                                         *)
(***************************************************************************)
EXTENDS Integers, Sequences, FiniteSets

CONSTANTS
    Workers,        \* the callers
    MaxCandidates,  \* max_candidates
    NoTask, NoClaim,
    MayCrash,       \* whether the daemon crashes in this instance
    \* JobScheduler
    Tasks, Clients, Workspaces, ClientOf, WorkspaceOf, MaxInflight,
    ClientQuota, WorkspaceQuota, GlobalQuota, MaxQueueLength,
    \* ResourceGovernor
    Resources, Requests, Limit, ClientLimit, Threshold, Cooldown, NotLeased,
    \* HubRetryQueue
    MaxAttempts, TTLs, Backoffs, MaxClock, MaxLeases

\* What the three parts assume of their parameters (their own ASSUMEs), and
\* that NoClaim is no lease.
ASSUME ServiceAssumption ==
    /\ IsFiniteSet(Tasks)
    /\ ClientOf \in [Tasks -> Clients]
    /\ WorkspaceOf \in [Tasks -> Workspaces]
    /\ {MaxInflight, ClientQuota, WorkspaceQuota, GlobalQuota, MaxQueueLength,
        Threshold, MaxAttempts} \subseteq Nat \ {0}
    /\ Requests \subseteq [Resources -> Nat]
    /\ Limit \in [Resources -> Nat]
    /\ ClientLimit \in [Clients -> [Resources -> Nat]]
    /\ NotLeased \notin [client : Clients, request : Requests]
    /\ NoClaim \notin [task : Tasks, id : Nat, fence : Nat]
    /\ TTLs \subseteq Nat \ {0}
    /\ Backoffs \subseteq Nat
    /\ {Cooldown, MaxCandidates, MaxClock, MaxLeases} \subseteq Nat

VARIABLES
    jobs, queues, inflight, clientTotal, workspaceTotal, globalTotal,
    resourceLeases, usage, clientUsage, draining, circuit, failures, cooling,
    now, state, attempts, fence, leaseId, expires, nextAttempt, deadLetters,
    mapper, mapperFence, mapperExpiry, handed, decided

VARIABLES
    pc,       \* the step each worker's call has reached
    task,     \* the candidate or claimed task of that call
    lease,    \* the retry lease in the call's ClaimedJob
    asked,    \* the ResourceRequest of a claim under way
    tried,    \* candidates a claim has tried
    claims,   \* HubDaemon._claims
    working,  \* the tasks each worker was given and has not reported on
    holder,   \* history: the worker given the newest lease of a task
    raised,   \* history: the tasks on which a queue operation raised
    booting   \* what rehydrate_scheduler still has to enqueue

S == INSTANCE JobScheduler
G == INSTANCE ResourceGovernor WITH LeaseKeys <- Tasks
Q == INSTANCE HubRetryQueue

schedulerVars == <<jobs, queues, inflight, clientTotal, workspaceTotal, globalTotal>>
governorVars == <<resourceLeases, usage, clientUsage, draining, circuit, failures, cooling>>
queueVars == <<now, state, attempts, fence, leaseId, expires, nextAttempt, deadLetters,
               mapper, mapperFence, mapperExpiry, handed, decided>>
callVars == <<pc, task, lease, asked, tried>>
hubVars == <<callVars, claims, working, holder, raised, booting>>
vars == <<schedulerVars, governorVars, queueVars, hubVars>>

ClaimSteps == {"next", "admit", "refused", "requeue", "claim", "unclaim", "drop"}
ReportSteps == {"complete", "fail", "release", "retire", "release_retry", "retire_retry", "retry"}
Steps == {"idle", "enqueue"} \cup ClaimSteps \cup ReportSteps

TypeOK ==
    /\ S!TypeOK /\ G!GovernorTypeOK /\ Q!TypeOK
    /\ pc \in [Workers -> Steps]
    /\ task \in [Workers -> Tasks \cup {NoTask}]
    /\ lease \in [Workers -> Q!RetryLease \cup {NoClaim}]
    /\ asked \in [Workers -> Requests]
    /\ tried \in [Workers -> 0..MaxCandidates]
    /\ claims \in [Tasks -> Q!RetryLease \cup {NoClaim}]
    /\ working \in [Workers -> SUBSET Tasks]
    /\ holder \in [Tasks -> Workers \cup {NoTask}]
    /\ raised \subseteq Tasks
    /\ booting \subseteq Tasks

Init ==
    /\ S!Init /\ G!GovernorInit /\ Q!Init
    /\ pc = [w \in Workers |-> "idle"]
    /\ task = [w \in Workers |-> NoTask]
    /\ lease = [w \in Workers |-> NoClaim]
    /\ asked \in [Workers -> Requests]
    /\ tried = [w \in Workers |-> 0]
    /\ claims = [t \in Tasks |-> NoClaim]
    /\ working = [w \in Workers |-> {}]
    /\ holder = [t \in Tasks |-> NoTask]
    /\ raised = {}
    /\ booting = {}

-----------------------------------------------------------------------------
Up == booting = {}
At(w, step) == Up /\ pc[w] = step

\* The call goes on with the same task, goes on with another, or ends.
Goto(w, step) ==
    /\ pc' = [pc EXCEPT ![w] = step]
    /\ UNCHANGED <<task, lease, asked, tried>>
Pursue(w, step, t) ==
    /\ pc' = [pc EXCEPT ![w] = step]
    /\ task' = [task EXCEPT ![w] = t]
    /\ UNCHANGED <<lease, asked, tried>>
Return(w) ==
    /\ pc' = [pc EXCEPT ![w] = "idle"]
    /\ task' = [task EXCEPT ![w] = NoTask]
    /\ lease' = [lease EXCEPT ![w] = NoClaim]
    /\ tried' = [tried EXCEPT ![w] = 0]
    /\ UNCHANGED asked

SameScheduler == UNCHANGED schedulerVars
SameGovernor == UNCHANGED governorVars
SameQueue == UNCHANGED queueVars
SameDaemon == UNCHANGED <<claims, working, holder, raised, booting>>

-----------------------------------------------------------------------------
(* submit                                                                  *)

\* queue.submit, for a new job or once more for a known one.
Submit(w, t) ==
    /\ At(w, "idle")
    /\ IF state[t] = "absent" THEN Q!Submit(t) ELSE SameQueue
    /\ Pursue(w, "enqueue", t)
    /\ SameScheduler /\ SameGovernor /\ SameDaemon

\* scheduler.enqueue.  A duplicate is swallowed and a quota raises: either
\* way the call ends with the scheduler unchanged.
Enqueue(w) ==
    /\ At(w, "enqueue")
    /\ IF S!MayEnqueue(task[w]) THEN S!Enqueue(task[w]) ELSE SameScheduler
    /\ Return(w)
    /\ SameGovernor /\ SameQueue /\ SameDaemon

-----------------------------------------------------------------------------
(* claim                                                                   *)

StartClaim(w, request) ==
    /\ At(w, "idle")
    /\ pc' = [pc EXCEPT ![w] = "next"]
    /\ asked' = [asked EXCEPT ![w] = request]
    /\ UNCHANGED <<task, lease, tried>>
    /\ SameScheduler /\ SameGovernor /\ SameQueue /\ SameDaemon

\* scheduler.next finds a candidate.
NextCandidate(w, c) ==
    /\ At(w, "next")
    /\ tried[w] < MaxCandidates
    /\ S!Dispatch(c)
    /\ pc' = [pc EXCEPT ![w] = "admit"]
    /\ task' = [task EXCEPT ![w] = Head(queues[c])]
    /\ tried' = [tried EXCEPT ![w] = @ + 1]
    /\ UNCHANGED <<lease, asked>>
    /\ SameGovernor /\ SameQueue /\ SameDaemon

\* No candidate is left, or max_candidates were tried: claim returns None.
NoCandidate(w) ==
    /\ At(w, "next")
    /\ tried[w] < MaxCandidates => \A c \in Clients : ~ S!Eligible(c)
    /\ Return(w)
    /\ SameScheduler /\ SameGovernor /\ SameQueue /\ SameDaemon

\* governor.admit
Admit(w) ==
    LET t == task[w] c == ClientOf[task[w]] IN
    /\ At(w, "admit")
    /\ \/ (G!Admit(c, t, asked[w]) \/ G!AdmitAgain(t)) /\ Goto(w, "claim")
       \/ G!Throttle(c, t, asked[w]) /\ Goto(w, "refused")
    /\ SameScheduler /\ SameQueue /\ SameDaemon

\* The governor refused: scheduler.complete ...
Refused(w) ==
    /\ At(w, "refused")
    /\ S!Complete(task[w])
    /\ Goto(w, "requeue")
    /\ SameGovernor /\ SameQueue /\ SameDaemon

\* Faulty variant of RequeueRefused: the refused candidate is dropped.
RequeueRefusedNever(w) ==
    /\ At(w, "requeue")
    /\ Pursue(w, "next", NoTask)
    /\ SameScheduler /\ SameGovernor /\ SameQueue /\ SameDaemon

\* ... then scheduler.enqueue, and on to the next candidate.  When enqueue
\* raises, the claim ends there.
RequeueRefused(w) ==
    /\ At(w, "requeue")
    /\ IF S!MayEnqueue(task[w])
       THEN S!Enqueue(task[w]) /\ Pursue(w, "next", NoTask)
       ELSE SameScheduler /\ Return(w)
    /\ SameGovernor /\ SameQueue /\ SameDaemon

\* queue.claim_specific returns a lease: hub_claim keeps the ClaimedJob under
\* the task's identifier and answers the worker.
Claim(w, ttl) ==
    LET t == task[w] IN
    /\ At(w, "claim")
    /\ Q!Claim(t, ttl)
    /\ claims' = [claims EXCEPT ![t] = [task |-> t, id |-> leaseId'[t], fence |-> fence'[t]]]
    /\ working' = [working EXCEPT ![w] = @ \cup {t}]
    /\ holder' = [holder EXCEPT ![t] = w]
    /\ Return(w)
    /\ SameScheduler /\ SameGovernor /\ UNCHANGED <<raised, booting>>

\* queue.claim_specific returns None.
ClaimNothing(w) ==
    /\ At(w, "claim")
    /\ Q!ClaimConflict(task[w]) \/ (~ Q!Claimable(task[w]) /\ SameQueue)
    /\ Goto(w, "unclaim")
    /\ SameScheduler /\ SameGovernor /\ SameDaemon

\* Faulty variant of Unclaim: the resources are kept.
UnclaimNothing(w) ==
    /\ At(w, "unclaim")
    /\ Goto(w, "drop")
    /\ SameScheduler /\ SameGovernor /\ SameQueue /\ SameDaemon

\* governor.release, then scheduler.complete, then the next candidate.
Unclaim(w) ==
    /\ At(w, "unclaim")
    /\ G!Release(task[w])
    /\ Goto(w, "drop")
    /\ SameScheduler /\ SameQueue /\ SameDaemon

DropCandidate(w) ==
    /\ At(w, "drop")
    /\ S!Complete(task[w])
    /\ Pursue(w, "next", NoTask)
    /\ SameGovernor /\ SameQueue /\ SameDaemon

-----------------------------------------------------------------------------
(* complete and fail                                                       *)

\* Faulty variant of Report: the claim is looked up and not popped.
ReportKeepingClaim(w, t, step) ==
    /\ At(w, "idle")
    /\ t \in working[w]
    /\ claims[t] # NoClaim
    /\ pc' = [pc EXCEPT ![w] = step]
    /\ task' = [task EXCEPT ![w] = t]
    /\ lease' = [lease EXCEPT ![w] = claims[t]]
    /\ working' = [working EXCEPT ![w] = @ \ {t}]
    /\ UNCHANGED <<asked, tried, claims, holder, raised, booting>>
    /\ SameScheduler /\ SameGovernor /\ SameQueue

\* hub_complete and hub_fail: the claim under the reported task is popped.
Report(w, t, step) ==
    /\ At(w, "idle")
    /\ t \in working[w]
    /\ claims[t] # NoClaim
    /\ pc' = [pc EXCEPT ![w] = step]
    /\ task' = [task EXCEPT ![w] = t]
    /\ lease' = [lease EXCEPT ![w] = claims[t]]
    /\ claims' = [claims EXCEPT ![t] = NoClaim]
    /\ working' = [working EXCEPT ![w] = @ \ {t}]
    /\ UNCHANGED <<asked, tried, holder, raised, booting>>
    /\ SameScheduler /\ SameGovernor /\ SameQueue

\* "no active claim for task_id": the worker gives its task up.
ReportRejected(w, t) ==
    /\ At(w, "idle")
    /\ t \in working[w]
    /\ claims[t] = NoClaim
    /\ working' = [working EXCEPT ![w] = @ \ {t}]
    /\ UNCHANGED <<callVars, claims, holder, raised, booting>>
    /\ SameScheduler /\ SameGovernor /\ SameQueue

\* queue.complete, which needs a valid lease.
CompleteDurably(w) ==
    /\ At(w, "complete")
    /\ Q!Complete(lease[w])
    /\ Goto(w, "release")
    /\ SameScheduler /\ SameGovernor /\ SameDaemon

\* queue.fail, likewise.
FailDurably(w, backoff) ==
    /\ At(w, "fail")
    /\ Q!Fail(lease[w], backoff)
    /\ Goto(w, IF Q!Exhausted(task[w]) THEN "release" ELSE "release_retry")
    /\ SameScheduler /\ SameGovernor /\ SameDaemon

\* claim_specific, complete or fail raises before it has written anything,
\* or get_payload does once claim_specific has written the lease.
QueueRaises(w) ==
    /\ \E step \in {"claim", "complete", "fail"} : At(w, step)
    /\ \/ SameQueue
       \/ At(w, "claim") /\ \E ttl \in TTLs : Q!Claim(task[w], ttl)
    /\ raised' = raised \cup {task[w]}
    /\ Return(w)
    /\ SameScheduler /\ SameGovernor /\ UNCHANGED <<claims, working, holder, booting>>

\* governor.release
ReleaseResources(w) ==
    /\ At(w, "release") \/ At(w, "release_retry")
    /\ G!Release(task[w])
    /\ Goto(w, IF pc[w] = "release" THEN "retire" ELSE "retire_retry")
    /\ SameScheduler /\ SameQueue /\ SameDaemon

\* Faulty variant of Retire: the job is cancelled instead of completed.
RetireByCancel(w) ==
    /\ At(w, "retire") \/ At(w, "retire_retry")
    /\ S!Cancel(task[w])
    /\ IF pc[w] = "retire" THEN Return(w) ELSE Goto(w, "retry")
    /\ SameGovernor /\ SameQueue /\ SameDaemon

\* scheduler.complete
Retire(w) ==
    /\ At(w, "retire") \/ At(w, "retire_retry")
    /\ S!Complete(task[w])
    /\ IF pc[w] = "retire" THEN Return(w) ELSE Goto(w, "retry")
    /\ SameGovernor /\ SameQueue /\ SameDaemon

\* Faulty variant of EnqueueRetry: a retry is not scheduled.
EnqueueRetryNever(w) ==
    /\ At(w, "retry")
    /\ Return(w)
    /\ SameScheduler /\ SameGovernor /\ SameQueue /\ SameDaemon

\* scheduler.enqueue after a retry; when it raises, the call ends.
EnqueueRetry(w) ==
    /\ At(w, "retry")
    /\ IF S!MayEnqueue(task[w]) THEN S!Enqueue(task[w]) ELSE SameScheduler
    /\ Return(w)
    /\ SameGovernor /\ SameQueue /\ SameDaemon

-----------------------------------------------------------------------------
(* Time, crash and restart.                                                *)

Tick ==
    /\ Q!Tick
    /\ SameScheduler /\ SameGovernor /\ UNCHANGED hubVars

\* list_queued_scheduling_metadata
Rehydratable ==
    {t \in Tasks : \/ state[t] = "queued" /\ nextAttempt[t] <= now
                   \/ state[t] = "leased" /\ expires[t] <= now}

\* The daemon's process dies; start() in the next one begins with the journal.
Crash ==
    /\ MayCrash /\ Up
    /\ jobs' = {}
    /\ queues' = [c \in Clients |-> <<>>]
    /\ inflight' = [c \in Clients |-> 0]
    /\ clientTotal' = [c \in Clients |-> 0]
    /\ workspaceTotal' = [v \in Workspaces |-> 0]
    /\ globalTotal' = 0
    /\ resourceLeases' = [t \in Tasks |-> NotLeased]
    /\ usage' = [r \in Resources |-> 0]
    /\ clientUsage' = [c \in Clients |-> usage']
    /\ draining' = FALSE /\ circuit' = "closed" /\ failures' = 0 /\ cooling' = 0
    /\ pc' = [w \in Workers |-> "idle"]
    /\ task' = [w \in Workers |-> NoTask]
    /\ lease' = [w \in Workers |-> NoClaim]
    /\ tried' = [w \in Workers |-> 0]
    /\ claims' = [t \in Tasks |-> NoClaim]
    /\ raised' = {}
    /\ booting' = Rehydratable
    /\ UNCHANGED <<asked, working, holder>>
    /\ SameQueue

\* rehydrate_scheduler enqueues one job, or skips one that a quota refuses.
Rehydrate(t) ==
    /\ t \in booting
    /\ booting' = booting \ {t}
    /\ IF S!MayEnqueue(t) THEN S!Enqueue(t) ELSE SameScheduler
    /\ SameGovernor /\ SameQueue /\ UNCHANGED <<callVars, claims, working, holder, raised>>

Continue(w) ==
    \/ Enqueue(w)
    \/ NoCandidate(w) \/ \E c \in Clients : NextCandidate(w, c)
    \/ Admit(w) \/ Refused(w) \/ RequeueRefused(w)
    \/ ClaimNothing(w) \/ \E ttl \in TTLs : Claim(w, ttl)
    \/ Unclaim(w) \/ DropCandidate(w)
    \/ CompleteDurably(w) \/ \E backoff \in Backoffs : FailDurably(w, backoff)
    \/ QueueRaises(w)
    \/ ReleaseResources(w) \/ Retire(w) \/ EnqueueRetry(w)

Next ==
    \/ \E w \in Workers :
           \/ Continue(w)
           \/ \E t \in Tasks : Submit(w, t) \/ ReportRejected(w, t)
           \/ \E t \in Tasks, step \in {"complete", "fail"} : Report(w, t, step)
           \/ \E request \in Requests : StartClaim(w, request)
    \/ Tick
    \/ Crash
    \/ \E t \in Tasks : Rehydrate(t)

Spec == Init /\ [][Next]_vars

(***************************************************************************)
(* Fairness: a call under way runs on, an idle worker polls for work, and  *)
(* a worker reports on what it was given, whatever it does in between.     *)
(***************************************************************************)
Poll(w) == \E request \in Requests : StartClaim(w, request)
ReportAny(w) == \E t \in Tasks, step \in {"complete", "fail"} : Report(w, t, step)

Fairness ==
    \A w \in Workers :
        /\ WF_vars(Continue(w))
        /\ WF_vars(Poll(w))
        /\ SF_vars(ReportAny(w))

FairSpec == Spec /\ Fairness

-----------------------------------------------------------------------------
Waiting(c) == {queues[c][i] : i \in DOMAIN queues[c]}
Dispatched(c) == {t \in jobs : ClientOf[t] = c /\ t \notin Waiting(c)}
Busy(t, steps) == \E w \in Workers : task[w] = t /\ pc[w] \in steps

(***************************************************************************)
(* The scheduler's in-flight counter of a client is the number of its jobs *)
(* that next() gave out and nobody has returned, and a queue only holds    *)
(* registered jobs, each once.  The service's calls take scheduler slots   *)
(* and give them back in separate steps, on five different paths.          *)
(***************************************************************************)
InflightIsDispatched ==
    \A c \in Clients :
        /\ inflight[c] = Cardinality(Dispatched(c))
        /\ Waiting(c) \subseteq jobs
        /\ Cardinality(Waiting(c)) = Len(queues[c])

(***************************************************************************)
(* Whatever a worker holds is paid for: a task with a claim has its        *)
(* resources reserved by the governor and its scheduler slot taken, so     *)
(* that the budgets bound the work that really runs.  And a call about to  *)
(* give a slot back still has it: scheduler.complete never raises.         *)
(***************************************************************************)
ClaimsAreCovered ==
    /\ \A t \in Tasks : claims[t] # NoClaim =>
           t \in G!Leased /\ t \in Dispatched(ClientOf[t])
    /\ \A w \in Workers : pc[w] \in {"refused", "drop", "retire", "retire_retry"} =>
           task[w] \in Dispatched(ClientOf[task[w]])

(***************************************************************************)
(* Nothing leaks across the three (the module's docstring): resources and  *)
(* scheduler slots are only held for a claim, or by a call that is about   *)
(* to make the claim or to give them back, or because a queue operation    *)
(* raised on that very task since the daemon started.                      *)
(***************************************************************************)
NothingLeaks ==
    \A t \in Tasks \ raised :
        /\ t \in G!Leased =>
               claims[t] # NoClaim \/
               Busy(t, {"claim", "unclaim", "complete", "fail", "release", "release_retry"})
        /\ t \in Dispatched(ClientOf[t]) =>
               claims[t] # NoClaim \/
               Busy(t, (ClaimSteps \cup ReportSteps) \ {"next", "requeue", "retry"})

(***************************************************************************)
(* No job is lost from fair ordering: a job the journal calls queued is    *)
(* registered with the scheduler, or about to be by a call under way or by *)
(* the rehydration after a restart.                                        *)
(***************************************************************************)
QueuedIsScheduled ==
    \A t \in Tasks : state[t] = "queued" =>
        t \in jobs \cup booting \/ Busy(t, {"enqueue", "requeue", "retry"})

(***************************************************************************)
(* Only the worker that was given the current lease of a task decides the  *)
(* task's outcome with it ("apenas um worker possui lease valida por       *)
(* tarefa", the dead worker is fenced off).                                *)
(***************************************************************************)
HolderDecides ==
    \A w \in Workers :
        pc[w] \in {"complete", "fail"} /\ Q!Owned(lease[w]) => holder[task[w]] = w

\* The clients submit, and submit again, only so many times.
SubmissionsEnd == <>[][ \A w \in Workers, t \in Tasks : ~ Submit(w, t) ]_vars

(***************************************************************************)
(* Once the clients have stopped submitting, every queued job is completed *)
(* or dead-lettered in the end: a job the governor refuses is enqueued     *)
(* again and its turn comes, a job that fails is retried or given up.  All *)
(* of this as long as no queue operation raises: one that does keeps its   *)
(* task in flight, and resources the other jobs may need.                  *)
(***************************************************************************)
EveryJobEnds ==
    SubmissionsEnd =>
        \A t \in Tasks :
            state[t] = "queued" ~> state[t] \in {"completed", "dead_letter"} \/ raised # {}
=============================================================================
