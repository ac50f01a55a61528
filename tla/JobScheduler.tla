---------------------------- MODULE JobScheduler ----------------------------
(***************************************************************************)
(* The bookkeeping of simplicio_loop/hub_scheduler.py's FairScheduler:     *)
(* the registry of live jobs, one FIFO queue per client, the in-flight     *)
(* counters and the hierarchical quota totals.  Each operation runs under  *)
(* the scheduler's own lock, so it is one action.  WHICH client Dispatch   *)
(* serves is left open here; FairScheduler adds the deficit round robin    *)
(* that decides it, and HubService composes this module with the other     *)
(* parts of the hub.                                                       *)
(*                                                                         *)
(* A job's client and workspace travel with its task identifier in the     *)
(* code (ScheduledJob), so they are functions of the task here.  A quota   *)
(* of None in the code is a quota no instance can fill.                    *)
(***************************************************************************)
EXTENDS Integers, Sequences, FiniteSets

CONSTANTS
    Tasks,          \* task identifiers
    Clients,        \* client identifiers
    Workspaces,     \* workspace identifiers
    ClientOf,       \* ScheduledJob.client_id of every task
    WorkspaceOf,    \* ScheduledJob.workspace_id of every task
    MaxInflight,    \* max_inflight_per_client
    ClientQuota,    \* max_queue_per_client
    WorkspaceQuota, \* max_queue_per_workspace
    GlobalQuota,    \* max_global_queue
    MaxQueueLength  \* bound: entries in one client's deque

ASSUME SchedulerAssumption ==
    /\ IsFiniteSet(Tasks)
    /\ ClientOf \in [Tasks -> Clients]
    /\ WorkspaceOf \in [Tasks -> Workspaces]
    /\ {MaxInflight, ClientQuota, WorkspaceQuota, GlobalQuota, MaxQueueLength} \subseteq Nat \ {0}

VARIABLES
    jobs,           \* _jobs: the registered tasks
    queues,         \* _queues: what every client waits for, oldest first
    inflight,       \* _inflight
    clientTotal,    \* _client_total
    workspaceTotal, \* _workspace_total
    globalTotal     \* _global_total

totals == <<clientTotal, workspaceTotal, globalTotal>>
schedulerVars == <<jobs, queues, inflight, totals>>

TypeOK ==
    /\ jobs \subseteq Tasks
    /\ queues \in [Clients -> Seq(Tasks)]
    /\ inflight \in [Clients -> Nat]
    /\ clientTotal \in [Clients -> Nat]
    /\ workspaceTotal \in [Workspaces -> Nat]
    /\ globalTotal \in Nat

Init ==
    /\ jobs = {}
    /\ queues = [c \in Clients |-> <<>>]
    /\ inflight = [c \in Clients |-> 0]
    /\ clientTotal = [c \in Clients |-> 0]
    /\ workspaceTotal = [w \in Workspaces |-> 0]
    /\ globalTotal = 0

-----------------------------------------------------------------------------
\* One less, but never below zero: max(0, n - 1).
Decremented(n) == IF n > 0 THEN n - 1 ELSE 0

\* Faulty variant of WithinQuotas: off by one for a client.
WithinQuotasOrAt(t) ==
    /\ globalTotal < GlobalQuota
    /\ workspaceTotal[WorkspaceOf[t]] < WorkspaceQuota
    /\ clientTotal[ClientOf[t]] <= ClientQuota

\* _check_quotas: no scope of the task is full.
WithinQuotas(t) ==
    /\ globalTotal < GlobalQuota
    /\ workspaceTotal[WorkspaceOf[t]] < WorkspaceQuota
    /\ clientTotal[ClientOf[t]] < ClientQuota

\* enqueue raises "duplicate task_id" or QuotaExceededError unless this holds.
MayEnqueue(t) == t \notin jobs /\ WithinQuotas(t)

\* enqueue, when it raises nothing.
Enqueue(t) ==
    /\ MayEnqueue(t)
    /\ Len(queues[ClientOf[t]]) < MaxQueueLength
    /\ jobs' = jobs \cup {t}
    /\ queues' = [queues EXCEPT ![ClientOf[t]] = Append(@, t)]
    /\ clientTotal' = [clientTotal EXCEPT ![ClientOf[t]] = @ + 1]
    /\ workspaceTotal' = [workspaceTotal EXCEPT ![WorkspaceOf[t]] = @ + 1]
    /\ globalTotal' = globalTotal + 1
    /\ UNCHANGED inflight

\* Faulty variant of ReleaseSlot: the workspace's slot is kept.
ReleaseSlotPartly(t) ==
    /\ clientTotal' = [clientTotal EXCEPT ![ClientOf[t]] = Decremented(@)]
    /\ globalTotal' = Decremented(globalTotal)
    /\ UNCHANGED workspaceTotal

\* _release_slot
ReleaseSlot(t) ==
    /\ clientTotal' = [clientTotal EXCEPT ![ClientOf[t]] = Decremented(@)]
    /\ workspaceTotal' = [workspaceTotal EXCEPT ![WorkspaceOf[t]] = Decremented(@)]
    /\ globalTotal' = Decremented(globalTotal)

\* A client next() may serve.
Eligible(c) == queues[c] # <<>> /\ inflight[c] < MaxInflight

\* What next() does once it has settled on client c: pop its oldest entry.
Dispatch(c) ==
    /\ Eligible(c)
    /\ queues' = [queues EXCEPT ![c] = Tail(@)]
    /\ inflight' = [inflight EXCEPT ![c] = @ + 1]
    /\ UNCHANGED <<jobs, totals>>

\* complete.  The queue is not searched: a task completed while it still
\* waits leaves its entry behind.
Complete(t) ==
    /\ t \in jobs
    /\ inflight' = [inflight EXCEPT ![ClientOf[t]] = Decremented(@)]
    /\ ReleaseSlot(t)
    /\ jobs' = jobs \ {t}
    /\ UNCHANGED queues

\* The entries of a deque that are not of task t, in their order.
EntriesBut(t, entries) ==
    LET kept[i \in 0..Len(entries)] ==
            IF i = 0 THEN <<>>
            ELSE IF entries[i] = t THEN kept[i - 1] ELSE Append(kept[i - 1], entries[i])
    IN  kept[Len(entries)]

\* cancel.  The in-flight counter is not touched, dispatched or not.
Cancel(t) ==
    /\ t \in jobs
    /\ ReleaseSlot(t)
    /\ queues' = [queues EXCEPT ![ClientOf[t]] = EntriesBut(t, @)]
    /\ jobs' = jobs \ {t}
    /\ UNCHANGED inflight

-----------------------------------------------------------------------------
OfClient(c) == {t \in jobs : ClientOf[t] = c}
OfWorkspace(w) == {t \in jobs : WorkspaceOf[t] = w}

(***************************************************************************)
(* The totals count the registered jobs of their scope exactly, so that    *)
(* the clamp at zero in _release_slot never hides a double release: every  *)
(* complete and cancel gives back what exactly one enqueue took.           *)
(***************************************************************************)
TotalsCountJobs ==
    /\ globalTotal = Cardinality(jobs)
    /\ \A c \in Clients : clientTotal[c] = Cardinality(OfClient(c))
    /\ \A w \in Workspaces : workspaceTotal[w] = Cardinality(OfWorkspace(w))

(***************************************************************************)
(* Hierarchical quotas hold of the jobs themselves, not only of the        *)
(* counters: whatever order jobs are enqueued, completed, cancelled and    *)
(* enqueued again in, no scope ever has more live jobs than it was given.  *)
(***************************************************************************)
QuotasHold ==
    /\ Cardinality(jobs) <= GlobalQuota
    /\ \A c \in Clients : Cardinality(OfClient(c)) <= ClientQuota
    /\ \A w \in Workspaces : Cardinality(OfWorkspace(w)) <= WorkspaceQuota
=============================================================================
