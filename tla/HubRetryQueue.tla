--------------------------- MODULE HubRetryQueue ----------------------------
(***************************************************************************)
(* HubRetryQueue (simplicio_loop/hub_queue_retry.py): the hub's durable    *)
(* queue with leases, bounded retry and a dead-letter list.                *)
(*                                                                         *)
(* Two durable stores are written one after the other in every operation:  *)
(* first the MapperStore (external), which owns tasks, leases and fences,  *)
(* then the hub's own journal, whose last snapshot is the projection       *)
(* _state() reads back.  The operation holds a lock of the hub process     *)
(* throughout, so only a crash can come between the two writes; every      *)
(* operation therefore has a torn variant, in which the Mapper was written *)
(* and the journal was not.                                                *)
(*                                                                         *)
(* A task stands for the idempotency key it is derived from.  Payloads and *)
(* receipts are left out.  `handed' and `decided' are history: the leases  *)
(* that ever reached a worker, and those that decided an outcome.          *)
(***************************************************************************)
EXTENDS Integers, FiniteSets

CONSTANTS
    Tasks,       \* task identifiers
    MaxAttempts, \* max_attempts
    TTLs,        \* lease durations workers ask for
    Backoffs,    \* retry delays callers ask for
    MaxClock,    \* bound: time
    MaxLeases    \* bound: leases the Mapper ever grants for one task

ASSUME QueueAssumption ==
    /\ MaxAttempts \in Nat \ {0}
    /\ TTLs \subseteq Nat \ {0}
    /\ Backoffs \subseteq Nat
    /\ MaxClock \in Nat /\ MaxLeases \in Nat

VARIABLES
    now,          \* time.time()
    state,        \* job["state"], or "absent"
    attempts,     \* job["attempts"]
    fence,        \* job["fence"]
    leaseId,      \* job["lease_id"] and the fence in job["mapper_lease"]
    expires,      \* job["lease_expires_at"]
    nextAttempt,  \* job["next_attempt_at"]
    deadLetters,  \* state["dead_letters"]
    mapper,       \* Mapper: the task's state
    mapperFence,  \* Mapper: the last lease granted for the task
    mapperExpiry, \* Mapper: when that lease ends
    handed,       \* history: leases returned to workers
    decided       \* history: leases that completed or failed their task

journalVars == <<state, attempts, fence, leaseId, expires, nextAttempt, deadLetters>>
mapperVars == <<mapper, mapperFence, mapperExpiry>>
historyVars == <<handed, decided>>
queueVars == <<now, journalVars, mapperVars, historyVars>>

JobStates == {"absent", "queued", "leased", "completed", "dead_letter", "admitted_held"}
MapperStates == {"absent", "ready", "leased", "completed", "failed"}

\* RetryLease
RetryLease == [task : Tasks, id : Nat, fence : Nat]

TypeOK ==
    /\ now \in Nat
    /\ state \in [Tasks -> JobStates]
    /\ attempts \in [Tasks -> Nat]
    /\ fence \in [Tasks -> Nat]
    /\ leaseId \in [Tasks -> Nat]
    /\ expires \in [Tasks -> Nat]
    /\ nextAttempt \in [Tasks -> Nat]
    /\ deadLetters \subseteq Tasks
    /\ mapper \in [Tasks -> MapperStates]
    /\ mapperFence \in [Tasks -> Nat]
    /\ mapperExpiry \in [Tasks -> Nat]
    /\ handed \subseteq RetryLease
    /\ decided \subseteq handed

Zero == [t \in Tasks |-> 0]

Init ==
    /\ now = 0
    /\ state = [t \in Tasks |-> "absent"]
    /\ attempts = Zero /\ fence = Zero /\ leaseId = Zero
    /\ expires = Zero /\ nextAttempt = Zero
    /\ deadLetters = {}
    /\ mapper = [t \in Tasks |-> "absent"]
    /\ mapperFence = Zero /\ mapperExpiry = Zero
    /\ handed = {} /\ decided = {}

-----------------------------------------------------------------------------
(* The MapperStore, as the hub uses it.                                    *)

\* operations.enqueue, idempotent.
MapperEnqueue(t) ==
    /\ mapper' = IF mapper[t] = "absent" THEN [mapper EXCEPT ![t] = "ready"] ELSE mapper
    /\ UNCHANGED <<mapperFence, mapperExpiry>>

\* operations.reclaim_expired
Reclaimed ==
    [t \in Tasks |-> IF mapper[t] = "leased" /\ mapperExpiry[t] <= now THEN "ready" ELSE mapper[t]]

\* operations.claim_task, after the reclaim, when the task is ready.
MapperClaim(t, ttl) ==
    /\ Reclaimed[t] = "ready"
    /\ mapperFence[t] < MaxLeases
    /\ mapper' = [Reclaimed EXCEPT ![t] = "leased"]
    /\ mapperFence' = [mapperFence EXCEPT ![t] = @ + 1]
    /\ mapperExpiry' = [mapperExpiry EXCEPT ![t] = now + ttl]

\* operations.assert_active
MapperActive(t, id) == mapper[t] = "leased" /\ mapperFence[t] = id /\ mapperExpiry[t] > now

\* operations.complete, release and requeue move the task on.
MapperMove(t, target) ==
    /\ mapper' = [mapper EXCEPT ![t] = target]
    /\ UNCHANGED <<mapperFence, mapperExpiry>>

\* operations.heartbeat
MapperHeartbeat(t, ttl) ==
    /\ mapperExpiry' = [mapperExpiry EXCEPT ![t] = now + ttl]
    /\ UNCHANGED <<mapper, mapperFence>>

-----------------------------------------------------------------------------
(* The journal half of each operation.                                     *)

Recorded(t, s) ==
    /\ state' = [state EXCEPT ![t] = s]
    /\ attempts' = [attempts EXCEPT ![t] = 0]
    /\ fence' = [fence EXCEPT ![t] = 0]
    /\ leaseId' = [leaseId EXCEPT ![t] = 0]
    /\ expires' = [expires EXCEPT ![t] = 0]
    /\ nextAttempt' = [nextAttempt EXCEPT ![t] = now]
    /\ UNCHANGED deadLetters

\* Faulty variant of JournalClaim: taking over an expired lease keeps its fence.
JournalClaimKeepingFence(t) ==
    /\ state' = [state EXCEPT ![t] = "leased"]
    /\ attempts' = [attempts EXCEPT ![t] = @ + 1]
    /\ fence' = [fence EXCEPT ![t] = IF state[t] = "leased" THEN @ ELSE @ + 1]
    /\ leaseId' = [leaseId EXCEPT ![t] = mapperFence'[t]]
    /\ expires' = [expires EXCEPT ![t] = mapperExpiry'[t]]
    /\ UNCHANGED <<nextAttempt, deadLetters>>

JournalClaim(t) ==
    /\ state' = [state EXCEPT ![t] = "leased"]
    /\ attempts' = [attempts EXCEPT ![t] = @ + 1]
    /\ fence' = [fence EXCEPT ![t] = @ + 1]
    /\ leaseId' = [leaseId EXCEPT ![t] = mapperFence'[t]]
    /\ expires' = [expires EXCEPT ![t] = mapperExpiry'[t]]
    /\ UNCHANGED <<nextAttempt, deadLetters>>

JournalComplete(t) ==
    /\ state' = [state EXCEPT ![t] = "completed"]
    /\ expires' = [expires EXCEPT ![t] = 0]
    /\ UNCHANGED <<attempts, fence, leaseId, nextAttempt, deadLetters>>

\* Faulty variant of JournalDeadLetter: the Mapper's word for the state.
JournalFailed(t) ==
    /\ state' = [state EXCEPT ![t] = "failed"]
    /\ expires' = [expires EXCEPT ![t] = 0]
    /\ deadLetters' = deadLetters \cup {t}
    /\ UNCHANGED <<attempts, fence, leaseId, nextAttempt>>

JournalDeadLetter(t) ==
    /\ state' = [state EXCEPT ![t] = "dead_letter"]
    /\ expires' = [expires EXCEPT ![t] = 0]
    /\ deadLetters' = deadLetters \cup {t}
    /\ UNCHANGED <<attempts, fence, leaseId, nextAttempt>>

JournalQueue(t, at) ==
    /\ state' = [state EXCEPT ![t] = "queued"]
    /\ nextAttempt' = [nextAttempt EXCEPT ![t] = at]
    /\ leaseId' = [leaseId EXCEPT ![t] = 0]
    /\ expires' = [expires EXCEPT ![t] = 0]
    /\ UNCHANGED <<attempts, fence>>

-----------------------------------------------------------------------------
(* The operations.                                                         *)

\* submit under a new key; under a known one it only answers.
Submit(t) ==
    /\ state[t] = "absent"
    /\ MapperEnqueue(t)
    /\ Recorded(t, "queued")
    /\ UNCHANGED <<now, historyVars>>

\* admit_held: recorded, and never claimable.
AdmitHeld(t) ==
    /\ state[t] = "absent"
    /\ MapperEnqueue(t)
    /\ Recorded(t, "admitted_held")
    /\ UNCHANGED <<now, historyVars>>

\* claim_specific gets as far as asking the Mapper.
Claimable(t) ==
    /\ state[t] \in {"queued", "leased"}
    /\ nextAttempt[t] <= now
    /\ state[t] = "leased" => expires[t] <= now

\* claim_specific, and the lease it returns.
Claim(t, ttl) ==
    /\ Claimable(t)
    /\ MapperClaim(t, ttl)
    /\ JournalClaim(t)
    /\ handed' = handed \cup {[task |-> t, id |-> leaseId'[t], fence |-> fence'[t]]}
    /\ UNCHANGED <<now, decided>>

\* claim_specific answers None because the Mapper will not lease the task;
\* what had expired is reclaimed all the same.
ClaimConflict(t) ==
    /\ Claimable(t)
    /\ Reclaimed[t] # "ready"
    /\ mapper' = Reclaimed
    /\ UNCHANGED <<now, journalVars, mapperFence, mapperExpiry, historyVars>>

\* Faulty variant of Owned: any lease of a leased task will do.
OwnedByAny(l) == state[l.task] = "leased" /\ expires[l.task] > now

\* _owned raises QueueLeaseError unless this holds.
Owned(l) ==
    /\ state[l.task] = "leased"
    /\ leaseId[l.task] = l.id
    /\ fence[l.task] = l.fence
    /\ expires[l.task] > now
    /\ MapperActive(l.task, l.id)

\* heartbeat
Heartbeat(l, ttl) ==
    /\ Owned(l)
    /\ MapperHeartbeat(l.task, ttl)
    /\ expires' = [expires EXCEPT ![l.task] = mapperExpiry'[l.task]]
    /\ UNCHANGED <<now, state, attempts, fence, leaseId, nextAttempt, deadLetters, historyVars>>

\* Faulty variant of Complete: the Mapper is not told.
CompleteLocally(l) ==
    /\ Owned(l)
    /\ JournalComplete(l.task)
    /\ decided' = decided \cup {l}
    /\ UNCHANGED <<now, mapperVars, handed>>

\* complete
Complete(l) ==
    /\ Owned(l)
    /\ MapperMove(l.task, "completed")
    /\ JournalComplete(l.task)
    /\ decided' = decided \cup {l}
    /\ UNCHANGED <<now, handed>>

Exhausted(t) == attempts[t] >= MaxAttempts

\* fail: to the dead letters when the attempts are used up, else a retry.
Fail(l, backoff) ==
    /\ Owned(l)
    /\ \/ /\ Exhausted(l.task)
          /\ MapperMove(l.task, "failed")
          /\ JournalDeadLetter(l.task)
       \/ /\ ~ Exhausted(l.task)
          /\ MapperMove(l.task, "ready")
          /\ JournalQueue(l.task, now + backoff)
          /\ UNCHANGED deadLetters
    /\ decided' = decided \cup {l}
    /\ UNCHANGED <<now, handed>>

\* Faulty variant of Requeue: whatever is not queued can be requeued.
RequeueAny(t) ==
    /\ state[t] \notin {"absent", "queued"}
    /\ MapperMove(t, "ready")
    /\ JournalQueue(t, now)
    /\ deadLetters' = deadLetters \ {t}
    /\ UNCHANGED <<now, historyVars>>

\* requeue, by an operator; the attempts are not reset.
Requeue(t) ==
    /\ state[t] = "dead_letter"
    /\ MapperMove(t, "ready")
    /\ JournalQueue(t, now)
    /\ deadLetters' = deadLetters \ {t}
    /\ UNCHANGED <<now, historyVars>>

-----------------------------------------------------------------------------
(* A crash of the hub between the Mapper's write and the journal's.        *)

TornSubmit(t) ==
    /\ state[t] = "absent"
    /\ MapperEnqueue(t)
    /\ UNCHANGED <<now, journalVars, historyVars>>

TornClaim(t, ttl) ==
    /\ Claimable(t)
    /\ MapperClaim(t, ttl)
    /\ UNCHANGED <<now, journalVars, historyVars>>

TornHeartbeat(l, ttl) ==
    /\ Owned(l)
    /\ MapperHeartbeat(l.task, ttl)
    /\ UNCHANGED <<now, journalVars, historyVars>>

TornComplete(l) ==
    /\ Owned(l)
    /\ MapperMove(l.task, "completed")
    /\ decided' = decided \cup {l}
    /\ UNCHANGED <<now, journalVars, handed>>

TornFail(l) ==
    /\ Owned(l)
    /\ MapperMove(l.task, IF Exhausted(l.task) THEN "failed" ELSE "ready")
    /\ decided' = decided \cup {l}
    /\ UNCHANGED <<now, journalVars, handed>>

TornRequeue(t) ==
    /\ state[t] = "dead_letter"
    /\ MapperMove(t, "ready")
    /\ UNCHANGED <<now, journalVars, historyVars>>

\* Time passes.
Tick ==
    /\ now < MaxClock
    /\ now' = now + 1
    /\ UNCHANGED <<journalVars, mapperVars, historyVars>>

Crash ==
    \/ \E t \in Tasks : TornSubmit(t) \/ TornRequeue(t) \/ \E ttl \in TTLs : TornClaim(t, ttl)
    \/ \E l \in handed : TornComplete(l) \/ TornFail(l) \/ \E ttl \in TTLs : TornHeartbeat(l, ttl)

Next ==
    \/ \E t \in Tasks :
           \/ Submit(t) \/ AdmitHeld(t) \/ Requeue(t) \/ ClaimConflict(t)
           \/ \E ttl \in TTLs : Claim(t, ttl)
    \/ \E l \in handed :
           \/ Complete(l)
           \/ \E ttl \in TTLs : Heartbeat(l, ttl)
           \/ \E backoff \in Backoffs : Fail(l, backoff)
    \/ Crash
    \/ Tick

Spec == Init /\ [][Next]_queueVars

-----------------------------------------------------------------------------
(***************************************************************************)
(* Leases are never confused: two leases of one task that reached workers  *)
(* differ in both their fence and their Mapper fence, also when a crash    *)
(* lost a claim that the Mapper had already granted.                       *)
(***************************************************************************)
LeasesUnique ==
    \A l, m \in handed :
        l.task = m.task /\ (l.fence = m.fence \/ l.id = m.id) => l = m

(***************************************************************************)
(* Only the newest lease of a task decides its outcome: a worker whose     *)
(* lease expired and was handed on cannot complete or fail the task, not   *)
(* even after a crash that rolled the journal back.                        *)
(***************************************************************************)
NewestLeaseDecides ==
    [][ \A l \in decided' \ decided : \A m \in handed :
            m.task = l.task => m.fence <= l.fence ]_queueVars

(***************************************************************************)
(* Completion is final: a task the Mapper has completed stays completed    *)
(* and is never handed to a worker again, although after a crash inside    *)
(* complete the journal still calls it leased and its lease runs out.      *)
(***************************************************************************)
CompletionIsFinal ==
    [][ \A t \in Tasks : mapper[t] = "completed" =>
            /\ mapper'[t] = "completed"
            /\ \A l \in handed' \ handed : l.task # t ]_queueVars

(***************************************************************************)
(* The journal never runs ahead of the authority: what it calls completed  *)
(* the Mapper has completed, what it calls leased the Mapper has leased    *)
(* under that very fence or has since moved on, and a task it has not yet  *)
(* recorded no worker holds.                                               *)
(***************************************************************************)
JournalNeverAhead ==
    \A t \in Tasks :
        /\ state[t] = "completed" => mapper[t] = "completed"
        /\ leaseId[t] <= mapperFence[t]
        /\ expires[t] > now /\ mapper[t] = "leased" => mapperFence[t] = leaseId[t]
        /\ state[t] = "admitted_held" => mapper[t] = "ready" /\ mapperFence[t] = 0
        /\ state[t] = "absent" => \A l \in handed : l.task # t
=============================================================================
