-------------------------- MODULE HubPartsProofs ----------------------------
(***************************************************************************)
(* The theorems about the two parts of the hub whose guarantees its service*)
(* inherits.  HubRetryQueue: for every set of tasks, every max_attempts and*)
(* every lifetime and backoff, with a crash possible between the two writes*)
(* of every operation.  ResourceGovernor: for every finite set of lease    *)
(* keys, all clients, requests and limits and every threshold and cooldown.*)
(***************************************************************************)
EXTENDS HubRetryQueue, ResourceGovernor, FiniteSetTheorems, NaturalsInduction, WellFoundedInduction, TLAPS

-----------------------------------------------------------------------------
(* HubRetryQueue: leases, their journal and the Mapper's.                  *)

\* What was handed out is no newer than the journal and the Mapper are.
HandedBounded ==
    \A l \in handed : l.fence <= fence[l.task] /\ l.id <= mapperFence[l.task]

\* Where the two stores may stand apart: a job not yet recorded may already
\* be enqueued, a dead letter may already be ready again; and only a leased
\* job has an expiry.
StoresAgree ==
    \A t \in Tasks :
        /\ state[t] = "absent" => mapper[t] \in {"absent", "ready"} /\ mapperFence[t] = 0
        /\ state[t] = "dead_letter" => mapper[t] \in {"failed", "ready"}
        /\ state[t] # "leased" => expires[t] = 0

\* The inductive invariant.
QueueInv == TypeOK /\ HandedBounded /\ LeasesUnique /\ StoresAgree /\ JournalNeverAhead

-----------------------------------------------------------------------------
\* The initial state satisfies the invariant.
LEMMA QueueInit == Init => QueueInv
<1> SUFFICES ASSUME Init PROVE QueueInv
  OBVIOUS
<1>1. TypeOK
  BY DEF Init, TypeOK, Zero, JobStates, MapperStates
<1>2. HandedBounded /\ LeasesUnique
  BY DEF Init, HandedBounded, LeasesUnique
<1>3. StoresAgree /\ JournalNeverAhead
  BY DEF Init, StoresAgree, JournalNeverAhead, Zero
<1> QED
  BY <1>1, <1>2, <1>3 DEF QueueInv

\* Reclaiming only turns expired leases ready.
LEMMA ReclaimedType ==
    ASSUME TypeOK
    PROVE  /\ Reclaimed \in [Tasks -> MapperStates]
           /\ \A t \in Tasks : Reclaimed[t] = mapper[t] \/
                  (mapper[t] = "leased" /\ Reclaimed[t] = "ready")
BY DEF TypeOK, Reclaimed, MapperStates

-----------------------------------------------------------------------------
\* Recording a new job, queued or held.
LEMMA RecordedKeeps ==
    ASSUME QueueInv, NEW t \in Tasks, NEW s \in {"queued", "admitted_held"},
           state[t] = "absent", MapperEnqueue(t), Recorded(t, s),
           UNCHANGED <<now, historyVars>>
    PROVE  QueueInv'
<1> USE DEF MapperEnqueue, Recorded, historyVars
<1>1. TypeOK'
  BY DEF QueueInv, TypeOK, JobStates, MapperStates
<1>2. HandedBounded' /\ LeasesUnique'
  BY DEF QueueInv, TypeOK, HandedBounded, LeasesUnique, JournalNeverAhead, RetryLease
<1>3. StoresAgree'
  BY DEF QueueInv, TypeOK, StoresAgree
<1>4. JournalNeverAhead'
  BY DEF QueueInv, TypeOK, StoresAgree, JournalNeverAhead
<1> QED
  BY <1>1, <1>2, <1>3, <1>4 DEF QueueInv

\* Claiming a task, and handing its lease to a worker.
LEMMA ClaimKeeps ==
    ASSUME QueueInv, NEW t \in Tasks, NEW ttl \in TTLs, Claim(t, ttl)
    PROVE  QueueInv'
<1> DEFINE lease == [task |-> t, id |-> leaseId'[t], fence |-> fence'[t]]
<1> USE QueueAssumption
<1>0. ttl \in Nat /\ TypeOK
  BY DEF QueueInv
<1>1. TypeOK'
  BY <1>0, ReclaimedType DEF QueueInv, TypeOK, Claim, MapperClaim, JournalClaim, JobStates, MapperStates, RetryLease
<1>2. /\ fence'[t] = fence[t] + 1 /\ mapperFence'[t] = mapperFence[t] + 1
      /\ leaseId'[t] = mapperFence[t] + 1
      /\ \A u \in Tasks \ {t} : fence'[u] = fence[u] /\ mapperFence'[u] = mapperFence[u]
      /\ handed' = handed \cup {lease}
  BY <1>0 DEF TypeOK, Claim, MapperClaim, JournalClaim
<1>3. HandedBounded'
  BY <1>0, <1>2 DEF QueueInv, TypeOK, HandedBounded, RetryLease
<1>4. LeasesUnique'
  BY <1>0, <1>2 DEF QueueInv, TypeOK, HandedBounded, LeasesUnique, RetryLease
<1>5. StoresAgree'
  BY <1>0, ReclaimedType DEF QueueInv, TypeOK, StoresAgree, Claim, MapperClaim, JournalClaim, Claimable
<1>6. JournalNeverAhead'
  BY <1>0, ReclaimedType DEF QueueInv, TypeOK, JournalNeverAhead, StoresAgree, Claim, MapperClaim, JournalClaim, Claimable
<1> QED
  BY <1>1, <1>3, <1>4, <1>5, <1>6 DEF QueueInv

\* A claim the Mapper granted and the journal never recorded.
LEMMA TornClaimKeeps ==
    ASSUME QueueInv, NEW t \in Tasks, NEW ttl \in TTLs, TornClaim(t, ttl)
    PROVE  QueueInv'
<1> USE QueueAssumption DEF TornClaim, MapperClaim, journalVars, historyVars
<1>0. ttl \in Nat /\ TypeOK
  BY DEF QueueInv
<1>1. TypeOK'
  BY <1>0, ReclaimedType DEF TypeOK, MapperStates
<1>2. HandedBounded' /\ LeasesUnique'
  BY <1>0 DEF QueueInv, TypeOK, HandedBounded, LeasesUnique, RetryLease
<1>3. StoresAgree'
  BY <1>0, ReclaimedType DEF QueueInv, TypeOK, StoresAgree, Claimable
<1>4. JournalNeverAhead'
  BY <1>0, ReclaimedType DEF QueueInv, TypeOK, JournalNeverAhead, StoresAgree, Claimable
<1> QED
  BY <1>1, <1>2, <1>3, <1>4 DEF QueueInv

\* A refused claim only reclaims.
LEMMA ClaimConflictKeeps ==
    ASSUME QueueInv, NEW t \in Tasks, ClaimConflict(t)
    PROVE  QueueInv'
<1> USE DEF ClaimConflict, journalVars, historyVars
<1>0. TypeOK
  BY DEF QueueInv
<1>1. TypeOK'
  BY <1>0, ReclaimedType DEF TypeOK
<1>2. HandedBounded' /\ LeasesUnique'
  BY DEF QueueInv, HandedBounded, LeasesUnique
<1>3. StoresAgree'
  BY <1>0, ReclaimedType DEF QueueInv, TypeOK, StoresAgree
<1>4. JournalNeverAhead'
  BY <1>0, ReclaimedType DEF QueueInv, TypeOK, JournalNeverAhead
<1> QED
  BY <1>1, <1>2, <1>3, <1>4 DEF QueueInv

-----------------------------------------------------------------------------
\* A lease that passes _owned belongs to a task both stores call leased.
LEMMA OwnedIsLeased ==
    ASSUME QueueInv, NEW l \in handed, Owned(l)
    PROVE  /\ l.task \in Tasks /\ l.id \in Nat /\ l.fence \in Nat
           /\ state[l.task] = "leased" /\ mapper[l.task] = "leased"
           /\ fence[l.task] = l.fence /\ leaseId[l.task] = l.id /\ mapperFence[l.task] = l.id
BY DEF QueueInv, TypeOK, RetryLease, Owned, MapperActive

\* heartbeat, with or without its journal entry.
LEMMA HeartbeatKeeps ==
    ASSUME QueueInv, NEW l \in handed, NEW ttl \in TTLs,
           Heartbeat(l, ttl) \/ TornHeartbeat(l, ttl)
    PROVE  QueueInv'
<1> USE QueueAssumption DEF Heartbeat, TornHeartbeat, MapperHeartbeat, journalVars, historyVars
<1>0. ttl \in Nat /\ TypeOK /\ Owned(l)
  BY DEF QueueInv
<1>1. TypeOK'
  BY <1>0, OwnedIsLeased DEF TypeOK
<1>2. HandedBounded' /\ LeasesUnique'
  BY DEF QueueInv, HandedBounded, LeasesUnique
<1>3. StoresAgree'
  BY <1>0, OwnedIsLeased DEF QueueInv, TypeOK, StoresAgree
<1>4. JournalNeverAhead'
  BY <1>0, OwnedIsLeased DEF QueueInv, TypeOK, JournalNeverAhead
<1> QED
  BY <1>1, <1>2, <1>3, <1>4 DEF QueueInv

\* complete, with or without its journal entry.
LEMMA CompleteKeeps ==
    ASSUME QueueInv, NEW l \in handed, Complete(l) \/ TornComplete(l)
    PROVE  QueueInv'
<1> USE DEF Complete, TornComplete, MapperMove, JournalComplete, journalVars
<1>0. TypeOK /\ Owned(l)
  BY DEF QueueInv
<1>1. TypeOK'
  BY <1>0, OwnedIsLeased DEF TypeOK, JobStates, MapperStates
<1>2. HandedBounded' /\ LeasesUnique'
  BY DEF QueueInv, HandedBounded, LeasesUnique
<1>3. StoresAgree'
  BY <1>0, OwnedIsLeased DEF QueueInv, TypeOK, StoresAgree
<1>4. JournalNeverAhead'
  BY <1>0, OwnedIsLeased DEF QueueInv, TypeOK, JournalNeverAhead
<1> QED
  BY <1>1, <1>2, <1>3, <1>4 DEF QueueInv

\* fail, to a retry or to the dead letters.
LEMMA FailKeeps ==
    ASSUME QueueInv, NEW l \in handed, NEW backoff \in Backoffs, Fail(l, backoff)
    PROVE  QueueInv'
<1> USE QueueAssumption DEF Fail, MapperMove, JournalDeadLetter, JournalQueue
<1>0. backoff \in Nat /\ TypeOK /\ Owned(l)
  BY DEF QueueInv
<1>1. TypeOK'
  BY <1>0, OwnedIsLeased DEF TypeOK, JobStates, MapperStates
<1>2. HandedBounded' /\ LeasesUnique'
  BY DEF QueueInv, HandedBounded, LeasesUnique
<1>3. StoresAgree'
  BY <1>0, OwnedIsLeased DEF QueueInv, TypeOK, StoresAgree
<1>4. JournalNeverAhead'
  BY <1>0, OwnedIsLeased DEF QueueInv, TypeOK, JournalNeverAhead
<1> QED
  BY <1>1, <1>2, <1>3, <1>4 DEF QueueInv

\* fail, cut short before its journal entry.
LEMMA TornFailKeeps ==
    ASSUME QueueInv, NEW l \in handed, TornFail(l)
    PROVE  QueueInv'
<1> USE DEF TornFail, MapperMove, journalVars
<1>0. TypeOK /\ Owned(l)
  BY DEF QueueInv
<1>1. TypeOK'
  BY <1>0, OwnedIsLeased DEF TypeOK, MapperStates
<1>2. HandedBounded' /\ LeasesUnique'
  BY DEF QueueInv, HandedBounded, LeasesUnique
<1>3. StoresAgree'
  BY <1>0, OwnedIsLeased DEF QueueInv, TypeOK, StoresAgree
<1>4. JournalNeverAhead'
  BY <1>0, OwnedIsLeased DEF QueueInv, TypeOK, JournalNeverAhead
<1> QED
  BY <1>1, <1>2, <1>3, <1>4 DEF QueueInv

\* requeue, with or without its journal entry, and a submit cut short.
LEMMA RequeueKeeps ==
    ASSUME QueueInv, NEW t \in Tasks, Requeue(t) \/ TornRequeue(t) \/ TornSubmit(t)
    PROVE  QueueInv'
<1> USE DEF Requeue, TornRequeue, TornSubmit, MapperMove, MapperEnqueue, JournalQueue, journalVars, historyVars
<1>1. TypeOK'
  BY DEF QueueInv, TypeOK, JobStates, MapperStates
<1>2. HandedBounded' /\ LeasesUnique'
  BY DEF QueueInv, HandedBounded, LeasesUnique
<1>3. StoresAgree'
  BY DEF QueueInv, TypeOK, StoresAgree
<1>4. JournalNeverAhead'
  BY DEF QueueInv, TypeOK, JournalNeverAhead, StoresAgree
<1> QED
  BY <1>1, <1>2, <1>3, <1>4 DEF QueueInv

\* Time passes, or nothing happens.
LEMMA TimeKeeps ==
    ASSUME QueueInv, Tick \/ UNCHANGED queueVars
    PROVE  QueueInv'
<1> USE DEF Tick, queueVars, journalVars, mapperVars, historyVars
<1>1. TypeOK'
  BY DEF QueueInv, TypeOK
<1>2. HandedBounded' /\ LeasesUnique' /\ StoresAgree'
  BY DEF QueueInv, HandedBounded, LeasesUnique, StoresAgree
<1>3. JournalNeverAhead'
  BY DEF QueueInv, TypeOK, JournalNeverAhead
<1> QED
  BY <1>1, <1>2, <1>3 DEF QueueInv

\* Every step keeps the invariant.
LEMMA QueueStep == QueueInv /\ [Next]_queueVars => QueueInv'
<1> SUFFICES ASSUME QueueInv, [Next]_queueVars PROVE QueueInv'
  OBVIOUS
<1>1. ASSUME NEW t \in Tasks, Submit(t) \/ AdmitHeld(t) PROVE QueueInv'
  BY <1>1, RecordedKeeps DEF Submit, AdmitHeld
<1>2. ASSUME NEW t \in Tasks, Requeue(t) \/ TornRequeue(t) \/ TornSubmit(t) PROVE QueueInv'
  BY <1>2, RequeueKeeps
<1>3. ASSUME NEW t \in Tasks, ClaimConflict(t) PROVE QueueInv'
  BY <1>3, ClaimConflictKeeps
<1>4. ASSUME NEW t \in Tasks, NEW ttl \in TTLs, Claim(t, ttl) \/ TornClaim(t, ttl) PROVE QueueInv'
  BY <1>4, ClaimKeeps, TornClaimKeeps
<1>5. ASSUME NEW l \in handed, Complete(l) \/ TornComplete(l) PROVE QueueInv'
  BY <1>5, CompleteKeeps
<1>6. ASSUME NEW l \in handed, NEW ttl \in TTLs, Heartbeat(l, ttl) \/ TornHeartbeat(l, ttl)
      PROVE QueueInv'
  BY <1>6, HeartbeatKeeps
<1>7. ASSUME NEW l \in handed, NEW backoff \in Backoffs, Fail(l, backoff) PROVE QueueInv'
  BY <1>7, FailKeeps
<1>8. ASSUME NEW l \in handed, TornFail(l) PROVE QueueInv'
  BY <1>8, TornFailKeeps
<1>9. CASE Tick \/ UNCHANGED queueVars
  BY <1>9, TimeKeeps
<1> QED
  BY <1>1, <1>2, <1>3, <1>4, <1>5, <1>6, <1>7, <1>8, <1>9 DEF Next, Crash

-----------------------------------------------------------------------------
\* The invariant holds in every reachable state.
THEOREM QueueSafe == Spec => []QueueInv
BY QueueInit, QueueStep, PTL DEF Spec

\* Every variable of the durable queue keeps its type, and only leases that
\* claim returned ever decide an outcome.
THEOREM QueueTypeCorrect == Spec => []TypeOK
<1>1. QueueInv => TypeOK
  BY DEF QueueInv
<1> QED
  BY <1>1, QueueSafe, PTL

\* No two leases of a task that reached workers share the hub's fence or the
\* Mapper's: claim_specific's old_fence + 1 is safe in spite of lost entries.
THEOREM LeasesAreUnique == Spec => []LeasesUnique
<1>1. QueueInv => LeasesUnique
  BY DEF QueueInv
<1> QED
  BY <1>1, QueueSafe, PTL

\* The journal never claims more than the Mapper has done, whichever write of
\* submit, claim, complete, fail or requeue a crash cuts off.
THEOREM JournalFollowsMapper == Spec => []JournalNeverAhead
<1>1. QueueInv => JournalNeverAhead
  BY DEF QueueInv
<1> QED
  BY <1>1, QueueSafe, PTL

-----------------------------------------------------------------------------
\* An outcome is only decided by a call of complete or fail that passed
\* _owned.
LEMMA OnlyOwnersDecide ==
    ASSUME QueueInv, [Next]_queueVars, NEW l \in decided' \ decided
    PROVE  l \in handed /\ Owned(l)
<1>1. CASE \E m \in handed : Owned(m) /\ decided' = decided \cup {m}
  BY <1>1
<1>2. CASE decided' = decided
  BY <1>2
<1> QED
  BY <1>1, <1>2
     DEF Next, Crash, Submit, AdmitHeld, Requeue, ClaimConflict, Claim, Complete, Heartbeat, Fail,
         TornSubmit, TornRequeue, TornClaim, TornComplete, TornFail, TornHeartbeat, Tick,
         queueVars, historyVars

\* Only the newest lease of a task decides its outcome (_owned compares the
\* fence), for any number of workers, expiries and crashes.
THEOREM NewestDecides == Spec => NewestLeaseDecides
<1> DEFINE Step == \A l \in decided' \ decided : \A m \in handed :
                       m.task = l.task => m.fence <= l.fence
<1>1. QueueInv /\ [Next]_queueVars => Step
  <2> SUFFICES ASSUME QueueInv, [Next]_queueVars,
                      NEW l \in decided' \ decided, NEW m \in handed, m.task = l.task
               PROVE  m.fence <= l.fence
    OBVIOUS
  <2>1. fence[l.task] = l.fence
    BY OnlyOwnersDecide DEF Owned
  <2> QED
    BY <2>1 DEF QueueInv, HandedBounded
<1>2. QueueInv /\ [Next]_queueVars => [Step]_queueVars
  BY <1>1
<1> QED
  BY <1>2, QueueSafe, PTL DEF Spec, NewestLeaseDecides

\* What a step may do to the Mapper's state of a task and to the leases
\* handed out.
LEMMA CompletedStays ==
    ASSUME QueueInv, [Next]_queueVars, NEW u \in Tasks, mapper[u] = "completed"
    PROVE  mapper'[u] = "completed" /\ \A l \in handed' \ handed : l.task # u
<1>0. TypeOK
  BY DEF QueueInv
<1>1. ASSUME NEW t \in Tasks, Submit(t) \/ AdmitHeld(t) \/ TornSubmit(t)
      PROVE mapper'[u] = "completed" /\ handed' = handed
  BY <1>0, <1>1 DEF TypeOK, Submit, AdmitHeld, TornSubmit, MapperEnqueue, historyVars
<1>2. ASSUME NEW t \in Tasks, Requeue(t) \/ TornRequeue(t)
      PROVE mapper'[u] = "completed" /\ handed' = handed
  BY <1>0, <1>2 DEF QueueInv, StoresAgree, TypeOK, Requeue, TornRequeue, MapperMove, historyVars
<1>3. ASSUME NEW t \in Tasks, ClaimConflict(t)
      PROVE mapper'[u] = "completed" /\ handed' = handed
  BY <1>0, <1>3, ReclaimedType DEF ClaimConflict, historyVars
<1>4. ASSUME NEW t \in Tasks, NEW ttl \in TTLs, Claim(t, ttl) \/ TornClaim(t, ttl)
      PROVE mapper'[u] = "completed" /\ \A l \in handed' \ handed : l.task # u
  <2>1. u # t /\ mapper'[u] = "completed"
    BY <1>0, <1>4, ReclaimedType DEF TypeOK, Claim, TornClaim, MapperClaim
  <2>2. \A l \in handed' \ handed : l.task = t
    BY <1>4 DEF Claim, TornClaim, historyVars
  <2> QED
    BY <2>1, <2>2
<1>5. ASSUME NEW l \in handed, Complete(l) \/ TornComplete(l) \/ TornFail(l)
      PROVE mapper'[u] = "completed" /\ handed' = handed
  BY <1>0, <1>5, OwnedIsLeased DEF TypeOK, Complete, TornComplete, TornFail, MapperMove
<1>6. ASSUME NEW l \in handed, NEW backoff \in Backoffs, Fail(l, backoff)
      PROVE mapper'[u] = "completed" /\ handed' = handed
  BY <1>0, <1>6, OwnedIsLeased DEF TypeOK, Fail, MapperMove
<1>7. ASSUME NEW l \in handed, NEW ttl \in TTLs, Heartbeat(l, ttl) \/ TornHeartbeat(l, ttl)
      PROVE mapper'[u] = "completed" /\ handed' = handed
  BY <1>7 DEF Heartbeat, TornHeartbeat, MapperHeartbeat, historyVars
<1>8. ASSUME Tick \/ UNCHANGED queueVars
      PROVE mapper'[u] = "completed" /\ handed' = handed
  BY <1>8 DEF Tick, queueVars, mapperVars, historyVars
<1> QED
  BY <1>1, <1>2, <1>3, <1>4, <1>5, <1>6, <1>7, <1>8 DEF Next, Crash

\* A completed task stays completed and is never handed out again, wherever
\* complete is cut short: claim_specific asks the Mapper, requeue only takes
\* dead letters.
THEOREM CompletedForGood == Spec => CompletionIsFinal
<1> DEFINE Step == \A t \in Tasks : mapper[t] = "completed" =>
                       /\ mapper'[t] = "completed"
                       /\ \A l \in handed' \ handed : l.task # t
<1>1. QueueInv /\ [Next]_queueVars => Step
  BY CompletedStays
<1>2. QueueInv /\ [Next]_queueVars => [Step]_queueVars
  BY <1>1
<1> QED
  BY <1>2, QueueSafe, PTL DEF Spec, CompletionIsFinal

-----------------------------------------------------------------------------
(* ResourceGovernor: the breaker's probation, the drain, exact usage       *)
(* counters and budgets that hold.                                         *)

\* The inductive invariants: the breaker's variables, and the lease table.
CircuitInv ==
    /\ circuit \in {"closed", "open", "half_open"}
    /\ failures \in 0..Threshold
    /\ HalfOpenOnProbation

LeasesTyped ==
    /\ resourceLeases \in [LeaseKeys -> ResourceLease \cup {NotLeased}]
    /\ draining \in BOOLEAN

\* Consulting the breaker never closes a tripped one nor trips a closed one.
LEMMA AllowKeeps ==
    ASSUME CircuitInv, circuit' \in {circuit, AfterAllow}, UNCHANGED failures
    PROVE  CircuitInv'
BY GovernorAssumption DEF CircuitInv, HalfOpenOnProbation, AfterAllow

\* Every step keeps the breaker's invariant.
LEMMA CircuitStep == CircuitInv /\ [GovernorNext]_governorVars => CircuitInv'
<1> SUFFICES ASSUME CircuitInv, [GovernorNext]_governorVars PROVE CircuitInv'
  OBVIOUS
<1> USE DEF circuitVars, budgetVars, governorVars
<1>1. ASSUME NEW c \in Clients, NEW k \in LeaseKeys, NEW request \in Requests,
             Admit(c, k, request) \/ Throttle(c, k, request)
      PROVE  CircuitInv'
  BY <1>1, AllowKeeps DEF Admit, Throttle
<1>2. ASSUME NEW k \in LeaseKeys, AdmitAgain(k) \/ Release(k)
      PROVE  CircuitInv'
  BY <1>2 DEF AdmitAgain, Release, CircuitInv, HalfOpenOnProbation
<1>3. CASE RecordFailure
  BY <1>3, GovernorAssumption DEF RecordFailure, CircuitInv, HalfOpenOnProbation
<1>4. CASE UnderBudgetReading \/ Recover
  BY <1>4, GovernorAssumption
     DEF UnderBudgetReading, Recover, CloseCircuit, CircuitInv, HalfOpenOnProbation
<1>5. CASE Drain \/ Shutdown \/ Cool \/ UNCHANGED governorVars
  BY <1>5 DEF Drain, Shutdown, Cool, CircuitInv, HalfOpenOnProbation
<1> QED
  BY <1>1, <1>2, <1>3, <1>4, <1>5 DEF GovernorNext

\* A breaker that is not closed has all its failures on the books, so the next
\* over-budget reading in evaluate_pressure trips it at once; a closed one has
\* not: allow, record_failure and recover never get out of step.
THEOREM BreakerOnProbation == GovernorSpec => []HalfOpenOnProbation
<1>1. GovernorInit => CircuitInv
  BY GovernorAssumption DEF GovernorInit, CircuitInv, HalfOpenOnProbation
<1>2. CircuitInv => HalfOpenOnProbation
  BY DEF CircuitInv
<1> QED
  BY <1>1, <1>2, CircuitStep, PTL DEF GovernorSpec

-----------------------------------------------------------------------------
\* Every step keeps the lease table's type.
LEMMA LeasesStep == LeasesTyped /\ [GovernorNext]_governorVars => LeasesTyped'
<1> SUFFICES ASSUME LeasesTyped, [GovernorNext]_governorVars PROVE LeasesTyped'
  OBVIOUS
<1> USE DEF LeasesTyped, budgetVars, governorVars
<1>1. ASSUME NEW c \in Clients, NEW k \in LeaseKeys, NEW request \in Requests,
             Admit(c, k, request) \/ Throttle(c, k, request)
      PROVE  LeasesTyped'
  BY <1>1 DEF Admit, Throttle, ResourceLease
<1>2. ASSUME NEW k \in LeaseKeys, AdmitAgain(k) \/ Release(k)
      PROVE  LeasesTyped'
  BY <1>2 DEF AdmitAgain, Release
<1>3. CASE RecordFailure \/ UnderBudgetReading \/ Recover \/ Drain \/ Cool \/ UNCHANGED governorVars
  BY <1>3 DEF RecordFailure, UnderBudgetReading, Recover, Drain, Cool
<1>4. CASE Shutdown
  BY <1>4 DEF Shutdown
<1> QED
  BY <1>1, <1>2, <1>3, <1>4 DEF GovernorNext

\* Once drain() or shutdown() was called the governor only winds down: no step
\* of any caller adds or changes a lease, and nothing ends the drain.
THEOREM DrainWindsDown == GovernorSpec => DrainOnlyReleases
<1> DEFINE Step == draining => /\ draining'
                               /\ \A k \in LeaseKeys :
                                      resourceLeases'[k] \in {resourceLeases[k], NotLeased}
<1>1. GovernorInit => LeasesTyped
  BY DEF GovernorInit, LeasesTyped
<1>2. LeasesTyped /\ [GovernorNext]_governorVars => Step
  <2> SUFFICES ASSUME LeasesTyped, [GovernorNext]_governorVars, draining PROVE
          draining' /\ \A k \in LeaseKeys : resourceLeases'[k] \in {resourceLeases[k], NotLeased}
    OBVIOUS
  <2> USE DEF LeasesTyped, budgetVars, governorVars
  <2>1. ASSUME NEW c \in Clients, NEW k \in LeaseKeys, NEW request \in Requests,
               Admit(c, k, request) \/ Throttle(c, k, request)
        PROVE  draining' /\ resourceLeases' = resourceLeases
    BY <2>1 DEF Admit, Throttle, Admits
  <2>2. ASSUME NEW k \in LeaseKeys, AdmitAgain(k) \/ Release(k)
        PROVE  draining' /\ \A j \in LeaseKeys : resourceLeases'[j] \in {resourceLeases[j], NotLeased}
    BY <2>2 DEF AdmitAgain, Release
  <2>3. CASE RecordFailure \/ UnderBudgetReading \/ Recover \/ Drain \/ Cool \/ UNCHANGED governorVars
    BY <2>3 DEF RecordFailure, UnderBudgetReading, Recover, Drain, Cool
  <2>4. CASE Shutdown
    BY <2>4 DEF Shutdown
  <2> QED
    BY <2>1, <2>2, <2>3, <2>4 DEF GovernorNext
<1>3. LeasesTyped /\ [GovernorNext]_governorVars => [Step]_governorVars
  BY <1>2
<1> QED
  BY <1>1, <1>3, LeasesStep, PTL DEF GovernorSpec, DrainOnlyReleases

-----------------------------------------------------------------------------
\* Sums over leases.  MapThenSumSet adds up in an order of its own choosing, by
\* recursion on the set; counting the units that are held gives the same number
\* and obeys the laws of Cardinality.

\* What the leases of table L under the keys K hold of r, as HeldBy states it.
SumOf(L, r, K) == MapThenSumSet(LAMBDA k : L[k].request[r], K)

\* The element the recursion takes out of s.
AnyOf(s) == CHOOSE x \in s : TRUE

\* h is the recursive function that adds up the amounts over the subsets of K.
Sums(h, L, r, K) ==
    h = [s \in SUBSET K |-> IF s = {} THEN 0
                            ELSE L[AnyOf(s)].request[r] + h[s \ {AnyOf(s)}]]

\* One unit of r for each unit the leases under K hold.
Units(L, r, K) == {p \in K \X Nat : p[2] < L[p[1]].request[r]}
UnitsOf(L, r, k) == {k} \X (0 .. L[k].request[r] - 1)

\* The order on Nat, as a relation.
Before == {p \in Nat \X Nat : p[1] < p[2]}

\* A set of natural numbers has a least element.
LEMMA LeastElement == ASSUME NEW S \in SUBSET Nat, S # {}
                      PROVE  \E m \in S : \A k \in S : m <= k
<1>1. IsWellFoundedOn(Before, Nat)
  BY NatLessThanWellFounded DEF OpToRel, Before
<1>2. PICK m \in S : \A k \in S : ~ (<<k, m>> \in Before)
  BY <1>1, WFMin, Zenon
<1>3. \A k \in S : ~ (k < m)
  BY <1>2 DEF Before
<1> QED
  BY <1>3

\* The sum is the value at K of the function its recursion defines.
LEMMA SumUnfolds == ASSUME NEW L, NEW r, NEW K
  PROVE SumOf(L, r, K) = (CHOOSE h : Sums(h, L, r, K))[K]
BY DEF SumOf, MapThenSumSet, MapThenFoldSet, Sums, AnyOf

\* A lease holds as many units as it asked for.
LEMMA UnitsOfFinite ==
    ASSUME NEW L, NEW r, NEW k, L[k].request[r] \in Nat
    PROVE  /\ IsFiniteSet(UnitsOf(L, r, k))
           /\ Cardinality(UnitsOf(L, r, k)) = L[k].request[r]
<1> DEFINE n == L[k].request[r]
<1>1. IsFiniteSet(0 .. n - 1) /\ Cardinality(0 .. n - 1) = n
  <2>1. n \in Nat
    OBVIOUS
  <2> HIDE DEF n
  <2> QED
    BY <2>1, FS_Interval
<1>2. IsFiniteSet({k}) /\ Cardinality({k}) = 1
  BY FS_Singleton
<1>3. IsFiniteSet({k} \X (0 .. n - 1)) /\ Cardinality({k} \X (0 .. n - 1)) = 1 * n
  BY <1>1, <1>2, FS_Product
<1> QED
  BY <1>3 DEF UnitsOf

\* Finitely many leases hold finitely many units.
LEMMA UnitsFinite ==
    ASSUME NEW L, NEW r, NEW K, IsFiniteSet(K), \A k \in K : L[k].request[r] \in Nat
    PROVE  IsFiniteSet(Units(L, r, K))
<1> DEFINE f == [k \in K |-> UnitsOf(L, r, k)]
           T == {UnitsOf(L, r, k) : k \in K}
<1>1. f \in Surjection(K, T)
  BY DEF Surjection
<1>2. IsFiniteSet(T)
  BY <1>1, FS_Surjection
<1>3. \A u \in T : IsFiniteSet(u)
  BY UnitsOfFinite
<1>4. IsFiniteSet(UNION T)
  BY <1>2, <1>3, FS_UNION
<1>5. Units(L, r, K) \subseteq UNION T
  <2> SUFFICES ASSUME NEW p \in Units(L, r, K) PROVE p \in UNION T
    OBVIOUS
  <2>1. p \in K \X Nat /\ p[2] < L[p[1]].request[r]
    BY DEF Units
  <2>2. p[1] \in K /\ p[2] \in 0 .. L[p[1]].request[r] - 1 /\ p = <<p[1], p[2]>>
    BY <2>1
  <2>3. p \in UnitsOf(L, r, p[1])
    BY <2>2 DEF UnitsOf
  <2>4. UnitsOf(L, r, p[1]) \in T
    BY <2>2
  <2> QED
    BY <2>3, <2>4
<1> QED
  BY <1>4, <1>5, FS_Subset

\* Units add up lease by lease.
LEMMA UnitsAdd ==
    ASSUME NEW L, NEW r, NEW K, IsFiniteSet(K), \A k \in K : L[k].request[r] \in Nat,
           NEW x \in K
    PROVE  Cardinality(Units(L, r, K)) =
               L[x].request[r] + Cardinality(Units(L, r, K \ {x}))
<1> DEFINE A == UnitsOf(L, r, x)
           B == Units(L, r, K \ {x})
<1>1. IsFiniteSet(A) /\ Cardinality(A) = L[x].request[r]
  BY UnitsOfFinite
<1>2. IsFiniteSet(K \ {x})
  BY FS_RemoveElement
<1>3. IsFiniteSet(B)
  BY <1>2, UnitsFinite
<1>4. Units(L, r, K) = A \cup B
  BY DEF Units, UnitsOf
<1>5. A \cap B = {}
  BY DEF Units, UnitsOf
<1>6. Cardinality(A \cup B) = Cardinality(A) + Cardinality(B) - Cardinality(A \cap B)
  BY <1>1, <1>3, FS_Union
<1>7. Cardinality(A \cap B) = 0
  BY <1>5, FS_EmptySet
<1>8. Cardinality(B) \in Nat
  BY <1>3, FS_CardinalityType
<1> QED
  BY <1>1, <1>4, <1>6, <1>7, <1>8

\* No leases, no units.
LEMMA NoUnits == ASSUME NEW L, NEW r PROVE Cardinality(Units(L, r, {})) = 0
<1>1. Units(L, r, {}) = {}
  BY DEF Units
<1> QED
  BY <1>1, FS_EmptySet

\* The count of units satisfies the recursion of the sum.
LEMMA CountSums ==
    ASSUME NEW L, NEW r, NEW K, IsFiniteSet(K), \A k \in K : L[k].request[r] \in Nat
    PROVE  Sums([s \in SUBSET K |-> Cardinality(Units(L, r, s))], L, r, K)
<1> DEFINE g == [s \in SUBSET K |-> Cardinality(Units(L, r, s))]
<1>1. ASSUME NEW s \in SUBSET K, s # {}
      PROVE  g[s] = L[AnyOf(s)].request[r] + g[s \ {AnyOf(s)}]
  <2>1. AnyOf(s) \in s
    BY <1>1 DEF AnyOf
  <2>2. IsFiniteSet(s)
    BY FS_Subset
  <2>3. \A k \in s : L[k].request[r] \in Nat
    OBVIOUS
  <2>4. Cardinality(Units(L, r, s)) =
            L[AnyOf(s)].request[r] + Cardinality(Units(L, r, s \ {AnyOf(s)}))
    BY <2>1, <2>2, <2>3, UnitsAdd
  <2> QED
    BY <2>4
<1>2. g[{}] = 0
  BY NoUnits
<1>3. \A s \in SUBSET K : g[s] = IF s = {} THEN 0
                                 ELSE L[AnyOf(s)].request[r] + g[s \ {AnyOf(s)}]
  BY <1>1, <1>2
<1> HIDE DEF g
<1>4. g = [s \in SUBSET K |-> g[s]]
  BY DEF g
<1>5. Sums(g, L, r, K)
  BY <1>3, <1>4 DEF Sums
<1> QED
  BY <1>5 DEF g

\* No two functions do: a smallest set they differ on would not be smallest.
LEMMA SumsUnique ==
    ASSUME NEW L, NEW r, NEW K, IsFiniteSet(K), NEW g, NEW h,
           Sums(g, L, r, K), Sums(h, L, r, K)
    PROVE  g[K] = h[K]
<1> DEFINE Wrong == {s \in SUBSET K : g[s] # h[s]}
           Sizes == {Cardinality(s) : s \in Wrong}
<1> SUFFICES ASSUME Wrong # {} PROVE FALSE
  OBVIOUS
<1>1. \A s \in Wrong : IsFiniteSet(s) /\ Cardinality(s) \in Nat
  <2> TAKE s \in Wrong
  <2>1. IsFiniteSet(s)
    BY FS_Subset
  <2> QED
    BY <2>1, FS_CardinalityType
<1>2. Sizes \in SUBSET Nat /\ Sizes # {}
  BY <1>1
<1>3. PICK m \in Sizes : \A n \in Sizes : m <= n
  BY <1>2, LeastElement
<1>4. PICK s \in Wrong : m = Cardinality(s)
  BY <1>3
<1>5. s \in SUBSET K /\ g[s] # h[s]
  BY <1>4
<1>6. s # {}
  BY <1>5 DEF Sums
<1>7. g[s] = L[AnyOf(s)].request[r] + g[s \ {AnyOf(s)}]
  BY <1>5, <1>6 DEF Sums
<1>8. h[s] = L[AnyOf(s)].request[r] + h[s \ {AnyOf(s)}]
  BY <1>5, <1>6 DEF Sums
<1>9. s \ {AnyOf(s)} \in Wrong
  BY <1>5, <1>7, <1>8
<1>10. AnyOf(s) \in s
  BY <1>6 DEF AnyOf
<1>11. Cardinality(s \ {AnyOf(s)}) = Cardinality(s) - 1
  BY <1>1, <1>4, <1>10, FS_RemoveElement
<1>12. Cardinality(s \ {AnyOf(s)}) \in Sizes
  BY <1>9
<1>13. Cardinality(s) \in Nat
  BY <1>1
<1> HIDE DEF Sizes, Wrong
<1>14. m <= Cardinality(s \ {AnyOf(s)})
  BY <1>3, <1>12
<1> QED
  BY <1>4, <1>11, <1>13, <1>14

\* The sum of the requests is the number of units held.
LEMMA SumIsCount ==
    ASSUME NEW L, NEW r, NEW K, IsFiniteSet(K), \A k \in K : L[k].request[r] \in Nat
    PROVE  SumOf(L, r, K) = Cardinality(Units(L, r, K))
<1> DEFINE g == [s \in SUBSET K |-> Cardinality(Units(L, r, s))]
           h == CHOOSE j : Sums(j, L, r, K)
<1>1. Sums(g, L, r, K)
  BY CountSums
<1>2. Sums(h, L, r, K)
  BY <1>1
<1>3. g[K] = Cardinality(Units(L, r, K))
  OBVIOUS
<1> HIDE DEF g, h
<1>4. g[K] = h[K]
  BY <1>1, <1>2, SumsUnique
<1>5. SumOf(L, r, K) = h[K]
  BY SumUnfolds DEF h
<1> QED
  BY <1>3, <1>4, <1>5

\* The sum is a natural number.
LEMMA SumType ==
    ASSUME NEW L, NEW r, NEW K, IsFiniteSet(K), \A k \in K : L[k].request[r] \in Nat
    PROVE  SumOf(L, r, K) \in Nat
BY SumIsCount, UnitsFinite, FS_CardinalityType

\* Nothing is held under no key.
LEMMA SumEmpty == ASSUME NEW L, NEW r PROVE SumOf(L, r, {}) = 0
BY SumIsCount, NoUnits, FS_EmptySet

\* Every lease adds its request.
LEMMA SumAdd ==
    ASSUME NEW L, NEW r, NEW K, IsFiniteSet(K), \A k \in K : L[k].request[r] \in Nat,
           NEW x \in K
    PROVE  SumOf(L, r, K) = L[x].request[r] + SumOf(L, r, K \ {x})
<1>1. IsFiniteSet(K \ {x})
  BY FS_RemoveElement
<1>2. SumOf(L, r, K) = Cardinality(Units(L, r, K))
  BY SumIsCount
<1>3. SumOf(L, r, K \ {x}) = Cardinality(Units(L, r, K \ {x}))
  BY <1>1, SumIsCount
<1> QED
  BY <1>2, <1>3, UnitsAdd

\* The sum only depends on the leases it ranges over.
LEMMA SumSame ==
    ASSUME NEW L, NEW M, NEW r, NEW K, IsFiniteSet(K), \A k \in K : L[k].request[r] \in Nat,
           \A k \in K : M[k] = L[k]
    PROVE  SumOf(M, r, K) = SumOf(L, r, K)
<1>1. Units(M, r, K) = Units(L, r, K)
  BY DEF Units
<1>2. \A k \in K : M[k].request[r] \in Nat
  OBVIOUS
<1> QED
  BY <1>1, <1>2, SumIsCount

-----------------------------------------------------------------------------
LeaseTable == [LeaseKeys -> ResourceLease \cup {NotLeased}]

\* The keys the clients in D hold under table L, and what they hold of r.
KeysHeld(L, D) == {k \in LeaseKeys : L[k] # NotLeased /\ L[k].client \in D}
HeldIn(L, D, r) == SumOf(L, r, KeysHeld(L, D))

\* Sums over what the clients in D hold are sums of natural numbers over a
\* finite set.
LEMMA HeldSummable ==
    ASSUME NEW L \in LeaseTable, NEW D, NEW r \in Resources
    PROVE  /\ IsFiniteSet(KeysHeld(L, D))
           /\ \A k \in KeysHeld(L, D) : L[k].request[r] \in Nat
           /\ HeldIn(L, D, r) \in Nat
<1>1. IsFiniteSet(KeysHeld(L, D))
  BY GovernorAssumption, FS_Subset DEF KeysHeld
<1>2. ASSUME NEW k \in KeysHeld(L, D) PROVE L[k].request[r] \in Nat
  <2>1. L[k] \in ResourceLease
    BY DEF KeysHeld, LeaseTable
  <2>2. L[k].request \in Amounts
    BY <2>1, GovernorAssumption DEF ResourceLease
  <2> QED
    BY <2>2 DEF Amounts
<1> QED
  BY <1>1, <1>2, SumType DEF HeldIn

\* Taking the lease under k out of the table takes its request from its client's
\* sum and from no other.  Read backwards, this is admission.
LEMMA HeldWithout ==
    ASSUME NEW L \in LeaseTable, NEW M \in LeaseTable, NEW k \in LeaseKeys,
           L[k] # NotLeased, M[k] = NotLeased, \A j \in LeaseKeys \ {k} : M[j] = L[j],
           NEW D, NEW r \in Resources
    PROVE  HeldIn(L, D, r) = HeldIn(M, D, r) + (IF L[k].client \in D THEN L[k].request[r] ELSE 0)
<1> DEFINE K == KeysHeld(L, D)
           J == KeysHeld(M, D)
<1>2. IsFiniteSet(K) /\ \A j \in K : L[j].request[r] \in Nat
  BY HeldSummable
<1>3. IsFiniteSet(J) /\ (\A j \in J : M[j].request[r] \in Nat) /\ HeldIn(M, D, r) \in Nat
  BY HeldSummable
<1>4. J = K \ {k}
  BY DEF KeysHeld
<1>5. \A j \in J : L[j] = M[j]
  BY <1>4 DEF KeysHeld
<1>6. SumOf(L, r, J) = SumOf(M, r, J)
  <2> HIDE DEF J
  <2>1. IsFiniteSet(J) /\ \A j \in J : M[j].request[r] \in Nat
    BY <1>3
  <2>2. \A j \in J : L[j] = M[j]
    BY <1>5
  <2> QED
    BY <2>1, <2>2, SumSame
<1>7. CASE k \in K
  <2>1. SumOf(L, r, K) = L[k].request[r] + SumOf(L, r, K \ {k})
    <3> HIDE DEF K
    <3> QED
      BY <1>2, <1>7, SumAdd
  <2>2. L[k].client \in D /\ L[k].request[r] \in Nat
    BY <1>2, <1>7 DEF KeysHeld
  <2>3. SumOf(L, r, K) = L[k].request[r] + SumOf(M, r, J)
    BY <2>1, <1>4, <1>6
  <2> QED
    BY <2>2, <2>3, <1>3 DEF HeldIn
<1>8. CASE k \notin K
  <2>1. J = K /\ ~ (L[k].client \in D)
    BY <1>4, <1>8 DEF KeysHeld
  <2>2. HeldIn(L, D, r) = HeldIn(M, D, r)
    BY <2>1, <1>6 DEF HeldIn
  <2> QED
    BY <2>1, <2>2, <1>3
<1> QED
  BY <1>7, <1>8

\* UsageIsHeld in terms of HeldIn: all clients together, and each one.
UsageExact ==
    \A r \in Resources :
        /\ usage[r] = HeldIn(resourceLeases, Clients, r)
        /\ \A c \in Clients : clientUsage[c][r] = HeldIn(resourceLeases, {c}, r)

\* The inductive invariant of the budgets.
BudgetInv == GovernorTypeOK /\ UsageExact /\ BudgetsHold

\* The two ways of saying what is held agree.
LEMMA HeldByIsHeldIn ==
    ASSUME GovernorTypeOK
    PROVE  /\ Leased = KeysHeld(resourceLeases, Clients)
           /\ \A c : {k \in Leased : resourceLeases[k].client = c}
                        = KeysHeld(resourceLeases, {c})
           /\ \A r : HeldBy(Leased, r) = HeldIn(resourceLeases, Clients, r)
           /\ \A r, c : HeldBy({k \in Leased : resourceLeases[k].client = c}, r)
                           = HeldIn(resourceLeases, {c}, r)
<1>1. Leased = KeysHeld(resourceLeases, Clients)
  BY DEF GovernorTypeOK, Leased, KeysHeld, ResourceLease
<1>2. \A c : {k \in Leased : resourceLeases[k].client = c} = KeysHeld(resourceLeases, {c})
  BY DEF Leased, KeysHeld
<1>3. \A K, r : HeldBy(K, r) = SumOf(resourceLeases, r, K)
  BY DEF HeldBy, SumOf
<1> QED
  BY <1>1, <1>2, <1>3 DEF HeldIn

\* The two forms of the exactness of the counters are the same claim.
LEMMA ExactIsHeld == ASSUME GovernorTypeOK PROVE UsageExact <=> UsageIsHeld
BY HeldByIsHeldIn DEF UsageExact, UsageIsHeld

\* An admission adds the request to its client's usage and to the total.
LEMMA AdmitBooks ==
    ASSUME BudgetInv, NEW c \in Clients, NEW k \in LeaseKeys, NEW request \in Requests,
           Admit(c, k, request)
    PROVE  BudgetInv'
<1> DEFINE lease == [client |-> c, request |-> request]
<1>1. request \in Amounts /\ lease \in ResourceLease
  BY GovernorAssumption DEF ResourceLease
<1>2. lease # NotLeased
  BY <1>1, GovernorAssumption DEF ResourceLease
<1>3. resourceLeases \in LeaseTable /\ resourceLeases[k] = NotLeased
  BY DEF BudgetInv, GovernorTypeOK, LeaseTable, Admit, Leased
<1>4. resourceLeases' = [resourceLeases EXCEPT ![k] = lease]
  BY DEF Admit
<1>5. /\ resourceLeases' \in LeaseTable
      /\ resourceLeases'[k] = lease
      /\ \A j \in LeaseKeys \ {k} : resourceLeases[j] = resourceLeases'[j]
  BY <1>1, <1>3, <1>4 DEF LeaseTable
<1>6. /\ usage \in Amounts /\ clientUsage \in [Clients -> Amounts]
      /\ usage' = Plus(usage, request)
      /\ clientUsage' = [clientUsage EXCEPT ![c] = Plus(@, request)]
  BY DEF BudgetInv, GovernorTypeOK, Admit
<1>7. GovernorTypeOK'
  <2>1. usage' \in Amounts /\ Plus(clientUsage[c], request) \in Amounts
    BY <1>1, <1>6 DEF Plus, Amounts
  <2>2. clientUsage' \in [Clients -> Amounts]
    BY <1>6, <2>1
  <2>3. circuit' \in {"closed", "open", "half_open"}
    BY DEF Admit, AfterAllow, BudgetInv, GovernorTypeOK
  <2> QED
    BY <1>5, <2>1, <2>2, <2>3 DEF Admit, BudgetInv, GovernorTypeOK, LeaseTable
<1>8. UsageExact'
  <2> SUFFICES ASSUME NEW r \in Resources
               PROVE  /\ usage'[r] = HeldIn(resourceLeases', Clients, r)
                      /\ \A d \in Clients : clientUsage'[d][r] = HeldIn(resourceLeases', {d}, r)
    BY DEF UsageExact
  <2>1. ASSUME NEW D
        PROVE  /\ c \in D => HeldIn(resourceLeases', D, r)
                              = HeldIn(resourceLeases, D, r) + request[r]
               /\ c \notin D => HeldIn(resourceLeases', D, r) = HeldIn(resourceLeases, D, r)
    <3>1. HeldIn(resourceLeases, D, r) \in Nat
      BY <1>3, HeldSummable
    <3>2. resourceLeases'[k] # NotLeased
      BY <1>2, <1>5
    <3>3. HeldIn(resourceLeases', D, r) = HeldIn(resourceLeases, D, r)
              + (IF resourceLeases'[k].client \in D THEN resourceLeases'[k].request[r] ELSE 0)
      BY <1>3, <1>5, <3>2, HeldWithout
    <3>4. resourceLeases'[k].client = c /\ resourceLeases'[k].request = request
      BY <1>5
    <3> QED
      BY <3>1, <3>3, <3>4
  <2>2. /\ usage[r] = HeldIn(resourceLeases, Clients, r)
        /\ \A d \in Clients : clientUsage[d][r] = HeldIn(resourceLeases, {d}, r)
    BY DEF BudgetInv, UsageExact
  <2>3. usage'[r] = usage[r] + request[r]
    BY <1>6 DEF Plus
  <2>4. ASSUME NEW d \in Clients
        PROVE  clientUsage'[d][r] = IF d = c THEN clientUsage[d][r] + request[r]
                                    ELSE clientUsage[d][r]
    BY <1>6 DEF Plus
  <2>5. usage'[r] = HeldIn(resourceLeases', Clients, r)
    BY <2>1, <2>2, <2>3
  <2>6. ASSUME NEW d \in Clients PROVE clientUsage'[d][r] = HeldIn(resourceLeases', {d}, r)
    <3>1. clientUsage[d][r] = HeldIn(resourceLeases, {d}, r)
      BY <2>2
    <3>2. CASE d = c
      BY <2>1, <2>4, <3>1, <3>2
    <3>3. CASE d # c
      <4>1. c \notin {d}
        BY <3>3
      <4> QED
        BY <2>1, <2>4, <3>1, <3>3, <4>1
    <3> QED
      BY <3>2, <3>3
  <2> QED
    BY <2>5, <2>6
<1>9. BudgetsHold'
  <2> SUFFICES ASSUME NEW r \in Resources
               PROVE  /\ Limit[r] # 0 => usage'[r] <= Limit[r]
                      /\ \A d \in Clients : ClientLimit[d][r] # 0
                                             => clientUsage'[d][r] <= ClientLimit[d][r]
    BY DEF BudgetsHold
  <2>1. /\ WithinBudget(usage, request, Limit)
        /\ WithinBudget(clientUsage[c], request, ClientLimit[c])
    BY DEF Admit, Admits, Affordable
  <2>2. Limit[r] # 0 => usage'[r] <= Limit[r]
    BY <1>6, <2>1 DEF Plus, WithinBudget
  <2>3. ASSUME NEW d \in Clients, ClientLimit[d][r] # 0
        PROVE  clientUsage'[d][r] <= ClientLimit[d][r]
    <3>1. CASE d = c
      BY <1>6, <2>1, <2>3, <3>1 DEF Plus, WithinBudget
    <3>2. CASE d # c
      BY <1>6, <2>3, <3>2 DEF BudgetInv, BudgetsHold
    <3> QED
      BY <3>1, <3>2
  <2> QED
    BY <2>2, <2>3
<1> QED
  BY <1>7, <1>8, <1>9 DEF BudgetInv

\* A release gives back exactly what its lease holds.
LEMMA ReleaseBooks ==
    ASSUME BudgetInv, NEW k \in LeaseKeys, k \in Leased, Release(k)
    PROVE  BudgetInv'
<1> DEFINE lease == resourceLeases[k]
           c == lease.client
           request == lease.request
<1>1. /\ resourceLeases \in LeaseTable /\ lease # NotLeased
      /\ usage \in Amounts /\ clientUsage \in [Clients -> Amounts]
  BY DEF BudgetInv, GovernorTypeOK, LeaseTable, Leased
<1>2. c \in Clients /\ request \in Amounts
  <2>1. lease \in ResourceLease
    BY <1>1 DEF LeaseTable
  <2> QED
    BY <2>1, GovernorAssumption DEF ResourceLease
<1>3. /\ resourceLeases' = [resourceLeases EXCEPT ![k] = NotLeased]
      /\ usage' = Minus(usage, request)
      /\ clientUsage' = [clientUsage EXCEPT ![c] = Minus(@, request)]
      /\ UNCHANGED <<draining, circuit, failures, cooling>>
  BY DEF Release, circuitVars
<1> HIDE DEF c, request
<1>4. ASSUME NEW d \in Clients
      PROVE  clientUsage'[d] = IF d = c THEN Minus(clientUsage[d], request) ELSE clientUsage[d]
  BY <1>1, <1>2, <1>3
<1>5. \A a \in Amounts : Minus(a, request) \in Amounts
                          /\ \A r \in Resources : Minus(a, request)[r] <= a[r]
  BY <1>2 DEF Minus, Amounts
<1>6. GovernorTypeOK'
  <2>1. usage' \in Amounts /\ clientUsage' \in [Clients -> Amounts]
    BY <1>1, <1>2, <1>3, <1>5
  <2>2. resourceLeases' \in LeaseTable
    BY <1>1, <1>3 DEF LeaseTable
  <2> QED
    BY <1>3, <2>1, <2>2 DEF BudgetInv, GovernorTypeOK, LeaseTable
<1>7. UsageExact'
  <2> SUFFICES ASSUME NEW r \in Resources
               PROVE  /\ usage'[r] = HeldIn(resourceLeases', Clients, r)
                      /\ \A d \in Clients : clientUsage'[d][r] = HeldIn(resourceLeases', {d}, r)
    BY DEF UsageExact
  <2>1. /\ resourceLeases' \in LeaseTable /\ resourceLeases'[k] = NotLeased
        /\ \A j \in LeaseKeys \ {k} : resourceLeases'[j] = resourceLeases[j]
    BY <1>1, <1>3 DEF LeaseTable
  <2>2. request[r] \in Nat
    BY <1>2 DEF Amounts
  <2>3. ASSUME NEW D
        PROVE  /\ HeldIn(resourceLeases', D, r) \in Nat
               /\ c \in D => HeldIn(resourceLeases, D, r)
                              = HeldIn(resourceLeases', D, r) + request[r]
               /\ c \notin D => HeldIn(resourceLeases', D, r) = HeldIn(resourceLeases, D, r)
    <3>1. HeldIn(resourceLeases', D, r) \in Nat
      BY <2>1, HeldSummable
    <3>2. HeldIn(resourceLeases, D, r) = HeldIn(resourceLeases', D, r)
              + (IF resourceLeases[k].client \in D THEN resourceLeases[k].request[r] ELSE 0)
      BY <1>1, <2>1, HeldWithout
    <3> QED
      BY <3>1, <3>2 DEF c, request
  <2>4. /\ usage[r] = HeldIn(resourceLeases, Clients, r)
        /\ \A d \in Clients : clientUsage[d][r] = HeldIn(resourceLeases, {d}, r)
    BY DEF BudgetInv, UsageExact
  <2>5. \A a \in Amounts : Minus(a, request)[r] = IF a[r] > request[r] THEN a[r] - request[r] ELSE 0
    BY DEF Minus
  <2>6. usage'[r] = HeldIn(resourceLeases', Clients, r)
    <3>1. HeldIn(resourceLeases, Clients, r) = HeldIn(resourceLeases', Clients, r) + request[r]
      BY <1>2, <2>3
    <3>2. HeldIn(resourceLeases', Clients, r) \in Nat
      BY <2>3
    <3>3. usage'[r] = IF usage[r] > request[r] THEN usage[r] - request[r] ELSE 0
      BY <1>1, <1>3, <2>5
    <3> QED
      BY <2>2, <2>4, <3>1, <3>2, <3>3
  <2>7. ASSUME NEW d \in Clients PROVE clientUsage'[d][r] = HeldIn(resourceLeases', {d}, r)
    <3>1. clientUsage[d][r] = HeldIn(resourceLeases, {d}, r) /\ clientUsage[d] \in Amounts
      BY <1>1, <2>4
    <3>2. CASE d = c
      BY <1>4, <2>2, <2>3, <2>5, <3>1, <3>2
    <3>3. CASE d # c
      <4>1. c \notin {d}
        BY <3>3
      <4> QED
        BY <1>4, <2>3, <3>1, <3>3, <4>1
    <3> QED
      BY <3>2, <3>3
  <2> QED
    BY <2>6, <2>7
<1>8. BudgetsHold'
  <2> SUFFICES ASSUME NEW r \in Resources
               PROVE  /\ Limit[r] # 0 => usage'[r] <= Limit[r]
                      /\ \A d \in Clients : ClientLimit[d][r] # 0
                                             => clientUsage'[d][r] <= ClientLimit[d][r]
    BY DEF BudgetsHold
  <2>1. usage'[r] <= usage[r] /\ usage'[r] \in Nat /\ usage[r] \in Nat /\ Limit[r] \in Nat
    BY <1>1, <1>3, <1>5, GovernorAssumption DEF Amounts
  <2>2. ASSUME NEW d \in Clients
        PROVE  /\ clientUsage'[d][r] <= clientUsage[d][r]
               /\ clientUsage'[d][r] \in Nat /\ clientUsage[d][r] \in Nat
               /\ ClientLimit[d][r] \in Nat
    BY <1>1, <1>4, <1>5, GovernorAssumption DEF Amounts
  <2>3. /\ Limit[r] # 0 => usage[r] <= Limit[r]
        /\ \A d \in Clients : ClientLimit[d][r] # 0 => clientUsage[d][r] <= ClientLimit[d][r]
    BY DEF BudgetInv, BudgetsHold
  <2> QED
    BY <2>1, <2>2, <2>3
<1> QED
  BY <1>6, <1>7, <1>8 DEF BudgetInv

\* The sweep of a shutdown leaves nothing held and nothing charged.
LEMMA ShutdownBooks == ASSUME BudgetInv, Shutdown PROVE BudgetInv'
<1>1. /\ GovernorTypeOK /\ resourceLeases \in LeaseTable
      /\ usage \in Amounts /\ clientUsage \in [Clients -> Amounts]
  BY DEF BudgetInv, GovernorTypeOK, LeaseTable
<1>2. \A r \in Resources : usage'[r] = 0
  <2> TAKE r \in Resources
  <2>1. usage[r] = HeldBy(Leased, r)
    BY <1>1, HeldByIsHeldIn DEF BudgetInv, UsageExact
  <2>2. usage'[r] = IF usage[r] > HeldBy(Leased, r) THEN usage[r] - HeldBy(Leased, r) ELSE 0
    BY DEF Shutdown, Without, HeldBy
  <2>3. usage[r] \in Nat
    BY <1>1 DEF Amounts
  <2> QED
    BY <2>1, <2>2, <2>3
<1>3. \A c \in Clients : \A r \in Resources : clientUsage'[c][r] = 0
  <2> TAKE c \in Clients
  <2> TAKE r \in Resources
  <2> DEFINE K == {k \in Leased : resourceLeases[k].client = c}
  <2>1. clientUsage[c][r] = HeldBy(K, r)
    BY <1>1, HeldByIsHeldIn DEF BudgetInv, UsageExact
  <2>2. clientUsage'[c][r] = IF clientUsage[c][r] > HeldBy(K, r)
                             THEN clientUsage[c][r] - HeldBy(K, r) ELSE 0
    <3>1. clientUsage'[c] = Without(clientUsage[c], K)
      BY DEF Shutdown
    <3> QED
      BY <3>1 DEF Without, HeldBy
  <2>3. clientUsage[c][r] \in Nat
    BY <1>1 DEF Amounts
  <2> HIDE DEF K
  <2> QED
    BY <2>1, <2>2, <2>3
<1>4. DOMAIN usage' = Resources /\ usage' = [r \in Resources |-> usage'[r]]
  BY DEF Shutdown, Without
<1>5. usage' \in Amounts
  BY <1>2, <1>4 DEF Amounts
<1>6. clientUsage' \in [Clients -> Amounts]
  <2>1. clientUsage' = [c \in Clients |-> clientUsage'[c]]
    BY DEF Shutdown
  <2>2. ASSUME NEW c \in Clients PROVE clientUsage'[c] \in Amounts
    <3>1. clientUsage'[c] = [r \in Resources |-> clientUsage'[c][r]]
      BY DEF Shutdown, Without
    <3> QED
      BY <1>3, <3>1 DEF Amounts
  <2> QED
    BY <2>1, <2>2
<1>7. GovernorTypeOK'
  BY <1>1, <1>5, <1>6 DEF Shutdown, GovernorTypeOK, circuitVars
<1>8. UsageExact'
  <2>1. \A D : KeysHeld(resourceLeases', D) = {}
    BY DEF Shutdown, KeysHeld
  <2>2. \A D, r : HeldIn(resourceLeases', D, r) = 0
    BY <2>1, SumEmpty DEF HeldIn
  <2> QED
    BY <1>2, <1>3, <2>2 DEF UsageExact
<1>9. BudgetsHold'
  BY <1>2, <1>3, GovernorAssumption DEF BudgetsHold, Amounts
<1> QED
  BY <1>7, <1>8, <1>9 DEF BudgetInv

\* Every step keeps the books.
LEMMA BudgetStep == BudgetInv /\ [GovernorNext]_governorVars => BudgetInv'
<1> SUFFICES ASSUME BudgetInv, [GovernorNext]_governorVars PROVE BudgetInv'
  OBVIOUS
<1> USE DEF circuitVars, budgetVars, governorVars
<1>1. ASSUME UNCHANGED <<resourceLeases, usage, clientUsage>>, draining' \in BOOLEAN,
             circuit' \in {"closed", "open", "half_open"},
             failures' \in 0..Threshold, cooling' \in 0..Cooldown
      PROVE  BudgetInv'
  BY <1>1 DEF BudgetInv, GovernorTypeOK, UsageExact, BudgetsHold
<1>2. GovernorTypeOK
  BY DEF BudgetInv
<1>3. ASSUME NEW c \in Clients, NEW k \in LeaseKeys, NEW request \in Requests,
             Admit(c, k, request)
      PROVE  BudgetInv'
  BY <1>3, AdmitBooks
<1>4. ASSUME NEW c \in Clients, NEW k \in LeaseKeys, NEW request \in Requests,
             Throttle(c, k, request)
      PROVE  BudgetInv'
  BY <1>1, <1>2, <1>4 DEF Throttle, GovernorTypeOK, AfterAllow
<1>5. ASSUME NEW k \in LeaseKeys, AdmitAgain(k) PROVE BudgetInv'
  BY <1>1, <1>2, <1>5 DEF AdmitAgain, GovernorTypeOK
<1>6. ASSUME NEW k \in LeaseKeys, Release(k) PROVE BudgetInv'
  <2>1. CASE k \in Leased
    BY <1>6, <2>1, ReleaseBooks
  <2>2. CASE k \notin Leased
    BY <1>1, <1>2, <1>6, <2>2 DEF Release, GovernorTypeOK
  <2> QED
    BY <2>1, <2>2
<1>7. CASE RecordFailure
  BY <1>1, <1>2, <1>7, GovernorAssumption DEF RecordFailure, GovernorTypeOK
<1>8. CASE UnderBudgetReading \/ Recover
  BY <1>1, <1>2, <1>8, GovernorAssumption DEF UnderBudgetReading, Recover, CloseCircuit, GovernorTypeOK
<1>9. CASE Drain \/ UNCHANGED governorVars
  BY <1>1, <1>2, <1>9 DEF Drain, GovernorTypeOK
<1>10. CASE Cool
  BY <1>1, <1>2, <1>10, GovernorAssumption DEF Cool, GovernorTypeOK
<1>11. CASE Shutdown
  BY <1>11, ShutdownBooks
<1> QED
  BY <1>3, <1>4, <1>5, <1>6, <1>7, <1>8, <1>9, <1>10, <1>11 DEF GovernorNext

\* A new governor has empty books.
LEMMA BudgetInit == GovernorInit => BudgetInv
<1> SUFFICES ASSUME GovernorInit PROVE BudgetInv
  OBVIOUS
<1>1. GovernorTypeOK
  <2>1. usage \in Amounts
    BY DEF GovernorInit, Amounts
  <2>2. clientUsage \in [Clients -> Amounts]
    BY <2>1 DEF GovernorInit
  <2> QED
    <3>1. failures \in 0..Threshold /\ cooling \in 0..Cooldown
      BY GovernorAssumption DEF GovernorInit
    <3>2. resourceLeases \in [LeaseKeys -> ResourceLease \cup {NotLeased}]
      BY DEF GovernorInit
    <3>3. draining \in BOOLEAN /\ circuit \in {"closed", "open", "half_open"}
      BY DEF GovernorInit
    <3> QED
      BY <2>1, <2>2, <3>1, <3>2, <3>3 DEF GovernorTypeOK
<1>2. \A D : KeysHeld(resourceLeases, D) = {}
  BY DEF GovernorInit, KeysHeld
<1>3. \A D, r : HeldIn(resourceLeases, D, r) = 0
  BY <1>2, SumEmpty DEF HeldIn
<1>4. UsageExact
  BY <1>3 DEF GovernorInit, UsageExact
<1>5. BudgetsHold
  BY GovernorAssumption DEF GovernorInit, BudgetsHold, Amounts
<1> QED
  BY <1>1, <1>4, <1>5 DEF BudgetInv

\* The governor's books are always well formed, exact and within budget.
THEOREM BooksAreKept == GovernorSpec => []BudgetInv
BY BudgetInit, BudgetStep, PTL DEF GovernorSpec

\* The types of the governor's variables: no counter of _usage is ever negative
\* and the breaker's failures never exceed the threshold.
THEOREM GovernorTyped == GovernorSpec => []GovernorTypeOK
<1>1. BudgetInv => GovernorTypeOK
  BY DEF BudgetInv
<1> QED
  BY <1>1, BooksAreKept, PTL

\* _usage and _client_usage are exactly what the leases hold, whatever admit,
\* release and shutdown do in whatever order: nothing is charged or given back
\* twice, and the clamp at zero in _Usage.subtract never acts.
THEOREM UsageIsExact == GovernorSpec => []UsageIsHeld
<1>1. BudgetInv => UsageIsHeld
  BY ExactIsHeld DEF BudgetInv
<1> QED
  BY <1>1, BooksAreKept, PTL

\* No bounded resource is overcommitted, globally or by one client: a check of
\* _over_budget at admission is enough, because releases only give back.
THEOREM BudgetsAreKept == GovernorSpec => []BudgetsHold
<1>1. BudgetInv => BudgetsHold
  BY DEF BudgetInv
<1> QED
  BY <1>1, BooksAreKept, PTL

=============================================================================
