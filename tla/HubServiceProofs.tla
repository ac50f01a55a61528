-------------------------- MODULE HubServiceProofs --------------------------
(***************************************************************************)
(* What the composed hub guarantees for every number of workers, tasks,    *)
(* clients and budgets, with the calls interleaved step by step, leases    *)
(* expiring under them and the daemon crashing at any point.               *)
(***************************************************************************)
EXTENDS HubService, FiniteSetTheorems, SequenceTheorems, TLAPS

\* The steps at which a call has a scheduler slot, and those at which it has
\* the governor's resources too.
LeaseSteps == {"claim", "unclaim", "complete", "fail", "release", "release_retry"}
SlotSteps == LeaseSteps \cup {"admit", "refused", "drop", "retire", "retire_retry"}

\* The tasks that next() gave out and that still count as in flight.
Taken == {t \in jobs : t \notin Waiting(ClientOf[t])}

\* A client's queue holds that client's registered jobs, each once.
QueuesHoldJobs ==
    \A c \in Clients :
        /\ \A i \in DOMAIN queues[c] : queues[c][i] \in jobs /\ ClientOf[queues[c][i]] = c
        /\ \A i, j \in DOMAIN queues[c] : queues[c][i] = queues[c][j] => i = j

InflightCounts == \A c \in Clients : inflight[c] = Cardinality(Dispatched(c))

SchedulerInv ==
    /\ S!TypeOK
    /\ QueuesHoldJobs
    /\ InflightCounts
    /\ S!TotalsCountJobs
    /\ S!QuotasHold

CallType ==
    /\ pc \in [Workers -> Steps]
    /\ task \in [Workers -> Tasks \cup {NoTask}]
    /\ asked \in [Workers -> Requests]
    /\ DOMAIN claims = Tasks
    /\ DOMAIN resourceLeases = Tasks
    /\ \A w \in Workers : pc[w] \in SlotSteps => task[w] \in Tasks
    /\ \A w \in Workers : pc[w] \in {"enqueue", "requeue", "retry"} => task[w] \in Tasks

\* A slot has one owner: the claim on the task, or one call under way.
SlotsOwned ==
    /\ \A t \in Tasks : claims[t] # NoClaim => t \in Taken
    /\ \A w \in Workers : pc[w] \in SlotSteps =>
           task[w] \in Taken /\ claims[task[w]] = NoClaim
    /\ \A w, v \in Workers :
           pc[w] \in SlotSteps /\ pc[v] \in SlotSteps /\ task[w] = task[v] => w = v

\* Its owner has the resources from admission to release.
LeasesOwned ==
    /\ \A t \in Tasks : claims[t] # NoClaim => resourceLeases[t] # NotLeased
    /\ \A w \in Workers : pc[w] \in LeaseSteps => resourceLeases[task[w]] # NotLeased

\* The inductive invariant.
ServiceInv == SchedulerInv /\ CallType /\ SlotsOwned /\ LeasesOwned

\* What else is needed to see that nothing leaks and no job is lost: the
\* types of the journal, ...
JournalType ==
    /\ now \in Nat
    /\ state \in [Tasks -> Q!JobStates]
    /\ fence \in [Tasks -> Nat] /\ leaseId \in [Tasks -> Nat] /\ nextAttempt \in [Tasks -> Nat]
    /\ mapper \in [Tasks -> Q!MapperStates]
    /\ mapperFence \in [Tasks -> Nat]

\* ... that a report speaks of the task it popped the claim of, ...
LeasesNameTasks ==
    /\ DOMAIN lease = Workers
    /\ \A t \in Tasks : claims[t] # NoClaim => claims[t].task = t
    /\ \A w \in Workers : pc[w] \in {"complete", "fail"} => lease[w].task = task[w]

\* ... that whatever is scheduled, or on its way, was submitted, ...
PendingIsKnown ==
    /\ booting \subseteq Tasks
    /\ \A t \in jobs \cup booting : state[t] # "absent"
    /\ \A w \in Workers : pc[w] \in {"enqueue", "requeue", "retry"} => state[task[w]] # "absent"

\* ... and that a candidate is only dropped, and a slot only retired for
\* good, when the journal does not call the job queued.
DroppedNotQueued ==
    \A w \in Workers :
        pc[w] \in {"unclaim", "drop", "release", "retire"} => state[task[w]] # "queued"

\* Without a backoff, and with the Mapper in step, a queued job is claimable.
QueuedIsClaimable ==
    \A t \in Tasks :
        /\ nextAttempt[t] <= now
        /\ state[t] = "queued" => mapper[t] = "ready"
        /\ state[t] = "absent" => mapper[t] = "absent"

JournalInv ==
    /\ JournalType /\ LeasesNameTasks /\ PendingIsKnown
    /\ DroppedNotQueued /\ QueuedIsClaimable /\ QueuedIsScheduled

\* Every taken slot and every resource lease has an owner, or a queue
\* operation raised on its task.
EverythingOwned ==
    /\ \A t \in Tasks \ raised : resourceLeases[t] # NotLeased =>
           claims[t] # NoClaim \/ \E w \in Workers : task[w] = t /\ pc[w] \in LeaseSteps
    /\ \A t \in Taken \ raised :
           claims[t] # NoClaim \/ \E w \in Workers : task[w] = t /\ pc[w] \in SlotSteps

-----------------------------------------------------------------------------
(* Elements of queues, and counting.                                       *)

\* The entries of a queue after one is appended.
LEMMA Appended ==
    ASSUME NEW T, NEW q \in Seq(T), NEW x \in T
    PROVE  /\ Append(q, x) \in Seq(T)
           /\ DOMAIN Append(q, x) = DOMAIN q \cup {Len(q) + 1}
           /\ Len(q) + 1 \notin DOMAIN q
           /\ \A i \in DOMAIN q : Append(q, x)[i] = q[i]
           /\ Append(q, x)[Len(q) + 1] = x
<1>1. Append(q, x) \in Seq(T) /\ Len(Append(q, x)) = Len(q) + 1
  BY AppendProperties
<1>2. DOMAIN q = 1 .. Len(q) /\ Len(q) \in Nat /\ DOMAIN Append(q, x) = 1 .. Len(q) + 1
  BY <1>1, LenProperties
<1>3. \A i \in 1 .. Len(q) : Append(q, x)[i] = q[i]
  BY AppendProperties
<1>4. Append(q, x)[Len(q) + 1] = x
  BY AppendProperties
<1> QED
  BY <1>1, <1>2, <1>3, <1>4

\* The entries of a queue after its head is popped.
LEMMA Popped ==
    ASSUME NEW T, NEW q \in Seq(T), q # <<>>
    PROVE  /\ Tail(q) \in Seq(T)
           /\ Head(q) = q[1] /\ 1 \in DOMAIN q
           /\ \A i \in DOMAIN Tail(q) : i \in Nat \ {0} /\ i + 1 \in DOMAIN q /\ Tail(q)[i] = q[i + 1]
           /\ \A i \in DOMAIN q \ {1} : i - 1 \in DOMAIN Tail(q) /\ Tail(q)[i - 1] = q[i]
<1>1. /\ Tail(q) \in Seq(T) /\ Len(Tail(q)) = Len(q) - 1 /\ Len(q) \in Nat \ {0}
      /\ \A i \in 1 .. Len(Tail(q)) : Tail(q)[i] = q[i + 1]
  BY HeadTailProperties, EmptySeq, LenProperties
<1>2. DOMAIN q = 1 .. Len(q) /\ DOMAIN Tail(q) = 1 .. Len(q) - 1
  BY <1>1, LenProperties
<1>3. Head(q) = q[1]
  OBVIOUS
<1> QED
  BY <1>1, <1>2, <1>3

\* The scheduler counts as everyone does.
LEMMA SameCount == \A A : S!Cardinality(A) = Cardinality(A)
BY Zenon DEF S!Cardinality, Cardinality

\* Adding a new element to a set of tasks, and removing one, counted.
LEMMA CountAdd ==
    ASSUME NEW A \in SUBSET Tasks, NEW x \in Tasks, x \notin A
    PROVE  /\ Cardinality(A) \in Nat
           /\ Cardinality(A \cup {x}) = Cardinality(A) + 1
<1>1. IsFiniteSet(A)
  BY FS_Subset, ServiceAssumption
<1> QED
  BY <1>1, FS_AddElement, FS_CardinalityType

LEMMA CountRemove ==
    ASSUME NEW A \in SUBSET Tasks, NEW x \in A
    PROVE  /\ Cardinality(A) \in Nat \ {0}
           /\ Cardinality(A \ {x}) = Cardinality(A) - 1
<1>1. IsFiniteSet(A) /\ A # {}
  BY FS_Subset, ServiceAssumption
<1>2. Cardinality(A) \in Nat /\ Cardinality(A) # 0
  BY <1>1, FS_CardinalityType, FS_EmptySet
<1> QED
  BY <1>1, <1>2, FS_RemoveElement

-----------------------------------------------------------------------------
(* What the scheduler's operations do to its slots.                        *)

\* Nothing a queue holds is taken, and what is taken is dispatched.
LEMMA TakenIsDispatched ==
    ASSUME SchedulerInv
    PROVE  /\ Taken \subseteq jobs /\ jobs \subseteq Tasks
           /\ \A t \in Tasks : t \in Taken <=> t \in Dispatched(ClientOf[t])
           /\ \A c \in Clients : Dispatched(c) = {t \in Taken : ClientOf[t] = c}
           /\ \A c \in Clients : Waiting(c) \subseteq jobs
           /\ \A t \in jobs : ClientOf[t] \in Clients /\ WorkspaceOf[t] \in Workspaces
BY ServiceAssumption DEF SchedulerInv, S!TypeOK, QueuesHoldJobs, Taken, Dispatched, Waiting

\* enqueue takes no slot.
LEMMA EnqueueKeepsSlots ==
    ASSUME SchedulerInv, NEW t \in Tasks, S!Enqueue(t)
    PROVE  /\ S!TypeOK' /\ QueuesHoldJobs'
           /\ Taken' = Taken
           /\ \A c \in Clients : Dispatched(c)' = Dispatched(c)
<1> DEFINE d == ClientOf[t]
           q == queues[d]
<1>0. d \in Clients /\ WorkspaceOf[t] \in Workspaces
  BY ServiceAssumption
<1>1. /\ S!TypeOK /\ q \in Seq(Tasks) /\ t \notin jobs /\ jobs' = jobs \cup {t}
      /\ queues' = [queues EXCEPT ![d] = Append(q, t)]
  BY <1>0 DEF SchedulerInv, S!TypeOK, S!Enqueue, S!MayEnqueue
<1>a. /\ Append(q, t) \in Seq(Tasks)
      /\ DOMAIN Append(q, t) = DOMAIN q \cup {Len(q) + 1}
      /\ Len(q) + 1 \notin DOMAIN q
      /\ \A i \in DOMAIN q : Append(q, t)[i] = q[i]
      /\ Append(q, t)[Len(q) + 1] = t
  BY <1>1, Appended
<1> HIDE DEF q, d
<1>2. /\ queues' \in [Clients -> Seq(Tasks)]
      /\ queues'[d] = Append(q, t)
      /\ \A c \in Clients \ {d} : queues'[c] = queues[c]
  BY <1>0, <1>1, <1>a DEF S!TypeOK
<1>3. S!TypeOK'
  <2>1. inflight' = inflight /\ jobs' \subseteq Tasks
    BY <1>1 DEF S!Enqueue, S!TypeOK
  <2>2. clientTotal' \in [Clients -> Nat] /\ workspaceTotal' \in [Workspaces -> Nat]
    <3>1. /\ clientTotal \in [Clients -> Nat] /\ workspaceTotal \in [Workspaces -> Nat]
          /\ clientTotal' = [clientTotal EXCEPT ![d] = @ + 1]
          /\ workspaceTotal' = [workspaceTotal EXCEPT ![WorkspaceOf[t]] = @ + 1]
      BY <1>1, Zenon DEF S!Enqueue, S!TypeOK, d
    <3> QED
      BY <1>0, <3>1
  <2>3. globalTotal' \in Nat
    BY <1>1 DEF S!Enqueue, S!TypeOK
  <2> QED
    BY <1>1, <1>2, <2>1, <2>2, <2>3 DEF S!TypeOK
<1>4. Waiting(d)' = Waiting(d) \cup {t}
  <2>1. \A x : x \in Waiting(d) <=> \E i \in DOMAIN q : x = q[i]
    BY DEF Waiting, q
  <2>2. \A x : x \in Waiting(d)' <=> \E i \in DOMAIN Append(q, t) : x = Append(q, t)[i]
    BY <1>2 DEF Waiting
  <2>3. \A x : x \in Waiting(d)' <=> x \in Waiting(d) \/ x = t
    BY <1>a, <2>1, <2>2, Zenon
  <2> QED
    BY <2>3
<1>5. \A c \in Clients \ {d} : Waiting(c)' = Waiting(c)
  BY <1>2 DEF Waiting
<1>6. QueuesHoldJobs'
  <2> SUFFICES ASSUME NEW c \in Clients
               PROVE  /\ \A i \in DOMAIN queues'[c] : queues'[c][i] \in jobs' /\ ClientOf[queues'[c][i]] = c
                      /\ \A i, j \in DOMAIN queues'[c] : queues'[c][i] = queues'[c][j] => i = j
    BY DEF QueuesHoldJobs
  <2>0. /\ \A i \in DOMAIN queues[c] : queues[c][i] \in jobs /\ ClientOf[queues[c][i]] = c
        /\ \A i, j \in DOMAIN queues[c] : queues[c][i] = queues[c][j] => i = j
    BY DEF SchedulerInv, QueuesHoldJobs
  <2>1. CASE c # d
    BY <1>1, <1>2, <2>0, <2>1
  <2>2. CASE c = d
    <3>1. \A i \in DOMAIN q : q[i] \in jobs /\ ClientOf[q[i]] = d /\ q[i] # t
      BY <1>1, <2>0, <2>2 DEF q
    <3>2. \A i, j \in DOMAIN q : q[i] = q[j] => i = j
      BY <2>0, <2>2 DEF q
    <3>3. \A i \in DOMAIN Append(q, t) : Append(q, t)[i] \in jobs' /\ ClientOf[Append(q, t)[i]] = d
      BY <1>1, <1>a, <3>1, Zenon DEF d
    <3>4. \A i, j \in DOMAIN Append(q, t) : Append(q, t)[i] = Append(q, t)[j] => i = j
      BY <1>a, <3>1, <3>2, Zenon
    <3> QED
      BY <1>2, <2>2, <3>3, <3>4
  <2> QED
    BY <2>1, <2>2
<1>7. Taken' = Taken
  <2>1. \A u \in jobs : ClientOf[u] \in Clients
    BY <1>1, ServiceAssumption DEF S!TypeOK
  <2>2. t \notin Taken'
    BY <1>4 DEF Taken, d
  <2>3. \A u \in jobs : u \in Waiting(ClientOf[u])' <=> u \in Waiting(ClientOf[u])
    BY <1>1, <1>4, <1>5, <2>1
  <2> QED
    BY <1>1, <2>2, <2>3 DEF Taken
<1>8. \A c \in Clients : Dispatched(c)' = Dispatched(c)
  BY <1>0, <1>1, <1>4, <1>5 DEF Dispatched, d
<1> QED
  BY <1>3, <1>6, <1>7, <1>8

\* next takes the slot of the task it answers with.
LEMMA DispatchTakesSlot ==
    ASSUME SchedulerInv, NEW c \in Clients, S!Dispatch(c)
    PROVE  LET t == Head(queues[c]) IN
           /\ S!TypeOK' /\ QueuesHoldJobs'
           /\ t \in jobs /\ t \notin Taken /\ ClientOf[t] = c
           /\ Taken' = Taken \cup {t}
           /\ Dispatched(c)' = Dispatched(c) \cup {t}
           /\ \A d \in Clients \ {c} : Dispatched(d)' = Dispatched(d)
<1> DEFINE q == queues[c]
           t == Head(q)
<1>1. /\ S!TypeOK /\ q \in Seq(Tasks) /\ q # <<>> /\ jobs' = jobs
      /\ queues' = [queues EXCEPT ![c] = Tail(q)]
  BY DEF SchedulerInv, S!TypeOK, S!Dispatch, S!Eligible
<1>a. /\ Tail(q) \in Seq(Tasks)
      /\ t = q[1] /\ 1 \in DOMAIN q
      /\ \A i \in DOMAIN Tail(q) : i \in Nat \ {0} /\ i + 1 \in DOMAIN q /\ Tail(q)[i] = q[i + 1]
      /\ \A i \in DOMAIN q \ {1} : i - 1 \in DOMAIN Tail(q) /\ Tail(q)[i - 1] = q[i]
  BY <1>1, Popped
<1>b. /\ \A i \in DOMAIN q : q[i] \in jobs /\ ClientOf[q[i]] = c
      /\ \A i, j \in DOMAIN q : q[i] = q[j] => i = j
  BY DEF SchedulerInv, QueuesHoldJobs
<1> HIDE DEF q, t
<1>2. /\ queues' \in [Clients -> Seq(Tasks)]
      /\ queues'[c] = Tail(q)
      /\ \A d \in Clients \ {c} : queues'[d] = queues[d]
  BY <1>1, <1>a DEF S!TypeOK
<1>3. S!TypeOK'
  <2>1. inflight' \in [Clients -> Nat]
    BY <1>1 DEF S!Dispatch, S!TypeOK
  <2> QED
    BY <1>1, <1>2, <2>1 DEF S!TypeOK, S!Dispatch, S!totals
<1>4. t \in Waiting(c) /\ t \in jobs /\ ClientOf[t] = c
  BY <1>a, <1>b DEF Waiting, q
<1>5. \A i \in DOMAIN Tail(q) : Tail(q)[i] # t
  BY <1>a, <1>b
<1>6. Waiting(c) = Waiting(c)' \cup {t} /\ t \notin Waiting(c)'
  <2>1. \A i \in DOMAIN q : i = 1 \/ \E j \in DOMAIN Tail(q) : Tail(q)[j] = q[i]
    BY <1>a
  <2>2. \A j \in DOMAIN Tail(q) : \E i \in DOMAIN q : Tail(q)[j] = q[i]
    BY <1>a
  <2>3. \A x : x \in Waiting(c) <=> \E i \in DOMAIN q : x = q[i]
    BY DEF Waiting, q
  <2>4. \A x : x \in Waiting(c)' <=> \E i \in DOMAIN Tail(q) : x = Tail(q)[i]
    BY <1>2 DEF Waiting
  <2>5. t \notin Waiting(c)'
    BY <1>5, <2>4
  <2>6. t \in Waiting(c) /\ \A x \in Waiting(c)' : x \in Waiting(c)
    BY <1>a, <2>2, <2>3, <2>4
  <2>7. ASSUME NEW x \in Waiting(c), x # t PROVE x \in Waiting(c)'
    <3>1. PICK i \in DOMAIN q : x = q[i] /\ i # 1
      BY <1>a, <2>3, <2>7
    <3> QED
      BY <2>1, <2>4, <3>1
  <2> QED
    BY <2>5, <2>6, <2>7
<1>7. \A d \in Clients \ {c} : Waiting(d)' = Waiting(d)
  BY <1>2 DEF Waiting
<1>8. QueuesHoldJobs'
  <2> SUFFICES ASSUME NEW d \in Clients
               PROVE  /\ \A i \in DOMAIN queues'[d] : queues'[d][i] \in jobs' /\ ClientOf[queues'[d][i]] = d
                      /\ \A i, j \in DOMAIN queues'[d] : queues'[d][i] = queues'[d][j] => i = j
    BY DEF QueuesHoldJobs
  <2>1. CASE d # c
    BY <1>1, <1>2, <2>1 DEF SchedulerInv, QueuesHoldJobs
  <2>2. CASE d = c
    <3>1. \A i \in DOMAIN Tail(q) : Tail(q)[i] \in jobs' /\ ClientOf[Tail(q)[i]] = c
      BY <1>1, <1>a, <1>b
    <3>2. \A i, j \in DOMAIN Tail(q) : Tail(q)[i] = Tail(q)[j] => i = j
      BY <1>a, <1>b
    <3> QED
      BY <1>2, <2>2, <3>1, <3>2
  <2> QED
    BY <2>1, <2>2
<1>9. t \notin Taken /\ Taken' = Taken \cup {t}
  <2>1. \A u \in jobs : ClientOf[u] \in Clients
    BY <1>1, ServiceAssumption DEF S!TypeOK
  <2> QED
    BY <1>1, <1>4, <1>6, <1>7, <2>1 DEF Taken
<1>10. /\ Dispatched(c)' = Dispatched(c) \cup {t}
       /\ \A d \in Clients \ {c} : Dispatched(d)' = Dispatched(d)
  BY <1>1, <1>4, <1>6, <1>7 DEF Dispatched
<1> QED
  BY <1>3, <1>4, <1>8, <1>9, <1>10 DEF t, q

\* complete gives the slot of a taken task back.
LEMMA CompleteFreesSlot ==
    ASSUME SchedulerInv, NEW t \in Taken, S!Complete(t)
    PROVE  /\ S!TypeOK' /\ QueuesHoldJobs'
           /\ Taken' = Taken \ {t}
           /\ Dispatched(ClientOf[t])' = Dispatched(ClientOf[t]) \ {t}
           /\ \A d \in Clients \ {ClientOf[t]} : Dispatched(d)' = Dispatched(d)
<1>1. /\ S!TypeOK /\ t \in jobs /\ t \in Tasks /\ ClientOf[t] \in Clients /\ WorkspaceOf[t] \in Workspaces
      /\ jobs' = jobs \ {t} /\ queues' = queues
  BY ServiceAssumption DEF SchedulerInv, S!TypeOK, S!Complete, Taken
<1>2. \A n \in Nat : S!Decremented(n) \in Nat
  BY DEF S!Decremented
<1>3. S!TypeOK'
  <2>1. /\ inflight' \in [Clients -> Nat] /\ clientTotal' \in [Clients -> Nat]
        /\ workspaceTotal' \in [Workspaces -> Nat] /\ globalTotal' \in Nat
    BY <1>1, <1>2 DEF S!TypeOK, S!Complete, S!ReleaseSlot
  <2> QED
    BY <1>1, <2>1 DEF S!TypeOK
<1>4. \A c \in Clients : t \notin Waiting(c)
  BY <1>1 DEF Taken, SchedulerInv, QueuesHoldJobs, Waiting
<1>5. QueuesHoldJobs'
  BY <1>1, <1>4 DEF SchedulerInv, QueuesHoldJobs, Waiting
<1>6. \A c \in Clients : Waiting(c)' = Waiting(c)
  BY <1>1 DEF Waiting
<1>7. Taken' = Taken \ {t}
  BY <1>1, <1>6, ServiceAssumption DEF Taken, S!TypeOK
<1>8. /\ Dispatched(ClientOf[t])' = Dispatched(ClientOf[t]) \ {t}
      /\ \A d \in Clients \ {ClientOf[t]} : Dispatched(d)' = Dispatched(d)
  BY <1>1, <1>6 DEF Dispatched
<1> QED
  BY <1>3, <1>5, <1>7, <1>8

-----------------------------------------------------------------------------
(* The scheduler's own invariant, operation by operation.                  *)

\* The three operations the service makes keep the scheduler's counters
\* exact; complete does because it is only called on a taken slot.
LEMMA EnqueueKeeps ==
    ASSUME SchedulerInv, NEW t \in Tasks, S!Enqueue(t)
    PROVE  SchedulerInv' /\ Taken' = Taken
<1>1. /\ S!TypeOK' /\ QueuesHoldJobs' /\ Taken' = Taken
      /\ \A c \in Clients : Dispatched(c)' = Dispatched(c)
  BY EnqueueKeepsSlots
<1>2. InflightCounts'
  BY <1>1 DEF InflightCounts, SchedulerInv, S!Enqueue
<1>3. /\ ClientOf[t] \in Clients /\ WorkspaceOf[t] \in Workspaces
      /\ t \notin jobs /\ jobs' = jobs \cup {t} /\ jobs \subseteq Tasks
  BY ServiceAssumption DEF SchedulerInv, S!TypeOK, S!Enqueue, S!MayEnqueue
<1>4. Cardinality(jobs') = globalTotal' /\ Cardinality(jobs') <= GlobalQuota
  <2>1. Cardinality(jobs) \in Nat /\ Cardinality(jobs') = Cardinality(jobs) + 1
    BY <1>3, CountAdd
  <2> QED
    BY <2>1, ServiceAssumption, SameCount
    DEF SchedulerInv, S!TotalsCountJobs, S!Enqueue, S!MayEnqueue, S!WithinQuotas
<1>5. \A c \in Clients : /\ Cardinality(S!OfClient(c)') = clientTotal'[c]
                         /\ Cardinality(S!OfClient(c)') <= ClientQuota
  <2> SUFFICES ASSUME NEW c \in Clients
               PROVE  /\ Cardinality(S!OfClient(c)') = clientTotal'[c]
                      /\ Cardinality(S!OfClient(c)') <= ClientQuota
    OBVIOUS
  <2>1. /\ clientTotal[c] = Cardinality(S!OfClient(c)) /\ Cardinality(S!OfClient(c)) <= ClientQuota
        /\ clientTotal' = [clientTotal EXCEPT ![ClientOf[t]] = @ + 1]
        /\ clientTotal \in [Clients -> Nat] /\ clientTotal[ClientOf[t]] < ClientQuota
    BY SameCount
    DEF SchedulerInv, S!TypeOK, S!TotalsCountJobs, S!QuotasHold, S!Enqueue, S!MayEnqueue, S!WithinQuotas
  <2>2. CASE c # ClientOf[t]
    <3>1. S!OfClient(c)' = S!OfClient(c)
      BY <1>3, <2>2 DEF S!OfClient
    <3> QED
      BY <1>3, <2>1, <2>2, <3>1
  <2>3. CASE c = ClientOf[t]
    <3>1. /\ S!OfClient(c)' = S!OfClient(c) \cup {t} /\ t \notin S!OfClient(c)
          /\ S!OfClient(c) \subseteq Tasks
      BY <1>3, <2>3 DEF S!OfClient
    <3>2. Cardinality(S!OfClient(c)') = Cardinality(S!OfClient(c)) + 1
      BY <3>1, CountAdd
    <3> QED
      BY <1>3, <2>1, <2>3, <3>2, ServiceAssumption
  <2> QED
    BY <2>2, <2>3
<1>6. \A v \in Workspaces : /\ Cardinality(S!OfWorkspace(v)') = workspaceTotal'[v]
                            /\ Cardinality(S!OfWorkspace(v)') <= WorkspaceQuota
  <2> SUFFICES ASSUME NEW v \in Workspaces
               PROVE  /\ Cardinality(S!OfWorkspace(v)') = workspaceTotal'[v]
                      /\ Cardinality(S!OfWorkspace(v)') <= WorkspaceQuota
    OBVIOUS
  <2>1. /\ workspaceTotal[v] = Cardinality(S!OfWorkspace(v))
        /\ Cardinality(S!OfWorkspace(v)) <= WorkspaceQuota
        /\ workspaceTotal' = [workspaceTotal EXCEPT ![WorkspaceOf[t]] = @ + 1]
        /\ workspaceTotal \in [Workspaces -> Nat] /\ workspaceTotal[WorkspaceOf[t]] < WorkspaceQuota
    BY SameCount
    DEF SchedulerInv, S!TypeOK, S!TotalsCountJobs, S!QuotasHold, S!Enqueue, S!MayEnqueue, S!WithinQuotas
  <2>2. CASE v # WorkspaceOf[t]
    <3>1. S!OfWorkspace(v)' = S!OfWorkspace(v)
      BY <1>3, <2>2 DEF S!OfWorkspace
    <3> QED
      BY <1>3, <2>1, <2>2, <3>1
  <2>3. CASE v = WorkspaceOf[t]
    <3>1. /\ S!OfWorkspace(v)' = S!OfWorkspace(v) \cup {t} /\ t \notin S!OfWorkspace(v)
          /\ S!OfWorkspace(v) \subseteq Tasks
      BY <1>3, <2>3 DEF S!OfWorkspace
    <3>2. Cardinality(S!OfWorkspace(v)') = Cardinality(S!OfWorkspace(v)) + 1
      BY <3>1, CountAdd
    <3> QED
      BY <1>3, <2>1, <2>3, <3>2, ServiceAssumption
  <2> QED
    BY <2>2, <2>3
<1> QED
  BY <1>1, <1>2, <1>4, <1>5, <1>6, SameCount DEF SchedulerInv, S!TotalsCountJobs, S!QuotasHold

LEMMA DispatchKeeps ==
    ASSUME SchedulerInv, NEW c \in Clients, S!Dispatch(c)
    PROVE  /\ SchedulerInv'
           /\ Head(queues[c]) \in Tasks /\ Head(queues[c]) \notin Taken
           /\ Taken' = Taken \cup {Head(queues[c])}
<1> DEFINE t == Head(queues[c])
<1>1. /\ S!TypeOK' /\ QueuesHoldJobs'
      /\ t \in jobs /\ t \notin Taken /\ ClientOf[t] = c
      /\ Taken' = Taken \cup {t}
      /\ Dispatched(c)' = Dispatched(c) \cup {t}
      /\ \A d \in Clients \ {c} : Dispatched(d)' = Dispatched(d)
  BY DispatchTakesSlot
<1> HIDE DEF t
<1>2. t \in Tasks /\ t \notin Dispatched(c) /\ Dispatched(c) \subseteq Tasks
  BY <1>1 DEF SchedulerInv, S!TypeOK, Taken, Dispatched
<1>3. Cardinality(Dispatched(c)') = Cardinality(Dispatched(c)) + 1
  BY <1>1, <1>2, CountAdd
<1>4. InflightCounts'
  <2>1. /\ inflight \in [Clients -> Nat] /\ inflight' = [inflight EXCEPT ![c] = @ + 1]
        /\ \A d \in Clients : inflight[d] = Cardinality(Dispatched(d))
    BY DEF SchedulerInv, S!TypeOK, InflightCounts, S!Dispatch
  <2> QED
    BY <1>1, <1>3, <2>1 DEF InflightCounts
<1>5. S!TotalsCountJobs' /\ S!QuotasHold'
  BY DEF SchedulerInv, S!TotalsCountJobs, S!QuotasHold, S!Dispatch, S!totals, S!OfClient, S!OfWorkspace
<1> QED
  BY <1>1, <1>2, <1>4, <1>5 DEF SchedulerInv, t

LEMMA CompleteKeeps ==
    ASSUME SchedulerInv, NEW t \in Taken, S!Complete(t)
    PROVE  SchedulerInv' /\ Taken' = Taken \ {t}
<1>1. /\ S!TypeOK' /\ QueuesHoldJobs'
      /\ Taken' = Taken \ {t}
      /\ Dispatched(ClientOf[t])' = Dispatched(ClientOf[t]) \ {t}
      /\ \A d \in Clients \ {ClientOf[t]} : Dispatched(d)' = Dispatched(d)
  BY CompleteFreesSlot
<1>2. /\ t \in jobs /\ t \in Tasks /\ jobs \subseteq Tasks /\ jobs' = jobs \ {t}
      /\ ClientOf[t] \in Clients /\ WorkspaceOf[t] \in Workspaces
      /\ t \in Dispatched(ClientOf[t]) /\ Dispatched(ClientOf[t]) \subseteq Tasks
  BY ServiceAssumption DEF SchedulerInv, S!TypeOK, Taken, Dispatched, S!Complete
<1>3. \A n \in Nat \ {0} : S!Decremented(n) = n - 1
  BY DEF S!Decremented
<1>4. InflightCounts'
  <2>1. /\ inflight \in [Clients -> Nat]
        /\ inflight' = [inflight EXCEPT ![ClientOf[t]] = S!Decremented(@)]
        /\ \A d \in Clients : inflight[d] = Cardinality(Dispatched(d))
    BY DEF SchedulerInv, S!TypeOK, InflightCounts, S!Complete
  <2>2. /\ Cardinality(Dispatched(ClientOf[t])) \in Nat \ {0}
        /\ Cardinality(Dispatched(ClientOf[t])') = Cardinality(Dispatched(ClientOf[t])) - 1
    BY <1>1, <1>2, CountRemove
  <2> QED
    BY <1>1, <1>2, <1>3, <2>1, <2>2 DEF InflightCounts
<1>5. Cardinality(jobs') = globalTotal' /\ Cardinality(jobs') <= GlobalQuota
  <2>1. Cardinality(jobs) \in Nat \ {0} /\ Cardinality(jobs') = Cardinality(jobs) - 1
    BY <1>2, CountRemove
  <2> QED
    BY <1>3, <2>1, ServiceAssumption, SameCount
    DEF SchedulerInv, S!TotalsCountJobs, S!QuotasHold, S!Complete, S!ReleaseSlot
<1>6. \A c \in Clients : /\ Cardinality(S!OfClient(c)') = clientTotal'[c]
                         /\ Cardinality(S!OfClient(c)') <= ClientQuota
  <2> SUFFICES ASSUME NEW c \in Clients
               PROVE  /\ Cardinality(S!OfClient(c)') = clientTotal'[c]
                      /\ Cardinality(S!OfClient(c)') <= ClientQuota
    OBVIOUS
  <2>1. /\ clientTotal[c] = Cardinality(S!OfClient(c)) /\ Cardinality(S!OfClient(c)) <= ClientQuota
        /\ clientTotal' = [clientTotal EXCEPT ![ClientOf[t]] = S!Decremented(@)]
        /\ clientTotal \in [Clients -> Nat]
    BY SameCount
    DEF SchedulerInv, S!TypeOK, S!TotalsCountJobs, S!QuotasHold, S!Complete, S!ReleaseSlot
  <2>2. CASE c # ClientOf[t]
    <3>1. S!OfClient(c)' = S!OfClient(c)
      BY <1>2, <2>2 DEF S!OfClient
    <3> QED
      BY <1>2, <2>1, <2>2, <3>1
  <2>3. CASE c = ClientOf[t]
    <3>1. /\ S!OfClient(c)' = S!OfClient(c) \ {t} /\ t \in S!OfClient(c)
          /\ S!OfClient(c) \subseteq Tasks
      BY <1>2, <2>3 DEF S!OfClient
    <3>2. /\ Cardinality(S!OfClient(c)) \in Nat \ {0}
          /\ Cardinality(S!OfClient(c)') = Cardinality(S!OfClient(c)) - 1
      BY <3>1, CountRemove
    <3> QED
      BY <1>2, <1>3, <2>1, <2>3, <3>2, ServiceAssumption
  <2> QED
    BY <2>2, <2>3
<1>7. \A v \in Workspaces : /\ Cardinality(S!OfWorkspace(v)') = workspaceTotal'[v]
                            /\ Cardinality(S!OfWorkspace(v)') <= WorkspaceQuota
  <2> SUFFICES ASSUME NEW v \in Workspaces
               PROVE  /\ Cardinality(S!OfWorkspace(v)') = workspaceTotal'[v]
                      /\ Cardinality(S!OfWorkspace(v)') <= WorkspaceQuota
    OBVIOUS
  <2>1. /\ workspaceTotal[v] = Cardinality(S!OfWorkspace(v))
        /\ Cardinality(S!OfWorkspace(v)) <= WorkspaceQuota
        /\ workspaceTotal' = [workspaceTotal EXCEPT ![WorkspaceOf[t]] = S!Decremented(@)]
        /\ workspaceTotal \in [Workspaces -> Nat]
    BY SameCount
    DEF SchedulerInv, S!TypeOK, S!TotalsCountJobs, S!QuotasHold, S!Complete, S!ReleaseSlot
  <2>2. CASE v # WorkspaceOf[t]
    <3>1. S!OfWorkspace(v)' = S!OfWorkspace(v)
      BY <1>2, <2>2 DEF S!OfWorkspace
    <3> QED
      BY <1>2, <2>1, <2>2, <3>1
  <2>3. CASE v = WorkspaceOf[t]
    <3>1. /\ S!OfWorkspace(v)' = S!OfWorkspace(v) \ {t} /\ t \in S!OfWorkspace(v)
          /\ S!OfWorkspace(v) \subseteq Tasks
      BY <1>2, <2>3 DEF S!OfWorkspace
    <3>2. /\ Cardinality(S!OfWorkspace(v)) \in Nat \ {0}
          /\ Cardinality(S!OfWorkspace(v)') = Cardinality(S!OfWorkspace(v)) - 1
      BY <3>1, CountRemove
    <3> QED
      BY <1>2, <1>3, <2>1, <2>3, <3>2, ServiceAssumption
  <2> QED
    BY <2>2, <2>3
<1> QED
  BY <1>1, <1>4, <1>5, <1>6, <1>7, SameCount DEF SchedulerInv, S!TotalsCountJobs, S!QuotasHold

\* A scheduler just started has nothing.
LEMMA SchedulerStarts ==
    ASSUME S!Init
    PROVE  SchedulerInv /\ Taken = {}
<1>1. /\ jobs = {} /\ \A c \in Clients : queues[c] = <<>>
      /\ S!TypeOK
  BY DEF S!Init, S!TypeOK
<1>2. Cardinality({}) = 0
  BY FS_EmptySet
<1>3. QueuesHoldJobs
  <2>1. DOMAIN (<<>>) = {}
    OBVIOUS
  <2> QED
    BY <1>1, <2>1 DEF QueuesHoldJobs
<1>4. /\ Taken = {} /\ \A c \in Clients : Dispatched(c) = {} /\ S!OfClient(c) = {}
      /\ \A v \in Workspaces : S!OfWorkspace(v) = {}
  BY <1>1 DEF Taken, Dispatched, S!OfClient, S!OfWorkspace
<1>5. InflightCounts /\ S!TotalsCountJobs
  BY <1>1, <1>2, <1>4, SameCount DEF InflightCounts, S!TotalsCountJobs, S!Init
<1>6. S!QuotasHold
  <2>1. 0 <= GlobalQuota /\ 0 <= ClientQuota /\ 0 <= WorkspaceQuota
    BY ServiceAssumption
  <2>2. S!Cardinality({}) = 0
    BY <1>2, SameCount
  <2> QED
    BY <1>1, <1>4, <2>1, <2>2 DEF S!QuotasHold
<1> QED
  BY <1>1, <1>3, <1>4, <1>5, <1>6 DEF SchedulerInv

-----------------------------------------------------------------------------
(* The steps of the calls.                                                 *)

\* A call moves on to a step without a slot: what it had, it gave back, or
\* leaves behind.
LEMMA SlotlessMove ==
    ASSUME ServiceInv, NEW w \in Workers, NEW step \in Steps,
           step \notin SlotSteps,
           pc' = [pc EXCEPT ![w] = step],
           task' \in [Workers -> Tasks \cup {NoTask}],
           \A v \in Workers \ {w} : task'[v] = task[v],
           step \in {"enqueue", "requeue", "retry"} => task'[w] \in Tasks,
           asked' \in [Workers -> Requests],
           SchedulerInv', Taken \ {task[w]} \subseteq Taken',
           Taken \subseteq Taken' \/ pc[w] \in SlotSteps,
           claims' = claims, resourceLeases' = resourceLeases
    PROVE  ServiceInv'
<1>1. /\ pc \in [Workers -> Steps] /\ task \in [Workers -> Tasks \cup {NoTask}]
      /\ pc'[w] = step /\ \A v \in Workers \ {w} : pc'[v] = pc[v] /\ task'[v] = task[v]
  BY DEF ServiceInv, CallType
<1>2. CallType'
  BY <1>1 DEF ServiceInv, CallType
<1>3. \A v \in Workers : pc'[v] \in SlotSteps => v # w /\ pc[v] \in SlotSteps /\ task'[v] = task[v]
  BY <1>1
<1>4. \A t \in Tasks : t \in Taken /\ (pc[w] \in SlotSteps => t # task[w]) => t \in Taken'
  OBVIOUS
<1>5. SlotsOwned'
  BY <1>3, <1>4 DEF ServiceInv, SlotsOwned, CallType
<1>6. LeasesOwned'
  BY <1>1, <1>3 DEF ServiceInv, LeasesOwned, LeaseSteps, SlotSteps
<1> QED
  BY <1>2, <1>5, <1>6 DEF ServiceInv

\* A call moves on with its slot: it may take or release its own resources.
LEMMA SlotfulMove ==
    ASSUME ServiceInv, NEW w \in Workers, NEW step \in SlotSteps,
           pc[w] \in SlotSteps, Goto(w, step),
           SchedulerInv', Taken' = Taken, claims' = claims,
           NEW r, resourceLeases' \in {resourceLeases, [resourceLeases EXCEPT ![task[w]] = r]},
           step \in LeaseSteps => resourceLeases'[task[w]] # NotLeased
    PROVE  ServiceInv'
<1>0. SlotSteps \subseteq Steps
  BY DEF SlotSteps, LeaseSteps, Steps, ClaimSteps, ReportSteps
<1>1. /\ pc \in [Workers -> Steps] /\ task \in [Workers -> Tasks \cup {NoTask}]
      /\ pc'[w] = step /\ \A v \in Workers \ {w} : pc'[v] = pc[v]
      /\ task' = task /\ asked' = asked /\ pc' \in [Workers -> Steps]
  BY <1>0 DEF ServiceInv, CallType, Goto
<1>2. /\ DOMAIN resourceLeases' = Tasks
      /\ \A t \in Tasks : t # task[w] => resourceLeases'[t] = resourceLeases[t]
  BY DEF ServiceInv, CallType
<1>3. \A v \in Workers : pc'[v] \in SlotSteps => pc[v] \in SlotSteps
  BY <1>1
<1>4. CallType'
  <2>1. /\ \A v \in Workers : pc'[v] \in SlotSteps => task'[v] \in Tasks
        /\ \A v \in Workers : pc'[v] \in {"enqueue", "requeue", "retry"} => task'[v] \in Tasks
    BY <1>1, <1>3 DEF ServiceInv, CallType, SlotSteps, LeaseSteps
  <2> QED
    BY <1>1, <1>2, <2>1 DEF ServiceInv, CallType
<1>5. SlotsOwned'
  BY <1>1, <1>3 DEF ServiceInv, SlotsOwned
<1>6. LeasesOwned'
  <2>1. ASSUME NEW t \in Tasks, claims'[t] # NoClaim PROVE resourceLeases'[t] # NotLeased
    <3>1. t # task[w] /\ resourceLeases[t] # NotLeased
      BY <2>1 DEF ServiceInv, SlotsOwned, LeasesOwned
    <3> QED
      BY <1>2, <3>1
  <2>2. ASSUME NEW v \in Workers, pc'[v] \in LeaseSteps PROVE resourceLeases'[task'[v]] # NotLeased
    <3>1. CASE v = w
      BY <1>1, <2>2, <3>1
    <3>2. CASE v # w
      <4>1. pc[v] \in LeaseSteps /\ pc[v] \in SlotSteps
        BY <1>1, <2>2, <3>2 DEF SlotSteps
      <4>2. task[v] # task[w] /\ task[v] \in Tasks /\ resourceLeases[task[v]] # NotLeased
        BY <3>2, <4>1 DEF ServiceInv, SlotsOwned, LeasesOwned, CallType
      <4> QED
        BY <1>1, <1>2, <4>2
    <3> QED
      BY <3>1, <3>2
  <2> QED
    BY <2>1, <2>2 DEF LeasesOwned
<1> QED
  BY <1>4, <1>5, <1>6 DEF ServiceInv

\* A scheduler left alone keeps its invariant and its slots.
LEMMA SchedulerSame ==
    ASSUME SchedulerInv, SameScheduler
    PROVE  SchedulerInv' /\ Taken' = Taken
<1> USE DEF SameScheduler, schedulerVars
<1>1. S!TypeOK'
  BY DEF SchedulerInv, S!TypeOK
<1>2. QueuesHoldJobs'
  BY DEF SchedulerInv, QueuesHoldJobs
<1>3. InflightCounts' /\ Taken' = Taken
  BY DEF SchedulerInv, InflightCounts, Dispatched, Waiting, Taken
<1>4. S!TotalsCountJobs' /\ S!QuotasHold'
  BY DEF SchedulerInv, S!TotalsCountJobs, S!QuotasHold, S!OfClient, S!OfWorkspace
<1> QED
  BY <1>1, <1>2, <1>3, <1>4 DEF SchedulerInv

\* scheduler.enqueue by the service, also when it is refused.
LEMMA TryEnqueueKeeps ==
    ASSUME SchedulerInv, NEW t \in Tasks,
           IF S!MayEnqueue(t) THEN S!Enqueue(t) ELSE SameScheduler
    PROVE  SchedulerInv' /\ Taken' = Taken
BY EnqueueKeeps, SchedulerSame

-----------------------------------------------------------------------------
(* The actions.                                                            *)

\* Goto, Pursue and Return, as far as the invariant is concerned.
LEMMA Moves ==
    ASSUME CallType, NEW w \in Workers, NEW step \in Steps, NEW t \in Tasks \cup {NoTask},
           Goto(w, step) \/ Pursue(w, step, t) \/ (Return(w) /\ step = "idle" /\ t = NoTask)
    PROVE  /\ pc' = [pc EXCEPT ![w] = step]
           /\ task' \in [Workers -> Tasks \cup {NoTask}]
           /\ \A v \in Workers \ {w} : task'[v] = task[v]
           /\ Goto(w, step) \/ task'[w] = t
           /\ asked' \in [Workers -> Requests]
<1>1. CASE Goto(w, step)
  BY <1>1 DEF CallType, Goto
<1>2. CASE Pursue(w, step, t)
  BY <1>2 DEF CallType, Pursue
<1>3. CASE Return(w) /\ step = "idle" /\ t = NoTask
  BY <1>3 DEF CallType, Return
<1> QED
  BY <1>1, <1>2, <1>3

\* The actions after which a call has no slot.
LEMMA SlotlessActions ==
    ASSUME ServiceInv, NEW w \in Workers, NEW step \in Steps, step \notin SlotSteps,
           NEW t \in Tasks \cup {NoTask},
           Goto(w, step) \/ Pursue(w, step, t) \/ (Return(w) /\ step = "idle" /\ t = NoTask),
           step \in {"enqueue", "requeue", "retry"} =>
               IF Goto(w, step) THEN task[w] \in Tasks ELSE t \in Tasks,
           SchedulerInv', Taken \ {task[w]} \subseteq Taken',
           Taken \subseteq Taken' \/ pc[w] \in SlotSteps,
           claims' = claims, resourceLeases' = resourceLeases
    PROVE  ServiceInv'
<1>1. /\ pc' = [pc EXCEPT ![w] = step]
      /\ task' \in [Workers -> Tasks \cup {NoTask}]
      /\ \A v \in Workers \ {w} : task'[v] = task[v]
      /\ Goto(w, step) \/ task'[w] = t
      /\ asked' \in [Workers -> Requests]
  BY Moves DEF ServiceInv
<1>2. step \in {"enqueue", "requeue", "retry"} => task'[w] \in Tasks
  BY <1>1 DEF Goto
<1> QED
  BY <1>1, <1>2, SlotlessMove

LEMMA SubmitKeeps ==
    ASSUME ServiceInv, NEW w \in Workers, NEW t \in Tasks, Submit(w, t)
    PROVE  ServiceInv'
<1>1. SchedulerInv' /\ Taken' = Taken
  BY SchedulerSame DEF ServiceInv, Submit
<1>2. /\ Pursue(w, "enqueue", t) /\ claims' = claims /\ resourceLeases' = resourceLeases
  BY DEF Submit, SameDaemon, SameGovernor, governorVars
<1>3. "enqueue" \in Steps /\ "enqueue" \notin SlotSteps
  BY DEF Steps, SlotSteps, LeaseSteps
<1>4. ~ Goto(w, "enqueue") \/ task[w] \in Tasks
  BY <1>2 DEF Goto, Pursue, ServiceInv, CallType
<1> QED
  BY <1>1, <1>2, <1>3, <1>4, SlotlessActions

LEMMA EnqueueActionKeeps ==
    ASSUME ServiceInv, NEW w \in Workers, Enqueue(w) \/ EnqueueRetry(w)
    PROVE  ServiceInv'
<1>1. pc[w] \in {"enqueue", "retry"} /\ task[w] \in Tasks
  BY DEF Enqueue, EnqueueRetry, At, ServiceInv, CallType
<1>2. /\ IF S!MayEnqueue(task[w]) THEN S!Enqueue(task[w]) ELSE SameScheduler
      /\ Return(w) /\ claims' = claims /\ resourceLeases' = resourceLeases
  BY DEF Enqueue, EnqueueRetry, SameDaemon, SameGovernor, governorVars
<1>3. SchedulerInv' /\ Taken' = Taken
  BY <1>1, <1>2, TryEnqueueKeeps DEF ServiceInv
<1>4. "idle" \in Steps /\ "idle" \notin SlotSteps
  BY DEF Steps, SlotSteps, LeaseSteps
<1> QED
  BY <1>2, <1>3, <1>4, SlotlessActions

LEMMA StartClaimKeeps ==
    ASSUME ServiceInv, NEW w \in Workers, NEW request \in Requests, StartClaim(w, request)
    PROVE  ServiceInv'
<1>1. SchedulerInv' /\ Taken' = Taken
  BY SchedulerSame DEF ServiceInv, StartClaim
<1>2. /\ pc' = [pc EXCEPT ![w] = "next"] /\ task' = task
      /\ claims' = claims /\ resourceLeases' = resourceLeases
      /\ asked' \in [Workers -> Requests]
  BY DEF StartClaim, SameDaemon, SameGovernor, governorVars, ServiceInv, CallType
<1>3. "next" \in Steps /\ "next" \notin SlotSteps
  BY DEF Steps, ClaimSteps, SlotSteps, LeaseSteps
<1>4. task' \in [Workers -> Tasks \cup {NoTask}]
  BY <1>2 DEF ServiceInv, CallType
<1> QED
  BY <1>1, <1>2, <1>3, <1>4, SlotlessMove

LEMMA NoCandidateKeeps ==
    ASSUME ServiceInv, NEW w \in Workers, NoCandidate(w)
    PROVE  ServiceInv'
<1>1. SchedulerInv' /\ Taken' = Taken
  BY SchedulerSame DEF ServiceInv, NoCandidate
<1>2. Return(w) /\ claims' = claims /\ resourceLeases' = resourceLeases
  BY DEF NoCandidate, SameDaemon, SameGovernor, governorVars
<1>3. "idle" \in Steps /\ "idle" \notin SlotSteps
  BY DEF Steps, SlotSteps, LeaseSteps
<1> QED
  BY <1>1, <1>2, <1>3, SlotlessActions

\* next() gives a slot that nobody had: its task was waiting.
LEMMA NextCandidateKeeps ==
    ASSUME ServiceInv, NEW w \in Workers, NEW c \in Clients, NextCandidate(w, c)
    PROVE  ServiceInv'
<1> DEFINE t == Head(queues[c])
<1>1. SchedulerInv' /\ t \in Tasks /\ t \notin Taken /\ Taken' = Taken \cup {t}
  BY DispatchKeeps DEF ServiceInv, NextCandidate
<1>2. /\ pc[w] = "next" /\ pc' = [pc EXCEPT ![w] = "admit"] /\ task' = [task EXCEPT ![w] = t]
      /\ asked' = asked /\ claims' = claims /\ resourceLeases' = resourceLeases
  BY DEF NextCandidate, At, SameDaemon, SameGovernor, governorVars
<1> HIDE DEF t
<1>3. /\ "admit" \in Steps /\ "admit" \in SlotSteps /\ "admit" \notin LeaseSteps
      /\ "admit" \notin {"enqueue", "requeue", "retry"}
  BY DEF Steps, ClaimSteps, SlotSteps, LeaseSteps
<1>4. /\ pc' \in [Workers -> Steps] /\ task' \in [Workers -> Tasks \cup {NoTask}]
      /\ pc'[w] = "admit" /\ task'[w] = t
      /\ \A v \in Workers \ {w} : pc'[v] = pc[v] /\ task'[v] = task[v]
  BY <1>1, <1>2, <1>3 DEF ServiceInv, CallType
<1>5. CallType'
  BY <1>1, <1>2, <1>3, <1>4 DEF ServiceInv, CallType
<1>6. claims[t] = NoClaim /\ \A v \in Workers : pc[v] \in SlotSteps => task[v] # t
  BY <1>1 DEF ServiceInv, SlotsOwned
<1>7. SlotsOwned'
  <2>1. \A u \in Tasks : claims'[u] # NoClaim => u \in Taken'
    BY <1>1, <1>2 DEF ServiceInv, SlotsOwned
  <2>2. \A v \in Workers : pc'[v] \in SlotSteps => task'[v] \in Taken' /\ claims'[task'[v]] = NoClaim
    BY <1>1, <1>2, <1>4, <1>6 DEF ServiceInv, SlotsOwned
  <2>3. \A u, v \in Workers :
            pc'[u] \in SlotSteps /\ pc'[v] \in SlotSteps /\ task'[u] = task'[v] => u = v
    BY <1>4, <1>6 DEF ServiceInv, SlotsOwned
  <2> QED
    BY <2>1, <2>2, <2>3 DEF SlotsOwned
<1>8. LeasesOwned'
  BY <1>2, <1>3, <1>4 DEF ServiceInv, LeasesOwned
<1> QED
  BY <1>1, <1>5, <1>7, <1>8 DEF ServiceInv

\* admit: a lease, a lease there was, or a refusal.
LEMMA AdmitKeeps ==
    ASSUME ServiceInv, NEW w \in Workers, Admit(w)
    PROVE  ServiceInv'
<1> DEFINE t == task[w]
           r == [client |-> ClientOf[t], request |-> asked[w]]
<1> HIDE DEF r
<1>1. SchedulerInv' /\ Taken' = Taken /\ claims' = claims
  BY SchedulerSame DEF ServiceInv, Admit, SameDaemon
<1>2. /\ pc[w] = "admit" /\ pc[w] \in SlotSteps /\ t \in Tasks /\ DOMAIN resourceLeases = Tasks
      /\ ClientOf[t] \in Clients /\ asked[w] \in Requests
  BY ServiceAssumption DEF Admit, At, SlotSteps, ServiceInv, CallType
<1>3. {"claim", "refused"} \subseteq SlotSteps /\ "refused" \notin LeaseSteps
  BY DEF SlotSteps, LeaseSteps
<1>4. r # NotLeased
  BY <1>2, ServiceAssumption DEF r
<1>5. CASE G!Admit(ClientOf[t], t, asked[w]) /\ Goto(w, "claim")
  <2>1. resourceLeases' = [resourceLeases EXCEPT ![t] = r]
    BY <1>5 DEF G!Admit, r
  <2>2. resourceLeases'[t] # NotLeased
    BY <1>2, <1>4, <2>1
  <2>3. /\ resourceLeases' \in {resourceLeases, [resourceLeases EXCEPT ![task[w]] = r]}
        /\ resourceLeases'[task[w]] # NotLeased /\ "claim" \in SlotSteps /\ Goto(w, "claim")
    BY <1>3, <1>5, <2>1, <2>2
  <2> QED
    BY ONLY ServiceInv, w \in Workers, <1>1, <1>2, <2>3, SlotfulMove
<1>6. CASE G!AdmitAgain(t) /\ Goto(w, "claim")
  <2>1. resourceLeases' = resourceLeases /\ resourceLeases[t] # NotLeased
    BY <1>6 DEF G!AdmitAgain, G!Leased, G!governorVars, G!budgetVars
  <2> QED
    BY <1>1, <1>2, <1>3, <1>6, <2>1, SlotfulMove
<1>7. CASE G!Throttle(ClientOf[t], t, asked[w]) /\ Goto(w, "refused")
  <2>1. resourceLeases' = resourceLeases
    BY <1>7 DEF G!Throttle, G!budgetVars
  <2> QED
    BY <1>1, <1>2, <1>3, <1>7, <2>1, SlotfulMove
<1> QED
  BY <1>5, <1>6, <1>7 DEF Admit

\* A refused or unclaimed candidate's slot is given back, as is a reported
\* task's: the call that does it owns the slot.
LEMMA RefusedKeeps ==
    ASSUME ServiceInv, NEW w \in Workers, Refused(w)
    PROVE  ServiceInv'
<1>1. pc[w] \in SlotSteps /\ task[w] \in Taken /\ task[w] \in Tasks
  BY DEF Refused, At, SlotSteps, ServiceInv, SlotsOwned, CallType
<1>2. SchedulerInv' /\ Taken' = Taken \ {task[w]}
  BY <1>1, CompleteKeeps DEF ServiceInv, Refused
<1>3. Goto(w, "requeue") /\ claims' = claims /\ resourceLeases' = resourceLeases
  BY DEF Refused, SameDaemon, SameGovernor, governorVars
<1>4. "requeue" \in Steps /\ "requeue" \notin SlotSteps
  BY DEF Steps, ClaimSteps, SlotSteps, LeaseSteps
<1> QED
  BY <1>1, <1>2, <1>3, <1>4, SlotlessActions

LEMMA RequeueRefusedKeeps ==
    ASSUME ServiceInv, NEW w \in Workers, RequeueRefused(w)
    PROVE  ServiceInv'
<1>1. task[w] \in Tasks
  BY DEF RequeueRefused, At, ServiceInv, CallType
<1>2. claims' = claims /\ resourceLeases' = resourceLeases
  BY DEF RequeueRefused, SameDaemon, SameGovernor, governorVars
<1>3. SchedulerInv' /\ Taken' = Taken /\ (Pursue(w, "next", NoTask) \/ Return(w))
  BY <1>1, TryEnqueueKeeps DEF ServiceInv, RequeueRefused
<1>4. {"next", "idle"} \subseteq Steps /\ "next" \notin SlotSteps /\ "idle" \notin SlotSteps
  BY DEF Steps, ClaimSteps, SlotSteps, LeaseSteps
<1>5. CASE Pursue(w, "next", NoTask)
  BY <1>2, <1>3, <1>4, <1>5, SlotlessActions
<1>6. CASE Return(w)
  BY <1>2, <1>3, <1>4, <1>6, SlotlessActions
<1> QED
  BY <1>3, <1>5, <1>6

LEMMA DropCandidateKeeps ==
    ASSUME ServiceInv, NEW w \in Workers, DropCandidate(w)
    PROVE  ServiceInv'
<1>1. pc[w] \in SlotSteps /\ task[w] \in Taken
  BY DEF DropCandidate, At, SlotSteps, ServiceInv, SlotsOwned
<1>2. SchedulerInv' /\ Taken' = Taken \ {task[w]}
  BY <1>1, CompleteKeeps DEF ServiceInv, DropCandidate
<1>3. Pursue(w, "next", NoTask) /\ claims' = claims /\ resourceLeases' = resourceLeases
  BY DEF DropCandidate, SameDaemon, SameGovernor, governorVars
<1>4. "next" \in Steps /\ "next" \notin SlotSteps
  BY DEF Steps, ClaimSteps, SlotSteps, LeaseSteps
<1> QED
  BY <1>1, <1>2, <1>3, <1>4, SlotlessActions

LEMMA RetireKeeps ==
    ASSUME ServiceInv, NEW w \in Workers, Retire(w)
    PROVE  ServiceInv'
<1>1. pc[w] \in SlotSteps /\ task[w] \in Taken /\ task[w] \in Tasks
  BY DEF Retire, At, SlotSteps, ServiceInv, SlotsOwned, CallType
<1>2. SchedulerInv' /\ Taken' = Taken \ {task[w]}
  BY <1>1, CompleteKeeps DEF ServiceInv, Retire
<1>3. (Return(w) \/ Goto(w, "retry")) /\ claims' = claims /\ resourceLeases' = resourceLeases
  BY DEF Retire, SameDaemon, SameGovernor, governorVars
<1>4. {"retry", "idle"} \subseteq Steps /\ "retry" \notin SlotSteps /\ "idle" \notin SlotSteps
  BY DEF Steps, ReportSteps, SlotSteps, LeaseSteps
<1>5. CASE Goto(w, "retry")
  BY <1>1, <1>2, <1>3, <1>4, <1>5, SlotlessActions
<1>6. CASE Return(w)
  BY <1>1, <1>2, <1>3, <1>4, <1>6, SlotlessActions
<1> QED
  BY <1>3, <1>5, <1>6

\* governor.release by the call that owns the task's slot.
LEMMA ReleaseKeeps ==
    ASSUME ServiceInv, NEW w \in Workers, Unclaim(w) \/ ReleaseResources(w)
    PROVE  ServiceInv'
<1>1. SchedulerInv' /\ Taken' = Taken /\ claims' = claims
  BY SchedulerSame DEF ServiceInv, Unclaim, ReleaseResources, SameDaemon
<1>2. PICK step \in {"drop", "retire", "retire_retry"} : Goto(w, step)
  BY DEF Unclaim, ReleaseResources
<1>3. pc[w] \in SlotSteps /\ step \in SlotSteps /\ step \notin LeaseSteps
  BY DEF Unclaim, ReleaseResources, At, SlotSteps, LeaseSteps
<1>4. resourceLeases' \in {resourceLeases, [resourceLeases EXCEPT ![task[w]] = NotLeased]}
  BY DEF Unclaim, ReleaseResources, G!Release, G!governorVars, G!budgetVars
<1> QED
  BY <1>1, <1>2, <1>3, <1>4, SlotfulMove

\* The claim takes over the slot and the resources from the call.
LEMMA ClaimKeeps ==
    ASSUME ServiceInv, NEW w \in Workers, NEW ttl \in TTLs, Claim(w, ttl)
    PROVE  ServiceInv'
<1> DEFINE t == task[w]
           l == [task |-> t, id |-> leaseId'[t], fence |-> fence'[t]]
<1>1. SchedulerInv' /\ Taken' = Taken
  BY SchedulerSame DEF ServiceInv, Claim
<1>2. /\ pc[w] = "claim" /\ Return(w) /\ resourceLeases' = resourceLeases
      /\ claims' = [claims EXCEPT ![t] = l]
  BY DEF Claim, At, SameGovernor, governorVars
<1> HIDE DEF l
<1>3. "idle" \in Steps /\ "idle" \notin SlotSteps /\ "claim" \in SlotSteps /\ "claim" \in LeaseSteps
  BY DEF Steps, SlotSteps, LeaseSteps
<1>4. /\ t \in Taken /\ t \in Tasks /\ resourceLeases[t] # NotLeased /\ DOMAIN claims = Tasks
      /\ \A v \in Workers \ {w} : pc[v] \in SlotSteps => task[v] # t
  BY <1>2, <1>3 DEF ServiceInv, CallType, SlotsOwned, LeasesOwned
<1>5. /\ pc' \in [Workers -> Steps] /\ task' \in [Workers -> Tasks \cup {NoTask}]
      /\ asked' = asked /\ pc'[w] = "idle"
      /\ \A v \in Workers \ {w} : pc'[v] = pc[v] /\ task'[v] = task[v]
  BY <1>2, <1>3 DEF Return, ServiceInv, CallType
<1>6. \A v \in Workers : pc'[v] \in SlotSteps => v # w /\ pc[v] \in SlotSteps /\ task'[v] = task[v]
  BY <1>3, <1>5
<1>7. DOMAIN claims' = Tasks /\ \A u \in Tasks \ {t} : claims'[u] = claims[u]
  BY <1>2, <1>4
<1>8. CallType'
  BY <1>2, <1>5, <1>6, <1>7 DEF ServiceInv, CallType
<1>9. SlotsOwned'
  <2>1. \A u \in Tasks : claims'[u] # NoClaim => u \in Taken'
    BY <1>1, <1>4, <1>7 DEF ServiceInv, SlotsOwned
  <2>2. \A v \in Workers : pc'[v] \in SlotSteps => task'[v] \in Taken' /\ claims'[task'[v]] = NoClaim
    BY <1>1, <1>4, <1>6, <1>7 DEF ServiceInv, SlotsOwned, CallType
  <2>3. \A u, v \in Workers :
            pc'[u] \in SlotSteps /\ pc'[v] \in SlotSteps /\ task'[u] = task'[v] => u = v
    BY <1>6 DEF ServiceInv, SlotsOwned
  <2> QED
    BY <2>1, <2>2, <2>3 DEF SlotsOwned
<1>10. LeasesOwned'
  BY <1>2, <1>4, <1>5, <1>6, <1>7 DEF ServiceInv, LeasesOwned, SlotSteps
<1> QED
  BY <1>1, <1>8, <1>9, <1>10 DEF ServiceInv

LEMMA ClaimNothingKeeps ==
    ASSUME ServiceInv, NEW w \in Workers, ClaimNothing(w)
    PROVE  ServiceInv'
<1>1. SchedulerInv' /\ Taken' = Taken
  BY SchedulerSame DEF ServiceInv, ClaimNothing
<1>2. pc[w] = "claim" /\ Goto(w, "unclaim") /\ claims' = claims /\ resourceLeases' = resourceLeases
  BY DEF ClaimNothing, At, SameDaemon, SameGovernor, governorVars
<1>3. {"claim", "unclaim"} \subseteq LeaseSteps /\ LeaseSteps \subseteq SlotSteps
  BY DEF SlotSteps, LeaseSteps
<1>4. resourceLeases[task[w]] # NotLeased
  BY <1>2, <1>3 DEF ServiceInv, LeasesOwned
<1> QED
  BY <1>1, <1>2, <1>3, <1>4, SlotfulMove

\* hub_complete and hub_fail pop the claim: the call owns the slot again.
LEMMA ReportKeeps ==
    ASSUME ServiceInv, NEW w \in Workers, NEW t \in Tasks, NEW step \in {"complete", "fail"},
           Report(w, t, step)
    PROVE  ServiceInv'
<1>1. SchedulerInv' /\ Taken' = Taken
  BY SchedulerSame DEF ServiceInv, Report
<1>2. /\ pc[w] = "idle" /\ claims[t] # NoClaim
      /\ pc' = [pc EXCEPT ![w] = step] /\ task' = [task EXCEPT ![w] = t]
      /\ claims' = [claims EXCEPT ![t] = NoClaim]
      /\ asked' = asked /\ resourceLeases' = resourceLeases
  BY DEF Report, At, SameGovernor, governorVars
<1>3. /\ step \in Steps /\ step \in LeaseSteps /\ LeaseSteps \subseteq SlotSteps
      /\ step \notin {"enqueue", "requeue", "retry"}
  BY DEF Steps, ReportSteps, SlotSteps, LeaseSteps
<1>4. /\ t \in Taken /\ resourceLeases[t] # NotLeased /\ DOMAIN claims = Tasks
      /\ \A v \in Workers : pc[v] \in SlotSteps => task[v] # t
  BY <1>2 DEF ServiceInv, CallType, SlotsOwned, LeasesOwned
<1>5. /\ pc' \in [Workers -> Steps] /\ task' \in [Workers -> Tasks \cup {NoTask}]
      /\ pc'[w] = step /\ task'[w] = t
      /\ \A v \in Workers \ {w} : pc'[v] = pc[v] /\ task'[v] = task[v]
  BY <1>2, <1>3 DEF ServiceInv, CallType
<1>7. /\ DOMAIN claims' = Tasks /\ claims'[t] = NoClaim
      /\ \A u \in Tasks \ {t} : claims'[u] = claims[u]
  BY <1>2, <1>4
<1>8. CallType'
  BY <1>2, <1>3, <1>5, <1>7 DEF ServiceInv, CallType
<1>9. SlotsOwned'
  <2>1. \A u \in Tasks : claims'[u] # NoClaim => u \in Taken'
    BY <1>1, <1>7 DEF ServiceInv, SlotsOwned
  <2>2. \A v \in Workers : pc'[v] \in SlotSteps => task'[v] \in Taken' /\ claims'[task'[v]] = NoClaim
    BY <1>1, <1>4, <1>5, <1>7 DEF ServiceInv, SlotsOwned, CallType
  <2>3. \A u, v \in Workers :
            pc'[u] \in SlotSteps /\ pc'[v] \in SlotSteps /\ task'[u] = task'[v] => u = v
    BY <1>4, <1>5 DEF ServiceInv, SlotsOwned
  <2> QED
    BY <2>1, <2>2, <2>3 DEF SlotsOwned
<1>10. LeasesOwned'
  BY <1>2, <1>4, <1>5, <1>7 DEF ServiceInv, LeasesOwned
<1> QED
  BY <1>1, <1>8, <1>9, <1>10 DEF ServiceInv

\* queue.complete and queue.fail: the call goes on with its slot.
LEMMA DecideKeeps ==
    ASSUME ServiceInv, NEW w \in Workers,
           CompleteDurably(w) \/ \E backoff \in Backoffs : FailDurably(w, backoff)
    PROVE  ServiceInv'
<1>1. SchedulerInv' /\ Taken' = Taken
  BY SchedulerSame DEF ServiceInv, CompleteDurably, FailDurably
<1>2. /\ pc[w] \in {"complete", "fail"} /\ claims' = claims /\ resourceLeases' = resourceLeases
      /\ \E step \in {"release", "release_retry"} : Goto(w, step)
  BY DEF CompleteDurably, FailDurably, At, SameDaemon, SameGovernor, governorVars
<1>3. /\ {"complete", "fail", "release", "release_retry"} \subseteq LeaseSteps
      /\ LeaseSteps \subseteq SlotSteps
  BY DEF SlotSteps, LeaseSteps
<1>4. resourceLeases[task[w]] # NotLeased
  BY <1>2, <1>3 DEF ServiceInv, LeasesOwned
<1> QED
  BY <1>1, <1>2, <1>3, <1>4, SlotfulMove

\* A queue operation raises: the call ends and leaves the slot taken.
LEMMA QueueRaisesKeeps ==
    ASSUME ServiceInv, NEW w \in Workers, QueueRaises(w)
    PROVE  ServiceInv'
<1>1. SchedulerInv' /\ Taken' = Taken
  BY SchedulerSame DEF ServiceInv, QueueRaises
<1>2. Return(w) /\ claims' = claims /\ resourceLeases' = resourceLeases
  BY DEF QueueRaises, SameGovernor, governorVars
<1>3. "idle" \in Steps /\ "idle" \notin SlotSteps
  BY DEF Steps, SlotSteps, LeaseSteps
<1> QED
  BY <1>1, <1>2, <1>3, SlotlessActions

\* Steps that leave the calls, the claims and the resources alone.
LEMMA OtherStepsKeep ==
    ASSUME ServiceInv, SchedulerInv', Taken' = Taken,
           UNCHANGED <<pc, task, asked, claims, resourceLeases>>
    PROVE  ServiceInv'
<1>1. CallType'
  BY DEF ServiceInv, CallType
<1>2. SlotsOwned' /\ LeasesOwned'
  BY DEF ServiceInv, SlotsOwned, LeasesOwned
<1> QED
  BY <1>1, <1>2 DEF ServiceInv

LEMMA RehydrateKeeps ==
    ASSUME ServiceInv, NEW t \in Tasks, Rehydrate(t)
    PROVE  ServiceInv'
<1>1. SchedulerInv' /\ Taken' = Taken
  BY TryEnqueueKeeps DEF ServiceInv, Rehydrate
<1> QED
  BY <1>1, OtherStepsKeep DEF Rehydrate, SameGovernor, governorVars, callVars

\* A hub just started has no calls, no claims and no leases.
LEMMA ServiceStarts ==
    ASSUME S!Init, asked \in [Workers -> Requests],
           pc = [w \in Workers |-> "idle"], task = [w \in Workers |-> NoTask],
           claims = [t \in Tasks |-> NoClaim], resourceLeases = [t \in Tasks |-> NotLeased]
    PROVE  ServiceInv
<1>1. SchedulerInv /\ Taken = {}
  BY SchedulerStarts
<1>2. "idle" \in Steps /\ "idle" \notin SlotSteps /\ "idle" \notin LeaseSteps
  BY DEF Steps, SlotSteps, LeaseSteps
<1>3. CallType
  BY <1>2 DEF CallType
<1>4. SlotsOwned /\ LeasesOwned
  BY <1>2 DEF SlotsOwned, LeasesOwned
<1> QED
  BY <1>1, <1>3, <1>4 DEF ServiceInv

LEMMA ServiceInit == Init => ServiceInv
<1> SUFFICES ASSUME Init PROVE ServiceInv
  OBVIOUS
<1>1. resourceLeases = [t \in Tasks |-> NotLeased]
  BY DEF Init, G!GovernorInit
<1> QED
  BY <1>1, ServiceStarts DEF Init

LEMMA CrashKeeps ==
    ASSUME ServiceInv, Crash
    PROVE  ServiceInv'
<1>1. S!TypeOK' /\ jobs' = {} /\ QueuesHoldJobs'
  <2>1. DOMAIN (<<>>) = {} /\ <<>> \in Seq(Tasks)
    OBVIOUS
  <2>2. S!TypeOK' /\ jobs' = {}
    BY <2>1 DEF Crash, S!TypeOK
  <2>3. \A c \in Clients : queues'[c] = <<>>
    BY DEF Crash
  <2> QED
    BY <2>1, <2>2, <2>3 DEF QueuesHoldJobs
<1>2. Cardinality({}) = 0 /\ S!Cardinality({}) = 0
  BY FS_EmptySet, SameCount
<1>3. /\ Taken' = {}
      /\ \A c \in Clients : Dispatched(c)' = {} /\ S!OfClient(c)' = {}
      /\ \A v \in Workspaces : S!OfWorkspace(v)' = {}
  BY <1>1 DEF Taken, Dispatched, S!OfClient, S!OfWorkspace
<1>4. InflightCounts' /\ S!TotalsCountJobs'
  BY <1>1, <1>2, <1>3 DEF InflightCounts, S!TotalsCountJobs, Crash
<1>5. S!QuotasHold'
  <2>1. 0 <= GlobalQuota /\ 0 <= ClientQuota /\ 0 <= WorkspaceQuota
    BY ServiceAssumption
  <2> QED
    BY <1>1, <1>2, <1>3, <2>1 DEF S!QuotasHold
<1>6. "idle" \in Steps /\ "idle" \notin SlotSteps /\ "idle" \notin LeaseSteps
  BY DEF Steps, SlotSteps, LeaseSteps
<1>7. CallType'
  BY <1>6 DEF ServiceInv, CallType, Crash
<1>8. SlotsOwned' /\ LeasesOwned'
  BY <1>6 DEF SlotsOwned, LeasesOwned, Crash
<1> QED
  BY <1>1, <1>4, <1>5, <1>7, <1>8 DEF ServiceInv, SchedulerInv

-----------------------------------------------------------------------------
\* Every step of the hub keeps the invariant.
LEMMA ServiceStep == ServiceInv /\ [Next]_vars => ServiceInv'
<1> SUFFICES ASSUME ServiceInv, [Next]_vars PROVE ServiceInv'
  OBVIOUS
<1>1. ASSUME NEW w \in Workers, Continue(w) PROVE ServiceInv'
  BY <1>1, EnqueueActionKeeps, NoCandidateKeeps, NextCandidateKeeps, AdmitKeeps, RefusedKeeps,
     RequeueRefusedKeeps, ClaimKeeps, ClaimNothingKeeps, ReleaseKeeps, DropCandidateKeeps,
     DecideKeeps, QueueRaisesKeeps, RetireKeeps, Zenon DEF Continue
<1>2. ASSUME NEW w \in Workers, NEW t \in Tasks, ReportRejected(w, t) PROVE ServiceInv'
  <2>1. SchedulerInv' /\ Taken' = Taken
    BY <1>2, SchedulerSame DEF ServiceInv, ReportRejected
  <2> QED
    BY <1>2, <2>1, OtherStepsKeep DEF ReportRejected, callVars, SameGovernor, governorVars
<1>3. CASE Tick
  <2>1. SchedulerInv' /\ Taken' = Taken
    BY <1>3, SchedulerSame DEF ServiceInv, Tick
  <2> QED
    BY <1>3, <2>1, OtherStepsKeep DEF Tick, hubVars, callVars, SameGovernor, governorVars
<1>4. CASE UNCHANGED vars
  <2>1. SchedulerInv' /\ Taken' = Taken
    BY <1>4, SchedulerSame DEF ServiceInv, vars, SameScheduler
  <2> QED
    BY <1>4, <2>1, OtherStepsKeep DEF vars, hubVars, callVars, governorVars
<1> QED
  BY <1>1, <1>2, <1>3, <1>4, SubmitKeeps, ReportKeeps, StartClaimKeeps, CrashKeeps,
     RehydrateKeeps, Zenon DEF Next

(***************************************************************************)
(* The hub is consistent: in every state, whatever the interleaving of the *)
(* calls and wherever the daemon crashed, its counters are exact, the      *)
(* quotas hold, and every taken slot that a claim or a call relies on has  *)
(* that one owner.                                                         *)
(***************************************************************************)
THEOREM ServiceSafe == Spec => []ServiceInv
<1>1. ServiceInv /\ UNCHANGED vars => ServiceInv'
  BY ServiceStep
<1> QED
  BY ServiceInit, ServiceStep, PTL DEF Spec

(***************************************************************************)
(* The in-flight counter of every client is exactly the number of its jobs *)
(* given out, and queues hold registered jobs, each once.                  *)
(***************************************************************************)
THEOREM InflightIsExact == Spec => []InflightIsDispatched
<1>1. ASSUME ServiceInv PROVE InflightIsDispatched
  <2> SUFFICES ASSUME NEW c \in Clients
               PROVE  /\ inflight[c] = Cardinality(Dispatched(c))
                      /\ Waiting(c) \subseteq jobs
                      /\ Cardinality(Waiting(c)) = Len(queues[c])
    BY DEF InflightIsDispatched
  <2>1. inflight[c] = Cardinality(Dispatched(c)) /\ Waiting(c) \subseteq jobs
    BY <1>1, TakenIsDispatched DEF ServiceInv, SchedulerInv, InflightCounts
  <2>2. /\ queues[c] \in Seq(Tasks)
        /\ \A i, j \in DOMAIN queues[c] : queues[c][i] = queues[c][j] => i = j
    BY <1>1 DEF ServiceInv, SchedulerInv, S!TypeOK, QueuesHoldJobs
  <2>3. Len(queues[c]) \in Nat /\ DOMAIN queues[c] = 1 .. Len(queues[c])
    BY <2>2, LenProperties
  <2>4. queues[c] \in Bijection(1 .. Len(queues[c]), Waiting(c))
    BY <2>2, <2>3 DEF Bijection, Injection, Surjection, IsInjective, Waiting
  <2>5. IsFiniteSet(1 .. Len(queues[c])) /\ Cardinality(1 .. Len(queues[c])) = Len(queues[c])
    <3> DEFINE n == Len(queues[c])
    <3>1. n \in Nat
      BY <2>3
    <3> HIDE DEF n
    <3>2. /\ IsFiniteSet(1 .. n)
          /\ Cardinality(1 .. n) = IF 1 > n THEN 0 ELSE n - 1 + 1
      BY <3>1, FS_Interval
    <3>3. Cardinality(1 .. n) = n
      BY <3>1, <3>2
    <3> QED
      BY <3>2, <3>3 DEF n
  <2>6. Cardinality(Waiting(c)) = Len(queues[c])
    BY <2>4, <2>5, FS_Bijection DEF ExistsBijection
  <2> QED
    BY <2>1, <2>6
<1> QED
  BY <1>1, ServiceSafe, PTL

(***************************************************************************)
(* What a worker holds is paid for: a claimed task has its resources and   *)
(* its slot, and scheduler.complete is only called on a task in flight.    *)
(***************************************************************************)
THEOREM ClaimsArePaidFor == Spec => []ClaimsAreCovered
<1>1. ASSUME ServiceInv PROVE ClaimsAreCovered
  <2>1. ASSUME NEW t \in Tasks, claims[t] # NoClaim
        PROVE  t \in G!Leased /\ t \in Dispatched(ClientOf[t])
    BY <1>1, <2>1, TakenIsDispatched DEF ServiceInv, SlotsOwned, LeasesOwned, G!Leased
  <2>2. ASSUME NEW w \in Workers, pc[w] \in {"refused", "drop", "retire", "retire_retry"}
        PROVE  task[w] \in Dispatched(ClientOf[task[w]])
    <3>1. pc[w] \in SlotSteps
      BY <2>2 DEF SlotSteps
    <3> QED
      BY <1>1, <3>1, TakenIsDispatched DEF ServiceInv, SlotsOwned
  <2> QED
    BY <2>1, <2>2 DEF ClaimsAreCovered
<1> QED
  BY <1>1, ServiceSafe, PTL

(***************************************************************************)
(* The hub's scheduler keeps its books: under the calls of the service,    *)
(* and from one crash to the next, its totals count the live jobs and no   *)
(* client, workspace or hub has more of them than its quota.               *)
(***************************************************************************)
THEOREM SchedulerKeepsBooks == Spec => [](S!TotalsCountJobs /\ S!QuotasHold)
<1>1. ServiceInv => S!TotalsCountJobs /\ S!QuotasHold
  BY DEF ServiceInv, SchedulerInv
<1> QED
  BY <1>1, ServiceSafe, PTL

-----------------------------------------------------------------------------
(* The journal's types.                                                    *)

\* What a step of the hub does to the queue.
LEMMA QueueMoves ==
    ASSUME [Next]_vars
    PROVE  \/ SameQueue
           \/ \E t : Q!Submit(t) \/ Q!ClaimConflict(t) \/ \E ttl \in TTLs : Q!Claim(t, ttl)
           \/ \E l : Q!Complete(l) \/ \E backoff \in Backoffs : Q!Fail(l, backoff)
           \/ Q!Tick
<1>1. ASSUME NEW w \in Workers, Continue(w)
      PROVE  \/ SameQueue
             \/ \E t : Q!ClaimConflict(t) \/ \E ttl \in TTLs : Q!Claim(t, ttl)
             \/ \E l : Q!Complete(l) \/ \E backoff \in Backoffs : Q!Fail(l, backoff)
  <2>1. CASE CompleteDurably(w) \/ \E backoff \in Backoffs : FailDurably(w, backoff)
    BY <2>1, Zenon DEF CompleteDurably, FailDurably
  <2>2. CASE ClaimNothing(w) \/ QueueRaises(w) \/ \E ttl \in TTLs : Claim(w, ttl)
    BY <2>2, Zenon DEF ClaimNothing, QueueRaises, Claim
  <2>3. CASE \/ Enqueue(w) \/ NoCandidate(w) \/ \E c \in Clients : NextCandidate(w, c)
             \/ Admit(w) \/ Refused(w) \/ RequeueRefused(w) \/ Unclaim(w) \/ DropCandidate(w)
             \/ ReleaseResources(w) \/ Retire(w) \/ EnqueueRetry(w)
    BY <2>3, Zenon DEF Enqueue, NoCandidate, NextCandidate, Admit, Refused, RequeueRefused,
        Unclaim, DropCandidate, ReleaseResources, Retire, EnqueueRetry
  <2> QED
    BY <1>1, <2>1, <2>2, <2>3, Zenon DEF Continue
<1>2. ASSUME NEW w \in Workers, NEW t \in Tasks,
             \/ Submit(w, t) \/ ReportRejected(w, t)
             \/ \E step \in {"complete", "fail"} : Report(w, t, step)
      PROVE  SameQueue \/ Q!Submit(t)
  BY <1>2, Zenon DEF Submit, ReportRejected, Report
<1>3. ASSUME NEW w \in Workers, NEW request \in Requests, StartClaim(w, request)
      PROVE  SameQueue
  BY <1>3 DEF StartClaim
<1>4. CASE Tick \/ Crash \/ \E t \in Tasks : Rehydrate(t)
  BY <1>4, Zenon DEF Tick, Crash, Rehydrate
<1>5. CASE UNCHANGED vars
  BY <1>5, Zenon DEF vars, SameQueue
<1> QED
  BY <1>1, <1>2, <1>3, <1>4, <1>5, Zenon DEF Next

LEMMA JournalTypeStep == JournalType /\ [Next]_vars => JournalType'
<1> SUFFICES ASSUME JournalType, [Next]_vars PROVE JournalType'
  OBVIOUS
<1>0. /\ {"queued", "leased", "completed", "dead_letter"} \subseteq Q!JobStates
      /\ {"ready", "leased", "completed", "failed"} \subseteq Q!MapperStates
      /\ Q!Reclaimed \in [Tasks -> Q!MapperStates]
      /\ TTLs \subseteq Nat /\ Backoffs \subseteq Nat
  BY ServiceAssumption DEF JournalType, Q!Reclaimed, Q!JobStates, Q!MapperStates
<1>1. CASE SameQueue
  BY <1>1 DEF JournalType, SameQueue, queueVars
<1>2. ASSUME NEW t, Q!Submit(t) PROVE JournalType'
  BY <1>0, <1>2 DEF JournalType, Q!Submit, Q!MapperEnqueue, Q!Recorded
<1>3. ASSUME NEW t, Q!ClaimConflict(t) PROVE JournalType'
  BY <1>0, <1>3 DEF JournalType, Q!ClaimConflict, Q!journalVars
<1>4. ASSUME NEW t, NEW ttl \in TTLs, Q!Claim(t, ttl) PROVE JournalType'
  <2>1. mapper' \in [Tasks -> Q!MapperStates] /\ mapperFence' \in [Tasks -> Nat]
    <3>1. /\ mapper' = [Q!Reclaimed EXCEPT ![t] = "leased"]
          /\ mapperFence' = [mapperFence EXCEPT ![t] = @ + 1]
          /\ mapperFence \in [Tasks -> Nat]
      BY <1>4 DEF JournalType, Q!Claim, Q!MapperClaim
    <3>2. mapper' \in [Tasks -> Q!MapperStates]
      BY <1>0, <3>1
    <3>3. mapperFence' \in [Tasks -> Nat]
      <4>1. CASE t \in Tasks
        BY <3>1, <4>1
      <4>2. CASE t \notin Tasks
        BY <3>1, <4>2
      <4> QED
        BY <4>1, <4>2
    <3> QED
      BY <3>2, <3>3
  <2>2. /\ state' = [state EXCEPT ![t] = "leased"]
        /\ fence' = [fence EXCEPT ![t] = @ + 1]
        /\ leaseId' = [leaseId EXCEPT ![t] = mapperFence'[t]]
        /\ UNCHANGED <<now, nextAttempt>>
    BY <1>4, Zenon DEF Q!Claim, Q!JournalClaim
  <2>3. state' \in [Tasks -> Q!JobStates]
    BY <1>0, <2>2 DEF JournalType
  <2>4. fence' \in [Tasks -> Nat] /\ leaseId' \in [Tasks -> Nat]
    <3>1. fence \in [Tasks -> Nat] /\ leaseId \in [Tasks -> Nat]
      BY DEF JournalType
    <3>2. CASE t \in Tasks
      BY <2>1, <2>2, <3>1, <3>2
    <3>3. CASE t \notin Tasks
      BY <2>2, <3>1, <3>3
    <3> QED
      BY <3>2, <3>3
  <2> QED
    BY <2>1, <2>2, <2>3, <2>4 DEF JournalType
<1>5. ASSUME NEW l, Q!Complete(l) PROVE JournalType'
  BY <1>0, <1>5 DEF JournalType, Q!Complete, Q!MapperMove, Q!JournalComplete
<1>6. ASSUME NEW l, NEW backoff \in Backoffs, Q!Fail(l, backoff) PROVE JournalType'
  <2>1. CASE Q!MapperMove(l.task, "failed") /\ Q!JournalDeadLetter(l.task)
    BY <1>0, <1>6, <2>1 DEF JournalType, Q!Fail, Q!MapperMove, Q!JournalDeadLetter
  <2>2. CASE Q!MapperMove(l.task, "ready") /\ Q!JournalQueue(l.task, now + backoff)
    <3>1. /\ state' = [state EXCEPT ![l.task] = "queued"]
          /\ nextAttempt' = [nextAttempt EXCEPT ![l.task] = now + backoff]
          /\ leaseId' = [leaseId EXCEPT ![l.task] = 0]
          /\ mapper' = [mapper EXCEPT ![l.task] = "ready"]
          /\ UNCHANGED <<now, fence, mapperFence>>
      BY <1>6, <2>2, Zenon DEF Q!Fail, Q!MapperMove, Q!JournalQueue
    <3>2. now + backoff \in Nat
      BY <1>0 DEF JournalType
    <3>3. state' \in [Tasks -> Q!JobStates] /\ mapper' \in [Tasks -> Q!MapperStates]
      BY <1>0, <3>1 DEF JournalType
    <3>4. nextAttempt' \in [Tasks -> Nat] /\ leaseId' \in [Tasks -> Nat]
      BY <3>1, <3>2 DEF JournalType
    <3> QED
      BY <3>1, <3>3, <3>4 DEF JournalType
  <2> QED
    BY <1>6, <2>1, <2>2 DEF Q!Fail
<1>7. CASE Q!Tick
  BY <1>7 DEF JournalType, Q!Tick, Q!journalVars, Q!mapperVars
<1> QED
  BY <1>1, <1>2, <1>3, <1>4, <1>5, <1>6, <1>7, QueueMoves, Zenon

-----------------------------------------------------------------------------
(* Nothing leaks.                                                          *)

\* A call moves on, and what it had it still has, or has handed to a claim,
\* or has given back; what it takes it has.
LEMMA OwnedMove ==
    ASSUME ServiceInv, EverythingOwned, NEW w \in Workers, NEW step,
           pc' = [pc EXCEPT ![w] = step],
           \A v \in Workers \ {w} : task'[v] = task[v],
           Taken' \subseteq Tasks, raised \subseteq raised',
           \A t \in Tasks : claims[t] # NoClaim =>
               claims'[t] # NoClaim \/ (task'[w] = t /\ step \in LeaseSteps),
           \A t \in Tasks : resourceLeases'[t] # NotLeased =>
               \/ resourceLeases[t] # NotLeased /\ (pc[w] \in LeaseSteps => t # task[w])
               \/ step \in LeaseSteps /\ task'[w] = t
               \/ claims'[t] # NoClaim \/ t \in raised',
           \A t \in Taken' :
               \/ t \in Taken /\ (pc[w] \in SlotSteps => t # task[w])
               \/ step \in SlotSteps /\ task'[w] = t
               \/ claims'[t] # NoClaim \/ t \in raised'
    PROVE  EverythingOwned'
<1>0. LeaseSteps \subseteq SlotSteps
  BY DEF SlotSteps
<1>1. /\ pc'[w] = step
      /\ \A v \in Workers \ {w} : pc'[v] = pc[v] /\ task'[v] = task[v]
  BY DEF ServiceInv, CallType
<1>2. ASSUME NEW t \in Tasks \ raised', resourceLeases'[t] # NotLeased
      PROVE  claims'[t] # NoClaim \/ \E v \in Workers : task'[v] = t /\ pc'[v] \in LeaseSteps
  <2>1. CASE resourceLeases[t] # NotLeased /\ (pc[w] \in LeaseSteps => t # task[w])
    <3>1. CASE claims[t] # NoClaim
      BY <1>1, <3>1
    <3>2. CASE \E v \in Workers : task[v] = t /\ pc[v] \in LeaseSteps
      BY <1>1, <2>1, <3>2
    <3> QED
      BY <2>1, <3>1, <3>2 DEF EverythingOwned
  <2>2. CASE step \in LeaseSteps /\ task'[w] = t
    BY <1>1, <2>2
  <2> QED
    BY <1>2, <2>1, <2>2
<1>3. ASSUME NEW t \in Taken' \ raised'
      PROVE  claims'[t] # NoClaim \/ \E v \in Workers : task'[v] = t /\ pc'[v] \in SlotSteps
  <2>1. CASE t \in Taken /\ (pc[w] \in SlotSteps => t # task[w])
    <3>1. CASE claims[t] # NoClaim
      BY <1>0, <1>1, <1>3, <3>1
    <3>2. CASE \E v \in Workers : task[v] = t /\ pc[v] \in SlotSteps
      BY <1>1, <2>1, <3>2
    <3> QED
      BY <2>1, <3>1, <3>2 DEF EverythingOwned
  <2>2. CASE step \in SlotSteps /\ task'[w] = t
    BY <1>1, <2>2
  <2> QED
    BY <1>3, <2>1, <2>2
<1> QED
  BY <1>2, <1>3 DEF EverythingOwned

\* Until the daemon dies, what raised is remembered.
LEMMA RaisedGrows == ASSUME [Next]_vars, ~ Crash PROVE raised \subseteq raised'
<1>1. ASSUME NEW w \in Workers, Continue(w) PROVE raised \subseteq raised'
  <2>1. raised' = raised \/ QueueRaises(w)
    BY <1>1, Zenon DEF Continue, Enqueue, NoCandidate, NextCandidate, Admit, Refused,
        RequeueRefused, ClaimNothing, Claim, Unclaim, DropCandidate, CompleteDurably, FailDurably,
        ReleaseResources, Retire, EnqueueRetry, SameDaemon
  <2> QED
    BY <2>1 DEF QueueRaises
<1>2. ASSUME ~ \E w \in Workers : Continue(w) PROVE raised' = raised
  BY <1>2, Zenon DEF Next, Submit, ReportRejected, Report, StartClaim, Tick, Rehydrate, vars,
      hubVars, SameDaemon
<1> QED
  BY <1>1, <1>2

\* Every step keeps everything owned.
LEMMA OwnedStep ==
    ASSUME ServiceInv, JournalType, EverythingOwned, [Next]_vars
    PROVE  EverythingOwned'
<1>8. CASE Crash
  <2>1. Taken' = {} /\ \A t \in Tasks : resourceLeases'[t] = NotLeased
    BY <1>8 DEF Crash, Taken
  <2> QED
    BY <2>1 DEF EverythingOwned
<1> SUFFICES ASSUME ~ Crash PROVE EverythingOwned'
  BY <1>8
<1>0. /\ SchedulerInv /\ CallType /\ SlotsOwned /\ SchedulerInv' /\ Taken' \subseteq Tasks
      /\ LeaseSteps \subseteq SlotSteps /\ Taken \subseteq Tasks /\ raised \subseteq raised'
  BY ServiceStep, RaisedGrows DEF ServiceInv, SchedulerInv, S!TypeOK, Taken, SlotSteps
\* Calls without a slot before and after.
<1>1. ASSUME NEW w \in Workers, NEW step, pc' = [pc EXCEPT ![w] = step],
             \A v \in Workers \ {w} : task'[v] = task[v],
             pc[w] \notin SlotSteps, Taken' = Taken, claims' = claims, resourceLeases' = resourceLeases
      PROVE  EverythingOwned'
  BY <1>0, <1>1, OwnedMove
\* Calls that give their slot back, and had no resources any more.
<1>2. ASSUME NEW w \in Workers, NEW step, pc' = [pc EXCEPT ![w] = step],
             \A v \in Workers \ {w} : task'[v] = task[v],
             pc[w] \in SlotSteps \ LeaseSteps, Taken' = Taken \ {task[w]},
             claims' = claims, resourceLeases' = resourceLeases
      PROVE  EverythingOwned'
  BY <1>0, <1>2, OwnedMove
\* Calls that go on with the same task, the slot and the resources.
<1>3. ASSUME NEW w \in Workers, NEW step \in LeaseSteps, Goto(w, step),
             Taken' = Taken, claims' = claims, resourceLeases' = resourceLeases
      PROVE  EverythingOwned'
  <2>1. pc' = [pc EXCEPT ![w] = step] /\ task' = task
    BY <1>3 DEF Goto
  <2> QED
    BY <1>0, <1>3, <2>1, OwnedMove
<1>4. ASSUME NEW w \in Workers, Continue(w) PROVE EverythingOwned'
  <2>1. CASE Enqueue(w) \/ EnqueueRetry(w) \/ RequeueRefused(w)
    <3>1. /\ pc[w] \in {"enqueue", "retry", "requeue"} /\ task[w] \in Tasks
          /\ claims' = claims /\ resourceLeases' = resourceLeases
      BY <1>0, <2>1 DEF Enqueue, EnqueueRetry, RequeueRefused, At, CallType, SameDaemon,
          SameGovernor, governorVars
    <3>2. /\ IF S!MayEnqueue(task[w]) THEN S!Enqueue(task[w]) ELSE SameScheduler
          /\ Return(w) \/ Pursue(w, "next", NoTask)
      BY <2>1 DEF Enqueue, EnqueueRetry, RequeueRefused
    <3>3. Taken' = Taken
      BY <1>0, <3>1, <3>2, TryEnqueueKeeps
    <3>4. pc[w] \notin SlotSteps
      BY <3>1 DEF SlotSteps, LeaseSteps
    <3>5. /\ \E step : pc' = [pc EXCEPT ![w] = step]
          /\ \A v \in Workers \ {w} : task'[v] = task[v]
      BY <1>0, <3>2 DEF Return, Pursue, CallType
    <3> QED
      BY <1>1, <3>1, <3>3, <3>4, <3>5
  <2>2. CASE NoCandidate(w)
    <3>1. /\ pc[w] = "next" /\ pc' = [pc EXCEPT ![w] = "idle"]
          /\ \A v \in Workers \ {w} : task'[v] = task[v]
          /\ claims' = claims /\ resourceLeases' = resourceLeases
      BY <1>0, <2>2 DEF NoCandidate, At, Return, CallType, SameDaemon, SameGovernor, governorVars
    <3>2. Taken' = Taken /\ "next" \notin SlotSteps
      BY <1>0, <2>2, SchedulerSame DEF NoCandidate, SlotSteps, LeaseSteps
    <3> QED
      BY <1>1, <3>1, <3>2
  <2>3. ASSUME NEW c \in Clients, NextCandidate(w, c) PROVE EverythingOwned'
    <3>1. Taken' = Taken \cup {Head(queues[c])}
      BY <1>0, <2>3, DispatchKeeps DEF NextCandidate
    <3>2. /\ pc[w] = "next" /\ pc' = [pc EXCEPT ![w] = "admit"]
          /\ task' = [task EXCEPT ![w] = Head(queues[c])]
          /\ claims' = claims /\ resourceLeases' = resourceLeases
      BY <2>3 DEF NextCandidate, At, SameDaemon, SameGovernor, governorVars
    <3>3. "next" \notin SlotSteps /\ "admit" \in SlotSteps
      BY DEF SlotSteps, LeaseSteps
    <3>4. task'[w] = Head(queues[c]) /\ \A v \in Workers \ {w} : task'[v] = task[v]
      BY <1>0, <3>2 DEF CallType
    <3> HIDE DEF NextCandidate
    <3> QED
      BY <1>0, <3>1, <3>2, <3>3, <3>4, OwnedMove
  <2>4. CASE Admit(w)
    <3>1. /\ pc[w] = "admit" /\ task[w] \in Tasks /\ claims' = claims
          /\ pc[w] \in SlotSteps \ LeaseSteps /\ {"claim", "refused"} \subseteq SlotSteps
          /\ "claim" \in LeaseSteps
      BY <1>0, <2>4 DEF Admit, At, SameDaemon, SlotSteps, LeaseSteps, CallType
    <3>2. Taken' = Taken
      BY <1>0, <2>4, SchedulerSame DEF Admit
    <3>3. PICK step \in {"claim", "refused"} :
             /\ Goto(w, step)
             /\ \/ step = "claim" /\ resourceLeases' = [resourceLeases EXCEPT ![task[w]] =
                                         [client |-> ClientOf[task[w]], request |-> asked[w]]]
                \/ resourceLeases' = resourceLeases
      BY <2>4, Zenon DEF Admit, G!Admit, G!AdmitAgain, G!Throttle, G!governorVars, G!budgetVars
    <3>4. pc' = [pc EXCEPT ![w] = step] /\ task' = task /\ step \in SlotSteps
      BY <3>1, <3>3 DEF Goto
    <3>5. \A t \in Tasks : resourceLeases'[t] # NotLeased =>
              resourceLeases[t] # NotLeased \/ (step \in LeaseSteps /\ task'[w] = t)
      BY <1>0, <3>1, <3>3, <3>4 DEF CallType
    <3> QED
      BY <1>0, <3>1, <3>2, <3>4, <3>5, OwnedMove
  <2>5. CASE Refused(w) \/ DropCandidate(w) \/ Retire(w)
    <3>1. /\ pc[w] \in {"refused", "drop", "retire", "retire_retry"} /\ S!Complete(task[w])
          /\ claims' = claims /\ resourceLeases' = resourceLeases
          /\ Return(w) \/ Pursue(w, "next", NoTask) \/ Goto(w, "requeue") \/ Goto(w, "retry")
      BY <2>5 DEF Refused, DropCandidate, Retire, At, SameDaemon, SameGovernor, governorVars
    <3>2. pc[w] \in SlotSteps \ LeaseSteps
      BY <3>1 DEF SlotSteps, LeaseSteps
    <3>3. Taken' = Taken \ {task[w]}
      BY <1>0, <3>1, <3>2, CompleteKeeps DEF SlotsOwned
    <3>4. /\ \E step : pc' = [pc EXCEPT ![w] = step]
          /\ \A v \in Workers \ {w} : task'[v] = task[v]
      BY <1>0, <3>1 DEF Return, Pursue, Goto, CallType
    <3> QED
      BY <1>2, <3>1, <3>2, <3>3, <3>4
  <2>6. CASE Unclaim(w) \/ ReleaseResources(w)
    <3>1. PICK step \in {"drop", "retire", "retire_retry"} :
             /\ Goto(w, step) /\ claims' = claims
             /\ pc[w] \in {"unclaim", "release", "release_retry"} /\ G!Release(task[w])
      BY <2>6 DEF Unclaim, ReleaseResources, At, SameDaemon
    <3>2. Taken' = Taken
      BY <1>0, <2>6, SchedulerSame DEF Unclaim, ReleaseResources
    <3>3. pc[w] \in LeaseSteps /\ step \in SlotSteps /\ task[w] \in Tasks
      BY <1>0, <3>1 DEF SlotSteps, LeaseSteps, CallType
    <3>4. pc' = [pc EXCEPT ![w] = step] /\ task' = task
      BY <3>1 DEF Goto
    <3>5. resourceLeases' = [resourceLeases EXCEPT ![task[w]] = NotLeased]
      <4>1. resourceLeases[task[w]] # NotLeased
        BY <3>3 DEF ServiceInv, LeasesOwned
      <4> QED
        BY <3>1, <3>3, <4>1 DEF G!Release, G!Leased
    <3>6. \A t \in Tasks : resourceLeases'[t] # NotLeased => t # task[w] /\ resourceLeases[t] # NotLeased
      BY <1>0, <3>3, <3>5 DEF CallType
    <3> QED
      BY <1>0, <3>1, <3>2, <3>3, <3>4, <3>6, OwnedMove
  <2>7. ASSUME NEW ttl \in TTLs, Claim(w, ttl) PROVE EverythingOwned'
    <3> DEFINE t == task[w]
               l == [task |-> t, id |-> leaseId'[t], fence |-> fence'[t]]
    <3>1. /\ pc[w] = "claim" /\ Return(w) /\ resourceLeases' = resourceLeases
          /\ claims' = [claims EXCEPT ![t] = l]
      BY <2>7 DEF Claim, At, SameGovernor, governorVars
    <3>2. Taken' = Taken
      BY <1>0, <2>7, SchedulerSame DEF Claim
    <3>3. t \in Tasks /\ "claim" \in SlotSteps
      BY <1>0, <3>1 DEF CallType, SlotSteps, LeaseSteps
    <3>4. l # NoClaim
      <4>1. leaseId'[t] \in Nat /\ fence'[t] \in Nat
        BY <3>3, JournalTypeStep DEF JournalType
      <4> QED
        BY <3>3, <4>1, ServiceAssumption
    <3> HIDE DEF l
    <3>5. \A u \in Tasks : claims'[u] = IF u = t THEN l ELSE claims[u]
      BY <1>0, <3>1 DEF CallType
    <3>6. /\ pc' = [pc EXCEPT ![w] = "idle"]
          /\ \A v \in Workers \ {w} : task'[v] = task[v]
      BY <1>0, <3>1 DEF Return, CallType
    <3>7. \A u \in Tasks : (u = t => claims'[u] # NoClaim) /\ (claims[u] # NoClaim => claims'[u] # NoClaim)
      BY <3>4, <3>5
    <3> QED
      BY <1>0, <3>1, <3>2, <3>3, <3>6, <3>7, OwnedMove
  <2>8. CASE ClaimNothing(w)
    <3>1. Goto(w, "unclaim") /\ claims' = claims /\ resourceLeases' = resourceLeases
      BY <2>8 DEF ClaimNothing, SameDaemon, SameGovernor, governorVars
    <3>2. Taken' = Taken /\ "unclaim" \in LeaseSteps
      BY <1>0, <2>8, SchedulerSame DEF ClaimNothing, LeaseSteps
    <3> QED
      BY <1>3, <3>1, <3>2
  <2>9. CASE CompleteDurably(w) \/ \E backoff \in Backoffs : FailDurably(w, backoff)
    <3>1. /\ pc[w] \in {"complete", "fail"} /\ claims' = claims /\ resourceLeases' = resourceLeases
      BY <2>9 DEF CompleteDurably, FailDurably, At, SameDaemon, SameGovernor, governorVars
    <3>2. \E step \in {"release", "release_retry"} : Goto(w, step)
      BY <2>9 DEF CompleteDurably, FailDurably
    <3>3. Taken' = Taken /\ {"release", "release_retry"} \subseteq LeaseSteps
      BY <1>0, <2>9, SchedulerSame DEF CompleteDurably, FailDurably, LeaseSteps
    <3> QED
      BY <1>3, <3>1, <3>2, <3>3
  <2>10. CASE QueueRaises(w)
    <3>1. /\ Return(w) /\ claims' = claims /\ resourceLeases' = resourceLeases
          /\ raised' = raised \cup {task[w]}
      BY <2>10 DEF QueueRaises, SameGovernor, governorVars
    <3>2. /\ pc' = [pc EXCEPT ![w] = "idle"]
          /\ \A v \in Workers \ {w} : task'[v] = task[v]
      BY <1>0, <3>1 DEF Return, CallType
    <3>3. Taken' = Taken
      BY <1>0, <2>10, SchedulerSame DEF QueueRaises
    <3> QED
      BY <1>0, <3>1, <3>2, <3>3, OwnedMove
  <2> QED
    BY <1>4, <2>1, <2>2, <2>3, <2>4, <2>5, <2>6, <2>7, <2>8, <2>9, <2>10, Zenon DEF Continue
<1>5. ASSUME NEW w \in Workers, NEW t \in Tasks, Submit(w, t) PROVE EverythingOwned'
  <2>1. /\ pc[w] = "idle" /\ pc' = [pc EXCEPT ![w] = "enqueue"]
        /\ \A v \in Workers \ {w} : task'[v] = task[v]
        /\ claims' = claims /\ resourceLeases' = resourceLeases
    BY <1>0, <1>5 DEF Submit, At, Pursue, CallType, SameDaemon, SameGovernor, governorVars
  <2>2. Taken' = Taken /\ "idle" \notin SlotSteps
    BY <1>0, <1>5, SchedulerSame DEF Submit, SlotSteps, LeaseSteps
  <2> QED
    BY <1>1, <2>1, <2>2
<1>6. ASSUME NEW w \in Workers, NEW request \in Requests, StartClaim(w, request)
      PROVE  EverythingOwned'
  <2>1. /\ pc[w] = "idle" /\ pc' = [pc EXCEPT ![w] = "next"] /\ task' = task
        /\ claims' = claims /\ resourceLeases' = resourceLeases
    BY <1>6 DEF StartClaim, At, SameDaemon, SameGovernor, governorVars
  <2>2. Taken' = Taken /\ "idle" \notin SlotSteps
    BY <1>0, <1>6, SchedulerSame DEF StartClaim, SlotSteps, LeaseSteps
  <2> QED
    BY <1>1, <2>1, <2>2
<1>7. ASSUME NEW w \in Workers, NEW t \in Tasks, NEW step \in {"complete", "fail"}, Report(w, t, step)
      PROVE  EverythingOwned'
  <2>1. /\ pc[w] = "idle" /\ pc' = [pc EXCEPT ![w] = step] /\ task' = [task EXCEPT ![w] = t]
        /\ claims' = [claims EXCEPT ![t] = NoClaim] /\ resourceLeases' = resourceLeases
    BY <1>7 DEF Report, At, SameGovernor, governorVars
  <2>2. Taken' = Taken /\ "idle" \notin SlotSteps /\ step \in LeaseSteps
    BY <1>0, <1>7, SchedulerSame DEF Report, SlotSteps, LeaseSteps
  <2>3. task'[w] = t /\ \A v \in Workers \ {w} : task'[v] = task[v]
    BY <1>0, <2>1 DEF CallType
  <2>4. \A u \in Tasks : u # t => claims'[u] = claims[u]
    BY <1>0, <2>1 DEF CallType
  <2> QED
    BY <1>0, <2>1, <2>2, <2>3, <2>4, OwnedMove
<1>9. ASSUME UNCHANGED <<pc, task, claims, resourceLeases>>, Taken' = Taken PROVE EverythingOwned'
  BY <1>0, <1>9 DEF EverythingOwned
<1>10. ASSUME NEW t \in Tasks, Rehydrate(t) PROVE EverythingOwned'
  <2>1. Taken' = Taken
    BY <1>0, <1>10, TryEnqueueKeeps DEF Rehydrate
  <2> QED
    BY <1>9, <1>10, <2>1 DEF Rehydrate, callVars, SameGovernor, governorVars
<1>11. CASE Tick \/ UNCHANGED vars \/ \E w \in Workers, t \in Tasks : ReportRejected(w, t)
  <2>1. Taken' = Taken
    BY <1>0, <1>11, SchedulerSame DEF Tick, vars, SameScheduler, ReportRejected
  <2>2. UNCHANGED <<pc, task, claims, resourceLeases>>
    BY <1>11 DEF Tick, vars, hubVars, callVars, ReportRejected, SameGovernor, governorVars
  <2> QED
    BY <1>9, <2>1, <2>2
<1> QED
  BY <1>4, <1>5, <1>6, <1>7, <1>10, <1>11, Zenon DEF Next

(***************************************************************************)
(* Nothing leaks across the three parts but the slot and the resources of  *)
(* a task on which a queue operation raised: whatever the interleaving of  *)
(* the calls, with leases that expire and a daemon that crashes, a raise   *)
(* out of claim_specific, get_payload, complete or fail is the one way in  *)
(* which the hub loses them.                                               *)
(***************************************************************************)
THEOREM NoLeakUnlessRaised == Spec => []NothingLeaks
<1>1. Init => JournalType /\ EverythingOwned
  <2> SUFFICES ASSUME Init PROVE JournalType /\ EverythingOwned
    OBVIOUS
  <2>1. JournalType
    BY DEF Init, Q!Init, Q!Zero, JournalType, Q!JobStates, Q!MapperStates
  <2>2. Taken = {} /\ \A t \in Tasks : resourceLeases[t] = NotLeased
    BY SchedulerStarts DEF Init, G!GovernorInit
  <2> QED
    BY <2>1, <2>2 DEF EverythingOwned
<1>2. ServiceInv /\ JournalType /\ EverythingOwned /\ [Next]_vars
      => JournalType' /\ EverythingOwned'
  BY OwnedStep, JournalTypeStep
<1>3. ServiceInv /\ EverythingOwned => NothingLeaks
  <2> SUFFICES ASSUME ServiceInv, EverythingOwned, NEW t \in Tasks \ raised
               PROVE  /\ t \in G!Leased =>
                             claims[t] # NoClaim \/
                             Busy(t, {"claim", "unclaim", "complete", "fail", "release", "release_retry"})
                      /\ t \in Dispatched(ClientOf[t]) =>
                             claims[t] # NoClaim \/
                             Busy(t, (ClaimSteps \cup ReportSteps) \ {"next", "requeue", "retry"})
    BY DEF NothingLeaks
  <2>1. (ClaimSteps \cup ReportSteps) \ {"next", "requeue", "retry"} = SlotSteps
    BY DEF ClaimSteps, ReportSteps, SlotSteps, LeaseSteps
  <2>2. t \in G!Leased => claims[t] # NoClaim \/ Busy(t, LeaseSteps)
    BY DEF EverythingOwned, G!Leased, Busy
  <2>3. t \in Dispatched(ClientOf[t]) => claims[t] # NoClaim \/ Busy(t, SlotSteps)
    BY TakenIsDispatched DEF ServiceInv, EverythingOwned, Busy
  <2> QED
    BY <2>1, <2>2, <2>3 DEF LeaseSteps
<1> QED
  BY <1>1, <1>2, <1>3, ServiceSafe, PTL DEF Spec

-----------------------------------------------------------------------------
(* No queued job is lost.                                                  *)

\* The quotas have room for every job, and a retry waits for nothing.
Unhindered ==
    /\ Cardinality(Tasks) <= GlobalQuota
    /\ Cardinality(Tasks) <= ClientQuota
    /\ Cardinality(Tasks) <= WorkspaceQuota
    /\ Backoffs \subseteq {0}

\* With such room only a duplicate is refused.
LEMMA RoomForAll ==
    ASSUME Unhindered, SchedulerInv, NEW t \in Tasks, t \notin jobs
    PROVE  S!MayEnqueue(t)
<1>1. /\ ClientOf[t] \in Clients /\ WorkspaceOf[t] \in Workspaces
      /\ jobs \subseteq Tasks /\ IsFiniteSet(Tasks)
  BY ServiceAssumption DEF SchedulerInv, S!TypeOK
<1>2. ASSUME NEW A \in SUBSET jobs PROVE Cardinality(A) \in Nat /\ Cardinality(A) < Cardinality(Tasks)
  <2>1. A \subseteq Tasks /\ t \notin A /\ A \cup {t} \in SUBSET Tasks
    BY <1>1, <1>2
  <2>2. Cardinality(A) \in Nat /\ Cardinality(A \cup {t}) = Cardinality(A) + 1
    BY <2>1, CountAdd
  <2>3. Cardinality(A \cup {t}) <= Cardinality(Tasks) /\ Cardinality(Tasks) \in Nat
    BY <1>1, <2>1, FS_Subset, FS_CardinalityType
  <2> QED
    BY <2>2, <2>3
<1>3. S!OfClient(ClientOf[t]) \in SUBSET jobs /\ S!OfWorkspace(WorkspaceOf[t]) \in SUBSET jobs
  BY DEF S!OfClient, S!OfWorkspace
<1>4. /\ globalTotal = Cardinality(jobs)
      /\ clientTotal[ClientOf[t]] = Cardinality(S!OfClient(ClientOf[t]))
      /\ workspaceTotal[WorkspaceOf[t]] = Cardinality(S!OfWorkspace(WorkspaceOf[t]))
  BY <1>1, SameCount DEF SchedulerInv, S!TotalsCountJobs
<1>5. /\ GlobalQuota \in Nat /\ ClientQuota \in Nat /\ WorkspaceQuota \in Nat
      /\ Cardinality(Tasks) \in Nat
  BY <1>1, ServiceAssumption, FS_CardinalityType
<1> QED
  BY <1>2, <1>3, <1>4, <1>5 DEF Unhindered, S!MayEnqueue, S!WithinQuotas

\* ... so the service's enqueue always leaves the task scheduled.
LEMMA TryEnqueueSchedules ==
    ASSUME Unhindered, SchedulerInv, NEW t \in Tasks,
           IF S!MayEnqueue(t) THEN S!Enqueue(t) ELSE SameScheduler
    PROVE  jobs' = jobs \cup {t}
BY RoomForAll DEF S!Enqueue, SameScheduler, schedulerVars

\* A queued job stays claimable.
LEMMA ClaimableStep ==
    ASSUME Unhindered, JournalType, QueuedIsClaimable, [Next]_vars
    PROVE  QueuedIsClaimable'
<1>1. CASE SameQueue
  BY <1>1 DEF QueuedIsClaimable, SameQueue, queueVars
<1>2. ASSUME NEW t, Q!Submit(t) PROVE QueuedIsClaimable'
  BY <1>2 DEF JournalType, QueuedIsClaimable, Q!Submit, Q!MapperEnqueue, Q!Recorded
<1>3. ASSUME NEW t, Q!ClaimConflict(t) PROVE QueuedIsClaimable'
  BY <1>3 DEF JournalType, QueuedIsClaimable, Q!ClaimConflict, Q!Reclaimed, Q!journalVars
<1>4. ASSUME NEW t, NEW ttl \in TTLs, Q!Claim(t, ttl) PROVE QueuedIsClaimable'
  <2>1. /\ mapper' = [Q!Reclaimed EXCEPT ![t] = "leased"]
        /\ state' = [state EXCEPT ![t] = "leased"]
        /\ UNCHANGED <<now, nextAttempt>>
    BY <1>4 DEF Q!Claim, Q!MapperClaim, Q!JournalClaim
  <2>2. \A u \in Tasks : /\ mapper[u] = "ready" => Q!Reclaimed[u] = "ready"
                         /\ mapper[u] = "absent" => Q!Reclaimed[u] = "absent"
    BY DEF Q!Reclaimed
  <2>3. DOMAIN Q!Reclaimed = Tasks /\ DOMAIN state = Tasks
    BY DEF Q!Reclaimed, JournalType
  <2> QED
    BY <2>1, <2>2, <2>3 DEF QueuedIsClaimable
<1>5. ASSUME NEW l, Q!Complete(l) PROVE QueuedIsClaimable'
  BY <1>5 DEF JournalType, QueuedIsClaimable, Q!Complete, Q!MapperMove, Q!JournalComplete
<1>6. ASSUME NEW l, NEW backoff \in Backoffs, Q!Fail(l, backoff) PROVE QueuedIsClaimable'
  <2>1. CASE Q!MapperMove(l.task, "failed") /\ Q!JournalDeadLetter(l.task)
    BY <1>6, <2>1 DEF JournalType, QueuedIsClaimable, Q!Fail, Q!MapperMove, Q!JournalDeadLetter
  <2>2. CASE Q!MapperMove(l.task, "ready") /\ Q!JournalQueue(l.task, now + backoff)
    <3>1. now + backoff = now
      BY DEF Unhindered, JournalType
    <3> QED
      BY <1>6, <2>2, <3>1 DEF JournalType, QueuedIsClaimable, Q!Fail, Q!MapperMove, Q!JournalQueue
  <2> QED
    BY <1>6, <2>1, <2>2 DEF Q!Fail
<1>7. CASE Q!Tick
  BY <1>7 DEF JournalType, QueuedIsClaimable, Q!Tick, Q!journalVars, Q!mapperVars
<1> QED
  BY <1>1, <1>2, <1>3, <1>4, <1>5, <1>6, <1>7, QueueMoves, Zenon

EnqueueSteps == {"enqueue", "requeue", "retry"}
DropSteps == {"unclaim", "drop", "release", "retire"}

\* A call moves on: what becomes of the queued jobs it deals with.
LEMMA JournalMove ==
    ASSUME CallType, JournalInv, NEW w \in Workers, NEW step,
           pc' = [pc EXCEPT ![w] = step],
           \A v \in Workers \ {w} : task'[v] = task[v] /\ lease'[v] = lease[v],
           DOMAIN lease' = Workers,
           booting' = booting,
           jobs' \subseteq Tasks,
           step \in {"complete", "fail"} => lease'[w].task = task'[w],
           \A t \in Tasks : claims'[t] # NoClaim => claims'[t].task = t,
           \A t \in Tasks : state[t] # "absent" => state'[t] # "absent",
           \A t \in jobs' : state'[t] # "absent",
           step \in EnqueueSteps => state'[task'[w]] # "absent",
           step \in DropSteps => state'[task'[w]] # "queued",
           \A t \in Tasks : state'[t] = "queued" /\ state[t] # "queued" =>
               /\ \A v \in Workers \ {w} : pc[v] \in DropSteps => task[v] # t
               /\ t \in jobs' \/ (task'[w] = t /\ step \in EnqueueSteps),
           \A t \in jobs : state'[t] = "queued" =>
               t \in jobs' \/ (task'[w] = t /\ step \in EnqueueSteps),
           pc[w] \in EnqueueSteps =>
               task[w] \in jobs' \/ (task'[w] = task[w] /\ step \in EnqueueSteps)
    PROVE  LeasesNameTasks' /\ PendingIsKnown' /\ DroppedNotQueued' /\ QueuedIsScheduled'
<1>1. /\ pc'[w] = step
      /\ \A v \in Workers \ {w} : pc'[v] = pc[v] /\ task'[v] = task[v] /\ lease'[v] = lease[v]
  BY DEF CallType
<1>2. /\ \A v \in Workers : pc[v] \in EnqueueSteps => task[v] \in Tasks
      /\ \A v \in Workers : pc[v] \in DropSteps => task[v] \in Tasks
      /\ booting \in SUBSET Tasks
  BY DEF CallType, EnqueueSteps, DropSteps, SlotSteps, LeaseSteps, JournalInv, PendingIsKnown
<1>3. LeasesNameTasks'
  BY <1>1 DEF JournalInv, LeasesNameTasks
<1>4. PendingIsKnown'
  BY <1>1, <1>2 DEF JournalInv, PendingIsKnown, EnqueueSteps
<1>5. DroppedNotQueued'
  BY <1>1, <1>2 DEF JournalInv, DroppedNotQueued, DropSteps
<1>6. QueuedIsScheduled'
  <2> SUFFICES ASSUME NEW t \in Tasks, state'[t] = "queued"
               PROVE  t \in jobs' \cup booting' \/ \E v \in Workers : task'[v] = t /\ pc'[v] \in EnqueueSteps
    BY DEF QueuedIsScheduled, Busy, EnqueueSteps
  <2>1. CASE state[t] # "queued"
    BY <1>1, <2>1
  <2>2. CASE state[t] = "queued"
    <3>1. t \in jobs \cup booting \/ \E v \in Workers : task[v] = t /\ pc[v] \in EnqueueSteps
      BY <2>2 DEF JournalInv, QueuedIsScheduled, Busy, EnqueueSteps
    <3> QED
      BY <1>1, <3>1
  <2> QED
    BY <2>1, <2>2
<1> QED
  BY <1>3, <1>4, <1>5, <1>6

\* Every step of the hub keeps the queued jobs scheduled.
LEMMA JournalStep ==
    ASSUME Unhindered, ServiceInv, JournalInv, [Next]_vars
    PROVE  JournalInv'
<1>0. /\ SchedulerInv /\ CallType /\ SlotsOwned /\ JournalType /\ SchedulerInv'
      /\ jobs \subseteq Tasks /\ jobs' \subseteq Tasks /\ Taken \subseteq jobs
      /\ DOMAIN lease = Workers
  BY ServiceStep DEF ServiceInv, SchedulerInv, S!TypeOK, Taken, JournalInv, LeasesNameTasks
<1>a. JournalType' /\ QueuedIsClaimable'
  BY JournalTypeStep, ClaimableStep DEF JournalInv
<1> SUFFICES LeasesNameTasks' /\ PendingIsKnown' /\ DroppedNotQueued' /\ QueuedIsScheduled'
  BY <1>a DEF JournalInv
<1>b. /\ \A v \in Workers : pc[v] \in EnqueueSteps \cup SlotSteps => task[v] \in Tasks
      /\ \A v \in Workers : pc[v] \in EnqueueSteps \cup SlotSteps => state[task[v]] # "absent"
      /\ \A v \in Workers : pc[v] \in DropSteps => state[task[v]] # "queued"
      /\ \A t \in jobs : state[t] # "absent"
      /\ \A t \in Tasks : claims[t] # NoClaim => claims[t].task = t
  BY <1>0 DEF CallType, SlotsOwned, EnqueueSteps, DropSteps, JournalInv, PendingIsKnown,
      DroppedNotQueued, LeasesNameTasks
\* The forms of a move.
<1>c. ASSUME NEW w \in Workers, NEW step, Goto(w, step)
      PROVE  /\ pc' = [pc EXCEPT ![w] = step] /\ task' = task /\ lease' = lease
  BY <1>c DEF Goto
<1>d. ASSUME NEW w \in Workers, NEW step, NEW t, Pursue(w, step, t)
      PROVE  /\ pc' = [pc EXCEPT ![w] = step] /\ lease' = lease
             /\ task'[w] = t /\ \A v \in Workers \ {w} : task'[v] = task[v]
  BY <1>0, <1>d DEF Pursue, CallType
<1>e. ASSUME NEW w \in Workers, Return(w)
      PROVE  /\ pc' = [pc EXCEPT ![w] = "idle"] /\ DOMAIN lease' = Workers
             /\ \A v \in Workers \ {w} : task'[v] = task[v] /\ lease'[v] = lease[v]
  BY <1>0, <1>e DEF Return, CallType
\* A call that enqueues its task.
<1>1. ASSUME NEW w \in Workers, Enqueue(w) \/ EnqueueRetry(w) \/ RequeueRefused(w)
      PROVE  LeasesNameTasks' /\ PendingIsKnown' /\ DroppedNotQueued' /\ QueuedIsScheduled'
  <2>1. /\ pc[w] \in EnqueueSteps /\ claims' = claims /\ booting' = booting /\ state' = state
        /\ IF S!MayEnqueue(task[w]) THEN S!Enqueue(task[w]) ELSE SameScheduler
        /\ Return(w) \/ Pursue(w, "next", NoTask)
    BY <1>1 DEF Enqueue, EnqueueRetry, RequeueRefused, At, EnqueueSteps, SameDaemon, SameQueue, queueVars
  <2>2. jobs' = jobs \cup {task[w]}
    BY <1>0, <1>b, <2>1, TryEnqueueSchedules
  <2>3. PICK step \in {"idle", "next"} :
            /\ pc' = [pc EXCEPT ![w] = step] /\ DOMAIN lease' = Workers
            /\ \A v \in Workers \ {w} : task'[v] = task[v] /\ lease'[v] = lease[v]
    BY <1>0, <1>d, <1>e, <2>1
  <2>4. step \notin EnqueueSteps /\ step \notin DropSteps /\ step \notin {"complete", "fail"}
    BY DEF EnqueueSteps, DropSteps
  <2>5. \A t \in jobs' : state'[t] # "absent"
    BY <1>b, <2>1, <2>2
  <2> QED
    BY <1>0, <1>b, <2>1, <2>2, <2>3, <2>4, <2>5, JournalMove
\* A call that ends or goes on while the jobs and the queue stay.
<1>2. ASSUME NEW w \in Workers, NEW step, pc' = [pc EXCEPT ![w] = step], step \notin EnqueueSteps,
             pc[w] \notin EnqueueSteps,
             \A v \in Workers \ {w} : task'[v] = task[v] /\ lease'[v] = lease[v],
             DOMAIN lease' = Workers, booting' = booting, jobs' = jobs, state' = state,
             step \in {"complete", "fail"} => lease'[w].task = task'[w],
             step \in DropSteps => state[task'[w]] # "queued",
             \A t \in Tasks : claims'[t] # NoClaim => claims'[t].task = t
      PROVE  LeasesNameTasks' /\ PendingIsKnown' /\ DroppedNotQueued' /\ QueuedIsScheduled'
  BY <1>0, <1>b, <1>2, JournalMove
<1>3. ASSUME NEW w \in Workers, NoCandidate(w) \/ Admit(w) \/ \E c \in Clients : NextCandidate(w, c)
      PROVE  LeasesNameTasks' /\ PendingIsKnown' /\ DroppedNotQueued' /\ QueuedIsScheduled'
  <2>1. /\ pc[w] \in {"next", "admit"} /\ claims' = claims /\ booting' = booting
        /\ jobs' = jobs /\ state' = state
    BY <1>3 DEF NoCandidate, Admit, NextCandidate, S!Dispatch, At, SameDaemon, SameQueue, queueVars,
        SameScheduler, schedulerVars
  <2>2. \/ Return(w) \/ Goto(w, "claim") \/ Goto(w, "refused")
        \/ pc' = [pc EXCEPT ![w] = "admit"] /\ lease' = lease
           /\ \E t : task' = [task EXCEPT ![w] = t]
    BY <1>3 DEF NoCandidate, Admit, NextCandidate
  <2>3. PICK step \in {"idle", "claim", "refused", "admit"} :
            /\ pc' = [pc EXCEPT ![w] = step] /\ DOMAIN lease' = Workers
            /\ \A v \in Workers \ {w} : task'[v] = task[v] /\ lease'[v] = lease[v]
    <3>1. CASE Return(w)
      BY <1>e, <3>1
    <3>2. CASE Goto(w, "claim") \/ Goto(w, "refused")
      BY <1>0, <1>c, <3>2
    <3>3. CASE /\ pc' = [pc EXCEPT ![w] = "admit"] /\ lease' = lease
               /\ \E t : task' = [task EXCEPT ![w] = t]
      BY <1>0, <3>3 DEF CallType
    <3> QED
      BY <2>2, <3>1, <3>2, <3>3
  <2>4. /\ step \notin EnqueueSteps /\ step \notin DropSteps /\ step \notin {"complete", "fail"}
        /\ pc[w] \notin EnqueueSteps
    BY <2>1 DEF EnqueueSteps, DropSteps
  <2> QED
    BY <1>2, <1>b, <2>1, <2>3, <2>4
\* scheduler.complete: for good, or before the task is enqueued again.
<1>4. ASSUME NEW w \in Workers, Refused(w) \/ DropCandidate(w) \/ Retire(w)
      PROVE  LeasesNameTasks' /\ PendingIsKnown' /\ DroppedNotQueued' /\ QueuedIsScheduled'
  <2>1. /\ pc[w] \in {"refused", "drop", "retire", "retire_retry"} /\ S!Complete(task[w])
        /\ claims' = claims /\ booting' = booting /\ state' = state
        /\ \/ pc[w] \in DropSteps /\ (Return(w) \/ Pursue(w, "next", NoTask))
           \/ Goto(w, "requeue") \/ Goto(w, "retry")
    BY <1>4 DEF Refused, DropCandidate, Retire, At, SameDaemon, SameQueue, queueVars, DropSteps
  <2>2. jobs' = jobs \ {task[w]} /\ pc[w] \in SlotSteps /\ pc[w] \notin EnqueueSteps
    BY <2>1 DEF S!Complete, SlotSteps, EnqueueSteps
  <2>3. CASE pc[w] \in DropSteps /\ (Return(w) \/ Pursue(w, "next", NoTask))
    <3>1. PICK step \in {"idle", "next"} :
            /\ pc' = [pc EXCEPT ![w] = step] /\ DOMAIN lease' = Workers
            /\ \A v \in Workers \ {w} : task'[v] = task[v] /\ lease'[v] = lease[v]
      BY <1>0, <1>d, <1>e, <2>3
    <3>2. step \notin EnqueueSteps /\ step \notin DropSteps /\ step \notin {"complete", "fail"}
      BY DEF EnqueueSteps, DropSteps
    <3>3. state[task[w]] # "queued"
      BY <1>b, <2>3
    <3> QED
      BY <1>0, <1>b, <2>1, <2>2, <3>1, <3>2, <3>3, JournalMove
  <2>4. CASE Goto(w, "requeue") \/ Goto(w, "retry")
    <3>1. PICK step \in {"requeue", "retry"} :
              pc' = [pc EXCEPT ![w] = step] /\ task' = task /\ lease' = lease
      BY <1>c, <2>4
    <3>2. step \in EnqueueSteps /\ step \notin DropSteps /\ step \notin {"complete", "fail"}
      BY DEF EnqueueSteps, DropSteps
    <3> QED
      BY <1>0, <1>b, <2>1, <2>2, <3>1, <3>2, JournalMove
  <2> QED
    BY <2>1, <2>3, <2>4
\* governor.release
<1>5. ASSUME NEW w \in Workers, Unclaim(w) \/ ReleaseResources(w)
      PROVE  LeasesNameTasks' /\ PendingIsKnown' /\ DroppedNotQueued' /\ QueuedIsScheduled'
  <2>1. /\ claims' = claims /\ booting' = booting /\ jobs' = jobs /\ state' = state
        /\ \/ pc[w] \in DropSteps /\ (Goto(w, "drop") \/ Goto(w, "retire"))
           \/ Goto(w, "retire_retry")
        /\ pc[w] \notin EnqueueSteps
    BY <1>5 DEF Unclaim, ReleaseResources, At, SameDaemon, SameQueue, queueVars,
        SameScheduler, schedulerVars, DropSteps, EnqueueSteps
  <2>2. PICK step \in {"drop", "retire", "retire_retry"} :
            /\ pc' = [pc EXCEPT ![w] = step] /\ task' = task /\ lease' = lease
            /\ pc[w] \in DropSteps \/ step = "retire_retry"
    BY <1>c, <2>1
  <2>3. /\ step \notin EnqueueSteps /\ step \notin {"complete", "fail"}
        /\ step \in DropSteps => state[task'[w]] # "queued"
    BY <1>b, <2>2 DEF EnqueueSteps, DropSteps
  <2> QED
    BY <1>0, <1>2, <1>b, <2>1, <2>2, <2>3
\* claim_specific: a lease, ...
<1>6. ASSUME NEW w \in Workers, NEW ttl \in TTLs, Claim(w, ttl)
      PROVE  LeasesNameTasks' /\ PendingIsKnown' /\ DroppedNotQueued' /\ QueuedIsScheduled'
  <2>1. /\ pc[w] = "claim" /\ Return(w) /\ booting' = booting /\ jobs' = jobs
        /\ claims' = [claims EXCEPT ![task[w]] =
                          [task |-> task[w], id |-> leaseId'[task[w]], fence |-> fence'[task[w]]]]
    BY <1>6 DEF Claim, At, SameScheduler, schedulerVars
  <2>2. state' = [state EXCEPT ![task[w]] = "leased"]
    BY <1>6 DEF Claim, Q!Claim, Q!JournalClaim
  <2>3. /\ "claim" \in SlotSteps /\ "claim" \notin EnqueueSteps
        /\ "idle" \notin EnqueueSteps /\ "idle" \notin DropSteps
    BY DEF SlotSteps, LeaseSteps, EnqueueSteps, DropSteps
  <2>4. task[w] \in Tasks
    BY <1>b, <2>1, <2>3
  <2>5. \A t \in Tasks : state'[t] = IF t = task[w] THEN "leased" ELSE state[t]
    BY <1>0, <2>2 DEF JournalType
  <2>6. \A t \in Tasks : claims'[t] # NoClaim => claims'[t].task = t
    <3> DEFINE l == [task |-> task[w], id |-> leaseId'[task[w]], fence |-> fence'[task[w]]]
    <3>1. l.task = task[w]
      OBVIOUS
    <3> HIDE DEF l
    <3>2. \A t \in Tasks : claims'[t] = IF t = task[w] THEN l ELSE claims[t]
      BY <1>0, <2>1 DEF CallType, l
    <3> QED
      BY <1>b, <3>1, <3>2
  <2>7. /\ pc' = [pc EXCEPT ![w] = "idle"] /\ DOMAIN lease' = Workers
        /\ \A v \in Workers \ {w} : task'[v] = task[v] /\ lease'[v] = lease[v]
    BY <1>e, <2>1
  <2>8. /\ \A t \in Tasks : state[t] # "absent" => state'[t] # "absent"
        /\ \A t \in Tasks : state'[t] = "queued" => state[t] = "queued"
        /\ \A t \in jobs' : state'[t] # "absent"
        /\ pc[w] \notin EnqueueSteps /\ booting' = booting /\ jobs' = jobs
    BY <1>0, <1>b, <2>1, <2>3, <2>5
  <2> QED
    BY <1>0, <2>3, <2>6, <2>7, <2>8, JournalMove
\* ... or None, which a queued job never gets.
<1>7. ASSUME NEW w \in Workers, ClaimNothing(w)
      PROVE  LeasesNameTasks' /\ PendingIsKnown' /\ DroppedNotQueued' /\ QueuedIsScheduled'
  <2>1. /\ pc[w] = "claim" /\ Goto(w, "unclaim") /\ claims' = claims
        /\ booting' = booting /\ jobs' = jobs
    BY <1>7 DEF ClaimNothing, At, SameDaemon, SameScheduler, schedulerVars
  <2>2. state' = state
    BY <1>7 DEF ClaimNothing, Q!ClaimConflict, Q!journalVars, SameQueue, queueVars
  <2>3. /\ "claim" \in SlotSteps /\ "claim" \notin EnqueueSteps /\ "unclaim" \notin EnqueueSteps
    BY DEF SlotSteps, LeaseSteps, EnqueueSteps
  <2>4. task[w] \in Tasks
    BY <1>b, <2>1, <2>3
  <2>5. state[task[w]] # "queued"
    <3> SUFFICES ASSUME state[task[w]] = "queued" PROVE FALSE
      OBVIOUS
    <3>1. nextAttempt[task[w]] <= now /\ mapper[task[w]] = "ready"
      BY <2>4 DEF JournalInv, QueuedIsClaimable
    <3>2. Q!Claimable(task[w]) /\ Q!Reclaimed[task[w]] = "ready"
      BY <2>4, <3>1 DEF Q!Claimable, Q!Reclaimed
    <3> QED
      BY <1>7, <3>2 DEF ClaimNothing, Q!ClaimConflict
  <2>6. pc' = [pc EXCEPT ![w] = "unclaim"] /\ task' = task /\ lease' = lease
    BY <1>c, <2>1
  <2> QED
    BY <1>0, <1>2, <1>b, <2>1, <2>2, <2>3, <2>5, <2>6
\* queue.complete
<1>8. ASSUME NEW w \in Workers, CompleteDurably(w)
      PROVE  LeasesNameTasks' /\ PendingIsKnown' /\ DroppedNotQueued' /\ QueuedIsScheduled'
  <2>1. /\ pc[w] = "complete" /\ claims' = claims /\ booting' = booting /\ jobs' = jobs
        /\ "complete" \notin EnqueueSteps /\ "complete" \in SlotSteps
    BY <1>8 DEF CompleteDurably, At, SameDaemon, SameScheduler, schedulerVars, EnqueueSteps,
        SlotSteps, LeaseSteps
  <2>2. task[w] \in Tasks /\ lease[w].task = task[w]
    BY <1>b, <2>1 DEF JournalInv, LeasesNameTasks
  <2>4. CASE Q!Complete(lease[w]) /\ Goto(w, "release")
    <3>1. state' = [state EXCEPT ![task[w]] = "completed"]
      BY <2>2, <2>4 DEF Q!Complete, Q!JournalComplete
    <3>2. \A t \in Tasks : state'[t] = IF t = task[w] THEN "completed" ELSE state[t]
      BY <1>0, <3>1 DEF JournalType
    <3>3. pc' = [pc EXCEPT ![w] = "release"] /\ task' = task /\ lease' = lease
      BY <1>c, <2>4
    <3>4. "release" \notin EnqueueSteps
      BY DEF EnqueueSteps
    <3> QED
      BY <1>0, <1>b, <2>1, <2>2, <3>2, <3>3, <3>4, JournalMove
  <2> QED
    BY <1>8, <2>4 DEF CompleteDurably
\* queue.fail: the retry is queued while the call still has the slot.
<1>9. ASSUME NEW w \in Workers, NEW backoff \in Backoffs, FailDurably(w, backoff)
      PROVE  LeasesNameTasks' /\ PendingIsKnown' /\ DroppedNotQueued' /\ QueuedIsScheduled'
  <2>1. /\ pc[w] = "fail" /\ claims' = claims /\ booting' = booting /\ jobs' = jobs
        /\ "fail" \notin EnqueueSteps /\ "fail" \in SlotSteps /\ DropSteps \subseteq SlotSteps
    BY <1>9 DEF FailDurably, At, SameDaemon, SameScheduler, schedulerVars, EnqueueSteps,
        SlotSteps, LeaseSteps, DropSteps
  <2>2. task[w] \in Tasks /\ lease[w].task = task[w] /\ task[w] \in jobs
    BY <1>0, <1>b, <2>1 DEF JournalInv, LeasesNameTasks, SlotsOwned
  <2>4. CASE Q!Fail(lease[w], backoff) /\ Q!Exhausted(task[w]) /\ Goto(w, "release")
    <3>1. state' = [state EXCEPT ![task[w]] = "dead_letter"]
      BY <2>2, <2>4 DEF Q!Fail, Q!JournalDeadLetter
    <3>2. \A t \in Tasks : state'[t] = IF t = task[w] THEN "dead_letter" ELSE state[t]
      BY <1>0, <3>1 DEF JournalType
    <3>3. pc' = [pc EXCEPT ![w] = "release"] /\ task' = task /\ lease' = lease
      BY <1>c, <2>4
    <3>4. "release" \notin EnqueueSteps
      BY DEF EnqueueSteps
    <3> QED
      BY <1>0, <1>b, <2>1, <2>2, <3>2, <3>3, <3>4, JournalMove
  <2>5. CASE Q!Fail(lease[w], backoff) /\ ~ Q!Exhausted(task[w]) /\ Goto(w, "release_retry")
    <3>1. state' = [state EXCEPT ![task[w]] = "queued"]
      BY <2>2, <2>5 DEF Q!Fail, Q!JournalQueue
    <3>2. \A t \in Tasks : state'[t] = IF t = task[w] THEN "queued" ELSE state[t]
      BY <1>0, <3>1 DEF JournalType
    <3>3. pc' = [pc EXCEPT ![w] = "release_retry"] /\ task' = task /\ lease' = lease
      BY <1>c, <2>5
    <3>4. "release_retry" \notin EnqueueSteps /\ "release_retry" \notin DropSteps
      BY DEF EnqueueSteps, DropSteps
    <3>5. \A v \in Workers \ {w} : pc[v] \in DropSteps => task[v] # task[w]
      BY <1>0, <2>1 DEF SlotsOwned
    <3>6. /\ \A t \in Tasks : state[t] # "absent" => state'[t] # "absent"
          /\ \A t \in jobs' : state'[t] # "absent"
          /\ \A t \in Tasks : state'[t] = "queued" /\ state[t] # "queued" =>
                 /\ \A v \in Workers \ {w} : pc[v] \in DropSteps => task[v] # t
                 /\ t \in jobs'
          /\ pc[w] \notin EnqueueSteps /\ booting' = booting /\ jobs' = jobs
      BY <1>0, <1>b, <2>1, <2>2, <3>2, <3>5
    <3>7. \A t \in Tasks : claims'[t] # NoClaim => claims'[t].task = t
      BY <1>b, <2>1
    <3> QED
      BY <1>0, <3>3, <3>4, <3>6, <3>7, JournalMove
  <2> QED
    BY <1>9, <2>4, <2>5 DEF FailDurably
<1>10. ASSUME NEW w \in Workers, NEW t \in Tasks, Submit(w, t)
       PROVE  LeasesNameTasks' /\ PendingIsKnown' /\ DroppedNotQueued' /\ QueuedIsScheduled'
  <2>1. /\ pc[w] = "idle" /\ claims' = claims /\ booting' = booting /\ jobs' = jobs
        /\ Pursue(w, "enqueue", t)
    BY <1>10 DEF Submit, At, SameDaemon, SameScheduler, schedulerVars
  <2>2. \A u \in Tasks : \/ state'[u] = state[u] /\ (u = t => state[u] # "absent")
                         \/ u = t /\ state[u] = "absent" /\ state'[u] = "queued"
    <3>1. CASE state[t] = "absent" /\ Q!Submit(t)
      <4>1. state' = [state EXCEPT ![t] = "queued"]
        BY <3>1 DEF Q!Submit, Q!Recorded
      <4> QED
        BY <1>0, <3>1, <4>1 DEF JournalType
    <3>2. CASE state[t] # "absent" /\ SameQueue
      BY <3>2 DEF SameQueue, queueVars
    <3> QED
      BY <1>10, <3>1, <3>2 DEF Submit
  <2>3. /\ "idle" \notin EnqueueSteps /\ "enqueue" \in EnqueueSteps /\ "enqueue" \notin DropSteps
        /\ DropSteps \subseteq SlotSteps
    BY DEF EnqueueSteps, DropSteps, SlotSteps, LeaseSteps
  <2>4. /\ pc' = [pc EXCEPT ![w] = "enqueue"] /\ lease' = lease
        /\ task'[w] = t /\ \A v \in Workers \ {w} : task'[v] = task[v]
    BY <1>d, <2>1
  <2>5. \A u \in Tasks : state'[u] = "queued" /\ state[u] # "queued" =>
            u = t /\ \A v \in Workers \ {w} : pc[v] \in DropSteps => task[v] # u
    BY <1>b, <2>2, <2>3
  <2>6. state'[t] # "absent" /\ \A u \in Tasks : state[u] # "absent" => state'[u] # "absent"
    BY <2>2
  <2>7. \A u \in jobs' : state'[u] # "absent"
    BY <1>0, <1>b, <2>1, <2>6
  <2>8. \A u \in Tasks : claims'[u] # NoClaim => claims'[u].task = u
    BY <1>b, <2>1
  <2>9. booting' = booting /\ jobs' = jobs /\ pc[w] \notin EnqueueSteps
    BY <2>1, <2>3
  <2>10. \A v \in Workers \ {w} : task'[v] = task[v] /\ lease'[v] = lease[v]
    BY <2>4
  <2> QED
    BY <1>0, <2>3, <2>4, <2>5, <2>6, <2>7, <2>8, <2>9, <2>10, JournalMove
<1>11. ASSUME NEW w \in Workers, NEW request \in Requests, StartClaim(w, request)
       PROVE  LeasesNameTasks' /\ PendingIsKnown' /\ DroppedNotQueued' /\ QueuedIsScheduled'
  <2>1. /\ pc[w] = "idle" /\ claims' = claims /\ booting' = booting /\ jobs' = jobs
        /\ state' = state /\ pc' = [pc EXCEPT ![w] = "next"] /\ task' = task /\ lease' = lease
    BY <1>11 DEF StartClaim, At, SameDaemon, SameScheduler, schedulerVars, SameQueue, queueVars
  <2>2. "idle" \notin EnqueueSteps /\ "next" \notin EnqueueSteps /\ "next" \notin DropSteps
    BY DEF EnqueueSteps, DropSteps
  <2> QED
    BY <1>0, <1>2, <1>b, <2>1, <2>2
<1>12. ASSUME NEW w \in Workers, NEW t \in Tasks, NEW step \in {"complete", "fail"}, Report(w, t, step)
       PROVE  LeasesNameTasks' /\ PendingIsKnown' /\ DroppedNotQueued' /\ QueuedIsScheduled'
  <2>1. /\ pc[w] = "idle" /\ claims[t] # NoClaim /\ booting' = booting /\ jobs' = jobs
        /\ state' = state /\ pc' = [pc EXCEPT ![w] = step]
        /\ task' = [task EXCEPT ![w] = t] /\ lease' = [lease EXCEPT ![w] = claims[t]]
        /\ claims' = [claims EXCEPT ![t] = NoClaim]
    BY <1>12 DEF Report, At, SameScheduler, schedulerVars, SameQueue, queueVars
  <2>2. "idle" \notin EnqueueSteps /\ step \notin EnqueueSteps /\ step \notin DropSteps
    BY DEF EnqueueSteps, DropSteps
  <2>3. /\ DOMAIN lease' = Workers /\ lease'[w] = claims[t] /\ task'[w] = t
        /\ \A v \in Workers \ {w} : task'[v] = task[v] /\ lease'[v] = lease[v]
    BY <1>0, <2>1 DEF CallType
  <2>4. \A u \in Tasks : claims'[u] # NoClaim => claims'[u].task = u
    BY <1>0, <1>b, <2>1 DEF CallType
  <2>5. lease'[w].task = task'[w]
    BY <1>b, <2>1, <2>3
  <2>6. /\ pc' = [pc EXCEPT ![w] = step] /\ pc[w] \notin EnqueueSteps
        /\ booting' = booting /\ jobs' = jobs /\ state' = state
    BY <2>1, <2>2
  <2> QED
    BY <1>2, <2>2, <2>3, <2>4, <2>5, <2>6
\* The restart: whatever is queued is rehydrated.
<1>13. CASE Crash
  <2>1. /\ jobs' = {} /\ booting' = Rehydratable /\ state' = state
        /\ \A w \in Workers : pc'[w] = "idle"
        /\ DOMAIN lease' = Workers /\ \A t \in Tasks : claims'[t] = NoClaim
    BY <1>13 DEF Crash, SameQueue, queueVars
  <2>2. Rehydratable \subseteq Tasks /\ \A t \in Rehydratable : state[t] # "absent"
    BY DEF Rehydratable
  <2>3. \A t \in Tasks : state[t] = "queued" => t \in Rehydratable
    BY DEF Rehydratable, JournalInv, QueuedIsClaimable
  <2>4. LeasesNameTasks' /\ PendingIsKnown' /\ DroppedNotQueued'
    BY <2>1, <2>2 DEF LeasesNameTasks, PendingIsKnown, DroppedNotQueued
  <2> QED
    BY <2>1, <2>3, <2>4 DEF QueuedIsScheduled
<1>14. ASSUME NEW t \in Tasks, Rehydrate(t)
       PROVE  LeasesNameTasks' /\ PendingIsKnown' /\ DroppedNotQueued' /\ QueuedIsScheduled'
  <2>1. /\ t \in booting /\ booting' = booting \ {t} /\ state' = state
        /\ UNCHANGED <<pc, task, lease, claims>>
        /\ IF S!MayEnqueue(t) THEN S!Enqueue(t) ELSE SameScheduler
    BY <1>14 DEF Rehydrate, SameQueue, queueVars, callVars
  <2>2. jobs' = jobs \cup {t}
    BY <1>0, <2>1, TryEnqueueSchedules
  <2>3. LeasesNameTasks' /\ DroppedNotQueued'
    BY <2>1 DEF JournalInv, LeasesNameTasks, DroppedNotQueued
  <2>4. PendingIsKnown'
    BY <2>1, <2>2 DEF JournalInv, PendingIsKnown
  <2>5. QueuedIsScheduled'
    BY <2>1, <2>2 DEF JournalInv, QueuedIsScheduled, Busy
  <2> QED
    BY <2>3, <2>4, <2>5
<1>15. CASE Tick \/ UNCHANGED vars \/ \E w \in Workers, t \in Tasks : ReportRejected(w, t)
  <2>1. UNCHANGED <<pc, task, lease, claims, booting, jobs, state>>
    BY <1>15 DEF Tick, vars, hubVars, callVars, ReportRejected, SameScheduler, schedulerVars,
        SameQueue, queueVars, Q!Tick, Q!journalVars
  <2>2. LeasesNameTasks' /\ PendingIsKnown' /\ DroppedNotQueued'
    BY <2>1 DEF JournalInv, LeasesNameTasks, PendingIsKnown, DroppedNotQueued
  <2>3. QueuedIsScheduled'
    BY <2>1 DEF JournalInv, QueuedIsScheduled, Busy
  <2> QED
    BY <2>2, <2>3
\* A queue operation raises: the task stays in flight.
<1>r. ASSUME NEW w \in Workers, QueueRaises(w)
      PROVE  LeasesNameTasks' /\ PendingIsKnown' /\ DroppedNotQueued' /\ QueuedIsScheduled'
  <2>1. /\ pc[w] \in {"claim", "complete", "fail"} /\ Return(w) /\ claims' = claims
        /\ booting' = booting /\ jobs' = jobs
    BY <1>r DEF QueueRaises, At, SameScheduler, schedulerVars
  <2>2. /\ pc[w] \in SlotSteps /\ pc[w] \notin EnqueueSteps
        /\ "idle" \notin EnqueueSteps /\ "idle" \notin DropSteps /\ "idle" \notin {"complete", "fail"}
    BY <2>1 DEF SlotSteps, LeaseSteps, EnqueueSteps, DropSteps
  <2>3. task[w] \in Tasks
    BY <1>b, <2>2
  <2>4. state' = state \/ state' = [state EXCEPT ![task[w]] = "leased"]
    BY <1>r, Zenon DEF QueueRaises, SameQueue, queueVars, Q!Claim, Q!JournalClaim
  <2>5. \A t \in Tasks : state'[t] = state[t] \/ state'[t] = "leased"
    BY <1>0, <2>4 DEF JournalType
  <2>6. /\ pc' = [pc EXCEPT ![w] = "idle"] /\ DOMAIN lease' = Workers
        /\ \A v \in Workers \ {w} : task'[v] = task[v] /\ lease'[v] = lease[v]
    BY <1>e, <2>1
  <2>7. /\ \A t \in Tasks : state[t] # "absent" => state'[t] # "absent"
        /\ \A t \in Tasks : state'[t] = "queued" => state[t] = "queued"
        /\ \A t \in jobs' : state'[t] # "absent"
        /\ \A t \in Tasks : claims'[t] # NoClaim => claims'[t].task = t
    BY <1>0, <1>b, <2>1, <2>5
  <2> QED
    BY <1>0, <2>1, <2>2, <2>6, <2>7, JournalMove
<1>16. ASSUME NEW w \in Workers, Continue(w)
       PROVE  LeasesNameTasks' /\ PendingIsKnown' /\ DroppedNotQueued' /\ QueuedIsScheduled'
  BY <1>1, <1>3, <1>4, <1>5, <1>6, <1>7, <1>8, <1>9, <1>r, <1>16, Zenon DEF Continue
<1> QED
  BY <1>10, <1>11, <1>12, <1>13, <1>14, <1>15, <1>16, Zenon DEF Next

(***************************************************************************)
(* No queued job is lost from fair ordering, with leases that expire and a *)
(* daemon that crashes and rehydrates, provided the quotas have room for   *)
(* all jobs (enqueue's refusal after a governor refusal, a retry or a      *)
(* restart loses the job's place) and retries have no backoff (a job that  *)
(* waits for one is dropped by a claim that polls it early).               *)
(***************************************************************************)
THEOREM NoQueuedJobLost ==
    ASSUME Unhindered
    PROVE  Spec => []QueuedIsScheduled
<1>1. Init => JournalInv
  <2> SUFFICES ASSUME Init PROVE JournalInv
    OBVIOUS
  <2>1. JournalType
    BY DEF Init, Q!Init, Q!Zero, JournalType, Q!JobStates, Q!MapperStates
  <2>2. QueuedIsClaimable
    BY DEF Init, Q!Init, Q!Zero, QueuedIsClaimable
  <2>3. LeasesNameTasks /\ PendingIsKnown /\ DroppedNotQueued
    BY DEF Init, S!Init, LeasesNameTasks, PendingIsKnown, DroppedNotQueued
  <2>4. QueuedIsScheduled
    BY DEF Init, Q!Init, QueuedIsScheduled
  <2> QED
    BY <2>1, <2>2, <2>3, <2>4 DEF JournalInv
<1>2. ServiceInv /\ JournalInv /\ [Next]_vars => JournalInv'
  BY JournalStep
<1>3. JournalInv => QueuedIsScheduled
  BY DEF JournalInv
<1> QED
  BY <1>1, <1>2, <1>3, ServiceSafe, PTL DEF Spec

-----------------------------------------------------------------------------
(* The hub and its queue: the guarantees of the parts hold in the whole.   *)

\* What is proved of the queue and of the governor by themselves.
P == INSTANCE HubPartsProofs WITH LeaseKeys <- Tasks

\* The leases the daemon keeps and reports with are leases the queue handed out.
LeasesHanded ==
    /\ DOMAIN lease = Workers
    /\ \A t \in Tasks : claims[t] # NoClaim => claims[t] \in handed
    /\ \A w \in Workers : pc[w] \in {"complete", "fail"} => lease[w] \in handed

\* The queue forgets no lease.
LEMMA HandedGrows == ASSUME [Next]_vars PROVE handed \subseteq handed'
BY QueueMoves, Zenon
   DEF SameQueue, queueVars, Q!Submit, Q!ClaimConflict, Q!Claim, Q!Complete, Q!Fail, Q!Tick,
       Q!historyVars

\* A call moves on to a step that reports nothing.
LEMMA HandedMove ==
    ASSUME LeasesHanded, CallType, NEW w \in Workers, NEW step, step \notin {"complete", "fail"},
           pc' = [pc EXCEPT ![w] = step], claims' = claims, handed \subseteq handed',
           DOMAIN lease' = Workers, \A v \in Workers \ {w} : lease'[v] = lease[v]
    PROVE  LeasesHanded'
BY DEF LeasesHanded, CallType

\* Every step keeps them so.
LEMMA HandedStep ==
    ASSUME ServiceInv, LeasesHanded, [Next]_vars
    PROVE  LeasesHanded'
<1>1. CallType /\ handed \subseteq handed' /\ DOMAIN lease = Workers /\ DOMAIN claims = Tasks
  BY HandedGrows DEF ServiceInv, LeasesHanded, CallType
<1>2. ASSUME NEW w \in Workers, NEW step, step \notin {"complete", "fail"}, claims' = claims,
             \/ Return(w) \/ Goto(w, step) \/ \E t : Pursue(w, step, t)
             \/ pc' = [pc EXCEPT ![w] = step] /\ lease' = lease
      PROVE  LeasesHanded'
  <2>1. CASE Return(w)
    <3>1. /\ pc' = [pc EXCEPT ![w] = "idle"] /\ DOMAIN lease' = Workers
          /\ \A v \in Workers \ {w} : lease'[v] = lease[v]
      BY <1>1, <2>1 DEF Return
    <3>2. "idle" \notin {"complete", "fail"}
      OBVIOUS
    <3> QED
      BY <1>1, <1>2, <3>1, <3>2, HandedMove
  <2>2. CASE Goto(w, step) \/ (\E t : Pursue(w, step, t)) \/ (pc' = [pc EXCEPT ![w] = step] /\ lease' = lease)
    <3>1. pc' = [pc EXCEPT ![w] = step] /\ lease' = lease
      BY <2>2 DEF Goto, Pursue
    <3> QED
      BY <1>1, <1>2, <3>1, HandedMove
  <2> QED
    BY <1>2, <2>1, <2>2
<1>3. ASSUME NEW w \in Workers, Continue(w), \A ttl \in TTLs : ~ Claim(w, ttl) PROVE LeasesHanded'
  <2>1. claims' = claims
    BY <1>3, Zenon DEF Continue, Enqueue, NoCandidate, NextCandidate, Admit, Refused, RequeueRefused,
        ClaimNothing, Unclaim, DropCandidate, CompleteDurably, FailDurably, QueueRaises,
        ReleaseResources, Retire, EnqueueRetry, SameDaemon
  <2>2. \E step : /\ step \notin {"complete", "fail"}
                  /\ \/ Return(w) \/ Goto(w, step) \/ \E t : Pursue(w, step, t)
                     \/ pc' = [pc EXCEPT ![w] = step] /\ lease' = lease
    <3>1. CASE \/ Enqueue(w) \/ NoCandidate(w) \/ EnqueueRetry(w) \/ CompleteDurably(w)
               \/ RequeueRefused(w) \/ QueueRaises(w)
      <4>1. Return(w) \/ Goto(w, "release") \/ Pursue(w, "next", NoTask)
        BY <3>1 DEF Enqueue, NoCandidate, EnqueueRetry, CompleteDurably, RequeueRefused, QueueRaises
      <4>2. "release" \notin {"complete", "fail"} /\ "next" \notin {"complete", "fail"}
        OBVIOUS
      <4> QED
        BY <4>1, <4>2
    <3>2. CASE \E c \in Clients : NextCandidate(w, c)
      <4>1. pc' = [pc EXCEPT ![w] = "admit"] /\ lease' = lease
        BY <3>2 DEF NextCandidate
      <4>2. "admit" \notin {"complete", "fail"}
        OBVIOUS
      <4> QED
        BY <4>1, <4>2
    <3>3. CASE Admit(w) \/ Refused(w) \/ ClaimNothing(w) \/ Unclaim(w) \/ DropCandidate(w)
      <4>1. \/ Goto(w, "claim") \/ Goto(w, "refused") \/ Goto(w, "requeue") \/ Goto(w, "unclaim")
            \/ Goto(w, "drop") \/ Pursue(w, "next", NoTask)
        BY <3>3 DEF Admit, Refused, ClaimNothing, Unclaim, DropCandidate
      <4>2. {"claim", "refused", "requeue", "unclaim", "drop", "next"} \cap {"complete", "fail"} = {}
        OBVIOUS
      <4> QED
        BY <4>1, <4>2
    <3>4. CASE (\E backoff \in Backoffs : FailDurably(w, backoff)) \/ ReleaseResources(w) \/ Retire(w)
      <4>1. \/ Return(w) \/ Goto(w, "release") \/ Goto(w, "release_retry") \/ Goto(w, "retire")
            \/ Goto(w, "retire_retry") \/ Goto(w, "retry")
        BY <3>4 DEF FailDurably, ReleaseResources, Retire
      <4>2. {"release", "release_retry", "retire", "retire_retry", "retry"} \cap {"complete", "fail"} = {}
        OBVIOUS
      <4> QED
        BY <4>1, <4>2
    <3> QED
      BY <1>3, <3>1, <3>2, <3>3, <3>4, Zenon DEF Continue
  <2> QED
    BY <1>2, <2>1, <2>2
<1>4. ASSUME NEW w \in Workers, NEW ttl \in TTLs, Claim(w, ttl) PROVE LeasesHanded'
  <2> DEFINE l == [task |-> task[w], id |-> leaseId'[task[w]], fence |-> fence'[task[w]]]
  <2>1. /\ l \in handed' /\ claims' = [claims EXCEPT ![task[w]] = l] /\ Return(w)
    BY <1>4 DEF Claim, Q!Claim
  <2>2. /\ pc' = [pc EXCEPT ![w] = "idle"] /\ DOMAIN lease' = Workers
        /\ \A v \in Workers \ {w} : lease'[v] = lease[v]
    BY <1>1, <2>1 DEF Return
  <2> HIDE DEF l
  <2>3. \A t \in Tasks : claims'[t] # NoClaim => claims'[t] \in handed'
    BY <1>1, <2>1 DEF LeasesHanded
  <2>4. \A v \in Workers : pc'[v] \in {"complete", "fail"} => lease'[v] \in handed'
    BY <1>1, <2>2 DEF LeasesHanded, CallType
  <2> QED
    BY <2>2, <2>3, <2>4 DEF LeasesHanded
<1>5. ASSUME NEW w \in Workers, NEW t \in Tasks, Submit(w, t) PROVE LeasesHanded'
  <2>1. claims' = claims /\ Pursue(w, "enqueue", t) /\ "enqueue" \notin {"complete", "fail"}
    BY <1>5 DEF Submit, SameDaemon
  <2> QED
    BY <1>2, <2>1
<1>6. ASSUME NEW w \in Workers, NEW request \in Requests, StartClaim(w, request) PROVE LeasesHanded'
  <2>1. /\ claims' = claims /\ pc' = [pc EXCEPT ![w] = "next"] /\ lease' = lease
        /\ "next" \notin {"complete", "fail"}
    BY <1>6 DEF StartClaim, SameDaemon
  <2> QED
    BY <1>2, <2>1
<1>7. ASSUME NEW w \in Workers, NEW t \in Tasks, NEW step \in {"complete", "fail"}, Report(w, t, step)
      PROVE  LeasesHanded'
  <2>1. /\ claims[t] # NoClaim /\ pc' = [pc EXCEPT ![w] = step]
        /\ lease' = [lease EXCEPT ![w] = claims[t]] /\ claims' = [claims EXCEPT ![t] = NoClaim]
    BY <1>7 DEF Report
  <2>2. claims[t] \in handed
    BY <2>1 DEF LeasesHanded
  <2> QED
    BY <1>1, <2>1, <2>2 DEF LeasesHanded, CallType
<1>8. ASSUME UNCHANGED <<pc, lease, claims>> PROVE LeasesHanded'
  BY <1>1, <1>8 DEF LeasesHanded
<1>9. ASSUME NEW w \in Workers, NEW t \in Tasks, ReportRejected(w, t) PROVE LeasesHanded'
  BY <1>8, <1>9 DEF ReportRejected, callVars
<1>10. CASE Tick \/ (\E t \in Tasks : Rehydrate(t)) \/ UNCHANGED vars
  BY <1>8, <1>10 DEF Tick, Rehydrate, vars, hubVars, callVars
<1>11. CASE Crash
  BY <1>11 DEF Crash, LeasesHanded
<1> QED
  BY <1>3, <1>4, <1>5, <1>6, <1>7, <1>9, <1>10, <1>11, Zenon DEF Next

\* The queue's part of a step of the hub.
LEMMA QueueStep ==
    ASSUME ServiceInv, LeasesHanded, [Next]_vars
    PROVE  \/ SameQueue
           \/ \E t \in Tasks : Q!Submit(t) \/ Q!ClaimConflict(t) \/ \E ttl \in TTLs : Q!Claim(t, ttl)
           \/ \E l \in handed : Q!Complete(l) \/ \E backoff \in Backoffs : Q!Fail(l, backoff)
           \/ Q!Tick
<1>1. ASSUME NEW w \in Workers,
             \/ ClaimNothing(w) \/ \E ttl \in TTLs : Claim(w, ttl)
             \/ At(w, "claim") /\ QueueRaises(w)
      PROVE  SameQueue \/ \E t \in Tasks : Q!ClaimConflict(t) \/ \E ttl \in TTLs : Q!Claim(t, ttl)
  <2>1. pc[w] = "claim" /\ "claim" \in SlotSteps
    BY <1>1 DEF ClaimNothing, Claim, QueueRaises, At, SlotSteps, LeaseSteps
  <2>2. task[w] \in Tasks
    BY <2>1 DEF ServiceInv, CallType
  <2> QED
    BY <1>1, <2>2, Zenon DEF ClaimNothing, Claim, QueueRaises
<1>2. ASSUME NEW w \in Workers, CompleteDurably(w) \/ \E backoff \in Backoffs : FailDurably(w, backoff)
      PROVE  SameQueue \/ \E l \in handed : Q!Complete(l) \/ \E backoff \in Backoffs : Q!Fail(l, backoff)
  <2>1. pc[w] \in {"complete", "fail"}
    BY <1>2 DEF CompleteDurably, FailDurably, At
  <2>2. lease[w] \in handed
    BY <2>1 DEF LeasesHanded
  <2> QED
    BY <1>2, <2>2, Zenon DEF CompleteDurably, FailDurably
<1>3. ASSUME NEW w \in Workers,
             \/ Enqueue(w) \/ NoCandidate(w) \/ \E c \in Clients : NextCandidate(w, c)
             \/ Admit(w) \/ Refused(w) \/ RequeueRefused(w) \/ Unclaim(w) \/ DropCandidate(w)
             \/ ReleaseResources(w) \/ Retire(w) \/ EnqueueRetry(w)
             \/ ~ At(w, "claim") /\ QueueRaises(w)
      PROVE  SameQueue
  BY <1>3, Zenon DEF Enqueue, NoCandidate, NextCandidate, Admit, Refused, RequeueRefused,
      Unclaim, DropCandidate, ReleaseResources, Retire, EnqueueRetry, QueueRaises
<1>4. ASSUME NEW w \in Workers, NEW t \in Tasks,
             \/ Submit(w, t) \/ ReportRejected(w, t)
             \/ \E step \in {"complete", "fail"} : Report(w, t, step)
      PROVE  SameQueue \/ Q!Submit(t)
  BY <1>4, Zenon DEF Submit, ReportRejected, Report
<1>5. ASSUME NEW w \in Workers, NEW request \in Requests, StartClaim(w, request)
      PROVE  SameQueue
  BY <1>5 DEF StartClaim
<1>6. CASE Tick \/ Crash \/ (\E t \in Tasks : Rehydrate(t)) \/ UNCHANGED vars
  BY <1>6, Zenon DEF Tick, Crash, Rehydrate, vars, SameQueue
<1> QED
  BY <1>1, <1>2, <1>3, <1>4, <1>5, <1>6, Zenon DEF Next, Continue

\* The parameters of the parts are the hub's.
LEMMA QueueParameters == P!QueueAssumption
BY ServiceAssumption DEF P!QueueAssumption

\* So are the governor's.
LEMMA GovernorParameters == P!GovernorAssumption
<1>1. P!IsFiniteSet(Tasks)
  BY ServiceAssumption, Zenon DEF P!IsFiniteSet, IsFiniteSet
<1> QED
  BY <1>1, ServiceAssumption DEF P!GovernorAssumption, P!Amounts

\* Q and P instantiate the same module: their definitions are the same.
LEMMA SameQueueSpec == Q!Spec <=> P!Spec
BY PTL
   DEF Q!Zero, Q!Init, Q!MapperEnqueue, Q!Reclaimed, Q!MapperClaim, Q!MapperActive,
       Q!MapperMove, Q!MapperHeartbeat, Q!Recorded, Q!JournalClaim, Q!JournalComplete,
       Q!JournalDeadLetter, Q!JournalQueue, Q!Submit, Q!AdmitHeld, Q!Claimable, Q!Claim,
       Q!ClaimConflict, Q!Owned, Q!Heartbeat, Q!Complete, Q!Exhausted, Q!Fail,
       Q!Requeue, Q!TornSubmit, Q!TornClaim, Q!TornHeartbeat, Q!TornComplete,
       Q!TornFail, Q!TornRequeue, Q!Tick, Q!Crash, Q!Next, Q!Spec, Q!queueVars,
       Q!journalVars, Q!mapperVars, Q!historyVars, P!Zero, P!Init, P!MapperEnqueue,
       P!Reclaimed, P!MapperClaim, P!MapperActive, P!MapperMove, P!MapperHeartbeat,
       P!Recorded, P!JournalClaim, P!JournalComplete, P!JournalDeadLetter,
       P!JournalQueue, P!Submit, P!AdmitHeld, P!Claimable, P!Claim,
       P!ClaimConflict, P!Owned, P!Heartbeat, P!Complete, P!Exhausted, P!Fail,
       P!Requeue, P!TornSubmit, P!TornClaim, P!TornHeartbeat, P!TornComplete,
       P!TornFail, P!TornRequeue, P!Tick, P!Crash, P!Next, P!Spec, P!queueVars,
       P!journalVars, P!mapperVars, P!historyVars

\* So are the properties.
LEMMA SameQueueProperties ==
    /\ Q!LeasesUnique <=> P!LeasesUnique
    /\ Q!JournalNeverAhead <=> P!JournalNeverAhead
BY DEF Q!LeasesUnique, P!LeasesUnique, Q!JournalNeverAhead, P!JournalNeverAhead

(***************************************************************************)
(* The hub implements its durable queue: whatever the calls of the service *)
(* do, in whatever order their steps interleave with crashes and restarts, *)
(* the queue sees a behaviour that HubRetryQueue allows.  In particular    *)
(* hub_complete and hub_fail only ever present leases the queue handed     *)
(* out, and a restart of the daemon leaves the queue alone.                *)
(***************************************************************************)
THEOREM HubImplementsQueue == Spec => Q!Spec
<1>1. Init => Q!Init /\ LeasesHanded
  BY DEF Init, LeasesHanded
<1>2. ASSUME ServiceInv, LeasesHanded, [Next]_vars
      PROVE  LeasesHanded' /\ [Q!Next]_(Q!queueVars)
  <2>1. SameQueue => UNCHANGED Q!queueVars
    BY DEF SameQueue, queueVars, Q!queueVars, Q!journalVars, Q!mapperVars, Q!historyVars
  <2>2. Q!Next \/ UNCHANGED Q!queueVars
    BY <1>2, <2>1, QueueStep, Zenon DEF Q!Next
  <2>3. LeasesHanded'
    BY <1>2, HandedStep
  <2> QED
    BY <2>2, <2>3
<1> QED
  BY <1>1, <1>2, ServiceSafe, PTL DEF Spec, Q!Spec

(***************************************************************************)
(* So the queue's guarantees hold in the hub: no two leases that reached   *)
(* workers are confused, and the journal never runs ahead of the Mapper.   *)
(***************************************************************************)
THEOREM HubLeasesAreUnique == Spec => [](Q!LeasesUnique /\ Q!JournalNeverAhead)
<1>1. P!Spec => []P!LeasesUnique
  BY QueueParameters, GovernorParameters, P!LeasesAreUnique, PTL
<1>2. P!Spec => []P!JournalNeverAhead
  BY QueueParameters, GovernorParameters, P!JournalFollowsMapper, PTL
<1> QED
  BY <1>1, <1>2, HubImplementsQueue, SameQueueSpec, SameQueueProperties, PTL

(***************************************************************************)
(* And only the newest lease of a task decides its outcome in the hub, a   *)
(* completed task stays completed and is never handed out again.           *)
(***************************************************************************)
THEOREM HubDecidesOnce == Spec => Q!NewestLeaseDecides /\ Q!CompletionIsFinal
<1>1. P!Spec => P!NewestLeaseDecides
  BY QueueParameters, GovernorParameters, P!NewestDecides, PTL
<1>2. P!Spec => P!CompletionIsFinal
  BY QueueParameters, GovernorParameters, P!CompletedForGood, PTL
<1>3. Q!NewestLeaseDecides <=> P!NewestLeaseDecides
  BY PTL DEF Q!NewestLeaseDecides, P!NewestLeaseDecides, Q!queueVars, Q!journalVars, Q!mapperVars,
     Q!historyVars, P!queueVars, P!journalVars, P!mapperVars, P!historyVars
<1>4. Q!CompletionIsFinal <=> P!CompletionIsFinal
  BY PTL DEF Q!CompletionIsFinal, P!CompletionIsFinal, Q!queueVars, Q!journalVars, Q!mapperVars,
     Q!historyVars, P!queueVars, P!journalVars, P!mapperVars, P!historyVars
<1> QED
  BY <1>1, <1>2, <1>3, <1>4, HubImplementsQueue, SameQueueSpec, PTL

-----------------------------------------------------------------------------
(* The hub and its governor.                                               *)

\* The governor's part of a step of the hub: a crash makes a new governor.
LEMMA GovernorStep ==
    ASSUME ServiceInv, [Next]_vars
    PROVE  \/ SameGovernor
           \/ \E t \in Tasks, request \in Requests :
                  G!Admit(ClientOf[t], t, request) \/ G!Throttle(ClientOf[t], t, request)
           \/ \E t \in Tasks : G!AdmitAgain(t) \/ G!Release(t)
           \/ G!GovernorInit'
<1>1. ASSUME NEW w \in Workers, Admit(w) \/ Unclaim(w) \/ ReleaseResources(w)
      PROVE  \/ \E t \in Tasks, request \in Requests :
                    G!Admit(ClientOf[t], t, request) \/ G!Throttle(ClientOf[t], t, request)
             \/ \E t \in Tasks : G!AdmitAgain(t) \/ G!Release(t)
  <2>1. pc[w] \in SlotSteps
    BY <1>1 DEF Admit, Unclaim, ReleaseResources, At, SlotSteps, LeaseSteps
  <2>2. task[w] \in Tasks /\ asked[w] \in Requests
    BY <2>1 DEF ServiceInv, CallType
  <2> QED
    BY <1>1, <2>2, Zenon DEF Admit, Unclaim, ReleaseResources
<1>2. ASSUME NEW w \in Workers, Continue(w), ~ (Admit(w) \/ Unclaim(w) \/ ReleaseResources(w))
      PROVE  SameGovernor
  BY <1>2, Zenon DEF Continue, Enqueue, NoCandidate, NextCandidate, Refused, RequeueRefused,
      ClaimNothing, Claim, DropCandidate, CompleteDurably, FailDurably, QueueRaises, Retire,
      EnqueueRetry
<1>3. ASSUME NEW w \in Workers, NEW t \in Tasks,
             \/ Submit(w, t) \/ ReportRejected(w, t)
             \/ \E step \in {"complete", "fail"} : Report(w, t, step)
      PROVE  SameGovernor
  BY <1>3, Zenon DEF Submit, ReportRejected, Report
<1>4. ASSUME NEW w \in Workers, NEW request \in Requests, StartClaim(w, request)
      PROVE  SameGovernor
  BY <1>4 DEF StartClaim
<1>5. CASE Tick \/ (\E t \in Tasks : Rehydrate(t)) \/ UNCHANGED vars
  BY <1>5, Zenon DEF Tick, Rehydrate, vars, SameGovernor
<1>6. CASE Crash
  BY <1>6 DEF Crash, G!GovernorInit
<1> QED
  BY <1>1, <1>2, <1>3, <1>4, <1>5, <1>6, Zenon DEF Next

\* G and P instantiate the same module here too.
LEMMA SameGovernorActions ==
    /\ G!GovernorInit <=> P!GovernorInit
    /\ \A c, t, request : /\ G!Admit(c, t, request) <=> P!Admit(c, t, request)
                          /\ G!Throttle(c, t, request) <=> P!Throttle(c, t, request)
    /\ \A t : (G!AdmitAgain(t) <=> P!AdmitAgain(t)) /\ (G!Release(t) <=> P!Release(t))
BY Zenon DEF G!GovernorInit, G!Admit, G!Throttle, G!AdmitAgain, G!Release, G!Admits, G!Leased, G!Allows,
       G!AfterAllow, G!Affordable, G!WithinBudget, G!Plus, G!Minus, G!governorVars, G!budgetVars,
       G!circuitVars, P!GovernorInit, P!Admit, P!Throttle, P!AdmitAgain, P!Release, P!Admits,
       P!Leased, P!Allows, P!AfterAllow, P!Affordable, P!WithinBudget, P!Plus, P!Minus,
       P!governorVars, P!budgetVars, P!circuitVars

\* So are the properties.
LEMMA SameBooks == /\ G!UsageIsHeld <=> P!UsageIsHeld
                   /\ G!BudgetsHold <=> P!BudgetsHold
<1>1. \A K, r : G!HeldBy(K, r) = P!HeldBy(K, r)
  BY Zenon DEF G!HeldBy, P!HeldBy, G!MapThenSumSet, P!MapThenSumSet, G!MapThenFoldSet, P!MapThenFoldSet
<1> QED
  BY <1>1, Zenon DEF G!UsageIsHeld, P!UsageIsHeld, G!BudgetsHold, P!BudgetsHold, G!Leased, P!Leased

(***************************************************************************)
(* The governor's books stay exact in the hub, and its budgets hold: with  *)
(* any number of calls under way, claims that find no lease, reports that  *)
(* race them and crashes that forget every lease, what the hub has admitted*)
(* is what is charged, and no budget, global or of a client, is overdrawn. *)
(***************************************************************************)
THEOREM HubBudgetsHold == Spec => [](G!UsageIsHeld /\ G!BudgetsHold)
<1>1. G!GovernorInit => P!BudgetInv
  BY QueueParameters, GovernorParameters, SameGovernorActions, P!BudgetInit
<1>2. G!GovernorInit' => P!BudgetInv'
  BY <1>1, PTL
<1>3. ServiceInv /\ P!BudgetInv /\ [Next]_vars => P!BudgetInv'
  <2> SUFFICES ASSUME ServiceInv, P!BudgetInv, [Next]_vars PROVE P!BudgetInv'
    OBVIOUS
  <2>1. CASE G!GovernorInit'
    BY <1>2, <2>1
  <2>2. CASE SameGovernor
    <3>1. UNCHANGED P!governorVars
      BY <2>2 DEF SameGovernor, governorVars, P!governorVars, P!budgetVars, P!circuitVars
    <3> QED
      BY <3>1, QueueParameters, GovernorParameters, P!BudgetStep
  <2>3. CASE \/ \E t \in Tasks, request \in Requests :
                    G!Admit(ClientOf[t], t, request) \/ G!Throttle(ClientOf[t], t, request)
             \/ \E t \in Tasks : G!AdmitAgain(t) \/ G!Release(t)
    <3>1. \A t \in Tasks : ClientOf[t] \in Clients
      BY ServiceAssumption
    <3>2. P!GovernorNext
      BY <2>3, <3>1, SameGovernorActions, Zenon DEF P!GovernorNext
    <3> QED
      BY <3>2, QueueParameters, GovernorParameters, P!BudgetStep
  <2> QED
    BY <2>1, <2>2, <2>3, GovernorStep, Zenon
<1>4. P!BudgetInv => G!UsageIsHeld /\ G!BudgetsHold
  BY QueueParameters, GovernorParameters, P!ExactIsHeld, SameBooks DEF P!BudgetInv
<1> QED
  BY <1>1, <1>3, <1>4, ServiceSafe, PTL DEF Spec, Init
=============================================================================
