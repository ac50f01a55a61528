------------------------- MODULE RemoteWorkerProofs -------------------------
(***************************************************************************)
(* What RemoteWorker guarantees for any tasks, any workers that share no   *)
(* idempotency key, any lease time, clock and number of leases and         *)
(* cancellations.                                                          *)
(***************************************************************************)
EXTENDS RemoteWorker, WellFoundedInduction, TLAPS

-----------------------------------------------------------------------------
(* Reading the journal from its end.                                       *)

Before == {p \in Nat \X Nat : p[1] < p[2]}

\* A set of natural numbers that is not empty has a least element.
LEMMA LeastElement == ASSUME NEW S \in SUBSET Nat, S # {}
                      PROVE  \E m \in S : \A k \in S : m <= k
<1>1. IsWellFoundedOn(Before, Nat)
  BY NatLessThanWellFounded DEF OpToRel, Before
<1>2. PICK m \in S : \A k \in S : ~ (<<k, m>> \in Before)
  BY <1>1, WFMin, Zenon
<1>3. \A k \in S : ~ (k < m)
  BY <1>2 DEF Before
<1>4. \A k \in S : m <= k
  BY <1>3
<1> QED
  BY <1>4

\* The Max that SelectLastInSeq takes is one of the positions.
LEMMA MaxPosition == ASSUME NEW n \in Nat, NEW I \in SUBSET (1 .. n), I # {}
                     PROVE  Max(I) \in I
<1> DEFINE D == {n - i : i \in I}
<1>1. D \in SUBSET Nat /\ D # {}
  <2>1. \A i \in I : n - i \in Nat
    OBVIOUS
  <2>2. \A x \in D : x \in Nat
    BY <2>1
  <2> QED
    BY <2>2
<1>2. PICK m \in D : \A k \in D : m <= k
  BY <1>1, LeastElement
<1>3. PICK x \in I : m = n - x
  BY <1>2
<1>4. \A i \in I : x >= i
  <2> TAKE i \in I
  <2>1. n - i \in D
    OBVIOUS
  <2> QED
    BY <2>1, <1>2, <1>3
<1>5. \E y \in I : \A i \in I : y >= i
  BY <1>3, <1>4
<1> QED
  BY <1>5 DEF Max

\* _active_idempotent_claim answers with the lease of a claim event of that task
\* and key.
LEMMA ActiveClaimIsRecorded ==
    ASSUME QueueTypeOK, NEW t, NEW k, ActiveIdempotentClaim(t, k) # None
    PROVE  \E i \in DOMAIN journal : /\ journal[i].lease = ActiveIdempotentClaim(t, k)
                                     /\ journal[i].lease.key = k
<1> DEFINE I == {i \in 1 .. Len(journal) :
                    /\ journal[i].lease.task = t
                    /\ journal[i].lease.key = k
                    /\ journal[i].kind \in {"claimed", "released", "completed"}}
<1>1. Len(journal) \in Nat /\ DOMAIN journal = 1 .. Len(journal)
  BY DEF QueueTypeOK
<1>2. I # {} => Max(I) \in I
  <2>1. I \in SUBSET (1 .. Len(journal))
    OBVIOUS
  <2> QED
    BY <1>1, <2>1, MaxPosition
<1>3. I # {} /\ ActiveIdempotentClaim(t, k) = journal[Max(I)].lease
  BY <1>2 DEF ActiveIdempotentClaim, OpenClaim, LatestOf, SelectLastInSeq
<1>4. Max(I) \in I
  BY <1>2, <1>3
<1> QED
  BY <1>1, <1>3, <1>4

\* _current_lease answers with the lease of some event.
LEMMA CurrentLeaseIsRecorded ==
    ASSUME QueueTypeOK, NEW t, CurrentLease(t) # None
    PROVE  \E i \in DOMAIN journal : journal[i].lease = CurrentLease(t)
<1> DEFINE I == {i \in 1 .. Len(journal) :
                    /\ journal[i].lease.task = t
                    /\ journal[i].kind \in {"claimed", "released", "completed"}}
<1>1. Len(journal) \in Nat /\ DOMAIN journal = 1 .. Len(journal)
  BY DEF QueueTypeOK
<1>2. I # {} => Max(I) \in I
  <2>1. I \in SUBSET (1 .. Len(journal))
    OBVIOUS
  <2> QED
    BY <1>1, <2>1, MaxPosition
<1>3. I # {} /\ CurrentLease(t) = journal[Max(I)].lease
  BY <1>2 DEF CurrentLease, OpenClaim, LatestOf, SelectLastInSeq
<1>4. Max(I) \in I
  BY <1>2, <1>3
<1> QED
  BY <1>1, <1>3, <1>4

\* _cancelled_for says yes only if a cancellation names the fence.
LEMMA CancelledForIsRecorded ==
    ASSUME QueueTypeOK, NEW l, CancelledFor(l)
    PROVE  \E i \in Cancels : journal[i].lease.fence = l.fence
<1> DEFINE I == {i \in 1 .. Len(journal) : /\ journal[i].lease.task = l.task
                                           /\ journal[i].lease.fence = l.fence}
<1>1. Len(journal) \in Nat /\ DOMAIN journal = 1 .. Len(journal)
  BY DEF QueueTypeOK
<1>2. I # {} => Max(I) \in I
  <2>1. I \in SUBSET (1 .. Len(journal))
    OBVIOUS
  <2> QED
    BY <1>1, <2>1, MaxPosition
<1>3. I # {} /\ journal[Max(I)].kind = "cancel_requested"
  BY <1>2 DEF CancelledFor, LatestOf, SelectLastInSeq
<1>4. Max(I) \in I
  BY <1>2, <1>3
<1> QED
  BY <1>1, <1>3, <1>4 DEF Cancels

-----------------------------------------------------------------------------
(* The inductive invariant.                                                *)

\* The workers that were granted a lease and have not given up on it.
Holding == {w \in Workers : pc[w] \notin {"idle", "looked"}}

\* Every lease that somebody or something still refers to.
Known ==
    {lease[w] : w \in Holding} \cup {journal[i].lease : i \in DOMAIN journal}
        \cup ({request} \ {None})

\* A worker that is busy has a lease under one of its own keys.
LeaseInv ==
    \A w \in Workers : pc[w] # "idle" => lease[w] \in Lease /\ lease[w].key \in KeysOf[w]

\* A fence identifies its lease for ever: no two leases share one, and none is
\* from the future.
FenceInv ==
    /\ \A l \in Known : l \in Lease /\ l.fence <= fences
    /\ \A l, m \in Known : l.fence = m.fence => l = m

\* The flags of the previous task are gone before the next one starts.
FlagsInv ==
    \A w \in Workers :
        pc[w] \in {"idle", "looked", "claimed"} => hb[w] = "off" /\ ~cancelled[w]

\* What the MapperStore says of a lease it has completed.
Final(l) == mapper[l.task].state = "completed" /\ mapper[l.task].fence = l.fence

\* Completion reaches the MapperStore before the journal.
CompletionInv ==
    /\ \A w \in Workers : pc[w] = "completed" => Final(lease[w])
    /\ RecordedCompletionIsFinal

WorkerInv ==
    /\ TypeOK
    /\ LeaseInv
    /\ FenceInv
    /\ FlagsInv
    /\ CancelHitsItsTarget
    /\ CompletionInv

\* A heartbeat's answer leaves the flags Boolean.
LEMMA FlagType ==
    ASSUME NEW f \in [Workers -> BOOLEAN], NEW w \in Workers, NEW b \in BOOLEAN
    PROVE  [f EXCEPT ![w] = b] \in [Workers -> BOOLEAN]
OBVIOUS

\* The initial states.
LEMMA WorkerInit == Init => WorkerInv
<1> SUFFICES ASSUME Init PROVE WorkerInv
  OBVIOUS
<1> USE QueueAssumption DEF Init, QueueInit
<1>1. TypeOK
  BY DEF TypeOK, QueueTypeOK, PCs, HBs, TaskView
<1>2. Known = {}
  BY DEF Known, Holding
<1>3. LeaseInv /\ FenceInv /\ FlagsInv
  BY <1>2 DEF LeaseInv, FenceInv, FlagsInv
<1>4. CancelHitsItsTarget /\ CompletionInv
  BY DEF CancelHitsItsTarget, CompletionInv, RecordedCompletionIsFinal
<1> QED
  BY <1>1, <1>3, <1>4 DEF WorkerInv

\* reclaim_expired keeps the MapperStore's types and touches running tasks only.
LEMMA ReclaimKeeps ==
    ASSUME QueueTypeOK
    PROVE  /\ ReclaimExpired \in [Tasks -> TaskView]
           /\ \A t \in Tasks : ReclaimExpired[t].fence = mapper[t].fence
           /\ \A t \in Tasks : mapper[t].state = "completed" => ReclaimExpired[t] = mapper[t]
BY DEF QueueTypeOK, TaskView, ReclaimExpired

\* The lease claim_task grants.
LEMMA NewLeaseType ==
    ASSUME QueueTypeOK, NEW t \in Tasks, NEW k \in Keys, fences < MaxFence
    PROVE  NewLease(t, k) \in Lease
BY QueueAssumption DEF QueueTypeOK, NewLease, Lease, Fences

\* The MapperStore after a heartbeat, a release or a completion.
LEMMA MapperTypes ==
    ASSUME QueueTypeOK, NEW t \in Tasks, NEW until \in Nat,
           NEW state \in {"queued", "running", "completed"}
    PROVE  /\ [mapper EXCEPT ![t].until = until] \in [Tasks -> TaskView]
           /\ [mapper EXCEPT ![t].state = state] \in [Tasks -> TaskView]
<1>1. mapper[t] \in TaskView
  BY DEF QueueTypeOK
<1>2. /\ [mapper[t] EXCEPT !.until = until] \in TaskView
      /\ [mapper[t] EXCEPT !.state = state] \in TaskView
  BY <1>1 DEF TaskView
<1> QED
  BY <1>2 DEF QueueTypeOK

\* The leases the journal mentions.
LEMMA JournalLeases == ASSUME QueueTypeOK PROVE \A i \in DOMAIN journal : journal[i].lease \in Lease
<1>1. \A i \in DOMAIN journal : journal[i] \in Event
  BY DEF QueueTypeOK
<1> QED
  BY <1>1 DEF Event

\* Every step keeps the MapperStore, the journal and the clock well typed.
LEMMA QueueTypeStep == TypeOK /\ LeaseInv /\ [Next]_vars => QueueTypeOK'
<1> SUFFICES ASSUME TypeOK, LeaseInv, [Next]_vars PROVE QueueTypeOK'
  OBVIOUS
<1> USE QueueAssumption DEF TypeOK, QueueTypeOK, LeaseInv
<1>1. ASSUME NEW kind \in {"claimed", "cancel_requested", "released", "completed"},
             NEW l \in Lease, Emit(kind, l)
      PROVE  journal' \in Seq(Event)
  BY <1>1 DEF Emit, Event
<1>2. ASSUME NEW w \in Workers, ClaimTask(w) PROVE QueueTypeOK'
  <2>1. CASE Claimable(lease[w].task) /\ MapperClaim(NewLease(lease[w].task, lease[w].key))
    <3>1. lease[w].task \in Tasks /\ lease[w].key \in Keys /\ fences < MaxFence
      BY <1>2, <2>1 DEF ClaimTask, Claimable, Lease
    <3>2. NewLease(lease[w].task, lease[w].key) \in Lease
      BY <3>1, NewLeaseType
    <3>3. mapper' \in [Tasks -> TaskView] /\ fences' \in 0 .. MaxFence
      BY <2>1, <3>2, ReclaimKeeps DEF MapperClaim, Lease, Fences, TaskView
    <3> QED
      BY <1>2, <3>3 DEF ClaimTask
  <2>2. CASE MapperRefuse
    BY <1>2, <2>2, ReclaimKeeps DEF ClaimTask, MapperRefuse
  <2> QED
    BY <1>2, <2>1, <2>2 DEF ClaimTask
<1>3. ASSUME NEW w \in Workers, Heartbeat(w) PROVE QueueTypeOK'
  <2>1. lease[w].task \in Tasks
    BY <1>3 DEF Heartbeat, Lease
  <2>2. mapper' \in [Tasks -> TaskView]
    <3>1. now + TTL \in Nat
      OBVIOUS
    <3>2. CASE MapperExtend(lease[w])
      BY <2>1, <3>1, <3>2, MapperTypes DEF MapperExtend
    <3> QED
      BY <1>3, <3>2 DEF Heartbeat
  <2> QED
    BY <1>3, <2>2 DEF Heartbeat
<1>4. ASSUME NEW w \in Workers, EndLease(w) PROVE QueueTypeOK'
  <2>1. lease[w].task \in Tasks
    BY <1>4 DEF EndLease, Lease
  <2>2. mapper' \in [Tasks -> TaskView]
    <3>1. ASSUME NEW state \in {"queued", "completed"}, MapperEnd(lease[w], state)
          PROVE  mapper' \in [Tasks -> TaskView]
      BY <2>1, <3>1, MapperTypes, 0 \in Nat DEF MapperEnd
    <3> QED
      BY <1>4, <3>1 DEF EndLease
  <2> QED
    BY <1>4, <2>2 DEF EndLease
<1>5. ASSUME NEW w \in Workers, EmitClaimed(w) \/ EmitOutcome(w) PROVE QueueTypeOK'
  BY <1>1, <1>5 DEF EmitClaimed, EmitOutcome
<1>6. CASE EmitCancel
  BY <1>1, <1>6 DEF EmitCancel
<1>7. CASE Tick
  BY <1>7 DEF Tick
<1>8. CASE UNCHANGED queueVars
  BY <1>8 DEF queueVars
<1> QED
  BY <1>2, <1>3, <1>4, <1>5, <1>6, <1>7, <1>8
     DEF Next, Step, MainThread, HeartbeatThread, Look, WorkReturns, HeartbeatUnavailable,
         HeartbeatBreaks, HeartbeatAnswer, ReadFlags, CheckCancelled, Crash, RequestCancel, vars

\* Every step keeps the workers well typed, under leases of their own keys.
LEMMA WorkerTypeStep == TypeOK /\ LeaseInv /\ [Next]_vars => TypeOK' /\ LeaseInv'
<1> SUFFICES ASSUME TypeOK, LeaseInv, [Next]_vars PROVE TypeOK' /\ LeaseInv'
  OBVIOUS
<1>0. QueueTypeOK /\ QueueTypeOK'
  BY QueueTypeStep DEF TypeOK
<1> USE <1>0 DEF TypeOK, LeaseInv
<1>1. ASSUME NEW w \in Workers, BackToIdle(w), UNCHANGED request PROVE TypeOK' /\ LeaseInv'
  BY <1>1 DEF BackToIdle, PCs, HBs
<1>2. ASSUME NEW w \in Workers, NEW p \in PCs, pc[w] # "idle", Goto(w, p), UNCHANGED request
      PROVE  TypeOK' /\ LeaseInv'
  BY <1>2 DEF Goto, PCs, HBs
<1>3. ASSUME NEW w \in Workers, NEW l \in Lease, l.key \in KeysOf[w], StartWork(w, l),
             UNCHANGED request
      PROVE  TypeOK' /\ LeaseInv'
  BY <1>3 DEF StartWork, PCs, HBs
<1>4. ASSUME NEW w \in Workers, NEW t \in Tasks, NEW k \in KeysOf[w], Look(w, t, k)
      PROVE  TypeOK' /\ LeaseInv'
  <2> DEFINE found == ActiveIdempotentClaim(t, k)
  <2>1. CASE found # None /\ StartWork(w, found)
    <3>1. found \in Lease /\ found.key = k
      BY <2>1, ActiveClaimIsRecorded, JournalLeases
    <3> QED
      BY <1>3, <1>4, <2>1, <3>1 DEF Look
  <2>2. CASE found = None
    <3>1. 1 \in Fences /\ k \in Keys
      <4>1. fences < MaxFence
        BY <1>4, <2>2 DEF Look
      <4>2. 1 \in Fences
        BY <4>1, QueueAssumption DEF Fences, QueueTypeOK
      <4> QED
        BY <4>2, WorkerAssumption
    <3>2. [task |-> t, key |-> k, fence |-> 1, until |-> 0] \in Lease
      BY <3>1 DEF Lease
    <3> QED
      BY <1>4, <2>2, <3>2 DEF Look, PCs
  <2> QED
    BY <1>4, <2>1, <2>2 DEF Look
<1>5. ASSUME NEW w \in Workers, ClaimTask(w) PROVE TypeOK' /\ LeaseInv'
  <2> DEFINE l == NewLease(lease[w].task, lease[w].key)
  <2>1. CASE Claimable(lease[w].task) /\ lease' = [lease EXCEPT ![w] = l]
             /\ pc' = [pc EXCEPT ![w] = "claimed"] /\ UNCHANGED <<hb, cancelled, lost>>
    <3>1. lease[w].task \in Tasks /\ lease[w].key \in Keys /\ lease[w].key \in KeysOf[w]
      BY <1>5 DEF ClaimTask, Lease
    <3>2. l \in Lease /\ l.key = lease[w].key
      BY <2>1, <3>1, NewLeaseType DEF Claimable, NewLease
    <3> QED
      BY <1>5, <2>1, <3>1, <3>2 DEF ClaimTask, PCs
  <2>2. CASE BackToIdle(w)
    BY <1>1, <1>5, <2>2 DEF ClaimTask
  <2> QED
    BY <1>5, <2>1, <2>2 DEF ClaimTask
<1>6. ASSUME NEW w \in Workers, EmitClaimed(w) PROVE TypeOK' /\ LeaseInv'
  BY <1>3, <1>6 DEF EmitClaimed
<1>7. ASSUME NEW w \in Workers, WorkReturns(w) \/ ReadFlags(w) \/ CheckCancelled(w)
      PROVE  TypeOK' /\ LeaseInv'
  BY <1>1, <1>2, <1>7 DEF WorkReturns, ReadFlags, CheckCancelled, PCs
<1>8. ASSUME NEW w \in Workers, EndLease(w) PROVE TypeOK' /\ LeaseInv'
  BY <1>1, <1>2, <1>8 DEF EndLease, PCs
<1>9. ASSUME NEW w \in Workers, EmitOutcome(w) \/ Crash(w) PROVE TypeOK' /\ LeaseInv'
  BY <1>1, <1>9 DEF EmitOutcome, Crash
<1>10. ASSUME NEW w \in Workers, Heartbeat(w) \/ HeartbeatUnavailable(w) \/ HeartbeatBreaks(w)
       PROVE  TypeOK' /\ LeaseInv'
  BY <1>10 DEF Heartbeat, HeartbeatUnavailable, HeartbeatBreaks, HBs
<1>11. ASSUME NEW w \in Workers, HeartbeatAnswer(w) PROVE TypeOK' /\ LeaseInv'
  <2>1. cancelled' \in [Workers -> BOOLEAN]
    BY <1>11, FlagType DEF HeartbeatAnswer
  <2> QED
    BY <1>11, <2>1 DEF HeartbeatAnswer, HBs
<1>12. ASSUME NEW t \in Tasks, RequestCancel(t) PROVE TypeOK' /\ LeaseInv'
  <2>1. request' \in Lease
    BY <1>12, CurrentLeaseIsRecorded, JournalLeases DEF RequestCancel
  <2> QED
    BY <1>12, <2>1 DEF RequestCancel, workerVars
<1>13. CASE EmitCancel \/ Tick \/ UNCHANGED vars
  BY <1>13 DEF EmitCancel, Tick, vars, workerVars
<1> QED
  BY <1>4, <1>5, <1>6, <1>7, <1>8, <1>9, <1>10, <1>11, <1>12, <1>13
     DEF Next, Step, MainThread, HeartbeatThread

\* Every step leaves no flag behind: a worker between tasks has no heartbeat
\* thread and no cancellation.
LEMMA FlagsStep == TypeOK /\ FlagsInv /\ [Next]_vars => FlagsInv'
<1> SUFFICES ASSUME TypeOK, FlagsInv, [Next]_vars PROVE FlagsInv'
  OBVIOUS
<1> USE DEF TypeOK, FlagsInv
<1>1. ASSUME NEW w \in Workers, BackToIdle(w) PROVE FlagsInv'
  BY <1>1 DEF BackToIdle
<1>2. ASSUME NEW w \in Workers, NEW p \in PCs \ {"idle", "looked", "claimed"}, Goto(w, p)
      PROVE  FlagsInv'
  BY <1>2 DEF Goto
<1>3. ASSUME NEW w \in Workers, NEW l, StartWork(w, l) PROVE FlagsInv'
  BY <1>3 DEF StartWork
<1>4. ASSUME NEW w \in Workers, NEW t \in Tasks, NEW k \in KeysOf[w], Look(w, t, k)
      PROVE  FlagsInv'
  BY <1>3, <1>4 DEF Look
<1>5. ASSUME NEW w \in Workers, ClaimTask(w) PROVE FlagsInv'
  BY <1>1, <1>5 DEF ClaimTask
<1>6. ASSUME NEW w \in Workers, EmitClaimed(w) PROVE FlagsInv'
  BY <1>3, <1>6 DEF EmitClaimed
<1>7. ASSUME NEW w \in Workers, WorkReturns(w) \/ ReadFlags(w) \/ CheckCancelled(w)
      PROVE  FlagsInv'
  BY <1>1, <1>2, <1>7 DEF WorkReturns, ReadFlags, CheckCancelled, PCs
<1>8. ASSUME NEW w \in Workers, EndLease(w) PROVE FlagsInv'
  BY <1>1, <1>2, <1>8 DEF EndLease, PCs
<1>9. ASSUME NEW w \in Workers, EmitOutcome(w) \/ Crash(w) PROVE FlagsInv'
  BY <1>1, <1>9 DEF EmitOutcome, Crash
<1>10. ASSUME NEW w \in Workers,
              Heartbeat(w) \/ HeartbeatUnavailable(w) \/ HeartbeatBreaks(w) \/ HeartbeatAnswer(w)
       PROVE  FlagsInv'
  BY <1>10 DEF Heartbeat, HeartbeatUnavailable, HeartbeatBreaks, HeartbeatAnswer
<1>11. CASE UNCHANGED workerVars
  BY <1>11 DEF workerVars
<1> QED
  BY <1>4, <1>5, <1>6, <1>7, <1>8, <1>9, <1>10, <1>11
     DEF Next, Step, MainThread, HeartbeatThread, RequestCancel, EmitCancel, Tick, vars

\* Appending an event makes no lease known but the event's.
LEMMA EmitLeases ==
    ASSUME QueueTypeOK, NEW kind, NEW l, Emit(kind, l), NEW i \in DOMAIN journal'
    PROVE  \/ journal'[i] = [kind |-> kind, lease |-> l]
           \/ i \in DOMAIN journal /\ journal'[i] = journal[i]
BY DEF QueueTypeOK, Emit

\* A step makes no new lease known, but for the one that claim_task grants under
\* a fence no lease had before.
LEMMA KnownStep ==
    ASSUME TypeOK, LeaseInv, [Next]_vars
    PROVE  \/ Known' \subseteq Known /\ fences' = fences
           \/ \E l \in Lease : /\ l.fence = fences + 1 /\ fences' = fences + 1
                               /\ Known' \subseteq Known \cup {l}
<1> DEFINE Quiet == Known' \subseteq Known /\ fences' = fences
<1> USE DEF TypeOK
<1>1. ASSUME NEW w \in Workers, BackToIdle(w), UNCHANGED <<fences, journal, request>> PROVE Quiet
  BY <1>1 DEF BackToIdle, Known, Holding
<1>2. ASSUME NEW w \in Workers, NEW p, w \in Holding, Goto(w, p),
             UNCHANGED <<fences, journal, request>>
      PROVE  Quiet
  BY <1>2 DEF Goto, Known, Holding
<1>3. ASSUME NEW w \in Workers, NEW t \in Tasks, NEW k \in KeysOf[w], Look(w, t, k) PROVE Quiet
  <2> DEFINE found == ActiveIdempotentClaim(t, k)
  <2>0. UNCHANGED <<fences, journal, request>>
    BY <1>3 DEF Look, queueVars
  <2>1. CASE found # None /\ StartWork(w, found)
    <3>1. found \in Known
      BY <2>1, ActiveClaimIsRecorded DEF Known
    <3>2. \A v \in Holding' : lease'[v] \in Known
      BY <2>1, <3>1 DEF StartWork, Holding, Known
    <3> QED
      BY <2>0, <3>2 DEF Known
  <2>2. CASE found = None
    <3>1. Holding' \subseteq Holding /\ \A v \in Holding' : lease'[v] = lease[v]
      BY <1>3, <2>2 DEF Look, Holding
    <3> QED
      BY <2>0, <3>1 DEF Known
  <2> QED
    BY <1>3, <2>1, <2>2 DEF Look
<1>4. ASSUME NEW w \in Workers, ClaimTask(w)
      PROVE  Quiet \/ \E l \in Lease : /\ l.fence = fences + 1 /\ fences' = fences + 1
                                       /\ Known' \subseteq Known \cup {l}
  <2> DEFINE l == NewLease(lease[w].task, lease[w].key)
  <2>1. CASE Claimable(lease[w].task) /\ MapperClaim(l) /\ lease' = [lease EXCEPT ![w] = l]
             /\ pc' = [pc EXCEPT ![w] = "claimed"] /\ UNCHANGED <<journal, request>>
    <3>1. lease[w].task \in Tasks /\ lease[w].key \in Keys
      BY <1>4 DEF ClaimTask, Lease, LeaseInv
    <3>2. l \in Lease /\ l.fence = fences + 1 /\ fences' = fences + 1
      BY <2>1, <3>1, NewLeaseType DEF Claimable, MapperClaim, NewLease
    <3>3. Known' \subseteq Known \cup {l}
      BY <2>1 DEF Known, Holding
    <3> QED
      BY <3>2, <3>3
  <2>2. CASE BackToIdle(w) /\ MapperRefuse
    BY <1>1, <1>4, <2>2 DEF ClaimTask, MapperRefuse
  <2> QED
    BY <1>4, <2>1, <2>2 DEF ClaimTask
<1>5. ASSUME NEW w \in Holding, NEW kind, Emit(kind, lease[w]), UNCHANGED <<fences, request>>,
             Holding' \subseteq Holding, \A v \in Holding' : lease'[v] = lease[v]
      PROVE  Quiet
  <2>1. \A i \in DOMAIN journal' : journal'[i].lease \in Known
    BY <1>5, EmitLeases DEF Known
  <2> QED
    BY <1>5, <2>1 DEF Known
<1>6. ASSUME NEW w \in Workers, EmitClaimed(w) \/ EmitOutcome(w) PROVE Quiet
  <2>1. w \in Holding /\ Holding' \subseteq Holding /\ \A v \in Holding' : lease'[v] = lease[v]
    BY <1>6 DEF EmitClaimed, EmitOutcome, StartWork, BackToIdle, Holding
  <2> QED
    BY <1>5, <1>6, <2>1 DEF EmitClaimed, EmitOutcome
<1>7. ASSUME NEW w \in Workers,
             WorkReturns(w) \/ ReadFlags(w) \/ CheckCancelled(w) \/ EndLease(w) \/ Crash(w)
      PROVE  Quiet
  BY <1>1, <1>2, <1>7
     DEF WorkReturns, ReadFlags, CheckCancelled, EndLease, Crash, Holding, queueVars
<1>8. ASSUME NEW w \in Workers,
             Heartbeat(w) \/ HeartbeatUnavailable(w) \/ HeartbeatBreaks(w) \/ HeartbeatAnswer(w)
      PROVE  Quiet
  BY <1>8 DEF Heartbeat, HeartbeatUnavailable, HeartbeatBreaks, HeartbeatAnswer, queueVars,
              Known, Holding
<1>9. ASSUME NEW t \in Tasks, RequestCancel(t) PROVE Quiet
  <2>1. request' \in Known
    BY <1>9, CurrentLeaseIsRecorded DEF RequestCancel, Known
  <2> QED
    BY <1>9, <2>1 DEF RequestCancel, queueVars, workerVars, Known, Holding
<1>10. CASE EmitCancel
  <2>1. request \in Known
    BY <1>10 DEF EmitCancel, Known
  <2>2. \A i \in DOMAIN journal' : journal'[i].lease \in Known
    BY <1>10, <2>1, EmitLeases DEF EmitCancel, Known
  <2> QED
    BY <1>10, <2>2 DEF EmitCancel, workerVars, Known, Holding
<1>11. CASE Tick \/ UNCHANGED vars
  BY <1>11 DEF Tick, vars, queueVars, workerVars, Known, Holding
<1> QED
  BY <1>3, <1>4, <1>6, <1>7, <1>8, <1>9, <1>10, <1>11 DEF Next, Step, MainThread, HeartbeatThread

\* Every step keeps fences unique.
LEMMA FenceStep == TypeOK /\ LeaseInv /\ FenceInv /\ [Next]_vars => FenceInv'
<1> SUFFICES ASSUME TypeOK, LeaseInv, FenceInv, [Next]_vars PROVE FenceInv'
  OBVIOUS
<1>1. fences \in Nat /\ \A l \in Lease : l.fence \in Nat
  BY DEF TypeOK, QueueTypeOK, Lease, Fences
<1>2. CASE Known' \subseteq Known /\ fences' = fences
  BY <1>2 DEF FenceInv
<1>3. ASSUME NEW l \in Lease, l.fence = fences + 1, fences' = fences + 1,
             Known' \subseteq Known \cup {l}
      PROVE  FenceInv'
  <2>1. \A m \in Known' : m \in Lease /\ m.fence <= fences + 1 /\ (m # l => m.fence <= fences)
    BY <1>1, <1>3 DEF FenceInv
  <2>2. \A m, n \in Known' : m.fence = n.fence => m = n
    <3> SUFFICES ASSUME NEW m \in Known', NEW n \in Known', m.fence = n.fence PROVE m = n
      OBVIOUS
    <3>1. m = l <=> n = l
      BY <1>1, <1>3, <2>1
    <3> QED
      BY <1>3, <3>1 DEF FenceInv
  <2> QED
    BY <1>3, <2>1, <2>2 DEF FenceInv
<1> QED
  BY <1>2, <1>3, KnownStep

\* The journal is append-only.
LEMMA JournalGrows ==
    ASSUME QueueTypeOK, [Next]_vars
    PROVE  \A i \in DOMAIN journal : i \in DOMAIN journal' /\ journal'[i] = journal[i]
<1>1. ASSUME NEW kind, NEW l, Emit(kind, l)
      PROVE  \A i \in DOMAIN journal : i \in DOMAIN journal' /\ journal'[i] = journal[i]
  BY <1>1 DEF QueueTypeOK, Emit
<1>2. UNCHANGED journal \/ \E kind, l : Emit(kind, l)
  BY DEF Next, Step, MainThread, HeartbeatThread, Look, ClaimTask, EmitClaimed, WorkReturns,
         Heartbeat, HeartbeatUnavailable, HeartbeatBreaks, HeartbeatAnswer, ReadFlags,
         CheckCancelled, EndLease, EmitOutcome, Crash, RequestCancel, EmitCancel, Tick,
         queueVars, vars
<1> QED
  BY <1>1, <1>2

\* A worker is cancelled under the lease it has, by what the journal says of it.
LEMMA CancelSource ==
    ASSUME TypeOK, FlagsInv, [Next]_vars, NEW v \in Workers, cancelled'[v]
    PROVE  lease'[v] = lease[v] /\ (cancelled[v] \/ CancelledFor(lease[v]))
<1> USE DEF TypeOK, FlagsInv
<1> DEFINE Source == lease'[v] = lease[v] /\ (cancelled[v] \/ CancelledFor(lease[v]))
<1>1. ASSUME NEW w \in Workers, BackToIdle(w) PROVE Source
  BY <1>1 DEF BackToIdle
<1>2. ASSUME NEW w \in Workers, NEW p, Goto(w, p) PROVE Source
  BY <1>2 DEF Goto
<1>3. ASSUME NEW w \in Workers, NEW l, StartWork(w, l), pc[w] \in {"idle", "claimed"} PROVE Source
  BY <1>3 DEF StartWork
<1>4. ASSUME NEW w \in Workers, NEW t \in Tasks, NEW k \in KeysOf[w], Look(w, t, k) PROVE Source
  BY <1>3, <1>4 DEF Look
<1>5. ASSUME NEW w \in Workers, ClaimTask(w) PROVE Source
  BY <1>1, <1>5 DEF ClaimTask
<1>6. ASSUME NEW w \in Workers, EmitClaimed(w) PROVE Source
  BY <1>3, <1>6 DEF EmitClaimed
<1>7. ASSUME NEW w \in Workers, WorkReturns(w) \/ ReadFlags(w) \/ CheckCancelled(w) \/ EndLease(w)
                                \/ EmitOutcome(w) \/ Crash(w)
      PROVE  Source
  BY <1>1, <1>2, <1>7 DEF WorkReturns, ReadFlags, CheckCancelled, EndLease, EmitOutcome, Crash
<1>8. ASSUME NEW w \in Workers, Heartbeat(w) \/ HeartbeatUnavailable(w) \/ HeartbeatBreaks(w)
      PROVE  Source
  BY <1>8 DEF Heartbeat, HeartbeatUnavailable, HeartbeatBreaks
<1>9. ASSUME NEW w \in Workers, HeartbeatAnswer(w) PROVE Source
  BY <1>9 DEF HeartbeatAnswer
<1>10. CASE UNCHANGED workerVars
  BY <1>10 DEF workerVars
<1> QED
  BY <1>4, <1>5, <1>6, <1>7, <1>8, <1>9, <1>10
     DEF Next, Step, MainThread, HeartbeatThread, RequestCancel, EmitCancel, Tick, vars

\* Every step keeps cancellations with the lease they were asked for.
LEMMA CancelStep == TypeOK /\ FlagsInv /\ CancelHitsItsTarget /\ [Next]_vars => CancelHitsItsTarget'
<1> SUFFICES ASSUME TypeOK, FlagsInv, CancelHitsItsTarget, [Next]_vars,
                    NEW v \in Workers, cancelled'[v]
             PROVE  \E i \in Cancels' : journal'[i].lease.fence = lease'[v].fence
  BY DEF CancelHitsItsTarget
<1>1. lease'[v] = lease[v] /\ (cancelled[v] \/ CancelledFor(lease[v]))
  BY CancelSource
<1>2. PICK i \in Cancels : journal[i].lease.fence = lease[v].fence
  BY <1>1, CancelledForIsRecorded DEF CancelHitsItsTarget, TypeOK
<1>3. i \in Cancels' /\ journal'[i] = journal[i]
  BY JournalGrows DEF Cancels, TypeOK
<1> QED
  BY <1>1, <1>2, <1>3

\* The MapperStore never takes a completion back.
LEMMA CompletedForGood ==
    ASSUME TypeOK, LeaseInv, [Next]_vars, NEW t \in Tasks, mapper[t].state = "completed"
    PROVE  mapper'[t] = mapper[t]
<1> USE DEF TypeOK, QueueTypeOK
<1>1. ASSUME NEW w \in Workers, ClaimTask(w) PROVE mapper'[t] = mapper[t]
  <2> DEFINE l == NewLease(lease[w].task, lease[w].key)
  <2>1. CASE Claimable(lease[w].task) /\ MapperClaim(l)
    <3>1. lease[w].task # t
      BY <2>1, ReclaimKeeps DEF Claimable
    <3> QED
      BY <2>1, <3>1, ReclaimKeeps DEF MapperClaim, NewLease
  <2>2. CASE MapperRefuse
    BY <2>2, ReclaimKeeps DEF MapperRefuse
  <2> QED
    BY <1>1, <2>1, <2>2 DEF ClaimTask
<1>2. ASSUME NEW w \in Workers, Heartbeat(w) PROVE mapper'[t] = mapper[t]
  BY <1>2 DEF Heartbeat, Honoured, MapperExtend
<1>3. ASSUME NEW w \in Workers, EndLease(w) PROVE mapper'[t] = mapper[t]
  BY <1>3 DEF EndLease, Honoured, MapperEnd
<1>4. CASE UNCHANGED mapper
  BY <1>4
<1> QED
  BY <1>1, <1>2, <1>3, <1>4
     DEF Next, Step, MainThread, HeartbeatThread, Look, EmitClaimed, WorkReturns,
         HeartbeatUnavailable, HeartbeatBreaks, HeartbeatAnswer, ReadFlags, CheckCancelled,
         EmitOutcome, Crash, RequestCancel, EmitCancel, Tick, queueVars, vars

\* A worker is past the completion only if the MapperStore accepted it.
LEMMA CompletedWorker ==
    ASSUME TypeOK, LeaseInv, CompletionInv, [Next]_vars, NEW v \in Workers, pc'[v] = "completed"
    PROVE  Final(lease[v])' /\ lease'[v] = lease[v]
<1> USE DEF TypeOK
<1>1. CASE pc[v] = "completed" /\ lease'[v] = lease[v]
  <2>1. lease[v].task \in Tasks /\ Final(lease[v])
    BY <1>1 DEF LeaseInv, Lease, CompletionInv
  <2> QED
    BY <1>1, <2>1, CompletedForGood DEF Final
<1>2. CASE EndLease(v)
  <2>1. lease[v].task \in Tasks /\ Honoured(lease[v])
        /\ MapperEnd(lease[v], "completed") /\ UNCHANGED lease
    BY <1>2 DEF EndLease, LeaseInv, Lease, Goto, BackToIdle
  <2> QED
    BY <2>1 DEF Honoured, MapperEnd, Final, QueueTypeOK, TaskView
<1>3. ASSUME NEW w \in Workers, w # v, Step(w) PROVE pc[v] = "completed" /\ lease'[v] = lease[v]
  BY <1>3 DEF Step, MainThread, HeartbeatThread, Look, ClaimTask, EmitClaimed, WorkReturns,
         Heartbeat, HeartbeatUnavailable, HeartbeatBreaks, HeartbeatAnswer, ReadFlags,
         CheckCancelled, EndLease, EmitOutcome, Crash, StartWork, BackToIdle, Goto
<1>4. CASE Step(v) /\ ~EndLease(v)
  BY <1>1, <1>4 DEF Step, MainThread, HeartbeatThread, Look, ClaimTask, EmitClaimed, WorkReturns,
         Heartbeat, HeartbeatUnavailable, HeartbeatBreaks, HeartbeatAnswer, ReadFlags,
         CheckCancelled, EmitOutcome, Crash, StartWork, BackToIdle, Goto
<1>5. CASE UNCHANGED workerVars
  BY <1>1, <1>5 DEF workerVars
<1> QED
  BY <1>1, <1>2, <1>3, <1>4, <1>5 DEF Next, RequestCancel, EmitCancel, Tick, vars

\* Every step keeps the recorded completions true.
LEMMA CompletionStep == TypeOK /\ LeaseInv /\ CompletionInv /\ [Next]_vars => CompletionInv'
<1> SUFFICES ASSUME TypeOK, LeaseInv, CompletionInv, [Next]_vars PROVE CompletionInv'
  OBVIOUS
<1>1. \A v \in Workers : pc'[v] = "completed" => Final(lease[v])'
  BY CompletedWorker
<1>2. ASSUME NEW l \in Lease, Final(l) PROVE Final(l)'
  <2>1. l.task \in Tasks
    BY DEF Lease
  <2> QED
    BY <1>2, <2>1, CompletedForGood DEF Final
<1>3. ASSUME NEW i \in DOMAIN journal', journal'[i].kind = "completed"
      PROVE  Final(journal[i].lease)'
  <2>1. CASE i \in DOMAIN journal /\ journal'[i] = journal[i]
    BY <1>2, <1>3, <2>1, JournalLeases DEF CompletionInv, RecordedCompletionIsFinal, Final, TypeOK
  <2>2. ASSUME NEW w \in Workers, EmitOutcome(w) PROVE Final(journal[i].lease)'
    <3>1. CASE journal'[i] = [kind |-> pc[w], lease |-> lease[w]]
      <4>1. pc[w] = "completed" /\ journal'[i].lease = lease[w]
        BY <1>3, <3>1
      <4>2. lease[w] \in Lease /\ Final(lease[w])
        BY <4>1 DEF LeaseInv, CompletionInv
      <4> QED
        BY <1>2, <4>1, <4>2 DEF Final
    <3> QED
      BY <2>1, <2>2, <3>1, EmitLeases DEF EmitOutcome, TypeOK
  <2>3. ASSUME NEW kind, NEW l, Emit(kind, l), kind # "completed" PROVE Final(journal[i].lease)'
    BY <1>3, <2>1, <2>3, EmitLeases DEF TypeOK
  <2>4. CASE \E w \in Workers : EmitClaimed(w)
    BY <2>3, <2>4 DEF EmitClaimed
  <2>5. CASE EmitCancel
    BY <2>3, <2>5 DEF EmitCancel
  <2>6. CASE UNCHANGED journal
    BY <2>1, <2>6
  <2> QED
    BY <2>2, <2>4, <2>5, <2>6
       DEF Next, Step, MainThread, HeartbeatThread, Look, ClaimTask, WorkReturns,
           Heartbeat, HeartbeatUnavailable, HeartbeatBreaks, HeartbeatAnswer, ReadFlags,
           CheckCancelled, EndLease, Crash, RequestCancel, Tick, queueVars, vars
<1> QED
  BY <1>1, <1>3 DEF CompletionInv, RecordedCompletionIsFinal, Final

-----------------------------------------------------------------------------
\* The invariant of the workers and their queue, with crashes and restarts of
\* every process in every place.
THEOREM WorkerSafe == Spec => []WorkerInv
<1>1. WorkerInv /\ [Next]_vars => WorkerInv'
  BY WorkerTypeStep, FenceStep, FlagsStep, CancelStep, CompletionStep DEF WorkerInv
<1> QED
  BY <1>1, WorkerInit, PTL DEF Spec

\* Two workers never work under one fencing token, whatever claims were retried
\* under an old idempotency key (claim and run_task).
THEOREM FencesExclude == Spec => []OneWorkerPerFence
<1>1. WorkerInv => OneWorkerPerFence
  <2> SUFFICES ASSUME WorkerInv, NEW v \in Workers, NEW w \in Workers, Working(v), Working(w),
                      lease[v].fence = lease[w].fence
               PROVE  v = w
    BY DEF OneWorkerPerFence
  <2>1. lease[v] = lease[w]
    BY DEF WorkerInv, FenceInv, Known, Holding, Working
  <2>2. lease[v].key \in KeysOf[v] \cap KeysOf[w]
    BY <2>1 DEF WorkerInv, LeaseInv, Working
  <2> QED
    BY <2>2, WorkerAssumption
<1> QED
  BY <1>1, WorkerSafe, PTL

\* A worker sees itself cancelled only if a request named its fence
\* (heartbeat's answer over _cancelled_for).
THEOREM CancelsAreScoped == Spec => []CancelHitsItsTarget
<1>1. WorkerInv => CancelHitsItsTarget
  BY DEF WorkerInv
<1> QED
  BY <1>1, WorkerSafe, PTL

\* A completion in the journal is one the MapperStore keeps for good, under the
\* last fence of the task (complete, and its event after it).
THEOREM CompletionsAreFinal == Spec => []RecordedCompletionIsFinal
<1>1. WorkerInv => RecordedCompletionIsFinal
  BY DEF WorkerInv, CompletionInv
<1> QED
  BY <1>1, WorkerSafe, PTL
=============================================================================
