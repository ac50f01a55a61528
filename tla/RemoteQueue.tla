----------------------------- MODULE RemoteQueue -----------------------------
(***************************************************************************)
(* simplicio_loop/remote_queue.py, class SQLiteRemoteQueue over            *)
(* mapper_remote_queue.py: the queue remote workers lease tasks from.      *)
(*                                                                         *)
(* Two stores.  The MapperStore (external) owns task state, leases and     *)
(* fences; the queue's own event journal tells claims, cancellations and   *)
(* outcomes.  Every operation changes the MapperStore first and appends    *)
(* its event afterwards, so the caller may die in between and the journal  *)
(* then lags behind.  Heartbeat and enqueue events are left out of the     *)
(* journal: none of the readers below looks at them.                       *)
(***************************************************************************)
EXTENDS Naturals, SequencesExt

CONSTANTS
    Tasks,
    Keys,      \* idempotency keys
    None,      \* no lease
    TTL,       \* lease seconds
    MaxClock,  \* bound: largest clock value
    MaxFence   \* bound: leases the MapperStore grants

ASSUME QueueAssumption ==
    /\ TTL \in Nat \ {0}
    /\ MaxClock \in Nat
    /\ MaxFence \in Nat

VARIABLES
    mapper,   \* MapperStore: task -> its state, current fence and lease expiry
    fences,   \* MapperStore: fencing tokens issued so far
    journal,  \* the queue's events, oldest first
    now

queueVars == <<mapper, fences, journal, now>>

Fences   == 1 .. MaxFence
Lease    == [task: Tasks, key: Keys, fence: Fences, until: Nat]
Event    == [kind: {"claimed", "cancel_requested", "released", "completed"}, lease: Lease]
TaskView == [state: {"queued", "running", "completed"}, fence: 0 .. MaxFence, until: Nat]

QueueTypeOK ==
    /\ mapper \in [Tasks -> TaskView]
    /\ fences \in 0 .. MaxFence
    /\ journal \in Seq(Event)
    /\ now \in 0 .. MaxClock

QueueInit ==
    /\ mapper = [t \in Tasks |-> [state |-> "queued", fence |-> 0, until |-> 0]]
    /\ fences = 0
    /\ journal = <<>>
    /\ now = 0

-----------------------------------------------------------------------------
(* The MapperStore, as the queue uses it: a lease is honoured while its    *)
(* fence is the task's and its time is not over (STALE_FENCE,              *)
(* LEASE_NOT_ACTIVE and LEASE_EXPIRED otherwise).                          *)
Honoured(l) ==
    /\ mapper[l.task].state = "running"
    /\ mapper[l.task].fence = l.fence
    /\ mapper[l.task].until > now

(* reclaim_expired: expired leases give their tasks back.                  *)
ReclaimExpired ==
    [t \in Tasks |->
        IF mapper[t].state = "running" /\ mapper[t].until <= now
        THEN [mapper[t] EXCEPT !.state = "queued"]
        ELSE mapper[t]]

-----------------------------------------------------------------------------
(* What the journal says.  Each reader walks it from the end.              *)
LatestOf(Test(_)) ==
    LET i == SelectLastInSeq(journal, Test) IN IF i = 0 THEN None ELSE journal[i]

OpenClaim(e) ==
    IF e # None /\ e.kind = "claimed" /\ e.lease.until > now THEN e.lease ELSE None

(* _current_lease: what request_cancel aims at.                            *)
CurrentLease(t) ==
    OpenClaim(LatestOf(LAMBDA e :
        /\ e.lease.task = t
        /\ e.kind \in {"claimed", "released", "completed"}))

\* Faulty variant: The key is not compared.
ActiveClaimOfAnyKey(t, k) == CurrentLease(t)

(* _active_idempotent_claim: the lease an earlier claim with this key got, *)
(* while the expiry it was granted with (no heartbeat moves it) lies ahead.*)
ActiveIdempotentClaim(t, k) ==
    OpenClaim(LatestOf(LAMBDA e :
        /\ e.lease.task = t
        /\ e.lease.key = k
        /\ e.kind \in {"claimed", "released", "completed"}))

\* Faulty variant: The fence is not compared.
CancelledForAnyFence(l) ==
    LET e == LatestOf(LAMBDA x : x.lease.task = l.task)
    IN e # None /\ e.kind = "cancel_requested"

(* _cancelled_for: was the lease with this fence asked to stop?            *)
CancelledFor(l) ==
    LET e == LatestOf(LAMBDA x : x.lease.task = l.task /\ x.lease.fence = l.fence)
    IN e # None /\ e.kind = "cancel_requested"

(* claim refuses a key that any event shows on another task.               *)
KeyTaken(t, k) ==
    \E i \in DOMAIN journal : journal[i].lease.key = k /\ journal[i].lease.task # t

(* _emit *)
Emit(kind, l) == journal' = Append(journal, [kind |-> kind, lease |-> l])

-----------------------------------------------------------------------------
(* claim after its look at the journal: reclaim, then claim_task.          *)
Claimable(t) == ReclaimExpired[t].state = "queued" /\ fences < MaxFence

NewLease(t, k) == [task |-> t, key |-> k, fence |-> fences + 1, until |-> now + TTL]

MapperClaim(l) ==
    /\ mapper' = [ReclaimExpired EXCEPT ![l.task] =
                     [state |-> "running", fence |-> l.fence, until |-> l.until]]
    /\ fences' = l.fence

MapperRefuse ==
    /\ mapper' = ReclaimExpired
    /\ UNCHANGED fences

(* heartbeat, release and complete of an honoured lease.                   *)
MapperExtend(l) == mapper' = [mapper EXCEPT ![l.task].until = now + TTL]

MapperEnd(l, state) == mapper' = [mapper EXCEPT ![l.task].state = state]
=============================================================================
