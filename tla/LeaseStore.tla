----------------------------- MODULE LeaseStore -----------------------------
(***************************************************************************)
(* simplicio_loop/slot_lease.py, class LeaseStore: fenced leases kept as a *)
(* journal of events that any number of processes append to.               *)
(*                                                                         *)
(* Every operation has the same shape.  It replays the journal, reads the  *)
(* clock, evaluates its guards on the projection, builds one event and     *)
(* appends it with expected_seq = the last sequence number it replayed; a  *)
(* JOURNAL_CONFLICT sends it back to the replay.  The model keeps the two  *)
(* halves apart: an operation's action (Acquire, Put, ...) is the half     *)
(* that reads and leaves a draft event, Commit the half that appends, and  *)
(* between the two other processes commit, the clock moves and the process *)
(* may die.  Replay and clock are read in one step: a journal that moved   *)
(* between them makes the append fail, so only the clock's value counts.   *)
(***************************************************************************)
EXTENDS LeaseJournal, FiniteSets

CONSTANTS
    Workers,           \* processes or threads that call the store
    TTLs,              \* the ttl_seconds arguments callers use
    MaxTries,          \* append attempts of a bounded operation (32 in the code)
    MaxSeq,            \* bound: length of the journal
    MaxClock           \* bound: largest clock value

ASSUME StoreAssumption ==
    /\ TTLs \subseteq Nat \ {0}
    /\ MaxTries \in Nat \ {0}
    /\ MaxSeq \in Nat
    /\ MaxClock \in Nat

VARIABLES
    seq,        \* the journal's last sequence number
    leases,     \* projection: the latest lease of each resource
    counters,   \* projection: the largest fence seen for each resource
    protected,  \* projection: the protected values of each resource
    now,        \* what clock() returns: a wall clock, which may be set back
    latest,     \* history: the latest time the clock has shown
    pc,         \* worker: "idle", about to replay again ("read"), or to "append"
    call,       \* worker: the operation being executed and its arguments
    draft,      \* worker: the event it will append and the expected_seq
    tries,      \* worker: appends of this call that met a conflict
    grants,     \* history: every lease acquire() committed
    holders     \* history: leases callers hold and the expiry they were told

store   == <<seq, leases, counters, protected>>
workers == <<pc, call, draft, tries>>
history == <<grants, holders>>
vars    == <<seq, leases, counters, protected, now, latest, pc, call, draft, tries,
             grants, holders>>

LoopOps == {"mark_stale", "reclaim", "invalidate_owner"}
Ops     == {"acquire", "heartbeat", "put", "release", "invalidate"} \cup LoopOps

Call ==
    [op: Ops \cup {"none"}, resource: Resources \cup {None}, owner: Owners \cup {None},
     fence: Nat, key: Keys \cup {None}, ttl: Nat]

NoCall == [op |-> "none", resource |-> None, owner |-> None, fence |-> 0, key |-> None, ttl |-> 0]

Draft ==
    [kind: EventKinds \cup {"mutation_committed", "none"}, resource: Resources \cup {None},
     lease: Lease \cup {NoLease}, key: Keys \cup {None}, expected: Nat]

NoDraft == [kind |-> "none", resource |-> None, lease |-> NoLease, key |-> None, expected |-> 0]

Grant  == [resource: Resources, fence: Nat, owner: Owners]
Holder == [resource: Resources, fence: Nat, owner: Owners, until: Nat]

(***************************************************************************)
(* The arguments of a call.  A caller presents a fence it, or a            *)
(* predecessor with the same owner identity, has been issued.              *)
(***************************************************************************)
IssuedFences(r) == 1 .. counters[r]

AcquireCalls ==
    [op: {"acquire", "reclaim"}, resource: Resources, owner: Owners,
     fence: {0}, key: {None}, ttl: TTLs]

HeartbeatCalls(r) ==
    [op: {"heartbeat"}, resource: {r}, owner: Owners, fence: IssuedFences(r), key: {None}, ttl: TTLs]

PutCalls(r) ==
    [op: {"put"}, resource: {r}, owner: Owners, fence: IssuedFences(r), key: Keys, ttl: {0}]

ReleaseCalls(r) ==
    [op: {"release"}, resource: {r}, owner: Owners, fence: IssuedFences(r), key: {None}, ttl: {0}]

InvalidateCalls ==
    [op: {"invalidate"}, resource: Resources, owner: {None}, fence: {0}, key: {None}, ttl: {0}]

InvalidateOwnerCalls ==
    [op: {"invalidate_owner"}, resource: {None}, owner: Owners, fence: {0}, key: {None}, ttl: {0}]

MarkStaleCalls ==
    [op: {"mark_stale"}, resource: {None}, owner: {None}, fence: {0}, key: {None}, ttl: {0}]

Calls ==
    AcquireCalls \cup InvalidateCalls \cup InvalidateOwnerCalls \cup MarkStaleCalls
    \cup UNION {HeartbeatCalls(r) \cup PutCalls(r) \cup ReleaseCalls(r) : r \in Resources}

-----------------------------------------------------------------------------
Init ==
    /\ seq = 0
    /\ leases = [r \in Resources |-> NoLease]
    /\ counters = [r \in Resources |-> 0]
    /\ protected = [r \in Resources |-> [k \in Keys |-> NoValue]]
    /\ now = 0
    /\ latest = 0
    /\ pc = [w \in Workers |-> "idle"]
    /\ call = [w \in Workers |-> NoCall]
    /\ draft = [w \in Workers |-> NoDraft]
    /\ tries = [w \in Workers |-> 0]
    /\ grants = {}
    /\ holders = {}

(* The call is over: it returned, raised, or its process died.             *)
Finish(w) ==
    /\ pc' = [pc EXCEPT ![w] = "idle"]
    /\ call' = [call EXCEPT ![w] = NoCall]
    /\ draft' = [draft EXCEPT ![w] = NoDraft]
    /\ tries' = [tries EXCEPT ![w] = 0]

(* What worker w may replay the journal for: a new call, whose first       *)
(* replay is its first step, or the call it is already executing.          *)
Reading(w, op) ==
    {c \in Calls : pc[w] = "idle" /\ c.op = op}
    \cup {c \in {call[w]} : pc[w] = "read" /\ c.op = op}

(* The guards passed: the event and the sequence number it must follow.    *)
Stage(w, c, kind, r, lease, key) ==
    /\ draft' = [draft EXCEPT ![w] =
                    [kind |-> kind, resource |-> r, lease |-> lease, key |-> key, expected |-> seq]]
    /\ call' = [call EXCEPT ![w] = c]
    /\ pc' = [pc EXCEPT ![w] = "append"]
    /\ UNCHANGED <<store, now, latest, tries, history>>

Raise(w) == Finish(w) /\ UNCHANGED <<store, now, latest, history>>

Acquire(w) ==
    \E c \in Reading(w, "acquire") :
        LET current == leases[c.resource] IN
        \/ IsLive(current, now) /\ Raise(w)
        \/ ~IsLive(current, now) /\
           Stage(w, c, "acquired", c.resource,
                 Granted(current, counters[c.resource], c.owner, now, c.ttl), None)

Heartbeat(w) ==
    \E c \in Reading(w, "heartbeat") :
        LET current == leases[c.resource] IN
        \/ ~RequireCurrent(current, c.owner, c.fence, now) /\ Raise(w)
        \/ RequireCurrent(current, c.owner, c.fence, now) /\
           Stage(w, c, "heartbeat", c.resource, Renewed(current, now, c.ttl), None)

(* Faulty variant of Put: the owner is taken from the call, unchecked.     *)
PutAnyOwner(w) ==
    \E c \in Reading(w, "put") :
        LET current == leases[c.resource] IN
        /\ IsLive(current, now) /\ current.fence = c.fence
        /\ Stage(w, c, "mutation_committed", c.resource, [current EXCEPT !.owner = c.owner], c.key)

Put(w) ==
    \E c \in Reading(w, "put") :
        LET current == leases[c.resource] IN
        \/ ~RequireCurrent(current, c.owner, c.fence, now) /\ Raise(w)
        \/ RequireCurrent(current, c.owner, c.fence, now) /\
           Stage(w, c, "mutation_committed", c.resource, current, c.key)

Release(w) ==
    \E c \in Reading(w, "release") :
        LET current == leases[c.resource] IN
        \/ ~RequireCurrent(current, c.owner, c.fence, now) /\ Raise(w)
        \/ RequireCurrent(current, c.owner, c.fence, now) /\
           Stage(w, c, "released", c.resource, Released(current), None)

(* The resources mark_stale still has to record; it takes one per round.   *)
Expired == {r \in Resources : HasExpired(leases[r], now)}

MarkStale(w) ==
    \E c \in Reading(w, "mark_stale") :
        \/ Expired = {} /\ Raise(w)
        \/ \E r \in Expired : Stage(w, c, "marked_stale", r, MarkedStale(leases[r]), None)

(* reclaim() is mark_stale() followed by acquire().                        *)
Reclaim(w) ==
    \E c \in Reading(w, "reclaim") :
        \/ /\ Expired = {}
           /\ call' = [call EXCEPT ![w] = [c EXCEPT !.op = "acquire"]]
           /\ pc' = [pc EXCEPT ![w] = "read"]
           /\ UNCHANGED <<store, now, latest, draft, tries, history>>
        \/ \E r \in Expired : Stage(w, c, "marked_stale", r, MarkedStale(leases[r]), None)

Invalidate(w) ==
    \E c \in Reading(w, "invalidate") :
        LET current == leases[c.resource] IN
        \/ current = NoLease /\ Raise(w)
        \/ current # NoLease /\
           Stage(w, c, "invalidated", c.resource, Invalidated(current), None)

ActiveOf(o) == {r \in Resources : leases[r].owner = o /\ leases[r].state = "active"}

InvalidateOwner(w) ==
    \E c \in Reading(w, "invalidate_owner") :
        \/ ActiveOf(c.owner) = {} /\ Raise(w)
        \/ \E r \in ActiveOf(c.owner) :
              Stage(w, c, "invalidated", r, MarkedStale(leases[r]), None)

-----------------------------------------------------------------------------
(* Faulty variant of MayAppend: the journal may have grown meanwhile.      *)
MayAppendLate(d) == d.expected <= seq

(* append_event's compare-and-swap on the journal's last sequence number.  *)
MayAppend(d) == d.expected = seq

(* What _state() will project once the event is in the journal.            *)
Append(d) ==
    /\ seq' = seq + 1
    /\ leases' = ApplyLeases(leases, d)
    /\ counters' = ApplyCounters(counters, d)
    /\ protected' = ApplyProtected(protected, d)

Record(d) ==
    grants' = grants \cup
        (IF d.kind = "acquired"
         THEN {[resource |-> d.resource, fence |-> d.lease.fence, owner |-> d.lease.owner]}
         ELSE {})

SameLease(h, d) == h.resource = d.resource /\ h.fence = d.lease.fence /\ h.owner = d.lease.owner

(* acquire and heartbeat tell the caller its expiry; release and           *)
(* invalidation end the holding; the other events leave it as it is.       *)
HoldersAfter(d, returned) ==
    (IF d.kind \in {"marked_stale", "mutation_committed"}
     THEN holders
     ELSE {h \in holders : ~SameLease(h, d)})
    \cup
    (IF returned /\ d.kind \in {"acquired", "heartbeat"}
     THEN {[resource |-> d.resource, fence |-> d.lease.fence, owner |-> d.lease.owner,
            until |-> d.lease.expires_at]}
     ELSE {})

Commit(w) ==
    LET d == draft[w] IN
    /\ pc[w] = "append"
    /\ seq < MaxSeq
    /\ MayAppend(d)
    /\ Append(d)
    /\ Record(d)
    /\ holders' = HoldersAfter(d, TRUE)
    /\ \/ call[w].op \notin LoopOps /\ Finish(w)
       \/ /\ call[w].op \in LoopOps
          /\ pc' = [pc EXCEPT ![w] = "read"]
          /\ draft' = [draft EXCEPT ![w] = NoDraft]
          /\ UNCHANGED <<call, tries>>
    /\ UNCHANGED <<now, latest>>

(* JOURNAL_CONFLICT: back to the replay, at most MaxTries times; the loops *)
(* of mark_stale and invalidate_owner have no such bound.                  *)
Conflict(w) ==
    /\ pc[w] = "append"
    /\ ~MayAppend(draft[w])
    /\ \/ call[w].op \notin LoopOps /\ tries[w] + 1 = MaxTries /\ Finish(w)
       \/ /\ call[w].op \in LoopOps \/ tries[w] + 1 < MaxTries
          /\ pc' = [pc EXCEPT ![w] = "read"]
          /\ draft' = [draft EXCEPT ![w] = NoDraft]
          /\ tries' = [tries EXCEPT ![w] = IF call[w].op \in LoopOps THEN @ ELSE @ + 1]
          /\ UNCHANGED call
    /\ UNCHANGED <<store, now, latest, history>>

(* The process dies, or the append fails, before anything is durable.      *)
Crash(w) ==
    /\ pc[w] # "idle"
    /\ Finish(w)
    /\ UNCHANGED <<store, now, latest, history>>

(* The event is durable but its caller dies before it learns so.           *)
CommitThenCrash(w) ==
    LET d == draft[w] IN
    /\ pc[w] = "append"
    /\ seq < MaxSeq
    /\ MayAppend(d)
    /\ Append(d)
    /\ Record(d)
    /\ holders' = HoldersAfter(d, FALSE)
    /\ Finish(w)
    /\ UNCHANGED <<now, latest>>

Tick ==
    /\ now < MaxClock
    /\ now' = now + 1
    /\ latest' = IF now' > latest THEN now' ELSE latest
    /\ UNCHANGED <<store, workers, history>>

StepBack ==
    /\ now > 0
    /\ now' = now - 1
    /\ UNCHANGED <<latest, store, workers, history>>

Read(w) ==
    \/ Acquire(w) \/ Heartbeat(w) \/ Put(w) \/ Release(w)
    \/ MarkStale(w) \/ Reclaim(w) \/ Invalidate(w) \/ InvalidateOwner(w)

Step(w) == Read(w) \/ Commit(w) \/ Conflict(w) \/ Crash(w) \/ CommitThenCrash(w)

Next == (\E w \in Workers : Step(w)) \/ Tick \/ StepBack

Spec == Init /\ [][Next]_vars
-----------------------------------------------------------------------------
(***************************************************************************)
(* Properties.                                                             *)
(***************************************************************************)

(* Every variable keeps its type, and only a worker that is about to       *)
(* append holds a draft.                                                   *)
TypeOK ==
    /\ seq \in Nat
    /\ leases \in [Resources -> Lease \cup {NoLease}]
    /\ counters \in [Resources -> Nat]
    /\ protected \in [Resources -> [Keys -> Protected]]
    /\ now \in Nat /\ latest \in Nat /\ now <= latest
    /\ pc \in [Workers -> {"idle", "read", "append"}]
    /\ call \in [Workers -> Call]
    /\ draft \in [Workers -> Draft]
    /\ tries \in [Workers -> Nat]
    /\ grants \subseteq Grant
    /\ holders \subseteq Holder

(* Fencing: two acquisitions of a resource never carry the same fence,     *)
(* however the processes that replayed the same journal are interleaved    *)
(* and wherever they die (acquire's counter + 1 under append_event's CAS). *)
FencesUnique ==
    \A g, h \in grants : g.resource = h.resource /\ g.fence = h.fence => g = h

(* Every protected value was written under a fence that acquire issued to  *)
(* exactly the owner that wrote it: put's receipt "binds resource, owner,  *)
(* attempt and fence".                                                     *)
WrittenByGrantee ==
    \A r \in Resources, k \in Keys :
        protected[r][k] # NoValue =>
            [resource |-> r, fence |-> protected[r][k].fence, owner |-> protected[r][k].writer]
                \in grants

(* A superseded writer never overwrites a newer one's value: the fence of  *)
(* a protected value never goes down.                                      *)
ValueFencesNeverDecrease ==
    [][\A r \in Resources, k \in Keys :
          protected'[r][k].fence >= protected[r][k].fence]_vars

(* Until the clock has once shown the expiry a caller was last told, and   *)
(* unless somebody released or revoked its lease, that caller's lease is   *)
(* the one in the journal: no other caller is granted the resource         *)
(* meanwhile.  Setting the clock back never takes a lease away; it can     *)
(* only let a lease that was already lost look alive to its holder.        *)
LiveHolderIsCurrent ==
    \A h \in holders :
        h.until > latest =>
            /\ leases[h.resource].fence = h.fence
            /\ leases[h.resource].owner = h.owner
            /\ leases[h.resource].state = "active"

(* acquire's attempt number counts the acquisitions of the resource: the   *)
(* two numberings it keeps, attempt and fence, never drift apart, and no   *)
(* acquisition is missing from the count.                                  *)
AttemptsCountGrants ==
    \A r \in Resources :
        /\ leases[r].attempt = leases[r].fence
        /\ leases[r].fence = counters[r]
        /\ \A f \in 1 .. counters[r] : \E g \in grants : g.resource = r /\ g.fence = f

(* The store implements the abstract fenced resource.                      *)
Fenced ==
    INSTANCE FencedResource WITH
        fence <- [r \in Resources |-> leases[r].fence],
        owner <- [r \in Resources |-> leases[r].owner],
        held  <- {r \in Resources : leases[r].state = "active"},
        value <- protected

(* Refinement: seen through its projection, every commit of the store is   *)
(* one atomic Assign, Write or Vacate, or changes nothing.                 *)
ImplementsFencedResource == Fenced!Spec
=============================================================================
