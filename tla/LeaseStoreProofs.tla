-------------------------- MODULE LeaseStoreProofs --------------------------
(***************************************************************************)
(* Proofs about LeaseStore for any number of workers, owners, resources    *)
(* and keys, any journal length and any clock.                             *)
(*                                                                         *)
(* The argument.  A worker's draft may be old, and then nothing is known   *)
(* of it; but a draft whose expected_seq is still the journal's last       *)
(* sequence number fits the projection it was computed from (DraftFits),   *)
(* because every commit raises seq.  A commit therefore acts on the state  *)
(* the worker read, and the fence it writes is either the current one or   *)
(* the current one plus 1.                                                 *)
(***************************************************************************)
EXTENDS LeaseStore, TLAPS

(* The arguments an operation relies on are there.                         *)
CallFits(c) ==
    /\ c.op \in {"acquire", "reclaim", "heartbeat", "put", "release", "invalidate"} =>
          c.resource \in Resources
    /\ c.op \in {"acquire", "reclaim"} => c.owner \in Owners
    /\ c.op = "put" => c.key \in Keys

(* A draft that can still be appended fits the projection.                 *)
FreshDraftFits(d) ==
    /\ d.lease \in Lease
    /\ d.kind = "acquired" =>
          /\ d.lease.fence = counters[d.resource] + 1
          /\ d.lease.attempt = leases[d.resource].attempt + 1
    /\ d.kind # "acquired" =>
          /\ leases[d.resource] \in Lease
          /\ d.lease.owner = leases[d.resource].owner
          /\ d.lease.fence = leases[d.resource].fence
          /\ d.lease.attempt = leases[d.resource].attempt
    /\ d.kind \in {"heartbeat", "released", "marked_stale", "mutation_committed"} =>
          leases[d.resource].state = "active"
    /\ d.kind \in {"acquired", "heartbeat"} => d.lease.state = "active"
    /\ d.kind \in {"released", "marked_stale", "invalidated"} => d.lease.state # "active"
    /\ d.kind = "mutation_committed" => d.key \in Keys

DraftFits(d) ==
    /\ d.resource \in Resources
    /\ d.kind # "none"
    /\ d.expected <= seq
    /\ d.expected = seq => FreshDraftFits(d)

WorkersFit ==
    \A w \in Workers :
        /\ pc[w] # "idle" => CallFits(call[w])
        /\ pc[w] = "append" => DraftFits(draft[w])

(* The two numberings agree with the counter.                              *)
Numbering ==
    \A r \in Resources : leases[r].fence = counters[r] /\ leases[r].attempt = counters[r]

(* Fences issued so far are 1 .. counter, and the current lease is the     *)
(* newest grant.                                                           *)
GrantsBounded ==
    \A g \in grants : g.fence \in 1 .. counters[g.resource]

CurrentGranted ==
    \A r \in Resources :
        leases[r] # NoLease =>
            [resource |-> r, fence |-> leases[r].fence, owner |-> leases[r].owner] \in grants

ValuesBounded ==
    \A r \in Resources, k \in Keys : protected[r][k].fence <= counters[r]

NoGap ==
    \A r \in Resources : \A f \in 1 .. counters[r] :
        \E g \in grants : g.resource = r /\ g.fence = f

FencingInv ==
    /\ TypeOK
    /\ WorkersFit
    /\ Numbering
    /\ GrantsBounded
    /\ CurrentGranted
    /\ ValuesBounded
    /\ NoGap
    /\ FencesUnique
    /\ WrittenByGrantee

(* With a clock that never steps back, a fresh draft that takes the        *)
(* resource away from its holder was computed when the lease had expired,  *)
(* and it has expired ever since.                                          *)
TakersSawExpiry ==
    \A w \in Workers :
        pc[w] = "append" /\ draft[w].expected = seq
            /\ draft[w].kind \in {"acquired", "marked_stale"}
        => ~IsLive(leases[draft[w].resource], latest)

HoldersLive ==
    \A h \in holders :
        h.until > latest =>
            /\ leases[h.resource].fence = h.fence
            /\ leases[h.resource].owner = h.owner
            /\ leases[h.resource].state = "active"
            /\ leases[h.resource].expires_at >= h.until

HoldingInv == FencingInv /\ TakersSawExpiry /\ HoldersLive

(* A step that touches worker w's private state only: what the new state   *)
(* must satisfy for the invariants to survive.                             *)
LocalStep(w) ==
    /\ UNCHANGED <<store, now, latest, history>>
    /\ \E p \in {"idle", "read", "append"}, c \in Call, d \in Draft, n \in Nat :
          /\ pc' = [pc EXCEPT ![w] = p]
          /\ call' = [call EXCEPT ![w] = c]
          /\ draft' = [draft EXCEPT ![w] = d]
          /\ tries' = [tries EXCEPT ![w] = n]
          /\ p # "idle" => CallFits(c)
          /\ p = "append" =>
                /\ DraftFits(d)
                /\ d.kind \in {"acquired", "marked_stale"} => ~IsLive(leases[d.resource], now)

-----------------------------------------------------------------------------
\* The empty call and the empty draft have their types.
LEMMA NoThings == NoCall \in Call /\ NoDraft \in Draft
  BY DEF NoCall, Call, NoDraft, Draft

(* Whatever arguments a caller picks are arguments the operation accepts.  *)
LEMMA CallsFit ==
  ASSUME TypeOK, NEW c \in Calls
  PROVE  c \in Call /\ CallFits(c)
<1>0. TTLs \subseteq Nat  BY StoreAssumption
<1>1. \A r \in Resources : IssuedFences(r) \subseteq Nat
  BY DEF TypeOK, IssuedFences
<1>2. CASE c \in AcquireCalls
  <2>1. CallFits(c)
    BY <1>2 DEF AcquireCalls, CallFits
  <2>2. {"acquire", "reclaim"} \subseteq Ops
    BY DEF Ops, LoopOps
  <2>3. /\ c = [op |-> c.op, resource |-> c.resource, owner |-> c.owner,
                fence |-> c.fence, key |-> c.key, ttl |-> c.ttl]
        /\ c.op \in Ops /\ c.resource \in Resources /\ c.owner \in Owners
        /\ c.fence = 0 /\ c.key = None /\ c.ttl \in TTLs
    BY <1>2, <2>2 DEF AcquireCalls
  <2>4. c \in Call
    BY <1>0, <2>3 DEF Call
  <2> QED
    BY <2>1, <2>4
<1>3. ASSUME NEW r \in Resources, c \in HeartbeatCalls(r)
      PROVE  c \in Call /\ CallFits(c)
  BY <1>0, <1>1, <1>3 DEF HeartbeatCalls, Call, CallFits, Ops, LoopOps
<1>4. ASSUME NEW r \in Resources, c \in PutCalls(r)
      PROVE  c \in Call /\ CallFits(c)
  BY <1>1, <1>4 DEF PutCalls, Call, CallFits, Ops, LoopOps
<1>5. ASSUME NEW r \in Resources, c \in ReleaseCalls(r)
      PROVE  c \in Call /\ CallFits(c)
  BY <1>1, <1>5 DEF ReleaseCalls, Call, CallFits, Ops, LoopOps
<1>6. CASE c \in InvalidateCalls \cup InvalidateOwnerCalls \cup MarkStaleCalls
  BY <1>6 DEF InvalidateCalls, InvalidateOwnerCalls, MarkStaleCalls, Call, CallFits, Ops, LoopOps
<1> QED
  BY <1>2, <1>3, <1>4, <1>5, <1>6 DEF Calls

\* A call that is read, a new one or one repeated after a conflict, fits its operation.
LEMMA ReadingFits ==
  ASSUME TypeOK, WorkersFit, NEW w \in Workers, NEW op, NEW c \in Reading(w, op)
  PROVE  c \in Call /\ CallFits(c) /\ c.op = op
<1>1. CASE c \in Calls /\ c.op = op
  BY <1>1, CallsFit
<1>2. CASE c = call[w] /\ pc[w] = "read" /\ c.op = op
  BY <1>2 DEF TypeOK, WorkersFit
<1> QED
  BY <1>1, <1>2 DEF Reading

(* The two ways a replay ends, and the ways a call ends, are local steps.  *)
LEMMA FinishIsLocal ==
  ASSUME NEW w \in Workers, Finish(w), UNCHANGED <<store, now, latest, history>>
  PROVE  LocalStep(w)
  BY NoThings DEF Finish, LocalStep

\* Staging a draft changes only the state of the process that stages it.
LEMMA StageIsLocal ==
  ASSUME TypeOK, NEW w \in Workers, NEW c \in Call, NEW kind, NEW r, NEW lease, NEW key,
         Stage(w, c, kind, r, lease, key), CallFits(c),
         kind \in EventKinds \cup {"mutation_committed"}, r \in Resources,
         lease \in Lease, key \in Keys \cup {None},
         FreshDraftFits([kind |-> kind, resource |-> r, lease |-> lease, key |-> key,
                         expected |-> seq]),
         kind \in {"acquired", "marked_stale"} => ~IsLive(leases[r], now)
  PROVE  LocalStep(w)
<1> DEFINE d == [kind |-> kind, resource |-> r, lease |-> lease, key |-> key, expected |-> seq]
<1>1. d \in Draft
  BY DEF TypeOK, Draft
<1>2. DraftFits(d)
  BY DEF DraftFits, TypeOK, EventKinds
<1>3. tries' = [tries EXCEPT ![w] = tries[w]] /\ tries[w] \in Nat
  BY DEF Stage, TypeOK
<1>4. /\ pc' = [pc EXCEPT ![w] = "append"]
      /\ call' = [call EXCEPT ![w] = c]
      /\ draft' = [draft EXCEPT ![w] = d]
      /\ UNCHANGED <<store, now, latest, history>>
  BY DEF Stage
<1>5. d.kind \in {"acquired", "marked_stale"} => ~IsLive(leases[d.resource], now)
  OBVIOUS
<1> HIDE DEF d
<1> QED
  BY <1>1, <1>2, <1>3, <1>4, <1>5 DEF LocalStep

-----------------------------------------------------------------------------
(* Every operation's replay half either raises or leaves a draft that fits *)
(* the projection it was computed from.                                    *)
LEMMA ReadIsLocal ==
  ASSUME TypeOK, WorkersFit, Numbering, NEW w \in Workers, Read(w)
  PROVE  LocalStep(w)
<1> USE DEF FreshDraftFits
<1>0. /\ now \in Nat /\ seq \in Nat
      /\ \A r \in Resources : leases[r] \in Lease \cup {NoLease} /\ counters[r] \in Nat
      /\ TTLs \subseteq Nat
  BY StoreAssumption DEF TypeOK
<1>1. \A l \in Lease \cup {NoLease} : l.state = "active" => l \in Lease
  BY DEF NoLease
<1>2. CASE Acquire(w)
  <2>1. PICK c \in Reading(w, "acquire") :
            LET current == leases[c.resource] IN
            \/ IsLive(current, now) /\ Raise(w)
            \/ ~IsLive(current, now) /\
               Stage(w, c, "acquired", c.resource,
                     Granted(current, counters[c.resource], c.owner, now, c.ttl), None)
    BY <1>2 DEF Acquire
  <2>2. c \in Call /\ c.resource \in Resources /\ c.owner \in Owners /\ CallFits(c) /\ c.ttl \in Nat
    BY ReadingFits DEF CallFits, Call
  <2> DEFINE current == leases[c.resource]
             l == Granted(current, counters[c.resource], c.owner, now, c.ttl)
  <2>3. /\ l \in Lease /\ l.fence = counters[c.resource] + 1
        /\ l.attempt = current.attempt + 1 /\ l.state = "active"
    BY <1>0, <2>2 DEF Granted, Lease, LeaseStates, NoLease
  <2>4. CASE IsLive(current, now) /\ Raise(w)
    BY <2>4, FinishIsLocal DEF Raise
  <2>5. CASE ~IsLive(current, now) /\ Stage(w, c, "acquired", c.resource, l, None)
    <3> HIDE DEF l
    <3> QED BY <2>2, <2>3, <2>5, StageIsLocal DEF EventKinds
  <2> QED BY <2>1, <2>4, <2>5
<1>3. CASE Heartbeat(w)
  <2>1. PICK c \in Reading(w, "heartbeat") :
            LET current == leases[c.resource] IN
            \/ ~RequireCurrent(current, c.owner, c.fence, now) /\ Raise(w)
            \/ RequireCurrent(current, c.owner, c.fence, now) /\
               Stage(w, c, "heartbeat", c.resource, Renewed(current, now, c.ttl), None)
    BY <1>3 DEF Heartbeat
  <2>2. c \in Call /\ c.resource \in Resources /\ CallFits(c) /\ c.ttl \in Nat
    BY ReadingFits DEF CallFits, Call
  <2> DEFINE current == leases[c.resource]
             l == Renewed(current, now, c.ttl)
  <2>3. CASE ~RequireCurrent(current, c.owner, c.fence, now) /\ Raise(w)
    BY <2>3, FinishIsLocal DEF Raise
  <2>4. CASE RequireCurrent(current, c.owner, c.fence, now)
             /\ Stage(w, c, "heartbeat", c.resource, l, None)
    <3>1. current \in Lease /\ current.state = "active"
      BY <1>0, <1>1, <2>2, <2>4 DEF RequireCurrent, IsLive
    <3>2. /\ l \in Lease /\ l.owner = current.owner /\ l.fence = current.fence
          /\ l.attempt = current.attempt /\ l.state = "active"
      BY <1>0, <2>2, <3>1 DEF Renewed, Lease
    <3> HIDE DEF l
    <3> QED BY <2>2, <2>4, <3>1, <3>2, StageIsLocal DEF EventKinds
  <2> QED BY <2>1, <2>3, <2>4
<1>4. CASE Put(w)
  <2>1. PICK c \in Reading(w, "put") :
            LET current == leases[c.resource] IN
            \/ ~RequireCurrent(current, c.owner, c.fence, now) /\ Raise(w)
            \/ RequireCurrent(current, c.owner, c.fence, now) /\
               Stage(w, c, "mutation_committed", c.resource, current, c.key)
    BY <1>4 DEF Put
  <2>2. c \in Call /\ c.resource \in Resources /\ CallFits(c) /\ c.key \in Keys
    BY ReadingFits DEF CallFits
  <2> DEFINE current == leases[c.resource]
  <2>3. CASE ~RequireCurrent(current, c.owner, c.fence, now) /\ Raise(w)
    BY <2>3, FinishIsLocal DEF Raise
  <2>4. CASE RequireCurrent(current, c.owner, c.fence, now)
             /\ Stage(w, c, "mutation_committed", c.resource, current, c.key)
    <3>1. current \in Lease /\ current.state = "active"
      BY <1>0, <1>1, <2>2, <2>4 DEF RequireCurrent, IsLive
    <3> QED BY <2>2, <2>4, <3>1, StageIsLocal DEF EventKinds
  <2> QED BY <2>1, <2>3, <2>4
<1>5. CASE Release(w)
  <2>1. PICK c \in Reading(w, "release") :
            LET current == leases[c.resource] IN
            \/ ~RequireCurrent(current, c.owner, c.fence, now) /\ Raise(w)
            \/ RequireCurrent(current, c.owner, c.fence, now) /\
               Stage(w, c, "released", c.resource, Released(current), None)
    BY <1>5 DEF Release
  <2>2. c \in Call /\ c.resource \in Resources /\ CallFits(c)
    BY ReadingFits DEF CallFits
  <2> DEFINE current == leases[c.resource]
             l == Released(current)
  <2>3. CASE ~RequireCurrent(current, c.owner, c.fence, now) /\ Raise(w)
    BY <2>3, FinishIsLocal DEF Raise
  <2>4. CASE RequireCurrent(current, c.owner, c.fence, now)
             /\ Stage(w, c, "released", c.resource, l, None)
    <3>1. current \in Lease /\ current.state = "active"
      BY <1>0, <1>1, <2>2, <2>4 DEF RequireCurrent, IsLive
    <3>2. /\ l \in Lease /\ l.owner = current.owner /\ l.fence = current.fence
          /\ l.attempt = current.attempt /\ l.state # "active"
      BY <3>1 DEF Released, Lease, LeaseStates
    <3> HIDE DEF l
    <3> QED BY <2>2, <2>4, <3>1, <3>2, StageIsLocal DEF EventKinds
  <2> QED BY <2>1, <2>3, <2>4
<1> DEFINE stale(r) == MarkedStale(leases[r])
<1>6. ASSUME NEW r \in Resources, leases[r].state = "active"
      PROVE  /\ leases[r] \in Lease /\ stale(r) \in Lease
             /\ stale(r).owner = leases[r].owner /\ stale(r).fence = leases[r].fence
             /\ stale(r).attempt = leases[r].attempt /\ stale(r).state # "active"
  <2>1. leases[r] \in Lease  BY <1>0, <1>1, <1>6
  <2> QED BY <2>1 DEF MarkedStale, Lease, LeaseStates
<1> HIDE DEF stale
<1>7. ASSUME NEW c \in Call, CallFits(c), NEW r \in Expired,
             Stage(w, c, "marked_stale", r, stale(r), None)
      PROVE  LocalStep(w)
  <2>1. r \in Resources /\ leases[r].state = "active" /\ ~IsLive(leases[r], now)
    <3>1. leases[r] \in Lease \cup {NoLease} /\ HasExpired(leases[r], now) /\ r \in Resources
      BY <1>0 DEF Expired
    <3> QED BY <1>0, <3>1 DEF HasExpired, IsLive, Lease, NoLease
  <2> QED BY <1>6, <1>7, <2>1, StageIsLocal DEF EventKinds
<1>8. CASE MarkStale(w)
  <2>1. PICK c \in Reading(w, "mark_stale") :
            \/ Expired = {} /\ Raise(w)
            \/ \E r \in Expired : Stage(w, c, "marked_stale", r, stale(r), None)
    BY <1>8 DEF MarkStale, stale
  <2>2. c \in Call /\ CallFits(c)
    BY ReadingFits
  <2> QED BY <1>7, <2>1, <2>2, FinishIsLocal DEF Raise
<1>9. CASE Reclaim(w)
  <2>1. PICK c \in Reading(w, "reclaim") :
            \/ /\ Expired = {}
               /\ call' = [call EXCEPT ![w] = [c EXCEPT !.op = "acquire"]]
               /\ pc' = [pc EXCEPT ![w] = "read"]
               /\ UNCHANGED <<store, now, latest, draft, tries, history>>
            \/ \E r \in Expired : Stage(w, c, "marked_stale", r, stale(r), None)
    BY <1>9 DEF Reclaim, stale
  <2>2. c \in Call /\ CallFits(c) /\ c.resource \in Resources /\ c.owner \in Owners
    BY ReadingFits DEF CallFits
  <2>3. CASE /\ call' = [call EXCEPT ![w] = [c EXCEPT !.op = "acquire"]]
             /\ pc' = [pc EXCEPT ![w] = "read"]
             /\ UNCHANGED <<store, now, latest, draft, tries, history>>
    <3>1. [c EXCEPT !.op = "acquire"] \in Call /\ CallFits([c EXCEPT !.op = "acquire"])
      BY <2>2 DEF Call, CallFits, Ops
    <3>2. /\ draft' = [draft EXCEPT ![w] = draft[w]] /\ draft[w] \in Draft
          /\ tries' = [tries EXCEPT ![w] = tries[w]] /\ tries[w] \in Nat
      BY <2>3 DEF TypeOK
    <3> QED BY <2>3, <3>1, <3>2 DEF LocalStep
  <2> QED BY <1>7, <2>1, <2>2, <2>3
<1>10. CASE Invalidate(w)
  <2>1. PICK c \in Reading(w, "invalidate") :
            LET current == leases[c.resource] IN
            \/ current = NoLease /\ Raise(w)
            \/ current # NoLease /\
               Stage(w, c, "invalidated", c.resource, Invalidated(current), None)
    BY <1>10 DEF Invalidate
  <2>2. c \in Call /\ c.resource \in Resources /\ CallFits(c)
    BY ReadingFits DEF CallFits
  <2> DEFINE current == leases[c.resource]
             l == Invalidated(current)
  <2>3. CASE current = NoLease /\ Raise(w)
    BY <2>3, FinishIsLocal DEF Raise
  <2>4. CASE current # NoLease /\ Stage(w, c, "invalidated", c.resource, l, None)
    <3>1. current \in Lease
      BY <1>0, <2>2, <2>4
    <3>2. /\ l \in Lease /\ l.owner = current.owner /\ l.fence = current.fence
          /\ l.attempt = current.attempt /\ l.state # "active"
      BY <3>1 DEF Invalidated, Lease, LeaseStates
    <3> HIDE DEF l
    <3> QED BY <2>2, <2>4, <3>1, <3>2, StageIsLocal DEF EventKinds
  <2> QED BY <2>1, <2>3, <2>4
<1>11. CASE InvalidateOwner(w)
  <2>1. PICK c \in Reading(w, "invalidate_owner") :
            \/ ActiveOf(c.owner) = {} /\ Raise(w)
            \/ \E r \in ActiveOf(c.owner) : Stage(w, c, "invalidated", r, stale(r), None)
    BY <1>11 DEF InvalidateOwner, stale
  <2>2. c \in Call /\ CallFits(c)
    BY ReadingFits
  <2>3. CASE ActiveOf(c.owner) = {} /\ Raise(w)
    BY <2>3, FinishIsLocal DEF Raise
  <2>4. ASSUME NEW r \in ActiveOf(c.owner), Stage(w, c, "invalidated", r, stale(r), None)
        PROVE  LocalStep(w)
    <3>1. r \in Resources /\ leases[r].state = "active"
      BY DEF ActiveOf
    <3> QED BY <1>6, <2>2, <2>4, <3>1, StageIsLocal DEF EventKinds
  <2> QED BY <2>1, <2>3, <2>4
<1> QED
  BY <1>2, <1>3, <1>4, <1>5, <1>8, <1>9, <1>10, <1>11 DEF Read

-----------------------------------------------------------------------------
(* Steps that leave the store alone preserve the fencing invariant.        *)
LEMMA LocalPreservesFencing ==
  ASSUME FencingInv, NEW w \in Workers, LocalStep(w)
  PROVE  FencingInv'
<1>1. PICK p \in {"idle", "read", "append"}, c \in Call, d \in Draft, n \in Nat :
          /\ pc' = [pc EXCEPT ![w] = p]
          /\ call' = [call EXCEPT ![w] = c]
          /\ draft' = [draft EXCEPT ![w] = d]
          /\ tries' = [tries EXCEPT ![w] = n]
          /\ p # "idle" => CallFits(c)
          /\ p = "append" => DraftFits(d)
  BY DEF LocalStep
<1>2. UNCHANGED <<seq, leases, counters, protected, now, latest, grants, holders>>
  BY DEF LocalStep, store, history
<1>3. TypeOK'
  BY <1>1, <1>2 DEF FencingInv, TypeOK
<1>4. WorkersFit'
  BY <1>1, <1>2 DEF FencingInv, TypeOK, WorkersFit, CallFits, DraftFits, FreshDraftFits
<1>5. /\ Numbering' /\ GrantsBounded' /\ CurrentGranted' /\ ValuesBounded'
      /\ NoGap' /\ FencesUnique' /\ WrittenByGrantee'
  BY <1>2 DEF FencingInv, Numbering, GrantsBounded, CurrentGranted, ValuesBounded, NoGap,
              FencesUnique, WrittenByGrantee
<1> QED
  BY <1>3, <1>4, <1>5 DEF FencingInv

\* A tick of the clock, forward or back, preserves the fencing invariant.
LEMMA ClockPreservesFencing ==
  ASSUME FencingInv, Tick \/ StepBack
  PROVE  FencingInv'
<1>1. /\ UNCHANGED <<seq, leases, counters, protected, pc, call, draft, tries, grants, holders>>
      /\ now' \in Nat /\ latest' \in Nat /\ now' <= latest'
  BY DEF FencingInv, TypeOK, Tick, StepBack, store, workers, history
<1>2. TypeOK'
  BY <1>1 DEF FencingInv, TypeOK
<1>3. WorkersFit'
  BY <1>1 DEF FencingInv, WorkersFit, CallFits, DraftFits, FreshDraftFits
<1>4. /\ Numbering' /\ GrantsBounded' /\ CurrentGranted' /\ ValuesBounded'
      /\ NoGap' /\ FencesUnique' /\ WrittenByGrantee'
  BY <1>1 DEF FencingInv, Numbering, GrantsBounded, CurrentGranted, ValuesBounded, NoGap,
              FencesUnique, WrittenByGrantee
<1> QED
  BY <1>2, <1>3, <1>4 DEF FencingInv

(* What committing a draft does to the store, by kind of event.            *)
LEMMA CommitEffect ==
  ASSUME FencingInv, NEW w \in Workers, pc[w] = "append", MayAppend(draft[w]),
         Append(draft[w]), Record(draft[w])
  PROVE  LET d == draft[w]
             r == d.resource
             g == [resource |-> r, fence |-> d.lease.fence, owner |-> d.lease.owner]
         IN  /\ r \in Resources /\ d.lease \in Lease /\ FreshDraftFits(d) /\ seq' = seq + 1
             /\ \/ /\ d.kind = "acquired"
                   /\ leases' = [leases EXCEPT ![r] = d.lease]
                   /\ counters' = [counters EXCEPT ![r] = counters[r] + 1]
                   /\ protected' = protected
                   /\ grants' = grants \cup {g}
                \/ /\ d.kind \in EventKinds \ {"acquired"}
                   /\ leases' = [leases EXCEPT ![r] = d.lease]
                   /\ counters' = counters
                   /\ protected' = protected
                   /\ grants' = grants
                \/ /\ d.kind = "mutation_committed"
                   /\ leases' = leases
                   /\ counters' = counters
                   /\ protected' = [protected EXCEPT ![r] =
                         [protected[r] EXCEPT ![d.key] =
                            [writer |-> d.lease.owner, fence |-> d.lease.fence]]]
                   /\ grants' = grants
<1> DEFINE d == draft[w]
           r == d.resource
<1>1. /\ d \in Draft /\ r \in Resources /\ d.kind # "none" /\ d.lease \in Lease
      /\ FreshDraftFits(d) /\ d.lease.fence \in Nat
      /\ counters \in [Resources -> Nat] /\ leases[r].fence = counters[r]
  <2>1. DraftFits(d) /\ d.expected = seq
    BY DEF FencingInv, WorkersFit, MayAppend
  <2>2. r \in Resources /\ d.kind # "none" /\ FreshDraftFits(d)
    BY <2>1 DEF DraftFits
  <2>3. d.lease \in Lease
    BY <2>2 DEF FreshDraftFits
  <2> QED
    BY <2>2, <2>3 DEF FencingInv, TypeOK, Numbering, Lease
<1>2. d.kind \in EventKinds \cup {"mutation_committed"}
  BY <1>1 DEF Draft
<1>3. seq' = seq + 1
  BY DEF Append
<1>4. CASE d.kind = "acquired"
  <2>1. d.lease.fence = counters[r] + 1
    BY <1>1, <1>4 DEF FreshDraftFits
  <2>2. Larger(counters[r], d.lease.fence) = counters[r] + 1
    BY <1>1, <2>1 DEF Larger
  <2> QED
    BY <1>1, <1>3, <1>4, <2>2
       DEF Append, Record, ApplyLeases, ApplyCounters, ApplyProtected, EventKinds
<1>5. CASE d.kind \in EventKinds \ {"acquired"}
  <2>1. d.lease.fence = counters[r]
    BY <1>1, <1>5 DEF FreshDraftFits
  <2>2. [counters EXCEPT ![r] = Larger(counters[r], d.lease.fence)] = counters
    BY <1>1, <2>1 DEF Larger
  <2> QED
    BY <1>1, <1>3, <1>5, <2>2
       DEF Append, Record, ApplyLeases, ApplyCounters, ApplyProtected, EventKinds
<1>6. CASE d.kind = "mutation_committed"
  BY <1>1, <1>3, <1>6
     DEF Append, Record, ApplyLeases, ApplyCounters, ApplyProtected, EventKinds
<1> QED
  BY <1>2, <1>4, <1>5, <1>6

(* How a committed worker goes on, in the terms of LocalStep.              *)
WorkerMovesOn(w) ==
    \E p \in {"idle", "read"}, c \in Call, n \in Nat :
        /\ pc' = [pc EXCEPT ![w] = p]
        /\ call' = [call EXCEPT ![w] = c]
        /\ draft' = [draft EXCEPT ![w] = NoDraft]
        /\ tries' = [tries EXCEPT ![w] = n]
        /\ p # "idle" => CallFits(c)

(* An append of a fitting draft preserves the fencing invariant.           *)
LEMMA CommitPreservesFencing ==
  ASSUME FencingInv, NEW w \in Workers, pc[w] = "append", MayAppend(draft[w]),
         Append(draft[w]), Record(draft[w]), WorkerMovesOn(w),
         holders' \subseteq Holder, now' = now, latest' = latest
  PROVE  FencingInv'
<1> DEFINE d == draft[w]
           r == d.resource
           g == [resource |-> r, fence |-> d.lease.fence, owner |-> d.lease.owner]
           Acquired == /\ d.kind = "acquired"
                       /\ leases' = [leases EXCEPT ![r] = d.lease]
                       /\ counters' = [counters EXCEPT ![r] = counters[r] + 1]
                       /\ protected' = protected
                       /\ grants' = grants \cup {g}
           Changed == /\ d.kind \in EventKinds \ {"acquired"}
                      /\ leases' = [leases EXCEPT ![r] = d.lease]
                      /\ counters' = counters
                      /\ protected' = protected
                      /\ grants' = grants
           Mutated == /\ d.kind = "mutation_committed"
                      /\ leases' = leases
                      /\ counters' = counters
                      /\ protected' = [protected EXCEPT ![r] =
                            [protected[r] EXCEPT ![d.key] =
                               [writer |-> d.lease.owner, fence |-> d.lease.fence]]]
                      /\ grants' = grants
<1>1. /\ r \in Resources /\ d.lease \in Lease /\ FreshDraftFits(d) /\ seq' = seq + 1
      /\ Acquired \/ Changed \/ Mutated
  BY CommitEffect
<1>2. /\ d.lease.owner \in Owners /\ d.lease.fence \in Nat /\ g \in Grant
      /\ seq \in Nat
      /\ counters \in [Resources -> Nat]
      /\ leases \in [Resources -> Lease \cup {NoLease}]
      /\ protected \in [Resources -> [Keys -> Protected]]
      /\ grants \subseteq Grant
  BY <1>1 DEF Lease, Grant, FencingInv, TypeOK
<1>3. Acquired => d.lease.fence = counters[r] + 1 /\ d.lease.attempt = leases[r].attempt + 1
  BY <1>1 DEF FreshDraftFits
<1>4. Changed \/ Mutated =>
          /\ leases[r] \in Lease /\ leases[r] # NoLease
          /\ d.lease.owner = leases[r].owner /\ d.lease.fence = leases[r].fence
          /\ d.lease.attempt = leases[r].attempt /\ d.lease.fence = counters[r]
  <2>1. NoLease \notin Lease
    BY DEF NoLease, Lease, LeaseStates
  <2> QED
    BY <1>1, <2>1 DEF FreshDraftFits, EventKinds, FencingInv, Numbering
<1>5. Mutated => d.key \in Keys
  BY <1>1 DEF FreshDraftFits
<1> DEFINE val == [writer |-> d.lease.owner, fence |-> d.lease.fence]
<1>a. val \in Protected /\ val.fence = d.lease.fence /\ val.writer = d.lease.owner
  BY <1>2 DEF Protected
<1>b. \A q \in Resources, k \in Keys :
          /\ Mutated /\ q = r /\ k = d.key => protected'[q][k] = val
          /\ ~(Mutated /\ q = r /\ k = d.key) => protected'[q][k] = protected[q][k]
  <2>1. CASE Mutated
    BY <1>1, <1>2, <1>5, <2>1
  <2>2. CASE ~Mutated
    BY <1>1, <2>2
  <2> QED
    BY <2>1, <2>2
<1>6. TypeOK'
  <2>1. /\ seq' \in Nat /\ holders' \subseteq Holder
        /\ now' \in Nat /\ latest' \in Nat /\ now' <= latest'
    BY <1>1, <1>2 DEF FencingInv, TypeOK
  <2>2. pc' \in [Workers -> {"idle", "read", "append"}] /\ call' \in [Workers -> Call]
        /\ draft' \in [Workers -> Draft] /\ tries' \in [Workers -> Nat]
    BY NoThings DEF WorkerMovesOn, FencingInv, TypeOK
  <2>3. leases' \in [Resources -> Lease \cup {NoLease}] /\ counters' \in [Resources -> Nat]
        /\ grants' \subseteq Grant
    BY <1>1, <1>2
  <2>4. protected' \in [Resources -> [Keys -> Protected]]
    <3>1. CASE Mutated
      <4>1. [protected[r] EXCEPT ![d.key] = val] \in [Keys -> Protected]
        BY <1>1, <1>2, <1>5, <1>a, <3>1
      <4> HIDE DEF val
      <4> QED
        BY <1>1, <1>2, <3>1, <4>1 DEF val
    <3> QED
      BY <1>1, <1>2, <3>1
  <2> QED
    BY <2>1, <2>2, <2>3, <2>4 DEF TypeOK
<1>7. WorkersFit'
  <2> SUFFICES ASSUME NEW v \in Workers
               PROVE  /\ pc'[v] # "idle" => CallFits(call'[v])
                      /\ pc'[v] = "append" =>
                            /\ draft'[v].resource \in Resources
                            /\ draft'[v].kind # "none"
                            /\ draft'[v].expected < seq'
    <3>1. \A v \in Workers : draft'[v].expected \in Nat
      BY <1>6 DEF TypeOK, Draft
    <3>2. seq' \in Nat
      BY <1>1, <1>2
    <3> QED
      BY <3>1, <3>2 DEF WorkersFit, CallFits, DraftFits
  <2>1. CASE v = w
    BY <2>1 DEF WorkerMovesOn, FencingInv, TypeOK
  <2>2. CASE v # w
    <3>1. pc'[v] = pc[v] /\ call'[v] = call[v] /\ draft'[v] = draft[v]
      BY <2>2 DEF WorkerMovesOn, FencingInv, TypeOK
    <3>2. draft[v].expected \in Nat
      BY DEF FencingInv, TypeOK, Draft
    <3> QED
      BY <1>1, <1>2, <3>1, <3>2 DEF FencingInv, WorkersFit, DraftFits
  <2> QED
    BY <2>1, <2>2
<1>8. Numbering'
  BY <1>1, <1>2, <1>3, <1>4 DEF FencingInv, Numbering
<1>9. GrantsBounded'
  BY <1>1, <1>2, <1>3 DEF FencingInv, GrantsBounded, Grant
<1>10. CurrentGranted'
  <2> SUFFICES ASSUME NEW q \in Resources, leases'[q] # NoLease
               PROVE  [resource |-> q, fence |-> leases'[q].fence, owner |-> leases'[q].owner]
                          \in grants'
    BY DEF CurrentGranted
  <2>1. CASE q = r /\ Acquired
    BY <1>1, <1>2, <2>1
  <2>2. CASE q = r /\ (Changed \/ Mutated)
    BY <1>1, <1>2, <1>4, <2>2 DEF FencingInv, CurrentGranted
  <2>3. CASE q # r
    BY <1>1, <1>2, <2>3 DEF FencingInv, CurrentGranted
  <2> QED
    BY <1>1, <2>1, <2>2, <2>3
<1>11. ValuesBounded'
  <2> SUFFICES ASSUME NEW q \in Resources, NEW k \in Keys
               PROVE  protected'[q][k].fence <= counters'[q]
    BY DEF ValuesBounded
  <2>1. counters'[q] >= counters[q] /\ counters[q] \in Nat /\ counters'[q] \in Nat
    BY <1>1, <1>2
  <2>2. CASE Mutated /\ q = r /\ k = d.key
    BY <1>4, <1>a, <1>b, <2>1, <2>2
  <2>3. CASE ~(Mutated /\ q = r /\ k = d.key)
    <3>1. protected'[q][k] = protected[q][k] /\ protected[q][k].fence \in Nat
      BY <1>2, <1>b, <2>3 DEF Protected
    <3>2. protected[q][k].fence <= counters[q]
      BY DEF FencingInv, ValuesBounded
    <3> QED
      BY <2>1, <3>1, <3>2
  <2> QED
    BY <2>2, <2>3
<1>12. NoGap'
  <2> SUFFICES ASSUME NEW q \in Resources, NEW f \in 1 .. counters'[q]
               PROVE  \E h \in grants' : h.resource = q /\ h.fence = f
    BY DEF NoGap
  <2>1. CASE f \in 1 .. counters[q]
    BY <1>1, <2>1 DEF FencingInv, NoGap
  <2>2. CASE f \notin 1 .. counters[q]
    <3>1. Acquired /\ q = r
      BY <1>1, <1>2, <2>2
    <3>2. counters'[r] = counters[r] + 1 /\ counters[r] \in Nat
      BY <1>1, <1>2, <3>1
    <3>3. f = g.fence
      BY <1>3, <2>2, <3>1, <3>2
    <3> QED
      BY <3>1, <3>3
  <2> QED
    BY <2>1, <2>2
<1>13. FencesUnique'
  <2> SUFFICES ASSUME NEW a \in grants', NEW b \in grants',
                      a.resource = b.resource, a.fence = b.fence
               PROVE  a = b
    BY DEF FencesUnique
  <2>1. CASE a \in grants /\ b \in grants
    BY <2>1 DEF FencingInv, FencesUnique
  <2>2. CASE a \notin grants \/ b \notin grants
    <3>1. Acquired /\ (a = g \/ b = g) /\ a \in grants \cup {g} /\ b \in grants \cup {g}
      BY <1>1, <2>2
    <3>2. \A h \in grants : h.resource = r => h.fence # g.fence
      BY <1>2, <1>3, <3>1 DEF FencingInv, GrantsBounded, Grant
    <3> QED
      BY <3>1, <3>2
  <2> QED
    BY <2>1, <2>2
<1>14. WrittenByGrantee'
  <2> SUFFICES ASSUME NEW q \in Resources, NEW k \in Keys, protected'[q][k] # NoValue
               PROVE  [resource |-> q, fence |-> protected'[q][k].fence,
                       owner |-> protected'[q][k].writer] \in grants'
    BY DEF WrittenByGrantee
  <2>1. CASE Mutated /\ q = r /\ k = d.key
    <3>1. [resource |-> r, fence |-> leases[r].fence, owner |-> leases[r].owner] \in grants
      BY <1>1, <1>4, <2>1 DEF FencingInv, CurrentGranted
    <3> QED
      BY <1>4, <1>a, <1>b, <2>1, <3>1
  <2>2. CASE ~(Mutated /\ q = r /\ k = d.key)
    <3>1. protected'[q][k] = protected[q][k] /\ grants \subseteq grants'
      BY <1>1, <1>b, <2>2
    <3> QED
      BY <3>1 DEF FencingInv, WrittenByGrantee
  <2> QED
    BY <2>1, <2>2
<1> QED
  BY <1>6, <1>7, <1>8, <1>9, <1>10, <1>11, <1>12, <1>13, <1>14 DEF FencingInv

\* The worker whose draft was appended drops it, whether it returns, goes on or crashes.
LEMMA MovingOn ==
  ASSUME TypeOK, WorkersFit, NEW w \in Workers, Commit(w) \/ CommitThenCrash(w)
  PROVE  WorkerMovesOn(w)
<1>1. CASE Finish(w)
  BY <1>1, NoThings DEF Finish, WorkerMovesOn
<1>2. CASE /\ pc[w] = "append"
           /\ pc' = [pc EXCEPT ![w] = "read"]
           /\ draft' = [draft EXCEPT ![w] = NoDraft]
           /\ UNCHANGED <<call, tries>>
  <2>1. /\ call' = [call EXCEPT ![w] = call[w]] /\ call[w] \in Call
        /\ tries' = [tries EXCEPT ![w] = tries[w]] /\ tries[w] \in Nat
    BY <1>2 DEF TypeOK
  <2>2. CallFits(call[w])
    BY <1>2 DEF WorkersFit
  <2> QED
    BY <1>2, <2>1, <2>2 DEF WorkerMovesOn
<1> QED
  BY <1>1, <1>2 DEF Commit, CommitThenCrash

\* Whatever was appended, the callers who were told they hold a lease keep their type.
LEMMA HoldersTyped ==
  ASSUME TypeOK, NEW d, d.resource \in Resources, d.lease \in Lease, NEW b \in BOOLEAN
  PROVE  HoldersAfter(d, b) \subseteq Holder
  BY DEF HoldersAfter, Holder, Lease, TypeOK

(* The inductive step.                                                     *)
LEMMA FencingStep ==
  ASSUME FencingInv, [Next]_vars
  PROVE  FencingInv'
<1>1. CASE UNCHANGED vars
  BY <1>1 DEF vars, FencingInv, TypeOK, WorkersFit, CallFits, DraftFits, FreshDraftFits,
     Numbering, GrantsBounded, CurrentGranted, ValuesBounded, NoGap, FencesUnique,
     WrittenByGrantee
<1>2. CASE Tick \/ StepBack
  BY <1>2, ClockPreservesFencing
<1>3. ASSUME NEW w \in Workers, Step(w)
      PROVE  FencingInv'
  <2>0. TypeOK /\ WorkersFit /\ Numbering
    BY DEF FencingInv
  <2>1. CASE Read(w)
    BY <2>0, <2>1, ReadIsLocal, LocalPreservesFencing
  <2>2. CASE Conflict(w)
    <3>1. CASE Finish(w)
      BY <2>2, <3>1, FinishIsLocal, LocalPreservesFencing DEF Conflict
    <3>2. CASE ~Finish(w)
      <4>1. \E n \in Nat : tries' = [tries EXCEPT ![w] = n]
        BY <2>0, <2>2, <3>2 DEF Conflict, TypeOK
      <4>2. /\ pc' = [pc EXCEPT ![w] = "read"] /\ draft' = [draft EXCEPT ![w] = NoDraft]
            /\ call' = [call EXCEPT ![w] = call[w]] /\ call[w] \in Call /\ CallFits(call[w])
            /\ UNCHANGED <<store, now, latest, history>>
        BY <2>0, <2>2, <3>2 DEF Conflict, TypeOK, WorkersFit
      <4>3. LocalStep(w)
        BY <4>1, <4>2, NoThings DEF LocalStep
      <4> QED
        BY <4>3, LocalPreservesFencing
    <3> QED
      BY <3>1, <3>2
  <2>3. CASE Crash(w)
    BY <2>3, FinishIsLocal, LocalPreservesFencing DEF Crash
  <2>4. CASE Commit(w) \/ CommitThenCrash(w)
    <3>1. /\ pc[w] = "append" /\ MayAppend(draft[w]) /\ Append(draft[w]) /\ Record(draft[w])
          /\ now' = now /\ latest' = latest /\ \E b \in BOOLEAN : holders' = HoldersAfter(draft[w], b)
      BY <2>4 DEF Commit, CommitThenCrash
    <3>2. WorkerMovesOn(w)
      BY <2>0, <2>4, MovingOn
    <3>3. draft[w].resource \in Resources /\ draft[w].lease \in Lease
      BY <3>1, CommitEffect
    <3>4. holders' \subseteq Holder
      BY <2>0, <3>1, <3>3, HoldersTyped
    <3> QED
      BY <3>1, <3>2, <3>4, CommitPreservesFencing
  <2> QED
    BY <1>3, <2>1, <2>2, <2>3, <2>4 DEF Step
<1> QED
  BY <1>1, <1>2, <1>3 DEF Next

\* The initial state satisfies the fencing invariant.
LEMMA FencingInit == Init => FencingInv
<1> SUFFICES ASSUME Init PROVE FencingInv
  OBVIOUS
<1>1. TypeOK
  BY NoThings DEF Init, TypeOK, Protected, NoValue
<1>2. WorkersFit
  BY DEF Init, WorkersFit
<1>3. Numbering /\ CurrentGranted
  BY DEF Init, Numbering, CurrentGranted, NoLease
<1>4. GrantsBounded /\ FencesUnique /\ NoGap
  BY DEF Init, GrantsBounded, FencesUnique, NoGap
<1>5. ValuesBounded /\ WrittenByGrantee
  BY DEF Init, ValuesBounded, WrittenByGrantee, NoValue
<1> QED
  BY <1>1, <1>2, <1>3, <1>4, <1>5 DEF FencingInv

(* The invariant behind every result below.                                *)
THEOREM Fencing == Spec => []FencingInv
  BY FencingInit, FencingStep, PTL DEF Spec

(* Type correctness of the store and of its callers' private state.        *)
THEOREM TypeCorrect == Spec => []TypeOK
<1>1. FencingInv => TypeOK
  BY DEF FencingInv
<1> QED
  BY <1>1, Fencing, PTL

(* Two acquisitions of a resource never share a fence, for any number of   *)
(* processes, any clock (one that steps back included) and any crash.      *)
THEOREM FencesAreUnique == Spec => []FencesUnique
<1>1. FencingInv => FencesUnique
  BY DEF FencingInv
<1> QED
  BY <1>1, Fencing, PTL

(* Every protected value was written by the grantee of its fence.          *)
THEOREM ValuesWrittenByGrantee == Spec => []WrittenByGrantee
<1>1. FencingInv => WrittenByGrantee
  BY DEF FencingInv
<1> QED
  BY <1>1, Fencing, PTL

(* attempt, fence and the number of grants are the same number.            *)
THEOREM AttemptsCount == Spec => []AttemptsCountGrants
<1>1. FencingInv => AttemptsCountGrants
  BY DEF FencingInv, Numbering, NoGap, AttemptsCountGrants
<1> QED
  BY <1>1, Fencing, PTL

-----------------------------------------------------------------------------
(* Only a commit changes the projection.                                   *)
LEMMA OnlyCommitsChange ==
  ASSUME FencingInv, [Next]_vars
  PROVE  \/ UNCHANGED <<leases, protected>>
         \/ \E w \in Workers : /\ pc[w] = "append" /\ MayAppend(draft[w])
                               /\ Append(draft[w]) /\ Record(draft[w])
<1>1. CASE UNCHANGED vars
  BY <1>1 DEF vars
<1>2. CASE Tick \/ StepBack
  BY <1>2 DEF Tick, StepBack, store
<1>3. ASSUME NEW w \in Workers, Read(w)
      PROVE  UNCHANGED <<leases, protected>>
  <2>1. LocalStep(w)
    BY <1>3, ReadIsLocal DEF FencingInv
  <2> QED
    BY <2>1 DEF LocalStep, store
<1>4. ASSUME NEW w \in Workers, Conflict(w) \/ Crash(w)
      PROVE  UNCHANGED <<leases, protected>>
  BY <1>4 DEF Conflict, Crash, store
<1>5. ASSUME NEW w \in Workers, Commit(w) \/ CommitThenCrash(w)
      PROVE  /\ pc[w] = "append" /\ MayAppend(draft[w])
             /\ Append(draft[w]) /\ Record(draft[w])
  BY <1>5 DEF Commit, CommitThenCrash
<1> QED
  BY <1>1, <1>2, <1>3, <1>4, <1>5 DEF Next, Step

(* A protected value's fence never goes down: a superseded writer cannot   *)
(* overwrite its successor, whatever it read before it was superseded.     *)
THEOREM ValuesNeverRegress == Spec => ValueFencesNeverDecrease
<1>1. ASSUME FencingInv, [Next]_vars, NEW r \in Resources, NEW k \in Keys
      PROVE  protected'[r][k].fence >= protected[r][k].fence
  <2>0. /\ protected \in [Resources -> [Keys -> Protected]] /\ protected[r][k].fence \in Nat
        /\ protected[r][k].fence <= counters[r]
    BY <1>1 DEF FencingInv, TypeOK, Protected, ValuesBounded
  <2>1. CASE protected' = protected
    BY <2>0, <2>1
  <2>2. CASE protected' # protected
    <3>1. PICK w \in Workers : /\ pc[w] = "append" /\ MayAppend(draft[w])
                               /\ Append(draft[w]) /\ Record(draft[w])
      BY <1>1, <2>2, OnlyCommitsChange
    <3> DEFINE d == draft[w]
    <3>2. /\ d.kind = "mutation_committed" /\ d.resource \in Resources /\ FreshDraftFits(d)
          /\ protected' = [protected EXCEPT ![d.resource] =
                [protected[d.resource] EXCEPT ![d.key] =
                   [writer |-> d.lease.owner, fence |-> d.lease.fence]]]
      BY <1>1, <2>2, <3>1, CommitEffect
    <3>3. d.key \in Keys /\ d.lease.fence = counters[d.resource]
      BY <1>1, <3>2 DEF FreshDraftFits, FencingInv, Numbering
    <3>4. counters[r] \in Nat
      BY <1>1 DEF FencingInv, TypeOK
    <3>5. CASE r = d.resource /\ k = d.key
      BY <2>0, <3>2, <3>3, <3>4, <3>5
    <3>6. CASE ~(r = d.resource /\ k = d.key)
      <4>1. protected'[r][k] = protected[r][k]
        BY <2>0, <3>2, <3>3, <3>6
      <4> QED
        BY <2>0, <4>1
    <3> QED
      BY <3>5, <3>6
  <2> QED
    BY <2>1, <2>2
<1>2. FencingInv /\ [Next]_vars =>
        [\A r \in Resources, k \in Keys : protected'[r][k].fence >= protected[r][k].fence]_vars
  BY <1>1
<1> QED
  BY <1>2, Fencing, PTL DEF Spec, ValueFencesNeverDecrease

(* Refinement.  Seen through the projection, the store is the fenced       *)
(* resource of docs/SLOT_LEASES.md: its commits are atomic assignments,    *)
(* writes and vacations.                                                   *)
THEOREM StoreRefines == Spec => ImplementsFencedResource
<1>1. ASSUME Init PROVE Fenced!Init
  <2>1. /\ [r \in Resources |-> leases[r].fence] = [r \in Resources |-> 0]
        /\ [r \in Resources |-> leases[r].owner] = [r \in Resources |-> None]
    BY <1>1 DEF Init, NoLease
  <2>2. {r \in Resources : leases[r].state = "active"} = {}
    BY <1>1 DEF Init, NoLease
  <2> QED
    BY <1>1, <2>1, <2>2 DEF Init, NoValue, Fenced!Init
<1>2. ASSUME FencingInv, [Next]_vars
      PROVE  [Fenced!Next]_(Fenced!vars)
  <2> DEFINE F == [r \in Resources |-> leases[r].fence]
             O == [r \in Resources |-> leases[r].owner]
             H == {r \in Resources : leases[r].state = "active"}
  <2>1. CASE UNCHANGED <<leases, protected>>
    BY <2>1 DEF Fenced!vars
  <2>2. ASSUME NEW w \in Workers, pc[w] = "append", MayAppend(draft[w]),
               Append(draft[w]), Record(draft[w])
        PROVE  [Fenced!Next]_(Fenced!vars)
    <3> DEFINE d == draft[w]
               r == d.resource
    <3>1. /\ r \in Resources /\ d.lease \in Lease /\ FreshDraftFits(d)
          /\ \/ d.kind = "acquired" /\ leases' = [leases EXCEPT ![r] = d.lease]
                                    /\ protected' = protected
             \/ d.kind \in EventKinds \ {"acquired"}
                  /\ leases' = [leases EXCEPT ![r] = d.lease] /\ protected' = protected
             \/ d.kind = "mutation_committed" /\ leases' = leases
                  /\ protected' = [protected EXCEPT ![r] =
                         [protected[r] EXCEPT ![d.key] =
                            [writer |-> d.lease.owner, fence |-> d.lease.fence]]]
      BY <1>2, <2>2, CommitEffect
    <3>2. /\ leases \in [Resources -> Lease \cup {NoLease}] /\ counters \in [Resources -> Nat]
          /\ protected \in [Resources -> [Keys -> Protected]]
          /\ leases[r].fence = counters[r] /\ d.lease.owner \in Owners
      BY <1>2, <3>1 DEF FencingInv, TypeOK, Numbering, Lease
    <3>3. CASE d.kind = "acquired"
      <4>1. leases' = [leases EXCEPT ![r] = d.lease] /\ protected' = protected
            /\ d.lease.fence = leases[r].fence + 1 /\ d.lease.state = "active"
        BY <3>1, <3>2, <3>3 DEF FreshDraftFits
      <4>2. F' = [F EXCEPT ![r] = F[r] + 1]
        BY <3>1, <3>2, <4>1
      <4>3. O' = [O EXCEPT ![r] = d.lease.owner]
        BY <3>1, <3>2, <4>1
      <4>4. H' = H \cup {r}
        BY <3>1, <3>2, <4>1
      <4>5. PICK q \in Resources, o \in Owners : q = r /\ o = d.lease.owner
        BY <3>1, <3>2
      <4>6. Fenced!Assign(q, o)
        BY <4>1, <4>2, <4>3, <4>4, <4>5 DEF Fenced!Assign
      <4> QED
        BY <4>6 DEF Fenced!Next
    <3>4. CASE d.kind \in EventKinds \ {"acquired"}
      <4>1. /\ leases' = [leases EXCEPT ![r] = d.lease] /\ protected' = protected
            /\ d.lease.fence = leases[r].fence /\ d.lease.owner = leases[r].owner
        BY <3>1, <3>4 DEF FreshDraftFits, EventKinds
      <4>2. F' = F /\ O' = O
        BY <3>1, <3>2, <4>1
      <4>3. CASE (d.lease.state = "active") = (leases[r].state = "active")
        <5>1. H' = H
          BY <3>1, <3>2, <4>1, <4>3
        <5> QED
          BY <4>1, <4>2, <5>1 DEF Fenced!vars
      <4>4. CASE leases[r].state = "active" /\ d.lease.state # "active"
        <5>1. H' = H \ {r} /\ r \in H
          BY <3>1, <3>2, <4>1, <4>4
        <5>2. PICK q \in Resources : q = r
          BY <3>1
        <5>3. Fenced!Vacate(q)
          BY <4>1, <4>2, <5>1, <5>2 DEF Fenced!Vacate
        <5> QED
          BY <5>3 DEF Fenced!Next
      <4>5. d.lease.state = "active" => leases[r].state = "active"
        BY <3>1, <3>4 DEF FreshDraftFits, EventKinds
      <4> QED
        BY <4>3, <4>4, <4>5
    <3>5. CASE d.kind = "mutation_committed"
      <4>1. /\ leases' = leases /\ d.key \in Keys /\ leases[r].state = "active"
            /\ protected' = [protected EXCEPT ![r] =
                  [protected[r] EXCEPT ![d.key] =
                     [writer |-> leases[r].owner, fence |-> leases[r].fence]]]
        BY <3>1, <3>5 DEF FreshDraftFits, EventKinds
      <4>2. F' = F /\ O' = O /\ H' = H /\ r \in H /\ F[r] = leases[r].fence /\ O[r] = leases[r].owner
        BY <3>1, <4>1
      <4>3. Fenced!Write(r, d.key)
        BY <4>1, <4>2 DEF Fenced!Write
      <4> QED
        BY <3>1, <4>1, <4>3 DEF Fenced!Next
    <3> QED
      BY <3>1, <3>3, <3>4, <3>5
  <2> QED
    BY <1>2, <2>1, <2>2, OnlyCommitsChange
<1> QED
  BY <1>1, <1>2, Fencing, PTL DEF Spec, ImplementsFencedResource, Fenced!Spec

-----------------------------------------------------------------------------
(* Holders are safe until the clock has shown the expiry they were told.   *)
LEMMA LocalPreservesHolding ==
  ASSUME HoldingInv, NEW w \in Workers, LocalStep(w)
  PROVE  TakersSawExpiry' /\ HoldersLive'
<1>1. PICK p \in {"idle", "read", "append"}, d \in Draft :
          /\ pc' = [pc EXCEPT ![w] = p]
          /\ draft' = [draft EXCEPT ![w] = d]
          /\ p = "append" => DraftFits(d)
          /\ p = "append" /\ d.kind \in {"acquired", "marked_stale"} =>
                ~IsLive(leases[d.resource], now)
  BY DEF LocalStep
<1>2. UNCHANGED <<seq, leases, now, latest, holders>>
  BY DEF LocalStep, store, history
<1>3. TakersSawExpiry'
  <2> SUFFICES ASSUME NEW v \in Workers, pc'[v] = "append", draft'[v].expected = seq',
                      draft'[v].kind \in {"acquired", "marked_stale"}
               PROVE  ~IsLive(leases[draft'[v].resource], latest)
    BY <1>2 DEF TakersSawExpiry, IsLive
  <2>1. CASE v = w
    <3>1. /\ draft'[v] = d /\ p = "append" /\ d.kind \in {"acquired", "marked_stale"}
      BY <1>1, <2>1 DEF HoldingInv, FencingInv, TypeOK
    <3>2. ~IsLive(leases[d.resource], now)
      BY <1>1, <3>1
    <3>3. now \in Nat /\ latest \in Nat /\ now <= latest
      BY DEF HoldingInv, FencingInv, TypeOK
    <3>4. CASE d.resource \in Resources
      <4>1. leases[d.resource].expires_at \in Nat
        BY <3>4 DEF HoldingInv, FencingInv, TypeOK, Lease, NoLease
      <4> QED
        BY <3>1, <3>2, <3>3, <4>1 DEF IsLive
    <3> QED
      BY <1>1, <3>1, <3>4 DEF DraftFits
  <2>2. CASE v # w
    BY <1>1, <1>2, <2>2 DEF HoldingInv, FencingInv, TypeOK, TakersSawExpiry
  <2> QED
    BY <2>1, <2>2
<1>4. HoldersLive'
  BY <1>2 DEF HoldingInv, HoldersLive
<1> QED
  BY <1>3, <1>4

\* The clock, moved forward or set back, preserves the holding invariant.
LEMMA ClockPreservesHolding ==
  ASSUME HoldingInv, Tick \/ StepBack
  PROVE  TakersSawExpiry' /\ HoldersLive'
<1>1. /\ UNCHANGED <<seq, leases, pc, draft, holders>>
      /\ latest \in Nat /\ latest' \in Nat /\ latest' >= latest
  BY DEF Tick, StepBack, store, workers, history, HoldingInv, FencingInv, TypeOK
<1>2. \A r \in Resources : leases[r].expires_at \in Nat
  BY DEF HoldingInv, FencingInv, TypeOK, Lease, NoLease
<1>3. TakersSawExpiry'
  <2> SUFFICES ASSUME NEW v \in Workers, pc[v] = "append", draft[v].expected = seq,
                      draft[v].kind \in {"acquired", "marked_stale"}
               PROVE  ~IsLive(leases[draft[v].resource], latest')
    BY <1>1 DEF TakersSawExpiry, IsLive
  <2>1. ~IsLive(leases[draft[v].resource], latest) /\ draft[v].resource \in Resources
    BY DEF HoldingInv, TakersSawExpiry, FencingInv, WorkersFit, DraftFits
  <2> QED
    BY <1>1, <1>2, <2>1 DEF IsLive
<1>4. HoldersLive'
  <2> SUFFICES ASSUME NEW h \in holders, h.until > latest'
               PROVE  h.until > latest
    BY <1>1 DEF HoldingInv, HoldersLive
  <2>1. h.until \in Nat
    BY DEF HoldingInv, FencingInv, TypeOK, Holder
  <2> QED
    BY <1>1, <2>1
<1> QED
  BY <1>3, <1>4

\* A committed event preserves the holding invariant.
LEMMA CommitPreservesHolding ==
  ASSUME HoldingInv, NEW w \in Workers, Commit(w) \/ CommitThenCrash(w)
  PROVE  TakersSawExpiry' /\ HoldersLive'
<1> DEFINE d == draft[w]
           r == d.resource
<1>1. /\ pc[w] = "append" /\ MayAppend(d) /\ Append(d) /\ Record(d) /\ latest' = latest
      /\ d.expected = seq /\ WorkerMovesOn(w)
  BY MovingOn DEF Commit, CommitThenCrash, MayAppend, HoldingInv, FencingInv
<1>2. PICK b \in BOOLEAN : holders' = HoldersAfter(d, b)
  BY DEF Commit, CommitThenCrash
<1>3. /\ r \in Resources /\ d.lease \in Lease /\ FreshDraftFits(d) /\ seq' = seq + 1
      /\ \/ d.kind \in EventKinds /\ leases' = [leases EXCEPT ![r] = d.lease]
         \/ d.kind = "mutation_committed" /\ leases' = leases
  BY <1>1, CommitEffect DEF HoldingInv, EventKinds
<1>4. seq \in Nat /\ latest \in Nat /\ leases \in [Resources -> Lease \cup {NoLease}]
      /\ holders \subseteq Holder
  BY DEF HoldingInv, FencingInv, TypeOK
<1>5. TakersSawExpiry'
  <2> SUFFICES ASSUME NEW v \in Workers, pc'[v] = "append"
               PROVE  draft'[v].expected # seq'
    BY DEF TakersSawExpiry
  <2>1. v # w /\ pc[v] = "append" /\ draft'[v] = draft[v]
    BY <1>1 DEF WorkerMovesOn, HoldingInv, FencingInv, TypeOK
  <2>2. draft[v].expected <= seq /\ draft[v].expected \in Nat
    BY <2>1 DEF HoldingInv, FencingInv, WorkersFit, DraftFits, TypeOK, Draft
  <2> QED
    BY <1>3, <1>4, <2>1, <2>2
<1>6. ASSUME NEW h \in holders', h.until > latest
      PROVE  /\ leases'[h.resource].fence = h.fence
             /\ leases'[h.resource].owner = h.owner
             /\ leases'[h.resource].state = "active"
             /\ leases'[h.resource].expires_at >= h.until
  <2>1. CASE h \notin holders
    <3>1. /\ d.kind \in {"acquired", "heartbeat"}
          /\ h = [resource |-> r, fence |-> d.lease.fence, owner |-> d.lease.owner,
                  until |-> d.lease.expires_at]
      BY <1>2, <1>6, <2>1 DEF HoldersAfter
    <3>2. leases'[r] = d.lease /\ d.lease.state = "active" /\ d.lease.expires_at \in Nat
      BY <1>3, <1>4, <3>1 DEF FreshDraftFits, Lease
    <3> QED
      BY <3>1, <3>2
  <2>2. CASE h \in holders
    <3>1. /\ leases[h.resource].fence = h.fence /\ leases[h.resource].owner = h.owner
          /\ leases[h.resource].state = "active" /\ leases[h.resource].expires_at >= h.until
          /\ h.resource \in Resources /\ h.until \in Nat /\ leases[h.resource].expires_at \in Nat
      BY <1>4, <1>6, <2>2 DEF HoldingInv, HoldersLive, Holder, Lease, NoLease
    <3>2. IsLive(leases[h.resource], latest)
      BY <1>4, <1>6, <3>1 DEF IsLive
    <3>3. CASE h.resource # r \/ d.kind = "mutation_committed"
      <4>1. leases'[h.resource] = leases[h.resource]
        BY <1>3, <1>4, <3>1, <3>3 DEF EventKinds
      <4> QED
        BY <3>1, <4>1
    <3>4. CASE h.resource = r /\ d.kind # "mutation_committed"
      <4>1. d.kind \notin {"acquired", "marked_stale"}
        BY <1>1, <3>2, <3>4 DEF HoldingInv, TakersSawExpiry
      <4>2. SameLease(h, d)
        BY <1>3, <3>1, <3>4, <4>1 DEF FreshDraftFits, SameLease
      <4>3. /\ d.kind \in {"acquired", "heartbeat"}
            /\ h = [resource |-> r, fence |-> d.lease.fence, owner |-> d.lease.owner,
                    until |-> d.lease.expires_at]
        BY <1>2, <1>6, <3>4, <4>1, <4>2 DEF HoldersAfter
      <4>4. leases'[r] = d.lease /\ d.lease.state = "active" /\ d.lease.expires_at \in Nat
        BY <1>3, <1>4, <4>3 DEF FreshDraftFits, Lease
      <4> QED
        BY <4>3, <4>4
    <3> QED
      BY <3>3, <3>4
  <2> QED
    BY <2>1, <2>2
<1>7. HoldersLive'
  BY <1>1, <1>6 DEF HoldersLive
<1> QED
  BY <1>5, <1>7

\* Every step preserves the holding invariant.
LEMMA HoldingStep ==
  ASSUME HoldingInv, [Next]_vars
  PROVE  HoldingInv'
<1>0. FencingInv'
  BY FencingStep DEF HoldingInv
<1>1. TypeOK /\ WorkersFit /\ Numbering
  BY DEF HoldingInv, FencingInv
<1>2. CASE UNCHANGED vars
  BY <1>0, <1>2 DEF vars, HoldingInv, TakersSawExpiry, HoldersLive, IsLive
<1>3. CASE Tick \/ StepBack
  BY <1>0, <1>3, ClockPreservesHolding DEF HoldingInv
<1>5. ASSUME NEW w \in Workers, Step(w)
      PROVE  HoldingInv'
  <2>1. CASE Read(w)
    BY <1>0, <1>1, <2>1, ReadIsLocal, LocalPreservesHolding DEF HoldingInv
  <2>2. CASE Conflict(w) \/ Crash(w)
    <3>1. /\ UNCHANGED <<seq, leases, now, latest, holders>>
          /\ \E p \in {"idle", "read"} : pc' = [pc EXCEPT ![w] = p]
          /\ draft' = [draft EXCEPT ![w] = NoDraft]
      BY <2>2 DEF Conflict, Crash, Finish, store, history
    <3>2. \A v \in Workers : pc'[v] = "append" => v # w /\ pc[v] = "append" /\ draft'[v] = draft[v]
      BY <1>1, <3>1 DEF TypeOK
    <3>3. TakersSawExpiry'
      BY <3>1, <3>2 DEF HoldingInv, TakersSawExpiry, IsLive
    <3>4. HoldersLive'
      BY <3>1 DEF HoldingInv, HoldersLive
    <3> QED
      BY <1>0, <3>3, <3>4 DEF HoldingInv
  <2>3. CASE Commit(w) \/ CommitThenCrash(w)
    BY <1>0, <2>3, CommitPreservesHolding DEF HoldingInv
  <2> QED
    BY <1>5, <2>1, <2>2, <2>3 DEF Step
<1> QED
  BY <1>2, <1>3, <1>5 DEF Next

(* Mutual exclusion in time: until the clock has once shown the expiry     *)
(* acquire or heartbeat last told it, and unless its lease is released or  *)
(* revoked, a caller's lease is the current one, however often the clock   *)
(* is set back.                                                            *)
THEOREM HoldersAreCurrent == Spec => []LiveHolderIsCurrent
<1>1. Init => HoldingInv
  <2>1. Init => TakersSawExpiry /\ HoldersLive
    BY DEF Init, TakersSawExpiry, HoldersLive
  <2> QED
    BY <2>1, FencingInit DEF HoldingInv
<1>2. HoldingInv /\ [Next]_vars => HoldingInv'
  BY HoldingStep
<1>3. HoldingInv => LiveHolderIsCurrent
  BY DEF HoldingInv, HoldersLive, LiveHolderIsCurrent
<1> QED
  BY <1>1, <1>2, <1>3, PTL DEF Spec
=============================================================================
