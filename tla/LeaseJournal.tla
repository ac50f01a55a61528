---------------------------- MODULE LeaseJournal ----------------------------
(***************************************************************************)
(* The vocabulary of simplicio_loop/slot_lease.py: a lease, what an event  *)
(* of the journal does to the projection _state() computes from it, and    *)
(* the guards the store's operations evaluate on that projection.          *)
(*                                                                         *)
(* Only constant operators live here; LeaseStore is the machine built      *)
(* with them.  An operator described as a faulty variant is not part of    *)
(* the model: PROJECT.json's "mutants" say which property catches it.      *)
(***************************************************************************)
EXTENDS Integers

CONSTANTS
    Resources,   \* resource keys
    Owners,      \* owner identities
    Keys,        \* keys of the protected values of a resource
    None         \* "no such thing": no owner, no key, no resource

ASSUME NoneAssumption == None \notin Resources \cup Owners \cup Keys

LeaseStates == {"active", "released", "stale"}

(* issued_at and heartbeat_at only feed reports, so they are left out.     *)
Lease == [owner: Owners, attempt: Nat, fence: Nat, expires_at: Nat, state: LeaseStates]

(* state["leases"].get(resource_key) when the resource was never leased:   *)
(* attempt and fence 0, so that "current.attempt + 1" also covers None.    *)
NoLease == [owner |-> None, attempt |-> 0, fence |-> 0, expires_at |-> 0, state |-> "none"]

(* A protected value is told apart by who wrote it and under which fence.  *)
Protected == [writer: Owners \cup {None}, fence: Nat]
NoValue   == [writer |-> None, fence |-> 0]

Larger(a, b) == IF a >= b THEN a ELSE b

(* Is the lease live at time t?  Its holder is then the resource's owner.  *)
IsLive(lease, t) == lease.state = "active" /\ lease.expires_at > t

(* Faulty variant of HasExpired: off by one.                               *)
HasExpiredEarly(lease, t) == lease.state = "active" /\ lease.expires_at <= t + 1

(* An active lease whose time is up, which mark_stale looks for.           *)
HasExpired(lease, t) == lease.state = "active" /\ lease.expires_at <= t

(* Faulty variant of RequireCurrent: a released or stale lease will do.    *)
RequireUnexpired(lease, owner, fence, t) ==
    lease.expires_at > t /\ lease.owner = owner /\ lease.fence = fence

(* The guard of heartbeat, put and release.                                *)
RequireCurrent(lease, owner, fence, t) ==
    /\ IsLive(lease, t)
    /\ lease.owner = owner
    /\ lease.fence = fence

(* Faulty variants of Granted: the fence is not raised; attempts are       *)
(* counted for each owner.                                                 *)
GrantedUnraised(lease, counter, owner, t, ttl) ==
    [owner |-> owner, attempt |-> lease.attempt + 1, fence |-> Larger(counter, 1),
     expires_at |-> t + ttl, state |-> "active"]
GrantedPerOwner(lease, counter, owner, t, ttl) ==
    [owner |-> owner, attempt |-> IF lease.owner = owner THEN lease.attempt + 1 ELSE 1,
     fence |-> counter + 1, expires_at |-> t + ttl, state |-> "active"]

(* The lease acquire builds from the projection.                           *)
Granted(lease, counter, owner, t, ttl) ==
    [owner |-> owner, attempt |-> lease.attempt + 1, fence |-> counter + 1,
     expires_at |-> t + ttl, state |-> "active"]

Renewed(lease, t, ttl) == [lease EXCEPT !.expires_at = t + ttl]
Released(lease)        == [lease EXCEPT !.state = "released"]
MarkedStale(lease)     == [lease EXCEPT !.state = "stale"]

(* Faulty variant of Invalidated: the event's name becomes the state.      *)
InvalidatedState(lease) == [lease EXCEPT !.state = "invalidated"]

(* invalidate() records a new state only for an active lease.              *)
Invalidated(lease) ==
    [lease EXCEPT !.state = IF lease.state = "active" THEN "stale" ELSE lease.state]

EventKinds == {"acquired", "heartbeat", "released", "marked_stale", "invalidated"}

(* The projection step of _state(): a lease event replaces the lease and   *)
(* raises the resource's fence counter, a mutation replaces a value.       *)
ApplyLeases(leases, e) ==
    IF e.kind \in EventKinds THEN [leases EXCEPT ![e.resource] = e.lease] ELSE leases

ApplyCounters(counters, e) ==
    IF e.kind \in EventKinds
    THEN [counters EXCEPT ![e.resource] = Larger(counters[e.resource], e.lease.fence)]
    ELSE counters

ApplyProtected(protected, e) ==
    IF e.kind = "mutation_committed"
    THEN [protected EXCEPT ![e.resource] =
             [@ EXCEPT ![e.key] = [writer |-> e.lease.owner, fence |-> e.lease.fence]]]
    ELSE protected
=============================================================================
