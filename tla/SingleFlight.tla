---------------------------- MODULE SingleFlight ----------------------------
(***************************************************************************)
(* simplicio_loop/map_service_single_flight.py, class SingleFlightMapStore,*)
(* over the view registry of simplicio_loop/map_service.py: clients that   *)
(* ask for the map view of one key, of whom one builds it and the others   *)
(* wait, while the identity is invalidated and the registry collected.     *)
(*                                                                         *)
(* The store is safe within one event loop only, so an action is what runs *)
(* between two suspensions.  A view object is its version; the registry    *)
(* keeps one object per cache key, and a rebuild of the key puts a new     *)
(* object, without references, in the place of the old one.  A handle      *)
(* holds the object it was given, but release() goes by the cache key.     *)
(* Each client asks once.  The build-owner lease is taken and given back   *)
(* in the steps that add and remove the in-flight entry, so it is that     *)
(* entry here; its time-out is one of the ways a build fails.              *)
(*                                                                         *)
(* The owner runs its builder inline up to the builder's first suspension, *)
(* so a view may be registered before waiters that were woken earlier have *)
(* resumed, and long before its owner publishes it or fails: such a waiter *)
(* takes a view that nobody has completed yet.                             *)
(***************************************************************************)
EXTENDS Naturals, FiniteSets

CONSTANTS
    Clients,
    MaxInvalidations  \* bound: how often the source changes

ASSUME SingleFlightAssumption ==
    /\ IsFiniteSet(Clients)
    /\ MaxInvalidations \in Nat

VARIABLES
    pc,             \* where each client's get_or_build is
    handle,         \* the version each client was given, 0 for none
    inflight,       \* _inflight[key]: "none", or the future's state
    completed,      \* _completed has the key
    registered,     \* the version _views holds for the cache key, 0 for none
    version,        \* _version
    valid,          \* the versions whose valid flag is set
    references,     \* the registered object's reference count
    invalidations,  \* how often the source changed
    overlapped,     \* history: a held view was replaced by a rebuild
    orphaned        \* history: the registered view's owner failed after registering it

store == <<inflight, completed>>
registry == <<registered, version, valid, references>>
history == <<invalidations, overlapped, orphaned>>
vars == <<pc, handle, store, registry, history>>

Init ==
    /\ pc = [c \in Clients |-> "out"]
    /\ handle = [c \in Clients |-> 0]
    /\ inflight = "none"
    /\ completed = FALSE
    /\ registered = 0
    /\ version = 0
    /\ valid = {}
    /\ references = 0
    /\ invalidations = 0
    /\ overlapped = FALSE
    /\ orphaned = FALSE

Holders(v) == {c \in Clients : pc[c] = "holding" /\ handle[c] = v}
Owners == {c \in Clients : pc[c] \in {"building", "built"}}
Waiting == {c \in Clients : pc[c] = "waiting"}

(* Everybody who waits on the future moves on; the owner c goes elsewhere. *)
WakeAll(to, c, position) ==
    pc' = [d \in Clients |-> IF d = c THEN position
                             ELSE IF d \in Waiting THEN to ELSE pc[d]]

-----------------------------------------------------------------------------
(* The registry.                                                           *)

(* get_view would return a view rather than raise.                         *)
Available == registered # 0 /\ registered \in valid

(* get_view with acquire, wrapped in a handle.                             *)
Acquire(c) ==
    /\ handle' = [handle EXCEPT ![c] = registered]
    /\ references' = references + 1
    /\ UNCHANGED <<registered, version, valid>>

(* _view: a fresh object takes the cache key, without references; the one  *)
(* it replaces is out of release()'s reach.                                *)
RegisterView ==
    /\ version' = version + 1
    /\ registered' = version'
    /\ valid' = valid \cup {version'}
    /\ references' = 0
    /\ overlapped' = (overlapped \/ (registered # 0 /\ Holders(registered) # {}))
    /\ orphaned' = FALSE

(* release: whatever object the cache key has now gives up a reference.    *)
ReleaseKey ==
    /\ references' = IF registered = 0 \/ references = 0 THEN references ELSE references - 1
    /\ UNCHANGED <<registered, version, valid>>

-----------------------------------------------------------------------------
(* get_or_build.                                                           *)

\* Faulty variant of Join: the owner's future is not left for the others.
JoinUnregistered(c) ==
    /\ inflight = "none"
    /\ pc' = [pc EXCEPT ![c] = "building"]
    /\ UNCHANGED <<inflight, handle, registry>>

(* Nothing usable is cached: become the owner of a new future, or wait on  *)
(* the one that is there.  Awaiting a cancelled future raises at once.     *)
Join(c) ==
    /\ \/ inflight = "none" /\ inflight' = "pending" /\ pc' = [pc EXCEPT ![c] = "building"]
       \/ inflight = "pending" /\ pc' = [pc EXCEPT ![c] = "waiting"] /\ UNCHANGED inflight
       \/ inflight = "cancelled" /\ pc' = [pc EXCEPT ![c] = "raised"] /\ UNCHANGED inflight
    /\ UNCHANGED <<handle, registry>>

(* The lookup under the store's lock: a completed key whose view is gone   *)
(* or invalid is forgotten.                                                *)
Enter(c) ==
    /\ pc[c] = "out"
    /\ \/ /\ completed /\ Available
          /\ Acquire(c)
          /\ pc' = [pc EXCEPT ![c] = "holding"]
          /\ UNCHANGED store
       \/ /\ ~(completed /\ Available)
          /\ completed' = FALSE
          /\ Join(c)
    /\ UNCHANGED history

(* The builder registers its view; its owner goes on in a later step, or   *)
(* the builder suspends once more and may still fail.                      *)
BuildView(c) ==
    /\ pc[c] = "building"
    /\ RegisterView
    /\ pc' = [pc EXCEPT ![c] = "built"]
    /\ UNCHANGED <<handle, store, invalidations>>

\* Faulty variant of BuildFails: the future is left pending for good.
BuildFailsSilently(c) ==
    /\ pc[c] \in {"building", "built"}
    /\ orphaned' = (orphaned \/ pc[c] = "built")
    /\ pc' = [pc EXCEPT ![c] = "raised"]
    /\ UNCHANGED <<handle, store, registry, invalidations, overlapped>>

(* The builder raised, ran out of time, was cancelled with its owner, or   *)
(* returned a view for another key: the waiters get the same exception.    *)
(* A view it had registered stays, and is not completed.                   *)
BuildFails(c) ==
    /\ pc[c] \in {"building", "built"}
    /\ orphaned' = (orphaned \/ pc[c] = "built")
    /\ inflight' = "none"
    /\ WakeAll("raised", c, "raised")
    /\ UNCHANGED <<handle, completed, registry, invalidations, overlapped>>

\* Faulty variant of Publish: the finished build is not remembered.
PublishUnremembered(c) ==
    /\ pc[c] = "built" /\ inflight = "pending" /\ Available
    /\ inflight' = "none"
    /\ WakeAll("woken", c, "holding")
    /\ Acquire(c)
    /\ UNCHANGED <<completed, history>>

(* The owner publishes the cache key and awaits its own future, which is   *)
(* done: with the key, unless a waiter's cancellation cancelled it.  If    *)
(* the view was invalidated since it was built, the owner starts again.    *)
Publish(c) ==
    /\ pc[c] = "built"
    /\ \/ /\ inflight = "pending" /\ Available
          /\ completed' = TRUE /\ inflight' = "none"
          /\ WakeAll("woken", c, "holding")
          /\ Acquire(c)
       \/ /\ inflight = "pending" /\ ~Available
          /\ completed' = FALSE /\ inflight' = "pending"
          /\ WakeAll("woken", c, "building")
          /\ UNCHANGED <<handle, registry>>
       \/ /\ inflight = "cancelled"
          /\ completed' = TRUE /\ inflight' = "none"
          /\ pc' = [pc EXCEPT ![c] = "raised"]
          /\ UNCHANGED <<handle, registry>>
    /\ UNCHANGED history

(* A waiter resumes with the cache key.  Between the owner's step and this *)
(* one the view may have been invalidated and collected: start again.      *)
Resume(c) ==
    /\ pc[c] = "woken"
    /\ \/ /\ Available
          /\ Acquire(c)
          /\ pc' = [pc EXCEPT ![c] = "holding"]
          /\ UNCHANGED store
       \/ /\ ~Available
          /\ completed' = FALSE
          /\ Join(c)
    /\ UNCHANGED history

(* A waiter's task is cancelled.  It awaits the shared future itself, so   *)
(* that future is cancelled with it and raises in everybody who awaits it. *)
Cancel(c) ==
    /\ \/ pc[c] = "waiting" /\ inflight' = "cancelled" /\ WakeAll("raised", c, "raised")
       \/ pc[c] = "woken" /\ pc' = [pc EXCEPT ![c] = "raised"] /\ UNCHANGED inflight
    /\ UNCHANGED <<handle, completed, registry, history>>

(* MapHandle.release.                                                      *)
Release(c) ==
    /\ pc[c] = "holding"
    /\ pc' = [pc EXCEPT ![c] = "released"]
    /\ ReleaseKey
    /\ UNCHANGED <<handle, store, history>>

-----------------------------------------------------------------------------
(* invalidate, through the store or in the registry alone (a watcher that  *)
(* has no store, a superseded identity): then the key stays completed.     *)
Invalidate ==
    /\ invalidations < MaxInvalidations
    /\ Available
    /\ invalidations' = invalidations + 1
    /\ valid' = valid \ {registered}
    /\ completed' \in {FALSE, completed}
    /\ UNCHANGED <<pc, handle, inflight, registered, version, references, overlapped, orphaned>>

\* Faulty variant of Gc: an invalid view goes whoever holds it.
GcRegardless ==
    /\ registered # 0 /\ registered \notin valid
    /\ registered' = 0
    /\ UNCHANGED <<pc, handle, store, version, valid, references, history>>

Gc ==
    /\ registered # 0 /\ registered \notin valid /\ references = 0
    /\ registered' = 0
    /\ UNCHANGED <<pc, handle, store, version, valid, references, history>>

-----------------------------------------------------------------------------
Build(c) == BuildView(c) \/ BuildFails(c) \/ Publish(c)

Next ==
    \/ \E c \in Clients : Enter(c) \/ Build(c) \/ Resume(c) \/ Cancel(c) \/ Release(c)
    \/ Invalidate
    \/ Gc

Spec == Init /\ [][Next]_vars

(* A builder ends one way or the other, and the loop resumes every task    *)
(* that can run.                                                           *)
FairSpec == Spec /\ \A c \in Clients : WF_vars(Build(c)) /\ WF_vars(Resume(c))

-----------------------------------------------------------------------------
(* At most one client builds the key, and the in-flight entry is there     *)
(* exactly while one does: nobody is sent to wait for an owner that left,  *)
(* and no second owner starts beside the first.                            *)
OneOwner ==
    /\ Cardinality(Owners) <= 1
    /\ (Owners # {}) <=> (inflight # "none")
    /\ Waiting # {} => inflight = "pending"

(* A key is built at most once per still-valid generation: no build        *)
(* replaces a valid view, held or not, unless the owner that registered    *)
(* that view failed before it could publish it.                            *)
BuiltOncePerGeneration ==
    [][registered' \notin {registered, 0} /\ Available => orphaned]_vars

(* As long as no view was rebuilt under a handle, references counts the    *)
(* handles and the registry keeps every view that somebody holds.          *)
ReferencesCountHandles ==
    ~overlapped =>
        /\ registered # 0 => references = Cardinality(Holders(registered))
        /\ \A c \in Clients : pc[c] = "holding" => handle[c] = registered

(* Every call of get_or_build returns a handle or raises, however often    *)
(* owners fail, waiters are cancelled and views are collected under it.    *)
EveryCallReturns ==
    \A c \in Clients :
        pc[c] \in {"building", "built", "waiting", "woken"} ~>
            pc[c] \in {"holding", "released", "raised"}

(* "consumers must release their handles before garbage collection removes *)
(* it": gc never removes a view somebody holds.                            *)
HandlesOutliveGc ==
    [][registered' = 0 /\ registered # 0 => Holders(registered) = {}]_vars
=============================================================================
