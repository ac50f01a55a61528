------------------------- MODULE SingleFlightProofs -------------------------
(***************************************************************************)
(* What SingleFlight guarantees for every finite set of clients and any    *)
(* number of source changes: one owner at a time, no build over a valid    *)
(* view but one whose owner failed after registering it, and exact         *)
(* reference counts as long as no view was rebuilt under a handle.         *)
(***************************************************************************)
EXTENDS SingleFlight, FiniteSetTheorems, TLAPS

Positions == {"out", "building", "built", "waiting", "woken", "holding", "released", "raised"}

\* The state but for its flags, and versions that are counted up: nobody
\* holds one to come.
TypeOK ==
    /\ pc \in [Clients -> Positions]
    /\ handle \in [Clients -> Nat]
    /\ inflight \in {"none", "pending", "cancelled"}
    /\ registered \in Nat
    /\ version \in Nat
    /\ valid \subseteq Nat
    /\ references \in Nat
    /\ registered <= version
    /\ \A c \in Clients : handle[c] <= version

\* OneOwner without cardinalities.
OwnerInv ==
    /\ \A c, d \in Owners : c = d
    /\ (Owners # {}) <=> (inflight # "none")
    /\ Waiting # {} => inflight = "pending"

\* Where `completed' stands between an owner's start and its publication:
\* nothing is completed while somebody builds, and a valid view is completed,
\* or still its owner's to publish, or left behind by an owner that failed.
CompletedInv ==
    /\ Owners # {} => ~completed
    /\ Available => completed \/ orphaned \/ \E c \in Clients : pc[c] = "built"

FlightInv == TypeOK /\ OwnerInv /\ CompletedInv

\* The reference count, and holders that hold something.
CountInv ==
    /\ ReferencesCountHandles
    /\ \A c \in Clients : pc[c] = "holding" => handle[c] # 0

-----------------------------------------------------------------------------
\* The initial states.
LEMMA FlightInit == Init => FlightInv /\ CountInv
<1> SUFFICES ASSUME Init PROVE FlightInv /\ CountInv
  OBVIOUS
<1>1. TypeOK
  BY DEF Init, TypeOK, Positions
<1>2. Owners = {} /\ Waiting = {}
  BY DEF Init, Owners, Waiting
<1>3. OwnerInv
  BY <1>2 DEF Init, OwnerInv
<1>4. CompletedInv
  BY <1>2 DEF Init, CompletedInv, Available
<1>5. CountInv
  BY DEF Init, CountInv, ReferencesCountHandles
<1> QED
  BY <1>1, <1>3, <1>4, <1>5 DEF FlightInv

\* Every step keeps the types.
LEMMA TypeStep == TypeOK /\ [Next]_vars => TypeOK'
<1> SUFFICES ASSUME TypeOK, [Next]_vars PROVE TypeOK'
  OBVIOUS
<1> USE DEF TypeOK, Positions, store, registry, history
<1>1. ASSUME NEW c \in Clients, Acquire(c) PROVE handle' \in [Clients -> Nat] /\ references' \in Nat
                                               /\ \A d \in Clients : handle'[d] <= version'
  BY <1>1 DEF Acquire
<1>2. ASSUME NEW c \in Clients, Enter(c) \/ Resume(c) PROVE TypeOK'
  <2>1. CASE Acquire(c) /\ pc' = [pc EXCEPT ![c] = "holding"] /\ UNCHANGED inflight
    BY <1>1, <2>1 DEF Acquire
  <2>2. CASE Join(c)
    BY <2>2 DEF Join
  <2> QED
    BY <1>2, <2>1, <2>2 DEF Enter, Resume
<1>3. ASSUME NEW c \in Clients, BuildView(c) PROVE TypeOK'
  BY <1>3 DEF BuildView, RegisterView
<1>4. ASSUME NEW c \in Clients, BuildFails(c) PROVE TypeOK'
  BY <1>4 DEF BuildFails, WakeAll
<1>5. ASSUME NEW c \in Clients, Publish(c) PROVE TypeOK'
  <2>1. pc' \in [Clients -> Positions] /\ inflight' \in {"none", "pending", "cancelled"}
    BY <1>5 DEF Publish, WakeAll
  <2>2. CASE Acquire(c)
    BY <1>1, <2>1, <2>2 DEF Acquire
  <2>3. CASE UNCHANGED <<handle, registry>>
    BY <2>1, <2>3
  <2> QED
    BY <1>5, <2>2, <2>3 DEF Publish
<1>6. ASSUME NEW c \in Clients, Cancel(c) PROVE TypeOK'
  BY <1>6 DEF Cancel, WakeAll
<1>7. ASSUME NEW c \in Clients, Release(c) PROVE TypeOK'
  BY <1>7 DEF Release, ReleaseKey
<1>8. CASE Invalidate
  <2>1. valid' \subseteq Nat
    BY <1>8 DEF Invalidate
  <2> QED
    BY <1>8, <2>1 DEF Invalidate
<1>9. CASE Gc
  BY <1>9, 0 <= version DEF Gc
<1>10. CASE UNCHANGED vars
  BY <1>10 DEF vars
<1> QED
  BY <1>2, <1>3, <1>4, <1>5, <1>6, <1>7, <1>8, <1>9, <1>10 DEF Next, Build

\* Every step keeps the owner unique and the in-flight entry in step with it.
LEMMA OwnerStep == TypeOK /\ OwnerInv /\ [Next]_vars => OwnerInv'
<1> SUFFICES ASSUME TypeOK, OwnerInv, [Next]_vars PROVE OwnerInv'
  OBVIOUS
<1> USE DEF TypeOK, OwnerInv, Owners, Waiting, store, registry, history
<1>1. ASSUME NEW c \in Clients, Enter(c) PROVE OwnerInv'
  BY <1>1 DEF Enter, Acquire, Join
<1>2. ASSUME NEW c \in Clients, BuildView(c) PROVE OwnerInv'
  BY <1>2 DEF BuildView, RegisterView
<1>3. ASSUME NEW c \in Clients, BuildFails(c) PROVE OwnerInv'
  BY <1>3 DEF BuildFails, WakeAll
<1>4. ASSUME NEW c \in Clients, Publish(c) PROVE OwnerInv'
  BY <1>4 DEF Publish, WakeAll
<1>5. ASSUME NEW c \in Clients, Resume(c) PROVE OwnerInv'
  BY <1>5 DEF Resume, Acquire, Join
<1>6. ASSUME NEW c \in Clients, Cancel(c) PROVE OwnerInv'
  BY <1>6 DEF Cancel, WakeAll
<1>7. ASSUME NEW c \in Clients, Release(c) PROVE OwnerInv'
  BY <1>7 DEF Release
<1>8. CASE Invalidate \/ Gc \/ UNCHANGED vars
  BY <1>8 DEF Invalidate, Gc, vars
<1> QED
  BY <1>1, <1>2, <1>3, <1>4, <1>5, <1>6, <1>7, <1>8 DEF Next, Build

\* Every step keeps `completed' true to the valid view.
LEMMA CompletedStep == FlightInv /\ [Next]_vars => CompletedInv'
<1> SUFFICES ASSUME FlightInv, [Next]_vars PROVE CompletedInv'
  OBVIOUS
<1> USE DEF FlightInv, TypeOK, OwnerInv, CompletedInv, Owners, Waiting, Available, store,
            registry, history
<1>1. ASSUME NEW c \in Clients, Enter(c) PROVE CompletedInv'
  BY <1>1 DEF Enter, Acquire, Join
<1>2. ASSUME NEW c \in Clients, BuildView(c) PROVE CompletedInv'
  BY <1>2 DEF BuildView, RegisterView
<1>3. ASSUME NEW c \in Clients, BuildFails(c) PROVE CompletedInv'
  BY <1>3 DEF BuildFails, WakeAll
<1>4. ASSUME NEW c \in Clients, Publish(c) PROVE CompletedInv'
  BY <1>4 DEF Publish, WakeAll, Acquire
<1>5. ASSUME NEW c \in Clients, Resume(c) PROVE CompletedInv'
  BY <1>5 DEF Resume, Acquire, Join
<1>6. ASSUME NEW c \in Clients, Cancel(c) PROVE CompletedInv'
  BY <1>6 DEF Cancel, WakeAll
<1>7. ASSUME NEW c \in Clients, Release(c) PROVE CompletedInv'
  BY <1>7 DEF Release, ReleaseKey
<1>8. CASE Invalidate
  <2>1. completed' => completed
    BY <1>8 DEF Invalidate
  <2>2. ~Available'
    BY <1>8 DEF Invalidate
  <2> QED
    BY <1>8, <2>1, <2>2 DEF Invalidate
<1>9. CASE Gc
  BY <1>9 DEF Gc
<1>10. CASE UNCHANGED vars
  BY <1>10 DEF vars
<1> QED
  BY <1>1, <1>2, <1>3, <1>4, <1>5, <1>6, <1>7, <1>8, <1>9, <1>10 DEF Next, Build

\* The invariant of get_or_build: one owner, the in-flight entry exactly while
\* there is one, and no valid view that is neither completed, nor its owner's to
\* publish, nor left behind by a failed owner.
THEOREM FlightSafe == Spec => []FlightInv
<1>1. FlightInv /\ [Next]_vars => FlightInv'
  BY TypeStep, OwnerStep, CompletedStep DEF FlightInv
<1> QED
  BY <1>1, FlightInit, PTL DEF Spec

\* At most one client owns the build of a key, and the future the others wait
\* on is there exactly while it does (SingleFlightMapStore.get_or_build).
THEOREM SingleOwner == Spec => []OneOwner
<1>1. FlightInv => OneOwner
  <2> SUFFICES ASSUME FlightInv PROVE Cardinality(Owners) <= 1
    BY DEF FlightInv, OwnerInv, OneOwner
  <2>1. CASE Owners = {}
    BY <2>1, FS_EmptySet
  <2>2. CASE Owners # {}
    <3>1. PICK c \in Owners : TRUE
      BY <2>2
    <3>2. Owners = {c}
      BY <3>1 DEF FlightInv, OwnerInv
    <3> QED
      BY <3>2, FS_Singleton
  <2> QED
    BY <2>1, <2>2
<1> QED
  BY <1>1, FlightSafe, PTL

\* No build replaces a valid view, unless its owner failed before publishing it:
\* whoever builds is the only owner and has not registered a view yet, so a valid
\* one that is not left behind would be completed, and then nobody builds.
THEOREM NoNeedlessBuild == Spec => BuiltOncePerGeneration
<1>1. FlightInv /\ [Next]_vars =>
        [registered' \notin {registered, 0} /\ Available => orphaned]_vars
  <2> SUFFICES ASSUME FlightInv, Next, registered' \notin {registered, 0}, Available
               PROVE  orphaned
    BY DEF vars, registry
  <2>1. PICK c \in Clients : BuildView(c)
    BY DEF Next, Build, Enter, Acquire, Join, BuildFails, Publish, Resume, Cancel, Release,
           ReleaseKey, Invalidate, Gc, store, registry, history
  <2>2. ~completed
    BY <2>1 DEF BuildView, Owners, FlightInv, CompletedInv
  <2>3. \A d \in Clients : pc[d] # "built"
    BY <2>1 DEF BuildView, Owners, FlightInv, OwnerInv
  <2> QED
    BY <2>2, <2>3 DEF FlightInv, CompletedInv
<1> QED
  BY <1>1, FlightSafe, PTL DEF Spec, BuiltOncePerGeneration

-----------------------------------------------------------------------------
\* What acquiring and releasing do to the set of holders.
LEMMA HoldersFinite == \A v : IsFiniteSet(Holders(v)) /\ Cardinality(Holders(v)) \in Nat
BY SingleFlightAssumption, FS_Subset, FS_CardinalityType DEF Holders

\* A client that did not hold anything gets the registered view.
LEMMA AcquireCounts ==
    ASSUME TypeOK, CountInv, NEW c \in Clients, pc[c] # "holding", Available, Acquire(c),
           pc'[c] = "holding", UNCHANGED overlapped,
           \A d \in Clients : d # c => (pc'[d] = "holding" <=> pc[d] = "holding")
    PROVE  CountInv'
<1>1. Holders(registered)' = Holders(registered) \cup {c}
  BY DEF TypeOK, Holders, Acquire
<1>2. c \notin Holders(registered)
  BY DEF Holders
<1>3. Cardinality(Holders(registered)') = Cardinality(Holders(registered)) + 1
  BY <1>1, <1>2, HoldersFinite, FS_AddElement
<1>4. \A d \in Clients : pc'[d] = "holding" => handle'[d] # 0
  BY DEF TypeOK, CountInv, Acquire, Available
<1>5. ReferencesCountHandles'
  BY <1>3 DEF TypeOK, CountInv, ReferencesCountHandles, Acquire, Available
<1> QED
  BY <1>4, <1>5 DEF CountInv

\* Steps that touch neither views nor handles nor who holds one.
LEMMA QuietCount ==
    ASSUME CountInv, UNCHANGED <<handle, registered, references, overlapped>>,
           \A d \in Clients : pc'[d] = "holding" <=> pc[d] = "holding"
    PROVE  CountInv'
<1>1. Holders(registered)' = Holders(registered)
  BY DEF Holders
<1> QED
  BY <1>1 DEF CountInv, ReferencesCountHandles

\* Every step keeps the count exact until a held view is rebuilt.
LEMMA CountStep == TypeOK /\ CountInv /\ [Next]_vars => CountInv'
<1> SUFFICES ASSUME TypeOK, CountInv, [Next]_vars PROVE CountInv'
  OBVIOUS
<1> USE DEF store, registry, history
<1>1. ASSUME NEW c \in Clients, Enter(c) \/ Resume(c) PROVE CountInv'
  <2>1. CASE Available /\ Acquire(c) /\ pc' = [pc EXCEPT ![c] = "holding"] /\ pc[c] # "holding"
    BY <1>1, <2>1, AcquireCounts DEF Enter, Resume, TypeOK
  <2>2. CASE Join(c)
    BY <1>1, <2>2, QuietCount DEF Enter, Resume, Join, TypeOK
  <2> QED
    BY <1>1, <2>1, <2>2 DEF Enter, Resume
<1>2. ASSUME NEW c \in Clients, BuildView(c) PROVE CountInv'
  <2>1. \A d \in Clients : pc'[d] = "holding" <=> pc[d] = "holding"
    BY <1>2 DEF BuildView, TypeOK
  <2>2. Holders(registered)' = {}
    BY <1>2, <2>1 DEF BuildView, RegisterView, Holders, TypeOK
  <2>3. ASSUME ~overlapped', NEW d \in Clients, pc[d] = "holding" PROVE FALSE
    BY <1>2, <2>3 DEF BuildView, RegisterView, Holders, CountInv, ReferencesCountHandles, TypeOK
  <2>4. ReferencesCountHandles'
    BY <1>2, <2>1, <2>2, <2>3, FS_EmptySet
       DEF BuildView, RegisterView, ReferencesCountHandles
  <2> QED
    BY <1>2, <2>1, <2>4 DEF BuildView, CountInv
<1>3. ASSUME NEW c \in Clients, BuildFails(c) \/ Cancel(c) PROVE CountInv'
  <2>1. \A d \in Clients : pc'[d] = "holding" <=> pc[d] = "holding"
    BY <1>3 DEF BuildFails, Cancel, WakeAll, Waiting, TypeOK
  <2> QED
    BY <1>3, <2>1, QuietCount DEF BuildFails, Cancel
<1>4. ASSUME NEW c \in Clients, Publish(c) PROVE CountInv'
  <2>1. \A d \in Clients : d # c => (pc'[d] = "holding" <=> pc[d] = "holding")
    BY <1>4 DEF Publish, WakeAll, Waiting, TypeOK
  <2>2. CASE Available /\ Acquire(c) /\ WakeAll("woken", c, "holding")
    <3>1. pc[c] # "holding" /\ pc'[c] = "holding" /\ UNCHANGED overlapped
      BY <1>4, <2>2 DEF Publish, WakeAll
    <3> QED
      BY <2>1, <2>2, <3>1, AcquireCounts
  <2>3. CASE UNCHANGED <<handle, registry>> /\ pc'[c] # "holding"
    BY <1>4, <2>1, <2>3, QuietCount DEF Publish, TypeOK
  <2> QED
    BY <1>4, <2>2, <2>3 DEF Publish, WakeAll, TypeOK
<1>5. ASSUME NEW c \in Clients, Release(c) PROVE CountInv'
  <2>1. Holders(registered)' = Holders(registered) \ {c}
    BY <1>5 DEF Release, ReleaseKey, Holders, TypeOK
  <2>2. ~overlapped => c \in Holders(registered) /\ registered # 0
    BY <1>5 DEF Release, CountInv, ReferencesCountHandles, Holders
  <2>3. ~overlapped => /\ Cardinality(Holders(registered)') = references - 1
                       /\ references # 0
    <3> SUFFICES ASSUME ~overlapped
                 PROVE  /\ Cardinality(Holders(registered)') = references - 1
                        /\ references # 0
      OBVIOUS
    <3>1. references = Cardinality(Holders(registered))
      BY <2>2 DEF CountInv, ReferencesCountHandles
    <3>2. references # 0
      BY <2>2, <3>1, HoldersFinite, FS_EmptySet
    <3> QED
      BY <2>1, <2>2, <3>1, <3>2, HoldersFinite, FS_RemoveElement
  <2>4. \A d \in Clients : pc'[d] = "holding" => pc[d] = "holding"
    BY <1>5 DEF Release, TypeOK
  <2> QED
    BY <1>5, <2>2, <2>3, <2>4 DEF Release, ReleaseKey, CountInv, ReferencesCountHandles, TypeOK
<1>6. CASE Invalidate
  BY <1>6, QuietCount DEF Invalidate
<1>7. CASE Gc
  <2>1. ~overlapped => \A d \in Clients : pc[d] # "holding"
    <3> SUFFICES ASSUME ~overlapped, NEW d \in Clients, pc[d] = "holding" PROVE FALSE
      OBVIOUS
    <3>1. d \in Holders(registered)
      BY <1>7 DEF Gc, CountInv, ReferencesCountHandles, Holders
    <3>2. Cardinality(Holders(registered)) = 0
      BY <1>7 DEF Gc, CountInv, ReferencesCountHandles
    <3> QED
      BY <3>1, <3>2, HoldersFinite, FS_EmptySet
  <2> QED
    BY <1>7, <2>1 DEF Gc, CountInv, ReferencesCountHandles
<1>8. CASE UNCHANGED vars
  BY <1>8, QuietCount DEF vars
<1> QED
  BY <1>1, <1>2, <1>3, <1>4, <1>5, <1>6, <1>7, <1>8 DEF Next, Build

\* As long as no held view was rebuilt, a view's references are its handles and
\* gc never takes a view from its holder.
THEOREM CountsAreExact == Spec => []ReferencesCountHandles
<1>1. TypeOK /\ CountInv /\ [Next]_vars => (TypeOK /\ CountInv)'
  BY TypeStep, CountStep
<1>2. CountInv => ReferencesCountHandles
  BY DEF CountInv
<1>3. Init => TypeOK /\ CountInv
  BY FlightInit DEF FlightInv
<1> QED
  BY <1>1, <1>2, <1>3, PTL DEF Spec
=============================================================================
