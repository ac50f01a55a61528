--------------------- MODULE CheckpointLifecycleProofs ----------------------
(***************************************************************************)
(* What CheckpointLifecycle guarantees for every set of candidates and of  *)
(* coordinators, with a kill possible between any two files: one winner is *)
(* sealed, it keeps its files, and the broker's collector leaves pinned    *)
(* candidates alone.                                                       *)
(***************************************************************************)
EXTENDS CheckpointLifecycle, TLAPS

Fences == [winner: Candidates, digest: [Candidates -> Nat]] \cup {NoFence, TornFence}
Coordinator ==
    [at: {"start", "check", "create", "write", "sync", "cancel"},
     fence: Fences, losers: SUBSET Candidates]
Collector ==
    [at: {"idle", "next", "overlay", "checkpoints", "receipt"},
     todo: SUBSET Candidates, cur: Candidates \cup {NoCandidate}]

TypeOK ==
    /\ overlay \subseteq Candidates /\ present \subseteq Candidates
    /\ ready \subseteq Candidates /\ cancelled \subseteq Candidates
    /\ pinned \subseteq Candidates /\ byOperator \subseteq Candidates
    /\ written \in [Candidates -> Nat]
    /\ fence \in Fences
    /\ coord \in [Coordinators -> Coordinator]
    /\ gc \in [Collectors -> Collector]
    /\ withdrawn \subseteq Fences

\* A coordinator that selected knows a winner, and cancels nobody else's.
SelectionsProper ==
    \A p \in Coordinators :
        coord[p].at # "start" =>
            /\ coord[p].fence.winner \in Candidates
            /\ coord[p].fence.winner \notin coord[p].losers

\* Creating the file without O_EXCL's refusal makes a coordinator its only
\* writer until it is done with it.
Writing(p) == coord[p].at \in {"write", "sync"}

OneWriter ==
    /\ \A p, q \in Coordinators : Writing(p) /\ Writing(q) => p = q
    /\ \A p \in Coordinators :
          /\ coord[p].at = "write" => fence = TornFence
          /\ coord[p].at = "sync" => fence = coord[p].fence
          /\ coord[p].at = "cancel" => withdrawn # {} \/ fence = coord[p].fence

SealInv == TypeOK /\ SelectionsProper /\ OneWriter

\* What a collector may remove, and what is safe from collectors.
Doomed(c) == c \in cancelled \/ \E g \in Collectors : c \in gc[g].todo \/ c = gc[g].cur
Kept(c) == c \in byOperator \/ c \in overlay \cap present

KeptInv ==
    withdrawn = {} =>
        /\ \A c \in Candidates : Doomed(c) => c \in byOperator \/ (Sealed /\ c # fence.winner)
        /\ Sealed => Kept(fence.winner)
        /\ \A p \in Coordinators :
              coord[p].at # "start" /\ ~Sealed => Kept(coord[p].fence.winner)

-----------------------------------------------------------------------------
\* The initial states.
LEMMA LifecycleInit == Init => SealInv /\ KeptInv /\ BrokerGcKeepsPins
<1> SUFFICES ASSUME Init PROVE SealInv /\ KeptInv /\ BrokerGcKeepsPins
  OBVIOUS
<1> USE DEF Init, Collectors, Start, Idle, NoFence
<1>1. TypeOK
  BY DEF TypeOK, Fences, Coordinator, Collector
<1>2. SelectionsProper /\ OneWriter
  BY DEF SelectionsProper, OneWriter, Writing
<1>3. KeptInv
  BY LifecycleAssumption DEF KeptInv, Doomed, Sealed
<1>4. BrokerGcKeepsPins
  BY DEF BrokerGcKeepsPins
<1> QED
  BY <1>1, <1>2, <1>3, <1>4 DEF SealInv

\* The step of one coordinator, candidate or collector keeps the types.
LEMMA TypeStep == TypeOK /\ [Next]_vars => TypeOK'
<1> SUFFICES ASSUME TypeOK, [Next]_vars PROVE TypeOK'
  OBVIOUS
<1> USE DEF TypeOK, files, history
<1>1. ASSUME NEW c \in Candidates, Checkpoint(c) \/ Pin(c) \/ Unpin(c) \/ OperatorCancel(c)
      PROVE  TypeOK'
  BY <1>1 DEF Checkpoint, Pin, Unpin, OperatorCancel
<1>2. ASSUME NEW p \in Coordinators, NEW w \in Candidates, Select(p, w)
      PROVE  TypeOK'
  BY <1>2 DEF Select, Coordinator, Fences
<1>3. ASSUME NEW p \in Coordinators, Seal(p) \/ CoordinatorRestarts(p)
      PROVE  TypeOK'
  <2> USE DEF Coordinator, Fences, Go, FoundFence, Start
  <2>1. CASE SealCheck(p)
    BY <2>1 DEF SealCheck
  <2>2. CASE SealCreate(p)
    BY <2>2 DEF SealCreate
  <2>3. CASE SealWrite(p) \/ SealSync(p)
    BY <2>3 DEF SealWrite, SealSync
  <2>4. CASE SealFails(p) \/ CoordinatorRestarts(p)
    BY <2>4 DEF SealFails, CoordinatorRestarts
  <2>5. CASE CancelLoser(p)
    <3>1. PICK c \in coord[p].losers :
             /\ coord' = [coord EXCEPT ![p].losers = @ \ {c}]
             /\ cancelled' \in {cancelled, cancelled \cup {c}}
      BY <2>5 DEF CancelLoser
    <3>2. cancelled' \subseteq Candidates
      BY <3>1
    <3>3. coord' \in [Coordinators -> Coordinator]
      BY <3>1
    <3> QED
      BY <2>5, <3>2, <3>3 DEF CancelLoser
  <2> QED
    BY <1>3, <2>1, <2>2, <2>3, <2>4, <2>5 DEF Seal
<1>4. ASSUME NEW g \in Collectors, Collect(g) \/ GcCrash(g)
      PROVE  TypeOK'
  <2> USE DEF Collector, Idle
  <2>1. CASE GcScan(g)
    BY <2>1 DEF GcScan, Eligible
  <2>2. CASE GcNext(g)
    BY <2>2 DEF GcNext
  <2>3. CASE GcOverlay(g) \/ GcCheckpoints(g) \/ GcReceipt(g) \/ GcCrash(g)
    BY <2>3 DEF GcOverlay, GcCheckpoints, GcReceipt, GcCrash
  <2> QED
    BY <1>4, <2>1, <2>2, <2>3 DEF Collect
<1>5. CASE UNCHANGED vars
  BY <1>5 DEF vars
<1> QED
  BY <1>1, <1>2, <1>3, <1>4, <1>5 DEF Next

-----------------------------------------------------------------------------
\* What the seal depends on is not touched by candidates and collectors.
LEMMA OthersKeepSeal ==
    ASSUME SealInv, UNCHANGED <<fence, coord, withdrawn>>
    PROVE  SelectionsProper' /\ OneWriter'
BY DEF SealInv, SelectionsProper, OneWriter, Writing

\* A step of a coordinator keeps the seal's invariant.
LEMMA SealStep ==
    ASSUME SealInv, NEW p \in Coordinators,
           Seal(p) \/ CoordinatorRestarts(p) \/ \E w \in Candidates : Select(p, w)
    PROVE  SelectionsProper' /\ OneWriter'
<1> USE DEF SealInv, TypeOK, SelectionsProper, OneWriter, Writing, Coordinator, Start, NoFence,
            TornFence, history
<1>1. ASSUME NEW w \in Candidates, Select(p, w)
      PROVE  SelectionsProper' /\ OneWriter'
  BY <1>1 DEF Select
<1>2. CASE SealCheck(p)
  BY <1>2 DEF SealCheck, Go, FoundFence
<1>3. CASE SealCreate(p)
  <2>1. CASE fence = NoFence
    <3>1. \A q \in Coordinators : coord[q].at \notin {"write", "sync"}
      BY <2>1, LifecycleAssumption
    <3>2. \A q \in Coordinators : coord[q].at = "cancel" => withdrawn # {}
      BY <2>1, LifecycleAssumption
    <3> QED
      BY <1>3, <2>1, <3>1, <3>2 DEF SealCreate, Go
  <2>2. CASE fence # NoFence
    BY <1>3, <2>2 DEF SealCreate, FoundFence
  <2> QED
    BY <2>1, <2>2
<1>4. CASE SealWrite(p)
  BY <1>4, LifecycleAssumption DEF SealWrite, Go
<1>5. CASE SealSync(p)
  BY <1>5 DEF SealSync, Go
<1>6. CASE SealFails(p)
  BY <1>6, LifecycleAssumption DEF SealFails
<1>7. CASE CancelLoser(p)
  BY <1>7 DEF CancelLoser
<1>8. CASE CoordinatorRestarts(p)
  BY <1>8 DEF CoordinatorRestarts
<1> QED
  BY <1>1, <1>2, <1>3, <1>4, <1>5, <1>6, <1>7, <1>8 DEF Seal

\* Every step keeps the seal's invariant.
LEMMA SealInvStep == SealInv /\ [Next]_vars => SealInv'
<1> SUFFICES ASSUME SealInv, [Next]_vars PROVE SealInv'
  OBVIOUS
<1>1. TypeOK'
  BY TypeStep DEF SealInv
<1>2. ASSUME NEW c \in Candidates, Checkpoint(c) \/ Pin(c) \/ Unpin(c) \/ OperatorCancel(c)
      PROVE  UNCHANGED <<fence, coord, withdrawn>>
  BY <1>2 DEF Checkpoint, Pin, Unpin, OperatorCancel, history
<1>3. ASSUME NEW g \in Collectors, Collect(g) \/ GcCrash(g)
      PROVE  UNCHANGED <<fence, coord, withdrawn>>
  BY <1>3 DEF Collect, GcScan, GcNext, GcOverlay, GcCheckpoints, GcReceipt, GcCrash, history
<1>4. SelectionsProper' /\ OneWriter'
  BY <1>2, <1>3, SealStep, OthersKeepSeal DEF Next, vars, history
<1> QED
  BY <1>1, <1>4 DEF SealInv

\* The promotion fence's invariant: one writer, and everybody past the seal
\* agrees with the file.
THEOREM SealSafe == Spec => []SealInv
<1>1. Init => SealInv
  BY LifecycleInit
<1> QED
  BY <1>1, SealInvStep, PTL DEF Spec

-----------------------------------------------------------------------------
\* A step from a state with the invariant changes a sealed fence only by
\* withdrawing it.
LEMMA SealedStays == SealInv /\ [Next]_vars => (Sealed => fence' = fence \/ withdrawn' # {})
<1> SUFFICES ASSUME SealInv, [Next]_vars, Sealed, fence' # fence PROVE withdrawn' # {}
  OBVIOUS
<1>1. PICK p \in Coordinators : SealCreate(p) \/ SealWrite(p) \/ SealFails(p)
  BY DEF Next, vars, Checkpoint, Pin, Unpin, OperatorCancel, Seal, SealCheck, SealSync,
         CancelLoser, CoordinatorRestarts, Select, Collect, GcScan, GcNext, GcOverlay,
         GcCheckpoints, GcReceipt, GcCrash
<1>2. fence # NoFence /\ fence # TornFence
  BY DEF Sealed, NoFence, TornFence
<1>3. SealFails(p) /\ coord[p].at = "sync"
  BY <1>1, <1>2 DEF SealCreate, SealWrite, SealFails, SealInv, OneWriter
<1> QED
  BY <1>3 DEF SealFails

\* seal_winner seals at most one winner: a sealed fence never changes, and
\* every coordinator past the seal holds it, in every run and after every
\* kill, unless a failed fsync withdrew a complete fence.
THEOREM OneWinnerSealed == Spec => OneWinner
<1>1. SealInv /\ SealInv' /\ [Next]_vars =>
         [withdrawn' = {} =>
            /\ Sealed => fence' = fence
            /\ \A p \in Coordinators : coord'[p].at = "cancel" => fence' = coord'[p].fence]_vars
  BY SealedStays DEF SealInv, OneWriter
<1> QED
  BY <1>1, SealSafe, SealInvStep, PTL DEF Spec, OneWinner

-----------------------------------------------------------------------------
\* The broker's collector outside of a collection has nothing on its list.
BrokerInv ==
    /\ TypeOK
    /\ gc["broker"].at = "idle" => gc["broker"].todo = {} /\ gc["broker"].cur = NoCandidate
    /\ BrokerGcKeepsPins

\* Every step keeps the broker's collector away from pinned candidates.
LEMMA BrokerStep == BrokerInv /\ [Next]_vars => BrokerInv'
<1> SUFFICES ASSUME BrokerInv, [Next]_vars PROVE BrokerInv'
  OBVIOUS
<1>0. TypeOK /\ TypeOK'
  BY TypeStep DEF BrokerInv
<1> USE LifecycleAssumption DEF BrokerInv, BrokerGcKeepsPins, history, files
<1>1. ASSUME UNCHANGED gc, pinned' \subseteq pinned
      PROVE  BrokerInv'
  BY <1>0, <1>1
<1>2. ASSUME NEW c \in Candidates, Pin(c)
      PROVE  BrokerInv'
  BY <1>0, <1>2 DEF Pin, LockFree
<1>3. ASSUME NEW g \in Collectors, Collect(g) \/ GcCrash(g)
      PROVE  BrokerInv'
  <2> USE <1>0 DEF TypeOK, Collectors, Collector, Idle
  <2>1. CASE GcScan(g)
    BY <2>1 DEF GcScan, Eligible
  <2>2. CASE GcNext(g)
    BY <2>2 DEF GcNext
  <2>3. CASE GcOverlay(g) \/ GcCheckpoints(g)
    BY <2>3 DEF GcOverlay, GcCheckpoints
  <2>4. CASE GcReceipt(g) \/ GcCrash(g)
    BY <2>4 DEF GcReceipt, GcCrash
  <2> QED
    BY <1>3, <2>1, <2>2, <2>3, <2>4 DEF Collect
<1>4. ASSUME NEW c \in Candidates, Checkpoint(c) \/ Unpin(c) \/ OperatorCancel(c)
      PROVE  BrokerInv'
  BY <1>1, <1>4 DEF Checkpoint, Unpin, OperatorCancel
<1>5. ASSUME NEW p \in Coordinators,
             Seal(p) \/ CoordinatorRestarts(p) \/ \E w \in Candidates : Select(p, w)
      PROVE  BrokerInv'
  BY <1>1, <1>5 DEF Seal, SealCheck, SealCreate, SealWrite, SealSync, SealFails, CancelLoser,
                    CoordinatorRestarts, Select
<1>6. CASE UNCHANGED vars
  BY <1>1, <1>6 DEF vars
<1> QED
  BY <1>2, <1>3, <1>4, <1>5, <1>6 DEF Next

\* A candidate that is pinned is never on the list of the broker's collector:
\* pin waits for the lock, and the scan looks at the leases under it.
THEOREM PinsAreKept == Spec => []BrokerGcKeepsPins
<1>1. Init => BrokerInv
  BY LifecycleInit DEF Init, BrokerInv, SealInv, Idle, Collectors
<1>2. BrokerInv => BrokerGcKeepsPins
  BY DEF BrokerInv
<1> QED
  BY <1>1, <1>2, BrokerStep, PTL DEF Spec

-----------------------------------------------------------------------------
\* A step that dooms nobody new, keeps the files and leaves the seal alone.
LEMMA QuietStep ==
    ASSUME KeptInv, UNCHANGED <<fence, coord, withdrawn>>,
           byOperator \subseteq byOperator', overlay \subseteq overlay', present \subseteq present',
           \A c \in Candidates : Doomed(c)' => Doomed(c) \/ c \in byOperator'
    PROVE  KeptInv'
BY DEF KeptInv, Kept, Sealed

\* Workers and operators doom only what an operator cancelled.
LEMMA CandidateKeeps ==
    ASSUME KeptInv, NEW c \in Candidates,
           Checkpoint(c) \/ Pin(c) \/ Unpin(c) \/ OperatorCancel(c)
    PROVE  KeptInv'
<1>1. \A d \in Candidates : Doomed(d)' => Doomed(d) \/ d \in byOperator'
  BY DEF Checkpoint, Pin, Unpin, OperatorCancel, history, Doomed
<1> QED
  BY <1>1, QuietStep DEF Checkpoint, Pin, Unpin, OperatorCancel, history

\* Collectors remove doomed candidates only.
LEMMA CollectorKeeps ==
    ASSUME SealInv, KeptInv, NEW g \in Collectors, Collect(g) \/ GcCrash(g)
    PROVE  KeptInv'
<1>0. TypeOK
  BY DEF SealInv
<1>1. \A d \in Candidates : Doomed(d)' => Doomed(d)
  <2> USE <1>0, LifecycleAssumption DEF Doomed, TypeOK, Collector, Idle
  <2>1. CASE GcScan(g)
    BY <2>1 DEF GcScan, Eligible, files
  <2>2. CASE GcNext(g)
    BY <2>2 DEF GcNext, files
  <2>3. CASE GcOverlay(g) \/ GcCheckpoints(g)
    BY <2>3 DEF GcOverlay, GcCheckpoints
  <2>4. CASE GcReceipt(g) \/ GcCrash(g)
    BY <2>4 DEF GcReceipt, GcCrash, files
  <2> QED
    BY <2>1, <2>2, <2>3, <2>4 DEF Collect
<1>2. UNCHANGED <<fence, coord, history>>
  BY DEF Collect, GcScan, GcNext, GcOverlay, GcCheckpoints, GcReceipt, GcCrash
<1>3. CASE GcScan(g) \/ GcNext(g) \/ GcReceipt(g) \/ GcCrash(g)
  BY <1>1, <1>2, <1>3, QuietStep DEF GcScan, GcNext, GcReceipt, GcCrash, files, history
<1>4. CASE GcOverlay(g) \/ GcCheckpoints(g)
  <2>1. overlay \ {gc[g].cur} \subseteq overlay' /\ present \ {gc[g].cur} \subseteq present'
    BY <1>4 DEF GcOverlay, GcCheckpoints
  <2>2. \A c \in Candidates : Kept(c) => Kept(c)' \/ c = gc[g].cur
    BY <1>2, <2>1 DEF Kept, history
  <2>3. ASSUME withdrawn = {}, gc[g].cur \in Candidates
        PROVE  gc[g].cur \in byOperator \/ (Sealed /\ gc[g].cur # fence.winner)
    BY <2>3 DEF KeptInv, Doomed
  <2>4. ASSUME NEW p \in Coordinators, coord[p].at # "start"
        PROVE  coord[p].fence.winner \in Candidates
    BY <2>4 DEF SealInv, SelectionsProper
  <2>5. Sealed => fence.winner \in Candidates
    BY <1>0 DEF TypeOK, Fences, Sealed, NoFence, TornFence
  <2>6. ASSUME withdrawn = {}, NEW c \in Candidates, Doomed(c)'
        PROVE  c \in byOperator' \/ (Sealed' /\ c # fence'.winner)
    BY <1>1, <1>2, <2>6 DEF KeptInv, history, Sealed
  <2>7. ASSUME withdrawn = {}, Sealed
        PROVE  Kept(fence.winner)'
    BY <1>2, <2>2, <2>3, <2>5, <2>7 DEF KeptInv, Kept, history
  <2>8. ASSUME withdrawn = {}, ~Sealed, NEW p \in Coordinators, coord[p].at # "start"
        PROVE  Kept(coord[p].fence.winner)'
    BY <1>2, <2>2, <2>3, <2>4, <2>8 DEF KeptInv, Kept, history
  <2> QED
    BY <1>2, <2>6, <2>7, <2>8 DEF KeptInv, history, Sealed
<1> QED
  BY <1>3, <1>4 DEF Collect

\* Coordinators cancel losers of the fence on disk only, and seal only a
\* winner nobody has cancelled but an operator.
LEMMA CoordinatorKeeps ==
    ASSUME SealInv, SealInv', KeptInv, NEW p \in Coordinators,
           Seal(p) \/ CoordinatorRestarts(p) \/ \E w \in Candidates : Select(p, w)
    PROVE  KeptInv'
<1> SUFFICES ASSUME withdrawn' = {} PROVE KeptInv'
  BY DEF KeptInv
<1>0. withdrawn = {} /\ UNCHANGED byOperator /\ UNCHANGED <<overlay, present, gc>>
  BY DEF Seal, SealCheck, SealCreate, SealWrite, SealSync, SealFails, CancelLoser,
         CoordinatorRestarts, Select, files, history
<1> USE <1>0 DEF KeptInv, Doomed, Kept, SealInv, TypeOK, Coordinator, Start, files
<1>1. ASSUME NEW w \in Candidates, Select(p, w)
      PROVE  KeptInv'
  BY <1>1 DEF Select, Sealed
<1>2. CASE SealCheck(p) \/ SealSync(p) \/ CoordinatorRestarts(p)
  <2>1. \A q \in Coordinators : coord'[q].at # "start" =>
           coord[q].at # "start" /\ coord'[q].fence = coord[q].fence
    BY <1>2 DEF SealCheck, SealSync, CoordinatorRestarts, Go, FoundFence
  <2>2. UNCHANGED <<fence, cancelled>>
    BY <1>2 DEF SealCheck, SealSync, CoordinatorRestarts
  <2> QED
    BY <2>1, <2>2 DEF Sealed
<1>3. CASE SealCreate(p)
  <2>1. (Sealed <=> Sealed') /\ (Sealed => fence' = fence)
    BY <1>3 DEF SealCreate, Sealed, NoFence, TornFence
  <2>2. \A q \in Coordinators : coord'[q].at # "start" =>
           coord[q].at # "start" /\ coord'[q].fence = coord[q].fence
    BY <1>3 DEF SealCreate, Go, FoundFence
  <2> QED
    BY <1>3, <2>1, <2>2 DEF SealCreate
<1>4. CASE SealWrite(p)
  <2>1. ~Sealed /\ fence' = coord[p].fence
    BY <1>4 DEF SealWrite, OneWriter, Sealed, TornFence
  <2> QED
    BY <1>4, <2>1, LifecycleAssumption DEF SealWrite, Go, Sealed, SelectionsProper
<1>5. CASE SealFails(p)
  <2>1. ~Sealed /\ ~Sealed'
    <3>1. CASE coord[p].at = "sync"
      BY <1>5, <3>1 DEF SealFails
    <3>2. CASE coord[p].at = "write"
      BY <1>5, <3>2 DEF SealFails, OneWriter, Sealed, TornFence, NoFence
    <3> QED
      BY <1>5, <3>1, <3>2 DEF SealFails
  <2> QED
    BY <1>5, <2>1 DEF SealFails
<1>6. CASE CancelLoser(p)
  <2>1. Sealed /\ fence = coord[p].fence /\ fence' = fence
    BY <1>6, LifecycleAssumption DEF CancelLoser, OneWriter, SelectionsProper, Sealed
  <2>2. PICK c \in coord[p].losers : cancelled' \subseteq cancelled \cup {c}
    BY <1>6 DEF CancelLoser
  <2>3. c # fence.winner
    BY <1>6, <2>1, <2>2 DEF CancelLoser, SelectionsProper
  <2> QED
    BY <2>1, <2>2, <2>3 DEF Sealed
<1> QED
  BY <1>1, <1>2, <1>3, <1>4, <1>5, <1>6 DEF Seal

\* The sealed winner's overlay and checkpoint outlive every collection, unless
\* an operator cancelled the winner or a failed fsync withdrew a fence.
THEOREM WinnerOutlives == Spec => []WinnerIsKept
<1>1. Init => SealInv /\ KeptInv
  BY LifecycleInit
<1>2. SealInv /\ SealInv' /\ KeptInv /\ [Next]_vars => KeptInv'
  <2> SUFFICES ASSUME SealInv, SealInv', KeptInv, [Next]_vars PROVE KeptInv'
    OBVIOUS
  <2>1. CASE UNCHANGED vars
    BY <2>1 DEF vars, files, history, KeptInv, Doomed, Kept, Sealed
  <2> QED
    BY <2>1, CandidateKeeps, CollectorKeeps, CoordinatorKeeps DEF Next
<1>3. KeptInv => WinnerIsKept
  BY DEF KeptInv, WinnerIsKept, Kept
<1> QED
  BY <1>1, <1>2, <1>3, SealInvStep, PTL DEF Spec

=============================================================================
