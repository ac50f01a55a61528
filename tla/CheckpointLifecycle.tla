------------------------- MODULE CheckpointLifecycle ------------------------
(***************************************************************************)
(* simplicio_loop/checkpoint_lifecycle.py and the locked, journalled part  *)
(* of simplicio_loop/generation_broker.py: the files of one attempt.       *)
(* Workers write checkpoints into candidate overlays; coordinators select  *)
(* a winner, seal the promotion fence and cancel the losers; operators     *)
(* pin, release and cancel candidates; collectors remove what was          *)
(* cancelled.  All of them are processes of their own and may be killed    *)
(* between any two files.                                                  *)
(*                                                                         *)
(* The broker's operations take the attempt's lock file; the lifecycle's   *)
(* own ones, and the garbage collection of the command line, do not.       *)
(* A checkpoint is its created_ns, here the number of times it was written,*)
(* and whether it says READY_TO_PROMOTE; an identity that no longer        *)
(* matches (source commit, generation, base) is left out.                  *)
(***************************************************************************)
EXTENDS Naturals, Functions

CONSTANTS
    Candidates,
    Coordinators,
    MaxWrites,    \* bound: checkpoints written
    NoCandidate

ASSUME LifecycleAssumption == MaxWrites \in Nat \ {0} /\ NoCandidate \notin Candidates

VARIABLES
    overlay,     \* the candidates that have their overlay
    written,     \* the checkpoint's stamp: how often it was written
    present,     \* the candidates whose checkpoint file is there
    ready,       \* those whose checkpoint says READY_TO_PROMOTE
    cancelled,   \* the candidates that have a cancellation receipt
    pinned,      \* the candidates whose lease has not expired
    fence,       \* the promotion fence: NoFence, TornFence, or its content
    coord,       \* each coordinator: its position, fence and losers to cancel
    gc,          \* each collector: its position, its list and its candidate
    byOperator,  \* history: candidates an operator cancelled
    withdrawn    \* history: complete fences that were taken away again

files == <<overlay, written, present, ready, cancelled, pinned>>
history == <<byOperator, withdrawn>>
vars == <<files, fence, coord, gc, history>>

NoFence == [winner |-> NoCandidate, digest |-> "none"]
TornFence == [winner |-> NoCandidate, digest |-> "torn"]
Sealed == fence.winner # NoCandidate

Collectors == {"broker", "cli"}
Start == [at |-> "start", fence |-> NoFence, losers |-> {}]
Idle == [at |-> "idle", todo |-> {}, cur |-> NoCandidate]

Init ==
    /\ overlay = {} /\ present = {} /\ ready = {}
    /\ written = [c \in Candidates |-> 0]
    /\ cancelled = {} /\ pinned = {}
    /\ fence = NoFence
    /\ coord = [p \in Coordinators |-> Start]
    /\ gc = [g \in Collectors |-> Idle]
    /\ byOperator = {}
    /\ withdrawn = {}

(* _process_lock: the broker's collector holds it from scan to commit.     *)
LockFree == gc["broker"].at = "idle"

-----------------------------------------------------------------------------
(* Overlays, checkpoints, pins.                                            *)

(* checkpoint, create_overlay included: READY_TO_PROMOTE for a verified    *)
(* candidate, HELD for another.                                            *)
Checkpoint(c) ==
    /\ SumFunction(written) < MaxWrites
    /\ overlay' = overlay \cup {c}
    /\ written' = [written EXCEPT ![c] = @ + 1]
    /\ present' = present \cup {c}
    /\ ready' \in {ready \cup {c}, ready \ {c}}
    /\ UNCHANGED <<cancelled, pinned, fence, coord, gc, history>>

\* Faulty variant of Pin: it does not take the lock.
PinUnlocked(c) ==
    /\ overlay' = overlay \cup {c}
    /\ pinned' = pinned \cup {c}
    /\ UNCHANGED <<written, present, ready, cancelled, fence, coord, gc, history>>

(* GenerationBroker.bind, which creates the overlay, and pin.              *)
Pin(c) ==
    /\ LockFree
    /\ overlay' = overlay \cup {c}
    /\ pinned' = pinned \cup {c}
    /\ UNCHANGED <<written, present, ready, cancelled, fence, coord, gc, history>>

(* GenerationBroker.release, under the lock, or the lease's time is over.  *)
Unpin(c) ==
    /\ c \in pinned
    /\ pinned' = pinned \ {c}
    /\ UNCHANGED <<overlay, written, present, ready, cancelled, fence, coord, gc, history>>

(* The cancel command of the command line: any candidate, at any time.     *)
OperatorCancel(c) ==
    /\ cancelled' = cancelled \cup {c}
    /\ byOperator' = byOperator \cup {c}
    /\ UNCHANGED <<overlay, written, present, ready, pinned, fence, coord, gc, withdrawn>>

-----------------------------------------------------------------------------
(* converge_selected.                                                      *)
Go(p, position) == coord' = [coord EXCEPT ![p].at = position]

\* Faulty variant of Select: the losers are cancelled before the seal.
SelectCancels(p, w) ==
    /\ coord[p].at = "start"
    /\ \A c \in Candidates : c \in present \cap overlay
    /\ w \in ready
    /\ coord' = [coord EXCEPT ![p] =
                   [at |-> "check", fence |-> [winner |-> w, digest |-> written], losers |-> {}]]
    /\ cancelled' = cancelled \cup (Candidates \ {w})
    /\ UNCHANGED <<overlay, written, present, ready, pinned, fence, gc, history>>

(* Every candidate's checkpoint is loaded and verified, the winner's is    *)
(* ready; the fan-in's digest covers the winner and what was loaded.       *)
Select(p, w) ==
    /\ coord[p].at = "start"
    /\ \A c \in Candidates : c \in present \cap overlay
    /\ w \in ready
    /\ coord' = [coord EXCEPT ![p] =
                   [at |-> "check", fence |-> [winner |-> w, digest |-> written],
                    losers |-> Candidates \ {w}]]
    /\ UNCHANGED <<files, fence, gc, history>>

(* seal_winner finds a fence file: its own content again lets it go on;    *)
(* another one, or an empty file, makes it raise, and the run is over.     *)
FoundFence(p) ==
    coord' = [coord EXCEPT ![p] = IF fence = @.fence THEN [@ EXCEPT !.at = "cancel"] ELSE Start]

SealCheck(p) ==
    /\ coord[p].at = "check"
    /\ IF fence = NoFence THEN Go(p, "create") ELSE FoundFence(p)
    /\ UNCHANGED <<files, fence, gc, history>>

\* Faulty variant of SealCreate: the file is opened without O_EXCL.
SealCreateOver(p) ==
    /\ coord[p].at = "create"
    /\ fence' = TornFence /\ Go(p, "write")
    /\ UNCHANGED <<files, gc, history>>

(* O_CREAT | O_EXCL: the file appears empty, or somebody was faster.       *)
SealCreate(p) ==
    /\ coord[p].at = "create"
    /\ \/ fence = NoFence /\ fence' = TornFence /\ Go(p, "write")
       \/ fence # NoFence /\ FoundFence(p) /\ UNCHANGED fence
    /\ UNCHANGED <<files, gc, history>>

(* The content is in the file, fsync is next. *)
SealWrite(p) ==
    /\ coord[p].at = "write"
    /\ fence' = coord[p].fence
    /\ Go(p, "sync")
    /\ UNCHANGED <<files, gc, history>>

SealSync(p) ==
    /\ coord[p].at = "sync"
    /\ Go(p, "cancel")
    /\ UNCHANGED <<files, fence, gc, history>>

(* The write or the fsync raises: the file is unlinked and the run over.   *)
SealFails(p) ==
    /\ coord[p].at \in {"write", "sync"}
    /\ fence' = NoFence
    /\ withdrawn' = withdrawn \cup (IF coord[p].at = "sync" THEN {fence} ELSE {})
    /\ coord' = [coord EXCEPT ![p] = Start]
    /\ UNCHANGED <<files, gc, byOperator>>

(* cancel, one receipt after the other; a callback that raises leaves its  *)
(* candidate without one and the outcome is HELD.                          *)
CancelLoser(p) ==
    /\ coord[p].at = "cancel"
    /\ \E c \in coord[p].losers :
          /\ coord' = [coord EXCEPT ![p].losers = @ \ {c}]
          /\ cancelled' \in {cancelled, cancelled \cup {c}}
    /\ UNCHANGED <<overlay, written, present, ready, pinned, fence, gc, history>>

(* The process is killed, or ended, and the run is started again.          *)
CoordinatorRestarts(p) ==
    /\ coord[p].at # "start"
    /\ coord' = [coord EXCEPT ![p] = Start]
    /\ UNCHANGED <<files, fence, gc, history>>

-----------------------------------------------------------------------------
(* Garbage collection.                                                     *)

(* gc's first half: cancelled and not pinned, and of these the ones whose  *)
(* receipt has outlived the retention the caller asks for.                 *)
Eligible == cancelled \ pinned

(* The broker's gc, its recovery of one that was killed (_recover_gc, when *)
(* the journal says PREPARED), and the command line's: each looks at the   *)
(* leases and receipts afresh, the first two under the lock.               *)
GcScan(g) ==
    /\ gc[g].at = "idle"
    /\ \E aged \in SUBSET Eligible \ {{}} :
          gc' = [gc EXCEPT ![g] = [at |-> "next", todo |-> aged, cur |-> NoCandidate]]
    /\ UNCHANGED <<files, fence, coord, history>>

GcNext(g) ==
    /\ gc[g].at = "next"
    /\ \/ \E c \in gc[g].todo :
             gc' = [gc EXCEPT ![g] = [at |-> "overlay", todo |-> @.todo \ {c}, cur |-> c]]
       \/ gc[g].todo = {} /\ gc' = [gc EXCEPT ![g] = Idle]
    /\ UNCHANGED <<files, fence, coord, history>>

(* The removals of one candidate, in their order.                          *)
GcOverlay(g) ==
    /\ gc[g].at = "overlay"
    /\ overlay' = overlay \ {gc[g].cur}
    /\ gc' = [gc EXCEPT ![g].at = "checkpoints"]
    /\ UNCHANGED <<written, present, ready, cancelled, pinned, fence, coord, history>>

GcCheckpoints(g) ==
    /\ gc[g].at = "checkpoints"
    /\ present' = present \ {gc[g].cur}
    /\ ready' = ready \ {gc[g].cur}
    /\ gc' = [gc EXCEPT ![g].at = "receipt"]
    /\ UNCHANGED <<overlay, written, cancelled, pinned, fence, coord, history>>

(* The receipt and then the lease; a lease left alone has expired.         *)
GcReceipt(g) ==
    /\ gc[g].at = "receipt"
    /\ cancelled' = cancelled \ {gc[g].cur}
    /\ pinned' = pinned \ {gc[g].cur}
    /\ gc' = [gc EXCEPT ![g] = [at |-> "next", todo |-> @.todo, cur |-> NoCandidate]]
    /\ UNCHANGED <<overlay, written, present, ready, fence, coord, history>>

(* A killed collector loses its list, and the lock with its process.       *)
GcCrash(g) ==
    /\ gc[g].at # "idle"
    /\ gc' = [gc EXCEPT ![g] = Idle]
    /\ UNCHANGED <<files, fence, coord, history>>

-----------------------------------------------------------------------------
Seal(p) ==
    \/ SealCheck(p) \/ SealCreate(p) \/ SealWrite(p) \/ SealSync(p) \/ SealFails(p)
    \/ CancelLoser(p)

Collect(g) ==
    \/ GcScan(g) \/ GcNext(g)
    \/ GcOverlay(g) \/ GcCheckpoints(g) \/ GcReceipt(g)

Next ==
    \/ \E c \in Candidates :
          Checkpoint(c) \/ Pin(c) \/ Unpin(c) \/ OperatorCancel(c)
    \/ \E p \in Coordinators :
          Seal(p) \/ CoordinatorRestarts(p) \/ \E w \in Candidates : Select(p, w)
    \/ \E g \in Collectors : Collect(g) \/ GcCrash(g)

Spec == Init /\ [][Next]_vars

-----------------------------------------------------------------------------
(* At most one winner is ever sealed: whoever got past the seal, in any    *)
(* run of any coordinator, holds the fence that is on disk, and a sealed   *)
(* fence never changes, as long as no failed fsync took a fence away that  *)
(* others could already read.                                              *)
OneWinner ==
    [][withdrawn' = {} =>
          /\ Sealed => fence' = fence
          /\ \A p \in Coordinators : coord'[p].at = "cancel" => fence' = coord'[p].fence]_vars

(* The sealed winner keeps its overlay and its checkpoint, whatever the    *)
(* other coordinators selected, unless an operator cancelled it (or a      *)
(* fence was taken away as above): only a coordinator that holds the fence *)
(* cancels, and it cancels losers.                                         *)
WinnerIsKept ==
    Sealed /\ fence.winner \notin byOperator /\ withdrawn = {} =>
        fence.winner \in overlay \cap present

(* "Active leases pin candidate overlays": what the broker's collector is  *)
(* still going to remove is not pinned, also when it recovers a collection *)
(* that was killed half-way.                                               *)
BrokerGcKeepsPins ==
    (gc["broker"].todo \cup {gc["broker"].cur}) \cap pinned = {}
=============================================================================
