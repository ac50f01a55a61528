--------------------------- MODULE FairScheduler ----------------------------
(***************************************************************************)
(* FairScheduler (simplicio_loop/hub_scheduler.py) whole: the bookkeeping  *)
(* of JobScheduler and the deficit round robin with aging that chooses the *)
(* client next() serves, in the four rollout modes.                        *)
(*                                                                         *)
(* The callers are the hub daemon's handlers, which complete and cancel a  *)
(* registered job at any time, dispatched or still waiting, so the         *)
(* environment does too.                                                   *)
(*                                                                         *)
(* Deficits are kept in half units, because the smallest priority          *)
(* multiplier is 0.5.  The scheduler's tick only matters as the number of  *)
(* ticks since a client was served, and that only up to aging_ticks: it is *)
(* `age', capped there.  Receipts and counters that nothing reads back     *)
(* (_decision_receipts, _served_total, _starvation_preventions) are left   *)
(* out, and with them preview_next, which restores all it changed.         *)
(***************************************************************************)
EXTENDS JobScheduler

CONSTANTS
    Cost,         \* ScheduledJob.cost of every task
    Weight,       \* ScheduledJob.weight of every task
    PriorityGain, \* twice PRIORITY_GAIN_MULTIPLIER of every task's priority
    Quantum,      \* quantum
    AgingTicks,   \* aging_ticks
    AgingBoost,   \* aging_boost
    Modes,        \* the rollout modes configure_policy may choose
    MaxDeficit    \* bound: deficit at which the model stops calling next

\* Twice the values of PRIORITY_GAIN_MULTIPLIER.
Multipliers == {16, 8, 4, 3, 2, 1}

ASSUME FairAssumption ==
    /\ IsFiniteSet(Clients)
    /\ Cost \in [Tasks -> Nat \ {0}]
    /\ Weight \in [Tasks -> Nat \ {0}]
    /\ PriorityGain \in [Tasks -> Multipliers]
    /\ {Quantum, AgingTicks, AgingBoost} \subseteq Nat \ {0}
    /\ Modes \subseteq {"off", "shadow", "canary", "on"} /\ Modes # {}
    /\ MaxDeficit \in Nat

VARIABLES
    order,   \* _order: the known clients, in order of their first job
    cursor,  \* _cursor
    weights, \* _weights
    deficit, \* _deficit, in half units
    age,     \* _tick - _last_served_tick, at most AgingTicks
    mode,    \* policy.mode
    passed   \* history: calls of next() that passed over a client's head job

fairVars == <<order, cursor, weights, deficit, age, mode>>
vars == <<schedulerVars, fairVars, passed>>

Known == {order[i] : i \in DOMAIN order}

FairTypeOK ==
    /\ TypeOK
    /\ order \in Seq(Clients)
    /\ Cardinality(Known) = Len(order)
    /\ cursor \in 0..Len(order) /\ (order # <<>> => cursor < Len(order))
    /\ weights \in [Clients -> Nat \ {0}]
    /\ deficit \in [Clients -> Nat]
    /\ age \in [Clients -> 0..AgingTicks]
    /\ mode \in Modes
    /\ passed \in [Clients -> Nat]

FairInit ==
    /\ Init
    /\ order = <<>>
    /\ cursor = 0
    /\ weights = [c \in Clients |-> 1]
    /\ deficit = [c \in Clients |-> 0]
    /\ age = [c \in Clients |-> 0]
    /\ mode \in Modes
    /\ passed = [c \in Clients |-> 0]

-----------------------------------------------------------------------------
\* enqueue: a client's first job makes it known.
Submit(t) ==
    LET c == ClientOf[t] IN
    /\ Enqueue(t)
    /\ order' = IF c \in Known THEN order ELSE Append(order, c)
    /\ weights' = [weights EXCEPT ![c] = IF Weight[t] > @ THEN Weight[t] ELSE @]
    /\ UNCHANGED <<cursor, deficit, age, mode, passed>>

\* What one visit adds to a client's deficit; a call of next() counts its
\* own tick before it compares the client's wait with aging_ticks.
Gain(c) ==
    Quantum * weights[c] * PriorityGain[Head(queues[c])]
        * (IF age[c] + 1 > AgingTicks THEN AgingBoost ELSE 1)

HeadCost(c) == 2 * Cost[Head(queues[c])]

\* The client visited in turn k = 0, 1, ... of one call, and how many of
\* the turns up to and including k visit client c.
ClientAt(k) == order[((cursor + k) % Len(order)) + 1]
Visits(c, k) == Cardinality({i \in 0..k : ClientAt(i) = c})

\* The loop gives up after four turns for every known client.
Turns == 0..(4 * Len(order) - 1)

\* In turn k the visited client, credited for every visit so far, can pay
\* for its oldest job.
Affords(k) ==
    LET c == ClientAt(k) IN
    /\ Eligible(c)
    /\ deficit[c] + Visits(c, k) * Gain(c) >= HeadCost(c)

\* The deficits once the turns 0..k have credited every waiting client,
\* those at their in-flight limit too.
Credited(k) ==
    [c \in Clients |-> IF c \in Known /\ queues[c] # <<>>
                       THEN deficit[c] + Visits(c, k) * Gain(c)
                       ELSE deficit[c]]

\* One tick has passed for every known client, and S was served.
Aged(S) ==
    [c \in Clients |-> IF c \in S THEN 0
                       ELSE IF c \in Known /\ age[c] < AgingTicks THEN age[c] + 1 ELSE age[c]]

\* History: this call served S and passed over every other eligible client.
PassOver(S) ==
    passed' = [c \in Clients |-> IF c \in S THEN 0
                                 ELSE IF Eligible(c) THEN passed[c] + 1 ELSE passed[c]]

\* Faulty variant of NextFair: the cursor stays where it is.
NextFairStuck(k) ==
    LET c == ClientAt(k) IN
    /\ Affords(k)
    /\ \A i \in Turns : Affords(i) => i >= k
    /\ Dispatch(c)
    /\ deficit' = [Credited(k) EXCEPT ![c] = @ - HeadCost(c)]
    /\ age' = Aged({c})
    /\ PassOver({c})
    /\ UNCHANGED cursor

\* The deficit round robin of next(), in modes on and canary.
NextFair(k) ==
    LET c == ClientAt(k) IN
    /\ Affords(k)
    /\ \A i \in Turns : Affords(i) => i >= k
    /\ Dispatch(c)
    /\ deficit' = [Credited(k) EXCEPT ![c] = @ - HeadCost(c)]
    /\ cursor' = (cursor + k + 1) % Len(order)
    /\ age' = Aged({c})
    /\ PassOver({c})

\* No turn found a job: None, but the credits stay.
NextNone ==
    /\ \A k \in Turns : ~ Affords(k)
    /\ deficit' = Credited(4 * Len(order) - 1)
    /\ age' = Aged({})
    /\ PassOver({})
    /\ UNCHANGED <<schedulerVars, cursor>>

\* _next_fifo, in modes off and shadow: the first eligible client from the
\* cursor on, whatever its deficit.
NextFifo(k) ==
    LET c == ClientAt(k) IN
    /\ Eligible(c)
    /\ \A i \in 0..(k - 1) : ~ Eligible(ClientAt(i))
    /\ Dispatch(c)
    /\ cursor' = (cursor + k + 1) % Len(order)
    /\ age' = Aged({c})
    /\ PassOver({c})
    /\ UNCHANGED deficit

NextFifoNone ==
    /\ \A c \in Known : ~ Eligible(c)
    /\ age' = Aged({})
    /\ UNCHANGED <<schedulerVars, cursor, deficit, passed>>

\* next(): without a known client it returns None and changes nothing.
NextJob ==
    /\ order # <<>>
    /\ \A c \in Clients : deficit[c] <= MaxDeficit
    /\ IF mode \in {"off", "shadow"}
       THEN NextFifoNone \/ \E k \in 0..(Len(order) - 1) : NextFifo(k)
       ELSE NextNone \/ \E k \in Turns : NextFair(k)
    /\ UNCHANGED <<order, weights, mode>>

\* complete
CompleteJob(t) ==
    /\ Complete(t)
    /\ UNCHANGED <<fairVars, passed>>

\* cancel; a new head job starts with nothing held against it.
CancelJob(t) ==
    LET c == ClientOf[t] IN
    /\ Cancel(t)
    /\ passed' = IF queues[c] # <<>> /\ Head(queues[c]) = t
                 THEN [passed EXCEPT ![c] = 0] ELSE passed
    /\ UNCHANGED fairVars

\* configure_policy
ConfigurePolicy(m) ==
    /\ m \in Modes \ {mode}
    /\ mode' = m
    /\ UNCHANGED <<schedulerVars, order, cursor, weights, deficit, age, passed>>

Next ==
    \/ \E t \in Tasks : Submit(t) \/ CompleteJob(t) \/ CancelJob(t)
    \/ NextJob
    \/ \E m \in Modes : ConfigurePolicy(m)

Spec == FairInit /\ [][Next]_vars

-----------------------------------------------------------------------------
\* Visits after which a client can pay for task t, without any boost.
VisitsNeeded(t) ==
    LET gain == Quantum * PriorityGain[t] IN (2 * Cost[t] + gain - 1) \div gain

(***************************************************************************)
(* Starvation freedom, as a bound: while a client has a free in-flight     *)
(* slot, next() passes over its oldest job fewer times than the job needs  *)
(* visits times the number of clients.  However the other clients weigh in *)
(* (priority, weight, deficit saved up while blocked, rollout changes,     *)
(* clients that appear later), the cursor comes round and every visit      *)
(* counts.                                                                 *)
(***************************************************************************)
NoStarvation ==
    \A c \in Clients : queues[c] # <<>> =>
        passed[c] < Cardinality(Clients) * VisitsNeeded(Head(queues[c]))
=============================================================================
