-------------------------- MODULE ResourceGovernor --------------------------
(***************************************************************************)
(* ResourceGovernor and CircuitBreaker (simplicio_loop/hub_governor.py):   *)
(* admission of work against global and per-client budgets, idempotent by  *)
(* lease key, behind a drain switch and a circuit breaker fed by pressure  *)
(* readings.  Every operation runs under the governor's lock: one action.  *)
(*                                                                         *)
(* A limit of 0 means "no limit", as in the code.  Time only matters to    *)
(* the breaker's cooldown, so `cooling' is the part of it still to run.    *)
(* Receipts are left out, and so is ResourceProbe, which only measures.    *)
(***************************************************************************)
EXTENDS Integers, FiniteSets, FiniteSetsExt

CONSTANTS
    Resources,    \* RESOURCE_NAMES
    LeaseKeys,    \* lease keys (task identifiers unless the caller names one)
    Clients,      \* client identifiers
    Requests,     \* the ResourceRequests callers make
    Limit,        \* limits
    ClientLimit,  \* client_limits, all 0 for a client that has none
    Threshold,    \* circuit_threshold
    Cooldown,     \* cooldown_seconds
    NotLeased     \* marks a key without a lease

Amounts == [Resources -> Nat]

ASSUME GovernorAssumption ==
    /\ IsFiniteSet(LeaseKeys)
    /\ Requests \subseteq Amounts
    /\ Limit \in Amounts
    /\ ClientLimit \in [Clients -> Amounts]
    /\ Threshold \in Nat \ {0}
    /\ Cooldown \in Nat
    /\ NotLeased \notin [client : Clients, request : Requests]

VARIABLES
    resourceLeases, \* _leases
    usage,          \* _usage
    clientUsage,    \* _client_usage
    draining,       \* _draining
    circuit,        \* _circuit.state
    failures,       \* _circuit.failures, at most Threshold
    cooling         \* what is left of the cooldown since _circuit.tripped_at

budgetVars == <<resourceLeases, usage, clientUsage>>
circuitVars == <<circuit, failures, cooling>>
governorVars == <<budgetVars, draining, circuitVars>>

ResourceLease == [client : Clients, request : Requests]

GovernorTypeOK ==
    /\ resourceLeases \in [LeaseKeys -> ResourceLease \cup {NotLeased}]
    /\ usage \in Amounts
    /\ clientUsage \in [Clients -> Amounts]
    /\ draining \in BOOLEAN
    /\ circuit \in {"closed", "open", "half_open"}
    /\ failures \in 0..Threshold
    /\ cooling \in 0..Cooldown

GovernorInit ==
    /\ resourceLeases = [k \in LeaseKeys |-> NotLeased]
    /\ usage = [r \in Resources |-> 0]
    /\ clientUsage = [c \in Clients |-> usage]
    /\ draining = FALSE
    /\ circuit = "closed"
    /\ failures = 0
    /\ cooling = 0

-----------------------------------------------------------------------------
Leased == {k \in LeaseKeys : resourceLeases[k] # NotLeased}

\* _Usage.add and _Usage.subtract
Plus(a, b) == [r \in Resources |-> a[r] + b[r]]
Minus(a, b) == [r \in Resources |-> IF a[r] > b[r] THEN a[r] - b[r] ELSE 0]

\* Faulty variant of WithinBudget: what is asked for is not counted.
WithinBudgetBefore(used, request, limit) ==
    \A r \in Resources : limit[r] # 0 => used[r] < limit[r]

\* _over_budget returns None.
WithinBudget(used, request, limit) ==
    \A r \in Resources : limit[r] # 0 => used[r] + request[r] <= limit[r]

\* CircuitBreaker.allow: its answer, and the state it leaves behind.
Allows == circuit # "open" \/ cooling = 0
AfterAllow == IF circuit = "open" /\ cooling = 0 THEN "half_open" ELSE circuit

\* What admit requires once the circuit lets it pass.
Affordable(c, request) ==
    /\ WithinBudget(usage, request, Limit)
    /\ WithinBudget(clientUsage[c], request, ClientLimit[c])

\* Faulty variant of Admits: a draining governor still admits.
AdmitsDraining(c, k, request) == k \in Leased \/ (Allows /\ Affordable(c, request))

\* admit answers with a lease: the one it has, or a new one.
Admits(c, k, request) ==
    k \in Leased \/ (~ draining /\ Allows /\ Affordable(c, request))

\* Faulty variant of Admit: the lease records the usage it led to.
AdmitTotal(c, k, request) ==
    /\ k \notin Leased
    /\ Admits(c, k, request)
    /\ resourceLeases' = [resourceLeases EXCEPT ![k] =
                             [client |-> c, request |-> Plus(usage, request)]]
    /\ usage' = Plus(usage, request)
    /\ clientUsage' = [clientUsage EXCEPT ![c] = Plus(@, request)]
    /\ circuit' = AfterAllow
    /\ UNCHANGED <<draining, failures, cooling>>

\* admit, a new lease.
Admit(c, k, request) ==
    /\ k \notin Leased
    /\ Admits(c, k, request)
    /\ resourceLeases' = [resourceLeases EXCEPT ![k] = [client |-> c, request |-> request]]
    /\ usage' = Plus(usage, request)
    /\ clientUsage' = [clientUsage EXCEPT ![c] = Plus(@, request)]
    /\ circuit' = AfterAllow
    /\ UNCHANGED <<draining, failures, cooling>>

\* admit again under a leased key: the same lease, whatever is asked.
AdmitAgain(k) ==
    /\ k \in Leased
    /\ UNCHANGED governorVars

\* admit refuses.  An elapsed cooldown still half-opens the circuit.
Throttle(c, k, request) ==
    /\ ~ Admits(c, k, request)
    /\ circuit' = IF draining THEN circuit ELSE AfterAllow
    /\ UNCHANGED <<budgetVars, draining, failures, cooling>>

\* Faulty variant of Release: the client is not given its share back.
ReleaseGlobally(k) ==
    /\ k \in Leased
    /\ resourceLeases' = [resourceLeases EXCEPT ![k] = NotLeased]
    /\ usage' = Minus(usage, resourceLeases[k].request)
    /\ UNCHANGED <<clientUsage, draining, circuitVars>>

\* release: what is returned is what the lease under that key holds now.
Release(k) ==
    \/ /\ k \notin Leased
       /\ UNCHANGED governorVars
    \/ /\ k \in Leased
       /\ LET lease == resourceLeases[k] IN
          /\ resourceLeases' = [resourceLeases EXCEPT ![k] = NotLeased]
          /\ usage' = Minus(usage, lease.request)
          /\ clientUsage' = [clientUsage EXCEPT ![lease.client] = Minus(@, lease.request)]
       /\ UNCHANGED <<draining, circuitVars>>

\* Faulty variant of RecordFailure: trips one failure late.
RecordFailureLate ==
    LET trips == failures + 1 > Threshold IN
    /\ failures' = IF trips THEN Threshold ELSE failures + 1
    /\ circuit' = IF trips THEN "open" ELSE circuit
    /\ cooling' = IF trips THEN Cooldown ELSE cooling
    /\ UNCHANGED <<budgetVars, draining>>

\* CircuitBreaker.record_failure: record_failure, and an over-budget reading
\* in evaluate_pressure or evaluate_gpu_pressure.
RecordFailure ==
    LET trips == failures + 1 >= Threshold IN
    /\ failures' = IF trips THEN Threshold ELSE failures + 1
    /\ circuit' = IF trips THEN "open" ELSE circuit
    /\ cooling' = IF trips THEN Cooldown ELSE cooling
    /\ UNCHANGED <<budgetVars, draining>>

\* CircuitBreaker.recover
CloseCircuit ==
    /\ circuit' = "closed"
    /\ failures' = 0
    /\ cooling' = 0

\* An under-budget reading in evaluate_pressure or evaluate_gpu_pressure.
UnderBudgetReading ==
    /\ IF AfterAllow = "half_open" THEN CloseCircuit ELSE UNCHANGED circuitVars
    /\ UNCHANGED <<budgetVars, draining>>

\* recover
Recover ==
    /\ CloseCircuit
    /\ UNCHANGED <<budgetVars, draining>>

\* drain
Drain ==
    /\ draining' = TRUE
    /\ UNCHANGED <<budgetVars, circuitVars>>

\* What usage is once the leases under the keys K are released in turn.
Without(used, K) ==
    [r \in Resources |->
        LET returned == MapThenSumSet(LAMBDA k : resourceLeases[k].request[r], K)
        IN  IF used[r] > returned THEN used[r] - returned ELSE 0]

\* shutdown: drain, and release every lease.
Shutdown ==
    /\ draining' = TRUE
    /\ resourceLeases' = [k \in LeaseKeys |-> NotLeased]
    /\ usage' = Without(usage, Leased)
    /\ clientUsage' = [c \in Clients |->
           Without(clientUsage[c], {k \in Leased : resourceLeases[k].client = c})]
    /\ UNCHANGED circuitVars

\* Time passes.
Cool ==
    /\ cooling > 0
    /\ cooling' = cooling - 1
    /\ UNCHANGED <<budgetVars, draining, circuit, failures>>

GovernorNext ==
    \/ \E c \in Clients, k \in LeaseKeys, request \in Requests :
           Admit(c, k, request) \/ Throttle(c, k, request)
    \/ \E k \in LeaseKeys : AdmitAgain(k) \/ Release(k)
    \/ RecordFailure \/ UnderBudgetReading \/ Recover
    \/ Drain \/ Shutdown
    \/ Cool

GovernorSpec == GovernorInit /\ [][GovernorNext]_governorVars

-----------------------------------------------------------------------------
\* What the leases under the keys K hold of resource r.
HeldBy(K, r) == MapThenSumSet(LAMBDA k : resourceLeases[k].request[r], K)

(***************************************************************************)
(* The usage counters are exactly what the leases hold, globally and for   *)
(* every client: however admissions are repeated, leases released twice or *)
(* swept by a shutdown, nothing is charged twice or given back twice (the  *)
(* clamp at zero in _Usage.subtract never acts).                           *)
(***************************************************************************)
UsageIsHeld ==
    \A r \in Resources :
        /\ usage[r] = HeldBy(Leased, r)
        /\ \A c \in Clients :
               clientUsage[c][r] = HeldBy({k \in Leased : resourceLeases[k].client = c}, r)

(***************************************************************************)
(* No bounded resource is overcommitted: the leases held together stay     *)
(* within the global budget and within each client's own.                  *)
(***************************************************************************)
BudgetsHold ==
    \A r \in Resources :
        /\ Limit[r] # 0 => usage[r] <= Limit[r]
        /\ \A c \in Clients : ClientLimit[c][r] # 0 => clientUsage[c][r] <= ClientLimit[c][r]

(***************************************************************************)
(* A half-open circuit is on probation: the failures that tripped it still *)
(* count, so one more over-budget reading opens it again at once.  An open *)
(* one has failed that often too, and a closed one has not.                *)
(***************************************************************************)
HalfOpenOnProbation == circuit = "closed" <=> failures < Threshold

(***************************************************************************)
(* A drained governor only winds down: it never leaves the drain, and      *)
(* every lease it still holds was held before and unchanged.               *)
(***************************************************************************)
DrainOnlyReleases ==
    [][ draining => /\ draining'
                    /\ \A k \in LeaseKeys :
                           resourceLeases'[k] \in {resourceLeases[k], NotLeased} ]_governorVars
=============================================================================
