------------------------ MODULE FairSchedulerProofs -------------------------
(***************************************************************************)
(* What FairScheduler guarantees for all finite sets of tasks and clients, *)
(* any workspaces and all weights, costs, ages, quotas and bounds:         *)
(* totals that count the jobs, quotas that are never exceeded, a bound on  *)
(* how often a waiting client can be passed over, and that next() leaves   *)
(* no eligible client waiting for nothing.                                 *)
(***************************************************************************)
EXTENDS FairScheduler, FiniteSetTheorems, SequenceTheorems, NaturalsInduction, WellFoundedInduction, TLAPS

\* The order on Nat, as a relation.
Before == {p \in Nat \X Nat : p[1] < p[2]}

\* A set of natural numbers has a least element.
LEMMA LeastElement == ASSUME NEW S \in SUBSET Nat, S # {}
                      PROVE  \E m \in S : \A k \in S : m <= k
<1>1. IsWellFoundedOn(Before, Nat)
  BY NatLessThanWellFounded DEF OpToRel, Before
<1>2. PICK m \in S : \A k \in S : ~ (<<k, m>> \in Before)
  BY <1>1, WFMin, Zenon
<1>3. \A k \in S : ~ (k < m)
  BY <1>2 DEF Before
<1> QED
  BY <1>3

-----------------------------------------------------------------------------
(* The scheduler's totals and quotas.                                      *)

\* The inductive invariant of the bookkeeping.
TotalsInv == TypeOK /\ TotalsCountJobs /\ QuotasHold

\* Every scope has finitely many jobs.
LEMMA ScopesFinite ==
    ASSUME TypeOK
    PROVE  /\ IsFiniteSet(jobs)
           /\ \A c : IsFiniteSet(OfClient(c))
           /\ \A w : IsFiniteSet(OfWorkspace(w))
<1>1. IsFiniteSet(jobs)
  BY SchedulerAssumption, FS_Subset DEF TypeOK
<1>2. \A c : OfClient(c) \subseteq jobs
  BY DEF OfClient
<1>3. \A w : OfWorkspace(w) \subseteq jobs
  BY DEF OfWorkspace
<1> QED
  BY <1>1, <1>2, <1>3, FS_Subset

\* enqueue counts its job once in every scope, none of which was full.
LEMMA EnqueueCounts ==
    ASSUME TotalsInv, NEW t \in Tasks, Enqueue(t)
    PROVE  TotalsInv'
<1> DEFINE c == ClientOf[t]
           w == WorkspaceOf[t]
<1>1. c \in Clients /\ w \in Workspaces
  BY SchedulerAssumption
<1>2. TypeOK /\ TotalsCountJobs /\ QuotasHold
  BY DEF TotalsInv
<1>3. t \notin jobs /\ jobs' = jobs \cup {t}
  BY DEF Enqueue, MayEnqueue
<1>4. TypeOK'
  <2>1. queues' \in [Clients -> Seq(Tasks)]
    BY <1>1, <1>2 DEF Enqueue, TypeOK
  <2> QED
    BY <1>1, <1>2, <1>3, <2>1 DEF Enqueue, TypeOK
<1>5. /\ \A d : OfClient(d)' = IF d = c THEN OfClient(d) \cup {t} ELSE OfClient(d)
      /\ \A x : OfWorkspace(x)' = IF x = w THEN OfWorkspace(x) \cup {t} ELSE OfWorkspace(x)
      /\ t \notin OfClient(c) /\ t \notin OfWorkspace(w)
  BY <1>3 DEF OfClient, OfWorkspace
<1>6. /\ Cardinality(jobs') = Cardinality(jobs) + 1
      /\ Cardinality(OfClient(c)') = Cardinality(OfClient(c)) + 1
      /\ Cardinality(OfWorkspace(w)') = Cardinality(OfWorkspace(w)) + 1
  <2>1. Cardinality(OfClient(c) \cup {t}) = Cardinality(OfClient(c)) + 1
    BY <1>2, <1>5, ScopesFinite, FS_AddElement
  <2>2. Cardinality(OfWorkspace(w) \cup {t}) = Cardinality(OfWorkspace(w)) + 1
    BY <1>2, <1>5, ScopesFinite, FS_AddElement
  <2>3. Cardinality(jobs \cup {t}) = Cardinality(jobs) + 1
    BY <1>2, <1>3, ScopesFinite, FS_AddElement
  <2> QED
    BY <1>3, <1>5, <2>1, <2>2, <2>3
<1> HIDE DEF c, w
<1>7. /\ globalTotal' = globalTotal + 1
      /\ \A d \in Clients : clientTotal'[d] = IF d = c THEN clientTotal[d] + 1 ELSE clientTotal[d]
      /\ \A x \in Workspaces : workspaceTotal'[x] = IF x = w THEN workspaceTotal[x] + 1
                                                    ELSE workspaceTotal[x]
  BY <1>1, <1>2 DEF Enqueue, TypeOK, c, w
<1>8. TotalsCountJobs'
  <2>1. globalTotal' = Cardinality(jobs')
    BY <1>2, <1>6, <1>7 DEF TotalsCountJobs
  <2>2. ASSUME NEW d \in Clients PROVE clientTotal'[d] = Cardinality(OfClient(d)')
    <3>1. clientTotal[d] = Cardinality(OfClient(d))
      BY <1>2 DEF TotalsCountJobs
    <3> QED
      BY <1>5, <1>6, <1>7, <3>1
  <2>3. ASSUME NEW x \in Workspaces PROVE workspaceTotal'[x] = Cardinality(OfWorkspace(x)')
    <3>1. workspaceTotal[x] = Cardinality(OfWorkspace(x))
      BY <1>2 DEF TotalsCountJobs
    <3> QED
      BY <1>5, <1>6, <1>7, <3>1
  <2> QED
    BY <2>1, <2>2, <2>3 DEF TotalsCountJobs
<1>9. QuotasHold'
  <2>1. /\ globalTotal < GlobalQuota
        /\ workspaceTotal[w] < WorkspaceQuota
        /\ clientTotal[c] < ClientQuota
    BY DEF Enqueue, MayEnqueue, WithinQuotas, c, w
  <2>2. /\ globalTotal = Cardinality(jobs) /\ globalTotal \in Nat
        /\ clientTotal[c] = Cardinality(OfClient(c)) /\ clientTotal[c] \in Nat
        /\ workspaceTotal[w] = Cardinality(OfWorkspace(w)) /\ workspaceTotal[w] \in Nat
    BY <1>1, <1>2 DEF TotalsCountJobs, TypeOK
  <2>3. Cardinality(jobs') <= GlobalQuota
    BY <1>6, <2>1, <2>2, SchedulerAssumption
  <2>4. ASSUME NEW d \in Clients PROVE Cardinality(OfClient(d)') <= ClientQuota
    <3>1. CASE d = c
      BY <1>6, <2>1, <2>2, <3>1, SchedulerAssumption
    <3>2. CASE d # c
      BY <1>2, <1>5, <3>2 DEF QuotasHold
    <3> QED
      BY <3>1, <3>2
  <2>5. ASSUME NEW x \in Workspaces PROVE Cardinality(OfWorkspace(x)') <= WorkspaceQuota
    <3>1. CASE x = w
      BY <1>6, <2>1, <2>2, <3>1, SchedulerAssumption
    <3>2. CASE x # w
      BY <1>2, <1>5, <3>2 DEF QuotasHold
    <3> QED
      BY <3>1, <3>2
  <2> QED
    BY <2>3, <2>4, <2>5 DEF QuotasHold
<1> QED
  BY <1>4, <1>8, <1>9 DEF TotalsInv

\* complete and cancel give back what one enqueue took: the clamp at zero of
\* _release_slot never acts.
LEMMA ReleaseCounts ==
    ASSUME TotalsInv, NEW t \in Tasks, t \in jobs, jobs' = jobs \ {t}, ReleaseSlot(t),
           queues' \in [Clients -> Seq(Tasks)], inflight' \in [Clients -> Nat]
    PROVE  TotalsInv'
<1> DEFINE c == ClientOf[t]
           w == WorkspaceOf[t]
<1>1. c \in Clients /\ w \in Workspaces
  BY SchedulerAssumption
<1>2. TypeOK /\ TotalsCountJobs /\ QuotasHold
  BY DEF TotalsInv
<1>3. /\ \A d : OfClient(d)' = IF d = c THEN OfClient(d) \ {t} ELSE OfClient(d)
      /\ \A x : OfWorkspace(x)' = IF x = w THEN OfWorkspace(x) \ {t} ELSE OfWorkspace(x)
      /\ t \in OfClient(c) /\ t \in OfWorkspace(w)
  BY DEF OfClient, OfWorkspace
<1>4. /\ Cardinality(jobs') = Cardinality(jobs) - 1
      /\ Cardinality(OfClient(c)') = Cardinality(OfClient(c)) - 1
      /\ Cardinality(OfWorkspace(w)') = Cardinality(OfWorkspace(w)) - 1
  <2>1. Cardinality(OfClient(c) \ {t}) = Cardinality(OfClient(c)) - 1
    BY <1>2, <1>3, ScopesFinite, FS_RemoveElement
  <2>2. Cardinality(OfWorkspace(w) \ {t}) = Cardinality(OfWorkspace(w)) - 1
    BY <1>2, <1>3, ScopesFinite, FS_RemoveElement
  <2>3. Cardinality(jobs \ {t}) = Cardinality(jobs) - 1
    BY <1>2, ScopesFinite, FS_RemoveElement
  <2> QED
    BY <1>3, <2>1, <2>2, <2>3
<1>5. /\ Cardinality(jobs) > 0 /\ Cardinality(jobs) \in Nat
      /\ Cardinality(OfClient(c)) > 0 /\ Cardinality(OfClient(c)) \in Nat
      /\ Cardinality(OfWorkspace(w)) > 0 /\ Cardinality(OfWorkspace(w)) \in Nat
  <2>1. \A S : IsFiniteSet(S) /\ t \in S => Cardinality(S) \in Nat /\ Cardinality(S) > 0
    <3> SUFFICES ASSUME NEW S, IsFiniteSet(S), t \in S
                 PROVE  Cardinality(S) \in Nat /\ Cardinality(S) > 0
      OBVIOUS
    <3>1. Cardinality(S) \in Nat
      BY FS_CardinalityType
    <3>2. Cardinality(S) # 0
      BY FS_EmptySet
    <3> QED
      BY <3>1, <3>2
  <2> QED
    BY <1>2, <1>3, <2>1, ScopesFinite
<1> HIDE DEF c, w
<1>6. /\ globalTotal' = Cardinality(jobs')
      /\ \A d \in Clients : clientTotal'[d] = Cardinality(OfClient(d)')
      /\ \A x \in Workspaces : workspaceTotal'[x] = Cardinality(OfWorkspace(x)')
  <2>1. globalTotal' = Cardinality(jobs')
    BY <1>2, <1>4, <1>5 DEF ReleaseSlot, Decremented, TotalsCountJobs
  <2>2. ASSUME NEW d \in Clients PROVE clientTotal'[d] = Cardinality(OfClient(d)')
    <3>1. clientTotal[d] = Cardinality(OfClient(d)) /\ clientTotal[c] = Cardinality(OfClient(c))
      BY <1>1, <1>2 DEF TotalsCountJobs
    <3>2. clientTotal'[d] = IF d = c THEN Decremented(clientTotal[c]) ELSE clientTotal[d]
      BY <1>1, <1>2 DEF ReleaseSlot, TypeOK, c
    <3> QED
      BY <1>3, <1>4, <1>5, <3>1, <3>2 DEF Decremented
  <2>3. ASSUME NEW x \in Workspaces PROVE workspaceTotal'[x] = Cardinality(OfWorkspace(x)')
    <3>1. /\ workspaceTotal[x] = Cardinality(OfWorkspace(x))
          /\ workspaceTotal[w] = Cardinality(OfWorkspace(w))
      BY <1>1, <1>2 DEF TotalsCountJobs
    <3>2. workspaceTotal'[x] = IF x = w THEN Decremented(workspaceTotal[w]) ELSE workspaceTotal[x]
      BY <1>1, <1>2 DEF ReleaseSlot, TypeOK, w
    <3> QED
      BY <1>3, <1>4, <1>5, <3>1, <3>2 DEF Decremented
  <2> QED
    BY <2>1, <2>2, <2>3
<1>7. TypeOK'
  <2>1. \A n \in Nat : Decremented(n) \in Nat
    BY DEF Decremented
  <2>2. globalTotal' \in Nat /\ clientTotal' \in [Clients -> Nat] /\ workspaceTotal' \in [Workspaces -> Nat]
    <3>1. /\ globalTotal \in Nat
          /\ clientTotal \in [Clients -> Nat] /\ clientTotal[c] \in Nat
          /\ workspaceTotal \in [Workspaces -> Nat] /\ workspaceTotal[w] \in Nat
      BY <1>1, <1>2 DEF TypeOK
    <3>2. /\ globalTotal' = Decremented(globalTotal)
          /\ clientTotal' = [clientTotal EXCEPT ![c] = Decremented(clientTotal[c])]
          /\ workspaceTotal' = [workspaceTotal EXCEPT ![w] = Decremented(workspaceTotal[w])]
      BY DEF ReleaseSlot, c, w
    <3> QED
      BY <2>1, <3>1, <3>2
  <2> QED
    BY <1>2, <2>2 DEF TypeOK
<1>8. QuotasHold'
  <2>1. Cardinality(jobs') <= GlobalQuota
    BY <1>2, <1>4, <1>5, SchedulerAssumption DEF QuotasHold
  <2>2. ASSUME NEW d \in Clients PROVE Cardinality(OfClient(d)') <= ClientQuota
    <3>1. Cardinality(OfClient(d)) <= ClientQuota
      BY <1>2 DEF QuotasHold
    <3>2. CASE d = c
      BY <1>4, <1>5, <3>1, <3>2, SchedulerAssumption
    <3>3. CASE d # c
      BY <1>3, <3>1, <3>3
    <3> QED
      BY <3>2, <3>3
  <2>3. ASSUME NEW x \in Workspaces PROVE Cardinality(OfWorkspace(x)') <= WorkspaceQuota
    <3>1. Cardinality(OfWorkspace(x)) <= WorkspaceQuota
      BY <1>2 DEF QuotasHold
    <3>2. CASE x = w
      BY <1>4, <1>5, <3>1, <3>2, SchedulerAssumption
    <3>3. CASE x # w
      BY <1>3, <3>1, <3>3
    <3> QED
      BY <3>2, <3>3
  <2> QED
    BY <2>1, <2>2, <2>3 DEF QuotasHold
<1> QED
  BY <1>6, <1>7, <1>8 DEF TotalsInv, TotalsCountJobs

-----------------------------------------------------------------------------
(* What cancel leaves of a queue.                                          *)

\* kept is the recursive function that EntriesBut defines, up to entry n.
Keeps(kept, t, entries, n) ==
    kept = [i \in 0..n |->
               IF i = 0 THEN <<>>
               ELSE IF entries[i] = t THEN kept[i - 1] ELSE Append(kept[i - 1], entries[i])]

\* There is such a function: one up to n - 1 can be continued to n.
LEMMA KeepsExists ==
    ASSUME NEW t, NEW entries, NEW n \in Nat
    PROVE  \E kept : Keeps(kept, t, entries, n)
<1> DEFINE Bad == {m \in Nat : ~ \E kept : Keeps(kept, t, entries, m)}
<1> SUFFICES ASSUME Bad # {} PROVE FALSE
  OBVIOUS
<1>1. PICK m \in Bad : \A k \in Bad : m <= k
  BY LeastElement
<1>2. m # 0
  <2>1. Keeps([i \in 0..0 |-> <<>>], t, entries, 0)
    BY DEF Keeps
  <2> QED
    BY <2>1
<1>3. m - 1 \in Nat /\ m - 1 \notin Bad
  BY <1>1, <1>2
<1>4. PICK kept : Keeps(kept, t, entries, m - 1)
  BY <1>3
<1> DEFINE last == IF entries[m] = t THEN kept[m - 1] ELSE Append(kept[m - 1], entries[m])
           longer == [i \in 0..m |-> IF i = m THEN last ELSE kept[i]]
<1>5. \A i \in 0..m :
         longer[i] = IF i = 0 THEN <<>>
                     ELSE IF entries[i] = t THEN longer[i - 1] ELSE Append(longer[i - 1], entries[i])
  <2> TAKE i \in 0..m
  <2>1. CASE i = m
    BY <1>2, <2>1
  <2>2. CASE i # m
    <3>1. i \in 0..m - 1 /\ longer[i] = kept[i] /\ (i # 0 => longer[i - 1] = kept[i - 1])
      BY <2>2
    <3>2. kept[i] = IF i = 0 THEN <<>>
                    ELSE IF entries[i] = t THEN kept[i - 1] ELSE Append(kept[i - 1], entries[i])
      BY <1>4, <3>1 DEF Keeps
    <3> QED
      BY <3>1, <3>2
  <2> QED
    BY <2>1, <2>2
<1>6. longer = [i \in 0..m |-> longer[i]]
  OBVIOUS
<1> HIDE DEF longer
<1>7. Keeps(longer, t, entries, m)
  BY <1>5, <1>6 DEF Keeps
<1> QED
  BY <1>1, <1>7

\* cancel keeps the oldest entry unless it is the cancelled job's.
LEMMA EntriesButKeepsHead ==
    ASSUME NEW t, NEW entries \in Seq(Tasks)
    PROVE  /\ EntriesBut(t, entries) \in Seq(Tasks)
           /\ entries = <<>> => EntriesBut(t, entries) = <<>>
           /\ entries # <<>> /\ Head(entries) # t =>
                  EntriesBut(t, entries) # <<>> /\ Head(EntriesBut(t, entries)) = Head(entries)
<1> DEFINE n == Len(entries)
           kept == CHOOSE f : Keeps(f, t, entries, n)
<1>1. n \in Nat /\ \A i \in 1..n : entries[i] \in Tasks
  OBVIOUS
<1>2. Keeps(kept, t, entries, n)
  BY <1>1, KeepsExists
<1>3. EntriesBut(t, entries) = kept[n]
  BY DEF EntriesBut, Keeps
<1> HIDE DEF kept, n
<1> DEFINE Good(i) == /\ kept[i] \in Seq(Tasks)
                      /\ i > 0 /\ entries[1] # t => kept[i] # <<>> /\ Head(kept[i]) = entries[1]
           Bad == {i \in 0..n : ~ Good(i)}
<1>4. Bad = {}
  <2> SUFFICES ASSUME Bad # {} PROVE FALSE
    OBVIOUS
  <2>1. PICK m \in Bad : \A k \in Bad : m <= k
    <3>1. Bad \in SUBSET Nat
      BY <1>1
    <3> HIDE DEF Bad
    <3> QED
      BY <3>1, LeastElement
  <2>2. m \in 0..n /\ ~ Good(m)
    BY <2>1
  <2>3. kept[m] = IF m = 0 THEN <<>>
                  ELSE IF entries[m] = t THEN kept[m - 1] ELSE Append(kept[m - 1], entries[m])
    BY <1>2, <2>2 DEF Keeps
  <2>4. m # 0
    BY <2>2, <2>3
  <2>5. m - 1 \in 0..n /\ m \in 1..n
    BY <1>1, <2>2, <2>4
  <2>6. Good(m - 1)
    BY <1>1, <2>1, <2>2, <2>5
  <2>7. kept[0] = <<>>
    BY <1>1, <1>2 DEF Keeps
  <2>8. kept[m - 1] \in Seq(Tasks) /\ entries[m] \in Tasks
    BY <1>1, <2>5, <2>6
  <2>9. kept[m] \in Seq(Tasks)
    BY <2>3, <2>4, <2>8
  <2>10. ASSUME entries[1] # t PROVE kept[m] # <<>> /\ Head(kept[m]) = entries[1]
    <3>1. CASE m = 1
      <4>1. kept[1] = Append(<<>>, entries[1])
        BY <2>3, <2>7, <2>10, <3>1
      <4> QED
        BY <3>1, <4>1
    <3>2. CASE m # 1
      <4>1. kept[m - 1] # <<>> /\ Head(kept[m - 1]) = entries[1]
        BY <2>5, <2>6, <2>10, <3>2
      <4> QED
        BY <2>3, <2>4, <2>8, <4>1
    <3> QED
      BY <3>1, <3>2
  <2> QED
    BY <2>2, <2>9, <2>10
<1>5. Good(n)
  BY <1>1, <1>4
<1>6. kept[0] = <<>>
  BY <1>1, <1>2 DEF Keeps
<1>7. entries = <<>> => n = 0
  BY DEF n
<1>8. entries # <<>> => n > 0 /\ Head(entries) = entries[1]
  BY DEF n
<1> QED
  BY <1>3, <1>5, <1>6, <1>7, <1>8
-----------------------------------------------------------------------------
(* Arithmetic of visits and turns.                                         *)

\* Multiplication by a natural number is monotone.
LEMMA MulMono == ASSUME NEW a \in Nat, NEW b \in Nat, NEW x \in Nat, a <= b
                 PROVE  a * x <= b * x /\ x * a <= x * b
<1>1. (b - a) * x >= 0 /\ x * (b - a) >= 0
  OBVIOUS
<1>2. (b - a) * x = b * x - a * x /\ x * (b - a) = x * b - x * a
  OBVIOUS
<1>3. a * x \in Int /\ b * x \in Int /\ x * a \in Int /\ x * b \in Int
  OBVIOUS
<1> QED
  BY <1>1, <1>2, <1>3

\* What a quotient is.
LEMMA DivBounds == ASSUME NEW a \in Nat, NEW g \in Nat \ {0}
                   PROVE  a \div g \in Nat /\ a < g * (a \div g) + g
OBVIOUS

\* What a remainder is.
LEMMA ModRange == ASSUME NEW a \in Nat, NEW n \in Nat \ {0}
                  PROVE  a % n \in 0..n - 1
OBVIOUS

\* A remainder of less than twice the divisor.
LEMMA ModOnce == ASSUME NEW n \in Nat \ {0}, NEW a \in 0..2 * n - 1
                 PROVE  a % n = IF a < n THEN a ELSE a - n
OBVIOUS

\* Rounding up: v units of g fall short of a only if v is less than a / g
\* rounded up.
LEMMA CeilDiv == ASSUME NEW a \in Nat \ {0}, NEW g \in Nat \ {0}
                 PROVE  /\ (a + g - 1) \div g \in Nat \ {0}
                        /\ \A v \in Nat : v * g < a => v < (a + g - 1) \div g
<1> DEFINE q == (a + g - 1) \div g
<1>1. a + g - 1 \in Nat
  OBVIOUS
<1>2. q \in Nat /\ a + g - 1 < g * q + g
  BY <1>1, DivBounds
<1> HIDE DEF q
<1>3. g * q \in Nat /\ a <= g * q
  BY <1>2
<1>4. q # 0
  BY <1>3
<1>5. ASSUME NEW v \in Nat, v * g < a PROVE v < q
  <2> SUFFICES ASSUME q <= v PROVE FALSE
    BY <1>2
  <2>1. q * g <= v * g
    BY <1>2, MulMono
  <2>2. q * g = g * q /\ v * g \in Nat
    BY <1>2
  <2> QED
    BY <1>3, <1>5, <2>1, <2>2
<1> QED
  BY <1>2, <1>4, <1>5 DEF q

-----------------------------------------------------------------------------
(* Credits: what a visit adds and a job costs.                             *)

\* What a visit adds at least.
BaseGain(t) == Quantum * PriorityGain[t]

\* VisitsNeeded visits save up the cost of the job, and fewer may not.
LEMMA VisitsNeededType ==
    ASSUME NEW t \in Tasks
    PROVE  /\ BaseGain(t) \in Nat \ {0}
           /\ VisitsNeeded(t) \in Nat \ {0}
           /\ \A v \in Nat : v * BaseGain(t) < 2 * Cost[t] => v < VisitsNeeded(t)
<1>1. Quantum \in Nat \ {0} /\ PriorityGain[t] \in Nat \ {0} /\ 2 * Cost[t] \in Nat \ {0}
  BY FairAssumption DEF Multipliers
<1>2. BaseGain(t) \in Nat \ {0}
  BY <1>1 DEF BaseGain
<1>3. VisitsNeeded(t) = (2 * Cost[t] + BaseGain(t) - 1) \div BaseGain(t)
  BY DEF VisitsNeeded, BaseGain
<1> QED
  BY <1>1, <1>2, <1>3, CeilDiv

\* Weight and age only add to it.
LEMMA GainBound ==
    ASSUME FairTypeOK, NEW c \in Clients, queues[c] # <<>>
    PROVE  /\ Head(queues[c]) \in Tasks
           /\ Gain(c) \in Nat /\ Gain(c) >= BaseGain(Head(queues[c]))
           /\ HeadCost(c) \in Nat
<1> DEFINE t == Head(queues[c])
           boost == IF age[c] + 1 > AgingTicks THEN AgingBoost ELSE 1
           p == PriorityGain[t]
<1>1. t \in Tasks
  BY DEF FairTypeOK, TypeOK
<1>2. Quantum \in Nat \ {0} /\ p \in Nat \ {0} /\ Cost[t] \in Nat \ {0}
  BY <1>1, FairAssumption DEF Multipliers
<1>3. weights[c] \in Nat \ {0}
  BY DEF FairTypeOK
<1>4. boost \in Nat \ {0}
  BY FairAssumption DEF FairTypeOK
<1>5. Gain(c) = Quantum * weights[c] * p * boost
  BY DEF Gain
<1>6. BaseGain(t) = Quantum * p
  BY DEF BaseGain
<1>7. HeadCost(c) \in Nat
  BY <1>2 DEF HeadCost
<1> HIDE DEF t, boost, p
<1> DEFINE w == weights[c]
<1>8. w \in Nat \ {0}
  BY <1>3
<1> HIDE DEF w
<1>9. Quantum * p \in Nat /\ w * boost \in Nat /\ w * boost >= 1
  BY <1>2, <1>4, <1>8
<1>10. Quantum * w * p * boost = (w * boost) * (Quantum * p)
  BY <1>2, <1>4, <1>8
<1>11. 1 * (Quantum * p) <= (w * boost) * (Quantum * p)
  BY <1>9, MulMono
<1>12. (w * boost) * (Quantum * p) \in Nat
  BY <1>9
<1> QED
  BY <1>1, <1>5, <1>6, <1>7, <1>9, <1>10, <1>11, <1>12 DEF t, w

-----------------------------------------------------------------------------
(* Turns: when a call of next() reaches a client.                          *)

\* The turn that visits place i of n first, from cursor a.
TurnFrom(i, a, n) == IF i > a THEN i - 1 - a ELSE i - 1 - a + n
Dist(i) == TurnFrom(i, cursor, Len(order))

\* The order has every known client, and no more than there are clients.
LEMMA OrderBasics ==
    ASSUME FairTypeOK
    PROVE  /\ Len(order) \in Nat /\ DOMAIN order = 1..Len(order)
           /\ Cardinality(Clients) \in Nat /\ Len(order) <= Cardinality(Clients)
           /\ Known \subseteq Clients
<1>1. Len(order) \in Nat /\ DOMAIN order = 1..Len(order) /\ \A i \in DOMAIN order : order[i] \in Clients
  BY DEF FairTypeOK
<1>2. Known \subseteq Clients
  BY <1>1 DEF Known
<1>3. Cardinality(Known) <= Cardinality(Clients)
  BY <1>2, FairAssumption, FS_Subset
<1>4. Cardinality(Clients) \in Nat
  BY FairAssumption, FS_CardinalityType
<1> QED
  BY <1>1, <1>2, <1>3, <1>4 DEF FairTypeOK

\* The first visit of a place comes within the first round.
LEMMA TurnRange ==
    ASSUME NEW n \in Nat \ {0}, NEW i \in 1..n, NEW a \in 0..n - 1
    PROVE  TurnFrom(i, a, n) \in 0..n - 1
BY DEF TurnFrom

\* It is a visit of that place's client.
LEMMA TurnHits ==
    ASSUME FairTypeOK, NEW i \in DOMAIN order
    PROVE  /\ Dist(i) \in 0..Len(order) - 1
           /\ ClientAt(Dist(i)) = order[i]
<1> DEFINE n == Len(order)
<1>1. n \in Nat \ {0} /\ i \in 1..n /\ cursor \in 0..n - 1
  BY OrderBasics DEF FairTypeOK
<1> HIDE DEF n
<1>2. Dist(i) = IF i > cursor THEN i - 1 - cursor ELSE i - 1 - cursor + n
  BY DEF Dist, TurnFrom, n
<1>3. Dist(i) \in 0..n - 1
  BY <1>1, TurnRange DEF Dist, n
<1>4. cursor + Dist(i) = IF i > cursor THEN i - 1 ELSE i - 1 + n
  BY <1>1, <1>2
<1>5. (cursor + Dist(i)) % n = i - 1
  <2>1. cursor + Dist(i) \in 0..2 * n - 1
    BY <1>1, <1>4
  <2> QED
    BY <1>1, <1>4, <2>1, ModOnce
<1>6. ((cursor + Dist(i)) % n) + 1 = i
  BY <1>1, <1>5
<1> QED
  BY <1>3, <1>6 DEF ClientAt, n

\* The cursor stays in the order.
LEMMA CursorRange ==
    ASSUME NEW a \in Nat, NEW k \in Nat, NEW n \in Nat \ {0}
    PROVE  (a + k + 1) % n \in 0..n - 1
<1> DEFINE x == a + k + 1
<1>1. x \in Nat
  OBVIOUS
<1> HIDE DEF x
<1>2. x % n \in 0..n - 1
  BY <1>1, ModRange
<1> QED
  BY <1>2 DEF x

\* The visited client is a known one.
LEMMA TurnKnown ==
    ASSUME FairTypeOK, order # <<>>, NEW k \in Nat
    PROVE  ClientAt(k) \in Known /\ ClientAt(k) \in Clients
<1>1. Len(order) \in Nat \ {0} /\ cursor \in Nat
  BY DEF FairTypeOK
<1>2. (cursor + k) % Len(order) \in 0..Len(order) - 1
  <2> DEFINE x == cursor + k
             n == Len(order)
  <2>1. x \in Nat /\ n \in Nat \ {0}
    BY <1>1
  <2> HIDE DEF x, n
  <2>2. x % n \in 0..n - 1
    BY <2>1, ModRange
  <2> QED
    BY <2>2 DEF x, n
<1>3. ((cursor + k) % Len(order)) + 1 \in DOMAIN order
  BY <1>1, <1>2, OrderBasics
<1>4. ClientAt(k) \in Known
  BY <1>3 DEF ClientAt, Known
<1> QED
  BY <1>4, OrderBasics

\* Turn k moves the cursor by k + 1 places: a place not reached yet is as
\* many turns closer.
LEMMA Closer ==
    ASSUME NEW n \in Nat \ {0}, NEW i \in 1..n, NEW a \in 0..n - 1, NEW k \in Nat,
           k < TurnFrom(i, a, n)
    PROVE  TurnFrom(i, (a + k + 1) % n, n) = TurnFrom(i, a, n) - (k + 1)
<1> DEFINE x == a + k + 1
           b == x % n
<1>1. x \in 0..2 * n - 1
  BY DEF TurnFrom
<1> HIDE DEF x
<1>2. b = IF x < n THEN x ELSE x - n
  BY <1>1, ModOnce
<1> HIDE DEF b
<1>3. x = a + k + 1
  BY DEF x
<1>4. TurnFrom(i, b, n) = TurnFrom(i, a, n) - (k + 1)
  BY <1>1, <1>2, <1>3 DEF TurnFrom
<1> QED
  BY <1>4 DEF x, b

\* A turn that stops before place i brings the cursor nearer to it.
LEMMA CursorMoves ==
    ASSUME FairTypeOK, NEW i \in DOMAIN order, NEW k \in Nat, k < Dist(i),
           order' = order, cursor' = (cursor + k + 1) % Len(order)
    PROVE  Dist(i)' = Dist(i) - (k + 1)
<1>1. Len(order) \in Nat \ {0} /\ i \in 1..Len(order) /\ cursor \in 0..Len(order) - 1
  BY OrderBasics DEF FairTypeOK
<1>2. TurnFrom(i, (cursor + k + 1) % Len(order), Len(order)) =
          TurnFrom(i, cursor, Len(order)) - (k + 1)
  BY <1>1, Closer DEF Dist
<1>3. Dist(i)' = TurnFrom(i, cursor', Len(order))
  BY DEF Dist
<1> QED
  BY <1>2, <1>3, Zenon DEF Dist

\* A turn that visits the client counts.
LEMMA VisitsCount ==
    ASSUME NEW c, NEW k \in Nat
    PROVE  /\ Visits(c, k) \in Nat
           /\ \A i \in 0..k : ClientAt(i) = c => Visits(c, k) >= 1
<1> DEFINE S == {i \in 0..k : ClientAt(i) = c}
<1>1. IsFiniteSet(S)
  <2>1. IsFiniteSet(0..k)
    BY FS_Interval
  <2>2. S \subseteq 0..k
    OBVIOUS
  <2> HIDE DEF S
  <2> QED
    BY <2>1, <2>2, FS_Subset
<1>2. Cardinality(S) \in Nat
  BY <1>1, FS_CardinalityType
<1>3. ASSUME NEW i \in 0..k, ClientAt(i) = c PROVE Cardinality(S) # 0
  <2>1. i \in S
    BY <1>3
  <2> QED
    BY <1>1, <2>1, FS_EmptySet
<1> QED
  BY <1>2, <1>3 DEF Visits

\* What a credit of several visits comes to.
LEMMA CreditBound ==
    ASSUME NEW d \in Nat, NEW n \in Nat, NEW g \in Nat
    PROVE  /\ d + n * g \in Nat
           /\ d + n * g >= d
           /\ n >= 1 => d + n * g >= d + g
<1>1. n * g \in Nat
  OBVIOUS
<1>2. n >= 1 => 1 * g <= n * g
  BY MulMono
<1> QED
  BY <1>1, <1>2

-----------------------------------------------------------------------------
(* Starvation freedom.                                                     *)

\* Client c is at place i of the order, v visits of its deficit are its own,
\* and next() has passed it over at most once for every client in each of
\* these visits' rounds and for every place the cursor has left behind since.
Place(c, i, v) ==
    /\ order[i] = c
    /\ v * BaseGain(Head(queues[c])) <= deficit[c]
    /\ passed[c] <= Cardinality(Clients) * v + (Len(order) - 1 - Dist(i))

Placed(c) ==
    \E i \in DOMAIN order, v \in 0..VisitsNeeded(Head(queues[c])) - 1 : Place(c, i, v)

\* A client that was passed over may still be served and has its place.
Waits == \A c \in Clients : passed[c] > 0 => Eligible(c) /\ Placed(c)

\* Whoever waits is known to the round robin.
WaitersKnown == \A c \in Clients : queues[c] # <<>> => c \in Known

\* The inductive invariant of the scheduler.
FairInv == FairTypeOK /\ TotalsCountJobs /\ QuotasHold /\ WaitersKnown /\ Waits

\* An eligible client has its place, passed over or not.
LEMMA Ready ==
    ASSUME FairInv, NEW c \in Clients, Eligible(c)
    PROVE  Placed(c)
<1>1. CASE passed[c] > 0
  BY <1>1 DEF FairInv, Waits
<1>2. CASE ~ (passed[c] > 0)
  <2>1. FairTypeOK /\ queues[c] # <<>> /\ c \in Known
    BY DEF FairInv, WaitersKnown, Eligible
  <2>2. PICK i \in DOMAIN order : order[i] = c
    BY <2>1 DEF Known
  <2>3. passed[c] = 0 /\ deficit[c] \in Nat
    BY <1>2, <2>1 DEF FairTypeOK
  <2>4. Dist(i) \in 0..Len(order) - 1 /\ Len(order) \in Nat
    BY <2>1, TurnHits, OrderBasics
  <2>5. Head(queues[c]) \in Tasks
    BY <2>1, GainBound
  <2>6. BaseGain(Head(queues[c])) \in Nat /\ 0 \in 0..VisitsNeeded(Head(queues[c])) - 1
    BY <2>5, VisitsNeededType
  <2>7. Cardinality(Clients) \in Nat
    BY <2>1, OrderBasics
  <2>8. Cardinality(Clients) * 0 = 0 /\ 0 * BaseGain(Head(queues[c])) = 0
    BY <2>6, <2>7
  <2>9. Place(c, i, 0)
    BY <2>2, <2>3, <2>4, <2>8 DEF Place
  <2> QED
    BY <2>6, <2>9 DEF Placed
<1> QED
  BY <1>1, <1>2

\* The two ways a call passes over a client.  It stops before the client's
\* turn: the cursor comes closer.
LEMMA PassedBefore ==
    ASSUME FairTypeOK, NEW c \in Clients, queues[c] # <<>>,
           NEW i \in DOMAIN order, NEW v \in 0..VisitsNeeded(Head(queues[c])) - 1, Place(c, i, v),
           NEW k \in Nat, k < Dist(i),
           order' = order, queues'[c] = queues[c], cursor' = (cursor + k + 1) % Len(order),
           passed'[c] = passed[c] + 1, deficit'[c] \in Nat, deficit'[c] >= deficit[c]
    PROVE  Placed(c)'
<1> DEFINE m == Cardinality(Clients) * v
           b == v * BaseGain(Head(queues[c]))
<1>1. Head(queues[c]) \in Tasks
  BY GainBound
<1>2. BaseGain(Head(queues[c])) \in Nat /\ VisitsNeeded(Head(queues[c])) \in Nat
  BY <1>1, VisitsNeededType
<1>3. m \in Nat /\ b \in Nat
  BY <1>2, OrderBasics
<1>4. Len(order) \in Nat /\ Dist(i) \in Int /\ passed[c] \in Nat /\ deficit[c] \in Nat
  <2>1. Len(order) \in Nat /\ Dist(i) \in Int
    BY OrderBasics, TurnHits
  <2>2. passed[c] \in Nat /\ deficit[c] \in Nat
    BY DEF FairTypeOK
  <2> QED
    BY <2>1, <2>2
<1>5. Dist(i)' = Dist(i) - (k + 1)
  BY CursorMoves
<1>6. order[i] = c /\ b <= deficit[c] /\ passed[c] <= m + (Len(order) - 1 - Dist(i))
  BY DEF Place
<1> HIDE DEF m, b
<1>7. b <= deficit'[c]
  BY <1>3, <1>4, <1>6
<1>8. passed'[c] <= m + (Len(order) - 1 - Dist(i)')
  BY <1>3, <1>4, <1>5, <1>6
<1>9. Place(c, i, v)'
  BY <1>6, <1>7, <1>8 DEF Place, m, b
<1> QED
  BY <1>9 DEF Placed

\* It visits the client, which cannot pay yet: one more visit is its own.
LEMMA PassedAfter ==
    ASSUME FairTypeOK, NEW c \in Clients, queues[c] # <<>>,
           NEW i \in DOMAIN order, NEW v \in 0..VisitsNeeded(Head(queues[c])) - 1, Place(c, i, v),
           order' = order, queues'[c] = queues[c], cursor' \in 0..Len(order) - 1,
           passed'[c] = passed[c] + 1, deficit'[c] \in Nat, deficit'[c] >= deficit[c] + Gain(c),
           deficit[c] + Gain(c) < HeadCost(c)
    PROVE  Placed(c)'
<1> DEFINE t == Head(queues[c])
           n == Cardinality(Clients)
           g == BaseGain(t)
<1>1. t \in Tasks /\ Gain(c) \in Nat /\ Gain(c) >= g /\ HeadCost(c) = 2 * Cost[t] /\ HeadCost(c) \in Nat
  BY GainBound DEF HeadCost
<1>2. g \in Nat /\ VisitsNeeded(t) \in Nat
  BY <1>1, VisitsNeededType
<1>3. n \in Nat /\ Len(order) \in Nat /\ Len(order) <= n
  BY OrderBasics
<1>4. Dist(i) \in 0..Len(order) - 1 /\ passed[c] \in Nat /\ deficit[c] \in Nat
  BY TurnHits DEF FairTypeOK
<1>5. Dist(i)' \in 0..Len(order) - 1
  <2>1. i \in 1..Len(order) /\ Len(order) \in Nat \ {0}
    BY OrderBasics
  <2>2. Dist(i)' = TurnFrom(i, cursor', Len(order))
    BY DEF Dist
  <2> QED
    BY <2>1, <2>2, TurnRange
<1>6. order[i] = c /\ v * g <= deficit[c] /\ passed[c] <= n * v + (Len(order) - 1 - Dist(i))
  BY DEF Place
<1> HIDE DEF g, n
<1>7. (v + 1) * g = v * g + g /\ v * g \in Nat /\ n * (v + 1) = n * v + n /\ n * v \in Nat
  BY <1>2, <1>3
<1>8. (v + 1) * g <= deficit[c] + Gain(c)
  BY <1>1, <1>2, <1>4, <1>6, <1>7
<1>9. v + 1 \in 0..VisitsNeeded(t) - 1
  <2>1. (v + 1) * g < 2 * Cost[t]
    <3> DEFINE x == (v + 1) * g
    <3>1. x \in Nat /\ x <= deficit[c] + Gain(c)
      BY <1>2, <1>8
    <3> HIDE DEF x
    <3>2. x < HeadCost(c)
      BY <1>1, <1>4, <3>1
    <3> QED
      BY <1>1, <3>2 DEF x
  <2>2. v + 1 \in Nat
    BY <1>2
  <2>3. v + 1 < VisitsNeeded(t)
    BY <1>1, <2>1, <2>2, VisitsNeededType DEF g
  <2> QED
    BY <1>2, <2>2, <2>3
<1>10. (v + 1) * g <= deficit'[c]
  <2> DEFINE x == (v + 1) * g
  <2>1. x \in Nat /\ x <= deficit[c] + Gain(c)
    BY <1>2, <1>8
  <2> HIDE DEF x
  <2>2. x <= deficit'[c]
    BY <1>1, <1>4, <2>1
  <2> QED
    BY <2>2 DEF x
<1>11. passed'[c] <= n * (v + 1) + (Len(order) - 1 - Dist(i)')
  <2> DEFINE m == n * v
             m1 == n * (v + 1)
  <2>1. passed[c] <= m + (Len(order) - 1 - Dist(i)) /\ m1 = m + n /\ m \in Nat
    BY <1>6, <1>7
  <2> HIDE DEF m, m1
  <2>2. passed'[c] <= m1 + (Len(order) - 1 - Dist(i)')
    BY <1>3, <1>4, <1>5, <2>1
  <2> QED
    BY <2>2 DEF m1
<1>12. Place(c, i, v + 1)'
  BY <1>6, <1>10, <1>11 DEF Place, g, n
<1> QED
  BY <1>9, <1>12 DEF Placed

-----------------------------------------------------------------------------
(* Every operation keeps the bookkeeping part of the invariant.            *)

\* A step that leaves the jobs and the totals alone keeps the bookkeeping.
LEMMA SameJobs ==
    ASSUME TotalsInv, UNCHANGED <<jobs, totals>>,
           queues' \in [Clients -> Seq(Tasks)], inflight' \in [Clients -> Nat]
    PROVE  TotalsInv'
<1>1. TypeOK /\ TotalsCountJobs /\ QuotasHold
  BY DEF TotalsInv
<1>2. TypeOK'
  BY <1>1 DEF TypeOK, totals
<1>3. TotalsCountJobs' /\ QuotasHold'
  BY <1>1 DEF TotalsCountJobs, QuotasHold, OfClient, OfWorkspace, totals
<1> QED
  BY <1>2, <1>3 DEF TotalsInv

\* next_job takes a job from its queue and leaves it counted.
LEMMA DispatchCounts ==
    ASSUME TotalsInv, NEW c \in Clients, Dispatch(c)
    PROVE  TotalsInv'
<1>1. queues \in [Clients -> Seq(Tasks)] /\ inflight \in [Clients -> Nat] /\ queues[c] # <<>>
  BY DEF TotalsInv, TypeOK, Dispatch, Eligible
<1>2. Tail(queues[c]) \in Seq(Tasks)
  BY <1>1
<1>3. queues' \in [Clients -> Seq(Tasks)] /\ inflight' \in [Clients -> Nat]
  BY <1>1, <1>2 DEF Dispatch
<1> QED
  BY <1>3, SameJobs DEF Dispatch

\* complete counts its job no more, and frees in-flight slots only.
LEMMA CompleteCounts ==
    ASSUME TotalsInv, NEW t \in Tasks, Complete(t)
    PROVE  /\ TotalsInv'
           /\ \A c \in Clients : inflight'[c] <= inflight[c]
<1>1. inflight \in [Clients -> Nat] /\ ClientOf[t] \in Clients /\ queues \in [Clients -> Seq(Tasks)]
  BY SchedulerAssumption DEF TotalsInv, TypeOK
<1>2. inflight' \in [Clients -> Nat] /\ \A c \in Clients : inflight'[c] <= inflight[c]
  BY <1>1 DEF Complete, Decremented
<1>3. t \in jobs /\ jobs' = jobs \ {t} /\ ReleaseSlot(t) /\ queues' \in [Clients -> Seq(Tasks)]
  BY <1>1 DEF Complete
<1> QED
  BY <1>2, <1>3, ReleaseCounts

\* cancel leaves every queue's oldest entry where it was, unless it is the
\* cancelled job's own, and lets no queue begin.
LEMMA CancelCounts ==
    ASSUME TotalsInv, NEW t \in Tasks, Cancel(t)
    PROVE  /\ TotalsInv'
           /\ \A c \in Clients :
                 /\ queues'[c] # <<>> => queues[c] # <<>>
                 /\ queues[c] # <<>> /\ (c = ClientOf[t] => Head(queues[c]) # t) =>
                        queues'[c] # <<>> /\ Head(queues'[c]) = Head(queues[c])
<1>1. inflight \in [Clients -> Nat] /\ ClientOf[t] \in Clients /\ queues \in [Clients -> Seq(Tasks)]
  BY SchedulerAssumption DEF TotalsInv, TypeOK
<1> DEFINE left == EntriesBut(t, queues[ClientOf[t]])
<1>2. /\ left \in Seq(Tasks)
      /\ queues[ClientOf[t]] = <<>> => left = <<>>
      /\ queues[ClientOf[t]] # <<>> /\ Head(queues[ClientOf[t]]) # t =>
             left # <<>> /\ Head(left) = Head(queues[ClientOf[t]])
  BY <1>1, EntriesButKeepsHead
<1>3. queues' = [queues EXCEPT ![ClientOf[t]] = left]
  BY DEF Cancel
<1> HIDE DEF left
<1>4. queues' \in [Clients -> Seq(Tasks)]
  BY <1>1, <1>2, <1>3
<1>5. t \in jobs /\ jobs' = jobs \ {t} /\ ReleaseSlot(t) /\ inflight' \in [Clients -> Nat]
  BY <1>1 DEF Cancel
<1>6. TotalsInv'
  BY <1>4, <1>5, ReleaseCounts
<1>7. \A c \in Clients : queues'[c] = IF c = ClientOf[t] THEN left ELSE queues[c]
  BY <1>1, <1>3
<1> QED
  BY <1>2, <1>6, <1>7

\* What the invariant says, part by part.
LEMMA FairInvParts ==
    ASSUME FairInv
    PROVE  FairTypeOK /\ TypeOK /\ TotalsInv /\ WaitersKnown /\ Waits
BY DEF FairInv, FairTypeOK, TotalsInv

-----------------------------------------------------------------------------
(* Every operation keeps the invariant of the round robin.                 *)

\* A client that is appended comes after every turn that reaches place i in
\* this round.
LEMMA TurnsAgree ==
    ASSUME NEW n \in Nat, NEW i \in 1..n, NEW a \in Nat, NEW m \in {n, n + 1}
    PROVE  /\ n - 1 - TurnFrom(i, a, n) \in Int /\ m - 1 - TurnFrom(i, a, m) \in Int
           /\ n - 1 - TurnFrom(i, a, n) <= m - 1 - TurnFrom(i, a, m)
BY DEF TurnFrom

\* A place is kept while the deficit and the count against the client stay,
\* also when the order grows.
LEMMA PlaceKept ==
    ASSUME FairTypeOK, NEW c \in Clients, queues[c] # <<>>, Placed(c),
           queues'[c] # <<>>, Head(queues'[c]) = Head(queues[c]),
           UNCHANGED <<cursor, deficit>>, passed'[c] = passed[c],
           order' = order \/ \E d \in Clients : order' = Append(order, d)
    PROVE  Placed(c)'
<1>1. PICK i \in DOMAIN order, v \in 0..VisitsNeeded(Head(queues[c])) - 1 : Place(c, i, v)
  BY DEF Placed
<1> DEFINE m == Cardinality(Clients) * v
<1>2. Head(queues[c]) \in Tasks
  BY GainBound
<1>3. VisitsNeeded(Head(queues[c])) \in Nat
  BY <1>2, VisitsNeededType
<1>4. m \in Nat /\ Len(order) \in Nat /\ i \in 1..Len(order)
  BY <1>3, OrderBasics
<1>5. passed[c] \in Nat /\ cursor \in Nat /\ order \in Seq(Clients)
  BY DEF FairTypeOK
<1>6. /\ order[i] = c /\ v * BaseGain(Head(queues[c])) <= deficit[c]
      /\ passed[c] <= m + (Len(order) - 1 - Dist(i))
  BY <1>1 DEF Place
<1>7. /\ Len(order') = Len(order) \/ Len(order') = Len(order) + 1
      /\ order'[i] = order[i] /\ i \in DOMAIN order'
  BY <1>4, <1>5
<1> HIDE DEF m
<1>8. Dist(i) = TurnFrom(i, cursor, Len(order)) /\ Dist(i)' = TurnFrom(i, cursor, Len(order'))
  BY DEF Dist
<1>9. passed'[c] <= m + (Len(order') - 1 - Dist(i)')
  <2>1. Len(order) - 1 - Dist(i) \in Int /\ Len(order') - 1 - Dist(i)' \in Int
        /\ Len(order) - 1 - Dist(i) <= Len(order') - 1 - Dist(i)'
    BY <1>4, <1>5, <1>7, <1>8, TurnsAgree
  <2>2. passed[c] <= m + (Len(order) - 1 - Dist(i)) /\ passed'[c] = passed[c]
    BY <1>6
  <2> DEFINE x == Len(order) - 1 - Dist(i)
             y == Len(order') - 1 - Dist(i)'
  <2> HIDE DEF x, y
  <2>3. x \in Int /\ y \in Int /\ x <= y /\ passed[c] <= m + x
    BY <2>1, <2>2 DEF x, y
  <2>4. passed'[c] <= m + y
    BY <1>4, <1>5, <2>2, <2>3
  <2> QED
    BY <2>4 DEF y
<1>10. Place(c, i, v)'
  BY <1>6, <1>7, <1>9 DEF Place, m
<1> QED
  BY <1>7, <1>10 DEF Placed

\* enqueue keeps the invariant.
LEMMA SubmitKeeps ==
    ASSUME FairInv, NEW t \in Tasks, Submit(t)
    PROVE  FairInv'
<1> DEFINE e == ClientOf[t]
<1>1. FairTypeOK /\ TypeOK /\ TotalsInv /\ WaitersKnown /\ Waits
  BY FairInvParts
<1>2. e \in Clients /\ Weight[t] \in Nat \ {0}
  BY SchedulerAssumption, FairAssumption
<1>3. TotalsInv'
  BY <1>1, EnqueueCounts DEF Submit
<1>4. queues \in [Clients -> Seq(Tasks)] /\ queues' = [queues EXCEPT ![e] = Append(queues[e], t)]
  BY <1>1 DEF TypeOK, Submit, Enqueue
<1>5. \A c \in Clients : /\ queues[c] # <<>> => queues'[c] # <<>> /\ Head(queues'[c]) = Head(queues[c])
                         /\ queues'[c] # <<>> => queues[c] # <<>> \/ c = e
  <2> TAKE c \in Clients
  <2>1. queues'[c] = IF c = e THEN Append(queues[c], t) ELSE queues[c]
    BY <1>2, <1>4
  <2>2. queues[c] \in Seq(Tasks)
    BY <1>4
  <2> HIDE DEF e
  <2> QED
    BY <2>1, <2>2
<1>6. order' = IF e \in Known THEN order ELSE Append(order, e)
  BY DEF Submit
<1>7. UNCHANGED <<cursor, deficit, age, mode, passed, inflight>>
  BY DEF Submit, Enqueue
<1> HIDE DEF e
<1>8. /\ order' \in Seq(Clients) /\ Known' = Known \cup {e} /\ Cardinality(Known') = Len(order')
      /\ cursor \in 0..Len(order') /\ (order' # <<>> => cursor < Len(order'))
  <2>1. order \in Seq(Clients) /\ Cardinality(Known) = Len(order)
        /\ cursor \in 0..Len(order) /\ (order # <<>> => cursor < Len(order))
    BY <1>1 DEF FairTypeOK
  <2>2. CASE e \in Known
    <3>1. order' = order
      BY <1>6, <2>2
    <3>2. Known' = Known
      BY <3>1 DEF Known
    <3>3. Known = Known \cup {e}
      BY <2>2
    <3> QED
      BY <2>1, <3>1, <3>2, <3>3
  <2>3. CASE e \notin Known
    <3>1. order' = Append(order, e)
      BY <1>6, <2>3
    <3>2. /\ order' \in Seq(Clients) /\ Len(order') = Len(order) + 1
          /\ DOMAIN order' = DOMAIN order \cup {Len(order) + 1}
          /\ (\A i \in DOMAIN order : order'[i] = order[i])
          /\ order'[Len(order) + 1] = e
      BY <1>2, <2>1, <3>1
    <3>3. Known' = {order'[i] : i \in DOMAIN order'}
      BY DEF Known
    <3>4. Known' = Known \cup {e}
      <4>1. Known' = {order'[i] : i \in DOMAIN order} \cup {order'[Len(order) + 1]}
        BY <3>2, <3>3
      <4>2. {order'[i] : i \in DOMAIN order} = {order[i] : i \in DOMAIN order}
        BY <3>2
      <4>3. Known = {order[i] : i \in DOMAIN order}
        BY DEF Known
      <4>4. order'[Len(order) + 1] = e
        BY <3>2
      <4> QED
        BY <4>1, <4>2, <4>3, <4>4, Zenon
    <3>5. IsFiniteSet(Known)
      BY <1>1, OrderBasics, FairAssumption, FS_Subset
    <3>6. Cardinality(Known') = Cardinality(Known) + 1
      BY <2>3, <3>4, <3>5, FS_AddElement
    <3>7. cursor < Len(order')
      BY <2>1, <3>2
    <3> QED
      BY <2>1, <3>2, <3>4, <3>6, <3>7
  <2> QED
    BY <2>2, <2>3
<1>9. weights' \in [Clients -> Nat \ {0}]
  BY <1>1, <1>2 DEF Submit, FairTypeOK, e
<1>10. FairTypeOK'
  BY <1>1, <1>3, <1>7, <1>8, <1>9 DEF FairTypeOK, TotalsInv
<1>11. WaitersKnown'
  BY <1>1, <1>5, <1>8 DEF WaitersKnown
<1>12. ASSUME NEW c \in Clients, passed'[c] > 0 PROVE Eligible(c)' /\ Placed(c)'
  <2>1. Eligible(c) /\ Placed(c)
    BY <1>1, <1>7, <1>12 DEF Waits
  <2>2. queues[c] # <<>> /\ inflight[c] < MaxInflight
    BY <2>1 DEF Eligible
  <2>3. queues'[c] # <<>> /\ Head(queues'[c]) = Head(queues[c])
    BY <1>5, <2>2
  <2>4. order' = order \/ \E d \in Clients : order' = Append(order, d)
    BY <1>2, <1>6
  <2>5. Placed(c)'
    BY <1>1, <1>7, <2>1, <2>2, <2>3, <2>4, PlaceKept
  <2> QED
    BY <1>7, <2>2, <2>3, <2>5 DEF Eligible
<1> QED
  BY <1>3, <1>10, <1>11, <1>12 DEF FairInv, TotalsInv, Waits

\* complete keeps the invariant.
LEMMA CompleteKeeps ==
    ASSUME FairInv, NEW t \in Tasks, CompleteJob(t)
    PROVE  FairInv'
<1>1. FairTypeOK /\ TypeOK /\ TotalsInv /\ WaitersKnown /\ Waits
  BY FairInvParts
<1>2. TotalsInv' /\ \A c \in Clients : inflight'[c] <= inflight[c]
  BY <1>1, CompleteCounts DEF CompleteJob
<1>3. UNCHANGED <<order, cursor, weights, deficit, age, mode, passed, queues>>
  BY DEF CompleteJob, Complete, fairVars
<1>4. FairTypeOK'
  BY <1>1, <1>2, <1>3 DEF FairTypeOK, TotalsInv, Known
<1>5. WaitersKnown'
  BY <1>1, <1>3 DEF WaitersKnown, Known
<1>6. ASSUME NEW c \in Clients, passed'[c] > 0 PROVE Eligible(c)' /\ Placed(c)'
  <2>1. Eligible(c) /\ Placed(c)
    BY <1>1, <1>3, <1>6 DEF Waits
  <2>2. queues[c] # <<>> /\ inflight[c] < MaxInflight
    BY <2>1 DEF Eligible
  <2>3. inflight[c] \in Nat /\ inflight'[c] \in Nat
    BY <1>1, <1>2 DEF TotalsInv, TypeOK
  <2>4. inflight'[c] < MaxInflight
    BY <1>2, <2>2, <2>3, SchedulerAssumption
  <2>5. Placed(c)'
    BY <1>1, <1>3, <2>1, <2>2, PlaceKept
  <2> QED
    BY <1>3, <2>2, <2>4, <2>5 DEF Eligible
<1> QED
  BY <1>2, <1>4, <1>5, <1>6 DEF FairInv, TotalsInv, Waits

\* cancel keeps the invariant.
LEMMA CancelKeeps ==
    ASSUME FairInv, NEW t \in Tasks, CancelJob(t)
    PROVE  FairInv'
<1>1. FairTypeOK /\ TypeOK /\ TotalsInv /\ WaitersKnown /\ Waits
  BY FairInvParts
<1>2. /\ TotalsInv'
      /\ \A c \in Clients :
            /\ queues'[c] # <<>> => queues[c] # <<>>
            /\ queues[c] # <<>> /\ (c = ClientOf[t] => Head(queues[c]) # t) =>
                   queues'[c] # <<>> /\ Head(queues'[c]) = Head(queues[c])
  BY <1>1, CancelCounts DEF CancelJob
<1>3. UNCHANGED <<order, cursor, weights, deficit, age, mode, inflight>>
  BY DEF CancelJob, Cancel, fairVars
<1>4. passed' \in [Clients -> Nat]
      /\ \A c \in Clients : passed'[c] > 0 =>
             /\ passed'[c] = passed[c]
             /\ queues[c] # <<>> => (c = ClientOf[t] => Head(queues[c]) # t)
  <2>1. passed \in [Clients -> Nat] /\ ClientOf[t] \in Clients
    BY <1>1, SchedulerAssumption DEF FairTypeOK
  <2> QED
    BY <2>1 DEF CancelJob
<1>5. FairTypeOK'
  BY <1>1, <1>2, <1>3, <1>4 DEF FairTypeOK, TotalsInv, Known
<1>6. WaitersKnown'
  BY <1>1, <1>2, <1>3 DEF WaitersKnown, Known
<1>7. ASSUME NEW c \in Clients, passed'[c] > 0 PROVE Eligible(c)' /\ Placed(c)'
  <2>1. passed'[c] = passed[c] /\ Eligible(c) /\ Placed(c)
    BY <1>1, <1>4, <1>7 DEF Waits
  <2>2. queues[c] # <<>> /\ inflight[c] < MaxInflight
    BY <2>1 DEF Eligible
  <2>3. queues'[c] # <<>> /\ Head(queues'[c]) = Head(queues[c])
    BY <1>2, <1>4, <1>7, <2>2
  <2>4. Placed(c)'
    BY <1>1, <1>3, <2>1, <2>2, <2>3, PlaceKept
  <2> QED
    BY <1>3, <2>2, <2>3, <2>4 DEF Eligible
<1> QED
  BY <1>2, <1>5, <1>6, <1>7 DEF FairInv, TotalsInv, Waits

\* What Credited comes to, for every client.
LEMMA CreditedType ==
    ASSUME FairTypeOK, NEW k \in Nat
    PROVE  /\ Credited(k) \in [Clients -> Nat]
           /\ \A c \in Clients : Credited(k)[c] >= deficit[c]
           /\ \A c \in Clients : c \in Known /\ queues[c] # <<>> =>
                 Credited(k)[c] = deficit[c] + Visits(c, k) * Gain(c)
<1>1. ASSUME NEW c \in Clients
      PROVE  /\ Credited(k)[c] \in Nat /\ Credited(k)[c] >= deficit[c]
             /\ c \in Known /\ queues[c] # <<>> =>
                 Credited(k)[c] = deficit[c] + Visits(c, k) * Gain(c)
  <2>1. Credited(k)[c] = IF c \in Known /\ queues[c] # <<>>
                         THEN deficit[c] + Visits(c, k) * Gain(c) ELSE deficit[c]
    BY DEF Credited
  <2>2. deficit[c] \in Nat
    BY DEF FairTypeOK
  <2>3. ASSUME queues[c] # <<>>
        PROVE  /\ deficit[c] + Visits(c, k) * Gain(c) \in Nat
               /\ deficit[c] + Visits(c, k) * Gain(c) >= deficit[c]
    <3>1. Visits(c, k) \in Nat /\ Gain(c) \in Nat
      BY <2>3, VisitsCount, GainBound
    <3> QED
      BY <2>2, <3>1, CreditBound
  <2> QED
    BY <2>1, <2>2, <2>3
<1>2. Credited(k) = [c \in Clients |-> Credited(k)[c]]
  BY DEF Credited
<1> QED
  BY <1>1, <1>2

\* A client that waits and was visited, and could not pay at its first
\* visit, has more than one visit's gain of credit and still less than it needs.
LEMMA VisitedUnpaid ==
    ASSUME FairTypeOK, NEW c \in Clients, Eligible(c), c \in Known,
           NEW k \in Nat, NEW j \in 0..k, ClientAt(j) = c, ~ Affords(j)
    PROVE  /\ Credited(k)[c] >= deficit[c] + Gain(c)
           /\ deficit[c] + Gain(c) < HeadCost(c)
<1>1. queues[c] # <<>> /\ deficit[c] \in Nat
  BY DEF Eligible, FairTypeOK
<1>2. Gain(c) \in Nat /\ HeadCost(c) \in Nat
  BY <1>1, GainBound
<1>3. j \in Nat /\ j \in 0..j
  OBVIOUS
<1>4. Visits(c, k) \in Nat /\ Visits(c, k) >= 1 /\ Visits(c, j) \in Nat /\ Visits(c, j) >= 1
  BY <1>3, VisitsCount
<1>5. Credited(k)[c] = deficit[c] + Visits(c, k) * Gain(c)
  BY <1>1, CreditedType
<1>6. deficit[c] + Visits(c, k) * Gain(c) >= deficit[c] + Gain(c)
  BY <1>1, <1>2, <1>4, CreditBound
<1>7. /\ deficit[c] + Visits(c, j) * Gain(c) >= deficit[c] + Gain(c)
      /\ deficit[c] + Visits(c, j) * Gain(c) \in Nat
  BY <1>1, <1>2, <1>4, CreditBound
<1>8. ~ (deficit[c] + Visits(c, j) * Gain(c) >= HeadCost(c))
  BY DEF Affords
<1> DEFINE x == deficit[c] + Visits(c, j) * Gain(c)
<1> HIDE DEF x
<1>9. x \in Nat /\ x >= deficit[c] + Gain(c) /\ ~ (x >= HeadCost(c))
  BY <1>7, <1>8 DEF x
<1>10. deficit[c] + Gain(c) < HeadCost(c)
  BY <1>1, <1>2, <1>9
<1> QED
  BY <1>5, <1>6, <1>10

\* The history variable counts for whom it should.
LEMMA PassOverCounts ==
    ASSUME FairInv, NEW S, PassOver(S)
    PROVE  /\ passed' \in [Clients -> Nat]
           /\ \A c \in Clients : passed'[c] > 0 => c \notin S /\ Eligible(c) /\ passed'[c] = passed[c] + 1
<1>1. passed \in [Clients -> Nat] /\ Waits
  BY DEF FairInv, FairTypeOK
<1>2. \A c \in Clients : passed'[c] = IF c \in S THEN 0
                                      ELSE IF Eligible(c) THEN passed[c] + 1 ELSE passed[c]
  BY DEF PassOver
<1>3. \A c \in Clients : passed'[c] \in Nat
  BY <1>1, <1>2
<1>4. passed' = [c \in Clients |-> passed'[c]]
  BY DEF PassOver
<1>5. ASSUME NEW c \in Clients, passed'[c] > 0
      PROVE  c \notin S /\ Eligible(c) /\ passed'[c] = passed[c] + 1
  <2>1. c \notin S
    BY <1>2, <1>5
  <2>2. Eligible(c)
    BY <1>1, <1>2, <1>5, <2>1 DEF Waits
  <2> QED
    BY <1>2, <2>1, <2>2
<1> QED
  BY <1>3, <1>4, <1>5

\* Ages stay within AgingTicks.
LEMMA AgedType == ASSUME FairTypeOK, NEW S PROVE Aged(S) \in [Clients -> 0..AgingTicks]
<1>1. age \in [Clients -> 0..AgingTicks] /\ AgingTicks \in Nat
  BY FairAssumption DEF FairTypeOK
<1>2. ASSUME NEW c \in Clients
      PROVE  (IF c \in S THEN 0
              ELSE IF c \in Known /\ age[c] < AgingTicks THEN age[c] + 1 ELSE age[c]) \in 0..AgingTicks
  BY <1>1
<1> QED
  BY <1>2 DEF Aged

\* A dispatch lets no queue begin and leaves the other clients alone.
LEMMA DispatchLeaves ==
    ASSUME TypeOK, NEW e \in Clients, Dispatch(e)
    PROVE  \A c \in Clients : /\ queues'[c] # <<>> => queues[c] # <<>>
                              /\ c # e => queues'[c] = queues[c] /\ inflight'[c] = inflight[c]
BY DEF Dispatch, Eligible, TypeOK

\* next() by deficit: every client but the one it serves keeps its place.
LEMMA NextFairKeeps ==
    ASSUME FairInv, order # <<>>, NEW k \in Turns, NextFair(k), UNCHANGED <<order, weights, mode>>
    PROVE  FairInv'
<1> DEFINE e == ClientAt(k)
<1>1. FairTypeOK /\ TypeOK /\ TotalsInv /\ WaitersKnown /\ Waits
  BY FairInvParts
<1>2. k \in Nat /\ Len(order) \in Nat \ {0} /\ cursor \in Nat
  BY <1>1 DEF Turns, FairTypeOK
<1>3. e \in Known /\ e \in Clients
  BY <1>1, <1>2, TurnKnown
<1>4. /\ Affords(k) /\ (\A i \in Turns : Affords(i) => i >= k) /\ Dispatch(e) /\ PassOver({e})
      /\ deficit' = [Credited(k) EXCEPT ![e] = Credited(k)[e] - HeadCost(e)]
      /\ cursor' = (cursor + k + 1) % Len(order) /\ age' = Aged({e})
  BY DEF NextFair
<1>5. Eligible(e) /\ deficit[e] + Visits(e, k) * Gain(e) >= HeadCost(e)
  BY <1>4 DEF Affords
<1> HIDE DEF e
<1>6. TotalsInv'
  BY <1>1, <1>3, <1>4, DispatchCounts
<1>7. /\ Credited(k) \in [Clients -> Nat]
      /\ \A c \in Clients : Credited(k)[c] >= deficit[c]
  BY <1>1, <1>2, CreditedType
<1>8. deficit' \in [Clients -> Nat] /\ \A c \in Clients : c # e => deficit'[c] = Credited(k)[c]
  <2>1. queues[e] # <<>>
    BY <1>5 DEF Eligible
  <2>2. Credited(k)[e] = deficit[e] + Visits(e, k) * Gain(e)
    BY <1>1, <1>2, <1>3, <2>1, CreditedType
  <2>3. HeadCost(e) \in Nat
    BY <1>1, <1>3, <2>1, GainBound
  <2>4. Credited(k)[e] >= HeadCost(e) /\ Credited(k)[e] \in Nat
    BY <1>3, <1>5, <1>7, <2>2
  <2>5. Credited(k)[e] - HeadCost(e) \in Nat
    BY <2>3, <2>4
  <2> QED
    BY <1>3, <1>4, <1>7, <2>5
<1>9. cursor' \in 0..Len(order) - 1
  BY <1>2, <1>4, CursorRange
<1>10. age' \in [Clients -> 0..AgingTicks]
  BY <1>1, <1>4, AgedType
<1>11. /\ passed' \in [Clients -> Nat]
       /\ \A c \in Clients : passed'[c] > 0 => c # e /\ Eligible(c) /\ passed'[c] = passed[c] + 1
  BY <1>4, PassOverCounts
<1>12. FairTypeOK'
  <2>1. Known' = Known /\ cursor' \in 0..Len(order') /\ cursor' < Len(order')
    BY <1>2, <1>9 DEF Known
  <2> QED
    BY <1>1, <1>6, <1>8, <1>10, <1>11, <2>1 DEF FairTypeOK, TotalsInv
<1>13. \A c \in Clients : /\ queues'[c] # <<>> => queues[c] # <<>>
                          /\ c # e => queues'[c] = queues[c] /\ inflight'[c] = inflight[c]
  BY <1>1, <1>3, <1>4, DispatchLeaves
<1>14. WaitersKnown'
  BY <1>1, <1>13 DEF WaitersKnown, Known
<1>15. ASSUME NEW c \in Clients, passed'[c] > 0 PROVE Eligible(c)' /\ Placed(c)'
  <2>1. c # e /\ Eligible(c) /\ passed'[c] = passed[c] + 1
    BY <1>11, <1>15
  <2>2. queues'[c] = queues[c] /\ inflight'[c] = inflight[c]
    BY <1>13, <2>1
  <2>3. Eligible(c)' /\ queues[c] # <<>>
    BY <2>1, <2>2 DEF Eligible
  <2>4. c \in Known
    BY <1>1, <2>3 DEF WaitersKnown
  <2>5. PICK i \in DOMAIN order, v \in 0..VisitsNeeded(Head(queues[c])) - 1 : Place(c, i, v)
    BY <2>1, Ready DEF Placed
  <2>6. Dist(i) \in 0..Len(order) - 1 /\ ClientAt(Dist(i)) = c
    BY <1>1, <2>5, TurnHits DEF Place
  <2>7. deficit'[c] \in Nat /\ deficit'[c] = Credited(k)[c] /\ deficit'[c] >= deficit[c]
    BY <1>7, <1>8, <2>1
  <2>8. CASE k < Dist(i)
    BY <1>1, <1>2, <1>4, <2>1, <2>2, <2>3, <2>5, <2>7, <2>8, PassedBefore
  <2>9. CASE ~ (k < Dist(i))
    <3>1. Dist(i) \in 0..k /\ Dist(i) # k /\ Dist(i) \in Turns
      BY <1>2, <2>1, <2>6, <2>9 DEF Turns, e
    <3>2. ~ Affords(Dist(i))
      BY <1>2, <1>4, <3>1
    <3>3. Credited(k)[c] >= deficit[c] + Gain(c) /\ deficit[c] + Gain(c) < HeadCost(c)
      BY <1>1, <1>2, <2>1, <2>4, <2>6, <3>1, <3>2, VisitedUnpaid
    <3> QED
      BY <1>1, <1>9, <2>1, <2>2, <2>3, <2>5, <2>7, <3>3, PassedAfter
  <2> QED
    BY <2>3, <2>8, <2>9
<1> QED
  BY <1>6, <1>12, <1>14, <1>15 DEF FairInv, TotalsInv, Waits

\* next() by deficit without a job: every eligible client was visited.
LEMMA NextNoneKeeps ==
    ASSUME FairInv, order # <<>>, NextNone, UNCHANGED <<order, weights, mode>>
    PROVE  FairInv'
<1> DEFINE k == 4 * Len(order) - 1
<1>1. FairTypeOK /\ TypeOK /\ TotalsInv /\ WaitersKnown /\ Waits
  BY FairInvParts
<1>2. Len(order) \in Nat \ {0} /\ cursor \in 0..Len(order) - 1
  BY <1>1 DEF FairTypeOK
<1>3. k \in Nat /\ Len(order) - 1 \in 0..k /\ Turns = 0..k
  BY <1>2 DEF Turns
<1>4. /\ \A j \in Turns : ~ Affords(j)
      /\ deficit' = Credited(k) /\ age' = Aged({}) /\ PassOver({}) /\ UNCHANGED <<schedulerVars, cursor>>
  BY DEF NextNone
<1> HIDE DEF k
<1>5. UNCHANGED <<jobs, queues, inflight, clientTotal, workspaceTotal, globalTotal, cursor>>
  BY <1>4 DEF schedulerVars, totals
<1>6. TotalsInv'
  <2>1. UNCHANGED <<jobs, totals>> /\ queues' \in [Clients -> Seq(Tasks)] /\ inflight' \in [Clients -> Nat]
    BY <1>1, <1>5 DEF TypeOK, totals
  <2> QED
    BY <1>1, <2>1, SameJobs
<1>7. deficit' \in [Clients -> Nat] /\ \A c \in Clients : deficit'[c] >= deficit[c]
  BY <1>1, <1>3, <1>4, CreditedType
<1>8. age' \in [Clients -> 0..AgingTicks]
  BY <1>1, <1>4, AgedType
<1>9. /\ passed' \in [Clients -> Nat]
      /\ \A c \in Clients : passed'[c] > 0 => Eligible(c) /\ passed'[c] = passed[c] + 1
  BY <1>4, PassOverCounts
<1>10. FairTypeOK'
  BY <1>1, <1>5, <1>6, <1>7, <1>8, <1>9 DEF FairTypeOK, TotalsInv, Known
<1>11. WaitersKnown'
  BY <1>1, <1>5 DEF WaitersKnown, Known
<1>12. ASSUME NEW c \in Clients, passed'[c] > 0 PROVE Eligible(c)' /\ Placed(c)'
  <2>1. Eligible(c) /\ passed'[c] = passed[c] + 1
    BY <1>9, <1>12
  <2>2. Eligible(c)' /\ queues[c] # <<>>
    BY <1>5, <2>1 DEF Eligible
  <2>3. c \in Known
    BY <1>1, <2>2 DEF WaitersKnown
  <2>4. PICK i \in DOMAIN order, v \in 0..VisitsNeeded(Head(queues[c])) - 1 : Place(c, i, v)
    BY <2>1, Ready DEF Placed
  <2>5. Dist(i) \in 0..Len(order) - 1 /\ ClientAt(Dist(i)) = c
    BY <1>1, <2>4, TurnHits DEF Place
  <2>6. Dist(i) \in 0..k /\ ~ Affords(Dist(i))
    BY <1>2, <1>3, <1>4, <2>5
  <2>7. Credited(k)[c] >= deficit[c] + Gain(c) /\ deficit[c] + Gain(c) < HeadCost(c)
    BY <1>1, <1>3, <2>1, <2>3, <2>5, <2>6, VisitedUnpaid
  <2>8. deficit'[c] \in Nat /\ deficit'[c] >= deficit[c] + Gain(c)
    BY <1>4, <1>7, <2>7
  <2> QED
    BY <1>1, <1>2, <1>5, <2>1, <2>2, <2>4, <2>7, <2>8, PassedAfter
<1> QED
  BY <1>6, <1>10, <1>11, <1>12 DEF FairInv, TotalsInv, Waits

\* next() in modes off and shadow serves the first eligible client from the
\* cursor on: it stops before every other eligible client's turn.
LEMMA NextFifoKeeps ==
    ASSUME FairInv, order # <<>>, NEW k \in 0..Len(order) - 1, NextFifo(k),
           UNCHANGED <<order, weights, mode>>
    PROVE  FairInv'
<1> DEFINE e == ClientAt(k)
<1>1. FairTypeOK /\ TypeOK /\ TotalsInv /\ WaitersKnown /\ Waits
  BY FairInvParts
<1>2. k \in Nat /\ Len(order) \in Nat \ {0} /\ cursor \in Nat
  BY <1>1 DEF FairTypeOK
<1>3. e \in Known /\ e \in Clients
  BY <1>1, <1>2, TurnKnown
<1>4. /\ (\A i \in 0..(k - 1) : ~ Eligible(ClientAt(i))) /\ Dispatch(e) /\ PassOver({e})
      /\ deficit' = deficit
      /\ cursor' = (cursor + k + 1) % Len(order) /\ age' = Aged({e})
  BY DEF NextFifo
<1> HIDE DEF e
<1>5. TotalsInv'
  BY <1>1, <1>3, <1>4, DispatchCounts
<1>6. cursor' \in 0..Len(order) - 1
  BY <1>2, <1>4, CursorRange
<1>7. age' \in [Clients -> 0..AgingTicks]
  BY <1>1, <1>4, AgedType
<1>8. /\ passed' \in [Clients -> Nat]
      /\ \A c \in Clients : passed'[c] > 0 => c # e /\ Eligible(c) /\ passed'[c] = passed[c] + 1
  BY <1>4, PassOverCounts
<1>9. FairTypeOK'
  <2>1. Known' = Known /\ cursor' \in 0..Len(order') /\ cursor' < Len(order')
    BY <1>2, <1>6 DEF Known
  <2> QED
    BY <1>1, <1>4, <1>5, <1>7, <1>8, <2>1 DEF FairTypeOK, TotalsInv
<1>10. \A c \in Clients : /\ queues'[c] # <<>> => queues[c] # <<>>
                          /\ c # e => queues'[c] = queues[c] /\ inflight'[c] = inflight[c]
  BY <1>1, <1>3, <1>4, DispatchLeaves
<1>11. WaitersKnown'
  BY <1>1, <1>10 DEF WaitersKnown, Known
<1>12. ASSUME NEW c \in Clients, passed'[c] > 0 PROVE Eligible(c)' /\ Placed(c)'
  <2>1. c # e /\ Eligible(c) /\ passed'[c] = passed[c] + 1
    BY <1>8, <1>12
  <2>2. queues'[c] = queues[c] /\ inflight'[c] = inflight[c]
    BY <1>10, <2>1
  <2>3. Eligible(c)' /\ queues[c] # <<>>
    BY <2>1, <2>2 DEF Eligible
  <2>4. PICK i \in DOMAIN order, v \in 0..VisitsNeeded(Head(queues[c])) - 1 : Place(c, i, v)
    BY <2>1, Ready DEF Placed
  <2>5. Dist(i) \in 0..Len(order) - 1 /\ ClientAt(Dist(i)) = c
    BY <1>1, <2>4, TurnHits DEF Place
  <2>6. Dist(i) # k
    BY <2>1, <2>5 DEF e
  <2>7. ~ (Dist(i) \in 0..k - 1)
    BY <1>4, <2>1, <2>5
  <2>8. k < Dist(i)
    BY <1>2, <2>5, <2>6, <2>7
  <2>9. deficit'[c] \in Nat /\ deficit'[c] >= deficit[c]
    BY <1>1, <1>4 DEF FairTypeOK
  <2> QED
    BY <1>1, <1>2, <1>4, <2>1, <2>2, <2>3, <2>4, <2>8, <2>9, PassedBefore
<1> QED
  BY <1>5, <1>9, <1>11, <1>12 DEF FairInv, TotalsInv, Waits

\* next() in these modes without an eligible client: no one was passed over.
LEMMA NextFifoNoneKeeps ==
    ASSUME FairInv, NextFifoNone, UNCHANGED <<order, weights, mode>>
    PROVE  FairInv'
<1>1. FairTypeOK /\ TypeOK /\ TotalsInv /\ WaitersKnown /\ Waits
  BY FairInvParts
<1>2. UNCHANGED <<jobs, queues, inflight, clientTotal, workspaceTotal, globalTotal, cursor, deficit, passed>>
      /\ age' = Aged({}) /\ \A c \in Known : ~ Eligible(c)
  BY DEF NextFifoNone, schedulerVars, totals
<1>3. TotalsInv'
  <2>1. UNCHANGED <<jobs, totals>> /\ queues' \in [Clients -> Seq(Tasks)] /\ inflight' \in [Clients -> Nat]
    BY <1>1, <1>2 DEF TypeOK, totals
  <2> QED
    BY <1>1, <2>1, SameJobs
<1>4. age' \in [Clients -> 0..AgingTicks]
  BY <1>1, <1>2, AgedType
<1>5. FairTypeOK'
  BY <1>1, <1>2, <1>3, <1>4 DEF FairTypeOK, TotalsInv, Known
<1>6. WaitersKnown'
  BY <1>1, <1>2 DEF WaitersKnown, Known
<1>7. ASSUME NEW c \in Clients, passed'[c] > 0 PROVE FALSE
  <2>1. Eligible(c) /\ queues[c] # <<>>
    BY <1>1, <1>2, <1>7 DEF Waits, Eligible
  <2>2. c \in Known
    BY <1>1, <2>1 DEF WaitersKnown
  <2> QED
    BY <1>2, <2>1, <2>2
<1> QED
  BY <1>3, <1>5, <1>6, <1>7 DEF FairInv, TotalsInv, Waits

\* The initial state satisfies the invariant.
LEMMA FairInitially == FairInit => FairInv
<1> SUFFICES ASSUME FairInit PROVE FairInv
  OBVIOUS
<1>1. order = <<>> /\ cursor = 0 /\ Init
  BY DEF FairInit
<1>2. Known = {} /\ Cardinality(Known) = Len(order) /\ Len(order) = 0
  <2>1. Known = {}
    BY <1>1 DEF Known
  <2> QED
    BY <1>1, <2>1, FS_EmptySet
<1>3. TypeOK
  BY DEF FairInit, Init, TypeOK
<1>4. FairTypeOK
  <2>1. AgingTicks \in Nat
    BY FairAssumption
  <2> QED
    BY <1>1, <1>2, <1>3, <2>1 DEF FairInit, FairTypeOK
<1>5. /\ Cardinality(jobs) = 0
      /\ \A c : Cardinality(OfClient(c)) = 0
      /\ \A w : Cardinality(OfWorkspace(w)) = 0
  <2>1. jobs = {} /\ \A c : OfClient(c) = {} /\ \A w : OfWorkspace(w) = {}
    BY <1>1 DEF Init, OfClient, OfWorkspace
  <2> QED
    BY <2>1, FS_EmptySet
<1>6. TotalsCountJobs
  BY <1>1, <1>5 DEF Init, TotalsCountJobs
<1>7. QuotasHold
  BY <1>5, SchedulerAssumption DEF QuotasHold
<1>8. WaitersKnown /\ Waits
  BY DEF FairInit, Init, WaitersKnown, Waits
<1> QED
  BY <1>4, <1>6, <1>7, <1>8 DEF FairInv

\* Every step keeps the invariant.
LEMMA FairStep == FairInv /\ [Next]_vars => FairInv'
<1> SUFFICES ASSUME FairInv, [Next]_vars PROVE FairInv'
  OBVIOUS
<1>1. ASSUME NEW t \in Tasks, Submit(t) PROVE FairInv'
  BY <1>1, SubmitKeeps
<1>2. ASSUME NEW t \in Tasks, CompleteJob(t) PROVE FairInv'
  BY <1>2, CompleteKeeps
<1>3. ASSUME NEW t \in Tasks, CancelJob(t) PROVE FairInv'
  BY <1>3, CancelKeeps
<1>4. ASSUME NextJob PROVE FairInv'
  <2>1. order # <<>> /\ UNCHANGED <<order, weights, mode>>
    BY <1>4 DEF NextJob
  <2>2. \/ NextFifoNone \/ (\E k \in 0..(Len(order) - 1) : NextFifo(k))
        \/ NextNone \/ (\E k \in Turns : NextFair(k))
    BY <1>4 DEF NextJob
  <2> QED
    BY <2>1, <2>2, NextFifoNoneKeeps, NextFifoKeeps, NextNoneKeeps, NextFairKeeps
<1>5. ASSUME UNCHANGED <<schedulerVars, order, cursor, weights, deficit, age, passed>>, mode' \in Modes
      PROVE  FairInv'
  <2>1. UNCHANGED <<jobs, queues, inflight, clientTotal, workspaceTotal, globalTotal,
                    order, cursor, weights, deficit, age, passed>>
    BY <1>5 DEF schedulerVars, totals
  <2>2. FairTypeOK' /\ WaitersKnown'
    BY <1>5, <2>1, FairInvParts DEF FairTypeOK, TypeOK, WaitersKnown, Known
  <2>3. TotalsCountJobs' /\ QuotasHold'
    BY <2>1 DEF FairInv, TotalsCountJobs, QuotasHold, OfClient, OfWorkspace
  <2>4. Waits'
    BY <2>1, FairInvParts DEF Waits, Placed, Place, Dist, Eligible
  <2> QED
    BY <2>2, <2>3, <2>4 DEF FairInv
<1>6. ASSUME NEW m \in Modes, ConfigurePolicy(m) PROVE FairInv'
  BY <1>5, <1>6 DEF ConfigurePolicy
<1>7. ASSUME UNCHANGED vars PROVE FairInv'
  <2>1. mode \in Modes
    BY FairInvParts DEF FairTypeOK
  <2> QED
    BY <1>5, <1>7, <2>1 DEF vars, fairVars
<1> QED
  BY <1>1, <1>2, <1>3, <1>4, <1>6, <1>7 DEF Next

(***************************************************************************)
(* The scheduler's invariant holds in every reachable state.               *)
(***************************************************************************)
THEOREM FairInvariant == Spec => []FairInv
BY FairInitially, FairStep, PTL DEF Spec

(***************************************************************************)
(* enqueue, complete and cancel keep _client_total, _workspace_total and   *)
(* _global_total at the number of registered jobs of their scope.          *)
(***************************************************************************)
THEOREM TotalsAreExact == Spec => []TotalsCountJobs
<1>1. FairInv => TotalsCountJobs
  BY DEF FairInv
<1> QED
  BY <1>1, FairInvariant, PTL

(***************************************************************************)
(* _check_quotas bounds the live jobs of every scope.                      *)
(***************************************************************************)
THEOREM QuotasAreKept == Spec => []QuotasHold
<1>1. FairInv => QuotasHold
  BY DEF FairInv
<1> QED
  BY <1>1, FairInvariant, PTL

(***************************************************************************)
(* next() passes over an eligible client's oldest job fewer times than the *)
(* number of clients times the visits the job needs, for any number of     *)
(* clients, any costs, weights and priorities, and whatever the others do. *)
(***************************************************************************)
THEOREM NobodyStarves == Spec => []NoStarvation
<1>1. FairInv => NoStarvation
  <2> SUFFICES ASSUME FairInv, NEW c \in Clients, queues[c] # <<>>
               PROVE  passed[c] < Cardinality(Clients) * VisitsNeeded(Head(queues[c]))
    BY DEF NoStarvation
  <2> DEFINE n == Cardinality(Clients)
             need == VisitsNeeded(Head(queues[c]))
  <2>1. FairTypeOK /\ Waits
    BY FairInvParts
  <2>2. n \in Nat /\ Len(order) \in Nat /\ Len(order) <= n
    BY <2>1, OrderBasics
  <2>3. need \in Nat \ {0}
    BY <2>1, GainBound, VisitsNeededType
  <2>4. passed[c] \in Nat
    BY <2>1 DEF FairTypeOK
  <2>5. n # 0
    BY FairAssumption, FS_EmptySet
  <2>6. CASE passed[c] = 0
    <3> HIDE DEF n, need
    <3>1. n * need > 0
      BY <2>2, <2>3, <2>5
    <3> QED
      BY <2>6, <3>1 DEF n, need
  <2>7. CASE passed[c] # 0
    <3>1. PICK i \in DOMAIN order, v \in 0..need - 1 : Place(c, i, v)
      BY <2>1, <2>4, <2>7 DEF Waits, Placed
    <3>2. passed[c] <= n * v + (Len(order) - 1 - Dist(i))
      BY <3>1 DEF Place
    <3>3. Dist(i) \in 0..Len(order) - 1
      BY <2>1, TurnHits
    <3> HIDE DEF n, need
    <3>4. v \in Nat /\ v + 1 \in Nat /\ v + 1 <= need
      BY <2>3
    <3>5. n * (v + 1) <= n * need
      BY <2>2, <2>3, <3>4, MulMono
    <3> DEFINE a == n * v
               b == n * (v + 1)
               d == n * need
    <3>6. a \in Nat /\ b = a + n /\ b <= d /\ d \in Nat /\ passed[c] <= a + (Len(order) - 1 - Dist(i))
      BY <2>2, <2>3, <3>2, <3>4, <3>5
    <3> HIDE DEF a, b, d
    <3>7. passed[c] < d
      BY <2>2, <2>4, <3>3, <3>6
    <3> QED
      BY <3>7 DEF d, n, need
  <2> QED
    BY <2>6, <2>7
<1> QED
  BY <1>1, FairInvariant, PTL

-----------------------------------------------------------------------------
(* next() as the service uses it: a dispatch, or nobody is eligible.       *)

\* Four visits pay for any job, as they do for the default cost and quantum.
FourVisitsPay == \A t \in Tasks : 2 * Cost[t] <= 4 * BaseGain(t)

\* A remainder of less than five times the divisor.
LEMMA ModRounds ==
    ASSUME NEW n \in Nat \ {0}, NEW r \in 0..n - 1,
           NEW a \in {r, r + n, r + 2 * n, r + 3 * n, r + 4 * n}
    PROVE  a % n = r
<1>1. CASE a = r
  BY <1>1
<1>2. CASE a = r + n
  BY <1>2
<1>3. CASE a = r + 2 * n
  BY <1>3
<1>4. CASE a = r + 3 * n
  BY <1>4
<1>5. CASE a = r + 4 * n
  BY <1>5
<1> QED
  BY <1>1, <1>2, <1>3, <1>4, <1>5

\* A call that runs through all its turns visits every place four times.
LEMMA TurnsReturn ==
    ASSUME FairTypeOK, NEW i \in DOMAIN order,
           NEW k \in {Dist(i), Dist(i) + Len(order), Dist(i) + 2 * Len(order), Dist(i) + 3 * Len(order)}
    PROVE  ClientAt(k) = order[i]
<1> DEFINE n == Len(order)
<1>1. n \in Nat \ {0} /\ i \in 1..n /\ cursor \in 0..n - 1
  BY OrderBasics DEF FairTypeOK
<1> DEFINE d == Dist(i)
<1>2. d = IF i > cursor THEN i - 1 - cursor ELSE i - 1 - cursor + n
  BY DEF Dist, TurnFrom
<1>3. k \in {d, d + n, d + 2 * n, d + 3 * n}
  OBVIOUS
<1> HIDE DEF n, d
<1> DEFINE r == i - 1
           a == cursor + k
<1>4. r \in 0..n - 1 /\ a \in {r, r + n, r + 2 * n, r + 3 * n, r + 4 * n}
  <2>1. cursor + d \in {r, r + n}
    BY <1>1, <1>2
  <2>2. d \in Int /\ r \in 0..n - 1
    BY <1>1, <1>2
  <2> HIDE DEF r
  <2>3. cursor + k \in {r, r + n, r + 2 * n, r + 3 * n, r + 4 * n}
    <3>1. CASE k = d
      BY <2>1, <3>1
    <3>2. CASE k = d + n
      BY <1>1, <2>1, <2>2, <3>2
    <3>3. CASE k = d + 2 * n
      BY <1>1, <2>1, <2>2, <3>3
    <3>4. CASE k = d + 3 * n
      BY <1>1, <2>1, <2>2, <3>4
    <3> QED
      BY <1>3, <3>1, <3>2, <3>3, <3>4
  <2> QED
    BY <2>2, <2>3
<1> HIDE DEF r, a
<1>5. a % n = r
  BY <1>1, <1>4, ModRounds
<1>6. (a % n) + 1 = i
  BY <1>1, <1>5 DEF r
<1> QED
  BY <1>6 DEF ClientAt, a, n

\* So the last of these turns has credited it four times.
LEMMA FourVisits ==
    ASSUME FairTypeOK, NEW i \in DOMAIN order
    PROVE  /\ Dist(i) + 3 * Len(order) \in Turns
           /\ Visits(order[i], Dist(i) + 3 * Len(order)) \in Nat
           /\ Visits(order[i], Dist(i) + 3 * Len(order)) >= 4
<1> DEFINE n == Len(order)
           d == Dist(i)
           k == d + 3 * n
           S == {j \in 0..k : ClientAt(j) = order[i]}
<1>1. n \in Nat \ {0} /\ d \in 0..n - 1
  BY OrderBasics, TurnHits DEF FairTypeOK
<1>2. /\ ClientAt(d) = order[i] /\ ClientAt(d + n) = order[i]
      /\ ClientAt(d + 2 * n) = order[i] /\ ClientAt(d + 3 * n) = order[i]
  BY TurnsReturn
<1>3. Turns = 0..4 * n - 1 /\ Visits(order[i], k) = Cardinality(S)
  BY DEF Turns, Visits
<1> HIDE DEF n, d
<1>4. k \in 0..4 * n - 1 /\ k \in Nat
  BY <1>1
<1>5. d \in S /\ d + n \in S /\ d + 2 * n \in S /\ d + 3 * n \in S
  BY <1>1, <1>2
<1>6. d # d + n /\ d + 2 * n \notin {d, d + n} /\ d + 3 * n \notin {d, d + n, d + 2 * n}
  BY <1>1
<1>7. IsFiniteSet(S)
  <2>1. IsFiniteSet(0..k)
    BY <1>4, FS_Interval
  <2>2. S \subseteq 0..k
    OBVIOUS
  <2> HIDE DEF S
  <2> QED
    BY <2>1, <2>2, FS_Subset
<1> HIDE DEF S, k
<1> DEFINE b == d + n
           e == d + 2 * n
           f == d + 3 * n
           T == (({d} \cup {b}) \cup {e}) \cup {f}
<1>8. Cardinality(T) = 4 /\ T \subseteq S
  <2>1. d # b /\ d # e /\ b # e /\ d # f /\ b # f /\ e # f
    BY <1>6
  <2>2. d \in S /\ b \in S /\ e \in S /\ f \in S
    BY <1>5
  <2> HIDE DEF b, e, f
  <2>3. IsFiniteSet({d}) /\ Cardinality({d}) = 1
    BY FS_Singleton
  <2>4. IsFiniteSet({d} \cup {b}) /\ Cardinality({d} \cup {b}) = 2
    BY <2>1, <2>3, FS_AddElement
  <2>5. IsFiniteSet(({d} \cup {b}) \cup {e}) /\ Cardinality(({d} \cup {b}) \cup {e}) = 3
    BY <2>1, <2>4, FS_AddElement
  <2>6. Cardinality(T) = 4
    BY <2>1, <2>5, FS_AddElement
  <2> QED
    BY <2>6, <2>2
<1> HIDE DEF T
<1>9. Cardinality(S) \in Nat /\ Cardinality(S) >= 4
  BY <1>7, <1>8, FS_Subset, FS_CardinalityType
<1> QED
  BY <1>3, <1>4, <1>9 DEF n, d, k, S

\* A call that finds nobody who can pay had nobody to serve.
LEMMA NoneMeansNobody ==
    ASSUME FourVisitsPay, FairInv, \A k \in Turns : ~ Affords(k)
    PROVE  \A c \in Clients : ~ Eligible(c)
<1> SUFFICES ASSUME NEW c \in Clients, Eligible(c) PROVE FALSE
  OBVIOUS
<1>1. FairTypeOK /\ queues[c] # <<>> /\ c \in Known
  BY FairInvParts DEF WaitersKnown, Eligible
<1>2. PICK i \in DOMAIN order : order[i] = c
  BY <1>1 DEF Known
<1> DEFINE k == Dist(i) + 3 * Len(order)
           t == Head(queues[c])
<1>3. k \in Turns /\ Visits(c, k) \in Nat /\ Visits(c, k) >= 4
  BY <1>1, <1>2, FourVisits
<1>4. ClientAt(k) = c
  BY <1>1, <1>2, TurnsReturn
<1> HIDE DEF k
<1>5. t \in Tasks /\ Gain(c) \in Nat /\ Gain(c) >= BaseGain(t) /\ HeadCost(c) = 2 * Cost[t] /\ HeadCost(c) \in Nat
  BY <1>1, GainBound DEF HeadCost
<1>6. BaseGain(t) \in Nat /\ HeadCost(c) <= 4 * BaseGain(t) /\ deficit[c] \in Nat
  BY <1>1, <1>5, VisitsNeededType DEF FourVisitsPay, FairTypeOK
<1>7. 4 * Gain(c) <= Visits(c, k) * Gain(c)
  BY <1>3, <1>5, MulMono
<1> DEFINE credit == Visits(c, k) * Gain(c)
<1>8. credit \in Nat /\ 4 * Gain(c) <= credit
  BY <1>3, <1>5, <1>7
<1> HIDE DEF credit, t
<1>9. deficit[c] + credit >= HeadCost(c)
  BY <1>5, <1>6, <1>8
<1>10. Affords(k)
  BY <1>4, <1>9 DEF Affords, credit
<1> QED
  BY <1>3, <1>10

\* What HubService takes a call of next() to be.
ServesOrNobody ==
    \/ \E c \in Clients : Dispatch(c)
    \/ UNCHANGED schedulerVars /\ \A c \in Clients : ~ Eligible(c)

(***************************************************************************)
(* The choice left open in JobScheduler covers the scheduler's: a call of  *)
(* next(), in every mode and whatever weights, deficits and ages have come *)
(* to, serves an eligible client or finds that there is none, provided     *)
(* that four visits pay for any job.  (next() gives up after four rounds;  *)
(* a job that costs more may be refused although its client could run it.) *)
(***************************************************************************)
THEOREM NextServesOrNobody ==
    ASSUME FourVisitsPay
    PROVE  Spec => [][NextJob => ServesOrNobody]_vars
<1>1. FairInv /\ NextJob => ServesOrNobody
  <2> SUFFICES ASSUME FairInv, NextJob PROVE ServesOrNobody
    OBVIOUS
  <2>1. FairTypeOK /\ order # <<>> /\ Len(order) \in Nat
    BY FairInvParts, OrderBasics DEF NextJob
  <2>2. ASSUME NEW k \in Nat, NextFair(k) \/ NextFifo(k) PROVE ServesOrNobody
    BY <2>1, <2>2, TurnKnown DEF NextFair, NextFifo, ServesOrNobody
  <2>3. Turns \subseteq Nat /\ 0..(Len(order) - 1) \subseteq Nat
    BY <2>1 DEF Turns
  <2>4. CASE NextNone
    BY <2>4, NoneMeansNobody DEF NextNone, ServesOrNobody
  <2>5. CASE NextFifoNone
    <3>1. \A c \in Clients : Eligible(c) => c \in Known
      BY FairInvParts DEF WaitersKnown, Eligible
    <3> QED
      BY <2>5, <3>1 DEF NextFifoNone, ServesOrNobody
  <2> QED
    BY <2>2, <2>3, <2>4, <2>5 DEF NextJob
<1> QED
  BY <1>1, FairInvariant, PTL
=============================================================================
