-------------------------- MODULE MCFairScheduler ---------------------------
(* Two clients: "a" has two plain jobs and an expensive one of the lowest   *)
(* priority, "b" two jobs of a greater weight and a higher priority.  Each  *)
(* of the three quotas is in some state the only one that refuses.          *)
EXTENDS FairScheduler, TLC

CONSTANTS a1, a2, a3, b1, b2

MCTasks == {a1, a2, a3, b1, b2}
MCClientOf == [t \in MCTasks |-> IF t \in {b1, b2} THEN "b" ELSE "a"]
MCWorkspaceOf == [t \in MCTasks |-> IF t \in {a1, a3} THEN "w1" ELSE "w2"]
MCCost == [t \in MCTasks |-> IF t = a2 THEN 2 ELSE 1]
MCWeight == [t \in MCTasks |-> IF t \in {b1, b2} THEN 2 ELSE 1]
MCPriorityGain == [t \in MCTasks |-> CASE t = a2 -> 1 [] t \in {b1, b2} -> 3 [] OTHER -> 2]

\* The jobs of a pair differ in nothing but their names.
PairSymmetry == Permutations({a1, a3}) \cup Permutations({b1, b2})
=============================================================================
