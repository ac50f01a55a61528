------------------------ MODULE MCCheckpointLifecycle -----------------------
EXTENDS CheckpointLifecycle, TLC

(* No two candidates and no two coordinators differ but by name.           *)
Symmetry == Permutations(Candidates) \cup Permutations(Coordinators)

(* A complete fence that is taken away ends what the seal promises, and    *)
(* the collectors never look at the fence: the search stops there.         *)
FenceStands == withdrawn = {}
=============================================================================
