---------------------------- MODULE MCLeaseStore ----------------------------
(* Instance of LeaseStore for TLC: workers, owners, resources and keys are *)
(* interchangeable, so states are explored up to their permutation.        *)
EXTENDS LeaseStore, TLC

Symmetry ==
    Permutations(Workers) \cup Permutations(Owners) \cup Permutations(Resources)
        \cup Permutations(Keys)
=============================================================================
