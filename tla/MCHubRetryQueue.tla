-------------------------- MODULE MCHubRetryQueue ---------------------------
EXTENDS HubRetryQueue, TLC

Symmetry == Permutations(Tasks)
=============================================================================
