---------------------------- MODULE MCHubService ----------------------------
(* One resource with room for one task at a time; every job asks for it,    *)
(* and each client has one job.                                             *)
EXTENDS HubService, TLC

CONSTANTS t1, t2, a, b

MCTasks == {t1, t2}
MCClients == {a, b}
OwnClient == [t \in MCTasks |-> IF t = t1 THEN a ELSE b]
MCWorkspaceOf == [t \in MCTasks |-> "w"]
MCRequests == {[cpu |-> 1]}
OneAtATime == [cpu |-> 1]
NoClientLimit == [c \in MCClients |-> [cpu |-> 0]]

\* Workers are alike, and so are the clients, each with its task.
ClientSwap == [x \in {t1, t2, a, b} |->
                  CASE x = t1 -> t2 [] x = t2 -> t1 [] x = a -> b [] OTHER -> a]
Symmetries == Permutations(Workers) \cup {ClientSwap}
=============================================================================
