--------------------------- MODULE MCRemoteWorker ---------------------------
(* Two workers, each with one idempotency key it presents again and again. *)
EXTENDS RemoteWorker

CONSTANTS u, v, ku, kv

MCWorkers == {u, v}
MCKeys == {ku, kv}
OwnKey == [w \in Workers |-> IF w = u THEN {ku} ELSE {kv}]
=============================================================================
