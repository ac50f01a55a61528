------------------------- MODULE MCResourceGovernor -------------------------
(* Two resources, one of them unlimited for everybody; client "a" has a     *)
(* budget of its own, "b" none; requests of nothing, of one resource and of *)
(* both.                                                                    *)
EXTENDS ResourceGovernor

MCResources == {"cpu", "gpu"}
MCRequests == {[cpu |-> 0, gpu |-> 0], [cpu |-> 1, gpu |-> 1], [cpu |-> 2, gpu |-> 0]}
MCLimit == [cpu |-> 3, gpu |-> 0]
MCClientLimit == [c \in {"a", "b"} |-> IF c = "a" THEN [cpu |-> 2, gpu |-> 1]
                                       ELSE [cpu |-> 0, gpu |-> 0]]
=============================================================================
