\* The safety part only.
SPECIFICATION Spec
CONSTANTS
    Clients = {c1, c2, c3}
    MaxInvalidations = 2
PROPERTY
    HandlesOutliveGc
CHECK_DEADLOCK FALSE
