\* Two candidates, two coordinators that may disagree, both collectors.
SPECIFICATION Spec
CONSTANTS
    Candidates = {x, y}
    Coordinators = {p, q}
    MaxWrites = 2
    NoCandidate = NoCandidate
SYMMETRY Symmetry
CONSTRAINT FenceStands
INVARIANTS
    WinnerIsKept
    BrokerGcKeepsPins
PROPERTY
    OneWinner
