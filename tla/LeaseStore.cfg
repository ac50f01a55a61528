\* Two workers contend for one resource; the clock may be set back at any time.
CONSTANTS
    Workers = {w1, w2}
    Owners = {o1, o2}
    Resources = {r1}
    Keys = {k1}
    None = None
    TTLs = {1}
    MaxTries = 2
    MaxSeq = 4
    MaxClock = 1
SPECIFICATION Spec
SYMMETRY Symmetry
INVARIANTS
    TypeOK
    FencesUnique
    WrittenByGrantee
    LiveHolderIsCurrent
    AttemptsCountGrants
PROPERTIES
    ValueFencesNeverDecrease
    ImplementsFencedResource
