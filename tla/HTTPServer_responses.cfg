CONSTANTS
    Requests = {r1, r2, r3}
    Writers = {w1, w2, w3}
    None = None
SYMMETRY Symmetry
SPECIFICATION Spec
INVARIANTS TypeOK OwnResponse CountedAsSent
CHECK_DEADLOCK FALSE
