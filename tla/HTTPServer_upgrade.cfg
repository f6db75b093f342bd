CONSTANTS
    Requests = {r1, r2}
    Writers = {w1, w2}
    None = None
SPECIFICATION Spec
INVARIANT UpgradeSucceeds
CHECK_DEADLOCK FALSE
