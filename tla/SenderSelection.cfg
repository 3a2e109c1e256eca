SPECIFICATION Spec
CONSTANTS
    Accounts = {a1, a2}
    Workers = {w1, w2}
    LastTime = 5
    NoAccount = NoAccount
SYMMETRY SenderSymmetry
INVARIANTS TypeOK DeactivationTakesEffect
CHECK_DEADLOCK FALSE
