SPECIFICATION Spec
CONSTANTS
    Workers = {w1, w2}
    MaxPerHour = 2
    Ticks = 2
    LastHour = 2
SYMMETRY WorkerSymmetry
INVARIANTS HourlyCap
