CONSTANTS
    N = 4
    Concurrency = 2
SPECIFICATION Spec
INVARIANTS
    WithinSlots
PROPERTIES
    KeepsPromise
    Returns
CHECK_DEADLOCK FALSE
