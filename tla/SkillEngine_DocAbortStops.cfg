\* Tools that panic.
CONSTANTS
    Steps <- Pair
    MaxItems = 1
    Outcomes = {"ok", "panic"}
SPECIFICATION Spec
INVARIANTS DocAbortStops
