CONSTANTS
    a = a
    b = b
    Process = {a, b}
    Writer <- MCWriter
    ProcessOf <- MCProcessOf
    Key = {"x", "y"}
    MaxSets = 3
SPECIFICATION Spec
INVARIANTS
    AloneNothingIsLost
PROPERTIES
    AckedAloneIsFound
CHECK_DEADLOCK FALSE
