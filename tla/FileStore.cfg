\* Two processes, two keys: a save can collide with a save, a delete or a
\* load of the same key or of the other.
CONSTANTS
    Procs = {p1, p2}
    Keys = {k1, k2}
    Vals = {v1}
    None = None
    Missing = Missing
    Unreadable = Unreadable
    MaxPolls = 1
    UseFlock = TRUE
SPECIFICATION FairSpec
INVARIANTS TypeOK
PROPERTIES ReadabilityPreserved NoLostUpdate RefinesCredentialMap OperationReturns
