\* Four keys for a cache of three entries, so that insertions evict.
CONSTANTS
    Keys = {k1, k2, k3, k4}
    MaxEntries = 3
    Values = {v1, v2}
    Ttls = {1}
    NoValue = NoValue
SPECIFICATION PolicySpec
SYMMETRY Symmetry
INVARIANTS Coherent HitsAreLastSet
PROPERTIES EvictsLeastRecentlyUsed
