\* One caller, methods of two services, a cache smaller than the keys.
CONSTANTS
    Callers = {c1}
    Methods <- SharedMethods
    Calls <- SharedCalls
    Keys <- SharedKeys
    MaxEntries = 2
    Unit = 10
    MaxWrites = 2
SPECIFICATION Spec
INVARIANTS TypeOK ReadsSeeClearedWrites AgeBounded 
