\* Tools that answer, fail or panic.
CONSTANTS
    Steps <- Tour
    MaxItems = 2
    Outcomes = {"ok", "error", "panic"}
SPECIFICATION FairSpec
INVARIANTS BatchIsolation NothingAfterAbort SuccessReportsAll
PROPERTIES MergeInOrder RunEnds
