\* Two callers of the calendar, whose Agenda is built on ListEvents.  No
\* symmetry, for the liveness.
CONSTANTS
    Callers = {c1, c2}
    Methods <- CalendarMethods
    Calls <- CalendarCalls
    Keys <- CalendarKeys
    MaxEntries = 2
    Unit = 2
    MaxWrites = 2
SPECIFICATION FairSpec
PROPERTIES StaleOnlyByLateFill EventuallyCurrent
