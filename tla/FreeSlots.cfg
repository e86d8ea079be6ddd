CONSTANTS
    Zones <- MCZones
    Nows <- MCNows
    Durations <- MCDurations
    Horizons <- MCHorizons
    Periods <- MCPeriods
    MaxPeriods = 2
SPECIFICATION Spec
INVARIANTS
    SlotsAreFree
    NothingMissed
PROPERTIES
    SearchEnds
CHECK_DEADLOCK FALSE
