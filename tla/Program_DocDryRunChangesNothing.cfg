CONSTANTS
    Command <- CommandPlan
    Tool <- ToolPlan
    Limited <- MCLimited
    Providers <- MCProviders
    NoAllowlist <- MCNoAllowlist
    IgnoresDryRun <- MCIgnoresDryRun
    PartialWriters <- MCPartialWriters
    ReportsInside <- MCReportsInside
    MoreRequests <- MCMoreRequests
    ReadOnlyTools <- MCReadOnlyTools
    Unbounded <- MCUnbounded
SPECIFICATION Spec
INVARIANT DocDryRunChangesNothing
CHECK_DEADLOCK FALSE
