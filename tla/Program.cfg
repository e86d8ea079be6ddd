CONSTANTS
    Command <- CommandPlan
    Tool <- ToolPlan
    Limited <- MCLimited
    Providers <- MCProviders
    NoAllowlist <- MCNoAllowlist
    IgnoresDryRun <- MCIgnoresDryRun
    PartialWriters <- MCPartialWriters
    ReportsInside <- MCReportsInside
    MoreRequests <- MCMoreRequests
    ReadOnlyTools <- MCReadOnlyTools
    Unbounded <- MCUnbounded
SPECIFICATION Spec
INVARIANTS
    GatesFirst
    PreviewsChangeNothing
    ErrorMeansNothingChanged
    OkMeansDone
    RequestsAreGranted
    RememberedSheetIsReady
    IInv
PROPERTY EverythingEnds
CHECK_DEADLOCK FALSE
