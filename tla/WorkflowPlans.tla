---------------------------- MODULE WorkflowPlans -----------------------------
(***************************************************************************)
(* The composed workflows as plans, each with the argument IsMCP of its    *)
(* options: the command line runs it with FALSE, the MCP tool with TRUE.   *)
(*                                                                         *)
(* RunParallel's fetchers are written one behind the other: each keeps its *)
(* error to itself and writes only its own slot, so their order makes no   *)
(* difference to what is requested and reported (Fanout has the            *)
(* interleavings).  `git log` never fails a workflow and is left out.      *)
(***************************************************************************)
EXTENDS ServicePlans

\* An action that fails is an entry of the result, not an error.  Without
\* --execute none is started, nor when the user, if there is one to ask, does
\* not agree.
Dispatch(actions, isMCP) ==
    IF isMCP THEN Nothing ELSE Maybe(Tolerate(Await("user") && actions))

Fetch(a) == Tolerate(a)

\* Lists one after the other; a list that cannot be read is left out.
TasksOfAllLists == TasksListTaskLists && Each(Tolerate(TasksListTasks))

-----------------------------------------------------------------------------
RunStandup(isMCP) ==
    Fetch(GmailDigest) && Fetch(CalendarAgenda) && Fetch(TasksOfAllLists)
 && Dispatch(Tolerate(ChatSendMessage \cup GmailSendMessage), isMCP)

RunWeeklyDigest(isMCP) ==
    Fetch(GmailDigest) && Fetch(CalendarListEvents) && Fetch(TasksOfAllLists)

\* A meeting that is not found is an error, before anything is fetched.
RunMeetingPrep(isMCP) ==
    CalendarAgenda && Check
 && Fetch(Each(Tolerate(ContactsSearch)))
 && Fetch(GmailListMessages) && Fetch(DriveSearchFiles)

RunContextBoost(isMCP) ==
    Fetch(GmailListMessages) && Fetch(DriveSearchFiles)
 && Fetch(CalendarListEvents) && Fetch(ContactsSearch)

RunBugIntake(isMCP) == Fetch(GmailListMessages) && Fetch(DriveSearchFiles)

-----------------------------------------------------------------------------
\* Seeded fault: the id is remembered before the header is written.
InitSheet_RemembersFirst(isMCP) ==
    IF isMCP THEN Nothing
             ELSE SheetsCreate && Swap("workflow.json") && SheetsAppend

\* init makes the spreadsheet, writes its header and then remembers its id;
\* the other actions take the id from their options or from what init saved.
InitSheet(isMCP) ==
    IF isMCP THEN Nothing
             ELSE SheetsCreate && SheetsAppend && Swap("workflow.json")

ResolveSheetID == Check

RunTestMatrix(isMCP) ==
    [init  |-> InitSheet(isMCP),
     sync  |-> ResolveSheetID && IF isMCP THEN Nothing ELSE Check && SheetsAppend,
     stats |-> ResolveSheetID && SheetsReadRange]

RunSpecHealth(isMCP) ==
    [init   |-> InitSheet(isMCP),
     record |-> ResolveSheetID && IF isMCP THEN Nothing ELSE Check && SheetsAppend,
     stats  |-> ResolveSheetID && SheetsReadRange]

\* archive counts the finished tickets of a sprint; it moves none.
RunSprintBoard(isMCP) ==
    [init    |-> InitSheet(isMCP),
     ticket  |-> ResolveSheetID && IF isMCP THEN Nothing ELSE SheetsAppend,
     stats   |-> ResolveSheetID && SheetsReadRange,
     archive |-> ResolveSheetID && IF isMCP THEN Nothing ELSE SheetsReadRange]

-----------------------------------------------------------------------------
RunReviewNotify(isMCP) ==
    Check && Dispatch(Tolerate(ChatSendMessage \cup GmailSendMessage), isMCP)

RunEmailFromDoc(isMCP) ==
    DocsGet && Dispatch(Tolerate(GmailSendMessage), isMCP)

\* More than fifty rows are refused even without --execute.
RunSheetToEmail(isMCP) ==
    SheetsReadRange
 && Maybe(Check && Dispatch(Each(Tolerate(GmailSendMessage)), isMCP))

RunParallelSchedule(isMCP) ==
    Check && Each(Fetch(CalendarFindSlot))
 && Dispatch(Each(Tolerate(CalendarCreateEvent)), isMCP)

=============================================================================
