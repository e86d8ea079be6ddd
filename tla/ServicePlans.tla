----------------------------- MODULE ServicePlans -----------------------------
(***************************************************************************)
(* The methods of gwx's API clients as plans: the requests each makes, in  *)
(* what order, which of them wait for the rate limiter first, what may     *)
(* fail in between, and which local files are written.  A request is an    *)
(* API call, what one `.Do()` makes: that RetryTransport may send it again *)
(* is RetryTransport's matter, and that a file of more than sixteen        *)
(* megabytes goes up in several pieces makes no file before the last of    *)
(* them; all are sent on the call's one grant.  A cached read is           *)
(* the read on a miss: a hit makes no request, and what hits return is the *)
(* matter of ReadThrough.                                                  *)
(***************************************************************************)
EXTENDS Plans

(* gmail                                                                   *)

\* One request for the ids, then one per message; a message that cannot be
\* read is listed without its headers.
GmailListMessages == Ask("gmail") && Each(Tolerate(Ask("gmail")))
GmailGetMessage   == Ask("gmail")
GmailListLabels   == Ask("gmail")
GmailDigest       == GmailListMessages

\* The empty body is refused before WaitRate; attachments are read after it.
GmailSendMessage == Check && Wait("gmail") && Check && Put("gmail")
GmailCreateDraft == Check && Wait("gmail") && Check && Put("gmail")
GmailReply       == GmailGetMessage && GmailSendMessage
GmailForward     == GmailGetMessage && GmailSendMessage

\* A batch that fails is done message by message; a message that fails then
\* is only logged.
GmailModifyBatch ==
    Wait("gmail")
 && Try(Put("gmail"), Each(Wait("gmail") && Tolerate(Put("gmail"))))

GmailArchive  == Ask("gmail") && Each(GmailModifyBatch)
GmailMarkRead == Ask("gmail") && Each(GmailModifyBatch)

\* The labels (unless cached) and the messages are read on one WaitRate.
GmailBatchModifyLabels ==
    Wait("gmail") && Maybe(Get("gmail")) && Check && Get("gmail")
 && Each(GmailModifyBatch)

-----------------------------------------------------------------------------
(* drive and docs                                                          *)

DriveListFiles    == Ask("drive")
DriveSearchFiles  == Ask("drive")
DriveUploadFile   == Wait("drive") && Check && Put("drive")
DriveDownloadFile == Wait("drive") && Get("drive") && Get("drive") && Save("file")

\* Seeded fault: no WaitRate.
DriveShareFile_NoWait == Put("drive")

DriveShareFile    == Tell("drive")
DriveCreateFolder == Tell("drive")
DriveCheckSize    == Ask("drive") && Check

DriveBatchUpload  == Each(Tolerate(DriveUploadFile))

DocsGet           == Ask("docs")
DocsCreate        == Tell("docs") && Maybe(Tell("docs"))
DocsAppend        == Wait("docs") && Get("docs") && Put("docs")
DocsSearch        == DocsGet
DocsReplace       == Tell("docs")
DocsFromTable     == DocsCreate
DocsFromTemplate  == DocsGet && DocsCreate
DocsExport        == Wait("drive") && Check && Get("drive") && Save("file")

-----------------------------------------------------------------------------
(* sheets                                                                  *)

SheetsReadRange   == Ask("sheets")
SheetsGetInfo     == Ask("sheets")
SheetsAppend      == Tell("sheets")
SheetsUpdate      == Tell("sheets")
SheetsBatchAppend == Each(Tolerate(SheetsAppend))
SheetsClear       == Tell("sheets")
SheetsCreate      == Tell("sheets")
SheetsDescribe    == Maybe(SheetsGetInfo) && SheetsReadRange && Check
SheetsStats       == Maybe(SheetsGetInfo) && SheetsReadRange && Check
SheetsSearch      == SheetsReadRange
SheetsFilter      == SheetsReadRange
SheetsDiff        == SheetsReadRange && SheetsReadRange && Check

\* The first WaitRate is for the new tab, which is made after the source is
\* read; a source with no values is an error.
SheetsCopyTab ==
    Wait("sheets") && SheetsReadRange && Check && Put("sheets") && Tell("sheets")

\* To standard output, or to a file: it is created, and what it held is
\* gone, before the format is looked at and the range is read.
SheetsExport == SheetsReadRange && Check

SheetsExportToFile ==
         (Check && SheetsExport)
    \cup (Save("file") && Check && SheetsExport && Save("file"))

\* Seeded fault: the append's error is logged only.
SheetsImport_Logs == Check && Tolerate(SheetsAppend)

SheetsImport         == Check && SheetsAppend
SheetsImportFromFile == Check && SheetsImport

-----------------------------------------------------------------------------
(* calendar, tasks, contacts, chat                                         *)

CalendarListEvents     == Ask("calendar")
CalendarAgenda         == CalendarListEvents
CalendarCheckConflicts == Check && CalendarListEvents
CalendarCreateEvent    == Tell("calendar")
CalendarUpdateEvent    == Wait("calendar") && Get("calendar") && Put("calendar")
CalendarDeleteEvent    == Tell("calendar")
CalendarFindSlot       == Ask("calendar")

TasksListTaskLists == Ask("tasks")
TasksListTasks     == Ask("tasks")
TasksCreateTask    == Tell("tasks")

\* Seeded fault: the task is read back, and that may fail.
TasksCompleteTask_ReadsBack ==
    Wait("tasks") && Get("tasks") && Put("tasks") && Get("tasks")

TasksCompleteTask  == Wait("tasks") && Get("tasks") && Put("tasks")
TasksDeleteTask    == Tell("tasks")

ContactsList   == Ask("people")
ContactsSearch == Ask("people")
ContactsGet    == Ask("people")

ChatListSpaces   == Ask("chat")
ChatSendMessage  == Tell("chat")
ChatListMessages == Ask("chat")

-----------------------------------------------------------------------------
(* slides, forms, analytics, search console, BigQuery                      *)

SlidesGet       == Ask("slides")
SlidesList      == Ask("drive")
SlidesCreate    == Tell("slides")
SlidesDuplicate == Tell("drive")

SlidesExport ==
    Wait("drive") && Check && Maybe(Get("drive")) && Get("drive") && Save("file")

SlidesFromSheet ==
    SheetsReadRange && Check && SlidesDuplicate
 && Wait("slides") && Maybe(Put("slides")) && SlidesGet

FormsGet           == Ask("forms")
FormsListResponses == Pages("forms")
FormsGetResponse   == Ask("forms")

AnalyticsRunReport      == Ask("analytics")
AnalyticsRealtime       == Ask("analytics")
AnalyticsListProperties == Pages("analytics")
AnalyticsListAudiences  == Pages("analytics")

SearchConsoleQuery       == Ask("searchconsole")
SearchConsoleSites       == Ask("searchconsole")
SearchConsoleInspect     == Ask("searchconsole")
SearchConsoleSitemaps    == Ask("searchconsole")
SearchConsoleIndexStatus == Ask("searchconsole")

BigQueryQuery    == Ask("bigquery")
BigQueryDatasets == Pages("bigquery")
BigQueryTables   == Pages("bigquery")
BigQueryGetTable == Ask("bigquery")

-----------------------------------------------------------------------------
(* GitHub, Notion and Slack: plain HTTP with a provider token, no limiter  *)

GitHubListRepos         == Get("github")
GitHubListIssues        == Get("github")
GitHubCreateIssue       == Put("github")
GitHubListPulls         == Get("github")
GitHubGetPull           == Get("github")
GitHubListRuns          == Get("github")
GitHubListNotifications == Get("github")

NotionSearch     == Get("notion")
NotionGetPage    == Get("notion")
NotionCreatePage == Put("notion")
NotionQuery      == Get("notion")
NotionDatabases  == Get("notion")

SlackListChannels   == Get("slack")
SlackSend           == Put("slack")
SlackListMessages   == Get("slack")
SlackSearchMessages == Get("slack")
SlackListUsers      == Get("slack")
SlackGetUser        == Get("slack")

-----------------------------------------------------------------------------
(* The Obsidian vault: local files, no credential.  safePath refuses a     *)
(* path outside the vault before anything is touched.                      *)

VaultOpen       == Check
VaultListNotes  == Check
VaultSearch     == Check
VaultReadNote   == Check
VaultCreateNote == Check && Save("note")
VaultAppendNote == Check && Save("note")
VaultDailyNote  == Check && Save("note")
VaultTags       == Check
VaultByTag      == Check
VaultFolders    == Check
VaultRecent     == Check

=============================================================================
