------------------------------- MODULE ToolPlans -------------------------------
(***************************************************************************)
(* The handlers of the MCP server as plans.  The server has authenticated  *)
(* once, when it started; a tool has no allowlist and no dry run, and its  *)
(* first error is its answer.                                              *)
(***************************************************************************)
EXTENDS WorkflowPlans, TLC

GmailTools ==
    "gmail_list"   :> GmailListMessages
 @@ "gmail_get"    :> GmailGetMessage
 @@ "gmail_search" :> GmailListMessages
 @@ "gmail_send"   :> GmailSendMessage

CalendarTools ==
    "calendar_agenda" :> CalendarAgenda
 @@ "calendar_create" :> CalendarCreateEvent

DriveTools ==
    "drive_list"   :> DriveListFiles
 @@ "drive_search" :> DriveSearchFiles
 @@ "docs_get"     :> DocsGet
 @@ "sheets_read"  :> SheetsReadRange

\* Rows with issues are an answer, not an error, and nothing is appended.
SheetsTools ==
    "sheets_append"       :> (Check && SheetsAppend)
 @@ "sheets_describe"     :> SheetsDescribe
 @@ "sheets_smart_append" :> (Check && SheetsDescribe && Maybe(SheetsAppend))
 @@ "sheets_search"       :> SheetsSearch
 @@ "sheets_filter"       :> SheetsFilter

TasksTools ==
    "tasks_list"      :> TasksListTasks
 @@ "tasks_create"    :> TasksCreateTask
 @@ "contacts_search" :> ContactsSearch
 @@ "gmail_digest"    :> GmailDigest
 @@ "gmail_archive"   :> (GmailMarkRead \cup GmailArchive)

\* Goroutines with a slot each: what one cannot read it says in its slot.
ContextGather ==
    "context_gather" :>
        (Tolerate(GmailListMessages)
         && Try(DriveSearchFiles, Tolerate(DriveSearchFiles))
         && Tolerate(CalendarAgenda))

UnifiedSearchTool ==
    "unified_search" :> (Tolerate(GmailListMessages) && Tolerate(DriveSearchFiles))

-----------------------------------------------------------------------------
NewGmailTools ==
    "gmail_reply"     :> GmailReply
 @@ "calendar_list"   :> (Check && CalendarListEvents)
 @@ "calendar_update" :> CalendarUpdateEvent
 @@ "contacts_list"   :> ContactsList
 @@ "contacts_get"    :> ContactsGet

\* Files over a hundred megabytes are refused before the download.
NewSheetsTools ==
    "drive_download" :> (DriveCheckSize && DriveDownloadFile)
 @@ "sheets_update"  :> (Check && SheetsUpdate)
 @@ "sheets_import"  :> SheetsImportFromFile
 @@ "sheets_create"  :> SheetsCreate

NewTasksTools ==
    "tasks_lists"    :> TasksListTaskLists
 @@ "tasks_complete" :> TasksCompleteTask
 @@ "tasks_delete"   :> TasksDeleteTask

\* The rows of docs_from_sheet are arguments; no sheet is read.
NewDocsTools ==
    "docs_template"   :> (Check && DocsFromTemplate)
 @@ "docs_from_sheet" :> (Check && DocsFromTable)
 @@ "docs_export"     :> DocsExport

NewChatTools ==
    "chat_spaces"   :> ChatListSpaces
 @@ "chat_send"     :> ChatSendMessage
 @@ "chat_messages" :> ChatListMessages

-----------------------------------------------------------------------------
\* sheets_export answers with the rows; it writes no file.
ExtendedSheetsTools ==
    "sheets_stats"    :> SheetsStats
 @@ "sheets_diff"     :> SheetsDiff
 @@ "sheets_copy_tab" :> SheetsCopyTab
 @@ "sheets_export"   :> (Check && SheetsExport)
 @@ "sheets_info"     :> SheetsGetInfo
 @@ "sheets_clear"    :> SheetsClear

ExtendedDocsTools ==
    "docs_search"        :> DocsSearch
 @@ "docs_replace"       :> DocsReplace
 @@ "docs_create"        :> DocsCreate
 @@ "docs_append"        :> DocsAppend
 @@ "calendar_find_slot" :> (Check && CalendarFindSlot)
 @@ "calendar_delete"    :> CalendarDeleteEvent

ExtendedDriveTools ==
    "drive_upload"      :> DriveUploadFile
 @@ "drive_share"       :> DriveShareFile
 @@ "drive_mkdir"       :> DriveCreateFolder
 @@ "gmail_labels"      :> GmailListLabels
 @@ "gmail_draft"       :> GmailCreateDraft
 @@ "gmail_batch_label" :> GmailBatchModifyLabels
 @@ "gmail_forward"     :> GmailForward

\* Every file and every entry has a result of its own (Fanout).
BatchTools ==
    "drive_batch_upload"  :> (Check && DriveBatchUpload)
 @@ "sheets_batch_append" :> (Check && SheetsBatchAppend)

ConfigTools ==
    "config_set"  :> (Check && Save("preferences.json"))
 @@ "config_get"  :> Check
 @@ "config_list" :> Check

FormsTools ==
    "forms_get"       :> FormsGet
 @@ "forms_responses" :> FormsListResponses
 @@ "forms_response"  :> FormsGetResponse

SlidesTools ==
    "slides_get"        :> SlidesGet
 @@ "slides_list"       :> SlidesList
 @@ "slides_create"     :> SlidesCreate
 @@ "slides_duplicate"  :> SlidesDuplicate
 @@ "slides_export"     :> SlidesExport
 @@ "slides_from_sheet" :> SlidesFromSheet

AnalyticsTools ==
    "analytics_report"     :> (Check && AnalyticsRunReport)
 @@ "analytics_realtime"   :> (Check && AnalyticsRealtime)
 @@ "analytics_properties" :> AnalyticsListProperties
 @@ "analytics_audiences"  :> (Check && AnalyticsListAudiences)

SearchConsoleTools ==
    "searchconsole_query"        :> (Check && SearchConsoleQuery)
 @@ "searchconsole_sites"        :> SearchConsoleSites
 @@ "searchconsole_inspect"      :> SearchConsoleInspect
 @@ "searchconsole_sitemaps"     :> (Check && SearchConsoleSitemaps)
 @@ "searchconsole_index_status" :> (Check && SearchConsoleIndexStatus)

BigQueryTools ==
    "bigquery_query"    :> (Check && BigQueryQuery)
 @@ "bigquery_datasets" :> (Check && BigQueryDatasets)
 @@ "bigquery_tables"   :> (Check && BigQueryTables)
 @@ "bigquery_describe" :> (Check && BigQueryGetTable)

-----------------------------------------------------------------------------
(* Providers: the token is looked up at every call, from the environment   *)
(* (not GitHub's) or the keyring; Notion's client is kept five minutes.    *)

GitHubTools ==
    "github_repos"         :> (Token("github") && GitHubListRepos)
 @@ "github_issues"        :> (Token("github") && Check && GitHubListIssues)
 @@ "github_create_issue"  :> (Token("github") && Check && GitHubCreateIssue)
 @@ "github_pulls"         :> (Token("github") && Check && GitHubListPulls)
 @@ "github_pull"          :> (Token("github") && Check && GitHubGetPull)
 @@ "github_runs"          :> (Token("github") && Check && GitHubListRuns)
 @@ "github_notifications" :> (Token("github") && GitHubListNotifications)

resolveNotionClient == Token("notion")

NotionTools ==
    "notion_search"      :> (resolveNotionClient && NotionSearch)
 @@ "notion_page"        :> (resolveNotionClient && NotionGetPage)
 @@ "notion_create_page" :> (resolveNotionClient && Check && NotionCreatePage)
 @@ "notion_databases"   :> (resolveNotionClient && NotionDatabases)
 @@ "notion_query"       :> (resolveNotionClient && Check && NotionQuery)

resolveSlackClient == Token("slack")

SlackTools ==
    "slack_channels" :> (resolveSlackClient && SlackListChannels)
 @@ "slack_send"     :> (resolveSlackClient && SlackSend)
 @@ "slack_messages" :> (resolveSlackClient && SlackListMessages)
 @@ "slack_search"   :> (resolveSlackClient && SlackSearchMessages)
 @@ "slack_users"    :> (resolveSlackClient && SlackListUsers)
 @@ "slack_user"     :> (resolveSlackClient && SlackGetUser)

\* The vault is opened anew at every call.
ObsidianTools ==
    "obsidian_list"       :> (VaultOpen && VaultListNotes)
 @@ "obsidian_search"     :> (VaultOpen && VaultSearch)
 @@ "obsidian_read"       :> (VaultOpen && VaultReadNote)
 @@ "obsidian_create"     :> (VaultOpen && VaultCreateNote)
 @@ "obsidian_append"     :> (VaultOpen && VaultAppendNote)
 @@ "obsidian_daily"      :> (VaultOpen && VaultDailyNote)
 @@ "obsidian_tags"       :> (VaultOpen && VaultTags)
 @@ "obsidian_search_tag" :> (VaultOpen && VaultByTag)
 @@ "obsidian_recent"     :> (VaultOpen && VaultRecent)
 @@ "obsidian_folders"    :> (VaultOpen && VaultFolders)

-----------------------------------------------------------------------------
(* The workflows, with IsMCP set.                                          *)

WorkflowReports ==
    "workflow_standup"       :> RunStandup(TRUE)
 @@ "workflow_meeting_prep"  :> RunMeetingPrep(TRUE)
 @@ "workflow_weekly_digest" :> RunWeeklyDigest(TRUE)
 @@ "workflow_digest"        :> RunWeeklyDigest(TRUE)
 @@ "workflow_context_boost" :> RunContextBoost(TRUE)
 @@ "workflow_bug_intake"    :> RunBugIntake(TRUE)

WorkflowSheets ==
    "workflow_test_matrix_init"    :> RunTestMatrix(TRUE).init
 @@ "workflow_test_matrix_sync"    :> RunTestMatrix(TRUE).sync
 @@ "workflow_test_matrix_stats"   :> RunTestMatrix(TRUE).stats
 @@ "workflow_spec_health_init"    :> RunSpecHealth(TRUE).init
 @@ "workflow_spec_health_record"  :> RunSpecHealth(TRUE).record
 @@ "workflow_spec_health_stats"   :> RunSpecHealth(TRUE).stats
 @@ "workflow_sprint_board_init"   :> RunSprintBoard(TRUE).init
 @@ "workflow_sprint_board_ticket" :> RunSprintBoard(TRUE).ticket
 @@ "workflow_sprint_board_stats"  :> RunSprintBoard(TRUE).stats

WorkflowActions ==
    "workflow_review_notify"     :> RunReviewNotify(TRUE)
 @@ "workflow_email_from_doc"    :> RunEmailFromDoc(TRUE)
 @@ "workflow_sheet_to_email"    :> RunSheetToEmail(TRUE)
 @@ "workflow_parallel_schedule" :> RunParallelSchedule(TRUE)

\* A tool called by a step of a skill: with a deadline of its own.
Called(a) == One("call", "local") && a

\* Two of the skills gwx comes with, each served as a tool: a step without
\* on_fail ends the run when its tool fails, `on_fail: skip` keeps the error.
SkillTools ==
    "skill_batch-notify" :>
        (Check && Called(SheetsReadRange) && Each(Tolerate(Called(GmailSendMessage))))
 @@ "skill_invoice-log" :>
        (Check && Called(GmailListMessages) && Tolerate(Called(Check && SheetsAppend)))

-----------------------------------------------------------------------------
ToolPlan ==
    GmailTools @@ CalendarTools @@ DriveTools @@ SheetsTools @@ TasksTools
 @@ ContextGather @@ UnifiedSearchTool @@ NewGmailTools @@ NewSheetsTools
 @@ NewTasksTools @@ NewDocsTools @@ NewChatTools @@ ExtendedSheetsTools
 @@ ExtendedDocsTools @@ ExtendedDriveTools @@ BatchTools @@ ConfigTools
 @@ FormsTools @@ SlidesTools @@ AnalyticsTools @@ SearchConsoleTools
 @@ BigQueryTools @@ GitHubTools @@ NotionTools @@ SlackTools @@ ObsidianTools
 @@ WorkflowReports @@ WorkflowSheets @@ WorkflowActions @@ SkillTools

=============================================================================
