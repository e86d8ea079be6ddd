----------------------------- MODULE CommandPlans -----------------------------
(***************************************************************************)
(* The Run method of every command as a plan: its gates in the order the   *)
(* code has them, then the calls it makes.  Most commands open with        *)
(* Preflight, but not all: the order, and the gates that are missing, are  *)
(* what the properties of Program are about.                               *)
(***************************************************************************)
EXTENDS WorkflowPlans, TLC

Preflight == Allow && Login("google") && DryRun

\* The families of commands, by the gates their Run methods open with.
Google(a)      == Preflight && a
OnGitHub(a)    == Allow && Token("github") && a
OnRepo(a)      == Allow && Check && Token("github") && a

\* Seeded faults: the allowlist is not asked; the dry run is not looked at.
Provider_NoAllowlist(s, a) == DryRun && Token(s) && a
Provider_NoDryRun(s, a)    == Allow && Token(s) && a

Provider(s, a) == Allow && DryRun && Token(s) && a
InVault(a)     == Allow && VaultOpen && a

-----------------------------------------------------------------------------
(* Google Workspace                                                        *)

GmailReading ==
    "gmail.list"   :> Google(GmailListMessages)
 @@ "gmail.get"    :> Google(GmailGetMessage)
 @@ "gmail.search" :> Google(GmailListMessages)
 @@ "gmail.labels" :> Google(GmailListLabels)

GmailComposing ==
    "gmail.send"   :> Google(GmailSendMessage)
 @@ "gmail.draft"  :> Google(GmailCreateDraft)
 @@ "gmail.reply"  :> Google(GmailReply)
 @@ "gmail.digest" :> Google(GmailDigest)

GmailFiling ==
    "gmail.archive" :> Google(GmailMarkRead \cup GmailArchive)
 @@ "gmail.label"   :> (Check && Google(GmailBatchModifyLabels))
 @@ "gmail.forward" :> Google(GmailForward)

\* The conflicts of a new event are read first, and shown; not being able to
\* read them does not stop it.
CalendarReading ==
    "calendar.agenda" :> Google(CalendarAgenda)
 @@ "calendar.list"   :> (Check && Google(CalendarListEvents))
 @@ "calendar.create" :> Google(Tolerate(CalendarCheckConflicts) && CalendarCreateEvent)

CalendarChanging ==
    "calendar.update"    :> Google(CalendarUpdateEvent)
 @@ "calendar.delete"    :> Google(CalendarDeleteEvent)
 @@ "calendar.find-slot" :> (Check && Google(CalendarFindSlot))

DriveCommands ==
    "drive.list"     :> Google(DriveListFiles)
 @@ "drive.search"   :> Google(DriveSearchFiles)
 @@ "drive.upload"   :> Google(DriveUploadFile)
 @@ "drive.download" :> Google(DriveDownloadFile)
 @@ "drive.share"    :> Google(DriveShareFile)
 @@ "drive.mkdir"    :> Google(DriveCreateFolder)

DocsCommands ==
    "docs.get"     :> Google(DocsGet)
 @@ "docs.create"  :> Google(DocsCreate)
 @@ "docs.append"  :> Google(DocsAppend)
 @@ "docs.export"  :> Google(DocsExport)
 @@ "docs.search"  :> Google(DocsSearch)
 @@ "docs.replace" :> Google(DocsReplace)

\* template looks at --vars before the dry run ends it.
DocsMaking ==
    "docs.from-sheet" :> Google(SheetsReadRange && Check && DocsFromTable)
 @@ "docs.template"   :> (Allow && Login("google") && Check && DryRun && DocsFromTemplate)

SheetsBasics ==
    "sheets.read"   :> Google(SheetsReadRange)
 @@ "sheets.append" :> Google(Check && SheetsAppend)
 @@ "sheets.update" :> Google(Check && SheetsUpdate)
 @@ "sheets.create" :> Google(SheetsCreate)
 @@ "sheets.info"   :> Google(SheetsGetInfo)

\* Without a range, search asks for the name of the first sheet.
SheetsLooking ==
    "sheets.search"   :> Google(Maybe(SheetsGetInfo) && SheetsSearch)
 @@ "sheets.filter"   :> Google(SheetsFilter)
 @@ "sheets.clear"    :> Google(SheetsClear)
 @@ "sheets.describe" :> Google(SheetsDescribe)

\* The rows are checked against the sheet's schema; a dry run ends it before
\* anything is appended, and rows with issues are an answer, not an error.
SheetsSmartAppend ==
    "sheets.smart-append" :>
        (Allow && Login("google") && Check && SheetsDescribe
         && Maybe(DryRun && SheetsAppend))

SheetsOperating ==
    "sheets.stats"    :> Google(SheetsStats)
 @@ "sheets.diff"     :> Google(SheetsDiff)
 @@ "sheets.copy-tab" :> Google(SheetsCopyTab)
 @@ "sheets.export"   :> Google(SheetsExportToFile)
 @@ "sheets.import"   :> Google(SheetsImportFromFile)

TasksCommands ==
    "tasks.list"     :> Google(TasksListTasks)
 @@ "tasks.lists"    :> Google(TasksListTaskLists)
 @@ "tasks.create"   :> Google(TasksCreateTask)
 @@ "tasks.complete" :> Google(TasksCompleteTask)
 @@ "tasks.delete"   :> Google(TasksDeleteTask)

ContactsCommands ==
    "contacts.list"   :> Google(ContactsList)
 @@ "contacts.search" :> Google(ContactsSearch)
 @@ "contacts.get"    :> Google(ContactsGet)

ChatCommands ==
    "chat.spaces"   :> Google(ChatListSpaces)
 @@ "chat.send"     :> Google(ChatSendMessage)
 @@ "chat.messages" :> Google(ChatListMessages)

SlidesCommands ==
    "slides.get"        :> Google(SlidesGet)
 @@ "slides.list"       :> Google(SlidesList)
 @@ "slides.create"     :> Google(SlidesCreate)
 @@ "slides.duplicate"  :> Google(SlidesDuplicate)
 @@ "slides.export"     :> Google(SlidesExport)
 @@ "slides.from-sheet" :> Google(SlidesFromSheet)

FormsCommands ==
    "forms.get"       :> Google(FormsGet)
 @@ "forms.responses" :> Google(FormsListResponses)
 @@ "forms.response"  :> Google(Check && FormsGetResponse)

\* The default property, site or project comes from the preferences.
AnalyticsCommands ==
    "analytics.report"     :> Google(Check && AnalyticsRunReport)
 @@ "analytics.realtime"   :> Google(Check && AnalyticsRealtime)
 @@ "analytics.properties" :> Google(AnalyticsListProperties)
 @@ "analytics.audiences"  :> Google(Check && AnalyticsListAudiences)

SearchConsoleCommands ==
    "searchconsole.query"    :> Google(Check && SearchConsoleQuery)
 @@ "searchconsole.sites"    :> Google(SearchConsoleSites)
 @@ "searchconsole.inspect"  :> Google(SearchConsoleInspect)
 @@ "searchconsole.sitemaps" :> Google(Check && SearchConsoleSitemaps)

SearchConsoleStatus ==
    "searchconsole.index-status" :> Google(Check && SearchConsoleIndexStatus)

BigQueryCommands ==
    "bigquery.query"    :> Google(Check && BigQueryQuery)
 @@ "bigquery.datasets" :> Google(Check && BigQueryDatasets)
 @@ "bigquery.tables"   :> Google(Check && BigQueryTables)
 @@ "bigquery.describe" :> Google(Check && BigQueryGetTable)

-----------------------------------------------------------------------------
(* across services                                                         *)

\* Drive is searched in the text; when that fails, by name.
SearchDrive == Try(DriveSearchFiles, Tolerate(DriveSearchFiles))

UnifiedSearch ==
    "unified.search" :>
        (Allow && Login("google") && DryRun
         && Maybe(Tolerate(GmailListMessages)) && Maybe(SearchDrive)
         && Maybe(Tolerate(ContactsSearch)))

GatherContext ==
    "context" :>
        Google(Tolerate(GmailListMessages) && SearchDrive
               && Tolerate(CalendarListEvents))

StandupCmd       == "workflow.standup" :> Google(RunStandup(FALSE))
MeetingPrepCmd   == "meeting-prep" :> Google(RunMeetingPrep(FALSE))
WeeklyDigestCmd  == "workflow.weekly-digest" :> Google(RunWeeklyDigest(FALSE))

ContextWorkflows ==
    "workflow.context-boost" :> Google(RunContextBoost(FALSE))
 @@ "workflow.bug-intake"    :> Google(RunBugIntake(FALSE))

\* One command with an action argument each; named here by both.
SheetWorkflows ==
    LET named(w, run) == [n \in {w \o "." \o a : a \in DOMAIN run} |->
                            Google(run[CHOOSE a \in DOMAIN run : w \o "." \o a = n])]
    IN     named("workflow.test-matrix", RunTestMatrix(FALSE))
        @@ named("workflow.spec-health", RunSpecHealth(FALSE))
        @@ named("workflow.sprint-board", RunSprintBoard(FALSE))

ActionWorkflows ==
    "workflow.review-notify"     :> (Check && Google(RunReviewNotify(FALSE)))
 @@ "workflow.email-from-doc"    :> (Check && Google(RunEmailFromDoc(FALSE)))
 @@ "workflow.sheet-to-email"    :> Google(RunSheetToEmail(FALSE))
 @@ "workflow.parallel-schedule" :> Google(RunParallelSchedule(FALSE))

-----------------------------------------------------------------------------
(* GitHub, Slack, Notion, Obsidian                                         *)

GitHubAccount ==
    "github.login"  :> (Allow && Swap("keyring"))
 @@ "github.logout" :> Swap("keyring")
 @@ "github.status" :> Check
 @@ "github.repos"  :> OnGitHub(GitHubListRepos)

GitHubReading ==
    "github.issues" :> OnRepo(GitHubListIssues)
 @@ "github.pulls"  :> OnRepo(GitHubListPulls)
 @@ "github.pull"   :> OnRepo(GitHubGetPull)

GitHubRest ==
    "github.runs"         :> OnRepo(GitHubListRuns)
 @@ "github.notify"       :> OnGitHub(GitHubListNotifications)
 @@ "github.create.issue" :> OnRepo(GitHubCreateIssue)

SlackTalking ==
    "slack.login"    :> (Allow && DryRun && Swap("keyring"))
 @@ "slack.status"   :> Check
 @@ "slack.channels" :> Provider("slack", SlackListChannels)
 @@ "slack.send"     :> Provider("slack", SlackSend)

SlackReading ==
    "slack.messages" :> Provider("slack", SlackListMessages)
 @@ "slack.search"   :> Provider("slack", SlackSearchMessages)
 @@ "slack.users"    :> Provider("slack", SlackListUsers)

\* The JSON arguments are looked at when the client is there already.
NotionPages ==
    "notion.login"  :> (Allow && DryRun && Swap("keyring"))
 @@ "notion.status" :> Check
 @@ "notion.search" :> Provider("notion", NotionSearch)
 @@ "notion.page"   :> Provider("notion", NotionGetPage)
 @@ "notion.create" :> Provider("notion", Check && NotionCreatePage)

NotionDatabaseCommands ==
    "notion.databases" :> Provider("notion", NotionDatabases)
 @@ "notion.query"     :> Provider("notion", Check && NotionQuery)

VaultSetup == "obsidian.setup" :> (Allow && Check && Save("preferences.json"))

\* The text of a new note, or of today's, may come from standard input.
VaultNotes ==
    "obsidian.list"   :> InVault(VaultListNotes)
 @@ "obsidian.search" :> InVault(VaultSearch)
 @@ "obsidian.read"   :> InVault(VaultReadNote)
 @@ "obsidian.create" :> InVault(Tolerate(Await("user")) && VaultCreateNote)

VaultWriting ==
    "obsidian.append"  :> InVault(VaultAppendNote)
 @@ "obsidian.daily"   :> InVault(Await("user") && VaultDailyNote)
 @@ "obsidian.tags"    :> InVault(VaultTags)
 @@ "obsidian.recent"  :> InVault(VaultRecent)
 @@ "obsidian.folders" :> InVault(VaultFolders)

-----------------------------------------------------------------------------
(* gwx's own configuration, credentials, skills and binary                 *)

ConfigCommands ==
    "config.set"  :> (Allow && DryRun && Save("preferences.json"))
 @@ "config.get"  :> (Allow && DryRun && Check)
 @@ "config.list" :> (Allow && DryRun && Check)

\* Loading a credentials file also puts it into the keyring, before the
\* browser is opened; the token follows when the user has agreed there.
AuthCommands ==
    "auth.login"  :> ((Swap("keyring") \cup Check) && Await("user") && Swap("keyring"))
 @@ "auth.logout" :> Swap("keyring")
 @@ "auth.status" :> Check

AuthTransfer ==
    "auth.export" :> Check
 @@ "auth.import" :> (Await("user") && Check && Swap("keyring"))

DoLogin == Await("user") && Swap("keyring")

\* The credentials, given or asked for, are in the keyring before the dry run
\* ends it; a dry run that would ask for them is an error.
Onboard ==
    "onboard" :> (Await("user") && Check && Swap("keyring") && DryRun && Check && DoLogin)

SkillReading ==
    "skill.list"     :> (Allow && DryRun && Check)
 @@ "skill.inspect"  :> (Allow && DryRun && Check)
 @@ "skill.validate" :> (Allow && DryRun && Check)

\* What was installed is read once more, and may turn out not to load.
SkillInstalling ==
    "skill.install" :>
        (Allow && DryRun && (Get("web") \cup Check) && Check && Save("skill") && Check)
 @@ "skill.remove" :> (Allow && DryRun && Swap("skill"))
 @@ "skill.search" :> (Allow && DryRun && Check)

SkillMaking ==
    "skill.browse" :> (Allow && DryRun && Check)
 @@ "skill.new"    :> (Allow && DryRun && (Nothing \cup (Save("skill") && Check)))

\* Every stage is a gwx process with gates of its own; the first that fails
\* is the last.
Pipe ==
    LET second == Google(Check && SheetsAppend)
        third  == Google(ChatSendMessage)
    IN  "pipe" :> (Allow && Check && DryRun && Google(SheetsReadRange)
                   && Maybe(second && Maybe(third)))

\* The new binary is downloaded to a temporary file, which a failure removes,
\* made executable and run once before it takes the place of the old one.
Update ==
    "update" :> (Get("releases")
                 && Maybe(Check && Get("releases") && Check && Await("child")
                          && Swap("binary")))

\* It waits two seconds for the latest release, update for ever.
Doctor ==
    "doctor" :> (Tolerate(Get("web")) && Tolerate(Save("probe") && Swap("probe")))

\* Prepares the MCP server; what it serves is in ToolPlans.
MCPServer == "mcp-server" :> (Login("google") && Tolerate(Check))

-----------------------------------------------------------------------------
CommandPlan ==
    GmailReading @@ GmailComposing @@ GmailFiling @@ CalendarReading
 @@ CalendarChanging @@ DriveCommands @@ DocsCommands @@ DocsMaking
 @@ SheetsBasics @@ SheetsLooking @@ SheetsSmartAppend @@ SheetsOperating
 @@ TasksCommands @@ ContactsCommands @@ ChatCommands @@ SlidesCommands
 @@ FormsCommands @@ AnalyticsCommands @@ SearchConsoleCommands
 @@ SearchConsoleStatus @@ BigQueryCommands
 @@ UnifiedSearch @@ GatherContext @@ StandupCmd @@ MeetingPrepCmd
 @@ WeeklyDigestCmd @@ ContextWorkflows @@ SheetWorkflows @@ ActionWorkflows
 @@ GitHubAccount @@ GitHubReading @@ GitHubRest @@ SlackTalking
 @@ SlackReading @@ NotionPages @@ NotionDatabaseCommands @@ VaultSetup
 @@ VaultNotes @@ VaultWriting @@ ConfigCommands @@ AuthCommands
 @@ AuthTransfer @@ Onboard @@ SkillReading @@ SkillInstalling @@ SkillMaking
 @@ Pipe @@ Update @@ Doctor @@ MCPServer

=============================================================================
