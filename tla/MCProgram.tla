------------------------------- MODULE MCProgram -------------------------------
(***************************************************************************)
(* Program with all of gwx's commands and tools.  The sets below name what *)
(* departs from a rule; everything else keeps it, and a command or tool    *)
(* added without its gate, grant or undo step is found because it is not   *)
(* among them.                                                             *)
(***************************************************************************)
EXTENDS PlanRules, CommandPlans, ToolPlans

MCLimited ==
    {"gmail", "calendar", "drive", "sheets", "docs", "tasks", "people", "chat",
     "analytics", "searchconsole", "slides", "forms", "bigquery"}

MCProviders == {"github", "slack", "notion"}

MCNoAllowlist ==
    {"auth.login", "auth.logout", "auth.import", "onboard", "update", "doctor",
     "github.logout"}

MCIgnoresDryRun ==
    {"auth.login", "auth.logout", "auth.import", "onboard", "update", "doctor",
     "github.login", "github.logout", "github.create.issue", "obsidian.setup",
     "obsidian.create", "obsidian.append", "obsidian.daily"}

\* Two requests where the second fails; two files; credentials before login.
MCPartialWriters ==
    {"docs.create", "docs.from-sheet", "docs.template", "docs_create",
     "docs_from_sheet", "docs_template",
     "slides.from-sheet", "slides_from_sheet", "sheets.copy-tab", "sheets_copy_tab",
     "sheets.export", "gmail_archive", "gmail_batch_label",
     "workflow.spec-health.init", "workflow.sprint-board.init",
     "workflow.test-matrix.init",
     "auth.login", "onboard", "pipe", "skill.install", "skill.new"}

MCReportsInside ==
    {"gmail.archive", "gmail.label", "gmail_archive", "gmail_batch_label",
     "drive_batch_upload", "sheets_batch_append",
     "workflow.email-from-doc", "workflow.parallel-schedule",
     "workflow.review-notify", "workflow.sheet-to-email", "workflow.standup",
     "skill_batch-notify", "skill_invoice-log", "doctor"}

\* The second page, or the write after the read, on one grant.
MCMoreRequests ==
    {"analytics.audiences", "analytics.properties", "analytics_audiences",
     "analytics_properties", "bigquery.datasets", "bigquery.tables",
     "bigquery_datasets", "bigquery_tables", "forms.responses", "forms_responses",
     "calendar.update", "calendar_update", "docs.append", "docs_append",
     "tasks.complete", "tasks_complete", "drive.download", "drive_download",
     "gmail.label", "gmail_batch_label", "slides.export", "slides_export"}

\* The user and the browser; the new binary, run once by update, which asks
\* for releases with Go's default client.  So does oauth2 for a new token when
\* the old one has expired, in the midst of any request to Google.
MCUnbounded == {"user", "child", "releases"} \cup MCLimited

MCReadOnlyTools ==
    DOMAIN WorkflowReports \cup DOMAIN WorkflowSheets \cup DOMAIN WorkflowActions

=============================================================================
