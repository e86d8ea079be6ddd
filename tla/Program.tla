-------------------------------- MODULE Program --------------------------------
(***************************************************************************)
(* One gwx process: a command run to its exit code, or the MCP server      *)
(* answering requests one after the other.  The plans of the commands and  *)
(* tools are constants; this module is what happens to a plan: gates that  *)
(* refuse, requests that fail or whose answer is lost, files half written, *)
(* a deadline that passes, a process that is killed.                       *)
(*                                                                         *)
(* The path through a plan is chosen when it starts, although the code     *)
(* decides as it goes: which behaviours there are is the same.             *)
(***************************************************************************)
EXTENDS Plans

CONSTANTS
    Command,         \* [command name -> plan]
    Tool,            \* [tool name -> plan]
    Limited,         \* services that have a rate limiter
    Providers,       \* services with a token of their own
    NoAllowlist,     \* commands that never look at the allowlist
    IgnoresDryRun,   \* commands that never look at --dry-run, or act before
    PartialWriters,  \* commands and tools that may fail half done
    ReportsInside,   \* ... whose failed changes are not failures of theirs
    MoreRequests,    \* ... with requests the rate limiter was not asked for
    ReadOnlyTools,   \* the workflow tools
    Unbounded        \* of whom an answer is awaited however long it takes

VARIABLES
    phase,      \* idle, running, exited; serving, answering; killed
    name,       \* the command, or the tool of the last request
    dryRun,     \* --dry-run
    path,       \* the steps ahead
    passed,     \* the gates passed, as <<op, of>>
    granted,    \* [Limited -> Nat]: grants of the limiter not yet used
    ungranted,  \* a request was made without one
    effects,    \* what was done or tried outside the process
    expired,    \* the 60 seconds of the request are over
    outcome     \* exit code or answer: none, ok, error

vars == <<phase, name, dryRun, path, passed, granted, ungranted, effects,
          expired, outcome>>

Services == Limited \cup Providers

Outcomes == {"done", "refused", "unknown"}

Changing == {"put", "save", "swap"}

Changes(outcomes) == {e \in effects : e.op \in Changing /\ e.outcome \in outcomes}

TypeOK ==
    /\ phase \in {"idle", "running", "exited", "serving", "answering", "killed"}
    /\ name \in DOMAIN Command \cup DOMAIN Tool \cup {"none"}
    /\ dryRun \in BOOLEAN /\ ungranted \in BOOLEAN /\ expired \in BOOLEAN
    /\ granted \in [Limited -> Nat]
    /\ \A e \in effects : e.op \in Changing \cup {"get"} /\ e.outcome \in Outcomes
    /\ outcome \in {"none", "ok", "error"}
    /\ path # <<>> => phase \in {"running", "answering"}

Init ==
    /\ phase = "idle" /\ name = "none" /\ dryRun = FALSE /\ path = <<>>
    /\ passed = {} /\ granted = [s \in Limited |-> 0] /\ ungranted = FALSE
    /\ effects = {} /\ expired = FALSE /\ outcome = "none"

-----------------------------------------------------------------------------
(* Starting: Execute, and handleRequest for `tools/call`                   *)

Execute(c, d) ==
    /\ phase = "idle"
    /\ phase' = "running" /\ name' = c /\ dryRun' = d
    /\ path' \in Command[c]
    /\ UNCHANGED <<passed, granted, ungranted, effects, expired, outcome>>

\* A request starts with nothing of the last one but the server's login: the
\* token of a provider is looked up anew (Notion's is kept for five minutes,
\* which saves it the failure, not the step).
CallTool(t) ==
    /\ phase = "serving"
    /\ phase' = "answering" /\ name' = t
    /\ path' \in Tool[t]
    /\ granted' = [s \in Limited |-> 0] /\ ungranted' = FALSE
    /\ effects' = {} /\ expired' = FALSE /\ outcome' = "none"
    /\ passed' = {g \in passed : g[1] = "login"}
    /\ UNCHANGED dryRun

\* initialize, ping and tools/list are answered; a line that does not parse,
\* an unknown method or an unknown tool is answered with an error.
AnswerDirectly(o) ==
    /\ phase = "serving"
    /\ name' = "none" /\ outcome' = o /\ effects' = {} /\ ungranted' = FALSE
    /\ UNCHANGED <<phase, dryRun, path, passed, granted, expired>>

\* Standard input ends, or has a line of more than ten megabytes.
Hangup(o) ==
    /\ phase = "serving"
    /\ phase' = "exited" /\ name' = "mcp-server" /\ outcome' = o
    /\ effects' = {} /\ ungranted' = FALSE
    /\ UNCHANGED <<dryRun, path, passed, granted, expired>>

-----------------------------------------------------------------------------
Working == phase \in {"running", "answering"} /\ path # <<>>

Now == path[1]

At(op) == Working /\ Now.op = op

GoOn == path' = Tail(path) /\ UNCHANGED <<phase, outcome>>

\* Seeded fault: what was under way is not given up.
EndWith_KeepsGoing(o) ==
    /\ outcome' = o /\ UNCHANGED path
    /\ phase' = IF phase = "running" THEN "exited" ELSE "serving"

\* The exit code of the command, or the answer of the tool.
EndWith(o) ==
    /\ path' = <<>> /\ outcome' = o
    /\ phase' = IF phase = "running" THEN "exited" ELSE "serving"

\* `return err`, or what the block around the step does instead.
Fail ==
    IF Now.level = 0
    THEN EndWith("error")
    ELSE path' = AfterFailure(path, Now.level) /\ UNCHANGED <<phase, outcome>>

Effect(o) == effects' = effects \cup {[op |-> Now.op, of |-> Now.of, outcome |-> o]}

NothingElse == UNCHANGED <<name, dryRun, passed, granted, ungranted, expired>>

\* Nothing is left: the command succeeded, the tool has its result, the
\* server is ready.
Finish ==
    /\ phase \in {"running", "answering"} /\ path = <<>>
    /\ IF name = "mcp-server"
       THEN phase' = "serving" /\ UNCHANGED <<path, outcome>>
       ELSE EndWith("ok")
    /\ NothingElse /\ UNCHANGED effects

-----------------------------------------------------------------------------
(* Gates                                                                   *)

\* CheckAllowlist, EnsureAuth, LoadProviderToken.
PassGate ==
    /\ \E op \in {"allow", "login", "token"} : At(op)
    /\ passed' = passed \cup {<<Now.op, Now.of>>}
    /\ GoOn
    /\ UNCHANGED <<name, dryRun, granted, ungranted, effects, expired>>

Refuse ==
    /\ \E op \in {"allow", "login", "token"} : At(op)
    /\ Fail /\ NothingElse /\ UNCHANGED effects

DryRunEnds ==
    /\ At("dry") /\ dryRun
    /\ EndWith("ok") /\ NothingElse /\ UNCHANGED effects

NoDryRun ==
    /\ At("dry") /\ ~dryRun
    /\ GoOn /\ NothingElse /\ UNCHANGED effects

CheckPasses == At("check") /\ GoOn /\ NothingElse /\ UNCHANGED effects
CheckFails  == At("check") /\ Fail /\ NothingElse /\ UNCHANGED effects

LeaveBlock == At("end") /\ GoOn /\ NothingElse /\ UNCHANGED effects

-----------------------------------------------------------------------------
(* The rate limiter and requests.  The context of a command has no         *)
(* deadline.  A tool's has one: the limiter refuses at once when the grant *)
(* would come after it, and past it no request to a provider leaves the    *)
(* process.  Those to Google's services do: they are built without the     *)
(* context, so only the limiter in front of them looks at the deadline.    *)

WaitRate ==
    /\ At("wait") /\ ~expired
    /\ granted' = [granted EXCEPT ![Now.of] = @ + 1]
    /\ GoOn
    /\ UNCHANGED <<name, dryRun, passed, ungranted, effects, expired>>

\* `.Do()` without `.Context(ctx)`.
LeavesAnyway == Now.of \in Limited

\* Seeded fault: the limiter waits on whatever becomes of the context.
TooLate_WaitsOn ==
    /\ expired /\ (At("get") \/ At("put")) /\ ~LeavesAnyway
    /\ Fail /\ NothingElse /\ UNCHANGED effects

TooLate ==
    /\ \/ At("wait") /\ phase = "answering"
       \/ expired /\ (At("get") \/ At("put")) /\ ~LeavesAnyway
    /\ Fail /\ NothingElse /\ UNCHANGED effects

Send ==
    /\ expired => LeavesAnyway
    /\ IF Now.of \notin Limited
       THEN UNCHANGED <<granted, ungranted>>
       ELSE IF granted[Now.of] > 0
       THEN granted' = [granted EXCEPT ![Now.of] = @ - 1] /\ UNCHANGED ungranted
       ELSE ungranted' = TRUE /\ UNCHANGED granted
    /\ UNCHANGED <<name, dryRun, passed, expired>>

Answered   == At("get") /\ Send /\ GoOn /\ Effect("done")
Unanswered == At("get") /\ Send /\ Fail /\ Effect("refused")

\* Done and known to be; known not to be; done or not, the answer is lost.
PutDone    == At("put") /\ Send /\ GoOn /\ Effect("done")
PutRefused == At("put") /\ Send /\ Fail /\ Effect("refused")
PutLost    == At("put") /\ Send /\ Fail /\ Effect("unknown")

\* A skill's step is a CallTool of its own, with sixty seconds of its own.
NewDeadline ==
    /\ At("call")
    /\ expired' = FALSE /\ GoOn
    /\ UNCHANGED <<name, dryRun, passed, granted, ungranted, effects>>

Expire ==
    /\ phase = "answering" /\ ~expired
    /\ expired' = TRUE
    /\ UNCHANGED <<phase, name, dryRun, path, passed, granted, ungranted,
                   effects, outcome>>

-----------------------------------------------------------------------------
(* Files                                                                   *)

Saved   == At("save") /\ GoOn /\ Effect("done") /\ NothingElse
Unsaved == At("save") /\ Fail /\ Effect("refused") /\ NothingElse
Torn    == At("save") /\ Fail /\ Effect("unknown") /\ NothingElse

Swapped   == At("swap") /\ GoOn /\ Effect("done") /\ NothingElse
Unswapped == At("swap") /\ Fail /\ Effect("refused") /\ NothingElse

\* A signal, a panic (nothing recovers one): what is under way stays so.
Killed ==
    /\ phase \in {"running", "answering"}
    /\ phase' = "killed"
    /\ IF path # <<>> /\ Now.op \in {"put", "save"}
       THEN Effect("unknown") ELSE UNCHANGED effects
    /\ path' = <<>>
    /\ NothingElse /\ UNCHANGED outcome

-----------------------------------------------------------------------------
Proceed ==
    \/ Finish \/ PassGate \/ Refuse \/ DryRunEnds \/ NoDryRun
    \/ CheckPasses \/ CheckFails \/ LeaveBlock
    \/ WaitRate \/ TooLate \/ NewDeadline
    \/ Answered \/ Unanswered \/ PutDone \/ PutRefused \/ PutLost
    \/ Saved \/ Unsaved \/ Torn \/ Swapped \/ Unswapped

Next ==
    \/ \E c \in DOMAIN Command, d \in BOOLEAN : Execute(c, d)
    \/ \E t \in DOMAIN Tool : CallTool(t)
    \/ \E o \in {"ok", "error"} : AnswerDirectly(o) \/ Hangup(o)
    \/ Expire \/ Killed
    \/ Proceed

\* The process stands at a step that waits for somebody else, and nothing in
\* the code limits the wait.
Held == Working /\ Now.op \in {"check", "get", "put"} /\ Now.of \in Unbounded

\* Go runs a goroutine that can run, and the rate limiter has a next grant.
\* The clients of GitHub, Slack and Notion limit dialing, the handshake and
\* the wait for the header, the other hosts outside Unbounded the whole
\* request; that a body begun comes to an end is assumed.  A user, a browser,
\* another program or an unlimited request gives no such assurance.
Spec == Init /\ [][Next]_vars /\ WF_vars(Proceed /\ ~Held)

-----------------------------------------------------------------------------
(* Properties                                                              *)

\* Nothing is asked of a Google service before EnsureAuth, of a provider
\* before its token is loaded, nor anything done by a command before the
\* allowlist has let it: the order of the gates in every Run method.
GatesFirst ==
    \A e \in effects :
        /\ e.of \in Limited => <<"login", "google">> \in passed
        /\ e.of \in Providers => <<"token", e.of>> \in passed
        /\ name \in DOMAIN Command \ NoAllowlist => <<"allow", "local">> \in passed

\* A preview changes nothing, whatever fails on the way: not a command with
\* --dry-run, whose Run method has no change before its look at the flag (but
\* for those named), and not a workflow asked for through MCP.
PreviewsChangeNothing ==
    (dryRun /\ name \in DOMAIN Command \ IgnoresDryRun) \/ name \in ReadOnlyTools
        => Changes(Outcomes) = {}

\* After an error, a command or tool can be called again as if it had not
\* been called, unless what failed was a change whose answer was lost: but
\* for those named, none has made one of its changes when another step fails.
ErrorMeansNothingChanged ==
    outcome = "error" /\ name \notin PartialWriters => Changes({"done"}) = {}

\* What is reported as done was done: but for those that put failures into
\* their result, or into the log, no change that failed is passed over.
OkMeansDone ==
    outcome = "ok" /\ name \notin ReportsInside => Changes({"refused", "unknown"}) = {}

\* Every call of a Google service has a grant of its own of the rate limiter,
\* taken before it and used once, in every method and in every composition of
\* methods.
RequestsAreGranted == ungranted => name \in MoreRequests

\* The id of a workflow's spreadsheet is remembered only when it has been
\* made and its header written, also when the process dies in between.
RememberedSheetIsReady ==
    (\E e \in effects : e.op = "swap" /\ e.of = "workflow.json" /\ e.outcome = "done")
        => /\ \E e \in effects : e.op = "put" /\ e.outcome = "done"
           /\ \A e \in effects : e.op = "put" => e.outcome = "done"

\* Every command comes to an exit code and every request to an answer, unless
\* the process is killed or stands for ever at one step that waits without
\* limit for somebody else: the rate limiter, the deadline of a tool, a
\* failure and what is done instead never hold it.
EverythingEnds ==
    phase \in {"running", "answering"} ~> (phase \in {"exited", "serving", "killed"} \/ []Held)

\* README.md:562: "--dry-run    Validate without executing".
DocDryRunChangesNothing ==
    dryRun /\ name \in DOMAIN Command => Changes(Outcomes) = {}

=============================================================================
