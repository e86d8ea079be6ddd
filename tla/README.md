# gwx: a verification development

`gwx` is one Go binary with three faces: a command line over Google Workspace
and a few other services, an MCP server that offers the same operations as
tools to a language model, and an engine that runs YAML "skills" made of those
tools.  This directory holds TLA+ models of the parts of it that keep state, of
what their interleavings and failures can do to that state, TLC configurations
that check them, and TLAPS proofs of what matters most.  Paths below are
relative to the repository; `api/` stands for `internal/api/`, and so on.

## 1. Inventory

| part | state it keeps | operations | what is hard about it |
|---|---|---|---|
| Transport (`api/transport.go`, `api/circuitbreaker.go`) | per service: failure count, open flag, time of last failure; per call: two retry counters | `RoundTrip`, `IsOpen`, `RecordSuccess`, `RecordFailure` | many calls share a breaker that each asks once and reports to at its end |
| Cache (`api/cache.go`) | a map and a doubly linked list under one mutex | `Get`, `Set`, `Invalidate`, `InvalidatePrefix` | two structures kept in step by hand; lazy expiry; eviction order |
| Cached services (`api/sheets*.go`, `drive.go`, `calendar.go`, `tasks.go`, `contacts.go`, `chat.go`) | none of their own; the cache, and the remote service | about fifty methods of one shape | lookup, remote call and `Set` are not atomic; methods call cached methods; lost answers |
| Client (`api/client.go`, `ratelimiter.go`) | service objects, HTTP clients, token buckets | `GetOrCreateService`, `WaitRate` | double-checked creation |
| Fan-outs (`api/drive_batch.go`, `sheets_batch.go`, `gmail_read.go`, `workflow/aggregator.go`, the gathering in `mcp/tools.go`) | semaphore, wait group, result channel or array | batch upload, batch append, message listing, `RunParallel` | cancellation while waiting for a slot; closing the channel once; panics |
| Gmail writes (`api/gmail_write.go`) | label cache, singleflight group | archive, mark, modify, send | batches with a fallback and partial counts; invalidation against a fetch |
| Other clients (`analytics`, `bigquery`, `docs`, `forms`, `github`, `notion`, `obsidian`, `searchconsole`, `slack`, `slides`) | none | a grant and a request, or several | two requests of which the second fails; a second page on the grant of the first; files written in place |
| Credential store (`auth/filestore.go`, `flock_*.go`) | `credentials.enc`, its temporary file, its lock file | save, load and delete of tokens, credentials, provider tokens | processes share the file; kills; lock timeouts; a build without locks |
| OAuth login (`auth/oauth.go`) | callback server, two channels | browser, manual and remote login | callbacks after the first; shutdown |
| Configuration (`config/`) | `preferences.json`, workflow configuration, allow list | get, set, delete | read-modify-write, with and without a lock |
| MCP server (`mcp/`) | handler table built once; Notion client for five minutes | `initialize`, `tools/list`, `tools/call`, `ping` | requests one after the other on one login; the deadline of a call |
| Skill engine (`skill/engine.go`, `parser.go`) | a store of outputs, the reports, per goroutine a private store | `Run` | parallel batches, loops, failure modes, panics |
| Skill files (`skill/loader.go`, `cache.go`, `registry.go`, `marketplace.go`) | cached list, provider's list, files | load, reload, install, uninstall | invalidation against a load in progress |
| Workflows (`workflow/`) | the ids of their spreadsheets | `RunParallel`, `Dispatch`, collectors | partial failure; the preview through MCP; spreadsheet, header and remembered id in three steps |
| Command line (`cmd/`) | none | some 150 commands, each with gates of its own | order of allow list, authentication, dry run and changes |
| Output, logging, exit codes, packaging | none | formatting | nothing |

How they meet: a command, an MCP tool handler, a skill's step or a workflow's
fetcher calls a method of a service client; the method waits for the rate
limiter, looks its result up in the client's cache, gets the service object
from the client and sends requests through the transport, whose breaker is
shared by all requests of that service; credentials come from the store.  The
MCP loop is sequential, but batches of a skill, fan-outs and aggregations run
goroutines on one `Client`, and several `gwx` processes share the files.

What makes each part correct, in a line: the breaker's fields agree and it
recovers; the retry loop ends inside its budgets; the cache is an LRU cache; a
read does not return what an acknowledged write made obsolete; no credential is
lost; a skill's parallel steps do not see each other and an abort is final;
each batch item is reported once; a gate comes before what it guards, a preview
changes nothing, an error leaves nothing half done and a success leaves nothing
undone; a request is answered unless it waits for somebody who does not come.

`PROJECT.json` lists the hazards line by line, with the properties that would
catch each one, or the reason none does yet.

## 2. Modules

Two groups.  The first models components with state of their own, step by step:

| module | models | its place |
|---|---|---|
| `CircuitBreaker` | `api/circuitbreaker.go`; time since the last failure stands for its date, saturating at the reset window | state and actions only |
| `RetryTransport` | `RoundTrip` by concurrent callers | extends `CircuitBreaker` |
| `RetryTransportProofs` | theorems about it | |
| `LruCache` | `api/cache.go`, one action per outcome of a method (each holds the mutex throughout) | state and actions only |
| `LruPolicy` | the cache driven by arbitrary calls, with histories of what was set and used | extends `LruCache` |
| `ApiMethods` | the methods of the cached services, one record each: how they use the cache | data |
| `ReadThrough` | callers executing those methods over one cache and remote services | extends `LruCache` |
| `CacheProofs` | theorems about `LruPolicy` and `ReadThrough` | extends both |
| `CredentialMap` | abstract: what `TokenStore` promises | refined by `FileStore` |
| `FileStore` | `filestore.go` and both lock files, one step per system call | |
| `FileStoreProofs` | theorems, among them the refinement | |
| `ConfigFiles` | `preferences.go` and `workflow_config.go`, one step per system call, on inodes | |
| `ConfigFilesProofs` | theorems about it | |
| `SkillEngine` | `Engine.Run` on one skill | |
| `SkillEngineProofs` | theorems about it | |
| `Batch` | abstract: what a fan-out promises | refined by `Fanout` |
| `Fanout` | the five shapes of fan-out | |
| `FanoutProofs` | theorems, among them the refinement | |
| `FreeSlots` | the search loop of `CalendarService.FindSlot` | |
| `FreeSlotsProofs` | theorems about it | |

The second models the whole program as what its code does in which order:

| module | models |
|---|---|
| `Plans` | the vocabulary: steps, sequence, choice, loops, blocks whose failure is not their caller's |
| `ServicePlans` | every method of every service client |
| `WorkflowPlans` | every workflow, as the command line runs it and as the MCP tool does |
| `CommandPlans` | every command's `Run`, from `Preflight` to its last request |
| `ToolPlans` | every registered MCP tool, and two skills served as tools |
| `Program` | what becomes of a plan: gates, failures, lost answers, torn files, a deadline, a kill; the command's exit and the server's loop |
| `PlanRules` | for each property of `Program` the rule of plans behind it, and the inductive invariant: what is ahead keeps the rules |
| `ProgramProofs` | theorems about `Program`, for any plans that keep the rules |
| `MCProgram` | all plans together, and the sets that name what departs from a rule |

`CommandPlans` and `ToolPlans` use `WorkflowPlans`, which uses `ServicePlans`,
which uses `Plans`: where the code calls a method, the plan names the method's
plan.  So a property of `Program` is one of the composition: a command that
forgets a grant, or that fails after its change, does so through the method it
calls.  `MCLruPolicy`, `MCReadThrough`, `MCSkillEngine`, `MCConfigFiles` and
`MCFreeSlots` are small instances for TLC.

Correspondence, beyond the names (the code's wherever TLA+ allows):

* **RetryTransport.** `pc` is the place in `RoundTrip` of each goroutine; every
  `case` of the switch is an action.  A transport error is also how a request
  whose context ends in flight comes back.  Time is discrete; `Tick` moves the
  breaker's window and the backoffs together.  `Retry-After` is a small set.
  (`Cancel` is RoundTrip's own promise: today's callers build Google's requests
  without a context, see `Program`.)
* **LruCache.** `entries` and `eviction` are the map and the list; they are
  separate variables because the code updates them separately.  An entry holds
  the time left instead of its expiry date.
* **ReadThrough.** Each caller has a stack of frames, since methods call
  methods (`DescribeSheet` calls `GetInfo` and `ReadRange`, each with its own
  lookup and `Set`).  Remote state is a version per service, raised by each
  write; data is its version and the time it has spent in caches.  A write may
  be applied and its answer lost (`Fail`).  Keys are abstract: one per method
  and choice of arguments; where the code changes an argument between lookup
  and `Set` the record's `looks` and `fills` differ.
* **FileStore.** A file is a map, `Missing` or `Unreadable`.  Each system call
  may fail, and a process may be killed before each.  `MaxPolls` stands for
  five seconds of attempts every 50 ms; the timeout may come earlier.
* **ConfigFiles.** Content belongs to an inode, names refer to inodes, a writer
  has one open.  Opening truncates; writing over what another has written since
  leaves one text, or a mixture that does not parse.  `preferences.json` is
  written in place without a lock; `workflow.json` under a mutex per process,
  by a temporary file with one name for all, and a rename.  `alone`, `together`,
  `hurt` and `acked` are histories for the properties.
* **SkillEngine.** `work[j]` is the execution of step *j*: its private store,
  the items its loop has left, the pair `runSingleStep` will return.  Rendering
  is whether the keys an argument mentions are in the store.  `Join` is the
  merge after `wg.Wait`, or the end of a sequential step.
* **Fanout.** One goroutine per item.  `kind` tells the shapes apart: where the
  slot is taken (in the goroutine, in the loop, nowhere), where results go
  (channel or array), who waits (a closer, the caller, nobody: `gather` counts
  receives), and whether panics are recovered.  `Deliver` onto a closed channel
  is an outcome of its own, which `Batch` does not allow.
* **FreeSlots.** Moments in half hours from a Monday, UTC; a clock shows the
  moment plus its offset (`zone` is the machine's).  `cursor`, `end`, `slots` are
  the variables of the loop, and each way through its body is an action.  In Go
  the cursor is a moment with a location: `offset` is that of the location, the
  machine's at first and UTC's from the first busy period on (`SkipBusy`), since
  the answer of a request that names no zone is in UTC.
* **Plans.** A path is one way through a function's body when nothing fails;
  `Maybe` is an `if`, `Each` a loop (none, one, two iterations: the third meets
  nothing the second does not).  A step of level 0 is followed by `return err`.
  `Try(a, b)` is a block `a` whose failure is answered by `b`; `Tolerate(a)` one
  whose failure goes into the result or the log.  `Await(x)` is a check whose
  answer somebody else gives: the user, a browser, a program that is run.  The
  path is chosen at the start, although the code decides as it goes; no property
  looks ahead, so which behaviours there are is the same.  `RunParallel`'s fetchers stand one behind
  the other in a plan, because each writes its own slot and keeps its error;
  their interleavings are `Fanout`'s.
* **Program.** `path` is what is ahead; `passed` the gates passed; `granted`
  the limiter's grants not yet used; `effects` what was done, refused, or done
  with its answer lost.  A put that fails is refused or unknown; a file written
  in place may be left torn, one replaced by rename not.  A tool call has sixty
  seconds (`Expire`), a command has no deadline.  Past the deadline the limiter
  refuses and requests of the clients of GitHub, Slack and Notion fail, since
  these are built with the context; Google's are not, and leave anyway
  (`LeavesAnyway`, after `api/calendar.go:326` and its like).  A tool called by
  a step of a skill has sixty seconds of its own (`NewDeadline`).  A `get` or
  `put` is one call of a service's API: the chunks of a resumable upload (a file
  of more than 16 MB, drive.go:178) and what the transport sends again are one
  step, and share its grant.  `Unbounded` names those that are waited for without
  limit, and `Held` is the process standing at a step of theirs.

## 3. What the runs check

Passing runs (the `.cfg` names its bounds and constants):

| run | what it shows | bounds, and why they do |
|---|---|---|
| `retry` | the breaker's flag and counter agree; an open breaker admits nobody; its count is bounded by the callers; calls return, and a rejecting breaker stops rejecting | 3 callers (one trips it, one is in flight, one arrives), threshold 2, one retry of each kind |
| `filestore` | no lost update; the store implements the abstract map; a readable file stays readable; operations return | 2 processes and 2 keys: a save meets a save, a delete or a load of its key or of the other |
| `config` | alone, no acknowledged setting is lost, through failures and kills (workflow.json: also while a Set is under way); a Set with the file to itself is found, whatever earlier ones left | 3 writers, two in one process, 3 Sets, 2 keys: one that leaves a mess, one that overlaps it, one after it |
| `lru_policy` | map and list are one structure; hits are what was last set; the victim is the least recently used | 4 keys, 3 places: a victim with two survivors to compare it with |
| `cache_one_caller` | a call begun after an acknowledged clearing write sees it; no data is older than the TTLs of its chain | seven methods of sheets, drive and tasks, one per shape, over a cache of two entries, so they evict each other; two writes |
| `cache_two_callers` | stale data enters the cache in one way only, the late `Set` of an overlapping read; after the last write every result that can still be returned becomes current | calendar's methods, one cached method inside another, two writes |
| `skill` | isolation of batch mates, merge in the skill's order, abort final, success reports everything but panics; every run ends | a batch of three sharing a key, a loop that skips, a loop that aborts over its output, a batch that overwrites the first one's key |
| `fanout` | every shape answers each item once, before it returns, never sends on the closed channel, never runs more than its slots, and returns | 4 items, 2 slots: two hold, two wait, and a freed slot is taken again; cancellation from the start, at any moment, or never |
| `slots` | what is offered is free and not offered twice; on-the-hour calendars lose no hour that is an office hour by the machine's clock and by UTC's; the search ends | 10,304 initial states: four zones (UTC, −5, +8, +5:30), two moments (a Thursday, a Friday before a weekend), seven durations from minus one to sixteen hours, four horizons, up to two of nine periods: inside another, touching, across the weekend, at half past, of no length |
| `program` | see below | every command with and without `--dry-run`; the server over several requests; each step fails, each answer is lost, a deadline or a kill comes anywhere |

`program` runs no sample but all of `cmd/` and all registered tools.  Its
properties are rules that a reader of the code would expect of everything, and
each has a set in `MCProgram` naming what departs from it.  The sets were found
by the runs and read back in the source: they are results as much as the rules
are, and a command or tool added without its gate, grant or order is found
because it is not among them.

| property | rule | departs |
|---|---|---|
| `GatesFirst` | no Google request before `EnsureAuth`, no provider's before its token, nothing at all done by a command before the allowlist let it | `NoAllowlist`: seven that never ask (`auth login`, `logout`, `import`, `onboard`, `update`, `doctor`, `github logout`) |
| `PreviewsChangeNothing` | `--dry-run`, and a workflow asked for through MCP, change nothing, whatever fails on the way | `IgnoresDryRun`: thirteen that do not look at the flag, or look too late (`onboard`) |
| `ErrorMeansNothingChanged` | after an error nothing is half done, except the failing change itself whose answer was lost | `PartialWriters`: document then content, copy then rename, file truncated before the read, batch then fallback, sheet then header |
| `OkMeansDone` | a change that failed is not passed over in silence | `ReportsInside`: batches and workflows that put failures into their result or the log |
| `RequestsAreGranted` | each Google request has a grant of the limiter of its own | `MoreRequests`: second pages, and writes after a read, on one grant |
| `RememberedSheetIsReady` | a workflow's sheet id is remembered only once the sheet has its header, also through kills | nobody |
| `EverythingEnds` | each command exits, each request is answered: the limiter, a deadline, a failure and what is done instead keep none waiting | who is held for ever at a step of `Unbounded` (see Fairness): the user, the new binary `update` tries, its releases, and Google, by way of the token |

`IInv`, the invariant of the proofs, is checked by the same run.  It says of
the steps ahead what a rule says of a plan, so in the states where a command or
tool has just started it says that its whole plan keeps the rule; and the
assumption on the form of plans is evaluated over all of them.  So the run
shows that gwx's own tables are among those that the theorems speak of.

Runs that TLC refutes, each a statement of the repository's own documents or
comments (`findings` in `PROJECT.json` quotes them):

| run | what the code does instead |
|---|---|
| `skill_DocAbortStops` | a panic in an aborting step lets the skill go on and succeed |
| `program_DocDryRun` | a command with `--dry-run` changes something: `github logout` first of all |

Divergences met while modelling that have no run:

* the breaker opens after eight failures, not the five of README.md:519; the
  success of an earlier call closes it inside the window that the comment at
  circuitbreaker.go:15 promises; 5xx retries wait longer each time (README.md:518
  says fixed);
* an unreadable credential file is never removed (s1_dev_spec.md:672 of the
  headless storage says it is); without the lock (`flock_windows.go`) one of two
  saves is lost: set `UseFlock` to FALSE in `FileStore.cfg` to see it;
* `on_fail: continue` of docs/skill-dsl.md:246 aborts; the result of a loop in
  which nothing succeeded is not a list to the next loop; an aborted batch
  reports the error of its last report, which may have none;
* a listing that overlapped an upload is cached after the upload's
  `InvalidatePrefix` and served until its TTL ends (drive.go:100); the writes of
  tasks clear nothing; the default task list is looked up under one key and
  cached under another (tasks.go:80), so it is never found;
* `ClientOptions` says callers must wait for the limiter before each call
  (client.go:99): `MoreRequests` are those that do not;
* the comment on FindSlot's hours says 9 to 18: a slot may end at 18:30, after
  midnight or after the window, because only the hour of its end is compared;
  and after a period that ends at half past the search keeps the half hours;
* behind the first busy period FindSlot's office hours are those of UTC: the
  request names no zone (calendar.go:319), the answer is in UTC, and the cursor
  takes over its location (calendar.go:363).  In Taipei a free Friday 9:00 is
  then 1:00 and passed over.  `NothingMissed` with the machine's clock alone
  (`Clocks == {zone}`) is refuted by TLC.  In a zone off by half an hour the
  search starts at half past (calendar.go:311 rounds the moment);
* an event is read and written back whole (calendar.go:236): a change made in
  between is lost, no version is compared;
* workflow_config.go:85 calls its write atomic: between processes the temporary
  file is shared, and one may rename what another is still writing;
* `context boost` and `meeting prep` ask for the scope of "contacts", whose key
  is "people".

Every property of a passing run has a seeded fault: a definition next to the
faithful one, changed the way a slip in the code would change it, with which
TLC finds the property violated.  They are marked "Seeded fault" and no
specification uses them.

**Fairness.**  `RetryTransport`: time passes, a runnable goroutine runs, and an
attempt is answered, since the transport's timeouts turn silence into an error;
nobody is obliged to call, probe or cancel.  `ReadThrough`: time passes and a
begun call goes on; nobody is obliged to call again.  `FileStore`: a process
that is running makes its next system call; crashes and calls are not obliged.
`SkillEngine`: goroutines are scheduled and a tool call ends.  `Fanout`: the
caller, the closer and each goroutine run when they can, and an item's work
ends; nobody is obliged to cancel.  `FreeSlots`: the loop goes on.  `Program`:
the next step of the path is taken and ends, unless the process is `Held`.  What
is waited for without limit is named by `Unbounded`, and no fairness is assumed
of it: the user at standard input or in the browser (oauth.go:181, 252 and 307,
workflow/executor.go:65, cmd/input.go:27, `onboard`, `auth import`, `obsidian`),
the releases and the new binary of `update` (update.go:133, 170 and 189), and
every request to Google, because oauth2 may ask for a new token in it with Go's
default client, which has no limit on the answer (oauth.go:370, root.go:196).
The requests to GitHub, Slack and Notion go through `NewBaseTransport`, which
limits dialing, the handshake and the wait for the header; `doctor` and the
skills' marketplace limit the whole request.  That a body once begun comes to an
end is an assumption about the network, and so is, in `RetryTransport`, that a
token asked for inside an attempt comes.
No command is obliged to start, no request to come, no deadline to pass.  All
weak: no step in question is disabled and enabled again by others for ever,
except taking the lock of the store, where the deadline is what makes an
operation return, and a slot of a fan-out, where any waiting goroutine makes
progress and there are finitely many.

## 4. What is proved

For every value of the constants, with the assumptions named in the modules:

* **`RetryTransportProofs`.** `TypeCorrect`, `BreakerAlwaysConsistent`,
  `TailIsDead`, `OpenAdmits`, `FailuresAlwaysBounded`.  `TypeOK` alone does not
  say why the loop cannot run out: the inductive invariant adds that the loop
  variable is the sum of the two retry counters (one more in a backoff not yet
  ended), each of which its guard bounds.  For the failure count it adds that a
  running call is counted once, so an increment is paid for by a return.
* **`FileStoreProofs`.** `LockExcludes`, `WritersSnapshotFresh`,
  `NoUpdateIsLost`, `FileStaysReadable`, `TypeCorrect`, and `Refinement`: the
  store with its lock implements `CredentialMap`.  The invariant says who may be
  past the lock (only the holder), hence that what a writer loaded is still in
  place and that the temporary file is its own; the rename is then exactly the
  abstract `Commit`.  The assumption `UseFlock` is a hypothesis of the theorems:
  without it they are false.
* **`CacheProofs`**, first part: the cache by itself.  `AlwaysCoherent`,
  `AlwaysHitsLastSet`, `OnlyLeastRecentlyUsedIsEvicted`, of `LruPolicy`.  The
  invariant adds that the list is in the order of use: what stands before an
  element was used after it, so the last element is the one to evict.
  Everything rests on two lemmas about `Unlinked`, which says by rank which
  element comes where once some are taken out: it keeps the order of the rest,
  and its keys are those that stay.  What these say of each method of the
  cache (the list stays a list of the map's keys, without repetition and no
  longer than the size) is used for both specifications: `CacheTypeCorrect` and
  `CoherentUnderCalls` are of `ReadThrough`, where the calls interleave.
* **`CacheProofs`**, second part: the cache under the calls of the services.
  `StaleEntersLate`: by cases over the steps, each is
  one of four kinds (lookups and time only remove entries; a `Set` changes one
  key; a clearing write removes everything it outdates; nothing), and only the
  second can make a result stale.  `AgeAlwaysBounded`: no result is older than
  the TTLs of its chain.  The invariant follows data through the frames: a frame
  is what the one below it is calling, it holds data no older than its inner
  methods may return, and an entry is no older when it is set.
  `SingleCallerSeesClearedWrites` has the hypothesis `OneCaller`, without which
  it is false; with it, nothing in the cache is ever stale and a method whose
  result will be cached holds nothing stale.  `MethodsAssumption` is what these
  need of the table of methods, and `ChainAssumption` that none is built on
  itself, so that the recursive function `ChainTtl` exists: TLC evaluates both
  on the methods of `ApiMethods`.
* **`FanoutProofs`.** `AlwaysWithinSlots`, `ChannelHasRoom`, `TypeCorrect`, and
  `Refinement`: each of the five shapes implements `Batch`, its fairness apart.
  The invariant counts goroutines: the slots in use are those that hold one,
  the wait group those that were started and are not gone.  So the closer or
  caller that waits for zero comes after the last answer; and an item was
  answered, once, when its goroutine is past its work.
* **`ConfigFilesProofs`.** `NothingAcknowledgedIsLost`, `AcknowledgedIsFound`.
  The invariant says, of the two ways of writing, who may touch the inode that
  a name refers to.  A Set that is alone opens an inode no other writer has
  open, or is the last to have cut it to nothing; what it writes is what it
  loaded with its own key changed; and while no two Sets ran together and none was
  interrupted in its write, what was acknowledged is what a reader finds, for
  `workflow.json` at every step and for `preferences.json` outside a write.
  That a new file finds a free inode is shown by counting names and writers.
* **`FreeSlotsProofs`.** `OfferedSlotsAreFree`, `EveryStepAdvances`,
  `NoHourIsMissed`.  For the first it is enough that the cursor is never before
  the end of the last slot.  For the last, with busy periods on the hour, the
  invariant says that no free hour that fits by both clocks (by the machine's
  alone while nothing is busy) lies before the cursor uncovered: each jump of the cursor (to the
  end of a period, to the next morning, past a weekend) is shown to pass none,
  with the clock's arithmetic in lemmas of its own.
* **`SkillEngineProofs`.** `BatchesAreIsolated`, `AbortIsTheLast`,
  `SuccessIsComplete`, `MergesInOrder`, `TypeCorrect`.  The invariant says that
  the run is at one batch, all before it joined and none after it begun, what
  each goroutine's record has to do with the step it runs and with what
  `runSingleStep` will return, and what the reports say of the batches joined.
  `AllReports` and `MergedUpTo` are recursive functions; that they exist, and
  unfold, is shown by the least number up to which they would not.
* **`ProgramProofs`.** `GatesComeFirst`, `PreviewsAreHarmless`,
  `ReportsAreTrue`, `ErrorsLeaveNothing`, `RememberedSheetsAreReady`,
  `EveryRequestHasAGrant`: each property of `program` but the last, for any
  plans that keep its rule; `TypeCorrect`, for any plans that
  are nested sequences of steps; `RulesStayKept`, for plans that keep all six.
  A property speaks of a run, with its failures, and a rule of a text, of a path when nothing fails, and the theorems say that
  to look at the text is enough.  The rules, in `PlanRules`:
  - `GatesRule`: the gates that a step, or what is done in its place, needs
    are in front of it, outside every block (in a block a gate may be refused
    and passed over);
  - `PreviewRule`: so is the look at `--dry-run`, in front of each change, and a
    read-only tool has no change, not even one made in the place of another step;
  - `ReportRule`: changes are outside every block;
  - `PartialRule`: behind a change nothing can end in an error (a wait of a
    command cannot: without a deadline the limiter does not refuse);
  - `SheetRule`: the id of a spreadsheet is remembered behind all puts, of which
    none is in a block;
  - `GrantsRule`: waits are at least as many as requests up to each request;
    from each step of a block to the block's end there are no more waits than
    requests, so that leaving it early misses no grant; what is done instead of
    a block waits for itself.

  The sets of `MCProgram` are the exceptions of the rules too.  The
  argument is one for all: what is ahead after a step, or where a failure leads,
  is made of what was ahead before, in the same order, or was among
  the steps done instead, and of the steps outside blocks only the first is
  gone (`FailureGoesOnward`).  This needs blocks to be nested, also behind what
  is done instead of one (`PlansAssumption`, which TLC evaluates on all plans).
  For the grants it is not enough that the order is kept: lemmas about `Count`
  say how waits and requests divide over a path cut in two, and
  `FailureIsCovered` that the grants left behind in a block are made up for.

The assumptions, all evaluated by TLC on the instances: numbers of retries,
slots, places and polls are naturals (at least one where the code clamps
them); sets of keys and writers are finite, and `ConfigFiles` has a key;
moments, offsets, durations and periods are whole numbers; a skill has a step, each
step has the fields the parser gives it, and a loop is not in a parallel batch;
values that stand for "nothing" are not values; plans are sequences of steps
whose blocks are nested, and what is done instead of a block has no other
instead.

Theorems without a run of their own property: `TailIsDead` (the code behind the
loop is not reached); `LockExcludes` and `WritersSnapshotFresh`, on which
`NoUpdateIsLost` rests; `Refinement` of `FanoutProofs`, which is the safety part
of `KeepsPromise`; `ChannelHasRoom` (no goroutine of a fan-out waits to send);
`EveryStepAdvances` (the search's variant, and the fact behind `SearchEnds`); the
types of `Fanout` and `SkillEngine`; `CoherentUnderCalls` and the `TypeCorrect` of
`Program`, which are parts of what a run checks (`TypeOK` of `ReadThrough`,
`IInv`).

Only model-checked:

* every liveness property, and the fairness in `Batch`'s specification with
  them: `ENABLED` is out of the prover's reach;
* that the plans of gwx keep the rules: a plan is data, some hundreds of paths,
  which TLC enumerates and a prover would have to be told one by one.

Every safety invariant and every action property that a run checks is stated
by a theorem.

## 5. Plan

The components with logic of their own are modelled, and every safety property
that a passing run checks is proved for all values of the constants.  What
could come next:

1. The label cache of Gmail and the cached list of skills, should the code
   begin to keep them for longer than one call.
2. The rest of the OAuth login: its two channels and the shutdown of its
   server, of which a plan sees one step.
3. Rules for what no plan keeps in mind today: a version compared before an
   event is written back, a cache cleared by the writes of tasks.

## 6. Not modelled

* The conversions between service answers and results, message building,
  templates and output: text.  With them the panics on answers nobody expects:
  a BigQuery answer without a schema (bigquery.go:63) or an empty document
  (docs.go:150) panic, and nothing in the MCP server recovers; `Killed` covers
  the process that dies of it, not the cause.
* The goroutines that `RunStandup` starts inside a fetcher (standup.go:95):
  `RunParallel` recovers the fetcher's panics, not theirs.  Their requests are in
  the plan.
* Daylight saving: `FreeSlots`' zones do not change within the window.
* Rates: a grant of the limiter comes or is refused; how long it takes is not
  told.  The 64-bit product of a `Retry-After` (transport.go:119).
* The label cache and the cached list of skills: the first lives as long as one
  call, the second is not used.
* OAuth's callback server and its channels (a step of the plans), the keyring,
  which is the operating system's, and encryption, a file being readable or not.
* `RunParallelSchedule` chooses each attendee's first slot independently of the
  others' (parallel_schedule.go:85): what a good choice is, no document says.
* Skills in general: two of those in `skills/` are tools of `Program`, any skill
  of the engine's shapes is `SkillEngine`'s; one that calls itself has no plan.
* Packaging and installers.

`PROJECT.json` gives the reason for each part.

## Running

    tlc -workers 2 -config RetryTransport.cfg RetryTransport.tla
    tlc -workers 2 -config Program.cfg MCProgram.tla
    tlapm RetryTransportProofs.tla
    tlapm SkillEngineProofs.tla
    tlapm CacheProofs.tla
    tlapm ProgramProofs.tla
