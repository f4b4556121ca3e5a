# Formal model of the profit decision engine

TLA+ modules, TLC configurations and TLAPS proofs for the program under `src`. It
imports a weekly spreadsheet of products, decides by fixed rules what should be
done with each SPU, keeps one *stable action task* per SPU over the weeks, and
leads each suggestion through the supervisor's review, the operator's execution,
the result and the completion of a clearance. There are two implementations: the
product (a Go backend, `src/backend`, with the web client `src/web`) and an earlier
prototype of a narrower scope (a Python backend with its own frontend, in the
directory with the Chinese name, here `proto/`). Paths of the Go backend below are
relative to `src/backend/internal`.

## 1. Inventory

### Components, their state and operations

| component | state | operations |
|---|---|---|
| batch import (`batch/service.go`) | `import_batch`, source file, `job` | `Create` (idempotent by fingerprint under an advisory lock), list, detail |
| worker (`batch/processor.go`, `cmd/worker`) | `job` with lease, `action_list`, decisions, tasks | `claim`, `process` (parse, rules, link to task, publish), `markFailed` |
| decision rules (`batch/rules.go`) | none | `decide`: a pure function of a row and a date |
| weekly link (`linkDecisionToTask`) | `spu_action_task`, `action_revision`, `decision_task_link` | new task, same-action continuation, action change |
| task commands (`action/commands.go`, `lifecycle_commands.go`) | the same rows, `business_event`, `clearance_completion`, result records | `Review`, `Override`, `Terminate`, `Execute`, `RecordResult`, `SubmitClearance`, `ReviewClearance` |
| OA notifications (`action/oa_commands.go`, `oa/client.go`) | `oa_notification` | `SendOA`, `RetryOA`, `RunClearanceReminders` |
| AI explanations (`explanation`, `RetryAI`) | `ai_explanation` versions | `RunOne` (read, ask the gateway, record), `RetryAI` |
| web client (`src/web`) | the query cache of each page, its commands under way | suggestion page (read, review, override, terminate, execute, ...), lists, batches, history |
| identity (`identity`) | users, sessions | login, session check, revoke |
| queries, history, audit (`action/service.go`, `history.go`, `audit.go`) | none (projections) | list, detail, state at a link |
| prototype API (`proto/backend/app/api.py`, `security.py`) | decisions with a review, *lanes* (action items of operator and buyer), events, sessions with a request token | `review_decision`, `complete_action`, `create_batch`, reads by role |
| prototype worker (`proto/backend/app/worker.py`, `services/imports.py`) | `jobs` with attempts, batches, source files on disk | claim, `process_import`, retry, removal of the file |
| prototype frontend (`proto/frontend`) | per tab: identity, query cache, dialogs, requests | sign-in and out, suggestion page, import, batch page that polls, lists |
| HTTP wiring, configuration, backup scripts, document builders | none | see PROJECT.json |

### How they interact

The API and the worker never call one another; they share the database. An upload
inserts a batch and a job; the worker claims the oldest job under a lease, parses
the file outside any transaction, and writes the list, the decisions and the
tasks' links in one transaction. Every command on a task is one transaction that
locks the task row (`SELECT ... FOR UPDATE`), compares the version the caller
read, changes the rows and writes one business event with an idempotency key. An
OA delivery is three steps: commit the row as `pending`, call DingTalk, record the
outcome in a second transaction. The pages keep what they read last and send its
versions back; answers replace what is shown in the order they arrive. Who may see a
link is the operator of its week's file, who may work on the task the operator its first
file named.

The prototype guards its updates by conditional statements (`WHERE state = ... AND
version = ...`) without row locks that last; its jobs, unlike those of the Go
worker, count their attempts, and its tabs share the session cookie of the browser
while each keeps the identity it once loaded.

### What is hard here

- **Order of commands on a task.** Weekly decisions, reviews of several links,
  overrides, terminations and executions come in any order. The same rule (the
  loss pairing, the state of the inventory track, which revision is in force) is
  implemented by hand in five handlers.
- **Optimistic versions.** Four counters (the review versions of the task and of
  the link, `business_version`, `inventory_version`) fence commands that were
  decided on an older page, and the page has to send the right one.
- **Stale pages.** A late read may replace the newer answer of a command; a session
  may be replaced under the tabs by another role's; a poll only repeats what was
  once answered.
- **Leases.** A lease is never renewed: a slow worker and its successor may process
  the same batch, and only unique keys keep them apart.
- **Crashes and lost answers.** A worker may stop between two steps; a commit may
  succeed while its answer is lost; `markFailed` may fail as well. The prototype
  retries imports whose file the first attempt removed, and fails a batch whose
  publication was not acknowledged.
- **Row locks.** Workers lock the tasks of their files in file order; two files
  with opposite orders deadlock in the database.
- **Delivery to a service outside.** DingTalk may accept a message whose answer
  never arrives.

`PROJECT.json` lists each hazard at its line with the properties that would catch
it going wrong, or the reason why none does yet.

### What makes each component correct

- *Tasks*: at most one revision in force, which is what the task row says; the
  restock ban goes with clearance and stop-loss, on every path; nothing is worked
  on before its review; work is done once per authorisation; a decision is final;
  any change of the row moves a version a stale caller would notice.
- *Suggestion pages*: a report of work that is accepted is about the action its sender
  saw, however late it arrives; an up-to-date page offers what the server accepts.
- *Batches*: a list and a stable task are written once; `ready` means complete,
  `failed` means nothing was published; an import is seen as one step, and is decided
  once while it keeps its lease; workers never all wait; each upload is decided.
- *AI*: only the latest version of an explanation is ever being generated; the history
  tells each outcome once, and it is the one the page shows; a late answer never
  overwrites a decided version; every version is decided.
- *OA*: one reminder per person, task and day; never two deliveries of one
  reminder at a time; `sent` is never made up; `pending` is in somebody's hands.
- *Prototype*: the trace explains the state of review and lanes; a page is complete
  for the role it is shown to; what was shown as published keeps its rows; a page that
  follows a batch shows its outcome in the end.

## 2. Modules

| module | what it is |
|---|---|
| `WorkTrack` | abstract: one track (business or inventory) of a task, or one lane of the prototype: work is done once per authorisation |
| `AtomicImport` | abstract: an uploaded file is published whole or fails, in one step, and a file that one worker at a time has is decided once |
| `AnsweredOnce` | abstract: questions that are asked in turn and answered once, in the history from the same moment on |
| `Errand` | abstract: a message that one process at a time carries to somebody who may not answer |
| `DecisionRules` | the fixed rules as operators: product type, main action, inventory action, whether a task is created; what the documents ask of them |
| `ActionTask` | one stable task with all its rows and every command on it; implements `WorkTrack` twice |
| `ActionTaskSafety` | theorems about `DecisionRules` and `ActionTask`: the rules, lemmas on helpers, types, safety invariants |
| `ActionTaskSteps` | theorems about its steps: the refinement of `WorkTrack`, weeks, versions, final decisions, revisions |
| `SuggestionPages`, `SuggestionPagesProofs` | composes `ActionTask` with the pages of the web client that send its commands; theorems |
| `BatchPipeline`, `BatchPipelineProofs` | uploads, jobs, leases, the worker's transaction with its locks; implements `AtomicImport`; theorems |
| `OaDelivery`, `OaDeliveryProofs` | the notifications of one task and the processes that deliver them; its reminders implement `Errand`; theorems |
| `AiExplanation`, `AiExplanationProofs` | the versions of an explanation, the requests for another and the workers that have them written; implements `AnsweredOnce`; theorems |
| `PrototypeDecisions`, `PrototypeDecisionsProofs` | one suggestion of the prototype, its session, its tabs; its lanes implement `WorkTrack`; theorems |
| `PrototypeBatches`, `PrototypeBatchesProofs` | the prototype's imports, its worker, and a tab that uploads and follows them; implements `AtomicImport`; theorems |
| `MC_...` | small instances for TLC |

In every module a definition that starts with the comment "Variant of" is a plausible
mistake in the definition below it; it is used nowhere, and putting it in the place
of the original violates the property that is about it.

### DecisionRules

Pure operators without state, one per function of `batch/rules.go`, on what a row
knows: a column that may be missing is a set of at most one number, and rates, sales
and days of stock are integers fine enough to have a value on either side of every
threshold. `TwoMonthsLater` is `time.AddDate(0, 2, 0)`, which runs over into the next
month where the day does not exist. The cutoff date is read as midnight UTC and the
launch in the time zone of Shanghai, so that the two compare as dates do, unless the
launch carries a time of day after 08:00 (`late`): then the product is new for one
more day. `Warrants` and `Rank` are not the code's: they are the conditions and the
order of priority of the requirements (AC-F03-03, AC-F03-04), each by itself, which
the code's chain of early returns is compared with (`FollowsPriority`).
`EvidenceOnlyAdds` compares two rows, `LaunchOrderKept` two products. `MC_ActionTask`
evaluates all of them on rows at the thresholds and dates at the ends of months
(`RulesChecked`), and takes the suggestions of its instance from `Decide`.

### ActionTask

`ActionTask` takes the outcomes of the rules that create a task (`RuleOutcomes`) as its
suggestions.
`task` is the row of `spu_action_task` (current actions, review status and three
versions, the two track states, whether `business_executed_at` is set), `revs` the
`action_revision` rows, `links` the `decision_task_link` rows, `completions` the
statuses of the clearance completions by submission, `events` the number of
`business_event` rows of each type (a `suggestion_linked` row is counted by the
relation of its link, a `suggestion_review` row by the state it leads to). `StartTask`, `ContinueTask` and `ChangeTask`
are the three branches of `linkDecisionToTask`; the other actions carry the name of
the handler (`Approve` and `Reject` are `Review`, `ExecuteBusiness` and
`ExecuteInventory` are `Execute`). What a handler checks before it changes anything has
a name of its own (`Overridable`, `Terminable`, `BusinessExecutable`, ...), so that other
modules can say what the server would accept.

A command locks the task row for its whole transaction, so it is one action. What
the caller sends (link, choice, version) is quantified over; the code's comparisons
are guards. A refused command rolls back and is the action not being enabled. A
request with a known idempotency key only reads, so it stutters. `created_at` and
`linked_at` are the start of a transaction, which says nothing of the order in which the
row lock lets the transactions go on: wherever the code takes the newest row by such a
column, any row it could be is taken (`ContinuedRevisions`, `PreviousLinks`). Left out:
who may call (`SuggestionPages` has these checks), notes and reasons, audit rows, the contents of result
records, the columns that copy the state at the time of a link, and `RetryAI`,
which is in `AiExplanation`.

`Grants` (approvals and overrides), the number of execution events and the phase
of a track are the refinement mapping to `WorkTrack`.

### SuggestionPages

`SuggestionDetailPage.tsx` over the task. `owner` is the operator whom the file of each
link names: who of the operators may see the link (`MaySee`). The task belongs to the
operator of its first link for good (`Responsible`), and only he may report work
(`MayCommand`). Per tab: `user`, who is signed in, `url` (the link in the address),
`shown` (the detail in the query cache), `reading` (the answer of a read on its way), and
a command's way through `sent`, `answering` (it is committed, its answer not read yet)
and `answer`. `Detail` is what `Service.Get` returns of a link; note that it mixes the
link's own review with the task's tracks. `get` is several queries outside a transaction;
the one that matters here is the last one, of the completion, which may see more than
those before it (`ReadCompletion`, `AnswerCompletion`). `Offered` is what the panels of
the page render, `VersionFor` and `LinkFor` what each button sends, `AnsweredLinks` the
link the server may answer with: a command on the task answers with a link of the *last
week*, whichever the page was about, and with an error if its sender does not see that
link, although the command took effect. `Handler` is the command of `ActionTask`; in
`Commit` it happens, and `AnswerRead` and `CommandAnswered` may come after any number of
other steps. `Next` of `ActionTask` is everyone else. `Accepts` collects the guards of the
handlers: what the server would accept now. Two things are not in the program and only
tell what happened: the number of approvals that dates a detail, and `seen`, what the
page showed when the command was given, for `AcceptedAsShown`. Every step of the
composition is a step of `ActionTask` or leaves the task alone (`PagesImplementTask`).

### BatchPipeline

`batch`, `job`, `leased` (jobs whose lease has not run out) and `queue` are the rows;
`lists` and `tasks` count committed rows, so that a second one would show. A
worker's `pc` follows `RunOne`: claim, parse, then one transaction statement by
statement. `HoldsList` and `HoldsTask` are the uncommitted unique keys and row locks
of an open transaction, `WaitsFor` the waiting they cause; `DeadlockVictim` is
PostgreSQL ending one transaction of a circle. `Crash`, `Error` and
`CommitUnacknowledged` are the faults. `Steady` are the batches whose lease never runs
out under a worker and whose commits are answered: what the documents promise of an
outcome can only be asked of them. What a link does to a task that exists is
in `ActionTask`; here a task is a row that is there or not. The column `attempts`
of `job` is written and never read, so it is not modelled: there is no retry
limit. A second upload of a known fingerprint only reads.

For `AtomicImport`, a batch is `absent`, `open` (received or validating), `published` or
`failed`, its content is the set of SPUs of its file, and the files that are decided
once are the `Steady` ones; the leases, locks, rows and faults are not seen.

### OaDelivery

One task. `notes` is the status by unique key (day, recipient, template). `pc`, `key`
and `outcome` are the local state of workers and requests between the steps of a
delivery; `sends` and `accepted` are what happened at DingTalk. Whether the task
still wants a reminder and whom the operator's name stands for may change at any
time and is read once by a scan, so any answer of the scan (`Candidates`) is allowed.
`Crash` also stands for a failing second transaction.

For `Errand`, the phase of a reminder joins its row with what the process that carries it
has got: `pending` is `due` before the call, `taken` or `unanswered` after it, and
`dropped` when no process carries it any more; what is handed over and accepted are
`sends` and `accepted`.

### AiExplanation

`versions` holds the `ai_explanation` rows of each decision, `at` being
`created_at`, which is one time for all rows of a transaction; `events` the
`ai_explanation_completed` rows with the outcome they tell, `requests` the
`ai_retry_requested` ones. A worker takes up an explanation only when no batch
waits (`NoImport`), reads the oldest one *without claiming it* (`Read`), and asks the
gateway outside any transaction; `Record` is the transaction that writes the answer
and the event. `RetryAI` locks the link, and the event of an answer references the
link, so that the two transactions wait for one another and each is one action.
`Lose` is a worker stopped during the call or a database that refuses the answer:
the row stays as it is and is read again. `Import` stands for all of `BatchPipeline`
and may fail. A decision of `Migrated` was made before there were explanations, so
that its first one comes from `RetryAI`. The four outcomes are what `RunOne` may
write; texts, rejected fragments and the audit row are left out, as are role checks. A request with a
known idempotency key only reads.

For `AnsweredOnce`, a question is a version of a decision, those before it are its earlier
versions, and the history is told of the decisions that belong to a task.

### PrototypeDecisions

`review` and `lanes` are the states and versions of the decision and its action
items, `trace` the events; `ReviewDecision` and `CompleteAction` are the two
conditional updates of `api.py`. `session` is the live session of the browser's
cookies; a tab has its `page`, the identity it loaded (`auth`, with the request
token that `security.py` compares), what its cache holds (`shown`, `timeline`), the
open dialog (`modal`) and its request (`sent`), which carries the *cookie of the
browser* and the *token of the tab*. `Landing` is the shell's and the login page's
redirections. `ReadDecision` reads the row and the lanes in two queries, between which
a review may be committed. The cache key has no role in it, so a tab may show what
it read under another identity, and a trace read in one session over a decision read in
another. `TimelineTab` is what the page does with them: it compares the action of an
event with the actions in the cached decision, and a buyer's decision has no main action
(`MainAction`), as an event of the review has none. `PageIsComplete` asks that a page read
under the identity it shows has its cards filled, but for the card of the review that a
buyer gets blank, and that each event the reader of the decision may see is in one tab of
the timeline. For `WorkTrack` the grant of a lane is the approval in
the trace and the run its `action_executed` event.

### PrototypeBatches

`order`, `batch`, `spool` and `job` are the rows and the files on disk, `work` the
steps of each worker; `process_import` is `Begin` (its first commit), `Import` or
`ImportFails` (the transaction), `NoteFailure` (its `except`, which fails the batch
whatever the batch says by then), and `Unlink` (its `finally`, which removes the file
whatever happened). `JobDone` and `JobError` are the worker's notes about the job. Each
commit of the worker may fail, or take effect and raise: after `Import` the batch is
published and the worker goes on to `NoteFailure`. `disowned` is not in the program; it
remembers the published batches that were failed in this way. The tab has its page, the
import form, the upload the page waits for (one of a page that was left may still be
answered, `LateAnswer`), a list's pager with its page size, and what a read of a batch
has seen so far (`reading`, the batch, then its rows at the answer). `Poll` is the page
asking again. Only the number of rows of a list is kept. For `AtomicImport` a file is
published when its list is there, whatever the batch says of it, and has failed as soon as
no attempt can write a list any more (`Dead`, in the module of proofs); there are no stable
tasks here.

## 3. Runs

| run | question | bounds |
|---|---|---|
| `action_task` | do the rows of a task stay consistent under every order of commands, and does each track implement `WorkTrack`? | 2 weeks, 3 links, versions up to 4, 2 completions; a loss and a neutral suggestion; overrides that add and drop the inventory track |
| `suggestion_pages` | is an accepted report about what its sender saw (`AcceptedAsShown`), and is what an up-to-date page offers accepted? | 1 tab, 2 operators, 1 week, 2 links, versions up to 3, 1 completion; a loss; one override |
| `batch_pair` | two workers, expiring leases, every fault: written once, complete, atomic (`ImportsAreAtomic`), decided | 3 uploads, one steady, one with the same SPUs in the opposite order, one unreadable; 2 faults |
| `oa_delivery` | reminders, retries and messages by hand: once a day, nothing made up, each an errand (`RemindersAreErrands`) | 2 workers, 2 requests, one user and an unclear recipient, 2 days, 2 calls, 1 fault |
| `ai_explanation` | two workers asking for the same explanation, requests, lost answers: in turn, answered once (`ExplanationsAnsweredOnce`), decided | 2 workers, one batch of a decision with a task and one without, one earlier decision, 2 versions each, 2 outcomes, 2 lost answers |
| `prototype_decisions` | do rows, trace and tabs stay consistent when the session changes under a tab? | 1 tab, 2 sign-ins, suggestions of one and of both owners |
| `prototype_batches` | are outcomes final and shown whole, and does a page that polls come to rest? | 2 files, one of them the tab's, 1 worker, files of 0 or 2 rows, pages of 1 or 2 rows, 2 attempts, one filter |
| `approved_work`, `work_revision`, `lost_commit_answer`, `reminder_left_pending`, `terminated_override` | the five divergences of section 5 | the smallest bounds that show each |

Why the bounds are enough. Three links are the first one, a pending change and a
continuation, so that two reviews of one revision and a review out of order both
occur, and two weeks let the second or third arrive late; version 4 lets every pair
of task-changing commands follow any other, with an override in between; two
completions are one returned and one confirmed. A page needs one read, one change by
somebody else and one command, so that two links (an answer may move the page from one
to the other) and versions up to 3 are enough for each way a detail can be outdated;
a second tab adds nothing that `Next`, acting as everyone else, does not do. Two operators
are the one of the task and another; nothing tells them apart but their names, so that
symmetry over them is sound (the run checks no liveness). With one suggestion the actions
differ by the override, after which the second link of the same week is a change.
Two files with two SPUs in opposite orders are the smallest circle of waiting; two
faults hit a batch and its successor, or one batch twice. For one notification
key two workers and two requests produce each pair of concurrent deliveries;
symmetry over workers and over requests is sound because no property, and no
definition, tells them apart (that run checks no liveness). Two workers and two
different outcomes are what one version needs for two contradictory answers; a second
version lets a late answer meet a request. Two sign-ins are a session and the one that
replaces it, in any pair of roles. Two attempts are one that is repeated and one
that is not; two rows on pages of one row are a list with a second page; a second
file of somebody else is what moves rows and batches under the tab. `MaxVersion`,
`MaxLinks`, `MaxCompletions`, `MaxFaults`, `MaxDay`, `MaxCalls`, `MaxVersions`,
`MaxLost` and `MaxLogins` bound the state space and correspond to nothing in the code;
`MaxAttempts` (3), `PageSize` (20) and `Sizes` (20, 50, 100) are the code's. The bounded Go systems really
stop, when the bounds are reached or every batch is decided, so deadlock is not
checked there. The two prototype runs check it.

Fairness. `BatchPipeline` assumes weak fairness of each worker's step (the loop of
`cmd/worker/main.go` never ends and a restarted process goes on) and of a lease
running out (time passes). It assumes nothing about uploads or faults; faults are
bounded, so that a batch is eventually left in peace. A worker waiting for a lock
is not enabled, so weak fairness suffices: the holder moves, or the database ends
the circle. `OaDelivery` assumes that a begun delivery goes on. `AiExplanation`
assumes weak fairness of each worker's step: the loop goes on, and the timeout of the
HTTP client (45 s) ends every call of the gateway. Uploads are finite there: imports
come first in the loop, so that uploads without end would keep every explanation
waiting. `PrototypeBatches` assumes weak fairness of each worker's step and of `Poll`
(`refetchInterval` of 1.5 s while the batch that is shown is not finished), and strong
fairness of `ReadAnswered`: reads may fail any number of times, but not all of them.
Nothing is assumed of the user. `PageSettles` excuses three cases the code does not
recover from: a page whose first read failed (it has nothing to poll), a batch whose
worker was killed (its job stays in processing for ever), and a batch that was failed
after it had been published (a page that saw it published stops asking and says so for
ever).

## 4. Proofs

Each proof is for every value of the constants within the named assumptions of its
module, which TLC evaluates in the runs.

An invariant of the runs is seldom inductive. What is added to it, and why:

- **The rules** (first section of `ActionTaskSafety`), from no assumption: the decisions
  that create a task are `RuleOutcomes` and all of it is reached
  (`DecisionsAreOutcomes`, `OutcomesAreDecided`), so that `SuggestionsAssumption` is
  exactly what the rules justify; the chain of early returns keeps the first of the
  documented conditions that hold (`RulesFollowPriority`); a column filled in later
  withdraws no action that created a task (`EvidenceOnlyAddsHolds`: only "maintain" can
  give way, when the returns become known); and the later of two launches is new for as
  long unless the earlier is one of the last days of July or December
  (`LaunchOrderKeptHolds`). The proof of the last found what the first TLC instance did
  not contain: 31 December with a time of day against 3 January.
- **`ActionTaskSafety`**, from `CutoffsAssumption`, `SuggestionsAssumption`,
  `OverridesAssumption` and `BoundsAssumption`. `IInv == TypeOK /\ RevisionsInv /\
  RowInv`. `RevisionsInv` joins `OneActiveRevision`, `ActiveIsCurrent` and `LossPairing`,
  which need one another: an approval brings into force a revision that a link made
  weeks ago, so that it has to be well formed (`LossPairing` speaks of every revision,
  not only of the active one), the one before has to be retired on every path, and a
  continuation may create an active revision only where none is open. `RowInv` joins
  what ties the columns of the task row to one another and to the counts of the events
  (`DerivedColumnsAgree`, `ReviewGatesWork`, `HistoryExplainsVersions`); it adds
  `EmptyHistory`, since a task that does not exist yet must not have events when its
  first link creates it. `ReviewGatesWork` is what remains of the documented review,
  where `WorkIsApproved` fails (section 5): done work *was* approved, and open work was
  approved or was opened by an override of a rejected link. Each of these is a theorem, and `TypeOK` too. The lemmas
  about the helpers (`Retire`, the sequences of revisions and links) are stated once
  and used by the other modules about tasks.
- **`ActionTaskSteps`** proves what a step may do: both instances of `WorkTrack` are
  implemented (`TracksAreImplemented`: the initial state and each command maps to a
  step of the track or a stutter), so that work is done once per grant; weekly links
  chain; decisions are final; a change of what a caller may have read moves a version;
  completions are decided in turn. `OwnRevisionsSuffice` bounds the second divergence of
  section 5: as long as no weekly decision has shared a revision and no override has
  retired one, approved work has its revision in force. Its invariant (`OwnRevisions`)
  is that the links then have their revisions one by one, and that the revision of a
  link still to be reviewed still waits.
- **`SuggestionPagesProofs`**. The invariant says what is true of the actions a tab goes by
  *from the moment they were read* (`Held`), whether they are on a page, in an answer or
  behind a command under way, and that commands are about links that exist (`Asked`). It is
  kept because every command either counts an approval or moves the version of the track
  whose action it changes (`Fenced`), and versions never go back. A command and everyone
  else's are the same lemma, so that the number of tabs does not matter.
  `VersionsVouchForAction` follows, and from it `AcceptedAsShown`: the server compares
  the version, and an equal version vouches for the action the sender saw.
  `PagesImplementTask` shows that the composition takes only steps `ActionTask` allows,
  within its bounds (`InBounds`), so that everything proved of the task alone holds
  among its pages (`TaskSafeAmongPages`, `TaskPromisesAmongPages`). `OfferedIsAccepted`
  needs that: a page goes by the review of its *link*, the server by the review of the
  *task*, and `ReviewGatesWork` is why the two agree on a page that is up to date. Where
  they do not agree, and where the operator of the link is not the task's, the property
  says so (section 5). `HandledIsAccepted` ties `Accepts` to the handlers: none of them has
  another guard.
- **`BatchPipelineProofs`**, from its four assumptions. To `TypeOK` and the properties are
  added where a worker is and what it holds (`Placed`), what an uncommitted key or a
  row lock protects (`Locked`: that is why a second worker cannot write the same
  list or task), and who may decide a batch whose lease never runs out under a worker
  (`Owned`). `OutcomeIsFinal` and the refinement of `AtomicImport` follow: a commit is
  the one step that publishes, and by `Locked` it writes the list and the tasks of the
  whole file at once, whatever the rows of the file went through before.
  `SteadyFailuresHaveNoList` proves the documents' promise where every batch is
  steady; `lost_commit_answer` shows that it fails elsewhere. `SomebodyGoesOnHolds`
  excludes deadlock for finitely many workers: those that cannot go on each wait for
  one of them; a smallest set of such workers is a circle, since whoever nobody waits for
  can be left out of it; and the database ends a circle.
- **`OaDeliveryProofs`**. Where a process is and which key it holds (`Placed`), that a
  reminder under way has one holder (`Alone`), that a worker only delivers what no
  worker has sent (`Unsent`), that every answer still to be recorded is of a message
  that was sent (`Counted`), and that there are at most as many pending rows without
  a holder as there were faults (`Covered`). `Alone` is `OneReminderInFlight`, and it
  makes each delivery step one of `Errand`: what one process does is not seen of the
  reminders the others carry, and a dropped reminder is never taken up.
- **`AiExplanationProofs`**. `RowsInv` with the rows of the events; the decisions of a
  batch not imported yet have no explanation (`NewBatches`), or an import could start
  a second first version. `DecidedStays` and the refinement of `AnsweredOnce` follow: a
  request and an import only add rows behind decided ones, and `Record` writes the
  answer and the event of a row that is still `generating`, or nothing.
- **`PrototypeDecisionsProofs`**. The server's part and the tabs' part are independent:
  whatever a tab sends, rows and trace change only by the two conditional updates, and
  whatever they hold, a page shows what its reader was given. `OfferedIsAccepted` and
  `PageIsComplete` follow, and since the trace explains the states, each lane
  implements `WorkTrack` (`LanesImplementTracksHolds`): the two implementations keep the
  same promise about work.
- **`PrototypeBatchesProofs`**. A job is claimed once between two waits, so a batch has
  one worker at a time (`Alone`). An attempt that gets as far as the file removes it
  (`Unread`: only a batch that was not decided has one): a batch is tried again either
  untouched or without a file. So a list is written once (`Published`, `RowsTold`), a batch
  that failed without one is `Dead`, and what was seen as published keeps its rows, however
  late the answer comes (`Advances`); only `NoteFailure` of a commit that was not
  acknowledged changes what such a batch says, and `disowned` names those batches.
  `PublishedForGood`, `RetryHasNothingToRead`, `FinalPageIsComplete` and `TypeOK` follow, and
  the refinement of `AtomicImport` in which *every* file has its list written once or
  never (`FilesAreDecidedOnceHolds`). Of the two lists, the pages of the batch list cover all
  batches (`BatchesAreListedHolds`), while the pager of the action list never leaves its
  first page, of at most 100 rows (`NoSecondPageHolds`): a defect of the code, proved for
  every size of a page.

The refinements are proved for every value of the constants by the same plan: the
initial states map to initial states; each action maps to one abstract action or a
stutter, given the inductive invariant before and after it; and the last step combines
the two temporally. `TracksImplemented`, `ImportsAreAtomic`, `ExplanationsAnsweredOnce` and
`RemindersAreErrands` are also properties of the runs. `LanesImplementTracksHolds`,
`FilesAreDecidedOnceHolds`, `PagesImplementTask`, `SomebodyGoesOnHolds`, the two theorems
about lists, and the action properties and invariants that a refinement or a stronger
property stands for in the runs (`VersionsVouchForAction`, `OutcomeIsFinal`,
`OneReminderInFlight`, `DecidedStays`, `OwnRevisionsSuffice`) are theorems only. Four of
the five divergences have a theorem beside them that says where the promise does
hold: `ReviewGatesWork` for `approved_work`, `OwnRevisionsSuffice` for `work_revision`,
`SteadyFailuresHaveNoList` for `lost_commit_answer`, `PendingIsInHand` for
`reminder_left_pending`.

Every invariant and action property of the passing runs is a theorem. Only
model-checked are liveness under fairness (`EveryBatchSettles`,
`EveryExplanationDecided`, `PageSettles`) and what the five runs of section 5 refute.
Liveness, and that a guard such as `CanGoOn` is exactly when an action is `ENABLED`, are
outside what the installed provers treat, as is induction over data; no module has a
`RECURSIVE` operator.

## 5. Where code and documents disagree

In each of these runs TLC finds the quoted promise violated by what the code does.
`PROJECT.json` has the quotations.

- `approved_work` (`action/lifecycle_commands.go:81`): an override of a link whose
  change was rejected opens the work of the task; the requirements open work by an
  approval only.
- `work_revision` (`action/commands.go:256`): a continuation shares the revision of
  the first link. When the first is rejected and the continuation approved, or the
  continuation approved before the first, work is open and no revision is in force.
- `lost_commit_answer` (`batch/processor.go:284`): the commit took effect, its answer was
  lost, and the published batch is marked as failed; the same file cannot be uploaded
  again.
- `reminder_left_pending` (`action/oa_commands.go:247`): a worker that stops between
  sending and recording leaves the row `pending`, and nothing takes it up.
- `terminated_override` (`action/lifecycle_commands.go:65`,
  `src/web/src/pages/SuggestionDetailPage.tsx:120`): the page sends the link's review
  version, a termination moves the task's, and the server compares the latter: an
  override after a termination is refused however often the page is read again, though
  the page tells the user to terminate first.

Four more have no run of their own, since the properties would fail at once or no document
decides the case. The properties leave them out by name, and so say where they end:

- The prototype has the defect of `lost_commit_answer`, too
  (`proto/backend/app/services/imports.py:488`): when the commit that publishes a batch
  raises although it took effect, the `except` branch sets the batch to failed, with its
  list in place. Its file is gone, so it stays failed (`disowned` in `PrototypeBatches`).
- A later file may name another operator for an SPU (`batch/processor.go:219`): he sees the
  week's link, and every command that its page offers him is refused, since the task stays
  with the first operator (`action/commands.go:328`); the first one no longer sees the
  newest link, and is answered with an error by commands that took effect
  (`OfferedIsAccepted` in `SuggestionPages`).
- After a change of session the prototype's page may list a review in two tabs of its
  timeline and an operator's event in none (`DecisionDetailPage.tsx:448-454`;
  `PageIsComplete`), and a buyer is always shown the card of the review, blank
  (`DecisionDetailPage.tsx:409`).
- The pager of the prototype's action list offers no second page
  (`ActionListPage.tsx:299`; `NoSecondPageHolds`).

## 6. Not modelled, and what would come next

- *XLSX parser*: a function of a file without state. Its effects, rows or an error, are
  inputs here. Of the rules only the wording of the trigger and the evidence kept with a
  decision are left out.
- *Identity of the Go backend*: login, session rows and the exchange with DingTalk. What
  the loss of a session does to a page is in `SuggestionPages`.
- *Queries, history, audit*: read-only projections. What the order of events in
  `action/history.go` (start of the transaction, not its commit) shows of a history needs
  the commands of `ActionTask` split into their start and their commit.
- *HTTP wiring, configuration, backup scripts*: no state of their own.
- *The worker's duties together*: imports, explanations and reminders share one loop.
  `AiExplanation` has the priority of imports over explanations; the reminders'
  candidates, read once and worked on after slow calls, would need `OaDelivery`
  composed with `ActionTask`.
- *Web client*: the lists, batch, workbench and history pages only read; login and the
  recovery page leave the application.
- *Prototype*: its own rules, the OAuth exchange, the AI service and its job, and the trace
  page, which shows the events that `PrototypeDecisions` has in its timelines.
- *Document and slide builders*: no part of the running program.
