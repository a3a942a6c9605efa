# Eidetic: a verification project

Eidetic is a self-hosted chat assistant with a memory: a FastAPI process
(`src/backend/main.py`) streams answers of language models, an arq worker and a
scheduler process run background jobs, Postgres, Redis and (optionally) Neo4j
keep the state, and a React frontend and an edge proxy sit in front. This
directory holds TLA+ models of the parts whose correctness depends on the order
in which several actors act, TLC configurations that check them on small
instances, and TLAPS proofs for any number of actors.

Paths below are relative to `src/backend/`.

## 1. The system

| Part | State | Operations | Talks to | What is hard |
|---|---|---|---|---|
| Memory sheet (`llm/summarizer`, `api/memory.py`, `api/admin/memory.py`, `core/locks.py`) | `user_memory` row, `user_memory_versions`, advisory lock, Redis lock key | update, restructure, compact, project summary, preferences; write, import, resolve, decay; reset and restore by an administrator; salience bump of a turn | chat turns spawn the jobs; jobs call models | a model call of many seconds between read and write; endpoints that skip the lock; a lock with a TTL; two lock backends, switchable at run time; dying processes |
| Circuit breaker (`llm/circuit_breaker.py`) | per process and model: count, open set, opening time; shared key `cb:open:<model>` | `is_open`, `record_failure`, `record_success`, restore, startup probe | every model call | calls in flight while it opens; Redis writes that finish late; several processes, one key; restarts |
| Endpoint and calls (`llm/endpoint.py`, `llm/nim.py`) | health verdict in Redis and locally, semaphore | pick, probe, demote; `call`, `call_stream` with retries | breaker, two HTTP endpoints | stale probe results; retries that hold a slot; a fallback that must not be blamed for the primary |
| Chat turn (`api/chat/stream.py`, `llm/service/stream.py`) | one DB session with an uncommitted user message (and conversation), fallback chain, tool loop, budgets, accumulated text | cache hit, model call, tool batch, guard, fallback, persist, abort | models, tools, response cache | disconnects, exceptions and rollbacks at any point; exactly one terminal event; loops that must end |
| Tools (`llm/tools`) | the turn's session, `tool_call_logs` | `run_tool` and about thirty tools | turn, files, search, graph | the tools commit and roll back the session of the turn |
| File pipeline (`api/files`, `services/file_service.py`, `services/processor.py`) | `files` row and status, chunks, versions, the file on disk | upload, dedup, write, append, patch, restore, delete, process, re-embed | arq worker, scheduler, tools | disk and database change in separate steps; two jobs for one file; retries |
| Model catalog (`llm/catalog`, `api/admin/models.py`) | `model_catalog` rows, scan lock, hash and version in Redis, a snapshot per process | scan, curate, publish, follow, resolve | router, worker | rows got before an edit and written after it; a lock that expires and is deleted unconditionally; snapshots of any age |
| Rate limiter (`rate_limiter`) | a sorted set of timestamps per key in Redis | check | every chat request | clocks read before Redis is reached; Redis failing |
| Cost cap, ledger, demo accounts (`api/chat/helpers.py`, `services/demo.py`) | `users`, `messages` as ledger, pooled sum in Redis | admit, charge, mint, reap | turns, login, admin | checked before and charged after a turn; a ledger that is deleted with its conversation |
| Registration and invites (`auth`) | `users`, `invitations` | register | admin (the gate) | single-use tokens under concurrent requests |
| Conversations (`api/conversations`, `api/chat/helpers.py`, `llm/summarizer/history.py`) | conversations, messages, summaries, attachments | resolve, rotate, continue, commit, title, compress, patch, delete, reset | turns, background tasks | sizes counted before the turn that changes them; tasks that answer after a rotation |
| Context of a turn (`llm/service/context.py`) | the message list of the turn | assemble, trim, add tool results, fall back | turn | a list that is trimmed again after it grew, with other positions and another window |
| Graph memory (`llm/graph_memory.py`) | Neo4j nodes and edges, cached answers in Redis | extract, evict, merge duplicates, delete, query | turn, admin | every statement a transaction of its own; two stores |
| Scheduled prompts (`services/scheduler_worker.py`, `api/scheduled_prompts.py`) | rows of schedules and runs, the job table of the scheduler process, output files | create, patch, pause, delete, run now; sync, fire, run | files, notifications | a table that is a copy of the rows; runs that outlive their schedule or lose their process |
| Integrations (`api/integrations.py`, `services/arq_worker.py`, `llm/tools/*`) | `external_sources`, OAuth state | connect, callback, sync, refresh, disconnect | providers, worker, tools | credentials loaded, used and written back without a lock |
| Insights, webhooks, notifications, profile (`services/arq_worker.py`, `services/notification.py`, `services/behavior.py`) | insights, events, notices, rate counter, profile | deliver, generate, notify, digest | worker, mail | jobs delivered again after any commit; a counter and its expiry in two calls |
| Response cache (`cache`), routing, retrieval and fusion | entries with TTL; none | get, set, classify, rank | turn | keys that do not name all the answer depends on; arithmetic |
| Admin API, observability, goals, templates, search, export, transcription, edge proxy, frontend, migrations | settings, counters, text | reads, single statements, rendering | - | little; see the components list |

`PROJECT.json` lists each part with its status, and under "hazards" the places
where these difficulties bite, line by line, with the properties that would
notice.

What makes each of the modelled parts correct:

* memory sheet: jobs exclude each other; nothing a job overwrites is lost from
  the history; the history contains only sheets that existed; every job ends;
* breaker: closing the circuit, in whatever way, gives the model a full count
  of failures again;
* calls: each admitted call reports at most one outcome per attempt, a failing
  primary costs it a bounded number of attempts, every request is answered;
* turn: one terminal event, no answer without its question, failed turns stay
  visible, no stale text, no runaway loop, the turn ends;
* files: what is on disk becomes what is indexed, every replaced text can be
  restored, a deletion leaves nothing and a status does not hang;
* limits (limiter, cap, rotation, entities, mails): a limit that is checked
  before the act and accounted after it is overshot by what overlaps, and by no
  more; an invite admits one account;
* catalog: curation survives scans, and no unproven model is routed to;
* context: what goes to a model is trimmed no more than it must, and the rules
  of the assistant are always in it;
* conversations and graph: sizes are bounded, no relation is lost in a merge, a
  cached answer tells what the graph holds;
* automation: schedules and their table come to agree, a run says what it did,
  nobody is asked to reconnect a source the provider has not refused, an event is
  told once.

## 2. The modules

`X.tla` is the model, `MC*.tla` instantiate models for TLC, `*Proofs.tla` hold the
theorems. An operator that no specification uses (some are commented "Mutant") and that precedes a similar one
(`StayAnyway` before `Stay`) is a wrong variant of it, listed under "mutants" in
`PROJECT.json`: it is not part of the specification and shows that the
properties notice the mistake.

### UserMemory (`UserMemory.tla`, `UserMemoryProofs.tla`)

One user's sheet. `row` and `versions` are the committed tables, `seen` and
`plan` what a session loaded and what it will flush, `pgLock`/`redisLock` the
two locks, `rowLock` the row lock of a turn's uncommitted UPDATE, `past` a history
variable. A job is the steps `Spawn`, (`PrefsAnswer`), `AcquirePg` or
`AcquireRedis`, `ReadRow`, `ModelAnswer`, `Commit`, `ReleaseRedis`, with
`LockTimeout`, `Fail` and `Kill` wherever the code can time out, raise or die.
The request handlers are one step each where the code holds the row with FOR
UPDATE, two steps (`ResolveConflict` or `DecayMemory`, then `RequestCommit`)
where it does not. An administrator's reset is `BackupUser` and `BackupCommit` in
a session of its own and, for a hard reset, `HardReset` and `AdminCommit` in
another; `RestoreMemory` and `AdminCommit` are the restore of a snapshot. None of
them takes the lock, and what they replace may be what a job has just written. `ChatLoad`/`ChatFlush`/`ChatEnd` are the salience bump of a
turn. `Flush` is the one external part that matters: the ORM writes only the
columns that changed, so two sessions merge column by column.

Abstractions: a sheet is a set of lines, a model's answer is any set of lines;
salience is counted in decay steps (0 stays 0, as `0.0 * x` does); all five job
kinds share their steps and differ in `NothingToDo`, `Rewritten`, `WithPrefs`,
`Cleared` and `SnapshotOf`.

### CircuitBreaker (`CircuitBreaker.tla`, proofs in `AccessProofs.tla`)

One model, several processes. `failures`, `open`, `hot` are the three
dictionaries, `key` is the Redis key, `setting`/`deleting` the Redis calls under
way. `outstanding` stands for the calls in flight: what they may still report.
It is the abstract specification of what calls may do to the breaker, and
`Inference` is shown to implement it. The count is kept up to the threshold,
beyond which the code does not distinguish it.

### Inference (`Inference.tla`, `InferenceProofs.tla`)

The calls of one process to one model, composed with the breaker: `Breaker ==
INSTANCE CircuitBreaker WITH outstanding <- Outstanding, ...`, where
`Outstanding` sums the attempts the calls have left. `Ask`, `Acquire`, `Pick`,
`Probe`, `Store`, `Answer`, `Wake` are the steps between two awaits of `call`
and `call_stream`; an HTTP exchange is one of nine outcomes. `UsesBreaker` is
the refinement; `InferenceProofs` proves it. `flaky` says, from the start, whether
Redis may fail in this behaviour; `spoilt` is a history variable: how many attempts
of a call have demoted the primary (`MarkPrimaryUnhealthy`).

### StreamTurn (`StreamTurn.tla`, `StreamTurnProofs.tla`)

One turn. `conv` and `user` say whether the conversation and the user message
are pending in the session, stored or lost; `Settle` is a commit or a rollback
of that session wherever it happens, in the turn or in a tool. `Choose` leaves
the selection of models and tools open, `Iterate`, `Token`, `ToolRequest`,
`StreamEnd`, `RunTool`, `ToolsDone`, `NextModel`, `Crash` are the loop of
`generate_stream`, `PersistDone`, `SendDone`, `SendError`, `PersistAbort` those
of `event_generator` in their order, `Disconnect` the cancellation. `StreamRetry` is
the retry inside `call_stream`, which keeps the text its failed attempt has yielded;
`CachedCommit` and `CachedDone` are the turn that is answered from the cache. Three
history variables: `runs` (what was executed for which model), `rolled` (a tool's
failure has rolled the session back) and `cached`.

### FilePipeline (`FilePipeline.tla`, `FilePipelineProofs.tla`)

The files of one user. `status`, `hash`, `chunks`, `versions` are the tables,
`disk` the stored files. An operation (an element of `Ops`, which happens once)
is an upload (`UploadFile`, `InsertRow`), an edit through the API or a tool
(`StartEdit`, `SaveVersion`, `OpenFile`, `WriteFile`, `DeleteChunks`,
`CommitEdit`) or a deletion (`StartDelete`, `DeleteChunks`, `CommitDelete`,
`UnlinkFile`): one step per await or statement, because no lock is held between
them. `Enqueue` gives an upload or an edit a job, which runs `StartJob`,
`ReadFile`, `SaveChunks`, `AckJob`; `FailJob` is an exception in it, `RowGone` a
commit that finds the row deleted, `KillWorker` the death of the worker, after
which arq runs the job again, also when its chunks were already committed.
`FailOp` is a failure, or the death of the process, anywhere in an operation.

Abstractions: a text is the set of uploads and edits whose mark it bears, so a
lost edit, a stale chunk and a mixed-up version can be told apart; marks in `Raw`
do not survive the decoding with `errors="replace"` that versions, appends and patches
go through (`AsText`), and become `Lost`; all chunks one
run of a job inserts are one batch; an embedding that fails for some chunks
makes a batch that does not have the whole text. The session of an edit
remembers the status it loaded (`seen`), because the ORM writes the column only
if it differs. Row locks are modelled where they forbid something: a version an
edit has inserted keeps its file from being deleted until the edit commits.
Deadlocks that Postgres resolves are failures. `past`, `crossed`, `disturbed`,
`hurt` and `stuck` are history variables; they say which texts a file has had,
and where operations overlapped, a job met an edit or ran twice, a step failed,
a job was lost.

### RateLimiter, Spending, Registration (`MCAccess.tla`, `AccessProofs.tla`)

`RateLimiter`: the two windows of a request (`Chat`, then the bucket of its model).
`Arrive` and `AskModel` read the clock, `Limiter` runs the MULTI that prunes, adds
and counts, later and in any order; `FailOpen` lets the request through when Redis fails.
`passed` is a history variable. Timestamps are seconds and equal ones are one
member of the set, as equal scores of equal members are in the code.
`Spending`: `CheckPool` and `CheckCap` admit a turn, `Answer` and `RecordUsage` end it
in every way it can end; `CheckLogin` and `Mint`, `ReapRead` and `PurgeDemoUser`,
`SetCostLimit` are the accounts, their limits and the windows these are about.
The ledger is the messages table, seen through every window at once (`spent[u][w]`;
`Longest` stands for all time): a longer one counts at least as much (`Nested`), messages
leave the shorter ones first, and a deleted conversation takes what it cost out of all. An answer costs one unit.
`Registration`: a form looks up the name (`CheckName`), locks the invite
(`LockInvite`, FOR UPDATE), flushes (`InsertUser`) and commits; the gate is switched at any time.

### Conversations, GraphMemory (`MCDialogue.tla`, `ConversationsProofs.tla`)

`Conversations`: a request is `StartConversation`, or `LoadConversation` followed by
`Stay`, `Rotate` or `ContinueArchived`, then `CommitTurn`, `CommitCompare` or
`LoseTurn`. `titling` and `folding` are the tasks left behind. The other two
reasons to rotate (tokens, days) are a free choice. `AutoTitle` compares the title
with the first 60 characters of the message the task was started for (`TextOf`), which
different messages may share. `crowd` is a history variable. `GraphMemory`: one action per `session.run`; `TakeDuplicate`,
`RedirectOut`, `RedirectIn`, `DropDuplicate` are the statements of one merged pair
in both passes of the deduplication. A query reads (`ReadGraph`) and caches
(`CacheAnswer`) in two steps; `ClearCache` is `_cache_del_user`, which an unreachable
Redis turns into `LeaveCache`. `owed` (what a writer has changed and not cleared the
cache of) and `excused` (what a clearing has missed) are history variables.

### Catalog, ContextBudget (`MCDialogue.tla`, `ContextProofs.tla`)

`Catalog`: a scan probes (`Probe`), reads the statuses of rate-limited models
(`LoadRows`), gets the rows (`GetRows`) and commits the columns it changed
(`CommitScan`, `Written`); an edit reads and commits; a publisher (a process
that answers a PATCH, or a scan, several of them in one process) reloads, writes the
hash and sets the version in three steps; `HearVer`, `TakeEntries`, `TakeRows`
are `ensure_fresh`. `Resolve` and `Effective` are what a request gets.
`ContextBudget`: a message is its kind; `Compose` builds the list of
`build_context_messages` and `generate_stream`, `StartBudget`, `DropTier`,
`DropNoMore` are the loop of `apply_context_budget` (positions, tiers and
acknowledgements as the code finds them by prefix), `UseTool`, `StopLoop`, `EndTools`
and `FallBack` what is done to the list between two calls. Sizes are a constant
per kind.

### Schedules, Integrations, Insights (`MCAutomation.tla`, `AutomationProofs.tla`)

`Schedules`: rows, the job table and the runs with their output files; `SyncRead`
and `SyncApply` are `sync_schedules`, `FireRead` and `FireInsert` the callback,
`LoadRun`, `CallModel`, `FlushOutput`, `IndexOutput`, `CommitRun`, `NotifyRun` the run,
each of which may fail; either process may crash. An expression in `Refused` passes
`croniter.is_valid` and not `CronTrigger.from_crontab`: its schedule gets no job (`Trigger`).
`Integrations`: sessions of the sync job and of the tools load a source,
use, refresh or condemn its grant and write back what they changed; flows of the
API reconnect it meanwhile, the provider withdraws grants. A refresh answered 401 or
403 condemns the source, whatever the reason (`RefreshTokens`; `refused` remembers it). `Insights`: the jobs
behind webhooks, insights and mails, each of which may be delivered again after
any of its commits, and the profile that replies read and write. A notification is
`CountNotice` (or `FailOpen`, without Redis), `Judge`, `LoadPrefs`, `SendEmail`,
`AckNotice`, with `KillMailer` between any two; `spare` is a history variable, the
mails the present window has not counted.

## 3. The runs

| Run | Checks | Instance and why it is enough |
|---|---|---|
| `memory` | `TypeOK`, `MutualExclusion`, `SnapshotsAreReal`, `VersionsAreDistinct`, `ReplacedSheetIsKept` | two jobs, one request, one turn, two lines, advisory lock: every pair of writers meets, and a request can start one of the jobs (restructuring), reset or restore. Salience has 3 steps: above, at and below the clearing limit |
| `memory_live` | `OnlyHolderReleases`, `JobsFinish` | two jobs and a turn, both backends with reloads, expiry, kills |
| `memory_compaction_race` | `CompactionSnapshots`, violated | two jobs and one request on a sheet of full salience, which compaction does not clear but asks the model about; the request writes while it waits |
| `inference` | `PrimaryIsLeft`, `UsesBreaker`, `RequestsFinish` | two calls competing for one slot, all outcomes of both endpoints, Redis at hand or coming and going, one expiry, two attempts: `PrimaryIsLeft` is at its bound with one |
| `inference_outage` | `NextAttemptIsNim`, violated | two calls in two slots with the default threshold and retries, a Redis that works, no expiry |
| `turn` | `OneTerminalEvent`, `TurnIsKept`, `IdenticalCallsBounded`, `NoStaleText`, `TurnEnds` | two models, two tool signatures with limits 1 and 2, batches of up to two calls, up to three iterations, one retry per call; commits may fail, and tools in the database |
| `turn_tool_rollback` | `TurnStaysVisible`, violated | the same with smaller batches and commits that succeed |
| `files` | `CurrentIsIndexed`, `IndexIsExact`, `HistoryIsComplete`, `DeletedIsGone`, `StatusSettles` | one file that exists or not, two operations of any kind with their jobs, one of whose texts does not decode, two failures anywhere (`MaxFaults`) and two tries per job (`MaxTries`): every pair of operations and jobs overlaps in every way, a job can fail for good, and be lost. Files do not interact but through the search for a hash |
| `access` | `WindowHolds`, `CapIsSoft`, `InviteOnce`, `ClosedBelowThreshold` | three requests, turns and forms against limits of 2, caps of 1 and 2, windows of two lengths and two invites, so each limit is reached, overlapped and passed; a window of 3 s with a lag of 1 s; breakers of two processes, threshold 2, one restart, late Redis writes |
| `dialogue` | `AdminChoiceWins`, `OnlyProvenOffered`, `TrimIsTight`, `RulesSurvive`, `GraphIsBounded`, `MergeKeepsRelations`, `CacheTellsGraph`, `ConversationIsBounded` | one role and one other model, two scans, two processes, one edit, two versions: an edit between a scan's get and its commit, and a publish of each; a turn of up to five optional parts, one message of history, two tool calls, a fallback, windows that hold nearly nothing and about half; two extractions over a cap of 2, one query, names that merge in the first pass and, with what that leaves, in the second; three requests on two conversations with a limit of one exchange: forks and double rotations |
| `automation` | `RunsAreAccounted`, `PauseIsPrompt`, `ReauthIsJustified`, `EventToldOnce`, `RateIsLimited`, `TableFollowsRows` | one schedule with two expressions, one of them refused by the scheduler, and two runs, one crash; two sources, two grants, one of which cannot be refreshed, one job with a retry and one tool; one event, two insight jobs, two mailers, a limit of one mail, one killed worker |
| `schedule_modified` | `SyncPicksUpModified`, violated | the same with expressions that are all good |

Three runs (`access`, `dialogue`, `automation`) hold parts that share no row, key or
task. Interleaving them would only multiply states, so a variable `focus`, chosen
at the start, says which part a behaviour is about; each part is checked with
its full next-state relation, except where the MC module names a smaller group of
operations for a focus (`dialogue`), and then the groups together
cover every action.

Deadlock checking is off where the system stops by itself: each job, request,
call and turn happens once.

### Disagreements found

With a run:

* `memory_compaction_race`: a fact stored by `POST /memory/write` while compaction
  waits for its model is overwritten and in no snapshot (`docs/features.md:32`).
  The lock does not help, because the endpoints do not take it.
* `inference_outage`: a call has just demoted the failing primary, another call's
  older probe is stored over that (`llm/endpoint.py:103`), and the next attempt goes to
  the primary again, against the comment at `llm/nim.py:58`. It takes two calls, no
  failure of Redis and no expiry. What does hold is `PrimaryIsLeft`: such stale
  verdicts cost a call no more attempts than there are slots, and as many again for
  each verdict that expires. With the default 4 attempts that can be all of them.
* `turn_tool_rollback`: a tool's rollback takes the turn's uncommitted user message
  with it (`llm/tools/registry.py:96`), against "so failed turns stay visible"
  (`api/chat/stream.py:265`). `TurnIsKept` is what holds of the turns in which that has
  not happened.
* `schedule_modified`: a schedule whose expression was patched keeps its old
  trigger through every sync (`services/scheduler_worker.py:149`), which "pick[s]
  up new/modified/deleted schedules" (line 354).

Met while modelling, visible in the models' actions, without a run of their own:

* any process's success deletes the breaker key of another process's trip
  (`llm/circuit_breaker.py:63`, against `docs/features.md:10`);
* an answer from the cache has no `except` (`api/chat/stream.py:164-187`): when its
  commit, or the count behind it, fails, a client that stays gets neither a done nor an
  error event. `OneTerminalEvent` names this exception;
* a retry inside `call_stream` goes on behind the text its failed attempt has yielded
  (`llm/nim.py:309-318`), and that text stays in the stored answer. `StreamRetry` does so
  in the model; `NoStaleText` is about the text of *earlier calls*;
* any 401 or 403 of a token refresh condemns the source (`services/arq_worker.py:320-326`),
  also a 401 after a changed client secret or a 403 for a quota, although the calendar
  tool is at pains not to do this (`llm/tools/calendar.py:76-79`). `ReauthIsJustified`
  counts them as the provider's no;
* a schedule whose expression croniter accepts and `CronTrigger.from_crontab` refuses
  ("@daily", six fields, weekday 7) is active, has a next run and never runs
  (`services/scheduler_worker.py:160`). `TableFollowsRows` says that it has no job;
* the cache of the graph is cleared before the relations of an extraction are written
  (`llm/graph_memory.py:158-168`), so an answer cached in between does not have them for
  the TTL, and a query that read before a clearing caches after it, against "cache busted
  on every write" (`docs/features.md:40`). `CacheTellsGraph` is about the names an answer
  tells, and exempts exactly those a clearing has missed;
* widening the window of a cost limit makes old messages count again
  (`api/chat/helpers.py:70`), so the sum may lie far above the cap without any turn.
  `CapIsSoft` is about the shortest window a turn was admitted in;
* when Redis fails, notifications are sent uncounted (`services/notification.py:49-51`),
  and a worker that dies between INCR and EXPIRE silences a user for ever. `RateIsLimited`
  is an upper bound, and allows for the first by `spare`;
* a version is what decoding with `errors="replace"` leaves of a file
  (`services/file_service.py:17`): of a text that is not UTF-8 the history has no copy,
  although restoring answers as if it had. `HistoryIsComplete` is about the decoded text;
* the hash of a file is that of its first upload for ever, so after an edit the
  original is answered with the edited file (`api/files/router.py:40`, against
  `docs/features.md:17`);
* with `MEMORY_LOCK_BACKEND=redis`, which `config.py:213` calls replica-safe, the
  key's TTL can end while its holder waits for a model, and two jobs are in the
  section. `MutualExclusion` is checked and proved for the advisory lock;
* a comparison (`api/chat/stream.py:203`) is never charged, although the README of
  the repository (line 30) calls sessions capped;
* a rate-limited probe keeps the status of a model, as `llm/catalog/scanner.py:45`
  says, but counts as a failure unless that status is live.

Further places a reader of the code should know, outside the properties: a fallback
model repeats tools that ran for the failed one (`llm/service/stream.py:489`); an
answer is cached under a key that does not name the model that gave it (line
700); the first compression of a successor replaces the summary it was handed
(`llm/summarizer/history.py:62`); a scheduled run starts processing its file before
the row is committed (`services/scheduler_worker.py:79`, `output` in `Schedules`); two
sources of one connector without a resource make every later callback fail
(`api/integrations.py:282`, `SelectSource`); the backup counts gzip's exit status
(`services/scheduler_worker.py:314`); `create_file` unpacks three values into two
names (`llm/tools/file_ops.py:78`); two equal uploads may both be stored
(`api/files/router.py:37`); deleting an account sets `used_by_id` of its
invite to null, which makes the invite good again (the code deletes none but the minted
demo accounts, `services/demo.py:146`); a run
that succeeded is shown as an error when its notification cannot be queued
(`services/scheduler_worker.py:105`), and the user may delete its output file.

## 4. Fairness

* `UserMemory`: weak fairness of every started job and turn. Model calls have
  timeouts, the Redis lock has a wait limit, Postgres serves lock waiters, a
  turn has `STREAM_TURN_BUDGET`. Nothing is assumed of who starts a job, of kills,
  failures or reloads.
* `Inference`: weak fairness of every call's step; every wait has a timeout and
  the asyncio semaphore serves its waiters. Weak fairness suffices for
  `Acquire` in the runs because each call frees its slot once and for all.
* `StreamTurn`: weak fairness of the turn's task. `Token` is not in it: a stream
  that only trickles is ended by `STREAM_TOTAL_TIMEOUT`, which is why `StreamEnd`
  is.
* `FilePipeline`: weak fairness of every operation that has begun and every job
  that is queued: disk and database calls return, the worker polls its queue.
  Nothing is assumed of failures, and `StatusSettles` excepts the files whose job
  was lost (`stuck`): the process died between commit and enqueueing, or the
  worker at the last try. The code has nothing that would find these again.
* `Schedules`: weak fairness of `SyncRead`, `SyncApply` (APScheduler's interval job)
  and of restarting the scheduler process (the container's restart policy).
* The other modules have no liveness property and no fairness.

## 5. The proofs

All theorems hold for every value of the constants under the ASSUMEs of the
modules (sizes positive, the sets of jobs, requests and turns disjoint, and so
on), which TLC evaluates in the runs.

Two things recur. Many invariants that the runs check hold only at rest or at the
end; the theorem then needs what holds in between, and that strengthening is the
content of the proof. And several operators are folds over sets or sequences
(the sum of what calls may still report, the rules in a list of messages). The
provers cannot use the library's induction theorems, which take an operator, but
they can use the well-foundedness of `<` on the naturals (`WFMin`): an argument by
a least counterexample needs no induction rule, and this is how the folds are
handled (`AddsExists`, `AddsUnique`, `TakesExists`, `FlattenType`).

* `UserMemoryProofs`: `TypeCorrect` by induction with one lemma per action.
  `PgMutualExclusion` rests on `PgInv`: a job between lock and commit has seen the
  "pg" backend and, once in the section, is the holder; mutual exclusion alone
  is not inductive because it says nothing of the lock. Of the Redis lock only
  `HolderReleases` is proved, with no assumption: its TTL of 30 s is shorter than a
  model call with retries, so the code does not exclude two jobs with it. What the lock
  is for is proved of any lock: `ExclusionKeepsHistory` and `ExclusionCountsVersions`
  assume only `[]MutualExclusion` and rest, until a request handler writes, on
  `FreshInv` (the row a job read is still the current sheet when it commits, since only
  turns write meanwhile, and they change only the salience) and `VersionInv` (a plan is
  one version ahead of what was read). `PgHistoryComplete` and `PgVersionsDistinct`
  follow. `SnapshotsReal` rests on `HistoryInv`: what any session has read was committed
  at some time, which makes a snapshot of a stale row harmless.
* `InferenceProofs`: `CallsUseBreaker` shows that the calls implement
  `CircuitBreaker`, step by step: `CallRefines` maps each step of a call to a report,
  an admission or a stutter. `OwedChange` is the lemma they need: if one call's share
  changes, the sum over the calls changes by as much. `PrimaryLeft` is about
  behaviours in which Redis works, with any outcomes of both endpoints. By
  `OutageInv` the attempts a call has spoilt, plus the *lures* (the probes under way
  that may still be stored as "up", or every slot while there is no verdict), never
  exceed the slots times one more than the verdicts that have expired: an attempt is
  spoilt only after a lure has been taken, and demoting the primary leaves the probes
  under way as the only lures.
* `StreamTurnProofs`: `TypeCorrect` needs `LoopInv` (an iteration is begun only
  below the maximum, a model is tried only inside the chain). `OneTerminal` rests
  on `TerminalInv` (behind a terminal event only the abort's commit follows, and a turn
  without one ends only where its client is gone or a cached answer has failed),
  `TurnsAreKept` on `KeptInv` (until a tool has rolled the session back, nothing it holds
  is lost before the turn's commit, and behind it both messages are stored).
  `GuardHolds` rests on `CallsInv` (what was executed for the
  present model is at most what was counted, and nothing was executed for later
  models), `AnswersStartEmpty` on `TextInv` (text exists only in or after the call
  that yielded it, the attempts of one call taken together).
* `FilePipelineProofs`: `TypeCorrect`; `PlacesRight` (`PlaceInv`: a file with a row
  is on disk, nobody but its upload knows one without, an operation is over when
  its job begins). `CurrentIndexed` rests on `IndexInv`: at any time the text on
  disk is in the index, or somebody *carries* it there, an edit that will start a
  job, a job that has not read yet, or a job that has read this very text. The
  property itself says nothing of the time in between and is not inductive.
  `DeletedGone` rests on `AloneInv` (at most one operation is busy with a file
  whose operations have not overlapped) and `GoneInv` (a file without its row is
  unlinked, or its deletion is about to). `HistoryComplete` rests on `HistoryInv`
  (`HistoryHeld`): a text the file has had is a version, or in the version a running
  edit has saved but not committed, or on disk in a file nobody has opened; and
  that version has the next number. `IndexExact` rests on `ExactInv`
  (`IndexExactly`): one operation or job at a time is at work on an undisturbed
  file, what an edit is about to delete is all there is, and from its commit to
  the job's there is no chunk. All of these inductions share `Frame`, `Respects` and
  `StepsFrame`: a step is about one file, so that the others' invariants need no
  case of their own.
* `AccessProofs`: `WindowsHold` rests on an invariant that relates what is in Redis
  to what has passed: a timestamp that still counts for somebody is in the set,
  because a prune with a later clock removes only what is older than that clock's
  window and no clock is later than the present. `CapHolds` strengthens the bound
  by what each account was allowed, by the turns in flight and by `Nested` windows;
  admission happens only below the cap of the present window, which is no shorter than
  the shortest, and a turn that ends moves one unit from "in flight" to the ledger. `InvitesAdmitOne` rests on the row lock: who has checked an invite and
  not ended holds it, so that it is still unused at the commit. `BreakerCorrect`
  is inductive with the type invariant.
* `ConversationsProofs`: `RotationBounds` needs `CallsPlaced` and `Unborn`, and the
  property itself is the inductive bound: `WorkGrows` and `WorkShrinks` count the
  requests on a conversation. `GraphBounded` rests on
  `RoomInv`: among any set of extractions in flight there is one that counted when
  the batches of the others fitted, whichever of them go on. A bound per extraction is not inductive: the
  next merge invalidates what the others counted. `MergeLosesNothing` rests on
  `EdgesInv`: every edge found at the start of a pass has a counterpart between all
  the nodes its ends may stand for at this point of the plan. `CacheFollowsGraph` rests
  on `CacheInv`: the same as the property, of what each query under way has read too;
  `ChangeInv` shows it for every change of the nodes, `ClearInv` for every clearing.
* `ContextProofs`: `AdminsChoiceWins` rests on `RowsStay` (what a scan has got, or an
  edit is about, has a row), `Seeded` and the type of what an upsert writes;
  `OnlyProven` on `AllEarned`: every entry that says live, in a row, a session, Redis
  or a snapshot of any age, is of a model that has answered. `TrimsTightly` rests
  on `Trimming`: exactly the tiers from the last one dropped up are gone and the
  rest does not fit; `SkipEmptyTiers` is the argument that going to the next tier
  some message has loses nothing. `RulesStay` rests on `RuleInv`: the rules of the
  list begin with those of the list the turn began with, and what trimming keeps
  includes every system message (`SystemsStay`: no tier takes one).
* `AutomationProofs`: `RunsAccounted` rests on `RunInv` (what row and output of a run
  can be, given where its task is), `PausesArePrompt` on `PauseInv` (a schedule that
  has run since its pause has no callback under way that could start another),
  `ReauthsAreJustified` on `SessionInv` (what a session knows of an undisturbed
  source is still true), `EventsToldOnce` on `EventInv` (insight and "processed" are
  one commit), `EmailsAreLimited` on a count of the mailers on their way: what is sent,
  and what is let through and not sent, together exceed the hits within the limit by no
  more than `spare`.

The type predicates of `RateLimiter`, `Spending`, `Registration`, `Conversations`,
`GraphMemory`, `Catalog`, `Schedules`, `Integrations` and `Insights` are conjuncts of
these invariants and proved with them. Every invariant that a passing run checks is stated
by a theorem, and so is every action property and the refinement.

Model-checked only: liveness (`JobsFinish`, `RequestsFinish`, `TurnEnds`,
`StatusSettles`, `TableFollowsRows`), which the prover does not handle. What a property
excepts by name (`rolled`, `flaky`, `excused`, `spare`, `crossed`, `disturbed`, `stuck`,
`refused`) it says nothing about, and nor does its theorem; section 3 says what
happens then.

## 6. Not modelled

The parts with status `not_modelled` in `PROJECT.json`, for the reasons given
there: they keep no state that several actors change (routing, retrieval,
transcription, rendering), or change it in single statements. Inside the modelled
parts: the per-fact saliences, conflict detection and the wording of prompts (they
select among answers that are arbitrary here); how text is classified and
retrieved; of files, the status stream, renaming, searching, formats and chunk
boundaries, and the processing without a queue (`process_file_async` without a
pool); of sources, those with a `resource_id`, and what connectors fetch; of the
catalog, the metadata of a model; floating-point costs and scores.

## 7. What is left

1. Files: the status stream, and re-embedding against edits.
2. Algorithms against reference definitions: rank fusion, chunk merging, fuzzy
   replacement.
3. Proofs: what holds when the lock backend is switched under running jobs; that a
   file whose job was lost (`stuck`) is the only one whose status cannot move; the
   safety part of the other liveness properties; type correctness as a theorem of
   its own where it is now a conjunct of a larger invariant.
