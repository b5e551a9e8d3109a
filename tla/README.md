# engine-tools in TLA+

Specifications, model checks and proofs for the DSW engine tools: the Python
packages that generate documents, send mails and seed databases behind the Data
Stewardship Wizard, and the template development kit (TDK).

## The system

| Component | State it keeps | Operations | What is hard | Modelled by |
|---|---|---|---|---|
| Command queue (`dsw-command-queue`) | rows of `persistent_command`, row locks, an interrupt flag, two connections | `run`, `run_once`, `fetch_and_process`, `_process`, signal handler | several processes on one table, work done without the row lock, stale attempt numbers, crashes, failed transactions, lost notifications | `CommandQueue`, `CommandLifecycle` |
| Database access (`dsw-database`) | connections, the open transaction | `fetch_*`, `update_*`, `execute_query`, silent reconnect | a transaction nobody rolls back, writes lost with a connection, several SELECTs that are not one snapshot, exceptions taken for missing rows | in the modules that use it |
| Document worker, job (`dsw-document-worker`) | rows of `document`, the job in hand, S3 objects | get, prepare, build, store, finalize, set failed, timeout | an S3 object and a row that must agree, quota check before use, retries and overlap | `DocumentJob` |
| Document worker, template cache | files on disk, the rows of the last refresh | prepare directory, update files, update assets, render | stale cache, partial refresh, two kinds of content on one path | `TemplateCache` |
| Document worker, document context | a graph of objects made from JSON | `to_context_obj`: load, `resolve_links`, `ReplyVisitor`; `extract_replies` | references to what is gone, links that must be set before others read them, items that name one another, replies that were left behind | `DocumentEntities`, `DocumentContext`, `DocumentExtraction` |
| Document worker, formats and steps | the file in hand, a child process | create a format, execute its steps, convert | chains of steps whose types must fit, a conversion that does not end | `DocumentBuild` |
| Mailer (`dsw-mailer`) | translations and a style shared by all mails of a process, SMTP tries | work, send | leftovers of other mails, settings from five places, duplicates after retries, unreadable rows | `MailConfig`, `Mailer` |
| Data seeder (`dsw-data-seeder`) | several databases and S3 | seed, `_execute` | no common transaction, connections whose transactions outlive a job | `DataSeeder` |
| S3 storage (`dsw-storage`) | objects | put, get, ensure bucket | a put that raises and has stored the object, missing objects | in `DocumentJob`, `TemplateCache`, `DataSeeder`, `Mailer` |
| TDK (`dsw-tdk`) | local files, a template in memory, a draft on the server | get, put, watch, verify, package | batches of file events in no order, requests that fail half way, two references to one template | `TemplateSync` (put, watch) |
| Configuration (`dsw-config`) | none | look-up in file and environment, casts | precedence, values that are cast by truth | mail settings: `MailConfig` |
| Data models (`dsw-models`) | none | parsing | none | not modelled |

The server inserts a row into `persistent_command` (a document to generate, a
mail to send, a seed to run) and issues NOTIFY on the component's channel. A
worker process LISTENs, selects the next row, commits its attempt number, calls
`worker.work` and writes the outcome. The worker's own statements use the same
connection, hence the same transaction, as the record of the outcome. A job of
the document worker refreshes the directory of its template from the database
and S3 and renders from it: the steps of the format run one after the other, a
Jinja step may turn the context into objects first. A job of the mailer reads
user, locale and mail configuration, renders and sends. A job of the seeder runs
SQL scripts on the default database (the queue's connection) and on extra
databases, then puts objects into S3. The TDK is a command line tool of template
authors; it talks to the server only.

Correctness, per component:

- *Queue*: at-least-once with a bounded number of attempts; an outcome is not
  lost or overwritten; every command comes to an end; a process neither sticks
  in a failed transaction nor ignores a signal for ever.
- *Document job*: what the user sees (row), what is stored (object) and what
  the queue believes (command) agree; the quota holds.
- *Template cache*: a job renders from the template it has read, not from an
  older or half refreshed directory.
- *Context*: objects are linked to what the JSON names, at any depth, whatever
  the order; every list item that can be reached has the right title; exactly the
  replies that can be reached are extracted.
- *Build*: a document is what its format says; a build ends.
- *Mailer*: a mail is in the language and style of its recipient and leaves by
  the right server; a mail that can be sent is sent.
- *Seeder*: done means seeded everywhere; a failed run leaves nothing behind.
- *TDK*: the draft follows the local files.

Every hazard found while reading is in `PROJECT.json` under `hazards`, at its
line, with the properties that watch it.

## Modules

`MC...` modules give the constants of the runs values that a `.cfg` cannot
write down, and the symmetry sets; `...Proofs` modules hold theorems. `SumProofs` holds
the facts about sums over functions that the proofs of `CommandQueue` and
`DocumentJob` share; `CommandLifecycle` has its refinement proof in
`CommandQueueProofs`.

### CommandQueue, CommandLifecycle

`CommandQueue` has one action per step of `CommandQueue.run`/`run_once` in
`command_queue.py`:

| Action | Code |
|---|---|
| `Launch`, `Listen` | `run`: new connections, `LISTEN` |
| `Fetch`, `FetchNothing`, `FetchInFailedTransaction` | `fetch_and_process`: `SELECT ... FOR UPDATE SKIP LOCKED` |
| `Start` | `query_command_start` and its commit, which releases the row lock |
| `WorkSucceeds`, `WorkRaises`, `WorkTimesOut` | `worker.work` under `func_timeout` |
| `Record`, `RecordInFailedTransaction` | the handlers of `_process` and the commit behind them |
| `Wake...` | `select.select` on the listening connection, the interrupt flag |
| `Escape` (in several actions) | an exception that leaves `run`, tenacity's next call or the end of the process |
| `Interrupt` | the signal handler |
| `Crash`, `LoseConnection`, `LoseStartCommit`, `LoseConnectionOutsideTry`, `WorkBreaksTransaction`, `WorkFinishesLate` | faults, as many as `MaxFaults` |

`table` is the committed content of `persistent_command`. `newer` keeps the
order of `updated_at`, which is all the query uses of it. The workers in
`OneShot` are lambda invocations: they call `run_once` and never LISTEN. `lock` is the row lock
of an open transaction; since the code never leaves an uncommitted change in a
row of the queue while another process could act, the UPDATE and its commit are
one action. `started` and `finished` are history variables. The clock counts
minutes, because the back-off of the query is `2^attempts - 1` minutes;
comparison with `now()` is strict.

`CommandLifecycle` is what the server may rely on: absent, queued, trying, done,
ignored or exhausted, with every attempt charged before it begins. With one
worker process the queue implements it (`ImplementsLifecycle`, a refinement
under which a row that is picked but not charged is still queued). With two it
does not, and the invariants for several processes say what survives.

External: the server inserts rows and notifies (`Enqueue`), an operator
ignores a command (`Ignore`), a supervisor starts processes again (`Launch`).
A body that is not JSON is not modelled; the server writes it with an encoder.
Equal `updated_at` of two rows is not modelled (microseconds). The interrupt
flag never wakes `select` up: `IS_LINUX` compares `platform == 'Linux'` with the
module `platform`, hence is always False, and the pipe is never used; the model
does what the code does.

### DocumentJob

`Job._run` step by step (`CheckCompliance`, `GetDocument`, `Retrieve`,
`PrepareTemplate`, `BuildDocument`, `StoreDocument`, `Finalize`), its error
handling (`StepFails`, `CheckDocumentExists`, `MarkFailed`), the way out through
`DocumentWorker.work` (`Return`, `Leave`: `current_job` is reset) and
`DocumentWorker.process_timeout`. A timeout may strike until `work` has returned,
so also after `Finalize`, before or after the reset; only the way
of an exception out of `work` is left uninterrupted in the model, where
`process_timeout` would find no row or a transaction that has failed and write
nothing. `row` is committed, `tx` the UPDATE of a
worker that is not; `Record` commits it together with the outcome of the
command. `object` is the file in S3, outside of every transaction. A file is
its size, which is all that the quota and the row say about it. The queue
appears as `Pick`, `Record` and the retries, without back-offs: a superset of
its behaviours. Limits of `None` are very large numbers.

### TemplateCache

One template of `TemplateRegistry`. `template` and `bucket` are the rows and the
S3 objects that users change through the server; `FetchFiles` and `FetchAssets`
are the two SELECTs; `Handle` is one iteration of a loop of
`update_template_files` or `update_template_assets` (delete, then add, then
check); `FinishFiles` and `FinishAssets` remember the rows. `prepare_fs` is
`MakeDirectory` followed by the same loops with nothing known. A file is the
row it came from, its version (`updated_at`) and whether it was only opened for
writing. External: the server puts an asset's object before it commits the row,
gives a path to one row at a time and does not use a uuid again.

### DataSeeder

`DataSeeder.seed` and `_execute`, one attempt of a command after the other.
`committed`, `open`, `aborted` and `lost` describe each database: what is
committed, what is in the open transaction of its connection, whether that
transaction has failed, whether the connection is gone and nobody has noticed.

| Action | Code |
|---|---|
| `Prepare` | the recipe is found, read and its UUIDs drawn |
| `RunScript`, `ScriptsDone` | the loop over the scripts; the target decides on the connection (`DatabaseOf`) and on `used_targets` (`UsedTarget`) |
| `StoreObject`, `ObjectsDone` | the loop over the S3 objects |
| `CommitNext`, `AllCommitted` | one commit per database, the default one first |
| `RollbackNext`, `AllRolledBack` | the handler of `_execute` |
| `ScriptFails`, `StoreFails`, `TimeOut`, `LoseConnection`, `LoseOutcome`, `Crash` | faults |
| `Pick`, `Record`, `RecordInFailedTransaction`, `RetriesRunOut`, `Wait` | the queue around the job |

A script that names a database the configuration does not have runs in the
default one, and so does one without target. Every load draws fresh UUIDs,
therefore the items of two attempts differ and what an attempt that failed has
put into S3 stays there as an orphan. `unclean` collects the runs whose leftovers
nobody rolled back: a timeout is no `Exception`, and a roll-back that raises
leaves the databases behind it open.

### MailConfig, Mailer

`MailConfig` is how a setting becomes what a sender is prepared with: the
environment before the file (`Setting`), the older layout of the file and the
AWS section (`AppConfig`), the row of the database over that (`Merge`). Hosts and
secrets are abstracted to where they come from; modes, ports and switches keep
their values, because `none`, `False` and `0` are the interesting ones. A port of
0 is as good as none (`IsSet`): the default of the security mode is taken, in the
settings and in the row. In the older layout the port has become text before it
is looked at (`AsText`), and the texts `None` and `0` count as set: both are
`NotAPort`, at which no server can be addressed. An empty `ssl` is not set.

`Mailer` is `MailerWorker.work` step by step: `Load` (parse the body), `GetUser`,
`GetDefaultLocale`, `MakeRequest`, `GetMailConfig`, `HasTemplate`, `LoadLocale`,
`Render`, `Send`. `style` and `installed` are shared by all mails of the process
(a class attribute and the Jinja environment). `SendFails` is one try of tenacity
that failed, with the mail accepted by the server or not. `ReadFails` is a SELECT
that raises: the readers log the exception and return None, so the job goes on
without locale or configuration (`degraded`) in a transaction that has failed.
The rate limiter is left out because nothing ever calls its `hit`.

### DocumentEntities, DocumentContext

`DocumentEntities` is what is loaded: entities of the knowledge model and replies,
each with the fields that `resolve_links` and the visitor look at. A uuid may
name nothing or an entity of another kind. In `DocumentContext` the recursion of
the source is a stack of frames, `todo`; an action pops a frame, does what the
method does and pushes the calls it makes.
A comprehension with a condition is `Kept`, a recursive function
like every recursion in these modules, so that theorems can be proved about them.

| Action | Code |
|---|---|
| `Load` | `DocumentContext.__init__`, `from_dict` of everything below |
| `NumberPhases`, `ResolveUnnumbered`, `ResolveModel`, `ResolveEntity`, `ResolveQuestion`, `ResolveFileQuestion` | `KnowledgeModel.resolve_links` and below |
| `ResolveReport`, `ResolveReply` | `resolve_links` of report and project |
| `StartVisit`, `VisitListQuestion`, `VisitOptionsQuestion`, `VisitOtherQuestion`, `VisitItem` | `ReplyVisitor` down the questionnaire |
| `StartTitles`, `PopItem`, `FollowSameAs`, `CopyTitle`, `ShowTitles` | titles of items that select other items |

### DocumentExtraction

`extract_replies` on the objects of a context: `extracted` is
`SimpleExtractor._objects`, a dictionary from paths to objects, each from names
(the annotation `json.key`) to what the value is made from. `ExtractChapter`,
`ExtractReply`, `ExtractChoices`, `ExtractAnswer` and `ExtractItems` are the
`_visit_...` methods. The configuration is left out: `_merge_config` writes the
defaults over what the template passes, which therefore changes nothing.

### DocumentBuild

`CreateStep`, `FormatCreated` are `Format.__init__` with the constructor of every
step (`Creates`: what a step checks of its options). `ExecuteStep`, `Refuse`,
`StepFails` are `execute_first`/`execute_follow` (`Accepts`, `Outputs`; whether
a workbook is an xlsx or an xlsm is decided by the document, hence a choice).
`BuildObjects` lets `DocumentContext`, then `DocumentExtraction`, run inside a Jinja step. `StartPandoc`,
`PandocExits`, `PandocExpires`, `ExpireAtOnce`, `Collect` are `run_conversion`:
pandoc is a process of its own; when the timeout strikes nobody kills it, and the
`with` block around `Popen` waits for it all the same. A file is its format;
what libraries make of the content is a choice between that format and an
exception.

### TemplateSync

`dsw-tdk put --watch`. `held` is `TDKCore.template`; `fresh` is the template of
the `TemplateProject` when it is another object, which happens between
`load_descriptor` and the assignment at the end of `_update_descriptor`, and
after an exception in between. `Put`, `StoreDraft`, `Cleanup`, `Upload` are
`store_remote`; `TakeBatch`, `ReloadDescriptor`, `ReloadReadme`,
`UpdateDescriptor`, `ProcessChange` and `EndBatch` are the `ChangesProcessor`;
`UpdateFile`, `DeleteOld` and `PostFile` are the three requests of
`_update_template_file`, each of which can raise with or without effect. A file
is a version. External: watchfiles collects changes in a set, and the server
accepts two files of one name (`cleanup_remote_files` expects that). Handlers
with one request are one action: the content is read before the request, and a
later edit is a later change. A `PUT` that would rename a draft, after a full
reload failed at its first request, is not modelled.

## Runs

| Run | Instance | Question |
|---|---|---|
| `queue_single` | 1 listening process, 2 commands, 2 attempts, 1 fault, fair | repeats need faults, refinement of the life cycle, commands settle, failed transactions and interrupted processes end |
| `queue_multi` | 2 listening processes and 1 lambda, 1 command, 2 attempts, 2 faults, no lost connection | overlap needs a back-off, at most `2^MaxAttempts - 1` runs, who writes over Done |
| `document_single` | 1 worker, 2 documents, 3 attempts, 2 faults, fair | row, file, command and quota agree; documents settle |
| `document_multi` | 2 workers, 2 documents, 1 fault | what survives overlap and a shared quota |
| `document_stale` | 1 worker, 2 documents, stalls and lost connections | **violated**: a timeout is written to another document |
| `template_cache` | 1 file, 1 asset, 2 paths, 2 versions, 2 faults, fair | a job renders from what it has read; what was deleted is gone; refreshes converge |
| `sync` | 1 file, 2 template ids, 4 steps of the user, 1 fault | the draft follows the files |
| `sync_reverts` | 1 file, 1 template id, no fault | **violated**: the draft goes back to old metadata |
| `seeder` | 3 recipes over 3 databases, 3 attempts, 2 faults, fair | done means seeded, runs leave all or nothing, commands settle |
| `mailer` | 2 mails, 7 settings, 9 rows, 6 kinds of commands, 3 attempts, 2 faults, fair | language, style and server of a mail; done means delivered; mails settle |
| `document_build` | three families of contexts with one format; one context with every format of at most 3 steps; fair | links, titles, extracted replies, formats; a build ends |
| `document_required` | the same | **violated**: a file question never learns whether it is required |

Bounds, and why they are enough.

- `Horizon` is long enough for every back-off of a command that is inserted
  (`Enqueue` is guarded so); without that liveness would fail by the end of time.
- Two attempts show every combination of a first and a last attempt; three are
  used where stale attempt numbers can be written back twice. The bound on runs
  was also checked with three attempts and three processes (2.3 million states).
- `MaxFaults` is 1 in `document_multi` for time only: its four properties are proved
  for any number of faults. `FinishedStays` speaks of documents that nothing holds on
  to (`Settled`): a connection that is lost while a document is marked keeps
  `current_job`, and a later timeout then writes to the earlier document, which is
  what `document_stale` reports.
- `MaxFaults` is smaller than `MaxAttempts` wherever a run says that something
  settles: with as many faults as attempts every attempt may fail, and the
  outcome is an error, as it should be.
- Three file sizes below, at and above the limit, and a signed limit in
  `document_single`, meet the strict comparison of `LimitsEnforcer` on both sides.
- Two paths let a file and an asset swap places and a row be renamed; two
  versions let a row change once between two reads.
- Four steps of the user are a start of `put` and three changes; two files
  instead of one were checked as well (17 million states, no error).
- The recipes of `seeder` name the default database, one and two extra ones, and
  one that does not exist, with and without objects; two faults break a run and
  then its roll-back or its retry.
- The settings of `mailer` are a table (`MCMailer`): every provider, each
  security mode by itself and overridden, the old layout, a port of zero in the section
  `smtp`, in the old layout and in the row, an empty `ssl`, a part of the AWS
  keys, mail switched off; the second mail sees what the first one
  left in the process.
- `document_build`: three items are enough for chains of two steps, circles, and
  circles with a tail; lists are nested two deep; one answer is chosen, one is
  not, one is listed by no question; questions are annotated in one object and in
  nested ones, two of them with one name. Three steps are a first one, a middle one
  that both consumes and produces, and a last one.

Symmetry is used in safety runs only, over sets nothing orders.
`CHECK_DEADLOCK FALSE`: in the `sync` runs the user may stop; in `document_build`
and `document_required` a build ends.

Fairness. `CommandQueue`: every step of a process is taken eventually (the
operating system schedules it, the supervisor restarts it, `select` has a
timeout, `worker.work` returns or is stopped) and time passes. Without a
configured timeout `work` is assumed to return. `DocumentJob`, `DataSeeder`,
`Mailer`: the same for one worker. `TemplateCache`: jobs keep coming and finish
unless interrupted. `DocumentBuild`: the worker is scheduled, and pandoc exits
some day, with or without success; no fairness is given to its timeout. Nothing
is assumed of the server, of users, of signals or of faults. `CommandsSettle`
speaks of finitely many commands: `ORDER BY attempts ASC, updated_at DESC` lets
an endless stream of new commands starve old ones.

## What the runs show

- With one process the queue is at-least-once, and a repeat needs one of the
  four faults. With several, a command in hand longer than its back-off is
  picked again, and its runs write stale attempt numbers over each other: the
  number of *attempts* stays within the budget, the number of *runs* does not,
  but is bounded by `2^MaxAttempts - 1` if no connection is lost.
- A failed transaction of `conn_query` is never rolled back; only the end of the
  process, after `RETRY_QUEUE_TRIES` exceptions, gets rid of it.
- PROCESSING is never visible outside of a job, and a FINISHED document always
  has a file. With two workers its size may differ from the row, and a quota may
  be exceeded by less than one largest file per additional worker.
- `document_stale`: `current_job` survives a job that raised
  (`worker.py:475-477`), so a later timeout that strikes before its own job is
  constructed marks the earlier document FAILED. A timeout after `finalize` marks
  the finished document FAILED as long as `current_job` is not reset; after the
  reset the row stays FINISHED beside a command in error, and the next attempt
  refuses a finished document and marks it FAILED.
- The template cache converges and never serves content older than the rows it
  has read, except at a path where an asset was unlinked after a file was stored
  (`removed`), where the two SELECTs saw a clash, and at a path whose rewrite of
  an *unchanged* file was interrupted after the truncation (`torn`): that one is
  never repaired until the row changes or the process restarts. A rename leaves
  the old path behind (`moved`). `TemplateRegistry.cleanup` is never called.
- `sync_reverts`: after a change of `template.json`, `_update_descriptor` puts
  the template of the original upload back (`core.py:590`), with its old
  metadata; the next change of the README uploads them.
- The exceptions of `EveryFileIsUploaded` (`excused`) are where watch mode does
  not follow: a deletion is not uploaded (`delete_file` skips a path that is no
  file any more), a file that is deleted and rewritten within one batch may be
  removed from the draft (the batch is a set), changes made while `put` uploads
  are not seen, a batch with an unreadable descriptor is dropped, and a draft
  that somebody deleted is stored again without files when the descriptor
  changes. The next change of the file repairs each of them.
- `seeder`: a Done command has been seeded as a whole by one of its attempts,
  although there is no common transaction. What is not clean: a job timeout
  (`FunctionTimedOut` is no `Exception`, `seeder.py:457`) skips the roll-back, so
  half of a run stays open in an extra database and is committed by whichever run
  commits there next; a commit that raises is outside of the handler as well
  (`seeder.py:478-481`) and leaves the databases behind it open in the same way,
  as does a roll-back that raises. Attempts that fail leave objects in S3 that no
  row names.
- `mailer`: no mail is rendered in the language of another one, nor in the style
  of another one when its command sets a style; one that sets none has the style
  of whichever command set it last in this process (`dsw-mailer`, `model.py:100`). A failing
  database never stops a mail: it is sent in no language and by the application's
  server instead (`database.py:417`), then its outcome cannot be recorded and it
  is sent again. The modes `none` and `starttls` are not understood, the old
  switch `ssl: False` means SSL when it is a string, `MAIL_ENABLED=false` in the
  environment means True, and the row's own `enabled` is ignored. A port of 0
  means the default one (`config.py:233`, `config.py:461`), while the old layout
  without a port, or with a port of 0, has no server a mail can be sent by. A server that a
  row configures is never logged in to: `merge_mail_configs` sets user and
  password after `MailSMTPConfig()` has decided that there are none
  (`config.py:235`, `config.py:443-463`).
- `document_build`: every format of at most three steps either fails or yields
  what its last step declares. `FileFormats.get` knows N-Triples as `ntriples`
  and `n-triples` and not by its own name `nt`, which is refused; a Jinja step
  with the extension `md` does not fit a pandoc step from `markdown`. An expired
  conversion occupies the worker until pandoc exits by itself. A project without
  phase makes every question with a phase required.
- Every reply that can be reached is extracted into the object it belongs to, and
  nothing else is, except that of two questions with one annotation in one object
  the later one wins, even without a reply. A list without annotation hides what
  is annotated below it. `extract_replies` ignores its configuration
  (`extraction.py:270`), which also keeps `include_reply_objects` from being
  reached: with it every annotated list would raise (`extraction.py:202`, `:221`).
- Titles of items are a function of the replies except for items that select one
  another in a circle: these depend on the order of the replies.
- `document_required`: `FileQuestion.resolve_links` does nothing
  (`context.py:1446-1447`), so `is_required` stays None; the documentation
  promises it of every question.

## Proofs

The `...Proofs` modules prove, for every value of the constants (any number of
workers, commands, documents, files and databases, any bound of attempts, faults,
edits and time, any knowledge model, project and format):

| Theorem | Property |
|---|---|
| `CommandQueueProofs!TypeCorrect` | `TypeOK`: Type correctness, with which states hold a command, for any number of workers and commands. |
| `CommandQueueProofs!BudgetCorrect` | `AttemptsWithinBudget`: No row and no run exceeds the budget, however runs overlap and whatever faults occur. |
| `CommandQueueProofs!DoneCorrect` | `DoneMeansFinished`: A row is Done only if its work completed, through an invariant on runs that succeeded and are not recorded. |
| `CommandQueueProofs!DoneReopenedCorrect` | `DoneReopenedOnlyByOverlap`: A Done row is never picked again and only written over by a run already in flight. |
| `CommandQueueProofs!IgnoredCorrect` | `IgnoredStaysIgnored`: An ignored row that nobody has in hand is never touched again. |
| `CommandQueueProofs!OverlapCorrect` | `OverlapOnlyAfterBackoff`: Without lost connections, two workers share a command only after its first back-off. |
| `CommandQueueProofs!StartCorrect` | `StartSeesFreshRow`: Without lost connections, the row lock makes the read of attempts and its update one step. |
| `CommandQueueProofs!ChargeCorrect` | `RunsAreCharged`: With one worker, every run is charged before it begins. |
| `CommandQueueProofs!RepeatsCorrect` | `RepeatsNeedFaults`: With one worker, completed runs exceed one only by the number of faults. |
| `CommandQueueProofs!DoneFinalCorrect` | `DoneIsFinal`: With one worker, a Done row is never touched again. |
| `CommandQueueProofs!DoublingCorrect` | `RunsWithinDoubling`: Without lost connections, a command is run at most 2^(MaxAttempts) - 1 times, by a potential that every start of a run uses up. |
| `CommandQueueProofs!LifecycleCorrect` | `ImplementsLifecycle`: With one worker, the queue implements the life cycle of a command, step by step. |
| `DocumentJobProofs!TypeCorrect` | `TypeOK`: Type correctness for any number of workers and documents; an uncommitted UPDATE holds the lock of its row. |
| `DocumentJobProofs!ProcessingCorrect` | `ProcessingNeverCommitted`: No path through errors, timeouts, failed transactions and lost connections commits PROCESSING. |
| `DocumentJobProofs!FileCorrect` | `FinishedHasFile`: A FINISHED document has its file in S3, however jobs overlap and fail. |
| `DocumentJobProofs!ReportCorrect` | `DoneMeansReported`: A done command has reported its document unless its job lost a connection. |
| `DocumentJobProofs!SettledCorrect` | `FinishedStays`: A settled FINISHED document keeps its row and its file, whatever overlapping jobs, errors and timeouts do. |
| `DocumentJobProofs!QuotaCorrect` | `OvershootBounded`: Jobs that check the quota before they store overshoot it by less than one file per other worker, for any number of workers and documents. |
| `DocumentJobProofs!FileMatchesCorrect` | `FileMatchesRow`: With one worker, the file in S3 is the one the row of a FINISHED document describes. |
| `TemplateCacheProofs!TypeCorrect` | `TypeOK`: Type correctness; a job renders only from a registered template with no row left to handle. |
| `TemplateCacheProofs!FreshCorrect` | `TemplateIsFresh`: A job renders from the files and assets it has read, after any edits, interruptions and crashes, except for the named cases of unlinked and torn paths, clashes and missing assets. |
| `TemplateCacheProofs!DeletedCorrect` | `DeletedIsGone`: As long as no refresh was interrupted, what was deleted from the template and was never renamed is not on disk. |
| `TemplateSyncProofs!TypeCorrect` | `TypeOK`: Type correctness, with what is held at each step of a request. |
| `TemplateSyncProofs!ReadmeCorrect` | `ReadmeIsCurrent`: At rest, the README of the draft is the local one, although two templates in memory remember it, unless its upload failed. |
| `TemplateSyncProofs!LinksCorrect` | `FilesAreLinked`: At rest, a tracked file is in the draft only under the uuid that the project remembers, unless requests or batches about it failed. |
| `TemplateSyncProofs!UploadCorrect` | `EveryFileIsUploaded`: At rest, every local file that is not excused is in the draft with its content on disk, for any number of files, renames and edits. |
| `MailerProofs!TypeCorrect` | `TypeOK`: Every variable keeps its type for all settings, rows and mails: the tries of the sender stay within RETRY_SMTP_TRIES, and a job has a run. |
| `MailerProofs!RenderedCorrect` | `RenderedForRecipient`: Every mail is in the language of its recipient, or in none when something could not be read, and in the style its command sets, although all jobs of a process share the locale and the style. |
| `MailerProofs!ServerCorrect` | `SentByNamedServer`: For all settings and rows, a mail leaves by the server its command names, or by the one of the application when the row cannot be read, with the credentials that belong to that server and at its port. |
| `MailerProofs!DeliveredCorrect` | `DoneMeansDelivered`: A command that is done was delivered, whatever tries failed, unless mail is disabled. |
| `DataSeederProofs!TypeCorrect` | `TypeOK`: Every variable keeps its type and a worker that is in a job has a run, for all recipes, databases and faults. |
| `DataSeederProofs!SeedsCorrect` | `SeedsAreWhole`: A run that neither timed out nor failed to roll back has all or nothing of its scripts in each database, and of a rolled back run nothing is left, committed or open, for all recipes, sets of databases and numbers of faults. |
| `DataSeederProofs!DoneCorrect` | `DoneMeansSeeded`: A command that is done has been seeded as a whole, in every database and in S3, by one of its attempts. |
| `DocumentBuildProofs!TypeCorrect` | `TypeOK`: In every state of a build of any document the loaded objects are typed, every call that is still to be made is about an entity that exists, and a conversion runs only while the build waits for it. |
| `DocumentBuildProofs!FormatCorrect` | `DocumentFitsItsFormat`: For every format, of any length: a document is what the last step declares, and every step was given a file it can read. |
| `DocumentBuildProofs!PhasesCorrect` | `RequiredFollowsPhases`: For every knowledge model, however deep, with its phases listed in any order: once the objects are built, a question that the model leads to is required exactly if its phase has come, and no other question was compared with a phase at all. |
| `DocumentBuildProofs!LiveCorrect` | `LiveItemsAreTitled`: For every knowledge model and every project: the items that get a title are those that a live path leads to, through lists and chosen answers at any depth; replies that were left behind add none. |
| `DocumentBuildProofs!TitlesCorrect` | `TitlesAgree`: For every project in which an item is an element of one list (ItemsAreOnce): items that name one another have one title, that of the item at the end of their chain, whatever the order in which they are visited and followed; cycles are the exception. |
| `DocumentBuildProofs!ExtractionCorrect` | `RepliesAreExtracted`: For every knowledge model that is a tree and every project in which a reply answers a question by one of its own answers (IsTree): each reply that a live path leads to is extracted into the object it belongs to, and nothing else is, however deep the lists and chosen answers are nested. |

Assumptions are the named ones of the modules: `QueueAssumption`,
`PowerAssumption` (that `2^a` doubles, which the provers do not know), both
`DocumentAssumption`s, `TemplateAssumption`, `SyncAssumption`, `MailerAssumption`,
`SeederAssumption`, `ContextAssumption` and the three `NoneAssumption`s (that a value
that stands for absence is none of the others). They make the sets that are counted
or summed over finite (workers, documents, names of files, entities, items), say that
the contexts are such as the server writes (`IsContext`), and bound nothing else;
`Cardinality(Names) < MaxItems` leaves room on the server for one upload of every
file. TLC evaluates all of them. Four theorems about the queue and one about the
document job have the hypothesis `OneWorker`, three about the queue
`"connection" \notin FaultKinds` (a lost connection releases the row lock), and
`TitlesCorrect` has `ItemsAreOnce` and `ExtractionCorrect` has `IsTree`; each is named in
the statement.

**Queue.** `TypeCorrect` is proved together with `HandsOK` (a process has a
command in hand exactly from the SELECT to the outcome), which is what makes
`job[w].command` a row in all actions. The theorems for several processes use
`StepKinds`: a step either leaves the rows and the hands as they are (`Quiet`)
or is one of a few that do not, so that each invariant is proved against those
only. `DoneMeansFinished` is not inductive: `SuccessInv` adds that a process
about to record success has completed its work. `OverlapOnlyAfterBackoff` and
`StartSeesFreshRow` are proved together (`OverlapInv`): a second worker that
holds the command must have picked it, so the row was eligible, its attempts
were charged and its back-off had elapsed. The theorems about one process use
`SingleInv`, which relates the job in hand to the row it was read from and counts
completed runs against faults.

`RunsWithinDoubling` is proved by a potential: a row with `a` attempts is worth
`2^(MaxAttempts - a) - 1` runs, a run in flight is worth as much as the attempt it
will write back, and no step increases what has been started plus what is still
worth something (`DoublingInv`); the start of a run pays for itself. The sum over
the processes is `SumFunction` of the community modules; `SumProofs` shows what it
does when one value changes, by induction through a least counterexample (a set of
least cardinality), since the induction theorems of the library are out of reach.

`ImplementsLifecycle` is a refinement: with the state of a row that is picked but
not yet charged mapped to "queued", every step of the queue is a step of
`CommandLifecycle` or none. It needs `SingleInv` and `LifeInv`: the attempt of the
job in hand is at most one ahead of its row, and level with it once it is charged
(`HandIsCharged`), so that a retry moves the abstract attempts by exactly one.

**Document job.** The inductive invariant is `JobInv`: three of the properties and,
for every worker, `TxInv` (an uncommitted UPDATE is on a row that exists, and
FINISHED only over a stored file), `ProcessingInv` (an uncommitted PROCESSING
belongs to the job that goes on, or to a timeout whose `current_job` still points
to it), `CurrentInv` (`current_job` is the job in hand while it runs), `FileInv`
(there is a file from the store on) and `SuccessInv` (a job that reports success
has written FINISHED or FAILED, found the document gone, or lost its
connection). `QuotaInv` bounds the committed sizes and those in hand together: the
check of one job is made against the rows, and every other worker can have passed
its own check before, with one largest file each. `MatchInv`, for one worker, adds
that the row of the job in hand is not FINISHED until it finishes it, and that what
it will write is the size of the file it has stored; once FINISHED is written, only
a timeout may still write (`Leaving`). `FinishedStays` is an action
property; an earlier form, without `Settled`, was refuted by the attempt to prove it,
through a `current_job` that survives a connection lost in `MarkFailed`.

**Template cache.** The argument is that the shortcut (a row with a known
`updated_at` and a file at its path needs no reading) may be trusted. `Later` orders
the versions of a row that were known, read and are in the table;
`CrossingsAreOutdated` says that where a file and an asset meet at a path, the row
that was there has left it, so the next refresh sees a change;
`UnchangedIsIntact` says that a row that has not changed is on disk as it is, or
not at all, unless its rewriting was cut off or its object was missing.

**Synchronisation.** `ReadmeInv` follows the README through both templates in memory.
`LinkInv` needs to know when there are two of them (`Diverged`), that what is to be
uploaded is tracked (`TodoIsTracked`) and that watch mode uploads one file at a time
(`OneAtATime`). `ContentInv` says, per step, why the draft has the content of a file
or will have it; it rests on `OwnIds`: a uuid that either template remembers for a
file is no other file's. The attempt to prove `EveryFileIsUploaded` in an earlier form
failed for a good reason: a draft that somebody deleted is stored again from a template
that need not know the last version of a file whose upload failed before, and the post
of that old version is no reason to strike the file from `excused`.

**Mailer.** `IInv` says of each step what has been decided by then and for which mail:
the locale until the request, what is installed in the environment until the mail is
rendered, the style that the class shares, the configuration. It is what makes the
leftovers of other mails harmless, since every value is set again before it is read
unless the command sets none.

**Seeder.** `Stage` says, per step of a job, which scripts of its run are committed
and open in which database, unless the connection was lost, which leaves nothing open
(`LostIsEmpty`). `RunsAreWhole` is the same for runs that are over, `RolledBackIsGone`
and `RunsAreCharged` keep one run's items apart from another's.

**Document build.** `FormatInv` says that what has been executed so far fits
(`FitsBefore`). `ObjectsTyped` types the objects, the stack of calls and the titles in
every stage. The stack is dealt with as a set of calls: lemmas say which calls an
action adds (`KeptFacts`, `FlattenFacts`, `VisitItemCalls`, ...).

- `RequiredFollowsPhases` (`ModelInv`): an entity has a parent exactly if
  `resolve_links` came by it or a call is on the way; when the stack is empty that is
  the least set that contains the chapters and is closed under listing. `InModel` is
  defined by as many rounds as there are entities; that this is enough is proved by
  counting, since a round that adds nothing ends it.
- `LiveItemsAreTitled` (`VisitInv`): the visitor is only on live paths, and for each
  live item without a title some call is at a beginning of the path to it.
- `TitlesAgree` (`TitlesInv`): an item that was visited has the title and the name that
  the reply to its first question gives (`NamesAreRight`, `TitlesAreOwn`); the chain
  that is followed has met everything it came by (`HopMet`); an item that waits no
  longer has the title of the end of its chain (`TitlesAreRight`). The end of a chain
  is not titled by another one, hence what was copied stays equal.
  `ChainEnd` goes as many steps as there are items; the proof only needs that the
  chain stays in a set closed under `sameAs` and that neighbours share an end. The
  hypothesis `ItemsAreOnce`, an item is an element of one list at one place, is what
  the uuids of the client guarantee; it holds in every context of `document_build`.
- `RepliesAreExtracted` (`ExtractInv`): every call of the extractor is on a live path, in
  the object that path belongs to (`RightCall`): that of the nearest list item, annotated
  chapter or answer to an annotated question above it (`HomeOf`). Every value in an object
  is the worth of a reply that belongs there (`ValuesAreRight`); and for each reply to be
  extracted some call is still to be made at a beginning of its path, or its value is in
  its place (`RepliesComing`). What has to be shown is that a value in its place stays
  there, although `Record` writes over what it finds: no two live paths lead to the same
  question in the same object (`NoTwins`). Two such paths would have two shorter ones above
  them (`TwinsAreShort`), so there are none of least length.
  The hypothesis `IsTree` is what that argument uses. `ListedOnce`: no entity is listed
  under two others; otherwise two live paths may end with the same question in the same
  object, and the later reply wins. `AnswersAreListed`: an answer that replies to an
  options question is one of that question's own; a reply left from another question
  would lead to a follow-up question along two paths. The code checks neither and relies
  on whoever wrote the document context. TLC found `IsTree` and `ExtractInv` true in every
  state of `document_build` before the proof was begun.

`LeadsOn` and `Live` were restated for these proofs: as a CASE the guards of `LeadsOn`
overlapped, and `Live` accepted some paths through an answer that the model no longer
leads to.

No run repeats `AttemptsWithinBudget`, `DoneMeansFinished`, `IgnoredStaysIgnored`,
`StartSeesFreshRow`, `RunsAreCharged`, `DoneIsFinal` and the `TypeOK` of the queue:
they hold for every instance by the theorems above.

Model-checked only: liveness (`CommandsSettle`, `FailedTransactionEnds`,
`InterruptedProcessEnds`, `DocumentsSettle`, `DirectoryHeals`, `SeedsSettle`,
`MailsSettle`, `BuildEnds`), which is out of the prover's reach. Every invariant and every
action property that a run expects to hold is also a theorem.

## Not modelled

- Threads that outlive `func_timeout` and go on writing: `WorkFinishesLate` and
  a `TimeOut` with a completed put or delivery stand for the end of such a
  thread, not for one that runs into the next job.
- What Jinja, pandoc, WeasyPrint, rdflib, xlsxwriter and docx templates make of
  content, with the workbook builder of `excel.py` and the filters that format text; message formatting, argument parsing, logging, Sentry.
- Metrics, users, colours, comments and the other attributes of the context that
  link to nothing.
- Plugins (code outside of the repository), the pydantic classes of `dsw-models`,
  the validation, package and listing commands of the TDK: no state.
- The style of a mail whose command sets none.
- Lambda-only deployments of the queue are covered by safety (`queue_multi`, the
  theorems, which hold for any `OneShot`), not by a liveness run.
- `run_once` of the document worker and the selection of a tenant: they change
  nothing a job sees.

## Plan

1. Done: the queue, its life cycle, the document job, their main theorems, the
   template cache, put and watch.
2. Done: the context with its visitor, extraction, the chain of steps of a format, the
   mailer with its configuration, the seeder.
3. Done: theorems for the safety of every module, the refinement of the life cycle.
   Every invariant of the passing runs has its theorem.
4. Then: the metamodel version check of TDK and worker, get and bundles of the
   TDK, the readers of the other settings.
