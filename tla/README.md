# Verification of email_intel (signal-shard)

email_intel reads a user's mail with Microsoft Graph, decides for every
conversation who owes whom an answer, and writes the decision back: one To Do
task per open conversation and one `AI-...` category on its latest message.
This directory holds TLA+ models of that decision and of its writeback, the TLC
configurations that check them, and TLAPS proofs.

All source paths are relative to `src/src/email_intel/` unless they start with
`src/`.

## 1. Inventory

| Component | Source | State it keeps | Operations |
|---|---|---|---|
| Reducer | `reducer/*.py` | none (pure) | `reduce`: table, guards, priority, sentinels, override and review branches |
| Pipeline | `pipeline.py` | a database session per batch | load and classify, reduce, write back, commit or roll back, one conversation after the other |
| Writeback | `writeback/apply.py`, `tasks.py`, `categories.py`, `dead_letter.py`, `operation_keys.py` | `conversations`, `todo_tasks`, `operation_keys`, `conversation_events`; To Do and Outlook | state columns, review guard, task intent, category intent, failure threshold |
| Schema and locks | `db/models.py`, `db/session.py`, `db/base.py` | SQLite (WAL), an `asyncio.Lock` per conversation | pair CHECK, partial unique index on active tasks, `busy_timeout` |
| Review UI | `review/routes.py` | `state_review_reason`, events | override, clear review, resolve a classification |
| Evidence | `reducer/evidence.py`, `ingestion/snapshot_builder.py` | none | snapshot of messages and classifications to a set of evidence |
| Classifier | `classify/*.py` | none | rules, gate, overrides |
| Ingestion | `ingestion/delta_sync.py`, `normalizer.py` | `messages`, `mail_folders.delta_token` | paged delta sync, 410 reset, upsert, tombstones |
| Webhook | `ingestion/webhook.py`, `graph/subscriptions.py` | an in-memory job queue, subscription expiries | accept notifications, renew subscriptions |
| Scheduler | `scheduler.py` | none | renewal (2 h), delta poll (10 min), defer sweeper (1 min), health (30 min) |
| Graph client | `graph/client.py`, `todo.py`, `mail.py` | the call in progress | five attempts, backoff, token refresh, pages |
| Authentication | `graph/auth.py` | token cache | silent acquisition, refresh, device flow |
| Wiring, settings, schemas | `app.py`, `config.py`, `schemas/*.py` | none | start-up |

How they interact. The scheduler's jobs, a one-off replay script
(`src/docs/runbook.md:155`) and, once it is wired, the webhook's job all end in
`process_conversations`, each with a session of its own. They share the SQLite
file and nothing else that matters: the per-conversation `asyncio.Lock` is taken
inside `apply_reducer_result`, after the first `INSERT` of the run has already
taken SQLite's write lock, so the write lock contains it. Reads open no
transaction (pysqlite begins one at the first DML statement), so a run decides
on what it loaded before it queued for the lock.

What is hard here: stale reads (the ORM object is never refreshed, and the unit
of work writes only columns that changed against the *loaded* value); calls to
Graph inside a database transaction, which a rollback does not undo; answers
that get lost; POSTs that the client sends again; permanent idempotency keys;
a 75-row decision table with guards and sentinels; a review state that several
parts are supposed to leave again; a label merged into categories other people
edit, from a mirror that lags; delta tokens that must not run ahead of the rows
when rounds are cut, replayed, overlap or die, and rows that are read long before
they are flushed; a classification history that is
read from its old end. `PROJECT.json` lists these hazards at their
lines with the properties that watch them.

What makes each component correct:

* reducer: total on the inputs it can get, priority by tier, pairs allowed, a new
  ask opens the thread, review stops writeback, operation keys name the effect;
* pipeline and writeback: one active task and the pointer on it (I2), no key
  executed twice (I6), no Graph write under review (I7), failures and keys in
  step, no task lost or leaked without a fault behind it, locks released;
* label: never two of them, a user's edit is not lost, the row's etag vouches for
  its categories; Graph client: bounded retries, a refreshed token is used;
* ingestion: the mirror converges to the mailbox, the delta link never runs ahead
  of the rows, mail of an open conversation is reduced in the end;
* classifier and evidence: rules alone authorize nothing and leave asks to the
  review, machine mail is filed as such, an ask opens a thread whatever was filed
  before, an answer closes the ask again.

## 2. Modules

| Module | Models | Notes |
|---|---|---|
| `Reducer` | `reduce()` and everything under it | operators only, no variables; the inputs are records |
| `MCReducer` | | a call of `reduce()` per behaviour: `inp` what it got, `out` what it answered |
| `Lifecycle` | what the transition matrix promises about (state, bucket) | abstract specification; `Pipeline` and `Thread` implement it |
| `Pipeline` | one conversation: workers, SQLite, To Do, Outlook, review UI, delta sync, crashes | extends `Reducer` |
| `MCPipeline` | | the evidence sets the checked instances use |
| `GraphClient` | one call of `GraphClient.request` with its token | what Graph does to its data is left to the composing module |
| `CategoryPatch` | the category of one message: Outlook, the row, a user, the delta sync, label jobs | extends `GraphClient` |
| `DeltaSync` | mailbox, mirror, delta rounds of any number of jobs | no behaviour of its own |
| `Ingestion` | poll and folder job: sync, commit, batch of conversations | extends `DeltaSync` |
| `MCIngestion` | | the folders' order, the message's folder and conversation, what its changes set |
| `Snapshot`, `Classifier`, `EvidenceRules` | `build_snapshot`, `classify`, `detect_evidence` | operators only |
| `Thread` | one thread, polled for ever: mails, snapshot, classification history, `reduce` | extends `Reducer` and `EvidenceRules` |
| `MCThread` | | the mails the checked instance may receive |
| `Reducer_proofs`, `MCReducer_proofs` | | what `reduce()` returns, on every input; the properties of `MCReducer` from it |
| `Pipeline_proofs`, `PipelineSolo_proofs` | | theorems about `Pipeline`, with any number of workers and with one |
| `CategoryPatch_proofs`, `Ingestion_proofs` | | theorems about these modules |
| `Thread_proofs`, `ThreadRuns_proofs` | | what the classifier makes of any thread; what a thread under the poll comes to |

### Reducer

A row of `transitions.py` is a record of the same columns. Rows that differ only
in state and bucket are built by `Stay`, `Refresh`, `Move` and `Finish`; ids are
the table's (`T011` is 11). T080-T085, T090 and T103 are not rows: `reduce()`
returns through branches of its own before it searches the table for their
evidence, and the model has these branches in `Reduce`, in the code's order.
A guard says "yes", "no" or "raise": SQLite hands a soft window back without a
time zone, and comparing it with the aware `now` raises `TypeError`
(`completion = "soft_naive"`). `src/tests/ingestion/test_snapshot_builder.py:116`
and `src/tests/writeback/test_apply_task_intent.py:137` work around the missing
zone, the pipeline does not. Guards look at the evidence the *caller* injected
(`inp.evidence_set`), never at what was detected; the pipeline injects nothing.
An exception is a result with `raised = TRUE`.

### Pipeline

| Model | Code |
|---|---|
| `db`, `tx` | committed rows; rows as the session holding the write lock sees them |
| `writer`, `stage`, `plan` | holder of SQLite's write lock; where it is in `apply_reducer_result`; the `ReducerResult` |
| `seen[w]` | what worker w's session loaded: the conversation stays as loaded (identity map; never refreshed), the task row is loaded afresh by the step that writes it |
| `gtask`, `label` | To Do tasks linked to the conversation; AI category of the latest message |
| `faults`, `runs`, `messages`, `refused` | what the bounds count |
| `Read` | `build_snapshot`, `classify`, latest message |
| `Begin` / `Reject` | flush of the classification (write lock), `reduce`, state columns; or `reduce` raised or the CHECK refused the pair |
| `LockTimeout` | `busy_timeout` ran out: "database is locked" |
| `TaskSkipped`, `TaskNothing`, `TaskCreate`, `TaskCreateTwice`, `TaskUpdate`, `TaskMove*`, `TaskComplete`, `TaskReopen` | `apply_task_intent` with every outcome of its Graph calls |
| `LabelSkipped`, `LabelUnchanged`, `LabelPatch` | `apply_category_intent` |
| `Commit` | failure threshold, `flag_for_review`, `session.commit` |
| `Crash`, `ReviewClear`, `Deliver`, `Age` | process death; review UI; delta sync; the 24-hour window |

`Column(new, loaded, current)` is SQLAlchemy's unit of work: an attribute set to
the value it was loaded with is not written. A Graph call answers, fails without
effect, or takes effect and never answers (`Replies`); each of the last two
spends a fault. `failures` (E15) and `lag` (E13) are not among the checked
signals: no caller injects E15 and the snapshot never carries its counter; `lag`
leads to the same branch as `conflict`. `timer` and `due` cannot occur: nothing
writes `deferred_until`, and the snapshot stores the due date under another key
than `_e11_due_date_update` reads.

### GraphClient and CategoryPatch

| Model | Code |
|---|---|
| `call` | the loop variables of `request`: attempt, `refreshed`, where it waits |
| `token` | the cached token: accepted, rejected by Graph but not expired, expired, none |
| `GetToken`, `Reply`, `Refresh`, `Wake` | one pass of the loop; the 401 branch; the end of the backoff |
| `mail`, `row` | the message in Outlook, its row |
| `page`, `base` | what a running delta sync has fetched of it and not flushed; the row as that sync selected it |
| `FetchPage`, `SelectRow`, `ApplyPage` | the sync's page, its SELECT without a lock, its flush of the columns that differ from what it selected |
| `Load`, `Begin` | the worker loads the row before it has the write lock, and merges under it |
| `Exchange`, `Mismatched`, `Remerge`, `Reread` | guarded PATCH; 412, refetch, second merge; `patch_categories` without etag: GET and PATCH |
| `Succeed`, `Fail`, `Crash` | end of `apply_category_intent`; `record_failure` in `apply.py`; rollback |

A PATCH may take effect and stay unanswered, after which the client sends the
same `If-Match` again and gets 412 for its own write. `torn` is a ghost: the
row has an etag and categories of two versions. There are two ways to it: a job
that had refetched failed and left the new etag on the old categories, or a sync
flushed over a row that had changed since its SELECT (`Overtaken`), so that the
column it did not write is the other writer's. Category lists are sets; the code
compares lists, so a label that stands before a user's category is patched again,
and `Begin` allows both outcomes where the order decides. The operation key and
the review guard are in `Pipeline`.

### DeltaSync and Ingestion

Graph numbers the changes of a folder (`clock`); a delta token is the number of
the last change its holder was told of. A message belongs to one folder
(`FolderOf`); one that is moved is deleted there and another message elsewhere. A
round takes its link when it opens and delivers what it owes in any order, each
item as it was then or as it is now, possibly twice.

Autoflush is off (`db/session.py:24`), so a delivered item writes nothing.
`_upsert_message` selects the row without a lock and changes an object of the
session, or adds one:

| Model | Code |
|---|---|
| `round[j].objects[m]` | `base`: the row as the SELECT found it; `now`: the attributes as they are set; `twice`: a second object was added, since the SELECT does not see what was only added |
| `round[j].loaded` | the tokens of the folders as the session has them; the poll loads all of them before its first folder |
| `Working(j)` | what a SELECT of j sees: the committed rows, or its own once it holds SQLite's write lock |
| `Deliver` | one item of a page: `normalize_message` and `_upsert_message` |
| `Flush` | the flush at the end of the folder (`delta_sync.py:162`) or of a reset (`:121`): it takes the lock and writes the columns that differ from `base` (`Column`, `Written`) |
| `Clash`, `FlushFails` | the flush inserts a message twice, or one that has got a row: `UNIQUE(graph_message_id)` refuses it and the whole sync is rolled back |
| `CutShort` | an iteration that ends without a link: a page answered 404, or `delta()` met an empty last page and yielded nothing to carry the link |
| `CommitSync`, `Abandoned` | the caller's commit after the last folder; rollback |

A row is a status, a version (`ver`: the etag, which no two changes share) and a
content (`ContentOf`: `categories_json`, `is_read`, columns that a later change may
set back to an earlier value). The content is what makes the unit of work visible:
a round whose item has the content this session read, but not the row's present
one, leaves the present one under its own etag.

`missed` is a ghost with what a flush leaves behind the mailbox for good
(`LeftBehind`), until the row shows the mailbox again: a row that mixes two versions,
as another job wrote it after it was read; an item stored by a round that a newer
token has overtaken; a message that was deleted before a full round, which does not
mention it. `TokenVouches` says that there is nothing else, and needs each of the
three: TLC refutes it when any one is dropped.

`delta_sync.py` is modelled against the protocol it declares (`_MailOps`, pages
with values and a link). As wired, `GraphClient` has no `.mail`, so the first
sync raises `AttributeError`; and `graph/mail.py` yields pairs, which
`_extract_values` would ignore. `DeltaTokenInvalidError` is raised by fakes only.

In `Ingestion` a job is `sync_folder` for its folders, the commit, and the batch:
every conversation not in done for the poll, the touched ones for the folder job
(`process_folder_sync_job`, which nothing calls yet). `UserExpired` is the effect
of a rollback on the rest of the batch: the expired user cannot be loaded outside
an await, so each later conversation fails in the same way. What a run does to
the conversation is `Pipeline`'s; here it leaves it open or done.

### Snapshot, Classifier, EvidenceRules and Thread

A mail is the set of its marks: for every regular expression, header or list the
rules consult, whether it is there. A snapshot has every synced mail at its place
in the order of `received_at`, with gaps where one has not been synced yet. The
patterns of Stage A and of the evidence
are different ones, so they are different marks; where one implies the other the
mails are `Coherent`. Confidences are hundredths. The rules are applied in the
code's order, each on what those before it have filed.

`history` is what `classifications_json` carries: at most five, newest first, and
the evidence reads the *end* of the list. The snapshot is built before the run's
own classification is stored. `Run` is the poll's: nothing happens to a thread in
done. Several kinds of evidence never occur here and the model shows why: the
keys `defer_until`, `due_at`, `delete_candidate`, `newsletter` and the failure
counter are not those the snapshot writes; `deferred_until` is never set; Sent
Items is synced and stamped before Inbox is read, so an answer that is in the
snapshot never comes after a mail that is newer than the stamp, which `lag` needs.

## 3. Runs

| Run | Instance | Shows |
|---|---|---|
| `reducer_inputs` | every pair of columns the CHECK admits, every pointer and completion kind, up to 3 pieces of detected evidence, three injected sets, overrides | see the properties in `MCReducer` |
| `pipeline_faults` | 1 worker, 3 runs, 10 signals and silence, 2 faults, 1 new message, policy `fyi` | I2, pointer, state/task agreement, leaks, failures and keys, I6, I7, `Lifecycle` implemented |
| `pipeline_race` | 2 workers, 4 runs, 5 signals and silence, 1 fault, policy `clear` | what survives stale reads: leaks are paid for, keys and failures, I6; the write lock comes free |
| `label_merge` | 2 labels, 1 user category, 2 label jobs, 1 edit, 1 token event, 1 fault, 2 attempts per call | labels never stack, lost edits are accounted for, etags vouch, a finished job shows its label, a refreshed token is used, jobs end |
| `ingestion` | 1 message, 2 folders, poll and folder job, 2 conversations, 3 changes (the last one sets the content back), 1 fault | tokens run ahead of no rows but those a flush is known to leave behind; the mirror catches up with the others; mail of open conversations is reduced |
| `thread` | up to 3 mails of 17 kinds, policy `fyi`, polls for ever | what classifier, history, evidence and reducer together make of asks, answers and machine mail; that an answer settles; `Lifecycle` implemented |
| `review_cleared`, `hard_done`, `list_drift`, `stale_review`, `reopen_row` | small, no fault at all | one violated promise of the documents each (section 5) |
| `reply_unseen` | the instance of `thread` with 2 mails | the sixth (section 5) |

Bounds. Three runs are what it takes to open, change and resolve a thread, and
to meet a used key; two faults make a lost answer followed by a crash, or a move
that fails half-way twice; with two workers, four runs give each of them a run
before and a run after a race. `MaxTasks` must be at least `MaxRuns + MaxFaults`
so that Graph never runs out of ids (a run creates at most one task, plus one per
fault); the passing runs keep to that, so no behaviour is cut off there.
`FailThreshold` is 2 instead of 5, so that the review flag is reached.
In `label_merge` one edit and one fault meet a job at every step it can be at;
two jobs make a failed one followed by one that reads what it left; two attempts
are one that is not the last and one that is. In `ingestion` three changes are
an arrival, an update and one that sets back what the update set, which is what a
mixed row takes, or a deletion; they come between any steps of two overlapping
rounds; the message belongs to the second conversation of the batch, so that a failure of
the first reaches it. In `thread` a conflict needs three classifications and a
listed one drops out after five; polls are not counted, so histories grow as far
as the code lets them, and three mails are an ask, an answer and what comes after.
The runs end when the bounds are spent, hence `CHECK_DEADLOCK FALSE`.
`Workers` is not declared symmetric because of the liveness property.

Some properties of the single worker do not survive two workers. Under
`pipeline_race`'s instance TLC refutes `ActiveRowIsNamed`, `PointerIsLive`,
`StateMatchesTask` and `ReviewFreezes`: all through stale reads. The last one
contradicts a document and has a run of its own (`stale_review`); for the first
see section 5.

Two properties of `Thread` have conditions that the code needs. `AskIsHeard` leaves
out mail that asks and speaks of a resolution in one breath: a resolution outranks
an ask. `ReviewHasACause` allows the marks under which the rules are sure (machine
mail, the user's lists): only a sure classification can contradict another one.

Fairness. `WF_vars(WriteBack(w))`: a worker that holds the write lock goes on.
It waits for nothing but Graph, and `GraphClient` bounds every call (timeout,
five attempts, backoff of at most a minute). Nothing else is fair in `Pipeline`:
workers need not start runs, wait for the lock for ever or crash. `CategoryPatch`
asks the same of a running label job (`WF_vars(Job)`): an exchange that nobody
answers is ended by the client's timeout. `Ingestion` assumes that the interval
trigger keeps firing (`scheduler.py:166`; nothing sets `last_webhook_at`, so no
poll is skipped) and that a running job goes on; `Thread` that polls come and go
on. Mail, faults, token events and the start of a folder job are never fair.

## 4. Proofs

The proofs hold for every value of the constants: any number of workers, any
sets of evidence, labels, categories, mails and folders, any bounds, every done
policy. They assume what the modules declare, and TLC evaluates each assumption
in the runs of the modules that extend the one declaring it:

| Assumption | Says | Because |
|---|---|---|
| `DonePolicyAssumption` | the policy is one of three | `config.py:39` admits no other |
| `PipelineAssumption` | signals are sets of known evidence; bounds are numbers; `Nobody` is no worker | evidence is an enum |
| `AttemptsAssumption` | at least one attempt | `client.py` loops over a positive constant |
| `CategoryAssumption` | no user category is a label; bounds are numbers | `categories.py` takes every `AI-...` for its own |
| `DeltaAssumption` | every message has a folder; bounds are numbers; `Nobody` is no job | `messages.folder_id` is not nullable |
| `IngestionAssumption` | the jobs are the poll, the folder job or both; every message has a conversation; the list of folders is not empty | the scheduler runs one instance of a job; `pipeline.py` lists Sent Items and Inbox |
| `ThreadAssumption` | mails are coherent and not synced when they arrive | |
| `FamilyAssumption` | `detect_evidence` never reports an override | only an operator asks for one |

"By" names the run that checks the same definition on its instance.

| Theorem | Says | By |
|---|---|---|
| **`Reducer_proofs`, `MCReducer_proofs`** | | |
| `ReduceSound` | `reduce()` always returns a result in range or raises; a To Do intent always has an operation key, a label intent too unless the archive window has elapsed (a bare clear) | |
| `ReduceKeepsContract` | it raises only for an override or on a soft window without a zone, and its keys fix its effects | |
| `ReduceStops` | without an override, lag, conflict and review end in review with the bucket kept and nothing to write | |
| `ReduceOpens` | a winning ask opens the state of its own kind with a task for it, short of review, of an end with nothing to reopen, and of a delegated thread asked for a reply | |
| `ReduceIgnoresLower` | evidence below the best tier changes nothing in the result | |
| `ReduceAnswers` | short of done and without an operator it does not raise; review, noise and delegation have their causes; no ask waits without a task | |
| `ReduceHears` | an ask with no resolution beside it opens the thread or takes it to review | |
| `ReduceMoves` | without an operator it takes one step of the life cycle, or none | |
| `ReduceSettles` | once the user replied and nothing asks, no ask stays open | |
| `TypesHold`, `ContractHolds`, `TiersDoNotBlend`, `KeysFixEffects`, `ReviewsStopWritebacks`, `AsksOpen` | the invariants of `MCReducer`, for any family of inputs | `reducer_inputs` |
| **`Pipeline_proofs`** | | |
| `TypeCorrect` | `[]TypeOK` | `pipeline_faults` |
| `KeysAreAccounted` | `[]BurntKeysAreFailures` | `pipeline_faults`, `pipeline_race` |
| `CommittedKeysAreSpent` | `CommittedKeyNeverReexecuted` (I6) | `pipeline_faults`, `pipeline_race` |
| `LeaksArePaidFor` | `[]LeaksAreAccounted` | `pipeline_faults`, `pipeline_race` |
| **`PipelineSolo_proofs`** | with one worker: | |
| `ActiveRowsAreNamed` | `[]ActiveRowIsNamed` (I2) | `pipeline_faults` |
| `PointersStayLive` | `[]PointerIsLive` | `pipeline_faults` |
| `StatesMatchTasks` | `[]StateMatchesTask` | `pipeline_faults` |
| `ReviewsFreeze` | `ReviewFreezes` (I7) | `pipeline_faults` |
| `MatrixIsFollowed` | `FollowsMatrix`: `Pipeline` implements `Lifecycle` | `pipeline_faults` |
| **`CategoryPatch_proofs`** | | |
| `LabelTypeCorrect` | `[]TypeOK` | `label_merge` |
| `LabelsNeverStack` | `[]OneLabel` | `label_merge` |
| `EtagsVouch` | `[]EtagVouches` | `label_merge` |
| `FreshTokensAreTried` | `[]FreshTokenIsTried` | `label_merge` |
| `EditsAreLostOnlySo` | `LostEditsAreAccounted` | `label_merge` |
| `AppliedLabelsShow` | `AppliedLabelShows` | `label_merge` |
| **`Ingestion_proofs`** | | |
| `TypeCorrect` | `[]TypeOK` | `ingestion` |
| `TokensVouch` | `[]TokenVouches` | `ingestion` |
| `PollMirrorsLiveMail` | with the poll alone: live mail a token is past is in the database with its latest version, without exception | |
| **`Thread_proofs`** | | |
| `ClassifyAuthorizesNothing` | `Classify` is in range and never sets `should_create_task`, on every thread | |
| `MachineMailStaysFiled` | on every thread whose latest inbound mail is a no-reply sender's or a list's, `Classify` files FYI or noise and the gate lets it pass | |
| `HistoriesAuthorizeNothing` | `[]RulesAuthorizeNothing` | `thread` |
| **`ThreadRuns_proofs`** | | |
| `ThreadTypesHold` | `[]TypeOK` | `thread` |
| `MachineMailStays` | `[]MachineMailIsFiled` | `thread` |
| `AsksAreHeard` | `[]AskIsHeard` | `thread` |
| `AsksStayHeld` | `[]AsksAreHeld` | `thread` |
| `ReviewsHaveCauses` | `[]ReviewHasACause` | `thread` |
| `AnswersAreSettled` | `AnswersSettle` | `thread` |
| `ThreadFollowsMatrix` | `FollowsMatrix`: `Thread` implements `Lifecycle` | `thread` |

### The reducer

Every theorem about `reduce()` goes through the table section by section
(`RowsFromNone`, `RowsFromAct`, ...): a lemma says of each section's rows what is
wanted of them, `Rows` is their union, `TableResult` is a choice among the results
of rows whose guards do not say no, and the branches before the table are cases of
their own. What is wanted differs. `ReduceSound` wants a result in range and, under
`Pipeline`, has its side condition met because a run passes no hints.
`ReduceKeepsContract` wants an allowed pair, with the bucket a guard reads fixed by
the prior state; `ReduceIgnoresLower` that the choice of row looks at the best tier
only; `ReduceMoves` that a row's step, with "keep" and the two entries of an ask
worked out (`Leads`), is one of `Moves`; `ReduceSettles` that a row for a reply is
found before any row that keeps an ask open. The theorems of `MCReducer_proofs` put
`Call` in front of these: its inputs are a part of those the theorems are about, so
they hold for every family, not only the one TLC enumerates.

### The pipeline with any number of workers

`TypeCorrect` is inductive as it stands. Every To Do action is shown to end in
one of three ways (`Ends`): the failure is recorded, the run is rolled back, or
rows that differ from the claimed ones in nothing the ledger counts are kept with
a result (`Booking`). This is what the theorems about keys need to know of the
twelve To Do actions.

`BurntKeysAreFailures` is not inductive: it speaks of the committed rows only,
and a step that claims a key without being counted (no key, or one already there)
would break it at the next commit. The invariant `Books` adds that the rows in
view balance too, that a result belongs to a claimed key, that the committed keys
are all in view, that the ledger is finite and never holds the missing key, and
that the plan at hand is `Sound` and `Keyed`. The last part comes from
`ReduceSound` at `Begin` and makes `TaskKeyIsNew` and `LabelKeyIsNew` work: a
step that is not skipped claims a real key, and a new one. I6 follows from
`Books`: what changes To Do or the label has a key that is not in view, so it is
not committed either. It needs the write lock (one `tx`) and the order claim
before call; it needs nothing of what a run had loaded.

`LeaksArePaidFor` counts tasks that are open in To Do without an active row
(`Stray`). Neither count is inductive alone: against the rows in view a leak is
paid for by a fault or a refused row at once; against the committed rows the task
a run in progress has opened is one more, until that run commits or is rolled
back. `Accounts` has both counts and the cases in which the rows agree;
`StepGrows` says of every To Do action by how much each may grow and what was
spent for it, and the rest is cardinalities of finite sets. It holds however many
workers there are.

### The pipeline with one worker

These theorems have the hypothesis `Workers = {w}`, and need it: section 3 lists
what two workers break. One worker is the service as it is wired: of the scheduler's
jobs only the poll has conversations to process (the sweeper never finds one), and
it never runs twice at a time. A replay script beside it is a second worker. What
one worker buys is `Solo(w)`: while it holds the lock, what it loaded is what is
committed (`Current`), so the columns it does not write are the ones it saw; and
the rows in view, like the committed ones, have at most one active task, with the
pointer on it (`Named`). A step that turns a row over turns the pointer with it
(`Turned`). `ActiveRowIsNamed` and `PointerIsLive` are parts of it.
`ReviewFreezes` follows because the plan of a run that saw a review is empty
(`Told`), and what it saw is committed. `FollowsMatrix` needs that the only step
that changes the committed pair is `Commit`, and that it commits a pair `reduce()`
told from the committed one (`CommitFollows`, from `ReduceMoves`); every other
step of `Pipeline` is a stutter of `Lifecycle`.

`StateMatchesTask` needs more: that a key that is in use may make a run skip its
task step while the state goes on. So `Tasked` says what the keys say about the
rows (`Matches`): as long as nothing failed, a key a thread will still need to get
its task has not been used up. `Answer` is what this needs of `reduce()`: which To
Do intent comes with which step of the state.

### The label

The theorems of `CategoryPatch` share one invariant, `Inv`. None of the checked
invariants is inductive: that the PATCH on the wire carries one label depends on
what the step before it put into the job, and that an equal etag means equal
categories depends on every copy of the message, not only on the row. So `Inv`
has `CallOK` (what a call's phase, attempt, refresh and outcome say of each other),
`JobOK` (method and step agree; what is to be sent carries this job's label and no
other), `CopiesOK` (page, row, loaded row and refetch are `Dated`: no newer than
the message, and the same when as new), `MergeOK` (which fetch the user's
categories in the next PATCH come from, step by step), `WrittenOK` (an answered
PATCH has put its label on a message newer than every copy) and `Single` (the
message has one label). `AppliedLabelsShow` rests on `JobOK` and `WrittenOK`, also
when the 412 was the echo of the job's own lost PATCH; `EditsAreLostOnlySo` on
`MergeOK` and `CopiesOK`. What a sync selected (`base`) needs no date: a flush that
is not `Overtaken` leaves the row as the page has it, and any other sets `torn` or
changes nothing.

### Ingestion

`TokenVouches` speaks of committed rows and tokens. To be inductive it has to be
said of three pairs (`TokensOK`): committed rows and tokens, rows and tokens in
view, and rows in view with committed tokens, since a round may start from the
committed token while the rows in view are still to be committed. It has to hold of
the tokens a session has loaded (`LoadedOK`), of all its folders, which may be older
than the committed ones. While a round is paging (`LinkOK`), everything up to its
link is older than the token it started from, still owed by Graph in its present
form, a deletion that a full round does not mention, or among the session's objects,
and there it is as the mailbox has it (`Shows(round[j].objects[m].now, m)`). Nothing
is said of the row such an object was read from: that is where the two jobs differ.

The flush (`FlushInv`) compares what is written with what was to be written. Where
they are the same, the object vouches for the row; where they are not, the row mixes
two versions and `missed` has it. The other hard case is two rounds on one folder,
one of which has committed a newer token: `OvertakenOK` says that the other one sees
it in the tokens in view when it flushes (`Ahead`), so that `missed` gets what it
drops. This is where the two jobs are needed, the poll and one folder job; a third
could overtake without being seen. `BoxOK`, `ClockOK` and `LockOK` date things:
changes are numbered from 1 on, nobody holds a token of the future, and without a
holder the rows in view are the committed ones. Failures, crashes, a 410 in the
middle, refused flushes and rounds cut short are actions like the others.

`PollMirrorsLiveMail` is the theorem for the service as it is wired, where nothing
calls the folder job. The exceptions of `missed` then come down to deletions: a
session that is alone finds every row as it read it, and its tokens as it loaded them
(`Lone`), so no flush mixes versions and no round is overtaken.

### Threads

`ClassifyAuthorizesNothing` holds because no rule of Stage A gives an actionable
bucket to an unsure classification and leaves it more than 70: an actionable
bucket is unsure when the seed is set, and an override that raises the confidence
never sets the seed. `MachineMailStaysFiled` follows the bucket through both
stages: each rule that could move it off the shelf is shown not to fire, or to be
undone by the override. Both are about `Classify`, for every sequence of mails;
`HistoriesAuthorizeNothing` carries the first into every reachable history.

`ThreadRuns_proofs` puts classifier, evidence and reducer together. `TypeInv` (an
allowed pair, no delegation, a task on whatever waits for somebody) makes every
input of a run one `ReduceAnswers` is about (`InputUnattended`), so a run does not
raise and `RunDoes` says what it changes. On it rest four more invariants. `Fresh`:
between two polls that ran, the newest classification is that of the snapshot as it
stands, and an ask in it has been heard (`Heard`, from `ReduceHears`); mail that
comes during a poll is not yet seen, and this is why it does no harm. `CarefulInv`:
without VIP mail every ask listed is held for review, its confidence being at most
70. `LagFree`: but for the moment before Sent Items is stamped, no reply is synced
and newer than the stamp. `CauseInv`: without the marks of `Causes`, every
classification listed is faint, and no two faint ones are a conflict.

`AnswersSettle` is the safety half of `ReplyIsSeen`. On an answered thread the
classifier never says Respond (`AnsweredIsNoRespond`), the reply is among the
evidence (`ReplyIsFound`), and if the oldest classification listed and the text ask
for nothing, `ReduceSettles` applies (`RunSettles`). Each run pushes the oldest
classification one place on, and five are listed; that this comes to an end is
left to TLC. `ThreadFollowsMatrix` is `ReduceMoves` once more, with `RunDoes`.

### Left to TLC

Liveness: `LockIsReleased`, `JobEnds`, `MirrorCatchesUp`, `OpenMailIsReduced`,
`ReplyIsSeen`. Every other property of a passing run is stated by a theorem. The
six runs that expect a violation show counterexamples and have nothing to prove.
No module declares a RECURSIVE operator.

## 5. Where code and documents disagree

1. `review_cleared`: `needs_review` is absorbing. Override and clear-review only
   null `state_review_reason`; `reduce()` only looks at the state.
2. `hard_done`: a hard completion clears the pointer the reopen guards need; no
   later ask reopens the thread.
3. `list_drift`: the second move to the same state meets a used key.
4. `stale_review`: a run that read before a review was raised writes to Graph
   while it is in force, and takes the conversation out of review.
5. `reopen_row`: reopen picks a task that was moved away; two open tasks remain.
6. `reply_unseen`: the question in the latest inbound mail counts as a new ask on
   every poll, also after the user has answered it, so the thread never reaches
   `waiting_on`. `ReplyIsSeen` shows that other asks do get there.

Met while reading and not expressed by a run:

* Soft-completed conversations raise in every later run that carries evidence
  (`soft_naive` above, checked as inputs that raise); failed writebacks are never
  tried again (their key stays).
* Two overlapping syncs of a folder may leave a row that mixes two versions, for good:
  one selects the row, the other commits a newer one, and the first, whose item has a
  column back at the value it had selected, does not write that column and commits a
  newer token (`delta_sync.py:81`, `:162`). Graph sends the message again only when
  it changes. `missed` has these rows.
* A new message that is delivered twice in a round, or that both jobs insert, violates
  `UNIQUE(graph_message_id)` at the flush and rolls back the whole sync, the folders
  before it included; a later round makes up for it.
* A sync that selected a row before a label job wrote it may leave the current etag on
  categories of another version when it flushes; the next guarded PATCH is then merged
  from them.
* A label job that refetched and then failed leaves a current etag on old
  categories (`categories.py:139`, `apply.py:225`); the next guarded PATCH erases
  the edit that caused the mismatch, although `src/project-plan.md:956` and
  `categories.py:11` promise to preserve user categories. `LostEditsAreAccounted`
  names these cases (`job.stale`) and the unguarded PATCH as the only ones.
* A rollback expires `user`, so one failed conversation fails the rest of its batch
  (`pipeline.py:189`), against the docstring at `pipeline.py:175`. The next poll
  makes up for it (`OpenMailIsReduced`).
* `detect_evidence` opens tasks whatever the gate said: `should_create_task` is
  never true under the rules, and E01 and E02 have textual fallbacks that look
  neither at it nor at the confidence (`src/project-plan.md:861`, "confidence is
  below threshold", and ADR-002 promise otherwise). A classification resolved in
  the review console changes nothing either.
* On the first run of a new thread there is no classification yet, and a question
  counts as a deliverable (E01): the thread opens in `act_open` and moves to
  `respond_open` one poll later.
* `classifications_json` is newest first but read from its end.
* With two workers the pointer may be NULL while a row is active, against
  `apply.py:13` ("I2 reverse mapping kept in sync"): one run loads a deferred
  thread, another completes it hard and clears pointer and row, and the first then
  reopens the row. It sets the pointer to the value it had loaded, which the unit of
  work does not write. TLC finds it within four runs when `ActiveRowIsNamed` is
  added to `pipeline_race`.
* A question like "resolved?" is a resolution: a new thread with it alone stays in
  `none` (T007), and nobody is told that something was asked.
* Deletions from before a delta reset stay invisible (`missed`), although
  `src/project-plan.md:1086` asks to tombstone them.
* `GraphClient` has neither the `.mail` nor the `.subscriptions` attribute that
  delta sync and renewal use; nothing in the repository creates `TodoList` or
  `Conversation` rows, a subscription, or a consumer of the webhook's queue.

## 6. Not modelled

* Webhook, subscriptions and renewal: they have no effect in this repository (see
  the last point above). A model would be of what they are meant to do.
* The sweeper and the health job: the sweeper selects conversations whose
  `deferred_until` has passed, which nothing ever sets; the health job logs.
* `POST`s of `todo.py` as sequences of attempts: `Pipeline` has their outcomes,
  among them the doubled task of a create and of a move.
* `_upsert_message` keeps a column when the new value is `None`; a field that is
  cleared in the mailbox to nothing at all stays in the row. The content of a row
  stands for fields that always have a value.
* The review console's classification queue and pages: its answer reaches no later
  decision. Override and clear-review are in `Pipeline`.
* Due dates, waiting-on addresses, reasons, signals and hashes of a classification,
  which nothing downstream reads; HTML stripping, date parsing and addresses of
  the normalizer; regular expressions character by character.
* Audit rows, sync events, event payloads, titles and bodies, logging, token
  encryption and files, settings, start-up and migrations.

Worth adding: bounds on the steps behind the liveness properties (what decreases
while a job runs, and with every poll after an answer); an abstract specification
of the mirror that ingestion implements; the webhook and the renewal, once
something consumes their queue.
