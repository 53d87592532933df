# A TLA+ verification of ml-monitor

TLA+ modules, TLC configurations and TLAPS proofs for the code under
`src/ml_platform`: a fraud-scoring service with its drift monitor, an ML-monitoring
library and a feature store. Paths below are relative to the repository root;
`fraud-README.md` and `fraud-RUNBOOK.md` are the files under `docs/absorbed/`.

    tlc -config drift_faults.cfg MCDriftMonitor.tla
    tlapm ScoringService_proof.tla

## 1. Inventory

### The fraud service (`fraud/`)

Four processes and four backends (`deploy/fraud/docker-compose.yml`): the *producer*
publishes synthetic transactions to the topic `transactions`; the *scorer* serves
`POST /score` and consumes the topic, in one process; the *trainer* fits a model
offline; the *drift monitor* compares recent scores with the training data. They meet
in Kafka, Redis (the history per user), Postgres (`scored_transactions`), MLflow (the
model) and a shared reports directory.

| component | state | operations | what is hard | what makes it correct |
|---|---|---|---|---|
| history and scoring: `scorer/model.py`, `scorer/redis_store.py` | `user:{id}:amounts` (a list, newest first, trimmed), `user:{id}:devices` (a set), both with a time to live | `get_history` (two round trips), `score`, `update` (one MULTI/EXEC) | several threads on one user; keys dropped one by one; an update whose reply is lost; redelivered records | a transaction never sees itself; amounts and devices belong together; the online history is the one the trainer replays |
| stream consumer: `scorer/stream_consumer.py` | position, batch, committed offset, `stop_event` | connect, poll (with automatic commits), the batch loop, close | crash between work and commit, shutdown with a timeout, failures inside the loop | no committed record without an attempt; every record attempted in the end |
| API process: `api/main.py` | lifespan, counters in memory | `POST /score`, start, graceful stop; reads: `/stats`, `/health`, `/metrics`, `/monitoring` | requests during outages and shutdown; backends that hang, as no client has a timeout | every request is answered unless a backend stays silent; an answer without a row is counted |
| score table: `api/db.py`, `db/init.sql` | the pool, the rows | `init_pool`, `insert_score`, `fetch_recent`, `close_pool` | errors between `getconn` and `putconn`, a pool closed under a thread, a commit without confirmation | connections come back; one row per transaction, and the first score |
| rate limiter: `api/security.py` | a counter per key and minute in Redis | `check` | two clock readings, several replicas | at most the limit per window |
| drift trigger: `monitor/alerting.py` | `consecutive`, `alerted`, `drift_state.json` | `_load`, `observe`, `_save`, `send_slack` | memory and file part company | one page per episode; nobody left unpaged |
| monitor process: `monitor/main.py`, `monitor/ml_monitor_backend.py` | `_shutdown`, `latest.html`, `latest.json`, `ml_monitor_latest.json` | `run_once`, the loop, signals | an exception or a death after any file | the reports agree with each other and with the trigger |
| trainer, registry, features: `training/`, `common/` | models and their stages in MLflow | fit, choose a threshold, promote, load | a scorer loads its model once | online features are offline features |
| producer: `producer/` | none that lasts | publish | | order per topic |

### The ML monitor (`monitoring/`)

| component | state | operations | what is hard | what makes it correct |
|---|---|---|---|---|
| core: `core/monitor.py`, `window_manager.py`, `alerts/deduplicator.py` | a bounded window, the reference, the time of the last alert per key | `log`, `drift_report` with `_fire_alerts`, `update_reference` | API threads log and report at once, without a lock; the cooldown starts before the alert is stored and sent | the window is the tail of the table; an alert is due once per cooldown; drift that stays is alerted if somebody asks for reports |
| detectors: `detectors/concept_drift.py` | ADWIN's buckets, DDM's minima, Page-Hinkley's sums | `update` | boundaries: which end is dropped, no errors at all, what a signal resets | ADWIN's buckets are an exponential histogram; a drift means more errors than before; the newest data stays |
| other detectors (`data_drift`, `prediction_drift`, `correlation_drift`) | none | statistics | floating point | out of a finite check's reach |
| store: `store/sqlite_store.py`, `store/aggregator.py` | `predictions` and `alerts` in SQLite, which outlive the process | `log_prediction`, `log_alert`, read back, aggregate | an INSERT that fails in the middle of a report | what is sent is stored |
| interfaces: `api.py`, `cli.py`, `dashboard.py`, `adapters/`, `alerts/slack.py` | none | `report` logs what it reads | a command that is not idempotent | |

### The feature store (`features/`)

| component | state | operations | what is hard | what makes it correct |
|---|---|---|---|---|
| feature store, materializer: `core/feature_store.py`, `materialization/` | none of its own: it drives the stores and the registry | `register`, `ingest`, `materialize`, reads | a failure between the two stores; an older ingest after a newer one; a race of the two | the online row is the newest offline row |
| point-in-time join: `core/pit_join.py` | none | the join, coverage | ties, tolerance, empty frames | no row sees the future |
| registry: `registry/` | entities, groups, features and the ingestion log, over one SQLite connection | register, read, log | one connection and several threads: any commit commits everybody's statements | a restart finds a group whole or not at all |
| offline and online stores: `stores/` | Parquet partitions, SQLite rows with a time to live | append, read, write, expire | partitions rewritten in place | what is served is stored |
| quality, interfaces, `pipeline.py` | none | statistics; translation into calls | | |

`PROJECT.json` lists every component with its status and every hazard with its line.

## 2. Plan

The service that runs for months and pages people came first, then the stores that
keep data for longer than a process lives, then what decides on them.

| step | modules | status |
|---|---|---|
| 1 | `DriftAlerting` (the promise), `DriftMonitor` (the process), `DriftMonitor_proof` | done |
| 2 | `FeatureHistory` (pure), `ScoringService`, and their `_proof` modules | done |
| 3 | `PointInTimeJoin` (pure), `FeatureStore` over it: ingest, materialize and the registry with failures in between; `FeatureStore_proof` | done |
| 4 | `MonitorCore`: window, store, cooldown and the report command under several API threads; `MonitorCore_proof` | done |
| 5 | `ConceptDrift`: ADWIN, DDM, Page-Hinkley, and `ConceptDrift_proof` | done |
| 6 | `RateLimiter`, `ModelRollout` (stages, promotion, services that load once), and their `_proof` modules | done |

Each module of state EXTENDS the pure modules it computes with, an `MC` module gives
its constants small values, and a `_proof` module EXTENDS it with its theorems. What
would add most next: the feature store's command line as a second process with
connections of its own; the pipeline of `compute_features` on top of the histories.

## 3. The modules

### DriftAlerting and DriftMonitor

`DriftAlerting` is what the runbook promises of the alert. Its memory is one number,
the length of the current run of drifted windows: no flag, no file, no process.

`DriftMonitor` is the process. One window is a chain of steps, cut after each effect
that outlives the process:

| action | code |
|---|---|
| `Skip`, `Fetch` | `run_once`: `fetch_recent`, the `MIN_ROWS` guard, the Evidently report and its `drift_share` |
| `WriteHtml` | `latest.html` |
| `Observe`, `Save` | `DriftTrigger.observe` up to `_save`, and `_save` (temporary file, `os.replace`) |
| `Notify` | the Slack page or all-clear |
| `WriteJson`, `MlReport` | `latest.json`; the second backend, in a `try` of its own |
| `Raise` | an exception, which `main` logs before it sleeps |
| `Boot` (`Restart`, `StartAgain`), `Wake`, `Signal`, `Crash` | `main` and its signal handler, compose's `restart: unless-stopped` |
| `LoseState` | `drift_state.json` gone or unreadable, where `_load` starts clean |
| `Arrive` | a row inserted by the scorer |

`trigger` is the object, `stateFile` what `_load` would read. A row is TRUE when it is
unlike the reference, and a window drifts when such rows prevail. What the
`drift_share` entry of Evidently's first metric contains is the constant `ShareKey`:
`"measured"` is what the runbook says, `"setting"` what the sample report in
`fraud-README.md` shows. `pages`, `paired`, `mlPaired` and `mishaps` are history
variables.

### FeatureHistory and ScoringService

`FeatureHistory` has the two forms of one user's history: the Redis list
(`LpushLtrim`, newest first) and the trainer's Python list (`AppendKeepLast`, oldest
first).

`ScoringService` is the scorer process with its backends. Request threads and the
consumer thread run the same steps, one per round trip:

| action | code |
|---|---|
| `Post` | a request enters `POST /score` |
| `GetAmounts`, `GetDevices` | `get_history`: `LRANGE`, then `SMEMBERS` |
| `Update`, `UpdateUnconfirmed`, `RedisError` | `update`: one MULTI/EXEC; applied without a reply; Redis refuses |
| `GetConn`, `NoConn`, `Insert`, `InsertError`, `InsertUnconfirmed` | `_conn` and `insert_score`, with `finally: putconn` and `ON CONFLICT DO NOTHING` |
| `Connect`, `Poll`, `CloseConsumer`, `ConsumerDies` | `run_stream_consumer` and kafka-python's automatic commits |
| `Boot`, `Sigterm`, `StopConsumer`, `ClosePool`, `Exit`, `Crash` | uvicorn and the `lifespan` handler |
| `RedisDown`, `RedisUpAgain`, `Evict`, `DbDown`, `DbUpAgain`, `Produce` | the backends and the producer |

The features and the model are a function of the history a thread has read, so that
history (`snap`) stands for the score, in the table too. What may go wrong is the
constant `Faults`; each fault names the action it enables. A backend is up, refuses or
is silent: what refuses is an exception at once (`RedisError`, `InsertError`), what is
silent (`"hang"`: frozen, or cut off) holds the thread that called it (`Waits`) until it
answers again, since neither `redis_store.py:17` nor `db.py:17` sets a timeout; TCP may
give the connection up, but need not. The shutdown's join times out over a hang. `attempted`, `skipped`,
`remembered` and `evictions` are history variables.

### PointInTimeJoin and FeatureStore

`PointInTimeJoin` has the pure part: the newest row of an entity, the training frame by
pandas' `merge_asof` (`AsofMatch`, a function over time that remembers the last row of
an entity, as the pass over the sorted frames does) and by DuckDB's SQL (`SqlMatch`),
the fill strategies and the coverage report.

`FeatureStore` is one feature group behind `features/api.py`. `POST /ingest` is a
coroutine without an await once it has its data, so ingests follow one another on the
event loop (`Loop`); the other endpoints are plain functions and run on `Threads`.
All share one SQLite connection to the registry and one to the online store, so every
statement is a step, each is visible to all threads at once, and any commit commits
what every thread has pending:

| action | code |
|---|---|
| `RegisterEntity`, `RegisterGroup`, `RegisterDelete`, `RegisterInsert`, `RegisterConflict`, `RegisterCommit` | `FeatureStore.register`, statement by statement; an `IntegrityError` leaves the transaction open |
| `IngestStart`, `IngestAccepts`, `IngestRejects` | `get_feature_group` with its two SELECTs, `validate_schema`, `check_quality` |
| `WriteBegin`, `WriteEnd`, `WriteFails` | `ParquetOfflineStore.write`, one date at a time; a partition half written cannot be read |
| `IngestOnline`, `IngestLog` | the branch `if group["online"]`, `log_ingestion` |
| `MaterializeStart`, `MaterializeFeatures`, `MaterializeRead`, `MaterializeFails` | `materialize` |
| `WriteCell`, `WriteCommit` | `SQLiteOnlineStore.write_batch`, of both callers |
| `Expire`, `Crash` | a time to live that is over; the death of the process, after which a restart sees `regSaved`, `onlineSaved` and the partitions |

A row is [entity, timestamp, values]; an online cell holds the row its value is from.
The dtype check, several batches of one write (`batch_size`) and the statistics of a
profile are left out, a partition is a set (equal rows are one), and reading the
partitions is one step. `onlineOnly`, `mixed`, `quiet`, `synced` and `orderly` are
history variables.

### MonitorCore

One ml-monitor process: `Loggers` in `POST /log`, `Pollers` in `GET /drift/latest`, and
the SQLite file, which the `report` command opens from a process of its own.

| action | code |
|---|---|
| `LogToWindow`, `LogToStore`, `LogToStoreFails` | `Monitor.log`: `window.add`, then `log_prediction` |
| `ReportBegin`, `ReadFeatures`, `ReadFeaturesFails`, `ReadPredictions`, `ReadLabels`, `ReadLabelsFails` | `drift_report`: four passes over the window as it is by then; one that meets an append raises, as does a text in a column of numbers or a label that is no number |
| `Skip`, `MayAlert`, `SetFired` | `_fire_alerts` for one key; `should_alert` looks, then sets |
| `StoreAlert`, `StoreAlertFails`, `Finish` | `log_alert`; the webhook and Slack at the end |
| `UpdateReference`, `Restart`, `ReportCommand`, `Tick` | `POST /reference/update`; a new process; `cli.py report`; the clock |

What the statistical tests say of a window are operators the instance supplies
(`DataTest`, `PredictionTest`, `ConceptTest`; a `DataTest` of `None` is a test that
raises, `Untestable` a window in which one does); thresholds, severity bands and the
decision to alert are modelled. A report reads the reference once, rows come back from
the table in the order of their insertion, the report command is one step, and the
correlation drift, which never alerts, is left out.

### ConceptDrift

The three detectors, fed one stream. Numbers are integers: DDM's rates and
Page-Hinkley's sums in thousandths, ADWIN's cut squared and multiplied out, its
logarithm interpolated between powers of two. Rounding can move a signal by an element
or so; the properties speak of what is counted and kept, and DDM's boundary (a deviation of
0) is exact. ADWIN's buckets carry the positions they stand for. `_compress` stops at the
first row that is short enough; `Inserted` goes through all of them, as a recursive
function, and leaves those behind it alone, since only a row that just got a bucket
can be too long. `RowSize` is the `2**i` of the comment at `concept_drift.py:38`. A stream
follows a pattern and may change it once.

### RateLimiter

`require_api_key` on the workers of all replicas and the counters in Redis: `Choose`
(the clock picks the bucket), `Count` and `CountFails` (INCR and EXPIRE in one
transaction, or a `RedisError`, with or without effect), `Decide` (the second look at
the clock), `Respond`. `Start` is `_load_keys`; `Expire`, `Evict`, `RedisStops` and
`RedisStarts` are Redis. The client has no timeout, so how late a request may be
between the clock and the INCR is a constant, `Patience`.

### ModelRollout

From training to serving, a model being the number of the training it is from: `Dump`,
`WriteReference`, `LogBundle`, `LogReference`, `Register` are what `train.py` leaves
behind, in its order, `Promote` and `Loadable` are `common/registry.py`, `StartScorer`
and `StartMonitor` what the two services read, once, when they start. With or without
MLflow is chosen in `Init`.

## 4. The runs

| run | instance | question |
|---|---|---|
| `drift_faults` | death before every step, an exception in every step, state file lost, share missing | one page per episode; memory and disk agree; armed iff the streak is long; the reports agree; only two ways to lose a page |
| `drift_promise` | death after every window, failures in `Notify` and `WriteJson` | refinement of `DriftAlerting`; drift that stays is paged and calm that stays re-arms |
| `scoring_faults` | one request and a stream of two records, all of one card holder; process, database, broker and reply faults | offsets, pool, counter, first score |
| `scoring_history` | one request and four records of two card holders; Redis outages, evictions, clean restarts | what a score has seen |
| `scoring_live` | one request and one record; Redis and Postgres refuse or hang, a crash, shutdowns | requests and records come to an end |
| `feature_store` | three threads, four calls, three specs, three batches over two dates, a crash, expiries | nothing runs ahead of the offline store; groups last whole; the newest row is served; what a materialize repairs; no training row sees the future; an accepted batch fits a spec |
| `monitor_core` | two loggers, two pollers, three records, a failed INSERT, a restart | the window is the tail of the table; the cooldown; a silenced key has an alert to show for it |
| `monitor_live` | one logger, one poller, two columns, texts in a column and among the labels, two references, the report command | drift that stays is alerted to who asks for reports |
| `detectors` | the default parameters, 160 elements, one change among three patterns | ADWIN's histogram; what a signal of DDM and of Page-Hinkley means |
| `adwin_drop` (violation) | the same, 120 elements | a drift of ADWIN drops the older window |
| `rate_limiter` | two workers, three windows, four environments, three calls | the limit over any minute; Retry-After |
| `model_rollout` | two trainers, three trainings, three promotions | the monitor compares with the model that is served |

### Bounds, and why they are enough

* Drift: `Required = 2` (the default), `MaxStreak = 3`. The code compares the counter
  with `Required` only, so values at and above it are told apart nowhere; 3 keeps one
  value above the limit. `Limit = 3`, `MinRows = 2`: too few rows, just enough, and a
  full window whose oldest row drops out. Windows, crashes and exceptions have no bound.
* Scoring: a second request adds nothing the consumer thread does not do already, as
  all threads run the same steps; two threads on one user are in `scoring_faults`, two
  on different users in `scoring_history`. `MaxPoll` is 2 where the middle of a batch
  matters and 1 elsewhere. `MaxConn = 1` has two threads fight for the pool and find it
  empty. `HistoryLen` is 1 or 2, so that the trim happens. `MaxCrashes` and
  `MaxEvictions` bound the two counters; outages and clean restarts have no bound.
  Hangs are in `scoring_live` only: for safety a silent backend is one that refuses later,
  and what it adds to a shutdown is what `"slow"` does in `scoring_faults`. That run has
  one record, which is enough for "worked on in the end" and keeps the three states of
  two backends within reach.
  `TypeOK`, `PoolIsWhole`, `FirstScoreStands`, `CommittedWasAttempted`,
  `UnrecordedIsCounted` and `DevicesCoverAmounts` are proved without these bounds.
* Feature store: one entity and two features, since entities never share a row or a
  cell. Three processes are needed for two threads to meet over an ingest. `MaxCalls = 4`
  has a register, two ingests and a materialize; `DayLength = 2` lets one batch fall
  into two partitions. The batches are an early row, a late batch with a null, and one
  whose columns fit no group. All seven properties are proved without these bounds, and
  for specs and batches of every kind: several entities, a group that is not online.
* Monitor: `WindowSize = 1` makes the window roll at every record; a third record
  follows one that was dropped. `Cooldown = 2` with `MaxTime = 2` (3 in `monitor_live`)
  lets a cooldown run out exactly at the last tick. `MaxFailures = 1`: a failed INSERT of
  an alert that could still be repeated (`StoreAlertFails` is only taken when the cooldown
  can run out before `MaxTime`, otherwise the end of the clock would be the reason for
  the silence).
* Detectors: `MaxLength = 160` is past the first possible signal of each with the
  defaults: 30 elements for DDM, about 108 for ADWIN, about 145 for Page-Hinkley.
* Rate limiter: `Minute = 3` and `MaxTime = 7` reach the third window, when the
  counters of the first expire; `Patience = 3` is a whole minute. The theorems are for every `Minute` and `Patience <= Minute`.
* Rollout: three trainings and three promotions allow a rollback and a training that
  overtakes another. The theorems are for any number.

### Fairness

* `DriftMonitor`: weak fairness of `Restart \/ Wake \/ RunOnce`. The loop sleeps for a
  bounded time, each step returns or raises, and compose restarts a process that was
  not told to stop. Traffic, signals, exceptions and operators are not owed.
* `ScoringService`: weak fairness of each thread's next step while it can take one and
  is not waiting for a silent backend (`Waits`: without a timeout neither an answer nor
  an error is owed), of `Connect`, of a `Poll` that returns records (Kafka delivers what it has), of the
  close, and of the steps of a shutdown that began. Not owed: a request, a record, a
  signal, any fault, the end of an outage, a new process. `EveryRecordAttempted`
  therefore assumes in its own text that the process is up for good, and both properties
  that no backend falls silent again and again (`NoneSilent`). One that refuses for good
  is covered.
* `MonitorCore`: weak fairness of the clock and of each report that has begun
  (`Advance`): a call runs to its end. No call is owed, as nothing in the repository asks
  the API for reports; `PersistentDriftIsAlerted` assumes in its own text a client that
  does (`Polled`). Nothing is owed of loggers, INSERTs that fail, references, restarts or
  the report command. Reports stop being interrupted by appends because the instance logs
  `MaxLogs` records: with appends for ever, each could hit a pass.
* `FeatureStore`, `ConceptDrift`, `RateLimiter` and `ModelRollout` state no liveness:
  their calls are loops over finite data, and no code retries or waits for another.

## 5. What is proved

TLAPS proves these for every value of the constants, under the assumptions named in
the modules (`MonitorAssumption`, `HistoryAssumption`, `ServiceAssumption`: counts are
naturals, the requests are finite in number, the fault sets are among those modelled;
likewise the named assumptions at the head of each other module; `LoggerAssumption`: the
threads that log are finite in number).

**DriftMonitor_proof.** `TypeCorrect`. `ArmedIsStreak`: `alerted` is equivalent to a
streak of the required length in memory and on disk; `Observed` preserves it for
every verdict, and `Load`, `Save` and `LoseState` only copy such triggers.
`Resumes`: `PersistInv` says memory and disk agree outside the step that saves.
`OnePage` needs both: `pages = 1` must imply that the *file* is alerted, otherwise a
crash could reload a trigger that pages again; `PageInv` adds this, together with what
`decision` says of the streak while a message is owed. `Reports` strengthens
`ReportsAgree` with what the metric and the trigger are at each step between the two
files. `Paged` carries "an alerted trigger has had its page, or owes it" through the
window. `Implements` assumes `StateLoss = FALSE` and that no save fails (`"save"` not
in `RaisePoints`) and maps `streak` to the file's counter and `owed` to the decision at
the step that tells: `Save` is a recorded window, `Notify` is `Tell`, a death or an
exception is `Forget` or a stutter, the rest stutters. `PromiseMeansOnePage` proves of
`DriftAlerting` itself that a run of drifted windows has one page.

**FeatureHistory_proof.** `OnlineIsOffline`: reading the Redis list oldest first after
a push gives exactly the trainer's list after an append, at and below the limit.

**ScoringService_proof.** `TypeCorrect` (with `StepsInv`, which says that the consumer
is inside its batch when it works on a record). `PoolWhole`: `used` is the set of
threads at `insert`, so every way out of that step gives the connection back.
`FirstStands` is an action property. `CommittedAttempted` needs `DoneInv`: not only
the committed offset but the *position* is covered, except for the rest of the batch in
hand. `DevicesCover` needs `CoverInv`: the list in Redis is covered by the set in
Redis, and a thread between its two reads holds amounts covered by the set it has yet
to read, as that set only grows. `UnrecordedCounted` needs `CountInv`, a bound on the
number of requests answered without a row, with lemmas on cardinalities.

`NeverItself` (a transaction never sees itself) is for logs and requests that name each
transaction once (`EachOnce`) and for the fault sets without crashes, broker faults, hangs
and joins that time out (`NoRedelivery`). It needs to know that position, cursor and
committed offset agree while the consumer is alive (`OffsetInv`), and that the
transactions in a history are of requests already posted or of records before the
cursor (`ApartInv`).

`NoSkewEver` (the history the consumer scores with is the trainer's replay) also assumes
`NoRedelivery`, and nothing about the requests but what `NoSkew` says: it is about the
users only the stream touches. `Replay` is a recursive function over the log, so the
proof first shows that it exists and is what its equation says (`ReplayExists`: the
finite approximations, and the least offset at which they would fail) and turns it by
one record at a time (`OneTurn`; a record not remembered changes nothing). `SkewInv`
then says at every step: records are remembered in the order of the log, none at or
after the cursor unless its update has been applied (`RememberedInOrder`); as long as no
key was evicted, what Redis keeps is the replay of the whole log by what is remembered
(`KeptIsReplayed`), and what the consumer has read is the replay up to its cursor
(`ReadIsReplayed`), also in the moment between the update and the end of the record, when
the two differ by that record.

**FeatureStore_proof.** `TypeCorrect`. `RestartFindsWholeGroups`: between a register's
first statement and its commit the registry differs from what was saved, so the
invariant (`RegInv`) follows each register by its step: what it has inserted is in
`reg`, all of it when it commits, and while nothing was mixed no two are under way.
`OfflineGoesFirst`: `AheadInv` carries along what each call has in hand: rows to write
online and the batch of an ingest past its partitions are in the offline store, or
were never meant for it, or fell to a torn partition.

`TrainingNeverLooksAhead` holds in every state: `AsofMatch` is a recursive function over
time, and `LastKnownIsNewest` shows by the least time at which it would be wrong that the
pass remembers the newest rows so far (for which the function has to be well defined;
the times are naturals); `BackendsAgree` and `NoRowNoCoverage` follow. `IngestFitsItsGroup`
needs `RegInv` and that an ingest under way has found a group, which is never deleted (`Found`).
`MaterializeHeals` needs that a materialize without another call under way (`quiet`) has
in hand the newest rows of a store that does not change meanwhile, and that after it
every step but an ingest, a register and an expiry leaves both the cells and what a
crash would bring back as they are (`QuietAlone`, `SyncedStays`).
`OrderlyServesNewest` has the largest invariant, `OrderlyInv`: while `orderly`, one call
is under way at most (`Solo`), the registry and the stores are those of one group
(`OneGroup`, `OneStore`), what a call has read is current (`LocalsCurrent`), every batch is
newer than what is stored (`InOrder`), and an online cell is of a newest row, or about to
be overwritten with one (`GoodCells`).

**MonitorCore_proof.** `TypeCorrect`. `CooldownIsKept`, `SilenceHasAReason` and
`OnlyStoredIsSent` follow from one invariant, `AlertInv`: outside the keys in `raced`
only one poller at a time is between look and entry (`OneDecider`), the entry is not
older than any stored alert of the key (`FiredIsLast`), a poller that may alert is a
cooldown later than all of them (`DeciderIsLate`), two alerts about to be stored are
apart (`PendingApart`), and the alerts a report has collected are in the table
(`DueIsStored`).

`WindowIsInTheTail` counts. A record is numbered by its entry into the window, so the
window is an interval of numbers (`NoGap`). Of the rows behind a given one in the table
some have smaller numbers: their threads were overtaken between the window and the
table. Each of them belongs to another thread, together with those still waiting to
store a smaller number (`FewOvertaken`), so they are fewer than the threads; and the rows
with larger numbers are fewer than `WindowSize`, since a record that is still in the window is
one of the last `WindowSize`.

**RateLimiter_proof.** `TypeCorrect` and `RetryAfterIsEnough` (arithmetic of `\div` and
`%`, whose facts are lemmas). `LimitHoldsOverReplicas` counts: requests passed in one
minute fall in two windows; in each window no two have the same number
(`NumbersDiffer`), because a counter that was not lost still counts everything that
went through it (`StillCounted`), because it lives on while a request may come late
(`KeptLongEnough`, which is where 120 seconds are exactly enough); so there is an
injection into `1..2*Limit`.

**ModelRollout_proof.** `TypeCorrect` (a stage has one holder) and
`ReferenceIsTheModels`, whose invariant says which files are of the last training at each
step of an undisturbed one, and what a service that is not stale has read.

**ConceptDrift_proof.** `PageHinkleyFiresOnErrors`: for every stream of up to 512
elements, not the patterns of the run, Page-Hinkley fires on an error and only after as
many errors as its threshold. It assumes what the defaults and the monitor give
(`SlowForgetting`): alpha of 0.9999 or 1, a delta of at least two thousandths, a window
(500 by default). The sum rises with an error by less than one and sinks otherwise,
*unless* it is so low that forgetting a ten-thousandth of it outweighs the mean and
delta. The invariant bounds how low it gets: the means subtracted so far are at most the
number of errors times 1 + 1/2 + ... + 1/n (`HeldUp`), and a table of `Harmonic`, checked piece
by piece, keeps that below the limit up to 512 elements (`SumIsHeld`). The bound is not
an artefact: see the findings.

`DDMFiresOnMoreErrors`: for every window of up to 512 elements, every `MinN` above 0 and
every drift level of 3 or more (`ThreeDeviations`; the defaults are 30 and 3), DDM fires only
when the rate is above that of the minimum it keeps, or, without a minimum, at element
`MinN` when all were right or all wrong. The minimum is that of an earlier prefix with
some errors and some others (`MinimumIs`: a prefix without either has deviation 0 and
fires at once, which resets everything), and the counts have only grown since. Suppose
the rate has not gone up. Then the share of errors has moved by no more than the fall
of the rate and a rounding (`ShareMoved`), so the variance hardly differs
(`ProductMoved`) and the deviation, over more elements than before, is at most a little
above that of the minimum (`DeviationBarelyGrows`), while the condition asks for three times
that (`NoFalseDrift`). The bound on the length is what the rounding to thousandths needs:
up to 512 elements a deviation is 0 only without errors or without others
(`NoDeviation`); beyond some thousand elements it may round to 0 and the model's arithmetic is
too coarse for the claim.

`HistogramStaysExact` is for streams of any length, every `MaxBuckets` and every
`Confidence`. The invariant, `AdwinInv`, says of the rows that each bucket is exact (it holds
`RowSize` elements and their errors), that no two meet, and that no row is too long
(`Good`, `AllBounded`). Merging two buckets of a row makes an exact one of the next
(`MergedIsExact`), and after r rows of the compression only row r + 1 may be one bucket too
long (`CompressedStep`). Dropping takes a prefix of each row, which harms neither part,
however many elements are asked for (`DroppedIsGood`); the theorem therefore does not contradict
`adwin_drop`, which is about *which* end goes. Width and total are sums over the flattened
rows (`FlatIsFlat`, `SumsAre`). Where the model is a recursive function, `RecursionExists`
shows that one with its equation exists, and the claim is proved by the least argument at which
it would fail (`LeastNatural`), as the library's induction cannot be instantiated here.

`TypeCorrect` needs `AdwinInv` for the length of the rows and for `width` and `total`, and
the bounds on rounded rates and deviations for DDM.

**Only model-checked.** Liveness, which is beyond the prover: `DriftIsPaged`, `CalmRearms`,
`EveryRequestAnswered`, `EveryRecordAttempted`, `PersistentDriftIsAlerted`. Everything else the
passing runs check is a theorem. What the recursive functions compute is proved
only where a property needs it (`Replay`, `AsofMatch`, `Inserted`, `Sums`, `FlattenSeq`).

## 6. Findings

With a run:

* `adwin_drop`: when ADWIN fires it drops its *newest* elements. `_insert` appends to
  row 0 and `update` and `_drop_oldest` start from row 0 as if it were the old end; the
  docstring (`concept_drift.py:29-32`) and the comment at line 92 say the older window
  goes. With the defaults it happens after some 108 elements with a change of rate.

Seen while modelling, without a run. The fraud service:

* The trigger is saved as alerted before the page is sent (`monitor/alerting.py:91`,
  `monitor/main.py:73-75`); a death in between swallows the page of that episode.
  `OnlyTwoWaysUnpaged` says that this and an exception on the way to the message are the
  only ways.
* `drift_share` is read from an entry of Evidently's first metric. In the sample
  report of `fraud-README.md:207` (`"dataset_drift": false, "drift_share": 0.5`) it cannot
  be what `fraud-RUNBOOK.md:109-111` says, a fraction of three columns: half of three is
  no number of columns. If it is Evidently's configured limit, 0.5, every window
  meets the threshold (`ShareKey = "setting"`).
* A record delivered again after a crash is scored with itself in its history: the
  history is updated before the offset is committed. `model.py:64-65` and
  `fraud-README.md:48-49` say a transaction never sees itself; `NeverItself` needs
  `NoRedelivery`.
* Rows the consumer cannot store count as `SCORE_REQUESTS{outcome=error}`, not in
  `DB_INSERT_FAILURES` ("Score rows that could not be persisted", `metrics.py:35`).
* A restarted consumer resumes at its committed offset; `fraud-README.md:365-367` says
  it drops what was published while it was down.
* Two scorings of one user at a time both read before either updates, so neither sees
  the other; a sequential replay would. `NoSkew` is stated for the users only the
  stream touches.
* Neither the scorer's Redis client (`redis_store.py:17`) nor its Postgres connections
  (`db.py:17`) have a timeout. A backend that is frozen holds `POST /score` and the
  consumer thread for as long as it is frozen (at the insert, one of ten connections too),
  and a draining shutdown waits for the requests. `EveryRequestAnswered` is false without
  its premise `<>[]NoneSilent`.
* A Redis that refuses is an exception in `score` (`RedisError`): `POST /score` answers
  500 and the consumer counts an error. `fraud-RUNBOOK.md:222-225` ("The feature store
  returns empty history ... The model still returns confident-looking scores") and the
  comment in `api/main.py:109-111` describe a quiet degradation the code does not have;
  it does happen after Redis comes back empty (`RedisUpAgain`, `Evict`).
* With quiet traffic the monitor reads the same rows again, so two consecutive drifted
  windows may be one batch of rows seen twice (`Fetch` consumes nothing).
* A missing `drift_share` counts as a clear window, resets the streak and sends the
  all-clear (`Drifted`).
* `send_slack` catches `URLError` and `OSError` only; anything else skips `latest.json`
  for that window (`Raise` at `notify`).
* With every connection out, `ping` fails and `/health` reports 503 although Postgres
  answers.
* Promotion has no gate in the code: `fraud-RUNBOOK.md:183` names one in
  `scripts/promote_model.py`, which the repository does not have.
* The monitor reads `reference.csv` once and the runbook's retraining restarts only the
  scorer (`fraud-RUNBOOK.md:172-180`), so a new model is compared with the old
  reference until somebody restarts the monitor. The reference registered with
  a version is read by nothing, so after a rollback no restart helps. These are the
  conditions of `ReferenceFits`.
* Without a registry every bundle carries the same `MODEL_VERSION`, so `/health` cannot
  tell a retrained model from the one before.

The ML monitor:

* DDM signals on any 30 predictions that are all right (or all wrong): minimum and deviation
  are 0 and the condition is `0 >= 0`. `_fire_alerts` makes it a CRITICAL alert for a
  perfect model; the comment at `concept_drift.py:177-180` wants to prevent false drift.
  The second disjunct in `DDMFiresOnWorse` is this case.
* Page-Hinkley with its defaults needs more than 50 errors and some 145 labelled records
  of a window of 500 before it can fire. A detector reruns over the whole window at each report,
  so a drift is reported until it has left the window.
* On a stream without an end it would fire without a new error: after many errors and
  then none the sum is so low that `alpha * sum` (`concept_drift.py:135`) lifts it by more
  than delta and the mean take away. In the model's arithmetic, 1000 errors followed by
  none fire after some 35000 elements. The windows of the monitor are far too short for it,
  which is what `PageHinkleyFiresOnErrors` proves; a caller of `PageHinkley` that feeds it
  one stream for good is not covered.
* Nobody asks a running monitor for reports. The docstring of `Monitor`
  (`core/monitor.py:51-52`) says that drift is computed when "the API/dashboard, which call
  it on a poll" ask; but the API only answers, and `dashboard.py:39-113` reads the SQLite
  file and runs the detectors itself, without alerts. Drift is alerted only if some
  client outside the repository polls `GET /drift/latest` or `/drift/report` (`Polled`).
* One text in a column the reference has numbers in (`data_drift.py:36-37`, called without a
  `try` at `core/monitor.py:118`) loses the whole report, the drift of the other columns
  included, for as long as it is in the window; so does one label that is no number
  (`core/monitor.py:141`), and an append during a pass loses that report.
* An INSERT of an alert that fails aborts the report; the alerts before it are stored but
  not sent, and the cooldown of its key runs although nobody has heard of it.
* Two reports at once may both alert (`raced`).
* A column that KS calls drifted with a score below 0.1 is drifted in the report and
  never alerted.
* The report command logs the rows it reads, so each run stores the newest
  `window_size` rows once more, and alerts with a deduplicator of its own
  (`cli.py:55-57`). `purge_old` has no caller.

The feature store:

* A batch that comes late overwrites newer values in the online store; a `materialize`
  that overlaps an ingest may do the same (`orderly`, `synced`).
* A death in the middle of a partition leaves a file every later read and write of that
  date fails on; `ArrowInvalid` is a `ValueError`, which `api.py` answers as 404.
* Any thread's commit makes half a register durable, and an `IntegrityError` leaves its
  half open for the next commit (`mixed`); an ingest between the two SELECTs of
  `get_feature_group` may be validated against half a group.
* `materialize` asks for `offline` only (`materializer.py:17`): a group with
  `online=False` is put into the online store all the same, and as no ingest writes there,
  it is served stale until the next `materialize`. `ServedIsNewest` is about groups that
  are online.
* What a register that ran into an `IntegrityError` leaves pending is visible to every
  thread, and to a `materialize`, but gone after a restart; so `MaterializeRepairs` holds
  over a crash only if the registry the restart finds has the same features (`synced`).
* Rows with equal timestamps are taken in any order. A feature that was removed from its
  group is served until its time to live is over.
* `uncovered_entity_ids` is documented as entities that always have NaN
  (`pit_join.py:32`) and contains those with NaN for any label.
* `POST /ingest` for an unknown group raises a plain `ValueError`: a 500.
* `duckdb_store.py:18` imports `REQUIRED_COLS` from a module that does not define it: the DuckDB
  store cannot be imported.

## 7. Not modelled, and why

* Evidently's and scipy's statistics, the features and the model: floating point; the
  models keep what control flow depends on.
* Endpoints and commands that only read or lay out (`/stats`, `/health`, `/metrics`,
  `/alerts/history`, the dashboard, the aggregator, searches); latency, lag and flagged
  metrics; `DRIFT_SHARE`, which nothing sets.
* Races inside `SimpleConnectionPool`, which is not thread-safe: `getconn` and
  `putconn` are single steps.
* Consumer rebalancing: the group has one member, which is not put out of it for staying
  away from `poll` (a hang can last that long; the batch would come again). Retention in
  Kafka: the log keeps every record. A record that is no JSON object, for which the
  `except` of the consumer raises (`stream_consumer.py:64`) and ends the thread without
  a broker fault.
* A command a frozen Redis has received and carries out after its caller gave up.
* The feature store's Redis online store (one pipeline per batch, no statements to
  interleave), writes to DuckDB, `delete_group`, and its command line, which would be a
  second process with connections of its own.
* Adapters, configuration, schemas, the generators of synthetic data and the scripts
  that call the parts in sequence (`pipeline.py`).
