# LakeWind in TLA+

LakeWind forecasts wind on a lake: collectors store observations and NWP
forecasts in DuckDB, a prediction cycle turns them into stored predictions with
a trained model, a Telegram bot and an API serve them from memory, and a nightly
job backs up, prunes, evaluates, retrains and may promote a new model. This
directory holds TLA+ models of the parts of it that are hard to test, TLC runs
on small instances of them, and proofs for every instance.

Paths below are relative to `src/lakewind/` unless they start with `src/`.

## Inventory

| component | state it keeps | operations | what is hard | what makes it correct |
|---|---|---|---|---|
| Model lifecycle (`ml/train.py`, `ml/review.py`, `ml/backtest.py`, `db/access.py`, `interfaces/cli.py`) | `model_registry`, `model_promotions`, the bundle and calibrator files under `MODELS_DIR` | train, register, calibrate, gate, promote, roll back, GC | three autocommitted statements per change of production, two gates, crash between any two writes, order of names vs order of `trained_at` | one production version, explained by the audit trail; no promotion past the gate; rollback is an undo; the GC spares what is served |
| Pipeline loop (`pipeline_loop.py`, `stability.py`, `src/docker-entrypoint.sh`) | deadlines, `cycle_active`, the task and its worker thread | NWP cycle, station cycle, maintenance, review, cancel, SIGTERM, restart | four deadlines in one loop, threads that outlive their task, a handler on the event loop's thread | every periodic job recurs; the flag never outlives its cycle; the database is not closed under a cycle before the grace period ends |
| Forecast store (`forecast_store.py`, `cache.py`, `prediction/engine.py`) | the projection, two TTL caches, flights in progress, the predictions table | refresh, lookup in three levels, insertion of a generation | check, lock, check again, load in a thread; coalesced misses; cancelled requests; rows inserted one by one | bounded staleness, the newest generation after a cycle, one load per burst, every request answered |
| Serving inference (`ml/infer.py`, `ml/conformal.py`, `ml/coverage.py`) | `_CALIB_CACHE` next to the files on disk | resolve a version in two queries, load, calibrate a band | production changes in between, files truncated in place, a cache without lock or invalidation | the version used is the old or the new one, the cached band is the one on disk unless it is refitted later |
| Notifications (`interfaces/bot_scheduler.py`, `db/users.py`, `monitoring.py`) | `last_triggered_at`, `last_sent_at`, `_digest_state` | alerts, daily summaries, operator digest | send before the mark, windows over midnight, rows of several generations, a monotonic clock | messages are spaced, none is silenced for good |
| Database access (`db/access.py`, `db/schema*.py`) | thread-local connections, `_CONN_REGISTRY`, `_SCHEMA_ENSURED`, the file lock, `schema_migrations` | open with retries, ensure schema, migrate, close | the flag is set before the DDL, DDL may fail or die half way, two processes and one file | a connection sees the whole schema, what is recorded was applied, waiting ends |
| Backup and restore (`db/access.py`, nightly maintenance, `lakewind backup/restore`) | the live file, its WAL, backups, safety copies | back up, verify, copy offsite, rotate, restore | a copy next to writers and checkpoints, a copy over the live file, kills in both | what is called a backup is one, the newest stays, a dying restore leaves what it found |
| Recovery, backfill, retention (`recovery.py`, `collector/*backfill*.py`, `db/access.py`) | rows per series and day | detect gaps, recover at boot or by hand, scan, chunked requests with retries, delete | gaps measured from one global newest row, jobs killed half way, two chunkings | every missing day has a known cause, a job that was answered leaves no hole, deletions spare what cannot be fetched again |
| Features and targets (`features/`) | the look-up memos of a cycle | prefetch, look-ups, target selection | collectors write between the look-ups of a sample; one rule coded in SQL and in Python | no stored observation from after the issue becomes a feature, nor a later hour through the normals; the memo answers as the query; late rows change no target |
| Evaluation (`ml/backtest.py`, `ml/cpcv_backtest.py`, `ml/train.py`, `ml/conformal.py`, `ml/truth_check.py`) | none | windows, purged paths, split, quantile, pairing | boundaries, remainders, rounding | no sample is lost, none is on both sides, a path is judged by a model of its own, the band covers |
| Verification harness (`src/scripts/verify_vs_reality.py`) | parquet files, markers, the candidate | five resumable stages | kills between file and marker, stages run alone, smoke runs, one target at a time | markers tell the truth, one candidate per report, a report comes |
| Sailing decision (`prediction/decision.py`, `interfaces/telegram_bot.py`) | none | verdict of a spot, report over the spots | two rules for the best spot | the verdict is that of the medians, the hour advised is one to sail, no spot to go to beats a leader, GO means go |
| Telegram bot (`interfaces/telegram_bot.py`, `db/users.py`) | `v2_users`, `v2_alerts`, the command counts, the keyboards in the chats | commands, buttons, onboarding, alerts | keyboards outlive the settings they were made from; callback data built and parsed in two places | onboarding is once, alerts are their owner's, refusals do not count |
| Collectors | the tables they fill | collect | HTTP and parsing | see Recovery and Features: which rows, under which run time |
| API, admin and CLI front ends, artifacts and maps, configuration, web UI, deployment | see `PROJECT.json` | | formatting, rendering, settings | |

They interact as follows. One process holds the database file (DuckDB's lock):
the service (pipeline loop, bot and API on one event loop, blocking work in
threads) or a CLI command. The pipeline loop calls collectors, the prediction
engine, artifacts, the forecast store, and at night maintenance (backup,
retention, bundle GC) and the review (evaluation, recalibration, training, gate,
promotion). The bot and the API read the forecast store, which reads the
predictions table or calls the serving inference, which reads the registry and
the model files. The scheduler of the bot reads predictions and sends messages.

## Plan

Ordered by importance; 1 to 10 are done.

1. `ModelRegistry`: the life of a model version, with proofs.
2. `PipelineLoop`: the four jobs of one loop, shutdown and restart, with proofs.
3. `ForecastStore`: what requests are answered with, and from when it is; it
   implements `Coalescing`; with proofs.
4. `Serving`: which version a prediction uses and with which calibrators, with
   proofs.
5. `Notifications`: the spacing and the recurrence of messages, with proofs.
6. `Recovery`: the archive of a table and everything that fills or empties it,
   with proofs.
7. `Connections` and `Backups`: the database file, with proofs.
8. `Features`, `Evaluation` and `Verification`: what a model is shown and how it is
   judged, with proofs.
9. `Sailing`: what is concluded from a forecast, with proofs.
10. `Bot`: the conversations, with proofs.
11. Abstractions still open: a production pointer implemented by `ModelRegistry`,
    `Serving`'s registry as an abstraction of `ModelRegistry`'s.

## Modules

### ModelRegistry

One action per statement or file write of a job; `holder`, `job`, `pc`, `ver` say
who holds the database file, which command it runs and where it stands. Statements
are autocommitted, so every action boundary is a point where the process may die
(`StopProcess`, with `Crashes`). Versions are numbered in the order of the
timestamps in their names (that order decides what the GC keeps); `age` is the order
of `trained_at`, which an upsert renews (that order decides what
`current_production_model()` returns). The two metrics of the gate, speed MAE and
direction error, are one score; `NoScore` stands for NULL and for 0.0, which the
code treats alike; it is no score, and the gate properties say so of the candidate
in so many words. The gate's demand for station samples is a choice of the
environment. `lastProd`, `before`, `torn`, `lost` are history variables: no action
reads them.

`MCOperations` gives scores for TLC.

### PipelineLoop

The task is in a worker thread's step (`worker = pc`), back from it
(`worker = "none"`), asleep, or between two awaits (`check`, `idle`). A deadline
is the number of ticks left to it; ticks pass only while the task awaits or the
handler waits. `NextPass` is `_next_local_time_monotonic()`. The handler occupies
the event loop's thread, as under `lakewind pipeline-loop`, where nothing
replaces the handler that `stability.py` installs; worker threads go on.

### ForecastStore

`refresher[a]` is where actor `a` stands in `refresh_projection()`; the lock is
held from `TakeLock` to `Install`, and `ReadRows` and `Install` are apart because
the load runs in a thread; `rows` holds what the query returned, and insertions
between the two change nothing of it. A request goes through `Lookup`, `AskStored` and
`AskOndemand`; `flight` is the table of the single flights. A generation is
inserted row by row (`BeginInsert`, `InsertRow`): `executemany()` runs on an
autocommit connection. Time passes only while every coroutine waits for a thread,
and the load takes at most `MaxLag` ticks between its query and its installation.
The two TTLs (300 s both by default) are one constant.

`Coalescing` is the abstract specification of `SingleFlight`: callers that join a
work in flight, leave it, or are all released together when it completes.
`Coalesces` maps the passengers and the flights of the store to it: a leader that
is cancelled, a computation that raises and a waiter that goes away are all steps
of the abstract one, and a flight that keeps its key after its leader was
cancelled is not (its mutant).

### Serving

A calibrator file is the number of the fit that wrote it, and a target's q10 file
stands for its three. `open()` truncates the file in place and `pickle.dump()` fills
it, so there is a `Torn` file between the two actions, and for ever if the process
dies there. A fit goes through its targets one by one, skips one with too few
samples and may raise at any point. Readers run `predict_at()`: two queries for the
version, a lookup in `_CALIB_CACHE`, the files one after the other, the store into
the cache. There is no lock anywhere, and none is modelled. The prediction cycle is
a reader that keeps its version for all horizons; it runs in the loop that also runs
the review, so the two do not overlap (a cycle whose task was cancelled and whose
thread lives on is left out), while requests overlap with everything. A CLI command
has no readers next to it: it holds the database. `RegisterModel` assumes that no
reader's two queries span a training, which takes minutes. `met` and `overtaken` are
history variables: what a reader may have found in production since it began, and
the versions refitted after a thread of this process had read their files. The GC
and bundles that are missing are left to `ModelRegistry`.

### Notifications

Every age saturates at the interval it is compared with. A run reads rows and
time once (`Fire` fills `todo` from `Eligible`), then awaits each message; it is
`Deliver` and `MarkAlertTriggered` apart, since the process may die, the answer
of the send may be lost (`DeliverUnanswered`) and the UPDATE may fail
(`SendFails`). `_digest_state` starts empty and a missing entry reads as 0.0 on
the monotonic clock, so it counts as old as the host is up (`up`). Nothing in
the program creates a row in `v2_subscriptions`: the job's pass over them is
empty and is left out. Ticks pass only between runs, in the await of an alert's
message, and while the process is down. `forecast` is the table of the alerts'
point, a row per generation and hour; `Met` is the code's test on it.

### Recovery

The unit of time is a day, and a behaviour is about one of the three tables
(`table`, chosen at the start): `forecast_runs`, `observations`,
`v4_climatology`. A series is what one request asks for (point and model, point,
station). `rows` holds which days of which series are stored, by which source,
and whether the row has a value. `StartServices` and `CollectDay` are the live
collectors, each request of which may fail; `PowerCut`, `DayDown`, `Boot` an
outage and what the entrypoint does after it; `Recover`, `RecoverByHand`,
`RecoverWindow`, `IncrementalBackfill` start a job, and `Answered`, `Skip`,
`Empty`, `Refused`, `PhaseEnds` take its requests one at a time, with
`Task` giving the window of the next request under the two chunkings.
`BootTimeout` is the `timeout 900` of the entrypoint. `lost` is a history
variable: the days that were given up, each with its cause. A climatology that
starts from nothing goes back three years (`ClimDays`) and no further, so older
days need no cause. `RecoveryAssumption` asks that points and models are finitely
many (a job goes through them in the order of the configuration) and that the
lookback of the scan is not a single day: its window would begin and end on the
same date, for which `_chunk_date_range` gives no chunk.

### Connections

Two processes, the service with its threads and a command with one, share the
file; `owner` is DuckDB's lock. A thread goes from `opening` (a bounded number of
refusals) to `schema`, where it either sees the flag up and registers or takes
`_SCHEMA_LOCK` and runs the DDL statement by statement, each migration followed by
its row in `schema_migrations`. A statement may fail (the flag is taken back and
the exception goes to the caller) and a process may die at any point. `slipped`
records the threads that registered while the DDL of another one ran: they are
the only ones that may meet a schema that is not whole.

### Backups

What the file holds is the number of writes committed to it; a commit goes to the
log (`wal`), a checkpoint empties the log into the main file. A backup is
`Checkpoint` (which may raise, as the copy may: `CopyFails`), a copy that other
threads' checkpoints may overlap (`AutoCheckpoint` sets `hit`), `Verified` or
`VerifyFails`, the offsite copy and the rotation by name. A restore writes its
safety copy, then overwrites the main file; the log next to it is left as it is and
is `stale` from then on. `Kill` leaves a half copy where it is.

### Features

What is kept of a value is its provenance: which stored row a feature was read
from. `Begin` is the prefetch of `build_features_for()`, `Base`,
`ReadObservations` and `Pack` its later look-ups, with collectors
(`Collect`, `Stitch`, `Observe`) writing between any two of them. `Pack` also takes the
climatological normals: `climate` holds the hours with a value in `v4_climatology`,
which `DeepBackfill` fills while no sample is under construction, and `Normals` those
of the season from `NormalsBack` on, with no upper bound, as the SQL has it. They are a
field of the sample apart from the observations (`obs`). The memo of a
serving cycle is shared between horizons. Ties the SQL leaves open are an
argument (`tie`): the first or the last of the candidate hours.

### Evaluation

Every job is a function of its input: `GenerateWindows` and `RunBacktest`,
`CpcvPaths`, `TimeOrderedSplit`, `QHat`, `NearestPair`. A behaviour chooses an input
and computes. A path names its train rows, and the rows the model that judges it was
fitted on (`FittedRows`): nothing is fitted on the former, every path is judged by
the given or the production version, whose training period may hold the tested one.
Scores are integers kept `n` times as large so that the interpolated quantile stays
whole; the k-th of them in ascending order (`Smallest`) is the least that k of them
do not exceed, so that nothing is sorted. Miscoverage is in tenths and the
validation share in hundredths.

### Verification

`run` is the invocation of `verify_vs_reality.py` (stages left, next point, mode
and targets); everything else is a file. A stage skips a point its marker or file
says is done, and the process may be killed between any two writes: between a parquet
file and its marker, before or after the registration of a version (`TrainCut`), in the
middle of the test rows. Stages are started alone, in smoke mode, or for one target;
`halves` are the targets a version has models of. With one of them only, neither
the calibration nor the test gets anywhere (`CannotCalibrate`, `CannotScore`). Test
rows are `many` or too few for a full report (fewer than 200 lines in all, of which the
model keeps whether some spot brought enough), and a full report refuses too few
(`NoReport`).

### Sailing

A row is the median as its distance from the threshold, the width of its band and
its expected error; 0 stands for a NULL column. A probability is kept as the
quotient it grows with, and is at least one half exactly if that is not negative.
`LakeBest` and `OverallBest` are folds over the spots in the order of the code, with
its test (`Surpasses`). Rows whose band has width zero are not among the inputs:
`band_speeds_kn()` yields one only when both quantile biases move the speed by nothing.

### Bot

A button's callback data is the tuple of its parts, a keyboard the set of its
buttons, `chat` the keyboards of a user's last messages: they stay pressable
after `Restart`, which may change the operational points. python-telegram-bot
handles updates one after the other (no handler is registered with
`block=False`), so a handler is one step. An entry of `_rate_counts` is its age with a
number that tells it from the others of the same tick. `told`, `gone`, `wanted`,
`owners` and `answered` are history variables.

### Unions

`MCOperations` (ModelRegistry, PipelineLoop, Verification), `MCDatabase` (Connections,
Backups), `MCLearning` (Features, Evaluation) and `MCServing` (Serving, Sailing, Bot)
check modules that share no state in one run each: `part` is chosen at the start, a
behaviour is one of the chosen module, and the variables of the others stay at their
initial values.
Their properties are those of the modules, some conjoined: `LoopSound`,
`HarnessSound`, `SchemaSeen`, `BackupsKept`, `EvaluationSound`, `TargetSound`,
`DecisionSound`, `LeadersUnbeaten`, `ChatSound`. The fairness of `MCOperations` is that of
the modules, of the part that runs. The parts are independent, and nothing is shown
about their interaction.

## Runs

| run | question | bounds |
|---|---|---|
| `operations` | registry: type, unique flag, audit trail, gate, GC, undo by a first rollback, with crashes; loop: flag, shutdown, recurrence of every job; harness: markers and reports | registry: 2 training runs, 3 audit rows, 2 scores a margin apart, 1 bundle kept: enough for a candidate, its predecessor, a return to it and a bundle the GC pushes out. Loop: NWP every 3 ticks, stations every 2, a day of 4, one SIGTERM, cancellation. Harness: 2 points, 1 fault, 2 special runs (more faults are left to the proof) |
| `rollback_toggle` (violation) | "re-promote the version that was production before" | the registry, with 3 training runs and 5 audit rows |
| `store` | staleness, fresh after a cycle, one load per burst | 2 keys, 2 requests and the loop, 2 generations, TTL 1 tick, load at most 1 tick |
| `store_answers` | the flights implement `Coalescing`, every request is answered | 1 key, 2 requests, failures and disconnects |
| `serving` | a change of production is invisible, the cache is what is on disk unless refitted later; verdicts, advised hours and leaders; onboarding, limit and ownership | predictions: 2 versions, 2 fits, a request and the cycle. Decisions: 2 lakes, 3 spots, every series of at most 2 of 5 kinds of rows. Conversations: an administrator with one message to press, a second user with commands only, a spot that a restart takes away, 1 command an hour of 2 ticks, 1 alert |
| `alert_button` (violation) | "threshold buttons -> al:set:... (created)" | as `serving` |
| `recalibration` (violation) | "closing the gap where a drifted band silently kept serving" | as `serving` |
| `notifications` | messages are spaced, no alert and no failure is silenced for good | 2 alerts, 1 failing source, a day of 2 ticks of which 1 is quiet, intervals of 2 ticks, 1 death |
| `recovery` | every hole has a cause, an answered job leaves none, deletions spare what cannot be fetched again, a boot ends | 5 days, 2 points of which 1 operational, 1 model, cap of the boot 2 days, retention 3, chunks of 2, 1 retry, 2 faults: an outage may be longer than the cap, and a window has a last chunk that is cut |
| `database` | the schema is seen whole, waiting ends; backups hold, the newest stays, a restore is recoverable | 2 threads and a command, 2 migrations, 2 refusals; 2 of 3 backups kept, 1 write, 2 restores; 2 faults |
| `learning` | stored observations from before the issue only, memo as query, late rows change no target; nothing left out, paths and splits apart, the band covers | building: days of 2 hours, runs of 4, years of 2 hours, 2 models, 2 sources, 2 writes, 2 samples: enough for a backfill or a late reading and a sample that is built after it. Judging: up to 9 samples in 4 groups of which 3 are tested, 5 scores of 4 values, 6 rows, windows of at most 3 hours |
| `normals` (violation) | normals are "over the last `years_back` years" | as `learning` |

In `store` the two keys are symmetric, and so are the two requests. In `serving`
the request is the reader that may overlap with a review and the cycle the one that
may not; more requests are left to the proof.
Two requests are enough for a leader and a waiter, two keys for a generation
that covers one and not the other, two generations for a reply that is older
than it should be. `CHECK_DEADLOCK FALSE` is set where a bound lets the system
stop: generations (`store`), faults and restores (`database`), writes and samples,
and jobs that compute once (`learning`).

### Fairness

`PipelineLoop`: the event loop schedules the task, worker threads return (collectors
have HTTP timeouts), time passes, the handler leaves its bounded loop, the
supervisor restarts a dead process. Nothing is assumed of signals or cancellations.
Station cycles take at most `MaxStation` ticks, below the NWP cadence: with a longer
one maintenance and review starve (see the hazards). `ForecastStore`: threads
return, `asyncio.Lock` hands the lock over in the order of arrival (strong fairness
of `TakeLock`), the event loop resumes what can run. `Notifications`: the scheduler
runs the job, the supervisor restarts the process, time passes, and Telegram is not
out of reach for ever (strong fairness of `Deliver` and `Push`: a send that is tried
again and again arrives once). With less, an alert may fail at every run.
`Connections`: a thread that can take a step takes it; nobody has to start or stop.
`Recovery`: requests are answered or time out and the entrypoint goes on when the
recovery returns; the power may stay off and nobody has to type a command.
`Verification`: a stage runs on, and whoever verifies starts each stage again
(strong fairness of `BeginStage`); kills are bounded. Even so `ReportComes` has two
exceptions, and they are the program's: test rows that are torn or too few are never
scored again, and a candidate marked without its u half is never trained again.
`Serving`, `Backups`, `Features`, `Evaluation`, `Sailing` and `Bot` have no liveness
property.

## Proofs

`ModelRegistryProofs` proves, for every number of versions, every set of scores,
every margin and with or without crashes, `TypeOK`, `AtMostOneProduction`,
`AuditExplainsProduction` and the action property `GcSparesProduction`. None of the
invariants is inductive: a job in the middle of its three statements has already
cleared the flag, so the proof needs what each step knows. `ChainInv` adds that a
job has a process, that a job past its training has a version, that a version about
to be flagged has a row, that at `audit` the flag is exactly the job's version, and
that versions in the trail have rows. For the properties that speak of the past
there is `HistoryInv`: the flag, if set, is on the version last made production, the
audit trail ends with it, and the version before it is on the trail; from it follow
`GateGuardsProduction` (of the candidate itself the gate needs no history: it has a
score) and `RollbackUndoesPromotion`. Both invariants were checked by TLC on the
instance of `operations` before they were proved. The only assumptions are
`RegistryConstants`.

`OperationsProofs` proves `LoopSound` (its type invariant and `FlagMeansCycle`) and
`CloseWaitsForCycle` for every cadence, length of day and grace period, from
`OperationsAssumption`.
`LoopInv` adds that the thread the task waits for is the one of its position.
`FlagMeansCycle` says where the task is and no more: that a cycle under the flag can go
on is false when the handler sits on the loop's thread (`FinishedCycleIsKept`), and of
the thread a cancelled task leaves behind the flag knows nothing.

It proves `HarnessSound` as well, for any number of spots, faults and runs. A
stage may be killed between a file and its marker and started again with other
work done meanwhile, so `HarnessInv` says that only a run of both targets goes on
after training and that no later stage runs without a candidate (`RunKnows`), that
the candidate has the half the rows are scored with (`CandTrained`), and that all
rows on the disk that can be read are of the one candidate there is
(`RowsOfCandidate`).

`NotificationsProofs` proves `TypeOK`, `AlertsSpaced` and `DigestSpaced`. The
guard of the step that sends was tested on rows read earlier; `MarksCover` says
that meanwhile only the run itself could have set a mark, and that a mark is
never older than the message it is for. `EntriesCover` says the same of
`_digest_state` and the digests of this process.

`ForecastStoreProofs` proves, for any keys, requests, TTL, length of a load and
number of cycles, with failures and cancellations, `TypeOK`,
`StaleOnlyAfterFailure`, `CycleLeavesNewest`, the action property `OneLoadPerBurst`,
and that the store implements `Coalescing`: every step is a step of the abstract
single flight or leaves it alone (`Coalesces` is pure safety). A reply is as old as
what it was taken from, so the bound has to be carried from place to place: `Ages`
says of the rows a thread has read, the projection, the two caches, the result of a
flight, a request that looks at the projection next and a reply that only
generations are missed which were stored while the value was there. That an
insertion makes nothing older needs `ClockStarts` (a generation that is not complete
has no age), that a load is at most `MaxLag` behind needs `OneLoads`: what one actor
has read is not replaced by another. `ForcedLoad` follows the rows of the last
refresh of a cycle, and `FlightsLed` says that a flight goes on exactly as long as
its leader waits for it. The one induction over data that is needed, that a set of
generations that is not empty has a newest one, is the library's `WFMin`. TLC
checked `StoreInv` on the instance of `store`, and with one key, failures and
cancellations, before it was proved. The only assumptions are `StoreConstants`.

`RecoveryProofs` proves, for any points and models, chunk lengths, caps, windows,
retries and faults, `TypeOK`, `WindowsFilled` and the action property
`OnlyLiveRowsExpire`, from `RecoveryAssumption`. That every hole has a cause once
the services run says nothing of an outage or of a running job, so `ArchiveInv`
says what is known of a day in each phase: `Known` (stored, with or without a
value; given up; or out of what is kept) of every day up to today while the
services run, `Known` of the days before the newest row while they are down, and
`Known` or `Due` (still to be asked for by the running job) of the days before
today while they boot. A boot reads only the newest row of the whole table; what
carries the older days over the outage is that a series which had fallen behind
has its cause, and that a forecast leaves none of the days to come out
(`FutureFilled`): otherwise a row of next week would hide a hole of tomorrow. The
steps of a job need that its requests cover its window, which is arithmetic over
the two chunkings (`WindowCovered`: quotient and remainder of a request's number
give its series and its chunk, and chunks that share their borders, or do not,
leave no day out), and `CleanSoFar` says that what was answered is kept:
rows brought by a backfill are replaced by rows of the same key only, and the
retention spares them. A value is not overwritten by a null because ERA5's newest
days are the only ones without values, and they only get older (`RowOk`,
`FreshRow`). TLC checked `ArchiveInv` on the instance of `recovery` before it was
proved.

`ServingProofs` proves `TypeOK`, `OldOrNewProduction` and `CacheMatchesDisk` for
any number of requests, versions and fits. `JobKnows` says that the service only
promotes the newest row, which is why the fallback of a reader that finds no
flagged row is right; `MetKnows` ties what a reader may have met to the flag
through a promotion; `LoadsKnow` says that a thread half way through the files
has read what is there, unless a fit has overtaken it. Fits of a version nobody has
read are no exception, so the theorem covers the usual life of a candidate: fitted,
promoted, read, cached. What it leaves out is `recalibration`. TLC confirmed
`ServingInv` on the instance of `serving` before it was proved.

It proves `DecisionSound` for any spots, rows and number of hours, from
`ServedAssumption`: the verdict of a spot counts the medians that reach the
threshold (`VerdictOfMedians`), and the hour it is advised for is sailable exactly
if the verdict is not no_go (`AdvisedHourSails`). The first needs that a probability
is at least one half exactly if the median is at least the threshold, whatever the
band (`EvenFromTheMedian`). The second relates a count over all hours to a maximum
over them: an hour at least as probable as one that is even is even (`EvenPasses`).
That `max()` over the hours finds a row is no matter of course when rows are
compared by quotients and ties by another column. `MoreProbableOrder` shows that
quotients with positive denominators are a weak order (cross-multiplied, in
`ProductsOrder`), `BeatsOrder` that the tie-break keeps it one, and `BestExists`
that a non-empty series then has a first best row: the shortest prefix without one
would have a shorter prefix without one. `LeadersUnbeaten` is about folds over the
lakes and stays with TLC.

Of `Bot` it proves `AlertsOwned`, with its converse (`HandledByOwner`: an alert comes
or goes in no other handler), and `ChatSound` for any users, points, keyboards and
settings. `ConversationInv` has four parts: what the rows and the histories say of
each other (`ChatInv`), the counts (`CountInv`), the keyboards in the chats
(`KeysInv`) and the alerts (`AlertInv`). `CountInv` needs that an entry that is
appended has a number no other has, which is a counting argument (`CountedIs`: n
entries cannot have n + 1 numbers), and that no two entries become one when they get
older, so that the length of a list is what the code's `len()` sees. That an alert is
one of `Alert` rests on `KeysInv`: no keyboard that is ever sent has a button of three
parts for the handler of the thresholds, which would read its second part as a point.
The same fact makes the finding of `alert_button` a theorem, `ThresholdsCreateNothing`.
TLC checked `ConversationInv` on the instance of `serving` before it was proved.

`DatabaseProofs` proves `SchemaSeen` for any number of threads, migrations,
attempts and faults, from `ConnectionsAssumption`. A thread that finds the flag
up does not look at the schema, so the flag has to be worth something:
`FlagIsTrue` says that a flag that is up while nobody holds `_SCHEMA_LOCK` means
a complete schema. To keep it, the thread that holds the lock (`LockHeld`) must
have left every earlier statement behind (`ScriptAdvances`), although it passes
over versions that are recorded; that these are applied is `RecordedIsApplied`,
and that the script of another process only adds to the schema carries the
invariant over to the threads that are not the ones that step.

`DatabaseProofs` also proves `BackupsKept`, for any retention and any number of
writes, backups, restores and kills, from `DatabaseAssumption`. `CopiesInv` says
what a step of `backup_database()` may rely on although anything may have been
written, checkpointed or rotated since the step before. Files have stamps of their
own and none is newer than the last one given (`StampsKnow`); what was committed
when a copy was asked for is in the main file while it is copied, and in the copy
once it is whole, unless a checkpoint ran into it (`BackupKnows`); the main file is
only overwritten while the newest safety copy is of it (`RestoreKnows`), so what a
restore found stays in a whole file (`FoundIsSafe`). Rotation sorts by stamp, so
that it spares the newest verified copy is the order of the stamps and a count of
those that stay.

`LearningProofs` proves `NoObsAfterIssue`, `TargetSound` and `MemoAnswersAsSql` for any
points, models, sources and windows, from `WindowsAssumption`. `IssueInv` says
what the memory of a pass may be trusted for: an answer of a cache holds one row
of each model (`MemoKnows`), so a sample has one reference forecast and its run
time bounds every reading; readings remembered for a time lie in the lookback of
that time (`ObsMemoKnows`), whenever they were read; and the reference is chosen
before anything is observed (`RefComesFirst`).
`TargetInv` adds that no forecast is from a run after the hour it speaks of
(`MemoIssued`, `RefIssued`), and that what a sample has gathered was stored for its
own spot and time (`ReadingsStored`, `OwnReadings`): within a lead longer than the
lookback the windows of the features and of the target cannot meet. `TargetSound` also
says that rows of a lesser tier which arrive after a usable reading leave the target of
every hour as it was: whoever is beaten by a tier is beaten whatever its score
(`LateRowsLose`), in windows whose stored readings stay (`ReadingsStay`). Both theorems
speak of the table of observations. The normals are in the model and outside the
theorems: with them the sentence would be false (`normals`).

It proves `EvaluationSound` too, for any numbers of samples, groups, rows and hours
and any size of a score or a time, from `LearningAssumption`. Of the combinatorial
paths it speaks of the rows they name, not of a model: none is fitted on them
(`PathsTrainTheirModel`). A job takes one step, so `JudgingInv` only says that a result is
computed from an input of its job; each part is a statement about an operator:

- no step from the last window leads to one that fits (`WalkEnds`), because the
  remainder of a sum is that of its parts (`QuotientOf`);
- the groups part the samples, whatever the division leaves over (`GroupsPart`), so a
  path is known by its choice of groups, and exchanging two groups is a bijection
  between the choices with the one and with the other (`GroupsAlike`, `SamplesAlike`);
- with one sample an interval, a distance beyond the whole intervals of a window is
  beyond its hours (`IntervalsAreHours`, `PathsKeepApart`);
- the snapped cut is the least change of the hour, and times in order stay
  in order across it (`SplitForward`);
- q_hat lies between two neighbouring scores of which the lower one already covers
  what is needed (`SmallestIs`, `QuantileCovers`);
- in a sorted series the readings before an instant are its first ones, so a
  bisection's two neighbours contain the nearest (`Bisection`, `PairIsNearest`).

What would be induction over data is again the least element of a set of naturals
(`LeastExists`): a sequence that never descends is in order, for otherwise there
would be a first place at which it is not (`InOrder`).

TLC checked `CopiesInv` on the instance of `database`, `IssueInv` and `TargetInv` on
that of `learning`, `HarnessInv` on that of `operations` and `JudgingInv` on that of
`learning`.

Model-checked only: `LeadersUnbeaten`, all liveness properties, and those of which
liveness is a part (outside this prover's reach).

## Findings

Where the program differs from what it says of itself. Four have a run in
which TLC finds the violation, and an entry in `PROJECT.json`:

- A rollback after a rollback re-promotes the version it just left
  (`rollback_toggle`).
- The threshold buttons of the alert setup do nothing: they send four parts
  (`interfaces/telegram_bot.py:474-480`), the handler wants three (880)
  (`alert_button`). Only `/alert set` creates an alert.
- The climatological normals are averaged with no upper bound
  (`collector/deep_backfill.py:354-356`, `features/climatology.py:160`, 184, 275): a
  training sample that is built late holds the reanalysis of its own hour and of later
  ones (`normals`).
- A recalibration does not reach a process that has the old band cached
  (`ml/infer.py:83`; `ml/review.py:241-243`) (`recalibration`).

The following are stated as definitions of the modules; TLC finds them violated when
they are added to the run of their module (for `CalibratedProduction`,
`NothingCapped`, `GoMeansGo`, `FinishedCycleIsKept` and `PathsTrainTheirModel` under its
cfg as it is). `AlertMeansSustained` and `Resumable` are
temporal formulas, the others invariants:

- `ModelRegistry!CalibratedProduction`: a version can be in production without
  its calibrators (`ml/review.py:196-197` says never).
- `PipelineLoop!FinishedCycleIsKept`: the shutdown handler waits, on the thread of the
  event loop, for a flag only that thread clears (`stability.py:83-101`), and so gives up
  a cycle whose last thread has returned, although it "stops throwing away cycles that
  were 95% done" (85-88).
- `Sailing!GoMeansGo`: the sailing report says GO as soon as one spot has a forecast,
  whatever the verdicts (`interfaces/telegram_bot.py:1078`, 1096-1108; 1014-1015 say
  ">=2 sailable hours => GO").
- `Evaluation!PathsTrainTheirModel`: no path of the combinatorial cross-validation trains
  a model (`ml/cpcv_backtest.py:177` says each does): all are judged by the given or the
  production version (246-255).
- `Notifications!AlertMeansSustained`: the minimum duration is a number of rows,
  and an hour predicted by two generations counts twice
  (`interfaces/bot_scheduler.py:219`; needs forecasts of two generations).
- `Recovery!NothingCapped`: after a boot whose recovery was capped, `recover`
  reports the data as current and does not look behind the newest row
  (`recovery.py:241`; `src/docker-entrypoint.sh:56-58` sends the operator there).
- `Backups!SafetyCopyComplete`: the safety copy of a restore takes the main file
  without its log, so after a killed service what was in the log is in neither
  ("a bad restore is itself recoverable", `db/access.py`).
- `Features!TargetNeverFeature` and `LagsKnownAtIssue`: within the lookback of the
  issue a reading may be feature and target (`features/build.py:255-257` says it
  must never be), and the lags may come from a later run than the reference.
- `Evaluation!TestedOutOfSample`: `run_backtest()` without a candidate trains one
  up to a test window before the end and walks every window with it
  (`ml/backtest.py:315-345`). `Evaluation!PurgedInHours`: purge and embargo are
  counted in samples of one per interval, and with several points an hour holds
  several (`ml/cpcv_backtest.py:13-22`).
- `Verification!Resumable`: test rows that a kill left torn are skipped for ever
  and the report raises on them; rows of a smoke run, or of hours without truth yet,
  are skipped in the same way and the full report returns 1 on fewer than 200; and a
  run of target v alone marks its version as complete "(u+v)" (`stage_train()`)
  although u was never trained, after which no stage trains again.

Met while reading, without a definition:

- A manual promotion writes NULL metrics (`interfaces/cli.py:573`) over the score
  the upgrade gate compares with (`ml/review.py:320-321`).
- `pipeline_loop.py:290-292` says maintenance does not block collection, yet the
  loop awaits it inline. On a host up for less than 12 h a digest stays silent, a
  missing entry being read as told at boot; `FailuresTold` shows that this passes.
- `_WRITE_LOCK` is documented to serialize the writes of a process
  (`db/access.py:35-38`) and is taken by the insertion of predictions only (966). The
  comment "a failure must not retry-storm" (100) stands over a flag that the except
  branch resets. `init_db()` alone applies the indexes.
- A partial `lakewind_backup_*` of a full disk counts in the rotation and in the
  list; a failing offsite copy skips the rotation.
- Verification with `--stage all` opens the database read-only and can never
  register the version it trains; smoke rows are taken by a later full report;
  `test` may run before `calibrate`.
- Live forecasts are filed under midnight whatever run they come from, and
  ties between the hours of a run are broken by nothing.
- The forecast rows of up to 17 hours all count for the verdict, where the
  docstring of the decision says 11 to 16 h local.
- "Back to spots" of the threshold keyboard leads to the lakes; "All set!" is said
  for a spot that is no longer operational and not stored (894-900); the rate
  limit is kept in memory, covers `/wind` and `/best` only, and ignores
  `rate_limit_per_hour`.

## Not modelled

Floating-point code (the formulas of the features, learning, the arithmetic of the
band, maps), HTTP and parsing in the collectors, message texts, the API, the admin
pages and the web UI, deployment scripts. The check-only mode of the review and
the append-only logs (`experiment_attempts`, `eval_runs`, `pipeline_runs`), which
nothing modelled reads back. Of the bot, `/report`, `/log`, `/admin`, `/webapp` and
the texts of `/why` and `/accuracy`. What is left out of a module stands in its
header or in its entry under `components` in `PROJECT.json`.

Five hazards have no property: the clock change of a DST night (the model's day
has a fixed length), the maps drawn after a refresh that is not forced, the thread
that outlives a cancelled task (nothing in the program cancels it), a backup whose
copy a checkpoint ran into (it may be anything, and `BackupsKept` exempts it), and
the minimum duration of an alert counted in rows, which the program does not keep (above).
Others are covered in part only, as their notes in `PROJECT.json` say.
