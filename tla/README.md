# Verification of kongtask

kongtask is a job queue on PostgreSQL, a Go port of graphile-worker.  This
directory holds TLA+ models of its parts, the TLC configurations that check
them on small instances, and proofs, checked by TLAPS, of the properties that
matter most for every size of the instance.

## 1. The system

| part | state | operations |
| --- | --- | --- |
| **Job tables** (`internal/migrate/sql`) | `jobs`, `job_queues` | `add_job`, `remove_job`, `complete_jobs`, `permanently_fail_jobs`, `reschedule_jobs`, the triggers that count the jobs of a queue |
| **Worker statements** (`pkg/worker/worker.go`, `pkg/worker/sql`) | the lock columns of both tables, `activeJob` | `GetJob`, `CompleteJob`, `FailJob`, `ResetLockedAt` |
| **Worker loop** (`pkg/worker/worker.go`) | `active`, `releaseCh`, `nudgeCh`, `contiguousErrors`, the sweep timer | `Run`, `doNext`, `RunOnce`, `Release`, `Nudge`, `setActive`, `resetLocked` |
| **Worker pool** (`pkg/worker/worker_pool.go`) | workers, cancel context, wait group, error channel, LISTEN connection | `RunTaskList`, `runWorker`, `startErrorMonitor`, `handleNotifications`, `GracefulShutdown`, `Wait` |
| **Pool registry and signals** (`pkg/worker/global_pool_manager.go`) | list of pools, two mutexes, flags, the signal channel | `registerSignalHandlers`, `addWorkerPool`, `removeWorkerPool`, `cleanupSignalHandlers`, the goroutine of a signal |
| **Cron scheduler** (`pkg/cron/scheduler.go`) | `known_crontabs`, the item list, the ticker | `Start`, `performBackfill`, `processScheduledTasks`, `scheduleTask`, `Stop` |
| **Cron patterns** (`pkg/cron/parser.go`, `matcher*.go`) | none | parsing and matching of a minute against a pattern |
| **Event bus** (`pkg/events/events.go`) | subscriptions, a bounded channel, closed flag by context | `Subscribe`, `Emit`, `processEvents`, `Close` |
| **Migrator** (`internal/migrate/migrator.go`) | table `migrations`, the schema | `Migrate`, `installSchema`, `getLatestMigration`, `runMigration` |
| **Runner** (`pkg/runner`) | releasers, the pool, the scheduler, completion channel | `Run`, `RunOnce`, `RunMigrations`, `Stop`, `AddJob`, `Promise` |
| **Shared options** (`pkg/worker/lib.go`) | cache of compiled options, releasers | `ProcessSharedOptions`, `GetUtilsAndReleasersFromOptions` |

Who calls whom: a client writes to the tables through `add_job` and the other
SQL functions; an insert notifies the listener of every pool, which nudges a
worker; workers poll, fetch, execute and finish jobs, each by one statement; a
cron scheduler adds jobs like a client and keeps its own table; the runner
starts a pool and a scheduler over one connection pool; signals reach the pools
through the registry; every part tells the event bus what it does, and waits for
it nowhere.

What is hard:

- **Tables and workers.**  A lock is a column, not a database lock: a worker
  that is slow or dead keeps it until a sweep, four hours later, takes it away,
  and from then on two workers may have the same job.  Two tables carry locks
  and must agree.  `add_job` may meet the row it wants to replace in the hands of
  a worker.
- **Pool and loop.**  Goroutines that wait for one another at shutdown, handlers
  that hang or panic, statements that fail because the shutdown has cancelled
  their context.
- **Cron.**  Several schedulers, one table and three statements per execution,
  with time passing between them; crashes and backfills.
- **Events.**  A bounded channel that is closed while others send on it.
- **Registry, runner, migrator.**  Two mutexes taken in a nested way; completion
  signalled once to several readers; crashes between two transactions.

`PROJECT.json` lists the hazards one by one, each at its line, with the
properties that would catch it going wrong.

## 2. The modules

| module | models | run by |
| --- | --- | --- |
| `JobQueue` | both tables, the SQL functions, `GetJob`, `CompleteJob`, `FailJob`, the sweep, crashes, the clock | `MCJobQueue` |
| `JobLedger` | what a client is promised of a payload: the abstract specification of `JobQueue` | as a property of `MCJobQueue` |
| `JobLease` | what tables and processes promise each other of a reservation: the abstract specification of `JobQueue`, `WorkerPool` and `WorkerLoop` | as a property of `MCJobQueue` |
| `WorkerLoop` | `Run`, `RunOnce`, `Release`, `Nudge` of one worker and the timer of the sweep | `MCWorkerLoop` |
| `WorkerPool` | the goroutines of a pool and its shutdown | `MCWorkerPool` |
| `PoolRegistry` | the pools of a process and its signal handlers | `MCPoolRegistry` |
| `CronScheduler` | schedulers on one `known_crontabs` | `MCCron` |
| `CronPattern` | what `ParseCrontab` makes of a crontab, and when its items fire | `MCRunner`, by way of `Runner` |
| `Runner` | the entries of `pkg/runner` and the options they share with `pkg/worker` | `MCRunner` |
| `Migrator` | programs that migrate one schema | `MCMigrator` |
| `EventBus` | emitters, `processEvents`, handlers, `Close` | `MCEventBus` |
| `JobQueueProofs` | theorems about `JobQueue`, that it implements `JobLedger` and `JobLease` among them | TLAPS |
| `RunnerProofs` | theorems about `Runner` and `CronPattern` | TLAPS |
| `WorkerLoopProofs`, `WorkerPoolProofs`, `PoolRegistryProofs`, `CronSchedulerProofs`, `MigratorProofs`, `EventBusProofs` | theorems about those modules | TLAPS |

The modules meet at narrow borders.  What `JobQueue` assumes of a worker, that it
fetches, executes and finishes one job at a time, is what `WorkerLoop` and
`WorkerPool` show the control of; they in turn reduce the tables to rows that are
ready, locked or finished.  `JobLease` is that border as a specification, and all three
implement it: seen from the tables, `locked` are the rows with a `lockedBy` and a worker
holds the job it executes; seen from a pool or a loop, `locked` are the jobs that are
"locked" and `holds` (`held`) says who has one.  A worker that dies, an answer that is
lost and an error of the last statement are `LetGo` or `TakeUnanswered`, and the sweep,
an administrator and a client can only `Free` what nobody holds on to.  The tables need
`MaxRun <= Expiry` for it; pool and loop, which see neither sweep nor clients, need
nothing.  `PoolRegistry` reduces a pool to up, stopping and down,
which `WorkerPool!ShutdownCompletes` justifies.  `Runner` takes a worker, a
scheduler and a migration as one step each or a few, and extends `CronPattern`,
whose items it hands to the scheduler.

A definition marked `(mutant)` is a version of the next one with a plausible bug;
no specification uses it.  It serves to show that the properties notice: with the
mutant in the place of the definition TLC finds the property violated.

### 2.1 JobQueue

`jobs` and `queues` are the tables, as functions from the ids (names) of the rows
that exist.  `run[w]` is the `activeJob` of worker `w`, with what it was given.
`adds` numbers the calls of `add_job`; a payload is that number.  `fate` is a
history variable: what became of each payload from the client's point of view.

One SQL statement is one step.  PostgreSQL runs them concurrently, but each
changes rows under row locks and checks its conditions again after it has waited
for one, so a statement has the effect of running alone at the moment it takes
its locks.  `add_job` is one call of a function that does its own updates under
the lock its `on conflict` takes.  `remove_job` is two statements and two steps
(`RemoveUnlocked`, `RemoveLocked`), with anything in between.  The arrays of
`complete_jobs` and its kin are handled one id at a time, which allows more
interleavings than the one statement does.

Time is relative: `Tick` adds one to the age of each lock, up to `Expiry + 1`,
and takes one from what is left until each `run_at`.  A lock is old, for the sweep
and for the administrative functions, when its age is more than `Expiry`: the four
hours of the source.  `MaxRun` bounds how long an execution takes.  With
`MaxRun > Expiry` an execution can outlive its lock, which nothing in the code
prevents; with `MaxRun <= Expiry` it cannot.  `run_at` after a failure is pushed
back by `Backoff`, which keeps the shape of `exp(least(attempts, 10))`: positive,
growing, then constant; it is capped at `MaxDelay`.

Left out, because no property tells the difference: `priority` and the order of
fetching (any eligible job may be the one), job flags and task names (each a
further restriction of what a worker fetches), `last_error`, `revision`, and
clocks that differ between database and worker (all times are the database's).
Rows that `skip locked` passes over are rows another statement is just changing;
a worker that sees none takes no step.

### 2.2 CronScheduler

`last` is the row of an item in `known_crontabs`; `pc[s]` and `todo[s]` say where
scheduler `s` is in `Start`, in its backfill or in a tick, and the instants it has
still to schedule, which it takes in their order (`Soonest`); a backfill looks no
further back than `Period`.  `ticker[s]` is when its ticker fires next.  An execution is the
three statements of `scheduleTask`: `Check`, `Record`, `Add`.  A crash, and
`Stop`, may come at any step, and any statement may fail (`MayFail`).

`PerMinute` instants make a minute, so that schedulers can start, tick and
be late at different points of it.  One item stands for all of a crontab: they have rows
of their own, and what an item waits for the others is time that may pass between
any two steps.

What is matched and compared is no instant but what a clock shows of it.  A process
reads `time.Now()` in its own zone (`Local`), and `EXTRACT` reads `last_execution` in
the zone of the database session (`Session`): `isTaskAlreadyScheduled` compares the one
with the other, and `AlreadyScheduled` does too.  Both are functions from minutes to
readings, one for each scheduler, of which the model assumes nothing: they may differ by
any number of hours, go back when summer time ends, and show two minutes alike (the digest
has no year).  `Pattern` are the readings the item matches, so `Due(s)` depends on the
scheduler.  `misread` remembers the minutes for which the comparison and the minutes
themselves disagree (`Misread`).

### 2.3 EventBus

`eventChan`, `closed` and `cancelled` are the channel and the context, `loop` and
`event` are the goroutine of `processEvents`, `started` holds the goroutines that
are to call a handler.  Events carry the number of the `Emit` that sent them.  A
`select` takes any case that is ready, and `default` only when none is; a send on
a closed channel is ready, and panics; a receive from one that is closed and
empty is ready too.  `CloseAgain` is a second call of `Close`, which panics, and
`ParentCancel` the cancellation of the context the bus was created with, with or without
a `Close`.  All events are of one type, as types have nothing to do with each other.  Not
modelled: a bus without a buffer, which nobody creates.

### 2.4 WorkerPool

`worker[w]` is the place of a worker's goroutine in its polling loop, `holds[w]`
the job it executes, `jobs` the state of the rows as far as the pool can tell:
ready, locked, finished.  `coordinator`, `listener` and `monitor` are the other
goroutines; `listener` is also the timer that reconnects after an error, which the
wait group does not count.  `shutdown` follows the body of `shutdownOnce`:
cancel, wait with a timeout, close `shutdownComplete`.  `Faults` says which
faults can happen: a panic in a handler, an error of `GetJob`, an error of
`CompleteJob` or `FailJob`, and the cancellation of the context the pool was
given.  `tasks` says whether the map of `RunTaskList` has a task: it may be empty, though
not nil, and then `GetJob` fetches whatever is ready and `ProcessJob` has no handler for
it (`NoHandler`).

### 2.5 WorkerLoop

`loop` is where `Run` is: at the condition of its loop, in `doNext`, in the sleep
after it, in the `Release` it calls before it returns an error, or, for a worker
that is not continuous, in `RunOnce`.  `errors` is `contiguousErrors`; `active`,
`ctxDone` and `nudge` are what `Run` looks at.  `releaseCh` has no buffer, and both
its ends use `default`, so no signal ever passes; it is not in the model, and
`ReleaseEnds` shows that `Run` ends without it.  `Release` is two steps, as it reads
`active` and sets it under separate locks.

The sweep is `resetLockedTimer`, the timer the worker knows of, the timers that are
`pending`, and the `callback` of each that has fired, which reads `active` and then,
without looking again, sweeps and schedules the next timer.  `rested` says that the
worker has been inactive, for only `setActive` from false to true schedules a timer.
`causes` records what may have left a row locked.  `Faults` says which statements may
fail; a statement that fails may have taken effect.

### 2.6 PoolRegistry

`owner[o]` is where the caller of `RunTaskListWithSignalHandling` is, `pool[o]` its
pool.  `listLock` and `handlerLock` are the two mutexes; a critical section that waits for
nothing is one step.  Only `removeWorkerPool` of the last pool keeps the first while it
waits for the second, and `cleanupSignalHandlers` the second while it waits for itself:
that owner is `stuck`.  Each call of `signal.Notify` makes a channel of one place and
a goroutine; `handler[c]` follows that goroutine to the exit, and `targets[c]` is its
copy of the list.  A signal that nobody is notified of kills the process.
`starting` and `late` remember the owners that the copy could not have, or that
registered after the flags were reset.

### 2.7 Migrator

`applied` are the ids in `migrations`, `schema` says whether the table is there;
`Version[p]` is the last migration program `p` comes with, so that old and new
programs can meet.  Every statement is a step and may fail, or the program may
die in it (`Fail`); either way its call is over, the transaction is rolled back or,
if only the answer to its commit was lost, is not.  Nothing but the primary key and
`CREATE SCHEMA` keeps programs apart (`AlreadyApplied`, `SchemaExists`).

### 2.8 Runner and CronPattern

`entry` is the function that is called: `Run`, `RunOnce`, `RunMigrations`,
`GetUtilsAndReleasersFromOptions` or `worker.RunOnce`; `owned` says whether it opens a
pool or is given one.  The call goes through its options, releases all that
`WithReleasers` holds, and then works, if it does.  `worker` is the goroutine of `Run`,
with its releasers in their order; `once` are the goroutines of `RunOnce`.  `stop`,
`adding` and `read` are the callers of `Stop`, `AddJob` and `Promise`;
`stopMutex` is the write side of a `sync.RWMutex`, of which a waiting writer keeps
new readers out, and `completeCh` holds one error.  `Stop` sets `stopped`, emits an event
and closes `stopCh`: on a bus of the options that was closed meanwhile the second of
these panics (`StopPanics`), and the third is never done.

`CronPattern` has no state: `Parse` and `CrontabError` are `ParseCrontab`,
`Matches` is the matcher.  A part of a field is a number, a range, a wildcard or a
wildcard with steps, which is what the regular expressions of `parser.go` tell apart;
`FiresAt` is what such a part means by docs/CRONTAB.md, said without the lists of the
code; where the parser counts the steps of a wildcard otherwise, `StepsAgree` is false.  The loop of
a part is the function from its rounds to the number each appends; the sorted list
without repetitions (`Unique`) has in place `k` the number that `k - 1` others precede.
`CrontabsAreLines` says of the constant `Crontabs` that it holds sequences of lines
whose numbers are numbers, `DigestsAreMinutes` of `Digests` that a minute is one of the
calendar: `parser.go` lets nothing else through its regular expressions, and
`DigestTimestamp` makes nothing else of a time.

## 3. The runs

| run | expects | properties | instance |
| --- | --- | --- | --- |
| `queue_stale` | pass | `TypeOK`, `QueueRowsMatch`, `KeysUnique`, `QueueLocks`, `LeaseExclusive`, `DroppedNeverStarts`, `OwnLocksOnly` | 2 workers, 1 queue, 1 key, 2 calls of `add_job`, 2 attempts, `MaxRun` 3 and `Expiry` 1: executions outlive their locks; all client calls |
| `queue_leased` | pass | `QueueSerial`, `NothingLost`, `LedgerSpec`, `LeaseSpec`, `EventuallySettled` | the same with `MaxRun = Expiry = 1`, fairness, one mortal worker |
| `queue_lost_update` | violation | `NothingLost` | executions that outlive their locks |
| `worker_loop` | pass | `TypeOK`, `ReleaseDropsOne`, `SweepChain`, `ReleaseEnds` | 2 jobs, 2 runs, 1 caller of `Release`, 2 timers, 2 errors, 2 attempts, statements that fail, fairness |
| `pool_safe` | pass | `TypeOK`, `QuietWhenComplete`, `LeaksHaveCauses`, `ShutdownCompletes`, `JobsFetched` | 2 workers, 2 jobs, every fault, 1 reconnection, fairness |
| `registry` | pass | `TypeOK`, `EndsUnlessStuck`, `ExitLeavesLatePools`, `StuckHoldsLocks` | 2 owners, 2 signal channels, 2 signals, fairness |
| `cron_slow` | pass | `TypeOK`, `DuplicatesHaveCauses`, `MissedWereGivenUp` | 2 schedulers, clocks that differ in one process and in its session, backfill over a period of 3 instants, 3 starts, 8 instants, slow statements, errors |
| `bus_safe` | pass | `TypeOK`, `OnceInOrder`, `ReturnsDrained`, `OwedIsCalled` | 2 handlers, 3 events, room for 1, fairness |
| `bus_close` | violation | `CloseReturns` | 1 handler, 1 event, fairness |
| `migrator` | pass | `TypeOK`, `AppliedInFull`, `MigratesUnlessEmpty` | 3 programs of 2 versions, 2 failures, fairness |
| `runner` | pass | `TypeOK`, `StopTellsTheTruth`, `ReleasesWhatItHolds`, `StopReleases`, `PatternsFireAsWritten` | every entry, 2 goroutines, 2 callers each of `Stop`, `AddJob` and `Promise`, a table of crontabs, fairness |
| `runner_own_pool` | violation | `RunsUntilStopped` | every entry, 1 goroutine, 1 caller each, a table of crontabs |

**Of the queue.**  Whatever outlives its lock, the triggers keep
`job_queues` in step with `jobs`, no key is held twice, the locks of a job and of
its queue are taken and given up together and one at a time, nobody but its owner
or the sweep takes a lock off, and a payload that was replaced or removed is not
started again.  A worker whose lock is fresh has its row to itself as far as
locks go.  What does *not* survive a sweep under a living execution is the row:
`CompleteJob` deletes it by id, whoever has locked or replaced it meanwhile
(`queue_lost_update`).  With every execution inside its lock (`queue_leased`)
rows are kept and locked for those who work on them (`JobLease`), queues are
serial, nothing is lost, and the tables implement `JobLedger`; and with a process
that keeps sweeping every open payload is settled in the end: worked on, withdrawn,
or out of attempts.  Such a process is not what a pool or `Run` starts (see the
hazard at `worker.go:992`).

**Of the loop.**  A release in the middle of `GetJob` leaves one job locked and
executed by nobody, and with statements that succeed nothing else does, one for each
`Run` at most.  There is never more than one timer of the sweep, though callbacks
check `active` and schedule the next one at different times, and an active worker that
was inactive before always has one.  `Run` ends once the worker is released or its
context cancelled, and the timers die out; the one that a callback in flight schedules
after the cancellation included, since its own callback finds the worker inactive.

**Of the pool.**  A shutdown that somebody asks for, or that a panic brings about,
completes whatever hangs; if it did not time out nothing runs afterwards; the loops of a
pool that has a task leak no lock by themselves; and a pool that goes on fetches every
job.  A pool with an empty task map fetches every job too, and leaves it locked.

**Of the registry.**  An exit on a signal leaves a pool up only if its owner handles
no signals, was between registration and list when the list was copied, or came after
the flags were reset.  The release of the last pool of a process that handles signals
deadlocks with itself, under both locks (`StuckHoldsLocks`), and for good
(`StuckForGood`, a theorem); apart from that every release returns and every signal that
is received ends the process.

**Of cron.**  A minute is scheduled twice only if two schedulers decided on it
before either had recorded, or if somebody decided on it when it was over: by a
backfill, or because its statements were late (the question
`isTaskAlreadyScheduled` asks is about the minute it is *now*), or if the session's
clock gave that question a wrong answer.  So races,
restarts (a backfill includes the minute of `last_execution`), slow statements and
zones that differ are the only sources of duplicates.  In the other direction, with
backfill at every start a due minute is lost only through an error, a crash
between `Record` and `Add`, statements so late that it has gone by, a start that
passes over it (at its very first instant, with a backfill so slow that the minute
began during it, or with one whose period does not reach back to it), a record of a
scheduler for whose clock the minute was not due, or a wrong answer again: an earlier
execution that the session's clock shows as the minute it is now.  docs/CRONTAB.md promises
UTC throughout (lines 7, 11, 263), and nothing in the code sets it; with one zone
nothing is misread (`OneZoneMisreadsNothing`, a theorem).

**Of the bus.**  Events are handled once and goroutines are started in order;
shutdown does not drop what was sent before it; under fairness every event that
is not dropped reaches its handlers.  But the drain of a closed channel has no
end, so `Close` does not return (`bus_close`).

**Of the migrator.**  Migrations are applied each once and in order whoever races and
fails, and `Migrate` returns nil only when all it knows are applied.  Programs that are
started again all get there, unless one died between `installSchema` and the
first migration: the empty table is an error for ever.

**Of the runner.**  `Stop` answers everybody, and says nil only of a worker that
has ended because it was stopped; the end of the worker is told once, to one of the callers
of `Stop` and receivers of `Promise`.  A pool that is given stays open; one that is opened
is left open by no call that fails, and by none that succeeds except for the worker of a
Runner.  But that worker never has it: the pool that `Run` opens is closed when its
options have been processed, before the worker starts (`runner_own_pool`), where
`runner.go:136` says of a runner that it runs until stopped.  A crontab fires in exactly
the minutes its lines are written for, except that steps `*/n` of the date and the month
are counted from 1, and not the values divisible by `n` of docs/CRONTAB.md:39:
`StepsAsDocumented` proves that the two part there and nowhere else.

Met while modelling, visible in the modules and stated by no run:

- queue, loop, pool: `Run` never arms the sweep, as `NewWorker` makes an active worker
  (`worker.go:992`); `Run` makes a worker active that was released before; `RunOnce`
  without handlers locks every job (`NoHandler`); one panic shuts the whole pool down
  (`TakeError`); nobody receives from a worker's nudge channel in a pool
  (`NudgeWorker` only fills it); an error of `GetJob` ends a worker of a pool without a
  report (`FetchError`); a cancelled parent context ends all goroutines and leaves
  `Wait` waiting (`ParentCancel`); shutdown cancels the context that `CompleteJob`
  uses, so a handler that ends during it leaves its job locked, where the
  repository's README.md:128 speaks of graceful shutdown;
- cron: docs/CRONTAB.md:263 says of several schedulers that the first one succeeds,
  and the look, the record and the job are three statements (the cause `raced` of
  `DuplicatesHaveCauses`); values of a range that are out of bounds are skipped without
  an error;
- bus: `Emit` after `Close` may panic (`SendOnClosed`), in `Runner.Stop` before the worker
  is told (`StopPanics`), and a second `Close` does (`CloseAgain`); unsubscribing changes
  nothing (`Unsubscribe`), as the function `Subscribe` returns compares the addresses of two
  variables of its own (`events.go:106`);
- migrator: the comment at `migrator.go:140` expects a table without records, and
  `Scan` makes an error of it (`EmptyTable`);
- runner: `Concurrency` is of no effect in `Run`; a receiver of `Promise` that takes the
  value leaves `Stop` to its 30 seconds (`StopTimeout`).

**Bounds.**  Two workers, schedulers, handlers or owners are needed for every race here,
and each property is about at most two of them and one row, queue or minute.  Two
calls of `add_job` give a job and its replacement, or two jobs of one queue; three
ages (0, 1 and old) tell fresh locks from swept ones; two attempts tell a retry
from the last one.  Eight instants at two to a minute give due minutes
before, during and after a restart, and a period of three leaves some out of
reach; three starts are both schedulers and one of them again.  One scheduler reads the
clock it is compared with, the other a clock that is put forward once and a session that is
ahead of it, so that minutes are due for one, for both and for none, and wrong answers of
both kinds come up: without the cause `misread` TLC violates either property.  Three
events fill a channel of one and drop
the next.  Two timers are a timer that is pending and one whose callback is in
flight; two runs, a worker that was inactive.  Two signal channels are a second
registration after the first was cleaned up.  Two failures leave a migration half done,
and then the next.  The crontabs cover each kind of part in each field, overlaps, bounds,
Sunday written as 7, and both meanings of the day fields.  Symmetry is used where the
ids of workers are only compared, not in runs with liveness properties, and not in
`cron_slow`, whose schedulers have clocks of their own.

**Fairness.**

- `JobQueue!SweptSpec`: time passes, a worker that is alive keeps polling, handlers
  return, some process keeps sweeping.
- `EventBus!FairSpec`: goroutines that can run do run, handlers return, and a
  `select` whose cases stay ready takes each of them in the end (Go chooses among
  ready cases at random; hence strong fairness of `NoticeDone`).
- `WorkerPool!FairSpec`: goroutines run, timers fire, statements return; strong
  fairness of `Stop` for the same reason; handlers may hang, and nobody has to call
  `Release`.
- `WorkerLoop!FairSpec`: handlers return, statements and sleeps end, timers fire, and
  a `Release` that has begun ends.  Nobody has to call `Run`, `Release` or `Nudge`.
- `PoolRegistry!FairSpec`: goroutines run, and a pool that is shut down gets down
  (`WorkerPool!ShutdownCompletes`).  Steps that wait for a mutex are strongly fair, as
  `sync.Mutex` hands itself over to a waiter that has waited long.
- `Migrator!FairSpec`: programs are started again until they have migrated, and
  their statements return.
- `Runner!FairSpec`: statements and waits end, and timeouts come.  A handler need not
  return, and nobody has to call `Stop`.

`CHECK_DEADLOCK` is off where the system may stop: time is bounded in cron, and the
bus, the pool, the loop, a process, a migration and a runner end.

## 4. The proofs

All from the named assumptions on constants (bounds are natural numbers, the
capacity of the bus and the instants of a minute are positive, `None`, `Nobody` and
`Null` are no names or times, `Mortal` are workers, due minutes are numbers, crontabs are
lines), for every number of workers, queues, keys, calls, jobs, timers, owners, signals,
programs, schedulers, instants, callers, handlers and events, and for all crontabs.
Each theorem of a specification goes by an inductive invariant, with one step for each
action.

- `JobQueueProofs!TypeCorrect`: `TypeOK` is inductive.
- `JobQueueProofs!QueueRowsCorrect`: `QueueRowsMatch` by way of the members
  of each queue: inserting, deleting and moving a job changes one set and one count in
  step.  Beside it `KeysNeverShared` (`KeysUnique`) and `DroppedStayDown`
  (`DroppedNeverStarts`): that a dropped payload is not started again needs `FateInv`,
  which adds that no two rows have the same payload, that a worker executes the
  payload of its row or one no row has, and that no row has a payload that is done.
- In the same module `LockInv` is the inductive invariant, a conjunction of
  `TypeOK`, the counts, `KnownRuns` (a worker executes a job that was once added),
  `LockedTogether`, `OneLockPerQueue`, `LeaseHolds`, `JobExclusive` and
  `LocksInOrder`.  None of the last four is inductive alone: that a fresh worker
  has its row needs that a lock is not swept before its time on either table
  (`LockedTogether`), and that a late `FailJob` frees the wrong queue is excluded by
  `LocksInOrder`.  Most steps are `Quiet`: they take no lock and change no
  locked row that is fresh, and one lemma shows that they preserve it all.  From it
  `LocksPaired` (`QueueLocks`), `LeasesExclusive` (`LeaseExclusive`) and
  `LocksOnlyByOwner` (`OwnLocksOnly`); and, if `MaxRun <= Expiry`, `RowsKept`
  (`RowKept`, which no run needs beside `LeaseSpec`), `QueuesSerial`, `OpenIsListed`
  (`NothingLost`) and `ImplementsLedger`: each action of `JobQueue` is one of
  `JobLedger` or a stutter, with the payloads of the rows that are locked as the
  ledger's `working`.
- `ImplementsLease`, in the same module and under the same assumption, refines
  `JobLease`: `LockInv` says that an execution has its row, locked, to itself, and each
  action takes one lock, lets go of one, or frees what nobody executes.  The last is
  where `MaxRun <= Expiry` enters: the sweep and the administrators look at ages and not at
  who is alive.  `LeaseIsExclusive` says what this is worth, of the abstract
  specification alone, so that it holds of whatever implements it.
- `DoneIsFinal`, without an assumption on times: a payload that was worked on with
  success is in no row and stays done, although a late `CompleteJob` may delete any
  row.  It goes by `FateInv` and by what one step can do to `fate` (`FateMove`): the fate
  of a payload changes as the call brings it, while it is in a row, or to done by a
  worker that executes it.
- `WorkerLoopProofs`: `OneSweepTimer` by `TimerInv` (the only timer that can be pending is the
  one the worker knows of); `LoopTypeCorrect` by the flags, the control and the
  rows, in this order; `ReleaseDropsOneJob` by counting: what is abandoned grows only in
  `DropJob`, after which the `Run` that dropped it has found the worker inactive and
  ends (`MayDrop`).  `LoopKeepsLease` refines `JobLease` from the type invariant.
- `WorkerPoolProofs!ShutdownIsQuiet` and `LeaksAreCaused`: a worker that executes
  nothing holds nothing, and every locked job is held or has a cause, of which an empty
  task map is one; the shutdown
  passes its wait only by its timeout or with all workers stopped, and they stay so.
  `PoolTypeCorrect` (`TypeOK`) adds that no two workers hold one job (`HoldsInv`), and the
  bounds of counters and channels.  `PoolKeepsLease` refines `JobLease` by `HoldsInv`.
  `PanicsAreNoticed` (for a channel of errors with room, as the code makes it) is about
  the report that `runWorker` drops when the channel is full: it is full of errors the
  monitor has still to take, and the monitor ends only with the pool (`NoticeInv`).
- `PoolRegistryProofs!ExitMissesOnlyLatePools` and `StuckOwnersHoldLocks`, by
  `RegistryInv`: who holds each lock, that a pool that is up is in the list unless its
  owner is about to add it, that nobody registers while a signal is handled until the
  flags are reset, and that after the first copy of the list a pool that is up or
  being started is in `starting` or `late`.  `RegistryTypeCorrect` is `TypeOK`.  Two theorems
  are the safety half of `EndsUnlessStuck` and of its exception: while nobody is stuck the
  locks keep nobody waiting for more than a step (`LocksAreFreed`); and once an owner
  is, it and every release that waits for the list are so for good (`StuckForGood`),
  whatever is scheduled.
- `CronSchedulerProofs!CronTypeCorrect` by `ClockInv`: nothing is to be scheduled that is
  not yet, or that is after the next tick.  `DuplicatesAreCaused` adds `WasRecorded`
  (what has a job, or is about to, is not after the record) and `OneDecides` (but for
  the causes, one scheduler is between its look and its job, and none once the job is
  there).  Neither is inductive without the other: that nobody decides a second time is
  because the record has reached the minute it is now.
  `MissedAreGivenUp` goes by four conjuncts about a minute that is not settled, that is,
  has no job, is not given up and is not about to get its job: the record is before it
  (`RecordIsBehind`, for which the minute of the record itself must be settled,
  `LastIsSettled`), so that a backfill finds it, unless its period is too short, and
  then it is given up; every scheduler that has looked back has it still before it
  (`NothingForgotten`); and what began since a backfill fixed its end is given up
  (`PlanIsExact`).  A scheduler that waits has nothing before it but minutes to come,
  which is the property.  `MinutesRunOnce` puts the two together: with every
  scheduler caught up, a due minute that nobody gave up, raced for or was late with has
  exactly one job.  None of this assumes anything of the clocks: where they disagree the
  minute is in `misread`.  `OneZoneMisreadsNothing` says when it is not: with processes and
  sessions on one clock that tells the minutes apart, nothing is ever misread, and the
  causes left are races and lateness.  `LastNeverGoesBack` is an
  action property: the guard of the record
  against a time that is not later than the one there.
- `RunnerProofs!RunnerTypeCorrect`, `StopIsTruthful` and `HeldIsReleased`, by
  `RunnerInv`: who waits with the lock of `Stop`, that the context is cancelled only by
  a `Stop` or by the end of the worker, that the end is in the channel or with one taker,
  who has called `Stop` with effect (`Effective`), and that a pool the call opened is
  closed before it gets as far as a worker.
  `PatternsAreFaithful` (`PatternsFireAsWritten`) is an argument about data: each part
  lists what it counts to (`PartIsRead`; of a wildcard, by division), which is what it
  means where `StepsAgree` (`CountsWhatItMeans`), the numbers of rank
  1, 2, ... of a finite set list it in order (`RanksEnumerate`), so a field lists what
  its pattern writes (`FieldIsRead`), an item does of each field (`LinesAreRead`), and
  then the matcher agrees with the pattern (`MatcherIsFaithful`): a list of days or of
  days of the week has all of them exactly if it is 31 or 7 long, which is how the
  code tells.
- `MigratorProofs!MigratorTypeCorrect` and `MigrationsInFull`, by `MigratorInv`: the
  applied migrations are a prefix, and what a program has read or applied is among
  them.  From it the action property `HistoryIsSerial`: what a step commits is the
  next migration, whoever has read the table when.  `EmptyTableIsForGood` is a stable
  predicate (`LeftEmpty`): the state that `MigratesUnlessEmpty` excepts is one that no
  program leaves.
- `EventBusProofs!BusTypeCorrect`, `EventsOnceInOrder` and `ReturnIsDrained`: the
  numbers in the channel increase, are greater than the one in hand and than all those
  handled, and are at most `emits`; a call that is owed is started, in hand or in the
  channel, and its handler still subscribed.  `CloseHangs` is the safety half of the
  violation of `bus_close`: with the channel closed before `processEvents` is done,
  `Close` never returns, and no schedule helps.

With TLC alone: liveness, that is `EventuallySettled`, `ReleaseEnds`, `ShutdownCompletes`,
`JobsFetched`, `EndsUnlessStuck`, `OwedIsCalled`, `MigratesUnlessEmpty` and `StopReleases`,
and the three violations.  Liveness under fairness and `ENABLED` are out of the prover's
reach (`JobLedger` has no fairness, so the refinement is all safety).  So is induction
over data; where a proof needs the least number of a set (`SmallestOf`) or the members of
a finite set in order (`RanksEnumerate`), it argues by cardinalities instead, and the
definitions are written so that it can.

## 5. Plan

What could come next: a pool and the tables in one module, over `JobLease`, so that
the locks a shutdown leaves are those that the sweep of another process frees; and the
composition of the scheduler with `add_job`, whose job keys could make the duplicates of
`DuplicatesHaveCauses` one job.

### Not modelled

- The cache of `ProcessSharedOptions`: it holds values nothing changes, and its key is
  a matter of data.
- The command line and the schema dump: straight-line input and output around the
  parts above.
- Configuration, environment and logging: pure functions of strings, and output.
- Examples, performance tests and test helpers: not part of the running system.
