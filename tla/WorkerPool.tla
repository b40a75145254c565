------------------------------ MODULE WorkerPool ------------------------------
(***************************************************************************)
(* A pool of workers (pkg/worker/worker_pool.go): goroutines that poll for *)
(* jobs and execute them, a listener that nudges them, a monitor that      *)
(* shuts the pool down on a critical error, and the shutdown, whose first  *)
(* act is to cancel the context all of them use.                           *)
(*                                                                         *)
(* Of the tables it is kept which jobs can be fetched, which are locked    *)
(* and which are finished; JobQueue has the rest.  The ticker of a worker  *)
(* may fire at any time.                                                   *)
(***************************************************************************)
EXTENDS Naturals, FiniteSets

CONSTANTS
  Workers,        \* the workers of the pool
  Jobs,           \* jobs that can be fetched from the start
  ErrorCap,       \* buffer size of errorChan
  NudgeCap,       \* buffer size of nudgeChannel
  MaxNotices,     \* bound: notifications of inserted jobs
  MaxReconnects,  \* bound: connections the listener loses
  Faults          \* what may go wrong: some of FaultKinds

FaultKinds == {"panic", "fetch", "finish", "parent"}

ASSUME PoolBounds ==
  /\ ErrorCap \in Nat /\ NudgeCap \in Nat
  /\ MaxNotices \in Nat /\ MaxReconnects \in Nat
  /\ Faults \subseteq FaultKinds

VARIABLES
  worker,      \* what the goroutine of each worker does
  holds,       \* the job it has fetched, as a set
  jobs,        \* state of the row of each job
  nudged,      \* workers whose nudge channel is full
  nudges,      \* number of signals in nudgeChannel
  notices,     \* notifications so far
  coordinator, \* runNudgeCoordinator runs
  listener,    \* what listens for notifications
  reconnects,  \* connections lost so far
  monitor,     \* startErrorMonitor runs
  errors,      \* number of errors in errorChan
  critical,    \* criticalError is set
  ctxDone,     \* wp.ctx is done
  asked,       \* somebody has called GracefulShutdown
  shutdown,    \* where its one execution is
  timedOut,    \* it has given up on the workers
  faults,      \* history: the faults that have happened
  tasks        \* the task map of RunTaskList, which may not be nil, has a task

goroutines == <<worker, holds, jobs>>
nudging == <<nudged, nudges, notices, coordinator>>
listening == <<listener, reconnects>>
monitoring == <<monitor, errors, critical>>
stopping == <<ctxDone, asked, shutdown, timedOut>>
poolVars == <<goroutines, nudging, listening, monitoring, stopping, faults, tasks>>

Init ==
  /\ worker = [w \in Workers |-> "waiting"]
  /\ holds = [w \in Workers |-> {}]
  /\ jobs = [j \in Jobs |-> "ready"]
  /\ nudged = {} /\ nudges = 0 /\ notices = 0 /\ coordinator = TRUE
  /\ listener \in {"listening", "backoff"} /\ reconnects = 0
  /\ monitor = TRUE /\ errors = 0 /\ critical = FALSE
  /\ ctxDone = FALSE /\ asked = FALSE /\ shutdown = "no" /\ timedOut = FALSE
  /\ faults = {} /\ tasks \in BOOLEAN

(***************************************************************************)
(* The worker goroutines.                                                  *)
(***************************************************************************)
Go(w, from, to) == worker[w] = from /\ worker' = [worker EXCEPT ![w] = to]

\* (mutant) the ticker is not looked at
PollNudged(w) ==
  /\ w \in nudged
  /\ Go(w, "waiting", "checking")
  /\ UNCHANGED <<holds, jobs, nudging, listening, monitoring, stopping, faults, tasks>>

\* runWorkerWithNudging: case <-ticker.C
Poll(w) ==
  /\ Go(w, "waiting", "checking")
  /\ UNCHANGED <<holds, jobs, nudging, listening, monitoring, stopping, faults, tasks>>

\* case <-wp.ctx.Done(), of either select
Stop(w) ==
  /\ ctxDone
  /\ Go(w, "waiting", "stopped") \/ Go(w, "checking", "stopped")
  /\ UNCHANGED <<holds, jobs, nudging, listening, monitoring, stopping, faults, tasks>>

\* default of the select in processAvailableJobs
CallGetJob(w) ==
  /\ ~ctxDone
  /\ Go(w, "checking", "fetching")
  /\ UNCHANGED <<holds, jobs, nudging, listening, monitoring, stopping, faults, tasks>>

\* (mutant) locked or not
FetchAny(w, j) ==
  /\ tasks
  /\ ~ctxDone /\ jobs[j] # "finished"
  /\ Go(w, "fetching", "executing")
  /\ holds' = [holds EXCEPT ![w] = {j}]
  /\ jobs' = [jobs EXCEPT ![j] = "locked"]
  /\ UNCHANGED <<nudging, listening, monitoring, stopping, faults, tasks>>

Fetch(w, j) ==
  /\ tasks
  /\ ~ctxDone /\ jobs[j] = "ready"
  /\ Go(w, "fetching", "executing")
  /\ holds' = [holds EXCEPT ![w] = {j}]
  /\ jobs' = [jobs EXCEPT ![j] = "locked"]
  /\ UNCHANGED <<nudging, listening, monitoring, stopping, faults, tasks>>

\* Without a task in the map GetJob does not ask for any, and gets every job.
\* ProcessJob finds no handler, the error is logged, and the row stays locked.
NoHandler(w, j) ==
  /\ ~tasks
  /\ ~ctxDone /\ jobs[j] = "ready"
  /\ Go(w, "fetching", "checking")
  /\ jobs' = [jobs EXCEPT ![j] = "locked"]
  /\ UNCHANGED <<holds, nudging, listening, monitoring, stopping, faults, tasks>>

FetchNothing(w) ==
  /\ ~ctxDone /\ \A j \in Jobs : jobs[j] # "ready"
  /\ Go(w, "fetching", "waiting")
  /\ UNCHANGED <<holds, jobs, nudging, listening, monitoring, stopping, faults, tasks>>

\* GetJob returns an error: the goroutine ends.  The error is wrapped, so it
\* is never one of those isCriticalError knows and nothing is reported.  The
\* statement may have locked a job all the same.
FetchError(w) ==
  /\ ctxDone \/ "fetch" \in Faults
  /\ Go(w, "fetching", "stopped")
  /\ \/ UNCHANGED jobs
     \/ \E j \in Jobs : jobs[j] = "ready" /\ jobs' = [jobs EXCEPT ![j] = "locked"]
  /\ faults' = IF ctxDone THEN faults ELSE faults \cup {"fetch"}
  /\ UNCHANGED <<holds, nudging, listening, monitoring, stopping, tasks>>

\* The handler returns.
Return(w) ==
  /\ Go(w, "executing", "finishing")
  /\ UNCHANGED <<holds, jobs, nudging, listening, monitoring, stopping, faults, tasks>>

\* The handler panics: runWorker recovers, reports and ends.
Panic(w) ==
  /\ "panic" \in Faults
  /\ Go(w, "executing", "stopped")
  /\ holds' = [holds EXCEPT ![w] = {}]
  /\ errors' = IF errors < ErrorCap THEN errors + 1 ELSE errors
  /\ faults' = faults \cup {"panic"}
  /\ UNCHANGED <<jobs, nudging, listening, monitor, critical, stopping, tasks>>

\* (mutant) the row is left as it is
FinishNothing(w) ==
  /\ ~ctxDone
  /\ Go(w, "finishing", "checking")
  /\ holds' = [holds EXCEPT ![w] = {}]
  /\ UNCHANGED <<jobs, nudging, listening, monitoring, stopping, faults, tasks>>

Finished(w) == [j \in Jobs |-> IF j \in holds[w] THEN "finished" ELSE jobs[j]]

\* CompleteJob or FailJob.
Finish(w) ==
  /\ ~ctxDone
  /\ Go(w, "finishing", "checking")
  /\ jobs' = Finished(w)
  /\ holds' = [holds EXCEPT ![w] = {}]
  /\ UNCHANGED <<nudging, listening, monitoring, stopping, faults, tasks>>

\* Either returns an error, whether or not the row was changed.
FinishError(w) ==
  /\ ctxDone \/ "finish" \in Faults
  /\ Go(w, "finishing", "checking")
  /\ jobs' \in {jobs, Finished(w)}
  /\ holds' = [holds EXCEPT ![w] = {}]
  /\ faults' = IF ctxDone THEN faults ELSE faults \cup {"finish"}
  /\ UNCHANGED <<nudging, listening, monitoring, stopping, tasks>>

(***************************************************************************)
(* Notifications and nudges.                                               *)
(***************************************************************************)
Notify ==
  /\ listener = "listening" /\ notices < MaxNotices
  /\ notices' = notices + 1
  /\ nudges' = IF nudges < NudgeCap THEN nudges + 1 ELSE nudges
  /\ UNCHANGED <<nudged, coordinator, goroutines, listening, monitoring, stopping, faults, tasks>>

\* nudgeIdleWorker: the first worker whose nudge channel has room.
NudgeWorker ==
  /\ coordinator /\ nudges > 0
  /\ nudges' = nudges - 1
  /\ IF nudged = Workers THEN UNCHANGED nudged
     ELSE \E w \in Workers \ nudged : nudged' = nudged \cup {w}
  /\ UNCHANGED <<notices, coordinator, goroutines, listening, monitoring, stopping, faults, tasks>>

CoordinatorStop ==
  /\ coordinator /\ ctxDone
  /\ coordinator' = FALSE
  /\ UNCHANGED <<nudged, nudges, notices, goroutines, listening, monitoring, stopping, faults, tasks>>

\* handleNotifications returns on an error and leaves a goroutine, which the
\* wait group does not count, to reconnect after a while.
ListenError ==
  /\ listener = "listening" /\ ~ctxDone /\ reconnects < MaxReconnects
  /\ reconnects' = reconnects + 1
  /\ listener' = "backoff"
  /\ UNCHANGED <<goroutines, nudging, monitoring, stopping, faults, tasks>>

\* The timer of reconnectWithExponentialBackoff fires.
Reconnect ==
  /\ listener = "backoff" /\ ~ctxDone
  /\ listener' = "connecting"
  /\ UNCHANGED <<reconnects, goroutines, nudging, monitoring, stopping, faults, tasks>>

\* LISTEN succeeds, even if the context is cancelled right after it.
Connected ==
  /\ listener = "connecting"
  /\ listener' = "listening"
  /\ UNCHANGED <<reconnects, goroutines, nudging, monitoring, stopping, faults, tasks>>

ConnectError ==
  /\ listener = "connecting"
  /\ ctxDone \/ reconnects < MaxReconnects
  /\ reconnects' = IF ctxDone THEN reconnects ELSE reconnects + 1
  /\ listener' = "backoff"
  /\ UNCHANGED <<goroutines, nudging, monitoring, stopping, faults, tasks>>

ListenerStop ==
  /\ listener \in {"listening", "backoff"} /\ ctxDone
  /\ listener' = "stopped"
  /\ UNCHANGED <<reconnects, goroutines, nudging, monitoring, stopping, faults, tasks>>

(***************************************************************************)
(* The error monitor.                                                      *)
(***************************************************************************)
\* (mutant) the error is kept and the pool goes on
TakeErrorOnly ==
  /\ monitor /\ errors > 0
  /\ errors' = errors - 1
  /\ critical' = TRUE
  /\ UNCHANGED <<monitor, stopping, goroutines, nudging, listening, faults, tasks>>

TakeError ==
  /\ monitor /\ errors > 0
  /\ errors' = errors - 1
  /\ critical' = TRUE
  /\ asked' = TRUE
  /\ monitor' = FALSE
  /\ UNCHANGED <<ctxDone, shutdown, timedOut, goroutines, nudging, listening, faults, tasks>>

MonitorStop ==
  /\ monitor /\ ctxDone
  /\ monitor' = FALSE
  /\ UNCHANGED <<errors, critical, goroutines, nudging, listening, stopping, faults, tasks>>

(***************************************************************************)
(* Shutdown.                                                               *)
(***************************************************************************)
\* The owner of the pool calls Release, or a signal arrives.
Release ==
  /\ ~asked
  /\ asked' = TRUE
  /\ UNCHANGED <<ctxDone, shutdown, timedOut, goroutines, nudging, listening, monitoring, faults, tasks>>

\* The context handed to RunTaskList is cancelled.
ParentCancel ==
  /\ "parent" \in Faults /\ ~ctxDone
  /\ ctxDone' = TRUE
  /\ faults' = faults \cup {"parent"}
  /\ UNCHANGED <<asked, shutdown, timedOut, goroutines, nudging, listening, monitoring, tasks>>

Shutdown(from, to) ==
  /\ shutdown = from /\ shutdown' = to
  /\ UNCHANGED <<asked, goroutines, nudging, listening, monitoring, faults, tasks>>

\* shutdownOnce.Do: the context is cancelled before anything is waited for.
BeginShutdown ==
  /\ asked
  /\ Shutdown("no", "waiting")
  /\ ctxDone' = TRUE
  /\ UNCHANGED timedOut

\* (mutant) the workers are not counted by the wait group
AllDoneButWorkers == ~coordinator /\ listener # "listening"

\* The counter of wp.wg is zero.
AllDone ==
  /\ \A w \in Workers : worker[w] = "stopped"
  /\ ~coordinator
  /\ listener # "listening"

\* case <-done
WorkersDone ==
  /\ AllDone
  /\ Shutdown("waiting", "workers done")
  /\ UNCHANGED <<ctxDone, timedOut>>

\* case <-time.After(30 * time.Second)
GiveUp ==
  /\ Shutdown("waiting", "workers done")
  /\ timedOut' = TRUE
  /\ UNCHANGED ctxDone

\* The error handler has finished, or five seconds are over.
Complete ==
  /\ Shutdown("workers done", "complete")
  /\ UNCHANGED <<ctxDone, timedOut>>

WorkerStep(w) ==
  \/ Poll(w) \/ Stop(w) \/ CallGetJob(w)
  \/ \E j \in Jobs : Fetch(w, j) \/ NoHandler(w, j)
  \/ FetchNothing(w) \/ FetchError(w) \/ Return(w) \/ Panic(w)
  \/ Finish(w) \/ FinishError(w)

ListenerStep ==
  Notify \/ ListenError \/ Reconnect \/ Connected \/ ConnectError \/ ListenerStop

ShutdownStep == BeginShutdown \/ WorkersDone \/ GiveUp \/ Complete

Next ==
  \/ \E w \in Workers : WorkerStep(w)
  \/ ListenerStep
  \/ NudgeWorker \/ CoordinatorStop
  \/ TakeError \/ MonitorStop
  \/ Release \/ ParentCancel
  \/ ShutdownStep

Spec == Init /\ [][Next]_poolVars

\* Goroutines that can run do run and timers fire.  Handlers may take for
\* ever, and nobody has to call Release.
FairSpec ==
  /\ Spec
  /\ \A w \in Workers :
       /\ WF_poolVars(Poll(w) \/ Stop(w) \/ CallGetJob(w))
       /\ WF_poolVars((\E j \in Jobs : Fetch(w, j) \/ NoHandler(w, j))
                        \/ FetchNothing(w) \/ FetchError(w))
       /\ WF_poolVars(Finish(w) \/ FinishError(w))
       /\ SF_poolVars(Stop(w))
  /\ WF_poolVars(Reconnect \/ Connected \/ ConnectError \/ ListenerStop)
  /\ WF_poolVars(NudgeWorker \/ CoordinatorStop)
  /\ WF_poolVars(TakeError \/ MonitorStop)
  /\ WF_poolVars(ShutdownStep)

-------------------------------------------------------------------------------
Executing == {w \in Workers : worker[w] \in {"executing", "finishing"}}
Leaked(j) == jobs[j] = "locked" /\ \A w \in Workers : j \notin holds[w]

\* Every variable has its type; a worker that executes holds one locked job,
\* and no other worker holds it.
TypeOK ==
  /\ worker \in [Workers -> {"waiting", "checking", "fetching", "executing",
                             "finishing", "stopped"}]
  /\ holds \in [Workers -> SUBSET Jobs]
  /\ jobs \in [Jobs -> {"ready", "locked", "finished"}]
  /\ \A w \in Workers : Cardinality(holds[w]) = IF w \in Executing THEN 1 ELSE 0
  /\ \A w \in Workers : \A j \in holds[w] :
       jobs[j] = "locked" /\ \A v \in Workers \ {w} : j \notin holds[v]
  /\ nudged \subseteq Workers /\ nudges \in 0 .. NudgeCap /\ notices \in 0 .. MaxNotices
  /\ coordinator \in BOOLEAN /\ monitor \in BOOLEAN /\ critical \in BOOLEAN
  /\ listener \in {"listening", "backoff", "connecting", "stopped"}
  /\ reconnects \in 0 .. MaxReconnects /\ errors \in 0 .. ErrorCap
  /\ ctxDone \in BOOLEAN /\ asked \in BOOLEAN /\ timedOut \in BOOLEAN
  /\ shutdown \in {"no", "waiting", "workers done", "complete"}
  /\ faults \subseteq FaultKinds /\ tasks \in BOOLEAN

Lease == INSTANCE JobLease WITH locked <- {j \in Jobs : jobs[j] = "locked"}

\* However its goroutines stop, the pool treats reservations as JobLease says.
LeaseSpec == Lease!Spec

\* When Wait returns and the shutdown did not time out, no handler runs any
\* more and none will be started.
QuietWhenComplete ==
  shutdown = "complete" /\ ~timedOut => \A w \in Workers : worker[w] = "stopped"

\* A job is left locked with nobody executing it only by a panic, an error of a
\* statement, a cancelled context or a pool without tasks: the loops themselves
\* drop no job.
LeaksHaveCauses ==
  (\E j \in Jobs : Leaked(j)) =>
    ctxDone \/ ~tasks \/ faults \cap {"panic", "fetch", "finish"} # {}

\* A shutdown that somebody asks for completes, even while handlers hang; and a
\* panic in a handler shuts the pool down, however many there are and whatever
\* shutdown they meet, unless the context of the caller is cancelled.
ShutdownCompletes ==
  /\ asked ~> shutdown = "complete"
  /\ "panic" \in faults ~> (shutdown = "complete" \/ "parent" \in faults)

\* While the pool is not told to stop every job that can be fetched is, as long
\* as a worker is left that neither executes nor has stopped on an error.
JobsFetched ==
  (\E j \in Jobs : jobs[j] = "ready") ~>
    \/ \A j \in Jobs : jobs[j] # "ready"
    \/ ctxDone
    \/ \A w \in Workers : worker[w] \in {"executing", "stopped"}
===============================================================================
