------------------------------ MODULE WorkerLoop ------------------------------
(***************************************************************************)
(* The loop of one worker (Worker.Run, RunOnce and doNext of               *)
(* pkg/worker/worker.go), the Release that anybody may call at any moment, *)
(* the cancellation of its context, and the timer that sweeps old locks.   *)
(*                                                                         *)
(* releaseCh has no buffer, Release sends on it and Run receives from it   *)
(* with a default, so the two never meet: whether Run ends is decided by   *)
(* active and by the context alone, and the channel is not in the model.   *)
(* Of the tables the state of the rows and the attempts are kept; JobQueue *)
(* has the rest.                                                           *)
(***************************************************************************)
EXTENDS Naturals, FiniteSets

CONSTANTS
  Jobs,         \* jobs the worker may fetch
  Callers,      \* goroutines that call Release
  Timers,       \* timers and their callbacks
  MaxErrors,    \* MaxContiguousErrors
  MaxAttempts,  \* max_attempts of a job
  MaxRuns,      \* bound: number of calls of Run
  Faults        \* statements that may fail: some of FaultKinds

FaultKinds == {"get", "finish"}

ASSUME LoopBounds ==
  /\ MaxErrors \in Nat \ {0} /\ MaxAttempts \in Nat \ {0} /\ MaxRuns \in Nat
  /\ Faults \subseteq FaultKinds
  /\ Timers # {}

VARIABLES
  loop,             \* where Run is
  errors,           \* contiguousErrors
  nudge,            \* nudgeCh is full
  runs,             \* number of calls of Run
  continuous,       \* the worker was made to run continuously
  tasks,            \* it has handlers
  jobs,             \* state of the row of each job
  attempts,         \* jobs.attempts
  held,             \* the job GetJob has returned, as a set
  active,           \* Worker.active
  ctxDone,          \* the context of Run is done
  callers,          \* where each caller of Release is
  resetLockedTimer, \* the timer the worker knows of, as a set
  pending,          \* timers that have yet to fire
  callback,         \* where the callback of each timer is
  rested,           \* history: the worker has been inactive
  causes            \* history: what may have left a job locked

running == <<loop, errors, nudge, runs>>
rows == <<jobs, attempts, held>>
flags == <<active, ctxDone, rested>>
sweeping == <<resetLockedTimer, pending, callback>>
made == <<continuous, tasks>>
loopVars == <<running, rows, flags, sweeping, made, callers, causes>>

\* NewWorker makes an active worker, and no timer.
Init ==
  /\ loop = "idle" /\ errors = 0 /\ nudge = FALSE /\ runs = 0
  /\ continuous \in BOOLEAN /\ tasks \in BOOLEAN
  /\ jobs = [j \in Jobs |-> "ready"]
  /\ attempts = [j \in Jobs |-> 0]
  /\ held = {}
  /\ active = TRUE /\ ctxDone = FALSE
  /\ callers = [c \in Callers |-> "out"]
  /\ resetLockedTimer = {} /\ pending = {}
  /\ callback = [t \in Timers |-> "none"]
  /\ rested = FALSE
  /\ causes = {}

(***************************************************************************)
(* setActive and the timer of the sweep.                                   *)
(***************************************************************************)
\* (mutant) the timer that is pending is not stopped
ScheduleResetLockedBeside(t) ==
  /\ resetLockedTimer' = {t}
  /\ pending' = pending \cup {t}

\* The timer that is stopped may have fired already.
ScheduleResetLocked(t) ==
  /\ resetLockedTimer' = {t}
  /\ pending' = (pending \ resetLockedTimer) \cup {t}

CancelResetLockedTimer ==
  /\ resetLockedTimer' = {}
  /\ pending' = pending \ resetLockedTimer

\* setActive(true)
Activate ==
  /\ active' = TRUE
  /\ IF active
     THEN UNCHANGED <<resetLockedTimer, pending>>
     ELSE \E t \in Timers \ pending :
            callback[t] = "none" /\ ScheduleResetLocked(t)
  /\ UNCHANGED <<ctxDone, rested, callback>>

\* setActive(false)
Deactivate ==
  /\ active' = FALSE
  /\ rested' = TRUE
  /\ IF active THEN CancelResetLockedTimer ELSE UNCHANGED <<resetLockedTimer, pending>>
  /\ UNCHANGED <<ctxDone, callback>>

Fire(t) ==
  /\ t \in pending
  /\ pending' = pending \ {t}
  /\ callback' = [callback EXCEPT ![t] = "fired"]
  /\ UNCHANGED <<resetLockedTimer, running, rows, flags, made, callers, causes>>

\* (mutant) the callback does not ask
CheckActiveNot(t) ==
  /\ callback[t] = "fired"
  /\ callback' = [callback EXCEPT ![t] = "sweeping"]
  /\ UNCHANGED <<resetLockedTimer, pending, running, rows, flags, made, callers, causes>>

\* The callback reads active, and lets go of its lock.
CheckActive(t) ==
  /\ callback[t] = "fired"
  /\ callback' = [callback EXCEPT ![t] = IF active THEN "sweeping" ELSE "none"]
  /\ UNCHANGED <<resetLockedTimer, pending, running, rows, flags, made, callers, causes>>

\* resetLocked schedules the next sweep whether its statement succeeded or not,
\* and whether or not the worker is still active.
ResetLocked(t) ==
  /\ callback[t] = "sweeping"
  /\ callback' = [callback EXCEPT ![t] = "none"]
  /\ ScheduleResetLocked(t)
  /\ UNCHANGED <<running, rows, flags, made, callers, causes>>

(***************************************************************************)
(* Run.                                                                    *)
(***************************************************************************)
Go(from, to) == loop = from /\ loop' = to

\* A worker that was released before Run is called is active again.
Run ==
  /\ loop \in {"idle", "stopped"} /\ runs < MaxRuns
  /\ loop' = IF continuous THEN "loop" ELSE "once"
  /\ runs' = runs + 1
  /\ errors' = 0
  /\ Activate
  /\ UNCHANGED <<nudge, rows, made, callers, causes>>

\* for w.isActive()
LoopEnds ==
  /\ ~active
  /\ Go("loop", "stopped")
  /\ UNCHANGED <<errors, nudge, runs, rows, flags, sweeping, made, callers, causes>>

\* case <-w.nudgeCh, or default
Select ==
  /\ active /\ (nudge \/ ~ctxDone)
  /\ Go("loop", "next")
  /\ nudge' = FALSE
  /\ UNCHANGED <<errors, runs, rows, flags, sweeping, made, callers, causes>>

\* case <-ctx.Done()
SelectDone ==
  /\ active /\ ctxDone
  /\ Go("loop", "releasing")
  /\ UNCHANGED <<errors, nudge, runs, rows, flags, sweeping, made, callers, causes>>

\* doNext returns nil.  ProcessJob has cleared activeJob by then, so Run sleeps
\* even after a job it has executed.
Succeeded ==
  /\ errors' = 0
  /\ loop' = IF active THEN "sleeping" ELSE "loop"

\* The sleep is over; nothing cuts it short.
Wake ==
  /\ Go("sleeping", "loop")
  /\ UNCHANGED <<errors, nudge, runs, rows, flags, sweeping, made, callers, causes>>

\* (mutant) one error more
CountErrorOver ==
  /\ loop = "error"
  /\ errors' = errors + 1
  /\ loop' = IF errors + 1 > MaxErrors THEN "releasing"
             ELSE IF active THEN "sleeping" ELSE "loop"
  /\ UNCHANGED <<nudge, runs, rows, flags, sweeping, made, callers, causes>>

\* doNext returns an error, be it of GetJob or of the execution of a job.
CountError ==
  /\ loop = "error"
  /\ errors' = errors + 1
  /\ loop' = IF errors + 1 >= MaxErrors THEN "releasing"
             ELSE IF active THEN "sleeping" ELSE "loop"
  /\ UNCHANGED <<nudge, runs, rows, flags, sweeping, made, callers, causes>>

\* Run calls Release before it returns an error.
RunReleases ==
  /\ loop = "releasing"
  /\ loop' = IF active THEN "deactivating" ELSE "stopped"
  /\ UNCHANGED <<errors, nudge, runs, rows, flags, sweeping, made, callers, causes>>

RunDeactivates ==
  /\ Go("deactivating", "stopped")
  /\ Deactivate
  /\ UNCHANGED <<errors, nudge, runs, rows, made, callers, causes>>

(***************************************************************************)
(* doNext and RunOnce.                                                     *)
(***************************************************************************)
DoNext ==
  /\ loop = "next"
  /\ IF active
     THEN /\ loop' = IF tasks THEN "getting" ELSE "error"
          /\ UNCHANGED errors
     ELSE Succeeded
  /\ UNCHANGED <<nudge, runs, rows, flags, sweeping, made, callers, causes>>

\* RunOnce looks at the context only.
OnceNext ==
  /\ ~ctxDone
  /\ Go("once", "getting")
  /\ UNCHANGED <<errors, nudge, runs, rows, flags, sweeping, made, callers, causes>>

\* RunOnce returns, and Run's deferred setActive(false) is called.
OnceReturns == loop' = "stopped" /\ Deactivate

OnceDone ==
  /\ loop = "once" /\ ctxDone
  /\ OnceReturns
  /\ UNCHANGED <<errors, nudge, runs, rows, made, callers, causes>>

Lock(j) ==
  /\ jobs[j] = "ready"
  /\ jobs' = [jobs EXCEPT ![j] = "locked"]
  /\ attempts' = [attempts EXCEPT ![j] = @ + 1]

\* Without handlers GetJob passes null for the tasks, which any job satisfies.
GetJob(j) ==
  /\ ~ctxDone
  /\ Go("getting", "got")
  /\ Lock(j)
  /\ held' = {j}
  /\ UNCHANGED <<errors, nudge, runs, flags, sweeping, made, callers, causes>>

GetNothing ==
  /\ ~ctxDone /\ loop = "getting"
  /\ \A j \in Jobs : jobs[j] # "ready"
  /\ IF continuous THEN Succeeded /\ UNCHANGED <<flags, sweeping>>
     ELSE OnceReturns /\ UNCHANGED errors
  /\ UNCHANGED <<nudge, runs, rows, made, callers, causes>>

\* The statement may have locked a job all the same.
GetError ==
  /\ ctxDone \/ "get" \in Faults
  /\ loop = "getting"
  /\ \/ UNCHANGED <<jobs, attempts>>
     \/ \E j \in Jobs : Lock(j)
  /\ causes' = causes \cup {"statement"}
  /\ IF continuous THEN loop' = "error" /\ UNCHANGED <<flags, sweeping>>
     ELSE OnceReturns
  /\ UNCHANGED <<errors, nudge, runs, held, made, callers>>

\* Released while getting the job: doNext returns nil and the row stays locked.
DropJob ==
  /\ loop = "got" /\ continuous /\ ~active
  /\ held' = {}
  /\ Succeeded
  /\ UNCHANGED <<nudge, runs, jobs, attempts, flags, sweeping, made, callers, causes>>

\* ProcessJob
Start ==
  /\ continuous => active
  /\ tasks
  /\ Go("got", "executing")
  /\ UNCHANGED <<errors, nudge, runs, rows, flags, sweeping, made, callers, causes>>

\* ProcessJob has no handler for the task: the row stays locked.
NoHandler ==
  /\ ~continuous /\ ~tasks
  /\ Go("got", "once")
  /\ held' = {}
  /\ UNCHANGED <<errors, nudge, runs, jobs, attempts, flags, sweeping, made, callers, causes>>

HandlerReturns ==
  /\ loop = "executing"
  /\ loop' \in {"completing", "failing"}
  /\ UNCHANGED <<errors, nudge, runs, rows, flags, sweeping, made, callers, causes>>

Completed == [j \in Jobs |-> IF j \in held THEN "finished" ELSE jobs[j]]

\* (mutant) the row is left locked
FailedLocked == jobs

Failed ==
  [j \in Jobs |-> IF j \notin held THEN jobs[j]
                  ELSE IF attempts[j] < MaxAttempts THEN "waiting" ELSE "finished"]

CompleteJob ==
  /\ ~ctxDone /\ loop = "completing"
  /\ jobs' = Completed
  /\ held' = {}
  /\ IF continuous THEN Succeeded ELSE loop' = "once" /\ UNCHANGED errors
  /\ UNCHANGED <<attempts, nudge, runs, flags, sweeping, made, callers, causes>>

\* ProcessJob returns an error
ProcessError == loop' = IF continuous THEN "error" ELSE "once"

FailJob ==
  /\ ~ctxDone /\ loop = "failing"
  /\ jobs' = Failed
  /\ held' = {}
  /\ ProcessError
  /\ UNCHANGED <<attempts, errors, nudge, runs, flags, sweeping, made, callers, causes>>

\* CompleteJob or FailJob returns an error, whether or not the row was changed.
FinishError ==
  /\ ctxDone \/ "finish" \in Faults
  /\ loop \in {"completing", "failing"}
  /\ jobs' \in {jobs, IF loop = "completing" THEN Completed ELSE Failed}
  /\ held' = {}
  /\ causes' = causes \cup {"statement"}
  /\ ProcessError
  /\ UNCHANGED <<attempts, errors, nudge, runs, flags, sweeping, made, callers>>

(***************************************************************************)
(* Callers of Release and Nudge, the context, and time.                    *)
(***************************************************************************)
\* Release finds the worker active ...
Release(c) ==
  /\ callers[c] = "out" /\ active
  /\ callers' = [callers EXCEPT ![c] = "found active"]
  /\ UNCHANGED <<running, rows, flags, sweeping, made, causes>>

\* ... and deactivates it, whatever has happened since.
ReleaseDeactivates(c) ==
  /\ callers[c] = "found active"
  /\ callers' = [callers EXCEPT ![c] = "out"]
  /\ Deactivate
  /\ causes' = causes \cup {"release"}
  /\ UNCHANGED <<running, rows, made>>

Nudge ==
  /\ ~nudge
  /\ nudge' = TRUE
  /\ UNCHANGED <<loop, errors, runs, rows, flags, sweeping, made, callers, causes>>

Cancel ==
  /\ ~ctxDone
  /\ ctxDone' = TRUE
  /\ UNCHANGED <<active, rested, running, rows, sweeping, made, callers, causes>>

\* The run_at of a failed job is reached.
JobDue(j) ==
  /\ jobs[j] = "waiting"
  /\ jobs' = [jobs EXCEPT ![j] = "ready"]
  /\ UNCHANGED <<attempts, held, running, flags, sweeping, made, callers, causes>>

RunStep ==
  \/ LoopEnds \/ Select \/ SelectDone \/ Wake \/ CountError
  \/ RunReleases \/ RunDeactivates
  \/ DoNext \/ OnceNext \/ OnceDone
  \/ \E j \in Jobs : GetJob(j)
  \/ GetNothing \/ GetError
  \/ DropJob \/ Start \/ NoHandler
  \/ HandlerReturns \/ CompleteJob \/ FailJob \/ FinishError

TimerStep(t) == Fire(t) \/ CheckActive(t) \/ ResetLocked(t)

Next ==
  \/ Run
  \/ RunStep
  \/ \E t \in Timers : TimerStep(t)
  \/ \E c \in Callers : Release(c) \/ ReleaseDeactivates(c)
  \/ Nudge
  \/ Cancel
  \/ \E j \in Jobs : JobDue(j)

Spec == Init /\ [][Next]_loopVars

\* Handlers return, statements and sleeps end, timers fire, and a Release that
\* has begun ends.  Nobody has to call Run, Release or Nudge.
FairSpec ==
  /\ Spec
  /\ WF_loopVars(RunStep)
  /\ \A t \in Timers : WF_loopVars(TimerStep(t))
  /\ \A c \in Callers : WF_loopVars(ReleaseDeactivates(c))

-------------------------------------------------------------------------------
\* Every variable has its type; Run holds a job exactly from GetJob to the end
\* of ProcessJob, and that job is locked.
TypeOK ==
  /\ loop \in {"idle", "loop", "next", "getting", "got", "executing", "completing",
               "failing", "error", "sleeping", "releasing", "deactivating", "once", "stopped"}
  /\ errors \in 0 .. MaxErrors /\ runs \in 0 .. MaxRuns
  /\ nudge \in BOOLEAN /\ continuous \in BOOLEAN /\ tasks \in BOOLEAN
  /\ active \in BOOLEAN /\ ctxDone \in BOOLEAN /\ rested \in BOOLEAN
  /\ jobs \in [Jobs -> {"ready", "waiting", "locked", "finished"}]
  /\ attempts \in [Jobs -> 0 .. MaxAttempts]
  /\ held \subseteq Jobs /\ \A j \in held : jobs[j] = "locked"
  /\ held # {} <=> loop \in {"got", "executing", "completing", "failing"}
  /\ callers \in [Callers -> {"out", "found active"}]
  /\ pending \subseteq Timers /\ resetLockedTimer \subseteq Timers
  /\ callback \in [Timers -> {"none", "fired", "sweeping"}]
  /\ causes \subseteq {"release", "statement"}

Lease == INSTANCE JobLease WITH
  Workers <- {"worker"},
  locked <- {j \in Jobs : jobs[j] = "locked"},
  holds <- [w \in {"worker"} |-> held]

\* However Run, Release and the context interleave, the loop treats
\* reservations as JobLease says.
LeaseSpec == Lease!Spec

Abandoned == {j \in Jobs \ held : jobs[j] = "locked"}

\* As long as statements succeed, a worker that has handlers leaves a job locked
\* that it does not execute only when it is released in the middle of GetJob,
\* and then one job for each Run.
ReleaseDropsOne ==
  tasks /\ "statement" \notin causes =>
    Cardinality(Abandoned) <= IF continuous /\ "release" \in causes THEN runs ELSE 0

\* However Run, Release and callbacks in flight interleave, there is one timer of
\* the sweep, never two; and an active worker that has been inactive before has
\* one, or a callback that will schedule it.
SweepChain ==
  /\ Cardinality(pending) <= 1
  /\ active /\ rested =>
       pending # {} \/ \E t \in Timers : callback[t] # "none"

\* Run returns once the worker is released or the context cancelled, even though
\* the signal on releaseCh is always lost, and a worker that is to run once ends.
\* The timers of a worker that stays inactive die out, the one that a callback
\* in flight schedules after setActive(false) has cancelled the last included.
ReleaseEnds ==
  /\ loop \notin {"idle", "stopped"} /\ (~active \/ ctxDone \/ ~continuous)
       ~> loop = "stopped"
  /\ <>[]~active => <>[](pending = {} /\ \A t \in Timers : callback[t] = "none")
===============================================================================
