--------------------------- MODULE WorkerLoopProofs ---------------------------
(***************************************************************************)
(* Theorems about WorkerLoop: the one timer of the sweep, the job that     *)
(* each Run may leave locked, and that the loop implements JobLease, for   *)
(* every number of jobs, callers, timers and runs.                         *)
(***************************************************************************)
EXTENDS WorkerLoop, FiniteSetTheorems, TLAPS

USE LoopBounds

-------------------------------------------------------------------------------
\* The timer of the sweep.  Run, Release and the callbacks change it by setActive
\* and by resetLocked only.

\* The timer that is pending is the one the worker knows of.
TimerInv ==
  /\ callback \in [Timers -> {"none", "fired", "sweeping"}]
  /\ resetLockedTimer \subseteq Timers
  /\ pending = {} \/ \E t \in Timers : pending = {t} /\ resetLockedTimer = {t}
  /\ active /\ rested =>
       pending # {} \/ \E t \in Timers : callback[t] # "none"

LEMMA TimerFrame ==
  ASSUME TimerInv, UNCHANGED <<active, rested, resetLockedTimer, pending, callback>>
  PROVE  TimerInv'
  BY DEF TimerInv

LEMMA TimerActivate ==
  ASSUME TimerInv, Activate PROVE TimerInv'
  BY DEF TimerInv, Activate, ScheduleResetLocked

LEMMA TimerDeactivate ==
  ASSUME TimerInv, Deactivate PROVE TimerInv'
  BY DEF TimerInv, Deactivate, CancelResetLockedTimer

LEMMA TimerStepInv ==
  ASSUME TimerInv, NEW t \in Timers, TimerStep(t) PROVE TimerInv'
  <1>1. UNCHANGED <<active, rested>>
    BY DEF TimerStep, Fire, CheckActive, ResetLocked, flags
  <1>2. CASE Fire(t)
    <2>1. /\ pending' = {} /\ callback' = [callback EXCEPT ![t] = "fired"]
          /\ resetLockedTimer' = resetLockedTimer
      BY <1>2 DEF Fire, TimerInv
    <2>2. callback'[t] = "fired"
      BY <2>1 DEF TimerInv
    <2>3. QED
      BY <2>1, <2>2 DEF TimerInv
  <1>3. CASE CheckActive(t)
    <2>1. /\ pending' = pending /\ resetLockedTimer' = resetLockedTimer
          /\ callback' = [callback EXCEPT ![t] = IF active THEN "sweeping" ELSE "none"]
      BY <1>3 DEF CheckActive
    <2>2. callback'[t] = IF active THEN "sweeping" ELSE "none"
      BY <2>1 DEF TimerInv
    <2>3. QED
      BY <1>1, <2>1, <2>2 DEF TimerInv
  <1>4. CASE ResetLocked(t)
    <2>1. pending' = {t} /\ resetLockedTimer' = {t}
      BY <1>4 DEF ResetLocked, ScheduleResetLocked, TimerInv
    <2>2. QED
      BY <1>4, <2>1 DEF ResetLocked, TimerInv
  <1>5. QED
    BY <1>2, <1>3, <1>4 DEF TimerStep

LEMMA RunStepTimers ==
  RunStep => Deactivate \/ UNCHANGED <<active, rested, ctxDone, resetLockedTimer, pending, callback>>
  BY DEF RunStep, LoopEnds, Select, SelectDone, Wake, CountError, RunReleases, RunDeactivates,
         DoNext, OnceNext, OnceDone, OnceReturns, GetJob, GetNothing, GetError, DropJob, Start,
         NoHandler, HandlerReturns, CompleteJob, FailJob, FinishError, flags, sweeping

LEMMA TimerInvariance == Spec => []TimerInv
  <1>1. Init => TimerInv
    BY DEF Init, TimerInv
  <1>2. ASSUME TimerInv, [Next]_loopVars PROVE TimerInv'
    <2>1. CASE RunStep
      BY <1>2, <2>1, RunStepTimers, TimerDeactivate, TimerFrame
    <2>2. CASE Run
      BY <1>2, <2>2, TimerActivate DEF Run
    <2>3. ASSUME NEW t \in Timers, TimerStep(t) PROVE TimerInv'
      BY <1>2, <2>3, TimerStepInv
    <2>4. ASSUME NEW c \in Callers, Release(c) \/ ReleaseDeactivates(c) PROVE TimerInv'
      BY <1>2, <2>4, TimerDeactivate, TimerFrame
      DEF Release, ReleaseDeactivates, flags, sweeping
    <2>5. CASE Nudge \/ Cancel \/ (\E j \in Jobs : JobDue(j)) \/ UNCHANGED loopVars
      BY <1>2, <2>5, TimerFrame DEF Nudge, Cancel, JobDue, loopVars, flags, sweeping
    <2>6. QED
      BY <1>2, <2>1, <2>2, <2>3, <2>4, <2>5 DEF Next
  <1>3. QED
    BY <1>1, <1>2, PTL DEF Spec

\* There is one timer of the sweep at most, and an active worker that has been
\* inactive has one or a callback that schedules it, however Run, Release and
\* callbacks in flight interleave.
THEOREM OneSweepTimer == Spec => []SweepChain
  <1>1. TimerInv => SweepChain
    <2>1. Cardinality({}) = 0 /\ \A t \in Timers : Cardinality({t}) = 1
      BY FS_EmptySet, FS_Singleton
    <2>2. QED
      BY <2>1 DEF TimerInv, SweepChain
  <1>2. QED
    BY TimerInvariance, <1>1, PTL

-------------------------------------------------------------------------------
\* The rows and the job that is held.

Loops == {"idle", "loop", "next", "getting", "got", "executing", "completing",
          "failing", "error", "sleeping", "releasing", "deactivating", "once", "stopped"}

Holding == {"got", "executing", "completing", "failing"}

FlagsInv ==
  /\ nudge \in BOOLEAN /\ continuous \in BOOLEAN /\ tasks \in BOOLEAN
  /\ active \in BOOLEAN /\ ctxDone \in BOOLEAN /\ rested \in BOOLEAN
  /\ callers \in [Callers -> {"out", "found active"}]
  /\ causes \subseteq {"release", "statement"}

\* Run goes on only while an error more is allowed.
ControlInv ==
  /\ loop \in Loops
  /\ errors \in 0 .. MaxErrors /\ runs \in 0 .. MaxRuns
  /\ loop \notin {"idle", "stopped", "releasing", "deactivating"} => errors < MaxErrors

\* A row that is to be executed has attempts left.
RowsInv ==
  /\ jobs \in [Jobs -> {"ready", "waiting", "locked", "finished"}]
  /\ attempts \in [Jobs -> 0 .. MaxAttempts]
  /\ \A j \in Jobs : jobs[j] \in {"ready", "waiting"} => attempts[j] < MaxAttempts
  /\ held \subseteq Jobs /\ \A j \in held : jobs[j] = "locked"
  /\ held # {} <=> loop \in Holding
  /\ held = {} \/ \E j \in Jobs : held = {j}

CoreInv == FlagsInv /\ ControlInv /\ RowsInv

LEMMA CoreInit == Init => CoreInv
  <1> SUFFICES ASSUME Init PROVE CoreInv
    OBVIOUS
  <1>1. FlagsInv
    BY DEF Init, FlagsInv
  <1>2. ControlInv
    BY DEF Init, ControlInv, Loops
  <1>3. RowsInv
    BY DEF Init, RowsInv, Holding
  <1>4. QED
    BY <1>1, <1>2, <1>3 DEF CoreInv

\* One error more is within the limit, or is the one that ends Run.
LEMMA ErrorCounted ==
  ASSUME NEW e \in 0 .. MaxErrors, e < MaxErrors
  PROVE  e + 1 \in 0 .. MaxErrors /\ (~(e + 1 >= MaxErrors) => e + 1 < MaxErrors)
  OBVIOUS

LEMMA RunCounted ==
  ASSUME NEW r \in 0 .. MaxRuns, r < MaxRuns
  PROVE  r + 1 \in 0 .. MaxRuns
  OBVIOUS

LEMMA ControlStep ==
  ASSUME CoreInv, [Next]_loopVars PROVE ControlInv'
  <1>1. CASE Run
    <2>1. loop' \in {"loop", "once"} /\ errors' = 0 /\ runs' = runs + 1 /\ runs < MaxRuns
      BY <1>1 DEF Run
    <2>2. runs' \in 0 .. MaxRuns
      BY <2>1, RunCounted DEF CoreInv, ControlInv
    <2>3. QED
      BY <2>1, <2>2 DEF ControlInv, Loops
  <1>2. CASE CountError
    <2>1. /\ loop = "error" /\ errors' = errors + 1 /\ runs' = runs
          /\ loop' \in {"releasing", "sleeping", "loop"}
          /\ loop' # "releasing" => ~(errors + 1 >= MaxErrors)
      BY <1>2 DEF CountError
    <2>2. errors' \in 0 .. MaxErrors /\ (loop' # "releasing" => errors' < MaxErrors)
      BY <2>1, ErrorCounted DEF CoreInv, ControlInv
    <2>3. QED
      BY <2>1, <2>2 DEF CoreInv, ControlInv, Loops
  <1>3. CASE RunStep /\ ~CountError
    <2>1. /\ loop' \in Loops /\ loop' # "idle" /\ runs' = runs
          /\ errors' = errors \/ errors' = 0
          /\ loop \in {"idle", "stopped", "releasing", "deactivating"}
               => loop' \in {"stopped", "deactivating"}
      BY <1>3 DEF RunStep, LoopEnds, Select, SelectDone, Wake, RunReleases, RunDeactivates,
         DoNext, OnceNext, OnceDone, OnceReturns, GetJob, GetNothing, GetError, DropJob, Start,
         NoHandler, HandlerReturns, CompleteJob, FailJob, FinishError, Succeeded, ProcessError,
         Go, Loops
    <2>2. 0 \in 0 .. MaxErrors /\ 0 < MaxErrors
      OBVIOUS
    <2>3. QED
      BY <2>1, <2>2 DEF CoreInv, ControlInv
  <1>4. CASE UNCHANGED <<loop, errors, runs>>
    BY <1>4 DEF CoreInv, ControlInv
  <1>5. QED
    BY <1>1, <1>2, <1>3, <1>4 DEF Next, TimerStep, Fire, CheckActive, ResetLocked, Release,
       ReleaseDeactivates, Nudge, Cancel, JobDue, loopVars, running

LEMMA FlagsStep ==
  ASSUME CoreInv, [Next]_loopVars PROVE FlagsInv'
  <1>1. continuous' = continuous /\ tasks' = tasks
    BY DEF Next, Run, RunStep, LoopEnds, Select, SelectDone, Wake, CountError, RunReleases,
       RunDeactivates, DoNext, OnceNext, OnceDone, OnceReturns, GetJob, GetNothing, GetError,
       DropJob, Start, NoHandler, HandlerReturns, CompleteJob, FailJob, FinishError, TimerStep,
       Fire, CheckActive, ResetLocked, Release, ReleaseDeactivates, Nudge, Cancel, JobDue,
       loopVars, made
  <1>2. nudge' = nudge \/ nudge' \in BOOLEAN
    BY DEF Next, Run, RunStep, LoopEnds, Select, SelectDone, Wake, CountError, RunReleases,
       RunDeactivates, DoNext, OnceNext, OnceDone, OnceReturns, GetJob, GetNothing, GetError,
       DropJob, Start, NoHandler, HandlerReturns, CompleteJob, FailJob, FinishError, TimerStep,
       Fire, CheckActive, ResetLocked, Release, ReleaseDeactivates, Nudge, Cancel, JobDue,
       loopVars, running
  <1>3. active' \in BOOLEAN /\ ctxDone' \in BOOLEAN /\ rested' \in BOOLEAN
    <2>1. CASE RunStep
      BY <2>1, RunStepTimers DEF CoreInv, FlagsInv, Deactivate
    <2>2. CASE Run
      BY <2>2 DEF Run, Activate, CoreInv, FlagsInv
    <2>3. CASE ~RunStep /\ ~Run
      BY <2>3 DEF Next, TimerStep, Fire, CheckActive, ResetLocked, Release, ReleaseDeactivates,
         Deactivate, Nudge, Cancel, JobDue, loopVars, flags, CoreInv, FlagsInv
    <2>4. QED
      BY <2>1, <2>2, <2>3
  <1>4. causes' \subseteq {"release", "statement"}
    <2>1. causes' = causes \/ causes' = causes \cup {"release"} \/ causes' = causes \cup {"statement"}
      BY DEF Next, Run, RunStep, LoopEnds, Select, SelectDone, Wake, CountError, RunReleases,
       RunDeactivates, DoNext, OnceNext, OnceDone, OnceReturns, GetJob, GetNothing, GetError,
       DropJob, Start, NoHandler, HandlerReturns, CompleteJob, FailJob, FinishError, TimerStep,
       Fire, CheckActive, ResetLocked, Release, ReleaseDeactivates, Nudge, Cancel, JobDue,
       loopVars
    <2>2. QED
      BY <2>1 DEF CoreInv, FlagsInv
  <1>5. callers' \in [Callers -> {"out", "found active"}]
    <2>1. ASSUME NEW c \in Callers, Release(c) \/ ReleaseDeactivates(c)
          PROVE  callers' \in [Callers -> {"out", "found active"}]
      BY <2>1 DEF Release, ReleaseDeactivates, CoreInv, FlagsInv
    <2>2. CASE callers' = callers
      BY <2>2 DEF CoreInv, FlagsInv
    <2>3. QED
      BY <2>1, <2>2 DEF Next, Run, RunStep, LoopEnds, Select, SelectDone, Wake, CountError,
       RunReleases, RunDeactivates, DoNext, OnceNext, OnceDone, OnceReturns, GetJob, GetNothing,
       GetError, DropJob, Start, NoHandler, HandlerReturns, CompleteJob, FailJob, FinishError,
       TimerStep, Fire, CheckActive, ResetLocked, Nudge, Cancel, JobDue, loopVars
  <1>6. QED
    BY <1>1, <1>2, <1>3, <1>4, <1>5 DEF CoreInv, FlagsInv

\* A ready job that is locked, and what becomes of the job that is held.
LEMMA LockRows ==
  ASSUME RowsInv, NEW j \in Jobs, Lock(j)
  PROVE  /\ jobs' \in [Jobs -> {"ready", "waiting", "locked", "finished"}]
         /\ attempts' \in [Jobs -> 0 .. MaxAttempts]
         /\ \A i \in Jobs : jobs'[i] \in {"ready", "waiting"} => attempts'[i] < MaxAttempts
         /\ jobs'[j] = "locked" /\ jobs[j] = "ready" /\ \A i \in Jobs : i # j => jobs'[i] = jobs[i]
  <1>1. /\ jobs[j] = "ready" /\ jobs' = [jobs EXCEPT ![j] = "locked"]
        /\ attempts' = [attempts EXCEPT ![j] = attempts[j] + 1]
    BY DEF Lock
  <1>2. attempts[j] \in 0 .. MaxAttempts /\ attempts[j] < MaxAttempts
    BY <1>1 DEF RowsInv
  <1>3. attempts[j] + 1 \in 0 .. MaxAttempts
    BY <1>2
  <1>4. /\ jobs' \in [Jobs -> {"ready", "waiting", "locked", "finished"}]
        /\ jobs'[j] = "locked" /\ \A i \in Jobs : i # j => jobs'[i] = jobs[i]
    BY <1>1 DEF RowsInv
  <1>5. /\ attempts' \in [Jobs -> 0 .. MaxAttempts]
        /\ \A i \in Jobs : i # j => attempts'[i] = attempts[i]
    BY <1>1, <1>3 DEF RowsInv
  <1>6. QED
    BY <1>1, <1>4, <1>5 DEF RowsInv

LEMMA FinishedRows ==
  ASSUME RowsInv, attempts' = attempts, jobs' \in {jobs, Completed, Failed}
  PROVE  /\ jobs' \in [Jobs -> {"ready", "waiting", "locked", "finished"}]
         /\ \A i \in Jobs : jobs'[i] \in {"ready", "waiting"} => attempts'[i] < MaxAttempts
         /\ \A i \in Jobs : i \notin held => jobs'[i] = jobs[i]
  <1>1. CASE jobs' = jobs
    BY <1>1 DEF RowsInv
  <1>2. CASE jobs' = Completed
    BY <1>2 DEF RowsInv, Completed
  <1>3. CASE jobs' = Failed
    BY <1>3 DEF RowsInv, Failed
  <1>4. QED
    BY <1>1, <1>2, <1>3

\* The steps that change rows, and what the others leave alone.
Fetches == \E j \in Jobs : GetJob(j)

Finishes == CompleteJob \/ FailJob \/ FinishError

LetsGo == DropJob \/ NoHandler

LEMMA RowsKept ==
  [Next]_loopVars /\ ~Fetches /\ ~GetError /\ ~Finishes /\ ~LetsGo /\ ~(\E j \in Jobs : JobDue(j))
    => /\ UNCHANGED rows
       /\ loop' \in Holding <=> loop \in Holding
  BY DEF Next, Run, RunStep, LoopEnds, Select, SelectDone, Wake, CountError, RunReleases,
       RunDeactivates, DoNext, OnceNext, OnceDone, OnceReturns, GetNothing, Start, HandlerReturns,
       TimerStep, Fire, CheckActive, ResetLocked, Release, ReleaseDeactivates, Nudge, Cancel,
       loopVars, running, rows, Succeeded, Go, Holding, Fetches, Finishes, LetsGo

LEMMA RowsStep ==
  ASSUME CoreInv, [Next]_loopVars PROVE RowsInv'
  <1> USE DEF CoreInv
  <1>1. ASSUME NEW j \in Jobs, GetJob(j) PROVE RowsInv'
    <2>1. Lock(j) /\ held' = {j} /\ loop' = "got"
      BY <1>1 DEF GetJob, Go
    <2>2. QED
      BY <2>1, LockRows DEF RowsInv, Holding
  <1>2. CASE GetError
    <2>1. held' = held /\ loop' \notin Holding /\ loop \notin Holding
      BY <1>2 DEF GetError, OnceReturns, Holding
    <2>2. held = {}
      BY <2>1 DEF RowsInv
    <2>3. CASE UNCHANGED <<jobs, attempts>>
      BY <2>1, <2>2, <2>3 DEF RowsInv
    <2>4. ASSUME NEW j \in Jobs, Lock(j) PROVE RowsInv'
      BY <2>1, <2>2, <2>4, LockRows DEF RowsInv
    <2>5. QED
      BY <1>2, <2>3, <2>4 DEF GetError
  <1>3. CASE Finishes
    <2>1. /\ attempts' = attempts /\ jobs' \in {jobs, Completed, Failed} /\ held' = {}
          /\ loop' \notin Holding
      BY <1>3 DEF Finishes, CompleteJob, FailJob, FinishError, Succeeded, ProcessError, Holding
    <2>2. QED
      BY <2>1, FinishedRows DEF RowsInv
  <1>4. CASE LetsGo
    <2>1. UNCHANGED <<jobs, attempts>> /\ held' = {} /\ loop' \notin Holding
      BY <1>4 DEF LetsGo, DropJob, NoHandler, Succeeded, Go, Holding
    <2>2. QED
      BY <2>1 DEF RowsInv
  <1>5. ASSUME NEW j \in Jobs, JobDue(j) PROVE RowsInv'
    <2>1. /\ jobs[j] = "waiting" /\ jobs' = [jobs EXCEPT ![j] = "ready"]
          /\ UNCHANGED <<attempts, held, loop>>
      BY <1>5 DEF JobDue, running
    <2>2. QED
      BY <2>1 DEF RowsInv
  <1>6. CASE UNCHANGED rows /\ (loop' \in Holding <=> loop \in Holding)
    BY <1>6 DEF RowsInv, rows
  <1>7. QED
    BY <1>1, <1>2, <1>3, <1>4, <1>5, <1>6, RowsKept DEF Fetches

LEMMA CoreInvariance == Spec => []CoreInv
  <1>1. CoreInv /\ [Next]_loopVars => CoreInv'
    BY ControlStep, FlagsStep, RowsStep DEF CoreInv
  <1>2. QED
    BY CoreInit, <1>1, PTL DEF Spec

\* Every variable of the loop has its type, and Run holds a job exactly from GetJob
\* to the end of ProcessJob, and that job is locked.
THEOREM LoopTypeCorrect == Spec => []TypeOK
  <1>1. CoreInv /\ TimerInv => TypeOK
    BY DEF CoreInv, FlagsInv, ControlInv, RowsInv, TimerInv, TypeOK, Loops, Holding
  <1>2. QED
    BY CoreInvariance, TimerInvariance, <1>1, PTL

-------------------------------------------------------------------------------
\* Jobs that are left locked.  Without handlers RunOnce locks every job, and a
\* statement that fails may have locked one; otherwise only Release does.

\* A worker that is not active while Run goes on has been released.
Released == continuous /\ ~active /\ loop \notin {"idle", "stopped"} => "release" \in causes

\* This Run can still leave a job locked.
MayDrop == loop \notin {"idle", "stopped"} /\ ~(loop = "loop" /\ ~active)

DroppedInv ==
  tasks /\ "statement" \notin causes =>
    /\ IsFiniteSet(Abandoned)
    /\ Abandoned # {} => continuous /\ "release" \in causes
    /\ Cardinality(Abandoned) <= runs
    /\ MayDrop => Cardinality(Abandoned) < runs

DropInv == Released /\ DroppedInv

LEMMA CausesGrow == [Next]_loopVars => causes \subseteq causes'
  BY DEF Next, Run, RunStep, LoopEnds, Select, SelectDone, Wake, CountError, RunReleases,
     RunDeactivates, DoNext, OnceNext, OnceDone, OnceReturns, GetJob, GetNothing, GetError,
     DropJob, Start, NoHandler, HandlerReturns, CompleteJob, FailJob, FinishError, TimerStep,
     Fire, CheckActive, ResetLocked, Release, ReleaseDeactivates, Nudge, Cancel, JobDue,
     loopVars

LEMMA ReleasedStep ==
  ASSUME CoreInv, Released, [Next]_loopVars PROVE Released'
  <1>1. continuous' = continuous
    BY DEF Next, Run, RunStep, LoopEnds, Select, SelectDone, Wake, CountError, RunReleases,
       RunDeactivates, DoNext, OnceNext, OnceDone, OnceReturns, GetJob, GetNothing, GetError,
       DropJob, Start, NoHandler, HandlerReturns, CompleteJob, FailJob, FinishError, TimerStep,
       Fire, CheckActive, ResetLocked, Release, ReleaseDeactivates, Nudge, Cancel, JobDue,
       loopVars, made
  <1>2. CASE Run
    BY <1>2 DEF Run, Activate, Released
  <1>3. CASE RunStep
    <2>1. loop \notin {"idle", "stopped"} /\ (active' = active \/ loop' = "stopped")
      BY <1>3 DEF RunStep, LoopEnds, Select, SelectDone, Wake, CountError, RunReleases,
         RunDeactivates, DoNext, OnceNext, OnceDone, OnceReturns, GetJob, GetNothing, GetError,
         DropJob, Start, NoHandler, HandlerReturns, CompleteJob, FailJob, FinishError, flags, Go
    <2>2. QED
      BY <1>1, <2>1, CausesGrow DEF Released
  <1>4. ASSUME NEW c \in Callers, ReleaseDeactivates(c) PROVE Released'
    BY <1>4 DEF ReleaseDeactivates, Released
  <1>5. CASE UNCHANGED <<loop, active>>
    BY <1>1, <1>5, CausesGrow DEF Released
  <1>6. QED
    BY <1>2, <1>3, <1>4, <1>5 DEF Next, TimerStep, Fire, CheckActive, ResetLocked, Release,
       Nudge, Cancel, JobDue, loopVars, running, flags

\* Unless a statement fails or a job is dropped, the jobs left locked stay the same.
LEMMA AbandonedKept ==
  ASSUME CoreInv, [Next]_loopVars, ~GetError, ~FinishError, ~LetsGo
  PROVE  Abandoned' = Abandoned
  <1> USE DEF CoreInv
  <1>1. ASSUME NEW j \in Jobs, GetJob(j) PROVE Abandoned' = Abandoned
    <2>1. Lock(j) /\ held' = {j} /\ loop = "getting"
      BY <1>1 DEF GetJob, Go
    <2>2. held = {}
      BY <2>1 DEF RowsInv, Holding
    <2>3. QED
      BY <2>1, <2>2, LockRows DEF Abandoned
  <1>2. CASE CompleteJob \/ FailJob
    <2>1. /\ held' = {} /\ \A i \in Jobs : i \notin held => jobs'[i] = jobs[i]
          /\ \A i \in held : jobs'[i] # "locked"
      BY <1>2 DEF CompleteJob, FailJob, Completed, Failed, RowsInv
    <2>2. QED
      BY <2>1 DEF Abandoned
  <1>3. ASSUME NEW j \in Jobs, JobDue(j) PROVE Abandoned' = Abandoned
    <2>1. held' = held /\ \A i \in Jobs : jobs'[i] = "locked" <=> jobs[i] = "locked"
      BY <1>3 DEF JobDue, RowsInv
    <2>2. QED
      BY <2>1 DEF Abandoned
  <1>4. CASE UNCHANGED rows
    BY <1>4 DEF rows, Abandoned
  <1>5. QED
    BY <1>1, <1>2, <1>3, <1>4, RowsKept DEF Fetches, Finishes

LEMMA DroppedStep ==
  ASSUME CoreInv, DropInv, [Next]_loopVars PROVE DroppedInv'
  <1>1. SUFFICES ASSUME tasks', "statement" \notin causes'
                 PROVE  DroppedInv'
    BY DEF DroppedInv
  <1>2. tasks /\ "statement" \notin causes /\ continuous' = continuous
    BY <1>1, CausesGrow DEF Next, Run, RunStep, LoopEnds, Select, SelectDone, Wake, CountError,
       RunReleases, RunDeactivates, DoNext, OnceNext, OnceDone, OnceReturns, GetJob, GetNothing,
       GetError, DropJob, Start, NoHandler, HandlerReturns, CompleteJob, FailJob, FinishError,
       TimerStep, Fire, CheckActive, ResetLocked, Release, ReleaseDeactivates, Nudge, Cancel,
       JobDue, loopVars, made
  <1>3. ~GetError /\ ~FinishError /\ ~NoHandler
    BY <1>1, <1>2 DEF GetError, FinishError, NoHandler
  <1>4. /\ IsFiniteSet(Abandoned)
        /\ Abandoned # {} => continuous /\ "release" \in causes
        /\ Cardinality(Abandoned) <= runs
        /\ MayDrop => Cardinality(Abandoned) < runs
    BY <1>2 DEF DropInv, DroppedInv
  <1>5. Cardinality(Abandoned) \in Nat /\ runs \in Nat
    BY <1>4, FS_CardinalityType DEF CoreInv, ControlInv
  <1>6. CASE DropJob
    <2>1. /\ loop = "got" /\ continuous /\ ~active /\ active' = active /\ held' = {}
          /\ loop' = "loop" /\ jobs' = jobs /\ runs' = runs
      BY <1>6 DEF DropJob, Succeeded, flags
    <2>2. PICK j \in Jobs : held = {j}
      BY <2>1 DEF CoreInv, RowsInv, Holding
    <2>3. j \notin Abandoned /\ Abandoned' = Abandoned \cup {j}
      BY <2>1, <2>2 DEF Abandoned, CoreInv, RowsInv
    <2>4. IsFiniteSet(Abandoned') /\ Cardinality(Abandoned') = Cardinality(Abandoned) + 1
      BY <1>4, <2>3, FS_AddElement
    <2>5. MayDrop /\ ~MayDrop'
      BY <2>1 DEF MayDrop
    <2>6. "release" \in causes
      BY <2>1 DEF DropInv, Released
    <2>7. Cardinality(Abandoned) < runs
      BY <1>4, <2>5
    <2>8. Cardinality(Abandoned') <= runs'
      BY <1>5, <2>1, <2>4, <2>7
    <2>9. QED
      BY <1>2, <2>1, <2>4, <2>5, <2>6, <2>8, CausesGrow DEF DroppedInv
  <1>7. CASE ~DropJob
    <2>1. Abandoned' = Abandoned
      BY <1>3, <1>7, AbandonedKept DEF LetsGo
    <2>2. CASE Run
      <3>1. runs' = runs + 1
        BY <2>2 DEF Run
      <3>2. QED
        BY <1>2, <1>4, <1>5, <2>1, <3>1, CausesGrow DEF DroppedInv
    <2>3. CASE ~Run
      <3>1. runs' = runs /\ (MayDrop' => MayDrop)
        <4>1. CASE RunStep
          BY <4>1 DEF MayDrop, RunStep, LoopEnds, Select, SelectDone, Wake, CountError,
             RunReleases, RunDeactivates, DoNext, OnceNext, OnceDone, OnceReturns, GetJob,
             GetNothing, GetError, DropJob, Start, NoHandler, HandlerReturns, CompleteJob,
             FailJob, FinishError, Go
        <4>2. CASE ~RunStep
          <5>1. loop' = loop /\ runs' = runs
            BY <2>3, <4>2 DEF Next, TimerStep, Fire, CheckActive, ResetLocked, Release,
               ReleaseDeactivates, Nudge, Cancel, JobDue, loopVars, running
          <5>2. active' = active \/ active' = FALSE
            BY <2>3, <4>2 DEF Next, TimerStep, Fire, CheckActive, ResetLocked, Release,
               ReleaseDeactivates, Deactivate, Nudge, Cancel, JobDue, loopVars, flags
          <5>3. QED
            BY <5>1, <5>2 DEF MayDrop
        <4>3. QED
          BY <4>1, <4>2
      <3>2. QED
        BY <1>2, <1>4, <2>1, <3>1, CausesGrow DEF DroppedInv
    <2>4. QED
      BY <2>2, <2>3
  <1>8. QED
    BY <1>6, <1>7

\* As long as statements succeed, a worker with handlers leaves a job locked that
\* nobody executes only if it is released in the middle of GetJob, and no more
\* than one for each Run.
THEOREM ReleaseDropsOneJob == Spec => []ReleaseDropsOne
  <1>1. Init => DropInv
    <2>1. ASSUME Init PROVE DropInv
      <3>1. Abandoned = {} /\ runs = 0 /\ loop = "idle"
        BY <2>1 DEF Init, Abandoned
      <3>2. QED
        BY <3>1, FS_EmptySet DEF DropInv, Released, DroppedInv, MayDrop
    <2>2. QED
      BY <2>1
  <1>2. CoreInv /\ DropInv /\ [Next]_loopVars => DropInv'
    BY ReleasedStep, DroppedStep DEF DropInv
  <1>3. CoreInv /\ DropInv => ReleaseDropsOne
    <2>1. SUFFICES ASSUME DroppedInv, tasks, "statement" \notin causes
                   PROVE  Cardinality(Abandoned) <=
                            IF continuous /\ "release" \in causes THEN runs ELSE 0
      BY DEF DropInv, ReleaseDropsOne
    <2>2. CASE continuous /\ "release" \in causes
      BY <2>1, <2>2 DEF DroppedInv
    <2>3. CASE ~(continuous /\ "release" \in causes)
      <3>1. Abandoned = {}
        BY <2>1, <2>3 DEF DroppedInv
      <3>2. Cardinality(Abandoned) = 0
        BY <3>1, FS_EmptySet
      <3>3. QED
        BY <2>3, <3>2
    <2>4. QED
      BY <2>2, <2>3
  <1>4. QED
    BY CoreInvariance, <1>1, <1>2, <1>3, PTL DEF Spec

-------------------------------------------------------------------------------
\* The loop keeps the lease of JobLease.

LockedJobs == {j \in Jobs : jobs[j] = "locked"}
LeaseStep == [Lease!Next]_(Lease!leaseVars)

LEMMA LeaseKept ==
  LockedJobs' = LockedJobs /\ held' = held => LeaseStep
  BY DEF LeaseStep, Lease!leaseVars, LockedJobs

LEMMA LeaseLocks ==
  ASSUME RowsInv, NEW j \in Jobs, Lock(j), held = {}, held' = {j} \/ held' = {}
  PROVE  LeaseStep
  <1>1. jobs[j] = "ready" /\ jobs' = [jobs EXCEPT ![j] = "locked"]
    BY DEF Lock
  <1>2. j \notin LockedJobs /\ LockedJobs' = LockedJobs \cup {j}
    BY <1>1 DEF LockedJobs, RowsInv
  <1>3. Lease!Lock(j)
    BY <1>2 DEF Lease!Lock, LockedJobs
  <1>4. Lease!Take("worker", j) \/ Lease!TakeUnanswered(j)
    BY <1>3 DEF Lease!Take, Lease!TakeUnanswered
  <1>5. QED
    BY <1>4 DEF LeaseStep, Lease!Next

LEMMA LeaseLetGo ==
  ASSUME RowsInv, loop \in Holding, held' = {}, jobs' \in {jobs, Completed, Failed}
  PROVE  LeaseStep
  <1>1. held # {}
    BY DEF RowsInv
  <1>2. LockedJobs' \in {LockedJobs, LockedJobs \ held}
    <2>1. CASE jobs' = jobs
      BY <2>1 DEF LockedJobs
    <2>2. CASE jobs' = Completed
      BY <2>2 DEF LockedJobs, Completed
    <2>3. CASE jobs' = Failed
      BY <2>3 DEF LockedJobs, Failed
    <2>4. QED
      BY <2>1, <2>2, <2>3
  <1>3. Lease!LetGo("worker")
    BY <1>1, <1>2 DEF Lease!LetGo, LockedJobs
  <1>4. QED
    BY <1>3 DEF LeaseStep, Lease!Next

LEMMA LoopLease ==
  ASSUME CoreInv, [Next]_loopVars
  PROVE  LeaseStep
  <1> RowsInv
    BY DEF CoreInv
  <1>1. ASSUME NEW j \in Jobs, GetJob(j) PROVE LeaseStep
    <2>1. loop \notin Holding
      BY <1>1 DEF GetJob, Go, Holding
    <2>2. held = {}
      BY <2>1 DEF RowsInv
    <2>3. QED
      BY <1>1, <2>2, LeaseLocks DEF GetJob
  <1>2. CASE GetError
    <2>1. held' = held /\ loop \notin Holding
      BY <1>2 DEF GetError, Holding
    <2>2. held = {}
      BY <2>1 DEF RowsInv
    <2>3. CASE jobs' = jobs
      BY <2>1, <2>3, LeaseKept DEF LockedJobs
    <2>4. ASSUME NEW j \in Jobs, Lock(j) PROVE LeaseStep
      BY <2>1, <2>2, <2>4, LeaseLocks
    <2>5. QED
      BY <1>2, <2>3, <2>4 DEF GetError
  <1>3. CASE Finishes
    <2>1. jobs' \in {jobs, Completed, Failed} /\ held' = {} /\ loop \in Holding
      BY <1>3 DEF Finishes, CompleteJob, FailJob, FinishError, Holding
    <2>2. QED
      BY <2>1, LeaseLetGo
  <1>4. CASE LetsGo
    <2>1. jobs' = jobs /\ held' = {} /\ loop \in Holding
      BY <1>4 DEF LetsGo, DropJob, NoHandler, Go, Holding
    <2>2. QED
      BY <2>1, LeaseLetGo
  <1>5. ASSUME NEW j \in Jobs, JobDue(j) PROVE LeaseStep
    <2>1. jobs[j] = "waiting" /\ jobs' = [jobs EXCEPT ![j] = "ready"] /\ held' = held
      BY <1>5 DEF JobDue
    <2>2. LockedJobs' = LockedJobs
      BY <2>1 DEF LockedJobs, RowsInv
    <2>3. QED
      BY <2>1, <2>2, LeaseKept
  <1>6. CASE UNCHANGED rows
    BY <1>6, LeaseKept DEF rows, LockedJobs
  <1>7. QED
    BY <1>1, <1>2, <1>3, <1>4, <1>5, <1>6, RowsKept DEF Fetches

\* Whenever Release, a cancelled context or a failing statement meets the loop,
\* the worker works only on the job it has locked, one at a time, and gives back
\* no lock but its own.
THEOREM LoopKeepsLease == Spec => LeaseSpec
  <1>1. Init => Lease!Init
    BY DEF Init, Lease!Init
  <1>2. CoreInv /\ [Next]_loopVars => LeaseStep
    BY LoopLease
  <1>3. QED
    BY <1>1, <1>2, CoreInvariance, PTL DEF Spec, LeaseSpec, LeaseStep, Lease!Spec
===============================================================================
