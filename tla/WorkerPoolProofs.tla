--------------------------- MODULE WorkerPoolProofs ---------------------------
(***************************************************************************)
(* Proofs about WorkerPool: a shutdown that has not timed out leaves no    *)
(* worker running, the loops themselves leave no job locked behind, a      *)
(* worker that executes has one job, which no other worker has, the pool   *)
(* implements JobLease, and no panic goes unnoticed.                       *)
(***************************************************************************)
EXTENDS WorkerPool, FiniteSetTheorems, TLAPS

USE PoolBounds

States == {"waiting", "checking", "fetching", "executing", "finishing", "stopped"}

\* The part of the types the proofs need: a worker that executes no job holds
\* none.
Causes == ctxDone \/ ~tasks \/ faults \cap {"panic", "fetch", "finish"} # {}
WorkersTyped ==
  /\ worker \in [Workers -> States]
  /\ holds \in [Workers -> SUBSET Jobs]
  /\ jobs \in [Jobs -> {"ready", "locked", "finished"}]
  /\ \A w \in Workers : w \notin Executing => holds[w] = {}

\* A locked job is held by a worker, unless there is a cause.
HeldOrCaused == Causes \/ \A j \in Jobs : ~Leaked(j)

\* The shutdown passes its wait only when it times out or all have stopped.
StoppedForGood ==
  shutdown \in {"workers done", "complete"} /\ ~timedOut
    => \A w \in Workers : worker[w] = "stopped"

PoolInv == WorkersTyped /\ HeldOrCaused /\ StoppedForGood

(***************************************************************************)
(* Steps that leave the workers and their jobs alone.                      *)
(***************************************************************************)
LEMMA OthersKeep ==
  ASSUME PoolInv,
         \/ ListenerStep \/ NudgeWorker \/ CoordinatorStop \/ TakeError \/ MonitorStop
         \/ Release \/ ParentCancel \/ ShutdownStep \/ UNCHANGED poolVars
  PROVE  PoolInv'
<1>1. UNCHANGED goroutines /\ (ctxDone => ctxDone') /\ faults \subseteq faults' /\ tasks' = tasks
  <2>1. CASE ListenerStep
    <3>1. UNCHANGED <<goroutines, stopping, faults, tasks>>
      BY <2>1 DEF ListenerStep, Notify, ListenError, Reconnect, Connected, ConnectError,
                  ListenerStop
    <3>. QED  BY <3>1 DEF stopping
  <2>2. CASE NudgeWorker \/ CoordinatorStop
    BY <2>2 DEF NudgeWorker, CoordinatorStop, stopping
  <2>3. CASE TakeError \/ MonitorStop
    BY <2>3 DEF TakeError, MonitorStop, stopping
  <2>4. CASE Release \/ ParentCancel
    BY <2>4 DEF Release, ParentCancel
  <2>5. CASE ShutdownStep
    <3>1. UNCHANGED <<goroutines, faults, tasks>>
      BY <2>5 DEF ShutdownStep, BeginShutdown, WorkersDone, GiveUp, Complete, Shutdown
    <3>2. ctxDone => ctxDone'
      BY <2>5 DEF ShutdownStep, BeginShutdown, WorkersDone, GiveUp, Complete
    <3>. QED  BY <3>1, <3>2
  <2>6. CASE UNCHANGED poolVars
    BY <2>6 DEF poolVars, stopping
  <2>. QED  BY <2>1, <2>2, <2>3, <2>4, <2>5, <2>6
<1>2. WorkersTyped' /\ HeldOrCaused'
  BY <1>1 DEF goroutines, PoolInv, WorkersTyped, HeldOrCaused, Causes, Leaked, Executing
<1>3. StoppedForGood'
  <2>1. CASE ShutdownStep
    BY <2>1, <1>1 DEF ShutdownStep, BeginShutdown, WorkersDone, GiveUp, Complete, Shutdown,
                      AllDone, goroutines, PoolInv, StoppedForGood
  <2>2. CASE UNCHANGED <<shutdown, timedOut>>
    BY <2>2, <1>1 DEF goroutines, PoolInv, StoppedForGood
  <2>. QED
    BY <2>1, <2>2 DEF ListenerStep, Notify, ListenError, Reconnect, Connected, ConnectError,
           ListenerStop, NudgeWorker, CoordinatorStop, TakeError, MonitorStop, Release,
           ParentCancel, stopping, poolVars
<1>. QED  BY <1>2, <1>3 DEF PoolInv

(***************************************************************************)
(* The steps of a worker.                                                  *)
(***************************************************************************)
\* What a worker that changes its own state, job and row has to respect.
LEMMA TypesKept ==
  ASSUME WorkersTyped, NEW w \in Workers, NEW to \in States, NEW H \in SUBSET Jobs,
         worker' = [worker EXCEPT ![w] = to],
         holds' = [holds EXCEPT ![w] = H],
         H # {} => to \in {"executing", "finishing"},
         jobs' \in [Jobs -> {"ready", "locked", "finished"}]
  PROVE  WorkersTyped'
<1>1. worker' \in [Workers -> States] /\ holds' \in [Workers -> SUBSET Jobs]
  BY DEF WorkersTyped
<1>2. ASSUME NEW v \in Workers, v \notin Executing' PROVE holds'[v] = {}
  <2>1. CASE v = w
    BY <1>2, <2>1 DEF WorkersTyped, Executing
  <2>2. CASE v # w
    BY <1>2, <2>2 DEF WorkersTyped, Executing
  <2>. QED  BY <2>1, <2>2
<1>. QED  BY <1>1, <1>2 DEF WorkersTyped

\* A worker that has stopped takes no step.
LEMMA StoppedStay ==
  ASSUME PoolInv, NEW w \in Workers, WorkerStep(w)
  PROVE  StoppedForGood'
<1>1. worker[w] # "stopped" /\ UNCHANGED <<shutdown, timedOut>>
  BY DEF WorkerStep, Poll, Stop, CallGetJob, Fetch, NoHandler, FetchNothing, FetchError, Return, Panic,
         Finish, FinishError, Go, stopping
<1>. QED  BY <1>1 DEF PoolInv, StoppedForGood

\* Between jobs a worker holds nothing, before and after.
LEMMA IdleKeeps ==
  ASSUME PoolInv, NEW w \in Workers,
         Poll(w) \/ Stop(w) \/ CallGetJob(w) \/ FetchNothing(w) \/ Return(w)
  PROVE  WorkersTyped' /\ HeldOrCaused'
<1>1. UNCHANGED <<holds, jobs, ctxDone, faults, tasks>>
  BY DEF Poll, Stop, CallGetJob, FetchNothing, Return, Go, stopping
<1>2. PICK to \in States : worker' = [worker EXCEPT ![w] = to]
  BY DEF Poll, Stop, CallGetJob, FetchNothing, Return, Go, States
<1>3. worker[w] \in {"executing", "finishing"} => worker'[w] = "finishing"
  BY DEF Poll, Stop, CallGetJob, FetchNothing, Return, Go, PoolInv, WorkersTyped
<1>4. Executing \subseteq Executing'
  BY <1>2, <1>3 DEF PoolInv, WorkersTyped, Executing
<1>5. worker' \in [Workers -> States]
  BY <1>2 DEF PoolInv, WorkersTyped
<1>. QED
  BY <1>1, <1>4, <1>5 DEF PoolInv, WorkersTyped, HeldOrCaused, Causes, Leaked

\* A fetched job is held, and the worker held none it could forget.
LEMMA FetchKeeps ==
  ASSUME PoolInv, NEW w \in Workers, NEW j \in Jobs, Fetch(w, j)
  PROVE  WorkersTyped' /\ HeldOrCaused'
<1>1. /\ worker[w] = "fetching" /\ worker' = [worker EXCEPT ![w] = "executing"]
      /\ holds' = [holds EXCEPT ![w] = {j}]
      /\ jobs' = [jobs EXCEPT ![j] = "locked"]
      /\ UNCHANGED <<ctxDone, faults, tasks>>
  BY DEF Fetch, Go, stopping
<1>2. holds[w] = {}
  BY <1>1 DEF PoolInv, WorkersTyped, Executing
<1>3. WorkersTyped'
  <2>1. jobs' \in [Jobs -> {"ready", "locked", "finished"}]
    BY <1>1 DEF PoolInv, WorkersTyped
  <2>2. {j} \in SUBSET Jobs /\ "executing" \in States /\ "executing" \in {"executing", "finishing"}
    BY DEF States
  <2>. QED  BY <1>1, <2>1, <2>2, TypesKept DEF PoolInv
<1>4. HeldOrCaused'
  <2>. SUFFICES ASSUME ~Causes', NEW i \in Jobs, Leaked(i)' PROVE FALSE
    BY DEF HeldOrCaused
  <2>1. j \in holds'[w]
    BY <1>1 DEF PoolInv, WorkersTyped
  <2>2. i # j
    BY <2>1 DEF Leaked
  <2>3. jobs[i] = "locked" /\ \A v \in Workers : i \notin holds[v]
    BY <1>1, <1>2, <2>2 DEF Leaked, PoolInv, WorkersTyped
  <2>. QED  BY <1>1, <2>3 DEF PoolInv, HeldOrCaused, Causes, Leaked
<1>. QED  BY <1>3, <1>4

\* A pool without tasks locks rows for nobody, which is one of the causes.
LEMMA NoHandlerKeeps ==
  ASSUME PoolInv, NEW w \in Workers, NEW j \in Jobs, NoHandler(w, j)
  PROVE  WorkersTyped' /\ HeldOrCaused'
<1>1. /\ worker[w] = "fetching" /\ worker' = [worker EXCEPT ![w] = "checking"]
      /\ holds' = holds /\ jobs' = [jobs EXCEPT ![j] = "locked"] /\ ~tasks'
  BY DEF NoHandler, Go
<1>2. holds' = [holds EXCEPT ![w] = {}]
  BY <1>1 DEF PoolInv, WorkersTyped, Executing
<1>3. WorkersTyped'
  <2>1. jobs' \in [Jobs -> {"ready", "locked", "finished"}]
    BY <1>1 DEF PoolInv, WorkersTyped
  <2>2. {} \in SUBSET Jobs /\ "checking" \in States
    BY DEF States
  <2>. QED  BY <1>1, <1>2, <2>1, <2>2, TypesKept DEF PoolInv
<1>. QED  BY <1>1, <1>3 DEF HeldOrCaused, Causes

\* The row of a job that is let go has been finished.
LEMMA FinishKeeps ==
  ASSUME PoolInv, NEW w \in Workers, Finish(w)
  PROVE  WorkersTyped' /\ HeldOrCaused'
<1>1. /\ worker' = [worker EXCEPT ![w] = "checking"]
      /\ holds' = [holds EXCEPT ![w] = {}]
      /\ jobs' = [j \in Jobs |-> IF j \in holds[w] THEN "finished" ELSE jobs[j]]
      /\ UNCHANGED <<ctxDone, faults, tasks>>
  BY DEF Finish, Finished, Go, stopping
<1>2. WorkersTyped'
  <2>1. jobs' \in [Jobs -> {"ready", "locked", "finished"}]
    BY <1>1 DEF PoolInv, WorkersTyped
  <2>2. {} \in SUBSET Jobs /\ "checking" \in States
    BY DEF States
  <2>. QED  BY <1>1, <2>1, <2>2, TypesKept DEF PoolInv
<1>3. ASSUME NEW j \in Jobs, Leaked(j)' PROVE Leaked(j)
  BY <1>1, <1>3 DEF Leaked, PoolInv, WorkersTyped
<1>4. HeldOrCaused'
  BY <1>1, <1>3 DEF PoolInv, HeldOrCaused, Causes
<1>. QED  BY <1>2, <1>4

\* Every other way to let a job go has one of the causes.
LEMMA FaultKeeps ==
  ASSUME PoolInv, NEW w \in Workers, FetchError(w) \/ Panic(w) \/ FinishError(w)
  PROVE  WorkersTyped' /\ HeldOrCaused'
<1>1. Causes'
  BY DEF FetchError, Panic, FinishError, Causes, stopping
<1>2. PICK to \in {"stopped", "checking"} : worker' = [worker EXCEPT ![w] = to]
  BY DEF FetchError, Panic, FinishError, Go
<1>3. holds' = [holds EXCEPT ![w] = {}]
  <2>1. CASE FetchError(w)
    <3>1. holds[w] = {} /\ holds' = holds
      BY <2>1 DEF FetchError, Go, PoolInv, WorkersTyped, Executing
    <3>. QED  BY <3>1 DEF PoolInv, WorkersTyped
  <2>. QED  BY <2>1 DEF Panic, FinishError
<1>4. jobs' \in [Jobs -> {"ready", "locked", "finished"}]
  <2>1. jobs \in [Jobs -> {"ready", "locked", "finished"}]
    BY DEF PoolInv, WorkersTyped
  <2>2. CASE FetchError(w)
    <3>1. jobs' = jobs \/ \E j \in Jobs : jobs' = [jobs EXCEPT ![j] = "locked"]
      BY <2>2, Zenon DEF FetchError
    <3>. QED  BY <2>1, <3>1
  <2>3. CASE Panic(w) \/ FinishError(w)
    <3>1. jobs' = jobs \/ jobs' = Finished(w)
      BY <2>3 DEF Panic, FinishError
    <3>. QED  BY <2>1, <3>1 DEF Finished
  <2>. QED  BY <2>2, <2>3
<1>5. WorkersTyped'
  <2>1. WorkersTyped /\ to \in States /\ {} \in SUBSET Jobs
    BY DEF PoolInv, States
  <2>. QED  BY <1>2, <1>3, <1>4, <2>1, TypesKept
<1>. QED  BY <1>1, <1>5 DEF HeldOrCaused

(***************************************************************************)
(* The theorems.                                                           *)
(***************************************************************************)
LEMMA PoolInvHolds == Spec => []PoolInv
<1>1. Init => PoolInv
  <2>. SUFFICES ASSUME Init PROVE PoolInv
    OBVIOUS
  <2>1. WorkersTyped
    BY DEF Init, WorkersTyped, States
  <2>2. HeldOrCaused
    BY DEF Init, HeldOrCaused, Leaked
  <2>3. StoppedForGood
    BY DEF Init, StoppedForGood
  <2>. QED  BY <2>1, <2>2, <2>3 DEF PoolInv
<1>2. PoolInv /\ [Next]_poolVars => PoolInv'
  <2>. SUFFICES ASSUME PoolInv, [Next]_poolVars PROVE PoolInv'
    OBVIOUS
  <2>1. ASSUME NEW w \in Workers, WorkerStep(w) PROVE PoolInv'
    BY <2>1, StoppedStay, IdleKeeps, FetchKeeps, NoHandlerKeeps, FinishKeeps, FaultKeeps DEF WorkerStep, PoolInv
  <2>. QED  BY <2>1, OthersKeep DEF Next
<1>. QED  BY <1>1, <1>2, PTL DEF Spec

\* For every number of workers and jobs and every fault: when a shutdown that
\* has not timed out is complete, no handler runs and none will be started.
THEOREM ShutdownIsQuiet == Spec => []QuietWhenComplete
<1>1. PoolInv => QuietWhenComplete
  BY DEF PoolInv, StoppedForGood, QuietWhenComplete
<1>. QED  BY <1>1, PoolInvHolds, PTL

\* The loops let go of a locked job only through a panic, an error of a
\* statement, a cancelled context or an empty map of tasks.
THEOREM LeaksAreCaused == Spec => []LeaksHaveCauses
<1>1. PoolInv => LeaksHaveCauses
  BY DEF PoolInv, HeldOrCaused, Causes, LeaksHaveCauses
<1>. QED  BY <1>1, PoolInvHolds, PTL

(***************************************************************************)
(* Types: who holds which job, and the rest of the state.                  *)
(***************************************************************************)
HoldsOne == \A w \in Executing : \E j \in Jobs : holds[w] = {j}

HoldsAlone ==
  \A w \in Workers : \A j \in holds[w] :
    jobs[j] = "locked" /\ \A v \in Workers \ {w} : j \notin holds[v]

HoldsInv == WorkersTyped /\ HoldsOne /\ HoldsAlone

ControlTypes ==
  /\ nudged \subseteq Workers /\ nudges \in 0 .. NudgeCap /\ notices \in 0 .. MaxNotices
  /\ coordinator \in BOOLEAN /\ monitor \in BOOLEAN /\ critical \in BOOLEAN
  /\ listener \in {"listening", "backoff", "connecting", "stopped"}
  /\ reconnects \in 0 .. MaxReconnects /\ errors \in 0 .. ErrorCap
  /\ ctxDone \in BOOLEAN /\ asked \in BOOLEAN /\ timedOut \in BOOLEAN
  /\ shutdown \in {"no", "waiting", "workers done", "complete"}
  /\ faults \subseteq FaultKinds /\ tasks \in BOOLEAN

\* A worker changes its own state and set of jobs, and takes no lock off the job
\* of another.
OwnJob(w, to, H) ==
  /\ worker' = [worker EXCEPT ![w] = to] /\ holds' = [holds EXCEPT ![w] = H]
  /\ jobs' \in [Jobs -> {"ready", "locked", "finished"}]
  /\ \A v \in Workers \ {w} : \A j \in holds[v] : jobs'[j] = "locked"

\* A worker that goes idle holds no job.
LEMMA IdleHolds ==
  ASSUME HoldsInv, NEW w \in Workers,
         NEW to \in {"waiting", "checking", "fetching", "stopped"}, OwnJob(w, to, {})
  PROVE  HoldsInv'
<1>1. /\ worker'[w] = to /\ holds'[w] = {}
      /\ \A v \in Workers \ {w} : worker'[v] = worker[v] /\ holds'[v] = holds[v]
  BY DEF HoldsInv, WorkersTyped, OwnJob
<1>2. WorkersTyped'
  BY <1>1 DEF HoldsInv, WorkersTyped, OwnJob, States, Executing
<1>3. HoldsOne'
  BY <1>1 DEF HoldsInv, HoldsOne, Executing
<1>4. HoldsAlone'
  BY <1>1 DEF HoldsInv, HoldsAlone, OwnJob
<1>. QED  BY <1>2, <1>3, <1>4 DEF HoldsInv

\* A worker that executes holds one locked job, which it alone has.
LEMMA BusyHolds ==
  ASSUME HoldsInv, NEW w \in Workers, NEW to \in {"executing", "finishing"},
         NEW j \in Jobs, OwnJob(w, to, {j}),
         jobs'[j] = "locked", \A v \in Workers \ {w} : j \notin holds[v]
  PROVE  HoldsInv'
<1>1. /\ worker'[w] = to /\ holds'[w] = {j}
      /\ \A v \in Workers \ {w} : worker'[v] = worker[v] /\ holds'[v] = holds[v]
  BY DEF HoldsInv, WorkersTyped, OwnJob
<1>2. WorkersTyped'
  BY <1>1 DEF HoldsInv, WorkersTyped, OwnJob, States, Executing
<1>3. HoldsOne'
  BY <1>1 DEF HoldsInv, HoldsOne, Executing
<1>4. HoldsAlone'
  BY <1>1 DEF HoldsInv, HoldsAlone, OwnJob
<1>. QED  BY <1>2, <1>3, <1>4 DEF HoldsInv

LEMMA WorkerStepHolds ==
  ASSUME HoldsInv, NEW w \in Workers, WorkerStep(w)
  PROVE  HoldsInv'
<1>1. /\ worker \in [Workers -> States] /\ holds \in [Workers -> SUBSET Jobs]
      /\ jobs \in [Jobs -> {"ready", "locked", "finished"}]
      /\ w \notin Executing => holds[w] = {}
      /\ holds = [holds EXCEPT ![w] = holds[w]]
      /\ \A j \in holds[w] : jobs[j] = "locked" /\ \A v \in Workers \ {w} : j \notin holds[v]
      /\ \A v \in Workers \ {w} : \A j \in holds[v] :
           jobs[j] = "locked" /\ j \notin holds[w] /\ j \in Jobs
  BY DEF HoldsInv, WorkersTyped, HoldsAlone
<1>2. CASE Poll(w) \/ Stop(w) \/ CallGetJob(w) \/ FetchNothing(w)
  <2>1. PICK to \in {"waiting", "checking", "fetching", "stopped"} :
          worker' = [worker EXCEPT ![w] = to]
    BY <1>2 DEF Poll, Stop, CallGetJob, FetchNothing, Go
  <2>2. holds[w] = {} /\ UNCHANGED <<holds, jobs>>
    BY <1>1, <1>2 DEF Poll, Stop, CallGetJob, FetchNothing, Go, Executing
  <2>3. OwnJob(w, to, {})
    BY <1>1, <2>1, <2>2 DEF OwnJob
  <2>. QED  BY <2>3, IdleHolds
<1>3. CASE Return(w)
  <2>1. /\ worker[w] = "executing" /\ worker' = [worker EXCEPT ![w] = "finishing"]
        /\ UNCHANGED <<holds, jobs>>
    BY <1>3 DEF Return, Go
  <2>2. PICK j \in Jobs : holds[w] = {j}
    BY <2>1 DEF HoldsInv, HoldsOne, Executing
  <2>3. OwnJob(w, "finishing", {j})
    BY <1>1, <2>1, <2>2 DEF OwnJob
  <2>4. jobs'[j] = "locked" /\ \A v \in Workers \ {w} : j \notin holds[v]
    BY <1>1, <2>1, <2>2
  <2>. QED  BY <2>3, <2>4, BusyHolds
<1>4. ASSUME NEW j \in Jobs, Fetch(w, j) PROVE HoldsInv'
  <2>1. /\ worker' = [worker EXCEPT ![w] = "executing"] /\ holds' = [holds EXCEPT ![w] = {j}]
        /\ jobs[j] = "ready" /\ jobs' = [jobs EXCEPT ![j] = "locked"]
    BY <1>4 DEF Fetch, Go
  <2>2. \A v \in Workers \ {w} : j \notin holds[v]
    BY <1>1, <2>1
  <2>3. OwnJob(w, "executing", {j}) /\ jobs'[j] = "locked"
    BY <1>1, <2>1 DEF OwnJob
  <2>. QED  BY <2>2, <2>3, BusyHolds
<1>5. CASE FetchError(w)
  <2>1. /\ worker' = [worker EXCEPT ![w] = "stopped"] /\ holds[w] = {} /\ UNCHANGED holds
        /\ \/ UNCHANGED jobs
           \/ \E j \in Jobs : jobs[j] = "ready" /\ jobs' = [jobs EXCEPT ![j] = "locked"]
    BY <1>1, <1>5 DEF FetchError, Go, Executing
  <2>2. OwnJob(w, "stopped", {})
    BY <1>1, <2>1 DEF OwnJob
  <2>. QED  BY <2>2, IdleHolds
<1>6. CASE Panic(w) \/ FinishError(w)
  <2>1. PICK to \in {"stopped", "checking"} : worker' = [worker EXCEPT ![w] = to]
    BY <1>6 DEF Panic, FinishError, Go
  <2>2. holds' = [holds EXCEPT ![w] = {}] /\ (jobs' = jobs \/ jobs' = Finished(w))
    BY <1>6 DEF Panic, FinishError
  <2>3. OwnJob(w, to, {})
    BY <1>1, <2>1, <2>2 DEF OwnJob, Finished
  <2>. QED  BY <2>3, IdleHolds
<1>7. CASE Finish(w)
  <2>1. /\ worker' = [worker EXCEPT ![w] = "checking"] /\ holds' = [holds EXCEPT ![w] = {}]
        /\ jobs' = [j \in Jobs |-> IF j \in holds[w] THEN "finished" ELSE jobs[j]]
    BY <1>7 DEF Finish, Finished, Go
  <2>2. OwnJob(w, "checking", {})
    BY <1>1, <2>1 DEF OwnJob
  <2>. QED  BY <2>2, IdleHolds
<1>8. ASSUME NEW j \in Jobs, NoHandler(w, j) PROVE HoldsInv'
  <2>1. /\ worker[w] = "fetching" /\ worker' = [worker EXCEPT ![w] = "checking"]
        /\ holds' = holds /\ jobs' = [jobs EXCEPT ![j] = "locked"]
    BY <1>8 DEF NoHandler, Go
  <2>2. holds[w] = {}
    BY <1>1, <2>1 DEF Executing
  <2>3. OwnJob(w, "checking", {})
    BY <1>1, <2>1, <2>2 DEF OwnJob
  <2>. QED  BY <2>3, IdleHolds
<1>. QED  BY <1>2, <1>3, <1>4, <1>5, <1>6, <1>7, <1>8 DEF WorkerStep

\* A counter that has room for one more, or that is not empty, keeps its bounds.
LEMMA Counters ==
  ASSUME ControlTypes
  PROVE  /\ errors \in 0 .. ErrorCap /\ (errors < ErrorCap => errors + 1 \in 0 .. ErrorCap)
         /\ errors > 0 => errors - 1 \in 0 .. ErrorCap
         /\ nudges \in 0 .. NudgeCap /\ (nudges < NudgeCap => nudges + 1 \in 0 .. NudgeCap)
         /\ nudges > 0 => nudges - 1 \in 0 .. NudgeCap
         /\ notices \in 0 .. MaxNotices
         /\ notices < MaxNotices => notices + 1 \in 0 .. MaxNotices
         /\ reconnects \in 0 .. MaxReconnects
         /\ reconnects < MaxReconnects => reconnects + 1 \in 0 .. MaxReconnects
<1>1. /\ errors \in 0 .. ErrorCap /\ nudges \in 0 .. NudgeCap
      /\ notices \in 0 .. MaxNotices /\ reconnects \in 0 .. MaxReconnects
  BY DEF ControlTypes
<1>2. \A c \in Nat : \A n \in 0 .. c :
        /\ n < c => n + 1 \in 0 .. c
        /\ n > 0 => n - 1 \in 0 .. c
  OBVIOUS
<1>. QED  BY <1>1, <1>2

LEMMA WorkerStepControl ==
  ASSUME ControlTypes, NEW w \in Workers, WorkerStep(w)
  PROVE  ControlTypes'
<1>1. CASE FetchError(w) \/ Panic(w) \/ FinishError(w)
  <2>1. faults' \subseteq FaultKinds
    BY <1>1 DEF FetchError, Panic, FinishError, ControlTypes, FaultKinds
  <2>2. errors' \in 0 .. ErrorCap
    <3>1. errors' = errors \/ (errors < ErrorCap /\ errors' = errors + 1)
      BY <1>1 DEF FetchError, Panic, FinishError, monitoring
    <3>. QED  BY <3>1, Counters
  <2>3. UNCHANGED <<nudging, listening, monitor, critical, stopping, tasks>>
    BY <1>1 DEF FetchError, Panic, FinishError, monitoring
  <2>. QED  BY <2>1, <2>2, <2>3 DEF ControlTypes, nudging, listening, stopping
<1>2. CASE ~(FetchError(w) \/ Panic(w) \/ FinishError(w))
  <2>1. UNCHANGED <<nudging, listening, monitoring, stopping, faults, tasks>>
    BY <1>2 DEF WorkerStep, Poll, Stop, CallGetJob, Fetch, NoHandler, FetchNothing, Return, Finish
  <2>. QED  BY <2>1 DEF ControlTypes, nudging, listening, monitoring, stopping
<1>. QED  BY <1>1, <1>2

LEMMA OthersControl ==
  ASSUME ControlTypes,
         \/ ListenerStep \/ NudgeWorker \/ CoordinatorStop \/ TakeError \/ MonitorStop
         \/ Release \/ ParentCancel \/ ShutdownStep
  PROVE  ControlTypes' /\ UNCHANGED goroutines
<1>1. CASE Notify \/ NudgeWorker \/ CoordinatorStop
  <2>1. nudges' \in 0 .. NudgeCap /\ notices' \in 0 .. MaxNotices
    <3>1. /\ \/ nudges' = nudges
             \/ nudges < NudgeCap /\ nudges' = nudges + 1
             \/ nudges > 0 /\ nudges' = nudges - 1
          /\ notices' = notices \/ (notices < MaxNotices /\ notices' = notices + 1)
      BY <1>1 DEF Notify, NudgeWorker, CoordinatorStop
    <3>. QED  BY <3>1, Counters
  <2>2. nudged' \subseteq Workers /\ coordinator' \in BOOLEAN
    BY <1>1 DEF Notify, NudgeWorker, CoordinatorStop, ControlTypes
  <2>3. UNCHANGED <<goroutines, listening, monitoring, stopping, faults, tasks>>
    BY <1>1 DEF Notify, NudgeWorker, CoordinatorStop
  <2>. QED  BY <2>1, <2>2, <2>3 DEF ControlTypes, listening, monitoring, stopping
<1>2. CASE ListenError \/ Reconnect \/ Connected \/ ConnectError \/ ListenerStop
  <2>1. reconnects' \in 0 .. MaxReconnects
    <3>1. reconnects' = reconnects
            \/ (reconnects < MaxReconnects /\ reconnects' = reconnects + 1)
      BY <1>2 DEF ListenError, Reconnect, Connected, ConnectError, ListenerStop
    <3>. QED  BY <3>1, Counters
  <2>2. listener' \in {"listening", "backoff", "connecting", "stopped"}
    BY <1>2 DEF ListenError, Reconnect, Connected, ConnectError, ListenerStop
  <2>3. UNCHANGED <<goroutines, nudging, monitoring, stopping, faults, tasks>>
    BY <1>2 DEF ListenError, Reconnect, Connected, ConnectError, ListenerStop
  <2>. QED  BY <2>1, <2>2, <2>3 DEF ControlTypes, nudging, monitoring, stopping
<1>3. CASE TakeError \/ MonitorStop
  <2>1. errors' \in 0 .. ErrorCap
    <3>1. errors' = errors \/ (errors > 0 /\ errors' = errors - 1)
      BY <1>3 DEF TakeError, MonitorStop
    <3>. QED  BY <3>1, Counters
  <2>2. monitor' \in BOOLEAN /\ critical' \in BOOLEAN /\ asked' \in BOOLEAN
    BY <1>3 DEF TakeError, MonitorStop, stopping, ControlTypes
  <2>3. UNCHANGED <<ctxDone, shutdown, timedOut, goroutines, nudging, listening, faults, tasks>>
    BY <1>3 DEF TakeError, MonitorStop, stopping
  <2>. QED  BY <2>1, <2>2, <2>3 DEF ControlTypes, nudging, listening
<1>4. CASE Release \/ ParentCancel
  <2>1. faults' \subseteq FaultKinds /\ ctxDone' \in BOOLEAN /\ asked' \in BOOLEAN
    BY <1>4 DEF Release, ParentCancel, ControlTypes, FaultKinds
  <2>2. UNCHANGED <<shutdown, timedOut, goroutines, nudging, listening, monitoring, tasks>>
    BY <1>4 DEF Release, ParentCancel
  <2>. QED  BY <2>1, <2>2 DEF ControlTypes, nudging, listening, monitoring
<1>5. CASE ShutdownStep
  <2>1. /\ shutdown' \in {"no", "waiting", "workers done", "complete"}
        /\ ctxDone' \in BOOLEAN /\ timedOut' \in BOOLEAN
    BY <1>5 DEF ShutdownStep, BeginShutdown, WorkersDone, GiveUp, Complete, Shutdown,
                ControlTypes
  <2>2. UNCHANGED <<asked, goroutines, nudging, listening, monitoring, faults, tasks>>
    BY <1>5 DEF ShutdownStep, BeginShutdown, WorkersDone, GiveUp, Complete, Shutdown
  <2>. QED  BY <2>1, <2>2 DEF ControlTypes, nudging, listening, monitoring
<1>. QED  BY <1>1, <1>2, <1>3, <1>4, <1>5 DEF ListenerStep

LEMMA HoldsInvHolds == Spec => [](HoldsInv /\ ControlTypes)
<1>1. Init => HoldsInv /\ ControlTypes
  <2>. SUFFICES ASSUME Init PROVE HoldsInv /\ ControlTypes
    OBVIOUS
  <2>1. HoldsInv
    BY DEF Init, HoldsInv, HoldsOne, HoldsAlone, WorkersTyped, States, Executing
  <2>2. 0 \in 0 .. NudgeCap /\ 0 \in 0 .. MaxNotices /\ 0 \in 0 .. MaxReconnects
        /\ 0 \in 0 .. ErrorCap
    OBVIOUS
  <2>3. ControlTypes
    BY <2>2 DEF Init, ControlTypes
  <2>. QED  BY <2>1, <2>3
<1>2. HoldsInv /\ ControlTypes /\ [Next]_poolVars => (HoldsInv /\ ControlTypes)'
  <2>. SUFFICES ASSUME HoldsInv, ControlTypes, [Next]_poolVars
                PROVE  HoldsInv' /\ ControlTypes'
    OBVIOUS
  <2>1. UNCHANGED goroutines => HoldsInv'
    BY DEF goroutines, HoldsInv, HoldsOne, HoldsAlone, WorkersTyped, Executing
  <2>2. CASE UNCHANGED poolVars
    <3>1. UNCHANGED <<goroutines, nudging, listening, monitoring, stopping, faults, tasks>>
      BY <2>2 DEF poolVars
    <3>2. ControlTypes'
      BY <3>1 DEF ControlTypes, nudging, listening, monitoring, stopping
    <3>. QED  BY <2>1, <3>1, <3>2
  <2>3. ASSUME NEW w \in Workers, WorkerStep(w) PROVE HoldsInv' /\ ControlTypes'
    BY <2>3, WorkerStepHolds, WorkerStepControl
  <2>. QED  BY <2>1, <2>2, <2>3, OthersControl DEF Next
<1>. QED  BY <1>1, <1>2, PTL DEF Spec

\* Every variable keeps its type; a worker that executes has one locked job, and
\* no other worker has it: worker_pool.go shares no job between its goroutines.
THEOREM PoolTypeCorrect == Spec => []TypeOK
<1>1. HoldsInv /\ ControlTypes => TypeOK
  <2>. SUFFICES ASSUME HoldsInv, ControlTypes PROVE TypeOK
    OBVIOUS
  <2>1. \A w \in Workers : Cardinality(holds[w]) = IF w \in Executing THEN 1 ELSE 0
    <3>. SUFFICES ASSUME NEW w \in Workers
                  PROVE  Cardinality(holds[w]) = IF w \in Executing THEN 1 ELSE 0
      OBVIOUS
    <3>1. CASE w \in Executing
      <4>1. PICK j \in Jobs : holds[w] = {j}
        BY <3>1 DEF HoldsInv, HoldsOne
      <4>2. Cardinality({j}) = 1
        BY FS_Singleton, Zenon
      <4>. QED  BY <3>1, <4>1, <4>2, Zenon
    <3>2. CASE w \notin Executing
      <4>1. holds[w] = {}
        BY <3>2 DEF HoldsInv, WorkersTyped
      <4>. QED  BY <3>2, <4>1, FS_EmptySet, Zenon
    <3>. QED  BY <3>1, <3>2
  <2>2. /\ worker \in [Workers -> States] /\ holds \in [Workers -> SUBSET Jobs]
        /\ jobs \in [Jobs -> {"ready", "locked", "finished"}]
        /\ HoldsAlone
    BY DEF HoldsInv, WorkersTyped
  <2>. QED  BY <2>1, <2>2 DEF ControlTypes, HoldsAlone, TypeOK, States
<1>. QED  BY <1>1, HoldsInvHolds, PTL

(***************************************************************************)
(* The pool keeps the lease of JobLease.                                   *)
(***************************************************************************)
LockedJobs == {j \in Jobs : jobs[j] = "locked"}
LeaseStep == [Lease!Next]_(Lease!leaseVars)

LEMMA LeaseLetGo ==
  ASSUME HoldsInv, NEW w \in Workers, worker[w] \in {"executing", "finishing"},
         holds' = [holds EXCEPT ![w] = {}], jobs' = jobs \/ jobs' = Finished(w)
  PROVE  LeaseStep
<1>1. PICK i \in Jobs : holds[w] = {i}
  BY DEF HoldsInv, HoldsOne, Executing
<1>2. LockedJobs' \in {LockedJobs, LockedJobs \ holds[w]}
  <2>1. CASE jobs' = jobs
    BY <2>1 DEF LockedJobs
  <2>2. CASE jobs' = Finished(w)
    BY <2>2 DEF LockedJobs, Finished
  <2>. QED  BY <2>1, <2>2
<1>3. Lease!LetGo(w)
  BY <1>1, <1>2 DEF Lease!LetGo, LockedJobs
<1>. QED  BY <1>3 DEF LeaseStep, Lease!Next

\* A row is locked, by a worker that learns of it or by one that does not.
LEMMA LeaseLocks ==
  ASSUME HoldsInv, NEW w \in Workers, NEW j \in Jobs, worker[w] = "fetching",
         jobs[j] = "ready", jobs' = [jobs EXCEPT ![j] = "locked"],
         holds' = [holds EXCEPT ![w] = {j}] \/ holds' = holds
  PROVE  LeaseStep
<1>1. j \notin LockedJobs /\ LockedJobs' = LockedJobs \cup {j}
  BY DEF LockedJobs, HoldsInv, WorkersTyped
<1>2. Lease!Lock(j)
  BY <1>1 DEF Lease!Lock, LockedJobs
<1>3. holds[w] = {}
  BY DEF HoldsInv, WorkersTyped, Executing
<1>4. Lease!Take(w, j) \/ Lease!TakeUnanswered(j)
  BY <1>2, <1>3 DEF Lease!Take, Lease!TakeUnanswered
<1>. QED  BY <1>4 DEF LeaseStep, Lease!Next

LEMMA NextLease ==
  ASSUME HoldsInv, [Next]_poolVars
  PROVE  LeaseStep
<1>1. CASE UNCHANGED <<holds, jobs>>
  BY <1>1 DEF LeaseStep, Lease!leaseVars
<1>2. ASSUME NEW w \in Workers, WorkerStep(w) PROVE LeaseStep
  <2>1. CASE Poll(w) \/ Stop(w) \/ CallGetJob(w) \/ FetchNothing(w) \/ Return(w)
    BY <1>1, <2>1 DEF Poll, Stop, CallGetJob, FetchNothing, Return
  <2>2. ASSUME NEW j \in Jobs, Fetch(w, j) \/ NoHandler(w, j) PROVE LeaseStep
    BY <2>2, LeaseLocks DEF Fetch, NoHandler, Go
  <2>3. CASE FetchError(w)
    BY <1>1, <2>3, LeaseLocks DEF FetchError, Go
  <2>4. CASE Panic(w) \/ Finish(w) \/ FinishError(w)
    <3>1. /\ worker[w] \in {"executing", "finishing"}
          /\ holds' = [holds EXCEPT ![w] = {}]
          /\ jobs' = jobs \/ jobs' = Finished(w)
      BY <2>4 DEF Panic, Finish, FinishError, Go
    <3>. QED  BY <3>1, LeaseLetGo
  <2>. QED  BY <1>2, <2>1, <2>2, <2>3, <2>4 DEF WorkerStep
<1>3. CASE UNCHANGED goroutines
  BY <1>1, <1>3 DEF goroutines
<1>4. CASE ListenerStep
  BY <1>3, <1>4 DEF ListenerStep, Notify, ListenError, Reconnect, Connected, ConnectError,
                    ListenerStop
<1>5. CASE NudgeWorker \/ CoordinatorStop \/ TakeError \/ MonitorStop
  BY <1>3, <1>5 DEF NudgeWorker, CoordinatorStop, TakeError, MonitorStop
<1>6. CASE Release \/ ParentCancel \/ ShutdownStep
  BY <1>3, <1>6 DEF Release, ParentCancel, ShutdownStep, BeginShutdown, WorkersDone, GiveUp,
                    Complete, Shutdown
<1>7. CASE UNCHANGED poolVars
  BY <1>3, <1>7 DEF poolVars
<1>. QED  BY <1>2, <1>4, <1>5, <1>6, <1>7 DEF Next

\* However its goroutines fail, panic or are cancelled, a worker of the pool
\* works only on a job it has locked, and none is locked or worked on twice.
THEOREM PoolKeepsLease == Spec => LeaseSpec
<1>1. Init => Lease!Init
  BY DEF Init, Lease!Init
<1>2. HoldsInv /\ [Next]_poolVars => LeaseStep
  BY NextLease
<1>. QED  BY <1>1, <1>2, HoldsInvHolds, PTL DEF Spec, LeaseSpec, LeaseStep, Lease!Spec

(***************************************************************************)
(* Panics.                                                                 *)
(***************************************************************************)
Told == asked \/ ctxDone

\* The monitor ends only when the pool has been told to stop.
NoticeInv ==
  /\ ~monitor => Told
  /\ "panic" \in faults => Told \/ errors > 0

NoPanicLost == "panic" \in faults => Told \/ (monitor /\ errors > 0)

LEMMA NoticeOthers ==
  ASSUME NoticeInv, UNCHANGED <<monitor, errors>>,
         Told => Told', "panic" \in faults' => "panic" \in faults
  PROVE  NoticeInv'
BY DEF NoticeInv

LEMMA WorkerNotices ==
  ASSUME ErrorCap > 0, errors \in Nat, NoticeInv, NEW w \in Workers, WorkerStep(w)
  PROVE  NoticeInv'
<1>1. UNCHANGED <<monitor, stopping>>
  BY DEF WorkerStep, Poll, Stop, CallGetJob, Fetch, NoHandler, FetchNothing, FetchError, Return, Panic,
         Finish, FinishError, monitoring
<1>2. Told' = Told
  BY <1>1 DEF Told, stopping
<1>3. CASE Panic(w)
  <2>1. errors' > 0
    BY <1>3 DEF Panic
  <2>. QED  BY <1>1, <1>2, <2>1 DEF NoticeInv
<1>4. CASE ~Panic(w)
  <2>1. UNCHANGED errors /\ ("panic" \in faults' => "panic" \in faults)
    BY <1>4 DEF WorkerStep, Poll, Stop, CallGetJob, Fetch, NoHandler, FetchNothing, FetchError, Return,
                Finish, FinishError, monitoring
  <2>. QED  BY <1>1, <1>2, <2>1, NoticeOthers
<1>. QED  BY <1>3, <1>4

\* The panic of a handler is never lost: until the pool is told to stop, its
\* monitor runs and has an error to take, however many panics find the error
\* channel full (worker_pool.go:430 drops those).
THEOREM PanicsAreNoticed ==
  ASSUME ErrorCap > 0
  PROVE  Spec => []NoPanicLost
<1>1. Init => NoticeInv
  BY DEF Init, NoticeInv
<1>2. NoticeInv => NoPanicLost
  BY DEF NoticeInv, NoPanicLost
<1>3. NoticeInv /\ ControlTypes /\ [Next]_poolVars => NoticeInv'
  <2>. SUFFICES ASSUME NoticeInv, ControlTypes, [Next]_poolVars PROVE NoticeInv'
    OBVIOUS
  <2>1. errors \in Nat
    <3>1. errors \in 0 .. ErrorCap
      BY Zenon DEF ControlTypes
    <3>. QED  BY <3>1
  <2>2. ASSUME NEW w \in Workers, WorkerStep(w) PROVE NoticeInv'
    BY <2>1, <2>2, WorkerNotices
  <2>3. CASE ListenerStep
    <3>1. UNCHANGED <<monitoring, stopping, faults>>
      BY <2>3 DEF ListenerStep, Notify, ListenError, Reconnect, Connected, ConnectError,
                  ListenerStop
    <3>. QED  BY <3>1 DEF monitoring, stopping, NoticeInv, Told
  <2>4. CASE NudgeWorker \/ CoordinatorStop
    BY <2>4 DEF NudgeWorker, CoordinatorStop, monitoring, stopping, NoticeInv, Told
  <2>5. CASE TakeError \/ MonitorStop
    BY <2>5 DEF TakeError, MonitorStop, stopping, NoticeInv, Told
  <2>6. CASE Release \/ ParentCancel
    BY <2>6 DEF Release, ParentCancel, monitoring, NoticeInv, Told
  <2>7. CASE ShutdownStep
    BY <2>7 DEF ShutdownStep, BeginShutdown, WorkersDone, GiveUp, Complete, Shutdown,
                monitoring, NoticeInv, Told
  <2>8. CASE UNCHANGED poolVars
    BY <2>8 DEF poolVars, monitoring, stopping, NoticeInv, Told
  <2>. QED  BY <2>2, <2>3, <2>4, <2>5, <2>6, <2>7, <2>8 DEF Next
<1>. QED  BY <1>1, <1>2, <1>3, HoldsInvHolds, PTL DEF Spec
===============================================================================
