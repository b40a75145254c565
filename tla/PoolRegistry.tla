----------------------------- MODULE PoolRegistry -----------------------------
(***************************************************************************)
(* The registry of the pools of a process and its signal handlers          *)
(* (pkg/worker/global_pool_manager.go): owners that start and release      *)
(* managed pools, and the goroutine that a signal wakes.  They share a     *)
(* list, four flags and two locks; a critical section in which nothing is  *)
(* waited for is one step, taken while the lock is free.                   *)
(*                                                                         *)
(* A pool is up, stopping or down; WorkerPool has its insides.             *)
(***************************************************************************)
EXTENDS Naturals, FiniteSets

CONSTANTS
  Owners,      \* callers of RunTaskListWithSignalHandling, a pool each
  Nobody,      \* holder of a free lock
  Handlers,    \* bound: the signal channels, with a goroutine each: 1 .. n
  MaxSignals   \* bound: number of signals

ASSUME RegistryBounds ==
  /\ Handlers \in Nat \ {0} /\ MaxSignals \in Nat
  /\ Nobody \notin Owners

Channels == 1 .. Handlers

VARIABLES
  handles,           \* owners whose NoHandleSignals is false
  testMode,          \* SetTestMode
  owner,             \* what each owner does
  pool,              \* its pool
  allWorkerPools,    \* owners whose pools are in the list
  listLock,          \* holder of allWorkerPoolsLock
  handlerLock,       \* holder of signalHandlerLock
  registered,        \* registeredSignalHandlers
  shuttingDown,
  signalCleanup,     \* it is not nil
  channels,          \* number of channels made
  globalSignalChan,  \* the channel that is notified, 0 if it is nil
  full,              \* channels that hold a signal
  handler,           \* what the goroutine of each channel does
  targets,           \* pools it has copied from the list
  signals,           \* number of signals so far
  process,           \* "runs", or what ended it
  starting,          \* history: owners between registration and list when it copied
  late               \* history: owners that registered after a cleanup

owners == <<handles, testMode, owner, pool>>
list == <<allWorkerPools, listLock>>
registration == <<handlerLock, registered, shuttingDown, signalCleanup, channels, globalSignalChan>>
handling == <<full, handler, targets, signals, process>>
history == <<starting, late>>
registryVars == <<owners, list, registration, handling, history>>

Init ==
  /\ handles \in SUBSET Owners /\ testMode \in BOOLEAN
  /\ owner = [o \in Owners |-> "out"]
  /\ pool = [o \in Owners |-> "none"]
  /\ allWorkerPools = {}
  /\ listLock = Nobody /\ handlerLock = Nobody
  /\ registered = FALSE /\ shuttingDown = FALSE /\ signalCleanup = FALSE
  /\ channels = 0 /\ globalSignalChan = 0
  /\ full = {}
  /\ handler = [c \in Channels |-> "none"]
  /\ targets = [c \in Channels |-> {}]
  /\ signals = 0 /\ process = "runs"
  /\ starting = {} /\ late = {}

(***************************************************************************)
(* RunTaskListWithSignalHandling.                                          *)
(***************************************************************************)
Go(o, from, to) ==
  /\ process = "runs"
  /\ owner[o] = from /\ owner' = [owner EXCEPT ![o] = to]

\* options.NoHandleSignals
SkipRegistration(o) ==
  /\ o \notin handles
  /\ Go(o, "out", "starting")
  /\ UNCHANGED <<handles, testMode, pool, list, registration, handling, history>>

\* (mutant) shuttingDown is not looked at
RefusesNever == FALSE

\* "system has already gone into shutdown"
Refuses == shuttingDown

\* (mutant) the cleanup is not kept
MakeHandlerOnly ==
  /\ channels < Handlers
  /\ channels' = channels + 1
  /\ globalSignalChan' = channels + 1
  /\ handler' = [handler EXCEPT ![channels + 1] = "waiting"]
  /\ UNCHANGED signalCleanup

\* signal.Notify, and the goroutine that receives from the channel.
MakeHandler ==
  /\ channels < Handlers
  /\ channels' = channels + 1
  /\ globalSignalChan' = channels + 1
  /\ handler' = [handler EXCEPT ![channels + 1] = "waiting"]
  /\ signalCleanup' = TRUE

RegisterSignalHandlers(o) ==
  /\ o \in handles
  /\ handlerLock = Nobody
  /\ IF Refuses
     THEN Go(o, "out", "failed") /\ UNCHANGED <<registered, late>>
     ELSE /\ Go(o, "out", "starting")
          /\ registered' = TRUE
          /\ late' = IF \E c \in Channels : handler[c] = "exiting"
                     THEN late \cup {o} ELSE late
  /\ IF Refuses \/ registered \/ testMode
     THEN UNCHANGED <<channels, globalSignalChan, handler, signalCleanup>>
     ELSE MakeHandler
  /\ UNCHANGED <<handles, testMode, pool, list, handlerLock, shuttingDown,
                 full, targets, signals, process, starting>>

\* RunTaskList
StartPool(o) ==
  /\ Go(o, "starting", "adding")
  /\ pool' = [pool EXCEPT ![o] = "up"]
  /\ UNCHANGED <<handles, testMode, list, registration, handling, history>>

\* RunTaskList returns an error; the handlers stay.
StartError(o) ==
  /\ Go(o, "starting", "failed")
  /\ UNCHANGED <<handles, testMode, pool, list, registration, handling, history>>

AddWorkerPool(o) ==
  /\ listLock = Nobody
  /\ Go(o, "adding", "running")
  /\ allWorkerPools' = allWorkerPools \cup {o}
  /\ UNCHANGED <<handles, testMode, pool, listLock, registration, handling, history>>

(***************************************************************************)
(* Release and GracefulShutdown of a managed pool.                         *)
(***************************************************************************)
Stopping(pools) ==
  [o \in Owners |-> IF o \in pools /\ pool[o] = "up" THEN "stopping" ELSE pool[o]]

\* An owner may release its pool again.
Release(o) ==
  /\ Go(o, "running", "releasing") \/ Go(o, "released", "releasing")
  /\ pool' = Stopping({o})
  /\ UNCHANGED <<handles, testMode, list, registration, handling, history>>

\* A critical error shuts a pool down.
CriticalError(o) ==
  /\ process = "runs" /\ pool[o] = "up"
  /\ pool' = Stopping({o})
  /\ UNCHANGED <<handles, testMode, owner, list, registration, handling, history>>

\* shutdownOnce.Do ends, and all callers of GracefulShutdown go on.
PoolDown(o) ==
  /\ process = "runs" /\ pool[o] = "stopping"
  /\ pool' = [pool EXCEPT ![o] = "down"]
  /\ UNCHANGED <<handles, testMode, owner, list, registration, handling, history>>

\* (mutant) the handlers are cleaned up while there are pools
RemoveAnyWorkerPool(o) ==
  /\ pool[o] = "down" /\ listLock = Nobody
  /\ allWorkerPools' = allWorkerPools \ {o}
  /\ Go(o, "releasing", "cleaning") /\ listLock' = o
  /\ UNCHANGED <<handles, testMode, pool, registration, handling, history>>

\* removeWorkerPool keeps the lock of the list for cleanupSignalHandlers when the
\* list is empty.
RemoveWorkerPool(o) ==
  /\ pool[o] = "down" /\ listLock = Nobody
  /\ allWorkerPools' = allWorkerPools \ {o}
  /\ IF allWorkerPools \ {o} = {}
     THEN Go(o, "releasing", "cleaning") /\ listLock' = o
     ELSE Go(o, "releasing", "released") /\ UNCHANGED listLock
  /\ UNCHANGED <<handles, testMode, pool, registration, handling, history>>

\* (mutant) the lock of the list is kept when there is nothing to clean up
CleanupSignalHandlersKeep(o) ==
  /\ handlerLock = Nobody
  /\ IF signalCleanup
     THEN Go(o, "cleaning", "stuck") /\ handlerLock' = o
     ELSE Go(o, "cleaning", "released") /\ UNCHANGED handlerLock
  /\ UNCHANGED <<handles, testMode, pool, list, registered, shuttingDown,
                 signalCleanup, channels, globalSignalChan, handling, history>>

\* cleanupSignalHandlers takes the lock of the handlers.  If there is something
\* to clean up it calls signalCleanup, which waits for that very lock.
CleanupSignalHandlers(o) ==
  /\ handlerLock = Nobody
  /\ IF signalCleanup
     THEN Go(o, "cleaning", "stuck") /\ handlerLock' = o /\ UNCHANGED listLock
     ELSE Go(o, "cleaning", "released") /\ listLock' = Nobody /\ UNCHANGED handlerLock
  /\ UNCHANGED <<handles, testMode, pool, allWorkerPools, registered, shuttingDown,
                 signalCleanup, channels, globalSignalChan, handling, history>>

(***************************************************************************)
(* Signals.                                                                *)
(***************************************************************************)
\* A signal nobody is notified of ends the process; one that finds the channel
\* full is dropped.
Signal ==
  /\ process = "runs" /\ signals < MaxSignals
  /\ signals' = signals + 1
  /\ IF globalSignalChan = 0
     THEN process' = "killed" /\ UNCHANGED full
     ELSE full' = full \cup {globalSignalChan} /\ UNCHANGED process
  /\ UNCHANGED <<handler, targets, owners, list, registration, history>>

Handle(c, from, to) ==
  /\ process = "runs"
  /\ handler[c] = from /\ handler' = [handler EXCEPT ![c] = to]

Receive(c) ==
  /\ c \in full
  /\ full' = full \ {c}
  /\ Handle(c, "waiting", "received")
  /\ UNCHANGED <<targets, signals, process, owners, list, registration, history>>

\* Nothing but a goroutine that ends the process sets shuttingDown, so none
\* finds it set.
SetShuttingDown(c) ==
  /\ handlerLock = Nobody
  /\ shuttingDown' = TRUE
  /\ Handle(c, "received", "copying")
  /\ UNCHANGED <<handlerLock, registered, signalCleanup, channels, globalSignalChan,
                 full, targets, signals, process, owners, list, history>>

\* A copy of the list, and a goroutine for each pool that shuts it down.
ShutdownPools(c) ==
  /\ listLock = Nobody
  /\ Handle(c, "copying", "stopping")
  /\ targets' = [targets EXCEPT ![c] = allWorkerPools]
  /\ pool' = Stopping(allWorkerPools)
  /\ starting' = starting \cup {o \in Owners : owner[o] \in {"starting", "adding"}}
  /\ UNCHANGED <<handles, testMode, owner, full, signals, process, list, registration, late>>

\* case <-shutdownComplete
PoolsDown(c) ==
  /\ \A o \in targets[c] : pool[o] = "down"
  /\ Handle(c, "stopping", "unregistering")
  /\ UNCHANGED <<full, targets, signals, process, owners, list, registration, history>>

\* case <-shutdownTimer.C
ShutdownTimeout(c) ==
  /\ \E o \in targets[c] : pool[o] # "down"
  /\ Handle(c, "stopping", "unregistering")
  /\ UNCHANGED <<full, targets, signals, process, owners, list, registration, history>>

\* signalCleanup: pools may be started again before the process ends.
Unregister(c) ==
  /\ handlerLock = Nobody
  /\ Handle(c, "unregistering", "exiting")
  /\ globalSignalChan' = 0
  /\ registered' = FALSE /\ shuttingDown' = FALSE
  /\ UNCHANGED <<handlerLock, signalCleanup, channels, full, targets, signals, process,
                 owners, list, history>>

\* The process signals itself and calls os.Exit.
Exit(c) ==
  /\ Handle(c, "exiting", "exited")
  /\ process' = "exited"
  /\ UNCHANGED <<full, targets, signals, owners, list, registration, history>>

OwnerStep(o) ==
  \/ SkipRegistration(o) \/ RegisterSignalHandlers(o)
  \/ StartPool(o) \/ StartError(o) \/ AddWorkerPool(o)
  \/ RemoveWorkerPool(o) \/ CleanupSignalHandlers(o)

HandlerStep(c) ==
  \/ Receive(c) \/ SetShuttingDown(c) \/ ShutdownPools(c)
  \/ PoolsDown(c) \/ ShutdownTimeout(c) \/ Unregister(c) \/ Exit(c)

Next ==
  \/ \E o \in Owners : OwnerStep(o) \/ Release(o) \/ CriticalError(o) \/ PoolDown(o)
  \/ \E c \in Channels : HandlerStep(c)
  \/ Signal

Spec == Init /\ [][Next]_registryVars

\* Goroutines run; a pool that is shut down gets down, as WorkerPool shows.  The
\* goroutine of a signal gets a mutex that it waits for (sync.Mutex does not let
\* a waiter starve).
FairSpec ==
  /\ Spec
  /\ \A o \in Owners :
       WF_registryVars(OwnerStep(o)) /\ WF_registryVars(PoolDown(o))
       /\ SF_registryVars(RemoveWorkerPool(o)) /\ SF_registryVars(CleanupSignalHandlers(o))
  /\ \A c \in Channels : WF_registryVars(HandlerStep(c))
       /\ SF_registryVars(SetShuttingDown(c) \/ ShutdownPools(c) \/ Unregister(c))

-------------------------------------------------------------------------------
\* Every variable has its type; there is a channel once there is a cleanup.
TypeOK ==
  /\ handles \subseteq Owners /\ testMode \in BOOLEAN
  /\ owner \in [Owners -> {"out", "starting", "adding", "running", "releasing",
                           "cleaning", "stuck", "released", "failed"}]
  /\ pool \in [Owners -> {"none", "up", "stopping", "down"}]
  /\ allWorkerPools \subseteq Owners
  /\ listLock \in Owners \cup {Nobody} /\ handlerLock \in Owners \cup {Nobody}
  /\ registered \in BOOLEAN /\ shuttingDown \in BOOLEAN
  /\ channels \in 0 .. Handlers /\ globalSignalChan \in 0 .. channels
  /\ signalCleanup = (channels > 0)
  /\ full \subseteq Channels
  /\ handler \in [Channels -> {"none", "waiting", "received", "copying", "stopping",
                               "unregistering", "exiting", "exited"}]
  /\ targets \in [Channels -> SUBSET Owners]
  /\ signals \in 0 .. MaxSignals
  /\ process \in {"runs", "killed", "exited"}
  /\ starting \subseteq Owners /\ late \subseteq Owners

Stuck == {o \in Owners : owner[o] = "stuck"}

\* A pool that is still up when the process exits on a signal is that of an owner
\* which handles no signals, had registered and not yet added its pool to the list
\* when it was copied, or registered after shuttingDown was reset.
ExitLeavesLatePools ==
  process = "exited" =>
    \A o \in handles : pool[o] = "up" => o \in starting \cup late

\* An owner can be stuck only in releasing the last pool of the list of a process
\* with handlers, and then it holds both locks: at most one owner is stuck.
StuckHoldsLocks ==
  \A o \in Stuck :
    /\ listLock = o /\ handlerLock = o
    /\ signalCleanup /\ allWorkerPools = {}

\* Unless an owner is stuck, the release of a pool returns and a signal that is
\* received ends the process, whatever owners and signals interleave.
EndsUnlessStuck ==
  /\ \A o \in Owners :
       owner[o] = "releasing" ~> (owner[o] = "released" \/ process # "runs" \/ Stuck # {})
  /\ \A c \in Channels :
       c \in full ~> (process # "runs" \/ Stuck # {})
===============================================================================
