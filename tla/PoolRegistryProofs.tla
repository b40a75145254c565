-------------------------- MODULE PoolRegistryProofs --------------------------
(***************************************************************************)
(* Theorems about PoolRegistry: who can be stuck in the release of a pool, *)
(* what the locks can keep waiting, and which pools the exit on a signal   *)
(* leaves up, for every number of owners, handlers and signals.            *)
(***************************************************************************)
EXTENDS PoolRegistry, TLAPS

USE RegistryBounds

OwnerTypes ==
  /\ owner \in [Owners -> {"out", "starting", "adding", "running", "releasing",
                           "cleaning", "stuck", "released", "failed"}]
  /\ pool \in [Owners -> {"none", "up", "stopping", "down"}]

HandlerTypes ==
  handler \in [Channels -> {"none", "waiting", "received", "copying", "stopping",
                            "unregistering", "exiting", "exited"}]

\* The lock of the list outlives a step only with an owner that cleans up, and the
\* list is empty then; the other lock only with one that is stuck.
Locks ==
  \A o \in Owners :
    /\ listLock = o <=> owner[o] \in {"cleaning", "stuck"}
    /\ handlerLock = o <=> owner[o] = "stuck"
    /\ owner[o] \in {"cleaning", "stuck"} => allWorkerPools = {}
    /\ owner[o] = "stuck" => signalCleanup

\* A pool is up before it is in the list only while its owner adds it.
UpIsListed ==
  \A o \in Owners : pool[o] = "up" => o \in allWorkerPools \/ owner[o] = "adding"

\* From the moment a goroutine sets shuttingDown nobody registers, until one of
\* them is about to exit.
NobodyRegisters ==
  (\E c \in Channels : handler[c] \in {"copying", "stopping", "unregistering"})
    => shuttingDown \/ \E c \in Channels : handler[c] = "exiting"

\* The pools that the first copy of the list has missed.
Missed ==
  (\E c \in Channels : handler[c] \in {"stopping", "unregistering", "exiting", "exited"})
    => \A o \in handles : pool[o] = "up" \/ owner[o] = "starting" => o \in starting \cup late

\* A channel that is still to be made has no goroutine.
Fresh ==
  channels \in Nat /\ \A c \in Channels : channels < c => handler[c] = "none"

RegistryInv ==
  /\ OwnerTypes /\ HandlerTypes /\ Fresh
  /\ Locks /\ UpIsListed /\ Missed
  /\ handles \subseteq Owners
  /\ process = "runs" => NobodyRegisters
  /\ process = "exited" <=> \E c \in Channels : handler[c] = "exited"

LEMMA InitInv == Init => RegistryInv
  BY DEF Init, RegistryInv, OwnerTypes, HandlerTypes, Locks, UpIsListed, Missed,
         NobodyRegisters, Fresh, Channels

-------------------------------------------------------------------------------
\* Steps of owners and of pools.

LEMMA OwnerFrame ==
  ASSUME RegistryInv, process' = process, handler' = handler, shuttingDown' = shuttingDown,
         channels' = channels
  PROVE  /\ HandlerTypes' /\ Fresh'
         /\ process' = "runs" => NobodyRegisters'
         /\ process' = "exited" <=> \E c \in Channels : handler'[c] = "exited"
  BY DEF RegistryInv, HandlerTypes, NobodyRegisters, Fresh, Channels

LEMMA SkipInv ==
  ASSUME RegistryInv, NEW o \in Owners, SkipRegistration(o)
  PROVE  RegistryInv'
  <1>1. /\ owner' = [owner EXCEPT ![o] = "starting"] /\ owner[o] = "out" /\ o \notin handles
        /\ UNCHANGED <<handles, pool, allWorkerPools, listLock, handlerLock, signalCleanup,
                       shuttingDown, channels, handler, process, starting, late>>
    BY DEF SkipRegistration, Go, list, registration, handling, history
  <1>2. OwnerTypes'
    BY <1>1 DEF RegistryInv, OwnerTypes
  <1>3. Locks'
    BY <1>1 DEF RegistryInv, OwnerTypes, Locks
  <1>4. UpIsListed' /\ Missed'
    BY <1>1 DEF RegistryInv, OwnerTypes, UpIsListed, Missed, Channels
  <1>5. QED
    BY <1>1, <1>2, <1>3, <1>4, OwnerFrame DEF RegistryInv

LEMMA RegisterInv ==
  ASSUME RegistryInv, NEW o \in Owners, RegisterSignalHandlers(o)
  PROVE  RegistryInv'
  <1>1. /\ process = "runs" /\ owner[o] = "out"
        /\ UNCHANGED <<handles, pool, allWorkerPools, listLock, handlerLock, shuttingDown,
                       process, starting>>
        /\ signalCleanup => signalCleanup'
    BY DEF RegisterSignalHandlers, Go, MakeHandler, list
  <1>2. \/ owner' = [owner EXCEPT ![o] = "failed"] /\ late' = late
        \/ /\ owner' = [owner EXCEPT ![o] = "starting"] /\ ~shuttingDown
           /\ late' = IF \E c \in Channels : handler[c] = "exiting"
                      THEN late \cup {o} ELSE late
    BY DEF RegisterSignalHandlers, Go, Refuses
  <1>3. \/ handler' = handler /\ channels' = channels
        \/ /\ handler' = [handler EXCEPT ![channels + 1] = "waiting"]
           /\ channels' = channels + 1 /\ channels < Handlers
    BY DEF RegisterSignalHandlers, MakeHandler
  <1>4. channels \in Nat
    BY DEF RegistryInv, Fresh
  <1>5. /\ HandlerTypes' /\ Fresh'
        /\ \A c \in Channels : \/ handler'[c] = handler[c]
                               \/ handler[c] = "none" /\ handler'[c] = "waiting"
    <2>1. CASE handler' = handler /\ channels' = channels
      BY <2>1 DEF RegistryInv, HandlerTypes, Fresh, Channels
    <2>2. CASE /\ handler' = [handler EXCEPT ![channels + 1] = "waiting"]
               /\ channels' = channels + 1 /\ channels < Handlers
      <3>1. channels + 1 \in Channels /\ handler[channels + 1] = "none"
        BY <1>4, <2>2 DEF RegistryInv, Fresh, Channels
      <3>2. HandlerTypes'
        BY <2>2 DEF RegistryInv, HandlerTypes, Channels
      <3>3. \A c \in Channels : c # channels + 1 => handler'[c] = handler[c]
        BY <2>2 DEF RegistryInv, HandlerTypes
      <3>4. handler'[channels + 1] = "waiting"
        BY <2>2, <3>1 DEF RegistryInv, HandlerTypes
      <3>5. \A c \in Channels : channels + 1 < c => c # channels + 1 /\ channels < c
        BY <1>4 DEF Channels
      <3>6. Fresh'
        BY <2>2, <1>4, <3>3, <3>5 DEF RegistryInv, Fresh, Channels
      <3>7. QED
        BY <3>1, <3>2, <3>3, <3>4, <3>6
    <2>3. QED
      BY <1>3, <2>1, <2>2
  <1>6. OwnerTypes'
    BY <1>1, <1>2 DEF RegistryInv, OwnerTypes
  <1>7. Locks'
    BY <1>1, <1>2 DEF RegistryInv, OwnerTypes, Locks
  <1>8. UpIsListed'
    BY <1>1, <1>2 DEF RegistryInv, OwnerTypes, UpIsListed
  <1>9. NobodyRegisters'
    <2>1. NobodyRegisters
      BY <1>1 DEF RegistryInv
    <2>2. QED
      BY <1>1, <1>5, <2>1 DEF NobodyRegisters, Channels
  <1>10. Missed'
    <2>1. SUFFICES ASSUME NEW c \in Channels,
                          handler'[c] \in {"stopping", "unregistering", "exiting", "exited"},
                          NEW q \in handles, pool[q] = "up" \/ owner'[q] = "starting"
                   PROVE  q \in starting \cup late'
      BY <1>1 DEF Missed, Channels
    <2>2. handler[c] = handler'[c]
      BY <1>5, <2>1
    <2>3. process # "exited" /\ NobodyRegisters /\ q \in Owners
      BY <1>1 DEF RegistryInv
    <2>4. CASE owner[q] # "starting" /\ owner'[q] = "starting"
      <3>1. ~shuttingDown /\ q = o
            /\ late' = IF \E d \in Channels : handler[d] = "exiting"
                       THEN late \cup {o} ELSE late
        BY <1>2, <2>3, <2>4 DEF RegistryInv, OwnerTypes
      <3>2. handler[c] # "exited"
        BY <2>3 DEF RegistryInv
      <3>3. \E d \in Channels : handler[d] = "exiting"
        BY <2>1, <2>2, <2>3, <3>1, <3>2 DEF NobodyRegisters
      <3>4. QED
        BY <3>1, <3>3
    <2>5. CASE pool[q] = "up" \/ owner[q] = "starting"
      <3>1. late \subseteq late'
        BY <1>2
      <3>2. q \in starting \cup late
        BY <2>1, <2>2, <2>5 DEF RegistryInv, Missed
      <3>3. QED
        BY <3>1, <3>2
    <2>6. QED
      BY <2>1, <2>4, <2>5
  <1>11. process' = "exited" <=> \E c \in Channels : handler'[c] = "exited"
    BY <1>1, <1>5 DEF RegistryInv
  <1>12. QED
    BY <1>1, <1>5, <1>6, <1>7, <1>8, <1>9, <1>10, <1>11 DEF RegistryInv, Channels

LEMMA StartInv ==
  ASSUME RegistryInv, NEW o \in Owners, StartPool(o) \/ StartError(o)
  PROVE  RegistryInv'
  <1>1. /\ owner[o] = "starting"
        /\ \/ owner' = [owner EXCEPT ![o] = "adding"] /\ pool' = [pool EXCEPT ![o] = "up"]
           \/ owner' = [owner EXCEPT ![o] = "failed"] /\ pool' = pool
        /\ UNCHANGED <<handles, allWorkerPools, listLock, handlerLock, signalCleanup,
                       shuttingDown, channels, handler, process, starting, late>>
    BY DEF StartPool, StartError, Go, list, registration, handling, history
  <1>2. OwnerTypes'
    BY <1>1 DEF RegistryInv, OwnerTypes
  <1>3. Locks'
    BY <1>1 DEF RegistryInv, OwnerTypes, Locks
  <1>4. UpIsListed'
    BY <1>1 DEF RegistryInv, OwnerTypes, UpIsListed
  <1>5. Missed'
    BY <1>1 DEF RegistryInv, OwnerTypes, Missed, Channels
  <1>6. QED
    BY <1>1, <1>2, <1>3, <1>4, <1>5, OwnerFrame DEF RegistryInv

LEMMA AddInv ==
  ASSUME RegistryInv, NEW o \in Owners, AddWorkerPool(o)
  PROVE  RegistryInv'
  <1>1. /\ owner[o] = "adding" /\ owner' = [owner EXCEPT ![o] = "running"]
        /\ listLock = Nobody /\ allWorkerPools' = allWorkerPools \cup {o}
        /\ UNCHANGED <<handles, pool, listLock, handlerLock, signalCleanup,
                       shuttingDown, channels, handler, process, starting, late>>
    BY DEF AddWorkerPool, Go, registration, handling, history
  <1>2. OwnerTypes'
    BY <1>1 DEF RegistryInv, OwnerTypes
  <1>3. Locks'
    BY <1>1 DEF RegistryInv, OwnerTypes, Locks
  <1>4. UpIsListed'
    BY <1>1 DEF RegistryInv, OwnerTypes, UpIsListed
  <1>5. Missed'
    BY <1>1 DEF RegistryInv, OwnerTypes, Missed, Channels
  <1>6. QED
    BY <1>1, <1>2, <1>3, <1>4, <1>5, OwnerFrame DEF RegistryInv

\* A pool that begins to stop, and one that is down.
LEMMA PoolStepInv ==
  ASSUME RegistryInv, NEW o \in Owners, Release(o) \/ CriticalError(o) \/ PoolDown(o)
  PROVE  RegistryInv'
  <1>1. /\ \/ owner' = owner
           \/ owner[o] \in {"running", "released"} /\ owner' = [owner EXCEPT ![o] = "releasing"]
        /\ UNCHANGED <<handles, allWorkerPools, listLock, handlerLock, signalCleanup,
                       shuttingDown, channels, handler, process, starting, late>>
    BY DEF Release, CriticalError, PoolDown, Go, list, registration, handling, history
  <1>2. /\ pool' \in [Owners -> {"none", "up", "stopping", "down"}]
        /\ \A q \in Owners : pool'[q] = "up" => pool[q] = "up"
        /\ owner' # owner => pool'[o] # "up"
    BY DEF Release, CriticalError, PoolDown, Go, Stopping, RegistryInv, OwnerTypes
  <1>3. OwnerTypes'
    BY <1>1, <1>2 DEF RegistryInv, OwnerTypes
  <1>4. Locks'
    BY <1>1 DEF RegistryInv, OwnerTypes, Locks
  <1>5. UpIsListed'
    BY <1>1, <1>2 DEF RegistryInv, OwnerTypes, UpIsListed
  <1>6. Missed'
    BY <1>1, <1>2 DEF RegistryInv, OwnerTypes, Missed, Channels
  <1>7. QED
    BY <1>1, <1>3, <1>4, <1>5, <1>6, OwnerFrame DEF RegistryInv

LEMMA RemoveInv ==
  ASSUME RegistryInv, NEW o \in Owners, RemoveWorkerPool(o)
  PROVE  RegistryInv'
  <1>1. /\ pool[o] = "down" /\ listLock = Nobody /\ owner[o] = "releasing"
        /\ allWorkerPools' = allWorkerPools \ {o}
        /\ \/ /\ allWorkerPools' = {} /\ listLock' = o
              /\ owner' = [owner EXCEPT ![o] = "cleaning"]
           \/ listLock' = listLock /\ owner' = [owner EXCEPT ![o] = "released"]
        /\ UNCHANGED <<handles, pool, handlerLock, signalCleanup,
                       shuttingDown, channels, handler, process, starting, late>>
    BY DEF RemoveWorkerPool, Go, registration, handling, history
  <1>2. OwnerTypes'
    BY <1>1 DEF RegistryInv, OwnerTypes
  <1>3. Locks'
    BY <1>1 DEF RegistryInv, OwnerTypes, Locks
  <1>4. UpIsListed'
    BY <1>1 DEF RegistryInv, OwnerTypes, UpIsListed
  <1>5. Missed'
    BY <1>1 DEF RegistryInv, OwnerTypes, Missed, Channels
  <1>6. QED
    BY <1>1, <1>2, <1>3, <1>4, <1>5, OwnerFrame DEF RegistryInv

LEMMA CleanupInv ==
  ASSUME RegistryInv, NEW o \in Owners, CleanupSignalHandlers(o)
  PROVE  RegistryInv'
  <1>1. /\ owner[o] = "cleaning" /\ handlerLock = Nobody
        /\ \/ /\ signalCleanup /\ handlerLock' = o /\ listLock' = listLock
              /\ owner' = [owner EXCEPT ![o] = "stuck"]
           \/ /\ handlerLock' = handlerLock /\ listLock' = Nobody
              /\ owner' = [owner EXCEPT ![o] = "released"]
        /\ UNCHANGED <<handles, pool, allWorkerPools, signalCleanup,
                       shuttingDown, channels, handler, process, starting, late>>
    BY DEF CleanupSignalHandlers, Go, handling, history
  <1>2. OwnerTypes'
    BY <1>1 DEF RegistryInv, OwnerTypes
  <1>3. Locks'
    BY <1>1 DEF RegistryInv, OwnerTypes, Locks
  <1>4. UpIsListed'
    BY <1>1 DEF RegistryInv, OwnerTypes, UpIsListed
  <1>5. Missed'
    BY <1>1 DEF RegistryInv, OwnerTypes, Missed, Channels
  <1>6. QED
    BY <1>1, <1>2, <1>3, <1>4, <1>5, OwnerFrame DEF RegistryInv

-------------------------------------------------------------------------------
\* Steps of the goroutines that signals wake.

LEMMA HandlerFrame ==
  ASSUME RegistryInv, NEW c \in Channels, NEW to,
         to \in {"received", "copying", "stopping", "unregistering", "exiting", "exited"},
         handler[c] # "none", handler' = [handler EXCEPT ![c] = to],
         UNCHANGED <<handles, owner, allWorkerPools, listLock, handlerLock, signalCleanup,
                     channels>>
  PROVE  /\ HandlerTypes' /\ Fresh' /\ Locks' /\ handles' \subseteq Owners
         /\ handler'[c] = to /\ \A d \in Channels : d # c => handler'[d] = handler[d]
         /\ \A q \in Owners : owner'[q] = owner[q]
  <1>1. HandlerTypes'
    BY DEF RegistryInv, HandlerTypes, Channels
  <1>2. handler'[c] = to /\ \A d \in Channels : d # c => handler'[d] = handler[d]
    BY DEF RegistryInv, HandlerTypes
  <1>3. Fresh'
    BY <1>2 DEF RegistryInv, Fresh, Channels
  <1>4. Locks'
    BY DEF RegistryInv, Locks
  <1>5. QED
    BY <1>1, <1>2, <1>3, <1>4 DEF RegistryInv

LEMMA SilentInv ==
  ASSUME RegistryInv, NEW c \in Channels,
         Receive(c) \/ SetShuttingDown(c) \/ PoolsDown(c) \/ ShutdownTimeout(c)
  PROVE  RegistryInv'
  <1>1. PICK to \in {"received", "copying", "unregistering"} :
          /\ handler[c] # "none" /\ handler' = [handler EXCEPT ![c] = to]
          /\ handler[c] \in {"waiting", "received", "stopping"}
          /\ to = "copying" => shuttingDown'
          /\ to = "unregistering" => handler[c] = "stopping"
          /\ shuttingDown => shuttingDown'
          /\ process = "runs"
          /\ UNCHANGED <<handles, owner, pool, allWorkerPools, listLock, handlerLock,
                         signalCleanup, channels, process, starting, late>>
    BY DEF Receive, SetShuttingDown, PoolsDown, ShutdownTimeout, Handle,
           owners, list, registration, history
  <1>2. /\ HandlerTypes' /\ Fresh' /\ Locks' /\ handles' \subseteq Owners
        /\ handler'[c] = to /\ \A d \in Channels : d # c => handler'[d] = handler[d]
        /\ \A q \in Owners : owner'[q] = owner[q]
    BY <1>1, HandlerFrame
  <1>3. NobodyRegisters'
    BY <1>1, <1>2 DEF RegistryInv, NobodyRegisters, Channels
  <1>4. Missed'
    BY <1>1, <1>2 DEF RegistryInv, Missed, Channels
  <1>5. process' = "exited" <=> \E d \in Channels : handler'[d] = "exited"
    BY <1>1, <1>2 DEF RegistryInv
  <1>6. OwnerTypes' /\ UpIsListed'
    BY <1>1 DEF RegistryInv, OwnerTypes, UpIsListed
  <1>7. QED
    BY <1>2, <1>3, <1>4, <1>5, <1>6 DEF RegistryInv, Channels

LEMMA ShutdownInv ==
  ASSUME RegistryInv, NEW c \in Channels, ShutdownPools(c)
  PROVE  RegistryInv'
  <1>1. /\ handler[c] = "copying" /\ handler' = [handler EXCEPT ![c] = "stopping"]
        /\ process = "runs"
        /\ pool' = Stopping(allWorkerPools)
        /\ starting' = starting \cup {o \in Owners : owner[o] \in {"starting", "adding"}}
        /\ UNCHANGED <<handles, owner, allWorkerPools, listLock, handlerLock, shuttingDown,
                       signalCleanup, channels, process, late>>
    BY DEF ShutdownPools, Handle, list, registration
  <1>2. /\ HandlerTypes' /\ Fresh' /\ Locks' /\ handles' \subseteq Owners
        /\ handler'[c] = "stopping" /\ \A d \in Channels : d # c => handler'[d] = handler[d]
        /\ \A q \in Owners : owner'[q] = owner[q]
    BY <1>1, HandlerFrame
  <1>3. /\ pool' \in [Owners -> {"none", "up", "stopping", "down"}]
        /\ \A q \in Owners : pool'[q] = "up" => pool[q] = "up" /\ q \notin allWorkerPools
    BY <1>1 DEF Stopping, RegistryInv, OwnerTypes
  <1>4. NobodyRegisters'
    BY <1>1, <1>2 DEF RegistryInv, NobodyRegisters, Channels
  <1>5. Missed'
    <2>1. SUFFICES ASSUME NEW q \in handles, pool'[q] = "up" \/ owner[q] = "starting"
                   PROVE  q \in starting' \cup late'
      BY <1>1 DEF Missed
    <2>2. q \in Owners
      BY DEF RegistryInv
    <2>3. owner[q] \in {"starting", "adding"}
      BY <2>1, <2>2, <1>3 DEF RegistryInv, UpIsListed
    <2>4. QED
      BY <2>2, <2>3, <1>1
  <1>6. process' = "exited" <=> \E d \in Channels : handler'[d] = "exited"
    BY <1>1, <1>2 DEF RegistryInv
  <1>7. OwnerTypes' /\ UpIsListed'
    BY <1>1, <1>3 DEF RegistryInv, OwnerTypes, UpIsListed
  <1>8. QED
    BY <1>2, <1>4, <1>5, <1>6, <1>7 DEF RegistryInv, Channels

LEMMA EndInv ==
  ASSUME RegistryInv, NEW c \in Channels, Unregister(c) \/ Exit(c)
  PROVE  RegistryInv'
  <1>1. PICK to \in {"exiting", "exited"} :
          /\ handler[c] \in {"unregistering", "exiting"}
          /\ handler' = [handler EXCEPT ![c] = to]
          /\ process = "runs"
          /\ process' = IF to = "exited" THEN "exited" ELSE process
          /\ UNCHANGED <<handles, owner, pool, allWorkerPools, listLock, handlerLock,
                         signalCleanup, channels, starting, late>>
    BY DEF Unregister, Exit, Handle, owners, list, registration, history
  <1>2. /\ HandlerTypes' /\ Fresh' /\ Locks' /\ handles' \subseteq Owners
        /\ handler'[c] = to /\ \A d \in Channels : d # c => handler'[d] = handler[d]
        /\ \A q \in Owners : owner'[q] = owner[q]
    BY <1>1, HandlerFrame
  <1>3. process' = "runs" => NobodyRegisters'
    BY <1>1, <1>2 DEF NobodyRegisters
  <1>4. Missed'
    BY <1>1, <1>2 DEF RegistryInv, Missed, Channels
  <1>5. process' = "exited" <=> \E d \in Channels : handler'[d] = "exited"
    BY <1>1, <1>2 DEF RegistryInv
  <1>6. OwnerTypes' /\ UpIsListed'
    BY <1>1 DEF RegistryInv, OwnerTypes, UpIsListed
  <1>7. QED
    BY <1>2, <1>3, <1>4, <1>5, <1>6 DEF RegistryInv, Channels

-------------------------------------------------------------------------------
\* A signal, and steps that change nothing of this.
LEMMA FrameInv ==
  ASSUME RegistryInv,
         UNCHANGED <<handles, owner, pool, allWorkerPools, listLock, handlerLock,
                     shuttingDown, signalCleanup, channels, handler, starting, late>>,
         process' = process \/ (process' = "killed" /\ process = "runs")
  PROVE  RegistryInv'
  BY DEF RegistryInv, OwnerTypes, HandlerTypes, Fresh, Locks, UpIsListed, NobodyRegisters,
         Missed, Channels

LEMMA SignalInv ==
  ASSUME RegistryInv, Signal PROVE RegistryInv'
  <1>1. /\ UNCHANGED <<handles, owner, pool, allWorkerPools, listLock, handlerLock,
                       shuttingDown, signalCleanup, channels, handler, starting, late>>
        /\ process' = process \/ (process' = "killed" /\ process = "runs")
    BY DEF Signal, owners, list, registration, history
  <1>2. QED
    BY <1>1, FrameInv

LEMMA Invariance == Spec => []RegistryInv
  <1>1. ASSUME RegistryInv, UNCHANGED registryVars PROVE RegistryInv'
    <2>1. UNCHANGED <<handles, owner, pool, allWorkerPools, listLock, handlerLock,
                      shuttingDown, signalCleanup, channels, handler, starting, late>>
      BY <1>1 DEF registryVars, owners, list, registration, history, handling
    <2>2. process' = process
      BY <1>1 DEF registryVars, handling
    <2>3. process' = process \/ (process' = "killed" /\ process = "runs")
      BY <2>2
    <2>4. QED
      BY <1>1, <2>1, <2>3, FrameInv
  <1>2. ASSUME RegistryInv, Next PROVE RegistryInv'
    <2>1. ASSUME NEW o \in Owners, OwnerStep(o) PROVE RegistryInv'
      BY <1>2, <2>1, SkipInv, RegisterInv, StartInv, AddInv, RemoveInv, CleanupInv
      DEF OwnerStep
    <2>2. ASSUME NEW o \in Owners, Release(o) \/ CriticalError(o) \/ PoolDown(o)
          PROVE  RegistryInv'
      BY <1>2, <2>2, PoolStepInv
    <2>3. ASSUME NEW c \in Channels, HandlerStep(c) PROVE RegistryInv'
      BY <1>2, <2>3, SilentInv, ShutdownInv, EndInv DEF HandlerStep
    <2>4. QED
      BY <1>2, <2>1, <2>2, <2>3, SignalInv DEF Next
  <1>3. QED
    BY InitInv, <1>1, <1>2, PTL DEF Spec

\* When the process exits on a signal, a pool that handles signals and is still up
\* is one whose owner was starting it when the list was copied, or registered
\* after shuttingDown was reset.
THEOREM ExitMissesOnlyLatePools == Spec => []ExitLeavesLatePools
  <1>1. RegistryInv => ExitLeavesLatePools
    BY DEF RegistryInv, Missed, ExitLeavesLatePools
  <1>2. QED
    BY Invariance, <1>1, PTL

\* An owner is stuck in releasing the last pool of a process with handlers, and
\* holds both locks: so at most one is.
THEOREM StuckOwnersHoldLocks == Spec => []StuckHoldsLocks
  <1>1. RegistryInv => StuckHoldsLocks
    BY DEF RegistryInv, Locks, StuckHoldsLocks, Stuck
  <1>2. QED
    BY Invariance, <1>1, PTL

-------------------------------------------------------------------------------
\* Types.  The parts that steps of one kind share.
PoolTypes ==
  /\ OwnerTypes
  /\ handles \subseteq Owners /\ testMode \in BOOLEAN
  /\ allWorkerPools \subseteq Owners
  /\ listLock \in Owners \cup {Nobody} /\ handlerLock \in Owners \cup {Nobody}
  /\ starting \subseteq Owners /\ late \subseteq Owners

ChannelTypes ==
  /\ registered \in BOOLEAN /\ shuttingDown \in BOOLEAN
  /\ channels \in 0 .. Handlers /\ globalSignalChan \in 0 .. channels
  /\ signalCleanup = (channels > 0)

SignalTypes ==
  /\ full \subseteq Channels
  /\ targets \in [Channels -> SUBSET Owners]
  /\ signals \in 0 .. MaxSignals
  /\ process \in {"runs", "killed", "exited"}

LEMMA TypeParts == TypeOK <=> PoolTypes /\ ChannelTypes /\ SignalTypes /\ HandlerTypes
  BY DEF TypeOK, PoolTypes, OwnerTypes, ChannelTypes, SignalTypes, HandlerTypes

LEMMA TypePartsPrimed == TypeOK' <=> PoolTypes' /\ ChannelTypes' /\ SignalTypes' /\ HandlerTypes'
  BY DEF TypeOK, PoolTypes, OwnerTypes, ChannelTypes, SignalTypes, HandlerTypes

\* A channel is made, with the goroutine that receives from it.
LEMMA MakeHandlerType ==
  ASSUME TypeOK, MakeHandler, registered' \in BOOLEAN, shuttingDown' = shuttingDown
  PROVE  ChannelTypes' /\ HandlerTypes'
  <1>1. channels \in Nat /\ channels < Handlers /\ channels' = channels + 1
        /\ globalSignalChan' = channels'
    BY DEF TypeOK, MakeHandler
  <1>2. channels' \in 0 .. Handlers /\ globalSignalChan' \in 0 .. channels' /\ channels' > 0
    BY <1>1
  <1>3. ChannelTypes'
    BY <1>2 DEF TypeOK, MakeHandler, ChannelTypes
  <1>4. HandlerTypes'
    BY DEF TypeOK, MakeHandler, HandlerTypes
  <1>5. QED
    BY <1>3, <1>4

LEMMA OwnerStepType ==
  ASSUME TypeOK, NEW o \in Owners,
         OwnerStep(o) \/ Release(o) \/ CriticalError(o) \/ PoolDown(o)
  PROVE  TypeOK'
  <1>1. PoolTypes /\ ChannelTypes /\ SignalTypes /\ HandlerTypes
    BY TypeParts
  <1>2. CASE RegisterSignalHandlers(o)
    <2>1. PoolTypes'
      BY <1>1, <1>2 DEF RegisterSignalHandlers, Go, list, PoolTypes, OwnerTypes
    <2>2. SignalTypes'
      BY <1>1, <1>2 DEF RegisterSignalHandlers, SignalTypes
    <2>3. registered' \in BOOLEAN /\ shuttingDown' = shuttingDown
      BY <1>1, <1>2 DEF RegisterSignalHandlers, ChannelTypes
    <2>4. CASE MakeHandler
      BY <2>1, <2>2, <2>3, <2>4, MakeHandlerType, TypePartsPrimed
    <2>5. CASE UNCHANGED <<channels, globalSignalChan, handler, signalCleanup>>
      BY <1>1, <2>1, <2>2, <2>3, <2>5, TypePartsPrimed DEF ChannelTypes, HandlerTypes
    <2>6. QED
      BY <1>2, <2>4, <2>5 DEF RegisterSignalHandlers
  <1>3. CASE ~RegisterSignalHandlers(o)
    <2>1. UNCHANGED <<handles, testMode, registered, shuttingDown, signalCleanup, channels,
                      globalSignalChan, handling, history>>
      BY <1>3 DEF OwnerStep, SkipRegistration, StartPool, StartError, AddWorkerPool,
                  RemoveWorkerPool, CleanupSignalHandlers, Release, CriticalError, PoolDown,
                  registration
    <2>2. OwnerTypes'
      <3>1. CASE SkipRegistration(o) \/ StartPool(o) \/ StartError(o) \/ AddWorkerPool(o)
        BY <1>1, <3>1 DEF SkipRegistration, StartPool, StartError, AddWorkerPool, Go,
                          PoolTypes, OwnerTypes
      <3>2. CASE RemoveWorkerPool(o) \/ CleanupSignalHandlers(o)
        BY <1>1, <3>2 DEF RemoveWorkerPool, CleanupSignalHandlers, Go, PoolTypes, OwnerTypes
      <3>3. CASE Release(o) \/ CriticalError(o) \/ PoolDown(o)
        BY <1>1, <3>3 DEF Release, CriticalError, PoolDown, Go, Stopping,
                          PoolTypes, OwnerTypes
      <3>4. QED
        BY <1>3, <3>1, <3>2, <3>3 DEF OwnerStep
    <2>3. allWorkerPools' \subseteq Owners
      BY <1>1, <1>3 DEF OwnerStep, SkipRegistration, StartPool, StartError, AddWorkerPool,
                        RemoveWorkerPool, CleanupSignalHandlers, Release, CriticalError,
                        PoolDown, list, PoolTypes
    <2>4. listLock' \in Owners \cup {Nobody} /\ handlerLock' \in Owners \cup {Nobody}
      BY <1>1, <1>3 DEF OwnerStep, SkipRegistration, StartPool, StartError, AddWorkerPool,
                        RemoveWorkerPool, CleanupSignalHandlers, Release, CriticalError,
                        PoolDown, list, registration, PoolTypes
    <2>5. PoolTypes'
      BY <1>1, <2>1, <2>2, <2>3, <2>4 DEF PoolTypes, history
    <2>6. ChannelTypes' /\ SignalTypes' /\ HandlerTypes'
      BY <1>1, <2>1 DEF ChannelTypes, SignalTypes, HandlerTypes, handling
    <2>7. QED
      BY <2>5, <2>6, TypePartsPrimed
  <1>4. QED
    BY <1>2, <1>3

LEMMA HandlerStepType ==
  ASSUME TypeOK, NEW c \in Channels, HandlerStep(c)
  PROVE  TypeOK'
  <1>1. PoolTypes /\ ChannelTypes /\ SignalTypes /\ HandlerTypes
    BY TypeParts
  <1>2. HandlerTypes'
    BY <1>1 DEF HandlerStep, Receive, SetShuttingDown, ShutdownPools, PoolsDown,
                ShutdownTimeout, Unregister, Exit, Handle, HandlerTypes
  <1>3. SignalTypes'
    BY <1>1 DEF HandlerStep, Receive, SetShuttingDown, ShutdownPools, PoolsDown,
                ShutdownTimeout, Unregister, Exit, PoolTypes, SignalTypes
  <1>4. ChannelTypes'
    <2>1. UNCHANGED <<channels, signalCleanup>>
      BY DEF HandlerStep, Receive, SetShuttingDown, ShutdownPools, PoolsDown,
             ShutdownTimeout, Unregister, Exit, registration
    <2>2. globalSignalChan' \in {0, globalSignalChan}
      BY DEF HandlerStep, Receive, SetShuttingDown, ShutdownPools, PoolsDown,
             ShutdownTimeout, Unregister, Exit, registration
    <2>3. registered' \in {FALSE, registered} /\ shuttingDown' \in {TRUE, FALSE, shuttingDown}
      BY DEF HandlerStep, Receive, SetShuttingDown, ShutdownPools, PoolsDown,
             ShutdownTimeout, Unregister, Exit, registration
    <2>4. globalSignalChan' \in 0 .. channels
      BY <1>1, <2>2 DEF ChannelTypes
    <2>5. registered' \in BOOLEAN /\ shuttingDown' \in BOOLEAN
      BY <1>1, <2>3 DEF ChannelTypes
    <2>6. QED
      BY <1>1, <2>1, <2>4, <2>5 DEF ChannelTypes
  <1>5. PoolTypes'
    <2>1. CASE ShutdownPools(c)
      <3>1. OwnerTypes'
        BY <1>1, <2>1 DEF ShutdownPools, Stopping, PoolTypes, OwnerTypes
      <3>2. starting' \subseteq Owners
        BY <1>1, <2>1 DEF ShutdownPools, PoolTypes
      <3>3. QED
        BY <1>1, <2>1, <3>1, <3>2 DEF ShutdownPools, list, registration, PoolTypes
    <2>2. CASE ~ShutdownPools(c)
      <3>1. UNCHANGED <<owners, list, handlerLock, history>>
        BY <2>2 DEF HandlerStep, Receive, SetShuttingDown, PoolsDown, ShutdownTimeout,
                    Unregister, Exit, registration
      <3>2. QED
        BY <1>1, <3>1 DEF owners, list, history, PoolTypes, OwnerTypes
    <2>3. QED
      BY <2>1, <2>2
  <1>6. QED
    BY <1>2, <1>3, <1>4, <1>5, TypePartsPrimed

LEMMA SignalType ==
  ASSUME TypeOK, Signal
  PROVE  TypeOK'
  <1>1. PoolTypes /\ ChannelTypes /\ SignalTypes /\ HandlerTypes
    BY TypeParts
  <1>2. UNCHANGED <<owners, list, registration, history, handler, targets>>
    BY DEF Signal
  <1>3. PoolTypes' /\ ChannelTypes' /\ HandlerTypes'
    BY <1>1, <1>2 DEF PoolTypes, OwnerTypes, ChannelTypes, HandlerTypes,
                      owners, list, registration, history
  <1>4. globalSignalChan # 0 => globalSignalChan \in Channels
    BY <1>1 DEF ChannelTypes, Channels
  <1>5. full' \subseteq Channels /\ process' \in {"runs", "killed", "exited"}
    BY <1>1, <1>4 DEF Signal, SignalTypes
  <1>6. signals' \in 0 .. MaxSignals
    BY <1>1 DEF Signal, SignalTypes
  <1>7. SignalTypes'
    BY <1>1, <1>2, <1>5, <1>6 DEF SignalTypes
  <1>8. QED
    BY <1>3, <1>7, TypePartsPrimed

\* Every variable keeps its type, and there is a cleanup once there is a channel:
\* initialization of the signal handlers makes both (global_pool_manager.go).
THEOREM RegistryTypeCorrect == Spec => []TypeOK
  <1>1. ASSUME Init PROVE TypeOK
    <2>1. PoolTypes /\ SignalTypes /\ HandlerTypes
      BY <1>1 DEF Init, PoolTypes, OwnerTypes, SignalTypes, HandlerTypes
    <2>2. channels = 0 /\ globalSignalChan = 0 /\ signalCleanup = FALSE
          /\ registered = FALSE /\ shuttingDown = FALSE
      BY <1>1 DEF Init
    <2>3. ChannelTypes
      <3>1. (channels > 0) = FALSE
        BY <2>2
      <3>2. channels \in 0 .. Handlers /\ globalSignalChan \in 0 .. channels
        BY <2>2
      <3>3. QED
        BY <2>2, <3>1, <3>2 DEF ChannelTypes
    <2>4. QED
      BY <2>1, <2>3, TypeParts
  <1>2. TypeOK /\ [Next]_registryVars => TypeOK'
    <2>1. ASSUME TypeOK, UNCHANGED registryVars PROVE TypeOK'
      BY <2>1 DEF registryVars, owners, list, registration, handling, history, TypeOK
    <2>2. QED
      BY <2>1, OwnerStepType, HandlerStepType, SignalType DEF Next
  <1>3. QED
    BY <1>1, <1>2, PTL DEF Spec

-------------------------------------------------------------------------------
\* The locks keep nobody waiting but a stuck owner does: while none is stuck, the
\* lock of the handlers is free, and who has the lock of the list is about to
\* clean up, for which it waits for the lock of the handlers only.
OnlyStuckBlocks ==
  process = "runs" /\ Stuck = {} =>
    /\ handlerLock = Nobody
    /\ listLock # Nobody => owner[listLock] = "cleaning"

\* Release and a signal can wait for each other for ever only through
\* cleanupSignalHandlers calling signalCleanup with its own lock held.
THEOREM LocksAreFreed == Spec => []OnlyStuckBlocks
  <1>1. RegistryInv /\ TypeOK => OnlyStuckBlocks
    BY DEF RegistryInv, Locks, TypeOK, OnlyStuckBlocks, Stuck
  <1>2. QED
    BY Invariance, RegistryTypeCorrect, <1>1, PTL

\* An owner that is stuck never gets further, and while it is there no pool gets in
\* or out of the list: another release that waits for the list waits for ever.
LEMMA StuckStays ==
  ASSUME TypeOK, StuckHoldsLocks, NEW o \in Owners, owner[o] = "stuck", [Next]_registryVars
  PROVE  /\ owner'[o] = "stuck"
         /\ \A p \in Owners : owner[p] = "releasing" => owner'[p] = "releasing"
  <1>1. listLock = o /\ o # Nobody
    BY DEF StuckHoldsLocks, Stuck
  <1>2. owner \in [Owners -> {"out", "starting", "adding", "running", "releasing",
                              "cleaning", "stuck", "released", "failed"}]
    BY DEF TypeOK
  <1>3. ASSUME NEW p \in Owners, NEW from, NEW to, Go(p, from, to), from \notin {"stuck", "releasing"}
        PROVE  /\ owner'[o] = "stuck"
               /\ \A q \in Owners : owner[q] = "releasing" => owner'[q] = "releasing"
    BY <1>2, <1>3 DEF Go
  <1>4. CASE owner' = owner
    BY <1>4
  <1>5. ASSUME NEW p \in Owners, OwnerStep(p) \/ Release(p)
        PROVE  \E from, to : Go(p, from, to) /\ from \notin {"stuck", "releasing"}
    <2>1. ~RemoveWorkerPool(p)
      BY <1>1 DEF RemoveWorkerPool
    <2>2. CASE SkipRegistration(p) \/ RegisterSignalHandlers(p) \/ StartPool(p) \/ StartError(p)
      BY <2>2 DEF SkipRegistration, RegisterSignalHandlers, StartPool, StartError
    <2>3. CASE AddWorkerPool(p) \/ CleanupSignalHandlers(p) \/ Release(p)
      BY <2>3 DEF AddWorkerPool, CleanupSignalHandlers, Release
    <2>4. QED
      BY <1>5, <2>1, <2>2, <2>3 DEF OwnerStep
  <1>6. ASSUME NEW p \in Owners, CriticalError(p) \/ PoolDown(p)
        PROVE  owner' = owner
    BY <1>6 DEF CriticalError, PoolDown
  <1>7. ASSUME NEW c \in Channels, HandlerStep(c)
        PROVE  owner' = owner
    BY <1>7 DEF HandlerStep, Receive, SetShuttingDown, ShutdownPools, PoolsDown, ShutdownTimeout,
                Unregister, Exit, owners
  <1>8. Signal \/ UNCHANGED registryVars => owner' = owner
    BY DEF Signal, registryVars, owners
  <1>9. QED
    BY <1>3, <1>4, <1>5, <1>6, <1>7, <1>8 DEF Next

\* The deadlock of cleanupSignalHandlers is for good, and it takes every other
\* release of the process with it.
THEOREM StuckForGood ==
  ASSUME NEW o \in Owners, NEW p \in Owners
  PROVE  Spec => [](owner[o] = "stuck" =>
                      /\ [](owner[o] = "stuck" /\ allWorkerPools = {})
                      /\ owner[p] = "releasing" => [](owner[p] = "releasing"))
  <1>1. TypeOK /\ StuckHoldsLocks /\ owner[o] = "stuck" /\ [Next]_registryVars
        => (owner[o] = "stuck")'
    BY StuckStays
  <1>2. /\ TypeOK /\ StuckHoldsLocks /\ owner[o] = "stuck" /\ owner[p] = "releasing"
        /\ [Next]_registryVars
        => (owner[p] = "releasing")'
    BY StuckStays
  <1>3. StuckHoldsLocks /\ owner[o] = "stuck" => allWorkerPools = {}
    BY DEF StuckHoldsLocks, Stuck
  <1>4. QED
    BY <1>1, <1>2, <1>3, RegistryTypeCorrect, StuckOwnersHoldLocks, PTL DEF Spec
===============================================================================
