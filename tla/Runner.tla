--------------------------------- MODULE Runner ---------------------------------
(***************************************************************************)
(* One call of Run, RunOnce or RunMigrations (pkg/runner), of GetUtils-    *)
(* AndReleasersFromOptions or of RunOnce (pkg/worker), and what follows    *)
(* from it: the pool it opens or is given, the crontab it parses, the      *)
(* worker it runs, the goroutine that releases what Run holds, and the     *)
(* callers of Stop, AddJob and Promise.                                    *)
(*                                                                         *)
(* WorkerLoop has the insides of the worker, CronScheduler those of the    *)
(* scheduler, Migrator those of the migration.                             *)
(***************************************************************************)
EXTENDS CronPattern

CONSTANTS
  Crontabs,   \* values of the option Crontab, parsed into lines
  Digests,    \* minutes to match
  Once,       \* goroutines of RunOnce, Concurrency of them
  Stoppers,   \* callers of Stop
  Adders,     \* callers of AddJob
  Readers     \* receivers of the channel Promise returns

ASSUME CrontabsAreLines ==
  \A c \in Crontabs :
    /\ Len(c) \in Nat /\ DOMAIN c = 1 .. Len(c)
    /\ \A i \in DOMAIN c : \A f \in Fields : \A part \in Range(c[i].pattern[f]) : IsPart(part)

ASSUME DigestsAreMinutes == \A d \in Digests : \A f \in Fields : d[f] \in Bounds[f]

Entries == {"Run", "RunOnce", "RunMigrations", "GetUtils", "worker.RunOnce"}

VARIABLES
  entry,       \* the function that is called
  owned,       \* it opens a pool of its own
  pool,        \* that pool, or the one it is given
  call,        \* where the call is
  answer,      \* whether it succeeds
  crontab,     \* options.Crontab, until the call returns
  items,       \* cronItems, until the call returns
  cron,        \* the scheduler runs
  worker,      \* what the goroutine of Run does
  result,      \* what Worker.Run has returned
  ctxDone,     \* its context is cancelled
  once,        \* what each goroutine of RunOnce does
  stopped,     \* Runner.stopped
  stopCh,      \* it is closed
  completeCh,  \* the errors in completeCh, at most one
  stopMutex,   \* holders of the write lock
  stop,        \* what each call of Stop does, or has returned
  adding,      \* callers of AddJob that hold the read lock
  read         \* what each receiver has received

called == <<entry, owned, pool, call, answer>>
cronVars == <<crontab, items, cron>>
working == <<worker, result, ctxDone, once>>
stopping == <<stopped, stopCh, completeCh, stopMutex, stop, adding, read>>
runnerVars == <<called, cronVars, working, stopping>>

\* A pool that is given to the call stays open.
Init ==
  /\ entry \in Entries /\ owned \in BOOLEAN
  /\ pool = IF owned THEN "none" ELSE "open"
  /\ call = "pool" /\ answer = "none"
  /\ crontab = <<>> /\ items = <<>> /\ cron = FALSE
  /\ worker = "off" /\ result = "none" /\ ctxDone = FALSE
  /\ once = [g \in Once |-> "off"]
  /\ stopped = FALSE /\ stopCh = FALSE /\ completeCh = {}
  /\ stopMutex = {}
  /\ stop = [s \in Stoppers |-> "out"]
  /\ adding = {}
  /\ read = [r \in Readers |-> "none"]

(***************************************************************************)
(* Options: pool, tasks, migration.                                        *)
(***************************************************************************)
HasTasks == entry \in {"Run", "RunOnce", "worker.RunOnce"}

Fail == call' = "releasing" /\ answer' = "error"

\* The pool that was opened may not answer the ping.
AssertPool ==
  /\ call = "pool"
  /\ pool' \in IF owned THEN {"none", "open"} ELSE {pool}
  /\ \/ pool' = "open" /\ call' = (IF HasTasks THEN "tasks" ELSE "migrate")
        /\ UNCHANGED answer
     \/ Fail
  /\ UNCHANGED <<entry, owned, cronVars, working, stopping>>

\* RunOnce of pkg/worker does not migrate, and keeps its pool until it is done.
AssertTaskList ==
  /\ call = "tasks"
  /\ \/ call' = (IF entry = "worker.RunOnce" THEN "once" ELSE "migrate")
        /\ UNCHANGED answer
     \/ Fail
  /\ UNCHANGED <<entry, owned, pool, cronVars, working, stopping>>

Migrate ==
  /\ call = "migrate"
  /\ call' = "releasing"
  /\ answer' \in {"error", "ok"}
  /\ UNCHANGED <<entry, owned, pool, cronVars, working, stopping>>

\* (mutant) the releasers are not called when the callback fails
ReleaseAllOnSuccess ==
  IF owned /\ pool = "open" /\ answer = "ok" THEN "closed" ELSE pool

\* ReleaseAll, however the callback of WithReleasers ended.
ReleaseAll == IF owned /\ pool = "open" THEN "closed" ELSE pool

WithReleasers ==
  /\ call = "releasing"
  /\ pool' = ReleaseAll
  /\ call' = IF answer = "error" THEN "returned"
             ELSE CASE entry = "Run" -> "parse"
                    [] entry = "RunOnce" -> "once"
                    [] OTHER -> "returned"
  /\ UNCHANGED <<entry, owned, answer, cronVars, working, stopping>>

(***************************************************************************)
(* RunOnce: Concurrency goroutines over one worker, or a single call.      *)
(***************************************************************************)
RunOnce ==
  /\ call = "once" /\ \A g \in Once : once[g] = "off"
  /\ \E some \in SUBSET Once :
       /\ some # {} /\ (entry = "worker.RunOnce" => Cardinality(some) = 1)
       /\ once' = [g \in Once |-> IF g \in some THEN "running" ELSE "off"]
  /\ UNCHANGED <<called, cronVars, worker, result, ctxDone, stopping>>

OnceStep(g, from, to) ==
  /\ once[g] = from
  /\ once' = [once EXCEPT ![g] = to]
  /\ UNCHANGED <<called, cronVars, worker, result, ctxDone, stopping>>

OnceGetsJob(g) == pool = "open" /\ OnceStep(g, "running", "busy")
OnceHandlerReturns(g) == OnceStep(g, "busy", "running")
OnceGetsNothing(g) == pool = "open" /\ OnceStep(g, "running", "ok")
OnceGetError(g) == OnceStep(g, "running", "failed")

\* (mutant) RunOnce returns on the first error
WaitForError == \E g \in Once : once[g] = "failed"

\* wg.Wait
Waited ==
  /\ \E g \in Once : once[g] # "off"
  /\ \A g \in Once : once[g] \notin {"running", "busy"}

OnceReturns ==
  /\ call = "once" /\ Waited
  /\ call' = "returned"
  /\ answer' = IF \E g \in Once : once[g] = "failed" THEN "error" ELSE "ok"
  /\ pool' = IF owned THEN "closed" ELSE pool
  /\ UNCHANGED <<entry, owned, cronVars, working, stopping>>

(***************************************************************************)
(* Run.                                                                    *)
(***************************************************************************)
GetParsedCronItems ==
  /\ call = "parse"
  /\ crontab' \in Crontabs
  /\ IF CrontabError(crontab')
     THEN call' = "returned" /\ answer' = "error" /\ UNCHANGED items
     ELSE call' = "cron" /\ items' = ItemsOf(crontab') /\ UNCHANGED answer
  /\ UNCHANGED <<entry, owned, pool, cron, working, stopping>>

\* The goroutine starts.
Started ==
  /\ call' = "returned" /\ answer' = "ok"
  /\ worker' = "running"

\* Without items there is no scheduler; with them its Start registers them,
\* which the closed pool refuses.
RunCron ==
  /\ call = "cron"
  /\ cron' = (items # <<>>)
  /\ items # <<>> => pool = "open"
  /\ Started
  /\ crontab' = <<>> /\ items' = <<>>
  /\ UNCHANGED <<entry, owned, pool, result, ctxDone, once, stopping>>

RunCronError ==
  /\ call = "cron" /\ items # <<>>
  /\ call' = "returned" /\ answer' = "error"
  /\ crontab' = <<>> /\ items' = <<>>
  /\ UNCHANGED <<entry, owned, pool, cron, working, stopping>>

(***************************************************************************)
(* The goroutine of Run.                                                   *)
(***************************************************************************)
Worker(from, to) ==
  /\ worker = from /\ worker' = to
  /\ UNCHANGED <<entry, owned, call, answer, crontab, items, once>>

GetJob ==
  /\ pool = "open" /\ ~ctxDone
  /\ Worker("running", "busy")
  /\ UNCHANGED <<pool, cron, result, ctxDone, stopping>>

HandlerReturns ==
  /\ Worker("busy", "running")
  /\ UNCHANGED <<pool, cron, result, ctxDone, stopping>>

\* Too many errors in a row, the only outcome on a closed pool.
WorkerFails ==
  /\ Worker("running", "ended")
  /\ result' = "failed"
  /\ UNCHANGED <<pool, cron, ctxDone, stopping>>

\* Worker.Run returns ctx.Err()
WorkerCanceled ==
  /\ ctxDone
  /\ Worker("running", "ended")
  /\ result' = "canceled"
  /\ UNCHANGED <<pool, cron, ctxDone, stopping>>

\* <-runner.stopCh, which waits on when the worker ends by itself
CancelOnStop ==
  /\ stopCh /\ ~ctxDone
  /\ ctxDone' = TRUE
  /\ UNCHANGED <<called, cronVars, worker, result, once, stopping>>

\* runner.completeCh <- err, and the deferred cancel.
Complete ==
  /\ completeCh = {}
  /\ Worker("ended", "releasing")
  /\ completeCh' = {result}
  /\ ctxDone' = TRUE
  /\ UNCHANGED <<pool, cron, result, stopped, stopCh, stopMutex, stop, adding, read>>

\* The releasers, in the order in which they were added.
ClosePool ==
  /\ Worker("releasing", "closed")
  /\ pool' = IF owned THEN "closed" ELSE pool
  /\ UNCHANGED <<cron, result, ctxDone, stopping>>

StopCron ==
  /\ Worker("closed", "gone")
  /\ cron' = FALSE
  /\ UNCHANGED <<pool, result, ctxDone, stopping>>

(***************************************************************************)
(* Stop, AddJob and Promise of the Runner that Run has returned.           *)
(***************************************************************************)
HasRunner == entry = "Run" /\ call = "returned" /\ answer = "ok"

StopGoes(s, from, to) ==
  /\ stop[s] = from
  /\ stop' = [stop EXCEPT ![s] = to]
  /\ UNCHANGED <<called, cronVars, working, adding, read>>

Stop(s) ==
  /\ HasRunner
  /\ StopGoes(s, "out", "locking")
  /\ UNCHANGED <<stopped, stopCh, completeCh, stopMutex>>

Locked == stopMutex = {} /\ adding = {}

\* runner is already stopped
StopAgain(s) ==
  /\ Locked /\ stopped
  /\ StopGoes(s, "locking", "already")
  /\ UNCHANGED <<stopped, stopCh, completeCh, stopMutex>>

\* The lock is held until the worker has ended.
StopLocked(s) ==
  /\ Locked /\ ~stopped
  /\ StopGoes(s, "locking", "waiting")
  /\ stopMutex' = {s}
  /\ stopped' = TRUE /\ stopCh' = TRUE
  /\ UNCHANGED completeCh

\* Emit panics on a bus of the options that was closed meanwhile: stopCh stays
\* open, and the deferred Unlock lets the next one learn that it is stopped.
StopPanics(s) ==
  /\ Locked /\ ~stopped
  /\ StopGoes(s, "locking", "panic")
  /\ stopped' = TRUE
  /\ UNCHANGED <<stopCh, completeCh, stopMutex>>

\* case err := <-r.completeCh
StopCompleted(s) ==
  /\ completeCh # {}
  /\ StopGoes(s, "waiting", IF "canceled" \in completeCh THEN "nil" ELSE "failed")
  /\ completeCh' = {} /\ stopMutex' = {}
  /\ UNCHANGED <<stopped, stopCh>>

\* (mutant) no timeout
StopTimeoutNever(s) == FALSE /\ UNCHANGED runnerVars

\* (mutant) the timeout is no error
StopTimeoutNil(s) ==
  /\ StopGoes(s, "waiting", "nil")
  /\ stopMutex' = {}
  /\ UNCHANGED <<stopped, stopCh, completeCh>>

\* case <-time.After(30 * time.Second)
StopTimeout(s) ==
  /\ StopGoes(s, "waiting", "timeout")
  /\ stopMutex' = {}
  /\ UNCHANGED <<stopped, stopCh, completeCh>>

\* A writer that waits for the lock keeps new readers out.
AddJob(a) ==
  /\ HasRunner /\ a \notin adding
  /\ stopMutex = {} /\ \A s \in Stoppers : stop[s] # "locking"
  /\ ~stopped
  /\ adding' = adding \cup {a}
  /\ UNCHANGED <<called, cronVars, working, stopped, stopCh, completeCh, stopMutex, stop, read>>

AddJobReturns(a) ==
  /\ a \in adding
  /\ adding' = adding \ {a}
  /\ UNCHANGED <<called, cronVars, working, stopped, stopCh, completeCh, stopMutex, stop, read>>

Promise(r) ==
  /\ HasRunner /\ read[r] = "none"
  /\ \E e \in completeCh : read' = [read EXCEPT ![r] = e]
  /\ completeCh' = {}
  /\ UNCHANGED <<called, cronVars, working, stopped, stopCh, stopMutex, stop, adding>>

(***************************************************************************)
(* The specification.                                                      *)
(***************************************************************************)
OptionsStep == AssertPool \/ AssertTaskList \/ Migrate \/ WithReleasers
CronStep == GetParsedCronItems \/ RunCron \/ RunCronError
OnceJob(g) == OnceGetsJob(g) \/ OnceGetsNothing(g) \/ OnceGetError(g)
WorkerEnds == CancelOnStop \/ WorkerCanceled \/ Complete \/ ClosePool \/ StopCron
StopTaken(s) == StopAgain(s) \/ StopLocked(s) \/ StopPanics(s)
StopStep(s) == StopTaken(s) \/ StopCompleted(s) \/ StopTimeout(s)

Next ==
  \/ OptionsStep \/ CronStep
  \/ RunOnce \/ OnceReturns
  \/ \E g \in Once : OnceJob(g) \/ OnceHandlerReturns(g)
  \/ GetJob \/ HandlerReturns \/ WorkerFails \/ WorkerEnds
  \/ \E s \in Stoppers : Stop(s) \/ StopStep(s)
  \/ \E a \in Adders : AddJob(a) \/ AddJobReturns(a)
  \/ \E r \in Readers : Promise(r)

Spec == Init /\ [][Next]_runnerVars

\* Statements and waits end.  A handler need not return, the worker need not meet
\* an error, and nobody has to call Stop.
FairSpec ==
  /\ Spec
  /\ WF_runnerVars(WorkerEnds)
  /\ \A s \in Stoppers : WF_runnerVars(StopStep(s))
  /\ \A a \in Adders : WF_runnerVars(AddJobReturns(a))

-------------------------------------------------------------------------------
Replies == {"nil", "failed", "timeout", "already", "panic"}

\* Every variable has its type; a Stop holds the lock exactly while it waits, and
\* RunOnce returns when its goroutines have ended.
TypeOK ==
  /\ entry \in Entries /\ owned \in BOOLEAN
  /\ pool \in {"none", "open", "closed"}
  /\ call \in {"pool", "tasks", "migrate", "releasing", "parse", "cron", "once", "returned"}
  /\ answer \in {"none", "ok", "error"}
  /\ crontab \in Crontabs \cup {<<>>} /\ Len(items) \in {0, Len(crontab)}
  /\ cron \in BOOLEAN /\ ctxDone \in BOOLEAN
  /\ worker \in {"off", "running", "busy", "ended", "releasing", "closed", "gone"}
  /\ result \in {"none", "failed", "canceled"}
  /\ once \in [Once -> {"off", "running", "busy", "ok", "failed"}]
  /\ call = "returned" => \A g \in Once : once[g] \in {"off", "ok", "failed"}
  /\ stopped \in BOOLEAN /\ stopCh \in BOOLEAN /\ (stopCh => stopped)
  /\ completeCh \subseteq {"failed", "canceled"}
  /\ stop \in [Stoppers -> {"out", "locking", "waiting"} \cup Replies]
  /\ stopMutex = {s \in Stoppers : stop[s] = "waiting"}
  /\ adding \subseteq Adders
  /\ read \in [Readers -> {"none", "failed", "canceled"}]

\* Stop returns nil only when the worker has ended because it was stopped, and an
\* error of the worker only when it has failed; one of all receivers and calls
\* of Stop gets the end of the worker, once; no job is added after Stop has
\* taken effect; and of all calls of Stop one takes effect, if only to panic.
StopTellsTheTruth ==
  LET Told(e) == {s \in Stoppers : stop[s] = e}
      takers == Told("nil") \cup Told("failed") \cup {r \in Readers : read[r] # "none"}
  IN /\ Told("nil") # {} => stopCh /\ result = "canceled"
     /\ Told("failed") # {} => result = "failed"
     /\ Cardinality(takers) + Cardinality(completeCh) <= 1
     /\ takers # {} => worker \in {"releasing", "closed", "gone"}
     /\ stopped => adding = {}
     /\ Cardinality(stopMutex \cup Told("nil") \cup Told("failed") \cup Told("timeout")
                      \cup Told("panic")) <= 1

\* A pool that is given is never closed.  One that the call opens is open after the
\* call only for the worker of the Runner it returned, however the call ended and
\* whichever of its steps failed; it is open as long as a handler runs over it; and
\* a scheduler runs only for a Runner that has still to stop it.
ReleasesWhatItHolds ==
  /\ ~owned => pool = "open"
  /\ owned /\ pool = "open" /\ call = "returned" =>
       HasRunner /\ worker \notin {"closed", "gone"}
  /\ worker = "busy" \/ (\E g \in Once : once[g] = "busy") => pool = "open"
  /\ cron => HasRunner /\ worker # "gone"

\* "Run starts a runner that runs until stopped": until its worker has ended, a
\* Runner has a pool to work with.
RunsUntilStopped == worker \in {"running", "busy"} => pool = "open"

\* Whoever calls Stop gets an answer, even if a handler never returns; and once the
\* worker has ended, whether it was stopped or not, the scheduler is stopped too.
StopReleases ==
  /\ \A s \in Stoppers : stop[s] = "locking" ~> stop[s] \in Replies
  /\ worker = "ended" ~> worker = "gone" /\ ~cron

\* The items of a crontab fire in exactly the minutes its lines are written for,
\* whatever the order, the overlaps and the bounds of their parts, and no two
\* have the same identifier.  Lines with steps that the parser counts from another
\* number than the documentation are excepted.
PatternsFireAsWritten ==
  /\ \A i \in DOMAIN items :
       /\ \A f \in Fields : \A k \in 2 .. Len(items[i].numbers[f]) :
            items[i].numbers[f][k - 1] < items[i].numbers[f][k]
       /\ StepsAgree(crontab[i].pattern) =>
            \A d \in Digests : Matches(items[i], d) <=> FiresAt(crontab[i].pattern, d)
  /\ Cardinality({items[i].identifier : i \in DOMAIN items}) = Len(items)
===============================================================================
