------------------------------ MODULE RunnerProofs ------------------------------
(***************************************************************************)
(* What holds of Runner for any crontabs, any number of goroutines of      *)
(* RunOnce and any callers of Stop, AddJob and Promise: its types, what    *)
(* the answers of Stop say, what is released when, and when crontabs fire. *)
(***************************************************************************)
EXTENDS Runner, FiniteSetTheorems, SequenceTheorems, TLAPS

(***************************************************************************)
(* The invariants.                                                         *)
(***************************************************************************)
\* A pool the call opens is not open any more when there is a worker to run.
CallInv ==
  /\ entry \in Entries /\ owned \in BOOLEAN
  /\ pool \in {"none", "open", "closed"}
  /\ call \in {"pool", "tasks", "migrate", "releasing", "parse", "cron", "once", "returned"}
  /\ answer \in {"none", "ok", "error"}
  /\ ~owned => pool = "open"
  /\ owned /\ call \in {"parse", "cron", "returned"} => pool # "open"
  /\ owned /\ call = "once" => pool # "open" \/ entry = "worker.RunOnce"
  /\ call \in {"parse", "cron"} => entry = "Run"

ItemsInv ==
  /\ crontab \in Crontabs \cup {<<>>}
  /\ Len(items) \in {0, Len(crontab)}
  /\ call # "cron" => items = <<>>

\* Goroutines run inside RunOnce, the worker once Run has returned a Runner; a
\* handler has a pool, and a scheduler a worker that will stop it.
JobsInv ==
  /\ once \in [Once -> {"off", "running", "busy", "ok", "failed"}]
  /\ \A g \in Once : once[g] \in {"running", "busy"} => call = "once"
  /\ worker # "off" => HasRunner
  /\ worker = "busy" => pool = "open"
  /\ \A g \in Once : once[g] = "busy" => pool = "open"
  /\ cron \in BOOLEAN
  /\ cron => worker \notin {"off", "gone"}

Past == {"releasing", "closed", "gone"}

\* The context of the worker is cancelled by a Stop or by the worker's own end.
ResultInv ==
  /\ worker \in {"off", "running", "busy", "ended"} \cup Past
  /\ result \in {"none", "failed", "canceled"}
  /\ result = "none" <=> worker \in {"off", "running", "busy"}
  /\ ctxDone \in BOOLEAN /\ stopped \in BOOLEAN /\ stopCh \in BOOLEAN /\ (stopCh => stopped)
  /\ ctxDone => stopCh \/ worker \in Past
  /\ result = "canceled" => stopCh

\* The calls of Stop that have closed stopCh, or have panicked before it.
Effective == {s \in Stoppers : stop[s] \in {"waiting", "nil", "failed", "timeout", "panic"}}

\* One call of Stop at a time waits, and holds the lock while it does; and one takes
\* effect.
LockInv ==
  /\ stop \in [Stoppers -> {"out", "locking", "waiting"} \cup Replies]
  /\ stopMutex = {s \in Stoppers : stop[s] = "waiting"}
  /\ \A s, t \in stopMutex : s = t
  /\ adding \subseteq Adders
  /\ stopped => adding = {}
  /\ Effective # {} => stopped
  /\ \A s, t \in Effective : s = t

\* Those who have received the end of the worker.
Takers ==
  {s \in Stoppers : stop[s] \in {"nil", "failed"}} \cup {r \in Readers : read[r] # "none"}

\* The end of the worker is in completeCh or with one taker.
EndInv ==
  /\ read \in [Readers -> {"none", "failed", "canceled"}]
  /\ \A e \in completeCh : e = result
  /\ completeCh # {} \/ Takers # {} => worker \in Past
  /\ Takers # {} => completeCh = {}
  /\ \A x, y \in Takers : x = y
  /\ \A s \in Stoppers : /\ stop[s] = "nil" => result = "canceled"
                         /\ stop[s] = "failed" => result = "failed"

RunnerInv == CallInv /\ ItemsInv /\ JobsInv /\ ResultInv /\ LockInv /\ EndInv

-------------------------------------------------------------------------------
(***************************************************************************)
(* Lemmas.                                                                 *)
(***************************************************************************)
\* The length of a function that is a sequence.
LEMMA LengthOf ==
  ASSUME NEW n \in Nat, NEW R, NEW s \in [1 .. n -> R]
  PROVE  Len(s) = n
<1>. DEFINE m == Len(s)
<1>1. s \in Seq(R)
  OBVIOUS
<1>2. m \in Nat /\ 1 .. n = 1 .. m
  BY <1>1, LenProperties
<1>. HIDE DEF m
<1>3. \A a, b \in Nat : 1 .. a = 1 .. b => a <= b
  <2>. SUFFICES ASSUME NEW a \in Nat, NEW b \in Nat, 1 .. a = 1 .. b PROVE a <= b
    OBVIOUS
  <2>1. CASE a = 0
    BY <2>1
  <2>2. CASE a # 0
    <3>1. a \in 1 .. a
      BY <2>2
    <3>. QED  BY <3>1
  <2>. QED  BY <2>1, <2>2
<1>4. n <= m /\ m <= n
  BY <1>2, <1>3, Zenon
<1>5. m = n
  BY <1>2, <1>4
<1>. QED  BY <1>5 DEF m

\* An item for each line.
LEMMA ItemForEachLine ==
  ASSUME NEW c \in Crontabs
  PROVE  Len(ItemsOf(c)) = Len(c)
<1>. DEFINE n == Len(c)
            s == [i \in 1 .. n |-> Parse(c[i])]
            R == {s[i] : i \in 1 .. n}
<1>1. DOMAIN c = 1 .. n /\ n \in Nat
  BY CrontabsAreLines
<1>2. s \in [1 .. n -> R]
  OBVIOUS
<1>3. Len(s) = n
  <2>. HIDE DEF s, n, R
  <2>. QED  BY <1>1, <1>2, LengthOf
<1>. QED  BY <1>1, <1>3 DEF ItemsOf

LEMMA CallKept ==
  ASSUME RunnerInv, Next
  PROVE  CallInv'
<1>. USE DEF RunnerInv, CallInv
<1>1. CASE OptionsStep
  <2>1. CASE AssertPool
    BY <2>1 DEF AssertPool, Fail, HasTasks
  <2>2. CASE AssertTaskList
    BY <2>2 DEF AssertTaskList, Fail
  <2>3. CASE Migrate
    BY <2>3 DEF Migrate
  <2>4. CASE WithReleasers
    BY <2>4 DEF WithReleasers, ReleaseAll, Entries
  <2>. QED  BY <1>1, <2>1, <2>2, <2>3, <2>4 DEF OptionsStep
<1>2. CASE CronStep
  BY <1>2 DEF CronStep, GetParsedCronItems, RunCron, RunCronError, Started
<1>3. CASE OnceReturns
  BY <1>3 DEF OnceReturns
<1>4. CASE ClosePool
  BY <1>4 DEF ClosePool, Worker
<1>5. CASE UNCHANGED called
  BY <1>5 DEF called
<1>6. RunOnce \/ GetJob \/ HandlerReturns \/ WorkerFails \/ CancelOnStop \/ WorkerCanceled
        \/ Complete \/ StopCron => UNCHANGED called
  BY DEF RunOnce, GetJob, HandlerReturns, WorkerFails, CancelOnStop, WorkerCanceled, Complete,
         StopCron, Worker, called
<1>7. \A g \in Once : OnceJob(g) \/ OnceHandlerReturns(g) => UNCHANGED called
  BY DEF OnceJob, OnceGetsJob, OnceGetsNothing, OnceGetError, OnceHandlerReturns, OnceStep
<1>8. \A s \in Stoppers : Stop(s) \/ StopStep(s) => UNCHANGED called
  BY DEF Stop, StopStep, StopTaken, StopAgain, StopLocked, StopPanics, StopCompleted, StopTimeout,
         StopGoes
<1>9. /\ \A a \in Adders : AddJob(a) \/ AddJobReturns(a) => UNCHANGED called
      /\ \A r \in Readers : Promise(r) => UNCHANGED called
  BY DEF AddJob, AddJobReturns, Promise
<1>. QED  BY <1>1, <1>2, <1>3, <1>4, <1>5, <1>6, <1>7, <1>8, <1>9 DEF Next, WorkerEnds

\* Who changes the items.
LEMMA ItemsChange ==
  ASSUME Next
  PROVE  \/ GetParsedCronItems \/ RunCron \/ RunCronError
         \/ UNCHANGED <<crontab, items>> /\ (call # "cron" \/ UNCHANGED call)
<1>. DEFINE Same == UNCHANGED <<crontab, items>> /\ (call # "cron" \/ UNCHANGED call)
<1>1. OptionsStep \/ OnceReturns => Same
  BY DEF OptionsStep, AssertPool, AssertTaskList, Migrate, WithReleasers, OnceReturns, cronVars
<1>2. RunOnce \/ GetJob \/ HandlerReturns \/ WorkerFails \/ WorkerEnds => Same
  BY DEF RunOnce, GetJob, HandlerReturns, WorkerFails, WorkerEnds, CancelOnStop, WorkerCanceled,
         Complete, ClosePool, StopCron, Worker, called, cronVars
<1>3. \A g \in Once : OnceJob(g) \/ OnceHandlerReturns(g) => Same
  BY DEF OnceJob, OnceGetsJob, OnceGetsNothing, OnceGetError, OnceHandlerReturns, OnceStep,
         called, cronVars
<1>4. \A s \in Stoppers : Stop(s) \/ StopStep(s) => Same
  BY DEF Stop, StopStep, StopTaken, StopAgain, StopLocked, StopPanics, StopCompleted, StopTimeout,
         StopGoes, called, cronVars
<1>5. /\ \A a \in Adders : AddJob(a) \/ AddJobReturns(a) => Same
      /\ \A r \in Readers : Promise(r) => Same
  BY DEF AddJob, AddJobReturns, Promise, called, cronVars
<1>. QED  BY <1>1, <1>2, <1>3, <1>4, <1>5 DEF Next, CronStep

LEMMA ItemsKept ==
  ASSUME RunnerInv, Next
  PROVE  ItemsInv'
<1>. USE DEF RunnerInv, ItemsInv
<1>1. Len(<<>>) = 0
  OBVIOUS
<1>2. CASE GetParsedCronItems
  <2>1. CASE CrontabError(crontab')
    BY <1>1, <1>2, <2>1 DEF GetParsedCronItems
  <2>2. CASE ~CrontabError(crontab')
    <3>1. PICK c \in Crontabs : crontab' = c /\ items' = ItemsOf(c)
      BY <1>2, <2>2 DEF GetParsedCronItems
    <3>2. call' = "cron"
      BY <1>2, <2>2 DEF GetParsedCronItems
    <3>. QED  BY <3>1, <3>2, ItemForEachLine
  <2>. QED  BY <2>1, <2>2
<1>3. CASE RunCron \/ RunCronError
  BY <1>1, <1>3 DEF RunCron, RunCronError
<1>4. CASE UNCHANGED <<crontab, items>> /\ (call # "cron" \/ UNCHANGED call)
  BY <1>4
<1>. QED  BY <1>2, <1>3, <1>4, ItemsChange

LEMMA JobsKept ==
  ASSUME RunnerInv, Next
  PROVE  JobsInv'
<1>. USE DEF RunnerInv, CallInv, JobsInv, HasRunner
<1>1. CASE OptionsStep
  <2>1. /\ UNCHANGED <<entry, once, worker, cron>>
        /\ call \notin {"once", "returned"}
    BY <1>1 DEF OptionsStep, AssertPool, AssertTaskList, Migrate, WithReleasers, cronVars, working
  <2>2. worker = "off" /\ \A g \in Once : once[g] \notin {"running", "busy"}
    BY <2>1
  <2>. QED  BY <2>1, <2>2
<1>2. CASE CronStep
  <2>1. UNCHANGED once /\ call # "once" /\ worker = "off" /\ ~cron
    BY <1>2 DEF CronStep, GetParsedCronItems, RunCron, RunCronError, working
  <2>2. \A g \in Once : once[g] \notin {"running", "busy"}
    BY <2>1
  <2>3. CASE UNCHANGED <<worker, cron>>
    BY <2>1, <2>2, <2>3
  <2>4. CASE RunCron
    <3>1. /\ entry = "Run" /\ call' = "returned" /\ answer' = "ok" /\ UNCHANGED entry
          /\ worker' = "running" /\ cron' \in BOOLEAN
      BY <2>4 DEF RunCron, Started
    <3>. QED  BY <2>1, <2>2, <3>1
  <2>. QED  BY <1>2, <2>3, <2>4 DEF CronStep, GetParsedCronItems, RunCronError, working
<1>3. CASE RunOnce
  <2>1. PICK some \in SUBSET Once :
          once' = [g \in Once |-> IF g \in some THEN "running" ELSE "off"]
    BY <1>3 DEF RunOnce
  <2>2. call = "once" /\ UNCHANGED <<called, cronVars, worker>>
    BY <1>3 DEF RunOnce
  <2>. QED  BY <2>1, <2>2 DEF called, cronVars
<1>4. ASSUME NEW g \in Once, OnceJob(g) \/ OnceHandlerReturns(g)
      PROVE  JobsInv'
  <2>1. PICK to \in {"busy", "running", "ok", "failed"} :
          /\ once' = [once EXCEPT ![g] = to]
          /\ to = "busy" => pool = "open"
    BY <1>4 DEF OnceJob, OnceGetsJob, OnceGetsNothing, OnceGetError, OnceHandlerReturns, OnceStep
  <2>2. once[g] \in {"running", "busy"} /\ UNCHANGED <<called, cronVars, worker>>
    BY <1>4 DEF OnceJob, OnceGetsJob, OnceGetsNothing, OnceGetError, OnceHandlerReturns, OnceStep
  <2>3. call = "once" /\ UNCHANGED <<entry, pool, call, answer, cron, worker>>
    BY <2>2 DEF called, cronVars
  <2>. QED  BY <2>1, <2>3
<1>5. CASE OnceReturns
  <2>1. /\ call = "once" /\ \A g \in Once : once[g] \notin {"running", "busy"}
        /\ UNCHANGED <<once, worker, cron>>
    BY <1>5 DEF OnceReturns, Waited, cronVars, working
  <2>2. worker = "off"
    BY <2>1
  <2>. QED  BY <2>1, <2>2
<1>6. CASE GetJob
  BY <1>6 DEF GetJob, Worker
<1>7. CASE HandlerReturns \/ WorkerFails \/ CancelOnStop \/ WorkerCanceled \/ Complete
  <2>1. /\ UNCHANGED <<entry, call, answer, once, pool, cron>>
        /\ worker' \in {worker, "running", "ended", "releasing"}
        /\ worker # "off" \/ UNCHANGED worker
    BY <1>7 DEF HandlerReturns, WorkerFails, CancelOnStop, WorkerCanceled, Complete,
                Worker, called, cronVars
  <2>. QED  BY <2>1
<1>8. CASE ClosePool \/ StopCron
  <2>1. /\ UNCHANGED <<entry, call, answer, once>> /\ worker # "off"
        /\ (worker' = "closed" /\ UNCHANGED cron) \/ (worker' = "gone" /\ cron' = FALSE)
    BY <1>8 DEF ClosePool, StopCron, Worker
  <2>2. \A g \in Once : once[g] \notin {"running", "busy"}
    BY <2>1
  <2>. QED  BY <2>1, <2>2
<1>9. CASE UNCHANGED <<called, cronVars, worker, once>>
  BY <1>9 DEF called, cronVars
<1>10. \A s \in Stoppers : Stop(s) \/ StopStep(s) => UNCHANGED <<called, cronVars, worker, once>>
  BY DEF Stop, StopStep, StopTaken, StopAgain, StopLocked, StopPanics, StopCompleted, StopTimeout,
         StopGoes, working
<1>11. /\ \A a \in Adders :
            AddJob(a) \/ AddJobReturns(a) => UNCHANGED <<called, cronVars, worker, once>>
       /\ \A r \in Readers : Promise(r) => UNCHANGED <<called, cronVars, worker, once>>
  BY DEF AddJob, AddJobReturns, Promise, working
<1>. QED  BY <1>1, <1>2, <1>3, <1>4, <1>5, <1>6, <1>7, <1>8, <1>9, <1>10, <1>11
          DEF Next, WorkerEnds

\* Who does not touch the end of the worker.
Quiet == UNCHANGED <<worker, result, ctxDone>>

LEMMA OthersQuiet ==
  ASSUME RunnerInv, Next
  PROVE  \/ RunCron \/ GetJob \/ HandlerReturns \/ WorkerFails \/ WorkerEnds
         \/ \E s \in Stoppers : StopStep(s) /\ Quiet
         \/ Quiet /\ UNCHANGED <<stopped, stopCh>>
<1>1. OptionsStep \/ GetParsedCronItems \/ RunCronError \/ RunOnce \/ OnceReturns
        => Quiet /\ UNCHANGED <<stopped, stopCh>>
  BY DEF OptionsStep, AssertPool, AssertTaskList, Migrate, WithReleasers, GetParsedCronItems,
         RunCronError, RunOnce, OnceReturns, Quiet, working, stopping
<1>2. \A g \in Once : OnceJob(g) \/ OnceHandlerReturns(g) => Quiet /\ UNCHANGED <<stopped, stopCh>>
  BY DEF OnceJob, OnceGetsJob, OnceGetsNothing, OnceGetError, OnceHandlerReturns, OnceStep,
         Quiet, stopping
<1>3. \A s \in Stoppers : /\ StopStep(s) => Quiet
                          /\ Stop(s) => Quiet /\ UNCHANGED <<stopped, stopCh>>
  BY DEF Stop, StopStep, StopTaken, StopAgain, StopLocked, StopPanics, StopCompleted, StopTimeout,
         StopGoes, Quiet, working
<1>4. /\ \A a \in Adders : AddJob(a) \/ AddJobReturns(a) => Quiet /\ UNCHANGED <<stopped, stopCh>>
      /\ \A r \in Readers : Promise(r) => Quiet /\ UNCHANGED <<stopped, stopCh>>
  BY DEF AddJob, AddJobReturns, Promise, Quiet, working
<1>. QED  BY <1>1, <1>2, <1>3, <1>4 DEF Next, CronStep

LEMMA ResultKept ==
  ASSUME RunnerInv, Next
  PROVE  ResultInv'
<1>. USE DEF RunnerInv, ResultInv, Past
<1>1. CASE RunCron
  <2>1. worker = "off" /\ worker' = "running" /\ UNCHANGED <<result, ctxDone, stopped, stopCh>>
    BY <1>1 DEF RunCron, Started, JobsInv, HasRunner, stopping
  <2>. QED  BY <2>1
<1>2. CASE GetJob \/ HandlerReturns
  <2>1. /\ worker \in {"running", "busy"} /\ worker' \in {"running", "busy"}
        /\ UNCHANGED <<result, ctxDone, stopped, stopCh>>
    BY <1>2 DEF GetJob, HandlerReturns, Worker, stopping
  <2>. QED  BY <2>1
<1>3. CASE WorkerFails \/ WorkerCanceled
  <2>1. /\ worker = "running" /\ worker' = "ended" /\ UNCHANGED <<ctxDone, stopped, stopCh>>
        /\ result' = "failed" \/ (result' = "canceled" /\ ctxDone)
    BY <1>3 DEF WorkerFails, WorkerCanceled, Worker, stopping
  <2>. QED  BY <2>1
<1>4. CASE CancelOnStop
  BY <1>4 DEF CancelOnStop, stopping
<1>5. CASE Complete
  <2>1. /\ worker = "ended" /\ worker' = "releasing" /\ ctxDone' = TRUE
        /\ UNCHANGED <<result, stopped, stopCh>>
    BY <1>5 DEF Complete, Worker
  <2>. QED  BY <2>1
<1>6. CASE ClosePool \/ StopCron
  <2>1. worker \in Past /\ worker' \in Past /\ UNCHANGED <<result, ctxDone, stopped, stopCh>>
    BY <1>6 DEF ClosePool, StopCron, Worker, stopping
  <2>. QED  BY <2>1
<1>7. ASSUME NEW s \in Stoppers, StopStep(s), Quiet
      PROVE  ResultInv'
  <2>1. UNCHANGED <<stopped, stopCh>> \/ (stopped' = TRUE /\ stopCh' \in {stopCh, TRUE})
    BY <1>7 DEF StopStep, StopTaken, StopAgain, StopLocked, StopPanics, StopCompleted, StopTimeout
  <2>2. CASE UNCHANGED <<stopped, stopCh>>
    BY <1>7, <2>2 DEF Quiet
  <2>3. CASE stopped' = TRUE /\ stopCh' = stopCh
    BY <1>7, <2>3 DEF Quiet
  <2>4. CASE stopped' = TRUE /\ stopCh' = TRUE
    BY <1>7, <2>4 DEF Quiet
  <2>. QED  BY <2>1, <2>2, <2>3, <2>4
<1>8. CASE Quiet /\ UNCHANGED <<stopped, stopCh>>
  BY <1>8 DEF Quiet
<1>. QED  BY <1>1, <1>2, <1>3, <1>4, <1>5, <1>6, <1>7, <1>8, OthersQuiet DEF WorkerEnds

LEMMA LockKept ==
  ASSUME RunnerInv, Next
  PROVE  LockInv'
<1>. USE DEF RunnerInv, LockInv
<1>1. CASE UNCHANGED <<stop, stopMutex, adding, stopped>>
  <2>1. Effective' = Effective
    BY <1>1 DEF Effective
  <2>. QED  BY <1>1, <2>1
<1>2. ASSUME NEW s \in Stoppers, Stop(s) \/ StopAgain(s)
      PROVE  LockInv'
  <2>1. PICK to \in {"locking", "already"} : stop' = [stop EXCEPT ![s] = to]
    BY <1>2 DEF Stop, StopAgain, StopGoes
  <2>2. stop[s] \in {"out", "locking"} /\ UNCHANGED <<stopMutex, adding, stopped>>
    BY <1>2 DEF Stop, StopAgain, StopGoes
  <2>3. Effective' = Effective
    BY <2>1, <2>2 DEF Effective
  <2>. QED  BY <2>1, <2>2, <2>3 DEF Replies
<1>3. ASSUME NEW s \in Stoppers, StopLocked(s) \/ StopPanics(s)
      PROVE  LockInv'
  <2>1. /\ stopMutex = {} /\ adding = {} /\ ~stopped /\ stop[s] = "locking"
        /\ stopped' = TRUE /\ UNCHANGED adding
        /\ \/ stop' = [stop EXCEPT ![s] = "waiting"] /\ stopMutex' = {s}
           \/ stop' = [stop EXCEPT ![s] = "panic"] /\ UNCHANGED stopMutex
    BY <1>3 DEF StopLocked, StopPanics, StopGoes, Locked
  <2>2. Effective = {}
    BY <2>1
  <2>3. Effective' = {s}
    BY <2>1, <2>2 DEF Effective
  <2>. QED  BY <2>1, <2>3 DEF Replies
<1>4. ASSUME NEW s \in Stoppers, StopCompleted(s) \/ StopTimeout(s)
      PROVE  LockInv'
  <2>1. PICK to \in {"nil", "failed", "timeout"} : stop' = [stop EXCEPT ![s] = to]
    BY <1>4 DEF StopCompleted, StopTimeout, StopGoes
  <2>2. stop[s] = "waiting" /\ stopMutex' = {} /\ UNCHANGED <<adding, stopped>>
    BY <1>4 DEF StopCompleted, StopTimeout, StopGoes
  <2>3. \A t \in Stoppers : stop[t] = "waiting" => t = s
    BY <2>2
  <2>4. Effective' = Effective
    BY <2>1, <2>2 DEF Effective
  <2>. QED  BY <2>1, <2>2, <2>3, <2>4 DEF Replies
<1>5. ASSUME NEW a \in Adders, AddJob(a) \/ AddJobReturns(a)
      PROVE  LockInv'
  <2>1. /\ UNCHANGED <<stop, stopMutex, stopped>> /\ adding' \subseteq adding \cup {a}
        /\ ~stopped \/ adding' \subseteq adding
    BY <1>5 DEF AddJob, AddJobReturns
  <2>2. Effective' = Effective
    BY <2>1 DEF Effective
  <2>. QED  BY <2>1, <2>2
<1>6. OptionsStep \/ CronStep \/ RunOnce \/ OnceReturns \/ GetJob \/ HandlerReturns \/ WorkerFails
        \/ WorkerEnds => UNCHANGED <<stop, stopMutex, adding, stopped>>
  BY DEF OptionsStep, AssertPool, AssertTaskList, Migrate, WithReleasers, CronStep,
         GetParsedCronItems, RunCron, RunCronError, RunOnce, OnceReturns, GetJob, HandlerReturns,
         WorkerFails, WorkerEnds, CancelOnStop, WorkerCanceled, Complete, ClosePool, StopCron,
         stopping
<1>7. \A g \in Once :
        OnceJob(g) \/ OnceHandlerReturns(g) => UNCHANGED <<stop, stopMutex, adding, stopped>>
  BY DEF OnceJob, OnceGetsJob, OnceGetsNothing, OnceGetError, OnceHandlerReturns, OnceStep, stopping
<1>8. \A r \in Readers : Promise(r) => UNCHANGED <<stop, stopMutex, adding, stopped>>
  BY DEF Promise
<1>. QED  BY <1>1, <1>2, <1>3, <1>4, <1>5, <1>6, <1>7, <1>8 DEF Next, StopStep, StopTaken

\* The worker does not turn back, and what it has returned stays.
LEMMA PastStays ==
  ASSUME RunnerInv, Next, worker \in Past
  PROVE  worker' \in Past /\ result' = result
<1>. USE DEF Past
<1>1. ~(RunCron \/ GetJob \/ HandlerReturns \/ WorkerFails \/ WorkerCanceled)
  BY DEF RunnerInv, JobsInv, HasRunner, RunCron, GetJob, HandlerReturns, WorkerFails,
         WorkerCanceled, Worker
<1>2. CancelOnStop \/ Complete \/ ClosePool \/ StopCron => worker' \in Past /\ result' = result
  BY DEF CancelOnStop, Complete, ClosePool, StopCron, Worker
<1>3. Quiet => worker' \in Past /\ result' = result
  BY DEF Quiet
<1>. QED  BY <1>1, <1>2, <1>3, OthersQuiet DEF WorkerEnds

\* Those who take nothing.
LEMMA NothingTaken ==
  ASSUME RunnerInv, Next, Takers' = Takers, UNCHANGED <<completeCh, read>>,
         \A s \in Stoppers : stop'[s] \in {"nil", "failed"} => stop'[s] = stop[s]
  PROVE  EndInv'
<1>. USE DEF RunnerInv, EndInv
<1>1. CASE worker \in Past
  BY <1>1, PastStays
<1>2. CASE worker \notin Past
  <2>1. Takers = {} /\ completeCh = {}
    BY <1>2
  <2>2. \A s \in Stoppers : stop'[s] \notin {"nil", "failed"}
    BY <2>1 DEF Takers
  <2>. QED  BY <2>1, <2>2
<1>. QED  BY <1>1, <1>2

LEMMA EndKept ==
  ASSUME RunnerInv, Next
  PROVE  EndInv'
<1>. USE DEF RunnerInv, EndInv
<1>1. CASE UNCHANGED <<completeCh, stop, read>>
  <2>1. Takers' = Takers
    BY <1>1 DEF Takers
  <2>. QED  BY <1>1, <2>1, NothingTaken
<1>2. CASE Complete
  <2>1. /\ worker = "ended" /\ worker' = "releasing" /\ completeCh' = {result}
        /\ UNCHANGED <<result, stop, read>>
    BY <1>2 DEF Complete, Worker
  <2>2. Takers' = {}
    <3>1. Takers = {}
      BY <2>1 DEF Past
    <3>. QED  BY <2>1, <3>1 DEF Takers
  <2>3. \A s \in Stoppers : stop'[s] \notin {"nil", "failed"}
    BY <2>2 DEF Takers
  <2>. QED  BY <2>1, <2>2, <2>3 DEF Past
<1>3. ASSUME NEW s \in Stoppers, Stop(s) \/ StopTaken(s) \/ StopTimeout(s)
      PROVE  EndInv'
  <2>1. PICK to \in {"locking", "already", "waiting", "panic", "timeout"} :
          stop' = [stop EXCEPT ![s] = to]
    BY <1>3 DEF Stop, StopTaken, StopAgain, StopLocked, StopPanics, StopTimeout, StopGoes
  <2>2. stop[s] \notin {"nil", "failed"} /\ UNCHANGED <<completeCh, read>>
    BY <1>3 DEF Stop, StopTaken, StopAgain, StopLocked, StopPanics, StopTimeout, StopGoes
  <2>3. /\ \A t \in Stoppers : stop'[t] \in {"nil", "failed"} => stop'[t] = stop[t]
        /\ \A t \in Stoppers : stop'[t] \in {"nil", "failed"} <=> stop[t] \in {"nil", "failed"}
    BY <2>1, <2>2 DEF LockInv
  <2>4. Takers' = Takers
    BY <2>2, <2>3 DEF Takers
  <2>. QED  BY <2>2, <2>3, <2>4, NothingTaken
<1>4. ASSUME NEW s \in Stoppers, StopCompleted(s)
      PROVE  EndInv'
  <2>1. PICK to \in {"nil", "failed"} : /\ stop' = [stop EXCEPT ![s] = to]
                                        /\ to = "nil" <=> "canceled" \in completeCh
    BY <1>4 DEF StopCompleted, StopGoes
  <2>2. /\ completeCh # {} /\ completeCh' = {} /\ UNCHANGED <<worker, result, read>>
    BY <1>4 DEF StopCompleted, StopGoes, working
  <2>3. Takers = {} /\ worker \in Past /\ result # "none"
    BY <2>2 DEF ResultInv, Past
  <2>4. to = "nil" => result = "canceled"
    BY <2>1
  <2>5. to = "failed" => result = "failed"
    BY <2>1, <2>2, <2>3 DEF ResultInv
  <2>6. stop'[s] = to /\ \A t \in Stoppers \ {s} : stop'[t] = stop[t]
    BY <2>1 DEF LockInv
  <2>7. /\ \A r \in Readers : read[r] = "none"
        /\ \A t \in Stoppers : stop[t] \notin {"nil", "failed"}
    BY <2>3 DEF Takers
  <2>8. Takers' = {s}
    BY <2>2, <2>6, <2>7 DEF Takers
  <2>. QED  BY <2>2, <2>3, <2>4, <2>5, <2>6, <2>7, <2>8
<1>5. ASSUME NEW r \in Readers, Promise(r)
      PROVE  EndInv'
  <2>1. PICK e \in completeCh : read' = [read EXCEPT ![r] = e]
    BY <1>5 DEF Promise
  <2>2. completeCh' = {} /\ UNCHANGED <<worker, result, stop>>
    BY <1>5 DEF Promise, working
  <2>3. Takers = {} /\ worker \in Past /\ e = result /\ result \in {"failed", "canceled"}
    BY <2>1 DEF ResultInv, Past
  <2>4. /\ \A q \in Readers : read[q] = "none"
        /\ \A t \in Stoppers : stop[t] \notin {"nil", "failed"}
    BY <2>3 DEF Takers
  <2>5. Takers' = {r}
    BY <2>1, <2>2, <2>3, <2>4 DEF Takers
  <2>. QED  BY <2>1, <2>2, <2>3, <2>4, <2>5
<1>6. OptionsStep \/ CronStep \/ RunOnce \/ OnceReturns \/ GetJob \/ HandlerReturns \/ WorkerFails
        \/ WorkerEnds => Complete \/ UNCHANGED <<completeCh, stop, read>>
  BY DEF OptionsStep, AssertPool, AssertTaskList, Migrate, WithReleasers, CronStep,
         GetParsedCronItems, RunCron, RunCronError, RunOnce, OnceReturns, GetJob, HandlerReturns,
         WorkerFails, WorkerEnds, CancelOnStop, WorkerCanceled, Complete, ClosePool, StopCron,
         stopping
<1>7. \A g \in Once : OnceJob(g) \/ OnceHandlerReturns(g) => UNCHANGED <<completeCh, stop, read>>
  BY DEF OnceJob, OnceGetsJob, OnceGetsNothing, OnceGetError, OnceHandlerReturns, OnceStep, stopping
<1>8. \A a \in Adders : AddJob(a) \/ AddJobReturns(a) => UNCHANGED <<completeCh, stop, read>>
  BY DEF AddJob, AddJobReturns
<1>. QED  BY <1>1, <1>2, <1>3, <1>4, <1>5, <1>6, <1>7, <1>8 DEF Next, StopStep

LEMMA RunnerInvHolds == Spec => []RunnerInv
<1>1. Init => RunnerInv
  <2>. SUFFICES ASSUME Init PROVE RunnerInv
    OBVIOUS
  <2>1. CallInv /\ JobsInv
    BY DEF Init, CallInv, JobsInv
  <2>2. ItemsInv
    BY DEF Init, ItemsInv
  <2>3. ResultInv /\ LockInv
    <3>1. Effective = {}
      BY DEF Init, Effective
    <3>. QED  BY <3>1 DEF Init, ResultInv, LockInv, Past
  <2>4. Takers = {}
    BY DEF Init, Takers
  <2>5. EndInv
    BY <2>4 DEF Init, EndInv
  <2>. QED  BY <2>1, <2>2, <2>3, <2>5 DEF RunnerInv
<1>2. RunnerInv /\ [Next]_runnerVars => RunnerInv'
  <2>. SUFFICES ASSUME RunnerInv, [Next]_runnerVars PROVE RunnerInv'
    OBVIOUS
  <2>1. CASE Next
    BY <2>1, CallKept, ItemsKept, JobsKept, ResultKept, LockKept, EndKept DEF RunnerInv
  <2>2. CASE UNCHANGED runnerVars
    <3>1. UNCHANGED <<called, cronVars, working, stopping>>
      BY <2>2 DEF runnerVars
    <3>2. CallInv' /\ ItemsInv'
      BY <3>1 DEF RunnerInv, CallInv, ItemsInv, called, cronVars
    <3>3. JobsInv' /\ ResultInv'
      BY <3>1 DEF RunnerInv, JobsInv, HasRunner, ResultInv, called, cronVars, working, stopping
    <3>4. LockInv'
      BY <3>1 DEF RunnerInv, LockInv, Effective, stopping
    <3>5. EndInv'
      BY <3>1 DEF RunnerInv, EndInv, Takers, working, stopping
    <3>. QED  BY <3>2, <3>3, <3>4, <3>5 DEF RunnerInv
  <2>. QED  BY <2>1, <2>2
<1>. QED  BY <1>1, <1>2, PTL DEF Spec

-------------------------------------------------------------------------------
(***************************************************************************)
(* The theorems.                                                           *)
(***************************************************************************)
\* Every variable keeps its type; there is an item for each line of the crontab;
\* a call of Stop holds the lock exactly while it waits; and RunOnce returns when
\* its goroutines have ended.
THEOREM RunnerTypeCorrect == Spec => []TypeOK
<1>1. RunnerInv => TypeOK
  <2>. SUFFICES ASSUME RunnerInv PROVE TypeOK
    OBVIOUS
  <2>1. completeCh \subseteq {"failed", "canceled"}
    BY DEF RunnerInv, EndInv, ResultInv, Past
  <2>2. call = "returned" => \A g \in Once : once[g] \in {"off", "ok", "failed"}
    BY DEF RunnerInv, JobsInv
  <2>3. worker \in {"off", "running", "busy", "ended", "releasing", "closed", "gone"}
    BY DEF RunnerInv, ResultInv, Past
  <2>. QED  BY <2>1, <2>2, <2>3
            DEF RunnerInv, CallInv, ItemsInv, JobsInv, ResultInv, LockInv, EndInv, TypeOK
<1>. QED  BY <1>1, RunnerInvHolds, PTL

\* For any number of callers of Stop and of receivers of Promise: one of them
\* gets the end of the worker, nil only if the worker ended because it was
\* stopped; and AddJob has returned before Stop takes effect.
THEOREM StopIsTruthful == Spec => []StopTellsTheTruth
<1>1. RunnerInv => StopTellsTheTruth
  <2>. SUFFICES ASSUME RunnerInv PROVE StopTellsTheTruth
    OBVIOUS
  <2>. DEFINE Told(e) == {s \in Stoppers : stop[s] = e}
              takers == Told("nil") \cup Told("failed") \cup {r \in Readers : read[r] # "none"}
  <2>1. takers = Takers
    BY DEF Takers
  <2>2. Told("nil") # {} => stopCh /\ result = "canceled"
    BY DEF RunnerInv, EndInv, ResultInv
  <2>3. Told("failed") # {} => result = "failed"
    BY DEF RunnerInv, EndInv
  <2>4. Cardinality(takers) + Cardinality(completeCh) <= 1
    <3>1. Cardinality({}) = 0 /\ \A x : Cardinality({x}) = 1
      BY FS_EmptySet, FS_Singleton
    <3>2. Takers = {} \/ \E x : Takers = {x}
      BY DEF RunnerInv, EndInv
    <3>3. completeCh = {} \/ completeCh = {result}
      BY DEF RunnerInv, EndInv
    <3>4. Takers # {} => completeCh = {}
      BY DEF RunnerInv, EndInv
    <3>5. CASE Takers = {}
      <4>1. Cardinality(takers) = 0 /\ Cardinality(completeCh) \in {0, 1}
        BY <2>1, <3>1, <3>3, <3>5
      <4>. HIDE DEF takers
      <4>. QED  BY <4>1
    <3>6. CASE Takers # {}
      <4>1. Cardinality(takers) = 1 /\ Cardinality(completeCh) = 0
        BY <2>1, <3>1, <3>2, <3>4, <3>6
      <4>. HIDE DEF takers
      <4>. QED  BY <4>1
    <3>. QED  BY <3>5, <3>6
  <2>5. takers # {} => worker \in {"releasing", "closed", "gone"}
    BY <2>1 DEF RunnerInv, EndInv, Past
  <2>6. stopped => adding = {}
    BY DEF RunnerInv, LockInv
  <2>7. Cardinality(stopMutex \cup Told("nil") \cup Told("failed") \cup Told("timeout")
                               \cup Told("panic")) <= 1
    <3>1. Cardinality({}) = 0 /\ \A x : Cardinality({x}) = 1
      BY FS_EmptySet, FS_Singleton
    <3>2. Effective = stopMutex \cup Told("nil") \cup Told("failed") \cup Told("timeout")
                                \cup Told("panic")
      BY DEF RunnerInv, LockInv, Effective
    <3>3. Effective = {} \/ \E x : Effective = {x}
      BY DEF RunnerInv, LockInv
    <3>4. Cardinality(Effective) \in {0, 1}
      BY <3>1, <3>3, Zenon
    <3>. QED  BY <3>2, <3>4
  <2>. QED  BY <2>2, <2>3, <2>4, <2>5, <2>6, <2>7 DEF StopTellsTheTruth, Told, takers
<1>. QED  BY <1>1, RunnerInvHolds, PTL

\* Whatever is called with whatever crontab, and whichever step of it fails: a pool
\* that was given stays open, one that was opened is not left open behind the
\* call, no handler loses its pool, and no scheduler is left running.
THEOREM HeldIsReleased == Spec => []ReleasesWhatItHolds
<1>1. RunnerInv => ReleasesWhatItHolds
  BY DEF RunnerInv, CallInv, JobsInv, HasRunner, ReleasesWhatItHolds
<1>. QED  BY <1>1, RunnerInvHolds, PTL

-------------------------------------------------------------------------------
(***************************************************************************)
(* Crontabs: what the parser lists.                                        *)
(***************************************************************************)
\* What the parser is to make of a field: its numbers, each once and in order.
Enumerates(numbers, S) ==
  /\ Len(numbers) \in Nat
  /\ numbers \in [1 .. Len(numbers) -> S]
  /\ \A i, j \in 1 .. Len(numbers) : i < j => numbers[i] < numbers[j]
  /\ \A n \in S : \E i \in 1 .. Len(numbers) : numbers[i] = n

LEMMA FieldBounds ==
  /\ Fields = {"minute", "hour", "date", "month", "dow"}
  /\ \A f \in Fields : /\ Lowest(f) \in Nat /\ Highest(f) \in Nat /\ Lowest(f) <= Highest(f)
                       /\ Bounds[f] = Lowest(f) .. Highest(f)
  /\ Lowest("date") = 1 /\ Highest("date") = 31 /\ Lowest("dow") = 0 /\ Highest("dow") = 6
  /\ \A f \in Fields : Lowest(f) = IF f \in {"date", "month"} THEN 1 ELSE 0
<1>1. Fields = {"minute", "hour", "date", "month", "dow"}
  BY DEF Fields, Bounds
<1>2. /\ Bounds["minute"] = 0 .. 59 /\ Bounds["hour"] = 0 .. 23 /\ Bounds["date"] = 1 .. 31
      /\ Bounds["month"] = 1 .. 12 /\ Bounds["dow"] = 0 .. 6
  BY DEF Bounds
<1>3. ASSUME NEW f \in Fields
      PROVE  \E a, b \in Nat : a <= b /\ Bounds[f] = a .. b
  <2>1. CASE f = "minute"
    <3>. WITNESS 0 \in Nat, 59 \in Nat
    <3>. QED  BY <1>2, <2>1
  <2>2. CASE f = "hour"
    <3>. WITNESS 0 \in Nat, 23 \in Nat
    <3>. QED  BY <1>2, <2>2
  <2>3. CASE f = "date"
    <3>. WITNESS 1 \in Nat, 31 \in Nat
    <3>. QED  BY <1>2, <2>3
  <2>4. CASE f = "month"
    <3>. WITNESS 1 \in Nat, 12 \in Nat
    <3>. QED  BY <1>2, <2>4
  <2>5. CASE f = "dow"
    <3>. WITNESS 0 \in Nat, 6 \in Nat
    <3>. QED  BY <1>2, <2>5
  <2>. QED  BY <1>1, <2>1, <2>2, <2>3, <2>4, <2>5
<1>4. ASSUME NEW f \in Fields
      PROVE  /\ Lowest(f) \in Bounds[f] /\ \A m \in Bounds[f] : Lowest(f) <= m
             /\ Highest(f) \in Bounds[f] /\ \A m \in Bounds[f] : Highest(f) >= m
  <2>1. PICK a \in Nat, b \in Nat : a <= b /\ Bounds[f] = a .. b
    BY <1>3
  <2>2. a \in Bounds[f] /\ b \in Bounds[f] /\ \A m \in Bounds[f] : a <= m /\ b >= m
    BY <2>1
  <2>. QED  BY <2>2 DEF Lowest, Highest
<1>5. ASSUME NEW f \in Fields
      PROVE  /\ Lowest(f) \in Nat /\ Highest(f) \in Nat /\ Lowest(f) <= Highest(f)
             /\ Bounds[f] = Lowest(f) .. Highest(f)
  <2>1. PICK a \in Nat, b \in Nat : a <= b /\ Bounds[f] = a .. b
    BY <1>3
  <2>2. Lowest(f) = a
    <3>1. Lowest(f) \in a .. b /\ Lowest(f) <= a
      BY <1>4, <2>1
    <3>. QED  BY <2>1, <3>1
  <2>3. Highest(f) = b
    <3>1. Highest(f) \in a .. b /\ Highest(f) >= b
      BY <1>4, <2>1
    <3>. QED  BY <2>1, <3>1
  <2>. QED  BY <2>1, <2>2, <2>3
<1>6. Lowest("date") = 1 /\ Highest("date") = 31
  <2>1. Lowest("date") \in 1 .. 31 /\ Lowest("date") <= 1
    BY <1>1, <1>2, <1>4
  <2>2. Highest("date") \in 1 .. 31 /\ Highest("date") >= 31
    BY <1>1, <1>2, <1>4
  <2>. QED  BY <2>1, <2>2
<1>7. Lowest("dow") = 0 /\ Highest("dow") = 6
  <2>1. Lowest("dow") \in 0 .. 6 /\ Lowest("dow") <= 0
    BY <1>1, <1>2, <1>4
  <2>2. Highest("dow") \in 0 .. 6 /\ Highest("dow") >= 6
    BY <1>1, <1>2, <1>4
  <2>. QED  BY <2>1, <2>2
<1>8. \A f \in Fields : Lowest(f) = IF f \in {"date", "month"} THEN 1 ELSE 0
  <2>1. Lowest("minute") = 0
    <3>1. Lowest("minute") \in 0 .. 59 /\ Lowest("minute") <= 0
      BY <1>1, <1>2, <1>4
    <3>. QED  BY <3>1
  <2>2. Lowest("hour") = 0
    <3>1. Lowest("hour") \in 0 .. 23 /\ Lowest("hour") <= 0
      BY <1>1, <1>2, <1>4
    <3>. QED  BY <3>1
  <2>3. Lowest("month") = 1
    <3>1. Lowest("month") \in 1 .. 12 /\ Lowest("month") <= 1
      BY <1>1, <1>2, <1>4
    <3>. QED  BY <3>1
  <2>. QED  BY <1>1, <1>6, <1>7, <2>1, <2>2, <2>3
<1>. QED  BY <1>1, <1>5, <1>6, <1>7, <1>8

\* The multiples of a step that a loop reaches.
LEMMA Multiples ==
  ASSUME NEW top \in Nat, NEW d \in 0 .. top, NEW s \in Nat, s > 0
  PROVE  d % s = 0 <=> \E k \in 0 .. top \div s : d = k * s
<1>. DEFINE q == d \div s
            t == top \div s
<1>1. \A e \in Nat : e \div s \in Nat /\ e = (e \div s) * s + (e % s) /\ (d <= e => q <= e \div s)
  OBVIOUS
<1>2. q \in Nat /\ t \in Nat /\ q <= t
  BY <1>1
<1>3. ASSUME d % s = 0 PROVE \E k \in 0 .. t : d = k * s
  <2>1. d = q * s
    BY <1>1, <1>3
  <2>. HIDE DEF q, t
  <2>. QED  BY <1>2, <2>1
<1>4. ASSUME NEW k \in 0 .. t, d = k * s PROVE d % s = 0
  <2>1. k \in Nat
    BY <1>2
  <2>2. (k * s) % s = 0
    BY <2>1
  <2>. QED  BY <1>4, <2>2
<1>. QED  BY <1>3, <1>4

\* What the loop of a part counts: steps from the lowest value of the field.
Counts(f, part, n) ==
  IF part.kind = "wildcard" THEN (n - Lowest(f)) % part.from = 0 ELSE Means(f, part, n)

\* A part that is no error stands for the numbers its loop appends.
LEMMA PartIsRead ==
  ASSUME NEW f \in Fields, NEW part, IsPart(part), ~PartError(f, part)
  PROVE  Range(PartNumbers(f, part)) = {n \in Bounds[f] : Counts(f, part, n)}
<1>. DEFINE lo == Lowest(f)
            hi == Highest(f)
<1>1. /\ lo \in Nat /\ hi \in Nat /\ lo <= hi /\ Bounds[f] = lo .. hi
      /\ f = "dow" => lo = 0 /\ hi = 6
  BY FieldBounds
<1>2. part.from \in Nat /\ part.to \in Nat /\ (part.kind = "number" => part.to = part.from)
  BY DEF IsPart
<1>3. CASE part.kind = "wildcard"
  <2>. DEFINE step == part.from
              top == hi - lo
              numbers == [i \in 0 .. top \div step |-> lo + i * step]
  <2>1. step \in Nat /\ step > 0 /\ top \in Nat
    BY <1>1, <1>2, <1>3 DEF PartError
  <2>2. PartNumbers(f, part) = numbers /\ Range(numbers) = {lo + i * step : i \in 0 .. top \div step}
    BY <1>3 DEF PartNumbers, Range
  <2>3. ASSUME NEW n \in Bounds[f]
        PROVE  n \in Range(numbers) <=> (n - lo) % step = 0
    <3>1. n - lo \in 0 .. top /\ n \in Nat
      BY <1>1, <2>3
    <3>2. (n - lo) % step = 0 <=> \E k \in 0 .. top \div step : n - lo = k * step
      BY <2>1, <3>1, Multiples
    <3>3. \A k \in 0 .. top \div step : k * step \in Int
      BY <2>1
    <3>4. \A k \in 0 .. top \div step : n - lo = k * step <=> n = lo + k * step
      BY <1>1, <3>1, <3>3
    <3>. QED  BY <2>2, <3>2, <3>4, Zenon
  <2>4. Range(numbers) \subseteq Bounds[f]
    <3>1. ASSUME NEW k \in 0 .. top \div step
          PROVE  lo + k * step \in lo .. hi
      <4>1. k \in Nat /\ top \div step \in Nat /\ (top \div step) * step <= top
        BY <2>1
      <4>2. k * step \in Nat /\ k * step <= (top \div step) * step /\ (top \div step) * step \in Nat
        BY <2>1, <3>1, <4>1
      <4>3. k * step <= top
        BY <2>1, <4>1, <4>2
      <4>. DEFINE m == k * step
      <4>4. m \in Nat /\ m <= hi - lo
        BY <4>2, <4>3
      <4>. HIDE DEF m, lo, hi
      <4>5. lo + m \in lo .. hi
        BY <1>1, <4>4
      <4>. QED  BY <4>5 DEF m
    <3>. QED  BY <1>1, <2>2, <3>1
  <2>. QED  BY <1>3, <2>2, <2>3, <2>4 DEF Counts
<1>4. CASE part.kind # "wildcard"
  <2>. DEFINE I == {n \in part.from .. part.to : Wrap(f, n) \in Bounds[f]}
  <2>1. Range(PartNumbers(f, part)) = {Wrap(f, i) : i \in I}
    BY <1>4 DEF PartNumbers, Range
  <2>2. ASSUME NEW n \in Bounds[f]
        PROVE  Means(f, part, n) <=> \E i \in part.from .. part.to : Wrap(f, i) = n
    BY <1>1, <1>2, <1>4 DEF Means, Wrap
  <2>. QED  BY <1>4, <2>1, <2>2 DEF Counts
<1>. QED  BY <1>3, <1>4

\* Steps from the lowest value are the values divisible by the step, if it is.
LEMMA CountsWhatItMeans ==
  ASSUME NEW f \in Fields, NEW part, IsPart(part), NEW n \in Bounds[f],
         part.kind = "wildcard" => part.from > 0 /\ Lowest(f) % part.from = 0
  PROVE  Counts(f, part, n) <=> Means(f, part, n)
<1>. DEFINE lo == Lowest(f)
            step == part.from
<1>1. lo \in {0, 1} /\ n \in Nat
  BY FieldBounds
<1>2. CASE part.kind = "wildcard"
  <2>1. step \in Nat /\ step > 0 /\ lo % step = 0
    BY <1>2 DEF IsPart
  <2>2. CASE lo = 0
    BY <1>1, <1>2, <2>2 DEF Counts, Means
  <2>3. CASE lo = 1
    <3>1. step = 1
      <4>. HIDE DEF step
      <4>1. step > 1 => 1 % step = 1
        BY <2>1
      <4>. QED  BY <2>1, <2>3, <4>1
    <3>2. n % 1 = 0 /\ (n - 1) % 1 = 0
      BY <1>1
    <3>. QED  BY <1>2, <2>3, <3>1, <3>2 DEF Counts, Means
  <2>. QED  BY <1>1, <2>2, <2>3
<1>3. CASE part.kind # "wildcard"
  BY <1>3 DEF Counts
<1>. QED  BY <1>2, <1>3

\* Where the parser and docs/CRONTAB.md part: "*/n" lists the valid values that
\* are divisible by n in every field but those of the date and the month, whose
\* values begin with 1, and there for no n but 1.
THEOREM StepsAsDocumented ==
  ASSUME NEW f \in Fields, NEW n \in Nat, n > 0
  PROVE  (Range(PartNumbers(f, Steps(n))) = {m \in Bounds[f] : Means(f, Steps(n), m)})
           <=> (f \notin {"date", "month"} \/ n = 1)
<1>. DEFINE part == Steps(n)
            listed == Range(PartNumbers(f, part))
            meant == {m \in Bounds[f] : Means(f, part, m)}
<1>1. /\ IsPart(part) /\ ~PartError(f, part)
      /\ part.kind = "wildcard" /\ part.from = n
  BY DEF IsPart, PartError, Steps
<1>. HIDE DEF part
<1>2. listed = {m \in Bounds[f] : Counts(f, part, m)}
  BY <1>1, PartIsRead
<1>3. /\ Lowest(f) \in Bounds[f] /\ Lowest(f) \in {0, 1}
      /\ Lowest(f) = 1 <=> f \in {"date", "month"}
  BY FieldBounds
<1>4. CASE f \notin {"date", "month"} \/ n = 1
  <2>1. Lowest(f) % n = 0
    <3>1. CASE Lowest(f) = 0
      <4>1. 0 % n = 0
        OBVIOUS
      <4>. QED  BY <3>1, <4>1
    <3>2. CASE n = 1
      BY <1>3, <3>2
    <3>. QED  BY <1>3, <1>4, <3>1, <3>2
  <2>2. \A m \in Bounds[f] : Counts(f, part, m) <=> Means(f, part, m)
    BY <1>1, <2>1, CountsWhatItMeans
  <2>. QED  BY <1>2, <1>4, <2>2 DEF part
<1>5. CASE f \in {"date", "month"} /\ n # 1
  <2>1. Lowest(f) = 1 /\ 1 \in Bounds[f]
    BY <1>3, <1>5
  <2>2. (1 - 1) % n = 0 /\ 1 % n = 1
    BY <1>5
  <2>3. Counts(f, part, 1) /\ ~Means(f, part, 1)
    BY <1>1, <2>1, <2>2 DEF Counts, Means
  <2>4. 1 \in listed /\ 1 \notin meant
    BY <1>2, <2>1, <2>3
  <2>. QED  BY <1>5, <2>4 DEF part
<1>. QED  BY <1>4, <1>5

\* The numbers of a set, each at the place its rank gives it.
LEMMA RanksEnumerate ==
  ASSUME NEW S \in SUBSET Nat, IsFiniteSet(S), NEW u,
         u = [k \in 1 .. Cardinality(S) |->
                CHOOSE n \in S : Cardinality({m \in S : m < n}) = k - 1]
  PROVE  Enumerates(u, S)
<1>. DEFINE c == Cardinality(S)
            Below(n) == {m \in S : m < n}
            rank == [n \in S |-> Cardinality(Below(n)) + 1]
<1>1. c \in Nat
  BY FS_CardinalityType
<1>2. ASSUME NEW n \in S
      PROVE  /\ IsFiniteSet(Below(n)) /\ Cardinality(Below(n)) \in Nat
             /\ Cardinality(Below(n)) < c
  <2>1. Below(n) \in SUBSET S /\ n \notin Below(n)
    OBVIOUS
  <2>2. /\ IsFiniteSet(Below(n)) /\ Cardinality(Below(n)) <= c
        /\ c = Cardinality(Below(n)) => S = Below(n)
    BY <2>1, FS_Subset
  <2>3. Cardinality(Below(n)) \in Nat
    BY <2>2, FS_CardinalityType
  <2>. HIDE DEF Below, c
  <2>. QED  BY <1>1, <2>1, <2>2, <2>3
<1>3. ASSUME NEW n \in S, NEW p \in S, n < p
      PROVE  Cardinality(Below(n)) < Cardinality(Below(p))
  <2>1. Below(n) \in SUBSET Below(p) /\ n \in Below(p) /\ n \notin Below(n)
    <3>1. \A m \in S : m \in Nat
      OBVIOUS
    <3>2. \A m \in S : (m < n => m < p) /\ ~(n < n)
      BY <1>3, <3>1
    <3>. QED  BY <1>3, <3>2
  <2>2. /\ Cardinality(Below(n)) <= Cardinality(Below(p))
        /\ Cardinality(Below(p)) = Cardinality(Below(n)) => Below(p) = Below(n)
    BY <1>2, <2>1, FS_Subset
  <2>3. Cardinality(Below(n)) \in Nat /\ Cardinality(Below(p)) \in Nat
    BY <1>2
  <2>. HIDE DEF Below
  <2>. QED  BY <2>1, <2>2, <2>3
<1>. HIDE DEF Below, c
<1>4. /\ rank \in [S -> 1 .. c]
      /\ \A n, p \in S : n < p => rank[n] < rank[p]
  <2>1. \A n \in S : Cardinality(Below(n)) + 1 \in 1 .. c
    BY <1>1, <1>2
  <2>2. \A n, p \in S : n < p => Cardinality(Below(n)) + 1 < Cardinality(Below(p)) + 1
    BY <1>2, <1>3
  <2>. QED  BY <2>1, <2>2
<1>5. \A n, p \in S : rank[n] = rank[p] => n = p
  <2>. SUFFICES ASSUME NEW n \in S, NEW p \in S, rank[n] = rank[p] PROVE n = p
    OBVIOUS
  <2>. HIDE DEF rank
  <2>1. n \in Nat /\ p \in Nat /\ rank[n] \in Nat /\ rank[p] \in Nat
    BY <1>1, <1>4
  <2>2. ~(n < p) /\ ~(p < n)
    BY <1>4, <2>1
  <2>. QED  BY <2>1, <2>2
<1>6. rank \in Surjection(S, 1 .. c)
  <2>. HIDE DEF rank
  <2>1. rank \in Injection(S, 1 .. c)
    BY <1>4, <1>5 DEF Injection, IsInjective
  <2>2. IsFiniteSet(1 .. c) /\ Cardinality(1 .. c) = c
    BY <1>1, FS_Interval
  <2>. QED  BY <2>1, <2>2, FS_Injection DEF c
<1>7. \A k \in 1 .. c : u[k] \in S /\ rank[u[k]] = k
  <2>. SUFFICES ASSUME NEW k \in 1 .. c PROVE u[k] \in S /\ rank[u[k]] = k
    OBVIOUS
  <2>1. PICK n \in S : rank[n] = k
    BY <1>6 DEF Surjection
  <2>2. Cardinality(Below(n)) = k - 1
    BY <1>1, <1>2, <2>1
  <2>3. u[k] = CHOOSE p \in S : Cardinality(Below(p)) = k - 1
    BY DEF c, Below
  <2>4. u[k] \in S /\ Cardinality(Below(u[k])) = k - 1
    BY <2>2, <2>3
  <2>. QED  BY <1>1, <2>4
<1>. HIDE DEF rank
<1>8. \A k, l \in 1 .. c : k < l => u[k] < u[l]
  <2>. SUFFICES ASSUME NEW k \in 1 .. c, NEW l \in 1 .. c, k < l PROVE u[k] < u[l]
    OBVIOUS
  <2>1. u[k] \in S /\ u[l] \in S /\ rank[u[k]] = k /\ rank[u[l]] = l
    BY <1>7
  <2>2. u[k] \in Nat /\ u[l] \in Nat
    <3>1. \A m \in S : m \in Nat
      OBVIOUS
    <3>. QED  BY <2>1, <3>1
  <2>3. u[l] # u[k] /\ ~(u[l] < u[k])
    BY <1>4, <2>1, <2>2
  <2>. QED  BY <2>2, <2>3
<1>9. \A n \in S : rank[n] \in 1 .. c /\ u[rank[n]] = n
  BY <1>4, <1>5, <1>7
<1>10. u \in [1 .. c -> S]
  BY <1>7 DEF c
<1>11. Len(u) = c
  BY <1>1, <1>10, LengthOf
<1>. QED  BY <1>1, <1>8, <1>9, <1>10, <1>11 DEF Enumerates

\* What parseCrontabRange makes of the parts of a field that are no errors.
LEMMA FieldIsRead ==
  ASSUME NEW f \in Fields, NEW parts, ~FieldError(f, parts),
         \A part \in Range(parts) : IsPart(part)
  PROVE  Enumerates(ParseField(f, parts),
                    {n \in Bounds[f] : \E i \in DOMAIN parts : Counts(f, parts[i], n)})
<1>. DEFINE lists == [i \in DOMAIN parts |-> PartNumbers(f, parts[i])]
            numbers == UNION {Range(lists[i]) : i \in DOMAIN lists}
            S == {n \in Bounds[f] : \E i \in DOMAIN parts : Counts(f, parts[i], n)}
<1>1. \A i \in DOMAIN parts : Range(lists[i]) = {n \in Bounds[f] : Counts(f, parts[i], n)}
  <2>1. \A i \in DOMAIN parts : IsPart(parts[i]) /\ ~PartError(f, parts[i])
    BY DEF Range, FieldError
  <2>. QED  BY <2>1, PartIsRead
<1>2. numbers = S
  <2>1. numbers = UNION {Range(lists[i]) : i \in DOMAIN parts}
    OBVIOUS
  <2>. HIDE DEF lists, numbers
  <2>. QED  BY <1>1, <2>1
<1>3. S \in SUBSET Nat /\ IsFiniteSet(S)
  <2>1. Bounds[f] \in SUBSET Nat /\ IsFiniteSet(Bounds[f])
    <3>1. PICK a \in Nat, b \in Nat : Bounds[f] = a .. b
      BY FieldBounds
    <3>2. IsFiniteSet(a .. b) /\ a .. b \in SUBSET Nat
      BY FS_Interval
    <3>. QED  BY <3>1, <3>2
  <2>2. S \in SUBSET Bounds[f]
    OBVIOUS
  <2>. HIDE DEF S
  <2>. QED  BY <2>1, <2>2, FS_Subset
<1>4. ParseField(f, parts) =
        [k \in 1 .. Cardinality(S) |-> CHOOSE n \in S : Cardinality({m \in S : m < n}) = k - 1]
  <2>1. ParseField(f, parts) =
          [k \in 1 .. Cardinality(numbers) |->
             CHOOSE n \in numbers : Cardinality({m \in numbers : m < n}) = k - 1]
    BY DEF ParseField, Unique
  <2>. HIDE DEF S, numbers
  <2>. QED  BY <1>2, <2>1
<1>. HIDE DEF S
<1>5. Enumerates(ParseField(f, parts), S)
  BY <1>3, <1>4, RanksEnumerate
<1>. QED  BY <1>5 DEF S

-------------------------------------------------------------------------------
(***************************************************************************)
(* Crontabs: identifiers and the matcher.                                  *)
(***************************************************************************)
\* A field has as many numbers as its bounds exactly if it leaves none out.
LEMMA LengthShowsAll ==
  ASSUME NEW c \in Nat, NEW a \in Nat, a + c > a, NEW S \in SUBSET (a .. a + c - 1),
         NEW numbers, Enumerates(numbers, S)
  PROVE  Len(numbers) = c <=> S = a .. a + c - 1
<1>. DEFINE B == a .. a + c - 1
            I == 1 .. Len(numbers)
<1>1. IsFiniteSet(B) /\ Cardinality(B) = c
  BY FS_Interval
<1>2. IsFiniteSet(S) /\ (Cardinality(S) = Cardinality(B) => S = B)
  BY <1>1, FS_Subset
<1>3. IsFiniteSet(I) /\ Cardinality(I) = Len(numbers)
  <2>1. \A n \in Nat : IsFiniteSet(1 .. n) /\ Cardinality(1 .. n) = n
    BY FS_Interval
  <2>. QED  BY <2>1 DEF Enumerates
<1>4. numbers \in Injection(I, S) /\ numbers \in Surjection(I, S)
  <2>1. ASSUME NEW i \in I, NEW j \in I, numbers[i] = numbers[j]
        PROVE  i = j
    <3>1. i \in Nat /\ j \in Nat
      OBVIOUS
    <3>2. numbers[i] \in Nat /\ numbers[j] \in Nat
      <4>1. numbers[i] \in S /\ numbers[j] \in S
        BY DEF Enumerates
      <4>2. \A n \in S : n \in Nat
        OBVIOUS
      <4>. QED  BY <4>1, <4>2
    <3>3. ~(i < j) /\ ~(j < i)
      BY <2>1, <3>2 DEF Enumerates
    <3>. QED  BY <3>1, <3>3
  <2>. QED  BY <2>1 DEF Enumerates, Injection, IsInjective, Surjection
<1>5. Cardinality(I) = Cardinality(S)
  BY <1>2, <1>4, FS_Injection
<1>. QED  BY <1>1, <1>2, <1>3, <1>5

\* What the lists of an item tell about a pattern, if the parser has made them as
\* it should.
Reads(item, pattern) ==
  \A f \in Fields : Enumerates(item.numbers[f], {n \in Bounds[f] : Written(pattern, f, n)})

LEMMA HoldsWhatIsWritten ==
  ASSUME NEW item, NEW pattern, Reads(item, pattern), NEW digest,
         NEW f \in Fields, digest[f] \in Bounds[f]
  PROVE  Holds(item, f, digest) <=> Written(pattern, f, digest[f])
<1>. DEFINE S == {n \in Bounds[f] : Written(pattern, f, n)}
            numbers == item.numbers[f]
<1>1. Enumerates(numbers, S)
  BY DEF Reads
<1>2. Range(numbers) = S
  <2>. HIDE DEF numbers, S
  <2>. QED  BY <1>1 DEF Enumerates, Range
<1>. QED  BY <1>2 DEF Holds

LEMMA LengthShowsRestriction ==
  ASSUME NEW item, NEW pattern, Reads(item, pattern)
  PROVE  /\ Len(item.numbers["date"]) # 31 <=> Restricts(pattern, "date")
         /\ Len(item.numbers["dow"]) # 7 <=> Restricts(pattern, "dow")
<1>1. ASSUME NEW f \in {"date", "dow"}, NEW c \in Nat, NEW a \in Nat, a + c > a,
             Bounds[f] = a .. a + c - 1
      PROVE  Len(item.numbers[f]) # c <=> Restricts(pattern, f)
  <2>. DEFINE S == {n \in Bounds[f] : Written(pattern, f, n)}
  <2>1. Enumerates(item.numbers[f], S)
    BY FieldBounds DEF Reads
  <2>2. Len(item.numbers[f]) = c <=> S = a .. a + c - 1
    <3>1. S \in SUBSET (a .. a + c - 1)
      BY <1>1
    <3>. HIDE DEF S
    <3>. QED  BY <1>1, <2>1, <3>1, LengthShowsAll
  <2>3. S = Bounds[f] <=> ~Restricts(pattern, f)
    BY DEF Restricts
  <2>. QED  BY <1>1, <2>2, <2>3
<1>2. Bounds["date"] = 1 .. 1 + 31 - 1 /\ Bounds["dow"] = 0 .. 0 + 7 - 1
  <2>1. Bounds["date"] = 1 .. 31 /\ Bounds["dow"] = 0 .. 6
    BY DEF Bounds
  <2>. QED  BY <2>1
<1>3. Len(item.numbers["date"]) # 31 <=> Restricts(pattern, "date")
  <2>1. "date" \in {"date", "dow"} /\ 31 \in Nat /\ 1 \in Nat /\ 1 + 31 > 1
    OBVIOUS
  <2>. QED  BY <1>1, <1>2, <2>1, Zenon
<1>4. Len(item.numbers["dow"]) # 7 <=> Restricts(pattern, "dow")
  <2>1. "dow" \in {"date", "dow"} /\ 7 \in Nat /\ 0 \in Nat /\ 0 + 7 > 0
    OBVIOUS
  <2>. QED  BY <1>1, <1>2, <2>1, Zenon
<1>. QED  BY <1>3, <1>4

\* createArrayMatcher says of every minute what the pattern means, for every
\* pattern whose fields the parser has listed without repetition: that the day
\* matches either list is rightly told by their lengths.
THEOREM MatcherIsFaithful ==
  ASSUME NEW item, NEW pattern, Reads(item, pattern),
         NEW digest, \A f \in Fields : digest[f] \in Bounds[f]
  PROVE  Matches(item, digest) <=> FiresAt(pattern, digest)
<1>1. \A f \in Fields : Holds(item, f, digest) <=> Written(pattern, f, digest[f])
  BY HoldsWhatIsWritten
<1>2. \A f \in {"minute", "hour", "month"} : Holds(item, f, digest) <=> Written(pattern, f, digest[f])
  BY <1>1, FieldBounds
<1>3. \A f \in {"date", "dow"} : /\ Holds(item, f, digest) <=> Written(pattern, f, digest[f])
                                 /\ ~Restricts(pattern, f) => Written(pattern, f, digest[f])
  BY <1>1, FieldBounds DEF Restricts
<1>4. DayMatches(item, digest) <=>
        LET days == {f \in {"date", "dow"} : Restricts(pattern, f)}
        IN days = {} \/ \E f \in days : Written(pattern, f, digest[f])
  <2>. DEFINE D == Restricts(pattern, "date")
              W == Restricts(pattern, "dow")
              hd == Holds(item, "date", digest)
              hw == Holds(item, "dow", digest)
  <2>1. DayMatches(item, digest) <=> IF D THEN (IF W THEN hd \/ hw ELSE hd) ELSE (W => hw)
    <3>1. /\ D <=> Len(item.numbers["date"]) # 31
          /\ W <=> Len(item.numbers["dow"]) # 7
      BY LengthShowsRestriction
    <3>. QED  BY <3>1 DEF DayMatches
  <2>. QED  BY <1>3, <2>1
<1>. QED  BY <1>2, <1>4 DEF Matches, FiresAt

\* Items are made of the lines of a crontab without errors.
ItemsRead ==
  \/ items = <<>>
  \/ \E c \in Crontabs : crontab = c /\ items = ItemsOf(c) /\ ~CrontabError(c)

LEMMA ItemsReadHolds == Spec => []ItemsRead
<1>1. Init => ItemsRead
  BY DEF Init, ItemsRead
<1>2. RunnerInv /\ ItemsRead /\ [Next]_runnerVars => ItemsRead'
  <2>. SUFFICES ASSUME RunnerInv, ItemsRead, [Next]_runnerVars PROVE ItemsRead'
    OBVIOUS
  <2>1. CASE UNCHANGED <<crontab, items>>
    BY <2>1 DEF ItemsRead
  <2>2. CASE GetParsedCronItems
    <3>1. items = <<>>
      BY <2>2 DEF GetParsedCronItems, RunnerInv, ItemsInv
    <3>2. PICK c \in Crontabs : crontab' = c
      BY <2>2 DEF GetParsedCronItems
    <3>3. CASE CrontabError(c)
      BY <2>2, <3>1, <3>2, <3>3 DEF GetParsedCronItems, ItemsRead
    <3>4. CASE ~CrontabError(c)
      BY <2>2, <3>2, <3>4 DEF GetParsedCronItems, ItemsRead
    <3>. QED  BY <3>3, <3>4
  <2>3. CASE RunCron \/ RunCronError
    BY <2>3 DEF RunCron, RunCronError, ItemsRead
  <2>. QED  BY <2>1, <2>2, <2>3, ItemsChange DEF runnerVars, cronVars
<1>. QED  BY <1>1, <1>2, RunnerInvHolds, PTL DEF Spec

\* No two items of a crontab without errors have the same identifier.
LEMMA IdentifiersDiffer ==
  ASSUME NEW c \in Crontabs, ~CrontabError(c), NEW its, its = ItemsOf(c)
  PROVE  Cardinality({its[i].identifier : i \in DOMAIN its}) = Len(its)
<1>. DEFINE I == 1 .. Len(its)
            Id(i) == its[i].identifier
            T == {Id(i) : i \in I}
            f == [i \in I |-> Id(i)]
<1>1. DOMAIN its = I /\ Len(its) \in Nat
  BY CrontabsAreLines, ItemForEachLine DEF ItemsOf
<1>2. \A i, j \in I : Id(i) = Id(j) => i = j
  BY <1>1 DEF CrontabError, Duplicates
<1>3. f \in Injection(I, T) /\ f \in Surjection(I, T)
  BY <1>2 DEF Injection, IsInjective, Surjection
<1>4. IsFiniteSet(I) /\ Cardinality(I) = Len(its)
  <2>1. \A n \in Nat : IsFiniteSet(1 .. n) /\ Cardinality(1 .. n) = n
    BY FS_Interval
  <2>. QED  BY <1>1, <2>1
<1>5. Cardinality(T) = Cardinality(I)
  BY <1>3, <1>4, FS_Surjection
<1>. QED  BY <1>1, <1>4, <1>5

\* An item has the lists of the line it is made of.
LEMMA LinesAreListed ==
  ASSUME NEW c \in Crontabs, ~CrontabError(c), NEW i \in DOMAIN c, NEW f \in Fields
  PROVE  Enumerates(Parse(c[i]).numbers[f],
                    {n \in Bounds[f] : \E k \in DOMAIN c[i].pattern[f] :
                       Counts(f, c[i].pattern[f][k], n)})
<1>. DEFINE parts == c[i].pattern[f]
<1>1. ~FieldError(f, parts) /\ \A part \in Range(parts) : IsPart(part)
  BY CrontabsAreLines DEF CrontabError, LineError
<1>2. Parse(c[i]).numbers[f] = ParseField(f, parts)
  BY DEF Parse
<1>. QED  BY <1>1, <1>2, FieldIsRead

\* They are what the line means, if its steps are.
LEMMA LinesAreRead ==
  ASSUME NEW c \in Crontabs, ~CrontabError(c), NEW i \in DOMAIN c, StepsAgree(c[i].pattern)
  PROVE  Reads(Parse(c[i]), c[i].pattern)
<1>. SUFFICES ASSUME NEW f \in Fields
              PROVE  Enumerates(Parse(c[i]).numbers[f],
                                {n \in Bounds[f] : Written(c[i].pattern, f, n)})
  BY DEF Reads
<1>. DEFINE parts == c[i].pattern[f]
<1>1. ASSUME NEW n \in Bounds[f], NEW k \in DOMAIN parts
      PROVE  Counts(f, parts[k], n) <=> Means(f, parts[k], n)
  <2>1. parts[k] \in Range(parts)
    BY DEF Range
  <2>2. /\ IsPart(parts[k])
        /\ parts[k].kind = "wildcard" => parts[k].from > 0 /\ Lowest(f) % parts[k].from = 0
    BY <2>1, CrontabsAreLines DEF StepsAgree
  <2>. QED  BY <2>2, CountsWhatItMeans
<1>2. {n \in Bounds[f] : \E k \in DOMAIN parts : Counts(f, parts[k], n)} =
        {n \in Bounds[f] : Written(c[i].pattern, f, n)}
  BY <1>1 DEF Written
<1>. QED  BY <1>2, LinesAreListed

\* Whatever a crontab says, in whatever order, with whatever overlaps and values
\* out of bounds: if the parser takes it, its items fire in exactly the minutes
\* it is written for, but for the steps that StepsAsDocumented excepts, and no two
\* have the same identifier.
THEOREM PatternsAreFaithful == Spec => []PatternsFireAsWritten
<1>1. ItemsRead => PatternsFireAsWritten
  <2>1. CASE items = <<>>
    <3>1. DOMAIN items = {} /\ Len(items) = 0
      BY <2>1
    <3>2. {items[i].identifier : i \in DOMAIN items} = {}
      BY <3>1
    <3>. QED  BY <3>1, <3>2, FS_EmptySet DEF PatternsFireAsWritten
  <2>2. ASSUME NEW c \in Crontabs, crontab = c, items = ItemsOf(c), ~CrontabError(c)
        PROVE  PatternsFireAsWritten
    <3>1. \A i \in DOMAIN items : i \in DOMAIN c /\ items[i] = Parse(c[i])
      BY <2>2 DEF ItemsOf
    <3>2. \A i \in DOMAIN items :
            StepsAgree(crontab[i].pattern) => Reads(items[i], crontab[i].pattern)
      BY <2>2, <3>1, LinesAreRead
    <3>3. ASSUME NEW i \in DOMAIN items, NEW f \in Fields,
                 NEW k \in 2 .. Len(items[i].numbers[f])
          PROVE  items[i].numbers[f][k - 1] < items[i].numbers[f][k]
      <4>. DEFINE numbers == items[i].numbers[f]
      <4>1. /\ Len(numbers) \in Nat
            /\ \A j, l \in 1 .. Len(numbers) : j < l => numbers[j] < numbers[l]
        BY <2>2, <3>1, LinesAreListed DEF Enumerates
      <4>. DEFINE m == Len(numbers)
      <4>2. k \in 2 .. m
        OBVIOUS
      <4>. HIDE DEF numbers, m
      <4>3. k - 1 \in 1 .. m /\ k \in 1 .. m /\ k - 1 < k
        BY <4>1, <4>2 DEF m
      <4>. QED  BY <4>1, <4>3 DEF m, numbers
    <3>4. ASSUME NEW i \in DOMAIN items, StepsAgree(crontab[i].pattern), NEW d \in Digests
          PROVE  Matches(items[i], d) <=> FiresAt(crontab[i].pattern, d)
      BY <3>2, <3>4, DigestsAreMinutes, MatcherIsFaithful
    <3>5. Cardinality({items[i].identifier : i \in DOMAIN items}) = Len(items)
      BY <2>2, IdentifiersDiffer
    <3>. QED  BY <3>3, <3>4, <3>5 DEF PatternsFireAsWritten
  <2>. QED  BY <2>1, <2>2 DEF ItemsRead
<1>. QED  BY <1>1, ItemsReadHolds, PTL
===============================================================================
