------------------------------- MODULE JobQueue -------------------------------
(***************************************************************************)
(* The job queue of kongtask: the tables jobs and job_queues, the SQL      *)
(* functions and inline statements that change them, and the workers that  *)
(* lock, execute and finish jobs.                                          *)
(*                                                                         *)
(* One SQL statement is one step: row locks and the re-check PostgreSQL    *)
(* makes after waiting for one give a statement the effect of running      *)
(* alone.  remove_job is two statements and is two steps.                  *)
(*                                                                         *)
(* Time is kept as ages and delays.  A tick of the clock adds one to the   *)
(* age of every lock, up to Expiry + 1, and takes one from the time that   *)
(* is left until a job's run_at, down to 0, so the state stays finite      *)
(* however long the clock runs.  A lock older than Expiry is one whose     *)
(* locked_at is more than 4 hours ago.                                     *)
(***************************************************************************)
EXTENDS Naturals, FiniteSets, Functions

CONSTANTS
  Workers,      \* worker ids; a worker that is started again takes a new one
  Mortal,       \* the workers whose process may die
  Queues,       \* queue names
  Keys,         \* job keys
  None,         \* SQL null
  MaxAdds,      \* bound: number of calls of add_job
  MaxAttempts,  \* bound: largest max_attempts a client asks for
  MaxDelay,     \* bound: largest distance of run_at from now, in ticks
  Expiry,       \* a lock older than this is swept (4 hours), in ticks
  MaxRun,       \* no execution of a job takes longer than this, in ticks
  ClientCalls   \* the kinds of client calls in play beside add_job

ASSUME BoundsAreNat ==
  /\ MaxAdds \in Nat
  /\ MaxAttempts \in Nat
  /\ MaxDelay \in Nat
  /\ Expiry \in Nat
  /\ MaxRun \in Nat
ASSUME NoneIsNoName == None \notin Workers \cup Queues \cup Keys
ASSUME MortalAreWorkers == Mortal \subseteq Workers

VARIABLES
  jobs,      \* table jobs: function from the ids of the live rows
  queues,    \* table job_queues: function from the names that have a row
  run,       \* what each worker is executing
  dead,      \* workers whose process has died
  removing,  \* keys whose remove_job is between its two statements
  adds,      \* number of add_job calls so far: the bigserial of jobs.id
  fate       \* history: what became of the payload of each add_job call

vars == <<jobs, queues, run, dead, removing, adds, fate>>

(***************************************************************************)
(* Types.  The payload of a row is the number of the add_job call that     *)
(* supplied it, and a new row takes that number as its id.                 *)
(***************************************************************************)
Calls == 1 .. MaxAdds
Ages == 0 .. Expiry + 1
Delays == 0 .. MaxDelay
Modes == {"replace", "preserve_run_at", "unsafe_dedupe"}

Job == [queue : Queues \cup {None}, key : Keys \cup {None}, payload : Calls,
        attempts : 0 .. MaxAttempts, max : 1 .. MaxAttempts, delay : Delays,
        lockedBy : Workers \cup {None}, age : Ages]

QueueRow == [count : Nat, lockedBy : Workers \cup {None}, age : Ages]

\* Worker.activeJob; job 0 is nil.
Run == [job : 0 .. MaxAdds, payload : 0 .. MaxAdds,
        queue : Queues \cup {None}, age : Ages]
Idle == [job |-> 0, payload |-> 0, queue |-> None, age |-> 0]

\* "unused"  the call has not been made
\* "open"    the client waits for the payload to be worked on
\* "done"    a worker worked on it with success
\* "dropped" the client replaced, removed or closed it, or it was a duplicate
Fates == {"unused", "open", "done", "dropped"}

(***************************************************************************)
(* The rows.                                                               *)
(***************************************************************************)
Put(f, x, v) == [y \in DOMAIN f \cup {x} |-> IF y = x THEN v ELSE f[y]]
Drop(f, x) == Restrict(f, DOMAIN f \ {x})

NewRow(c, q, k, d, m) ==
  [queue |-> q, key |-> k, payload |-> c, attempts |-> 0, max |-> m,
   delay |-> d, lockedBy |-> None, age |-> 0]

Holders(k) == {i \in DOMAIN jobs : jobs[i].key = k}

\* Trigger _500_increase_job_queue_count on the table qs.
Increase(qs, q) ==
  IF q = None THEN qs
  ELSE IF q \in DOMAIN qs THEN [qs EXCEPT ![q].count = @ + 1]
  ELSE Put(qs, q, [count |-> 1, lockedBy |-> None, age |-> 0])

\* Trigger _500_decrease_job_queue_count: the row goes with its last job.
Decrease(qs, q) ==
  IF q \notin DOMAIN qs THEN qs
  ELSE IF qs[q].count <= 1 THEN Drop(qs, q)
  ELSE [qs EXCEPT ![q].count = @ - 1]

\* (mutant) the old queue is not decremented
MoveJobNoDecrease(qs, old, new) == IF old = new THEN qs ELSE Increase(qs, new)

\* The pair of triggers on an update of queue_name.
MoveJob(qs, old, new) ==
  IF old = new THEN qs ELSE Increase(Decrease(qs, old), new)

Retired(row) == [row EXCEPT !.key = None, !.attempts = row.max]
UnlockRow(row) == [row EXCEPT !.lockedBy = None, !.age = 0]
LockRow(row, w) == [row EXCEPT !.lockedBy = w, !.age = 0]
Fetched(row, w) == [LockRow(row, w) EXCEPT !.attempts = row.attempts + 1]

\* (mutant) without "and locked_by = $1"
UnlockQueueOfAnyone(qs, q, w) ==
  IF q \in DOMAIN qs THEN [qs EXCEPT ![q] = UnlockRow(@)] ELSE qs

\* The second half of the statements that complete or fail a job.
UnlockQueue(qs, q, w) ==
  IF q \in DOMAIN qs /\ qs[q].lockedBy = w
  THEN [qs EXCEPT ![q] = UnlockRow(@)]
  ELSE qs

Later(d) == IF d > MaxDelay THEN MaxDelay ELSE d

\* exp(least(attempts, 10)) seconds: never 0, growing, then constant.
Backoff(n) == IF n = 0 THEN 1 ELSE IF n > 10 THEN 10 ELSE n
Failed(row) == [UnlockRow(row) EXCEPT
                  !.delay = Later(row.delay + Backoff(row.attempts))]

(***************************************************************************)
(* add_job.  k = None is a call without job_key; q, d and m are            *)
(* queue_name, the distance of run_at and max_attempts.  max_attempts < 1  *)
(* and unknown modes raise an error and change nothing.                    *)
(***************************************************************************)
AddNew(c, q, k, d, m) ==
  /\ k = None \/ Holders(k) = {}
  /\ jobs' = Put(jobs, c, NewRow(c, q, k, d, m))
  /\ queues' = Increase(queues, q)
  /\ fate' = [fate EXCEPT ![c] = "open"]

\* (mutant) on conflict do nothing
AddReplaceNothing(i, c, q, k, d, m, mode) ==
  /\ mode # "unsafe_dedupe"
  /\ jobs[i].lockedBy = None
  /\ fate' = [fate EXCEPT ![c] = "open", ![jobs[i].payload] = "dropped"]
  /\ UNCHANGED <<jobs, queues>>

\* on conflict (key) do update ... where jobs.locked_at is null
AddReplace(i, c, q, k, d, m, mode) ==
  LET keepRunAt == mode = "preserve_run_at" /\ jobs[i].attempts = 0
      delay == IF keepRunAt THEN jobs[i].delay ELSE d
  IN /\ mode # "unsafe_dedupe"
     /\ jobs[i].lockedBy = None
     /\ jobs' = [jobs EXCEPT ![i] = NewRow(c, q, k, delay, m)]
     /\ queues' = MoveJob(queues, jobs[i].queue, q)
     /\ fate' = [fate EXCEPT ![c] = "open", ![jobs[i].payload] = "dropped"]

\* (mutant) the locked holder keeps its key
AddSupersedeKeepKey(i, c, q, k, d, m, mode) ==
  /\ mode # "unsafe_dedupe"
  /\ jobs[i].lockedBy # None
  /\ jobs' = Put([jobs EXCEPT ![i].attempts = jobs[i].max], c, NewRow(c, q, k, d, m))
  /\ queues' = Increase(queues, q)
  /\ fate' = [fate EXCEPT ![c] = "open", ![jobs[i].payload] = "dropped"]

\* The holder of the key is locked: it gives up its key and its retries.
AddSupersede(i, c, q, k, d, m, mode) ==
  /\ mode # "unsafe_dedupe"
  /\ jobs[i].lockedBy # None
  /\ jobs' = Put([jobs EXCEPT ![i] = Retired(@)], c, NewRow(c, q, k, d, m))
  /\ queues' = Increase(queues, q)
  /\ fate' = [fate EXCEPT ![c] = "open", ![jobs[i].payload] = "dropped"]

\* unsafe_dedupe on a taken key only bumps the revision of the row.
AddDuplicate(c, k, mode) ==
  /\ mode = "unsafe_dedupe"
  /\ Holders(k) # {}
  /\ fate' = [fate EXCEPT ![c] = "dropped"]
  /\ UNCHANGED <<jobs, queues>>

AddJob(q, k, d, m, mode) ==
  LET c == adds + 1 IN
  /\ adds < MaxAdds
  /\ adds' = c
  /\ \/ AddNew(c, q, k, d, m)
     \/ /\ k # None
        /\ \E i \in Holders(k) : \/ AddReplace(i, c, q, k, d, m, mode)
                                 \/ AddSupersede(i, c, q, k, d, m, mode)
     \/ k # None /\ AddDuplicate(c, k, mode)
  /\ UNCHANGED <<run, dead, removing>>

(***************************************************************************)
(* remove_job: delete the row if it is unlocked, otherwise, in a second    *)
(* statement, stop its retries and clear its key.                          *)
(***************************************************************************)
DeleteJob(i) ==
  /\ jobs' = Drop(jobs, i)
  /\ queues' = Decrease(queues, jobs[i].queue)

RemoveUnlocked(k) ==
  /\ "remove_job" \in ClientCalls
  /\ k \notin removing
  /\ \/ \E i \in Holders(k) :
          /\ jobs[i].lockedBy = None
          /\ DeleteJob(i)
          /\ fate' = [fate EXCEPT ![jobs[i].payload] = "dropped"]
          /\ UNCHANGED removing
     \/ /\ \A i \in Holders(k) : jobs[i].lockedBy # None
        /\ removing' = removing \cup {k}
        /\ UNCHANGED <<jobs, queues, fate>>
  /\ UNCHANGED <<run, dead, adds>>

\* (mutant) the key is cleared, the retries are not stopped
RemoveLockedKeepRetries(k) ==
  /\ k \in removing
  /\ removing' = removing \ {k}
  /\ jobs' = [i \in DOMAIN jobs |-> IF i \in Holders(k) THEN [jobs[i] EXCEPT !.key = None]
                                    ELSE jobs[i]]
  /\ fate' = [c \in Calls |-> IF \E i \in Holders(k) : jobs[i].payload = c
                              THEN "dropped" ELSE fate[c]]
  /\ UNCHANGED <<queues, run, dead, adds>>

RemoveLocked(k) ==
  /\ k \in removing
  /\ removing' = removing \ {k}
  /\ \/ \E i \in Holders(k) :
          /\ jobs' = [jobs EXCEPT ![i] = Retired(@)]
          /\ fate' = [fate EXCEPT ![jobs[i].payload] = "dropped"]
     \/ Holders(k) = {} /\ UNCHANGED <<jobs, fate>>
  /\ UNCHANGED <<queues, run, dead, adds>>

(***************************************************************************)
(* complete_jobs, permanently_fail_jobs and reschedule_jobs, for one id of *)
(* the array each takes.                                                   *)
(***************************************************************************)
\* (mutant) the lock is not looked at
AdministrableLocked(i) == i \in DOMAIN jobs

Administrable(i) == jobs[i].lockedBy = None \/ jobs[i].age > Expiry

CompleteJobs(i) ==
  /\ "complete_jobs" \in ClientCalls
  /\ Administrable(i)
  /\ DeleteJob(i)
  /\ fate' = [fate EXCEPT ![jobs[i].payload] = "dropped"]
  /\ UNCHANGED <<run, dead, removing, adds>>

PermanentlyFailJobs(i) ==
  /\ "permanently_fail_jobs" \in ClientCalls
  /\ Administrable(i)
  /\ jobs' = [jobs EXCEPT ![i].attempts = jobs[i].max]
  /\ fate' = [fate EXCEPT ![jobs[i].payload] = "dropped"]
  /\ UNCHANGED <<queues, run, dead, removing, adds>>

Rescheduled(row, d, a, m) ==
  [row EXCEPT !.delay = d, !.attempts = a, !.max = m]

\* d, a and m are run_at, attempts and max_attempts; a null one keeps the
\* column, which is the case of a value equal to the one the row has.
RescheduleJobs(i, d, a, m) ==
  /\ "reschedule_jobs" \in ClientCalls
  /\ Administrable(i)
  /\ jobs' = [jobs EXCEPT ![i] = Rescheduled(@, d, a, m)]
  /\ fate' = IF a < m THEN [fate EXCEPT ![jobs[i].payload] = "open"] ELSE fate
  /\ UNCHANGED <<queues, run, dead, removing, adds>>

(***************************************************************************)
(* The workers.                                                            *)
(***************************************************************************)
QueueFree(q) == q = None \/ (q \in DOMAIN queues /\ queues[q].lockedBy = None)

\* (mutant) without attempts < max_attempts
EligibleExhausted(i) ==
  jobs[i].lockedBy = None /\ QueueFree(jobs[i].queue) /\ jobs[i].delay = 0

Eligible(i) ==
  /\ jobs[i].lockedBy = None
  /\ QueueFree(jobs[i].queue)
  /\ jobs[i].delay = 0
  /\ jobs[i].attempts < jobs[i].max

\* (mutant) the queue row is not locked
GetJobOnly(w, i) ==
  /\ w \notin dead
  /\ run[w].job = 0
  /\ Eligible(i)
  /\ jobs' = [jobs EXCEPT ![i] = Fetched(@, w)]
  /\ run' = [run EXCEPT ![w] = [job |-> i, payload |-> jobs[i].payload,
                                queue |-> jobs[i].queue, age |-> 0]]
  /\ UNCHANGED <<queues, dead, removing, adds, fate>>

\* The statement orders by priority, run_at and id and passes over the rows
\* another statement has locked (skip locked), so any eligible job may be the
\* one it returns.  It locks the job and its queue row with the same now().
GetJob(w, i) ==
  LET q == jobs[i].queue IN
  /\ w \notin dead
  /\ run[w].job = 0
  /\ Eligible(i)
  /\ jobs' = [jobs EXCEPT ![i] = Fetched(@, w)]
  /\ queues' = IF q = None THEN queues
               ELSE [queues EXCEPT ![q] = LockRow(@, w)]
  /\ run' = [run EXCEPT ![w] = [job |-> i, payload |-> jobs[i].payload,
                                queue |-> q, age |-> 0]]
  /\ UNCHANGED <<dead, removing, adds, fate>>

\* The handler returned nil: delete where id = $2, whoever holds the lock.
CompleteJob(w) ==
  LET i == run[w].job IN
  /\ i # 0
  /\ run' = [run EXCEPT ![w] = Idle]
  /\ fate' = [fate EXCEPT ![run[w].payload] = "done"]
  /\ IF i \in DOMAIN jobs
     THEN LET q == jobs[i].queue
          IN /\ jobs' = Drop(jobs, i)
             /\ queues' = Decrease(UnlockQueue(queues, q, w), q)
     ELSE UNCHANGED <<jobs, queues>>
  /\ UNCHANGED <<dead, removing, adds>>

\* (mutant) without "and locked_by = $1"
FailJobOfAnyone(w) ==
  LET i == run[w].job IN
  /\ i # 0
  /\ run' = [run EXCEPT ![w] = Idle]
  /\ IF i \in DOMAIN jobs
     THEN /\ jobs' = [jobs EXCEPT ![i] = UnlockRow(@)]
          /\ queues' = UnlockQueue(queues, jobs[i].queue, w)
     ELSE UNCHANGED <<jobs, queues>>
  /\ UNCHANGED <<dead, removing, adds, fate>>

\* The handler returned an error: update where id = $2 and locked_by = $1.
FailJob(w) ==
  LET i == run[w].job IN
  /\ i # 0
  /\ run' = [run EXCEPT ![w] = Idle]
  /\ IF i \in DOMAIN jobs /\ jobs[i].lockedBy = w
     THEN /\ jobs' = [jobs EXCEPT ![i] = Failed(@)]
          /\ queues' = UnlockQueue(queues, jobs[i].queue, w)
     ELSE UNCHANGED <<jobs, queues>>
  /\ UNCHANGED <<dead, removing, adds, fate>>

\* ProcessJob returns with the job still locked: CompleteJob or FailJob got an
\* error (a cancelled context, a lost connection).
Abandon(w) ==
  /\ run[w].job # 0
  /\ run' = [run EXCEPT ![w] = Idle]
  /\ UNCHANGED <<jobs, queues, dead, removing, adds, fate>>

\* SIGKILL, segfault, power loss: the rows stay as they are.
Crash(w) ==
  /\ w \in Mortal \ dead
  /\ dead' = dead \cup {w}
  /\ run' = [run EXCEPT ![w] = Idle]
  /\ UNCHANGED <<jobs, queues, removing, adds, fate>>

(***************************************************************************)
(* The sweep and the clock.                                                *)
(***************************************************************************)
\* (mutant) the comparison with now() - interval '4 hours' turned round
ReleaseYoung(row) == IF row.age < Expiry THEN UnlockRow(row) ELSE row

Release(row) == IF row.age > Expiry THEN UnlockRow(row) ELSE row

\* (mutant) job_queues is not swept
ResetLockedJobs ==
  /\ jobs' = [i \in DOMAIN jobs |-> Release(jobs[i])]
  /\ UNCHANGED <<queues, run, dead, removing, adds, fate>>

ResetLocked ==
  /\ jobs' = [i \in DOMAIN jobs |-> Release(jobs[i])]
  /\ queues' = [q \in DOMAIN queues |-> Release(queues[q])]
  /\ UNCHANGED <<run, dead, removing, adds, fate>>

Older(age) == IF age > Expiry THEN age ELSE age + 1
AgeRow(row) ==
  IF row.lockedBy = None THEN row ELSE [row EXCEPT !.age = Older(@)]
Sooner(row) == [row EXCEPT !.delay = IF @ = 0 THEN 0 ELSE @ - 1]

Tick ==
  /\ \A w \in Workers : run[w].job # 0 => run[w].age < MaxRun
  /\ jobs' = [i \in DOMAIN jobs |-> Sooner(AgeRow(jobs[i]))]
  /\ queues' = [q \in DOMAIN queues |-> AgeRow(queues[q])]
  /\ run' = [w \in Workers |-> IF run[w].job = 0 THEN run[w]
                               ELSE [run[w] EXCEPT !.age = Older(@)]]
  /\ UNCHANGED <<dead, removing, adds, fate>>

-------------------------------------------------------------------------------
\* A freshly migrated schema and workers that have just been started.
Init ==
  /\ jobs = [i \in {} |-> NewRow(i, None, None, 0, 1)]
  /\ queues = [q \in {} |-> [count |-> 0, lockedBy |-> None, age |-> 0]]
  /\ run = [w \in Workers |-> Idle]
  /\ dead = {}
  /\ removing = {}
  /\ adds = 0
  /\ fate = [c \in Calls |-> "unused"]

ClientNext ==
  \/ \E q \in Queues \cup {None}, k \in Keys \cup {None}, d \in Delays,
        m \in 1 .. MaxAttempts, mode \in Modes : AddJob(q, k, d, m, mode)
  \/ \E k \in Keys : RemoveUnlocked(k) \/ RemoveLocked(k)
  \/ \E i \in DOMAIN jobs :
        \/ CompleteJobs(i)
        \/ PermanentlyFailJobs(i)
        \/ \E d \in Delays, a \in 0 .. MaxAttempts, m \in 1 .. MaxAttempts :
             RescheduleJobs(i, d, a, m)

WorkerNext(w) ==
  \/ \E i \in DOMAIN jobs : GetJob(w, i)
  \/ CompleteJob(w)
  \/ FailJob(w)
  \/ Abandon(w)
  \/ Crash(w)

Next ==
  \/ ClientNext
  \/ \E w \in Workers : WorkerNext(w)
  \/ ResetLocked
  \/ Tick

Spec == Init /\ [][Next]_vars

-------------------------------------------------------------------------------
(***************************************************************************)
(* Safety.                                                                 *)
(***************************************************************************)
Executing(w) == run[w].job # 0
LeaseFresh(w) == Executing(w) /\ run[w].age <= Expiry

\* Every variable has its type; rows are only made by numbered calls.
TypeOK ==
  /\ adds \in 0 .. MaxAdds
  /\ DOMAIN jobs \subseteq 1 .. adds
  /\ jobs \in [DOMAIN jobs -> Job]
  /\ DOMAIN queues \subseteq Queues
  /\ queues \in [DOMAIN queues -> QueueRow]
  /\ run \in [Workers -> Run]
  /\ dead \subseteq Mortal
  /\ removing \subseteq Keys
  /\ fate \in [Calls -> Fates]

InQueue(q) == {i \in DOMAIN jobs : jobs[i].queue = q}

\* The triggers keep job_queues in step with jobs: a queue has a row exactly
\* while it has jobs, and job_count is their number.  A job whose queue has no
\* row could never be fetched (the exists of get_job).
QueueRowsMatch ==
  /\ \A i \in DOMAIN jobs : jobs[i].queue # None => jobs[i].queue \in DOMAIN queues
  /\ \A q \in DOMAIN queues : /\ InQueue(q) # {}
                              /\ queues[q].count = Cardinality(InQueue(q))

\* No two jobs have the same key: the last insert of add_job, which assumes
\* that no conflict is left (000007.sql:134), cannot meet one.
KeysUnique ==
  \A i, j \in DOMAIN jobs : jobs[i].key = jobs[j].key /\ i # j => jobs[i].key = None

\* A locked job of a queue goes with a lock of its queue by the same worker,
\* taken at the same time.
LockedTogether ==
  \A i \in DOMAIN jobs :
    LET q == jobs[i].queue IN
    jobs[i].lockedBy # None /\ q # None =>
      /\ q \in DOMAIN queues
      /\ queues[q].lockedBy = jobs[i].lockedBy
      /\ queues[q].age = jobs[i].age

\* At most one job of a queue is locked.
OneLockPerQueue ==
  \A i, j \in DOMAIN jobs :
    /\ jobs[i].queue = jobs[j].queue /\ jobs[i].queue # None
    /\ jobs[i].lockedBy # None /\ jobs[j].lockedBy # None
    => i = j

\* Together: a queue is never left locked by another worker, or at another time,
\* than its job, and never for two jobs.
QueueLocks == LockedTogether /\ OneLockPerQueue

\* Until its lock is older than the expiry a worker has the row of the job it
\* executes to itself: locked by it, with the payload and queue it was given.
LeaseHolds ==
  \A w \in Workers : LET i == run[w].job IN
    LeaseFresh(w) /\ i \in DOMAIN jobs =>
      /\ jobs[i].lockedBy = w
      /\ jobs[i].age = run[w].age
      /\ jobs[i].payload = run[w].payload
      /\ jobs[i].queue = run[w].queue

\* A lock that w left behind is never younger than the execution w is in, so
\* when w loses the lock of the job it executes it holds no other one: a late
\* CompleteJob or FailJob cannot unlock a queue that w locked for another job.
LocksInOrder ==
  \A w \in Workers, i \in DOMAIN jobs :
    Executing(w) /\ jobs[i].lockedBy = w =>
      /\ jobs[i].age >= run[w].age
      /\ run[w].job \in DOMAIN jobs => jobs[run[w].job].lockedBy = w

\* Two workers execute one job only when one of them has outlived its lock.
JobExclusive ==
  \A v, w \in Workers :
    LeaseFresh(v) /\ LeaseFresh(w) /\ run[v].job = run[w].job => v = w

\* Together: whoever outlives what, a lease that has not run out is exclusive,
\* and the locks of one that has are the first to be swept.
LeaseExclusive == LeaseHolds /\ JobExclusive /\ LocksInOrder

\* As long as its lock is fresh nobody deletes the row of the job a worker
\* executes.  CompleteJob does not look at locked_by, so this needs every
\* execution to end within its lock (MaxRun <= Expiry).
RowKept == \A w \in Workers : LeaseFresh(w) => run[w].job \in DOMAIN jobs

\* Workers that have not outlived their locks execute the jobs of a queue one
\* at a time.
QueueSerial ==
  \A v, w \in Workers :
    LeaseFresh(v) /\ LeaseFresh(w) /\ run[v].queue = run[w].queue
      /\ run[v].queue # None => v = w

\* A payload that was replaced, removed or closed while its row stays has no
\* attempts left, so no worker starts it (again): what the update in add_job,
\* remove_job and permanently_fail_jobs is for.
DroppedNeverStarts ==
  \A i \in DOMAIN jobs :
    fate[jobs[i].payload] # "open" => jobs[i].attempts >= jobs[i].max

\* What a client asked for and did not withdraw is in the table until a worker
\* has worked on it.
NothingLost ==
  \A c \in Calls : fate[c] = "open" => \E i \in DOMAIN jobs : jobs[i].payload = c

\* Only its own worker, or the sweep once it is old, takes a lock off a job,
\* and nobody else hands it over.
Unlocks(i, w) ==
  i \in DOMAIN jobs' /\ jobs[i].lockedBy = w /\ jobs'[i].lockedBy # w
OwnLocksOnly ==
  [][\A i \in DOMAIN jobs, w \in Workers :
       Unlocks(i, w) => \/ run[w].job = i /\ run'[w] = Idle
                        \/ jobs[i].age > Expiry]_vars

(***************************************************************************)
(* What a client sees, as an abstract specification.                       *)
(***************************************************************************)
Ledger == INSTANCE JobLedger WITH
  Payloads <- Calls,
  working <- {jobs[i].payload : i \in {j \in DOMAIN jobs : jobs[j].lockedBy # None}}

\* add_job, the workers and the sweep implement the ledger of payloads as long
\* as no execution outlives its lock (MaxRun <= Expiry).
LedgerSpec == Ledger!Spec

\* The reservations, as JobLease sees them.
Lease == INSTANCE JobLease WITH
  Jobs <- Calls,
  locked <- {i \in DOMAIN jobs : jobs[i].lockedBy # None},
  holds <- [w \in Workers |-> IF run[w].job = 0 THEN {} ELSE {run[w].job}]

\* No execution meets another one, an administrator or the sweep, as long as
\* none outlives its lock.
LeaseSpec == Lease!Spec

(***************************************************************************)
(* Liveness.                                                               *)
(***************************************************************************)
\* Time passes, a worker that is alive polls, a handler returns.
Fairness ==
  /\ WF_vars(Tick)
  /\ \A w \in Workers :
       /\ WF_vars(\E i \in DOMAIN jobs : GetJob(w, i))
       /\ WF_vars(CompleteJob(w) \/ FailJob(w) \/ Abandon(w))

FairSpec == Spec /\ Fairness

\* Some process also keeps running the sweep.
SweptSpec == FairSpec /\ WF_vars(ResetLocked)

Exhausted(i) == jobs[i].lockedBy = None /\ jobs[i].attempts >= jobs[i].max
Settled(c) ==
  \/ fate[c] # "open"
  \/ \E i \in DOMAIN jobs : jobs[i].payload = c /\ Exhausted(i)

\* An administrator puts a job off, or gives it attempts again.
PutOff ==
  /\ adds' = adds
  /\ \E i \in DOMAIN jobs \cap DOMAIN jobs' :
       /\ jobs'[i].lockedBy = jobs[i].lockedBy
       /\ \/ jobs'[i].delay > jobs[i].delay
          \/ jobs'[i].max - jobs'[i].attempts > jobs[i].max - jobs[i].attempts

\* With the sweep running, every payload is worked on with success, withdrawn,
\* or tried as often as its max_attempts allows, whatever crashes, unless
\* administrators put jobs off for ever.
EventuallySettled ==
  <>[][~PutOff]_vars => \A c \in Calls : fate[c] = "open" ~> Settled(c)
===============================================================================
