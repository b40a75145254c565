---------------------------- MODULE JobQueueProofs ----------------------------
(***************************************************************************)
(* Machine-checked proofs about JobQueue, for every set of workers, queues *)
(* and keys and every value of the bounds: types, the bookkeeping of       *)
(* job_queues and of keys and payloads, locks, and, for executions that    *)
(* end within their locks, what follows from them, to the refinement of    *)
(* JobLedger and JobLease.                                                 *)
(***************************************************************************)
EXTENDS JobQueue, FiniteSetTheorems, TLAPS

USE BoundsAreNat, NoneIsNoName, MortalAreWorkers

-------------------------------------------------------------------------------
(***************************************************************************)
(* Rows of jobs: what the operators on rows keep.                          *)
(***************************************************************************)
\* A row written by add_job is a job.
LEMMA NewRowType ==
  ASSUME NEW c \in Calls, NEW q \in Queues \cup {None}, NEW k \in Keys \cup {None},
         NEW d \in Delays, NEW m \in 1 .. MaxAttempts
  PROVE  NewRow(c, q, k, d, m) \in Job
BY DEF NewRow, Job, Calls, Delays, Ages

\* Locking, unlocking, retiring and ageing a job gives a job.
LEMMA JobRowTypes ==
  ASSUME NEW row \in Job
  PROVE  /\ UnlockRow(row) \in Job
         /\ \A w \in Workers : LockRow(row, w) \in Job
         /\ Retired(row) \in Job
         /\ Release(row) \in Job
         /\ Sooner(AgeRow(row)) \in Job
<1>. USE DEF Job
<1>1. ASSUME NEW r \in Job PROVE [r EXCEPT !.age = 0] \in Job
  BY DEF Ages
<1>2. UnlockRow(row) \in Job
  <2>1. [row EXCEPT !.lockedBy = None] \in Job
    OBVIOUS
  <2>. QED  BY <1>1, <2>1 DEF UnlockRow
<1>3. ASSUME NEW w \in Workers PROVE LockRow(row, w) \in Job
  <2>1. [row EXCEPT !.lockedBy = w] \in Job
    OBVIOUS
  <2>. QED  BY <1>1, <2>1 DEF LockRow
<1>4. Retired(row) \in Job
  <2>1. [row EXCEPT !.key = None] \in Job
    OBVIOUS
  <2>2. ASSUME NEW r \in Job, NEW n \in 0 .. MaxAttempts
        PROVE  [r EXCEPT !.attempts = n] \in Job
    OBVIOUS
  <2>3. row.max \in 0 .. MaxAttempts
    OBVIOUS
  <2>. QED  BY <2>1, <2>2, <2>3 DEF Retired
<1>5. Release(row) \in Job
  BY <1>2 DEF Release
<1>6. AgeRow(row) \in Job
  <2>1. Older(row.age) \in Ages
    BY DEF Older, Ages
  <2>. QED  BY <2>1 DEF AgeRow
<1>7. ASSUME NEW r \in Job PROVE Sooner(r) \in Job
  BY DEF Sooner, Delays
<1>. QED  BY <1>2, <1>3, <1>4, <1>5, <1>6, <1>7

(***************************************************************************)
(* The table job_queues.                                                   *)
(***************************************************************************)
IsTable(qs) == DOMAIN qs \subseteq Queues /\ qs \in [DOMAIN qs -> QueueRow]

\* Locking, unlocking and ageing a row of job_queues.
LEMMA QueueRowTypes ==
  ASSUME NEW row \in QueueRow
  PROVE  /\ UnlockRow(row) \in QueueRow
         /\ \A w \in Workers : LockRow(row, w) \in QueueRow
         /\ Release(row) \in QueueRow
         /\ AgeRow(row) \in QueueRow
<1>. USE DEF QueueRow
<1>1. ASSUME NEW r \in QueueRow PROVE [r EXCEPT !.age = 0] \in QueueRow
  BY DEF Ages
<1>2. UnlockRow(row) \in QueueRow
  <2>1. [row EXCEPT !.lockedBy = None] \in QueueRow
    OBVIOUS
  <2>. QED  BY <1>1, <2>1 DEF UnlockRow
<1>3. ASSUME NEW w \in Workers PROVE LockRow(row, w) \in QueueRow
  <2>1. [row EXCEPT !.lockedBy = w] \in QueueRow
    OBVIOUS
  <2>. QED  BY <1>1, <2>1 DEF LockRow
<1>4. Older(row.age) \in Ages
  BY DEF Older, Ages
<1>. QED  BY <1>2, <1>3, <1>4 DEF Release, AgeRow

\* The triggers and the unlocking of a queue keep the type of job_queues.
LEMMA QueueTableTypes ==
  ASSUME NEW qs, IsTable(qs), NEW q \in Queues \cup {None}, NEW w
  PROVE  /\ IsTable(Increase(qs, q))
         /\ IsTable(Decrease(qs, q))
         /\ IsTable(UnlockQueue(qs, q, w))
<1>. USE DEF IsTable
<1>1. IsTable(Increase(qs, q))
  BY DEF Increase, Put, QueueRow, Ages
<1>2. IsTable(Decrease(qs, q))
  BY DEF Decrease, Drop, Restrict, QueueRow, Ages
<1>3. IsTable(UnlockQueue(qs, q, w))
  <2>1. q \in DOMAIN qs => UnlockRow(qs[q]) \in QueueRow
    BY QueueRowTypes
  <2>. QED  BY <2>1 DEF UnlockQueue
<1>. QED  BY <1>1, <1>2, <1>3

(***************************************************************************)
(* Type correctness, one lemma per group of operations.                    *)
(***************************************************************************)
LEMMA InitType == Init => TypeOK
BY DEF Init, TypeOK, Run, Idle, Ages, Fates, Calls

LEMMA AddJobType ==
  ASSUME TypeOK, NEW q \in Queues \cup {None}, NEW k \in Keys \cup {None},
         NEW d \in Delays, NEW m \in 1 .. MaxAttempts, NEW mode \in Modes,
         AddJob(q, k, d, m, mode)
  PROVE  TypeOK'
<1> DEFINE c == adds + 1
           RowsOK == /\ DOMAIN jobs' \subseteq DOMAIN jobs \cup {c}
                     /\ jobs' \in [DOMAIN jobs' -> Job]
                     /\ IsTable(queues')
                     /\ fate' \in [Calls -> Fates]
<1>1. c \in Calls /\ c \notin DOMAIN jobs /\ adds' = c
  BY DEF AddJob, Calls, TypeOK
<1>2. IsTable(queues) /\ IsTable(Increase(queues, q))
  BY QueueTableTypes DEF TypeOK, IsTable
<1>3. ASSUME NEW dd \in Delays PROVE NewRow(c, q, k, dd, m) \in Job
  BY <1>1, NewRowType
<1>. HIDE DEF c
<1>4. RowsOK
  <2>1. CASE AddNew(c, q, k, d, m)
    BY <2>1, <1>1, <1>2, <1>3 DEF AddNew, TypeOK, Put, Fates
  <2>2. ASSUME NEW i \in Holders(k), AddReplace(i, c, q, k, d, m, mode)
        PROVE  RowsOK
    <3> DEFINE dd == IF mode = "preserve_run_at" /\ jobs[i].attempts = 0
                     THEN jobs[i].delay ELSE d
    <3>1. i \in DOMAIN jobs /\ jobs[i] \in Job
      BY DEF Holders, TypeOK
    <3>2. dd \in Delays
      BY <3>1 DEF Job
    <3>3. jobs' = [jobs EXCEPT ![i] = NewRow(c, q, k, dd, m)]
      BY <2>2 DEF AddReplace
    <3>. HIDE DEF dd
    <3>4. IsTable(MoveJob(queues, jobs[i].queue, q))
      <4>1. IsTable(Decrease(queues, jobs[i].queue))
        BY <3>1, <1>2, QueueTableTypes DEF Job
      <4>2. IsTable(Increase(Decrease(queues, jobs[i].queue), q))
        BY <4>1, QueueTableTypes
      <4>. QED  BY <1>2, <4>2 DEF MoveJob
    <3>5. fate' = [fate EXCEPT ![c] = "open", ![jobs[i].payload] = "dropped"]
      BY <2>2 DEF AddReplace
    <3>6. queues' = MoveJob(queues, jobs[i].queue, q)
      BY <2>2 DEF AddReplace
    <3>7. NewRow(c, q, k, dd, m) \in Job
      BY <3>2, <1>3
    <3>. QED
      BY <3>1, <3>3, <3>4, <3>5, <3>6, <3>7 DEF TypeOK, Fates
  <2>3. ASSUME NEW i \in Holders(k), AddSupersede(i, c, q, k, d, m, mode)
        PROVE  RowsOK
    <3>1. i \in DOMAIN jobs /\ Retired(jobs[i]) \in Job
      BY JobRowTypes DEF Holders, TypeOK
    <3>. QED
      BY <2>3, <3>1, <1>1, <1>2, <1>3 DEF AddSupersede, TypeOK, Put, Fates
  <2>4. CASE AddDuplicate(c, k, mode)
    BY <2>4, <1>1, <1>2 DEF AddDuplicate, TypeOK, Fates
  <2>. QED  BY <2>1, <2>2, <2>3, <2>4 DEF AddJob, c
<1>. QED  BY <1>1, <1>4 DEF AddJob, TypeOK, IsTable, Calls

\* The operations that delete a row or write a job into an existing one.
LEMMA DeleteJobType ==
  ASSUME TypeOK, NEW i \in DOMAIN jobs, DeleteJob(i)
  PROVE  /\ DOMAIN jobs' \subseteq DOMAIN jobs
         /\ jobs' \in [DOMAIN jobs' -> Job]
         /\ IsTable(queues')
<1>1. IsTable(queues) /\ jobs[i].queue \in Queues \cup {None}
  BY DEF TypeOK, IsTable, Job
<1>2. IsTable(queues')
  BY <1>1, QueueTableTypes DEF DeleteJob
<1>. QED  BY <1>2 DEF DeleteJob, TypeOK, Drop, Restrict

LEMMA ClientType ==
  ASSUME TypeOK, ClientNext
  PROVE  TypeOK'
<1>. USE DEF IsTable, Fates
<1>1. ASSUME NEW k \in Keys, RemoveUnlocked(k) PROVE TypeOK'
  <2>1. ASSUME NEW i \in Holders(k), DeleteJob(i), UNCHANGED removing,
               fate' = [fate EXCEPT ![jobs[i].payload] = "dropped"]
        PROVE  TypeOK'
    <3>1. i \in DOMAIN jobs /\ jobs[i] \in Job
      BY DEF Holders, TypeOK
    <3>. QED  BY <1>1, <2>1, <3>1, DeleteJobType DEF RemoveUnlocked, TypeOK
  <2>2. CASE UNCHANGED <<jobs, queues, fate>> /\ removing' = removing \cup {k}
    BY <1>1, <2>2 DEF RemoveUnlocked, TypeOK
  <2>. QED  BY <1>1, <2>1, <2>2 DEF RemoveUnlocked
<1>2. ASSUME NEW k \in Keys, RemoveLocked(k) PROVE TypeOK'
  <2>1. ASSUME NEW i \in Holders(k), jobs' = [jobs EXCEPT ![i] = Retired(@)],
               fate' = [fate EXCEPT ![jobs[i].payload] = "dropped"]
        PROVE  TypeOK'
    <3>1. i \in DOMAIN jobs /\ Retired(jobs[i]) \in Job
      BY JobRowTypes DEF Holders, TypeOK
    <3>. QED  BY <1>2, <2>1, <3>1 DEF RemoveLocked, TypeOK
  <2>2. CASE UNCHANGED <<jobs, fate>>
    BY <1>2, <2>2 DEF RemoveLocked, TypeOK
  <2>. QED  BY <1>2, <2>1, <2>2 DEF RemoveLocked
<1>3. ASSUME NEW i \in DOMAIN jobs, CompleteJobs(i) PROVE TypeOK'
  BY <1>3, DeleteJobType DEF CompleteJobs, TypeOK
<1>4. ASSUME NEW i \in DOMAIN jobs, PermanentlyFailJobs(i) PROVE TypeOK'
  <2>1. [jobs[i] EXCEPT !.attempts = jobs[i].max] \in Job
    BY DEF TypeOK, Job
  <2>. QED  BY <1>4, <2>1 DEF PermanentlyFailJobs, TypeOK
<1>5. ASSUME NEW i \in DOMAIN jobs, NEW d \in Delays, NEW a \in 0 .. MaxAttempts,
             NEW m \in 1 .. MaxAttempts, RescheduleJobs(i, d, a, m)
      PROVE  TypeOK'
  <2>1. Rescheduled(jobs[i], d, a, m) \in Job
    <3>1. [jobs[i] EXCEPT !.delay = d] \in Job
      BY DEF TypeOK, Job
    <3>2. ASSUME NEW r \in Job PROVE [r EXCEPT !.attempts = a] \in Job
      BY DEF Job
    <3>3. ASSUME NEW r \in Job PROVE [r EXCEPT !.max = m] \in Job
      BY DEF Job
    <3>. QED  BY <3>1, <3>2, <3>3 DEF Rescheduled
  <2>. QED  BY <1>5, <2>1 DEF RescheduleJobs, TypeOK
<1>. QED  BY <1>1, <1>2, <1>3, <1>4, <1>5, AddJobType DEF ClientNext

LEMMA WorkerType ==
  ASSUME TypeOK, NEW w \in Workers, WorkerNext(w)
  PROVE  TypeOK'
<1>. USE DEF IsTable
<1>1. Idle \in Run
  BY DEF Idle, Run, Ages
<1>2. ASSUME NEW i \in DOMAIN jobs, GetJob(w, i) PROVE TypeOK'
  <2>1. jobs[i] \in Job /\ jobs[i].attempts < jobs[i].max /\ i \in Calls
    BY <1>2 DEF GetJob, Eligible, TypeOK, Calls
  <2>2. LockRow(jobs[i], w) \in Job
    BY <2>1, JobRowTypes
  <2>3. Fetched(jobs[i], w) \in Job
    BY <2>1, <2>2 DEF Fetched, Job
  <2>4. IsTable(queues')
    <3>1. ASSUME NEW q \in DOMAIN queues PROVE LockRow(queues[q], w) \in QueueRow
      BY QueueRowTypes DEF TypeOK
    <3>. QED  BY <1>2, <3>1 DEF GetJob, TypeOK
  <2>5. [job |-> i, payload |-> jobs[i].payload, queue |-> jobs[i].queue, age |-> 0] \in Run
    BY <2>1 DEF Run, Job, Calls, Ages
  <2>. QED  BY <1>2, <2>3, <2>4, <2>5 DEF GetJob, TypeOK
<1>3. ASSUME CompleteJob(w) PROVE TypeOK'
  <2>1. run[w].payload \in Calls => [fate EXCEPT ![run[w].payload] = "done"] \in [Calls -> Fates]
    BY DEF TypeOK, Fates
  <2>2. fate' \in [Calls -> Fates]
    BY <1>3, <2>1 DEF CompleteJob, TypeOK, Fates
  <2>3. CASE run[w].job \in DOMAIN jobs
    <3> DEFINE q == jobs[run[w].job].queue
    <3>1. q \in Queues \cup {None} /\ IsTable(queues)
      BY <2>3 DEF TypeOK, Job
    <3>2. IsTable(Decrease(UnlockQueue(queues, q, w), q))
      BY <3>1, QueueTableTypes
    <3>. QED  BY <1>1, <1>3, <2>2, <2>3, <3>2 DEF CompleteJob, TypeOK, Drop, Restrict
  <2>4. CASE run[w].job \notin DOMAIN jobs
    BY <1>1, <1>3, <2>2, <2>4 DEF CompleteJob, TypeOK
  <2>. QED  BY <2>3, <2>4
<1>4. ASSUME FailJob(w) PROVE TypeOK'
  <2> DEFINE i == run[w].job
  <2>1. CASE i \in DOMAIN jobs /\ jobs[i].lockedBy = w
    <3>1. jobs[i] \in Job /\ jobs[i].queue \in Queues \cup {None} /\ IsTable(queues)
      BY <2>1 DEF TypeOK, Job
    <3>2. Later(jobs[i].delay + Backoff(jobs[i].attempts)) \in Delays
      BY <3>1 DEF Job, Delays, Later, Backoff
    <3>3. UnlockRow(jobs[i]) \in Job
      BY <3>1, JobRowTypes
    <3>4. Failed(jobs[i]) \in Job
      BY <3>2, <3>3 DEF Failed, Job
    <3>5. IsTable(UnlockQueue(queues, jobs[i].queue, w))
      BY <3>1, QueueTableTypes
    <3>. QED  BY <1>1, <1>4, <2>1, <3>4, <3>5 DEF FailJob, TypeOK
  <2>2. CASE ~(i \in DOMAIN jobs /\ jobs[i].lockedBy = w)
    BY <1>1, <1>4, <2>2 DEF FailJob, TypeOK
  <2>. QED  BY <2>1, <2>2
<1>5. ASSUME Abandon(w) \/ Crash(w) PROVE TypeOK'
  BY <1>1, <1>5 DEF Abandon, Crash, TypeOK
<1>. QED  BY <1>2, <1>3, <1>4, <1>5 DEF WorkerNext

LEMMA ClockType ==
  ASSUME TypeOK, ResetLocked \/ Tick
  PROVE  TypeOK'
<1>1. ASSUME ResetLocked PROVE TypeOK'
  BY <1>1, JobRowTypes, QueueRowTypes DEF ResetLocked, TypeOK
<1>2. ASSUME Tick PROVE TypeOK'
  <2>1. ASSUME NEW w \in Workers PROVE [run[w] EXCEPT !.age = Older(@)] \in Run
    <3>1. run[w] \in Run /\ Older(run[w].age) \in Ages
      BY DEF TypeOK, Run, Older, Ages
    <3>. QED  BY <3>1 DEF Run
  <2>. QED  BY <1>2, <2>1, JobRowTypes, QueueRowTypes DEF Tick, TypeOK
<1>. QED  BY <1>1, <1>2

LEMMA NextType ==
  ASSUME TypeOK, Next
  PROVE  TypeOK'
BY ClientType, WorkerType, ClockType DEF Next

\* Every reachable state is type correct.
THEOREM TypeCorrect == Spec => []TypeOK
<1>1. TypeOK /\ [Next]_vars => TypeOK'
  <2>. SUFFICES ASSUME TypeOK, [Next]_vars PROVE TypeOK'
    OBVIOUS
  <2>1. CASE UNCHANGED vars
    BY <2>1 DEF TypeOK, vars
  <2>. QED  BY <2>1, NextType
<1>. QED  BY <1>1, InitType, PTL DEF Spec

-------------------------------------------------------------------------------
(***************************************************************************)
(* The bookkeeping of job_queues, the triggers that count, the unique      *)
(* index on jobs.key, and payloads: which row each is in, and that one     *)
(* that was dropped is not started again.                                  *)
(***************************************************************************)

(***************************************************************************)
(* job_count.  R maps each queue name to the ids of its jobs.              *)
(***************************************************************************)
Agree(qs, R) ==
  \A q \in Queues :
    /\ IsFiniteSet(R[q])
    /\ q \in DOMAIN qs <=> R[q] # {}
    /\ q \in DOMAIN qs => qs[q].count = Cardinality(R[q])

Members(js) == [q \in Queues |-> {i \in DOMAIN js : js[i].queue = q}]
Joined(R, q, x) == [p \in Queues |-> IF p = q THEN R[p] \cup {x} ELSE R[p]]
Left(R, q, x) == [p \in Queues |-> IF p = q THEN R[p] \ {x} ELSE R[p]]

\* The insert trigger: job x joins queue q.
LEMMA IncreaseAgrees ==
  ASSUME NEW qs, IsTable(qs), NEW R, Agree(qs, R),
         NEW q \in Queues \cup {None}, NEW x, q \in Queues => x \notin R[q]
  PROVE  Agree(Increase(qs, q), Joined(R, q, x))
<1>. SUFFICES ASSUME NEW p \in Queues
              PROVE  LET S == Joined(R, q, x)[p]
                         ps == Increase(qs, q)
                     IN  /\ IsFiniteSet(S)
                         /\ p \in DOMAIN ps <=> S # {}
                         /\ p \in DOMAIN ps => ps[p].count = Cardinality(S)
  BY DEF Agree
<1>1. CASE p # q
  <2>1. Joined(R, q, x)[p] = R[p]
    BY <1>1 DEF Joined
  <2>2. /\ p \in DOMAIN Increase(qs, q) <=> p \in DOMAIN qs
        /\ p \in DOMAIN qs => Increase(qs, q)[p] = qs[p]
    BY <1>1 DEF Increase, Put, IsTable
  <2>. QED  BY <2>1, <2>2 DEF Agree
<1>2. CASE p = q
  <2>1. Joined(R, q, x)[p] = R[p] \cup {x}
    BY <1>2 DEF Joined
  <2>2. /\ IsFiniteSet(R[p] \cup {x})
        /\ Cardinality(R[p] \cup {x}) = Cardinality(R[p]) + 1
    BY <1>2, FS_AddElement DEF Agree
  <2>3. CASE q \in DOMAIN qs
    <3>1. qs[q] \in QueueRow
      BY <2>3 DEF IsTable
    <3>2. /\ DOMAIN Increase(qs, q) = DOMAIN qs
          /\ Increase(qs, q)[q].count = qs[q].count + 1
      BY <1>2, <2>3, <3>1 DEF Increase, IsTable, QueueRow
    <3>. QED  BY <1>2, <2>1, <2>2, <2>3, <3>2 DEF Agree
  <2>4. CASE q \notin DOMAIN qs
    <3>1. R[q] = {} /\ Cardinality(R[q]) = 0
      BY <1>2, <2>4, FS_EmptySet DEF Agree
    <3>2. /\ q \in DOMAIN Increase(qs, q)
          /\ Increase(qs, q)[q].count = 1
      BY <1>2, <2>4 DEF Increase, Put
    <3>. QED  BY <1>2, <2>1, <2>2, <3>1, <3>2
  <2>. QED  BY <2>3, <2>4
<1>. QED  BY <1>1, <1>2

\* The delete trigger: job x leaves queue q.
LEMMA DecreaseAgrees ==
  ASSUME NEW qs, IsTable(qs), NEW R, Agree(qs, R),
         NEW q \in Queues \cup {None}, NEW x, q \in Queues => x \in R[q]
  PROVE  Agree(Decrease(qs, q), Left(R, q, x))
<1>. SUFFICES ASSUME NEW p \in Queues
              PROVE  LET S == Left(R, q, x)[p]
                         ps == Decrease(qs, q)
                     IN  /\ IsFiniteSet(S)
                         /\ p \in DOMAIN ps <=> S # {}
                         /\ p \in DOMAIN ps => ps[p].count = Cardinality(S)
  BY DEF Agree
<1>1. CASE p # q
  <2>1. Left(R, q, x)[p] = R[p]
    BY <1>1 DEF Left
  <2>2. /\ p \in DOMAIN Decrease(qs, q) <=> p \in DOMAIN qs
        /\ p \in DOMAIN qs => Decrease(qs, q)[p] = qs[p]
    BY <1>1 DEF Decrease, Drop, Restrict, IsTable
  <2>. QED  BY <2>1, <2>2 DEF Agree
<1>2. CASE p = q
  <2>1. Left(R, q, x)[p] = R[p] \ {x}
    BY <1>2 DEF Left
  <2>2. /\ q \in DOMAIN qs
        /\ qs[q] \in QueueRow
        /\ qs[q].count = Cardinality(R[q])
    BY <1>2 DEF Agree, IsTable
  <2>3. /\ IsFiniteSet(R[p] \ {x})
        /\ Cardinality(R[p] \ {x}) = Cardinality(R[p]) - 1
    BY <1>2, FS_RemoveElement DEF Agree
  <2>4. Cardinality(R[p] \ {x}) \in Nat /\ (Cardinality(R[p] \ {x}) = 0 <=> R[p] \ {x} = {})
    BY <2>3, FS_CardinalityType, FS_EmptySet
  <2>5. qs[q].count \in Nat
    BY <2>2 DEF QueueRow
  <2>6. CASE qs[q].count <= 1
    <3>1. q \notin DOMAIN Decrease(qs, q)
      BY <2>2, <2>6 DEF Decrease, Drop, Restrict
    <3>2. R[p] \ {x} = {}
      BY <1>2, <2>2, <2>3, <2>4, <2>5, <2>6
    <3>. QED  BY <1>2, <2>1, <2>3, <3>1, <3>2
  <2>7. CASE ~(qs[q].count <= 1)
    <3>1. /\ DOMAIN Decrease(qs, q) = DOMAIN qs
          /\ Decrease(qs, q)[q].count = qs[q].count - 1
      BY <2>2, <2>7 DEF Decrease, IsTable, QueueRow
    <3>2. R[p] \ {x} # {}
      BY <1>2, <2>2, <2>3, <2>4, <2>5, <2>7
    <3>. QED  BY <1>2, <2>1, <2>2, <2>3, <3>1, <3>2
  <2>. QED  BY <2>6, <2>7
<1>. QED  BY <1>1, <1>2

\* Operations that lock and unlock rows leave the counts alone.
LEMMA SameCountsAgree ==
  ASSUME NEW qs, NEW ps, NEW R, Agree(qs, R), DOMAIN ps = DOMAIN qs,
         \A q \in DOMAIN qs : ps[q].count = qs[q].count
  PROVE  Agree(ps, R)
BY DEF Agree

(***************************************************************************)
(* What the operators on rows do to each field.                            *)
(***************************************************************************)
Same(r, s) == r.queue = s.queue /\ r.payload = s.payload
SameLock(r, s) == r.lockedBy = s.lockedBy /\ r.age = s.age

LEMMA JobFields ==
  ASSUME NEW row \in Job
  PROVE  /\ /\ Same(UnlockRow(row), row) /\ UnlockRow(row).key = row.key
            /\ UnlockRow(row).lockedBy = None
         /\ \A w \in Workers :
              /\ Same(Fetched(row, w), row) /\ Fetched(row, w).key = row.key
              /\ Fetched(row, w).lockedBy = w /\ Fetched(row, w).age = 0
         /\ /\ Same(Failed(row), row) /\ Failed(row).key = row.key
            /\ Failed(row).lockedBy = None
         /\ /\ Same(Retired(row), row) /\ SameLock(Retired(row), row)
            /\ Retired(row).key = None
         /\ /\ Same(Release(row), row) /\ Release(row).key = row.key
            /\ IF row.age > Expiry THEN Release(row).lockedBy = None
                                   ELSE SameLock(Release(row), row)
         /\ /\ Same(Sooner(AgeRow(row)), row)
            /\ Sooner(AgeRow(row)).key = row.key
            /\ Sooner(AgeRow(row)).lockedBy = row.lockedBy
            /\ row.lockedBy # None => Sooner(AgeRow(row)).age = Older(row.age)
         /\ \A n \in Nat : LET r == [row EXCEPT !.attempts = n]
                           IN  Same(r, row) /\ SameLock(r, row) /\ r.key = row.key
         /\ \A d, a, m \in Nat : LET r == Rescheduled(row, d, a, m)
                           IN  Same(r, row) /\ SameLock(r, row) /\ r.key = row.key
<1>. USE DEF Job, Same, SameLock
<1>1. /\ Same(UnlockRow(row), row) /\ UnlockRow(row).key = row.key
      /\ UnlockRow(row).lockedBy = None
  BY DEF UnlockRow
<1>2. ASSUME NEW w \in Workers
      PROVE  /\ Same(Fetched(row, w), row) /\ Fetched(row, w).key = row.key
             /\ Fetched(row, w).lockedBy = w /\ Fetched(row, w).age = 0
  BY DEF Fetched, LockRow
<1>3. /\ Same(Failed(row), row) /\ Failed(row).key = row.key
      /\ Failed(row).lockedBy = None
  BY DEF Failed, UnlockRow
<1>4. /\ Same(Retired(row), row) /\ SameLock(Retired(row), row)
      /\ Retired(row).key = None
  BY DEF Retired
<1>5. /\ Same(Release(row), row) /\ Release(row).key = row.key
      /\ IF row.age > Expiry THEN Release(row).lockedBy = None
                             ELSE SameLock(Release(row), row)
  BY <1>1 DEF Release
<1>6. /\ Same(Sooner(AgeRow(row)), row)
      /\ Sooner(AgeRow(row)).key = row.key
      /\ Sooner(AgeRow(row)).lockedBy = row.lockedBy
      /\ row.lockedBy # None => Sooner(AgeRow(row)).age = Older(row.age)
  BY DEF Sooner, AgeRow
<1>7. ASSUME NEW n \in Nat
      PROVE  LET r == [row EXCEPT !.attempts = n]
             IN  Same(r, row) /\ SameLock(r, row) /\ r.key = row.key
  OBVIOUS
<1>8. ASSUME NEW d \in Nat, NEW a \in Nat, NEW m \in Nat
      PROVE  LET r == Rescheduled(row, d, a, m)
             IN  Same(r, row) /\ SameLock(r, row) /\ r.key = row.key
  BY DEF Rescheduled
<1>. QED  BY <1>1, <1>2, <1>3, <1>4, <1>5, <1>6, <1>7, <1>8

LEMMA SweepFields ==
  \A row \in Job :
    /\ Release(row).payload = row.payload /\ Release(row).key = row.key
    /\ Sooner(AgeRow(row)).payload = row.payload /\ Sooner(AgeRow(row)).key = row.key
BY JobFields DEF Same

LEMMA QueueFields ==
  ASSUME NEW row \in QueueRow
  PROVE  /\ /\ UnlockRow(row).count = row.count
            /\ UnlockRow(row).lockedBy = None
         /\ \A w \in Workers :
              /\ LockRow(row, w).count = row.count
              /\ LockRow(row, w).lockedBy = w /\ LockRow(row, w).age = 0
         /\ /\ Release(row).count = row.count
            /\ IF row.age > Expiry THEN Release(row).lockedBy = None
                                   ELSE SameLock(Release(row), row)
         /\ /\ AgeRow(row).count = row.count
            /\ AgeRow(row).lockedBy = row.lockedBy
            /\ row.lockedBy # None => AgeRow(row).age = Older(row.age)
<1>. USE DEF QueueRow, SameLock
<1>1. UnlockRow(row).count = row.count /\ UnlockRow(row).lockedBy = None
  BY DEF UnlockRow
<1>2. ASSUME NEW w \in Workers
      PROVE  /\ LockRow(row, w).count = row.count
             /\ LockRow(row, w).lockedBy = w /\ LockRow(row, w).age = 0
  BY DEF LockRow
<1>. QED  BY <1>1, <1>2 DEF Release, AgeRow

(***************************************************************************)
(* How Members follows the table jobs.                                     *)
(***************************************************************************)
LEMMA MembersPut ==
  ASSUME NEW js, NEW x, x \notin DOMAIN js, NEW v
  PROVE  Members(Put(js, x, v)) = Joined(Members(js), v.queue, x)
BY DEF Members, Joined, Put

LEMMA MembersDrop ==
  ASSUME NEW js, NEW x \in DOMAIN js
  PROVE  Members(Drop(js, x)) = Left(Members(js), js[x].queue, x)
BY DEF Members, Left, Drop, Restrict

LEMMA MembersMove ==
  ASSUME NEW js, NEW x \in DOMAIN js, NEW v, js[x].queue # v.queue
  PROVE  Members([js EXCEPT ![x] = v])
           = Joined(Left(Members(js), js[x].queue, x), v.queue, x)
BY DEF Members, Left, Joined

LEMMA MembersSame ==
  ASSUME NEW js, NEW ks, DOMAIN ks = DOMAIN js,
         \A i \in DOMAIN js : ks[i].queue = js[i].queue
  PROVE  Members(ks) = Members(js)
BY DEF Members

(***************************************************************************)
(* job_queues follows jobs: every operation keeps CountInv.                *)
(***************************************************************************)
CountInv == Agree(queues, Members(jobs))

LEMMA InitCount == Init => CountInv
<1>. SUFFICES ASSUME Init PROVE CountInv
  OBVIOUS
<1>1. DOMAIN jobs = {} /\ DOMAIN queues = {}
  BY DEF Init
<1>2. Members(jobs) = [q \in Queues |-> {}]
  BY <1>1 DEF Members
<1>. QED  BY <1>1, <1>2, FS_EmptySet DEF CountInv, Agree

\* Deleting a row of jobs from any table of queues with the same counts.
LEMMA DeleteCount ==
  ASSUME TypeOK, NEW qs, IsTable(qs), Agree(qs, Members(jobs)), NEW i \in DOMAIN jobs
  PROVE  Agree(Decrease(qs, jobs[i].queue), Members(Drop(jobs, i)))
<1>1. jobs[i] \in Job /\ jobs[i].queue \in Queues \cup {None}
  BY DEF TypeOK, Job
<1>2. Members(Drop(jobs, i)) = Left(Members(jobs), jobs[i].queue, i)
  BY MembersDrop
<1>3. jobs[i].queue \in Queues => i \in Members(jobs)[jobs[i].queue]
  BY DEF Members
<1>. QED  BY <1>1, <1>2, <1>3, DecreaseAgrees

\* Writing a row of the same queue leaves Members alone.
LEMMA UpdateMembers ==
  ASSUME TypeOK, NEW i \in DOMAIN jobs, NEW r, r.queue = jobs[i].queue,
         jobs' = [jobs EXCEPT ![i] = r]
  PROVE  Members(jobs') = Members(jobs)
<1>1. DOMAIN jobs' = DOMAIN jobs /\ \A j \in DOMAIN jobs : jobs'[j].queue = jobs[j].queue
  BY DEF TypeOK
<1>. QED  BY <1>1, MembersSame

LEMMA AddJobCount ==
  ASSUME TypeOK, CountInv, NEW q \in Queues \cup {None}, NEW k \in Keys \cup {None},
         NEW d \in Delays, NEW m \in 1 .. MaxAttempts, NEW mode \in Modes,
         AddJob(q, k, d, m, mode)
  PROVE  CountInv'
<1> DEFINE c == adds + 1
<1>1. c \in Calls /\ c \notin DOMAIN jobs
  BY DEF AddJob, Calls, TypeOK
<1>2. IsTable(queues)
  BY DEF TypeOK, IsTable
<1>3. ASSUME NEW dd \in Delays
      PROVE  NewRow(c, q, k, dd, m) \in Job /\ NewRow(c, q, k, dd, m).queue = q
  BY <1>1, NewRowType DEF NewRow
<1>4. c \notin DOMAIN jobs => \A p \in Queues : c \notin Members(jobs)[p]
  BY DEF Members
<1>. HIDE DEF c
<1>5. CASE AddNew(c, q, k, d, m)
  <2> DEFINE new == NewRow(c, q, k, d, m)
  <2>1. new \in Job /\ new.queue = q /\ jobs' = Put(jobs, c, new)
    BY <1>3, <1>5 DEF AddNew
  <2>. HIDE DEF new
  <2>3. Members(jobs') = Joined(Members(jobs), q, c)
    BY <1>1, <2>1, MembersPut
  <2>. QED  BY <1>1, <1>2, <1>4, <1>5, <2>3, IncreaseAgrees DEF AddNew, CountInv
<1>6. ASSUME NEW i \in Holders(k), AddReplace(i, c, q, k, d, m, mode)
      PROVE  CountInv'
  <2> DEFINE dd == IF mode = "preserve_run_at" /\ jobs[i].attempts = 0
                   THEN jobs[i].delay ELSE d
             new == NewRow(c, q, k, dd, m)
             old == jobs[i].queue
  <2>1. i \in DOMAIN jobs /\ jobs[i] \in Job /\ old \in Queues \cup {None}
    BY DEF Holders, TypeOK, Job
  <2>2. new \in Job /\ new.queue = q
    BY <1>3, <2>1 DEF Job
  <2>3. jobs' = [jobs EXCEPT ![i] = new] /\ queues' = MoveJob(queues, old, q)
    BY <1>6 DEF AddReplace
  <2>. HIDE DEF new
  <2>4. CASE old = q
    <3>1. Members(jobs') = Members(jobs)
      BY <2>1, <2>2, <2>3, <2>4, UpdateMembers
    <3>. QED  BY <2>3, <2>4, <3>1 DEF MoveJob, CountInv
  <2>5. CASE old # q
    <3> DEFINE R == Left(Members(jobs), old, i)
    <3>1. Members(jobs') = Joined(R, q, i)
      BY <2>1, <2>2, <2>3, <2>5, MembersMove
    <3>2. old \in Queues => i \in Members(jobs)[old]
      BY <2>1 DEF Members
    <3>3. Agree(Decrease(queues, old), R) /\ IsTable(Decrease(queues, old))
      BY <1>2, <2>1, <3>2, DecreaseAgrees, QueueTableTypes DEF CountInv
    <3>4. q \in Queues => i \notin R[q]
      BY <2>5 DEF Left, Members
    <3>5. Agree(Increase(Decrease(queues, old), q), Joined(R, q, i))
      BY <3>3, <3>4, IncreaseAgrees
    <3>. QED  BY <2>3, <2>5, <3>1, <3>5 DEF MoveJob, CountInv
  <2>. QED  BY <2>4, <2>5
<1>7. ASSUME NEW i \in Holders(k), AddSupersede(i, c, q, k, d, m, mode)
      PROVE  CountInv'
  <2> DEFINE js == [jobs EXCEPT ![i] = Retired(@)]
  <2>1. i \in DOMAIN jobs /\ jobs[i] \in Job
    BY DEF Holders, TypeOK
  <2>2. js \in [DOMAIN js -> Job] /\ DOMAIN js = DOMAIN jobs
    BY <2>1, JobRowTypes DEF TypeOK
  <2>3. Members(js) = Members(jobs)
    <3>1. Retired(jobs[i]).queue = jobs[i].queue
      BY <2>1, JobFields DEF Same
    <3>2. DOMAIN js = DOMAIN jobs /\ \A j \in DOMAIN jobs : js[j].queue = jobs[j].queue
      BY <2>1, <3>1 DEF TypeOK
    <3>. HIDE DEF js
    <3>. QED  BY <3>2, MembersSame
  <2>4. jobs' = Put(js, c, NewRow(c, q, k, d, m)) /\ queues' = Increase(queues, q)
    BY <1>7 DEF AddSupersede
  <2>. HIDE DEF js
  <2> DEFINE new == NewRow(c, q, k, d, m)
  <2>. new \in Job /\ new.queue = q /\ jobs' = Put(js, c, new)
    BY <1>3, <2>4
  <2>. HIDE DEF new
  <2>5. Members(jobs') = Joined(Members(jobs), q, c)
    BY <1>1, <2>2, <2>3, MembersPut
  <2>. QED  BY <1>1, <1>2, <1>4, <2>4, <2>5, IncreaseAgrees DEF CountInv
<1>8. CASE AddDuplicate(c, k, mode)
  BY <1>8 DEF AddDuplicate, CountInv
<1>. QED  BY <1>5, <1>6, <1>7, <1>8 DEF AddJob, c

LEMMA ClientCount ==
  ASSUME TypeOK, CountInv, ClientNext
  PROVE  CountInv'
<1>1. IsTable(queues)
  BY DEF TypeOK, IsTable
<1>2. ASSUME NEW i \in DOMAIN jobs, DeleteJob(i) PROVE CountInv'
  BY <1>1, <1>2, DeleteCount DEF DeleteJob, CountInv
<1>3. ASSUME NEW i \in DOMAIN jobs, NEW r, r.queue = jobs[i].queue,
             jobs' = [jobs EXCEPT ![i] = r], queues' = queues
      PROVE  CountInv'
  BY <1>3, UpdateMembers DEF CountInv
<1>4. ASSUME NEW k \in Keys, RemoveUnlocked(k) PROVE CountInv'
  BY <1>2, <1>4 DEF RemoveUnlocked, Holders, CountInv
<1>5. ASSUME NEW k \in Keys, RemoveLocked(k) PROVE CountInv'
  <2>1. ASSUME NEW i \in Holders(k), jobs' = [jobs EXCEPT ![i] = Retired(@)],
               queues' = queues
        PROVE  CountInv'
    <3>1. i \in DOMAIN jobs /\ Retired(jobs[i]).queue = jobs[i].queue
      BY JobFields DEF Holders, TypeOK, Same
    <3>. QED  BY <2>1, <3>1, <1>3
  <2>. QED  BY <1>5, <2>1 DEF RemoveLocked, CountInv
<1>6. ASSUME NEW i \in DOMAIN jobs, CompleteJobs(i) PROVE CountInv'
  BY <1>2, <1>6 DEF CompleteJobs
<1>7. ASSUME NEW i \in DOMAIN jobs, PermanentlyFailJobs(i) PROVE CountInv'
  <2>1. [jobs[i] EXCEPT !.attempts = jobs[i].max].queue = jobs[i].queue
    BY DEF TypeOK, Job
  <2>. QED  BY <1>3, <1>7, <2>1 DEF PermanentlyFailJobs
<1>8. ASSUME NEW i \in DOMAIN jobs, NEW d \in Delays, NEW a \in 0 .. MaxAttempts,
             NEW m \in 1 .. MaxAttempts, RescheduleJobs(i, d, a, m)
      PROVE  CountInv'
  <2>. jobs[i] \in Job /\ d \in Nat /\ a \in Nat /\ m \in Nat
    BY DEF TypeOK, Delays
  <2>1. Rescheduled(jobs[i], d, a, m).queue = jobs[i].queue
    BY DEF Job, Rescheduled
  <2>. QED  BY <1>3, <1>8, <2>1 DEF RescheduleJobs
<1>. QED  BY <1>4, <1>5, <1>6, <1>7, <1>8, AddJobCount DEF ClientNext

\* Unlocking the row of a queue leaves the counts alone.
LEMMA UnlockAgrees ==
  ASSUME TypeOK, CountInv, NEW q, NEW w
  PROVE  /\ Agree(UnlockQueue(queues, q, w), Members(jobs))
         /\ IsTable(UnlockQueue(queues, q, w))
<1>1. \A p \in DOMAIN queues : /\ UnlockRow(queues[p]).count = queues[p].count
                               /\ UnlockRow(queues[p]) \in QueueRow
  BY QueueFields, QueueRowTypes DEF TypeOK
<1>2. /\ DOMAIN UnlockQueue(queues, q, w) = DOMAIN queues
      /\ \A p \in DOMAIN queues : UnlockQueue(queues, q, w)[p].count = queues[p].count
      /\ IsTable(UnlockQueue(queues, q, w))
  BY <1>1 DEF UnlockQueue, IsTable, TypeOK
<1>. QED  BY <1>2, SameCountsAgree DEF CountInv

LEMMA WorkerCount ==
  ASSUME TypeOK, CountInv, NEW w \in Workers, WorkerNext(w)
  PROVE  CountInv'
<1>1. IsTable(queues)
  BY DEF TypeOK, IsTable
<1>2. ASSUME NEW q PROVE /\ Agree(UnlockQueue(queues, q, w), Members(jobs))
                         /\ IsTable(UnlockQueue(queues, q, w))
  BY UnlockAgrees
<1>3. ASSUME NEW i \in DOMAIN jobs, GetJob(w, i) PROVE CountInv'
  <2>1. Members(jobs') = Members(jobs)
    <3>1. Fetched(jobs[i], w).queue = jobs[i].queue
      BY JobFields DEF TypeOK, Same
    <3>. QED  BY <1>3, <3>1, UpdateMembers DEF GetJob
  <2>2. /\ DOMAIN queues' = DOMAIN queues
        /\ \A p \in DOMAIN queues : queues'[p].count = queues[p].count
    <3>1. \A p \in DOMAIN queues : LockRow(queues[p], w).count = queues[p].count
      BY QueueFields DEF TypeOK
    <3>. QED  BY <1>3, <3>1 DEF GetJob, TypeOK
  <2>. QED  BY <2>1, <2>2, SameCountsAgree DEF CountInv
<1>4. ASSUME CompleteJob(w) PROVE CountInv'
  <2>1. CASE run[w].job \in DOMAIN jobs
    <3> DEFINE q == jobs[run[w].job].queue
    <3>1. Agree(Decrease(UnlockQueue(queues, q, w), q), Members(Drop(jobs, run[w].job)))
      BY <1>2, <2>1, DeleteCount
    <3>. QED  BY <1>4, <2>1, <3>1 DEF CompleteJob, CountInv
  <2>2. CASE run[w].job \notin DOMAIN jobs
    BY <1>4, <2>2 DEF CompleteJob, CountInv
  <2>. QED  BY <2>1, <2>2
<1>5. ASSUME FailJob(w) PROVE CountInv'
  <2> DEFINE i == run[w].job
  <2>1. CASE i \in DOMAIN jobs /\ jobs[i].lockedBy = w
    <3>1. Failed(jobs[i]).queue = jobs[i].queue
      BY <2>1, JobFields DEF TypeOK, Same
    <3>2. Members(jobs') = Members(jobs)
      BY <1>5, <2>1, <3>1, UpdateMembers DEF FailJob
    <3>. QED  BY <1>2, <1>5, <2>1, <3>2 DEF FailJob, CountInv
  <2>2. CASE ~(i \in DOMAIN jobs /\ jobs[i].lockedBy = w)
    BY <1>5, <2>2 DEF FailJob, CountInv
  <2>. QED  BY <2>1, <2>2
<1>6. ASSUME Abandon(w) \/ Crash(w) PROVE CountInv'
  BY <1>6 DEF Abandon, Crash, CountInv
<1>. QED  BY <1>3, <1>4, <1>5, <1>6 DEF WorkerNext

LEMMA ClockCount ==
  ASSUME TypeOK, CountInv, ResetLocked \/ Tick
  PROVE  CountInv'
<1>1. /\ DOMAIN jobs' = DOMAIN jobs
      /\ \A i \in DOMAIN jobs : jobs'[i].queue = jobs[i].queue
  BY JobFields DEF ResetLocked, Tick, TypeOK, Same
<1>2. /\ DOMAIN queues' = DOMAIN queues
      /\ \A q \in DOMAIN queues : queues'[q].count = queues[q].count
  BY QueueFields DEF ResetLocked, Tick, TypeOK
<1>. QED  BY <1>1, <1>2, MembersSame, SameCountsAgree DEF CountInv

LEMMA CountStep ==
  ASSUME TypeOK, CountInv, Next
  PROVE  CountInv'
BY ClientCount, WorkerCount, ClockCount DEF Next

\* A queue has a row exactly while it has jobs, and job_count is their number.
THEOREM QueueRowsCorrect == Spec => []QueueRowsMatch
<1>1. TypeOK /\ CountInv /\ [Next]_vars => CountInv'
  <2>. SUFFICES ASSUME TypeOK, CountInv, [Next]_vars PROVE CountInv'
    OBVIOUS
  <2>1. CASE UNCHANGED vars
    BY <2>1 DEF CountInv, vars
  <2>. QED  BY <2>1, CountStep
<1>2. TypeOK /\ CountInv => QueueRowsMatch
  <2>. SUFFICES ASSUME TypeOK, CountInv PROVE QueueRowsMatch
    OBVIOUS
  <2>1. ASSUME NEW q \in Queues PROVE Members(jobs)[q] = InQueue(q)
    BY DEF Members, InQueue
  <2>2. \A i \in DOMAIN jobs : jobs[i].queue \in Queues \cup {None}
    BY DEF TypeOK, Job
  <2>3. \A q \in Queues : /\ q \in DOMAIN queues <=> InQueue(q) # {}
                          /\ q \in DOMAIN queues => queues[q].count = Cardinality(InQueue(q))
    BY <2>1 DEF CountInv, Agree
  <2>4. \A i \in DOMAIN jobs : jobs[i].queue # None => jobs[i].queue \in DOMAIN queues
    BY <2>2, <2>3 DEF InQueue
  <2>. QED  BY <2>3, <2>4 DEF QueueRowsMatch, TypeOK
<1>. QED  BY <1>1, <1>2, InitCount, TypeCorrect, PTL DEF Spec

(***************************************************************************)
(* The rows that a step keeps, and the one that add_job may write.         *)
(***************************************************************************)
KeepsRow(i) ==
  /\ i \in DOMAIN jobs
  /\ jobs'[i].payload = jobs[i].payload
  /\ jobs'[i].key \in {jobs[i].key, None}

WritesRow(n) ==
  /\ n \in DOMAIN jobs' /\ adds' = adds + 1
  /\ jobs'[n].payload = adds + 1
  /\ \A j \in DOMAIN jobs' \ {n} : jobs'[j].key = jobs'[n].key => jobs'[n].key = None

RowStep ==
  \/ \A i \in DOMAIN jobs' : KeepsRow(i)
  \/ \E n : WritesRow(n) /\ \A i \in DOMAIN jobs' \ {n} : KeepsRow(i)

LEMMA AddJobRows ==
  ASSUME TypeOK, KeysUnique,
         NEW q \in Queues \cup {None}, NEW k \in Keys \cup {None},
         NEW d \in Delays, NEW m \in 1 .. MaxAttempts, NEW mode \in Modes,
         AddJob(q, k, d, m, mode)
  PROVE  RowStep
<1> DEFINE c == adds + 1
<1>1. c \notin DOMAIN jobs /\ adds' = adds + 1
  BY DEF AddJob, TypeOK
<1>2. \A dd : NewRow(c, q, k, dd, m).payload = c /\ NewRow(c, q, k, dd, m).key = k
  BY DEF NewRow
<1>. HIDE DEF c
<1>3. ASSUME AddNew(c, q, k, d, m) PROVE RowStep
  <2> DEFINE new == NewRow(c, q, k, d, m)
  <2>1. jobs' = Put(jobs, c, new) /\ new.payload = c /\ new.key = k
    BY <1>2, <1>3 DEF AddNew
  <2>2. k = None \/ \A j \in DOMAIN jobs : jobs[j].key # k
    BY <1>3 DEF AddNew, Holders
  <2>. HIDE DEF new
  <2>3. /\ DOMAIN jobs' = DOMAIN jobs \cup {c} /\ jobs'[c] = new
        /\ \A j \in DOMAIN jobs : jobs'[j] = jobs[j]
    BY <1>1, <2>1 DEF Put
  <2>4. WritesRow(c)
    BY <1>1, <2>1, <2>2, <2>3 DEF WritesRow, c
  <2>5. \A j \in DOMAIN jobs' \ {c} : KeepsRow(j)
    BY <2>3 DEF KeepsRow
  <2>. QED  BY <2>4, <2>5 DEF RowStep
<1>4. ASSUME NEW i \in Holders(k), k # None, AddReplace(i, c, q, k, d, m, mode)
      PROVE  RowStep
  <2> DEFINE dd == IF mode = "preserve_run_at" /\ jobs[i].attempts = 0
                   THEN jobs[i].delay ELSE d
             new == NewRow(c, q, k, dd, m)
  <2>1. /\ i \in DOMAIN jobs /\ jobs[i].key = k
        /\ jobs' = [jobs EXCEPT ![i] = new] /\ new.payload = c /\ new.key = k
    BY <1>2, <1>4 DEF AddReplace, Holders
  <2>. HIDE DEF new
  <2>2. /\ DOMAIN jobs' = DOMAIN jobs /\ jobs'[i] = new
        /\ \A j \in DOMAIN jobs : j # i => jobs'[j] = jobs[j]
    BY <2>1 DEF TypeOK
  <2>3. \A j \in DOMAIN jobs : j # i => jobs[j].key # k
    BY <1>4, <2>1 DEF KeysUnique
  <2>4. WritesRow(i)
    BY <1>1, <2>1, <2>2, <2>3 DEF WritesRow, c
  <2>5. \A j \in DOMAIN jobs' \ {i} : KeepsRow(j)
    BY <2>2 DEF KeepsRow
  <2>. QED  BY <2>4, <2>5 DEF RowStep
<1>5. ASSUME NEW i \in Holders(k), k # None, AddSupersede(i, c, q, k, d, m, mode)
      PROVE  RowStep
  <2> DEFINE new == NewRow(c, q, k, d, m)
             js == [jobs EXCEPT ![i] = Retired(jobs[i])]
  <2>1. /\ i \in DOMAIN jobs /\ jobs[i].key = k
        /\ jobs' = Put(js, c, new) /\ new.payload = c /\ new.key = k
    BY <1>2, <1>5 DEF AddSupersede, Holders
  <2>. HIDE DEF new
  <2>2. Same(Retired(jobs[i]), jobs[i]) /\ Retired(jobs[i]).key = None
    BY <2>1, JobFields DEF TypeOK
  <2>3. /\ DOMAIN js = DOMAIN jobs
        /\ js[i].payload = jobs[i].payload /\ js[i].key = None
        /\ \A j \in DOMAIN jobs : j # i => js[j] = jobs[j]
    BY <2>1, <2>2 DEF TypeOK, Same
  <2>. HIDE DEF js
  <2>4. /\ DOMAIN jobs' = DOMAIN jobs \cup {c} /\ jobs'[c] = new
        /\ \A j \in DOMAIN jobs : jobs'[j] = js[j]
    BY <1>1, <2>1, <2>3 DEF Put
  <2>5. \A j \in DOMAIN jobs : j # i => jobs[j].key # k
    BY <1>5, <2>1 DEF KeysUnique
  <2>6. WritesRow(c)
    BY <1>1, <1>5, <2>1, <2>3, <2>4, <2>5 DEF WritesRow, c
  <2>7. \A j \in DOMAIN jobs' \ {c} : KeepsRow(j)
    BY <2>3, <2>4 DEF KeepsRow
  <2>. QED  BY <2>6, <2>7 DEF RowStep
<1>6. ASSUME AddDuplicate(c, k, mode) PROVE RowStep
  BY <1>6 DEF AddDuplicate, RowStep, KeepsRow
<1>. QED  BY <1>3, <1>4, <1>5, <1>6 DEF AddJob, c

\* Deleting a row, and writing into one without a new payload or key.
LEMMA DropKeepsRows ==
  ASSUME NEW i, jobs' = Drop(jobs, i)
  PROVE  \A j \in DOMAIN jobs' : KeepsRow(j)
BY DEF Drop, Restrict, KeepsRow

LEMMA WriteKeepsRows ==
  ASSUME TypeOK, NEW i \in DOMAIN jobs, NEW r, jobs' = [jobs EXCEPT ![i] = r],
         r.payload = jobs[i].payload, r.key \in {jobs[i].key, None}
  PROVE  \A j \in DOMAIN jobs' : KeepsRow(j)
BY DEF TypeOK, KeepsRow

LEMMA RowSteps ==
  ASSUME TypeOK, KeysUnique, Next
  PROVE  RowStep
<1> DEFINE Keeps == \A j \in DOMAIN jobs' : KeepsRow(j)
<1>1. ASSUME jobs' = jobs PROVE Keeps
  BY <1>1 DEF KeepsRow
<1>2. ASSUME NEW k \in Keys, RemoveUnlocked(k) \/ RemoveLocked(k) PROVE Keeps
  <2>1. ASSUME NEW i \in Holders(k), jobs' = [jobs EXCEPT ![i] = Retired(jobs[i])]
        PROVE  Keeps
    <3>1. i \in DOMAIN jobs /\ Same(Retired(jobs[i]), jobs[i]) /\ Retired(jobs[i]).key = None
      BY JobFields DEF Holders, TypeOK
    <3>. QED  BY <2>1, <3>1, WriteKeepsRows DEF Same
  <2>. QED  BY <1>1, <1>2, <2>1, DropKeepsRows DEF RemoveUnlocked, RemoveLocked, DeleteJob
<1>3. ASSUME NEW i \in DOMAIN jobs, CompleteJobs(i) PROVE Keeps
  BY <1>3, DropKeepsRows DEF CompleteJobs, DeleteJob
<1>4. ASSUME NEW i \in DOMAIN jobs, PermanentlyFailJobs(i) PROVE Keeps
  <2> DEFINE r == [jobs[i] EXCEPT !.attempts = jobs[i].max]
  <2>1. r.payload = jobs[i].payload /\ r.key = jobs[i].key
    BY DEF TypeOK, Job
  <2>2. jobs' = [jobs EXCEPT ![i] = r]
    BY <1>4 DEF PermanentlyFailJobs
  <2>. HIDE DEF r
  <2>. QED  BY <2>1, <2>2, WriteKeepsRows
<1>5. ASSUME NEW i \in DOMAIN jobs, NEW d \in Delays, NEW a \in 0 .. MaxAttempts,
             NEW m \in 1 .. MaxAttempts, RescheduleJobs(i, d, a, m)
      PROVE  Keeps
  <2> DEFINE r == Rescheduled(jobs[i], d, a, m)
  <2>1. r.payload = jobs[i].payload /\ r.key = jobs[i].key
    BY DEF TypeOK, Job, Rescheduled
  <2>2. jobs' = [jobs EXCEPT ![i] = r]
    BY <1>5 DEF RescheduleJobs
  <2>. HIDE DEF r
  <2>. QED  BY <2>1, <2>2, WriteKeepsRows
<1>6. ASSUME NEW w \in Workers, WorkerNext(w) PROVE Keeps
  <2>1. ASSUME NEW i \in DOMAIN jobs, GetJob(w, i) PROVE Keeps
    <3>1. Same(Fetched(jobs[i], w), jobs[i]) /\ Fetched(jobs[i], w).key = jobs[i].key
      BY JobFields DEF TypeOK
    <3>2. jobs' = [jobs EXCEPT ![i] = Fetched(jobs[i], w)]
      BY <2>1 DEF GetJob
    <3>. QED  BY <3>1, <3>2, WriteKeepsRows DEF Same
  <2>2. ASSUME CompleteJob(w) PROVE Keeps
    <3>1. jobs' = jobs \/ jobs' = Drop(jobs, run[w].job)
      BY <2>2 DEF CompleteJob
    <3>2. CASE jobs' = jobs
      BY <1>1, <3>2
    <3>3. CASE jobs' = Drop(jobs, run[w].job)
      BY <3>3, DropKeepsRows
    <3>. QED  BY <3>1, <3>2, <3>3
  <2>3. ASSUME FailJob(w), jobs' # jobs PROVE Keeps
    <3> DEFINE i == run[w].job
    <3>1. i \in DOMAIN jobs /\ jobs' = [jobs EXCEPT ![i] = Failed(jobs[i])]
      BY <2>3 DEF FailJob
    <3>2. Same(Failed(jobs[i]), jobs[i]) /\ Failed(jobs[i]).key = jobs[i].key
      BY <3>1, JobFields DEF TypeOK
    <3>. QED  BY <3>1, <3>2, WriteKeepsRows DEF Same
  <2>4. ASSUME Abandon(w) \/ Crash(w) PROVE jobs' = jobs
    BY <2>4 DEF Abandon, Crash
  <2>. QED  BY <1>1, <1>6, <2>1, <2>2, <2>3, <2>4 DEF WorkerNext
<1>7. ASSUME ResetLocked \/ Tick PROVE Keeps
  <2>1. \A i \in DOMAIN jobs : jobs[i] \in Job
    BY DEF TypeOK
  <2>2. /\ DOMAIN jobs' = DOMAIN jobs
        /\ \A i \in DOMAIN jobs : jobs'[i] = Release(jobs[i])
                                   \/ jobs'[i] = Sooner(AgeRow(jobs[i]))
    BY <1>7 DEF ResetLocked, Tick
  <2>. HIDE DEF Keeps
  <2>3. \A i \in DOMAIN jobs : /\ jobs'[i].payload = jobs[i].payload
                               /\ jobs'[i].key = jobs[i].key
    BY <2>1, <2>2, SweepFields
  <2>. QED  BY <2>2, <2>3 DEF Keeps, KeepsRow
<1>8. ASSUME NEW q \in Queues \cup {None}, NEW k \in Keys \cup {None}, NEW d \in Delays,
             NEW m \in 1 .. MaxAttempts, NEW mode \in Modes, AddJob(q, k, d, m, mode)
      PROVE  RowStep
  BY <1>8, AddJobRows
<1>. HIDE DEF Keeps
<1>9. Keeps \/ RowStep
  BY <1>2, <1>3, <1>4, <1>5, <1>6, <1>7, <1>8 DEF Next, ClientNext
<1>. QED  BY <1>9 DEF Keeps, RowStep

LEMMA KeysStep ==
  ASSUME TypeOK, KeysUnique, [Next]_vars
  PROVE  KeysUnique'
<1>1. CASE UNCHANGED vars
  BY <1>1 DEF vars, KeysUnique
<1>2. CASE \A i \in DOMAIN jobs' : KeepsRow(i)
  BY <1>2 DEF KeepsRow, KeysUnique
<1>3. ASSUME NEW n, WritesRow(n), \A i \in DOMAIN jobs' \ {n} : KeepsRow(i)
      PROVE  KeysUnique'
  BY <1>3 DEF KeepsRow, WritesRow, KeysUnique
<1>. QED  BY <1>1, <1>2, <1>3, RowSteps DEF RowStep

\* No two jobs ever have the same key, whatever add_job and remove_job meet: the
\* last insert of add_job finds no conflict.
THEOREM KeysNeverShared == Spec => []KeysUnique
<1>1. Init => KeysUnique
  BY DEF Init, KeysUnique
<1>2. TypeOK /\ KeysUnique /\ [Next]_vars => KeysUnique'
  BY KeysStep
<1>. QED  BY <1>1, <1>2, TypeCorrect, PTL DEF Spec

(***************************************************************************)
(* Payloads: each is in one row at most, and stays in the row it came in.  *)
(***************************************************************************)
PayloadInv ==
  /\ \A i, j \in DOMAIN jobs : jobs[i].payload = jobs[j].payload => i = j
  /\ \A i \in DOMAIN jobs : jobs[i].payload <= adds
  /\ \A w \in Workers : Executing(w) =>
       /\ run[w].payload <= adds
       /\ \A i \in DOMAIN jobs : jobs[i].payload = run[w].payload => i = run[w].job

\* What a worker executes it executed before, or it takes it from a row.
RunStep ==
  \A w \in Workers :
    \/ run'[w].job = 0
    \/ run'[w].job = run[w].job /\ run'[w].payload = run[w].payload
    \/ run'[w].job \in DOMAIN jobs /\ run'[w].payload = jobs[run'[w].job].payload

LEMMA RunSteps ==
  ASSUME TypeOK, Next
  PROVE  RunStep
<1>1. ASSUME run' = run PROVE RunStep
  BY <1>1 DEF RunStep
<1>2. ASSUME NEW w \in Workers, NEW i \in DOMAIN jobs, GetJob(w, i) PROVE RunStep
  BY <1>2 DEF GetJob, RunStep, TypeOK
<1>3. ASSUME NEW w \in Workers, CompleteJob(w) \/ FailJob(w) \/ Abandon(w) \/ Crash(w)
      PROVE  RunStep
  <2>1. run' = [run EXCEPT ![w] = Idle]
    BY <1>3 DEF CompleteJob, FailJob, Abandon, Crash
  <2>. QED  BY <2>1 DEF RunStep, TypeOK, Idle
<1>4. ASSUME Tick PROVE RunStep
  <2>1. \A w \in Workers : run'[w] = IF run[w].job = 0 THEN run[w]
                                     ELSE [run[w] EXCEPT !.age = Older(run[w].age)]
    BY <1>4 DEF Tick
  <2>2. \A w \in Workers : run[w] \in Run
    BY DEF TypeOK
  <2>. QED  BY <2>1, <2>2 DEF RunStep, Run
<1>. QED  BY <1>1, <1>2, <1>3, <1>4 DEF Next, WorkerNext, ResetLocked, ClientNext, AddJob,
     RemoveUnlocked, RemoveLocked, CompleteJobs, PermanentlyFailJobs, RescheduleJobs

LEMMA AddsStep ==
  ASSUME Next
  PROVE  adds' = adds \/ adds' = adds + 1
<1>1. ClientNext => adds' = adds \/ adds' = adds + 1
  BY DEF ClientNext, AddJob, RemoveUnlocked, RemoveLocked, CompleteJobs,
     PermanentlyFailJobs, RescheduleJobs
<1>2. \A w \in Workers : WorkerNext(w) => adds' = adds
  BY DEF WorkerNext, GetJob, CompleteJob, FailJob, Abandon, Crash
<1>3. ResetLocked \/ Tick => adds' = adds
  BY DEF ResetLocked, Tick
<1>. QED  BY <1>1, <1>2, <1>3 DEF Next

LEMMA AddsGrow ==
  ASSUME TypeOK, Next
  PROVE  adds <= adds'
BY AddsStep DEF TypeOK

LEMMA PayloadStep ==
  ASSUME TypeOK, TypeOK', KeysUnique, PayloadInv, Next
  PROVE  PayloadInv'
<1>1. /\ adds \in Nat /\ adds' \in Nat /\ adds <= adds'
      /\ \A i \in DOMAIN jobs : jobs[i].payload \in Nat
      /\ \A i \in DOMAIN jobs' : jobs'[i].payload \in Nat
      /\ \A w \in Workers : run[w].payload \in Nat
  <2>1. adds \in Nat /\ adds' \in Nat /\ adds <= adds'
    BY AddsGrow DEF TypeOK
  <2>2. \A row \in Job : row.payload \in Nat
    BY DEF Job, Calls
  <2>3. \A i \in DOMAIN jobs : jobs[i] \in Job
    BY DEF TypeOK
  <2>4. \A i \in DOMAIN jobs' : jobs'[i] \in Job
    BY DEF TypeOK
  <2>5. \A w \in Workers : run[w].payload \in Nat
    BY DEF TypeOK, Run, Calls
  <2>. QED  BY <2>1, <2>2, <2>3, <2>4, <2>5
<1>2. RunStep
  BY RunSteps
<1>3. \A i \in DOMAIN jobs' : \/ KeepsRow(i)
                              \/ /\ adds' = adds + 1
                                 /\ jobs'[i].payload = adds + 1
  BY RowSteps DEF RowStep, WritesRow
<1>4. \A i, j \in DOMAIN jobs' : KeepsRow(i) \/ KeepsRow(j) \/ i = j
  BY RowSteps DEF RowStep
<1>5. \A i \in DOMAIN jobs' : jobs'[i].payload <= adds'
  BY <1>1, <1>3 DEF KeepsRow, PayloadInv
<1>6. ASSUME NEW i \in DOMAIN jobs', NEW j \in DOMAIN jobs', jobs'[i].payload = jobs'[j].payload
      PROVE  i = j
  BY <1>1, <1>3, <1>4, <1>6 DEF KeepsRow, PayloadInv
<1>7. ASSUME NEW w \in Workers, run'[w].job # 0
      PROVE  /\ run'[w].payload <= adds'
             /\ \A i \in DOMAIN jobs' : jobs'[i].payload = run'[w].payload => i = run'[w].job
  <2>1. CASE run'[w].job = run[w].job /\ run'[w].payload = run[w].payload
    BY <1>1, <1>3, <1>7, <2>1 DEF KeepsRow, PayloadInv, Executing
  <2>2. CASE run'[w].job \in DOMAIN jobs /\ run'[w].payload = jobs[run'[w].job].payload
    BY <1>1, <1>3, <2>2 DEF KeepsRow, PayloadInv
  <2>. QED  BY <1>2, <1>7, <2>1, <2>2 DEF RunStep
<1>. QED  BY <1>5, <1>6, <1>7 DEF PayloadInv, Executing

(***************************************************************************)
(* Payloads that are no longer open, and the attempts of their rows.       *)
(***************************************************************************)
Doomed(row) == row.attempts >= row.max

SameFate(i) ==
  /\ i \in DOMAIN jobs
  /\ jobs'[i].payload = jobs[i].payload /\ fate'[jobs[i].payload] = fate[jobs[i].payload]
  /\ (Doomed(jobs[i]) => Doomed(jobs'[i]))

DroppedStep ==
  \A i \in DOMAIN jobs' : LET f == fate'[jobs'[i].payload] IN
    \/ f = "open"
    \/ f = "dropped" /\ Doomed(jobs'[i])
    \/ SameFate(i)

\* The payload of a row is still waited for, or the client closed it.
RowsUndone == \A i \in DOMAIN jobs : fate[jobs[i].payload] \in {"open", "dropped"}

LEMMA UndoneStaysSo == RowsUndone /\ DroppedStep => RowsUndone'
BY DEF RowsUndone, DroppedStep, SameFate

LEMMA DroppedStaysSo == DroppedNeverStarts /\ DroppedStep => DroppedNeverStarts'
BY DEF DroppedNeverStarts, DroppedStep, SameFate, Doomed

LEMMA Attempts ==
  ASSUME NEW row \in Job
  PROVE  /\ \A w \in Workers : Doomed(row) => Doomed(Fetched(row, w))
         /\ Doomed(row) => Doomed(Failed(row))
         /\ Doomed(row) => Doomed(Release(row))
         /\ Doomed(row) => Doomed(Sooner(AgeRow(row)))
         /\ Doomed(Retired(row))
<1>. USE DEF Job, Doomed
<1>1. \A w \in Workers : Doomed(row) => Doomed(Fetched(row, w))
  BY DEF Fetched, LockRow
<1>2. Doomed(row) => Doomed(Failed(row))
  BY DEF Failed, UnlockRow
<1>3. Doomed(row) => Doomed(Release(row))
  BY DEF Release, UnlockRow
<1>4. Doomed(row) => Doomed(Sooner(AgeRow(row)))
  BY DEF Sooner, AgeRow
<1>5. Doomed(Retired(row))
  BY DEF Retired
<1>. QED  BY <1>1, <1>2, <1>3, <1>4, <1>5

\* Deleting the row of a payload, and writing into it.
LEMMA DropDrops ==
  ASSUME TypeOK, NEW i, NEW p, NEW f,
         \A j \in DOMAIN jobs : jobs[j].payload = p => j = i,
         jobs' = Drop(jobs, i), fate' = [fate EXCEPT ![p] = f]
  PROVE  DroppedStep
<1>1. /\ DOMAIN jobs' = DOMAIN jobs \ {i}
      /\ \A j \in DOMAIN jobs' : jobs'[j] = jobs[j]
  BY DEF Drop, Restrict
<1>2. \A j \in DOMAIN jobs : jobs[j].payload # p => fate'[jobs[j].payload] = fate[jobs[j].payload]
  BY DEF TypeOK
<1>. QED  BY <1>1, <1>2 DEF DroppedStep, SameFate

LEMMA WriteDrops ==
  ASSUME TypeOK, PayloadInv, NEW i \in DOMAIN jobs, NEW r, jobs' = [jobs EXCEPT ![i] = r],
         r.payload = jobs[i].payload,
         NEW f, fate' = [fate EXCEPT ![jobs[i].payload] = f],
         \/ f = "open"
         \/ f = "dropped" /\ Doomed(r)
         \/ f = fate[jobs[i].payload] /\ (Doomed(jobs[i]) => Doomed(r))
  PROVE  DroppedStep
<1>1. /\ DOMAIN jobs' = DOMAIN jobs /\ jobs'[i] = r
      /\ \A j \in DOMAIN jobs : j # i => jobs'[j] = jobs[j]
  BY DEF TypeOK
<1>2. \A j \in DOMAIN jobs : j # i => fate'[jobs[j].payload] = fate[jobs[j].payload]
  BY DEF TypeOK, PayloadInv
<1>3. fate'[jobs[i].payload] = f
  BY DEF TypeOK, Job
<1>. QED  BY <1>1, <1>2, <1>3 DEF DroppedStep, SameFate

LEMMA AddJobDrops ==
  ASSUME TypeOK, PayloadInv,
         NEW q \in Queues \cup {None}, NEW k \in Keys \cup {None},
         NEW d \in Delays, NEW m \in 1 .. MaxAttempts, NEW mode \in Modes,
         AddJob(q, k, d, m, mode)
  PROVE  DroppedStep
<1> DEFINE c == adds + 1
<1>1. c \notin DOMAIN jobs /\ c \in Calls /\ \A j \in DOMAIN jobs : jobs[j].payload # c
  <2>1. adds \in Nat /\ adds < MaxAdds /\ \A j \in DOMAIN jobs : jobs[j].payload \in Calls
    BY DEF AddJob, TypeOK, Job
  <2>. QED  BY <2>1 DEF TypeOK, PayloadInv, Calls
<1>2. \A dd : NewRow(c, q, k, dd, m).payload = c
  BY DEF NewRow
<1>. HIDE DEF c
<1>3. ASSUME AddNew(c, q, k, d, m) PROVE DroppedStep
  <2> DEFINE new == NewRow(c, q, k, d, m)
  <2>1. jobs' = Put(jobs, c, new) /\ new.payload = c /\ fate' = [fate EXCEPT ![c] = "open"]
    BY <1>2, <1>3 DEF AddNew
  <2>. HIDE DEF new
  <2>2. /\ DOMAIN jobs' = DOMAIN jobs \cup {c} /\ jobs'[c] = new
        /\ \A j \in DOMAIN jobs : jobs'[j] = jobs[j]
    BY <1>1, <2>1 DEF Put
  <2>3. fate'[c] = "open" /\ \A p \in Calls : p # c => fate'[p] = fate[p]
    BY <1>1, <2>1 DEF TypeOK
  <2>4. \A j \in DOMAIN jobs : jobs[j].payload \in Calls
    BY DEF TypeOK, Job
  <2>. QED  BY <1>1, <2>1, <2>2, <2>3, <2>4 DEF DroppedStep, SameFate
<1>4. ASSUME NEW i \in Holders(k), AddReplace(i, c, q, k, d, m, mode) PROVE DroppedStep
  <2> DEFINE dd == IF mode = "preserve_run_at" /\ jobs[i].attempts = 0
                   THEN jobs[i].delay ELSE d
             new == NewRow(c, q, k, dd, m)
  <2>1. /\ i \in DOMAIN jobs /\ jobs' = [jobs EXCEPT ![i] = new] /\ new.payload = c
        /\ fate' = [fate EXCEPT ![c] = "open", ![jobs[i].payload] = "dropped"]
    BY <1>2, <1>4 DEF AddReplace, Holders
  <2>. HIDE DEF new
  <2>2. /\ DOMAIN jobs' = DOMAIN jobs /\ jobs'[i] = new
        /\ \A j \in DOMAIN jobs : j # i => jobs'[j] = jobs[j]
    BY <2>1 DEF TypeOK
  <2>3. /\ fate'[c] = "open"
        /\ \A p \in Calls : p # c /\ p # jobs[i].payload => fate'[p] = fate[p]
    BY <1>1, <2>1 DEF TypeOK
  <2>4. \A j \in DOMAIN jobs : /\ jobs[j].payload \in Calls
                               /\ j # i => jobs[j].payload # jobs[i].payload
    BY <2>1 DEF TypeOK, Job, PayloadInv
  <2>5. ASSUME NEW j \in DOMAIN jobs, j # i PROVE SameFate(j)
    <3> DEFINE p == jobs[j].payload
    <3>1. p \in Calls /\ p # c /\ p # jobs[i].payload
      BY <1>1, <2>4, <2>5
    <3>2. jobs'[j] = jobs[j]
      BY <2>2, <2>5
    <3>3. fate'[p] = fate[p]
      BY <2>3, <3>1
    <3>. QED  BY <3>2, <3>3 DEF SameFate
  <2>6. fate'[jobs'[i].payload] = "open"
    BY <2>1, <2>2, <2>3
  <2>. QED  BY <2>2, <2>5, <2>6 DEF DroppedStep
<1>5. ASSUME NEW i \in Holders(k), AddSupersede(i, c, q, k, d, m, mode) PROVE DroppedStep
  <2> DEFINE new == NewRow(c, q, k, d, m)
             js == [jobs EXCEPT ![i] = Retired(jobs[i])]
  <2>1. /\ i \in DOMAIN jobs /\ jobs' = Put(js, c, new) /\ new.payload = c
        /\ fate' = [fate EXCEPT ![c] = "open", ![jobs[i].payload] = "dropped"]
    BY <1>2, <1>5 DEF AddSupersede, Holders
  <2>. HIDE DEF new
  <2>2. Doomed(Retired(jobs[i])) /\ Same(Retired(jobs[i]), jobs[i])
    BY <2>1, Attempts, JobFields DEF TypeOK
  <2>3. /\ DOMAIN js = DOMAIN jobs /\ Doomed(js[i]) /\ js[i].payload = jobs[i].payload
        /\ \A j \in DOMAIN jobs : j # i => js[j] = jobs[j]
    BY <2>1, <2>2 DEF TypeOK, Same
  <2>. HIDE DEF js
  <2>4. /\ DOMAIN jobs' = DOMAIN jobs \cup {c} /\ jobs'[c] = new
        /\ \A j \in DOMAIN jobs : jobs'[j] = js[j]
    BY <1>1, <2>1, <2>3 DEF Put
  <2>5. /\ fate'[c] = "open"
        /\ \A p \in Calls : p # c /\ p # jobs[i].payload => fate'[p] = fate[p]
    BY <1>1, <2>1 DEF TypeOK
  <2>6. \A j \in DOMAIN jobs : /\ jobs[j].payload \in Calls
                               /\ j # i => jobs[j].payload # jobs[i].payload
    BY <2>1 DEF TypeOK, Job, PayloadInv
  <2>7. ASSUME NEW j \in DOMAIN jobs, j # i PROVE SameFate(j)
    <3> DEFINE p == jobs[j].payload
    <3>1. p \in Calls /\ p # c /\ p # jobs[i].payload
      BY <1>1, <2>6, <2>7
    <3>2. jobs'[j] = jobs[j]
      BY <2>3, <2>4, <2>7
    <3>3. fate'[p] = fate[p]
      BY <2>5, <3>1
    <3>. QED  BY <3>2, <3>3 DEF SameFate
  <2>8. fate'[jobs'[c].payload] = "open"
    BY <2>1, <2>4, <2>5
  <2>9. fate'[jobs'[i].payload] = "dropped" /\ Doomed(jobs'[i])
    <3>1. jobs[i].payload \in Calls /\ jobs'[i] = js[i]
      BY <2>1, <2>3, <2>4, <2>6
    <3>. QED  BY <2>1, <2>3, <3>1 DEF TypeOK
  <2>. QED  BY <2>3, <2>4, <2>7, <2>8, <2>9 DEF DroppedStep
<1>6. ASSUME AddDuplicate(c, k, mode) PROVE DroppedStep
  <2>1. jobs' = jobs /\ fate' = [fate EXCEPT ![c] = "dropped"]
    BY <1>6 DEF AddDuplicate
  <2>2. \A p \in Calls : p # c => fate'[p] = fate[p]
    BY <2>1 DEF TypeOK
  <2>3. \A j \in DOMAIN jobs : jobs[j].payload \in Calls
    BY DEF TypeOK, Job
  <2>. QED  BY <1>1, <2>1, <2>2, <2>3 DEF DroppedStep, SameFate
<1>. QED  BY <1>3, <1>4, <1>5, <1>6 DEF AddJob, c

LEMMA DroppedSteps ==
  ASSUME TypeOK, PayloadInv, Next
  PROVE  DroppedStep
<1>. DEFINE Fate(i) == fate[jobs[i].payload]
<1>1. jobs' = jobs /\ fate' = fate => DroppedStep
  BY DEF DroppedStep, SameFate
<1>2. \A i \in DOMAIN jobs : fate = [fate EXCEPT ![jobs[i].payload] = Fate(i)]
  BY DEF TypeOK, Job
<1>3. \A i \in DOMAIN jobs : jobs[i] \in Job
  BY DEF TypeOK
<1>4. \A i \in DOMAIN jobs : \A j \in DOMAIN jobs :
        jobs[j].payload = jobs[i].payload => j = i
  BY DEF PayloadInv
<1>5. ASSUME NEW k \in Keys, RemoveUnlocked(k) \/ RemoveLocked(k) PROVE DroppedStep
  <2>1. ASSUME NEW i \in Holders(k), jobs' = Drop(jobs, i),
               fate' = [fate EXCEPT ![jobs[i].payload] = "dropped"]
        PROVE  DroppedStep
    <3> DEFINE p == jobs[i].payload
    <3>1. \A j \in DOMAIN jobs : jobs[j].payload = p => j = i
      BY <1>4 DEF Holders
    <3>. HIDE DEF p
    <3>2. fate' = [fate EXCEPT ![p] = "dropped"]
      BY <2>1 DEF p
    <3>. QED  BY <2>1, <3>1, <3>2, DropDrops
  <2>2. ASSUME NEW i \in Holders(k), jobs' = [jobs EXCEPT ![i] = Retired(jobs[i])],
               fate' = [fate EXCEPT ![jobs[i].payload] = "dropped"]
        PROVE  DroppedStep
    <3>1. i \in DOMAIN jobs /\ Same(Retired(jobs[i]), jobs[i]) /\ Doomed(Retired(jobs[i]))
      BY <1>3, Attempts, JobFields DEF Holders
    <3>. QED  BY <2>2, <3>1, WriteDrops DEF Same
  <2>. QED  BY <1>1, <1>5, <2>1, <2>2 DEF RemoveUnlocked, RemoveLocked, DeleteJob
<1>6. ASSUME NEW i \in DOMAIN jobs, CompleteJobs(i) PROVE DroppedStep
  <2> DEFINE p == jobs[i].payload
  <2>1. \A j \in DOMAIN jobs : jobs[j].payload = p => j = i
    BY <1>4
  <2>2. jobs' = Drop(jobs, i) /\ fate' = [fate EXCEPT ![p] = "dropped"]
    BY <1>6 DEF CompleteJobs, DeleteJob
  <2>. HIDE DEF p
  <2>. QED  BY <2>1, <2>2, DropDrops
<1>7. ASSUME NEW i \in DOMAIN jobs, PermanentlyFailJobs(i) PROVE DroppedStep
  <2> DEFINE r == [jobs[i] EXCEPT !.attempts = jobs[i].max]
  <2>1. r.payload = jobs[i].payload /\ Doomed(r)
    BY <1>3 DEF Job, Doomed
  <2>2. /\ jobs' = [jobs EXCEPT ![i] = r]
        /\ fate' = [fate EXCEPT ![jobs[i].payload] = "dropped"]
    BY <1>7 DEF PermanentlyFailJobs
  <2>. HIDE DEF r
  <2>. QED  BY <2>1, <2>2, WriteDrops
<1>8. ASSUME NEW i \in DOMAIN jobs, NEW d \in Delays, NEW a \in 0 .. MaxAttempts,
             NEW m \in 1 .. MaxAttempts, RescheduleJobs(i, d, a, m)
      PROVE  DroppedStep
  <2> DEFINE r == Rescheduled(jobs[i], d, a, m)
  <2>1. r.payload = jobs[i].payload /\ (Doomed(r) \/ a < m)
    BY <1>3 DEF Job, Rescheduled, Doomed
  <2>2. /\ jobs' = [jobs EXCEPT ![i] = r]
        /\ fate' = IF a < m THEN [fate EXCEPT ![jobs[i].payload] = "open"] ELSE fate
    BY <1>8 DEF RescheduleJobs
  <2>. HIDE DEF r
  <2>3. CASE a < m
    BY <2>1, <2>2, <2>3, WriteDrops
  <2>4. CASE ~(a < m)
    <3>1. Doomed(r) /\ fate' = [fate EXCEPT ![jobs[i].payload] = Fate(i)]
      BY <1>2, <2>1, <2>2, <2>4
    <3>. QED  BY <2>1, <2>2, <3>1, WriteDrops
  <2>. QED  BY <2>3, <2>4
<1>9. ASSUME NEW i \in DOMAIN jobs, NEW r, jobs' = [jobs EXCEPT ![i] = r], fate' = fate,
             Same(r, jobs[i]), Doomed(jobs[i]) => Doomed(r)
      PROVE  DroppedStep
  <2>1. fate' = [fate EXCEPT ![jobs[i].payload] = Fate(i)]
    BY <1>2, <1>9
  <2>. QED  BY <1>9, <2>1, WriteDrops DEF Same
<1>10. ASSUME NEW w \in Workers, NEW i \in DOMAIN jobs, GetJob(w, i) PROVE DroppedStep
  <2>1. Same(Fetched(jobs[i], w), jobs[i]) /\ (Doomed(jobs[i]) => Doomed(Fetched(jobs[i], w)))
    BY <1>3, Attempts, JobFields
  <2>2. jobs' = [jobs EXCEPT ![i] = Fetched(jobs[i], w)] /\ fate' = fate
    BY <1>10 DEF GetJob
  <2>. QED  BY <1>9, <2>1, <2>2
<1>11. ASSUME NEW w \in Workers, FailJob(w) PROVE DroppedStep
  <2> DEFINE i == run[w].job
  <2>1. CASE jobs' = jobs
    BY <1>1, <1>11, <2>1 DEF FailJob
  <2>2. CASE jobs' # jobs
    <3>1. /\ i \in DOMAIN jobs /\ jobs' = [jobs EXCEPT ![i] = Failed(jobs[i])]
          /\ fate' = fate
      BY <1>11, <2>2 DEF FailJob
    <3>2. Same(Failed(jobs[i]), jobs[i]) /\ (Doomed(jobs[i]) => Doomed(Failed(jobs[i])))
      BY <1>3, <3>1, Attempts, JobFields
    <3>. QED  BY <1>9, <3>1, <3>2
  <2>. QED  BY <2>1, <2>2
<1>12. ASSUME NEW w \in Workers, CompleteJob(w) PROVE DroppedStep
  <2>1. /\ run[w].job # 0 /\ fate' = [fate EXCEPT ![run[w].payload] = "done"]
        /\ \/ jobs' = Drop(jobs, run[w].job)
           \/ run[w].job \notin DOMAIN jobs /\ jobs' = jobs
    BY <1>12 DEF CompleteJob
  <2>2. \A j \in DOMAIN jobs : jobs[j].payload = run[w].payload => j = run[w].job
    BY <2>1 DEF PayloadInv, Executing
  <2>3. CASE jobs' = Drop(jobs, run[w].job)
    BY <2>1, <2>2, <2>3, DropDrops
  <2>4. CASE run[w].job \notin DOMAIN jobs /\ jobs' = jobs
    <3>1. \A j \in DOMAIN jobs : fate'[jobs[j].payload] = fate[jobs[j].payload]
      BY <2>1, <2>2, <2>4 DEF TypeOK
    <3>. QED  BY <2>4, <3>1 DEF DroppedStep, SameFate
  <2>. QED  BY <2>1, <2>3, <2>4
<1>13. ASSUME NEW w \in Workers, Abandon(w) \/ Crash(w) PROVE DroppedStep
  BY <1>1, <1>13 DEF Abandon, Crash
<1>14. ASSUME ResetLocked \/ Tick PROVE DroppedStep
  <2>1. /\ DOMAIN jobs' = DOMAIN jobs /\ fate' = fate
        /\ \A i \in DOMAIN jobs : jobs'[i] = Release(jobs[i])
                                   \/ jobs'[i] = Sooner(AgeRow(jobs[i]))
    BY <1>14 DEF ResetLocked, Tick
  <2>2. \A i \in DOMAIN jobs : /\ jobs'[i].payload = jobs[i].payload
                               /\ (Doomed(jobs[i]) => Doomed(jobs'[i]))
    <3> SUFFICES ASSUME NEW i \in DOMAIN jobs
                 PROVE  /\ jobs'[i].payload = jobs[i].payload
                        /\ (Doomed(jobs[i]) => Doomed(jobs'[i]))
      OBVIOUS
    <3>1. CASE jobs'[i] = Release(jobs[i])
      BY <1>3, <3>1, Attempts, JobFields DEF Same
    <3>2. CASE jobs'[i] = Sooner(AgeRow(jobs[i]))
      BY <1>3, <3>2, Attempts, JobFields DEF Same
    <3>. QED  BY <2>1, <3>1, <3>2
  <2>3. \A i \in DOMAIN jobs : SameFate(i)
    BY <2>1, <2>2 DEF SameFate
  <2>. QED  BY <2>1, <2>3 DEF DroppedStep
<1>15. ASSUME NEW q \in Queues \cup {None}, NEW k \in Keys \cup {None}, NEW d \in Delays,
              NEW m \in 1 .. MaxAttempts, NEW mode \in Modes, AddJob(q, k, d, m, mode)
       PROVE  DroppedStep
  BY <1>15, AddJobDrops
<1>. QED  BY <1>5, <1>6, <1>7, <1>8, <1>10, <1>11, <1>12, <1>13, <1>14, <1>15
     DEF Next, ClientNext, WorkerNext

FateInv == PayloadInv /\ RowsUndone /\ DroppedNeverStarts

LEMMA FateInvHolds == Spec => []FateInv
<1>1. Init => FateInv
  BY DEF Init, Idle, FateInv, PayloadInv, RowsUndone, DroppedNeverStarts, Executing
<1>2. TypeOK /\ TypeOK' /\ KeysUnique /\ FateInv /\ [Next]_vars => FateInv'
  <2>1. UNCHANGED vars /\ FateInv => FateInv'
    BY DEF vars, FateInv, PayloadInv, RowsUndone, DroppedNeverStarts, Executing
  <2>2. TypeOK /\ TypeOK' /\ KeysUnique /\ FateInv /\ Next => FateInv'
    BY PayloadStep, DroppedSteps, DroppedStaysSo, UndoneStaysSo DEF FateInv
  <2>. QED  BY <2>1, <2>2
<1>. QED  BY <1>1, <1>2, TypeCorrect, KeysNeverShared, PTL DEF Spec

\* A payload that was replaced, removed or closed is not started again while
\* its row stays: the row has no attempts left.
THEOREM DroppedStayDown == Spec => []DroppedNeverStarts
BY FateInvHolds, PTL DEF FateInv

-------------------------------------------------------------------------------
(***************************************************************************)
(* The locks of jobs and queues, for every number of workers, calls and    *)
(* ticks, with executions that may outlive their locks.                    *)
(*                                                                         *)
(* Fetching, sweeping and the clock are treated one by one.  Every other   *)
(* operation is an instance of Quiet: it takes no new lock, takes a lock   *)
(* only off a job whose worker goes idle by the same step, and leaves the  *)
(* queue row of a locked job as it was.                                    *)
(*                                                                         *)
(* From these, for executions that end within their locks: the rows they   *)
(* need stay, nothing is lost, and the tables implement JobLedger.         *)
(***************************************************************************)

\* Ids of jobs that are executed have been given out.
KnownRuns == \A w \in Workers : run[w].job <= adds

LockInv ==
  /\ TypeOK
  /\ CountInv
  /\ KnownRuns
  /\ LockedTogether
  /\ OneLockPerQueue
  /\ LeaseHolds
  /\ JobExclusive
  /\ LocksInOrder

Locked(i) == i \in DOMAIN jobs /\ jobs[i].lockedBy # None

Quiet ==
  /\ \A w \in Workers : run'[w] = run[w] \/ run'[w].job = 0
  /\ \A i \in DOMAIN jobs' :
       jobs'[i].lockedBy # None =>
         Locked(i) /\ Same(jobs'[i], jobs[i]) /\ SameLock(jobs'[i], jobs[i])
  /\ \A i \in DOMAIN jobs' : Locked(i) =>
       \/ jobs'[i].lockedBy = jobs[i].lockedBy
       \/ run'[jobs[i].lockedBy].job = 0
  /\ \A i \in DOMAIN jobs' : jobs'[i].lockedBy # None /\ jobs'[i].queue # None =>
       /\ jobs[i].queue \in DOMAIN queues'
       /\ SameLock(queues'[jobs[i].queue], queues[jobs[i].queue])
  /\ \A w \in Workers :
       run[w].job # 0 /\ run[w].job \in DOMAIN jobs' => run[w].job \in DOMAIN jobs

\* A quiet step keeps what LockInv says of locks.
LEMMA QuietKeepsLocks ==
  ASSUME LockInv, TypeOK', Quiet
  PROVE  /\ LockedTogether'
         /\ OneLockPerQueue'
         /\ LeaseHolds'
         /\ JobExclusive'
         /\ LocksInOrder'
<1>. USE DEF LockInv, SameLock, Same
<1>1. LockedTogether'
  <2>. SUFFICES ASSUME NEW i \in DOMAIN jobs', jobs'[i].lockedBy # None,
                       jobs'[i].queue # None
                PROVE  /\ jobs'[i].queue \in DOMAIN queues'
                       /\ queues'[jobs'[i].queue].lockedBy = jobs'[i].lockedBy
                       /\ queues'[jobs'[i].queue].age = jobs'[i].age
    BY DEF LockedTogether
  <2>1. Locked(i) /\ Same(jobs'[i], jobs[i]) /\ SameLock(jobs'[i], jobs[i])
    BY DEF Quiet
  <2>2. /\ jobs[i].queue \in DOMAIN queues'
        /\ SameLock(queues'[jobs[i].queue], queues[jobs[i].queue])
    BY DEF Quiet
  <2>. QED  BY <2>1, <2>2 DEF LockedTogether, Locked
<1>2. OneLockPerQueue'
  <2>. SUFFICES ASSUME NEW i \in DOMAIN jobs', NEW j \in DOMAIN jobs',
                       jobs'[i].queue = jobs'[j].queue, jobs'[i].queue # None,
                       jobs'[i].lockedBy # None, jobs'[j].lockedBy # None
                PROVE  i = j
    BY DEF OneLockPerQueue
  <2>1. /\ Locked(i) /\ Same(jobs'[i], jobs[i])
        /\ Locked(j) /\ Same(jobs'[j], jobs[j])
    BY DEF Quiet
  <2>. QED  BY <2>1 DEF OneLockPerQueue, Locked
<1>3. LeaseHolds'
  <2>. SUFFICES ASSUME NEW w \in Workers, LeaseFresh(w)', run'[w].job \in DOMAIN jobs'
                PROVE  /\ jobs'[run'[w].job].lockedBy = w
                       /\ jobs'[run'[w].job].age = run'[w].age
                       /\ jobs'[run'[w].job].payload = run'[w].payload
                       /\ jobs'[run'[w].job].queue = run'[w].queue
    BY DEF LeaseHolds
  <2> DEFINE i == run[w].job
  <2>1. run'[w] = run[w] /\ LeaseFresh(w) /\ i # 0
    BY DEF Quiet, LeaseFresh, Executing
  <2>2. i \in DOMAIN jobs' /\ i \in DOMAIN jobs
    BY <2>1 DEF Quiet
  <2>3. /\ jobs[i].lockedBy = w /\ jobs[i].age = run[w].age
        /\ jobs[i].payload = run[w].payload /\ jobs[i].queue = run[w].queue
    BY <2>1, <2>2 DEF LeaseHolds
  <2>4. jobs'[i].lockedBy = w
    BY <2>1, <2>2, <2>3 DEF Quiet, Locked
  <2>5. Same(jobs'[i], jobs[i]) /\ SameLock(jobs'[i], jobs[i])
    BY <2>2, <2>4 DEF Quiet
  <2>. QED  BY <2>1, <2>3, <2>4, <2>5
<1>4. JobExclusive'
  <2>. SUFFICES ASSUME NEW v \in Workers, NEW w \in Workers,
                       LeaseFresh(v)', LeaseFresh(w)', run'[v].job = run'[w].job
                PROVE  v = w
    BY DEF JobExclusive
  <2>1. run'[v] = run[v] /\ run'[w] = run[w]
    BY DEF Quiet, LeaseFresh, Executing
  <2>. QED  BY <2>1 DEF JobExclusive, LeaseFresh, Executing
<1>5. LocksInOrder'
  <2>. SUFFICES ASSUME NEW w \in Workers, NEW i \in DOMAIN jobs', Executing(w)',
                       jobs'[i].lockedBy = w
                PROVE  /\ jobs'[i].age >= run'[w].age
                       /\ run'[w].job \in DOMAIN jobs' => jobs'[run'[w].job].lockedBy = w
    BY DEF LocksInOrder
  <2>1. run'[w] = run[w] /\ Executing(w) /\ run[w].job # 0
    BY DEF Quiet, Executing
  <2>2. Locked(i) /\ SameLock(jobs'[i], jobs[i])
    BY DEF Quiet
  <2>3. /\ jobs[i].age >= run[w].age
        /\ run[w].job \in DOMAIN jobs => jobs[run[w].job].lockedBy = w
    BY <2>1, <2>2 DEF LocksInOrder, Locked
  <2>4. ASSUME run[w].job \in DOMAIN jobs' PROVE jobs'[run[w].job].lockedBy = w
    <3>1. Locked(run[w].job) /\ jobs[run[w].job].lockedBy = w
      BY <2>1, <2>3, <2>4 DEF Quiet, Locked
    <3>. QED  BY <2>1, <2>4, <3>1 DEF Quiet
  <2>. QED  BY <2>1, <2>2, <2>3, <2>4
<1>. QED  BY <1>1, <1>2, <1>3, <1>4, <1>5

(***************************************************************************)
(* The triggers leave the lock of a queue that still has a job alone.      *)
(***************************************************************************)
LEMMA DecreaseKeepsLock ==
  ASSUME NEW qs, IsTable(qs), Agree(qs, Members(jobs)),
         NEW i \in DOMAIN jobs, NEW j \in DOMAIN jobs, i # j,
         NEW q \in Queues, jobs[j].queue = q
  PROVE  LET ps == Decrease(qs, jobs[i].queue)
         IN  q \in DOMAIN ps /\ SameLock(ps[q], qs[q])
<1> DEFINE R == Members(jobs)[q]
<1>1. j \in R /\ IsFiniteSet(R) /\ q \in DOMAIN qs /\ qs[q].count = Cardinality(R)
  BY DEF Members, Agree
<1>2. qs[q] \in QueueRow
  BY <1>1 DEF IsTable
<1>3. CASE jobs[i].queue # q
  BY <1>1, <1>3 DEF Decrease, Drop, Restrict, IsTable, SameLock
<1>4. CASE jobs[i].queue = q
  <2>1. {i, j} \subseteq R
    BY <1>1, <1>4 DEF Members
  <2>2. Cardinality({i, j}) = 2
    <3>1. IsFiniteSet({i}) /\ Cardinality({i}) = 1
      BY FS_Singleton
    <3>2. {i} \cup {j} = {i, j} /\ j \notin {i}
      OBVIOUS
    <3>3. Cardinality({i} \cup {j}) = Cardinality({i}) + 1
      BY <3>1, <3>2, FS_AddElement
    <3>. QED  BY <3>1, <3>2, <3>3
  <2>3. 2 <= Cardinality(R)
    BY <1>1, <2>1, <2>2, FS_Subset
  <2>4. qs[q].count \in Nat /\ ~(qs[q].count <= 1)
    BY <1>1, <1>2, <2>3 DEF QueueRow
  <2>5. Decrease(qs, q) = [qs EXCEPT ![q] = [qs[q] EXCEPT !.count = qs[q].count - 1]]
    BY <1>1, <2>4 DEF Decrease
  <2>. QED  BY <1>1, <1>2, <1>4, <2>5 DEF QueueRow, IsTable, SameLock
<1>. QED  BY <1>3, <1>4

LEMMA IncreaseKeepsLock ==
  ASSUME NEW qs, IsTable(qs), NEW q \in DOMAIN qs, NEW p
  PROVE  q \in DOMAIN Increase(qs, p) /\ SameLock(Increase(qs, p)[q], qs[q])
<1>1. qs[q] \in QueueRow
  BY DEF IsTable
<1>2. CASE p = q
  BY <1>1, <1>2 DEF Increase, IsTable, QueueRow, SameLock
<1>3. CASE p # q
  BY <1>1, <1>3 DEF Increase, IsTable, Put, SameLock
<1>. QED  BY <1>2, <1>3

\* A client call leaves the workers alone, so a step of one is quiet if it is
\* so for rows and queues.
LEMMA ClientStepQuiet ==
  ASSUME TypeOK, KnownRuns, run' = run,
         \A i \in DOMAIN jobs' : i \in DOMAIN jobs \/ i > adds,
         \A i \in DOMAIN jobs' : jobs'[i].lockedBy # None =>
           Locked(i) /\ Same(jobs'[i], jobs[i]) /\ SameLock(jobs'[i], jobs[i]),
         \A i \in DOMAIN jobs' : Locked(i) => jobs'[i].lockedBy = jobs[i].lockedBy,
         \A i \in DOMAIN jobs' : Locked(i) /\ jobs[i].queue # None =>
           /\ jobs[i].queue \in DOMAIN queues'
           /\ SameLock(queues'[jobs[i].queue], queues[jobs[i].queue])
  PROVE  Quiet
<1>1. \A w \in Workers : run[w].job \in Nat /\ run[w].job <= adds /\ adds \in Nat
  BY DEF TypeOK, Run, KnownRuns
<1>2. \A w \in Workers :
        run[w].job # 0 /\ run[w].job \in DOMAIN jobs' => run[w].job \in DOMAIN jobs
  BY <1>1
<1>3. \A i \in DOMAIN jobs' : jobs'[i].lockedBy # None /\ jobs'[i].queue # None =>
        /\ jobs[i].queue \in DOMAIN queues'
        /\ SameLock(queues'[jobs[i].queue], queues[jobs[i].queue])
  BY DEF Same
<1>. QED  BY <1>2, <1>3 DEF Quiet

\* Deleting a row that nobody is in the way of: the queue rows of the locked
\* jobs that stay keep their locks.
LEMMA DeleteQuiet ==
  ASSUME LockInv, NEW i \in DOMAIN jobs, DeleteJob(i), run' = run
  PROVE  Quiet
<1>. USE DEF LockInv
<1>1. IsTable(queues)
  BY DEF TypeOK, IsTable
<1>2. /\ DOMAIN jobs' = DOMAIN jobs \ {i}
      /\ \A j \in DOMAIN jobs' : j \in DOMAIN jobs /\ jobs'[j] = jobs[j]
  BY DEF DeleteJob, Drop, Restrict
<1>3. ASSUME NEW j \in DOMAIN jobs', Locked(j), jobs[j].queue # None
      PROVE  /\ jobs[j].queue \in DOMAIN queues'
             /\ SameLock(queues'[jobs[j].queue], queues[jobs[j].queue])
  <2>1. jobs[j].queue \in Queues /\ i # j /\ j \in DOMAIN jobs
    BY <1>2, <1>3 DEF TypeOK, Job
  <2>. QED  BY <1>1, <2>1, DecreaseKeepsLock DEF DeleteJob, CountInv
<1>. QED  BY <1>2, <1>3, ClientStepQuiet DEF Locked, Same, SameLock

\* Writing a row without touching its lock, queue or payload.
LEMMA UpdateQuiet ==
  ASSUME LockInv, NEW i \in DOMAIN jobs, NEW r, Same(r, jobs[i]), SameLock(r, jobs[i]),
         jobs' = [jobs EXCEPT ![i] = r], queues' = queues, run' = run
  PROVE  Quiet
<1>. USE DEF LockInv
<1>1. /\ DOMAIN jobs' = DOMAIN jobs
      /\ \A j \in DOMAIN jobs : Same(jobs'[j], jobs[j]) /\ SameLock(jobs'[j], jobs[j])
  BY DEF TypeOK, Same, SameLock
<1>2. \A j \in DOMAIN jobs : Locked(j) /\ jobs[j].queue # None =>
        jobs[j].queue \in DOMAIN queues /\ SameLock(queues'[jobs[j].queue], queues[jobs[j].queue])
  BY DEF LockedTogether, Locked, SameLock
<1>3. \A j \in DOMAIN jobs' : jobs'[j].lockedBy # None => Locked(j)
  BY <1>1 DEF Locked, SameLock
<1>4. \A j \in DOMAIN jobs' : Locked(j) => jobs'[j].lockedBy = jobs[j].lockedBy
  BY <1>1 DEF SameLock
<1>. QED  BY <1>1, <1>2, <1>3, <1>4, ClientStepQuiet

LEMMA AddJobQuiet ==
  ASSUME LockInv, NEW q \in Queues \cup {None}, NEW k \in Keys \cup {None},
         NEW d \in Delays, NEW m \in 1 .. MaxAttempts, NEW mode \in Modes,
         AddJob(q, k, d, m, mode)
  PROVE  Quiet
<1>. USE DEF LockInv
<1> DEFINE c == adds + 1
<1>1. c \notin DOMAIN jobs /\ c > adds /\ run' = run
  BY DEF AddJob, TypeOK
<1>2. \A dd : /\ NewRow(c, q, k, dd, m).lockedBy = None
  BY DEF NewRow
<1>3. IsTable(queues) /\ \A j \in DOMAIN jobs : jobs[j].queue \in Queues \cup {None}
  BY DEF TypeOK, IsTable, Job
<1>4. \A j \in DOMAIN jobs : Locked(j) /\ jobs[j].queue # None =>
        jobs[j].queue \in DOMAIN queues
  BY DEF LockedTogether, Locked
<1>. HIDE DEF c
<1>5. ASSUME AddNew(c, q, k, d, m) PROVE Quiet
  <2> DEFINE new == NewRow(c, q, k, d, m)
  <2>1. jobs' = Put(jobs, c, new) /\ queues' = Increase(queues, q) /\ new.lockedBy = None
    BY <1>2, <1>5 DEF AddNew
  <2>. HIDE DEF new
  <2>2. /\ DOMAIN jobs' = DOMAIN jobs \cup {c}
        /\ jobs'[c].lockedBy = None
        /\ \A j \in DOMAIN jobs : jobs'[j] = jobs[j]
    BY <1>1, <2>1 DEF Put
  <2>3. \A j \in DOMAIN jobs : Locked(j) /\ jobs[j].queue # None =>
          /\ jobs[j].queue \in DOMAIN queues'
          /\ SameLock(queues'[jobs[j].queue], queues[jobs[j].queue])
    BY <1>3, <1>4, <2>1, IncreaseKeepsLock
  <2>. QED  BY <1>1, <2>2, <2>3, ClientStepQuiet DEF Locked, Same, SameLock
<1>6. ASSUME NEW i \in Holders(k), AddReplace(i, c, q, k, d, m, mode)
      PROVE  Quiet
  <2> DEFINE dd == IF mode = "preserve_run_at" /\ jobs[i].attempts = 0
                   THEN jobs[i].delay ELSE d
             new == NewRow(c, q, k, dd, m)
             old == jobs[i].queue
  <2>1. /\ i \in DOMAIN jobs /\ ~Locked(i) /\ new.lockedBy = None
        /\ jobs' = [jobs EXCEPT ![i] = new] /\ queues' = MoveJob(queues, old, q)
    BY <1>2, <1>6 DEF AddReplace, Holders, Locked
  <2>. HIDE DEF new
  <2>2. /\ DOMAIN jobs' = DOMAIN jobs
        /\ jobs'[i].lockedBy = None
        /\ \A j \in DOMAIN jobs : j # i => jobs'[j] = jobs[j]
    BY <2>1 DEF TypeOK
  <2>3. ASSUME NEW j \in DOMAIN jobs, Locked(j), jobs[j].queue # None
        PROVE  /\ jobs[j].queue \in DOMAIN queues'
               /\ SameLock(queues'[jobs[j].queue], queues[jobs[j].queue])
    <3>1. j # i /\ jobs[j].queue \in Queues /\ jobs[j].queue \in DOMAIN queues
      BY <1>3, <1>4, <2>1, <2>3
    <3>2. CASE old = q
      BY <2>1, <3>1, <3>2 DEF MoveJob, SameLock
    <3>3. CASE old # q
      <4> DEFINE qs == Decrease(queues, old)
      <4>1. jobs[j].queue \in DOMAIN qs /\ SameLock(qs[jobs[j].queue], queues[jobs[j].queue])
        BY <1>3, <2>1, <3>1, DecreaseKeepsLock DEF CountInv
      <4>2. IsTable(qs)
        BY <1>3, <2>1, QueueTableTypes
      <4>3. queues' = Increase(qs, q)
        BY <2>1, <3>3 DEF MoveJob
      <4>. HIDE DEF qs
      <4>. QED  BY <4>1, <4>2, <4>3, IncreaseKeepsLock DEF SameLock
    <3>. QED  BY <3>2, <3>3
  <2>. QED  BY <1>1, <2>1, <2>2, <2>3, ClientStepQuiet DEF Locked, Same, SameLock
<1>7. ASSUME NEW i \in Holders(k), AddSupersede(i, c, q, k, d, m, mode)
      PROVE  Quiet
  <2> DEFINE new == NewRow(c, q, k, d, m)
             js == [jobs EXCEPT ![i] = Retired(jobs[i])]
  <2>1. /\ i \in DOMAIN jobs /\ new.lockedBy = None
        /\ jobs' = Put(js, c, new) /\ queues' = Increase(queues, q)
    BY <1>2, <1>7 DEF AddSupersede, Holders
  <2>. HIDE DEF new
  <2>2. Same(Retired(jobs[i]), jobs[i]) /\ SameLock(Retired(jobs[i]), jobs[i])
    BY <2>1, JobFields DEF TypeOK
  <2>3. /\ DOMAIN js = DOMAIN jobs
        /\ \A j \in DOMAIN jobs : Same(js[j], jobs[j]) /\ SameLock(js[j], jobs[j])
    BY <2>1, <2>2 DEF TypeOK, Same, SameLock
  <2>. HIDE DEF js
  <2>4. /\ DOMAIN jobs' = DOMAIN jobs \cup {c}
        /\ jobs'[c].lockedBy = None
        /\ \A j \in DOMAIN jobs : Same(jobs'[j], jobs[j]) /\ SameLock(jobs'[j], jobs[j])
    BY <1>1, <2>1, <2>3 DEF Put
  <2>5. \A j \in DOMAIN jobs : Locked(j) /\ jobs[j].queue # None =>
          /\ jobs[j].queue \in DOMAIN queues'
          /\ SameLock(queues'[jobs[j].queue], queues[jobs[j].queue])
    BY <1>3, <1>4, <2>1, IncreaseKeepsLock
  <2>6. \A j \in DOMAIN jobs' : jobs'[j].lockedBy # None => Locked(j)
    BY <2>4 DEF Locked, SameLock
  <2>7. \A j \in DOMAIN jobs' : Locked(j) => jobs'[j].lockedBy = jobs[j].lockedBy
    BY <2>4 DEF Locked, SameLock
  <2>. QED  BY <1>1, <2>4, <2>5, <2>6, <2>7, ClientStepQuiet DEF Locked
<1>8. ASSUME AddDuplicate(c, k, mode) PROVE Quiet
  BY <1>1, <1>4, <1>8, ClientStepQuiet DEF AddDuplicate, Locked, Same, SameLock
<1>. QED  BY <1>5, <1>6, <1>7, <1>8 DEF AddJob, c

LEMMA ClientQuiet ==
  ASSUME LockInv, ClientNext
  PROVE  Quiet
<1>. USE DEF LockInv
<1>1. ASSUME run' = run, UNCHANGED <<jobs, queues>> PROVE Quiet
  BY <1>1, ClientStepQuiet DEF Locked, LockedTogether, Same, SameLock
<1>2. ASSUME NEW k \in Keys, RemoveUnlocked(k) PROVE Quiet
  BY <1>1, <1>2, DeleteQuiet DEF RemoveUnlocked, Holders
<1>3. ASSUME NEW k \in Keys, RemoveLocked(k) PROVE Quiet
  <2>1. ASSUME NEW i \in Holders(k), jobs' = [jobs EXCEPT ![i] = Retired(@)],
               queues' = queues, run' = run
        PROVE  Quiet
    <3>1. /\ i \in DOMAIN jobs
          /\ Same(Retired(jobs[i]), jobs[i]) /\ SameLock(Retired(jobs[i]), jobs[i])
      BY JobFields DEF Holders, TypeOK
    <3>. QED  BY <2>1, <3>1, UpdateQuiet
  <2>. QED  BY <1>1, <1>3, <2>1 DEF RemoveLocked
<1>4. ASSUME NEW i \in DOMAIN jobs, CompleteJobs(i) PROVE Quiet
  BY <1>4, DeleteQuiet DEF CompleteJobs
<1>5. ASSUME NEW i \in DOMAIN jobs, PermanentlyFailJobs(i) PROVE Quiet
  <2> DEFINE r == [jobs[i] EXCEPT !.attempts = jobs[i].max]
  <2>1. Same(r, jobs[i]) /\ SameLock(r, jobs[i])
    BY DEF TypeOK, Job, Same, SameLock
  <2>2. jobs' = [jobs EXCEPT ![i] = r] /\ queues' = queues /\ run' = run
    BY <1>5 DEF PermanentlyFailJobs
  <2>. HIDE DEF r
  <2>. QED  BY <2>1, <2>2, UpdateQuiet
<1>6. ASSUME NEW i \in DOMAIN jobs, NEW d \in Delays, NEW a \in 0 .. MaxAttempts,
             NEW m \in 1 .. MaxAttempts, RescheduleJobs(i, d, a, m)
      PROVE  Quiet
  <2> DEFINE r == Rescheduled(jobs[i], d, a, m)
  <2>1. Same(r, jobs[i]) /\ SameLock(r, jobs[i])
    BY DEF TypeOK, Job, Rescheduled, Same, SameLock
  <2>2. jobs' = [jobs EXCEPT ![i] = r] /\ queues' = queues /\ run' = run
    BY <1>6 DEF RescheduleJobs
  <2>. HIDE DEF r
  <2>. QED  BY <2>1, <2>2, UpdateQuiet
<1>. QED  BY <1>2, <1>3, <1>4, <1>5, <1>6, AddJobQuiet DEF ClientNext

(***************************************************************************)
(* The workers.                                                            *)
(***************************************************************************)
\* Ending an execution.
LEMMA EndQuiet ==
  ASSUME LockInv, NEW w \in Workers,
         CompleteJob(w) \/ FailJob(w) \/ Abandon(w) \/ Crash(w)
  PROVE  Quiet
<1>. USE DEF LockInv
<1> DEFINE i == run[w].job
<1>1. /\ \A v \in Workers : run'[v] = run[v] \/ run'[v].job = 0
      /\ run'[w].job = 0
  BY DEF CompleteJob, FailJob, Abandon, Crash, TypeOK, Idle
<1>2. \A j \in DOMAIN jobs : Locked(j) /\ jobs[j].queue # None =>
        /\ jobs[j].queue \in DOMAIN queues
        /\ queues[jobs[j].queue].lockedBy = jobs[j].lockedBy
  BY DEF LockedTogether, Locked
<1>3. ASSUME UNCHANGED <<jobs, queues>> PROVE Quiet
  BY <1>1, <1>2, <1>3 DEF Quiet, Locked, Same, SameLock
<1>4. IsTable(queues) /\ \A j \in DOMAIN jobs : jobs[j].queue \in Queues \cup {None}
  BY DEF TypeOK, IsTable, Job
<1>5. ASSUME CompleteJob(w), i \in DOMAIN jobs PROVE Quiet
  <2> DEFINE q == jobs[i].queue
             qs == UnlockQueue(queues, q, w)
  <2>1. /\ DOMAIN jobs' = DOMAIN jobs \ {i}
        /\ \A j \in DOMAIN jobs' : j \in DOMAIN jobs /\ jobs'[j] = jobs[j]
        /\ queues' = Decrease(qs, q)
    BY <1>5 DEF CompleteJob, Drop, Restrict
  <2>2. ASSUME NEW j \in DOMAIN jobs, j # i, Locked(j), jobs[j].queue # None
        PROVE  qs[jobs[j].queue] = queues[jobs[j].queue] /\ jobs[j].queue \in DOMAIN qs
    <3>1. CASE jobs[j].queue # q
      BY <1>2, <1>4, <2>2, <3>1 DEF UnlockQueue, IsTable
    <3>2. CASE jobs[j].queue = q
      <4>1. ASSUME queues[q].lockedBy = w PROVE FALSE
        <5>1. jobs[j].lockedBy = w
          BY <1>2, <2>2, <3>2, <4>1
        <5>2. jobs[i].lockedBy = w
          BY <1>5, <2>2, <5>1 DEF LocksInOrder, Executing, CompleteJob
        <5>. QED  BY <1>5, <2>2, <3>2, <5>1, <5>2 DEF OneLockPerQueue
      <4>. QED  BY <1>2, <2>2, <3>2, <4>1 DEF UnlockQueue
    <3>. QED  BY <3>1, <3>2
  <2>3. IsTable(qs) /\ Agree(qs, Members(jobs))
    BY <1>4, UnlockAgrees
  <2>. HIDE DEF qs
  <2>4. ASSUME NEW j \in DOMAIN jobs, j # i, Locked(j), jobs[j].queue # None
        PROVE  /\ jobs[j].queue \in DOMAIN queues'
               /\ SameLock(queues'[jobs[j].queue], queues[jobs[j].queue])
    BY <1>4, <1>5, <2>1, <2>2, <2>3, <2>4, DecreaseKeepsLock DEF SameLock
  <2>. QED  BY <1>1, <2>1, <2>4 DEF Quiet, Locked, Same, SameLock
<1>6. ASSUME FailJob(w), i \in DOMAIN jobs, jobs[i].lockedBy = w PROVE Quiet
  <2>1. /\ jobs' = [jobs EXCEPT ![i] = Failed(jobs[i])]
        /\ queues' = UnlockQueue(queues, jobs[i].queue, w)
    BY <1>6 DEF FailJob
  <2>2. Failed(jobs[i]).lockedBy = None
    BY <1>6, JobFields DEF TypeOK
  <2>3. /\ DOMAIN jobs' = DOMAIN jobs
        /\ jobs'[i].lockedBy = None
        /\ \A j \in DOMAIN jobs : j # i => jobs'[j] = jobs[j]
    BY <1>6, <2>1, <2>2 DEF TypeOK
  <2>4. ASSUME NEW j \in DOMAIN jobs, j # i, Locked(j), jobs[j].queue # None
        PROVE  /\ jobs[j].queue \in DOMAIN queues'
               /\ queues'[jobs[j].queue] = queues[jobs[j].queue]
    <3>1. CASE jobs[j].queue # jobs[i].queue
      BY <1>2, <1>4, <2>1, <2>4, <3>1 DEF UnlockQueue, IsTable
    <3>2. CASE jobs[j].queue = jobs[i].queue
      BY <1>6, <2>4, <3>2 DEF OneLockPerQueue, Locked, TypeOK
    <3>. QED  BY <3>1, <3>2
  <2>. QED  BY <1>1, <1>6, <2>3, <2>4 DEF Quiet, Locked, Same, SameLock
<1>. QED  BY <1>3, <1>5, <1>6 DEF CompleteJob, FailJob, Abandon, Crash

\* Fetching locks a job and its queue, both of them free.
LEMMA GetJobLocks ==
  ASSUME LockInv, NEW w \in Workers, NEW i \in DOMAIN jobs, GetJob(w, i)
  PROVE  /\ LockedTogether'
         /\ OneLockPerQueue'
         /\ LeaseHolds'
         /\ JobExclusive'
         /\ LocksInOrder'
<1>. USE DEF LockInv
<1> DEFINE q == jobs[i].queue
<1>1. /\ jobs[i].lockedBy = None
      /\ q # None => q \in DOMAIN queues /\ queues[q].lockedBy = None
      /\ run[w].job = 0 /\ i # 0
  BY DEF GetJob, Eligible, QueueFree, TypeOK
<1>2. /\ DOMAIN jobs' = DOMAIN jobs
      /\ \A j \in DOMAIN jobs : j # i => jobs'[j] = jobs[j]
      /\ jobs'[i].lockedBy = w /\ jobs'[i].age = 0
      /\ Same(jobs'[i], jobs[i])
  <2>1. jobs' = [jobs EXCEPT ![i] = Fetched(jobs[i], w)]
    BY DEF GetJob
  <2>2. /\ Fetched(jobs[i], w).lockedBy = w /\ Fetched(jobs[i], w).age = 0
        /\ Same(Fetched(jobs[i], w), jobs[i])
    BY JobFields DEF TypeOK
  <2>. QED  BY <2>1, <2>2 DEF TypeOK
<1>3. /\ DOMAIN queues' = DOMAIN queues
      /\ \A p \in DOMAIN queues : p # q => queues'[p] = queues[p]
      /\ q # None => queues'[q].lockedBy = w /\ queues'[q].age = 0
  <2>1. queues' = IF q = None THEN queues
                  ELSE [queues EXCEPT ![q] = LockRow(queues[q], w)]
    BY DEF GetJob
  <2>2. q \in DOMAIN queues => /\ LockRow(queues[q], w).lockedBy = w
                               /\ LockRow(queues[q], w).age = 0
    BY QueueFields DEF TypeOK
  <2>. QED  BY <1>1, <2>1, <2>2 DEF TypeOK
<1>4. /\ \A v \in Workers : v # w => run'[v] = run[v]
      /\ run'[w].job = i /\ run'[w].age = 0
      /\ run'[w].payload = jobs[i].payload /\ run'[w].queue = q
  BY DEF GetJob, TypeOK
<1>5. \A j \in DOMAIN jobs : q # None /\ jobs[j].queue = q => jobs[j].lockedBy = None
  BY <1>1 DEF LockedTogether
<1>6. \A v \in Workers : v # None
  OBVIOUS
<1>7. LockedTogether'
  <2>1. ASSUME NEW j \in DOMAIN jobs, jobs'[j].lockedBy # None, jobs'[j].queue # None
        PROVE  /\ jobs'[j].queue \in DOMAIN queues'
               /\ queues'[jobs'[j].queue].lockedBy = jobs'[j].lockedBy
               /\ queues'[jobs'[j].queue].age = jobs'[j].age
    <3>1. CASE j = i
      BY <1>1, <1>2, <1>3, <2>1, <3>1 DEF Same
    <3>2. CASE j # i
      BY <1>2, <1>3, <1>5, <2>1, <3>2 DEF LockedTogether
    <3>. QED  BY <3>1, <3>2
  <2>. QED  BY <1>2, <2>1 DEF LockedTogether
<1>8. OneLockPerQueue'
  BY <1>2, <1>5 DEF OneLockPerQueue, Same
<1>9. ASSUME NEW v \in Workers, v # w, LeaseFresh(v) PROVE run[v].job # i
  BY <1>1, <1>6, <1>9 DEF LeaseHolds
<1>10. LeaseHolds'
  <2>. SUFFICES ASSUME NEW v \in Workers, LeaseFresh(v)', run'[v].job \in DOMAIN jobs'
                PROVE  /\ jobs'[run'[v].job].lockedBy = v
                       /\ jobs'[run'[v].job].age = run'[v].age
                       /\ jobs'[run'[v].job].payload = run'[v].payload
                       /\ jobs'[run'[v].job].queue = run'[v].queue
    BY DEF LeaseHolds
  <2>1. CASE v = w
    BY <1>2, <1>4, <2>1 DEF Same
  <2>2. CASE v # w
    <3>1. run'[v] = run[v] /\ LeaseFresh(v) /\ run[v].job # i /\ run[v].job \in DOMAIN jobs
      BY <1>2, <1>4, <1>9, <2>2 DEF LeaseFresh, Executing
    <3>. QED  BY <1>2, <3>1 DEF LeaseHolds
  <2>. QED  BY <2>1, <2>2
<1>11. JobExclusive'
  <2>1. ASSUME NEW v \in Workers, v # w, LeaseFresh(v)'
        PROVE  run'[v] = run[v] /\ LeaseFresh(v) /\ run'[v].job # run'[w].job
    BY <1>4, <1>9, <2>1 DEF LeaseFresh, Executing
  <2>. QED  BY <2>1 DEF JobExclusive
<1>12. LocksInOrder'
  <2>. SUFFICES ASSUME NEW v \in Workers, NEW j \in DOMAIN jobs, Executing(v)',
                       jobs'[j].lockedBy = v
                PROVE  /\ jobs'[j].age >= run'[v].age
                       /\ run'[v].job \in DOMAIN jobs' => jobs'[run'[v].job].lockedBy = v
    BY <1>2 DEF LocksInOrder
  <2>1. CASE v = w
    <3>1. jobs'[j].age \in Nat
      BY <1>2 DEF TypeOK, Job, Ages
    <3>. QED  BY <1>2, <1>4, <2>1, <3>1
  <2>2. CASE v # w
    <3>1. j # i /\ jobs[j].lockedBy = v /\ run'[v] = run[v] /\ Executing(v)
      BY <1>2, <1>4, <2>2 DEF Executing
    <3>2. /\ jobs[j].age >= run[v].age
          /\ run[v].job \in DOMAIN jobs => jobs[run[v].job].lockedBy = v
      BY <3>1 DEF LocksInOrder
    <3>3. run[v].job # i
      BY <1>1, <1>6, <3>2
    <3>. QED  BY <1>2, <3>1, <3>2, <3>3
  <2>. QED  BY <2>1, <2>2
<1>. QED  BY <1>7, <1>8, <1>10, <1>11, <1>12

(***************************************************************************)
(* The sweep and the clock.                                                *)
(***************************************************************************)
LEMMA ResetKeepsLocks ==
  ASSUME LockInv, ResetLocked
  PROVE  /\ LockedTogether'
         /\ OneLockPerQueue'
         /\ LeaseHolds'
         /\ JobExclusive'
         /\ LocksInOrder'
<1>. USE DEF LockInv
<1>1. /\ DOMAIN jobs' = DOMAIN jobs
      /\ \A i \in DOMAIN jobs :
           /\ Same(jobs'[i], jobs[i])
           /\ IF jobs[i].age > Expiry THEN jobs'[i].lockedBy = None
                                      ELSE SameLock(jobs'[i], jobs[i])
  BY JobFields DEF ResetLocked, TypeOK
<1>2. /\ DOMAIN queues' = DOMAIN queues
      /\ \A q \in DOMAIN queues :
           IF queues[q].age > Expiry THEN queues'[q].lockedBy = None
                                     ELSE SameLock(queues'[q], queues[q])
  BY QueueFields DEF ResetLocked, TypeOK
<1>3. run' = run
  BY DEF ResetLocked
<1>4. LockedTogether'
  BY <1>1, <1>2 DEF LockedTogether, Same, SameLock
<1>5. OneLockPerQueue'
  BY <1>1 DEF OneLockPerQueue, Same, SameLock
<1>6. \A w \in Workers : run[w].age \in Nat
  BY DEF TypeOK, Run, Ages
<1>7. LeaseHolds'
  <2>1. ASSUME NEW w \in Workers, LeaseFresh(w), run[w].job \in DOMAIN jobs
        PROVE  SameLock(jobs'[run[w].job], jobs[run[w].job])
    BY <1>1, <1>6, <2>1 DEF LeaseHolds, LeaseFresh
  <2>. QED  BY <1>1, <1>3, <2>1 DEF LeaseHolds, LeaseFresh, Executing, Same, SameLock
<1>8. JobExclusive'
  BY <1>3 DEF JobExclusive, LeaseFresh, Executing
<1>9. LocksInOrder'
  <2>. SUFFICES ASSUME NEW w \in Workers, NEW i \in DOMAIN jobs, Executing(w),
                       jobs'[i].lockedBy = w
                PROVE  /\ jobs'[i].age >= run[w].age
                       /\ run[w].job \in DOMAIN jobs => jobs'[run[w].job].lockedBy = w
    BY <1>1, <1>3 DEF LocksInOrder, Executing
  <2>1. ~(jobs[i].age > Expiry) /\ SameLock(jobs'[i], jobs[i])
    BY <1>1
  <2>2. /\ jobs[i].age >= run[w].age
        /\ run[w].job \in DOMAIN jobs => jobs[run[w].job].lockedBy = w
    BY <2>1 DEF LocksInOrder, SameLock
  <2>3. LeaseFresh(w)
    <3>1. jobs[i].age \in Nat
      BY DEF TypeOK, Job, Ages
    <3>. QED  BY <1>6, <2>1, <2>2, <3>1 DEF LeaseFresh
  <2>4. ASSUME run[w].job \in DOMAIN jobs PROVE jobs'[run[w].job].lockedBy = w
    <3>1. jobs[run[w].job].age = run[w].age /\ ~(run[w].age > Expiry)
      BY <1>6, <2>3, <2>4 DEF LeaseHolds, LeaseFresh
    <3>. QED  BY <1>1, <2>2, <2>4, <3>1 DEF SameLock
  <2>. QED  BY <2>1, <2>2, <2>4 DEF SameLock
<1>. QED  BY <1>4, <1>5, <1>7, <1>8, <1>9

LEMMA OlderMonotone ==
  ASSUME NEW a \in Ages, NEW b \in Ages
  PROVE  /\ Older(a) \in Nat
         /\ a >= b => Older(a) >= Older(b)
         /\ Older(a) <= Expiry => a <= Expiry
BY DEF Older, Ages

LEMMA TickKeepsLocks ==
  ASSUME LockInv, Tick
  PROVE  /\ LockedTogether'
         /\ OneLockPerQueue'
         /\ LeaseHolds'
         /\ JobExclusive'
         /\ LocksInOrder'
<1>. USE DEF LockInv
<1>1. /\ DOMAIN jobs' = DOMAIN jobs
      /\ \A i \in DOMAIN jobs :
           /\ Same(jobs'[i], jobs[i])
           /\ jobs'[i].lockedBy = jobs[i].lockedBy
           /\ jobs[i].lockedBy # None => jobs'[i].age = Older(jobs[i].age)
  BY JobFields DEF Tick, TypeOK
<1>2. /\ DOMAIN queues' = DOMAIN queues
      /\ \A q \in DOMAIN queues :
           /\ queues'[q].lockedBy = queues[q].lockedBy
           /\ queues[q].lockedBy # None => queues'[q].age = Older(queues[q].age)
  BY QueueFields DEF Tick, TypeOK
<1>3. \A w \in Workers :
        /\ run[w].job = 0 => run'[w] = run[w]
        /\ run[w].job # 0 => /\ run'[w].job = run[w].job
                             /\ run'[w].payload = run[w].payload
                             /\ run'[w].queue = run[w].queue
                             /\ run'[w].age = Older(run[w].age)
  BY DEF Tick, TypeOK, Run
<1>4. /\ \A w \in Workers : run[w].age \in Ages
      /\ \A i \in DOMAIN jobs : jobs[i].age \in Ages
  BY DEF TypeOK, Run, Job
<1>5. \A w \in Workers : LeaseFresh(w)' => LeaseFresh(w)
  BY <1>3, <1>4, OlderMonotone DEF LeaseFresh, Executing
<1>6. LockedTogether'
  BY <1>1, <1>2 DEF LockedTogether, Same
<1>7. OneLockPerQueue'
  BY <1>1 DEF OneLockPerQueue, Same
<1>8. LeaseHolds'
  <2>. SUFFICES ASSUME NEW w \in Workers, LeaseFresh(w), run'[w].job \in DOMAIN jobs
                PROVE  /\ jobs'[run'[w].job].lockedBy = w
                       /\ jobs'[run'[w].job].age = run'[w].age
                       /\ jobs'[run'[w].job].payload = run'[w].payload
                       /\ jobs'[run'[w].job].queue = run'[w].queue
    BY <1>1, <1>5 DEF LeaseHolds
  <2>1. run[w].job # 0 /\ run[w].job \in DOMAIN jobs /\ run'[w].job = run[w].job
    BY <1>3 DEF LeaseFresh, Executing
  <2>2. /\ jobs[run[w].job].lockedBy = w /\ jobs[run[w].job].age = run[w].age
        /\ jobs[run[w].job].payload = run[w].payload
        /\ jobs[run[w].job].queue = run[w].queue
    BY <2>1 DEF LeaseHolds
  <2>. QED  BY <1>1, <1>3, <2>1, <2>2 DEF Same
<1>9. JobExclusive'
  <2>1. \A w \in Workers : LeaseFresh(w) => run'[w].job = run[w].job
    BY <1>3 DEF LeaseFresh, Executing
  <2>. QED  BY <1>5, <2>1 DEF JobExclusive
<1>10. LocksInOrder'
  <2>. SUFFICES ASSUME NEW w \in Workers, NEW i \in DOMAIN jobs, Executing(w)',
                       jobs'[i].lockedBy = w
                PROVE  /\ jobs'[i].age >= run'[w].age
                       /\ run'[w].job \in DOMAIN jobs => jobs'[run'[w].job].lockedBy = w
    BY <1>1 DEF LocksInOrder
  <2>1. /\ run[w].job # 0 /\ run'[w].job = run[w].job /\ run'[w].age = Older(run[w].age)
        /\ jobs[i].lockedBy = w /\ jobs'[i].age = Older(jobs[i].age)
    BY <1>1, <1>3 DEF Executing
  <2>2. /\ jobs[i].age >= run[w].age
        /\ run[w].job \in DOMAIN jobs => jobs[run[w].job].lockedBy = w
    BY <2>1 DEF LocksInOrder, Executing
  <2>. QED  BY <1>1, <1>4, <2>1, <2>2, OlderMonotone
<1>. QED  BY <1>6, <1>7, <1>8, <1>9, <1>10

(***************************************************************************)
(* The invariant.                                                          *)
(***************************************************************************)
LEMMA InitLocks == Init => LockInv
<1>. SUFFICES ASSUME Init PROVE LockInv
  OBVIOUS
<1>1. DOMAIN jobs = {} /\ \A w \in Workers : run[w].job = 0 /\ adds = 0
  BY DEF Init, Idle
<1>2. KnownRuns /\ LockedTogether /\ OneLockPerQueue /\ LeaseHolds /\ JobExclusive
      /\ LocksInOrder
  BY <1>1 DEF KnownRuns, LockedTogether, OneLockPerQueue, LeaseHolds, JobExclusive,
     LocksInOrder, LeaseFresh, Executing
<1>. QED  BY <1>2, InitType, InitCount DEF LockInv

LEMMA NextKnownRuns ==
  ASSUME TypeOK, KnownRuns, Next
  PROVE  KnownRuns'
<1>1. adds \in Nat /\ adds' \in Nat /\ adds' >= adds
  <2>1. adds \in Nat
    BY DEF TypeOK
  <2>2. adds' = adds \/ adds' = adds + 1
    BY AddsStep
  <2>. QED  BY <2>1, <2>2
<1>2. ASSUME NEW w \in Workers PROVE run[w].job \in Nat /\ run[w].job <= adds
  BY DEF TypeOK, Run, KnownRuns
<1>3. ASSUME run' = run PROVE KnownRuns'
  BY <1>1, <1>2, <1>3 DEF KnownRuns
<1>4. ASSUME NEW w \in Workers, WorkerNext(w) PROVE KnownRuns'
  <2>1. ASSUME NEW i \in DOMAIN jobs, GetJob(w, i) PROVE KnownRuns'
    <3>1. \A v \in Workers : run'[v].job = IF v = w THEN i ELSE run[v].job
      BY <2>1 DEF GetJob, TypeOK
    <3>2. i \in Nat /\ i <= adds
      BY DEF TypeOK
    <3>. QED  BY <1>1, <1>2, <3>1, <3>2 DEF KnownRuns
  <2>2. ASSUME run' = [run EXCEPT ![w] = Idle] PROVE KnownRuns'
    <3>1. \A v \in Workers : run'[v].job = IF v = w THEN 0 ELSE run[v].job
      BY <2>2 DEF TypeOK, Idle
    <3>. QED  BY <1>1, <1>2, <3>1 DEF KnownRuns
  <2>. QED  BY <1>4, <2>1, <2>2 DEF WorkerNext, CompleteJob, FailJob, Abandon, Crash
<1>5. ASSUME Tick PROVE KnownRuns'
  <2>1. \A w \in Workers : run'[w].job = run[w].job
    BY <1>5 DEF Tick, TypeOK, Run
  <2>. QED  BY <1>1, <1>2, <2>1 DEF KnownRuns
<1>6. ASSUME ClientNext PROVE run' = run
  BY <1>6 DEF ClientNext, AddJob, RemoveUnlocked, RemoveLocked, CompleteJobs,
     PermanentlyFailJobs, RescheduleJobs
<1>. QED  BY <1>3, <1>4, <1>5, <1>6 DEF Next, ResetLocked

LEMMA LockInvStep == LockInv /\ [Next]_vars => LockInv'
<1>. SUFFICES ASSUME LockInv, [Next]_vars PROVE LockInv'
  OBVIOUS
<1>1. CASE UNCHANGED vars
  BY <1>1 DEF vars, LockInv, TypeOK, CountInv, KnownRuns, LockedTogether, OneLockPerQueue,
     LeaseHolds, JobExclusive, LocksInOrder, LeaseFresh, Executing
<1>2. CASE Next
  <2>1. TypeOK'
    BY <1>2, NextType DEF LockInv
  <2>2. CountInv'
    BY <1>2, CountStep DEF LockInv
  <2>3. KnownRuns'
    BY <1>2, NextKnownRuns DEF LockInv
  <2>4. /\ LockedTogether'
        /\ OneLockPerQueue'
        /\ LeaseHolds'
        /\ JobExclusive'
        /\ LocksInOrder'
    <3>1. ASSUME Quiet
          PROVE  /\ LockedTogether'
                 /\ OneLockPerQueue'
                 /\ LeaseHolds'
                 /\ JobExclusive'
                 /\ LocksInOrder'
      BY <2>1, <3>1, QuietKeepsLocks
    <3>2. CASE ClientNext
      BY <3>1, <3>2, ClientQuiet
    <3>3. ASSUME NEW w \in Workers, WorkerNext(w)
          PROVE  /\ LockedTogether'
                 /\ OneLockPerQueue'
                 /\ LeaseHolds'
                 /\ JobExclusive'
                 /\ LocksInOrder'
      BY <3>1, <3>3, EndQuiet, GetJobLocks DEF WorkerNext
    <3>. QED  BY <1>2, <3>2, <3>3, ResetKeepsLocks, TickKeepsLocks DEF Next
  <2>. QED  BY <2>1, <2>2, <2>3, <2>4 DEF LockInv
<1>. QED  BY <1>1, <1>2

LEMMA LockInvHolds == Spec => []LockInv
BY InitLocks, LockInvStep, PTL DEF Spec

\* A locked job goes with a lock of its queue by the same worker, taken at the
\* same time, and it is the only locked job of its queue.
THEOREM LocksPaired == Spec => []QueueLocks
BY LockInvHolds, PTL DEF LockInv, QueueLocks

\* Whatever outlives its lock, a worker whose lock is fresh has the row of its
\* job to itself, and shares the job with no other fresh worker.
THEOREM LeasesExclusive == Spec => []LeaseExclusive
BY LockInvHolds, PTL DEF LockInv, LeaseExclusive

(***************************************************************************)
(* Executions that end within their locks.                                 *)
(***************************************************************************)
RunsBounded == \A w \in Workers : Executing(w) => run[w].age <= MaxRun
LeasedInv == LockInv /\ RunsBounded /\ RowKept

LEMMA BoundedRuns ==
  ASSUME TypeOK, RunsBounded, Next
  PROVE  RunsBounded'
<1>1. ASSUME NEW w \in Workers, WorkerNext(w) PROVE RunsBounded'
  <2>1. \A v \in Workers : run'[v] = run[v] \/ run'[v].job = 0 \/ run'[v].age = 0
    BY <1>1 DEF WorkerNext, GetJob, CompleteJob, FailJob, Abandon, Crash, TypeOK, Idle
  <2>. QED  BY <2>1 DEF RunsBounded, Executing
<1>2. ASSUME Tick PROVE RunsBounded'
  <2>1. \A w \in Workers :
          /\ run[w].job = 0 => run'[w] = run[w]
          /\ run[w].job # 0 => run'[w].age = Older(run[w].age) /\ run[w].age < MaxRun
    BY <1>2 DEF Tick, TypeOK, Run
  <2>2. \A w \in Workers : run[w].age \in Ages
    BY DEF TypeOK, Run
  <2>3. \A w \in Workers : Older(run[w].age) <= run[w].age + 1 /\ run[w].age \in Nat
    BY <2>2 DEF Older, Ages
  <2>4. \A w \in Workers : run[w].job # 0 => Older(run[w].age) <= MaxRun
    BY <2>1, <2>2, <2>3, OlderMonotone
  <2>. QED  BY <2>1, <2>4 DEF RunsBounded, Executing
<1>3. ASSUME run' = run PROVE RunsBounded'
  BY <1>3 DEF RunsBounded, Executing
<1>. QED  BY <1>1, <1>2, <1>3 DEF Next, ResetLocked, ClientNext, AddJob, RemoveUnlocked,
     RemoveLocked, CompleteJobs, PermanentlyFailJobs, RescheduleJobs

\* The row of a job that is executed stays: a client cannot delete it while
\* its lock is fresh, and no other worker executes it.
LEMMA RowStays ==
  ASSUME MaxRun <= Expiry, LeasedInv, Next
  PROVE  RowKept'
<1>. USE DEF LeasedInv
<1>1. ASSUME NEW w \in Workers, Executing(w)
      PROVE  /\ LeaseFresh(w) /\ run[w].job \in DOMAIN jobs
             /\ jobs[run[w].job].lockedBy = w /\ ~(jobs[run[w].job].age > Expiry)
  <2>1. run[w].age \in Nat
    BY DEF LockInv, TypeOK, Run, Ages
  <2>2. LeaseFresh(w) /\ run[w].job \in DOMAIN jobs
    BY <1>1, <2>1 DEF RunsBounded, LeaseFresh, RowKept
  <2>. QED  BY <2>1, <2>2 DEF LockInv, LeaseHolds, LeaseFresh
<1>2. ASSUME run' = run, DOMAIN jobs \subseteq DOMAIN jobs' PROVE RowKept'
  BY <1>1, <1>2 DEF RowKept, LeaseFresh, Executing
<1>3. ASSUME NEW i \in DOMAIN jobs, DeleteJob(i), run' = run,
             jobs[i].lockedBy = None \/ jobs[i].age > Expiry
      PROVE  RowKept'
  <2>1. \A w \in Workers : Executing(w) => run[w].job # i
    BY <1>1, <1>3
  <2>2. DOMAIN jobs' = DOMAIN jobs \ {i}
    BY <1>3 DEF DeleteJob, Drop, Restrict
  <2>. QED  BY <1>1, <1>3, <2>1, <2>2 DEF RowKept, LeaseFresh, Executing
<1>4. ASSUME ClientNext PROVE RowKept'
  <2>1. ASSUME NEW k \in Keys, RemoveUnlocked(k) PROVE RowKept'
    BY <1>2, <1>3, <2>1 DEF RemoveUnlocked, Holders
  <2>2. ASSUME NEW k \in Keys, RemoveLocked(k) PROVE RowKept'
    BY <1>2, <2>2 DEF RemoveLocked, LockInv, TypeOK
  <2>3. ASSUME NEW i \in DOMAIN jobs, CompleteJobs(i) PROVE RowKept'
    BY <1>3, <2>3 DEF CompleteJobs, Administrable
  <2>4. ASSUME NEW i \in DOMAIN jobs, PermanentlyFailJobs(i) PROVE RowKept'
    BY <1>2, <2>4 DEF PermanentlyFailJobs, LockInv, TypeOK
  <2>5. ASSUME NEW i \in DOMAIN jobs, NEW d, NEW a, NEW m, RescheduleJobs(i, d, a, m)
        PROVE  RowKept'
    BY <1>2, <2>5 DEF RescheduleJobs, LockInv, TypeOK
  <2>6. ASSUME NEW q, NEW k, NEW d, NEW m, NEW mode, AddJob(q, k, d, m, mode)
        PROVE  RowKept'
    <3>1. DOMAIN jobs \subseteq DOMAIN jobs' /\ run' = run
      BY <2>6 DEF AddJob, AddNew, AddReplace, AddSupersede, AddDuplicate, Put, LockInv, TypeOK
    <3>. QED  BY <1>2, <3>1
  <2>. QED  BY <1>4, <2>1, <2>2, <2>3, <2>4, <2>5, <2>6 DEF ClientNext
<1>5. ASSUME NEW w \in Workers, WorkerNext(w) PROVE RowKept'
  <2>1. ASSUME NEW i \in DOMAIN jobs, GetJob(w, i) PROVE RowKept'
    <3>1. /\ \A v \in Workers : run'[v].job = IF v = w THEN i ELSE run[v].job
          /\ DOMAIN jobs' = DOMAIN jobs
      BY <2>1 DEF GetJob, LockInv, TypeOK
    <3>. QED  BY <1>1, <3>1 DEF RowKept, LeaseFresh, Executing
  <2>2. ASSUME CompleteJob(w) \/ FailJob(w) \/ Abandon(w) \/ Crash(w) PROVE RowKept'
    <3>1. \A v \in Workers : run'[v].job = IF v = w THEN 0 ELSE run[v].job
      BY <2>2 DEF CompleteJob, FailJob, Abandon, Crash, LockInv, TypeOK, Idle
    <3>2. \A j \in DOMAIN jobs : j # run[w].job \/ run[w].job = 0 => j \in DOMAIN jobs'
      BY <2>2 DEF CompleteJob, FailJob, Abandon, Crash, Drop, Restrict, LockInv, TypeOK
    <3>3. \A v \in Workers : v # w /\ Executing(v) /\ Executing(w) => run[v].job # run[w].job
      BY <1>1 DEF LockInv, JobExclusive
    <3>. QED  BY <1>1, <3>1, <3>2, <3>3 DEF RowKept, LeaseFresh, Executing
  <2>. QED  BY <1>5, <2>1, <2>2 DEF WorkerNext
<1>6. ASSUME ResetLocked PROVE RowKept'
  BY <1>2, <1>6 DEF ResetLocked
<1>7. ASSUME Tick PROVE RowKept'
  <2>1. (\A w \in Workers : run'[w].job = run[w].job) /\ DOMAIN jobs' = DOMAIN jobs
    BY <1>7 DEF Tick, LockInv, TypeOK, Run
  <2>. QED  BY <1>1, <2>1 DEF RowKept, LeaseFresh, Executing
<1>. QED  BY <1>4, <1>5, <1>6, <1>7 DEF Next

LEMMA LeasedHolds ==
  ASSUME MaxRun <= Expiry
  PROVE  Spec => []LeasedInv
<1>1. Init => LeasedInv
  <2>. SUFFICES ASSUME Init PROVE RunsBounded /\ RowKept
    BY InitLocks DEF LeasedInv
  <2>. QED  BY DEF Init, Idle, RunsBounded, RowKept, LeaseFresh, Executing
<1>2. LeasedInv /\ [Next]_vars => LeasedInv'
  <2>. SUFFICES ASSUME LeasedInv, [Next]_vars PROVE RunsBounded' /\ RowKept'
    BY LockInvStep DEF LeasedInv
  <2>1. CASE UNCHANGED vars
    BY <2>1 DEF LeasedInv, RunsBounded, RowKept, LeaseFresh, Executing, vars
  <2>. QED  BY <2>1, BoundedRuns, RowStays DEF LeasedInv, LockInv
<1>. QED  BY <1>1, <1>2, PTL DEF Spec

\* When every execution ends within its lock, nobody deletes the row of a job
\* that is being executed.
THEOREM RowsKept ==
  ASSUME MaxRun <= Expiry
  PROVE  Spec => []RowKept
BY LeasedHolds, PTL DEF LeasedInv

\* ... and the jobs of a queue are executed one at a time.
THEOREM QueuesSerial ==
  ASSUME MaxRun <= Expiry
  PROVE  Spec => []QueueSerial
<1>1. LeasedInv => QueueSerial
  <2>. SUFFICES ASSUME LeasedInv, NEW v \in Workers, NEW w \in Workers,
                       LeaseFresh(v), LeaseFresh(w),
                       run[v].queue = run[w].queue, run[v].queue # None
                PROVE  v = w
    BY DEF QueueSerial
  <2>1. run[v].job \in DOMAIN jobs /\ run[w].job \in DOMAIN jobs
    BY DEF LeasedInv, RowKept
  <2>2. /\ jobs[run[v].job].lockedBy = v /\ jobs[run[v].job].queue = run[v].queue
        /\ jobs[run[w].job].lockedBy = w /\ jobs[run[w].job].queue = run[w].queue
    BY <2>1 DEF LeasedInv, LockInv, LeaseHolds
  <2>3. v # None /\ w # None
    OBVIOUS
  <2>4. run[v].job = run[w].job
    BY <2>1, <2>2, <2>3 DEF LeasedInv, LockInv, OneLockPerQueue
  <2>. QED  BY <2>2, <2>4
<1>. QED  BY <1>1, LeasedHolds, PTL

(***************************************************************************)
(* Who takes a lock off a job.                                             *)
(***************************************************************************)
\* No lock is taken off a row that stays, except an old one.
LocksStay ==
  \A i \in DOMAIN jobs \cap DOMAIN jobs' :
    \/ jobs[i].lockedBy \in {None, jobs'[i].lockedBy}
    \/ jobs[i].age > Expiry

OwnLocksStep ==
  \A i \in DOMAIN jobs, w \in Workers :
    Unlocks(i, w) => \/ run[w].job = i /\ run'[w] = Idle
                     \/ jobs[i].age > Expiry

LEMMA StayingIsOwn == LocksStay => OwnLocksStep
BY DEF LocksStay, OwnLocksStep, Unlocks

\* A statement that writes one row and leaves its lock alone, finds none, or
\* deletes the row.
LEMMA WriteKeepsLock ==
  ASSUME TypeOK, NEW i \in DOMAIN jobs, NEW r, jobs' = [jobs EXCEPT ![i] = r],
         jobs[i].lockedBy \in {None, r.lockedBy}
  PROVE  LocksStay
BY DEF TypeOK, LocksStay

LEMMA DropKeepsLocks ==
  ASSUME NEW i, jobs' = Drop(jobs, i)
  PROVE  LocksStay
BY DEF Drop, Restrict, LocksStay

LEMMA AddJobKeepsLocks ==
  ASSUME TypeOK,
         NEW q \in Queues \cup {None}, NEW k \in Keys \cup {None},
         NEW d \in Delays, NEW m \in 1 .. MaxAttempts, NEW mode \in Modes,
         AddJob(q, k, d, m, mode)
  PROVE  LocksStay
<1> DEFINE c == adds + 1
<1>1. c \notin DOMAIN jobs
  BY DEF AddJob, TypeOK
<1>. HIDE DEF c
<1>2. ASSUME AddNew(c, q, k, d, m) PROVE LocksStay
  BY <1>1, <1>2 DEF AddNew, Put, LocksStay
<1>3. ASSUME NEW i \in Holders(k), AddReplace(i, c, q, k, d, m, mode) PROVE LocksStay
  <2>1. /\ i \in DOMAIN jobs /\ jobs[i].lockedBy = None
        /\ \E r : jobs' = [jobs EXCEPT ![i] = r]
    BY <1>3 DEF AddReplace, Holders
  <2>. QED  BY <2>1, WriteKeepsLock
<1>4. ASSUME NEW i \in Holders(k), AddSupersede(i, c, q, k, d, m, mode) PROVE LocksStay
  <2> DEFINE js == [jobs EXCEPT ![i] = Retired(jobs[i])]
             new == NewRow(c, q, k, d, m)
  <2>1. i \in DOMAIN jobs /\ jobs' = Put(js, c, new)
    BY <1>4 DEF AddSupersede, Holders
  <2>2. SameLock(Retired(jobs[i]), jobs[i])
    BY <2>1, JobFields DEF TypeOK
  <2>3. /\ DOMAIN js = DOMAIN jobs
        /\ \A j \in DOMAIN jobs : js[j].lockedBy = jobs[j].lockedBy
    BY <2>1, <2>2 DEF TypeOK, SameLock
  <2>. HIDE DEF js, new
  <2>. QED  BY <1>1, <2>1, <2>3 DEF Put, LocksStay
<1>5. ASSUME AddDuplicate(c, k, mode) PROVE LocksStay
  BY <1>5 DEF AddDuplicate, LocksStay
<1>. QED  BY <1>2, <1>3, <1>4, <1>5 DEF AddJob, c

LEMMA ClientKeepsLocks ==
  ASSUME TypeOK, ClientNext
  PROVE  LocksStay
<1>1. jobs' = jobs => LocksStay
  BY DEF LocksStay
<1>2. ASSUME NEW k \in Keys, RemoveUnlocked(k) \/ RemoveLocked(k) PROVE LocksStay
  <2>1. ASSUME NEW i \in Holders(k), jobs' = [jobs EXCEPT ![i] = Retired(jobs[i])]
        PROVE  LocksStay
    <3>1. i \in DOMAIN jobs /\ SameLock(Retired(jobs[i]), jobs[i])
      BY JobFields DEF Holders, TypeOK
    <3>. QED  BY <2>1, <3>1, WriteKeepsLock DEF SameLock
  <2>. QED  BY <1>1, <1>2, <2>1, DropKeepsLocks DEF RemoveUnlocked, RemoveLocked, DeleteJob
<1>3. ASSUME NEW i \in DOMAIN jobs, CompleteJobs(i) PROVE LocksStay
  BY <1>3, DropKeepsLocks DEF CompleteJobs, DeleteJob
<1>4. ASSUME NEW i \in DOMAIN jobs, PermanentlyFailJobs(i) PROVE LocksStay
  <2> DEFINE r == [jobs[i] EXCEPT !.attempts = jobs[i].max]
  <2>1. r.lockedBy = jobs[i].lockedBy
    BY DEF TypeOK, Job
  <2>2. jobs' = [jobs EXCEPT ![i] = r]
    BY <1>4 DEF PermanentlyFailJobs
  <2>. HIDE DEF r
  <2>. QED  BY <2>1, <2>2, WriteKeepsLock
<1>5. ASSUME NEW i \in DOMAIN jobs, NEW d \in Delays, NEW a \in 0 .. MaxAttempts,
             NEW m \in 1 .. MaxAttempts, RescheduleJobs(i, d, a, m)
      PROVE  LocksStay
  <2> DEFINE r == Rescheduled(jobs[i], d, a, m)
  <2>1. r.lockedBy = jobs[i].lockedBy
    BY DEF TypeOK, Job, Rescheduled
  <2>2. jobs' = [jobs EXCEPT ![i] = r]
    BY <1>5 DEF RescheduleJobs
  <2>. HIDE DEF r
  <2>. QED  BY <2>1, <2>2, WriteKeepsLock
<1>6. ASSUME NEW q \in Queues \cup {None}, NEW k \in Keys \cup {None}, NEW d \in Delays,
             NEW m \in 1 .. MaxAttempts, NEW mode \in Modes, AddJob(q, k, d, m, mode)
      PROVE  LocksStay
  BY <1>6, AddJobKeepsLocks
<1>. QED  BY <1>2, <1>3, <1>4, <1>5, <1>6 DEF ClientNext

LEMMA OwnLocksNext ==
  ASSUME TypeOK, [Next]_vars
  PROVE  OwnLocksStep
<1>1. jobs' = jobs => LocksStay
  BY DEF LocksStay
<1>2. CASE UNCHANGED vars
  BY <1>1, <1>2, StayingIsOwn DEF vars
<1>3. CASE ClientNext
  BY <1>3, ClientKeepsLocks, StayingIsOwn
<1>4. ASSUME NEW w \in Workers, NEW i \in DOMAIN jobs, GetJob(w, i) PROVE OwnLocksStep
  <2>1. jobs[i].lockedBy = None /\ jobs' = [jobs EXCEPT ![i] = Fetched(jobs[i], w)]
    BY <1>4 DEF GetJob, Eligible
  <2>. QED  BY <2>1, WriteKeepsLock, StayingIsOwn
<1>5. ASSUME NEW w \in Workers, CompleteJob(w) PROVE OwnLocksStep
  <2>1. jobs' = jobs \/ jobs' = Drop(jobs, run[w].job)
    BY <1>5 DEF CompleteJob
  <2>2. CASE jobs' = jobs
    BY <1>1, <2>2, StayingIsOwn
  <2>3. CASE jobs' = Drop(jobs, run[w].job)
    BY <2>3, DropKeepsLocks, StayingIsOwn
  <2>. QED  BY <2>1, <2>2, <2>3
<1>6. ASSUME NEW w \in Workers, FailJob(w) PROVE OwnLocksStep
  <2> DEFINE i == run[w].job
  <2>1. run'[w] = Idle
    BY <1>6 DEF FailJob, TypeOK
  <2>2. \/ jobs' = jobs
        \/ /\ i \in DOMAIN jobs /\ jobs[i].lockedBy = w
           /\ jobs' = [jobs EXCEPT ![i] = Failed(jobs[i])]
    BY <1>6 DEF FailJob
  <2>3. CASE jobs' = jobs
    BY <1>1, <2>3, StayingIsOwn
  <2>4. CASE /\ i \in DOMAIN jobs /\ jobs[i].lockedBy = w
             /\ jobs' = [jobs EXCEPT ![i] = Failed(jobs[i])]
    <3>1. \A j \in DOMAIN jobs : j # i => jobs'[j] = jobs[j]
      BY <2>4 DEF TypeOK
    <3>. QED  BY <2>1, <2>4, <3>1 DEF OwnLocksStep, Unlocks
  <2>. QED  BY <2>2, <2>3, <2>4
<1>7. ASSUME NEW w \in Workers, Abandon(w) \/ Crash(w) PROVE OwnLocksStep
  BY <1>1, <1>7, StayingIsOwn DEF Abandon, Crash
<1>8. CASE ResetLocked
  <2>1. /\ \A i \in DOMAIN jobs : jobs[i] \in Job
        /\ \A i \in DOMAIN jobs : jobs'[i] = Release(jobs[i])
    BY <1>8 DEF ResetLocked, TypeOK
  <2>2. \A i \in DOMAIN jobs : \/ jobs[i].age > Expiry
                               \/ jobs'[i].lockedBy = jobs[i].lockedBy
    BY <2>1 DEF Release
  <2>. QED  BY <2>2, StayingIsOwn DEF LocksStay
<1>9. CASE Tick
  <2>1. /\ \A i \in DOMAIN jobs : jobs[i] \in Job
        /\ \A i \in DOMAIN jobs : jobs'[i] = Sooner(AgeRow(jobs[i]))
    BY <1>9 DEF Tick, TypeOK
  <2>2. \A i \in DOMAIN jobs : jobs'[i].lockedBy = jobs[i].lockedBy
    BY <2>1, JobFields
  <2>. QED  BY <2>2, StayingIsOwn DEF LocksStay
<1>. QED  BY <1>2, <1>3, <1>4, <1>5, <1>6, <1>7, <1>8, <1>9 DEF Next, WorkerNext

\* A lock goes only when its own worker ends, or when it is old.
THEOREM LocksOnlyByOwner == Spec => OwnLocksOnly
<1>1. TypeOK /\ [Next]_vars => OwnLocksStep
  BY OwnLocksNext
<1>. QED  BY <1>1, TypeCorrect, PTL DEF OwnLocksOnly, OwnLocksStep, Spec

(***************************************************************************)
(* Open payloads stay in the table.                                        *)
(***************************************************************************)
Listed(c) == \E i \in DOMAIN jobs : jobs[i].payload = c

LEMMA DropLosesNone ==
  ASSUME TypeOK, NothingLost, NEW i \in DOMAIN jobs, NEW f,
         jobs' = Drop(jobs, i), fate' = [fate EXCEPT ![jobs[i].payload] = f], f # "open"
  PROVE  NothingLost'
<1>1. /\ DOMAIN jobs' = DOMAIN jobs \ {i}
      /\ \A j \in DOMAIN jobs' : jobs'[j] = jobs[j]
  BY DEF Drop, Restrict
<1>2. /\ fate'[jobs[i].payload] # "open"
      /\ \A c \in Calls : c # jobs[i].payload => fate'[c] = fate[c]
  BY DEF TypeOK, Job
<1>3. ASSUME NEW c \in Calls, fate'[c] = "open"
      PROVE  \E j \in DOMAIN jobs' : jobs'[j].payload = c
  <2>1. fate[c] = "open" /\ c # jobs[i].payload
    BY <1>2, <1>3
  <2>2. PICK j \in DOMAIN jobs : jobs[j].payload = c
    BY <2>1 DEF NothingLost
  <2>. QED  BY <1>1, <2>1, <2>2
<1>. QED  BY <1>3 DEF NothingLost

\* A statement that keeps the rows and their payloads and settles nothing but
\* the payload of one of them.
LEMMA WriteLosesNone ==
  ASSUME NothingLost, DOMAIN jobs' = DOMAIN jobs,
         \A j \in DOMAIN jobs : jobs'[j].payload = jobs[j].payload,
         \A c \in Calls : fate'[c] = fate[c] \/ Listed(c)
  PROVE  NothingLost'
<1>1. \A c \in Calls : Listed(c) => \E j \in DOMAIN jobs' : jobs'[j].payload = c
  BY DEF Listed
<1>. QED  BY <1>1 DEF NothingLost, Listed

LEMMA AddJobLosesNone ==
  ASSUME TypeOK, NothingLost,
         NEW q \in Queues \cup {None}, NEW k \in Keys \cup {None},
         NEW d \in Delays, NEW m \in 1 .. MaxAttempts, NEW mode \in Modes,
         AddJob(q, k, d, m, mode)
  PROVE  NothingLost'
<1> DEFINE c == adds + 1
<1>1. c \notin DOMAIN jobs /\ c \in Calls
  BY DEF AddJob, TypeOK, Calls
<1>2. \A dd : NewRow(c, q, k, dd, m).payload = c
  BY DEF NewRow
<1>. HIDE DEF c
<1>3. SUFFICES ASSUME NEW p \in Calls, fate'[p] = "open"
               PROVE  \E j \in DOMAIN jobs' : jobs'[j].payload = p
  BY DEF NothingLost
<1>4. ASSUME AddNew(c, q, k, d, m) PROVE \E j \in DOMAIN jobs' : jobs'[j].payload = p
  <2> DEFINE new == NewRow(c, q, k, d, m)
  <2>1. jobs' = Put(jobs, c, new) /\ new.payload = c /\ fate' = [fate EXCEPT ![c] = "open"]
    BY <1>2, <1>4 DEF AddNew
  <2>. HIDE DEF new
  <2>2. /\ c \in DOMAIN jobs' /\ jobs'[c].payload = c
        /\ \A j \in DOMAIN jobs : j \in DOMAIN jobs' /\ jobs'[j] = jobs[j]
    BY <1>1, <2>1 DEF Put
  <2>3. p = c \/ fate[p] = "open"
    BY <1>3, <2>1 DEF TypeOK
  <2>. QED  BY <2>2, <2>3 DEF NothingLost
<1>5. ASSUME NEW i \in Holders(k), AddReplace(i, c, q, k, d, m, mode)
      PROVE  \E j \in DOMAIN jobs' : jobs'[j].payload = p
  <2> DEFINE dd == IF mode = "preserve_run_at" /\ jobs[i].attempts = 0
                   THEN jobs[i].delay ELSE d
             new == NewRow(c, q, k, dd, m)
  <2>1. /\ i \in DOMAIN jobs /\ jobs' = [jobs EXCEPT ![i] = new] /\ new.payload = c
        /\ fate' = [fate EXCEPT ![c] = "open", ![jobs[i].payload] = "dropped"]
    BY <1>2, <1>5 DEF AddReplace, Holders
  <2>. HIDE DEF new
  <2>2. /\ i \in DOMAIN jobs' /\ jobs'[i].payload = c
        /\ \A j \in DOMAIN jobs : j # i => j \in DOMAIN jobs' /\ jobs'[j] = jobs[j]
    BY <2>1 DEF TypeOK
  <2>3. p = c \/ (fate[p] = "open" /\ p # jobs[i].payload)
    BY <1>3, <2>1 DEF TypeOK, Job
  <2>. QED  BY <2>1, <2>2, <2>3 DEF NothingLost
<1>6. ASSUME NEW i \in Holders(k), AddSupersede(i, c, q, k, d, m, mode)
      PROVE  \E j \in DOMAIN jobs' : jobs'[j].payload = p
  <2> DEFINE new == NewRow(c, q, k, d, m)
             js == [jobs EXCEPT ![i] = Retired(jobs[i])]
  <2>1. /\ i \in DOMAIN jobs /\ jobs' = Put(js, c, new) /\ new.payload = c
        /\ fate' = [fate EXCEPT ![c] = "open", ![jobs[i].payload] = "dropped"]
    BY <1>2, <1>6 DEF AddSupersede, Holders
  <2>. HIDE DEF new
  <2>2. DOMAIN js = DOMAIN jobs /\ \A j \in DOMAIN jobs : j # i => js[j] = jobs[j]
    BY <2>1 DEF TypeOK
  <2>. HIDE DEF js
  <2>3. /\ c \in DOMAIN jobs' /\ jobs'[c].payload = c
        /\ \A j \in DOMAIN jobs : j # i => j \in DOMAIN jobs' /\ jobs'[j] = jobs[j]
    BY <1>1, <2>1, <2>2 DEF Put
  <2>4. p = c \/ (fate[p] = "open" /\ p # jobs[i].payload)
    BY <1>3, <2>1 DEF TypeOK, Job
  <2>. QED  BY <2>1, <2>3, <2>4 DEF NothingLost
<1>7. ASSUME AddDuplicate(c, k, mode) PROVE \E j \in DOMAIN jobs' : jobs'[j].payload = p
  <2>1. jobs' = jobs /\ fate' = [fate EXCEPT ![c] = "dropped"]
    BY <1>7 DEF AddDuplicate
  <2>2. fate[p] = "open"
    BY <1>1, <1>3, <2>1 DEF TypeOK
  <2>. QED  BY <2>1, <2>2 DEF NothingLost
<1>. QED  BY <1>4, <1>5, <1>6, <1>7 DEF AddJob, c

LEMMA NextLosesNone ==
  ASSUME MaxRun <= Expiry, LeasedInv, NothingLost, Next
  PROVE  NothingLost'
<1>. TypeOK
  BY DEF LeasedInv, LockInv
<1>1. jobs' = jobs /\ fate' = fate => NothingLost'
  BY DEF NothingLost
<1>2. \A i \in DOMAIN jobs : jobs[i] \in Job
  BY DEF TypeOK
<1>3. ASSUME NEW i \in DOMAIN jobs, NEW r, jobs' = [jobs EXCEPT ![i] = r],
             r.payload = jobs[i].payload, NEW f,
             fate' = fate \/ fate' = [fate EXCEPT ![jobs[i].payload] = f]
      PROVE  NothingLost'
  <2>1. /\ DOMAIN jobs' = DOMAIN jobs
        /\ \A j \in DOMAIN jobs : jobs'[j].payload = jobs[j].payload
    BY <1>3 DEF TypeOK
  <2>2. \A c \in Calls : c # jobs[i].payload => fate'[c] = fate[c]
    BY <1>3 DEF TypeOK
  <2>3. \A c \in Calls : fate'[c] = fate[c] \/ Listed(c)
    BY <2>2 DEF Listed
  <2>. QED  BY <2>1, <2>3, WriteLosesNone
<1>4. ASSUME NEW k \in Keys, RemoveUnlocked(k) \/ RemoveLocked(k) PROVE NothingLost'
  <2>1. ASSUME NEW i \in Holders(k), jobs' = Drop(jobs, i),
               fate' = [fate EXCEPT ![jobs[i].payload] = "dropped"]
        PROVE  NothingLost'
    BY <2>1, DropLosesNone DEF Holders
  <2>2. ASSUME NEW i \in Holders(k), jobs' = [jobs EXCEPT ![i] = Retired(jobs[i])],
               fate' = [fate EXCEPT ![jobs[i].payload] = "dropped"]
        PROVE  NothingLost'
    <3>1. i \in DOMAIN jobs /\ Same(Retired(jobs[i]), jobs[i])
      BY <1>2, JobFields DEF Holders
    <3>. QED  BY <1>3, <2>2, <3>1 DEF Same
  <2>. QED  BY <1>1, <1>4, <2>1, <2>2 DEF RemoveUnlocked, RemoveLocked, DeleteJob
<1>5. ASSUME NEW i \in DOMAIN jobs, CompleteJobs(i) PROVE NothingLost'
  BY <1>5, DropLosesNone DEF CompleteJobs, DeleteJob
<1>6. ASSUME NEW i \in DOMAIN jobs, PermanentlyFailJobs(i) PROVE NothingLost'
  <2> DEFINE r == [jobs[i] EXCEPT !.attempts = jobs[i].max]
  <2>1. r.payload = jobs[i].payload
    BY <1>2 DEF Job
  <2>2. /\ jobs' = [jobs EXCEPT ![i] = r]
        /\ fate' = [fate EXCEPT ![jobs[i].payload] = "dropped"]
    BY <1>6 DEF PermanentlyFailJobs
  <2>. HIDE DEF r
  <2>. QED  BY <1>3, <2>1, <2>2
<1>7. ASSUME NEW i \in DOMAIN jobs, NEW d \in Delays, NEW a \in 0 .. MaxAttempts,
             NEW m \in 1 .. MaxAttempts, RescheduleJobs(i, d, a, m)
      PROVE  NothingLost'
  <2> DEFINE r == Rescheduled(jobs[i], d, a, m)
  <2>1. r.payload = jobs[i].payload
    BY <1>2 DEF Job, Rescheduled
  <2>2. /\ jobs' = [jobs EXCEPT ![i] = r]
        /\ fate' = fate \/ fate' = [fate EXCEPT ![jobs[i].payload] = "open"]
    BY <1>7 DEF RescheduleJobs
  <2>. HIDE DEF r
  <2>. QED  BY <1>3, <2>1, <2>2
<1>8. ASSUME NEW w \in Workers, NEW i \in DOMAIN jobs, GetJob(w, i) PROVE NothingLost'
  <2>1. Same(Fetched(jobs[i], w), jobs[i])
    BY <1>2, JobFields
  <2>2. jobs' = [jobs EXCEPT ![i] = Fetched(jobs[i], w)] /\ fate' = fate
    BY <1>8 DEF GetJob
  <2>. QED  BY <1>3, <2>1, <2>2 DEF Same
<1>9. ASSUME NEW w \in Workers, FailJob(w), jobs' # jobs PROVE NothingLost'
  <2> DEFINE i == run[w].job
  <2>1. /\ i \in DOMAIN jobs /\ jobs' = [jobs EXCEPT ![i] = Failed(jobs[i])]
        /\ fate' = fate
    BY <1>9 DEF FailJob
  <2>2. Same(Failed(jobs[i]), jobs[i])
    BY <1>2, <2>1, JobFields
  <2>. QED  BY <1>3, <2>1, <2>2 DEF Same
<1>10. ASSUME NEW w \in Workers, CompleteJob(w) PROVE NothingLost'
  <2> DEFINE i == run[w].job
  <2>1. i # 0 /\ run[w].age <= MaxRun
    BY <1>10 DEF CompleteJob, LeasedInv, RunsBounded, Executing
  <2>2. run[w].age \in Nat
    BY DEF TypeOK, Run, Ages
  <2>3. LeaseFresh(w)
    BY <2>1, <2>2 DEF LeaseFresh, Executing
  <2>4. i \in DOMAIN jobs /\ jobs[i].payload = run[w].payload
    BY <2>3 DEF LeasedInv, LockInv, RowKept, LeaseHolds
  <2>5. /\ jobs' = Drop(jobs, i)
        /\ fate' = [fate EXCEPT ![jobs[i].payload] = "done"]
    BY <1>10, <2>4 DEF CompleteJob
  <2>. QED  BY <2>4, <2>5, DropLosesNone
<1>11. ASSUME NEW w \in Workers, FailJob(w) \/ Abandon(w) \/ Crash(w), jobs' = jobs
       PROVE  NothingLost'
  BY <1>1, <1>11 DEF FailJob, Abandon, Crash
<1>12. ASSUME ResetLocked \/ Tick PROVE NothingLost'
  <2>1. /\ DOMAIN jobs' = DOMAIN jobs /\ fate' = fate
        /\ \A i \in DOMAIN jobs : \/ jobs'[i] = Release(jobs[i])
                                  \/ jobs'[i] = Sooner(AgeRow(jobs[i]))
    BY <1>12 DEF ResetLocked, Tick
  <2>2. \A i \in DOMAIN jobs : jobs'[i].payload = jobs[i].payload
    BY <1>2, <2>1, SweepFields
  <2>. QED  BY <2>1, <2>2, WriteLosesNone
<1>13. ASSUME NEW q \in Queues \cup {None}, NEW k \in Keys \cup {None}, NEW d \in Delays,
              NEW m \in 1 .. MaxAttempts, NEW mode \in Modes, AddJob(q, k, d, m, mode)
       PROVE  NothingLost'
  BY <1>13, AddJobLosesNone
<1>14. ASSUME NEW w \in Workers, WorkerNext(w) PROVE NothingLost'
  BY <1>8, <1>9, <1>10, <1>11, <1>14 DEF WorkerNext, Abandon, Crash
<1>15. ASSUME ClientNext PROVE NothingLost'
  BY <1>4, <1>5, <1>6, <1>7, <1>13, <1>15 DEF ClientNext
<1>. QED  BY <1>12, <1>14, <1>15 DEF Next

\* When every execution ends within its lock, what a client asked for and did
\* not withdraw is in the table until a worker has worked on it.
THEOREM OpenIsListed ==
  ASSUME MaxRun <= Expiry
  PROVE  Spec => []NothingLost
<1>1. Init => NothingLost
  BY DEF Init, NothingLost
<1>2. LeasedInv /\ NothingLost /\ [Next]_vars => NothingLost'
  <2>1. UNCHANGED vars /\ NothingLost => NothingLost'
    BY DEF vars, NothingLost
  <2>. QED  BY <2>1, NextLosesNone
<1>. QED  BY <1>1, <1>2, LeasedHolds, PTL DEF Spec

(***************************************************************************)
(* The tables implement the ledger.                                        *)
(***************************************************************************)
\* The value of the ledger's "working".
Reserved == {jobs[i].payload : i \in {j \in DOMAIN jobs : jobs[j].lockedBy # None}}

LedgerStep == [Ledger!Next]_(Ledger!ledgerVars)

\* The steps of the ledger, in terms of fate and Reserved.
LEMMA LedgerReturn ==
  ASSUME Reserved' \subseteq Reserved, fate' = fate
  PROVE  LedgerStep
<1>1. CASE Reserved' = Reserved
  BY <1>1 DEF LedgerStep, Ledger!ledgerVars, Reserved
<1>2. CASE Reserved' # Reserved
  <2> DEFINE S == Reserved \ Reserved'
  <2>1. S \in (SUBSET Reserved) \ {{}} /\ Reserved' = Reserved \ S
    BY <1>2
  <2>2. Ledger!Return
    BY <2>1 DEF Ledger!Return, Reserved
  <2>. QED  BY <2>2 DEF LedgerStep, Ledger!Next
<1>. QED  BY <1>1, <1>2

LEMMA LedgerWithdraw ==
  ASSUME NEW p \in Calls, fate[p] \in {"open", "dropped"},
         fate' = [fate EXCEPT ![p] = "dropped"],
         Reserved' = Reserved \/ Reserved' = Reserved \ {p}
  PROVE  LedgerStep
<1>1. Ledger!Withdraw(p)
  BY DEF Ledger!Withdraw, Reserved
<1>. QED  BY <1>1 DEF LedgerStep, Ledger!Next

LEMMA LedgerReopen ==
  ASSUME TypeOK, NEW p \in Calls, fate[p] \in {"open", "dropped"},
         fate' = [fate EXCEPT ![p] = "open"], Reserved' = Reserved
  PROVE  LedgerStep
<1>1. CASE fate[p] = "dropped"
  <2>1. Ledger!Reopen(p)
    BY <1>1 DEF Ledger!Reopen, Reserved
  <2>. QED  BY <2>1 DEF LedgerStep, Ledger!Next
<1>2. CASE fate[p] = "open"
  <2>1. fate' = fate
    BY <1>2 DEF TypeOK
  <2>. QED  BY <2>1, LedgerReturn
<1>. QED  BY <1>1, <1>2

LEMMA LedgerStart ==
  ASSUME NEW p \in Calls, fate[p] = "open", p \notin Reserved,
         Reserved' = Reserved \cup {p}, fate' = fate
  PROVE  LedgerStep
<1>1. Ledger!Start(p)
  BY DEF Ledger!Start, Reserved
<1>. QED  BY <1>1 DEF LedgerStep, Ledger!Next

LEMMA LedgerFinish ==
  ASSUME NEW p \in Calls, p \in Reserved, fate[p] \in {"open", "dropped"},
         Reserved' = Reserved \ {p}, fate' = [fate EXCEPT ![p] = "done"]
  PROVE  LedgerStep
<1>1. Ledger!Finish(p)
  BY DEF Ledger!Finish, Reserved
<1>. QED  BY <1>1 DEF LedgerStep, Ledger!Next

LEMMA LedgerSubmit ==
  ASSUME NEW c \in Calls, fate[c] = "unused", Reserved' = Reserved,
         \/ fate' = [fate EXCEPT ![c] = "open"]
         \/ \E r \in Calls : /\ fate[r] = "open"
                             /\ fate' = [fate EXCEPT ![c] = "open", ![r] = "dropped"]
  PROVE  LedgerStep
<1>1. Ledger!Submit(c)
  BY DEF Ledger!Submit, Reserved
<1>. QED  BY <1>1 DEF LedgerStep, Ledger!Next

LEMMA LedgerDuplicate ==
  ASSUME NEW c \in Calls, fate[c] = "unused", Reserved' = Reserved,
         fate' = [fate EXCEPT ![c] = "dropped"]
  PROVE  LedgerStep
<1>1. Ledger!Duplicate(c)
  BY DEF Ledger!Duplicate, Reserved
<1>. QED  BY <1>1 DEF LedgerStep, Ledger!Next

\* What the statements do to Reserved.
LEMMA ReservedWhole ==
  ASSUME DOMAIN jobs' = DOMAIN jobs,
         \A i \in DOMAIN jobs : /\ jobs'[i].payload = jobs[i].payload
                                /\ jobs'[i].lockedBy = None <=> jobs[i].lockedBy = None
  PROVE  Reserved' = Reserved
BY DEF Reserved

LEMMA ReservedShrinks ==
  ASSUME DOMAIN jobs' = DOMAIN jobs,
         \A i \in DOMAIN jobs : /\ jobs'[i].payload = jobs[i].payload
                                /\ jobs[i].lockedBy = None => jobs'[i].lockedBy = None
  PROVE  Reserved' \subseteq Reserved
BY DEF Reserved

LEMMA ReservedDrop ==
  ASSUME PayloadInv, NEW i \in DOMAIN jobs, jobs' = Drop(jobs, i)
  PROVE  Reserved' = Reserved \ {jobs[i].payload}
<1>1. /\ DOMAIN jobs' = DOMAIN jobs \ {i}
      /\ \A j \in DOMAIN jobs' : jobs'[j] = jobs[j]
  BY DEF Drop, Restrict
<1>2. \A j \in DOMAIN jobs : jobs[j].payload = jobs[i].payload => j = i
  BY DEF PayloadInv
<1>. QED  BY <1>1, <1>2 DEF Reserved

(***************************************************************************)
(* Calls that have not been made are unused.                               *)
(***************************************************************************)
Unmade == \A c \in Calls : c > adds => fate[c] = "unused"
FateStep == \A c \in Calls : fate'[c] = fate[c] \/ c <= adds'

LEMMA UnmadeStays ==
  ASSUME TypeOK, TypeOK', Unmade, adds <= adds', FateStep
  PROVE  Unmade'
BY DEF TypeOK, Unmade, FateStep, Calls

LEMMA FateOfRow ==
  ASSUME TypeOK, TypeOK', PayloadInv, Next, NEW i \in DOMAIN jobs, NEW f,
         fate' = [fate EXCEPT ![jobs[i].payload] = f]
  PROVE  FateStep
<1>1. adds \in Nat /\ adds' \in Nat /\ adds <= adds' /\ Calls \subseteq Nat
  BY AddsGrow DEF TypeOK, Calls
<1>2. jobs[i].payload <= adds /\ jobs[i].payload \in Calls
  BY DEF PayloadInv, TypeOK, Job
<1>. QED  BY <1>1, <1>2 DEF FateStep, TypeOK

\* What a step of the queue is to the ledger.
Implements == LedgerStep /\ FateStep

LedgerInv == LeasedInv /\ FateInv /\ Unmade

LEMMA AddJobImplements ==
  ASSUME TypeOK', LedgerInv, Next,
         NEW q \in Queues \cup {None}, NEW k \in Keys \cup {None},
         NEW d \in Delays, NEW m \in 1 .. MaxAttempts, NEW mode \in Modes,
         AddJob(q, k, d, m, mode)
  PROVE  Implements
<1>. TypeOK /\ PayloadInv /\ RowsUndone /\ Unmade
  BY DEF LedgerInv, LeasedInv, LockInv, FateInv
<1> DEFINE c == adds + 1
<1>1. c \notin DOMAIN jobs /\ c \in Calls /\ adds' = c /\ fate[c] = "unused"
  BY DEF AddJob, TypeOK, Calls, Unmade
<1>2. \A j \in DOMAIN jobs : jobs[j].payload \in Calls /\ jobs[j].payload # c
  BY DEF TypeOK, Job, Calls, PayloadInv
<1>3. c \in Nat /\ \A j \in DOMAIN jobs : jobs[j].payload <= c
  BY <1>2 DEF TypeOK, Calls, PayloadInv
<1>4. /\ \A dd : /\ NewRow(c, q, k, dd, m).payload = c
                 /\ NewRow(c, q, k, dd, m).lockedBy = None
  BY DEF NewRow
<1>. HIDE DEF c
<1>5. ASSUME AddNew(c, q, k, d, m) PROVE Implements
  <2> DEFINE new == NewRow(c, q, k, d, m)
  <2>1. /\ jobs' = Put(jobs, c, new) /\ new.lockedBy = None
        /\ fate' = [fate EXCEPT ![c] = "open"]
    BY <1>4, <1>5 DEF AddNew
  <2>. HIDE DEF new
  <2>2. /\ DOMAIN jobs' = DOMAIN jobs \cup {c} /\ jobs'[c] = new
        /\ \A j \in DOMAIN jobs : jobs'[j] = jobs[j]
    BY <1>1, <2>1 DEF Put
  <2>3. Reserved' = Reserved
    BY <1>1, <2>1, <2>2 DEF Reserved
  <2>4. FateStep
    BY <1>1, <1>3, <2>1 DEF FateStep, TypeOK
  <2>. QED  BY <1>1, <2>1, <2>3, <2>4, LedgerSubmit DEF Implements
<1>6. ASSUME NEW i \in Holders(k), AddReplace(i, c, q, k, d, m, mode) PROVE Implements
  <2> DEFINE dd == IF mode = "preserve_run_at" /\ jobs[i].attempts = 0
                   THEN jobs[i].delay ELSE d
             new == NewRow(c, q, k, dd, m)
             r == jobs[i].payload
  <2>1. /\ i \in DOMAIN jobs /\ jobs[i].lockedBy = None
        /\ jobs' = [jobs EXCEPT ![i] = new] /\ new.lockedBy = None
        /\ fate' = [fate EXCEPT ![c] = "open", ![r] = "dropped"]
    BY <1>4, <1>6 DEF AddReplace, Holders
  <2>. HIDE DEF new
  <2>2. /\ DOMAIN jobs' = DOMAIN jobs /\ jobs'[i] = new
        /\ \A j \in DOMAIN jobs : j # i => jobs'[j] = jobs[j]
    BY <2>1 DEF TypeOK
  <2>3. Reserved' = Reserved
    BY <2>1, <2>2 DEF Reserved
  <2>4. r \in Calls /\ r # c /\ r <= c /\ fate[r] \in {"open", "dropped"}
    BY <1>2, <1>3, <2>1 DEF RowsUndone
  <2>. HIDE DEF r
  <2>5. FateStep
    BY <1>1, <1>3, <2>1, <2>4 DEF FateStep, TypeOK
  <2>6. fate[r] = "dropped" => fate' = [fate EXCEPT ![c] = "open"]
    BY <1>1, <2>1, <2>4 DEF TypeOK
  <2>. QED  BY <1>1, <2>1, <2>3, <2>4, <2>5, <2>6, LedgerSubmit DEF Implements
<1>7. ASSUME NEW i \in Holders(k), AddSupersede(i, c, q, k, d, m, mode) PROVE Implements
  <2> DEFINE new == NewRow(c, q, k, d, m)
             js == [jobs EXCEPT ![i] = Retired(jobs[i])]
             r == jobs[i].payload
  <2>1. /\ i \in DOMAIN jobs /\ jobs' = Put(js, c, new) /\ new.lockedBy = None
        /\ fate' = [fate EXCEPT ![c] = "open", ![r] = "dropped"]
    BY <1>4, <1>7 DEF AddSupersede, Holders
  <2>. HIDE DEF new
  <2>2. Same(Retired(jobs[i]), jobs[i]) /\ SameLock(Retired(jobs[i]), jobs[i])
    BY <2>1, JobFields DEF TypeOK
  <2>3. /\ DOMAIN js = DOMAIN jobs
        /\ \A j \in DOMAIN jobs : js[j].payload = jobs[j].payload
        /\ \A j \in DOMAIN jobs : js[j].lockedBy = jobs[j].lockedBy
    BY <2>1, <2>2 DEF TypeOK, Same, SameLock
  <2>. HIDE DEF js
  <2>4. /\ DOMAIN jobs' = DOMAIN jobs \cup {c} /\ jobs'[c] = new
        /\ \A j \in DOMAIN jobs : jobs'[j] = js[j]
    BY <1>1, <2>1, <2>3 DEF Put
  <2>5. Reserved' = Reserved
    BY <1>1, <2>1, <2>3, <2>4 DEF Reserved
  <2>6. r \in Calls /\ r # c /\ r <= c /\ fate[r] \in {"open", "dropped"}
    BY <1>2, <1>3, <2>1 DEF RowsUndone
  <2>. HIDE DEF r
  <2>7. FateStep
    BY <1>1, <1>3, <2>1, <2>6 DEF FateStep, TypeOK
  <2>8. fate[r] = "dropped" => fate' = [fate EXCEPT ![c] = "open"]
    BY <1>1, <2>1, <2>6 DEF TypeOK
  <2>. QED  BY <1>1, <2>1, <2>5, <2>6, <2>7, <2>8, LedgerSubmit DEF Implements
<1>8. ASSUME AddDuplicate(c, k, mode) PROVE Implements
  <2>1. jobs' = jobs /\ fate' = [fate EXCEPT ![c] = "dropped"]
    BY <1>8 DEF AddDuplicate
  <2>2. Reserved' = Reserved
    BY <2>1 DEF Reserved
  <2>3. FateStep
    BY <1>1, <1>3, <2>1 DEF FateStep, TypeOK
  <2>. QED  BY <1>1, <2>1, <2>2, <2>3, LedgerDuplicate DEF Implements
<1>. QED  BY <1>5, <1>6, <1>7, <1>8 DEF AddJob, c

LEMMA ClientImplements ==
  ASSUME TypeOK', LedgerInv, Next, ClientNext
  PROVE  Implements
<1>. TypeOK /\ PayloadInv /\ RowsUndone
  BY DEF LedgerInv, LeasedInv, LockInv, FateInv
<1>1. \A i \in DOMAIN jobs : /\ jobs[i] \in Job /\ jobs[i].payload \in Calls
                             /\ fate[jobs[i].payload] \in {"open", "dropped"}
  BY DEF TypeOK, Job, RowsUndone
<1>2. ASSUME jobs' = jobs, fate' = fate PROVE Implements
  <2>1. Reserved' = Reserved
    BY <1>2 DEF Reserved
  <2>. QED  BY <1>2, <2>1, LedgerReturn DEF Implements, FateStep
\* a row is deleted
<1>3. ASSUME NEW i \in DOMAIN jobs, jobs' = Drop(jobs, i),
             fate' = [fate EXCEPT ![jobs[i].payload] = "dropped"]
      PROVE  Implements
  <2>1. Reserved' = Reserved \ {jobs[i].payload}
    BY <1>3, ReservedDrop
  <2>2. FateStep
    BY <1>3, FateOfRow
  <2>. QED  BY <1>1, <1>3, <2>1, <2>2, LedgerWithdraw DEF Implements
\* a row is closed or opened again
<1>4. ASSUME NEW i \in DOMAIN jobs, NEW r, jobs' = [jobs EXCEPT ![i] = r],
             r.payload = jobs[i].payload, r.lockedBy = jobs[i].lockedBy,
             \/ fate' = [fate EXCEPT ![jobs[i].payload] = "dropped"]
             \/ fate' = [fate EXCEPT ![jobs[i].payload] = "open"]
             \/ fate' = fate
      PROVE  Implements
  <2>1. /\ DOMAIN jobs' = DOMAIN jobs
        /\ \A j \in DOMAIN jobs : /\ jobs'[j].payload = jobs[j].payload
                                  /\ jobs'[j].lockedBy = jobs[j].lockedBy
    BY <1>4 DEF TypeOK
  <2>2. Reserved' = Reserved
    BY <2>1, ReservedWhole
  <2>3. FateStep
    BY <1>4, FateOfRow DEF FateStep
  <2>4. LedgerStep
    BY <1>1, <1>4, <2>2, LedgerWithdraw, LedgerReopen, LedgerReturn
  <2>. QED  BY <2>3, <2>4 DEF Implements
<1>5. ASSUME NEW k \in Keys, RemoveUnlocked(k) \/ RemoveLocked(k) PROVE Implements
  <2>1. ASSUME NEW i \in Holders(k), jobs' = Drop(jobs, i),
               fate' = [fate EXCEPT ![jobs[i].payload] = "dropped"]
        PROVE  Implements
    BY <1>3, <2>1 DEF Holders
  <2>2. ASSUME NEW i \in Holders(k), jobs' = [jobs EXCEPT ![i] = Retired(jobs[i])],
               fate' = [fate EXCEPT ![jobs[i].payload] = "dropped"]
        PROVE  Implements
    <3>1. /\ i \in DOMAIN jobs /\ Same(Retired(jobs[i]), jobs[i])
          /\ SameLock(Retired(jobs[i]), jobs[i])
      BY <1>1, JobFields DEF Holders
    <3>. QED  BY <1>4, <2>2, <3>1 DEF Same, SameLock
  <2>. QED  BY <1>2, <1>5, <2>1, <2>2 DEF RemoveUnlocked, RemoveLocked, DeleteJob
<1>6. ASSUME NEW i \in DOMAIN jobs, CompleteJobs(i) PROVE Implements
  BY <1>3, <1>6 DEF CompleteJobs, DeleteJob
<1>7. ASSUME NEW i \in DOMAIN jobs, PermanentlyFailJobs(i) PROVE Implements
  <2> DEFINE r == [jobs[i] EXCEPT !.attempts = jobs[i].max]
  <2>1. r.payload = jobs[i].payload /\ r.lockedBy = jobs[i].lockedBy
    BY <1>1 DEF Job
  <2>2. /\ jobs' = [jobs EXCEPT ![i] = r]
        /\ fate' = [fate EXCEPT ![jobs[i].payload] = "dropped"]
    BY <1>7 DEF PermanentlyFailJobs
  <2>. HIDE DEF r
  <2>. QED  BY <1>4, <2>1, <2>2
<1>8. ASSUME NEW i \in DOMAIN jobs, NEW d \in Delays, NEW a \in 0 .. MaxAttempts,
             NEW m \in 1 .. MaxAttempts, RescheduleJobs(i, d, a, m)
      PROVE  Implements
  <2> DEFINE r == Rescheduled(jobs[i], d, a, m)
  <2>1. r.payload = jobs[i].payload /\ r.lockedBy = jobs[i].lockedBy
    BY <1>1 DEF Job, Rescheduled
  <2>2. /\ jobs' = [jobs EXCEPT ![i] = r]
        /\ fate' = fate \/ fate' = [fate EXCEPT ![jobs[i].payload] = "open"]
    BY <1>8 DEF RescheduleJobs
  <2>. HIDE DEF r
  <2>. QED  BY <1>4, <2>1, <2>2
<1>9. ASSUME NEW q \in Queues \cup {None}, NEW k \in Keys \cup {None}, NEW d \in Delays,
             NEW m \in 1 .. MaxAttempts, NEW mode \in Modes, AddJob(q, k, d, m, mode)
      PROVE  Implements
  BY <1>9, AddJobImplements
<1>. QED  BY <1>5, <1>6, <1>7, <1>8, <1>9 DEF ClientNext

LEMMA WorkerImplements ==
  ASSUME MaxRun <= Expiry, TypeOK', LedgerInv, Next, NEW w \in Workers, WorkerNext(w)
  PROVE  Implements
<1>. TypeOK /\ PayloadInv /\ RowsUndone
  BY DEF LedgerInv, LeasedInv, LockInv, FateInv
<1>1. \A i \in DOMAIN jobs : /\ jobs[i] \in Job /\ jobs[i].payload \in Calls
                             /\ fate[jobs[i].payload] \in {"open", "dropped"}
  BY DEF TypeOK, Job, RowsUndone
<1>2. ASSUME Reserved' \subseteq Reserved, fate' = fate PROVE Implements
  BY <1>2, LedgerReturn DEF Implements, FateStep
<1>3. jobs' = jobs => Reserved' \subseteq Reserved
  BY DEF Reserved
<1>4. ASSUME NEW i \in DOMAIN jobs, GetJob(w, i) PROVE Implements
  <2> DEFINE p == jobs[i].payload
  <2>1. /\ jobs[i].lockedBy = None /\ jobs[i].attempts < jobs[i].max
        /\ jobs' = [jobs EXCEPT ![i] = Fetched(jobs[i], w)] /\ fate' = fate
    BY <1>4 DEF GetJob, Eligible
  <2>2. Fetched(jobs[i], w).payload = p /\ Fetched(jobs[i], w).lockedBy = w
    BY <1>1, JobFields DEF Same
  <2>3. /\ DOMAIN jobs' = DOMAIN jobs
        /\ jobs'[i].payload = p /\ jobs'[i].lockedBy # None
        /\ \A j \in DOMAIN jobs : j # i => jobs'[j] = jobs[j]
    BY <2>1, <2>2 DEF TypeOK
  <2>4. \A j \in DOMAIN jobs : jobs[j].payload = p => j = i
    BY DEF PayloadInv
  <2>5. fate[p] = "open"
    <3>1. ~(jobs[i].attempts >= jobs[i].max)
      BY <1>1, <2>1 DEF Job
    <3>. QED  BY <3>1 DEF LedgerInv, FateInv, DroppedNeverStarts
  <2>6. p \in Calls
    BY <1>1
  <2>. HIDE DEF p
  <2>7. p \notin Reserved
    BY <2>1, <2>4 DEF Reserved
  <2>8. Reserved' = Reserved \cup {p}
    BY <2>1, <2>3 DEF Reserved, p
  <2>. QED  BY <2>1, <2>5, <2>6, <2>7, <2>8, LedgerStart DEF Implements, FateStep
<1>5. ASSUME CompleteJob(w) PROVE Implements
  <2> DEFINE i == run[w].job
             p == jobs[i].payload
  <2>1. i # 0 /\ run[w].age <= MaxRun
    BY <1>5 DEF CompleteJob, LedgerInv, LeasedInv, RunsBounded, Executing
  <2>2. run[w].age \in Nat
    BY DEF TypeOK, Run, Ages
  <2>3. LeaseFresh(w)
    BY <2>1, <2>2 DEF LeaseFresh, Executing
  <2>4. i \in DOMAIN jobs /\ p = run[w].payload /\ jobs[i].lockedBy = w
    BY <2>3 DEF LedgerInv, LeasedInv, LockInv, RowKept, LeaseHolds
  <2>5. jobs' = Drop(jobs, i) /\ fate' = [fate EXCEPT ![p] = "done"]
    BY <1>5, <2>4 DEF CompleteJob
  <2>6. FateStep
    BY <2>4, <2>5, FateOfRow
  <2>7. Reserved' = Reserved \ {p}
    BY <2>4, <2>5, ReservedDrop
  <2>8. p \in Calls /\ fate[p] \in {"open", "dropped"}
    BY <1>1, <2>4
  <2>9. p \in Reserved
    BY <2>4 DEF Reserved
  <2>. QED  BY <2>5, <2>6, <2>7, <2>8, <2>9, LedgerFinish DEF Implements
<1>6. ASSUME FailJob(w) PROVE Implements
  <2> DEFINE i == run[w].job
  <2>1. fate' = fate
    BY <1>6 DEF FailJob
  <2>2. CASE jobs' = jobs
    BY <1>2, <1>3, <2>1, <2>2
  <2>3. CASE jobs' # jobs
    <3>1. i \in DOMAIN jobs /\ jobs' = [jobs EXCEPT ![i] = Failed(jobs[i])]
      BY <1>6, <2>3 DEF FailJob
    <3>2. Same(Failed(jobs[i]), jobs[i]) /\ Failed(jobs[i]).lockedBy = None
      BY <1>1, <3>1, JobFields
    <3>3. /\ DOMAIN jobs' = DOMAIN jobs
          /\ jobs'[i].payload = jobs[i].payload /\ jobs'[i].lockedBy = None
          /\ \A j \in DOMAIN jobs : j # i => jobs'[j] = jobs[j]
      BY <3>1, <3>2 DEF TypeOK, Same
    <3>4. Reserved' \subseteq Reserved
      BY <3>1, <3>3, ReservedShrinks
    <3>. QED  BY <1>2, <2>1, <3>4
  <2>. QED  BY <2>2, <2>3
<1>7. ASSUME Abandon(w) \/ Crash(w) PROVE Implements
  BY <1>2, <1>3, <1>7 DEF Abandon, Crash
<1>. QED  BY <1>4, <1>5, <1>6, <1>7 DEF WorkerNext

LEMMA NextImplements ==
  ASSUME MaxRun <= Expiry, TypeOK', LedgerInv, Next
  PROVE  Implements
<1>1. ASSUME ResetLocked \/ Tick PROVE Implements
  <2>1. \A i \in DOMAIN jobs : jobs[i] \in Job
    BY DEF LedgerInv, LeasedInv, LockInv, TypeOK
  <2>2. /\ DOMAIN jobs' = DOMAIN jobs /\ fate' = fate
        /\ \A i \in DOMAIN jobs : \/ jobs'[i] = Release(jobs[i])
                                  \/ jobs'[i] = Sooner(AgeRow(jobs[i]))
    BY <1>1 DEF ResetLocked, Tick
  <2>3. ASSUME NEW i \in DOMAIN jobs
        PROVE  /\ jobs'[i].payload = jobs[i].payload
               /\ jobs[i].lockedBy = None => jobs'[i].lockedBy = None
    <3>1. CASE jobs'[i] = Release(jobs[i])
      BY <2>1, <3>1, JobFields DEF Same, SameLock
    <3>2. CASE jobs'[i] = Sooner(AgeRow(jobs[i]))
      BY <2>1, <3>2, JobFields DEF Same
    <3>. QED  BY <2>2, <3>1, <3>2
  <2>4. Reserved' \subseteq Reserved
    BY <2>2, <2>3, ReservedShrinks
  <2>. QED  BY <2>2, <2>4, LedgerReturn DEF Implements, FateStep
<1>. QED  BY <1>1, ClientImplements, WorkerImplements DEF Next

\* When every execution ends within its lock, the tables, the SQL functions and
\* the workers implement the ledger of payloads: they start open payloads only,
\* one execution at a time, and settle a payload only by work on it.
THEOREM ImplementsLedger ==
  ASSUME MaxRun <= Expiry
  PROVE  Spec => LedgerSpec
<1>1. Init => Ledger!Init /\ Unmade
  <2>. SUFFICES ASSUME Init PROVE Ledger!Init /\ Unmade
    OBVIOUS
  <2>1. DOMAIN jobs = {} /\ fate = [c \in Calls |-> "unused"]
    BY DEF Init
  <2>. QED  BY <2>1 DEF Ledger!Init, Unmade
<1>2. TypeOK /\ TypeOK' /\ LeasedInv /\ FateInv /\ Unmade /\ [Next]_vars
        => LedgerStep /\ Unmade'
  <2>. SUFFICES ASSUME TypeOK, TypeOK', LeasedInv, FateInv, Unmade, [Next]_vars
                PROVE  LedgerStep /\ Unmade'
    OBVIOUS
  <2>1. CASE UNCHANGED vars
    <3>1. Reserved' = Reserved /\ fate' = fate
      BY <2>1 DEF vars, Reserved
    <3>2. Unmade'
      BY <2>1 DEF vars, Unmade
    <3>. QED  BY <3>1, <3>2, LedgerReturn
  <2>2. CASE Next
    BY <2>2, NextImplements, AddsGrow, UnmadeStays DEF LedgerInv, Implements
  <2>. QED  BY <2>1, <2>2
<1>. QED  BY <1>1, <1>2, TypeCorrect, LeasedHolds, FateInvHolds, PTL
     DEF Spec, LedgerSpec, LedgerStep, Ledger!Spec

(***************************************************************************)
(* The tables and the workers keep the lease of JobLease.                  *)
(***************************************************************************)
LockedRows == {i \in DOMAIN jobs : jobs[i].lockedBy # None}
Held == [w \in Workers |-> IF run[w].job = 0 THEN {} ELSE {run[w].job}]
LeaseStep == [Lease!Next]_(Lease!leaseVars)
HeldLocked == \A w \in Workers : Held[w] \subseteq LockedRows

\* A worker that executes a job has locked its row.
LEMMA HeldAreLocked ==
  ASSUME MaxRun <= Expiry, LeasedInv
  PROVE  HeldLocked
<1>. SUFFICES ASSUME NEW w \in Workers, run[w].job # 0
              PROVE  run[w].job \in LockedRows
  BY DEF HeldLocked, Held
<1>1. run[w].age \in Nat /\ run[w].age <= MaxRun
  BY DEF LeasedInv, LockInv, TypeOK, Run, Ages, RunsBounded, Executing
<1>2. LeaseFresh(w)
  BY <1>1 DEF LeaseFresh, Executing
<1>3. run[w].job \in DOMAIN jobs /\ jobs[run[w].job].lockedBy = w
  BY <1>2 DEF LeasedInv, LockInv, RowKept, LeaseHolds
<1>. QED  BY <1>3 DEF LockedRows

\* The steps of the lease, in terms of LockedRows and Held.
LEMMA LeaseFree ==
  ASSUME HeldLocked', Held' = Held, LockedRows' \subseteq LockedRows
  PROVE  LeaseStep
<1>1. PICK S \in SUBSET LockedRows : S \cap LockedRows' = {} /\ LockedRows' = LockedRows \ S
  <2>1. LockedRows \ LockedRows' \in SUBSET LockedRows
    OBVIOUS
  <2>. QED  BY <2>1
<1>2. \A w \in Workers : Held[w] \cap S = {}
  BY <1>1 DEF HeldLocked
<1>3. Lease!Free(S)
  BY <1>1, <1>2 DEF Lease!Free, LockedRows, Held
<1>. QED  BY <1>1, <1>3 DEF LeaseStep, Lease!Next, LockedRows

LEMMA LeaseTake ==
  ASSUME NEW w \in Workers, NEW i \in Calls, Held[w] = {}, i \notin LockedRows,
         LockedRows' = LockedRows \cup {i}, Held' = [Held EXCEPT ![w] = {i}]
  PROVE  LeaseStep
<1>1. Lease!Take(w, i)
  BY DEF Lease!Take, Lease!Lock, LockedRows, Held
<1>. QED  BY <1>1 DEF LeaseStep, Lease!Next

LEMMA LeaseLetGo ==
  ASSUME NEW w \in Workers, Held[w] # {}, Held' = [Held EXCEPT ![w] = {}],
         LockedRows' \in {LockedRows, LockedRows \ Held[w]}
  PROVE  LeaseStep
<1>1. Lease!LetGo(w)
  BY DEF Lease!LetGo, LockedRows, Held
<1>. QED  BY <1>1 DEF LeaseStep, Lease!Next

\* A worker ends an execution, or dies.
LEMMA EndLease ==
  ASSUME LeasedInv, HeldLocked, HeldLocked', NEW w \in Workers,
         CompleteJob(w) \/ FailJob(w) \/ Abandon(w) \/ Crash(w)
  PROVE  LeaseStep
<1> DEFINE i == run[w].job
<1>. USE DEF LeasedInv, LockInv
<1>1. run' = [run EXCEPT ![w] = Idle] /\ run \in [Workers -> Run]
  BY DEF CompleteJob, FailJob, Abandon, Crash, TypeOK
<1>2. Held' = [Held EXCEPT ![w] = {}]
  BY <1>1 DEF Held, Idle
<1>3. LockedRows' \subseteq LockedRows
  BY EndQuiet DEF Quiet, Locked, LockedRows
<1>4. CASE i = 0
  <2>1. Held' = Held
    BY <1>2, <1>4 DEF Held
  <2>. QED  BY <1>3, <2>1, LeaseFree
<1>5. CASE i # 0
  <2>1. Held[w] = {i}
    BY <1>5 DEF Held
  <2>2. \A j \in DOMAIN jobs : j # i => j \in DOMAIN jobs' /\ jobs'[j] = jobs[j]
    BY DEF CompleteJob, FailJob, Abandon, Crash, Drop, Restrict, TypeOK
  <2>3. LockedRows \ {i} \subseteq LockedRows'
    BY <2>2 DEF LockedRows
  <2>4. LockedRows' \in {LockedRows, LockedRows \ {i}}
    BY <1>3, <2>3
  <2>. QED  BY <1>2, <2>1, <2>4, LeaseLetGo
<1>. QED  BY <1>4, <1>5

LEMMA GetJobLease ==
  ASSUME LeasedInv, NEW w \in Workers, NEW i \in DOMAIN jobs, GetJob(w, i)
  PROVE  LeaseStep
<1>. USE DEF LeasedInv, LockInv
<1>1. /\ run[w].job = 0 /\ jobs[i].lockedBy = None
      /\ jobs' = [jobs EXCEPT ![i] = Fetched(jobs[i], w)]
  BY DEF GetJob, Eligible
<1>2. i \in Calls /\ i # 0 /\ jobs[i] \in Job
  BY DEF TypeOK, Calls
<1>3. Fetched(jobs[i], w).lockedBy = w /\ w # None
  BY <1>2, JobFields
<1>4. /\ DOMAIN jobs' = DOMAIN jobs /\ jobs'[i].lockedBy = w
      /\ \A j \in DOMAIN jobs : j # i => jobs'[j] = jobs[j]
  BY <1>1, <1>3 DEF TypeOK
<1>5. i \notin LockedRows /\ LockedRows' = LockedRows \cup {i}
  BY <1>1, <1>3, <1>4 DEF LockedRows
<1>6. \A v \in Workers : run'[v].job = IF v = w THEN i ELSE run[v].job
  BY DEF GetJob, TypeOK
<1>7. Held[w] = {} /\ Held' = [Held EXCEPT ![w] = {i}]
  BY <1>1, <1>2, <1>6 DEF Held
<1>. QED  BY <1>2, <1>5, <1>7, LeaseTake

LEMMA NextLease ==
  ASSUME HeldLocked, HeldLocked', LeasedInv, Next
  PROVE  LeaseStep
<1>. USE DEF LeasedInv, LockInv
<1>1. CASE ClientNext
  <2>1. run' = run
    BY <1>1 DEF ClientNext, AddJob, RemoveUnlocked, RemoveLocked, CompleteJobs,
                PermanentlyFailJobs, RescheduleJobs
  <2>2. Quiet
    BY <1>1, ClientQuiet
  <2>3. LockedRows' \subseteq LockedRows
    BY <2>2 DEF Quiet, Locked, LockedRows
  <2>. QED  BY <2>1, <2>3, LeaseFree DEF Held
<1>2. CASE ResetLocked \/ Tick
  <2>1. /\ DOMAIN jobs' = DOMAIN jobs
        /\ \A j \in DOMAIN jobs : \/ jobs'[j] = Release(jobs[j])
                                  \/ jobs'[j] = Sooner(AgeRow(jobs[j]))
    BY <1>2 DEF ResetLocked, Tick
  <2>2. \A j \in DOMAIN jobs : jobs[j].lockedBy = None => jobs'[j].lockedBy = None
    <3>. SUFFICES ASSUME NEW j \in DOMAIN jobs, jobs[j].lockedBy = None
                  PROVE  jobs'[j].lockedBy = None
      OBVIOUS
    <3>1. jobs[j] \in Job
      BY DEF TypeOK
    <3>. QED  BY <2>1, <3>1, JobFields DEF Same, SameLock
  <2>3. LockedRows' \subseteq LockedRows
    BY <2>1, <2>2 DEF LockedRows
  <2>4. \A w \in Workers : run'[w].job = run[w].job
    BY <1>2 DEF ResetLocked, Tick, TypeOK, Run
  <2>5. Held' = Held
    BY <2>4 DEF Held
  <2>. QED  BY <2>3, <2>5, LeaseFree
<1>. QED  BY <1>1, <1>2, EndLease, GetJobLease DEF Next, WorkerNext

\* When every execution ends within its lock, the tables and the workers treat
\* reservations as JobLease says: a worker executes only a job whose row it has
\* locked, and no client, sweep or other worker takes that lock away.
THEOREM ImplementsLease ==
  ASSUME MaxRun <= Expiry
  PROVE  Spec => LeaseSpec
<1>1. Init => Lease!Init
  BY DEF Init, Idle, Lease!Init
<1>2. LeasedInv => HeldLocked
  BY HeldAreLocked
<1>3. LeasedInv /\ HeldLocked /\ HeldLocked' /\ [Next]_vars => LeaseStep
  <2>. SUFFICES ASSUME LeasedInv, HeldLocked, HeldLocked', [Next]_vars PROVE LeaseStep
    OBVIOUS
  <2>1. CASE UNCHANGED vars
    BY <2>1 DEF vars, LeaseStep, Lease!leaseVars
  <2>. QED  BY <2>1, NextLease
<1>. QED  BY <1>1, <1>2, <1>3, LeasedHolds, PTL
     DEF Spec, LeaseSpec, LeaseStep, Lease!Spec

\* No two workers hold on to one job.
HeldAlone == \A v, w \in Workers : v # w => Held[v] \cap Held[w] = {}

LEMMA LeaseKeepsApart ==
  ASSUME HeldLocked, HeldAlone, LeaseStep
  PROVE  HeldLocked' /\ HeldAlone'
<1>1. \A w \in Workers : Held[w] \subseteq LockedRows
  BY DEF HeldLocked
<1>2. \A v, w \in Workers : v # w => Held[v] \cap Held[w] = {}
  BY DEF HeldAlone
<1>3. Held = [w \in Workers |-> Held[w]]
  BY DEF Held
<1>4. CASE LockedRows' = LockedRows /\ Held' = Held
  BY <1>1, <1>2, <1>4 DEF HeldLocked, HeldAlone
<1>5. ASSUME NEW w \in Workers, NEW j \in Calls, Lease!Take(w, j)
      PROVE  HeldLocked' /\ HeldAlone'
  <2>1. j \notin LockedRows /\ LockedRows' = LockedRows \cup {j} /\ Held' = [Held EXCEPT ![w] = {j}]
    BY <1>5 DEF Lease!Take, Lease!Lock, LockedRows, Held
  <2>2. \A v \in Workers : Held'[v] = IF v = w THEN {j} ELSE Held[v]
    BY <1>3, <2>1
  <2>. QED  BY <1>1, <1>2, <2>1, <2>2 DEF HeldLocked, HeldAlone
<1>6. ASSUME NEW j \in Calls, Lease!TakeUnanswered(j) PROVE HeldLocked' /\ HeldAlone'
  <2>1. LockedRows' = LockedRows \cup {j} /\ Held' = Held
    BY <1>6 DEF Lease!TakeUnanswered, Lease!Lock, LockedRows, Held
  <2>. QED  BY <1>1, <1>2, <2>1 DEF HeldLocked, HeldAlone
<1>7. ASSUME NEW w \in Workers, Lease!LetGo(w) PROVE HeldLocked' /\ HeldAlone'
  <2>1. LockedRows' \in {LockedRows, LockedRows \ Held[w]} /\ Held' = [Held EXCEPT ![w] = {}]
    BY <1>7 DEF Lease!LetGo, LockedRows, Held
  <2>2. \A v \in Workers : Held'[v] = IF v = w THEN {} ELSE Held[v]
    BY <1>3, <2>1
  <2>. QED  BY <1>1, <1>2, <2>1, <2>2 DEF HeldLocked, HeldAlone
<1>8. ASSUME NEW S, Lease!Free(S) PROVE HeldLocked' /\ HeldAlone'
  <2>1. LockedRows' = LockedRows \ S /\ Held' = Held /\ \A w \in Workers : Held[w] \cap S = {}
    BY <1>8 DEF Lease!Free, LockedRows, Held
  <2>. QED  BY <1>1, <1>2, <2>1 DEF HeldLocked, HeldAlone
<1>. QED  BY <1>4, <1>5, <1>6, <1>7, <1>8 DEF LeaseStep, Lease!Next, Lease!leaseVars,
     LockedRows, Held

\* What a lease is worth, of the specification JobLease alone: a job that a worker
\* executes has a row that is locked, and no other worker executes it.
THEOREM LeaseIsExclusive ==
  LeaseSpec => [](\A w \in Workers : Executing(w) =>
                    /\ run[w].job \in DOMAIN jobs /\ jobs[run[w].job].lockedBy # None
                    /\ \A v \in Workers \ {w} : run[v].job # run[w].job)
<1>1. Lease!Init => HeldLocked /\ HeldAlone
  <2>. SUFFICES ASSUME Lease!Init PROVE HeldLocked /\ HeldAlone
    OBVIOUS
  <2>1. \A w \in Workers : Held[w] = {}
    BY DEF Lease!Init, Held
  <2>. QED  BY <2>1 DEF HeldLocked, HeldAlone
<1>2. HeldLocked /\ HeldAlone /\ LeaseStep => HeldLocked' /\ HeldAlone'
  BY LeaseKeepsApart
<1>3. HeldLocked /\ HeldAlone =>
        \A w \in Workers : Executing(w) =>
          /\ run[w].job \in DOMAIN jobs /\ jobs[run[w].job].lockedBy # None
          /\ \A v \in Workers \ {w} : run[v].job # run[w].job
  BY DEF HeldLocked, HeldAlone, Held, LockedRows, Executing
<1>. QED  BY <1>1, <1>2, <1>3, PTL DEF LeaseSpec, LeaseStep, Lease!Spec

(***************************************************************************)
(* A payload that is done, whether or not executions outlive their locks.  *)
(***************************************************************************)
\* What changes the fate of a payload: the call that brings it, an operation on
\* its row, or the success of a worker that executes it.
FateMove ==
  \A c \in Calls : fate'[c] # fate[c] =>
    \/ c = adds + 1 /\ adds' = adds + 1
    \/ Listed(c)
    \/ fate'[c] = "done" /\ \E w \in Workers : Executing(w) /\ run[w].payload = c

\* A payload worked on with success is in no row, so it is not fetched again.
DoneIsGone == \A c \in Calls : fate[c] = "done" => ~Listed(c)

DoneStays == \A c \in Calls : fate[c] = "done" => fate'[c] = "done"

LEMMA AddJobMoves ==
  ASSUME TypeOK, NEW q, NEW k, NEW d, NEW m, NEW mode, AddJob(q, k, d, m, mode)
  PROVE  FateMove
<1> DEFINE n == adds + 1
<1>1. adds' = n /\ n \in Calls /\ fate \in [Calls -> Fates]
  BY DEF AddJob, TypeOK, Calls
<1>2. \/ \E f : fate' = [fate EXCEPT ![n] = f]
      \/ \E i \in DOMAIN jobs :
           fate' = [fate EXCEPT ![n] = "open", ![jobs[i].payload] = "dropped"]
  BY Zenon DEF AddJob, AddNew, AddReplace, AddSupersede, AddDuplicate, Holders
<1>. HIDE DEF n
<1>3. ASSUME NEW c \in Calls, c # n, ~Listed(c) PROVE fate'[c] = fate[c]
  BY <1>1, <1>2, <1>3 DEF Listed
<1>. QED  BY <1>1, <1>3 DEF FateMove, n

LEMMA FateMoves ==
  ASSUME TypeOK, Next
  PROVE  FateMove
<1>1. fate \in [Calls -> Fates]
  BY DEF TypeOK
<1>2. ASSUME fate' = fate PROVE FateMove
  BY <1>2 DEF FateMove
<1>3. ASSUME NEW i \in DOMAIN jobs, NEW f, fate' = [fate EXCEPT ![jobs[i].payload] = f]
      PROVE  FateMove
  BY <1>1, <1>3 DEF FateMove, Listed
<1>4. ASSUME ClientNext PROVE FateMove
  <2>1. ASSUME NEW k \in Keys, RemoveUnlocked(k) \/ RemoveLocked(k) PROVE FateMove
    BY <1>2, <1>3, <2>1 DEF RemoveUnlocked, RemoveLocked, Holders
  <2>2. ASSUME NEW i \in DOMAIN jobs, CompleteJobs(i) \/ PermanentlyFailJobs(i) PROVE FateMove
    BY <1>3, <2>2 DEF CompleteJobs, PermanentlyFailJobs
  <2>3. ASSUME NEW i \in DOMAIN jobs, NEW d, NEW a, NEW m, RescheduleJobs(i, d, a, m)
        PROVE  FateMove
    BY <1>2, <1>3, <2>3 DEF RescheduleJobs
  <2>. QED  BY <1>4, <2>1, <2>2, <2>3, AddJobMoves DEF ClientNext
<1>5. ASSUME NEW w \in Workers, WorkerNext(w) PROVE FateMove
  <2>1. CASE CompleteJob(w)
    <3>1. Executing(w) /\ fate' = [fate EXCEPT ![run[w].payload] = "done"]
      BY <2>1 DEF CompleteJob, Executing
    <3>. QED  BY <1>1, <3>1 DEF FateMove
  <2>2. CASE ~CompleteJob(w)
    BY <1>2, <1>5, <2>2 DEF WorkerNext, GetJob, FailJob, Abandon, Crash
  <2>. QED  BY <2>1, <2>2
<1>6. ASSUME ResetLocked \/ Tick PROVE FateMove
  BY <1>2, <1>6 DEF ResetLocked, Tick
<1>. QED  BY <1>4, <1>5, <1>6 DEF Next

LEMMA DoneStep ==
  ASSUME TypeOK, TypeOK', FateInv, Unmade, Next
  PROVE  Unmade' /\ DoneStays
<1>1. FateMove
  BY FateMoves
<1>2. /\ adds \in Nat /\ adds' \in Nat /\ adds <= adds' /\ Calls \subseteq Nat
  BY AddsGrow DEF TypeOK, Calls
<1>3. \A c \in Calls : Listed(c) => c <= adds /\ fate[c] # "done"
  BY DEF FateInv, PayloadInv, RowsUndone, Listed
<1>4. \A w \in Workers : Executing(w) => run[w].payload <= adds
  BY DEF FateInv, PayloadInv
<1>5. ASSUME NEW c \in Calls, c > adds', fate'[c] # fate[c] PROVE FALSE
  BY <1>1, <1>2, <1>3, <1>4, <1>5 DEF FateMove
<1>6. Unmade'
  BY <1>2, <1>5 DEF Unmade
<1>7. ASSUME NEW c \in Calls, fate[c] = "done", fate'[c] # "done" PROVE FALSE
  <2>1. c = adds + 1
    BY <1>1, <1>3, <1>7 DEF FateMove
  <2>. QED  BY <1>2, <1>7, <2>1 DEF Unmade
<1>. QED  BY <1>6, <1>7 DEF DoneStays

\* A payload that a worker has worked on with success is settled for good: no
\* row holds it any more, no client call brings it back, and nobody can drop it,
\* even when executions outlive their locks and workers finish each other's rows.
THEOREM DoneIsFinal == Spec => []DoneIsGone /\ [][DoneStays]_vars
<1>1. FateInv => DoneIsGone
  BY DEF FateInv, RowsUndone, DoneIsGone, Listed
<1>2. Init => Unmade
  BY DEF Init, Unmade
<1>3. TypeOK /\ TypeOK' /\ FateInv /\ Unmade /\ [Next]_vars => Unmade' /\ [DoneStays]_vars
  <2>1. CASE UNCHANGED vars
    BY <2>1 DEF vars, Unmade
  <2>. QED  BY <2>1, DoneStep
<1>. QED  BY <1>1, <1>2, <1>3, TypeCorrect, FateInvHolds, PTL DEF Spec
===============================================================================
