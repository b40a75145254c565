----------------------------- MODULE CronScheduler -----------------------------
(***************************************************************************)
(* Schedulers that share one cron item and the table known_crontabs        *)
(* (pkg/cron/scheduler.go).  At each tick, and at start for the minutes    *)
(* that were missed, a scheduler asks whether the item was executed,       *)
(* records the execution and adds a job: three statements, each a step of  *)
(* its own.                                                                *)
(*                                                                         *)
(* Time is counted in instants, PerMinute of them to a minute.  The items  *)
(* of a crontab have rows of their own and are handled one after another,  *)
(* so one item stands for all; what it waits for the others is the time    *)
(* that may pass between any two of its steps.                             *)
(*                                                                         *)
(* What is matched and compared is no instant but what a clock shows of    *)
(* it: minute, hour, day, month and day of the week, without the year and  *)
(* the zone.  A process reads its own clock, the database reads            *)
(* last_execution by the clock of the session that asks.                   *)
(***************************************************************************)
EXTENDS Integers, FiniteSetsExt

CONSTANTS
  Schedulers,  \* scheduler instances
  PerMinute,   \* instants per minute
  Local,       \* what the clock of each scheduler's process shows in each minute
  Session,     \* what EXTRACT finds in it in the zone of its database session
  Pattern,     \* those readings the item matches
  Backfill,    \* CronItemOptions.Backfill and SchedulerConfig.BackfillOnStart
  Period,      \* CronItemOptions.BackfillPeriod, in instants
  MayFail,     \* a statement may return an error
  Null,        \* last_execution is null
  MaxTime,     \* bound: the last instant
  MaxStarts    \* bound: number of calls of Start

ASSUME CronBounds ==
  /\ PerMinute \in Nat \ {0}
  /\ Period \in Nat /\ MaxTime \in Nat /\ MaxStarts \in Nat
  /\ Backfill \in BOOLEAN /\ MayFail \in BOOLEAN
  /\ Null \notin Nat

VARIABLES
  now,     \* the clock
  last,    \* known_crontabs.last_execution
  pc,      \* what each scheduler does next
  todo,    \* the instants it has still to schedule
  ticker,  \* when its ticker fires next, 0 before the loop has begun
  starts,  \* number of calls of Start
  jobs,    \* number of jobs added for each minute
  first,   \* history: when an execution was first recorded
  givenUp, \* history: minutes dropped on an error, recorded and not added, begun
           \*          as a scheduler was started, run over by a late one, out of the
           \*          reach of a backfill, or passed by a record of other clocks
  raced,   \* history: minutes two schedulers decided on at the same time
  late,    \* history: minutes decided on when they were over
  misread  \* history: minutes for which the clocks gave the question a wrong answer

cronVars == <<now, last, pc, todo, ticker, starts, jobs, first, givenUp, raced, late,
              misread>>

Times == 0 .. MaxTime
Minute(t) == t \div PerMinute
Minutes == 0 .. Minute(MaxTime)

\* The minutes in which the item matches, by the clock of the process.
Due(s) == {m \in Minutes : Local[s][m] \in Pattern}

Init ==
  /\ now = 0
  /\ last = Null
  /\ pc = [s \in Schedulers |-> "down"]
  /\ todo = [s \in Schedulers |-> {}]
  /\ ticker = [s \in Schedulers |-> 0]
  /\ starts = 0
  /\ jobs = [m \in Minutes |-> 0]
  /\ first = Null
  /\ givenUp = {}
  /\ raced = {} /\ late = {} /\ misread = {}

(***************************************************************************)
(* Start, the backfill and the ticker.                                     *)
(***************************************************************************)
\* schedulingLoop makes its ticker when it begins.
BeginLoop(s) ==
  /\ pc' = [pc EXCEPT ![s] = "idle"]
  /\ ticker' = [ticker EXCEPT ![s] = now + PerMinute]

\* registerKnownCrontabs inserts a row with null unless there is one.  The
\* minute that begins at this very instant is neither before the end of the
\* backfill nor a tick to come, and without a backfill none before it is looked at.
Start(s) ==
  /\ pc[s] = "down"
  /\ starts < MaxStarts
  /\ starts' = starts + 1
  /\ IF Backfill
     THEN /\ pc' = [pc EXCEPT ![s] = "plan"]
          /\ todo' = [todo EXCEPT ![s] = {now}]
          /\ UNCHANGED ticker
     ELSE BeginLoop(s) /\ UNCHANGED todo
  /\ givenUp' = givenUp \cup
       {m \in Due(s) : IF Backfill THEN m * PerMinute = now ELSE m * PerMinute <= now}
  /\ UNCHANGED <<now, last, jobs, first, raced, late, misread>>

\* (mutant) the minute that has begun is left to the ticker
MissedMinutesPast(s, from, end) ==
  {m \in Due(s) : m >= Minute(from) /\ m < Minute(end)}

MissedMinutes(s, from, end) ==
  {m \in Due(s) : m >= Minute(from) /\ m * PerMinute < end}

\* GetScheduleTimesInRange: whole minutes, the first one rounded down.
ScheduleTimes(s, from, end) == {m * PerMinute : m \in MissedMinutes(s, from, end)}

\* The instants are dealt with in their order.
Soonest(s) == Min(todo[s])

\* What is older than the period of the backfill is not looked at.
PlanBackfill(s) ==
  LET end == Soonest(s)
      from == IF last < end - Period THEN end - Period ELSE last
      times == ScheduleTimes(s, from, end)
  IN /\ pc[s] = "plan"
     /\ IF last = Null \/ times = {}
        THEN BeginLoop(s) /\ todo' = [todo EXCEPT ![s] = {}]
        ELSE /\ pc' = [pc EXCEPT ![s] = "check"]
             /\ todo' = [todo EXCEPT ![s] = times]
             /\ UNCHANGED ticker
     /\ givenUp' = givenUp \cup
          {m \in Due(s) : last # Null /\ last < end - Period /\ m < Minute(from)}
     /\ UNCHANGED <<now, last, starts, jobs, first, raced, late, misread>>

\* The channel of a ticker holds one tick; those that find it full are dropped.
NextTick(t) == t + PerMinute * ((now - t) \div PerMinute + 1)

\* The loop takes the minute it is now for the minute of the tick: minutes that
\* have gone by since the tick was due are passed over.
PassedOver(s) == {m \in Due(s) : Minute(ticker[s]) <= m /\ m < Minute(now)}

Tick(s) ==
  /\ pc[s] = "idle"
  /\ ticker[s] <= now
  /\ ticker' = [ticker EXCEPT ![s] = NextTick(@)]
  /\ givenUp' = givenUp \cup PassedOver(s)
  /\ IF Minute(now) \in Due(s)
     THEN /\ pc' = [pc EXCEPT ![s] = "check"]
          /\ todo' = [todo EXCEPT ![s] = {now}]
     ELSE UNCHANGED <<pc, todo>>
  /\ UNCHANGED <<now, last, starts, jobs, first, raced, late, misread>>

(***************************************************************************)
(* scheduleTask, and the body of the loop of backfillItem.                 *)
(***************************************************************************)
\* (mutant) the question is not asked
AlreadyScheduledNever(s) == FALSE

\* isTaskAlreadyScheduled compares last_execution with the minute it is now,
\* whatever minute is to be scheduled: what EXTRACT finds in the one, in the zone
\* of the session, with what the process's clock shows of the other.
AlreadyScheduled(s) ==
  last # Null /\ Session[s][Minute(last)] = Local[s][Minute(now)]

\* The readings agree and the minutes do not, or the other way round.
Misread(s) ==
  /\ last # Null
  /\ (Session[s][Minute(last)] = Local[s][Minute(now)]) # (Minute(last) = Minute(now))

\* (mutant) one round of the loop too many
DoneOneMore(s) ==
  /\ todo' = [todo EXCEPT ![s] = @ \ {Soonest(s)}]
  /\ IF todo[s] # {}
     THEN pc' = [pc EXCEPT ![s] = "check"] /\ UNCHANGED ticker
     ELSE IF ticker[s] = 0
          THEN BeginLoop(s)
          ELSE pc' = [pc EXCEPT ![s] = "idle"] /\ UNCHANGED ticker

\* One instant is dealt with; the loop goes on to the next one, or ends.
Done(s) ==
  /\ todo' = [todo EXCEPT ![s] = @ \ {Soonest(s)}]
  /\ IF todo[s] # {Soonest(s)}
     THEN pc' = [pc EXCEPT ![s] = "check"] /\ UNCHANGED ticker
     ELSE IF ticker[s] = 0
          THEN BeginLoop(s)
          ELSE pc' = [pc EXCEPT ![s] = "idle"] /\ UNCHANGED ticker

Check(s) ==
  LET m == Minute(Soonest(s)) IN
  /\ pc[s] = "check"
  /\ misread' = IF Misread(s) THEN misread \cup {m} ELSE misread
  /\ IF AlreadyScheduled(s)
     THEN /\ Done(s)
          /\ givenUp' = IF Minute(now) = m THEN givenUp ELSE givenUp \cup {m}
          /\ UNCHANGED <<raced, late>>
     ELSE /\ pc' = [pc EXCEPT ![s] = "record"]
          /\ raced' = IF \E r \in Schedulers \ {s} :
                           pc[r] = "record" /\ Minute(Soonest(r)) = m
                      THEN raced \cup {m} ELSE raced
          /\ late' = IF Minute(now) > m THEN late \cup {m} ELSE late
          /\ UNCHANGED <<todo, ticker, givenUp>>
  /\ UNCHANGED <<now, last, starts, jobs, first>>

Later(t) == IF last = Null \/ last < t THEN t ELSE last

\* Minutes that are due by the clocks of others alone, and that the record passes.
Overtaken(s) ==
  {m \in (UNION {Due(r) : r \in Schedulers}) \ Due(s) :
     last # Null /\ Minute(last) < m /\ m < Minute(Soonest(s))}

\* recordScheduledTask does not look at the number of rows it changed.
Record(s) ==
  LET t == Soonest(s) IN
  /\ pc[s] = "record"
  /\ last' = Later(t)
  /\ first' = IF first = Null THEN now ELSE first
  /\ pc' = [pc EXCEPT ![s] = "add"]
  /\ givenUp' = givenUp \cup Overtaken(s)
  /\ UNCHANGED <<now, todo, ticker, starts, jobs, raced, late, misread>>

Add(s) ==
  /\ pc[s] = "add"
  /\ jobs' = [jobs EXCEPT ![Minute(Soonest(s))] = @ + 1]
  /\ Done(s)
  /\ UNCHANGED <<now, last, starts, first, givenUp, raced, late, misread>>

(***************************************************************************)
(* Errors, crashes and time.                                               *)
(***************************************************************************)
\* A statement returns an error.  A tick is skipped, the rest of a backfill
\* is skipped, and the loop goes on.
Fail(s) ==
  /\ MayFail
  /\ pc[s] \in {"plan", "check", "record", "add"}
  /\ givenUp' = givenUp \cup
       IF pc[s] = "plan"
       THEN {m \in Due(s) : m * PerMinute < Soonest(s)}
       ELSE {Minute(t) : t \in todo[s]}
  /\ todo' = [todo EXCEPT ![s] = {}]
  /\ IF ticker[s] = 0
     THEN BeginLoop(s)
     ELSE pc' = [pc EXCEPT ![s] = "idle"] /\ UNCHANGED ticker
  /\ UNCHANGED <<now, last, starts, jobs, first, raced, late, misread>>

\* The process dies, or Stop cancels the context of the next statement.
Crash(s) ==
  /\ pc[s] # "down"
  /\ pc' = [pc EXCEPT ![s] = "down"]
  /\ todo' = [todo EXCEPT ![s] = {}]
  /\ ticker' = [ticker EXCEPT ![s] = 0]
  /\ givenUp' = givenUp \cup
       (IF pc[s] = "add" THEN {Minute(Soonest(s))} ELSE {})
  /\ UNCHANGED <<now, last, starts, jobs, first, raced, late, misread>>

\* Neither the backfill nor the ticker to come covers the minutes that begin before
\* the loop does.
Starting(s) == pc[s] # "down" /\ ticker[s] = 0

Advance ==
  /\ now < MaxTime
  /\ now' = now + 1
  /\ givenUp' = givenUp \cup
       UNION {{m \in Due(s) : m * PerMinute = now + 1} : s \in {r \in Schedulers : Starting(r)}}
  /\ UNCHANGED <<last, pc, todo, ticker, starts, jobs, first, raced, late, misread>>

Next ==
  \/ Advance
  \/ \E s \in Schedulers :
       \/ Start(s) \/ PlanBackfill(s) \/ Tick(s)
       \/ Check(s) \/ Record(s) \/ Add(s)
       \/ Fail(s) \/ Crash(s)

Spec == Init /\ [][Next]_cronVars

-------------------------------------------------------------------------------
\* Every variable has its type; a scheduler that is at work has work.
TypeOK ==
  /\ now \in Times
  /\ last \in Times \cup {Null}
  /\ pc \in [Schedulers -> {"down", "idle", "plan", "check", "record", "add"}]
  /\ todo \in [Schedulers -> SUBSET Times]
  /\ \A s \in Schedulers : pc[s] \in {"plan", "check", "record", "add"} => todo[s] # {}
  /\ ticker \in [Schedulers -> Nat]
  /\ starts \in 0 .. MaxStarts
  /\ jobs \in [Minutes -> Nat]
  /\ first \in Times \cup {Null}
  /\ givenUp \subseteq Nat /\ raced \subseteq Nat
  /\ late \subseteq Nat /\ misread \subseteq Nat

\* A minute that is executed twice is one that two schedulers decided on before
\* either had recorded it, that one of them decided on when it was over, by a
\* backfill or because its statements were late, or for which the session's clock
\* does not read what the process's clock shows.  Otherwise the question keeps
\* apart schedulers that backfill, crash, start again and tick in any order.
DuplicatesHaveCauses ==
  \A m \in Minutes : jobs[m] > 1 => m \in raced \cup late \cup misread

Waiting(s) == pc[s] = "idle" /\ ticker[s] > now

\* A minute that is due for a scheduler that is up, began after the first execution
\* was recorded and is over has a job whenever all that are up have caught up,
\* however often schedulers were down and however slow they were, except the
\* minutes an error dropped, those a crash cut off after they were recorded, those
\* that began while a scheduler was started, those a start did not look back at,
\* those that went by before a tick was received or the question asked, those the
\* record of a process with another clock passed, and those for which the session's
\* clock shows of an earlier execution what the process's clock shows now.
MissedWereGivenUp ==
  (\A s \in Schedulers : pc[s] = "down" \/ Waiting(s))
  => \A s \in Schedulers : Waiting(s) =>
       \A m \in Due(s) :
         first # Null /\ Minute(first) < m /\ m < Minute(now)
           => jobs[m] > 0 \/ m \in givenUp \cup misread

===============================================================================
