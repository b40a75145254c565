-------------------------- MODULE CronSchedulerProofs --------------------------
(***************************************************************************)
(* What holds of CronScheduler for any number of schedulers, any pattern,  *)
(* any zones, any length of the backfill and any run of the clock: its     *)
(* types, why an item is executed twice in a minute, why it is not         *)
(* executed in one, and that it is otherwise executed once.                *)
(***************************************************************************)
EXTENDS CronScheduler, FiniteSetTheorems, TLAPS

-------------------------------------------------------------------------------
(***************************************************************************)
(* The invariants.                                                         *)
(***************************************************************************)
Working == {"check", "record", "add"}

\* How the state of a scheduler hangs together with the clock.
SchedulerOK(s) ==
  /\ \A t \in todo[s] : t <= now
  /\ pc[s] \in {"down", "idle"} => todo[s] = {}
  /\ pc[s] = "plan" => \E t \in Times : todo[s] = {t}
  /\ pc[s] \in {"down", "plan"} => ticker[s] = 0
  /\ pc[s] = "idle" => ticker[s] # 0
  /\ ticker[s] <= now + PerMinute
  /\ ticker[s] # 0 => \A t \in todo[s] : t < ticker[s]
  /\ pc[s] \in Working => \A t \in todo[s] : Minute(t) \in Due(s)

RecordOK ==
  /\ last # Null => last <= now
  /\ first # Null => last # Null

ClockInv ==
  /\ TypeOK
  /\ RecordOK
  /\ \A s \in Schedulers : SchedulerOK(s)

\* A scheduler that will add a job for minute m unless it fails.
Decided(s, m) == pc[s] \in {"record", "add"} /\ Minute(Soonest(s)) = m

\* A scheduler that has recorded minute m and not yet added its job.
Adding(s, m) == pc[s] = "add" /\ Minute(Soonest(s)) = m

\* What has a job, or is about to have one, was recorded.
WasRecorded ==
  \A m \in Minutes :
    jobs[m] > 0 \/ (\E s \in Schedulers : Adding(s, m))
      => last # Null /\ Minute(last) >= m

\* But for the causes, one scheduler decides on a minute, and none again.
OneDecides ==
  \A m \in Minutes \ (raced \cup late \cup misread) :
    /\ jobs[m] <= 1
    /\ \A s \in Schedulers : Decided(s, m) => jobs[m] = 0
    /\ \A r, s \in Schedulers : Decided(r, m) /\ Decided(s, m) => r = s

\* Minute m needs no scheduler any more, or one that is about to add its job.
Settled(m) ==
  \/ jobs[m] > 0
  \/ m \in givenUp \cup misread
  \/ \E s \in Schedulers : Adding(s, m)

\* The due minutes of s the property speaks of, the one that has begun among them.
Counted(s, m) ==
  /\ m \in Due(s)
  /\ first # Null /\ Minute(first) < m
  /\ m * PerMinute <= now

LastIsSettled == last # Null => Settled(Minute(last))

\* The record never goes past a minute that is not settled: a backfill, which
\* begins at the record, finds it.
RecordIsBehind ==
  \A s \in Schedulers : \A m \in Minutes : Counted(s, m) /\ ~Settled(m) => Minute(last) < m

\* A scheduler that has looked back has what is not settled before it.
Ahead(s, m) ==
  \/ \E t \in todo[s] : Minute(t) = m
  \/ ticker[s] # 0 /\ Minute(ticker[s]) <= m

NothingForgotten ==
  \A s \in Schedulers : pc[s] \in Working \cup {"idle"} =>
    \A m \in Minutes : Counted(s, m) /\ ~Settled(m) => Ahead(s, m)

\* What began since a backfill fixed its end is given up.
PlanIsExact ==
  \A s \in Schedulers : pc[s] = "plan" =>
    \A m \in Due(s) : \A t \in todo[s] :
      t <= m * PerMinute /\ m * PerMinute <= now => m \in givenUp

MissedInv == LastIsSettled /\ RecordIsBehind /\ NothingForgotten /\ PlanIsExact

-------------------------------------------------------------------------------
(***************************************************************************)
(* Minutes and instants.                                                   *)
(***************************************************************************)
LEMMA MinuteType == \A t \in Nat : Minute(t) \in Nat
BY CronBounds DEF Minute

LEMMA MinuteStarts ==
  ASSUME NEW t \in Nat, NEW m \in Nat
  PROVE  /\ m * PerMinute \in Nat
         /\ Minute(m * PerMinute) = m
         /\ Minute(t) < m <=> t < m * PerMinute
         /\ m <= Minute(t) <=> m * PerMinute <= t
<1>1. m * PerMinute \in Nat
  BY CronBounds
<1>2. Minute(m * PerMinute) = m
  BY CronBounds DEF Minute
<1>3. Minute(t) < m <=> t < m * PerMinute
  BY CronBounds DEF Minute
<1>4. m <= Minute(t) <=> m * PerMinute <= t
  BY <1>1, <1>3, MinuteType
<1>. QED  BY <1>1, <1>2, <1>3, <1>4

LEMMA MinuteMonotone ==
  ASSUME NEW t \in Nat, NEW u \in Nat, t <= u
  PROVE  Minute(t) <= Minute(u)
<1>1. Minute(t) \in Nat /\ Minute(t) * PerMinute <= t
  BY MinuteType, MinuteStarts
<1>2. Minute(t) * PerMinute \in Nat
  BY <1>1, MinuteStarts
<1>3. Minute(t) * PerMinute <= u
  BY <1>1, <1>2
<1>. QED  BY <1>1, <1>3, MinuteStarts

LEMMA MinuteOfNextMinute == \A t \in Nat : Minute(t + PerMinute) = Minute(t) + 1
BY CronBounds DEF Minute

\* A ticker that is due fires next within a minute, and not at once.
LEMMA NextTickIsNear ==
  ASSUME NEW t \in Nat, now \in Nat, t <= now
  PROVE  /\ NextTick(t) \in Nat
         /\ now < NextTick(t) /\ NextTick(t) <= now + PerMinute
<1>. DEFINE d == now - t
            q == d \div PerMinute
<1>1. d \in Nat /\ q \in Nat
  BY CronBounds
<1>2. PerMinute * q <= d /\ d < PerMinute * (q + 1) /\ PerMinute * q \in Nat
  BY <1>1, CronBounds
<1>3. PerMinute * (q + 1) = PerMinute * q + PerMinute
  BY <1>1, CronBounds
<1>4. NextTick(t) = t + PerMinute * (q + 1)
  BY DEF NextTick
<1>. HIDE DEF q
<1>. QED  BY <1>1, <1>2, <1>3, <1>4, CronBounds

\* A set of naturals has a smallest element: of the intervals 0 .. n one has no
\* other within it.
LEMMA SmallestOf ==
  ASSUME NEW T, T \subseteq Nat, T # {}
  PROVE  \E x \in T : \A y \in T : x <= y
<1>. DEFINE Below(n) == 0 .. n
            D == {Below(n) : n \in T}
<1>1. \A n \in T : Below(n) \in FiniteSubsetsOf(Nat)
  BY FS_Interval DEF FiniteSubsetsOf
<1>2. D \subseteq FiniteSubsetsOf(Nat) /\ D # {}
  BY <1>1
<1>3. IsWellFoundedOn(StrictSubsetOrdering(Nat), FiniteSubsetsOf(Nat))
  BY FS_StrictSubsetOrderingWellFounded
<1>4. PICK d \in D : \A e \in D : <<e, d>> \notin StrictSubsetOrdering(Nat)
  BY <1>2, <1>3, WFMin
<1>5. PICK x \in T : d = Below(x)
  BY <1>4
<1>6. ASSUME NEW y \in T, y < x
      PROVE  FALSE
  <2>1. Below(y) \in D
    OBVIOUS
  <2>2. Below(y) \subseteq Below(x) /\ Below(y) # Below(x)
    BY <1>6
  <2>3. Below(x) \subseteq Nat /\ Below(y) \subseteq Nat
    BY <1>6
  <2>4. <<Below(y), Below(x)>> \in StrictSubsetOrdering(Nat)
    BY <2>2, <2>3 DEF StrictSubsetOrdering
  <2>. QED  BY <1>4, <1>5, <2>1, <2>4
<1>. QED  BY <1>6

\* There is a soonest instant, and Soonest is it.
LEMMA SoonestIsFirst ==
  ASSUME NEW s \in Schedulers, todo[s] \subseteq Nat, todo[s] # {}
  PROVE  /\ Soonest(s) \in todo[s]
         /\ \A t \in todo[s] : Soonest(s) <= t
BY SmallestOf DEF Soonest, Min

LEMMA MinutesOfTimes ==
  /\ Times \subseteq Nat /\ Minutes \subseteq Nat
  /\ \A t \in Times : Minute(t) \in Minutes
<1>1. Times \subseteq Nat /\ Minutes \subseteq Nat
  BY CronBounds DEF Times, Minutes
<1>2. ASSUME NEW t \in Times
      PROVE  Minute(t) \in Minutes
  <2>1. t \in Nat /\ MaxTime \in Nat /\ t <= MaxTime
    BY CronBounds DEF Times
  <2>2. Minute(t) <= Minute(MaxTime) /\ Minute(t) \in Nat /\ Minute(MaxTime) \in Nat
    BY <2>1, MinuteMonotone, MinuteType
  <2>. QED  BY <2>2 DEF Minutes
<1>. QED  BY <1>1, <1>2

\* What is due is within the bound of the clock.
LEMMA DueIsMinutes == \A s \in Schedulers : Due(s) \subseteq Minutes /\ Due(s) \subseteq Nat
BY MinutesOfTimes DEF Due

-------------------------------------------------------------------------------
(***************************************************************************)
(* The clock: types, and how a scheduler's instants, its ticker and the    *)
(* clock are ordered.                                                      *)
(***************************************************************************)
States == {"down", "idle", "plan", "check", "record", "add"}

\* What a step of s sets of the state of s, which no other scheduler shares.
StepOf(s) ==
  /\ pc' = [pc EXCEPT ![s] = pc'[s]]
  /\ todo' = [todo EXCEPT ![s] = todo'[s]]
  /\ ticker' = [ticker EXCEPT ![s] = ticker'[s]]
  /\ now' = now

LocalOK(s) ==
  /\ pc[s] \in States
  /\ todo[s] \in SUBSET Times
  /\ pc[s] \in Working \cup {"plan"} => todo[s] # {}
  /\ ticker[s] \in Nat
  /\ SchedulerOK(s)

DataOK ==
  /\ last \in Times \cup {Null} /\ first \in Times \cup {Null}
  /\ starts \in 0 .. MaxStarts
  /\ jobs \in [Minutes -> Nat]
  /\ givenUp \subseteq Nat /\ raced \subseteq Nat
  /\ late \subseteq Nat /\ misread \subseteq Nat

LEMMA ClockParts ==
  ClockInv <=> /\ now \in Times
               /\ pc \in [Schedulers -> States]
               /\ todo \in [Schedulers -> SUBSET Times]
               /\ ticker \in [Schedulers -> Nat]
               /\ \A s \in Schedulers : LocalOK(s)
               /\ DataOK
               /\ RecordOK
BY DEF ClockInv, TypeOK, LocalOK, DataOK, States, Working

LEMMA SoonestOfScheduler ==
  ASSUME ClockInv, NEW s \in Schedulers, pc[s] \in Working \cup {"plan"}
  PROVE  /\ Soonest(s) \in todo[s] /\ Soonest(s) \in Times /\ Soonest(s) \in Nat
         /\ \A t \in todo[s] : Soonest(s) <= t
         /\ Soonest(s) <= now
         /\ Minute(Soonest(s)) \in Minutes /\ Minute(Soonest(s)) \in Nat
<1>1. LocalOK(s)
  BY ClockParts
<1>2. todo[s] \subseteq Nat /\ todo[s] # {}
  BY <1>1, MinutesOfTimes DEF LocalOK
<1>3. Soonest(s) \in todo[s] /\ \A t \in todo[s] : Soonest(s) <= t
  BY <1>2, SoonestIsFirst
<1>4. Soonest(s) \in Times /\ Soonest(s) <= now
  BY <1>1, <1>3 DEF LocalOK, SchedulerOK
<1>. QED  BY <1>3, <1>4, MinutesOfTimes

LEMMA StepKeepsClock ==
  ASSUME ClockInv, NEW s \in Schedulers, StepOf(s), LocalOK(s)', DataOK', RecordOK'
  PROVE  ClockInv'
<1>1. /\ now \in Times /\ now' \in Times
      /\ pc' \in [Schedulers -> States]
      /\ todo' \in [Schedulers -> SUBSET Times]
      /\ ticker' \in [Schedulers -> Nat]
  BY ClockParts DEF StepOf, LocalOK
<1>2. ASSUME NEW r \in Schedulers
      PROVE  LocalOK(r)'
  <2>1. CASE r = s
    BY <2>1
  <2>2. CASE r # s
    <3>1. LocalOK(r)
      BY ClockParts
    <3>2. pc'[r] = pc[r] /\ todo'[r] = todo[r] /\ ticker'[r] = ticker[r] /\ now' = now
      BY <2>2, ClockParts DEF StepOf
    <3>. QED  BY <3>1, <3>2 DEF LocalOK, SchedulerOK
  <2>. QED  BY <2>1, <2>2
<1>. QED  BY <1>1, <1>2 DEF ClockInv, TypeOK, LocalOK, DataOK, States, Working

LEMMA BeginLoopKeepsClock ==
  ASSUME ClockInv, NEW s \in Schedulers, BeginLoop(s), now' = now,
         todo' = [todo EXCEPT ![s] = {}]
  PROVE  StepOf(s) /\ LocalOK(s)'
<1>1. StepOf(s)
  BY ClockParts DEF BeginLoop, StepOf
<1>2. pc'[s] = "idle" /\ todo'[s] = {} /\ ticker'[s] = now + PerMinute
  BY ClockParts DEF BeginLoop
<1>3. now \in Nat
  BY ClockParts, MinutesOfTimes
<1>4. ticker'[s] \in Nat /\ ticker'[s] # 0 /\ ticker'[s] <= now + PerMinute
  BY <1>2, <1>3, CronBounds
<1>. QED  BY <1>1, <1>2, <1>4 DEF LocalOK, SchedulerOK, States, Working

LEMMA DoneKeepsClock ==
  ASSUME ClockInv, NEW s \in Schedulers, pc[s] \in Working, Done(s), now' = now
  PROVE  StepOf(s) /\ LocalOK(s)'
<1>1. LocalOK(s)
  BY ClockParts
<1>2. todo'[s] = todo[s] \ {Soonest(s)}
  BY ClockParts DEF Done
<1>3. CASE todo[s] # {Soonest(s)}
  <2>1. StepOf(s) /\ pc'[s] = "check" /\ ticker' = ticker
    BY <1>3, ClockParts DEF Done, StepOf
  <2>2. todo'[s] # {}
    BY <1>2, <1>3, SoonestOfScheduler DEF Working
  <2>. QED  BY <1>1, <1>2, <2>1, <2>2 DEF LocalOK, SchedulerOK, StepOf, States, Working
<1>4. CASE todo[s] = {Soonest(s)} /\ ticker[s] = 0
  <2>1. todo' = [todo EXCEPT ![s] = {}]
    BY <1>4, ClockParts DEF Done
  <2>. QED  BY <1>4, <2>1, BeginLoopKeepsClock DEF Done
<1>5. CASE todo[s] = {Soonest(s)} /\ ticker[s] # 0
  <2>1. StepOf(s) /\ pc'[s] = "idle" /\ ticker' = ticker /\ todo'[s] = {}
    BY <1>2, <1>5, ClockParts DEF Done, StepOf
  <2>. QED  BY <1>1, <1>5, <2>1 DEF LocalOK, SchedulerOK, StepOf, States, Working
<1>. QED  BY <1>3, <1>4, <1>5

\* The instants of a backfill are minutes that are due and begin before its end.
LEMMA ScheduleTimesAre ==
  ASSUME NEW s \in Schedulers, NEW from, NEW end \in Times
  PROVE  /\ ScheduleTimes(s, from, end) \subseteq Times
         /\ \A t \in ScheduleTimes(s, from, end) : t < end /\ Minute(t) \in Due(s)
         /\ \A m \in MissedMinutes(s, from, end) :
              \E t \in ScheduleTimes(s, from, end) : Minute(t) = m
<1>1. \A m \in MissedMinutes(s, from, end) :
        m \in Due(s) /\ m \in Nat /\ m * PerMinute < end /\ m * PerMinute \in Nat
        /\ Minute(m * PerMinute) = m
  BY MinuteStarts, CronBounds, DueIsMinutes DEF MissedMinutes
<1>2. end \in Nat /\ end <= MaxTime
  BY CronBounds DEF Times
<1>3. \A m \in MissedMinutes(s, from, end) : m * PerMinute \in Times
  BY <1>1, <1>2, CronBounds DEF Times
<1>. QED  BY <1>1, <1>3 DEF ScheduleTimes

LEMMA StartKeepsClock ==
  ASSUME ClockInv, NEW s \in Schedulers, Start(s)
  PROVE  ClockInv'
<1>1. LocalOK(s) /\ DataOK /\ RecordOK /\ now \in Times /\ now \in Nat
  BY ClockParts, MinutesOfTimes
<1>2. StepOf(s) /\ LocalOK(s)'
  <2>1. CASE Backfill
    <3>1. StepOf(s) /\ pc'[s] = "plan" /\ todo'[s] = {now} /\ ticker' = ticker
      BY <2>1, ClockParts DEF Start, StepOf
    <3>. QED  BY <1>1, <3>1, CronBounds DEF Start, StepOf, LocalOK, SchedulerOK, States, Working
  <2>2. CASE ~Backfill
    <3>1. todo' = [todo EXCEPT ![s] = {}] /\ now' = now /\ BeginLoop(s)
      BY <1>1, <2>2, ClockParts DEF Start, LocalOK, SchedulerOK
    <3>. QED  BY <3>1, BeginLoopKeepsClock
  <2>. QED  BY <2>1, <2>2
<1>3. DataOK' /\ RecordOK'
  <2>1. givenUp' \subseteq givenUp \cup Due(s)
    BY DueIsMinutes DEF Start
  <2>2. starts' \in 0 .. MaxStarts
    BY <1>1, CronBounds DEF Start, DataOK
  <2>3. UNCHANGED <<now, last, jobs, first, raced, late, misread>>
    BY DEF Start
  <2>. QED  BY <1>1, <2>1, <2>2, <2>3, DueIsMinutes DEF DataOK, RecordOK
<1>. QED  BY <1>2, <1>3, StepKeepsClock

LEMMA PlanKeepsClock ==
  ASSUME ClockInv, NEW s \in Schedulers, PlanBackfill(s)
  PROVE  ClockInv'
<1>. DEFINE end == Soonest(s)
            from == IF last < end - Period THEN end - Period ELSE last
            times == ScheduleTimes(s, from, end)
<1>1. LocalOK(s) /\ DataOK /\ RecordOK /\ now \in Nat /\ pc[s] = "plan"
  BY ClockParts, MinutesOfTimes DEF PlanBackfill
<1>2. end \in Times /\ end \in Nat /\ end <= now
  BY <1>1, SoonestOfScheduler
<1>3. times \subseteq Times /\ \A t \in times : t < end /\ Minute(t) \in Due(s)
  BY <1>2, ScheduleTimesAre
<1>4. StepOf(s) /\ LocalOK(s)'
  <2>1. CASE last = Null \/ times = {}
    <3>1. BeginLoop(s) /\ todo' = [todo EXCEPT ![s] = {}] /\ now' = now
      BY <2>1 DEF PlanBackfill
    <3>. QED  BY <3>1, BeginLoopKeepsClock
  <2>2. CASE ~(last = Null \/ times = {})
    <3>1. StepOf(s) /\ pc'[s] = "check" /\ todo'[s] = times /\ ticker' = ticker
      BY <2>2, ClockParts DEF PlanBackfill, StepOf
    <3>2. ticker[s] = 0
      BY <1>1 DEF LocalOK, SchedulerOK
    <3>. HIDE DEF end, times
    <3>3. \A t \in times : t \in Nat /\ t <= now
      BY <1>1, <1>2, <1>3, MinutesOfTimes
    <3>. QED
      BY <1>1, <1>3, <2>2, <3>1, <3>2, <3>3, CronBounds
      DEF StepOf, LocalOK, SchedulerOK, States, Working
  <2>. QED  BY <2>1, <2>2
<1>5. DataOK' /\ RecordOK'
  BY <1>1, DueIsMinutes DEF PlanBackfill, DataOK, RecordOK
<1>. QED  BY <1>4, <1>5, StepKeepsClock

LEMMA TickKeepsClock ==
  ASSUME ClockInv, NEW s \in Schedulers, Tick(s)
  PROVE  ClockInv'
<1>1. /\ LocalOK(s) /\ DataOK /\ RecordOK
      /\ now \in Times /\ now \in Nat
      /\ pc[s] = "idle" /\ ticker[s] \in Nat /\ ticker[s] <= now
  BY ClockParts, MinutesOfTimes DEF Tick
<1>2. /\ ticker'[s] \in Nat /\ ticker'[s] # 0
      /\ now < ticker'[s] /\ ticker'[s] <= now + PerMinute
  <2>1. ticker'[s] = NextTick(ticker[s])
    BY ClockParts DEF Tick
  <2>. QED  BY <1>1, <2>1, NextTickIsNear
<1>3. StepOf(s) /\ LocalOK(s)'
  <2>1. CASE Minute(now) \in Due(s)
    <3>1. StepOf(s) /\ pc'[s] = "check" /\ todo'[s] = {now}
      BY <2>1, ClockParts DEF Tick, StepOf
    <3>. QED  BY <1>1, <1>2, <2>1, <3>1 DEF StepOf, LocalOK, SchedulerOK, States, Working
  <2>2. CASE Minute(now) \notin Due(s)
    <3>1. StepOf(s) /\ pc'[s] = "idle" /\ todo'[s] = {}
      BY <1>1, <2>2, ClockParts DEF Tick, StepOf, LocalOK, SchedulerOK
    <3>. QED  BY <1>1, <1>2, <2>2, <3>1 DEF StepOf, LocalOK, SchedulerOK, States, Working
  <2>. QED  BY <2>1, <2>2
<1>4. DataOK' /\ RecordOK'
  BY <1>1, DueIsMinutes DEF Tick, PassedOver, DataOK, RecordOK
<1>. QED  BY <1>3, <1>4, StepKeepsClock

LEMMA CheckKeepsClock ==
  ASSUME ClockInv, NEW s \in Schedulers, Check(s)
  PROVE  ClockInv'
<1>1. LocalOK(s) /\ DataOK /\ RecordOK /\ pc[s] = "check" /\ pc[s] \in Working
  BY ClockParts DEF Check, Working
<1>2. Minute(Soonest(s)) \in Nat
  BY <1>1, SoonestOfScheduler
<1>3. StepOf(s) /\ LocalOK(s)'
  <2>1. CASE AlreadyScheduled(s)
    BY <1>1, <2>1, DoneKeepsClock DEF Check
  <2>2. CASE ~AlreadyScheduled(s)
    <3>1. /\ StepOf(s) /\ pc'[s] = "record"
          /\ todo' = todo /\ ticker' = ticker
      BY <2>2, ClockParts DEF Check, StepOf
    <3>. QED  BY <1>1, <3>1 DEF StepOf, LocalOK, SchedulerOK, States, Working
  <2>. QED  BY <2>1, <2>2
<1>4. DataOK' /\ RecordOK'
  BY <1>1, <1>2 DEF Check, DataOK, RecordOK
<1>. QED  BY <1>3, <1>4, StepKeepsClock

LEMMA RecordKeepsClock ==
  ASSUME ClockInv, NEW s \in Schedulers, Record(s)
  PROVE  ClockInv'
<1>1. /\ LocalOK(s) /\ DataOK /\ RecordOK /\ pc[s] = "record" /\ pc[s] \in Working
      /\ now \in Times /\ now \in Nat
  BY ClockParts, MinutesOfTimes DEF Record, Working
<1>2. Soonest(s) \in Times /\ Soonest(s) <= now
  BY <1>1, SoonestOfScheduler
<1>3. StepOf(s) /\ pc'[s] = "add" /\ todo' = todo /\ ticker' = ticker
  BY ClockParts DEF Record, StepOf
<1>4. LocalOK(s)'
  BY <1>1, <1>3 DEF StepOf, LocalOK, SchedulerOK, States, Working
<1>5. givenUp' \subseteq Nat
  BY <1>1, DueIsMinutes DEF Record, Overtaken, DataOK
<1>6. DataOK' /\ RecordOK'
  BY <1>1, <1>2, <1>5, CronBounds, MinutesOfTimes DEF Record, Later, DataOK, RecordOK
<1>. QED  BY <1>3, <1>4, <1>6, StepKeepsClock

LEMMA AddKeepsClock ==
  ASSUME ClockInv, NEW s \in Schedulers, Add(s)
  PROVE  ClockInv'
<1>1. LocalOK(s) /\ DataOK /\ RecordOK /\ pc[s] = "add" /\ pc[s] \in Working
  BY ClockParts DEF Add, Working
<1>2. StepOf(s) /\ LocalOK(s)'
  BY <1>1, DoneKeepsClock DEF Add
<1>3. DataOK' /\ RecordOK'
  <2>1. Minute(Soonest(s)) \in Minutes
    BY <1>1, SoonestOfScheduler
  <2>2. jobs \in [Minutes -> Nat]
    BY <1>1 DEF DataOK
  <2>3. jobs' \in [Minutes -> Nat]
    BY <2>1, <2>2 DEF Add
  <2>4. UNCHANGED <<now, last, starts, first, givenUp, raced, late, misread>>
    BY DEF Add
  <2>. QED  BY <1>1, <2>3, <2>4 DEF DataOK, RecordOK
<1>. QED  BY <1>2, <1>3, StepKeepsClock

LEMMA FailKeepsClock ==
  ASSUME ClockInv, NEW s \in Schedulers, Fail(s)
  PROVE  ClockInv'
<1>1. LocalOK(s) /\ DataOK /\ RecordOK
  BY ClockParts
<1>2. StepOf(s) /\ LocalOK(s)'
  <2>1. CASE ticker[s] = 0
    BY <2>1, BeginLoopKeepsClock DEF Fail
  <2>2. CASE ticker[s] # 0
    <3>1. StepOf(s) /\ pc'[s] = "idle" /\ todo'[s] = {} /\ ticker' = ticker
      BY <2>2, ClockParts DEF Fail, StepOf
    <3>. QED  BY <1>1, <2>2, <3>1 DEF StepOf, LocalOK, SchedulerOK, States, Working
  <2>. QED  BY <2>1, <2>2
<1>3. \A t \in todo[s] : Minute(t) \in Nat
  BY <1>1, MinutesOfTimes DEF LocalOK
<1>4. DataOK' /\ RecordOK'
  BY <1>1, <1>3, DueIsMinutes DEF Fail, DataOK, RecordOK
<1>. QED  BY <1>2, <1>4, StepKeepsClock

LEMMA CrashKeepsClock ==
  ASSUME ClockInv, NEW s \in Schedulers, Crash(s)
  PROVE  ClockInv'
<1>1. LocalOK(s) /\ DataOK /\ RecordOK /\ now \in Nat
  BY ClockParts, MinutesOfTimes
<1>2. StepOf(s) /\ pc'[s] = "down" /\ todo'[s] = {} /\ ticker'[s] = 0
  BY ClockParts DEF Crash, StepOf
<1>3. LocalOK(s)'
  BY <1>1, <1>2, CronBounds DEF StepOf, LocalOK, SchedulerOK, States, Working
<1>4. pc[s] = "add" => Minute(Soonest(s)) \in Nat
  BY SoonestOfScheduler DEF Working
<1>5. DataOK' /\ RecordOK'
  BY <1>1, <1>4 DEF Crash, DataOK, RecordOK
<1>. QED  BY <1>2, <1>3, <1>5, StepKeepsClock

LEMMA AdvanceKeepsClock ==
  ASSUME ClockInv, Advance
  PROVE  ClockInv'
<1>1. /\ now \in Nat /\ now' = now + 1 /\ now' \in Times /\ now' \in Nat
      /\ UNCHANGED <<last, pc, todo, ticker, starts, jobs, first, raced, late, misread>>
  BY ClockParts, CronBounds DEF Advance, Times
<1>2. ASSUME NEW s \in Schedulers
      PROVE  LocalOK(s)'
  <2>1. LocalOK(s) /\ todo[s] \subseteq Nat /\ ticker[s] \in Nat
    BY ClockParts, MinutesOfTimes
  <2>. QED  BY <1>1, <2>1, CronBounds DEF LocalOK, SchedulerOK
<1>3. DataOK'
  <2>1. givenUp' \subseteq givenUp \cup Nat
    BY DueIsMinutes DEF Advance
  <2>. QED  BY <1>1, <2>1, ClockParts DEF DataOK
<1>4. RecordOK'
  <2>1. last # Null => last \in Nat /\ last <= now
    BY ClockParts, MinutesOfTimes DEF DataOK, RecordOK
  <2>. QED  BY <1>1, <2>1, ClockParts DEF RecordOK
<1>. QED
  BY <1>1, <1>2, <1>3, <1>4, ClockParts DEF ClockInv, TypeOK, LocalOK, DataOK, States, Working

LEMMA ClockInvStep == ClockInv /\ [Next]_cronVars => ClockInv'
<1>. SUFFICES ASSUME ClockInv, [Next]_cronVars PROVE ClockInv'
  OBVIOUS
<1>1. CASE Advance
  BY <1>1, AdvanceKeepsClock
<1>2. ASSUME NEW s \in Schedulers,
             \/ Start(s) \/ PlanBackfill(s) \/ Tick(s)
             \/ Check(s) \/ Record(s) \/ Add(s)
             \/ Fail(s) \/ Crash(s)
      PROVE  ClockInv'
  BY <1>2, StartKeepsClock, PlanKeepsClock, TickKeepsClock, CheckKeepsClock,
     RecordKeepsClock, AddKeepsClock, FailKeepsClock, CrashKeepsClock
<1>3. CASE UNCHANGED cronVars
  BY <1>3 DEF cronVars, ClockInv, TypeOK, RecordOK, SchedulerOK, Soonest
<1>. QED  BY <1>1, <1>2, <1>3 DEF Next

LEMMA ClockInvInit == Init => ClockInv
<1>. SUFFICES ASSUME Init PROVE ClockInv
  OBVIOUS
<1>1. 0 \in Times /\ 0 \in 0 .. MaxStarts
  BY CronBounds DEF Times
<1>2. \A s \in Schedulers : LocalOK(s)
  BY <1>1, CronBounds DEF Init, LocalOK, SchedulerOK, States, Working
<1>3. DataOK /\ RecordOK
  BY <1>1 DEF Init, DataOK, RecordOK
<1>4. /\ pc \in [Schedulers -> States]
      /\ todo \in [Schedulers -> SUBSET Times]
      /\ ticker \in [Schedulers -> Nat]
  BY DEF Init, States
<1>. QED  BY <1>1, <1>2, <1>3, <1>4, ClockParts DEF Init

LEMMA ClockInvHolds == Spec => []ClockInv
BY ClockInvInit, ClockInvStep, PTL DEF Spec

\* Every variable keeps its type, and a scheduler at work has an instant to deal
\* with, whatever the pattern and however long the backfill: pkg/cron/scheduler.go.
THEOREM CronTypeCorrect == Spec => []TypeOK
<1>1. ClockInv => TypeOK
  BY DEF ClockInv
<1>. QED  BY <1>1, ClockInvHolds, PTL

-------------------------------------------------------------------------------
(***************************************************************************)
(* Why a minute is executed twice.                                         *)
(***************************************************************************)
DuplicatesInv == WasRecorded /\ OneDecides

\* A step of s is no step of another scheduler.
LEMMA OthersStay ==
  ASSUME ClockInv, NEW s \in Schedulers, StepOf(s),
         NEW r \in Schedulers, r # s
  PROVE  /\ pc'[r] = pc[r] /\ todo'[r] = todo[r] /\ ticker'[r] = ticker[r]
         /\ Soonest(r)' = Soonest(r)
         /\ \A m : (Decided(r, m)' <=> Decided(r, m)) /\ (Adding(r, m)' <=> Adding(r, m))
<1>1. pc'[r] = pc[r] /\ todo'[r] = todo[r] /\ ticker'[r] = ticker[r]
  BY ClockParts DEF StepOf
<1>2. Soonest(r)' = Soonest(r)
  BY <1>1 DEF Soonest
<1>. QED  BY <1>1, <1>2 DEF Decided, Adding

\* Done leaves a scheduler before a question or at rest.
LEMMA DoneDecidesNothing ==
  ASSUME ClockInv, NEW s \in Schedulers, Done(s)
  PROVE  pc'[s] \in {"check", "idle"}
BY ClockParts DEF Done, BeginLoop

\* Steps that decide, record and add nothing.
LEMMA QuietStepsDuplicateNothing ==
  ASSUME ClockInv, DuplicatesInv, NEW s \in Schedulers, StepOf(s),
         pc'[s] \notin {"record", "add"}, UNCHANGED <<last, jobs, raced, late>>,
         misread \subseteq misread'
  PROVE  DuplicatesInv'
<1>1. ASSUME NEW r \in Schedulers, NEW m
      PROVE  (Decided(r, m)' => Decided(r, m)) /\ (Adding(r, m)' => Adding(r, m))
  <2>1. CASE r = s
    BY <2>1 DEF Decided, Adding
  <2>2. CASE r # s
    BY <2>2, OthersStay
  <2>. QED  BY <2>1, <2>2
<1>2. WasRecorded'
  BY <1>1 DEF DuplicatesInv, WasRecorded
<1>3. OneDecides'
  BY <1>1 DEF DuplicatesInv, OneDecides
<1>. QED  BY <1>2, <1>3 DEF DuplicatesInv

\* A scheduler decides: but for the causes, nobody has decided on that minute.
LEMMA CheckDuplicatesNothing ==
  ASSUME ClockInv, DuplicatesInv, NEW s \in Schedulers, Check(s), ~AlreadyScheduled(s)
  PROVE  DuplicatesInv'
<1>. DEFINE k == Minute(Soonest(s))
<1>1. /\ StepOf(s) /\ pc[s] = "check" /\ pc'[s] = "record"
      /\ UNCHANGED <<now, last, todo, jobs>>
  BY ClockParts DEF Check, StepOf
<1>2. Soonest(s)' = Soonest(s)
  BY <1>1 DEF Soonest
<1>3. k \in Minutes /\ k \in Nat /\ now \in Nat /\ k <= Minute(now) /\ Minute(now) \in Nat
  <2>1. Soonest(s) \in Nat /\ Soonest(s) <= now /\ k \in Minutes /\ k \in Nat
    BY <1>1, SoonestOfScheduler DEF Working
  <2>2. now \in Nat
    BY ClockParts, MinutesOfTimes
  <2>. QED  BY <2>1, <2>2, MinuteMonotone, MinuteType
<1>4. raced \subseteq raced' /\ late \subseteq late' /\ misread \subseteq misread'
  BY <1>1 DEF Check
<1>. HIDE DEF k
<1>5. k \notin late' => k = Minute(now)
  BY <1>3 DEF Check, k
<1>6. last # Null => Minute(last) \in Nat /\ Minute(last) <= Minute(now)
  <2>1. last # Null => last \in Nat /\ last <= now
    BY ClockParts, MinutesOfTimes DEF DataOK, RecordOK
  <2>. QED  BY <1>3, <2>1, MinuteMonotone, MinuteType
<1>m. k \notin misread' => ~(last # Null /\ Minute(last) = Minute(now))
  BY DEF Check, AlreadyScheduled, Misread, k
<1>7. k \notin late' \cup misread' => ~(last # Null /\ Minute(last) >= k)
  BY <1>3, <1>5, <1>6, <1>m
<1>8. k \notin late' \cup misread' => jobs[k] = 0 /\ \A r \in Schedulers : ~Adding(r, k)
  <2>1. jobs[k] \in Nat
    BY <1>3, ClockParts DEF DataOK
  <2>. QED  BY <1>3, <1>7, <2>1 DEF DuplicatesInv, WasRecorded
<1>9. k \notin raced' \cup late' \cup misread' => \A r \in Schedulers \ {s} : ~Decided(r, k)
  <2>1. k \notin raced' => \A r \in Schedulers \ {s} : ~(pc[r] = "record" /\ Minute(Soonest(r)) = k)
    BY DEF Check, k
  <2>. QED  BY <1>8, <2>1 DEF Decided, Adding
<1>10. \A m : Decided(s, m)' <=> m = k
  BY <1>1, <1>2 DEF Decided, k
<1>11. WasRecorded'
  <2>1. \A r \in Schedulers : \A m : Adding(r, m)' => Adding(r, m)
    BY <1>1, OthersStay DEF Adding
  <2>. QED  BY <1>1, <2>1 DEF DuplicatesInv, WasRecorded
<1>12. OneDecides'
  <2>1. ASSUME NEW m \in Minutes, m \notin raced' \cup late' \cup misread'
        PROVE  /\ jobs[m] <= 1
               /\ \A r \in Schedulers : Decided(r, m)' => jobs[m] = 0
               /\ \A q, r \in Schedulers : Decided(q, m)' /\ Decided(r, m)' => q = r
    <3>1. /\ jobs[m] <= 1
          /\ \A r \in Schedulers : Decided(r, m) => jobs[m] = 0
          /\ \A q, r \in Schedulers : Decided(q, m) /\ Decided(r, m) => q = r
      BY <1>4, <2>1 DEF DuplicatesInv, OneDecides
    <3>2. \A r \in Schedulers \ {s} : Decided(r, m)' <=> Decided(r, m)
      BY <1>1, OthersStay
    <3>3. CASE m = k
      BY <1>8, <1>9, <2>1, <3>1, <3>2, <3>3
    <3>4. CASE m # k
      BY <1>10, <3>1, <3>2, <3>4
    <3>. QED  BY <3>3, <3>4
  <2>. QED  BY <1>1, <2>1 DEF OneDecides
<1>. QED  BY <1>11, <1>12 DEF DuplicatesInv

LEMMA RecordDuplicatesNothing ==
  ASSUME ClockInv, DuplicatesInv, NEW s \in Schedulers, Record(s)
  PROVE  DuplicatesInv'
<1>. DEFINE t == Soonest(s)
<1>1. /\ StepOf(s) /\ pc[s] = "record" /\ pc'[s] = "add"
      /\ UNCHANGED <<now, todo, jobs, raced, late, misread>>
      /\ last' = Later(t)
  BY ClockParts DEF Record, StepOf
<1>2. Soonest(s)' = t
  BY <1>1 DEF Soonest
<1>3. t \in Nat /\ (last # Null => last \in Nat)
  BY <1>1, SoonestOfScheduler, ClockParts, MinutesOfTimes DEF DataOK, Working
<1>. HIDE DEF t
<1>4. /\ last' # Null /\ Minute(last') \in Nat /\ Minute(last') >= Minute(t)
      /\ last # Null => Minute(last) \in Nat /\ Minute(last') >= Minute(last)
  <2>1. /\ last' \in Nat /\ last' >= t /\ last' # Null
        /\ last # Null => last' >= last
    BY <1>1, <1>3, CronBounds DEF Later
  <2>. QED  BY <1>3, <2>1, MinuteMonotone, MinuteType
<1>5. ASSUME NEW r \in Schedulers, NEW m
      PROVE  /\ Decided(r, m)' <=> Decided(r, m)
             /\ Adding(r, m)' => Adding(r, m) \/ m = Minute(t)
  <2>1. CASE r = s
    BY <1>1, <1>2, <2>1 DEF Decided, Adding, t
  <2>2. CASE r # s
    BY <1>1, <2>2, OthersStay
  <2>. QED  BY <2>1, <2>2
<1>6. WasRecorded'
  <2>1. ASSUME NEW m \in Minutes, jobs[m] > 0 \/ (\E r \in Schedulers : Adding(r, m)')
        PROVE  last' # Null /\ Minute(last') >= m
    <3>1. CASE m = Minute(t)
      BY <1>4, <3>1
    <3>2. CASE m # Minute(t)
      <4>1. last # Null /\ Minute(last) >= m
        BY <1>5, <2>1, <3>2 DEF DuplicatesInv, WasRecorded
      <4>. QED  BY <1>4, <4>1, MinutesOfTimes
    <3>. QED  BY <3>1, <3>2
  <2>. QED  BY <1>1, <2>1 DEF WasRecorded
<1>7. OneDecides'
  BY <1>1, <1>5 DEF DuplicatesInv, OneDecides
<1>. QED  BY <1>6, <1>7 DEF DuplicatesInv

LEMMA AddDuplicatesNothing ==
  ASSUME ClockInv, DuplicatesInv, NEW s \in Schedulers, Add(s)
  PROVE  DuplicatesInv'
<1>. DEFINE k == Minute(Soonest(s))
<1>1. /\ StepOf(s) /\ pc[s] = "add" /\ pc'[s] \in {"check", "idle"}
      /\ UNCHANGED <<now, last, raced, late, misread>>
      /\ jobs' = [jobs EXCEPT ![k] = @ + 1]
  BY DoneKeepsClock, DoneDecidesNothing DEF Add, Working
<1>2. k \in Minutes
  BY <1>1, SoonestOfScheduler DEF Working
<1>. HIDE DEF k
<1>3. /\ jobs \in [Minutes -> Nat]
      /\ jobs'[k] = jobs[k] + 1
      /\ \A m \in Minutes \ {k} : jobs'[m] = jobs[m]
  BY <1>1, <1>2, ClockParts DEF DataOK
<1>4. Adding(s, k) /\ Decided(s, k)
  BY <1>1 DEF Adding, Decided, k
<1>5. ASSUME NEW r \in Schedulers, NEW m
      PROVE  /\ Decided(r, m)' => Decided(r, m) /\ r # s
             /\ Adding(r, m)' => Adding(r, m)
  <2>1. CASE r = s
    BY <1>1, <2>1 DEF Decided, Adding
  <2>2. CASE r # s
    BY <1>1, <2>2, OthersStay
  <2>. QED  BY <2>1, <2>2
<1>6. WasRecorded'
  <2>1. ASSUME NEW m \in Minutes, jobs'[m] > 0 \/ (\E r \in Schedulers : Adding(r, m)')
        PROVE  last # Null /\ Minute(last) >= m
    BY <1>3, <1>4, <1>5, <2>1 DEF DuplicatesInv, WasRecorded
  <2>. QED  BY <1>1, <2>1 DEF WasRecorded
<1>7. OneDecides'
  <2>1. ASSUME NEW m \in Minutes, m \notin raced \cup late \cup misread
        PROVE  /\ jobs'[m] <= 1
               /\ \A r \in Schedulers : Decided(r, m)' => jobs'[m] = 0
               /\ \A q, r \in Schedulers : Decided(q, m)' /\ Decided(r, m)' => q = r
    <3>1. /\ jobs[m] <= 1
          /\ \A r \in Schedulers : Decided(r, m) => jobs[m] = 0
          /\ \A q, r \in Schedulers : Decided(q, m) /\ Decided(r, m) => q = r
      BY <2>1 DEF DuplicatesInv, OneDecides
    <3>2. CASE m = k
      <4>1. \A r \in Schedulers : ~Decided(r, m)'
        BY <1>4, <1>5, <3>1, <3>2
      <4>. QED  BY <1>3, <1>4, <3>1, <3>2, <4>1
    <3>3. CASE m # k
      BY <1>3, <1>5, <3>1, <3>3
    <3>. QED  BY <3>2, <3>3
  <2>. QED  BY <1>1, <2>1 DEF OneDecides
<1>. QED  BY <1>6, <1>7 DEF DuplicatesInv

\* Which steps of a scheduler are quiet in this sense.
LEMMA QuietSteps ==
  ASSUME ClockInv, NEW s \in Schedulers,
         \/ Start(s) \/ PlanBackfill(s) \/ Tick(s) \/ (Check(s) /\ AlreadyScheduled(s))
         \/ Fail(s) \/ Crash(s)
  PROVE  /\ StepOf(s) /\ pc'[s] \notin {"record", "add"}
         /\ UNCHANGED <<now, last, jobs, first, raced, late>>
         /\ misread \subseteq misread'
<1>1. CASE Start(s)
  BY <1>1, ClockParts DEF Start, BeginLoop, StepOf
<1>2. CASE PlanBackfill(s)
  BY <1>2, ClockParts DEF PlanBackfill, BeginLoop, StepOf
<1>3. CASE Tick(s)
  BY <1>3, ClockParts DEF Tick, StepOf
<1>4. CASE Check(s) /\ AlreadyScheduled(s)
  BY <1>4, DoneKeepsClock, DoneDecidesNothing DEF Check, Working
<1>5. CASE Fail(s)
  BY <1>5, ClockParts DEF Fail, BeginLoop, StepOf
<1>6. CASE Crash(s)
  BY <1>6, ClockParts DEF Crash, StepOf
<1>. QED  BY <1>1, <1>2, <1>3, <1>4, <1>5, <1>6

LEMMA DuplicatesInvStep == ClockInv /\ DuplicatesInv /\ [Next]_cronVars => DuplicatesInv'
<1>. SUFFICES ASSUME ClockInv, DuplicatesInv, [Next]_cronVars PROVE DuplicatesInv'
  OBVIOUS
<1>1. CASE Advance \/ UNCHANGED cronVars
  <2>1. UNCHANGED <<last, pc, todo, jobs, raced, late, misread>>
    BY <1>1 DEF Advance, cronVars
  <2>2. \A s \in Schedulers : Soonest(s)' = Soonest(s)
    BY <2>1 DEF Soonest
  <2>3. \A s \in Schedulers : \A m :
          (Decided(s, m)' <=> Decided(s, m)) /\ (Adding(s, m)' <=> Adding(s, m))
    BY <2>1, <2>2 DEF Decided, Adding
  <2>4. WasRecorded'
    BY <2>1, <2>3 DEF DuplicatesInv, WasRecorded
  <2>5. OneDecides'
    BY <2>1, <2>3 DEF DuplicatesInv, OneDecides
  <2>. QED  BY <2>4, <2>5 DEF DuplicatesInv
<1>2. ASSUME NEW s \in Schedulers,
             \/ Start(s) \/ PlanBackfill(s) \/ Tick(s)
             \/ Check(s) \/ Record(s) \/ Add(s)
             \/ Fail(s) \/ Crash(s)
      PROVE  DuplicatesInv'
  BY <1>2, QuietSteps, QuietStepsDuplicateNothing, CheckDuplicatesNothing,
     RecordDuplicatesNothing, AddDuplicatesNothing
<1>. QED  BY <1>1, <1>2 DEF Next

LEMMA DuplicatesInvInit == Init => DuplicatesInv
BY DEF Init, DuplicatesInv, WasRecorded, OneDecides, Adding, Decided

\* A minute is executed twice only when two schedulers decided on it before either
\* had recorded it, one decided when the minute was over, or the clocks of the
\* process and its session gave the question a wrong answer, however the statements
\* of isTaskAlreadyScheduled(s), recordScheduledTask and addJobToQueue interleave.
THEOREM DuplicatesAreCaused == Spec => []DuplicatesHaveCauses
<1>1. ClockInv /\ DuplicatesInv => DuplicatesHaveCauses
  BY ClockParts DEF DuplicatesInv, OneDecides, DuplicatesHaveCauses, DataOK
<1>2. Spec => []DuplicatesInv
  BY DuplicatesInvInit, DuplicatesInvStep, ClockInvHolds, PTL DEF Spec
<1>. QED  BY <1>1, <1>2, ClockInvHolds, PTL

-------------------------------------------------------------------------------
(***************************************************************************)
(* Why a minute is not executed.                                           *)
(***************************************************************************)
\* What is settled stays settled in a step of s that drops no count, gives up
\* nothing less and does not forget the job s was about to add.
LEMMA SettledStays ==
  ASSUME ClockInv, NEW s \in Schedulers, StepOf(s),
         givenUp \subseteq givenUp', misread \subseteq misread',
         \A m \in Minutes : jobs[m] > 0 => jobs'[m] > 0,
         \A m : Adding(s, m) => jobs'[m] > 0 \/ m \in givenUp' \cup misread' \/ Adding(s, m)',
         NEW m \in Minutes, Settled(m)
  PROVE  Settled(m)'
<1>1. ASSUME NEW r \in Schedulers, Adding(r, m)
      PROVE  Settled(m)'
  <2>1. CASE r = s
    BY <1>1, <2>1 DEF Settled
  <2>2. CASE r # s
    BY <1>1, <2>2, OthersStay DEF Settled
  <2>. QED  BY <2>1, <2>2
<1>. QED  BY <1>1 DEF Settled

LEMMA CountedBegan ==
  ASSUME ClockInv, NEW s \in Schedulers, NEW m \in Minutes, Counted(s, m)
  PROVE  /\ m \in Nat /\ m \in Due(s) /\ m * PerMinute \in Nat
         /\ now \in Nat /\ m <= Minute(now) /\ Minute(now) \in Nat
         /\ last # Null /\ last \in Nat /\ Minute(last) \in Nat
<1>1. m \in Nat /\ now \in Nat /\ m \in Due(s) /\ m * PerMinute <= now
  BY ClockParts, MinutesOfTimes DEF Counted
<1>2. last # Null /\ last \in Nat
  BY ClockParts, MinutesOfTimes DEF DataOK, RecordOK, Counted
<1>. QED  BY <1>1, <1>2, MinuteStarts, MinuteType

\* What is left to show of a step of s that records nothing: that s still has
\* before it what is not settled.
Looks(s) ==
  /\ pc[s] \in Working \cup {"idle"} =>
       \A m \in Minutes : Counted(s, m) /\ ~Settled(m) => Ahead(s, m)
  /\ pc[s] = "plan" =>
       \A m \in Due(s) : \A t \in todo[s] :
         t <= m * PerMinute /\ m * PerMinute <= now => m \in givenUp

LEMMA StepForgetsNothing ==
  ASSUME ClockInv, MissedInv, NEW s \in Schedulers, StepOf(s),
         UNCHANGED <<last, first>>,
         givenUp \subseteq givenUp', misread \subseteq misread',
         \A m \in Minutes : Settled(m) => Settled(m)',
         Looks(s)'
  PROVE  MissedInv'
<1>1. now' = now
  BY DEF StepOf
<1>2. \A r \in Schedulers : \A m : Counted(r, m)' <=> Counted(r, m)
  BY <1>1 DEF Counted
<1>3. LastIsSettled'
  <2>1. last # Null => Minute(last) \in Minutes
    BY ClockParts, MinutesOfTimes DEF DataOK
  <2>. QED  BY <2>1 DEF MissedInv, LastIsSettled
<1>4. RecordIsBehind'
  BY <1>2 DEF MissedInv, RecordIsBehind
<1>5. NothingForgotten'
  <2>1. ASSUME NEW r \in Schedulers, pc'[r] \in Working \cup {"idle"},
               NEW m \in Minutes, Counted(r, m), ~Settled(m)'
        PROVE  Ahead(r, m)'
    <3>1. CASE r = s
      BY <1>2, <2>1, <3>1 DEF Looks
    <3>2. CASE r # s
      <4>1. pc'[r] = pc[r] /\ todo'[r] = todo[r] /\ ticker'[r] = ticker[r]
        BY <3>2, OthersStay
      <4>. QED  BY <2>1, <4>1 DEF MissedInv, NothingForgotten, Ahead
    <3>. QED  BY <3>1, <3>2
  <2>. QED  BY <1>2, <2>1 DEF NothingForgotten
<1>6. PlanIsExact'
  <2>1. ASSUME NEW r \in Schedulers, pc'[r] = "plan",
               NEW m \in Due(r), NEW t \in todo'[r],
               t <= m * PerMinute, m * PerMinute <= now
        PROVE  m \in givenUp'
    <3>1. CASE r = s
      BY <1>1, <2>1, <3>1 DEF Looks
    <3>2. CASE r # s
      <4>1. pc'[r] = pc[r] /\ todo'[r] = todo[r]
        BY <3>2, OthersStay
      <4>. QED  BY <2>1, <4>1 DEF MissedInv, PlanIsExact
    <3>. QED  BY <3>1, <3>2
  <2>. QED  BY <1>1, <2>1 DEF PlanIsExact
<1>. QED  BY <1>3, <1>4, <1>5, <1>6 DEF MissedInv

LEMMA StartForgetsNothing ==
  ASSUME ClockInv, MissedInv, NEW s \in Schedulers, Start(s)
  PROVE  MissedInv'
<1>1. /\ StepOf(s) /\ UNCHANGED <<now, last, jobs, first>>
      /\ givenUp \subseteq givenUp' /\ misread \subseteq misread' /\ pc[s] = "down"
  BY QuietSteps DEF Start
<1>2. \A m \in Minutes : Settled(m) => Settled(m)'
  BY <1>1, SettledStays DEF Adding
<1>3. Looks(s)'
  <2>1. CASE Backfill
    <3>1. pc'[s] = "plan" /\ todo'[s] = {now}
      BY <2>1, ClockParts DEF Start
    <3>2. \A m \in Due(s) : m * PerMinute = now => m \in givenUp'
      BY <2>1 DEF Start
    <3>3. now \in Nat
      BY ClockParts, MinutesOfTimes
    <3>4. \A m \in Due(s) : m * PerMinute \in Nat
      BY CronBounds, DueIsMinutes
    <3>. QED  BY <1>1, <3>1, <3>2, <3>3, <3>4 DEF Looks, Working
  <2>2. CASE ~Backfill
    <3>1. pc'[s] = "idle"
      BY <2>2, ClockParts DEF Start, BeginLoop
    <3>2. \A m \in Due(s) : m * PerMinute <= now => m \in givenUp'
      BY <2>2 DEF Start
    <3>. QED  BY <1>1, <3>1, <3>2 DEF Looks, Counted, Settled
  <2>. QED  BY <2>1, <2>2
<1>. QED  BY <1>1, <1>2, <1>3, StepForgetsNothing

\* Between the record and the end of the backfill PlanBackfill finds what is not
\* settled, and what it does not look back at is given up.
LEMMA PlanForgetsNothing ==
  ASSUME ClockInv, MissedInv, NEW s \in Schedulers, PlanBackfill(s)
  PROVE  MissedInv'
<1>. DEFINE end == Soonest(s)
            from == IF last < end - Period THEN end - Period ELSE last
            times == ScheduleTimes(s, from, end)
<1>1. /\ StepOf(s) /\ UNCHANGED <<now, last, jobs, first>>
      /\ givenUp \subseteq givenUp' /\ misread \subseteq misread' /\ pc[s] = "plan"
      /\ pc'[s] # "plan"
  BY QuietSteps, ClockParts DEF PlanBackfill, BeginLoop
<1>2. \A m \in Minutes : Settled(m) => Settled(m)'
  BY <1>1, SettledStays DEF Adding
<1>3. end \in Times /\ end \in Nat /\ end <= now /\ end \in todo[s]
  BY <1>1, SoonestOfScheduler
<1>4. ASSUME NEW m \in Minutes, Counted(s, m), ~Settled(m)'
      PROVE  last # Null /\ \E t \in times : Minute(t) = m
  <2>1. /\ m \in Nat /\ m \in Due(s) /\ m * PerMinute \in Nat /\ m * PerMinute <= now
        /\ last # Null /\ last \in Nat /\ Minute(last) \in Nat
    BY <1>4, CountedBegan DEF Counted
  <2>2. ~Settled(m) /\ m \notin givenUp'
    BY <1>2, <1>4 DEF Settled
  <2>3. Minute(last) < m
    BY <1>4, <2>2 DEF MissedInv, RecordIsBehind
  <2>4. m >= Minute(from)
    <3>1. CASE last < end - Period
      <4>1. ~(m < Minute(from))
        BY <2>1, <2>2, <3>1 DEF PlanBackfill
      <4>2. from \in Nat
        BY <1>3, <2>1, <3>1, CronBounds
      <4>. HIDE DEF from
      <4>. QED  BY <2>1, <4>1, <4>2, MinuteType
    <3>2. CASE ~(last < end - Period)
      BY <2>1, <2>3, <3>2
    <3>. QED  BY <3>1, <3>2
  <2>5. m * PerMinute < end
    <3>1. SUFFICES ASSUME end <= m * PerMinute PROVE FALSE
      BY <1>3, <2>1
    <3>2. m \in givenUp
      BY <1>1, <1>3, <2>1, <3>1 DEF MissedInv, PlanIsExact
    <3>. QED  BY <1>1, <2>2, <3>2
  <2>6. m \in MissedMinutes(s, from, end)
    BY <2>1, <2>4, <2>5 DEF MissedMinutes
  <2>. QED  BY <1>3, <2>1, <2>6, ScheduleTimesAre
<1>5. Looks(s)'
  <2>1. ASSUME NEW m \in Minutes, Counted(s, m), ~Settled(m)'
        PROVE  Ahead(s, m)'
    <3>1. last # Null /\ \E t \in times : Minute(t) = m
      BY <1>4, <2>1
    <3>2. todo' = [todo EXCEPT ![s] = times]
      BY <3>1 DEF PlanBackfill
    <3>3. todo'[s] = times
      BY <3>2, ClockParts
    <3>. QED  BY <3>1, <3>3 DEF Ahead
  <2>2. \A m : Counted(s, m)' <=> Counted(s, m)
    BY <1>1 DEF Counted
  <2>. QED  BY <1>1, <2>1, <2>2 DEF Looks
<1>. QED  BY <1>1, <1>2, <1>5, StepForgetsNothing

\* A tick that is received late gives up the minutes that have gone by, and takes
\* the one it is.
LEMMA TickForgetsNothing ==
  ASSUME ClockInv, MissedInv, NEW s \in Schedulers, Tick(s)
  PROVE  MissedInv'
<1>1. /\ StepOf(s) /\ UNCHANGED <<now, last, jobs, first>>
      /\ givenUp \subseteq givenUp' /\ misread \subseteq misread' /\ pc[s] = "idle"
      /\ pc'[s] # "plan"
  BY QuietSteps, ClockParts DEF Tick
<1>2. \A m \in Minutes : Settled(m) => Settled(m)'
  BY <1>1, SettledStays DEF Adding
<1>3. todo[s] = {}
  BY <1>1, ClockParts DEF LocalOK, SchedulerOK
<1>4. ASSUME NEW m \in Minutes, Counted(s, m), ~Settled(m)'
      PROVE  Ahead(s, m)'
  <2>1. m \in Nat /\ m \in Due(s) /\ m <= Minute(now) /\ Minute(now) \in Nat
    BY <1>4, CountedBegan
  <2>2. ~Settled(m) /\ m \notin givenUp'
    BY <1>2, <1>4 DEF Settled
  <2>3. Minute(ticker[s]) <= m
    BY <1>1, <1>3, <1>4, <2>2 DEF MissedInv, NothingForgotten, Ahead
  <2>4. m = Minute(now)
    BY <2>1, <2>2, <2>3 DEF Tick, PassedOver
  <2>5. todo'[s] = {now}
    BY <2>1, <2>4, ClockParts DEF Tick
  <2>. QED  BY <2>4, <2>5 DEF Ahead
<1>5. \A m : Counted(s, m)' <=> Counted(s, m)
  BY <1>1 DEF Counted
<1>6. Looks(s)'
  BY <1>1, <1>4, <1>5 DEF Looks
<1>. QED  BY <1>1, <1>2, <1>6, StepForgetsNothing

\* A scheduler that has settled its soonest minute may go on to the next.
LEMMA DoneForgetsNothing ==
  ASSUME ClockInv, MissedInv, NEW s \in Schedulers, Done(s), pc[s] \in Working,
         UNCHANGED <<now, first>>,
         \A m \in Minutes : Settled(m) => Settled(m)',
         NEW k, k = Minute(Soonest(s)), Settled(k)'
  PROVE  Looks(s)'
<1>1. pc'[s] \in {"check", "idle"} /\ todo'[s] = todo[s] \ {Soonest(s)}
  BY DoneDecidesNothing, ClockParts DEF Done
<1>2. ticker[s] # 0 => ticker'[s] = ticker[s]
  BY DEF Done
<1>3. ASSUME NEW m \in Minutes, Counted(s, m), ~Settled(m)'
      PROVE  Ahead(s, m)'
  <2>1. Ahead(s, m) /\ m # k
    BY <1>3 DEF MissedInv, NothingForgotten
  <2>. QED  BY <1>1, <1>2, <2>1 DEF Ahead
<1>4. \A m : Counted(s, m)' <=> Counted(s, m)
  BY DEF Counted
<1>. QED  BY <1>1, <1>3, <1>4 DEF Looks

LEMMA CheckForgetsNothing ==
  ASSUME ClockInv, MissedInv, NEW s \in Schedulers, Check(s)
  PROVE  MissedInv'
<1>1. /\ StepOf(s) /\ UNCHANGED <<now, last, jobs, first>>
      /\ givenUp \subseteq givenUp' /\ misread \subseteq misread'
      /\ pc[s] = "check" /\ pc[s] \in Working
  <2>1. CASE AlreadyScheduled(s)
    BY <2>1, QuietSteps DEF Check, Working
  <2>2. CASE ~AlreadyScheduled(s)
    BY <2>2, ClockParts DEF Check, StepOf, Working
  <2>. QED  BY <2>1, <2>2
<1>2. \A m \in Minutes : Settled(m) => Settled(m)'
  BY <1>1, SettledStays DEF Adding
<1>3. Looks(s)'
  <2>1. CASE AlreadyScheduled(s)
    <3>1. PICK k \in Minutes : k = Minute(Soonest(s))
      BY <1>1, SoonestOfScheduler
    <3>2. Settled(k)'
      <4>0. CASE Misread(s)
        BY <3>1, <4>0 DEF Check, Settled
      <4>1. CASE Minute(now) = k /\ ~Misread(s)
        <5>1. Settled(k)
          BY <2>1, <4>1 DEF AlreadyScheduled, Misread, MissedInv, LastIsSettled
        <5>. QED  BY <1>2, <3>1, <5>1
      <4>2. CASE Minute(now) # k
        <5>1. k \in givenUp'
          BY <2>1, <3>1, <4>2 DEF Check
        <5>. QED  BY <5>1 DEF Settled
      <4>. QED  BY <4>0, <4>1, <4>2
    <3>3. Done(s)
      BY <2>1 DEF Check
    <3>. QED  BY <1>1, <1>2, <3>1, <3>2, <3>3, DoneForgetsNothing
  <2>2. CASE ~AlreadyScheduled(s)
    <3>1. pc'[s] = "record" /\ UNCHANGED <<todo, ticker>>
      BY <2>2, ClockParts DEF Check
    <3>2. \A m \in Minutes : (Counted(s, m)' <=> Counted(s, m)) /\ (Ahead(s, m)' <=> Ahead(s, m))
      BY <1>1, <3>1 DEF Counted, Ahead
    <3>. QED  BY <1>1, <1>2, <3>1, <3>2 DEF Looks, MissedInv, NothingForgotten
  <2>. QED  BY <2>1, <2>2
<1>. QED  BY <1>1, <1>2, <1>3, StepForgetsNothing

LEMMA AddForgetsNothing ==
  ASSUME ClockInv, MissedInv, NEW s \in Schedulers, Add(s)
  PROVE  MissedInv'
<1>1. /\ StepOf(s) /\ UNCHANGED <<now, last, first, givenUp, misread>>
      /\ pc[s] = "add" /\ pc[s] \in Working /\ Done(s)
      /\ jobs' = [jobs EXCEPT ![Minute(Soonest(s))] = @ + 1]
  BY DoneKeepsClock DEF Add, Working
<1>2. PICK k \in Minutes : k = Minute(Soonest(s))
  BY <1>1, SoonestOfScheduler
<1>3. \A m : Adding(s, m) => m = k
  BY <1>2 DEF Adding
<1>4. jobs'[k] > 0 /\ \A m \in Minutes : jobs[m] > 0 => jobs'[m] > 0
  BY <1>1, <1>2, ClockParts DEF DataOK
<1>5. \A m \in Minutes : Settled(m) => Settled(m)'
  BY <1>1, <1>3, <1>4, SettledStays
<1>6. Settled(k)'
  BY <1>4 DEF Settled
<1>7. Looks(s)'
  BY <1>1, <1>2, <1>5, <1>6, DoneForgetsNothing
<1>. QED  BY <1>1, <1>5, <1>7, StepForgetsNothing

LEMMA FailForgetsNothing ==
  ASSUME ClockInv, MissedInv, NEW s \in Schedulers, Fail(s)
  PROVE  MissedInv'
<1>1. /\ StepOf(s) /\ UNCHANGED <<now, last, jobs, first>>
      /\ givenUp \subseteq givenUp' /\ misread \subseteq misread'
      /\ pc[s] \in {"plan", "check", "record", "add"} /\ pc'[s] = "idle"
  BY QuietSteps, ClockParts DEF Fail, BeginLoop
<1>2. /\ Soonest(s) \in todo[s] /\ Soonest(s) \in Nat
      /\ pc[s] # "plan" => \A t \in todo[s] : Minute(t) \in givenUp'
      /\ pc[s] = "plan" => \A m \in Due(s) : m * PerMinute < Soonest(s) => m \in givenUp'
  BY <1>1, SoonestOfScheduler DEF Fail, Working
<1>3. \A m \in Minutes : Settled(m) => Settled(m)'
  BY <1>1, <1>2, SettledStays DEF Adding
<1>4. ASSUME NEW m \in Minutes, Counted(s, m), ~Settled(m)'
      PROVE  Ahead(s, m)'
  <2>1. ~Settled(m) /\ m \notin givenUp'
    BY <1>3, <1>4 DEF Settled
  <2>2. m \in Due(s) /\ m * PerMinute \in Nat /\ m * PerMinute <= now
    BY <1>4, CountedBegan DEF Counted
  <2>3. CASE pc[s] = "plan"
    <3>1. Soonest(s) <= m * PerMinute
      BY <1>2, <2>1, <2>2, <2>3
    <3>2. m \in givenUp
      BY <1>2, <2>2, <2>3, <3>1 DEF MissedInv, PlanIsExact
    <3>. QED  BY <1>1, <2>1, <3>2
  <2>4. CASE pc[s] # "plan"
    <3>1. Ahead(s, m)
      BY <1>1, <1>4, <2>1, <2>4 DEF MissedInv, NothingForgotten, Working
    <3>2. ticker[s] # 0 /\ Minute(ticker[s]) <= m
      BY <1>2, <2>1, <2>4, <3>1 DEF Ahead
    <3>3. ticker' = ticker
      BY <3>2 DEF Fail
    <3>. QED  BY <3>2, <3>3 DEF Ahead
  <2>. QED  BY <2>3, <2>4
<1>5. \A m : Counted(s, m)' <=> Counted(s, m)
  BY <1>1 DEF Counted
<1>6. Looks(s)'
  BY <1>1, <1>4, <1>5 DEF Looks
<1>. QED  BY <1>1, <1>3, <1>6, StepForgetsNothing

LEMMA CrashForgetsNothing ==
  ASSUME ClockInv, MissedInv, NEW s \in Schedulers, Crash(s)
  PROVE  MissedInv'
<1>1. /\ StepOf(s) /\ UNCHANGED <<now, last, jobs, first>>
      /\ givenUp \subseteq givenUp' /\ misread \subseteq misread'
      /\ pc'[s] = "down"
  BY QuietSteps, ClockParts DEF Crash
<1>2. \A m : Adding(s, m) => m \in givenUp'
  BY DEF Adding, Crash
<1>3. \A m \in Minutes : Settled(m) => Settled(m)'
  BY <1>1, <1>2, SettledStays
<1>4. Looks(s)'
  BY <1>1 DEF Looks, Working
<1>. QED  BY <1>1, <1>3, <1>4, StepForgetsNothing

\* The record moves on, and past nothing: the scheduler that moves it has what is
\* not settled before it.
LEMMA RecordForgetsNothing ==
  ASSUME ClockInv, MissedInv, NEW s \in Schedulers, Record(s)
  PROVE  MissedInv'
<1>1. /\ StepOf(s) /\ pc[s] = "record" /\ pc[s] \in Working /\ pc'[s] = "add"
      /\ UNCHANGED <<now, todo, ticker, jobs, misread>>
      /\ givenUp' = givenUp \cup Overtaken(s)
      /\ last' = Later(Soonest(s)) /\ first' = IF first = Null THEN now ELSE first
  BY ClockParts DEF Record, StepOf, Working
<1>t. PICK t \in Times : t = Soonest(s)
  BY <1>1, SoonestOfScheduler
<1>k. PICK k \in Minutes : k = Minute(t)
  BY MinutesOfTimes
<1>2. /\ t \in Nat /\ \A u \in todo[s] : u \in Nat /\ t <= u
      /\ k \in Nat /\ now \in Nat
      /\ last' = Later(t)
  BY <1>1, <1>t, SoonestOfScheduler, ClockParts, MinutesOfTimes
<1>3. Soonest(s)' = t
  BY <1>1, <1>t DEF Soonest
<1>4. \A m \in Minutes : Settled(m) => Settled(m)'
  BY <1>1, SettledStays DEF Adding
<1>5. Settled(k)'
  BY <1>1, <1>3, <1>k DEF Settled, Adding
<1>6. ASSUME NEW r \in Schedulers, NEW m \in Minutes, Counted(r, m)'
      PROVE  Counted(r, m)
  <2>1. m \in Nat /\ m * PerMinute <= now
    BY <1>1, <1>6, MinutesOfTimes DEF Counted
  <2>2. m <= Minute(now) /\ Minute(now) \in Nat
    BY <1>2, <2>1, MinuteStarts, MinuteType
  <2>3. first # Null
    BY <1>1, <1>6, <2>1, <2>2 DEF Counted
  <2>. QED  BY <1>1, <1>6, <2>3 DEF Counted
<1>7. ASSUME NEW m \in Minutes, Counted(s, m), ~Settled(m)'
      PROVE  k < m
  <2>1. Ahead(s, m) /\ m # k /\ m \in Nat
    BY <1>1, <1>4, <1>5, <1>7, CountedBegan DEF MissedInv, NothingForgotten
  <2>2. CASE \E u \in todo[s] : Minute(u) = m
    <3>1. k <= m
      BY <1>2, <2>2, <1>k, MinuteMonotone
    <3>. QED  BY <1>2, <2>1, <3>1
  <2>3. CASE ticker[s] # 0 /\ Minute(ticker[s]) <= m
    <3>1. ticker[s] \in Nat /\ t < ticker[s]
      BY <1>1, <1>t, <2>3, SoonestOfScheduler, ClockParts DEF LocalOK, SchedulerOK
    <3>2. k <= Minute(ticker[s]) /\ Minute(ticker[s]) \in Nat
      BY <1>2, <3>1, <1>k, MinuteMonotone, MinuteType
    <3>. QED  BY <1>2, <2>1, <2>3, <3>2
  <2>. QED  BY <2>1, <2>2, <2>3 DEF Ahead
<1>8. LastIsSettled'
  <2>1. CASE last' = t
    <3>1. Minute(last)' = k
      BY <1>k, <2>1
    <3>. QED  BY <1>5, <3>1 DEF LastIsSettled
  <2>2. CASE last' = last /\ last # Null
    <3>1. Settled(Minute(last)) /\ Minute(last) \in Minutes
      BY <2>2, ClockParts, MinutesOfTimes DEF MissedInv, LastIsSettled, DataOK
    <3>2. Settled(Minute(last))'
      BY <1>4, <2>2, <3>1
    <3>. QED  BY <2>2, <3>2 DEF LastIsSettled
  <2>. QED  BY <1>2, <2>1, <2>2 DEF Later
<1>9. RecordIsBehind'
  <2>1. ASSUME NEW r \in Schedulers, NEW m \in Minutes, Counted(r, m)', ~Settled(m)'
        PROVE  Minute(last') < m
    <3>1. Counted(r, m) /\ ~Settled(m) /\ m \in Due(r) /\ m \in Nat /\ last # Null
      BY <1>4, <1>6, <2>1, CountedBegan
    <3>2. Minute(last) < m
      BY <3>1 DEF MissedInv, RecordIsBehind
    <3>3. k < m
      <4>1. CASE m \in Due(s)
        BY <1>7, <2>1, <3>1, <4>1 DEF Counted
      <4>2. CASE m \notin Due(s)
        <5>1. m \notin Overtaken(s) /\ m # k
          BY <1>1, <1>5, <2>1 DEF Settled
        <5>2. ~(m < k)
          BY <1>t, <1>k, <3>1, <3>2, <4>2, <5>1 DEF Overtaken
        <5>. QED  BY <1>2, <3>1, <5>1, <5>2
      <4>. QED  BY <4>1, <4>2
    <3>. QED  BY <1>2, <1>k, <3>2, <3>3 DEF Later
  <2>. QED  BY <2>1 DEF RecordIsBehind
<1>10. NothingForgotten'
  <2>1. \A r \in Schedulers : pc'[r] \in Working \cup {"idle"} => pc[r] \in Working \cup {"idle"}
    BY <1>1, OthersStay
  <2>2. \A r \in Schedulers : \A m : Ahead(r, m)' <=> Ahead(r, m)
    BY <1>1 DEF Ahead
  <2>. QED  BY <1>4, <1>6, <2>1, <2>2 DEF MissedInv, NothingForgotten
<1>11. PlanIsExact'
  <2>1. \A r \in Schedulers : pc'[r] = "plan" => pc[r] = "plan"
    BY <1>1, OthersStay
  <2>. QED  BY <1>1, <2>1 DEF MissedInv, PlanIsExact
<1>. QED  BY <1>8, <1>9, <1>10, <1>11 DEF MissedInv

\* A minute begins: it is later than the record, and a scheduler that does not
\* start just now has it before it.
LEMMA AdvanceForgetsNothing ==
  ASSUME ClockInv, MissedInv, Advance
  PROVE  MissedInv'
<1>1. /\ now \in Nat /\ now' = now + 1
      /\ UNCHANGED <<last, pc, todo, ticker, jobs, first>>
      /\ givenUp \subseteq givenUp' /\ misread \subseteq misread'
  BY ClockParts, MinutesOfTimes DEF Advance
<1>2. \A s \in Schedulers : \A m : Adding(s, m)' <=> Adding(s, m)
  BY <1>1 DEF Adding, Soonest
<1>3. \A m : Settled(m) => Settled(m)'
  BY <1>1, <1>2 DEF Settled
<1>4. ASSUME NEW s \in Schedulers, NEW m \in Minutes, Counted(s, m)', ~Counted(s, m)
      PROVE  m * PerMinute = now + 1 /\ m \in Due(s) /\ m \in Nat
  <2>1. m \in Nat /\ m * PerMinute \in Nat
    BY MinutesOfTimes, CronBounds
  <2>. QED  BY <1>1, <1>4, <2>1 DEF Counted
<1>5. LastIsSettled'
  BY <1>1, <1>3 DEF MissedInv, LastIsSettled
<1>6. RecordIsBehind'
  <2>1. ASSUME NEW s \in Schedulers, NEW m \in Minutes, Counted(s, m)', ~Settled(m)'
        PROVE  Minute(last) < m
    <3>1. CASE Counted(s, m)
      BY <1>3, <2>1, <3>1 DEF MissedInv, RecordIsBehind
    <3>2. CASE ~Counted(s, m)
      <4>1. last # Null /\ last \in Nat /\ last <= now
        BY <1>1, <2>1, ClockParts, MinutesOfTimes DEF Counted, DataOK, RecordOK
      <4>. QED  BY <1>1, <1>4, <2>1, <3>2, <4>1, MinuteStarts
    <3>. QED  BY <3>1, <3>2
  <2>. QED  BY <1>1, <2>1 DEF RecordIsBehind
<1>7. NothingForgotten'
  <2>1. ASSUME NEW s \in Schedulers, pc[s] \in Working \cup {"idle"},
               NEW m \in Minutes, Counted(s, m)', ~Settled(m)'
        PROVE  Ahead(s, m)
    <3>1. CASE Counted(s, m)
      BY <1>3, <2>1, <3>1 DEF MissedInv, NothingForgotten
    <3>2. CASE ~Counted(s, m)
      <4>1. m * PerMinute = now + 1 /\ m \in Due(s) /\ m \in Nat
        BY <1>4, <2>1, <3>2
      <4>2. ticker[s] # 0
        BY <2>1, <4>1 DEF Advance, Starting, Settled, Working
      <4>3. ticker[s] \in Nat /\ ticker[s] <= now + PerMinute
        BY ClockParts DEF LocalOK, SchedulerOK
      <4>4. Minute(ticker[s]) <= Minute(now) + 1 /\ Minute(ticker[s]) \in Nat
        <5>1. now + PerMinute \in Nat
          BY <1>1, CronBounds
        <5>. QED  BY <1>1, <4>3, <5>1, MinuteMonotone, MinuteOfNextMinute, MinuteType
      <4>5. Minute(now) < m /\ Minute(now) \in Nat
        BY <1>1, <4>1, MinuteStarts, MinuteType
      <4>. QED  BY <4>1, <4>2, <4>4, <4>5 DEF Ahead
    <3>. QED  BY <3>1, <3>2
  <2>. QED  BY <1>1, <2>1 DEF NothingForgotten, Ahead
<1>8. PlanIsExact'
  <2>1. ASSUME NEW s \in Schedulers, pc[s] = "plan",
               NEW m \in Due(s), NEW t \in todo[s],
               t <= m * PerMinute, m * PerMinute <= now + 1
        PROVE  m \in givenUp'
    <3>1. Starting(s)
      BY <2>1, ClockParts DEF LocalOK, SchedulerOK, Starting
    <3>2. m * PerMinute \in Nat
      BY CronBounds, DueIsMinutes
    <3>3. CASE m * PerMinute <= now
      BY <1>1, <2>1, <3>3 DEF MissedInv, PlanIsExact
    <3>4. CASE m * PerMinute = now + 1
      BY <3>1, <3>4 DEF Advance
    <3>. QED  BY <1>1, <2>1, <3>2, <3>3, <3>4
  <2>. QED  BY <1>1, <2>1 DEF PlanIsExact
<1>. QED  BY <1>5, <1>6, <1>7, <1>8 DEF MissedInv

LEMMA MissedInvStep == ClockInv /\ MissedInv /\ [Next]_cronVars => MissedInv'
<1>. SUFFICES ASSUME ClockInv, MissedInv, [Next]_cronVars PROVE MissedInv'
  OBVIOUS
<1>1. CASE Advance
  BY <1>1, AdvanceForgetsNothing
<1>2. ASSUME NEW s \in Schedulers,
             \/ Start(s) \/ PlanBackfill(s) \/ Tick(s)
             \/ Check(s) \/ Record(s) \/ Add(s)
             \/ Fail(s) \/ Crash(s)
      PROVE  MissedInv'
  BY <1>2, StartForgetsNothing, PlanForgetsNothing, TickForgetsNothing, CheckForgetsNothing,
     RecordForgetsNothing, AddForgetsNothing, FailForgetsNothing, CrashForgetsNothing
<1>3. CASE UNCHANGED cronVars
  <2>1. \A s, m : (Counted(s, m)' <=> Counted(s, m)) /\ (Settled(m)' <=> Settled(m))
    BY <1>3 DEF cronVars, Counted, Settled, Adding, Soonest
  <2>2. LastIsSettled' /\ RecordIsBehind'
    BY <1>3, <2>1 DEF cronVars, MissedInv, LastIsSettled, RecordIsBehind
  <2>3. NothingForgotten' /\ PlanIsExact'
    BY <1>3, <2>1 DEF cronVars, MissedInv, NothingForgotten, PlanIsExact, Ahead
  <2>. QED  BY <2>2, <2>3 DEF MissedInv
<1>. QED  BY <1>1, <1>2, <1>3 DEF Next

LEMMA MissedInvInit == Init => MissedInv
BY DEF Init, MissedInv, LastIsSettled, RecordIsBehind, NothingForgotten, PlanIsExact,
       Counted, Working

\* When the schedulers that are up have caught up, a due minute that is over has a
\* job unless it is one of those the comment of MissedWereGivenUp names: for any
\* length of the backfill, with it and without, whatever fails and crashes.
THEOREM MissedAreGivenUp == Spec => []MissedWereGivenUp
<1>1. ClockInv /\ MissedInv => MissedWereGivenUp
  <2>. SUFFICES ASSUME ClockInv, MissedInv,
                       \A s \in Schedulers : pc[s] = "down" \/ Waiting(s),
                       NEW s \in Schedulers, Waiting(s),
                       NEW m \in Due(s), first # Null, Minute(first) < m, m < Minute(now)
                PROVE  jobs[m] > 0 \/ m \in givenUp \cup misread
    BY DEF MissedWereGivenUp
  <2>1. m \in Nat /\ now \in Nat /\ now <= MaxTime /\ MaxTime \in Nat
    BY ClockParts, CronBounds, DueIsMinutes DEF Times
  <2>2. m * PerMinute <= now
    BY <2>1, MinuteStarts, MinuteType
  <2>3. Minute(now) <= Minute(MaxTime) /\ Minute(now) \in Nat /\ Minute(MaxTime) \in Nat
    BY <2>1, MinuteMonotone, MinuteType
  <2>4. m \in Minutes
    BY <2>1, <2>3 DEF Minutes
  <2>5. Counted(s, m)
    BY <2>2 DEF Counted
  <2>6. pc[s] = "idle" /\ ticker[s] > now /\ ticker[s] \in Nat /\ todo[s] = {}
    BY ClockParts DEF Waiting, LocalOK, SchedulerOK
  <2>7. Minute(now) <= Minute(ticker[s]) /\ Minute(ticker[s]) \in Nat
    BY <2>1, <2>6, MinuteMonotone, MinuteType
  <2>8. ~Ahead(s, m)
    BY <2>1, <2>3, <2>6, <2>7 DEF Ahead
  <2>9. Settled(m)
    BY <2>4, <2>5, <2>6, <2>8 DEF MissedInv, NothingForgotten
  <2>10. \A r \in Schedulers : ~Adding(r, m)
    BY DEF Waiting, Adding
  <2>. QED  BY <2>9, <2>10 DEF Settled
<1>2. Spec => []MissedInv
  BY MissedInvInit, MissedInvStep, ClockInvHolds, PTL DEF Spec
<1>. QED  BY <1>1, <1>2, ClockInvHolds, PTL

-------------------------------------------------------------------------------
(***************************************************************************)
(* Once each.                                                              *)
(***************************************************************************)
\* When the schedulers that are up have caught up, a minute that is due for one of
\* them, is over, was given up by none, decided on by one alone and in time, and not
\* misread has one job.
OnceEach ==
  (\A s \in Schedulers : pc[s] = "down" \/ Waiting(s))
  => \A s \in Schedulers : Waiting(s) =>
       \A m \in Due(s) \ (givenUp \cup raced \cup late \cup misread) :
         first # Null /\ Minute(first) < m /\ m < Minute(now) => jobs[m] = 1

\* last_execution never goes back, whichever schedulers record which minutes in
\* which order, and is not forgotten.
LastGrows == last # Null => last' \in Nat /\ last' >= last

\* But for what givenUp, raced, late and misread name, any number of schedulers that tick,
\* backfill, fail, crash and start again do the work of one that never stops.
THEOREM MinutesRunOnce == Spec => []OnceEach
<1>1. ClockInv /\ MissedWereGivenUp /\ DuplicatesHaveCauses => OnceEach
  <2>. SUFFICES ASSUME ClockInv, MissedWereGivenUp, DuplicatesHaveCauses,
                       \A s \in Schedulers : pc[s] = "down" \/ Waiting(s),
                       NEW s \in Schedulers, Waiting(s),
                       NEW m \in Due(s) \ (givenUp \cup raced \cup late \cup misread),
                       first # Null, Minute(first) < m, m < Minute(now)
                PROVE  jobs[m] = 1
    BY DEF OnceEach
  <2>1. m \in Nat /\ now \in Nat /\ now <= MaxTime /\ MaxTime \in Nat
    BY ClockParts, CronBounds, DueIsMinutes DEF Times
  <2>2. Minute(now) <= Minute(MaxTime) /\ Minute(now) \in Nat /\ Minute(MaxTime) \in Nat
    BY <2>1, MinuteMonotone, MinuteType
  <2>3. m \in Minutes
    BY <2>1, <2>2 DEF Minutes
  <2>4. jobs[m] > 0
    BY DEF MissedWereGivenUp
  <2>5. ~(jobs[m] > 1)
    BY <2>3 DEF DuplicatesHaveCauses
  <2>6. jobs[m] \in Nat
    BY <2>3 DEF ClockInv, TypeOK
  <2>. QED  BY <2>4, <2>5, <2>6
<1>. QED  BY <1>1, MissedAreGivenUp, DuplicatesAreCaused, ClockInvHolds, PTL

\* The session's clock shows of an execution what the process's clock showed then,
\* and no reading comes back: the zone is one, has no hour twice, and the years
\* of the item are one.
ClocksAgree ==
  \A s \in Schedulers : \A m, n \in Minutes : Session[s][m] = Local[s][n] <=> m = n

\* On clocks that agree misread is no cause.
OneZone ==
  ClocksAgree =>
    /\ misread = {}
    /\ \A m \in Minutes : jobs[m] > 1 => m \in raced \cup late

\* Where the zone is one, as "UTC Only" of docs/CRONTAB.md has it, the question of
\* isTaskAlreadyScheduled is never answered wrongly: a minute is executed twice by
\* a race or late alone, and lost only where it is given up.
THEOREM OneZoneMisreadsNothing == Spec => []OneZone
<1>. DEFINE Inv == ClocksAgree => misread = {}
<1>1. Init => Inv
  BY DEF Init
<1>2. ClockInv /\ Inv /\ [Next]_cronVars => Inv'
  <2>. SUFFICES ASSUME ClockInv, [Next]_cronVars, ClocksAgree, misread = {}
                PROVE  misread' = {}
    BY DEF ClocksAgree
  <2>1. ASSUME NEW s \in Schedulers PROVE ~Misread(s)
    <3>1. now \in Times /\ (last # Null => last \in Times)
      BY DEF ClockInv, TypeOK
    <3>2. Minute(now) \in Minutes /\ (last # Null => Minute(last) \in Minutes)
      BY <3>1, MinutesOfTimes
    <3>. QED  BY <3>2 DEF ClocksAgree, Misread
  <2>2. ASSUME NEW s \in Schedulers, Check(s) PROVE misread' = {}
    BY <2>1, <2>2 DEF Check
  <2>. QED
    BY <2>2 DEF Next, cronVars, Advance, Start, PlanBackfill, Tick, Record, Add, Fail, Crash
<1>3. Spec => []Inv
  BY <1>1, <1>2, ClockInvHolds, PTL DEF Spec
<1>4. Inv /\ DuplicatesHaveCauses => OneZone
  BY DEF DuplicatesHaveCauses, OneZone
<1>. QED  BY <1>3, <1>4, DuplicatesAreCaused, PTL

\* Clients that read known_crontabs never see an execution taken back: the guard of
\* recordScheduledTask keeps a late or backfilled minute from setting it back.
THEOREM LastNeverGoesBack == Spec => [][LastGrows]_cronVars
<1>1. ClockInv /\ [Next]_cronVars => [LastGrows]_cronVars
  <2>. SUFFICES ASSUME ClockInv, Next PROVE LastGrows
    OBVIOUS
  <2>1. last = Null \/ last \in Nat
    BY MinutesOfTimes DEF ClockInv, TypeOK
  <2>2. CASE last' = last
    BY <2>1, <2>2 DEF LastGrows
  <2>3. ASSUME NEW s \in Schedulers, Record(s) PROVE LastGrows
    <3>1. /\ LocalOK(s) /\ pc[s] \in Working /\ last' = Later(Soonest(s))
      BY <2>3, ClockParts DEF Record, Working
    <3>2. Soonest(s) \in Nat
      BY <3>1, SoonestOfScheduler, MinutesOfTimes
    <3>. QED  BY <2>1, <3>1, <3>2 DEF LastGrows, Later
  <2>4. CASE last' # last
    BY <2>3, <2>4 DEF Next, Advance, Start, PlanBackfill, Tick, Check, Add, Fail, Crash
  <2>. QED  BY <2>2, <2>4
<1>. QED  BY <1>1, ClockInvHolds, PTL DEF Spec
===============================================================================
