-------------------------------- MODULE MCCron --------------------------------
(* Instances of CronScheduler for TLC. *)
EXTENDS CronScheduler, TLC

CONSTANTS s1, s2

\* The clock of s2 is put forward at minute 3: it shows 1 in minute 2, and 3 in 3.
ProcessClock ==
  s1 :> [m \in Minutes |-> m] @@ s2 :> [m \in Minutes |-> IF m < 3 THEN m - 1 ELSE m]

\* In the zone of its session s2 finds minute 3 in an execution in minute 1, and
\* minute 5 in one in minute 3.
SessionClock == s1 :> [m \in Minutes |-> m] @@ s2 :> [m \in Minutes |-> m + 2]
===============================================================================
