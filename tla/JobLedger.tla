------------------------------ MODULE JobLedger ------------------------------
(***************************************************************************)
(* What kongtask promises of a payload handed to add_job, without tables,  *)
(* queues, locks or clocks: the client decides which payloads are open,    *)
(* work starts on open ones only, one execution of a payload at a time,    *)
(* and a payload is done only by work on that payload.                     *)
(***************************************************************************)
EXTENDS FiniteSets

CONSTANT Payloads

VARIABLES
  fate,     \* what became of each payload
  working   \* the payloads some worker has reserved

ledgerVars == <<fate, working>>

Init ==
  /\ fate = [p \in Payloads |-> "unused"]
  /\ working = {}

\* A new payload takes the place of at most one open payload.
Submit(p) ==
  /\ fate[p] = "unused"
  /\ \/ fate' = [fate EXCEPT ![p] = "open"]
     \/ \E r \in Payloads :
          /\ fate[r] = "open"
          /\ fate' = [fate EXCEPT ![p] = "open", ![r] = "dropped"]
  /\ UNCHANGED working

Duplicate(p) ==
  /\ fate[p] = "unused"
  /\ fate' = [fate EXCEPT ![p] = "dropped"]
  /\ UNCHANGED working

Start(p) ==
  /\ fate[p] = "open"
  /\ p \notin working
  /\ working' = working \cup {p}
  /\ UNCHANGED fate

\* Executions that failed, or whose worker died, can be tried again.
Return ==
  /\ \E S \in (SUBSET working) \ {{}} : working' = working \ S
  /\ UNCHANGED fate

Finish(p) ==
  /\ p \in working
  /\ fate[p] \in {"open", "dropped"}
  /\ working' = working \ {p}
  /\ fate' = [fate EXCEPT ![p] = "done"]

\* The client closes a payload; a reservation of it may last or end.
Withdraw(p) ==
  /\ fate[p] \in {"open", "dropped"}
  /\ fate' = [fate EXCEPT ![p] = "dropped"]
  /\ working' \in {working, working \ {p}}

Reopen(p) ==
  /\ fate[p] = "dropped"
  /\ fate' = [fate EXCEPT ![p] = "open"]
  /\ UNCHANGED working

Next ==
  \/ \E p \in Payloads :
       \/ Submit(p) \/ Duplicate(p) \/ Withdraw(p) \/ Reopen(p)
       \/ Start(p) \/ Finish(p)
  \/ Return

Spec == Init /\ [][Next]_ledgerVars
===============================================================================
