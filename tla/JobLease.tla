------------------------------- MODULE JobLease -------------------------------
(***************************************************************************)
(* What the tables and the processes promise each other of a reservation:  *)
(* a process works on a job only after it has locked the job's row, locks  *)
(* a row only when it is not locked, and nobody takes the lock away while  *)
(* the process holds on to the job.  A process may let go of a job whose   *)
(* row stays locked (it died, or its last statement failed); only such a   *)
(* row can be freed by others.                                             *)
(***************************************************************************)
CONSTANTS Workers, Jobs

VARIABLES
  locked,  \* the jobs whose row is locked
  holds    \* what each process holds on to: no job, or one

leaseVars == <<locked, holds>>

Init ==
  /\ locked = {}
  /\ holds = [w \in Workers |-> {}]

Lock(j) ==
  /\ j \notin locked
  /\ locked' = locked \cup {j}

Take(w, j) ==
  /\ holds[w] = {}
  /\ Lock(j)
  /\ holds' = [holds EXCEPT ![w] = {j}]

\* The row is locked and the process never learns of it.
TakeUnanswered(j) ==
  /\ Lock(j)
  /\ UNCHANGED holds

LetGo(w) ==
  /\ holds[w] # {}
  /\ holds' = [holds EXCEPT ![w] = {}]
  /\ locked' \in {locked, locked \ holds[w]}

\* Others free rows, all at once, that nobody holds on to.
Free(S) ==
  /\ \A w \in Workers : holds[w] \cap S = {}
  /\ locked' = locked \ S
  /\ UNCHANGED holds

Next ==
  \/ \E w \in Workers : (\E j \in Jobs : Take(w, j)) \/ LetGo(w)
  \/ \E j \in Jobs : TakeUnanswered(j)
  \/ \E S \in SUBSET locked : Free(S)

Spec == Init /\ [][Next]_leaseVars
===============================================================================
