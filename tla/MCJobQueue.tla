------------------------------ MODULE MCJobQueue ------------------------------
(* Instances of JobQueue for TLC. *)
EXTENDS JobQueue, TLC

CONSTANTS w1, w2

\* Worker ids are only compared for equality.
WorkerSymmetry == Permutations(Workers)
AllCalls == {"remove_job", "complete_jobs", "permanently_fail_jobs", "reschedule_jobs"}
===============================================================================
