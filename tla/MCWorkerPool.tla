----------------------------- MODULE MCWorkerPool -----------------------------
(* Instances of WorkerPool for TLC. *)
EXTENDS WorkerPool, TLC

CONSTANTS w1, w2
===============================================================================
