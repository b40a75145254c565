---------------------------- MODULE MCPoolRegistry ----------------------------
(* Instances of PoolRegistry for TLC. *)
EXTENDS PoolRegistry, TLC
===============================================================================
