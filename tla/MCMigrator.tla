------------------------------ MODULE MCMigrator ------------------------------
(* Instances of Migrator for TLC: an old program and two new ones. *)
EXTENDS Migrator, TLC

CONSTANTS old, new1, new2

Versions == (old :> 2) @@ (new1 :> 3) @@ (new2 :> 3)
===============================================================================
