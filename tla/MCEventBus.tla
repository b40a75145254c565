------------------------------ MODULE MCEventBus ------------------------------
(* Instances of EventBus for TLC. *)
EXTENDS EventBus, TLC

CONSTANTS h1, h2
===============================================================================
