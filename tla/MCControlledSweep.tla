-------------------------- MODULE MCControlledSweep --------------------------
(* ControlledSweep with two registered queues and one of another           *)
(* application; a limit of 9 is none.                                      *)
EXTENDS ControlledSweep

CONSTANTS a, b, c

MCQueues == {a, b, c}
MCRegistered == <<a, b>>
=============================================================================
