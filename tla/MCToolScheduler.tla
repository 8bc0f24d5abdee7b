-------------------------- MODULE MCToolScheduler --------------------------
(* Instances of ToolScheduler for TLC. *)
EXTENDS ToolScheduler
=============================================================================
