----------------------------- MODULE MCOrchestrator -----------------------------
(* Small instances of Orchestrator. *)
EXTENDS Orchestrator
=================================================================================
