-------------------------- MODULE MCLifecycleWorker --------------------------
(* Small instances of LifecycleWorker. *)
EXTENDS LifecycleWorker

MCPoisoned == {{1}}
==============================================================================
