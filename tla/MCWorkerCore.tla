---------------------------- MODULE MCWorkerCore ----------------------------
(* Instances of WorkerCore for TLC. *)
EXTENDS WorkerCore
=============================================================================
