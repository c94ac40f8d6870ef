----------------------------- MODULE MCInputLog -----------------------------
(* Instances of InputLog for TLC. *)
EXTENDS InputLog
=============================================================================
