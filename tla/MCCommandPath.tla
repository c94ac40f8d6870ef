--------------------------- MODULE MCCommandPath ----------------------------
(* Instances of CommandPath for TLC: one urgent command, the rest routine. *)
EXTENDS CommandPath, TLC

CONSTANTS Urgent, Routine

MCCmds == Urgent \cup Routine
MCPriority == [c \in MCCmds |-> IF c \in Urgent THEN 0 ELSE 1]
=============================================================================
