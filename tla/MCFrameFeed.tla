---------------------------- MODULE MCFrameFeed -----------------------------
(* The instance of FrameFeed for TLC. *)
EXTENDS FrameFeed
=============================================================================
