--------------------------- MODULE MCFrameStream ----------------------------
(* Instances of FrameStream for TLC. *)
EXTENDS FrameStream

CONSTANTS MaxId, Page, Stream   \* a dashboard's and an instance's viewers

MCIds == 0 .. MaxId
MCViewers == Page \cup Stream
\* The streams are of the instance that the dashboard lists last.
MCHome == [v \in MCViewers |-> MaxId]
=============================================================================
