--------------------------- MODULE MCReplayWindow ---------------------------
(* ReplayWindow on a small instance.                                       *)
EXTENDS ReplayWindow
=============================================================================
