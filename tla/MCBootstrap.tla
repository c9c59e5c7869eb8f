----------------------------- MODULE MCBootstrap -----------------------------
(* Bootstrap on a scale of twenty: starting, connected, handshake, the      *)
(* directory, circuits and done.                                           *)
EXTENDS Bootstrap

MCOther == {0, 1, 2, 3, 16, 18, 20}
MCDir == {5, 8, 15}
=============================================================================
