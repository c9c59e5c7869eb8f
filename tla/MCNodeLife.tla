----------------------------- MODULE MCNodeLife -----------------------------
(* NodeLife on small instances.                                            *)
EXTENDS NodeLife
=============================================================================
