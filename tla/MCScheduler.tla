--------------------------- MODULE MCScheduler ---------------------------
(* Small instances of Scheduler for TLC. *)
EXTENDS Scheduler, TLC

\* Channels are interchangeable.
ChannelSymmetry == Permutations(Channels)
=============================================================================
