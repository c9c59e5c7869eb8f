-------------------------- MODULE MCOnionIdentity --------------------------
(* OnionIdentity on small instances.                                       *)
EXTENDS OnionIdentity, TLC

\* Keys, and the processes of one command, are interchangeable.
OnionSymmetry == Permutations(Key) \cup Permutations(Inviter)
=============================================================================
