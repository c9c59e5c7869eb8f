------------------------------ MODULE MCSignal ------------------------------
(* Signal on small instances.                                              *)
EXTENDS Signal, TLC

\* Nonces are only ever compared with each other.
NonceSymmetry == Permutations(Nonce)
=============================================================================
