----------------------------- MODULE MCSession -----------------------------
(* Session on small instances.                                             *)
EXTENDS Session, TLC

\* Attempts are interchangeable: nothing orders or names one.
AttemptSymmetry == Permutations(Attempt)
=============================================================================
