---------------------------- MODULE MCStateFiles ----------------------------
(* StateFiles on small instances.                                          *)
EXTENDS StateFiles, TLC

\* Contacts are interchangeable.
FileSymmetry == Permutations(Contact)
=============================================================================
