----------------------------- MODULE MCPortTrio -----------------------------
(* PortTrio on small instances.                                            *)
EXTENDS PortTrio, TLC

CONSTANTS n1, n2, n3

\* Two nodes of one state directory, and one of another.
MCNode == {n1, n2, n3}
MCDir == (n1 :> "a") @@ (n2 :> "a") @@ (n3 :> "b")
MCSeed == [a |-> 1, b |-> 0]

\* The two nodes of one directory are interchangeable.
NodeSymmetry == Permutations({n1, n2})
=============================================================================
