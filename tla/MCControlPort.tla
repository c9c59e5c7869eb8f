---------------------------- MODULE MCControlPort ----------------------------
(* ControlPort on small instances: a node and an invite with the same key, *)
(* and another controller.                                                 *)
EXTENDS ControlPort, TLC

CONSTANTS n1, n2, other

MCKeyOf == (n1 :> 1) @@ (n2 :> 1) @@ (other :> 2)
=============================================================================
