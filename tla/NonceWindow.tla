---------------------------- MODULE NonceWindow ----------------------------
(***************************************************************************)
(* What a replay window promises: a nonce is refused exactly when it is    *)
(* among the last MaxSeen nonces accepted from that peer.                  *)
(***************************************************************************)
EXTENDS Naturals, Sequences

CONSTANTS Peer, Nonce, MaxSeen

VARIABLES log,      \* the nonces accepted from each peer, oldest first
          asked,    \* the last call
          refused   \* its verdict

Recent(s) == {s[i] : i \in {j \in 1..Len(s) : j + MaxSeen > Len(s)}}

Init ==
  /\ log = [p \in Peer |-> <<>>]
  /\ asked = <<>>
  /\ refused = FALSE

Accept(p, n) ==
  /\ n \notin Recent(log[p])
  /\ log' = [log EXCEPT ![p] = Append(@, n)]
  /\ asked' = <<p, n>>
  /\ refused' = FALSE

Refuse(p, n) ==
  /\ n \in Recent(log[p])
  /\ asked' = <<p, n>>
  /\ refused' = TRUE
  /\ UNCHANGED log

Next == \E p \in Peer, n \in Nonce : Accept(p, n) \/ Refuse(p, n)

Spec == Init /\ [][Next]_<<log, asked, refused>>
=============================================================================
