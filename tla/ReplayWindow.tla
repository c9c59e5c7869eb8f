---------------------------- MODULE ReplayWindow ----------------------------
(***************************************************************************)
(* The two replay windows of the repository: class ReplayWindow of p4.py,  *)
(* which the node uses, and struct ReplayWindow of rust/p4-core, which the *)
(* core library offers.  Each keeps, per peer, a queue of nonces and a set *)
(* of the same nonces.  Both are given the same calls here, so that they   *)
(* can be compared with each other and with NonceWindow.                   *)
(***************************************************************************)
EXTENDS Naturals, Sequences

CONSTANTS Peer,       \* peer ids
          Nonce,      \* nonces
          MaxSeen,    \* max_seen of both windows
          MaxAccepts  \* bound: how many nonces of a peer are accepted

ASSUME WindowAssumption == MaxSeen \in Nat /\ MaxAccepts \in Nat

VARIABLES
  seq,       \* p4.py: _seen
  members,   \* p4.py: _seen_set
  pySeen,    \* p4.py: what the last call of seen returned
  queue,     \* Rust: seen
  seenSet,   \* Rust: seen_set
  rustSeen,  \* Rust: what the last call of seen_before returned
  asked,     \* the peer and the nonce of the last call; <<>> before the first
  accepted   \* history: the nonces for which seen returned False

pyVars == <<seq, members, pySeen>>
rustVars == <<queue, seenSet, rustSeen>>
windowVars == <<pyVars, rustVars, asked, accepted>>

WindowInit ==
  /\ seq = [p \in Peer |-> <<>>]
  /\ members = [p \in Peer |-> {}]
  /\ pySeen = FALSE
  /\ queue = [p \in Peer |-> <<>>]
  /\ seenSet = [p \in Peer |-> {}]
  /\ rustSeen = FALSE
  /\ asked = <<>>
  /\ accepted = [p \in Peer |-> <<>>]

\* Mutant: the oldest nonce leaves the list and stays in the set.
MutRemember(p, n) ==
  LET s == Append(seq[p], n) IN
  /\ seq' = [seq EXCEPT ![p] = IF Len(s) > MaxSeen THEN Tail(s) ELSE s]
  /\ members' = [members EXCEPT ![p] = @ \cup {n}]

\* p4.py: append to the list and the set; one too many drops the oldest.
Remember(p, n) ==
  LET s == Append(seq[p], n) IN
  IF Len(s) > MaxSeen
  THEN /\ seq' = [seq EXCEPT ![p] = Tail(s)]
       /\ members' = [members EXCEPT ![p] = (@ \cup {n}) \ {Head(s)}]
  ELSE /\ seq' = [seq EXCEPT ![p] = s]
       /\ members' = [members EXCEPT ![p] = @ \cup {n}]

\* p4.py: ReplayWindow.seen.
Seen(p, n) ==
  \/ /\ n \in members[p]
     /\ pySeen' = TRUE
     /\ UNCHANGED <<seq, members, accepted>>
  \/ /\ n \notin members[p]
     /\ pySeen' = FALSE
     /\ Remember(p, n)
     /\ accepted' = [accepted EXCEPT ![p] = Append(@, n)]

\* Mutant: the queue is cut back one nonce too far.
MutExcess(q) == IF Len(q) >= MaxSeen THEN 1 + Len(q) - MaxSeen ELSE 0

\* Rust: how many nonces the while loop pops from the front.
Excess(q) == IF Len(q) > MaxSeen THEN Len(q) - MaxSeen ELSE 0

\* Rust: ReplayWindow::seen_before.
SeenBefore(p, n) ==
  \/ /\ n \in seenSet[p]
     /\ rustSeen' = TRUE
     /\ UNCHANGED <<queue, seenSet>>
  \/ /\ n \notin seenSet[p]
     /\ rustSeen' = FALSE
     /\ LET q == Append(queue[p], n) IN
          /\ queue' = [queue EXCEPT ![p] = SubSeq(q, Excess(q) + 1, Len(q))]
          /\ seenSet' = [seenSet EXCEPT ![p] = (@ \cup {n}) \ {q[i] : i \in 1..Excess(q)}]

\* Both windows are asked about a nonce of a peer.
Call(p, n) ==
  /\ n \in members[p] \/ Len(accepted[p]) < MaxAccepts
  /\ asked' = <<p, n>>
  /\ Seen(p, n)
  /\ SeenBefore(p, n)

WindowNext == \E p \in Peer, n \in Nonce : Call(p, n)

WindowSpec == WindowInit /\ [][WindowNext]_windowVars

-----------------------------------------------------------------------------
\* Types; the memory for a peer is bounded by max_seen.
WindowTypeOK ==
  /\ seq \in [Peer -> Seq(Nonce)]
  /\ members \in [Peer -> SUBSET Nonce]
  /\ pySeen \in BOOLEAN
  /\ queue \in [Peer -> Seq(Nonce)]
  /\ seenSet \in [Peer -> SUBSET Nonce]
  /\ rustSeen \in BOOLEAN
  /\ asked \in {<<>>} \cup (Peer \X Nonce)
  /\ accepted \in [Peer -> Seq(Nonce)]
  /\ \A p \in Peer : Len(seq[p]) <= MaxSeen /\ Len(queue[p]) <= MaxSeen

\* The set answers for the queue: it holds exactly the queue's nonces, so
\* neither a forgotten nonce is refused for ever nor a remembered one let in.
SetIsQueue ==
  \A p \in Peer : /\ members[p] = {seq[p][i] : i \in 1..Len(seq[p])}
                  /\ seenSet[p] = {queue[p][i] : i \in 1..Len(queue[p])}

\* The two implementations give the same verdict on every call.
SameVerdict == pySeen = rustSeen

\* A nonce let in twice was let in more than max_seen acceptances earlier.
Spaced ==
  \A p \in Peer : \A i, j \in 1..Len(accepted[p]) :
    i < j /\ accepted[p][i] = accepted[p][j] => j - i > MaxSeen

PyWindow == INSTANCE NonceWindow WITH log <- accepted, refused <- pySeen
RustWindow == INSTANCE NonceWindow WITH log <- accepted, refused <- rustSeen

\* Each implementation is a window over the last max_seen accepted nonces.
PyImplements == PyWindow!Spec
RustImplements == RustWindow!Spec
=============================================================================
