------------------------------- MODULE Signal -------------------------------
(***************************************************************************)
(* Which signed envelopes a running node accepts (p4.py: _build_message,   *)
(* _validate_message and the replay window; rust/p4-core: sign_envelope,   *)
(* verify_envelope), for one node, Me, and its contacts.                   *)
(*                                                                         *)
(* A peer id is the hash of a public key, so a peer id stands for its key  *)
(* too: a contact is the peer id under which it is filed together with the *)
(* key in its invite, which nothing compares with that peer id.            *)
(*                                                                         *)
(* The network may deliver an envelope late, never, or several times (a    *)
(* request is repeated by whoever relays it), and may deliver a damaged    *)
(* copy.  A signature covers every field, so a damaged copy is signed by   *)
(* None.  _validate_message has no await in it: it is one step.  The       *)
(* replay window is the queue of ReplayWindow; that its set agrees with    *)
(* the queue is shown there (SetIsQueue).                                  *)
(***************************************************************************)
EXTENDS Naturals, Sequences, FiniteSets

CONSTANTS Peer,       \* ids of the other peers
          Me,         \* identity.peer_id of this node
          Nonce,      \* secrets.token_hex(16): fresh every time
          None,
          MaxSeen,    \* max_seen of the replay window
          MaxSkew,    \* MAX_ENVELOPE_SKEW_MS
          MaxTime,    \* bound: the last moment; plays u64::MAX
          MaxAccepts, \* bound: acceptances from a peer in one run of the node
          MaxUpdates  \* bound: how often contacts are added or replaced

ASSUME SignalAssumption ==
  /\ Me \notin Peer
  /\ None \notin Peer \cup Nonce \cup {Me}
  /\ {MaxSeen, MaxSkew, MaxTime, MaxAccepts, MaxUpdates} \subseteq Nat

VARIABLES
  now,       \* this node's clock
  sent,      \* every envelope that some peer has signed
  contacts,  \* contact.public_key_b64 of each peer; None: not a contact
  window,    \* replay._seen
  accepted,  \* history: the envelopes accepted from each peer in this run
  verdict,   \* how the last envelope was answered
  updates    \* contact updates so far

vars == <<now, sent, contacts, window, accepted, verdict, updates>>

Time == 0..MaxTime
ProtocolVersion == 1

\* Envelope of rust/p4-core without its payload; "signer" is the key under
\* which the signature verifies.
Envelope == [version : {ProtocolVersion, 2}, sender : Peer,
             recipient : Peer \cup {Me}, ts : Time, nonce : Nonce \cup {None},
             signer : Peer \cup {None}]

Verdict == {"none", "accepted", "invalid", "replay"}

Init ==
  /\ now = 0
  /\ sent = {}
  /\ contacts \in [Peer -> Peer \cup {None}]
  /\ window = [p \in Peer |-> <<>>]
  /\ accepted = [p \in Peer |-> <<>>]
  /\ verdict = "none"
  /\ updates = 0

-----------------------------------------------------------------------------
(* Signing and verifying.                                                  *)

\* sign_envelope.
SignEnvelope(p, to, ts, n) ==
  [version |-> ProtocolVersion, sender |-> p, recipient |-> to,
   ts |-> ts, nonce |-> n, signer |-> p]

\* The copies a faulty network may make of an envelope.
Damaged(e) ==
  {[e EXCEPT !.signer = None, !.version = v, !.nonce = n] :
     v \in {ProtocolVersion, 2}, n \in {e.nonce, None}}

SaturatingSub(a, b) == IF a >= b THEN a - b ELSE 0
SaturatingAdd(a, b) == IF a + b <= MaxTime THEN a + b ELSE MaxTime

\* Mutant: the signature is not looked at.
MutVerifyEnvelope(e, key) ==
  /\ e.version = ProtocolVersion
  /\ e.sender = key
  /\ e.ts \in SaturatingSub(now, MaxSkew)..SaturatingAdd(now, MaxSkew)

\* Mutant: only envelopes that are too old are refused.
MutVerifyNoUpper(e, key) ==
  /\ e.version = ProtocolVersion
  /\ e.sender = key
  /\ e.ts >= SaturatingSub(now, MaxSkew)
  /\ e.signer = key

\* verify_envelope: the version, the sender against the key's peer id, the
\* timestamp within the skew on both sides, the signature.
VerifyEnvelope(e, key) ==
  /\ e.version = ProtocolVersion
  /\ e.sender = key
  /\ e.ts \in SaturatingSub(now, MaxSkew)..SaturatingAdd(now, MaxSkew)
  /\ e.signer = key

\* _validate_message up to the replay window.  An offer has to be addressed
\* to this node; a reply has to come from the peer that was asked.
Valid(e, expectedFrom, expectedTo) ==
  /\ e.version = ProtocolVersion
  /\ e.sender \in expectedFrom
  /\ e.recipient \in expectedTo
  /\ contacts[e.sender] # None
  /\ e.nonce # None
  /\ VerifyEnvelope(e, contacts[e.sender])

\* One nonce too many drops the oldest.
LastSeen(s) == IF Len(s) > MaxSeen THEN Tail(s) ELSE s

InWindow(p, n) == \E i \in 1..Len(window[p]) : window[p][i] = n

\* Mutant: the nonce is remembered before the signature is verified.
MutValidate(e, expectedFrom, expectedTo) ==
  IF InWindow(e.sender, e.nonce)
  THEN /\ verdict' = "replay"
       /\ UNCHANGED <<window, accepted>>
  ELSE /\ window' = [window EXCEPT ![e.sender] = LastSeen(Append(@, e.nonce))]
       /\ IF Valid(e, expectedFrom, expectedTo)
          THEN /\ verdict' = "accepted"
               /\ accepted' = [accepted EXCEPT ![e.sender] = Append(@, e)]
          ELSE verdict' = "invalid" /\ UNCHANGED accepted

\* _validate_message: the nonce of a valid envelope enters the window.
Validate(e, expectedFrom, expectedTo) ==
  \/ /\ ~Valid(e, expectedFrom, expectedTo)
     /\ verdict' = "invalid"
     /\ UNCHANGED <<window, accepted>>
  \/ /\ Valid(e, expectedFrom, expectedTo)
     /\ InWindow(e.sender, e.nonce)
     /\ verdict' = "replay"
     /\ UNCHANGED <<window, accepted>>
  \/ /\ Valid(e, expectedFrom, expectedTo)
     /\ ~InWindow(e.sender, e.nonce)
     /\ verdict' = "accepted"
     /\ window' = [window EXCEPT ![e.sender] = LastSeen(Append(@, e.nonce))]
     /\ accepted' = [accepted EXCEPT ![e.sender] = Append(@, e)]

-----------------------------------------------------------------------------
(* Actions.                                                                *)

\* A peer signs an envelope, by its own clock and with a fresh nonce.
BuildMessage(p, to, ts, n) ==
  /\ to # p
  /\ \A e \in sent : e.nonce # n
  /\ sent' = sent \cup {SignEnvelope(p, to, ts, n)}
  /\ UNCHANGED <<now, contacts, window, accepted, verdict, updates>>

\* _handle_signal_conn reads an envelope from a connection.
ReceiveRequest(e) ==
  /\ Len(accepted[e.sender]) < MaxAccepts
  /\ Validate(e, Peer, {Me})
  /\ UNCHANGED <<now, sent, contacts, updates>>

\* _initiate_with_contact reads the reply to what it sent to contact p.
ReceiveReply(p, e) ==
  /\ contacts[p] # None
  /\ Len(accepted[e.sender]) < MaxAccepts
  /\ Validate(e, {p}, Peer \cup {Me})
  /\ UNCHANGED <<now, sent, contacts, updates>>

\* /add-json, /add-file, /add-invite: the invite's key replaces the old one.
AddContact(p, key) ==
  /\ updates < MaxUpdates
  /\ contacts' = [contacts EXCEPT ![p] = key]
  /\ updates' = updates + 1
  /\ UNCHANGED <<now, sent, window, accepted, verdict>>

\* Time passes.
Tick ==
  /\ now < MaxTime
  /\ now' = now + 1
  /\ UNCHANGED <<sent, contacts, window, accepted, verdict, updates>>

\* The process ends and starts again: contacts are on disk, the window is not.
Restart ==
  /\ window' = [p \in Peer |-> <<>>]
  /\ accepted' = [p \in Peer |-> <<>>]
  /\ verdict' = "none"
  /\ UNCHANGED <<now, sent, contacts, updates>>

\* What the network can hand over.
Wire == sent \cup UNION {Damaged(e) : e \in sent}

Next ==
  \/ \E p \in Peer, to \in Peer \cup {Me}, ts \in Time, n \in Nonce :
       BuildMessage(p, to, ts, n)
  \/ \E e \in Wire : ReceiveRequest(e)
  \/ \E p \in Peer, e \in Wire : ReceiveReply(p, e)
  \/ \E p, key \in Peer : AddContact(p, key)
  \/ Tick
  \/ Restart

Spec == Init /\ [][Next]_vars

-----------------------------------------------------------------------------
(* Properties.                                                             *)

\* Types of the variables.
TypeOK ==
  /\ now \in Time
  /\ sent \subseteq Envelope
  /\ contacts \in [Peer -> Peer \cup {None}]
  /\ window \in [Peer -> Seq(Nonce)]
  /\ accepted \in [Peer -> Seq(Envelope)]
  /\ verdict \in Verdict
  /\ updates \in 0..MaxUpdates
  /\ \A p \in Peer : Len(window[p]) <= MaxSeen

\* What is accepted as coming from a peer was signed by that peer, word for
\* word, whatever keys the contacts have held meanwhile.
OnlyGenuine ==
  \A p \in Peer : \A i \in 1..Len(accepted[p]) :
    accepted[p][i] \in sent /\ accepted[p][i].sender = p

\* At most MaxSeen envelopes of p carry timestamps within four times the
\* skew of each other.
Sparse(p) ==
  \A t \in Time :
    Cardinality({e \in sent : e.sender = p /\ e.ts \in t..(t + 4 * MaxSkew)}) <= MaxSeen

\* The window and the skew together make acceptance at-most-once in a run of
\* the node, as long as the peer does not send faster than the window can
\* remember.  Twice the skew would not be enough: between two acceptances of
\* one envelope 2 * MaxSkew may pass, and what is accepted meanwhile may be
\* stamped MaxSkew before the first or MaxSkew after the second.
AtMostOnce ==
  \A p \in Peer : Sparse(p) =>
    \A i, j \in 1..Len(accepted[p]) :
      accepted[p][i].nonce = accepted[p][j].nonce => i = j

\* e is a request to this node from a contact with the right key, in time,
\* and has not been accepted in this run.
FirstInTime(e) ==
  /\ e.recipient = Me
  /\ contacts[e.sender] = e.sender
  /\ e.ts <= now + MaxSkew /\ now <= e.ts + MaxSkew
  /\ \A i \in 1..Len(accepted[e.sender]) : accepted[e.sender][i] # e

\* The first delivery in time of a contact's request is never refused: not
\* for a damaged copy that came before it, a nonce of another peer, or a
\* message that was only signed.
FirstIsAccepted ==
  [][\A e \in sent : FirstInTime(e) /\ ReceiveRequest(e) => verdict' = "accepted"]_vars
=============================================================================
