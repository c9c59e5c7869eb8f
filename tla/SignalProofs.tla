---------------------------- MODULE SignalProofs ----------------------------
(***************************************************************************)
(* What Signal's runs check, for any peers, nonces, window and skew.       *)
(***************************************************************************)
EXTENDS Signal, FiniteSetTheorems, TLAPS

\* Peers sign what they send, and never use a nonce again.
SentIsSigned ==
  /\ \A e \in sent : e.signer = e.sender /\ e.version = ProtocolVersion /\ e.nonce \in Nonce
  /\ \A e, f \in sent : e.nonce = f.nonce => e = f

\* The replay window of a peer holds nonces of envelopes accepted from it
\* in this run, and nothing else.
WindowIsAccepted ==
  \A p \in Peer : \A i \in 1..Len(window[p]) :
    \E j \in 1..Len(accepted[p]) : accepted[p][j].nonce = window[p][i]

\* The inductive invariant of the first theorems, ...
IInv ==
  /\ TypeOK
  /\ SentIsSigned
  /\ OnlyGenuine
  /\ WindowIsAccepted

-----------------------------------------------------------------------------
\* A nonce appended to a window: its length, and where its nonces come from.
LEMMA LastSeenAppend ==
  ASSUME NEW s \in Seq(Nonce), Len(s) <= MaxSeen, NEW n \in Nonce
  PROVE  /\ LastSeen(Append(s, n)) \in Seq(Nonce)
         /\ Len(LastSeen(Append(s, n))) <= MaxSeen
         /\ \A i \in 1..Len(LastSeen(Append(s, n))) :
              \/ LastSeen(Append(s, n))[i] = n
              \/ \E j \in 1..Len(s) : LastSeen(Append(s, n))[i] = s[j]
<1> DEFINE t == Append(s, n)
<1>1. t \in Seq(Nonce) /\ Len(t) = Len(s) + 1 /\ Len(s) \in Nat
  OBVIOUS
<1>2. \A i \in 1..Len(t) : t[i] = n \/ \E j \in 1..Len(s) : t[i] = s[j]
  <2> TAKE i \in 1..Len(t)
  <2>1. CASE i = Len(s) + 1
    BY <2>1
  <2>2. CASE i # Len(s) + 1
    <3>1. i \in 1..Len(s) /\ t[i] = s[i]
      BY <1>1, <2>2
    <3> QED
      BY <3>1
  <2> QED
    BY <2>1, <2>2
<1>3. CASE Len(t) > MaxSeen
  <2>1. LastSeen(t) = Tail(t)
    BY <1>3 DEF LastSeen
  <2>2. Tail(t) \in Seq(Nonce) /\ Len(Tail(t)) = Len(s)
    BY <1>1
  <2>3. \A i \in 1..Len(Tail(t)) : Tail(t)[i] = t[i + 1] /\ i + 1 \in 1..Len(t)
    BY <1>1, <2>2
  <2>4. \A i \in 1..Len(Tail(t)) : Tail(t)[i] = n \/ \E j \in 1..Len(s) : Tail(t)[i] = s[j]
    <3> HIDE DEF t
    <3> QED
      BY <1>2, <2>3
  <2> QED
    BY <2>1, <2>2, <2>4
<1>4. CASE ~(Len(t) > MaxSeen)
  <2>1. LastSeen(t) = t
    BY <1>4 DEF LastSeen
  <2>2. Len(t) <= MaxSeen
    BY <1>1, <1>4, SignalAssumption
  <2> QED
    BY <1>1, <1>2, <2>1, <2>2
<1> QED
  BY <1>3, <1>4

\* What is on the wire is an envelope, and a valid one is as it was sent.
LEMMA WireIsSent ==
  ASSUME IInv, NEW e \in Wire
  PROVE  /\ e \in Envelope
         /\ \A From, To : Valid(e, From, To) => e \in sent /\ e.sender \in Peer /\ e.nonce \in Nonce
<1>1. CASE e \in sent
  BY <1>1 DEF IInv, TypeOK, SentIsSigned, Envelope
<1>2. CASE \E f \in sent : e \in Damaged(f)
  <2>1. PICK f \in sent : e \in Damaged(f)
    BY <1>2
  <2>2. PICK v \in {ProtocolVersion, 2}, n \in {f.nonce, None} :
          e = [f EXCEPT !.signer = None, !.version = v, !.nonce = n]
    BY <2>1 DEF Damaged
  <2>3. f \in Envelope
    BY DEF IInv, TypeOK
  <2>4. e \in Envelope /\ e.signer = None
    BY <2>2, <2>3 DEF Envelope
  <2>5. \A From, To : ~Valid(e, From, To)
    BY <2>4 DEF Valid, VerifyEnvelope
  <2> QED
    BY <2>4, <2>5
<1> QED
  BY <1>1, <1>2 DEF Wire

-----------------------------------------------------------------------------
\* At first nothing is sent, remembered or accepted.
LEMMA InitIInv == Init => IInv
<1> SUFFICES ASSUME Init PROVE IInv
  OBVIOUS
<1> USE DEF Init
<1>1. TypeOK
  BY SignalAssumption DEF TypeOK, Time, Verdict
<1>2. SentIsSigned
  BY DEF SentIsSigned
<1>3. OnlyGenuine /\ WindowIsAccepted
  BY DEF OnlyGenuine, WindowIsAccepted
<1> QED
  BY <1>1, <1>2, <1>3 DEF IInv

\* An envelope off the wire, whoever is expected to have sent it to whom,
\* leaves the window and the history in order.
LEMMA ValidateStep ==
  ASSUME IInv, NEW e \in Wire, NEW From, NEW To, Validate(e, From, To),
         UNCHANGED <<now, sent, contacts, updates>>
  PROVE  IInv'
<1>1. e \in Envelope /\ e.sender \in Peer
  BY WireIsSent DEF Envelope
<1>2. CASE UNCHANGED <<window, accepted>> /\ verdict' \in {"invalid", "replay"}
  BY <1>2 DEF IInv, TypeOK, SentIsSigned, OnlyGenuine, WindowIsAccepted, Verdict
<1>3. ASSUME Valid(e, From, To), verdict' = "accepted",
             window' = [window EXCEPT ![e.sender] = LastSeen(Append(@, e.nonce))],
             accepted' = [accepted EXCEPT ![e.sender] = Append(@, e)]
      PROVE  IInv'
  <2> DEFINE p == e.sender
             w == LastSeen(Append(window[p], e.nonce))
  <2>1. e \in sent /\ e.nonce \in Nonce
    BY <1>3, WireIsSent
  <2>2. window[p] \in Seq(Nonce) /\ Len(window[p]) <= MaxSeen /\ accepted[p] \in Seq(Envelope)
    BY <1>1 DEF IInv, TypeOK
  <2>3. /\ w \in Seq(Nonce)
        /\ Len(w) <= MaxSeen
        /\ \A i \in 1..Len(w) : w[i] = e.nonce \/ \E j \in 1..Len(window[p]) : w[i] = window[p][j]
    BY <2>1, <2>2, LastSeenAppend
  <2>4. /\ window'[p] = w
        /\ \A q \in Peer : q # p => window'[q] = window[q] /\ accepted'[q] = accepted[q]
        /\ accepted'[p] = Append(accepted[p], e)
    BY <1>1, <1>3 DEF IInv, TypeOK
  <2>5. /\ Len(accepted'[p]) = Len(accepted[p]) + 1
        /\ accepted'[p][Len(accepted[p]) + 1] = e
        /\ \A i \in 1..Len(accepted[p]) : accepted'[p][i] = accepted[p][i]
        /\ Len(accepted[p]) \in Nat
    BY <2>2, <2>4
  <2>6. TypeOK'
    <3>1. window' \in [Peer -> Seq(Nonce)]
      BY <1>1, <1>3, <2>3 DEF IInv, TypeOK
    <3>2. accepted' \in [Peer -> Seq(Envelope)]
      BY <1>1, <1>3, <2>2 DEF IInv, TypeOK
    <3>3. \A q \in Peer : Len(window'[q]) <= MaxSeen
      BY <2>3, <2>4 DEF IInv, TypeOK
    <3> QED
      BY <1>3, <3>1, <3>2, <3>3 DEF IInv, TypeOK, Verdict
  <2>7. SentIsSigned'
    BY DEF IInv, SentIsSigned
  <2>8. OnlyGenuine'
    <3> SUFFICES ASSUME NEW q \in Peer, NEW i \in 1..Len(accepted'[q])
                 PROVE  accepted'[q][i] \in sent /\ accepted'[q][i].sender = q
      BY DEF OnlyGenuine
    <3>1. CASE q # p
      BY <2>4, <3>1 DEF IInv, OnlyGenuine
    <3>2. CASE q = p /\ i = Len(accepted[p]) + 1
      BY <2>1, <2>5, <3>2
    <3>3. CASE q = p /\ i # Len(accepted[p]) + 1
      <4>1. i \in 1..Len(accepted[p])
        BY <2>5, <3>3
      <4> QED
        BY <1>1, <2>5, <3>3, <4>1 DEF IInv, OnlyGenuine
    <3> QED
      BY <3>1, <3>2, <3>3
  <2>9. WindowIsAccepted'
    <3> SUFFICES ASSUME NEW q \in Peer, NEW i \in 1..Len(window'[q])
                 PROVE  \E j \in 1..Len(accepted'[q]) : accepted'[q][j].nonce = window'[q][i]
      BY DEF WindowIsAccepted
    <3>1. CASE q # p
      <4>1. window'[q] = window[q] /\ accepted'[q] = accepted[q]
        BY <2>4, <3>1
      <4>2. \E j \in 1..Len(accepted[q]) : accepted[q][j].nonce = window[q][i]
        BY <4>1 DEF IInv, WindowIsAccepted
      <4> QED
        BY <4>1, <4>2
    <3>2. CASE q = p /\ w[i] = e.nonce
      <4>1. Len(accepted[p]) + 1 \in 1..Len(accepted'[p])
        BY <2>5
      <4>2. accepted'[q][Len(accepted[p]) + 1].nonce = window'[q][i]
        BY <2>4, <2>5, <3>2
      <4> QED
        BY <3>2, <4>1, <4>2
    <3>3. ASSUME q = p, NEW k \in 1..Len(window[p]), w[i] = window[p][k]
          PROVE  \E j \in 1..Len(accepted'[q]) : accepted'[q][j].nonce = window'[q][i]
      <4>1. PICK j \in 1..Len(accepted[p]) : accepted[p][j].nonce = window[p][k]
        BY <1>1 DEF IInv, WindowIsAccepted
      <4>2. j \in 1..Len(accepted'[p]) /\ accepted'[p][j] = accepted[p][j]
        BY <2>5
      <4>3. accepted'[q][j].nonce = window'[q][i]
        BY <2>4, <3>3, <4>1, <4>2
      <4> QED
        BY <3>3, <4>2, <4>3
    <3>4. CASE q = p
      <4>1. i \in 1..Len(w)
        BY <2>4, <3>4
      <4>2. w[i] = e.nonce \/ \E k \in 1..Len(window[p]) : w[i] = window[p][k]
        BY <2>3, <4>1
      <4> HIDE DEF w
      <4> QED
        BY <3>2, <3>3, <3>4, <4>2
    <3> QED
      BY <3>1, <3>4
  <2> QED
    BY <2>6, <2>7, <2>8, <2>9 DEF IInv
<1> QED
  BY <1>2, <1>3 DEF Validate

\* Every step preserves the invariant.
LEMMA NextIInv == IInv /\ [Next]_vars => IInv'
<1> SUFFICES ASSUME IInv, [Next]_vars PROVE IInv'
  OBVIOUS
<1>1. ASSUME NEW p \in Peer, NEW to \in Peer \cup {Me}, NEW ts \in Time, NEW n \in Nonce,
             BuildMessage(p, to, ts, n)
      PROVE  IInv'
  <2> DEFINE e == SignEnvelope(p, to, ts, n)
  <2>1. e \in Envelope
    BY DEF SignEnvelope, Envelope
  <2>2. sent' = sent \cup {e}
    BY <1>1 DEF BuildMessage
  <2>3. TypeOK'
    BY <1>1, <2>1, <2>2 DEF BuildMessage, IInv, TypeOK
  <2>4. SentIsSigned'
    BY <1>1, <2>2 DEF BuildMessage, SignEnvelope, IInv, SentIsSigned
  <2>5. OnlyGenuine' /\ WindowIsAccepted'
    BY <1>1, <2>2 DEF BuildMessage, IInv, OnlyGenuine, WindowIsAccepted
  <2> QED
    BY <2>3, <2>4, <2>5 DEF IInv
<1>2. ASSUME NEW e \in Wire, ReceiveRequest(e)
      PROVE  IInv'
  BY <1>2, ValidateStep DEF ReceiveRequest
<1>3. ASSUME NEW p \in Peer, NEW e \in Wire, ReceiveReply(p, e)
      PROVE  IInv'
  BY <1>3, ValidateStep DEF ReceiveReply
<1>4. ASSUME NEW p \in Peer, NEW key \in Peer, AddContact(p, key)
      PROVE  IInv'
  <2>1. TypeOK'
    <3>1. updates' \in 0..MaxUpdates
      BY <1>4, SignalAssumption DEF AddContact, IInv, TypeOK
    <3>2. contacts' \in [Peer -> Peer \cup {None}]
      BY <1>4 DEF AddContact, IInv, TypeOK
    <3> QED
      BY <1>4, <3>1, <3>2 DEF AddContact, IInv, TypeOK
  <2> QED
    BY <1>4, <2>1 DEF AddContact, IInv, SentIsSigned, OnlyGenuine, WindowIsAccepted
<1>5. CASE Tick
  <2>1. TypeOK'
    <3>1. now' \in Time
      BY <1>5, SignalAssumption DEF Tick, Time, IInv, TypeOK
    <3> QED
      BY <1>5, <3>1 DEF Tick, IInv, TypeOK
  <2> QED
    BY <1>5, <2>1 DEF Tick, IInv, SentIsSigned, OnlyGenuine, WindowIsAccepted
<1>6. CASE Restart
  <2>1. TypeOK' /\ SentIsSigned'
    BY <1>6, SignalAssumption DEF Restart, IInv, TypeOK, SentIsSigned, Verdict
  <2>2. OnlyGenuine' /\ WindowIsAccepted'
    BY <1>6 DEF Restart, OnlyGenuine, WindowIsAccepted
  <2> QED
    BY <2>1, <2>2 DEF IInv
<1>7. CASE UNCHANGED vars
  BY <1>7 DEF vars, IInv, TypeOK, SentIsSigned, OnlyGenuine, WindowIsAccepted
<1> QED
  BY <1>1, <1>2, <1>3, <1>4, <1>5, <1>6, <1>7 DEF Next

-----------------------------------------------------------------------------
\* The strengthened invariant of the envelope handling.
THEOREM SignalInvariant == Spec => []IInv
BY InitIInv, NextIInv, PTL DEF Spec

\* Types, and the bound on what is remembered of a peer (p4.py:340-342).
THEOREM SignalTypes == Spec => []TypeOK
BY SignalInvariant, PTL DEF IInv

\* Only what a peer has signed is accepted as coming from it
\* (_validate_message, p4.py:1019-1055).
THEOREM SignalOnlyGenuine == Spec => []OnlyGenuine
BY SignalInvariant, PTL DEF IInv

\* The first delivery in time of a contact's request is accepted: since only
\* accepted envelopes enter the window and a nonce is used once, the window
\* never speaks against it (order of the checks in _validate_message).
THEOREM SignalFirstIsAccepted == Spec => FirstIsAccepted
<1> DEFINE First == \A e \in sent : FirstInTime(e) /\ ReceiveRequest(e) => verdict' = "accepted"
<1>1. IInv /\ [Next]_vars => [First]_vars
  <2> SUFFICES ASSUME IInv, NEW e \in sent, FirstInTime(e), ReceiveRequest(e)
               PROVE  verdict' = "accepted"
    OBVIOUS
  <2>1. e \in Envelope /\ e.sender \in Peer /\ e.ts \in Nat /\ now \in Nat /\ e.ts <= MaxTime
    BY SignalAssumption DEF IInv, TypeOK, Envelope, Time
  <2>2. e.ts \in SaturatingSub(now, MaxSkew)..SaturatingAdd(now, MaxSkew)
    BY <2>1, SignalAssumption DEF FirstInTime, SaturatingSub, SaturatingAdd
  <2>3. Valid(e, Peer, {Me})
    BY <2>1, <2>2, SignalAssumption
       DEF FirstInTime, Valid, VerifyEnvelope, IInv, SentIsSigned
  <2>4. ~InWindow(e.sender, e.nonce)
    <3> SUFFICES ASSUME NEW i \in 1..Len(window[e.sender]), window[e.sender][i] = e.nonce
                 PROVE  FALSE
      BY DEF InWindow
    <3>1. PICK j \in 1..Len(accepted[e.sender]) : accepted[e.sender][j].nonce = e.nonce
      BY <2>1 DEF IInv, WindowIsAccepted
    <3>2. accepted[e.sender][j] \in sent
      BY <2>1 DEF IInv, OnlyGenuine
    <3> QED
      BY <3>1, <3>2 DEF IInv, SentIsSigned, FirstInTime
  <2> QED
    BY <2>3, <2>4 DEF ReceiveRequest, Validate
<1>2. FirstIsAccepted <=> [][First]_vars
  BY DEF FirstIsAccepted
<1> QED
  BY <1>1, <1>2, SignalInvariant, PTL DEF Spec
-----------------------------------------------------------------------------
(* At most once.                                                           *)

\* w holds the nonces of the last MaxSeen envelopes of a, oldest first.
Recent(a, w) ==
  /\ Len(w) = IF Len(a) > MaxSeen THEN MaxSeen ELSE Len(a)
  /\ \A i \in 1..Len(w) : w[i] = a[Len(a) - Len(w) + i].nonce

\* The envelopes of a are not stamped later than the skew allows at time t, and
\* not much later than what follows them.
InTime(a, t) ==
  \A i \in 1..Len(a) :
    /\ a[i].ts <= t + MaxSkew
    /\ \A j \in i..Len(a) : a[i].ts <= a[j].ts + 2 * MaxSkew

\* The replay window remembers what was accepted last.
WindowIsRecent == \A p \in Peer : Recent(accepted[p], window[p])

\* What has been accepted was within the skew.
AcceptedInTime == \A p \in Peer : InTime(accepted[p], now)

\* ... and the one that no envelope is accepted twice rests on.
OnceInv ==
  /\ IInv
  /\ IsFiniteSet(sent)
  /\ WindowIsRecent
  /\ AcceptedInTime
  /\ AtMostOnce

\* Timestamps are numbers.
LEMMA StampIsNat == \A e \in Envelope : e.ts \in Nat /\ e.ts <= MaxTime
BY SignalAssumption DEF Envelope, Time

\* An envelope stamped x, accepted between two acceptances of one stamped y
\* of which the second happens at n, is within twice the skew k of y.
LEMMA WithinSkew ==
  ASSUME NEW x \in Nat, NEW y \in Nat, NEW n \in Nat, NEW k \in Nat,
         x <= n + k, n <= y + k, y <= x + 2 * k
  PROVE  /\ SaturatingSub(y, 2 * k) \in 0..y
         /\ x \in SaturatingSub(y, 2 * k)..(SaturatingSub(y, 2 * k) + 4 * k)
<1>1. CASE y >= 2 * k
  BY <1>1 DEF SaturatingSub
<1>2. CASE ~(y >= 2 * k)
  BY <1>2 DEF SaturatingSub
<1> QED
  BY <1>1, <1>2

\* With more envelopes sent a peer is no sparser.
LEMMA SparseBefore ==
  ASSUME IsFiniteSet(sent'), sent \subseteq sent', NEW p \in Peer, Sparse(p)'
  PROVE  Sparse(p)
<1> SUFFICES ASSUME NEW t \in Time
             PROVE  Cardinality({e \in sent : e.sender = p /\ e.ts \in t..(t + 4 * MaxSkew)}) <= MaxSeen
  BY DEF Sparse
<1> DEFINE F == {e \in sent : e.sender = p /\ e.ts \in t..(t + 4 * MaxSkew)}
           G == {e \in sent' : e.sender = p /\ e.ts \in t..(t + 4 * MaxSkew)}
<1>1. Cardinality(G) <= MaxSeen
  BY DEF Sparse
<1>2. IsFiniteSet(G)
  <2>1. G \in SUBSET sent'
    OBVIOUS
  <2> HIDE DEF G
  <2> QED
    BY <2>1, FS_Subset
<1>3. F \in SUBSET G
  OBVIOUS
<1> HIDE DEF F, G
<1>4. IsFiniteSet(F) /\ Cardinality(F) <= Cardinality(G)
  BY <1>2, <1>3, FS_Subset
<1>5. Cardinality(F) \in Nat /\ Cardinality(G) \in Nat /\ MaxSeen \in Nat
  BY <1>2, <1>4, FS_CardinalityType, SignalAssumption
<1> QED
  BY <1>1, <1>4, <1>5 DEF F

\* More than MaxSeen different envelopes within four times the skew: the peer
\* is not sparse.
LEMMA Crowded ==
  ASSUME IsFiniteSet(sent), NEW p \in Peer, Sparse(p), NEW t \in Time, NEW i \in Nat,
         NEW s,
         \A j \in i..(i + MaxSeen) :
            /\ s[j] \in sent /\ s[j].sender = p /\ s[j].ts \in t..(t + 4 * MaxSkew)
            /\ \A k \in i..(i + MaxSeen) : s[j] = s[k] => j = k
  PROVE  FALSE
<1> DEFINE F == {e \in sent : e.sender = p /\ e.ts \in t..(t + 4 * MaxSkew)}
           f == [j \in i..(i + MaxSeen) |-> s[j]]
<1>1. Cardinality(F) <= MaxSeen /\ MaxSeen \in Nat
  BY SignalAssumption DEF Sparse
<1>2. IsFiniteSet(F)
  <2>1. F \in SUBSET sent
    OBVIOUS
  <2> HIDE DEF F
  <2> QED
    BY <2>1, FS_Subset
<1>3. f \in Injection(i..(i + MaxSeen), F)
  BY DEF Injection, IsInjective
<1> HIDE DEF F, f
<1>4. Cardinality(i..(i + MaxSeen)) <= Cardinality(F)
  BY <1>2, <1>3, FS_Injection
<1>5. Cardinality(i..(i + MaxSeen)) = MaxSeen + 1
  BY <1>1, FS_Interval
<1>6. Cardinality(F) \in Nat
  BY <1>2, FS_CardinalityType
<1> QED
  BY <1>1, <1>4, <1>5, <1>6

\* u is the end of s and n that fits into a window.
Shifted(s, n, u) ==
  /\ u \in Seq(Nonce)
  /\ Len(u) = IF Len(s) + 1 > MaxSeen THEN MaxSeen ELSE Len(s) + 1
  /\ \A i \in 1..Len(u) : \E k \in 1..(Len(s) + 1) :
        /\ k + Len(u) = Len(s) + 1 + i
        /\ u[i] = IF k = Len(s) + 1 THEN n ELSE s[k]

\* The nonces of a window, after one is appended.
LEMMA LastSeenIsSuffix ==
  ASSUME NEW s \in Seq(Nonce), Len(s) <= MaxSeen, NEW n \in Nonce,
         NEW u, u = LastSeen(Append(s, n))
  PROVE  Shifted(s, n, u)
<1> DEFINE t == Append(s, n)
<1>1. /\ t \in Seq(Nonce) /\ Len(t) = Len(s) + 1 /\ Len(s) \in Nat /\ MaxSeen \in Nat
      /\ \A i \in 1..Len(t) : t[i] = IF i = Len(s) + 1 THEN n ELSE s[i]
  BY SignalAssumption
<1> HIDE DEF t
<1>2. CASE Len(t) > MaxSeen
  <2>1. u = Tail(t)
    BY <1>2 DEF LastSeen, t
  <2>2. u \in Seq(Nonce) /\ Len(u) = Len(s) /\ Len(s) = MaxSeen
    BY <1>1, <1>2, <2>1
  <2>3. \A i \in 1..Len(s) : u[i] = t[i + 1] /\ i + 1 \in 1..Len(t)
    BY <1>1, <2>1, <2>2
  <2>4. ASSUME NEW i \in 1..Len(u)
        PROVE  \E k \in 1..(Len(s) + 1) :
                  k + Len(u) = Len(s) + 1 + i /\ u[i] = IF k = Len(s) + 1 THEN n ELSE s[k]
    <3>1. i + 1 \in 1..(Len(s) + 1) /\ (i + 1) + Len(u) = Len(s) + 1 + i /\ u[i] = t[i + 1]
      BY <1>1, <2>2, <2>3
    <3>2. t[i + 1] = IF i + 1 = Len(s) + 1 THEN n ELSE s[i + 1]
      BY <1>1, <3>1
    <3> QED
      BY <3>1, <3>2
  <2> QED
    BY <1>1, <1>2, <2>2, <2>4 DEF Shifted
<1>3. CASE ~(Len(t) > MaxSeen)
  <2>1. u = t
    BY <1>3 DEF LastSeen, t
  <2>2. ASSUME NEW i \in 1..Len(u)
        PROVE  \E k \in 1..(Len(s) + 1) :
                  k + Len(u) = Len(s) + 1 + i /\ u[i] = IF k = Len(s) + 1 THEN n ELSE s[k]
    <3>1. i \in 1..(Len(s) + 1) /\ i + Len(u) = Len(s) + 1 + i
      BY <1>1, <2>1
    <3>2. u[i] = IF i = Len(s) + 1 THEN n ELSE s[i]
      BY <1>1, <2>1
    <3> QED
      BY <3>1, <3>2
  <2> QED
    BY <1>1, <1>3, <2>1, <2>2 DEF Shifted
<1> QED
  BY <1>2, <1>3

\* Nothing is remembered of an empty history.
LEMMA RecentEmpty == Recent(<<>>, <<>>)
<1>1. Len(<<>>) = 0 /\ MaxSeen \in Nat
  BY SignalAssumption
<1>2. Len(<<>>) = IF Len(<<>>) > MaxSeen THEN MaxSeen ELSE Len(<<>>)
  BY <1>1
<1>3. 1..Len(<<>>) = {}
  BY <1>1
<1> QED
  BY <1>2, <1>3, Zenon DEF Recent

\* A window and a history that an envelope is appended to.
LEMMA RecentAppend ==
  ASSUME NEW a \in Seq(Envelope), NEW w \in Seq(Nonce), Recent(a, w), NEW e \in Envelope,
         e.nonce \in Nonce, NEW v, v = LastSeen(Append(w, e.nonce))
  PROVE  Recent(Append(a, e), v)
<1> DEFINE b == Append(a, e)
<1>1. /\ Len(a) \in Nat /\ Len(w) \in Nat /\ MaxSeen \in Nat /\ Len(w) <= MaxSeen
      /\ Len(w) <= Len(a)
  BY SignalAssumption DEF Recent
<1>2. /\ Len(w) = IF Len(a) > MaxSeen THEN MaxSeen ELSE Len(a)
      /\ \A i \in 1..Len(w) : w[i] = a[Len(a) - Len(w) + i].nonce
  BY DEF Recent
<1>3. Len(b) = Len(a) + 1
  OBVIOUS
<1>4. \A i \in 1..(Len(a) + 1) : b[i] = IF i = Len(a) + 1 THEN e ELSE a[i]
  OBVIOUS
<1>5. /\ v \in Seq(Nonce)
      /\ Len(v) = IF Len(w) + 1 > MaxSeen THEN MaxSeen ELSE Len(w) + 1
      /\ \A i \in 1..Len(v) : \E k \in 1..(Len(w) + 1) :
            /\ k + Len(v) = Len(w) + 1 + i
            /\ v[i] = IF k = Len(w) + 1 THEN e.nonce ELSE w[k]
  <2>1. Shifted(w, e.nonce, v)
    BY <1>1, LastSeenIsSuffix
  <2> QED
    BY <2>1 DEF Shifted
<1> HIDE DEF b
<1>6. Len(v) = IF Len(b) > MaxSeen THEN MaxSeen ELSE Len(b)
  BY <1>1, <1>2, <1>3, <1>5
<1>0. Len(v) \in Nat
  BY <1>5
<1>7. ASSUME NEW i \in 1..Len(v)
      PROVE  v[i] = b[Len(b) - Len(v) + i].nonce
  <2>1. PICK k \in 1..(Len(w) + 1) :
            /\ k + Len(v) = Len(w) + 1 + i
            /\ v[i] = IF k = Len(w) + 1 THEN e.nonce ELSE w[k]
    BY <1>5
  <2>2. k + Len(v) = Len(w) + 1 + i /\ i \in Int
    BY <2>1
  <2>3. /\ Len(b) - Len(v) + i = Len(a) - Len(w) + k
        /\ Len(a) - Len(w) + k \in 1..(Len(a) + 1)
    <3>1. k \in Int /\ 1 <= k /\ k <= Len(w) + 1
      BY <1>1
    <3> QED
      BY <1>0, <1>1, <1>3, <2>2, <3>1
  <2>4. CASE k = Len(w) + 1
    <3>1. Len(a) - Len(w) + k = Len(a) + 1
      BY <1>1, <2>4
    <3> QED
      BY <1>4, <2>1, <2>3, <2>4, <3>1
  <2>5. CASE k # Len(w) + 1
    <3>1. k \in 1..Len(w) /\ Len(a) - Len(w) + k # Len(a) + 1
      BY <1>1, <2>5
    <3>2. v[i] = a[Len(a) - Len(w) + k].nonce
      BY <1>2, <2>1, <2>5, <3>1
    <3> QED
      BY <1>4, <2>3, <3>1, <3>2
  <2> QED
    BY <2>4, <2>5
<1> QED
  BY <1>6, <1>7 DEF Recent, b

\* An envelope within the skew is appended.
LEMMA InTimeAppend ==
  ASSUME NEW a \in Seq(Envelope), NEW t \in Nat, InTime(a, t), NEW e \in Envelope,
         t <= e.ts + MaxSkew, e.ts <= t + MaxSkew
  PROVE  InTime(Append(a, e), t)
<1> DEFINE b == Append(a, e)
<1>1. Len(a) \in Nat /\ MaxSkew \in Nat /\ e.ts \in Nat
  BY SignalAssumption, StampIsNat
<1>2. Len(b) = Len(a) + 1 /\ \A i \in 1..(Len(a) + 1) : b[i] = IF i = Len(a) + 1 THEN e ELSE a[i]
  OBVIOUS
<1>3. \A i \in 1..Len(a) : /\ a[i].ts \in Nat /\ a[i].ts <= t + MaxSkew
                           /\ \A j \in i..Len(a) : a[i].ts <= a[j].ts + 2 * MaxSkew
  <2>1. \A i \in 1..Len(a) : a[i] \in Envelope
    OBVIOUS
  <2> QED
    BY <2>1, StampIsNat DEF InTime
<1> HIDE DEF b
<1> SUFFICES ASSUME NEW i \in 1..Len(b)
             PROVE  /\ b[i].ts <= t + MaxSkew
                    /\ \A j \in i..Len(b) : b[i].ts <= b[j].ts + 2 * MaxSkew
  BY DEF InTime, b
<1>4. b[i].ts <= t + MaxSkew /\ b[i].ts \in Nat
  BY <1>1, <1>2, <1>3
<1>5. ASSUME NEW j \in i..Len(b) PROVE b[i].ts <= b[j].ts + 2 * MaxSkew
  <2>1. CASE j = Len(a) + 1
    <3>1. b[j] = e
      BY <1>1, <1>2, <2>1
    <3> QED
      BY <1>1, <1>4, <3>1
  <2>2. CASE j # Len(a) + 1
    <3>1. i \in 1..Len(a) /\ j \in i..Len(a) /\ b[i] = a[i] /\ b[j] = a[j]
      BY <1>1, <1>2, <2>2
    <3> QED
      BY <1>3, <3>1
  <2> QED
    BY <2>1, <2>2
<1> QED
  BY <1>4, <1>5

\* An envelope is accepted for the first time, or its peer sends too fast:
\* since the first time more than MaxSeen envelopes have been accepted.
LEMMA NotAgain ==
  ASSUME OnceInv, NEW e \in sent, e.sender \in Peer, e.nonce \in Nonce,
         e.ts \in Time, now <= e.ts + MaxSkew,
         Sparse(e.sender), ~InWindow(e.sender, e.nonce),
         NEW i \in 1..Len(accepted[e.sender]), accepted[e.sender][i].nonce = e.nonce
  PROVE  FALSE
<1> DEFINE p == e.sender
           a == accepted[p]
           w == window[p]
<1>1. /\ a \in Seq(Envelope) /\ w \in Seq(Nonce) /\ Len(a) \in Nat /\ Len(w) \in Nat
      /\ MaxSeen \in Nat /\ MaxSkew \in Nat /\ now \in Nat /\ e.ts \in Nat /\ MaxTime \in Nat
      /\ e.ts <= MaxTime
  BY SignalAssumption DEF OnceInv, IInv, TypeOK, Time
<1>2. \A j \in 1..Len(a) : a[j] \in sent /\ a[j].sender = p /\ a[j].ts \in Nat
  <2>1. \A j \in 1..Len(a) : a[j] \in Envelope
    BY <1>1
  <2> QED
    BY <2>1, StampIsNat DEF OnceInv, IInv, OnlyGenuine
<1>3. a[i] = e
  BY <1>2 DEF OnceInv, IInv, SentIsSigned
<1>4. /\ Len(w) = IF Len(a) > MaxSeen THEN MaxSeen ELSE Len(a)
      /\ \A k \in 1..Len(w) : w[k] = a[Len(a) - Len(w) + k].nonce
  BY DEF OnceInv, WindowIsRecent, Recent
<1>5. \A k \in 1..Len(w) : w[k] # e.nonce
  BY DEF InWindow
<1>6. \A j, k \in 1..Len(a) : a[j].nonce = a[k].nonce => j = k
  BY DEF OnceInv, AtMostOnce
<1>7. \A j \in 1..Len(a) : a[j].ts <= now + MaxSkew /\ (j \in i..Len(a) => a[i].ts <= a[j].ts + 2 * MaxSkew)
  BY DEF OnceInv, AcceptedInTime, InTime
<1>0. i \in Nat /\ i \in 1..Len(a)
  OBVIOUS
<1> HIDE DEF a, w
<1>8. i + MaxSeen <= Len(a)
  <2> SUFFICES ASSUME i + MaxSeen > Len(a) PROVE FALSE
    BY <1>1
  <2>1. Len(a) - Len(w) < i
    BY <1>1, <1>4
  <2>2. PICK k \in 1..Len(w) : Len(a) - Len(w) + k = i
    <3>1. i - (Len(a) - Len(w)) \in 1..Len(w)
      BY <1>0, <1>1, <1>4, <2>1
    <3>2. Len(a) - Len(w) + (i - (Len(a) - Len(w))) = i
      BY <1>0, <1>1
    <3> QED
      BY <3>1, <3>2
  <2>3. w[k] = a[i].nonce
    BY <1>4, <2>2
  <2> QED
    BY <1>3, <1>5, <2>2, <2>3
<1> DEFINE t == SaturatingSub(e.ts, 2 * MaxSkew)
<1>9. t \in Time
  <2>1. e.ts <= e.ts + 2 * MaxSkew /\ now <= now + MaxSkew
    BY <1>1
  <2>2. t \in 0..e.ts
    BY <1>1 DEF SaturatingSub
  <2> QED
    BY <1>1, <2>2 DEF Time
<1>11. ASSUME NEW j \in i..(i + MaxSeen)
       PROVE  /\ a[j] \in sent /\ a[j].sender = p /\ a[j].ts \in t..(t + 4 * MaxSkew)
              /\ \A k \in i..(i + MaxSeen) : a[j] = a[k] => j = k
  <2>1. j \in 1..Len(a) /\ j \in i..Len(a)
    BY <1>0, <1>1, <1>8
  <2>2. a[j].ts \in Nat /\ a[j].ts <= now + MaxSkew /\ e.ts <= a[j].ts + 2 * MaxSkew
    BY <1>2, <1>3, <1>7, <2>1
  <2>3. a[j].ts \in t..(t + 4 * MaxSkew)
    BY <1>1, <2>2, WithinSkew
  <2>4. \A k \in i..(i + MaxSeen) : k \in 1..Len(a)
    BY <1>0, <1>1, <1>8
  <2>5. \A k \in i..(i + MaxSeen) : a[j] = a[k] => j = k
    BY <1>6, <2>1, <2>4
  <2> HIDE DEF t
  <2> QED
    BY <1>2, <2>1, <2>3, <2>5
<1>12. IsFiniteSet(sent) /\ p \in Peer /\ Sparse(p)
  BY DEF OnceInv
<1> HIDE DEF p, t
<1> QED
  BY <1>0, <1>9, <1>11, <1>12, Crowded

\* An accepted envelope keeps the invariant.
LEMMA AcceptOnce ==
  ASSUME OnceInv, IInv', NEW e \in Wire, NEW From, NEW To,
         Valid(e, From, To), ~InWindow(e.sender, e.nonce),
         window' = [window EXCEPT ![e.sender] = LastSeen(Append(@, e.nonce))],
         accepted' = [accepted EXCEPT ![e.sender] = Append(@, e)],
         UNCHANGED <<now, sent>>
  PROVE  OnceInv'
<1> DEFINE p == e.sender
           a == accepted[p]
           w == window[p]
<1>1. /\ e \in sent /\ p \in Peer /\ e.nonce \in Nonce /\ e.ts \in Time
  BY WireIsSent DEF OnceInv, Envelope
<1>2. /\ a \in Seq(Envelope) /\ w \in Seq(Nonce) /\ Len(a) \in Nat /\ Len(w) \in Nat
      /\ Len(w) <= MaxSeen
      /\ MaxSeen \in Nat /\ MaxSkew \in Nat /\ now \in Nat /\ e.ts \in Nat /\ MaxTime \in Nat
      /\ now <= MaxTime /\ e.ts <= MaxTime
  BY <1>1, SignalAssumption DEF OnceInv, IInv, TypeOK, Time
<1>3. now <= e.ts + MaxSkew /\ e.ts <= now + MaxSkew
  <2>1. e.ts \in SaturatingSub(now, MaxSkew)..SaturatingAdd(now, MaxSkew)
    BY DEF Valid, VerifyEnvelope
  <2> QED
    BY <1>2, <2>1 DEF SaturatingSub, SaturatingAdd
<1>4. /\ accepted'[p] = Append(a, e) /\ window'[p] = LastSeen(Append(w, e.nonce))
      /\ \A q \in Peer : q # p => window'[q] = window[q] /\ accepted'[q] = accepted[q]
  BY <1>1 DEF OnceInv, IInv, TypeOK
<1>5. /\ Len(accepted'[p]) = Len(a) + 1
      /\ \A i \in 1..(Len(a) + 1) : accepted'[p][i] = IF i = Len(a) + 1 THEN e ELSE a[i]
  BY <1>1, <1>2, <1>4
<1>6. WindowIsRecent'
  <2>1. Recent(a, w) /\ e \in Envelope
    BY <1>1 DEF OnceInv, WindowIsRecent, IInv, TypeOK
  <2>2. Recent(accepted'[p], window'[p])
    BY <1>1, <1>2, <1>4, <2>1, RecentAppend
  <2> QED
    BY <1>4, <2>2 DEF OnceInv, WindowIsRecent
<1>7. AcceptedInTime'
  <2>1. InTime(a, now) /\ e \in Envelope
    BY <1>1 DEF OnceInv, AcceptedInTime, IInv, TypeOK
  <2>2. InTime(accepted'[p], now)
    BY <1>2, <1>3, <1>4, <2>1, InTimeAppend
  <2> QED
    BY <1>4, <2>2 DEF OnceInv, AcceptedInTime
<1>8. AtMostOnce'
  <2> SUFFICES ASSUME NEW q \in Peer, Sparse(q)',
                      NEW i \in 1..Len(accepted'[q]), NEW j \in 1..Len(accepted'[q]),
                      accepted'[q][i].nonce = accepted'[q][j].nonce
               PROVE  i = j
    BY DEF AtMostOnce
  <2>0. Sparse(q)
    BY DEF Sparse
  <2>1. CASE q # p
    BY <1>4, <2>0, <2>1 DEF OnceInv, AtMostOnce
  <2>2. CASE q = p
    <3>1. \A k \in 1..Len(a) : a[k].nonce # e.nonce
      BY <1>1, <1>3, <2>0, <2>2, NotAgain
    <3>2. \A k, m \in 1..Len(a) : a[k].nonce = a[m].nonce => k = m
      BY <1>1, <2>0, <2>2 DEF OnceInv, AtMostOnce
    <3> QED
      BY <1>2, <1>5, <2>2, <3>1, <3>2
  <2> QED
    BY <2>1, <2>2
<1>9. IsFiniteSet(sent)'
  BY DEF OnceInv
<1> QED
  BY <1>6, <1>7, <1>8, <1>9 DEF OnceInv

\* Every step preserves the invariant.
LEMMA NextOnceInv == OnceInv /\ [Next]_vars => OnceInv'
<1> SUFFICES ASSUME OnceInv, [Next]_vars PROVE OnceInv'
  OBVIOUS
<1>0. IInv'
  BY NextIInv DEF OnceInv
\* The history and the window stay, time goes on and envelopes are added.
<1>1. ASSUME UNCHANGED <<window, accepted>>, now' \in Nat, now <= now', sent \subseteq sent',
             IsFiniteSet(sent')
      PROVE  OnceInv'
  <2>1. WindowIsRecent'
    BY <1>1 DEF OnceInv, WindowIsRecent
  <2>2. AcceptedInTime'
    <3> SUFFICES ASSUME NEW p \in Peer, NEW i \in 1..Len(accepted[p])
                 PROVE  accepted[p][i].ts <= now' + MaxSkew
      BY <1>1 DEF OnceInv, AcceptedInTime, InTime
    <3>1. accepted[p][i].ts \in Nat /\ now \in Nat /\ MaxSkew \in Nat
      <4>1. accepted[p][i] \in Envelope /\ now \in Nat
        BY DEF OnceInv, IInv, TypeOK, Time
      <4> QED
        BY <4>1, StampIsNat, SignalAssumption
    <3>2. accepted[p][i].ts <= now + MaxSkew
      BY DEF OnceInv, AcceptedInTime, InTime
    <3> QED
      BY <1>1, <3>1, <3>2
  <2>3. AtMostOnce'
    BY <1>1, SparseBefore DEF OnceInv, AtMostOnce
  <2> QED
    BY <1>0, <1>1, <2>1, <2>2, <2>3 DEF OnceInv
<1>2. now \in Nat /\ IsFiniteSet(sent)
  BY DEF OnceInv, IInv, TypeOK, Time
<1>3. ASSUME NEW e \in Wire, NEW From, NEW To, Validate(e, From, To),
             UNCHANGED <<now, sent>>
      PROVE  OnceInv'
  <2>1. CASE UNCHANGED <<window, accepted>>
    BY <1>1, <1>2, <1>3, <2>1
  <2>2. CASE ~UNCHANGED <<window, accepted>>
    BY <1>0, <1>3, <2>2, AcceptOnce DEF Validate
  <2> QED
    BY <2>1, <2>2
<1>4. CASE \E p \in Peer, to \in Peer \cup {Me}, ts \in Time, n \in Nonce : BuildMessage(p, to, ts, n)
  BY <1>1, <1>2, <1>4, FS_AddElement DEF BuildMessage
<1>5. CASE \E e \in Wire : ReceiveRequest(e)
  BY <1>3, <1>5 DEF ReceiveRequest
<1>6. CASE \E p \in Peer, e \in Wire : ReceiveReply(p, e)
  BY <1>3, <1>6 DEF ReceiveReply
<1>7. CASE \E p, key \in Peer : AddContact(p, key)
  BY <1>1, <1>2, <1>7 DEF AddContact
<1>8. CASE Tick
  BY <1>1, <1>2, <1>8 DEF Tick
<1>9. CASE Restart
  <2>1. /\ \A p \in Peer : window'[p] = <<>> /\ accepted'[p] = <<>>
        /\ IsFiniteSet(sent') /\ MaxSeen \in Nat
    BY <1>2, <1>9, SignalAssumption DEF Restart
  <2>2. \A p \in Peer : Len(window'[p]) = 0 /\ Len(accepted'[p]) = 0
    BY <2>1
  <2>3. WindowIsRecent' /\ AcceptedInTime' /\ AtMostOnce'
    <3>1. \A p \in Peer : Recent(accepted'[p], window'[p])
      BY <2>1, RecentEmpty
    <3>2. \A p \in Peer : InTime(accepted'[p], now')
      BY <2>2 DEF InTime
    <3> QED
      BY <2>2, <3>1, <3>2 DEF WindowIsRecent, AcceptedInTime, AtMostOnce
  <2> QED
    BY <1>0, <2>1, <2>3 DEF OnceInv
<1>10. CASE UNCHANGED vars
  BY <1>1, <1>2, <1>10 DEF vars
<1> QED
  BY <1>4, <1>5, <1>6, <1>7, <1>8, <1>9, <1>10 DEF Next

\* At first nothing is sent or accepted.
LEMMA InitOnceInv == Init => OnceInv
<1> SUFFICES ASSUME Init PROVE OnceInv
  OBVIOUS
<1>1. /\ \A p \in Peer : window[p] = <<>> /\ accepted[p] = <<>>
      /\ IsFiniteSet(sent) /\ MaxSeen \in Nat
  BY FS_EmptySet, SignalAssumption DEF Init
<1>2. \A p \in Peer : Len(window[p]) = 0 /\ Len(accepted[p]) = 0
  BY <1>1
<1>3. WindowIsRecent /\ AcceptedInTime /\ AtMostOnce
  <2>1. \A p \in Peer : Recent(accepted[p], window[p])
    BY <1>1, RecentEmpty
  <2>2. \A p \in Peer : InTime(accepted[p], now)
    BY <1>2 DEF InTime
  <2> QED
    BY <1>2, <2>1, <2>2 DEF WindowIsRecent, AcceptedInTime, AtMostOnce
<1> QED
  BY <1>1, <1>3, InitIInv DEF OnceInv

\* In a run of the node no envelope is accepted twice from a peer that sends at
\* most MaxSeen envelopes within four times the skew: the window (p4.py:330-342)
\* forgets a nonce only when MaxSeen others were accepted after it, and all of
\* those together with the envelope would be stamped within four times the skew.
THEOREM SignalAtMostOnce == Spec => []AtMostOnce
<1>1. OnceInv => AtMostOnce
  BY DEF OnceInv
<1> QED
  BY <1>1, InitOnceInv, NextOnceInv, PTL DEF Spec
=============================================================================
