----------------------------- MODULE NodeProofs -----------------------------
(***************************************************************************)
(* The life of a node, and its memory of nonces.                           *)
(*                                                                         *)
(* What shutdown leaves behind, for any contacts and any number of offers. *)
(* None of the checked properties is inductive: when the relay may be left *)
(* rests on what each stage of the start and of shutdown has done before   *)
(* the next one begins, and that only late offers leave a connection rests *)
(* on the cancellation that every maintainer has got.                      *)
(***************************************************************************)
EXTENDS NodeLife, ReplayWindow, TLAPS

\* Until the node listens no line has been read and no contact been added, and
\* there is no relay before the start makes one, nor ever in direct mode.
StartIsQuiet ==
  /\ at \in {"start", "boot", "control", "listen"} => stdin = "none" /\ ~server
  /\ at = "start" => known = {} /\ relay = "none"
  /\ cmd = "direct" => relay = "none"

\* Whatever works on a session has one in self.sessions, so that shutdown
\* comes to it.
SessionsKnown ==
  \A c \in Contact : pc[c] \/ maint[c] # "none" \/ offer[c] # "none" => c \in known

\* "invite" has no server and no stdin loop, and only an interrupt keeps it from
\* ending its shutdown.
InviteIsQuiet ==
  cmd = "invite" => /\ stdin = "none" /\ at \notin {"listen", "up"}
                    /\ at = "raised" => cut

\* From the first step of shutdown on every maintainer has been told to
\* cancel, and nobody starts another one.
MaintainersTold ==
  Past(Stage \ {"cancel"}) => \A c \in Contact : maint[c] # "none" => c \in gone

\* What a stage of shutdown has ended stays ended.
StagesDone ==
  /\ Past({"sessions", "conns", "del", "term"}) => stdin \in {"none", "done", "cancelled"}
  /\ Past({"conns", "del", "term"}) => ~server
  /\ at = "term" => relay # "none"
  /\ at = "returned" => ~Alive

\* The inductive invariant of NodeLife.
IInv ==
  /\ TypeOK
  /\ StartIsQuiet
  /\ SessionsKnown
  /\ InviteIsQuiet
  /\ MaintainersTold
  /\ StagesDone
  /\ OnlyLateOffersStay
  /\ RelayLeft

-----------------------------------------------------------------------------
\* At first there is nothing.
LEMMA InitIInv == Init => IInv
<1> SUFFICES ASSUME Init PROVE IInv
  OBVIOUS
<1>1. TypeOK
  <2>1. /\ maint \in [Contact -> {"none", "sleep", "closing", "dial"}]
        /\ offer \in [Contact -> {"none", "wait", "closing", "gather"}]
        /\ pc \in [Contact -> BOOLEAN]
    BY DEF Init
  <2>2. dropping \in IF stdin = "busy" THEN Contact ELSE {None}
    BY DEF Init
  <2>3. offers \in 0..MaxOffers
    BY LifeAssumption DEF Init
  <2> QED
    BY <2>1, <2>2, <2>3 DEF Init, TypeOK
<1>2. StartIsQuiet /\ SessionsKnown /\ InviteIsQuiet /\ MaintainersTold /\ StagesDone
        /\ OnlyLateOffersStay /\ RelayLeft
  BY DEF Init, StartIsQuiet, SessionsKnown, InviteIsQuiet, MaintainersTold, StagesDone,
         OnlyLateOffersStay, RelayLeft, Alive, Running, Past, Stage
<1> QED
  BY <1>1, <1>2 DEF IInv

-----------------------------------------------------------------------------
\* The steps of run up to the wait for _stop, and those of its environment: no
\* stage of shutdown is reached before it is asked for, and an invite
\* ends without shutdown only by an interrupt.
LEMMA RunKeepsIInv ==
  ASSUME IInv,
         Start \/ StartFails \/ BootFails \/ PortsOpen \/ ControlFails \/ Booted
           \/ Listen \/ ListenFails \/ Signal \/ Interrupt \/ RelayExits \/ RelayHangs
  PROVE  IInv'
<1> USE LifeAssumption DEF config, stdinVars, taskVars, Ended, Stage, Past, IInv, TypeOK,
        StartIsQuiet, SessionsKnown, InviteIsQuiet, MaintainersTold, StagesDone,
        OnlyLateOffersStay, RelayLeft, Alive, Running
<1>1. CASE Start
  BY <1>1 DEF Start
<1>2. CASE StartFails
  BY <1>2 DEF StartFails, AfterFailure
<1>3. CASE BootFails
  BY <1>3 DEF BootFails, AfterFailure
<1>4. CASE Booted
  BY <1>4 DEF Booted
<1>5. CASE Listen
  BY <1>5 DEF Listen
<1>6. CASE ListenFails
  BY <1>6 DEF ListenFails
<1>7. CASE Signal
  BY <1>7 DEF Signal, Running
<1>8. CASE Interrupt
  BY <1>8 DEF Interrupt, Running
<1>9. CASE RelayExits \/ RelayHangs
  BY <1>9 DEF RelayExits, RelayHangs
<1>10. CASE PortsOpen
  BY <1>10 DEF PortsOpen
<1>11. CASE ControlFails
  BY <1>11 DEF ControlFails, AfterFailure
<1> QED
  BY <1>1, <1>2, <1>3, <1>4, <1>5, <1>6, <1>7, <1>8, <1>9, <1>10, <1>11

-----------------------------------------------------------------------------
\* The stdin loop: it handles no line once shutdown has awaited it.
LEMMA StdinKeepsIInv ==
  ASSUME IInv,
         \/ Quit \/ SendRaises \/ Dropped
         \/ \E c \in Contact : Add(c) \/ Drop(c)
  PROVE  IInv'
<1> USE LifeAssumption DEF config, stdinVars, taskVars, Ended, Stage, Past, IInv, TypeOK,
        StartIsQuiet, SessionsKnown, InviteIsQuiet, MaintainersTold, StagesDone,
        OnlyLateOffersStay, RelayLeft, Alive, Running
<1>1. CASE Quit
  BY <1>1 DEF Quit, StdinRuns, Running
<1>2. ASSUME NEW c \in Contact, Add(c) PROVE IInv'
  BY <1>2 DEF Add, StdinRuns, Running, NextLine
<1>3. CASE SendRaises
  BY <1>3 DEF SendRaises, StdinRuns, Running
<1>4. ASSUME NEW c \in Contact, Drop(c) PROVE IInv'
  BY <1>4 DEF Drop, StdinRuns, Running, LockFree
<1>5. CASE Dropped
  BY <1>5 DEF Dropped, StdinRuns, Running, NextLine
<1> QED
  BY <1>1, <1>2, <1>3, <1>4, <1>5

-----------------------------------------------------------------------------
\* The tasks on the sessions: a maintainer that was told to cancel makes no
\* connection, and an offer handler that does is noted.
LEMMA TasksKeepIInv ==
  ASSUME IInv, NEW c \in Contact,
         \/ PcLost(c)
         \/ Dial(c) \/ DialClosed(c) \/ DialEnds(c) \/ DialCancelled(c)
         \/ OfferIn(c) \/ OfferTake(c) \/ OfferClosed(c) \/ OfferEnds(c)
  PROVE  IInv'
<1> USE LifeAssumption DEF config, stdinVars, taskVars, Ended, Stage, Past, IInv, TypeOK,
        StartIsQuiet, SessionsKnown, InviteIsQuiet, MaintainersTold, StagesDone,
        OnlyLateOffersStay, RelayLeft, Alive, Running
<1>1. CASE Dial(c)
  BY <1>1 DEF Dial, Running, LockFree, Replace
<1>2. CASE DialClosed(c)
  BY <1>2 DEF DialClosed, Running
<1>3. CASE DialEnds(c)
  BY <1>3 DEF DialEnds, Running
<1>4. CASE DialCancelled(c)
  BY <1>4 DEF DialCancelled, Running
<1>5. CASE OfferIn(c)
  BY <1>5 DEF OfferIn, Running
<1>6. CASE OfferTake(c)
  BY <1>6 DEF OfferTake, Running, LockFree, Replace, NoteLate
<1>7. CASE OfferClosed(c)
  BY <1>7 DEF OfferClosed, Running, NoteLate
<1>8. CASE OfferEnds(c)
  BY <1>8 DEF OfferEnds, Running
<1>9. CASE PcLost(c)
  BY <1>9 DEF PcLost, Running
<1> QED
  BY <1>1, <1>2, <1>3, <1>4, <1>5, <1>6, <1>7, <1>8, <1>9

-----------------------------------------------------------------------------
\* The stages of shutdown: each ends what it is there for.
LEMMA ShutdownKeepsIInv ==
  ASSUME IInv,
         \/ Cancel \/ JoinStdin \/ CloseServer \/ WaitClosed \/ DelOnion \/ RelayEnds
         \/ \E c \in Contact : CloseSession(c)
  PROVE  IInv'
<1> USE LifeAssumption DEF config, stdinVars, taskVars, Ended, Stage, Past, IInv, TypeOK,
        StartIsQuiet, SessionsKnown, InviteIsQuiet, MaintainersTold, StagesDone,
        OnlyLateOffersStay, RelayLeft, Alive, Running
<1>1. CASE Cancel
  BY <1>1 DEF Cancel
<1>2. CASE JoinStdin
  BY <1>2 DEF JoinStdin
<1>3. ASSUME NEW c \in Contact, CloseSession(c) PROVE IInv'
  BY <1>3 DEF CloseSession
<1>4. CASE CloseServer
  BY <1>4 DEF CloseServer
<1>5. CASE WaitClosed
  BY <1>5 DEF WaitClosed, EndRelay
<1>6. CASE RelayEnds
  BY <1>6 DEF RelayEnds
<1>7. CASE DelOnion
  BY <1>7 DEF DelOnion, EndRelay
<1> QED
  BY <1>1, <1>2, <1>3, <1>4, <1>5, <1>6, <1>7

-----------------------------------------------------------------------------
\* Every step keeps the invariant ...
LEMMA IInvInductive == IInv /\ [Next]_vars => IInv'
<1> SUFFICES ASSUME IInv, [Next]_vars PROVE IInv'
  OBVIOUS
<1>1. CASE Main
  BY <1>1, RunKeepsIInv, ShutdownKeepsIInv DEF Main
<1>2. CASE Signal \/ Interrupt \/ RelayExits \/ RelayHangs
  BY <1>2, RunKeepsIInv
<1>3. CASE Quit \/ SendRaises \/ Dropped \/ \E c \in Contact : Add(c) \/ Drop(c)
  BY <1>3, StdinKeepsIInv
<1>4. ASSUME NEW c \in Contact,
             \/ PcLost(c) \/ Dial(c) \/ DialClosed(c) \/ DialEnds(c) \/ DialCancelled(c)
             \/ OfferIn(c) \/ Handlers(c)
      PROVE  IInv'
  BY <1>4, TasksKeepIInv DEF Handlers
<1>5. CASE UNCHANGED vars
  BY <1>5 DEF vars, config, stdinVars, taskVars, IInv, TypeOK, StartIsQuiet,
     SessionsKnown, InviteIsQuiet, MaintainersTold, StagesDone, OnlyLateOffersStay, Past,
     RelayLeft, Alive, Running
<1> QED
  BY <1>1, <1>2, <1>3, <1>4, <1>5 DEF Next

\* ... and so it always holds.
LEMMA IInvHolds == Spec => []IInv
BY InitIInv, IInvInductive, PTL DEF Spec

-----------------------------------------------------------------------------
\* The types of the variables.
THEOREM TypeCorrect == Spec => []TypeOK
<1>1. IInv => TypeOK
  BY DEF IInv
<1> QED
  BY <1>1, IInvHolds, PTL

\* A node that has ended leaves its relay running only after an interrupt, or
\* as a run that ended with the exception of its start or of its stdin loop.
THEOREM RelayIsLeft == Spec => []RelayLeft
<1>1. IInv => RelayLeft
  BY DEF IInv
<1> QED
  BY <1>1, IInvHolds, PTL

\* Once shutdown is under way no maintainer is left that was not cancelled,
\* whatever /add started in the meantime.
THEOREM AllMaintainersTold == Spec => []MaintainersTold
<1>1. IInv => MaintainersTold
  BY DEF IInv
<1> QED
  BY <1>1, IInvHolds, PTL

\* A session that shutdown has passed has a connection only if an offer for it
\* was taken up during shutdown.
THEOREM OnlyLateOffers == Spec => []OnlyLateOffersStay
<1>1. IInv => OnlyLateOffersStay
  BY DEF IInv
<1> QED
  BY <1>1, IInvHolds, PTL

\* self.sessions is not changed while shutdown iterates over it: the only
\* task that adds to it has been awaited.
THEOREM IterationIsSafe == Spec => IteratesUnchanged
<1>1. ASSUME IInv, [Next]_vars PROVE at = "sessions" => known' = known
  <2> SUFFICES ASSUME at = "sessions" PROVE known' = known
    OBVIOUS
  <2>1. stdin \notin {"read", "busy"}
    BY <1>1 DEF IInv, StagesDone, Past
  <2> USE DEF config, stdinVars, taskVars
  <2>2. CASE Main \/ Signal \/ Interrupt \/ RelayExits \/ RelayHangs
    BY <2>2 DEF Main, Start, StartFails, BootFails, PortsOpen, ControlFails, Booted, Listen,
       ListenFails, Cancel, JoinStdin, CloseServer, WaitClosed, DelOnion, RelayEnds,
       CloseSession, Signal, Interrupt, RelayExits, RelayHangs
  <2>3. ~(Quit \/ SendRaises \/ Dropped) /\ \A c \in Contact : ~Add(c) /\ ~Drop(c)
    BY <2>1 DEF Quit, SendRaises, Dropped, Add, Drop
  <2>4. ASSUME NEW c \in Contact,
               \/ PcLost(c) \/ Dial(c) \/ DialClosed(c) \/ DialEnds(c) \/ DialCancelled(c)
               \/ OfferIn(c) \/ Handlers(c)
        PROVE  known' = known
    BY <2>4 DEF PcLost, Dial, DialClosed, DialEnds, DialCancelled, OfferIn, Handlers,
       OfferTake, OfferClosed, OfferEnds
  <2>5. CASE UNCHANGED vars
    BY <2>5 DEF vars
  <2> QED
    BY <1>1, <2>2, <2>3, <2>4, <2>5 DEF Next
<1> QED
  BY <1>1, IInvHolds, PTL DEF Spec, IteratesUnchanged

-----------------------------------------------------------------------------
(***************************************************************************)
(* The replay windows, for every set of peers and nonces and every         *)
(* max_seen, zero included: both windows are the last max_seen accepted    *)
(* nonces, so they agree, let no nonce in twice within max_seen            *)
(* acceptances, and implement NonceWindow.                                 *)
(***************************************************************************)
-----------------------------------------------------------------------------
(* The inductive invariant.                                                *)

\* s is the end of the sequence t that a window of MaxSeen nonces keeps.
IsWindowOf(s, t) ==
  /\ Len(s) = IF Len(t) < MaxSeen THEN Len(t) ELSE MaxSeen
  /\ \A i \in 1..Len(s) : s[i] = t[i + (Len(t) - Len(s))]

\* No nonce is in s twice.
Distinct(s) == \A i, j \in 1..Len(s) : s[i] = s[j] => i = j

\* The list of p4.py is the window of what was accepted, without repetition.
ListIsWindow ==
  \A p \in Peer : IsWindowOf(seq[p], accepted[p]) /\ Distinct(seq[p])

\* The Rust window holds the same as that of p4.py.
SameContents == queue = seq /\ seenSet = members

\* The inductive invariant.
WInv ==
  /\ WindowTypeOK
  /\ SetIsQueue
  /\ SameVerdict
  /\ Spaced
  /\ ListIsWindow
  /\ SameContents

-----------------------------------------------------------------------------
(* Facts about sequences.                                                  *)

\* The elements of a sequence.
Elems(s) == {s[i] : i \in 1..Len(s)}

\* Appending adds one element.
LEMMA AppendElems ==
  ASSUME NEW s \in Seq(Nonce), NEW n \in Nonce
  PROVE  Elems(Append(s, n)) = Elems(s) \cup {n}
<1> DEFINE t == Append(s, n)
<1>1. Len(t) = Len(s) + 1 /\ t[Len(s) + 1] = n /\ \A i \in 1..Len(s) : t[i] = s[i]
  OBVIOUS
<1>2. Len(s) \in Nat
  OBVIOUS
<1> HIDE DEF t
<1>3. Elems(t) = Elems(s) \cup {n}
  BY <1>1, <1>2 DEF Elems
<1> QED
  BY <1>3 DEF t

\* Dropping the head of a sequence without repetition removes one element.
LEMMA TailElems ==
  ASSUME NEW s \in Seq(Nonce), s # <<>>, Distinct(s)
  PROVE  Elems(Tail(s)) = Elems(s) \ {Head(s)}
<1> DEFINE t == Tail(s)
<1>1. Len(t) = Len(s) - 1 /\ \A i \in 1..Len(t) : t[i] = s[i + 1]
  OBVIOUS
<1>2. Head(s) = s[1] /\ Len(s) \in Nat /\ Len(s) >= 1
  OBVIOUS
<1> HIDE DEF t
<1>3. \A i \in 2..Len(s) : i - 1 \in 1..Len(t) /\ s[i] = t[i - 1]
  BY <1>1, <1>2
<1>4. \A x \in Elems(t) : x \in Elems(s) /\ x # s[1]
  BY <1>1, <1>2 DEF Elems, Distinct
<1>5. \A x \in Elems(s) : x # s[1] => x \in Elems(t)
  BY <1>1, <1>2, <1>3 DEF Elems
<1>6. Elems(t) = Elems(s) \ {s[1]}
  BY <1>4, <1>5
<1> QED
  BY <1>2, <1>6 DEF t

\* A new nonce keeps a list without repetition so.
LEMMA AppendDistinct ==
  ASSUME NEW s \in Seq(Nonce), NEW n \in Nonce, Distinct(s), n \notin Elems(s)
  PROVE  Distinct(Append(s, n))
<1> DEFINE t == Append(s, n)
<1>1. Len(t) = Len(s) + 1 /\ t[Len(s) + 1] = n /\ \A i \in 1..Len(s) : t[i] = s[i]
  OBVIOUS
<1>2. Len(s) \in Nat /\ \A i \in 1..Len(s) : s[i] # n
  BY DEF Elems
<1> HIDE DEF t
<1>3. Distinct(t)
  BY <1>1, <1>2 DEF Distinct
<1> QED
  BY <1>3 DEF t

-----------------------------------------------------------------------------
(* What a window becomes when a nonce that is not in it is accepted.       *)

\* The list after the append and the drop.
Slide(s, n) ==
  IF Len(s) + 1 > MaxSeen THEN Tail(Append(s, n)) ELSE Append(s, n)

\* The length and the entries of the new list.
LEMMA SlideEntries ==
  ASSUME NEW s \in Seq(Nonce), NEW n \in Nonce, Len(s) <= MaxSeen
  PROVE  /\ Slide(s, n) \in Seq(Nonce)
         /\ Len(s) < MaxSeen => /\ Len(Slide(s, n)) = Len(s) + 1
                                /\ Slide(s, n)[Len(s) + 1] = n
                                /\ \A i \in 1..Len(s) : Slide(s, n)[i] = s[i]
         /\ Len(s) = MaxSeen => /\ Len(Slide(s, n)) = Len(s)
                                /\ Len(s) > 0 => Slide(s, n)[Len(s)] = n
                                /\ \A i \in 1..(Len(s) - 1) : Slide(s, n)[i] = s[i + 1]
<1>1. CASE Len(s) < MaxSeen
  BY <1>1, WindowAssumption DEF Slide
<1>2. CASE Len(s) = MaxSeen
  <2> DEFINE t == Append(s, n)
  <2>1. /\ t \in Seq(Nonce) /\ Len(t) = Len(s) + 1 /\ t # <<>>
        /\ t[Len(s) + 1] = n /\ \A i \in 1..Len(s) : t[i] = s[i]
    OBVIOUS
  <2>2. Slide(s, n) = Tail(t) /\ Len(s) \in Nat
    BY <1>2 DEF Slide
  <2> HIDE DEF t
  <2>3. /\ Tail(t) \in Seq(Nonce) /\ Len(Tail(t)) = Len(t) - 1
        /\ \A i \in 1..(Len(t) - 1) : Tail(t)[i] = t[i + 1]
    BY <2>1
  <2> QED
    BY <1>2, <2>1, <2>2, <2>3
<1> QED
  BY <1>1, <1>2, WindowAssumption

\* The new list is the window of the longer history.
LEMMA SlideWindow ==
  ASSUME NEW s \in Seq(Nonce), NEW t \in Seq(Nonce), NEW n \in Nonce,
         IsWindowOf(s, t)
  PROVE  IsWindowOf(Slide(s, n), Append(t, n))
<1> DEFINE u == Append(t, n)
           v == Slide(s, n)
<1>1. /\ Len(u) = Len(t) + 1 /\ Len(t) \in Nat /\ Len(s) \in Nat
      /\ u[Len(t) + 1] = n /\ \A i \in 1..Len(t) : u[i] = t[i]
  OBVIOUS
<1>2. /\ Len(s) = IF Len(t) < MaxSeen THEN Len(t) ELSE MaxSeen
      /\ \A i \in 1..Len(s) : s[i] = t[i + (Len(t) - Len(s))]
  BY DEF IsWindowOf
<1>3. Len(s) <= MaxSeen
  BY <1>1, <1>2, WindowAssumption
<1>4. /\ Len(s) < MaxSeen => /\ Len(v) = Len(s) + 1 /\ v[Len(s) + 1] = n
                             /\ \A i \in 1..Len(s) : v[i] = s[i]
      /\ Len(s) = MaxSeen => /\ Len(v) = Len(s)
                             /\ Len(s) > 0 => v[Len(s)] = n
                             /\ \A i \in 1..(Len(s) - 1) : v[i] = s[i + 1]
  BY <1>3, SlideEntries
<1> SUFFICES IsWindowOf(v, u)
  OBVIOUS
<1> HIDE DEF u, v
<1>5. CASE Len(s) < MaxSeen
  <2>1. Len(s) = Len(t) /\ Len(v) = Len(u) /\ Len(v) <= MaxSeen
    BY <1>1, <1>2, <1>4, <1>5, WindowAssumption
  <2>2. \A i \in 1..Len(v) : v[i] = u[i]
    BY <1>1, <1>2, <1>4, <1>5, <2>1
  <2>3. \A i \in 1..Len(v) : i + (Len(u) - Len(v)) = i
    BY <1>1, <2>1
  <2>4. Len(v) = IF Len(u) < MaxSeen THEN Len(u) ELSE MaxSeen
    BY <1>1, <2>1, WindowAssumption
  <2> QED
    BY <2>2, <2>3, <2>4 DEF IsWindowOf
<1>6. CASE Len(s) = MaxSeen
  <2>0. Len(s) <= Len(t)
    BY <1>1, <1>2, WindowAssumption
  <2>1. Len(v) = IF Len(u) < MaxSeen THEN Len(u) ELSE MaxSeen
    BY <1>1, <1>2, <1>4, <1>6, WindowAssumption
  <2>2. ASSUME NEW i \in 1..Len(v) PROVE v[i] = u[i + (Len(u) - Len(v))]
    <3>1. CASE i = Len(s)
      <4>1. Len(v) = Len(s) /\ Len(s) > 0 /\ v[i] = n
        BY <1>1, <1>4, <1>6, <3>1
      <4>2. i + (Len(u) - Len(v)) = Len(t) + 1
        BY <1>1, <3>1, <4>1
      <4> QED
        BY <1>1, <4>1, <4>2
    <3>2. CASE i < Len(s)
      <4>1. i \in 1..(Len(s) - 1) /\ i + 1 \in 1..Len(s) /\ Len(v) = Len(s)
        BY <1>1, <1>4, <1>6, <3>2
      <4>2. v[i] = t[(i + 1) + (Len(t) - Len(s))]
        BY <1>2, <1>4, <1>6, <4>1
      <4>3. /\ (i + 1) + (Len(t) - Len(s)) = i + (Len(u) - Len(v))
            /\ (i + 1) + (Len(t) - Len(s)) \in 1..Len(t)
        BY <1>1, <2>0, <3>2, <4>1
      <4> QED
        BY <1>1, <4>2, <4>3
    <3> QED
      BY <1>1, <1>4, <1>6, <3>1, <3>2
  <2> QED
    BY <2>1, <2>2 DEF IsWindowOf
<1> QED
  BY <1>1, <1>3, <1>5, <1>6, WindowAssumption

\* The new list has no repetition either.
LEMMA SlideDistinct ==
  ASSUME NEW s \in Seq(Nonce), NEW n \in Nonce, Distinct(s), n \notin Elems(s)
  PROVE  Distinct(Slide(s, n))
<1> DEFINE t == Append(s, n)
<1>1. t \in Seq(Nonce) /\ t # <<>> /\ Distinct(t)
  BY AppendDistinct
<1> HIDE DEF t
<1>2. Len(Tail(t)) = Len(t) - 1 /\ \A i \in 1..Len(Tail(t)) : Tail(t)[i] = t[i + 1]
  BY <1>1
<1>3. Len(t) \in Nat
  BY <1>1
<1>4. Distinct(Tail(t))
  BY <1>1, <1>2, <1>3 DEF Distinct
<1> QED
  BY <1>1, <1>4 DEF Slide, t

-----------------------------------------------------------------------------
(* The two cases of a call.                                                *)

\* The nonce is in the windows: both refuse it and keep what they hold.
LEMMA RefuseStep ==
  ASSUME NEW p \in Peer, NEW n \in Nonce, WInv, Call(p, n), n \in members[p]
  PROVE  /\ WInv'
         /\ UNCHANGED <<seq, members, queue, seenSet, accepted>>
         /\ pySeen' = TRUE /\ rustSeen' = TRUE
<1>1. /\ UNCHANGED <<seq, members, queue, seenSet, accepted>>
      /\ pySeen' = TRUE /\ rustSeen' = TRUE /\ asked' = <<p, n>>
  BY DEF WInv, SameContents, Call, Seen, SeenBefore
<1>2. WindowTypeOK'
  BY <1>1 DEF WInv, WindowTypeOK
<1>3. SetIsQueue' /\ SameVerdict' /\ Spaced'
  BY <1>1 DEF WInv, SetIsQueue, SameVerdict, Spaced
<1>4. ListIsWindow' /\ SameContents'
  BY <1>1 DEF WInv, ListIsWindow, IsWindowOf, Distinct, SameContents
<1> QED
  BY <1>1, <1>2, <1>3, <1>4 DEF WInv

\* The nonce is in neither: what both windows become.
LEMMA AcceptEffect ==
  ASSUME NEW p \in Peer, NEW n \in Nonce, WInv, Call(p, n), n \notin members[p]
  PROVE  /\ seq' = [seq EXCEPT ![p] = Slide(seq[p], n)]
         /\ members' = [members EXCEPT ![p] = Elems(Slide(seq[p], n))]
         /\ queue' = seq'
         /\ seenSet' = members'
         /\ accepted' = [accepted EXCEPT ![p] = Append(accepted[p], n)]
         /\ asked' = <<p, n>> /\ pySeen' = FALSE /\ rustSeen' = FALSE
<1> DEFINE s == seq[p]
           t == Append(s, n)
<1>1. /\ s \in Seq(Nonce) /\ Len(s) <= MaxSeen /\ Distinct(s)
      /\ members[p] = Elems(s) /\ queue = seq /\ seenSet = members
  BY DEF WInv, WindowTypeOK, SetIsQueue, ListIsWindow, SameContents, Elems
<1>2. /\ t \in Seq(Nonce) /\ t # <<>> /\ Len(t) = Len(s) + 1 /\ Len(s) \in Nat
      /\ Distinct(t) /\ Elems(t) = Elems(s) \cup {n}
  BY <1>1, AppendDistinct, AppendElems
<1>3. /\ Remember(p, n) /\ asked' = <<p, n>> /\ pySeen' = FALSE /\ rustSeen' = FALSE
      /\ accepted' = [accepted EXCEPT ![p] = Append(accepted[p], n)]
      /\ queue' = [queue EXCEPT ![p] = SubSeq(t, Excess(t) + 1, Len(t))]
      /\ seenSet' = [seenSet EXCEPT ![p] =
                       (members[p] \cup {n}) \ {t[i] : i \in 1..Excess(t)}]
  <2>1. n \notin seenSet[p] /\ queue[p] = s /\ seenSet[p] = members[p]
    BY <1>1
  <2>2. Seen(p, n) /\ SeenBefore(p, n) /\ asked' = <<p, n>>
    BY DEF Call
  <2>3. /\ Remember(p, n) /\ pySeen' = FALSE
        /\ accepted' = [accepted EXCEPT ![p] = Append(accepted[p], n)]
    BY <2>2 DEF Seen
  <2>4. /\ rustSeen' = FALSE
        /\ queue' = [queue EXCEPT ![p] = SubSeq(t, Excess(t) + 1, Len(t))]
        /\ seenSet' = [seenSet EXCEPT ![p] =
                         (members[p] \cup {n}) \ {t[i] : i \in 1..Excess(t)}]
    <3> DEFINE q == Append(queue[p], n)
    <3>1. /\ rustSeen' = FALSE
          /\ queue' = [queue EXCEPT ![p] = SubSeq(q, Excess(q) + 1, Len(q))]
          /\ seenSet' = [seenSet EXCEPT ![p] =
                           (seenSet[p] \cup {n}) \ {q[i] : i \in 1..Excess(q)}]
      BY <2>1, <2>2 DEF SeenBefore
    <3>2. q = t
      BY <2>1
    <3> HIDE DEF q, t
    <3> QED
      BY <2>1, <3>1, <3>2
  <2> QED
    BY <2>2, <2>3, <2>4
<1> HIDE DEF t
<1>4. CASE Len(t) > MaxSeen
  <2>1. Len(t) = MaxSeen + 1 /\ Excess(t) = 1
    BY <1>1, <1>2, <1>4, WindowAssumption DEF Excess
  <2>2. Slide(s, n) = Tail(t)
    BY <1>2, <1>4 DEF Slide, t
  <2>3. Elems(Tail(t)) = (Elems(s) \cup {n}) \ {Head(t)}
    BY <1>2, TailElems
  <2>4. SubSeq(t, Excess(t) + 1, Len(t)) = Tail(t)
    BY <1>2, <2>1
  <2>5. {t[i] : i \in 1..Excess(t)} = {Head(t)}
    BY <1>2, <2>1
  <2>6. /\ seq' = [seq EXCEPT ![p] = Tail(t)]
        /\ members' = [members EXCEPT ![p] = (members[p] \cup {n}) \ {Head(t)}]
    BY <1>3, <1>4 DEF Remember, t
  <2> QED
    BY <1>1, <1>3, <2>2, <2>3, <2>4, <2>5, <2>6
<1>5. CASE ~(Len(t) > MaxSeen)
  <2>1. Excess(t) = 0 /\ SubSeq(t, Excess(t) + 1, Len(t)) = t
    BY <1>2, <1>5 DEF Excess
  <2>2. {t[i] : i \in 1..Excess(t)} = {}
    BY <2>1
  <2>3. Slide(s, n) = t
    BY <1>2, <1>5 DEF Slide, t
  <2>4. /\ seq' = [seq EXCEPT ![p] = t]
        /\ members' = [members EXCEPT ![p] = members[p] \cup {n}]
    BY <1>3, <1>5 DEF Remember, t
  <2> QED
    BY <1>1, <1>2, <1>3, <2>1, <2>2, <2>3, <2>4
<1> QED
  BY <1>4, <1>5

\* A nonce outside the window was not accepted within the last MaxSeen.
LEMMA OutsideWindow ==
  ASSUME NEW s \in Seq(Nonce), NEW t \in Seq(Nonce), NEW n \in Nonce,
         IsWindowOf(s, t), n \notin Elems(s)
  PROVE  \A i \in 1..Len(t) : t[i] = n => i + MaxSeen <= Len(t)
<1> SUFFICES ASSUME NEW i \in 1..Len(t), t[i] = n, ~(i + MaxSeen <= Len(t))
             PROVE  FALSE
  OBVIOUS
<1> DEFINE k == i - (Len(t) - Len(s))
<1>1. Len(t) \in Nat /\ Len(s) \in Nat
  OBVIOUS
<1>2. k \in 1..Len(s) /\ k + (Len(t) - Len(s)) = i
  BY <1>1, WindowAssumption DEF IsWindowOf
<1>3. s[k] = t[i]
  BY <1>2 DEF IsWindowOf
<1> QED
  BY <1>2, <1>3 DEF Elems

\* Conversely, what is in the window was.
LEMMA InsideWindow ==
  ASSUME NEW s \in Seq(Nonce), NEW t \in Seq(Nonce), NEW n \in Elems(s),
         IsWindowOf(s, t)
  PROVE  \E i \in 1..Len(t) : t[i] = n /\ i + MaxSeen > Len(t)
<1>1. PICK k \in 1..Len(s) : s[k] = n
  BY DEF Elems
<1>2. Len(t) \in Nat /\ Len(s) \in Nat
  OBVIOUS
<1> DEFINE i == k + (Len(t) - Len(s))
<1>3. i \in 1..Len(t) /\ i + MaxSeen > Len(t)
  <2>1. Len(s) = IF Len(t) < MaxSeen THEN Len(t) ELSE MaxSeen
    BY DEF IsWindowOf
  <2>2. CASE Len(t) < MaxSeen
    BY <1>2, <2>1, <2>2, WindowAssumption
  <2>3. CASE ~(Len(t) < MaxSeen)
    BY <1>2, <2>1, <2>3, WindowAssumption
  <2> QED
    BY <2>2, <2>3
<1>4. t[i] = n
  BY <1>1 DEF IsWindowOf
<1> QED
  BY <1>3, <1>4

\* Accepting a nonce preserves the invariant.
LEMMA AcceptStep ==
  ASSUME NEW p \in Peer, NEW n \in Nonce, WInv, Call(p, n), n \notin members[p]
  PROVE  WInv'
<1> DEFINE v == Slide(seq[p], n)
           u == Append(accepted[p], n)
<1>1. /\ seq' = [seq EXCEPT ![p] = v]
      /\ members' = [members EXCEPT ![p] = Elems(v)]
      /\ queue' = seq' /\ seenSet' = members'
      /\ accepted' = [accepted EXCEPT ![p] = u]
      /\ asked' = <<p, n>> /\ pySeen' = FALSE /\ rustSeen' = FALSE
  BY AcceptEffect
<1>2. /\ seq \in [Peer -> Seq(Nonce)] /\ members \in [Peer -> SUBSET Nonce]
      /\ accepted \in [Peer -> Seq(Nonce)] /\ seq[p] \in Seq(Nonce)
      /\ accepted[p] \in Seq(Nonce) /\ Len(seq[p]) <= MaxSeen
      /\ members[p] = Elems(seq[p])
      /\ IsWindowOf(seq[p], accepted[p]) /\ Distinct(seq[p])
  BY DEF WInv, WindowTypeOK, SetIsQueue, ListIsWindow, Elems
<1>3. v \in Seq(Nonce) /\ Len(v) <= MaxSeen
  BY <1>2, SlideEntries, WindowAssumption
<1>4. IsWindowOf(v, u) /\ Distinct(v)
  BY <1>2, SlideWindow, SlideDistinct
<1>5. /\ u \in Seq(Nonce) /\ Len(u) = Len(accepted[p]) + 1 /\ Len(accepted[p]) \in Nat
      /\ u[Len(accepted[p]) + 1] = n
      /\ \A i \in 1..Len(accepted[p]) : u[i] = accepted[p][i]
  BY <1>2
<1>6. \A i \in 1..Len(accepted[p]) :
        accepted[p][i] = n => i + MaxSeen <= Len(accepted[p])
  BY <1>2, OutsideWindow
<1> HIDE DEF u, v
<1>7. WindowTypeOK'
  <2>1. Elems(v) \in SUBSET Nonce
    BY <1>3 DEF Elems
  <2>2. /\ seq' \in [Peer -> Seq(Nonce)] /\ members' \in [Peer -> SUBSET Nonce]
        /\ accepted' \in [Peer -> Seq(Nonce)]
    BY <1>1, <1>2, <1>3, <1>5, <2>1
  <2>3. \A q \in Peer : Len(seq'[q]) <= MaxSeen
    BY <1>1, <1>2, <1>3 DEF WInv, WindowTypeOK
  <2>4. asked' \in {<<>>} \cup (Peer \X Nonce)
    BY <1>1
  <2>5. pySeen' \in BOOLEAN /\ rustSeen' \in BOOLEAN
    BY <1>1
  <2> QED
    BY <1>1, <2>2, <2>3, <2>4, <2>5 DEF WindowTypeOK
<1>8. SetIsQueue'
  <2>1. \A q \in Peer : members'[q] = Elems(seq'[q])
    BY <1>1, <1>2 DEF WInv, SetIsQueue, Elems
  <2> QED
    BY <1>1, <2>1 DEF SetIsQueue, Elems
<1>9. SameVerdict' /\ SameContents'
  BY <1>1 DEF SameVerdict, SameContents
<1>10. Spaced'
  <2> SUFFICES ASSUME NEW q \in Peer, NEW i \in 1..Len(accepted'[q]),
                      NEW j \in 1..Len(accepted'[q]),
                      i < j, accepted'[q][i] = accepted'[q][j]
               PROVE  j - i > MaxSeen
    BY DEF Spaced
  <2>1. CASE q # p
    <3>1. accepted'[q] = accepted[q]
      BY <1>1, <1>2, <2>1
    <3> QED
      BY <3>1 DEF WInv, Spaced
  <2>2. CASE q = p /\ j <= Len(accepted[p])
    <3>1. accepted'[p] = u
      BY <1>1, <1>2
    <3>2. i \in 1..Len(accepted[p]) /\ j \in 1..Len(accepted[p])
      BY <1>5, <2>2, <3>1
    <3>3. accepted[p][i] = accepted[p][j]
      BY <1>5, <2>2, <3>1, <3>2
    <3> QED
      BY <3>2, <3>3 DEF WInv, Spaced
  <2>3. CASE q = p /\ j = Len(accepted[p]) + 1
    <3>1. accepted'[p] = u
      BY <1>1, <1>2
    <3>2. i \in 1..Len(accepted[p])
      BY <1>5, <2>3, <3>1
    <3>3. accepted[p][i] = n
      BY <1>5, <2>3, <3>1, <3>2
    <3> QED
      BY <1>5, <1>6, <2>3, <3>2, <3>3, WindowAssumption
  <2>4. q = p => j <= Len(accepted[p]) + 1
    BY <1>1, <1>2, <1>5
  <2> QED
    BY <1>5, <2>1, <2>2, <2>3, <2>4
<1>11. ListIsWindow'
  <2>1. \A q \in Peer : IsWindowOf(seq'[q], accepted'[q]) /\ Distinct(seq'[q])
    BY <1>1, <1>2, <1>4 DEF WInv, ListIsWindow
  <2> QED
    BY <2>1 DEF ListIsWindow, IsWindowOf, Distinct
<1> QED
  BY <1>7, <1>8, <1>9, <1>10, <1>11 DEF WInv

-----------------------------------------------------------------------------
(* The invariant and what follows from it.                                 *)

\* Empty windows.
LEMMA InitWInv == WindowInit => WInv
<1> SUFFICES ASSUME WindowInit PROVE WInv
  OBVIOUS
<1> USE DEF WindowInit
<1>1. pySeen \in BOOLEAN /\ rustSeen \in BOOLEAN /\ asked \in {<<>>} \cup (Peer \X Nonce)
  OBVIOUS
<1>2. WindowTypeOK
  BY <1>1, WindowAssumption DEF WindowTypeOK
<1>3. SetIsQueue /\ SameVerdict /\ SameContents
  <2>1. \A p \in Peer : Len(seq[p]) = 0 /\ Len(queue[p]) = 0
    OBVIOUS
  <2>2. \A p \in Peer : members[p] = {} /\ seenSet[p] = {}
    OBVIOUS
  <2>3. SetIsQueue
    <3>1. SUFFICES ASSUME NEW p \in Peer
                   PROVE  /\ members[p] = {seq[p][i] : i \in 1..Len(seq[p])}
                          /\ seenSet[p] = {queue[p][i] : i \in 1..Len(queue[p])}
      BY DEF SetIsQueue
    <3>2. 1..Len(seq[p]) = {} /\ 1..Len(queue[p]) = {}
      BY <2>1
    <3>3. members[p] = {} /\ seenSet[p] = {}
      BY <2>2
    <3> HIDE DEF WindowInit
    <3> QED
      BY <3>2, <3>3, Zenon
  <2>4. SameVerdict
    BY Zenon DEF SameVerdict
  <2>5. SameContents
    BY Zenon DEF SameContents
  <2> QED
    BY <2>3, <2>4, <2>5
<1>4. Spaced /\ ListIsWindow
  BY WindowAssumption DEF Spaced, ListIsWindow, IsWindowOf, Distinct
<1> QED
  BY <1>2, <1>3, <1>4 DEF WInv

\* Every call preserves the invariant.
LEMMA NextWInv == WInv /\ [WindowNext]_windowVars => WInv'
<1> SUFFICES ASSUME WInv, [WindowNext]_windowVars PROVE WInv'
  OBVIOUS
<1>1. ASSUME NEW p \in Peer, NEW n \in Nonce, Call(p, n) PROVE WInv'
  BY <1>1, RefuseStep, AcceptStep
<1>2. CASE UNCHANGED windowVars
  BY <1>2 DEF windowVars, pyVars, rustVars, WInv, WindowTypeOK, SetIsQueue, SameVerdict,
              Spaced, ListIsWindow, IsWindowOf, Distinct, SameContents
<1> QED
  BY <1>1, <1>2 DEF WindowNext

\* The strengthened invariant holds after any sequence of calls.
THEOREM WindowInvariant == WindowSpec => []WInv
  BY InitWInv, NextWInv, PTL DEF WindowSpec

\* Both windows keep at most max_seen nonces of a peer.
THEOREM WindowTypes == WindowSpec => []WindowTypeOK
<1>1. WInv => WindowTypeOK
  BY DEF WInv
<1> QED
  BY <1>1, WindowInvariant, PTL

\* The lookup set of each window is the set of its queue's nonces.
THEOREM WindowSetIsQueue == WindowSpec => []SetIsQueue
<1>1. WInv => SetIsQueue
  BY DEF WInv
<1> QED
  BY <1>1, WindowInvariant, PTL

\* p4.py and the Rust core give the same verdict on every sequence of calls.
THEOREM WindowSameVerdict == WindowSpec => []SameVerdict
<1>1. WInv => SameVerdict
  BY DEF WInv
<1> QED
  BY <1>1, WindowInvariant, PTL

\* A nonce is never let in twice within max_seen acceptances from a peer.
THEOREM WindowSpaced == WindowSpec => []Spaced
<1>1. WInv => Spaced
  BY DEF WInv
<1> QED
  BY <1>1, WindowInvariant, PTL

-----------------------------------------------------------------------------
(* Refinement of NonceWindow.                                              *)

\* The lookup set of p4.py is the set of recent nonces.
LEMMA MembersAreRecent ==
  ASSUME NEW p \in Peer, WInv
  PROVE  PyWindow!Recent(accepted[p]) = members[p]
<1> DEFINE s == seq[p]
           t == accepted[p]
<1>1. /\ s \in Seq(Nonce) /\ t \in Seq(Nonce) /\ IsWindowOf(s, t)
      /\ members[p] = Elems(s)
  BY DEF WInv, WindowTypeOK, ListIsWindow, SetIsQueue, Elems
<1>2. Len(t) \in Nat /\ \A i \in 1..Len(t) : t[i] \in Nonce
  BY <1>1
<1> HIDE DEF s, t
<1>3. ASSUME NEW n \in PyWindow!Recent(t) PROVE n \in Elems(s)
  <2>1. PICK i \in 1..Len(t) : i + MaxSeen > Len(t) /\ n = t[i]
    BY <1>3 DEF PyWindow!Recent
  <2>2. n \in Nonce /\ ~(i + MaxSeen <= Len(t))
    BY <1>2, <2>1, WindowAssumption
  <2> QED
    BY <1>1, <2>1, <2>2, OutsideWindow
<1>4. ASSUME NEW n \in Elems(s) PROVE n \in PyWindow!Recent(t)
  BY <1>1, InsideWindow DEF PyWindow!Recent
<1> QED
  BY <1>1, <1>3, <1>4 DEF s, t

\* p4.py's window refuses exactly the last max_seen accepted nonces.
THEOREM PyRefines == WindowSpec => PyImplements
<1>1. WindowInit => PyWindow!Init
  BY DEF WindowInit, PyWindow!Init
<1>2. WInv /\ [WindowNext]_windowVars => [PyWindow!Next]_<<accepted, asked, pySeen>>
  <2> SUFFICES ASSUME WInv, [WindowNext]_windowVars
               PROVE  [PyWindow!Next]_<<accepted, asked, pySeen>>
    OBVIOUS
  <2>1. ASSUME NEW p \in Peer, NEW n \in Nonce, Call(p, n), n \in members[p]
        PROVE  PyWindow!Refuse(p, n)
    BY <2>1, RefuseStep, MembersAreRecent DEF PyWindow!Refuse, Call
  <2>2. ASSUME NEW p \in Peer, NEW n \in Nonce, Call(p, n), n \notin members[p]
        PROVE  PyWindow!Accept(p, n)
    BY <2>2, AcceptEffect, MembersAreRecent DEF PyWindow!Accept
  <2>3. CASE UNCHANGED windowVars
    BY <2>3 DEF windowVars, pyVars, rustVars
  <2> QED
    BY <2>1, <2>2, <2>3 DEF WindowNext, PyWindow!Next
<1> QED
  BY <1>1, <1>2, WindowInvariant, PTL DEF WindowSpec, PyImplements, PyWindow!Spec

\* So does the Rust core's.
THEOREM RustRefines == WindowSpec => RustImplements
<1>1. WindowInit => RustWindow!Init
  BY DEF WindowInit, RustWindow!Init
<1>2. WInv /\ [WindowNext]_windowVars => [RustWindow!Next]_<<accepted, asked, rustSeen>>
  <2> SUFFICES ASSUME WInv, [WindowNext]_windowVars
               PROVE  [RustWindow!Next]_<<accepted, asked, rustSeen>>
    OBVIOUS
  <2>1. \A p \in Peer : RustWindow!Recent(accepted[p]) = members[p]
    BY MembersAreRecent DEF RustWindow!Recent, PyWindow!Recent
  <2>2. ASSUME NEW p \in Peer, NEW n \in Nonce, Call(p, n), n \in members[p]
        PROVE  RustWindow!Refuse(p, n)
    BY <2>1, <2>2, RefuseStep DEF RustWindow!Refuse, Call
  <2>3. ASSUME NEW p \in Peer, NEW n \in Nonce, Call(p, n), n \notin members[p]
        PROVE  RustWindow!Accept(p, n)
    BY <2>1, <2>3, AcceptEffect DEF RustWindow!Accept
  <2>4. CASE UNCHANGED windowVars
    BY <2>4 DEF windowVars, pyVars, rustVars
  <2> QED
    BY <2>2, <2>3, <2>4 DEF WindowNext, RustWindow!Next
<1> QED
  BY <1>1, <1>2, WindowInvariant, PTL DEF WindowSpec, RustImplements, RustWindow!Spec
=============================================================================
