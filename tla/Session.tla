------------------------------ MODULE Session ------------------------------
(***************************************************************************)
(* The session that two p4 nodes keep for each other (p4.py, class P4Node, *)
(* dataclass Session): the initiator's maintenance loop, the signalling    *)
(* request that carries an offer and brings an answer back, the            *)
(* responder's offer handler, the /drop command, and the callbacks that    *)
(* aiortc delivers for peer connections and data channels.                 *)
(*                                                                         *)
(* One pair of nodes is modelled: sessions of different pairs share no     *)
(* state.  The node with the smaller peer id is the initiator, the other   *)
(* the responder (p4.py:544), so only one of them runs a maintainer.       *)
(*                                                                         *)
(* An attempt is one run of _initiate_with_contact past its early return.  *)
(* Its model value stands for the session id (a fresh uuid4) and, on each  *)
(* side, for the RTCPeerConnection and the RTCDataChannel made for it: the *)
(* two nodes create at most one of each per attempt.  An attempt that      *)
(* nothing refers to any more may be used again as a fresh one.            *)
(*                                                                         *)
(* asyncio switches tasks only at an await, so a step here is what the     *)
(* code does between two awaits that really suspend.  A task that waits    *)
(* for session.lock is not distinguished from one that has not asked for   *)
(* it yet: the code reads nothing of the session before it has the lock    *)
(* that it does not read again (session.connected, p4.py:814 and 824).     *)
(* session.state is only ever displayed and is left out.                   *)
(***************************************************************************)
EXTENDS Naturals

CONSTANTS Attempt,      \* the attempts to connect that can be told apart
          None,         \* Python's None
          MaxFaults     \* bound: how many faults of the environment may happen

ASSUME SessionAssumption == None \notin Attempt /\ MaxFaults \in Nat

I == "initiator"
R == "responder"
Node == {I, R}
Other(n) == IF n = I THEN R ELSE I

VARIABLES
  pc,         \* session.pc of each node
  dc,         \* session.dc of each node
  connected,  \* session.connected of each node
  sid,        \* session.current_session_id of each node
  pcState,    \* life of each node's peer connection of an attempt
  dcState,    \* readyState of each node's data channel of an attempt
  stateCb,    \* on_connectionstatechange tasks scheduled and not yet run
  closing,    \* the peer connection whose close() the holder of session.lock awaits
  maintain,   \* where the initiator's _maintain_contact task is
  handler,    \* where the responder's _handle_signal_conn task of an offer is
  replied,    \* the signalling request the initiator waits on has its reply
  answer,     \* the session id in that reply; None in an error reply
  drop,       \* drop_peer of a node holds the lock
  faults      \* faults so far

sessionVars == <<pc, dc, connected, sid>>
rtcVars == <<pcState, dcState, stateCb>>
taskVars == <<closing, maintain, handler, replied, answer, drop>>
vars == <<sessionVars, rtcVars, taskVars, faults>>

\* "none": not created yet, or closed and done with.
PcState == {"none", "new", "live", "failed", "closing"}
\* "connecting" at the responder: the channel is not announced to it yet.
DcState == {"connecting", "open", "closed"}
Maintain == {"sleep", "closing", "gather", "reply"}
Handler == {"none", "sent", "closing", "negotiate"}

(***************************************************************************)
(* Types of the variables.                                                 *)
(***************************************************************************)
TypeOK ==
  /\ pc \in [Node -> Attempt \cup {None}]
  /\ dc \in [Node -> Attempt \cup {None}]
  /\ connected \in [Node -> BOOLEAN]
  /\ sid \in [Node -> Attempt \cup {None}]
  /\ pcState \in [Node -> [Attempt -> PcState]]
  /\ dcState \in [Node -> [Attempt -> DcState]]
  /\ stateCb \in [Node -> [Attempt -> 0..2]]
  /\ closing \in [Node -> Attempt \cup {None}]
  /\ maintain \in Maintain
  /\ handler \in [Attempt -> Handler]
  /\ replied \in BOOLEAN
  /\ answer \in Attempt \cup {None}
  /\ drop \in [Node -> BOOLEAN]
  /\ faults \in 0..MaxFaults

Init ==
  /\ pc = [n \in Node |-> None]
  /\ dc = [n \in Node |-> None]
  /\ connected = [n \in Node |-> FALSE]
  /\ sid = [n \in Node |-> None]
  /\ pcState = [n \in Node |-> [a \in Attempt |-> "none"]]
  /\ dcState = [n \in Node |-> [a \in Attempt |-> "closed"]]
  /\ stateCb = [n \in Node |-> [a \in Attempt |-> 0]]
  /\ closing = [n \in Node |-> None]
  /\ maintain = "sleep"
  /\ handler = [a \in Attempt |-> "none"]
  /\ replied = FALSE
  /\ answer = None
  /\ drop = [n \in Node |-> FALSE]
  /\ faults = 0

-----------------------------------------------------------------------------
(* Helpers.                                                                *)

\* Mutant: offer handlers run without the lock.
MutLockFree(n) ==
  /\ ~drop[n]
  /\ n = I => maintain = "sleep"

\* session.lock of node n is held by none of the tasks that take it: the
\* maintainer (initiator), the offer handlers (responder), drop_peer (both).
LockFree(n) ==
  /\ ~drop[n]
  /\ n = I => maintain = "sleep"
  /\ n = R => \A a \in Attempt : handler[a] \notin {"closing", "negotiate"}

\* No callback task is waiting for its first turn at node n.
Settled(n) == \A a \in Attempt : stateCb[n][a] = 0

\* The environment does something wrong; it may do so MaxFaults times.
Fault == faults < MaxFaults /\ faults' = faults + 1

\* The session id is a new uuid4, so nothing refers to it.
Fresh(a) ==
  /\ handler[a] = "none"
  /\ sid[R] # a
  /\ \A n \in Node : /\ pc[n] # a
                     /\ dc[n] # a
                     /\ pcState[n][a] = "none"
                     /\ stateCb[n][a] = 0

\* The initiator waits for the reply to the offer of attempt a.
Awaited(a) == maintain = "reply" /\ sid[I] = a

\* The other side's peer connection of the attempt has gone away.
RemoteGone(n, a) == pcState[Other(n)][a] \in {"closing", "none"}

\* Mutant: connected is left as it is.
MutCloseSessionPc(n) ==
  /\ pc' = [pc EXCEPT ![n] = None]
  /\ dc' = [dc EXCEPT ![n] = None]
  /\ UNCHANGED connected
  /\ closing' = [closing EXCEPT ![n] = pc[n]]
  /\ pcState' = [m \in Node |-> [a \in Attempt |->
                   IF m = n /\ a = pc[n] THEN "closing" ELSE pcState[m][a]]]

\* _close_session_pc up to its await: the fields are cleared whatever they
\* hold; close() is called and awaited when there was a peer connection.
CloseSessionPc(n) ==
  /\ pc' = [pc EXCEPT ![n] = None]
  /\ dc' = [dc EXCEPT ![n] = None]
  /\ connected' = [connected EXCEPT ![n] = FALSE]
  /\ closing' = [closing EXCEPT ![n] = pc[n]]
  /\ pcState' = [m \in Node |-> [a \in Attempt |->
                   IF m = n /\ a = pc[n] THEN "closing" ELSE pcState[m][a]]]

\* The awaited close() has returned.
CloseReturned(n) ==
  /\ closing[n] \in Attempt
  /\ pcState[n][closing[n]] = "none"

-----------------------------------------------------------------------------
(* The initiator: _maintain_contact and _initiate_with_contact.            *)

\* The part of _initiate_with_contact between the close and the first await
\* after it: a new peer connection, a new session id, a new data channel
\* wired into the session.
Dial(a) ==
  /\ Fresh(a)
  /\ pc' = [pc EXCEPT ![I] = a]
  /\ dc' = [dc EXCEPT ![I] = a]
  /\ connected' = [connected EXCEPT ![I] = FALSE]
  /\ sid' = [sid EXCEPT ![I] = a]
  /\ pcState' = [pcState EXCEPT ![I][a] = "new"]
  /\ dcState' = [dcState EXCEPT ![I][a] = "connecting", ![R][a] = "connecting"]
  /\ closing' = [closing EXCEPT ![I] = None]
  /\ maintain' = "gather"
  /\ UNCHANGED <<stateCb, handler, replied, answer, drop, faults>>

\* The loop wakes up, finds the session connected, and sleeps again.
MaintainIdle ==
  /\ maintain = "sleep"
  /\ connected[I]
  /\ UNCHANGED vars

\* The loop wakes up, finds the session not connected, gets the lock and
\* closes what is left of the last attempt.
MaintainClose ==
  /\ maintain = "sleep"
  /\ LockFree(I)
  /\ ~connected[I]
  /\ pc[I] # None
  /\ CloseSessionPc(I)
  /\ maintain' = "closing"
  /\ UNCHANGED <<sid, dcState, stateCb, handler, replied, answer, drop, faults>>

\* The same with no peer connection to close: nothing suspends before the
\* dial.
MaintainDial ==
  /\ maintain = "sleep"
  /\ LockFree(I)
  /\ ~connected[I]
  /\ pc[I] = None
  /\ \E a \in Attempt : Dial(a)

\* close() has returned and the dial goes on.
MaintainRedial ==
  /\ maintain = "closing"
  /\ CloseReturned(I)
  /\ \E a \in Attempt : Dial(a)

\* Gathering is over and the offer is on its way.  Gathering waits for
\* timers and sockets, so the callbacks scheduled before it have run.
SendOffer ==
  /\ maintain = "gather"
  /\ Settled(I)
  /\ maintain' = "reply"
  /\ handler' = [handler EXCEPT ![sid[I]] = "sent"]
  /\ UNCHANGED <<sessionVars, rtcVars, closing, replied, answer, drop, faults>>

\* Gathering times out, or the responder cannot be reached.
DialFail ==
  /\ maintain = "gather"
  /\ Fault
  /\ maintain' = "sleep"
  /\ UNCHANGED <<sessionVars, rtcVars, closing, handler, replied, answer, drop>>

\* The request is over: its connection is closed and its reply forgotten.
RequestDone ==
  /\ maintain' = "sleep"
  /\ replied' = FALSE
  /\ answer' = None

\* The connection breaks or the reply does not come within 25 seconds.  The
\* handler at the responder does not notice.
ReplyTimeout ==
  /\ maintain = "reply"
  /\ Fault
  /\ RequestDone
  /\ UNCHANGED <<sessionVars, rtcVars, closing, handler, drop>>

\* The reply is an error, which is not a valid envelope, or an answer for
\* another session id.
ReplyError ==
  /\ maintain = "reply"
  /\ replied
  /\ answer # sid[I]
  /\ RequestDone
  /\ UNCHANGED <<sessionVars, rtcVars, closing, handler, drop, faults>>

\* Mutant: the answer is checked and never applied.
MutApplyAnswer ==
  /\ maintain = "reply"
  /\ replied
  /\ answer = sid[I]
  /\ RequestDone
  /\ UNCHANGED <<sessionVars, rtcVars, closing, handler, drop, faults>>

\* The reply is the answer to the offer.
ApplyAnswer ==
  /\ maintain = "reply"
  /\ replied
  /\ answer = sid[I]
  /\ pcState' = [pcState EXCEPT ![I][sid[I]] = "live"]
  /\ RequestDone
  /\ UNCHANGED <<sessionVars, dcState, stateCb, closing, handler, drop, faults>>

-----------------------------------------------------------------------------
(* The responder: _handle_signal_conn and _handle_offer.                   *)

\* The handler of attempt a ends by sending a reply, which reaches the
\* initiator if it still waits on that connection.
Reply(a, what) ==
  /\ handler' = [handler EXCEPT ![a] = "none"]
  /\ replied' = (replied \/ Awaited(a))
  /\ answer' = IF Awaited(a) THEN what ELSE answer

\* The part of _handle_offer between the close and the first await after it.
AcceptOffer(a) ==
  /\ pc' = [pc EXCEPT ![R] = a]
  /\ sid' = [sid EXCEPT ![R] = a]
  /\ pcState' = [pcState EXCEPT ![R][a] = "new"]
  /\ closing' = [closing EXCEPT ![R] = None]
  /\ handler' = [handler EXCEPT ![a] = "negotiate"]
  /\ UNCHANGED <<dcState, stateCb, maintain, replied, answer, drop, faults>>

\* The handler refuses the message (envelope, peer or type not accepted).
OfferReject(a) ==
  /\ handler[a] = "sent"
  /\ Fault
  /\ Reply(a, None)
  /\ UNCHANGED <<sessionVars, rtcVars, closing, maintain, drop>>

\* Mutant: a new offer takes over the session without closing it.
MutOfferClose(a) ==
  /\ handler[a] = "sent"
  /\ LockFree(R)
  /\ pc[R] # None
  /\ AcceptOffer(a)
  /\ UNCHANGED <<dc, connected>>

\* The handler gets the lock and closes the session's peer connection.
OfferClose(a) ==
  /\ handler[a] = "sent"
  /\ LockFree(R)
  /\ pc[R] # None
  /\ CloseSessionPc(R)
  /\ handler' = [handler EXCEPT ![a] = "closing"]
  /\ UNCHANGED <<sid, dcState, stateCb, maintain, replied, answer, drop, faults>>

\* The same with no peer connection to close.
OfferAccept(a) ==
  /\ handler[a] = "sent"
  /\ LockFree(R)
  /\ pc[R] = None
  /\ dc' = [dc EXCEPT ![R] = None]
  /\ connected' = [connected EXCEPT ![R] = FALSE]
  /\ AcceptOffer(a)

\* close() has returned and the handler goes on.
OfferClosed(a) ==
  /\ handler[a] = "closing"
  /\ CloseReturned(R)
  /\ AcceptOffer(a)
  /\ UNCHANGED <<dc, connected>>

\* Gathering is over: the session id is read for the answer, the lock is
\* released and the answer is sent.
OfferAnswer(a) ==
  /\ handler[a] = "negotiate"
  /\ Settled(R)
  /\ pcState' = [pcState EXCEPT ![R][a] = "live"]
  /\ Reply(a, sid[R])
  /\ UNCHANGED <<sessionVars, dcState, stateCb, closing, maintain, drop, faults>>

\* The description is refused or gathering times out.
OfferFail(a) ==
  /\ handler[a] = "negotiate"
  /\ Fault
  /\ Reply(a, None)
  /\ UNCHANGED <<sessionVars, rtcVars, closing, maintain, drop>>

-----------------------------------------------------------------------------
(* The /drop command.                                                      *)

\* Mutant: the session forgets the peer connection without closing it.
MutDrop(n) ==
  /\ LockFree(n)
  /\ Fault
  /\ pc' = [pc EXCEPT ![n] = None]
  /\ dc' = [dc EXCEPT ![n] = None]
  /\ connected' = [connected EXCEPT ![n] = FALSE]
  /\ UNCHANGED <<sid, rtcVars, taskVars>>

\* drop_peer gets the lock and closes the session's peer connection; with
\* none, it clears the fields and is done.
Drop(n) ==
  /\ LockFree(n)
  /\ Fault
  /\ CloseSessionPc(n)
  /\ drop' = [drop EXCEPT ![n] = pc[n] # None]
  /\ UNCHANGED <<sid, dcState, stateCb, maintain, handler, replied, answer>>

\* close() has returned.
DropDone(n) ==
  /\ drop[n]
  /\ CloseReturned(n)
  /\ drop' = [drop EXCEPT ![n] = FALSE]
  /\ closing' = [closing EXCEPT ![n] = None]
  /\ UNCHANGED <<sessionVars, rtcVars, maintain, handler, replied, answer, faults>>

-----------------------------------------------------------------------------
(* aiortc: what it does to peer connections and data channels, and the     *)
(* callbacks of p4.py that it runs at those moments.                       *)

\* The responder's side learns of the initiator's channel, open from the
\* start: on_datachannel wires it and marks the session open.
OnDatachannel(a) ==
  /\ pcState[R][a] = "live"
  /\ pcState[I][a] = "live"
  /\ dcState[R][a] = "connecting"
  /\ dcState[I][a] = "connecting"
  /\ dcState' = [dcState EXCEPT ![R][a] = "open"]
  /\ dc' = [dc EXCEPT ![R] = a]
  /\ connected' = [connected EXCEPT ![R] = TRUE]
  /\ UNCHANGED <<pc, sid, pcState, stateCb, taskVars, faults>>

\* The responder's acknowledgement opens the initiator's channel: on_open
\* marks the session open.  session.dc was set when the channel was made.
OnOpen(a) ==
  /\ pcState[I][a] = "live"
  /\ dcState[I][a] = "connecting"
  /\ dcState[R][a] \in {"open", "closed"}
  /\ dcState' = [dcState EXCEPT ![I][a] = "open"]
  /\ connected' = [connected EXCEPT ![I] = TRUE]
  /\ UNCHANGED <<pc, dc, sid, pcState, stateCb, taskVars, faults>>

\* Mutant: on_close only logs.
MutOnClose(n, a) ==
  /\ dcState[n][a] \in IF n = I THEN {"connecting", "open"} ELSE {"open"}
  /\ \/ pcState[n][a] \in {"failed", "closing"}
     \/ pcState[n][a] = "live" /\ RemoteGone(n, a)
  /\ dcState' = [dcState EXCEPT ![n][a] = "closed"]
  /\ UNCHANGED <<sessionVars, pcState, stateCb, taskVars, faults>>

\* A channel is closed with the association it belongs to, because this side
\* gives it up or because the other side did: on_close clears the session.
OnClose(n, a) ==
  /\ dcState[n][a] \in IF n = I THEN {"connecting", "open"} ELSE {"open"}
  /\ \/ pcState[n][a] \in {"failed", "closing"}
     \/ pcState[n][a] = "live" /\ RemoteGone(n, a)
  /\ dcState' = [dcState EXCEPT ![n][a] = "closed"]
  /\ dc' = [dc EXCEPT ![n] = None]
  /\ connected' = [connected EXCEPT ![n] = FALSE]
  /\ UNCHANGED <<pc, sid, pcState, stateCb, taskVars, faults>>

\* A peer connection reaches a terminal state by itself: its callback is
\* scheduled as a task.
PcEnd(n, a) ==
  /\ pcState[n][a] = "live"
  /\ pcState' = [pcState EXCEPT ![n][a] = "failed"]
  /\ stateCb' = [stateCb EXCEPT ![n][a] = @ + 1]
  /\ UNCHANGED <<sessionVars, dcState, taskVars>>

PcFail(n, a) == PcEnd(n, a) /\ ~RemoteGone(n, a) /\ Fault

PcHangup(n, a) == PcEnd(n, a) /\ RemoteGone(n, a) /\ UNCHANGED faults

\* close() is through: the state changes to closed and the callback is
\* scheduled.  Open channels were closed before; the initiator's that
\* never opened is forgotten without an event.
PcClosed(n, a) ==
  /\ pcState[n][a] = "closing"
  /\ dcState[n][a] # "open"
  /\ pcState' = [pcState EXCEPT ![n][a] = "none"]
  /\ dcState' = [dcState EXCEPT ![n][a] = IF n = I THEN "closed" ELSE @]
  /\ stateCb' = [stateCb EXCEPT ![n][a] = @ + 1]
  /\ UNCHANGED <<sessionVars, taskVars, faults>>

\* Mutant: session.pc is cleared whichever peer connection the event is about.
MutOnStateChange(n, a) ==
  /\ stateCb[n][a] > 0
  /\ stateCb' = [stateCb EXCEPT ![n][a] = @ - 1]
  /\ connected' = [connected EXCEPT ![n] = FALSE]
  /\ dc' = [dc EXCEPT ![n] = None]
  /\ pc' = [pc EXCEPT ![n] = None]
  /\ pcState' = [pcState EXCEPT ![n][a] = IF @ = "failed" THEN "closing" ELSE @]
  /\ UNCHANGED <<sid, dcState, taskVars, faults>>

\* A scheduled on_connectionstatechange runs up to its await of close().
\* Only session.pc is compared with the peer connection the event is about.
OnStateChange(n, a) ==
  /\ stateCb[n][a] > 0
  /\ stateCb' = [stateCb EXCEPT ![n][a] = @ - 1]
  /\ connected' = [connected EXCEPT ![n] = FALSE]
  /\ dc' = [dc EXCEPT ![n] = None]
  /\ pc' = [pc EXCEPT ![n] = IF @ = a THEN None ELSE @]
  /\ pcState' = [pcState EXCEPT ![n][a] = IF @ = "failed" THEN "closing" ELSE @]
  /\ UNCHANGED <<sid, dcState, taskVars, faults>>

-----------------------------------------------------------------------------
\* A node's process ends and is started again: nothing of a session is kept
\* on disk.  Connections that were being handled are reset.
Restart(n) ==
  /\ Fault
  /\ pc' = [pc EXCEPT ![n] = None]
  /\ dc' = [dc EXCEPT ![n] = None]
  /\ connected' = [connected EXCEPT ![n] = FALSE]
  /\ sid' = [sid EXCEPT ![n] = None]
  /\ pcState' = [pcState EXCEPT ![n] = [a \in Attempt |-> "none"]]
  /\ dcState' = [dcState EXCEPT ![n] =
                   [a \in Attempt |-> IF n = I \/ dcState[n][a] = "open"
                                    THEN "closed" ELSE dcState[n][a]]]
  /\ stateCb' = [stateCb EXCEPT ![n] = [a \in Attempt |-> 0]]
  /\ closing' = [closing EXCEPT ![n] = None]
  /\ drop' = [drop EXCEPT ![n] = FALSE]
  /\ \/ n = I /\ RequestDone /\ UNCHANGED handler
     \/ /\ n = R
        /\ handler' = [a \in Attempt |-> "none"]
        /\ replied' = (replied \/ maintain = "reply")
        /\ UNCHANGED <<maintain, answer>>

InitiatorStep ==
  \/ MaintainIdle
  \/ MaintainClose
  \/ MaintainDial
  \/ MaintainRedial
  \/ SendOffer
  \/ DialFail
  \/ ReplyTimeout
  \/ ReplyError
  \/ ApplyAnswer

ResponderStep(a) ==
  \/ OfferReject(a)
  \/ OfferClose(a)
  \/ OfferAccept(a)
  \/ OfferClosed(a)
  \/ OfferAnswer(a)
  \/ OfferFail(a)

RtcStep(n, a) ==
  \/ OnClose(n, a)
  \/ PcFail(n, a)
  \/ PcHangup(n, a)
  \/ PcClosed(n, a)
  \/ OnStateChange(n, a)

Next ==
  \/ InitiatorStep
  \/ \E a \in Attempt : \/ ResponderStep(a)
                        \/ OnDatachannel(a)
                        \/ OnOpen(a)
  \/ \E n \in Node : \/ Drop(n)
                     \/ DropDone(n)
                     \/ Restart(n)
                     \/ \E a \in Attempt : RtcStep(n, a)

Spec == Init /\ [][Next]_vars

(***************************************************************************)
(* Fairness.  asyncio runs every ready task and timers expire, so a step   *)
(* of the code that stays possible is taken; a lock is handed to its       *)
(* waiters in the order they came, which is strong fairness for handlers   *)
(* that wait while others take the lock in turn.  Of aiortc we assume that *)
(* what it began it ends, that it notices a peer that has gone, and that   *)
(* if attempts to open a channel keep being made one gets through before   *)
(* the next retry tears it down.  Faults are not fair.                     *)
(***************************************************************************)
Fairness ==
  /\ WF_vars(MaintainClose \/ MaintainDial \/ MaintainRedial)
  /\ WF_vars(SendOffer)
  /\ WF_vars(ReplyError \/ ApplyAnswer)
  /\ SF_vars(\E a \in Attempt : OfferClose(a) \/ OfferAccept(a))
  /\ WF_vars(\E a \in Attempt : OfferClosed(a) \/ OfferAnswer(a))
  /\ SF_vars(\E a \in Attempt : OnDatachannel(a))
  /\ SF_vars(\E a \in Attempt : OnOpen(a))
  /\ WF_vars(\E n \in Node, a \in Attempt :
                OnClose(n, a) \/ PcHangup(n, a) \/ PcClosed(n, a) \/ OnStateChange(n, a))
  /\ WF_vars(\E n \in Node : DropDone(n))

FairSpec == Spec /\ Fairness

-----------------------------------------------------------------------------
(* Properties.                                                             *)

\* No peer connection is lost track of: session.pc is exactly the one that
\* is in use and not being closed.  One that nothing refers to would keep its
\* sockets and its TURN allocation; a reference to one being closed would let
\* its late callbacks pass for current ones.
NoLeakedPc ==
  \A n \in Node, a \in Attempt :
    pcState[n][a] \in {"new", "live", "failed"} <=> pc[n] = a

\* A node that says it is connected holds the peer connection of a channel
\* that is open, however the callbacks of older ones are interleaved.
ConnectedIsBacked ==
  \A n \in Node : connected[n] => pc[n] # None /\ dcState[n][pc[n]] = "open"

\* send_chat's test.
CanSend(n) == dc[n] # None /\ connected[n]

\* What send_chat writes to is the open channel of the current peer
\* connection: dc.send never raises, which would end the stdin loop.
SendsOnOpenChannel ==
  \A n \in Node : CanSend(n) => dc[n] = pc[n] /\ dcState[n][dc[n]] = "open"

\* Two nodes that both say they are connected are so through the same
\* attempt: delayed offers, answers given up and late callbacks never leave
\* them each with one end of a different link.
Agreement == connected[I] /\ connected[R] => pc[I] = pc[R]

\* The answer that reaches an initiator is for the offer it made: the session
\* id the handler reads after its awaits is still the one it stored.
AnswerMatchesOffer == replied /\ answer # None => answer = sid[I]

\* Both channels of an attempt are open and it is both sessions' attempt.
LinkUp == \E a \in Attempt : \A n \in Node : pc[n] = a /\ dcState[n][a] = "open"

\* Once faults stop, the initiator ends up connected for good.
InitiatorReconnects == <>[]connected[I]

\* Once faults stop, there is a link for good.
LinkRestored == <>[]LinkUp

\* A node that is connected can send ("wait for auto reconnect and send
\* again").
ConnectedCanSend == \A n \in Node : connected[n] => CanSend(n)

\* Once faults stop, both nodes end up connected for good.
BothReconnect == <>[](connected[I] /\ connected[R])

=============================================================================
