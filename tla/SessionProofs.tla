--------------------------- MODULE SessionProofs ---------------------------
(***************************************************************************)
(* Proofs about Session, for every set of attempts and every number of     *)
(* faults: the types, and the safety invariants that the runs of MCSession *)
(* check on small instances.                                               *)
(***************************************************************************)
EXTENDS Session, TLAPS

-----------------------------------------------------------------------------
(* The inductive invariant.                                                *)

\* Callbacks are scheduled for a peer connection that has ended or is being
\* closed, never for one still in use: one per event.
Callbacks ==
  \A n \in Node, a \in Attempt :
    /\ pcState[n][a] \in {"new", "live"} => stateCb[n][a] = 0
    /\ pcState[n][a] \in {"failed", "closing"} => stateCb[n][a] <= 1

\* session.dc is the channel of session.pc, or None.
ChannelOfPc == \A n \in Node : dc[n] # None => dc[n] = pc[n]

\* While the maintainer holds the lock the session is its own: nothing is
\* there between close and dial, and after the dial the peer connection it
\* made is still the session's and still new.
MaintainerOwns ==
  /\ maintain = "closing" => pc[I] = None
  /\ maintain \in {"gather", "reply"} =>
       sid[I] \in Attempt /\ pcState[I][sid[I]] = "new"

\* Nothing has happened to an attempt at the responder before its offer.
OfferAhead(a) ==
  /\ pcState[R][a] = "none"
  /\ stateCb[R][a] = 0
  /\ dcState[R][a] = "connecting"

\* The same for the offer handlers, which also exclude each other.
HandlersOwn ==
  /\ maintain = "gather" => OfferAhead(sid[I]) /\ handler[sid[I]] = "none"
  /\ \A a \in Attempt :
       /\ handler[a] \in {"sent", "closing"} => OfferAhead(a)
       /\ handler[a] = "closing" => pc[R] = None
       /\ handler[a] = "negotiate" => /\ pcState[R][a] = "new"
                                      /\ dcState[R][a] = "connecting"
                                      /\ sid[R] = a
  /\ \A a, b \in Attempt :
       {handler[a], handler[b]} \subseteq {"closing", "negotiate"} => a = b

\* A reply is there only for a request, and then answers it.
ReplyMatches ==
  /\ replied => maintain = "reply"
  /\ answer # None => replied /\ answer = sid[I]

\* The responder's end opens first, and when it is open in a session that is
\* not the initiator's, the initiator's has not opened.
OpenOrder ==
  /\ \A a \in Attempt : dcState[I][a] = "open" => dcState[R][a] # "connecting"
  /\ \A a, b \in Attempt :
       a # b /\ pc[I] = a /\ pc[R] = b /\ dcState[R][b] = "open"
         => dcState[R][a] = "connecting"

\* The inductive invariant.
IInv ==
  /\ TypeOK
  /\ NoLeakedPc
  /\ Callbacks
  /\ ChannelOfPc
  /\ ConnectedIsBacked
  /\ MaintainerOwns
  /\ HandlersOwn
  /\ ReplyMatches
  /\ OpenOrder

-----------------------------------------------------------------------------
(* One lemma per action.                                                   *)

\* A step that changes nothing.
LEMMA StutterStep ==
  ASSUME IInv, UNCHANGED vars
  PROVE  IInv'
  BY DEF IInv, vars, sessionVars, rtcVars, taskVars, TypeOK, NoLeakedPc,
         Callbacks, ChannelOfPc, ConnectedIsBacked, MaintainerOwns,
         HandlersOwn, OfferAhead, ReplyMatches, OpenOrder

\* A dial, from a session that holds no peer connection.
LEMMA DialStep ==
  ASSUME NEW a \in Attempt, IInv, pc[I] = None,
         maintain \in {"sleep", "closing"}, Dial(a)
  PROVE  IInv'
<1> USE SessionAssumption DEF IInv, Node, I, R, sessionVars, rtcVars, taskVars
<1>1. TypeOK'
  BY DEF Dial, Fresh, TypeOK, PcState, DcState, Maintain, Handler
<1>2. NoLeakedPc'
  BY DEF Dial, Fresh, TypeOK, NoLeakedPc
<1>3. Callbacks'
  BY DEF Dial, Fresh, TypeOK, Callbacks
<1>4. ChannelOfPc'
  BY DEF Dial, Fresh, TypeOK, ChannelOfPc
<1>5. ConnectedIsBacked'
  BY DEF Dial, Fresh, TypeOK, ConnectedIsBacked
<1>6. MaintainerOwns'
  BY DEF Dial, Fresh, TypeOK, MaintainerOwns
<1>7. HandlersOwn'
  BY DEF Dial, Fresh, TypeOK, HandlersOwn, OfferAhead
<1>8. ReplyMatches'
  BY DEF Dial, Fresh, TypeOK, ReplyMatches
<1>9. OpenOrder'
  BY DEF Dial, Fresh, TypeOK, OpenOrder
<1> QED
  BY <1>1, <1>2, <1>3, <1>4, <1>5, <1>6, <1>7, <1>8, <1>9

\* Closing the last attempt: the peer connection given up was the session's.
LEMMA MaintainCloseStep ==
  ASSUME IInv, MaintainClose
  PROVE  IInv'
<1> USE SessionAssumption DEF IInv, Node, I, R, sessionVars, rtcVars, taskVars
<1>1. TypeOK'
  BY DEF MaintainClose, CloseSessionPc, TypeOK, PcState, DcState, Maintain,
     Handler
<1>2. NoLeakedPc'
  BY DEF MaintainClose, CloseSessionPc, TypeOK, NoLeakedPc
<1>3. Callbacks'
  BY DEF MaintainClose, CloseSessionPc, TypeOK, Callbacks, NoLeakedPc
<1>4. ChannelOfPc'
  BY DEF MaintainClose, CloseSessionPc, TypeOK, ChannelOfPc
<1>5. ConnectedIsBacked'
  BY DEF MaintainClose, CloseSessionPc, TypeOK, ConnectedIsBacked
<1>6. MaintainerOwns'
  BY DEF MaintainClose, CloseSessionPc, TypeOK, MaintainerOwns
<1>7. HandlersOwn'
  BY DEF MaintainClose, CloseSessionPc, TypeOK, HandlersOwn, OfferAhead
<1>8. ReplyMatches'
  BY DEF MaintainClose, CloseSessionPc, TypeOK, ReplyMatches
<1>9. OpenOrder'
  BY DEF MaintainClose, CloseSessionPc, TypeOK, OpenOrder
<1> QED
  BY <1>1, <1>2, <1>3, <1>4, <1>5, <1>6, <1>7, <1>8, <1>9

\* The offer is for the attempt dialled, of which the responder knows nothing.
LEMMA SendOfferStep ==
  ASSUME IInv, SendOffer
  PROVE  IInv'
<1> USE SessionAssumption DEF IInv, Node, I, R, sessionVars, rtcVars, taskVars
<1>1. TypeOK'
  BY DEF SendOffer, TypeOK, PcState, DcState, Maintain, Handler
<1>2. MaintainerOwns'
  BY DEF SendOffer, TypeOK, MaintainerOwns
<1>3. HandlersOwn'
  BY DEF SendOffer, TypeOK, HandlersOwn, OfferAhead
<1>4. ReplyMatches'
  BY DEF SendOffer, TypeOK, ReplyMatches
<1>5. 
       /\ NoLeakedPc'
       /\ Callbacks'
       /\ ChannelOfPc'
       /\ ConnectedIsBacked'
       /\ OpenOrder'
  BY DEF SendOffer, NoLeakedPc, Callbacks, ChannelOfPc, ConnectedIsBacked,
     OpenOrder
<1> QED
  BY <1>1, <1>2, <1>3, <1>4, <1>5

\* A failed dial leaves its peer connection in the session.
LEMMA DialFailStep ==
  ASSUME IInv, DialFail
  PROVE  IInv'
<1> USE SessionAssumption DEF IInv, Node, I, R, sessionVars, rtcVars, taskVars
<1>1. faults' \in 0..MaxFaults
  BY DEF DialFail, Fault, TypeOK
<1>2. TypeOK'
  BY <1>1 DEF DialFail, TypeOK, PcState, DcState, Maintain, Handler
<1>3. MaintainerOwns'
  BY DEF DialFail, TypeOK, MaintainerOwns
<1>4. HandlersOwn'
  BY DEF DialFail, TypeOK, HandlersOwn, OfferAhead
<1>5. ReplyMatches'
  BY DEF DialFail, TypeOK, ReplyMatches
<1>6. 
       /\ NoLeakedPc'
       /\ Callbacks'
       /\ ChannelOfPc'
       /\ ConnectedIsBacked'
       /\ OpenOrder'
  BY DEF DialFail, NoLeakedPc, Callbacks, ChannelOfPc, ConnectedIsBacked,
     OpenOrder
<1> QED
  BY <1>1, <1>2, <1>3, <1>4, <1>5, <1>6

\* So does one whose reply does not come.
LEMMA ReplyTimeoutStep ==
  ASSUME IInv, ReplyTimeout
  PROVE  IInv'
<1> USE SessionAssumption DEF IInv, Node, I, R, sessionVars, rtcVars, taskVars
<1>1. faults' \in 0..MaxFaults
  BY DEF ReplyTimeout, Fault, TypeOK
<1>2. TypeOK'
  BY <1>1 DEF ReplyTimeout, RequestDone, TypeOK, PcState, DcState, Maintain,
     Handler
<1>3. MaintainerOwns'
  BY DEF ReplyTimeout, RequestDone, TypeOK, MaintainerOwns
<1>4. HandlersOwn'
  BY DEF ReplyTimeout, RequestDone, TypeOK, HandlersOwn, OfferAhead
<1>5. ReplyMatches'
  BY DEF ReplyTimeout, RequestDone, TypeOK, ReplyMatches
<1>6. 
       /\ NoLeakedPc'
       /\ Callbacks'
       /\ ChannelOfPc'
       /\ ConnectedIsBacked'
       /\ OpenOrder'
  BY DEF ReplyTimeout, RequestDone, NoLeakedPc, Callbacks, ChannelOfPc,
     ConnectedIsBacked, OpenOrder
<1> QED
  BY <1>1, <1>2, <1>3, <1>4, <1>5, <1>6

\* So does one whose reply is refused.
LEMMA ReplyErrorStep ==
  ASSUME IInv, ReplyError
  PROVE  IInv'
<1> USE SessionAssumption DEF IInv, Node, I, R, sessionVars, rtcVars, taskVars
<1>1. TypeOK'
  BY DEF ReplyError, RequestDone, TypeOK, PcState, DcState, Maintain,
     Handler
<1>2. MaintainerOwns'
  BY DEF ReplyError, RequestDone, TypeOK, MaintainerOwns
<1>3. HandlersOwn'
  BY DEF ReplyError, RequestDone, TypeOK, HandlersOwn, OfferAhead
<1>4. ReplyMatches'
  BY DEF ReplyError, RequestDone, TypeOK, ReplyMatches
<1>5. 
       /\ NoLeakedPc'
       /\ Callbacks'
       /\ ChannelOfPc'
       /\ ConnectedIsBacked'
       /\ OpenOrder'
  BY DEF ReplyError, RequestDone, NoLeakedPc, Callbacks, ChannelOfPc,
     ConnectedIsBacked, OpenOrder
<1> QED
  BY <1>1, <1>2, <1>3, <1>4, <1>5

\* The peer connection that the answer is applied to is still the session's.
LEMMA ApplyAnswerStep ==
  ASSUME IInv, ApplyAnswer
  PROVE  IInv'
<1> USE SessionAssumption DEF IInv, Node, I, R, sessionVars, rtcVars, taskVars
<1>1. TypeOK'
  BY DEF ApplyAnswer, RequestDone, TypeOK, PcState, DcState, Maintain,
     Handler
<1>2. NoLeakedPc'
  BY DEF ApplyAnswer, RequestDone, TypeOK, NoLeakedPc, MaintainerOwns
<1>3. Callbacks'
  BY DEF ApplyAnswer, RequestDone, TypeOK, Callbacks, MaintainerOwns
<1>4. MaintainerOwns'
  BY DEF ApplyAnswer, RequestDone, TypeOK, MaintainerOwns
<1>5. HandlersOwn'
  BY DEF ApplyAnswer, RequestDone, TypeOK, HandlersOwn, OfferAhead
<1>6. ReplyMatches'
  BY DEF ApplyAnswer, RequestDone, TypeOK, ReplyMatches
<1>7. ChannelOfPc' /\ ConnectedIsBacked' /\ OpenOrder'
  BY DEF ApplyAnswer, RequestDone, ChannelOfPc, ConnectedIsBacked, OpenOrder
<1> QED
  BY <1>1, <1>2, <1>3, <1>4, <1>5, <1>6, <1>7

\* A refused offer changes nothing at the responder.
LEMMA OfferRejectStep ==
  ASSUME NEW a \in Attempt, IInv, OfferReject(a)
  PROVE  IInv'
<1> USE SessionAssumption DEF IInv, Node, I, R, sessionVars, rtcVars, taskVars
<1>1. faults' \in 0..MaxFaults
  BY DEF OfferReject, Fault, TypeOK
<1>2. TypeOK'
  BY <1>1 DEF OfferReject, Reply, Awaited, TypeOK, PcState, DcState,
     Maintain, Handler
<1>3. HandlersOwn'
  BY DEF OfferReject, Reply, Awaited, TypeOK, HandlersOwn, OfferAhead
<1>4. ReplyMatches'
  BY DEF OfferReject, Reply, Awaited, TypeOK, ReplyMatches
<1>5. 
       /\ NoLeakedPc'
       /\ Callbacks'
       /\ ChannelOfPc'
       /\ ConnectedIsBacked'
       /\ MaintainerOwns'
       /\ OpenOrder'
  BY DEF OfferReject, Reply, Awaited, NoLeakedPc, Callbacks, ChannelOfPc,
     ConnectedIsBacked, MaintainerOwns, OpenOrder
<1> QED
  BY <1>1, <1>2, <1>3, <1>4, <1>5

\* Closing the session for a new offer.
LEMMA OfferCloseStep ==
  ASSUME NEW a \in Attempt, IInv, OfferClose(a)
  PROVE  IInv'
<1> USE SessionAssumption DEF IInv, Node, I, R, sessionVars, rtcVars, taskVars
<1>1. TypeOK'
  BY DEF OfferClose, LockFree, CloseSessionPc, TypeOK, PcState, DcState,
     Maintain, Handler
<1>2. NoLeakedPc'
  BY DEF OfferClose, LockFree, CloseSessionPc, TypeOK, NoLeakedPc
<1>3. Callbacks'
  BY DEF OfferClose, LockFree, CloseSessionPc, TypeOK, Callbacks, NoLeakedPc
<1>4. ChannelOfPc'
  BY DEF OfferClose, LockFree, CloseSessionPc, TypeOK, ChannelOfPc
<1>5. ConnectedIsBacked'
  BY DEF OfferClose, LockFree, CloseSessionPc, TypeOK, ConnectedIsBacked
<1>6. MaintainerOwns'
  BY DEF OfferClose, LockFree, CloseSessionPc, TypeOK, MaintainerOwns
<1>7. HandlersOwn'
  BY DEF OfferClose, LockFree, CloseSessionPc, TypeOK, HandlersOwn,
     OfferAhead, NoLeakedPc, MaintainerOwns
<1>8. OpenOrder'
  BY DEF OfferClose, LockFree, CloseSessionPc, TypeOK, OpenOrder
<1>9. ReplyMatches'
  BY DEF OfferClose, LockFree, CloseSessionPc, ReplyMatches
<1> QED
  BY <1>1, <1>2, <1>3, <1>4, <1>5, <1>6, <1>7, <1>8, <1>9

\* An offer for a session that holds no peer connection.
LEMMA OfferAcceptStep ==
  ASSUME NEW a \in Attempt, IInv, OfferAccept(a)
  PROVE  IInv'
<1> USE SessionAssumption DEF IInv, Node, I, R, sessionVars, rtcVars, taskVars
<1>1. TypeOK'
  BY DEF OfferAccept, LockFree, AcceptOffer, TypeOK, PcState, DcState,
     Maintain, Handler
<1>2. NoLeakedPc'
  BY DEF OfferAccept, LockFree, AcceptOffer, TypeOK, NoLeakedPc
<1>3. Callbacks'
  BY DEF OfferAccept, LockFree, AcceptOffer, TypeOK, Callbacks, HandlersOwn,
     OfferAhead
<1>4. ChannelOfPc'
  BY DEF OfferAccept, LockFree, AcceptOffer, TypeOK, ChannelOfPc
<1>5. ConnectedIsBacked'
  BY DEF OfferAccept, LockFree, AcceptOffer, TypeOK, ConnectedIsBacked
<1>6. MaintainerOwns'
  BY DEF OfferAccept, LockFree, AcceptOffer, TypeOK, MaintainerOwns
<1>7. HandlersOwn'
  BY DEF OfferAccept, LockFree, AcceptOffer, TypeOK, HandlersOwn, OfferAhead
<1>8. ReplyMatches'
  BY DEF OfferAccept, LockFree, AcceptOffer, TypeOK, ReplyMatches
<1>9. OpenOrder'
  BY DEF OfferAccept, LockFree, AcceptOffer, TypeOK, OpenOrder, HandlersOwn,
     OfferAhead
<1> QED
  BY <1>1, <1>2, <1>3, <1>4, <1>5, <1>6, <1>7, <1>8, <1>9

\* The session still holds none when close() has returned.
LEMMA OfferClosedStep ==
  ASSUME NEW a \in Attempt, IInv, OfferClosed(a)
  PROVE  IInv'
<1> USE SessionAssumption DEF IInv, Node, I, R, sessionVars, rtcVars, taskVars
<1>1. TypeOK'
  BY DEF OfferClosed, AcceptOffer, TypeOK, PcState, DcState, Maintain,
     Handler
<1>2. NoLeakedPc'
  BY DEF OfferClosed, AcceptOffer, TypeOK, NoLeakedPc, HandlersOwn,
     OfferAhead
<1>3. Callbacks'
  BY DEF OfferClosed, AcceptOffer, TypeOK, Callbacks, HandlersOwn,
     OfferAhead
<1>4. ChannelOfPc'
  BY DEF OfferClosed, AcceptOffer, TypeOK, ChannelOfPc, HandlersOwn,
     OfferAhead
<1>5. ConnectedIsBacked'
  BY DEF OfferClosed, AcceptOffer, TypeOK, ConnectedIsBacked, HandlersOwn,
     OfferAhead
<1>6. MaintainerOwns'
  BY DEF OfferClosed, AcceptOffer, TypeOK, MaintainerOwns
<1>7. HandlersOwn'
  BY DEF OfferClosed, AcceptOffer, TypeOK, HandlersOwn, OfferAhead
<1>8. ReplyMatches'
  BY DEF OfferClosed, AcceptOffer, TypeOK, ReplyMatches
<1>9. OpenOrder'
  BY DEF OfferClosed, AcceptOffer, TypeOK, OpenOrder, HandlersOwn,
     OfferAhead
<1> QED
  BY <1>1, <1>2, <1>3, <1>4, <1>5, <1>6, <1>7, <1>8, <1>9

\* The session is still the handler's when gathering is over.
LEMMA OfferAnswerStep ==
  ASSUME NEW a \in Attempt, IInv, OfferAnswer(a)
  PROVE  IInv'
<1> USE SessionAssumption DEF IInv, Node, I, R, sessionVars, rtcVars, taskVars
<1>1. TypeOK'
  BY DEF OfferAnswer, Reply, Awaited, TypeOK, PcState, DcState, Maintain,
     Handler
<1>2. NoLeakedPc'
  BY DEF OfferAnswer, Reply, Awaited, TypeOK, NoLeakedPc, HandlersOwn,
     OfferAhead
<1>3. Callbacks'
  BY DEF OfferAnswer, Reply, Awaited, TypeOK, Callbacks, HandlersOwn,
     OfferAhead
<1>4. MaintainerOwns'
  BY DEF OfferAnswer, Reply, Awaited, TypeOK, MaintainerOwns
<1>5. HandlersOwn'
  BY DEF OfferAnswer, Reply, Awaited, TypeOK, HandlersOwn, OfferAhead
<1>6. ReplyMatches'
  BY DEF OfferAnswer, Reply, Awaited, TypeOK, ReplyMatches, HandlersOwn,
     OfferAhead
<1>7. ChannelOfPc' /\ ConnectedIsBacked' /\ OpenOrder'
  BY DEF OfferAnswer, Reply, Awaited, ChannelOfPc, ConnectedIsBacked,
     OpenOrder
<1> QED
  BY <1>1, <1>2, <1>3, <1>4, <1>5, <1>6, <1>7

\* A failed negotiation leaves its peer connection in the session.
LEMMA OfferFailStep ==
  ASSUME NEW a \in Attempt, IInv, OfferFail(a)
  PROVE  IInv'
<1> USE SessionAssumption DEF IInv, Node, I, R, sessionVars, rtcVars, taskVars
<1>1. faults' \in 0..MaxFaults
  BY DEF OfferFail, Fault, TypeOK
<1>2. TypeOK'
  BY <1>1 DEF OfferFail, Reply, Awaited, TypeOK, PcState, DcState, Maintain,
     Handler
<1>3. HandlersOwn'
  BY DEF OfferFail, Reply, Awaited, TypeOK, HandlersOwn, OfferAhead
<1>4. ReplyMatches'
  BY DEF OfferFail, Reply, Awaited, TypeOK, ReplyMatches
<1>5. 
       /\ NoLeakedPc'
       /\ Callbacks'
       /\ ChannelOfPc'
       /\ ConnectedIsBacked'
       /\ MaintainerOwns'
       /\ OpenOrder'
  BY DEF OfferFail, Reply, Awaited, NoLeakedPc, Callbacks, ChannelOfPc,
     ConnectedIsBacked, MaintainerOwns, OpenOrder
<1> QED
  BY <1>1, <1>2, <1>3, <1>4, <1>5

\* /drop gives up the session's peer connection.
LEMMA DropStep ==
  ASSUME NEW n \in Node, IInv, Drop(n)
  PROVE  IInv'
<1> USE SessionAssumption DEF IInv, Node, I, R, sessionVars, rtcVars, taskVars
<1>1. faults' \in 0..MaxFaults
  BY DEF Drop, Fault, TypeOK
<1>2. TypeOK'
  BY <1>1 DEF Drop, LockFree, CloseSessionPc, TypeOK, PcState, DcState,
     Maintain, Handler
<1>3. NoLeakedPc'
  BY DEF Drop, LockFree, CloseSessionPc, TypeOK, NoLeakedPc
<1>4. Callbacks'
  BY DEF Drop, LockFree, CloseSessionPc, TypeOK, Callbacks, NoLeakedPc
<1>5. ChannelOfPc'
  BY DEF Drop, LockFree, CloseSessionPc, TypeOK, ChannelOfPc
<1>6. ConnectedIsBacked'
  BY DEF Drop, LockFree, CloseSessionPc, TypeOK, ConnectedIsBacked
<1>7. MaintainerOwns'
  BY DEF Drop, LockFree, CloseSessionPc, TypeOK, MaintainerOwns
<1>8. HandlersOwn'
  BY DEF Drop, LockFree, CloseSessionPc, TypeOK, HandlersOwn, OfferAhead,
     NoLeakedPc, MaintainerOwns
<1>9. OpenOrder'
  BY DEF Drop, LockFree, CloseSessionPc, TypeOK, OpenOrder
<1>10. ReplyMatches'
  BY DEF Drop, LockFree, CloseSessionPc, ReplyMatches
<1> QED
  BY <1>1, <1>2, <1>3, <1>4, <1>5, <1>6, <1>7, <1>8, <1>9, <1>10

\* The end of /drop only releases the lock.
LEMMA DropDoneStep ==
  ASSUME NEW n \in Node, IInv, DropDone(n)
  PROVE  IInv'
<1> USE SessionAssumption DEF IInv, Node, I, R, sessionVars, rtcVars, taskVars
<1>1. TypeOK'
  BY DEF DropDone, TypeOK, PcState, DcState, Maintain, Handler
<1>2. 
       /\ NoLeakedPc'
       /\ Callbacks'
       /\ ChannelOfPc'
       /\ ConnectedIsBacked'
       /\ MaintainerOwns'
       /\ HandlersOwn'
       /\ ReplyMatches'
       /\ OpenOrder'
  BY DEF DropDone, NoLeakedPc, Callbacks, ChannelOfPc, ConnectedIsBacked,
     MaintainerOwns, HandlersOwn, OfferAhead, ReplyMatches, OpenOrder
<1> QED
  BY <1>1, <1>2

\* A channel is announced on a live peer connection, which is the session's.
LEMMA OnDatachannelStep ==
  ASSUME NEW a \in Attempt, IInv, OnDatachannel(a)
  PROVE  IInv'
<1> USE SessionAssumption DEF IInv, Node, I, R, sessionVars, rtcVars, taskVars
<1>1. TypeOK'
  BY DEF OnDatachannel, TypeOK, PcState, DcState, Maintain, Handler
<1>2. ChannelOfPc'
  BY DEF OnDatachannel, TypeOK, ChannelOfPc, NoLeakedPc
<1>3. ConnectedIsBacked'
  BY DEF OnDatachannel, TypeOK, ConnectedIsBacked, NoLeakedPc
<1>4. HandlersOwn'
  BY DEF OnDatachannel, TypeOK, HandlersOwn, OfferAhead
<1>5. OpenOrder'
  BY DEF OnDatachannel, TypeOK, OpenOrder, NoLeakedPc
<1>6. 
       /\ NoLeakedPc'
       /\ Callbacks'
       /\ MaintainerOwns'
       /\ ReplyMatches'
  BY DEF OnDatachannel, NoLeakedPc, Callbacks, MaintainerOwns, ReplyMatches
<1> QED
  BY <1>1, <1>2, <1>3, <1>4, <1>5, <1>6

\* A channel opens on a live peer connection, which is the session's.
LEMMA OnOpenStep ==
  ASSUME NEW a \in Attempt, IInv, OnOpen(a)
  PROVE  IInv'
<1> USE SessionAssumption DEF IInv, Node, I, R, sessionVars, rtcVars, taskVars
<1>1. TypeOK'
  BY DEF OnOpen, TypeOK, PcState, DcState, Maintain, Handler
<1>2. ConnectedIsBacked'
  BY DEF OnOpen, TypeOK, ConnectedIsBacked, NoLeakedPc
<1>3. HandlersOwn'
  BY DEF OnOpen, TypeOK, HandlersOwn, OfferAhead
<1>4. OpenOrder'
  BY DEF OnOpen, TypeOK, OpenOrder
<1>5. 
       /\ NoLeakedPc'
       /\ Callbacks'
       /\ ChannelOfPc'
       /\ MaintainerOwns'
       /\ ReplyMatches'
  BY DEF OnOpen, NoLeakedPc, Callbacks, ChannelOfPc, MaintainerOwns,
     ReplyMatches
<1> QED
  BY <1>1, <1>2, <1>3, <1>4, <1>5

\* A channel's end clears the session whichever channel it is.
LEMMA OnCloseStep ==
  ASSUME NEW n \in Node, NEW a \in Attempt, IInv, OnClose(n, a)
  PROVE  IInv'
<1> USE SessionAssumption DEF IInv, Node, I, R, sessionVars, rtcVars, taskVars
<1>1. TypeOK'
  BY DEF OnClose, RemoteGone, Other, TypeOK, PcState, DcState, Maintain,
     Handler
<1>2. ChannelOfPc'
  BY DEF OnClose, RemoteGone, Other, TypeOK, ChannelOfPc
<1>3. ConnectedIsBacked'
  BY DEF OnClose, RemoteGone, Other, TypeOK, ConnectedIsBacked
<1>4. HandlersOwn'
  BY DEF OnClose, RemoteGone, Other, TypeOK, HandlersOwn, OfferAhead
<1>5. OpenOrder'
  BY DEF OnClose, RemoteGone, Other, TypeOK, OpenOrder
<1>6. 
       /\ NoLeakedPc'
       /\ Callbacks'
       /\ MaintainerOwns'
       /\ ReplyMatches'
  BY DEF OnClose, RemoteGone, Other, NoLeakedPc, Callbacks, MaintainerOwns,
     ReplyMatches
<1> QED
  BY <1>1, <1>2, <1>3, <1>4, <1>5, <1>6

\* A peer connection that ends by itself stays in the session until its callback.
LEMMA PcEndStep ==
  ASSUME NEW n \in Node, NEW a \in Attempt, IInv, faults' \in 0..MaxFaults,
         PcEnd(n, a)
  PROVE  IInv'
<1> USE SessionAssumption DEF IInv, Node, I, R, sessionVars, rtcVars, taskVars
<1>1. TypeOK'
  BY DEF PcEnd, TypeOK, PcState, DcState, Maintain, Handler, Callbacks
<1>2. NoLeakedPc'
  BY DEF PcEnd, TypeOK, NoLeakedPc
<1>3. Callbacks'
  BY DEF PcEnd, TypeOK, Callbacks
<1>4. MaintainerOwns'
  BY DEF PcEnd, TypeOK, MaintainerOwns
<1>5. HandlersOwn'
  BY DEF PcEnd, TypeOK, HandlersOwn, OfferAhead
<1>6. 
       /\ ChannelOfPc'
       /\ ConnectedIsBacked'
       /\ ReplyMatches'
       /\ OpenOrder'
  BY DEF PcEnd, ChannelOfPc, ConnectedIsBacked, ReplyMatches, OpenOrder
<1> QED
  BY <1>1, <1>2, <1>3, <1>4, <1>5, <1>6

\* A peer connection that is closed was given up before.
LEMMA PcClosedStep ==
  ASSUME NEW n \in Node, NEW a \in Attempt, IInv, PcClosed(n, a)
  PROVE  IInv'
<1> USE SessionAssumption DEF IInv, Node, I, R, sessionVars, rtcVars, taskVars
<1>1. TypeOK'
  BY DEF PcClosed, TypeOK, PcState, DcState, Maintain, Handler, Callbacks
<1>2. NoLeakedPc'
  BY DEF PcClosed, TypeOK, NoLeakedPc
<1>3. Callbacks'
  BY DEF PcClosed, TypeOK, Callbacks
<1>4. ConnectedIsBacked'
  BY DEF PcClosed, TypeOK, ConnectedIsBacked
<1>5. MaintainerOwns'
  BY DEF PcClosed, TypeOK, MaintainerOwns
<1>6. HandlersOwn'
  BY DEF PcClosed, TypeOK, HandlersOwn, OfferAhead
<1>7. OpenOrder'
  BY DEF PcClosed, TypeOK, OpenOrder
<1>8. ChannelOfPc' /\ ReplyMatches'
  BY DEF PcClosed, ChannelOfPc, ReplyMatches
<1> QED
  BY <1>1, <1>2, <1>3, <1>4, <1>5, <1>6, <1>7, <1>8

\* A late callback takes away the session's flags, never a newer peer connection.
LEMMA OnStateChangeStep ==
  ASSUME NEW n \in Node, NEW a \in Attempt, IInv, OnStateChange(n, a)
  PROVE  IInv'
<1> USE SessionAssumption DEF IInv, Node, I, R, sessionVars, rtcVars, taskVars
<1>1. TypeOK'
  BY DEF OnStateChange, TypeOK, PcState, DcState, Maintain, Handler
<1>2. NoLeakedPc'
  BY DEF OnStateChange, TypeOK, NoLeakedPc, Callbacks
<1>3. Callbacks'
  BY DEF OnStateChange, TypeOK, Callbacks
<1>4. ChannelOfPc'
  BY DEF OnStateChange, TypeOK, ChannelOfPc
<1>5. ConnectedIsBacked'
  BY DEF OnStateChange, TypeOK, ConnectedIsBacked
<1>6. MaintainerOwns'
  BY DEF OnStateChange, TypeOK, MaintainerOwns
<1>7. HandlersOwn'
  BY DEF OnStateChange, TypeOK, HandlersOwn, OfferAhead
<1>8. OpenOrder'
  BY DEF OnStateChange, TypeOK, OpenOrder
<1>9. ReplyMatches'
  BY DEF OnStateChange, ReplyMatches
<1> QED
  BY <1>1, <1>2, <1>3, <1>4, <1>5, <1>6, <1>7, <1>8, <1>9

\* A restart leaves an empty session.
LEMMA RestartStep ==
  ASSUME NEW n \in Node, IInv, Restart(n)
  PROVE  IInv'
<1> USE SessionAssumption DEF IInv, Node, I, R, sessionVars, rtcVars, taskVars
<1>1. faults' \in 0..MaxFaults
  BY DEF Restart, Fault, TypeOK
<1>2. TypeOK'
  <2>1. pcState' \in [Node -> [Attempt -> PcState]]
    BY DEF Restart, TypeOK, PcState
  <2>2. dcState' \in [Node -> [Attempt -> DcState]]
    BY DEF Restart, TypeOK, DcState
  <2>3. stateCb' \in [Node -> [Attempt -> 0..2]]
    BY DEF Restart, TypeOK
  <2>4. replied' \in BOOLEAN
    BY DEF Restart, RequestDone, TypeOK
  <2>5. handler' \in [Attempt -> Handler]
    BY DEF Restart, TypeOK, Handler
  <2>6. maintain' \in Maintain /\ answer' \in Attempt \cup {None}
    BY DEF Restart, RequestDone, TypeOK, Maintain
  <2> QED
    BY <1>1, <2>1, <2>2, <2>3, <2>4, <2>5, <2>6 DEF Restart, TypeOK
<1>3. NoLeakedPc'
  BY DEF Restart, RequestDone, TypeOK, NoLeakedPc
<1>4. Callbacks'
  BY DEF Restart, RequestDone, TypeOK, Callbacks
<1>5. ChannelOfPc'
  BY DEF Restart, RequestDone, TypeOK, ChannelOfPc
<1>6. ConnectedIsBacked'
  BY DEF Restart, RequestDone, TypeOK, ConnectedIsBacked
<1>7. MaintainerOwns'
  BY DEF Restart, RequestDone, TypeOK, MaintainerOwns
<1>8. HandlersOwn'
  BY DEF Restart, RequestDone, TypeOK, HandlersOwn, OfferAhead,
     MaintainerOwns
<1>9. ReplyMatches'
  BY DEF Restart, RequestDone, TypeOK, ReplyMatches
<1>10. OpenOrder'
  BY DEF Restart, RequestDone, TypeOK, OpenOrder
<1> QED
  BY <1>1, <1>2, <1>3, <1>4, <1>5, <1>6, <1>7, <1>8, <1>9, <1>10

-----------------------------------------------------------------------------
(* The invariant holds, and what follows from it.                          *)

\* The initial state: nothing has been dialled.
LEMMA InitIInv == Init => IInv
<1> SUFFICES ASSUME Init PROVE IInv
  OBVIOUS
<1> USE SessionAssumption DEF Init, Node, I, R
<1>1. TypeOK
  <2>1. /\ pc \in [Node -> Attempt \cup {None}]
        /\ dc \in [Node -> Attempt \cup {None}]
        /\ sid \in [Node -> Attempt \cup {None}]
        /\ closing \in [Node -> Attempt \cup {None}]
    OBVIOUS
  <2>2. connected \in [Node -> BOOLEAN] /\ drop \in [Node -> BOOLEAN]
    OBVIOUS
  <2>3. pcState \in [Node -> [Attempt -> PcState]]
    BY DEF PcState
  <2>4. dcState \in [Node -> [Attempt -> DcState]]
    BY DEF DcState
  <2>5. stateCb \in [Node -> [Attempt -> 0..2]]
    OBVIOUS
  <2>6. maintain \in Maintain /\ handler \in [Attempt -> Handler]
    BY DEF Maintain, Handler
  <2>7. replied \in BOOLEAN /\ answer \in Attempt \cup {None}
    OBVIOUS
  <2>8. faults \in 0..MaxFaults
    OBVIOUS
  <2> QED
    BY <2>1, <2>2, <2>3, <2>4, <2>5, <2>6, <2>7, <2>8 DEF TypeOK
<1>2. NoLeakedPc /\ Callbacks
  BY DEF NoLeakedPc, Callbacks
<1>3. ChannelOfPc /\ ConnectedIsBacked
  BY DEF ChannelOfPc, ConnectedIsBacked
<1>4. MaintainerOwns /\ HandlersOwn
  BY DEF MaintainerOwns, HandlersOwn
<1>5. ReplyMatches /\ OpenOrder
  BY DEF ReplyMatches, OpenOrder
<1> QED
  BY <1>1, <1>2, <1>3, <1>4, <1>5 DEF IInv

\* Steps of the initiator's maintenance task.
LEMMA InitiatorSteps ==
  ASSUME IInv, InitiatorStep
  PROVE  IInv'
<1>1. CASE MaintainIdle
  BY <1>1, StutterStep DEF MaintainIdle
<1>2. CASE MaintainClose
  BY <1>2, MaintainCloseStep
<1>3. CASE MaintainDial
  BY <1>3, DialStep DEF MaintainDial
<1>4. CASE MaintainRedial
  BY <1>4, DialStep DEF MaintainRedial, IInv, MaintainerOwns
<1>5. CASE SendOffer
  BY <1>5, SendOfferStep
<1>6. CASE DialFail
  BY <1>6, DialFailStep
<1>7. CASE ReplyTimeout
  BY <1>7, ReplyTimeoutStep
<1>8. CASE ReplyError
  BY <1>8, ReplyErrorStep
<1>9. CASE ApplyAnswer
  BY <1>9, ApplyAnswerStep
<1> QED
  BY <1>1, <1>2, <1>3, <1>4, <1>5, <1>6, <1>7, <1>8, <1>9 DEF InitiatorStep

\* Steps of the handler of an offer.
LEMMA ResponderSteps ==
  ASSUME NEW a \in Attempt, IInv, ResponderStep(a)
  PROVE  IInv'
  BY OfferRejectStep, OfferCloseStep, OfferAcceptStep, OfferClosedStep,
     OfferAnswerStep, OfferFailStep
  DEF ResponderStep

\* Steps of aiortc that either node may take.
LEMMA RtcSteps ==
  ASSUME NEW n \in Node, NEW a \in Attempt, IInv, RtcStep(n, a)
  PROVE  IInv'
<1>1. CASE OnClose(n, a)
  BY <1>1, OnCloseStep
<1>2. CASE PcFail(n, a)
  <2>1. faults' \in 0..MaxFaults
    BY <1>2, SessionAssumption DEF PcFail, Fault, IInv, TypeOK
  <2> QED
    BY <1>2, <2>1, PcEndStep DEF PcFail
<1>3. CASE PcHangup(n, a)
  BY <1>3, PcEndStep DEF PcHangup, IInv, TypeOK
<1>4. CASE PcClosed(n, a)
  BY <1>4, PcClosedStep
<1>5. CASE OnStateChange(n, a)
  BY <1>5, OnStateChangeStep
<1> QED
  BY <1>1, <1>2, <1>3, <1>4, <1>5 DEF RtcStep

\* Every step of the two nodes preserves the invariant.
LEMMA NextIInv == IInv /\ [Next]_vars => IInv'
<1> SUFFICES ASSUME IInv, [Next]_vars PROVE IInv'
  OBVIOUS
<1>1. CASE InitiatorStep
  BY <1>1, InitiatorSteps
<1>2. ASSUME NEW a \in Attempt, ResponderStep(a) \/ OnDatachannel(a) \/ OnOpen(a)
      PROVE  IInv'
  BY <1>2, ResponderSteps, OnDatachannelStep, OnOpenStep
<1>3. ASSUME NEW n \in Node, Drop(n) \/ DropDone(n) \/ Restart(n)
      PROVE  IInv'
  BY <1>3, DropStep, DropDoneStep, RestartStep
<1>4. ASSUME NEW n \in Node, NEW a \in Attempt, RtcStep(n, a)
      PROVE  IInv'
  BY <1>4, RtcSteps
<1>5. CASE UNCHANGED vars
  BY <1>5, StutterStep
<1> QED
  BY <1>1, <1>2, <1>3, <1>4, <1>5 DEF Next

\* The strengthened invariant holds in every reachable state of a session.
THEOREM SessionInvariant == Spec => []IInv
  BY InitIInv, NextIInv, PTL DEF Spec

\* The fields of the session and the tasks around it keep their types.
THEOREM SessionTypes == Spec => []TypeOK
<1>1. IInv => TypeOK
  BY DEF IInv
<1> QED
  BY <1>1, SessionInvariant, PTL

\* session.pc is exactly the peer connection in use: neither the maintainer,
\* nor a handler, nor a callback arriving late ever loses one.
THEOREM SessionNoLeakedPc == Spec => []NoLeakedPc
<1>1. IInv => NoLeakedPc
  BY DEF IInv
<1> QED
  BY <1>1, SessionInvariant, PTL

\* session.connected is never true without an open channel of session.pc.
THEOREM SessionConnectedIsBacked == Spec => []ConnectedIsBacked
<1>1. IInv => ConnectedIsBacked
  BY DEF IInv
<1> QED
  BY <1>1, SessionInvariant, PTL

\* Whenever send_chat's test passes, it writes to the open channel of
\* session.pc.
THEOREM SessionSendsOnOpenChannel == Spec => []SendsOnOpenChannel
<1>1. IInv => SendsOnOpenChannel
  BY DEF IInv, SendsOnOpenChannel, CanSend, ConnectedIsBacked, ChannelOfPc
<1> QED
  BY <1>1, SessionInvariant, PTL

\* Two nodes that both say they are connected use the two ends of one link.
THEOREM SessionAgreement == Spec => []Agreement
<1>1. IInv => Agreement
  BY SessionAssumption
  DEF IInv, Agreement, ConnectedIsBacked, OpenOrder, TypeOK, Node, I, R
<1> QED
  BY <1>1, SessionInvariant, PTL

\* An answer that reaches the initiator carries the session id of its offer.
THEOREM SessionAnswerMatchesOffer == Spec => []AnswerMatchesOffer
<1>1. IInv => AnswerMatchesOffer
  BY DEF IInv, AnswerMatchesOffer, ReplyMatches
<1> QED
  BY <1>1, SessionInvariant, PTL
=============================================================================
