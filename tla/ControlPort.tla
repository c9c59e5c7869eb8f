----------------------------- MODULE ControlPort -----------------------------
(***************************************************************************)
(* The control connection between a node (p4.py) and the relay             *)
(* (feature/control of the relay, and the map of onion services in         *)
(* hs_service.c).  A node authenticates, adds its onion service, polls the *)
(* bootstrap status until it is done (invite does not), and removes the    *)
(* service when it shuts down.  It reads replies line by line, and several *)
(* of its callers swallow the exception of a reply that went wrong.        *)
(*                                                                         *)
(* A command is its name, a reply line the number of the command it        *)
(* answers, whether it has an error code, whether it ends the reply, and   *)
(* whether it says that the relay is ready.  Several nodes may use one     *)
(* relay (ports given on the command line), and so may controllers that    *)
(* are not p4.py, whose services belong to their connection, and who may   *)
(* delete any service that does not.                                       *)
(***************************************************************************)
EXTENDS Naturals, Sequences, FiniteSets

CONSTANTS Client,     \* controllers, each with a connection of its own
          Detaching,  \* those that add their service with Flags=Detach: p4.py
          Polling,    \* those that wait for the bootstrap: run, not invite
          KeyOf,      \* the key of a controller's service
          MaxPolls,   \* bound: polls of the bootstrap status until the deadline
          MaxDrops    \* bound: connections that break

Key == {KeyOf[c] : c \in Client}

ASSUME ControlPortAssumption ==
  /\ Detaching \subseteq Client /\ Polling \subseteq Client
  /\ MaxPolls \in Nat /\ MaxDrops \in Nat

VARIABLES
  step,      \* where a controller is in its life
  waiting,   \* it waits for lines of a reply
  sent,      \* commands it sent, the number of the last one
  polls,     \* polls it made
  ready100,  \* a line of the present reply said that the relay is ready
  conn,      \* conn->base_.state, and whether it is marked or gone
  inbuf,     \* commands on their way
  outbuf,    \* reply lines on their way
  services,  \* hs_service_map
  detached,  \* detached_onion_services
  own,       \* conn->ephemeral_onion_services
  removed,   \* history: detached services that were deleted by a controller not p4.py
  authNeeded,  \* the relay is configured with a password or cookie
  ready,     \* the relay has bootstrapped
  exited,    \* the relay has exited
  drops

clientVars == <<step, waiting, sent, polls, ready100>>
wireVars == <<inbuf, outbuf>>
serviceVars == <<services, detached, own, removed>>
vars == <<clientVars, wireVars, serviceVars, conn, authNeeded, exited, ready, drops>>

Step == {"auth", "auth_again", "add", "boot", "up", "del", "closed", "failed"}
Command == [auth |-> "AUTHENTICATE", auth_again |-> "AUTHENTICATE", add |-> "ADD_ONION",
            boot |-> "GETINFO", del |-> "DEL_ONION"]

\* A node authenticates first; another controller may try without.
Init ==
  /\ step \in {f \in [Client -> {"auth", "add"}] : \A c \in Detaching : f[c] = "auth"}
  /\ waiting = [c \in Client |-> FALSE]
  /\ sent = [c \in Client |-> 0]
  /\ polls = [c \in Client |-> 0]
  /\ ready100 = [c \in Client |-> FALSE]
  /\ conn = [c \in Client |-> "needauth"]
  /\ inbuf = [c \in Client |-> <<>>]
  /\ outbuf = [c \in Client |-> <<>>]
  /\ services = {}
  /\ detached = {}
  /\ own = [c \in Client |-> {}]
  /\ removed = {}
  /\ authNeeded \in BOOLEAN
  /\ exited = FALSE
  /\ ready = FALSE
  /\ drops = 0

-----------------------------------------------------------------------------
(* The node: _onionrelay_control_command and its callers.                  *)

\* The command is written.
Send(c) ==
  /\ ~waiting[c]
  /\ step[c] \in DOMAIN Command
  /\ step[c] = "boot" => polls[c] < MaxPolls
  /\ waiting' = [waiting EXCEPT ![c] = TRUE]
  /\ sent' = [sent EXCEPT ![c] = @ + 1]
  /\ polls' = [polls EXCEPT ![c] = IF step[c] = "boot" THEN @ + 1 ELSE @]
  /\ ready100' = [ready100 EXCEPT ![c] = FALSE]
  /\ inbuf' = IF conn[c] = "gone" THEN inbuf
              ELSE [inbuf EXCEPT ![c] = Append(@, [n |-> sent[c] + 1, name |-> Command[step[c]]])]
  /\ UNCHANGED <<step, conn, outbuf, serviceVars, authNeeded, exited, ready, drops>>

\* Where an exception of a command leads: a second AUTHENTICATE, another poll,
\* nothing at all for DEL_ONION, and otherwise the end of the start.
OnError(s) ==
  CASE s = "auth" -> "auth_again"
    [] s = "boot" -> "boot"
    [] s = "del" -> "closed"
    [] OTHER -> "failed"

\* Where the reply leads: invite takes the service for published at once.
OnReply(c, s, isReady) ==
  CASE s \in {"auth", "auth_again"} -> "add"
    [] s = "add" -> IF c \in Polling THEN "boot" ELSE "up"
    [] s = "boot" -> IF isReady THEN "up" ELSE "boot"
    [] s = "del" -> "closed"

\* A line arrives; one with an error code raises at once.
ReadLine(c) ==
  /\ waiting[c]
  /\ outbuf[c] # <<>>
  /\ LET line == Head(outbuf[c])
         isReady == ready100[c] \/ line.ready
     IN  /\ outbuf' = [outbuf EXCEPT ![c] = Tail(@)]
         /\ ready100' = [ready100 EXCEPT ![c] = isReady]
         /\ waiting' = [waiting EXCEPT ![c] = ~(line.err \/ line.last)]
         /\ step' = [step EXCEPT ![c] = IF line.err THEN OnError(@)
                                        ELSE IF line.last THEN OnReply(c, @, isReady) ELSE @]
  /\ UNCHANGED <<sent, polls, conn, inbuf, serviceVars, authNeeded, exited, ready, drops>>

\* The connection has ended.
ReadEof(c) ==
  /\ waiting[c]
  /\ outbuf[c] = <<>>
  /\ conn[c] = "gone"
  /\ waiting' = [waiting EXCEPT ![c] = FALSE]
  /\ step' = [step EXCEPT ![c] = OnError(@)]
  /\ UNCHANGED <<sent, polls, ready100, conn, wireVars, serviceVars, authNeeded, exited, ready, drops>>

\* Mutant: the deadline is only looked at after an exception.
MutDeadline(c) ==
  /\ ~waiting[c]
  /\ step[c] = "boot"
  /\ polls[c] = MaxPolls
  /\ conn[c] = "gone"
  /\ step' = [step EXCEPT ![c] = "failed"]
  /\ UNCHANGED <<waiting, sent, polls, ready100, conn, wireVars, serviceVars, authNeeded, exited, ready, drops>>

\* _wait_for_onionrelay_bootstrap gives up after its deadline, or when it
\* finds that the relay has exited.
Deadline(c) ==
  /\ ~waiting[c]
  /\ step[c] = "boot"
  /\ polls[c] = MaxPolls \/ exited
  /\ step' = [step EXCEPT ![c] = "failed"]
  /\ UNCHANGED <<waiting, sent, polls, ready100, conn, wireVars, serviceVars, authNeeded, exited, ready, drops>>

\* shutdown, which invite comes to at once.
Shutdown(c) ==
  /\ step[c] = "up"
  /\ step' = [step EXCEPT ![c] = "del"]
  /\ UNCHANGED <<waiting, sent, polls, ready100, conn, wireVars, serviceVars, authNeeded, exited, ready, drops>>

-----------------------------------------------------------------------------
(* The relay.                                                              *)

Lines(n, oks) == [i \in 1..Len(oks) |-> [n |-> n, err |-> FALSE, last |-> i = Len(oks), ready |-> oks[i]]]
Error(n) == <<[n |-> n, err |-> TRUE, last |-> TRUE, ready |-> FALSE]>>
Write(c, lines) == outbuf' = [outbuf EXCEPT ![c] = @ \o lines]

\* The next command of a connection that is not closing.
Take(c, name) ==
  /\ conn[c] \in {"needauth", "open"}
  /\ inbuf[c] # <<>>
  /\ Head(inbuf[c]).name = name
  /\ inbuf' = [inbuf EXCEPT ![c] = Tail(@)]

Number(c) == Head(inbuf[c]).n

\* handle_control_authenticate, with the empty password that p4.py sends.
Authenticate(c) ==
  /\ Take(c, "AUTHENTICATE")
  /\ Write(c, IF authNeeded THEN Error(Number(c)) ELSE Lines(Number(c), <<FALSE>>))
  /\ conn' = [conn EXCEPT ![c] = IF authNeeded THEN "marked" ELSE "open"]
  /\ UNCHANGED <<clientVars, serviceVars, authNeeded, exited, ready, drops>>

\* connection_control_process_inbuf refuses commands before authentication.
Refuse(c) ==
  /\ conn[c] = "needauth"
  /\ \E name \in {"ADD_ONION", "GETINFO", "DEL_ONION"} : Take(c, name)
  /\ Write(c, Error(Number(c)))
  /\ conn' = [conn EXCEPT ![c] = "marked"]
  /\ UNCHANGED <<clientVars, serviceVars, authNeeded, exited, ready, drops>>

\* Mutant: a service whose key is there already is added once more.
MutCollides(k) == FALSE

\* register_service.
Collides(k) == k \in services

\* handle_control_add_onion: ServiceID, PrivateKey when the key was generated,
\* and OK; or an error, for an argument or a key that does not parse, for a
\* failure of hs_service_add_ephemeral, and always for a key that collides.
AddOnion(c) ==
  /\ conn[c] = "open"
  /\ Take(c, "ADD_ONION")
  /\ \/ Write(c, Error(Number(c))) /\ UNCHANGED serviceVars
     \/ /\ ~Collides(KeyOf[c])
        /\ \E new \in BOOLEAN :
             Write(c, Lines(Number(c), IF new THEN <<FALSE, FALSE, FALSE>> ELSE <<FALSE, FALSE>>))
        /\ services' = services \cup {KeyOf[c]}
        /\ detached' = IF c \in Detaching THEN detached \cup {KeyOf[c]} ELSE detached
        /\ own' = IF c \in Detaching THEN own ELSE [own EXCEPT ![c] = @ \cup {KeyOf[c]}]
        /\ UNCHANGED removed
  /\ UNCHANGED <<clientVars, conn, authNeeded, exited, ready, drops>>

\* Mutant: an error of one key does not end the reply.
MutGetinfo(c) ==
  /\ conn[c] = "open"
  /\ Take(c, "GETINFO")
  /\ Write(c, IF ready THEN Lines(Number(c), <<TRUE, FALSE>>)
              ELSE Error(Number(c)) \o Lines(Number(c), <<FALSE>>))
  /\ UNCHANGED <<clientVars, serviceVars, conn, authNeeded, exited, ready, drops>>

\* handle_control_getinfo for status/bootstrap-phase: the value and OK, or an
\* error.
Getinfo(c) ==
  /\ conn[c] = "open"
  /\ Take(c, "GETINFO")
  /\ \/ Write(c, Lines(Number(c), <<ready, FALSE>>))
     \/ Write(c, Error(Number(c)))
  /\ UNCHANGED <<clientVars, serviceVars, conn, authNeeded, exited, ready, drops>>

\* The service that DEL_ONION names: p4.py knows its own only.
Named(c) == IF c \in Detaching THEN {KeyOf[c]} ELSE Key

\* handle_control_del_onion: the connection's own services and all detached
\* ones, whoever added them, may be removed.
DelOnion(c) ==
  /\ conn[c] = "open"
  /\ Take(c, "DEL_ONION")
  /\ \E k \in Named(c) :
       IF k \in own[c] \cup detached
       THEN /\ Write(c, Lines(Number(c), <<FALSE>>))
            /\ services' = services \ {k}
            /\ own' = [own EXCEPT ![c] = @ \ {k}]
            /\ detached' = IF k \in own[c] THEN detached ELSE detached \ {k}
            /\ removed' = IF c \in Detaching \/ k \in own[c] THEN removed ELSE removed \cup {k}
       ELSE Write(c, Error(Number(c))) /\ UNCHANGED serviceVars
  /\ UNCHANGED <<clientVars, conn, authNeeded, exited, ready, drops>>

\* The connection is closed: connection_control_closed removes the services
\* that were not detached.  What was written may still arrive.
CloseConn(c) ==
  /\ conn' = [conn EXCEPT ![c] = "gone"]
  /\ services' = services \ own[c]
  /\ own' = [own EXCEPT ![c] = {}]
  /\ inbuf' = [inbuf EXCEPT ![c] = <<>>]
  /\ \E i \in 0..Len(outbuf[c]) : outbuf' = [outbuf EXCEPT ![c] = SubSeq(@, 1, i)]
  /\ UNCHANGED <<detached, removed>>

\* conn_close_if_marked.
CloseMarked(c) ==
  /\ conn[c] = "marked"
  /\ CloseConn(c)
  /\ UNCHANGED <<clientVars, authNeeded, exited, ready, drops>>

\* The connection breaks, or the node is done with it.
Drop(c) ==
  /\ conn[c] # "gone"
  /\ \/ drops < MaxDrops /\ drops' = drops + 1
     \/ step[c] \in {"closed", "failed"} /\ UNCHANGED drops
  /\ CloseConn(c)
  /\ UNCHANGED <<clientVars, authNeeded, exited, ready>>

\* The relay exits: connections and services end with it.
RelayExits ==
  /\ ~exited
  /\ exited' = TRUE
  /\ conn' = [c \in Client |-> "gone"]
  /\ inbuf' = [c \in Client |-> <<>>]
  /\ services' = {}
  /\ detached' = {}
  /\ own' = [c \in Client |-> {}]
  /\ UNCHANGED <<clientVars, removed, outbuf, authNeeded, ready, drops>>

\* Bootstrapping is done; module Bootstrap shows that it stays done.
Bootstrapped ==
  /\ ~ready /\ ~exited
  /\ ready' = TRUE
  /\ UNCHANGED <<clientVars, wireVars, serviceVars, conn, authNeeded, exited, drops>>

ClientStep(c) == Send(c) \/ ReadLine(c) \/ ReadEof(c) \/ Deadline(c)
RelayStep(c) ==
  \/ Authenticate(c) \/ Refuse(c) \/ AddOnion(c) \/ Getinfo(c) \/ DelOnion(c)
  \/ CloseMarked(c)

Next ==
  \/ \E c \in Client : ClientStep(c) \/ Shutdown(c) \/ RelayStep(c) \/ Drop(c)
  \/ Bootstrapped \/ RelayExits

Spec == Init /\ [][Next]_vars

\* The node and the relay go on; nobody has to shut down, connections need not
\* break and the relay may never be ready.
FairSpec == Spec /\ \A c \in Client : WF_vars(ClientStep(c)) /\ WF_vars(RelayStep(c))

-----------------------------------------------------------------------------
\* Types of the variables.
TypeOK ==
  /\ step \in [Client -> Step]
  /\ waiting \in [Client -> BOOLEAN]
  /\ sent \in [Client -> Nat]
  /\ polls \in [Client -> 0..MaxPolls]
  /\ ready100 \in [Client -> BOOLEAN]
  /\ conn \in [Client -> {"needauth", "open", "marked", "gone"}]
  /\ inbuf \in [Client -> Seq([n : Nat, name : {Command[s] : s \in DOMAIN Command}])]
  /\ outbuf \in [Client -> Seq([n : Nat, err : BOOLEAN, last : BOOLEAN, ready : BOOLEAN])]
  /\ services \subseteq Key /\ detached \subseteq Key
  /\ own \in [Client -> SUBSET Key]
  /\ removed \subseteq Key
  /\ authNeeded \in BOOLEAN
  /\ exited \in BOOLEAN
  /\ ready \in BOOLEAN
  /\ drops \in 0..MaxDrops

\* Whatever exceptions were swallowed, a node never reads a line of an earlier
\* reply as the answer to the present command.
InStep ==
  \A c \in Client :
    /\ \A i \in DOMAIN outbuf[c] : outbuf[c][i].n = sent[c] /\ waiting[c]
    /\ \A i \in DOMAIN inbuf[c] : inbuf[c][i].n = sent[c] /\ waiting[c]

\* The services of the relay are those on the lists that DEL_ONION and closing
\* connections go by, each on one of them ("This should *NEVER* fail").
ListedOnce ==
  /\ services = detached \cup UNION {own[c] : c \in Client}
  /\ \A c \in Client : own[c] \cap detached = {}
  /\ \A c, d \in Client : c # d => own[c] \cap own[d] = {}

\* A node that is up is served as long as the relay runs, also after its
\* connection broke: neither another node or invite, be it with the same key, nor
\* a connection that ends takes its service away.  Only a controller that names
\* the service of somebody else in DEL_ONION does; the relay lets it.
UpIsServed ==
  \A c \in Detaching :
    step[c] = "up" /\ ~exited /\ KeyOf[c] \notin removed => KeyOf[c] \in services

\* A node that waited for the relay to be ready was not too early.
UpIsReady == \A c \in Polling : step[c] \in {"up", "del", "closed"} => ready

\* Starting a node ends, with success or without.
StartEnds == \A c \in Client : step[c] = "auth" ~> step[c] \in {"up", "failed"}
=============================================================================
