------------------------------ MODULE NodeLife ------------------------------
(***************************************************************************)
(* The life of one P4Node (p4.py): run, stop, shutdown and the stdin loop, *)
(* with the tasks that work on the sessions meanwhile: maintainers, offer  *)
(* handlers, /drop, callbacks.  "invite" uses the same object and the same *)
(* shutdown (ensure_onion_identity_async) for its relay only.              *)
(*                                                                         *)
(* As in module Session a step is what the code does between two awaits    *)
(* that really suspend.  Of a session only session.pc and the lock are     *)
(* kept; the relay is a child process that may exit by itself, or hang so  *)
(* that it answers nothing any more, and that outlives the node unless the *)
(* node ends it.  Task.cancel() is one step, the CancelledError in the     *)
(* cancelled task another one.                                             *)
(***************************************************************************)
EXTENDS Naturals, FiniteSets

CONSTANTS Contact,    \* the peers there are invites of
          Smaller,    \* those whose peer id is larger: this node dials them
          Stored,     \* those that are in contacts.json at the start
          None,
          MaxOffers   \* bound: how many offers come in

ASSUME LifeAssumption ==
  /\ Smaller \subseteq Contact /\ Stored \subseteq Contact
  /\ None \notin Contact
  /\ MaxOffers \in Nat

VARIABLES
  waitsForConns, \* Server.wait_closed waits for the connections (Python
            \* 3.12), or not (before)
  cmd,      \* "onion" and "direct": run in that mode; "invite"
  at,       \* where the main task is
  stop,     \* self._stop
  stdin,    \* self._stdin_task; "busy": in drop_peer, "raised": by dc.send
  dropping, \* the contact whose lock drop_peer holds
  known,    \* the keys of self.sessions
  maint,    \* the maintainers
  gone,     \* maintainers that were told to cancel
  offer,    \* the handlers of incoming offers
  pc,       \* session.pc is not None
  todo,     \* sessions that shutdown has not come to yet
  server,   \* the signalling server listens
  relay,    \* self._onionrelay_proc
  sid,      \* self._onion_service_id is set; the control connection is open
  offers,   \* offers so far
  late,     \* history: contacts whose offer was taken up during shutdown
  cut       \* history: an interrupt has ended the main task

config == <<waitsForConns, cmd>>
taskVars == <<maint, gone, offer, pc>>
stdinVars == <<stop, stdin, dropping, known>>
vars == <<config, at, stdinVars, taskVars, todo, server, relay, sid, offers, late, cut>>

Ended == {"returned", "raised"}
\* The stages of shutdown, in the order of the code.
Stage == {"cancel", "stdin", "sessions", "conns", "del", "term"}

(***************************************************************************)
(* Types of the variables.                                                 *)
(***************************************************************************)
TypeOK ==
  /\ waitsForConns \in BOOLEAN
  /\ cmd \in {"onion", "direct", "invite"}
  /\ at \in {"start", "boot", "control", "listen", "up"} \cup Stage \cup Ended
  /\ stop \in BOOLEAN
  /\ stdin \in {"none", "read", "busy", "done", "raised", "cancelled"}
  /\ dropping \in IF stdin = "busy" THEN Contact ELSE {None}
  /\ known \subseteq Contact
  /\ maint \in [Contact -> {"none", "sleep", "closing", "dial"}]
  /\ gone \subseteq Contact
  /\ offer \in [Contact -> {"none", "wait", "closing", "gather"}]
  /\ pc \in [Contact -> BOOLEAN]
  /\ todo \subseteq Contact
  /\ server \in BOOLEAN
  /\ relay \in {"none", "up", "hung", "exited"}
  /\ sid \in BOOLEAN
  /\ offers \in 0..MaxOffers
  /\ late \subseteq Contact
  /\ cut \in BOOLEAN

Init ==
  /\ waitsForConns \in BOOLEAN
  /\ cmd \in {"onion", "direct", "invite"}
  /\ at = "start"
  /\ stop = FALSE
  /\ stdin = "none"
  /\ dropping = None
  /\ known = {}
  /\ maint = [c \in Contact |-> "none"]
  /\ gone = {}
  /\ offer = [c \in Contact |-> "none"]
  /\ pc = [c \in Contact |-> FALSE]
  /\ todo = {}
  /\ server = FALSE
  /\ relay = "none"
  /\ sid = FALSE
  /\ offers = 0
  /\ late = {}
  /\ cut = FALSE

Running == at \notin Ended
Alive == relay \in {"up", "hung"}

\* session.lock of c is free.
LockFree(c) ==
  /\ maint[c] \notin {"closing", "dial"}
  /\ offer[c] \notin {"closing", "gather"}
  /\ dropping # c

-----------------------------------------------------------------------------
(* run, up to the moment where it waits for _stop.                         *)

\* The contacts are loaded; in onion mode the relay process is created.
\* "invite" loads no contacts.
Start ==
  /\ at = "start"
  /\ known' = IF cmd = "invite" THEN {} ELSE Stored
  /\ relay' = IF cmd = "direct" THEN "none" ELSE "up"
  /\ at' = IF cmd = "direct" THEN "listen" ELSE "boot"
  /\ UNCHANGED <<config, stop, stdin, dropping, taskVars, todo, server, sid, offers, late, cut>>

\* Mutant: the invite has no finally either.
MutAfterFailure == "raised"

\* An exception during the start goes through run, which has no finally;
\* ensure_onion_identity_async has one and calls shutdown.
AfterFailure == IF cmd = "invite" THEN "cancel" ELSE "raised"

\* No relay binary: raised before there is a process.
StartFails ==
  /\ at = "start"
  /\ cmd # "direct"
  /\ at' = AfterFailure
  /\ UNCHANGED <<config, stdinVars, taskVars, todo, server, relay, sid, offers, late, cut>>

\* _wait_for_local_port, twice: the relay has exited, or not opened the ports in
\* time.
BootFails ==
  /\ at = "boot"
  /\ at' = AfterFailure
  /\ UNCHANGED <<config, stdinVars, taskVars, todo, server, relay, sid, offers, late, cut>>

PortsOpen ==
  /\ at = "boot"
  /\ Alive
  /\ at' = "control"
  /\ UNCHANGED <<config, stdinVars, taskVars, todo, server, relay, sid, offers, late, cut>>

\* The control connection, ADD_ONION or the bootstrap fail or time out.  None of
\* the replies is waited for with a timeout: a relay that hangs keeps the node
\* here.
ControlFails ==
  /\ at = "control"
  /\ relay # "hung"
  /\ at' = AfterFailure
  /\ UNCHANGED <<config, stdinVars, taskVars, todo, server, relay, sid, offers, late, cut>>

Booted ==
  /\ at = "control"
  /\ relay = "up"
  /\ sid' = TRUE
  /\ at' = IF cmd = "invite" THEN "cancel" ELSE "listen"
  /\ UNCHANGED <<config, stdinVars, taskVars, todo, server, relay, offers, late, cut>>

\* _start_signal_server, _start_maintainers, and the stdin loop unless
\* --no-stdin is given.
Listen ==
  /\ at = "listen"
  /\ at' = "up"
  /\ server' = TRUE
  /\ maint' = [c \in Contact |-> IF c \in known \cap Smaller THEN "sleep" ELSE "none"]
  /\ stdin' \in {"none", "read"}
  /\ UNCHANGED <<config, stop, dropping, known, gone, offer, pc, todo,
                 relay, sid, offers, late, cut>>

\* The signalling port is taken.
ListenFails ==
  /\ at = "listen"
  /\ at' = "raised"
  /\ UNCHANGED <<config, stdinVars, taskVars, todo, server, relay, sid, offers, late, cut>>

\* SIGINT or SIGTERM, where add_signal_handler is supported.
Signal ==
  /\ Running
  /\ cmd # "invite"
  /\ stop' = TRUE
  /\ UNCHANGED <<config, at, stdin, dropping, known, taskVars, todo, server, relay, sid, offers, late, cut>>

\* SIGINT where it is not, or in "invite": asyncio cancels the main task at its
\* await.  run has no finally; ensure_onion_identity_async goes on with
\* shutdown, which another interrupt ends.  shutdown suppresses the one that
\* comes while it awaits the stdin loop.
Interrupt ==
  /\ Running /\ at \notin {"cancel", "stdin"}
  /\ cmd = "invite" => at \in {"start", "boot", "control", "del", "term"}
  /\ \/ /\ cmd = "invite" /\ at \in {"start", "boot", "control"}
        /\ at' = "cancel"
        /\ UNCHANGED cut
     \/ /\ ~(cmd = "invite" /\ at \in {"start", "boot", "control"})
        /\ at' = "raised"
        /\ cut' = TRUE
  /\ UNCHANGED <<config, stdinVars, taskVars, todo, server, relay, sid, offers, late>>

\* The relay process ends by itself, ...
RelayExits ==
  /\ Alive
  /\ relay' = "exited"
  /\ UNCHANGED <<config, at, stdinVars, taskVars, todo, server, sid, offers, late, cut>>

\* ... or never answers again.
RelayHangs ==
  /\ relay = "up"
  /\ relay' = "hung"
  /\ UNCHANGED <<config, at, stdinVars, taskVars, todo, server, sid, offers, late, cut>>

-----------------------------------------------------------------------------
(* The stdin loop.                                                         *)

\* The loop was told to cancel by shutdown and handles no line any more.
StdinRuns == Running /\ at # "stdin"

\* A command was handled; the loop looks at _stop.
NextLine == stdin' = IF stop THEN "done" ELSE "read"

\* /quit, or the end of the input.
Quit ==
  /\ StdinRuns
  /\ stdin = "read"
  /\ stop' = TRUE
  /\ stdin' = "done"
  /\ UNCHANGED <<config, at, dropping, known, taskVars, todo, server, relay, sid, offers, late, cut>>

\* /add-file, /add-json or /add-invite with a peer that had no session.
Add(c) ==
  /\ StdinRuns
  /\ stdin = "read"
  /\ c \notin known
  /\ known' = known \cup {c}
  /\ maint' = IF c \in Smaller THEN [maint EXCEPT ![c] = "sleep"] ELSE maint
  /\ NextLine
  /\ UNCHANGED <<config, at, stop, dropping, gone, offer, pc, todo, server, relay, sid, offers, late, cut>>

\* /send on a channel that is not open: the exception ends the loop.
SendRaises ==
  /\ StdinRuns
  /\ stdin = "read"
  /\ known # {}
  /\ stdin' = "raised"
  /\ UNCHANGED <<config, at, stop, dropping, known, taskVars, todo, server, relay, sid, offers, late, cut>>

\* /drop takes the lock and closes the connection, if there is one.
Drop(c) ==
  /\ StdinRuns
  /\ stdin = "read"
  /\ c \in known /\ LockFree(c)
  /\ pc[c]
  /\ pc' = [pc EXCEPT ![c] = FALSE]
  /\ dropping' = c
  /\ stdin' = "busy"
  /\ UNCHANGED <<config, at, stop, known, maint, gone, offer, todo, server, relay, sid, offers, late, cut>>

Dropped ==
  /\ StdinRuns
  /\ stdin = "busy"
  /\ dropping' = None
  /\ NextLine
  /\ UNCHANGED <<config, at, stop, known, taskVars, todo, server, relay, sid, offers, late, cut>>

-----------------------------------------------------------------------------
(* The tasks on the sessions.                                              *)

\* A task has the lock of c and replaces the connection: with one to close
\* it waits first, otherwise it makes the new one at once.
Replace(c) == pc' = [pc EXCEPT ![c] = ~pc[c]]

\* A maintainer finds its session not connected.
Dial(c) ==
  /\ Running
  /\ maint[c] = "sleep" /\ c \notin gone /\ ~stop
  /\ LockFree(c)
  /\ maint' = [maint EXCEPT ![c] = IF pc[c] THEN "closing" ELSE "dial"]
  /\ Replace(c)
  /\ UNCHANGED <<config, at, stdinVars, gone, offer, todo, server, relay, sid, offers, late, cut>>

DialClosed(c) ==
  /\ Running
  /\ maint[c] = "closing" /\ c \notin gone
  /\ maint' = [maint EXCEPT ![c] = "dial"]
  /\ pc' = [pc EXCEPT ![c] = TRUE]
  /\ UNCHANGED <<config, at, stdinVars, gone, offer, todo, server, relay, sid, offers, late, cut>>

\* The answer is applied, or the dial failed; _stop is looked at after the
\* sleep.
DialEnds(c) ==
  /\ Running
  /\ c \notin gone
  /\ \/ maint[c] = "dial" /\ maint' = [maint EXCEPT ![c] = "sleep"]
     \/ maint[c] = "sleep" /\ stop /\ maint' = [maint EXCEPT ![c] = "none"]
  /\ UNCHANGED <<config, at, stdinVars, gone, offer, pc, todo, server, relay, sid, offers, late, cut>>

\* CancelledError in a maintainer: nothing catches it, the lock is released.
DialCancelled(c) ==
  /\ Running
  /\ c \in gone
  /\ gone' = gone \ {c}
  /\ maint' = [maint EXCEPT ![c] = "none"]
  /\ UNCHANGED <<config, at, stdinVars, offer, pc, todo, server, relay, sid, offers, late, cut>>

\* A connection with an offer of a known peer is accepted.
OfferIn(c) ==
  /\ Running
  /\ server /\ c \in known
  /\ offer[c] = "none" /\ offers < MaxOffers
  /\ offers' = offers + 1
  /\ offer' = [offer EXCEPT ![c] = "wait"]
  /\ UNCHANGED <<config, at, stdinVars, maint, gone, pc, todo, server, relay, sid, late, cut>>

\* A new connection is made while shutdown is under way.
NoteLate(c) == late' = IF at \in Stage THEN late \cup {c} ELSE late

\* _handle_offer has the lock.
OfferTake(c) ==
  /\ Running
  /\ offer[c] = "wait" /\ LockFree(c)
  /\ offer' = [offer EXCEPT ![c] = IF pc[c] THEN "closing" ELSE "gather"]
  /\ Replace(c)
  /\ IF pc[c] THEN UNCHANGED late ELSE NoteLate(c)
  /\ UNCHANGED <<config, at, stdinVars, maint, gone, todo, server, relay, sid, offers, cut>>

OfferClosed(c) ==
  /\ Running
  /\ offer[c] = "closing"
  /\ offer' = [offer EXCEPT ![c] = "gather"]
  /\ pc' = [pc EXCEPT ![c] = TRUE]
  /\ NoteLate(c)
  /\ UNCHANGED <<config, at, stdinVars, maint, gone, todo, server, relay, sid, offers, cut>>

\* Mutant: the line of a request is read without a timeout.
MutOfferEnds(c) ==
  /\ Running
  /\ offer[c] = "gather"
  /\ offer' = [offer EXCEPT ![c] = "none"]
  /\ UNCHANGED <<config, at, stdinVars, maint, gone, pc, todo, server, relay, sid, offers, late, cut>>

\* The request was refused or its line never came, or the answer is written
\* or the handling failed.
OfferEnds(c) ==
  /\ Running
  /\ offer[c] \in {"wait", "gather"}
  /\ offer' = [offer EXCEPT ![c] = "none"]
  /\ UNCHANGED <<config, at, stdinVars, maint, gone, pc, todo, server, relay, sid, offers, late, cut>>

\* on_connectionstatechange: the connection failed or the peer left.
PcLost(c) ==
  /\ Running
  /\ pc[c]
  /\ pc' = [pc EXCEPT ![c] = FALSE]
  /\ UNCHANGED <<config, at, stdinVars, maint, gone, offer, todo, server, relay, sid, offers, late, cut>>

-----------------------------------------------------------------------------
(* shutdown.                                                               *)

\* Mutant: the maintainers are forgotten, not cancelled.
MutCancel ==
  /\ at = "cancel" \/ (at = "up" /\ stop)
  /\ at' = "stdin"
  /\ UNCHANGED <<gone, config, stdinVars, maint, offer, pc, todo, server, relay, sid, offers, late, cut>>

\* The maintainers and the stdin loop are told to cancel.
Cancel ==
  /\ at = "cancel" \/ (at = "up" /\ stop)
  /\ at' = "stdin"
  /\ gone' = {c \in Contact : maint[c] # "none"}
  /\ UNCHANGED <<config, stdinVars, maint, offer, pc, todo, server, relay, sid, offers, late, cut>>

\* Mutant: the loop is cancelled after the sessions are closed.
MutJoinLater ==
  /\ at = "stdin"
  /\ at' = "sessions"
  /\ todo' = known
  /\ UNCHANGED <<stdin, dropping, config, stop, known, taskVars, server, relay, sid, offers, late, cut>>

\* The wait for the stdin loop: it ends by the cancellation or has ended.
\* Its own exception is raised again here, and ends shutdown.
JoinStdin ==
  /\ at = "stdin"
  /\ IF stdin = "raised" THEN at' = "raised" /\ UNCHANGED <<stdin, dropping, todo>>
     ELSE /\ at' = "sessions"
          /\ stdin' = IF stdin \in {"read", "busy"} THEN "cancelled" ELSE stdin
          /\ dropping' = None
          /\ todo' = known
  /\ UNCHANGED <<config, stop, known, taskVars, server, relay, sid, offers, late, cut>>

\* _close_session_pc of the next session; the lock is not taken.
CloseSession(c) ==
  /\ at = "sessions"
  /\ c \in todo
  /\ todo' = todo \ {c}
  /\ pc' = [pc EXCEPT ![c] = FALSE]
  /\ UNCHANGED <<config, at, stdinVars, maint, gone, offer, server, relay, sid, offers, late, cut>>

CloseServer ==
  /\ at = "sessions"
  /\ todo = {}
  /\ server' = FALSE
  /\ at' = "conns"
  /\ UNCHANGED <<config, stdinVars, taskVars, todo, relay, sid, offers, late, cut>>

\* terminate() for a relay that still runs.
EndRelay == IF Alive THEN "term" ELSE "returned"

\* wait_closed and the end of the log task; then DEL_ONION is sent, if there is
\* a service.
WaitClosed ==
  /\ at = "conns"
  /\ waitsForConns => \A c \in Contact : offer[c] = "none"
  /\ at' = IF sid THEN "del" ELSE EndRelay
  /\ UNCHANGED <<config, stdinVars, taskVars, todo, server, relay, sid, offers, late, cut>>

\* The reply to DEL_ONION, or the end of the connection, which is suppressed.
\* There is no timeout: a relay that hangs keeps shutdown here, before
\* terminate().  The control connection is closed.
DelOnion ==
  /\ at = "del"
  /\ relay # "hung"
  /\ sid' = FALSE
  /\ at' = EndRelay
  /\ UNCHANGED <<config, stdinVars, taskVars, todo, server, relay, offers, late, cut>>

\* The relay ends within 5 s, or is killed.
RelayEnds ==
  /\ at = "term"
  /\ at' = "returned"
  /\ relay' = "exited"
  /\ UNCHANGED <<config, stdinVars, taskVars, todo, server, sid, offers, late, cut>>

-----------------------------------------------------------------------------
Main == \/ Start \/ StartFails \/ BootFails \/ PortsOpen \/ ControlFails \/ Booted
        \/ Listen \/ ListenFails
        \/ Cancel \/ JoinStdin \/ CloseServer \/ WaitClosed \/ DelOnion \/ RelayEnds
        \/ \E c \in Contact : CloseSession(c)

Handlers(c) == OfferTake(c) \/ OfferClosed(c) \/ OfferEnds(c)

Next ==
  \/ Main \/ Signal \/ Interrupt \/ RelayExits \/ RelayHangs
  \/ Quit \/ SendRaises \/ Dropped
  \/ \E c \in Contact :
       \/ Add(c) \/ Drop(c) \/ PcLost(c)
       \/ Dial(c) \/ DialClosed(c) \/ DialEnds(c) \/ DialCancelled(c)
       \/ OfferIn(c) \/ Handlers(c)

Spec == Init /\ [][Next]_vars

\* asyncio runs the main task and every handler again and again, and each
\* await of theirs ends: it is bounded by a timeout or by a close.  The replies
\* of the relay are not: ControlFails, Booted and DelOnion are not enabled while
\* it hangs, and nothing says that it will not.
FairSpec ==
  /\ Spec
  /\ WF_vars(Main)
  /\ \A c \in Contact : WF_vars(OfferEnds(c)) /\ WF_vars(OfferClosed(c))
  /\ \A c \in Contact : WF_vars(DialCancelled(c))

-----------------------------------------------------------------------------
(* Properties.                                                             *)

Past(stages) == at \in stages \cup {"returned"}

(***************************************************************************)
(* When a node leaves its relay running, which holds the data directory,   *)
(* an interrupt has ended its main task, or it is a run that ended with an *)
(* exception: that of a start that failed, or that of a stdin loop that    *)
(* died in dc.send, raised again by shutdown.  Otherwise the relay is gone *)
(* when the node ends, also after an invite that failed or was interrupted *)
(* in its start, and with a relay that exits or hangs at any moment.       *)
(***************************************************************************)
RelayLeft ==
  ~Running /\ Alive => \/ cut
                       \/ /\ cmd = "onion" /\ at = "raised"
                          /\ stdin = "raised" \/ ~server

(***************************************************************************)
(* From the moment shutdown awaited the stdin loop no maintainer makes a   *)
(* connection: whatever they were doing, only offers taken up meanwhile    *)
(* can leave a session with a connection that shutdown has passed.         *)
(***************************************************************************)
OnlyLateOffersStay ==
  \A c \in Contact : Past({"sessions", "conns", "del", "term"}) /\ c \notin todo /\ pc[c]
                       => c \in late

(***************************************************************************)
(* self.sessions does not change while shutdown iterates over it, with an  *)
(* await in every turn (Python would raise, and leave the relay running).  *)
(***************************************************************************)
IteratesUnchanged == [][at = "sessions" => known' = known]_vars

(***************************************************************************)
(* A stop, by signal or by /quit, at any moment of a start or of a run     *)
(* ends the main task, unless the relay hangs: the replies to its commands *)
(* are waited for without a timeout (p4.py:517, 690-697).                  *)
(***************************************************************************)
StopEnds == stop ~> at \in Ended \/ relay = "hung"
=============================================================================
