------------------------------ MODULE PortTrio ------------------------------
(***************************************************************************)
(* The local ports of nodes in onion mode on one machine: the search of    *)
(* pick_onion_port_trio (p4.py), the relay that binds its two ports and    *)
(* then locks its data directory, the node that waits for those ports,     *)
(* talks to whatever listens on the control port, and binds the signalling *)
(* port last, after the bootstrap.                                         *)
(*                                                                         *)
(* Trio b is the ports b (signal), b + 1 (socks), b + 2 (control); trios   *)
(* overlap.  Every node is one process of "run" or "invite"; nodes of one  *)
(* state directory have the same seed.  Another program takes and leaves   *)
(* ports at will.                                                          *)
(***************************************************************************)
EXTENDS Naturals

CONSTANTS Node, None, Other,
          Dir,       \* the state directory of each node
          Bases,     \* number of trios that the search tries (30000)
          Seed,      \* where the search starts, for each directory
          Win32,     \* the operating system's meaning of SO_REUSEADDR
          Elsewhere  \* ports that the other program may use

Trio == 0..(Bases - 1)
Port == 0..(Bases + 1)
TrioPorts(b) == {b, b + 1, b + 2}

\* Who may listen on a port, besides another program.
Server(n) == <<"server", n>>
Socks(n) == <<"socks", n>>
Control(n) == <<"control", n>>
Relay(n) == {Socks(n), Control(n)}
Listener == UNION {Relay(n) \cup {Server(n)} : n \in Node}
Owner == {None, Other} \cup Listener

ASSUME PortAssumption ==
  /\ Bases \in Nat \ {0}
  /\ \A n \in Node : Seed[Dir[n]] \in Nat
  /\ Elsewhere \subseteq Port
  /\ None \notin Node /\ None \notin Trio
  /\ None # Other /\ None \notin Listener /\ Other \notin Listener

VARIABLES
  serial,  \* nodes are started one after the other and stay, and no other
           \* program takes ports; otherwise all of this races
  at,      \* where a node is
  tried,   \* trios that its search has given up
  probe,   \* the port of the trio that it probes next
  trio,    \* what it picked
  relay,   \* its relay process: none, spawned, half (one port bound),
           \* bound, up, exited
  owner,   \* who listens on a port: a server, a relay for one of its uses
  talks    \* whose relay a node has its control connection with

nodeVars == <<at, tried, probe, trio>>
portVars == <<serial, nodeVars, relay, owner, talks>>

Starting == {"probe", "wait", "control", "listen"}

(***************************************************************************)
(* Types of the variables; a port is listened on only by a server that is  *)
(* up and a relay that runs.                                               *)
(***************************************************************************)
PortTypeOK ==
  /\ serial \in BOOLEAN
  /\ at \in [Node -> {"idle", "up", "ended"} \cup Starting]
  /\ tried \in [Node -> 0..Bases]
  /\ probe \in [Node -> 0..2]
  /\ trio \in [Node -> Trio \cup {None}]
  /\ relay \in [Node -> {"none", "spawned", "half", "bound", "up", "exited"}]
  /\ owner \in [Port -> Owner]
  /\ talks \in [Node -> Node \cup {None}]
  /\ \A n \in Node : /\ (\E p \in Port : owner[p] = Server(n)) => at[n] = "up"
                     /\ (\E p \in Port : owner[p] \in Relay(n)) => relay[n] \in {"half", "bound", "up"}

PortInit ==
  /\ serial \in BOOLEAN
  /\ at = [n \in Node |-> "idle"]
  /\ tried = [n \in Node |-> 0]
  /\ probe = [n \in Node |-> 0]
  /\ trio = [n \in Node |-> None]
  /\ relay = [n \in Node |-> "none"]
  /\ owner = [p \in Port |-> None]
  /\ talks = [n \in Node |-> None]

-----------------------------------------------------------------------------
(* The search.                                                             *)

\* No start is under way and every relay has come up or exited.
Quiet == \A m \in Node : at[m] \notin Starting /\ relay[m] \notin {"spawned", "half", "bound"}

Begin(n) ==
  /\ at[n] = "idle"
  /\ serial => Quiet
  /\ at' = [at EXCEPT ![n] = "probe"]
  /\ UNCHANGED <<serial, tried, probe, trio, relay, owner, talks>>

\* is_local_port_free: a bind with SO_REUSEADDR.  On Windows it succeeds on
\* a port that somebody listens on, unless the listener asked for exclusive
\* use, as the relay does (make_win32_socket_exclusive).
is_local_port_free(p) ==
  \/ owner[p] = None
  \/ Win32 /\ owner[p] \in {Other} \cup {Server(n) : n \in Node}

\* Mutant: trios that overlap are skipped.
MutCandidate(n) == (Seed[Dir[n]] + 3 * tried[n]) % Bases

\* The trio that node n looks at.
Candidate(n) == (Seed[Dir[n]] + tried[n]) % Bases

\* Mutant: only the signalling port is probed.
MutLastProbe == 0

\* The three ports of a trio are probed in turn.
LastProbe == 2

\* One port is probed.  After the third free one the trio is picked and the
\* relay process started; after a busy one the next trio is looked at, and
\* after all of them the search fails.
Probe(n) ==
  LET free == is_local_port_free(Candidate(n) + probe[n])
      picked == free /\ probe[n] = LastProbe
      last == ~free /\ tried[n] + 1 = Bases
  IN /\ at[n] = "probe"
     /\ probe' = [probe EXCEPT ![n] = IF free /\ ~picked THEN @ + 1 ELSE 0]
     /\ tried' = [tried EXCEPT ![n] = IF free THEN @ ELSE @ + 1]
     /\ trio' = IF picked THEN [trio EXCEPT ![n] = Candidate(n)] ELSE trio
     /\ relay' = IF picked THEN [relay EXCEPT ![n] = "spawned"] ELSE relay
     /\ at' = [at EXCEPT ![n] = IF picked THEN "wait" ELSE IF last THEN "ended" ELSE @]
     /\ UNCHANGED <<serial, owner, talks>>

-----------------------------------------------------------------------------
(* The relay.                                                              *)

Frees(xs) == owner' = [p \in Port |-> IF owner[p] \in xs THEN None ELSE owner[p]]

\* The listeners are opened one after the other, before the data directory is
\* locked.
RelayBindsSocks(n) ==
  /\ relay[n] = "spawned"
  /\ IF owner[trio[n] + 1] = None
       THEN /\ relay' = [relay EXCEPT ![n] = "half"]
            /\ owner' = [owner EXCEPT ![trio[n] + 1] = Socks(n)]
       ELSE relay' = [relay EXCEPT ![n] = "exited"] /\ UNCHANGED owner
  /\ UNCHANGED <<serial, nodeVars, talks>>

\* When the second cannot be, the first is rolled back and the relay exits.
RelayBindsControl(n) ==
  /\ relay[n] = "half"
  /\ IF owner[trio[n] + 2] = None
       THEN /\ relay' = [relay EXCEPT ![n] = "bound"]
            /\ owner' = [owner EXCEPT ![trio[n] + 2] = Control(n)]
       ELSE relay' = [relay EXCEPT ![n] = "exited"] /\ Frees(Relay(n))
  /\ UNCHANGED <<serial, nodeVars, talks>>

RelayBinds(n) == RelayBindsSocks(n) \/ RelayBindsControl(n)

Locked(d) == \E m \in Node : Dir[m] = d /\ relay[m] = "up"

\* try_locking: with the directory locked by another relay it listens on
\* for five seconds, and exits unless that one went away.
RelayLocks(n) ==
  /\ relay[n] = "bound"
  /\ \/ ~Locked(Dir[n]) /\ relay' = [relay EXCEPT ![n] = "up"] /\ UNCHANGED owner
     \/ Locked(Dir[n]) /\ relay' = [relay EXCEPT ![n] = "exited"] /\ Frees(Relay(n))
  /\ UNCHANGED <<serial, nodeVars, talks>>

\* Somebody ends the relay of a node that left it behind.
OrphanEnds(n) ==
  /\ at[n] = "ended"
  /\ relay[n] \in {"bound", "up"}
  /\ serial => Quiet
  /\ relay' = [relay EXCEPT ![n] = "exited"]
  /\ Frees(Relay(n))
  /\ UNCHANGED <<serial, nodeVars, talks>>

-----------------------------------------------------------------------------
(* The node.                                                               *)

\* _wait_for_local_port has connected to both ports: somebody listens there.
PortsOpen(n) == \A p \in {trio[n] + 1, trio[n] + 2} : owner[p] # None

\* The wait looks whether the own relay has exited, but only before each
\* attempt to connect: an exit around the last one is not noticed.
Connect(n) ==
  /\ at[n] = "wait"
  /\ PortsOpen(n)
  /\ at' = [at EXCEPT ![n] = "control"]
  /\ UNCHANGED <<serial, tried, probe, trio, relay, owner, talks>>

\* AUTHENTICATE, ADD_ONION and the bootstrap succeed: with any relay whose
\* control port this is.  A socks port or a server answers otherwise.
Authenticated(n) ==
  /\ at[n] = "control"
  /\ \E m \in Node : /\ owner[trio[n] + 2] = Control(m)
                     /\ relay[m] = "up"
                     /\ talks' = [talks EXCEPT ![n] = m]
  /\ at' = [at EXCEPT ![n] = "listen"]
  /\ UNCHANGED <<serial, tried, probe, trio, relay, owner>>

\* Mutant: the server shares its port.
MutListen(n) ==
  /\ at[n] = "listen"
  /\ owner' = [owner EXCEPT ![trio[n]] = Server(n)]
  /\ at' = [at EXCEPT ![n] = "up"]
  /\ UNCHANGED <<serial, tried, probe, trio, relay, talks>>

\* The signalling server.
Listen(n) ==
  /\ at[n] = "listen"
  /\ owner[trio[n]] = None
  /\ owner' = [owner EXCEPT ![trio[n]] = Server(n)]
  /\ at' = [at EXCEPT ![n] = "up"]
  /\ UNCHANGED <<serial, tried, probe, trio, relay, talks>>

\* A step of the start raises (exit of the relay noticed, timeout, a reply
\* other than 250, port taken): run ends, and leaves the relay as it is.  By
\* then the relay has bound its ports or exited.
StartFails(n) ==
  /\ at[n] \in Starting \ {"probe"}
  /\ relay[n] \notin {"spawned", "half"}
  /\ at[n] = "listen" => owner[trio[n]] # None
  /\ at' = [at EXCEPT ![n] = "ended"]
  /\ UNCHANGED <<serial, tried, probe, trio, relay, owner, talks>>

\* shutdown: the server and the node's own relay end.
Stop(n) ==
  /\ ~serial
  /\ at[n] = "up"
  /\ at' = [at EXCEPT ![n] = "ended"]
  /\ relay' = [relay EXCEPT ![n] = "exited"]
  /\ Frees(Relay(n) \cup {Server(n)})
  /\ UNCHANGED <<serial, tried, probe, trio, talks>>

\* The process is killed; its relay goes on.
Kill(n) ==
  /\ ~serial
  /\ at[n] \in Starting \cup {"up"}
  /\ at' = [at EXCEPT ![n] = "ended"]
  /\ Frees({Server(n)})
  /\ UNCHANGED <<serial, tried, probe, trio, relay, talks>>

\* Another program.
OtherBinds(p) ==
  /\ ~serial /\ p \in Elsewhere
  /\ owner[p] = None
  /\ owner' = [owner EXCEPT ![p] = Other]
  /\ UNCHANGED <<serial, nodeVars, relay, talks>>

OtherLeaves(p) ==
  /\ owner[p] = Other
  /\ owner' = [owner EXCEPT ![p] = None]
  /\ UNCHANGED <<serial, nodeVars, relay, talks>>

PortNext ==
  \/ \E n \in Node : \/ Begin(n) \/ Probe(n)
                     \/ RelayBinds(n) \/ RelayLocks(n) \/ OrphanEnds(n)
                     \/ Connect(n) \/ Authenticated(n) \/ Listen(n) \/ StartFails(n)
                     \/ Stop(n) \/ Kill(n)
  \/ \E p \in Port : OtherBinds(p) \/ OtherLeaves(p)

PortSpec == PortInit /\ [][PortNext]_portVars

-----------------------------------------------------------------------------
(* Properties.                                                             *)

\* A node that has just picked its ports.
Picked(n) == at[n] = "wait" /\ relay[n] = "spawned"

(***************************************************************************)
(* "Pick a stable, free local (signal, socks, control) port trio": nobody  *)
(* listens on any of the three when the relay is started, if nothing races *)
(* the search.                                                             *)
(***************************************************************************)
PickedIsFree ==
  serial => \A n \in Node : Picked(n) => \A p \in TrioPorts(trio[n]) : owner[p] = None

(***************************************************************************)
(* The same words, "stable": the pick depends on nothing but the directory *)
(* and the ports in use; it is the first free trio from the seed on.       *)
(***************************************************************************)
PickedIsFirst ==
  serial => \A n \in Node : Picked(n) =>
    \A k \in 0..(Bases - 1) :
      LET b == (Seed[Dir[n]] + k) % Bases
      IN (\A p \in TrioPorts(b) : owner[p] = None)
           => \E j \in 0..k : trio[n] = (Seed[Dir[n]] + j) % Bases

(***************************************************************************)
(* A node hands its onion key to, and waits for, the relay that it started *)
(* itself, although it never checks who listens on its control port.  With *)
(* starts that race this does not hold.                                    *)
(***************************************************************************)
OwnRelay == serial => \A n \in Node : talks[n] \in {n, None}

(***************************************************************************)
(* However starts race, no two nodes that are up share a relay: a node on  *)
(* another's relay has the other's trio, and of the two only one gets the  *)
(* signalling port.                                                        *)
(***************************************************************************)
NotShared ==
  \A n, m \in Node : n # m /\ at[n] = "up" /\ at[m] = "up" => talks[n] # talks[m]
=============================================================================
