# TLA+ models of P4

Models, model-checking runs and machine-checked proofs for P4, the
"persistent point-to-point protocol" of this repository: `p4.py`, the node and
its command line, `rust/p4-core`, the library with the identities, the signed
envelopes and a replay window, and the parts of the vendored relay
(`onionrelay_src`, a Tor) on which a node depends or whose concurrency is
hardest to test: its control port, its bootstrap status, its thread pool and
its cell scheduler.

- Modules are checked with TLC: `tlc -config MCSession.cfg MCSession`. Each
  `MC*.tla` extends a specification; each `.cfg` is one run. `MCx.cfg` is the
  run that `PROJECT.json` lists. `MCxAll.cfg`, where there is one, checks every
  invariant of the module, the type invariant and the supporting ones too, where
  possible on a larger instance; these pass as well.
- Modules named `*Proofs` are checked with TLAPS: `tlapm SessionProofs.tla`.
- `PROJECT.json` lists components, runs, the code lines every definition
  models, hazards, findings and theorems. Definitions named `Mut...` are wrong
  variants of the definition that follows them (a dropped guard, a missing
  reset). No specification uses one; each shows that some property notices the
  mistake.

## The system

Two peers exchange invites (peer id, public key, rendezvous address). The peer
with the smaller id is the *initiator* of the pair: it dials the other's
rendezvous (directly, or through the relay's SOCKS port to an onion service),
sends a signed offer, gets a signed answer, and the two build a WebRTC data
channel. When the channel dies, the initiator does it again.

| component | state | operations | interacts through |
|---|---|---|---|
| session (`P4Node`, `Session`) | `pc`, `dc`, `connected`, `current_session_id`, `lock` per contact | `_maintain_contact`, `_initiate_with_contact`, `_handle_offer`, `drop_peer`, aiortc callbacks | signalling requests, callbacks of aiortc, the lock |
| signed envelopes (`_build_message`, `_validate_message`; `sign_envelope`, `verify_envelope`) | contacts' keys, clock | sign, verify | every signalling message |
| replay window (`ReplayWindow`, twice) | queue and set of nonces per peer | `seen`, `seen_before` | called by `_validate_message` |
| onion address | `onion_service_id.txt`, `onion_v3_key_blob.txt`, the relay process | start, `ADD_ONION`, `invite`, shutdown | files shared by processes, control port |
| contacts and identity files | `contacts.json`, `identity_ed25519.json`, their temporary files | `init`, `add-contact`, `/add-*`, load | files shared by processes |
| node life cycle | main task, maintainers, server, stdin loop, relay process | `run`, `stop`, `shutdown`, commands | all of the above |
| port selection | who listens on which port | probe, start the relay, bind | the operating system, other nodes |
| relay control connection | byte streams, the command under way; in the relay the lists of services | authenticate, `ADD_ONION`, `GETINFO`, `DEL_ONION` | node and relay |
| relay: bootstrap status | percentage, phase, held back progress, last message | events, problems | polled through the control port |
| relay: thread pool | work queues, two locks, a condition, update arguments, replies | queue, cancel, update, reply, start, stop | main thread and workers |
| relay: cell scheduler | state of every channel, pending list, run event, socket table | the runs of KIST, KISTLite and Vanilla, reports from channels | main loop, sockets |
| SOCKS5 client | the byte stream | handshake | the relay |
| C ABI and bindings | last error, owned strings | the exported functions | threads of the host program |

What is hard here: one asyncio loop with a maintainer per contact, a task per
incoming connection and a task per callback, which all assign to the same
`Session` fields between awaits; peers that time out, retry, crash and restart
independently; state files shared by processes and written in several steps;
a bounded memory that has to serve for a bounded time; ports that are probed
now and bound minutes later. In the relay: threads that sleep on a condition
for work, updates and the order to leave; channels that are forgotten if one
report of room or of cells is missed, and a scheduling loop whose writes call
back into the scheduler and free what it is working on.

## Modules

### Session

One pair of nodes. An *attempt* is one run of `_initiate_with_contact` past its
early return; its model value stands for the session id (a fresh uuid) and for
the peer connection and data channel each side makes for it. The variables
`pc`, `dc`, `connected`, `sid` are the `Session` fields; `pcState`, `dcState`
and `stateCb` are aiortc's side: where a connection and its channel are in
their lives, and how many `on_connectionstatechange` tasks are scheduled but
have not run. `maintain`, `handler`, `closing`, `drop` say where the tasks are;
together they determine who holds `session.lock`. `replied` and `answer` are
the signalling request under way. `session.state` is only displayed and is left
out, as is what is written on the channel.

A step is what the code does between two awaits that really suspend. The
`Maintain*` actions, `SendOffer`, `DialFail`, `ReplyTimeout`, `ReplyError` and
`ApplyAnswer` are the initiator's loop; the `Offer*` actions are
`_handle_signal_conn` and `_handle_offer`; `Drop` is the `/drop` command;
`OnDatachannel`, `OnOpen`, `OnClose`, `OnStateChange` are the callbacks;
`PcFail`, `PcHangup`, `PcClosed` are aiortc (modelled from how `p4.py` uses
it); `Restart` is the end of a process and a new start. Lost connections,
rejections, restarts and drops count as faults, `MaxFaults` in all.

### NonceWindow, ReplayWindow

`NonceWindow` is the abstract promise: a nonce is refused exactly when it is
among the last `MaxSeen` accepted from that peer. `ReplayWindow` drives the
Python class (append, then at most one `pop(0)`) and the Rust struct (a loop
that pops) with the same calls; each is shown to implement `NonceWindow`.

### Signal

One node and the peers that write to it. Peers sign envelopes by their own
clocks, the network delivers what was sent late, repeatedly or never, or a
damaged copy; the node checks in the code's order, as request (`expected_to`)
or as reply (`expected_from`). A peer id is a hash of a public key, so a model
value stands for both, and a contact may be filed under a peer id that is not
the hash of its key, because nothing in `p4.py` compares them when an invite is
added. Cryptography is perfect. Contacts survive a `Restart`, the window does
not.

### OnionIdentity

One state directory, a set of `run` and a set of `invite` processes. Each
`write_text` is two steps (truncate, write), a process can be killed at any
step, and its relay then lives on and keeps the lock on the data directory
until somebody ends it. `published` are the addresses running nodes served,
`printed` those that `invite` printed (`Empty` stands for `.onion`); `killedAt`
remembers at which steps processes were killed.

### StateFiles

The two JSON files as `init`, `add-contact` and a running node use them.
`atomic_write_json` is three steps (open and truncate `<file>.tmp`, write,
rename); every process uses the same temporary name, and one that has the
temporary file open when another renames it goes on writing to the renamed
file. A process can be killed between any two steps. The initial state is a new
directory or one where `init` ran, with commands that run one at a time
(`exclusive`) or overlap as they like; two first commands that overlap in a new
directory are among them, and `raced` remembers that two of them were creating
the identity at a time.

### NodeLife

`run`, `stop`, `shutdown` and the stdin loop of one node, with the maintainers,
offer handlers and `/drop` that work on its sessions meanwhile; also `invite`,
which uses the same shutdown for its relay. Of a session only `session.pc` and
the lock are kept: what the sessions do is in Session. `Cancel`, `JoinStdin`,
`CloseSession`, `CloseServer`, `WaitClosed`, `DelOnion`, `RelayEnds` are the
awaits of `shutdown` in order. Both behaviours of `Server.wait_closed` (Python
3.12 and before) are possible. The relay may exit at any moment, or hang, so
that it answers no command any more: the waits for its ports have timeouts, the
reads of its replies have none. `Signal` is a handler that sets `_stop`,
`Interrupt` the cancellation of the main task where there is no such handler:
always in `invite`, whose `finally` goes on with `shutdown`, and in a `run` on
platforms without `add_signal_handler`.

### PortTrio

Nodes on one machine: the search of `pick_onion_port_trio`, port by port, the
relay that binds its listeners one by one
(`options_start_listener_transaction`) and then locks its data directory (`try_locking`), the node that waits until somebody
listens, talks to whoever that is, and binds its signalling port last. Trios
overlap; another program takes ports; nodes are stopped and killed. `serial`
says whether starts race.

### ControlPort

The node's `_onionrelay_control_command` with the callers that swallow its
exceptions, and the relay's side of the four commands it uses: authentication,
the map of services, the list of detached services and those of connections.
Reply lines carry the number of the command they answer, so that a line read
for the wrong command can be told. Nodes wait for the bootstrap (`Polling`), an
`invite` does not. Connections break, the relay exits, `ADD_ONION` may be
refused for any reason. Other controllers use the same relay; they may delete
any detached service, as `handle_control_del_onion` lets them, while `p4.py`
names only the service it was given (`Named`).

### Bootstrap

`control_bootstrap.c`: events in any order, directory progress that is held
back until a first connection, problems, the message that `GETINFO` returns.
The first status comes from `run_tor_main_loop`, or before it from
`or_state_load` when the state file is from the future, with a problem right
after it; a problem before any status aborts the relay (`stage`). ControlPort takes from it that "done" stays done.

### WorkQueue

`workqueue.c`: worker threads, `pool->lock`, `pool->control_lock`, the
condition, generations and arguments of updates, the reply queue and its alert
socket. What a thread does from taking the lock to giving it up is one step,
except where others can notice. Waits that end without a signal and a start
that times out count as faults; `early` remembers that one of them ended the
wait for the threads before all had started.

### Scheduler

`scheduler.c`, `scheduler_kist.c`, `scheduler_vanilla.c` and their callers in
`channel.c`, `channeltls.c`, `connection_or.c`, `connection.c`, `relay.c`,
`circuitmux.c`. Amounts are cells; priorities are left open. `size_t` keeps its
wrap-around (`SizeMax`). A run is one step per turn of its loop; a write inside
it reports room or closes the channel in the same step, as in the code.

## Runs

| run | shows | bounds |
|---|---|---|
| `session` | the two sessions own the connections they refer to, claim no link they do not have, agree on which link it is, and match answers with offers; after the last fault the link comes back for good | 3 attempts, 1 fault (2 in `MCSessionAll`) |
| `session_both_reconnect` | *violated*: the responder believes for good that it is not connected | 3 attempts, 1 fault |
| `replay_window` | both windows implement `NonceWindow` | 2 peers, 4 nonces, window 2, 4 acceptances per peer |
| `signal` | only what a peer signed is accepted, its first delivery in time always is, and none twice in a run when the window outlasts four times the skew | 1 peer, 3 envelopes, window 2, skew 1, time 0..5 (`MCSignalAll`: 2 peers, 2 envelopes, window 1, time 0..3) |
| `onion_identity` | one address for ever once it was served; invites name it unless a kill came between the writes of the two files, and name none only around a rewriting of the service id | 1 `run`, 2 `invite`, 3 keys, 2 kills |
| `state_files` | one command at a time: no damaged file, no lost contact; overlapping: the identity stays as it is unless two were creating it at a time, and what such a race damages is repaired by the one that still writes | 1 `init`, 1 `add-contact`, 1 node, 2 contacts, 2 kills; new and used directory, overlapping or not |
| `node_life` | in which ways only a relay is left running; only offers taken up meanwhile leave a connection; shutdown does not iterate over sessions that change; a stop ends the main task unless the relay hangs | 2 contacts, 2 offers |
| `port_trio` | two nodes that are up never share a relay; without races the pick is the first free trio and a node talks to its own relay | 3 nodes of 2 directories, 7 trios |
| `work_queue` | no item is lost or freed twice, no update argument is both run and freed, all work is replied to; a pool stopped when its threads are idle is freed, after them unless the wait for them ended early | 2 workers, 2 items, 2 priorities, 2 updates, 1 fault |
| `bootstrap` | the message is the percentage and contains what was held back; in `MCBootstrapAll` also: it never goes back, and no problem aborts the relay | a scale of 20, 10 statuses |
| `control_port` | a reply is never taken for that of another command; a node that is up is served unless another controller deleted its service; every start ends | a node and an `invite` with one key, another controller, 1 poll, 1 broken connection |
| `scheduler` | no open channel with cells is forgotten; listed channels have connections, and entries in the socket table; cells are served | 2 channels, 3 schedulers, 3 cells per channel (4 in `MCSchedulerAll`), water marks 1 and 2 |

Why the bounds are enough. *Session*: a third attempt is needed for an old
connection, its successor and one being closed to exist together; attempts
nothing refers to are used again, so behaviours are not cut short by them. A
second fault is a failure during the recovery from the first; the invariants
are proved for any number. *ReplayWindow*: with window 2 and 4 acceptances a
nonce can be evicted, come back and be evicted again, for two peers whose
nonces must not mix. *Signal*: there is room for one envelope, an older and a
newer one around it, spread over more than four times the skew; with three
times the skew in `Sparse`, `AtMostOnce` is violated on the same instance, so
the bound in it is tight. What needs a second peer is checked in `MCSignalAll`
and proved. *OnionIdentity*: every kill costs at most one key, so 3 keys are
never short with 2 kills, and two kills give a kill during the recovery.
*StateFiles*: all three processes may create the identity, two of them write
the contacts, one from its own copy: every overlap of two or three writes. *NodeLife*: one contact that the node dials and
one that dials it, with a second offer for either. *PortTrio*: two nodes with
the same seed and one with an overlapping trio; 7 trios have room for all
three. *WorkQueue*: two workers are enough for one to sleep or to leave while
the other is at work, a second update replaces arguments that one of them has
not taken. *Bootstrap*: statuses below, in and above the directory's, and
progress between two of them. *ControlPort*: a node and an `invite` compete for one
key, and the third controller owns a service that goes with its connection.
*Scheduler*: a second channel is listed while the first one is served; 3 cells
reach above the high water mark.

Symmetry is used for nonces, keys, `invite` and `add-contact` processes,
contacts and nodes of one directory, which the specifications only compare for
equality, and (in the `All` configurations) for attempts and channels; never
with a liveness property.

Fairness.

- *Session*: asyncio runs every ready task and timers expire: weak fairness for
  the loops and callbacks. `asyncio.Lock` is first come first served: strong
  fairness for handlers waiting for it. Of aiortc it is assumed that a close or
  a hang-up is eventually reported and that, if attempts keep being made, one
  channel opens before the next retry tears its attempt down. That is an
  assumption about the network, without which no retry loop connects.
- *NodeLife*: the main task goes on when what it awaits is there, offers end
  (every read in the handler has a timeout) and cancelled tasks get their
  exception. Replies of the relay come from a relay that does not hang; nothing
  is assumed of one that does.
- *ControlPort*: node and relay go on with what is in their buffers, and the
  node's deadline passes. The relay need not become ready.
- *WorkQueue*: threads are scheduled, functions return, the event loop runs the
  reply event. Nobody has to queue work or to stop the pool.
- *Scheduler*: the main loop serves every event that is ready before it polls
  again, so a run that is due happens (weak) and a socket that can be written
  to is, although runs come in between (strong). `CellsServed` is about
  channels that circuits keep filling, and excludes channels to which other
  cells (padding) are added for ever. KIST is left out of it: it depends on what the kernel
  reports of its sockets.

Faults are never fair.

### What does not hold

Found while modelling. The first is a listed run; the others that name a
configuration can be run with it, and the rest are the conditions that the
properties above carry.

1. *Session*, `BothReconnect` (`MCSessionBoth.cfg`):
   `on_connectionstatechange` (`p4.py:928-930`) clears `connected` and `dc`
   whichever connection the event is about; only `session.pc` is compared. A
   late event of the previous connection, after the new channel opened at the
   responder, leaves the responder not connected for good, since only the
   initiator dials.
2. *Session*, `ConnectedCanSend` (`MCSessionSend.cfg`): the same event between
   the wiring and the opening of the new channel leaves `connected` set and
   `dc` empty: `/send` answers "is not connected", and the maintainer sees
   nothing to repair.
3. *OnionIdentity*, `PersistentAddress` (`MCOnionIdentityAddress.cfg`): a kill
   between the truncation and the writing of the key file leaves a file that
   exists and is empty; `invite` prints the address in the service id file,
   whose key is gone, and the next start makes another one.
   `InvitesAgree` says that such a kill, between the writes of the service id
   and of the key, is the only way to this.
4. *OnionIdentity*, `InviteNamesService` (`MCOnionIdentityEmpty.cfg`): `invite`
   may find the service id file truncated by a node that starts, or was killed
   there, and prints the address `.onion`. The first takes no kill: every start
   of a node rewrites the file. `InvitesAgree` says that there is no other way.
5. *StateFiles*: `NeverDamaged` and `ContactsKept` need `exclusive`. Two
   `add-contact` at the same time: one renames the temporary file that the other
   has just truncated. `add-contact` beside a running node: whichever writes
   last drops what the other reported as added. Two first commands at the same
   time each create an identity (`p4.py:289`): the one that renames last
   replaces that of the other, which works on with a key that is not on disk,
   and the file may be unreadable until the slower one has written.
   `OneIdentity` and `IdentityKept` are therefore about directories where no two
   commands were creating the identity at a time (`~raced`).
6. *PortTrio*: `OwnRelay` and `PickedIsFirst` need `serial`. With racing starts
   a node whose relay could not bind may talk to another's relay (but does not
   get up beside it: `NotShared`). With `Win32 = TRUE` the probe, which sets
   `SO_REUSEADDR`, takes the signalling port of a running node for free
   (`connection.c:1402` warns of it).
7. *WorkQueue*: `StopReturns` needs that the stop finds no worker in a function.
   Such a worker takes the lock again in the inner loop, finds no work and
   waits without looking at `pool->exit` (`workqueue.c:353`); nobody wakes it,
   and `threadpool_free` never returns. `FreedLast` allows "exiting": the last
   worker gives `control_lock` up before the pool's own lock, which the main
   thread then destroys and frees. And it excepts a pool whose start timed out
   or whose wait for the threads ended without a signal (`early`;
   `workqueue.c:598-631`): threads that start later find a pool that may have
   been freed. `threadpool_free_` calls
   `free_update_arg_fn` on the array of arguments, not on those that are in it.
   A wait for the start of the threads that ends without a signal shuts the
   threads out that had not started (`ShutOut`).
8. *NodeLife*: the replies of the relay are read without a timeout. When it
   hangs, a start does not end, and `shutdown` waits for the reply to
   `DEL_ONION` (`p4.py:517`) and never gets to the `terminate()` and `kill()`
   meant for such a relay. `run` has no `finally`, and the exception of a dead
   stdin loop is raised again in `shutdown` (`p4.py:497`): both leave the relay
   running, as does an interrupt. `RelayLeft` says that these are all the ways.
9. *ControlPort*: the relay lets any authenticated controller delete a detached
   service (`control_cmd.c:2026`), and all of `p4.py`'s are; the node is not
   told. No command of `p4.py` does it to another node.
10. *Scheduler*, `DestroysScheduled` (`MCSchedulerDestroy.cfg`): a DESTROY cell
    queued while the outbuf is not empty and the channel is `WAITING_FOR_CELLS`
    stays, because neither `circuitmux_append_destroy_cell` nor the flush of the
    outbuf lists the channel (`circuitmux.c:1198`), until some circuit of the
    channel appends a cell.
11. *Scheduler*, `StopsAtHigh` (`MCSchedulerHigh.cfg`): the room in an outbuf
    above the high water mark is an unsigned difference that wraps around
    (`channeltls.c:813`), and a run of KISTLite or Vanilla adds every cell there is.
12. A restart forgets the replay window: envelopes of the last 24 hours are
    accepted once more. `AtMostOnce` is about one run of a node.

## Proofs

All are of the form `Spec => []Inv` by an inductive invariant, or of an action
or refinement property from it, for every value of the constants that satisfies
the module's named assumption (`None` is not an attempt, bounds are naturals,
and the like). Each inductive invariant was checked by TLC on the small
instance before it was proved. Every safety invariant and every action property
that a run checks is proved.

Three of the proof modules hold two components each; where they do, one of the
two modules has names of its own for its specification (`BootSpec`, `PortSpec`,
`WindowSpec`, and so on), so that the proof module can extend both.

- **SessionProofs**: the six invariants of Session. None of them is
  inductive. Added are: which callbacks can still be outstanding for a
  connection (`Callbacks`), that `dc` is the channel of `pc` or
  None (`ChannelOfPc`), what the maintainer and a handler own while they hold
  the lock (`MaintainerOwns`, `HandlersOwn`), what a reply under way says
  (`ReplyMatches`), and that the responder's channel opens first (`OpenOrder`).
- **SignalProofs**: types, `OnlyGenuine`, the action property
  `FirstIsAccepted`, and `AtMostOnce`. For the first three the strengthening
  says that peers sign what they send and never use a nonce again
  (`SentIsSigned`), and that the window holds only nonces of envelopes accepted
  in this run (`WindowIsAccepted`). The latter is where the order of the checks
  in `_validate_message` matters. `AtMostOnce` is a counting argument: the
  window is the end of what was accepted (`WindowIsRecent`) and what was
  accepted lies within twice the skew of anything accepted before it
  (`AcceptedInTime`). An envelope that comes back after it left the window has
  `MaxSeen` others accepted since, all with different nonces, which together
  with it are more than `MaxSeen` sent within four times the skew. That is what
  `Sparse` rules out.
- **StateFilesProofs**: types, `NeverDamaged`, `ContactsKept`, `OneIdentity`,
  `IdentityHeals` and the action property `IdentityKept`. The strengthening
  follows the one process that writes a file: with `exclusive` there is one
  under way (`OneAtATime`), without `raced` one that creates the identity
  (`OneCreator`); the temporary file holds what it is about to rename
  (`OwnTmp`), what it is about to save contains all that was reported
  (`SavesAll`), an identity is only written where there is none
  (`IdentityIsNew`). For `IdentityHeals`, where first commands race, a
  temporary file that is not filled is one that some process has open and has
  still to write (`TmpFilled`).
- **OnionIdentityProofs**: types, `OneAddress`, `PublishedPersists`,
  `InvitesAgree`. The strengthening says that one process at a time works
  with the relay (`Holder`), what it knows after `ADD_ONION` (`Replies`), that
  a key on disk is the key of the service id on disk (`SidOfKey`) and was never
  replaced after it was served (`PublishedIsKey`), and, without a kill between
  the two writes, that every address handed out is the one in the key file or
  about to be there (`HandedOut`).
- **NodeProofs**, first part: types, `RelayLeft`, `OnlyLateOffersStay` and
  the action property `IteratesUnchanged` of NodeLife. There is a relay only
  past the start, and no server before it listens (`StartIsQuiet`), an `invite`
  has neither server nor stdin loop (`InviteIsQuiet`), what a stage of
  `shutdown` has ended stays ended (`StagesDone`), and every maintainer has
  been told to cancel before the sessions are closed (`MaintainersTold`), so
  that only offers can make a connection afterwards. Second part, of
  ReplayWindow: types, `SetIsQueue`, `SameVerdict`, `Spaced`, and the two
  refinements of `NonceWindow`. The strengthening (`WInv`) says that the Python
  list is the last `MaxSeen` of the accepted nonces, without repetition, and
  that the two implementations hold the same contents; lemmas say what
  appending and dropping do to such a list.
- **NodeRelayProofs**, first part: types, `InStep`, `UpIsServed`, `ListedOnce`,
  `UpIsReady` of ControlPort. The strengthening says that there is at most one
  command under way per connection and where its reply is (`OneAtATime`), that
  a reply that says the relay is ready was written by one that is
  (`SaidReady`), and that what a controller holds, from the success of its
  ADD_ONION on and until another controller deletes it, is on the list it goes
  by (`Listed`) and held by no other (`HeldByOne`). Second part: types, `NotShared`, `PickedIsFirst`,
  `PickedIsFree` (where the probe tells the truth, `~Win32`) and `OwnRelay` of
  PortTrio. `NotShared` holds because nodes that talk to one relay have the
  same trio (`TalksOnTrio`), of which the first port serves one of them only
  (`ServesFirst`); the properties that need `serial` rest on one start at a
  time (`OneStarts`), on what has been probed still being busy (`TriedBusy`) or
  free (`ProbedFree`), and on no other relay having the control port of a node
  that starts (`NotAnothers`).
- **RelayProofs**, first part: types, `HeldOnce`, `ArgsOnce`, `FreedLast`,
  `RepliesNoticed`, `NobodySleepsOnWork` of WorkQueue. The count of places where
  an item is held is replaced by three facts that are inductive: the items in
  the queues are those with that status, at one place each (`InQueues`), and
  the same for the workers (`InWorkers`) and the answers (`InAnswers`); a lemma
  turns them into the count. `Arguments` says which generation a thread has
  seen, `Threads` that the threads counted are those that run, unless the wait
  for them ended early, and `LeaverLocks` that a thread on its way out has the
  pool's lock. Second part: types, `MessageIsPercent`, `DirReported`,
  `PhaseKnown`, `NeverAborts` (the assertion of
  `control_event_bootstrap_problem` on the percentage) and the action property
  `NeverBack` of Bootstrap, for every scale of statuses. The strengthening is
  that the held back phase is never beyond the held back progress
  (`DirAgrees`), and that there is a percentage from the first report on, which
  comes before anything that can be a problem (`Begun`); lemmas say what one
  report does.
- **SchedulerProofs**: types, `ListAgrees`, `WorkIsScheduled`, `NotForgotten`,
  `ListedHasConnection`, `SocketsKnown`. The invariant is a conjunction for
  each channel (`ChannelInv`) and a few facts about the run under way
  (`Locals`), because a step is about one channel, or the one served and the
  one before it. `Remembered` and `WillReport` say who lists a channel that has
  cells and is not listed: a report of room that is due, or the run that holds
  it. `Connected` and `HasSocket` follow what a write in the middle of a run
  frees.

Only model-checked: the temporal properties `InitiatorReconnects`,
`LinkRestored`, `StopEnds`, `AllReplied`, `StopReturns`, `StartEnds` and
`CellsServed`. They need fairness and `ENABLED`, which this prover does not
handle.

## Not modelled

- aiortc, asyncio, the file system and the relay are modelled from how the code
  uses them.
- Cryptography, base64 and canonical JSON are taken as perfect; a peer id (96
  bits of a hash) as unique.
- Command line parsing, printing, TURN credentials: straight-line code.
- The SOCKS5 handshake: a sequential exchange of bytes.
- The C ABI and the bindings: functions without state, except the last error,
  which is one per process: a call of another thread can replace it between a
  failing call and the fetch of its message.
- Of the vendored Tor everything but the parts named above: circuits and their
  cryptography, path selection, directory documents, descriptors, parsers,
  configuration. It is a program of its own, far larger than P4, which uses it
  through its two ports only. Of its scheduler, priorities, timing and the
  MAINT state of channels, which no OR connection enters.
- Build scripts and tests; the search for libraries and binaries.
- Relay ports given on the command line, except that ControlPort has several
  nodes on one relay.

## Plan

1. Signal's window as an instance of `NonceWindow`, so that `OnlyGenuine` and
   `AtMostOnce` rest on the abstract window instead of on a sequence.
2. An abstract specification of the pool of WorkQueue (a bag of items that is
   served at most once each) and the refinement of it.
3. **Socks5**: the handshake against a reference parser, and flow control of
   circuits (`sendme.c`) between two ends.
