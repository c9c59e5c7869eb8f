--------------------------- MODULE OnionIdentity ---------------------------
(***************************************************************************)
(* The onion address of a state directory (p4.py): how "run" and "invite"  *)
(* create it through the relay's ADD_ONION, keep it in the two files       *)
(* onion_service_id.txt and onion_v3_key_blob.txt, find it again after a   *)
(* crash, and hand it out to peers.                                        *)
(*                                                                         *)
(* A key determines its service id, so one model value stands for both.    *)
(* Path.write_text truncates the file and then writes it: a crash, or a    *)
(* reader in another process, can see it empty in between.                 *)
(*                                                                         *)
(* The processes pick free ports for their relays (no port is given on the *)
(* command line).  A relay locks its data directory, so a second one on    *)
(* the same state directory exits at once.  A relay does not end when the  *)
(* process that started it is killed.                                      *)
(***************************************************************************)
EXTENDS Naturals

CONSTANTS Runner,     \* processes of "p4.py run"
          Inviter,    \* processes of "p4.py invite --mode onion"
          Key,        \* onion keys the relay can make
          None,
          MaxCrashes  \* bound: how many processes are killed

Proc == Runner \cup Inviter
Absent == "absent"
Empty == "empty"
Orphan == "orphan"

ASSUME OnionAssumption ==
  /\ Runner \cap Inviter = {}
  /\ None \notin Key \cup Proc
  /\ Absent \notin Key /\ Empty \notin Key /\ Orphan \notin Proc \cup {None}
  /\ MaxCrashes \in Nat

VARIABLES
  sidFile,    \* onion_service_id.txt
  keyFile,    \* onion_v3_key_blob.txt
  relay,      \* who started the relay that holds the data directory
  at,         \* where each process is
  id,         \* the service id that ADD_ONION returned to a process
  isNew,      \* that reply also brought a private key
  used,       \* keys made by the relay so far
  published,  \* addresses that a running node serves or has served
  printed,    \* addresses that "invite" has printed; Empty: ".onion"
  crashes,
  killedAt    \* the steps at which processes have been killed

fileVars == <<sidFile, keyFile>>
vars == <<fileVars, relay, at, id, isNew, used, published, printed, crashes, killedAt>>

Step == {"idle", "ensure", "start", "add", "sid", "sidOpen", "key", "keyOpen",
         "boot", "serving", "read"}

Init ==
  /\ sidFile = Absent
  /\ keyFile = Absent
  /\ relay = None
  /\ at = [p \in Proc |-> "idle"]
  /\ id = [p \in Proc |-> None]
  /\ isNew = [p \in Proc |-> FALSE]
  /\ used = {}
  /\ published = {}
  /\ printed = {}
  /\ crashes = 0
  /\ killedAt = {}

-----------------------------------------------------------------------------
\* "run" sets its rendezvous up (_setup_rendezvous).
RunStart(p) ==
  /\ p \in Runner
  /\ at[p] = "idle"
  /\ at' = [at EXCEPT ![p] = "start"]
  /\ UNCHANGED <<fileVars, relay, id, isNew, used, published, printed, crashes, killedAt>>

HaveFiles == sidFile # Absent /\ keyFile # Absent

\* cmd_invite asks whether the two files exist, and when they do not,
\* ensure_onion_identity_async asks again.
InviteStart(p) ==
  /\ p \in Inviter
  /\ at[p] = "idle"
  /\ at' = [at EXCEPT ![p] = IF HaveFiles THEN "read" ELSE "ensure"]
  /\ UNCHANGED <<fileVars, relay, id, isNew, used, published, printed, crashes, killedAt>>

Ensure(p) ==
  /\ at[p] = "ensure"
  /\ at' = [at EXCEPT ![p] = IF HaveFiles THEN "read" ELSE "start"]
  /\ UNCHANGED <<fileVars, relay, id, isNew, used, published, printed, crashes, killedAt>>

\* _start_onionrelay: the relay comes up and its control port is opened.
RelayUp(p) ==
  /\ at[p] = "start"
  /\ relay = None
  /\ relay' = p
  /\ at' = [at EXCEPT ![p] = "add"]
  /\ UNCHANGED <<fileVars, id, isNew, used, published, printed, crashes, killedAt>>

\* _wait_for_local_port: the relay exited, the data directory being in use.
RelayExits(p) ==
  /\ at[p] = "start"
  /\ relay # None
  /\ at' = [at EXCEPT ![p] = "idle"]
  /\ UNCHANGED <<fileVars, relay, id, isNew, used, published, printed, crashes, killedAt>>

\* Mutant: the key on disk is not used.
MutLoadOnionKeyBlob == None

\* _load_onion_key_blob: an empty file is no key.
LoadOnionKeyBlob == IF keyFile \in {Absent, Empty} THEN None ELSE keyFile

\* _onionrelay_add_onion_service up to the reply of the relay.  Only the
\* holder of the relay writes the key file, so the file that was read is
\* still the same when the reply is there.
AddOnion(p) ==
  /\ at[p] = "add"
  /\ \/ /\ LoadOnionKeyBlob # None
        /\ id' = [id EXCEPT ![p] = LoadOnionKeyBlob]
        /\ isNew' = [isNew EXCEPT ![p] = FALSE]
        /\ UNCHANGED used
     \/ /\ LoadOnionKeyBlob = None
        /\ \E k \in Key \ used : /\ id' = [id EXCEPT ![p] = k]
                                 /\ used' = used \cup {k}
        /\ isNew' = [isNew EXCEPT ![p] = TRUE]
  /\ at' = [at EXCEPT ![p] = "sid"]
  /\ UNCHANGED <<fileVars, relay, published, printed, crashes, killedAt>>

\* write_text of the service id, in its two steps.
OpenSid(p) ==
  /\ at[p] = "sid"
  /\ sidFile' = Empty
  /\ at' = [at EXCEPT ![p] = "sidOpen"]
  /\ UNCHANGED <<keyFile, relay, id, isNew, used, published, printed, crashes, killedAt>>

WriteSid(p) ==
  /\ at[p] = "sidOpen"
  /\ sidFile' = id[p]
  /\ at' = [at EXCEPT ![p] = IF isNew[p] THEN "key" ELSE "boot"]
  /\ UNCHANGED <<keyFile, relay, id, isNew, used, published, printed, crashes, killedAt>>

\* write_text of the key, in its two steps; only for a new key.
OpenKey(p) ==
  /\ at[p] = "key"
  /\ keyFile' = Empty
  /\ at' = [at EXCEPT ![p] = "keyOpen"]
  /\ UNCHANGED <<sidFile, relay, id, isNew, used, published, printed, crashes, killedAt>>

\* Mutant: the new key is not kept.
MutWriteKey(p) ==
  /\ at[p] = "keyOpen"
  /\ at' = [at EXCEPT ![p] = "boot"]
  /\ UNCHANGED <<fileVars, relay, id, isNew, used, published, printed, crashes, killedAt>>

WriteKey(p) ==
  /\ at[p] = "keyOpen"
  /\ keyFile' = id[p]
  /\ at' = [at EXCEPT ![p] = "boot"]
  /\ UNCHANGED <<sidFile, relay, id, isNew, used, published, printed, crashes, killedAt>>

\* "run": bootstrap reached 100%, _own_rendezvous is set and the node goes on
\* to print its invite and to serve.
Publish(p) ==
  /\ p \in Runner
  /\ at[p] = "boot"
  /\ published' = published \cup {id[p]}
  /\ at' = [at EXCEPT ![p] = "serving"]
  /\ UNCHANGED <<fileVars, relay, id, isNew, used, printed, crashes, killedAt>>

\* "invite" does not wait for bootstrap: it shuts its node down again.
EnsureDone(p) ==
  /\ p \in Inviter
  /\ at[p] = "boot"
  /\ relay' = None
  /\ at' = [at EXCEPT ![p] = "read"]
  /\ UNCHANGED <<fileVars, id, isNew, used, published, printed, crashes, killedAt>>

\* The relay answers with an error or not in time.  "invite" shuts the node
\* down; "run" ends without, and its relay may or may not be killed with it.
StartFails(p) ==
  /\ at[p] = "add" \/ (p \in Runner /\ at[p] = "boot")
  /\ relay' \in (IF p \in Runner THEN {None, Orphan} ELSE {None})
  /\ at' = [at EXCEPT ![p] = "idle"]
  /\ UNCHANGED <<fileVars, id, isNew, used, published, printed, crashes, killedAt>>

\* build_invite_from_state.  The file exists here: it is never deleted.
PrintInvite(p) ==
  /\ at[p] = "read"
  /\ printed' = printed \cup {sidFile}
  /\ at' = [at EXCEPT ![p] = "idle"]
  /\ UNCHANGED <<fileVars, relay, id, isNew, used, published, crashes, killedAt>>

\* /quit: shutdown removes the service and terminates the relay.
Shutdown(p) ==
  /\ at[p] = "serving"
  /\ relay' = None
  /\ at' = [at EXCEPT ![p] = "idle"]
  /\ UNCHANGED <<fileVars, id, isNew, used, published, printed, crashes, killedAt>>

\* The process is killed; its relay goes on.
Crash(p) ==
  /\ at[p] # "idle"
  /\ crashes < MaxCrashes
  /\ crashes' = crashes + 1
  /\ killedAt' = killedAt \cup {at[p]}
  /\ relay' = IF relay = p THEN Orphan ELSE relay
  /\ at' = [at EXCEPT ![p] = "idle"]
  /\ UNCHANGED <<fileVars, id, isNew, used, published, printed>>

\* Somebody ends the relay that was left behind.
OrphanEnds ==
  /\ relay = Orphan
  /\ relay' = None
  /\ UNCHANGED <<fileVars, at, id, isNew, used, published, printed, crashes, killedAt>>

Next ==
  \/ \E p \in Proc :
       \/ RunStart(p) \/ InviteStart(p) \/ Ensure(p) \/ RelayUp(p) \/ RelayExits(p)
       \/ AddOnion(p) \/ OpenSid(p) \/ WriteSid(p) \/ OpenKey(p) \/ WriteKey(p)
       \/ Publish(p) \/ EnsureDone(p) \/ StartFails(p) \/ PrintInvite(p)
       \/ Shutdown(p) \/ Crash(p)
  \/ OrphanEnds

Spec == Init /\ [][Next]_vars

-----------------------------------------------------------------------------
(* Properties.                                                             *)

\* Types of the variables.
TypeOK ==
  /\ sidFile \in Key \cup {Absent, Empty}
  /\ keyFile \in Key \cup {Absent, Empty}
  /\ relay \in Proc \cup {None, Orphan}
  /\ at \in [Proc -> Step]
  /\ id \in [Proc -> Key \cup {None}]
  /\ isNew \in [Proc -> BOOLEAN]
  /\ used \subseteq Key
  /\ published \subseteq Key
  /\ printed \subseteq Key \cup {Empty}
  /\ crashes \in 0..MaxCrashes
  /\ killedAt \subseteq Step

\* A node serves one address for ever: whatever is killed in between, every
\* start that succeeds comes up under the address of the first.
OneAddress == \A a, b \in published : a = b

\* Once a node has served, its key is safe on disk and no invite names
\* another address (an invite may still find the service id empty).
PublishedPersists ==
  published # {} => keyFile \in published /\ sidFile \in published \cup {Empty}

\* Two addresses are handed out, by "invite" or by running nodes, only after a
\* process was killed between writing the service id and writing its key
\* (p4.py:673-676).  A kill anywhere else does no harm.
AddressesAgree ==
  killedAt \cap {"key", "keyOpen"} = {}
    => \A a, b \in (printed \cup published) \ {Empty} : a = b

\* There is no service id to read, so that "invite" prints ".onion", only while
\* a start is rewriting the file or after one was killed doing so.
EmptyOnlyInRewrite ==
  sidFile = Empty => "sidOpen" \in killedAt \/ \E p \in Proc : at[p] = "sidOpen"

\* What "invite" hands out, and exactly when it may be wrong: another address
\* than "run" serves only after a kill between the two writes, no address at
\* all only during a rewrite, which needs no kill, or after a kill in one.
InvitesAgree == AddressesAgree /\ EmptyOnlyInRewrite

\* What the documentation says of the address: it persists.  Every address
\* handed out, by "invite" or by a running node, is the same.
PersistentAddress == \A a, b \in (printed \cup published) \ {Empty} : a = b

\* The file stores the service id, so an invite names a service.
InviteNamesService == Empty \notin printed
=============================================================================
