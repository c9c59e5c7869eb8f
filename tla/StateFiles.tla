------------------------------ MODULE StateFiles ------------------------------
(***************************************************************************)
(* The two JSON files of a state directory, identity_ed25519.json and      *)
(* contacts.json, as the commands init, add-contact and run of p4.py read  *)
(* and write them (invite does what init does with the first).             *)
(* atomic_write_json opens (and truncates) <file>.tmp, writes it and       *)
(* renames it over <file>; every process uses the same temporary name, and *)
(* a process that has the temporary file open when another one renames it  *)
(* goes on writing to the renamed file.                                    *)
(*                                                                         *)
(* An identity is a model value, contents of contacts.json are sets of     *)
(* contacts, each taking the same space in the file.  Invites added are    *)
(* those of other peers.                                                   *)
(***************************************************************************)
EXTENDS FiniteSets, Naturals

CONSTANTS Init0,       \* processes that run p4.py init
          Adder,       \* processes that run p4.py add-contact
          Node,        \* processes that run p4.py run, with /add commands
          Contact,     \* contacts to add
          LegacyKey,   \* the identity in the legacy PEM file
          FirstKey,    \* the identity of an earlier init
          Absent, Empty, Garbage,   \* contents of a file that is no JSON
          NoFile,      \* a process without an open file
          MaxKills     \* bound: processes killed

Process == Init0 \cup Adder \cup Node
Files == {"identity", "contacts"}
\* The key that a process would generate goes by the name of the process.
Identities == Process \cup {LegacyKey, FirstKey}

ASSUME StateFilesAssumption ==
  /\ IsFiniteSet(Contact)
  /\ MaxKills \in Nat
  /\ {Absent, Empty, Garbage} \cap Identities = {}
  /\ \A S \in SUBSET Contact : S \notin {Absent, Empty, Garbage}
  /\ Absent \notin {Empty, Garbage} \cup Contact /\ Empty # Garbage
  /\ NoFile \notin {"tmp", "path", "unlinked"}

VARIABLES
  exclusive, \* commands run one at a time, or any number at a time
  file,     \* contents of each file
  tmp,      \* contents of its temporary file
  legacy,   \* a legacy identity file exists
  at,       \* where each process is
  target,   \* the file it is writing
  handle,   \* where the file it has open is now: "tmp", "path" or "unlinked"
  ident,    \* the identity a process works with
  mem,      \* contacts in the memory of a process
  adding,   \* the contact it is adding
  acked,    \* history: contacts whose addition was reported
  raced,    \* history: two processes were creating the identity at a time
  kills

vars == <<exclusive, file, tmp, legacy, at, target, handle, ident, mem, adding, acked,
          raced, kills>>

At == {"new", "open", "write", "rename", "loaded", "ready", "done", "failed", "killed"}
Ended == {"new", "done", "failed", "killed"}

\* A new directory, or one where init ran before.
Init ==
  /\ exclusive \in BOOLEAN
  /\ legacy \in BOOLEAN
  /\ \/ file = [f \in Files |-> Absent]
     \/ file = [f \in Files |-> IF f = "contacts" THEN {} ELSE FirstKey]
  /\ tmp = [f \in Files |-> Absent]
  /\ at = [p \in Process |-> "new"]
  /\ target = [p \in Process |-> "identity"]
  /\ handle = [p \in Process |-> NoFile]
  /\ ident = [p \in Process |-> Absent]
  /\ mem = [p \in Process |-> {}]
  /\ adding = [p \in Process |-> Absent]
  /\ acked = {}
  /\ raced = FALSE
  /\ kills = 0

Goto(p, s) == at' = [at EXCEPT ![p] = s]
StartWrite(p, f) == Goto(p, "open") /\ target' = [target EXCEPT ![p] = f]

-----------------------------------------------------------------------------
(* atomic_write_json.                                                      *)

\* Mutant: the file is written in place.
MutOpen(p, f) ==
  /\ at[p] = "open" /\ target[p] = f
  /\ file' = [file EXCEPT ![f] = Empty]
  /\ handle' = [handle EXCEPT ![p] = "path"]
  /\ Goto(p, "write")
  /\ UNCHANGED <<target, tmp, exclusive, legacy, ident, mem, adding, acked, raced, kills>>

\* Path.write_text begins: open with truncation.
Open(p, f) ==
  /\ at[p] = "open" /\ target[p] = f
  /\ tmp' = [tmp EXCEPT ![f] = Empty]
  /\ handle' = [handle EXCEPT ![p] = "tmp"]
  /\ Goto(p, "write")
  /\ UNCHANGED <<target, file, exclusive, legacy, ident, mem, adding, acked, raced, kills>>

\* What a file holds after text is written from its start: a longer text that
\* was there sticks out.
Overlay(text, there, f) ==
  IF f = "contacts" /\ there \notin {Absent, Empty}
  THEN IF there = Garbage \/ Cardinality(text) < Cardinality(there) THEN Garbage ELSE text
  ELSE text

\* Mutant: the text is still in the buffer when the file is renamed.
MutWrite(p, f) ==
  /\ at[p] = "write" /\ target[p] = f
  /\ handle' = [handle EXCEPT ![p] = NoFile]
  /\ Goto(p, "rename")
  /\ UNCHANGED <<target, file, tmp, exclusive, legacy, ident, mem, adding, acked, raced, kills>>

\* Path.write_text ends: the buffer is written to the file that was opened,
\* whatever its name is by now.
Write(p, f) ==
  /\ at[p] = "write" /\ target[p] = f
  /\ LET text == IF f = "identity" THEN ident[p] ELSE mem[p]
     IN  /\ tmp' = IF handle[p] = "tmp"
                   THEN [tmp EXCEPT ![f] = Overlay(text, @, f)] ELSE tmp
         /\ file' = IF handle[p] = "path"
                    THEN [file EXCEPT ![f] = Overlay(text, @, f)] ELSE file
  /\ handle' = [handle EXCEPT ![p] = NoFile]
  /\ Goto(p, "rename")
  /\ UNCHANGED <<target, exclusive, legacy, ident, mem, adding, acked, raced, kills>>

\* The next place after a file is written.  init ends after contacts.json,
\* add-contact reports and ends, a node reports and goes on.
After(p, f) ==
  IF f = "identity" THEN "loaded" ELSE IF p \in Node THEN "ready" ELSE "done"

\* Path.replace; it raises when the temporary file is gone.  Files that other
\* processes have open move with their names.
Rename(p, f) ==
  /\ at[p] = "rename" /\ target[p] = f
  /\ IF tmp[f] = Absent
     THEN /\ Goto(p, "failed")
          /\ UNCHANGED <<file, tmp, handle, acked>>
     ELSE /\ file' = [file EXCEPT ![f] = tmp[f]]
          /\ tmp' = [tmp EXCEPT ![f] = Absent]
          /\ handle' = [q \in Process |->
               IF at[q] # "write" \/ target[q] # f THEN handle[q]
               ELSE CASE handle[q] = "tmp" -> "path"
                      [] OTHER -> "unlinked"]
          /\ acked' = IF f = "contacts" THEN acked \cup ({adding[p]} \ {Absent}) ELSE acked
          /\ Goto(p, After(p, f))
  /\ UNCHANGED <<target, exclusive, legacy, ident, mem, adding, raced, kills>>

-----------------------------------------------------------------------------
(* Commands.                                                               *)

MayStart(p) == exclusive => \A q \in Process \ {p} : at[q] \in Ended

Unreadable == {Empty, Garbage}

\* Process p has found no identity and is writing its own.
Creating(p) == at[p] \in {"open", "write", "rename"} /\ target[p] = "identity"

\* Mutant: only a legacy identity is looked for.
MutIdentityMissing == file["identity"] = Absent \/ ~legacy

\* path.exists() of load_or_create.
IdentityMissing == file["identity"] = Absent

\* Identity.load_or_create with a file: it is parsed.
LoadIdentity(p) ==
  /\ at[p] = "new"
  /\ MayStart(p)
  /\ ~IdentityMissing
  /\ ident' = [ident EXCEPT ![p] = IF file["identity"] \in Unreadable THEN @ ELSE file["identity"]]
  /\ Goto(p, IF file["identity"] \in Unreadable THEN "failed" ELSE "loaded")
  /\ UNCHANGED <<target, file, tmp, exclusive, legacy, handle, mem, adding, acked, raced, kills>>

\* Identity.load_or_create without one: the legacy key is migrated, if its
\* library is there, or an identity is generated.  Nothing keeps two processes
\* from doing so at the same time.
CreateIdentity(p) ==
  /\ at[p] = "new"
  /\ MayStart(p)
  /\ IdentityMissing
  /\ \/ /\ ident' = [ident EXCEPT ![p] = IF legacy THEN LegacyKey ELSE p]
        /\ StartWrite(p, "identity")
        /\ raced' = (raced \/ \E q \in Process \ {p} : Creating(q))
     \/ /\ legacy
        /\ Goto(p, "failed")
        /\ UNCHANGED <<ident, target, raced>>
  /\ UNCHANGED <<file, tmp, exclusive, legacy, handle, mem, adding, acked, kills>>

\* Mutant: contacts in the file are not looked at.
MutLoadContacts == {}

\* load_json_file: a missing file is an empty list.
LoadContacts == IF file["contacts"] = Absent THEN {} ELSE file["contacts"]

\* cmd_init: contacts.json is only created.
InitContacts(p) ==
  /\ p \in Init0
  /\ at[p] = "loaded"
  /\ IF file["contacts"] = Absent THEN StartWrite(p, "contacts")
     ELSE Goto(p, "done") /\ UNCHANGED target
  /\ UNCHANGED <<file, tmp, exclusive, legacy, handle, ident, mem, adding, acked, raced, kills>>

\* cmd_add_contact.
AddContact(p, c) ==
  /\ p \in Adder
  /\ at[p] = "loaded"
  /\ IF file["contacts"] \in Unreadable
     THEN /\ Goto(p, "failed")
          /\ UNCHANGED <<mem, adding, target>>
     ELSE /\ mem' = [mem EXCEPT ![p] = LoadContacts \cup {c}]
          /\ adding' = [adding EXCEPT ![p] = c]
          /\ StartWrite(p, "contacts")
  /\ UNCHANGED <<file, tmp, exclusive, legacy, handle, ident, acked, raced, kills>>

\* P4Node.run, _load_contacts.
NodeLoads(p) ==
  /\ p \in Node
  /\ at[p] = "loaded"
  /\ IF file["contacts"] \in Unreadable
     THEN Goto(p, "failed") /\ UNCHANGED mem
     ELSE /\ mem' = [mem EXCEPT ![p] = LoadContacts]
          /\ Goto(p, "ready")
  /\ UNCHANGED <<target, file, tmp, exclusive, legacy, handle, ident, adding, acked, raced, kills>>

\* _add_contact_from_invite_payload: the contacts in memory are saved.
NodeAdds(p, c) ==
  /\ at[p] = "ready"
  /\ mem' = [mem EXCEPT ![p] = @ \cup {c}]
  /\ adding' = [adding EXCEPT ![p] = c]
  /\ StartWrite(p, "contacts")
  /\ UNCHANGED <<file, tmp, exclusive, legacy, handle, ident, acked, raced, kills>>

NodeStops(p) ==
  /\ at[p] = "ready"
  /\ Goto(p, "done")
  /\ UNCHANGED <<target, file, tmp, exclusive, legacy, handle, ident, mem, adding, acked, raced, kills>>

\* A process is killed between any two of its steps.
Kill(p) ==
  /\ kills < MaxKills
  /\ at[p] \notin Ended
  /\ kills' = kills + 1
  /\ Goto(p, "killed")
  /\ handle' = [handle EXCEPT ![p] = NoFile]
  /\ UNCHANGED <<target, file, tmp, exclusive, legacy, ident, mem, adding, acked, raced>>

Next ==
  \E p \in Process :
    \/ LoadIdentity(p) \/ CreateIdentity(p)
    \/ InitContacts(p) \/ NodeLoads(p) \/ NodeStops(p) \/ Kill(p)
    \/ \E c \in Contact : AddContact(p, c) \/ NodeAdds(p, c)
    \/ \E f \in Files : Open(p, f) \/ Write(p, f) \/ Rename(p, f)

Spec == Init /\ [][Next]_vars

-----------------------------------------------------------------------------
(* Properties.                                                             *)

\* Types of the variables.
TypeOK ==
  /\ exclusive \in BOOLEAN
  /\ file["identity"] \in Identities \cup {Absent, Empty}
  /\ file["contacts"] \in (SUBSET Contact) \cup {Absent, Empty, Garbage}
  /\ tmp["identity"] \in Identities \cup {Absent, Empty}
  /\ tmp["contacts"] \in (SUBSET Contact) \cup {Absent, Empty, Garbage}
  /\ legacy \in BOOLEAN
  /\ at \in [Process -> At]
  /\ target \in [Process -> Files]
  /\ handle \in [Process -> {NoFile, "tmp", "path", "unlinked"}]
  /\ ident \in [Process -> Identities \cup {Absent}]
  /\ mem \in [Process -> SUBSET Contact]
  /\ adding \in [Process -> Contact \cup {Absent}]
  /\ acked \subseteq Contact
  /\ raced \in BOOLEAN
  /\ kills \in 0..MaxKills

\* No two processes write file f at the same time: commands run one at a time,
\* or f is the identity and no two of them were creating it at a time.
Undisturbed(f) == exclusive \/ (f = "identity" /\ ~raced)

\* atomic_write_json is atomic where it is undisturbed: at no time, and after no
\* kill, is a file there that cannot be parsed.  Commands that run at the same
\* time share the temporary name, and can damage contacts.json, or the
\* identity when they are the first in the directory.
NeverDamaged == \A f \in Files : Undisturbed(f) => file[f] \notin Unreadable

\* A contact whose addition was reported is in contacts.json from then on, if
\* commands run one at a time; otherwise the last writer drops what others
\* added since it read the file.
ContactsKept == exclusive => acked \subseteq LoadContacts

\* Whatever runs at the same time, a process past load_or_create works with the
\* identity that is on disk, unless two processes were creating it at a time.
UsesIdentity(p) ==
  ident[p] # Absent /\ at[p] \in {"loaded", "ready", "done"}
OneIdentity ==
  ~raced => \A p \in Process : UsesIdentity(p) => ident[p] = file["identity"]

\* Whatever runs at the same time, an identity that is on disk is never replaced,
\* unless two processes were creating it at a time (p4.py:289); the one that
\* renames last then replaces the identity of the other.
IdentityKept ==
  [][file["identity"] # Absent /\ ~raced => file'["identity"] = file["identity"]]_vars

\* However many first commands race, and none is killed, an identity that cannot
\* be read is one that a process still has open and is going to fill.
IdentityHeals ==
  kills = 0 /\ file["identity"] \in Unreadable =>
    \E p \in Process : Creating(p) /\ at[p] = "write" /\ handle[p] = "path"
=============================================================================
