--------------------------- MODULE StateFilesProofs ---------------------------
(***************************************************************************)
(* That atomic_write_json is atomic and loses nothing while commands run   *)
(* one at a time; that an identity that is there is replaced only when two *)
(* first commands race, and what such a race leaves behind; for any number *)
(* of processes, contacts and kills.                                       *)
(*                                                                         *)
(* The argument follows the only process that is under way: what it reads  *)
(* stays true until it renames, and the temporary file holds what it means *)
(* to write.  A process that was killed leaves a temporary file in any     *)
(* state; the next one truncates it first.                                 *)
(***************************************************************************)
EXTENDS StateFiles, TLAPS

\* What a file can hold.
Content == Identities \cup (SUBSET Contact) \cup {Absent, Empty, Garbage}

\* The variables are functions (TypeOK speaks of the values only).
Shape == file \in [Files -> Content] /\ tmp \in [Files -> Content]

\* Process p is inside atomic_write_json of file f, and the text it writes.
Writing(p, f) == at[p] \in {"open", "write", "rename"} /\ target[p] = f
Text(p, f) == IF f = "identity" THEN ident[p] ELSE mem[p]

\* Commands run one at a time, and then none of them meets another one creating
\* the identity; without such a meeting one process at most creates it.
OneAtATime ==
  exclusive => ~raced /\ \A p, q \in Process : at[p] \notin Ended /\ at[q] \notin Ended => p = q
OneCreator ==
  ~raced => \A p, q \in Process : Creating(p) /\ Creating(q) => p = q

\* Who writes an identity has one, and without a race writes it where there is
\* none.
IdentityIsNew ==
  \A p \in Process : Creating(p) =>
    ident[p] \in Identities /\ (~raced => file["identity"] = Absent)

\* A process under way that has its identity has the one on disk.
WorksWithIdentity ==
  ~raced => \A p \in Process : at[p] \in {"loaded", "ready"} \/ Writing(p, "contacts") =>
              ident[p] = file["identity"] /\ file["identity"] # Absent

\* The temporary file belongs to the process that writes, if undisturbed.
OwnTmp ==
  \A p \in Process, f \in Files : Undisturbed(f) =>
    /\ Writing(p, f) /\ at[p] = "write" => handle[p] = "tmp" /\ tmp[f] = Empty
    /\ Writing(p, f) /\ at[p] = "rename" => tmp[f] = Text(p, f)

\* Racing or not, an empty file of an identity is in the hands of a process that
\* is going to fill it, under whichever name.
TmpFilled ==
  kills = 0 /\ tmp["identity"] = Empty =>
    \E p \in Process : Creating(p) /\ at[p] = "write" /\ handle[p] = "tmp"

\* A process adds nothing before it has loaded.
NotYetAdding ==
  \A p \in Process : at[p] \in {"new", "loaded"} \/ Writing(p, "identity") => adding[p] = Absent

\* What a process is about to save holds all that was reported, and what it
\* will report; what a node has in memory holds all that was reported.
SavesAll ==
  exclusive => \A p \in Process :
    /\ Writing(p, "contacts") => acked \cup ({adding[p]} \ {Absent}) \subseteq mem[p]
    /\ at[p] = "ready" => acked \subseteq mem[p]

\* The inductive invariant.
IInv ==
  /\ TypeOK /\ Shape
  /\ OneAtATime /\ OneCreator /\ IdentityIsNew /\ WorksWithIdentity
  /\ OwnTmp /\ NotYetAdding /\ SavesAll
  /\ NeverDamaged /\ ContactsKept /\ OneIdentity
  /\ TmpFilled /\ IdentityHeals

-----------------------------------------------------------------------------
\* What Overlay leaves in a file is a content of that file, and the text itself
\* when the file was empty.
LEMMA OverlayContent ==
  ASSUME NEW text, NEW there
  PROVE  /\ Overlay(text, there, "identity") = text
         /\ Overlay(text, there, "contacts") \in {text, Garbage}
         /\ \A f \in Files : Overlay(text, Empty, f) = text
BY DEF Overlay

\* Where it is undisturbed a file has one writer.
LEMMA OnlyWriter ==
  ASSUME IInv, NEW p \in Process, NEW q \in Process, NEW f \in Files,
         Undisturbed(f), Writing(p, f), Writing(q, f)
  PROVE  p = q
BY DEF IInv, Undisturbed, Writing, OneAtATime, OneCreator, Creating, Ended

\* The initial state satisfies the invariant, and every action keeps it.
LEMMA InitIInv == Init => IInv
<1> SUFFICES ASSUME Init PROVE IInv
  OBVIOUS
<1> USE StateFilesAssumption DEF Init, Files, Identities
<1>1. Shape
  BY DEF Shape, Content
<1>2. TypeOK
  <2>1. /\ file["identity"] \in Identities \cup {Absent, Empty}
        /\ file["contacts"] \in (SUBSET Contact) \cup {Absent, Empty, Garbage}
        /\ tmp["identity"] = Absent /\ tmp["contacts"] = Absent
    OBVIOUS
  <2>2. /\ at \in [Process -> At] /\ target \in [Process -> Files]
        /\ handle \in [Process -> {NoFile, "tmp", "path", "unlinked"}]
        /\ ident \in [Process -> Identities \cup {Absent}]
        /\ mem \in [Process -> SUBSET Contact]
        /\ adding \in [Process -> Contact \cup {Absent}]
    BY DEF At
  <2>3. acked \subseteq Contact /\ kills \in 0..MaxKills
    OBVIOUS
  <2>4. exclusive \in BOOLEAN /\ legacy \in BOOLEAN
    BY Zenon
  <2>5. raced \in BOOLEAN
    <3>1. raced = FALSE
      BY Zenon
    <3> QED
      BY <3>1, Zenon
  <2> HIDE DEF Init
  <2> QED
    BY <2>1, <2>2, <2>3, <2>4, <2>5 DEF TypeOK
<1>3. /\ OneAtATime /\ IdentityIsNew /\ OneCreator /\ WorksWithIdentity
      /\ OwnTmp /\ NotYetAdding /\ SavesAll
  BY DEF OneAtATime, IdentityIsNew, OneCreator, Creating, WorksWithIdentity, OwnTmp, Undisturbed, NotYetAdding,
     SavesAll, Ended, Writing
<1>4. NeverDamaged /\ ContactsKept /\ OneIdentity
  BY DEF NeverDamaged, Undisturbed, ContactsKept, OneIdentity, UsesIdentity, Unreadable
<1>5. TmpFilled /\ IdentityHeals
  BY DEF TmpFilled, IdentityHeals, Unreadable
<1> QED
  BY <1>1, <1>2, <1>3, <1>4, <1>5 DEF IInv

\* A process that reads the identity works with what is on disk.
LEMMA LoadIdentityKeeps ==
  ASSUME IInv, NEW p \in Process, LoadIdentity(p)
  PROVE  IInv'
<1> USE StateFilesAssumption DEF IInv, Files, Shape, LoadIdentity, MayStart, IdentityMissing, Goto
<1>1. TypeOK' /\ Shape'
  BY DEF TypeOK, At, Unreadable
<1>2. /\ OneAtATime' /\ IdentityIsNew' /\ OneCreator'
      /\ WorksWithIdentity' /\ NotYetAdding'
  BY DEF TypeOK, OneAtATime, IdentityIsNew, OneCreator, Creating, WorksWithIdentity,
     NotYetAdding, Writing
<1>3. OwnTmp' /\ SavesAll'
  <2>1. \A q \in Process, f \in Files : Writing(q, f)' => Writing(q, f) /\ q # p
    BY DEF TypeOK, Writing
  <2>2. OwnTmp'
    BY <2>1 DEF TypeOK, OwnTmp, Undisturbed, Text
  <2> QED
    BY <2>2 DEF TypeOK, SavesAll, Writing, Ended
<1>4. NeverDamaged' /\ ContactsKept' /\ OneIdentity'
  BY DEF TypeOK, NeverDamaged, Undisturbed, ContactsKept, OneIdentity, UsesIdentity, LoadContacts
<1>9. TmpFilled' /\ IdentityHeals'
  BY DEF TypeOK, TmpFilled, IdentityHeals, Creating, Unreadable
<1> QED
  BY <1>1, <1>2, <1>3, <1>4, <1>9

\* One that finds none runs alone and is about to write its own.
LEMMA CreateIdentityKeeps ==
  ASSUME IInv, NEW p \in Process, CreateIdentity(p)
  PROVE  IInv'
<1> USE StateFilesAssumption DEF IInv, Files, Shape, CreateIdentity, MayStart,
       IdentityMissing, Goto, StartWrite
<1>0. /\ raced' \in BOOLEAN
      /\ raced => raced'
      /\ ~raced' /\ Creating(p)' => \A q \in Process \ {p} : ~Creating(q)
      /\ exclusive /\ ~raced => ~raced'
  <2>1. exclusive => \A q \in Process \ {p} : ~Creating(q)
    BY DEF Creating, Ended
  <2>2. CASE at'[p] = "open"
    <3>1. raced' = (raced \/ \E q \in Process \ {p} : Creating(q))
      BY <2>2 DEF TypeOK
    <3> HIDE DEF CreateIdentity
    <3> QED
      BY <2>1, <3>1
  <2>3. CASE at'[p] # "open"
    <3>1. UNCHANGED raced /\ at'[p] = "failed"
      BY <2>3 DEF TypeOK
    <3> QED
      BY <3>1 DEF TypeOK, Creating
  <2> QED
    BY <2>2, <2>3
<1>1. TypeOK' /\ Shape'
  <2>1. /\ at' \in [Process -> At] /\ target' \in [Process -> Files]
        /\ ident' \in [Process -> Identities \cup {Absent}]
    BY DEF TypeOK, At, Identities
  <2> QED
    BY <1>0, <2>1 DEF TypeOK
<1>2. /\ OneAtATime' /\ IdentityIsNew' /\ OneCreator'
      /\ WorksWithIdentity' /\ NotYetAdding'
  <2>1. OneAtATime' /\ IdentityIsNew' /\ NotYetAdding'
    BY <1>0 DEF TypeOK, OneAtATime, IdentityIsNew, NotYetAdding, Creating, Writing,
       Identities, Ended
  <2>2. OneCreator'
    BY <1>0 DEF TypeOK, OneCreator, Creating
  <2>3. WorksWithIdentity'
    BY <1>0 DEF TypeOK, WorksWithIdentity, Writing
  <2> QED
    BY <2>1, <2>2, <2>3
<1>3. OwnTmp' /\ SavesAll'
  <2>1. OwnTmp'
    BY <1>0 DEF TypeOK, OwnTmp, Undisturbed, Writing, Text
  <2> QED
    BY <2>1 DEF TypeOK, SavesAll, Writing, Ended
<1>4. NeverDamaged' /\ ContactsKept' /\ OneIdentity'
  BY <1>0 DEF TypeOK, NeverDamaged, Undisturbed, ContactsKept, OneIdentity, UsesIdentity,
     LoadContacts
<1>9. TmpFilled' /\ IdentityHeals'
  BY DEF TypeOK, TmpFilled, IdentityHeals, Creating, Unreadable
<1> QED
  BY <1>1, <1>2, <1>3, <1>4, <1>9

\* init writes an empty list where there is none, or leaves.
LEMMA InitContactsKeeps ==
  ASSUME IInv, NEW p \in Process, InitContacts(p)
  PROVE  IInv'
<1> USE StateFilesAssumption DEF IInv, Files, Shape, InitContacts, Goto, StartWrite
<1>1. TypeOK' /\ Shape'
  BY DEF TypeOK, At
<1>2. /\ OneAtATime' /\ IdentityIsNew' /\ OneCreator'
      /\ WorksWithIdentity' /\ NotYetAdding'
  BY DEF TypeOK, OneAtATime, IdentityIsNew, OneCreator, Creating, WorksWithIdentity,
     NotYetAdding, Writing, Ended
<1>3. OwnTmp' /\ SavesAll'
  BY DEF TypeOK, OwnTmp, Undisturbed, NotYetAdding, SavesAll, ContactsKept, Writing, Text,
     LoadContacts
<1>4. NeverDamaged' /\ ContactsKept' /\ OneIdentity'
  BY DEF TypeOK, NeverDamaged, Undisturbed, ContactsKept, OneIdentity, UsesIdentity, LoadContacts
<1>9. TmpFilled' /\ IdentityHeals'
  BY DEF TypeOK, TmpFilled, IdentityHeals, Creating, Unreadable
<1> QED
  BY <1>1, <1>2, <1>3, <1>4, <1>9

\* add-contact reads the list and is about to save it with one more.
LEMMA AddContactKeeps ==
  ASSUME IInv, NEW p \in Process, NEW k \in Contact, AddContact(p, k)
  PROVE  IInv'
<1> USE StateFilesAssumption DEF IInv, Files, Shape, AddContact, Goto, StartWrite
<1>1. TypeOK' /\ Shape'
  BY DEF TypeOK, At, Unreadable, LoadContacts
<1>2. /\ OneAtATime' /\ IdentityIsNew' /\ OneCreator'
      /\ WorksWithIdentity' /\ NotYetAdding'
  BY DEF TypeOK, OneAtATime, IdentityIsNew, OneCreator, Creating, WorksWithIdentity,
     NotYetAdding, Writing, Ended
<1>3. OwnTmp' /\ SavesAll'
  BY DEF TypeOK, OwnTmp, Undisturbed, SavesAll, ContactsKept, Writing, Text
<1>4. NeverDamaged' /\ ContactsKept' /\ OneIdentity'
  BY DEF TypeOK, NeverDamaged, Undisturbed, ContactsKept, OneIdentity, UsesIdentity, LoadContacts
<1>9. TmpFilled' /\ IdentityHeals'
  BY DEF TypeOK, TmpFilled, IdentityHeals, Creating, Unreadable
<1> QED
  BY <1>1, <1>2, <1>3, <1>4, <1>9

\* A node takes the list into memory, ...
LEMMA NodeLoadsKeeps ==
  ASSUME IInv, NEW p \in Process, NodeLoads(p)
  PROVE  IInv'
<1> USE StateFilesAssumption DEF IInv, Files, Shape, NodeLoads, Goto
<1>1. TypeOK' /\ Shape'
  BY DEF TypeOK, At, Unreadable, LoadContacts
<1>2. /\ OneAtATime' /\ IdentityIsNew' /\ OneCreator'
      /\ WorksWithIdentity' /\ NotYetAdding'
  BY DEF TypeOK, OneAtATime, IdentityIsNew, OneCreator, Creating, WorksWithIdentity,
     NotYetAdding, Writing, Ended
<1>3. OwnTmp' /\ SavesAll'
  BY DEF TypeOK, OwnTmp, Undisturbed, SavesAll, ContactsKept, Writing, Text
<1>4. NeverDamaged' /\ ContactsKept' /\ OneIdentity'
  BY DEF TypeOK, NeverDamaged, Undisturbed, ContactsKept, OneIdentity, UsesIdentity, LoadContacts
<1>9. TmpFilled' /\ IdentityHeals'
  BY DEF TypeOK, TmpFilled, IdentityHeals, Creating, Unreadable
<1> QED
  BY <1>1, <1>2, <1>3, <1>4, <1>9

\* ... is about to save it with one more, ...
LEMMA NodeAddsKeeps ==
  ASSUME IInv, NEW p \in Process, NEW k \in Contact, NodeAdds(p, k)
  PROVE  IInv'
<1> USE StateFilesAssumption DEF IInv, Files, Shape, NodeAdds, Goto, StartWrite
<1>1. TypeOK' /\ Shape'
  BY DEF TypeOK, At
<1>2. /\ OneAtATime' /\ IdentityIsNew' /\ OneCreator'
      /\ WorksWithIdentity' /\ NotYetAdding'
  BY DEF TypeOK, OneAtATime, IdentityIsNew, OneCreator, Creating, WorksWithIdentity,
     NotYetAdding, Writing, Ended
<1>3. OwnTmp' /\ SavesAll'
  BY DEF TypeOK, OwnTmp, Undisturbed, SavesAll, Writing, Text
<1>4. NeverDamaged' /\ ContactsKept' /\ OneIdentity'
  BY DEF NeverDamaged, Undisturbed, ContactsKept, OneIdentity, UsesIdentity, LoadContacts
<1>9. TmpFilled' /\ IdentityHeals'
  BY DEF TypeOK, TmpFilled, IdentityHeals, Creating, Unreadable
<1> QED
  BY <1>1, <1>2, <1>3, <1>4, <1>9

\* ... and ends.
LEMMA NodeStopsKeeps ==
  ASSUME IInv, NEW p \in Process, NodeStops(p)
  PROVE  IInv'
<1> USE StateFilesAssumption DEF IInv, Files, Shape, NodeStops, Goto
<1>1. TypeOK' /\ Shape'
  BY DEF TypeOK, At
<1>2. /\ OneAtATime' /\ IdentityIsNew' /\ OneCreator'
      /\ WorksWithIdentity' /\ NotYetAdding'
  BY DEF OneAtATime, IdentityIsNew, OneCreator, Creating, WorksWithIdentity, NotYetAdding,
     Writing, Ended
<1>3. OwnTmp' /\ SavesAll'
  BY DEF OwnTmp, Undisturbed, SavesAll, Writing, Text
<1>4. NeverDamaged' /\ ContactsKept' /\ OneIdentity'
  BY DEF NeverDamaged, Undisturbed, ContactsKept, OneIdentity, UsesIdentity, LoadContacts
<1>9. TmpFilled' /\ IdentityHeals'
  BY DEF TypeOK, TmpFilled, IdentityHeals, Creating, Unreadable
<1> QED
  BY <1>1, <1>2, <1>3, <1>4, <1>9

\* A process that is killed leaves its temporary file, whatever it holds.
LEMMA KillKeeps ==
  ASSUME IInv, NEW p \in Process, Kill(p)
  PROVE  IInv'
<1> USE StateFilesAssumption DEF IInv, Files, Shape, Kill, Goto
<1>1. TypeOK' /\ Shape'
  BY DEF TypeOK, At
<1>2. /\ OneAtATime' /\ IdentityIsNew' /\ OneCreator'
      /\ WorksWithIdentity' /\ NotYetAdding'
  BY DEF OneAtATime, IdentityIsNew, OneCreator, Creating, WorksWithIdentity, NotYetAdding,
     Writing
<1>3. OwnTmp' /\ SavesAll'
  BY DEF TypeOK, OwnTmp, Undisturbed, SavesAll, Writing, Text
<1>4. NeverDamaged' /\ ContactsKept' /\ OneIdentity'
  BY DEF NeverDamaged, Undisturbed, ContactsKept, OneIdentity, UsesIdentity, LoadContacts
<1>9. TmpFilled' /\ IdentityHeals'
  BY DEF TypeOK, TmpFilled, IdentityHeals, Creating, Unreadable
<1> QED
  BY <1>1, <1>2, <1>3, <1>4, <1>9

\* Opening truncates the temporary file of whoever was killed before.
LEMMA OpenKeeps ==
  ASSUME IInv, NEW p \in Process, NEW f \in Files, Open(p, f)
  PROVE  IInv'
<1> USE StateFilesAssumption DEF IInv, Files, Shape, Open, Goto
<1>1. TypeOK' /\ Shape'
  BY DEF TypeOK, Content, At
<1>2. /\ OneAtATime' /\ IdentityIsNew' /\ OneCreator'
      /\ WorksWithIdentity' /\ NotYetAdding'
  BY DEF OneAtATime, IdentityIsNew, OneCreator, Creating, WorksWithIdentity, NotYetAdding,
     Writing, Ended
<1>3. OwnTmp' /\ SavesAll'
  <2>1. OwnTmp'
    <3> SUFFICES ASSUME NEW q \in Process, NEW g \in Files, Undisturbed(g), Writing(q, g)',
                        at'[q] \in {"write", "rename"}
                 PROVE  /\ at'[q] = "write" => handle'[q] = "tmp" /\ tmp'[g] = Empty
                        /\ at'[q] = "rename" => tmp'[g] = Text(q, g)
      BY DEF OwnTmp, Undisturbed, Text, Writing
    <3>1. CASE q = p
      BY <3>1 DEF TypeOK, Writing
    <3>2. CASE q # p
      <4>1. Writing(q, g) /\ Writing(p, f)
        BY <3>2 DEF Writing
      <4>2. f # g
        BY <3>2, <4>1, OnlyWriter
      <4> QED
        BY <3>2, <4>1, <4>2 DEF OwnTmp
    <3> QED
      BY <3>1, <3>2
  <2> QED
    BY <2>1 DEF TypeOK, OneAtATime, SavesAll, Writing, Ended
<1>4. NeverDamaged' /\ ContactsKept' /\ OneIdentity'
  BY DEF NeverDamaged, Undisturbed, ContactsKept, OneIdentity, UsesIdentity, LoadContacts
<1>9. TmpFilled' /\ IdentityHeals'
  BY DEF TypeOK, TmpFilled, IdentityHeals, Creating, Unreadable
<1> QED
  BY <1>1, <1>2, <1>3, <1>4, <1>9

\* Writing fills it with the text of the process that opened it.
LEMMA WriteKeeps ==
  ASSUME IInv, NEW p \in Process, NEW f \in Files, Write(p, f)
  PROVE  IInv'
<1> USE StateFilesAssumption DEF IInv, Files, Shape, Write, Goto
<1>0. Undisturbed(f) => /\ handle[p] = "tmp" /\ file' = file
                        /\ tmp' = [tmp EXCEPT ![f] = Text(p, f)]
  BY OverlayContent DEF OwnTmp, Writing, Text
<1>a. ~raced => file'["identity"] = file["identity"]
  BY <1>0 DEF Undisturbed
<1>1. TypeOK' /\ Shape'
  BY OverlayContent DEF TypeOK, Content, At, IdentityIsNew, Creating
<1>2. /\ OneAtATime' /\ IdentityIsNew' /\ OneCreator'
      /\ WorksWithIdentity' /\ NotYetAdding'
  BY <1>a DEF OneAtATime, IdentityIsNew, OneCreator, Creating, WorksWithIdentity,
     NotYetAdding, Writing, Ended
<1>3. OwnTmp' /\ SavesAll'
  <2>1. OwnTmp'
    <3> SUFFICES ASSUME NEW q \in Process, NEW g \in Files, Undisturbed(g), Writing(q, g)',
                        at'[q] \in {"write", "rename"}
                 PROVE  /\ at'[q] = "write" => handle'[q] = "tmp" /\ tmp'[g] = Empty
                        /\ at'[q] = "rename" => tmp'[g] = Text(q, g)
      BY DEF OwnTmp, Undisturbed, Text, Writing
    <3>1. CASE q = p
      BY <1>0, <3>1 DEF TypeOK, Writing
    <3>2. CASE q # p
      <4>1. Writing(q, g) /\ Writing(p, f)
        BY <3>2 DEF Writing
      <4>2. f # g
        BY <3>2, <4>1, OnlyWriter
      <4> QED
        BY <3>2, <4>1, <4>2 DEF OwnTmp
    <3> QED
      BY <3>1, <3>2
  <2> QED
    BY <2>1 DEF TypeOK, SavesAll, Writing, Ended
<1>4. NeverDamaged' /\ ContactsKept' /\ OneIdentity'
  <2>1. \A g \in Files : Undisturbed(g) => file'[g] = file[g]
    BY <1>0
  <2> QED
    BY <1>a, <2>1 DEF NeverDamaged, Undisturbed, ContactsKept, OneIdentity, UsesIdentity, LoadContacts
<1>9. TmpFilled' /\ IdentityHeals'
  <2>1. CASE f = "identity"
    <3>1. ident[p] \notin {Empty, Garbage}
      BY <2>1 DEF IdentityIsNew, Creating
    <3>2. handle[p] = "tmp" => tmp'["identity"] = ident[p] /\ file' = file
      BY <2>1, OverlayContent
    <3>3. handle[p] = "path" => file'["identity"] = ident[p] /\ tmp' = tmp
      BY <2>1, OverlayContent
    <3>4. handle[p] \notin {"tmp", "path"} => file' = file /\ tmp' = tmp
      OBVIOUS
    <3>5. \A q \in Process \ {p} : Creating(q) /\ at[q] = "write" =>
            Creating(q)' /\ at'[q] = "write" /\ handle'[q] = handle[q]
      BY DEF TypeOK, Creating
    <3>6. TmpFilled'
      BY <3>1, <3>2, <3>3, <3>4, <3>5 DEF TmpFilled
    <3>7. IdentityHeals'
      BY <3>1, <3>2, <3>3, <3>4, <3>5 DEF IdentityHeals, Unreadable
    <3> QED
      BY <3>6, <3>7
  <2>2. CASE f = "contacts"
    BY <2>2 DEF TypeOK, TmpFilled, IdentityHeals, Creating, Unreadable
  <2> QED
    BY <2>1, <2>2
<1> QED
  BY <1>1, <1>2, <1>3, <1>4, <1>9

\* Renaming makes it the file, which is then what the process meant to save.
LEMMA RenameKeeps ==
  ASSUME IInv, NEW p \in Process, NEW f \in Files, Rename(p, f)
  PROVE  IInv'
<1> USE StateFilesAssumption DEF IInv, Files, Shape, Rename, Goto, After
<1>1. TypeOK' /\ Shape'
  BY DEF TypeOK, Content, At
<1>2. OneAtATime' /\ IdentityIsNew' /\ OneCreator' /\ NotYetAdding'
  BY DEF TypeOK, OneAtATime, IdentityIsNew, OneCreator, Creating, NotYetAdding, Writing, Ended
<1>3. WorksWithIdentity'
  <2>1. CASE f = "identity" /\ tmp[f] # Absent
    <3>1. ~raced => file["identity"] = Absent /\ file'["identity"] = ident[p]
      BY <2>1 DEF IdentityIsNew, Creating, OwnTmp, Undisturbed, Writing, Text
    <3>2. ~raced => \A q \in Process \ {p} :
                      ~(at[q] \in {"loaded", "ready"} \/ Writing(q, "contacts"))
      BY <3>1 DEF WorksWithIdentity
    <3> QED
      BY <2>1, <3>1, <3>2 DEF TypeOK, WorksWithIdentity, Writing
  <2>2. CASE ~(f = "identity" /\ tmp[f] # Absent)
    BY <2>2 DEF TypeOK, WorksWithIdentity, Writing
  <2> QED
    BY <2>1, <2>2
<1>4. OwnTmp' /\ SavesAll'
  <2>1. OwnTmp'
    <3> SUFFICES ASSUME NEW q \in Process, NEW g \in Files, Undisturbed(g), Writing(q, g)',
                        at'[q] \in {"write", "rename"}
                 PROVE  /\ at'[q] = "write" => handle'[q] = "tmp" /\ tmp'[g] = Empty
                        /\ at'[q] = "rename" => tmp'[g] = Text(q, g)
      BY DEF OwnTmp, Undisturbed, Text, Writing
    <3>1. q # p /\ Writing(q, g) /\ Writing(p, f)
      BY DEF TypeOK, Writing
    <3>2. f # g
      BY <3>1, OnlyWriter
    <3>3. at'[q] = at[q] /\ handle'[q] = handle[q] /\ tmp'[g] = tmp[g]
      BY <3>1, <3>2 DEF TypeOK, Writing
    <3> QED
      BY <3>1, <3>3 DEF OwnTmp
  <2> QED
    BY <2>1 DEF TypeOK, OneAtATime, SavesAll, Writing, Ended
<1>5. NeverDamaged' /\ ContactsKept'
  <2>1. Undisturbed(f) /\ tmp[f] # Absent => file'[f] = Text(p, f)
    BY DEF OwnTmp, Writing
  <2>2. Text(p, f) \notin Unreadable
    BY DEF TypeOK, Text, IdentityIsNew, Creating, Unreadable
  <2>3. NeverDamaged'
    BY <2>1, <2>2 DEF NeverDamaged, Undisturbed
  <2>4. ContactsKept'
    BY <2>1 DEF TypeOK, Undisturbed, SavesAll, ContactsKept, LoadContacts, Writing, Text
  <2> QED
    BY <2>3, <2>4
<1>6. OneIdentity'
  <2> SUFFICES ASSUME ~raced PROVE OneIdentity'
    BY DEF OneIdentity
  <2>1. CASE f = "identity" /\ tmp[f] # Absent
    <3>1. file["identity"] = Absent /\ file'["identity"] = ident[p]
      BY <2>1 DEF IdentityIsNew, Creating, OwnTmp, Undisturbed, Writing, Text
    <3>2. \A q \in Process \ {p} : ~UsesIdentity(q) /\ at'[q] = at[q]
      BY <3>1 DEF TypeOK, OneIdentity, UsesIdentity
    <3> QED
      BY <3>1, <3>2 DEF OneIdentity, UsesIdentity
  <2>2. CASE ~(f = "identity" /\ tmp[f] # Absent)
    <3>1. file'["identity"] = file["identity"]
      BY <2>2
    <3>2. ASSUME NEW q \in Process, UsesIdentity(q)' PROVE ident[q] = file["identity"]
      BY <2>2, <3>2 DEF TypeOK, WorksWithIdentity, Writing, OneIdentity, UsesIdentity
    <3> QED
      BY <3>1, <3>2 DEF OneIdentity
  <2> QED
    BY <2>1, <2>2
<1>9. TmpFilled' /\ IdentityHeals'
  BY DEF TypeOK, TmpFilled, IdentityHeals, Creating, Unreadable
<1> QED
  BY <1>1, <1>2, <1>3, <1>4, <1>5, <1>6, <1>9

-----------------------------------------------------------------------------
\* Every step keeps the invariant ...
LEMMA IInvInductive == IInv /\ [Next]_vars => IInv'
<1> SUFFICES ASSUME IInv, [Next]_vars PROVE IInv'
  OBVIOUS
<1>1. CASE UNCHANGED vars
  BY <1>1 DEF vars, IInv, TypeOK, Shape, OneAtATime, IdentityIsNew, OneCreator, Creating,
     WorksWithIdentity, OwnTmp, Undisturbed, NotYetAdding, SavesAll, NeverDamaged, TmpFilled,
     IdentityHeals, ContactsKept,
     OneIdentity, UsesIdentity, LoadContacts, Writing, Text
<1>2. ASSUME NEW p \in Process,
             \/ LoadIdentity(p) \/ CreateIdentity(p)
             \/ InitContacts(p) \/ NodeLoads(p) \/ NodeStops(p) \/ Kill(p)
      PROVE  IInv'
  BY <1>2, LoadIdentityKeeps, CreateIdentityKeeps, InitContactsKeeps, NodeLoadsKeeps,
     NodeStopsKeeps, KillKeeps
<1>3. ASSUME NEW p \in Process, NEW k \in Contact, AddContact(p, k) \/ NodeAdds(p, k)
      PROVE  IInv'
  BY <1>3, AddContactKeeps, NodeAddsKeeps
<1>4. ASSUME NEW p \in Process, NEW f \in Files, Open(p, f) \/ Write(p, f) \/ Rename(p, f)
      PROVE  IInv'
  BY <1>4, OpenKeeps, WriteKeeps, RenameKeeps
<1> QED
  BY <1>1, <1>2, <1>3, <1>4 DEF Next

\* ... and so it always holds.
LEMMA IInvHolds == Spec => []IInv
BY InitIInv, IInvInductive, PTL DEF Spec

-----------------------------------------------------------------------------
\* The types of the variables.
THEOREM TypeCorrect == Spec => []TypeOK
<1>1. IInv => TypeOK
  BY DEF IInv
<1> QED
  BY <1>1, IInvHolds, PTL

\* Neither file can be found damaged, wherever processes were killed, while
\* commands run one at a time; the identity file not even when they do not,
\* unless two of them were creating it at a time.
THEOREM FilesNeverDamaged == Spec => []NeverDamaged
<1>1. IInv => NeverDamaged
  BY DEF IInv
<1> QED
  BY <1>1, IInvHolds, PTL

\* A contact that add-contact or /add has reported stays in contacts.json while
\* commands run one at a time.
THEOREM ReportedContactsKept == Spec => []ContactsKept
<1>1. IInv => ContactsKept
  BY DEF IInv
<1> QED
  BY <1>1, IInvHolds, PTL

\* All processes past load_or_create work with the identity on disk, whatever
\* runs at the same time, unless two of them were creating it at a time.
THEOREM IdentityIsOne == Spec => []OneIdentity
<1>1. IInv => OneIdentity
  BY DEF IInv
<1> QED
  BY <1>1, IInvHolds, PTL

\* However many processes race to create the identity, without a kill an
\* identity that cannot be read is about to be filled (p4.py:66-70, 289).
THEOREM RacedIdentityHeals == Spec => []IdentityHeals
<1>1. IInv => IdentityHeals
  BY DEF IInv
<1> QED
  BY <1>1, IInvHolds, PTL

\* No step replaces an identity that is on disk, whatever runs at the same time,
\* unless two processes were creating it at a time.
THEOREM IdentityNeverReplaced == Spec => IdentityKept
<1>1. ASSUME IInv, [Next]_vars
      PROVE  file["identity"] # Absent /\ ~raced => file'["identity"] = file["identity"]
  <2> SUFFICES ASSUME file["identity"] # Absent, ~raced
               PROVE  file'["identity"] = file["identity"]
    OBVIOUS
  <2>1. \A p \in Process : ~Writing(p, "identity")
    BY <1>1 DEF IInv, IdentityIsNew, Creating, Writing
  <2>2. ASSUME NEW p \in Process, NEW f \in Files, Open(p, f) \/ Write(p, f) \/ Rename(p, f)
        PROVE  file'["identity"] = file["identity"]
    <3>1. f = "contacts"
      BY <2>1, <2>2 DEF Open, Write, Rename, Writing, Files
    <3> QED
      BY <1>1, <2>2, <3>1 DEF Open, Write, Rename, IInv, Shape, Files
  <2>3. ASSUME NEW p \in Process,
               \/ LoadIdentity(p) \/ CreateIdentity(p)
               \/ InitContacts(p) \/ NodeLoads(p) \/ NodeStops(p) \/ Kill(p)
               \/ \E c \in Contact : AddContact(p, c) \/ NodeAdds(p, c)
        PROVE  file'["identity"] = file["identity"]
    BY <2>3 DEF LoadIdentity, CreateIdentity, InitContacts, NodeLoads, NodeStops, Kill,
       AddContact, NodeAdds
  <2>4. CASE UNCHANGED vars
    BY <2>4 DEF vars
  <2> QED
    BY <1>1, <2>2, <2>3, <2>4 DEF Next
<1> QED
  BY <1>1, IInvHolds, PTL DEF Spec, IdentityKept
=============================================================================
