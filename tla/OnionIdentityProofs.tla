------------------------ MODULE OnionIdentityProofs ------------------------
(***************************************************************************)
(* The invariants of OnionIdentity, for any number of processes, keys and  *)
(* crashes.                                                                *)
(***************************************************************************)
EXTENDS OnionIdentity, TLAPS

\* Where a process has a relay of its own.
WithRelay == {"add", "sid", "sidOpen", "key", "keyOpen", "boot", "serving"}
\* Where it writes one of the two files.
Writing == {"sid", "sidOpen", "key", "keyOpen"}

\* One process at a time works with the relay and writes the files.
Holder == \A p \in Proc : at[p] \in WithRelay => relay = p

\* What a process knows after ADD_ONION.  The last two conjuncts are what
\* the order of the two writes is for: the key file is only ever opened when
\* it holds no key, and then the service id is already there.
Replies ==
  \A p \in Proc :
    /\ at[p] \in WithRelay \ {"add"} => id[p] \in Key
    /\ at[p] \in {"sid", "sidOpen"} /\ ~isNew[p] => keyFile = id[p]
    /\ at[p] \in {"boot", "serving"} => keyFile = id[p] /\ sidFile = id[p]
    /\ at[p] \in Writing /\ isNew[p] => keyFile \notin Key
    /\ at[p] \in {"key", "keyOpen"} => isNew[p] /\ sidFile = id[p]

\* A key on disk is the key of the service id on disk.
SidOfKey == keyFile \in Key => sidFile \in {keyFile, Empty}

\* What was served is what the key file holds.
PublishedIsKey == \A a \in published : a = keyFile

\* a is the address that the key file holds or is about to hold.
Coming(a) ==
  \/ a = keyFile
  \/ \E p \in Proc : at[p] \in {"key", "keyOpen"} /\ id[p] = a

\* Unless a process was killed between the two writes, every address on disk
\* or in an invite is that address.
HandedOut ==
  killedAt \cap {"key", "keyOpen"} = {} => /\ sidFile \in Key => Coming(sidFile)
                 /\ \A a \in printed \ {Empty} : Coming(a)

\* "invite" only reads a file that is there.
ReadHasFile == \A p \in Proc : at[p] = "read" => sidFile # Absent

\* The inductive invariant.
IInv ==
  /\ TypeOK
  /\ Holder
  /\ Replies
  /\ SidOfKey
  /\ PublishedIsKey
  /\ HandedOut
  /\ ReadHasFile
  /\ EmptyOnlyInRewrite

-----------------------------------------------------------------------------
\* Initially there are no files and no relay.
LEMMA InitIInv == Init => IInv
<1> SUFFICES ASSUME Init PROVE IInv
  OBVIOUS
<1>1. TypeOK
  BY OnionAssumption DEF Init, TypeOK, Step
<1>2. Holder /\ Replies
  BY DEF Init, Holder, Replies, WithRelay, Writing
<1>3. SidOfKey /\ PublishedIsKey /\ HandedOut /\ ReadHasFile
  BY OnionAssumption DEF Init, SidOfKey, PublishedIsKey, HandedOut, Coming, ReadHasFile
<1>4. EmptyOnlyInRewrite
  BY DEF Init, EmptyOnlyInRewrite, Absent, Empty
<1> QED
  BY <1>1, <1>2, <1>3, <1>4 DEF IInv

\* The types are preserved.
LEMMA NextTypeOK == IInv /\ Next => TypeOK'
<1> SUFFICES ASSUME IInv, Next PROVE TypeOK'
  OBVIOUS
<1> USE OnionAssumption DEF IInv, TypeOK, fileVars, Step
<1>1. ASSUME NEW p \in Proc,
             RunStart(p) \/ InviteStart(p) \/ Ensure(p) \/ RelayUp(p) \/ RelayExits(p)
      PROVE  TypeOK'
  BY <1>1 DEF RunStart, InviteStart, Ensure, RelayUp, RelayExits, HaveFiles
<1>2. ASSUME NEW p \in Proc, AddOnion(p)
      PROVE  TypeOK'
  <2>1. LoadOnionKeyBlob \in Key \cup {None}
    BY DEF LoadOnionKeyBlob
  <2>2. used' \subseteq Key /\ id' \in [Proc -> Key \cup {None}]
    BY <1>2, <2>1 DEF AddOnion
  <2> QED
    BY <1>2, <2>2 DEF AddOnion
<1>3. ASSUME NEW p \in Proc,
             OpenSid(p) \/ WriteSid(p) \/ OpenKey(p) \/ WriteKey(p)
      PROVE  TypeOK'
  BY <1>3 DEF OpenSid, WriteSid, OpenKey, WriteKey, Replies, WithRelay
<1>4. ASSUME NEW p \in Proc, Publish(p) \/ EnsureDone(p) \/ StartFails(p) \/ Shutdown(p)
      PROVE  TypeOK'
  BY <1>4 DEF Publish, EnsureDone, StartFails, Shutdown, Replies, WithRelay
<1>5. ASSUME NEW p \in Proc, PrintInvite(p)
      PROVE  TypeOK'
  BY <1>5 DEF PrintInvite, ReadHasFile
<1>6. ASSUME NEW p \in Proc, Crash(p)
      PROVE  TypeOK'
  <2>1. at[p] \in Step /\ killedAt' = killedAt \cup {at[p]} /\ "idle" \in Step
    BY <1>6 DEF Crash
  <2>2. killedAt' \subseteq Step /\ at' \in [Proc -> Step]
    BY <1>6, <2>1 DEF Crash
  <2> QED
    BY <1>6, <2>2 DEF Crash
<1>7. CASE OrphanEnds
  BY <1>7 DEF OrphanEnds
<1> QED
  BY <1>1, <1>2, <1>3, <1>4, <1>5, <1>6, <1>7 DEF Next

\* Only the process that brings the relay up gains it, and nobody loses it
\* that goes on working.
LEMMA NextHolder == IInv /\ Next => Holder'
<1> SUFFICES ASSUME IInv, Next PROVE Holder'
  OBVIOUS
<1> USE OnionAssumption DEF IInv, TypeOK, Holder, WithRelay, Step
<1>1. ASSUME NEW p \in Proc,
             RunStart(p) \/ InviteStart(p) \/ Ensure(p) \/ RelayUp(p) \/ RelayExits(p)
      PROVE  Holder'
  BY <1>1 DEF RunStart, InviteStart, Ensure, RelayUp, RelayExits, HaveFiles
<1>2. ASSUME NEW p \in Proc,
             AddOnion(p) \/ OpenSid(p) \/ WriteSid(p) \/ OpenKey(p) \/ WriteKey(p)
      PROVE  Holder'
  BY <1>2 DEF AddOnion, OpenSid, WriteSid, OpenKey, WriteKey
<1>3. ASSUME NEW p \in Proc,
             Publish(p) \/ EnsureDone(p) \/ StartFails(p) \/ PrintInvite(p) \/ Shutdown(p)
      PROVE  Holder'
  BY <1>3 DEF Publish, EnsureDone, StartFails, PrintInvite, Shutdown
<1>4. ASSUME NEW p \in Proc, Crash(p)
      PROVE  Holder'
  BY <1>4 DEF Crash
<1>5. CASE OrphanEnds
  BY <1>5 DEF OrphanEnds
<1> QED
  BY <1>1, <1>2, <1>3, <1>4, <1>5 DEF Next

\* A process that goes on working finds the files as it left them.
LEMMA NextReplies == IInv /\ Next => Replies'
<1> SUFFICES ASSUME IInv, Next PROVE Replies'
  OBVIOUS
<1> USE OnionAssumption DEF IInv, TypeOK, Holder, Replies, WithRelay, Writing, Step, fileVars
<1>1. ASSUME NEW p \in Proc,
             RunStart(p) \/ InviteStart(p) \/ Ensure(p) \/ RelayUp(p) \/ RelayExits(p)
      PROVE  Replies'
  BY <1>1 DEF RunStart, InviteStart, Ensure, RelayUp, RelayExits, HaveFiles
<1>2. ASSUME NEW p \in Proc, AddOnion(p)
      PROVE  Replies'
  BY <1>2 DEF AddOnion, LoadOnionKeyBlob
<1>3. ASSUME NEW p \in Proc, OpenSid(p)
      PROVE  Replies'
  BY <1>3 DEF OpenSid
<1>4. ASSUME NEW p \in Proc, WriteSid(p)
      PROVE  Replies'
  BY <1>4 DEF WriteSid
<1>5. ASSUME NEW p \in Proc, OpenKey(p)
      PROVE  Replies'
  BY <1>5 DEF OpenKey
<1>6. ASSUME NEW p \in Proc, WriteKey(p)
      PROVE  Replies'
  BY <1>6 DEF WriteKey
<1>7. ASSUME NEW p \in Proc,
             Publish(p) \/ EnsureDone(p) \/ StartFails(p) \/ PrintInvite(p)
             \/ Shutdown(p) \/ Crash(p)
      PROVE  Replies'
  BY <1>7 DEF Publish, EnsureDone, StartFails, PrintInvite, Shutdown, Crash
<1>8. CASE OrphanEnds
  BY <1>8 DEF OrphanEnds
<1> QED
  BY <1>1, <1>2, <1>3, <1>4, <1>5, <1>6, <1>7, <1>8 DEF Next

\* Files that are written stay in step, and a key on disk is never replaced.
LEMMA NextFiles == IInv /\ Next => SidOfKey' /\ PublishedIsKey' /\ ReadHasFile'
<1> SUFFICES ASSUME IInv, Next PROVE SidOfKey' /\ PublishedIsKey' /\ ReadHasFile'
  OBVIOUS
<1> USE OnionAssumption DEF IInv, TypeOK, Replies, SidOfKey, PublishedIsKey,
                            ReadHasFile, WithRelay, Writing, Step, fileVars
<1>1. ASSUME NEW p \in Proc,
             RunStart(p) \/ InviteStart(p) \/ Ensure(p) \/ RelayUp(p) \/ RelayExits(p)
      PROVE  SidOfKey' /\ PublishedIsKey' /\ ReadHasFile'
  BY <1>1 DEF RunStart, InviteStart, Ensure, RelayUp, RelayExits, HaveFiles
<1>2. ASSUME NEW p \in Proc, AddOnion(p)
      PROVE  SidOfKey' /\ PublishedIsKey' /\ ReadHasFile'
  BY <1>2 DEF AddOnion
<1>3. ASSUME NEW p \in Proc, OpenSid(p) \/ WriteSid(p)
      PROVE  SidOfKey' /\ PublishedIsKey' /\ ReadHasFile'
  BY <1>3 DEF OpenSid, WriteSid, Absent, Empty
<1>4. ASSUME NEW p \in Proc, OpenKey(p) \/ WriteKey(p)
      PROVE  SidOfKey' /\ PublishedIsKey' /\ ReadHasFile'
  BY <1>4 DEF OpenKey, WriteKey
<1>5. ASSUME NEW p \in Proc,
             Publish(p) \/ EnsureDone(p) \/ StartFails(p) \/ PrintInvite(p)
             \/ Shutdown(p) \/ Crash(p)
      PROVE  SidOfKey' /\ PublishedIsKey' /\ ReadHasFile'
  BY <1>5 DEF Publish, EnsureDone, StartFails, PrintInvite, Shutdown, Crash
<1>6. CASE OrphanEnds
  BY <1>6 DEF OrphanEnds
<1> QED
  BY <1>1, <1>2, <1>3, <1>4, <1>5, <1>6 DEF Next

\* Without a kill between the writes, a service id on disk is followed by its key.
LEMMA NextHandedOut == IInv /\ Next => HandedOut'
<1> SUFFICES ASSUME IInv, Next PROVE HandedOut'
  OBVIOUS
<1> USE OnionAssumption DEF IInv, TypeOK, Holder, Replies, HandedOut, Coming,
                            ReadHasFile, WithRelay, Writing, Step, fileVars
<1>1. ASSUME NEW p \in Proc,
             RunStart(p) \/ InviteStart(p) \/ Ensure(p) \/ RelayUp(p) \/ RelayExits(p)
      PROVE  HandedOut'
  BY <1>1 DEF RunStart, InviteStart, Ensure, RelayUp, RelayExits, HaveFiles
<1>2. ASSUME NEW p \in Proc, AddOnion(p) \/ OpenSid(p)
      PROVE  HandedOut'
  BY <1>2 DEF AddOnion, OpenSid
<1>3. ASSUME NEW p \in Proc, WriteSid(p)
      PROVE  HandedOut'
  BY <1>3 DEF WriteSid
<1>4. ASSUME NEW p \in Proc, OpenKey(p)
      PROVE  HandedOut'
  BY <1>4 DEF OpenKey
<1>5. ASSUME NEW p \in Proc, WriteKey(p)
      PROVE  HandedOut'
  BY <1>5 DEF WriteKey
<1>6. ASSUME NEW p \in Proc,
             Publish(p) \/ EnsureDone(p) \/ StartFails(p) \/ PrintInvite(p) \/ Shutdown(p)
      PROVE  HandedOut'
  BY <1>6 DEF Publish, EnsureDone, StartFails, PrintInvite, Shutdown
<1>7. ASSUME NEW p \in Proc, Crash(p)
      PROVE  HandedOut'
  BY <1>7 DEF Crash
<1>8. CASE OrphanEnds
  BY <1>8 DEF OrphanEnds
<1> QED
  BY <1>1, <1>2, <1>3, <1>4, <1>5, <1>6, <1>7, <1>8 DEF Next

\* Whoever opens the service id for writing fills it, unless it is killed.
LEMMA NextEmptyOnlyInRewrite == IInv /\ Next => EmptyOnlyInRewrite'
<1> SUFFICES ASSUME IInv, Next PROVE EmptyOnlyInRewrite'
  OBVIOUS
<1> USE OnionAssumption DEF IInv, TypeOK, Holder, Replies, EmptyOnlyInRewrite,
                            WithRelay, Step, fileVars
<1>1. ASSUME NEW p \in Proc,
             RunStart(p) \/ InviteStart(p) \/ Ensure(p) \/ RelayUp(p) \/ RelayExits(p)
             \/ AddOnion(p)
      PROVE  EmptyOnlyInRewrite'
  BY <1>1 DEF RunStart, InviteStart, Ensure, RelayUp, RelayExits, HaveFiles, AddOnion
<1>2. ASSUME NEW p \in Proc, OpenSid(p) \/ WriteSid(p) \/ OpenKey(p) \/ WriteKey(p)
      PROVE  EmptyOnlyInRewrite'
  BY <1>2 DEF OpenSid, WriteSid, OpenKey, WriteKey
<1>3. ASSUME NEW p \in Proc,
             Publish(p) \/ EnsureDone(p) \/ StartFails(p) \/ PrintInvite(p) \/ Shutdown(p)
      PROVE  EmptyOnlyInRewrite'
  BY <1>3 DEF Publish, EnsureDone, StartFails, PrintInvite, Shutdown
<1>4. ASSUME NEW p \in Proc, Crash(p)
      PROVE  EmptyOnlyInRewrite'
  BY <1>4 DEF Crash
<1>5. CASE OrphanEnds
  BY <1>5 DEF OrphanEnds
<1> QED
  BY <1>1, <1>2, <1>3, <1>4, <1>5 DEF Next

-----------------------------------------------------------------------------
\* The strengthened invariant holds whatever the processes do and whichever
\* of them are killed.
THEOREM OnionInvariant == Spec => []IInv
<1>1. IInv /\ [Next]_vars => IInv'
  <2>1. IInv /\ UNCHANGED vars => IInv'
    BY DEF vars, fileVars, IInv, TypeOK, Holder, Replies, SidOfKey, PublishedIsKey,
           HandedOut, Coming, ReadHasFile, EmptyOnlyInRewrite
  <2> QED
    BY <2>1, NextTypeOK, NextHolder, NextReplies, NextFiles, NextHandedOut,
       NextEmptyOnlyInRewrite DEF IInv
<1> QED
  BY <1>1, InitIInv, PTL DEF Spec

\* The files hold a key, nothing, or do not exist; "invite" never meets a
\* missing file after it has looked for it (p4.py:1318-1337).
THEOREM OnionTypes == Spec => []TypeOK
BY OnionInvariant, PTL DEF IInv

\* Every start of the node that succeeds serves the same address
\* (_onionrelay_add_onion_service, p4.py:652-677).
THEOREM OnionOneAddress == Spec => []OneAddress
<1>1. IInv => OneAddress
  BY DEF IInv, PublishedIsKey, OneAddress
<1> QED
  BY <1>1, OnionInvariant, PTL

\* After the first such start the key file is complete for ever, and the
\* service id file holds that address or is being rewritten.
THEOREM OnionPublishedPersists == Spec => []PublishedPersists
<1>1. IInv => PublishedPersists
  BY DEF IInv, TypeOK, PublishedIsKey, SidOfKey, PublishedPersists
<1> QED
  BY <1>1, OnionInvariant, PTL

\* "invite" and "run" hand out one address unless a process was killed between
\* the write of the service id and that of its key, and the service id is empty
\* only during a rewrite or after a kill in one (p4.py:673-676, 1327).
THEOREM OnionInvitesAgree == Spec => []InvitesAgree
<1>1. IInv => AddressesAgree
  <2> SUFFICES ASSUME IInv, killedAt \cap {"key", "keyOpen"} = {},
                      NEW a \in (printed \cup published) \ {Empty},
                      NEW b \in (printed \cup published) \ {Empty}
               PROVE  a = b
    BY DEF AddressesAgree
  <2>1. Coming(a) /\ Coming(b) /\ a \in Key /\ b \in Key
    BY DEF IInv, TypeOK, HandedOut, PublishedIsKey, Coming
  <2> QED
    BY <2>1 DEF IInv, Coming, Holder, Replies, WithRelay, Writing
<1>2. IInv => InvitesAgree
  BY <1>1 DEF IInv, InvitesAgree
<1> QED
  BY <1>2, OnionInvariant, PTL
=============================================================================
