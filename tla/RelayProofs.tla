----------------------------- MODULE RelayProofs -----------------------------
(***************************************************************************)
(* The thread pool of the relay, for every number of workers, work items,  *)
(* priorities and updates; and, in the second part, what a controller      *)
(* reads of the relay's progress, for every scale of statuses.             *)
(*                                                                         *)
(* The inductive invariant of the pool has three parts that hold each      *)
(* other up only through the types: where the work items are, which        *)
(* arguments of updates are still the pool's, and who is left of the       *)
(* threads.                                                                *)
(***************************************************************************)
EXTENDS WorkQueue, Bootstrap, FiniteSetTheorems, SequenceTheorems, TLAPS

-----------------------------------------------------------------------------
(* Where the items are.                                                    *)

\* A queue holds queued items, none of them twice in all queues, and every
\* queued item is in one.
InQueues ==
  /\ \A p \in Prio : \A i \in DOMAIN queue[p] : status[queue[p][i]] = "queued"
  /\ \A p, r \in Prio : \A i \in DOMAIN queue[p], j \in DOMAIN queue[r] :
        queue[p][i] = queue[r][j] => p = r /\ i = j
  /\ \A x \in Work : status[x] = "queued" =>
        \E p \in Prio : \E i \in DOMAIN queue[p] : queue[p][i] = x

\* The same for what the workers run ...
InWorkers ==
  /\ \A w \in Worker : job[w] # None <=> at[w] = "work"
  /\ \A w \in Worker : job[w] # None => status[job[w]] = "running"
  /\ \A v, w \in Worker : job[v] # None /\ job[v] = job[w] => v = w
  /\ \A x \in Work : status[x] = "running" => \E w \in Worker : job[w] = x

\* ... and for the answers.
InAnswers ==
  /\ \A i \in DOMAIN answers : status[answers[i]] = "answered"
  /\ \A i, j \in DOMAIN answers : answers[i] = answers[j] => i = j
  /\ \A x \in Work : status[x] = "answered" => \E i \in DOMAIN answers : answers[i] = x

-----------------------------------------------------------------------------
(* Updates and threads.                                                    *)

\* The pool keeps the latest update's argument for the workers that have not
\* taken it; what was run or freed is of an update that was queued, and is not
\* what the pool still keeps.
Arguments ==
  /\ \A w \in Worker : /\ seenGen[w] <= gen
                       /\ args[w] = IF seenGen[w] = gen THEN 0 ELSE gen
  /\ \A u \in 0..MaxUpdates, w \in Worker :
        <<u, w>> \in ran \cup freed => 1 <= u /\ u <= gen /\ u # args[w]
  /\ ran \cap freed = {}

\* The threads that n_worker_threads_running counts.
Active == {w \in Worker : at[w] \notin {"spawned", "exiting", "gone"}}

\* Until its wait is over the main thread has the lock, so that nobody gets
\* beyond it.
Starting ==
  main \in {"starting", "started"} =>
    /\ lock = Main /\ control = None /\ answers = <<>>
    /\ \A w \in Worker : at[w] \in {"spawned", "top"}

\* All threads are counted when the wait is over, unless it ended early, and
\* control_lock is given up by the last of them to leave.
Threads ==
  /\ running = Cardinality(Active)
  /\ main = "freed" => control = None
  /\ ~early /\ main # "starting" => \A w \in Worker : at[w] # "spawned"
  /\ ~early /\ main \notin {"starting", "started"} /\ control = None => Active = {}

\* Who leaves has the pool's lock until it is gone.
LeaverLocks == \A w \in Worker : at[w] = "exiting" => lock = w

\* The inductive invariant.
IInv ==
  /\ TypeOK /\ InQueues /\ InWorkers /\ InAnswers /\ Arguments /\ Starting /\ Threads
  /\ LeaverLocks /\ RepliesNoticed /\ NobodySleepsOnWork

-----------------------------------------------------------------------------
(* Steps that leave a part of the state alone.                             *)

\* The variables of work items, and those of updates.
itemVars == <<queue, status, job, answers>>
updateVars == <<gen, seenGen, args, ran, freed>>

\* A signal moves waiting threads to the lock.
LEMMA Signals ==
  ASSUME TypeOK, SignalOne \/ SignalAll
  PROVE  /\ at' \in [Worker -> At]
         /\ \A w \in Worker : at'[w] = at[w] \/ (at[w] = "waiting" /\ at'[w] = "top")
BY DEF TypeOK, SignalOne, SignalAll, Waiting, At

\* Only what queues, takes, runs, cancels or answers work moves an item, or
\* takes a worker to or from its work.
LEMMA ItemsStay ==
  ASSUME TypeOK, [Next]_vars
  PROVE  \/ UNCHANGED itemVars /\ \A w \in Worker : at'[w] = "work" <=> at[w] = "work"
         \/ \E w \in Worker : TakeWork(w) \/ WorkDone(w)
         \/ \E x \in Work, p \in Prio : QueueWork(x, p)
         \/ \E x \in Work : Cancel(x)
         \/ Reply
<1> USE DEF itemVars, poolVars, threadVars, replyVars
<1>0. at \in [Worker -> At]
  BY DEF TypeOK
<1>1. CASE UNCHANGED vars
  BY <1>1 DEF vars
<1>2. ASSUME NEW w \in Worker, WorkerStep(w) \/ WakeUp(w), ~TakeWork(w), ~WorkDone(w)
      PROVE  UNCHANGED itemVars /\ \A v \in Worker : at'[v] = "work" <=> at[v] = "work"
  <2>1. /\ UNCHANGED itemVars /\ at[w] # "work"
        /\ \E a \in {"top", "update", "waiting", "inner", "exiting", "gone"} :
              at' = [at EXCEPT ![w] = a]
    BY <1>2 DEF WorkerStep, WakeUp, WorkerStart, TakeUpdate, WaitForWork, UpdateDone, Alert,
       Leave, Gone, InLoop
  <2> QED
    BY <1>0, <2>1
<1>3. CASE QueueUpdate \/ Stop
  <2>1. UNCHANGED itemVars /\ SignalAll
    BY <1>3 DEF QueueUpdate, Stop
  <2> QED
    BY <2>1, Signals
<1>4. CASE MainStarted \/ StartTimeout \/ MainWakeUp \/ Process \/ ProcessDone \/ Freed
  BY <1>4 DEF MainStarted, StartTimeout, MainWakeUp, Process, ProcessDone, Freed
<1> QED
  BY <1>1, <1>2, <1>3, <1>4 DEF Next

\* Only updates move an argument.
LEMMA UpdatesStay ==
  ASSUME [Next]_vars
  PROVE  UNCHANGED updateVars \/ QueueUpdate \/ \E w \in Worker : TakeUpdate(w)
<1> USE DEF updateVars, poolVars, threadVars
<1>1. CASE UNCHANGED vars
  BY <1>1 DEF vars
<1>2. ASSUME NEW w \in Worker, WorkerStep(w) \/ WakeUp(w)
      PROVE  UNCHANGED updateVars \/ TakeUpdate(w)
  BY <1>2 DEF WorkerStep, WakeUp, WorkerStart, TakeWork, WaitForWork, UpdateDone, WorkDone,
     Alert, Leave, Gone
<1>3. ASSUME NEW x \in Work, NEW p \in Prio, QueueWork(x, p)
      PROVE  UNCHANGED updateVars
  BY <1>3 DEF QueueWork
<1>4. ASSUME NEW x \in Work, Cancel(x)
      PROVE  UNCHANGED updateVars
  BY <1>4 DEF Cancel
<1>5. CASE MainStarted \/ StartTimeout \/ MainWakeUp \/ Process \/ Reply \/ ProcessDone
           \/ Stop \/ Freed
  BY <1>5 DEF MainStarted, StartTimeout, MainWakeUp, Process, Reply, ProcessDone, Stop, Freed
<1> QED
  BY <1>1, <1>2, <1>3, <1>4, <1>5 DEF Next

-----------------------------------------------------------------------------
(* Arguments of updates.                                                   *)

\* An argument goes to its worker once, or is freed once by the next update.
LEMMA ArgumentsKept ==
  ASSUME TypeOK, Arguments, [Next]_vars
  PROVE  Arguments'
<1> USE WorkQueueAssumption
<1>1. CASE UNCHANGED updateVars
  BY <1>1 DEF Arguments, updateVars
<1>2. CASE QueueUpdate
  <2>1. /\ gen' = gen + 1 /\ gen \in Nat /\ gen + 1 <= MaxUpdates /\ seenGen' = seenGen /\ ran' = ran
        /\ args' = [w \in Worker |-> gen + 1]
        /\ freed' = freed \cup {<<args[w], w>> : w \in {v \in Worker : args[v] # 0}}
    BY <1>2 DEF QueueUpdate, TypeOK
  <2>2. \A w \in Worker : seenGen'[w] <= gen' /\ args'[w] = IF seenGen'[w] = gen' THEN 0 ELSE gen'
    BY <2>1 DEF Arguments, TypeOK
  <2>3. ASSUME NEW u \in 0..MaxUpdates, NEW w \in Worker, <<u, w>> \in ran' \cup freed'
        PROVE  1 <= u /\ u <= gen' /\ u # args'[w]
    <3>1. CASE <<u, w>> \in ran \cup freed
      BY <2>1, <3>1 DEF Arguments
    <3>2. CASE u = args[w] /\ args[w] # 0
      BY <2>1, <3>2 DEF Arguments, TypeOK
    <3> QED
      BY <2>1, <2>3, <3>1, <3>2
  <2>4. ran' \cap freed' = {}
    <3>1. ASSUME NEW w \in Worker, args[w] # 0
          PROVE  <<args[w], w>> \notin ran
      BY <3>1 DEF Arguments, TypeOK
    <3> QED
      BY <2>1, <3>1 DEF Arguments
  <2> QED
    BY <2>2, <2>3, <2>4 DEF Arguments
<1>3. ASSUME NEW v \in Worker, TakeUpdate(v)
      PROVE  Arguments'
  <2>1. /\ gen' = gen /\ gen \in Nat /\ seenGen' = [seenGen EXCEPT ![v] = gen] /\ freed' = freed
        /\ args' = [args EXCEPT ![v] = 0] /\ ran' = ran \cup {<<args[v], v>>}
        /\ seenGen[v] # gen
    BY <1>3 DEF TakeUpdate, TypeOK
  <2>2. args[v] = gen /\ gen # 0 /\ gen >= 1
    BY <2>1 DEF Arguments, TypeOK
  <2>3. \A w \in Worker : seenGen'[w] <= gen' /\ args'[w] = IF seenGen'[w] = gen' THEN 0 ELSE gen'
    BY <2>1 DEF Arguments, TypeOK
  <2>4. ASSUME NEW u \in 0..MaxUpdates, NEW w \in Worker, <<u, w>> \in ran' \cup freed'
        PROVE  1 <= u /\ u <= gen' /\ u # args'[w]
    <3>1. args'[w] = IF w = v THEN 0 ELSE args[w]
      BY <2>1 DEF TypeOK
    <3>2. CASE <<u, w>> \in ran \cup freed
      BY <2>1, <3>1, <3>2 DEF Arguments
    <3>3. CASE u = args[v] /\ w = v
      BY <2>1, <2>2, <3>1, <3>3
    <3> QED
      BY <2>1, <2>4, <3>2, <3>3
  <2>5. ran' \cap freed' = {}
    <3>1. <<args[v], v>> \notin freed
      BY DEF Arguments, TypeOK
    <3> QED
      BY <2>1, <3>1 DEF Arguments
  <2> QED
    BY <2>3, <2>4, <2>5 DEF Arguments
<1> QED
  BY <1>1, <1>2, <1>3, UpdatesStay

-----------------------------------------------------------------------------
(* Threads.                                                                *)

\* There are finitely many threads to count.
LEMMA ActiveFinite == IsFiniteSet(Active)
BY WorkQueueAssumption, FS_Subset DEF Active

\* A step of threads that are past the lock, none of which leaves, changes
\* nothing of who is left.
LEMMA ThreadsStay ==
  ASSUME Threads, UNCHANGED <<running, control>>, ~early' => ~early,
         main \notin {"starting", "started"}, main' \notin {"starting", "started"},
         main' = "freed" => control = None,
         \A w \in Worker : \/ at'[w] = at[w]
                           \/ w \in Active /\ at'[w] \notin {"spawned", "exiting", "gone"}
  PROVE  Starting' /\ Threads'
<1>1. Active' = Active
  BY DEF Active
<1> QED
  BY <1>1 DEF Starting, Threads, Active

\* The count follows the threads, and control_lock is free only for the last.
LEMMA ThreadsKept ==
  ASSUME TypeOK, Starting, Threads, [Next]_vars
  PROVE  Starting' /\ Threads'
<1> USE WorkQueueAssumption
<1>0. /\ at \in [Worker -> At] /\ control \in {Main, None} /\ Main # None
      /\ lock = None => main \notin {"starting", "started"}
      /\ \A w \in Worker : at[w] \notin {"spawned", "top"} => main \notin {"starting", "started"}
  BY DEF TypeOK, Starting
<1>1. CASE UNCHANGED vars
  BY <1>1 DEF Starting, Threads, Active, vars, threadVars, lockVars, replyVars
<1>2. ASSUME NEW w \in Worker, WorkerStart(w)
      PROVE  Starting' /\ Threads'
  <2>1. /\ at[w] = "spawned" /\ at' = [at EXCEPT ![w] = "top"] /\ running' = running + 1
        /\ main' = IF running' = Cardinality(Worker) /\ main = "starting" THEN "started" ELSE main
        /\ UNCHANGED <<lock, control, early, answers>>
    BY <1>2 DEF WorkerStart, replyVars
  <2>2. Starting'
    BY <1>0, <2>1 DEF Starting
  <2>3. Active' = Active \cup {w} /\ w \notin Active
    BY <1>0, <2>1 DEF Active
  <2>4. running' = Cardinality(Active')
    BY <2>1, <2>3, ActiveFinite, FS_AddElement DEF Threads
  <2>5. ~early' /\ main' # "starting" => \A v \in Worker : at'[v] # "spawned"
    <3>1. CASE main = "starting"
      <4>1. main' # "starting" => Active' = Worker
        <5> SUFFICES ASSUME main' # "starting" PROVE Active' = Worker
          OBVIOUS
        <5>1. Cardinality(Active') = Cardinality(Worker)
          BY <2>1, <2>4, <3>1
        <5>2. Active' \subseteq Worker
          BY DEF Active
        <5> QED
          BY <5>1, <5>2, FS_Subset
      <4> QED
        BY <4>1 DEF Active
    <3>2. CASE main # "starting"
      BY <2>1, <3>2 DEF Threads
    <3> QED
      BY <3>1, <3>2
  <2>6. ~early' /\ main' \notin {"starting", "started"} => FALSE
    BY <2>1 DEF Threads
  <2>7. main' = "freed" => control' = None
    BY <2>1 DEF Threads
  <2> QED
    BY <2>2, <2>4, <2>5, <2>6, <2>7 DEF Threads
<1>3. ASSUME NEW w \in Worker, Leave(w)
      PROVE  Starting' /\ Threads'
  <2>1. /\ lock = None /\ at[w] \in {"top", "inner"} /\ at' = [at EXCEPT ![w] = "exiting"]
        /\ running' = running - 1
        /\ control' = IF running' = 0 THEN None ELSE control
        /\ UNCHANGED <<main, early>>
    BY <1>3 DEF Leave
  <2>2. main' \notin {"starting", "started"}
    BY <1>0, <2>1
  <2>3. Active' = Active \ {w} /\ w \in Active
    BY <1>0, <2>1 DEF Active
  <2>4. running' = Cardinality(Active')
    BY <2>1, <2>3, ActiveFinite, FS_RemoveElement DEF Threads
  <2>5. IsFiniteSet(Active')
    BY <2>3, ActiveFinite, FS_RemoveElement
  <2>6. running' = 0 => Active' = {}
    BY <2>4, <2>5, FS_EmptySet
  <2>7. ~early' /\ control' = None => Active' = {}
    BY <2>1, <2>2, <2>3, <2>6 DEF Threads
  <2>8. ~early' => \A v \in Worker : at'[v] # "spawned"
    BY <1>0, <2>1, <2>2 DEF Threads
  <2>9. main' = "freed" => control' = None
    BY <2>1 DEF Threads
  <2> QED
    BY <2>2, <2>4, <2>7, <2>8, <2>9 DEF Starting, Threads
<1>4. ASSUME NEW w \in Worker, Gone(w)
      PROVE  Starting' /\ Threads'
  <2>1. /\ at[w] = "exiting" /\ at' = [at EXCEPT ![w] = "gone"]
        /\ UNCHANGED <<main, early, running, control>>
    BY <1>4 DEF Gone
  <2>2. Active' = Active
    BY <1>0, <2>1 DEF Active
  <2>3. main' \notin {"starting", "started"}
    BY <1>0, <2>1
  <2> QED
    BY <1>0, <2>1, <2>2, <2>3 DEF Starting, Threads
<1>5. ASSUME NEW w \in Worker,
             \/ TakeUpdate(w) \/ TakeWork(w) \/ WaitForWork(w) \/ UpdateDone(w)
             \/ WorkDone(w) \/ Alert(w) \/ WakeUp(w)
      PROVE  Starting' /\ Threads'
  <2>1. /\ w \in Active /\ main \notin {"starting", "started"}
    BY <1>0, <1>5 DEF Active, TakeUpdate, TakeWork, WaitForWork, UpdateDone, WorkDone, Alert,
       WakeUp, InLoop
  <2>2. /\ \E a \in {"update", "work", "waiting", "inner", "alert", "top"} : at' = [at EXCEPT ![w] = a]
        /\ UNCHANGED <<running, control, main, early>>
    BY <1>5 DEF TakeUpdate, TakeWork, WaitForWork, UpdateDone, WorkDone, Alert, WakeUp,
       lockVars
  <2>3. \A v \in Worker : \/ at'[v] = at[v]
                          \/ v \in Active /\ at'[v] \notin {"spawned", "exiting", "gone"}
    BY <1>0, <2>1, <2>2
  <2> QED
    BY <1>0, <2>1, <2>2, <2>3, ThreadsStay DEF Threads
<1>6. CASE \/ \E x \in Work, p \in Prio : QueueWork(x, p)
           \/ QueueUpdate \/ Stop
  <2>1. /\ SignalOne \/ SignalAll
        /\ lock = None /\ main \notin {"freed", "stopping"}
        /\ main' \in {main, "stopping"}
        /\ UNCHANGED <<running, control, early>>
    BY <1>6 DEF QueueWork, QueueUpdate, Stop, MainActive, lockVars
  <2>2. \A v \in Worker : \/ at'[v] = at[v]
                          \/ v \in Active /\ at'[v] \notin {"spawned", "exiting", "gone"}
    BY <2>1, Signals DEF Active
  <2> QED
    BY <1>0, <2>1, <2>2, ThreadsStay
<1>7. CASE (\E x \in Work : Cancel(x)) \/ Process \/ Reply \/ ProcessDone \/ Freed
  <2>1. /\ at' = at /\ main \notin {"starting", "started", "freed"}
        /\ main' \in {main, "run", "process", "freed"}
        /\ main' = "freed" => control = None
        /\ UNCHANGED <<running, control, early>>
    BY <1>7 DEF Cancel, Process, Reply, ProcessDone, Freed, MainActive, lockVars, threadVars
  <2> QED
    BY <2>1, ThreadsStay
<1>8. CASE MainStarted
  <2>1. /\ main = "started" /\ main' = "run" /\ control' = Main
        /\ UNCHANGED <<at, running, early>>
    BY <1>8 DEF MainStarted, threadVars
  <2> QED
    BY <1>0, <2>1 DEF Starting, Threads, Active
<1>9. CASE StartTimeout
  <2>1. main' = "stopping" /\ early' = TRUE /\ UNCHANGED <<at, running>>
    BY <1>9 DEF StartTimeout, threadVars
  <2> QED
    BY <1>0, <2>1 DEF Starting, Threads, Active
<1>10. CASE MainWakeUp
  <2>1. /\ main = "starting" /\ main' = "started" /\ early' = TRUE
        /\ UNCHANGED <<at, running, lock, control, answers>>
    BY <1>10 DEF MainWakeUp, threadVars, lockVars, replyVars
  <2> QED
    BY <1>0, <2>1 DEF Starting, Threads, Active
<1> QED
  BY <1>1, <1>2, <1>3, <1>4, <1>5, <1>6, <1>7, <1>8, <1>9, <1>10 DEF Next, WorkerStep

\* The lock changes hands only when nobody is leaving, or by the one who is.
LEMMA LockKept ==
  ASSUME TypeOK, Starting, LeaverLocks, [Next]_vars
  PROVE  LeaverLocks'
<1> USE WorkQueueAssumption DEF LeaverLocks
<1>0. at \in [Worker -> At]
  BY DEF TypeOK
<1>1. CASE UNCHANGED vars
  BY <1>1 DEF vars, threadVars, lockVars
<1>2. ASSUME NEW w \in Worker,
             \/ WorkerStart(w) \/ TakeUpdate(w) \/ TakeWork(w) \/ WaitForWork(w)
             \/ UpdateDone(w) \/ WorkDone(w) \/ Alert(w) \/ WakeUp(w)
      PROVE  LeaverLocks'
  <2>1. /\ \E a \in {"update", "work", "waiting", "inner", "alert", "top"} : at' = [at EXCEPT ![w] = a]
        /\ UNCHANGED lock
    BY <1>2 DEF WorkerStart, TakeUpdate, TakeWork, WaitForWork, UpdateDone, WorkDone, Alert,
       WakeUp, lockVars
  <2> QED
    BY <1>0, <2>1
<1>3. ASSUME NEW w \in Worker, Leave(w) PROVE LeaverLocks'
  BY <1>0, <1>3 DEF Leave
<1>4. ASSUME NEW w \in Worker, Gone(w) PROVE LeaverLocks'
  BY <1>0, <1>4 DEF Gone
<1>5. CASE (\E x \in Work, p \in Prio : QueueWork(x, p)) \/ QueueUpdate \/ Stop
  <2>1. (SignalOne \/ SignalAll) /\ UNCHANGED lock
    BY <1>5 DEF QueueWork, QueueUpdate, Stop, lockVars
  <2> QED
    BY <2>1, Signals
<1>6. CASE MainStarted \/ StartTimeout
  <2>1. at' = at /\ \A w \in Worker : at[w] # "exiting"
    BY <1>6 DEF MainStarted, StartTimeout, threadVars, Starting
  <2> QED
    BY <2>1
<1>7. CASE (\E x \in Work : Cancel(x)) \/ MainWakeUp \/ Process \/ Reply \/ ProcessDone \/ Freed
  BY <1>7 DEF Cancel, MainWakeUp, Process, Reply, ProcessDone, Freed, threadVars, lockVars
<1> QED
  BY <1>1, <1>2, <1>3, <1>4, <1>5, <1>6, <1>7 DEF Next, WorkerStep

-----------------------------------------------------------------------------
(* Items.                                                                  *)

\* t is s without its element k.
Without(s, t, k) ==
  /\ t \in Seq(Work) /\ Len(t) = Len(s) - 1
  /\ \A j \in 1..Len(t) : t[j] = IF j < k THEN s[j] ELSE s[j + 1]

\* Taking the first, or one in the middle.
LEMMA TailWithout ==
  ASSUME NEW s \in Seq(Work), s # <<>>
  PROVE  Without(s, Tail(s), 1) /\ Head(s) = s[1] /\ 1 \in DOMAIN s /\ s[1] \in Work
BY DEF Without

\* TAILQ_REMOVE takes out the one occurrence of an item.
LEMMA RemoveWithout ==
  ASSUME NEW s \in Seq(Work), NEW k \in DOMAIN s, \A i, j \in DOMAIN s : s[i] = s[j] => i = j
  PROVE  Without(s, RemoveFirst(s, s[k]), k)
<1> DEFINE x == s[k]
<1>1. Len(s) \in Nat /\ DOMAIN s = 1..Len(s) /\ k \in 1..Len(s)
  OBVIOUS
<1>2. {i \in 1..Len(s) : s[i] = x} = {k}
  BY <1>1
<1>3. Min({k}) = k
  BY <1>1 DEF Min
<1>4. RemoveFirst(s, x) = RemoveAt(s, k)
  BY <1>1, <1>2, <1>3 DEF RemoveFirst, SelectInSeq
<1>5. Without(s, RemoveAt(s, k), k)
  <2> DEFINE a == SubSeq(s, 1, k - 1)
             b == SubSeq(s, k + 1, Len(s))
  <2>1. a \in Seq(Work) /\ Len(a) = k - 1 /\ \A j \in 1..(k - 1) : a[j] = s[j]
    BY <1>1
  <2>2. b \in Seq(Work) /\ Len(b) = Len(s) - k /\ \A j \in 1..(Len(s) - k) : b[j] = s[k + j]
    BY <1>1, SubSeqProperties
  <2> HIDE DEF a, b
  <2>3. /\ a \o b \in Seq(Work) /\ Len(a \o b) = Len(s) - 1
        /\ \A j \in 1..(Len(s) - 1) : (a \o b)[j] = IF j <= k - 1 THEN a[j] ELSE b[j - (k - 1)]
    <3>1. /\ a \o b \in Seq(Work) /\ Len(a \o b) = Len(a) + Len(b)
          /\ \A j \in 1..(Len(a) + Len(b)) :
                (a \o b)[j] = IF j <= Len(a) THEN a[j] ELSE b[j - Len(a)]
      <4>1. a \in Seq(Work) /\ b \in Seq(Work)
        BY <2>1, <2>2
      <4> QED
        BY <4>1, ConcatProperties, Zenon
    <3>2. Len(a) + Len(b) = Len(s) - 1
      BY <1>1, <2>1, <2>2
    <3> QED
      BY <2>1, <3>1, <3>2
  <2>4. ASSUME NEW j \in 1..(Len(s) - 1), j >= k
        PROVE  b[j - (k - 1)] = s[j + 1]
    <3>1. j - (k - 1) \in 1..(Len(s) - k) /\ k + (j - (k - 1)) = j + 1
      BY <1>1, <2>4
    <3> QED
      BY <2>2, <3>1
  <2>5. ASSUME NEW j \in 1..(Len(s) - 1)
        PROVE  (a \o b)[j] = IF j < k THEN s[j] ELSE s[j + 1]
    BY <1>1, <2>1, <2>3, <2>4
  <2> QED
    BY <2>3, <2>5 DEF Without, RemoveAt, a, b
<1> QED
  BY <1>4, <1>5

\* A queue that does not hold the item stays as it is.
LEMMA RemoveAbsent ==
  ASSUME NEW s \in Seq(Work), NEW x, \A i \in DOMAIN s : s[i] # x
  PROVE  RemoveFirst(s, x) = s
BY DEF RemoveFirst

\* An item leaves the queue it is in.
LEMMA LeavesQueue ==
  ASSUME TypeOK, InQueues,
         NEW p \in Prio, NEW k \in DOMAIN queue[p], NEW b \in Status \ {"queued"},
         queue' \in [Prio -> Seq(Work)],
         Without(queue[p], queue'[p], k),
         \A r \in Prio \ {p} : queue'[r] = queue[r],
         status' = [status EXCEPT ![queue[p][k]] = b]
  PROVE  InQueues'
<1> DEFINE x == queue[p][k]
           Old(r, i) == IF r = p /\ i >= k THEN i + 1 ELSE i
<1>1. /\ queue \in [Prio -> Seq(Work)] /\ status \in [Work -> Status] /\ x \in Work
      /\ k \in Nat /\ k >= 1 /\ k <= Len(queue[p])
  BY DEF TypeOK
<1>2. ASSUME NEW r \in Prio, NEW i \in DOMAIN queue'[r]
      PROVE  /\ Old(r, i) \in DOMAIN queue[r] /\ queue'[r][i] = queue[r][Old(r, i)]
             /\ queue'[r][i] # x /\ queue'[r][i] \in Work
  <2>1. CASE r = p
    <3>1. /\ Len(queue[p]) \in Nat /\ DOMAIN queue[p] = 1..Len(queue[p])
          /\ DOMAIN queue'[p] = 1..(Len(queue[p]) - 1) /\ i \in 1..(Len(queue[p]) - 1)
      BY <1>1, <1>2, <2>1 DEF Without
    <3>2. /\ Old(p, i) \in DOMAIN queue[p] /\ queue'[p][i] = queue[p][Old(p, i)]
          /\ Old(p, i) # k
      BY <1>1, <3>1 DEF Without
    <3>3. queue[p][Old(p, i)] # x
      BY <3>2 DEF InQueues
    <3> QED
      BY <1>1, <2>1, <3>2, <3>3
  <2>2. CASE r # p
    <3>1. queue'[r] = queue[r] /\ i \in DOMAIN queue[r]
      BY <1>2, <2>2
    <3>2. queue[r][i] # x
      BY <2>2, <3>1 DEF InQueues
    <3> QED
      BY <1>1, <2>2, <3>1, <3>2
  <2> QED
    BY <2>1, <2>2
<1>3. ASSUME NEW r \in Prio, NEW i \in DOMAIN queue'[r]
      PROVE  status'[queue'[r][i]] = "queued"
  BY <1>1, <1>2, <1>3 DEF InQueues
<1>4. ASSUME NEW r \in Prio, NEW t \in Prio, NEW i \in DOMAIN queue'[r],
             NEW j \in DOMAIN queue'[t], queue'[r][i] = queue'[t][j]
      PROVE  r = t /\ i = j
  <2>1. r = t /\ Old(r, i) = Old(t, j)
    BY <1>2, <1>4 DEF InQueues
  <2>2. i \in Nat /\ j \in Nat
    OBVIOUS
  <2> QED
    BY <1>1, <2>1, <2>2
<1>5. ASSUME NEW y \in Work, status'[y] = "queued"
      PROVE  \E r \in Prio : \E i \in DOMAIN queue'[r] : queue'[r][i] = y
  <2>1. status[y] = "queued" /\ y # x
    BY <1>1, <1>5
  <2>2. PICK r \in Prio : \E i \in DOMAIN queue[r] : queue[r][i] = y
    BY <2>1 DEF InQueues
  <2>3. PICK j \in DOMAIN queue[r] : queue[r][j] = y
    BY <2>2
  <2>4. CASE r # p
    BY <2>3, <2>4
  <2>5. CASE r = p
    <3>1. j # k
      BY <2>1, <2>3, <2>5
    <3>2. CASE j < k
      <4>1. /\ Len(queue[p]) \in Nat /\ DOMAIN queue[p] = 1..Len(queue[p])
            /\ j \in 1..Len(queue[p])
        BY <1>1, <2>3, <2>5
      <4>2. queue'[p] \in Seq(Work) /\ Len(queue'[p]) = Len(queue[p]) - 1
        BY DEF Without
      <4>3. j \in 1..Len(queue'[p])
        BY <1>1, <3>2, <4>1, <4>2
      <4>4. j \in DOMAIN queue'[p] /\ queue'[p][j] = queue[p][j]
        <5>1. \A i \in 1..Len(queue'[p]) :
                queue'[p][i] = IF i < k THEN queue[p][i] ELSE queue[p][i + 1]
          BY DEF Without
        <5> QED
          BY <3>2, <4>2, <4>3, <5>1
      <4> QED
        BY <2>3, <2>5, <4>4
    <3>3. CASE j > k
      <4>1. j - 1 \in DOMAIN queue'[p] /\ queue'[p][j - 1] = queue[p][j]
        BY <1>1, <2>3, <2>5, <3>3 DEF Without
      <4> QED
        BY <2>3, <2>5, <4>1
    <3> QED
      BY <1>1, <2>3, <2>5, <3>1, <3>2, <3>3
  <2> QED
    BY <2>4, <2>5
<1> QED
  BY <1>3, <1>4, <1>5 DEF InQueues

\* A cancelled item leaves the one queue that holds it.
LEMMA CancelRemoves ==
  ASSUME TypeOK, InQueues, NEW x \in Work, Cancel(x)
  PROVE  /\ queue' \in [Prio -> Seq(Work)]
         /\ \E p \in Prio : \E k \in DOMAIN queue[p] :
              /\ queue[p][k] = x /\ Without(queue[p], queue'[p], k)
              /\ \A r \in Prio \ {p} : queue'[r] = queue[r]
<1>1. /\ queue \in [Prio -> Seq(Work)] /\ status[x] = "queued"
      /\ queue' = [p \in Prio |-> RemoveFirst(queue[p], x)]
  BY DEF TypeOK, Cancel, MayCancel
<1>2. PICK p \in Prio : \E i \in DOMAIN queue[p] : queue[p][i] = x
  BY <1>1 DEF InQueues
<1>3. PICK k \in DOMAIN queue[p] : queue[p][k] = x
  BY <1>2
<1>4. Without(queue[p], queue'[p], k)
  <2>1. \A i, j \in DOMAIN queue[p] : queue[p][i] = queue[p][j] => i = j
    BY DEF InQueues
  <2> QED
    BY <1>1, <1>3, <2>1, RemoveWithout
<1>5. ASSUME NEW r \in Prio \ {p}
      PROVE  queue'[r] = queue[r]
  <2>1. \A i \in DOMAIN queue[r] : queue[r][i] # x
    BY <1>3 DEF InQueues
  <2> QED
    BY <1>1, <2>1, RemoveAbsent
<1>6. \A r \in Prio : queue'[r] \in Seq(Work)
  BY <1>1, <1>4, <1>5 DEF Without
<1> QED
  BY <1>1, <1>3, <1>4, <1>5, <1>6

\* The part that does not hold the item keeps what it holds.
LEMMA OtherPlaces ==
  ASSUME TypeOK, NEW x \in Work, NEW b \in Status, status' = [status EXCEPT ![x] = b]
  PROVE  /\ InQueues /\ UNCHANGED queue /\ "queued" \notin {status[x], b} => InQueues'
         /\ /\ InWorkers /\ UNCHANGED job /\ "running" \notin {status[x], b}
            /\ \A w \in Worker : at'[w] = "work" <=> at[w] = "work"
            => InWorkers'
         /\ InAnswers /\ UNCHANGED answers /\ "answered" \notin {status[x], b} => InAnswers'
<1>0. /\ status \in [Work -> Status] /\ queue \in [Prio -> Seq(Work)] /\ answers \in Seq(Work)
      /\ job \in [Worker -> Work \cup {None}]
      /\ \A y \in Work : status'[y] = IF y = x THEN b ELSE status[y]
  BY DEF TypeOK
<1>1. ASSUME InQueues, UNCHANGED queue, "queued" \notin {status[x], b} PROVE InQueues'
  BY <1>0, <1>1 DEF InQueues
<1>2. ASSUME InWorkers, UNCHANGED job, "running" \notin {status[x], b},
             \A w \in Worker : at'[w] = "work" <=> at[w] = "work"
      PROVE  InWorkers'
  BY <1>0, <1>2 DEF InWorkers
<1>3. ASSUME InAnswers, UNCHANGED answers, "answered" \notin {status[x], b} PROVE InAnswers'
  BY <1>0, <1>3 DEF InAnswers
<1> QED
  BY <1>1, <1>2, <1>3

\* Every step moves an item from one place to the next.
LEMMA ItemsKept ==
  ASSUME TypeOK, InQueues, InWorkers, InAnswers, [Next]_vars
  PROVE  InQueues' /\ InWorkers' /\ InAnswers'
<1> USE WorkQueueAssumption
<1>0. /\ status \in [Work -> Status] /\ queue \in [Prio -> Seq(Work)] /\ answers \in Seq(Work)
      /\ job \in [Worker -> Work \cup {None}] /\ at \in [Worker -> At] /\ None \notin Work
  BY DEF TypeOK
<1>1. CASE UNCHANGED itemVars /\ \A w \in Worker : at'[w] = "work" <=> at[w] = "work"
  BY <1>1 DEF itemVars, InQueues, InWorkers, InAnswers
<1>2. ASSUME NEW w \in Worker, TakeWork(w)
      PROVE  InQueues' /\ InWorkers' /\ InAnswers'
  <2>1. /\ at' = [at EXCEPT ![w] = "work"] /\ at[w] # "work" /\ UNCHANGED answers
        /\ \E p \in Prio :
             /\ queue[p] # <<>>
             /\ queue' = [queue EXCEPT ![p] = Tail(@)]
             /\ job' = [job EXCEPT ![w] = Head(queue[p])]
             /\ status' = [status EXCEPT ![Head(queue[p])] = "running"]
    BY <1>2 DEF TakeWork, InLoop, replyVars
  <2>2. PICK p \in Prio :
             /\ queue[p] # <<>>
             /\ queue' = [queue EXCEPT ![p] = Tail(@)]
             /\ job' = [job EXCEPT ![w] = Head(queue[p])]
             /\ status' = [status EXCEPT ![Head(queue[p])] = "running"]
    BY <2>1
  <2>3. PICK x \in Work : x = Head(queue[p]) /\ x = queue[p][1] /\ 1 \in DOMAIN queue[p]
                          /\ Without(queue[p], Tail(queue[p]), 1) /\ status[x] = "queued"
    BY <1>0, <2>2, TailWithout DEF InQueues
  <2>4. InQueues'
    <3>1. queue' \in [Prio -> Seq(Work)] /\ queue'[p] = Tail(queue[p])
          /\ \A r \in Prio \ {p} : queue'[r] = queue[r]
      BY <1>0, <2>2
    <3>2. "running" \in Status \ {"queued"}
      BY DEF Status
    <3> QED
      BY <2>2, <2>3, <3>1, <3>2, LeavesQueue
  <2>5. InAnswers'
    BY <2>1, <2>2, <2>3, OtherPlaces DEF Status
  <2>6. InWorkers'
    <3>1. /\ \A v \in Worker : job'[v] = IF v = w THEN x ELSE job[v]
          /\ \A v \in Worker : at'[v] = IF v = w THEN "work" ELSE at[v]
          /\ \A y \in Work : status'[y] = IF y = x THEN "running" ELSE status[y]
      BY <1>0, <2>1, <2>2, <2>3
    <3>2. \A v \in Worker : job[v] # x
      BY <1>0, <2>3 DEF InWorkers
    <3> QED
      BY <1>0, <2>1, <2>3, <3>1, <3>2 DEF InWorkers
  <2> QED
    BY <2>4, <2>5, <2>6
<1>3. ASSUME NEW w \in Worker, WorkDone(w)
      PROVE  InQueues' /\ InWorkers' /\ InAnswers'
  <2>1. /\ at[w] = "work" /\ answers' = Append(answers, job[w])
        /\ status' = [status EXCEPT ![job[w]] = "answered"]
        /\ job' = [job EXCEPT ![w] = None]
        /\ \E a \in {"alert", "inner"} : at' = [at EXCEPT ![w] = a]
        /\ UNCHANGED queue
    BY <1>3 DEF WorkDone, poolVars
  <2>2. PICK x \in Work : x = job[w] /\ status[x] = "running"
    BY <1>0, <2>1 DEF InWorkers
  <2>3. InQueues'
    BY <2>1, <2>2, OtherPlaces DEF Status
  <2>4. \A y \in Work : status'[y] = IF y = x THEN "answered" ELSE status[y]
    BY <1>0, <2>1, <2>2
  <2>5. InWorkers'
    <3>1. /\ \A v \in Worker : job'[v] = IF v = w THEN None ELSE job[v]
          /\ \A v \in Worker : v # w => at'[v] = at[v]
          /\ at'[w] # "work"
      BY <1>0, <2>1
    <3> QED
      BY <1>0, <2>1, <2>2, <2>4, <3>1 DEF InWorkers
  <2>6. InAnswers'
    <3>1. /\ DOMAIN answers = 1..Len(answers) /\ DOMAIN answers' = 1..(Len(answers) + 1)
          /\ answers'[Len(answers) + 1] = x /\ Len(answers) \in Nat
          /\ \A i \in 1..Len(answers) : answers'[i] = answers[i] /\ answers[i] \in Work
      BY <1>0, <2>1, <2>2
    <3>2. \A i \in 1..Len(answers) : answers[i] # x /\ status[answers[i]] = "answered"
      BY <2>2, <3>1 DEF InAnswers
    <3>3. \A i \in DOMAIN answers' : status'[answers'[i]] = "answered"
      BY <2>4, <3>1, <3>2
    <3>4. \A i, j \in DOMAIN answers' : answers'[i] = answers'[j] => i = j
      BY <3>1, <3>2 DEF InAnswers
    <3>5. \A y \in Work : status'[y] = "answered" => \E i \in DOMAIN answers' : answers'[i] = y
      BY <2>4, <3>1 DEF InAnswers
    <3> QED
      BY <3>3, <3>4, <3>5 DEF InAnswers
  <2> QED
    BY <2>3, <2>5, <2>6
<1>4. ASSUME NEW x \in Work, NEW p \in Prio, QueueWork(x, p)
      PROVE  InQueues' /\ InWorkers' /\ InAnswers'
  <2>1. /\ status[x] = "idle" /\ status' = [status EXCEPT ![x] = "queued"]
        /\ queue' = [queue EXCEPT ![p] = Append(@, x)] /\ SignalOne
        /\ UNCHANGED <<job, answers>>
    BY <1>4 DEF QueueWork, replyVars
  <2>2. \A w \in Worker : at'[w] = "work" <=> at[w] = "work"
    BY <2>1, Signals
  <2>3. InWorkers' /\ InAnswers'
    BY <2>1, <2>2, OtherPlaces DEF Status
  <2>4. InQueues'
    <3>1. /\ \A y \in Work : status'[y] = IF y = x THEN "queued" ELSE status[y]
          /\ \A r \in Prio : DOMAIN queue[r] = 1..Len(queue[r]) /\ Len(queue[r]) \in Nat
          /\ \A r \in Prio : \A i \in DOMAIN queue[r] : queue[r][i] \in Work /\ queue[r][i] # x
          /\ \A r \in Prio : r # p => queue'[r] = queue[r]
          /\ DOMAIN queue'[p] = 1..(Len(queue[p]) + 1)
          /\ queue'[p][Len(queue[p]) + 1] = x
          /\ \A i \in 1..Len(queue[p]) : queue'[p][i] = queue[p][i]
      BY <1>0, <2>1 DEF InQueues
    <3>2. ASSUME NEW r \in Prio, NEW i \in DOMAIN queue'[r]
          PROVE  \/ r = p /\ i = Len(queue[p]) + 1 /\ queue'[r][i] = x
                 \/ i \in DOMAIN queue[r] /\ queue'[r][i] = queue[r][i]
      BY <3>1
    <3>3. \A r \in Prio : \A i \in DOMAIN queue'[r] : status'[queue'[r][i]] = "queued"
      BY <3>1, <3>2 DEF InQueues
    <3>4. ASSUME NEW r \in Prio, NEW t \in Prio, NEW i \in DOMAIN queue'[r],
                 NEW j \in DOMAIN queue'[t], queue'[r][i] = queue'[t][j]
          PROVE  r = t /\ i = j
      <4>1. CASE i \in DOMAIN queue[r] /\ queue'[r][i] = queue[r][i]
                 /\ j \in DOMAIN queue[t] /\ queue'[t][j] = queue[t][j]
        <5>1. queue[r][i] = queue[t][j]
          BY <3>4, <4>1
        <5> QED
          BY <4>1, <5>1 DEF InQueues
      <4>2. CASE queue'[r][i] = x \/ queue'[t][j] = x
        BY <3>1, <3>2, <3>4, <4>2
      <4> QED
        BY <3>2, <4>1, <4>2
    <3>5. ASSUME NEW y \in Work, status'[y] = "queued"
          PROVE  \E r \in Prio : \E i \in DOMAIN queue'[r] : queue'[r][i] = y
      <4>1. CASE y = x
        <5>1. Len(queue[p]) + 1 \in DOMAIN queue'[p]
          BY <3>1
        <5> QED
          BY <3>1, <4>1, <5>1
      <4>2. CASE y # x
        <5>1. PICK r \in Prio : \E i \in DOMAIN queue[r] : queue[r][i] = y
          BY <3>1, <3>5, <4>2 DEF InQueues
        <5>2. PICK i \in DOMAIN queue[r] : queue[r][i] = y
          BY <5>1
        <5>3. i \in DOMAIN queue'[r] /\ queue'[r][i] = y
          BY <3>1, <5>2
        <5> QED
          BY <5>3
      <4> QED
        BY <4>1, <4>2
    <3> QED
      BY <3>3, <3>4, <3>5 DEF InQueues
  <2> QED
    BY <2>3, <2>4
<1>5. ASSUME NEW x \in Work, Cancel(x)
      PROVE  InQueues' /\ InWorkers' /\ InAnswers'
  <2>1. /\ status[x] = "queued" /\ status' = [status EXCEPT ![x] = "cancelled"]
        /\ queue' = [p \in Prio |-> RemoveFirst(queue[p], x)]
        /\ UNCHANGED <<job, answers, at>>
    BY <1>5 DEF Cancel, MayCancel, replyVars, threadVars
  <2>2. InWorkers' /\ InAnswers'
    BY <2>1, OtherPlaces DEF Status
  <2> DEFINE From(p, k) == /\ queue[p][k] = x /\ Without(queue[p], queue'[p], k)
                           /\ \A r \in Prio \ {p} : queue'[r] = queue[r]
  <2>7. PICK p \in Prio : \E k \in DOMAIN queue[p] : From(p, k)
    BY <1>5, CancelRemoves
  <2>3. PICK k \in DOMAIN queue[p] : From(p, k)
    BY <2>7
  <2>4. queue' \in [Prio -> Seq(Work)]
    BY <1>5, CancelRemoves
  <2>5. "cancelled" \in Status \ {"queued"}
    BY DEF Status
  <2>6. InQueues'
    BY <2>1, <2>3, <2>4, <2>5, LeavesQueue
  <2> QED
    BY <2>2, <2>6
<1>6. CASE Reply
  <2>1. /\ answers # <<>> /\ answers' = Tail(answers)
        /\ status' = [status EXCEPT ![Head(answers)] = "replied"]
        /\ UNCHANGED <<queue, job, at>>
    BY <1>6 DEF Reply, poolVars, threadVars
  <2>2. PICK x \in Work : x = Head(answers) /\ x = answers[1] /\ status[x] = "answered"
    BY <1>0, <2>1 DEF InAnswers
  <2>3. InQueues' /\ InWorkers'
    BY <2>1, <2>2, OtherPlaces DEF Status
  <2>4. InAnswers'
    <3>1. /\ DOMAIN answers = 1..Len(answers) /\ DOMAIN answers' = 1..(Len(answers) - 1)
          /\ Len(answers) \in Nat /\ Len(answers) >= 1
          /\ \A i \in 1..(Len(answers) - 1) : answers'[i] = answers[i + 1]
          /\ \A i \in 1..Len(answers) : answers[i] \in Work
          /\ \A y \in Work : status'[y] = IF y = x THEN "replied" ELSE status[y]
      BY <1>0, <2>1, <2>2
    <3>2. \A i \in 1..(Len(answers) - 1) :
             i + 1 \in DOMAIN answers /\ i + 1 # 1 /\ answers[i + 1] # x
      BY <2>2, <3>1 DEF InAnswers
    <3>3. \A i \in DOMAIN answers' : status'[answers'[i]] = "answered"
      BY <3>1, <3>2 DEF InAnswers
    <3>4. ASSUME NEW i \in DOMAIN answers', NEW j \in DOMAIN answers', answers'[i] = answers'[j]
          PROVE  i = j
      <4>1. answers[i + 1] = answers[j + 1] /\ i \in Nat /\ j \in Nat
        BY <3>1, <3>4
      <4>2. i + 1 = j + 1
        BY <3>1, <3>2, <4>1 DEF InAnswers
      <4> QED
        BY <4>1, <4>2
    <3>5. ASSUME NEW y \in Work, status'[y] = "answered"
          PROVE  \E i \in DOMAIN answers' : answers'[i] = y
      <4>1. PICK j \in DOMAIN answers : answers[j] = y
        BY <3>1, <3>5 DEF InAnswers
      <4>2. j # 1
        BY <2>2, <3>1, <3>5, <4>1
      <4>3. j - 1 \in DOMAIN answers' /\ answers'[j - 1] = y
        BY <3>1, <4>1, <4>2
      <4> QED
        BY <4>3
    <3> QED
      BY <3>3, <3>4, <3>5 DEF InAnswers
  <2> QED
    BY <2>3, <2>4
<1> QED
  BY <1>1, <1>2, <1>3, <1>4, <1>5, <1>6, ItemsStay

-----------------------------------------------------------------------------
(* Types.                                                                  *)

\* Work items stay work items.
LEMMA ItemTypes ==
  ASSUME TypeOK, InQueues, InWorkers, [Next]_vars
  PROVE  /\ queue' \in [Prio -> Seq(Work)] /\ status' \in [Work -> Status]
         /\ job' \in [Worker -> Work \cup {None}] /\ answers' \in Seq(Work)
<1> USE WorkQueueAssumption
<1>0. /\ status \in [Work -> Status] /\ queue \in [Prio -> Seq(Work)] /\ answers \in Seq(Work)
      /\ job \in [Worker -> Work \cup {None}]
  BY DEF TypeOK
<1>1. CASE UNCHANGED itemVars
  BY <1>0, <1>1 DEF itemVars
<1>2. ASSUME NEW w \in Worker, TakeWork(w)
      PROVE  /\ queue' \in [Prio -> Seq(Work)] /\ status' \in [Work -> Status]
             /\ job' \in [Worker -> Work \cup {None}] /\ answers' \in Seq(Work)
  BY <1>0, <1>2, TailWithout DEF TakeWork, replyVars, Status, Without
<1>3. ASSUME NEW w \in Worker, WorkDone(w)
      PROVE  /\ queue' \in [Prio -> Seq(Work)] /\ status' \in [Work -> Status]
             /\ job' \in [Worker -> Work \cup {None}] /\ answers' \in Seq(Work)
  <2>1. job[w] \in Work
    BY <1>0, <1>3 DEF WorkDone, InWorkers
  <2> QED
    BY <1>0, <1>3, <2>1 DEF WorkDone, poolVars, Status
<1>4. ASSUME NEW x \in Work, NEW p \in Prio, QueueWork(x, p)
      PROVE  /\ queue' \in [Prio -> Seq(Work)] /\ status' \in [Work -> Status]
             /\ job' \in [Worker -> Work \cup {None}] /\ answers' \in Seq(Work)
  BY <1>0, <1>4 DEF QueueWork, replyVars, Status
<1>5. ASSUME NEW x \in Work, Cancel(x)
      PROVE  /\ queue' \in [Prio -> Seq(Work)] /\ status' \in [Work -> Status]
             /\ job' \in [Worker -> Work \cup {None}] /\ answers' \in Seq(Work)
  BY <1>0, <1>5, CancelRemoves DEF Cancel, replyVars, threadVars, Status
<1>6. CASE Reply
  BY <1>0, <1>6 DEF Reply, poolVars, threadVars, Status
<1> QED
  BY <1>1, <1>2, <1>3, <1>4, <1>5, <1>6, ItemsStay

\* So do the numbers of updates.
LEMMA UpdateTypes ==
  ASSUME TypeOK, [Next]_vars
  PROVE  /\ gen' \in 0..MaxUpdates /\ seenGen' \in [Worker -> 0..MaxUpdates]
         /\ args' \in [Worker -> 0..MaxUpdates]
         /\ ran' \subseteq (0..MaxUpdates) \X Worker /\ freed' \subseteq (0..MaxUpdates) \X Worker
<1> USE WorkQueueAssumption
<1>0. /\ gen \in 0..MaxUpdates /\ seenGen \in [Worker -> 0..MaxUpdates]
      /\ args \in [Worker -> 0..MaxUpdates]
      /\ ran \subseteq (0..MaxUpdates) \X Worker /\ freed \subseteq (0..MaxUpdates) \X Worker
  BY DEF TypeOK
<1>1. CASE UNCHANGED updateVars
  BY <1>0, <1>1 DEF updateVars
<1>2. CASE QueueUpdate
  <2>1. gen + 1 \in 0..MaxUpdates
    BY <1>0, <1>2 DEF QueueUpdate
  <2> QED
    BY <1>0, <1>2, <2>1 DEF QueueUpdate
<1>3. ASSUME NEW w \in Worker, TakeUpdate(w)
      PROVE  /\ gen' \in 0..MaxUpdates /\ seenGen' \in [Worker -> 0..MaxUpdates]
             /\ args' \in [Worker -> 0..MaxUpdates]
             /\ ran' \subseteq (0..MaxUpdates) \X Worker /\ freed' \subseteq (0..MaxUpdates) \X Worker
  BY <1>0, <1>3 DEF TakeUpdate
<1> QED
  BY <1>1, <1>2, <1>3, UpdatesStay

\* And where everybody is.
LEMMA ThreadTypes ==
  ASSUME TypeOK, [Next]_vars
  PROVE  /\ at' \in [Worker -> At] /\ leave' \in [Worker -> BOOLEAN]
         /\ lock' \in Worker \cup {Main, None} /\ control' \in {Main, None}
         /\ exit' \in BOOLEAN /\ main' \in MainAt /\ alert' \in BOOLEAN
         /\ faults' \in 0..MaxFaults /\ early' \in BOOLEAN
<1> USE WorkQueueAssumption DEF poolVars, threadVars, lockVars, replyVars
<1>0. /\ at \in [Worker -> At] /\ leave \in [Worker -> BOOLEAN]
      /\ lock \in Worker \cup {Main, None} /\ control \in {Main, None}
      /\ exit \in BOOLEAN /\ main \in MainAt /\ alert \in BOOLEAN
      /\ faults \in 0..MaxFaults /\ early \in BOOLEAN
  BY DEF TypeOK
<1>1. CASE UNCHANGED vars
  BY <1>0, <1>1 DEF vars
<1>2. ASSUME NEW w \in Worker, WorkerStep(w) \/ WakeUp(w)
      PROVE  /\ at' \in [Worker -> At] /\ leave' \in [Worker -> BOOLEAN]
             /\ lock' \in Worker \cup {Main, None} /\ control' \in {Main, None}
             /\ exit' \in BOOLEAN /\ main' \in MainAt /\ alert' \in BOOLEAN
             /\ faults' \in 0..MaxFaults /\ early' \in BOOLEAN
  <2>1. \E a \in At : at' = [at EXCEPT ![w] = a]
    BY <1>2 DEF WorkerStep, WakeUp, WorkerStart, TakeUpdate, TakeWork, WaitForWork, UpdateDone,
       WorkDone, Alert, Leave, Gone, At
  <2>2. leave' \in {leave, [leave EXCEPT ![w] = TRUE]}
    BY <1>2 DEF WorkerStep, WakeUp, WorkerStart, TakeUpdate, TakeWork, WaitForWork, UpdateDone,
       WorkDone, Alert, Leave, Gone
  <2>3. /\ lock' \in {lock, w, None} /\ control' \in {control, None}
        /\ exit' = exit /\ main' \in {main, "started"} /\ alert' \in {alert, TRUE}
    BY <1>2 DEF WorkerStep, WakeUp, WorkerStart, TakeUpdate, TakeWork, WaitForWork,
       UpdateDone, WorkDone, Alert, Leave, Gone
  <2>4. faults' = faults \/ Fault
    BY <1>2 DEF WorkerStep, WakeUp, WorkerStart, TakeUpdate, TakeWork, WaitForWork,
       UpdateDone, WorkDone, Alert, Leave, Gone
  <2>5. faults' \in 0..MaxFaults
    BY <1>0, <2>4 DEF Fault
  <2>6. early' = early
    BY <1>2 DEF WorkerStep, WakeUp, WorkerStart, TakeUpdate, TakeWork, WaitForWork,
       UpdateDone, WorkDone, Alert, Leave, Gone
  <2> QED
    BY <1>0, <2>1, <2>2, <2>3, <2>5, <2>6 DEF MainAt
<1>3. CASE (\E x \in Work, p \in Prio : QueueWork(x, p)) \/ QueueUpdate \/ Stop
  <2>1. /\ SignalOne \/ SignalAll
        /\ UNCHANGED <<leave, lock, control, alert, faults, early>>
        /\ exit' \in {exit, TRUE} /\ main' \in {main, "stopping"}
    BY <1>3 DEF QueueWork, QueueUpdate, Stop
  <2> QED
    BY <1>0, <2>1, Signals DEF MainAt
<1>4. CASE (\E x \in Work : Cancel(x)) \/ MainStarted \/ StartTimeout \/ MainWakeUp \/ Process
           \/ Reply \/ ProcessDone \/ Freed
  <2>1. /\ UNCHANGED <<at, leave>> /\ lock' \in {lock, None} /\ control' \in {control, Main}
        /\ exit' \in {exit, TRUE} /\ main' \in MainAt /\ alert' \in {alert, FALSE}
    BY <1>0, <1>4 DEF Cancel, MainStarted, StartTimeout, MainWakeUp, Process, Reply,
       ProcessDone, Freed, MainAt
  <2>2. faults' = faults \/ Fault
    BY <1>4 DEF Cancel, MainStarted, StartTimeout, MainWakeUp, Process, Reply, ProcessDone, Freed
  <2>3. faults' \in 0..MaxFaults
    BY <1>0, <2>2 DEF Fault
  <2>4. early' \in {early, TRUE}
    BY <1>4 DEF Cancel, MainStarted, StartTimeout, MainWakeUp, Process, Reply, ProcessDone, Freed
  <2> QED
    BY <1>0, <2>1, <2>3, <2>4
<1> QED
  BY <1>1, <1>2, <1>3, <1>4 DEF Next

-----------------------------------------------------------------------------
(* Nobody sleeps on what there is to do.                                   *)

\* The worker that finds the answers empty alerts, and only the main thread
\* takes the alert away, when it goes to look.
LEMMA RepliesStayNoticed ==
  ASSUME TypeOK, Starting, RepliesNoticed, [Next]_vars
  PROVE  RepliesNoticed'
<1> USE DEF poolVars, threadVars, lockVars, replyVars
<1>0. at \in [Worker -> At]
  BY DEF TypeOK
<1> SUFFICES ASSUME answers' # <<>>, main' = "run", alert' = FALSE
             PROVE  \E w \in Worker : at'[w] = "alert"
  <2>1. alert' \in BOOLEAN
    BY ThreadTypes
  <2> QED
    BY <2>1 DEF RepliesNoticed
<1>1. CASE UNCHANGED vars
  BY <1>1 DEF vars, RepliesNoticed
<1>2. ASSUME NEW w \in Worker, WorkDone(w)
      PROVE  \E v \in Worker : at'[v] = "alert"
  <2>1. CASE MustAlert
    BY <1>0, <1>2, <2>1 DEF WorkDone
  <2>2. CASE ~MustAlert
    <3>1. PICK v \in Worker : at[v] = "alert"
      BY <1>2, <2>2 DEF WorkDone, MustAlert, RepliesNoticed
    <3>2. at'[v] = "alert"
      BY <1>0, <1>2, <2>2, <3>1 DEF WorkDone
    <3> QED
      BY <3>2
  <2> QED
    BY <2>1, <2>2
<1>3. ASSUME NEW w \in Worker, WorkerStep(w) \/ WakeUp(w), ~WorkDone(w)
      PROVE  \E v \in Worker : at'[v] = "alert"
  <2>1. /\ UNCHANGED answers /\ alert' \in {alert, TRUE} /\ main' \in {main, "started"}
        /\ at[w] = "alert" => alert' = TRUE
        /\ \E a \in At : at' = [at EXCEPT ![w] = a]
    BY <1>3 DEF WorkerStep, WakeUp, WorkerStart, TakeUpdate, TakeWork, WaitForWork, UpdateDone,
       Alert, Leave, Gone, InLoop, At
  <2>2. PICK v \in Worker : at[v] = "alert"
    BY <2>1 DEF RepliesNoticed
  <2>3. at'[v] = "alert"
    BY <1>0, <2>1, <2>2
  <2> QED
    BY <2>3
<1>4. CASE (\E x \in Work, p \in Prio : QueueWork(x, p)) \/ QueueUpdate \/ Stop
  <2>1. /\ SignalOne \/ SignalAll
        /\ UNCHANGED <<answers, alert>> /\ main' \in {main, "stopping"}
    BY <1>4 DEF QueueWork, QueueUpdate, Stop
  <2>2. PICK v \in Worker : at[v] = "alert"
    BY <2>1 DEF RepliesNoticed
  <2>3. at'[v] = "alert"
    BY <2>1, <2>2, Signals
  <2> QED
    BY <2>3
<1>5. CASE MainStarted
  BY <1>5 DEF MainStarted, Starting
<1>6. CASE (\E x \in Work : Cancel(x)) \/ StartTimeout \/ MainWakeUp \/ Process \/ Reply
           \/ ProcessDone \/ Freed
  BY <1>6 DEF Cancel, StartTimeout, MainWakeUp, Process, Reply, ProcessDone, Freed, Fault,
     RepliesNoticed
<1> QED
  BY <1>1, <1>2, <1>3, <1>4, <1>5, <1>6 DEF Next

\* A worker goes to sleep when the queues are empty, and whoever fills one
\* wakes a sleeper.
LEMMA WorkStaysNoticed ==
  ASSUME TypeOK, NobodySleepsOnWork, [Next]_vars
  PROVE  NobodySleepsOnWork'
<1> USE WorkQueueAssumption DEF poolVars, threadVars, lockVars, replyVars
<1>0. at \in [Worker -> At]
  BY DEF TypeOK
<1> SUFFICES ASSUME NobodyLeaves', exit' = FALSE, NEW p \in Prio, queue'[p] # <<>>
             PROVE  \E w \in Worker : at'[w] # "waiting"
  <2>1. exit' \in BOOLEAN
    BY ThreadTypes
  <2> QED
    BY <2>1 DEF NobodySleepsOnWork
<1>1. CASE UNCHANGED vars
  BY <1>1 DEF vars, NobodySleepsOnWork, NobodyLeaves
<1>2. ASSUME NEW w \in Worker, WorkerStep(w) \/ WakeUp(w)
      PROVE  \E v \in Worker : at'[v] # "waiting"
  <2>1. CASE WaitForWork(w)
    BY <2>1 DEF WaitForWork, HasWork
  <2>2. CASE ~WaitForWork(w)
    <3>1. \E a \in At \ {"waiting"} : at' = [at EXCEPT ![w] = a]
      BY <1>2, <2>2 DEF WorkerStep, WakeUp, WorkerStart, TakeUpdate, TakeWork, UpdateDone,
         WorkDone, Alert, Leave, Gone, At
    <3> QED
      BY <1>0, <3>1
  <2> QED
    BY <2>1, <2>2
<1>3. ASSUME NEW x \in Work, NEW r \in Prio, QueueWork(x, r)
      PROVE  \E v \in Worker : at'[v] # "waiting"
  BY <1>0, <1>3 DEF QueueWork, SignalOne, Waiting
<1>4. CASE QueueUpdate
  BY <1>0, <1>4 DEF QueueUpdate, SignalAll, Waiting
<1>5. ASSUME NEW x \in Work, Cancel(x)
      PROVE  \E v \in Worker : at'[v] # "waiting"
  <2>1. queue[p] # <<>>
    <3>1. queue[p] = <<>> => RemoveFirst(queue[p], x) = <<>>
      BY DEF RemoveFirst
    <3> QED
      BY <1>5, <3>1 DEF Cancel
  <2> QED
    BY <1>5, <2>1 DEF Cancel, NobodySleepsOnWork, NobodyLeaves
<1>6. CASE Stop \/ StartTimeout
  BY <1>6 DEF Stop, StartTimeout
<1>7. CASE MainStarted \/ MainWakeUp \/ Process \/ Reply \/ ProcessDone \/ Freed
  BY <1>7 DEF MainStarted, MainWakeUp, Process, Reply, ProcessDone, Freed, NobodySleepsOnWork,
     NobodyLeaves
<1> QED
  BY <1>1, <1>2, <1>3, <1>4, <1>5, <1>6, <1>7 DEF Next

-----------------------------------------------------------------------------
(* The invariant.                                                          *)

\* A pool whose threads were just spawned.
LEMMA InitIInv == Init => IInv
<1> SUFFICES ASSUME Init PROVE IInv
  OBVIOUS
<1> USE WorkQueueAssumption DEF Init
<1>1. Cardinality(Worker) \in Nat /\ Active = {} /\ Cardinality({}) = 0
  BY FS_CardinalityType, FS_EmptySet DEF Active
<1>2. TypeOK
  <2>1. 0 \in 0..MaxUpdates /\ 0 \in 0..MaxFaults /\ 0 \in 0..Cardinality(Worker)
    BY <1>1
  <2>2. /\ queue \in [Prio -> Seq(Work)] /\ status \in [Work -> Status] /\ at \in [Worker -> At]
        /\ job \in [Worker -> Work \cup {None}] /\ main \in MainAt /\ answers \in Seq(Work)
    BY DEF Status, At, MainAt
  <2>3. leave \in [Worker -> BOOLEAN] /\ exit \in BOOLEAN /\ alert \in BOOLEAN /\ early \in BOOLEAN
    OBVIOUS
  <2>4. /\ seenGen \in [Worker -> 0..MaxUpdates] /\ args \in [Worker -> 0..MaxUpdates]
        /\ ran \subseteq (0..MaxUpdates) \X Worker /\ freed \subseteq (0..MaxUpdates) \X Worker
    BY <2>1
  <2> QED
    BY <2>1, <2>2, <2>3, <2>4 DEF TypeOK
<1>3. InQueues /\ InWorkers /\ InAnswers
  BY DEF InQueues, InWorkers, InAnswers
<1>4. Arguments /\ Starting /\ Threads /\ LeaverLocks
  BY <1>1 DEF Arguments, Starting, Threads, LeaverLocks
<1>5. RepliesNoticed /\ NobodySleepsOnWork
  BY DEF RepliesNoticed, NobodySleepsOnWork
<1> QED
  BY <1>2, <1>3, <1>4, <1>5 DEF IInv

\* Every step keeps the invariant.
LEMMA NextIInv == IInv /\ [Next]_vars => IInv'
<1> SUFFICES ASSUME IInv, [Next]_vars PROVE IInv'
  OBVIOUS
<1> USE DEF IInv
<1>1. Starting' /\ Threads' /\ LeaverLocks'
  BY ThreadsKept, LockKept
<1>2. running' \in 0..Cardinality(Worker)
  <2>1. running' = Cardinality(Active') /\ Active' \subseteq Worker
    BY <1>1 DEF Threads, Active
  <2>2. Cardinality(Active') \in Nat /\ Cardinality(Worker) \in Nat
        /\ Cardinality(Active') <= Cardinality(Worker)
    BY <2>1, WorkQueueAssumption, FS_Subset, FS_CardinalityType
  <2> QED
    BY <2>1, <2>2
<1>3. TypeOK'
  BY <1>2, ItemTypes, UpdateTypes, ThreadTypes DEF TypeOK
<1>4. InQueues' /\ InWorkers' /\ InAnswers' /\ Arguments'
  BY ItemsKept, ArgumentsKept
<1>5. RepliesNoticed' /\ NobodySleepsOnWork'
  BY RepliesStayNoticed, WorkStaysNoticed
<1> QED
  BY <1>1, <1>3, <1>4, <1>5

\* It holds in every state.
LEMMA IInvHolds == Spec => []IInv
BY InitIInv, NextIInv, PTL DEF Spec

\* An item of the places is there once.
LEMMA CountIsOne ==
  ASSUME NEW S, NEW T \in SUBSET S, \A a, b \in T : a = b
  PROVE  Cardinality(T) = IF T = {} THEN 0 ELSE 1
<1>1. CASE T = {}
  BY <1>1, FS_EmptySet
<1>2. CASE T # {}
  <2>1. PICK a \in T : T = {a}
    BY <1>2
  <2> QED
    BY <1>2, <2>1, FS_Singleton
<1> QED
  BY <1>1, <1>2

\* The variables keep their types: the counter of running threads never goes
\* below zero or beyond the number of threads (workqueue.c, worker_thread_main).
THEOREM PoolTypeCorrect == Spec => []TypeOK
<1>1. IInv => TypeOK
  BY DEF IInv
<1> QED
  BY IInvHolds, <1>1, PTL

\* An item that was queued and neither cancelled nor replied to is in exactly
\* one place, and any other in none: workqueue_entry_cancel and
\* replyqueue_process free an entry that nobody else has.
THEOREM ItemsHeldOnce == Spec => []HeldOnce
<1>1. IInv => HeldOnce
  <2> SUFFICES ASSUME IInv, NEW x \in Work
               PROVE  Held(x) = IF status[x] \in {"queued", "running", "answered"} THEN 1 ELSE 0
    BY DEF HeldOnce
  <2> DEFINE Places == UNION {{p} \X DOMAIN queue[p] : p \in Prio}
             Q == {pos \in Places : queue[pos[1]][pos[2]] = x}
             W == {w \in Worker : job[w] = x}
             A == {i \in DOMAIN answers : answers[i] = x}
  <2>0. /\ queue \in [Prio -> Seq(Work)] /\ answers \in Seq(Work) /\ status[x] \in Status
        /\ x # None
    BY WorkQueueAssumption DEF IInv, TypeOK
  <2>1. \A pos : pos \in Q <=> \E p \in Prio : \E i \in DOMAIN queue[p] :
                                  pos = <<p, i>> /\ queue[p][i] = x
    OBVIOUS
  <2>2. (\A a, b \in Q : a = b) /\ (Q = {} <=> status[x] # "queued")
    <3>1. ASSUME NEW a \in Q, NEW b \in Q PROVE a = b
      <4>1. PICK p \in Prio : \E i \in DOMAIN queue[p] : a = <<p, i>> /\ queue[p][i] = x
        BY <2>1, <3>1
      <4>2. PICK i \in DOMAIN queue[p] : a = <<p, i>> /\ queue[p][i] = x
        BY <4>1
      <4>3. PICK r \in Prio : \E j \in DOMAIN queue[r] : b = <<r, j>> /\ queue[r][j] = x
        BY <2>1, <3>1
      <4>4. PICK j \in DOMAIN queue[r] : b = <<r, j>> /\ queue[r][j] = x
        BY <4>3
      <4>5. p = r /\ i = j
        BY <4>2, <4>4 DEF IInv, InQueues
      <4> QED
        BY <4>2, <4>4, <4>5
    <3>2. ASSUME status[x] = "queued" PROVE Q # {}
      <4>1. PICK p \in Prio : \E i \in DOMAIN queue[p] : queue[p][i] = x
        BY <3>2 DEF IInv, InQueues
      <4>2. PICK i \in DOMAIN queue[p] : queue[p][i] = x
        BY <4>1
      <4>3. <<p, i>> \in Q
        BY <2>1, <4>2
      <4> QED
        BY <4>3
    <3>3. Q # {} => status[x] = "queued"
      BY <2>1 DEF IInv, InQueues
    <3> QED
      BY <3>1, <3>2, <3>3
  <2>3. (\A a, b \in W : a = b) /\ (W = {} <=> status[x] # "running")
    BY <2>0 DEF IInv, InWorkers
  <2>4. (\A a, b \in A : a = b) /\ (A = {} <=> status[x] # "answered")
    BY <2>0 DEF IInv, InAnswers
  <2> HIDE DEF Q, W, A
  <2>5. /\ Cardinality(Q) = IF status[x] = "queued" THEN 1 ELSE 0
        /\ Cardinality(W) = IF status[x] = "running" THEN 1 ELSE 0
        /\ Cardinality(A) = IF status[x] = "answered" THEN 1 ELSE 0
    BY <2>2, <2>3, <2>4, CountIsOne
  <2>6. Held(x) = Cardinality(Q) + Cardinality(W) + Cardinality(A)
    BY DEF Held, Q, W, A
  <2> QED
    BY <2>5, <2>6
<1> QED
  BY IInvHolds, <1>1, PTL

\* The argument of an update is given to the update function at most once and
\* is not freed by threadpool_queue_update as well.
THEOREM ArgumentsOnce == Spec => []ArgsOnce
<1>1. IInv => ArgsOnce
  <2> SUFFICES ASSUME IInv PROVE ArgsOnce
    OBVIOUS
  <2>1. 0 \in 0..MaxUpdates
    BY WorkQueueAssumption
  <2> QED
    BY <2>1 DEF IInv, Arguments, ArgsOnce
<1> QED
  BY IInvHolds, <1>1, PTL

\* Unless the wait for the threads to start ended early, threadpool_free frees
\* the pool when every thread has left it, but for the one that still holds the
\* pool's lock.
THEOREM PoolFreedLast == Spec => []FreedLast
<1>1. IInv => FreedLast
  BY DEF IInv, Threads, LeaverLocks, Active, FreedLast
<1> QED
  BY IInvHolds, <1>1, PTL

\* No reply waits unnoticed: queue_reply alerts when the answers were empty, and
\* replyqueue_process drains the alert before it looks.
THEOREM RepliesAreNoticed == Spec => []RepliesNoticed
<1>1. IInv => RepliesNoticed
  BY DEF IInv
<1> QED
  BY IInvHolds, <1>1, PTL

\* No work waits while all workers sleep: no wake-up of tor_cond_signal_one is
\* lost.
THEOREM WorkIsNoticed == Spec => []NobodySleepsOnWork
<1>1. IInv => NobodySleepsOnWork
  BY DEF IInv
<1> QED
  BY IInvHolds, <1>1, PTL

-----------------------------------------------------------------------------
(***************************************************************************)
(* Bootstrap status.  The inductive invariant adds to the checked ones     *)
(* what the two directory variables have to do with each other: the phase  *)
(* is never beyond the progress, so that a held back report is about       *)
(* progress.  And it says that only a relay that has just begun has no     *)
(* percentage.                                                             *)
(***************************************************************************)

\* The directory variables agree.
DirAgrees ==
  /\ dirPhase <= dirProgress
  /\ dirPhase = Undef => dirProgress = Undef

\* A relay that has begun has a percentage.
Begun == /\ percent = Undef => stage = "init" /\ dirProgress = Undef /\ ~firstOrconn
         /\ stage # "aborted"

\* The inductive invariant.
BootInv == BootTypeOK /\ MessageIsPercent /\ DirReported /\ PhaseKnown /\ DirAgrees /\ Begun

\* The variables a report of a status may change.
reportVars == <<percent, phase, notice, problems, message>>

\* A report of a status, with progress that is not below it, keeps the types
\* and the message, goes forward, and leaves the percentage at both or beyond.
LEMMA ReportForward ==
  ASSUME BootTypeOK, MessageIsPercent, PhaseKnown,
         NEW st \in Other \cup Dir \cup {Undef},
         NEW progress \in Undef..Done,
         progress = 0 \/ progress >= st,
         percent = Undef => st = 0,
         st = Undef => progress = Undef,
         Report(st, progress)
  PROVE  /\ percent' \in 0..Done
         /\ phase' \in Other \cup Dir
         /\ notice' \in 0..Done
         /\ problems' \in 0..Threshold
         /\ message' = percent'
         /\ phase' <= percent'
         /\ percent' >= percent
         /\ percent' >= st
         /\ percent' >= progress
<1> USE BootstrapAssumption DEF BootTypeOK, MessageIsPercent, PhaseKnown, Undef
<1>1. /\ percent \in Int /\ st \in Int /\ progress \in Int /\ notice \in Int
      /\ Done \in Int /\ st <= Done
  <2>1. Done \in Nat /\ Other \subseteq 0..Done /\ Dir \subseteq 1..(Done - 1)
    OBVIOUS
  <2>2. st \in Int /\ st <= Done
    BY <2>1
  <2>3. percent \in -1..Done /\ progress \in -1..Done /\ notice \in 0..Done
    OBVIOUS
  <2> QED
    BY <2>1, <2>2, <2>3
<1>2. CASE Ignored(st, progress)
  <2>1. UNCHANGED reportVars
    BY <1>2 DEF Report, reportVars
  <2>2. percent >= st /\ percent >= progress /\ percent # -1
    BY <1>1, <1>2 DEF Ignored
  <2> QED
    BY <1>1, <2>1, <2>2 DEF reportVars
<1>3. CASE ~Ignored(st, progress)
  <2>1. st > percent \/ (progress # 0 /\ progress > percent)
    BY <1>1, <1>3 DEF Ignored
  <2>2. st # -1
    BY <1>1, <2>1
  <2>3. /\ message' = IF progress # 0 THEN progress ELSE st
        /\ phase' = IF st > percent THEN st ELSE phase
        /\ percent' = MaxOf(progress, MaxOf(st, percent))
        /\ problems' = IF progress > MaxOf(st, percent) THEN 0 ELSE problems
        /\ notice' \in {notice, MaxOf(percent', notice)}
    BY <1>3 DEF Report
  <2>4. /\ percent' >= progress /\ percent' >= st /\ percent' >= percent
        /\ percent' \in 0..Done
    BY <1>1, <2>1, <2>2, <2>3 DEF MaxOf
  <2>5. message' = percent'
    BY <1>1, <2>1, <2>2, <2>3 DEF MaxOf
  <2>6. phase' \in Other \cup Dir /\ phase' <= percent'
    BY <1>1, <2>1, <2>2, <2>3, <2>4
  <2>7. notice' \in 0..Done
    BY <1>1, <2>3, <2>4 DEF MaxOf
  <2>8. problems' \in 0..Threshold
    BY <2>3
  <2> QED
    BY <2>4, <2>5, <2>6, <2>7, <2>8
<1> QED
  BY <1>2, <1>3

\* The initial state satisfies the inductive invariant.
LEMMA InitBoot == BootInit => BootInv
<1> SUFFICES ASSUME BootInit PROVE BootInv
  OBVIOUS
<1>1. Done \in Nat /\ Threshold \in Nat /\ Done >= 0
  BY BootstrapAssumption DEF BootstrapAssumption
<1>2. BootTypeOK
  <2>1. firstOrconn \in BOOLEAN
    BY DEF BootInit
  <2>2. -1 \in -1..Done /\ 0 \in 0..Done /\ 0 \in 0..Threshold /\ -1 \in -1..(Done - 1)
    BY <1>1
  <2>3. /\ phase \in Other \cup Dir \cup {Undef} /\ dirPhase \in Dir \cup {Undef}
        /\ stage = "init"
    BY DEF BootInit
  <2>4. percent = -1 /\ message = -1 /\ dirProgress = -1 /\ notice = 0 /\ problems = 0
    BY DEF BootInit, Undef
  <2> QED
    BY <2>1, <2>2, <2>3, <2>4 DEF BootTypeOK, Undef
<1>3. MessageIsPercent /\ DirReported /\ PhaseKnown /\ DirAgrees /\ Begun
  BY DEF BootInit, MessageIsPercent, DirReported, PhaseKnown, DirAgrees, Begun, Undef
<1> QED
  BY <1>2, <1>3 DEF BootInv

\* Every step keeps it, and moves the message forward.
LEMMA NextBoot == BootInv /\ [BootNext]_bootVars => BootInv' /\ message' >= message
<1> SUFFICES ASSUME BootInv, [BootNext]_bootVars PROVE BootInv' /\ message' >= message
  OBVIOUS
<1> USE BootstrapAssumption
<1>t. /\ percent \in Int /\ message \in Int /\ dirProgress \in Int /\ dirPhase \in Int
      /\ message = percent
  BY DEF BootInv, BootTypeOK, MessageIsPercent, BootstrapAssumption, Undef
<1>1. CASE UNCHANGED bootVars
  BY <1>t, <1>1 DEF BootInv, BootTypeOK, MessageIsPercent, DirReported, PhaseKnown, DirAgrees, Begun,
     bootVars, dirVars
<1>2. ASSUME NEW s \in Other, Event(s) PROVE BootInv' /\ message' >= message
  <2>1. /\ percent' \in 0..Done /\ phase' \in Other \cup Dir /\ notice' \in 0..Done
        /\ problems' \in 0..Threshold /\ message' = percent'
        /\ phase' <= percent' /\ percent' >= percent
    BY <1>2, ReportForward DEF BootInv, Begun, Event, BootstrapAssumption, Undef
  <2> QED
    BY <1>t, <1>2, <2>1 DEF BootInv, Event, BootTypeOK, MessageIsPercent, DirReported, PhaseKnown,
       DirAgrees, Begun, dirVars, Undef, BootstrapAssumption
<1>3. ASSUME NEW s \in Dir, NEW g \in Progress(s), DirEvent(s, g)
      PROVE  BootInv' /\ message' >= message
  <2>1. /\ g \in Undef..Done /\ (g = 0 \/ g >= s) /\ g < Done /\ s # Undef /\ percent # Undef
        /\ s \in 1..(Done - 1)
    <3>1. s \in 1..(Done - 1) /\ Loading \in 1..(Done - 1) /\ Enough \in 1..(Done - 1) /\ Done \in Nat
      BY DEF BootstrapAssumption
    <3>2. g = 0 \/ (s = Loading /\ g \in Loading..(Enough - 1))
      BY <1>3 DEF Progress
    <3>3. percent # Undef
      BY <1>3 DEF DirEvent, BootInv, Begun
    <3> QED
      BY <3>1, <3>2, <3>3 DEF Undef
  <2>2. /\ dirPhase' \in Dir /\ dirProgress' \in 1..(Done - 1) /\ dirPhase' <= dirProgress'
    BY <1>3, <1>t, <2>1 DEF BootInv, BootTypeOK, DirAgrees, DirEvent, MaxOf, BootstrapAssumption, Undef
  <2>3. dirProgress' \in {dirProgress, s, g}
    BY <1>3 DEF DirEvent, MaxOf
  <2>4. CASE firstOrconn
    <3>1. /\ percent' \in 0..Done /\ phase' \in Other \cup Dir /\ notice' \in 0..Done
          /\ problems' \in 0..Threshold /\ message' = percent'
          /\ phase' <= percent' /\ percent' >= percent /\ percent' >= s /\ percent' >= g
      BY <1>3, <2>1, <2>4, ReportForward DEF BootInv, DirEvent
    <3>2. percent' >= dirProgress'
      BY <1>t, <2>1, <2>3, <2>4, <3>1 DEF BootInv, DirReported
    <3> QED
      BY <1>t, <1>3, <2>2, <3>1, <3>2 DEF BootInv, DirEvent, BootTypeOK, MessageIsPercent,
         DirReported, PhaseKnown, DirAgrees, Begun, Undef, BootstrapAssumption
  <2>5. CASE ~firstOrconn
    BY <1>t, <1>3, <2>2, <2>5 DEF BootInv, DirEvent, BootTypeOK, MessageIsPercent,
       DirReported, PhaseKnown, DirAgrees, Begun, Undef, BootstrapAssumption
  <2> QED
    BY <2>4, <2>5
<1>4. CASE FirstOrconn
  <2>1. /\ dirPhase \in Other \cup Dir \cup {Undef} /\ dirProgress \in Undef..Done
        /\ dirProgress >= dirPhase /\ percent # Undef
    BY <1>4, <1>t DEF BootInv, Begun, BootTypeOK, DirAgrees, FirstOrconn, BootstrapAssumption, Undef
  <2>2. /\ percent' \in 0..Done /\ phase' \in Other \cup Dir /\ notice' \in 0..Done
        /\ problems' \in 0..Threshold /\ message' = percent'
        /\ phase' <= percent' /\ percent' >= percent /\ percent' >= dirProgress
    BY <1>4, <2>1, ReportForward DEF BootInv, DirAgrees, FirstOrconn
  <2> QED
    BY <1>t, <1>4, <2>2 DEF BootInv, FirstOrconn, BootTypeOK, MessageIsPercent, DirReported,
       PhaseKnown, DirAgrees, Begun, Undef, BootstrapAssumption
<1>5. CASE Problem
  BY <1>t, <1>5 DEF BootInv, Problem, BootTypeOK, MessageIsPercent, DirReported, PhaseKnown,
     DirAgrees, Begun, dirVars, Undef, BootstrapAssumption
<1>6. CASE StateFileSkew \/ RunMainLoop
  <2>1. /\ percent' \in 0..Done /\ phase' \in Other \cup Dir /\ notice' \in 0..Done
        /\ problems' \in 0..Threshold /\ message' = percent'
        /\ phase' <= percent' /\ percent' >= percent
    BY <1>6, ReportForward DEF BootInv, StateFileSkew, RunMainLoop, BootstrapAssumption, Undef
  <2>2. UNCHANGED dirVars /\ stage' \in {"skew", "run"}
    BY <1>6 DEF StateFileSkew, RunMainLoop
  <2> QED
    BY <1>t, <2>1, <2>2 DEF BootInv, BootTypeOK, MessageIsPercent, DirReported, PhaseKnown,
       DirAgrees, Begun, dirVars, Undef, BootstrapAssumption
<1> QED
  BY <1>1, <1>2, <1>3, <1>4, <1>5, <1>6 DEF BootNext

\* The variables keep their types.
THEOREM StatusTypeCorrect == BootSpec => []BootTypeOK
<1>1. BootInv => BootTypeOK
  BY DEF BootInv
<1> QED
  BY InitBoot, NextBoot, <1>1, PTL DEF BootSpec

\* A controller reads the percentage that the relay has.
THEOREM ReadsPercent == BootSpec => []MessageIsPercent
<1>1. BootInv => MessageIsPercent
  BY DEF BootInv
<1> QED
  BY InitBoot, NextBoot, <1>1, PTL DEF BootSpec

\* Directory progress that was held back is reported with the connection.
THEOREM NothingHeldBack == BootSpec => []DirReported
<1>1. BootInv => DirReported
  BY DEF BootInv
<1> QED
  BY InitBoot, NextBoot, <1>1, PTL DEF BootSpec

\* control_event_bootstrap_problem never finds the percentage undefined, where it
\* would abort the relay: or_state_load and run_tor_main_loop report a status
\* before anything can go wrong.
THEOREM ProblemsNeverAbort == BootSpec => []NeverAborts
<1>1. BootInv => NeverAborts
  BY DEF BootInv, Begun, NeverAborts
<1> QED
  BY InitBoot, NextBoot, <1>1, PTL DEF BootSpec

\* The phase that the report of a problem names is not beyond the percentage it
\* reports.
THEOREM ProblemNamesPhase == BootSpec => []PhaseKnown
<1>1. BootInv => PhaseKnown
  BY DEF BootInv
<1> QED
  BY InitBoot, NextBoot, <1>1, PTL DEF BootSpec

\* What a controller reads never goes back.
THEOREM MessageForward == BootSpec => NeverBack
<1>1. BootInv /\ [BootNext]_bootVars => [message' >= message]_bootVars
  BY NextBoot
<1> QED
  BY InitBoot, NextBoot, <1>1, PTL DEF BootSpec, NeverBack
=============================================================================
