------------------------------ MODULE WorkQueue ------------------------------
(***************************************************************************)
(* The thread pool of the relay (lib/evloop/workqueue.c): the main thread  *)
(* queues work and updates, worker threads run them, and replies come back *)
(* through a reply queue that wakes the main thread by an alert socket     *)
(* (lib/net/alertsock.c).  The pool is started by cpuworker_init and freed *)
(* by cpuworker_free_all.                                                  *)
(*                                                                         *)
(* What a thread does while it holds pool->lock, from taking it to giving  *)
(* it up, is one step, except where another thread can notice: the main    *)
(* thread holds the lock while it starts the threads, and a worker that    *)
(* leaves gives control_lock up before it gives up the lock.  Critical     *)
(* sections of the reply queue's own lock are part of the step around      *)
(* them.  A priority is chosen at random by the code, so any queue with    *)
(* work in it may be the one.                                              *)
(***************************************************************************)
EXTENDS Integers, Sequences, SequencesExt, FiniteSets

CONSTANTS Worker,      \* worker threads
          Work,        \* work items
          Prio,        \* priorities
          Main, None,
          MayLeave,    \* whether a work or update function may end its thread
          MaxUpdates,  \* bound: how many updates are queued
          MaxFaults    \* bound: start-up timeouts and wake-ups without a signal

ASSUME WorkQueueAssumption ==
  /\ IsFiniteSet(Worker) /\ Worker # {}
  /\ Main \notin Worker /\ None \notin Worker \cup Work \cup {Main}
  /\ MayLeave \in BOOLEAN
  /\ MaxUpdates \in Nat /\ MaxFaults \in Nat

VARIABLES
  queue,    \* pool->work, per priority
  status,   \* where each work item is in its life
  at,       \* where each worker thread is
  job,      \* the work item a worker runs
  leave,    \* its last function returned something else than WQ_RPL_REPLY
  gen,      \* pool->generation
  seenGen,  \* thread->generation
  args,     \* pool->update_args: the update each entry is for; 0: NULL
  ran,      \* history: <<update, worker>> whose function was called
  freed,    \* history: <<update, worker>> whose argument was freed instead
  running,  \* n_worker_threads_running
  lock,     \* holder of pool->lock
  control,  \* holder of pool->control_lock
  exit,     \* pool->exit
  main,     \* where the main thread is
  answers,  \* reply_queue->answers
  alert,    \* the alert socket is readable
  faults,
  early     \* history: the wait for the threads ended before all had started

poolVars == <<queue, gen, args, exit>>
threadVars == <<at, job, leave, seenGen>>
lockVars == <<running, lock, control>>
replyVars == <<answers, alert>>
vars == <<poolVars, threadVars, lockVars, replyVars, status, ran, freed, main, faults, early>>

Status == {"idle", "queued", "running", "answered", "replied", "cancelled"}
\* "spawned": before control_lock; "top": about to take the lock and to look
\* at pool->exit; "inner": about to take it in the inner loop.
At == {"spawned", "top", "inner", "waiting", "work", "alert", "update", "exiting", "gone"}
MainAt == {"starting", "started", "run", "process", "stopping", "freed"}

\* threadpool_start_threads has spawned the threads and waits on the condition:
\* it holds pool->lock and has given control_lock up for the wait.
Init ==
  /\ queue = [p \in Prio |-> <<>>]
  /\ status = [x \in Work |-> "idle"]
  /\ at = [w \in Worker |-> "spawned"]
  /\ job = [w \in Worker |-> None]
  /\ leave = [w \in Worker |-> FALSE]
  /\ gen = 0
  /\ seenGen = [w \in Worker |-> 0]
  /\ args = [w \in Worker |-> 0]
  /\ ran = {}
  /\ freed = {}
  /\ running = 0
  /\ lock = Main
  /\ control = None
  /\ exit = FALSE
  /\ main = "starting"
  /\ answers = <<>>
  /\ alert = FALSE
  /\ faults = 0
  /\ early = FALSE

-----------------------------------------------------------------------------
(* The condition variable.                                                 *)

Waiting == {w \in Worker : at[w] = "waiting"}

\* tor_cond_signal_one, tor_cond_signal_all: a waiter goes for the lock again.
SignalOne ==
  IF Waiting = {} THEN UNCHANGED at
  ELSE \E w \in Waiting : at' = [at EXCEPT ![w] = "top"]

SignalAll == at' = [w \in Worker |-> IF w \in Waiting THEN "top" ELSE at[w]]

\* A fault of the environment: a wait ends without a signal.
Fault == faults < MaxFaults /\ faults' = faults + 1

-----------------------------------------------------------------------------
(* Worker threads: worker_thread_main.                                     *)

\* The last thread to start wakes the main thread.
WorkerStart(w) ==
  /\ at[w] = "spawned"
  /\ control = None
  /\ running' = running + 1
  /\ at' = [at EXCEPT ![w] = "top"]
  /\ main' = IF running' = Cardinality(Worker) /\ main = "starting"
             THEN "started" ELSE main
  /\ UNCHANGED <<poolVars, job, leave, seenGen, lock, control, replyVars,
                 status, ran, freed, faults, early>>

\* The worker has the lock and is in the inner loop.  pool->exit is looked at
\* on the way there from the top only.
InLoop(w) ==
  /\ lock = None
  /\ \/ at[w] = "top" /\ ~exit
     \/ at[w] = "inner" /\ ~leave[w]

\* Mutant: the argument of an update stays in the pool.
MutTakeUpdate(w) ==
  /\ InLoop(w)
  /\ seenGen[w] # gen
  /\ ran' = IF args[w] = 0 THEN ran ELSE ran \cup {<<args[w], w>>}
  /\ seenGen' = [seenGen EXCEPT ![w] = gen]
  /\ at' = [at EXCEPT ![w] = "update"]
  /\ UNCHANGED <<poolVars, job, leave, lockVars, replyVars, status, freed, main, faults, early>>

\* Updates go first.
TakeUpdate(w) ==
  /\ InLoop(w)
  /\ seenGen[w] # gen
  /\ ran' = ran \cup {<<args[w], w>>}
  /\ args' = [args EXCEPT ![w] = 0]
  /\ seenGen' = [seenGen EXCEPT ![w] = gen]
  /\ at' = [at EXCEPT ![w] = "update"]
  /\ UNCHANGED <<queue, gen, exit, job, leave, lockVars, replyVars, status, freed, main, faults, early>>

\* worker_thread_extract_next_work.
TakeWork(w) ==
  /\ InLoop(w)
  /\ seenGen[w] = gen
  /\ \E p \in Prio :
       /\ queue[p] # <<>>
       /\ queue' = [queue EXCEPT ![p] = Tail(@)]
       /\ job' = [job EXCEPT ![w] = Head(queue[p])]
       /\ status' = [status EXCEPT ![Head(queue[p])] = "running"]
  /\ at' = [at EXCEPT ![w] = "work"]
  /\ UNCHANGED <<gen, args, exit, leave, seenGen, lockVars, replyVars, ran, freed, main, faults, early>>

\* worker_thread_has_work.
HasWork(w) == seenGen[w] # gen \/ \E p \in Prio : queue[p] # <<>>

\* tor_cond_wait; pool->exit is not looked at here.
WaitForWork(w) ==
  /\ InLoop(w)
  /\ ~HasWork(w)
  /\ at' = [at EXCEPT ![w] = "waiting"]
  /\ UNCHANGED <<poolVars, job, leave, seenGen, lockVars, replyVars,
                 status, ran, freed, main, faults, early>>

\* The update function returns.
UpdateDone(w) ==
  /\ at[w] = "update"
  /\ at' = [at EXCEPT ![w] = "inner"]
  /\ leave' \in {leave} \cup (IF MayLeave THEN {[leave EXCEPT ![w] = TRUE]} ELSE {})
  /\ UNCHANGED <<poolVars, job, seenGen, lockVars, replyVars, status, ran, freed, main, faults, early>>

\* Mutant: emptiness is looked at after the insertion.
MutMustAlert == Append(answers, None) = <<>>

\* was_empty of queue_reply.
MustAlert == answers = <<>>

\* The work function returns, and queue_reply puts the item on the answers.
WorkDone(w) ==
  /\ at[w] = "work"
  /\ answers' = Append(answers, job[w])
  /\ status' = [status EXCEPT ![job[w]] = "answered"]
  /\ job' = [job EXCEPT ![w] = None]
  /\ at' = [at EXCEPT ![w] = IF MustAlert THEN "alert" ELSE "inner"]
  /\ leave' \in {leave} \cup (IF MayLeave THEN {[leave EXCEPT ![w] = TRUE]} ELSE {})
  /\ UNCHANGED <<poolVars, seenGen, lockVars, alert, ran, freed, main, faults, early>>

\* queue_reply, outside the lock: alert_fn.
Alert(w) ==
  /\ at[w] = "alert"
  /\ alert' = TRUE
  /\ at' = [at EXCEPT ![w] = "inner"]
  /\ UNCHANGED <<poolVars, job, leave, seenGen, lockVars, answers, status, ran, freed, main, faults, early>>

\* Mutant: control_lock stays locked.
MutLeave(w) ==
  /\ lock = None
  /\ \/ at[w] = "top" /\ exit
     \/ at[w] = "inner" /\ leave[w]
  /\ running' = running - 1
  /\ lock' = w
  /\ at' = [at EXCEPT ![w] = "exiting"]
  /\ UNCHANGED <<poolVars, job, leave, seenGen, control, replyVars, status, ran, freed, main, faults, early>>

\* Mutant: the first thread to leave gives control_lock up.
MutLeaveFirst(w) ==
  /\ lock = None
  /\ \/ at[w] = "top" /\ exit
     \/ at[w] = "inner" /\ leave[w]
  /\ running' = running - 1
  /\ control' = None
  /\ lock' = w
  /\ at' = [at EXCEPT ![w] = "exiting"]
  /\ UNCHANGED <<poolVars, job, leave, seenGen, replyVars, status, ran, freed, main, faults, early>>

\* The thread leaves: the last one gives control_lock up for the main thread,
\* which locked it, and then ...
Leave(w) ==
  /\ lock = None
  /\ \/ at[w] = "top" /\ exit
     \/ at[w] = "inner" /\ leave[w]
  /\ running' = running - 1
  /\ control' = IF running' = 0 THEN None ELSE control
  /\ lock' = w
  /\ at' = [at EXCEPT ![w] = "exiting"]
  /\ UNCHANGED <<poolVars, job, leave, seenGen, replyVars, status, ran, freed, main, faults, early>>

\* ... gives the lock up, which lives in the pool.
Gone(w) ==
  /\ at[w] = "exiting"
  /\ lock' = None
  /\ at' = [at EXCEPT ![w] = "gone"]
  /\ UNCHANGED <<poolVars, job, leave, seenGen, running, control, replyVars,
                 status, ran, freed, main, faults, early>>

\* A wait for work ends without a signal.
WakeUp(w) ==
  /\ Fault
  /\ at[w] = "waiting"
  /\ at' = [at EXCEPT ![w] = "top"]
  /\ UNCHANGED <<poolVars, job, leave, seenGen, lockVars, replyVars, status, ran, freed, main, early>>

-----------------------------------------------------------------------------
(* The main thread.                                                        *)

\* threadpool_start_threads: the wait is over; control_lock stays locked.
MainStarted ==
  /\ main = "started"
  /\ control = None
  /\ control' = Main
  /\ lock' = None
  /\ main' = "run"
  /\ UNCHANGED <<poolVars, threadVars, running, replyVars, status, ran, freed, faults, early>>

\* The wait times out: threadpool_new frees the pool at once.
StartTimeout ==
  /\ Fault
  /\ main = "starting"
  /\ control = None
  /\ control' = Main
  /\ lock' = None
  /\ exit' = TRUE
  /\ main' = "stopping"
  /\ early' = TRUE
  /\ UNCHANGED <<queue, gen, args, threadVars, running, replyVars, status, ran, freed>>

\* The wait ends without a signal: it is not repeated.
MainWakeUp ==
  /\ Fault
  /\ main = "starting"
  /\ main' = "started"
  /\ early' = TRUE
  /\ UNCHANGED <<poolVars, threadVars, lockVars, replyVars, status, ran, freed>>

\* In the event loop, or in a reply function that it runs.
MainActive == main \in {"run", "process"} /\ lock = None

\* threadpool_queue_work_priority.
QueueWork(x, p) ==
  /\ MainActive
  /\ status[x] = "idle"
  /\ status' = [status EXCEPT ![x] = "queued"]
  /\ queue' = [queue EXCEPT ![p] = Append(@, x)]
  /\ SignalOne
  /\ UNCHANGED <<gen, args, exit, job, leave, seenGen, lockVars, replyVars,
                 ran, freed, main, faults, early>>

\* Mutant: work that is running is cancelled too.
MutMayCancel(x) == status[x] \in {"queued", "running"}

\* ent->pending.
MayCancel(x) == status[x] = "queued"

\* workqueue_entry_cancel; only for work whose reply function has not run.
Cancel(x) ==
  /\ MainActive
  /\ status[x] \in {"queued", "running", "answered"}
  /\ MayCancel(x)
  /\ queue' = [p \in Prio |-> RemoveFirst(queue[p], x)]
  /\ status' = [status EXCEPT ![x] = "cancelled"]
  /\ UNCHANGED <<gen, args, exit, threadVars, lockVars, replyVars, ran, freed, main, faults, early>>

\* threadpool_queue_update: the arguments that no thread took are freed.
QueueUpdate ==
  /\ MainActive
  /\ gen < MaxUpdates
  /\ gen' = gen + 1
  /\ freed' = freed \cup {<<args[w], w>> : w \in {v \in Worker : args[v] # 0}}
  /\ args' = [w \in Worker |-> gen + 1]
  /\ SignalAll
  /\ UNCHANGED <<queue, exit, job, leave, seenGen, lockVars, replyVars, status, ran, main, faults, early>>

\* replyqueue_process: drain_fn, then one reply after the other.
Process ==
  /\ main = "run"
  /\ alert
  /\ alert' = FALSE
  /\ main' = "process"
  /\ UNCHANGED <<poolVars, threadVars, lockVars, answers, status, ran, freed, faults, early>>

Reply ==
  /\ main = "process"
  /\ answers # <<>>
  /\ answers' = Tail(answers)
  /\ status' = [status EXCEPT ![Head(answers)] = "replied"]
  /\ UNCHANGED <<poolVars, threadVars, lockVars, alert, ran, freed, main, faults, early>>

ProcessDone ==
  /\ main = "process"
  /\ answers = <<>>
  /\ main' = "run"
  /\ UNCHANGED <<poolVars, threadVars, lockVars, replyVars, status, ran, freed, faults, early>>

\* threadpool_stop_threads up to its wait for control_lock.
Stop ==
  /\ main = "run"
  /\ lock = None
  /\ exit' = TRUE
  /\ SignalAll
  /\ main' = "stopping"
  /\ UNCHANGED <<queue, gen, args, job, leave, seenGen, lockVars, replyVars,
                 status, ran, freed, faults, early>>

\* control_lock is free: threadpool_free goes on to free the pool.  It calls
\* free_update_arg_fn once, on the array and not on the arguments in it, which
\* stay as they are.
Freed ==
  /\ main = "stopping"
  /\ control = None
  /\ main' = "freed"
  /\ UNCHANGED <<poolVars, threadVars, lockVars, replyVars, status, ran, freed, faults, early>>

WorkerStep(w) ==
  \/ WorkerStart(w) \/ TakeUpdate(w) \/ TakeWork(w) \/ WaitForWork(w)
  \/ UpdateDone(w) \/ WorkDone(w) \/ Alert(w) \/ Leave(w) \/ Gone(w)

Next ==
  \/ \E w \in Worker : WorkerStep(w) \/ WakeUp(w)
  \/ \E x \in Work, p \in Prio : QueueWork(x, p)
  \/ \E x \in Work : Cancel(x)
  \/ QueueUpdate
  \/ MainStarted \/ StartTimeout \/ MainWakeUp \/ Process \/ Reply \/ ProcessDone \/ Stop \/ Freed

Spec == Init /\ [][Next]_vars

(***************************************************************************)
(* Fairness: threads are scheduled and functions return; the event loop    *)
(* runs the reply event.  Nobody is bound to queue work, to stop the pool  *)
(* or to meet a fault.                                                     *)
(***************************************************************************)
Fairness ==
  /\ \A w \in Worker : WF_vars(WorkerStep(w))
  /\ WF_vars(MainStarted \/ Process \/ Reply \/ ProcessDone \/ Freed)

FairSpec == Spec /\ Fairness

-----------------------------------------------------------------------------
(* Properties.                                                             *)

\* Types of the variables.
TypeOK ==
  /\ queue \in [Prio -> Seq(Work)]
  /\ status \in [Work -> Status]
  /\ at \in [Worker -> At]
  /\ job \in [Worker -> Work \cup {None}]
  /\ leave \in [Worker -> BOOLEAN]
  /\ gen \in 0..MaxUpdates
  /\ seenGen \in [Worker -> 0..MaxUpdates]
  /\ args \in [Worker -> 0..MaxUpdates]
  /\ ran \subseteq (0..MaxUpdates) \X Worker
  /\ freed \subseteq (0..MaxUpdates) \X Worker
  /\ running \in 0..Cardinality(Worker)
  /\ lock \in Worker \cup {Main, None}
  /\ control \in {Main, None}
  /\ exit \in BOOLEAN
  /\ main \in MainAt
  /\ answers \in Seq(Work)
  /\ alert \in BOOLEAN
  /\ faults \in 0..MaxFaults
  /\ early \in BOOLEAN

\* How often an item is held by queues, workers and the answers.
Held(x) ==
  Cardinality({pos \in UNION {{p} \X DOMAIN queue[p] : p \in Prio} : queue[pos[1]][pos[2]] = x})
  + Cardinality({w \in Worker : job[w] = x})
  + Cardinality({i \in DOMAIN answers : answers[i] = x})

\* An item that was queued and neither cancelled nor replied to is in exactly
\* one place, whatever cancellation races the workers; any other in none.  It
\* is what entitles workqueue_entry_cancel and replyqueue_process to free it.
HeldOnce ==
  \A x \in Work : Held(x) = IF status[x] \in {"queued", "running", "answered"} THEN 1 ELSE 0

\* Replies never wait without anybody about to look at them: queue_reply only
\* alerts when the answers were empty, and replyqueue_process drains the
\* alert before it looks.
RepliesNoticed ==
  answers # <<>> /\ main = "run" => alert \/ \E w \in Worker : at[w] = "alert"

\* No work or update function has asked its thread to end.
NobodyLeaves == \A w \in Worker : ~leave[w]

\* Work never waits while all remaining workers sleep (unless a work or
\* update function ends threads, or no thread is left).
NobodySleepsOnWork ==
  (NobodyLeaves /\ ~exit /\ \E p \in Prio : queue[p] # <<>>)
    => \E w \in Worker : at[w] # "waiting"

\* The argument of an update is given to the update function at most once and
\* is not freed by the main thread as well.
ArgsOnce == ran \cap freed = {} /\ \A w \in Worker : <<0, w>> \notin ran \cup freed

\* Worker w is shut out: the main thread's wait for the threads ended without
\* a signal, and control_lock, which w has to take first, stays locked.
ShutOut(w) == main = "run" /\ at[w] = "spawned"

\* Every item queued is replied to or cancelled, unless the pool is stopped or
\* loses threads.
AllReplied ==
  \A x \in Work :
    status[x] = "queued" ~>
      \/ status[x] \in {"replied", "cancelled"}
      \/ main \in {"stopping", "freed"}
      \/ ~NobodyLeaves \/ \E w \in Worker : ShutOut(w)

\* Every worker gets to the latest update, unless the pool is stopped or loses
\* that thread.
UpdatesReach ==
  \A w \in Worker :
    seenGen[w] # gen ~>
      seenGen[w] = gen \/ main \in {"stopping", "freed"} \/ leave[w] \/ ShutOut(w)

\* threadpool_free waits until all worker threads have exited, and they do, if
\* the stop found none of them in a function or on its way back to the queue:
\* such a worker goes to sleep without looking at pool->exit again.
StopReturns ==
  main = "stopping" /\ (\A w \in Worker : at[w] \in {"top", "exiting", "gone"}) ~> main = "freed"

\* The pool is freed last, if the main thread's wait for the threads to start
\* was ended by the last of them: every thread has left it, but for the one that
\* gave control_lock up, which still has the pool's lock in hand (see Gone).
\* After a wait that timed out or ended without a signal (workqueue.c:598-631),
\* a thread that had not started comes for control_lock when the pool is freed
\* (653), and this does not hold.
FreedLast ==
  main = "freed" /\ ~early =>
    \A w \in Worker : at[w] = "gone" \/ (at[w] = "exiting" /\ lock = w)
=============================================================================
