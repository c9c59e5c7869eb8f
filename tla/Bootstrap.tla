------------------------------ MODULE Bootstrap ------------------------------
(***************************************************************************)
(* What the relay tells about its progress when it starts                  *)
(* (feature/control/control_bootstrap.c): the percentage and the message   *)
(* that a controller reads with GETINFO status/bootstrap-phase.  Events    *)
(* come from everywhere in the relay and in any order; those about the     *)
(* directory are held back until a first connection to a relay is open.    *)
(* p4.py polls the message until it says 100.                              *)
(*                                                                         *)
(* Before the main loop runs nothing happens, but that the state file may  *)
(* have been written in the future (app/config/statefile.c), which is a    *)
(* problem to report like any other.                                       *)
(***************************************************************************)
EXTENDS Integers

CONSTANTS Other,      \* statuses reported as they happen
          Dir,        \* statuses about the directory
          Loading,    \* the one of them with progress within the status
          Enough,     \* the status that ends it
          Done,
          Threshold   \* problems before a warning

Undef == -1

ASSUME BootstrapAssumption ==
  /\ Other \subseteq 0..Done /\ {0, Done} \subseteq Other
  /\ Dir \subseteq 1..(Done - 1) /\ {Loading, Enough} \subseteq Dir
  /\ Done \in Nat /\ Loading < Enough
  /\ Threshold \in Nat

VARIABLES
  percent,      \* bootstrap_percent
  phase,        \* bootstrap_phase
  notice,       \* notice_bootstrap_percent
  problems,     \* bootstrap_problems
  message,      \* percentage in last_sent_bootstrap_message; Undef: none yet
  firstOrconn,  \* bootstrap_first_orconn
  dirPhase,     \* bootstrap_dir_phase
  dirProgress,  \* bootstrap_dir_progress
  stage         \* how far the relay is: "init", "skew" (the state file is from the
                \* future), "loaded", "run", or "aborted" by an assertion

dirVars == <<firstOrconn, dirPhase, dirProgress>>
bootVars == <<percent, phase, notice, problems, message, dirVars, stage>>

BootInit ==
  /\ percent = Undef
  /\ phase = Undef
  /\ notice = 0
  /\ problems = 0
  /\ message = Undef
  /\ firstOrconn = FALSE
  /\ dirPhase = Undef
  /\ dirProgress = Undef
  /\ stage = "init"

\* Mutant: progress is reported whether or not it is new.
MutIgnored(status, progress) ==
  \/ percent = Done
  \/ status <= percent /\ progress = 0

\* Nothing to report: it is done, or there is neither a new status nor
\* progress.
Ignored(status, progress) ==
  \/ percent = Done
  \/ status <= percent /\ (progress = 0 \/ progress <= percent)

MaxOf(a, b) == IF a > b THEN a ELSE b

\* The increment below which progress within a status is logged quietly.
Increment == 5

\* control_event_bootstrap, control_event_bootstrap_core.
Report(status, progress) ==
  IF Ignored(status, progress) THEN UNCHANGED <<percent, phase, notice, problems, message>>
  ELSE
    LET loud == status > percent \/ progress >= notice + Increment
        reached == MaxOf(status, percent)
    IN  /\ message' = IF progress # 0 THEN progress ELSE status
        /\ phase' = IF status > percent THEN status ELSE phase
        /\ percent' = MaxOf(progress, reached)
        /\ problems' = IF progress > reached THEN 0 ELSE problems
        /\ notice' = IF loud THEN MaxOf(percent', notice) ELSE notice

\* Mutant: the clock is compared before there is a status.
MutStateFileSkew ==
  /\ stage = "init"
  /\ stage' = "skew"
  /\ UNCHANGED <<percent, phase, notice, problems, message, dirVars>>

\* or_state_load finds that the state file is from the future; the problem is
\* reported next.
StateFileSkew ==
  /\ stage = "init"
  /\ stage' = "skew"
  /\ Report(0, 0)
  /\ UNCHANGED dirVars

\* run_tor_main_loop.
RunMainLoop ==
  /\ stage \in {"init", "loaded"}
  /\ stage' = "run"
  /\ Report(0, 0)
  /\ UNCHANGED dirVars

\* Everything but the directory.
Event(status) ==
  /\ stage = "run"
  /\ status \in Other
  /\ Report(status, 0)
  /\ UNCHANGED <<dirVars, stage>>

\* What is reported of a status: count_loading_descriptors_progress stays below
\* the next status.
Progress(status) == IF status = Loading THEN {0} \cup Loading..(Enough - 1) ELSE {0}

\* control_event_boot_dir.
DirEvent(status, progress) ==
  /\ stage = "run"
  /\ LET reached == MaxOf(status, dirProgress)
     IN  /\ dirPhase' = IF status > dirProgress THEN status ELSE dirPhase
         /\ dirProgress' = IF progress # 0 THEN MaxOf(progress, reached) ELSE reached
  /\ IF firstOrconn THEN Report(status, progress)
     ELSE UNCHANGED <<percent, phase, notice, problems, message>>
  /\ UNCHANGED <<firstOrconn, stage>>

\* Mutant: what was held back is not reported.
MutFirstOrconn ==
  /\ stage = "run"
  /\ firstOrconn' = TRUE
  /\ UNCHANGED <<percent, phase, notice, problems, message, dirPhase, dirProgress, stage>>

\* control_event_boot_first_orconn.
FirstOrconn ==
  /\ stage = "run"
  /\ firstOrconn' = TRUE
  /\ Report(dirPhase, dirProgress)
  /\ UNCHANGED <<dirPhase, dirProgress, stage>>

\* control_event_bootstrap_problem, from clock_skew_warning or a connection to a
\* relay that failed: it aborts when there is no percentage.  The count is capped
\* here, the code compares it with the threshold only.
Problem ==
  /\ stage \in {"skew", "run"}
  /\ IF percent = Undef THEN stage' = "aborted" ELSE stage' = IF stage = "skew" THEN "loaded" ELSE stage
  /\ IF percent \in {Undef, Done} THEN UNCHANGED <<problems, message>>
     ELSE /\ problems' = IF problems < Threshold THEN problems + 1 ELSE problems
          /\ message' = percent
  /\ UNCHANGED <<percent, phase, notice, dirVars>>

BootNext ==
  \/ StateFileSkew \/ RunMainLoop
  \/ \E s \in Other : Event(s)
  \/ \E s \in Dir : \E g \in Progress(s) : DirEvent(s, g)
  \/ FirstOrconn
  \/ Problem

BootSpec == BootInit /\ [][BootNext]_bootVars

-----------------------------------------------------------------------------
\* Types of the variables.
BootTypeOK ==
  /\ percent \in Undef..Done
  /\ phase \in Other \cup Dir \cup {Undef}
  /\ notice \in 0..Done
  /\ problems \in 0..Threshold
  /\ message \in Undef..Done
  /\ firstOrconn \in BOOLEAN
  /\ dirPhase \in Dir \cup {Undef}
  /\ dirProgress \in Undef..(Done - 1)
  /\ stage \in {"init", "skew", "loaded", "run", "aborted"}

\* A controller reads the percentage the relay has, whatever order statuses,
\* progress and problems came in.
MessageIsPercent == message = percent

\* Progress of the directory that was held back, or came after the connection,
\* is in the percentage.
DirReported == firstOrconn => percent >= dirProgress

\* With a percentage there is a phase for a report of a problem to name, and it
\* is not beyond the percentage.
PhaseKnown == percent # Undef => phase # Undef /\ phase <= percent

\* No problem is reported before there is a percentage, where
\* control_event_bootstrap_problem would abort the relay, also not the one that
\* is found with the state file, before the main loop runs.
NeverAborts == stage # "aborted"

\* What a controller reads never goes back: a poll that finds 100 is not undone.
NeverBack == [][message' >= message]_bootVars
=============================================================================
