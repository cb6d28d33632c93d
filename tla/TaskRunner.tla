------------------------------ MODULE TaskRunner ------------------------------
(***************************************************************************)
(* tasks/runner.py and tasks/status.py: the loops of the background tasks. *)
(*                                                                         *)
(* A task runs in rounds.  start() runs the first rounds one after the     *)
(* other and then creates one loop per task, which sleeps before each of   *)
(* its rounds; the administration page may ask for a round at any time.    *)
(* _running keeps the rounds of loops and of the page apart; the first     *)
(* rounds are awaited through _guarded alone and do not mark their key.    *)
(*                                                                         *)
(* What a round does is in the modules of the tasks.  Its verdict is what  *)
(* _guarded makes of it: "ok", "failed" (an exception) or "noop" (None).   *)
(*                                                                         *)
(* A definition marked `slip' is a variant with a likely slip; no action   *)
(* uses it.                                                                *)
(***************************************************************************)
EXTENDS Naturals, Sequences

CONSTANTS
  Task,         \* the tasks of the runner
  FirstRounds,  \* per deployment, the tasks whose first round start() awaits, in its order
  MaxStreak     \* bound of the model: failures in a row are counted up to it

ASSUME RunnerConstants ==
  /\ \A tasks \in DOMAIN FirstRounds : tasks \subseteq Task /\ FirstRounds[tasks] \in Seq(tasks)
  /\ MaxStreak \in Nat \ {0}

VARIABLES
  assembled,    \* the tasks whose loops this process creates
  first,        \* the first rounds start() has still to await
  loops,        \* the tasks that have a loop
  rounds,       \* the rounds in progress: task and who runs it
  running,      \* _running, the marks
  streak        \* _failure_streaks of the status store

runnerVars == <<assembled, first, loops, rounds, running, streak>>

Runs == {"start", "loop", "page"}

\* The state of a process that has just been started.
RunnerStarts ==
  /\ first' = FirstRounds[assembled]
  /\ loops' = {}
  /\ rounds' = {}
  /\ running' = {}
  /\ streak' = [k \in Task |-> 0]
  /\ UNCHANGED assembled

RunnerInit ==
  /\ assembled \in DOMAIN FirstRounds
  /\ first = FirstRounds[assembled]
  /\ loops = {}
  /\ rounds = {}
  /\ running = {}
  /\ streak = [k \in Task |-> 0]

Begun(k, by) == rounds' = rounds \cup {[task |-> k, by |-> by]}

\* start() awaits the next first round ...
FirstRound(k) ==
  /\ first # <<>>
  /\ k = Head(first)
  /\ \A r \in rounds : r.by # "start"
  /\ Begun(k, "start")
  /\ UNCHANGED <<assembled, first, loops, running, streak>>

\* ... and creates the loops once there are no more.
CreateLoops ==
  /\ first = <<>>
  /\ loops = {}
  /\ loops' = assembled
  /\ UNCHANGED <<assembled, first, rounds, running, streak>>

\* slip: a round of the page neither asks for the mark nor gets one
MarkedForLoops(k, by) ==
  /\ by = "loop" => k \notin running
  /\ running' = IF by = "loop" THEN running \cup {k} ELSE running
  /\ Begun(k, by)
  /\ UNCHANGED <<assembled, first, loops, streak>>

Marked(k, by) ==
  /\ k \notin running
  /\ running' = running \cup {k}
  /\ Begun(k, by)
  /\ UNCHANGED <<assembled, first, loops, streak>>

\* A loop has slept.  If its task is running already it sleeps again: no step.
LoopWakes(k) ==
  /\ k \in loops
  /\ Marked(k, "loop")

\* run_task answers "busy" at once if the task is running: no step.
RunTask(k) ==
  /\ k \in assembled
  /\ Marked(k, "page")

\* TaskStatusStore.record; a round that did nothing is not recorded.
Recorded(k, verdict) ==
  streak' = CASE verdict = "ok"     -> [streak EXCEPT ![k] = 0]
              [] verdict = "failed" -> [streak EXCEPT ![k] =
                                          IF @ < MaxStreak THEN @ + 1 ELSE @]
              [] verdict = "noop"   -> streak

\* The mark a round leaves behind, and the loop that goes on to sleep.
Unmarked(r, verdict) ==
  /\ running' = IF r.by = "start" THEN running ELSE running \ {r.task}
  /\ loops' = loops

RoundEnds(r, verdict) ==
  /\ rounds' = rounds \ {r}
  /\ Recorded(r.task, verdict)
  /\ Unmarked(r, verdict)
  /\ first' = IF r.by = "start" THEN Tail(first) ELSE first
  /\ UNCHANGED assembled
=============================================================================
