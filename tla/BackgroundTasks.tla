--------------------------- MODULE BackgroundTasks ---------------------------
(***************************************************************************)
(* The task runner with the rounds of its tasks: token refresh, check-in,  *)
(* growth centre, alerting and retention, and the quota probe, whose       *)
(* rounds matter here only by their verdict, which alerting watches (rule  *)
(* task_failing).  The process may end at any step and start again.        *)
(*                                                                         *)
(* Tasks whose rounds share no state are not followed together: a          *)
(* deployment is the set of tasks whose loops a behaviour follows.  Where  *)
(* none is followed, the settings are that all of them read.               *)
(***************************************************************************)
EXTENDS TaskRunner, CredentialRefresh, Growth, Alerting, UsageBooks, LiveSettings

CONSTANTS
  Plain,        \* the .env of the deployments whose tasks are followed
  Threshold,    \* alert_task_failures
  MaxRestarts   \* bound of the model

ASSUME TaskConstants ==
  /\ Task = {"quota_probe", "refresh", "checkin", "growth", "alert", "retention"}
  /\ \A tasks \in DOMAIN FirstRounds : FirstRounds[tasks] \in Seq(Task \ {"checkin", "growth"})
  /\ Job = Runs /\ Signer = Runs \ {"start"}
  /\ Topic \subseteq Task
  /\ Threshold \in 1 .. MaxStreak
  /\ Plain \in Environments
  /\ MaxRestarts \in Nat

VARIABLE restarts

taskVars ==
  <<runnerVars, refreshVars, checkinVars, growthVars, alertVars, bookVars, settingVars, restarts>>

Follows(k) == k \in assembled

\* TaskStatusStore.failing
Failing(k) == streak[k] >= Threshold

TasksInit ==
  /\ RunnerInit
  /\ RefreshInit /\ CheckinInit /\ GrowthInit /\ AlertInit /\ BooksInit /\ SettingsInit
  /\ ~Follows("checkin") => times = {}
  /\ ~Follows("growth") => season = {}
  /\ assembled # {} => stored = <<>> /\ env = Plain
  /\ restarts = 0

Kept(k) ==
  /\ k # "refresh" => UNCHANGED refreshVars
  /\ k # "checkin" => UNCHANGED checkinVars
  /\ k # "growth" => UNCHANGED growthVars
  /\ k # "alert" => UNCHANGED alertVars
  /\ k # "retention" => UNCHANGED bookVars
  /\ k # "settings" => UNCHANGED settingVars
  /\ UNCHANGED restarts

\* What a round begins with ...
Opens(k, by) ==
  /\ CASE k = "refresh"   -> RefreshBegins(by)
       [] k = "checkin"   -> IF by = "page" THEN PageBegins(by) ELSE LoopBegins(by)
       [] k = "growth"    -> GrowthBegins(by)
       [] k = "alert"     -> WatchBegins({t \in Topic : Failing(t)})
       [] k = "retention" -> TidyBegins
       [] OTHER           -> TRUE
  /\ Kept(k)

\* ... does next ...
Goes(k, by) ==
  /\ \/ k = "refresh" /\ RefreshStep(by)
     \/ k = "checkin" /\ SignStep(by)
     \/ k = "growth" /\ GrowthStep(by)
     \/ k = "alert" /\ WatchStep
     \/ k = "retention" /\ TidyStep
  /\ Kept(k)

\* ... and what it leaves, with its verdict.
Leaves(k, by, verdict) ==
  /\ CASE k = "refresh"   -> verdict = "ok" /\ RefreshDone(by) /\ RefreshLeaves(by)
       [] k = "checkin"   -> /\ SignDone(by) /\ SignLeaves(by)
                             /\ verdict = IF sign[by].at = "noop" THEN "noop" ELSE "ok"
       [] k = "growth"    -> verdict = "ok" /\ GrowthDone(by) /\ GrowthLeaves(by)
       [] k = "alert"     -> verdict = "ok" /\ WatchDone /\ WatchLeaves
       [] k = "retention" -> verdict = "ok" /\ TidyDone /\ TidyLeaves
       [] OTHER           -> verdict \in {"ok", "failed"}
  /\ Kept(k)

Start(k) == FirstRound(k) /\ Opens(k, "start")
Loops == CreateLoops /\ Kept("none")
Wake(k) == LoopWakes(k) /\ Opens(k, "loop")
Request(k) == RunTask(k) /\ Opens(k, "page")
Go(r) == Goes(r.task, r.by) /\ UNCHANGED runnerVars
End(r) == \E verdict \in {"ok", "failed", "noop"} :
            RoundEnds(r, verdict) /\ Leaves(r.task, r.by, verdict)

Restart ==
  /\ restarts < MaxRestarts
  /\ RunnerStarts
  /\ RefreshStarts /\ CheckinStarts /\ GrowthStarts /\ AlertStarts /\ BooksStart /\ SettingsStart
  /\ assembled # {} => UNCHANGED env
  /\ restarts' = restarts + 1

\* Whatever happens around the rounds.
RefreshWorld == Write \/ WriterStep \/ \E c \in Cred : Administer(c) \/ Expire(c)
CheckinWorld == PassMoment \/ Midnight \/ \E a \in Account : Suspend(a)
GardenWorld == (\E s \in Scope : Grows(s)) \/ GrowthStep("own") \/ \E i \in 1 .. Len(Accounts) : Presses(i)
AlertWorld == RowsAge \/ \E t \in Topic : CloseRow(t) \/ Prune(t)
BookWorld == RecordAny \/ ScriptStep \/ ClockTicks \/ PricesMove

World ==
  /\ UNCHANGED runnerVars
  /\ \/ Follows("refresh") /\ RefreshWorld /\ Kept("refresh")
     \/ Follows("checkin") /\ CheckinWorld /\ Kept("checkin")
     \/ Follows("growth") /\ GardenWorld /\ Kept("growth")
     \/ Follows("alert") /\ AlertWorld /\ Kept("alert")
     \/ Follows("retention") /\ BookWorld /\ Kept("retention")
     \/ assembled = {} /\ SettingsStep /\ Kept("settings")

TasksNext ==
  \/ \E k \in assembled : Start(k) \/ Wake(k) \/ Request(k)
  \/ Loops
  \/ \E r \in rounds : Go(r) \/ End(r)
  \/ World
  \/ Restart

TasksSpec == TasksInit /\ [][TasksNext]_taskVars

----------------------------------------------------------------------------
(* The event loop serves every coroutine that can go on; clocks do not     *)
(* stop; an upstream that is called again and again does not refuse each   *)
(* time.  Operators, logins and the end of the process owe nothing.        *)

SignedAt(s) ==
  \E r \in rounds :
    /\ r.task = "checkin" /\ sign[r.by].at = "call" /\ Here(r.by) = s
    /\ Signed(r.by)
    /\ Kept("checkin") /\ UNCHANGED runnerVars

\* Rounds at an account find what it has ready, and hear that it was done.
FindsAt(s) ==
  \E r \in rounds, deed \in {"accept", "reward", "claim"} :
    /\ r.task = "growth" /\ AtBed(r.by, s)
    /\ Asks(r.by, deed)
    /\ Kept("growth") /\ UNCHANGED runnerVars

TakesAt(s) ==
  \E r \in rounds, deed \in {"accept", "reward", "claim"} :
    /\ r.task = "growth" /\ AtBed(r.by, s)
    /\ Does(r.by, deed, "heard")
    /\ Kept("growth") /\ UNCHANGED runnerVars

TasksFairness ==
  /\ \A k \in Task : WF_taskVars(Start(k)) /\ WF_taskVars(Wake(k))
  /\ WF_taskVars(Loops)
  /\ \A r \in [task : Task, by : Runs] :
       WF_taskVars(r \in rounds /\ (Go(r) \/ End(r)))
  /\ WF_taskVars(Follows("refresh") /\ WriterStep /\ Kept("refresh") /\ UNCHANGED runnerVars)
  /\ WF_taskVars(Follows("checkin") /\ (PassMoment \/ Midnight) /\ Kept("checkin") /\ UNCHANGED runnerVars)
  /\ SF_taskVars(Follows("alert") /\ RowsAge /\ Kept("alert") /\ UNCHANGED runnerVars)
  /\ \A s \in Scope : SF_taskVars(SignedAt(s)) /\ SF_taskVars(FindsAt(s)) /\ SF_taskVars(TakesAt(s))

FairTasksSpec == TasksSpec /\ TasksFairness

----------------------------------------------------------------------------
(* Properties.                                                             *)

\* Every variable keeps its type: marks belong to rounds in progress, counters
\* stay within their bounds, no lock is held by a writer that does not want it.
TasksTypeOK ==
  /\ rounds \subseteq [task : assembled, by : Runs]
  /\ running = {r.task : r \in {q \in rounds : q.by # "start"}}
  /\ loops \in {{}, assembled}
  /\ streak \in [Task -> 0 .. MaxStreak]
  /\ \A c \in Cred : \A i \in 1 .. Len(queue[c]) :
       job[queue[c][i]].on = c /\ job[queue[c][i]].at \in {"lock", "ask"}
  /\ accepted \in [Cred -> SUBSET (1 .. issued)]
  /\ suspended \subseteq Account /\ fired \subseteq times
  /\ rows \in [Topic -> SUBSET Row]
  /\ tidy \in {"idle", "rollup", "purge", "tidied"}

\* refresh.py, run_once: an account is disabled for a new login only while the
\* token stored for it is one its upstream refuses, although first rounds and
\* rounds of the page overlap and logins and switches write the same row.
\* Checked with the types.
HardDisableDeserved ==
  /\ TasksTypeOK
  /\ \A c \in row : barred[c] => token[c] \notin accepted[c]

\* repo.py, edit_lock: a writer that awaited its upstream replaces the very
\* data it asked with, never what somebody else has stored meanwhile.
NothingOverwritten ==
  [][\A w \in Job \cup Admin :
       LET c == job[w].on IN
       /\ job[w].at = "ask"
       /\ job'[w] # job[w]
       /\ token'[c] # token[c]
       => job[w].holds = token[c]]_taskVars

\* checkin.py: in one process no call goes out for a scope whose seal of this
\* day has not ended, whoever started the round.
SealsHold ==
  [][\A w \in Signer :
       sign[w].at = "pace" /\ sign'[w].at = "call" => done[day][Here(w)] <= moment]_taskVars

\* checkin.py: without configured slots every upstream account is signed again
\* and again, whichever of its credentials are paused, however often it failed.
EveryScopeSigned ==
  \A s \in Scope :
    \/ []<><<SignedAt(s)>>_taskVars
    \/ []<>(\/ ~Follows("checkin") \/ times # {}
            \/ \A a \in Account : ScopeOf[a] = s => a \in suspended)

\* growth_runner.py: what an account has ready is taken again and again: tasks are
\* accepted, their rewards and the gifts of trips are claimed.
EveryGardenHarvested ==
  \A s \in Scope :
    []<>\A deed \in {"accept", "reward", "claim"} : ~Ready(garden[s], deed)

\* What the tasks do for the upstream accounts is done for each, again and again.
EveryAccountServed == EveryScopeSigned /\ EveryGardenHarvested

\* growth_runner.py: what the rows say was gained has been paid, and by this walk: two
\* walks at one account, or one that hears of what was claimed before, count it once.
OnlyPaidIsBooked == \A s \in Scope : Carried(s) <= unbooked[s]

\* alerting.py and repo.py: whatever is recorded as firing is in the set the
\* next rounds resolve from, across restarts, operators and retention.
OpenAlertsWatched == \A t \in Topic : Open(t) # {} => t \in active

\* An alert follows its task: open again and again while the task fails,
\* resolved in the end once it does not.
AlertsFollowTasks ==
  \A t \in Topic :
    /\ <>[](Follows("alert") /\ Failing(t)) => []<>(Open(t) # {})
    /\ <>[]~Failing(t) => []<>(Open(t) = {})

\* collector.py and retention.py: whatever an hour recorded is counted in its rows,
\* whoever purges and recomputes in between.
BooksComplete == AllHoursComplete

\* A restart between two steps costs nothing of what the tables hold, and makes nothing
\* up: open alerts are watched again, the hours of the books stay complete, the rows of
\* the growth centre say what was paid, and the settings in force are those stored.
RestartsLoseNothing == OpenAlertsWatched /\ BooksComplete /\ OnlyPaidIsBooked /\ SettingsAgree
=============================================================================
