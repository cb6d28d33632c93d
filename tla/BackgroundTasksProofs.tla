------------------------- MODULE BackgroundTasksProofs -------------------------
(***************************************************************************)
(* What holds of the background tasks whatever the tasks of a deployment,  *)
(* the credentials, accounts and topics, the length of days and windows    *)
(* and the number of restarts.  Of the books of the statistics see         *)
(* UsageBooksProofs.                                                       *)
(***************************************************************************)
EXTENDS BackgroundTasks, UsageBooksProofs

-----------------------------------------------------------------------------
(* The runner.                                                             *)

RunnerInv ==
  /\ assembled \in DOMAIN FirstRounds
  /\ first \in Seq(Task \ {"checkin", "growth"})
  /\ loops \in {{}, assembled}
  /\ rounds \subseteq [task : assembled, by : Runs]
  /\ running = {r.task : r \in {q \in rounds : q.by # "start"}}
  /\ streak \in [Task -> 0 .. MaxStreak]

\* The loop and the page keep apart, and what a start awaits is one round at a time, and
\* neither check-in nor growth.
RoundsApart ==
  /\ \A r, q \in rounds : r.by # "start" /\ q.by # "start" /\ r.task = q.task => r = q
  /\ \A r, q \in rounds : r.by = "start" /\ q.by = "start" => r = q
  /\ \A r \in rounds : r.by = "start" => r.task \notin {"checkin", "growth"} /\ first # <<>>

RunnerSound == RunnerInv /\ RoundsApart

Round(k, by) == [task |-> k, by |-> by]

LEMMA RoundFields ==
  ASSUME RunnerInv, NEW r \in rounds
  PROVE  r = Round(r.task, r.by) /\ r.task \in assembled /\ r.by \in Runs
BY DEF RunnerInv, Round

LEMMA RunnerBegins == TasksInit => RunnerSound
<1> SUFFICES ASSUME RunnerInit
             PROVE  RunnerSound
  BY DEF TasksInit
<1>1. streak \in [Task -> 0 .. MaxStreak]
  BY RunnerConstants DEF RunnerInit
<1> QED BY <1>1, TaskConstants DEF RunnerInit, RunnerSound, RunnerInv, RoundsApart

\* A round is begun where there is none.
LEMMA BegunSound ==
  ASSUME RunnerSound, NEW k \in assembled, NEW by \in Runs, Begun(k, by), UNCHANGED <<assembled, first, loops, streak>>,
         by = "start" => /\ k \notin {"checkin", "growth"} /\ first # <<>> /\ UNCHANGED running
                         /\ \A r \in rounds : r.by # "start",
         by # "start" => k \notin running /\ running' = running \cup {k}
  PROVE  RunnerSound' /\ (by # "start" => Round(k, by) \notin rounds)
<1> DEFINE new == Round(k, by)
<1>1. rounds' = rounds \cup {new} /\ new.task = k /\ new.by = by /\ new \in [task : assembled, by : Runs]
  BY DEF Begun, Round
<1> HIDE DEF new
<1>2. \A r \in rounds : r.by # "start" => r.task \in running
  BY DEF RunnerSound, RunnerInv
<1>3. by # "start" => new \notin rounds
  BY <1>1, <1>2
<1>4. running' = {r.task : r \in {q \in rounds' : q.by # "start"}}
  BY <1>1 DEF RunnerSound, RunnerInv
<1>5. RunnerInv'
  BY <1>1, <1>4 DEF RunnerSound, RunnerInv
<1>6. RoundsApart'
  BY <1>1, <1>2 DEF RunnerSound, RoundsApart
<1> QED BY <1>3, <1>5, <1>6 DEF RunnerSound, new

LEMMA EndedSound ==
  ASSUME RunnerSound, NEW r \in rounds, NEW verdict \in {"ok", "failed", "noop"}, RoundEnds(r, verdict)
  PROVE  RunnerSound' /\ rounds' = rounds \ {r}
<1>1. /\ rounds' = rounds \ {r} /\ UNCHANGED <<assembled, loops>>
      /\ running' = IF r.by = "start" THEN running ELSE running \ {r.task}
      /\ first' = IF r.by = "start" THEN Tail(first) ELSE first
  BY DEF RoundEnds, Unmarked
<1>2. r.task \in Task
  BY RoundFields, RunnerConstants DEF RunnerSound, RunnerInv
<1>3. streak' \in [Task -> 0 .. MaxStreak]
  <2>1. streak[r.task] \in 0 .. MaxStreak
    BY <1>2 DEF RunnerSound, RunnerInv
  <2>2. streak' = [streak EXCEPT ![r.task] = 0] \/ streak' = streak
        \/ streak' = [streak EXCEPT ![r.task] = IF streak[r.task] < MaxStreak THEN streak[r.task] + 1 ELSE streak[r.task]]
    BY DEF RoundEnds, Recorded
  <2>3. 0 \in 0 .. MaxStreak
    BY RunnerConstants
  <2>4. (IF streak[r.task] < MaxStreak THEN streak[r.task] + 1 ELSE streak[r.task]) \in 0 .. MaxStreak
    BY <2>1, RunnerConstants
  <2> QED BY <2>2, <2>3, <2>4 DEF RunnerSound, RunnerInv
<1>4. running' = {q.task : q \in {p \in rounds' : p.by # "start"}}
  BY <1>1 DEF RunnerSound, RunnerInv, RoundsApart
<1>5. first' \in Seq(Task \ {"checkin", "growth"})
  <2>1. CASE r.by # "start"
    BY <1>1, <2>1 DEF RunnerSound, RunnerInv
  <2>2. CASE r.by = "start"
    <3>1. first # <<>>
      BY <2>2 DEF RunnerSound, RoundsApart
    <3> QED BY <1>1, <2>2, <3>1, HeadTailProperties DEF RunnerSound, RunnerInv
  <2> QED BY <2>1, <2>2
<1> QED BY <1>1, <1>3, <1>4, <1>5 DEF RunnerSound, RunnerInv, RoundsApart

-----------------------------------------------------------------------------
(* What a step is to a task: nothing, or a part of one of its rounds, or   *)
(* something around it.                                                    *)

Begins(k, by) == Round(k, by) \notin rounds /\ rounds' = rounds \cup {Round(k, by)} /\ Opens(k, by)
GoesOn(k, by) == Round(k, by) \in rounds /\ UNCHANGED rounds /\ Goes(k, by)
Ends(k, by, verdict) ==
  Round(k, by) \in rounds /\ rounds' = rounds \ {Round(k, by)} /\ Leaves(k, by, verdict)

Moves ==
  \/ \E k \in assembled, by \in Runs :
       \/ Begins(k, by) /\ (by = "start" => k \notin {"checkin", "growth"})
       \/ GoesOn(k, by) /\ (by = "start" => k \notin {"checkin", "growth"})
       \/ \E verdict \in {"ok", "failed", "noop"} : Ends(k, by, verdict)
  \/ Kept("none") /\ UNCHANGED rounds
  \/ World /\ UNCHANGED rounds
  \/ Restart /\ rounds' = {}
  \/ UNCHANGED taskVars

LEMMA StepMoves ==
  ASSUME RunnerSound, [TasksNext]_taskVars
  PROVE  RunnerSound' /\ Moves
<1>1. ASSUME NEW k \in assembled, Start(k)
      PROVE  RunnerSound' /\ Moves
  <2>1. /\ first # <<>> /\ k = Head(first) /\ \A r \in rounds : r.by # "start"
        /\ Begun(k, "start") /\ UNCHANGED <<assembled, first, loops, running, streak>>
        /\ Opens(k, "start")
    BY <1>1 DEF Start, FirstRound
  <2>2. k \notin {"checkin", "growth"}
    BY <2>1, HeadTailProperties DEF RunnerSound, RunnerInv
  <2>3. RunnerSound'
    BY <2>1, <2>2, BegunSound DEF Runs
  <2>4. Round(k, "start") \notin rounds
    BY <2>1 DEF Round
  <2>5. Begins(k, "start")
    BY <2>1, <2>4 DEF Begins, Begun, Round
  <2> QED BY <2>2, <2>3, <2>5 DEF Moves, Runs
<1>2. ASSUME NEW k \in assembled, NEW by \in {"loop", "page"}, Marked(k, by), Opens(k, by)
      PROVE  RunnerSound' /\ Moves
  <2>1. /\ k \notin running /\ running' = running \cup {k} /\ Begun(k, by)
        /\ UNCHANGED <<assembled, first, loops, streak>>
    BY <1>2 DEF Marked
  <2>2. RunnerSound' /\ Round(k, by) \notin rounds
    BY <2>1, BegunSound DEF Runs
  <2>3. Begins(k, by)
    BY <1>2, <2>1, <2>2 DEF Begins, Begun, Round
  <2> QED BY <2>2, <2>3 DEF Moves, Runs
<1>3. CASE Loops
  <2>1. UNCHANGED <<assembled, first, rounds, running, streak>> /\ loops' = assembled /\ Kept("none")
    BY <1>3 DEF Loops, CreateLoops
  <2> QED BY <2>1 DEF RunnerSound, RunnerInv, RoundsApart, Moves
<1>4. ASSUME NEW r \in rounds, Go(r)
      PROVE  RunnerSound' /\ Moves
  <2>1. r = Round(r.task, r.by) /\ r.task \in assembled /\ r.by \in Runs
    BY RoundFields DEF RunnerSound
  <2>2. UNCHANGED <<assembled, first, loops, rounds, running, streak>> /\ Goes(r.task, r.by)
    BY <1>4 DEF Go, runnerVars
  <2>3. GoesOn(r.task, r.by) /\ (r.by = "start" => r.task \notin {"checkin", "growth"})
    BY <2>1, <2>2 DEF GoesOn, RunnerSound, RoundsApart
  <2> QED BY <2>1, <2>2, <2>3 DEF RunnerSound, RunnerInv, RoundsApart, Moves
<1>5. ASSUME NEW r \in rounds, End(r)
      PROVE  RunnerSound' /\ Moves
  <2>1. r = Round(r.task, r.by) /\ r.task \in assembled /\ r.by \in Runs
    BY RoundFields DEF RunnerSound
  <2>2. PICK verdict \in {"ok", "failed", "noop"} : RoundEnds(r, verdict) /\ Leaves(r.task, r.by, verdict)
    BY <1>5 DEF End
  <2>3. RunnerSound' /\ rounds' = rounds \ {r}
    BY <2>2, EndedSound
  <2>4. Ends(r.task, r.by, verdict)
    BY <2>1, <2>2, <2>3 DEF Ends
  <2> QED BY <2>1, <2>3, <2>4 DEF Moves
<1>6. CASE World
  <2>1. UNCHANGED <<assembled, first, loops, rounds, running, streak>>
    BY <1>6 DEF World, runnerVars
  <2> QED BY <1>6, <2>1 DEF RunnerSound, RunnerInv, RoundsApart, Moves
<1>7. CASE Restart
  <2>1. /\ first' = FirstRounds[assembled] /\ loops' = {} /\ rounds' = {} /\ running' = {}
        /\ streak' = [k \in Task |-> 0] /\ assembled' = assembled
    BY <1>7 DEF Restart, RunnerStarts
  <2>2. first' \in Seq(Task \ {"checkin", "growth"})
    BY <2>1, TaskConstants DEF RunnerSound, RunnerInv
  <2>3. streak' \in [Task -> 0 .. MaxStreak]
    BY <2>1, RunnerConstants
  <2> QED BY <1>7, <2>1, <2>2, <2>3 DEF RunnerSound, RunnerInv, RoundsApart, Moves
<1>8. CASE UNCHANGED taskVars
  <2>1. UNCHANGED <<assembled, first, loops, rounds, running, streak>>
    BY <1>8 DEF taskVars, runnerVars
  <2> QED BY <1>8, <2>1 DEF RunnerSound, RunnerInv, RoundsApart, Moves
<1>9. ASSUME NEW k \in assembled, Wake(k) \/ Request(k)
      PROVE  RunnerSound' /\ Moves
  BY <1>2, <1>9 DEF Wake, Request, LoopWakes, RunTask
<1> QED BY <1>1, <1>3, <1>4, <1>5, <1>6, <1>7, <1>8, <1>9 DEF TasksNext

-----------------------------------------------------------------------------
(* The refresh.                                                            *)

JobState ==
  [at : {"idle", "walk", "pace", "lock", "ask"}, on : Cred \cup {Nobody},
   holds : Nat, left : SUBSET Cred]

\* The edit lock: who is in a queue wants it, once; who asks its upstream holds it.
QueueInv ==
  /\ queue \in [Cred -> Seq(Writer)]
  /\ job \in [Writer -> JobState]
  /\ \A c \in Cred : \A i \in 1 .. Len(queue[c]) :
       job[queue[c][i]].on = c /\ job[queue[c][i]].at \in {"lock", "ask"}
  /\ \A c \in Cred : \A i, j \in 1 .. Len(queue[c]) : queue[c][i] = queue[c][j] => i = j
  /\ \A w \in Writer : job[w].at \in {"pace", "lock", "ask"} => job[w].on \in Cred
  /\ \A w \in Writer : job[w].at = "ask" => Held(job[w].on, w)

RowInv ==
  /\ row \subseteq Cred
  /\ issued \in Nat \ {0}
  /\ token \in [Cred -> Nat]
  /\ \A c \in Cred : token[c] <= issued
  /\ due \in [Cred -> BOOLEAN]
  /\ barred \in [Cred -> BOOLEAN]
  /\ accepted \in [Cred -> SUBSET (1 .. issued)]

\* The row holds what its writer asked with, and a disabled one a refused token.
AskInv ==
  /\ \A w \in Writer : job[w].at = "ask" /\ job[w].on \in row => job[w].holds = token[job[w].on]
  /\ \A w \in Login : job[w].at = "lock" => job[w].holds <= issued
  /\ \A c \in row : barred[c] => token[c] \notin accepted[c]

\* A round of the task is there as long as its job.
JobInv == \A w \in Job : job[w].at # "idle" => Round("refresh", w) \in rounds

RefreshInv == QueueInv /\ RowInv /\ AskInv /\ JobInv

LEMMA Waiting ==
  ASSUME QueueInv, NEW w \in Writer, NEW c \in Cred, NEW new \in JobState,
         job[w].at \notin {"lock", "ask"}, new.at = "lock", new.on = c,
         job' = [job EXCEPT ![w] = new],
         queue' = [queue EXCEPT ![c] = Append(queue[c], w)]
  PROVE  QueueInv'
<1> DEFINE q == queue[c]
<1>1. q \in Seq(Writer) /\ Len(q) \in Nat
  BY DEF QueueInv
<1>2. /\ Append(q, w) \in Seq(Writer) /\ Len(Append(q, w)) = Len(q) + 1
      /\ Append(q, w)[Len(q) + 1] = w
      /\ \A i \in 1 .. Len(q) : Append(q, w)[i] = q[i]
  BY <1>1, AppendProperties
<1>3. queue' \in [Cred -> Seq(Writer)] /\ job' \in [Writer -> JobState]
  BY <1>2 DEF QueueInv
<1>4. job'[w] = new /\ \A v \in Writer : v # w => job'[v] = job[v]
  BY DEF QueueInv
<1>5. queue'[c] = Append(q, w) /\ \A d \in Cred : d # c => queue'[d] = queue[d]
  BY DEF QueueInv
<1>6. \A d \in Cred : \A i \in 1 .. Len(queue[d]) :
        queue[d][i] \in Writer /\ queue[d][i] # w
  BY DEF QueueInv
<1>7. ASSUME NEW d \in Cred, NEW i \in 1 .. Len(queue'[d])
      PROVE  job'[queue'[d][i]].on = d /\ job'[queue'[d][i]].at \in {"lock", "ask"}
  <2>1. CASE d # c
    BY <2>1, <1>4, <1>5, <1>6, <1>7 DEF QueueInv
  <2>2. CASE d = c /\ i = Len(q) + 1
    BY <2>2, <1>2, <1>4, <1>5
  <2>3. CASE d = c /\ i # Len(q) + 1
    <3>1. i \in 1 .. Len(q)
      BY <2>3, <1>1, <1>2, <1>5, <1>7
    <3> QED BY <3>1, <2>3, <1>2, <1>4, <1>5, <1>6 DEF QueueInv
  <2> QED BY <2>1, <2>2, <2>3
<1>8. ASSUME NEW d \in Cred, NEW i \in 1 .. Len(queue'[d]), NEW j \in 1 .. Len(queue'[d]),
             queue'[d][i] = queue'[d][j]
      PROVE  i = j
  <2>1. CASE d # c
    BY <2>1, <1>5, <1>8 DEF QueueInv
  <2>2. CASE d = c
    <3>1. /\ i \in 1 .. Len(q) + 1 /\ j \in 1 .. Len(q) + 1
          /\ Append(q, w)[i] = Append(q, w)[j]
      BY <2>2, <1>2, <1>5, <1>8
    <3>2. i \in 1 .. Len(q) \/ i = Len(q) + 1
      BY <3>1, <1>1
    <3>3. j \in 1 .. Len(q) \/ j = Len(q) + 1
      BY <3>1, <1>1
    <3>4. \A k \in 1 .. Len(q) : Append(q, w)[k] = q[k] /\ q[k] # w
      BY <1>2, <1>6
    <3> QED BY <3>1, <3>2, <3>3, <3>4, <1>2 DEF QueueInv
  <2> QED BY <2>1, <2>2
<1>9. ASSUME NEW v \in Writer
      PROVE  /\ job'[v].at \in {"pace", "lock", "ask"} => job'[v].on \in Cred
             /\ job'[v].at = "ask" => Held(job[v].on, v)' /\ job'[v].on = job[v].on
  <2>1. job[v].at = "ask" => job[v].on \in Cred /\ queue[job[v].on] # <<>> /\ Head(queue[job[v].on]) = v
    BY DEF QueueInv, Held
  <2>2. q # <<>> => Append(q, w) # <<>> /\ Head(Append(q, w)) = Head(q)
    BY <1>1, <1>2
  <2>3. job[v].at = "ask" => queue'[job[v].on] # <<>> /\ Head(queue'[job[v].on]) = v
    BY <2>1, <2>2, <1>5
  <2>4. v # w => /\ job'[v] = job[v]
                 /\ job'[v].at \in {"pace", "lock", "ask"} => job'[v].on \in Cred
    BY <1>4 DEF QueueInv
  <2>5. v = w => job'[v].at = "lock" /\ job'[v].on \in Cred
    BY <1>4
  <2>6. CASE job'[v].at = "ask"
    <3>1. v # w /\ job'[v] = job[v]
      BY <2>4, <2>5, <2>6
    <3>2. queue'[job'[v].on] # <<>> /\ Head(queue'[job'[v].on]) = v
      BY <3>1, <2>3, <2>6
    <3> QED BY <3>1, <3>2, <2>4 DEF Held
  <2> QED BY <2>4, <2>5, <2>6
<1>10. \A v \in Writer : job'[v].at = "ask" => queue'[job'[v].on] # <<>> /\ Head(queue'[job'[v].on]) = v
  BY <1>9 DEF Held
<1> QED BY <1>3, <1>7, <1>8, <1>9, <1>10 DEF QueueInv, Held

LEMMA Freeing ==
  ASSUME QueueInv, NEW w \in Writer, NEW c \in Cred, NEW new \in JobState,
         Held(c, w), new.at \in {"idle", "walk"},
         job' = [job EXCEPT ![w] = new], Freed(c)
  PROVE  QueueInv'
<1> DEFINE q == queue[c]
<1>1. q \in Seq(Writer) /\ Len(q) \in Nat /\ q # <<>> /\ q[1] = w /\ Len(q) >= 1
  BY EmptySeq DEF QueueInv, Held
<1>2. /\ Tail(q) \in Seq(Writer) /\ Len(Tail(q)) = Len(q) - 1
      /\ \A i \in 1 .. Len(q) - 1 : Tail(q)[i] = q[i + 1]
  BY <1>1, HeadTailProperties
<1>3. queue'[c] = Tail(q) /\ (\A d \in Cred : d # c => queue'[d] = queue[d])
      /\ queue' \in [Cred -> Seq(Writer)]
  BY <1>2 DEF QueueInv, Freed
<1>4. /\ job' \in [Writer -> JobState]
      /\ job'[w] = new /\ \A v \in Writer : v # w => job'[v] = job[v]
  BY DEF QueueInv
<1>5. job[w].on = c
  BY <1>1 DEF QueueInv
<1>6. ASSUME NEW d \in Cred, NEW i \in 1 .. Len(queue[d]), d # c \/ i # 1
      PROVE  queue[d][i] \in Writer \ {w}
  <2>1. queue[d][i] \in Writer
    BY DEF QueueInv
  <2>2. d # c => queue[d][i] # w
    BY <1>5 DEF QueueInv
  <2>3. d = c /\ i # 1 => queue[d][i] # w
    BY <1>1 DEF QueueInv
  <2> QED BY <2>1, <2>2, <2>3, <1>6
<1>7. ASSUME NEW d \in Cred, NEW i \in 1 .. Len(queue'[d])
      PROVE  job'[queue'[d][i]].on = d /\ job'[queue'[d][i]].at \in {"lock", "ask"}
  <2>1. CASE d # c
    BY <2>1, <1>3, <1>4, <1>6, <1>7 DEF QueueInv
  <2>2. CASE d = c
    <3>1. i \in 1 .. Len(q) - 1 /\ i + 1 \in 1 .. Len(q) /\ i + 1 # 1 /\ queue'[d][i] = q[i + 1]
      BY <2>2, <1>1, <1>2, <1>3, <1>7
    <3>2. q[i + 1] \in Writer \ {w}
      BY <3>1, <1>6
    <3>3. job[q[i + 1]].on = c /\ job[q[i + 1]].at \in {"lock", "ask"}
      BY <3>1 DEF QueueInv
    <3> QED BY <3>1, <3>2, <3>3, <2>2, <1>4
  <2> QED BY <2>1, <2>2
<1>8. ASSUME NEW d \in Cred, NEW i \in 1 .. Len(queue'[d]), NEW j \in 1 .. Len(queue'[d]),
             queue'[d][i] = queue'[d][j]
      PROVE  i = j
  <2>1. CASE d # c
    BY <2>1, <1>3, <1>8 DEF QueueInv
  <2>2. CASE d = c
    <3>1. i \in 1 .. Len(q) - 1 /\ i + 1 \in 1 .. Len(q) /\ queue'[d][i] = q[i + 1]
      BY <2>2, <1>1, <1>2, <1>3, <1>8
    <3>2. j \in 1 .. Len(q) - 1 /\ j + 1 \in 1 .. Len(q) /\ queue'[d][j] = q[j + 1]
      BY <2>2, <1>1, <1>2, <1>3, <1>8
    <3>3. \A m, n \in 1 .. Len(q) : q[m] = q[n] => m = n
      BY DEF QueueInv
    <3>4. q[i + 1] = q[j + 1]
      BY <3>1, <3>2, <1>8, <2>2
    <3>5. i + 1 = j + 1
      BY <3>1, <3>2, <3>3, <3>4
    <3> QED BY <3>1, <3>2, <3>5
  <2> QED BY <2>1, <2>2
<1>9. ASSUME NEW v \in Writer
      PROVE  /\ job'[v].at \in {"pace", "lock", "ask"} => job'[v].on \in Cred
             /\ job'[v].at = "ask" => queue'[job'[v].on] # <<>> /\ Head(queue'[job'[v].on]) = v
  <2>1. CASE v = w
    BY <2>1, <1>4
  <2>2. CASE v # w
    <3>1. job'[v] = job[v] /\ (job[v].at \in {"pace", "lock", "ask"} => job[v].on \in Cred)
      BY <2>2, <1>4 DEF QueueInv
    <3>2. job[v].at = "ask" => Held(job[v].on, v) /\ job[v].on # c
      BY <2>2 DEF QueueInv, Held
    <3> QED BY <3>1, <3>2, <1>3 DEF Held
  <2> QED BY <2>1, <2>2
<1> QED BY <1>3, <1>4, <1>7, <1>8, <1>9 DEF QueueInv, Held

\* A writer that is in no queue goes on outside of them.
LEMMA WalkingOn ==
  ASSUME QueueInv, NEW w \in Writer, NEW new \in JobState,
         job[w].at \notin {"lock", "ask"}, new.at \in {"idle", "walk", "pace"},
         new.at = "pace" => new.on \in Cred,
         job' = [job EXCEPT ![w] = new], UNCHANGED queue
  PROVE  QueueInv'
<1>1. job' \in [Writer -> JobState] /\ job'[w] = new /\ \A v \in Writer : v # w => job'[v] = job[v]
  BY DEF QueueInv
<1>2. \A d \in Cred : \A i \in 1 .. Len(queue[d]) : queue[d][i] \in Writer /\ queue[d][i] # w
  BY DEF QueueInv
<1>3. \A v \in Writer :
        /\ job'[v].at \in {"pace", "lock", "ask"} => job'[v].on \in Cred
        /\ job'[v].at = "ask" => queue[job'[v].on] # <<>> /\ Head(queue[job'[v].on]) = v
  BY <1>1 DEF QueueInv, Held
<1>4. \A d \in Cred : \A i \in 1 .. Len(queue[d]) :
        job'[queue[d][i]].on = d /\ job'[queue[d][i]].at \in {"lock", "ask"}
  BY <1>1, <1>2 DEF QueueInv
<1> QED BY <1>1, <1>3, <1>4 DEF QueueInv, Held

\* The holder of a lock asks its upstream.
LEMMA Asking ==
  ASSUME QueueInv, NEW w \in Writer, NEW new \in JobState,
         job[w].at = "lock", new.at = "ask", new.on = job[w].on, Held(new.on, w),
         job' = [job EXCEPT ![w] = new], UNCHANGED queue
  PROVE  QueueInv'
<1>1. job' \in [Writer -> JobState] /\ job'[w] = new /\ \A v \in Writer : v # w => job'[v] = job[v]
  BY DEF QueueInv
<1>2. \A d \in Cred : \A i \in 1 .. Len(queue[d]) :
        job'[queue[d][i]].on = d /\ job'[queue[d][i]].at \in {"lock", "ask"}
  BY <1>1 DEF QueueInv
<1>3. \A v \in Writer :
        /\ job'[v].at \in {"pace", "lock", "ask"} => job'[v].on \in Cred
        /\ job'[v].at = "ask" => queue[job'[v].on] # <<>> /\ Head(queue[job'[v].on]) = v
  BY <1>1 DEF QueueInv, Held
<1> QED BY <1>1, <1>2, <1>3 DEF QueueInv, Held

\* What a step leaves of the rows, and that it replaces the data of existing ones only.
RowsFit == RowInv' /\ AskInv' /\ \A c \in Cred : token'[c] # token[c] => c \in row

LEMMA RowsStay ==
  ASSUME QueueInv, RowInv, AskInv, NEW w \in Writer, NEW new \in JobState,
         UNCHANGED <<row, token, due, barred, accepted, issued>>,
         job' = [job EXCEPT ![w] = new],
         new.at = "ask" /\ new.on \in row => new.holds = token[new.on],
         new.at = "lock" /\ w \in Login => new.holds <= issued
  PROVE  RowsFit
<1>1. job'[w] = new /\ \A v \in Writer : v # w => job'[v] = job[v]
  BY DEF QueueInv
<1>2. \A v \in Writer : job'[v].at = "ask" /\ job'[v].on \in row => job'[v].holds = token[job'[v].on]
  BY <1>1 DEF AskInv
<1>3. \A v \in Login : job'[v].at = "lock" => job'[v].holds <= issued
  BY <1>1 DEF AskInv, Writer
<1>4. row' = row /\ token' = token /\ due' = due /\ barred' = barred /\ accepted' = accepted /\ issued' = issued
  OBVIOUS
<1>5. RowInv'
  BY <1>4 DEF RowInv
<1>6. AskInv'
  BY <1>2, <1>3, <1>4 DEF AskInv
<1> QED BY <1>4, <1>5, <1>6 DEF RowsFit

\* The holder of the lock stores a token and leaves.
LEMMA Storing ==
  ASSUME QueueInv, RowInv, AskInv, NEW w \in Writer, NEW c \in Cred, NEW new \in JobState, NEW t \in Nat,
         Held(c, w), new.at \in {"idle", "walk"},
         job' = [job EXCEPT ![w] = new],
         Saved(c, t) \/ UNCHANGED <<token, due>>,
         UNCHANGED row,
         issued' \in Nat, issued <= issued', t <= issued',
         accepted' \in [Cred -> SUBSET (1 .. issued')],
         barred' \in [Cred -> BOOLEAN],
         \A d \in row : barred'[d] => token'[d] \notin accepted'[d]
  PROVE  RowsFit
<1>1. job'[w] = new /\ \A v \in Writer : v # w => job'[v] = job[v]
  BY DEF QueueInv
<1>2. /\ token' \in [Cred -> Nat] /\ due' \in [Cred -> BOOLEAN]
      /\ \A d \in Cred : token'[d] = token[d] \/ (d = c /\ c \in row /\ token'[d] = t)
  <2>1. CASE UNCHANGED <<token, due>>
    BY <2>1 DEF RowInv
  <2>2. CASE Saved(c, t)
    BY <2>2 DEF RowInv, Saved
  <2> QED BY <2>1, <2>2
<1>3. issued' \in Nat \ {0}
  BY DEF RowInv
<1>4. \A d \in Cred : token'[d] <= issued'
  <2> SUFFICES ASSUME NEW d \in Cred
               PROVE  token'[d] <= issued'
    OBVIOUS
  <2>1. token[d] \in Nat /\ token[d] <= issued /\ issued \in Nat
    BY DEF RowInv
  <2>2. token[d] <= issued'
    BY <2>1
  <2>3. token'[d] = token[d] \/ token'[d] = t
    BY <1>2
  <2> QED BY <2>2, <2>3
<1>5. RowInv'
  BY <1>2, <1>3, <1>4 DEF RowInv
<1>6. ASSUME NEW v \in Writer, job'[v].at = "ask", job'[v].on \in row
      PROVE  job'[v].holds = token'[job'[v].on]
  <2>1. v # w /\ job'[v] = job[v]
    BY <1>1, <1>6
  <2>2. Held(job[v].on, v) /\ job[v].on \in Cred
    BY <2>1, <1>6 DEF QueueInv
  <2>3. job[v].on # c
    BY <2>1, <2>2 DEF Held
  <2> QED BY <2>1, <2>2, <2>3, <1>2, <1>6 DEF AskInv
<1>7. ASSUME NEW v \in Login, job'[v].at = "lock"
      PROVE  job'[v].holds <= issued'
  <2>1. v \in Writer /\ v # w /\ job'[v] = job[v]
    BY <1>1, <1>7 DEF Writer
  <2>2. job[v] \in JobState /\ job[v].holds <= issued
    BY <2>1, <1>7 DEF AskInv, QueueInv
  <2>3. job[v].holds \in Nat /\ issued \in Nat
    BY <2>2 DEF JobState, RowInv
  <2> QED BY <2>1, <2>2, <2>3
<1>8. AskInv'
  BY <1>6, <1>7 DEF AskInv
<1> QED BY <1>2, <1>5, <1>8 DEF RowsFit

\* A token the upstream has exchanged for a new one.
LEMMA Exchanged ==
  ASSUME RowInv, NEW c \in Cred, NEW t \in Nat, Rotated(c, t)
  PROVE  /\ issued + 1 \in Nat /\ issued' = issued + 1 /\ issued <= issued'
         /\ accepted' \in [Cred -> SUBSET (1 .. issued')]
         /\ \A d \in Cred : d # c => accepted'[d] = accepted[d]
         /\ \A n \in accepted'[c] : n \in accepted[c] \ {t} \/ n = issued + 1
<1>1. issued \in Nat /\ issued' = issued + 1 /\ issued + 1 \in Nat /\ issued <= issued'
  BY DEF RowInv, Rotated
<1>2. accepted \in [Cred -> SUBSET (1 .. issued)]
  BY DEF RowInv
<1>3. accepted' = [accepted EXCEPT ![c] = (accepted[c] \ {t}) \cup {issued + 1}]
  BY DEF Rotated
<1>4. \A d \in Cred : accepted[d] \subseteq 1 .. issued + 1
  BY <1>1, <1>2
<1>5. (accepted[c] \ {t}) \cup {issued + 1} \in SUBSET (1 .. issued + 1)
  BY <1>1, <1>4
<1>6. accepted \in [Cred -> SUBSET (1 .. issued + 1)]
  BY <1>2, <1>4
<1>7. accepted' \in [Cred -> SUBSET (1 .. issued + 1)]
  BY <1>3, <1>5, <1>6
<1>8. accepted'[c] = (accepted[c] \ {t}) \cup {issued + 1}
  BY <1>2, <1>3
<1> QED BY <1>1, <1>2, <1>3, <1>7, <1>8

LEMMA IdleStates ==
  /\ Idle \in JobState /\ Idle.at = "idle"
  /\ \A w \in Writer : job \in [Writer -> JobState] => Next1(w) \in JobState /\ Next1(w).at = "walk"
<1>1. Idle \in JobState /\ Idle.at = "idle"
  BY DEF Idle, JobState
<1>2. ASSUME NEW w \in Writer, job \in [Writer -> JobState]
      PROVE  Next1(w) \in JobState /\ Next1(w).at = "walk"
  <2>1. job[w].left \in SUBSET Cred
    BY <1>2 DEF JobState
  <2> QED BY <1>1, <2>1 DEF Next1, JobState
<1> QED BY <1>1, <1>2

\* Only one writer has moved.
Alone(w) == \A v \in Writer : v # w => job'[v] = job[v]

LEMMA RoundWorks ==
  ASSUME QueueInv, RowInv, AskInv, NEW w \in Job, RefreshStep(w)
  PROVE  QueueInv' /\ RowsFit /\ Alone(w) /\ job[w].at # "idle"
<1> DEFINE c == job[w].on
<1>1. w \in Writer /\ w \notin Login /\ job[w] \in JobState
  BY RefreshConstants DEF Writer, QueueInv
<1>2. \A new : job' = [job EXCEPT ![w] = new] => Alone(w)
  BY DEF QueueInv, Alone
<1>3. ASSUME NEW d \in Cred, Pass(w, d)
      PROVE  QueueInv' /\ RowsFit /\ Alone(w) /\ job[w].at # "idle"
  <2> DEFINE new == [job[w] EXCEPT !.left = @ \ {d}]
  <2>1. job' = [job EXCEPT ![w] = new]
    BY <1>3 DEF Pass, Skipped
  <2>2. new \in JobState /\ new.at = "walk" /\ job[w].at = "walk"
    BY <1>1, <1>3 DEF Pass, JobState
  <2>3. UNCHANGED <<row, token, due, barred, accepted, issued, queue>>
    BY <1>3 DEF Pass
  <2> HIDE DEF new
  <2>4. QueueInv'
    BY <1>1, <2>1, <2>2, <2>3, WalkingOn
  <2>5. RowsFit
    BY <1>1, <2>1, <2>2, <2>3, RowsStay
  <2> QED BY <1>2, <2>1, <2>2, <2>4, <2>5
<1>4. ASSUME NEW d \in Cred, Decide(w, d)
      PROVE  QueueInv' /\ RowsFit /\ Alone(w) /\ job[w].at # "idle"
  <2> DEFINE new == [job[w] EXCEPT !.at = "pace", !.on = d, !.holds = token[d],
                             !.left = job[w].left \ {d}]
  <2>1. job' = [job EXCEPT ![w] = new]
    BY <1>4 DEF Decide
  <2>2. token[d] \in Nat
    BY DEF RowInv
  <2>3. new \in JobState /\ new.at = "pace" /\ new.on = d /\ job[w].at = "walk"
    BY <1>1, <1>4, <2>2 DEF Decide, JobState
  <2>4. UNCHANGED <<row, token, due, barred, accepted, issued, queue>>
    BY <1>4 DEF Decide
  <2> HIDE DEF new
  <2>5. QueueInv'
    BY <1>1, <2>1, <2>3, <2>4, WalkingOn
  <2>6. RowsFit
    BY <1>1, <2>1, <2>3, <2>4, RowsStay
  <2> QED BY <1>2, <2>1, <2>3, <2>5, <2>6
<1>5. CASE AskLock(w)
  <2> DEFINE new == [job[w] EXCEPT !.at = "lock"]
  <2>1. job' = [job EXCEPT ![w] = new] /\ queue' = [queue EXCEPT ![c] = Append(queue[c], w)]
    BY <1>5 DEF AskLock
  <2>2. new \in JobState /\ new.at = "lock" /\ new.on = c /\ job[w].at = "pace"
    BY <1>1, <1>5 DEF AskLock, JobState
  <2>3. c \in Cred /\ UNCHANGED <<row, token, due, barred, accepted, issued>>
    BY <1>1, <1>5 DEF AskLock, QueueInv
  <2> HIDE DEF new, c
  <2>4. QueueInv'
    BY <1>1, <2>1, <2>2, <2>3, Waiting
  <2>5. RowsFit
    BY <1>1, <2>1, <2>2, <2>3, RowsStay
  <2> QED BY <1>2, <2>1, <2>2, <2>4, <2>5
<1>6. CASE Locked(w)
  <2>1. /\ job[w].at = "lock" /\ c \in Cred /\ Held(c, w)
        /\ UNCHANGED <<row, token, due, barred, accepted, issued>>
    BY <1>1, <1>6 DEF Locked, QueueInv
  <2>2. CASE c \notin row /\ Freed(c) /\ job' = [job EXCEPT ![w] = Next1(w)]
    <3>1. Next1(w) \in JobState /\ Next1(w).at = "walk"
      BY <1>1, IdleStates DEF QueueInv
    <3> HIDE DEF c
    <3>2. QueueInv'
      BY <1>1, <2>1, <2>2, <3>1, Freeing
    <3>3. RowsFit
      BY <1>1, <2>1, <2>2, <3>1, RowsStay
    <3> QED BY <1>2, <2>1, <2>2, <3>2, <3>3
  <2>3. CASE c \in row /\ job' = [job EXCEPT ![w].at = "ask", ![w].holds = Reread(w, c)] /\ UNCHANGED queue
    <3> DEFINE new == [job[w] EXCEPT !.at = "ask", !.holds = token[c]]
    <3>1. job' = [job EXCEPT ![w] = new]
      BY <1>1, <2>3 DEF Reread, QueueInv, JobState
    <3>2. token[c] \in Nat
      BY <2>1 DEF RowInv
    <3>3. new \in JobState /\ new.at = "ask" /\ new.on = c /\ new.holds = token[c]
      BY <1>1, <3>2 DEF JobState
    <3> HIDE DEF new, c
    <3>4. QueueInv'
      BY <1>1, <2>1, <2>3, <3>1, <3>3, Asking DEF c
    <3>5. RowsFit
      BY <1>1, <2>1, <3>1, <3>3, RowsStay
    <3> QED BY <1>2, <2>1, <3>1, <3>4, <3>5
  <2> QED BY <1>6, <2>2, <2>3 DEF Locked
<1>7. ASSUME job[w].at = "ask"
      PROVE  /\ c \in Cred /\ Held(c, w) /\ (c \in row => job[w].holds = token[c])
             /\ job[w].holds \in Nat /\ Next1(w) \in JobState /\ Next1(w).at = "walk"
  BY <1>1, <1>7, IdleStates DEF QueueInv, AskInv, JobState
<1>8. CASE Refreshed(w)
  <2> DEFINE t == job[w].holds
  <2>1. /\ job[w].at = "ask" /\ t \in accepted[c] /\ Rotated(c, t) /\ Saved(c, issued + 1)
        /\ Freed(c) /\ job' = [job EXCEPT ![w] = Next1(w)] /\ UNCHANGED <<row, barred>>
    BY <1>8 DEF Refreshed
  <2>2. /\ c \in Cred /\ Held(c, w) /\ (c \in row => t = token[c])
        /\ t \in Nat /\ Next1(w) \in JobState /\ Next1(w).at = "walk"
    BY <1>7, <2>1
  <2> HIDE DEF t, c
  <2>3. /\ issued + 1 \in Nat /\ issued' = issued + 1 /\ issued <= issued'
        /\ accepted' \in [Cred -> SUBSET (1 .. issued')]
        /\ \A d \in Cred : d # c => accepted'[d] = accepted[d]
    BY <2>1, <2>2, Exchanged
  <2>4. \A d \in row : barred'[d] => token'[d] \notin accepted'[d]
    <3> SUFFICES ASSUME NEW d \in row, barred[d]
                 PROVE  token'[d] \notin accepted'[d]
      BY <2>1
    <3>1. d \in Cred /\ token[d] \notin accepted[d]
      BY DEF AskInv, RowInv
    <3>2. d # c
      BY <2>1, <2>2, <3>1
    <3>3. token'[d] = token[d]
      BY <2>1, <3>1, <3>2 DEF Saved, RowInv
    <3> QED BY <2>3, <3>1, <3>2, <3>3
  <2>5. issued + 1 <= issued' /\ barred' \in [Cred -> BOOLEAN] /\ issued' \in Nat
    BY <2>1, <2>3 DEF RowInv
  <2>6. RowsFit
    BY <1>1, <2>1, <2>2, <2>3, <2>4, <2>5, Storing
  <2>7. QueueInv'
    BY <1>1, <2>1, <2>2, Freeing
  <2> QED BY <1>2, <2>1, <2>6, <2>7
<1>9. CASE Refused(w)
  <2>1. /\ job[w].at = "ask" /\ job[w].holds \notin accepted[c]
        /\ barred' = IF c \in row THEN [barred EXCEPT ![c] = TRUE] ELSE barred
        /\ Freed(c) /\ job' = [job EXCEPT ![w] = Next1(w)]
        /\ UNCHANGED <<row, token, due, accepted, issued>>
    BY <1>9 DEF Refused
  <2>2. /\ c \in Cred /\ Held(c, w) /\ (c \in row => job[w].holds = token[c])
        /\ Next1(w) \in JobState /\ Next1(w).at = "walk"
    BY <1>7, <2>1
  <2>3. barred' \in [Cred -> BOOLEAN] /\ \A d \in row : barred'[d] => barred[d] \/ d = c
    BY <2>1, <2>2 DEF RowInv
  <2>4. \A d \in row : barred'[d] => token'[d] \notin accepted'[d]
    BY <2>1, <2>2, <2>3 DEF AskInv
  <2>5. /\ issued' \in Nat /\ issued <= issued' /\ 0 <= issued'
        /\ accepted' \in [Cred -> SUBSET (1 .. issued')]
    BY <2>1 DEF RowInv
  <2> HIDE DEF c
  <2>6. RowsFit
    BY <1>1, <2>1, <2>2, <2>3, <2>4, <2>5, Storing
  <2>7. QueueInv'
    BY <1>1, <2>1, <2>2, Freeing
  <2> QED BY <1>2, <2>1, <2>6, <2>7
<1>10. CASE Unanswered(w)
  <2> DEFINE t == job[w].holds
  <2>1. /\ job[w].at = "ask"
        /\ UNCHANGED <<accepted, issued>> \/ Rotated(c, t)
        /\ Freed(c) /\ job' = [job EXCEPT ![w] = Next1(w)] /\ UNCHANGED <<row, token, due, barred>>
    BY <1>10 DEF Unanswered
  <2>2. c \in Cred /\ Held(c, w) /\ t \in Nat /\ Next1(w) \in JobState /\ Next1(w).at = "walk"
    BY <1>7, <2>1
  <2> HIDE DEF t, c
  <2>3. /\ issued' \in Nat /\ issued <= issued' /\ accepted' \in [Cred -> SUBSET (1 .. issued')]
        /\ \A d \in Cred : \A n \in accepted'[d] : n \in accepted[d] \/ n = issued + 1
    <3>1. CASE UNCHANGED <<accepted, issued>>
      BY <3>1 DEF RowInv
    <3>2. CASE Rotated(c, t)
      BY <3>2, <2>2, Exchanged
    <3> QED BY <2>1, <3>1, <3>2
  <2>4. \A d \in row : barred'[d] => token'[d] \notin accepted'[d]
    <3> SUFFICES ASSUME NEW d \in row, barred[d]
                 PROVE  token[d] \notin accepted'[d]
      BY <2>1
    <3>1. d \in Cred /\ token[d] \notin accepted[d] /\ token[d] \in Nat /\ token[d] <= issued /\ issued \in Nat
      BY DEF AskInv, RowInv
    <3>2. token[d] # issued + 1
      BY <3>1
    <3> QED BY <2>3, <3>1, <3>2
  <2>5. 0 <= issued' /\ barred' \in [Cred -> BOOLEAN]
    BY <2>1, <2>3 DEF RowInv
  <2>6. RowsFit
    BY <1>1, <2>1, <2>2, <2>3, <2>4, <2>5, Storing
  <2>7. QueueInv'
    BY <1>1, <2>1, <2>2, Freeing
  <2> QED BY <1>2, <2>1, <2>6, <2>7
<1> QED BY <1>3, <1>4, <1>5, <1>6, <1>8, <1>9, <1>10 DEF RefreshStep

LEMMA SwitchWorks ==
  ASSUME QueueInv, RowInv, AskInv, NEW w \in Admin,
         (\E d \in Cred : SwitchAsks(w, d)) \/ SwitchReads(w) \/ SwitchSaves(w)
  PROVE  QueueInv' /\ RowsFit /\ Alone(w)
<1> DEFINE c == job[w].on
<1>1. w \in Writer /\ w \notin Login /\ job[w] \in JobState
  BY RefreshConstants DEF Writer, QueueInv
<1>2. \A new : job' = [job EXCEPT ![w] = new] => Alone(w)
  BY DEF QueueInv, Alone
<1>3. ASSUME NEW d \in Cred, SwitchAsks(w, d)
      PROVE  QueueInv' /\ RowsFit /\ Alone(w)
  <2> DEFINE new == [job[w] EXCEPT !.at = "lock", !.on = d]
  <2>1. job' = [job EXCEPT ![w] = new] /\ queue' = [queue EXCEPT ![d] = Append(queue[d], w)]
    BY <1>1, <1>3 DEF SwitchAsks, QueueInv, JobState
  <2>2. new \in JobState /\ new.at = "lock" /\ new.on = d /\ job[w].at = "idle"
    BY <1>1, <1>3 DEF SwitchAsks, MayBegin, JobState
  <2>3. UNCHANGED <<row, token, due, barred, accepted, issued>>
    BY <1>3 DEF SwitchAsks
  <2> HIDE DEF new
  <2>4. QueueInv'
    BY <1>1, <2>1, <2>2, Waiting
  <2>5. RowsFit
    BY <1>1, <2>1, <2>2, <2>3, RowsStay
  <2> QED BY <1>2, <2>1, <2>4, <2>5
<1>4. CASE SwitchReads(w)
  <2>1. /\ job[w].at = "lock" /\ c \in Cred /\ Held(c, w)
        /\ UNCHANGED <<row, token, due, barred, accepted, issued>>
    BY <1>1, <1>4 DEF SwitchReads, QueueInv
  <2>2. CASE c \notin row /\ Freed(c) /\ job' = [job EXCEPT ![w] = Idle]
    <3> HIDE DEF c
    <3>2. QueueInv'
      BY <1>1, <2>1, <2>2, IdleStates, Freeing
    <3>3. RowsFit
      BY <1>1, <2>1, <2>2, IdleStates, RowsStay
    <3> QED BY <1>2, <2>2, <3>2, <3>3
  <2>3. CASE c \in row /\ job' = [job EXCEPT ![w].at = "ask", ![w].holds = token[c]] /\ UNCHANGED queue
    <3> DEFINE new == [job[w] EXCEPT !.at = "ask", !.holds = token[c]]
    <3>1. job' = [job EXCEPT ![w] = new]
      BY <1>1, <2>3 DEF QueueInv, JobState
    <3>2. token[c] \in Nat
      BY <2>1 DEF RowInv
    <3>3. new \in JobState /\ new.at = "ask" /\ new.on = c /\ new.holds = token[c]
      BY <1>1, <3>2 DEF JobState
    <3> HIDE DEF new, c
    <3>4. QueueInv'
      BY <1>1, <2>1, <2>3, <3>1, <3>3, Asking DEF c
    <3>5. RowsFit
      BY <1>1, <2>1, <3>1, <3>3, RowsStay
    <3> QED BY <1>2, <3>1, <3>4, <3>5
  <2> QED BY <1>4, <2>2, <2>3 DEF SwitchReads
<1>5. CASE SwitchSaves(w)
  <2> DEFINE t == job[w].holds
  <2>1. /\ job[w].at = "ask"
        /\ Freed(c) /\ job' = [job EXCEPT ![w] = Idle] /\ UNCHANGED <<row, barred>>
        /\ \/ t \in accepted[c] /\ Rotated(c, t) /\ Saved(c, issued + 1)
           \/ UNCHANGED <<token, due, accepted, issued>>
    BY <1>5 DEF SwitchSaves
  <2>2. c \in Cred /\ Held(c, w) /\ (c \in row => t = token[c]) /\ t \in Nat
    BY <1>1, <2>1 DEF QueueInv, AskInv, JobState
  <2> HIDE DEF t, c
  <2>3. QueueInv'
    BY <1>1, <2>1, <2>2, IdleStates, Freeing
  <2>4. CASE UNCHANGED <<token, due, accepted, issued>>
    <3>1. RowsFit
      BY <1>1, <2>1, <2>4, IdleStates, RowsStay
    <3> QED BY <1>2, <2>1, <2>3, <3>1
  <2>5. CASE t \in accepted[c] /\ Rotated(c, t) /\ Saved(c, issued + 1)
    <3>3. /\ issued + 1 \in Nat /\ issued' = issued + 1 /\ issued <= issued'
          /\ accepted' \in [Cred -> SUBSET (1 .. issued')]
          /\ \A d \in Cred : d # c => accepted'[d] = accepted[d]
      BY <2>5, <2>2, Exchanged
    <3>4. \A d \in row : barred'[d] => token'[d] \notin accepted'[d]
      <4> SUFFICES ASSUME NEW d \in row, barred[d]
                   PROVE  token'[d] \notin accepted'[d]
        BY <2>1
      <4>1. d \in Cred /\ token[d] \notin accepted[d]
        BY DEF AskInv, RowInv
      <4>2. d # c
        BY <2>5, <2>2, <4>1
      <4>3. token'[d] = token[d]
        BY <2>5, <4>1, <4>2 DEF Saved, RowInv
      <4> QED BY <3>3, <4>1, <4>2, <4>3
    <3>5. issued + 1 <= issued' /\ barred' \in [Cred -> BOOLEAN] /\ issued' \in Nat
      BY <2>1, <3>3 DEF RowInv
    <3>6. RowsFit
      BY <1>1, <2>1, <2>2, <2>5, <3>3, <3>4, <3>5, IdleStates, Storing
    <3> QED BY <1>2, <2>1, <2>3, <3>6
  <2> QED BY <2>1, <2>4, <2>5
<1> QED BY <1>3, <1>4, <1>5

LEMMA LoginWorks ==
  ASSUME QueueInv, RowInv, AskInv, NEW w \in Login,
         (\E d \in Cred : LoginAsks(w, d)) \/ LoginMerges(w)
  PROVE  QueueInv' /\ RowsFit /\ Alone(w)
<1> DEFINE c == job[w].on
<1>1. w \in Writer /\ job[w] \in JobState
  BY DEF Writer, QueueInv
<1>2. \A new : job' = [job EXCEPT ![w] = new] => Alone(w)
  BY DEF QueueInv, Alone
<1>3. ASSUME NEW d \in Cred, LoginAsks(w, d)
      PROVE  QueueInv' /\ RowsFit /\ Alone(w)
  <2> DEFINE new == [job[w] EXCEPT !.at = "lock", !.on = d, !.holds = issued + 1]
  <2>1. /\ job' = [job EXCEPT ![w] = new] /\ queue' = [queue EXCEPT ![d] = Append(queue[d], w)]
        /\ accepted' = [accepted EXCEPT ![d] = accepted[d] \cup {issued + 1}]
        /\ issued' = issued + 1 /\ UNCHANGED <<row, token, due, barred>>
    BY <1>3 DEF LoginAsks
  <2>2. issued \in Nat /\ issued + 1 \in Nat /\ issued + 1 # 0
    BY DEF RowInv
  <2>3. new \in JobState /\ new.at = "lock" /\ new.on = d /\ new.holds = issued + 1 /\ job[w].at = "idle"
    BY <1>1, <1>3, <2>2 DEF LoginAsks, MayBegin, JobState
  <2> HIDE DEF new
  <2>4. QueueInv'
    BY <1>1, <2>1, <2>3, Waiting
  <2>5. job'[w] = new /\ \A v \in Writer : v # w => job'[v] = job[v]
    BY <1>1, <2>1 DEF QueueInv
  <2>6. \A e \in Cred : accepted[e] \subseteq 1 .. issued
    BY DEF RowInv
  <2>7. \A e \in Cred : accepted[e] \in SUBSET (1 .. issued + 1)
    BY <2>2, <2>6
  <2>8. accepted[d] \cup {issued + 1} \in SUBSET (1 .. issued + 1)
    BY <2>2, <2>7
  <2>9. accepted' \in [Cred -> SUBSET (1 .. issued')]
    BY <2>1, <2>7, <2>8 DEF RowInv
  <2>10. \A e \in Cred : token[e] \in Nat /\ token[e] <= issued
    BY DEF RowInv
  <2>11. \A e \in Cred : token[e] <= issued'
    BY <2>1, <2>2, <2>10
  <2>12. RowInv'
    BY <2>1, <2>2, <2>9, <2>11 DEF RowInv
  <2>13. \A v \in Login : job'[v].at = "lock" => job'[v].holds <= issued'
    <3> SUFFICES ASSUME NEW v \in Login, job'[v].at = "lock"
                 PROVE  job'[v].holds <= issued'
      OBVIOUS
    <3>1. CASE v = w
      BY <3>1, <2>1, <2>2, <2>3, <2>5
    <3>2. CASE v # w
      <4>1. job'[v] = job[v] /\ job[v] \in JobState /\ job[v].holds <= issued
        BY <3>2, <2>5 DEF Writer, QueueInv, AskInv
      <4>2. job[v].holds \in Nat
        BY <4>1 DEF JobState
      <4> QED BY <4>1, <4>2, <2>1, <2>2
    <3> QED BY <3>1, <3>2
  <2>14. \A e \in row : barred'[e] => token'[e] \notin accepted'[e]
    <3> SUFFICES ASSUME NEW e \in row, barred[e]
                 PROVE  token[e] \notin accepted'[e]
      BY <2>1
    <3>1. e \in Cred /\ token[e] \notin accepted[e]
      BY DEF AskInv, RowInv
    <3>2. token[e] # issued + 1
      BY <2>2, <2>10, <3>1
    <3>3. accepted'[e] = accepted[e] \/ accepted'[e] = accepted[e] \cup {issued + 1}
      BY <2>1, <3>1 DEF RowInv
    <3> QED BY <3>1, <3>2, <3>3
  <2>15. \A v \in Writer : job'[v].at = "ask" /\ job'[v].on \in row => job'[v].holds = token[job'[v].on]
    BY <2>3, <2>5 DEF AskInv
  <2>16. AskInv'
    BY <2>1, <2>13, <2>14, <2>15 DEF AskInv
  <2>17. RowsFit
    BY <2>1, <2>12, <2>16 DEF RowsFit
  <2> QED BY <1>2, <2>1, <2>4, <2>17
<1>4. CASE LoginMerges(w)
  <2> DEFINE t == job[w].holds
  <2>1. /\ job[w].at = "lock" /\ Held(c, w) /\ Saved(c, t)
        /\ barred' = IF c \in row THEN [barred EXCEPT ![c] = FALSE] ELSE barred
        /\ Freed(c) /\ job' = [job EXCEPT ![w] = Idle] /\ UNCHANGED <<row, accepted, issued>>
    BY <1>4 DEF LoginMerges, LoginMayMerge
  <2>2. c \in Cred /\ t \in Nat /\ t <= issued
    BY <1>1, <2>1 DEF QueueInv, AskInv, JobState
  <2> HIDE DEF t, c
  <2>3. QueueInv'
    BY <1>1, <2>1, <2>2, IdleStates, Freeing
  <2>4. /\ barred' \in [Cred -> BOOLEAN] /\ \A d \in row : barred'[d] => barred[d] /\ d # c
    BY <2>1, <2>2 DEF RowInv
  <2>5. \A d \in Cred : d # c => token'[d] = token[d]
    BY <2>1 DEF Saved, RowInv
  <2>6. \A d \in row : barred'[d] => token'[d] \notin accepted'[d]
    BY <2>1, <2>4, <2>5 DEF AskInv, RowInv
  <2>7. issued' \in Nat /\ issued <= issued' /\ t <= issued' /\ accepted' \in [Cred -> SUBSET (1 .. issued')]
    BY <2>1, <2>2 DEF RowInv
  <2>8. RowsFit
    BY <1>1, <2>1, <2>2, <2>4, <2>6, <2>7, IdleStates, Storing
  <2> QED BY <1>2, <2>1, <2>3, <2>8
<1> QED BY <1>3, <1>4

LEMMA WorldWrites ==
  ASSUME QueueInv, RowInv, AskInv, RefreshWorld
  PROVE  QueueInv' /\ RowsFit /\ \A w \in Job : job'[w] = job[w]
<1>1. ASSUME NEW w \in Admin \cup Login, QueueInv' /\ RowsFit /\ Alone(w)
      PROVE  QueueInv' /\ RowsFit /\ \A v \in Job : job'[v] = job[v]
  BY <1>1, RefreshConstants DEF Alone, Writer
<1>2. CASE Write \/ WriterStep
  <2>1. \/ \E w \in Admin : (\E d \in Cred : SwitchAsks(w, d)) \/ SwitchReads(w) \/ SwitchSaves(w)
        \/ \E w \in Login : (\E d \in Cred : LoginAsks(w, d)) \/ LoginMerges(w)
    BY <1>2 DEF Write, WriterStep
  <2> QED BY <2>1, <1>1, SwitchWorks, LoginWorks
<1>3. ASSUME NEW c \in Cred, Administer(c)
      PROVE  QueueInv' /\ RowsFit /\ \A v \in Job : job'[v] = job[v]
  <2>1. /\ UNCHANGED <<token, due, accepted, issued, queue, job>>
        /\ \/ barred' = [barred EXCEPT ![c] = FALSE] /\ UNCHANGED row
           \/ row' = row \ {c} /\ UNCHANGED barred
    BY <1>3 DEF Administer
  <2>2. QueueInv'
    BY <2>1 DEF QueueInv, Held
  <2>3. row' \subseteq row /\ barred' \in [Cred -> BOOLEAN] /\ \A d \in Cred : barred'[d] => barred[d]
    BY <2>1 DEF RowInv
  <2>4. RowInv'
    BY <2>1, <2>3 DEF RowInv
  <2>5. AskInv'
    BY <2>1, <2>3 DEF AskInv, RowInv
  <2> QED BY <2>1, <2>2, <2>4, <2>5 DEF RowsFit
<1>4. ASSUME NEW c \in Cred, Expire(c)
      PROVE  QueueInv' /\ RowsFit /\ \A v \in Job : job'[v] = job[v]
  <2>1. UNCHANGED <<row, token, barred, accepted, issued, queue, job>> /\ due' = [due EXCEPT ![c] = TRUE]
    BY <1>4 DEF Expire
  <2>2. QueueInv'
    BY <2>1 DEF QueueInv, Held
  <2>3. RowInv'
    BY <2>1 DEF RowInv
  <2>4. AskInv'
    BY <2>1 DEF AskInv
  <2> QED BY <2>1, <2>2, <2>3, <2>4 DEF RowsFit
<1> QED BY <1>2, <1>3, <1>4 DEF RefreshWorld

LEMMA RefreshStepSound ==
  ASSUME RunnerSound, RefreshInv, Moves
  PROVE  RefreshInv' /\ RowsFit
<1>1. QueueInv /\ RowInv /\ AskInv /\ JobInv /\ Job = Runs
  BY TaskConstants DEF RefreshInv
<1>2. Round("refresh", "start") # Round("refresh", "loop")
  BY DEF Round
<1>3. \A k, j, by, b : Round(k, by) = Round(j, b) => k = j /\ by = b
  BY DEF Round
<1>4. CASE /\ UNCHANGED refreshVars
           /\ \A by \in Runs : Round("refresh", by) \in rounds => Round("refresh", by) \in rounds'
  <2>1. UNCHANGED <<row, token, due, barred, accepted, issued, queue, job>>
    BY <1>4 DEF refreshVars
  <2>2. QueueInv'
    BY <1>1, <2>1 DEF QueueInv, Held
  <2>3. RowInv'
    BY <1>1, <2>1 DEF RowInv
  <2>4. AskInv'
    BY <1>1, <2>1 DEF AskInv
  <2>5. JobInv'
    BY <1>1, <1>4, <2>1 DEF JobInv
  <2> QED BY <2>1, <2>2, <2>3, <2>4, <2>5 DEF RefreshInv, RowsFit
<1>5. ASSUME NEW k \in assembled, NEW by \in Runs, Begins(k, by)
      PROVE  RefreshInv' /\ RowsFit
  <2>1. rounds \subseteq rounds' /\ Round(k, by) \in rounds' /\ Round(k, by) \notin rounds /\ Opens(k, by)
    BY <1>5 DEF Begins
  <2>2. CASE k # "refresh"
    BY <2>1, <2>2, <1>4 DEF Opens, Kept
  <2>3. CASE k = "refresh"
    <3>1. RefreshBegins(by)
      BY <2>1, <2>3 DEF Opens
    <3>2. PICK enabled \in SUBSET row :
            job' = [job EXCEPT ![by] = [Idle EXCEPT !.at = "walk", !.left = {c \in enabled : ~barred[c]}]]
      BY <3>1 DEF RefreshBegins
    <3> DEFINE new == [Idle EXCEPT !.at = "walk", !.left = {c \in enabled : ~barred[c]}]
    <3>3. by \in Writer /\ job[by].at = "idle"
      BY <1>1, <2>1, <2>3 DEF JobInv, Writer
    <3>4. {c \in enabled : ~barred[c]} \in SUBSET Cred
      BY <1>1 DEF RowInv
    <3>5. new \in JobState /\ new.at = "walk"
      BY <3>4 DEF Idle, JobState
    <3>6. job' = [job EXCEPT ![by] = new] /\ UNCHANGED <<row, token, due, barred, accepted, issued, queue>>
      BY <3>1, <3>2 DEF RefreshBegins
    <3> HIDE DEF new
    <3>7. QueueInv'
      BY <1>1, <3>3, <3>5, <3>6, WalkingOn
    <3>8. RowsFit
      BY <1>1, <3>3, <3>5, <3>6, RowsStay
    <3>9. \A v \in Writer : v # by => job'[v] = job[v]
      BY <1>1, <3>6 DEF QueueInv
    <3>10. JobInv'
      BY <1>1, <2>1, <2>3, <3>9 DEF JobInv, Writer
    <3> QED BY <3>7, <3>8, <3>10 DEF RefreshInv, RowsFit
  <2> QED BY <2>2, <2>3
<1>6. ASSUME NEW k \in assembled, NEW by \in Runs, GoesOn(k, by)
      PROVE  RefreshInv' /\ RowsFit
  <2>1. rounds' = rounds /\ Goes(k, by)
    BY <1>6 DEF GoesOn
  <2>2. CASE k # "refresh"
    BY <2>1, <2>2, <1>4 DEF Goes, Kept
  <2>3. CASE k = "refresh"
    <3>1. RefreshStep(by) /\ by \in Job
      BY <1>1, <2>1, <2>3 DEF Goes
    <3>2. QueueInv' /\ RowsFit /\ Alone(by) /\ job[by].at # "idle"
      BY <1>1, <3>1, RoundWorks
    <3>3. JobInv'
      BY <1>1, <2>1, <3>1, <3>2 DEF JobInv, Alone, Writer
    <3> QED BY <3>2, <3>3 DEF RefreshInv, RowsFit
  <2> QED BY <2>2, <2>3
<1>7. ASSUME NEW k \in assembled, NEW by \in Runs, NEW verdict \in {"ok", "failed", "noop"}, Ends(k, by, verdict)
      PROVE  RefreshInv' /\ RowsFit
  <2>1. rounds' = rounds \ {Round(k, by)} /\ Leaves(k, by, verdict)
    BY <1>7 DEF Ends
  <2>2. CASE k # "refresh"
    BY <1>3, <2>1, <2>2, <1>4 DEF Leaves, Kept
  <2>3. CASE k = "refresh"
    <3>1. RefreshDone(by) /\ RefreshLeaves(by) /\ by \in Writer
      BY <1>1, <2>1, <2>3 DEF Leaves, Writer
    <3>2. /\ job[by].at = "walk" /\ job' = [job EXCEPT ![by] = Idle]
          /\ UNCHANGED <<row, token, due, barred, accepted, issued, queue>>
      BY <3>1 DEF RefreshDone, RefreshLeaves
    <3>3. QueueInv'
      BY <1>1, <3>1, <3>2, IdleStates, WalkingOn
    <3>4. RowsFit
      BY <1>1, <3>1, <3>2, IdleStates, RowsStay
    <3>5. job'[by] = Idle /\ \A v \in Writer : v # by => job'[v] = job[v]
      BY <1>1, <3>1, <3>2 DEF QueueInv
    <3>6. JobInv'
      BY <1>1, <1>3, <2>1, <3>5, IdleStates DEF JobInv, Writer
    <3> QED BY <3>3, <3>4, <3>6 DEF RefreshInv, RowsFit
  <2> QED BY <2>2, <2>3
<1>8. CASE World /\ UNCHANGED rounds
  <2>1. CASE UNCHANGED refreshVars
    BY <2>1, <1>8, <1>4
  <2>2. CASE RefreshWorld
    <3>1. QueueInv' /\ RowsFit /\ \A w \in Job : job'[w] = job[w]
      BY <1>1, <2>2, WorldWrites
    <3>2. JobInv'
      BY <1>1, <1>8, <3>1 DEF JobInv
    <3> QED BY <3>1, <3>2 DEF RefreshInv, RowsFit
  <2> QED BY <1>8, <2>1, <2>2 DEF World, Kept
<1>9. CASE Restart
  <2>1. /\ queue' = [c \in Cred |-> <<>>] /\ job' = [w \in Writer |-> Idle]
        /\ UNCHANGED <<row, token, due, barred, accepted, issued>>
    BY <1>9 DEF Restart, RefreshStarts
  <2>2. \A w \in Writer : job'[w].at = "idle"
    BY <2>1, IdleStates
  <2>3. QueueInv'
    <3>1. queue' \in [Cred -> Seq(Writer)] /\ \A c \in Cred : Len(queue'[c]) = 0
      BY <2>1
    <3>2. job' \in [Writer -> JobState]
      BY <2>1, IdleStates
    <3>3. \A c \in Cred : 1 .. Len(queue'[c]) = {}
      BY <3>1
    <3>4. /\ \A c \in Cred : \A i \in 1 .. Len(queue'[c]) :
               job'[queue'[c][i]].on = c /\ job'[queue'[c][i]].at \in {"lock", "ask"}
          /\ \A c \in Cred : \A i, j \in 1 .. Len(queue'[c]) : queue'[c][i] = queue'[c][j] => i = j
      BY <3>3
    <3>5. /\ \A w \in Writer : job'[w].at \in {"pace", "lock", "ask"} => job'[w].on \in Cred
          /\ \A w \in Writer : job'[w].at # "ask"
      BY <2>2
    <3> QED BY <3>1, <3>2, <3>4, <3>5 DEF QueueInv
  <2>4. RowInv'
    BY <1>1, <2>1 DEF RowInv
  <2>5. AskInv'
    BY <1>1, <2>1, <2>2 DEF AskInv, Writer
  <2>6. JobInv'
    BY <2>2 DEF JobInv, Writer
  <2> QED BY <2>1, <2>3, <2>4, <2>5, <2>6 DEF RefreshInv, RowsFit
<1>10. CASE Kept("none") /\ UNCHANGED rounds
  BY <1>10, <1>4 DEF Kept
<1>11. CASE UNCHANGED taskVars
  BY <1>11, <1>4 DEF taskVars, runnerVars
<1> QED BY <1>5, <1>6, <1>7, <1>8, <1>9, <1>10, <1>11 DEF Moves

LEMMA RefreshBegun == TasksInit => RefreshInv
<1> SUFFICES ASSUME RefreshInit
             PROVE  RefreshInv
  BY DEF TasksInit
<1>1. /\ row = Cred /\ token = [c \in Cred |-> 1] /\ due = [c \in Cred |-> FALSE]
      /\ barred = [c \in Cred |-> FALSE] /\ accepted = [c \in Cred |-> {1}] /\ issued = 1
      /\ queue = [c \in Cred |-> <<>>] /\ job = [w \in Writer |-> Idle]
  BY DEF RefreshInit
<1>2. RowInv
  BY <1>1 DEF RowInv
<1>3. \A w \in Writer : job[w].at = "idle"
  BY <1>1, IdleStates
<1>4. QueueInv
  <2>1. queue \in [Cred -> Seq(Writer)] /\ \A c \in Cred : 1 .. Len(queue[c]) = {}
    BY <1>1
  <2>2. job \in [Writer -> JobState]
    BY <1>1, IdleStates
  <2> QED BY <2>1, <2>2, <1>3 DEF QueueInv
<1>5. AskInv /\ JobInv
  BY <1>1, <1>3 DEF AskInv, JobInv, Writer
<1> QED BY <1>2, <1>4, <1>5 DEF RefreshInv

-----------------------------------------------------------------------------
(* The check-in.                                                           *)

SignState ==
  [at : {"idle", "noop", "walk", "pace", "call"}, next : Nat \ {0}, live : SUBSET Account,
   seen : SUBSET Scope, day : Day, since : Nat, manual : BOOLEAN]

SignTypes ==
  /\ day \in Day /\ moment \in Nat
  /\ times \subseteq Nat /\ fired \subseteq times
  /\ suspended \subseteq Account
  /\ done \in [Day -> [Scope -> Nat]]
  /\ sign \in [Signer -> SignState]
  /\ \A w \in Signer : sign[w].at \in {"pace", "call"} => sign[w].next <= Len(Accounts)

Signing(w) == sign[w].at \notin {"idle", "noop"}

\* One round signs at a time; begun yesterday, it is the first since midnight; and
\* before its call it has seen that its scope is not sealed.
SealInv ==
  /\ \A w \in Signer : sign[w].at # "idle" => Round("checkin", w) \in rounds
  /\ \A w \in Signer : Signing(w) =>
       IF sign[w].day = day THEN sign[w].since <= moment ELSE done[day] = Unsealed
  /\ \A w \in Signer : sign[w].at = "pace" => done[sign[w].day][Here(w)] <= sign[w].since

CheckinInv == SignTypes /\ SealInv

LEMMA CheckinBegun == TasksInit => CheckinInv
<1> SUFFICES ASSUME CheckinInit
             PROVE  CheckinInv
  BY DEF TasksInit
<1>1. /\ day = 0 /\ moment = 0 /\ times \in SlotPlans /\ fired = {} /\ suspended = {}
      /\ done = [d \in Day |-> Unsealed] /\ sign = [w \in Signer |-> AtRest]
  BY DEF CheckinInit
<1>2. Unsealed \in [Scope -> Nat] /\ AtRest \in SignState /\ AtRest.at = "idle"
  BY DEF Unsealed, AtRest, SignState, Day
<1>3. times \subseteq Nat
  BY <1>1, CheckinConstants DEF Moment
<1>4. \A w \in Signer : sign[w].at = "idle"
  BY <1>1, <1>2
<1>5. sign \in [Signer -> SignState] /\ done \in [Day -> [Scope -> Nat]]
  BY <1>1, <1>2
<1> QED BY <1>1, <1>3, <1>4, <1>5 DEF CheckinInv, SignTypes, SealInv, Signing, Day

LEMMA HereScope ==
  ASSUME SignTypes, NEW w \in Signer, sign[w].next <= Len(Accounts)
  PROVE  Candidate(w) \in Account /\ Here(w) \in Scope
<1>1. sign[w].next \in Nat \ {0}
  BY DEF SignTypes, SignState
<1>2. Len(Accounts) \in Nat /\ Accounts \in [1 .. Len(Accounts) -> Account]
  BY CheckinConstants
<1>3. sign[w].next \in 1 .. Len(Accounts)
  BY <1>1, <1>2
<1>4. Candidate(w) \in Account
  BY <1>2, <1>3 DEF Candidate
<1> QED BY <1>4, CheckinConstants DEF Here

LEMMA OneSigner ==
  ASSUME RunnerSound, SealInv, NEW v \in Signer, NEW w \in Signer,
         sign[v].at # "idle", Round("checkin", w) \in rounds
  PROVE  v = w
<1>1. Round("checkin", v) \in rounds
  BY DEF SealInv
<1>2. v # "start" /\ w # "start"
  BY TaskConstants
<1>3. Round("checkin", v) = Round("checkin", w)
  BY <1>1, <1>2 DEF RunnerSound, RoundsApart, Round
<1> QED BY <1>3 DEF Round

\* A step of the round that signs, alone.
LEMMA SignerMoves ==
  ASSUME CheckinInv, NEW w \in Signer, NEW new \in SignState,
         \A v \in Signer : v # w => sign[v].at = "idle",
         sign' = [sign EXCEPT ![w] = new],
         new.at # "idle" => Round("checkin", w) \in rounds',
         UNCHANGED <<day, moment, times, suspended>>,
         fired' \subseteq times,
         done' \in [Day -> [Scope -> Nat]],
         new.at \in {"pace", "call"} => new.next <= Len(Accounts),
         new.at \notin {"idle", "noop"} =>
           IF new.day = day THEN new.since <= moment ELSE done'[day] = Unsealed,
         new.at = "pace" => done'[new.day][ScopeOf[Accounts[new.next]]] <= new.since
  PROVE  CheckinInv'
<1>1. /\ sign' \in [Signer -> SignState] /\ sign'[w] = new
      /\ \A v \in Signer : v # w => sign'[v].at = "idle"
  BY DEF CheckinInv, SignTypes
<1>2. SignTypes'
  BY <1>1 DEF CheckinInv, SignTypes
<1>3. \A v \in Signer : sign'[v].at # "idle" => Round("checkin", v) \in rounds'
  BY <1>1
<1>4. \A v \in Signer : sign'[v].at \notin {"idle", "noop"} =>
        IF sign'[v].day = day' THEN sign'[v].since <= moment' ELSE done'[day'] = Unsealed
  BY <1>1
<1>5. \A v \in Signer : sign'[v].at = "pace" =>
        done'[sign'[v].day][ScopeOf[Accounts[sign'[v].next]]] <= sign'[v].since
  BY <1>1
<1> QED BY <1>2, <1>3, <1>4, <1>5 DEF CheckinInv, SealInv, Signing, Here, Candidate, Round

LEMMA SignStepSound ==
  ASSUME CheckinInv, NEW w \in Signer, SignStep(w), UNCHANGED rounds,
         \A v \in Signer : v # w => sign[v].at = "idle"
  PROVE  CheckinInv'
<1>1. /\ sign[w] \in SignState /\ UNCHANGED <<day, moment, times, suspended, fired>>
      /\ fired \subseteq times /\ done \in [Day -> [Scope -> Nat]] /\ day \in Day
  BY DEF CheckinInv, SignTypes, SignStep, Skip, Defer, Attempt, Call, Signed, NotSigned
<1>2. /\ sign[w].at # "idle" => Round("checkin", w) \in rounds'
      /\ Signing(w) => IF sign[w].day = day THEN sign[w].since <= moment ELSE done[day] = Unsealed
      /\ sign[w].at = "pace" => done[sign[w].day][ScopeOf[Accounts[sign[w].next]]] <= sign[w].since
  BY DEF CheckinInv, SealInv, Here, Candidate
<1>3. /\ Ahead(w) \in SignState /\ Ahead(w).at = "walk" /\ Ahead(w).day = sign[w].day
      /\ Ahead(w).since = sign[w].since
  <2>1. sign[w].next \in Nat \ {0}
    BY <1>1 DEF SignState
  <2> DEFINE n == sign[w].next + 1
  <2>2. n \in Nat \ {0}
    BY <2>1
  <2>3. Ahead(w) = [sign[w] EXCEPT !.at = "walk", !.next = n]
    BY DEF Ahead
  <2> HIDE DEF n
  <2> QED BY <1>1, <2>2, <2>3 DEF SignState
<1>4. Walking(w) => Here(w) \in Scope /\ Signing(w)
  BY HereScope DEF Walking, Signing, CheckinInv
<1>5. CASE Skip(w)
  <2>1. sign' = [sign EXCEPT ![w] = Ahead(w)] /\ done' = done /\ Signing(w)
    BY <1>4, <1>5 DEF Skip
  <2> DEFINE new == Ahead(w)
  <2>2. sign[w].at # "idle"
    BY <2>1 DEF Signing
  <2> HIDE DEF new
  <2> QED BY <1>1, <1>2, <1>3, <2>1, <2>2, SignerMoves DEF new
<1>6. CASE Defer(w)
  <2> DEFINE new == [Ahead(w) EXCEPT !.seen = @ \cup {Here(w)}]
  <2>1. sign' = [sign EXCEPT ![w] = new] /\ done' = done /\ Signing(w) /\ Here(w) \in Scope
    BY <1>4, <1>6 DEF Defer
  <2>2. new \in SignState /\ new.at = "walk" /\ new.day = sign[w].day /\ new.since = sign[w].since
    BY <1>3, <2>1 DEF SignState
  <2>3. sign[w].at # "idle"
    BY <2>1 DEF Signing
  <2> HIDE DEF new
  <2> QED BY <1>1, <1>2, <2>1, <2>2, <2>3, SignerMoves
<1>7. CASE Attempt(w)
  <2> DEFINE new == [sign[w] EXCEPT !.at = "pace", !.seen = @ \cup {Here(w)}]
  <2>1. /\ sign' = [sign EXCEPT ![w] = new] /\ done' = done /\ Signing(w) /\ Here(w) \in Scope
        /\ sign[w].next <= Len(Accounts) /\ ~Outside(w)
    BY <1>1, <1>4, <1>7 DEF Attempt, Walking, CheckinInv, SignTypes, SignState
  <2>2. /\ new \in SignState /\ new.at = "pace" /\ new.day = sign[w].day /\ new.since = sign[w].since
        /\ new.next = sign[w].next
    BY <1>1, <2>1 DEF SignState
  <2>3. sign[w].at # "idle"
    BY <2>1 DEF Signing
  <2>4. sign[w].day \in Day /\ sign[w].since \in Nat
    BY <1>1 DEF SignState
  <2>5. done[sign[w].day][Here(w)] \in Nat
    BY <1>1, <2>1, <2>4
  <2>6. done[sign[w].day][Here(w)] <= sign[w].since
    BY <2>1, <2>4, <2>5 DEF Outside
  <2>7. Here(w) = ScopeOf[Accounts[new.next]]
    BY <2>2 DEF Here, Candidate
  <2> HIDE DEF new
  <2> QED BY <1>1, <1>2, <2>1, <2>2, <2>3, <2>6, <2>7, SignerMoves
<1>8. CASE Call(w)
  <2> DEFINE new == [sign[w] EXCEPT !.at = "call"]
  <2>1. /\ sign' = [sign EXCEPT ![w] = new] /\ done' = done /\ sign[w].at = "pace"
        /\ sign[w].next <= Len(Accounts)
    BY <1>8 DEF Call, CheckinInv, SignTypes
  <2>2. /\ new \in SignState /\ new.at = "call" /\ new.day = sign[w].day /\ new.since = sign[w].since
        /\ new.next = sign[w].next
    BY <1>1, <2>1 DEF SignState
  <2>3. Signing(w)
    BY <2>1 DEF Signing
  <2> HIDE DEF new
  <2> QED BY <1>1, <1>2, <2>1, <2>2, <2>3, SignerMoves
<1>9. CASE Signed(w)
  <2>1. PICK until \in SealEnds(w) : done' = [done EXCEPT ![sign[w].day][Here(w)] = until]
    BY <1>9 DEF Signed
  <2>2. sign' = [sign EXCEPT ![w] = Ahead(w)] /\ sign[w].at = "call" /\ sign[w].next <= Len(Accounts)
    BY <1>9 DEF Signed, CheckinInv, SignTypes
  <2>3. until \in Nat
    BY CheckinConstants DEF SealEnds
  <2>4. Here(w) \in Scope /\ sign[w].day \in Day
    BY <1>1, <2>2, HereScope DEF CheckinInv, SignState
  <2>5. done' \in [Day -> [Scope -> Nat]]
    BY <1>1, <2>1, <2>3, <2>4
  <2>6. sign[w].day # day => done'[day] = done[day]
    BY <1>1, <2>1, <2>4
  <2>7. Signing(w)
    BY <2>2 DEF Signing
  <2> DEFINE new == Ahead(w)
  <2> HIDE DEF new
  <2> QED BY <1>1, <1>2, <1>3, <2>2, <2>5, <2>6, <2>7, SignerMoves DEF new
<1>10. CASE NotSigned(w)
  <2>1. sign' = [sign EXCEPT ![w] = Ahead(w)] /\ sign[w].at = "call" /\ done' = done
    BY <1>10 DEF NotSigned
  <2>2. Signing(w)
    BY <2>1 DEF Signing
  <2> DEFINE new == Ahead(w)
  <2> HIDE DEF new
  <2> QED BY <1>1, <1>2, <1>3, <2>1, <2>2, SignerMoves DEF new
<1> QED BY <1>5, <1>6, <1>7, <1>8, <1>9, <1>10 DEF SignStep

LEMMA CheckinStepSound ==
  ASSUME RunnerSound, RunnerSound', CheckinInv, Moves
  PROVE  CheckinInv'
<1>1. Signer = Runs \ {"start"}
  BY TaskConstants
<1>2. \A k, j, by, b : Round(k, by) = Round(j, b) => k = j /\ by = b
  BY DEF Round
<1>3. CASE /\ UNCHANGED checkinVars
           /\ \A by \in Runs : Round("checkin", by) \in rounds => Round("checkin", by) \in rounds'
  <2>1. UNCHANGED <<day, moment, times, fired, suspended, done, sign>>
    BY <1>3 DEF checkinVars
  <2>2. SignTypes'
    BY <2>1 DEF CheckinInv, SignTypes
  <2>3. \A v \in Signer : sign'[v].at # "idle" => Round("checkin", v) \in rounds'
    BY <1>1, <1>3, <2>1 DEF CheckinInv, SealInv
  <2>4. \A v \in Signer : sign'[v].at \notin {"idle", "noop"} =>
          IF sign'[v].day = day' THEN sign'[v].since <= moment' ELSE done'[day'] = Unsealed
    BY <2>1 DEF CheckinInv, SealInv, Signing
  <2>5. \A v \in Signer : sign'[v].at = "pace" =>
          done'[sign'[v].day][ScopeOf[Accounts[sign'[v].next]]] <= sign'[v].since
    BY <2>1 DEF CheckinInv, SealInv, Here, Candidate
  <2> QED BY <2>2, <2>3, <2>4, <2>5 DEF CheckinInv, SealInv, Signing, Here, Candidate, Round
<1>4. ASSUME NEW k \in assembled, NEW by \in Runs, Begins(k, by), by = "start" => k \notin {"checkin", "growth"}
      PROVE  CheckinInv'
  <2>1. rounds \subseteq rounds' /\ Round(k, by) \in rounds' /\ Round(k, by) \notin rounds /\ Opens(k, by)
    BY <1>4 DEF Begins
  <2>2. CASE k # "checkin"
    BY <2>1, <2>2, <1>3 DEF Opens, Kept
  <2>3. CASE k = "checkin"
    <3>1. by \in Signer /\ (PageBegins(by) \/ LoopBegins(by))
      BY <1>1, <1>4, <2>1, <2>3 DEF Opens
    <3>2. \A v \in Signer : v # by => sign[v].at = "idle"
      <4> SUFFICES ASSUME NEW v \in Signer, sign[v].at # "idle"
                   PROVE  v = by
        OBVIOUS
      <4>1. Round("checkin", v) \in rounds' /\ Round("checkin", by) \in rounds'
        BY <2>1, <2>3 DEF CheckinInv, SealInv
      <4>2. v # "start" /\ by # "start"
        BY <1>1, <3>1
      <4>3. Round("checkin", v) = Round("checkin", by)
        BY <4>1, <4>2 DEF RunnerSound, RoundsApart, Round
      <4> QED BY <1>2, <4>3
    <3>3. fired' \subseteq times
      <4>1. CASE fired' = fired
        BY <4>1 DEF CheckinInv, SignTypes
      <4>2. CASE Windows # {} /\ fired' = fired \cup {Min(Windows)}
        <5>1. Windows \subseteq times /\ times \subseteq Nat /\ fired \subseteq times
          BY DEF Windows, CheckinInv, SignTypes
        <5>2. Min(Windows) \in Windows
          BY <4>2, <5>1, LeastNumber
        <5> QED BY <4>2, <5>1, <5>2
      <4> QED BY <3>1, <4>1, <4>2 DEF PageBegins, LoopBegins, Due
    <3>4. ASSUME NEW manual \in BOOLEAN, Walks(by, manual)
          PROVE  CheckinInv'
      <4> DEFINE new == [AtRest EXCEPT !.at = "walk", !.live = Account \ suspended, !.day = day,
                                       !.since = moment, !.manual = manual]
      <4>1. /\ sign' = [sign EXCEPT ![by] = new] /\ UNCHANGED <<day, moment, times, suspended>>
            /\ done' = [done EXCEPT ![1 - day] = Unsealed]
        BY <3>4 DEF Walks
      <4>2. moment \in Nat /\ day \in Day
        BY DEF CheckinInv, SignTypes
      <4>3. new \in SignState /\ new.at = "walk" /\ new.day = day /\ new.since = moment
        <5>1. AtRest \in SignState
          BY DEF AtRest, SignState, Day
        <5> QED BY <4>2, <5>1 DEF SignState
      <4>4. Unsealed \in [Scope -> Nat]
        BY DEF Unsealed
      <4>5. done' \in [Day -> [Scope -> Nat]]
        BY <4>1, <4>4 DEF CheckinInv, SignTypes
      <4>6. moment <= moment
        BY <4>2
      <4> HIDE DEF new
      <4> QED BY <2>1, <2>3, <3>1, <3>2, <3>3, <4>1, <4>3, <4>5, <4>6, SignerMoves
    <3>5. CASE /\ sign' = [sign EXCEPT ![by] = [AtRest EXCEPT !.at = "noop"]]
               /\ UNCHANGED <<day, moment, times, suspended, done>>
      <4> DEFINE new == [AtRest EXCEPT !.at = "noop"]
      <4>1. new \in SignState /\ new.at = "noop"
        <5>1. AtRest \in SignState
          BY DEF AtRest, SignState, Day
        <5> QED BY <5>1 DEF SignState
      <4>2. done' \in [Day -> [Scope -> Nat]]
        BY <3>5 DEF CheckinInv, SignTypes
      <4> HIDE DEF new
      <4> QED BY <2>1, <2>3, <3>1, <3>2, <3>3, <3>5, <4>1, <4>2, SignerMoves DEF new
    <3> QED BY <3>1, <3>4, <3>5 DEF PageBegins, LoopBegins
  <2> QED BY <2>2, <2>3
<1>5. ASSUME NEW k \in assembled, NEW by \in Runs, GoesOn(k, by), by = "start" => k \notin {"checkin", "growth"}
      PROVE  CheckinInv'
  <2>1. rounds' = rounds /\ Round(k, by) \in rounds /\ Goes(k, by)
    BY <1>5 DEF GoesOn
  <2>2. CASE k # "checkin"
    BY <2>1, <2>2, <1>3 DEF Goes, Kept
  <2>3. CASE k = "checkin"
    <3>1. by \in Signer /\ SignStep(by)
      BY <1>1, <1>5, <2>1, <2>3 DEF Goes
    <3>2. \A v \in Signer : v # by => sign[v].at = "idle"
      BY <2>1, <2>3, <3>1, OneSigner DEF CheckinInv
    <3> QED BY <2>1, <3>1, <3>2, SignStepSound
  <2> QED BY <2>2, <2>3
<1>6. ASSUME NEW k \in assembled, NEW by \in Runs, NEW verdict \in {"ok", "failed", "noop"}, Ends(k, by, verdict)
      PROVE  CheckinInv'
  <2>1. rounds' = rounds \ {Round(k, by)} /\ Round(k, by) \in rounds /\ Leaves(k, by, verdict)
    BY <1>6 DEF Ends
  <2>2. CASE k # "checkin"
    BY <1>2, <2>1, <2>2, <1>3 DEF Leaves, Kept
  <2>3. CASE k = "checkin"
    <3>1. by # "start"
      <4>1. Round(k, by).by = by /\ Round(k, by).task = k
        BY DEF Round
      <4> QED BY <2>1, <2>3, <4>1 DEF RunnerSound, RoundsApart
    <3>2. /\ by \in Signer /\ sign' = [sign EXCEPT ![by] = AtRest]
          /\ UNCHANGED <<day, moment, times, fired, suspended, done>>
      BY <1>1, <2>1, <2>3, <3>1 DEF Leaves, SignLeaves
    <3>3. \A v \in Signer : v # by => sign[v].at = "idle"
      BY <2>1, <2>3, <3>2, OneSigner DEF CheckinInv
    <3>4. AtRest \in SignState /\ AtRest.at = "idle"
      BY DEF AtRest, SignState, Day
    <3>5. fired \subseteq times /\ done \in [Day -> [Scope -> Nat]]
      BY DEF CheckinInv, SignTypes
    <3> QED BY <3>2, <3>3, <3>4, <3>5, SignerMoves
  <2> QED BY <2>2, <2>3
<1>7. CASE World /\ UNCHANGED rounds
  <2>1. CASE UNCHANGED checkinVars
    BY <2>1, <1>7, <1>3
  <2>2. ASSUME NEW a \in Account, Suspend(a)
        PROVE  CheckinInv'
    <3>1. UNCHANGED <<day, moment, times, fired, done, sign>> /\ suspended' \subseteq suspended \cup {a}
      BY <2>2 DEF Suspend
    <3>2. SignTypes'
      BY <3>1 DEF CheckinInv, SignTypes
    <3>3. SealInv'
      BY <1>7, <3>1 DEF CheckinInv, SealInv, Signing, Here, Candidate
    <3> QED BY <3>2, <3>3 DEF CheckinInv
  <2>3. CASE PassMoment
    <3>1. UNCHANGED <<day, times, fired, suspended, done, sign>> /\ moment' = moment + 1
      BY <2>3 DEF PassMoment
    <3>2. moment \in Nat /\ moment' \in Nat
      BY <3>1 DEF CheckinInv, SignTypes
    <3>3. SignTypes'
      BY <3>1, <3>2 DEF CheckinInv, SignTypes
    <3>4. ASSUME NEW v \in Signer, Signing(v)
          PROVE  IF sign[v].day = day THEN sign[v].since <= moment' ELSE done[day] = Unsealed
      <4>1. sign[v].since \in Nat
        BY DEF CheckinInv, SignTypes, SignState
      <4> QED BY <3>1, <3>2, <3>4, <4>1 DEF CheckinInv, SealInv
    <3>5. SealInv'
      BY <1>7, <3>1, <3>4 DEF CheckinInv, SealInv, Signing, Here, Candidate
    <3> QED BY <3>3, <3>5 DEF CheckinInv
  <2>4. CASE Midnight
    <3>1. /\ moment' = 0 /\ day' = 1 - day /\ fired' = {} /\ UNCHANGED <<times, suspended, sign>>
          /\ \A v \in Signer : Signing(v) => sign[v].day = day
          /\ done' = [d \in Day |-> IF d = day /\ \E v \in Signer : Signing(v) THEN done[d] ELSE Unsealed]
      BY <2>4 DEF Midnight, Signing
    <3>2. day \in Day /\ day' \in Day /\ day' # day
      BY <3>1 DEF CheckinInv, SignTypes, Day
    <3>3. Unsealed \in [Scope -> Nat]
      BY DEF Unsealed
    <3>4. SignTypes'
      BY <3>1, <3>2, <3>3 DEF CheckinInv, SignTypes
    <3>5. done'[day'] = Unsealed /\ ((\E v \in Signer : Signing(v)) => done'[day] = done[day])
      BY <3>1, <3>2
    <3>6. \A v \in Signer : Signing(v) => sign'[v].day # day'
      BY <3>1, <3>2
    <3>7. \A v \in Signer : sign[v].at = "pace" => Signing(v)
      BY DEF Signing
    <3>8. ASSUME NEW v \in Signer, sign[v].at = "pace"
          PROVE  done'[sign[v].day][Here(v)] <= sign[v].since
      BY <3>1, <3>5, <3>7, <3>8 DEF CheckinInv, SealInv
    <3>9. SealInv'
      BY <1>7, <3>1, <3>5, <3>6, <3>8 DEF CheckinInv, SealInv, Signing, Here, Candidate
    <3> QED BY <3>4, <3>9 DEF CheckinInv
  <2> QED BY <1>7, <2>1, <2>2, <2>3, <2>4 DEF World, CheckinWorld, Kept
<1>8. CASE Restart
  <2>1. /\ fired' = {} /\ done' = [d \in Day |-> Unsealed] /\ sign' = [w \in Signer |-> AtRest]
        /\ UNCHANGED <<day, moment, times, suspended>>
    BY <1>8 DEF Restart, CheckinStarts
  <2>2. Unsealed \in [Scope -> Nat] /\ AtRest \in SignState /\ AtRest.at = "idle"
    BY DEF Unsealed, AtRest, SignState, Day
  <2>3. sign' \in [Signer -> SignState] /\ \A w \in Signer : sign'[w].at = "idle"
    BY <2>1, <2>2
  <2>4. SignTypes'
    BY <2>1, <2>2, <2>3 DEF CheckinInv, SignTypes
  <2>5. SealInv'
    BY <2>3 DEF SealInv, Signing
  <2> QED BY <2>4, <2>5 DEF CheckinInv
<1>9. CASE Kept("none") /\ UNCHANGED rounds
  BY <1>9, <1>3 DEF Kept
<1>10. CASE UNCHANGED taskVars
  BY <1>10, <1>3 DEF taskVars, runnerVars
<1> QED BY <1>4, <1>5, <1>6, <1>7, <1>8, <1>9, <1>10 DEF Moves

-----------------------------------------------------------------------------
(* Alerting, whose round is one at a time, whoever it belongs to.          *)

AlertInv ==
  /\ rows \in [Topic -> SUBSET Row]
  /\ active \subseteq Topic
  /\ watch \in [at : {"idle", "hits", "deliver", "misses"}, left : SUBSET Topic,
                on : SUBSET Topic, seen : SUBSET Topic]
  /\ OpenAlertsWatched

LEMMA AlertBegun == TasksInit => AlertInv
<1> SUFFICES ASSUME AlertInit
             PROVE  AlertInv
  BY DEF TasksInit
<1> QED BY DEF AlertInit, AlertInv, OpenAlertsWatched, Open, Quiet

\* An older row is open as it was.
LEMMA Older ==
  ASSUME NEW r \in Row, NEW n \in 0 .. Keep
  PROVE  [r EXCEPT !.age = n] \in Row /\ [r EXCEPT !.age = n].open = r.open
BY DEF Row

LEMMA Resolving ==
  ASSUME NEW r \in Row
  PROVE  Closed(r) \in Row /\ ~Closed(r).open
BY DEF Row, Closed

LEMMA WatchStepSound ==
  ASSUME AlertInv, WatchStep
  PROVE  AlertInv'
<1> DEFINE Watch == [at : {"idle", "hits", "deliver", "misses"}, left : SUBSET Topic,
                     on : SUBSET Topic, seen : SUBSET Topic]
<1>1. watch \in Watch /\ rows \in [Topic -> SUBSET Row] /\ active \subseteq Topic
      /\ \A t \in Topic : (\E r \in rows[t] : r.open) => t \in active
  BY DEF AlertInv, OpenAlertsWatched, Open
<1>2. ASSUME NEW t \in Topic, Hit(t)
      PROVE  AlertInv'
  <2>1. /\ UNCHANGED <<rows, active>>
        /\ \/ watch' = [watch EXCEPT !.left = watch.left \ {t}]
           \/ watch' = [watch EXCEPT !.at = "deliver", !.left = watch.left \ {t}, !.on = {t}]
    BY <1>2 DEF Hit
  <2>2. watch.left \ {t} \in SUBSET Topic
    BY <1>1
  <2>3. [watch EXCEPT !.left = watch.left \ {t}] \in Watch
    BY <1>1, <2>2
  <2>4. [watch EXCEPT !.at = "deliver", !.left = watch.left \ {t}, !.on = {t}] \in Watch
    BY <1>1, <2>2
  <2>5. watch' \in Watch
    BY <2>1, <2>3, <2>4
  <2> QED BY <1>1, <2>1, <2>5 DEF AlertInv, OpenAlertsWatched, Open
<1>3. ASSUME NEW t \in Topic, Deliver(t)
      PROVE  AlertInv'
  <2> DEFINE r == [age |-> 0, open |-> TRUE]
  <2>1. rows' = [rows EXCEPT ![t] = rows[t] \cup {r}] /\ active' = active \cup {t}
    BY <1>3 DEF Deliver
  <2>2. watch' \in Watch
    BY <1>1, <1>3 DEF Deliver
  <2>3. r \in Row
    BY AlertConstants DEF Row
  <2> HIDE DEF r
  <2>4. rows' \in [Topic -> SUBSET Row] /\ \A s \in Topic : s # t => rows'[s] = rows[s]
    BY <1>1, <2>1, <2>3
  <2>5. \A s \in Topic : (\E q \in rows'[s] : q.open) => s \in active'
    BY <1>1, <2>1, <2>4
  <2> QED BY <1>1, <2>1, <2>2, <2>4, <2>5 DEF AlertInv, OpenAlertsWatched, Open
<1>4. ASSUME NEW t \in Topic, Miss(t)
      PROVE  AlertInv'
  <2>1. watch' \in Watch
    BY <1>1, <1>4 DEF Miss
  <2>2. CASE UNCHANGED <<rows, active>>
    BY <1>1, <2>1, <2>2 DEF AlertInv, OpenAlertsWatched, Open
  <2>3. CASE active' = active \ {t} /\ rows' = [rows EXCEPT ![t] = Resolved(t)]
    <3>1. Resolved(t) \subseteq Row /\ \A q \in Resolved(t) : ~q.open
      <4>1. \A r \in rows[t] : r \in Row
        BY <1>1
      <4>2. \A r \in rows[t] : Closed(r) \in Row /\ ~Closed(r).open
        BY <4>1, Resolving
      <4> QED BY <4>2 DEF Resolved
    <3>2. rows' \in [Topic -> SUBSET Row] /\ \A s \in Topic : s # t => rows'[s] = rows[s]
      BY <1>1, <2>3, <3>1
    <3>3. rows'[t] = Resolved(t)
      BY <1>1, <2>3
    <3>4. \A s \in Topic : (\E q \in rows'[s] : q.open) => s \in active'
      BY <1>1, <2>3, <3>1, <3>2, <3>3
    <3> QED BY <1>1, <2>1, <2>3, <3>2, <3>4 DEF AlertInv, OpenAlertsWatched, Open
  <2> QED BY <1>4, <2>2, <2>3 DEF Miss
<1>5. CASE TurnToMisses
  <2>1. UNCHANGED <<rows, active>> /\ watch' \in Watch
    BY <1>1, <1>5 DEF TurnToMisses
  <2> QED BY <1>1, <2>1 DEF AlertInv, OpenAlertsWatched, Open
<1> QED BY <1>2, <1>3, <1>4, <1>5 DEF WatchStep

LEMMA AlertStepSound ==
  ASSUME AlertInv, Moves
  PROVE  AlertInv'
<1> DEFINE Watch == [at : {"idle", "hits", "deliver", "misses"}, left : SUBSET Topic,
                     on : SUBSET Topic, seen : SUBSET Topic]
<1>1. watch \in Watch /\ rows \in [Topic -> SUBSET Row] /\ active \subseteq Topic
      /\ \A t \in Topic : (\E r \in rows[t] : r.open) => t \in active
  BY DEF AlertInv, OpenAlertsWatched, Open
<1>2. CASE UNCHANGED alertVars
  BY <1>1, <1>2 DEF AlertInv, OpenAlertsWatched, Open, alertVars
<1>3. Quiet \in Watch
  BY DEF Quiet
<1>4. ASSUME NEW k \in assembled, NEW by \in Runs, Begins(k, by)
      PROVE  AlertInv'
  <2>1. Opens(k, by)
    BY <1>4 DEF Begins
  <2>2. CASE k # "alert"
    BY <2>1, <2>2, <1>2 DEF Opens, Kept
  <2>3. CASE k = "alert"
    <3> DEFINE holding == {t \in Topic : Failing(t)}
    <3>1. WatchBegins(holding)
      BY <2>1, <2>3 DEF Opens
    <3>2. holding \subseteq Topic
      OBVIOUS
    <3> HIDE DEF holding
    <3>3. UNCHANGED <<rows, active>> /\ watch' \in Watch
      BY <1>3, <3>1, <3>2 DEF WatchBegins
    <3> QED BY <1>1, <3>3 DEF AlertInv, OpenAlertsWatched, Open
  <2> QED BY <2>2, <2>3
<1>5. ASSUME NEW k \in assembled, NEW by \in Runs, GoesOn(k, by)
      PROVE  AlertInv'
  <2>1. CASE k # "alert"
    BY <1>5, <2>1, <1>2 DEF GoesOn, Goes, Kept
  <2>2. CASE k = "alert"
    BY <1>5, <2>2, WatchStepSound DEF GoesOn, Goes
  <2> QED BY <2>1, <2>2
<1>6. ASSUME NEW k \in assembled, NEW by \in Runs, NEW verdict \in {"ok", "failed", "noop"}, Ends(k, by, verdict)
      PROVE  AlertInv'
  <2>1. Leaves(k, by, verdict)
    BY <1>6 DEF Ends
  <2>2. CASE k # "alert"
    BY <2>1, <2>2, <1>2 DEF Leaves, Kept
  <2>3. CASE k = "alert"
    <3>1. UNCHANGED <<rows, active>> /\ watch' = Quiet
      BY <2>1, <2>3 DEF Leaves, WatchLeaves
    <3> QED BY <1>1, <1>3, <3>1 DEF AlertInv, OpenAlertsWatched, Open
  <2> QED BY <2>2, <2>3
<1>7. CASE World
  <2>1. CASE UNCHANGED alertVars
    BY <2>1, <1>2
  <2>2. ASSUME NEW t \in Topic, CloseRow(t) \/ Prune(t)
        PROVE  AlertInv'
    <3>1. UNCHANGED <<active, watch>> /\ \A s \in Topic : s # t => rows'[s] = rows[s]
      BY <1>1, <2>2 DEF CloseRow, Prune
    <3>2. /\ rows'[t] \subseteq Row /\ rows' \in [Topic -> SUBSET Row]
          /\ \A q \in rows'[t] : q.open => q \in rows[t]
      <4>1. CASE CloseRow(t)
        <5>1. PICK r \in Open(t) : rows' = [rows EXCEPT ![t] = (rows[t] \ {r}) \cup {Closed(r)}]
          BY <4>1 DEF CloseRow
        <5>2. r \in Row
          BY <1>1 DEF Open
        <5>3. Closed(r) \in Row /\ ~Closed(r).open
          BY <5>2, Resolving
        <5> QED BY <1>1, <5>1, <5>3
      <4>2. CASE Prune(t)
        BY <1>1, <4>2 DEF Prune
      <4> QED BY <2>2, <4>1, <4>2
    <3>3. \A s \in Topic : (\E q \in rows'[s] : q.open) => s \in active
      BY <1>1, <3>1, <3>2
    <3> QED BY <1>1, <3>1, <3>2, <3>3 DEF AlertInv, OpenAlertsWatched, Open
  <2>3. CASE RowsAge
    <3>1. /\ UNCHANGED <<active, watch>>
          /\ rows' = [t \in Topic |-> {[r EXCEPT !.age = More(r.age, Keep)] : r \in rows[t]}]
      BY <2>3 DEF RowsAge
    <3>2. ASSUME NEW r \in Row
          PROVE  More(r.age, Keep) \in 0 .. Keep
      <4>1. r.age \in 0 .. Keep /\ Keep \in Nat
        BY AlertConstants DEF Row
      <4> QED BY <4>1 DEF More
    <3>3. ASSUME NEW r \in Row
          PROVE  [r EXCEPT !.age = More(r.age, Keep)] \in Row /\ [r EXCEPT !.age = More(r.age, Keep)].open = r.open
      BY <3>2, Older
    <3>4. \A t \in Topic : \A r \in rows[t] : r \in Row
      BY <1>1
    <3>5. rows' \in [Topic -> SUBSET Row]
      BY <3>1, <3>3, <3>4
    <3>6. \A t \in Topic : \A q \in rows'[t] : q.open => \E r \in rows[t] : r.open
      BY <3>1, <3>3, <3>4
    <3> QED BY <1>1, <3>1, <3>5, <3>6 DEF AlertInv, OpenAlertsWatched, Open
  <2> QED BY <1>7, <2>1, <2>2, <2>3 DEF World, AlertWorld, Kept
<1>8. CASE Restart
  <2>1. UNCHANGED rows /\ active' = Rebuilt /\ watch' = Quiet
    BY <1>8 DEF Restart, AlertStarts
  <2> QED BY <1>1, <1>3, <2>1 DEF AlertInv, OpenAlertsWatched, Open, Rebuilt
<1>9. CASE Kept("none")
  BY <1>9, <1>2 DEF Kept
<1>10. CASE UNCHANGED taskVars
  BY <1>10, <1>2 DEF taskVars
<1> QED BY <1>4, <1>5, <1>6, <1>7, <1>8, <1>9, <1>10 DEF Moves

-----------------------------------------------------------------------------
(* The growth centre.  A walk changes what it carries only together with   *)
(* what was paid and what is booked.                                       *)

GrowState ==
  [at : {"idle", "walk", "ask", "record", "days"} \cup {Deeds[i] : i \in DOMAIN Deeds},
   next : Nat \ {0}, live : SUBSET Account, seen : SUBSET Scope, from : Int, credit : Nat]

Strolling(g) == g.at \in {"idle", "walk"}

\* What a walk in state g carries for an account.
Holds(g, s) == IF ~Strolling(g) /\ ScopeOf[Accounts[g.next]] = s THEN g.credit ELSE 0

\* Nothing is in hand between two accounts, and nothing is booked that was not paid.
GrowthInv ==
  /\ grow \in [Grower -> GrowState]
  /\ unbooked \in [Scope -> Int]
  /\ \A w \in Grower : IF Strolling(grow[w]) THEN grow[w].credit = 0
                                             ELSE grow[w].next <= Len(Accounts)
  /\ OnlyPaidIsBooked

LEMMA CarriedHolds ==
  ASSUME NEW s
  PROVE  Carried(s) = Holds(grow["loop"], s) + Holds(grow["page"], s) + Holds(grow["own"], s)
BY DEF Carried, Brings, AtBed, Bed, Holds, Strolling

LEMMA AtRestThen ==
  Resting \in GrowState /\ Strolling(Resting) /\ Resting.credit = 0 /\ Resting.at = "idle"
BY DEF Resting, GrowState, Strolling

LEMMA BedScope ==
  ASSUME NEW n \in Nat \ {0}, n <= Len(Accounts)
  PROVE  ScopeOf[Accounts[n]] \in Scope
<1>1. Len(Accounts) \in Nat /\ Accounts \in [1 .. Len(Accounts) -> Account]
  BY CheckinConstants
<1>2. n \in 1 .. Len(Accounts)
  BY <1>1
<1>3. Accounts[n] \in Account
  BY <1>1, <1>2
<1> QED BY <1>3, CheckinConstants

LEMMA HoldsCounts ==
  ASSUME NEW g \in GrowState, NEW s
  PROVE  Holds(g, s) \in Nat
BY DEF Holds, GrowState

\* A walk whose gain for each account is covered by what was paid.
LEMMA WalkMoves ==
  ASSUME GrowthInv, NEW w \in Grower, NEW new \in GrowState,
         grow' = [grow EXCEPT ![w] = new],
         IF Strolling(new) THEN new.credit = 0 ELSE new.next <= Len(Accounts),
         unbooked' \in [Scope -> Int],
         \A s \in Scope : Holds(new, s) + unbooked[s] <= Holds(grow[w], s) + unbooked'[s]
  PROVE  GrowthInv'
<1>1. /\ grow' \in [Grower -> GrowState] /\ grow'[w] = new
      /\ \A v \in Grower : v # w => grow'[v] = grow[v]
  BY DEF GrowthInv
<1>2. \A v \in Grower : IF Strolling(grow'[v]) THEN grow'[v].credit = 0
                                               ELSE grow'[v].next <= Len(Accounts)
  BY <1>1 DEF GrowthInv
<1>3. ASSUME NEW s \in Scope
      PROVE  Holds(grow'["loop"], s) + Holds(grow'["page"], s) + Holds(grow'["own"], s) <= unbooked'[s]
  <2>1. \A v \in Grower : Holds(grow[v], s) \in Nat /\ Holds(grow'[v], s) \in Nat
    BY <1>1, HoldsCounts DEF GrowthInv
  <2>2. Holds(grow["loop"], s) + Holds(grow["page"], s) + Holds(grow["own"], s) <= unbooked[s]
    BY CarriedHolds DEF GrowthInv, OnlyPaidIsBooked
  <2>3. unbooked[s] \in Int /\ unbooked'[s] \in Int
    BY DEF GrowthInv
  <2>4. Holds(grow'[w], s) + unbooked[s] <= Holds(grow[w], s) + unbooked'[s]
    BY <1>1
  <2>5. \A v \in Grower : v # w => Holds(grow'[v], s) = Holds(grow[v], s)
    BY <1>1
  <2>6. CASE w = "loop"
    BY <2>1, <2>2, <2>3, <2>4, <2>5, <2>6 DEF Grower
  <2>7. CASE w = "page"
    BY <2>1, <2>2, <2>3, <2>4, <2>5, <2>7 DEF Grower
  <2>8. CASE w = "own"
    BY <2>1, <2>2, <2>3, <2>4, <2>5, <2>8 DEF Grower
  <2> QED BY <2>6, <2>7, <2>8 DEF Grower
<1>4. OnlyPaidIsBooked'
  BY <1>3 DEF OnlyPaidIsBooked, Carried, Brings, AtBed, Bed, Holds, Strolling
<1> QED BY <1>1, <1>2, <1>4 DEF GrowthInv

LEMMA DeedNames ==
  ASSUME NEW i \in DOMAIN Deeds
  PROVE  /\ Deeds[i] \notin {"idle", "walk", "ask", "record", "days"}
         /\ \A how : From(Deeds[i], how) \in Int
<1>1. DOMAIN Deeds = 1 .. 8 /\ Deeds[3] = "accept" /\ Deeds[5] = "card"
  BY DEF Deeds
<1>2. Deeds[i] \notin {"idle", "walk", "ask", "record", "days"}
  BY <1>1 DEF Deeds
<1>3. \A j \in 1 .. 8 : Nth(Deeds[j]) \in Int
  <2> SUFFICES ASSUME NEW j \in 1 .. 8
               PROVE  Nth(Deeds[j]) \in 1 .. 8
    OBVIOUS
  <2>1. \E m \in DOMAIN Deeds : Deeds[m] = Deeds[j]
    BY <1>1
  <2> QED BY <1>1, <2>1 DEF Nth
<1>4. Nth("accept") \in Int /\ Nth("card") \in Int /\ Nth(Deeds[i]) + 1 \in Int
  BY <1>1, <1>3
<1> QED BY <1>2, <1>4 DEF From

\* A step that neither is paid nor books, of a walk with the same in its hand.
LEMMA WalksOn ==
  ASSUME GrowthInv, NEW w \in Grower, NEW new \in GrowState,
         grow' = [grow EXCEPT ![w] = new], UNCHANGED unbooked,
         new.credit = grow[w].credit,
         Strolling(grow[w]) \/ Strolling(new) => new.credit = 0,
         ~Strolling(new) => new.next <= Len(Accounts),
         ~Strolling(grow[w]) => new.next = grow[w].next
  PROVE  GrowthInv'
<1>1. grow[w] \in GrowState /\ unbooked \in [Scope -> Int]
  BY DEF GrowthInv
<1>2. ASSUME NEW s \in Scope
      PROVE  Holds(new, s) <= Holds(grow[w], s)
  <2>1. CASE Strolling(grow[w]) \/ Strolling(new)
    BY <2>1, <1>1, HoldsCounts DEF Holds
  <2>2. CASE ~Strolling(grow[w]) /\ ~Strolling(new)
    <3>1. Holds(new, s) = Holds(grow[w], s)
      BY <2>2 DEF Holds
    <3> QED BY <3>1, <1>1, HoldsCounts
  <2> QED BY <2>1, <2>2
<1>3. \A s \in Scope : Holds(new, s) \in Nat /\ Holds(grow[w], s) \in Nat /\ unbooked[s] \in Int
  BY <1>1, HoldsCounts
<1>4. \A s \in Scope : Holds(new, s) + unbooked[s] <= Holds(grow[w], s) + unbooked'[s]
  BY <1>2, <1>3
<1> QED BY <1>1, <1>4, WalkMoves

LEMMA GrowthStepSound ==
  ASSUME GrowthInv, NEW w \in Grower, GrowthStep(w)
  PROVE  GrowthInv'
<1> DEFINE g == grow[w]
<1>1. /\ g \in GrowState /\ g.next \in Nat \ {0} /\ g.credit \in Nat
      /\ IF Strolling(g) THEN g.credit = 0 ELSE g.next <= Len(Accounts)
      /\ unbooked \in [Scope -> Int]
  BY DEF GrowthInv, GrowState
<1>2. Bed(w) = ScopeOf[Accounts[g.next]]
  BY DEF Bed
<1>3. CASE PassesBy(w)
  <2> DEFINE n == g.next + 1
             new == [g EXCEPT !.next = n]
  <2>1. grow' = [grow EXCEPT ![w] = new] /\ unbooked' = unbooked /\ g.at = "walk"
    BY <1>3 DEF PassesBy, Walked
  <2>2. n \in Nat \ {0}
    BY <1>1
  <2> HIDE DEF n
  <2>3. new \in GrowState /\ new.at = "walk" /\ new.credit = g.credit
    BY <1>1, <2>1, <2>2 DEF GrowState
  <2>4. Strolling(g) /\ Strolling(new)
    BY <2>1, <2>3 DEF Strolling
  <2> HIDE DEF new
  <2> QED BY <1>1, <2>1, <2>3, <2>4, WalksOn
<1>4. CASE TakesUp(w)
  <2> DEFINE new == [g EXCEPT !.at = "ask", !.seen = @ \cup {Bed(w)}]
  <2>1. grow' = [grow EXCEPT ![w] = new] /\ unbooked' = unbooked /\ g.at = "walk" /\ g.next <= Len(Accounts)
    BY <1>4 DEF TakesUp, Walked
  <2>2. Bed(w) \in Scope
    BY <1>1, <1>2, <2>1, BedScope
  <2>3. new \in GrowState /\ new.at = "ask" /\ new.credit = g.credit /\ new.next = g.next
    BY <1>1, <2>2 DEF GrowState
  <2>4. Strolling(g) /\ ~Strolling(new)
    BY <2>1, <2>3 DEF Strolling
  <2> HIDE DEF new
  <2> QED BY <1>1, <2>1, <2>3, <2>4, WalksOn
<1>5. ASSUME NEW at \in {"record"} \cup {Deeds[i] : i \in DOMAIN Deeds},
             grow' = [grow EXCEPT ![w].at = at], g.at = "ask", UNCHANGED unbooked
      PROVE  GrowthInv'
  <2> DEFINE new == [g EXCEPT !.at = at]
  <2>1. grow' = [grow EXCEPT ![w] = new]
    BY <1>5
  <2>2. new \in GrowState /\ new.at = at /\ new.credit = g.credit /\ new.next = g.next
    BY <1>1 DEF GrowState
  <2>3. at \notin {"idle", "walk"}
    BY DeedNames
  <2>4. ~Strolling(g) /\ ~Strolling(new)
    BY <1>5, <2>2, <2>3 DEF Strolling
  <2> HIDE DEF new
  <2> QED BY <1>1, <1>5, <2>1, <2>2, <2>4, WalksOn
<1>6. ASSUME NEW i \in DOMAIN Deeds, Asks(w, Deeds[i])
      PROVE  GrowthInv'
  BY <1>5, <1>6 DEF Asks
<1>7. CASE AsksInVain(w)
  BY <1>5, <1>7 DEF AsksInVain
<1>8. ASSUME NEW i \in DOMAIN Deeds, NEW how \in Answer, Does(w, Deeds[i], how)
      PROVE  GrowthInv'
  <2> DEFINE deed == Deeds[i]
             c == g.credit + Credited(deed, how)
             to == IF how = "unknown" THEN "days"
                   ELSE IF how = "denied" /\ deed \in {"claim", "accept", "reward"} THEN "record"
                   ELSE "ask"
             new == [g EXCEPT !.credit = c, !.from = From(deed, how), !.at = to]
  <2>1. /\ grow' = [grow EXCEPT ![w] = new]
        /\ unbooked' = IF how \in {"heard", "unheard", "vague"} /\ Paid(deed)
                       THEN [unbooked EXCEPT ![Bed(w)] = @ + 1] ELSE unbooked
        /\ g.at = deed \/ g.at = "days"
    BY <1>8 DEF Does
  <2>2. ~Strolling(g)
    BY <2>1, DeedNames DEF Strolling
  <2>3. Bed(w) \in Scope
    BY <1>1, <1>2, <2>2, BedScope
  <2>4. /\ Credited(deed, how) \in {0, 1}
        /\ Credited(deed, how) = 1 => Paid(deed) /\ how = "heard"
    BY DEF Credited
  <2>5. c \in Nat /\ From(deed, how) \in Int /\ to \in {"days", "record", "ask"}
    BY <1>1, <2>4, DeedNames
  <2> HIDE DEF c, to
  <2>6. new \in GrowState /\ new.at = to /\ new.credit = c /\ new.next = g.next
    BY <1>1, <2>5 DEF GrowState
  <2>7. ~Strolling(new)
    BY <2>5, <2>6 DEF Strolling
  <2> HIDE DEF new
  <2>8. unbooked' \in [Scope -> Int]
    BY <1>1, <2>1, <2>3
  <2>9. ASSUME NEW s \in Scope
        PROVE  Holds(new, s) + unbooked[s] <= Holds(g, s) + unbooked'[s]
    <3>1. unbooked[s] \in Int /\ unbooked'[s] \in Int
      BY <1>1, <2>8
    <3>2. CASE s # Bed(w)
      <4>1. Holds(new, s) = 0 /\ Holds(g, s) = 0 /\ unbooked'[s] = unbooked[s]
        BY <1>1, <1>2, <2>1, <2>6, <3>2 DEF Holds
      <4> QED BY <3>1, <4>1
    <3>3. CASE s = Bed(w)
      <4>1. Holds(new, s) = c /\ Holds(g, s) = g.credit
        BY <1>2, <2>2, <2>6, <2>7, <3>3 DEF Holds
      <4>2. CASE how \in {"heard", "unheard", "vague"} /\ Paid(deed)
        <5>1. unbooked'[s] = unbooked[s] + 1
          BY <1>1, <2>1, <3>3, <4>2
        <5> QED BY <1>1, <2>4, <3>1, <4>1, <5>1 DEF c
      <4>3. CASE ~(how \in {"heard", "unheard", "vague"} /\ Paid(deed))
        <5>1. unbooked'[s] = unbooked[s] /\ Credited(deed, how) = 0
          BY <2>1, <2>4, <4>3
        <5> QED BY <1>1, <3>1, <4>1, <5>1 DEF c
      <4> QED BY <4>2, <4>3
    <3> QED BY <3>2, <3>3
  <2> QED BY <2>1, <2>6, <2>7, <1>1, <2>2, <2>8, <2>9, WalkMoves
<1>9. CASE Books(w)
  <2> DEFINE new == IF w = "own" THEN Resting ELSE Onward(w)
  <2>1. /\ grow' = [grow EXCEPT ![w] = new] /\ g.at = "record"
        /\ unbooked' = [unbooked EXCEPT ![Bed(w)] = @ - g.credit]
    BY <1>9 DEF Books
  <2>2. ~Strolling(g)
    BY <2>1 DEF Strolling
  <2>3. Bed(w) \in Scope
    BY <1>1, <1>2, <2>2, BedScope
  <2>4. Onward(w) \in GrowState /\ Onward(w).at = "walk" /\ Onward(w).credit = 0
    <3> DEFINE n == g.next + 1
    <3>1. n \in Nat \ {0}
      BY <1>1
    <3> DEFINE part == [g EXCEPT !.at = "walk", !.next = n]
    <3>2. Onward(w) = [part EXCEPT !.from = 1, !.credit = 0]
      BY <1>1 DEF Onward, GrowState
    <3> HIDE DEF n
    <3>3. part \in GrowState /\ part.at = "walk"
      BY <1>1, <3>1 DEF GrowState
    <3> HIDE DEF part
    <3> DEFINE more == [part EXCEPT !.from = 1]
    <3>4. Onward(w) = [more EXCEPT !.credit = 0]
      BY <3>2
    <3>5. more \in GrowState /\ more.at = "walk"
      BY <3>3 DEF GrowState
    <3> HIDE DEF more
    <3>6. Onward(w) \in GrowState
      BY <3>4, <3>5 DEF GrowState
    <3>7. Onward(w).at = more.at /\ Onward(w).credit = 0
      BY <3>4, <3>5 DEF GrowState
    <3> QED BY <3>5, <3>6, <3>7
  <2>5. new \in GrowState /\ Strolling(new) /\ new.credit = 0
    BY <2>4, AtRestThen DEF Strolling
  <2> HIDE DEF new
  <2>6. unbooked' \in [Scope -> Int]
    BY <1>1, <2>1, <2>3
  <2>7. ASSUME NEW s \in Scope
        PROVE  Holds(new, s) + unbooked[s] <= Holds(g, s) + unbooked'[s]
    <3>1. unbooked[s] \in Int /\ Holds(new, s) = 0
      BY <1>1, <2>5 DEF Holds
    <3>2. CASE s # Bed(w)
      <4>1. Holds(g, s) = 0 /\ unbooked'[s] = unbooked[s]
        BY <1>1, <1>2, <2>1, <3>2 DEF Holds
      <4> QED BY <3>1, <4>1
    <3>3. CASE s = Bed(w)
      <4>1. Holds(g, s) = g.credit /\ unbooked'[s] = unbooked[s] - g.credit
        BY <1>1, <1>2, <2>1, <2>2, <3>3 DEF Holds
      <4> QED BY <1>1, <3>1, <4>1
    <3> QED BY <3>2, <3>3
  <2> QED BY <1>1, <2>1, <2>5, <2>6, <2>7, WalkMoves
<1> QED BY <1>3, <1>4, <1>6, <1>7, <1>8, <1>9 DEF GrowthStep

\* A walk that is set off or left has nothing in its hand.
LEMMA EmptyHanded ==
  ASSUME GrowthInv, NEW w, NEW new \in GrowState,
         grow' = [grow EXCEPT ![w] = new], UNCHANGED unbooked,
         new.credit = 0, ~Strolling(new) => new.next <= Len(Accounts)
  PROVE  GrowthInv'
<1>1. CASE w \notin Grower
  <2>1. grow' = grow
    BY <1>1 DEF GrowthInv
  <2> QED BY <2>1 DEF GrowthInv, OnlyPaidIsBooked, Carried, Brings, AtBed, Bed
<1>2. CASE w \in Grower
  <2>1. grow[w] \in GrowState /\ unbooked \in [Scope -> Int]
    BY <1>2 DEF GrowthInv
  <2>2. \A s \in Scope : Holds(new, s) = 0 /\ Holds(grow[w], s) \in Nat /\ unbooked[s] \in Int
    BY <2>1, HoldsCounts DEF Holds
  <2>3. \A s \in Scope : Holds(new, s) + unbooked[s] <= Holds(grow[w], s) + unbooked'[s]
    BY <2>2
  <2> QED BY <1>2, <2>1, <2>3, WalkMoves
<1> QED BY <1>1, <1>2

LEMMA GardenStepSound ==
  ASSUME GrowthInv, Moves
  PROVE  GrowthInv'
<1>1. CASE UNCHANGED <<grow, unbooked>>
  BY <1>1 DEF GrowthInv, OnlyPaidIsBooked, Carried, Brings, AtBed, Bed
<1>2. CASE UNCHANGED growthVars
  BY <1>1, <1>2 DEF growthVars
<1>3. ASSUME NEW k \in assembled, NEW by \in Runs, Begins(k, by)
      PROVE  GrowthInv'
  <2>1. CASE k # "growth"
    BY <1>2, <1>3, <2>1 DEF Begins, Opens, Kept
  <2>2. CASE k = "growth"
    <3> DEFINE new == [Resting EXCEPT !.at = "walk", !.live = Account \ suspended]
    <3>1. grow' = [grow EXCEPT ![by] = new] /\ unbooked' = unbooked
      BY <1>3, <2>2 DEF Begins, Opens, GrowthBegins
    <3>2. new \in GrowState /\ new.credit = 0 /\ new.at = "walk"
      BY AtRestThen DEF GrowState
    <3>3. Strolling(new)
      BY <3>2 DEF Strolling
    <3> HIDE DEF new
    <3> QED BY <3>1, <3>2, <3>3, EmptyHanded
  <2> QED BY <2>1, <2>2
<1>4. ASSUME NEW k \in assembled, NEW by \in Runs, GoesOn(k, by), by = "start" => k \notin {"checkin", "growth"}
      PROVE  GrowthInv'
  <2>1. CASE k # "growth"
    BY <1>2, <1>4, <2>1 DEF GoesOn, Goes, Kept
  <2>2. CASE k = "growth"
    BY <1>4, <2>2, GrowthStepSound DEF GoesOn, Goes, Runs, Grower
  <2> QED BY <2>1, <2>2
<1>5. ASSUME NEW k \in assembled, NEW by \in Runs, NEW verdict \in {"ok", "failed", "noop"}, Ends(k, by, verdict)
      PROVE  GrowthInv'
  <2>1. CASE k # "growth"
    BY <1>2, <1>5, <2>1 DEF Ends, Leaves, Kept
  <2>2. CASE k = "growth"
    <3>1. grow' = [grow EXCEPT ![by] = Resting] /\ unbooked' = unbooked
      BY <1>5, <2>2 DEF Ends, Leaves, GrowthLeaves
    <3> QED BY <3>1, AtRestThen, EmptyHanded
  <2> QED BY <2>1, <2>2
<1>6. CASE World
  <2>1. CASE UNCHANGED growthVars
    BY <2>1, <1>2
  <2>2. ASSUME NEW s \in Scope, Grows(s)
        PROVE  GrowthInv'
    BY <1>1, <2>2 DEF Grows
  <2>3. CASE GrowthStep("own")
    BY <2>3, GrowthStepSound DEF Grower
  <2>4. ASSUME NEW i \in 1 .. Len(Accounts), Presses(i)
        PROVE  GrowthInv'
    <3> DEFINE new == [Resting EXCEPT !.at = "ask", !.next = i]
    <3>1. grow' = [grow EXCEPT !["own"] = new] /\ unbooked' = unbooked
      BY <2>4 DEF Presses
    <3>2. i \in Nat \ {0} /\ i <= Len(Accounts)
      BY CheckinConstants
    <3>3. new \in GrowState /\ new.credit = 0 /\ new.next = i
      BY <3>2, AtRestThen DEF GrowState
    <3> HIDE DEF new
    <3> QED BY <3>1, <3>2, <3>3, EmptyHanded
  <2> QED BY <1>6, <2>1, <2>2, <2>3, <2>4 DEF World, GardenWorld, Kept
<1>7. CASE Restart
  <2>1. grow' = [w \in Grower |-> Resting] /\ unbooked' = unbooked
    BY <1>7 DEF Restart, GrowthStarts
  <2>2. grow' \in [Grower -> GrowState] /\ \A w \in Grower : Strolling(grow'[w]) /\ grow'[w].credit = 0
    BY <2>1, AtRestThen
  <2>3. ASSUME NEW s \in Scope
        PROVE  /\ 0 <= unbooked'[s]
               /\ Holds(grow'["loop"], s) = 0 /\ Holds(grow'["page"], s) = 0 /\ Holds(grow'["own"], s) = 0
    <3>1. \A w \in Grower : Holds(grow[w], s) \in Nat /\ Holds(grow'[w], s) = 0
      BY <2>2, HoldsCounts DEF GrowthInv, Holds
    <3>2. /\ Holds(grow["loop"], s) + Holds(grow["page"], s) + Holds(grow["own"], s) <= unbooked[s]
          /\ unbooked[s] \in Int
      BY CarriedHolds DEF GrowthInv, OnlyPaidIsBooked
    <3> QED BY <2>1, <3>1, <3>2 DEF Grower
  <2>4. OnlyPaidIsBooked'
    BY <2>3 DEF OnlyPaidIsBooked, Carried, Brings, AtBed, Bed, Holds, Strolling
  <2> QED BY <2>1, <2>2, <2>4 DEF GrowthInv
<1>8. CASE Kept("none") \/ UNCHANGED taskVars
  BY <1>2, <1>8 DEF Kept, taskVars
<1> QED BY <1>3, <1>4, <1>5, <1>6, <1>7, <1>8 DEF Moves

LEMMA GrowthBegun == TasksInit => GrowthInv
<1> SUFFICES ASSUME GrowthInit
             PROVE  GrowthInv
  BY DEF TasksInit
<1>1. unbooked = [s \in Scope |-> 0] /\ grow = [w \in Grower |-> Resting]
  BY DEF GrowthInit
<1>2. grow \in [Grower -> GrowState] /\ \A w \in Grower : Strolling(grow[w]) /\ grow[w].credit = 0
  BY <1>1, AtRestThen
<1>3. \A s \in Scope : Carried(s) = 0
  <2>1. \A s, w : w \in Grower => Holds(grow[w], s) = 0
    BY <1>2 DEF Holds
  <2> QED BY <2>1, CarriedHolds DEF Grower
<1> QED BY <1>1, <1>2, <1>3 DEF GrowthInv, OnlyPaidIsBooked

-----------------------------------------------------------------------------
(* The settings.                                                           *)

\* What a key will be once the batch is written, as far as the batch is not written yet.
Coming(k) ==
  IF k \in left THEN (IF batch[k] = Reset THEN env[k] ELSE batch[k]) ELSE Setting(k)

\* What was checked as a whole stays true of what is still to come.
SettingInv ==
  /\ overrides = Reloaded(stored)
  /\ left \subseteq DOMAIN batch
  /\ \A k \in DOMAIN batch : Allowed(k, batch[k])
  /\ Bounds(batch) # {} => Coming(Low) <= Coming(High)

\* One more row makes true of its key what was to come.
LEMMA RowWritten ==
  ASSUME SettingInv, NEW k \in left, WriteOne(k), NEW j \in Hot
  PROVE  Coming(j)' = Coming(j)
<1> DEFINE one == Restrict(batch, {k})
<1>1. /\ stored' = Applied(stored, one) /\ overrides' = Reloaded(stored') /\ left' = left \ {k}
      /\ env' = env /\ batch' = batch
  BY DEF WriteOne
<1>2. k \in DOMAIN batch /\ k \in Hot /\ batch[k] \in LegalFor[k] \cup {Reset}
  BY DEF SettingInv, Allowed
<1>3. DOMAIN one = {k} /\ one[k] = batch[k]
  BY <1>2 DEF Restrict
<1> HIDE DEF one
<1>4. /\ \A i \in DOMAIN stored' : stored'[i] = IF i \in DOMAIN one THEN one[i] ELSE stored[i]
      /\ \A i : i \in DOMAIN stored' <=>
                  i \in DOMAIN stored \cup DOMAIN one /\ (i \in DOMAIN one => one[i] # Reset)
  BY <1>1 DEF Applied
<1>5. /\ \A i : i \in DOMAIN overrides' <=> i \in Hot /\ i \in DOMAIN stored' /\ stored'[i] \in LegalFor[i]
      /\ \A i \in DOMAIN overrides' : overrides'[i] = stored'[i]
  BY <1>1 DEF Reloaded, Restrict
<1>6. /\ \A i : i \in DOMAIN overrides <=> i \in Hot /\ i \in DOMAIN stored /\ stored[i] \in LegalFor[i]
      /\ \A i \in DOMAIN overrides : overrides[i] = stored[i]
  BY DEF SettingInv, Reloaded, Restrict
<1>7. CASE j = k
  <2>1. Coming(j)' = IF k \in DOMAIN overrides' THEN overrides'[k] ELSE env[k]
    BY <1>1, <1>7 DEF Coming, Setting, InForce
  <2>2. CASE batch[k] = Reset
    BY <1>3, <1>4, <1>5, <1>7, <2>1, <2>2 DEF Coming
  <2>3. CASE batch[k] # Reset
    BY <1>2, <1>3, <1>4, <1>5, <1>7, <2>1, <2>3 DEF Coming
  <2> QED BY <2>2, <2>3
<1>8. CASE j # k
  <2>1. j \in left' <=> j \in left
    BY <1>1, <1>8
  <2>2. /\ j \in DOMAIN stored' <=> j \in DOMAIN stored
        /\ j \in DOMAIN stored' => stored'[j] = stored[j]
    BY <1>3, <1>4, <1>8
  <2>3. /\ j \in DOMAIN overrides' <=> j \in DOMAIN overrides
        /\ j \in DOMAIN overrides => overrides'[j] = overrides[j]
    BY <1>5, <1>6, <2>2
  <2> QED BY <1>1, <2>1, <2>3 DEF Coming, Setting, InForce
<1> QED BY <1>7, <1>8

LEMMA SettingStepSound ==
  ASSUME SettingInv, SettingsStep
  PROVE  SettingInv'
<1>1. ASSUME NEW values, SetMany(values)
      PROVE  SettingInv'
  <2>1. /\ \A k \in DOMAIN values : Allowed(k, values[k])
        /\ batch' = values /\ left' = DOMAIN values
        /\ env' = env /\ stored' = stored /\ overrides' = overrides
        /\ Bounds(values) # {} => Ordered(Applied(overrides, values))
    BY <1>1 DEF SetMany, Fits
  <2>2. ASSUME NEW k
        PROVE  InForce(Applied(overrides, values), k) =
                 IF k \in DOMAIN values THEN (IF values[k] = Reset THEN env[k] ELSE values[k])
                 ELSE InForce(overrides, k)
    BY DEF InForce, Applied
  <2>3. \A k : Coming(k)' = InForce(Applied(overrides, values), k)
    BY <2>1, <2>2 DEF Coming, Setting, InForce
  <2>4. (overrides = Reloaded(stored))' /\ (\A k \in DOMAIN batch : Allowed(k, batch[k]))'
    BY <2>1 DEF SettingInv, Reloaded, Allowed
  <2>5. Bounds(values) # {} => Coming(Low)' <= Coming(High)'
    BY <2>1, <2>3 DEF Ordered
  <2> QED BY <2>1, <2>4, <2>5 DEF SettingInv, Bounds
<1>2. ASSUME NEW k \in left, WriteOne(k)
      PROVE  SettingInv'
  <2>1. Low \in Hot /\ High \in Hot
    BY SettingConstants
  <2>2. Coming(Low)' = Coming(Low) /\ Coming(High)' = Coming(High)
    BY <1>2, <2>1, RowWritten
  <2>3. overrides' = Reloaded(stored)' /\ left' = left \ {k} /\ batch' = batch
    BY <1>2 DEF WriteOne, Reloaded
  <2> QED BY <2>2, <2>3 DEF SettingInv, Allowed, Bounds
<1> QED BY <1>1, <1>2 DEF SettingsStep

LEMMA NothingToCome ==
  ASSUME overrides = Reloaded(stored), batch = <<>>, left = {}
  PROVE  SettingInv
<1>1. DOMAIN batch = {}
  OBVIOUS
<1> QED BY <1>1 DEF SettingInv, Bounds

LEMMA SettingsGoOn ==
  ASSUME RunnerSound, SettingInv, Moves
  PROVE  SettingInv'
<1>1. CASE UNCHANGED settingVars
  BY <1>1 DEF settingVars, SettingInv, Coming, Setting, InForce, Reloaded, Allowed, Bounds
<1>2. ASSUME NEW k, Kept(k), k # "settings"
      PROVE  SettingInv'
  BY <1>1, <1>2 DEF Kept
<1>3. ASSUME NEW k \in assembled, NEW by, Opens(k, by) \/ Goes(k, by) \/ \E verdict : Leaves(k, by, verdict)
      PROVE  SettingInv'
  <2>1. k \in Task
    BY RunnerConstants DEF RunnerSound, RunnerInv
  <2>2. k # "settings"
    BY <2>1, TaskConstants
  <2> QED BY <1>2, <1>3, <2>2 DEF Opens, Goes, Leaves
<1>4. CASE World
  <2>1. CASE SettingsStep
    BY <2>1, SettingStepSound
  <2>2. CASE \E k \in {"refresh", "checkin", "growth", "alert", "retention"} : Kept(k)
    BY <1>2, <2>2
  <2> QED BY <1>4, <2>1, <2>2 DEF World
<1>5. CASE Restart
  <2>1. (overrides = Reloaded(stored))' /\ batch' = <<>> /\ left' = {}
    BY <1>5 DEF Restart, SettingsStart, Reloaded
  <2>2. DOMAIN batch' = {}
    BY <2>1
  <2> QED BY <2>1, <2>2 DEF SettingInv, Bounds
<1>6. CASE Kept("none") \/ UNCHANGED taskVars
  BY <1>1, <1>6 DEF Kept, taskVars
<1> QED BY <1>3, <1>4, <1>5, <1>6 DEF Moves, Begins, GoesOn, Ends

LEMMA SettingsBegun == TasksInit => SettingInv
<1> SUFFICES ASSUME SettingsInit
             PROVE  SettingInv
  BY DEF TasksInit
<1>1. overrides = Reloaded(stored) /\ batch = <<>> /\ left = {}
  BY DEF SettingsInit
<1>2. DOMAIN batch = {}
  BY <1>1
<1> QED BY <1>1, <1>2 DEF SettingInv, Bounds

-----------------------------------------------------------------------------
(* The theorems.                                                           *)

TasksInv ==
  RunnerSound /\ RefreshInv /\ CheckinInv /\ GrowthInv /\ AlertInv /\ SettingInv /\ BooksInv
  /\ tidy \in {"idle", "rollup", "purge", "tidied"}

\* What happens to the books is what they allow for.
LEMMA BooksStepSound ==
  ASSUME Moves
  PROVE  BooksStep \/ UNCHANGED bookVars
<1>1. ASSUME NEW k, Kept(k), k # "retention"
      PROVE  UNCHANGED bookVars
  BY <1>1 DEF Kept
<1>2. ASSUME NEW k, NEW by, Opens(k, by) \/ Goes(k, by) \/ \E verdict : Leaves(k, by, verdict)
      PROVE  UNCHANGED bookVars \/ TidyBegins \/ TidyStep \/ TidyLeaves
  <2>1. CASE k # "retention"
    BY <1>1, <1>2, <2>1 DEF Opens, Goes, Leaves
  <2>2. CASE k = "retention"
    BY <1>2, <2>2 DEF Opens, Goes, Leaves
  <2> QED BY <2>1, <2>2
<1>3. CASE World
  <2>1. CASE BookWorld
    BY <2>1 DEF BookWorld, BooksStep
  <2>2. CASE \E k \in {"refresh", "checkin", "growth", "alert", "settings"} : Kept(k)
    BY <1>1, <2>2
  <2> QED BY <1>3, <2>1, <2>2 DEF World
<1>4. CASE Restart
  BY <1>4 DEF Restart, BooksStep
<1>5. CASE Kept("none") \/ UNCHANGED taskVars
  BY <1>5 DEF Kept, taskVars
<1> QED BY <1>2, <1>3, <1>4, <1>5 DEF Moves, Begins, GoesOn, Ends, BooksStep

LEMMA TidyStays ==
  ASSUME tidy \in {"idle", "rollup", "purge", "tidied"}, BooksStep \/ UNCHANGED bookVars
  PROVE  (tidy \in {"idle", "rollup", "purge", "tidied"})'
BY DEF BooksStep, RecordAny, Record, ScriptStep, SweepBegins, SweepDeletes, SweepOrphans, Reprice,
       RecomputeAll, ScriptDies, ClockTicks, PricesMove, TidyBegins, TidyStep, RollUp, Purge, TidyLeaves,
       BooksStart, bookVars

LEMMA TasksInvBegins == TasksInit => TasksInv
BY RunnerBegins, RefreshBegun, CheckinBegun, GrowthBegun, AlertBegun, SettingsBegun, BooksBegin
   DEF TasksInv, TasksInit, BooksInit

LEMMA TasksInvStays ==
  ASSUME TasksInv, [TasksNext]_taskVars
  PROVE  TasksInv' /\ RowsFit
<1>1. RunnerSound' /\ Moves
  BY StepMoves DEF TasksInv
<1>2. RefreshInv' /\ RowsFit
  BY <1>1, RefreshStepSound DEF TasksInv
<1>3. CheckinInv'
  BY <1>1, CheckinStepSound DEF TasksInv
<1>4. AlertInv'
  BY <1>1, AlertStepSound DEF TasksInv
<1>5. BooksStep \/ UNCHANGED bookVars
  BY <1>1, BooksStepSound
<1>6. BooksInv'
  BY <1>5, BooksGoOn DEF TasksInv
<1>7. (tidy \in {"idle", "rollup", "purge", "tidied"})'
  BY <1>5, TidyStays DEF TasksInv
<1>8. GrowthInv'
  BY <1>1, GardenStepSound DEF TasksInv
<1>9. SettingInv'
  BY <1>1, SettingsGoOn DEF TasksInv
<1> QED BY <1>1, <1>2, <1>3, <1>4, <1>6, <1>7, <1>8, <1>9 DEF TasksInv

\* The types, the marks of the runner and the queues of the edit locks, and: an account is
\* disabled for a new login only while its upstream refuses the token that is stored.
THEOREM DisabledDeservedly == TasksSpec => []HardDisableDeserved
<1>1. TasksInit => TasksInv
  BY TasksInvBegins
<1>2. TasksInv /\ [TasksNext]_taskVars => TasksInv'
  BY TasksInvStays
<1>3. TasksInv => HardDisableDeserved
  <2> SUFFICES ASSUME TasksInv
               PROVE  HardDisableDeserved
    OBVIOUS
  <2>1. RunnerInv /\ QueueInv /\ RowInv /\ AskInv /\ SignTypes /\ AlertInv
    BY DEF TasksInv, RunnerSound, RefreshInv, CheckinInv
  <2>2. TasksTypeOK
    BY <2>1 DEF TasksInv, TasksTypeOK, RunnerInv, QueueInv, RowInv, SignTypes, AlertInv
  <2> QED BY <2>1, <2>2 DEF HardDisableDeserved, AskInv
<1> QED BY <1>1, <1>2, <1>3, PTL DEF TasksSpec

\* A refresh or a switch that awaited its upstream replaces the data it asked with.
THEOREM WritersKeepApart == TasksSpec => NothingOverwritten
<1> DEFINE Good == \A w \in Job \cup Admin :
                     LET c == job[w].on IN
                     /\ job[w].at = "ask"
                     /\ job'[w] # job[w]
                     /\ token'[c] # token[c]
                     => job[w].holds = token[c]
<1>1. TasksInit => TasksInv
  BY TasksInvBegins
<1>2. TasksInv /\ [TasksNext]_taskVars => TasksInv'
  BY TasksInvStays
<1>3. TasksInv /\ [TasksNext]_taskVars => [Good]_taskVars
  <2> SUFFICES ASSUME TasksInv, [TasksNext]_taskVars, NEW w \in Job \cup Admin,
                      job[w].at = "ask", token'[job[w].on] # token[job[w].on]
               PROVE  job[w].holds = token[job[w].on]
    OBVIOUS
  <2>1. RowsFit /\ QueueInv /\ AskInv /\ w \in Writer
    BY TasksInvStays DEF TasksInv, RefreshInv, Writer
  <2>2. job[w].on \in Cred
    BY <2>1 DEF QueueInv
  <2>3. job[w].on \in row
    BY <2>1, <2>2 DEF RowsFit
  <2> QED BY <2>1, <2>3 DEF AskInv
<1> QED BY <1>1, <1>2, <1>3, PTL DEF TasksSpec, NothingOverwritten

\* No call for a scope that is sealed, over all the rounds of a process and past midnight.
THEOREM SealsAlwaysHold == TasksSpec => SealsHold
<1> DEFINE Good == \A w \in Signer :
                     sign[w].at = "pace" /\ sign'[w].at = "call" => done[day][Here(w)] <= moment
<1>1. TasksInit => TasksInv
  BY TasksInvBegins
<1>2. TasksInv /\ [TasksNext]_taskVars => TasksInv'
  BY TasksInvStays
<1>3. TasksInv => [Good]_taskVars
  <2> SUFFICES ASSUME TasksInv, NEW w \in Signer, sign[w].at = "pace"
               PROVE  done[day][Here(w)] <= moment
    OBVIOUS
  <2>1. SignTypes /\ SealInv
    BY DEF TasksInv, CheckinInv
  <2>2. /\ done[sign[w].day][Here(w)] <= sign[w].since
        /\ IF sign[w].day = day THEN sign[w].since <= moment ELSE done[day] = Unsealed
    BY <2>1 DEF SealInv, Signing
  <2>3. Here(w) \in Scope /\ day \in Day /\ moment \in Nat /\ sign[w].since \in Nat
    BY <2>1, HereScope DEF SignTypes, SignState
  <2>4. done[day][Here(w)] \in Nat
    BY <2>1, <2>3 DEF SignTypes
  <2>5. CASE sign[w].day = day
    BY <2>2, <2>3, <2>4, <2>5
  <2>6. CASE sign[w].day # day
    BY <2>2, <2>3, <2>6 DEF Unsealed
  <2> QED BY <2>5, <2>6
<1> QED BY <1>1, <1>2, <1>3, PTL DEF TasksSpec, SealsHold

\* Restarts between any two steps of rounds, scripts and batches lose nothing and make
\* nothing up: what is open in the database is watched again; every settled hour of the
\* books counts all that was recorded in it, also after its events were purged; the growth
\* centre books only what was paid, by whichever walks; and the settings in force are the
\* stored ones, their bounds in order once a batch that sets one is written.
THEOREM NothingIsLost == TasksSpec => []RestartsLoseNothing
<1>1. TasksInit => TasksInv
  BY TasksInvBegins
<1>2. TasksInv /\ [TasksNext]_taskVars => TasksInv'
  BY TasksInvStays
<1>3. TasksInv => RestartsLoseNothing
  <2> SUFFICES ASSUME TasksInv
               PROVE  RestartsLoseNothing
    OBVIOUS
  <2>1. OpenAlertsWatched /\ OnlyPaidIsBooked
    BY DEF TasksInv, AlertInv, GrowthInv
  <2>2. BooksComplete
    BY BooksWhole DEF TasksInv, BooksComplete
  <2>3. SettingsAgree
    BY DEF TasksInv, SettingInv, SettingsAgree, Coming
  <2> QED BY <2>1, <2>2, <2>3 DEF RestartsLoseNothing
<1> QED BY <1>1, <1>2, <1>3, PTL DEF TasksSpec
=============================================================================
