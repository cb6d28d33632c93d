------------------------------- MODULE Checkin -------------------------------
(***************************************************************************)
(* tasks/checkin.py: the daily check-in.  A round walks over the           *)
(* candidates and calls the upstream once for each scope, the upstream     *)
(* account behind one or more credentials.  A scope that was signed is     *)
(* sealed, one that failed backs off.  All of it is kept in memory, under  *)
(* keys that begin with the day: what was written under yesterday's key is *)
(* never looked up again.                                                  *)
(*                                                                         *)
(* Time is the moment of the day, 0 .. DayLength - 1, and the parity of    *)
(* the day; an instant past midnight is DayLength.                         *)
(*                                                                         *)
(* A definition marked `slip' is a variant with a likely slip; no action   *)
(* uses it.                                                                *)
(***************************************************************************)
EXTENDS Naturals, Sequences, FiniteSets, FiniteSetsExt

CONSTANTS
  Accounts,     \* the credentials in the order candidates() lists them
  Scope,        \* the upstream accounts
  ScopeOf,      \* the scope of a credential (checkin_scope)
  Signer,       \* the rounds of the task that may be in progress
  DayLength,
  CycleEnd,     \* the moment a channel with a cycle of its own seals to
  SlotPlans,    \* the values of checkin_times
  Jitter,       \* checkin_jitter_minutes
  LongestBackoff,
  MaxSuspended  \* bound of the model: accounts out of service at a time

Account == {Accounts[i] : i \in 1 .. Len(Accounts)}
Day == {0, 1}
Moment == 0 .. DayLength - 1

ASSUME CheckinConstants ==
  /\ DayLength \in Nat \ {0} /\ CycleEnd \in 1 .. DayLength
  /\ SlotPlans \subseteq SUBSET Moment
  /\ Accounts \in Seq(Account) /\ ScopeOf \in [Account -> Scope]
  /\ {Jitter, MaxSuspended} \subseteq Nat /\ LongestBackoff \in Nat \ {0}

VARIABLES
  day, moment,  \* the clock
  times,        \* checkin_times, as moments of the day
  lead,         \* the jitter drawn for each of today's slots
  fired,        \* today's slots that have had their round
  suspended,    \* the accounts that are not enabled or disabled
  done,         \* _done_scopes: by day and scope, the instant a seal ends
  failures,     \* _failures: by day and scope, how many and until when
  sign          \* what a round is at

checkinVars ==
  <<day, moment, times, lead, fired, suspended, done, failures, sign>>

Unsealed == [s \in Scope |-> 0]
NoFailure == [n |-> 0, until |-> 0]
Leads(slots) == {f \in [slots -> 0 .. Jitter] : \A t \in slots : f[t] <= t}
AtRest == [at |-> "idle", next |-> 1, live |-> {}, seen |-> {},
           day |-> 0, since |-> 0, manual |-> FALSE]

CheckinInit ==
  /\ day = 0 /\ moment = 0
  /\ times \in SlotPlans
  /\ lead \in Leads(times)
  /\ fired = {}
  /\ suspended = {}
  /\ done = [d \in Day |-> Unsealed]
  /\ failures = [d \in Day |-> [s \in Scope |-> NoFailure]]
  /\ sign = [w \in Signer |-> AtRest]

CheckinStarts ==
  /\ lead' \in Leads(times)
  /\ fired' = {}
  /\ done' = [d \in Day |-> Unsealed]
  /\ failures' = [d \in Day |-> [s \in Scope |-> NoFailure]]
  /\ sign' = [w \in Signer |-> AtRest]
  /\ UNCHANGED <<day, moment, times, suspended>>

----------------------------------------------------------------------------
(* due(): without slots always, else once in the window of each slot.      *)

Windows == {t \in times \ fired : t - lead[t] <= moment /\ moment <= t}

Due ==
  \/ times = {} /\ UNCHANGED fired
  \/ Windows # {} /\ fired' = fired \cup {Min(Windows)}

NotDue == times # {} /\ Windows = {}

\* run_once reads the candidates and forgets the keys of other days.
Walks(w, manual) ==
  /\ sign' = [sign EXCEPT ![w] = [AtRest EXCEPT !.at = "walk",
                !.live = Account \ suspended, !.day = day, !.since = moment,
                !.manual = manual]]
  /\ done' = [done EXCEPT ![1 - day] = Unsealed]
  /\ failures' = [failures EXCEPT ![1 - day] = [s \in Scope |-> NoFailure]]
  /\ UNCHANGED <<day, moment, times, lead, suspended>>

\* A round of the loop, whose outcome may be that nothing is due ...
LoopBegins(w) ==
  \/ Due /\ Walks(w, FALSE)
  \/ /\ NotDue
     /\ sign' = [sign EXCEPT ![w] = [AtRest EXCEPT !.at = "noop"]]
     /\ UNCHANGED <<day, moment, times, lead, fired, suspended, done, failures>>

\* ... and one of the page, which does not ask.
PageBegins(w) == Walks(w, TRUE) /\ UNCHANGED fired

----------------------------------------------------------------------------
(* One candidate after the other.                                          *)

Candidate(w) == Accounts[sign[w].next]
Here(w) == ScopeOf[Candidate(w)]
Walking(w) == sign[w].at = "walk" /\ sign[w].next <= Len(Accounts)

\* the tests before seen.add ...
Outside(w) ==
  \/ Candidate(w) \notin sign[w].live
  \/ done[sign[w].day][Here(w)] > sign[w].since
  \/ Here(w) \in sign[w].seen

\* ... and the one after it
BacksOff(w) ==
  ~sign[w].manual /\ failures[sign[w].day][Here(w)].until > sign[w].since

Ahead(w) == [sign[w] EXCEPT !.at = "walk", !.next = @ + 1]

\* slip: a paused account uses up the place of its scope in the round
SkipSeen(w) ==
  /\ Walking(w)
  /\ Outside(w)
  /\ sign' = [sign EXCEPT ![w] = [Ahead(w) EXCEPT !.seen = @ \cup {Here(w)}]]
  /\ UNCHANGED <<day, moment, times, lead, fired, suspended, done, failures>>

Skip(w) ==
  /\ Walking(w)
  /\ Outside(w)
  /\ sign' = [sign EXCEPT ![w] = Ahead(w)]
  /\ UNCHANGED <<day, moment, times, lead, fired, suspended, done, failures>>

Defer(w) ==
  /\ Walking(w)
  /\ ~Outside(w)
  /\ BacksOff(w)
  /\ sign' = [sign EXCEPT ![w] = [Ahead(w) EXCEPT !.seen = @ \cup {Here(w)}]]
  /\ UNCHANGED <<day, moment, times, lead, fired, suspended, done, failures>>

\* The turn of the pacer is awaited before the call.
Attempt(w) ==
  /\ Walking(w)
  /\ ~Outside(w)
  /\ ~BacksOff(w)
  /\ sign' = [sign EXCEPT ![w].at = "pace", ![w].seen = @ \cup {Here(w)}]
  /\ UNCHANGED <<day, moment, times, lead, fired, suspended, done, failures>>

Call(w) ==
  /\ sign[w].at = "pace"
  /\ sign' = [sign EXCEPT ![w].at = "call"]
  /\ UNCHANGED <<day, moment, times, lead, fired, suspended, done, failures>>

\* What the upstream has its scope sealed to: the end of the day or of its cycle.
SealEnds(w) ==
  {DayLength} \cup (IF sign[w].day = day /\ moment < CycleEnd THEN {CycleEnd} ELSE {})

Signed(w) ==
  /\ sign[w].at = "call"
  /\ \E until \in SealEnds(w) :
       done' = [done EXCEPT ![sign[w].day][Here(w)] = until]
  /\ failures' = [failures EXCEPT ![sign[w].day][Here(w)] = NoFailure]
  /\ sign' = [sign EXCEPT ![w] = Ahead(w)]
  /\ UNCHANGED <<day, moment, times, lead, fired, suspended>>

Backoff(n) == Min({2 ^ (n - 1), LongestBackoff})

\* The delay counts from the beginning of the round.
NotSigned(w) ==
  /\ sign[w].at = "call"
  /\ LET f == failures[sign[w].day][Here(w)]
         n == IF Backoff(f.n + 1) = LongestBackoff /\ f.n > 0 THEN f.n ELSE f.n + 1
     IN failures' = [failures EXCEPT ![sign[w].day][Here(w)] =
                       [n |-> n, until |-> sign[w].since + Backoff(f.n + 1)]]
  /\ sign' = [sign EXCEPT ![w] = Ahead(w)]
  /\ UNCHANGED <<day, moment, times, lead, fired, suspended, done>>

SignStep(w) ==
  Skip(w) \/ Defer(w) \/ Attempt(w) \/ Call(w) \/ Signed(w) \/ NotSigned(w)

SignDone(w) ==
  \/ sign[w].at = "noop"
  \/ sign[w].at = "walk" /\ sign[w].next > Len(Accounts)

SignLeaves(w) ==
  /\ sign' = [sign EXCEPT ![w] = AtRest]
  /\ UNCHANGED <<day, moment, times, lead, fired, suspended, done, failures>>

----------------------------------------------------------------------------
(* The rest of the world.                                                  *)

\* An account is paused, disabled or taken back into service.
Suspend(a) ==
  /\ \/ a \in suspended /\ suspended' = suspended \ {a}
     \/ /\ a \notin suspended /\ Cardinality(suspended) < MaxSuspended
        /\ suspended' = suspended \cup {a}
  /\ UNCHANGED <<day, moment, times, lead, fired, done, failures, sign>>

PassMoment ==
  /\ moment + 1 < DayLength
  /\ moment' = moment + 1
  /\ UNCHANGED <<day, times, lead, fired, suspended, done, failures, sign>>

\* A new day has keys of its own; yesterday's matter to a round that has begun
\* with them, which is over within a day.
Midnight ==
  LET Read(d) == d = day /\ \E w \in Signer : sign[w].at \notin {"idle", "noop"} IN
  /\ moment + 1 = DayLength
  /\ \A w \in Signer : sign[w].at \in {"idle", "noop"} \/ sign[w].day = day
  /\ moment' = 0
  /\ day' = 1 - day
  /\ lead' \in Leads(times)
  /\ fired' = {}
  /\ done' = [d \in Day |-> IF Read(d) THEN done[d] ELSE Unsealed]
  /\ failures' = [d \in Day |-> IF Read(d) THEN failures[d] ELSE [s \in Scope |-> NoFailure]]
  /\ UNCHANGED <<times, suspended, sign>>
=============================================================================
