---------------------------- MODULE UpstreamCalls ----------------------------
(***************************************************************************)
(* An attempt on its way to an upstream: Executor._stream_loop leases the  *)
(* credential it has chosen, the channel's stream_chat waits for its turn  *)
(* (paced()), the upstream answers, paced() gives the slot back when the   *)
(* stream is closed and the executor, one await later, the lease.  A       *)
(* client that goes away cancels the attempt at whatever it awaits.        *)
(*                                                                         *)
(* Each Caller is one attempt.  What the upstream answers and what the     *)
(* executor makes of it is in ChatEngine.                                  *)
(*                                                                         *)
(* engine/inflight.py: a lease is no more than the time it was taken, here *)
(* its age; one nobody gives back runs out.                                *)
(***************************************************************************)
EXTENDS Pacer

CONSTANTS
  Cred,
  LeaseTTL,     \* LEASE_TTL_SECONDS
  Limits,       \* the values of MAX_INFLIGHT_PER_CREDENTIAL; 0 is no limit
  PoolOf,       \* the credentials that serve the model an attempt asks for
  BucketOf,     \* the bucket of a credential: channel and account
  MaxLost       \* bound of the model: leases of a credential never given back

ASSUME CallConstants ==
  /\ LeaseTTL \in Nat \ {0}
  /\ Limits \subseteq Nat
  /\ PoolOf \in [Caller -> SUBSET Cred]
  /\ BucketOf \in [Cred -> Bucket]
  /\ MaxLost \in Nat

VARIABLES
  leases,       \* InflightTracker._leases: ages, the oldest first
  on,           \* the credential of an attempt
  age,          \* how long it has had it
  lost          \* history: how many leases of a credential nobody gives back

callVars == <<leases, pacerVars, on, age, lost>>
-----------------------------------------------------------------------------
(* The in-flight tracker.                                                  *)

LeasesInit == leases = [c \in Cred |-> <<>>]

Live(s) == Younger(s, LeaseTTL)

Counted(c) == Len(Live(leases[c]))

\* The limit is read afresh for each choice, as settings can change at any time.
Blocked(c, limit) == limit > 0 /\ Counted(c) >= limit

\* Choosing counts, and so prunes, the leases of every credential.
Taken(c) ==
  leases' = [d \in Cred |-> IF d = c THEN Append(Live(leases[d]), 0)
                                     ELSE Live(leases[d])]

\* Gives back the lease taken last, whichever attempt took it.
GivenBack(c) ==
  leases' = [leases EXCEPT ![c] = IF @ = <<>> THEN @ ELSE Front(@)]

LeasesAge ==
  leases' = [c \in Cred |->
               [i \in DOMAIN leases[c] |-> Min({leases[c][i] + 1, LeaseTTL})]]
-----------------------------------------------------------------------------
(* The attempts.                                                           *)

Holding(c) == {r \in Caller : on[r] = c /\ turn[r].at \notin {"out", "done"}}

\* in flight for the pacer: reserved and sleeping, or admitted
HasSlot(r) == turn[r].at \in {"pacing", "granted"}

CallsInit ==
  /\ LeasesInit
  /\ PacerInit
  /\ on = [r \in Caller |-> Absent]
  /\ age = [r \in Caller |-> 0]
  /\ lost = [c \in Cred |-> 0]

Choose(r, c) ==
  /\ turn[r].at = "out"
  /\ c \in PoolOf[r] /\ \E limit \in Limits : ~Blocked(c, limit)
  /\ Taken(c)
  /\ turn' = [turn EXCEPT ![r].at = "entering"]
  /\ on' = [on EXCEPT ![r] = c]
  /\ UNCHANGED <<pace, slots, begun, starts, age, lost>>

\* One move of wait_turn, or of paced() around it.
Move(r) ==
  /\ \E b \in {BucketOf[c] : c \in Cred \cap {on[r]}} :
       \/ PassFreely(r) \/ Awake(r)
       \/ TakeSlot(r, b) \/ Doze(r, b) \/ Wait(r, b)
       \/ Release(r, b)
  /\ UNCHANGED <<leases, on, age, lost>>

Cancel(r) ==
  /\ \/ CancelWait(r)
     \/ \E b \in {BucketOf[c] : c \in Cred \cap {on[r]}} : CancelSleep(r, b)
  /\ UNCHANGED <<leases, on, age, lost>>

Ended(r) ==
  /\ turn[r].at = "closing"
  /\ turn' = [turn EXCEPT ![r].at = "done"]
  /\ on' = [on EXCEPT ![r] = Absent]
  /\ age' = [age EXCEPT ![r] = 0]
  /\ UNCHANGED <<pace, slots, begun, starts>>

\* The last step of the executor's finally block ...
Close(r) ==
  /\ Ended(r)
  /\ GivenBack(on[r])
  /\ UNCHANGED lost

\* ... which a cancellation at the await before it skips.
Skip(r) ==
  /\ Ended(r)
  /\ lost[on[r]] < MaxLost
  /\ lost' = [lost EXCEPT ![on[r]] = @ + 1]
  /\ UNCHANGED leases

Pass ==
  /\ LeasesAge
  /\ PacerAge
  /\ age' = [r \in Caller |->
               IF turn[r].at \in {"out", "done"} THEN age[r]
               ELSE Min({age[r] + 1, LeaseTTL})]
  /\ UNCHANGED <<on, lost>>

Configure == SetPace /\ UNCHANGED <<leases, on, age, lost>>

CallsNext ==
  \/ \E r \in Caller :
       \/ \E c \in Cred : Choose(r, c)
       \/ Move(r) \/ Cancel(r) \/ Close(r) \/ Skip(r)
  \/ Pass
  \/ Configure

CallsSpec == CallsInit /\ [][CallsNext]_callVars

\* The event loop runs what is ready, time passes, and a call of an upstream
\* ends (by its timeouts at the latest).  Nobody has to arrive or go away.
CallsFairness ==
  /\ \A r \in Caller : WF_callVars(Move(r)) /\ WF_callVars(Close(r))
  /\ WF_callVars(Pass)

FairCallsSpec == CallsSpec /\ CallsFairness
-----------------------------------------------------------------------------
(* Properties.                                                             *)

\* Every variable keeps its type, and a window holds no more starts than a
\* limit that was in force allowed.
CallsTypeOK ==
  /\ \A c \in Cred : leases[c] \in Seq(0 .. LeaseTTL)
  /\ pace \in Paces
  /\ slots \in [Bucket -> 0 .. Cardinality(Caller)]
  /\ \A b \in Bucket :
       /\ begun[b] = Absent \/ begun[b] \in Int
       /\ starts[b] \in Seq(0 .. LongestWindow)
       /\ Len(starts[b]) <= Max({p.limit : p \in Paces})
  /\ \A r \in Caller : turn[r].at \in Standing /\ turn[r].left \in Nat
  /\ on \in [Caller -> Cred \union {Absent}]
  /\ age \in [Caller -> 0 .. LeaseTTL]
  /\ lost \in [Cred -> Nat]

\* The slots of a bucket are those of the attempts that sleep for their start
\* or have their turn.
SlotsMatch ==
  \A b \in Bucket :
    slots[b] = Cardinality({r \in Caller : HasSlot(r) /\ BucketOf[on[r]] = b})

\* What the load balancing and the limit see never exceeds the attempts that
\* are under way and the leases that were lost.
NeverOvercounted ==
  \A c \in Cred : Counted(c) <= Cardinality(Holding(c)) + lost[c]

\* No slot is lost to a cancellation at any await of wait_turn or given back
\* twice, or the channel fills up for good (the module's docstring, pacer.py
\* 36-43) or admits more than its limit; and a credential is not shut out by
\* attempts that are through (inflight.py 25-28).  Checked with the types.
SlotsAreHeld == CallsTypeOK /\ SlotsMatch /\ NeverOvercounted

\* An attempt that waits is admitted or cancelled: the event all buckets share also
\* wakes those whose own bucket is still full, and they wait again, a window that is
\* full is waited out, and a limit lowered or raised in between strands nobody
\* (pacer.py 226-298).
TurnsCome ==
  \A r \in Caller :
    turn[r].at \in {"entering", "asking", "waiting", "dozing", "pacing"}
      ~> turn[r].at \in {"granted", "passing", "closing"}

\* The pacer is a turnstile: it admits nobody to a full bucket, and nobody
\* leaves but by the end of his call or a cancellation, under settings that
\* change while callers wait.
Gate == INSTANCE Turnstile WITH
  Places <- {p.limit : p \in Paces},
  inside <- [b \in Bucket |-> {r \in Caller : HasSlot(r) /\ BucketOf[on[r]] = b}],
  places <- pace.limit

ActsAsTurnstile == Gate!GateSpec
=============================================================================
