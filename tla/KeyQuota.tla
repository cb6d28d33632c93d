------------------------------- MODULE KeyQuota -------------------------------
(***************************************************************************)
(* Admission by quota: key_quota.py, and the two layers api/endpoints.py   *)
(* and api/playground.py put in front of the engine.  A request through    *)
(* /v1 passes the guard of its API key and then that of its user, one from *)
(* the playground only the latter.  Judging is synchronous; what happens   *)
(* between admission and release is the engine's business.                 *)
(*                                                                         *)
(* Each Req is a client that asks again whenever it is through.  The       *)
(* aggregate of the day is reduced to whether it has reached a daily       *)
(* limit; it grows with the rows the engine writes for a running request.  *)
(*                                                                         *)
(* `A wrong X' is a variant of X with a likely slip; no action uses it.    *)
(***************************************************************************)
EXTENDS Integers, FiniteSets, FiniteSetsExt, Sequences

CONSTANTS
  Key, User,
  Req,
  KeyOf,        \* the API key of a client, or None for the playground
  UserOf,
  TokensOf,     \* estimated_tokens of what it asks
  Quotas,       \* the quotas an administrator may set
  Window,       \* WINDOW_SECONDS
  MaxEvents,    \* bound of the model: admissions per window where rpm is off
  None

Subject == Key \union User
QuotaType == [daily : BOOLEAN, rpm : Nat, tpm : Nat, max_concurrency : Nat]
NoQuota == [daily |-> FALSE, rpm |-> 0, tpm |-> 0, max_concurrency |-> 0]

ASSUME QuotaConstants ==
  /\ IsFiniteSet(Req)
  /\ KeyOf \in [Req -> Key \union {None}]
  /\ UserOf \in [Req -> User]
  /\ TokensOf \in [Req -> Nat]
  /\ Quotas \subseteq QuotaType
  /\ {Window, MaxEvents} \subseteq Nat \ {0}

VARIABLES
  quota,      \* per subject, read afresh for each request
  events,     \* KeyQuotaGuard._events: what was counted, oldest first
  inflight,   \* KeyQuotaGuard._inflight
  held,       \* per client, the layers on which its running request is counted
  busy,       \* the clients with a request under way
  spent,      \* subjects whose usage of the day has reached its limit
  seen        \* history: admissions counted on a subject within the window

quotaVars == <<quota, events, inflight, held, busy, spent, seen>>

QuotaInit ==
  /\ quota \in [Subject -> Quotas]
  /\ events = [s \in Subject |-> <<>>]
  /\ inflight = [s \in Subject |-> 0]
  /\ held = [q \in Req |-> {}]
  /\ busy = {}
  /\ spent = {}
  /\ seen = [s \in Subject |-> <<>>]

-----------------------------------------------------------------------------
(* One layer.                                                              *)

\* from the oldest that is young enough on
From(es, young) == IF young = {} THEN <<>> ELSE SubSeq(es, Min(young), Len(es))
Younger(es, age) == {i \in 1..Len(es) : es[i].age < age}

\* wrong Pruneds: too early, and not at the edge
PrunedEarly(s) == From(events[s], Younger(events[s], Window - 1))
PrunedLate(s) == From(events[s], Younger(events[s], Window + 1))

\* _prune: while the oldest is a whole window old it goes
Pruned(s) == From(events[s], Younger(events[s], Window))

TokensIn(es) ==
  LET total[i \in 0..Len(es)] == IF i = 0 THEN 0 ELSE total[i - 1] + es[i].tokens
  IN total[Len(es)]

Limited(s) == quota[s] # NoQuota
OverDay(s) == quota[s].daily /\ s \in spent
OverRate(s) == quota[s].rpm > 0 /\ Len(Pruned(s)) >= quota[s].rpm
OverTokens(s, n) == quota[s].tpm > 0 /\ TokensIn(Pruned(s)) + n > quota[s].tpm
OverSlots(s) == quota[s].max_concurrency > 0 /\ inflight[s] >= quota[s].max_concurrency

Refuses(s, n) ==
  Limited(s) /\ (OverDay(s) \/ OverRate(s) \/ OverTokens(s, n) \/ OverSlots(s))

Counted(s, n) == Append(Pruned(s), [age |-> 0, tokens |-> n])

\* an error while judging, the query of the day's usage, lets the request pass uncounted
Faults(layers) == SUBSET {s \in layers : quota[s].daily}

-----------------------------------------------------------------------------
(* A request.                                                              *)

Layers(q) == ({KeyOf[q]} \ {None}) \union {UserOf[q]}

\* the layers that count a request if they let it pass
Counting(q, faulty) == {s \in Layers(q) \ faulty : Limited(s)}

Room(q) == \A s \in Layers(q) : Len(Pruned(s)) < MaxEvents

Admit(q, faulty) ==
  LET counting == Counting(q, faulty) IN
  /\ q \notin busy
  /\ Room(q)
  /\ \A s \in counting : ~Refuses(s, TokensOf[q])
  /\ events' = [s \in Subject |-> IF s \in counting THEN Counted(s, TokensOf[q]) ELSE events[s]]
  /\ inflight' = [s \in Subject |-> IF s \in counting THEN inflight[s] + 1 ELSE inflight[s]]
  /\ held' = [held EXCEPT ![q] = counting]
  /\ busy' = busy \union {q}
  /\ seen' = [s \in Subject |-> IF s \in counting
                                THEN Append(seen[s], [age |-> 0, tokens |-> TokensOf[q]])
                                ELSE seen[s]]
  /\ UNCHANGED <<quota, spent>>

\* a wrong RefuseByUser: the key's slot stays taken
RefuseByUserLeaky(q, faulty) ==
  LET key == KeyOf[q] IN
  /\ q \notin busy
  /\ Room(q)
  /\ {key, UserOf[q]} \subseteq Counting(q, faulty)
  /\ ~Refuses(key, TokensOf[q])
  /\ Refuses(UserOf[q], TokensOf[q])
  /\ events' = [events EXCEPT ![key] = Counted(key, TokensOf[q])]
  /\ inflight' = [inflight EXCEPT ![key] = @ + 1]
  /\ UNCHANGED <<quota, held, busy, spent, seen>>

\* the key lets it pass and counts it, then the user's layer refuses: the slot of the
\* key is given back, its window is not
RefuseByUser(q, faulty) ==
  LET key == KeyOf[q] IN
  /\ q \notin busy
  /\ Room(q)
  /\ key \in Counting(q, faulty)
  /\ ~Refuses(key, TokensOf[q])
  /\ UserOf[q] \in Counting(q, faulty)
  /\ Refuses(UserOf[q], TokensOf[q])
  /\ events' = [events EXCEPT ![key] = Counted(key, TokensOf[q])]
  /\ UNCHANGED <<quota, inflight, held, busy, spent, seen>>

\* the response is through, failed, or its client is gone: _CombinedLease.release
Finish(q) ==
  /\ q \in busy
  /\ inflight' = [s \in Subject |-> IF s \in held[q] THEN inflight[s] - 1 ELSE inflight[s]]
  /\ held' = [held EXCEPT ![q] = {}]
  /\ busy' = busy \ {q}
  /\ UNCHANGED <<quota, events, spent, seen>>

-----------------------------------------------------------------------------
(* The surroundings.                                                       *)

\* the engine writes a row of statistics, which counts for the key and for the user
Record(q) ==
  /\ q \in busy
  /\ \E over \in SUBSET Layers(q) : spent' = spent \union over
  /\ UNCHANGED <<quota, events, inflight, held, busy, seen>>

Midnight ==
  /\ spent' = {}
  /\ UNCHANGED <<quota, events, inflight, held, busy, seen>>

\* the usage of the day may be over the new limit, or no longer
SetQuota(s, new) ==
  /\ new # quota[s]
  /\ quota' = [quota EXCEPT ![s] = new]
  /\ spent' \in {spent \ {s}, spent \union {s}}
  /\ UNCHANGED <<events, inflight, held, busy, seen>>

Aged(es) == [i \in 1..Len(es) |-> [es[i] EXCEPT !.age = IF @ < Window THEN @ + 1 ELSE @]]

WindowsSlide ==
  /\ events' = [s \in Subject |-> Aged(events[s])]
  /\ seen' = [s \in Subject |-> From(Aged(seen[s]), Younger(Aged(seen[s]), Window))]
  /\ UNCHANGED <<quota, inflight, held, busy, spent>>

-----------------------------------------------------------------------------
Ask(q) == \E faulty \in Faults(Layers(q)) : Admit(q, faulty) \/ RefuseByUser(q, faulty)

-----------------------------------------------------------------------------
(* Properties.                                                             *)

EventType == [age : 0..Window, tokens : Nat]

\* Every count and every event is of its type, events oldest first.
QuotaTypeOK ==
  /\ quota \in [Subject -> QuotaType]
  /\ \A s \in Subject :
       /\ \A i \in 1..Len(events[s]) : events[s][i] \in EventType
       /\ \A i, j \in 1..Len(events[s]) : i < j => events[s][i].age >= events[s][j].age
  /\ inflight \in [Subject -> Nat]
  /\ held \in [Req -> SUBSET Subject]
  /\ busy \subseteq Req
  /\ spent \subseteq Subject

\* However requests are refused, fail or end, and however quotas are switched on and off
\* under them: each subject is charged exactly the requests under way it has counted.
\* Checked with the types.
SlotsFollowRequests ==
  /\ QuotaTypeOK
  /\ \A s \in Subject : inflight[s] = Cardinality({q \in Req : s \in held[q]})

\* An admission a layer counts keeps every limit of that layer as it is set then: over
\* the past window the admissions and their tokens, at this moment the requests under
\* way.  No burst gets past the edge of a window.
AdmissionsWithinQuota ==
  [][\A q \in Req : \A s \in held'[q] \ held[q] :
       LET limit == quota[s] IN
       /\ limit.rpm > 0 => Len(seen'[s]) <= limit.rpm
       /\ limit.tpm > 0 => TokensIn(seen'[s]) <= limit.tpm
       /\ limit.max_concurrency > 0 =>
            Cardinality({p \in Req : s \in held'[p]}) <= limit.max_concurrency]_quotaVars

=============================================================================
