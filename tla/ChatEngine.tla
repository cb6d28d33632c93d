------------------------------ MODULE ChatEngine ------------------------------
(***************************************************************************)
(* engine/executor.py over the credential pool: concurrent chat requests   *)
(* choose a credential, talk to its upstream, and on an error charge the   *)
(* pool and rotate.  One model of a fallback chain per request; stream and *)
(* complete share the loop, a complete request just never emits before it  *)
(* has the whole answer.                                                   *)
(*                                                                         *)
(* Handlers interleave where the code awaits and only there: `running'     *)
(* names the request that goes on without awaiting, between the release of *)
(* one credential and the choice of the next.                              *)
(*                                                                         *)
(* Abstracted: the ranking of equally eligible credentials (any of them    *)
(* may be chosen), the quota behind a DEAD verdict, payload rewriting.  No *)
(* attempt outlives the 600 s TTLs of leases and probes here: what those   *)
(* collect is what a cancelled handler left behind.                        *)
(*                                                                         *)
(* `A wrong X' is a variant of X with a likely slip; no action uses it.    *)
(***************************************************************************)
EXTENDS CredentialPool, Sequences

CONSTANTS
  Req,
  Streaming,        \* the requests of stream(); the others are complete()
  ModelOf,          \* upstream name of the model each asks for
  Answers,          \* error kinds outside SchedulerKinds the upstreams may answer
  MaxRotate,        \* MAX_ROTATE
  MaxQueueRounds,   \* QUEUE_MAX_ROUNDS
  InflightLimit,    \* max_inflight_per_credential, 0 for no limit
  ShortWait,        \* short_cooldown_wait_seconds, 0 for no wait
  Impatient,        \* may a client go away while its handler closes an attempt,
                    \* or takes leave with an error frame
  None

\* queue: wait and come again; effort: this reasoning level is not accepted;
\* reject: INVALID and CAPABILITY; request: the kinds that blame nobody; unknown:
\* an exception _classify makes nothing of
NoChargeKinds == {"queue", "effort", "reject", "request", "unknown"}

ASSUME EngineConstants ==
  /\ Streaming \subseteq Req
  /\ ModelOf \in [Req -> Model]
  /\ Answers \subseteq NoChargeKinds
  /\ MaxRotate \in Nat \ {0}
  /\ {MaxQueueRounds, InflightLimit, ShortWait} \subseteq Nat
  /\ Impatient \in BOOLEAN
  /\ None \notin Req \union Cred

ASSUME RequestsFinite == IsFiniteSet(Req)

VARIABLES
  req,         \* the local state of each handler
  running,     \* the request that has not awaited yet, or None
  leases,      \* InflightTracker: leases per credential
  probing,     \* HalfOpenGuard._probing: the scopes being probed
  recovered,   \* HalfOpenGuard._recovered
  marks        \* Executor._probe_leases: per credential, its scopes under probe

engineVars == <<req, running, leases, probing, recovered, marks>>
allVars == <<vars, engineVars>>

Account == "account"                       \* the empty scope: the whole account
Scopes == Cred \X (Model \union {Account})
NoScope == <<None, None>>

NoRows == [ok |-> 0, attempt |-> 0, reject |-> 0, closing |-> 0, gone |-> 0]

(***************************************************************************)
(* opened and failures are history: the credentials really called and the  *)
(* kinds of failure they gave.                                             *)
(***************************************************************************)
NewRequest ==
  [pc |-> "ready", cred |-> None, tried |-> {}, attempts |-> 0, rounds |-> 0,
   downgraded |-> FALSE, rejected |-> FALSE, attributed |-> FALSE,
   emitted |-> FALSE, waited |-> FALSE, nap |-> 0, plan |-> "rotate",
   answer |-> "none", rows |-> NoRows,
   opened |-> {}, failures |-> {}]

EngineInit ==
  /\ life = [c \in Cred |-> "live"]
  /\ row = [c \in Cred |-> FreshRow]
  /\ entry = [cm \in Cred \X Model |-> NoEntry]
  /\ window = [p \in Provider |-> NoHits]
  /\ req = [r \in Req |-> NewRequest]
  /\ running = None
  /\ leases = [c \in Cred |-> 0]
  /\ probing = {}
  /\ recovered = {}
  /\ marks = [c \in Cred |-> <<>>]

MayRun(r) == running \in {None, r}
At(r, pc) == req[r].pc = pc /\ MayRun(r)

-----------------------------------------------------------------------------
(* Leases and probe marks.                                                 *)

Top(s) == s[Len(s)]
Pop(s) == SubSeq(s, 1, Len(s) - 1)

\* _lease, with the probe its choice acquired
LeaseFor(c, scope) ==
  /\ leases' = [leases EXCEPT ![c] = @ + 1]
  /\ probing' = IF scope = NoScope THEN probing ELSE probing \union {scope}
  /\ marks' = IF scope = NoScope THEN marks ELSE [marks EXCEPT ![c] = Append(@, scope)]

\* a wrong Release: the probe stays
ReleaseLease(c) == leases' = [leases EXCEPT ![c] = @ - 1] /\ UNCHANGED <<probing, marks>>

\* _release: one lease of the credential, and the latest mark on it, whoever made it
Release(c) ==
  /\ leases' = [leases EXCEPT ![c] = @ - 1]
  /\ probing' = IF marks[c] = <<>> THEN probing ELSE probing \ {Top(marks[c])}
  /\ marks' = IF marks[c] = <<>> THEN marks ELSE [marks EXCEPT ![c] = Pop(@)]

\* _confirm_probe: the latest mark on the credential has recovered
Confirm(c) ==
  IF marks[c] = <<>> THEN UNCHANGED <<probing, recovered>>
  ELSE /\ probing' = probing \ {Top(marks[c])}
       /\ recovered' = recovered \union {Top(marks[c])}

-----------------------------------------------------------------------------
(***************************************************************************)
(* _pick: the sieve, the half-open gate, a pinned credential first.        *)
(***************************************************************************)
Full(c) == InflightLimit > 0 /\ leases[c] >= InflightLimit

\* the scope a credential would be probed in: its cooldown is over, not purged
HalfOpenScope(c, m) ==
  IF row[c].left = 0 THEN <<c, Account>>
  ELSE IF entry[<<c, m>>].left = 0 THEN <<c, m>> ELSE NoScope

GateOpen(c, m) ==
  LET scope == HalfOpenScope(c, m) IN
  scope = NoScope \/ scope \in recovered \/ scope \notin probing

Probes(c, m) ==
  LET scope == HalfOpenScope(c, m) IN
  IF scope \in recovered THEN NoScope ELSE scope

Eligible(r) ==
  {c \in Cred \ req[r].tried :
     Selectable(c, ModelOf[r]) /\ ~Full(c) /\ GateOpen(c, ModelOf[r])}

Preferred(cs) ==
  IF \E c \in cs : row[c].pinned THEN {c \in cs : row[c].pinned} ELSE cs

Opened(q, c) ==
  [q EXCEPT !.pc = "open", !.cred = c, !.waited = FALSE,
            !.tried = @ \union {c}, !.opened = @ \union {c}, !.attempts = @ + 1]

Open(r, c) ==
  LET scope == Probes(c, ModelOf[r]) IN
  /\ req' = [req EXCEPT ![r] = Opened(@, c)]
  /\ LeaseFor(c, scope)
  /\ running' = None
  /\ UNCHANGED <<vars, recovered>>

Pick(r) ==
  /\ At(r, "ready")
  /\ \E c \in Preferred(Eligible(r)) : Open(r, c)

\* _wait_short_cooldown: how long each candidate that only cools has to go
Larger(a, b) == IF a >= b THEN a ELSE b
Remaining(c, m) == Larger(row[c].left, entry[<<c, m>>].left)
Coolings(r) ==
  {Remaining(c, ModelOf[r]) : c \in {d \in Cred \ req[r].tried :
                                      /\ InService(d)
                                      /\ ~Full(d)
                                      /\ Remaining(d, ModelOf[r]) > 0}}
WorthWaiting(r) ==
  {n \in Coolings(r) : n <= ShortWait /\ \A k \in Coolings(r) : n <= k}

Sleep(r) ==
  /\ At(r, "ready")
  /\ Eligible(r) = {}
  /\ ~req[r].waited
  /\ \E n \in WorthWaiting(r) :
       req' = [req EXCEPT ![r] = [@ EXCEPT !.pc = "asleep", !.nap = n]]
  /\ running' = None
  /\ UNCHANGED <<vars, leases, probing, recovered, marks>>

Wake(r) ==
  /\ At(r, "asleep")
  /\ req[r].nap = 0
  /\ req' = [req EXCEPT ![r] = [@ EXCEPT !.pc = "ready", !.waited = TRUE]]
  /\ running' = r
  /\ UNCHANGED <<vars, leases, probing, recovered, marks>>

\* a wrong ClosingRow: an attempt on record does not replace it
ClosingRowToo(q) ==
  IF q.rejected THEN q.rows ELSE [q.rows EXCEPT !.closing = @ + 1]

\* the row that closes a failed request, unless its attempts already say why
ClosingRow(q) ==
  IF q.rejected \/ (q.attributed /\ ~q.emitted) THEN q.rows
  ELSE [q.rows EXCEPT !.closing = @ + 1]

Failed(q) ==
  [q EXCEPT !.pc = IF q.emitted THEN "parting" ELSE "done", !.rows = ClosingRow(q),
            !.answer = IF q.rejected THEN "invalid_request" ELSE "no_healthy_credential"]

Exhausted(r) ==
  /\ At(r, "ready")
  /\ Eligible(r) = {}
  /\ req[r].waited \/ WorthWaiting(r) = {}
  /\ req' = [req EXCEPT ![r] = Failed(@)]
  /\ running' = None
  /\ UNCHANGED <<vars, leases, probing, recovered, marks>>

-----------------------------------------------------------------------------
(* What the upstream answers.                                              *)

\* the response frames a client has seen cannot be taken back
Frame(r) ==
  /\ At(r, "open")
  /\ r \in Streaming
  /\ ~req[r].emitted
  /\ req' = [req EXCEPT ![r].emitted = TRUE]
  /\ UNCHANGED <<vars, running, leases, probing, recovered, marks>>

Served(q) ==
  [q EXCEPT !.pc = "closing", !.plan = "finish", !.answer = "ok", !.rows.ok = @ + 1]

Succeeds(r) ==
  LET c == req[r].cred IN
  /\ At(r, "open")
  /\ NoteSuccess(c, ModelOf[r])
  /\ Confirm(c)
  /\ req' = [req EXCEPT ![r] = Served(@)]
  /\ UNCHANGED <<running, leases, marks>>

\* the handler is about to await the closing of the upstream, then to go on by plan
Closing(q, plan) == [q EXCEPT !.pc = "closing", !.plan = plan]

Blamed(q, kind) == [q EXCEPT !.failures = @ \union {kind}]

\* _plan_queue_restart: come back to this credential, and give the attempt back
Requeued(q) == [Closing(q, "queue") EXCEPT !.rounds = @ + 1, !.attempts = @ - 1]

QueueRestart(r) ==
  /\ At(r, "open")
  /\ "queue" \in Answers
  /\ ~req[r].emitted
  /\ req[r].rounds < MaxQueueRounds
  /\ req' = [req EXCEPT ![r] = Requeued(@)]
  /\ UNCHANGED <<vars, running, leases, probing, recovered, marks>>

\* wrong EffortRestarts: after output; again and again
EffortRestartAnytime(r) ==
  /\ At(r, "open")
  /\ "effort" \in Answers
  /\ ~req[r].downgraded
  /\ req' = [req EXCEPT ![r] = [Closing(@, "effort") EXCEPT !.downgraded = TRUE]]
  /\ UNCHANGED <<vars, running, leases, probing, recovered, marks>>
EffortRestartForever(r) ==
  /\ At(r, "open")
  /\ "effort" \in Answers
  /\ ~req[r].emitted
  /\ req' = [req EXCEPT ![r] = [Closing(@, "effort") EXCEPT !.downgraded = TRUE]]
  /\ UNCHANGED <<vars, running, leases, probing, recovered, marks>>

\* _downgrade_effort: once per request, a level lower on the same credential.
\* complete and an HTTP error go straight back; an error event of a stream first
\* asks for the rotation budget.
EffortRestart(r) ==
  /\ At(r, "open")
  /\ "effort" \in Answers
  /\ ~req[r].emitted
  /\ ~req[r].downgraded
  /\ \E plan \in {"effort"} \union (IF r \in Streaming THEN {"effort if rotating"} ELSE {}) :
       req' = [req EXCEPT ![r] = [Closing(@, plan) EXCEPT !.downgraded = TRUE]]
  /\ UNCHANGED <<vars, running, leases, probing, recovered, marks>>

\* INVALID and CAPABILITY: record, and try no other credential of this provider
Rejected(q) ==
  [Blamed(Closing(q, "rotate"), "reject") EXCEPT
     !.rejected = TRUE, !.rows.reject = @ + 1, !.tried = @ \union Siblings(q.cred)]

Rejects(r) ==
  /\ At(r, "open")
  /\ "reject" \in Answers
  /\ req' = [req EXCEPT ![r] = Rejected(@)]
  /\ UNCHANGED <<vars, running, leases, probing, recovered, marks>>

\* whether last_kind may still be a rejection: it is assigned where an error was
\* raised, but not for an error event of a stream nor an overrun of complete
StillRejected(r, kind) ==
  IF (r \in Streaming /\ kind # "restricted") \/ kind = "soft"
  THEN {req[r].rejected, FALSE} ELSE {FALSE}

\* request, context and network errors change nothing
NoPenalty(r) ==
  /\ At(r, "open")
  /\ "request" \in Answers
  /\ \E rejected \in StillRejected(r, "request") :
       req' = [req EXCEPT ![r] = [Blamed(Closing(@, "rotate"), "request") EXCEPT
                                    !.rejected = rejected]]
  /\ UNCHANGED <<vars, running, leases, probing, recovered, marks>>

\* raised on through the finally block, to end as an internal error
Escapes(r) ==
  /\ At(r, "open")
  /\ "unknown" \in Answers
  /\ req' = [req EXCEPT ![r] = [Closing(@, "finish") EXCEPT !.answer = "internal_error"]]
  /\ UNCHANGED <<vars, running, leases, probing, recovered, marks>>

Attributed == {"dead", "restricted"}

\* what the executor makes of an error that is charged
Punished(q, kind, rejected) ==
  [Blamed(Closing(q, "rotate"), kind) EXCEPT
     !.rejected = rejected,
     !.attributed = @ \/ kind \in Attributed,
     !.rows.attempt = IF kind \in Attributed THEN @ + 1 ELSE @,
     !.tried = IF kind = "restricted" THEN @ \union Siblings(q.cred) ELSE @]

\* _note_upstream_error: the pool, the half-open verdicts, the attempt's own row
Charge(r, kind) ==
  LET c == req[r].cred IN
  /\ NoteError(c, ModelOf[r], kind)
  /\ recovered' = recovered \ {<<c, Account>>, <<c, ModelOf[r]>>}
  /\ \E rejected \in StillRejected(r, kind) :
       req' = [req EXCEPT ![r] = Punished(@, kind, rejected)]
  /\ UNCHANGED <<running, leases, probing, marks>>

Errs(r) ==
  /\ At(r, "open")
  /\ \E kind \in Kinds \ {"dead"} : Charge(r, kind)

\* a DEAD verdict awaits a fresh look at the quota before it is believed
Suspects(r) ==
  /\ At(r, "open")
  /\ "dead" \in Kinds
  /\ req' = [req EXCEPT ![r].pc = "checking"]
  /\ UNCHANGED <<vars, running, leases, probing, recovered, marks>>

Judges(r) ==
  /\ At(r, "checking")
  /\ \E kind \in Kinds \intersect {"dead", "credit"} : Charge(r, kind)

-----------------------------------------------------------------------------
(***************************************************************************)
(* Closing: the finally block, after its awaits, and what follows it up to *)
(* the next await.                                                         *)
(***************************************************************************)
\* a wrong ShouldRotate: one more
ShouldRotateOnce(q) == q.attempts <= MaxRotate

ShouldRotate(q) == q.attempts < MaxRotate

GoOn(r) ==
  LET q == req[r] IN
  CASE q.plan = "finish" ->
         /\ req' = [req EXCEPT ![r] = [q EXCEPT !.pc = "done"]]
         /\ running' = None
    [] q.plan = "queue" ->
         /\ req' = [req EXCEPT ![r] = [q EXCEPT !.pc = "queued"]]
         /\ running' = None
    [] q.plan = "effort" \/ (q.plan = "effort if rotating" /\ ShouldRotate(q)) ->
         /\ req' = [req EXCEPT ![r] = [q EXCEPT !.pc = "queued"]]
         /\ running' = r
    [] q.plan = "rotate" /\ ShouldRotate(q) /\ ~q.emitted ->
         /\ req' = [req EXCEPT ![r] = [q EXCEPT !.pc = "ready"]]
         /\ running' = r
    [] OTHER ->
         /\ req' = [req EXCEPT ![r] = Failed(q)]
         /\ running' = None

Close(r) ==
  /\ At(r, "closing")
  /\ Release(req[r].cred)
  /\ GoOn(r)
  /\ UNCHANGED <<vars, recovered>>

\* the pinned credential, without a choice; if it is gone, an ordinary choice
Reopen(r) ==
  LET c == req[r].cred IN
  /\ At(r, "queued")
  /\ IF life[c] = "live"
     THEN /\ req' = [req EXCEPT ![r].pc = "open"]
          /\ LeaseFor(c, NoScope)
          /\ running' = None
     ELSE /\ req' = [req EXCEPT ![r].pc = "ready"]
          /\ running' = r
          /\ UNCHANGED <<leases, probing, marks>>
  /\ UNCHANGED <<vars, recovered>>

\* what a disconnect leaves in the statistics: output already sent is accounted, but
\* for a success or a disconnect on record
Gone(q) ==
  [q EXCEPT !.answer = "gone", !.plan = "finish",
            !.rows.gone = IF q.emitted /\ q.rows.ok = 0 THEN 1 ELSE @]

\* the client goes away while the handler awaits
Disconnect(r) ==
  LET closes == req[r].pc \in {"open", "checking"} IN
  /\ req[r].pc \in {"open", "checking", "queued", "asleep"}
  /\ running = None
  /\ req' = [req EXCEPT ![r] =
               [Gone(@) EXCEPT !.pc = IF closes THEN "closing" ELSE "done"]]
  /\ UNCHANGED <<vars, running, leases, probing, recovered, marks>>

\* the cancellation hits an await of the finally block itself: the rest is skipped
Abort(r) ==
  /\ Impatient
  /\ req[r].pc = "closing"
  /\ running = None
  /\ req' = [req EXCEPT ![r] = [Gone(@) EXCEPT !.pc = "done"]]
  /\ UNCHANGED <<vars, running, leases, probing, recovered, marks>>

\* the error frame is out, or being sent
Part(r) ==
  /\ At(r, "parting")
  /\ req' = [req EXCEPT ![r].pc = "done"]
  /\ UNCHANGED <<vars, running, leases, probing, recovered, marks>>

\* the client goes away with the error frame: a translator that marks the frame as
\* the end of the response has it taken for a success
Depart(r) ==
  LET c == req[r].cred IN
  /\ Impatient
  /\ req[r].pc = "parting"
  /\ running = None
  /\ req' = [req EXCEPT ![r] = [Gone(@) EXCEPT !.pc = "done"]]
  /\ \/ UNCHANGED <<row, probing, recovered>>
     \/ /\ row' = IF life[c] = "live" THEN [row EXCEPT ![c].err = 0] ELSE row
        /\ Confirm(c)
  /\ UNCHANGED <<life, entry, window, running, leases, marks>>

-----------------------------------------------------------------------------
(* The surroundings: time, the retention task, an operator.                *)

\* RECOVERED_TTL_SECONDS is over
Forget ==
  /\ running = None
  /\ \E scope \in recovered : recovered' = recovered \ {scope}
  /\ UNCHANGED <<vars, req, running, leases, probing, marks>>

Calling(c) == {r \in Req : req[r].cred = c /\ req[r].pc \in {"open", "checking", "closing"}}

\* a wrong Expire: leases do not run out
ExpireProbes ==
  /\ running = None
  /\ \E scope \in probing :
       /\ Calling(scope[1]) = {}
       /\ probing' = probing \ {scope}
  /\ UNCHANGED <<vars, req, running, leases, recovered, marks>>

\* LEASE_TTL_SECONDS, PROBE_TTL_SECONDS: what no attempt gave back is collected
Expire ==
  /\ running = None
  /\ \/ \E c \in Cred :
          /\ leases[c] > Cardinality(Calling(c))
          /\ leases' = [leases EXCEPT ![c] = @ - 1]
          /\ UNCHANGED probing
     \/ \E scope \in probing :
          /\ Calling(scope[1]) = {}
          /\ probing' = probing \ {scope}
          /\ UNCHANGED leases
  /\ UNCHANGED <<vars, req, running, recovered, marks>>

Pass ==
  /\ running = None
  /\ Tick
  /\ req' = [r \in Req |-> [req[r] EXCEPT !.nap = Sooner(@)]]
  /\ UNCHANGED <<running, leases, probing, recovered, marks>>

Elsewhere ==
  /\ running = None
  /\ \/ \E c \in Cred : Delete(c)
     \/ PurgeAccountCooldowns
     \/ PurgeModelCooldowns
  /\ UNCHANGED engineVars

-----------------------------------------------------------------------------
Reply(r) ==
  Succeeds(r) \/ QueueRestart(r) \/ EffortRestart(r) \/ Rejects(r) \/ NoPenalty(r)
    \/ Escapes(r) \/ Errs(r) \/ Suspects(r)

Step(r) ==
  \/ Pick(r) \/ Sleep(r) \/ Wake(r) \/ Exhausted(r)
  \/ Reply(r) \/ Judges(r)
  \/ Close(r) \/ Reopen(r) \/ Part(r)

EngineNext ==
  \/ \E r \in Req : Step(r) \/ Frame(r) \/ Disconnect(r) \/ Abort(r) \/ Depart(r)
  \/ Forget \/ Expire \/ Pass \/ Elsewhere

EngineSpec == EngineInit /\ [][EngineNext]_allVars

(***************************************************************************)
(* The event loop runs every ready handler, the first-event, idle and      *)
(* overall timeouts make every attempt end, time passes and TTLs run out.  *)
(***************************************************************************)
EngineFairSpec ==
  /\ EngineSpec
  /\ \A r \in Req : WF_allVars(Step(r))
  /\ WF_allVars(Pass)
  /\ WF_allVars(Expire)

-----------------------------------------------------------------------------
(* Properties.                                                             *)

Phases == {"ready", "asleep", "open", "checking", "closing", "queued", "parting", "done"}
Plans == {"rotate", "finish", "queue", "effort", "effort if rotating"}
Verdicts == {"ok", "invalid_request", "no_healthy_credential"}
Endings == Verdicts \union {"none", "gone", "internal_error"}

RequestType ==
  [pc : Phases, cred : Cred \union {None}, tried : SUBSET Cred, attempts : Int,
   rounds : 0..MaxQueueRounds, downgraded : BOOLEAN, rejected : BOOLEAN,
   attributed : BOOLEAN, emitted : BOOLEAN, waited : BOOLEAN, nap : 0..ShortWait,
   plan : Plans, answer : Endings,
   rows : [{"ok", "attempt", "reject", "closing", "gone"} -> Nat],
   opened : SUBSET Cred, failures : SUBSET (Kinds \union NoChargeKinds)]

\* Every handler is in a phase of its loop, and every guard counts in its range.
EngineTypeOK ==
  /\ TypeOK
  /\ \A r \in Req : req[r] \in RequestType
  /\ running \in Req \union {None}
  /\ leases \in [Cred -> 0..Cardinality(Req)]
  /\ {probing, recovered} \subseteq SUBSET Scopes
  /\ \A c \in Cred : marks[c] \in Seq(Scopes)

\* However an attempt ends (success, rotation, queueing, downgrade, disconnect), its
\* lease and its probe come back: a credential nobody calls counts no lease and has
\* no scope under probe, so no failure can shut it out or skew the load balancing.  And
\* no credential is called by more requests than the limit allows, although the check
\* and the lease are separate and a retry takes its lease without a check.  Checked
\* with the types.
SlotsComeBack ==
  /\ EngineTypeOK
  /\ \A c \in Cred :
    /\ leases[c] = Cardinality(Calling(c))
    /\ InflightLimit > 0 => leases[c] <= InflightLimit
    /\ Len(marks[c]) <= leases[c]
    /\ \A scope \in probing : scope[1] = c => Calling(c) # {}

\* One request calls at most MAX_ROTATE different credentials, and one more for each
\* round it queued: a round gives its attempt back, whatever the reopened credential
\* then answers.  And one more where it is to go back to its credential with a lower
\* effort: an HTTP error does not ask for the budget, and if the credential was deleted
\* meanwhile, the request chooses another.  What a rejection or a restriction excludes
\* untried costs nothing.
RotationBudget ==
  \A r \in Req :
    Cardinality(req[r].opened)
      <= MaxRotate + req[r].rounds + (IF req[r].downgraded THEN 1 ELSE 0)

\* Once a frame has reached the client no other attempt starts: no response mixes the
\* output of two attempts, whatever fails after the frame.
OneVoice ==
  [][\A r \in Req : req[r].pc # "open" /\ req'[r].pc = "open" => ~req[r].emitted]_allVars

\* A request is counted once in the statistics that quotas are computed from: one row
\* closes it, a row of a failed attempt replaces that row unless output was already
\* billed, and no request the engine gave a verdict on leaves no trace.
CountedOnce ==
  \A r \in Req : LET w == req[r].rows IN
    /\ w.ok + w.closing + w.gone <= 1
    /\ w.closing = 1 /\ w.attempt > 0 => req[r].emitted
    /\ req[r].pc = "done" /\ req[r].answer \in Verdicts =>
         w.ok + w.closing + w.attempt + w.reject > 0

\* Whatever was cancelled at whatever await, in the end every lease and every probe is
\* given back: no credential stays shut out once nobody calls it.
SlotsDrain ==
  \A c \in Cred : <>[](leases[c] = 0 /\ \A scope \in probing : scope[1] # c)

\* Every request ends: rotation, queueing, downgrades and waiting for a short cooldown
\* all use something up, also when requests compete for the same credentials.
RequestsEnd == \A r \in Req : <>(req[r].pc = "done")

-----------------------------------------------------------------------------
(* What docs and comments of the code say and the code does not do.        *)

\* executor.py and TECHNICAL.md: 400 only when every upstream tried rejected it.
RejectedByAll ==
  \A r \in Req : req[r].answer = "invalid_request" => req[r].failures \subseteq {"reject"}
=============================================================================
