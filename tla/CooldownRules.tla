---------------------------- MODULE CooldownRules ----------------------------
(***************************************************************************)
(* The cooldown algebra of engine/scheduler.py: how long one upstream      *)
(* error keeps a credential, or one model of a credential, out of the      *)
(* pool.  It is pure: EntryAfter and AccountOutcome are the two halves of  *)
(* Scheduler.note_error, and CredentialPool persists what they return.     *)
(*                                                                         *)
(* Instants are relative to the present.  `cooling_until' is the number of *)
(* time units left: NoCooling stands for SQL NULL, 0 for an instant that   *)
(* is already past (the code only ever compares it with now), and a        *)
(* Retry-After instant may be in the past (negative).                      *)
(***************************************************************************)
EXTENDS Integers

CONSTANTS
  SoftCooldown,        \* SOFT_COOLDOWN_SECONDS
  PlanCooldown,        \* PLAN_COOLDOWN_SECONDS
  OtherCooldown,       \* OTHER_COOLDOWN_SECONDS
  ConcurrencyCooldown, \* CONCURRENCY_COOLDOWN_SECONDS
  RestrictedBase,      \* RESTRICTED_COOLDOWN_SECONDS
  RestrictedMax,       \* RESTRICTED_COOLDOWN_MAX_SECONDS
  ModelBase,           \* MODEL_COOLDOWN_SECONDS
  ModelMax,            \* MODEL_COOLDOWN_MAX_SECONDS
  BlockedBase,         \* BLOCKED_BASE_SECONDS
  BlockedMax,          \* BLOCKED_MAX_SECONDS
  BlockedShiftMax,     \* BLOCKED_SHIFT_MAX
  Day,                 \* RETRY_AT_MAX_SECONDS, and the length of a day
  ResetHour,           \* CREDIT_RESET_HOUR
  ErrThreshold,        \* ERR_THRESHOLD
  CountCap             \* bound of the model: err_count and hits saturate here

ASSUME DurationsAreNat ==
  /\ {SoftCooldown, PlanCooldown, OtherCooldown, ConcurrencyCooldown} \subseteq Nat \ {0}
  /\ {RestrictedBase, RestrictedMax, ModelBase, ModelMax} \subseteq Nat \ {0}
  /\ {BlockedBase, BlockedMax, Day, ErrThreshold} \subseteq Nat \ {0}
  /\ BlockedShiftMax \in 0..8
  /\ ResetHour \in 0..(Day - 1)

ASSUME CountCapType == CountCap \in 1..9

\* no Retry-After; clamp_retry_at answers it as it does an instant in the past
NoRetry == -1
NoCooling == -1        \* cooling_until IS NULL

MinOf(a, b) == IF a <= b THEN a ELSE b

-----------------------------------------------------------------------------
(***************************************************************************)
(* The error kinds that change a credential.  The no-penalty kinds         *)
(* (request, context, network) return before note_error, a queue signal    *)
(* waits or is handled as soft, invalid and capability skip the provider:  *)
(* none of them writes to the pool.                                        *)
(***************************************************************************)
ModelKinds == {"model", "blocked", "concurrency"}
AccountKinds == {"soft", "plan", "credit", "restricted", "other"}
SchedulerKinds == ModelKinds \union AccountKinds \union {"dead"}

\* UPSTREAM_COOLDOWN_KINDS: the upstream named the instant of recovery
UpstreamKinds == {"soft", "credit", "plan", "restricted"}

NoKind == "null"
CoolingKinds == AccountKinds \union {NoKind}

\* 2 ** k for the exponents the code uses, min(level, 8) at most
Doublings == <<1, 2, 4, 8, 16, 32, 64, 128, 256>>
Doubled(base, k) == base * Doublings[MinOf(k, 8) + 1]

RestrictedDuration(level) == MinOf(Doubled(RestrictedBase, level), RestrictedMax)

ModelDuration(hits) == MinOf(Doubled(ModelBase, hits - 1), ModelMax)

BlockedDuration(hits) ==
  MinOf(Doubled(BlockedBase, MinOf(hits - 1, BlockedShiftMax)), BlockedMax)

(***************************************************************************)
(* The counters of the code are unbounded.  Every duration and every test  *)
(* of the code is constant from CountCap on, so saturating loses nothing.  *)
(***************************************************************************)
ASSUME CountCapSaturates ==
  /\ CountCap >= ErrThreshold
  /\ CountCap > BlockedShiftMax
  /\ RestrictedDuration(CountCap) = RestrictedMax
  /\ ModelDuration(CountCap) = ModelMax

(***************************************************************************)
(* next_credit_reset: how far the next 04:00 is at time of day tod.  At    *)
(* 04:00 sharp it is tomorrow's, a whole day away.                         *)
(***************************************************************************)
TimesOfDay == 0..(Day - 1)
CreditReset(tod) ==
  IF tod >= ResetHour THEN ResetHour + Day - tod ELSE ResetHour - tod

\* a wrong Clamp: whatever the upstream says
ClampOpen(retry, constant) == IF retry <= constant THEN constant ELSE retry

(***************************************************************************)
(* clamp_retry_at: an absent, past or shorter instant yields the constant  *)
(* of the kind, a far one the 24h ceiling, anything between is adopted.    *)
(***************************************************************************)
Clamp(retry, constant) ==
  IF retry <= constant THEN constant ELSE MinOf(retry, Day)

-----------------------------------------------------------------------------
(***************************************************************************)
(* One row of credential_model_cooldowns; hits = 0 says there is no row.   *)
(***************************************************************************)
NoEntry == [left |-> NoCooling, hits |-> 0, reason |-> "model"]
HasEntry(e) == e.hits > 0

EntryDuration(kind, hits) ==
  CASE kind = "concurrency" -> ConcurrencyCooldown
    [] kind = "blocked"     -> BlockedDuration(hits)
    [] kind = "model"       -> ModelDuration(hits)

\* the model-scoped branch of note_error: a new reason counts from one again
EntryAfter(entry, kind, retry) ==
  LET again == HasEntry(entry) /\ entry.reason = kind
      hits == IF again THEN MinOf(entry.hits + 1, CountCap) ELSE 1
  IN  [left |-> Clamp(retry, EntryDuration(kind, hits)), hits |-> hits, reason |-> kind]

(***************************************************************************)
(* The account-level branches of note_error, for a credential whose        *)
(* counter is err.  left = NoCooling and kind = NoKind say that the        *)
(* outcome carries no cooldown, which save_error leaves alone.             *)
(***************************************************************************)
Outcome(left, kind, err) == [left |-> left, kind |-> kind, err |-> err]

AccountOutcome(err, kind, retry, tod) ==
  CASE kind = "restricted" ->
         Outcome(Clamp(retry, RestrictedDuration(err)), kind, MinOf(err + 1, CountCap))
    [] kind = "credit" -> Outcome(Clamp(retry, CreditReset(tod)), kind, 0)
    [] kind = "plan" -> Outcome(Clamp(retry, PlanCooldown), kind, 0)
    [] kind = "soft" -> Outcome(Clamp(retry, SoftCooldown), kind, err)
    [] kind = "other" /\ err + 1 >= ErrThreshold ->
         Outcome(Clamp(retry, OtherCooldown), kind, 0)
    [] kind = "other" /\ err + 1 < ErrThreshold -> Outcome(NoCooling, NoKind, err + 1)
=============================================================================
