---------------------------- MODULE CredentialPool ----------------------------
(***************************************************************************)
(* The credential pool: the scheduling columns of table `credentials', the *)
(* table `credential_model_cooldowns', and the executor's window of        *)
(* accounts an upstream has restricted.  Every action is one SQLite        *)
(* transaction of db/repo.py (or several with no await between them), so   *)
(* actions interleave but never overlap.                                   *)
(*                                                                         *)
(* `A wrong X' is a variant of X with a likely slip; no action uses it.    *)
(*                                                                         *)
(* An error or a success may arrive for a credential deleted since it was  *)
(* picked: the executor then judges a placeholder candidate, and the       *)
(* writes by id touch whatever rows are left.                              *)
(***************************************************************************)
EXTENDS CooldownRules, FiniteSets

CONSTANTS
  Cred,             \* credential ids; add draws a fresh one, never reused
  Provider,
  ProviderOf,       \* the provider column, fixed by add
  Model,            \* upstream model names
  Kinds,            \* the error kinds these upstreams answer with
  RetryAts,         \* what their Retry-After headers say, relative to now
  BurstWindow,      \* RESTRICTED_BURST_WINDOW_SECONDS
  BurstCredentials, \* RESTRICTED_BURST_CREDENTIALS
  ProviderPause     \* RESTRICTED_PROVIDER_PAUSE_SECONDS

ASSUME PoolConstants ==
  /\ ProviderOf \in [Cred -> Provider]
  /\ Kinds \subseteq SchedulerKinds
  /\ RetryAts \subseteq Int
  /\ BurstWindow \in Nat
  /\ BurstCredentials \in Nat \ {0}
  /\ ProviderPause \in Nat \ {0}

VARIABLES
  life,     \* is the row of a credential not yet there, there, deleted
  row,      \* its scheduling columns
  entry,    \* credential_model_cooldowns, keyed by credential and model
  window    \* _restricted_hits: per provider, the open window of restricted ids

vars == <<life, row, entry, window>>

FreshRow == [disabled |-> FALSE, enabled |-> TRUE, pinned |-> FALSE,
             left |-> NoCooling, kind |-> NoKind, err |-> 0]
NoHits == [age |-> 0, creds |-> {}]

Live == {c \in Cred : life[c] = "live"}
Born == {c \in Cred : life[c] # "unborn"}

-----------------------------------------------------------------------------
(***************************************************************************)
(* Candidate.is_selectable, and the sieve the executor selects through:    *)
(* the row and the entry of the request's own model.                       *)
(***************************************************************************)
InService(c) == life[c] = "live" /\ ~row[c].disabled /\ row[c].enabled

\* a wrong Selectable: it takes the retention task to end a cooldown
SelectableOncePurged(c, m) ==
  InService(c) /\ row[c].left = NoCooling /\ entry[<<c, m>>].left = NoCooling
Selectable(c, m) == InService(c) /\ row[c].left <= 0 /\ entry[<<c, m>>].left <= 0

\* _clear_model_cooldowns, for every credential of a set
Cleared(cs) ==
  [cm \in Cred \X Model |-> IF cm[1] \in cs THEN NoEntry ELSE entry[cm]]

Init ==
  /\ life = [c \in Cred |-> "unborn"]
  /\ row = [c \in Cred |-> FreshRow]
  /\ entry = [cm \in Cred \X Model |-> NoEntry]
  /\ window = [p \in Provider |-> NoHits]

-----------------------------------------------------------------------------
(* Administration.                                                         *)

Add(c) ==
  /\ life[c] = "unborn"
  /\ life' = [life EXCEPT ![c] = "live"]
  /\ UNCHANGED <<row, entry, window>>

Delete(c) ==
  /\ life[c] = "live"
  /\ life' = [life EXCEPT ![c] = "deleted"]
  /\ row' = [row EXCEPT ![c] = FreshRow]
  /\ entry' = Cleared({c})
  /\ UNCHANGED window

SetEnabled(c, on) ==
  /\ life[c] = "live"
  /\ row' = [row EXCEPT ![c].enabled = on]
  /\ UNCHANGED <<life, entry, window>>

\* clear every pin, then pin the one; an id that is not there changes nothing
SetPinned(c) ==
  /\ life[c] = "live"
  /\ row' = [d \in Cred |-> [row[d] EXCEPT !.pinned = (d = c)]]
  /\ UNCHANGED <<life, entry, window>>

ClearPin ==
  /\ row' = [d \in Cred |-> [row[d] EXCEPT !.pinned = FALSE]]
  /\ UNCHANGED <<life, entry, window>>

\* a wrong Revived: no instant is kept
RevivedOutright(r, keep) ==
  [r EXCEPT !.disabled = FALSE, !.err = 0, !.left = NoCooling, !.kind = NoKind]

\* what revive and merge_login_credential leave of a row
Revived(r, keep) ==
  IF keep THEN [r EXCEPT !.disabled = FALSE, !.err = 0]
  ELSE [r EXCEPT !.disabled = FALSE, !.err = 0, !.left = NoCooling, !.kind = NoKind]

Revive(c, force) ==
  /\ life[c] = "live"
  /\ row' = [row EXCEPT ![c] = Revived(@, ~force /\ @.kind \in UpstreamKinds)]
  /\ entry' = Cleared({c})
  /\ UNCHANGED <<life, window>>

\* a new login of a known account replaces its tokens and revives the row
MergeLogin(c) ==
  /\ life[c] = "live"
  /\ row' = [row EXCEPT ![c] = Revived(@, @.kind \in UpstreamKinds)]
  /\ entry' = Cleared({c})
  /\ UNCHANGED <<life, window>>

HardDisabled(r) ==
  [r EXCEPT !.disabled = TRUE, !.err = 0, !.left = NoCooling, !.kind = NoKind]

\* the refresh task found the refresh token revoked
MarkReloginRequired(c) ==
  /\ life[c] = "live"
  /\ row' = [row EXCEPT ![c] = HardDisabled(@)]
  /\ entry' = Cleared({c})
  /\ UNCHANGED <<life, window>>

-----------------------------------------------------------------------------
(***************************************************************************)
(* One upstream error: _note_upstream_error, with note_error, save_error   *)
(* and for a restricted account the provider-wide pause.                   *)
(***************************************************************************)
ErrSeen(c) == IF life[c] = "live" THEN row[c].err ELSE 0
EntrySeen(c, m) == IF life[c] = "live" THEN entry[<<c, m>>] ELSE NoEntry

NoteModelError(c, m, kind, retry) ==
  /\ kind \in ModelKinds
  /\ entry' = [entry EXCEPT ![<<c, m>>] = EntryAfter(EntrySeen(c, m), kind, retry)]
  /\ UNCHANGED <<life, row, window>>

\* the hard disable of save_error; it leaves the model entries as they are
NoteDead(c) ==
  /\ row' = IF life[c] = "live" THEN [row EXCEPT ![c] = HardDisabled(@)] ELSE row
  /\ UNCHANGED <<life, entry, window>>

\* the UPDATE of save_error: no cooldown in the outcome leaves the old one
Charged(r, out) ==
  IF out.left = NoCooling THEN [r EXCEPT !.err = out.err]
  ELSE [r EXCEPT !.err = out.err, !.left = out.left, !.kind = out.kind]

SaveError(c, out) ==
  IF life[c] = "live" THEN [row EXCEPT ![c] = Charged(@, out)] ELSE row

NoteAccountError(c, kind, retry, tod) ==
  LET out == AccountOutcome(ErrSeen(c), kind, retry, tod) IN
  /\ kind \in AccountKinds \ {"restricted"}
  /\ row' = SaveError(c, out)
  /\ entry' = IF out.left = NoCooling THEN entry ELSE Cleared({c})
  /\ UNCHANGED <<life, window>>

\* _pause_provider_on_burst: the ids in the window once c is in it
HitBy(c) == window[ProviderOf[c]].creds \union {c}

\* a wrong Bursts: one account suffices
BurstsAlone(c) == Cardinality(HitBy(c)) >= BurstCredentials - 1

Bursts(c) == Cardinality(HitBy(c)) >= BurstCredentials

\* a wrong Paused: an account that cools already is passed over
PausedIfFree(r) ==
  IF r.left > 0 THEN r
  ELSE [r EXCEPT !.left = ProviderPause, !.kind = "restricted", !.err = 0]

\* cool_provider only ever puts the instant off
Paused(r) ==
  IF r.left >= ProviderPause THEN r
  ELSE [r EXCEPT !.left = ProviderPause, !.kind = "restricted", !.err = 0]

Siblings(c) == {d \in Live : ProviderOf[d] = ProviderOf[c]}

NoteRestricted(c, retry) ==
  LET charged == SaveError(c, AccountOutcome(ErrSeen(c), "restricted", retry, 0)) IN
  /\ window' = [window EXCEPT ![ProviderOf[c]].creds = HitBy(c)]
  /\ IF Bursts(c)
     THEN /\ row' = [d \in Cred |-> IF d \in Siblings(c) THEN Paused(charged[d])
                                                         ELSE charged[d]]
          /\ entry' = Cleared(Siblings(c) \union {c})
     ELSE /\ row' = charged
          /\ entry' = Cleared({c})
  /\ UNCHANGED life

\* only the cooldown of an empty balance depends on the time of day
TimesFor(kind) == IF kind = "credit" THEN TimesOfDay ELSE {0}

NoteError(c, m, kind) ==
  /\ c \in Born
  /\ kind \in Kinds
  /\ \/ \E retry \in RetryAts : NoteModelError(c, m, kind, retry)
     \/ kind = "dead" /\ NoteDead(c)
     \/ \E retry \in RetryAts, tod \in TimesFor(kind) : NoteAccountError(c, kind, retry, tod)
     \/ kind = "restricted" /\ \E retry \in RetryAts : NoteRestricted(c, retry)

\* save_success: the count goes, and a verdict "no such model" it disproves
NoteSuccess(c, m) ==
  /\ c \in Born
  /\ row' = IF life[c] = "live" THEN [row EXCEPT ![c].err = 0] ELSE row
  /\ entry' = IF entry[<<c, m>>].reason = "blocked"
              THEN [entry EXCEPT ![<<c, m>>] = NoEntry] ELSE entry
  /\ UNCHANGED <<life, window>>

-----------------------------------------------------------------------------
(* Background tasks and time.                                              *)

\* the probe task, or an operator, found the model served again
ClearBlocked(p, m) ==
  /\ entry' = [cm \in Cred \X Model |->
                IF /\ cm[1] \in Live
                   /\ ProviderOf[cm[1]] = p
                   /\ cm[2] = m
                   /\ entry[cm].reason = "blocked"
                THEN NoEntry ELSE entry[cm]]
  /\ UNCHANGED <<life, row, window>>

PurgeModelCooldowns ==
  /\ entry' = [cm \in Cred \X Model |->
                IF entry[cm].left <= 0 THEN NoEntry ELSE entry[cm]]
  /\ UNCHANGED <<life, row, window>>

PurgeAccountCooldowns ==
  /\ row' = [c \in Cred |->
              IF row[c].left <= 0
              THEN [row[c] EXCEPT !.left = NoCooling, !.kind = NoKind] ELSE row[c]]
  /\ UNCHANGED <<life, entry, window>>

Sooner(left) == IF left > 0 THEN left - 1 ELSE left

\* a window past its end is replaced by the next hit: forgetting it is the same
Older(w) ==
  IF w.creds = {} \/ w.age = BurstWindow THEN NoHits ELSE [w EXCEPT !.age = @ + 1]

Tick ==
  /\ row' = [c \in Cred |-> [row[c] EXCEPT !.left = Sooner(@)]]
  /\ entry' = [cm \in Cred \X Model |-> [entry[cm] EXCEPT !.left = Sooner(@)]]
  /\ window' = [p \in Provider |-> Older(window[p])]
  /\ UNCHANGED life

-----------------------------------------------------------------------------
Admin ==
  \/ \E c \in Cred : Add(c) \/ Delete(c) \/ SetPinned(c) \/ MergeLogin(c)
  \/ ClearPin
  \/ \E c \in Cred, flag \in BOOLEAN : SetEnabled(c, flag) \/ Revive(c, flag)

ErrorOf(c) == \E m \in Model, kind \in Kinds : NoteError(c, m, kind)
Error == \E c \in Cred : ErrorOf(c)

Success == \E c \in Cred, m \in Model : NoteSuccess(c, m)

Background ==
  \/ \E c \in Cred : MarkReloginRequired(c)
  \/ \E p \in Provider, m \in Model : ClearBlocked(p, m)
  \/ PurgeModelCooldowns
  \/ PurgeAccountCooldowns

Next == Admin \/ Error \/ Success \/ Background \/ Tick

Spec == Init /\ [][Next]_vars

\* time passes whatever the program does
FairSpec == Spec /\ WF_vars(Tick)

-----------------------------------------------------------------------------
(* Properties.                                                             *)

RowType == [disabled : BOOLEAN, enabled : BOOLEAN, pinned : BOOLEAN,
            left : Nat \union {NoCooling}, kind : CoolingKinds, err : 0..CountCap]
EntryType == [left : Nat \union {NoCooling}, hits : 0..CountCap, reason : ModelKinds]
WindowType == [age : 0..BurstWindow, creds : SUBSET Cred]

\* Every column holds a value of its type, the counters within their cap.
TypeOK ==
  /\ life \in [Cred -> {"unborn", "live", "deleted"}]
  /\ row \in [Cred -> RowType]
  /\ entry \in [Cred \X Model -> EntryType]
  /\ window \in [Provider -> WindowType]

\* a running cooldown has its source, and no source outlives its cooldown
SourceKnown == \A c \in Cred : row[c].left = NoCooling <=> row[c].kind = NoKind

Within(n, limits) == \E limit \in limits : n <= limit
AccountLimits ==
  {SoftCooldown, PlanCooldown, OtherCooldown, RestrictedMax, Day, ProviderPause}
EntryLimits == {ConcurrencyCooldown, ModelMax, BlockedMax, Day}

\* nothing is out for longer than the longest local constant or a day
CooldownBounded ==
  /\ \A c \in Cred : Within(row[c].left, AccountLimits)
  /\ \A cm \in Cred \X Model : Within(entry[cm].left, EntryLimits)

\* the pin names at most one credential, of the pool
AtMostOnePinned ==
  \A c, d \in Cred : row[c].pinned /\ row[d].pinned => c = d /\ life[c] = "live"

\* The columns scheduling reads fit together, whatever the order of errors, pauses,
\* resets, logins, pins and deletions.  cooling_until and cooling_kind are written by six
\* statements of repo.py, and revive and merge_login_credential decide by the kind alone
\* whether the instant survives; however far off an instant an upstream names, its
\* account comes back; and pins that race each other leave one.  Checked with the types.
PoolSound == TypeOK /\ SourceKnown /\ CooldownBounded /\ AtMostOnePinned

\* a forced revive, and neither an ordinary one nor a login does the same
ForcedRevival(c) == Revive(c, TRUE) /\ ~Revive(c, FALSE) /\ ~MergeLogin(c)

\* An instant of recovery the upstream named is never erased: while it runs, neither
\* an ordinary revive, a repeated login, a purge nor an error below its threshold
\* puts the account back into the pool.  Only time, a forced revive of this account or
\* a hard disable ends it; an error may replace it, by another instant in the future.
RecoveryInstantKept ==
  [][\A c \in Live \intersect Live' :
       /\ row[c].left > 0
       /\ row[c].kind \in UpstreamKinds
       /\ ~row'[c].disabled
       => row'[c].left > 0 \/ Tick \/ ForcedRevival(c)]_vars

\* An error of one account touches another account only as a pause of their common
\* provider, which takes restrictions of as many different accounts within the window
\* as the rule asks for: one account failing again and again pauses nobody else, and
\* a pause lengthens cooldowns, never shortens one.
ErrorsStayHome ==
  [][\A c \in Cred : ErrorOf(c) =>
       \A d \in Cred \ {c} : row'[d] # row[d] =>
         /\ ProviderOf[d] = ProviderOf[c]
         /\ Cardinality(window'[ProviderOf[c]].creds) >= BurstCredentials
         /\ row'[d].left > row[d].left]_vars

\* The restriction that completes a burst takes every account of the provider out at
\* once, paused at least the whole pause long and with no model entry left that a
\* later check of another model could slip past.
BurstPausesProvider ==
  [][\A p \in Provider :
       /\ window'[p].creds # window[p].creds
       /\ Cardinality(window'[p].creds) >= BurstCredentials
       => \A c \in Live : ProviderOf[c] = p =>
            /\ row'[c].left >= ProviderPause
            /\ \A m \in Model : ~HasEntry(entry'[<<c, m>>])]_vars

\* Cooldowns run out by themselves, on both levels, whether or not the retention task
\* ever purges: unless errors keep coming, an account in service is selectable for
\* every model again and again.
PoolRecovers ==
  <>[][~Error]_vars =>
    \A c \in Cred, m \in Model : []<>(InService(c) => Selectable(c, m))
=============================================================================
