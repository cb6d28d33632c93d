--------------------------- MODULE ChatEngineProofs ---------------------------
(***************************************************************************)
(* What holds of the pool for any number of credentials, providers and     *)
(* models, any durations and any instants upstreams name, and then of      *)
(* every request of ChatEngine, for any number of requests, and of the     *)
(* slots they take.                                                        *)
(***************************************************************************)
EXTENDS ChatEngine, FiniteSetTheorems, TLAPS

-----------------------------------------------------------------------------
(* The cooldown algebra: every duration is a positive number within the    *)
(* limit of its kind.                                                      *)

\* A product of positive numbers is positive.
LEMMA ProductPositive == \A a, b \in Nat \ {0} : a * b \in Nat \ {0}
  OBVIOUS

\* Doubling a duration yields a positive number, for every exponent.
LEMMA DoubledPositive ==
  ASSUME NEW base \in Nat \ {0}, NEW k \in Nat
  PROVE  Doubled(base, k) \in Nat \ {0}
<1>1. MinOf(k, 8) + 1 \in 1..9
  BY DEF MinOf
<1>2. Doublings[MinOf(k, 8) + 1] \in Nat \ {0}
  <2>1. \A i \in 1..9 : Doublings[i] \in Nat \ {0}
    BY DEF Doublings
  <2> QED BY <1>1, <2>1
<1> QED BY <1>2, ProductPositive DEF Doubled

\* The smaller of two positive numbers is positive.
LEMMA MinPositive == \A a, b \in Nat \ {0} : MinOf(a, b) \in Nat \ {0} /\ MinOf(a, b) <= b
  BY DEF MinOf

\* The escalating durations stay within their maxima.
LEMMA Durations ==
  /\ \A level \in 0..CountCap :
       RestrictedDuration(level) \in Nat \ {0} /\ RestrictedDuration(level) <= RestrictedMax
  /\ \A hits \in 1..CountCap :
       ModelDuration(hits) \in Nat /\ ModelDuration(hits) <= ModelMax
  /\ \A hits \in 1..CountCap :
       BlockedDuration(hits) \in Nat /\ BlockedDuration(hits) <= BlockedMax
<1> USE DurationsAreNat, CountCapType
<1>1. ASSUME NEW level \in 0..CountCap
      PROVE  RestrictedDuration(level) \in Nat \ {0} /\ RestrictedDuration(level) <= RestrictedMax
  <2>1. level \in Nat /\ RestrictedBase \in Nat \ {0}
    OBVIOUS
  <2>2. Doubled(RestrictedBase, level) \in Nat \ {0} /\ RestrictedMax \in Nat \ {0}
    BY <2>1, DoubledPositive
  <2> QED BY <2>2, MinPositive DEF RestrictedDuration
<1>2. ASSUME NEW hits \in 1..CountCap
      PROVE  ModelDuration(hits) \in Nat /\ ModelDuration(hits) <= ModelMax
  <2>1. hits - 1 \in Nat /\ ModelBase \in Nat \ {0}
    OBVIOUS
  <2>2. Doubled(ModelBase, hits - 1) \in Nat \ {0} /\ ModelMax \in Nat \ {0}
    BY <2>1, DoubledPositive
  <2> QED BY <2>2, MinPositive DEF ModelDuration
<1>3. ASSUME NEW hits \in 1..CountCap
      PROVE  BlockedDuration(hits) \in Nat /\ BlockedDuration(hits) <= BlockedMax
  <2>1. MinOf(hits - 1, BlockedShiftMax) \in Nat
    BY DEF MinOf
  <2>2. Doubled(BlockedBase, MinOf(hits - 1, BlockedShiftMax)) \in Nat \ {0}
    BY <2>1, DoubledPositive
  <2> QED BY <2>2, MinPositive DEF BlockedDuration
<1> QED BY <1>1, <1>2, <1>3

\* The next reset of a balance is at most a day away, and never now.
LEMMA ResetWithinDay ==
  \A tod \in TimesOfDay : CreditReset(tod) \in Nat \ {0} /\ CreditReset(tod) <= Day
BY DurationsAreNat DEF TimesOfDay, CreditReset

\* clamp_retry_at returns the constant or an instant of at most a day.
LEMMA ClampBounds ==
  ASSUME NEW retry \in Int, NEW constant \in Nat
  PROVE  /\ Clamp(retry, constant) \in Nat
         /\ Clamp(retry, constant) = constant \/ Clamp(retry, constant) <= Day
BY DurationsAreNat DEF Clamp, MinOf

\* It never returns the present: every cooldown lasts for a while.
LEMMA ClampPositive ==
  ASSUME NEW retry \in Int, NEW constant \in Nat \ {0}
  PROVE  /\ Clamp(retry, constant) \in Nat \ {0}
         /\ Clamp(retry, constant) = constant \/ Clamp(retry, constant) <= Day
BY DurationsAreNat DEF Clamp, MinOf

-----------------------------------------------------------------------------
(* What the two halves of note_error return.                               *)

\* The outcome of an account-level error carries a cooldown together with its kind, or
\* neither; its counter is within the cap and its cooldown within the limits.
LEMMA AccountOutcomes ==
  ASSUME NEW err \in 0..CountCap, NEW kind \in AccountKinds,
         NEW retry \in Int, NEW tod \in TimesOfDay
  PROVE  LET out == AccountOutcome(err, kind, retry, tod) IN
         /\ out.err \in 0..CountCap
         /\ \/ out.left = NoCooling /\ out.kind = NoKind
            \/ out.left \in Nat \ {0} /\ out.kind = kind
         /\ Within(out.left, AccountLimits)
<1> USE DurationsAreNat, CountCapType
<1>1. CASE kind = "restricted"
  <2>1. /\ RestrictedDuration(err) \in Nat \ {0}
        /\ RestrictedDuration(err) <= RestrictedMax
    BY Durations
  <2>2. /\ Clamp(retry, RestrictedDuration(err)) \in Nat \ {0}
        /\ \/ Clamp(retry, RestrictedDuration(err)) = RestrictedDuration(err)
           \/ Clamp(retry, RestrictedDuration(err)) <= Day
    BY <2>1, ClampPositive
  <2>3. Within(Clamp(retry, RestrictedDuration(err)), AccountLimits)
    BY <2>1, <2>2 DEF Within, AccountLimits
  <2>4. MinOf(err + 1, CountCap) \in 0..CountCap
    BY DEF MinOf
  <2> QED BY <1>1, <2>2, <2>3, <2>4 DEF AccountOutcome, Outcome
<1>2. CASE kind = "credit"
  <2>1. CreditReset(tod) \in Nat \ {0} /\ CreditReset(tod) <= Day
    BY ResetWithinDay
  <2>2. /\ Clamp(retry, CreditReset(tod)) \in Nat \ {0}
        /\ \/ Clamp(retry, CreditReset(tod)) = CreditReset(tod)
           \/ Clamp(retry, CreditReset(tod)) <= Day
    BY <2>1, ClampPositive
  <2>3. Within(Clamp(retry, CreditReset(tod)), AccountLimits)
    BY <2>1, <2>2 DEF Within, AccountLimits
  <2> QED BY <1>2, <2>2, <2>3 DEF AccountOutcome, Outcome
<1>3. ASSUME NEW constant \in {PlanCooldown, SoftCooldown, OtherCooldown}
      PROVE  Clamp(retry, constant) \in Nat \ {0} /\ Within(Clamp(retry, constant), AccountLimits)
  <2>1. constant \in Nat \ {0}
    OBVIOUS
  <2>2. /\ Clamp(retry, constant) \in Nat \ {0}
        /\ Clamp(retry, constant) = constant \/ Clamp(retry, constant) <= Day
    BY <2>1, ClampPositive
  <2> QED BY <2>1, <2>2 DEF Within, AccountLimits
<1>4. CASE kind = "plan"
  BY <1>3, <1>4 DEF AccountOutcome, Outcome
<1>5. CASE kind = "soft"
  BY <1>3, <1>5 DEF AccountOutcome, Outcome
<1>6. CASE kind = "other" /\ err + 1 >= ErrThreshold
  BY <1>3, <1>6 DEF AccountOutcome, Outcome
<1>7. CASE kind = "other" /\ err + 1 < ErrThreshold
  <2>1. Within(NoCooling, AccountLimits)
    BY DEF Within, AccountLimits, NoCooling
  <2>2. err + 1 \in 0..CountCap
    BY <1>7, CountCapSaturates
  <2> QED BY <1>7, <2>1, <2>2 DEF AccountOutcome, Outcome
<1>8. \/ kind \in {"restricted", "credit", "plan", "soft"}
      \/ kind = "other" /\ err + 1 >= ErrThreshold
      \/ kind = "other" /\ err + 1 < ErrThreshold
  BY DEF AccountKinds
<1> QED BY <1>1, <1>2, <1>4, <1>5, <1>6, <1>7, <1>8

\* A model entry after an error is of its type and within the limits of entries.
LEMMA EntriesAfter ==
  ASSUME NEW old \in EntryType, NEW kind \in ModelKinds, NEW retry \in Int
  PROVE  /\ EntryAfter(old, kind, retry) \in EntryType
         /\ Within(EntryAfter(old, kind, retry).left, EntryLimits)
<1> USE DurationsAreNat, CountCapType
<1> DEFINE hits == IF HasEntry(old) /\ old.reason = kind THEN MinOf(old.hits + 1, CountCap) ELSE 1
           span == EntryDuration(kind, hits)
<1>1. hits \in 1..CountCap
  BY DEF HasEntry, MinOf, EntryType
<1> HIDE DEF hits
<1>2. /\ span \in Nat
      /\ span \in {ConcurrencyCooldown} \/ span <= ModelMax \/ span <= BlockedMax
  <2>1. CASE kind = "concurrency"
    BY <2>1 DEF EntryDuration
  <2>2. CASE kind = "blocked"
    BY <1>1, <2>2, Durations DEF EntryDuration
  <2>3. CASE kind = "model"
    BY <1>1, <2>3, Durations DEF EntryDuration
  <2> QED BY <2>1, <2>2, <2>3 DEF ModelKinds
<1> HIDE DEF span
<1>3. /\ Clamp(retry, span) \in Nat
      /\ Clamp(retry, span) = span \/ Clamp(retry, span) <= Day
  BY <1>2, ClampBounds
<1>4. EntryAfter(old, kind, retry) = [left |-> Clamp(retry, span), hits |-> hits, reason |-> kind]
  BY DEF EntryAfter, hits, span
<1>5. Within(Clamp(retry, span), EntryLimits)
  BY <1>2, <1>3 DEF Within, EntryLimits
<1>6. [left |-> Clamp(retry, span), hits |-> hits, reason |-> kind] \in EntryType
  BY <1>1, <1>3 DEF EntryType
<1> QED BY <1>4, <1>5, <1>6

-----------------------------------------------------------------------------
(***************************************************************************)
(* The inductive invariant: the type invariant and the three state         *)
(* properties of the pool, grouped by the variable they speak of.          *)
(***************************************************************************)
GoodRow(r) ==
  /\ r \in RowType
  /\ r.left = NoCooling <=> r.kind = NoKind
  /\ Within(r.left, AccountLimits)

GoodEntry(e) == e \in EntryType /\ Within(e.left, EntryLimits)

LifeInv == life \in [Cred -> {"unborn", "live", "deleted"}]
GoodRows(f) == f \in [Cred -> RowType] /\ \A c \in Cred : GoodRow(f[c])
RowInv == GoodRows(row)
GoodEntries(f) ==
  f \in [Cred \X Model -> EntryType] /\ \A cm \in Cred \X Model : GoodEntry(f[cm])
EntryInv == GoodEntries(entry)
WindowInv == window \in [Provider -> WindowType]

IInv == LifeInv /\ RowInv /\ EntryInv /\ WindowInv /\ AtMostOnePinned

\* The invariant is the conjunction of what the runs check.
LEMMA InvariantParts == IInv <=> TypeOK /\ SourceKnown /\ CooldownBounded /\ AtMostOnePinned
BY DEF IInv, LifeInv, RowInv, GoodRows, EntryInv, GoodEntries, WindowInv, GoodRow,
       GoodEntry, TypeOK, SourceKnown, CooldownBounded

\* No cooldown at all is within every limit, and a type of its own.
LEMMA NoCoolingBounded ==
  /\ Within(NoCooling, AccountLimits)
  /\ Within(NoCooling, EntryLimits)
  /\ NoKind \notin AccountKinds
  /\ 0 \in 0..CountCap
<1>1. SoftCooldown \in AccountLimits /\ NoCooling <= SoftCooldown
  BY DurationsAreNat DEF AccountLimits, NoCooling
<1>2. ModelMax \in EntryLimits /\ NoCooling <= ModelMax
  BY DurationsAreNat DEF EntryLimits, NoCooling
<1>3. NoKind \notin AccountKinds
  BY DEF NoKind, AccountKinds
<1>4. 0 \in 0..CountCap
  BY CountCapType
<1> QED BY <1>1, <1>2, <1>3, <1>4 DEF Within

\* The row an add writes is a good one, and not pinned.
LEMMA FreshRowGood == GoodRow(FreshRow) /\ ~FreshRow.pinned
<1>1. FreshRow \in RowType
  BY CountCapType DEF FreshRow, RowType, CoolingKinds
<1>2. FreshRow.left = NoCooling /\ FreshRow.kind = NoKind /\ ~FreshRow.pinned
  BY DEF FreshRow
<1> QED BY <1>1, <1>2, NoCoolingBounded DEF GoodRow

\* A revived row is a good one, pinned as before.
LEMMA RevivedGood ==
  ASSUME NEW r, GoodRow(r), NEW keep \in BOOLEAN
  PROVE  GoodRow(Revived(r, keep)) /\ Revived(r, keep).pinned = r.pinned
<1>0. r \in RowType
  BY DEF GoodRow
<1>1. CASE keep
  <2>1. Revived(r, keep) = [r EXCEPT !.disabled = FALSE, !.err = 0]
    BY <1>1 DEF Revived
  <2>2. [r EXCEPT !.disabled = FALSE, !.err = 0] \in RowType
    BY <1>0, NoCoolingBounded DEF RowType
  <2>3. /\ Revived(r, keep).left = r.left
        /\ Revived(r, keep).kind = r.kind
        /\ Revived(r, keep).pinned = r.pinned
    BY <1>0, <2>1 DEF RowType
  <2> QED BY <2>1, <2>2, <2>3 DEF GoodRow
<1>2. CASE ~keep
  <2>1. Revived(r, keep) =
          [r EXCEPT !.disabled = FALSE, !.err = 0, !.left = NoCooling, !.kind = NoKind]
    BY <1>2 DEF Revived
  <2>2. Revived(r, keep) \in RowType
    BY <1>0, <2>1, NoCoolingBounded DEF RowType, CoolingKinds
  <2>3. /\ Revived(r, keep).left = NoCooling
        /\ Revived(r, keep).kind = NoKind
        /\ Revived(r, keep).pinned = r.pinned
    BY <1>0, <2>1 DEF RowType
  <2> QED BY <2>2, <2>3, NoCoolingBounded DEF GoodRow
<1> QED BY <1>1, <1>2

\* A hard disabled row is a good one, pinned as before.
LEMMA HardDisabledGood ==
  ASSUME NEW r, GoodRow(r)
  PROVE  GoodRow(HardDisabled(r)) /\ HardDisabled(r).pinned = r.pinned
<1>0. r \in RowType
  BY DEF GoodRow
<1>1. HardDisabled(r) \in RowType
  BY <1>0, NoCoolingBounded DEF HardDisabled, RowType, CoolingKinds
<1>2. /\ HardDisabled(r).left = NoCooling
      /\ HardDisabled(r).kind = NoKind
      /\ HardDisabled(r).pinned = r.pinned
  BY <1>0 DEF HardDisabled, RowType
<1> QED BY <1>1, <1>2, NoCoolingBounded DEF GoodRow

\* A paused row is a good one, pinned as before, and cools the pause long at least.
LEMMA PausedGood ==
  ASSUME NEW r, GoodRow(r)
  PROVE  /\ GoodRow(Paused(r))
         /\ Paused(r).pinned = r.pinned
         /\ Paused(r).left >= ProviderPause
         /\ Paused(r) # r => Paused(r).left > r.left
<1>0. r \in RowType /\ r.left \in Int
  BY DEF GoodRow, RowType, NoCooling
<1>1. CASE r.left >= ProviderPause
  BY <1>1 DEF Paused
<1>2. CASE ~(r.left >= ProviderPause)
  <2>1. Paused(r) = [r EXCEPT !.left = ProviderPause, !.kind = "restricted", !.err = 0]
    BY <1>2 DEF Paused
  <2>2. Paused(r) \in RowType
    BY <1>0, <2>1, NoCoolingBounded, PoolConstants DEF RowType, CoolingKinds, AccountKinds
  <2>3. /\ Paused(r).left = ProviderPause
        /\ Paused(r).kind = "restricted"
        /\ Paused(r).pinned = r.pinned
    BY <1>0, <2>1 DEF RowType
  <2>4. Within(ProviderPause, AccountLimits)
    BY PoolConstants DEF Within, AccountLimits
  <2>5. ProviderPause # NoCooling /\ "restricted" # NoKind
    BY PoolConstants DEF NoCooling, NoKind
  <2> QED BY <1>0, <1>2, <2>2, <2>3, <2>4, <2>5, PoolConstants DEF GoodRow
<1> QED BY <1>1, <1>2

\* One time unit less keeps a cooldown within its limits, and NULL is no instant.
LEMMA SoonerBounds ==
  ASSUME NEW left \in Nat \union {NoCooling}
  PROVE  /\ Sooner(left) \in Nat \union {NoCooling}
         /\ Sooner(left) <= left
         /\ Sooner(left) = NoCooling <=> left = NoCooling
BY DEF Sooner, NoCooling

\* What is less than a bounded cooldown is bounded.
LEMMA WithinLess ==
  ASSUME NEW limits \in SUBSET Int, NEW n \in Int, NEW k \in Int, n <= k, Within(k, limits)
  PROVE  Within(n, limits)
BY DEF Within

\* A row charged with the outcome of note_error is a good one, pinned as before.  An
\* outcome without a cooldown leaves the cooldown of the row.
LEMMA ChargedGood ==
  ASSUME NEW r, GoodRow(r), NEW kind \in AccountKinds, NEW retry \in Int, NEW tod \in TimesOfDay,
         NEW err \in 0..CountCap
  PROVE  LET out == AccountOutcome(err, kind, retry, tod) IN
         GoodRow(Charged(r, out)) /\ Charged(r, out).pinned = r.pinned
<1> DEFINE out == AccountOutcome(err, kind, retry, tod)
<1>0. r \in RowType
  BY DEF GoodRow
<1>1. /\ out.err \in 0..CountCap
      /\ \/ out.left = NoCooling /\ out.kind = NoKind
         \/ out.left \in Nat /\ out.kind = kind
      /\ Within(out.left, AccountLimits)
  BY AccountOutcomes
<1> SUFFICES GoodRow(Charged(r, out)) /\ Charged(r, out).pinned = r.pinned
  OBVIOUS
<1> HIDE DEF out
<1>2. CASE out.left = NoCooling
  <2>1. Charged(r, out) = [r EXCEPT !.err = out.err]
    BY <1>2 DEF Charged
  <2>2. Charged(r, out) \in RowType
    BY <1>0, <1>1, <2>1 DEF RowType
  <2>3. /\ Charged(r, out).left = r.left
        /\ Charged(r, out).kind = r.kind
        /\ Charged(r, out).pinned = r.pinned
    BY <1>0, <2>1 DEF RowType
  <2> QED BY <2>2, <2>3 DEF GoodRow
<1>3. CASE out.left # NoCooling
  <2>1. Charged(r, out) = [r EXCEPT !.err = out.err, !.left = out.left, !.kind = out.kind]
    BY <1>3 DEF Charged
  <2>2. out.left \in Nat /\ out.kind = kind
    BY <1>1, <1>3
  <2>3. Charged(r, out) \in RowType
    BY <1>0, <1>1, <2>1, <2>2 DEF RowType, CoolingKinds
  <2>4. /\ Charged(r, out).left = out.left
        /\ Charged(r, out).kind = kind
        /\ Charged(r, out).pinned = r.pinned
    BY <1>0, <2>1, <2>2 DEF RowType
  <2> QED BY <1>1, <1>3, <2>3, <2>4, NoCoolingBounded DEF GoodRow
<1> QED BY <1>2, <1>3

\* Pinning or unpinning leaves a row good.
LEMMA RepinnedGood ==
  ASSUME NEW r, GoodRow(r), NEW pin \in BOOLEAN
  PROVE  GoodRow([r EXCEPT !.pinned = pin]) /\ [r EXCEPT !.pinned = pin].pinned = pin
BY DEF GoodRow, RowType

\* No entry at all is a good entry.
LEMMA NoEntryGood == GoodEntry(NoEntry)
<1>1. NoEntry \in EntryType /\ NoEntry.left = NoCooling
  BY NoCoolingBounded DEF NoEntry, EntryType, ModelKinds
<1> QED BY <1>1, NoCoolingBounded DEF GoodEntry

-----------------------------------------------------------------------------
(* What one step of a variable preserves.                                  *)

\* Giving one credential a good row pinned as before keeps the rows good and the pins.
LEMMA RowUpdated ==
  ASSUME RowInv, NEW c \in Cred, NEW r, GoodRow(r), r.pinned = row[c].pinned,
         row' = [row EXCEPT ![c] = r]
  PROVE  RowInv' /\ \A d \in Cred : row'[d].pinned = row[d].pinned
<1>1. r \in RowType
  BY DEF GoodRow
<1>2. \A d \in Cred : row'[d] = IF d = c THEN r ELSE row[d]
  BY DEF RowInv, GoodRows
<1>3. row' \in [Cred -> RowType]
  BY <1>1 DEF RowInv, GoodRows
<1>4. \A d \in Cred : GoodRow(row'[d])
  BY <1>2 DEF RowInv, GoodRows
<1> QED BY <1>2, <1>3, <1>4 DEF RowInv, GoodRows

\* Giving every credential a good row keeps the rows good.
LEMMA RowsMapped ==
  ASSUME NEW f, f = [c \in Cred |-> f[c]], \A c \in Cred : GoodRow(f[c])
  PROVE  GoodRows(f)
BY DEF GoodRows, GoodRow

\* Giving every pair of a credential and a model a good entry keeps the entries good.
LEMMA EntriesMapped ==
  ASSUME NEW f, f = [cm \in Cred \X Model |-> f[cm]], \A cm \in Cred \X Model : GoodEntry(f[cm])
  PROVE  GoodEntries(f)
BY DEF GoodEntries, GoodEntry

\* Clearing the entries of some credentials keeps the entries good.
LEMMA ClearedGood ==
  ASSUME EntryInv, NEW cs
  PROVE  GoodEntries(Cleared(cs))
<1>1. \A cm \in Cred \X Model : GoodEntry(Cleared(cs)[cm])
  BY NoEntryGood DEF EntryInv, GoodEntries, Cleared
<1>2. Cleared(cs) = [cm \in Cred \X Model |-> Cleared(cs)[cm]]
  BY DEF Cleared
<1> QED BY <1>1, <1>2, EntriesMapped

\* Giving one pair a good entry keeps the entries good.
LEMMA EntryUpdated ==
  ASSUME EntryInv, NEW c \in Cred, NEW m \in Model, NEW e, GoodEntry(e),
         entry' = [entry EXCEPT ![<<c, m>>] = e]
  PROVE  EntryInv'
<1>1. e \in EntryType /\ <<c, m>> \in Cred \X Model
  BY DEF GoodEntry
<1>2. entry' \in [Cred \X Model -> EntryType]
  BY <1>1 DEF EntryInv, GoodEntries
<1>3. \A cm \in Cred \X Model : entry'[cm] = IF cm = <<c, m>> THEN e ELSE entry[cm]
  BY <1>1 DEF EntryInv, GoodEntries
<1> QED BY <1>2, <1>3 DEF EntryInv, GoodEntries

\* No new pin, and no change in the life of a pinned credential: the pin is still one.
LEMMA PinsKept ==
  ASSUME AtMostOnePinned,
         \A d \in Cred : row'[d].pinned => row[d].pinned /\ life'[d] = life[d]
  PROVE  AtMostOnePinned'
BY DEF AtMostOnePinned

-----------------------------------------------------------------------------
(* Every action preserves the invariant.                                   *)

\* What the operators do: add, delete, enable, pin, revive, and a repeated login.
LEMMA AdminKeepsInvariant ==
  ASSUME IInv, Admin
  PROVE  IInv'
<1> USE DEF IInv
<1>1. ASSUME NEW c \in Cred, Add(c)
      PROVE  IInv'
  <2>1. LifeInv' /\ \A d \in Cred : row[d].pinned => life'[d] = life[d]
    BY <1>1 DEF Add, LifeInv, AtMostOnePinned
  <2>2. RowInv' /\ EntryInv' /\ WindowInv' /\ row' = row
    BY <1>1 DEF Add, RowInv, EntryInv, WindowInv
  <2> QED BY <2>1, <2>2, PinsKept
<1>2. ASSUME NEW c \in Cred, Delete(c)
      PROVE  IInv'
  <2>1. LifeInv' /\ \A d \in Cred \ {c} : life'[d] = life[d]
    BY <1>2 DEF Delete, LifeInv
  <2>2. \A d \in Cred : row'[d] = IF d = c THEN FreshRow ELSE row[d]
    BY <1>2 DEF Delete, RowInv, GoodRows
  <2>3. RowInv'
    <3>1. row' = [d \in Cred |-> row'[d]]
      BY <1>2 DEF Delete, RowInv, GoodRows
    <3>2. \A d \in Cred : GoodRow(row'[d])
      BY <2>2, FreshRowGood DEF RowInv, GoodRows
    <3> QED BY <3>1, <3>2, RowsMapped DEF RowInv
  <2>4. EntryInv' /\ WindowInv'
    BY <1>2, ClearedGood DEF Delete, EntryInv, WindowInv
  <2>5. AtMostOnePinned'
    BY <2>1, <2>2, FreshRowGood, PinsKept
  <2> QED BY <2>1, <2>3, <2>4, <2>5
<1>3. ASSUME NEW c \in Cred, NEW on \in BOOLEAN, SetEnabled(c, on)
      PROVE  IInv'
  <2>1. /\ GoodRow([row[c] EXCEPT !.enabled = on])
        /\ [row[c] EXCEPT !.enabled = on].pinned = row[c].pinned
    BY DEF RowInv, GoodRows, GoodRow, RowType
  <2>2. row' = [row EXCEPT ![c] = [row[c] EXCEPT !.enabled = on]]
    BY <1>3 DEF SetEnabled
  <2>3. RowInv' /\ \A d \in Cred : row'[d].pinned = row[d].pinned
    BY <2>1, <2>2, RowUpdated
  <2>4. LifeInv' /\ EntryInv' /\ WindowInv' /\ life' = life
    BY <1>3 DEF SetEnabled, LifeInv, EntryInv, WindowInv
  <2> QED BY <2>3, <2>4, PinsKept
<1>4. ASSUME NEW c \in Cred, SetPinned(c)
      PROVE  IInv'
  <2>1. \A d \in Cred : row'[d] = [row[d] EXCEPT !.pinned = (d = c)]
    BY <1>4 DEF SetPinned
  <2>2. \A d \in Cred : GoodRow(row'[d]) /\ row'[d].pinned = (d = c)
    <3>1. ASSUME NEW d \in Cred
          PROVE  GoodRow(row'[d]) /\ row'[d].pinned = (d = c)
      <4> DEFINE pin == (d = c)
      <4>1. GoodRow(row[d]) /\ pin \in BOOLEAN
        BY DEF RowInv, GoodRows
      <4>2. row'[d] = [row[d] EXCEPT !.pinned = pin]
        BY <2>1
      <4> HIDE DEF pin
      <4>3. GoodRow(row'[d]) /\ row'[d].pinned = pin
        BY <4>1, <4>2, RepinnedGood
      <4> QED BY <4>3 DEF pin
    <3> QED BY <3>1
  <2>3. RowInv'
    <3>1. row' = [d \in Cred |-> row'[d]]
      BY <1>4 DEF SetPinned
    <3> QED BY <2>2, <3>1, RowsMapped DEF RowInv
  <2>4. LifeInv' /\ EntryInv' /\ WindowInv' /\ life' = life /\ life[c] = "live"
    BY <1>4 DEF SetPinned, LifeInv, EntryInv, WindowInv
  <2>5. AtMostOnePinned'
    BY <2>2, <2>4 DEF AtMostOnePinned
  <2> QED BY <2>3, <2>4, <2>5
<1>5. ASSUME ClearPin
      PROVE  IInv'
  <2>1. \A d \in Cred : row'[d] = [row[d] EXCEPT !.pinned = FALSE]
    BY <1>5 DEF ClearPin
  <2>2. \A d \in Cred : GoodRow(row'[d]) /\ row'[d].pinned = FALSE
    <3>1. ASSUME NEW d \in Cred
          PROVE  GoodRow(row'[d]) /\ row'[d].pinned = FALSE
      <4>1. GoodRow(row[d])
        BY DEF RowInv, GoodRows
      <4> QED BY <2>1, <4>1, RepinnedGood
    <3> QED BY <3>1
  <2>3. RowInv'
    <3>1. row' = [d \in Cred |-> row'[d]]
      BY <1>5 DEF ClearPin
    <3> QED BY <2>2, <3>1, RowsMapped DEF RowInv
  <2>4. LifeInv' /\ EntryInv' /\ WindowInv'
    BY <1>5 DEF ClearPin, LifeInv, EntryInv, WindowInv
  <2>5. AtMostOnePinned'
    BY <2>2 DEF AtMostOnePinned
  <2> QED BY <2>3, <2>4, <2>5
<1>6. ASSUME NEW c \in Cred, NEW keep \in BOOLEAN,
             row' = [row EXCEPT ![c] = Revived(row[c], keep)],
             entry' = Cleared({c}), UNCHANGED <<life, window>>
      PROVE  IInv'
  <2>1. GoodRow(row[c])
    BY DEF RowInv, GoodRows
  <2>2. RowInv' /\ \A d \in Cred : row'[d].pinned = row[d].pinned
    BY <1>6, <2>1, RevivedGood, RowUpdated
  <2>3. LifeInv' /\ EntryInv' /\ WindowInv' /\ life' = life
    BY <1>6, ClearedGood DEF LifeInv, EntryInv, WindowInv
  <2> QED BY <2>2, <2>3, PinsKept
<1>7. ASSUME NEW c \in Cred, NEW force \in BOOLEAN, Revive(c, force)
      PROVE  IInv'
  <2>1. (~force /\ row[c].kind \in UpstreamKinds) \in BOOLEAN
    OBVIOUS
  <2> QED BY <1>6, <1>7, <2>1 DEF Revive
<1>8. ASSUME NEW c \in Cred, MergeLogin(c)
      PROVE  IInv'
  <2>1. (row[c].kind \in UpstreamKinds) \in BOOLEAN
    OBVIOUS
  <2> QED BY <1>6, <1>8, <2>1 DEF MergeLogin
<1> QED BY <1>1, <1>2, <1>3, <1>4, <1>5, <1>7, <1>8 DEF Admin

\* What background tasks do: mark a login revoked, clear a verdict, purge.
LEMMA BackgroundKeepsInvariant ==
  ASSUME IInv, Background
  PROVE  IInv'
<1> USE DEF IInv
<1>1. ASSUME NEW c \in Cred, MarkReloginRequired(c)
      PROVE  IInv'
  <2>1. GoodRow(row[c])
    BY DEF RowInv, GoodRows
  <2>2. RowInv' /\ \A d \in Cred : row'[d].pinned = row[d].pinned
    BY <1>1, <2>1, HardDisabledGood, RowUpdated DEF MarkReloginRequired
  <2>3. LifeInv' /\ EntryInv' /\ WindowInv' /\ life' = life
    BY <1>1, ClearedGood DEF MarkReloginRequired, LifeInv, EntryInv, WindowInv
  <2> QED BY <2>2, <2>3, PinsKept
<1>2. ASSUME NEW p \in Provider, NEW m \in Model, ClearBlocked(p, m)
      PROVE  IInv'
  <2>1. \A cm \in Cred \X Model : entry'[cm] = NoEntry \/ entry'[cm] = entry[cm]
    BY <1>2 DEF ClearBlocked
  <2>2. entry' = [cm \in Cred \X Model |-> entry'[cm]]
    BY <1>2 DEF ClearBlocked
  <2>3. EntryInv'
    BY <2>1, <2>2, NoEntryGood, EntriesMapped DEF EntryInv, GoodEntries
  <2>4. LifeInv' /\ RowInv' /\ WindowInv' /\ AtMostOnePinned'
    BY <1>2 DEF ClearBlocked, LifeInv, RowInv, WindowInv, AtMostOnePinned
  <2> QED BY <2>3, <2>4
<1>3. ASSUME PurgeModelCooldowns
      PROVE  IInv'
  <2>1. \A cm \in Cred \X Model : entry'[cm] = NoEntry \/ entry'[cm] = entry[cm]
    BY <1>3 DEF PurgeModelCooldowns
  <2>2. entry' = [cm \in Cred \X Model |-> entry'[cm]]
    BY <1>3 DEF PurgeModelCooldowns
  <2>3. EntryInv'
    BY <2>1, <2>2, NoEntryGood, EntriesMapped DEF EntryInv, GoodEntries
  <2>4. LifeInv' /\ RowInv' /\ WindowInv' /\ AtMostOnePinned'
    BY <1>3 DEF PurgeModelCooldowns, LifeInv, RowInv, WindowInv, AtMostOnePinned
  <2> QED BY <2>3, <2>4
<1>4. ASSUME PurgeAccountCooldowns
      PROVE  IInv'
  <2>1. ASSUME NEW c \in Cred
        PROVE  GoodRow(row'[c]) /\ row'[c].pinned = row[c].pinned
    <3>1. GoodRow(row[c]) /\ row[c] \in RowType
      BY DEF RowInv, GoodRows
    <3>2. CASE row[c].left <= 0
      <4>1. row'[c] = [row[c] EXCEPT !.left = NoCooling, !.kind = NoKind]
        BY <1>4, <3>2 DEF PurgeAccountCooldowns
      <4>2. row'[c] \in RowType
        BY <3>1, <4>1 DEF RowType, CoolingKinds
      <4>3. row'[c].left = NoCooling /\ row'[c].kind = NoKind /\ row'[c].pinned = row[c].pinned
        BY <3>1, <4>1 DEF RowType
      <4> QED BY <4>2, <4>3, NoCoolingBounded DEF GoodRow
    <3>3. CASE ~(row[c].left <= 0)
      BY <1>4, <3>1, <3>3 DEF PurgeAccountCooldowns
    <3> QED BY <3>2, <3>3
  <2>2. row' = [c \in Cred |-> row'[c]]
    BY <1>4 DEF PurgeAccountCooldowns
  <2>3. RowInv'
    BY <2>1, <2>2, RowsMapped DEF RowInv
  <2>4. LifeInv' /\ EntryInv' /\ WindowInv' /\ life' = life
    BY <1>4 DEF PurgeAccountCooldowns, LifeInv, EntryInv, WindowInv
  <2> QED BY <2>1, <2>3, <2>4, PinsKept
<1> QED BY <1>1, <1>2, <1>3, <1>4 DEF Background

\* A success of an account, known or deleted meanwhile.
LEMMA SuccessKeepsInvariant ==
  ASSUME IInv, Success
  PROVE  IInv'
<1> USE DEF IInv
<1>1. PICK c \in Cred, m \in Model : NoteSuccess(c, m)
  BY DEF Success
<1>2. RowInv' /\ \A d \in Cred : row'[d].pinned = row[d].pinned
  <2>1. CASE life[c] = "live"
    <3>1. GoodRow(row[c])
      BY DEF RowInv, GoodRows
    <3>2. GoodRow([row[c] EXCEPT !.err = 0]) /\ [row[c] EXCEPT !.err = 0].pinned = row[c].pinned
      BY <3>1, NoCoolingBounded DEF GoodRow, RowType
    <3>3. row' = [row EXCEPT ![c] = [row[c] EXCEPT !.err = 0]]
      BY <1>1, <2>1 DEF NoteSuccess
    <3> QED BY <3>2, <3>3, RowUpdated
  <2>2. CASE life[c] # "live"
    BY <1>1, <2>2 DEF NoteSuccess, RowInv
  <2> QED BY <2>1, <2>2
<1>3. EntryInv'
  <2>1. CASE entry[<<c, m>>].reason = "blocked"
    BY <1>1, <2>1, NoEntryGood, EntryUpdated DEF NoteSuccess
  <2>2. CASE entry[<<c, m>>].reason # "blocked"
    BY <1>1, <2>2 DEF NoteSuccess, EntryInv
  <2> QED BY <2>1, <2>2
<1>4. LifeInv' /\ WindowInv' /\ life' = life
  BY <1>1 DEF NoteSuccess, LifeInv, WindowInv
<1> QED BY <1>2, <1>3, <1>4, PinsKept

\* The passing of time.
LEMMA TickKeepsInvariant ==
  ASSUME IInv, Tick
  PROVE  IInv'
<1> USE DEF IInv
<1>0. AccountLimits \in SUBSET Int /\ EntryLimits \in SUBSET Int
  BY DurationsAreNat, PoolConstants DEF AccountLimits, EntryLimits
<1>1. ASSUME NEW c \in Cred
      PROVE  GoodRow(row'[c]) /\ row'[c].pinned = row[c].pinned
  <2>1. GoodRow(row[c]) /\ row[c] \in RowType
    BY DEF RowInv, GoodRows
  <2>2. row'[c] = [row[c] EXCEPT !.left = Sooner(row[c].left)]
    BY DEF Tick
  <2>3. row[c].left \in Nat \union {NoCooling}
    BY <2>1 DEF RowType
  <2>4. /\ Sooner(row[c].left) \in Nat \union {NoCooling}
        /\ Sooner(row[c].left) <= row[c].left
        /\ Sooner(row[c].left) = NoCooling <=> row[c].left = NoCooling
    BY <2>3, SoonerBounds
  <2>5. /\ row'[c].left = Sooner(row[c].left)
        /\ row'[c].kind = row[c].kind
        /\ row'[c].pinned = row[c].pinned
        /\ row'[c] \in RowType
    BY <2>1, <2>2, <2>4 DEF RowType
  <2>6. Within(row'[c].left, AccountLimits)
    <3>1. Sooner(row[c].left) \in Int /\ row[c].left \in Int
      BY <2>3, <2>4 DEF NoCooling
    <3> QED BY <1>0, <2>1, <2>4, <2>5, <3>1, WithinLess DEF GoodRow
  <2> QED BY <2>1, <2>4, <2>5, <2>6 DEF GoodRow
<1>2. RowInv'
  <2>1. row' = [c \in Cred |-> row'[c]]
    BY DEF Tick
  <2> QED BY <1>1, <2>1, RowsMapped DEF RowInv
<1>3. ASSUME NEW cm \in Cred \X Model
      PROVE  GoodEntry(entry'[cm])
  <2>1. GoodEntry(entry[cm]) /\ entry[cm] \in EntryType
    BY DEF EntryInv, GoodEntries
  <2>2. entry'[cm] = [entry[cm] EXCEPT !.left = Sooner(entry[cm].left)]
    BY DEF Tick
  <2>3. entry[cm].left \in Nat \union {NoCooling}
    BY <2>1 DEF EntryType
  <2>4. /\ Sooner(entry[cm].left) \in Nat \union {NoCooling}
        /\ Sooner(entry[cm].left) <= entry[cm].left
    BY <2>3, SoonerBounds
  <2>5. entry'[cm].left = Sooner(entry[cm].left) /\ entry'[cm] \in EntryType
    BY <2>1, <2>2, <2>4 DEF EntryType
  <2>6. Within(entry'[cm].left, EntryLimits)
    <3>1. Sooner(entry[cm].left) \in Int /\ entry[cm].left \in Int
      BY <2>3, <2>4 DEF NoCooling
    <3> QED BY <1>0, <2>1, <2>4, <2>5, <3>1, WithinLess DEF GoodEntry
  <2> QED BY <2>5, <2>6 DEF GoodEntry
<1>4. EntryInv'
  <2>1. entry' = [cm \in Cred \X Model |-> entry'[cm]]
    BY DEF Tick
  <2> QED BY <1>3, <2>1, EntriesMapped DEF EntryInv
<1>5. WindowInv'
  <2>1. \A p \in Provider : Older(window[p]) \in WindowType
    BY PoolConstants DEF WindowInv, WindowType, Older, NoHits
  <2> QED BY <2>1 DEF Tick, WindowInv
<1>6. LifeInv' /\ life' = life
  BY DEF Tick, LifeInv
<1> QED BY <1>1, <1>2, <1>4, <1>5, <1>6, PinsKept

\* The counter an error is judged with is within the cap, the entry of its type.
LEMMA SeenTyped ==
  ASSUME RowInv, EntryInv, NEW c \in Cred, NEW m \in Model
  PROVE  ErrSeen(c) \in 0..CountCap /\ EntrySeen(c, m) \in EntryType
<1>1. row[c] \in RowType /\ entry[<<c, m>>] \in EntryType
  BY DEF RowInv, GoodRows, EntryInv, GoodEntries
<1>2. row[c].err \in 0..CountCap
  BY <1>1 DEF RowType
<1>3. NoEntry \in EntryType
  BY NoEntryGood DEF GoodEntry
<1> QED BY <1>1, <1>2, <1>3, NoCoolingBounded DEF ErrSeen, EntrySeen

\* save_error keeps the rows good and the pins, for an account known or deleted.
LEMMA SaveErrorGood ==
  ASSUME RowInv, NEW c \in Cred, NEW kind \in AccountKinds, NEW retry \in RetryAts,
         NEW tod \in TimesOfDay, NEW err \in 0..CountCap
  PROVE  LET charged == SaveError(c, AccountOutcome(err, kind, retry, tod)) IN
         GoodRows(charged) /\ \A d \in Cred : charged[d].pinned = row[d].pinned
<1> DEFINE out == AccountOutcome(err, kind, retry, tod)
           charged == SaveError(c, out)
<1> SUFFICES GoodRows(charged) /\ \A d \in Cred : charged[d].pinned = row[d].pinned
  OBVIOUS
<1>1. CASE life[c] = "live"
  <2>1. GoodRow(row[c]) /\ retry \in Int
    BY PoolConstants DEF RowInv, GoodRows
  <2>2. GoodRow(Charged(row[c], out)) /\ Charged(row[c], out).pinned = row[c].pinned
    BY <2>1, ChargedGood
  <2> HIDE DEF out
  <2>3. charged = [row EXCEPT ![c] = Charged(row[c], out)]
    BY <1>1 DEF SaveError
  <2> HIDE DEF charged
  <2>4. \A d \in Cred : charged[d] = IF d = c THEN Charged(row[c], out) ELSE row[d]
    BY <2>3 DEF RowInv, GoodRows
  <2>5. charged = [d \in Cred |-> charged[d]]
    BY <2>3 DEF RowInv, GoodRows
  <2>6. \A d \in Cred : GoodRow(charged[d]) /\ charged[d].pinned = row[d].pinned
    BY <2>2, <2>4 DEF RowInv, GoodRows
  <2> QED BY <2>5, <2>6, RowsMapped
<1>2. CASE life[c] # "live"
  <2>1. charged = row
    BY <1>2 DEF SaveError
  <2> QED BY <2>1 DEF RowInv
<1> QED BY <1>1, <1>2

\* An upstream error of any kind, with the pause of the provider it may set off.
LEMMA ErrorKeepsInvariant ==
  ASSUME IInv, Error
  PROVE  IInv'
<1> USE DEF IInv
<1>1. PICK c \in Cred, m \in Model, kind \in Kinds : NoteError(c, m, kind)
  BY DEF Error, ErrorOf
<1>2. ErrSeen(c) \in 0..CountCap /\ EntrySeen(c, m) \in EntryType
  BY SeenTyped
<1>3. 0 \in TimesOfDay
  BY DurationsAreNat DEF TimesOfDay
<1>4. ASSUME NEW retry \in RetryAts, NoteModelError(c, m, kind, retry)
      PROVE  IInv'
  <2>1. kind \in ModelKinds /\ retry \in Int
    BY <1>4, PoolConstants DEF NoteModelError
  <2>2. GoodEntry(EntryAfter(EntrySeen(c, m), kind, retry))
    BY <1>2, <2>1, EntriesAfter DEF GoodEntry
  <2>3. EntryInv'
    BY <1>4, <2>2, EntryUpdated DEF NoteModelError
  <2>4. LifeInv' /\ RowInv' /\ WindowInv' /\ AtMostOnePinned'
    BY <1>4 DEF NoteModelError, LifeInv, RowInv, WindowInv, AtMostOnePinned
  <2> QED BY <2>3, <2>4
<1>5. ASSUME NoteDead(c)
      PROVE  IInv'
  <2>1. RowInv' /\ \A d \in Cred : row'[d].pinned = row[d].pinned
    <3>1. CASE life[c] = "live"
      <4>1. GoodRow(row[c])
        BY DEF RowInv, GoodRows
      <4>2. row' = [row EXCEPT ![c] = HardDisabled(row[c])]
        BY <1>5, <3>1 DEF NoteDead
      <4> QED BY <4>1, <4>2, HardDisabledGood, RowUpdated
    <3>2. CASE life[c] # "live"
      BY <1>5, <3>2 DEF NoteDead, RowInv
    <3> QED BY <3>1, <3>2
  <2>2. LifeInv' /\ EntryInv' /\ WindowInv' /\ life' = life
    BY <1>5 DEF NoteDead, LifeInv, EntryInv, WindowInv
  <2> QED BY <2>1, <2>2, PinsKept
<1>6. ASSUME NEW retry \in RetryAts, NEW tod \in TimesFor(kind),
             NoteAccountError(c, kind, retry, tod)
      PROVE  IInv'
  <2>1. kind \in AccountKinds /\ tod \in TimesOfDay
    BY <1>3, <1>6 DEF NoteAccountError, TimesFor
  <2>2. RowInv' /\ \A d \in Cred : row'[d].pinned = row[d].pinned
    BY <1>2, <1>6, <2>1, SaveErrorGood DEF NoteAccountError, RowInv
  <2>3. EntryInv'
    BY <1>6, ClearedGood DEF NoteAccountError, EntryInv
  <2>4. LifeInv' /\ WindowInv' /\ life' = life
    BY <1>6 DEF NoteAccountError, LifeInv, WindowInv
  <2> QED BY <2>2, <2>3, <2>4, PinsKept
<1>7. ASSUME NEW retry \in RetryAts, NoteRestricted(c, retry)
      PROVE  IInv'
  <2> DEFINE charged == SaveError(c, AccountOutcome(ErrSeen(c), "restricted", retry, 0))
  <2>1. GoodRows(charged) /\ \A d \in Cred : charged[d].pinned = row[d].pinned
    <3>1. "restricted" \in AccountKinds
      BY DEF AccountKinds
    <3> QED BY <1>2, <1>3, <3>1, SaveErrorGood
  <2>2. /\ window' = [window EXCEPT ![ProviderOf[c]].creds = HitBy(c)]
        /\ \/ row' = charged
           \/ row' = [d \in Cred |-> IF d \in Siblings(c) THEN Paused(charged[d]) ELSE charged[d]]
        /\ \E cs : entry' = Cleared(cs)
        /\ life' = life
    BY <1>7 DEF NoteRestricted
  <2> HIDE DEF charged
  <2>3. \A d \in Cred : GoodRow(charged[d])
    BY <2>1 DEF GoodRows
  <2>4. RowInv' /\ \A d \in Cred : row'[d].pinned = row[d].pinned
    <3>1. CASE row' = charged
      BY <2>1, <3>1 DEF RowInv
    <3>2. CASE row' = [d \in Cred |-> IF d \in Siblings(c) THEN Paused(charged[d]) ELSE charged[d]]
      <4>1. \A d \in Cred : row'[d] = Paused(charged[d]) \/ row'[d] = charged[d]
        BY <3>2
      <4>2. \A d \in Cred : GoodRow(row'[d]) /\ row'[d].pinned = charged[d].pinned
        BY <2>3, <4>1, PausedGood
      <4>3. row' = [d \in Cred |-> row'[d]]
        BY <3>2
      <4> QED BY <2>1, <4>2, <4>3, RowsMapped DEF RowInv
    <3> QED BY <2>2, <3>1, <3>2
  <2>5. EntryInv'
    BY <2>2, ClearedGood DEF EntryInv
  <2>6. WindowInv'
    <3>1. ProviderOf[c] \in Provider
      BY PoolConstants
    <3>2. HitBy(c) \in SUBSET Cred
      BY <3>1 DEF HitBy, WindowInv, WindowType
    <3> QED BY <2>2, <3>1, <3>2 DEF WindowInv, WindowType
  <2>7. LifeInv'
    BY <2>2 DEF LifeInv
  <2> QED BY <2>2, <2>4, <2>5, <2>6, <2>7, PinsKept
<1> QED BY <1>1, <1>4, <1>5, <1>6, <1>7 DEF NoteError

-----------------------------------------------------------------------------
(* The theorems.                                                           *)

\* A pool with no credential satisfies the invariant.
LEMMA InitInvariant == Init => IInv
<1> SUFFICES ASSUME Init PROVE IInv
  OBVIOUS
<1> USE DEF Init
<1>1. LifeInv
  BY DEF LifeInv
<1>2. RowInv /\ AtMostOnePinned
  BY FreshRowGood DEF RowInv, GoodRows, GoodRow, AtMostOnePinned
<1>3. EntryInv
  BY NoEntryGood DEF EntryInv, GoodEntries, GoodEntry
<1>4. WindowInv
  BY PoolConstants DEF WindowInv, WindowType, NoHits
<1> QED BY <1>1, <1>2, <1>3, <1>4 DEF IInv

\* Every step preserves it.
LEMMA NextKeepsInvariant == IInv /\ [Next]_vars => IInv'
<1> SUFFICES ASSUME IInv, [Next]_vars PROVE IInv'
  OBVIOUS
<1>1. CASE UNCHANGED vars
  BY <1>1 DEF vars, IInv, LifeInv, RowInv, EntryInv, WindowInv, AtMostOnePinned
<1>2. CASE Next
  BY <1>2, AdminKeepsInvariant, ErrorKeepsInvariant, SuccessKeepsInvariant,
     BackgroundKeepsInvariant, TickKeepsInvariant DEF Next
<1> QED BY <1>1, <1>2

\* The invariant holds in every reachable state.
LEMMA PoolInvariant == Spec => []IInv
BY InitInvariant, NextKeepsInvariant, PTL DEF Spec

\* Every column of the pool holds a value of its type, whatever the credentials, the
\* durations, the instants upstreams name, and the order of all steps.
THEOREM TypeCorrect == Spec => []TypeOK
<1>1. IInv => TypeOK
  BY InvariantParts
<1> QED BY <1>1, PoolInvariant, PTL

\* The columns scheduling reads fit together, for any pool.
THEOREM PoolAlwaysSound == Spec => []PoolSound
<1>1. IInv => PoolSound
  BY InvariantParts DEF PoolSound
<1> QED BY <1>1, PoolInvariant, PTL

\* A cooldown and its source are there together or not at all.
THEOREM SourceAlwaysKnown == Spec => []SourceKnown
<1>1. IInv => SourceKnown
  BY InvariantParts
<1> QED BY <1>1, PoolInvariant, PTL

\* No instant an upstream names and no order of errors, pauses and resets keeps an
\* account or a model out of the pool longer than the longest local constant or a day.
THEOREM CooldownsAlwaysBounded == Spec => []CooldownBounded
<1>1. IInv => CooldownBounded
  BY InvariantParts
<1> QED BY <1>1, PoolInvariant, PTL

\* At most one credential is pinned, and the pinned one exists.
THEOREM PinIsUnique == Spec => []AtMostOnePinned
<1>1. IInv => AtMostOnePinned
  BY InvariantParts
<1> QED BY <1>1, PoolInvariant, PTL
-----------------------------------------------------------------------------
(* What one step may never do: the action properties, from the invariant.  *)

\* save_error leaves the rows of other accounts alone.
LEMMA OthersUncharged ==
  ASSUME RowInv, NEW c \in Cred, NEW out, NEW d \in Cred \ {c}
  PROVE  SaveError(c, out)[d] = row[d]
BY DEF RowInv, GoodRows, SaveError

\* A restriction lets its account into the window of its provider, and pauses the
\* accounts of the provider when that completes a burst.
LEMMA RestrictedEffect ==
  ASSUME IInv, NEW c \in Cred, NEW retry \in RetryAts, NoteRestricted(c, retry)
  PROVE  LET charged == SaveError(c, AccountOutcome(ErrSeen(c), "restricted", retry, 0)) IN
         /\ GoodRows(charged)
         /\ \A p \in Provider : p # ProviderOf[c] => window'[p] = window[p]
         /\ window'[ProviderOf[c]].creds = HitBy(c)
         /\ \A d \in Cred : \/ row'[d] = charged[d] /\ (Bursts(c) => d \notin Siblings(c))
                            \/ row'[d] = Paused(charged[d]) /\ Bursts(c) /\ d \in Siblings(c)
         /\ Bursts(c) => entry' = Cleared(Siblings(c) \union {c})
<1> DEFINE charged == SaveError(c, AccountOutcome(ErrSeen(c), "restricted", retry, 0))
<1>1. GoodRows(charged)
  <2>1. "restricted" \in AccountKinds /\ 0 \in TimesOfDay
    BY DurationsAreNat DEF AccountKinds, TimesOfDay
  <2>2. ErrSeen(c) \in 0..CountCap
    <3>1. row[c].err \in 0..CountCap
      BY DEF IInv, RowInv, GoodRows, RowType
    <3> QED BY <3>1, NoCoolingBounded DEF ErrSeen
  <2> QED BY <2>1, <2>2, SaveErrorGood DEF IInv
<1>2. /\ window' = [window EXCEPT ![ProviderOf[c]].creds = HitBy(c)]
      /\ Bursts(c) => /\ row' = [d \in Cred |-> IF d \in Siblings(c) THEN Paused(charged[d])
                                                                     ELSE charged[d]]
                      /\ entry' = Cleared(Siblings(c) \union {c})
      /\ ~Bursts(c) => row' = charged
  BY DEF NoteRestricted
<1> HIDE DEF charged
<1>3. /\ \A p \in Provider : p # ProviderOf[c] => window'[p] = window[p]
      /\ window'[ProviderOf[c]].creds = HitBy(c)
  <2>1. ProviderOf[c] \in Provider /\ window[ProviderOf[c]] \in WindowType
    BY PoolConstants DEF IInv, WindowInv
  <2> QED BY <1>2, <2>1 DEF IInv, WindowInv, WindowType
<1>4. \A d \in Cred : \/ row'[d] = charged[d] /\ (Bursts(c) => d \notin Siblings(c))
                      \/ row'[d] = Paused(charged[d]) /\ Bursts(c) /\ d \in Siblings(c)
  BY <1>2
<1> QED BY <1>1, <1>2, <1>3, <1>4 DEF charged

\* An error of one account changes another only as a pause of the provider they share.
LEMMA ErrorStaysHome ==
  ASSUME IInv, NEW c \in Cred, ErrorOf(c), NEW d \in Cred \ {c}, row'[d] # row[d]
  PROVE  /\ ProviderOf[d] = ProviderOf[c]
         /\ Cardinality(window'[ProviderOf[c]].creds) >= BurstCredentials
         /\ row'[d].left > row[d].left
<1>1. PICK m \in Model, kind \in Kinds : NoteError(c, m, kind)
  BY DEF ErrorOf
<1>2. RowInv
  BY DEF IInv
<1>3. ASSUME NEW retry \in RetryAts, NoteModelError(c, m, kind, retry)
      PROVE  FALSE
  BY <1>3 DEF NoteModelError
<1>4. ASSUME NoteDead(c)
      PROVE  FALSE
  BY <1>2, <1>4 DEF NoteDead, RowInv, GoodRows
<1>5. ASSUME NEW retry \in RetryAts, NEW tod \in TimesFor(kind),
             NoteAccountError(c, kind, retry, tod)
      PROVE  FALSE
  BY <1>2, <1>5, OthersUncharged DEF NoteAccountError
<1>6. PICK retry \in RetryAts : NoteRestricted(c, retry)
  BY <1>1, <1>3, <1>4, <1>5 DEF NoteError
<1> DEFINE charged == SaveError(c, AccountOutcome(ErrSeen(c), "restricted", retry, 0))
<1>7. charged[d] = row[d]
  BY <1>2, OthersUncharged
<1>8. /\ row'[d] = Paused(charged[d]) /\ Bursts(c) /\ d \in Siblings(c)
      /\ window'[ProviderOf[c]].creds = HitBy(c)
  BY <1>6, <1>7, RestrictedEffect
<1> HIDE DEF charged
<1>9. row'[d].left > row[d].left
  <2>1. GoodRow(row[d])
    BY <1>2 DEF RowInv, GoodRows
  <2> QED BY <1>7, <1>8, <2>1, PausedGood
<1> QED BY <1>8, <1>9 DEF Bursts, Siblings

\* A window that grows to the size of a burst takes every account of its provider out.
LEMMA BurstPauses ==
  ASSUME IInv, Next, NEW p \in Provider, window'[p].creds # window[p].creds,
         Cardinality(window'[p].creds) >= BurstCredentials,
         NEW d \in Live, ProviderOf[d] = p
  PROVE  /\ row'[d].left >= ProviderPause
         /\ \A m \in Model : ~HasEntry(entry'[<<d, m>>])
<1>1. ~Admin /\ ~Success /\ ~Background
  BY DEF Admin, Add, Delete, SetEnabled, SetPinned, ClearPin, Revive, MergeLogin, Success,
         NoteSuccess, Background, MarkReloginRequired, ClearBlocked, PurgeModelCooldowns,
         PurgeAccountCooldowns
<1>2. ~Tick
  <2>1. ASSUME Tick
        PROVE  FALSE
    <3>1. window'[p] = Older(window[p]) /\ window[p] \in WindowType
      BY <2>1 DEF Tick, IInv, WindowInv
    <3>2. window'[p].creds = {}
      BY <3>1 DEF Older, NoHits, WindowType
    <3>3. Cardinality({}) = 0
      BY FS_EmptySet
    <3> QED BY <3>2, <3>3, PoolConstants
  <2> QED BY <2>1
<1>3. PICK c \in Cred, m \in Model, kind \in Kinds : NoteError(c, m, kind)
  BY <1>1, <1>2 DEF Next, Error, ErrorOf
<1>4. PICK retry \in RetryAts : NoteRestricted(c, retry)
  BY <1>3 DEF NoteError, NoteModelError, NoteDead, NoteAccountError
<1> DEFINE charged == SaveError(c, AccountOutcome(ErrSeen(c), "restricted", retry, 0))
<1>5. /\ GoodRows(charged)
      /\ p # ProviderOf[c] => window'[p] = window[p]
      /\ window'[ProviderOf[c]].creds = HitBy(c)
      /\ \/ row'[d] = charged[d] /\ (Bursts(c) => d \notin Siblings(c))
         \/ row'[d] = Paused(charged[d]) /\ Bursts(c) /\ d \in Siblings(c)
      /\ Bursts(c) => entry' = Cleared(Siblings(c) \union {c})
  BY <1>4, RestrictedEffect DEF Live
<1> HIDE DEF charged
<1>6. p = ProviderOf[c] /\ Bursts(c) /\ d \in Siblings(c) /\ d \in Cred
  BY <1>5 DEF Bursts, Siblings, Live
<1>7. row'[d].left >= ProviderPause
  BY <1>5, <1>6, PausedGood DEF GoodRows
<1>8. ASSUME NEW n \in Model
      PROVE  ~HasEntry(entry'[<<d, n>>])
  BY <1>5, <1>6 DEF Cleared, HasEntry, NoEntry
<1> QED BY <1>7, <1>8

\* An error of one account touches another only as a pause of their common provider,
\* after restrictions of as many different accounts as a burst takes.
THEOREM ErrorsAlwaysStayHome == Spec => ErrorsStayHome
<1>1. IInv /\ [Next]_vars =>
        [\A c \in Cred : ErrorOf(c) =>
           \A d \in Cred \ {c} : row'[d] # row[d] =>
             /\ ProviderOf[d] = ProviderOf[c]
             /\ Cardinality(window'[ProviderOf[c]].creds) >= BurstCredentials
             /\ row'[d].left > row[d].left]_vars
  BY ErrorStaysHome
<1> QED BY <1>1, PoolInvariant, PTL DEF Spec, ErrorsStayHome

\* The restriction that completes a burst pauses every account of its provider.
THEOREM BurstsPauseProviders == Spec => BurstPausesProvider
<1>1. IInv /\ [Next]_vars =>
        [\A p \in Provider :
           /\ window'[p].creds # window[p].creds
           /\ Cardinality(window'[p].creds) >= BurstCredentials
           => \A c \in Live : ProviderOf[c] = p =>
                /\ row'[c].left >= ProviderPause
                /\ \A m \in Model : ~HasEntry(entry'[<<c, m>>])]_vars
  BY BurstPauses
<1> QED BY <1>1, PoolInvariant, PTL DEF Spec, BurstPausesProvider

\* A row whose recovery is still to come keeps a future instant through save_error.
LEMMA ChargedKeepsInstant ==
  ASSUME NEW r, GoodRow(r), r.left > 0, NEW kind \in AccountKinds, NEW retry \in Int,
         NEW tod \in TimesOfDay, NEW err \in 0..CountCap
  PROVE  Charged(r, AccountOutcome(err, kind, retry, tod)).left > 0
<1> DEFINE out == AccountOutcome(err, kind, retry, tod)
<1>1. r \in RowType
  BY DEF GoodRow
<1>2. out.left = NoCooling \/ out.left \in Nat \ {0}
  BY AccountOutcomes
<1> SUFFICES Charged(r, out).left > 0
  OBVIOUS
<1> HIDE DEF out
<1>3. CASE out.left = NoCooling
  BY <1>1, <1>3 DEF Charged, RowType
<1>4. CASE out.left # NoCooling
  BY <1>1, <1>2, <1>4 DEF Charged, RowType
<1> QED BY <1>3, <1>4

\* save_error keeps a future instant of every account, charged or not.
LEMMA SaveErrorKeepsInstant ==
  ASSUME RowInv, NEW c \in Cred, row[c].left > 0, NEW d \in Cred, NEW kind \in AccountKinds,
         NEW retry \in RetryAts, NEW tod \in TimesOfDay, NEW err \in 0..CountCap
  PROVE  SaveError(d, AccountOutcome(err, kind, retry, tod))[c].left > 0
<1> DEFINE out == AccountOutcome(err, kind, retry, tod)
<1> SUFFICES SaveError(d, out)[c].left > 0
  OBVIOUS
<1>1. CASE c = d /\ life[d] = "live"
  <2>1. GoodRow(row[c]) /\ retry \in Int
    BY PoolConstants DEF RowInv, GoodRows
  <2>2. Charged(row[c], out).left > 0
    BY <2>1, ChargedKeepsInstant
  <2> HIDE DEF out
  <2> QED BY <1>1, <2>2 DEF SaveError, RowInv, GoodRows
<1>2. CASE ~(c = d /\ life[d] = "live")
  <2> HIDE DEF out
  <2> QED BY <1>2 DEF SaveError, RowInv, GoodRows
<1> QED BY <1>1, <1>2

\* An error keeps a future instant, unless it disables the account.
LEMMA ErrorKeepsInstant ==
  ASSUME IInv, Error, NEW c \in Cred, row[c].left > 0, ~row'[c].disabled
  PROVE  row'[c].left > 0
<1>1. PICK d \in Cred, m \in Model, kind \in Kinds : NoteError(d, m, kind)
  BY DEF Error, ErrorOf
<1>2. RowInv /\ row[c] \in RowType
  BY DEF IInv, RowInv, GoodRows
<1>3. ErrSeen(d) \in 0..CountCap /\ 0 \in TimesOfDay
  BY SeenTyped, DurationsAreNat DEF IInv, TimesOfDay
<1>4. ASSUME NEW retry \in RetryAts, NoteModelError(d, m, kind, retry)
      PROVE  row'[c].left > 0
  BY <1>4 DEF NoteModelError
<1>5. ASSUME NoteDead(d)
      PROVE  row'[c].left > 0
  <2>1. \A r \in RowType : HardDisabled(r).disabled
    BY DEF HardDisabled, RowType
  <2>2. row'[c] = HardDisabled(row[c]) \/ row'[c] = row[c]
    BY <1>2, <1>5 DEF NoteDead, RowInv, GoodRows
  <2> QED BY <1>2, <2>1, <2>2
<1>6. ASSUME NEW retry \in RetryAts, NEW tod \in TimesFor(kind),
             NoteAccountError(d, kind, retry, tod)
      PROVE  row'[c].left > 0
  <2>1. kind \in AccountKinds /\ tod \in TimesOfDay
    BY <1>3, <1>6 DEF NoteAccountError, TimesFor
  <2>2. SaveError(d, AccountOutcome(ErrSeen(d), kind, retry, tod))[c].left > 0
    BY <1>2, <1>3, <2>1, SaveErrorKeepsInstant
  <2> QED BY <1>6, <2>2 DEF NoteAccountError
<1>7. ASSUME NEW retry \in RetryAts, NoteRestricted(d, retry)
      PROVE  row'[c].left > 0
  <2> DEFINE charged == SaveError(d, AccountOutcome(ErrSeen(d), "restricted", retry, 0))
  <2>1. charged[c].left > 0
    <3>1. "restricted" \in AccountKinds
      BY DEF AccountKinds
    <3> QED BY <1>2, <1>3, <3>1, SaveErrorKeepsInstant
  <2>2. GoodRow(charged[c]) /\ (row'[c] = charged[c] \/ row'[c] = Paused(charged[c]))
    BY <1>7, RestrictedEffect DEF GoodRows
  <2> HIDE DEF charged
  <2>3. ProviderPause > 0 /\ row'[c] = Paused(charged[c]) => row'[c].left \in Int
    <3>1. GoodRow(Paused(charged[c]))
      BY <2>2, PausedGood
    <3> QED BY <3>1, PoolConstants DEF GoodRow, RowType, NoCooling
  <2>4. Paused(charged[c]).left >= ProviderPause
    BY <2>2, PausedGood
  <2> QED BY <2>1, <2>2, <2>3, <2>4, PoolConstants
<1> QED BY <1>1, <1>4, <1>5, <1>6, <1>7 DEF NoteError

\* Nothing else erases an instant the upstream named, but time and a forced revive.
LEMMA InstantKept ==
  ASSUME IInv, Next, NEW c \in Live, life'[c] = "live", row[c].left > 0,
         row[c].kind \in UpstreamKinds, ~row'[c].disabled, ~Tick, ~ForcedRevival(c)
  PROVE  row'[c].left > 0
<1>1. c \in Cred /\ row[c] \in RowType /\ row \in [Cred -> RowType]
  BY DEF Live, IInv, RowInv, GoodRows
<1>2. ASSUME Admin
      PROVE  row'[c].left > 0
  <2>1. ASSUME NEW d \in Cred, Add(d) \/ Delete(d)
        PROVE  row'[c] = row[c]
    BY <1>1, <2>1 DEF Add, Delete, IInv, LifeInv
  <2>2. ASSUME NEW d \in Cred, NEW on \in BOOLEAN, SetEnabled(d, on)
        PROVE  row'[c].left = row[c].left
    BY <1>1, <2>2 DEF SetEnabled, RowType
  <2>3. ASSUME NEW d \in Cred, SetPinned(d) \/ ClearPin
        PROVE  row'[c].left = row[c].left
    BY <1>1, <2>3 DEF SetPinned, ClearPin, RowType
  <2>4. ASSUME NEW d \in Cred, NEW keep \in BOOLEAN, d = c => keep,
               row' = [row EXCEPT ![d] = Revived(row[d], keep)]
        PROVE  row'[c].left = row[c].left
    <3>1. row'[c] = row[c] \/ (keep /\ row'[c] = Revived(row[c], keep))
      BY <1>1, <2>4
    <3>2. keep => Revived(row[c], keep) = [row[c] EXCEPT !.disabled = FALSE, !.err = 0]
      BY DEF Revived
    <3>3. [row[c] EXCEPT !.disabled = FALSE, !.err = 0].left = row[c].left
      BY <1>1 DEF RowType
    <3> QED BY <3>1, <3>2, <3>3
  <2>5. ASSUME NEW d \in Cred, MergeLogin(d)
        PROVE  row'[c].left = row[c].left
    <3> DEFINE keep == row[d].kind \in UpstreamKinds
    <3>1. keep \in BOOLEAN /\ (d = c => keep)
      OBVIOUS
    <3>2. row' = [row EXCEPT ![d] = Revived(row[d], keep)]
      BY <2>5 DEF MergeLogin
    <3> HIDE DEF keep
    <3> QED BY <2>4, <3>1, <3>2
  <2>6. ASSUME NEW d \in Cred, NEW force \in BOOLEAN, d = c => ~force, Revive(d, force)
        PROVE  row'[c].left = row[c].left
    <3> DEFINE keep == ~force /\ row[d].kind \in UpstreamKinds
    <3>1. keep \in BOOLEAN /\ (d = c => keep)
      BY <2>6
    <3>2. row' = [row EXCEPT ![d] = Revived(row[d], keep)]
      BY <2>6 DEF Revive
    <3> HIDE DEF keep
    <3> QED BY <2>4, <3>1, <3>2
  <2>7. ASSUME NEW d \in Cred, NEW force \in BOOLEAN, Revive(d, force)
        PROVE  row'[c].left = row[c].left
    <3>1. CASE d = c /\ force
      <4>1. Revive(c, FALSE) \/ MergeLogin(c)
        BY <2>7, <3>1 DEF ForcedRevival
      <4> QED BY <1>1, <2>5, <2>6, <4>1
    <3>2. CASE ~(d = c /\ force)
      BY <2>6, <2>7, <3>2
    <3> QED BY <3>1, <3>2
  <2>8. row'[c].left = row[c].left
    BY <1>1, <1>2, <2>1, <2>2, <2>3, <2>5, <2>7 DEF Admin
  <2> QED BY <2>8
<1>3. ASSUME Success
      PROVE  row'[c].left > 0
  BY <1>1, <1>3 DEF Success, NoteSuccess, RowType
<1>4. ASSUME Background
      PROVE  row'[c].left > 0
  <2>1. ASSUME NEW d \in Cred, MarkReloginRequired(d)
        PROVE  row'[c] = row[c]
    <3>1. \A r \in RowType : HardDisabled(r).disabled
      BY DEF HardDisabled, RowType
    <3> QED BY <1>1, <2>1, <3>1 DEF MarkReloginRequired
  <2>2. ASSUME PurgeAccountCooldowns
        PROVE  row'[c] = row[c]
    <3>1. ~(row[c].left <= 0)
      BY <1>1 DEF RowType, NoCooling
    <3> QED BY <1>1, <2>2, <3>1 DEF PurgeAccountCooldowns
  <2> QED BY <1>4, <2>1, <2>2 DEF Background, ClearBlocked, PurgeModelCooldowns
<1> QED BY <1>1, <1>2, <1>3, <1>4, ErrorKeepsInstant DEF Next

\* An instant of recovery the upstream named is ended by time, by a forced revive of its
\* account or by a hard disable, and by nothing else; an error may replace it by another.
THEOREM RecoveryInstantsKept == Spec => RecoveryInstantKept
<1>1. IInv /\ [Next]_vars =>
        [\A c \in Live \intersect Live' :
           /\ row[c].left > 0
           /\ row[c].kind \in UpstreamKinds
           /\ ~row'[c].disabled
           => row'[c].left > 0 \/ Tick \/ ForcedRevival(c)]_vars
  BY InstantKept DEF Live
<1> QED BY <1>1, PoolInvariant, PTL DEF Spec, RecoveryInstantKept

-----------------------------------------------------------------------------
(* The invariant of one handler.                                           *)

\* A handler that has a credential, or takes leave of a client it has sent frames to.
PlaceInv(q) ==
  /\ q.pc \in {"open", "checking", "closing", "queued", "parting"} => q.cred \in Cred
  /\ q.pc \in {"ready", "asleep", "queued"} => ~q.emitted
  /\ q.pc = "closing" /\ q.plan \in {"queue", "effort", "effort if rotating"} => ~q.emitted

\* An attempt is counted for each credential that is called, but for those that queued
\* rounds gave back; a downgrade may go on from the last one.
Spare(q) == IF q.downgraded THEN 1 ELSE 0
Rotating(q) ==
  \/ q.pc \in {"ready", "asleep", "queued"}
  \/ q.pc = "closing" /\ q.plan \in {"queue", "effort"}
BudgetInv(q) ==
  /\ IsFiniteSet(q.opened)
  /\ Cardinality(q.opened) <= q.attempts + q.rounds
  /\ q.attempts <= MaxRotate + Spare(q)
  /\ Rotating(q) => q.attempts < MaxRotate + Spare(q)

\* A row closes a request when its handler is through with it, and the verdict says why.
RowsInv(q) ==
  LET w == q.rows IN
  /\ q.rejected => w.reject > 0
  /\ q.attributed <=> w.attempt > 0
  /\ q.pc \notin {"parting", "done"} => w.closing = 0
  /\ q.pc \notin {"closing", "done"} => w.ok = 0 /\ w.gone = 0
  /\ q.pc = "closing" /\ q.plan # "finish" => w.ok = 0 /\ w.gone = 0
  /\ w.ok + w.closing <= 1 /\ w.ok + w.gone <= 1
  /\ w.closing + w.gone > 1 => Impatient /\ q.emitted
  /\ w.closing = 1 /\ w.attempt > 0 => q.emitted
  /\ q.answer \in Verdicts => w.ok + w.closing + w.attempt + w.reject > 0

HandlerInv(q) == q \in RequestType /\ PlaceInv(q) /\ BudgetInv(q) /\ RowsInv(q)

HandlersInv == req = [r \in Req |-> req[r]] /\ \A r \in Req : HandlerInv(req[r])
-----------------------------------------------------------------------------
(* What each step makes of its handler.                                    *)

\* A new request.
LEMMA NewHandler == HandlerInv(NewRequest)
<1>1. NewRequest \in RequestType
  BY EngineConstants DEF NewRequest, RequestType, Phases, Plans, Endings, Verdicts, NoRows
<1>2. PlaceInv(NewRequest) /\ RowsInv(NewRequest)
  BY DEF NewRequest, PlaceInv, RowsInv, NoRows, Verdicts
<1>3. BudgetInv(NewRequest)
  BY EngineConstants, FS_EmptySet DEF NewRequest, BudgetInv, Spare, Rotating
<1> QED BY <1>1, <1>2, <1>3 DEF HandlerInv

\* A credential that is chosen costs an attempt.
LEMMA OpenedHandler ==
  ASSUME NEW q, HandlerInv(q), q.pc = "ready", NEW c \in Cred, NEW p,
         p = Opened(q, c)
  PROVE  HandlerInv(p)
<1> USE DEF Opened
<1>0. q \in RequestType
  BY DEF HandlerInv
<1>1. /\ p.pc = "open" /\ p.cred = c /\ p.opened = q.opened \union {c}
      /\ p.attempts = q.attempts + 1
      /\ p.rounds = q.rounds /\ p.downgraded = q.downgraded /\ p.rejected = q.rejected
      /\ p.attributed = q.attributed /\ p.emitted = q.emitted /\ p.plan = q.plan
      /\ p.answer = q.answer /\ p.rows = q.rows
  BY <1>0 DEF RequestType
<1>2. p \in RequestType
  <2>1. /\ q.tried \union {c} \in SUBSET Cred /\ q.opened \union {c} \in SUBSET Cred
        /\ q.attempts + 1 \in Int /\ "open" \in Phases
    BY <1>0 DEF RequestType, Phases
  <2> QED BY <1>0, <2>1 DEF RequestType
<1>3. PlaceInv(p) /\ RowsInv(p)
  BY <1>1 DEF HandlerInv, PlaceInv, RowsInv
<1>4. BudgetInv(p)
  <2>1. IsFiniteSet(p.opened) /\ Cardinality(p.opened) <= Cardinality(q.opened) + 1
    <3>1. IsFiniteSet(q.opened) /\ p.opened = q.opened \union {c}
      BY <1>1 DEF HandlerInv, BudgetInv
    <3>2. Cardinality(q.opened) \in Nat
      BY <3>1, FS_CardinalityType
    <3>3. /\ IsFiniteSet(q.opened \union {c})
          /\ Cardinality(q.opened \union {c})
               = IF c \in q.opened THEN Cardinality(q.opened) ELSE Cardinality(q.opened) + 1
      BY <3>1, FS_AddElement
    <3> QED BY <3>1, <3>2, <3>3
  <2>2. Cardinality(q.opened) \in Nat /\ Cardinality(p.opened) \in Nat
    BY <2>1, FS_CardinalityType DEF HandlerInv, BudgetInv
  <2>3. q.attempts \in Int /\ q.rounds \in Int /\ MaxRotate \in Nat
    BY <1>0, EngineConstants DEF RequestType
  <2> QED BY <1>1, <2>1, <2>2, <2>3 DEF HandlerInv, BudgetInv, Spare, Rotating
<1> QED BY <1>2, <1>3, <1>4 DEF HandlerInv
\* Where only the place of a handler changes, its books stay in order.
LEMMA MovedHandler ==
  ASSUME NEW q, HandlerInv(q), NEW w \in Phases, NEW p, p = [q EXCEPT !.pc = w],
         w \in {"open", "checking", "closing", "queued", "parting"} => q.cred \in Cred,
         w \in {"ready", "asleep", "queued"} => ~q.emitted,
         w \in {"ready", "asleep", "queued"} => q.attempts < MaxRotate + Spare(q),
         w # "closing",
         w \notin {"parting", "done"} => q.rows.closing = 0,
         w # "done" => q.rows.ok = 0 /\ q.rows.gone = 0
  PROVE  HandlerInv(p)
<1>0. q \in RequestType
  BY DEF HandlerInv
<1>1. /\ p.pc = w /\ p.cred = q.cred /\ p.opened = q.opened /\ p.attempts = q.attempts
      /\ p.rounds = q.rounds /\ p.downgraded = q.downgraded /\ p.rejected = q.rejected
      /\ p.attributed = q.attributed /\ p.emitted = q.emitted /\ p.plan = q.plan
      /\ p.answer = q.answer /\ p.rows = q.rows
  BY <1>0 DEF RequestType
<1>2. p \in RequestType
  BY <1>0 DEF RequestType
<1>3. PlaceInv(p)
  BY <1>1 DEF PlaceInv
<1>4. BudgetInv(p)
  BY <1>1 DEF HandlerInv, BudgetInv, Spare, Rotating
<1>5. RowsInv(p)
  BY <1>1 DEF HandlerInv, RowsInv
<1> QED BY <1>2, <1>3, <1>4, <1>5 DEF HandlerInv

\* A handler falls asleep, wakes, and its nap passes.
LEMMA NappingHandler ==
  ASSUME NEW q, HandlerInv(q), NEW p, NEW n \in 0..ShortWait,
         \/ q.pc = "ready" /\ p = [q EXCEPT !.pc = "asleep", !.nap = n]
         \/ q.pc = "asleep" /\ p = [q EXCEPT !.pc = "ready", !.waited = TRUE]
         \/ p = [q EXCEPT !.nap = n]
  PROVE  HandlerInv(p)
<1>0. q \in RequestType
  BY DEF HandlerInv
<1>1. /\ p.pc = q.pc \/ {p.pc, q.pc} = {"ready", "asleep"}
      /\ p.cred = q.cred /\ p.opened = q.opened /\ p.attempts = q.attempts
      /\ p.rounds = q.rounds /\ p.downgraded = q.downgraded /\ p.rejected = q.rejected
      /\ p.attributed = q.attributed /\ p.emitted = q.emitted /\ p.plan = q.plan
      /\ p.answer = q.answer /\ p.rows = q.rows
  BY <1>0 DEF RequestType
<1>2. p \in RequestType
  <2>0. "asleep" \in Phases /\ "ready" \in Phases
    BY DEF Phases
  <2>1. CASE p = [q EXCEPT !.pc = "asleep", !.nap = n]
    BY <1>0, <2>0, <2>1 DEF RequestType
  <2>2. CASE p = [q EXCEPT !.pc = "ready", !.waited = TRUE]
    BY <1>0, <2>0, <2>2 DEF RequestType
  <2>3. CASE p = [q EXCEPT !.nap = n]
    BY <1>0, <2>3 DEF RequestType
  <2> QED BY <2>1, <2>2, <2>3
<1>3. PlaceInv(p)
  BY <1>1 DEF HandlerInv, PlaceInv
<1>4. BudgetInv(p)
  BY <1>1 DEF HandlerInv, BudgetInv, Spare, Rotating
<1>5. RowsInv(p)
  BY <1>1 DEF HandlerInv, RowsInv
<1> QED BY <1>2, <1>3, <1>4, <1>5 DEF HandlerInv

\* The first frame that is sent.
LEMMA EmittingHandler ==
  ASSUME NEW q, HandlerInv(q), q.pc = "open", NEW p, p = [q EXCEPT !.emitted = TRUE]
  PROVE  HandlerInv(p)
<1>0. q \in RequestType
  BY DEF HandlerInv
<1>1. /\ p.pc = "open" /\ p.emitted /\ p.cred = q.cred /\ p.opened = q.opened
      /\ p.attempts = q.attempts
      /\ p.rounds = q.rounds /\ p.downgraded = q.downgraded /\ p.rejected = q.rejected
      /\ p.attributed = q.attributed /\ p.plan = q.plan /\ p.answer = q.answer /\ p.rows = q.rows
  BY <1>0 DEF RequestType
<1>2. p \in RequestType
  BY <1>0 DEF RequestType
<1>3. PlaceInv(p)
  BY <1>1 DEF HandlerInv, PlaceInv
<1>4. BudgetInv(p)
  BY <1>1 DEF HandlerInv, BudgetInv, Spare, Rotating
<1>5. RowsInv(p)
  BY <1>1 DEF HandlerInv, RowsInv
<1> QED BY <1>2, <1>3, <1>4, <1>5 DEF HandlerInv

\* An attempt that succeeds ends its request with a row.
LEMMA SucceedingHandler ==
  ASSUME NEW q, HandlerInv(q), q.pc = "open", NEW p, NEW w,
         w = [q.rows EXCEPT !.ok = @ + 1],
         p = [q EXCEPT !.pc = "closing", !.plan = "finish", !.answer = "ok", !.rows = w]
  PROVE  HandlerInv(p)
<1>0. q \in RequestType
  BY DEF HandlerInv
<1>1. q.rows \in [{"ok", "attempt", "reject", "closing", "gone"} -> Nat]
  BY <1>0 DEF RequestType
<1>2. /\ w.ok = q.rows.ok + 1 /\ w.attempt = q.rows.attempt /\ w.reject = q.rows.reject
      /\ w.closing = q.rows.closing /\ w.gone = q.rows.gone
      /\ w \in [{"ok", "attempt", "reject", "closing", "gone"} -> Nat]
  BY <1>1
<1>3. /\ p.pc = "closing" /\ p.plan = "finish" /\ p.cred = q.cred /\ p.opened = q.opened
      /\ p.attempts = q.attempts
      /\ p.rounds = q.rounds /\ p.downgraded = q.downgraded /\ p.rejected = q.rejected
      /\ p.attributed = q.attributed /\ p.emitted = q.emitted
      /\ p.answer = "ok" /\ p.rows = w
  BY <1>0 DEF RequestType
<1>4. p \in RequestType
  <2>1. "closing" \in Phases /\ "finish" \in Plans /\ "ok" \in Endings
    BY DEF Phases, Plans, Endings, Verdicts
  <2> QED BY <1>0, <1>2, <2>1 DEF RequestType
<1>5. PlaceInv(p)
  BY <1>3 DEF HandlerInv, PlaceInv
<1>6. BudgetInv(p)
  BY <1>3 DEF HandlerInv, BudgetInv, Spare, Rotating
<1>7. RowsInv(p)
  BY <1>1, <1>2, <1>3 DEF HandlerInv, RowsInv, Verdicts
<1> QED BY <1>4, <1>5, <1>6, <1>7 DEF HandlerInv

\* An exception nobody understands ends it without one.
LEMMA EscapingHandler ==
  ASSUME NEW q, HandlerInv(q), q.pc = "open", NEW p,
         p = [q EXCEPT !.pc = "closing", !.plan = "finish", !.answer = "internal_error"]
  PROVE  HandlerInv(p)
<1>0. q \in RequestType
  BY DEF HandlerInv
<1>1. /\ p.pc = "closing" /\ p.plan = "finish" /\ p.cred = q.cred /\ p.opened = q.opened
      /\ p.attempts = q.attempts
      /\ p.rounds = q.rounds /\ p.downgraded = q.downgraded /\ p.rejected = q.rejected
      /\ p.attributed = q.attributed /\ p.emitted = q.emitted
      /\ p.answer = "internal_error" /\ p.rows = q.rows
  BY <1>0 DEF RequestType
<1>2. p \in RequestType
  <2>1. "closing" \in Phases /\ "finish" \in Plans /\ "internal_error" \in Endings
    BY DEF Phases, Plans, Endings, Verdicts
  <2> QED BY <1>0, <2>1 DEF RequestType
<1>3. PlaceInv(p)
  BY <1>1 DEF HandlerInv, PlaceInv
<1>4. BudgetInv(p)
  BY <1>1 DEF HandlerInv, BudgetInv, Spare, Rotating
<1>5. RowsInv(p)
  BY <1>0, <1>1 DEF HandlerInv, RowsInv, RequestType, Verdicts
<1> QED BY <1>2, <1>3, <1>4, <1>5 DEF HandlerInv

\* A round that queues gives its attempt back.
LEMMA QueueingHandler ==
  ASSUME NEW q, HandlerInv(q), q.pc = "open", ~q.emitted, q.rounds < MaxQueueRounds, NEW p,
         p = [q EXCEPT !.pc = "closing", !.plan = "queue", !.rounds = @ + 1, !.attempts = @ - 1]
  PROVE  HandlerInv(p)
<1>0. q \in RequestType
  BY DEF HandlerInv
<1>1. /\ p.pc = "closing" /\ p.plan = "queue" /\ p.cred = q.cred /\ p.opened = q.opened
      /\ p.attempts = q.attempts - 1 /\ p.rounds = q.rounds + 1
      /\ p.downgraded = q.downgraded /\ p.rejected = q.rejected
      /\ p.attributed = q.attributed /\ p.emitted = q.emitted
      /\ p.answer = q.answer /\ p.rows = q.rows
  BY <1>0 DEF RequestType
<1>2. q.attempts \in Int /\ q.rounds \in 0..MaxQueueRounds /\ MaxQueueRounds \in Nat /\ MaxRotate \in Nat
  BY <1>0, EngineConstants DEF RequestType
<1>3. p \in RequestType
  <2>1. "closing" \in Phases /\ "queue" \in Plans
        /\ q.rounds + 1 \in 0..MaxQueueRounds /\ q.attempts - 1 \in Int
    BY <1>2 DEF Phases, Plans
  <2> QED BY <1>0, <2>1 DEF RequestType
<1>4. PlaceInv(p)
  BY <1>1 DEF HandlerInv, PlaceInv
<1>5. BudgetInv(p)
  <2>1. q.attempts - 1 + (q.rounds + 1) = q.attempts + q.rounds
    BY <1>2
  <2>2. Spare(q) \in Int /\ Spare(p) = Spare(q)
    BY <1>1 DEF Spare
  <2> QED BY <1>1, <1>2, <2>1, <2>2 DEF HandlerInv, BudgetInv
<1>6. RowsInv(p)
  BY <1>1 DEF HandlerInv, RowsInv
<1> QED BY <1>3, <1>4, <1>5, <1>6 DEF HandlerInv

\* What is within a budget is below the next.
LEMMA OneMore == \A a \in Int, m \in Nat : a <= m + 0 => a <= m + 1 /\ a < m + 1
OBVIOUS

\* A downgrade goes on as if it had an attempt left, once.
LEMMA DowngradingHandler ==
  ASSUME NEW q, HandlerInv(q), q.pc = "open", ~q.emitted, ~q.downgraded, NEW p,
         NEW plan \in {"effort", "effort if rotating"},
         p = [q EXCEPT !.pc = "closing", !.plan = plan, !.downgraded = TRUE]
  PROVE  HandlerInv(p)
<1>0. q \in RequestType
  BY DEF HandlerInv
<1>1. /\ p.pc = "closing" /\ p.plan = plan /\ p.cred = q.cred /\ p.opened = q.opened
      /\ p.attempts = q.attempts /\ p.rounds = q.rounds
      /\ p.downgraded /\ p.rejected = q.rejected
      /\ p.attributed = q.attributed /\ p.emitted = q.emitted
      /\ p.answer = q.answer /\ p.rows = q.rows
  BY <1>0 DEF RequestType
<1>2. q.attempts \in Int /\ MaxRotate \in Nat
  BY <1>0, EngineConstants DEF RequestType
<1>3. p \in RequestType
  <2>1. "closing" \in Phases /\ plan \in Plans
    BY DEF Phases, Plans
  <2> QED BY <1>0, <2>1 DEF RequestType
<1>4. PlaceInv(p)
  BY <1>1 DEF HandlerInv, PlaceInv
<1>5. BudgetInv(p)
  <2>1. Spare(q) = 0 /\ Spare(p) = 1
    BY <1>1 DEF Spare
  <2>2. q.attempts <= MaxRotate + Spare(q)
    BY DEF HandlerInv, BudgetInv
  <2>3. MaxRotate + Spare(q) = MaxRotate + 0
    BY <2>1, Zenon
  <2>4. q.attempts <= MaxRotate + 1 /\ q.attempts < MaxRotate + 1
    BY <1>2, <2>2, <2>3, OneMore, Zenon
  <2> QED BY <1>1, <2>1, <2>4 DEF HandlerInv, BudgetInv
<1>6. RowsInv(p)
  BY <1>1 DEF HandlerInv, RowsInv
<1> QED BY <1>3, <1>4, <1>5, <1>6 DEF HandlerInv

\* A failure that rotates: what it records of its kind, what it charges, and what it
\* takes out of the choice.
LEMMA FailingHandler ==
  ASSUME NEW q, HandlerInv(q), q.pc \in {"open", "checking"}, NEW p,
         NEW kind \in Kinds \union NoChargeKinds, NEW rejected \in BOOLEAN,
         NEW attributed \in BOOLEAN, NEW rows, NEW tried \in SUBSET Cred,
         p = [q EXCEPT !.pc = "closing", !.plan = "rotate", !.failures = @ \union {kind},
                       !.rejected = rejected, !.attributed = attributed, !.rows = rows,
                       !.tried = tried],
         rows \in [{"ok", "attempt", "reject", "closing", "gone"} -> Nat],
         rows.ok = 0 /\ rows.closing = 0 /\ rows.gone = 0,
         rejected => rows.reject > 0,
         attributed <=> rows.attempt > 0,
         rows.attempt >= q.rows.attempt /\ rows.reject >= q.rows.reject
  PROVE  HandlerInv(p)
<1>0. q \in RequestType
  BY DEF HandlerInv
<1>1. /\ p.pc = "closing" /\ p.plan = "rotate" /\ p.cred = q.cred /\ p.opened = q.opened
      /\ p.attempts = q.attempts /\ p.rounds = q.rounds
      /\ p.downgraded = q.downgraded /\ p.rejected = rejected
      /\ p.attributed = attributed /\ p.emitted = q.emitted
      /\ p.answer = q.answer /\ p.rows = rows
  BY <1>0 DEF RequestType
<1>2. p \in RequestType
  <2>1. "closing" \in Phases /\ "rotate" \in Plans
        /\ q.failures \union {kind} \in SUBSET (Kinds \union NoChargeKinds)
    BY <1>0 DEF Phases, Plans, RequestType
  <2> QED BY <1>0, <2>1 DEF RequestType
<1>3. PlaceInv(p)
  BY <1>1 DEF HandlerInv, PlaceInv
<1>4. BudgetInv(p)
  BY <1>1 DEF HandlerInv, BudgetInv, Spare, Rotating
<1>5. RowsInv(p)
  <2>1. q.rows \in [{"ok", "attempt", "reject", "closing", "gone"} -> Nat]
    BY <1>0 DEF RequestType
  <2>2. q.rows.ok = 0 /\ q.rows.closing = 0 /\ q.rows.gone = 0
    BY DEF HandlerInv, RowsInv
  <2>3. q.answer \in Verdicts => q.rows.attempt + q.rows.reject > 0
    BY <2>1, <2>2 DEF HandlerInv, RowsInv
  <2>4. /\ rows.ok \in Nat /\ rows.closing \in Nat /\ rows.attempt \in Nat /\ rows.reject \in Nat
        /\ q.rows.attempt \in Nat /\ q.rows.reject \in Nat
    BY <2>1
  <2>5. q.rows.attempt + q.rows.reject > 0 => rows.ok + rows.closing + rows.attempt + rows.reject > 0
    BY <2>4
  <2>6. p.answer \in Verdicts => p.rows.ok + p.rows.closing + p.rows.attempt + p.rows.reject > 0
    BY <1>1, <2>3, <2>5
  <2> QED BY <1>1, <2>6 DEF RowsInv
<1> QED BY <1>2, <1>3, <1>4, <1>5 DEF HandlerInv

\* The end of a request that failed: a row, unless its attempts already say why.
LEMMA FailedHandler ==
  ASSUME NEW q, HandlerInv(q),
         q.pc = "ready" \/ (q.pc = "closing" /\ q.plan # "finish")
  PROVE  HandlerInv(Failed(q))
<1> DEFINE p == Failed(q)
           w == ClosingRow(q)
           pc == IF q.emitted THEN "parting" ELSE "done"
           answer == IF q.rejected THEN "invalid_request" ELSE "no_healthy_credential"
<1>0. q \in RequestType
  BY DEF HandlerInv
<1>1. q.rows \in [{"ok", "attempt", "reject", "closing", "gone"} -> Nat]
  BY <1>0 DEF RequestType
<1>2. /\ w.ok = q.rows.ok /\ w.attempt = q.rows.attempt /\ w.reject = q.rows.reject
      /\ w.gone = q.rows.gone
      /\ w.closing = IF q.rejected \/ (q.attributed /\ ~q.emitted) THEN q.rows.closing
                     ELSE q.rows.closing + 1
      /\ w \in [{"ok", "attempt", "reject", "closing", "gone"} -> Nat]
  BY <1>1 DEF ClosingRow
<1>3. p = [q EXCEPT !.pc = pc, !.rows = w, !.answer = answer]
  BY DEF Failed
<1>4. pc \in {"parting", "done"} /\ (pc = "parting" <=> q.emitted)
      /\ answer \in {"invalid_request", "no_healthy_credential"}
  BY <1>0 DEF RequestType
<1> HIDE DEF p, w, pc, answer
<1>5. /\ p.pc = pc /\ p.plan = q.plan /\ p.cred = q.cred /\ p.opened = q.opened
      /\ p.attempts = q.attempts /\ p.rounds = q.rounds
      /\ p.downgraded = q.downgraded /\ p.rejected = q.rejected
      /\ p.attributed = q.attributed /\ p.emitted = q.emitted
      /\ p.answer = answer /\ p.rows = w
  BY <1>0, <1>3 DEF RequestType
<1>6. p \in RequestType
  <2>1. pc \in Phases /\ answer \in Endings
    BY <1>4 DEF Phases, Endings, Verdicts
  <2> QED BY <1>0, <1>2, <1>3, <2>1 DEF RequestType
<1>7. PlaceInv(p)
  BY <1>4, <1>5 DEF HandlerInv, PlaceInv
<1>8. BudgetInv(p)
  BY <1>4, <1>5 DEF HandlerInv, BudgetInv, Spare, Rotating
<1>9. RowsInv(p)
  <2>1. q.rows.ok = 0 /\ q.rows.closing = 0 /\ q.rows.gone = 0
    BY DEF HandlerInv, RowsInv
  <2>2. (q.rejected => w.reject > 0) /\ (q.attributed <=> w.attempt > 0)
    BY <1>2 DEF HandlerInv, RowsInv
  <2>3. w.ok = 0 /\ w.gone = 0
        /\ w.closing = IF q.rejected \/ (q.attributed /\ ~q.emitted) THEN 0 ELSE 1
    BY <1>2, <2>1
  <2>4. w.ok + w.closing + w.attempt + w.reject > 0
    BY <1>2, <2>2, <2>3
  <2>5. w.closing = 1 /\ w.attempt > 0 => q.emitted
    BY <2>2, <2>3
  <2> QED BY <1>4, <1>5, <2>2, <2>3, <2>4, <2>5 DEF RowsInv
<1> QED BY <1>6, <1>7, <1>8, <1>9 DEF HandlerInv, p

\* What a disconnect leaves.
LEMMA GoneHandler ==
  ASSUME NEW q, HandlerInv(q), NEW w \in Phases, NEW p, p = [Gone(q) EXCEPT !.pc = w],
         \/ q.pc \in {"open", "checking"} /\ w = "closing"
         \/ q.pc \in {"queued", "asleep", "closing"} /\ w = "done"
         \/ q.pc = "parting" /\ w = "done" /\ Impatient
  PROVE  HandlerInv(p)
<1> DEFINE rows == [q.rows EXCEPT !.gone = IF q.emitted /\ q.rows.ok = 0 THEN 1 ELSE @]
<1>0. q \in RequestType
  BY DEF HandlerInv
<1>1. q.rows \in [{"ok", "attempt", "reject", "closing", "gone"} -> Nat]
  BY <1>0 DEF RequestType
<1>2. /\ rows.ok = q.rows.ok /\ rows.attempt = q.rows.attempt /\ rows.reject = q.rows.reject
      /\ rows.closing = q.rows.closing
      /\ rows.gone = IF q.emitted /\ q.rows.ok = 0 THEN 1 ELSE q.rows.gone
      /\ rows \in [{"ok", "attempt", "reject", "closing", "gone"} -> Nat]
  BY <1>1
<1>3. Gone(q) = [q EXCEPT !.answer = "gone", !.plan = "finish", !.rows = rows]
  BY DEF Gone
<1> HIDE DEF rows
<1>4. p = [q EXCEPT !.answer = "gone", !.plan = "finish", !.rows = rows, !.pc = w]
  BY <1>0, <1>3 DEF RequestType
<1>5. /\ p.pc = w /\ p.plan = "finish" /\ p.cred = q.cred /\ p.opened = q.opened
      /\ p.attempts = q.attempts /\ p.rounds = q.rounds
      /\ p.downgraded = q.downgraded /\ p.rejected = q.rejected
      /\ p.attributed = q.attributed /\ p.emitted = q.emitted
      /\ p.answer = "gone" /\ p.rows = rows
  BY <1>0, <1>4 DEF RequestType
<1>6. p \in RequestType
  <2>1. "finish" \in Plans /\ "gone" \in Endings
    BY DEF Plans, Endings
  <2> QED BY <1>0, <1>2, <1>4, <2>1 DEF RequestType
<1>7. PlaceInv(p)
  BY <1>5 DEF HandlerInv, PlaceInv
<1>8. BudgetInv(p)
  BY <1>5 DEF HandlerInv, BudgetInv, Spare, Rotating
<1>9. RowsInv(p)
  <2>1. /\ q.rows.ok + q.rows.closing <= 1 /\ q.rows.ok + q.rows.gone <= 1
        /\ q.rows.closing + q.rows.gone > 1 => Impatient /\ q.emitted
        /\ q.pc # "parting" => q.rows.closing = 0
    BY DEF HandlerInv, RowsInv
  <2>2. /\ rows.ok + rows.closing <= 1 /\ rows.ok + rows.gone <= 1
        /\ rows.closing + rows.gone > 1 => Impatient /\ q.emitted
    BY <1>1, <1>2, <2>1
  <2>3. w # "done" => rows.closing = 0
    BY <1>2, <2>1
  <2> QED BY <1>2, <1>5, <2>2, <2>3 DEF HandlerInv, RowsInv, Verdicts
<1> QED BY <1>6, <1>7, <1>8, <1>9 DEF HandlerInv

-----------------------------------------------------------------------------
(* The steps.                                                              *)

\* A step that changes one handler need only keep that one in order.
LEMMA OneHandler ==
  ASSUME HandlersInv, NEW r \in Req, NEW p, HandlerInv(p), req' = [req EXCEPT ![r] = p]
  PROVE  HandlersInv'
BY DEF HandlersInv

\* Choosing a credential, or failing for want of one.
LEMMA PickKeepsHandlers ==
  ASSUME HandlersInv, NEW r \in Req, Pick(r)
  PROVE  HandlersInv'
<1>1. PICK c \in Preferred(Eligible(r)) : Open(r, c)
  BY DEF Pick
<1>2. c \in Cred
  BY DEF Preferred, Eligible
<1>3. HandlerInv(req[r]) /\ req[r].pc = "ready"
  BY DEF HandlersInv, Pick, At
<1>4. req' = [req EXCEPT ![r] = Opened(req[r], c)]
  BY <1>1 DEF Open
<1>5. HandlerInv(Opened(req[r], c))
  BY <1>2, <1>3, OpenedHandler
<1> QED BY <1>4, <1>5, OneHandler

\* Waiting for a short cooldown, and waking.
LEMMA NapKeepsHandlers ==
  ASSUME HandlersInv, IInv, NEW r \in Req, Sleep(r) \/ Wake(r)
  PROVE  HandlersInv'
<1>0. HandlerInv(req[r])
  BY DEF HandlersInv
<1>1. CASE Sleep(r)
  <2>1. PICK n \in WorthWaiting(r) :
          req' = [req EXCEPT ![r] = [req[r] EXCEPT !.pc = "asleep", !.nap = n]]
    BY <1>1 DEF Sleep, HandlersInv
  <2>2. n \in 0..ShortWait
    <3>1. PICK d \in Cred : n = Remaining(d, ModelOf[r]) /\ n > 0 /\ n <= ShortWait
      BY <2>1 DEF WorthWaiting, Coolings
    <3>2. row[d].left \in Int /\ entry[<<d, ModelOf[r]>>].left \in Int
      BY EngineConstants DEF IInv, RowInv, GoodRows, EntryInv, GoodEntries, GoodEntry, RowType,
                             EntryType, NoCooling
    <3>3. n \in Int
      BY <3>1, <3>2 DEF Remaining, Larger
    <3> QED BY <3>1, <3>3, EngineConstants
  <2>3. req[r].pc = "ready"
    BY <1>1 DEF Sleep, At
  <2>4. HandlerInv([req[r] EXCEPT !.pc = "asleep", !.nap = n])
    BY <1>0, <2>2, <2>3, NappingHandler
  <2> QED BY <2>1, <2>4, OneHandler
<1>2. CASE Wake(r)
  <2>1. /\ req' = [req EXCEPT ![r] = [req[r] EXCEPT !.pc = "ready", !.waited = TRUE]]
        /\ req[r].pc = "asleep"
    BY <1>2 DEF Wake, At, HandlersInv
  <2>2. 0 \in 0..ShortWait
    BY EngineConstants
  <2>3. HandlerInv([req[r] EXCEPT !.pc = "ready", !.waited = TRUE])
    BY <1>0, <2>1, <2>2, NappingHandler
  <2> QED BY <2>1, <2>3, OneHandler
<1> QED BY <1>1, <1>2

\* Nothing left to choose; a frame goes out.
LEMMA EndKeepsHandlers ==
  ASSUME HandlersInv, NEW r \in Req, Exhausted(r) \/ Frame(r)
  PROVE  HandlersInv'
<1>0. HandlerInv(req[r])
  BY DEF HandlersInv
<1>1. CASE Exhausted(r)
  <2>1. req' = [req EXCEPT ![r] = Failed(req[r])] /\ req[r].pc = "ready"
    BY <1>1 DEF Exhausted, At, HandlersInv
  <2> QED BY <1>0, <2>1, FailedHandler, OneHandler
<1>2. CASE Frame(r)
  <2>1. req' = [req EXCEPT ![r] = [req[r] EXCEPT !.emitted = TRUE]] /\ req[r].pc = "open"
    BY <1>2 DEF Frame, At, HandlersInv
  <2>2. HandlerInv([req[r] EXCEPT !.emitted = TRUE])
    BY <1>0, <2>1, EmittingHandler
  <2> QED BY <2>1, <2>2, OneHandler
<1> QED BY <1>1, <1>2

\* An answer that ends the attempt without charging the pool for a failure.
LEMMA AnswerKeepsHandlers ==
  ASSUME HandlersInv, NEW r \in Req,
         Succeeds(r) \/ QueueRestart(r) \/ EffortRestart(r) \/ Escapes(r)
  PROVE  HandlersInv'
<1>0. HandlerInv(req[r]) /\ req[r].pc = "open" /\ req[r] \in RequestType
  BY DEF HandlersInv, HandlerInv, Succeeds, QueueRestart, EffortRestart, Escapes, At
<1>1. CASE Succeeds(r)
  <2> DEFINE w == [req[r].rows EXCEPT !.ok = @ + 1]
             p == [req[r] EXCEPT !.pc = "closing", !.plan = "finish", !.answer = "ok", !.rows = w]
  <2>1. HandlerInv(p)
    BY <1>0, SucceedingHandler
  <2>2. p = Served(req[r])
    BY <1>0 DEF Served, RequestType
  <2>3. req' = [req EXCEPT ![r] = Served(req[r])]
    BY <1>1 DEF Succeeds
  <2> QED BY <2>1, <2>2, <2>3, OneHandler
<1>2. CASE QueueRestart(r)
  <2> DEFINE p == [req[r] EXCEPT !.pc = "closing", !.plan = "queue", !.rounds = @ + 1,
                                 !.attempts = @ - 1]
  <2>1. p = Requeued(req[r])
    BY <1>0 DEF Requeued, Closing, RequestType
  <2>2. HandlerInv(p)
    BY <1>0, <1>2, QueueingHandler DEF QueueRestart
  <2>3. req' = [req EXCEPT ![r] = Requeued(req[r])]
    BY <1>2 DEF QueueRestart
  <2> QED BY <2>1, <2>2, <2>3, OneHandler
<1>3. CASE EffortRestart(r)
  <2>1. PICK plan \in {"effort", "effort if rotating"} :
          req' = [req EXCEPT ![r] = [Closing(req[r], plan) EXCEPT !.downgraded = TRUE]]
    BY <1>3 DEF EffortRestart, HandlersInv
  <2> DEFINE p == [req[r] EXCEPT !.pc = "closing", !.plan = plan, !.downgraded = TRUE]
  <2>2. p = [Closing(req[r], plan) EXCEPT !.downgraded = TRUE]
    BY <1>0 DEF Closing, RequestType
  <2>3. HandlerInv(p)
    BY <1>0, <1>3, DowngradingHandler DEF EffortRestart
  <2> QED BY <2>1, <2>2, <2>3, OneHandler
<1>4. CASE Escapes(r)
  <2> DEFINE p == [req[r] EXCEPT !.pc = "closing", !.plan = "finish",
                                 !.answer = "internal_error"]
  <2>1. p = [Closing(req[r], "finish") EXCEPT !.answer = "internal_error"]
    BY <1>0 DEF Closing, RequestType
  <2>2. req' = [req EXCEPT ![r] = p]
    BY <1>4, <2>1 DEF Escapes, HandlersInv
  <2>3. HandlerInv(p)
    BY <1>0, EscapingHandler
  <2> QED BY <2>2, <2>3, OneHandler
<1> QED BY <1>1, <1>2, <1>3, <1>4

\* An answer that blames somebody, or nobody, and rotates.
LEMMA FailureKeepsHandlers ==
  ASSUME HandlersInv, NEW r \in Req,
         \/ Rejects(r) \/ NoPenalty(r)
         \/ req[r].pc \in {"open", "checking"} /\ \E kind \in Kinds : Charge(r, kind)
  PROVE  HandlersInv'
<1> DEFINE q == req[r]
<1>0. HandlerInv(q) /\ q.pc \in {"open", "checking"} /\ q \in RequestType
  BY DEF HandlersInv, HandlerInv, Rejects, NoPenalty, At
<1>1. /\ q.rows \in [{"ok", "attempt", "reject", "closing", "gone"} -> Nat]
      /\ q.rejected \in BOOLEAN /\ q.attributed \in BOOLEAN /\ q.tried \in SUBSET Cred
      /\ q.rows.ok = 0 /\ q.rows.closing = 0 /\ q.rows.gone = 0
      /\ q.rejected => q.rows.reject > 0
      /\ q.attributed <=> q.rows.attempt > 0
  BY <1>0 DEF RequestType, HandlerInv, RowsInv
<1>2. \A kind : StillRejected(r, kind) \subseteq {q.rejected, FALSE}
  BY DEF StillRejected
<1>3. Siblings(q.cred) \in SUBSET Cred
  BY DEF Siblings, Live
<1> HIDE DEF q
<1>4. CASE Rejects(r)
  <2> DEFINE w == [q.rows EXCEPT !.reject = @ + 1]
             p == [q EXCEPT !.pc = "closing", !.plan = "rotate", !.failures = @ \union {"reject"},
                            !.rejected = TRUE, !.attributed = q.attributed, !.rows = w,
                            !.tried = q.tried \union Siblings(q.cred)]
  <2>1. /\ w.ok = 0 /\ w.closing = 0 /\ w.gone = 0 /\ w.reject = q.rows.reject + 1
        /\ w.attempt = q.rows.attempt
        /\ w \in [{"ok", "attempt", "reject", "closing", "gone"} -> Nat]
    BY <1>1
  <2>2. w.reject > 0 /\ w.reject >= q.rows.reject /\ w.attempt >= q.rows.attempt
    BY <1>1, <2>1
  <2>3. p = Rejected(q)
    BY <1>0 DEF Rejected, Blamed, Closing, RequestType
  <2>4. "reject" \in Kinds \union NoChargeKinds /\ TRUE \in BOOLEAN
        /\ q.tried \union Siblings(q.cred) \in SUBSET Cred
    BY <1>1, <1>3 DEF NoChargeKinds
  <2> HIDE DEF w
  <2>5. HandlerInv(p)
    BY <1>0, <1>1, <2>1, <2>2, <2>4, FailingHandler
  <2>6. req' = [req EXCEPT ![r] = Rejected(q)]
    BY <1>4 DEF Rejects, q
  <2> QED BY <2>3, <2>5, <2>6, OneHandler
<1>5. CASE NoPenalty(r)
  <2>1. PICK rejected \in StillRejected(r, "request") :
          req' = [req EXCEPT ![r] = [Blamed(Closing(q, "rotate"), "request") EXCEPT
                                       !.rejected = rejected]]
    BY <1>5 DEF NoPenalty, q
  <2> DEFINE p == [q EXCEPT !.pc = "closing", !.plan = "rotate", !.failures = @ \union {"request"},
                            !.rejected = rejected, !.attributed = q.attributed,
                            !.rows = q.rows, !.tried = q.tried]
  <2>2. p = [Blamed(Closing(q, "rotate"), "request") EXCEPT !.rejected = rejected]
    BY <1>0 DEF Blamed, Closing, RequestType
  <2>3. "request" \in Kinds \union NoChargeKinds /\ rejected \in {q.rejected, FALSE}
    BY <1>2, <2>1 DEF NoChargeKinds
  <2>4. rejected \in BOOLEAN /\ (rejected => q.rows.reject > 0)
    BY <1>1, <2>3
  <2>5. q.rows.attempt >= q.rows.attempt /\ q.rows.reject >= q.rows.reject
    BY <1>1
  <2>6. HandlerInv(p)
    BY <1>0, <1>1, <2>3, <2>4, <2>5, FailingHandler
  <2> QED BY <2>1, <2>2, <2>6, OneHandler
<1>6. ASSUME NEW kind \in Kinds, Charge(r, kind)
      PROVE  HandlersInv'
  <2>1. PICK rejected \in StillRejected(r, kind) :
          req' = [req EXCEPT ![r] = Punished(q, kind, rejected)]
    BY <1>6 DEF Charge, q
  <2> DEFINE n == IF kind \in Attributed THEN q.rows.attempt + 1 ELSE q.rows.attempt
             w == [q.rows EXCEPT !.attempt = n]
             attributed == q.attributed \/ kind \in Attributed
             tried == IF kind = "restricted" THEN q.tried \union Siblings(q.cred) ELSE q.tried
             p == [q EXCEPT !.pc = "closing", !.plan = "rotate", !.failures = @ \union {kind},
                            !.rejected = rejected, !.attributed = attributed, !.rows = w,
                            !.tried = tried]
  <2>2. p = Punished(q, kind, rejected)
    BY <1>0 DEF Punished, Blamed, Closing, RequestType
  <2>3. n \in Nat /\ n >= q.rows.attempt /\ (n > 0 <=> q.rows.attempt > 0 \/ kind \in Attributed)
    BY <1>1
  <2>4. attributed \in BOOLEAN /\ tried \in SUBSET Cred
    BY <1>1, <1>3
  <2>5. attributed <=> n > 0
    BY <1>1, <2>3
  <2> HIDE DEF n, attributed, tried
  <2>6. /\ w.ok = 0 /\ w.closing = 0 /\ w.gone = 0 /\ w.reject = q.rows.reject /\ w.attempt = n
        /\ w \in [{"ok", "attempt", "reject", "closing", "gone"} -> Nat]
    BY <1>1, <2>3
  <2>7. rejected \in BOOLEAN /\ (rejected => q.rows.reject > 0)
    BY <1>1, <1>2, <2>1
  <2>8. w.reject >= q.rows.reject /\ w.attempt >= q.rows.attempt
    BY <1>1, <2>3, <2>6
  <2> HIDE DEF w
  <2>9. HandlerInv(p)
    BY <1>0, <2>4, <2>5, <2>6, <2>7, <2>8, FailingHandler
  <2> QED BY <2>1, <2>2, <2>9, OneHandler
<1> QED BY <1>4, <1>5, <1>6

\* A verdict that has to be looked into, and what takes a handler on from a place.
LEMMA PlaceKeepsHandlers ==
  ASSUME HandlersInv, NEW r \in Req, Suspects(r) \/ Reopen(r) \/ Part(r)
  PROVE  HandlersInv'
<1>0. HandlerInv(req[r]) /\ req[r] \in RequestType
  BY DEF HandlersInv, HandlerInv
<1>1. /\ "open" \in Phases /\ "checking" \in Phases /\ "ready" \in Phases /\ "done" \in Phases
      /\ req[r].pc \in {"open", "checking", "closing", "queued", "parting"} => req[r].cred \in Cred
      /\ req[r].pc = "queued" => ~req[r].emitted /\ req[r].attempts < MaxRotate + Spare(req[r])
      /\ req[r].pc \in {"open", "queued"} =>
           req[r].rows.closing = 0 /\ req[r].rows.ok = 0 /\ req[r].rows.gone = 0
  BY <1>0 DEF Phases, HandlerInv, PlaceInv, BudgetInv, Rotating, RowsInv
<1>2. CASE Suspects(r)
  <2>1. /\ req' = [req EXCEPT ![r] = [req[r] EXCEPT !.pc = "checking"]] /\ req[r].pc = "open"
    BY <1>2 DEF Suspects, At, HandlersInv
  <2>2. HandlerInv([req[r] EXCEPT !.pc = "checking"])
    BY <1>0, <1>1, <2>1, MovedHandler
  <2> QED BY <2>1, <2>2, OneHandler
<1>3. CASE Reopen(r)
  <2>1. req[r].pc = "queued"
    BY <1>3 DEF Reopen, At
  <2>2. \/ req' = [req EXCEPT ![r] = [req[r] EXCEPT !.pc = "open"]]
        \/ req' = [req EXCEPT ![r] = [req[r] EXCEPT !.pc = "ready"]]
    BY <1>3 DEF Reopen, HandlersInv
  <2>3. HandlerInv([req[r] EXCEPT !.pc = "open"])
    BY <1>0, <1>1, <2>1, MovedHandler
  <2>4. HandlerInv([req[r] EXCEPT !.pc = "ready"])
    BY <1>0, <1>1, <2>1, MovedHandler
  <2> QED BY <2>2, <2>3, <2>4, OneHandler
<1>4. CASE Part(r)
  <2>1. req' = [req EXCEPT ![r] = [req[r] EXCEPT !.pc = "done"]]
    BY <1>4 DEF Part, HandlersInv
  <2>2. HandlerInv([req[r] EXCEPT !.pc = "done"])
    BY <1>0, <1>1, MovedHandler
  <2> QED BY <2>1, <2>2, OneHandler
<1> QED BY <1>2, <1>3, <1>4

\* The end of an attempt: on by plan, or through.
LEMMA CloseKeepsHandlers ==
  ASSUME HandlersInv, NEW r \in Req, Close(r)
  PROVE  HandlersInv'
<1> DEFINE q == req[r]
<1>0. HandlerInv(q) /\ q \in RequestType /\ q.pc = "closing"
  BY DEF HandlersInv, HandlerInv, Close, At
<1>1. /\ "queued" \in Phases /\ "ready" \in Phases /\ "done" \in Phases
      /\ q.cred \in Cred /\ q.rows.closing = 0
      /\ q.plan \in {"queue", "effort", "effort if rotating"} => ~q.emitted
      /\ q.plan \in {"queue", "effort"} => q.attempts < MaxRotate + Spare(q)
      /\ q.plan # "finish" => q.rows.ok = 0 /\ q.rows.gone = 0
  BY <1>0 DEF Phases, HandlerInv, PlaceInv, BudgetInv, Rotating, RowsInv
<1>2. ShouldRotate(q) => q.attempts < MaxRotate + Spare(q)
  <2>1. q.attempts \in Int /\ MaxRotate \in Int /\ Spare(q) \in {0, 1}
    BY <1>0, EngineConstants DEF RequestType, Spare
  <2> QED BY <2>1 DEF ShouldRotate
<1>3. \/ /\ q.plan = "finish"
         /\ req' = [req EXCEPT ![r] = [q EXCEPT !.pc = "done"]]
      \/ /\ \/ q.plan \in {"queue", "effort"}
            \/ q.plan = "effort if rotating" /\ ShouldRotate(q)
         /\ req' = [req EXCEPT ![r] = [q EXCEPT !.pc = "queued"]]
      \/ /\ q.plan = "rotate" /\ ShouldRotate(q) /\ ~q.emitted
         /\ req' = [req EXCEPT ![r] = [q EXCEPT !.pc = "ready"]]
      \/ /\ q.plan # "finish"
         /\ req' = [req EXCEPT ![r] = Failed(q)]
  BY DEF Close, GoOn
<1> HIDE DEF q
<1>4. CASE q.plan = "finish" /\ req' = [req EXCEPT ![r] = [q EXCEPT !.pc = "done"]]
  <2>1. HandlerInv([q EXCEPT !.pc = "done"])
    BY <1>0, <1>1, MovedHandler
  <2> QED BY <1>4, <2>1, OneHandler
<1>5. CASE /\ \/ q.plan \in {"queue", "effort"}
              \/ q.plan = "effort if rotating" /\ ShouldRotate(q)
           /\ req' = [req EXCEPT ![r] = [q EXCEPT !.pc = "queued"]]
  <2>1. HandlerInv([q EXCEPT !.pc = "queued"])
    BY <1>0, <1>1, <1>2, <1>5, MovedHandler
  <2> QED BY <1>5, <2>1, OneHandler
<1>6. CASE /\ q.plan = "rotate" /\ ShouldRotate(q) /\ ~q.emitted
           /\ req' = [req EXCEPT ![r] = [q EXCEPT !.pc = "ready"]]
  <2>1. HandlerInv([q EXCEPT !.pc = "ready"])
    BY <1>0, <1>1, <1>2, <1>6, MovedHandler
  <2> QED BY <1>6, <2>1, OneHandler
<1>7. CASE q.plan # "finish" /\ req' = [req EXCEPT ![r] = Failed(q)]
  <2>1. HandlerInv(Failed(q))
    BY <1>0, <1>7, FailedHandler
  <2> QED BY <1>7, <2>1, OneHandler
<1> QED BY <1>3, <1>4, <1>5, <1>6, <1>7

\* A client that goes away.
LEMMA GoneKeepsHandlers ==
  ASSUME HandlersInv, NEW r \in Req, Disconnect(r) \/ Abort(r) \/ Depart(r)
  PROVE  HandlersInv'
<1>0. HandlerInv(req[r]) /\ "closing" \in Phases /\ "done" \in Phases
  BY DEF HandlersInv, Phases
<1>1. CASE Disconnect(r)
  <2>1. \/ /\ req[r].pc \in {"open", "checking"}
           /\ req' = [req EXCEPT ![r] = [Gone(req[r]) EXCEPT !.pc = "closing"]]
        \/ /\ req[r].pc \in {"queued", "asleep"}
           /\ req' = [req EXCEPT ![r] = [Gone(req[r]) EXCEPT !.pc = "done"]]
    BY <1>1 DEF Disconnect
  <2>2. CASE /\ req[r].pc \in {"open", "checking"}
             /\ req' = [req EXCEPT ![r] = [Gone(req[r]) EXCEPT !.pc = "closing"]]
    <3>1. HandlerInv([Gone(req[r]) EXCEPT !.pc = "closing"])
      BY <1>0, <2>2, GoneHandler
    <3> QED BY <2>2, <3>1, OneHandler
  <2>3. CASE /\ req[r].pc \in {"queued", "asleep"}
             /\ req' = [req EXCEPT ![r] = [Gone(req[r]) EXCEPT !.pc = "done"]]
    <3>1. HandlerInv([Gone(req[r]) EXCEPT !.pc = "done"])
      BY <1>0, <2>3, GoneHandler
    <3> QED BY <2>3, <3>1, OneHandler
  <2> QED BY <2>1, <2>2, <2>3
<1>2. CASE Abort(r) \/ Depart(r)
  <2>1. /\ req[r].pc = "closing" \/ (req[r].pc = "parting" /\ Impatient)
        /\ req' = [req EXCEPT ![r] = [Gone(req[r]) EXCEPT !.pc = "done"]]
    BY <1>2 DEF Abort, Depart
  <2>2. HandlerInv([Gone(req[r]) EXCEPT !.pc = "done"])
    BY <1>0, <2>1, GoneHandler
  <2> QED BY <2>1, <2>2, OneHandler
<1> QED BY <1>1, <1>2

\* Time passes: naps get shorter.
LEMMA PassKeepsHandlers ==
  ASSUME HandlersInv, Pass
  PROVE  HandlersInv'
<1>1. req' = [r \in Req |-> [req[r] EXCEPT !.nap = Sooner(req[r].nap)]]
  BY DEF Pass
<1>2. ASSUME NEW r \in Req
      PROVE  HandlerInv([req[r] EXCEPT !.nap = Sooner(req[r].nap)])
  <2>1. HandlerInv(req[r]) /\ req[r].nap \in 0..ShortWait
    BY DEF HandlersInv, HandlerInv, RequestType
  <2>2. Sooner(req[r].nap) \in 0..ShortWait
    BY <2>1, EngineConstants DEF Sooner
  <2> QED BY <2>1, <2>2, NappingHandler
<1>3. \A r \in Req : HandlerInv(req'[r])
  BY <1>1, <1>2
<1>4. req' = [r \in Req |-> req'[r]]
  BY <1>1
<1> QED BY <1>3, <1>4 DEF HandlersInv

\* Whatever a handler, a client, time or another task does.
LEMMA NextKeepsHandlers ==
  ASSUME HandlersInv, IInv, [EngineNext]_allVars
  PROVE  HandlersInv'
<1>1. CASE UNCHANGED allVars
  BY <1>1 DEF allVars, engineVars, HandlersInv
<1>2. CASE Forget \/ Expire \/ Elsewhere
  BY <1>2 DEF Forget, Expire, Elsewhere, engineVars, HandlersInv
<1>3. CASE Pass
  BY <1>3, PassKeepsHandlers
<1>4. ASSUME NEW r \in Req, Frame(r) \/ Disconnect(r) \/ Abort(r) \/ Depart(r)
      PROVE  HandlersInv'
  BY <1>4, EndKeepsHandlers, GoneKeepsHandlers
<1>5. ASSUME NEW r \in Req, Step(r)
      PROVE  HandlersInv'
  <2>1. CASE Pick(r) \/ Sleep(r) \/ Wake(r) \/ Exhausted(r)
    BY <2>1, PickKeepsHandlers, NapKeepsHandlers, EndKeepsHandlers
  <2>2. CASE Reply(r)
    <3>1. CASE Succeeds(r) \/ QueueRestart(r) \/ EffortRestart(r) \/ Escapes(r)
      BY <3>1, AnswerKeepsHandlers
    <3>2. CASE Rejects(r) \/ NoPenalty(r) \/ Errs(r)
      BY <3>2, FailureKeepsHandlers DEF Errs, At
    <3>3. CASE Suspects(r)
      BY <3>3, PlaceKeepsHandlers
    <3> QED BY <2>2, <3>1, <3>2, <3>3 DEF Reply
  <2>3. CASE Judges(r)
    BY <2>3, FailureKeepsHandlers DEF Judges, At
  <2>4. CASE Close(r)
    BY <2>4, CloseKeepsHandlers
  <2>5. CASE Reopen(r) \/ Part(r)
    BY <2>5, PlaceKeepsHandlers
  <2> QED BY <1>5, <2>1, <2>2, <2>3, <2>4, <2>5 DEF Step
<1> QED BY <1>1, <1>2, <1>3, <1>4, <1>5 DEF EngineNext

-----------------------------------------------------------------------------
(* The pool under the engine keeps the invariant it has by itself.         *)

\* A success a client takes the error frame for.
LEMMA MistakenSuccess ==
  ASSUME IInv, NEW c \in Cred, UNCHANGED <<life, entry, window>>,
         row' = IF life[c] = "live" THEN [row EXCEPT ![c].err = 0] ELSE row
  PROVE  IInv'
<1>1. RowInv' /\ \A d \in Cred : row'[d].pinned = row[d].pinned
  <2>1. CASE life[c] = "live"
    <3>1. GoodRow(row[c])
      BY DEF IInv, RowInv, GoodRows
    <3>2. GoodRow([row[c] EXCEPT !.err = 0]) /\ [row[c] EXCEPT !.err = 0].pinned = row[c].pinned
      BY <3>1, NoCoolingBounded DEF GoodRow, RowType
    <3>3. row' = [row EXCEPT ![c] = [row[c] EXCEPT !.err = 0]]
      BY <2>1
    <3> QED BY <3>2, <3>3, RowUpdated DEF IInv
  <2>2. CASE life[c] # "live"
    BY <2>2 DEF IInv, RowInv
  <2> QED BY <2>1, <2>2
<1>2. LifeInv' /\ EntryInv' /\ WindowInv'
  BY DEF IInv, LifeInv, EntryInv, WindowInv
<1> QED BY <1>1, <1>2, PinsKept DEF IInv

\* The steps that write the pool are errors, successes, deletions, purges and time.
LEMMA EngineKeepsPool ==
  ASSUME HandlersInv, IInv, [EngineNext]_allVars
  PROVE  IInv'
<1>0. \A r \in Req : /\ ModelOf[r] \in Model
                     /\ req[r].pc \in {"open", "checking", "parting"} => req[r].cred \in Cred
  BY EngineConstants DEF HandlersInv, HandlerInv, PlaceInv
<1>1. CASE UNCHANGED vars
  BY <1>1, NextKeepsInvariant
<1>2. CASE Pass
  BY <1>2, TickKeepsInvariant DEF Pass
<1>3. CASE Elsewhere
  <2>1. Admin \/ Background
    BY <1>3 DEF Elsewhere, Admin, Background
  <2> QED BY <2>1, AdminKeepsInvariant, BackgroundKeepsInvariant
<1>4. ASSUME NEW r \in Req, Succeeds(r)
      PROVE  IInv'
  <2>1. Success
    BY <1>0, <1>4 DEF Succeeds, Success, At
  <2> QED BY <2>1, SuccessKeepsInvariant
<1>5. ASSUME NEW r \in Req, Errs(r) \/ Judges(r)
      PROVE  IInv'
  <2>1. PICK kind \in Kinds : Charge(r, kind)
    BY <1>5 DEF Errs, Judges
  <2>2. req[r].cred \in Cred
    BY <1>0, <1>5 DEF Errs, Judges, At
  <2>3. Error
    BY <1>0, <2>1, <2>2 DEF Charge, Error, ErrorOf
  <2> QED BY <2>3, ErrorKeepsInvariant
<1>6. ASSUME NEW r \in Req, Depart(r)
      PROVE  IInv'
  <2>1. req[r].cred \in Cred
    BY <1>0, <1>6 DEF Depart
  <2>2. CASE UNCHANGED row
    BY <1>6, <2>2, NextKeepsInvariant DEF Depart, vars
  <2>3. CASE row' = IF life[req[r].cred] = "live" THEN [row EXCEPT ![req[r].cred].err = 0] ELSE row
    BY <1>6, <2>1, <2>3, MistakenSuccess DEF Depart
  <2> QED BY <1>6, <2>2, <2>3 DEF Depart
<1>7. ASSUME NEW r \in Req, Step(r)
      PROVE  UNCHANGED vars \/ Succeeds(r) \/ Errs(r) \/ Judges(r)
  BY <1>7 DEF Step, Reply, Pick, Open, Sleep, Wake, Exhausted, QueueRestart, EffortRestart, Rejects,
              NoPenalty, Escapes, Suspects, Close, Reopen, Part
<1>8. ASSUME NEW r \in Req, Frame(r) \/ Disconnect(r) \/ Abort(r)
      PROVE  UNCHANGED vars
  BY <1>8 DEF Frame, Disconnect, Abort
<1>9. CASE UNCHANGED allVars \/ Forget \/ Expire
  BY <1>1, <1>9 DEF allVars, Forget, Expire
<1> QED BY <1>1, <1>2, <1>3, <1>4, <1>5, <1>6, <1>7, <1>8, <1>9 DEF EngineNext

\* What is true of the engine from its start on.
EngineInv == HandlersInv /\ IInv

LEMMA EngineStarts == EngineInit => EngineInv
<1> SUFFICES ASSUME EngineInit PROVE EngineInv
  OBVIOUS
<1>1. HandlersInv
  BY NewHandler DEF EngineInit, HandlersInv
<1>2. LifeInv
  BY DEF EngineInit, LifeInv
<1>3. RowInv /\ AtMostOnePinned
  BY FreshRowGood DEF EngineInit, RowInv, GoodRows, GoodRow, AtMostOnePinned
<1>4. EntryInv
  BY NoEntryGood DEF EngineInit, EntryInv, GoodEntries, GoodEntry
<1>5. WindowInv
  BY PoolConstants DEF EngineInit, WindowInv, WindowType, NoHits
<1> QED BY <1>1, <1>2, <1>3, <1>4, <1>5 DEF EngineInv, IInv

LEMMA EngineGoesOn == EngineInv /\ [EngineNext]_allVars => EngineInv'
BY NextKeepsHandlers, EngineKeepsPool DEF EngineInv

LEMMA EngineInvariant == EngineSpec => []EngineInv
BY EngineStarts, EngineGoesOn, PTL DEF EngineSpec

-----------------------------------------------------------------------------
(* What follows for requests.                                              *)

\* No request calls more different credentials than its rotations, the rounds it
\* queued and its one downgrade allow, however many requests compete and whatever
\* becomes of the credentials meanwhile.
THEOREM BudgetKept == EngineSpec => []RotationBudget
<1>1. EngineInv => RotationBudget
  <2> SUFFICES ASSUME EngineInv, NEW r \in Req
               PROVE  Cardinality(req[r].opened)
                        <= MaxRotate + req[r].rounds + (IF req[r].downgraded THEN 1 ELSE 0)
    BY DEF RotationBudget
  <2>1. BudgetInv(req[r]) /\ req[r] \in RequestType
    BY DEF EngineInv, HandlersInv, HandlerInv
  <2>2. /\ req[r].attempts \in Int /\ req[r].rounds \in Int /\ MaxRotate \in Int
        /\ Spare(req[r]) \in Int
        /\ Cardinality(req[r].opened) \in Nat
    BY <2>1, EngineConstants, FS_CardinalityType DEF RequestType, BudgetInv, Spare
  <2>3. Cardinality(req[r].opened) <= MaxRotate + req[r].rounds + Spare(req[r])
    BY <2>1, <2>2 DEF BudgetInv
  <2> QED BY <2>3 DEF Spare
<1> QED BY <1>1, EngineInvariant, PTL

\* A request is counted once, as long as no client leaves while its error frame is
\* being sent: one that does leaves the row of a disconnect beside the closing row.
THEOREM RequestsCountedOnce ==
  ASSUME Impatient = FALSE
  PROVE  EngineSpec => []CountedOnce
<1>1. EngineInv => CountedOnce
  <2> SUFFICES ASSUME EngineInv, NEW r \in Req
               PROVE  LET w == req[r].rows IN
                      /\ w.ok + w.closing + w.gone <= 1
                      /\ w.closing = 1 /\ w.attempt > 0 => req[r].emitted
                      /\ req[r].pc = "done" /\ req[r].answer \in Verdicts =>
                           w.ok + w.closing + w.attempt + w.reject > 0
    BY DEF CountedOnce
  <2>1. RowsInv(req[r]) /\ req[r] \in RequestType
    BY DEF EngineInv, HandlersInv, HandlerInv
  <2>2. req[r].rows.ok \in Nat /\ req[r].rows.closing \in Nat /\ req[r].rows.gone \in Nat
    BY <2>1 DEF RequestType
  <2>3. req[r].rows.ok + req[r].rows.closing + req[r].rows.gone <= 1
    BY <2>1, <2>2 DEF RowsInv
  <2> QED BY <2>1, <2>3 DEF RowsInv
<1> QED BY <1>1, EngineInvariant, PTL

\* The step of one handler opens an attempt of that one alone.
LEMMA OpensAlone ==
  ASSUME NEW s \in Req, NEW p, req' = [req EXCEPT ![s] = p], HandlersInv,
         p.pc = "open" => req[s].pc = "open" \/ ~req[s].emitted,
         NEW r \in Req, req[r].pc # "open", req'[r].pc = "open"
  PROVE  ~req[r].emitted
BY DEF HandlersInv

\* Only the choice of a credential and the return to one open an attempt, both before
\* the first frame.
LEMMA OpensUnheard ==
  ASSUME EngineInv, [EngineNext]_allVars, NEW r \in Req, req[r].pc # "open", req'[r].pc = "open"
  PROVE  ~req[r].emitted
<1>0. HandlersInv /\ \A s \in Req : /\ req[s] \in RequestType
                                    /\ req[s].pc \in {"ready", "queued"} => ~req[s].emitted
  BY DEF EngineInv, HandlersInv, HandlerInv, PlaceInv
<1>1. ASSUME NEW s \in Req, Pick(s) \/ Reopen(s)
      PROVE  ~req[r].emitted
  <2>1. ~req[s].emitted
    BY <1>0, <1>1 DEF Pick, Reopen, At
  <2>2. \E p : req' = [req EXCEPT ![s] = p]
    BY <1>1 DEF Pick, Open, Reopen
  <2> QED BY <1>0, <2>1, <2>2, OpensAlone
<1>2. ASSUME NEW s \in Req, NEW p, req' = [req EXCEPT ![s] = p],
             p.pc = "open" => req[s].pc = "open"
      PROVE  ~req[r].emitted
  BY <1>0, <1>2, OpensAlone
<1>3. ASSUME NEW s \in Req, Sleep(s) \/ Wake(s) \/ Exhausted(s) \/ Part(s)
      PROVE  ~req[r].emitted
  <2>1. CASE Sleep(s)
    <3>1. PICK n : req' = [req EXCEPT ![s] = [req[s] EXCEPT !.pc = "asleep", !.nap = n]]
      BY <2>1 DEF Sleep
    <3>2. [req[s] EXCEPT !.pc = "asleep", !.nap = n].pc = "asleep"
      BY <1>0 DEF RequestType
    <3> QED BY <1>2, <3>1, <3>2
  <2>2. CASE Wake(s)
    <3>1. req' = [req EXCEPT ![s] = [req[s] EXCEPT !.pc = "ready", !.waited = TRUE]]
      BY <2>2 DEF Wake
    <3>2. [req[s] EXCEPT !.pc = "ready", !.waited = TRUE].pc = "ready"
      BY <1>0 DEF RequestType
    <3> QED BY <1>2, <3>1, <3>2
  <2>3. CASE Exhausted(s)
    <3>1. req' = [req EXCEPT ![s] = Failed(req[s])]
      BY <2>3 DEF Exhausted
    <3>2. Failed(req[s]).pc # "open"
      BY <1>0 DEF Failed, RequestType
    <3> QED BY <1>2, <3>1, <3>2
  <2>4. CASE Part(s)
    <3>1. req' = [req EXCEPT ![s] = [req[s] EXCEPT !.pc = "done"]]
      BY <2>4 DEF Part
    <3>2. [req[s] EXCEPT !.pc = "done"].pc = "done"
      BY <1>0 DEF RequestType
    <3> QED BY <1>2, <3>1, <3>2
  <2> QED BY <1>3, <2>1, <2>2, <2>3, <2>4
<1>4. ASSUME NEW s \in Req, Frame(s) \/ Reply(s)
      PROVE  ~req[r].emitted
  <2>1. req[s].pc = "open" /\ \E p : req' = [req EXCEPT ![s] = p]
    BY <1>4 DEF Frame, Reply, Succeeds, QueueRestart, EffortRestart, Rejects, NoPenalty, Escapes,
                Errs, Charge, Suspects, At
  <2> QED BY <1>2, <2>1
<1>5. ASSUME NEW s \in Req, Judges(s)
      PROVE  ~req[r].emitted
  <2>1. PICK kind, rejected : req' = [req EXCEPT ![s] = Punished(req[s], kind, rejected)]
    BY <1>5 DEF Judges, Charge
  <2>2. Punished(req[s], kind, rejected).pc = "closing"
    BY <1>0 DEF Punished, Blamed, Closing, RequestType
  <2> QED BY <1>2, <2>1, <2>2
<1>6. ASSUME NEW s \in Req, Close(s)
      PROVE  ~req[r].emitted
  <2>1. \/ req' = [req EXCEPT ![s] = Failed(req[s])]
        \/ \E w \in {"done", "queued", "ready"} : req' = [req EXCEPT ![s] = [req[s] EXCEPT !.pc = w]]
    BY <1>6 DEF Close, GoOn
  <2>2. Failed(req[s]).pc # "open"
    BY <1>0 DEF Failed, RequestType
  <2>3. \A w : [req[s] EXCEPT !.pc = w].pc = w
    BY <1>0 DEF RequestType
  <2> QED BY <1>2, <2>1, <2>2, <2>3
<1>7. ASSUME NEW s \in Req, Disconnect(s) \/ Abort(s) \/ Depart(s)
      PROVE  ~req[r].emitted
  <2>1. PICK w \in {"closing", "done"} : req' = [req EXCEPT ![s] = [Gone(req[s]) EXCEPT !.pc = w]]
    BY <1>7 DEF Disconnect, Abort, Depart
  <2>2. [Gone(req[s]) EXCEPT !.pc = w].pc = w
    BY <1>0 DEF Gone, RequestType
  <2> QED BY <1>2, <2>1, <2>2
<1>8. CASE Pass
  <2>1. req'[r] = [req[r] EXCEPT !.nap = Sooner(req[r].nap)]
    BY <1>8 DEF Pass
  <2>2. req'[r].pc = req[r].pc
    BY <1>0, <2>1 DEF RequestType
  <2> QED BY <2>2
<1>9. CASE UNCHANGED allVars \/ Forget \/ Expire \/ Elsewhere
  BY <1>9 DEF allVars, engineVars, Forget, Expire, Elsewhere
<1> QED BY <1>1, <1>3, <1>4, <1>5, <1>6, <1>7, <1>8, <1>9 DEF EngineNext, Step

\* No response mixes the output of two attempts, whatever fails after its first frame.
THEOREM ResponsesHaveOneVoice == EngineSpec => OneVoice
<1>1. EngineInv /\ [EngineNext]_allVars =>
        [\A r \in Req : req[r].pc # "open" /\ req'[r].pc = "open" => ~req[r].emitted]_allVars
  BY OpensUnheard
<1> QED BY <1>1, EngineInvariant, PTL DEF EngineSpec, OneVoice

\* The pool stays sound under any number of requests that charge it.
THEOREM PoolSoundUnderRequests == EngineSpec => []PoolSound
<1>1. EngineInv => PoolSound
  BY InvariantParts DEF EngineInv, PoolSound
<1> QED BY <1>1, EngineInvariant, PTL

-----------------------------------------------------------------------------
(* The slots of the credentials.                                           *)

Busy(q) == q.pc \in {"open", "checking", "closing"}

\* No call goes on without a lease, and what is probed is known by its scope.
LeaseInv ==
  /\ running \in Req \union {None}
  /\ leases \in [Cred -> Nat]
  /\ marks \in [Cred -> Seq(Scopes)]
  /\ probing \subseteq Scopes /\ recovered \subseteq Scopes
  /\ \A c \in Cred : leases[c] >= Cardinality(Calling(c))

\* Where no handler is cancelled in its finally block, there is no other lease, and
\* what is probed has a mark of an attempt that goes on.
ExactInv ==
  /\ \A c \in Cred : leases[c] = Cardinality(Calling(c)) /\ Len(marks[c]) <= leases[c]
  /\ \A scope \in probing : \E i \in 1..Len(marks[scope[1]]) : marks[scope[1]][i] = scope

SlotInv == LeaseInv /\ (~Impatient => ExactInv)

\* Who calls a credential is finite, and counts one more or less with a caller.
LEMMA CallersCount ==
  ASSUME NEW c \in Cred
  PROVE  IsFiniteSet(Calling(c)) /\ Cardinality(Calling(c)) \in Nat
<1>1. Calling(c) \subseteq Req
  BY DEF Calling
<1> QED BY <1>1, RequestsFinite, FS_Subset, FS_CardinalityType

\* A handler that calls the same credential as before, or none.
LEMMA CallersStay ==
  ASSUME HandlersInv, NEW r \in Req, NEW p, req' = [req EXCEPT ![r] = p],
         Busy(p) <=> Busy(req[r]), Busy(p) => p.cred = req[r].cred
  PROVE  \A c \in Cred : Calling(c)' = Calling(c)
<1>1. \A s \in Req : req'[s] = IF s = r THEN p ELSE req[s]
  BY DEF HandlersInv
<1> QED BY <1>1 DEF Calling, Busy

\* A handler that begins to call.
LEMMA CallerComes ==
  ASSUME HandlersInv, NEW r \in Req, NEW p, req' = [req EXCEPT ![r] = p],
         ~Busy(req[r]), Busy(p), NEW c \in Cred, p.cred = c
  PROVE  /\ r \notin Calling(c) /\ Calling(c)' = Calling(c) \union {r}
         /\ \A d \in Cred \ {c} : Calling(d)' = Calling(d)
<1>1. \A s \in Req : req'[s] = IF s = r THEN p ELSE req[s]
  BY DEF HandlersInv
<1> QED BY <1>1 DEF Calling, Busy

\* A handler that ends its call.
LEMMA CallerGoes ==
  ASSUME HandlersInv, NEW r \in Req, NEW p, req' = [req EXCEPT ![r] = p],
         Busy(req[r]), ~Busy(p), NEW c \in Cred, req[r].cred = c
  PROVE  /\ r \in Calling(c) /\ Calling(c)' = Calling(c) \ {r}
         /\ \A d \in Cred \ {c} : Calling(d)' = Calling(d)
<1>1. \A s \in Req : req'[s] = IF s = r THEN p ELSE req[s]
  BY DEF HandlersInv
<1> QED BY <1>1 DEF Calling, Busy

\* Steps that take and give no slot.
LEMMA SlotsStay ==
  ASSUME SlotInv, \A c \in Cred : Calling(c)' = Calling(c), UNCHANGED <<leases, marks>>,
         running' \in Req \union {None}, probing' \subseteq probing, recovered' \subseteq Scopes
  PROVE  SlotInv'
<1>1. LeaseInv'
  BY DEF SlotInv, LeaseInv
<1>2. ExactInv => ExactInv'
  BY DEF ExactInv
<1> QED BY <1>1, <1>2 DEF SlotInv

\* An attempt takes a lease, and a mark if it probes.
LEMMA SlotTaken ==
  ASSUME SlotInv, NEW r \in Req, NEW c \in Cred, NEW scope, LeaseFor(c, scope),
         scope = NoScope \/ (scope \in Scopes /\ scope[1] = c),
         r \notin Calling(c), Calling(c)' = Calling(c) \union {r},
         \A d \in Cred \ {c} : Calling(d)' = Calling(d),
         running' \in Req \union {None}, UNCHANGED recovered
  PROVE  SlotInv'
<1>1. /\ leases \in [Cred -> Nat] /\ marks \in [Cred -> Seq(Scopes)]
      /\ probing \subseteq Scopes /\ recovered \subseteq Scopes
      /\ \A d \in Cred : leases[d] >= Cardinality(Calling(d))
  BY DEF SlotInv, LeaseInv
<1>2. /\ leases' \in [Cred -> Nat] /\ leases'[c] = leases[c] + 1
      /\ \A d \in Cred \ {c} : leases'[d] = leases[d]
  BY <1>1 DEF LeaseFor
<1>3. Cardinality(Calling(c)') = Cardinality(Calling(c)) + 1 /\ Cardinality(Calling(c)) \in Nat
  BY CallersCount, FS_AddElement
<1>4. /\ marks' \in [Cred -> Seq(Scopes)] /\ probing' \subseteq Scopes
      /\ \A d \in Cred \ {c} : marks'[d] = marks[d]
      /\ \/ marks'[c] = marks[c] /\ probing' = probing
         \/ /\ scope \in Scopes /\ scope[1] = c
            /\ marks'[c] = Append(marks[c], scope) /\ probing' = probing \union {scope}
  BY <1>1 DEF LeaseFor
<1>5. \A d \in Cred : leases'[d] >= Cardinality(Calling(d)')
  <2>1. leases'[c] >= Cardinality(Calling(c)')
    BY <1>1, <1>2, <1>3
  <2> QED BY <1>1, <1>2, <2>1
<1>6. LeaseInv'
  BY <1>1, <1>2, <1>4, <1>5 DEF LeaseInv
<1>7. ASSUME ExactInv PROVE ExactInv'
  <2>1. \A d \in Cred : leases'[d] = Cardinality(Calling(d)')
    <3>1. leases'[c] = Cardinality(Calling(c)')
      BY <1>2, <1>3, <1>7 DEF ExactInv
    <3> QED BY <1>2, <1>7, <3>1 DEF ExactInv
  <2>2. /\ marks[c] \in Seq(Scopes)
        /\ marks'[c] = marks[c] \/ (scope \in Scopes /\ marks'[c] = Append(marks[c], scope))
    BY <1>1, <1>4
  <2>3. Len(marks[c]) \in Nat /\ Len(marks'[c]) <= Len(marks[c]) + 1
    BY <2>2
  <2>4. \A d \in Cred : Len(marks'[d]) <= leases'[d]
    <3>1. Len(marks'[c]) <= leases'[c]
      <4>1. Len(marks[c]) <= leases[c] /\ leases[c] \in Nat /\ Len(marks'[c]) \in Nat
        BY <1>1, <1>4, <1>7 DEF ExactInv
      <4> QED BY <1>2, <2>3, <4>1
    <3> QED BY <1>2, <1>4, <1>7, <3>1 DEF ExactInv
  <2>5. ASSUME NEW s \in probing'
        PROVE  \E i \in 1..Len(marks'[s[1]]) : marks'[s[1]][i] = s
    <3>1. CASE s \in probing
      <4>1. s[1] \in Cred
        BY <1>1, <3>1 DEF Scopes
      <4>2. PICK i \in 1..Len(marks[s[1]]) : marks[s[1]][i] = s
        BY <1>7, <3>1 DEF ExactInv
      <4>3. CASE s[1] # c
        BY <1>4, <4>1, <4>2, <4>3
      <4>4. CASE s[1] = c
        <5>1. i \in 1..Len(marks'[c]) /\ marks'[c][i] = marks[c][i]
          BY <2>2, <4>2, <4>4
        <5> QED BY <4>2, <4>4, <5>1
      <4> QED BY <4>3, <4>4
    <3>2. CASE s \notin probing
      <4>1. s = scope /\ s[1] = c /\ marks'[c] = Append(marks[c], s) /\ s \in Scopes
        BY <1>4, <2>5, <3>2
      <4>2. Len(marks[c]) + 1 \in 1..Len(marks'[c]) /\ marks'[c][Len(marks[c]) + 1] = s
        BY <2>2, <4>1
      <4> QED BY <4>1, <4>2
    <3> QED BY <3>1, <3>2
  <2> QED BY <2>1, <2>4, <2>5 DEF ExactInv
<1> QED BY <1>6, <1>7 DEF SlotInv

\* An attempt gives its lease back, with the latest mark on its credential.
LEMMA SlotGiven ==
  ASSUME SlotInv, NEW r \in Req, NEW c \in Cred, Release(c),
         r \in Calling(c), Calling(c)' = Calling(c) \ {r},
         \A d \in Cred \ {c} : Calling(d)' = Calling(d),
         running' \in Req \union {None}, UNCHANGED recovered
  PROVE  SlotInv'
<1>1. /\ leases \in [Cred -> Nat] /\ marks \in [Cred -> Seq(Scopes)]
      /\ probing \subseteq Scopes /\ recovered \subseteq Scopes
      /\ \A d \in Cred : leases[d] >= Cardinality(Calling(d))
  BY DEF SlotInv, LeaseInv
<1>2. /\ Cardinality(Calling(c)') = Cardinality(Calling(c)) - 1
      /\ Cardinality(Calling(c)) \in Nat /\ Cardinality(Calling(c)') \in Nat
  BY CallersCount, FS_RemoveElement, FS_CardinalityType
<1>3. /\ leases' \in [Cred -> Nat] /\ leases'[c] = leases[c] - 1 /\ leases[c] \in Nat
      /\ leases[c] >= 1
      /\ \A d \in Cred \ {c} : leases'[d] = leases[d]
  <2>1. leases' = [leases EXCEPT ![c] = leases[c] - 1]
    BY DEF Release
  <2>2. leases[c] \in Nat /\ leases[c] >= Cardinality(Calling(c))
    BY <1>1
  <2>3. leases[c] >= 1 /\ leases[c] - 1 \in Nat
    BY <1>2, <2>2
  <2> QED BY <1>1, <2>1, <2>2, <2>3
<1>4. /\ marks' \in [Cred -> Seq(Scopes)] /\ probing' \subseteq probing
      /\ \A d \in Cred \ {c} : marks'[d] = marks[d]
      /\ \/ marks[c] = <<>> /\ marks' = marks /\ probing' = probing
         \/ /\ marks[c] # <<>> /\ marks'[c] = SubSeq(marks[c], 1, Len(marks[c]) - 1)
            /\ probing' = probing \ {marks[c][Len(marks[c])]}
  <2>1. CASE marks[c] = <<>>
    BY <1>1, <2>1 DEF Release
  <2>2. CASE marks[c] # <<>>
    <3>1. /\ marks' = [marks EXCEPT ![c] = SubSeq(marks[c], 1, Len(marks[c]) - 1)]
          /\ probing' = probing \ {marks[c][Len(marks[c])]}
      BY <2>2 DEF Release, Pop, Top
    <3>2. marks[c] \in Seq(Scopes) /\ SubSeq(marks[c], 1, Len(marks[c]) - 1) \in Seq(Scopes)
      BY <1>1
    <3> QED BY <1>1, <2>2, <3>1, <3>2
  <2> QED BY <2>1, <2>2
<1>5. \A d \in Cred : leases'[d] >= Cardinality(Calling(d)')
  <2>1. leases'[c] >= Cardinality(Calling(c)')
    <3>1. leases[c] >= Cardinality(Calling(c))
      BY <1>1
    <3> QED BY <1>2, <1>3, <3>1
  <2> QED BY <1>1, <1>3, <2>1
<1>6. LeaseInv'
  BY <1>1, <1>3, <1>4, <1>5 DEF LeaseInv
<1>7. ASSUME ExactInv PROVE ExactInv'
  <2>1. \A d \in Cred : leases'[d] = Cardinality(Calling(d)')
    <3>1. leases'[c] = Cardinality(Calling(c)')
      BY <1>2, <1>3, <1>7 DEF ExactInv
    <3> QED BY <1>3, <1>7, <3>1 DEF ExactInv
  <2>2. \A d \in Cred : Len(marks'[d]) <= leases'[d]
    <3>1. Len(marks'[c]) <= leases'[c]
      <4>1. Len(marks[c]) <= leases[c] /\ marks[c] \in Seq(Scopes)
        BY <1>1, <1>7 DEF ExactInv
      <4>2. CASE marks[c] = <<>>
        BY <1>3, <1>4, <4>2
      <4>3. CASE marks[c] # <<>>
        <5>1. Len(marks[c]) \in Nat /\ Len(marks'[c]) = Len(marks[c]) - 1
          BY <1>4, <4>1, <4>3
        <5> QED BY <1>3, <4>1, <5>1
      <4> QED BY <4>2, <4>3
    <3> QED BY <1>3, <1>4, <1>7, <3>1 DEF ExactInv
  <2>3. ASSUME NEW s \in probing'
        PROVE  \E i \in 1..Len(marks'[s[1]]) : marks'[s[1]][i] = s
    <3>1. s \in probing /\ s[1] \in Cred
      BY <1>1, <1>4, <2>3 DEF Scopes
    <3>2. PICK i \in 1..Len(marks[s[1]]) : marks[s[1]][i] = s
      BY <1>7, <3>1 DEF ExactInv
    <3>3. CASE s[1] # c \/ marks' = marks
      BY <1>4, <3>1, <3>2, <3>3
    <3>4. CASE s[1] = c /\ marks' # marks
      <4>1. /\ marks[c] \in Seq(Scopes) /\ marks[c] # <<>>
            /\ marks'[c] = SubSeq(marks[c], 1, Len(marks[c]) - 1)
            /\ s # marks[c][Len(marks[c])]
        BY <1>1, <1>4, <2>3, <3>4
      <4>2. i \in 1..Len(marks[c]) - 1
        BY <3>2, <3>4, <4>1
      <4>3. i \in 1..Len(marks'[c]) /\ marks'[c][i] = marks[c][i]
        BY <4>1, <4>2
      <4> QED BY <3>2, <3>4, <4>3
    <3> QED BY <3>3, <3>4
  <2> QED BY <2>1, <2>2, <2>3 DEF ExactInv
<1> QED BY <1>6, <1>7 DEF SlotInv

\* What an upstream answers ends no call by itself.
LEMMA AnswersKeepCall ==
  ASSUME HandlersInv, NEW r \in Req, Frame(r) \/ Reply(r) \/ Judges(r)
  PROVE  \E p : /\ req' = [req EXCEPT ![r] = p]
                /\ Busy(p) /\ Busy(req[r]) /\ p.cred = req[r].cred
                /\ p.plan = "queue" => req[r].plan = "queue" \/ "queue" \in Answers
<1>0. req[r] \in RequestType
  BY DEF HandlersInv, HandlerInv
<1>1. CASE Frame(r)
  <2>1. req' = [req EXCEPT ![r] = [req[r] EXCEPT !.emitted = TRUE]] /\ req[r].pc = "open"
    BY <1>1 DEF Frame, At
  <2>2. /\ [req[r] EXCEPT !.emitted = TRUE].pc = "open"
        /\ [req[r] EXCEPT !.emitted = TRUE].cred = req[r].cred
        /\ [req[r] EXCEPT !.emitted = TRUE].plan = req[r].plan
    BY <1>0, <2>1 DEF RequestType
  <2> QED BY <2>1, <2>2 DEF Busy
<1>2. CASE Suspects(r)
  <2>1. req' = [req EXCEPT ![r] = [req[r] EXCEPT !.pc = "checking"]] /\ req[r].pc = "open"
    BY <1>2 DEF Suspects, At
  <2>2. /\ [req[r] EXCEPT !.pc = "checking"].pc = "checking"
        /\ [req[r] EXCEPT !.pc = "checking"].cred = req[r].cred
        /\ [req[r] EXCEPT !.pc = "checking"].plan = req[r].plan
    BY <1>0, <2>1 DEF RequestType
  <2> QED BY <2>1, <2>2 DEF Busy
<1>3. CASE Succeeds(r) \/ QueueRestart(r) \/ Rejects(r)
  <2>1. /\ \/ \E p \in {Served(req[r]), Rejected(req[r])} : req' = [req EXCEPT ![r] = p]
           \/ req' = [req EXCEPT ![r] = Requeued(req[r])] /\ "queue" \in Answers
        /\ req[r].pc = "open"
    BY <1>3 DEF Succeeds, QueueRestart, Rejects, At
  <2>2. /\ Served(req[r]).pc = "closing" /\ Served(req[r]).cred = req[r].cred
        /\ Served(req[r]).plan = "finish"
    BY <1>0 DEF Served, RequestType
  <2>3. Requeued(req[r]).pc = "closing" /\ Requeued(req[r]).cred = req[r].cred
    BY <1>0 DEF Requeued, Closing, RequestType
  <2>4. /\ Rejected(req[r]).pc = "closing" /\ Rejected(req[r]).cred = req[r].cred
        /\ Rejected(req[r]).plan = "rotate"
    BY <1>0 DEF Rejected, Blamed, Closing, RequestType
  <2> QED BY <2>1, <2>2, <2>3, <2>4 DEF Busy
<1>4. CASE EffortRestart(r)
  <2>1. PICK plan \in {"effort", "effort if rotating"} :
          req' = [req EXCEPT ![r] = [Closing(req[r], plan) EXCEPT !.downgraded = TRUE]]
    BY <1>4 DEF EffortRestart
  <2>2. req[r].pc = "open"
    BY <1>4 DEF EffortRestart, At
  <2>3. /\ [Closing(req[r], plan) EXCEPT !.downgraded = TRUE].pc = "closing"
        /\ [Closing(req[r], plan) EXCEPT !.downgraded = TRUE].cred = req[r].cred
        /\ [Closing(req[r], plan) EXCEPT !.downgraded = TRUE].plan = plan
    BY <1>0 DEF Closing, RequestType
  <2> QED BY <2>1, <2>2, <2>3 DEF Busy
<1>5. CASE NoPenalty(r)
  <2>1. PICK rejected : req' = [req EXCEPT ![r] = [Blamed(Closing(req[r], "rotate"), "request")
                                                     EXCEPT !.rejected = rejected]]
    BY <1>5 DEF NoPenalty
  <2>2. req[r].pc = "open"
    BY <1>5 DEF NoPenalty, At
  <2>3. /\ [Blamed(Closing(req[r], "rotate"), "request") EXCEPT !.rejected = rejected].pc = "closing"
        /\ [Blamed(Closing(req[r], "rotate"), "request") EXCEPT !.rejected = rejected].cred
             = req[r].cred
        /\ [Blamed(Closing(req[r], "rotate"), "request") EXCEPT !.rejected = rejected].plan
             = "rotate"
    BY <1>0 DEF Blamed, Closing, RequestType
  <2> QED BY <2>1, <2>2, <2>3 DEF Busy
<1>6. CASE Escapes(r)
  <2>1. /\ req' = [req EXCEPT ![r] = [Closing(req[r], "finish") EXCEPT !.answer = "internal_error"]]
        /\ req[r].pc = "open"
    BY <1>6 DEF Escapes, At
  <2>2. /\ [Closing(req[r], "finish") EXCEPT !.answer = "internal_error"].pc = "closing"
        /\ [Closing(req[r], "finish") EXCEPT !.answer = "internal_error"].cred = req[r].cred
        /\ [Closing(req[r], "finish") EXCEPT !.answer = "internal_error"].plan = "finish"
    BY <1>0 DEF Closing, RequestType
  <2> QED BY <2>1, <2>2 DEF Busy
<1>7. CASE Errs(r) \/ Judges(r)
  <2>1. PICK kind, rejected : req' = [req EXCEPT ![r] = Punished(req[r], kind, rejected)]
    BY <1>7 DEF Errs, Judges, Charge
  <2>2. req[r].pc \in {"open", "checking"}
    BY <1>7 DEF Errs, Judges, At
  <2>3. /\ Punished(req[r], kind, rejected).pc = "closing"
        /\ Punished(req[r], kind, rejected).cred = req[r].cred
        /\ Punished(req[r], kind, rejected).plan = "rotate"
    BY <1>0 DEF Punished, Blamed, Closing, RequestType
  <2> QED BY <2>1, <2>2, <2>3 DEF Busy
<1> QED BY <1>1, <1>2, <1>3, <1>4, <1>5, <1>6, <1>7 DEF Reply

\* A recovered probe is taken out, and remembered by its scope.
LEMMA Confirmed ==
  ASSUME LeaseInv, NEW c \in Cred, Confirm(c)
  PROVE  probing' \subseteq probing /\ recovered' \subseteq Scopes
<1>1. marks[c] \in Seq(Scopes) /\ recovered \subseteq Scopes
  BY DEF LeaseInv
<1>2. marks[c] # <<>> => marks[c][Len(marks[c])] \in Scopes
  BY <1>1
<1> QED BY <1>1, <1>2 DEF Confirm, Top

\* Answers, and what else leaves every slot as it is.
LEMMA StayingKeepsSlots ==
  ASSUME HandlersInv, SlotInv, NEW r \in Req,
         Frame(r) \/ Reply(r) \/ Judges(r) \/ Disconnect(r) \/ Depart(r)
           \/ Sleep(r) \/ Wake(r) \/ Exhausted(r) \/ Part(r)
  PROVE  SlotInv'
<1>0. req[r] \in RequestType /\ HandlerInv(req[r])
  BY DEF HandlersInv, HandlerInv
<1>1. /\ UNCHANGED <<leases, marks>> /\ running' \in Req \union {None}
      /\ probing' \subseteq probing /\ recovered' \subseteq Scopes
  <2>1. running \in Req \union {None} /\ recovered \subseteq Scopes /\ LeaseInv
    BY DEF SlotInv, LeaseInv
  <2>2. CASE Succeeds(r) \/ Depart(r)
    <3>1. req[r].cred \in Cred
      BY <1>0, <2>2 DEF Succeeds, Depart, At, HandlerInv, PlaceInv
    <3>2. Confirm(req[r].cred) \/ UNCHANGED <<probing, recovered>>
      BY <2>2 DEF Succeeds, Depart
    <3>3. probing' \subseteq probing /\ recovered' \subseteq Scopes
      BY <2>1, <3>1, <3>2, Confirmed
    <3> QED BY <2>1, <2>2, <3>3 DEF Succeeds, Depart
  <2>3. CASE Errs(r) \/ Judges(r)
    BY <2>1, <2>3 DEF Errs, Judges, Charge
  <2>4. CASE ~(Succeeds(r) \/ Depart(r) \/ Errs(r) \/ Judges(r))
    BY <2>1, <2>4 DEF Frame, Reply, Disconnect, Sleep, Wake, Exhausted, Part, QueueRestart, EffortRestart,
                      Rejects, NoPenalty, Escapes, Suspects
  <2> QED BY <2>2, <2>3, <2>4
<1>2. \A c \in Cred : Calling(c)' = Calling(c)
  <2>1. CASE Frame(r) \/ Reply(r) \/ Judges(r)
    BY <2>1, AnswersKeepCall, CallersStay
  <2>2. CASE Disconnect(r) \/ Depart(r)
    <3>1. PICK w \in {"closing", "done"} :
            /\ req' = [req EXCEPT ![r] = [Gone(req[r]) EXCEPT !.pc = w]]
            /\ w = "closing" <=> Busy(req[r])
      BY <2>2 DEF Disconnect, Depart, Busy
    <3>2. /\ [Gone(req[r]) EXCEPT !.pc = w].pc = w
          /\ [Gone(req[r]) EXCEPT !.pc = w].cred = req[r].cred
      BY <1>0 DEF Gone, RequestType
    <3>3. Busy([Gone(req[r]) EXCEPT !.pc = w]) <=> Busy(req[r])
      BY <3>1, <3>2 DEF Busy
    <3> QED BY <3>1, <3>2, <3>3, CallersStay
  <2>3. CASE Sleep(r) \/ Wake(r) \/ Exhausted(r) \/ Part(r)
    <3>1. ~Busy(req[r])
      BY <2>3 DEF Sleep, Wake, Exhausted, Part, At, Busy
    <3>2. \E p : req' = [req EXCEPT ![r] = p] /\ ~Busy(p)
      <4>1. CASE Sleep(r)
        <5>1. PICK n : req' = [req EXCEPT ![r] = [req[r] EXCEPT !.pc = "asleep", !.nap = n]]
          BY <4>1 DEF Sleep
        <5>2. [req[r] EXCEPT !.pc = "asleep", !.nap = n].pc = "asleep"
          BY <1>0 DEF RequestType
        <5> QED BY <5>1, <5>2 DEF Busy
      <4>2. CASE Wake(r)
        <5>1. req' = [req EXCEPT ![r] = [req[r] EXCEPT !.pc = "ready", !.waited = TRUE]]
          BY <4>2 DEF Wake
        <5>2. [req[r] EXCEPT !.pc = "ready", !.waited = TRUE].pc = "ready"
          BY <1>0 DEF RequestType
        <5> QED BY <5>1, <5>2 DEF Busy
      <4>3. CASE Exhausted(r)
        <5>1. req' = [req EXCEPT ![r] = Failed(req[r])]
          BY <4>3 DEF Exhausted
        <5>2. Failed(req[r]).pc \in {"parting", "done"}
          BY <1>0 DEF Failed, RequestType
        <5> QED BY <5>1, <5>2 DEF Busy
      <4>4. CASE Part(r)
        <5>1. req' = [req EXCEPT ![r] = [req[r] EXCEPT !.pc = "done"]]
          BY <4>4 DEF Part
        <5>2. [req[r] EXCEPT !.pc = "done"].pc = "done"
          BY <1>0 DEF RequestType
        <5> QED BY <5>1, <5>2 DEF Busy
      <4> QED BY <2>3, <4>1, <4>2, <4>3, <4>4
    <3> QED BY <3>1, <3>2, CallersStay
  <2> QED BY <2>1, <2>2, <2>3
<1> QED BY <1>1, <1>2, SlotsStay

\* A choice, and a return to a credential that is still there.
LEMMA OpeningKeepsSlots ==
  ASSUME HandlersInv, SlotInv, NEW r \in Req, Pick(r) \/ Reopen(r)
  PROVE  SlotInv'
<1>0. req[r] \in RequestType /\ HandlerInv(req[r])
  BY DEF HandlersInv, HandlerInv
<1>1. CASE Pick(r)
  <2>1. PICK c \in Preferred(Eligible(r)) : Open(r, c)
    BY <1>1 DEF Pick
  <2>2. c \in Cred /\ ~Busy(req[r]) /\ ModelOf[r] \in Model
    BY <1>1, EngineConstants DEF Preferred, Eligible, Pick, At, Busy
  <2>3. req' = [req EXCEPT ![r] = Opened(req[r], c)]
    BY <2>1 DEF Open
  <2>4. Opened(req[r], c).pc = "open" /\ Opened(req[r], c).cred = c
    BY <1>0 DEF Opened, RequestType
  <2>5. /\ r \notin Calling(c) /\ Calling(c)' = Calling(c) \union {r}
        /\ \A d \in Cred \ {c} : Calling(d)' = Calling(d)
    BY <2>2, <2>3, <2>4, CallerComes DEF Busy
  <2> DEFINE scope == Probes(c, ModelOf[r])
  <2>6. scope = NoScope \/ (scope \in Scopes /\ scope[1] = c)
    BY <2>2 DEF Probes, HalfOpenScope, Scopes
  <2>7. LeaseFor(c, scope) /\ running' \in Req \union {None} /\ UNCHANGED recovered
    BY <2>1 DEF Open
  <2> HIDE DEF scope
  <2> QED BY <2>2, <2>5, <2>6, <2>7, SlotTaken
<1>2. CASE Reopen(r)
  <2>0. PICK c \in Cred : c = req[r].cred
    BY <1>0, <1>2 DEF Reopen, At, HandlerInv, PlaceInv
  <2>1. ~Busy(req[r])
    BY <1>2 DEF Reopen, At, Busy
  <2>2. CASE life[c] = "live"
    <3> DEFINE p == [req[r] EXCEPT !.pc = "open"]
    <3>1. /\ req' = [req EXCEPT ![r] = p]
          /\ LeaseFor(c, NoScope) /\ running' \in Req \union {None} /\ UNCHANGED recovered
      BY <1>2, <2>0, <2>2 DEF Reopen
    <3>2. p.cred = c /\ Busy(p)
      BY <1>0, <2>0 DEF RequestType, Busy
    <3> HIDE DEF p
    <3>3. /\ r \notin Calling(c) /\ Calling(c)' = Calling(c) \union {r}
          /\ \A d \in Cred \ {c} : Calling(d)' = Calling(d)
      BY <2>1, <3>1, <3>2, CallerComes
    <3> QED BY <2>1, <3>1, <3>3, SlotTaken
  <2>3. CASE life[c] # "live"
    <3>1. /\ req' = [req EXCEPT ![r] = [req[r] EXCEPT !.pc = "ready"]]
          /\ running' \in Req \union {None} /\ UNCHANGED <<leases, probing, marks, recovered>>
      BY <1>2, <2>0, <2>3 DEF Reopen
    <3>2. [req[r] EXCEPT !.pc = "ready"].pc = "ready"
      BY <1>0 DEF RequestType
    <3>3. \A d \in Cred : Calling(d)' = Calling(d)
      BY <2>1, <3>1, <3>2, CallersStay DEF Busy
    <3> QED BY <3>1, <3>3, SlotsStay DEF SlotInv, LeaseInv
  <2> QED BY <2>2, <2>3
<1> QED BY <1>1, <1>2

\* The finally block of an attempt, in full or cancelled.
LEMMA ClosingKeepsSlots ==
  ASSUME HandlersInv, SlotInv, NEW r \in Req, Close(r) \/ Abort(r)
  PROVE  SlotInv'
<1>0. req[r] \in RequestType /\ req[r].cred \in Cred /\ Busy(req[r])
  BY DEF HandlersInv, HandlerInv, PlaceInv, Close, Abort, At, Busy
<1> PICK c \in Cred : req[r].cred = c
  BY <1>0
<1>1. ASSUME NEW p, req' = [req EXCEPT ![r] = p], ~Busy(p)
      PROVE  /\ r \in Calling(c) /\ Calling(c)' = Calling(c) \ {r}
             /\ \A d \in Cred \ {c} : Calling(d)' = Calling(d)
  BY <1>0, <1>1, CallerGoes
<1>2. CASE Close(r)
  <2>1. \/ req' = [req EXCEPT ![r] = Failed(req[r])]
        \/ \E w \in {"done", "queued", "ready"} : req' = [req EXCEPT ![r] = [req[r] EXCEPT !.pc = w]]
    BY <1>2 DEF Close, GoOn
  <2>2. ~Busy(Failed(req[r]))
    BY <1>0 DEF Failed, RequestType, Busy
  <2>3. \A w : [req[r] EXCEPT !.pc = w].pc = w
    BY <1>0 DEF RequestType
  <2>4. /\ r \in Calling(c) /\ Calling(c)' = Calling(c) \ {r}
        /\ \A d \in Cred \ {c} : Calling(d)' = Calling(d)
    <3>1. CASE req' = [req EXCEPT ![r] = Failed(req[r])]
      BY <1>1, <2>2, <3>1
    <3>2. ASSUME NEW w \in {"done", "queued", "ready"},
                 req' = [req EXCEPT ![r] = [req[r] EXCEPT !.pc = w]]
          PROVE  /\ r \in Calling(c) /\ Calling(c)' = Calling(c) \ {r}
                 /\ \A d \in Cred \ {c} : Calling(d)' = Calling(d)
      <4>1. ~Busy([req[r] EXCEPT !.pc = w])
        BY <2>3, <3>2 DEF Busy
      <4> QED BY <1>1, <3>2, <4>1
    <3> QED BY <2>1, <3>1, <3>2
  <2>5. Release(c) /\ running' \in Req \union {None} /\ UNCHANGED recovered
    BY <1>2 DEF Close, GoOn
  <2> QED BY <1>0, <2>4, <2>5, SlotGiven
<1>3. CASE Abort(r)
  <2>1. /\ req' = [req EXCEPT ![r] = [Gone(req[r]) EXCEPT !.pc = "done"]] /\ Impatient
        /\ UNCHANGED <<running, leases, probing, recovered, marks>>
    BY <1>3 DEF Abort
  <2>2. [Gone(req[r]) EXCEPT !.pc = "done"].pc = "done"
    BY <1>0 DEF Gone, RequestType
  <2>3. /\ r \in Calling(c) /\ Calling(c)' = Calling(c) \ {r}
        /\ \A d \in Cred \ {c} : Calling(d)' = Calling(d)
    BY <1>1, <2>1, <2>2 DEF Busy
  <2>4. /\ Cardinality(Calling(c)') = Cardinality(Calling(c)) - 1
        /\ Cardinality(Calling(c)) \in Nat
    BY <1>0, <2>3, CallersCount, FS_RemoveElement
  <2>5. LeaseInv'
    <3>1. leases'[c] >= Cardinality(Calling(c)')
      <4>1. leases'[c] \in Nat /\ leases'[c] >= Cardinality(Calling(c))
        BY <1>0, <2>1 DEF SlotInv, LeaseInv
      <4> QED BY <2>4, <4>1
    <3>2. \A d \in Cred : leases'[d] >= Cardinality(Calling(d)')
      BY <2>1, <2>3, <3>1 DEF SlotInv, LeaseInv
    <3> QED BY <2>1, <3>2 DEF SlotInv, LeaseInv
  <2> QED BY <2>1, <2>5 DEF SlotInv
<1> QED BY <1>2, <1>3

\* What is collected is held by nobody.
LEMMA SurroundingsKeepSlots ==
  ASSUME HandlersInv, SlotInv, Expire \/ Forget \/ Pass \/ Elsewhere
  PROVE  SlotInv'
<1>0. running \in Req \union {None} /\ LeaseInv /\ \A r \in Req : req[r] \in RequestType
  BY DEF SlotInv, LeaseInv, HandlersInv, HandlerInv
<1>1. CASE Forget \/ Elsewhere
  <2>1. \A c \in Cred : Calling(c)' = Calling(c)
    BY <1>1 DEF Forget, Elsewhere, engineVars, Calling
  <2>2. /\ UNCHANGED <<leases, marks, running, probing>> /\ recovered' \subseteq recovered
    BY <1>1 DEF Forget, Elsewhere, engineVars
  <2> QED BY <1>0, <2>1, <2>2, SlotsStay DEF LeaseInv
<1>2. CASE Pass
  <2>1. \A r \in Req : req'[r] = [req[r] EXCEPT !.nap = Sooner(req[r].nap)]
    BY <1>2 DEF Pass
  <2>2. \A r \in Req : req'[r].pc = req[r].pc /\ req'[r].cred = req[r].cred
    BY <1>0, <2>1 DEF RequestType
  <2>3. \A c \in Cred : Calling(c)' = Calling(c)
    BY <2>2 DEF Calling
  <2> QED BY <1>0, <1>2, <2>3, SlotsStay DEF Pass, LeaseInv
<1>3. CASE Expire
  <2>0. UNCHANGED <<req, running, recovered, marks>> /\ \A c \in Cred : Calling(c)' = Calling(c)
    BY <1>3 DEF Expire, Calling
  <2>1. ASSUME NEW c \in Cred, leases[c] > Cardinality(Calling(c)),
               leases' = [leases EXCEPT ![c] = leases[c] - 1], UNCHANGED probing
        PROVE  SlotInv'
    <3>1. leases[c] \in Nat /\ Cardinality(Calling(c)) \in Nat
      BY <1>0, CallersCount DEF LeaseInv
    <3>2. leases[c] - 1 \in Nat /\ leases[c] - 1 >= Cardinality(Calling(c))
      BY <2>1, <3>1
    <3>3. LeaseInv'
      BY <1>0, <2>0, <2>1, <3>2 DEF LeaseInv
    <3>4. ~ExactInv
      BY <2>1, <3>1 DEF ExactInv
    <3> QED BY <3>3, <3>4 DEF SlotInv
  <2>2. ASSUME NEW scope \in probing, probing' = probing \ {scope}, UNCHANGED leases
        PROVE  SlotInv'
    BY <1>0, <2>0, <2>2, SlotsStay DEF LeaseInv
  <2> QED BY <1>3, <2>1, <2>2 DEF Expire
<1> QED BY <1>1, <1>2, <1>3

LEMMA NextKeepsSlots ==
  ASSUME HandlersInv, SlotInv, [EngineNext]_allVars
  PROVE  SlotInv'
<1>1. CASE UNCHANGED allVars
  <2>1. \A c \in Cred : Calling(c)' = Calling(c)
    BY <1>1 DEF allVars, engineVars, Calling
  <2> QED BY <1>1, <2>1, SlotsStay DEF allVars, engineVars, SlotInv, LeaseInv
<1>2. ASSUME NEW r \in Req,
             Step(r) \/ Frame(r) \/ Disconnect(r) \/ Abort(r) \/ Depart(r)
      PROVE  SlotInv'
  BY <1>2, StayingKeepsSlots, OpeningKeepsSlots, ClosingKeepsSlots DEF Step
<1> QED BY <1>1, <1>2, SurroundingsKeepSlots DEF EngineNext

-----------------------------------------------------------------------------
(* The limit on the calls of a credential.                                 *)

\* Where nobody queues, a handler that returns to its credential does so before anything
\* else happens, so the place it left is still free.
LimitInv ==
  InflightLimit > 0 /\ "queue" \notin Answers =>
    /\ \A c \in Cred : leases[c] <= InflightLimit
    /\ \A r \in Req : req[r].plan # "queue"
    /\ \A r \in Req : req[r].pc = "queued" =>
         running = r /\ leases[req[r].cred] < InflightLimit

\* While one handler takes its step, no other is about to return.
LEMMA OneReturns ==
  ASSUME HandlersInv, LimitInv, InflightLimit > 0, "queue" \notin Answers,
         NEW r \in Req, NEW p, req' = [req EXCEPT ![r] = p], MayRun(r),
         p.plan # "queue",
         p.pc = "queued" => running' = r /\ leases'[p.cred] < InflightLimit,
         \A c \in Cred : leases'[c] <= InflightLimit
  PROVE  LimitInv'
<1>1. \A s \in Req : req'[s] = IF s = r THEN p ELSE req[s]
  BY DEF HandlersInv
<1>2. \A s \in Req \ {r} : req[s].pc # "queued"
  BY EngineConstants DEF LimitInv, MayRun
<1>3. \A s \in Req : req'[s].plan # "queue"
  BY <1>1 DEF LimitInv
<1>4. ASSUME NEW s \in Req, req'[s].pc = "queued"
      PROVE  running' = s /\ leases'[req'[s].cred] < InflightLimit
  BY <1>1, <1>2, <1>4
<1> QED BY <1>3, <1>4 DEF LimitInv

\* Steps that take no lease and do not queue.
LEMMA StayingKeepsLimit ==
  ASSUME HandlersInv, SlotInv, LimitInv, NEW r \in Req,
         Frame(r) \/ Reply(r) \/ Judges(r) \/ Disconnect(r) \/ Depart(r) \/ Abort(r)
           \/ Sleep(r) \/ Wake(r) \/ Exhausted(r) \/ Part(r)
  PROVE  LimitInv'
<1> SUFFICES ASSUME InflightLimit > 0, "queue" \notin Answers PROVE LimitInv'
  BY DEF LimitInv
<1>0. req[r] \in RequestType /\ req[r].plan # "queue"
  BY DEF HandlersInv, HandlerInv, LimitInv
<1>1. MayRun(r) /\ UNCHANGED leases
  <2>1. CASE Succeeds(r) \/ Errs(r) \/ Judges(r)
    BY <2>1 DEF Succeeds, Errs, Judges, Charge, At
  <2>2. CASE Disconnect(r) \/ Abort(r) \/ Depart(r)
    BY <2>2 DEF Disconnect, Abort, Depart, MayRun
  <2>3. CASE ~(Succeeds(r) \/ Errs(r) \/ Judges(r) \/ Disconnect(r) \/ Abort(r) \/ Depart(r))
    BY <2>3 DEF Frame, Reply, Sleep, Wake, Exhausted, Part, QueueRestart, EffortRestart, Rejects,
                NoPenalty, Escapes, Suspects, At
  <2> QED BY <2>1, <2>2, <2>3
<1>2. \E p : req' = [req EXCEPT ![r] = p] /\ p.plan # "queue" /\ p.pc # "queued"
  <2>1. CASE Frame(r) \/ Reply(r) \/ Judges(r)
    BY <1>0, <2>1, AnswersKeepCall DEF Busy
  <2>2. CASE Disconnect(r) \/ Depart(r) \/ Abort(r)
    <3>1. PICK w \in {"closing", "done"} : req' = [req EXCEPT ![r] = [Gone(req[r]) EXCEPT !.pc = w]]
      BY <2>2 DEF Disconnect, Depart, Abort
    <3>2. /\ [Gone(req[r]) EXCEPT !.pc = w].pc = w
          /\ [Gone(req[r]) EXCEPT !.pc = w].plan = "finish"
      BY <1>0 DEF Gone, RequestType
    <3> QED BY <3>1, <3>2
  <2>3. CASE Sleep(r)
    <3>1. PICK n : req' = [req EXCEPT ![r] = [req[r] EXCEPT !.pc = "asleep", !.nap = n]]
      BY <2>3 DEF Sleep
    <3>2. /\ [req[r] EXCEPT !.pc = "asleep", !.nap = n].pc = "asleep"
          /\ [req[r] EXCEPT !.pc = "asleep", !.nap = n].plan = req[r].plan
      BY <1>0 DEF RequestType
    <3> QED BY <1>0, <3>1, <3>2
  <2>4. CASE Wake(r)
    <3>1. req' = [req EXCEPT ![r] = [req[r] EXCEPT !.pc = "ready", !.waited = TRUE]]
      BY <2>4 DEF Wake
    <3>2. /\ [req[r] EXCEPT !.pc = "ready", !.waited = TRUE].pc = "ready"
          /\ [req[r] EXCEPT !.pc = "ready", !.waited = TRUE].plan = req[r].plan
      BY <1>0 DEF RequestType
    <3> QED BY <1>0, <3>1, <3>2
  <2>5. CASE Exhausted(r)
    <3>1. req' = [req EXCEPT ![r] = Failed(req[r])]
      BY <2>5 DEF Exhausted
    <3>2. Failed(req[r]).pc \in {"parting", "done"} /\ Failed(req[r]).plan = req[r].plan
      BY <1>0 DEF Failed, RequestType
    <3> QED BY <1>0, <3>1, <3>2
  <2>6. CASE Part(r)
    <3>1. req' = [req EXCEPT ![r] = [req[r] EXCEPT !.pc = "done"]]
      BY <2>6 DEF Part
    <3>2. /\ [req[r] EXCEPT !.pc = "done"].pc = "done"
          /\ [req[r] EXCEPT !.pc = "done"].plan = req[r].plan
      BY <1>0 DEF RequestType
    <3> QED BY <1>0, <3>1, <3>2
  <2> QED BY <2>1, <2>2, <2>3, <2>4, <2>5, <2>6
<1> QED BY <1>1, <1>2, OneReturns DEF LimitInv

\* A choice passes over a credential that is full, and a return finds its place free.
LEMMA OpeningKeepsLimit ==
  ASSUME HandlersInv, SlotInv, LimitInv, NEW r \in Req, Pick(r) \/ Reopen(r)
  PROVE  LimitInv'
<1> SUFFICES ASSUME InflightLimit > 0, "queue" \notin Answers PROVE LimitInv'
  BY DEF LimitInv
<1>0. /\ req[r] \in RequestType /\ req[r].plan # "queue" /\ MayRun(r) /\ InflightLimit \in Nat
      /\ leases \in [Cred -> Nat] /\ \A c \in Cred : leases[c] <= InflightLimit
  BY EngineConstants DEF HandlersInv, HandlerInv, LimitInv, SlotInv, LeaseInv, Pick, Reopen, At
<1>1. ASSUME NEW c \in Cred, leases[c] < InflightLimit, NEW scope, LeaseFor(c, scope)
      PROVE  \A d \in Cred : leases'[d] <= InflightLimit
  <2>1. leases'[c] = leases[c] + 1 /\ \A d \in Cred \ {c} : leases'[d] = leases[d]
    BY <1>0, <1>1 DEF LeaseFor
  <2>2. leases'[c] <= InflightLimit
    BY <1>0, <1>1, <2>1
  <2> QED BY <1>0, <2>1, <2>2
<1>2. CASE Pick(r)
  <2>1. PICK c \in Preferred(Eligible(r)) : Open(r, c)
    BY <1>2 DEF Pick
  <2>2. c \in Cred /\ ~Full(c)
    BY DEF Preferred, Eligible
  <2>3. leases[c] < InflightLimit
    BY <1>0, <2>2 DEF Full
  <2>4. \A d \in Cred : leases'[d] <= InflightLimit
    BY <1>1, <2>1, <2>2, <2>3 DEF Open
  <2>5. req' = [req EXCEPT ![r] = Opened(req[r], c)]
    BY <2>1 DEF Open
  <2>6. Opened(req[r], c).pc = "open" /\ Opened(req[r], c).plan = req[r].plan
    BY <1>0 DEF Opened, RequestType
  <2> QED BY <1>0, <2>4, <2>5, <2>6, OneReturns
<1>3. CASE Reopen(r)
  <2>1. PICK c \in Cred : c = req[r].cred
    BY <1>3 DEF Reopen, At, HandlersInv, HandlerInv, PlaceInv
  <2>2. leases[c] < InflightLimit
    BY <1>3, <2>1 DEF LimitInv, Reopen, At
  <2>3. PICK w \in {"open", "ready"} : req' = [req EXCEPT ![r] = [req[r] EXCEPT !.pc = w]]
    BY <1>3 DEF Reopen
  <2>4. LeaseFor(c, NoScope) \/ UNCHANGED leases
    BY <1>3, <2>1 DEF Reopen
  <2>5. \A d \in Cred : leases'[d] <= InflightLimit
    BY <1>0, <1>1, <2>2, <2>4
  <2>6. [req[r] EXCEPT !.pc = w].pc = w /\ [req[r] EXCEPT !.pc = w].plan = req[r].plan
    BY <1>0 DEF RequestType
  <2> QED BY <1>0, <2>3, <2>5, <2>6, OneReturns
<1> QED BY <1>2, <1>3

\* A handler that leaves its credential to return at once leaves its place free.
LEMMA ClosingKeepsLimit ==
  ASSUME HandlersInv, SlotInv, LimitInv, NEW r \in Req, Close(r)
  PROVE  LimitInv'
<1> SUFFICES ASSUME InflightLimit > 0, "queue" \notin Answers PROVE LimitInv'
  BY DEF LimitInv
<1>0. /\ req[r] \in RequestType /\ req[r].plan # "queue" /\ MayRun(r) /\ InflightLimit \in Nat
      /\ leases \in [Cred -> Nat] /\ \A c \in Cred : leases[c] <= InflightLimit
  BY EngineConstants DEF HandlersInv, HandlerInv, LimitInv, SlotInv, LeaseInv, Close, At
<1>1. PICK c \in Cred : c = req[r].cred
  BY DEF Close, At, HandlersInv, HandlerInv, PlaceInv
<1>2. leases' = [leases EXCEPT ![c] = leases[c] - 1]
  BY <1>1 DEF Close, Release
<1>3. leases'[c] < InflightLimit /\ \A d \in Cred : leases'[d] <= InflightLimit
  <2>1. leases[c] \in Nat /\ leases[c] <= InflightLimit
    BY <1>0
  <2>2. leases'[c] = leases[c] - 1 /\ \A d \in Cred \ {c} : leases'[d] = leases[d]
    BY <1>0, <1>2
  <2>3. leases'[c] < InflightLimit /\ leases'[c] <= InflightLimit
    BY <1>0, <2>1, <2>2
  <2> QED BY <1>0, <2>2, <2>3
<1>4. \/ req' = [req EXCEPT ![r] = Failed(req[r])]
      \/ \E w \in {"done", "queued", "ready"} :
           /\ req' = [req EXCEPT ![r] = [req[r] EXCEPT !.pc = w]]
           /\ w = "queued" => running' = r
  BY <1>0 DEF Close, GoOn
<1>5. CASE req' = [req EXCEPT ![r] = Failed(req[r])]
  <2>1. Failed(req[r]).pc # "queued" /\ Failed(req[r]).plan = req[r].plan
    BY <1>0 DEF Failed, RequestType
  <2> QED BY <1>0, <1>3, <1>5, <2>1, OneReturns
<1>6. ASSUME NEW w \in {"done", "queued", "ready"},
             req' = [req EXCEPT ![r] = [req[r] EXCEPT !.pc = w]],
             w = "queued" => running' = r
      PROVE  LimitInv'
  <2>1. /\ [req[r] EXCEPT !.pc = w].pc = w /\ [req[r] EXCEPT !.pc = w].plan = req[r].plan
        /\ [req[r] EXCEPT !.pc = w].cred = c
    BY <1>0, <1>1 DEF RequestType
  <2> QED BY <1>0, <1>3, <1>6, <2>1, OneReturns
<1> QED BY <1>4, <1>5, <1>6

LEMMA NextKeepsLimit ==
  ASSUME HandlersInv, SlotInv, LimitInv, [EngineNext]_allVars
  PROVE  LimitInv'
<1>1. CASE UNCHANGED allVars
  BY <1>1 DEF allVars, engineVars, LimitInv
<1>2. ASSUME NEW r \in Req,
             Step(r) \/ Frame(r) \/ Disconnect(r) \/ Abort(r) \/ Depart(r)
      PROVE  LimitInv'
  BY <1>2, StayingKeepsLimit, OpeningKeepsLimit, ClosingKeepsLimit DEF Step
<1>3. CASE Expire \/ Forget \/ Pass \/ Elsewhere
  <2> SUFFICES ASSUME InflightLimit > 0, "queue" \notin Answers PROVE LimitInv'
    BY DEF LimitInv
  <2>0. /\ leases \in [Cred -> Nat] /\ InflightLimit \in Nat
        /\ \A c \in Cred : leases[c] <= InflightLimit
        /\ \A r \in Req : req[r].plan # "queue" /\ req[r] \in RequestType
    BY EngineConstants DEF SlotInv, LeaseInv, LimitInv, HandlersInv, HandlerInv
  <2>1. running = None /\ \A r \in Req : req[r].pc # "queued"
    BY <1>3, EngineConstants DEF Expire, Forget, Pass, Elsewhere, LimitInv
  <2>2. \A r \in Req : req'[r].pc = req[r].pc /\ req'[r].plan = req[r].plan
    <3>1. CASE Pass
      <4>1. \A r \in Req : req'[r] = [req[r] EXCEPT !.nap = Sooner(req[r].nap)]
        BY <3>1 DEF Pass
      <4> QED BY <2>0, <4>1 DEF RequestType
    <3>2. CASE Expire \/ Forget \/ Elsewhere
      BY <3>2 DEF Expire, Forget, Elsewhere, engineVars
    <3> QED BY <1>3, <3>1, <3>2
  <2>3. \A c \in Cred : leases'[c] <= InflightLimit
    <3>1. CASE UNCHANGED leases
      BY <2>0, <3>1
    <3>2. ASSUME NEW d \in Cred, leases' = [leases EXCEPT ![d] = leases[d] - 1]
          PROVE  \A c \in Cred : leases'[c] <= InflightLimit
      BY <2>0, <3>2
    <3> QED BY <1>3, <3>1, <3>2 DEF Expire, Forget, Pass, Elsewhere, engineVars
  <2> QED BY <2>0, <2>1, <2>2, <2>3 DEF LimitInv
<1> QED BY <1>1, <1>2, <1>3 DEF EngineNext

LEMMA SlotsStart == EngineInit => SlotInv /\ LimitInv
<1> SUFFICES ASSUME EngineInit PROVE SlotInv /\ LimitInv
  OBVIOUS
<1>1. \A r \in Req : req[r].pc = "ready" /\ req[r].plan = "rotate"
  BY DEF EngineInit, NewRequest
<1>2. \A c \in Cred : Calling(c) = {}
  BY <1>1 DEF Calling
<1>3. /\ leases = [c \in Cred |-> 0] /\ marks = [c \in Cred |-> <<>>]
      /\ probing = {} /\ recovered = {} /\ running = None
  BY DEF EngineInit
<1>4. \A c \in Cred : Cardinality(Calling(c)) = 0
  BY <1>2, FS_EmptySet
<1>5. LeaseInv
  BY <1>3, <1>4 DEF LeaseInv
<1>6. ExactInv
  BY <1>3, <1>4 DEF ExactInv
<1>7. LimitInv
  BY <1>1, <1>3, EngineConstants DEF LimitInv
<1> QED BY <1>5, <1>6, <1>7 DEF SlotInv

LEMMA SlotInvariant == EngineSpec => [](EngineInv /\ SlotInv /\ LimitInv)
<1>1. EngineInv /\ SlotInv /\ LimitInv /\ [EngineNext]_allVars => (EngineInv /\ SlotInv /\ LimitInv)'
  BY EngineGoesOn, NextKeepsSlots, NextKeepsLimit DEF EngineInv
<1> QED BY <1>1, EngineStarts, SlotsStart, PTL DEF EngineSpec

\* What the slots are where no handler is cancelled in its finally block.
LEMMA SlotsExact ==
  ASSUME EngineInv, LeaseInv, ExactInv
  PROVE  /\ EngineTypeOK
         /\ \A c \in Cred :
              /\ leases[c] = Cardinality(Calling(c)) /\ Len(marks[c]) <= leases[c]
              /\ \A scope \in probing : scope[1] = c => Calling(c) # {}
<1>1. TypeOK /\ \A r \in Req : req[r] \in RequestType
  BY InvariantParts DEF EngineInv, HandlersInv, HandlerInv
<1>2. leases \in [Cred -> 0..Cardinality(Req)]
  <2>1. ASSUME NEW c \in Cred
        PROVE  leases[c] \in 0..Cardinality(Req)
    <3>1. Calling(c) \subseteq Req
      BY DEF Calling
    <3>2. Cardinality(Calling(c)) <= Cardinality(Req) /\ Cardinality(Req) \in Nat
      BY <3>1, RequestsFinite, FS_Subset, FS_CardinalityType
    <3>3. leases[c] \in Nat /\ leases[c] = Cardinality(Calling(c))
      BY DEF LeaseInv, ExactInv
    <3> QED BY <3>2, <3>3
  <2> QED BY <2>1 DEF LeaseInv
<1>3. EngineTypeOK
  BY <1>1, <1>2 DEF EngineTypeOK, LeaseInv
<1>4. ASSUME NEW scope \in probing, NEW c \in Cred, scope[1] = c
      PROVE  Calling(c) # {}
  <2>1. PICK i \in 1..Len(marks[c]) : marks[c][i] = scope
    BY <1>4 DEF ExactInv
  <2>2. Len(marks[c]) \in Nat /\ Len(marks[c]) <= Cardinality(Calling(c))
        /\ Cardinality(Calling(c)) \in Nat
    BY CallersCount DEF ExactInv, LeaseInv
  <2>3. Cardinality(Calling(c)) # 0
    BY <2>1, <2>2
  <2> QED BY <2>3, FS_EmptySet
<1> QED BY <1>3, <1>4 DEF ExactInv

\* However an attempt ends, its lease and its probe come back, and no credential is
\* called by more requests than the limit allows: for any number of requests and
\* credentials, where no upstream asks to queue under a limit and no client leaves
\* while its attempt is being closed.
THEOREM SlotsAlwaysComeBack ==
  ASSUME Impatient = FALSE, InflightLimit > 0 => "queue" \notin Answers
  PROVE  EngineSpec => []SlotsComeBack
<1>1. EngineInv /\ SlotInv /\ LimitInv => SlotsComeBack
  BY SlotsExact DEF SlotInv, LimitInv, SlotsComeBack
<1> QED BY <1>1, SlotInvariant, PTL

\* Whatever is cancelled at whatever await, and whatever the collector takes back: a
\* credential never counts fewer leases than it has calls, so the limit, where nobody
\* queues, is never exceeded and no busy credential is taken for an idle one.
CallsCovered ==
  \A c \in Cred : /\ Cardinality(Calling(c)) <= leases[c]
                  /\ InflightLimit > 0 => Cardinality(Calling(c)) <= InflightLimit

THEOREM CallsAlwaysCovered ==
  ASSUME InflightLimit > 0 => "queue" \notin Answers
  PROVE  EngineSpec => []CallsCovered
<1>1. EngineInv /\ SlotInv /\ LimitInv => CallsCovered
  <2> SUFFICES ASSUME SlotInv, LimitInv, NEW c \in Cred
               PROVE  /\ Cardinality(Calling(c)) <= leases[c]
                      /\ InflightLimit > 0 => Cardinality(Calling(c)) <= InflightLimit
    BY DEF CallsCovered
  <2>1. Cardinality(Calling(c)) <= leases[c] /\ leases[c] \in Nat
        /\ Cardinality(Calling(c)) \in Nat /\ InflightLimit \in Nat
    BY CallersCount, EngineConstants DEF SlotInv, LeaseInv
  <2>2. InflightLimit > 0 => leases[c] <= InflightLimit
    BY DEF LimitInv
  <2> QED BY <2>1, <2>2
<1> QED BY <1>1, SlotInvariant, PTL
=============================================================================
