----------------------------- MODULE UsageBooks -----------------------------
(***************************************************************************)
(* The books of the statistics: StatsCollector (stats/collector.py) writes *)
(* one row per attempt into usage_events and adds it to the row of its     *)
(* hour, user, channel and model in usage_hourly, in one transaction.      *)
(* Retention (tasks/retention.py) recomputes the hours of a short window   *)
(* from the events and deletes events past their age; scripts of the       *)
(* operator delete failures, estimate the cost anew and recompute every    *)
(* hour, each in steps between which the service goes on.  A recomputed    *)
(* hour replaces its row, so an hour must keep all of its events or none.  *)
(*                                                                         *)
(* Time is counted in ticks of which PerHour make an hour.  One count of   *)
(* tokens stands for all of them, and one sum for cost and credit.         *)
(*                                                                         *)
(* A definition marked `slip' is a variant with a likely slip; no action   *)
(* uses it.                                                                *)
(***************************************************************************)
EXTENDS Naturals, FiniteSets, FiniteSetsExt

CONSTANTS
  PerHour,      \* ticks of an hour
  Overlap,      \* ROLLUP_OVERLAP_SECONDS, in ticks
  Retain,       \* retention_days, in ticks
  Null,         \* what a column without a value has
  LastTick,     \* bound of the model: where the clock stops
  MostEvents,   \* bound of the model: attempts that are recorded
  Samples,      \* bound of the model: what they are recorded with
  Prices,       \* bound of the model: what a token costs, from one price list to the next
  MaxScripts    \* bound of the model: scripts that are run

ASSUME BookConstants ==
  /\ PerHour \in Nat \ {0}
  /\ {Overlap, Retain, LastTick, MostEvents, MaxScripts} \subseteq Nat
  /\ Prices \subseteq Nat
  /\ \A sample \in Samples : \A column \in {"output_tokens", "latency_ms", "ttfb_ms"} :
       column \in DOMAIN sample /\ sample[column] \in Nat \cup {Null}
  /\ Retain >= Overlap + PerHour

VARIABLES
  clock,
  price,
  usage,        \* usage_events
  hourly,       \* usage_hourly
  tidy,         \* what a round of retention is at
  script,       \* what the operator's script is at
  recorded,     \* history: the rows written, but for those a script deleted
  written,      \* history: how many that were
  blurred,      \* history: hours an interrupted or disturbed script has left wrong
  scripts       \* history: scripts run

bookVars == <<clock, price, usage, hourly, tidy, script, recorded, written, blurred, scripts>>

HourOf(t) == t \div PerHour
Hours == {HourOf(t) : t \in 0 .. LastTick}
NoScript == [at |-> "idle"]

BooksInit ==
  /\ clock = 0 /\ price \in Prices
  /\ usage = {} /\ hourly = <<>> /\ recorded = {} /\ written = 0
  /\ tidy = "idle" /\ script = NoScript
  /\ blurred = {} /\ scripts = 0

\* The process is a new one; what is in the database stays, and so does a script.
BooksStart ==
  /\ tidy' = "idle"
  /\ UNCHANGED <<clock, price, usage, hourly, script, recorded, blurred, written, scripts>>

----------------------------------------------------------------------------
(* One row, and the sums of several.                                       *)

OrZero(v) == IF v = Null THEN 0 ELSE v
CostAt(sample, p) ==
  IF sample.priced /\ sample.output_tokens # Null THEN p * sample.output_tokens ELSE Null

\* SQLite takes the number after the largest, and starts again in an empty table.
NextRowid == IF usage = {} THEN 1 ELSE Max({r.rowid : r \in usage}) + 1

Overlaid(f, g) == [x \in DOMAIN f \cup DOMAIN g |-> IF x \in DOMAIN f THEN f[x] ELSE g[x]]

Written(sample) ==
  Overlaid([id |-> written, rowid |-> NextRowid, ts |-> clock, cost |-> CostAt(sample, price)], sample)

HourKey(r) ==
  [hour |-> HourOf(r.ts), username |-> r.username, provider |-> r.provider, model |-> r.model]

ColumnSum(column, rows) == SumFunction([r \in rows |-> OrZero(r[column])])

Sums(rows) ==
  LET served == {r \in rows : r.ok}
  IN  [requests   |-> Cardinality(rows),
       ok_count   |-> Cardinality(served),
       tokens     |-> ColumnSum("output_tokens", rows),
       cost       |-> ColumnSum("cost", rows),
       cost_known |-> Cardinality({r \in rows : r.cost # Null}),
       latency    |-> ColumnSum("latency_ms", served),
       ttfb       |-> ColumnSum("ttfb_ms", served)]

Both(a, b) == [column \in DOMAIN a |-> a[column] + b[column]]

\* The row of the hour is added to, or is a new one.
BumpHourly(r) ==
  LET before(k) == IF k \in DOMAIN hourly THEN hourly[k] ELSE Sums({})
  IN  [k \in DOMAIN hourly \cup {HourKey(r)} |->
         IF k = HourKey(r) THEN Both(before(k), Sums({r})) ELSE hourly[k]]

\* slip: every row without events is deleted
OrphansAnywhere == {k \in DOMAIN hourly : k \notin {HourKey(r) : r \in usage}}

\* Rows of these hours whose events are all gone.
Orphans == {k \in DOMAIN hourly : k.hour \in script.hours /\ k \notin {HourKey(r) : r \in usage}}

\* It is added to a row that a script is about to delete, which it then does not.
Revives(r) == script.at = "orphans" /\ HourKey(r) \in Orphans

\* record() with _bump_hourly.
Record(sample) ==
  /\ written' = written + 1
  /\ usage' = usage \cup {Written(sample)}
  /\ recorded' = recorded \cup {Written(sample)}
  /\ hourly' = BumpHourly(Written(sample))
  /\ blurred' = blurred \cup (IF Revives(Written(sample)) THEN {HourOf(clock)} ELSE {})
  /\ UNCHANGED <<clock, price, tidy, script, scripts>>

RecordAny == written < MostEvents /\ \E sample \in Samples : Record(sample)

\* rollup_hourly(since): the rows of the hours that have events from there on.
RolledUpFrom(rows, since) ==
  LET late == {r \in rows : r.ts >= since}
  IN  Overlaid([k \in {HourKey(r) : r \in late} |-> Sums({r \in late : HourKey(r) = k})], hourly)

RolledUp(since) == RolledUpFrom(usage, since)

\* That sets an hour right all of whose rows have events.
Healed(since) ==
  {h \in {HourOf(r.ts) : r \in {q \in usage : q.ts >= since}} :
     \A k \in DOMAIN hourly : k.hour = h => k \in {HourKey(r) : r \in usage}}

----------------------------------------------------------------------------
(* A round of retention.                                                   *)

\* rollup_since: the beginning of an hour.
RollupSince == IF clock <= Overlap THEN 0 ELSE HourOf(clock - Overlap) * PerHour

\* slip: events are deleted to the second of their age
PurgeBeforeExactly == IF clock < Retain THEN 0 ELSE clock - Retain

\* purge_expired: the end of the hour in which events become too old.
PurgeBefore == IF clock < Retain THEN 0 ELSE (HourOf(clock - Retain) + 1) * PerHour

RollUp ==
  /\ tidy = "rollup"
  /\ hourly' = RolledUp(RollupSince)
  /\ tidy' = "purge"
  /\ blurred' = blurred \ Healed(RollupSince)
  /\ UNCHANGED <<clock, price, usage, script, recorded, written, scripts>>

\* A script that is about to delete the rows of hours without events takes the
\* hours purged for some of those.
Purge ==
  /\ tidy = "purge"
  /\ LET old == {r \in usage : r.ts < PurgeBefore}
     IN  /\ usage' = usage \ old
         /\ blurred' = blurred \cup (IF script.at \notin {"found", "orphans"} THEN {}
                                     ELSE {HourOf(r.ts) : r \in old} \cap script.hours)
  /\ tidy' = "tidied"
  /\ UNCHANGED <<clock, price, hourly, script, recorded, written, scripts>>

TidyBegins ==
  /\ tidy' = "rollup"
  /\ UNCHANGED <<clock, price, usage, hourly, script, recorded, blurred, written, scripts>>
TidyStep == RollUp \/ Purge
TidyDone == tidy = "tidied"
TidyLeaves ==
  /\ tidy' = "idle"
  /\ UNCHANGED <<clock, price, usage, hourly, script, recorded, blurred, written, scripts>>

----------------------------------------------------------------------------
(* The scripts: failures of one channel are deleted and the hours follow   *)
(* (purge_failure_stats, cleanup_invalid_stats), the cost of every event   *)
(* is estimated anew (backfill_cost), every hour is recomputed             *)
(* (rollup_hourly).                                                        *)

Failures(provider) == {r \in usage : ~r.ok /\ r.provider = provider}

\* hour_range, before anything is locked.
SweepBegins ==
  /\ script = NoScript /\ scripts < MaxScripts
  /\ \E provider \in {r.provider : r \in {q \in usage : ~q.ok}} :
       LET hours == {HourOf(r.ts) : r \in Failures(provider)}
       IN  script' = [at |-> "found", provider |-> provider, hours |-> Min(hours) .. Max(hours)]
  /\ scripts' = scripts + 1
  /\ UNCHANGED <<clock, price, usage, hourly, tidy, recorded, blurred, written>>

\* One transaction.  Failures of a later hour are deleted too, the hour is not looked after.
SweepDeletes ==
  /\ script.at = "found"
  /\ LET gone == Failures(script.provider)
     IN  /\ usage' = usage \ gone
         /\ recorded' = {r \in recorded : r.id \notin {g.id : g \in gone}}
         /\ hourly' = RolledUpFrom(usage \ gone, 0)
         /\ blurred' = blurred \cup ({HourOf(r.ts) : r \in gone} \ script.hours)
  /\ script' = [script EXCEPT !.at = "orphans"]
  /\ UNCHANGED <<clock, price, tidy, written, scripts>>

SweepOrphans ==
  /\ script.at = "orphans"
  /\ hourly' = [k \in DOMAIN hourly \ Orphans |-> hourly[k]]
  /\ script' = NoScript
  /\ UNCHANGED <<clock, price, usage, tidy, recorded, blurred, written, scripts>>

\* recompute_costs: the rows that have a price, by the list of today.
Repriced(r) == IF CostAt(r, price) = Null THEN r ELSE [r EXCEPT !.cost = CostAt(r, price)]

Reprice ==
  /\ script = NoScript /\ scripts < MaxScripts
  /\ \E r \in usage : Repriced(r) # r
  /\ usage' = {Repriced(r) : r \in usage}
  /\ script' = [at |-> "repriced", hours |-> {HourOf(r.ts) : r \in {q \in usage : Repriced(q) # q}}]
  /\ scripts' = scripts + 1
  /\ UNCHANGED <<clock, price, hourly, tidy, recorded, blurred, written>>

RecomputeAll ==
  /\ \/ script.at = "repriced" /\ UNCHANGED scripts
     \/ script.at = "idle" /\ scripts < MaxScripts /\ scripts' = scripts + 1
  /\ hourly' = RolledUp(0)
  /\ blurred' = blurred \ Healed(0)
  /\ script' = NoScript
  /\ UNCHANGED <<clock, price, usage, tidy, recorded, written>>

\* What a script leaves half done a second run does not find.
ScriptDies ==
  /\ script # NoScript
  /\ blurred' = blurred \cup (IF script.at = "found" THEN {} ELSE script.hours)
  /\ script' = NoScript
  /\ UNCHANGED <<clock, price, usage, hourly, tidy, recorded, written, scripts>>

ScriptStep == SweepBegins \/ SweepDeletes \/ SweepOrphans \/ Reprice \/ RecomputeAll \/ ScriptDies

ClockTicks ==
  /\ clock < LastTick
  /\ clock' = clock + 1
  /\ UNCHANGED <<price, usage, hourly, tidy, script, recorded, blurred, written, scripts>>

\* The price list is refreshed, or the exchange rate is changed.
PricesMove ==
  /\ price' \in Prices \ {price}
  /\ UNCHANGED <<clock, usage, hourly, tidy, script, recorded, blurred, written, scripts>>

----------------------------------------------------------------------------
\* Properties of the books.

\* An hour of which a script is at work is settled when that is done.
Settled(h) ==
  /\ h \notin blurred
  /\ script.at \in {"orphans", "repriced"} => h \notin script.hours

Counts(s) == [column \in DOMAIN s \ {"cost", "cost_known"} |-> s[column]]
KeyedAt(S, h) == {k \in S : k.hour = h}

\* collector.py, retention.py and the scripts: the rows of a settled hour count
\* everything recorded in it, also after its events were purged and hours were
\* recomputed; with events, they also agree on the cost.
HourComplete(h) ==
  LET keys == {HourKey(r) : r \in recorded}
      Of(rows, k) == {r \in rows : HourKey(r) = k}
  IN  /\ KeyedAt(DOMAIN hourly, h) = KeyedAt(keys, h)
      /\ \A k \in KeyedAt(keys, h) :
           /\ Counts(hourly[k]) = Counts(Sums(Of(recorded, k)))
           /\ Of(usage, k) # {} => hourly[k] = Sums(Of(usage, k))

AllHoursComplete == \A h \in Hours : Settled(h) => HourComplete(h)
=============================================================================
