----------------------------- MODULE LiveSettings -----------------------------
(***************************************************************************)
(* runtime_settings.py with the PUT of admin_settings.py and the rows of   *)
(* RuntimeSettingsRepository: the settings that an administrator changes   *)
(* while the process runs.  A batch is checked as a whole and then written *)
(* row by row; every row is a transaction of its own, after which the rows *)
(* are read again.  The process may end between two of them.               *)
(*                                                                         *)
(* A value is a number; what is no value of a setting (its type, its range *)
(* and the rules of single settings) is not legal.  The one rule between   *)
(* two settings is that of pacer_min_seconds and pacer_max_seconds.        *)
(*                                                                         *)
(* A definition marked `slip' is a variant with a likely slip; no action   *)
(* uses it.                                                                *)
(***************************************************************************)
EXTENDS Integers, Functions

CONSTANTS
  Hot,          \* HOT_SETTINGS, of which
  Low,          \* pacer_min_seconds and
  High,         \* pacer_max_seconds are a pair
  Strange,      \* keys of other versions, which a row or a request may name
  Value,        \* what a row may hold
  LegalFor,     \* [Hot -> SUBSET Value], what parse_value takes
  Environments, \* what .env may say
  Reset         \* null or blank: back to .env

ASSUME SettingConstants ==
  /\ {Low, High} \subseteq Hot /\ Low # High
  /\ Hot \cap Strange = {}
  /\ Value \subseteq Int /\ Reset \notin Value
  /\ LegalFor \in [Hot -> SUBSET Value]
  /\ Environments \subseteq [Hot -> Value]

VARIABLES
  env,          \* Settings, as loaded at the start
  stored,       \* the rows of runtime_settings, key -> value
  overrides,    \* RuntimeSettings._overrides
  batch,        \* the values of the last PUT that was accepted
  left          \* the keys of it that are not written yet

settingVars == <<env, stored, overrides, batch, left>>

AnyKey == Hot \cup Strange

\* All tables of some of the keys.
Tables(keys, values) == UNION {[some -> values] : some \in SUBSET keys}

\* RuntimeSettings.reload: rows that are not legal, or not known, are passed over.
Reloaded(table) ==
  Restrict(table, {k \in Hot \cap DOMAIN table : table[k] \in LegalFor[k]})

\* RuntimeSettings.get; what raises old values of some intervals to their floor is left out.
InForce(over, k) == IF k \in DOMAIN over THEN over[k] ELSE env[k]

\* An attribute of RuntimeSettings: read afresh each time it is asked for.
Setting(k) == InForce(overrides, k)

\* What is set once `values' are written over `old'; a reset removes the row.
Applied(old, values) ==
  [k \in {j \in DOMAIN old \cup DOMAIN values : j \in DOMAIN values => values[j] # Reset} |->
     IF k \in DOMAIN values THEN values[k] ELSE old[k]]

Bounds(values) == {k \in {Low, High} \cap DOMAIN values : values[k] # Reset}

Ordered(over) == InForce(over, Low) <= InForce(over, High)

\* _coerce, of a key that may be set
Allowed(k, value) == k \in Hot /\ value \in LegalFor[k] \cup {Reset}

\* slip: a bound that is reset in the same batch counts as what it was
FitsOld(values) ==
  Bounds(values) # {} => Ordered(Applied(overrides, Restrict(values, Bounds(values))))

\* validate_group: a batch that sets one of the bounds is checked against what the other
\* will be after it; a batch that only resets them is not.
Fits(values) == Bounds(values) # {} => Ordered(Applied(overrides, values))

SettingsInit ==
  /\ env \in Environments
  /\ stored \in Tables(AnyKey, Value)
  /\ overrides = Reloaded(stored)
  /\ batch = <<>> /\ left = {}

SettingsStart ==
  /\ env' \in Environments
  /\ overrides' = Reloaded(stored)
  /\ batch' = <<>> /\ left' = {}
  /\ UNCHANGED stored

\* A batch with a key or a value that is not allowed is refused as a whole.
SetMany(values) ==
  /\ left = {}
  /\ \A k \in DOMAIN values : Allowed(k, values[k])
  /\ Fits(values)
  /\ batch' = values /\ left' = DOMAIN values
  /\ UNCHANGED <<env, stored, overrides>>

WriteOne(k) ==
  /\ k \in left
  /\ stored' = Applied(stored, Restrict(batch, {k}))
  /\ overrides' = Reloaded(stored')
  /\ left' = left \ {k}
  /\ UNCHANGED <<env, batch>>

SettingsStep ==
  \/ \E values \in Tables(AnyKey, Value \cup {Reset}) : SetMany(values)
  \/ \E k \in left : WriteOne(k)

----------------------------------------------------------------------------
\* runtime_settings.py: what is in force is what a restart would load, and the bounds of
\* the pacer are in order whenever a batch that set one of them is written, in whatever
\* order its rows were, and whatever else the batch put back.
SettingsAgree ==
  /\ overrides = Reloaded(stored)
  /\ left = {} /\ Bounds(batch) # {} => Setting(Low) <= Setting(High)
=============================================================================
