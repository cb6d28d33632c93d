------------------------------ MODULE ModelMerge ------------------------------
(***************************************************************************)
(* api/model_merge.py: how the model tables of the channels become one     *)
(* list.  Each channel names a model in its own way; models of one display *)
(* name are merged over the channels, and every name a client may use is   *)
(* registered with the id each channel understands.                        *)
(*                                                                         *)
(* A model is [raw, key, label]: the id its channel understands, that id   *)
(* normalised, and its display name normalised.  Names are numbers in      *)
(* their alphabetical order, of which a smaller one is also not longer;    *)
(* 0 is no name.  A name that may be made unique is a pair of a name and a *)
(* suffix, 0 for none, the number of a channel, or a count above those.    *)
(* Metadata (prices, limits, benchmarks) is left out.                      *)
(*                                                                         *)
(* A definition marked `slip' is a variant with a likely slip; no action   *)
(* uses it.                                                                *)
(***************************************************************************)
EXTENDS Naturals, Sequences, FiniteSets, SequencesExt

CONSTANTS
  Channels,     \* the channels as _PROVIDER_RANK and the alphabet order them
  Sentinel      \* _SENTINEL_LABELS

Channel == {Channels[i] : i \in 1 .. Len(Channels)}
Rank(p) == CHOOSE i \in 1 .. Len(Channels) : Channels[i] = p

ASSUME MergeConstants ==
  /\ Channels \in Seq(Channel) /\ Sentinel \subseteq Nat
  /\ \A i, j \in 1 .. Len(Channels) : Channels[i] = Channels[j] => i = j

\* Of some channels the one that comes first.
Foremost(some) == CHOOSE p \in some : \A q \in some : Rank(p) <= Rank(q)

Plain(name) == <<name, 0>>

----------------------------------------------------------------------------
(* Which models are one.                                                   *)

Shared(table) ==
  {m.label : m \in {n \in table : \E o \in table \ {n} : o.label = n.label}}

\* The pair _merge_key returns: the key, and whether the display name gave it.
MergeKey(m, p, table) ==
  LET shared == m.label \in Shared(table) IN
  IF \/ m.label \in Sentinel \cup {0}
     \/ shared /\ m.label \notin {o.key : o \in table}
  THEN <<<<m.key, Rank(p)>>, FALSE>>
  ELSE <<Plain(IF shared THEN m.key ELSE m.label), ~shared>>

\* Each model of each channel under its key.
Rows(tables) ==
  UNION {{[at |-> p, model |-> m, under |-> MergeKey(m, p, tables[p])] : m \in tables[p]} :
           p \in Channel}

\* Of two models with one key the later in the channel's table stays.
Latest(models) == CHOOSE m \in models : \A o \in models : o.raw <= m.raw

Entry(rows, k) ==
  LET of == {r \in rows : r.under[1] = k}
      in == {r.at : r \in of}
  IN [key    |-> k,
      model  |-> [p \in in |-> Latest({r.model : r \in {s \in of : s.at = p}})],
      labels |-> {r.model.label : r \in of} \ {0},
      named  |-> {r.at : r \in {s \in of : s.under[2]}}]

In(e) == DOMAIN e.model
First(e) == Foremost(In(e))

Precedes(e, f) ==
  \/ Rank(First(e)) < Rank(First(f))
  \/ /\ Rank(First(e)) = Rank(First(f))
     /\ \/ e.key[2] # 0 /\ f.key[2] = 0
        \/ (e.key[2] = 0) = (f.key[2] = 0) /\ e.key[1] < f.key[1]

\* merged_entries, without its filters.  A key of one channel begins with the
\* name of the channel, which comes before the names of models here.
Merged(tables) ==
  LET rows == Rows(tables)
      entries == {Entry(rows, k) : k \in {r.under[1] : r \in rows}}
  IN [i \in 1 .. Cardinality(entries) |->
        CHOOSE e \in entries : Cardinality({f \in entries : Precedes(f, e)}) = i - 1]

----------------------------------------------------------------------------
(* What they are called outside.                                           *)

Lowest(names) == CHOOSE n \in names : \A o \in names : n <= o
Display(e) == IF e.labels = {} THEN 0 ELSE Lowest(e.labels)

Finalized(e) ==
  Plain(IF e.labels = {} \/ e.key[2] # 0 THEN e.model[First(e)].key ELSE Display(e))

Fallbacks(e) ==
  LET key == e.model[First(e)].key IN <<Plain(key), <<key, Rank(First(e))>>>>

\* _unique_suffix: -2, -3, ...
Numbered(name, taken) ==
  <<name, Len(Channels) + CHOOSE n \in 1 .. Cardinality(taken) + 1 :
            /\ <<name, Len(Channels) + n>> \notin taken
            /\ \A i \in 1 .. n - 1 : <<name, Len(Channels) + i>> \in taken>>

\* slip: ids may collide
SettledBlindly(e, taken) == Finalized(e)

\* The id _disambiguate settles on when the ids in taken are used.
Settled(e, taken) ==
  LET names == <<Finalized(e)>> \o Fallbacks(e)
      free == {i \in DOMAIN names : names[i] \notin taken}
  IN IF free # {} THEN names[Min(free)] ELSE Numbered(Finalized(e)[1], taken)

Ids(list) == {list[i].id : i \in 1 .. Len(list)}

Called(e, id) ==
  [id |-> id, name |-> Display(e), model |-> e.model, named |-> e.named]

Joined(list, e) == Append(list, Called(e, Settled(e, Ids(list))))
Disambiguated(entries) == FoldLeft(Joined, <<>>, entries)

----------------------------------------------------------------------------
(* Which names lead to which model of a channel.  A register maps, for     *)
(* each channel, names to ids the channel understands.                     *)

Nothing == [p \in Channel |-> [n \in {} |-> 0]]

Over(new, old) ==
  [n \in DOMAIN new \cup DOMAIN old |-> IF n \in DOMAIN new THEN new[n] ELSE old[n]]

\* _register_entry_alias
NamesOf(e, p) ==
  {e.id, Plain(e.model[p].raw)}
    \cup (IF p \in e.named /\ e.name # 0 THEN {Plain(e.name)} ELSE {})

Registered(register, e) ==
  [p \in Channel |->
     IF p \in In(e) THEN Over([n \in NamesOf(e, p) |-> e.model[p].raw], register[p])
     ELSE register[p]]

RegisterOf(list) == FoldLeft(Registered, Nothing, list)

----------------------------------------------------------------------------
(* MODEL_ALIASES: names of the operator, as records [name, target, channel *)
(* ("" for any)].                                                          *)

Answers(e, name) ==
  \/ e.id = Plain(name)
  \/ e.name = name /\ name # 0
  \/ \E p \in In(e) : e.model[p].raw = name

\* _find_target_entry: the first that answers.
Found(alias, real) == {i \in DOMAIN real : Answers(real[i], alias.target)}
TargetOf(alias, real) == real[Min(Found(alias, real))]

\* What _apply_custom_aliases accepts: a name nothing answers to yet, for a
\* model of the list that is there in the channel it is pinned to.
Applies(alias, real, register) ==
  /\ \A p \in Channel : Plain(alias.name) \notin DOMAIN register[p]
  /\ Found(alias, real) # {} /\ alias.channel \in In(TargetOf(alias, real)) \cup {""}

AliasEntry(alias, real) ==
  LET target == TargetOf(alias, real)
      in == IF alias.channel = "" THEN In(target) ELSE {alias.channel}
  IN [id |-> Plain(alias.name), name |-> alias.name,
      model |-> [p \in in |-> target.model[p]], named |-> {}]

\* Names go to models of the list as it was (real), and are told of those before them.
WithAlias(acc, alias) ==
  LET e == AliasEntry(alias, acc.real) IN
  IF ~Applies(alias, acc.real, acc.register) THEN acc
  ELSE [real |-> acc.real,
        list |-> Append(acc.list, e),
        register |-> [p \in Channel |->
           IF p \in In(e) THEN Over([n \in {e.id} |-> e.model[p].raw], acc.register[p])
           ELSE acc.register[p]]]

Customised(real, register, aliases) ==
  FoldLeft(WithAlias, [real |-> real, list |-> real, register |-> register], aliases)

\* _build_aliases: the list with its register.
Build(tables, aliases) ==
  LET list == Disambiguated(Merged(tables)) IN
  Customised(list, RegisterOf(list), aliases)
=============================================================================
