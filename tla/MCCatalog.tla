------------------------------ MODULE MCCatalog ------------------------------
(***************************************************************************)
(* Small instances of ModelCatalog.                                        *)
(***************************************************************************)
EXTENDS ModelCatalog

CONSTANTS cb, tr

InOrder == <<cb, tr>>

Model(raw, key, label) == [raw |-> raw, key |-> key, label |-> label]
Plainly(n) == Model(n, n, n)

Alias(name, target, channel) == [name |-> name, target |-> target, channel |-> channel]

Shared1 == {Plainly(3), Model(4, 4, 3)}                    \* one has the label's id
Shared2 == {Model(5, 5, 1), Model(6, 6, 1), Plainly(3)}    \* none has
Unnamed == {Model(2, 2, 9), Model(4, 4, 0)}
Spaced == {Plainly(3), Model(7, 1, 1)}
Crossed == {Model(2, 2, 9), Model(1, 1, 2)}                \* named as another's id
Distant == {Model(8, 4, 3)}
Elsewhere == {Model(7, 7, 4), Model(8, 8, 3)}              \* named as both of Shared1
Numerous == {Model(4, 4, 0), Model(6, 6, 0), Model(7, 7, 0),
             Model(5, 4, 6), Model(8, 4, 7)}               \* to the last resort

Names == <<Alias(1, 3, ""), Alias(10, 3, tr), Alias(11, 4, "")>>

\* Tables that have names in common, before and after the operator's settings.
Merging ==
  {[offers |-> [p \in {cb, tr} |-> IF p = cb THEN {pair[1]} ELSE {pair[2]}],
    aliases |-> {Names}, banned |-> {{}, {3}}, may |-> {}] :
      pair \in {<<Shared1, Distant>>, <<Shared1, Elsewhere>>, <<Shared2, Spaced>>,
               <<Unnamed, Crossed>>, <<Numerous, Distant>>}}

OneModel(channels) ==
  [p \in {cb, tr} |->
     IF p \notin channels THEN {} ELSE {{IF p = cb THEN Plainly(1) ELSE Plainly(2)}}]

\* Two channels that may be slow to answer, or not answer.
Refreshing ==
  [offers |-> OneModel({cb, tr}), aliases |-> {<<>>}, banned |-> {{}}, may |-> {"fail"}]

\* The channel comes and goes, fetches fail, the process starts again from what was saved.
Returning ==
  [offers |-> OneModel({cb}), aliases |-> {<<>>}, banned |-> {{}},
   may |-> {"fail", "lose disk", "reconnect", "restart"}]

\* One channel whose model comes and goes, in its table and for requests.
Probing ==
  [offers |-> [p \in {cb, tr} |-> IF p = cb THEN {{Plainly(1)}, {}} ELSE {}],
   aliases |-> {<<>>}, banned |-> {{}}, may |-> {"probe"}]

All == Merging \cup {Refreshing, Returning, Probing}

=============================================================================
