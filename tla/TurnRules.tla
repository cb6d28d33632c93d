-------------------------------- MODULE TurnRules --------------------------------
(***************************************************************************)
(* What decides about a turn before and between its attempts, as operators *)
(* on tables, caps and names: the credential a conversation stays with     *)
(* (engine/affinity.py), the rounds it is continued in (continuation.py),  *)
(* what a credential may spend (engine/limits.py over db/limits.py), and   *)
(* the models and channels it may be tried on (engine/model_resolver.py).  *)
(*                                                                         *)
(* `A wrong X' is a variant of X with a likely slip; no action uses it.    *)
(***************************************************************************)
EXTENDS Integers, FiniteSetsExt, SequencesExt

(* Affinity: which credential served a conversation last.  A conversation  *)
(* is known by an identifier in the request (body before header) or, if    *)
(* there is none and no user_id either, by its messages: a turn repeats    *)
(* all that was said before.  Digests are taken to be injective.  The      *)
(* table is a sequence, least recently used first.                         *)

CONSTANTS
  Sticky,       \* conversation_sticky_seconds
  MaxEntries,   \* max_entries
  Nobody        \* no credential, no identifier

ASSUME AffinityConstants == Sticky \in Nat /\ MaxEntries \in Nat \ {0}

\* A request is [body, header, user_id, messages].
Key(user, source, id) == [user |-> user, source |-> source, id |-> id]

\* a wrong Keys: whoever sends the same identifier is the same conversation
KeysOfAnyone(user, raw) ==
  CASE raw.body # Nobody -> <<Key(Nobody, "body", <<raw.body>>)>>
    [] OTHER -> <<Key(Nobody, "header", <<raw.header>>)>>

\* The keys a conversation may be under, the one of this turn last:
\* resolve_explicit with _explicit_digest, or _chain_digests.
Keys(user, raw) ==
  IF Sticky = 0 THEN <<>>
  ELSE IF raw.body # Nobody THEN <<Key(user, "body", <<raw.body>>)>>
  ELSE IF raw.header # Nobody THEN <<Key(user, "header", <<raw.header>>)>>
  ELSE IF raw.user_id THEN <<>>
  ELSE [i \in DOMAIN raw.messages |-> Key(user, "messages", SubSeq(raw.messages, 1, i))]

Without(table, key) == SelectSeq(table, LAMBDA e : e.key # key)

\* _touch
Touched(table, key, cred) ==
  Append(Without(table, key), [key |-> key, cred |-> cred, left |-> Sticky])

\* _lookup, on the way of _pin_chain from the shortest prefix to the longest
Lookup(found, key) ==
  LET i == SelectInSeq(found.table, LAMBDA e : e.key = key) IN
  IF i = 0 THEN found
  ELSE IF found.table[i].left = 0
  THEN [found EXCEPT !.table = Without(@, key)]
  ELSE [table |-> Touched(found.table, key, found.table[i].cred),
        cred |-> found.table[i].cred]

\* pin_for: the credential of the longest prefix known, or nobody
PinFor(table, user, raw) ==
  FoldLeft(Lookup, [table |-> table, cred |-> Nobody], Keys(user, raw))

\* _evict: the expired first, then the least recently used
Evicted(table) ==
  LET live == SelectSeq(table, LAMBDA e : e.left > 0) IN
  IF Len(table) <= MaxEntries THEN table
  ELSE IF Len(live) <= MaxEntries THEN live
  ELSE SubSeq(live, Len(live) - MaxEntries + 1, Len(live))

\* remember: under the key of this turn alone
Remembered(table, user, raw, cred) ==
  LET keys == Keys(user, raw) IN
  IF keys = <<>> THEN table ELSE Evicted(Touched(table, Last(keys), cred))

Aged(table) == [i \in DOMAIN table |->
                  [table[i] EXCEPT !.left = IF @ = 0 THEN 0 ELSE @ - 1]]

----------------------------------------------------------------------------
(* engine/continuation.py: rounds of one upstream that read as one stream. *)
(* A round the upstream cut for its length is followed by another one,     *)
(* whose request repeats what was said before.  FINISH and USAGE of a      *)
(* round are held back; the use so far is told before the next round and   *)
(* at the end, the last reason to finish at the end only.                  *)
(*                                                                         *)
(* A stream is [carried, parts, rounds, finish, usage]: the pieces in the  *)
(* request, those of this round, continues_done, finish_reason, and the    *)
(* use of the rounds so far (0: none was reported).                        *)

NewStream ==
  [carried |-> 0, parts |-> 0, rounds |-> 0, finish |-> "none", usage |-> 0]

\* CONTENT or REASONING, which the executor may withhold from the client
Piece(s) == [s EXCEPT !.parts = @ + 1]

\* A round ends with a reason, or without one ("none"): the last one stays.
RoundEnds(s, reason, spent) ==
  [s EXCEPT !.finish = IF reason = "none" THEN @ ELSE reason,
            !.usage = @ + spent]

\* whether one more round follows
Continues(s, most) == s.finish = "length" /\ s.rounds < most

\* USAGE, unless no round has reported any: the translator keeps the last one
Told(s, usage) == IF s.usage = 0 THEN usage ELSE s.usage

\* a wrong NextRound: the pieces of all rounds are said again in each request
NextRoundAgain(s) ==
  [s EXCEPT !.rounds = @ + 1, !.carried = @ + s.parts]

\* extend_payload and a new call
NextRound(s) ==
  [s EXCEPT !.rounds = @ + 1, !.carried = @ + s.parts, !.parts = 0]

----------------------------------------------------------------------------
(* Limits: what a credential may spend.  Caps of a day on all tokens or on *)
(* those of one model, and credits to be left over; 0 is no cap, and a     *)
(* credential without caps has no row.  Caps and use are read together and *)
(* kept for a while.  daily_credits is a cap like daily_tokens and left    *)
(* out.                                                                    *)

CONSTANTS
  SnapshotTTL,  \* SNAPSHOT_TTL_SECONDS
  NoSnapshot,
  Unknown       \* quota_remaining of an account that was never probed

ASSUME LimitConstants == SnapshotTTL \in Nat \ {0}

Caps(keep, tokens, model) == [keep |-> keep, tokens |-> tokens, model |-> model]

\* is_empty: such caps are deleted, not stored
IsEmpty(caps) ==
  /\ caps.keep <= 0 /\ caps.tokens <= 0
  /\ \A m \in DOMAIN caps.model : caps.model[m] <= 0

Tokens(used) == MapThenSumSet(LAMBDA m : used[m], DOMAIN used)

\* keep_credits: an account whose rest is unknown is not judged
RestKept(caps, rest) == caps.keep > 0 /\ rest # Unknown /\ rest <= caps.keep

\* the caps on what was used today
UsedUp(caps, used, m) ==
  \/ caps.tokens > 0 /\ Tokens(used) >= caps.tokens
  \/ caps.model[m] > 0 /\ used[m] >= caps.model[m]

\* a wrong Loaded: being read keeps a snapshot young
LoadedSliding(snapshot, limits, used) ==
  IF snapshot # NoSnapshot THEN [snapshot EXCEPT !.age = 0]
  ELSE [age |-> 0, limits |-> limits, used |-> used]

\* _load; the use of the day is read only if somebody has caps
Loaded(snapshot, limits, used) ==
  IF snapshot # NoSnapshot /\ snapshot.age < SnapshotTTL THEN snapshot
  ELSE [age |-> 0, limits |-> limits,
        used |-> IF \A c \in DOMAIN limits : IsEmpty(limits[c])
                 THEN [c \in DOMAIN used |-> [m \in DOMAIN used[c] |-> 0]]
                 ELSE used]

\* blocked, with evaluate: the snapshot, but the rest of the candidate itself
LimitBlocked(snapshot, c, m, rest) ==
  LET caps == snapshot.limits[c] IN
  ~IsEmpty(caps) /\ (RestKept(caps, rest) \/ UsedUp(caps, snapshot.used[c], m))

SnapshotAged(snapshot) ==
  IF snapshot = NoSnapshot \/ snapshot.age = SnapshotTTL THEN snapshot
  ELSE [snapshot EXCEPT !.age = @ + 1]

----------------------------------------------------------------------------
(* Targets: which models and which channels a request may be tried on.  A  *)
(* name is a model with a channel as its suffix, or none; groups are in    *)
(* the order of MODEL_FALLBACK_GROUPS; the register says which channel has *)
(* which model, and is empty until the lists were fetched.  Case is left   *)
(* out.                                                                    *)

CONSTANTS
  Channel,      \* KNOWN_PROVIDERS, all of them registered
  Anywhere      \* no suffix, no binding

ASSUME ChainConstants == Anywhere \notin Channel

Name(model, channel) == [model |-> model, channel |-> channel]
Group(name, members) == [name |-> name, members |-> members]

Target(model, channels, forced) ==
  [model |-> model, channels |-> channels, forced |-> forced]

\* resolve
Resolved(name) ==
  IF name.channel = Anywhere THEN Target(name.model, Channel, FALSE)
  ELSE Target(name.model, {name.channel}, TRUE)

Listed(register) == {p \in Channel : register[p] # {}}
Owners(register, model) == {p \in Channel : model \in register[p]}

\* _apply_binding refuses a request (400) that cannot be served on its channel
Refused(name, binding, register) ==
  /\ binding # Anywhere
  /\ \/ name.channel \notin {Anywhere, binding}
     \/ Owners(register, name.model) \notin {{}} /\ binding \notin Owners(register, name.model)

\* resolve_target
ResolveTarget(name, binding) ==
  IF binding = Anywhere THEN Resolved(name)
  ELSE Target(name.model, {binding}, TRUE)

\* ordered_fallback_chain: of the first group with this name or this member
OrderedChain(model, groups) ==
  LET plain == Name(model, Anywhere)
      i == SelectInSeq(groups, LAMBDA g : g.name = model \/ Contains(g.members, plain)) IN
  IF i = 0 THEN <<>>
  ELSE IF groups[i].name = model THEN groups[i].members
  ELSE <<plain>> \o SelectSeq(groups[i].members, LAMBDA n : n # plain)

\* the members with a known channel, each model once
Members(target, groups) ==
  LET known == SelectSeq(OrderedChain(target.model, groups),
                         LAMBDA n : n.channel \in Channel \cup {Anywhere})
      all == [i \in DOMAIN known |->
                IF known[i] = Name(target.model, Anywhere) THEN target ELSE Resolved(known[i])]
  IN FoldLeft(LAMBDA found, t :
                IF \E i \in DOMAIN found : found[i].model = t.model THEN found
                ELSE Append(found, t),
              <<>>, all)

\* _fallback_allowed
Allowed(target, register) ==
  Listed(register) = {} \/ target.channels \cap Owners(register, target.model) # {}

\* a wrong Chain: a forced channel holds for the first model alone
ChainUnforced(target, groups, register) ==
  LET all == Members(target, groups) IN
  IF all = <<>> THEN <<target>> ELSE all

\* _fallback_chain
Chain(target, groups, register) ==
  LET all == Members(target, groups)
      asked == all # <<>> /\ Head(all).model = target.model
      rest == SelectSeq(IF asked THEN Tail(all) ELSE all, LAMBDA t : Allowed(t, register))
  IN IF target.forced \/ all = <<>> THEN <<target>>
     ELSE IF asked THEN <<Head(all)>> \o rest
     ELSE IF rest = <<>> THEN <<target>> ELSE rest

\* _narrow_providers
Narrowed(target, register) ==
  LET known == target.channels \cap Owners(register, target.model) IN
  IF target.forced \/ known = {} THEN target.channels ELSE known
=============================================================================
