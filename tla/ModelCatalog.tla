----------------------------- MODULE ModelCatalog -----------------------------
(***************************************************************************)
(* api/models.py, api/model_catalog.py, tasks/model_probe.py: the model    *)
(* list.  Each channel's table is fetched now and then and cached, also on *)
(* disk; from the cached tables of the channels with a credential the list *)
(* and the register of names are built, which the executor narrows the     *)
(* channels of a request with.  A probe that is told `no such model' hides *)
(* the model of that channel.                                              *)
(*                                                                         *)
(* A fetch, a probe and the lock of the fetches are awaited, and anything  *)
(* may happen meanwhile.  Which channels have a credential is looked up    *)
(* once, before a job queues for the lock.                                 *)
(*                                                                         *)
(* What shares no state is not followed together: a scene fixes the tables *)
(* the channels may offer and what may happen around them.                 *)
(***************************************************************************)
EXTENDS ModelMerge, Integers, FiniteSetsExt

CONSTANTS
  TTL,          \* MODEL_LIST_TTL_SECONDS
  LongestPause, \* MODEL_LIST_BACKOFF_MAX_SECONDS
  MaxAge,       \* MAX_AGE_SECONDS
  Never,        \* no attempt yet
  Scenes,       \* bound of the model: records [offers, aliases, banned, may]
  MaxFails,     \* bound of the model: failures counted
  MaxMoves      \* bound of the model: changes of credentials, restarts

ASSUME CatalogConstants ==
  /\ TTL \in Nat \ {0} /\ LongestPause \in Nat /\ LongestPause >= TTL
  /\ MaxAge \in Nat /\ MaxFails \in Nat \ {0} /\ MaxMoves \in Nat
  /\ Never \notin Nat

AliasRows == [name : Nat, target : Nat, channel : Channel \cup {""}]
ASSUME SceneConstants ==
  \A s \in Scenes :
    /\ \A p \in Channel : \A table \in s.offers[p] :
         IsFiniteSet(table) /\ \A m \in table : {m.raw, m.key, m.label} \subseteq Nat
    /\ s.aliases \subseteq Seq(AliasRows)

\* An age beyond this one makes no difference.
Oldest == Max({LongestPause, MaxAge + 1})
Older(age) == IF age = Never THEN Never ELSE Min({age + 1, Oldest})

\* Who fetches: the periodic task and the warm-up, a request that finds a
\* channel without a table, the refresh in the background of a request.
Job == {"loop", "request", "back"}

VARIABLES
  scene,
  creds,        \* the channels with a selectable credential
  settings,     \* MODEL_BLOCKLIST and MODEL_ALIASES, read where they are used
  cache,        \* model_list_cache
  tried,        \* model_list_fetched_at, as the time since
  fails,        \* model_list_failures
  published,    \* what model_aliases was last built from
  disk,         \* model_catalog.json: by channel the table and its age
  job,          \* what each job is at
  verdict,      \* model_probes.state
  manual,       \* model_probes.manual: the pairs the operator took over
  refused,      \* pairs with a blocked entry in credential_model_cooldowns
  gone,         \* pairs of which the upstream says `no such model'
  round,        \* the probing task: what it is at
  asked,        \* the pair the operator has probed
  moves

listVars == <<settings, cache, tried, fails, published, disk, job>>
probeVars == <<verdict, manual, refused, gone, round, asked>>
catalogVars == <<scene, creds, listVars, probeVars, moves>>

May(what) == what \in scene.may

Offered(p) == UNION scene.offers[p]
Pair == {<<p, m.raw>> : p \in Channel, m \in UNION {Offered(q) : q \in Channel}}
Known == {k \in Pair : \E m \in Offered(k[1]) : m.raw = k[2]}

Idle == [at |-> "idle", conn |-> {}, todo |-> {}]
Resting == [at |-> "idle", todo |-> {}, marked |-> {}, on |-> {}]

----------------------------------------------------------------------------
(* What is published.                                                      *)

\* ModelProbeRepository.failed
Hidden == {k \in Known : verdict[k] = "failed"}

\* _visible, and the filter of merged_entries
Shown(p, table, banned) ==
  {m \in table : {m.raw, m.key, m.label} \cap banned = {} /\ <<p, m.raw>> \notin Hidden}

\* _hidden_entry: the entry of the model alone, by its id if the table has
\* lost it.
HiddenEntry(k, table) ==
  LET found == {m \in table : m.raw = k[2]}
      m == IF found = {} THEN [raw |-> k[2], key |-> k[2], label |-> 0]
           ELSE CHOOSE n \in found : TRUE
  IN [id |-> Plain(IF m.label # 0 THEN m.label ELSE m.key), name |-> m.label,
      model |-> [p \in {k[1]} |-> m], named |-> IF found = {} THEN {} ELSE {k[1]}]

\* _publish: names of hidden models are kept.
Published(tables, conn) ==
  [shown |-> [p \in Channel |->
                IF p \in conn THEN Shown(p, tables[p], settings.banned) ELSE {}],
   hidden |-> {HiddenEntry(k, tables[k[1]]) : k \in {h \in Hidden : h[1] \in conn}},
   aliases |-> settings.aliases]

Unpublished == [shown |-> [p \in Channel |-> {}], hidden |-> {}, aliases |-> <<>>]

Listing(pub) == Build(pub.shown, pub.aliases)

\* The register of what was published: the names of the list come first.
Register(pub) ==
  LET hidden == FoldLeft(Registered, Nothing, SetToSeq(pub.hidden))
      listed == Listing(pub).register
  IN [p \in Channel |-> Over(listed[p], hidden[p])]

\* executor.py, _narrow_providers: those that are known to have the model, or
\* all of them.
Narrowed(name, register) ==
  LET known == {p \in Channel : name \in DOMAIN register[p]} IN
  IF known = {} THEN Channel ELSE known

----------------------------------------------------------------------------
(* When a channel is asked again.                                          *)

\* slip: no longest pause
PauseForGood(n) == IF n = 0 THEN TTL ELSE IF n = MaxFails THEN Oldest + 1 ELSE TTL

Pause(n) == IF n = 0 THEN TTL ELSE Min({TTL * 2 ^ (n - 1), LongestPause})

\* _needs_refresh
Due(p) == tried[p] = Never \/ tried[p] >= Pause(fails[p])

LockFree == \A j \in Job : job[j].at # "walk"

\* slip: the channels are chosen before the lock
WalkUnchecked(j) == job[j].conn

\* The walk of _refresh_providers, whose clock is read under the lock.
Walk(j) == {p \in job[j].conn : Due(p)}

Queued == [at |-> "lock", conn |-> creds, todo |-> {}]

\* list_models: the periodic task, and the warm-up after a start
LoopBegins ==
  /\ job["loop"].at = "idle"
  /\ job' = [job EXCEPT !["loop"] = Queued]
  /\ UNCHANGED <<scene, creds, settings, cache, tried, fails, published, disk, probeVars, moves>>

\* serve_models and serve_model: wait for a channel that has no table, have
\* others refreshed in the background, unless that goes on already.
Serve ==
  LET stale == {p \in creds : Due(p)} IN
  /\ IF \E p \in stale : cache[p] = {}
     THEN /\ job["request"].at = "idle"
          /\ job' = [job EXCEPT !["request"] = Queued]
          /\ UNCHANGED published
     ELSE /\ job' = IF stale # {} /\ job["back"].at = "idle"
                    THEN [job EXCEPT !["back"] = Queued] ELSE job
          /\ published' = Published(cache, creds)
  /\ UNCHANGED <<scene, creds, settings, cache, tried, fails, disk, probeVars, moves>>

TakeLock(j) ==
  /\ job[j].at = "lock" /\ LockFree
  /\ job' = [job EXCEPT ![j].at = "walk", ![j].todo = Walk(j)]
  /\ UNCHANGED <<scene, creds, settings, cache, tried, fails, published, disk, probeVars, moves>>

\* save_catalog: every table there is, with the time of the writing.
Saved(tables) ==
  [p \in Channel |-> [table |-> tables[p], age |-> IF tables[p] = {} THEN Never ELSE 0]]

Walking(j) == job[j].at = "walk" /\ job[j].todo # {}

Visited(j, tables) ==
  /\ job' = [job EXCEPT ![j].todo = @ \ {Foremost(@)}]
  /\ published' = Published(tables, job[j].conn)
  /\ UNCHANGED <<scene, creds, settings, probeVars, moves>>

\* _refresh_provider: the table arrives ...
Fetched(j) ==
  /\ Walking(j)
  /\ LET p == Foremost(job[j].todo) IN
     \E table \in scene.offers[p] :
       LET tables == [cache EXCEPT ![p] = table] IN
       /\ cache' = tables
       /\ tried' = [tried EXCEPT ![p] = 0]
       /\ fails' = [fails EXCEPT ![p] = 0]
       /\ \/ disk' = Saved(tables)
          \/ May("lose disk") /\ UNCHANGED disk
       /\ Visited(j, tables)

\* ... or not: the old one stays, the next attempt comes later.
Missed(j) ==
  /\ May("fail") /\ Walking(j)
  /\ LET p == Foremost(job[j].todo) IN
     /\ tried' = [tried EXCEPT ![p] = 0]
     /\ fails' = [fails EXCEPT ![p] = Min({@ + 1, MaxFails})]
  /\ Visited(j, cache)
  /\ UNCHANGED <<cache, disk>>

\* The lock is given back; who has a list to answer builds it once more.
Walked(j) ==
  /\ job[j].at = "walk" /\ job[j].todo = {}
  /\ job' = [job EXCEPT ![j] = Idle]
  /\ published' = IF j = "back" THEN published ELSE Published(cache, job[j].conn)
  /\ UNCHANGED <<scene, creds, settings, cache, tried, fails, disk, probeVars, moves>>

----------------------------------------------------------------------------
(* Probing.                                                                *)

\* What the upstream may be found to say of a pair; what says nothing about
\* the model (quota, rate, network, silence) may always be the answer.
Answer(k) == {IF k \in gone THEN "failed" ELSE "ok", "inconclusive"}

\* ModelProbeRepository.record, and clear_blocked when it went well
Recorded(k, answer) ==
  /\ verdict' = [verdict EXCEPT ![k] = answer]
  /\ refused' = IF answer = "ok" THEN refused \ {k} ELSE refused

\* ModelProbeTask._targets
Targets == refused \cup Hidden

RoundBegins ==
  /\ May("probe") /\ round.at = "idle"
  /\ round' = [at |-> "walk", todo |-> Targets, marked |-> manual, on |-> {}]
  /\ UNCHANGED <<scene, creds, listVars, verdict, manual, refused, gone, asked, moves>>

\* The next pair: passed over if the operator had taken it over when the round
\* began; so it may be when no credential of its channel is selectable.
RoundAsks(k) ==
  /\ round.on = {} /\ k \in round.todo
  /\ \/ /\ k \in round.marked \/ k[1] \notin creds
        /\ round' = [round EXCEPT !.todo = @ \ {k}]
     \/ k \notin round.marked /\ round' = [round EXCEPT !.on = {k}]
  /\ UNCHANGED <<scene, creds, listVars, verdict, manual, refused, gone, asked, moves>>

RoundHears(k) ==
  /\ k \in round.on
  /\ \E answer \in Answer(k) : Recorded(k, answer)
  /\ round' = [round EXCEPT !.on = {}, !.todo = @ \ {k}]
  /\ UNCHANGED <<scene, creds, listVars, manual, gone, asked, moves>>

RoundEnds ==
  /\ round.at = "walk" /\ round.todo = {}
  /\ round' = Resting
  /\ UNCHANGED <<scene, creds, listVars, verdict, manual, refused, gone, asked, moves>>

\* probe_now
AskNow(k) ==
  /\ May("probe") /\ asked = {}
  /\ asked' = {k}
  /\ UNCHANGED <<scene, creds, listVars, verdict, manual, refused, gone, round, moves>>

HearNow(k) ==
  /\ k \in asked
  /\ asked' = {}
  /\ \E answer \in Answer(k) : Recorded(k, answer)
  /\ UNCHANGED <<scene, creds, listVars, manual, gone, round, moves>>

\* take_over
TakeOver(k) ==
  /\ May("probe")
  /\ manual' = IF k \in manual THEN manual \ {k} ELSE manual \cup {k}
  /\ UNCHANGED <<scene, creds, listVars, verdict, refused, gone, round, asked, moves>>

\* A request is refused for its model, and the entry ages.
Refuse(k) ==
  /\ May("probe") /\ k \in gone
  /\ refused' = refused \cup {k}
  /\ UNCHANGED <<scene, creds, listVars, verdict, manual, gone, round, asked, moves>>

Forget(k) ==
  /\ k \in refused
  /\ refused' = refused \ {k}
  /\ UNCHANGED <<scene, creds, listVars, verdict, manual, gone, round, asked, moves>>

Change(k) ==
  /\ May("probe")
  /\ gone' = IF k \in gone THEN gone \ {k} ELSE gone \cup {k}
  /\ UNCHANGED <<scene, creds, listVars, verdict, manual, refused, round, asked, moves>>

----------------------------------------------------------------------------
(* The world around.                                                       *)

Tick ==
  /\ tried' = [p \in Channel |-> Older(tried[p])]
  /\ disk' = [p \in Channel |-> [disk[p] EXCEPT !.age = Older(@)]]
  /\ UNCHANGED <<scene, creds, settings, cache, fails, published, job, probeVars, moves>>

\* A channel gets its first usable credential or loses the last.
Reconnect(p) ==
  /\ May("reconnect") /\ moves < MaxMoves /\ scene.offers[p] # {}
  /\ creds' = IF p \in creds THEN creds \ {p} ELSE creds \cup {p}
  /\ moves' = moves + 1
  /\ UNCHANGED <<scene, listVars, probeVars>>

Configure ==
  /\ \E banned \in scene.banned, aliases \in scene.aliases :
       settings' = [banned |-> banned, aliases |-> aliases]
  /\ UNCHANGED <<scene, creds, cache, tried, fails, published, disk, job, probeVars, moves>>

Restored(p) == p \in creds /\ disk[p].table # {} /\ disk[p].age <= MaxAge

\* The process starts again; restore_model_catalog reads what was saved.
Restart ==
  /\ May("restart") /\ moves < MaxMoves
  /\ LET tables == [p \in Channel |-> IF Restored(p) THEN disk[p].table ELSE {}] IN
     /\ cache' = tables
     /\ published' = IF \E p \in Channel : Restored(p)
                    THEN Published(tables, creds) ELSE Unpublished
  /\ tried' = [p \in Channel |-> IF Restored(p) THEN disk[p].age ELSE Never]
  /\ fails' = [p \in Channel |-> 0]
  /\ job' = [j \in Job |-> Idle]
  /\ round' = Resting /\ asked' = {}
  /\ moves' = moves + 1
  /\ UNCHANGED <<scene, creds, settings, disk, verdict, manual, refused, gone>>

CatalogInit ==
  /\ scene \in Scenes
  /\ creds = {p \in Channel : scene.offers[p] # {}}
  /\ settings = [banned |-> {}, aliases |-> <<>>]
  /\ cache = [p \in Channel |-> {}]
  /\ tried = [p \in Channel |-> Never]
  /\ fails = [p \in Channel |-> 0]
  /\ published = Unpublished
  /\ disk = [p \in Channel |-> [table |-> {}, age |-> Never]]
  /\ job = [j \in Job |-> Idle]
  /\ verdict = [k \in Known |-> "none"]
  /\ manual = {} /\ refused = {} /\ gone = {}
  /\ round = Resting /\ asked = {}
  /\ moves = 0

CatalogNext ==
  \/ LoopBegins \/ Serve
  \/ \E j \in Job : TakeLock(j) \/ Fetched(j) \/ Missed(j) \/ Walked(j)
  \/ RoundBegins \/ RoundEnds
  \/ \E k \in Known : \/ RoundAsks(k) \/ RoundHears(k) \/ AskNow(k) \/ HearNow(k)
                      \/ TakeOver(k) \/ Refuse(k) \/ Forget(k) \/ Change(k)
  \/ Tick \/ Configure \/ Restart
  \/ \E p \in Channel : Reconnect(p)

CatalogSpec == CatalogInit /\ [][CatalogNext]_catalogVars

\* The periodic task goes on and probes in rounds, a fetch ends one way or the
\* other, the lock is given in the order of the waiting.
FairCatalogSpec ==
  /\ CatalogSpec
  /\ WF_catalogVars(LoopBegins) /\ WF_catalogVars(Tick)
  /\ \A j \in Job : /\ SF_catalogVars(TakeLock(j)) /\ WF_catalogVars(Walked(j))
                    /\ WF_catalogVars(Fetched(j) \/ Missed(j))
  /\ WF_catalogVars(RoundBegins) /\ WF_catalogVars(RoundEnds)
  /\ WF_catalogVars(\E k \in Known : RoundAsks(k) \/ RoundHears(k))

----------------------------------------------------------------------------
(* Properties.                                                             *)

CatalogTypeOK ==
  /\ creds \subseteq Channel
  /\ \A p \in Channel :
       /\ cache[p] \in scene.offers[p] \cup {{}} /\ disk[p].table \in scene.offers[p] \cup {{}}
       /\ {tried[p], disk[p].age} \subseteq 0 .. Oldest \cup {Never}
       /\ fails[p] \in 0 .. MaxFails
       /\ published.shown[p] \subseteq Offered(p)
  /\ \A j \in Job : /\ job[j].at \in {"idle", "lock", "walk"}
                    /\ job[j].conn \subseteq Channel /\ job[j].todo \subseteq job[j].conn
  /\ \A k \in Known : verdict[k] \in {"none", "ok", "failed", "inconclusive"}
  /\ UNION {manual, refused, gone, asked, round.todo, round.marked} \subseteq Known
  /\ round.at \in {"idle", "walk"} /\ round.on \subseteq round.todo

\* Channel p knows another model by e.id: as its own id, or as the display name of
\* another entry of the list, which that may have from another channel.
CalledAlike(e, p, list) ==
  \/ \E m \in cache[p] : m.raw # e.model[p].raw /\ e.id = Plain(m.raw)
  \/ \E i \in DOMAIN list : LET f == list[i] IN
       f.id # e.id /\ p \in f.named /\ e.id = Plain(f.name)

\* Merging, fall-back names and the names of the operator together: no two
\* entries of the list have one id, and in each channel of an entry its id leads
\* to the model the entry shows there, unless the register gives that name to
\* another model of the channel (model_merge.py, _register_entry_alias).  The
\* types hold, too.
ListingSound ==
  /\ CatalogTypeOK
  /\ LET current == Listing(Published(cache, creds)) IN
     \A i \in 1 .. Len(current.list) : LET e == current.list[i] IN
       /\ \A j \in 1 .. i - 1 : current.list[j].id # e.id
       /\ \A p \in In(e) :
            current.register[p][e.id] = e.model[p].raw \/ CalledAlike(e, p, current.list)

\* However many jobs have queued for the lock: a channel is not asked before
\* its pause since the attempt before is over (_needs_refresh under the lock).
ChannelsSpared ==
  [][\A j \in Job :
       job[j].at = "walk" /\ job'[j].at = "walk" /\ job'[j].todo # job[j].todo
         => Due(Foremost(job[j].todo))]_catalogVars

\* A channel that has a credential is asked again and again, however often that
\* has failed before (the longest pause of _needs_refresh).
ChannelsAskedAgain ==
  \A p \in Channel : <>[](p \in creds) => []<>(tried[p] = 0)

OwnersListed ==
  LET register == Register(published) IN
  /\ \A p \in creds : \A m \in cache[p] :
       \/ {m.raw, m.key, m.label} \cap settings.banned # {}
       \/ /\ p \in Narrowed(Plain(m.raw), register)
          /\ Narrowed(Plain(m.raw), register) \subseteq creds
  /\ \A p \in Channel \ creds : DOMAIN register[p] = {}

\* The register the executor narrows requests with follows the credentials and
\* the tables: time and again every model of the channels with a credential, also
\* a hidden one, is sent to such channels alone, its own among them, and no
\* name is left of the channels without.
OwnersKnown == []<>OwnersListed

\* Once no upstream denies a model, nothing stays hidden: hiding has no end of
\* its own, so rounds have to ask for what is hidden, not just for what is
\* refused at the moment (model_probe.py, _targets).
HiddenComesBack ==
  <>[](gone = {} /\ manual = {} /\ {k[1] : k \in Known} \subseteq creds) => <>[](Hidden = {})

\* Nothing the catalogue loses is lost for good: a channel that fails is asked again,
\* the names of the channels are known again, what was hidden comes back
\* (models.py 291-300, model_probe.py 119-135).
CatalogHeals == ChannelsAskedAgain /\ OwnersKnown /\ HiddenComesBack
=============================================================================
