# Coding2API: models, checks and proofs

Coding2API is an asyncio gateway (FastAPI, SQLite) that serves an OpenAI,
Anthropic and Responses API from a pool of accounts ("credentials") of nine
upstream coding assistants. Its own logic is the pool: which account a request
uses, what an upstream error costs that account, when it comes back, and how
requests are admitted, counted and answered; around it run logins, background
tasks, statistics and settings. This directory models that logic in TLA+,
checks it with TLC on small instances and proves most of its safety properties
with TLAPS.

Run everything inside this directory:

    tlc -workers 2 -config pool_burst.cfg MCPool      # one run
    tlapm ChatEngineProofs.tla                        # one module of proofs

Paths in this file are relative to the repository; `engine/...`, `db/...` and
the like are below its `src/`.

## 1. The system

| component | state | operations | correct when |
|---|---|---|---|
| Scheduler (`engine/scheduler.py`) | none | `select`, `note_error`, `clamp_retry_at`, back-off, `should_rotate` | every cooldown has a floor and a ceiling, an error is charged to the level it concerns |
| Credential repository (`db/repo.py`) | tables `credentials`, `credential_model_cooldowns` | add, delete, enable, pin, revive, `merge_login_credential`, `save_error`, `save_success`, `cool_provider`, purges | `cooling_until` and `cooling_kind` agree, an upstream's instant of recovery survives, at most one pin |
| Executor (`engine/executor.py`) | local state of each request, probe marks, window of restricted accounts | `stream`, `complete`: pick, call, charge, rotate, queue, downgrade, wait, close | slots come back, one response has one author, one request counts once, every request ends |
| Half-open guard (`engine/half_open.py`) | scopes being probed and recovered, with TTLs | acquire, confirm, release, reset | one probe per cooldown scope |
| In-flight tracker (`engine/inflight.py`) | leases per credential, TTL 600 s | acquire, release, `blocked` | the limit holds, leases do not leak |
| Pacer (`tasks/pacer.py`) | start times, in-flight slots, wake-up event | `wait_turn`, `release` | spacing and limit hold, cancellation gives slots back |
| Key and user quota (`key_quota.py`, `api/endpoints.py`, `api/playground.py`) | sliding window and concurrency count per key and per user | admit, release, two layers combined | no admission over a limit, counts follow requests, no lock-out |
| Authentication (`auth/`, `api/deps.py`, `api/admin_users.py`, `api/activate.py`, `scripts/create_user.py`) | users, `users.txt`, sessions and their epochs, windows of failed logins, activation tokens | log in and out, change a password, edit and delete users and keys, activate, hand over at a start | rights taken away stay away, an admin remains, guesses are limited |
| Upstream logins (`provider/*/`, `api/credential_login.py`, `api/admin_credentials.py`) | pending logins of each channel, in memory | start, poll, paste, callback, cancel, save | a login lands once, in the row of its account |
| Providers (`provider/`) | tokens, upstream clients, sessions of a stream | stream, classify, refresh, probe quota | nothing of an answer is lost or doubled, an error is taken for what it is |
| Streams (`compat/`, `api/streaming.py`) | a translator per response, a buffer for leaked tool calls | translate, finish, fail, heartbeat | the client hears its protocol, and one attempt |
| Affinity (`engine/affinity.py`) | a bounded table from conversations to credentials, with times to live | `pin_for`, `remember`, evict | a conversation stays where it is, and meets no stranger's entry |
| Continuation (`engine/continuation.py`) | pieces, use and reason of the rounds of a stream | rounds until an answer is complete | nothing is repeated, the use adds up |
| Credential limits (`engine/limits.py`, `db/limits.py`) | caps per credential, a snapshot of caps and use | `_load`, `blocked`, edit | the verdict follows use, midnight and edits |
| Names and chains (`engine/model_resolver.py`, `executor.py` 432-552) | none: settings and the register of names | resolve, bind, chain, narrow | a named or bound channel is kept |
| Payload rewriting (`engine/compress.py`, `sticky_trim.py`, `tool_output.py`, `compat/*/request.py`, the clients' bodies) | the memory of past trims | translate, trim, squash tool outputs, lower efforts | calls and results stay paired, the last message is in, a prefix stays as it was |
| Model list (`api/models.py`, `api/model_merge.py`, `api/model_catalog.py`) | a table per channel with time and failures of the last fetch, the register of names, a snapshot on disk | fetch, merge, publish, restore, serve | a name leads to the model the list shows, channels are neither pestered nor forgotten, the register follows the credentials |
| Model probing (`tasks/model_probe.py`) | a verdict per channel and model | rounds, manual probes, take-over | a model that is back is shown again |
| Task runner (`tasks/runner.py`, `tasks/status.py`) | loops, running marks, failure streaks | first rounds, periodic and manual rounds | every task runs again and again, one round of a kind at a time |
| Token refresh (`tasks/refresh.py`, logins, account switches) | one edit lock per credential, the stored token | refresh, switch, login | one-time tokens are not lost, a hard disable is deserved |
| Check-in (`tasks/checkin.py`) | slots, seals, back-off, by day | due, round, manual round | each upstream account is signed, none while sealed |
| Growth centre (`tasks/growth.py`, `provider/codebuddy/growth*.py`) | the upstream's garden, credit events in the database | rounds, walks, the button of a credential | what is to be had is taken, what is booked was paid |
| Alerting (`tasks/alerting.py`) | alert rows, active alerts, streaks | evaluate, notify, recover | an alert follows its condition |
| Statistics books (`stats/collector.py`, `tasks/retention.py`, `scripts/`) | `usage_events`, hourly sums, prices | record, roll up, purge, scripts that delete, price anew and recompute | a request is counted once, for good |
| Statistics queries (`stats/query.py`, `stats/live.py`, `api/admin_stats.py`) | cursors, subscribers of the live stream | pages, lists, export, live | tables agree, a reader gets each attempt once |
| Runtime settings (`runtime_settings.py`, `api/admin_settings.py`) | rows, overrides, `.env` | check and write a batch, restart | what is stored is in force, bounds stay in order |
| Retention (`tasks/retention.py`) | none | purges expired cooldowns, statistics, audit rows | optional: nothing may depend on it |
| Shell (`main.py`, `webapp/`, `db/migrate.py`, `db/backup.py`, prices and benchmarks, `web/`) | files, logs | wiring and I/O | - |

How they interact: an endpoint knows its caller by key or session, admits the
request through the quota guards and hands it to the executor. The executor
resolves the name to a chain of models, reads candidates from the repository,
asks the scheduler, the limits, the in-flight guard and the half-open guard,
takes a lease, rewrites the payload for the channel, calls the provider, passes
its events on to the translator of the client's API, and writes what happened
back through the repository and the statistics. Operators, logins and
background tasks write to the same rows at any moment. Everything is one
process and one event loop: between two `await`s a handler is alone, and each
repository method is one SQLite transaction. The exceptions are the scripts,
which work on the same database from a process of their own.

What is hard in this code: handlers that interleave at every `await`, clients
that go away at any of them (also in cleanup code), verdicts computed from rows
that have changed since, two levels of cooldowns with shared counters, limits
checked in one place and charged in another, requests that were paid although
their answer was lost, and time-driven state (cooldowns, TTLs, windows, days).
`PROJECT.json` lists the hazards line by line with the property that covers
each.

## 2. Modules

| module | models | extends |
|---|---|---|
| `CooldownRules` | the cooldown algebra of the scheduler, as operators | - |
| `CredentialPool` | the pool's rows and every operation on them, time, the burst window | `CooldownRules` |
| `ChatEngine` | concurrent requests over the pool: the loops of the executor, leases, half-open probes | `CredentialPool` |
| `Pacer` | the concurrent mode of the pacer | - |
| `UpstreamCalls` | the in-flight tracker, and attempts that take a lease and a turn, end, are cancelled, lose their lease | `Pacer` |
| `Turnstile` | what a pacer promises its callers (abstract) | - |
| `Accounts` | users, sessions, the throttle, keys, activation, the command line tool | - |
| `KeyQuota` | two layers of admission | - |
| `UpstreamLogins` | pending logins of each channel and the handlers that complete them | - |
| `FrontDoor` | these three side by side | `Accounts`, `KeyQuota`, `UpstreamLogins` |
| `ErrorClasses` | what an upstream's answer is taken for, as operators | - |
| `UpstreamStreams` | the stream of each channel through its client | `ErrorClasses` |
| `ReplyStream` | one streamed response: the three translators, the filter for leaked tool calls, executor, keepalive, client | - |
| `EventProtocol` | what the client of each API may hear (abstract) | - |
| `Conversations` | the two ends of an answer | `UpstreamStreams`, `ReplyStream` |
| `TurnRules` | affinity, limits, chains, the rounds of a stream, as operators | - |
| `ChatTurns` | turns of conversations: what the executor does around its loop | `TurnRules` |
| `RequestShaping` | the body an attempt asks its upstream with | - |
| `StatsPages` | what is read of the books: pages, lists, the live stream | `UsageBooks` |
| `RequestLife` | a request: its turns, its bodies, what is read of its attempts | `ChatTurns`, `RequestShaping`, `StatsPages` |
| `TaskRunner` | first rounds, loops, manual rounds, streaks | - |
| `CredentialRefresh` | the refresh task, switches and logins under the edit lock | - |
| `Checkin` | slots, seals, back-off and the walk of a round | - |
| `Growth` | the walks of the growth centre | `Checkin` |
| `Alerting` | `_dispatch` over the alert rows | - |
| `UsageBooks` | events, hourly rows, roll-up, purge and scripts | - |
| `LiveSettings` | settings that change while the process runs | - |
| `BackgroundTasks` | the runner with the rounds of these tasks, restarts | the seven above |
| `ModelMerge` | how tables become one list with a register of names, as operators | - |
| `ModelCatalog` | cache, snapshot, fetches behind their lock, register, probing | `ModelMerge` |
| `MCPool`, `MCEngine`, `MCCalls`, `MCDoor`, `MCConversations`, `MCTasks`, `MCCatalog`, `MCTurns` | small instances | |
| `ChatEngineProofs`, `FrontDoorProofs`, `ModelCatalogProofs` | the theorems of section 4 | the module of that name |
| `ExchangeProofs` | the theorems on calls and answers | `UpstreamCalls`, `Conversations` |
| `UsageBooksProofs` | the lemmas on sums and on the books | `UsageBooks` |
| `BackgroundTasksProofs`, `RequestLifeProofs` | the theorems of section 4 | the module of that name, `UsageBooksProofs` |
| `FoldProofs` | what a fold over a sequence computes, for any step | - |

Operators described as "a wrong X" or "slip" are variants of an operator with a
likely slip. No action uses them; they serve to show that a property notices
the slip.

### CooldownRules and CredentialPool

`row[c]` holds the scheduling columns of a credential (`disabled`, `enabled`,
`pinned`, `cooling_until` as `left`, `cooling_kind` as `kind`, `err_count` as
`err`); `entry[<<c, m>>]` is its row of `credential_model_cooldowns` for model
`m`, with `hits = 0` for no row; `window[p]` is `_restricted_hits`; `life[c]`
says whether the row exists. Instants are kept relative to now, so that time is
the action `Tick`, which lowers every running cooldown by one. `-1` is SQL
NULL and `0` an instant that is past but not purged: the half-open gate tells
the two apart.

| action | code |
|---|---|
| `Add`, `Delete`, `SetEnabled`, `SetPinned`, `ClearPin`, `Revive`, `MergeLogin`, `MarkReloginRequired` | the repository method of the same name |
| `NoteError` | `_note_upstream_error` with `note_error`, `save_error` and, for a restricted account, `_pause_provider_on_burst` and `cool_provider`; the four disjuncts are the four ways it can go |
| `NoteSuccess` | `save_success` |
| `ClearBlocked`, `PurgeModelCooldowns`, `PurgeAccountCooldowns` | the probe task and the retention task |

An error is one action: between the reading of the candidate and the last
write, `_note_upstream_error` does not await. An error may arrive for a
credential that was deleted while it was being called; the executor then judges
a fresh placeholder, and so does the model.

Abstracted: names, tokens and quota columns, disabled reasons. Requests always
name a model (the code degrades a model error without a name to an account
cooldown; no caller in the executor leaves it out). Counters saturate at
`CountCap`; `CountCapSaturates` assumes that every duration is constant from
there on, so nothing is lost.

### ChatEngine

One record `req[r]` per handler holds the locals of `_stream_loop` /
`_complete_model` that steer it: `tried`, `attempts`, `rounds` (queue rounds),
`downgraded`, `rejected` (last kind is a rejection), `attributed`, `emitted`.
`pc` is the await it is at:

| pc | the code is at |
|---|---|
| `ready` | `_pick` |
| `asleep` | the sleep of `_wait_short_cooldown` |
| `open` | waiting for the upstream |
| `checking` | the fresh quota probe behind a DEAD verdict |
| `closing` | the awaits in the `finally` block |
| `queued` | the wait of a queue round (or at the top of the loop after a downgrade) |
| `parting` | yielding the error frame |
| `done` | through |

`running` names a handler that must go on without awaiting (release, then next
choice): nothing else may interleave there, as in asyncio. `leases` is
`InflightTracker`, `probing` and `recovered` the half-open guard, `marks` the
executor's `_probe_leases`, a stack per credential. `rows` counts what the
request wrote to the statistics; `own`, `opened` and `failures` are history.

Abstracted: which of several equally eligible credentials is chosen (any); the
quota numbers behind a DEAD verdict (it ends as DEAD or CREDIT); sticky
affinity (a preference); payloads. One request is one link of a fallback chain.
No attempt outlives the 600 s TTLs of leases and probes: `Expire` only collects
what a cancelled handler left behind (`UpstreamCalls` has the ages). Requests of `complete` never emit before
they have the whole answer; that is the only difference between them and
streams here besides the paths of a downgrade.

### Pacer, UpstreamCalls and Turnstile

`leases[c]` is the list of `InflightTracker`, an age for each lease; `slots`,
`begun` and `starts` are `_inflight`, `_bucket_started` and `_starts` of the
pacer, again as ages (`begun` is negative for a start still to come);
`turn[r]` says where in `wait_turn` a caller stands. A section under the
pacer's lock has no await, so it is one action; the event `_wake`, cleared in
such a section, sends every waiting caller back to the loop when a slot is
given back (`Woken`). `UpstreamCalls` composes both as the executor does:
`Choose` takes the lease of an attempt, `Move` is a step of `wait_turn` or
`paced`, `Close` gives the lease back, `Skip` is the cancellation that skips
the release, `Cancel` a cancellation within `wait_turn`. The limit of the tracker
is any of `Limits` at each choice, as it is read afresh there; the settings of the
pacer change at any time.

`Turnstile` is the abstract specification: callers enter a bucket that is not
full and leave when they will. `ActsAsTurnstile` is the refinement: `inside` is
the set of callers whose turn is reserved or granted, `places` the limit in
force.

Not modelled: the strict mode (background tasks; one lock held over the sleep,
so nothing interleaves). `SwitchOnBusy = FALSE` leaves out that pacing is
switched off or on altogether while calls run: a caller that passed while it
was off gives back a slot it never took, and the limit of the next is off by
one until the bucket drains.

### Accounts, KeyQuota, UpstreamLogins and FrontDoor

`account[u]` is the row of a user, and whether `users.txt` has him is the
constant `InFile`; `jar[b]` is the cookie of a browser, `hashing[b]` the handler
that awaits its hash (a log-in or a change of password: nothing else in `auth/`
awaits), `fails` the windows of `LoginThrottle`, `cli` what the command line
tool has seen before it writes, from a process of its own. A cookie carries
`lapsed`, history: why it ought to be dead. Operators count as viewers, for
nothing here asks for them; instants are ages.

In `KeyQuota`, `events` and `inflight` are the maps of `KeyQuotaGuard` for keys
and users together; a request passes the layer of its key (none in the
playground) and then its user's. `Admit` is both layers letting it pass,
`RefuseByUser` the first letting it pass and the second not (a refusal by the
first changes nothing). An exception in the daily query admits a request
uncounted (`Faults`). `held[q]` remembers which layers counted it, as the
leases do. The aggregate of a day is reduced to whether it has reached its
limit, which the rows written for running requests (`Record`), midnight and a
new quota change. Quotas change at any time.

`login[l]` is a pending login in the store of its channel, `serving[h]` a
handler that completes one. What a channel awaits is a path of questions
(`Path`): a token and an account (CodeBuddy), a token and a user (Qoder), a
code, its exchange and the account (Office ACE), a ticket once the secret of the
first callback is noted, or a pasted link (CodeArts), one exchange after a
callback (TRAE). At each question, and at the locks of saving, every other
handler may run. A completed login of Office ACE or CodeArts that knows who it
is adds a row or merges into the row that shares an alias of its account
(`FindRow`, `MergeRow`), which an administrator may edit or delete meanwhile.

`FrontDoor` joins them by scenes, for the product of all is too large and they
share no state but the rows of users: guesses against the throttle (`guess`),
administrators and sessions (`govern`), the command line tool and restarts
(`shell`), requests with their quotas, sessions and restarts (`quota`), and the
logins to each channel.

### ErrorClasses, UpstreamStreams and Conversations

`ErrorClasses` has `classify_status` and `classify_error_code` of each channel,
in the order of their rules, `_classify` of the executor, and the hints that
say when to come back. A body is the set of signs (markers, codes) found in it:
the first rule that applies decides, so that it matters which signs meet.

In `UpstreamStreams` one answer goes through the client of its channel: refused
with a status (`TurnedDown`), or a stream whose frames (`said`) become `events`
(`Speaks`, `Murmurs`, `Done`), with an error inside (`Troubled`), garbage, a
break, its end, or silence up to the idle timeout (`TimesOut`). Only the latest
frame is kept, and of the earlier ones what later frames refer to (calls begun,
text shown, the reason). Qoder tries the hosts of its realm in turn, CodeArts
sessions may be full and repeat the whole text each time. What the executor has
heard (`told`) is compared with what was said: `HeardAsSaid`, and `BlameFits` says
that an answer costs the account what its cause deserves.

`Conversations` composes this with `ReplyStream`: the two ends of an answer.
They meet in the executor alone, which reads one event at a time and hands it
on, so a behaviour follows one of them.

### ReplyStream and EventProtocol

One response: events of the upstream (`UpstreamSends`, `UpstreamEnds`,
`UpstreamBreaks`), the translator's state `tr` and the frames it returned
(`queue`), the executor's generator, suspended at a yield or running, the task
`with_keepalive` keeps for the next frame (`fetch`, `handed`), and the client's
parser (`client`). A piece of text is its attempt, its number there and what
rests of it around a leaked tool call, so that one sees what is heard twice or
with another attempt's.

The chat filter (`DsmlStreamFilter`) is modelled by what a piece of text makes of
the text held so far, `held`: no leaked call begins, or the piece goes on within
one (`plain`); one begins (`open`); what is held is taken for no beginning after
all (`broken`); a call is whole and nothing stays open (`call`), or the outer tag
or the beginning of another call does (`within`). `Around` is what `extract`
leaves when whole calls are cut out, of each piece nothing, a tag or text: the
filter sends it at the call and keeps it, so that it goes out again with the next
event that lets text out, or with the flush.

`EventProtocol` is the abstract specification, written from what a parser of
each API needs; `SpeaksProtocol` is the refinement, with the client's view as
the mapping. Left out in the passing run, because the code does not keep the
protocol there: fragments of several tool calls that alternate on the Messages
API (`Interleaved`), text held back across a rotation (`RotateHeld`, run
`stream_splice`). That what lies around a leaked call is heard again is modelled,
and `OneAnswer` allows just that.

### TurnRules and ChatTurns

`ChatEngine` has the loop of the executor for one model in detail; `ChatTurns`
has what is around it: which credential a turn prefers (`table`, the entries of
the affinity table in the order of their last use), which its caps leave
(`limits`, `used`, `snapshot`), by way of which models and channels (`register`,
the groups and names of a setting), and how a stream of several rounds counts
(`source` in the record `turn[v]`). The operators of all four are in
`TurnRules`.

| action | code |
|---|---|
| `Opens` | `stream`, `complete` up to the first choice: `resolve_target`, `_fallback_chain`, `pin_for`, `_pick` |
| `Says`, `RoundOver`, `BreaksOff` | an event of the upstream through `ContinuationStream`; the end of a round, followed by another one, by success (`save_success`, `_remember`, `_record_success`), or by the error a plain turn has collected; a stream that ends without having ended |
| `Fails`, `Collects` | an error that ends the attempt at once, and an error event in a plain turn, found by `aggregate` |
| `GoesOn` | after the `finally` block: the next credential, the next link of the chain, or the closing row |
| `Leaves` | `GeneratorExit` or cancellation in `stream`, cancellation in `complete` |
| `Cools`, `OperatorPins`, `Probed`, `SetLimits`, `RegisterArrives`, `Midnight`, `TimeGoesOn` | everybody else |

A setting says who talks and what may happen: conversations with an identifier
and by messages (`Talk`), two users with one identifier (`Namesakes`), pins
(`Pinned`), chains under names, bindings and register (`Links`), rounds with
withheld thoughts (`Unending`), caps (`Limited`).

Abstracted: cooldowns to `up`, whether an account may be chosen (a charge takes
it out, `Cools` takes it out and in); waiting for short cooldowns, queue rounds
and downgrades, which `ChatEngine` has; the ranking of equals; a rejection is
that of the last error (`ChatEngine` has the kind last assigned). Digests are
injective; a turn adds one message; two conversations of one user with the same
messages and no identifier are one conversation. `daily_credits` works like
`daily_tokens`. A day's use saturates at `MaxUse`, which no cap exceeds. The
dialect is chat, where each link has a translator of its own.

### RequestShaping

With every request a client says its whole `history` again, in one of three
APIs. `Asks` translates it (`Translated`), and each attempt (`Tries`) starts
from that: tool outputs squashed, trimmed to the window of the channel by the
sticky trimmer with its `memory` or by the plain one (`Compressed`), the effort
mapped and clamped, and the body made as the client of the channel makes it
(`BodyFor`). An attempt that is refused goes on at another channel or a lower
effort. Clients take rounds back or change them, settings change between
attempts. A text is a name and a weight: what weighs `Long` can be cut to
`Cut`, a tool call weighs one token. A case says who talks, in which API and on
which channels, and how the talk begins (`LongTalk` for each API, `Dirty`,
`Parallel`, `Alike`, `Edited`, `Wishful`, `Thinking`).

`AsksWhole` is what must hold of every body (calls beside their results, nothing
dropped while there is room, the last message in, what is sent fits, no effort
asked for that was refused), `PrefixKept` that a longer history keeps what the
upstream may have in its cache.

### UsageBooks and StatsPages

`usage` and `hourly` are the two tables. `RecordAny` writes a row and bumps its
hour in one transaction; `RollUp` recomputes the hours of the window from the
events, `Purge` deletes old events, both steps of a round of retention; the
scripts delete failures in three transactions (`SweepBegins`, `SweepDeletes`,
`SweepOrphans`), price anew (`Reprice`) and recompute all (`RecomputeAll`), and
may die between two (`ScriptDies`). `recorded`, `written` and `blurred` are
history: what was really recorded, and the hours a disturbed script has left
wrong. One count of tokens and one sum stand for all of them. The books move in
two modules: with the rounds of retention in `BackgroundTasks`, with those who
read in `RequestLife`.

`StatsPages` has the pages as operators over the two tables (`Overview`,
`Billing`, `Timeline`, `Errors`, the windows of alerting and the rest) and two
readers with a state: `reader` turns the pages of the list by cursor while rows
are written and deleted (`OpensList`, `TurnsPage`), `feed[w]` is a subscriber of
the live stream with its queue, awake or not (`Subscribes`, `Starts`, `Drains`,
`Sends`, `Wakes`, `HangsUp`). A page of the reader is a set, the largest row
numbers below its cursor (`FirstPage`); that it is also the beginning of the
list in each of its orders is a part of `TablesAgree` (`ListsAgree`). The other
part (`PagesAgree`) compares pages computed from hours with those computed from
events, for queries over whole hours that are settled and not yet purged
(`Trusted`). `FeedsExact` says that a reader sees what was there when it began
and still is, nothing twice (`ListExact`), and a watcher all it asked for in
order but the oldest that were dropped for room (`StreamExact`).

### RequestLife

`RequestLife` composes the three: a behaviour follows turns (`turn`), bodies
(`ask`), pages (`tables`), a list (`list`) or live streams (`live`). They share
no variable: the executor hands a body on and forgets it, and a row when it is
written. `RequestsTakeTurns` (section 4) is the proof that theorems about turns
hold of the composition.

### TaskRunner, BackgroundTasks and the tasks

`rounds` are the rounds in progress, by task and by who runs them: `start()`,
the loop or the administration page. `running` is `_running`; the rounds of
`start()` do not mark their task. `End` takes the verdict of a round and
records it in `streak`. `BackgroundTasks` joins to each round the work of its
task: a round `Opens`, `Goes` on step by step and `Leaves` with a verdict.
`Restart` ends the process at any step: what is in memory is gone, the database
stays.

| module | state | steps |
|---|---|---|
| `CredentialRefresh` | stored and accepted tokens, the queue of each edit lock, what each writer is at | `Decide`, `AskLock`, `Locked` (reads again), `Refreshed` / `Refused` / `Unanswered`; `Switch...`, `Login...`, `Administer` |
| `Checkin` | time of the day, slots, seals and back-off by day, the walk of each round | `Due`, `Skip`, `Defer`, `Attempt`, `Call`, `Signed`, `NotSigned`, `Midnight` |
| `Growth` | the garden of each upstream account, what it has paid and no row says, what each walk is at | `TakesUp`, `PassesBy`, `Asks`, `AsksInVain`, `Does`, `Books`; `Grows`, `Presses` |
| `Alerting` | rows with ages, active alerts, streaks | `Hit`, `Deliver`, `TurnToMisses`, `Miss`; `CloseRow`, `Prune` |
| `UsageBooks` | see above | see above |
| `LiveSettings` | `.env`, rows, overrides, the batch that is being written | `SetMany`, `WriteOne`, `SettingsStart` |

An upstream exchanges a refresh token once; an unanswered request may have
exchanged it all the same. Of alerting the rule `task_failing` is followed,
whose condition the runner produces; the other rules differ by their condition
alone. Tasks that share no state are followed apart: a behaviour follows the
refresh task, the check-in, the quota probe with alerting, retention, the
growth centre, or no task but the settings (the domain of `FirstRounds`, which
also says what `start()` runs first).

A walk of `Growth` goes through the sections of the centre for one account;
each asks what there is and does each deed once. Queries up to one that finds
something are one step, for asking changes nothing. A deed may be answered,
refused, unanswered though done, paid without its amount, or answered "done
before"; what it gained is booked in the database at the end of the walk. Three
walks may overlap at one account: the loop's, the page's and the button's of a
credential, which the runner does not guard. Every amount is one; accounts are
not paused while growth is followed.

`LiveSettings` checks a batch as a whole (`Fits`) and writes row after row, each
a transaction of its own after which all rows are read again (`Reloaded`); the
process may end between two, and come back with another `.env`. The pair of the
pacer's bounds is the one rule between two settings. Floors of the intervals are
left out.

### ModelMerge and ModelCatalog

`ModelMerge` follows `_merge_provider`, `_finalize`, `_disambiguate`,
`_register_aliases` and `_apply_custom_aliases` one by one (`Merged`,
`Finalized`, `Settled`, `RegisterOf`, `Customised`; `Build` is
`_build_aliases`). Names are numbers in their alphabetical order; what
normalising makes of an id or a display name is part of the model, as `key` and
`label`. A key of one channel sorts before the keys of names, and the order of
the channels is one and the same wherever the code ranks or walks them.
Prices, limits and other metadata are left out.

`ModelCatalog` holds `cache`, `tried` and `fails` of each channel
(`model_list_cache`, `model_list_fetched_at` as the time since,
`model_list_failures`), `disk` (the snapshot) and `published`: instead of the
register itself, what it was last built from; `Register` builds it. The jobs
`loop` (periodic task and warm-up), `request` (one that found a channel without
a table and waits) and `back` (the refresh behind a request that did not) queue
for `_refresh_lock` with the channels connected at that time (`Queued`), walk
over those that are due and publish after each (`Fetched`, `Missed`). `verdict`
and `manual` are columns of `model_probes`, `refused` the pairs with a blocked
entry, `round` and `asked` the periodic and the manual probe in progress.

Fetching, merging, probing and restarting share little state, so each behaviour
is one of several scenes that say what the channels may offer and what may
happen. At most one waiting request is followed at a time: others queue behind
it for the same lock and find the same state. Pausing the periodic task, and
the allow-lists of keys and users, are left out.

## 3. What the runs show

Deadlock is checked where the system never stops (`pool_burst`,
`pool_recovery`, `tasks`). Elsewhere a behaviour may rightly come to an end:
every request, reply, login or reading is over, or a bound is reached. The
first conjunct of `PoolSound`, `SlotsComeBack`, `SlotsAreHeld`,
`SlotsFollowRequests`, `AccountsGuarded`, `OneAnswer` (a part of
`AnswersWhole`), `HardDisableDeserved` and `ListingSound` is the type invariant
of its module. Some properties are
conjunctions of named parts that one instance checks together: `PoolSound`,
`RestartsLoseNothing` (`OpenAlertsWatched`, `BooksComplete`, `OnlyPaidIsBooked`,
`SettingsAgree`), `EveryAccountServed`, `CatalogHeals`, `AnswersWhole`
(`HeardAsSaid` of the upstream's stream, `OneAnswer` of the client's), `ServedAsAsked` (`KeepsToItsLane`, `RoundsAddUp`),
`AsksWhole`, `TablesAgree` (`PagesAgree`, `ListsAgree`), `FeedsExact`
(`ListExact`, `StreamExact`).

| run | instance | properties |
|---|---|---|
| `pool_burst` | 2 accounts of one provider, 1 model, 3 error kinds, a burst of 2, symmetric accounts | `PoolSound`, `RecoveryInstantKept`, `ErrorsStayHome`, `BurstPausesProvider` |
| `pool_recovery` | 1 account, every error kind, fair time | `PoolRecovers` |
| `engine_rotation` | a stream and a plain request, 2 credentials of 2 providers, limit 1, 2 rotations | `SlotsComeBack`, `CountedOnce`, `OneVoice`, `RequestsEnd` |
| `engine_queue` | a stream and a plain request, 2 credentials of one provider, a queue round, impatient clients | `RotationBudget`, `SlotsDrain` |
| `door` | 2 names, 2 browsers, 2 clients of one user, 2 logins to each of 5 channels | `ThrottleHolds`, `SlotsFollowRequests`, `LoginsLandOnce`, `AccountsGuarded`, `AdmissionsWithinQuota`, `NeverLockedOut` |
| `calls` | 3 attempts on 2 accounts, a bucket each, TTL 1, limits none and 2, three pacings | `SlotsAreHeld`, `ActsAsTurnstile`, `TurnsCome` |
| `conversations` | 8 channels with the answers their sources document; each API, 2 attempts, 2 models, 2 tool calls | `AnswersWhole`, `SpeaksProtocol`, `StreamsClose`, `BlameFits` |
| `tasks` | 1 credential in refresh with a switch or login beside it; 2 credentials of one account in check-in and growth; 1 watched task; books of 4 hours; 2 settings; 1 restart | `HardDisableDeserved`, `NothingOverwritten`, `SealsHold`, `EveryAccountServed`, `AlertsFollowTasks`, `RestartsLoseNothing` |
| `catalog` | 2 channels, 5 pairs of tables with names in common, the operator's aliases and blocklist; fetches that fail; a snapshot, restarts and a channel that comes and goes; a model that comes and goes under probes | `ListingSound`, `ChannelsSpared`, `CatalogHeals` |
| `turns` | 3 accounts of 2 channels, 2 conversations, a table of 2 entries that live 2 ticks, 2 rotations, chains of up to 3 models, up to 2 more rounds, caps of 1 and 2; histories in 3 APIs; books, lists and live streams | `ServedAsAsked`, `LimitsFollowUse`, `AsksWhole`, `TablesAgree`, `FeedsExact`, `StaysHome`, `PrefixKept` |

Each property is stated in words above its definition.

**Bounds, and why they are enough.** Two accounts are a burst and also the
fewest that a pause can reach; the third party of every race (operator, login,
purge, time) is an action, not an account. Durations are small but keep their
order: a constant shorter and one longer than the day, so that both bounds of
`clamp_retry_at` bite; the pause is longer than the soft cooldown and shorter
than the longest restriction, so that it both replaces and spares. Retry-After
is absent, between, or beyond. Two requests suffice for a limit of one, for
competing choices and for shared marks. Two
rotations allow a failure of each provider. `pool_recovery` has every error
kind on one account, for its properties speak of one account.

`engine_rotation` and `engine_queue` split the features (rejection and
downgrade against queueing and restriction; patient clients with a concurrency
limit against impatient clients without one), since their product is too large.
The impatient clients are kept out of `engine_rotation`, and the queue rounds
too, because `SlotsComeBack` and `CountedOnce` do not hold
there: see the divergences below.

`door`: two names, one of them in `users.txt` and in `ADMIN_USERNAMES`, so that
one administrator can be the last; two browsers at two addresses, so that a
window of an address and one of a name fill differently; limits of one to three
and sessions that live one tick; two clients of one user, one of them with a
key, so that a request passes one layer or two. Two logins of a channel
displace, expire and complete beside each other; Office ACE has a third, so
that a row may be deleted under a merge. `calls`: three attempts are one more
than the limit, so that one waits while two run, and two want one account while
the third takes either, so that they share the accounts in every way up to names
and a slot of one bucket is given back while a caller waits for the other
(callers that wait for two buckets at once would need a fourth attempt); a TTL of
one tick makes leases run out under running attempts. The window is as long as two starts, so that it
is full, slides and is pruned; one lease may be lost. `conversations`: three
frames at two positions are the shortest stream in which two tool calls
interleave; two hosts, and a patience of one tick. Only documented answers
occur, in every order of their signs. Four events are the shortest reply with a
call that leaks, is held and is recovered, or with two blocks that alternate.

`tasks`: three tokens allow a refresh, a concurrent login and a refresh that
overlaps both; a day of two moments has a slot, its jitter, a seal that ends
within the day and one that ends with it; a streak of two is the threshold of
the rule; the books run over four hours, beyond window and retention; growth
has one account with two credentials, one kind of season at a time, one item of
a kind, one payment that is not heard of and one use of the button; settings
are the pair of bounds, a legal and an illegal value of each and a key of
another version. `catalog`: a pause of one tick that doubles once and is capped
there; snapshots that expire after one tick; two moves allow a channel to leave
and return, or to leave before a restart. The tables cover a name shared within
a channel with and without an id of that name, models without a name and with a
name that is not one, a raw id equal to another channel's name, a model that
finds every other name taken and is numbered, and aliases that are refused,
pinned and free. `turns`: a table of two entries is full with the
second prefix of one conversation, so that it evicts itself and others; entries
and snapshots that live two ticks are young, old and past; groups with a forced
member, one of an unknown channel and one that no channel lists; two more rounds
are the first that carries the pieces of another one. Bodies: weights of one to
three against windows that hold some of the messages, a memory of one
conversation, two attempts. Pages: two events of four kinds in hours of two
ticks, two prices, a script, three queries; lists and live streams: four
attempts of two kinds, pages and buffers of two.

**Fairness.** `FairSpec` of the pool assumes only that time passes.
`EngineFairSpec` assumes weak fairness of each request's own steps (the event
loop runs every ready handler; the first-event, idle and overall timeouts end
every attempt, so `open` and `checking` are left), of time, and of the TTLs.
Clients, operators and tasks are not fair. Timeouts can be configured off; the
liveness properties hold for configurations that have them. `FairDoorSpec`
assumes that a known client keeps asking, that admitted requests end, and
that windows slide and days pass; of administrators, sessions and restarts
nothing. `FairCallsSpec` assumes the loop runs every caller
that can go on, that calls end and that time passes; nobody need cancel or
change settings. `FairConversationsSpec`: an upstream's silence lasts until it
times out; a reply goes on, that is the upstream sends, ends or times out, the
client reads or leaves, a generator nobody holds is collected. In
`TasksFairness` rounds begin, go on and end, loops wake, writers and clocks
run; an upstream called again
and again does not refuse a check-in each time (strong fairness of `SignedAt`),
nor a walk of the growth centre (`FindsAt`, `TakesAt`);
minutes pass between rounds of alerting, infinitely often (strong fairness of
`RowsAge`, for a round is over within a minute). `FairCatalogSpec`: the periodic
task and the probing rounds go on, a fetch ends either way, the lock is given in
the order of waiting (asyncio's lock is a queue, hence strong fairness of
`TakeLock`), time passes. Operators, logins and restarts are not fair, and in
the catalogue neither are credentials and upstreams: the properties ask what
happens once they are left alone. The run `turns` has safety properties only.

### Where code and documentation part

Two runs expect a violation: the property states what a comment or document
says, and TLC finds the execution of the code that does otherwise. Details and
quotations are in `PROJECT.json`, "findings".

| run | said | done |
|---|---|---|
| `engine_reject` | 400 only when all upstreams reject (`executor.py:817`) | the kind last assigned decides, and an error event of a stream does not assign it |
| `stream_splice` | never two credentials' contents in one answer (`executor.py:675`) | text held back as a possible tool call survives the rotation |

Other divergences met while modelling. The models follow the code; no property
claims what the documents say here.

- `model_merge.py:36`, a request is always mapped back to the channel's own id,
  and ids do not overwrite each other (309): `_register_entry_alias` lets the
  display name of one model take the id of another when it is registered later,
  so that the id in the list leads to the wrong model. The display name that is
  registered is the shortest that any channel has for the entry, so it may come
  from a channel that does not have the other model. `ListingSound` excepts the
  names of a channel that are another model's raw id there, or the display name
  of another entry in which the channel has a part.
- `TECHNICAL.md:611`, truncated streams are recorded as such: with automatic
  continuation on, which is the default, `ContinuationStream` ends every stream
  with a FINISH of its own (`continuation.py` 117-122), so none ever is.
- `TECHNICAL.md:191`, the stream ends with the reason of its last round: a round
  that ends without one keeps that of the round before. If that was `length` it
  is continued again, up to the bound, also after an error event that a plain
  turn has only collected.
- `affinity.py:196`, one entry per conversation: a look-up refreshes each prefix
  it finds, so a conversation known by its messages keeps an entry for each turn.
- `executor.py:967`, the use of a broken stream is not lost: `translator.usage`
  is kept from one credential to the next, so a later attempt's row carries it;
  and a rejection after output writes no use at all.
- Per-model caps compare the name as the client spelled it (`limits.py:167`),
  while chains and the register ignore case.
- `inflight.py:78` says leases are released first in, first out: the newest is
  popped, and the old one that is left expires under a younger attempt, so that
  the limit admits one more (`README.md:776`).
- `pacer.py:14`, only what is missing to the interval is waited for: the planned
  start of a caller cancelled in its sleep stays, and the next sleeps longer.
- `half_open.py:42` says one probe per cooldown scope. Release and confirmation
  take the latest mark of the credential, whoever made it, so overlapping
  requests open the gate for each other.
- `README.md:776` again: a request coming back from a queue round leases its
  credential without looking at the limit (`executor.py:702`).
- `executor.py:600`, three changes at most: a queue round refunds an attempt
  that the reopening does not charge. `RotationBudget` is the bound that holds.
- `executor.py:760`, the `finally` block releases on every path: a cancellation
  at its awaits skips the release. `SlotsDrain` shows that the TTL heals it.
- `executor.py:672`, a request does not count twice: it does when the client
  leaves while the error frame of a broken stream is sent.
- `endpoints.py:161`, counted only if both layers pass: the window of the key
  keeps a request its user's quota refused.
- `dsml.py:211`: all that is left around a recovered tool call, text in front of
  it and behind it and an outer tag that is still open, is sent at the call and
  kept in the buffer, and so sent again with the next text, the next call or the
  flush: the client hears it twice or more often (`Around` in `Feed`). A call
  streamed in small pieces is not recognised at its end, once the closing tag of
  a parameter has come, and leaks as text (split `broken`).
- `compat/openai/response.py`: usage that arrives after FINISH never reaches
  the client, for the closing frames are out.
- `compat/anthropic/response.py`: fragments of a tool call that is not the one
  opened last are sent for a block that is closed already.
- `refresh.py:72`: whether a token needs refreshing is decided before the lock
  and not again under it: a token somebody else just renewed is renewed again.
- `checkin.py`, `due()`: without jitter a slot is one minute, which a loop that
  sleeps 60 s plus its round can miss.
- `TECHNICAL.md:784`, one alert per silence window: an alert that was resolved
  within the window fires again, for the window is asked only for active ones.
  After a restart all streaks are zero, so an alert about a failing task is
  resolved without a successful round.
- `collector.py:390`, only hours that are past as a whole are deleted, events
  stay up to an hour longer: the cut is rounded up, so the hour at the boundary
  is deleted up to an hour early. (`BooksComplete` holds all the same: hours are
  deleted whole.)
- `repo.py:1618`, only a successful probe brings a hidden model back: an
  inconclusive one (quota, rate limit, silence) replaces the verdict and does so
  too, and takes the model off the list of those to be probed again.
- `models.py:305`, the snapshot carries its freshness: `save_catalog` writes the
  time of the writing for every table, whenever that table was fetched, so one
  that has failed for long is restored as fresh while another is fetched.
- `models.py:133`, without a register requests go to every channel: blocklisted
  models lose their names and have that effect; and a refresh publishes with the
  channels connected before it waited, so that a channel connected meanwhile is
  missing until the next publication (`OwnersKnown` says that it comes).
- `model_probe.py:80`: the marks of the operator are read when a round begins; a
  take-over during the round is noticed in the next.
- `executor.py:600` again: the start over on a lower effort is one attempt more
  where the credential was deleted meanwhile (911-918, 694-712).
- `endpoints.py` and `stats/live.py`: a subscriber whose client is gone before
  the body of the response starts keeps its place among the few there are.
- `codebuddy/client.py:176`, only the copy is changed, and `executor.py:1042`,
  nothing is changed in place: the descriptions of tools are, in the request's
  own list.
- `compress.py:16`, what the system says is kept: messages of the role
  `developer` count as body and are trimmed.
- `sticky_trim.py` 16-21, the same start is kept from round to round: after a
  trim that also cut texts, the next round uses the start with the texts uncut;
  after messages were taken back it may keep fewer than `min_keep`. The seed of
  a CodeBuddy conversation (`client.py` 255-283) changes with a trim.
- Parallel calls of the Responses API are items of their own, so that a trim can
  leave the result of a call that was cut. The effort lowered for one channel
  may be raised by the map of the next (`executor.py` 1113). `AsksWhole` and
  `PrefixKept` except what these do.
- `TECHNICAL.md:129`, nothing is opened again once frames are out: Qoder's client
  goes to the next host in the middle of a stream too (`qoder/client.py`
  306-312), which begins the answer again.
- `openai_chunk` (136-137) drops the text beside a tool call. CodeArts does not
  filter calls without a name, and ends with a second FINISH at `[DONE]`.
- CodeArts' `APIG.0602` is SOFT as a status and OTHER in a stream, `APIG.0301`
  with 400 INVALID. Raccoon's HTTP answers ignore the markers of credit its
  docstring lists; errors inside CodeBuddy's streams are passed over.
- `base.py:334`, a queue's wait is looked for in the deeper layers: seconds in a
  layer that does not say itself that the request is queued are not found.
- `throttle.py:88`: failures beyond a full window of a name are not counted.
  Log-in and change of password judge the row they read before the hash.
- The command line tool looks and deletes in two steps of another process, so
  that beside a demotion it can leave no administrator; a user of `users.txt` that was deleted is back after a restart.
- `login_identity.py` 17-22: two logins that share no alias yet are two rows,
  and stay so. A pasted TRAE link without its trace completes the pending login
  of the administrator with that login's device.
- `growth_runner.py`, rule 2 of the header, nothing more is asked once a session
  is dead: the walk goes on to the next section. The button is not kept apart
  from the rounds. `growth.py:11` says that a redemption takes days; "7d" is
  sent.
- `runtime_settings.py` 573-584, a batch is checked before it is written: one
  that only resets one bound of the pair is not (594-596). 664-672: a crash
  within `set_many` leaves half a batch. Another `.env` can invert the pair
  (`SettingsAgree` speaks of batches that set a bound).
- `stats/query.py`: pages by the hour drop the first partial hour of a query,
  and include the whole of the last, while pages by event take exact instants.
  The window of costs counts rows where its docstring has hours.
- `scripts/`: a purge between the reading of the hours and the deletion of
  orphans, an attempt added to an orphan, or a script that dies leaves hours
  that do not agree with their events (`blurred`), and a script that prices anew
  and dies before the roll-up leaves costs no diagnosis compares.
- `tasks/activity.py`: the button of a report is not sealed as its round is.

## 4. What is proved

A theorem here holds for every value of the constants that the named
assumptions of its modules allow: any number of credentials, models, providers,
requests, names, browsers, keys, accounts, topics and events, any durations,
windows, limits and prices, and any number of restarts. What a theorem assumes
beside that is said with it.

| module | theorem | states |
|---|---|---|
| `ChatEngineProofs` | `TypeCorrect` | `Spec => []TypeOK` |
| | `PoolAlwaysSound` | `Spec => []PoolSound` |
| | `RecoveryInstantsKept`, `ErrorsAlwaysStayHome`, `BurstsPauseProviders` | `Spec =>` the action property of `pool_burst` |
| | `PoolSoundUnderRequests` | `EngineSpec => []PoolSound` |
| | `BudgetKept` | `EngineSpec => []RotationBudget` |
| | `ResponsesHaveOneVoice` | `EngineSpec => OneVoice` |
| | `RequestsCountedOnce` | `EngineSpec => []CountedOnce`, where `Impatient = FALSE` |
| | `SlotsAlwaysComeBack` | `EngineSpec => []SlotsComeBack`, where `Impatient = FALSE` and no upstream queues under a limit |
| | `CallsAlwaysCovered` | `EngineSpec => []CallsCovered`, where no upstream queues under a limit |
| `ExchangeProofs` | `PacerIsTurnstile` | `CallsSpec => ActsAsTurnstile`, where `SwitchOnBusy = FALSE` |
| | `SlotsAlwaysHeld` | `CallsSpec => []SlotsAreHeld`, likewise |
| | `HeardAsItWasSaid` | `ConversationsSpec => []HeardAsSaid` |
| | `AnswerIsOne` | `ConversationsSpec => []OneAnswer`, where `RotateHeld = FALSE` |
| | `AnswersStayWhole` | `ConversationsSpec => []AnswersWhole`, likewise |
| | `StreamSpeaks` | `ConversationsSpec => SpeaksProtocol`, where no calls alternate on the Messages API |
| `FrontDoorProofs` | `RightsStayTaken` | `DoorSpec => AccountsGuarded` |
| | `ThrottleAlwaysHolds` | `DoorSpec => []ThrottleHolds` |
| | `SlotsAlwaysFollow`, `QuotasAlwaysKept` | `DoorSpec => []SlotsFollowRequests`, `DoorSpec => AdmissionsWithinQuota` |
| | `LoginsAlwaysLandOnce` | `DoorSpec => []LoginsLandOnce` |
| `BackgroundTasksProofs` | `DisabledDeservedly` | `TasksSpec => []HardDisableDeserved` |
| | `WritersKeepApart`, `SealsAlwaysHold` | `TasksSpec => NothingOverwritten`, `TasksSpec => SealsHold` |
| | `NothingIsLost` | `TasksSpec => []RestartsLoseNothing` |
| `RequestLifeProofs` | `TurnsServedAsAsked` | `TurnsSpec => []ServedAsAsked` |
| | `LimitsAreFollowed` | `TurnsSpec => []LimitsFollowUse` |
| | `RequestsTakeTurns` | `RequestLifeSpec => TurnsSpec` |
| | `FeedsStayExact` | `RequestLifeSpec => []FeedsExact` |
| | `TablesAlwaysAgree` | `RequestLifeSpec => []TablesAgree` |
| `ModelCatalogProofs` | `CatalogTyped` | `CatalogSpec => []CatalogTypeOK` |
| | `ChannelsStaySpared` | `CatalogSpec => ChannelsSpared` |
| | `ListingStaysSound` | `CatalogSpec => []ListingSound` |

`PROJECT.json` says of each in words what it establishes. The pool's theorems
come first in `ChatEngineProofs`; the books' lemmas, on which `NothingIsLost` and
`TablesAlwaysAgree` rest, are `UsageBooksProofs`.

**Assumptions.** They are the named `ASSUME`s of the modules, which TLC
evaluates on every run. Most say that a duration is a number. Sets of requests
(`RequestsFinite`, `QuotaConstants`), of callers and pacings (`PacerConstants`)
and of browsers (`AccountConstants`) are finite, for their members are counted.
`TaskConstants` says that those who write a row are told apart, and that
`start()` runs no first round of the check-in or the growth centre, as in the
code. The theorems' own hypotheses are the divergences of section 3, each of
which breaks the property: clients that leave in the middle of an error frame
or of the `finally` block (`Impatient`), calls reopened after a queue without a
look at the limit, pacing switched on or off under calls (`SwitchOnBusy`), text
held back across a rotation (`RotateHeld`), fragments of calls that alternate
(`Interleaved`). `TranslatorConstants`
and `StreamConstants` keep the marks for "no block" and "no reason" apart from
blocks and reasons. `PageConstants` says of an attempt that it has the columns
the pages read, and that one which was served has no error of a model, as
`_notify` records it; of those a live stream shows, that they are attempts. What
remains without them is proved without them: `CallsAlwaysCovered` holds with
cancelled handlers, `BudgetKept` and `ResponsesHaveOneVoice` in all cases.

**The pool.** `IInv` is the conjunction of `LifeInv`, `RowInv`, `EntryInv`,
`WindowInv` and `AtMostOnePinned`. `RowInv` says of each row that it is well
typed, that its instant and its source are both there or both absent, and that
its instant is bounded. The three must be proved together: a purge or a revive
decides by the source, the source of an error is known because the outcome of
`note_error` is well formed, and the bound of an outcome needs the types of the
counters. A row that satisfies these conditions still does after each operator
on rows (`Charged`, `Paused`, `Revived`, `HardDisabled`, `Sooner`), which one
lemma per operator states; each action is then a pointwise application, with a
lemma per action. The clamp is bounded by its constant or a day, and each
constant by its own maximum: that is where the durations' assumptions enter.
The action properties follow from `IInv` and the step: an error of `c` changes
another row only in the burst disjunct of `NoteRestricted`, where the window
holds enough accounts and `Paused` only ever raises an instant.

**Requests.** `EngineInv` is `HandlersInv /\ IInv`. `HandlersInv` says of each
handler where it may be with what in hand: a credential while it calls, nothing
emitted while it chooses, how many upstreams it has opened for the attempts,
queue rounds and downgrade it has made (this is the bound of `RotationBudget`,
which is not inductive by itself: a queue round refunds an attempt), and which
rows it has written at which place. `SlotInv` counts: the leases of a
credential are those requests that hold it (at least those, where handlers are
cancelled), and `LimitInv` that a choice under a limit found room. Both are
counts over a finite set of requests that one step changes at one place.

**Calls.** `CallsInv` says who holds a slot of the pacer. `TurnInv` types each
caller, `ModeInv` says that a pacer which paces nobody has no callers inside,
and `CountInv` that the slots of a bucket number the callers that sleep or have
their turn; with these a step of the pacer maps to a step of `Turnstile`
(`PacerIsTurnstile`): who enters took a slot under the lock, and who is
cancelled gives back what he took. `SlotsAlwaysHeld` adds `PacerHeld` (a list
of starts is never longer than the largest limit there is) and `LeaseHeld`: a
credential has no more live leases than attempts under way and leases lost. What
is live of its list is a suffix, so that giving back the last one lowers the
count by one if any is live, whoever's it was.

**The front door.** `AccountsInv` says how each cookie lies behind its row
(`CookiesBehind`): one that ought to be dead has an epoch the row has left, or
its row is gone or paused, for every step that takes rights away raises the
epoch in the same transaction. An administrator remains because each handler
that lowers one looks and writes without an await; of the command line tool
`CliJudged` says what it has seen.
`FailsBounded` bounds the failures in a window together with the changes of
password that are being hashed.
`QuotaInv`: counts follow `held`; `WindowInv`: what a layer counted within a
window keeps its limits. Sums over the events of a window are compared by a
least counterexample, for there is no induction here. `LoginInv` is types,
`OnceInv` (a login that was consumed and is not yet saved is in the hand of one
handler) and `RowsInv` (while an alias is common to all logins of the account
there is one row, and one handler that merges into it: finding a row and adding
one are under one lock).

**Background tasks.** `TasksInv` has one invariant per task. `RunnerSound`:
two rounds of a task differ in who runs them. `RefreshInv`: the head of a queue
holds the lock (`QueueInv`), only he asks (`AskInv`, `JobInv`), so what he asked
with is what is stored, and a row is disabled only with its stored token refused
(`RowInv`). `CheckinInv`: a walk that waits for its next call found no seal when it set
out (`since`), and no other walk of this day is there to set one (`RoundsApart`). `AlertInv`: what is open in the table is active
in memory. `BooksInv`: types, `EventsKept` (an hour keeps all of its events or
none) and `HourSound` for every hour while a script works, which says how far
the script may have left the hour behind. `GrowthInv`: a walk has nothing in
hand between accounts (`EmptyHanded`), and what it carries grows only with a
payment and is put down only when it is booked (`CarriedHolds`, `HoldsCounts`),
so two walks at one account never book the same payment. `SettingInv`: what
will be in force once the batch is written (`Coming`) is what was checked, and
no row that is written changes it.

**Turns.** `TurnsInv` says of each turn that it is idle and sound (`IdleSound`)
or open and sound (`OpenSound`): its chain and target are those its names and
bindings lead to (`Ready`), its credential is in the lane of its key (`InLane`),
the sums of its rounds are those it will book (`SumsUp`), and what the client
has heard is of one model and credential (`HearsOne`). `GuardInv` relates the
snapshot of the limits to caps and use: with its age it says since when a
verdict may be different (`SnapshotSound`). `RequestsTakeTurns` carries both to
the composition, where every step is a step of `TurnsSpec` or leaves its
variables alone.

**What is read afterwards.** `FollowInv` has two parts. `ListInv`: a row's number
is above that of every row that stands (`EventsSound`), and while the list is
read no row that was shown is older than the cursor, all others that were there
at first are (`ReaderSound`). Deleting rows may give a number out again, but
only one above those that stand, which is where a row that was there at first
needs to be below the cursor and not above the last page. That a page of the
largest numbers splits the rows at its least one (`PageSplits`) needs a largest
number of a finite set, by a least counterexample. `LiveInv` says of each feed
(`FeedSound`) that what was sent, is in the batch and is queued are in order one
behind the other, that all of it that was asked for is `due`, and that what is
due and in none of them numbers at most `dropped` and is older than all that is
queued: a push drops the head of a queue, which is older than the rest of it.

`TablesInv` is what the pages rest on. It is `BooksInv`, the types of the events
with numbers that differ, and of the rows of the hours that there are finitely
many, that their hours are those of the clock, and that one whose costs are all
unknown has none (`Honest`). `TablesAgree` by itself is not inductive: it compares what is
read and says nothing of the history that a recompute or a purge goes by, and a
sum of rows shows "no cost known" truly only if each of them does. From there
`PagesHold` goes page by page. A total is the sum of its groups in whatever order
either is taken (`TotalParted`), as no order gives another sum: a least set for
which one did would lose an element. The rows of a trusted hour are the sums of
its events, so the two halves of a page are the same sum, parted by hours or by
groups. Ranks make a sorted list: how many rows go before one tells any two rows
apart, as their order is strict and total (`Under`), so there is one row at each
rank, and a rank of a percentile is found. Pages laid end to end are the list,
since the first page that differs would be where its first row differs.

**Replies.** `ReplyInv` follows a text through the places it can be in: the
buffer of the chat filter, the frames still to be yielded, the frame that was
fetched, the ears of the client. What lies in a place is rising, of one attempt
and each piece once (`Rising`, `Spoken`), and goes on where the ears are or says
again what they heard around a call (`Continues`, `Precedes`). The buffer may
hold what is also on its way, but only the rest around a call (`Left`, `Kept`);
what rests is cut out of the text, in its order (`Cut`, from what `FoldProofs`
shows of folds), and once it is heard it may be heard again (`KeptAgain`).
Otherwise at most one place but the ears holds text, and a new attempt starts
with all of them empty, which is where `~emitted` and the hypothesis enter.
For the protocol, `WireInv` says that the frames under way take the parser from
where the client is to where the translator believes it to be: there is a run of
parser states over them (a function from their positions), each step of which
the abstract specification allows. Translating an event appends frames and
states; a delivery takes the first of both.

**Streams.** `StreamInv` has types, what each channel is in the habit of doing
(`Habits`: only Zen drops calls, only Qoder has a second host, only CodeArts
repeats the whole text) and `BegunKnown`: a call that has begun was passed on or
dropped. A frame becomes a list of events of which each is of a kind of its own
(`Lists`), and every decoder's list is the frame's parts but those the channel
leaves out (`DecodedUnderstood`, with a lemma for each decoder). What remains is
a case for each name a call can have (`FrameCalls`), and that the new end of a
text that is shown whole fits behind what was passed on (`DeltaEnds`).

**The model list.** `CatalogInv` has types (`ListTyped`, `ProbeTyped`) and
`WalkInv`: one job walks, and every channel it still has to ask was due when it
took the lock and is due still, for only asking ends that. `ListingSound` follows
from the types alone, by way of the three folds that make the list.
`Merged` is a sequence of entries because their order is strict and total, where
every rank below the number of entries is taken (`EveryRankIsTaken`); an entry
that is settled gets an id that is free, in the last resort because one of more
numbers than there are ids is (`SettledIsFree`). `FoldProofs` shows of any fold
that its results come one after the other; with that, what holds of a result and
survives a step holds of the fold: the entries named so far differ
(`NamedApart`), the register knows the names of the entries so far and leads to
what they show (`Leads`), and names of the operator disturb neither
(`EntriesFound`, `AliasesFound`).

**Only model-checked.** All liveness, since the prover handles neither ENABLED
nor fairness: `PoolRecovers`, `RequestsEnd`, `SlotsDrain`, `NeverLockedOut`,
`TurnsCome`, `StreamsClose`, `EveryAccountServed`, `AlertsFollowTasks`,
`CatalogHeals`. Of the safety properties:
`AsksWhole` and `PrefixKept` rest on what clients may say (`Cases`), which is
data of the instance, as `BlameFits` rests on the answers the channels are
documented to give; `StaysHome` rests on the names that conversations have and on
what `SelectSeq` leaves of a table, of which the provers know nothing.

## 5. Not modelled

Not modelled: activity reports, backups and the probe of upstream status;
migrations and the plumbing of the database; the web application, its
middleware and front end; catalogues and prices as pure look-ups; the strict
mode of the pacer; the other rules of alerting, which differ by their condition;
the providers' requests but for the order in which a login, a stream and a walk
of the growth centre ask. `PROJECT.json` says for each component what of it is
left out.
