----------------------------- MODULE StatsPages -----------------------------
(***************************************************************************)
(* What is read from the books (UsageBooks): the pages and the counters of *)
(* the statistics (stats/query.py, the windows of stats/collector.py, the  *)
(* diagnosis of stats/backfill.py), the list of attempts page by page, and *)
(* the live stream of attempts (stats/live.py, api/admin_stats.py).        *)
(*                                                                         *)
(* Some pages read the rows of the hours, which are kept for ever, others  *)
(* the events, which are not; a page that shows both must not contradict   *)
(* itself.  A table is a set of rows here, a page a function of what its   *)
(* rows are grouped by; a ratio is the pair of its parts; the order of the *)
(* rows is left out where no property tells it.                            *)
(*                                                                         *)
(* A definition marked `slip' is a variant with a likely slip; no action   *)
(* uses it.                                                                *)
(***************************************************************************)
EXTENDS UsageBooks, Sequences, SequencesExt

CONSTANTS
  Queries,      \* bound of the model: what pages are asked, [username, since, until], Null: any
  ModelErrors,  \* error types that are about a model
  MinGen,       \* SPEED_MIN_GEN_MS
  MaxTps,       \* SPEED_MAX_TPS, by unit of time
  MaxDense,     \* MAX_DENSE_HOURS
  Watcher,      \* bound of the model: clients of the live stream
  Wishes,       \* bound of the model: what lists and streams are asked, [username, ok]
  Shown, MostShown,  \* bound of the model: attempts beside which lists and streams are read
  PageSize,     \* bound of the model: limit
  MaxSubscribers, MaxBuffered

ASSUME PageConstants ==
  /\ {MinGen, MaxTps} \subseteq Nat /\ MaxDense \in Nat
  /\ {PageSize, MaxSubscribers, MaxBuffered} \subseteq Nat \ {0} /\ MostShown \in Nat
  /\ Null \notin Nat
  /\ \A q \in Queries : {q.since, q.until} \subseteq Nat \cup {Null}
  /\ Shown \subseteq Samples
  /\ \A sample \in Samples :
       /\ {"ok", "error_type", "reasoning_tokens"} \subseteq DOMAIN sample
       /\ sample.reasoning_tokens \in Nat \cup {Null}
       /\ sample.ok => sample.error_type \notin ModelErrors

VARIABLES
  reader,       \* a client that reads the list page by page
  feed          \* the live stream of each watcher

pageVars == <<bookVars, reader, feed>>

----------------------------------------------------------------------------
(* What a query selects: events by their time, rows of the hours by the    *)
(* beginning of their hour.                                                *)

Meets(x, q, columns) == \A c \in columns : q[c] = Null \/ x[c] = q[c]
Within(t, q) == (q.since = Null \/ t >= q.since) /\ (q.until = Null \/ t < q.until)

EventsOf(table, q) == {r \in table : Meets(r, q, {"username"}) /\ Within(r.ts, q)}
HoursOf(q) == {k \in DOMAIN hourly : Meets(k, q, {"username"}) /\ Within(k.hour * PerHour, q)}

\* The sums of several rows of sums, by what they are found by.
AddedUp(table, keys) == FoldFunctionOnSet(Both, Sums({}), table, keys)
SumOf(keys) == AddedUp(hourly, keys)

\* The values of a column, grouped.
GroupsBy(column, S) == {x[column] : x \in S}
OfGroup(column, S, g) == {x \in S : x[column] = g}

----------------------------------------------------------------------------
(* The order of the rows: of those alike in a column the number decides.   *)

Under(column, s, r) ==
  \/ OrZero(s[column]) < OrZero(r[column])
  \/ OrZero(s[column]) = OrZero(r[column]) /\ s.rowid < r.rowid

\* At each rank the row that so many of the others go before.
Ascending(column, rows) ==
  [i \in 1 .. Cardinality(rows) |->
     CHOOSE r \in rows : Cardinality({s \in rows : Under(column, s, r)}) = i - 1]
Descending(column, rows) ==
  [i \in 1 .. Cardinality(rows) |->
     CHOOSE r \in rows : Cardinality({s \in rows : Under(column, r, s)}) = i - 1]

----------------------------------------------------------------------------
(* How fast an answer was: tokens over the time since its first one, if    *)
(* that can be measured, or else over the whole time.                      *)

\* _routed_guard
RoutedGuard(r) ==
  /\ r.output_tokens # Null /\ r.latency_ms # Null /\ r.ttfb_ms # Null
  /\ r.output_tokens > 0 /\ r.latency_ms > r.ttfb_ms
  /\ r.latency_ms - r.ttfb_ms >= MinGen
  /\ r.output_tokens <= MaxTps * (r.latency_ms - r.ttfb_ms)

\* _estimate_guard
EstimateGuard(r) ==
  /\ r.output_tokens # Null /\ r.latency_ms # Null
  /\ r.output_tokens > 0 /\ r.latency_ms >= MinGen
  /\ r.output_tokens <= MaxTps * r.latency_ms

\* _visible_tokens: what was not thought
VisibleTokens(r) ==
  LET thought == OrZero(r.reasoning_tokens)
  IN  IF OrZero(r.output_tokens) > thought THEN OrZero(r.output_tokens) - thought ELSE 0

NoSpeed == [total |-> Null, visible |-> Null, over |-> Null]

\* _row_speed_sql, for the list and its order
RowSpeedSql(r) ==
  IF r.ok /\ RoutedGuard(r)
  THEN [total |-> r.output_tokens,
        visible |-> IF VisibleTokens(r) = 0 THEN Null ELSE VisibleTokens(r),
        over |-> r.latency_ms - r.ttfb_ms]
  ELSE NoSpeed

\* row_speed, for the live stream
RowSpeed(r) ==
  IF ~r.ok \/ Null \in {r.output_tokens, r.latency_ms, r.ttfb_ms} THEN NoSpeed
  ELSE LET gen == r.latency_ms - r.ttfb_ms
           visible == r.output_tokens - OrZero(r.reasoning_tokens)
       IN  IF r.output_tokens <= 0 \/ gen < MinGen \/ r.output_tokens > MaxTps * gen
           THEN NoSpeed
           ELSE [total |-> r.output_tokens, visible |-> IF visible > 0 THEN visible ELSE Null,
                 over |-> gen]

\* _speed_aggregates and _speed_value: sums over sums, measured ones before estimated ones.
SpeedOf(rows) ==
  LET routed == {r \in rows : r.ok /\ RoutedGuard(r)}
      estimated == {r \in rows : r.ok /\ EstimateGuard(r)}
      Total(S) == MapThenSumSet(LAMBDA r : r.output_tokens, S)
      Visible(S) == LET n == MapThenSumSet(VisibleTokens, S) IN IF n = 0 THEN Null ELSE n
  IN  IF routed # {}
      THEN [total |-> Total(routed), visible |-> Visible(routed),
            over |-> MapThenSumSet(LAMBDA r : r.latency_ms - r.ttfb_ms, routed)]
      ELSE IF estimated # {}
      THEN [total |-> Total(estimated), visible |-> Visible(estimated),
            over |-> MapThenSumSet(LAMBDA r : r.latency_ms, estimated)]
      ELSE NoSpeed

\* _percentile_rank over _percentile_join: the value of the nearest rank.
Percentile(rows, column, pct) ==
  LET measured == {r \in rows : r.ok /\ r[column] # Null}
      sorted == Ascending(column, measured)
      rank == (pct * Len(sorted) + 99) \div 100
  IN  IF sorted = <<>> THEN Null ELSE sorted[rank][column]

----------------------------------------------------------------------------
(* The pages.                                                              *)

Overview(q) == SumOf(HoursOf(q))

Detail(rows) ==
  [speed |-> SpeedOf(rows), p50 |-> Percentile(rows, "latency_ms", 50),
   p95 |-> Percentile(rows, "latency_ms", 95), ttfb |-> Percentile(rows, "ttfb_ms", 50)]

\* _group_hourly: sums of the hours beside what only events tell.
GroupHourly(column, q) ==
  [g \in GroupsBy(column, HoursOf(q)) |->
     [sums |-> SumOf(OfGroup(column, HoursOf(q), g)),
      detail |-> Detail(OfGroup(column, EventsOf(usage, q), g))]]

\* _group_events: for columns the hours do not have.
GroupEvents(column, q) ==
  [g \in GroupsBy(column, EventsOf(usage, q)) \ {Null} |->
     LET rows == OfGroup(column, EventsOf(usage, q), g)
     IN  [sums |-> Sums(rows), detail |-> Detail(rows)]]

SumsOver(page) == AddedUp([g \in DOMAIN page |-> page[g].sums], DOMAIN page)

\* billing: by user and by key, and totals that leave out what has no price.
Billing(q) ==
  LET users == GroupHourly("username", q)
      Priced(g) == IF users[g].sums.cost_known > 0 THEN users[g].sums.cost ELSE 0
  IN  [users |-> users, keys |-> GroupEvents("api_key_id", q),
       totals |-> [SumsOver(users) EXCEPT !.cost = SumFunction([g \in DOMAIN users |-> Priced(g)])]]

\* _metric_value: a point without a sample has no value.
MetricValue(metric, s) ==
  CASE metric = "requests" -> s.requests
    [] metric = "tokens" -> s.tokens
    [] metric = "cost" -> IF s.cost_known > 0 THEN s.cost ELSE Null
    [] metric \in {"latency", "ttfb"} -> IF s.ok_count > 0 THEN <<s[metric], s.ok_count>> ELSE Null
    [] metric = "success_rate" -> IF s.requests > 0 THEN <<s.ok_count, s.requests>> ELSE Null
    [] metric = "cost_per_request" -> IF s.cost_known > 0 THEN <<s.cost, s.requests>> ELSE Null

EmptyValue(metric) == IF metric \in {"requests", "tokens"} THEN 0 ELSE Null

\* _dense_hours: all hours of the window, or of what was observed without one.
DenseHours(observed, q) ==
  LET first == IF q.since # Null THEN HourOf(q.since) ELSE Min(observed)
      last == IF q.until = Null THEN Max(observed)
              ELSE IF q.until > first * PerHour THEN HourOf(q.until - 1) ELSE first
  IN  IF observed = {} THEN {}
      ELSE IF last - first + 1 > MaxDense THEN observed ELSE first .. last

Timeline(q, metric) ==
  LET keys == HoursOf(q)
      At(h) == OfGroup("hour", keys, h)
      Value(S) == IF S = {} THEN EmptyValue(metric) ELSE MetricValue(metric, SumOf(S))
  IN  [h \in DenseHours(GroupsBy("hour", keys), q) |->
         [total |-> Value(At(h)),
          by |-> [p \in GroupsBy("provider", keys) |-> Value(OfGroup("provider", At(h), p))]]]

\* The models asked for most, by name if as often.
TopModels(q, top) ==
  LET keys == HoursOf(q)
      Asked(m) == SumOf(OfGroup("model", keys, m)).requests
      Before(m, n) == Asked(m) > Asked(n) \/ (Asked(m) = Asked(n) /\ m < n)
      models == GroupsBy("model", keys)
  IN  {m \in models : Cardinality({n \in models : Before(n, m)}) < top}

ModelTimeline(q, top, metric) ==
  LET keys == HoursOf(q)
      Value(S) == IF S = {} THEN EmptyValue(metric) ELSE MetricValue(metric, SumOf(S))
  IN  [h \in DenseHours(GroupsBy("hour", keys), q) |->
         [m \in TopModels(q, top) |-> Value(OfGroup("hour", OfGroup("model", keys, m), h))]]

PercentileTimeline(q, column) ==
  LET rows == {r \in EventsOf(usage, q) : r.ok /\ r[column] # Null}
      At(h) == {r \in rows : HourOf(r.ts) = h}
  IN  [h \in DenseHours({HourOf(r.ts) : r \in rows}, q) |->
         [p50 |-> Percentile(At(h), column, 50), p95 |-> Percentile(At(h), column, 95),
          samples |-> Cardinality(At(h))]]

\* slip: whoever served a request of that number rescued it
RescuedByAnyone(table, r) ==
  r.request_id # Null /\ \E s \in table : s.ok /\ s.request_id = r.request_id

\* A failed attempt of a request that another one served.  Clients choose the numbers.
Rescued(table, r) ==
  /\ r.request_id # Null
  /\ \E s \in table : s.ok /\ s.request_id = r.request_id /\ s.username = r.username

Cause(r) == <<r.provider, r.model, r.error_type>>

Errors(table, q) ==
  LET failed == {r \in EventsOf(table, q) : ~r.ok}
  IN  [c \in {Cause(r) : r \in failed} |->
         LET rows == {r \in failed : Cause(r) = c}
         IN  [failures |-> Cardinality(rows),
              rescued |-> Cardinality({r \in rows : Rescued(table, r)}),
              last |-> Max({r.ts : r \in rows})]]

\* model_failures: for the page of the models.
ModelFailures(since) ==
  LET rows == {r \in usage : r.ts >= since /\ r.error_type \in ModelErrors}
      Of(p, m) == {r \in rows : r.provider = p /\ r.model = m}
  IN  [pm \in {<<r.provider, r.model>> : r \in rows} |->
         [failures |-> Cardinality(Of(pm[1], pm[2])), last |-> Max({r.ts : r \in Of(pm[1], pm[2])})]]

\* For /metrics, which counts upwards for ever.
MetricsOf(column) ==
  LET keys == DOMAIN hourly
  IN  [g \in GroupsBy(column, keys) |-> SumOf(OfGroup(column, keys, g))]

\* For the rules of alerting: attempts and failures, the use of each key, what was spent.
WindowErrorRate(since) ==
  LET rows == {r \in usage : r.ts >= since}
  IN  <<Cardinality(rows), Cardinality({r \in rows : ~r.ok})>>

WindowKeyUsage(since) ==
  LET rows == {r \in usage : r.ts >= since /\ r.api_key_id # Null}
      Of(k) == {r \in rows : <<r.api_key_id, r.username>> = k}
  IN  [k \in {<<r.api_key_id, r.username>> : r \in rows} |->
         [requests |-> Cardinality(Of(k)), tokens |-> Sums(Of(k)).tokens]]

WindowCost(since) == SumOf({k \in DOMAIN hourly : k.hour * PerHour >= since}).cost

\* pending_hourly: hours that a script of the operator would recompute.
PendingHourly ==
  LET Told(s) == <<s.requests, s.ok_count, s.tokens>>
      Of(k) == Sums({r \in usage : HourKey(r) = k})
  IN  {k \in {HourKey(r) : r \in usage} :
         k \notin DOMAIN hourly \/ Told(hourly[k]) # Told(Of(k))}

----------------------------------------------------------------------------
(* The list of attempts, the newest first, a page at a time: `before' is   *)
(* the number of the last row of the page before.                          *)

Matches(x, wish) == Meets(x, wish, {"username", "ok"})
ListRows(wish) == {r \in usage : Matches(r, wish)}

\* slip: the page begins with the row the one before ended with
OlderOrSame(r, before) == before = Null \/ r.rowid <= before

Older(r, before) == before = Null \/ r.rowid < before

\* ORDER BY rowid DESC LIMIT: those with fewer than a page of newer rows among them.
FirstPage(rows) == {r \in rows : Cardinality({s \in rows : s.rowid > r.rowid}) < PageSize}

\* export_events
Export(wish) == Ascending("rowid", ListRows(wish))

\* events() by another column: pages are counted, rows alike are ordered by their number.
OffsetPage(column, wish, offset) ==
  LET rows == Descending(column, ListRows(wish))
  IN  SubSeq(rows, offset + 1, IF offset + PageSize < Len(rows) THEN offset + PageSize ELSE Len(rows))

NoReader == [at |-> "away"]

OpensList ==
  /\ reader = NoReader
  /\ \E wish \in Wishes :
       reader' = [at |-> "reading", wish |-> wish, before |-> Null, seen |-> <<>>,
                  begun |-> {r.id : r \in ListRows(wish)}]
  /\ UNCHANGED <<bookVars, feed>>

TurnsPage ==
  /\ reader.at = "reading"
  /\ LET rows == {r \in ListRows(reader.wish) : Older(r, reader.before)}
         page == FirstPage(rows)
         more == page # rows
     IN  reader' = [reader EXCEPT !.at = IF more THEN "reading" ELSE "done",
                                  !.seen = Append(@, {r.id : r \in page}),
                                  !.before = IF more THEN Min({r.rowid : r \in page}) ELSE @]
  /\ UNCHANGED <<bookVars, feed>>

----------------------------------------------------------------------------
(* The live stream: rows are queued for every subscriber as they are       *)
(* recorded, and each sends those it was asked for.                        *)

NoFeed == [at |-> "away", wish |-> Null, queue |-> <<>>, batch |-> <<>>, awake |-> FALSE,
           sent |-> <<>>, due |-> {}, dropped |-> 0]
Subscribed == {w \in Watcher : feed[w].at # "away"}

\* LiveEventHub.subscribe, in the request; the body of the answer is not running yet.
Subscribes(w) ==
  /\ feed[w].at = "away" /\ Cardinality(Subscribed) < MaxSubscribers
  /\ \E wish \in Wishes : feed' = [feed EXCEPT ![w] = [NoFeed EXCEPT !.at = "opened", !.wish = wish]]

Starts(w) ==
  /\ feed[w].at = "opened"
  /\ feed' = [feed EXCEPT ![w].at = "top"]

\* slip: what comes last is lost
PushedUnlessFull(f, row) ==
  [f EXCEPT !.queue = IF Len(@) = MaxBuffered THEN @ ELSE Append(@, row),
            !.dropped = IF Len(f.queue) = MaxBuffered THEN @ + 1 ELSE @,
            !.due = IF Matches(row, f.wish) THEN @ \cup {row} ELSE @,
            !.awake = TRUE]

\* Subscription.push: the oldest is lost.
Pushed(f, row) ==
  LET queue == Append(f.queue, row)
      full == Len(queue) > MaxBuffered
  IN  [f EXCEPT !.queue = IF full THEN Tail(queue) ELSE queue,
                !.dropped = IF full THEN @ + 1 ELSE @,
                !.due = IF Matches(row, f.wish) THEN @ \cup {row} ELSE @,
                !.awake = TRUE]

\* record() with _notify.
RecordTold(sample) ==
  /\ Record(sample)
  /\ LET row == [id |-> written, username |-> sample.username, ok |-> sample.ok]
     IN  feed' = [w \in Watcher |-> IF w \in Subscribed THEN Pushed(feed[w], row) ELSE feed[w]]
  /\ UNCHANGED reader

RecordTells(samples, most) == written < most /\ \E sample \in samples : RecordTold(sample)

Drains(w) ==
  /\ feed[w].at = "top"
  /\ feed' = [feed EXCEPT ![w] =
       [@ EXCEPT !.at = IF feed[w].queue = <<>> THEN "waiting" ELSE "sending",
                 !.batch = feed[w].queue, !.queue = <<>>, !.awake = FALSE]]

\* What was not asked for is left out.
FirstSent(f) ==
  [f EXCEPT !.sent = IF Matches(Head(f.batch), f.wish) THEN Append(@, Head(f.batch)) ELSE @,
            !.batch = Tail(@)]

\* The next row of the batch, or on to the next batch.
Sends(w) ==
  /\ feed[w].at = "sending"
  /\ feed' = [feed EXCEPT ![w] = IF @.batch = <<>> THEN [@ EXCEPT !.at = "top"] ELSE FirstSent(@)]

\* A row came, or it was time for a heartbeat.
Wakes(w) ==
  /\ feed[w].at = "waiting"
  /\ feed' = [feed EXCEPT ![w].at = "top"]

\* The client goes: the body unsubscribes, unless it has not begun.
HangsUp(w) ==
  /\ feed[w].at \notin {"away", "lost"}
  /\ feed' = [feed EXCEPT ![w] =
       IF @.at = "opened" THEN [@ EXCEPT !.at = "lost"] ELSE NoFeed]

WatcherStep ==
  /\ \E w \in Watcher :
       Subscribes(w) \/ Starts(w) \/ Drains(w) \/ Sends(w) \/ Wakes(w) \/ HangsUp(w)
  /\ UNCHANGED <<bookVars, reader>>

----------------------------------------------------------------------------
PagesInit ==
  /\ BooksInit
  /\ reader = NoReader
  /\ feed = [w \in Watcher |-> NoFeed]

Retention ==
  \/ tidy = "idle" /\ TidyBegins
  \/ TidyStep
  \/ TidyDone /\ TidyLeaves

BooksMove == (Retention \/ ScriptStep \/ ClockTicks \/ PricesMove) /\ UNCHANGED <<reader, feed>>

\* What each kind of reading is followed beside: the pages beside everything, the list
\* beside new attempts and a script that deletes some, the streams beside new attempts.
TablesNext == RecordTells(Samples, MostEvents) \/ BooksMove
ListNext ==
  \/ RecordTells(Shown, MostShown) \/ OpensList \/ TurnsPage
  \/ (SweepBegins \/ SweepDeletes \/ SweepOrphans) /\ UNCHANGED <<reader, feed>>
LiveNext == RecordTells(Shown, MostShown) \/ WatcherStep

----------------------------------------------------------------------------
\* Properties.

Whole(t) == t = Null \/ t % PerHour = 0
Trusted(q) ==
  /\ Whole(q.since) /\ Whole(q.until)
  /\ \A h \in Hours : Within(h * PerHour, q) => Settled(h)
Kept(q) == {r.id : r \in EventsOf(recorded, q)} = {r.id : r \in EventsOf(usage, q)}
SumPoints(points) == SumFunction([h \in DOMAIN points |-> points[h].total])

\* All hours of the window, or of what there is, but for a window that is too long.
Unbroken(S, q) ==
  LET first == IF q.since = Null THEN Min(S) ELSE HourOf(q.since)
      last == IF q.until = Null THEN Max(S) ELSE HourOf(q.until - 1)
  IN  S = {} \/ S = first .. last \/ last - first >= MaxDense

\* Whatever the rows are grouped by, the groups sum up to the overview, and that to
\* what was recorded.
GroupsAgree(q) ==
  /\ Counts(Overview(q)) = Counts(Sums(EventsOf(recorded, q)))
  /\ \A column \in {"username", "provider", "model"} : SumsOver(GroupHourly(column, q)) = Overview(q)
  /\ Billing(q).totals = Overview(q)
  /\ LET points == Timeline(q, "requests")
         dense == ModelTimeline(q, 1, "requests")
     IN  /\ SumPoints(points) = Overview(q).requests
         /\ DOMAIN dense = DOMAIN points /\ Unbroken(DOMAIN points, q)
         /\ \A h \in DOMAIN points, m \in TopModels(q, 1) :
              dense[h][m] <= points[h].total
              /\ points[h].total = SumFunction(points[h].by)

\* While no event of it was purged, the pages of events tell the same.
EventsAgree(q) ==
  /\ \A column \in {"credential_id", "api_key_id"} :
       Both(SumsOver(GroupEvents(column, q)), Sums(OfGroup(column, EventsOf(usage, q), Null))) = Overview(q)
  /\ LET causes == Errors(usage, q)
     IN  SumFunction([c \in DOMAIN causes |-> causes[c].failures])
           = Overview(q).requests - Overview(q).ok_count
  /\ LET points == PercentileTimeline(q, "latency_ms")
     IN  SumFunction([h \in DOMAIN points |-> points[h].samples])
           = Cardinality({r \in EventsOf(usage, q) : r.ok /\ r.latency_ms # Null})

\* The windows of alerting and the page of the models tell the same as the pages.
WindowsAgree(q) ==
  /\ WindowCost(q.since) = Overview(q).cost
  /\ SumFunction([p \in GroupsBy("provider", DOMAIN hourly) |-> MetricsOf("provider")[p].requests])
       >= Overview(q).requests
  /\ LET page == ModelFailures(q.since)
         causes == Errors(usage, q)
     IN  \A pm \in DOMAIN page :
           LET own == {c \in DOMAIN causes : <<c[1], c[2]>> = pm /\ c[3] \in ModelErrors}
           IN  /\ page[pm].failures = SumFunction([c \in own |-> causes[c].failures])
               /\ page[pm].last = Max({causes[c].last : c \in own})
  /\ Kept(q) =>
       /\ WindowErrorRate(q.since) = <<Overview(q).requests, Overview(q).requests - Overview(q).ok_count>>
       /\ LET keys == WindowKeyUsage(q.since)
              page == GroupEvents("api_key_id", q)
          IN  \A k \in DOMAIN page :
                page[k].sums.tokens = SumFunction([ku \in {ku \in DOMAIN keys : ku[1] = k} |->
                                                     keys[ku].tokens])

\* What a user is told of its failures does not depend on what others do.
OwnErrorsOnly(q) ==
  q.username # Null =>
    Errors(usage, q) = Errors({r \in usage : r.username = q.username}, q)

\* The nearest rank: the least value that so many of a hundred do not exceed.
PercentilesRight(rows) ==
  \A pct \in {50, 95} :
    LET values == {r \in rows : r.ok /\ r.latency_ms # Null}
        Enough(v) == 100 * Cardinality({r \in values : r.latency_ms <= v}) >= pct * Cardinality(values)
    IN  Percentile(rows, "latency_ms", pct) =
          IF values = {} THEN Null ELSE Min({v \in {r.latency_ms : r \in values} : Enough(v)})

\* The pages of the statistics (stats/query.py), the windows of alerting
\* (stats/collector.py) and the diagnosis (stats/backfill.py) do not contradict each
\* other or what was recorded, for hours that no script is at work of or has spoilt:
\* whatever was purged, deleted, priced anew or recomputed in between.
PagesAgree ==
  /\ AllHoursComplete
  /\ \A q \in Queries :
       /\ Trusted(q) =>
            /\ GroupsAgree(q)
            /\ Kept(q) => EventsAgree(q)
            /\ q.username = Null /\ q.until = Null /\ q.since # Null => WindowsAgree(q)
       /\ OwnErrorsOnly(q)
       /\ PercentilesRight(EventsOf(usage, q))
  /\ \A k \in PendingHourly : ~Settled(k.hour)
  /\ \A r \in usage : RowSpeed(r) = RowSpeedSql(r)

\* The list in one piece is the export backwards, its first page that of the list, and in
\* the order of another column the pages show every row once, too (query.py events).
ListsAgree ==
  \A wish \in Wishes :
    LET pages(column) == FlattenSeq([i \in 1 .. Cardinality(ListRows(wish)) |->
                           OffsetPage(column, wish, (i - 1) * PageSize)])
    IN  /\ pages("rowid") = Reverse(Export(wish))
        /\ FirstPage(ListRows(wish)) = ToSet(OffsetPage("rowid", wish, 0))
        /\ ToSet(pages("latency_ms")) = ListRows(wish)
        /\ Len(pages("latency_ms")) = Cardinality(ListRows(wish))

\* The list read page by page shows every attempt that matched when reading began and
\* that was not deleted since, and none twice (query.py events).
ListExact ==
  reader # NoReader =>
    /\ \A i, j \in DOMAIN reader.seen : i # j => reader.seen[i] \cap reader.seen[j] = {}
    /\ reader.at = "done" => reader.begun \cap {r.id : r \in usage} \subseteq UNION Range(reader.seen)

InOrder(rows) == \A i, j \in DOMAIN rows : i < j => rows[i].id < rows[j].id

\* A stream has sent, or will send, everything its subscriber asked for in order, but
\* for what its buffer had no room for, and nothing else; it never sleeps with rows to
\* send; and the hub admits no more subscribers, a buffer keeps no more rows, than they
\* are meant to, also if no one reads it any more (live.py, admin_stats.py _stream_events).
StreamExact ==
  /\ Cardinality(Subscribed) <= MaxSubscribers
  /\ \A w \in Watcher :
       LET f == feed[w]
           line == f.sent \o f.batch \o f.queue
           asked == {row \in Range(line) : Matches(row, f.wish)}
           missed == f.due \ asked
       IN  /\ InOrder(line) /\ Range(f.sent) \subseteq asked /\ asked \subseteq f.due
           /\ Cardinality(missed) <= f.dropped /\ Len(f.queue) <= MaxBuffered
           /\ \A row \in missed, kept \in Range(f.queue) : row.id < kept.id
           /\ f.at = "waiting" /\ f.queue # <<>> => f.awake

FeedsExact == ListExact /\ StreamExact
=============================================================================
