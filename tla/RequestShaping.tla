--------------------------- MODULE RequestShaping ---------------------------
(***************************************************************************)
(* What an upstream is asked.  With every request a client says its whole  *)
(* history again, in one of three APIs.  It is translated into chat        *)
(* messages (compat), trimmed to the window of the channel that serves it  *)
(* (api/context.py, engine/compress.py, engine/sticky_trim.py), its effort *)
(* is fitted, and the client of the channel makes the body of it.          *)
(* Each attempt starts from the request as it was translated.              *)
(*                                                                         *)
(* A text is a name and a weight.  What weighs Long can be cut to Cut, a   *)
(* tool call weighs one token, and a window is a number of tokens less the *)
(* reserve for the output (the ratio is left out).                         *)
(***************************************************************************)
EXTENDS Naturals, FiniteSets, Sequences, SequencesExt

CONSTANTS
  Tried,         \* the channels a request may be tried on
  Window,        \* [Tried -> Nat \union {None}]: max_input_tokens of the catalogue
  Floor,         \* [Tried -> Nat]: _CHANNEL_WINDOW_FLOOR
  Reserve,       \* context_compress_reserve_tokens
  MinKeep,       \* context_compress_min_keep_messages
  Memories,      \* StickyTrimmer._capacity
  Efforts,       \* EFFORT_ORDER, the highest first
  EffortMap,     \* [Tried -> [effort -> effort or None]]: reasoning_effort_map
  Thresholds,    \* [budget -> effort or None]: anthropic_thinking_efforts
  None,
  Cases,         \* bound of the model: who talks, in which API, how and on what channels,
                 \* [apis, openings, rounds, wishes, on, most, edits, switches]
  MaxTries       \* bound of the model: attempts of a request

Apis == {"chat", "messages", "responses"}
EffortNames == ToSet(Efforts)
Long == 3
Cut == 2

ASSUME RequestConstants ==
  /\ Window \in [Tried -> Nat \union {None}] /\ Floor \in [Tried -> Nat]
  /\ Reserve \in Nat /\ MinKeep \in Nat /\ Memories \in Nat \ {0}
  /\ MaxTries \in Nat /\ DOMAIN Thresholds \subseteq Nat
  /\ \A c \in Cases : ToSet(c.apis) \subseteq Apis /\ c.on \subseteq Tried /\ c.most \in Nat

VARIABLES
  case,          \* the one that is followed
  history,       \* what each client has said and was answered
  ask,           \* the request in progress, or None
  memory,        \* StickyTrimmer._seen, the least recently used first
  settings,      \* [compress, sticky, squash]: of RuntimeSettings, read per attempt
  lastSent,      \* history: the last payload of each conversation for each channel
  edits          \* history: [said, back] rounds said, and those taken back or shortened

shapeVars == <<case, history, ask, memory, settings, lastSent, edits>>

-----------------------------------------------------------------------------
\* Messages in the shape of the chat API: what internal requests hold.
Message(role, says, weight) ==
  [role |-> role, says |-> says, weight |-> weight, image |-> FALSE,
   calls |-> {}, nameless |-> {}, answers |-> None, null |-> FALSE, cut |-> FALSE]

\* A client's message has blocks, [kind, name, weight]: texts, images, torn ones (without an
\* address), documents and tool references, thoughts, sealed thoughts, calls, calls without
\* a name, results.
OfKind(blocks, kinds) == SelectSeq(blocks, LAMBDA b : b.kind \in kinds)
NamesOf(blocks) == [i \in DOMAIN blocks |-> blocks[i].name]
WeightOf(blocks) == FoldLeft(LAMBDA w, b : w + b.weight, 0, blocks)
CallsIn(blocks) == ToSet(NamesOf(OfKind(blocks, {"call", "nameless"})))

Merged(role, blocks) ==
  [Message(role, NamesOf(blocks), WeightOf(blocks))
     EXCEPT !.image = OfKind(blocks, {"image"}) # <<>>]

\* The result of a call bears its name.
ToolMessage(b) == [Message("tool", <<b.name>>, b.weight) EXCEPT !.answers = b.name]

\* A message of the assistant: its texts and thoughts, and the calls it makes.
Assistant(blocks) ==
  LET nameless == ToSet(NamesOf(OfKind(blocks, {"nameless"})))
  IN  [Message("assistant", NamesOf(OfKind(blocks, {"text", "thought"})),
               WeightOf(OfKind(blocks, {"text", "thought"})))
         EXCEPT !.calls = CallsIn(blocks), !.nameless = nameless]

-----------------------------------------------------------------------------
\* Texts and images side by side are one message of the user, each result one of its own.
UserMessages(blocks) ==
  LET Flushed(acc) == IF acc.pending = <<>> THEN acc.out
                      ELSE Append(acc.out, Merged("user", acc.pending))
      Step(acc, b) == IF b.kind = "result"
                      THEN [out |-> Append(Flushed(acc), ToolMessage(b)), pending |-> <<>>]
                      ELSE [acc EXCEPT !.pending = Append(@, b)]
  IN  Flushed(FoldLeft(Step, [out |-> <<>>, pending |-> <<>>], blocks))

\* Sealed thoughts and references mean nothing to an upstream.
AssistantMessages(blocks) ==
  LET kept == SelectSeq(blocks, LAMBDA b : b.kind \notin {"sealed", "reference"})
  IN  IF kept = <<>> THEN <<>> ELSE <<Assistant(kept)>>

MapMessages(item) ==
  IF item.by = "assistant" THEN AssistantMessages(item.blocks)
  ELSE IF item.by = "user" THEN UserMessages(item.blocks)
  ELSE <<Merged("system", item.blocks)>>

\* In the Responses API calls, results and thoughts are items, each of which becomes a
\* message; texts and images are one item.
MapInput(item) ==
  LET Of(b) == IF b.kind = "result" THEN <<ToolMessage(b)>>
               ELSE IF b.kind = "sealed" THEN <<>>
               ELSE <<Assistant(<<b>>)>>
      said == OfKind(item.blocks, {"text", "image"})
      role == IF item.by = "developer" THEN "system" ELSE item.by
  IN  FlattenSeq([i \in DOMAIN item.blocks |->
                    IF item.blocks[i].kind \notin {"text", "image"} THEN Of(item.blocks[i])
                    ELSE IF item.blocks[i] = said[1] THEN <<Merged(role, said)>> ELSE <<>>])

\* The clients of the chat API say what goes upstream: a message of calls alone has a
\* null content, and the instructions may be those of a developer.
AsSaid(item) ==
  IF item.by = "assistant"
  THEN <<[Assistant(item.blocks) EXCEPT
            !.null = OfKind(item.blocks, {"text"}) = <<>>]>>
  ELSE LET others == SelectSeq(item.blocks, LAMBDA b : b.kind # "result")
           results == OfKind(item.blocks, {"result"})
       IN  [i \in DOMAIN results |-> ToolMessage(results[i])]
           \o (IF others = <<>> THEN <<>> ELSE <<Merged(item.by, others)>>)

Translated(api, items) ==
  FlattenSeq([i \in DOMAIN items |->
    CASE api = "messages" -> MapMessages(items[i])
      [] api = "responses" -> MapInput(items[i])
      [] OTHER -> AsSaid(items[i])])

\* What is answered with 400 before anything is asked of anyone.
UnfitForChat(b) == b.kind = "torn"
UnfitForMessages(by, b) == by = "developer" \/ b.kind \in {"nameless", "torn"}
UnfitForResponses(b) == b.kind \in {"nameless", "document", "reference", "torn"}

InvalidFor(api, items) ==
  \E item \in ToSet(items) : \E b \in ToSet(item.blocks) :
    CASE api = "messages" -> UnfitForMessages(item.by, b)
      [] api = "responses" -> UnfitForResponses(b)
      [] OTHER -> UnfitForChat(b)

-----------------------------------------------------------------------------
Weighs(m) == m.weight + Cardinality(m.calls)
Total(ms) == FoldLeft(LAMBDA w, m : w + Weighs(m), 0, ms)
IsSystem(m) == m.role = "system"
Systems(ms) == SelectSeq(ms, IsSystem)
Body(ms) == SelectSeq(ms, LAMBDA m : ~IsSystem(m))
From(ms, i) == SubSeq(ms, i, Len(ms))

\* A message that calls and the results that follow it are one group.
GroupedByFirst(body, i) ==                                       \* A wrong variant
  body[i].role = "tool" /\ i > 1 /\ body[i - 1].role = "assistant" /\ body[i - 1].calls # {}
Grouped(body, i) ==
  /\ body[i].role = "tool"
  /\ \E j \in 1..(i - 1) :
       /\ body[j].role = "assistant" /\ body[j].calls # {}
       /\ \A k \in (j + 1)..i : body[k].role = "tool"

GroupStarts(body) == {i \in DOMAIN body : ~Grouped(body, i)}

\* From the newest group to the oldest, as long as they fit or too few messages are kept:
\* what is kept is what comes after one place.
TrimStart(systems, body, budget) ==
  LET starts == GroupStarts(body)
      End(s) == CHOOSE e \in s..Len(body) :
                  (e = Len(body) \/ (e + 1) \in starts) /\ \A k \in (s + 1)..e : k \notin starts
      Kept(s) == \/ Len(body) - End(s) < MinKeep
                 \/ Total(systems) + Total(From(body, s)) <= budget
      all == {s \in starts : \A t \in starts : t >= s => Kept(t)}
  IN  IF all = {} THEN Len(body) + 1 ELSE CHOOSE s \in all : \A t \in all : s <= t

\* Still too long: the longest texts are cut, each once, until it fits.
Cuttable(m) == ~IsSystem(m) /\ ~m.image /\ m.weight >= Long
Cutting(ms, budget) ==
  LET longest == SetToSortSeq({i \in DOMAIN ms : Cuttable(ms[i])},
                   LAMBDA i, j : \/ ms[i].weight > ms[j].weight
                                 \/ ms[i].weight = ms[j].weight /\ i < j)
      Shorten(done, i) == IF Total(done) <= budget THEN done
                          ELSE [done EXCEPT ![i].weight = Cut, ![i].cut = TRUE]
  IN  FoldLeft(Shorten, ms, longest)

TrimToBudget(ms, budget) ==
  LET start == TrimStart(Systems(ms), Body(ms), budget)
  IN  [messages |-> Cutting(Systems(ms) \o From(Body(ms), start), budget), start |-> start]
-----------------------------------------------------------------------------
\* The sticky trimmer: where the last cut was made is remembered for each conversation
\* and channel, by the first three messages, with the message found there.
LowWater(budget) == (budget * 3) \div 5

KeyByAll(u, ms) == [to |-> u, head |-> ms]                          \* A wrong variant
KeyOf(u, ms) == [to |-> u, head |-> SubSeq(ms, 1, IF Len(ms) < 3 THEN Len(ms) ELSE 3)]

Minus(mem, key) == SelectSeq(mem, LAMBDA e : e.key # key)
Known(mem, key) == {i \in DOMAIN mem : mem[i].key = key}

Remember(mem, key, body, start) ==
  IF start > Len(body) THEN Minus(mem, key)
  ELSE LET added == Append(Minus(mem, key),
                           [key |-> key, start |-> start, digest |-> body[start]])
       IN  IF Len(added) > Memories THEN Tail(added) ELSE added

Reusable(body, systems, e, budget) ==
  /\ e.start <= Len(body)
  /\ body[e.start] = e.digest
  /\ e.start \in GroupStarts(body)
  /\ Total(systems \o From(body, e.start)) <= budget

StickyTrim(mem, key, ms, budget) ==
  LET body == Body(ms)
      reused == {i \in Known(mem, key) : Reusable(body, Systems(ms), mem[i], budget)}
      fresh == TrimToBudget(ms, LowWater(budget))
  IN  IF budget = 0 \/ Total(ms) <= budget
      THEN [messages |-> ms, memory |-> Minus(mem, key)]
      ELSE IF reused # {}
      THEN LET e == mem[CHOOSE i \in reused : TRUE]
           IN  [messages |-> Systems(ms) \o From(body, e.start),
                memory |-> Append(Minus(mem, key), e)]
      ELSE [messages |-> fresh.messages, memory |-> Remember(mem, key, body, fresh.start)]

\* Without it: cut anew each time.
PlainTrim(ms, budget) ==
  IF budget = 0 \/ Total(ms) <= budget THEN ms ELSE TrimToBudget(ms, budget).messages

\* The window of the channel, as the catalogue declares it, or what is known of it.
Budget(u) ==
  LET window == IF Window[u] < Floor[u] THEN Floor[u] ELSE Window[u]
  IN  IF window > Reserve THEN window - Reserve ELSE 0

\* Long outputs of tools are shortened, the same way each time.
Squashed(m) ==
  IF m.role = "tool" /\ ~m.image /\ m.weight >= Long THEN [m EXCEPT !.weight = 1] ELSE m

\* What compress() makes of the messages for a channel, and what it remembers.
Compressed(u, raw) ==
  LET ms == IF settings.squash THEN [i \in DOMAIN raw |-> Squashed(raw[i])] ELSE raw
  IN  IF ~settings.compress \/ Window[u] = None
      THEN [messages |-> ms, memory |-> memory]
      ELSE IF settings.sticky
      THEN StickyTrim(memory, KeyOf(u, ms), ms, Budget(u))
      ELSE [messages |-> PlainTrim(ms, Budget(u)), memory |-> memory]
-----------------------------------------------------------------------------
\* The clients of the channels copy the messages and change the copy.
AsSystem(m) == IF m.role = "developer" THEN [m EXCEPT !.role = "system"] ELSE m
NamedOnly(m) == [m EXCEPT !.calls = @ \ m.nameless, !.nameless = {}]
Hollow(m) == m.nameless # {} /\ m.calls = m.nameless /\ m.null

\* Calls without a name go, with their results and with messages that held nothing else.
CodeBuddyBody(ms) ==
  LET orphans == UNION {m.nameless : m \in ToSet(ms)}
      kept == SelectSeq(ms, LAMBDA m : ~Hollow(m) /\ ~(m.role = "tool" /\ m.answers \in orphans))
  IN  [i \in DOMAIN kept |-> AsSystem(NamedOnly(kept[i]))]

\* The gateway abroad wants a system message first.
Placeholder == Message("system", <<<<None, None, 0>>>>, 1)
IntlBody(ms) ==
  LET body == CodeBuddyBody(ms)
  IN  IF body = <<>> \/ IsSystem(body[1]) THEN body ELSE <<Placeholder>> \o body

\* As above, and results of calls that no message makes go, too.
TraeBody(ms) ==
  LET kept == [i \in DOMAIN ms |-> AsSystem(ms[i])]
      named == SelectSeq(kept, LAMBDA m : ~Hollow(m))
      body == [i \in DOMAIN named |-> NamedOnly(named[i])]
      made == UNION {m.calls : m \in ToSet(body)}
  IN  SelectSeq(body, LAMBDA m : ~(m.role = "tool" /\ m.answers \notin made))

\* A result must follow the message that calls, or several of them in a row.
QoderBody(ms) ==
  LET Step(acc, m) ==
        IF m.role = "tool"
        THEN IF m.answers \in acc.made
             THEN [acc EXCEPT !.out = Append(@, [m EXCEPT !.null = FALSE]), !.last = "tool"]
             ELSE acc
        ELSE [out |-> Append(acc.out, [m EXCEPT !.null = FALSE]),
              made |-> IF m.role # "assistant" THEN {}
                       ELSE IF acc.last = "assistant" /\ m.calls # {} THEN acc.made \union m.calls
                       ELSE m.calls,
              last |-> m.role]
  IN  FoldLeft(Step, [out |-> <<>>, made |-> {}, last |-> None], ms).out

BodyFor(u, ms) ==
  CASE u = "codebuddy" -> CodeBuddyBody(ms)
    [] u = "intl" -> IntlBody(ms)
    [] u = "trae" -> TraeBody(ms)
    [] u = "qoder" -> QoderBody(ms)
    [] OTHER -> ms

\* Tools are not copied: CodeBuddy takes the marks of other makers out of their
\* descriptions where they are.
ToolsAfter(u, tools) == IF u \in {"codebuddy", "intl"} /\ tools = "marked" THEN "unmarked" ELSE tools

-----------------------------------------------------------------------------
\* The effort: mapped for the channel, then lowered to what was left after a refusal.
MapEffort(u, effort) ==
  IF effort # None /\ effort \in DOMAIN EffortMap[u] THEN EffortMap[u][effort] ELSE effort

ClampEffort(effort, cap) == IF cap = None \/ effort = None THEN effort ELSE cap

\* In the messages API it is said outright, or with a budget for thinking: the highest
\* threshold it reaches counts.
WishedEffort(api, wish) ==
  LET reached == {t \in DOMAIN Thresholds : t <= wish.budget}
  IN  IF api = "messages" /\ wish.effort = None /\ reached # {}
      THEN Thresholds[CHOOSE t \in reached : \A r \in reached : r <= t]
      ELSE wish.effort

\* One step down; the lowest has no lower one.
Lower(effort) ==
  LET i == CHOOSE k \in DOMAIN Efforts : Efforts[k] = effort
  IN  IF i = Len(Efforts) THEN None ELSE Efforts[i + 1]

-----------------------------------------------------------------------------
\* The body that an unfinished answer is continued with: not trimmed again.
Extended(ms) ==
  ms \o <<Message("assistant", <<<<None, None, 1>>>>, 1), Message("user", <<<<None, None, 2>>>>, 1)>>

\* Texts are named by the round they were said in; what is said in the first rounds of
\* all conversations is the same.
Stamped(round, v, n) ==
  LET Tag(item) == [item EXCEPT !.blocks =
        [i \in DOMAIN @ |-> [@[i] EXCEPT !.name = <<IF n = 0 THEN None ELSE v, n, @>>]]]
  IN  [i \in DOMAIN round |-> Tag(round[i])]

Talking == DOMAIN case.apis
ApiOf(v) == case.apis[v]
NothingSent(talkers) == [v \in talkers |-> [u \in Tried |-> None]]

ShapesInit ==
  /\ case \in Cases
  /\ history = [v \in DOMAIN case.apis |-> <<>>]
  /\ ask = None
  /\ memory = <<>>
  /\ settings \in {[compress |-> TRUE, sticky |-> s, squash |-> FALSE] : s \in BOOLEAN}
  /\ lastSent = NothingSent(DOMAIN case.apis)
  /\ edits = [said |-> 0, back |-> 0]

\* A client adds to its history and asks.
Asks(v) ==
  \E round \in IF history[v] = <<>> THEN case.openings ELSE case.rounds, wish \in case.wishes :
    LET said == Append(history[v], Stamped(round, v, IF history[v] = <<>> THEN 0 ELSE edits.said))
        items == FlattenSeq(said)
    IN  /\ ask = None /\ edits.said < case.most
        /\ ~InvalidFor(ApiOf(v), items)
        /\ history' = [history EXCEPT ![v] = said]
        /\ edits' = [edits EXCEPT !.said = @ + 1]
        /\ ask' = [by |-> v, raw |-> Translated(ApiOf(v), items), tools |-> wish.tools,
                   effort |-> WishedEffort(ApiOf(v), wish), cap |-> None, at |-> "open",
                   same |-> None, tries |-> 0, skipped |-> {}, refused |-> {},
                   to |-> None, payload |-> <<>>, body |-> <<>>, sent |-> None, longer |-> FALSE]
        /\ UNCHANGED <<case, memory, settings, lastSent>>

\* It takes back what was said last, or its older texts are shortened by it.
TakesBack(v) ==
  /\ ask = None /\ Len(history[v]) > 1 /\ case.edits /\ edits.back = 0
  /\ \/ history' = [history EXCEPT ![v] = Front(@)]
     \/ history' = [history EXCEPT ![v] = [n \in DOMAIN @ |->
          IF n = Len(@) THEN @[n]
          ELSE [i \in DOMAIN @[n] |-> [@[n][i] EXCEPT !.blocks =
                 [k \in DOMAIN @ |-> [@[k] EXCEPT !.weight = IF @ = 0 THEN 0 ELSE 1]]]]]]
  /\ edits' = [edits EXCEPT !.back = 1]
  /\ lastSent' = [lastSent EXCEPT ![v] = [u \in Tried |-> None]]
  /\ UNCHANGED <<case, ask, memory, settings>>

\* An attempt on a channel, or again on the same one.
Tries(u) ==
  LET made == Compressed(u, ask.raw)
      sent == ClampEffort(MapEffort(u, ask.effort), ask.cap)
  IN  /\ ask # None /\ ask.at = "open" /\ u \in case.on \ ask.skipped
      /\ IF ask.same = None THEN ask.tries < MaxTries ELSE u = ask.same
      /\ memory' = made.memory
      /\ ask' = [ask EXCEPT !.at = "sent", !.to = u, !.same = None,
                   !.tries = IF ask.same = None THEN @ + 1 ELSE @,
                   !.payload = made.messages, !.body = BodyFor(u, made.messages),
                   !.tools = ToolsAfter(u, @), !.sent = sent]
      /\ lastSent' = [lastSent EXCEPT ![ask.by][u] = made.messages]
      /\ UNCHANGED <<case, history, settings, edits>>

\* The upstream does not take the effort: one step lower on the same account, once, and
\* then the channel is skipped.
Declined ==
  /\ ask # None /\ ask.at = "sent" /\ ask.sent # None /\ ~ask.longer
  /\ LET lower == IF ask.cap = None THEN Lower(ask.sent) ELSE None
     IN  ask' = IF lower # None
                THEN [ask EXCEPT !.at = "open", !.cap = lower, !.same = ask.to,
                        !.refused = @ \union {<<ask.to, ask.sent>>}]
                ELSE [ask EXCEPT !.at = "open", !.skipped = @ \union {ask.to},
                        !.refused = @ \union {<<ask.to, ask.sent>>}]
  /\ UNCHANGED <<case, history, memory, settings, lastSent, edits>>

\* Another account, perhaps of another channel.
Rotates ==
  /\ ask # None /\ ask.at = "sent" /\ ~ask.longer
  /\ ask' = [ask EXCEPT !.at = "open"]
  /\ UNCHANGED <<case, history, memory, settings, lastSent, edits>>

\* The answer was cut: it is asked to go on, by the same account.
GoesOnWith ==
  /\ ask # None /\ ask.at = "sent" /\ ~ask.longer
  /\ ask' = [ask EXCEPT !.payload = Extended(@), !.body = BodyFor(ask.to, Extended(ask.payload)),
               !.longer = TRUE]
  /\ UNCHANGED <<case, history, memory, settings, lastSent, edits>>

Answered ==
  /\ ask # None
  /\ ask.at = "sent" \/ ask.tries = MaxTries \/ ask.skipped = case.on
  /\ ask' = None
  /\ UNCHANGED <<case, history, memory, settings, lastSent, edits>>

Switches ==
  /\ ask = None /\ case.switches /\ edits.said > 0
  /\ \/ settings' = [settings EXCEPT !.squash = TRUE]
     \/ settings' = [settings EXCEPT !.compress = ~@]
  /\ lastSent' = NothingSent(Talking)
  /\ UNCHANGED <<case, history, ask, memory, edits>>

ShapesNext ==
  \/ \E v \in Talking : Asks(v) \/ TakesBack(v)
  \/ \E u \in Tried : Tries(u)
  \/ Declined \/ Rotates \/ GoesOnWith \/ Answered \/ Switches
-----------------------------------------------------------------------------
Sending == ask # None /\ ask.at = "sent"
Made(ms) == UNION {m.calls : m \in ToSet(ms)}
ResultsIn(ms) == {m.answers : m \in {x \in ToSet(ms) : x.role = "tool"}}
Mended == ask.to \in {"trae", "qoder"}

\* A call and its results live and die together (compress.py 21-22, 178-200): no result is
\* sent without its call and no call without the results the client has sent, however the
\* history is cut, whichever messages the client of the channel drops.  Calls of the
\* Responses API are messages of their own, of which a cut may keep the last alone: there
\* it holds for the channels that look for orphans.
PairsIntact ==
  /\ ApiOf(ask.by) # "responses" \/ Mended =>
       \A i \in DOMAIN ask.body :
         LET m == ask.body[i] IN
           m.role = "tool" /\ m.answers \in Made(ask.raw) =>
             \E j \in 1..(i - 1) : m.answers \in ask.body[j].calls
  /\ Made(ask.body) \cap ResultsIn(ask.raw) \subseteq ResultsIn(ask.body)

\* What is dropped was dropped for want of room.
DroppedForRoom ==
  Len(ask.payload) < Len(ask.raw) =>
    /\ settings.compress
    /\ Window[ask.to] # None
    /\ Total(ask.raw) > Budget(ask.to)

\* What was said last reaches the upstream, with the instructions.
LatestIn ==
  LET last == Last(ask.raw) IN
  /\ last.role # "tool" => \E m \in ToSet(ask.body) : m.says = last.says
  /\ \A m \in ToSet(Systems(ask.raw)) : m \in ToSet(ask.body)

\* What is sent fits, or no more could be done: too few messages are kept to drop one,
\* and all that is long is cut.
Fits ==
  settings.compress /\ Window[ask.to] # None /\ Budget(ask.to) > 0 /\ ~ask.longer =>
    \/ Total(ask.payload) <= Budget(ask.to)
    \/ LET kept == Body(ask.payload) IN
       /\ \A i \in GroupStarts(kept) : i > 1 => Len(kept) - (i - 1) < MinKeep + 1
       /\ \A m \in ToSet(ask.payload) : ~Cuttable(m)

\* An effort that was refused is not asked for again.
EffortLowered == <<ask.to, ask.sent>> \notin ask.refused

\* What a channel is asked is what the client has said, as far as there is room for it
\* (engine/compress.py, sticky_trim.py, the prepare_body of each channel).
AsksWhole == Sending => PairsIntact /\ DroppedForRoom /\ LatestIn /\ Fits /\ EffortLowered

\* As long as there is room for all that came after the place where a conversation was
\* cut, the next round is sent what the last one was, word for word, and what came after:
\* the upstream has that in its cache (sticky_trim.py 10-21).  Unless texts were cut in
\* it, which the next round sends in full; and but for conversations that begin alike.
Stands(v, u) ==
  LET old == lastSent[v][u]
      ms == IF settings.squash THEN [i \in DOMAIN ask.raw |-> Squashed(ask.raw[i])] ELSE ask.raw
      place == CHOOSE i \in DOMAIN Body(ms) : Body(ms)[i] = Body(old)[1]
  IN  /\ Window[u] # None
      /\ settings.sticky \/ Total(ms) <= Budget(u)
      /\ \A m \in ToSet(old) : ~m.cut
      /\ Systems(old) = Systems(ms)
      /\ Total(Systems(ms) \o From(Body(ms), place)) <= Budget(u)
PrefixKept ==
  [][\A v \in Talking, u \in Tried :
       /\ Cardinality(Talking) = 1 /\ ask # None /\ lastSent[v][u] # None
       /\ lastSent'[v][u] # lastSent[v][u] /\ Stands(v, u)
       => IsPrefix(lastSent[v][u], lastSent'[v][u])]_shapeVars
=============================================================================
