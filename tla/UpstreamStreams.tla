---------------------------- MODULE UpstreamStreams ----------------------------
(***************************************************************************)
(* What a channel's client makes of an upstream's stream: its frames       *)
(* become the events the executor reads (stream_chat and parse_all_events  *)
(* of each channel, openai_chunk), its refusals and breakdowns a verdict   *)
(* (ErrorClasses), its silence a timeout (_next_event).                    *)
(*                                                                         *)
(* Of a stream only the latest frame is kept, and what later frames refer  *)
(* to: the calls begun, the text shown, the reason told.                   *)
(***************************************************************************)
EXTENDS ErrorClasses

CONSTANTS
  Channels,
  Answers,        \* HTTP answers the channels are documented to give:
                  \* [via, status, cause, signs]
  Troubles,       \* errors inside their streams, likewise
  Layerings,      \* bodies that say a request is queued, as layers
  Hints,          \* Retry-After headers and reset moments of bodies
  Hosts,          \* Qoder: the hosts of the realm
  Index,          \* positions of tool calls in an answer
  MaxFrames,      \* bound of the model
  Patience        \* stream_idle_timeout_seconds, in ticks

ASSUME StreamConstants ==
  /\ {Hosts, MaxFrames, Patience} \subseteq Nat \ {0}
  /\ None \notin {"stop", "tool_calls", "length"}

VARIABLES
  via,          \* the channel
  stage,        \* "asked", "open" or "over"
  upstream,     \* [host, gated, full, frames, begun, text, reason]
  said,         \* the latest frame
  events,       \* what it became
  told,         \* [opened, dropped, text, reason] what the executor has heard
  silence,      \* ticks since the last event that carries data
  verdict       \* [cause, kind, wait, hint]

streamVars == <<via, stage, upstream, said, events, told, silence, verdict>>

OpenAI == {"codebuddy", "officeace", "zen", "kilo", "raccoon"}

Nothing == [call |-> None, text |-> <<>>, think |-> FALSE, usage |-> FALSE,
            reason |-> None, other |-> FALSE]

Fine == [cause |-> None, kind |-> None, wait |-> None, hint |-> None]

StreamsInit ==
  /\ via \in Channels
  /\ stage = "asked"
  /\ \E full \in BOOLEAN :
       /\ full => via = "codearts"
       /\ upstream = [host |-> IF via = "qoder" THEN Hosts ELSE 1, gated |-> FALSE,
                      full |-> full, frames |-> 0, begun |-> {}, text |-> <<>>, reason |-> None]
  /\ said = Nothing /\ events = <<>>
  /\ told = [opened |-> {}, dropped |-> {}, text |-> <<>>, reason |-> None]
  /\ silence = 0
  /\ verdict = Fine
-----------------------------------------------------------------------------
(* From frames to events.                                                  *)

Ev(kind, what) == [kind |-> kind, what |-> what]

First(s) == IF s = <<>> THEN <<>> ELSE <<Head(s)>>

When(cond, event) == IF cond THEN <<event>> ELSE <<>>

\* is_blank_tool_call: neither a name nor arguments; CodeArts has no such filter
Blank(call) == call.name = "blank" /\ via # "codearts"

Calls(c) == IF c.call = None THEN <<>> ELSE When(~Blank(c.call), Ev("call", c.call))
Text(c) == When(c.text # <<>>, Ev("text", c.text))
Think(c) == When(c.think, Ev("think", None))
Usages(c) == When(c.usage, Ev("usage", None))
Reason(c) == When(c.reason # None, Ev("finish", c.reason))

\* openai_events: one event stands for what the chunk says, usage and reason follow
OpenAIEvents(c) ==
  First(Calls(c) \o Text(c) \o Think(c)) \o Usages(c) \o Reason(c)

\* parse_inner_chunk
QoderEvents(c) == Calls(c) \o Text(c) \o Think(c) \o Usages(c) \o Reason(c)

\* TextSnapshot: the text is what has been said so far, its new end is passed on
Delta(full) ==
  IF IsPrefix(upstream.text, full) THEN SubSeq(full, Len(upstream.text) + 1, Len(full)) ELSE full

CodeArtsEvents(c) ==
  IF upstream.full
  THEN When(Delta(c.text) # <<>>, Ev("text", Delta(c.text))) \o Usages(c)
  ELSE Calls(c) \o Text(c) \o Think(c) \o Reason(c) \o Usages(c)

\* the call of a chunk is its first event
Led(es, kind) == es # <<>> /\ Head(es).kind = kind

\* A wrong Filtered: the fragments of a call that was dropped are kept.
FilteredByName(c, all) ==
  IF Led(all, "call") /\ Head(all).what.name = "fake" THEN Tail(all) ELSE all

\* Zen: calls to tools the gate asked for and the client does not have are dropped,
\* and where none is left the reason is not tool_calls
Filtered(c, all) ==
  LET lost(call) == call.name = "fake" \/ call.index \in told.dropped
      kept == IF Led(all, "call") /\ lost(Head(all).what) THEN Tail(all) ELSE all
      any == told.opened # {} \/ Led(kept, "call")
  IN [i \in DOMAIN kept |->
        IF kept[i].kind = "finish" /\ kept[i].what = "tool_calls" /\ ~any THEN Ev("finish", "stop") ELSE kept[i]]

Decoded(c) ==
  CASE via = "zen" -> Filtered(c, OpenAIEvents(c))
    [] via \in OpenAI \ {"zen"} -> OpenAIEvents(c)
    [] via = "codearts" -> CodeArtsEvents(c)
    [] OTHER -> QoderEvents(c)       \* and parse_all_events of TRAE

-----------------------------------------------------------------------------
(* What an upstream may say.                                               *)

Names == IF via = "zen" THEN {"own", "fake"} ELSE {"own"}

\* calls come in fragments, the first one bears the name
Fragment ==
  {None} \union {f \in [index : Index, name : Names \union {"more", "blank"}] :
                   /\ f.name \in Names <=> f.index \notin upstream.begun
                   /\ f.name = "blank" => via # "codearts"}

Texts ==
  IF upstream.full THEN {<<1>>, <<2>>, <<1, 2>>, <<2, 2>>} ELSE {<<>>, <<1>>}

\* TRAE's frames are of one sort, one that shows the whole text says nothing else
Frame1(c) ==
  LET output == c.call # None \/ c.text # <<>> \/ c.think IN
  /\ via = "trae" => Cardinality({i \in 1 .. 3 : <<output, c.usage, c.reason # None>>[i]}) = 1
  /\ upstream.full => c.call = None /\ ~c.think /\ c.reason = None
  /\ c.other => via = "raccoon"
  /\ upstream.reason # None => ~output /\ c.reason = None
  /\ c.reason = "tool_calls" => upstream.begun # {} \/ c.call # None

Chunk ==
  {c \in [call : Fragment, text : Texts, think : BOOLEAN, usage : BOOLEAN,
          reason : {None, "stop", "tool_calls", "length"}, other : BOOLEAN] :
     c # Nothing /\ Frame1(c)}

-----------------------------------------------------------------------------
Judged(cause, kind, wait, hint) ==
  /\ verdict' = [cause |-> cause, kind |-> kind, wait |-> wait, hint |-> hint]
  /\ stage' = "over"

\* what the events of a frame say of a kind; there is one of a kind at most
Whats(es, kind) == {e.what : e \in {f \in Range(es) : f.kind = kind}}
What(es, kind) == CHOOSE w \in Whats(es, kind) : TRUE

Passes(es) ==
  /\ events' = es
  /\ told' = [told EXCEPT
          !.opened = @ \union {f.index : f \in {g \in Whats(es, "call") : g.name = "own"}},
          !.text = IF upstream.full /\ Whats(es, "text") # {} THEN @ \o What(es, "text") ELSE @,
          !.reason = IF Whats(es, "finish") = {} THEN @ ELSE What(es, "finish"),
          !.dropped = IF said'.call # None /\ said'.call.name = "fake"
                      THEN @ \union {said'.call.index} ELSE @]

Connect ==
  /\ stage = "asked"
  /\ stage' = "open"
  /\ UNCHANGED <<via, upstream, said, events, told, silence, verdict>>

\* an answer that is no stream; Zen's gate is asked a second time, once
TurnedDown ==
  /\ stage = "asked"
  /\ \E a \in Answers :
       /\ a.via = via
       /\ IF via = "zen" /\ a.status = 403 /\ ~upstream.gated
          THEN /\ upstream' = [upstream EXCEPT !.gated = TRUE]
               /\ UNCHANGED <<stage, verdict>>
          ELSE /\ UNCHANGED upstream
               /\ \E layers \in Layerings, hint \in Hints :
                    LET wait == IF a.cause = "queued" THEN QueueWait(layers) ELSE None
                        S == a.signs \union IF wait = None THEN {} ELSE {"queued"}
                    IN Judged(a.cause, Classify(via, a.status, S), wait,
                              RetryHint(via, hint[1], hint[2]))
  /\ UNCHANGED <<via, said, events, told, silence>>

Speaks ==
  /\ stage = "open" /\ upstream.frames < MaxFrames
  /\ \E c \in Chunk :
       /\ said' = c
       /\ upstream' = [upstream EXCEPT
            !.frames = @ + 1,
            !.begun = IF c.call = None \/ c.call.name \notin Names THEN @
                      ELSE @ \union {c.call.index},
            !.text = IF upstream.full THEN c.text ELSE @,
            !.reason = IF c.reason = None THEN @ ELSE c.reason]
       /\ IF c.other /\ Decoded(c) # <<>>
          THEN /\ events' = <<>> /\ UNCHANGED <<told, silence>>
               /\ Judged("swapped", None, None, None)
          ELSE /\ Passes(Decoded(c))
               /\ silence' = IF Decoded(c) = <<>> THEN silence ELSE 0
               /\ UNCHANGED <<stage, verdict>>
  /\ UNCHANGED via

\* A wrong Murmurs: what carries no data shows that somebody is there.
MurmursCount ==
  /\ stage = "open"
  /\ said' = Nothing /\ events' = <<>> /\ silence' = 0
  /\ UNCHANGED <<via, stage, upstream, told, verdict>>

\* comments, bodies of null, brackets, metadata, and what CodeBuddy says of errors
Murmurs ==
  /\ stage = "open"
  /\ said' = Nothing /\ events' = <<>>
  /\ UNCHANGED <<via, stage, upstream, told, silence, verdict>>

\* data:[DONE], the last frame: the end to CodeArts, nothing to the others
Done ==
  /\ stage = "open" /\ upstream.frames \in 1 .. MaxFrames
  /\ via \in OpenAI \union {"qoder", "codearts"}
  /\ said' = Nothing
  /\ Passes(When(via = "codearts", Ev("finish", "stop")))
  /\ silence' = IF via = "codearts" THEN 0 ELSE silence
  /\ upstream' = [upstream EXCEPT !.frames = MaxFrames + 1]
  /\ UNCHANGED <<via, stage, verdict>>

Troubled ==
  /\ stage = "open" /\ via # "codebuddy"
  /\ \E a \in Troubles, layers \in Layerings :
       LET wait == IF a.cause = "queued" THEN QueueWait(layers) ELSE None
           S == a.signs \union IF wait = None THEN {} ELSE {"queued"}
       IN /\ a.via = via
          /\ Judged(a.cause, ClassifyInStream(via, a.status, S), wait, None)
  /\ said' = Nothing /\ events' = <<>>
  /\ UNCHANGED <<via, upstream, told, silence>>

\* a frame that cannot be read, or is too long: no kind is known for it
Garbled ==
  /\ stage = "open"
  /\ Judged("garbled", None, None, None)
  /\ said' = Nothing /\ events' = <<>>
  /\ UNCHANGED <<via, upstream, told, silence>>

\* the names or the proxy of this machine, TLS, or the link; Qoder asks the next host
\* about anything but TLS
Breaks ==
  /\ stage # "over"
  /\ \E how \in {"unreachable", "tls", "link"} :
       /\ how = "unreachable" => stage = "asked"
       /\ IF how # "tls" /\ upstream.host > 1
          THEN /\ upstream' = [upstream EXCEPT !.host = @ - 1, !.frames = 0, !.begun = {},
                                               !.reason = None]
               /\ stage' = "asked"
               /\ UNCHANGED verdict
          ELSE /\ Judged(how, IF how = "unreachable" THEN "network" ELSE "soft", None, None)
               /\ UNCHANGED upstream
  /\ said' = Nothing /\ events' = <<>>
  /\ UNCHANGED <<via, told, silence>>

Ends ==
  /\ stage = "open"
  /\ stage' = "over"
  /\ said' = Nothing /\ events' = <<>>
  /\ UNCHANGED <<via, upstream, told, silence, verdict>>

Tick ==
  /\ stage # "over" /\ silence < Patience
  /\ silence' = silence + 1
  /\ UNCHANGED <<via, stage, upstream, said, events, told, verdict>>

\* _StreamTimeout, before the first event or later
TimesOut ==
  /\ stage # "over" /\ silence = Patience
  /\ Judged("silent", "soft", None, None)
  /\ UNCHANGED <<via, upstream, said, events, told, silence>>

StreamsNext ==
  \/ Connect \/ TurnedDown \/ Speaks \/ Murmurs \/ Done \/ Troubled \/ Garbled
  \/ Breaks \/ Ends \/ Tick \/ TimesOut

StreamsSpec == StreamsInit /\ [][StreamsNext]_streamVars

-----------------------------------------------------------------------------
(* Properties.                                                             *)

KindsOf(es) == [i \in DOMAIN es |-> es[i].kind]

\* What a frame says is heard once, in its order, but for these: noise; text or thought
\* beside a call, thought beside text, of which the chunk's one event is the first
\* (openai_chunk.py 136-137); calls nobody could answer.
Outranked(kind) ==
  /\ via \in OpenAI
  /\ \/ kind \in {"text", "think"} /\ Calls(said) # <<>>
     \/ kind = "think" /\ said.text # <<>>

Dropped(call) == via = "zen" /\ call.index \in told.dropped

Expected ==
  LET parts == Calls(said) \o Text(said) \o Think(said) \o Usages(said) \o Reason(said) IN
  {parts[i].kind : i \in {j \in DOMAIN parts :
     /\ ~Outranked(parts[j].kind)
     /\ parts[j].kind = "call" => ~Dropped(parts[j].what)
     /\ upstream.full => parts[j].kind # "text"}}

PartsHeard ==
  said # Nothing /\ stage = "open" =>
    /\ Expected \subseteq Range(KindsOf(events))
    /\ IsInjective(KindsOf(events))
    /\ Range(KindsOf(events)) \subseteq {"call", "text", "think", "usage", "finish"}

\* no fragment of a call is heard without its beginning, nor tool_calls without a call
CallsWhole ==
  /\ \A i \in DOMAIN events :
       events[i].kind = "call" => events[i].what.index \in told.opened
  /\ told.reason = "tool_calls" => told.opened # {}
  /\ told.opened \cap told.dropped = {}

\* a text shown as a whole is the end of what has been passed on
TextShown == IsSuffix(upstream.text, told.text)

\* Nothing a stream says is lost or doubled on the way to the executor, whatever lies
\* together in a frame, comes in fragments or is shown again as a whole
\* (openai_chunk.py 183-196, zen/client.py 318-359, codearts/events.py 149-169).
HeardAsSaid == PartsHeard /\ CallsWhole /\ TextShown

\* What a cause may cost the pool: a queue, the request itself or this machine nothing,
\* an account only what the account has done.
Deserved(cause) ==
  CASE cause \in {"queued", "risk", "malformed", "tooLarge", "context", "unreachable",
                  "gate", "swapped", "garbled"} -> 0
    [] cause \in {"badParams", "incapable", "noModel", "paid"} -> 1
    [] cause \in {"absent", "throttled", "crowded", "node"} -> 2
    [] cause = "dead" -> 4
    [] OTHER -> 3

\* An answer costs the pool no more than its cause deserves, whatever status it is
\* wrapped in; who is only to wait is told how long, never into the past
\* (base.py 300-361, qoder/events.py 207-237, codearts/events.py 97-109).
BlameFits ==
  stage = "over" =>
    /\ Harm(verdict.kind) <= Deserved(verdict.cause)
    /\ verdict.cause = "queued" => verdict.kind = "queue" /\ verdict.wait # None
    /\ verdict.hint # None => verdict.hint >= 0
=============================================================================
