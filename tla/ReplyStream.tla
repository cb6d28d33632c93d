----------------------------- MODULE ReplyStream -----------------------------
(***************************************************************************)
(* A streamed reply on its way to the client: the events of an upstream    *)
(* attempt (Executor._stream_loop), the translator that turns each into    *)
(* frames, with_keepalive between the executor and the server, the quota   *)
(* slot of the request around it, and a client that may leave at any time. *)
(* An attempt that broke before it gave the client a frame is followed by  *)
(* another with the same translator, or by the next model of a fallback    *)
(* chain.  Which credential an attempt takes is in ChatEngine.             *)
(*                                                                         *)
(* There are three translators of neutral upstream events into the frames  *)
(* of a public API: compat/openai/response.py (chat), compat/responses/    *)
(* response.py and compat/anthropic/response.py, with the filter of chat   *)
(* that looks for tool calls an upstream leaks into its text               *)
(* (compat/openai/dsml.py).  A translator is a record; translating an      *)
(* event gives its next state and the frames for the client.               *)
(*                                                                         *)
(* A text event is a piece, and split says what it makes of the text that  *)
(* is held: "plain" has no beginning of a leaked call, or goes on within   *)
(* one, "open" has a beginning, "broken" ends in what the filter takes for *)
(* no beginning after all (or for none, once a tag inside was closed),     *)
(* "call" makes a call whole and leaves nothing open, "within" makes one   *)
(* whole while its outer tag, or the beginning of another, stays open.     *)
(* The rest of a piece is what is left of it once whole calls are cut out: *)
(* "none", "tag" (while something is open) or "text" that lies around one. *)
(*                                                                         *)
(* `A wrong X' is a variant of X with a likely slip; no action uses it.    *)
(***************************************************************************)
EXTENDS Integers, FiniteSetsExt, SequencesExt

CONSTANTS
  Tool,           \* the indexes of tool calls
  Nowhere,        \* no block
  Dialects,       \* the APIs of the instance
  AllSplits,      \* how texts may lie to leaked calls
  Interleaved,    \* the APIs on which fragments of two calls may alternate
  RotateHeld,     \* whether an attempt may break while chat holds text back
  MaxEvents,      \* bound of the model: events of an attempt
  MaxAttempts,    \* SCHEDULER_MAX_ROTATE
  MaxLinks        \* models of the fallback chain

Dialect == {"chat", "responses", "anthropic"}

Slot == {"text", "think"} \union Tool

ASSUME TranslatorConstants == Nowhere \notin Int \union Slot

ASSUME ReplyConstants ==
  /\ Dialects \subseteq Dialect
  /\ Interleaved \subseteq Dialect
  /\ AllSplits \subseteq {"plain", "open", "broken", "call", "within"}
  /\ RotateHeld \in BOOLEAN
  /\ {MaxEvents, MaxAttempts, MaxLinks} \subseteq Nat \ {0}

VARIABLES
  dialect,
  at,           \* where the executor stands
  attempt,      \* number of the attempt, over all links
  left,         \* attempts this link still has
  link,
  emitted,      \* a frame of this link has gone out
  sent,         \* events the upstream has sent in this attempt
  finished,     \* it has sent FINISH
  running,      \* the slot of its last event, for calls that do not alternate
  tr,           \* the translator
  queue,        \* frames of the last event still to be yielded
  fetch,        \* with_keepalive: is the next frame being fetched?
  handed,       \* the frame it has fetched
  client,       \* what the client's parser has seen
  heard,        \* the texts it has heard
  slot,         \* whether the quota slot is held
  gone          \* the client has left

execVars == <<at, attempt, left, link, emitted, sent, finished, running, tr, queue>>
wireVars == <<fetch, handed, client, heard, slot, gone>>
replyVars == <<dialect, execVars, wireVars>>

-----------------------------------------------------------------------------
(* The translators.                                                        *)

Frame(type, block, text) == [type |-> type, block |-> block, text |-> text]

\* begun: start was sent; n: blocks so far; at: the block of a slot;
\* current: the slot whose block is open (anthropic); told: usage has come;
\* done: done_sent; held, marked: the buffer of the chat filter.
NewTranslator ==
  [begun |-> FALSE, n |-> 0, at |-> [s \in Slot |-> Nowhere],
   current |-> Nowhere, told |-> FALSE, done |-> FALSE,
   held |-> <<>>, marked |-> FALSE]

Result(t, frames) == [t |-> t, frames |-> frames]

Begin(d, t) ==
  IF t.begun \/ d = "chat" THEN <<>> ELSE <<Frame("start", 0, <<>>)>>

\* A wrong Shut: the open block is left open when another begins.
ShutNothing(d, t) == <<>>

\* anthropic: the block that is open
Shut(d, t) ==
  IF d = "anthropic" /\ t.current # Nowhere
  THEN <<Frame("close", t.at[t.current], <<>>)>> ELSE <<>>

\* Whether an event of this slot begins a block of its own.
Fresh(d, t, s) ==
  \/ d = "responses" /\ t.at[s] = Nowhere
  \/ d = "anthropic" /\ IF s \in Tool THEN t.at[s] = Nowhere ELSE t.current # s

Piecemeal(d, t, s, text) ==
  IF d = "chat" THEN Result(t, <<Frame("delta", 0, text)>>)
  ELSE IF Fresh(d, t, s)
  THEN Result([t EXCEPT !.begun = TRUE, !.n = @ + 1, !.at[s] = t.n, !.current = s],
              Begin(d, t) \o Shut(d, t)
                \o <<Frame("open", t.n, <<>>), Frame("delta", t.n, text)>>)
  ELSE Result([t EXCEPT !.begun = TRUE],
              Begin(d, t) \o <<Frame("delta", t.at[s], text)>>)
-----------------------------------------------------------------------------
(* DsmlStreamFilter.  A piece is the attempt, its number there and its rest. *)

Rest == {"none", "tag", "text"}

WithText(kept, piece) == IF piece[3] = "text" THEN Append(kept, piece) ELSE kept
WithTags(kept, piece) == IF piece[3] # "none" THEN Append(kept, piece) ELSE kept

\* extract: what is left around the calls that are whole
Around(split, pieces) ==
  IF split = "within" THEN FoldLeft(WithTags, <<>>, pieces)
  ELSE FoldLeft(WithText, <<>>, pieces)

\* A text event of a chat stream; nothing goes out while a call may follow.
Feed(t, piece, split) ==
  LET more == Append(t.held, piece)
      around == Around(split, more)
      say(text) == IF text = <<>> THEN <<>> ELSE <<Frame("delta", 0, text)>>
  IN CASE split = "open" \/ (split = "plain" /\ t.marked) ->
            Result([t EXCEPT !.held = more, !.marked = TRUE], <<>>)
       \* a whole call: the text around it goes out, and stays in the buffer
       [] split \in {"call", "within"} ->
            Result([t EXCEPT !.held = around, !.marked = (split = "within")],
                   say(around) \o <<Frame("delta", 0, <<>>)>>)
       [] OTHER ->
            Result([t EXCEPT !.held = <<>>, !.marked = FALSE], say(more))

\* What a text event may do, given what is held.
Splits(d, t, all) ==
  IF d # "chat" THEN {"plain"}
  ELSE IF t.marked THEN all \ {"open"}
  ELSE all \ {"broken"}

\* What may rest of it: all goes out at once, or a whole call leaves no tag open.
Rests(t, split) ==
  CASE split = "broken" \/ (split = "plain" /\ ~t.marked) -> {"none"}
    [] split = "call" -> {"none", "text"}
    [] OTHER -> Rest
-----------------------------------------------------------------------------
(* translate, finish and error_frame.                                      *)

\* What is open or begun is closed: responses closes every item, in order.
ClosingFrames(d, t) ==
  CASE d = "anthropic" -> Shut(d, t)
    [] d = "responses" -> [i \in 1 .. t.n |-> Frame("close", i - 1, <<>>)]
    [] OTHER -> IF t.held = <<>> THEN <<>>
                ELSE <<Frame("delta", 0, t.held)>>

Ending(d, t) ==
  Result([t EXCEPT !.done = TRUE, !.begun = TRUE, !.held = <<>>,
                   !.current = Nowhere],
         Begin(d, t) \o ClosingFrames(d, t) \o <<Frame("end", 0, <<>>)>>
           \o (IF d # "chat" THEN <<>>
               ELSE (IF t.told THEN <<Frame("usage", 0, <<>>)>> ELSE <<>>)
                      \o <<Frame("done", 0, <<>>)>>))

\* The stream of the upstream is over, whether it said so or not.
Closed(d, t) == IF t.done THEN Result(t, <<>>) ELSE Ending(d, t)

\* Once the end was sent only chat still says that something failed.
Failed(d, t) ==
  IF d = "chat" THEN Result(t, <<Frame("fail", 0, <<>>)>>)
  ELSE IF t.done THEN Result(t, <<>>)
  ELSE Result([t EXCEPT !.done = TRUE, !.begun = TRUE],
              (IF d = "responses" THEN Begin(d, t) ELSE <<>>)
                \o <<Frame("fail", 0, <<>>)>>)

\* An event is [kind, slot, split, piece].
Translate(d, t, e) ==
  CASE e.kind = "usage" -> Result([t EXCEPT !.told = TRUE], <<>>)
    [] e.kind = "finish" -> IF d = "chat" THEN Ending(d, t) ELSE Closed(d, t)
    [] e.kind = "text" /\ d = "chat" -> Feed(t, e.piece, e.split)
    [] OTHER -> Piecemeal(d, t, e.slot,
                          IF e.kind = "text" THEN <<e.piece>> ELSE <<>>)
-----------------------------------------------------------------------------
(* The stream.                                                             *)

Quiet == Frame("none", 0, <<>>)

ReplyInit ==
  /\ dialect \in Dialects
  /\ at = "reading"
  /\ attempt = 1 /\ left = MaxAttempts - 1 /\ link = 1
  /\ emitted = FALSE
  /\ sent = 0 /\ finished = FALSE /\ running = Nowhere
  /\ tr = NewTranslator
  /\ queue = <<>>
  /\ fetch = "running" /\ handed = Quiet
  /\ client = [phase |-> "idle", opened |-> 0, live |-> {}, latest |-> Quiet]
  /\ heard = <<>>
  /\ slot = TRUE
  /\ gone = FALSE
-----------------------------------------------------------------------------
(* The executor runs while with_keepalive fetches.                         *)

Running == fetch = "running"

\* Fragments of calls that alternate, or go on after something else.
Resumes(s) == s \in Tool /\ s # running /\ tr.at[s] # Nowhere

\* After the FINISH that is let through (ContinuationStream keeps the last one) nothing
\* comes but the usage.
Event ==
  {e \in [kind : {"text", "think", "tool", "usage", "finish"},
          slot : Slot \union {Nowhere}, split : Splits(dialect, tr, AllSplits),
          piece : {attempt} \X {sent} \X Rest] :
     /\ finished => e.kind = "usage"
     /\ e.kind \notin {"usage", "finish"} => e.slot # Nowhere
     /\ e.kind \in {"text", "think"} => e.slot = e.kind
     /\ e.kind = "tool" => e.slot \in Tool
     /\ Resumes(e.slot) => dialect \in Interleaved
     /\ e.kind \in {"usage", "finish"} => e.slot = Nowhere
     /\ IF e.kind = "text" /\ dialect = "chat"
        THEN /\ e.piece[3] \in Rests(tr, e.split)
             /\ e.split = "within" => Around(e.split, Append(tr.held, e.piece)) # <<>>
        ELSE /\ e.piece[3] = "none"
             /\ e.split = CHOOSE p \in Splits(dialect, tr, AllSplits) : TRUE}

UpstreamSends ==
  /\ Running /\ at = "reading" /\ queue = <<>>
  /\ sent < MaxEvents
  /\ \E e \in Event :
       LET out == Translate(dialect, tr, e) IN
       /\ tr' = out.t
       /\ queue' = out.frames
       /\ sent' = sent + 1
       /\ finished' = (finished \/ e.kind = "finish")
       /\ running' = IF e.slot = Nowhere \/ dialect \in Interleaved THEN running ELSE e.slot
  /\ UNCHANGED <<dialect, at, attempt, left, link, emitted, wireVars>>

UpstreamEnds ==
  /\ Running /\ at = "reading" /\ queue = <<>>
  /\ LET out == Closed(dialect, tr) IN
       /\ tr' = out.t
       /\ queue' = out.frames
  /\ at' = "closing"
  /\ UNCHANGED <<dialect, attempt, left, link, emitted, sent, finished, running, wireVars>>

Fail(t) ==
  LET out == Failed(dialect, t) IN
  /\ tr' = out.t
  /\ queue' = out.frames
  /\ at' = "closing"

\* A translator the endpoint made goes through the whole chain, that of the
\* chat API is made anew for each link.
ForLink == IF dialect = "chat" THEN NewTranslator ELSE tr

\* A wrong Again: the next attempt starts although a frame has gone out.
AgainAnyway == left > 0

Again == left > 0 /\ ~emitted

NextAttempt ==
  /\ attempt' = attempt + 1
  /\ sent' = 0 /\ finished' = FALSE /\ running' = Nowhere

\* An error event, an exception or a timeout.
UpstreamBreaks ==
  /\ Running /\ at = "reading" /\ queue = <<>>
  /\ \/ /\ Again
        /\ RotateHeld \/ tr.held = <<>>
        /\ NextAttempt
        /\ left' = left - 1
        /\ UNCHANGED <<at, link, tr, queue>>
     \/ /\ ~Again /\ ~emitted /\ link < MaxLinks
        /\ NextAttempt
        /\ left' = MaxAttempts - 1
        /\ link' = link + 1
        /\ tr' = ForLink
        /\ UNCHANGED <<at, queue>>
     \/ /\ ~Again /\ (emitted \/ link = MaxLinks)
        /\ Fail(tr)
        /\ UNCHANGED <<attempt, left, link, sent, finished, running>>
  /\ UNCHANGED <<dialect, emitted, wireVars>>

\* The executor is suspended until the next frame is asked for.
Yield ==
  /\ Running /\ queue # <<>>
  /\ handed' = Head(queue)
  /\ queue' = Tail(queue)
  /\ fetch' = "ready"
  /\ emitted' = TRUE
  /\ UNCHANGED <<dialect, at, attempt, left, link, sent, finished, running, tr,
                 client, heard, slot, gone>>

\* Its generator is exhausted, and so are those around it.
Return ==
  /\ Running /\ at = "closing" /\ queue = <<>>
  /\ at' = "over"
  /\ fetch' = "idle"
  /\ slot' = FALSE
  /\ UNCHANGED <<dialect, attempt, left, link, emitted, sent, finished, running, tr,
                 queue, handed, client, heard, gone>>
-----------------------------------------------------------------------------
(* with_keepalive and the client.                                          *)

Hears(f) ==
  /\ client' =
       [phase |-> CASE f.type = "start" -> "open"
                    [] f.type = "delta" /\ dialect = "chat" -> "open"
                    [] f.type = "end" -> IF dialect = "chat" THEN "ended" ELSE "closed"
                    [] f.type \in {"done", "fail"} -> "closed"
                    [] OTHER -> client.phase,
        opened |-> IF f.type = "open" THEN client.opened + 1 ELSE client.opened,
        live |-> CASE f.type = "open" -> client.live \union {f.block}
                   [] f.type = "close" -> client.live \ {f.block}
                   [] OTHER -> client.live,
        latest |-> Frame(f.type, f.block, <<>>)]
  /\ heard' = heard \o f.text

Deliver ==
  /\ fetch = "ready" /\ at \notin {"orphan", "over"}
  /\ Hears(handed)
  /\ handed' = Quiet
  /\ fetch' = "idle"
  /\ UNCHANGED <<dialect, execVars, slot, gone>>

Fetch ==
  /\ fetch = "idle" /\ at \notin {"orphan", "over"}
  /\ fetch' = "running"
  /\ UNCHANGED <<dialect, execVars, handed, client, heard, slot, gone>>

\* Nothing has come for a while: one beat stands for several in a row.
Heartbeat ==
  /\ Running /\ queue = <<>> /\ at = "reading"
  /\ client.latest.type # "ping"
  /\ Hears(Frame("ping", 0, <<>>))
  /\ UNCHANGED <<dialect, execVars, fetch, handed, slot, gone>>

\* A client that leaves while a frame is fetched has the fetch cancelled, and
\* with it the executor; otherwise nobody closes the executor's generator ...
Leave ==
  /\ at \in {"reading", "closing"}
  /\ at' = IF Running THEN "over" ELSE "orphan"
  /\ slot' = FALSE
  /\ gone' = TRUE
  /\ queue' = <<>> /\ handed' = Quiet /\ fetch' = "idle"
  /\ UNCHANGED <<dialect, attempt, left, link, emitted, sent, finished, running, tr,
                 client, heard>>

\* ... until the interpreter does.
Collect ==
  /\ at = "orphan"
  /\ at' = "over"
  /\ UNCHANGED <<dialect, attempt, left, link, emitted, sent, finished, running, tr,
                 queue, wireVars>>

ReplyNext ==
  \/ UpstreamSends \/ UpstreamEnds \/ UpstreamBreaks \/ Yield \/ Return
  \/ Deliver \/ Fetch \/ Heartbeat \/ Leave \/ Collect

ReplySpec == ReplyInit /\ [][ReplyNext]_replyVars

\* The loop goes on, an upstream that sends nothing more ends or times out, the
\* client reads or leaves; nothing makes it leave.
Goes == UpstreamSends \/ UpstreamEnds \/ UpstreamBreaks \/ Yield \/ Return
          \/ Deliver \/ Fetch \/ Collect
-----------------------------------------------------------------------------
(* Properties.                                                             *)

ReplyTypeOK ==
  /\ dialect \in Dialects
  /\ at \in {"reading", "closing", "over", "orphan"}
  /\ attempt \in 1 .. MaxAttempts * MaxLinks
  /\ sent \in 0 .. MaxEvents
  /\ tr.n \in 0 .. MaxEvents
  /\ \A s \in Slot : tr.at[s] \in (0 .. tr.n - 1) \union {Nowhere}
  /\ fetch \in {"running", "ready", "idle"}
  /\ client.phase \in {"idle", "open", "ended", "closed"}
  /\ slot \in BOOLEAN

\* What the client hears is a stream of its API: one start, deltas of blocks
\* that are open, every block closed before the end, one end and nothing after
\* it - across rotations and links that share a translator, errors at any
\* moment, streams that end without FINISH and heartbeats in between.
Protocol == INSTANCE EventProtocol WITH
  Frames <- {Frame(type, b, <<>>) :
               type \in {"none", "start", "open", "delta", "close", "usage", "end",
                         "done", "fail", "ping"}, b \in 0 .. MaxEvents},
  style <- CASE dialect = "chat" -> "plain" [] dialect = "anthropic" -> "single"
             [] OTHER -> "many",
  phase <- client.phase,
  opened <- client.opened,
  live <- client.live,
  latest <- client.latest

SpeaksProtocol == Protocol!ProtocolSpec

\* Behind the first i of the texts heard, a text of the same attempt goes on, or says
\* again what was left around a call.
Continues(h, i, piece) ==
  /\ h[i][1] = piece[1]
  /\ \/ h[i][2] < piece[2]
     \/ piece[3] # "none" /\ \E k \in 1 .. i : h[k] = piece

\* The texts a client hears are those of one attempt, in order, and each once - but
\* what is left around a leaked call, which the filter sends and keeps and sends again
\* (dsml.py 209-213): what an attempt that broke has said never reaches the client
\* together with the answer of the next (executor.py 675-677), and no held text is
\* sent out of its order or twice without a call.  Checked with the types.
OneAnswer ==
  /\ ReplyTypeOK
  /\ \A i, j \in DOMAIN heard : i < j => Continues(heard, i, heard[j])

\* No attempt speaks where another has spoken.
OneAttemptSpeaks ==
  \A i, j \in DOMAIN heard : heard[i][1] = heard[j][1]

\* A stream is closed for the client, or the client has left, and its slot is free.
ReplyOver == at = "over" /\ ~slot /\ (gone \/ client.phase = "closed")
=============================================================================
