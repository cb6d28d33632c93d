----------------------------- MODULE ErrorClasses -----------------------------
(***************************************************************************)
(* What an upstream's answer is taken for: every channel turns a status    *)
(* and a body (classify_status), or an error in a stream that began well   *)
(* (classify_error_code), into a kind, by rules whose order matters; the   *)
(* executor adds failures that are no answer at all (_classify), and the   *)
(* hints that say when to come back are read here too (provider/base).     *)
(*                                                                         *)
(* A body is the set of signs a channel's markers can find in it.          *)
(***************************************************************************)
EXTENDS Integers, Sequences, SequencesExt, FiniteSets

CONSTANT None

\* ErrKind
Kinds == {"plan", "credit", "soft", "dead", "restricted", "other", "invalid", "model",
          "concurrency", "blocked", "request", "context", "capability", "queue", "network"}

\* the first rule that applies decides
Ruling(rules) ==
  LET hits == SelectSeq(rules, LAMBDA rule : rule[1]) IN
  IF hits = <<>> THEN "other" ELSE Head(hits)[2]

-----------------------------------------------------------------------------
(* Statuses of HTTP answers, S the signs of the body.                      *)

CodeBuddyStatus(st, S) ==
  Ruling(<< <<st = 402 \/ "credit" \in S, "credit">>,
            <<"plan" \in S, "plan">>,
            <<st \in {400, 404} /\ "absent" \in S, "blocked">>,
            <<"restricted" \in S, "restricted">>,
            <<st = 403 /\ "risk" \in S, "request">>,
            <<st \in {401, 403}, "dead">>,
            <<st = 404, "soft">>,
            <<st = 429 /\ "throttled" \in S, "model">>,
            <<st = 429, "soft">>,
            <<st = 400 /\ "context" \in S, "context">>,
            <<st = 400 /\ S \cap {"risk", "malformed"} # {}, "request">>,
            <<st = 400, "invalid">> >>)

\* classify_status forwards to it, a stream's envelopes come here too
QoderCode(st, S) ==
  Ruling(<< <<st = 402 \/ "daily" \in S, "credit">>,
            <<"queued" \in S, "queue">>,
            <<st = 401, "dead">>,
            <<st = 403 /\ "dead" \in S, "dead">>,
            <<st = 403, "soft">>,
            <<st = 429, "model">>,
            <<st \in {418, 500, 502, 503, 504}, "soft">>,
            <<st \in {400, 404, 422} /\ "node" \in S, "model">>,
            <<st \in {400, 404, 422}, "invalid">> >>)

CodeArtsStatus(st, S) ==
  Ruling(<< <<st = 402 \/ "credit" \in S, "credit">>,
            <<"plan" \in S, "plan">>,
            <<"incapable" \in S, "capability">>,
            <<st \in {400, 404} /\ "absent" \in S, "blocked">>,
            <<"expired" \in S, "soft">>,
            <<st \in {401, 403}, "dead">>,
            <<st = 404, "soft">>,
            <<st \in {400, 429} /\ "crowded" \in S, "concurrency">>,
            <<st \in {400, 429} /\ "throttled" \in S, "model">>,
            <<st = 429, "soft">>,
            <<st = 400, "invalid">> >>)

OfficeAceCode(st, S) ==
  Ruling(<< <<"absent" \in S, "blocked">>,
            <<"throttled" \in S, "model">>,
            <<"tooLarge" \in S, "request">>,
            <<"badParams" \in S, "invalid">>,
            <<"dead" \in S, "dead">>,
            <<"credit" \in S \/ st = 402, "credit">>,
            <<st = 429, "model">>,
            <<st \in {401, 403}, "dead">>,
            <<st \in {400, 404, 422}, "invalid">> >>)

TraeStatus(st, S) ==
  Ruling(<< <<st = 402 \/ "credit" \in S, "credit">>,
            <<"plan" \in S, "plan">>,
            <<st \in {400, 404} /\ "absent" \in S, "blocked">>,
            <<st = 401, "dead">>,
            <<st = 404, "soft">>,
            <<st = 429 /\ "throttled" \in S, "model">>,
            <<st = 429, "soft">>,
            <<st = 400, "invalid">> >>)

\* free channels without credentials, in a stream too
ZenCode(st) ==
  Ruling(<< <<st \in {400, 401, 404, 422}, "invalid">>,
            <<st = 429, "soft">>,
            <<st = 403, "request">> >>)

KiloCode(st) ==
  Ruling(<< <<st \in {400, 401, 404, 422}, "invalid">>,
            <<st \in {429, 502, 503, 504}, "model">>,
            <<st = 403, "request">> >>)

RaccoonStatus(st, S) ==
  Ruling(<< <<st = 401 \/ (st = 403 /\ "dead" \in S), "dead">>,
            <<st = 403, "request">>,
            <<st = 402, "credit">>,
            <<st = 429 /\ "crowded" \in S, "concurrency">>,
            <<st = 429, "soft">>,
            <<st \in {400, 404, 422}, "invalid">> >>)

Classify(channel, st, S) ==
  CASE channel = "codebuddy" -> CodeBuddyStatus(st, S)
    [] channel = "qoder" -> QoderCode(st, S)
    [] channel = "codearts" -> CodeArtsStatus(st, S)
    [] channel = "officeace" -> OfficeAceCode(st, S)
    [] channel = "trae" -> TraeStatus(st, S)
    [] channel = "zen" -> ZenCode(st)
    [] channel = "kilo" -> KiloCode(st)
    [] channel = "raccoon" -> RaccoonStatus(st, S)

-----------------------------------------------------------------------------
(* Errors in a stream.                                                     *)

\* A wrong CodeArtsCode: 001001005 holds the digits of an exhausted plan, too.
PlanByDigits(S) ==
  Ruling(<< <<"plan" \in S, "plan">>, <<"badParams" \in S, "invalid">> >>)

CodeArtsCode(S) ==
  Ruling(<< <<"absent" \in S, "blocked">>,
            <<"crowded" \in S, "concurrency">>,
            <<"throttled" \in S, "model">>,
            <<"incapable" \in S, "capability">>,
            <<"badParams" \in S, "invalid">>,
            <<"plan" \in S, "plan">>,
            <<"dead" \in S, "dead">> >>)

TraeCode(S) ==
  Ruling(<< <<"plan" \in S, "plan">>,
            <<"credit" \in S, "credit">>,
            <<"throttled" \in S, "model">>,
            <<"badParams" \in S, "invalid">> >>)

RaccoonCode(S) ==
  Ruling(<< <<"dead" \in S, "dead">>,
            <<"crowded" \in S, "concurrency">>,
            <<"credit" \in S, "credit">> >>)

\* CodeBuddy reads no errors in its streams
ClassifyInStream(channel, st, S) ==
  CASE channel = "qoder" -> QoderCode(st, S)
    [] channel = "codearts" -> CodeArtsCode(S)
    [] channel = "officeace" -> OfficeAceCode(st, S)
    [] channel = "trae" -> TraeCode(S)
    [] channel = "zen" -> ZenCode(st)
    [] channel = "kilo" -> KiloCode(st)
    [] channel = "raccoon" -> RaccoonCode(S)

-----------------------------------------------------------------------------
(* When to come back.                                                      *)

\* parse_retry_after: seconds, or a date, from now on; what lies in the past is no hint
RetryAfter(header) == IF header = None \/ header < 0 THEN None ELSE header

\* parse_reset_at
ResetAt(moment) == IF moment = None \/ moment <= 0 THEN None ELSE moment

\* retry_hints: the header before the body, which only CodeBuddy hands over
RetryHint(channel, header, moment) ==
  IF RetryAfter(header) # None \/ channel # "codebuddy" THEN RetryAfter(header)
  ELSE ResetAt(moment)

\* parse_queue_hint goes down through the layers of a body: objects and lists count,
\* texts that hold JSON do not; a layer is [counts, flag, wait].
DefaultWait == 5
MaxDepth == 3

Depth(layers, i) == Cardinality({j \in 1 .. i - 1 : layers[j].counts})

Flagged(layers) == {i \in DOMAIN layers : layers[i].flag /\ Depth(layers, i) <= MaxDepth}

QueueWait(layers) ==
  LET wait[i \in 1 .. Len(layers) + 1] ==
        IF i > Len(layers) THEN DefaultWait
        ELSE IF i \in Flagged(layers) /\ layers[i].wait # None THEN layers[i].wait
        ELSE wait[i + 1]
  IN IF Flagged(layers) = {} THEN None ELSE wait[1]

-----------------------------------------------------------------------------
(* How much a kind takes from the pool when it is noted (scheduler.note_   *)
(* error): nothing, the request's channel, one model of one account, an    *)
(* account for a time, an account for good.                                *)

Harm(kind) ==
  CASE kind = "dead" -> 4
    [] kind \in {"plan", "credit", "restricted", "soft", "other"} -> 3
    [] kind \in {"model", "blocked", "concurrency"} -> 2
    [] kind \in {"invalid", "capability"} -> 1
    [] kind \in {"request", "context", "network", "queue", None} -> 0
=============================================================================
