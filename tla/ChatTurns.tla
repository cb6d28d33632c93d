------------------------------ MODULE ChatTurns ------------------------------
(***************************************************************************)
(* Conversations over a pool: what the executor does around the loop that  *)
(* ChatEngine has in detail.  A turn asks for a model, by way of a chain   *)
(* of models; it is served by the credential of the turn before if that    *)
(* can be, within the limits of each credential and the lane of its key;   *)
(* a stream the upstream cut is continued.  Affinity, limits, chains and   *)
(* continuation are operators of TurnRules.                                *)
(*                                                                         *)
(* A conversation has one turn at a time.  A setting says who talks and    *)
(* what may happen to them.  Cooldowns are reduced to `up', whether the    *)
(* account may be chosen; waiting for short ones is switched off.          *)
(***************************************************************************)
EXTENDS TurnRules

CONSTANTS
  Cred,
  ProviderOf,   \* [Cred -> Channel]
  Model,
  Settings,     \* [pool, requests, groups, register, continues, pieces, spends,
                \*  hide, faults, pins, capped, caps, rests]: one is chosen
  MaxRotate,
  MaxTurns,     \* bound of the model: turns of a conversation known by its messages
  MaxUse        \* bound of the model: use of a day is counted up to it

Talkers == UNION {DOMAIN s.requests : s \in Settings}

ASSUME TurnConstants ==
  /\ ProviderOf \in [Cred -> Channel]
  /\ MaxRotate \in Nat \ {0}
  /\ MaxTurns \in Nat
  /\ \A s \in Settings : s.spends \subseteq Nat
  /\ \A caps \in UNION {t.caps : t \in Settings} :
       /\ caps.keep \in Nat
       /\ caps.tokens <= MaxUse
       /\ \A m \in Model : caps.model[m] <= MaxUse

VARIABLES
  setting,
  up,           \* the credentials that are enabled and not cooling
  operator,     \* the credential an operator pinned
  rest,         \* quota_remaining
  register,     \* model_aliases
  limits,       \* credential_limits
  used,         \* day_usage
  snapshot,     \* LimitGuard._snapshot
  table,        \* ConversationAffinity._entries
  past,         \* the turns a conversation has had
  turn,         \* the turn in progress
  home,         \* history: who served the last turn, and how long that is remembered
  order,        \* history: conversations by the last use of their entry
  steady        \* history: for how long the verdict on today's use has stood

poolVars == <<up, operator, rest, register>>
guardVars == <<limits, used, snapshot, steady>>
talkVars == <<table, past, home, order>>
turnVars == <<setting, poolVars, guardVars, talkVars, turn>>

-----------------------------------------------------------------------------
\* What a turn is asked with: the request says all that was said before.
Messages(req, n) == [i \in 1..(n + 1) |-> req.topic]
Raw(req, n) == [body |-> req.body, header |-> req.header, user_id |-> req.user_id,
                messages |-> Messages(req, n)]
ByMessages(req) == req.body = Nobody /\ req.header = Nobody /\ ~req.user_id

Found(v, req) == PinFor(table, req.user, Raw(req, past[v]))

Verdict(use, caps, c, m) == ~IsEmpty(caps[c]) /\ UsedUp(caps[c], use[c], m)

Idle(billed, owed) ==
  [phase |-> "idle", billed |-> billed, owed |-> owed, heard |-> {}]

\* owned as long as a turn lasts
NewTurn(req, chain) ==
  [phase |-> "open", req |-> req, chain |-> chain, link |-> 1, pin |-> Nobody,
   tried |-> {}, attempts |-> 0, emitted |-> FALSE, cred |-> Nobody,
   source |-> NewStream, usage |-> 0, fault |-> "none",
   said |-> 0, spent |-> 0, heard |-> {}]

TurnsInit ==
  /\ setting \in Settings
  /\ up = setting.pool
  /\ operator = Nobody
  /\ rest = [c \in Cred |-> Unknown]
  /\ register = [p \in Channel |-> {}]
  /\ limits = [c \in Cred |-> Caps(0, 0, [m \in Model |-> 0])]
  /\ used = [c \in Cred |-> [m \in Model |-> 0]]
  /\ snapshot = NoSnapshot
  /\ table = <<>>
  /\ past = [v \in Talkers |-> 0]
  /\ turn = [v \in Talkers |-> Idle(0, 0)]
  /\ home = [v \in Talkers |-> [cred |-> Nobody, left |-> 0]]
  /\ order = <<>>
  /\ steady = [c \in Cred |-> [m \in Model |-> SnapshotTTL]]

\* The verdict on a day's use is followed whenever the use changes.
Followed(use) ==
  steady' = [c \in Cred |-> [m \in Model |->
    IF Verdict(use, limits, c, m) = Verdict(used, limits, c, m) THEN steady[c][m] ELSE 0]]

\* record: a row with what is known of the use
Row(c, m, billed) ==
  IF billed = 0 THEN UNCHANGED <<used, steady>>
  ELSE /\ used' = [used EXCEPT ![c][m] = IF @ + billed > MaxUse THEN MaxUse ELSE @ + billed]
       /\ Followed(used')

\* An entry of v was used: it is the most recent one.
Recent(v, cred) ==
  /\ home' = [home EXCEPT ![v] = [cred |-> cred, left |-> Sticky]]
  /\ order' = Append(SelectSeq(order, LAMBDA w : w # v), v)

-----------------------------------------------------------------------------
\* Choosing a credential for the link k of a turn.

Choosable(t, k) ==
  {c \in up : ProviderOf[c] \in Narrowed(t.chain[k], register)}

\* _select, with _sticky and the operator's pin; which of several equals is open
Choice(t, k, pin, seen) ==
  LET tried == IF k = t.link THEN t.tried ELSE {}
      left == {c \in Choosable(t, k) \ tried :
                 ~LimitBlocked(seen, c, t.chain[k].model, rest[c])}
  IN IF operator \in left THEN {operator}
     ELSE IF pin \in left THEN {pin}
     ELSE left

\* The attempt c of link k: a new stream, and with a new link a new translator.
Attempt(t, k, pin, c) ==
  [t EXCEPT !.phase = "open", !.link = k, !.pin = pin, !.cred = c,
            !.tried = IF k = t.link THEN @ \cup {c} ELSE {c},
            !.attempts = IF k = t.link THEN @ + 1 ELSE 1,
            !.usage = IF k = t.link /\ t.req.kind = "stream" THEN @ ELSE 0,
            !.source = NewStream, !.fault = "none", !.said = 0, !.spent = 0]

\* The loop of a link finds a credential, or that of a later link does, or the
\* turn fails.  A stream looks for its pin once, a plain turn for each link.
Seeks(v, t, from, use) ==
  \E found \in {Found(v, t.req)}, seen \in {Loaded(snapshot, limits, use)} :
    LET pin(k) == IF t.attempts = 0 \/ (t.req.kind = "plain" /\ k # t.link)
                  THEN found.cred ELSE t.pin
    IN \E open \in {{k \in from..Len(t.chain) : Choice(t, k, pin(k), seen) # {}}} :
         LET last == IF open = {} THEN Len(t.chain) ELSE Min(open)
             asks == t.attempts = 0 \/ (t.req.kind = "plain" /\ last # t.link)
         IN /\ IF open = {} THEN turn' = [turn EXCEPT ![v] = Idle(0, 0)]
               ELSE \E c \in Choice(t, last, pin(last), seen) :
                      turn' = [turn EXCEPT ![v] = Attempt(t, last, pin(last), c)]
            /\ snapshot' = IF \E k \in from..last : Choosable(t, k) # {} THEN seen ELSE snapshot
            /\ table' = IF asks THEN found.table ELSE table
            /\ IF asks /\ found.cred # Nobody THEN Recent(v, found.cred)
               ELSE UNCHANGED <<home, order>>

\* stream and complete up to their first await
Opens(v, req) ==
  LET target == ResolveTarget(req.name, req.binding) IN
  /\ turn[v].phase = "idle"
  /\ ~Refused(req.name, req.binding, register)
  /\ ByMessages(req) => past[v] < MaxTurns
  /\ \E chain \in {Chain(target, setting.groups, register)} :
       Seeks(v, NewTurn(req, chain), 1, used)
  /\ UNCHANGED <<setting, poolVars, limits, used, steady, past>>

-----------------------------------------------------------------------------
\* The upstream.

Streams(v) == turn[v].phase = "open"

\* CONTENT or REASONING; a thought may be withheld, a plain answer is collected.
Says(v, thought) ==
  LET t == turn[v]
      shown == t.req.kind = "stream" /\ ~(thought /\ setting.hide)
  IN /\ Streams(v)
     /\ t.fault = "none"
     /\ t.source.parts < setting.pieces
     /\ turn' = [turn EXCEPT ![v] =
          [t EXCEPT !.source = Piece(@), !.said = @ + 1,
                    !.emitted = @ \/ shown,
                    !.heard = IF shown THEN @ \cup {<<t.chain[t.link].model, t.cred>>} ELSE @]]
     /\ UNCHANGED <<setting, poolVars, guardVars, talkVars>>

\* save_success, _remember and _record_success
Succeeds(v, t) ==
  LET usage == Told(t.source, t.usage)
      raw == Raw(t.req, past[v])
  IN /\ turn' = [turn EXCEPT ![v] =
                   Idle(usage, IF t.spent = 0 THEN usage ELSE t.spent)]
     /\ Row(t.cred, t.chain[t.link].model, usage)
     /\ table' = Remembered(table, t.req.user, raw, t.cred)
     /\ IF Keys(t.req.user, raw) = <<>> THEN UNCHANGED <<home, order>> ELSE Recent(v, t.cred)
     /\ past' = IF ByMessages(t.req) THEN [past EXCEPT ![v] = @ + 1] ELSE past
     /\ UNCHANGED <<setting, poolVars, limits, snapshot>>

\* An error ends the attempt: it is charged to the credential ("charged"), to
\* nobody ("spared"), or the whole channel is skipped ("reject").
BreaksOff(v, t, fault) ==
  /\ turn' = [turn EXCEPT ![v] =
       [t EXCEPT !.phase = "closing", !.fault = fault,
                 !.tried = IF fault = "reject"
                           THEN @ \cup {c \in Cred : ProviderOf[c] = ProviderOf[t.cred]}
                           ELSE @]]
  /\ up' = IF fault = "charged" THEN up \ {t.cred} ELSE up
  /\ UNCHANGED <<setting, operator, rest, register, guardVars, talkVars>>

\* The connection of a round ends.  An error event a plain turn has collected
\* comes to light when the whole stream has ended (aggregate).
RoundOver(v, reason, spent) ==
  /\ Streams(v)
  /\ turn[v].fault # "none" => reason = "none" /\ spent = 0
  /\ \E t \in {[turn[v] EXCEPT !.source = RoundEnds(@, reason, spent), !.spent = @ + spent]} :
     \/ /\ Continues(t.source, setting.continues)
        /\ turn' = [turn EXCEPT ![v] = [t EXCEPT !.source = NextRound(@),
                                                 !.usage = Told(t.source, @)]]
        /\ UNCHANGED <<setting, poolVars, guardVars, talkVars>>
     \/ ~Continues(t.source, setting.continues) /\ t.fault = "none" /\ Succeeds(v, t)
     \/ ~Continues(t.source, setting.continues) /\ t.fault # "none" /\ BreaksOff(v, t, t.fault)

\* An error event in a stream, or an exception in either, breaks the attempt ...
Fails(v, fault) ==
  /\ Streams(v)
  /\ turn[v].fault = "none"
  /\ BreaksOff(v, turn[v], fault)

\* ... and an error event in a plain turn is collected like any other.
Collects(v, fault) ==
  /\ Streams(v)
  /\ turn[v].req.kind = "plain" /\ turn[v].fault = "none"
  /\ turn' = [turn EXCEPT ![v].fault = fault]
  /\ UNCHANGED <<setting, poolVars, guardVars, talkVars>>

\* should_rotate says no, or there was output
OutOfLink(t) == t.attempts >= MaxRotate \/ t.emitted

\* Everything is closed: the next credential, the next link, or an end.  A
\* stream's last attempt on a link writes a row with the use it knows of, unless
\* the upstream had rejected the request.
GoesOn(v) ==
  LET t == turn[v]
      m == t.chain[t.link].model
      unknown == t.req.kind = "plain" \/ t.fault = "reject"
      billed == IF unknown THEN 0 ELSE t.usage
  IN /\ t.phase = "closing"
     /\ \/ /\ ~OutOfLink(t)
           /\ UNCHANGED <<used, steady>>
           /\ Seeks(v, t, t.link, used)
        \/ /\ OutOfLink(t) /\ ~t.emitted
           /\ Row(t.cred, m, billed)
           /\ Seeks(v, t, t.link + 1, used')
        \/ /\ t.emitted
           /\ Row(t.cred, m, billed)
           /\ turn' = [turn EXCEPT ![v] =
                         Idle(billed, IF unknown \/ t.spent = 0 THEN billed ELSE t.spent)]
           /\ UNCHANGED <<snapshot, table, home, order>>
     /\ UNCHANGED <<setting, poolVars, limits, past>>

\* The client goes away: a stream that has output or use writes its row.
Leaves(v) ==
  LET t == turn[v]
      counts == t.req.kind = "stream"
  IN /\ t.phase # "idle"
     /\ turn' = [turn EXCEPT ![v] =
          IF counts THEN Idle(t.usage, IF t.spent = 0 THEN t.usage ELSE t.spent)
          ELSE Idle(0, 0)]
     /\ IF counts THEN Row(t.cred, t.chain[t.link].model, t.usage)
        ELSE UNCHANGED <<used, steady>>
     /\ UNCHANGED <<setting, poolVars, limits, snapshot, talkVars>>

-----------------------------------------------------------------------------
\* Everybody else.

\* Other requests and the passing of time take a credential out and back in.
Cools(c) ==
  /\ "charged" \in setting.faults
  /\ up' = IF c \in up THEN up \ {c} ELSE up \cup {c}
  /\ UNCHANGED <<setting, operator, rest, register, guardVars, talkVars, turn>>

\* set_pinned, on or off
OperatorPins(c) ==
  /\ setting.pins
  /\ operator' = IF operator = c THEN Nobody ELSE c
  /\ UNCHANGED <<setting, up, rest, register, guardVars, talkVars, turn>>

\* A probe of the quota writes what is left.
Probed(c, left) ==
  /\ rest' = [rest EXCEPT ![c] = left]
  /\ UNCHANGED <<setting, up, operator, register, guardVars, talkVars, turn>>

\* the model lists arrive after the start
RegisterArrives ==
  /\ register' = setting.register
  /\ UNCHANGED <<setting, up, operator, rest, guardVars, talkVars, turn>>

\* set_credential_limits, with invalidate: from here on the truth is known.
SetLimits(c, caps) ==
  /\ limits' = [limits EXCEPT ![c] = caps]
  /\ snapshot' = NoSnapshot
  /\ steady' = [d \in Cred |-> [m \in Model |-> SnapshotTTL]]
  /\ UNCHANGED <<setting, poolVars, used, talkVars, turn>>

\* day_start moves on: nothing was used today.
Midnight ==
  /\ setting.capped # {}
  /\ used' = [c \in Cred |-> [m \in Model |-> 0]]
  /\ Followed(used')
  /\ UNCHANGED <<setting, poolVars, limits, snapshot, talkVars, turn>>

TimeGoesOn ==
  /\ table' = Aged(table)
  /\ snapshot' = SnapshotAged(snapshot)
  /\ home' = [v \in Talkers |-> [home[v] EXCEPT !.left = IF @ = 0 THEN 0 ELSE @ - 1]]
  /\ steady' = [c \in Cred |-> [m \in Model |->
                  IF steady[c][m] = SnapshotTTL THEN SnapshotTTL ELSE steady[c][m] + 1]]
  /\ UNCHANGED <<setting, poolVars, limits, used, past, order, turn>>

Upstream(v) ==
  \/ \E thought \in BOOLEAN : Says(v, thought)
  \/ \E reason \in {"none", "stop", "length"}, spent \in setting.spends :
       RoundOver(v, reason, spent)
  \/ \E fault \in setting.faults : Fails(v, fault) \/ Collects(v, fault)

TurnsNext ==
  \/ \E v \in DOMAIN setting.requests :
       \/ \E req \in setting.requests[v] : Opens(v, req)
       \/ Upstream(v)
       \/ GoesOn(v)
       \/ Leaves(v)
  \/ \E c \in setting.pool : Cools(c) \/ OperatorPins(c)
  \/ \E c \in setting.capped :
       \/ \E left \in setting.rests : Probed(c, left)
       \/ \E caps \in setting.caps : SetLimits(c, caps)
  \/ RegisterArrives
  \/ Midnight
  \/ TimeGoesOn

TurnsSpec == TurnsInit /\ [][TurnsNext]_turnVars

-----------------------------------------------------------------------------
\* Properties.

\* The entries a conversation can have in the table.
Weight(v) ==
  IF \E req \in setting.requests[v] : ByMessages(req) THEN past[v] ELSE 1

\* The table still knows where v was served: the entry has not run out and there
\* was room for all that was used since.
StillKnown(v) ==
  LET i == SelectInSeq(order, LAMBDA w : w = v) IN
  /\ home[v].left > 0
  /\ FoldLeft(LAMBDA n, w : n + Weight(w), 1, SubSeq(order, i + 1, Len(order))) <= MaxEntries

\* A conversation that is remembered is pinned to the credential that served it
\* last, and begins there if that may be chosen at all; no conversation is ever
\* pinned to where another one is at home (pin_for, remember, _evict, _sticky).
StaysHome ==
  [][\A v \in Talkers :
       turn[v].phase = "idle" /\ turn'[v].phase = "open" =>
         /\ turn'[v].pin \in {Nobody, home[v].cred}
         /\ StillKnown(v) => turn'[v].pin = home[v].cred
         /\ /\ StillKnown(v) /\ operator = Nobody /\ setting.capped = {}
            /\ home[v].cred \in Choosable(turn'[v], 1)
            => turn'[v].cred = home[v].cred]_turnVars

\* Whoever named a channel, in the model or by the binding of his key, is served
\* by it with the model he asked for, whatever groups and registers say; and what
\* the client hears in one turn is from one model of one credential.
KeepsToItsLane ==
  \A v \in Talkers :
    /\ Cardinality(turn[v].heard) <= 1
    /\ turn[v].phase # "idle" =>
         LET req == turn[v].req
             lane == IF req.binding # Anywhere THEN req.binding ELSE req.name.channel
         IN lane # Anywhere => /\ ProviderOf[turn[v].cred] = lane
                               /\ turn[v].chain[turn[v].link].model = req.name.model

\* Once the verdict on a credential's use of today has stood for as long as a
\* snapshot is kept, or its caps were just set, the guard says the same: nobody
\* spends on over a cap, and nobody is kept out after midnight (_load, blocked).
LimitsFollowUse ==
  \A c \in Cred, m \in Model :
    steady[c][m] = SnapshotTTL =>
      (LimitBlocked(Loaded(snapshot, limits, used), c, m, rest[c])
         <=> \/ RestKept(limits[c], rest[c])
             \/ Verdict(used, limits, c, m))

\* A continued stream repeats to the upstream each piece of this attempt once;
\* and the row of a turn that was answered, left, or broken after output has the
\* use of all its rounds that came to an end (extend_payload, _add_usage).
RoundsAddUp ==
  \A v \in Talkers :
    IF turn[v].phase = "idle" THEN turn[v].billed = turn[v].owed
    ELSE turn[v].source.carried + turn[v].source.parts = turn[v].said

\* A turn is served where and as it was asked for, and paid for once.
ServedAsAsked == KeepsToItsLane /\ RoundsAddUp
=============================================================================
