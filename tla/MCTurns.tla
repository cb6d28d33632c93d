------------------------------- MODULE MCTurns -------------------------------
(***************************************************************************)
(* Small instances of ChatTurns, one for each of the things it composes;   *)
(* the histories that clients repeat and the channels they are asked on,   *)
(* for RequestShaping; and attempts for StatsPages.                        *)
(***************************************************************************)
EXTENDS RequestLife, TLC

CONSTANTS a, b, c, c1, c2, c3, p1, p2, m1, m2, m3, fast, u1, u2, id, elsewhere, w1, w2, v1, v2

TwoChannels == [d \in {c1, c2, c3} |-> IF d = c3 THEN p2 ELSE p1]

Request(user, body, header, user_id, name, binding, kind) ==
  [user |-> user, body |-> body, header |-> header, user_id |-> user_id, topic |-> m1,
   name |-> name, binding |-> binding, kind |-> kind]
Plain(m) == Name(m, Anywhere)
NoGroups == <<>>
NoRegister == [p \in {p1, p2} |-> {}]

\* A conversation with an identifier and one known by its messages.
Talk ==
  [pool |-> {c1, c2},
   requests |->
     (a :> {Request(u1, id, Nobody, FALSE, Plain(m1), Anywhere, "stream")})
     @@ (b :> {Request(u1, Nobody, Nobody, FALSE, Plain(m1), Anywhere, "plain")}),
   groups |-> NoGroups, register |-> NoRegister, continues |-> 0, pieces |-> 0,
   spends |-> {0}, hide |-> FALSE, faults |-> {"charged"}, pins |-> FALSE,
   capped |-> {}, caps |-> {}, rests |-> {}]

\* Two users with the same identifier.
Namesakes == [Talk EXCEPT
   !.requests = (a :> {Request(u1, id, Nobody, FALSE, Plain(m1), Anywhere, "stream")})
                @@ (b :> {Request(u2, id, Nobody, FALSE, Plain(m1), Anywhere, "plain")})]

\* One conversation, named in a header, and an operator who pins.
Pinned == [Talk EXCEPT
   !.requests = a :> {Request(u1, Nobody, id, FALSE, Plain(m1), Anywhere, "stream")},
   !.pins = TRUE]

\* A group with a forced member, one of an unknown channel and one nobody lists.
Groups == <<Group(fast, <<Plain(m2), Name(m1, p2), Name(m3, elsewhere), Plain(m3)>>)>>
Lists == (p1 :> {m1}) @@ (p2 :> {m1, m2})
Links ==
  [Talk EXCEPT
   !.pool = {c1, c2, c3},
   !.requests = a :> {Request(u1, Nobody, Nobody, TRUE, name, binding, kind) :
                        name \in {Plain(fast), Plain(m1), Plain(m2), Name(m1, p1)},
                        binding \in {Anywhere, p1}, kind \in {"stream", "plain"}},
   !.groups = Groups, !.register = Lists, !.pieces = 1,
   !.faults = {"charged", "spared", "reject"}]

\* Rounds with thoughts the client does not see.
Unending ==
  [Talk EXCEPT
   !.requests = a :> {Request(u1, Nobody, Nobody, TRUE, Plain(m1), Anywhere, kind) :
                        kind \in {"stream", "plain"}},
   !.continues = 2, !.pieces = 2, !.spends = {0, 1}, !.hide = TRUE,
   !.faults = {"spared", "reject"}]

\* One account that is spent, on two models.
Limited ==
  [Talk EXCEPT
   !.pool = {c1},
   !.requests = (a :> {Request(u1, Nobody, Nobody, TRUE, Plain(m), Anywhere, "plain") :
                         m \in {m1, m2}}),
   !.spends = {0, 1}, !.faults = {"spared"}, !.capped = {c1},
   !.caps = {Caps(0, 0, [m \in Model |-> 0]),
             Caps(1, 2, [m \in Model |-> 0]),
             Caps(0, 0, (m1 :> 1) @@ (m2 :> 2) @@ (m3 :> 0) @@ (fast :> 0))},
   !.rests = {1, 2}]

Instances == {Talk, Namesakes, Pinned, Links, Unending, Limited}

\* Attempts: of two users who chose the same number for a request, on two models.
Attempted(user, ok, model, number) ==
  [username |-> user, provider |-> "p", model |-> model, ok |-> ok, priced |-> TRUE,
   output_tokens |-> IF ok THEN model ELSE Null, reasoning_tokens |-> IF model = 1 THEN Null ELSE 1,
   latency_ms |-> model + 1, ttfb_ms |-> IF model = 1 THEN Null ELSE 1,
   credential_id |-> IF ok THEN "c" ELSE Null, api_key_id |-> IF model = 1 THEN "k" ELSE Null,
   error_type |-> IF ok THEN Null ELSE "unavailable", request_id |-> number]
Attempts ==
  {Attempted("u", TRUE, 1, "r"), Attempted("u", FALSE, 1, "r"), Attempted("v", FALSE, 2, "r"), Attempted("v", TRUE, 2, Null)}
Few == {Attempted("u", TRUE, 1, "r"), Attempted("v", FALSE, 2, "r")}

Page(user, since, until) == [username |-> user, since |-> since, until |-> until]
Pages == {Page(Null, Null, Null), Page("v", 2, Null), Page("u", 0, 4)}
Wanted == {[username |-> Null, ok |-> Null], [username |-> "u", ok |-> Null]}
-----------------------------------------------------------------------------
(* Histories and channels for RequestShaping.                              *)

Words(k, w) == [kind |-> "text", name |-> k, weight |-> w]
Block(kind, k, w) == [kind |-> kind, name |-> k, weight |-> w]
Item(by, blocks) == [by |-> by, blocks |-> blocks]
ByUser(blocks) == Item("user", blocks)
ByModel(blocks) == Item("assistant", blocks)
Open(by) == <<Item(by, <<Words(1, 1)>>), ByUser(<<Words(2, 1)>>)>>
Bare == <<ByUser(<<Block("image", 1, 3), Words(2, 1)>>)>>
LongAnswer == <<ByModel(<<Words(1, 3)>>), ByUser(<<Words(2, 1)>>)>>
Pair == <<ByModel(<<Block("thought", 1, 1), Block("call", 2, 0), Block("call", 3, 0)>>),
          ByUser(<<Block("result", 2, 3), Block("result", 3, 1)>>)>>
Single == <<ByModel(<<Words(1, 1), Block("call", 2, 0)>>), ByUser(<<Block("result", 2, 1), Words(3, 3)>>)>>
Leaked == <<ByModel(<<Block("nameless", 1, 0)>>), ByUser(<<Block("result", 1, 1), Words(2, 1)>>)>>
Astray == <<Item("system", <<Words(1, 1)>>), ByUser(<<Block("result", 9, 1), Words(2, 1)>>)>>
Torn == <<ByUser(<<Block("torn", 1, 1)>>)>>
Sealed == <<ByModel(<<Block("sealed", 1, 0)>>), ByUser(<<Block("document", 3, 1)>>)>>

Wish(tools, effort) == [tools |-> tools, effort |-> effort, budget |-> 0]
PlainWish == Wish("plain", None)
Budgeted(n) == [PlainWish EXCEPT !.budget = n]
Asking(apis, openings, rounds, on, most) ==
  [apis |-> apis, openings |-> openings, rounds |-> rounds, wishes |-> {PlainWish}, on |-> on,
   most |-> most, edits |-> FALSE, switches |-> FALSE]

\* A long conversation in each API, with answered calls.
LongTalk(api) == Asking(v1 :> api, {Open("system")}, {LongAnswer, Pair, Single}, {"codebuddy"}, 4)
\* Of a developer, with an image, with what upstreams must not see.
Dirty == Asking(v1 :> "chat", {Open("developer"), Bare}, {Leaked, Astray, Pair}, {"trae", "qoder", "intl"}, 3)
Parallel == Asking(v1 :> "responses", {Open("developer"), Open("system")}, {Pair, Sealed, LongAnswer}, {"qoder", "trae"}, 3)
\* Two conversations that begin alike, and room for the cut of one.
Alike == Asking((v1 :> "chat") @@ (v2 :> "chat"), {Open("system")}, {LongAnswer}, {"codebuddy"}, 5)
Edited == [Asking(v1 :> "messages", {Open("system")}, {LongAnswer, Single, Sealed}, {"codebuddy", "zen"}, 4)
             EXCEPT !.edits = TRUE, !.switches = TRUE]
Wishful == [Asking(v1 :> "chat", {Open("system")}, {}, {"codebuddy", "qoder", "trae"}, 1)
              EXCEPT !.wishes = {Wish("marked", "high"), Wish("plain", "low"), Wish("marked", "max")}]
Thinking == [Wishful EXCEPT !.apis = v1 :> "messages", !.rounds = {Torn}, !.most = 2,
                            !.wishes = {Budgeted(1), Budgeted(4), Wish("plain", "max")}]
AllCases == {LongTalk(api) : api \in Apis} \union {Dirty, Parallel, Alike, Edited, Wishful, Thinking}

Windows == [u \in Tried |-> IF u = "trae" THEN 2 ELSE IF u = "zen" THEN None ELSE IF u = "qoder" THEN 9 ELSE 9]
Floors == [u \in Tried |-> IF u = "trae" THEN 10 ELSE 0]
Budgets == (2 :> "low") @@ (4 :> "high")
EffortNamed == <<"max", "high", "low">>
Maps == [u \in Tried |-> IF u = "trae" THEN ("high" :> None) ELSE IF u = "qoder" THEN ("high" :> "low") ELSE <<>>]
=============================================================================
