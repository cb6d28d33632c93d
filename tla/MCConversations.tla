------------------------------- MODULE MCConversations -----------------------------
(***************************************************************************)
(* A small instance of Conversations: streams of each channel, with the    *)
(* answers its sources document; replies in each API, two attempts and two *)
(* models, two calls and leaked calls.                                     *)
(***************************************************************************)
EXTENDS Conversations

\* The answers the sources document: classify_status of each channel, its docstring
\* and the comments at its markers.
Wrapped ==
  {<<"codebuddy", 402, "credit">>, <<"codebuddy", 429, "credit">>, <<"codebuddy", 403, "plan">>,
   <<"codebuddy", 400, "absent">>, <<"codebuddy", 404, "absent">>,
   <<"codebuddy", 403, "restricted">>, <<"codebuddy", 400, "risk">>, <<"codebuddy", 403, "risk">>,
   <<"codebuddy", 401, "dead">>, <<"codebuddy", 404, "unknown">>, <<"codebuddy", 429, "throttled">>,
   <<"codebuddy", 429, "unknown">>, <<"codebuddy", 400, "context">>,
   <<"codebuddy", 400, "malformed">>, <<"codebuddy", 400, "noModel">>, <<"codebuddy", 500, "unknown">>,
   <<"qoder", 402, "credit">>, <<"qoder", 403, "daily">>, <<"qoder", 403, "queued">>,
   <<"qoder", 401, "dead">>, <<"qoder", 403, "dead">>, <<"qoder", 403, "unknown">>,
   <<"qoder", 429, "throttled">>, <<"qoder", 418, "unknown">>, <<"qoder", 400, "node">>,
   <<"qoder", 404, "noModel">>,
   <<"codearts", 402, "credit">>, <<"codearts", 403, "plan">>, <<"codearts", 400, "incapable">>,
   <<"codearts", 404, "absent">>, <<"codearts", 400, "expired">>, <<"codearts", 401, "dead">>,
   <<"codearts", 404, "unknown">>, <<"codearts", 400, "crowded">>, <<"codearts", 429, "throttled">>,
   <<"codearts", 429, "unknown">>, <<"codearts", 400, "badParams">>,
   <<"officeace", 403, "absent">>, <<"officeace", 404, "absent">>, <<"officeace", 429, "throttled">>,
   <<"officeace", 400, "tooLarge">>, <<"officeace", 400, "badParams">>, <<"officeace", 401, "dead">>,
   <<"officeace", 402, "credit">>, <<"officeace", 403, "credit">>, <<"officeace", 500, "unknown">>,
   <<"trae", 402, "credit">>, <<"trae", 403, "credit">>, <<"trae", 403, "plan">>, <<"trae", 404, "absent">>,
   <<"trae", 401, "dead">>, <<"trae", 404, "unknown">>, <<"trae", 429, "throttled">>,
   <<"trae", 429, "unknown">>, <<"trae", 400, "badParams">>, <<"trae", 403, "unknown">>,
   <<"zen", 401, "paid">>, <<"zen", 429, "unknown">>, <<"zen", 400, "noModel">>, <<"zen", 403, "gate">>,
   <<"kilo", 401, "paid">>, <<"kilo", 429, "throttled">>, <<"kilo", 503, "throttled">>,
   <<"kilo", 404, "noModel">>, <<"kilo", 403, "gate">>,
   <<"raccoon", 401, "dead">>, <<"raccoon", 403, "dead">>, <<"raccoon", 403, "gate">>,
   <<"raccoon", 402, "credit">>, <<"raccoon", 429, "crowded">>, <<"raccoon", 429, "unknown">>,
   <<"raccoon", 400, "noModel">>, <<"raccoon", 503, "unknown">>}

InStream ==
  {<<"qoder", 403, "daily">>, <<"qoder", 403, "queued">>, <<"qoder", 403, "dead">>,
   <<"qoder", 400, "node">>, <<"qoder", 500, "unknown">>,
   <<"codearts", 200, "absent">>, <<"codearts", 200, "crowded">>, <<"codearts", 200, "throttled">>,
   <<"codearts", 200, "incapable">>, <<"codearts", 200, "badParams">>, <<"codearts", 200, "plan">>,
   <<"codearts", 200, "dead">>, <<"codearts", 200, "unknown">>,
   <<"officeace", 200, "absent">>, <<"officeace", 200, "throttled">>, <<"officeace", 401, "dead">>,
   <<"officeace", 200, "credit">>,
   <<"trae", 200, "plan">>, <<"trae", 200, "credit">>, <<"trae", 200, "throttled">>,
   <<"trae", 200, "badParams">>, <<"trae", 200, "unknown">>,
   <<"zen", 401, "paid">>, <<"zen", 429, "unknown">>, <<"kilo", 502, "throttled">>,
   <<"raccoon", 200, "dead">>, <<"raccoon", 200, "crowded">>, <<"raccoon", 200, "credit">>}

\* A marker finds the cause it stands for; what names sessions that are all taken names
\* a rate limit, too; and in a stream, where a plan is looked for as digits anywhere in
\* the code, 001001005 holds those of 1005.
AsAnswers(rows, inStream) ==
  {[via |-> r[1], status |-> r[2], cause |-> r[3],
    signs |-> {r[3]} \union
              IF r[3] = "crowded" THEN {"throttled"}
              ELSE IF r[3] = "badParams" /\ r[1] = "codearts" /\ inStream THEN {"plan"} ELSE {}] : r \in rows}
AllAnswers == AsAnswers(Wrapped, FALSE)
AllTroubles == AsAnswers(InStream, TRUE)

\* layers are objects (counted) or texts; the flag may lie above or below the wait
Layer(counts, flag, wait) == [counts |-> counts, flag |-> flag, wait |-> wait]
Box == Layer(TRUE, FALSE, None)
Quote == Layer(FALSE, FALSE, None)
QueueBodies ==
  {<<Layer(TRUE, TRUE, None)>>,
   <<Layer(TRUE, TRUE, 30)>>,
   <<Box, Quote, Layer(TRUE, TRUE, None), Quote, Layer(TRUE, TRUE, 30)>>,
   <<Box, Quote, Box, Quote, Box, Quote, Layer(TRUE, TRUE, 30)>>}

HintPairs == {<<None, None>>, <<2, None>>, <<-1, 3>>, <<None, 3>>, <<None, -1>>}
=============================================================================
