-------------------------------- MODULE Conversations ------------------------------
(***************************************************************************)
(* The two ends of an answer: what the channel's client makes of the       *)
(* upstream's stream (UpstreamStreams), and what the client of the service *)
(* gets of it (ReplyStream).                                               *)
(*                                                                         *)
(* They meet in the executor alone, which reads one event at a time, so    *)
(* that a behaviour follows one of them.                                   *)
(***************************************************************************)
EXTENDS UpstreamStreams, ReplyStream

CONSTANT Scenes            \* bound of the model: those that are followed

ASSUME ConversationConstants == Scenes \subseteq {"stream", "reply"}

VARIABLE scene

conversationVars == <<streamVars, replyVars, scene>>

ConversationsInit ==
  /\ scene \in Scenes
  /\ StreamsInit
  /\ ReplyInit
  /\ scene # "stream" => via = (CHOOSE c \in Channels : TRUE) /\ ~upstream.full
  /\ scene # "reply" => dialect = CHOOSE d \in Dialects : TRUE

Within(here, A, others) == scene = here /\ A /\ UNCHANGED <<others, scene>>

ConversationsNext ==
  \/ Within("stream", StreamsNext, replyVars)
  \/ Within("reply", ReplyNext, streamVars)

ConversationsSpec == ConversationsInit /\ [][ConversationsNext]_conversationVars

\* The loop goes on and time with it, an upstream that sends nothing more ends or times
\* out, the client reads what it is sent or leaves.  Nothing makes it leave.
ConversationsFairness ==
  /\ WF_conversationVars(Within("stream", Tick, replyVars))
  /\ WF_conversationVars(Within("stream", TimesOut, replyVars))
  /\ WF_conversationVars(Within("reply", Goes, streamVars))

FairConversationsSpec == ConversationsSpec /\ ConversationsFairness
-----------------------------------------------------------------------------
\* At both ends an answer stays whole: what the upstream says is heard as it says it
\* (openai_chunk.py 183-196, zen/client.py 318-359, codearts/events.py 149-169), and what
\* the client hears is of one attempt, each piece once (executor.py 675-677).
AnswersWhole == HeardAsSaid /\ OneAnswer

\* Every stream comes to its end: one whose upstream only murmurs times out all the same
\* (executor.py 1000-1004), and that of the client is closed whatever the upstream does
\* and however often it is silent, or the client has left, and the quota slot is free
\* again (streaming.py 39-43, endpoints.py 195-202).
StreamsClose ==
  /\ scene = "stream" ~> stage = "over"
  /\ scene = "reply" /\ at = "reading" ~> ReplyOver
=============================================================================
