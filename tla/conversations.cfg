\* Streams of all channels, replies in all APIs.
CONSTANTS
  Scenes = {"stream", "reply"}
  None = None
  Channels = {"codebuddy", "qoder", "codearts", "officeace", "trae", "zen", "kilo", "raccoon"}
  Answers <- AllAnswers
  Troubles <- AllTroubles
  Layerings <- QueueBodies
  Hints <- HintPairs
  Hosts = 2
  Index = {0, 1}
  MaxFrames = 3
  Patience = 1
  Tool = {"first", "second"}
  Nowhere = Nowhere
  Dialects = {"chat", "responses", "anthropic"}
  AllSplits = {"plain", "open", "broken", "call", "within"}
  Interleaved = {"chat", "responses"}
  RotateHeld = FALSE
  MaxEvents = 4
  MaxAttempts = 2
  MaxLinks = 2
SPECIFICATION FairConversationsSpec
INVARIANTS AnswersWhole BlameFits
PROPERTIES SpeaksProtocol StreamsClose
CHECK_DEADLOCK FALSE
