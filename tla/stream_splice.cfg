\* An attempt breaks while the filter of the chat API holds its text back.
CONSTANTS
  Tool = {"first", "second"}
  Nowhere = Nowhere
  Dialects = {"chat"}
  AllSplits = {"plain", "open", "broken", "call", "within"}
  Interleaved = {"chat", "responses"}
  RotateHeld = TRUE
  MaxEvents = 4
  MaxAttempts = 2
  MaxLinks = 2
SPECIFICATION ReplySpec
INVARIANT OneAttemptSpeaks
CHECK_DEADLOCK FALSE
