---------------------------- MODULE EventProtocol ----------------------------
(***************************************************************************)
(* What a client of one of the three public APIs may hear on a stream, as  *)
(* its parser sees it.  Style "single" is the Messages API: a start, then  *)
(* one content block at a time; "many" is the Responses API: output items  *)
(* side by side; "plain" is Chat Completions: chunks, a finishing chunk,   *)
(* perhaps usage, [DONE].  Nothing may follow the end but a heartbeat and  *)
(* an error of a plain stream, whose client reads no further than [DONE].  *)
(***************************************************************************)
EXTENDS Integers

CONSTANTS Frames

VARIABLES
  style,
  phase,        \* idle, open, ended (the finishing chunk), closed
  opened,       \* how many blocks or items were announced
  live,         \* those not closed yet
  latest        \* the frame heard last

protocolVars == <<style, phase, opened, live, latest>>

ProtocolInit ==
  /\ style \in {"single", "many", "plain"}
  /\ phase = "idle"
  /\ opened = 0
  /\ live = {}
  /\ latest \in Frames

Start(f) ==
  /\ f.type = "start" /\ style # "plain" /\ phase = "idle"
  /\ phase' = "open"
  /\ UNCHANGED <<opened, live>>

OpenBlock(f) ==
  /\ f.type = "open" /\ phase = "open"
  /\ f.block = opened
  /\ style = "single" => live = {}
  /\ opened' = opened + 1
  /\ live' = live \union {f.block}
  /\ UNCHANGED phase

Delta(f) ==
  /\ f.type = "delta"
  /\ IF style = "plain" THEN phase \in {"idle", "open"} /\ phase' = "open"
     ELSE phase = "open" /\ f.block \in live /\ UNCHANGED phase
  /\ UNCHANGED <<opened, live>>

CloseBlock(f) ==
  /\ f.type = "close" /\ phase = "open"
  /\ f.block \in live
  /\ live' = live \ {f.block}
  /\ UNCHANGED <<phase, opened>>

Usage(f) ==
  /\ f.type = "usage" /\ style = "plain" /\ phase = "ended"
  /\ UNCHANGED <<phase, opened, live>>

End(f) ==
  /\ \/ /\ f.type = "end" /\ live = {}
        /\ IF style = "plain" THEN phase \in {"idle", "open"} /\ phase' = "ended"
           ELSE phase = "open" /\ phase' = "closed"
     \/ f.type = "done" /\ style = "plain" /\ phase = "ended" /\ phase' = "closed"
  /\ UNCHANGED <<opened, live>>

Fail(f) ==
  /\ f.type = "fail"
  /\ phase # "closed" \/ style = "plain"
  /\ phase' = "closed"
  /\ UNCHANGED <<opened, live>>

\* A heartbeat, also before the start and after the end.
Ping(f) ==
  /\ f.type = "ping"
  /\ UNCHANGED <<phase, opened, live>>

ProtocolNext ==
  \E f \in Frames :
    /\ Start(f) \/ OpenBlock(f) \/ Delta(f) \/ CloseBlock(f) \/ Usage(f)
         \/ End(f) \/ Fail(f) \/ Ping(f)
    /\ latest' = f
    /\ UNCHANGED style

ProtocolSpec == ProtocolInit /\ [][ProtocolNext]_protocolVars
=============================================================================
