---------------------------- MODULE RequestLife ----------------------------
(***************************************************************************)
(* What becomes of requests: where the turns of conversations are served   *)
(* (ChatTurns), what each attempt asks the upstream of the history the     *)
(* client repeats (RequestShaping), and what is read of the attempts       *)
(* afterwards (StatsPages): the pages, the list and the live stream.       *)
(*                                                                         *)
(* The executor selects the account, then has the messages trimmed and the *)
(* body made for its channel, and records the attempt when it is over.     *)
(* None looks at what the others decide but for the channel and the        *)
(* outcome, so that a behaviour follows one of them.                       *)
(***************************************************************************)
EXTENDS ChatTurns, RequestShaping, StatsPages

CONSTANT Followable          \* bound of the model: what is followed

ASSUME RequestLifeConstants == Followable \subseteq {"turn", "ask", "tables", "list", "live"}

VARIABLE follows

requestLifeVars == <<turnVars, shapeVars, pageVars, follows>>

RequestLifeInit ==
  /\ follows \in Followable
  /\ TurnsInit /\ ShapesInit /\ PagesInit
  /\ follows # "turn" => setting = CHOOSE s \in Settings : TRUE
  /\ follows # "ask" => case = (CHOOSE c \in Cases : TRUE) /\ settings.sticky
  /\ follows # "tables" => price = Min(Prices)

PagesNext ==
  \/ follows = "tables" /\ TablesNext
  \/ follows = "list" /\ ListNext
  \/ follows = "live" /\ LiveNext

RequestLifeNext ==
  \/ follows = "turn" /\ TurnsNext /\ UNCHANGED <<shapeVars, pageVars, follows>>
  \/ follows = "ask" /\ ShapesNext /\ UNCHANGED <<turnVars, pageVars, follows>>
  \/ PagesNext /\ UNCHANGED <<turnVars, shapeVars, follows>>

RequestLifeSpec == RequestLifeInit /\ [][RequestLifeNext]_requestLifeVars

----------------------------------------------------------------------------
\* Where only the tables change they always agree (StatsPages, and UsageBooks for the
\* rows of the hours), and so do the orders of the list.
TablesAgree ==
  /\ follows = "tables" => PagesAgree
  /\ follows = "list" => ListsAgree
=============================================================================
