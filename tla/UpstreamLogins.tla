---------------------------- MODULE UpstreamLogins ----------------------------
(***************************************************************************)
(* Logins to upstream accounts that admins start, until each is a row of   *)
(* the table credentials: the stores of pending logins                     *)
(* (provider/auth_state), the five ways a login is completed (codebuddy,   *)
(* qoder, officeace, codearts; trae by a callback of the browser or a      *)
(* pasted link: api/authorize, api/admin_auth), and how a result is        *)
(* merged into the row of its account (api/credential_login,               *)
(* provider/login_identity).                                               *)
(*                                                                         *)
(* Handlers interleave at their awaits: calls to the upstream and locks.   *)
(* That the caller is an admin is asked first by each of them (Accounts).  *)
(*                                                                         *)
(* `A wrong X' is a variant of X with a likely slip; no action uses it.    *)
(***************************************************************************)
EXTENDS Integers, FiniteSets, FiniteSetsExt, Sequences

CONSTANTS
  Channel,       \* those followed, of Channels
  Starters,      \* per channel, the admins who log in there ...
  MaxLogins,     \* ... and how often; bounds of the model
  Handler,       \* requests under way at a time
  Alias,         \* what the account of the example is known by upstream
  LoginTTL,
  MaxPending     \* of the store that has a limit

Channels == {"codebuddy", "qoder", "officeace", "codearts", "trae"}

ASSUME LoginConstants ==
  /\ Channel \subseteq Channels
  /\ MaxLogins \in [Channel -> Nat]
  /\ {LoginTTL, MaxPending} \subseteq Nat \ {0}

Login == 1 .. Max({MaxLogins[c] : c \in Channel})
Starter == UNION {Starters[c] : c \in Channel}

VARIABLES
  login,     \* per login, its entry in the store of its channel, and what came of it
  serving,   \* per handler, the login it completes and how far it is
  saved,     \* the rows of credentials logins have written
  common     \* history: per channel, the aliases every login of the account gave

loginVars == <<login, serving, saved, common>>

NotStarted == [at |-> "new", channel |-> "", of |-> "", age |-> 0, noted |-> FALSE,
               granted |-> "no", saves |-> 0]
Idle == [at |-> "idle"]

LoginsInit ==
  /\ login = [l \in Login |-> NotStarted]
  /\ serving = [h \in Handler |-> Idle]
  /\ saved = {}
  /\ common = [c \in Channel |-> Alias]

-----------------------------------------------------------------------------
(* The stores.                                                             *)

Pending(c) == {l \in Login : login[l].at = "pending" /\ login[l].channel = c}
PendingOf(c, s) == {l \in Pending(c) : login[l].of = s}

Expired(l) == login[l].age >= LoginTTL
CallbackExpired(l) == login[l].age > LoginTTL

\* an entry leaves its store
Left(entry, how) == [entry EXCEPT !.at = how, !.age = 0]
Gone(ls) == [l \in Login |-> IF l \in ls THEN Left(login[l], "gone") ELSE login[l]]

\* the entries begin() removes before it adds one: the expired, and the oldest beyond
\* the limit; pending_callbacks has one per admin
Swept(c) == IF c = "trae" THEN {} ELSE {l \in Pending(c) : Expired(l)}
Displaced(c, s) ==
  LET kept == Pending(c) \ Swept(c) IN
  CASE c = "trae" -> PendingOf(c, s)
    [] c = "officeace" /\ Cardinality(kept) >= MaxPending -> {Min(kept)}
    [] OTHER -> {}

Begun(c, s) == [NotStarted EXCEPT !.at = "pending", !.channel = c, !.of = s]

Start(c, s) ==
  LET new == {l \in 1 .. MaxLogins[c] : login[l].at = "new"} IN
  /\ new # {}
  /\ login' = [Gone(Swept(c) \union Displaced(c, s)) EXCEPT ![Min(new)] = Begun(c, s)]
  /\ UNCHANGED <<serving, saved, common>>

\* of the person who holds the link; it is not told to the service
Grant(l) ==
  /\ login[l].at # "new" /\ login[l].granted = "no"
  /\ login' = [login EXCEPT ![l].granted = "given"]
  /\ UNCHANGED <<serving, saved, common>>

Cancel(l, s) ==
  /\ login[l].at = "pending" /\ login[l].of = s
  /\ login' = Gone({l})
  /\ UNCHANGED <<serving, saved, common>>

-----------------------------------------------------------------------------
(* Completing a login.                                                     *)

\* what each channel awaits, in order; an exchange spends what was given
CodeBuddyPath == <<"token", "account">>
QoderPath == <<"token", "user">>
OfficeAcePath == <<"code", "exchange", "info">>
TicketPath == <<"token", "identity">>
PastePath == <<"exchange", "identity">>
TraePath == <<"exchange">>

Path(c, pasted) ==
  CASE c = "codebuddy" -> CodeBuddyPath
    [] c = "qoder" -> QoderPath
    [] c = "officeace" -> OfficeAcePath
    [] c = "codearts" -> IF pasted THEN PastePath ELSE TicketPath
    [] c = "trae" -> TraePath

Serve(h, job) == serving' = [serving EXCEPT ![h] = job]
Job(l, path) == [at |-> "asks", on |-> l, left |-> path, gives |-> {}]

\* the owner asks with the state he was given: poll, complete_callback
AskLogin(h, l, s, pasted) ==
  LET c == login[l].channel
      path == Path(c, pasted)
  IN
  /\ serving[h] = Idle
  /\ login[l].at = "pending" /\ login[l].of = s
  /\ c # "trae"
  /\ pasted => c = "codearts"
  /\ IF Expired(l)
     THEN login' = Gone({l}) /\ UNCHANGED serving
     ELSE /\ Serve(h, Job(l, IF c = "codebuddy" /\ login[l].noted THEN Tail(path) ELSE path))
          /\ UNCHANGED login
  /\ UNCHANGED <<saved, common>>

\* the first callback of the portal, pasted: only its secret is noted
PasteSecret(l, s) ==
  /\ login[l].at = "pending" /\ login[l].channel = "codearts" /\ login[l].of = s
  /\ ~Expired(l)
  /\ login' = [login EXCEPT ![l].noted = TRUE]
  /\ UNCHANGED <<serving, saved, common>>

\* TRAE comes back with the trace of l, to the browser of the session of s, or to one
\* without; pasted, it comes back to s.  It is consumed before it is exchanged.
CallBack(h, l, s) ==
  LET own == PendingOf("trae", s) IN
  /\ serving[h] = Idle
  /\ login[l].channel = "trae" /\ login[l].granted # "no"
  /\ l \in Pending("trae")
  /\ own = {} \/ l \in own
  /\ IF CallbackExpired(l)
     THEN login' = Gone({l}) /\ UNCHANGED serving
     ELSE login' = [login EXCEPT ![l] = Left(@, "consumed")] /\ Serve(h, Job(l, Path("trae", FALSE)))
  /\ UNCHANGED <<saved, common>>

Asked(h) == serving[h].at = "asks"
Step(h) == Head(serving[h].left)

\* what the upstream knows by now
Ready(h) ==
  LET l == serving[h].on IN
  CASE Step(h) = "token" -> login[l].granted # "no" /\ (login[l].channel = "codearts" => login[l].noted)
    [] Step(h) \in {"code", "exchange"} -> login[l].granted = "given"
    [] OTHER -> TRUE

\* still to wait for, refused, or failed
Unready(h) ==
  /\ Asked(h)
  /\ Step(h) \notin {"user", "identity"}
  /\ Serve(h, Idle)
  /\ UNCHANGED <<login, saved, common>>

Noted(h) ==
  LET l == serving[h].on IN
  [login EXCEPT ![l].granted = IF Step(h) = "exchange" THEN "spent" ELSE @,
                ![l].noted = @ \/ (Step(h) = "token" /\ login[l].channel = "codebuddy")]

Proceed(h) ==
  /\ Asked(h) /\ Ready(h)
  /\ Len(serving[h].left) > 1
  /\ login' = Noted(h)
  /\ Serve(h, [serving[h] EXCEPT !.left = Tail(@)])
  /\ UNCHANGED <<saved, common>>

HasIdentity(c) == c \in {"codearts", "officeace"}

\* consume, once everything is known
Consumes(l) == login[l].at = "pending" /\ ~Expired(l)

Consumed(entry, saving) ==
  [Left(entry, "consumed") EXCEPT !.saves = IF saving THEN 1 + entry.saves ELSE entry.saves]

SavedRow(l, gives) == [id |-> l, channel |-> login[l].channel, gives |-> gives, edited |-> FALSE]

\* the last answer: the login is consumed, and saved at once where it has no identity
Complete(h, gives) ==
  LET l == serving[h].on
      c == login[l].channel
      plain == ~HasIdentity(c) \/ gives = {}
  IN
  /\ Asked(h) /\ Ready(h)
  /\ Len(serving[h].left) = 1
  /\ ~HasIdentity(c) => gives = {}
  /\ IF c = "trae" \/ Consumes(l)
     THEN /\ login' = [Noted(h) EXCEPT ![l] = Consumed(@, plain)]
          /\ saved' = IF HasIdentity(c) /\ plain THEN saved \union {SavedRow(l, {})} ELSE saved
          /\ common' = IF HasIdentity(c) THEN [common EXCEPT ![c] = @ \intersect gives] ELSE common
          /\ Serve(h, IF plain THEN Idle ELSE [at |-> "queues", on |-> l, gives |-> gives])
     ELSE /\ login' = [Noted(h) EXCEPT ![l] = IF @.at = "pending" THEN Left(@, "gone") ELSE @]
          /\ Serve(h, Idle)
          /\ UNCHANGED <<saved, common>>

-----------------------------------------------------------------------------
(* save_login_credential.                                                  *)

\* wrong LockFree: nobody waits
LockFreeAlways(c) == TRUE

\* _login_lock, held by a handler that waits for the edit lock of the row it has found
LockFree(c) == \A h \in Handler : serving[h].at = "merges" => login[serving[h].on].channel # c

Added(h) == saved \union {SavedRow(serving[h].on, serving[h].gives)}
SavedBy(h) == [login EXCEPT ![serving[h].on].saves = @ + 1]

\* find_login_credential
Matches(h) ==
  {r \in saved : r.channel = login[serving[h].on].channel /\ r.gives \intersect serving[h].gives # {}}

AddRow(h) ==
  /\ serving[h].at = "queues" /\ LockFree(login[serving[h].on].channel)
  /\ Matches(h) = {}
  /\ saved' = Added(h)
  /\ login' = SavedBy(h)
  /\ Serve(h, Idle)
  /\ UNCHANGED common

FindRow(h, r) ==
  /\ serving[h].at = "queues" /\ LockFree(login[serving[h].on].channel)
  /\ r \in Matches(h)
  /\ Serve(h, [at |-> "merges", on |-> serving[h].on, gives |-> serving[h].gives, row |-> r.id])
  /\ UNCHANGED <<login, saved, common>>

\* the data of the row are replaced; a row deleted meanwhile is added anew
MergeRow(h) ==
  /\ serving[h].at = "merges"
  /\ LET row == {r \in saved : r.id = serving[h].row} IN
     /\ \A r \in row : ~r.edited
     /\ saved' = IF row = {} THEN Added(h)
                 ELSE {IF r \in row THEN [r EXCEPT !.gives = serving[h].gives] ELSE r : r \in saved}
  /\ login' = SavedBy(h)
  /\ Serve(h, Idle)
  /\ UNCHANGED common

-----------------------------------------------------------------------------
(* The surroundings.                                                       *)

\* a refresh, or a switch, holds the edit lock of a row and gives it back
OthersEdit(r) ==
  /\ r \in saved
  /\ saved' = (saved \ {r}) \union {[r EXCEPT !.edited = ~@]}
  /\ UNCHANGED <<login, serving, common>>

DeleteRow(r) ==
  /\ r \in saved
  /\ saved' = saved \ {r}
  /\ UNCHANGED <<login, serving, common>>

LoginsAge ==
  /\ login' = [l \in Login |-> IF login[l].at = "pending" /\ ~CallbackExpired(l)
                               THEN [login[l] EXCEPT !.age = @ + 1] ELSE login[l]]
  /\ UNCHANGED <<serving, saved, common>>

\* stores and handlers live in the process
LoginsLost ==
  /\ login' = Gone({l \in Login : login[l].at = "pending"})
  /\ serving' = [h \in Handler |-> Idle]
  /\ saved' = {[r EXCEPT !.edited = FALSE] : r \in saved}
  /\ UNCHANGED common

\* a behaviour follows one channel
LoginsNext(c) ==
  \/ \E s \in Starters[c] : Start(c, s)
  \/ \E l \in Login : Grant(l)
  \/ \E l \in Login, s \in Starter : Cancel(l, s) \/ PasteSecret(l, s)
  \/ \E h \in Handler, l \in Login, s \in Starter :
       CallBack(h, l, s) \/ \E pasted \in BOOLEAN : AskLogin(h, l, s, pasted)
  \/ \E h \in Handler : Unready(h) \/ Proceed(h) \/ AddRow(h) \/ MergeRow(h)
  \/ \E h \in Handler, gives \in SUBSET Alias : Complete(h, gives)
  \/ \E h \in Handler, r \in saved : FindRow(h, r)
  \/ \E r \in saved : OthersEdit(r) \/ DeleteRow(r)
  \/ LoginsAge
  \/ LoginsLost

-----------------------------------------------------------------------------
(* Properties.                                                             *)

SavedOnce ==
  \A l \in Login :
    /\ login[l].saves <= 1
    /\ login[l].saves = 1 => login[l].at = "consumed"

\* merging replaces what a row is known by: logins that gave different aliases do end
\* in two rows
OneRowPerAccount ==
  \A c \in Channel : common[c] # {} => Cardinality({r \in saved : r.channel = c}) <= 1

\* A login is saved at most once, however its polls, pasted links and callbacks overlap,
\* and never when it was cancelled, displaced, expired or lost before it was consumed;
\* and an account that logs in again gets no second row while all its logins gave one
\* alias in common, though they race each other, edits and deletions.
LoginsLandOnce == SavedOnce /\ OneRowPerAccount

=============================================================================
