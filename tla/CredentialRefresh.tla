-------------------------- MODULE CredentialRefresh --------------------------
(***************************************************************************)
(* tasks/refresh.py with the writers it shares credentials with: the       *)
(* switch of the upstream account (api/admin_credentials.py) and a new     *)
(* login of a known account (api/credential_login.py).                     *)
(*                                                                         *)
(* Each of them reads the stored data, awaits the upstream and overwrites  *)
(* the data as a whole, under the edit lock of the credential              *)
(* (CredentialRepository.edit_lock, an asyncio.Lock: first come, first     *)
(* served).  Refresh tokens are single use: an upstream that answers has   *)
(* replaced the token, and the answer may be lost.                         *)
(*                                                                         *)
(* The data of a credential is its refresh token, a number that tells the  *)
(* tokens apart in the order they were issued.                             *)
(*                                                                         *)
(* A definition marked `slip' is a variant with a likely slip; no action   *)
(* uses it.                                                                *)
(***************************************************************************)
EXTENDS Naturals, FiniteSets, Sequences

CONSTANTS
  Cred,         \* the credentials, each of another upstream account
  Job,          \* the rounds of the task that may be in progress
  Admin,        \* the account switches that may be in progress
  Login,        \* the logins that may be in progress
  Nobody,       \* a credential that a writer is not working on
  MaxToken,     \* bound of the model: tokens the upstreams issue
  MaxWriters    \* bound of the model: switches and logins at a time

ASSUME RefreshConstants ==
  /\ Job \cap Admin = {} /\ Job \cap Login = {} /\ Admin \cap Login = {}
  /\ MaxToken \in Nat \ {0}
  /\ MaxWriters \in Nat

Writer == Job \cup Admin \cup Login

VARIABLES
  row,          \* the credential rows that exist
  token,        \* the refresh token stored in a row
  due,          \* whether it is inside the refresh window (needs_refresh)
  barred,       \* disabled by mark_relogin_required
  accepted,     \* the tokens an upstream accepts
  issued,       \* the number of the token issued last
  queue,        \* the edit lock: its holder and those that wait for it
  job           \* what a writer is at

refreshVars == <<row, token, due, barred, accepted, issued, queue, job>>

Idle == [at |-> "idle", on |-> Nobody, holds |-> 0, left |-> {}]
Held(c, w) == queue[c] # <<>> /\ Head(queue[c]) = w

RefreshInit ==
  /\ row = Cred
  /\ token = [c \in Cred |-> 1]
  /\ due = [c \in Cred |-> FALSE]
  /\ barred = [c \in Cred |-> FALSE]
  /\ accepted = [c \in Cred |-> {1}]
  /\ issued = 1
  /\ queue = [c \in Cred |-> <<>>]
  /\ job = [w \in Writer |-> Idle]

\* A new process: jobs and locks are gone, the rows and the upstreams stay.
RefreshStarts ==
  /\ queue' = [c \in Cred |-> <<>>]
  /\ job' = [w \in Writer |-> Idle]
  /\ UNCHANGED <<row, token, due, barred, accepted, issued>>

Skipped(w, c) == job' = [job EXCEPT ![w].left = @ \ {c}]
Freed(c) == queue' = [queue EXCEPT ![c] = Tail(@)]
Next1(w) == [Idle EXCEPT !.at = "walk", !.left = job[w].left]

----------------------------------------------------------------------------
(* The task: one round walks over the candidates it read at its beginning. *)

\* Accounts an operator has paused (enabled = 0) are passed over: any of them.
RefreshBegins(w) ==
  /\ \E enabled \in SUBSET row :
       job' = [job EXCEPT ![w] = [Idle EXCEPT !.at = "walk",
                 !.left = {c \in enabled : ~barred[c]}]]
  /\ UNCHANGED <<row, token, due, barred, accepted, issued, queue>>

\* Not in need of a refresh, or deleted.
Pass(w, c) ==
  /\ job[w].at = "walk"
  /\ c \in job[w].left
  /\ c \notin row \/ ~due[c]
  /\ Skipped(w, c)
  /\ UNCHANGED <<row, token, due, barred, accepted, issued, queue>>

\* In need of one: the turn of the pacer is awaited, then the lock.
Decide(w, c) ==
  /\ job[w].at = "walk"
  /\ c \in job[w].left \cap row
  /\ due[c]
  /\ job' = [job EXCEPT ![w] = [@ EXCEPT !.at = "pace", !.on = c, !.holds = token[c],
                                         !.left = job[w].left \ {c}]]
  /\ UNCHANGED <<row, token, due, barred, accepted, issued, queue>>

AskLock(w) ==
  /\ job[w].at = "pace"
  /\ queue' = [queue EXCEPT ![job[w].on] = Append(@, w)]
  /\ job' = [job EXCEPT ![w].at = "lock"]
  /\ UNCHANGED <<row, token, due, barred, accepted, issued>>

\* slip: the data read before the lock is used under it
RereadNothing(w, c) == job[w].holds

\* The data is read again under the lock.
Reread(w, c) == token[c]

Locked(w) ==
  LET c == job[w].on IN
  /\ job[w].at = "lock"
  /\ Held(c, w)
  /\ \/ /\ c \notin row
        /\ Freed(c)
        /\ job' = [job EXCEPT ![w] = Next1(w)]
     \/ /\ c \in row
        /\ job' = [job EXCEPT ![w].at = "ask", ![w].holds = Reread(w, c)]
        /\ UNCHANGED queue
  /\ UNCHANGED <<row, token, due, barred, accepted, issued>>

Saved(c, t) ==
  IF c \in row
  THEN /\ token' = [token EXCEPT ![c] = t]
       /\ due' = [due EXCEPT ![c] = FALSE]
  ELSE UNCHANGED <<token, due>>

Rotated(c, t) ==
  /\ issued < MaxToken
  /\ issued' = issued + 1
  /\ accepted' = [accepted EXCEPT ![c] = (@ \ {t}) \cup {issued + 1}]

\* The upstream has exchanged the token: the answer is saved.
Refreshed(w) ==
  LET c == job[w].on IN
  /\ job[w].at = "ask"
  /\ job[w].holds \in accepted[c]
  /\ Rotated(c, job[w].holds)
  /\ Saved(c, issued + 1)
  /\ Freed(c)
  /\ job' = [job EXCEPT ![w] = Next1(w)]
  /\ UNCHANGED <<row, barred>>

\* The upstream does not know the token: a new login is needed.
Refused(w) ==
  LET c == job[w].on IN
  /\ job[w].at = "ask"
  /\ job[w].holds \notin accepted[c]
  /\ barred' = IF c \in row THEN [barred EXCEPT ![c] = TRUE] ELSE barred
  /\ Freed(c)
  /\ job' = [job EXCEPT ![w] = Next1(w)]
  /\ UNCHANGED <<row, token, due, accepted, issued>>

\* No answer; the upstream may have exchanged the token all the same.
Unanswered(w) ==
  LET c == job[w].on IN
  /\ job[w].at = "ask"
  /\ \/ UNCHANGED <<accepted, issued>>
     \/ job[w].holds \in accepted[c] /\ Rotated(c, job[w].holds)
  /\ Freed(c)
  /\ job' = [job EXCEPT ![w] = Next1(w)]
  /\ UNCHANGED <<row, token, due, barred>>

RefreshStep(w) ==
  \/ \E c \in Cred : Pass(w, c) \/ Decide(w, c)
  \/ AskLock(w) \/ Locked(w) \/ Refreshed(w) \/ Refused(w) \/ Unanswered(w)

RefreshDone(w) == job[w].at = "walk" /\ job[w].left = {}
RefreshLeaves(w) ==
  /\ job' = [job EXCEPT ![w] = Idle]
  /\ UNCHANGED <<row, token, due, barred, accepted, issued, queue>>

----------------------------------------------------------------------------
(* The other writers.                                                      *)

MayBegin(w) ==
  /\ job[w].at = "idle"
  /\ Cardinality({v \in Admin \cup Login : job[v].at # "idle"}) < MaxWriters

\* select_credential_account takes the lock, then reads.
SwitchAsks(w, c) ==
  /\ MayBegin(w)
  /\ c \in row
  /\ queue' = [queue EXCEPT ![c] = Append(@, w)]
  /\ job' = [job EXCEPT ![w].at = "lock", ![w].on = c]
  /\ UNCHANGED <<row, token, due, barred, accepted, issued>>

SwitchReads(w) ==
  LET c == job[w].on IN
  /\ job[w].at = "lock"
  /\ Held(c, w)
  /\ \/ /\ c \notin row
        /\ Freed(c)
        /\ job' = [job EXCEPT ![w] = Idle]
     \/ /\ c \in row
        /\ job' = [job EXCEPT ![w].at = "ask", ![w].holds = token[c]]
        /\ UNCHANGED queue
  /\ UNCHANGED <<row, token, due, barred, accepted, issued>>

\* The upstream answers with new data, or not at all.
SwitchSaves(w) ==
  LET c == job[w].on IN
  /\ job[w].at = "ask"
  /\ \/ /\ job[w].holds \in accepted[c]
        /\ Rotated(c, job[w].holds)
        /\ Saved(c, issued + 1)
     \/ UNCHANGED <<token, due, accepted, issued>>
  /\ Freed(c)
  /\ job' = [job EXCEPT ![w] = Idle]
  /\ UNCHANGED <<row, barred>>

\* A login has its new data before it looks for the row to merge it into.
LoginAsks(w, c) ==
  /\ MayBegin(w)
  /\ c \in row
  /\ issued < MaxToken
  /\ issued' = issued + 1
  /\ accepted' = [accepted EXCEPT ![c] = @ \cup {issued + 1}]
  /\ queue' = [queue EXCEPT ![c] = Append(@, w)]
  /\ job' = [job EXCEPT ![w].at = "lock", ![w].on = c, ![w].holds = issued + 1]
  /\ UNCHANGED <<row, token, due, barred>>

\* slip: a login merges without waiting for the lock
LoginMayMergeAnytime(w, c) == TRUE

LoginMayMerge(w, c) == Held(c, w)

\* merge_login_credential; a row deleted meanwhile is a new row (CredentialPool).
LoginMerges(w) ==
  LET c == job[w].on IN
  /\ job[w].at = "lock"
  /\ LoginMayMerge(w, c)
  /\ Saved(c, job[w].holds)
  /\ barred' = IF c \in row THEN [barred EXCEPT ![c] = FALSE] ELSE barred
  /\ Freed(c)
  /\ job' = [job EXCEPT ![w] = Idle]
  /\ UNCHANGED <<row, accepted, issued>>

Write ==
  \/ \E w \in Admin, c \in Cred : SwitchAsks(w, c)
  \/ \E w \in Login, c \in Cred : LoginAsks(w, c)

WriterStep ==
  \/ \E w \in Admin : SwitchReads(w) \/ SwitchSaves(w)
  \/ \E w \in Login : LoginMerges(w)

\* Administration of a row: revive and delete.
Administer(c) ==
  /\ c \in row
  /\ \/ barred[c] /\ barred' = [barred EXCEPT ![c] = FALSE] /\ UNCHANGED row
     \/ row' = row \ {c} /\ UNCHANGED barred
  /\ UNCHANGED <<token, due, accepted, issued, queue, job>>

\* The access token comes near its end.
Expire(c) ==
  /\ c \in row /\ ~due[c]
  /\ due' = [due EXCEPT ![c] = TRUE]
  /\ UNCHANGED <<row, token, barred, accepted, issued, queue, job>>
=============================================================================
