------------------------------- MODULE Accounts -------------------------------
(***************************************************************************)
(* Who may enter: the rows of users.txt and of the table users, sessions   *)
(* (signed cookies fenced by the epoch of their account), the throttle of  *)
(* failed passwords, activation tokens, the command line tool that writes  *)
(* to the same database, and the hand-over at each start (auth/, api/deps, *)
(* api/admin_auth, api/admin_users, api/activate, scripts/create_user).    *)
(*                                                                         *)
(* A handler is alone between two awaits; the only awaits here are those   *)
(* of a hash: logging in and changing a password.  Operators count as      *)
(* viewers, for nothing here asks for them.  Instants are ages.            *)
(*                                                                         *)
(* `A wrong X' is a variant of X with a likely slip; no action uses it.    *)
(***************************************************************************)
EXTENDS Integers, FiniteSets, SequencesExt

CONSTANTS
  Person, Browser,
  Address, AddressOf,          \* where a browser calls from
  InFile,                      \* the names in users.txt ...
  Named,                       \* ... and in ADMIN_USERNAMES
  Passwords,                   \* what people type
  SessionLife, ActivationLife,
  Slack,                       \* SESSION_CLOCK_SLACK_SECONDS
  FailWindow, MaxGlobal, MaxPerIp, MaxPerUser,   \* ThrottleLimits
  MaxKeys,                     \* LoginThrottle._MAX_KEYS
  Hashers,                     \* slots of the semaphore
  MaxEpoch,                    \* bound of the model: changes of one account
  Nobody

Random == "random"             \* the password nobody knows
FromFile == CHOOSE p \in Passwords : TRUE

ASSUME AccountConstants ==
  /\ IsFiniteSet(Browser) /\ Browser # {} /\ Passwords # {} /\ Random \notin Passwords
  /\ AddressOf \in [Browser -> Address]
  /\ InFile \subseteq Person /\ Named \subseteq Person
  /\ {SessionLife, ActivationLife, Slack, MaxEpoch} \subseteq Nat
  /\ {FailWindow, MaxGlobal, MaxPerIp, MaxPerUser, MaxKeys, Hashers} \subseteq Nat \ {0}

VARIABLES
  account,    \* per name, its row; exists says whether there is one
  jar,        \* per browser, its cookie; `lapsed' is history: why it should be dead
  hashing,    \* per browser, its handler that waits for a hash
  fails,      \* LoginThrottle._events: per level, the ages of failures, oldest first
  cli,        \* the name the command line tool has found deletable; `last' is
              \* history: whether it was the last admin then
  up          \* the service has come up

accountVars == <<account, jar, hashing, fails, cli, up>>

Row(role, pass, token) ==
  [exists |-> TRUE, role |-> role, enabled |-> TRUE, epoch |-> 0, must |-> FALSE,
   pass |-> pass, token |-> token, age |-> 0]
NoToken == -1
NoRow == [Row("viewer", Random, NoToken) EXCEPT !.exists = FALSE]

Active(u) == account[u].exists /\ account[u].enabled
ActiveAdmins == {u \in Person : Active(u) /\ account[u].role = "admin"}
LastAdmin(u) == u \in ActiveAdmins /\ Cardinality(ActiveAdmins) <= 1

-----------------------------------------------------------------------------
(* Sessions.                                                               *)

\* wrong Accepts: the creation of the account is not asked for
AcceptsAnyAge(c) ==
  c # Nobody /\ Active(c.of) /\ c.epoch = account[c.of].epoch /\ c.age <= SessionLife

\* verify_session_token, session_valid
Accepts(c) ==
  /\ c # Nobody
  /\ Active(c.of)
  /\ c.epoch = account[c.of].epoch
  /\ c.age <= account[c.of].age + Slack
  /\ c.age <= SessionLife

Session(b) == up /\ Accepts(jar[b])
Admin(b) == Session(b) /\ account[jar[b].of].role = "admin" /\ ~account[jar[b].of].must

\* issue_session: with the epoch of this moment
Cookie(u, epoch) == [of |-> u, epoch |-> epoch, age |-> 0, lapsed |-> "no"]

\* the cookies of an account that end here
Lapsed(u, why) ==
  [b \in Browser |-> IF jar[b] # Nobody /\ jar[b].of = u /\ jar[b].lapsed # "deleted"
                     THEN [jar[b] EXCEPT !.lapsed = why] ELSE jar[b]]

LogOut(b) ==
  /\ up /\ jar[b] # Nobody
  /\ jar' = [jar EXCEPT ![b] = Nobody]
  /\ UNCHANGED <<account, hashing, fails, cli, up>>

-----------------------------------------------------------------------------
(* The throttle.                                                           *)

Global == <<"global">>
Ip(b) == <<"ip", AddressOf[b]>>
Name(u) == <<"user", u>>
Level == {Global} \union {Ip(b) : b \in Browser} \union {Name(u) : u \in Person}
Most(k) == CASE k = Global -> MaxGlobal [] k[1] = "ip" -> MaxPerIp [] OTHER -> MaxPerUser

Failures(k) == IF k \in DOMAIN fails THEN fails[k] ELSE <<>>
Full(k) == Len(Failures(k)) >= Most(k)

\* check_transport_windows, and check
Barred(b) == Full(Global) \/ Full(Ip(b))
Throttled(b, u) == Barred(b) \/ Full(Name(u))

\* _evict_over_capacity: levels without a recent failure go, then those whose last
\* failure is oldest, never the global one
Evictions(f) ==
  IF Cardinality(DOMAIN f) <= MaxKeys THEN {DOMAIN f}
  ELSE LET fresh == {k \in DOMAIN f : k = Global \/ f[k] # <<>>} IN
       IF Cardinality(fresh) <= MaxKeys THEN {fresh}
       ELSE {kept \in SUBSET fresh :
               /\ Global \in kept /\ Cardinality(kept) = MaxKeys
               /\ \A k \in kept \ {Global}, gone \in fresh \ kept :
                    Last(f[k]) <= Last(f[gone])}

\* record_failure
FailureOf(b, u) ==
  LET touched == {Global, Ip(b), Name(u)}
      more == [k \in DOMAIN fails \union touched |->
                 IF k \in touched THEN Append(Failures(k), 0) ELSE fails[k]]
  IN \E kept \in Evictions(more) : fails' = [k \in kept |-> more[k]]

\* record_success
Forgiven(u) == fails' = [k \in DOMAIN fails \ {Name(u)} |-> fails[k]]

-----------------------------------------------------------------------------
(* Logging in and changing one's password.                                 *)

Await(b, handler) == hashing' = [hashing EXCEPT ![b] = handler]
AtHash == {b \in Browser : hashing[b] # Nobody /\ hashing[b].at = "hash"}

LoginAsks(b, u, p) ==
  /\ up /\ hashing[b] = Nobody
  /\ ~Barred(b)
  /\ Await(b, [job |-> "login", at |-> "queue", of |-> u, pass |-> p, new |-> p, right |-> FALSE])
  /\ UNCHANGED <<account, jar, fails, cli, up>>

\* the row is read before the wait, so the verdict is about the password of this moment
ChangeAsks(b, p, new) ==
  /\ hashing[b] = Nobody
  /\ Session(b)
  /\ LET u == jar[b].of IN
     /\ ~Throttled(b, u)
     /\ Await(b, [job |-> "change", at |-> "queue", of |-> u, pass |-> p, new |-> new,
                  right |-> account[u].pass = p])
  /\ UNCHANGED <<account, jar, fails, cli, up>>

\* a slot is free; DbUserStore.verify reads the row in its thread
HashBegins(b) ==
  /\ hashing[b] # Nobody /\ hashing[b].at = "queue"
  /\ Cardinality(AtHash) < Hashers
  /\ LET h == hashing[b] IN
     Await(b, [h EXCEPT !.at = "hash",
                        !.right = IF h.job = "login"
                                  THEN Active(h.of) /\ account[h.of].pass = h.pass
                                  ELSE h.right])
  /\ UNCHANGED <<account, jar, fails, cli, up>>

Verified(b, job) == b \in AtHash /\ hashing[b].job = job

\* wrong LoginFails: it is counted before it is looked at
LoginFailsUnchecked(b) ==
  /\ Verified(b, "login") /\ ~hashing[b].right
  /\ FailureOf(b, hashing[b].of)
  /\ Await(b, Nobody)
  /\ UNCHANGED <<account, jar, cli, up>>

\* refused uncounted where a window is full, else counted
LoginFails(b) ==
  /\ Verified(b, "login") /\ ~hashing[b].right
  /\ IF Throttled(b, hashing[b].of) THEN UNCHANGED fails ELSE FailureOf(b, hashing[b].of)
  /\ Await(b, Nobody)
  /\ UNCHANGED <<account, jar, cli, up>>

LoginSucceeds(b) ==
  /\ Verified(b, "login") /\ hashing[b].right
  /\ Forgiven(hashing[b].of)
  /\ jar' = [jar EXCEPT ![b] = Cookie(hashing[b].of, account[hashing[b].of].epoch)]
  /\ Await(b, Nobody)
  /\ UNCHANGED <<account, cli, up>>

ChangeFails(b) ==
  /\ Verified(b, "change") /\ ~hashing[b].right
  /\ FailureOf(b, hashing[b].of)
  /\ Await(b, Nobody)
  /\ UNCHANGED <<account, jar, cli, up>>

ChangeGoesOn(b) ==
  /\ Verified(b, "change") /\ hashing[b].right
  /\ Await(b, [hashing[b] EXCEPT !.job = "set", !.at = "queue"])
  /\ UNCHANGED <<account, jar, fails, cli, up>>

\* UserRepository.set_password
WithPassword(row, p, must) ==
  IF row.exists THEN [row EXCEPT !.pass = p, !.must = must, !.epoch = @ + 1, !.token = NoToken]
  ELSE row

\* set_password, and a new cookie for the browser that asked
ChangeEnds(b) ==
  LET u == hashing[b].of
      row == WithPassword(account[u], hashing[b].new, FALSE)
  IN
  /\ Verified(b, "set")
  /\ account[u].epoch < MaxEpoch
  /\ account' = [account EXCEPT ![u] = row]
  /\ jar' = [Lapsed(u, "revoked") EXCEPT ![b] = Cookie(u, row.epoch)]
  /\ Await(b, Nobody)
  /\ UNCHANGED <<fails, cli, up>>

-----------------------------------------------------------------------------
(* What admins do, and what an activation token does.                      *)

CreateUser(b, u, role) ==
  /\ Admin(b) /\ ~account[u].exists
  /\ account' = [account EXCEPT ![u] = Row(role, Random, ActivationLife)]
  /\ UNCHANGED <<jar, hashing, fails, cli, up>>

\* what ends the sessions of u: update_role, set_enabled
Fenced(row) == [row EXCEPT !.epoch = @ + 1]

Rule(b, u, row) ==
  /\ Admin(b) /\ account[u].exists
  /\ account[u].epoch < MaxEpoch
  /\ account' = [account EXCEPT ![u] = row]
  /\ jar' = Lapsed(u, "revoked")
  /\ UNCHANGED <<hashing, fails, cli, up>>

\* _guard_last_admin, then nobody does it to himself
MayLower(b, u) == Admin(b) /\ ~LastAdmin(u) /\ jar[b].of # u

UpdateRole(b, u, role) ==
  /\ IF role # "admin" THEN MayLower(b, u) ELSE Admin(b) /\ jar[b].of # u
  /\ Rule(b, u, Fenced([account[u] EXCEPT !.role = role]))

DisableUser(b, u) == MayLower(b, u) /\ Rule(b, u, Fenced([account[u] EXCEPT !.enabled = FALSE]))

EnableUser(b, u) == Rule(b, u, Fenced([account[u] EXCEPT !.enabled = TRUE]))

ResetPassword(b, u) ==
  Rule(b, u, [WithPassword(account[u], Random, TRUE) EXCEPT !.token = ActivationLife])

\* whoever holds the token
Activate(u, p) ==
  /\ up /\ account[u].exists /\ account[u].token # NoToken
  /\ account[u].epoch < MaxEpoch
  /\ account' = [account EXCEPT ![u] = WithPassword(@, p, FALSE)]
  /\ jar' = Lapsed(u, "revoked")
  /\ UNCHANGED <<hashing, fails, cli, up>>

-----------------------------------------------------------------------------
(* The command line tool, a process of its own, and the start.             *)

CliCreates(u, role, p) ==
  /\ ~account[u].exists
  /\ account' = [account EXCEPT ![u] = Row(role, p, NoToken)]
  /\ UNCHANGED <<jar, hashing, fails, cli, up>>

\* wrong CliMayDelete: the last admin is not asked for
CliMayDeleteAnyone(u) == account[u].exists

\* the guard of delete(), asked before the row goes
CliMayDelete(u) == account[u].exists /\ ~LastAdmin(u)

CliLooks(u) ==
  /\ cli = Nobody
  /\ CliMayDelete(u)
  /\ cli' = [of |-> u, last |-> LastAdmin(u)]
  /\ UNCHANGED <<account, jar, hashing, fails, up>>

CliDeletes ==
  /\ cli # Nobody
  /\ account' = [account EXCEPT ![cli.of] = NoRow]
  /\ jar' = Lapsed(cli.of, "deleted")
  /\ cli' = Nobody
  /\ UNCHANGED <<hashing, fails, up>>

\* import_into: names that are not there yet, as viewers
Imported ==
  [u \in Person |-> IF u \in InFile /\ ~account[u].exists
                    THEN Row("viewer", FromFile, NoToken) ELSE account[u]]

\* bootstrap_users: ADMIN_USERNAMES counts only where no admin is active
Bootstrapped ==
  IF ActiveAdmins # {} THEN Imported
  ELSE [u \in Person |-> IF u \in Named /\ Imported[u].exists
                         THEN [Imported[u] EXCEPT !.role = "admin"] ELSE Imported[u]]

ServiceStarts ==
  /\ account' = Bootstrapped
  /\ up' = (ActiveAdmins' # {})
  /\ hashing' = [b \in Browser |-> Nobody]
  /\ fails' = << >>
  /\ UNCHANGED <<jar, cli>>

-----------------------------------------------------------------------------
Older(c) == IF c = Nobody \/ c.age = SessionLife THEN Nobody ELSE [c EXCEPT !.age = @ + 1]
Aging(row) ==
  [row EXCEPT !.age = IF row.exists /\ @ < SessionLife THEN @ + 1 ELSE @,
              !.token = IF @ = NoToken THEN NoToken ELSE @ - 1]

\* _prune: while the oldest is a whole window old it goes
Recent(ages) ==
  LET young == {i \in DOMAIN ages : ages[i] < FailWindow} IN
  IF young = {} THEN <<>> ELSE SubSeq(ages, Min(young), Len(ages))

TimeGoesOn ==
  /\ account' = [u \in Person |-> Aging(account[u])]
  /\ jar' = [b \in Browser |-> Older(jar[b])]
  /\ fails' = [k \in DOMAIN fails |-> Recent([i \in DOMAIN fails[k] |-> fails[k][i] + 1])]
  /\ UNCHANGED <<hashing, cli, up>>

\* a fresh database, after its first start; who has logged in is left to the scene
AccountsInit ==
  /\ account = [u \in Person |->
                  IF u \notin InFile THEN NoRow
                  ELSE Row(IF u \in Named THEN "admin" ELSE "viewer", FromFile, NoToken)]
  /\ hashing = [b \in Browser |-> Nobody]
  /\ fails = << >>
  /\ cli = Nobody
  /\ up = (InFile \cap Named # {})

Entering(b) ==
  \/ HashBegins(b) \/ LoginFails(b) \/ LoginSucceeds(b)
  \/ ChangeFails(b) \/ ChangeGoesOn(b) \/ ChangeEnds(b)

Administering(b, u) ==
  \/ \E role \in {"admin", "viewer"} : CreateUser(b, u, role) \/ UpdateRole(b, u, role)
  \/ DisableUser(b, u) \/ EnableUser(b, u) \/ ResetPassword(b, u)

CommandLine(u) ==
  \/ \E role \in {"admin", "viewer"} : CliCreates(u, role, FromFile)
  \/ CliLooks(u)
  \/ CliDeletes

-----------------------------------------------------------------------------
(* Properties.                                                             *)

CookieType == [of : Person, epoch : 0..MaxEpoch, age : 0..SessionLife,
               lapsed : {"no", "revoked", "deleted"}]

\* Rows, cookies, handlers and failures are of their types.
AccountsTypeOK ==
  /\ account \in [Person -> [exists : BOOLEAN, role : {"admin", "viewer"}, enabled : BOOLEAN,
                             epoch : 0..MaxEpoch, must : BOOLEAN, pass : Passwords \union {Random},
                             token : NoToken..ActivationLife, age : 0..SessionLife]]
  /\ \A b \in Browser : jar[b] = Nobody \/ jar[b] \in CookieType
  /\ DOMAIN fails \subseteq Level
  /\ cli = Nobody \/ cli \in [of : Person, last : BOOLEAN]
  /\ up \in BOOLEAN

\* Once an account was disabled, enabled, given another role or another password, no
\* cookie from before is ever accepted again; and none of a deleted account is by an
\* account that takes its name, where epochs begin anew, unless it was issued within
\* the slack before that one was made.  Checked with the types.
RevokedStaysRevoked ==
  /\ AccountsTypeOK
  /\ \A b \in Browser :
       Session(b) => \/ jar[b].lapsed = "no"
                     \/ jar[b].lapsed = "deleted" /\ jar[b].age <= account[jar[b].of].age + Slack

\* However logins and changes of passwords overlap in their hashes: a window holds no
\* more failures than its limit, but for one of each other browser that was being hashed.
ThrottleHolds ==
  \A k \in DOMAIN fails : Len(fails[k]) < Most(k) + Cardinality(Browser)

\* While the service is up its last admin is neither lowered, disabled nor deleted,
\* whoever acts in whatever order; only the command line tool, which judges and deletes
\* in two steps, may do it, if things have changed since it judged.
AdminRemains ==
  up /\ ActiveAdmins # {} /\ ActiveAdmins' = {} => CliDeletes /\ ~cli.last

\* Nobody comes in by a right that was taken away, and not everybody's is taken away.
AccountsGuarded == [][RevokedStaysRevoked' /\ AdminRemains]_accountVars

=============================================================================
