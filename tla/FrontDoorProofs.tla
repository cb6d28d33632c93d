---------------------------- MODULE FrontDoorProofs ----------------------------
(***************************************************************************)
(* Proofs about FrontDoor, for any people, browsers, keys, quotas and      *)
(* logins, whatever the windows and limits: rights that were taken away    *)
(* stay away and an admin remains; the throttle holds; the counts of the   *)
(* quota follow the requests; a login lands in one row, once.              *)
(***************************************************************************)
EXTENDS FrontDoor, FiniteSetTheorems, SequenceTheorems, WellFoundedInduction, TLAPS

-----------------------------------------------------------------------------
(* Rows, cookies and handlers.                                             *)

RowType ==
  [exists : BOOLEAN, role : {"admin", "viewer"}, enabled : BOOLEAN,
   epoch : 0..MaxEpoch, must : BOOLEAN, pass : Passwords \union {Random},
   token : NoToken..ActivationLife, age : 0..SessionLife]

HandlerType ==
  [job : {"login", "change", "set"}, at : {"queue", "hash"}, of : Person,
   pass : Passwords \union {Random}, new : Passwords \union {Random}, right : BOOLEAN]

\* The types of AccountsTypeOK, with those of functions and handlers.
AccountTypes ==
  /\ account \in [Person -> RowType]
  /\ jar \in [Browser -> CookieType \union {Nobody}]
  /\ hashing \in [Browser -> HandlerType \union {Nobody}]
  /\ DOMAIN fails \subseteq Level
  /\ fails \in [DOMAIN fails -> Seq(Nat)]
  /\ cli = Nobody \/ cli \in [of : Person, last : BOOLEAN]
  /\ up \in BOOLEAN

\* Epochs only grow while an account lasts: a cookie that was revoked is behind its
\* account, which is still there, and none is ahead.
Behind(c) ==
  c # Nobody /\ c.lapsed # "deleted" =>
    /\ c.epoch <= account[c.of].epoch
    /\ c.lapsed = "revoked" => account[c.of].exists /\ c.epoch < account[c.of].epoch

CookiesBehind == \A b \in Browser : Behind(jar[b])

NamesStartAnew == \A u \in Person : ~account[u].exists => account[u].epoch = 0

\* a password is only changed where no tool deletes accounts
ChangesHaveRows ==
  \A b \in Browser :
    hashing[b] # Nobody /\ hashing[b].job \in {"change", "set"} =>
      scene # "shell" /\ account[hashing[b].of].exists

CliJudged == cli # Nobody => ~cli.last

AccountsInv ==
  AccountTypes /\ CookiesBehind /\ NamesStartAnew /\ ChangesHaveRows /\ CliJudged

LEMMA TypesOfAccounts == AccountTypes => AccountsTypeOK
BY DEF AccountTypes, AccountsTypeOK, RowType

LEMMA NewRows ==
  ASSUME NEW role \in {"admin", "viewer"}, NEW pass \in Passwords \union {Random},
         NEW token \in {NoToken, ActivationLife}
  PROVE  /\ Row(role, pass, token) \in RowType
         /\ Row(role, pass, token).exists /\ Row(role, pass, token).epoch = 0
         /\ NoRow \in RowType /\ ~NoRow.exists /\ NoRow.epoch = 0
<1>1. /\ 0 \in 0..MaxEpoch /\ 0 \in 0..SessionLife
      /\ NoToken \in NoToken..ActivationLife /\ ActivationLife \in NoToken..ActivationLife
      /\ Random \in Passwords \union {Random}
  BY AccountConstants DEF NoToken
<1>2. /\ Row(role, pass, token) \in RowType
      /\ Row(role, pass, token).exists /\ Row(role, pass, token).epoch = 0
  BY <1>1 DEF Row, RowType
<1>3. NoRow \in RowType /\ ~NoRow.exists /\ NoRow.epoch = 0
  <2> DEFINE row == Row("viewer", Random, NoToken)
  <2>1. row \in RowType /\ row.epoch = 0
    BY <1>1 DEF Row, RowType
  <2>2. NoRow = [row EXCEPT !.exists = FALSE]
    BY DEF NoRow
  <2> HIDE DEF row
  <2> QED BY <2>1, <2>2 DEF RowType
<1> QED BY <1>2, <1>3

LEMMA FromFileIsOne == FromFile \in Passwords
BY AccountConstants DEF FromFile

\* What an admin, a token or a change does to a row.
LEMMA FencedRows ==
  ASSUME NEW row \in RowType, row.epoch < MaxEpoch
  PROVE  /\ Fenced(row) \in RowType
         /\ Fenced(row).epoch = row.epoch + 1
         /\ Fenced(row).exists = row.exists
         /\ Fenced(row).role = row.role
         /\ Fenced(row).enabled = row.enabled
<1>1. row.epoch + 1 \in 0..MaxEpoch
  BY AccountConstants DEF RowType
<1> QED BY <1>1 DEF Fenced, RowType

LEMMA PasswordRows ==
  ASSUME NEW row \in RowType, row.epoch < MaxEpoch, row.exists,
         NEW p \in Passwords \union {Random}, NEW must \in BOOLEAN
  PROVE  /\ WithPassword(row, p, must) \in RowType
         /\ WithPassword(row, p, must).epoch = row.epoch + 1
         /\ WithPassword(row, p, must).exists
         /\ WithPassword(row, p, must).role = row.role
         /\ WithPassword(row, p, must).enabled = row.enabled
<1>1. row.epoch + 1 \in 0..MaxEpoch
  BY AccountConstants DEF RowType
<1>2. NoToken \in NoToken..ActivationLife
  BY AccountConstants DEF NoToken
<1> QED BY <1>1, <1>2 DEF WithPassword, RowType

LEMMA AgingRows ==
  ASSUME NEW row \in RowType
  PROVE  /\ Aging(row) \in RowType
         /\ Aging(row).epoch = row.epoch
         /\ Aging(row).exists = row.exists
         /\ Aging(row).role = row.role
         /\ Aging(row).enabled = row.enabled
<1> DEFINE age == IF row.exists /\ row.age < SessionLife THEN row.age + 1 ELSE row.age
           token == IF row.token = NoToken THEN NoToken ELSE row.token - 1
<1>1. age \in 0..SessionLife
  BY AccountConstants DEF RowType
<1>2. token \in NoToken..ActivationLife
  BY AccountConstants DEF RowType, NoToken
<1>3. Aging(row) = [row EXCEPT !.age = age, !.token = token]
  BY DEF Aging
<1> HIDE DEF age, token
<1> QED BY <1>1, <1>2, <1>3 DEF RowType

LEMMA NewCookies ==
  ASSUME NEW u \in Person, NEW epoch \in 0..MaxEpoch
  PROVE  /\ Cookie(u, epoch) \in CookieType
         /\ Cookie(u, epoch).of = u /\ Cookie(u, epoch).epoch = epoch
         /\ Cookie(u, epoch).lapsed = "no"
BY AccountConstants DEF Cookie, CookieType

LEMMA LapsedCookies ==
  ASSUME AccountTypes, NEW u \in Person, NEW why \in {"revoked", "deleted"}
  PROVE  /\ Lapsed(u, why) \in [Browser -> CookieType \union {Nobody}]
         /\ \A b \in Browser :
              IF jar[b] # Nobody /\ jar[b].of = u /\ jar[b].lapsed # "deleted"
              THEN /\ Lapsed(u, why)[b].of = u
                   /\ Lapsed(u, why)[b].epoch = jar[b].epoch
                   /\ Lapsed(u, why)[b].lapsed = why
              ELSE Lapsed(u, why)[b] = jar[b]
<1>1. \A b \in Browser : jar[b] # Nobody => jar[b] \in CookieType
  BY DEF AccountTypes
<1>2. \A c \in CookieType :
        /\ [c EXCEPT !.lapsed = why] \in CookieType
        /\ [c EXCEPT !.lapsed = why].of = c.of
        /\ [c EXCEPT !.lapsed = why].epoch = c.epoch
        /\ [c EXCEPT !.lapsed = why].lapsed = why
  BY DEF CookieType
<1> QED BY <1>1, <1>2 DEF Lapsed

LEMMA OlderCookies ==
  ASSUME NEW c \in CookieType \union {Nobody}
  PROVE  /\ Older(c) \in CookieType \union {Nobody}
         /\ Older(c) # Nobody =>
              /\ c # Nobody /\ Older(c).of = c.of
              /\ Older(c).epoch = c.epoch /\ Older(c).lapsed = c.lapsed
<1>1. CASE c = Nobody \/ c.age = SessionLife
  BY <1>1 DEF Older
<1>2. CASE c # Nobody /\ c.age # SessionLife
  <2>1. c \in CookieType /\ c.age + 1 \in 0..SessionLife
    BY <1>2, AccountConstants DEF CookieType
  <2>2. Older(c) = [c EXCEPT !.age = c.age + 1]
    BY <1>2 DEF Older
  <2> QED BY <1>2, <2>1, <2>2 DEF CookieType
<1> QED BY <1>1, <1>2

-----------------------------------------------------------------------------
(* Rows that last.                                                         *)

RowsLast ==
  \A u \in Person :
    /\ account'[u].epoch >= account[u].epoch
    /\ account[u].exists => account'[u].exists

LEMMA StillBehind ==
  ASSUME AccountTypes, AccountTypes', RowsLast,
         NEW c \in CookieType \union {Nobody}, Behind(c)
  PROVE  Behind(c)'
<1> SUFFICES ASSUME c \in CookieType
             PROVE  Behind(c)'
  BY DEF Behind
<1>1. c.of \in Person /\ c.epoch \in Int
  BY DEF CookieType
<1>2. account[c.of].epoch \in Int /\ account'[c.of].epoch \in Int
  BY <1>1 DEF AccountTypes, RowType
<1> QED BY <1>1, <1>2 DEF Behind, RowsLast

LEMMA RevokedBehind ==
  ASSUME AccountTypes, AccountTypes', RowsLast, CookiesBehind,
         NEW u \in Person, account'[u].exists, account'[u].epoch = account[u].epoch + 1,
         NEW b \in Browser, NEW c, c = Lapsed(u, "revoked")[b]
  PROVE  Behind(c)'
<1>1. CASE jar[b] # Nobody /\ jar[b].of = u /\ jar[b].lapsed # "deleted"
  <2>1. c.of = u /\ c.epoch = jar[b].epoch /\ c.lapsed = "revoked"
    BY <1>1, LapsedCookies
  <2>2. jar[b].epoch <= account[u].epoch /\ jar[b].epoch \in Int /\ account[u].epoch \in Int
    BY <1>1 DEF CookiesBehind, Behind, AccountTypes, CookieType, RowType
  <2> QED BY <2>1, <2>2 DEF Behind
<1>2. CASE ~(jar[b] # Nobody /\ jar[b].of = u /\ jar[b].lapsed # "deleted")
  <2>1. c = jar[b]
    BY <1>2, LapsedCookies
  <2>2. Behind(c) /\ c \in CookieType \union {Nobody}
    BY <2>1 DEF CookiesBehind, AccountTypes
  <2> QED BY <2>2, StillBehind
<1> QED BY <1>1, <1>2

-----------------------------------------------------------------------------
(* Failures.                                                               *)

LEMMA EvictionsKeep ==
  ASSUME NEW f, NEW kept \in Evictions(f)
  PROVE  kept \subseteq DOMAIN f
BY DEF Evictions

\* A failure is counted at most once, on its three levels.
LEMMA FailureCounts ==
  ASSUME AccountTypes, NEW b \in Browser, NEW u \in Person, FailureOf(b, u)
  PROVE  /\ DOMAIN fails' \subseteq Level
         /\ fails' \in [DOMAIN fails' -> Seq(Nat)]
         /\ \A k \in Level :
              Len(Failures(k)') <= Len(Failures(k)) +
                                  (IF k \in {Global, Ip(b), Name(u)} THEN 1 ELSE 0)
<1> DEFINE touched == {Global, Ip(b), Name(u)}
           more == [k \in DOMAIN fails \union touched |->
                      IF k \in touched THEN Append(Failures(k), 0) ELSE fails[k]]
<1>1. PICK kept \in Evictions(more) : fails' = [k \in kept |-> more[k]]
  BY DEF FailureOf
<1>2. kept \subseteq DOMAIN fails \union touched
  BY EvictionsKeep
<1>3. touched \subseteq Level /\ DOMAIN fails \subseteq Level
  BY DEF Level, AccountTypes
<1>4. \A k \in Level : Failures(k) \in Seq(Nat)
  BY DEF Failures, AccountTypes
<1>5. \A k \in DOMAIN fails \union touched :
        /\ more[k] \in Seq(Nat)
        /\ Len(more[k]) = Len(Failures(k)) + (IF k \in touched THEN 1 ELSE 0)
  <2> SUFFICES ASSUME NEW k \in DOMAIN fails \union touched
               PROVE  /\ more[k] \in Seq(Nat)
                      /\ Len(more[k]) = Len(Failures(k)) + (IF k \in touched THEN 1 ELSE 0)
    OBVIOUS
  <2>1. Failures(k) \in Seq(Nat)
    BY <1>3, <1>4
  <2>2. CASE k \in touched
    <3>1. more[k] = Append(Failures(k), 0)
      BY <2>2
    <3> HIDE DEF more, touched
    <3> QED BY <2>1, <2>2, <3>1
  <2>3. CASE k \notin touched
    <3>1. more[k] = Failures(k)
      BY <2>3 DEF Failures
    <3> HIDE DEF more, touched
    <3> QED BY <2>1, <2>3, <3>1
  <2> QED BY <2>2, <2>3
<1> HIDE DEF more, touched
<1>6. DOMAIN fails' = kept /\ \A k \in kept : fails'[k] = more[k]
  BY <1>1
<1>7. DOMAIN fails' \subseteq Level /\ fails' \in [DOMAIN fails' -> Seq(Nat)]
  BY <1>1, <1>2, <1>3, <1>5
<1>8. ASSUME NEW k \in Level
      PROVE  Len(Failures(k)') <= Len(Failures(k)) + (IF k \in touched THEN 1 ELSE 0)
  <2>1. Len(Failures(k)) \in Nat
    BY <1>4
  <2>2. Failures(k)' = IF k \in kept THEN more[k] ELSE <<>>
    BY <1>6 DEF Failures
  <2>3. Len(<<>>) = 0
    OBVIOUS
  <2>4. CASE k \in kept
    BY <1>2, <1>5, <2>1, <2>2, <2>4
  <2>5. CASE k \notin kept
    BY <2>1, <2>2, <2>3, <2>5
  <2> QED BY <2>4, <2>5
<1> QED BY <1>7, <1>8 DEF touched

-----------------------------------------------------------------------------
(* One action at a time.                                                   *)

Changes(h) == h # Nobody /\ h.job \in {"change", "set"}

LEMMA ChangesKeepRows ==
  ASSUME AccountTypes, ChangesHaveRows, RowsLast, scene' = scene,
         \A b \in Browser :
           \/ hashing'[b] = hashing[b]
           \/ Changes(hashing'[b]) => scene # "shell" /\ account'[hashing'[b].of].exists
  PROVE  ChangesHaveRows'
<1>1. \A b \in Browser : hashing[b] # Nobody => hashing[b].of \in Person
  BY DEF AccountTypes, HandlerType
<1> QED BY <1>1 DEF ChangesHaveRows, RowsLast, Changes

\* A handler that waits, goes on or gives up: rows and cookies are as they were.
LEMMA HandlersAlone ==
  ASSUME AccountsInv, AccountTypes', UNCHANGED <<account, jar, cli, scene>>,
         NEW b \in Browser, NEW h, hashing' = [hashing EXCEPT ![b] = h],
         Changes(h) => scene # "shell" /\ account[h.of].exists
  PROVE  AccountsInv'
<1>1. RowsLast
  BY DEF RowsLast, AccountsInv, AccountTypes, RowType
<1>2. hashing'[b] = h /\ \A x \in Browser \ {b} : hashing'[x] = hashing[x]
  BY DEF AccountsInv, AccountTypes
<1>3. ChangesHaveRows'
  BY <1>1, <1>2, ChangesKeepRows DEF AccountsInv
<1>4. CookiesBehind' /\ NamesStartAnew' /\ CliJudged'
  BY DEF AccountsInv, CookiesBehind, Behind, NamesStartAnew, CliJudged
<1> QED BY <1>3, <1>4 DEF AccountsInv

LEMMA HandlerFields ==
  ASSUME AccountTypes, NEW b \in Browser, hashing[b] # Nobody
  PROVE  /\ hashing[b] \in HandlerType /\ hashing[b].of \in Person
         /\ hashing[b].new \in Passwords \union {Random}
BY DEF AccountTypes, HandlerType

LEMMA LoginAsksSound ==
  ASSUME AccountsInv, scene' = scene, NEW b \in Browser, NEW u \in Person,
         NEW p \in Passwords \union {Random}, LoginAsks(b, u, p)
  PROVE  AccountsInv'
<1> DEFINE h == [job |-> "login", at |-> "queue", of |-> u, pass |-> p, new |-> p, right |-> FALSE]
<1>1. hashing' = [hashing EXCEPT ![b] = h] /\ UNCHANGED <<account, jar, fails, cli, up>>
  BY DEF LoginAsks, Await
<1>2. h \in HandlerType /\ ~Changes(h)
  BY DEF HandlerType, Changes
<1> HIDE DEF h
<1>3. AccountTypes'
  BY <1>1, <1>2 DEF AccountsInv, AccountTypes
<1> QED BY <1>1, <1>2, <1>3, HandlersAlone

LEMMA ChangeAsksSound ==
  ASSUME AccountsInv, scene' = scene, scene # "shell", NEW b \in Browser,
         NEW p \in Passwords \union {Random}, NEW new \in Passwords, ChangeAsks(b, p, new)
  PROVE  AccountsInv'
<1> DEFINE u == jar[b].of
           h == [job |-> "change", at |-> "queue", of |-> u, pass |-> p, new |-> new,
                 right |-> account[u].pass = p]
<1>1. hashing' = [hashing EXCEPT ![b] = h] /\ UNCHANGED <<account, jar, fails, cli, up>>
  BY DEF ChangeAsks, Await
<1>2. jar[b] # Nobody /\ account[u].exists
  BY DEF ChangeAsks, Session, Accepts, Active
<1>3. u \in Person
  BY <1>2 DEF AccountsInv, AccountTypes, CookieType
<1>4. h \in HandlerType /\ h.of = u
  BY <1>3 DEF HandlerType
<1> HIDE DEF h, u
<1>5. AccountTypes'
  BY <1>1, <1>4 DEF AccountsInv, AccountTypes
<1> QED BY <1>1, <1>2, <1>4, <1>5, HandlersAlone

LEMMA HashBeginsSound ==
  ASSUME AccountsInv, scene' = scene, NEW b \in Browser, HashBegins(b)
  PROVE  AccountsInv'
<1> DEFINE right == IF hashing[b].job = "login"
                    THEN Active(hashing[b].of) /\ account[hashing[b].of].pass = hashing[b].pass
                    ELSE hashing[b].right
           h == [hashing[b] EXCEPT !.at = "hash", !.right = right]
<1>1. hashing' = [hashing EXCEPT ![b] = h] /\ UNCHANGED <<account, jar, fails, cli, up>>
  BY DEF HashBegins, Await
<1>2. hashing[b] \in HandlerType
  BY HandlerFields DEF HashBegins, AccountsInv
<1>3. right \in BOOLEAN
  BY <1>2 DEF HandlerType, Active, AccountsInv, AccountTypes, RowType
<1> HIDE DEF right
<1>4. h \in HandlerType /\ h.of = hashing[b].of /\ h.job = hashing[b].job
  BY <1>2, <1>3 DEF HandlerType
<1>5. Changes(h) => scene # "shell" /\ account[h.of].exists
  BY <1>4 DEF HashBegins, Changes, AccountsInv, ChangesHaveRows
<1> HIDE DEF h
<1>6. AccountTypes'
  BY <1>1, <1>4 DEF AccountsInv, AccountTypes
<1> QED BY <1>1, <1>5, <1>6, HandlersAlone

LEMMA FailureSound ==
  ASSUME AccountsInv, scene' = scene, NEW b \in Browser, LoginFails(b) \/ ChangeFails(b)
  PROVE  AccountsInv'
<1>1. hashing' = [hashing EXCEPT ![b] = Nobody] /\ UNCHANGED <<account, jar, cli, up>>
  BY DEF LoginFails, ChangeFails, Await
<1>2. hashing[b].of \in Person
  BY HandlerFields DEF LoginFails, ChangeFails, Verified, AtHash, AccountsInv
<1>3. FailureOf(b, hashing[b].of) \/ UNCHANGED fails
  BY DEF LoginFails, ChangeFails
<1>4. DOMAIN fails' \subseteq Level /\ fails' \in [DOMAIN fails' -> Seq(Nat)]
  BY <1>2, <1>3, FailureCounts DEF AccountsInv, AccountTypes
<1>5. AccountTypes'
  BY <1>1, <1>4 DEF AccountsInv, AccountTypes
<1> QED BY <1>1, <1>5, HandlersAlone DEF Changes

LEMMA ChangeGoesOnSound ==
  ASSUME AccountsInv, scene' = scene, NEW b \in Browser, ChangeGoesOn(b)
  PROVE  AccountsInv'
<1> DEFINE h == [hashing[b] EXCEPT !.job = "set", !.at = "queue"]
<1>1. hashing' = [hashing EXCEPT ![b] = h] /\ UNCHANGED <<account, jar, fails, cli, up>>
  BY DEF ChangeGoesOn, Await
<1>2. hashing[b] # Nobody /\ hashing[b].job = "change"
  BY DEF ChangeGoesOn, Verified, AtHash
<1>3. h \in HandlerType /\ h.of = hashing[b].of
  BY <1>2, HandlerFields DEF HandlerType, AccountsInv
<1>4. scene # "shell" /\ account[h.of].exists
  BY <1>2, <1>3 DEF AccountsInv, ChangesHaveRows
<1> HIDE DEF h
<1>5. AccountTypes'
  BY <1>1, <1>3 DEF AccountsInv, AccountTypes
<1> QED BY <1>1, <1>4, <1>5, HandlersAlone

-----------------------------------------------------------------------------
(* Rows and cookies change.                                                *)

LEMMA LoginSucceedsSound ==
  ASSUME AccountsInv, scene' = scene, NEW b \in Browser, LoginSucceeds(b)
  PROVE  AccountsInv'
<1> DEFINE u == hashing[b].of
           c == Cookie(u, account[u].epoch)
<1>1. /\ hashing' = [hashing EXCEPT ![b] = Nobody] /\ UNCHANGED <<account, cli, up>>
      /\ jar' = [jar EXCEPT ![b] = c] /\ Forgiven(u)
  BY DEF LoginSucceeds, Await
<1>2. u \in Person
  BY HandlerFields DEF LoginSucceeds, Verified, AtHash, AccountsInv
<1>3. account[u].epoch \in 0..MaxEpoch
  BY <1>2 DEF AccountsInv, AccountTypes, RowType
<1>4. /\ c \in CookieType /\ c.of = u /\ c.epoch = account[u].epoch /\ c.lapsed = "no"
  BY <1>2, <1>3, NewCookies
<1>5. DOMAIN fails' \subseteq Level /\ fails' \in [DOMAIN fails' -> Seq(Nat)]
  BY <1>1 DEF Forgiven, AccountsInv, AccountTypes
<1> HIDE DEF c
<1>6. AccountTypes'
  BY <1>1, <1>4, <1>5 DEF AccountsInv, AccountTypes
<1>7. \A x \in Browser : jar'[x] = IF x = b THEN c ELSE jar[x]
  BY <1>1 DEF AccountsInv, AccountTypes
<1>8. CookiesBehind'
  BY <1>1, <1>3, <1>4, <1>7 DEF CookiesBehind, Behind, AccountsInv
<1>9. RowsLast
  BY <1>1 DEF RowsLast, AccountsInv, AccountTypes, RowType
<1>10. ChangesHaveRows'
  <2>1. \A x \in Browser : hashing'[x] = hashing[x] \/ hashing'[x] = Nobody
    BY <1>1 DEF AccountsInv, AccountTypes
  <2> QED BY <1>9, <2>1, ChangesKeepRows DEF AccountsInv, Changes
<1> QED BY <1>1, <1>6, <1>8, <1>10 DEF AccountsInv, NamesStartAnew, CliJudged

LEMMA ChangeEndsSound ==
  ASSUME AccountsInv, scene' = scene, NEW b \in Browser, ChangeEnds(b)
  PROVE  AccountsInv'
<1> DEFINE u == hashing[b].of
           row == WithPassword(account[u], hashing[b].new, FALSE)
           c == Cookie(u, row.epoch)
           lapsed == Lapsed(u, "revoked")
<1>1. /\ hashing' = [hashing EXCEPT ![b] = Nobody] /\ UNCHANGED <<fails, cli, up>>
      /\ account' = [account EXCEPT ![u] = row] /\ account[u].epoch < MaxEpoch
      /\ jar' = [lapsed EXCEPT ![b] = c]
  BY DEF ChangeEnds, Await
<1>2. /\ u \in Person /\ hashing[b].new \in Passwords \union {Random}
      /\ account[u].exists
  BY HandlerFields DEF ChangeEnds, Verified, AtHash, AccountsInv, ChangesHaveRows
<1>3. /\ row \in RowType /\ row.epoch = account[u].epoch + 1 /\ row.exists
      /\ account[u].epoch \in Int /\ row.epoch \in 0..MaxEpoch
  <2>1. account[u] \in RowType
    BY <1>2 DEF AccountsInv, AccountTypes
  <2>2. /\ row \in RowType /\ row.epoch = account[u].epoch + 1 /\ row.exists
    BY <1>1, <1>2, <2>1, PasswordRows
  <2> HIDE DEF row
  <2> QED BY <2>1, <2>2 DEF RowType
<1>4. /\ c \in CookieType /\ c.of = u /\ c.epoch = row.epoch /\ c.lapsed = "no"
  BY <1>2, <1>3, NewCookies
<1>5. lapsed \in [Browser -> CookieType \union {Nobody}]
  BY <1>2, LapsedCookies DEF AccountsInv
<1> HIDE DEF c, row
<1>6. \A x \in Person : account'[x] = IF x = u THEN row ELSE account[x]
  BY <1>1 DEF AccountsInv, AccountTypes
<1>7. AccountTypes'
  <2> HIDE DEF lapsed
  <2> QED BY <1>1, <1>2, <1>3, <1>4, <1>5 DEF AccountsInv, AccountTypes
<1>8. RowsLast
  <2>1. \A x \in Person : account[x].epoch \in Int
    BY DEF AccountsInv, AccountTypes, RowType
  <2> QED BY <1>2, <1>3, <1>6, <2>1 DEF RowsLast
<1>9. ASSUME NEW x \in Browser, NEW k, k = jar'[x]
      PROVE  Behind(k)'
  <2>1. CASE x = b
    <3>1. k = c
      BY <1>1, <1>5, <1>9, <2>1
    <3> QED BY <1>2, <1>3, <1>4, <1>6, <3>1 DEF Behind
  <2>2. CASE x # b
    <3>1. k = lapsed[x]
      BY <1>1, <1>5, <1>9, <2>2
    <3> QED BY <1>2, <1>3, <1>6, <1>7, <1>8, <3>1, RevokedBehind DEF AccountsInv
  <2> QED BY <2>1, <2>2
<1>10. ChangesHaveRows'
  <2>1. \A x \in Browser : hashing'[x] = hashing[x] \/ hashing'[x] = Nobody
    BY <1>1 DEF AccountsInv, AccountTypes
  <2> QED BY <1>8, <2>1, ChangesKeepRows DEF AccountsInv, Changes
<1>11. CookiesBehind'
  BY <1>9 DEF CookiesBehind
<1>12. NamesStartAnew'
  BY <1>3, <1>6 DEF NamesStartAnew, AccountsInv
<1> QED BY <1>1, <1>7, <1>10, <1>11, <1>12 DEF AccountsInv, CliJudged

LEMMA LogOutSound ==
  ASSUME AccountsInv, scene' = scene, NEW b \in Browser, LogOut(b)
  PROVE  AccountsInv'
<1>1. jar' = [jar EXCEPT ![b] = Nobody] /\ UNCHANGED <<account, hashing, fails, cli, up>>
  BY DEF LogOut
<1>2. AccountTypes'
  BY <1>1 DEF AccountsInv, AccountTypes
<1>3. CookiesBehind'
  <2>1. \A x \in Browser : jar'[x] = IF x = b THEN Nobody ELSE jar[x]
    BY <1>1 DEF AccountsInv, AccountTypes
  <2> QED BY <1>1, <2>1 DEF CookiesBehind, Behind, AccountsInv
<1> QED BY <1>1, <1>2, <1>3 DEF AccountsInv, NamesStartAnew, ChangesHaveRows, CliJudged

\* A name is taken, by an admin or by the tool.
LEMMA NameTaken ==
  ASSUME AccountsInv, NEW u \in Person, ~account[u].exists,
         NEW row \in RowType, row.exists, row.epoch = 0,
         account' = [account EXCEPT ![u] = row],
         UNCHANGED <<jar, hashing, fails, cli, up, scene>>
  PROVE  AccountsInv'
<1>1. \A x \in Person : account'[x] = IF x = u THEN row ELSE account[x]
  BY DEF AccountsInv, AccountTypes
<1>2. AccountTypes'
  BY DEF AccountsInv, AccountTypes
<1>3. RowsLast
  BY <1>1 DEF RowsLast, AccountsInv, NamesStartAnew, AccountTypes, RowType
<1>4. CookiesBehind'
  <2> SUFFICES ASSUME NEW b \in Browser, NEW c, c = jar[b]
               PROVE  Behind(c)'
    BY DEF CookiesBehind
  <2>1. Behind(c) /\ c \in CookieType \union {Nobody}
    BY DEF AccountsInv, CookiesBehind, AccountTypes
  <2> QED BY <1>2, <1>3, <2>1, StillBehind DEF AccountsInv
<1>5. ChangesHaveRows'
  BY <1>3, ChangesKeepRows DEF AccountsInv
<1>6. NamesStartAnew'
  BY <1>1 DEF NamesStartAnew, AccountsInv
<1> QED BY <1>2, <1>4, <1>5, <1>6 DEF AccountsInv, CliJudged

\* Sessions of an account are fenced off.
LEMMA AccountFenced ==
  ASSUME AccountsInv, NEW u \in Person, account[u].exists,
         NEW row \in RowType, row.exists, row.epoch = account[u].epoch + 1,
         account' = [account EXCEPT ![u] = row], jar' = Lapsed(u, "revoked"),
         UNCHANGED <<hashing, fails, cli, up, scene>>
  PROVE  AccountsInv'
<1>1. \A x \in Person : account'[x] = IF x = u THEN row ELSE account[x]
  BY DEF AccountsInv, AccountTypes
<1>2. jar' \in [Browser -> CookieType \union {Nobody}]
  BY LapsedCookies DEF AccountsInv
<1>3. AccountTypes'
  BY <1>2 DEF AccountsInv, AccountTypes
<1>4. RowsLast
  BY <1>1 DEF RowsLast, AccountsInv, AccountTypes, RowType
<1>5. CookiesBehind'
  <2> SUFFICES ASSUME NEW b \in Browser, NEW c, c = jar'[b]
               PROVE  Behind(c)'
    BY DEF CookiesBehind
  <2> QED BY <1>1, <1>3, <1>4, RevokedBehind DEF AccountsInv
<1>6. ChangesHaveRows'
  BY <1>4, ChangesKeepRows DEF AccountsInv
<1>7. NamesStartAnew'
  BY <1>1 DEF NamesStartAnew, AccountsInv
<1> QED BY <1>3, <1>5, <1>6, <1>7 DEF AccountsInv, CliJudged

-----------------------------------------------------------------------------
(* An admin remains.                                                       *)

AdminStays == ActiveAdmins # {} => ActiveAdmins' # {}

LEMMA AnotherAdmin ==
  ASSUME NEW u \in Person, ~LastAdmin(u), ActiveAdmins # {}
  PROVE  \E a \in ActiveAdmins : a # u
<1>1. Cardinality({u}) = 1
  BY FS_Singleton
<1> QED BY <1>1 DEF LastAdmin

LEMMA RowKeepsAdmin ==
  ASSUME AccountTypes, NEW u \in Person, NEW row,
         account' = [account EXCEPT ![u] = row],
         \/ ~LastAdmin(u)
         \/ u \in ActiveAdmins => row.exists /\ row.enabled /\ row.role = "admin"
  PROVE  AdminStays
<1> SUFFICES ASSUME ActiveAdmins # {}
             PROVE  \E a \in ActiveAdmins' : TRUE
  BY DEF AdminStays
<1>1. \A x \in Person : account'[x] = IF x = u THEN row ELSE account[x]
  BY DEF AccountTypes
<1>2. \A a \in ActiveAdmins : a # u => a \in ActiveAdmins'
  BY <1>1 DEF ActiveAdmins, Active
<1>3. CASE ~LastAdmin(u)
  BY <1>2, <1>3, AnotherAdmin
<1>4. CASE LastAdmin(u)
  <2>1. u \in ActiveAdmins /\ row.exists /\ row.enabled /\ row.role = "admin"
    BY <1>4 DEF LastAdmin
  <2>2. u \in ActiveAdmins'
    BY <1>1, <2>1 DEF ActiveAdmins, Active
  <2> QED BY <2>2
<1> QED BY <1>3, <1>4

LEMMA AdminFields ==
  ASSUME NEW u \in Person
  PROVE  u \in ActiveAdmins <=>
           account[u].exists /\ account[u].enabled /\ account[u].role = "admin"
BY DEF ActiveAdmins, Active

LEMMA CreateUserSound ==
  ASSUME AccountsInv, scene' = scene, NEW u \in Person, ~account[u].exists,
         NEW row \in RowType, row.exists, row.epoch = 0,
         account' = [account EXCEPT ![u] = row],
         UNCHANGED <<jar, hashing, fails, cli, up>>
  PROVE  AccountsInv' /\ AdminStays
<1>1. ~LastAdmin(u)
  BY AdminFields DEF LastAdmin
<1> QED BY <1>1, NameTaken, RowKeepsAdmin DEF AccountsInv

\* What rules over an account: the row it leaves, and whether an admin remains.
LEMMA RuleSound ==
  ASSUME AccountsInv, scene' = scene, NEW u \in Person, NEW row,
         account[u].exists, row \in RowType, row.exists,
         row.epoch = account[u].epoch + 1,
         account' = [account EXCEPT ![u] = row], jar' = Lapsed(u, "revoked"),
         UNCHANGED <<hashing, fails, cli, up>>,
         ~LastAdmin(u) \/ (u \in ActiveAdmins => row.enabled /\ row.role = "admin")
  PROVE  AccountsInv' /\ AdminStays
<1>1. AccountsInv'
  BY AccountFenced
<1>2. AdminStays
  BY RowKeepsAdmin DEF AccountsInv
<1> QED BY <1>1, <1>2

LEMMA AdministeringSound ==
  ASSUME AccountsInv, scene' = scene, NEW b \in Browser, NEW u \in Person,
         Administering(b, u)
  PROVE  AccountsInv' /\ AdminStays
<1>0. account[u] \in RowType
  BY DEF AccountsInv, AccountTypes
<1>1. ASSUME NEW role \in {"admin", "viewer"}, CreateUser(b, u, role)
      PROVE  AccountsInv' /\ AdminStays
  <2> DEFINE row == Row(role, Random, ActivationLife)
  <2>1. row \in RowType /\ row.exists /\ row.epoch = 0
    BY NewRows
  <2> HIDE DEF row
  <2>2. /\ ~account[u].exists /\ account' = [account EXCEPT ![u] = row]
        /\ UNCHANGED <<jar, hashing, fails, cli, up>>
    BY <1>1 DEF CreateUser, row
  <2> QED BY <2>1, <2>2, CreateUserSound
<1>2. ASSUME NEW role \in {"admin", "viewer"}, UpdateRole(b, u, role)
      PROVE  AccountsInv' /\ AdminStays
  <2> DEFINE given == [account[u] EXCEPT !.role = role]
  <2>1. /\ given \in RowType /\ given.role = role /\ given.enabled = account[u].enabled
        /\ given.exists = account[u].exists /\ given.epoch = account[u].epoch
    BY <1>0 DEF RowType
  <2> HIDE DEF given
  <2>2. /\ account[u].exists /\ account[u].epoch < MaxEpoch
        /\ account' = [account EXCEPT ![u] = Fenced(given)]
        /\ jar' = Lapsed(u, "revoked") /\ UNCHANGED <<hashing, fails, cli, up>>
    BY <1>2 DEF UpdateRole, Rule, given
  <2>3. role # "admin" => ~LastAdmin(u)
    BY <1>2 DEF UpdateRole, MayLower
  <2>4. /\ Fenced(given) \in RowType /\ Fenced(given).exists /\ Fenced(given).role = role
        /\ Fenced(given).epoch = account[u].epoch + 1
        /\ Fenced(given).enabled = account[u].enabled
    BY <2>1, <2>2, FencedRows
  <2>5. ~LastAdmin(u) \/ (u \in ActiveAdmins => Fenced(given).enabled /\ Fenced(given).role = "admin")
    BY <2>3, <2>4, AdminFields
  <2> QED BY <2>2, <2>4, <2>5, RuleSound
<1>3. ASSUME NEW enabled \in BOOLEAN,
             Rule(b, u, Fenced([account[u] EXCEPT !.enabled = enabled])),
             ~enabled => ~LastAdmin(u)
      PROVE  AccountsInv' /\ AdminStays
  <2> DEFINE given == [account[u] EXCEPT !.enabled = enabled]
  <2>1. /\ given \in RowType /\ given.role = account[u].role /\ given.enabled = enabled
        /\ given.exists = account[u].exists /\ given.epoch = account[u].epoch
    BY <1>0 DEF RowType
  <2> HIDE DEF given
  <2>2. /\ account[u].exists /\ account[u].epoch < MaxEpoch
        /\ account' = [account EXCEPT ![u] = Fenced(given)]
        /\ jar' = Lapsed(u, "revoked") /\ UNCHANGED <<hashing, fails, cli, up>>
    BY <1>3 DEF Rule, given
  <2>3. /\ Fenced(given) \in RowType /\ Fenced(given).exists
        /\ Fenced(given).role = account[u].role
        /\ Fenced(given).epoch = account[u].epoch + 1 /\ Fenced(given).enabled = enabled
    BY <2>1, <2>2, FencedRows
  <2>4. ~LastAdmin(u) \/ (u \in ActiveAdmins => Fenced(given).enabled /\ Fenced(given).role = "admin")
    BY <1>3, <2>3, AdminFields
  <2> QED BY <2>2, <2>3, <2>4, RuleSound
<1>4. ASSUME ResetPassword(b, u)
      PROVE  AccountsInv' /\ AdminStays
  <2> DEFINE set == WithPassword(account[u], Random, TRUE)
             row == [set EXCEPT !.token = ActivationLife]
  <2>1. /\ account[u].exists /\ account[u].epoch < MaxEpoch
        /\ account' = [account EXCEPT ![u] = row]
        /\ jar' = Lapsed(u, "revoked") /\ UNCHANGED <<hashing, fails, cli, up>>
    BY <1>4 DEF ResetPassword, Rule
  <2>2. /\ set \in RowType /\ set.epoch = account[u].epoch + 1 /\ set.exists
        /\ set.role = account[u].role /\ set.enabled = account[u].enabled
    BY <1>0, <2>1, PasswordRows
  <2>3. ActivationLife \in NoToken..ActivationLife
    BY AccountConstants DEF NoToken
  <2> HIDE DEF set
  <2>4. /\ row \in RowType /\ row.epoch = account[u].epoch + 1 /\ row.exists
        /\ row.role = account[u].role /\ row.enabled = account[u].enabled
    BY <2>2, <2>3 DEF RowType
  <2> HIDE DEF row
  <2>5. u \in ActiveAdmins => row.enabled /\ row.role = "admin"
    BY <2>4, AdminFields
  <2> QED BY <2>1, <2>4, <2>5, RuleSound
<1>5. DisableUser(b, u) => AccountsInv' /\ AdminStays
  BY <1>3 DEF DisableUser, MayLower
<1>6. EnableUser(b, u) => AccountsInv' /\ AdminStays
  BY <1>3 DEF EnableUser
<1> QED BY <1>1, <1>2, <1>4, <1>5, <1>6 DEF Administering

LEMMA ActivateSound ==
  ASSUME AccountsInv, scene' = scene, NEW u \in Person,
         NEW p \in Passwords \union {Random}, Activate(u, p)
  PROVE  AccountsInv' /\ AdminStays
<1> DEFINE row == WithPassword(account[u], p, FALSE)
<1>1. /\ account[u].exists /\ account[u].epoch < MaxEpoch
      /\ account' = [account EXCEPT ![u] = row]
      /\ jar' = Lapsed(u, "revoked") /\ UNCHANGED <<hashing, fails, cli, up>>
  BY DEF Activate
<1>2. account[u] \in RowType
  BY DEF AccountsInv, AccountTypes
<1>3. /\ row \in RowType /\ row.epoch = account[u].epoch + 1 /\ row.exists
      /\ row.role = account[u].role /\ row.enabled = account[u].enabled
  BY <1>1, <1>2, PasswordRows
<1> HIDE DEF row
<1>4. u \in ActiveAdmins => row.enabled /\ row.role = "admin"
  BY <1>3, AdminFields
<1> QED BY <1>1, <1>3, <1>4, RuleSound

-----------------------------------------------------------------------------
(* The command line tool, the start, and time.                             *)

LEMMA CliSound ==
  ASSUME AccountsInv, scene' = scene, scene = "shell", NEW u \in Person, CommandLine(u)
  PROVE  AccountsInv' /\ (AdminStays \/ (CliDeletes /\ ~cli.last))
<1>1. ASSUME NEW role \in {"admin", "viewer"}, CliCreates(u, role, FromFile)
      PROVE  AccountsInv' /\ AdminStays
  <2> DEFINE row == Row(role, FromFile, NoToken)
  <2>1. row \in RowType /\ row.exists /\ row.epoch = 0
    BY NewRows, FromFileIsOne
  <2> HIDE DEF row
  <2>2. /\ ~account[u].exists /\ account' = [account EXCEPT ![u] = row]
        /\ UNCHANGED <<jar, hashing, fails, cli, up>>
    BY <1>1 DEF CliCreates, row
  <2> QED BY <2>1, <2>2, CreateUserSound
<1>2. ASSUME CliLooks(u)
      PROVE  AccountsInv' /\ AdminStays
  <2>1. /\ cli' = [of |-> u, last |-> LastAdmin(u)] /\ ~LastAdmin(u)
        /\ UNCHANGED <<account, jar, hashing, fails, up>>
    BY <1>2 DEF CliLooks, CliMayDelete
  <2>2. LastAdmin(u) \in BOOLEAN
    BY DEF LastAdmin
  <2>3. AccountTypes' /\ CliJudged'
    BY <2>1, <2>2 DEF AccountsInv, AccountTypes, CliJudged
  <2>4. AdminStays
    BY <2>1 DEF AdminStays, ActiveAdmins, Active
  <2> QED BY <2>1, <2>3, <2>4 DEF AccountsInv, CookiesBehind, Behind, NamesStartAnew, ChangesHaveRows
<1>3. ASSUME CliDeletes
      PROVE  AccountsInv' /\ CliDeletes /\ ~cli.last
  <2> DEFINE gone == cli.of
  <2>1. /\ cli # Nobody /\ account' = [account EXCEPT ![gone] = NoRow]
        /\ jar' = Lapsed(gone, "deleted") /\ cli' = Nobody /\ UNCHANGED <<hashing, fails, up>>
    BY <1>3 DEF CliDeletes
  <2>2. gone \in Person
    BY <2>1 DEF AccountsInv, AccountTypes
  <2>3. NoRow \in RowType /\ ~NoRow.exists /\ NoRow.epoch = 0
    BY NewRows, FromFileIsOne
  <2>4. \A x \in Person : account'[x] = IF x = gone THEN NoRow ELSE account[x]
    BY <2>1 DEF AccountsInv, AccountTypes
  <2>5. /\ jar' \in [Browser -> CookieType \union {Nobody}]
        /\ \A b \in Browser :
             \/ jar'[b].lapsed = "deleted"
             \/ jar'[b] = jar[b] /\ (jar[b] # Nobody /\ jar[b].lapsed # "deleted" => jar[b].of # gone)
    BY <2>1, <2>2, LapsedCookies DEF AccountsInv
  <2> HIDE DEF gone
  <2>6. AccountTypes'
    BY <2>1, <2>2, <2>3, <2>5 DEF AccountsInv, AccountTypes
  <2>7. CookiesBehind'
    <3> SUFFICES ASSUME NEW b \in Browser, NEW c, c = jar'[b]
                 PROVE  Behind(c)'
      BY DEF CookiesBehind
    <3>1. CASE c.lapsed = "deleted"
      BY <3>1 DEF Behind
    <3>2. CASE c.lapsed # "deleted" /\ c # Nobody
      <4>1. c = jar[b] /\ c.of # gone /\ c \in CookieType
        BY <2>5, <3>2 DEF AccountsInv, AccountTypes
      <4>2. account'[c.of] = account[c.of]
        BY <2>4, <4>1 DEF CookieType
      <4>3. Behind(c)
        BY <4>1 DEF AccountsInv, CookiesBehind
      <4> QED BY <4>2, <4>3 DEF Behind
    <3>3. CASE c = Nobody
      BY <3>3 DEF Behind
    <3> QED BY <3>1, <3>2, <3>3
  <2>8. NamesStartAnew' /\ ChangesHaveRows' /\ CliJudged'
    BY <2>1, <2>3, <2>4 DEF AccountsInv, NamesStartAnew, ChangesHaveRows, CliJudged
  <2> QED BY <1>3, <2>1, <2>6, <2>7, <2>8 DEF AccountsInv, CliJudged
<1> QED BY <1>1, <1>2, <1>3 DEF CommandLine

LEMMA BootstrapRows ==
  ASSUME AccountTypes
  PROVE  /\ Bootstrapped \in [Person -> RowType]
         /\ \A u \in Person :
              IF account[u].exists
              THEN /\ Bootstrapped[u].exists /\ Bootstrapped[u].epoch = account[u].epoch
                   /\ ActiveAdmins # {} => Bootstrapped[u] = account[u]
              ELSE Bootstrapped[u].epoch \in {0, account[u].epoch}
<1> DEFINE new == Row("viewer", FromFile, NoToken)
<1>1. new \in RowType /\ new.exists /\ new.epoch = 0
  BY NewRows, FromFileIsOne
<1>2. Imported = [u \in Person |-> IF u \in InFile /\ ~account[u].exists THEN new ELSE account[u]]
  BY DEF Imported
<1> HIDE DEF new
<1>3. \A u \in Person :
        /\ Imported[u] \in RowType
        /\ IF account[u].exists THEN Imported[u] = account[u]
           ELSE Imported[u].epoch \in {0, account[u].epoch}
  BY <1>1, <1>2 DEF AccountTypes
<1>4. \A row \in RowType :
        /\ [row EXCEPT !.role = "admin"] \in RowType
        /\ [row EXCEPT !.role = "admin"].exists = row.exists
        /\ [row EXCEPT !.role = "admin"].epoch = row.epoch
  BY DEF RowType
<1>5. CASE ActiveAdmins # {}
  <2>1. Bootstrapped = Imported
    BY <1>5 DEF Bootstrapped
  <2> QED BY <1>2, <1>3, <1>5, <2>1
<1>6. CASE ActiveAdmins = {}
  <2>1. Bootstrapped = [u \in Person |-> IF u \in Named /\ Imported[u].exists
                                        THEN [Imported[u] EXCEPT !.role = "admin"] ELSE Imported[u]]
    BY <1>6 DEF Bootstrapped
  <2> QED BY <1>3, <1>4, <1>6, <2>1
<1> QED BY <1>5, <1>6

LEMMA StartSound ==
  ASSUME AccountsInv, scene' = scene, ServiceStarts
  PROVE  AccountsInv' /\ AdminStays
<1>1. /\ account' = Bootstrapped /\ up' = (ActiveAdmins' # {})
      /\ hashing' = [b \in Browser |-> Nobody] /\ fails' = << >> /\ UNCHANGED <<jar, cli>>
  BY DEF ServiceStarts
<1>2. DOMAIN fails' = {} /\ fails' \in [DOMAIN fails' -> Seq(Nat)]
  BY <1>1
<1>3. AccountTypes'
  BY <1>1, <1>2, BootstrapRows DEF AccountsInv, AccountTypes
<1>4. RowsLast
  <2>1. \A u \in Person : account[u].epoch \in Int
    BY DEF AccountsInv, AccountTypes, RowType
  <2> QED BY <1>1, <2>1, BootstrapRows DEF RowsLast, AccountsInv, NamesStartAnew
<1>5. CookiesBehind'
  <2> SUFFICES ASSUME NEW b \in Browser, NEW c, c = jar[b]
               PROVE  Behind(c)'
    BY <1>1 DEF CookiesBehind
  <2>1. Behind(c) /\ c \in CookieType \union {Nobody}
    BY DEF AccountsInv, CookiesBehind, AccountTypes
  <2> QED BY <1>3, <1>4, <2>1, StillBehind DEF AccountsInv
<1>6. NamesStartAnew' /\ ChangesHaveRows' /\ CliJudged'
  BY <1>1, BootstrapRows DEF AccountsInv, NamesStartAnew, ChangesHaveRows, CliJudged
<1>7. AdminStays
  <2> SUFFICES ASSUME NEW a \in ActiveAdmins
               PROVE  a \in ActiveAdmins'
    BY DEF AdminStays
  <2>1. a \in Person /\ account[a].exists
    BY DEF ActiveAdmins, Active
  <2>2. account'[a] = account[a]
    BY <1>1, <2>1, BootstrapRows DEF AccountsInv
  <2> QED BY <2>1, <2>2 DEF ActiveAdmins, Active
<1> QED BY <1>3, <1>5, <1>6, <1>7 DEF AccountsInv

\* A set of numbers has a least one, and Min is it.
LEMMA LeastNumber ==
  ASSUME NEW S \in SUBSET Nat, S # {}
  PROVE  Min(S) \in S /\ \A y \in S : Min(S) <= y
<1>1. PICK x \in S : \A y \in S : <<y, x>> \notin OpToRel(<, Nat)
  BY NatLessThanWellFounded, WFMin, Zenon
<1>2. \A y \in S : ~(y < x)
  <2>1. \A a, b \in Nat : a < b => <<a, b>> \in OpToRel(<, Nat)
    BY Zenon DEF OpToRel
  <2> QED BY <1>1, <2>1, Zenon
<1>3. \A y \in S : x <= y
  BY <1>2
<1> QED BY <1>3 DEF Min

\* What pruning leaves of the ages of failures.
LEMMA RecentAges ==
  ASSUME NEW ages \in Seq(Nat)
  PROVE  Recent(ages) \in Seq(Nat) /\ Len(Recent(ages)) <= Len(ages)
<1> DEFINE young == {i \in DOMAIN ages : ages[i] < FailWindow}
<1>1. Len(ages) \in Nat /\ DOMAIN ages = 1..Len(ages) /\ \A i \in 1..Len(ages) : ages[i] \in Nat
  BY LenProperties
<1>2. CASE young = {}
  <2>1. Recent(ages) = <<>>
    BY <1>2 DEF Recent
  <2> QED BY <1>1, <2>1
<1>3. CASE young # {}
  <2>1. young \in SUBSET Nat
    BY <1>1
  <2>2. Min(young) \in 1..Len(ages)
    BY <1>1, <1>3, <2>1, LeastNumber
  <2>3. Recent(ages) = SubSeq(ages, Min(young), Len(ages))
    BY <1>3 DEF Recent
  <2> HIDE DEF young
  <2> QED BY <1>1, <2>2, <2>3, SubSeqProperties
<1> QED BY <1>2, <1>3

LEMMA OlderAges ==
  ASSUME NEW ages \in Seq(Nat)
  PROVE  /\ [i \in DOMAIN ages |-> ages[i] + 1] \in Seq(Nat)
         /\ Len([i \in DOMAIN ages |-> ages[i] + 1]) = Len(ages)
<1>1. Len(ages) \in Nat /\ DOMAIN ages = 1..Len(ages) /\ \A i \in 1..Len(ages) : ages[i] \in Nat
  BY LenProperties
<1>2. [i \in DOMAIN ages |-> ages[i] + 1] \in [1..Len(ages) -> Nat]
  BY <1>1
<1> QED BY <1>1, <1>2, SeqDef, LenProperties

LEMMA FailuresAge ==
  ASSUME AccountTypes, TimeGoesOn
  PROVE  /\ DOMAIN fails' = DOMAIN fails
         /\ fails' \in [DOMAIN fails -> Seq(Nat)]
         /\ \A k \in DOMAIN fails : Len(fails'[k]) <= Len(fails[k])
<1> DEFINE older(k) == [i \in DOMAIN fails[k] |-> fails[k][i] + 1]
<1>1. fails' = [k \in DOMAIN fails |-> Recent(older(k))]
  BY DEF TimeGoesOn
<1>2. \A k \in DOMAIN fails : older(k) \in Seq(Nat) /\ Len(older(k)) = Len(fails[k])
  BY OlderAges DEF AccountTypes
<1> HIDE DEF older
<1> QED BY <1>1, <1>2, RecentAges

LEMMA TimeSound ==
  ASSUME AccountsInv, scene' = scene, TimeGoesOn
  PROVE  AccountsInv' /\ AdminStays
<1>1. /\ account' = [u \in Person |-> Aging(account[u])]
      /\ jar' = [b \in Browser |-> Older(jar[b])] /\ UNCHANGED <<hashing, cli, up>>
  BY DEF TimeGoesOn
<1>2. \A u \in Person :
        /\ account'[u] \in RowType /\ account'[u].epoch = account[u].epoch
        /\ account'[u].exists = account[u].exists /\ account'[u].role = account[u].role
        /\ account'[u].enabled = account[u].enabled
  BY <1>1, AgingRows DEF AccountsInv, AccountTypes
<1>3. \A b \in Browser :
        /\ jar'[b] \in CookieType \union {Nobody}
        /\ jar'[b] # Nobody =>
             /\ jar[b] # Nobody /\ jar'[b].of = jar[b].of
             /\ jar'[b].epoch = jar[b].epoch /\ jar'[b].lapsed = jar[b].lapsed
  BY <1>1, OlderCookies DEF AccountsInv, AccountTypes
<1>4. AccountTypes'
  <2>1. account' \in [Person -> RowType] /\ jar' \in [Browser -> CookieType \union {Nobody}]
    BY <1>1, <1>2, <1>3
  <2>2. DOMAIN fails' \subseteq Level /\ fails' \in [DOMAIN fails' -> Seq(Nat)]
    BY FailuresAge DEF AccountsInv, AccountTypes
  <2> QED BY <1>1, <2>1, <2>2 DEF AccountsInv, AccountTypes
<1>5. RowsLast
  <2>1. \A u \in Person : account[u].epoch \in Int
    BY DEF AccountsInv, AccountTypes, RowType
  <2> QED BY <1>2, <2>1 DEF RowsLast
<1>6. CookiesBehind'
  <2> SUFFICES ASSUME NEW b \in Browser, NEW c, c = jar'[b]
               PROVE  Behind(c)'
    BY DEF CookiesBehind
  <2>1. CASE c = Nobody
    BY <2>1 DEF Behind
  <2>2. CASE c # Nobody
    <3> PICK old : old = jar[b]
      OBVIOUS
    <3>1. Behind(old) /\ old \in CookieType \union {Nobody}
      BY DEF AccountsInv, CookiesBehind, AccountTypes
    <3>2. Behind(old)'
      BY <1>4, <1>5, <3>1, StillBehind DEF AccountsInv
    <3> QED BY <1>3, <2>2, <3>2 DEF Behind
  <2> QED BY <2>1, <2>2
<1>7. ChangesHaveRows'
  BY <1>1, <1>5, ChangesKeepRows DEF AccountsInv
<1>8. NamesStartAnew' /\ CliJudged'
  BY <1>1, <1>2 DEF AccountsInv, NamesStartAnew, CliJudged
<1>9. AdminStays
  BY <1>2 DEF AdminStays, ActiveAdmins, Active
<1> QED BY <1>4, <1>6, <1>7, <1>8, <1>9 DEF AccountsInv

-----------------------------------------------------------------------------
(* The front door as a whole.                                              *)

LEMMA UnchangedSound ==
  ASSUME AccountsInv, UNCHANGED <<accountVars, scene>>
  PROVE  AccountsInv' /\ AdminStays
<1>1. AccountTypes'
  BY DEF AccountsInv, AccountTypes, accountVars
<1>2. CookiesBehind' /\ NamesStartAnew' /\ ChangesHaveRows' /\ CliJudged'
  BY DEF AccountsInv, CookiesBehind, Behind, NamesStartAnew, ChangesHaveRows, CliJudged, accountVars
<1> QED BY <1>1, <1>2 DEF AccountsInv, AdminStays, ActiveAdmins, Active, accountVars

LEMMA EnteringSound ==
  ASSUME AccountsInv, scene' = scene, NEW b \in Browser, Entering(b)
  PROVE  AccountsInv' /\ AdminStays
<1>1. AccountsInv'
  BY HashBeginsSound, FailureSound, LoginSucceedsSound, ChangeGoesOnSound, ChangeEndsSound
     DEF Entering
<1>2. CASE UNCHANGED account
  BY <1>1, <1>2 DEF AdminStays, ActiveAdmins, Active
<1>3. CASE ChangeEnds(b)
  <2> DEFINE u == hashing[b].of
             row == WithPassword(account[u], hashing[b].new, FALSE)
  <2>1. account' = [account EXCEPT ![u] = row] /\ account[u].epoch < MaxEpoch
    BY <1>3 DEF ChangeEnds
  <2>2. u \in Person /\ hashing[b].new \in Passwords \union {Random} /\ account[u].exists
    BY <1>3, HandlerFields DEF ChangeEnds, Verified, AtHash, AccountsInv, ChangesHaveRows
  <2>3. account[u] \in RowType
    BY <2>2 DEF AccountsInv, AccountTypes
  <2>4. row.exists /\ row.role = account[u].role /\ row.enabled = account[u].enabled
    BY <2>1, <2>2, <2>3, PasswordRows
  <2> HIDE DEF row, u
  <2>5. u \in ActiveAdmins => row.exists /\ row.enabled /\ row.role = "admin"
    BY <2>2, <2>4, AdminFields
  <2>6. AdminStays
    BY <2>1, <2>2, <2>5, RowKeepsAdmin DEF AccountsInv
  <2> QED BY <1>1, <2>6
<1> QED BY <1>1, <1>2, <1>3
        DEF Entering, HashBegins, LoginFails, LoginSucceeds, ChangeFails, ChangeGoesOn

LEMMA AsksSound ==
  ASSUME AccountsInv, scene' = scene, NEW b \in Browser, NEW p \in Passwords \union {Random},
         \/ \E u \in Person : LoginAsks(b, u, p)
         \/ scene # "shell" /\ ChangeAsks(b, p, FromFile)
  PROVE  AccountsInv' /\ AdminStays
<1>1. AccountsInv'
  BY LoginAsksSound, ChangeAsksSound, FromFileIsOne
<1>2. UNCHANGED account
  BY DEF LoginAsks, ChangeAsks
<1> QED BY <1>1, <1>2 DEF AdminStays, ActiveAdmins, Active

LEMMA AccountStep ==
  ASSUME AccountsInv, [DoorNext]_doorVars
  PROVE  AccountsInv' /\ (AdminStays \/ (CliDeletes /\ ~cli.last))
<1>1. CASE UNCHANGED <<accountVars, scene>>
  BY <1>1, UnchangedSound
<1>2. CASE UNCHANGED doorVars
  BY <1>1, <1>2 DEF doorVars
<1>3. ASSUME scene' = scene, NEW b \in Browser, LogOut(b)
      PROVE  AccountsInv' /\ AdminStays
  BY <1>3, LogOutSound DEF LogOut, AdminStays, ActiveAdmins, Active
<1>4. ASSUME scene' = scene, scene # "shell", Guesses
      PROVE  AccountsInv' /\ AdminStays
  BY <1>4, AsksSound, EnteringSound, TimeSound DEF Guesses
<1>5. ASSUME scene' = scene, NEW b \in Browser, Enters(b)
      PROVE  AccountsInv' /\ AdminStays
  <2>1. \A u \in Person : account[u].pass \in Passwords \union {Random}
    BY DEF AccountsInv, AccountTypes, RowType
  <2> QED BY <1>5, <2>1, AsksSound, EnteringSound DEF Enters
<1>6. ASSUME scene' = scene, scene # "shell", Governs
      PROVE  AccountsInv' /\ AdminStays
  <2>1. ASSUME NEW b \in Browser, jar[b] # Nobody,
               ChangeAsks(b, account[jar[b].of].pass, FromFile)
        PROVE  AccountsInv' /\ AdminStays
    <3>1. account[jar[b].of].pass \in Passwords \union {Random}
      BY <2>1 DEF AccountsInv, AccountTypes, RowType, CookieType
    <3> QED BY <1>6, <2>1, <3>1, AsksSound
  <2> QED BY <1>3, <1>5, <1>6, <2>1, AdministeringSound, ActivateSound, TimeSound, FromFileIsOne
          DEF Governs
<1>7. ASSUME scene' = scene, scene = "shell", Shell
      PROVE  AccountsInv' /\ (AdminStays \/ (CliDeletes /\ ~cli.last))
  <2>1. One \in Browser
    BY AccountConstants DEF One
  <2>2. \A u \in Person :
          DisableUser(One, u) \/ UpdateRole(One, u, "viewer") => Administering(One, u)
    BY DEF Administering
  <2> QED BY <1>5, <1>7, <2>1, <2>2, CliSound, AdministeringSound, StartSound, TimeSound DEF Shell
<1>8. ASSUME scene' = scene, Requests
      PROVE  AccountsInv' /\ AdminStays
  BY <1>3, <1>8, UnchangedSound, StartSound DEF Requests, StartsAgain
<1> QED BY <1>1, <1>2, <1>4, <1>6, <1>7, <1>8 DEF DoorNext

LEMMA AccountInit == DoorInit => AccountsInv
<1> SUFFICES ASSUME DoorInit
             PROVE  AccountsInv
  OBVIOUS
<1> DEFINE row(u) == IF u \notin InFile THEN NoRow
                     ELSE Row(IF u \in Named THEN "admin" ELSE "viewer", FromFile, NoToken)
<1>1. account = [u \in Person |-> row(u)]
  BY DEF DoorInit, AccountsInit
<1>2. \A u \in Person : row(u) \in RowType /\ row(u).epoch = 0
  BY NewRows, FromFileIsOne
<1> HIDE DEF row
<1>3. Owner \in Person /\ 0 \in 0..MaxEpoch
  BY DoorConstants, AccountConstants DEF Owner
<1>4. Cookie(Owner, 0) \in CookieType /\ Cookie(Owner, 0).epoch = 0 /\ Cookie(Owner, 0).lapsed = "no"
      /\ Cookie(Owner, 0).of = Owner
  BY <1>3, NewCookies
<1>5. \A b \in Browser : jar[b] \in {Nobody, Cookie(Owner, 0)}
  BY DEF DoorInit
<1>6. fails = << >> /\ DOMAIN fails = {} /\ fails \in [DOMAIN fails -> Seq(Nat)]
  BY DEF DoorInit, AccountsInit
<1>7. AccountTypes
  <2>1. jar \in [Browser -> CookieType \union {Nobody}]
    BY <1>4, <1>5 DEF DoorInit
  <2> QED BY <1>1, <1>2, <1>6, <2>1 DEF AccountTypes, DoorInit, AccountsInit
<1>8. CookiesBehind
  <2> SUFFICES ASSUME NEW b \in Browser, NEW c, c = jar[b]
               PROVE  Behind(c)
    BY DEF CookiesBehind
  <2>1. account[Owner].epoch = 0
    BY <1>1, <1>2, <1>3
  <2> QED BY <1>4, <1>5, <2>1 DEF Behind
<1>9. NamesStartAnew /\ ChangesHaveRows /\ CliJudged
  BY <1>1, <1>2 DEF NamesStartAnew, ChangesHaveRows, CliJudged, DoorInit, AccountsInit
<1> QED BY <1>7, <1>8, <1>9 DEF AccountsInv

LEMMA InvRevokes == AccountsInv => RevokedStaysRevoked
<1> SUFFICES ASSUME AccountsInv, NEW b \in Browser, Session(b)
             PROVE  \/ jar[b].lapsed = "no"
                    \/ jar[b].lapsed = "deleted" /\ jar[b].age <= account[jar[b].of].age + Slack
  BY TypesOfAccounts DEF RevokedStaysRevoked, AccountsInv
<1>1. /\ jar[b] # Nobody /\ jar[b].epoch = account[jar[b].of].epoch
      /\ jar[b].age <= account[jar[b].of].age + Slack
  BY DEF Session, Accepts
<1>2. jar[b] \in CookieType /\ Behind(jar[b])
  BY <1>1 DEF AccountsInv, AccountTypes, CookiesBehind
<1>3. jar[b].epoch \in Int /\ jar[b].lapsed \in {"no", "revoked", "deleted"}
  BY <1>2 DEF CookieType
<1> QED BY <1>1, <1>2, <1>3 DEF Behind

\* Whoever logs in, changes passwords, governs or deletes accounts, in whatever order
\* and with whatever hashes under way: a right that was taken away stays away, and an
\* admin remains, unless the command line tool deletes the last by a verdict gone stale.
THEOREM RightsStayTaken == DoorSpec => AccountsGuarded
<1>1. DoorInit => AccountsInv
  BY AccountInit
<1>2. AccountsInv /\ [DoorNext]_doorVars => AccountsInv'
  BY AccountStep
<1>3. AccountsInv /\ [DoorNext]_doorVars => [RevokedStaysRevoked' /\ AdminRemains]_accountVars
  <2> SUFFICES ASSUME AccountsInv, [DoorNext]_doorVars
               PROVE  RevokedStaysRevoked' /\ AdminRemains
    OBVIOUS
  <2>1. AccountsInv' /\ (AdminStays \/ (CliDeletes /\ ~cli.last))
    BY AccountStep
  <2>2. RevokedStaysRevoked'
    BY <2>1, InvRevokes, PTL
  <2>3. AdminRemains
    BY <2>1 DEF AdminRemains, AdminStays
  <2> QED BY <2>2, <2>3
<1> QED BY <1>1, <1>2, <1>3, PTL DEF DoorSpec, AccountsGuarded

-----------------------------------------------------------------------------
(* The throttle.                                                           *)

Touched(b, u) == {Global, Ip(b), Name(u)}

\* handlers that have passed the throttle and may still count a failure on a level
Changing(k) ==
  {b \in Browser : hashing[b] # Nobody /\ hashing[b].job = "change" /\ k \in Touched(b, hashing[b].of)}

\* Each of them was let in below the limit, and a login looks again before it counts.
FailsBounded ==
  \A k \in Level : Len(Failures(k)) + Cardinality(Changing(k)) <= Most(k) + Cardinality(Browser) - 1

LEMMA MostPositive ==
  ASSUME NEW k \in Level
  PROVE  Most(k) \in Nat \ {0}
BY AccountConstants DEF Most, Level, Global, Ip, Name

LEMMA FailuresTyped ==
  ASSUME NEW k \in Level
  PROVE  /\ AccountTypes => Len(Failures(k)) \in Nat
         /\ AccountTypes' => Len(Failures(k)') \in Nat
<1>1. AccountTypes => Failures(k) \in Seq(Nat)
  BY DEF Failures, AccountTypes
<1>2. AccountTypes' => Failures(k)' \in Seq(Nat)
  BY DEF Failures, AccountTypes
<1> QED BY <1>1, <1>2

LEMMA BrowsersCount ==
  /\ IsFiniteSet(Browser) /\ Cardinality(Browser) \in Nat
  /\ \A S \in SUBSET Browser :
       IsFiniteSet(S) /\ Cardinality(S) \in Nat /\ Cardinality(S) <= Cardinality(Browser)
BY AccountConstants, FS_Subset, FS_CardinalityType

LEMMA ChangingFinite ==
  ASSUME NEW k \in Level
  PROVE  /\ IsFiniteSet(Changing(k)) /\ Cardinality(Changing(k)) \in Nat
         /\ Cardinality(Changing(k)) <= Cardinality(Browser)
         /\ IsFiniteSet(Changing(k)') /\ Cardinality(Changing(k)') \in Nat
         /\ Cardinality(Changing(k)') <= Cardinality(Browser)
BY BrowsersCount DEF Changing

LEMMA LevelKept ==
  ASSUME AccountTypes, AccountTypes', FailsBounded, NEW k \in Level,
         Len(Failures(k)') <= Len(Failures(k)), Changing(k)' \subseteq Changing(k)
  PROVE  Len(Failures(k)') + Cardinality(Changing(k)') <= Most(k) + Cardinality(Browser) - 1
<1>1. Cardinality(Changing(k)') <= Cardinality(Changing(k)) /\ Cardinality(Changing(k)') \in Nat
  BY ChangingFinite, FS_Subset, FS_CardinalityType
<1>2. Len(Failures(k)) \in Nat
  BY FailuresTyped
<1>3. Len(Failures(k)') \in Nat
  BY FailuresTyped
<1> QED BY <1>1, <1>2, <1>3, MostPositive, BrowsersCount, ChangingFinite DEF FailsBounded

LEMMA ChangingAlone ==
  ASSUME AccountTypes, NEW b \in Browser, NEW h, hashing' = [hashing EXCEPT ![b] = h],
         \/ ~(h # Nobody /\ h.job = "change")
         \/ hashing[b] # Nobody /\ hashing[b].job = "change" /\ h.of = hashing[b].of,
         NEW k \in Level
  PROVE  Changing(k)' \subseteq Changing(k)
<1>1. \A x \in Browser : hashing'[x] = IF x = b THEN h ELSE hashing[x]
  BY DEF AccountTypes
<1> QED BY <1>1 DEF Changing

LEMMA FailsInit == DoorInit => FailsBounded
<1> SUFFICES ASSUME DoorInit, NEW k \in Level
             PROVE  Len(Failures(k)) + Cardinality(Changing(k)) <= Most(k) + Cardinality(Browser) - 1
  BY DEF FailsBounded
<1>1. Failures(k) = <<>>
  BY DEF DoorInit, AccountsInit, Failures
<1>2. Len(<<>>) = 0
  OBVIOUS
<1>3. Cardinality(Changing(k)) = 0
  BY FS_EmptySet DEF DoorInit, AccountsInit, Changing
<1> QED BY <1>1, <1>2, <1>3, MostPositive, BrowsersCount

\* A failed login or a failed change, at the level k.
LEMMA FailureBounded ==
  ASSUME AccountsInv, AccountTypes', FailsBounded, NEW b \in Browser,
         LoginFails(b) \/ ChangeFails(b), NEW k \in Level
  PROVE  Len(Failures(k)') + Cardinality(Changing(k)') <= Most(k) + Cardinality(Browser) - 1
<1> DEFINE u == hashing[b].of
<1>0. AccountTypes
  BY DEF AccountsInv
<1>1. hashing' = [hashing EXCEPT ![b] = Nobody]
  BY DEF LoginFails, ChangeFails, Await
<1>2. hashing[b] # Nobody /\ u \in Person
  BY <1>0, HandlerFields DEF LoginFails, ChangeFails, Verified, AtHash
<1>3. Changing(k)' = Changing(k) \ {b}
  <2>1. \A x \in Browser : hashing'[x] = IF x = b THEN Nobody ELSE hashing[x]
    BY <1>0, <1>1 DEF AccountTypes
  <2> QED BY <2>1 DEF Changing
<1>4. Len(Failures(k)) \in Nat /\ Len(Failures(k)') \in Nat
  BY <1>0, FailuresTyped
<1>5. CASE UNCHANGED fails
  <2>1. Failures(k)' = Failures(k)
    BY <1>5 DEF Failures
  <2>2. Len(Failures(k)') <= Len(Failures(k))
    BY <1>4, <2>1
  <2> QED BY <1>0, <1>3, <2>2, LevelKept
<1>6. CASE FailureOf(b, u)
  <2>1. Len(Failures(k)') <= Len(Failures(k)) + (IF k \in Touched(b, u) THEN 1 ELSE 0)
    BY <1>0, <1>2, <1>6, FailureCounts DEF Touched
  <2>2. CASE k \notin Touched(b, u)
    <3>1. Len(Failures(k)') <= Len(Failures(k))
      BY <1>4, <2>1, <2>2
    <3> QED BY <1>0, <1>3, <3>1, LevelKept
  <2>3. CASE k \in Touched(b, u) /\ ChangeFails(b)
    <3>1. b \in Changing(k)
      BY <1>2, <2>3 DEF Changing, ChangeFails, Verified
    <3>2. Cardinality(Changing(k)') = Cardinality(Changing(k)) - 1
      BY <1>3, <3>1, ChangingFinite, FS_RemoveElement
    <3> QED BY <1>4, <2>1, <2>3, <3>2, ChangingFinite, MostPositive, BrowsersCount DEF FailsBounded
  <2>4. CASE k \in Touched(b, u) /\ LoginFails(b)
    <3>1. b \notin Changing(k)
      BY <2>4 DEF Changing, LoginFails, Verified
    <3>2. Changing(k)' \in SUBSET (Browser \ {b})
      BY <1>3, <3>1 DEF Changing
    <3>3. Cardinality(Browser \ {b}) = Cardinality(Browser) - 1 /\ IsFiniteSet(Browser \ {b})
      BY BrowsersCount, FS_RemoveElement
    <3>4. Cardinality(Changing(k)') <= Cardinality(Browser) - 1 /\ Cardinality(Changing(k)') \in Nat
      BY <3>2, <3>3, FS_Subset, FS_CardinalityType
    <3>5. CASE Throttled(b, u)
      <4>1. Failures(k)' = Failures(k)
        BY <2>4, <3>5 DEF LoginFails, Failures
      <4>2. Len(Failures(k)') <= Len(Failures(k))
        BY <1>4, <4>1
      <4> QED BY <1>0, <1>3, <4>2, LevelKept
    <3>6. CASE ~Throttled(b, u)
      <4>1. Len(Failures(k)) < Most(k)
        BY <1>4, <2>4, <3>6, MostPositive DEF Throttled, Barred, Full, Touched
      <4> QED BY <1>4, <2>1, <2>4, <3>4, <4>1, MostPositive, BrowsersCount
    <3> QED BY <3>5, <3>6
  <2> QED BY <2>2, <2>3, <2>4
<1> QED BY <1>5, <1>6 DEF LoginFails, ChangeFails

LEMMA ChangeAsksBounded ==
  ASSUME AccountsInv, FailsBounded, NEW b \in Browser, NEW p, NEW new,
         ChangeAsks(b, p, new), NEW k \in Level
  PROVE  Len(Failures(k)') + Cardinality(Changing(k)') <= Most(k) + Cardinality(Browser) - 1
<1> DEFINE u == jar[b].of
<1>0. AccountTypes
  BY DEF AccountsInv
<1>1. /\ ~Throttled(b, u) /\ UNCHANGED fails
      /\ \E h : h.of = u /\ hashing' = [hashing EXCEPT ![b] = h]
  BY DEF ChangeAsks, Await
<1>2. Failures(k)' = Failures(k) /\ Len(Failures(k)) \in Nat
  BY <1>0, <1>1, FailuresTyped DEF Failures
<1>3. Cardinality(Changing(k)') <= Cardinality(Browser) /\ Cardinality(Changing(k)') \in Nat
  BY ChangingFinite
<1>4. CASE k \in Touched(b, u)
  <2>1. Len(Failures(k)) < Most(k)
    BY <1>1, <1>2, <1>4, MostPositive DEF Throttled, Barred, Full, Touched
  <2> QED BY <1>2, <1>3, <2>1, MostPositive, BrowsersCount
<1>5. CASE k \notin Touched(b, u)
  <2>1. Changing(k)' \subseteq Changing(k)
    <3>1. PICK h : h.of = u /\ hashing' = [hashing EXCEPT ![b] = h]
      BY <1>1
    <3>2. \A x \in Browser : hashing'[x] = IF x = b THEN h ELSE hashing[x]
      BY <1>0, <3>1 DEF AccountTypes
    <3> QED BY <1>5, <3>1, <3>2 DEF Changing
  <2>2. Cardinality(Changing(k)') <= Cardinality(Changing(k))
    BY <2>1, ChangingFinite, FS_Subset
  <2> QED BY <1>2, <1>3, <2>2, MostPositive, BrowsersCount, ChangingFinite DEF FailsBounded
<1> QED BY <1>4, <1>5

\* Nothing else counts a failure, and no handler comes to where it may count one.
LEMMA QuietBounded ==
  ASSUME AccountsInv, AccountTypes', FailsBounded, NEW k \in Level,
         \/ UNCHANGED <<hashing, fails>>
         \/ TimeGoesOn
         \/ ServiceStarts
         \/ \E b \in Browser :
              \/ \E u, p : LoginAsks(b, u, p)
              \/ HashBegins(b) \/ LoginSucceeds(b) \/ ChangeGoesOn(b) \/ ChangeEnds(b)
  PROVE  Len(Failures(k)') + Cardinality(Changing(k)') <= Most(k) + Cardinality(Browser) - 1
<1>0. AccountTypes
  BY DEF AccountsInv
<1>1. Len(Failures(k)) \in Nat /\ Len(Failures(k)') \in Nat
  BY <1>0, FailuresTyped
<1>2. ASSUME UNCHANGED fails
      PROVE  Len(Failures(k)') <= Len(Failures(k))
  <2>1. Failures(k)' = Failures(k)
    BY <1>2 DEF Failures
  <2> QED BY <1>1, <2>1
<1>3. CASE UNCHANGED <<hashing, fails>>
  <2>1. Changing(k)' = Changing(k)
    BY <1>3 DEF Changing
  <2> QED BY <1>0, <1>2, <1>3, <2>1, LevelKept
<1>4. CASE TimeGoesOn
  <2>1. Changing(k)' = Changing(k)
    BY <1>4 DEF Changing, TimeGoesOn
  <2>2. Len(Failures(k)') <= Len(Failures(k))
    <3>1. CASE k \in DOMAIN fails
      BY <1>0, <1>4, <3>1, FailuresAge DEF Failures
    <3>2. CASE k \notin DOMAIN fails
      <4>1. Failures(k)' = Failures(k)
        BY <1>0, <1>4, <3>2, FailuresAge DEF Failures
      <4> QED BY <1>1, <4>1
    <3> QED BY <3>1, <3>2
  <2> QED BY <1>0, <2>1, <2>2, LevelKept
<1>5. CASE ServiceStarts
  <2>1. Changing(k)' = {}
    BY <1>5 DEF ServiceStarts, Changing
  <2>2. Failures(k)' = <<>>
    BY <1>5 DEF ServiceStarts, Failures
  <2>3. Len(<<>>) = 0
    OBVIOUS
  <2>4. Len(Failures(k)') <= Len(Failures(k))
    BY <1>1, <2>2, <2>3
  <2> QED BY <1>0, <2>1, <2>4, LevelKept
<1>6. ASSUME NEW b \in Browser, NEW u, NEW p, LoginAsks(b, u, p)
      PROVE  Len(Failures(k)') + Cardinality(Changing(k)') <= Most(k) + Cardinality(Browser) - 1
  <2> DEFINE h == [job |-> "login", at |-> "queue", of |-> u, pass |-> p, new |-> p, right |-> FALSE]
  <2>1. hashing' = [hashing EXCEPT ![b] = h] /\ UNCHANGED fails /\ h.job # "change"
    BY <1>6 DEF LoginAsks, Await
  <2> HIDE DEF h
  <2>2. Changing(k)' \subseteq Changing(k)
    BY <1>0, <2>1, ChangingAlone
  <2> QED BY <1>0, <1>2, <2>1, <2>2, LevelKept
<1>7. ASSUME NEW b \in Browser, HashBegins(b)
      PROVE  Len(Failures(k)') + Cardinality(Changing(k)') <= Most(k) + Cardinality(Browser) - 1
  <2>1. hashing[b] # Nobody /\ hashing[b] \in HandlerType
    BY <1>0, <1>7, HandlerFields DEF HashBegins
  <2>2. PICK right : hashing' = [hashing EXCEPT ![b] = [hashing[b] EXCEPT !.at = "hash", !.right = right]]
    BY <1>7 DEF HashBegins, Await
  <2> DEFINE h == [hashing[b] EXCEPT !.at = "hash", !.right = right]
  <2>3. h.job = hashing[b].job /\ h.of = hashing[b].of
    BY <2>1 DEF HandlerType
  <2>4. hashing' = [hashing EXCEPT ![b] = h] /\ UNCHANGED fails
    BY <1>7, <2>2 DEF HashBegins
  <2> HIDE DEF h
  <2>5. Changing(k)' \subseteq Changing(k)
    BY <1>0, <2>1, <2>3, <2>4, ChangingAlone
  <2> QED BY <1>0, <1>2, <2>4, <2>5, LevelKept
<1>8. ASSUME NEW b \in Browser, ChangeGoesOn(b)
      PROVE  Len(Failures(k)') + Cardinality(Changing(k)') <= Most(k) + Cardinality(Browser) - 1
  <2> DEFINE h == [hashing[b] EXCEPT !.job = "set", !.at = "queue"]
  <2>1. hashing[b] \in HandlerType
    BY <1>0, <1>8, HandlerFields DEF ChangeGoesOn, Verified, AtHash
  <2>2. h.job = "set" /\ hashing' = [hashing EXCEPT ![b] = h] /\ UNCHANGED fails
    BY <1>8, <2>1 DEF ChangeGoesOn, Await, HandlerType
  <2> HIDE DEF h
  <2>3. Changing(k)' \subseteq Changing(k)
    BY <1>0, <2>2, ChangingAlone
  <2> QED BY <1>0, <1>2, <2>2, <2>3, LevelKept
<1>9. ASSUME NEW b \in Browser, LoginSucceeds(b) \/ ChangeEnds(b)
      PROVE  Len(Failures(k)') + Cardinality(Changing(k)') <= Most(k) + Cardinality(Browser) - 1
  <2>1. hashing' = [hashing EXCEPT ![b] = Nobody]
    BY <1>9 DEF LoginSucceeds, ChangeEnds, Await
  <2>2. Changing(k)' \subseteq Changing(k)
    BY <1>0, <2>1, ChangingAlone
  <2>3. Len(Failures(k)') <= Len(Failures(k))
    <3>1. CASE ChangeEnds(b)
      BY <1>2, <3>1 DEF ChangeEnds
    <3>2. CASE LoginSucceeds(b)
      <4>1. PICK u : fails' = [x \in DOMAIN fails \ {Name(u)} |-> fails[x]]
        BY <3>2 DEF LoginSucceeds, Forgiven
      <4>2. Failures(k)' = Failures(k) \/ Failures(k)' = <<>>
        BY <4>1 DEF Failures
      <4>3. Len(<<>>) = 0
        OBVIOUS
      <4> QED BY <1>1, <4>2, <4>3
    <3> QED BY <1>9, <3>1, <3>2
  <2> QED BY <1>0, <2>2, <2>3, LevelKept
<1> QED BY <1>3, <1>4, <1>5, <1>6, <1>7, <1>8, <1>9

\* What a step of the front door does to handlers and failures.
LEMMA StepsOfHandlers ==
  ASSUME [DoorNext]_doorVars
  PROVE  \/ UNCHANGED <<hashing, fails>>
         \/ TimeGoesOn
         \/ ServiceStarts
         \/ \E b \in Browser :
              \/ \E u, p : LoginAsks(b, u, p)
              \/ \E p, new : ChangeAsks(b, p, new)
              \/ Entering(b)
<1>1. CASE UNCHANGED doorVars
  BY <1>1 DEF doorVars, accountVars
<1>2. CASE UNCHANGED accountVars
  BY <1>2 DEF accountVars
<1>3. CASE Guesses
  BY <1>3 DEF Guesses
<1>4. ASSUME NEW b \in Browser, Enters(b)
      PROVE  Entering(b) \/ \E u, p : LoginAsks(b, u, p)
  BY <1>4 DEF Enters
<1>5. ASSUME NEW b, NEW u, Administering(b, u)
      PROVE  UNCHANGED <<hashing, fails>>
  BY <1>5 DEF Administering, CreateUser, UpdateRole, DisableUser, EnableUser, ResetPassword, Rule
<1>6. CASE Governs
  BY <1>4, <1>5, <1>6 DEF Governs, LogOut, Activate
<1>7. CASE Shell
  <2>1. One \in Browser
    BY AccountConstants DEF One
  <2>2. ASSUME NEW u \in Person, CommandLine(u)
        PROVE  UNCHANGED <<hashing, fails>>
    BY <2>2 DEF CommandLine, CliCreates, CliLooks, CliDeletes
  <2>3. ASSUME NEW u \in Person, DisableUser(One, u) \/ UpdateRole(One, u, "viewer")
        PROVE  UNCHANGED <<hashing, fails>>
    BY <2>3 DEF UpdateRole, DisableUser, Rule
  <2> QED BY <1>4, <1>7, <2>1, <2>2, <2>3 DEF Shell
<1>8. CASE Requests
  BY <1>2, <1>8 DEF Requests, LogOut, StartsAgain
<1> QED BY <1>1, <1>2, <1>3, <1>6, <1>7, <1>8 DEF DoorNext

LEMMA FailsStep ==
  ASSUME AccountsInv, FailsBounded, [DoorNext]_doorVars
  PROVE  FailsBounded'
<1>1. AccountTypes'
  BY AccountStep DEF AccountsInv
<1> SUFFICES ASSUME NEW k \in Level
             PROVE  Len(Failures(k)') + Cardinality(Changing(k)') <= Most(k) + Cardinality(Browser) - 1
  BY DEF FailsBounded
<1>2. ASSUME NEW b \in Browser, Entering(b)
      PROVE  Len(Failures(k)') + Cardinality(Changing(k)') <= Most(k) + Cardinality(Browser) - 1
  <2>1. CASE LoginFails(b) \/ ChangeFails(b)
    BY <1>1, <2>1, FailureBounded
  <2>2. CASE HashBegins(b) \/ LoginSucceeds(b) \/ ChangeGoesOn(b) \/ ChangeEnds(b)
    BY <1>1, <2>2, QuietBounded
  <2> QED BY <1>2, <2>1, <2>2 DEF Entering
<1>3. ASSUME NEW b \in Browser, \E p, new : ChangeAsks(b, p, new)
      PROVE  Len(Failures(k)') + Cardinality(Changing(k)') <= Most(k) + Cardinality(Browser) - 1
  BY <1>3, ChangeAsksBounded
<1>4. ASSUME NEW b \in Browser, \E u, p : LoginAsks(b, u, p)
      PROVE  Len(Failures(k)') + Cardinality(Changing(k)') <= Most(k) + Cardinality(Browser) - 1
  BY <1>1, <1>4, QuietBounded
<1>5. CASE UNCHANGED <<hashing, fails>> \/ TimeGoesOn \/ ServiceStarts
  BY <1>1, <1>5, QuietBounded
<1> QED BY <1>2, <1>3, <1>4, <1>5, StepsOfHandlers

LEMMA BoundedThrottles == AccountTypes /\ FailsBounded => ThrottleHolds
<1> SUFFICES ASSUME AccountTypes, FailsBounded, NEW k \in DOMAIN fails
             PROVE  Len(fails[k]) < Most(k) + Cardinality(Browser)
  BY DEF ThrottleHolds
<1>1. k \in Level /\ Failures(k) = fails[k]
  BY DEF AccountTypes, Failures
<1> QED BY <1>1, FailuresTyped, ChangingFinite, MostPositive, BrowsersCount DEF FailsBounded

\* With any number of browsers, addresses and names, and hashes that overlap as they
\* like: no window counts more failures than its limit, but for one of each other
\* browser that was let in before it was full.
THEOREM ThrottleAlwaysHolds == DoorSpec => []ThrottleHolds
<1>1. DoorInit => AccountsInv /\ FailsBounded
  BY AccountInit, FailsInit
<1>2. AccountsInv /\ FailsBounded /\ [DoorNext]_doorVars => (AccountsInv /\ FailsBounded)'
  BY AccountStep, FailsStep
<1>3. AccountsInv /\ FailsBounded => ThrottleHolds
  BY BoundedThrottles DEF AccountsInv
<1> QED BY <1>1, <1>2, <1>3, PTL DEF DoorSpec

-----------------------------------------------------------------------------
(* The quotas.                                                             *)

Sorted(es) == \A i, j \in 1..Len(es) : i < j => es[i].age >= es[j].age
Holders(s) == {q \in Req : s \in held[q]}

QuotaTypes ==
  /\ quota \in [Subject -> QuotaType]
  /\ events \in [Subject -> Seq(EventType)]
  /\ \A s \in Subject : Sorted(events[s])
  /\ inflight \in [Subject -> Nat]
  /\ held \in [Req -> SUBSET Subject]
  /\ busy \subseteq Req
  /\ spent \subseteq Subject

\* A client without a request under way holds nothing, or its next admission would
\* overwrite what it holds.
IdleHoldsNothing == \A q \in Req : q \notin busy => held[q] = {}

SlotsExact == \A s \in Subject : inflight[s] = Cardinality(Holders(s))

QuotaInv == QuotaTypes /\ IdleHoldsNothing /\ SlotsExact

LEMMA HoldersCount ==
  ASSUME NEW s
  PROVE  /\ IsFiniteSet(Holders(s)) /\ Cardinality(Holders(s)) \in Nat
         /\ IsFiniteSet(Holders(s)') /\ Cardinality(Holders(s)') \in Nat
BY QuotaConstants, FS_Subset, FS_CardinalityType DEF Holders

LEMMA LayersAreSubjects ==
  ASSUME NEW q \in Req
  PROVE  Layers(q) \subseteq Subject /\ TokensOf[q] \in Nat
BY QuotaConstants DEF Layers, Subject

\* Pruning takes from the front.
LEMMA FromKeeps ==
  ASSUME NEW es \in Seq(EventType), Sorted(es), NEW young \in SUBSET (1..Len(es))
  PROVE  From(es, young) \in Seq(EventType) /\ Sorted(From(es, young))
<1>1. Len(es) \in Nat /\ \A i \in 1..Len(es) : es[i] \in EventType
  BY LenProperties
<1>2. CASE young = {}
  <2>1. From(es, young) = <<>>
    BY <1>2 DEF From
  <2>2. Len(<<>>) = 0
    OBVIOUS
  <2> QED BY <2>1, <2>2 DEF Sorted
<1>3. CASE young # {}
  <2> DEFINE m == Min(young)
             rest == SubSeq(es, m, Len(es))
  <2>1. young \in SUBSET Nat
    BY <1>1
  <2>2. m \in 1..Len(es)
    BY <1>3, <2>1, LeastNumber
  <2>3. From(es, young) = rest
    BY <1>3 DEF From
  <2> HIDE DEF m
  <2>4. /\ rest \in Seq(EventType) /\ Len(rest) = Len(es) - m + 1
        /\ \A i \in 1 .. Len(es) - m + 1 : rest[i] = es[m + i - 1]
    BY <1>1, <2>2, SubSeqProperties
  <2> HIDE DEF rest
  <2>5. ASSUME NEW i \in 1..Len(rest), NEW j \in 1..Len(rest), i < j
        PROVE  rest[i].age >= rest[j].age
    <3>1. m + i - 1 \in 1..Len(es) /\ m + j - 1 \in 1..Len(es) /\ m + i - 1 < m + j - 1
      BY <1>1, <2>2, <2>4, <2>5
    <3>2. rest[i] = es[m + i - 1] /\ rest[j] = es[m + j - 1]
      BY <2>4
    <3> QED BY <3>1, <3>2 DEF Sorted
  <2> QED BY <2>3, <2>4, <2>5 DEF Sorted
<1> QED BY <1>2, <1>3

\* An admission is younger than those before it.
LEMMA AppendKeeps ==
  ASSUME NEW old \in Seq(EventType), Sorted(old), NEW n \in Nat
  PROVE  LET new == [age |-> 0, tokens |-> n] IN
         new \in EventType /\ Append(old, new) \in Seq(EventType) /\ Sorted(Append(old, new))
<1> DEFINE new == [age |-> 0, tokens |-> n]
<1>1. new \in EventType /\ new.age = 0
  BY QuotaConstants DEF EventType
<1> HIDE DEF new
<1>2. /\ Append(old, new) \in Seq(EventType) /\ Len(Append(old, new)) = Len(old) + 1
      /\ \A i \in 1..Len(old) : Append(old, new)[i] = old[i]
      /\ Append(old, new)[Len(old) + 1] = new
  BY <1>1, AppendProperties
<1>3. Len(old) \in Nat /\ \A i \in 1..Len(old) : old[i] \in EventType
  BY LenProperties
<1>4. \A e \in EventType : e.age \in Nat
  BY QuotaConstants DEF EventType
<1>5. Sorted(Append(old, new))
  <2> SUFFICES ASSUME NEW i \in 1..Len(old) + 1, NEW j \in 1..Len(old) + 1, i < j
               PROVE  Append(old, new)[i].age >= Append(old, new)[j].age
    BY <1>2 DEF Sorted
  <2>1. i \in 1..Len(old)
    BY <1>3
  <2>2. CASE j \in 1..Len(old)
    BY <1>2, <2>1, <2>2 DEF Sorted
  <2>3. CASE j = Len(old) + 1
    <3>1. old[i].age \in Nat
      BY <1>3, <1>4, <2>1
    <3> QED BY <1>1, <1>2, <2>1, <2>3, <3>1
  <2> QED BY <1>3, <2>2, <2>3
<1> QED BY <1>1, <1>2, <1>5 DEF new

LEMMA CountedKeeps ==
  ASSUME QuotaTypes, NEW s \in Subject, NEW n \in Nat
  PROVE  Counted(s, n) \in Seq(EventType) /\ Sorted(Counted(s, n))
<1>1. Pruned(s) \in Seq(EventType) /\ Sorted(Pruned(s))
  BY FromKeeps DEF Pruned, Younger, QuotaTypes
<1> QED BY <1>1, AppendKeeps DEF Counted

LEMMA AgedKeeps ==
  ASSUME NEW es \in Seq(EventType), Sorted(es)
  PROVE  Aged(es) \in Seq(EventType) /\ Sorted(Aged(es))
<1> DEFINE older(e) == [e EXCEPT !.age = IF e.age < Window THEN e.age + 1 ELSE e.age]
<1>1. Len(es) \in Nat /\ \A i \in 1..Len(es) : es[i] \in EventType
  BY LenProperties
<1>2. \A e \in EventType :
        /\ e.age \in 0..Window /\ older(e) \in EventType
        /\ older(e).age = IF e.age < Window THEN e.age + 1 ELSE e.age
  <2> SUFFICES ASSUME NEW e \in EventType
               PROVE  /\ e.age \in 0..Window /\ older(e) \in EventType
                      /\ older(e).age = IF e.age < Window THEN e.age + 1 ELSE e.age
    OBVIOUS
  <2>1. e.age \in 0..Window
    BY DEF EventType
  <2>2. PICK age : age = IF e.age < Window THEN e.age + 1 ELSE e.age
    OBVIOUS
  <2>3. age \in 0..Window
    BY <2>1, <2>2, QuotaConstants
  <2>4. [e EXCEPT !.age = age] \in EventType /\ [e EXCEPT !.age = age].age = age
    BY <2>3 DEF EventType
  <2> QED BY <2>1, <2>2, <2>4
<1>3. Aged(es) = [i \in 1..Len(es) |-> older(es[i])]
  BY DEF Aged
<1> HIDE DEF older
<1>4. Aged(es) \in [1..Len(es) -> EventType]
  BY <1>1, <1>2, <1>3
<1>5. Aged(es) \in Seq(EventType) /\ Len(Aged(es)) = Len(es)
  BY <1>1, <1>4, SeqDef, LenProperties
<1>6. ASSUME NEW i \in 1..Len(es), NEW j \in 1..Len(es), i < j
      PROVE  Aged(es)[i].age >= Aged(es)[j].age
  <2>1. es[i].age >= es[j].age
    BY <1>6 DEF Sorted
  <2>2. es[i] \in EventType /\ es[j] \in EventType /\ Window \in Nat
    BY <1>1, QuotaConstants
  <2>3. es[i].age \in 0..Window /\ es[j].age \in 0..Window
    BY <1>2, <2>2
  <2>4. /\ Aged(es)[i].age = IF es[i].age < Window THEN es[i].age + 1 ELSE es[i].age
        /\ Aged(es)[j].age = IF es[j].age < Window THEN es[j].age + 1 ELSE es[j].age
    BY <1>2, <1>3, <2>2
  <2> QED BY <2>1, <2>2, <2>3, <2>4
<1> QED BY <1>5, <1>6 DEF Sorted

\* Admissions and ends: one client changes what it holds.
LEMMA AdmitSound ==
  ASSUME QuotaInv, NEW q \in Req, NEW faulty, Admit(q, faulty)
  PROVE  QuotaInv'
<1> DEFINE counting == Counting(q, faulty)
<1>1. /\ q \notin busy /\ busy' = busy \union {q} /\ UNCHANGED <<quota, spent>>
      /\ events' = [s \in Subject |-> IF s \in counting THEN Counted(s, TokensOf[q]) ELSE events[s]]
      /\ inflight' = [s \in Subject |-> IF s \in counting THEN inflight[s] + 1 ELSE inflight[s]]
      /\ held' = [held EXCEPT ![q] = counting]
  BY DEF Admit
<1>2. counting \subseteq Subject /\ TokensOf[q] \in Nat
  BY LayersAreSubjects DEF Counting
<1> HIDE DEF counting
<1>3. held[q] = {} /\ \A p \in Req : held'[p] = IF p = q THEN counting ELSE held[p]
  BY <1>1 DEF QuotaInv, QuotaTypes, IdleHoldsNothing
<1>4. QuotaTypes'
  <2>1. events' \in [Subject -> Seq(EventType)] /\ \A s \in Subject : Sorted(events'[s])
    BY <1>1, <1>2, CountedKeeps DEF QuotaInv, QuotaTypes
  <2>2. inflight' \in [Subject -> Nat]
    BY <1>1 DEF QuotaInv, QuotaTypes
  <2> QED BY <1>1, <1>2, <2>1, <2>2 DEF QuotaInv, QuotaTypes
<1>5. IdleHoldsNothing'
  BY <1>1, <1>3 DEF QuotaInv, IdleHoldsNothing
<1>6. ASSUME NEW s \in Subject
      PROVE  inflight'[s] = Cardinality(Holders(s)')
  <2>1. inflight[s] = Cardinality(Holders(s)) /\ q \notin Holders(s)
    BY <1>3 DEF QuotaInv, SlotsExact, Holders
  <2>2. CASE s \in counting
    <3>1. Holders(s)' = Holders(s) \union {q}
      BY <1>3, <2>2 DEF Holders
    <3>2. Cardinality(Holders(s) \union {q}) = Cardinality(Holders(s)) + 1
      BY <2>1, HoldersCount, FS_AddElement
    <3> QED BY <1>1, <2>1, <2>2, <3>1, <3>2
  <2>3. CASE s \notin counting
    <3>1. Holders(s)' = Holders(s)
      BY <1>3, <2>3 DEF Holders
    <3> QED BY <1>1, <2>1, <2>3, <3>1
  <2> QED BY <2>2, <2>3
<1> QED BY <1>4, <1>5, <1>6 DEF QuotaInv, SlotsExact

LEMMA FinishSound ==
  ASSUME QuotaInv, NEW q \in Req, Finish(q)
  PROVE  QuotaInv'
<1>1. /\ q \in busy /\ busy' = busy \ {q} /\ UNCHANGED <<quota, events, spent>>
      /\ inflight' = [s \in Subject |-> IF s \in held[q] THEN inflight[s] - 1 ELSE inflight[s]]
      /\ held' = [held EXCEPT ![q] = {}]
  BY DEF Finish
<1>2. \A p \in Req : held'[p] = IF p = q THEN {} ELSE held[p]
  BY <1>1 DEF QuotaInv, QuotaTypes
<1>3. ASSUME NEW s \in Subject
      PROVE  inflight'[s] = Cardinality(Holders(s)') /\ inflight'[s] \in Nat
  <2>1. inflight[s] = Cardinality(Holders(s))
    BY DEF QuotaInv, SlotsExact
  <2>2. CASE s \in held[q]
    <3>1. Holders(s)' = Holders(s) \ {q} /\ q \in Holders(s)
      BY <1>2, <2>2 DEF Holders
    <3>2. Cardinality(Holders(s) \ {q}) = Cardinality(Holders(s)) - 1
      BY <3>1, HoldersCount, FS_RemoveElement
    <3> QED BY <1>1, <2>1, <2>2, <3>1, <3>2, HoldersCount
  <2>3. CASE s \notin held[q]
    <3>1. Holders(s)' = Holders(s)
      BY <1>2, <2>3 DEF Holders
    <3> QED BY <1>1, <2>1, <2>3, <3>1, HoldersCount
  <2> QED BY <2>2, <2>3
<1>4. QuotaTypes'
  <2>1. inflight' \in [Subject -> Nat]
    BY <1>1, <1>3
  <2> QED BY <1>1, <2>1 DEF QuotaInv, QuotaTypes
<1>5. IdleHoldsNothing'
  BY <1>1, <1>2 DEF QuotaInv, IdleHoldsNothing
<1> QED BY <1>3, <1>4, <1>5 DEF QuotaInv, SlotsExact

\* Steps that leave the slots and those who hold them alone.
LEMMA SlotsAlone ==
  ASSUME QuotaInv, UNCHANGED <<inflight, held, busy>>,
         quota' \in [Subject -> QuotaType],
         events' \in [Subject -> Seq(EventType)], \A s \in Subject : Sorted(events'[s]),
         spent' \subseteq Subject
  PROVE  QuotaInv'
<1>1. \A s \in Subject : Holders(s)' = Holders(s)
  BY DEF Holders
<1> QED BY <1>1 DEF QuotaInv, QuotaTypes, IdleHoldsNothing, SlotsExact

LEMMA RefuseSound ==
  ASSUME QuotaInv, NEW q \in Req, NEW faulty, RefuseByUser(q, faulty)
  PROVE  QuotaInv'
<1> DEFINE key == KeyOf[q]
<1>1. /\ events' = [events EXCEPT ![key] = Counted(key, TokensOf[q])]
      /\ UNCHANGED <<quota, inflight, held, busy, spent>> /\ key \in Counting(q, faulty)
  BY DEF RefuseByUser
<1>2. key \in Subject /\ TokensOf[q] \in Nat
  BY <1>1, LayersAreSubjects DEF Counting
<1> HIDE DEF key
<1>3. Counted(key, TokensOf[q]) \in Seq(EventType) /\ Sorted(Counted(key, TokensOf[q]))
  BY <1>2, CountedKeeps DEF QuotaInv
<1>4. \A s \in Subject : events'[s] = IF s = key THEN Counted(key, TokensOf[q]) ELSE events[s]
  BY <1>1 DEF QuotaInv, QuotaTypes
<1>5. events' \in [Subject -> Seq(EventType)] /\ \A s \in Subject : Sorted(events'[s])
  <2> DEFINE new == Counted(key, TokensOf[q])
  <2> HIDE DEF new
  <2>1. events' = [events EXCEPT ![key] = new] /\ new \in Seq(EventType)
    BY <1>1, <1>3 DEF new
  <2>2. events' \in [Subject -> Seq(EventType)]
    BY <1>2, <2>1 DEF QuotaInv, QuotaTypes
  <2>3. ASSUME NEW s \in Subject
        PROVE  Sorted(events'[s])
    <3>1. CASE s = key
      BY <1>3, <1>4, <3>1
    <3>2. CASE s # key
      BY <1>4, <3>2 DEF QuotaInv, QuotaTypes
    <3> QED BY <3>1, <3>2
  <2> QED BY <2>2, <2>3
<1> QED BY <1>1, <1>5, SlotsAlone DEF QuotaInv, QuotaTypes

LEMMA SlideSound ==
  ASSUME QuotaInv, WindowsSlide
  PROVE  QuotaInv'
<1>1. events' = [s \in Subject |-> Aged(events[s])] /\ UNCHANGED <<quota, inflight, held, busy, spent>>
  BY DEF WindowsSlide
<1>2. \A s \in Subject : events[s] \in Seq(EventType) /\ Sorted(events[s])
  BY DEF QuotaInv, QuotaTypes
<1>3. \A s \in Subject : Aged(events[s]) \in Seq(EventType) /\ Sorted(Aged(events[s]))
  BY <1>2, AgedKeeps
<1>4. events' \in [Subject -> Seq(EventType)]
  BY <1>1, <1>3
<1>5. \A s \in Subject : events'[s] = Aged(events[s])
  BY <1>1
<1>6. \A s \in Subject : Sorted(events'[s])
  BY <1>3, <1>5
<1> QED BY <1>1, <1>4, <1>6, SlotsAlone DEF QuotaInv, QuotaTypes

LEMMA QuotaStep ==
  ASSUME QuotaInv, [DoorNext]_doorVars
  PROVE  QuotaInv'
<1>1. CASE UNCHANGED quotaVars
  <2>1. UNCHANGED <<inflight, held, busy, quota, events, spent>>
    BY <1>1 DEF quotaVars
  <2> QED BY <2>1, SlotsAlone DEF QuotaInv, QuotaTypes
<1>2. ASSUME NEW q \in Req, Record(q)
      PROVE  QuotaInv'
  <2>1. spent' \subseteq Subject
    BY <1>2, LayersAreSubjects DEF Record, QuotaInv, QuotaTypes
  <2> QED BY <1>2, <2>1, SlotsAlone DEF Record, QuotaInv, QuotaTypes
<1>3. ASSUME NEW s \in Subject, NEW new \in Quotas, SetQuota(s, new)
      PROVE  QuotaInv'
  <2>1. new \in QuotaType
    BY QuotaConstants
  <2>2. quota' \in [Subject -> QuotaType] /\ spent' \subseteq Subject
    BY <1>3, <2>1 DEF SetQuota, QuotaInv, QuotaTypes
  <2> QED BY <1>3, <2>2, SlotsAlone DEF SetQuota, QuotaInv, QuotaTypes
<1>4. CASE Midnight
  BY <1>4, SlotsAlone DEF Midnight, QuotaInv, QuotaTypes
<1>5. CASE StartsAgain
  <2>1. /\ events' = [s \in Subject |-> <<>>] /\ inflight' = [s \in Subject |-> 0]
        /\ held' = [q \in Req |-> {}] /\ busy' = {} /\ UNCHANGED <<quota, spent>>
    BY <1>5 DEF StartsAgain
  <2>2. Len(<<>>) = 0 /\ <<>> \in Seq(EventType)
    OBVIOUS
  <2>3. Sorted(<<>>)
    BY <2>2 DEF Sorted
  <2>4. \A s \in Subject : Holders(s)' = {}
    BY <2>1 DEF Holders
  <2>5. QuotaTypes'
    BY <2>1, <2>2, <2>3 DEF QuotaInv, QuotaTypes
  <2> QED BY <2>1, <2>4, <2>5, FS_EmptySet DEF QuotaInv, IdleHoldsNothing, SlotsExact
<1>6. ASSUME NEW q \in Req, Ask(q)
      PROVE  QuotaInv'
  BY <1>6, AdmitSound, RefuseSound DEF Ask
<1>7. CASE Requests
  BY <1>1, <1>2, <1>3, <1>4, <1>5, <1>6, <1>7, FinishSound, SlideSound DEF Requests
<1> QED BY <1>1, <1>7 DEF DoorNext, doorVars

LEMMA QuotasInit == DoorInit => QuotaInv
<1> SUFFICES ASSUME QuotaInit
             PROVE  QuotaInv
  BY DEF DoorInit
<1>1. quota \in [Subject -> QuotaType]
  BY QuotaConstants DEF QuotaInit
<1>2. Len(<<>>) = 0 /\ <<>> \in Seq(EventType)
  OBVIOUS
<1>3. Sorted(<<>>)
  BY <1>2 DEF Sorted
<1>4. \A s \in Subject : Holders(s) = {}
  BY DEF QuotaInit, Holders
<1>5. QuotaTypes
  BY <1>1, <1>2, <1>3 DEF QuotaInit, QuotaTypes
<1> QED BY <1>4, <1>5, FS_EmptySet DEF QuotaInv, QuotaInit, IdleHoldsNothing, SlotsExact

LEMMA InvSlots == QuotaInv => SlotsFollowRequests
<1>1. QuotaInv => QuotaTypeOK
  BY LenProperties DEF QuotaInv, QuotaTypes, QuotaTypeOK, Sorted
<1> QED BY <1>1 DEF QuotaInv, SlotsExact, SlotsFollowRequests, Holders

\* For any keys, users and clients, with quotas set, switched off and on, judged with
\* errors, refused at either layer, and restarts: each subject is charged exactly the
\* requests under way that it has counted.
THEOREM SlotsAlwaysFollow == DoorSpec => []SlotsFollowRequests
<1>1. DoorInit => QuotaInv
  BY QuotasInit
<1>2. QuotaInv /\ [DoorNext]_doorVars => QuotaInv'
  BY QuotaStep
<1>3. QuotaInv => SlotsFollowRequests
  BY InvSlots
<1> QED BY <1>1, <1>2, <1>3, PTL DEF DoorSpec

-----------------------------------------------------------------------------
(* Logins.                                                                 *)

Stage == {"token", "account", "user", "code", "exchange", "info", "identity"}

LoginType ==
  [at : {"new", "pending", "consumed", "gone"}, channel : Channel \union {""},
   of : Starter \union {""}, age : Nat, noted : BOOLEAN,
   granted : {"no", "given", "spent"}, saves : Nat]

JobType ==
  {Idle} \union [at : {"asks"}, on : Login, left : Seq(Stage), gives : SUBSET Alias]
         \union [at : {"queues"}, on : Login, gives : SUBSET Alias]
         \union [at : {"merges"}, on : Login, gives : SUBSET Alias, row : Login]

SavedType == [id : Login, channel : Channel, gives : SUBSET Alias, edited : BOOLEAN]

LoginTypes ==
  /\ login \in [Login -> LoginType]
  /\ serving \in [Handler -> JobType]
  /\ saved \subseteq SavedType
  /\ common \in [Channel -> SUBSET Alias]

\* A handler that alone may count the login as saved: TRAE's from the start, the others'
\* once they have consumed it.
Claims(h, l) ==
  \/ serving[h].at \in {"queues", "merges"} /\ serving[h].on = l
  \/ serving[h].at = "asks" /\ serving[h].on = l /\ login[l].channel = "trae"

ClaimsSound ==
  \A h \in Handler, l \in Login :
    Claims(h, l) => /\ login[l].at = "consumed" /\ login[l].saves = 0
                    /\ \A g \in Handler : Claims(g, l) => g = h

LoginsStarted ==
  /\ \A l \in Login : login[l].at # "new" => login[l].channel \in Channel
  /\ \A h \in Handler : serving[h].at # "idle" => login[serving[h].on].at # "new"
  /\ \A r \in saved : login[r.id].at # "new" /\ login[r.id].channel = r.channel

OnceInv == SavedOnce /\ ClaimsSound /\ LoginsStarted

On(h) == login[serving[h].on].channel
Merging(h) == serving[h].at = "merges"

\* Whatever a login of the account gave, the aliases in common are among it.
CommonGiven ==
  /\ \A r \in saved : common[r.channel] \subseteq r.gives
  /\ \A h \in Handler : serving[h].at \in {"queues", "merges"} => common[On(h)] \subseteq serving[h].gives

\* A merge is alone in its channel, and the row it has found is the only one there.
MergesAlone ==
  \A h \in Handler :
    Merging(h) =>
      /\ login[serving[h].row].at # "new" /\ login[serving[h].row].channel = On(h)
      /\ \A g \in Handler : Merging(g) /\ On(g) = On(h) => g = h
      /\ \A r \in saved : r.channel = On(h) /\ common[On(h)] # {} => r.id = serving[h].row

OneRow ==
  \A r1, r2 \in saved : r1.channel = r2.channel /\ common[r1.channel] # {} => r1 = r2

RowsInv == CommonGiven /\ MergesAlone /\ OneRow

LEMMA EntryEdits ==
  ASSUME NEW e \in LoginType
  PROVE  /\ \A how \in {"gone", "consumed"} :
              /\ Left(e, how) \in LoginType /\ Left(e, how).at = how
              /\ Left(e, how).channel = e.channel /\ Left(e, how).saves = e.saves
         /\ \A given \in {"no", "given", "spent"}, noted \in BOOLEAN :
              /\ [e EXCEPT !.granted = given, !.noted = noted] \in LoginType
              /\ [e EXCEPT !.granted = given, !.noted = noted].at = e.at
              /\ [e EXCEPT !.granted = given, !.noted = noted].channel = e.channel
              /\ [e EXCEPT !.granted = given, !.noted = noted].saves = e.saves
         /\ /\ [e EXCEPT !.age = e.age + 1] \in LoginType
            /\ [e EXCEPT !.age = e.age + 1].at = e.at
            /\ [e EXCEPT !.age = e.age + 1].channel = e.channel
            /\ [e EXCEPT !.age = e.age + 1].saves = e.saves
<1>0. e.age \in Nat
  BY DEF LoginType
<1>1. e.age + 1 \in Nat /\ 0 \in Nat
  BY <1>0
<1> QED BY <1>1 DEF LoginType, Left

LEMMA ConsumedEntry ==
  ASSUME NEW e \in LoginType, NEW saving \in BOOLEAN
  PROVE  /\ Consumed(e, saving) \in LoginType /\ Consumed(e, saving).at = "consumed"
         /\ Consumed(e, saving).channel = e.channel
         /\ Consumed(e, saving).saves = IF saving THEN 1 + e.saves ELSE e.saves
<1> DEFINE left == Left(e, "consumed")
           n == IF saving THEN 1 + e.saves ELSE e.saves
<1>1. left \in LoginType /\ left.at = "consumed" /\ left.channel = e.channel
  BY EntryEdits
<1>0. e.saves \in Nat
  BY DEF LoginType
<1>2. n \in Nat
  BY <1>0
<1>3. Consumed(e, saving) = [left EXCEPT !.saves = n]
  BY DEF Consumed
<1> HIDE DEF left
<1>4. [left EXCEPT !.saves = n].saves = n
  BY <1>1 DEF LoginType
<1> HIDE DEF n
<1>5. /\ [left EXCEPT !.saves = n] \in LoginType /\ [left EXCEPT !.saves = n].at = "consumed"
      /\ [left EXCEPT !.saves = n].channel = e.channel
  BY <1>1, <1>2 DEF LoginType
<1> QED BY <1>3, <1>4, <1>5 DEF n

LEMMA JobFields ==
  ASSUME LoginTypes, NEW h \in Handler
  PROVE  /\ serving[h].at \in {"idle", "asks", "queues", "merges"}
         /\ serving[h].at = "asks" =>
              serving[h] \in [at : {"asks"}, on : Login, left : Seq(Stage), gives : SUBSET Alias]
         /\ serving[h].at = "queues" =>
              serving[h] \in [at : {"queues"}, on : Login, gives : SUBSET Alias]
         /\ serving[h].at = "merges" =>
              serving[h] \in [at : {"merges"}, on : Login, gives : SUBSET Alias, row : Login]
         /\ serving[h].at # "idle" => serving[h].on \in Login
         /\ serving[h].at \in {"queues", "merges"} => serving[h].gives \in SUBSET Alias
         /\ serving[h] = Idle <=> serving[h].at = "idle"
BY DEF LoginTypes, JobType, Idle

\* Entries that are begun keep their channel and what was saved of them, and those
\* that were consumed stay so.
MildLogin ==
  \A l \in Login :
    /\ login[l].at # "new" => /\ login'[l].at # "new"
                              /\ login'[l].channel = login[l].channel
                              /\ login'[l].saves = login[l].saves
    /\ login[l].at = "consumed" => login'[l].at = "consumed"
    /\ login[l].at = "new" => /\ login'[l].saves = 0
                              /\ login'[l].at # "new" => login'[l].channel \in Channel

\* Handlers stay, stop, go on asking, or begin to ask for a login of another kind.
MildServing ==
  \A h \in Handler :
    \/ serving'[h] = serving[h]
    \/ serving'[h].at = "idle"
    \/ serving'[h].at = "asks" /\ serving[h].at = "asks" /\ serving'[h].on = serving[h].on
    \/ /\ serving'[h].at = "asks" /\ login[serving'[h].on].at = "pending"
       /\ login[serving'[h].on].channel # "trae"

LEMMA MildOnce ==
  ASSUME LoginTypes, LoginTypes', OnceInv, MildLogin, MildServing,
         \A r \in saved' : \E old \in saved : r.id = old.id /\ r.channel = old.channel
  PROVE  OnceInv'
<1>1. SavedOnce'
  <2> SUFFICES ASSUME NEW l \in Login
               PROVE  login'[l].saves <= 1 /\ (login'[l].saves = 1 => login'[l].at = "consumed")
    BY DEF SavedOnce
  <2>1. login[l].saves <= 1 /\ (login[l].saves = 1 => login[l].at = "consumed")
    BY DEF OnceInv, SavedOnce
  <2> QED BY <2>1 DEF MildLogin
<1>2. \A h \in Handler : serving'[h].at # "idle" => serving'[h].on \in Login
  BY JobFields DEF LoginTypes, JobType, Idle
<1>3. ASSUME NEW h \in Handler, serving'[h].at # "idle"
      PROVE  /\ login[serving'[h].on].at # "new"
             /\ login'[serving'[h].on].at # "new"
             /\ login'[serving'[h].on].channel = login[serving'[h].on].channel
  BY <1>2, <1>3 DEF OnceInv, LoginsStarted, MildLogin, MildServing
<1>4. ASSUME NEW h \in Handler, NEW l \in Login, Claims(h, l)'
      PROVE  Claims(h, l)
  BY <1>3, <1>4 DEF Claims, MildServing
<1>5. ClaimsSound'
  <2> SUFFICES ASSUME NEW h \in Handler, NEW l \in Login, Claims(h, l)'
               PROVE  /\ login'[l].at = "consumed" /\ login'[l].saves = 0
                      /\ \A g \in Handler : Claims(g, l)' => g = h
    BY DEF ClaimsSound
  <2>1. /\ login[l].at = "consumed" /\ login[l].saves = 0
        /\ \A g \in Handler : Claims(g, l) => g = h
    BY <1>4 DEF OnceInv, ClaimsSound
  <2>2. login'[l].at = "consumed" /\ login'[l].saves = 0
    BY <2>1 DEF MildLogin
  <2> QED BY <1>4, <2>1, <2>2
<1>6. LoginsStarted'
  <2>1. \A l \in Login : login'[l].at # "new" => login'[l].channel \in Channel
    BY DEF OnceInv, LoginsStarted, MildLogin
  <2>2. \A h \in Handler : serving'[h].at # "idle" => login'[serving'[h].on].at # "new"
    BY <1>3
  <2>3. ASSUME NEW r \in saved'
        PROVE  login'[r.id].at # "new" /\ login'[r.id].channel = r.channel
    <3>1. PICK old \in saved : r.id = old.id /\ r.channel = old.channel
      OBVIOUS
    <3>2. login[old.id].at # "new" /\ login[old.id].channel = old.channel /\ old.id \in Login
      BY DEF OnceInv, LoginsStarted, LoginTypes, SavedType
    <3> QED BY <3>1, <3>2 DEF MildLogin
  <2> QED BY <2>1, <2>2, <2>3 DEF LoginsStarted
<1> QED BY <1>1, <1>5, <1>6 DEF OnceInv

\* Rows that are edited, or fewer of them.
SameRow(r, old) == r.id = old.id /\ r.channel = old.channel /\ r.gives = old.gives

RowsEdited ==
  \A r1, r2 \in saved' :
    \E old1, old2 \in saved :
      SameRow(r1, old1) /\ SameRow(r2, old2) /\ (old1 = old2 => r1 = r2)

LEMMA MildRows ==
  ASSUME LoginTypes, LoginTypes', OnceInv, RowsInv, MildLogin, MildServing, RowsEdited,
         common' = common
  PROVE  RowsInv'
<1>1. \A r \in saved' : \E old \in saved : SameRow(r, old)
  BY DEF RowsEdited
<1>2. ASSUME NEW h \in Handler, serving'[h].at \in {"queues", "merges"}
      PROVE  serving'[h] = serving[h] /\ On(h)' = On(h) /\ On(h) \in Channel
  <2>1. serving'[h] = serving[h]
    BY <1>2 DEF MildServing
  <2>2. serving[h].on \in Login /\ serving[h].at # "idle"
    BY <1>2, <2>1, JobFields
  <2> QED BY <2>1, <2>2 DEF On, MildLogin, OnceInv, LoginsStarted
<1>3. CommonGiven'
  <2>1. ASSUME NEW r \in saved'
        PROVE  common'[r.channel] \subseteq r.gives
    BY <1>1 DEF SameRow, RowsInv, CommonGiven
  <2>2. ASSUME NEW h \in Handler, serving'[h].at \in {"queues", "merges"}
        PROVE  common'[On(h)'] \subseteq serving'[h].gives
    BY <1>2, <2>2 DEF RowsInv, CommonGiven
  <2> QED BY <2>1, <2>2 DEF CommonGiven
<1>4. MergesAlone'
  <2> SUFFICES ASSUME NEW h \in Handler, Merging(h)'
               PROVE  /\ login'[serving'[h].row].at # "new"
                      /\ login'[serving'[h].row].channel = On(h)'
                      /\ \A g \in Handler : Merging(g)' /\ On(g)' = On(h)' => g = h
                      /\ \A r \in saved' : r.channel = On(h)' /\ common'[On(h)'] # {}
                                           => r.id = serving'[h].row
    BY DEF MergesAlone
  <2>1. /\ serving'[h] = serving[h] /\ On(h)' = On(h) /\ Merging(h)
    BY <1>2 DEF Merging
  <2>2. serving[h].row \in Login
    BY <2>1, JobFields DEF Merging
  <2>3. login[serving[h].row].at # "new" /\ login[serving[h].row].channel = On(h)
    BY <2>1 DEF RowsInv, MergesAlone
  <2>4. ASSUME NEW g \in Handler, Merging(g)', On(g)' = On(h)'
        PROVE  g = h
    <3>1. Merging(g) /\ On(g) = On(h)
      BY <1>2, <2>1, <2>4 DEF Merging
    <3> QED BY <2>1, <3>1 DEF RowsInv, MergesAlone
  <2>5. ASSUME NEW r \in saved', r.channel = On(h)', common'[On(h)'] # {}
        PROVE  r.id = serving'[h].row
    <3>1. PICK old \in saved : SameRow(r, old)
      BY <1>1
    <3> QED BY <2>1, <2>5, <3>1 DEF SameRow, RowsInv, MergesAlone
  <2> QED BY <2>1, <2>2, <2>3, <2>4, <2>5 DEF MildLogin
<1>5. OneRow'
  <2> SUFFICES ASSUME NEW r1 \in saved', NEW r2 \in saved', r1.channel = r2.channel,
                      common'[r1.channel] # {}
               PROVE  r1 = r2
    BY DEF OneRow
  <2>1. PICK old1 \in saved, old2 \in saved :
          SameRow(r1, old1) /\ SameRow(r2, old2) /\ (old1 = old2 => r1 = r2)
    BY DEF RowsEdited
  <2> QED BY <2>1 DEF SameRow, RowsInv, OneRow
<1> QED BY <1>3, <1>4, <1>5 DEF RowsInv

LoginInv == LoginTypes /\ OnceInv /\ RowsInv

LEMMA MildSound ==
  ASSUME LoginInv, LoginTypes', MildLogin, MildServing, RowsEdited, common' = common
  PROVE  LoginInv'
<1>1. \A r \in saved' : \E old \in saved : r.id = old.id /\ r.channel = old.channel
  BY DEF RowsEdited, SameRow
<1> QED BY <1>1, MildOnce, MildRows DEF LoginInv

LEMMA RowsUntouched == saved' = saved => RowsEdited
BY DEF RowsEdited, SameRow

\* One entry changes, or pending ones leave their store.
LEMMA EntryMild ==
  ASSUME LoginInv, NEW l \in Login, NEW e \in LoginType, login' = [login EXCEPT ![l] = e],
         e.at = login[l].at, e.channel = login[l].channel, e.saves = login[l].saves
  PROVE  MildLogin /\ login' \in [Login -> LoginType]
<1>1. \A x \in Login : login'[x] = IF x = l THEN e ELSE login[x]
  BY DEF LoginInv, LoginTypes
<1>2. \A x \in Login : login[x].at = "new" => login[x].saves = 0
  <2>1. \A x \in Login : login[x].saves \in Nat
    BY DEF LoginInv, LoginTypes, LoginType
  <2> QED BY <2>1 DEF LoginInv, OnceInv, SavedOnce
<1>3. login' \in [Login -> LoginType]
  BY DEF LoginInv, LoginTypes
<1> QED BY <1>1, <1>2, <1>3 DEF MildLogin, LoginInv, OnceInv, LoginsStarted

LEMMA GoneMild ==
  ASSUME LoginInv, NEW ls, \A l \in ls \intersect Login : login[l].at = "pending"
  PROVE  /\ Gone(ls) \in [Login -> LoginType]
         /\ login' = Gone(ls) => MildLogin
         /\ \A l \in Login : Gone(ls)[l] = IF l \in ls THEN Left(login[l], "gone") ELSE login[l]
<1>1. \A l \in Login : login[l] \in LoginType
  BY DEF LoginInv, LoginTypes
<1>2. \A l \in Login :
        /\ Left(login[l], "gone") \in LoginType /\ Left(login[l], "gone").at = "gone"
        /\ Left(login[l], "gone").channel = login[l].channel
        /\ Left(login[l], "gone").saves = login[l].saves
  BY <1>1, EntryEdits
<1>3. \A l \in Login : Gone(ls)[l] = IF l \in ls THEN Left(login[l], "gone") ELSE login[l]
  BY DEF Gone
<1>4. Gone(ls) \in [Login -> LoginType]
  BY <1>1, <1>2, <1>3 DEF Gone
<1>5. \A x \in Login : login[x].at = "new" => login[x].saves = 0
  <2>1. \A x \in Login : login[x].saves \in Nat
    BY <1>1 DEF LoginType
  <2> QED BY <2>1 DEF LoginInv, OnceInv, SavedOnce
<1>6. ASSUME login' = Gone(ls)
      PROVE  MildLogin
  <2> SUFFICES ASSUME NEW l \in Login
               PROVE  /\ login[l].at # "new" => /\ login'[l].at # "new"
                                                /\ login'[l].channel = login[l].channel
                                                /\ login'[l].saves = login[l].saves
                      /\ login[l].at = "consumed" => login'[l].at = "consumed"
                      /\ login[l].at = "new" => /\ login'[l].saves = 0
                                                /\ login'[l].at # "new" => login'[l].channel \in Channel
    BY DEF MildLogin
  <2>1. CASE l \in ls
    BY <1>2, <1>3, <1>6, <2>1
  <2>2. CASE l \notin ls
    BY <1>3, <1>5, <1>6, <2>2
  <2> QED BY <2>1, <2>2
<1> QED BY <1>3, <1>4, <1>6

LEMMA ServeMild ==
  ASSUME LoginTypes, NEW h \in Handler, NEW job \in JobType, Serve(h, job),
         \/ job.at = "idle"
         \/ job.at = "asks" /\ serving[h].at = "asks" /\ job.on = serving[h].on
         \/ job.at = "asks" /\ login[job.on].at = "pending" /\ login[job.on].channel # "trae"
  PROVE  MildServing /\ serving' \in [Handler -> JobType]
<1>1. \A g \in Handler : serving'[g] = IF g = h THEN job ELSE serving[g]
  BY DEF Serve, LoginTypes
<1>2. serving' \in [Handler -> JobType]
  BY DEF Serve, LoginTypes
<1> QED BY <1>1, <1>2 DEF MildServing

LEMMA ServingUntouched == serving' = serving => MildServing
BY DEF MildServing

LEMMA IdleJob == Idle \in JobType /\ Idle.at = "idle"
BY DEF Idle, JobType

LEMMA StartSoundly ==
  ASSUME LoginInv, NEW c \in Channel, NEW s \in Starters[c], Start(c, s)
  PROVE  LoginInv'
<1> DEFINE new == {l \in 1 .. MaxLogins[c] : login[l].at = "new"}
           swept == Swept(c) \union Displaced(c, s)
           first == Min(new)
           begun == Begun(c, s)
<1>1. /\ new # {} /\ UNCHANGED <<serving, saved, common>>
      /\ login' = [Gone(swept) EXCEPT ![first] = begun]
  BY DEF Start
<1>2. first \in new
  BY <1>1, LeastNumber, LoginConstants
<1>3. begun \in LoginType /\ begun.at = "pending" /\ begun.channel = c /\ begun.saves = 0
  <2>1. s \in Starter
    BY DEF Starter
  <2> QED BY <2>1 DEF Begun, NotStarted, LoginType
<1>4. swept \subseteq Pending(c)
  <2>1. Swept(c) \subseteq Pending(c)
    BY DEF Swept
  <2> DEFINE kept == Pending(c) \ Swept(c)
  <2>2. CASE c = "trae"
    BY <2>1, <2>2 DEF Displaced, PendingOf
  <2>3. CASE c = "officeace" /\ Cardinality(kept) >= MaxPending
    <3>1. kept # {}
      BY <2>3, FS_EmptySet, LoginConstants
    <3>2. kept \in SUBSET Nat
      BY DEF Pending, Login
    <3>3. Min(kept) \in kept
      BY <3>1, <3>2, LeastNumber
    <3> QED BY <2>1, <2>3, <3>3 DEF Displaced
  <2>4. CASE c # "trae" /\ ~(c = "officeace" /\ Cardinality(kept) >= MaxPending)
    BY <2>1, <2>4 DEF Displaced
  <2> QED BY <2>2, <2>3, <2>4
<1>5. \A l \in swept \intersect Login : login[l].at = "pending"
  BY <1>4 DEF Pending
<1> DEFINE gone == Gone(swept)
<1>6. /\ gone \in [Login -> LoginType]
      /\ \A l \in Login : gone[l] = IF l \in swept THEN Left(login[l], "gone") ELSE login[l]
  BY <1>5, GoneMild
<1> HIDE DEF begun, first, swept, gone
<1>7. /\ login' \in [Login -> LoginType]
      /\ \A l \in Login : login'[l] = IF l = first THEN begun ELSE gone[l]
  BY <1>1, <1>3, <1>6 DEF gone
<1>8. \A l \in Login : login[l] \in LoginType
  BY DEF LoginInv, LoginTypes
<1>9. MildLogin
  <2> SUFFICES ASSUME NEW l \in Login
               PROVE  /\ login[l].at # "new" => /\ login'[l].at # "new"
                                                /\ login'[l].channel = login[l].channel
                                                /\ login'[l].saves = login[l].saves
                      /\ login[l].at = "consumed" => login'[l].at = "consumed"
                      /\ login[l].at = "new" => /\ login'[l].saves = 0
                                                /\ login'[l].at # "new" => login'[l].channel \in Channel
    BY DEF MildLogin
  <2>1. login[l].at = "new" => login[l].saves = 0
    <3>1. login[l].saves \in Nat
      BY <1>8 DEF LoginType
    <3> QED BY <3>1 DEF LoginInv, OnceInv, SavedOnce
  <2>2. CASE l = first
    BY <1>2, <1>3, <1>7, <2>2
  <2>3. CASE l # first /\ l \in swept
    <3>1. /\ Left(login[l], "gone").at = "gone" /\ Left(login[l], "gone").channel = login[l].channel
          /\ Left(login[l], "gone").saves = login[l].saves
      BY <1>8, EntryEdits
    <3> QED BY <1>5, <1>6, <1>7, <2>3, <3>1
  <2>4. CASE l # first /\ l \notin swept
    BY <1>6, <1>7, <2>1, <2>4
  <2> QED BY <2>2, <2>3, <2>4
<1>10. LoginTypes'
  BY <1>1, <1>7 DEF LoginInv, LoginTypes
<1> QED BY <1>1, <1>9, <1>10, MildSound, RowsUntouched, ServingUntouched

\* Steps that change one entry, but not where it is, and no handler.
LEMMA EntrySound ==
  ASSUME LoginInv, NEW l \in Login, NEW e \in LoginType, login' = [login EXCEPT ![l] = e],
         e.at = login[l].at, e.channel = login[l].channel, e.saves = login[l].saves,
         UNCHANGED <<serving, saved, common>>
  PROVE  LoginInv'
<1>1. MildLogin /\ login' \in [Login -> LoginType]
  BY EntryMild
<1>2. LoginTypes'
  BY <1>1 DEF LoginInv, LoginTypes
<1> QED BY <1>1, <1>2, MildSound, RowsUntouched, ServingUntouched

LEMMA GrantSound ==
  ASSUME LoginInv, NEW l \in Login, Grant(l)
  PROVE  LoginInv'
<1> DEFINE e == [login[l] EXCEPT !.granted = "given"]
<1>1. login[l] \in LoginType
  BY DEF LoginInv, LoginTypes
<1>2. /\ e \in LoginType /\ e.at = login[l].at /\ e.channel = login[l].channel
      /\ e.saves = login[l].saves
  BY <1>1 DEF LoginType
<1>3. login' = [login EXCEPT ![l] = e] /\ UNCHANGED <<serving, saved, common>>
  BY DEF Grant
<1> HIDE DEF e
<1> QED BY <1>2, <1>3, EntrySound

LEMMA PasteSound ==
  ASSUME LoginInv, NEW l \in Login, NEW s, PasteSecret(l, s)
  PROVE  LoginInv'
<1> DEFINE e == [login[l] EXCEPT !.noted = TRUE]
<1>1. login[l] \in LoginType
  BY DEF LoginInv, LoginTypes
<1>2. /\ e \in LoginType /\ e.at = login[l].at /\ e.channel = login[l].channel
      /\ e.saves = login[l].saves
  BY <1>1 DEF LoginType
<1>3. login' = [login EXCEPT ![l] = e] /\ UNCHANGED <<serving, saved, common>>
  BY DEF PasteSecret
<1> HIDE DEF e
<1> QED BY <1>2, <1>3, EntrySound

LEMMA CancelSound ==
  ASSUME LoginInv, NEW l \in Login, NEW s, Cancel(l, s)
  PROVE  LoginInv'
<1>1. login' = Gone({l}) /\ login[l].at = "pending" /\ UNCHANGED <<serving, saved, common>>
  BY DEF Cancel
<1>2. Gone({l}) \in [Login -> LoginType] /\ MildLogin
  BY <1>1, GoneMild
<1>3. LoginTypes'
  BY <1>1, <1>2 DEF LoginInv, LoginTypes
<1> QED BY <1>1, <1>2, <1>3, MildSound, RowsUntouched, ServingUntouched

LEMMA AgeSound ==
  ASSUME LoginInv, LoginsAge
  PROVE  LoginInv'
<1>1. \A l \in Login : login[l] \in LoginType
  BY DEF LoginInv, LoginTypes
<1>2. /\ login' = [l \in Login |-> IF login[l].at = "pending" /\ ~CallbackExpired(l)
                                  THEN [login[l] EXCEPT !.age = login[l].age + 1] ELSE login[l]]
      /\ UNCHANGED <<serving, saved, common>>
  BY DEF LoginsAge
<1>3. \A l \in Login :
        /\ login'[l] \in LoginType /\ login'[l].at = login[l].at
        /\ login'[l].channel = login[l].channel /\ login'[l].saves = login[l].saves
  <2> SUFFICES ASSUME NEW l \in Login
               PROVE  /\ login'[l] \in LoginType /\ login'[l].at = login[l].at
                      /\ login'[l].channel = login[l].channel /\ login'[l].saves = login[l].saves
    OBVIOUS
  <2> DEFINE e == [login[l] EXCEPT !.age = login[l].age + 1]
  <2>1. /\ e \in LoginType /\ e.at = login[l].at /\ e.channel = login[l].channel
        /\ e.saves = login[l].saves
    BY <1>1, EntryEdits
  <2>2. login'[l] = e \/ login'[l] = login[l]
    BY <1>2
  <2> HIDE DEF e
  <2> QED BY <1>1, <2>1, <2>2
<1>4. MildLogin
  <2>1. \A l \in Login : login[l].at = "new" => login[l].saves = 0
    <3>1. \A l \in Login : login[l].saves \in Nat
      BY <1>1 DEF LoginType
    <3> QED BY <3>1 DEF LoginInv, OnceInv, SavedOnce
  <2> QED BY <1>3, <2>1 DEF MildLogin
<1>5. LoginTypes'
  <2>1. login' \in [Login -> LoginType]
    BY <1>2, <1>3
  <2> QED BY <1>2, <2>1 DEF LoginInv, LoginTypes
<1> QED BY <1>2, <1>4, <1>5, MildSound, RowsUntouched, ServingUntouched

LEMMA PathStages ==
  ASSUME NEW c \in Channel, NEW pasted \in BOOLEAN
  PROVE  Path(c, pasted) \in Seq(Stage) /\ Tail(CodeBuddyPath) \in Seq(Stage)
<1>1. CodeBuddyPath \in Seq(Stage) /\ Tail(CodeBuddyPath) \in Seq(Stage)
  BY DEF CodeBuddyPath, Stage
<1>2. QoderPath \in Seq(Stage) /\ TicketPath \in Seq(Stage) /\ PastePath \in Seq(Stage)
  BY DEF QoderPath, TicketPath, PastePath, Stage
<1>3. OfficeAcePath \in Seq(Stage) /\ TraePath \in Seq(Stage)
  BY DEF OfficeAcePath, TraePath, Stage
<1>4. c \in {"codebuddy", "qoder", "officeace", "codearts", "trae"}
  BY LoginConstants DEF Channels
<1> QED BY <1>1, <1>2, <1>3, <1>4 DEF Path

LEMMA NewJob ==
  ASSUME NEW l \in Login, NEW path \in Seq(Stage)
  PROVE  Job(l, path) \in JobType /\ Job(l, path).at = "asks" /\ Job(l, path).on = l
BY DEF Job, JobType

LEMMA AskSound ==
  ASSUME LoginInv, NEW h \in Handler, NEW l \in Login, NEW s, NEW pasted \in BOOLEAN,
         AskLogin(h, l, s, pasted)
  PROVE  LoginInv'
<1> DEFINE c == login[l].channel
<1>1. login[l].at = "pending" /\ c # "trae" /\ UNCHANGED <<saved, common>>
  BY DEF AskLogin
<1>2. c \in Channel
  BY <1>1 DEF LoginInv, OnceInv, LoginsStarted
<1>3. CASE login' = Gone({l}) /\ UNCHANGED serving
  <2>1. Gone({l}) \in [Login -> LoginType] /\ MildLogin
    BY <1>1, <1>3, GoneMild
  <2>2. LoginTypes'
    BY <1>1, <1>3, <2>1 DEF LoginInv, LoginTypes
  <2> QED BY <1>1, <1>3, <2>1, <2>2, MildSound, RowsUntouched, ServingUntouched
<1>4. ASSUME NEW path \in Seq(Stage), Serve(h, Job(l, path)), UNCHANGED login
      PROVE  LoginInv'
  <2>1. MildServing /\ serving' \in [Handler -> JobType]
    BY <1>1, <1>4, NewJob, ServeMild DEF LoginInv
  <2>2. LoginTypes'
    BY <1>1, <1>4, <2>1 DEF LoginInv, LoginTypes
  <2>3. MildLogin
    <3>1. \A x \in Login : login[x].at = "new" => login[x].saves = 0
      <4>1. \A x \in Login : login[x].saves \in Nat
        BY DEF LoginInv, LoginTypes, LoginType
      <4> QED BY <4>1 DEF LoginInv, OnceInv, SavedOnce
    <3> QED BY <1>4, <3>1 DEF MildLogin
  <2> QED BY <1>1, <2>1, <2>2, <2>3, MildSound, RowsUntouched
<1>5. Path(c, pasted) \in Seq(Stage) /\ (c = "codebuddy" => Tail(Path(c, pasted)) \in Seq(Stage))
  BY <1>2, PathStages DEF Path
<1>6. CASE \E path \in Seq(Stage) : Serve(h, Job(l, path)) /\ UNCHANGED login
  BY <1>4, <1>6
<1> QED BY <1>3, <1>5, <1>6 DEF AskLogin

\* What an answer leaves of an entry, besides where it is.
LEMMA NotedKeeps ==
  ASSUME LoginInv, NEW h \in Handler, Asked(h)
  PROVE  /\ Noted(h) \in [Login -> LoginType]
         /\ serving[h].on \in Login
         /\ \A l \in Login :
              /\ Noted(h)[l].at = login[l].at /\ Noted(h)[l].channel = login[l].channel
              /\ Noted(h)[l].saves = login[l].saves
<1> DEFINE l == serving[h].on
           g == IF Step(h) = "exchange" THEN "spent" ELSE login[l].granted
           n == login[l].noted \/ (Step(h) = "token" /\ login[l].channel = "codebuddy")
           e == [login[l] EXCEPT !.granted = g, !.noted = n]
<1>1. l \in Login
  BY JobFields DEF Asked, LoginInv
<1>2. \A x \in Login : login[x] \in LoginType
  BY DEF LoginInv, LoginTypes
<1>3. g \in {"no", "given", "spent"} /\ n \in BOOLEAN
  BY <1>1, <1>2 DEF LoginType
<1>4. Noted(h) = [login EXCEPT ![l] = e]
  <2>1. \A x \in Login : Noted(h)[x] = IF x = l THEN e ELSE login[x]
    BY <1>1, <1>2 DEF Noted, LoginType, LoginInv, LoginTypes
  <2>2. Noted(h) = [x \in Login |-> Noted(h)[x]]
    BY DEF Noted, LoginInv, LoginTypes
  <2> HIDE DEF e, l
  <2> QED BY <1>1, <2>1, <2>2 DEF LoginInv, LoginTypes
<1> HIDE DEF g, n
<1>5. /\ e \in LoginType /\ e.at = login[l].at /\ e.channel = login[l].channel
      /\ e.saves = login[l].saves
  <2>1. login[l] \in LoginType
    BY <1>1, <1>2
  <2>2. \A given \in {"no", "given", "spent"}, noted \in BOOLEAN :
          /\ [login[l] EXCEPT !.granted = given, !.noted = noted] \in LoginType
          /\ [login[l] EXCEPT !.granted = given, !.noted = noted].at = login[l].at
          /\ [login[l] EXCEPT !.granted = given, !.noted = noted].channel = login[l].channel
          /\ [login[l] EXCEPT !.granted = given, !.noted = noted].saves = login[l].saves
    BY <2>1, EntryEdits
  <2> QED BY <1>3, <2>2
<1> HIDE DEF e, l
<1>6. \A x \in Login : [login EXCEPT ![l] = e][x] = IF x = l THEN e ELSE login[x]
  BY DEF LoginInv, LoginTypes
<1>7. [login EXCEPT ![l] = e] \in [Login -> LoginType]
  BY <1>1, <1>5 DEF LoginInv, LoginTypes
<1> QED BY <1>1, <1>4, <1>5, <1>6, <1>7 DEF l

LEMMA NotedMild ==
  ASSUME LoginInv, NEW h \in Handler, Asked(h), login' = Noted(h)
  PROVE  MildLogin
<1>1. \A x \in Login : login[x].at = "new" => login[x].saves = 0
  <2>1. \A x \in Login : login[x].saves \in Nat
    BY DEF LoginInv, LoginTypes, LoginType
  <2> QED BY <2>1 DEF LoginInv, OnceInv, SavedOnce
<1> QED BY <1>1, NotedKeeps DEF MildLogin

LEMMA UnreadySound ==
  ASSUME LoginInv, NEW h \in Handler, Unready(h)
  PROVE  LoginInv'
<1>1. Serve(h, Idle) /\ UNCHANGED <<login, saved, common>>
  BY DEF Unready
<1>2. MildServing /\ serving' \in [Handler -> JobType]
  BY <1>1, IdleJob, ServeMild DEF LoginInv
<1>3. MildLogin
  <2>1. \A x \in Login : login[x].saves \in Nat
    BY DEF LoginInv, LoginTypes, LoginType
  <2> QED BY <1>1, <2>1 DEF MildLogin, LoginInv, OnceInv, SavedOnce
<1>4. LoginTypes'
  BY <1>1, <1>2 DEF LoginInv, LoginTypes
<1> QED BY <1>1, <1>2, <1>3, <1>4, MildSound, RowsUntouched

LEMMA ProceedSound ==
  ASSUME LoginInv, NEW h \in Handler, Proceed(h)
  PROVE  LoginInv'
<1> DEFINE job == [serving[h] EXCEPT !.left = Tail(serving[h].left)]
<1>1. /\ Asked(h) /\ Len(serving[h].left) > 1 /\ login' = Noted(h)
      /\ Serve(h, job) /\ UNCHANGED <<saved, common>>
  BY DEF Proceed
<1>2. serving[h] \in [at : {"asks"}, on : Login, left : Seq(Stage), gives : SUBSET Alias]
  BY <1>1, JobFields DEF Asked, LoginInv
<1>3. Tail(serving[h].left) \in Seq(Stage)
  <2>1. serving[h].left \in Seq(Stage)
    BY <1>2
  <2>2. serving[h].left # <<>>
    BY <1>1, <2>1
  <2> QED BY <2>1, <2>2, HeadTailProperties
<1>4. job \in JobType /\ job.at = "asks" /\ job.on = serving[h].on
  BY <1>2, <1>3 DEF JobType
<1> HIDE DEF job
<1>5. MildServing /\ serving' \in [Handler -> JobType]
  BY <1>1, <1>4, ServeMild DEF LoginInv, Asked
<1>6. LoginTypes'
  BY <1>1, <1>5, NotedKeeps DEF LoginInv, LoginTypes
<1> QED BY <1>1, <1>5, <1>6, NotedMild, MildSound, RowsUntouched

\* One handler takes a login over, or lands it.
LEMMA LandingOnce ==
  ASSUME LoginTypes, LoginTypes', OnceInv, NEW h \in Handler, NEW l \in Login,
         login[l].at # "new", login[l].saves = 0,
         \A g \in Handler : Claims(g, l) => g = h,
         login'[l].at = "consumed", login'[l].channel = login[l].channel,
         login'[l].saves \in {0, 1},
         \A x \in Login \ {l} : /\ login'[x].at = login[x].at
                                /\ login'[x].channel = login[x].channel
                                /\ login'[x].saves = login[x].saves,
         \A g \in Handler \ {h} : serving'[g] = serving[g],
         serving'[h].at = "idle" \/ (serving'[h].on = l /\ login'[l].saves = 0),
         \A r \in saved' : \/ r.id = l /\ r.channel = login[l].channel
                           \/ \E old \in saved : r.id = old.id /\ r.channel = old.channel
  PROVE  OnceInv'
<1>1. SavedOnce'
  BY DEF SavedOnce, OnceInv
<1>2. ASSUME NEW g \in Handler \ {h}, NEW x \in Login, Claims(g, x)'
      PROVE  Claims(g, x) /\ x # l
  <2>1. Claims(g, x)
    BY <1>2 DEF Claims
  <2> QED BY <2>1
<1>3. ASSUME NEW x \in Login, Claims(h, x)'
      PROVE  x = l /\ login'[l].saves = 0
  BY <1>3 DEF Claims
<1>4. ClaimsSound'
  <2> SUFFICES ASSUME NEW g \in Handler, NEW x \in Login, Claims(g, x)'
               PROVE  /\ login'[x].at = "consumed" /\ login'[x].saves = 0
                      /\ \A k \in Handler : Claims(k, x)' => k = g
    BY DEF ClaimsSound
  <2>1. CASE g = h
    BY <1>2, <1>3, <2>1
  <2>2. CASE g # h
    <3>1. Claims(g, x) /\ x # l
      BY <1>2, <2>2
    <3>2. /\ login[x].at = "consumed" /\ login[x].saves = 0
          /\ \A k \in Handler : Claims(k, x) => k = g
      BY <3>1 DEF OnceInv, ClaimsSound
    <3>3. ASSUME NEW k \in Handler, Claims(k, x)'
          PROVE  k = g
      BY <1>2, <1>3, <3>1, <3>2, <3>3
    <3> QED BY <3>1, <3>2, <3>3
  <2> QED BY <2>1, <2>2
<1>5. LoginsStarted'
  <2>1. login[l].channel \in Channel
    BY DEF OnceInv, LoginsStarted
  <2>2. \A x \in Login : login'[x].at # "new" => login'[x].channel \in Channel
    BY <2>1 DEF OnceInv, LoginsStarted
  <2>3. \A g \in Handler : serving'[g].at # "idle" => login'[serving'[g].on].at # "new"
    BY JobFields DEF OnceInv, LoginsStarted
  <2>4. ASSUME NEW r \in saved'
        PROVE  login'[r.id].at # "new" /\ login'[r.id].channel = r.channel
    <3>1. CASE r.id = l /\ r.channel = login[l].channel
      BY <3>1
    <3>2. ASSUME NEW old \in saved, r.id = old.id /\ r.channel = old.channel
          PROVE  login'[r.id].at # "new" /\ login'[r.id].channel = r.channel
      <4>1. old.id \in Login /\ login[old.id].at # "new" /\ login[old.id].channel = old.channel
        BY DEF OnceInv, LoginsStarted, LoginTypes, SavedType
      <4> QED BY <3>2, <4>1
    <3> QED BY <3>1, <3>2
  <2> QED BY <2>2, <2>3, <2>4 DEF LoginsStarted
<1> QED BY <1>1, <1>4, <1>5 DEF OnceInv

LEMMA LandingRows ==
  ASSUME LoginTypes, LoginTypes', OnceInv, RowsInv, NEW h \in Handler,
         \A x \in Login : login[x].at # "new" =>
           login'[x].at # "new" /\ login'[x].channel = login[x].channel,
         \A g \in Handler \ {h} : serving'[g] = serving[g],
         \A c \in Channel : common'[c] \subseteq common[c],
         serving'[h].at # "merges",
         serving'[h].at = "queues" => common'[On(h)'] \subseteq serving'[h].gives,
         \A r \in saved' : common'[r.channel] \subseteq r.gives,
         \A g \in Handler \ {h} : Merging(g) =>
           \A r \in saved' : r.channel = On(g) /\ common'[On(g)] # {} => r.id = serving[g].row,
         OneRow'
  PROVE  RowsInv'
<1>1. ASSUME NEW g \in Handler \ {h}, serving[g].at # "idle"
      PROVE  On(g)' = On(g) /\ On(g) \in Channel
  <2>1. serving[g].on \in Login /\ login[serving[g].on].at # "new"
    BY <1>1, JobFields DEF OnceInv, LoginsStarted
  <2> QED BY <2>1 DEF On, OnceInv, LoginsStarted
<1>2. CommonGiven'
  <2> SUFFICES ASSUME NEW g \in Handler, serving'[g].at \in {"queues", "merges"}
               PROVE  common'[On(g)'] \subseteq serving'[g].gives
    BY DEF CommonGiven
  <2>1. CASE g = h
    BY <2>1
  <2>2. CASE g # h
    <3>1. common[On(g)] \subseteq serving[g].gives
      BY <2>2 DEF RowsInv, CommonGiven
    <3> QED BY <1>1, <2>2, <3>1
  <2> QED BY <2>1, <2>2
<1>3. MergesAlone'
  <2> SUFFICES ASSUME NEW g \in Handler \ {h}, Merging(g)
               PROVE  /\ login'[serving'[g].row].at # "new"
                      /\ login'[serving'[g].row].channel = On(g)'
                      /\ \A k \in Handler : Merging(k)' /\ On(k)' = On(g)' => k = g
                      /\ \A r \in saved' : r.channel = On(g)' /\ common'[On(g)'] # {}
                                           => r.id = serving'[g].row
    BY DEF MergesAlone, Merging
  <2>1. On(g)' = On(g) /\ serving'[g] = serving[g]
    BY <1>1 DEF Merging
  <2>2. /\ serving[g].row \in Login
        /\ login[serving[g].row].at # "new" /\ login[serving[g].row].channel = On(g)
    BY JobFields DEF Merging, RowsInv, MergesAlone
  <2>3. ASSUME NEW k \in Handler, Merging(k)', On(k)' = On(g)'
        PROVE  k = g
    <3>1. k # h /\ Merging(k)
      BY <2>3 DEF Merging
    <3>2. On(k) = On(g)
      BY <1>1, <2>1, <2>3, <3>1 DEF Merging
    <3> QED BY <3>1, <3>2 DEF RowsInv, MergesAlone
  <2> QED BY <2>1, <2>2, <2>3
<1> QED BY <1>2, <1>3 DEF RowsInv

\* A row is added where there was none that could be of the same account.
LEMMA AddedRow ==
  ASSUME LoginTypes, OnceInv, RowsInv, NEW new \in SavedType, saved' = saved \union {new},
         \A c \in Channel : common'[c] \subseteq common[c],
         common'[new.channel] \subseteq new.gives,
         common'[new.channel] # {} =>
           /\ \A r \in saved : r.channel # new.channel
  PROVE  OneRow' /\ \A r \in saved' : common'[r.channel] \subseteq r.gives
<1>1. \A r \in saved : r.channel \in Channel
  BY DEF LoginTypes, SavedType
<1>2. \A r \in saved' : common'[r.channel] \subseteq r.gives
  BY <1>1 DEF RowsInv, CommonGiven
<1>3. OneRow'
  <2> SUFFICES ASSUME NEW r1 \in saved', NEW r2 \in saved', r1.channel = r2.channel,
                      common'[r1.channel] # {}
               PROVE  r1 = r2
    BY DEF OneRow
  <2>1. CASE r1 = new \/ r2 = new
    BY <2>1
  <2>2. CASE r1 \in saved /\ r2 \in saved
    <3>1. common[r1.channel] # {}
      BY <1>1, <2>2
    <3> QED BY <2>2, <3>1 DEF RowsInv, OneRow
  <2> QED BY <2>1, <2>2
<1> QED BY <1>2, <1>3

\* A login nobody has consumed is claimed by nobody.
LEMMA PendingFree ==
  ASSUME LoginInv, NEW l \in Login, login[l].at = "pending"
  PROVE  login[l].saves = 0 /\ \A g \in Handler : ~Claims(g, l)
<1>1. login[l].saves \in Nat
  BY DEF LoginInv, LoginTypes, LoginType
<1> QED BY <1>1 DEF LoginInv, OnceInv, SavedOnce, ClaimsSound

\* Nothing is written: the rows are as sound as before.
LEMMA RowsStand ==
  ASSUME LoginInv, UNCHANGED saved, \A c \in Channel : common'[c] \subseteq common[c]
  PROVE  /\ \A r \in saved' : common'[r.channel] \subseteq r.gives
         /\ \A g \in Handler : Merging(g) =>
              \A r \in saved' : r.channel = On(g) /\ common'[On(g)] # {} => r.id = serving[g].row
         /\ OneRow'
         /\ \A r \in saved' : \E old \in saved : r.id = old.id /\ r.channel = old.channel
<1>1. \A r \in saved : r.channel \in Channel
  BY DEF LoginInv, LoginTypes, SavedType
<1>2. \A r \in saved' : common'[r.channel] \subseteq r.gives
  BY <1>1 DEF LoginInv, RowsInv, CommonGiven
<1>3. ASSUME NEW g \in Handler, Merging(g), NEW r \in saved', r.channel = On(g), common'[On(g)] # {}
      PROVE  r.id = serving[g].row
  BY <1>1, <1>3 DEF LoginInv, RowsInv, MergesAlone
<1>4. OneRow'
  BY <1>1 DEF LoginInv, RowsInv, OneRow
<1> QED BY <1>2, <1>3, <1>4

LEMMA CallBackSound ==
  ASSUME LoginInv, NEW h \in Handler, NEW l \in Login, NEW s, CallBack(h, l, s)
  PROVE  LoginInv'
<1>1. login[l].at = "pending" /\ serving[h].at = "idle" /\ UNCHANGED <<saved, common>>
  BY DEF CallBack, Pending, Idle
<1>2. CASE login' = Gone({l}) /\ UNCHANGED serving
  <2>1. Gone({l}) \in [Login -> LoginType] /\ MildLogin
    BY <1>1, <1>2, GoneMild
  <2>2. LoginTypes'
    BY <1>1, <1>2, <2>1 DEF LoginInv, LoginTypes
  <2> QED BY <1>1, <1>2, <2>1, <2>2, MildSound, RowsUntouched, ServingUntouched
<1>3. CASE login' = [login EXCEPT ![l] = Left(login[l], "consumed")]
           /\ Serve(h, Job(l, Path("trae", FALSE)))
  <2> DEFINE e == Left(login[l], "consumed")
             job == Job(l, Path("trae", FALSE))
  <2>1. e \in LoginType /\ e.at = "consumed" /\ e.channel = login[l].channel /\ e.saves = login[l].saves
    <3>1. login[l] \in LoginType
      BY DEF LoginInv, LoginTypes
    <3> QED BY <3>1, EntryEdits
  <2>2. job \in JobType /\ job.at = "asks" /\ job.on = l
    <3>1. Path("trae", FALSE) \in Seq(Stage)
      BY DEF Path, TraePath, Stage
    <3> QED BY <3>1, NewJob
  <2> HIDE DEF e, job
  <2>3. \A x \in Login : login'[x] = IF x = l THEN e ELSE login[x]
    BY <1>3 DEF LoginInv, LoginTypes, e
  <2>4. \A g \in Handler : serving'[g] = IF g = h THEN job ELSE serving[g]
    BY <1>3 DEF LoginInv, LoginTypes, Serve, job
  <2>5. LoginTypes'
    <3>1. login' \in [Login -> LoginType]
      BY <1>3, <2>1 DEF LoginInv, LoginTypes, e
    <3>2. serving' \in [Handler -> JobType]
      BY <1>3, <2>2 DEF LoginInv, LoginTypes, Serve, job
    <3> QED BY <1>1, <3>1, <3>2 DEF LoginInv, LoginTypes
  <2>6. login[l].saves = 0 /\ \A g \in Handler : ~Claims(g, l)
    BY <1>1, PendingFree
  <2>7. /\ \A r \in saved' : common'[r.channel] \subseteq r.gives
        /\ \A g \in Handler : Merging(g) =>
             \A r \in saved' : r.channel = On(g) /\ common'[On(g)] # {} => r.id = serving[g].row
        /\ OneRow'
        /\ \A r \in saved' : \E old \in saved : r.id = old.id /\ r.channel = old.channel
    BY <1>1, RowsStand
  <2>8. OnceInv'
    BY <1>1, <2>1, <2>2, <2>3, <2>4, <2>5, <2>6, <2>7, LandingOnce DEF LoginInv
  <2>9. \A x \in Login : login[x].at # "new" =>
          login'[x].at # "new" /\ login'[x].channel = login[x].channel
    BY <2>1, <2>3
  <2>10. RowsInv'
    BY <1>1, <2>2, <2>4, <2>5, <2>7, <2>9, LandingRows DEF LoginInv
  <2> QED BY <2>5, <2>8, <2>10 DEF LoginInv
<1> QED BY <1>2, <1>3 DEF CallBack

\* The answer comes for a login that has left its store, or is late.
LEMMA LateSound ==
  ASSUME LoginInv, NEW h \in Handler, Asked(h), Serve(h, Idle), UNCHANGED <<saved, common>>,
         login' = [Noted(h) EXCEPT ![serving[h].on] =
                     IF Noted(h)[serving[h].on].at = "pending"
                     THEN Left(Noted(h)[serving[h].on], "gone") ELSE Noted(h)[serving[h].on]]
  PROVE  LoginInv'
<1> DEFINE l == serving[h].on
           noted == Noted(h)
           e == IF noted[l].at = "pending" THEN Left(noted[l], "gone") ELSE noted[l]
<1>1. /\ noted \in [Login -> LoginType] /\ l \in Login
      /\ \A x \in Login : /\ noted[x].at = login[x].at /\ noted[x].channel = login[x].channel
                          /\ noted[x].saves = login[x].saves
  BY NotedKeeps
<1>2. login' = [noted EXCEPT ![l] = e]
  OBVIOUS
<1> HIDE DEF noted, l
<1>3. /\ Left(noted[l], "gone") \in LoginType /\ Left(noted[l], "gone").at = "gone"
      /\ Left(noted[l], "gone").channel = noted[l].channel
      /\ Left(noted[l], "gone").saves = noted[l].saves
  BY <1>1, EntryEdits
<1>4. /\ e \in LoginType /\ e.channel = login[l].channel /\ e.saves = login[l].saves
      /\ e.at = login[l].at \/ (e.at = "gone" /\ login[l].at = "pending")
  BY <1>1, <1>3
<1> HIDE DEF e
<1>5. \A x \in Login : login'[x] = IF x = l THEN e ELSE noted[x]
  BY <1>1, <1>2
<1>6. login' \in [Login -> LoginType]
  BY <1>1, <1>2, <1>4
<1>7. MildLogin
  <2>1. \A x \in Login : login[x].saves \in Nat
    BY DEF LoginInv, LoginTypes, LoginType
  <2>2. \A x \in Login : login[x].at = "new" => login[x].saves = 0
    BY <2>1 DEF LoginInv, OnceInv, SavedOnce
  <2> QED BY <1>1, <1>4, <1>5, <2>2 DEF MildLogin, LoginInv, OnceInv, LoginsStarted
<1>8. MildServing /\ serving' \in [Handler -> JobType]
  BY IdleJob, ServeMild DEF LoginInv
<1>9. LoginTypes'
  BY <1>6, <1>8 DEF LoginInv, LoginTypes
<1> QED BY <1>7, <1>8, <1>9, MildSound, RowsUntouched

\* The answer consumes its login.
LEMMA TakenSound ==
  ASSUME LoginInv, NEW h \in Handler, NEW gives \in SUBSET Alias, Complete(h, gives),
         \/ login[serving[h].on].channel = "trae" \/ Consumes(serving[h].on)
  PROVE  LoginInv'
<1> DEFINE l == serving[h].on
           c == login[l].channel
           noted == Noted(h)
           plain == ~HasIdentity(c) \/ gives = {}
           e == Consumed(noted[l], plain)
           queued == [at |-> "queues", on |-> l, gives |-> gives]
           row == SavedRow(l, {})
<1>1. /\ Asked(h) /\ (~HasIdentity(c) => gives = {})
      /\ login' = [noted EXCEPT ![l] = e]
      /\ saved' = IF HasIdentity(c) /\ plain THEN saved \union {row} ELSE saved
      /\ common' = IF HasIdentity(c) THEN [common EXCEPT ![c] = common[c] \intersect gives] ELSE common
      /\ Serve(h, IF plain THEN Idle ELSE queued)
  BY DEF Complete
<1>2. /\ noted \in [Login -> LoginType] /\ l \in Login
      /\ \A x \in Login : /\ noted[x].at = login[x].at /\ noted[x].channel = login[x].channel
                          /\ noted[x].saves = login[x].saves
  BY <1>1, NotedKeeps
<1>3. login[l].at # "new" /\ c \in Channel
  <2>1. serving[h].at # "idle"
    BY <1>1 DEF Asked
  <2> QED BY <1>2, <2>1 DEF LoginInv, OnceInv, LoginsStarted
<1>4. login[l].saves = 0 /\ \A g \in Handler : Claims(g, l) => g = h
  <2>1. CASE c = "trae"
    <3>1. Claims(h, l)
      BY <1>1, <2>1 DEF Claims, Asked
    <3> QED BY <1>2, <3>1 DEF LoginInv, OnceInv, ClaimsSound
  <2>2. CASE Consumes(l)
    BY <1>2, <2>2, PendingFree DEF Consumes
  <2> QED BY <2>1, <2>2
<1>5. plain \in BOOLEAN
  BY DEF HasIdentity
<1>6. /\ e \in LoginType /\ e.at = "consumed" /\ e.channel = c
      /\ e.saves = IF plain THEN 1 ELSE 0
  <2>1. noted[l] \in LoginType /\ noted[l].channel = c /\ noted[l].saves = 0
    BY <1>2, <1>4
  <2> HIDE DEF noted, plain, l, c
  <2> QED BY <1>5, <2>1, ConsumedEntry
<1>7. /\ queued \in JobType /\ queued.at = "queues" /\ queued.on = l /\ queued.gives = gives
  BY <1>2 DEF JobType
<1>8. /\ row \in SavedType /\ row.id = l /\ row.channel = c /\ row.gives = {}
  BY <1>2, <1>3 DEF SavedType, SavedRow
<1> HIDE DEF noted, plain, e, queued, row, l
<1>9. \A x \in Login : login'[x] = IF x = l THEN e ELSE noted[x]
  BY <1>1, <1>2
<1>10. \A g \in Handler : serving'[g] = IF g = h THEN IF plain THEN Idle ELSE queued ELSE serving[g]
  BY <1>1 DEF Serve, LoginInv, LoginTypes
<1>11. /\ \A d \in Channel : common'[d] = IF HasIdentity(c) /\ d = c THEN common[c] \intersect gives
                                          ELSE common[d]
       /\ common' \in [Channel -> SUBSET Alias]
  BY <1>1, <1>3 DEF LoginInv, LoginTypes
<1>12. LoginTypes'
  <2>1. login' \in [Login -> LoginType]
    BY <1>1, <1>2, <1>6
  <2>2. serving' \in [Handler -> JobType]
    BY <1>1, <1>7, IdleJob DEF Serve, LoginInv, LoginTypes
  <2>3. saved' \subseteq SavedType
    BY <1>1, <1>8 DEF LoginInv, LoginTypes
  <2> QED BY <1>11, <2>1, <2>2, <2>3 DEF LoginTypes
<1>13. \A d \in Channel : common'[d] \subseteq common[d]
  BY <1>11
<1>14. /\ \A r \in saved' : common'[r.channel] \subseteq r.gives
       /\ \A g \in Handler : Merging(g) =>
            \A r \in saved' : r.channel = On(g) /\ common'[On(g)] # {} => r.id = serving[g].row
       /\ OneRow'
       /\ \A r \in saved' : \/ r.id = l /\ r.channel = c
                            \/ \E old \in saved : r.id = old.id /\ r.channel = old.channel
  <2>1. CASE saved' = saved
    BY <1>13, <2>1, RowsStand
  <2>2. CASE HasIdentity(c) /\ plain
    <3>1. saved' = saved \union {row} /\ common'[c] = {}
      BY <1>1, <1>3, <1>11, <2>2 DEF plain
    <3>2. OneRow' /\ \A r \in saved' : common'[r.channel] \subseteq r.gives
      BY <1>8, <1>13, <3>1, AddedRow DEF LoginInv
    <3>3. ASSUME NEW g \in Handler, Merging(g), NEW r \in saved', r.channel = On(g), common'[On(g)] # {}
          PROVE  r.id = serving[g].row
      <4>1. r \in saved
        BY <1>8, <3>1, <3>3
      <4>2. common[On(g)] # {}
        <5>1. r.channel \in Channel
          BY <4>1 DEF LoginInv, LoginTypes, SavedType
        <5> QED BY <1>13, <3>3, <5>1
      <4> QED BY <3>3, <4>1, <4>2 DEF LoginInv, RowsInv, MergesAlone
    <3> QED BY <1>8, <3>1, <3>2, <3>3
  <2> QED BY <1>1, <2>1, <2>2
<1>15. \A x \in Login : login[x].at # "new" =>
         login'[x].at # "new" /\ login'[x].channel = login[x].channel
  BY <1>2, <1>6, <1>9
<1>16. OnceInv'
  <2>1. serving'[h].at = "idle" \/ (serving'[h].on = l /\ login'[l].saves = 0)
    BY <1>2, <1>6, <1>7, <1>9, <1>10, IdleJob
  <2>2. /\ login'[l].at = "consumed" /\ login'[l].channel = c /\ login'[l].saves \in {0, 1}
    BY <1>2, <1>6, <1>9
  <2>3. \A x \in Login \ {l} : /\ login'[x].at = login[x].at /\ login'[x].channel = login[x].channel
                               /\ login'[x].saves = login[x].saves
    BY <1>2, <1>9
  <2> QED BY <1>2, <1>3, <1>4, <1>10, <1>12, <1>14, <2>1, <2>2, <2>3, LandingOnce DEF LoginInv
<1>17. RowsInv'
  <2>1. serving'[h].at # "merges"
    BY <1>7, <1>10, IdleJob
  <2>2. ASSUME serving'[h].at = "queues"
        PROVE  common'[On(h)'] \subseteq serving'[h].gives
    <3>1. serving'[h] = queued /\ ~plain
      BY <1>10, <2>2, IdleJob
    <3>2. On(h)' = c
      BY <1>2, <1>6, <1>7, <1>9, <3>1 DEF On
    <3> QED BY <1>3, <1>7, <1>11, <3>1, <3>2 DEF plain
  <2> QED BY <1>10, <1>12, <1>13, <1>14, <1>15, <2>1, <2>2, LandingRows DEF LoginInv
<1> QED BY <1>12, <1>16, <1>17 DEF LoginInv

LEMMA CompleteSound ==
  ASSUME LoginInv, NEW h \in Handler, NEW gives \in SUBSET Alias, Complete(h, gives)
  PROVE  LoginInv'
<1>1. CASE login[serving[h].on].channel = "trae" \/ Consumes(serving[h].on)
  BY <1>1, TakenSound
<1>2. CASE ~(login[serving[h].on].channel = "trae" \/ Consumes(serving[h].on))
  <2>1. /\ Asked(h) /\ Serve(h, Idle) /\ UNCHANGED <<saved, common>>
        /\ login' = [Noted(h) EXCEPT ![serving[h].on] =
                       IF Noted(h)[serving[h].on].at = "pending"
                       THEN Left(Noted(h)[serving[h].on], "gone") ELSE Noted(h)[serving[h].on]]
    BY <1>2 DEF Complete
  <2> QED BY <2>1, LateSound
<1> QED BY <1>1, <1>2

\* What a handler that queues or merges knows, and what its save leaves of the login.
LEMMA SaveKeeps ==
  ASSUME LoginInv, NEW h \in Handler, serving[h].at \in {"queues", "merges"}
  PROVE  LET l == serving[h].on IN
         /\ l \in Login /\ login[l].at = "consumed" /\ login[l].saves = 0
         /\ On(h) = login[l].channel /\ On(h) \in Channel
         /\ \A g \in Handler : Claims(g, l) => g = h
         /\ serving[h].gives \in SUBSET Alias /\ common[On(h)] \subseteq serving[h].gives
         /\ SavedBy(h) \in [Login -> LoginType]
         /\ \A x \in Login : /\ SavedBy(h)[x].at = login[x].at
                             /\ SavedBy(h)[x].channel = login[x].channel
                             /\ SavedBy(h)[x].saves = IF x = l THEN 1 ELSE login[x].saves
<1> DEFINE l == serving[h].on
           e == [login[l] EXCEPT !.saves = login[l].saves + 1]
<1>1. l \in Login /\ serving[h].gives \in SUBSET Alias
  BY JobFields DEF LoginInv
<1>2. login[l].at = "consumed" /\ login[l].saves = 0 /\ \A g \in Handler : Claims(g, l) => g = h
  <2>1. Claims(h, l)
    BY DEF Claims
  <2> QED BY <1>1, <2>1 DEF LoginInv, OnceInv, ClaimsSound
<1>3. On(h) = login[l].channel /\ On(h) \in Channel
  BY <1>1, <1>2 DEF On, LoginInv, OnceInv, LoginsStarted
<1>4. common[On(h)] \subseteq serving[h].gives
  BY DEF LoginInv, RowsInv, CommonGiven
<1>5. login[l] \in LoginType
  BY <1>1 DEF LoginInv, LoginTypes
<1>6. e = [login[l] EXCEPT !.saves = 1]
  BY <1>2
<1>7. SavedBy(h) = [login EXCEPT ![l] = e]
  BY DEF SavedBy
<1> HIDE DEF e, l
<1>8. e \in LoginType /\ e.at = login[l].at /\ e.channel = login[l].channel /\ e.saves = 1
  BY <1>5, <1>6 DEF LoginType
<1>9. SavedBy(h) \in [Login -> LoginType] /\ \A x \in Login : SavedBy(h)[x] = IF x = l THEN e ELSE login[x]
  BY <1>1, <1>7, <1>8 DEF LoginInv, LoginTypes
<1> QED BY <1>1, <1>2, <1>3, <1>4, <1>8, <1>9 DEF l

\* A handler lands its login, and the rows are sound.
LEMMA SavedSound ==
  ASSUME LoginInv, NEW h \in Handler, serving[h].at \in {"queues", "merges"},
         login' = SavedBy(h), Serve(h, Idle), common' = common,
         saved' \subseteq SavedType,
         \A r \in saved' : \/ r.id = serving[h].on /\ r.channel = On(h)
                           \/ \E old \in saved : r.id = old.id /\ r.channel = old.channel,
         \A r \in saved' : common[r.channel] \subseteq r.gives,
         \A g \in Handler \ {h} : Merging(g) =>
           \A r \in saved' : r.channel = On(g) /\ common[On(g)] # {} => r.id = serving[g].row,
         OneRow'
  PROVE  LoginInv'
<1> DEFINE l == serving[h].on
<1>1. /\ l \in Login /\ login[l].at = "consumed" /\ login[l].saves = 0
      /\ On(h) = login[l].channel /\ On(h) \in Channel
      /\ \A g \in Handler : Claims(g, l) => g = h
      /\ login' \in [Login -> LoginType]
      /\ \A x \in Login : /\ login'[x].at = login[x].at /\ login'[x].channel = login[x].channel
                          /\ login'[x].saves = IF x = l THEN 1 ELSE login[x].saves
  BY SaveKeeps
<1> HIDE DEF l
<1>2. \A g \in Handler : serving'[g] = IF g = h THEN Idle ELSE serving[g]
  BY DEF Serve, LoginInv, LoginTypes
<1>3. LoginTypes'
  <2>1. serving' \in [Handler -> JobType]
    BY IdleJob DEF Serve, LoginInv, LoginTypes
  <2> QED BY <1>1, <2>1 DEF LoginInv, LoginTypes
<1>4. OnceInv'
  <2>1. serving'[h].at = "idle"
    BY <1>2, IdleJob
  <2>2. /\ login'[l].at = "consumed" /\ login'[l].channel = login[l].channel
        /\ login'[l].saves \in {0, 1} /\ login[l].at # "new"
    BY <1>1
  <2>3. \A x \in Login \ {l} : /\ login'[x].at = login[x].at /\ login'[x].channel = login[x].channel
                               /\ login'[x].saves = login[x].saves
    BY <1>1
  <2>4. \A r \in saved' : \/ r.id = l /\ r.channel = login[l].channel
                          \/ \E old \in saved : r.id = old.id /\ r.channel = old.channel
    BY <1>1 DEF l
  <2>5. \A g \in Handler \ {h} : serving'[g] = serving[g]
    BY <1>2
  <2> QED BY <1>1, <1>3, <2>1, <2>2, <2>3, <2>4, <2>5, LandingOnce DEF LoginInv
<1>5. RowsInv'
  <2>1. serving'[h].at = "idle"
    BY <1>2, IdleJob
  <2>2. \A x \in Login : login[x].at # "new" =>
          login'[x].at # "new" /\ login'[x].channel = login[x].channel
    BY <1>1
  <2> QED BY <1>2, <1>3, <2>1, <2>2, LandingRows DEF LoginInv
<1> QED BY <1>3, <1>4, <1>5 DEF LoginInv

LEMMA NewRow ==
  ASSUME LoginInv, NEW h \in Handler, serving[h].at \in {"queues", "merges"}
  PROVE  LET row == SavedRow(serving[h].on, serving[h].gives) IN
         /\ Added(h) = saved \union {row} /\ row \in SavedType
         /\ row.id = serving[h].on /\ row.channel = On(h) /\ row.gives = serving[h].gives
<1>1. /\ serving[h].on \in Login /\ serving[h].gives \in SUBSET Alias
      /\ On(h) = login[serving[h].on].channel /\ On(h) \in Channel
  BY SaveKeeps
<1> QED BY <1>1 DEF Added, SavedRow, SavedType

LEMMA AddRowSound ==
  ASSUME LoginInv, NEW h \in Handler, AddRow(h)
  PROVE  LoginInv'
<1> DEFINE row == SavedRow(serving[h].on, serving[h].gives)
<1>1. /\ serving[h].at \in {"queues", "merges"} /\ LockFree(login[serving[h].on].channel)
      /\ Matches(h) = {} /\ saved' = Added(h) /\ login' = SavedBy(h) /\ Serve(h, Idle)
      /\ common' = common
  BY DEF AddRow
<1>2. /\ On(h) = login[serving[h].on].channel /\ On(h) \in Channel
      /\ common[On(h)] \subseteq serving[h].gives
  BY <1>1, SaveKeeps
<1>3. /\ Added(h) = saved \union {row} /\ row \in SavedType
      /\ row.id = serving[h].on /\ row.channel = On(h) /\ row.gives = serving[h].gives
  BY <1>1, NewRow
<1> HIDE DEF row
<1>4. ASSUME common[On(h)] # {}, NEW r \in saved
      PROVE  r.channel # On(h)
  <2>1. common[r.channel] \subseteq r.gives
    BY DEF LoginInv, RowsInv, CommonGiven
  <2> QED BY <1>1, <1>2, <1>4, <2>1 DEF Matches
<1>5. OneRow' /\ \A r \in saved' : common[r.channel] \subseteq r.gives
  <2>1. saved' = saved \union {row}
    BY <1>1, <1>3
  <2>2. /\ common'[row.channel] \subseteq row.gives
        /\ common'[row.channel] # {} => \A r \in saved : r.channel # row.channel
    BY <1>1, <1>2, <1>3, <1>4
  <2>3. \A c \in Channel : common'[c] \subseteq common[c]
    BY <1>1
  <2>4. OneRow' /\ \A r \in saved' : common'[r.channel] \subseteq r.gives
    BY <1>3, <2>1, <2>2, <2>3, AddedRow DEF LoginInv
  <2> QED BY <1>1, <2>4
<1>6. ASSUME NEW g \in Handler \ {h}, Merging(g), NEW r \in saved', r.channel = On(g), common[On(g)] # {}
      PROVE  r.id = serving[g].row
  <2>1. On(g) # On(h)
    BY <1>1, <1>2, <1>6 DEF LockFree, Merging, On
  <2>2. r \in saved
    BY <1>1, <1>3, <1>6, <2>1
  <2> QED BY <1>6, <2>2 DEF LoginInv, RowsInv, MergesAlone
<1>7. saved' \subseteq SavedType
  BY <1>1, <1>3 DEF LoginInv, LoginTypes
<1>8. \A r \in saved' : \/ r.id = serving[h].on /\ r.channel = On(h)
                        \/ \E old \in saved : r.id = old.id /\ r.channel = old.channel
  BY <1>1, <1>3
<1> QED BY <1>1, <1>5, <1>6, <1>7, <1>8, SavedSound

LEMMA MergeRowSound ==
  ASSUME LoginInv, NEW h \in Handler, MergeRow(h)
  PROVE  LoginInv'
<1> DEFINE row == SavedRow(serving[h].on, serving[h].gives)
           found == {r \in saved : r.id = serving[h].row}
           merged == {IF r \in found THEN [r EXCEPT !.gives = serving[h].gives] ELSE r : r \in saved}
<1>1. /\ serving[h].at \in {"queues", "merges"} /\ Merging(h)
      /\ saved' = IF found = {} THEN Added(h) ELSE merged
      /\ login' = SavedBy(h) /\ Serve(h, Idle) /\ common' = common
  BY DEF MergeRow, Merging
<1>2. /\ On(h) = login[serving[h].on].channel /\ On(h) \in Channel
      /\ common[On(h)] \subseteq serving[h].gives /\ serving[h].gives \in SUBSET Alias
  BY <1>1, SaveKeeps
<1>3. /\ Added(h) = saved \union {row} /\ row \in SavedType
      /\ row.id = serving[h].on /\ row.channel = On(h) /\ row.gives = serving[h].gives
  BY <1>1, NewRow
<1>4. /\ login[serving[h].row].channel = On(h)
      /\ \A g \in Handler : Merging(g) /\ On(g) = On(h) => g = h
      /\ \A r \in saved : r.channel = On(h) /\ common[On(h)] # {} => r.id = serving[h].row
  BY <1>1 DEF LoginInv, RowsInv, MergesAlone
<1>5. \A r \in saved : r \in SavedType /\ login[r.id].channel = r.channel /\ common[r.channel] \subseteq r.gives
  BY DEF LoginInv, LoginTypes, OnceInv, LoginsStarted, RowsInv, CommonGiven
<1> HIDE DEF row
<1>6. CASE found = {}
  <2>1. saved' = saved \union {row}
    BY <1>1, <1>3, <1>6
  <2>2. common[On(h)] # {} => \A r \in saved : r.channel # On(h)
    BY <1>4, <1>6
  <2>3. OneRow' /\ \A r \in saved' : common[r.channel] \subseteq r.gives
    <3>1. /\ common'[row.channel] \subseteq row.gives
          /\ common'[row.channel] # {} => \A r \in saved : r.channel # row.channel
      BY <1>1, <1>2, <1>3, <2>2
    <3>2. \A c \in Channel : common'[c] \subseteq common[c]
      BY <1>1
    <3>3. OneRow' /\ \A r \in saved' : common'[r.channel] \subseteq r.gives
      BY <1>3, <2>1, <3>1, <3>2, AddedRow DEF LoginInv
    <3> QED BY <1>1, <3>3
  <2>4. ASSUME NEW g \in Handler \ {h}, Merging(g), NEW r \in saved', r.channel = On(g), common[On(g)] # {}
        PROVE  r.id = serving[g].row
    <3>1. On(g) # On(h)
      BY <1>4, <2>4
    <3>2. r \in saved
      BY <1>3, <2>1, <2>4, <3>1
    <3> QED BY <2>4, <3>2 DEF LoginInv, RowsInv, MergesAlone
  <2>5. saved' \subseteq SavedType
    BY <1>3, <2>1 DEF LoginInv, LoginTypes
  <2>6. \A r \in saved' : \/ r.id = serving[h].on /\ r.channel = On(h)
                          \/ \E old \in saved : r.id = old.id /\ r.channel = old.channel
    BY <1>3, <2>1
  <2> QED BY <1>1, <2>3, <2>4, <2>5, <2>6, SavedSound
<1>7. CASE found # {}
  <2>1. saved' = merged
    BY <1>1, <1>7
  <2>2. ASSUME NEW r \in saved
        PROVE  LET new == IF r \in found THEN [r EXCEPT !.gives = serving[h].gives] ELSE r IN
               /\ new \in SavedType /\ new.id = r.id /\ new.channel = r.channel
               /\ common[new.channel] \subseteq new.gives
    <3>1. CASE r \in found
      <4> DEFINE new == [r EXCEPT !.gives = serving[h].gives]
      <4>1. new \in SavedType /\ new.id = r.id /\ new.channel = r.channel /\ new.gives = serving[h].gives
        BY <1>2, <1>5 DEF SavedType
      <4>2. r.channel = On(h)
        BY <1>4, <1>5, <3>1
      <4> HIDE DEF new
      <4>3. common[new.channel] \subseteq new.gives
        BY <1>2, <4>1, <4>2
      <4> QED BY <3>1, <4>1, <4>3 DEF new
    <3>2. CASE r \notin found
      BY <1>5, <3>2
    <3> QED BY <3>1, <3>2
  <2>3. ASSUME NEW n \in saved'
        PROVE  /\ n \in SavedType /\ common[n.channel] \subseteq n.gives
               /\ \E old \in saved :
                    /\ n = IF old \in found THEN [old EXCEPT !.gives = serving[h].gives] ELSE old
                    /\ n.id = old.id /\ n.channel = old.channel
    <3>1. PICK old \in saved :
            n = IF old \in found THEN [old EXCEPT !.gives = serving[h].gives] ELSE old
      BY <2>1
    <3> HIDE DEF found
    <3> QED BY <2>2, <3>1
  <2> HIDE DEF merged, found
  <2>4. OneRow'
    <3> SUFFICES ASSUME NEW n1 \in saved', NEW n2 \in saved', n1.channel = n2.channel,
                        common'[n1.channel] # {}
                 PROVE  n1 = n2
      BY DEF OneRow
    <3>1. PICK r1 \in saved :
            /\ n1 = IF r1 \in found THEN [r1 EXCEPT !.gives = serving[h].gives] ELSE r1
            /\ n1.id = r1.id /\ n1.channel = r1.channel
      BY <2>3
    <3>2. PICK r2 \in saved :
            /\ n2 = IF r2 \in found THEN [r2 EXCEPT !.gives = serving[h].gives] ELSE r2
            /\ n2.id = r2.id /\ n2.channel = r2.channel
      BY <2>3
    <3>3. r1 = r2
      BY <1>1, <3>1, <3>2 DEF LoginInv, RowsInv, OneRow
    <3> QED BY <3>1, <3>2, <3>3
  <2>5. ASSUME NEW g \in Handler \ {h}, Merging(g), NEW r \in saved', r.channel = On(g), common[On(g)] # {}
        PROVE  r.id = serving[g].row
    <3>1. PICK old \in saved : r.id = old.id /\ r.channel = old.channel
      BY <2>3
    <3> QED BY <2>5, <3>1 DEF LoginInv, RowsInv, MergesAlone
  <2> QED BY <1>1, <2>3, <2>4, <2>5, SavedSound
<1> QED BY <1>6, <1>7

\* The lock of the channel is free: the merge that begins is alone there.
LEMMA FindRowSound ==
  ASSUME LoginInv, NEW h \in Handler, NEW r \in saved, FindRow(h, r)
  PROVE  LoginInv'
<1> DEFINE l == serving[h].on
           job == [at |-> "merges", on |-> l, gives |-> serving[h].gives, row |-> r.id]
<1>1. /\ serving[h].at = "queues" /\ LockFree(login[l].channel)
      /\ r \in Matches(h) /\ Serve(h, job) /\ UNCHANGED <<login, saved, common>>
  BY DEF FindRow
<1>2. /\ l \in Login /\ login[l].at = "consumed" /\ login[l].saves = 0
      /\ On(h) = login[l].channel /\ On(h) \in Channel
      /\ \A g \in Handler : Claims(g, l) => g = h
      /\ serving[h].gives \in SUBSET Alias /\ common[On(h)] \subseteq serving[h].gives
  BY <1>1, SaveKeeps
<1>3. r.id \in Login /\ login[r.id].at # "new" /\ login[r.id].channel = On(h) /\ r.channel = On(h)
  <2>1. r.channel = On(h)
    BY <1>1, <1>2 DEF Matches
  <2> QED BY <2>1 DEF LoginInv, OnceInv, LoginsStarted, LoginTypes, SavedType
<1>4. /\ job \in JobType /\ job.at = "merges" /\ job.on = l /\ job.gives = serving[h].gives
      /\ job.row = r.id
  BY <1>2, <1>3 DEF JobType
<1> HIDE DEF job, l
<1>5. \A g \in Handler : serving'[g] = IF g = h THEN job ELSE serving[g]
  BY <1>1 DEF Serve, LoginInv, LoginTypes
<1>6. LoginTypes'
  <2>1. serving' \in [Handler -> JobType]
    BY <1>1, <1>4 DEF Serve, LoginInv, LoginTypes
  <2> QED BY <1>1, <2>1 DEF LoginInv, LoginTypes
<1>7. OnceInv'
  <2>1. serving'[h].at = "idle" \/ (serving'[h].on = l /\ login'[l].saves = 0)
    BY <1>1, <1>2, <1>4, <1>5
  <2>2. \A q \in saved' : \/ q.id = l /\ q.channel = login[l].channel
                          \/ \E old \in saved : q.id = old.id /\ q.channel = old.channel
    BY <1>1
  <2> QED BY <1>1, <1>2, <1>5, <1>6, <2>1, <2>2, LandingOnce DEF LoginInv
<1>8. \A g \in Handler : On(g)' = IF g = h THEN On(h) ELSE On(g)
  BY <1>1, <1>2, <1>4, <1>5 DEF On
<1>9. \A g \in Handler : Merging(g)' <=> g = h \/ Merging(g)
  BY <1>4, <1>5 DEF Merging
<1>10. \A g \in Handler : Merging(g) => On(g) # On(h)
  BY <1>1, <1>2 DEF LockFree, Merging, On, l
<1>11. CommonGiven'
  <2>1. ASSUME NEW g \in Handler, serving'[g].at \in {"queues", "merges"}
        PROVE  common'[On(g)'] \subseteq serving'[g].gives
    <3>1. CASE g = h
      BY <1>1, <1>2, <1>4, <1>5, <1>8, <3>1
    <3>2. CASE g # h
      BY <1>1, <1>5, <1>8, <2>1, <3>2 DEF LoginInv, RowsInv, CommonGiven
    <3> QED BY <3>1, <3>2
  <2> QED BY <1>1, <2>1 DEF LoginInv, RowsInv, CommonGiven
<1>12. MergesAlone'
  <2> SUFFICES ASSUME NEW g \in Handler, Merging(g)'
               PROVE  /\ login'[serving'[g].row].at # "new"
                      /\ login'[serving'[g].row].channel = On(g)'
                      /\ \A k \in Handler : Merging(k)' /\ On(k)' = On(g)' => k = g
                      /\ \A q \in saved' : q.channel = On(g)' /\ common'[On(g)'] # {}
                                           => q.id = serving'[g].row
    BY DEF MergesAlone
  <2>1. CASE g = h
    <3>1. \A q \in saved : q.channel = On(h) /\ common[On(h)] # {} => q = r
      BY <1>3 DEF LoginInv, RowsInv, OneRow
    <3>2. \A k \in Handler : Merging(k)' /\ On(k)' = On(g)' => k = g
      BY <1>8, <1>9, <1>10, <2>1
    <3> QED BY <1>1, <1>3, <1>4, <1>5, <1>8, <2>1, <3>1, <3>2
  <2>2. CASE g # h
    <3>1. /\ Merging(g) /\ serving'[g] = serving[g] /\ On(g)' = On(g)
      BY <1>5, <1>8, <1>9, <2>2
    <3>2. \A k \in Handler : Merging(k)' /\ On(k)' = On(g)' => k = g
      BY <1>8, <1>9, <1>10, <3>1 DEF LoginInv, RowsInv, MergesAlone
    <3> QED BY <1>1, <3>1, <3>2 DEF LoginInv, RowsInv, MergesAlone
  <2> QED BY <2>1, <2>2
<1>13. OneRow'
  BY <1>1 DEF LoginInv, RowsInv, OneRow
<1> QED BY <1>6, <1>7, <1>11, <1>12, <1>13 DEF LoginInv, RowsInv

LEMMA LoginsAsTheyWere ==
  ASSUME LoginInv, UNCHANGED login
  PROVE  MildLogin
<1>1. \A x \in Login : login[x].saves \in Nat
  BY DEF LoginInv, LoginTypes, LoginType
<1> QED BY <1>1 DEF MildLogin, LoginInv, OnceInv, SavedOnce

LEMMA EditedRow ==
  ASSUME NEW r \in SavedType, NEW mark \in BOOLEAN
  PROVE  [r EXCEPT !.edited = mark] \in SavedType /\ SameRow([r EXCEPT !.edited = mark], r)
BY DEF SavedType, SameRow

LEMMA OthersEditSound ==
  ASSUME LoginInv, NEW r \in saved, OthersEdit(r)
  PROVE  LoginInv'
<1> DEFINE new == [r EXCEPT !.edited = ~r.edited]
<1>1. saved' = (saved \ {r}) \union {new} /\ UNCHANGED <<login, serving, common>>
  BY DEF OthersEdit
<1>2. new \in SavedType /\ SameRow(new, r)
  <2>1. r \in SavedType /\ (~r.edited) \in BOOLEAN
    BY DEF LoginInv, LoginTypes
  <2> QED BY <2>1, EditedRow
<1> HIDE DEF new
<1>3. RowsEdited
  <2> SUFFICES ASSUME NEW r1 \in saved', NEW r2 \in saved'
               PROVE  \E old1, old2 \in saved :
                        SameRow(r1, old1) /\ SameRow(r2, old2) /\ (old1 = old2 => r1 = r2)
    BY DEF RowsEdited
  <2> DEFINE Old(n) == IF n = new THEN r ELSE n
  <2>1. \A n \in saved' : Old(n) \in saved /\ SameRow(n, Old(n))
    BY <1>1, <1>2 DEF SameRow
  <2>2. Old(r1) = Old(r2) => r1 = r2
    BY <1>1
  <2> HIDE DEF Old
  <2> QED BY <2>1, <2>2
<1>4. LoginTypes'
  BY <1>1, <1>2 DEF LoginInv, LoginTypes
<1> QED BY <1>1, <1>3, <1>4, LoginsAsTheyWere, MildSound, ServingUntouched

LEMMA DeleteRowSound ==
  ASSUME LoginInv, NEW r \in saved, DeleteRow(r)
  PROVE  LoginInv'
<1>1. saved' = saved \ {r} /\ UNCHANGED <<login, serving, common>>
  BY DEF DeleteRow
<1>2. RowsEdited
  BY <1>1 DEF RowsEdited, SameRow
<1>3. LoginTypes'
  BY <1>1 DEF LoginInv, LoginTypes
<1> QED BY <1>1, <1>2, <1>3, LoginsAsTheyWere, MildSound, ServingUntouched

LEMMA LostSound ==
  ASSUME LoginInv, LoginsLost
  PROVE  LoginInv'
<1> DEFINE ls == {l \in Login : login[l].at = "pending"}
           Freed(r) == [r EXCEPT !.edited = FALSE]
<1>1. /\ login' = Gone(ls) /\ serving' = [h \in Handler |-> Idle]
      /\ saved' = {Freed(r) : r \in saved} /\ common' = common
  BY DEF LoginsLost
<1>2. Gone(ls) \in [Login -> LoginType] /\ MildLogin
  BY <1>1, GoneMild
<1>3. MildServing /\ serving' \in [Handler -> JobType]
  BY <1>1, IdleJob DEF MildServing
<1>4. \A r \in saved : Freed(r) \in SavedType /\ SameRow(Freed(r), r)
  BY EditedRow DEF LoginInv, LoginTypes
<1> HIDE DEF Freed, ls
<1>5. RowsEdited
  BY <1>1, <1>4 DEF RowsEdited
<1>6. LoginTypes'
  BY <1>1, <1>2, <1>3, <1>4 DEF LoginInv, LoginTypes
<1> QED BY <1>1, <1>2, <1>3, <1>5, <1>6, MildSound

LEMMA LoginsStepInv ==
  ASSUME LoginInv, NEW c \in Channel, LoginsNext(c)
  PROVE  LoginInv'
<1>1. CASE \E s \in Starters[c] : Start(c, s)
  BY <1>1, StartSoundly
<1>2. CASE \E l \in Login : Grant(l)
  BY <1>2, GrantSound
<1>3. CASE \E l \in Login, s \in Starter : Cancel(l, s) \/ PasteSecret(l, s)
  BY <1>3, CancelSound, PasteSound
<1>4. CASE \E h \in Handler, l \in Login, s \in Starter :
             CallBack(h, l, s) \/ \E pasted \in BOOLEAN : AskLogin(h, l, s, pasted)
  BY <1>4, CallBackSound, AskSound
<1>5. CASE \E h \in Handler : Unready(h) \/ Proceed(h) \/ AddRow(h) \/ MergeRow(h)
  BY <1>5, UnreadySound, ProceedSound, AddRowSound, MergeRowSound
<1>6. CASE \E h \in Handler, gives \in SUBSET Alias : Complete(h, gives)
  BY <1>6, CompleteSound
<1>7. CASE \E h \in Handler, r \in saved : FindRow(h, r)
  BY <1>7, FindRowSound
<1>8. CASE \E r \in saved : OthersEdit(r) \/ DeleteRow(r)
  BY <1>8, OthersEditSound, DeleteRowSound
<1> QED BY <1>1, <1>2, <1>3, <1>4, <1>5, <1>6, <1>7, <1>8, AgeSound, LostSound DEF LoginsNext

LEMMA LoginsAlone ==
  ASSUME LoginInv, UNCHANGED loginVars
  PROVE  LoginInv'
<1>1. UNCHANGED <<login, serving, saved, common>>
  BY DEF loginVars
<1>2. LoginTypes'
  BY <1>1 DEF LoginInv, LoginTypes
<1> QED BY <1>1, <1>2, LoginsAsTheyWere, MildSound, RowsUntouched, ServingUntouched

LEMMA LoginStep ==
  ASSUME LoginInv, [DoorNext]_doorVars
  PROVE  LoginInv'
<1>1. CASE scene \in Channel /\ LoginsNext(scene)
  BY <1>1, LoginsStepInv
<1>2. CASE UNCHANGED loginVars
  BY <1>2, LoginsAlone
<1> QED BY <1>1, <1>2 DEF DoorNext, doorVars

LEMMA LoginsBegin == DoorInit => LoginInv
<1> SUFFICES ASSUME LoginsInit
             PROVE  LoginInv
  BY DEF DoorInit
<1>1. /\ NotStarted \in LoginType /\ NotStarted.at = "new" /\ NotStarted.saves = 0
  BY DEF NotStarted, LoginType
<1>2. LoginTypes
  BY <1>1, IdleJob DEF LoginsInit, LoginTypes
<1>3. OnceInv
  BY <1>1, IdleJob DEF LoginsInit, OnceInv, SavedOnce, ClaimsSound, Claims, LoginsStarted
<1>4. RowsInv
  BY IdleJob DEF LoginsInit, RowsInv, CommonGiven, MergesAlone, Merging, OneRow
<1> QED BY <1>2, <1>3, <1>4 DEF LoginInv

LEMMA LandedOnce == LoginInv => LoginsLandOnce
<1> SUFFICES ASSUME LoginInv
             PROVE  OneRowPerAccount
  BY DEF LoginsLandOnce, LoginInv, OnceInv
<1> SUFFICES ASSUME NEW c \in Channel, common[c] # {}
             PROVE  Cardinality({r \in saved : r.channel = c}) <= 1
  BY DEF OneRowPerAccount
<1> DEFINE rows == {r \in saved : r.channel = c}
<1>1. CASE rows = {}
  BY <1>1, FS_EmptySet
<1>2. CASE rows # {}
  <2>1. PICK r \in rows : TRUE
    BY <1>2
  <2>2. rows = {r}
    BY <2>1 DEF LoginInv, RowsInv, OneRow
  <2> QED BY <2>2, FS_Singleton
<1> QED BY <1>1, <1>2

\* However polls, pasted links, callbacks, races, deletions and restarts overlap, a login
\* is saved at most once and only while it was the admin's to complete, and an account
\* whose logins share an alias has one row.
THEOREM LoginsAlwaysLandOnce == DoorSpec => []LoginsLandOnce
<1>1. DoorInit => LoginInv
  BY LoginsBegin
<1>2. LoginInv /\ [DoorNext]_doorVars => LoginInv'
  BY LoginStep
<1>3. LoginInv => LoginsLandOnce
  BY LandedOnce
<1> QED BY <1>1, <1>2, <1>3, PTL DEF DoorSpec

-----------------------------------------------------------------------------
(* Admissions within the quotas.  What is counted on a subject over the     *)
(* window is part of its list of events, in order: the list may hold more,  *)
(* admissions that are too old and those another layer refused.             *)

\* The places in es where the events of part stand.
Places(g, part, es) ==
  /\ \A i \in 1..Len(part) : g[i] \in 1..Len(es) /\ part[i] = es[g[i]]
  /\ \A i, j \in 1..Len(part) : i < j => g[i] < g[j]

PartOf(part, es) == \E g : Places(g, part, es)

Recently(es) == \A i \in 1..Len(es) : es[i].age < Window

Totals(es) ==
  LET total[i \in 0..Len(es)] == IF i = 0 THEN 0 ELSE total[i - 1] + es[i].tokens
  IN total

AddsUp(f, es, n) ==
  /\ f \in [0..n -> Nat] /\ f[0] = 0
  /\ \A i \in 1..n : f[i] = f[i - 1] + es[i].tokens

LEMMA EventsTyped ==
  ASSUME NEW es \in Seq(EventType)
  PROVE  /\ Len(es) \in Nat
         /\ \A i \in 1..Len(es) : es[i] \in EventType /\ es[i].tokens \in Nat /\ es[i].age \in Nat
<1>1. Len(es) \in Nat /\ \A i \in 1..Len(es) : es[i] \in EventType
  BY LenProperties
<1> QED BY <1>1, QuotaConstants DEF EventType

\* There are totals, for a least length without would have a shorter one with.
LEMMA SomeTotals ==
  ASSUME NEW es \in Seq(EventType)
  PROVE  \E f : AddsUp(f, es, Len(es))
<1> DEFINE Bad == {n \in 0..Len(es) : ~ \E f : AddsUp(f, es, n)}
<1>1. Len(es) \in Nat /\ \A i \in 1..Len(es) : es[i].tokens \in Nat
  BY EventsTyped
<1>2. ASSUME Bad # {}
      PROVE  FALSE
  <2> DEFINE m == Min(Bad)
  <2>1. Bad \in SUBSET Nat
    BY <1>1
  <2>2. m \in Bad /\ \A n \in Bad : m <= n
    <3> HIDE DEF Bad
    <3> QED BY <1>2, <2>1, LeastNumber
  <2> HIDE DEF m
  <2>3. m \in 0..Len(es) /\ ~ \E f : AddsUp(f, es, m)
    BY <2>2
  <2>4. m # 0
    <3>1. AddsUp([i \in 0..0 |-> 0], es, 0)
      BY DEF AddsUp
    <3> QED BY <2>3, <3>1
  <2>5. m \in Nat /\ m - 1 \in 0..Len(es) /\ ~(m <= m - 1)
    BY <1>1, <2>3, <2>4
  <2>6. PICK f : AddsUp(f, es, m - 1)
    BY <2>2, <2>5
  <2> DEFINE g == [i \in 0..m |-> IF i = m THEN f[m - 1] + es[m].tokens ELSE f[i]]
  <2>7. f[m - 1] + es[m].tokens \in Nat
    <3>1. f[m - 1] \in Nat /\ es[m].tokens \in Nat
      BY <1>1, <2>3, <2>4, <2>5, <2>6 DEF AddsUp
    <3> QED BY <3>1
  <2>8. g \in [0..m -> Nat] /\ g[0] = 0
    BY <2>4, <2>5, <2>6, <2>7 DEF AddsUp
  <2>9. ASSUME NEW i \in 1..m
        PROVE  g[i] = g[i - 1] + es[i].tokens
    <3>1. i - 1 \in 0..m /\ i - 1 # m /\ i \in 0..m
      BY <2>5
    <3>2. CASE i = m
      BY <3>1, <3>2
    <3>3. CASE i # m
      <4>1. i \in 1..m - 1
        BY <2>5, <3>3
      <4> QED BY <2>6, <3>1, <3>3, <4>1 DEF AddsUp
    <3> QED BY <3>2, <3>3
  <2> HIDE DEF g
  <2>10. AddsUp(g, es, m)
    BY <2>8, <2>9 DEF AddsUp
  <2> QED BY <2>3, <2>10
<1>3. Len(es) \notin Bad
  BY <1>2
<1> QED BY <1>1, <1>3

LEMMA TotalsAddUp ==
  ASSUME NEW es \in Seq(EventType)
  PROVE  AddsUp(Totals(es), es, Len(es)) /\ TokensIn(es) = Totals(es)[Len(es)]
<1> DEFINE Next(f) == [i \in 0..Len(es) |-> IF i = 0 THEN 0 ELSE f[i - 1] + es[i].tokens]
<1>1. Len(es) \in Nat /\ \A i \in 1..Len(es) : es[i].tokens \in Nat
  BY EventsTyped
<1>2. PICK f : AddsUp(f, es, Len(es))
  BY SomeTotals
<1>3. f = Next(f)
  BY <1>1, <1>2 DEF AddsUp
<1>4. Totals(es) = Next(Totals(es))
  BY <1>3 DEF Totals
<1> DEFINE t == Totals(es)
           Bad == {i \in 0..Len(es) : t[i] \notin Nat}
<1>5. t = [i \in 0..Len(es) |-> t[i]] /\ t[0] = 0 /\ \A i \in 1..Len(es) : t[i] = t[i - 1] + es[i].tokens
  BY <1>1, <1>4
<1> HIDE DEF t
<1>6. ASSUME Bad # {}
      PROVE  FALSE
  <2> DEFINE m == Min(Bad)
  <2>1. Bad \in SUBSET Nat
    BY <1>1
  <2>2. m \in Bad /\ \A n \in Bad : m <= n
    <3> HIDE DEF Bad
    <3> QED BY <1>6, <2>1, LeastNumber
  <2> HIDE DEF m
  <2>3. m \in 1..Len(es) /\ m - 1 \in 0..Len(es) /\ ~(m <= m - 1)
    BY <1>1, <1>5, <2>2
  <2>4. t[m - 1] \in Nat
    BY <2>2, <2>3
  <2>5. t[m] = t[m - 1] + es[m].tokens /\ es[m].tokens \in Nat
    BY <1>1, <1>5, <2>3
  <2> QED BY <2>2, <2>4, <2>5
<1>7. t \in [0..Len(es) -> Nat]
  BY <1>5, <1>6
<1>8. TokensIn(es) = Totals(es)[Len(es)]
  BY DEF TokensIn, Totals
<1> QED BY <1>5, <1>7, <1>8 DEF AddsUp, t

LEMMA TotalsGrow ==
  ASSUME NEW es \in Seq(EventType), NEW i \in 0..Len(es), NEW j \in i..Len(es)
  PROVE  Totals(es)[i] <= Totals(es)[j]
<1> DEFINE t == Totals(es)
           Bad == {k \in i..Len(es) : ~(t[i] <= t[k])}
<1>1. Len(es) \in Nat /\ \A k \in 1..Len(es) : es[k].tokens \in Nat
  BY EventsTyped
<1>2. t \in [0..Len(es) -> Nat] /\ \A k \in 1..Len(es) : t[k] = t[k - 1] + es[k].tokens
  BY TotalsAddUp DEF AddsUp
<1> HIDE DEF t
<1>3. ASSUME Bad # {}
      PROVE  FALSE
  <2> DEFINE m == Min(Bad)
  <2>1. Bad \in SUBSET Nat
    BY <1>1
  <2>2. m \in Bad /\ \A n \in Bad : m <= n
    <3> HIDE DEF Bad
    <3> QED BY <1>3, <2>1, LeastNumber
  <2> HIDE DEF m
  <2>3. m # i /\ m \in i..Len(es)
    <3>1. t[i] \in Nat
      BY <1>2
    <3> QED BY <2>2, <3>1
  <2>4. m \in 1..Len(es) /\ m - 1 \in i..Len(es) /\ ~(m <= m - 1) /\ m - 1 \in 0..Len(es)
    BY <1>1, <2>3
  <2>5. t[i] <= t[m - 1]
    BY <2>2, <2>4
  <2>6. t[m] = t[m - 1] + es[m].tokens
    BY <1>2, <2>4
  <2>7. es[m].tokens \in Nat /\ t[m - 1] \in Nat /\ t[i] \in Nat
    BY <1>1, <1>2, <2>4
  <2>8. t[i] <= t[m]
    BY <2>5, <2>6, <2>7
  <2> QED BY <2>2, <2>8
<1> QED BY <1>3 DEF t

\* A part is no longer than the whole, nor are its tokens more.
LEMMA PlacesLater ==
  ASSUME NEW part \in Seq(EventType), NEW es \in Seq(EventType), NEW g, Places(g, part, es)
  PROVE  \A i \in 1..Len(part) : i <= g[i] /\ Totals(part)[i] <= Totals(es)[g[i]]
<1> DEFINE t == Totals(part)
           T == Totals(es)
           Bad == {i \in 1..Len(part) : ~(i <= g[i] /\ t[i] <= T[g[i]])}
<1>1. /\ Len(es) \in Nat /\ Len(part) \in Nat
      /\ \A k \in 1..Len(es) : es[k].tokens \in Nat
  BY EventsTyped
<1>2. /\ t \in [0..Len(part) -> Nat] /\ t[0] = 0
      /\ \A k \in 1..Len(part) : t[k] = t[k - 1] + part[k].tokens
      /\ T \in [0..Len(es) -> Nat]
      /\ \A k \in 1..Len(es) : T[k] = T[k - 1] + es[k].tokens
  BY TotalsAddUp DEF AddsUp
<1>3. \A i \in 0..Len(es) : \A j \in i..Len(es) : T[i] <= T[j]
  BY TotalsGrow
<1> HIDE DEF t, T
<1>4. ASSUME Bad # {}
      PROVE  FALSE
  <2> DEFINE m == Min(Bad)
  <2>1. Bad \in SUBSET Nat
    BY <1>1
  <2>2. m \in Bad /\ \A n \in Bad : m <= n
    <3> HIDE DEF Bad
    <3> QED BY <1>4, <2>1, LeastNumber
  <2> HIDE DEF m
  <2>3. m \in 1..Len(part) /\ m \in Nat /\ ~(m <= g[m] /\ t[m] <= T[g[m]])
    BY <1>1, <2>2
  <2>4. g[m] \in 1..Len(es) /\ part[m] = es[g[m]]
    BY <2>3 DEF Places
  <2>5. /\ t[m] = t[m - 1] + es[g[m]].tokens /\ T[g[m]] = T[g[m] - 1] + es[g[m]].tokens
        /\ es[g[m]].tokens \in Nat /\ t[m - 1] \in Nat /\ T[g[m] - 1] \in Nat
    <3>1. m - 1 \in 0..Len(part) /\ g[m] - 1 \in 0..Len(es)
      BY <1>1, <2>3, <2>4
    <3> QED BY <1>1, <1>2, <2>3, <2>4, <3>1
  <2>6. CASE m = 1
    <3>1. t[m - 1] = 0
      BY <1>2, <2>6
    <3> QED BY <1>1, <2>3, <2>4, <2>5, <2>6, <3>1
  <2>7. CASE m # 1
    <3>1. m - 1 \in 1..Len(part) /\ m - 1 < m /\ ~(m <= m - 1)
      BY <1>1, <2>3, <2>7
    <3>2. m - 1 <= g[m - 1] /\ t[m - 1] <= T[g[m - 1]]
      BY <2>2, <3>1
    <3>3. g[m - 1] \in 1..Len(es) /\ g[m - 1] < g[m]
      BY <2>3, <3>1 DEF Places
    <3>4. g[m - 1] \in 0..Len(es) /\ g[m] - 1 \in g[m - 1]..Len(es)
      BY <1>1, <2>4, <3>3
    <3>5. T[g[m - 1]] <= T[g[m] - 1] /\ T[g[m - 1]] \in Nat
      BY <1>2, <1>3, <3>4
    <3>6. t[m] <= T[g[m]]
      BY <2>5, <3>2, <3>5
    <3>7. m <= g[m]
      BY <1>1, <2>3, <2>4, <3>2, <3>3
    <3> QED BY <2>3, <3>6, <3>7
  <2> QED BY <2>6, <2>7
<1> QED BY <1>4 DEF t, T

LEMMA PartIsLess ==
  ASSUME NEW part \in Seq(EventType), NEW es \in Seq(EventType), PartOf(part, es)
  PROVE  Len(part) <= Len(es) /\ TokensIn(part) <= TokensIn(es)
<1>1. PICK g : Places(g, part, es)
  BY DEF PartOf
<1>2. /\ Len(es) \in Nat /\ Len(part) \in Nat
      /\ Totals(es) \in [0..Len(es) -> Nat] /\ Totals(part)[0] = 0
      /\ TokensIn(part) = Totals(part)[Len(part)] /\ TokensIn(es) = Totals(es)[Len(es)]
  BY EventsTyped, TotalsAddUp DEF AddsUp
<1>3. CASE Len(part) = 0
  <2>1. Totals(es)[Len(es)] \in Nat
    BY <1>2
  <2> QED BY <1>2, <1>3, <2>1
<1>4. CASE Len(part) # 0
  <2> DEFINE n == Len(part)
  <2>1. n \in 1..n
    BY <1>2, <1>4
  <2>2. n <= g[n] /\ Totals(part)[n] <= Totals(es)[g[n]] /\ g[n] \in 1..Len(es)
    BY <1>1, <2>1, PlacesLater DEF Places
  <2>3. g[n] \in 0..Len(es) /\ Len(es) \in g[n]..Len(es)
    BY <1>2, <2>2
  <2>4. Totals(es)[g[n]] <= Totals(es)[Len(es)]
    BY <2>3, TotalsGrow
  <2>5. /\ Totals(part)[n] \in Nat /\ Totals(es)[g[n]] \in Nat /\ Totals(es)[Len(es)] \in Nat
    <3>1. Totals(part) \in [0..n -> Nat]
      BY TotalsAddUp DEF AddsUp
    <3> QED BY <1>2, <2>1, <2>3, <3>1
  <2> QED BY <1>2, <2>2, <2>4, <2>5
<1> QED BY <1>3, <1>4

LEMMA TokensAppend ==
  ASSUME NEW es \in Seq(EventType), NEW e \in EventType
  PROVE  TokensIn(Append(es, e)) = TokensIn(es) + e.tokens
<1> DEFINE longer == Append(es, e)
           t == Totals(es)
           T == Totals(longer)
           n == Len(es)
           Bad == {i \in 0..n : T[i] # t[i]}
<1>1. /\ longer \in Seq(EventType) /\ Len(longer) = n + 1 /\ n \in Nat
      /\ longer[n + 1] = e /\ \A i \in 1..n : longer[i] = es[i]
  BY AppendProperties, EventsTyped
<1>2. /\ t[0] = 0 /\ \A k \in 1..n : t[k] = t[k - 1] + es[k].tokens
      /\ TokensIn(es) = t[n]
  BY TotalsAddUp DEF AddsUp
<1> HIDE DEF longer
<1>3. /\ T[0] = 0 /\ \A k \in 1..n + 1 : T[k] = T[k - 1] + longer[k].tokens
      /\ TokensIn(longer) = T[n + 1]
  BY <1>1, TotalsAddUp DEF AddsUp
<1> HIDE DEF t, T, n
<1>4. ASSUME Bad # {}
      PROVE  FALSE
  <2> DEFINE m == Min(Bad)
  <2>1. Bad \in SUBSET Nat
    BY <1>1
  <2>2. m \in Bad /\ \A k \in Bad : m <= k
    <3> HIDE DEF Bad
    <3> QED BY <1>4, <2>1, LeastNumber
  <2> HIDE DEF m
  <2>3. m \in 1..n /\ m - 1 \in 0..n /\ ~(m <= m - 1) /\ m \in 1..n + 1
    BY <1>1, <1>2, <1>3, <2>2
  <2>4. T[m - 1] = t[m - 1]
    BY <2>2, <2>3
  <2> QED BY <1>1, <1>2, <1>3, <2>2, <2>3, <2>4
<1>5. T[n] = t[n]
  BY <1>1, <1>4
<1>6. n + 1 \in 1..n + 1 /\ n + 1 - 1 = n
  BY <1>1
<1>7. T[n + 1] = T[n] + e.tokens
  BY <1>1, <1>3, <1>6
<1> QED BY <1>2, <1>3, <1>5, <1>7 DEF longer

LEMMA PartCounted ==
  ASSUME NEW part \in Seq(EventType), NEW es \in Seq(EventType), NEW e \in EventType,
         PartOf(part, es)
  PROVE  PartOf(part, Append(es, e)) /\ PartOf(Append(part, e), Append(es, e))
<1>1. PICK g : Places(g, part, es)
  BY DEF PartOf
<1>2. /\ Len(es) \in Nat /\ Len(part) \in Nat
      /\ Len(Append(es, e)) = Len(es) + 1 /\ Len(Append(part, e)) = Len(part) + 1
      /\ \A i \in 1..Len(es) : Append(es, e)[i] = es[i]
      /\ \A i \in 1..Len(part) : Append(part, e)[i] = part[i]
      /\ Append(es, e)[Len(es) + 1] = e /\ Append(part, e)[Len(part) + 1] = e
  BY AppendProperties, EventsTyped
<1>3. Places(g, part, Append(es, e))
  BY <1>1, <1>2 DEF Places
<1> DEFINE n == Len(part)
           f == [i \in 1..n + 1 |-> IF i = n + 1 THEN Len(es) + 1 ELSE g[i]]
<1>4. \A i \in 1..n : f[i] = g[i] /\ i \in 1..n + 1 /\ i # n + 1
  BY <1>2
<1>5. f[n + 1] = Len(es) + 1
  BY <1>2
<1> HIDE DEF f
<1>6. ASSUME NEW i \in 1..n + 1
      PROVE  f[i] \in 1..Len(es) + 1 /\ Append(part, e)[i] = Append(es, e)[f[i]]
  <2>1. CASE i = n + 1
    BY <1>2, <1>5, <2>1
  <2>2. CASE i # n + 1
    <3>1. i \in 1..n
      BY <1>2, <2>2
    <3> QED BY <1>1, <1>2, <1>4, <3>1 DEF Places
  <2> QED BY <2>1, <2>2
<1>7. ASSUME NEW i \in 1..n + 1, NEW j \in 1..n + 1, i < j
      PROVE  f[i] < f[j]
  <2>1. i \in 1..n /\ g[i] \in 1..Len(es) /\ f[i] = g[i]
    <3>1. i \in 1..n
      BY <1>2, <1>7
    <3> QED BY <1>1, <1>4, <3>1 DEF Places
  <2>2. CASE j = n + 1
    BY <1>2, <1>5, <2>1, <2>2
  <2>3. CASE j # n + 1
    <3>1. j \in 1..n
      BY <1>2, <2>3
    <3> QED BY <1>1, <1>4, <1>7, <2>1, <3>1 DEF Places
  <2> QED BY <2>2, <2>3
<1>8. Places(f, Append(part, e), Append(es, e))
  BY <1>2, <1>6, <1>7 DEF Places
<1> QED BY <1>3, <1>8 DEF PartOf

LEMMA FromParts ==
  ASSUME NEW es \in Seq(EventType), NEW young \in SUBSET (1..Len(es)), young # {}
  PROVE  LET m == Min(young) IN
         /\ m \in young /\ m \in 1..Len(es) /\ \A i \in young : m <= i
         /\ From(es, young) \in Seq(EventType) /\ Len(From(es, young)) = Len(es) - m + 1
         /\ \A i \in 1 .. Len(es) - m + 1 : m + i - 1 \in 1..Len(es) /\ From(es, young)[i] = es[m + i - 1]
<1> DEFINE m == Min(young)
<1>1. Len(es) \in Nat /\ young \in SUBSET Nat
  BY EventsTyped
<1>2. m \in young /\ \A i \in young : m <= i
  BY <1>1, LeastNumber
<1>3. From(es, young) = SubSeq(es, m, Len(es))
  BY DEF From
<1> HIDE DEF m
<1>4. m \in 1..Len(es)
  BY <1>2
<1>5. /\ SubSeq(es, m, Len(es)) \in Seq(EventType)
      /\ Len(SubSeq(es, m, Len(es))) = Len(es) - m + 1
      /\ \A i \in 1 .. Len(es) - m + 1 : SubSeq(es, m, Len(es))[i] = es[m + i - 1]
  BY <1>1, <1>4, SubSeqProperties
<1>6. \A i \in 1 .. Len(es) - m + 1 : m + i - 1 \in 1..Len(es)
  BY <1>1, <1>4
<1> QED BY <1>2, <1>3, <1>4, <1>5, <1>6 DEF m

\* Pruning spares what is young, and with it a part all of which is.
LEMMA PartPruned ==
  ASSUME NEW part \in Seq(EventType), NEW es \in Seq(EventType), PartOf(part, es), Recently(part)
  PROVE  PartOf(part, From(es, Younger(es, Window)))
<1> DEFINE young == Younger(es, Window)
           m == Min(young)
           rest == From(es, young)
<1>1. PICK g : Places(g, part, es)
  BY DEF PartOf
<1>2. \A i \in 1..Len(part) : g[i] \in young
  BY <1>1 DEF Places, Younger, Recently
<1>3. young \in SUBSET (1..Len(es)) /\ Len(es) \in Nat /\ Len(part) \in Nat
  BY EventsTyped DEF Younger
<1>4. CASE young = {}
  <2>1. Places(g, part, rest)
    BY <1>2, <1>4 DEF Places
  <2> QED BY <2>1 DEF PartOf
<1>5. CASE young # {}
  <2>1. /\ m \in 1..Len(es) /\ \A i \in young : m <= i
        /\ Len(rest) = Len(es) - m + 1
        /\ \A i \in 1 .. Len(es) - m + 1 : rest[i] = es[m + i - 1]
    <3> HIDE DEF young
    <3> QED BY <1>3, <1>5, FromParts
  <2> HIDE DEF young, m, rest
  <2> DEFINE f == [i \in 1..Len(part) |-> g[i] - m + 1]
  <2>2. ASSUME NEW i \in 1..Len(part)
        PROVE  f[i] = g[i] - m + 1 /\ g[i] \in 1..Len(es) /\ m <= g[i] /\ part[i] = es[g[i]]
    BY <1>1, <1>2, <2>1 DEF Places
  <2> HIDE DEF f
  <2>3. ASSUME NEW i \in 1..Len(part)
        PROVE  f[i] \in 1..Len(rest) /\ part[i] = rest[f[i]]
    <3>1. f[i] \in 1 .. Len(es) - m + 1 /\ m + f[i] - 1 = g[i]
      BY <1>3, <2>1, <2>2
    <3> QED BY <2>1, <2>2, <3>1
  <2>4. ASSUME NEW i \in 1..Len(part), NEW j \in 1..Len(part), i < j
        PROVE  f[i] < f[j]
    <3>1. g[i] < g[j]
      BY <1>1, <2>4 DEF Places
    <3> QED BY <2>1, <2>2, <3>1
  <2> QED BY <2>3, <2>4 DEF PartOf, Places, rest, young
<1> QED BY <1>4, <1>5

\* What is left of a part is a part.
LEMMA PartLeft ==
  ASSUME NEW part \in Seq(EventType), NEW es \in Seq(EventType), PartOf(part, es),
         NEW young \in SUBSET (1..Len(part))
  PROVE  PartOf(From(part, young), es)
<1> DEFINE m == Min(young)
           rest == From(part, young)
<1>1. PICK g : Places(g, part, es)
  BY DEF PartOf
<1>2. CASE young = {}
  <2>1. rest = <<>> /\ Len(<<>>) = 0
    BY <1>2 DEF From
  <2> HIDE DEF rest
  <2>2. Places(g, rest, es)
    BY <2>1 DEF Places
  <2> QED BY <2>2 DEF PartOf, rest
<1>3. CASE young # {}
  <2>1. /\ m \in 1..Len(part) /\ Len(part) \in Nat
        /\ Len(rest) = Len(part) - m + 1
        /\ \A i \in 1 .. Len(part) - m + 1 : m + i - 1 \in 1..Len(part) /\ rest[i] = part[m + i - 1]
    BY <1>3, FromParts, EventsTyped
  <2> HIDE DEF m, rest
  <2> DEFINE f == [i \in 1..Len(rest) |-> g[m + i - 1]]
  <2>2. \A i \in 1..Len(rest) : f[i] = g[m + i - 1]
    OBVIOUS
  <2> HIDE DEF f
  <2>3. \A i \in 1..Len(rest) : f[i] \in 1..Len(es) /\ rest[i] = es[f[i]]
    BY <1>1, <2>1, <2>2 DEF Places
  <2>4. ASSUME NEW i \in 1..Len(rest), NEW j \in 1..Len(rest), i < j
        PROVE  f[i] < f[j]
    <3>1. m + i - 1 < m + j - 1 /\ m + i - 1 \in 1..Len(part) /\ m + j - 1 \in 1..Len(part)
      BY <2>1, <2>4
    <3> QED BY <1>1, <2>2, <3>1 DEF Places
  <2> QED BY <2>3, <2>4 DEF PartOf, Places, rest
<1> QED BY <1>2, <1>3

LEMMA AgedEvents ==
  ASSUME NEW es \in Seq(EventType)
  PROVE  Len(Aged(es)) = Len(es)
<1>1. Len(es) \in Nat
  BY EventsTyped
<1>2. Aged(es) = [i \in 1..Len(es) |-> [es[i] EXCEPT !.age = IF es[i].age < Window THEN es[i].age + 1 ELSE es[i].age]]
  BY DEF Aged
<1> QED BY <1>1, <1>2, LenProperties, SeqDef

LEMMA PartAged ==
  ASSUME NEW part \in Seq(EventType), NEW es \in Seq(EventType), PartOf(part, es)
  PROVE  PartOf(Aged(part), Aged(es))
<1> DEFINE older(e) == [e EXCEPT !.age = IF e.age < Window THEN e.age + 1 ELSE e.age]
<1>1. PICK g : Places(g, part, es)
  BY DEF PartOf
<1>2. Len(Aged(part)) = Len(part) /\ Len(Aged(es)) = Len(es)
  BY AgedEvents
<1>3. /\ \A i \in 1..Len(part) : Aged(part)[i] = older(part[i])
      /\ \A i \in 1..Len(es) : Aged(es)[i] = older(es[i])
  BY DEF Aged
<1> HIDE DEF older
<1>4. Places(g, Aged(part), Aged(es))
  BY <1>1, <1>2, <1>3 DEF Places
<1> QED BY <1>4 DEF PartOf

\* From the first that is young on, all are.
LEMMA FromRecently ==
  ASSUME NEW es \in Seq(EventType), Sorted(es)
  PROVE  Recently(From(es, Younger(es, Window)))
<1> DEFINE young == Younger(es, Window)
           m == Min(young)
           rest == From(es, young)
<1>1. CASE young = {}
  <2>1. rest = <<>> /\ Len(<<>>) = 0
    BY <1>1 DEF From
  <2> QED BY <2>1 DEF Recently
<1>2. CASE young # {}
  <2>1. /\ m \in young /\ m \in 1..Len(es)
        /\ Len(rest) = Len(es) - m + 1
        /\ \A i \in 1 .. Len(es) - m + 1 : m + i - 1 \in 1..Len(es) /\ rest[i] = es[m + i - 1]
    <3>1. young \in SUBSET (1..Len(es))
      BY DEF Younger
    <3> HIDE DEF young
    <3> QED BY <1>2, <3>1, FromParts
  <2>2. es[m].age < Window
    BY <2>1 DEF Younger
  <2> HIDE DEF young, m, rest
  <2>3. ASSUME NEW i \in 1..Len(rest)
        PROVE  rest[i].age < Window
    <3>1. m + i - 1 \in 1..Len(es) /\ rest[i] = es[m + i - 1]
      BY <2>1, <2>3
    <3>2. m = m + i - 1 \/ es[m].age >= es[m + i - 1].age
      <4>1. m = m + i - 1 \/ m < m + i - 1
        BY <2>1, <2>3, EventsTyped
      <4> QED BY <2>1, <3>1, <4>1 DEF Sorted
    <3>3. es[m].age \in Nat /\ es[m + i - 1].age \in Nat /\ Window \in Nat
      BY <2>1, <3>1, EventsTyped, QuotaConstants
    <3> QED BY <2>2, <3>1, <3>2, <3>3
  <2> QED BY <2>3 DEF Recently, rest, young
<1> QED BY <1>1, <1>2

\* What is counted over the window is in the list of events, and young.
WindowInv ==
  /\ seen \in [Subject -> Seq(EventType)]
  /\ \A s \in Subject : Sorted(seen[s]) /\ Recently(seen[s]) /\ PartOf(seen[s], events[s])

LEMMA PartOfPruned ==
  ASSUME QuotaInv, WindowInv, NEW s \in Subject
  PROVE  /\ Pruned(s) \in Seq(EventType) /\ seen[s] \in Seq(EventType)
         /\ PartOf(seen[s], Pruned(s))
<1>1. /\ events[s] \in Seq(EventType) /\ Sorted(events[s])
      /\ seen[s] \in Seq(EventType) /\ Recently(seen[s]) /\ PartOf(seen[s], events[s])
  BY DEF QuotaInv, QuotaTypes, WindowInv
<1>2. Pruned(s) \in Seq(EventType)
  BY <1>1, FromKeeps DEF Pruned, Younger
<1>3. PartOf(seen[s], Pruned(s))
  BY <1>1, PartPruned DEF Pruned
<1> QED BY <1>1, <1>2, <1>3

LEMMA CountedWindow ==
  ASSUME QuotaInv, WindowInv, NEW s \in Subject, NEW n \in Nat
  PROVE  LET more == Append(seen[s], [age |-> 0, tokens |-> n]) IN
         /\ more \in Seq(EventType) /\ Sorted(more) /\ Recently(more)
         /\ PartOf(more, Counted(s, n)) /\ PartOf(seen[s], Counted(s, n))
<1> DEFINE new == [age |-> 0, tokens |-> n]
           more == Append(seen[s], new)
<1>1. /\ seen[s] \in Seq(EventType) /\ Sorted(seen[s]) /\ Recently(seen[s])
      /\ Pruned(s) \in Seq(EventType) /\ PartOf(seen[s], Pruned(s))
  BY PartOfPruned DEF WindowInv
<1>2. new \in EventType /\ more \in Seq(EventType) /\ Sorted(more)
  BY <1>1, AppendKeeps
<1>3. new.age = 0 /\ Counted(s, n) = Append(Pruned(s), new)
  BY DEF Counted
<1> HIDE DEF new
<1>4. PartOf(more, Counted(s, n)) /\ PartOf(seen[s], Counted(s, n))
  BY <1>1, <1>2, <1>3, PartCounted
<1>5. Recently(more)
  <2>1. /\ Len(more) = Len(seen[s]) + 1 /\ Len(seen[s]) \in Nat /\ more[Len(seen[s]) + 1] = new
        /\ \A i \in 1..Len(seen[s]) : more[i] = seen[s][i]
    BY <1>1, <1>2, AppendProperties, EventsTyped
  <2> SUFFICES ASSUME NEW i \in 1..Len(seen[s]) + 1
               PROVE  more[i].age < Window
    BY <2>1 DEF Recently
  <2>2. CASE i \in 1..Len(seen[s])
    BY <1>1, <2>1, <2>2 DEF Recently
  <2>3. CASE i = Len(seen[s]) + 1
    BY <1>3, <2>1, <2>3, QuotaConstants
  <2> QED BY <2>1, <2>2, <2>3
<1> QED BY <1>2, <1>4, <1>5 DEF new

LEMMA WindowStep ==
  ASSUME QuotaInv, WindowInv, [DoorNext]_doorVars
  PROVE  WindowInv'
<1>1. CASE UNCHANGED <<events, seen>>
  BY <1>1 DEF WindowInv
<1>2. ASSUME NEW q \in Req, NEW faulty, Admit(q, faulty)
      PROVE  WindowInv'
  <2> DEFINE counting == Counting(q, faulty)
             more(s) == Append(seen[s], [age |-> 0, tokens |-> TokensOf[q]])
  <2>1. /\ events' = [s \in Subject |-> IF s \in counting THEN Counted(s, TokensOf[q]) ELSE events[s]]
        /\ seen' = [s \in Subject |-> IF s \in counting THEN more(s) ELSE seen[s]]
    BY <1>2 DEF Admit
  <2>2. \A s \in Subject :
          /\ more(s) \in Seq(EventType) /\ Sorted(more(s)) /\ Recently(more(s))
          /\ PartOf(more(s), Counted(s, TokensOf[q]))
    BY LayersAreSubjects, CountedWindow
  <2> HIDE DEF counting, more
  <2>3. seen' \in [Subject -> Seq(EventType)]
    BY <2>1, <2>2 DEF WindowInv
  <2>4. ASSUME NEW s \in Subject
        PROVE  Sorted(seen'[s]) /\ Recently(seen'[s]) /\ PartOf(seen'[s], events'[s])
    <3>1. CASE s \in counting
      <4>1. seen'[s] = more(s) /\ events'[s] = Counted(s, TokensOf[q])
        BY <2>1, <3>1
      <4> QED BY <2>2, <4>1
    <3>2. CASE s \notin counting
      <4>1. seen'[s] = seen[s] /\ events'[s] = events[s]
        BY <2>1, <3>2
      <4> QED BY <4>1 DEF WindowInv
    <3> QED BY <3>1, <3>2
  <2> QED BY <2>3, <2>4 DEF WindowInv
<1>3. ASSUME NEW q \in Req, NEW faulty, RefuseByUser(q, faulty)
      PROVE  WindowInv'
  <2> DEFINE key == KeyOf[q]
             counted == Counted(key, TokensOf[q])
  <2>1. /\ events' = [events EXCEPT ![key] = counted] /\ seen' = seen
        /\ key \in Counting(q, faulty)
    BY <1>3 DEF RefuseByUser
  <2>2. key \in Subject /\ TokensOf[q] \in Nat
    BY <2>1, LayersAreSubjects DEF Counting
  <2>3. PartOf(seen[key], counted)
    BY <2>2, CountedWindow
  <2> HIDE DEF counted, key
  <2>4. ASSUME NEW s \in Subject
        PROVE  PartOf(seen'[s], events'[s])
    <3>1. CASE s = key
      <4>1. seen'[s] = seen[key] /\ events'[s] = counted
        BY <2>1, <2>2, <3>1 DEF QuotaInv, QuotaTypes
      <4> QED BY <2>3, <4>1
    <3>2. CASE s # key
      <4>1. seen'[s] = seen[s] /\ events'[s] = events[s]
        BY <2>1, <3>2 DEF QuotaInv, QuotaTypes
      <4> QED BY <4>1 DEF WindowInv
    <3> QED BY <3>1, <3>2
  <2> QED BY <2>1, <2>4 DEF WindowInv
<1>4. CASE WindowsSlide
  <2> DEFINE left(s) == From(Aged(seen[s]), Younger(Aged(seen[s]), Window))
  <2>1. /\ events' = [s \in Subject |-> Aged(events[s])] /\ seen' = [s \in Subject |-> left(s)]
    BY <1>4 DEF WindowsSlide
  <2>2. ASSUME NEW s \in Subject
        PROVE  /\ left(s) \in Seq(EventType) /\ Sorted(left(s)) /\ Recently(left(s))
               /\ PartOf(left(s), Aged(events[s]))
    <3>1. /\ events[s] \in Seq(EventType) /\ Sorted(events[s])
          /\ seen[s] \in Seq(EventType) /\ Sorted(seen[s]) /\ PartOf(seen[s], events[s])
      BY DEF QuotaInv, QuotaTypes, WindowInv
    <3>2. /\ Aged(events[s]) \in Seq(EventType) /\ Aged(seen[s]) \in Seq(EventType)
          /\ Sorted(Aged(seen[s])) /\ PartOf(Aged(seen[s]), Aged(events[s]))
      BY <3>1, AgedKeeps, PartAged
    <3>3. Younger(Aged(seen[s]), Window) \in SUBSET (1..Len(Aged(seen[s])))
      BY DEF Younger
    <3> QED BY <3>2, <3>3, FromKeeps, FromRecently, PartLeft
  <2> HIDE DEF left
  <2>3. ASSUME NEW s \in Subject
        PROVE  Sorted(seen'[s]) /\ Recently(seen'[s]) /\ PartOf(seen'[s], events'[s])
    <3>1. seen'[s] = left(s) /\ events'[s] = Aged(events[s])
      BY <2>1
    <3> QED BY <2>2, <3>1
  <2>4. seen' \in [Subject -> Seq(EventType)]
    BY <2>1, <2>2
  <2> QED BY <2>3, <2>4 DEF WindowInv
<1>5. CASE StartsAgain
  <2>1. \A s \in Subject : events'[s] = <<>> /\ seen'[s] = <<>>
    BY <1>5 DEF StartsAgain
  <2>2. Len(<<>>) = 0 /\ <<>> \in Seq(EventType)
    OBVIOUS
  <2>3. Sorted(<<>>) /\ Recently(<<>>) /\ PartOf(<<>>, <<>>)
    <3>1. Places(<<>>, <<>>, <<>>)
      BY <2>2 DEF Places
    <3> QED BY <2>2, <3>1 DEF Sorted, Recently, PartOf
  <2>4. seen' \in [Subject -> Seq(EventType)]
    BY <1>5, <2>2 DEF StartsAgain
  <2> QED BY <2>1, <2>3, <2>4 DEF WindowInv
<1>6. ASSUME NEW q \in Req, Ask(q)
      PROVE  WindowInv'
  BY <1>2, <1>3, <1>6 DEF Ask
<1>7. CASE Requests
  BY <1>1, <1>4, <1>5, <1>6, <1>7 DEF Requests, Record, Finish, SetQuota, Midnight, quotaVars
<1> QED BY <1>1, <1>7 DEF DoorNext, doorVars, quotaVars

LEMMA WindowInit == DoorInit => WindowInv
<1> SUFFICES ASSUME QuotaInit
             PROVE  WindowInv
  BY DEF DoorInit
<1>1. \A s \in Subject : events[s] = <<>> /\ seen[s] = <<>>
  BY DEF QuotaInit
<1>2. Len(<<>>) = 0 /\ <<>> \in Seq(EventType)
  OBVIOUS
<1>3. Sorted(<<>>) /\ Recently(<<>>) /\ PartOf(<<>>, <<>>)
  <2>1. Places(<<>>, <<>>, <<>>)
    BY <1>2 DEF Places
  <2> QED BY <1>2, <2>1 DEF Sorted, Recently, PartOf
<1>4. seen \in [Subject -> Seq(EventType)]
  BY <1>2 DEF QuotaInit
<1> QED BY <1>1, <1>3, <1>4 DEF WindowInv

WithinQuota(q, s) ==
  LET limit == quota[s] IN
  /\ limit.rpm > 0 => Len(seen'[s]) <= limit.rpm
  /\ limit.tpm > 0 => TokensIn(seen'[s]) <= limit.tpm
  /\ limit.max_concurrency > 0 =>
       Cardinality({p \in Req : s \in held'[p]}) <= limit.max_concurrency

LEMMA AdmittedWithin ==
  ASSUME QuotaInv, QuotaInv', WindowInv, NEW q \in Req, NEW faulty, Admit(q, faulty),
         NEW s \in Counting(q, faulty)
  PROVE  WithinQuota(q, s)
<1> DEFINE n == TokensOf[q]
           new == [age |-> 0, tokens |-> n]
<1>1. s \in Subject /\ n \in Nat
  BY LayersAreSubjects DEF Counting
<1>2. /\ Limited(s) /\ ~Refuses(s, n)
      /\ seen'[s] = Append(seen[s], new) /\ inflight'[s] = inflight[s] + 1
  BY <1>1 DEF Admit, Counting
<1>3. /\ Pruned(s) \in Seq(EventType) /\ seen[s] \in Seq(EventType)
      /\ Len(seen[s]) <= Len(Pruned(s)) /\ TokensIn(seen[s]) <= TokensIn(Pruned(s))
  BY <1>1, PartOfPruned, PartIsLess
<1>4. /\ Len(seen[s]) \in Nat /\ Len(Pruned(s)) \in Nat
      /\ TokensIn(seen[s]) \in Nat /\ TokensIn(Pruned(s)) \in Nat
  <2>1. \A es \in Seq(EventType) : Len(es) \in Nat /\ TokensIn(es) \in Nat
    <3> SUFFICES ASSUME NEW es \in Seq(EventType)
                 PROVE  Len(es) \in Nat /\ TokensIn(es) \in Nat
      OBVIOUS
    <3> QED BY EventsTyped, TotalsAddUp DEF AddsUp
  <2> QED BY <1>3, <2>1
<1>5. quota[s].rpm \in Nat /\ quota[s].tpm \in Nat /\ quota[s].max_concurrency \in Nat
  BY <1>1 DEF QuotaInv, QuotaTypes, QuotaType
<1>6. ASSUME quota[s].rpm > 0
      PROVE  Len(seen'[s]) <= quota[s].rpm
  <2>1. ~(Len(Pruned(s)) >= quota[s].rpm)
    BY <1>2, <1>6 DEF Refuses, OverRate
  <2>2. new \in EventType
    BY <1>1, QuotaConstants DEF EventType
  <2>3. Len(seen'[s]) = Len(seen[s]) + 1
    BY <1>2, <1>3, <2>2, AppendProperties
  <2> QED BY <1>3, <1>4, <1>5, <2>1, <2>3
<1>7. ASSUME quota[s].tpm > 0
      PROVE  TokensIn(seen'[s]) <= quota[s].tpm
  <2>1. ~(TokensIn(Pruned(s)) + n > quota[s].tpm)
    BY <1>2, <1>7 DEF Refuses, OverTokens
  <2>2. new \in EventType /\ new.tokens = n
    BY <1>1, QuotaConstants DEF EventType
  <2> HIDE DEF new
  <2>3. TokensIn(seen'[s]) = TokensIn(seen[s]) + n
    BY <1>2, <1>3, <2>2, TokensAppend
  <2> QED BY <1>1, <1>3, <1>4, <1>5, <2>1, <2>3
<1>8. ASSUME quota[s].max_concurrency > 0
      PROVE  Cardinality({p \in Req : s \in held'[p]}) <= quota[s].max_concurrency
  <2>1. ~(inflight[s] >= quota[s].max_concurrency)
    BY <1>2, <1>8 DEF Refuses, OverSlots
  <2>2. inflight[s] \in Nat
    BY <1>1 DEF QuotaInv, QuotaTypes
  <2>3. inflight'[s] = Cardinality({p \in Req : s \in held'[p]})
    BY <1>1 DEF QuotaInv, SlotsExact, Holders
  <2> QED BY <1>2, <1>5, <2>1, <2>2, <2>3
<1> QED BY <1>6, <1>7, <1>8 DEF WithinQuota

\* Only an admission lets a client hold more.
LEMMA QuotaGuards ==
  ASSUME QuotaInv, QuotaInv', WindowInv, [DoorNext]_doorVars
  PROVE  \A q \in Req : \A s \in held'[q] \ held[q] : WithinQuota(q, s)
<1> SUFFICES ASSUME NEW q \in Req, NEW s \in held'[q] \ held[q]
             PROVE  WithinQuota(q, s)
  OBVIOUS
<1>1. CASE UNCHANGED held
  BY <1>1
<1>2. ASSUME NEW p \in Req, Finish(p)
      PROVE  FALSE
  BY <1>2 DEF Finish, QuotaInv, QuotaTypes
<1>3. CASE StartsAgain
  BY <1>3 DEF StartsAgain
<1>4. ASSUME NEW p \in Req, NEW faulty, Admit(p, faulty)
      PROVE  WithinQuota(q, s)
  <2>1. held'[q] = IF q = p THEN Counting(p, faulty) ELSE held[q]
    BY <1>4 DEF Admit, QuotaInv, QuotaTypes
  <2>2. q = p /\ s \in Counting(q, faulty)
    BY <2>1
  <2> QED BY <1>4, <2>2, AdmittedWithin
<1>5. ASSUME NEW p \in Req, Ask(p)
      PROVE  WithinQuota(q, s)
  BY <1>1, <1>4, <1>5 DEF Ask, RefuseByUser
<1>6. CASE Requests
  BY <1>1, <1>2, <1>3, <1>5, <1>6 DEF Requests, Record, SetQuota, Midnight, WindowsSlide, quotaVars
<1> QED BY <1>1, <1>6 DEF DoorNext, doorVars, quotaVars

\* However many clients, keys and users there are, whatever quotas are set, and whatever
\* the windows have counted, an admission a layer counts keeps all its limits.
THEOREM QuotasAlwaysKept == DoorSpec => AdmissionsWithinQuota
<1>1. DoorInit => QuotaInv /\ WindowInv
  BY QuotasInit, WindowInit
<1>2. QuotaInv /\ WindowInv /\ [DoorNext]_doorVars => (QuotaInv /\ WindowInv)'
  BY QuotaStep, WindowStep
<1>3. QuotaInv /\ QuotaInv' /\ WindowInv /\ [DoorNext]_doorVars =>
        [\A q \in Req : \A s \in held'[q] \ held[q] :
           LET limit == quota[s] IN
           /\ limit.rpm > 0 => Len(seen'[s]) <= limit.rpm
           /\ limit.tpm > 0 => TokensIn(seen'[s]) <= limit.tpm
           /\ limit.max_concurrency > 0 =>
                Cardinality({p \in Req : s \in held'[p]}) <= limit.max_concurrency]_quotaVars
  BY QuotaGuards DEF WithinQuota
<1> QED BY <1>1, <1>2, <1>3, PTL DEF DoorSpec, AdmissionsWithinQuota

=============================================================================
