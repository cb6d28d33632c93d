--------------------------- MODULE RequestLifeProofs ---------------------------
(***************************************************************************)
(* Turns are served where and as they were asked for, each round is paid   *)
(* for once, and the limits follow the use, for any number of              *)
(* conversations, accounts, channels, groups and settings; what is read of *)
(* the attempts page by page, or as they are recorded, is whole; and the   *)
(* pages of the statistics agree with each other and with what was         *)
(* recorded.                                                               *)
(***************************************************************************)
EXTENDS RequestLife, UsageBooksProofs

-----------------------------------------------------------------------------
(* A turn in progress.                                                     *)

OpenFields == {"phase", "req", "chain", "link", "pin", "tried", "attempts", "emitted",
               "cred", "source", "usage", "fault", "said", "spent", "heard"}
SourceFields == {"carried", "parts", "rounds", "finish", "usage"}

\* The one channel a request may be served on, if it names one.
LaneOf(req) == IF req.binding # Anywhere THEN req.binding ELSE req.name.channel

\* The chain of a request that names its channel has one link, on that channel.
LaneChained(t) ==
  LaneOf(t.req) # Anywhere =>
    t.chain = <<Target(t.req.name.model, {LaneOf(t.req)}, TRUE)>>

InLane(t) ==
  LaneOf(t.req) # Anywhere => t.link = 1 /\ ProviderOf[t.cred] = LaneOf(t.req)

\* What was said is in the request of this round or of this round, and what was spent
\* is known to the stream; once another round began, to the executor.
SumsUp(t) ==
  /\ t.spent \in Nat
  /\ t.source.carried \in Nat /\ t.source.parts \in Nat
  /\ t.source.carried + t.source.parts = t.said
  /\ t.source.usage = t.spent
  /\ t.spent # 0 => t.usage = t.spent

\* The client has heard nothing, or this credential with this model.
HearsOne(t) ==
  /\ t.heard \subseteq {<<t.chain[t.link].model, t.cred>>}
  /\ t.heard # {} => t.emitted

\* A turn whose next attempt may begin.
Ready(t) ==
  /\ DOMAIN t = OpenFields
  /\ t.emitted \in BOOLEAN
  /\ LaneChained(t)

OpenSound(t) ==
  /\ Ready(t) /\ DOMAIN t.source = SourceFields
  /\ t.phase \in {"open", "closing"}
  /\ InLane(t) /\ SumsUp(t) /\ HearsOne(t)

IdleSound(t) == \E billed : t = Idle(billed, billed)

TurnsInv ==
  /\ setting \in Settings
  /\ DOMAIN turn = Talkers
  /\ \A v \in Talkers : IdleSound(turn[v]) \/ OpenSound(turn[v])

LEMMA IdleParts ==
  ASSUME NEW billed, NEW owed
  PROVE  /\ Idle(billed, owed).phase = "idle" /\ Idle(billed, owed).billed = billed
         /\ Idle(billed, owed).owed = owed /\ Idle(billed, owed).heard = {}
BY DEF Idle

\* The next attempt of a turn that has said nothing yet.
LEMMA AttemptSound ==
  ASSUME NEW t, Ready(t), ~t.emitted, t.heard = {}, NEW k, NEW pin, NEW c,
         LaneOf(t.req) # Anywhere => k = 1 /\ ProviderOf[c] = LaneOf(t.req)
  PROVE  OpenSound(Attempt(t, k, pin, c))
<1> DEFINE u == Attempt(t, k, pin, c)
<1>1. /\ DOMAIN u = OpenFields
      /\ u.phase = "open" /\ u.req = t.req /\ u.chain = t.chain /\ u.link = k /\ u.cred = c
      /\ u.emitted = t.emitted /\ u.heard = t.heard /\ u.source = NewStream
      /\ u.said = 0 /\ u.spent = 0
  BY DEF Attempt, Ready, OpenFields
<1> HIDE DEF u
<1>2. DOMAIN NewStream = SourceFields /\ NewStream.carried = 0 /\ NewStream.parts = 0 /\ NewStream.usage = 0
  BY DEF NewStream, SourceFields
<1>3. Ready(u)
  BY <1>1 DEF Ready, LaneChained
<1>4. InLane(u)
  BY <1>1 DEF InLane
<1>5. SumsUp(u)
  BY <1>1, <1>2 DEF SumsUp
<1>6. HearsOne(u)
  BY <1>1 DEF HearsOne
<1> QED BY <1>1, <1>2, <1>3, <1>4, <1>5, <1>6 DEF OpenSound, u

LEMMA OneLong == \A x : <<x>>[1] = x /\ Len(<<x>>) = 1
OBVIOUS

\* Who is chosen for a link of a lane is of its channel.
LEMMA ChoiceInLane ==
  ASSUME NEW t, LaneChained(t), LaneOf(t.req) # Anywhere, NEW pin, NEW seen,
         NEW c \in Choice(t, 1, pin, seen)
  PROVE  ProviderOf[c] = LaneOf(t.req)
<1>1. c \in Choosable(t, 1)
  BY DEF Choice
<1>2. t.chain[1] = Target(t.req.name.model, {LaneOf(t.req)}, TRUE)
  BY OneLong DEF LaneChained
<1>3. t.chain[1].channels = {LaneOf(t.req)} /\ t.chain[1].forced = TRUE
  BY <1>2 DEF Target
<1>4. Narrowed(t.chain[1], register) = {LaneOf(t.req)}
  BY <1>3 DEF Narrowed
<1> QED BY <1>1, <1>4 DEF Choosable

\* Seeking ends with a sound attempt or in idleness.
LEMMA SeeksSound ==
  ASSUME TurnsInv, NEW v \in Talkers, NEW t, Ready(t), ~t.emitted, t.heard = {},
         NEW from, LaneOf(t.req) # Anywhere => from \in Nat \ {0},
         NEW use, Seeks(v, t, from, use), setting' = setting
  PROVE  TurnsInv'
<1>1. PICK u : /\ turn' = [turn EXCEPT ![v] = u]
               /\ IdleSound(u) \/ OpenSound(u)
  <2>1. PICK found \in {Found(v, t.req)}, seen \in {Loaded(snapshot, limits, use)} :
          LET pin(k) == IF t.attempts = 0 \/ (t.req.kind = "plain" /\ k # t.link)
                        THEN found.cred ELSE t.pin
          IN \E open \in {{k \in from..Len(t.chain) : Choice(t, k, pin(k), seen) # {}}} :
               LET last == IF open = {} THEN Len(t.chain) ELSE Min(open)
                   asks == t.attempts = 0 \/ (t.req.kind = "plain" /\ last # t.link)
               IN /\ IF open = {} THEN turn' = [turn EXCEPT ![v] = Idle(0, 0)]
                     ELSE \E c \in Choice(t, last, pin(last), seen) :
                            turn' = [turn EXCEPT ![v] = Attempt(t, last, pin(last), c)]
                  /\ snapshot' = IF \E k \in from..last : Choosable(t, k) # {}
                                 THEN seen ELSE snapshot
                  /\ table' = IF asks THEN found.table ELSE table
                  /\ IF asks /\ found.cred # Nobody THEN Recent(v, found.cred)
                     ELSE UNCHANGED <<home, order>>
    BY Zenon DEF Seeks
  <2> DEFINE pin(k) == IF t.attempts = 0 \/ (t.req.kind = "plain" /\ k # t.link)
                       THEN found.cred ELSE t.pin
             open == {k \in from..Len(t.chain) : Choice(t, k, pin(k), seen) # {}}
  <2>2. CASE open = {}
    BY <2>1, <2>2 DEF IdleSound
  <2>3. CASE open # {}
    <3>1. PICK c \in Choice(t, Min(open), pin(Min(open)), seen) :
            turn' = [turn EXCEPT ![v] = Attempt(t, Min(open), pin(Min(open)), c)]
      BY <2>1, <2>3
    <3> DEFINE k == Min(open)
    <3>5. ASSUME LaneOf(t.req) # Anywhere
          PROVE  k = 1 /\ ProviderOf[c] = LaneOf(t.req)
      <4>1. Len(t.chain) = 1
        BY <3>5, OneLong DEF Ready, LaneChained
      <4>2. open \in SUBSET (from..1)
        BY <4>1
      <4> HIDE DEF open
      <4>3. k \in from..1
        <5>1. open \in SUBSET Nat
          BY <3>5, <4>2
        <5> QED BY <2>3, <4>2, <5>1, LeastNumber
      <4>4. k = 1
        BY <3>5, <4>3
      <4> HIDE DEF pin
      <4> QED BY <3>1, <3>5, <4>4, ChoiceInLane DEF Ready
    <3> HIDE DEF open
    <3>6. OpenSound(Attempt(t, k, pin(k), c))
      <4> HIDE DEF pin
      <4> QED BY <3>5, AttemptSound
    <3>7. turn' = [turn EXCEPT ![v] = Attempt(t, k, pin(k), c)]
      BY <3>1 DEF k
    <3> HIDE DEF pin
    <3> QED BY <3>6, <3>7
  <2> QED BY <2>2, <2>3
<1> QED BY <1>1 DEF TurnsInv

\* The chain of a request that names its channel is that one target.
LEMMA NewTurnReady ==
  ASSUME NEW req, NEW groups, NEW listed
  PROVE  LET t == NewTurn(req, Chain(ResolveTarget(req.name, req.binding), groups, listed))
         IN Ready(t) /\ ~t.emitted /\ t.heard = {}
<1> DEFINE target == ResolveTarget(req.name, req.binding)
           chain == Chain(target, groups, listed)
<1>1. CASE LaneOf(req) # Anywhere
  <2>1. target = Target(req.name.model, {LaneOf(req)}, TRUE)
    BY <1>1 DEF LaneOf, ResolveTarget, Resolved
  <2>2. target.forced
    BY <2>1 DEF Target
  <2>3. chain = <<target>>
    <3> HIDE DEF target
    <3> QED BY <2>2 DEF Chain
  <2> HIDE DEF chain, target
  <2>4. chain = <<Target(req.name.model, {LaneOf(req)}, TRUE)>>
    BY <2>1, <2>3
  <2> QED BY <2>4 DEF NewTurn, Ready, LaneChained, OpenFields, chain, target
<1>2. CASE LaneOf(req) = Anywhere
  <2> HIDE DEF chain, target
  <2> QED BY <1>2 DEF NewTurn, Ready, LaneChained, OpenFields, chain, target
<1> QED BY <1>1, <1>2

\* A turn changes to a sound one.
LEMMA OneTurnSound ==
  ASSUME TurnsInv, NEW v \in Talkers, NEW u, IdleSound(u) \/ OpenSound(u),
         turn' = [turn EXCEPT ![v] = u], setting' = setting
  PROVE  TurnsInv'
BY DEF TurnsInv

LEMMA NotIdle ==
  ASSUME TurnsInv, NEW v \in Talkers, turn[v].phase # "idle"
  PROVE  OpenSound(turn[v])
BY IdleParts DEF TurnsInv, IdleSound

\* What an attempt may change of a turn without harm.
LEMMA Broken ==
  ASSUME NEW t, Ready(t), DOMAIN t.source = SourceFields, InLane(t), SumsUp(t), HearsOne(t),
         NEW fault, NEW tried
  PROVE  OpenSound([t EXCEPT !.phase = "closing", !.fault = fault, !.tried = tried])
<1> DEFINE u == [t EXCEPT !.phase = "closing", !.fault = fault, !.tried = tried]
<1>1. /\ DOMAIN u = OpenFields
      /\ u.phase = "closing" /\ u.req = t.req /\ u.chain = t.chain /\ u.link = t.link
      /\ u.cred = t.cred /\ u.emitted = t.emitted /\ u.heard = t.heard /\ u.source = t.source
      /\ u.said = t.said /\ u.spent = t.spent /\ u.usage = t.usage
  BY DEF Ready, OpenFields
<1> HIDE DEF u
<1>2. Ready(u) /\ InLane(u) /\ SumsUp(u) /\ HearsOne(u)
  BY <1>1 DEF Ready, LaneChained, InLane, SumsUp, HearsOne
<1> QED BY <1>1, <1>2 DEF OpenSound, u

LEMMA BreaksOffSound ==
  ASSUME TurnsInv, NEW v \in Talkers, NEW t, Ready(t), DOMAIN t.source = SourceFields,
         InLane(t), SumsUp(t), HearsOne(t), NEW fault, BreaksOff(v, t, fault)
  PROVE  TurnsInv'
<1> DEFINE tried == IF fault = "reject"
                    THEN t.tried \cup {c \in Cred : ProviderOf[c] = ProviderOf[t.cred]}
                    ELSE t.tried
<1>1. [t EXCEPT !.phase = "closing", !.fault = fault,
                !.tried = IF fault = "reject"
                          THEN @ \cup {c \in Cred : ProviderOf[c] = ProviderOf[t.cred]}
                          ELSE @]
        = [t EXCEPT !.phase = "closing", !.fault = fault, !.tried = tried]
  BY DEF Ready, OpenFields
<1> HIDE DEF tried
<1>2. turn' = [turn EXCEPT ![v] = [t EXCEPT !.phase = "closing", !.fault = fault, !.tried = tried]]
  BY <1>1 DEF BreaksOff
<1>3. setting' = setting
  BY DEF BreaksOff
<1> QED BY <1>2, <1>3, Broken, OneTurnSound

LEMMA OpensSound ==
  ASSUME TurnsInv, NEW v \in Talkers, NEW req, Opens(v, req)
  PROVE  TurnsInv'
<1> DEFINE chain == Chain(ResolveTarget(req.name, req.binding), setting.groups, register)
           t == NewTurn(req, chain)
<1>1. Seeks(v, t, 1, used) /\ setting' = setting
  BY DEF Opens
<1>2. Ready(t) /\ ~t.emitted /\ t.heard = {}
  BY NewTurnReady
<1> HIDE DEF t
<1> QED BY <1>1, <1>2, SeeksSound

LEMMA SaysSound ==
  ASSUME TurnsInv, NEW v \in Talkers, NEW thought, Says(v, thought)
  PROVE  TurnsInv'
<1> DEFINE t == turn[v]
           shown == t.req.kind = "stream" /\ ~(thought /\ setting.hide)
           u == [t EXCEPT !.source = Piece(@), !.said = @ + 1,
                          !.emitted = @ \/ shown,
                          !.heard = IF shown THEN @ \cup {<<t.chain[t.link].model, t.cred>>} ELSE @]
<1>0. t.phase = "open" /\ turn' = [turn EXCEPT ![v] = u] /\ setting' = setting
  BY DEF Says, Streams
<1>1. OpenSound(t)
  BY <1>0, NotIdle
<1> HIDE DEF t
<1> DEFINE spoken == Piece(t.source)
<1>2. /\ DOMAIN u = OpenFields
      /\ u.phase = t.phase /\ u.req = t.req /\ u.chain = t.chain /\ u.link = t.link
      /\ u.cred = t.cred /\ u.source = spoken /\ u.said = t.said + 1
      /\ u.spent = t.spent /\ u.usage = t.usage
      /\ u.emitted = (t.emitted \/ shown)
      /\ u.heard = IF shown THEN t.heard \cup {<<t.chain[t.link].model, t.cred>>} ELSE t.heard
  <2> HIDE DEF shown
  <2> QED BY <1>1 DEF OpenSound, Ready, OpenFields
<1>3. /\ DOMAIN spoken = SourceFields /\ spoken.carried = t.source.carried
      /\ spoken.parts = t.source.parts + 1 /\ spoken.usage = t.source.usage
  BY <1>1 DEF OpenSound, Piece, SourceFields
<1> HIDE DEF u, spoken, shown
<1>4. t.emitted \in BOOLEAN /\ shown \in BOOLEAN
  BY <1>1 DEF OpenSound, Ready, shown
<1>5. Ready(u) /\ InLane(u)
  BY <1>1, <1>2, <1>4 DEF OpenSound, Ready, LaneChained, InLane
<1>6. SumsUp(u)
  BY <1>1, <1>2, <1>3 DEF OpenSound, SumsUp
<1>7. HearsOne(u)
  BY <1>1, <1>2, <1>4 DEF OpenSound, HearsOne
<1>8. OpenSound(u)
  BY <1>1, <1>2, <1>3, <1>5, <1>6, <1>7 DEF OpenSound
<1> QED BY <1>0, <1>8, OneTurnSound

\* A round that is over: the translator has not been told of its use yet.
AfterRound(t, reason, spent) ==
  [t EXCEPT !.source = RoundEnds(@, reason, spent), !.spent = @ + spent]

LEMMA RoundBehind ==
  ASSUME NEW t, OpenSound(t), NEW reason, NEW spent \in Nat
  PROVE  LET u == AfterRound(t, reason, spent) IN
         /\ Ready(u) /\ DOMAIN u.source = SourceFields
         /\ u.phase = t.phase /\ u.fault = t.fault
         /\ InLane(u) /\ HearsOne(u)
         /\ u.spent \in Nat /\ u.source.usage = u.spent
         /\ u.source.carried \in Nat /\ u.source.parts \in Nat
         /\ u.source.carried + u.source.parts = u.said
         /\ u.usage = t.usage /\ (t.spent # 0 => t.usage = t.spent)
         /\ u.spent = t.spent + spent /\ t.spent \in Nat
<1> DEFINE u == AfterRound(t, reason, spent)
           over == RoundEnds(t.source, reason, spent)
<1>1. /\ DOMAIN u = OpenFields
      /\ u.phase = t.phase /\ u.req = t.req /\ u.chain = t.chain /\ u.link = t.link
      /\ u.cred = t.cred /\ u.emitted = t.emitted /\ u.heard = t.heard /\ u.source = over
      /\ u.said = t.said /\ u.spent = t.spent + spent /\ u.usage = t.usage /\ u.fault = t.fault
  BY DEF OpenSound, Ready, OpenFields, AfterRound
<1>2. /\ DOMAIN over = SourceFields /\ over.carried = t.source.carried
      /\ over.parts = t.source.parts /\ over.usage = t.source.usage + spent
  BY DEF OpenSound, RoundEnds, SourceFields
<1> HIDE DEF u, over
<1>3. Ready(u) /\ InLane(u) /\ HearsOne(u)
  BY <1>1 DEF OpenSound, Ready, LaneChained, InLane, HearsOne
<1> QED BY <1>1, <1>2, <1>3 DEF OpenSound, SumsUp, u

LEMMA RoundOverSound ==
  ASSUME TurnsInv, NEW v \in Talkers, NEW reason, NEW spent \in Nat, RoundOver(v, reason, spent)
  PROVE  TurnsInv'
<1> DEFINE t == AfterRound(turn[v], reason, spent)
<1>1. OpenSound(turn[v]) /\ turn[v].phase = "open"
  BY NotIdle DEF RoundOver, Streams
<1>2. turn[v].fault # "none" => spent = 0
  BY DEF RoundOver
<1>3. \/ /\ turn' = [turn EXCEPT ![v] = [t EXCEPT !.source = NextRound(@), !.usage = Told(t.source, @)]]
         /\ setting' = setting
      \/ Succeeds(v, t)
      \/ t.fault # "none" /\ BreaksOff(v, t, t.fault)
  BY DEF RoundOver, AfterRound
<1>4. /\ Ready(t) /\ DOMAIN t.source = SourceFields
      /\ t.phase = "open" /\ t.fault = turn[v].fault
      /\ InLane(t) /\ HearsOne(t)
      /\ t.spent \in Nat /\ t.source.usage = t.spent
      /\ t.source.carried \in Nat /\ t.source.parts \in Nat
      /\ t.source.carried + t.source.parts = t.said
      /\ t.usage = turn[v].usage /\ (turn[v].spent # 0 => turn[v].usage = turn[v].spent)
      /\ t.spent = turn[v].spent + spent /\ turn[v].spent \in Nat
  BY <1>1, RoundBehind
<1> HIDE DEF t
<1>5. CASE /\ turn' = [turn EXCEPT ![v] = [t EXCEPT !.source = NextRound(@), !.usage = Told(t.source, @)]]
           /\ setting' = setting
  <2> DEFINE u == [t EXCEPT !.source = NextRound(@), !.usage = Told(t.source, @)]
             next == NextRound(t.source)
             told == Told(t.source, t.usage)
  <2>1. /\ DOMAIN u = OpenFields
        /\ u.phase = t.phase /\ u.req = t.req /\ u.chain = t.chain /\ u.link = t.link
        /\ u.cred = t.cred /\ u.emitted = t.emitted /\ u.heard = t.heard /\ u.source = next
        /\ u.said = t.said /\ u.spent = t.spent /\ u.usage = told
    BY <1>4 DEF Ready, OpenFields
  <2>2. /\ DOMAIN next = SourceFields /\ next.carried = t.source.carried + t.source.parts
        /\ next.parts = 0 /\ next.usage = t.source.usage
    BY <1>4 DEF NextRound, SourceFields
  <2>3. t.spent # 0 => told = t.spent
    BY <1>4 DEF Told
  <2> HIDE DEF u, next, told
  <2>4. Ready(u) /\ InLane(u) /\ HearsOne(u)
    BY <1>4, <2>1 DEF Ready, LaneChained, InLane, HearsOne
  <2>5. SumsUp(u)
    BY <1>4, <2>1, <2>2, <2>3 DEF SumsUp
  <2>6. OpenSound(u)
    BY <1>4, <2>1, <2>2, <2>4, <2>5 DEF OpenSound
  <2>7. turn' = [turn EXCEPT ![v] = u] /\ setting' = setting
    BY <1>5 DEF u
  <2> QED BY <2>6, <2>7, OneTurnSound
<1>6. CASE Succeeds(v, t)
  <2> DEFINE known == Told(t.source, t.usage)
             owed == IF t.spent = 0 THEN known ELSE t.spent
  <2>1. turn' = [turn EXCEPT ![v] = Idle(known, owed)] /\ setting' = setting
    BY <1>6 DEF Succeeds
  <2>2. known = owed
    BY <1>4 DEF Told
  <2> HIDE DEF known, owed
  <2>3. IdleSound(Idle(known, owed))
    BY <2>2 DEF IdleSound
  <2> QED BY <2>1, <2>3, OneTurnSound
<1>7. CASE t.fault # "none" /\ BreaksOff(v, t, t.fault)
  <2>1. SumsUp(t)
    BY <1>2, <1>4, <1>7 DEF SumsUp
  <2> QED BY <1>4, <1>7, <2>1, BreaksOffSound
<1> QED BY <1>3, <1>5, <1>6, <1>7

LEMMA FaultsSound ==
  ASSUME TurnsInv, NEW v \in Talkers, NEW fault, Fails(v, fault) \/ Collects(v, fault)
  PROVE  TurnsInv'
<1>1. OpenSound(turn[v])
  BY NotIdle DEF Fails, Collects, Streams
<1>2. CASE Fails(v, fault)
  <2>1. BreaksOff(v, turn[v], fault)
    BY <1>2 DEF Fails
  <2> QED BY <1>1, <2>1, BreaksOffSound DEF OpenSound
<1>3. CASE Collects(v, fault)
  <2> DEFINE t == turn[v]
             u == [t EXCEPT !.fault = fault]
  <2>1. turn' = [turn EXCEPT ![v] = u] /\ setting' = setting
    BY <1>3 DEF Collects, TurnsInv
  <2> HIDE DEF t
  <2>2. /\ DOMAIN u = OpenFields
        /\ u.phase = t.phase /\ u.req = t.req /\ u.chain = t.chain /\ u.link = t.link
        /\ u.cred = t.cred /\ u.emitted = t.emitted /\ u.heard = t.heard /\ u.source = t.source
        /\ u.said = t.said /\ u.spent = t.spent /\ u.usage = t.usage
    BY <1>1 DEF OpenSound, Ready, OpenFields, t
  <2>3. OpenSound(t)
    BY <1>1 DEF t
  <2> HIDE DEF u
  <2>4. OpenSound(u)
    BY <2>2, <2>3 DEF OpenSound, Ready, LaneChained, InLane, SumsUp, HearsOne
  <2> QED BY <2>1, <2>4, OneTurnSound
<1> QED BY <1>2, <1>3

LEMMA GoesOnSound ==
  ASSUME TurnsInv, NEW v \in Talkers, GoesOn(v)
  PROVE  TurnsInv'
<1> DEFINE t == turn[v]
           unknown == t.req.kind = "plain" \/ t.fault = "reject"
           billed == IF unknown THEN 0 ELSE t.usage
           owed == IF unknown \/ t.spent = 0 THEN billed ELSE t.spent
<1>1. /\ t.phase = "closing" /\ setting' = setting
      /\ \/ ~OutOfLink(t) /\ Seeks(v, t, t.link, used)
         \/ ~t.emitted /\ Seeks(v, t, t.link + 1, used')
         \/ turn' = [turn EXCEPT ![v] = Idle(billed, owed)]
  BY DEF GoesOn
<1>2. OpenSound(t)
  BY <1>1, NotIdle
<1> HIDE DEF t
<1>3. /\ Ready(t) /\ (LaneOf(t.req) # Anywhere => t.link = 1)
      /\ (~t.emitted => t.heard = {})
  BY <1>2 DEF OpenSound, InLane, HearsOne
<1>4. CASE ~OutOfLink(t) /\ Seeks(v, t, t.link, used)
  <2>1. ~t.emitted
    BY <1>4 DEF OutOfLink
  <2>2. LaneOf(t.req) # Anywhere => t.link \in Nat \ {0}
    BY <1>3
  <2> QED BY <1>1, <1>3, <1>4, <2>1, <2>2, SeeksSound
<1>5. CASE ~t.emitted /\ Seeks(v, t, t.link + 1, used')
  <2>2. LaneOf(t.req) # Anywhere => t.link + 1 \in Nat \ {0}
    BY <1>3
  <2> QED BY <1>1, <1>3, <1>5, <2>2, SeeksSound
<1>6. CASE turn' = [turn EXCEPT ![v] = Idle(billed, owed)]
  <2>1. billed = owed
    BY <1>2 DEF OpenSound, SumsUp
  <2> HIDE DEF billed, owed
  <2>2. IdleSound(Idle(billed, owed))
    BY <2>1 DEF IdleSound
  <2> QED BY <1>1, <1>6, <2>2, OneTurnSound
<1> QED BY <1>1, <1>4, <1>5, <1>6

LEMMA LeavesSound ==
  ASSUME TurnsInv, NEW v \in Talkers, Leaves(v)
  PROVE  TurnsInv'
<1> DEFINE t == turn[v]
           owed == IF t.spent = 0 THEN t.usage ELSE t.spent
<1>1. /\ t.phase # "idle" /\ setting' = setting
      /\ \/ turn' = [turn EXCEPT ![v] = Idle(t.usage, owed)]
         \/ turn' = [turn EXCEPT ![v] = Idle(0, 0)]
  BY DEF Leaves
<1>2. OpenSound(t)
  BY <1>1, NotIdle
<1> HIDE DEF t
<1>3. t.usage = owed
  BY <1>2 DEF OpenSound, SumsUp
<1> HIDE DEF owed
<1>4. IdleSound(Idle(t.usage, owed)) /\ IdleSound(Idle(0, 0))
  BY <1>3 DEF IdleSound
<1> QED BY <1>1, <1>4, OneTurnSound

-----------------------------------------------------------------------------
LEMMA TurnsStart == TurnsInit => TurnsInv
<1>1. IdleSound(Idle(0, 0))
  BY DEF IdleSound
<1> QED BY <1>1 DEF TurnsInit, TurnsInv

LEMMA TurnsStep == TurnsInv /\ [TurnsNext]_turnVars => TurnsInv'
<1> SUFFICES ASSUME TurnsInv, [TurnsNext]_turnVars
             PROVE  TurnsInv'
  OBVIOUS
<1>1. CASE UNCHANGED turnVars
  BY <1>1 DEF turnVars, TurnsInv, IdleSound
<1>2. ASSUME NEW v \in DOMAIN setting.requests,
             \/ \E req \in setting.requests[v] : Opens(v, req)
             \/ Upstream(v) \/ GoesOn(v) \/ Leaves(v)
      PROVE  TurnsInv'
  <2>1. v \in Talkers
    BY DEF TurnsInv, Talkers
  <2>2. CASE Upstream(v)
    <3>1. setting.spends \subseteq Nat
      BY TurnConstants DEF TurnsInv
    <3> QED BY <2>1, <2>2, <3>1, SaysSound, RoundOverSound, FaultsSound DEF Upstream
  <2> QED BY <1>2, <2>1, <2>2, OpensSound, GoesOnSound, LeavesSound
<1>3. ASSUME \/ \E c \in setting.pool : Cools(c) \/ OperatorPins(c)
             \/ \E c \in setting.capped :
                  \/ \E left \in setting.rests : Probed(c, left)
                  \/ \E caps \in setting.caps : SetLimits(c, caps)
             \/ RegisterArrives \/ Midnight \/ TimeGoesOn
      PROVE  TurnsInv'
  <2>1. UNCHANGED <<setting, turn>>
    BY <1>3 DEF Cools, OperatorPins, Probed, SetLimits, RegisterArrives, Midnight, TimeGoesOn
  <2> QED BY <2>1 DEF TurnsInv
<1> QED BY <1>1, <1>2, <1>3 DEF TurnsNext

LEMMA TurnsServed == TurnsInv => ServedAsAsked
<1> SUFFICES ASSUME TurnsInv, NEW v \in Talkers
             PROVE  /\ Cardinality(turn[v].heard) <= 1
                    /\ turn[v].phase # "idle" =>
                         LET req == turn[v].req
                             lane == IF req.binding # Anywhere THEN req.binding
                                     ELSE req.name.channel
                         IN lane # Anywhere =>
                              /\ ProviderOf[turn[v].cred] = lane
                              /\ turn[v].chain[turn[v].link].model = req.name.model
                    /\ IF turn[v].phase = "idle" THEN turn[v].billed = turn[v].owed
                       ELSE turn[v].source.carried + turn[v].source.parts = turn[v].said
  BY DEF ServedAsAsked, KeepsToItsLane, RoundsAddUp
<1>1. CASE IdleSound(turn[v])
  BY <1>1, IdleParts, FS_EmptySet DEF IdleSound
<1>2. CASE OpenSound(turn[v])
  <2> DEFINE t == turn[v]
             one == <<t.chain[t.link].model, t.cred>>
  <2>1. Cardinality(t.heard) <= 1
    <3>1. t.heard = {} \/ t.heard = {one}
      BY <1>2 DEF OpenSound, HearsOne
    <3>2. Cardinality({}) = 0 /\ Cardinality({one}) = 1
      BY FS_EmptySet, FS_Singleton
    <3> HIDE DEF one
    <3> QED BY <3>1, <3>2
  <2>2. LaneOf(t.req) # Anywhere => t.chain[t.link].model = t.req.name.model
    BY <1>2, OneLong DEF OpenSound, Ready, LaneChained, InLane, Target
  <2> QED BY <1>2, <2>1, <2>2 DEF OpenSound, InLane, LaneOf, SumsUp
<1> QED BY <1>1, <1>2 DEF TurnsInv

\* Whoever named a channel is served by it with his model, one turn is heard from one
\* model of one credential, and each round is said and paid for once, whatever the
\* conversations, the pool and the settings are (executor.stream and complete).
THEOREM TurnsServedAsAsked == TurnsSpec => []ServedAsAsked
BY TurnsStart, TurnsStep, TurnsServed, PTL DEF TurnsSpec

-----------------------------------------------------------------------------
(* The guard of the limits.                                                *)

SnapshotFields == {"age", "limits", "used"}

\* While a snapshot is read, its caps are the caps, and where its verdict is not the
\* one on today's use, that verdict is no older than the snapshot.
SnapshotSound(snap, lim, use, since) ==
  /\ DOMAIN snap = SnapshotFields
  /\ snap.age \in 0..SnapshotTTL
  /\ snap.age < SnapshotTTL =>
       /\ snap.limits = lim
       /\ \A c \in Cred, m \in Model :
            Verdict(snap.used, lim, c, m) # Verdict(use, lim, c, m) => since[c][m] <= snap.age

GuardSound(snap, lim, use, since) ==
  /\ since \in [Cred -> [Model -> 0..SnapshotTTL]]
  /\ DOMAIN lim = Cred
  /\ \A c \in Cred : lim[c].keep \in Int
  /\ snap = NoSnapshot \/ SnapshotSound(snap, lim, use, since)

GuardInv == setting \in Settings /\ GuardSound(snapshot, limits, used, steady)

\* What _load returns is sound, and it is not too old to be followed.
LEMMA LoadedSound ==
  ASSUME NEW snap, NEW lim, NEW use, NEW since, GuardSound(snap, lim, use, since)
  PROVE  /\ SnapshotSound(Loaded(snap, lim, use), lim, use, since)
         /\ Loaded(snap, lim, use).age < SnapshotTTL
<1> DEFINE unused == [c \in DOMAIN use |-> [m \in DOMAIN use[c] |-> 0]]
           read == IF \A c \in DOMAIN lim : IsEmpty(lim[c]) THEN unused ELSE use
           fresh == [age |-> 0, limits |-> lim, used |-> read]
<1>1. CASE snap # NoSnapshot /\ snap.age < SnapshotTTL
  BY <1>1 DEF GuardSound, Loaded
<1>2. CASE ~(snap # NoSnapshot /\ snap.age < SnapshotTTL)
  <2>1. Loaded(snap, lim, use) = fresh
    BY <1>2, Zenon DEF Loaded
  <2> HIDE DEF unused
  <2>2. \A c \in Cred, m \in Model : Verdict(read, lim, c, m) = Verdict(use, lim, c, m)
    BY DEF GuardSound, Verdict
  <2> HIDE DEF read
  <2>3. /\ DOMAIN fresh = SnapshotFields /\ fresh.age = 0
        /\ fresh.limits = lim /\ fresh.used = read
    BY DEF SnapshotFields
  <2> HIDE DEF fresh
  <2>4. SnapshotTTL \in Nat \ {0}
    BY LimitConstants
  <2> QED BY <2>1, <2>2, <2>3, <2>4 DEF SnapshotSound
<1> QED BY <1>1, <1>2

\* A verdict that changes is young from then on.
LEMMA FollowedSound ==
  ASSUME GuardInv, Followed(used')
  PROVE  GuardSound(snapshot, limits, used', steady')
<1>1. steady' \in [Cred -> [Model -> 0..SnapshotTTL]]
  BY LimitConstants DEF GuardInv, GuardSound, Followed
<1>2. \A c \in Cred, m \in Model :
        steady'[c][m] = IF Verdict(used', limits, c, m) = Verdict(used, limits, c, m)
                        THEN steady[c][m] ELSE 0
  BY DEF Followed
<1>3. ASSUME snapshot # NoSnapshot
      PROVE  SnapshotSound(snapshot, limits, used', steady')
  <2>1. SnapshotSound(snapshot, limits, used, steady)
    BY <1>3 DEF GuardInv, GuardSound
  <2>2. ASSUME snapshot.age < SnapshotTTL, NEW c \in Cred, NEW m \in Model,
               Verdict(snapshot.used, limits, c, m) # Verdict(used', limits, c, m)
        PROVE  steady'[c][m] <= snapshot.age
    <3>1. CASE Verdict(used', limits, c, m) = Verdict(used, limits, c, m)
      BY <1>2, <2>1, <2>2, <3>1 DEF SnapshotSound
    <3>2. CASE Verdict(used', limits, c, m) # Verdict(used, limits, c, m)
      <4>1. steady'[c][m] = 0
        BY <1>2, <3>2
      <4>2. snapshot.age \in Nat
        BY <2>1 DEF SnapshotSound
      <4> QED BY <4>1, <4>2
    <3> QED BY <3>1, <3>2
  <2> QED BY <2>1, <2>2 DEF SnapshotSound
<1> QED BY <1>1, <1>3 DEF GuardInv, GuardSound

\* A row that is written, and one that is not.
LEMMA RowSound ==
  ASSUME GuardInv, NEW c, NEW m, NEW billed,
         Row(c, m, billed) \/ UNCHANGED <<used, steady>>
  PROVE  GuardSound(snapshot, limits, used', steady')
<1>1. CASE UNCHANGED <<used, steady>>
  BY <1>1 DEF GuardInv
<1>2. CASE Followed(used')
  BY <1>2, FollowedSound
<1> QED BY <1>1, <1>2 DEF Row

\* Who looks for a credential keeps the snapshot or loads a new one.
LEMMA SeeksLoads ==
  ASSUME NEW v, NEW t, NEW from, NEW use, Seeks(v, t, from, use)
  PROVE  snapshot' \in {snapshot, Loaded(snapshot, limits, use)}
<1> PICK found \in {Found(v, t.req)}, seen \in {Loaded(snapshot, limits, use)} :
          LET pin(k) == IF t.attempts = 0 \/ (t.req.kind = "plain" /\ k # t.link)
                        THEN found.cred ELSE t.pin
          IN \E open \in {{k \in from..Len(t.chain) : Choice(t, k, pin(k), seen) # {}}} :
               LET last == IF open = {} THEN Len(t.chain) ELSE Min(open)
                   asks == t.attempts = 0 \/ (t.req.kind = "plain" /\ last # t.link)
               IN /\ IF open = {} THEN turn' = [turn EXCEPT ![v] = Idle(0, 0)]
                     ELSE \E c \in Choice(t, last, pin(last), seen) :
                            turn' = [turn EXCEPT ![v] = Attempt(t, last, pin(last), c)]
                  /\ snapshot' = IF \E k \in from..last : Choosable(t, k) # {}
                                 THEN seen ELSE snapshot
                  /\ table' = IF asks THEN found.table ELSE table
                  /\ IF asks /\ found.cred # Nobody THEN Recent(v, found.cred)
                     ELSE UNCHANGED <<home, order>>
  BY Zenon DEF Seeks
<1> QED OBVIOUS

LEMMA SeeksGuarded ==
  ASSUME GuardInv, GuardSound(snapshot, limits, used', steady'),
         NEW v, NEW t, NEW from, Seeks(v, t, from, used'), UNCHANGED <<setting, limits>>
  PROVE  GuardInv'
<1>1. snapshot' \in {snapshot, Loaded(snapshot, limits, used')}
  BY SeeksLoads
<1>2. SnapshotSound(Loaded(snapshot, limits, used'), limits, used', steady')
  BY LoadedSound
<1> QED BY <1>1, <1>2 DEF GuardInv, GuardSound

\* Whoever does not look keeps the snapshot.
LEMMA RowGuarded ==
  ASSUME GuardInv, GuardSound(snapshot, limits, used', steady'),
         UNCHANGED <<setting, limits, snapshot>>
  PROVE  GuardInv'
BY DEF GuardInv

LEMMA TurnKeepsGuard ==
  ASSUME GuardInv, NEW v, NEW req,
         Opens(v, req) \/ Upstream(v) \/ GoesOn(v) \/ Leaves(v)
  PROVE  GuardInv'
<1>1. CASE Opens(v, req)
  <2>1. PICK t : Seeks(v, t, 1, used)
    BY <1>1, Zenon DEF Opens
  <2>2. UNCHANGED <<setting, limits, used, steady>>
    BY <1>1 DEF Opens
  <2> QED BY <2>1, <2>2, RowSound, SeeksGuarded
<1>2. CASE Upstream(v)
  <2>1. /\ UNCHANGED <<setting, limits, snapshot>>
        /\ UNCHANGED <<used, steady>> \/ \E t, known : Row(t.cred, t.chain[t.link].model, known)
    BY <1>2, Zenon DEF Upstream, Says, RoundOver, Succeeds, BreaksOff, Fails, Collects, guardVars
  <2> QED BY <2>1, RowSound, RowGuarded
<1>3. CASE GoesOn(v)
  <2> DEFINE t == turn[v]
             m == t.chain[t.link].model
             billed == IF t.req.kind = "plain" \/ t.fault = "reject" THEN 0 ELSE t.usage
  <2>1. /\ UNCHANGED <<setting, limits>>
        /\ UNCHANGED <<used, steady>> \/ Row(t.cred, m, billed)
        /\ UNCHANGED snapshot \/ \E from : Seeks(v, t, from, used')
    BY <1>3 DEF GoesOn
  <2> QED BY <2>1, RowSound, RowGuarded, SeeksGuarded
<1>4. CASE Leaves(v)
  <2>1. /\ UNCHANGED <<setting, limits, snapshot>>
        /\ UNCHANGED <<used, steady>> \/ Row(turn[v].cred, turn[v].chain[turn[v].link].model, turn[v].usage)
    BY <1>4 DEF Leaves
  <2> QED BY <2>1, RowSound, RowGuarded
<1> QED BY <1>1, <1>2, <1>3, <1>4

\* Snapshot and verdicts grow older together.
LEMMA TimeKeepsGuard ==
  ASSUME GuardInv, TimeGoesOn
  PROVE  GuardInv'
<1>1. steady' \in [Cred -> [Model -> 0..SnapshotTTL]]
  <2>1. \A i \in 0..SnapshotTTL : i # SnapshotTTL => i + 1 \in 0..SnapshotTTL
    BY LimitConstants
  <2>2. SnapshotTTL \in 0..SnapshotTTL
    BY LimitConstants
  <2>3. \A c \in Cred, m \in Model :
          (IF steady[c][m] = SnapshotTTL THEN SnapshotTTL ELSE steady[c][m] + 1) \in 0..SnapshotTTL
    BY <2>1, <2>2 DEF GuardInv, GuardSound
  <2> QED BY <2>3 DEF TimeGoesOn
<1>2. \A c \in Cred, m \in Model :
        steady'[c][m] = IF steady[c][m] = SnapshotTTL THEN SnapshotTTL ELSE steady[c][m] + 1
  BY DEF TimeGoesOn
<1>3. UNCHANGED <<setting, limits, used>> /\ snapshot' = SnapshotAged(snapshot)
  BY DEF TimeGoesOn
<1>4. ASSUME snapshot # NoSnapshot
      PROVE  SnapshotSound(snapshot', limits, used, steady')
  <2>1. SnapshotSound(snapshot, limits, used, steady)
    BY <1>4 DEF GuardInv, GuardSound
  <2>2. CASE snapshot.age = SnapshotTTL
    BY <1>3, <2>1, <2>2, LimitConstants DEF SnapshotAged, SnapshotSound
  <2>3. CASE snapshot.age # SnapshotTTL
    <3>1. /\ DOMAIN snapshot' = SnapshotFields /\ snapshot'.age = snapshot.age + 1
          /\ snapshot'.limits = snapshot.limits /\ snapshot'.used = snapshot.used
      BY <1>3, <1>4, <2>1, <2>3 DEF SnapshotAged, SnapshotSound, SnapshotFields
    <3>2. snapshot.age \in 0..(SnapshotTTL - 1)
      BY <2>1, <2>3, LimitConstants DEF SnapshotSound
    <3>3. ASSUME NEW c \in Cred, NEW m \in Model,
                 Verdict(snapshot.used, limits, c, m) # Verdict(used, limits, c, m)
          PROVE  steady'[c][m] <= snapshot.age + 1
      <4>1. steady[c][m] <= snapshot.age
        BY <2>1, <3>2, <3>3, LimitConstants DEF SnapshotSound
      <4>2. steady[c][m] \in 0..SnapshotTTL
        BY DEF GuardInv, GuardSound
      <4> QED BY <1>2, <3>2, <4>1, <4>2, LimitConstants
    <3>4. snapshot.limits = limits
      BY <2>1, <3>2, LimitConstants DEF SnapshotSound
    <3> QED BY <3>1, <3>2, <3>3, <3>4, LimitConstants DEF SnapshotSound
  <2> QED BY <2>2, <2>3
<1>5. ASSUME snapshot = NoSnapshot
      PROVE  snapshot' = NoSnapshot
  BY <1>3, <1>5 DEF SnapshotAged
<1> QED BY <1>1, <1>3, <1>4, <1>5 DEF GuardInv, GuardSound

LEMMA GuardStart == TurnsInit => GuardInv
<1> SUFFICES ASSUME TurnsInit PROVE GuardInv
  OBVIOUS
<1>1. DOMAIN limits = Cred /\ \A c \in Cred : limits[c].keep = 0
  BY DEF TurnsInit, Caps
<1>2. steady \in [Cred -> [Model -> 0..SnapshotTTL]]
  BY LimitConstants DEF TurnsInit
<1>3. setting \in Settings /\ snapshot = NoSnapshot
  BY DEF TurnsInit
<1> QED BY <1>1, <1>2, <1>3 DEF GuardInv, GuardSound

LEMMA GuardStep == GuardInv /\ [TurnsNext]_turnVars => GuardInv'
<1> SUFFICES ASSUME GuardInv, [TurnsNext]_turnVars
             PROVE  GuardInv'
  OBVIOUS
<1>1. CASE UNCHANGED turnVars
  BY <1>1 DEF turnVars, guardVars, GuardInv
<1>2. ASSUME NEW v \in DOMAIN setting.requests,
             \/ \E req \in setting.requests[v] : Opens(v, req)
             \/ Upstream(v) \/ GoesOn(v) \/ Leaves(v)
      PROVE  GuardInv'
  BY <1>2, TurnKeepsGuard
<1>3. CASE \/ \E c \in setting.pool : Cools(c) \/ OperatorPins(c)
           \/ \E c \in setting.capped, left \in setting.rests : Probed(c, left)
           \/ RegisterArrives
  <2>1. UNCHANGED <<setting, guardVars>>
    BY <1>3, Zenon DEF Cools, OperatorPins, Probed, RegisterArrives
  <2> QED BY <2>1 DEF guardVars, GuardInv
<1>4. ASSUME NEW c \in setting.capped, NEW caps \in setting.caps, SetLimits(c, caps)
      PROVE  GuardInv'
  <2>1. caps.keep \in Nat
    BY TurnConstants DEF GuardInv
  <2>2. DOMAIN limits' = Cred /\ \A d \in Cred : limits'[d].keep \in Int
    BY <1>4, <2>1 DEF SetLimits, GuardInv, GuardSound
  <2>3. steady' \in [Cred -> [Model -> 0..SnapshotTTL]]
    BY <1>4, LimitConstants DEF SetLimits
  <2> QED BY <1>4, <2>2, <2>3 DEF SetLimits, GuardInv, GuardSound
<1>5. CASE Midnight
  <2>1. UNCHANGED <<setting, limits, snapshot>> /\ Followed(used')
    BY <1>5 DEF Midnight
  <2> QED BY <2>1, FollowedSound, RowGuarded
<1> QED BY <1>1, <1>2, <1>3, <1>4, <1>5, TimeKeepsGuard DEF TurnsNext

\* Where the verdict has stood for as long as a snapshot is kept, the guard gives it.
LEMMA GuardFollows == GuardInv => LimitsFollowUse
<1> SUFFICES ASSUME GuardInv, NEW c \in Cred, NEW m \in Model, steady[c][m] = SnapshotTTL
             PROVE  LimitBlocked(Loaded(snapshot, limits, used), c, m, rest[c])
                      <=> RestKept(limits[c], rest[c]) \/ Verdict(used, limits, c, m)
  BY DEF LimitsFollowUse
<1> DEFINE seen == Loaded(snapshot, limits, used)
<1>1. SnapshotSound(seen, limits, used, steady) /\ seen.age < SnapshotTTL
  BY LoadedSound DEF GuardInv
<1> HIDE DEF seen
<1>2. seen.limits = limits /\ Verdict(seen.used, limits, c, m) = Verdict(used, limits, c, m)
  <2>1. seen.age \in 0..SnapshotTTL
    BY <1>1 DEF SnapshotSound
  <2>2. ~(steady[c][m] <= seen.age)
    BY <1>1, <2>1, LimitConstants
  <2> QED BY <1>1, <2>2 DEF SnapshotSound
<1>3. RestKept(limits[c], rest[c]) => ~IsEmpty(limits[c])
  BY DEF RestKept, IsEmpty, GuardInv, GuardSound
<1> QED BY <1>2, <1>3 DEF LimitBlocked, Verdict, seen

\* Once the verdict on today's use has stood as long as a snapshot is kept, the guard
\* gives it, whatever the caps, the use and the length of a day are (limits._load, blocked).
THEOREM LimitsAreFollowed == TurnsSpec => []LimitsFollowUse
BY GuardStart, GuardStep, GuardFollows, PTL DEF TurnsSpec

-----------------------------------------------------------------------------
\* Turns go on as they would alone, whatever else is followed.
LEMMA TurnsWithin == RequestLifeInit => TurnsInit
BY DEF RequestLifeInit

LEMMA TurnsStepWithin == [RequestLifeNext]_requestLifeVars => [TurnsNext]_turnVars
BY Zenon DEF RequestLifeNext, requestLifeVars

\* The life of requests is, seen from the conversations, a behaviour of the turns: what
\* is asked of upstreams and what is read of the books decides nothing there.
THEOREM RequestsTakeTurns == RequestLifeSpec => TurnsSpec
BY TurnsWithin, TurnsStepWithin, PTL DEF RequestLifeSpec, TurnsSpec

-----------------------------------------------------------------------------
(* The list of attempts, read page by page while attempts are recorded and *)
(* deleted.                                                                *)

\* Rows of the table: numbers of attempts and of rows belong to one row each.
EventsSound ==
  /\ written \in Nat /\ IsFiniteSet(usage)
  /\ \A r \in usage : r.id \in 0 .. written - 1 /\ r.rowid \in 1 .. written
  /\ \A r, q \in usage : r.id = q.id \/ r.rowid = q.rowid => r = q

\* While the list is read, what stands was shown if it is not older than the last row
\* shown, and what is older was not; in the end all that was there at first was shown.
ReaderSound ==
  LET told == UNION Range(reader.seen) IN
  /\ DOMAIN reader = {"at", "wish", "before", "seen", "begun"}
  /\ reader.at \in {"reading", "done"}
  /\ reader.seen \in Seq(SUBSET Nat)
  /\ told \cup reader.begun \subseteq 0 .. written - 1
  /\ \A i, j \in DOMAIN reader.seen : i # j => reader.seen[i] \cap reader.seen[j] = {}
  /\ \A r \in usage : r.id \in reader.begun => Matches(r, reader.wish)
  /\ reader.at = "reading" =>
       /\ reader.before \in Nat \cup {Null}
       /\ \A r \in usage : r.id \in told => ~Older(r, reader.before)
       /\ \A r \in usage : r.id \in reader.begun \ told => Older(r, reader.before)
  /\ reader.at = "done" => \A r \in usage : r.id \in reader.begun => r.id \in told

ListInv == EventsSound /\ (reader # NoReader => ReaderSound)

\* The number of a new row is one of no row that stands.
LEMMA NewRow ==
  ASSUME EventsSound, NEW sample
  PROVE  /\ Written(sample).id = written
         /\ Written(sample).rowid \in 1 .. written + 1
         /\ \A r \in usage : r.rowid < Written(sample).rowid
<1> DEFINE fields == [id |-> written, rowid |-> NextRowid, ts |-> clock, cost |-> CostAt(sample, price)]
<1>1. Written(sample).id = written /\ Written(sample).rowid = NextRowid
  <2>1. /\ {"id", "rowid"} \subseteq DOMAIN fields
        /\ fields["id"] = written /\ fields["rowid"] = NextRowid
    OBVIOUS
  <2> HIDE DEF fields
  <2>2. Overlaid(fields, sample)["id"] = written /\ Overlaid(fields, sample)["rowid"] = NextRowid
    BY <2>1 DEF Overlaid
  <2> QED BY <2>2 DEF Written, fields
<1> HIDE DEF fields
<1>2. NextRowid \in 1 .. written + 1 /\ \A r \in usage : r.rowid < NextRowid
  <2>1. CASE usage = {}
    BY <2>1 DEF NextRowid, EventsSound
  <2>2. CASE usage # {}
    <3> DEFINE S == {r.rowid : r \in usage}
    <3>1. S \in SUBSET Nat /\ S # {} /\ \A x \in S : x <= written
      BY <2>2 DEF EventsSound
    <3>2. \A r \in usage : r.rowid \in S
      OBVIOUS
    <3>3. NextRowid = Max(S) + 1
      BY <2>2 DEF NextRowid
    <3> HIDE DEF S
    <3>4. written \in Nat
      BY DEF EventsSound
    <3>5. Max(S) \in S /\ \A y \in S : y <= Max(S)
      BY <3>1, <3>4, LargestNumber
    <3>6. Max(S) \in Nat /\ Max(S) <= written
      BY <3>1, <3>5
    <3>7. NextRowid \in 1 .. written + 1
      BY <3>3, <3>4, <3>6
    <3>8. ASSUME NEW r \in usage
          PROVE  r.rowid < NextRowid
      <4>1. r.rowid \in Nat /\ r.rowid <= Max(S)
        BY <3>1, <3>2, <3>5
      <4> QED BY <3>3, <3>6, <4>1
    <3> QED BY <3>7, <3>8
  <2> QED BY <2>1, <2>2
<1> QED BY <1>1, <1>2

LEMMA EventsGrow ==
  ASSUME EventsSound, NEW sample, Record(sample)
  PROVE  EventsSound'
<1> DEFINE w == Written(sample)
<1>1. usage' = usage \cup {w} /\ written' = written + 1
  BY DEF Record
<1>2. w.id = written /\ w.rowid \in 1 .. written + 1 /\ \A r \in usage : r.rowid < w.rowid
  BY NewRow
<1> HIDE DEF w
<1>3. written' \in Nat /\ IsFiniteSet(usage')
  BY <1>1, FS_AddElement DEF EventsSound
<1>4. \A r \in usage : /\ r.id \in 0 .. written - 1 /\ r.rowid \in 1 .. written
                       /\ r.id # w.id /\ r.rowid # w.rowid
  BY <1>2 DEF EventsSound
<1>5. \A r \in usage' : r.id \in 0 .. written' - 1 /\ r.rowid \in 1 .. written'
  <2> SUFFICES ASSUME NEW r \in usage'
               PROVE  r.id \in 0 .. written' - 1 /\ r.rowid \in 1 .. written'
    OBVIOUS
  <2>1. written \in Nat
    BY DEF EventsSound
  <2>2. CASE r \in usage
    BY <1>1, <1>4, <2>1, <2>2
  <2>3. CASE r = w
    BY <1>1, <1>2, <2>1, <2>3
  <2> QED BY <1>1, <2>2, <2>3
<1>6. \A r, q \in usage' : r.id = q.id \/ r.rowid = q.rowid => r = q
  BY <1>1, <1>4 DEF EventsSound
<1> QED BY <1>3, <1>5, <1>6 DEF EventsSound

LEMMA EventsShrink ==
  ASSUME EventsSound, usage' \subseteq usage, written' = written
  PROVE  EventsSound'
BY FS_Subset DEF EventsSound

\* Those who read keep what they know while rows are added and deleted.
LEMMA ReaderOutlives ==
  ASSUME EventsSound, ReaderSound, reader' = reader, written' \in Nat, written <= written',
         \A r \in usage' : r \in usage \/ r.id = written
  PROVE  ReaderSound'
<1> DEFINE told == UNION Range(reader.seen)
<1>1. /\ DOMAIN reader = {"at", "wish", "before", "seen", "begun"}
      /\ reader.at \in {"reading", "done"} /\ reader.seen \in Seq(SUBSET Nat)
      /\ told \cup reader.begun \subseteq 0 .. written - 1
      /\ \A i, j \in DOMAIN reader.seen : i # j => reader.seen[i] \cap reader.seen[j] = {}
      /\ \A r \in usage : r.id \in reader.begun => Matches(r, reader.wish)
      /\ reader.at = "reading" =>
           /\ reader.before \in Nat \cup {Null}
           /\ \A r \in usage : r.id \in told => ~Older(r, reader.before)
           /\ \A r \in usage : r.id \in reader.begun \ told => Older(r, reader.before)
      /\ reader.at = "done" => \A r \in usage : r.id \in reader.begun => r.id \in told
  BY DEF ReaderSound
<1> HIDE DEF told
<1>2. written \in Nat /\ written \notin 0 .. written - 1
  BY DEF EventsSound
<1>3. \A r \in usage' : r.id \in told \cup reader.begun => r \in usage
  BY <1>1, <1>2
<1>4. told \cup reader.begun \subseteq 0 .. written' - 1
  BY <1>1, <1>2
<1>5. \A r \in usage' : r.id \in reader.begun => Matches(r, reader.wish)
  BY <1>1, <1>3
<1>6. reader.at = "reading" =>
        /\ reader.before \in Nat \cup {Null}
        /\ \A r \in usage' : r.id \in told => ~Older(r, reader.before)
        /\ \A r \in usage' : r.id \in reader.begun \ told => Older(r, reader.before)
  BY <1>1, <1>3
<1>7. reader.at = "done" => \A r \in usage' : r.id \in reader.begun => r.id \in told
  BY <1>1, <1>3
<1> QED BY <1>1, <1>4, <1>5, <1>6, <1>7 DEF ReaderSound, told

\* A page is newer than what it leaves to the next ones, and has a row if there is one.
LEMMA PageSplits ==
  ASSUME EventsSound, NEW rows \in SUBSET usage
  PROVE  /\ FirstPage(rows) \subseteq rows
         /\ \A r \in rows \ FirstPage(rows), p \in FirstPage(rows) : r.rowid < p.rowid
         /\ rows # {} => FirstPage(rows) # {}
<1> DEFINE Newer(r) == {s \in rows : s.rowid > r.rowid}
<1>1. \A r \in rows : /\ IsFiniteSet(Newer(r)) /\ Cardinality(Newer(r)) \in Nat
                      /\ r.rowid \in Nat /\ r.rowid <= written
  <2> TAKE r \in rows
  <2>1. IsFiniteSet(Newer(r))
    <3>1. Newer(r) \subseteq usage /\ IsFiniteSet(usage)
      BY DEF EventsSound
    <3> QED BY <3>1, FS_Subset
  <2>2. r.rowid \in Nat /\ r.rowid <= written
    BY DEF EventsSound
  <2> HIDE DEF Newer
  <2> QED BY <2>1, <2>2, FS_CardinalityType
<1>6. \A r \in rows : r.rowid \in Nat
  <2> HIDE DEF Newer
  <2> QED BY <1>1
<1>2. FirstPage(rows) = {r \in rows : Cardinality(Newer(r)) < PageSize}
  BY DEF FirstPage
<1>3. PageSize \in Nat \ {0}
  BY PageConstants
<1>4. ASSUME NEW r \in rows \ FirstPage(rows), NEW p \in FirstPage(rows)
      PROVE  r.rowid < p.rowid
  <2>1. r \in rows /\ p \in rows /\ r # p
    BY <1>2
  <2>2. r.rowid # p.rowid
    BY <2>1 DEF EventsSound
  <2>3. ASSUME p.rowid < r.rowid
        PROVE  FALSE
    <3>1. Newer(r) \subseteq Newer(p)
      BY <1>6, <2>1, <2>3
    <3>2. IsFiniteSet(Newer(p)) /\ Cardinality(Newer(r)) \in Nat /\ Cardinality(Newer(p)) \in Nat
      BY <1>1, <2>1
    <3>3. Cardinality(Newer(r)) <= Cardinality(Newer(p))
      <4> HIDE DEF Newer
      <4> QED BY <3>1, <3>2, FS_Subset
    <3>4. Cardinality(Newer(p)) < PageSize /\ ~(Cardinality(Newer(r)) < PageSize)
      BY <1>2
    <3> HIDE DEF Newer
    <3> QED BY <1>3, <3>2, <3>3, <3>4
  <2> HIDE DEF Newer
  <2> QED BY <1>1, <2>1, <2>2, <2>3
<1>5. ASSUME rows # {}
      PROVE  FirstPage(rows) # {}
  <2> DEFINE S == {r.rowid : r \in rows}
  <2>1. S \in SUBSET Nat /\ S # {} /\ (\A x \in S : x <= written) /\ written \in Nat
    BY <1>1, <1>5 DEF EventsSound
  <2>2. \A r \in rows : r.rowid \in S
    OBVIOUS
  <2>3. \A x \in S : \E r \in rows : x = r.rowid
    OBVIOUS
  <2> HIDE DEF S
  <2>4. Max(S) \in S /\ \A y \in S : y <= Max(S)
    BY <2>1, LargestNumber
  <2>5. PICK r \in rows : \A s \in rows : s.rowid <= r.rowid
    BY <2>2, <2>3, <2>4
  <2>6. Newer(r) = {}
    BY <1>6, <2>5
  <2>7. Cardinality(Newer(r)) = 0
    BY <2>6, FS_EmptySet
  <2> HIDE DEF Newer
  <2> QED BY <1>2, <1>3, <2>7
<1> QED BY <1>2, <1>4, <1>5

LEMMA OpensListSound ==
  ASSUME EventsSound, OpensList
  PROVE  ReaderSound'
<1>1. PICK wish \in Wishes :
        reader' = [at |-> "reading", wish |-> wish, before |-> Null, seen |-> <<>>,
                   begun |-> {r.id : r \in ListRows(wish)}]
  BY DEF OpensList
<1>2. usage' = usage /\ written' = written
  BY DEF OpensList, bookVars
<1>3. PICK begun : begun = {r.id : r \in ListRows(wish)}
  OBVIOUS
<1>4. /\ DOMAIN reader' = {"at", "wish", "before", "seen", "begun"}
      /\ reader'.at = "reading" /\ reader'.wish = wish /\ reader'.before = Null
      /\ reader'.seen = <<>> /\ reader'.begun = begun
  BY <1>1, <1>3
<1>5. UNION Range(<<>>) = {} /\ <<>> \in Seq(SUBSET Nat) /\ DOMAIN <<>> = {}
  BY DEF Range
<1>6. begun \subseteq 0 .. written - 1
  BY <1>3 DEF ListRows, EventsSound
<1>7. \A r \in usage : r.id \in begun => Matches(r, wish)
  BY <1>3 DEF ListRows, EventsSound
<1>8. \A r : Older(r, Null)
  BY DEF Older
<1> QED BY <1>2, <1>4, <1>5, <1>6, <1>7, <1>8 DEF ReaderSound

\* What a page shows was not shown before, and what it leaves is older.
LEMMA TurnsPageSound ==
  ASSUME EventsSound, ReaderSound, TurnsPage
  PROVE  ReaderSound'
<1>1. PICK rows \in SUBSET usage : rows = {r \in ListRows(reader.wish) : Older(r, reader.before)}
  BY DEF ListRows
<1>2. PICK page \in SUBSET rows : page = FirstPage(rows)
  BY <1>1, PageSplits
<1>3. PICK ids : ids = {r.id : r \in page}
  OBVIOUS
<1>4. PICK numbers : numbers = {r.rowid : r \in page}
  OBVIOUS
<1>5. PICK told : told = UNION Range(reader.seen)
  OBVIOUS
<1>6. /\ reader.at = "reading"
      /\ reader' = [reader EXCEPT !.at = IF page # rows THEN "reading" ELSE "done",
                                  !.seen = Append(@, ids),
                                  !.before = IF page # rows THEN Min(numbers) ELSE @]
      /\ usage' = usage /\ written' = written
  BY <1>1, <1>2, <1>3, <1>4 DEF TurnsPage, bookVars
<1>7. /\ DOMAIN reader = {"at", "wish", "before", "seen", "begun"}
      /\ reader.seen \in Seq(SUBSET Nat)
      /\ told \cup reader.begun \subseteq 0 .. written - 1
      /\ \A i, j \in DOMAIN reader.seen : i # j => reader.seen[i] \cap reader.seen[j] = {}
      /\ \A r \in usage : r.id \in reader.begun => Matches(r, reader.wish)
      /\ reader.before \in Nat \cup {Null}
      /\ \A r \in usage : r.id \in told => ~Older(r, reader.before)
      /\ \A r \in usage : r.id \in reader.begun \ told => Older(r, reader.before)
  BY <1>5, <1>6 DEF ReaderSound
<1>8. /\ DOMAIN reader' = DOMAIN reader /\ reader'.wish = reader.wish /\ reader'.begun = reader.begun
      /\ reader'.at = IF page # rows THEN "reading" ELSE "done"
      /\ reader'.seen = Append(reader.seen, ids)
      /\ reader'.before = IF page # rows THEN Min(numbers) ELSE reader.before
  BY <1>6, <1>7
<1>9. \A r \in usage : /\ r.id \in Nat /\ r.rowid \in Nat
                       /\ r.id \in 0 .. written - 1
  BY DEF EventsSound
<1>10. ids \subseteq Nat /\ ids \subseteq 0 .. written - 1 /\ ids \cap told = {}
  BY <1>1, <1>3, <1>7, <1>9
<1>11. \A r \in usage : r.id \in ids <=> r \in page
  BY <1>3 DEF EventsSound
<1>12. /\ reader'.seen \in Seq(SUBSET Nat) /\ UNION Range(reader'.seen) = told \cup ids
       /\ \A i, j \in DOMAIN reader'.seen : i # j => reader'.seen[i] \cap reader'.seen[j] = {}
  <2>1. PICK seen \in Seq(SUBSET Nat) : seen = reader.seen
    BY <1>7
  <2>2. \A i \in 1 .. Len(seen) : seen[i] \subseteq told
    BY <1>5, <2>1 DEF Range
  <2>3. PICK longer : longer = Append(seen, ids)
    OBVIOUS
  <2>4. /\ longer \in Seq(SUBSET Nat) /\ Len(longer) = Len(seen) + 1
        /\ DOMAIN longer = 1 .. Len(seen) + 1 /\ DOMAIN seen = 1 .. Len(seen) /\ Len(seen) \in Nat
        /\ longer[Len(seen) + 1] = ids
        /\ \A i \in 1 .. Len(seen) : longer[i] = seen[i]
    BY <1>10, <2>1, <2>3
  <2>5. UNION Range(longer) = told \cup ids
    <3>1. Range(longer) = Range(seen) \cup {ids}
      BY <2>4 DEF Range
    <3> QED BY <1>5, <2>1, <3>1
  <2>6. \A i, j \in DOMAIN longer : i # j => longer[i] \cap longer[j] = {}
    <3> SUFFICES ASSUME NEW i \in DOMAIN longer, NEW j \in DOMAIN longer, i # j
                 PROVE  longer[i] \cap longer[j] = {}
      OBVIOUS
    <3>1. CASE i \in 1 .. Len(seen) /\ j \in 1 .. Len(seen)
      BY <1>7, <2>1, <2>4, <3>1
    <3>2. CASE i = Len(seen) + 1
      <4>1. j \in 1 .. Len(seen)
        BY <2>4, <3>2
      <4>2. longer[i] = ids /\ longer[j] \subseteq told
        BY <2>2, <2>4, <3>2, <4>1
      <4> QED BY <1>10, <4>2
    <3>3. CASE j = Len(seen) + 1
      <4>1. i \in 1 .. Len(seen)
        BY <2>4, <3>3
      <4>2. longer[j] = ids /\ longer[i] \subseteq told
        BY <2>2, <2>4, <3>3, <4>1
      <4> QED BY <1>10, <4>2
    <3>4. i \in 1 .. Len(seen) \/ i = Len(seen) + 1
      BY <2>4
    <3>5. j \in 1 .. Len(seen) \/ j = Len(seen) + 1
      BY <2>4
    <3> QED BY <3>1, <3>2, <3>3, <3>4, <3>5
  <2> QED BY <1>8, <2>1, <2>3, <2>4, <2>5, <2>6
<1>13. \A r \in usage : r.id \in reader.begun \ told => r \in rows
  BY <1>1, <1>7 DEF ListRows
<1>14. CASE page = rows
  <2>1. \A r \in usage : r.id \in reader.begun => r.id \in told \cup ids
    BY <1>11, <1>13, <1>14
  <2> QED BY <1>6, <1>7, <1>8, <1>10, <1>12, <1>14, <2>1 DEF ReaderSound
<1>15. CASE page # rows
  <2>1. numbers \in SUBSET Nat /\ numbers # {} /\ \A r \in page : r.rowid \in numbers
    <3>1. page # {}
      BY <1>1, <1>2, <1>15, PageSplits
    <3> QED BY <1>1, <1>2, <1>4, <1>9, <3>1
  <2>2. PICK last : last = Min(numbers)
    OBVIOUS
  <2>3. last \in Nat /\ last \in numbers /\ \A y \in numbers : last <= y
    BY <2>1, <2>2, LeastNumber
  <2>4. PICK p \in page : p.rowid = last
    BY <1>4, <2>3
  <2>5. Null \notin Nat
    BY PageConstants
  <2>6. \A r \in usage : Older(r, last) <=> r.rowid < last
    BY <2>3, <2>5 DEF Older
  <2>7. \A r \in usage : r.id \in told \cup ids => ~Older(r, last)
    <3> SUFFICES ASSUME NEW r \in usage, r.id \in told \cup ids
                 PROVE  ~(r.rowid < last)
      BY <2>6
    <3>1. CASE r.id \in told
      <4>1. ~Older(r, reader.before) /\ Older(p, reader.before) /\ p \in usage
        BY <1>1, <1>2, <1>7, <3>1
      <4>2. reader.before \in Nat /\ ~(r.rowid < reader.before) /\ p.rowid < reader.before
        BY <1>7, <4>1 DEF Older
      <4> QED BY <1>9, <2>3, <2>4, <4>2
    <3>2. CASE r.id \in ids
      <4>1. r.rowid \in numbers
        BY <1>11, <2>1, <3>2
      <4> QED BY <1>9, <2>3, <4>1
    <3> QED BY <3>1, <3>2
  <2>8. \A r \in usage : r.id \in reader.begun \ (told \cup ids) => Older(r, last)
    <3> SUFFICES ASSUME NEW r \in usage, r.id \in reader.begun \ (told \cup ids)
                 PROVE  r.rowid < last
      BY <2>6
    <3>1. r \in rows \ page
      BY <1>11, <1>13
    <3> QED BY <1>1, <1>2, <2>4, <3>1, PageSplits
  <2> QED BY <1>7, <1>8, <1>10, <1>12, <1>15, <1>6, <2>2, <2>3, <2>7, <2>8 DEF ReaderSound
<1> QED BY <1>14, <1>15

\* The list beside recording, deletions and the steps of the reader.
LEMMA ListStep ==
  ASSUME ListInv, ListNext
  PROVE  ListInv'
<1>1. EventsSound /\ (reader # NoReader => ReaderSound) /\ written \in Nat
  BY DEF ListInv, EventsSound
<1>2. ASSUME NEW sample, RecordTold(sample)
      PROVE  ListInv'
  <2>1. Record(sample) /\ reader' = reader /\ EventsSound'
    BY <1>1, <1>2, EventsGrow DEF RecordTold
  <2>2. PICK w : w = Written(sample)
    OBVIOUS
  <2>3. w.id = written /\ usage' = usage \cup {w} /\ written' = written + 1
    BY <1>1, <2>1, <2>2, NewRow DEF Record
  <2>4. written' \in Nat /\ written <= written' /\ \A r \in usage' : r \in usage \/ r.id = written
    BY <1>1, <2>3
  <2> QED BY <1>1, <2>1, <2>4, ReaderOutlives DEF ListInv
<1>3. ASSUME SweepBegins \/ SweepDeletes \/ SweepOrphans, UNCHANGED <<reader, feed>>
      PROVE  ListInv'
  <2>1. usage' \subseteq usage /\ written' = written
    BY <1>3 DEF SweepBegins, SweepDeletes, SweepOrphans
  <2>2. EventsSound'
    BY <1>1, <2>1, EventsShrink
  <2>3. written' \in Nat /\ written <= written' /\ \A r \in usage' : r \in usage \/ r.id = written
    BY <1>1, <2>1
  <2> QED BY <1>1, <1>3, <2>2, <2>3, ReaderOutlives DEF ListInv
<1>4. CASE OpensList
  <2>1. EventsSound'
    BY <1>1, <1>4, EventsShrink DEF OpensList, bookVars
  <2> QED BY <1>1, <1>4, <2>1, OpensListSound DEF ListInv
<1>5. CASE TurnsPage
  <2>1. EventsSound'
    BY <1>1, <1>5, EventsShrink DEF TurnsPage, bookVars
  <2>2. reader # NoReader
    BY <1>5 DEF TurnsPage, NoReader
  <2> QED BY <1>1, <1>5, <2>1, <2>2, TurnsPageSound DEF ListInv
<1> QED BY <1>2, <1>3, <1>4, <1>5 DEF ListNext, RecordTells

LEMMA ListRests ==
  ASSUME ListInv, UNCHANGED <<usage, written, reader>>
  PROVE  ListInv'
BY DEF ListInv, EventsSound, ReaderSound

LEMMA ListBegins == PagesInit => ListInv
BY FS_EmptySet DEF PagesInit, BooksInit, ListInv, EventsSound

LEMMA ListShown == ListInv => ListExact
<1> SUFFICES ASSUME ListInv, reader # NoReader
             PROVE  /\ \A i, j \in DOMAIN reader.seen : i # j => reader.seen[i] \cap reader.seen[j] = {}
                    /\ reader.at = "done" => reader.begun \cap {r.id : r \in usage} \subseteq UNION Range(reader.seen)
  BY DEF ListExact
<1>1. ReaderSound
  BY DEF ListInv
<1>2. \A i, j \in DOMAIN reader.seen : i # j => reader.seen[i] \cap reader.seen[j] = {}
  BY <1>1 DEF ReaderSound
<1>3. reader.at = "done" => \A r \in usage : r.id \in reader.begun => r.id \in UNION Range(reader.seen)
  BY <1>1 DEF ReaderSound
<1> QED BY <1>2, <1>3

-----------------------------------------------------------------------------
(* The live stream of attempts.                                            *)

LiveRows == {[id |-> n, username |-> sample.username, ok |-> sample.ok] :
               n \in Nat, sample \in Samples \cup Shown}
Before(s, t) == \A x \in Range(s), y \in Range(t) : x.id < y.id

\* What the hub and the body of an answer know of one subscriber,
\* `next' being the number of the next attempt.
FeedFields == {"at", "wish", "queue", "batch", "awake", "sent", "due", "dropped"}
FeedSound(f, next) ==
  LET missed == f.due \ (Range(f.sent) \cup Range(f.batch) \cup Range(f.queue)) IN
  /\ DOMAIN f = FeedFields
  /\ {f.sent, f.batch, f.queue} \subseteq Seq(LiveRows)
  /\ f.due \subseteq LiveRows /\ IsFiniteSet(f.due) /\ f.dropped \in Nat
  /\ f.at # "sending" => f.batch = <<>>
  /\ Len(f.queue) <= MaxBuffered
  /\ InOrder(f.sent) /\ InOrder(f.batch) /\ InOrder(f.queue)
  /\ Before(f.sent, f.batch) /\ Before(f.sent, f.queue) /\ Before(f.batch, f.queue)
  /\ \A row \in Range(f.batch) \cup Range(f.queue) :
       row.id < next /\ (Matches(row, f.wish) => row \in f.due)
  /\ Range(f.sent) \subseteq f.due
  /\ \A row \in f.due : Matches(row, f.wish) /\ row.id < next
  /\ Cardinality(missed) <= f.dropped
  /\ \A row \in missed, kept \in Range(f.queue) : row.id < kept.id
  /\ f.at = "waiting" /\ f.queue # <<>> => f.awake

LiveInv ==
  /\ written \in Nat
  /\ DOMAIN feed = Watcher /\ \A w \in Watcher : FeedSound(feed[w], written)
  /\ IsFiniteSet(Subscribed) /\ Cardinality(Subscribed) <= MaxSubscribers

LEMMA NumberedRows == \A row \in LiveRows : row.id \in Nat
BY DEF LiveRows

LEMMA RowsOfSeq ==
  ASSUME NEW s \in Seq(LiveRows)
  PROVE  /\ Range(s) \subseteq LiveRows /\ Len(s) \in Nat /\ DOMAIN s = 1 .. Len(s)
         /\ s = <<>> => Range(s) = {}
         /\ \A x \in Range(s) : \E i \in 1 .. Len(s) : x = s[i]
         /\ \A i \in 1 .. Len(s) : s[i] \in Range(s)
BY DEF Range

\* The first of some rows and the rest.
LEMMA FirstAndRest ==
  ASSUME NEW s \in Seq(LiveRows), s # <<>>, InOrder(s)
  PROVE  /\ Head(s) \in Range(s) /\ Tail(s) \in Seq(LiveRows) /\ Len(Tail(s)) = Len(s) - 1
         /\ Range(s) = {Head(s)} \cup Range(Tail(s))
         /\ InOrder(Tail(s)) /\ \A x \in Range(Tail(s)) : Head(s).id < x.id
<1> DEFINE n == Len(s)
           t == Tail(s)
<1>1. /\ n \in Nat \ {0} /\ DOMAIN s = 1 .. n /\ t \in Seq(LiveRows) /\ Len(t) = n - 1
      /\ DOMAIN t = 1 .. n - 1 /\ \A i \in 1 .. n - 1 : t[i] = s[i + 1]
      /\ Head(s) = s[1]
  OBVIOUS
<1> HIDE DEF n, t
<1>2. Head(s) \in Range(s)
  BY <1>1 DEF Range
<1>3. Range(s) = {Head(s)} \cup Range(t)
  <2>1. ASSUME NEW i \in 1 .. n
        PROVE  s[i] \in {Head(s)} \cup Range(t)
    <3>1. CASE i = 1
      BY <1>1, <3>1
    <3>2. CASE i # 1
      <4>1. i - 1 \in 1 .. n - 1 /\ (i - 1) + 1 = i
        BY <1>1, <3>2
      <4>2. t[i - 1] = s[i]
        BY <1>1, <4>1
      <4> QED BY <1>1, <4>1, <4>2 DEF Range
    <3> QED BY <3>1, <3>2
  <2>2. ASSUME NEW i \in 1 .. n - 1
        PROVE  t[i] \in Range(s)
    <3>1. i + 1 \in 1 .. n /\ t[i] = s[i + 1]
      BY <1>1
    <3> QED BY <1>1, <3>1 DEF Range
  <2> QED BY <1>1, <1>2, <2>1, <2>2 DEF Range
<1>4. InOrder(t)
  <2> SUFFICES ASSUME NEW i \in 1 .. n - 1, NEW j \in 1 .. n - 1, i < j
               PROVE  t[i].id < t[j].id
    BY <1>1 DEF InOrder
  <2>1. i + 1 \in 1 .. n /\ j + 1 \in 1 .. n /\ i + 1 < j + 1
    BY <1>1
  <2> QED BY <1>1, <2>1 DEF InOrder
<1>5. ASSUME NEW x \in Range(t)
      PROVE  Head(s).id < x.id
  <2>1. PICK i \in 1 .. n - 1 : x = t[i]
    BY <1>1 DEF Range
  <2>2. i + 1 \in 1 .. n /\ 1 \in 1 .. n /\ 1 < i + 1 /\ x = s[i + 1]
    BY <1>1, <2>1
  <2> QED BY <1>1, <2>2 DEF InOrder
<1> QED BY <1>1, <1>2, <1>3, <1>4, <1>5 DEF n, t

\* A newer row behind some.
LEMMA OneBehind ==
  ASSUME NEW s \in Seq(LiveRows), InOrder(s), NEW row \in LiveRows,
         \A x \in Range(s) : x.id < row.id
  PROVE  /\ Append(s, row) \in Seq(LiveRows) /\ Len(Append(s, row)) = Len(s) + 1
         /\ Append(s, row) # <<>>
         /\ Range(Append(s, row)) = Range(s) \cup {row} /\ InOrder(Append(s, row))
<1> DEFINE n == Len(s)
           t == Append(s, row)
<1>1. /\ n \in Nat /\ DOMAIN s = 1 .. n /\ t \in Seq(LiveRows) /\ Len(t) = n + 1
      /\ DOMAIN t = 1 .. n + 1 /\ t[n + 1] = row /\ \A i \in 1 .. n : t[i] = s[i]
  OBVIOUS
<1> HIDE DEF n, t
<1>2. t # <<>>
  BY <1>1
<1>3. \A i \in 1 .. n + 1 : i \in 1 .. n \/ i = n + 1
  BY <1>1
<1>4. Range(t) = Range(s) \cup {row}
  <2>1. 1 .. n \subseteq 1 .. n + 1 /\ n + 1 \in 1 .. n + 1
    BY <1>1
  <2> QED BY <1>1, <1>3, <2>1 DEF Range
<1>5. InOrder(t)
  <2> SUFFICES ASSUME NEW i \in 1 .. n + 1, NEW j \in 1 .. n + 1, i < j
               PROVE  t[i].id < t[j].id
    BY <1>1 DEF InOrder
  <2>1. i \in 1 .. n /\ s[i] \in Range(s)
    <3>1. i \in 1 .. n
      BY <1>1
    <3> QED BY <1>1, <3>1 DEF Range
  <2>2. CASE j \in 1 .. n
    BY <1>1, <2>1, <2>2 DEF InOrder
  <2>3. CASE j = n + 1
    BY <1>1, <2>1, <2>3
  <2> QED BY <1>3, <2>2, <2>3
<1> QED BY <1>1, <1>2, <1>4, <1>5 DEF n, t

\* A row is pushed: it finds room, or the oldest one goes.
LEMMA PushedSound ==
  ASSUME NEW f, NEW next \in Nat, FeedSound(f, next), NEW row \in LiveRows, row.id = next
  PROVE  FeedSound(Pushed(f, row), next + 1)
<1> DEFINE g == Pushed(f, row)
<1>1. PICK queue : queue = Append(f.queue, row)
  OBVIOUS
<1>2. PICK remaining : remaining = IF Len(queue) > MaxBuffered THEN Tail(queue) ELSE queue
  OBVIOUS
<1>3. PICK due : due = IF Matches(row, f.wish) THEN f.due \cup {row} ELSE f.due
  OBVIOUS
<1>4. /\ DOMAIN f = FeedFields /\ {f.sent, f.batch, f.queue} \subseteq Seq(LiveRows)
      /\ f.due \subseteq LiveRows /\ IsFiniteSet(f.due) /\ f.dropped \in Nat
      /\ f.at # "sending" => f.batch = <<>>
      /\ Len(f.queue) <= MaxBuffered
      /\ InOrder(f.sent) /\ InOrder(f.batch) /\ InOrder(f.queue)
      /\ Before(f.sent, f.batch) /\ Before(f.sent, f.queue) /\ Before(f.batch, f.queue)
      /\ \A x \in Range(f.batch) \cup Range(f.queue) : x.id < next /\ (Matches(x, f.wish) => x \in f.due)
      /\ Range(f.sent) \subseteq f.due
      /\ \A x \in f.due : Matches(x, f.wish) /\ x.id < next
  BY DEF FeedSound
<1>5. /\ DOMAIN g = FeedFields /\ g.at = f.at /\ g.wish = f.wish /\ g.batch = f.batch /\ g.sent = f.sent
      /\ g.queue = remaining /\ g.due = due /\ g.awake = TRUE
      /\ g.dropped = IF Len(queue) > MaxBuffered THEN f.dropped + 1 ELSE f.dropped
  BY <1>1, <1>2, <1>3, <1>4, Zenon DEF Pushed, FeedFields
<1> HIDE DEF g
<1>6. /\ queue \in Seq(LiveRows) /\ Len(queue) = Len(f.queue) + 1 /\ queue # <<>>
      /\ Range(queue) = Range(f.queue) \cup {row} /\ InOrder(queue)
  BY <1>1, <1>4, OneBehind
<1>7. PICK head : head = Head(queue)
  OBVIOUS
<1>8. /\ Tail(queue) \in Seq(LiveRows) /\ Len(Tail(queue)) = Len(queue) - 1 /\ head \in Range(queue)
      /\ Range(queue) = {head} \cup Range(Tail(queue)) /\ InOrder(Tail(queue))
      /\ \A x \in Range(Tail(queue)) : head.id < x.id
  BY <1>6, <1>7, FirstAndRest
<1>9. Len(f.queue) \in Nat /\ MaxBuffered \in Nat
  BY <1>4, RowsOfSeq, PageConstants
<1>10. /\ remaining \in Seq(LiveRows) /\ InOrder(remaining) /\ Len(remaining) <= MaxBuffered
       /\ Range(remaining) \subseteq Range(queue)
       /\ Len(queue) > MaxBuffered => Range(queue) = {head} \cup Range(remaining)
                                      /\ \A x \in Range(remaining) : head.id < x.id
       /\ ~(Len(queue) > MaxBuffered) => Range(remaining) = Range(queue)
  BY <1>2, <1>4, <1>6, <1>8, <1>9
<1>11. /\ \A x \in f.due : x.id \in Nat /\ x.id < next + 1 /\ x.id < row.id
       /\ next < next + 1 /\ row.id < next + 1
       /\ \A x \in Range(f.batch) \cup Range(f.queue) : x.id \in Nat /\ x.id < next + 1 /\ x.id < row.id
  <2>1. \A x \in Range(f.batch) \cup Range(f.queue) \cup f.due : x.id \in Nat
    BY <1>4, RowsOfSeq, NumberedRows
  <2> QED BY <1>4, <2>1
<1>12. /\ due \subseteq LiveRows /\ IsFiniteSet(due) /\ Range(f.sent) \subseteq due
       /\ \A x \in due : Matches(x, f.wish) /\ x.id < next + 1
  BY <1>3, <1>4, <1>11, FS_AddElement
<1>13. /\ \A x \in Range(remaining) : x \in Range(f.queue) \/ x = row
       /\ \A x \in Range(f.batch) \cup Range(remaining) : x.id < next + 1 /\ (Matches(x, f.wish) => x \in due)
  BY <1>3, <1>4, <1>6, <1>10, <1>11
<1>14. Before(f.sent, remaining) /\ Before(f.batch, remaining)
  <2>1. \A x \in Range(f.sent) : x.id < row.id
    BY <1>4, <1>11
  <2> QED BY <1>4, <1>11, <1>13, <2>1 DEF Before
<1>15. PICK missed : missed = f.due \ (Range(f.sent) \cup Range(f.batch) \cup Range(f.queue))
  OBVIOUS
<1>16. PICK lost : lost = due \ (Range(f.sent) \cup Range(f.batch) \cup Range(remaining))
  OBVIOUS
<1>17. /\ IsFiniteSet(missed) /\ Cardinality(missed) \in Nat /\ Cardinality(missed) <= f.dropped
       /\ \A x \in missed, kept \in Range(f.queue) : x.id < kept.id
  BY <1>4, <1>15, FS_Subset, FS_CardinalityType DEF FeedSound
<1>20. ASSUME Cardinality(lost) <= g.dropped, g.dropped \in Nat,
              \A x \in lost, kept \in Range(remaining) : x.id < kept.id
       PROVE  FeedSound(g, next + 1)
  <2>1. lost = g.due \ (Range(g.sent) \cup Range(g.batch) \cup Range(g.queue))
    BY <1>5, <1>16
  <2>2. DOMAIN g = FeedFields /\ {g.sent, g.batch, g.queue} \subseteq Seq(LiveRows)
    BY <1>4, <1>5, <1>10
  <2>3. /\ g.due \subseteq LiveRows /\ IsFiniteSet(g.due) /\ Range(g.sent) \subseteq g.due
        /\ \A x \in g.due : Matches(x, g.wish) /\ x.id < next + 1
    BY <1>5, <1>12
  <2>4. (g.at # "sending" => g.batch = <<>>) /\ Len(g.queue) <= MaxBuffered
    BY <1>4, <1>5, <1>10
  <2>5. InOrder(g.sent) /\ InOrder(g.batch) /\ InOrder(g.queue)
    BY <1>4, <1>5, <1>10
  <2>6. Before(g.sent, g.batch) /\ Before(g.sent, g.queue) /\ Before(g.batch, g.queue)
    BY <1>4, <1>5, <1>14
  <2>7. \A x \in Range(g.batch) \cup Range(g.queue) : x.id < next + 1 /\ (Matches(x, g.wish) => x \in g.due)
    BY <1>5, <1>13
  <2>8. g.at = "waiting" /\ g.queue # <<>> => g.awake
    BY <1>5
  <2>9. \A x \in lost, kept \in Range(g.queue) : x.id < kept.id
    BY <1>5, <1>20
  <2> QED BY <1>20, <2>1, <2>2, <2>3, <2>4, <2>5, <2>6, <2>7, <2>8, <2>9, Zenon DEF FeedSound
<1>18. CASE Len(queue) > MaxBuffered
  <2>1. lost \subseteq missed \cup {head}
    BY <1>3, <1>6, <1>10, <1>15, <1>16, <1>18
  <2>2. Cardinality(missed \cup {head}) <= f.dropped + 1 /\ IsFiniteSet(missed \cup {head})
        /\ Cardinality(missed \cup {head}) \in Nat
    <3>1. IsFiniteSet(missed \cup {head})
      BY <1>17, FS_AddElement
    <3>2. Cardinality(missed \cup {head}) = Cardinality(missed) \/ Cardinality(missed \cup {head}) = Cardinality(missed) + 1
      BY <1>17, FS_AddElement
    <3> QED BY <1>4, <1>17, <3>1, <3>2
  <2>3. Cardinality(lost) <= Cardinality(missed \cup {head}) /\ Cardinality(lost) \in Nat
    BY <2>1, <2>2, FS_Subset, FS_CardinalityType
  <2>4. Cardinality(lost) <= g.dropped /\ g.dropped \in Nat
    BY <1>4, <1>5, <1>18, <2>2, <2>3
  <2>5. ASSUME NEW x \in lost, NEW kept \in Range(remaining)
        PROVE  x.id < kept.id
    <3>1. CASE x = head
      BY <1>10, <1>18, <3>1
    <3>2. CASE x \in missed
      BY <1>11, <1>13, <1>15, <1>17, <3>2
    <3> QED BY <2>1, <3>1, <3>2
  <2> QED BY <1>20, <2>4, <2>5 DEF g
<1>19. CASE ~(Len(queue) > MaxBuffered)
  <2>1. lost \subseteq missed
    BY <1>3, <1>6, <1>10, <1>15, <1>16, <1>19
  <2>2. Cardinality(lost) <= Cardinality(missed) /\ Cardinality(lost) \in Nat
    BY <1>17, <2>1, FS_Subset, FS_CardinalityType
  <2>3. Cardinality(lost) <= g.dropped /\ g.dropped \in Nat
    BY <1>4, <1>5, <1>17, <1>19, <2>2
  <2>4. \A x \in lost, kept \in Range(remaining) : x.id < kept.id
    BY <1>11, <1>13, <1>15, <1>17, <2>1
  <2> QED BY <1>20, <2>3, <2>4 DEF g
<1> QED BY <1>18, <1>19 DEF g

\* All that is queued becomes a batch.
LEMMA DrainedSound ==
  ASSUME NEW f, NEW next \in Nat, FeedSound(f, next), f.at = "top"
  PROVE  FeedSound([f EXCEPT !.at = IF f.queue = <<>> THEN "waiting" ELSE "sending",
                             !.batch = f.queue, !.queue = <<>>, !.awake = FALSE], next)
<1> DEFINE g == [f EXCEPT !.at = IF f.queue = <<>> THEN "waiting" ELSE "sending",
                          !.batch = f.queue, !.queue = <<>>, !.awake = FALSE]
<1>1. /\ DOMAIN f = FeedFields /\ f.batch = <<>>
  BY DEF FeedSound
<1>2. /\ DOMAIN g = FeedFields /\ g.wish = f.wish /\ g.batch = f.queue /\ g.queue = <<>> /\ g.sent = f.sent
      /\ g.due = f.due /\ g.dropped = f.dropped
      /\ g.at = IF f.queue = <<>> THEN "waiting" ELSE "sending"
  BY <1>1 DEF FeedFields
<1> HIDE DEF g
<1>3. Range(<<>>) = {} /\ <<>> \in Seq(LiveRows) /\ Len(<<>>) = 0 /\ InOrder(<<>>)
  BY DEF Range, InOrder
<1>4. MaxBuffered \in Nat
  BY PageConstants
<1>5. \A s : Before(s, <<>>) /\ Before(<<>>, s)
  BY <1>3 DEF Before
<1>6. f.due \ (Range(f.sent) \cup Range(f.batch) \cup Range(f.queue))
      = g.due \ (Range(g.sent) \cup Range(g.batch) \cup Range(g.queue))
  BY <1>1, <1>2, <1>3
<1>7. g.at # "sending" => g.batch = <<>>
  BY <1>2
<1>8. Len(g.queue) <= MaxBuffered /\ {g.sent, g.batch, g.queue} \subseteq Seq(LiveRows)
  BY <1>2, <1>3, <1>4 DEF FeedSound
<1>9. InOrder(g.sent) /\ InOrder(g.batch) /\ InOrder(g.queue)
  BY <1>2, <1>3 DEF FeedSound
<1>10. Before(g.sent, g.batch) /\ Before(g.sent, g.queue) /\ Before(g.batch, g.queue)
  BY <1>2, <1>5 DEF FeedSound
<1>11. \A x \in Range(g.batch) \cup Range(g.queue) : x.id < next /\ (Matches(x, g.wish) => x \in g.due)
  BY <1>2, <1>3 DEF FeedSound
<1>12. /\ g.due \subseteq LiveRows /\ IsFiniteSet(g.due) /\ g.dropped \in Nat
       /\ Range(g.sent) \subseteq g.due /\ \A x \in g.due : Matches(x, g.wish) /\ x.id < next
  BY <1>2 DEF FeedSound
<1>13. Cardinality(g.due \ (Range(g.sent) \cup Range(g.batch) \cup Range(g.queue))) <= g.dropped
  BY <1>2, <1>6 DEF FeedSound
<1>14. \A x \in g.due \ (Range(g.sent) \cup Range(g.batch) \cup Range(g.queue)),
          kept \in Range(g.queue) : x.id < kept.id
  BY <1>2, <1>3
<1>15. ~(g.at = "waiting" /\ g.queue # <<>>)
  BY <1>2
<1> QED BY <1>2, <1>7, <1>8, <1>9, <1>10, <1>11, <1>12, <1>13, <1>14, <1>15, Zenon DEF FeedSound, g

\* A row of the batch is sent, or left out as not asked for.
LEMMA SentSound ==
  ASSUME NEW f, NEW next \in Nat, FeedSound(f, next), f.at = "sending", f.batch # <<>>
  PROVE  FeedSound(FirstSent(f), next)
<1> DEFINE g == FirstSent(f)
<1>1. PICK row : row = Head(f.batch)
  OBVIOUS
<1>2. PICK remaining : remaining = Tail(f.batch)
  OBVIOUS
<1>3. PICK sent : sent = IF Matches(row, f.wish) THEN Append(f.sent, row) ELSE f.sent
  OBVIOUS
<1>4. /\ DOMAIN f = FeedFields /\ {f.sent, f.batch, f.queue} \subseteq Seq(LiveRows)
      /\ InOrder(f.sent) /\ InOrder(f.batch) /\ InOrder(f.queue)
      /\ Before(f.sent, f.batch) /\ Before(f.sent, f.queue) /\ Before(f.batch, f.queue)
      /\ \A x \in Range(f.batch) \cup Range(f.queue) : x.id < next /\ (Matches(x, f.wish) => x \in f.due)
      /\ Range(f.sent) \subseteq f.due /\ \A x \in f.due : Matches(x, f.wish)
  BY DEF FeedSound
<1>5. /\ DOMAIN g = FeedFields /\ g.at = f.at /\ g.wish = f.wish /\ g.queue = f.queue /\ g.sent = sent
      /\ g.batch = remaining /\ g.due = f.due /\ g.dropped = f.dropped /\ g.awake = f.awake
  BY <1>1, <1>2, <1>3, <1>4 DEF FeedFields, FirstSent
<1> HIDE DEF g
<1>6. /\ row \in Range(f.batch) /\ remaining \in Seq(LiveRows) /\ InOrder(remaining)
      /\ Range(f.batch) = {row} \cup Range(remaining)
      /\ \A x \in Range(remaining) : row.id < x.id
  BY <1>1, <1>2, <1>4, FirstAndRest
<1>7. row \in LiveRows /\ \A x \in Range(f.sent) : x.id < row.id
  BY <1>4, <1>6, RowsOfSeq DEF Before
<1>8. Append(f.sent, row) \in Seq(LiveRows) /\ Range(Append(f.sent, row)) = Range(f.sent) \cup {row}
      /\ InOrder(Append(f.sent, row))
  BY <1>4, <1>7, OneBehind
<1>9. /\ sent \in Seq(LiveRows) /\ InOrder(sent)
      /\ Range(sent) = IF Matches(row, f.wish) THEN Range(f.sent) \cup {row} ELSE Range(f.sent)
  BY <1>3, <1>4, <1>8
<1>10. Before(sent, remaining) /\ Before(sent, f.queue) /\ Before(remaining, f.queue)
  BY <1>4, <1>6, <1>9 DEF Before
<1>11. Range(sent) \subseteq f.due
  BY <1>4, <1>6, <1>9
<1>12. f.due \ (Range(f.sent) \cup Range(f.batch) \cup Range(f.queue))
       = f.due \ (Range(sent) \cup Range(remaining) \cup Range(f.queue))
  <2>1. ~Matches(row, f.wish) => row \notin f.due
    BY <1>4
  <2> QED BY <1>6, <1>9, <2>1
<1>13. \A x \in Range(remaining) \cup Range(f.queue) : x.id < next /\ (Matches(x, f.wish) => x \in f.due)
  BY <1>4, <1>6
<1>14. /\ f.due \subseteq LiveRows /\ IsFiniteSet(f.due) /\ f.dropped \in Nat /\ Len(f.queue) <= MaxBuffered
       /\ \A x \in f.due : Matches(x, f.wish) /\ x.id < next
  BY DEF FeedSound
<1>15. PICK missed : missed = f.due \ (Range(f.sent) \cup Range(f.batch) \cup Range(f.queue))
  OBVIOUS
<1>16. Cardinality(missed) <= f.dropped /\ \A x \in missed, kept \in Range(f.queue) : x.id < kept.id
  BY <1>15 DEF FeedSound
<1>17. missed = g.due \ (Range(g.sent) \cup Range(g.batch) \cup Range(g.queue))
  BY <1>5, <1>12, <1>15
<1>18. {g.sent, g.batch, g.queue} \subseteq Seq(LiveRows) /\ InOrder(g.sent) /\ InOrder(g.batch) /\ InOrder(g.queue)
  BY <1>4, <1>5, <1>6, <1>9
<1>19. Before(g.sent, g.batch) /\ Before(g.sent, g.queue) /\ Before(g.batch, g.queue) /\ Range(g.sent) \subseteq g.due
  BY <1>5, <1>10, <1>11
<1>20. \A x \in Range(g.batch) \cup Range(g.queue) : x.id < next /\ (Matches(x, g.wish) => x \in g.due)
  BY <1>5, <1>13
<1>21. g.at = "sending" /\ g.at # "waiting"
  BY <1>5
<1> QED BY <1>5, <1>14, <1>16, <1>17, <1>18, <1>19, <1>20, <1>21, Zenon DEF FeedSound, g

\* Only what it waits for changes.
LEMMA MovedSound ==
  ASSUME NEW f, NEW next \in Nat, FeedSound(f, next), f.batch = <<>>, NEW at, at # "waiting"
  PROVE  FeedSound([f EXCEPT !.at = at], next)
<1> DEFINE g == [f EXCEPT !.at = at]
<1>1. DOMAIN f = FeedFields
  BY DEF FeedSound
<1>2. /\ DOMAIN g = FeedFields /\ g.at = at /\ g.wish = f.wish /\ g.queue = f.queue /\ g.sent = f.sent
      /\ g.batch = f.batch /\ g.due = f.due /\ g.dropped = f.dropped
  BY <1>1 DEF FeedFields
<1> HIDE DEF g
<1> QED BY <1>2, Zenon DEF FeedSound, g

LEMMA FreshSound ==
  ASSUME NEW next \in Nat, NEW at, at # "sending", NEW wish
  PROVE  FeedSound([NoFeed EXCEPT !.at = at, !.wish = wish], next) /\ FeedSound(NoFeed, next)
<1>1. Range(<<>>) = {} /\ <<>> \in Seq(LiveRows) /\ Len(<<>>) = 0 /\ InOrder(<<>>)
  BY DEF Range, InOrder
<1>2. \A s : Before(s, <<>>)
  BY <1>1 DEF Before
<1>3. MaxBuffered \in Nat
  BY PageConstants
<1>4. IsFiniteSet({}) /\ Cardinality({}) = 0
  BY FS_EmptySet
<1>5. ASSUME NEW f, DOMAIN f = FeedFields, f.sent = <<>>, f.batch = <<>>, f.queue = <<>>, f.due = {}, f.dropped = 0
      PROVE  FeedSound(f, next)
  <2>1. f.due \ (Range(f.sent) \cup Range(f.batch) \cup Range(f.queue)) = {}
    BY <1>5
  <2> QED BY <1>1, <1>2, <1>3, <1>4, <1>5, <2>1 DEF FeedSound
<1>6. PICK f : f = [NoFeed EXCEPT !.at = at, !.wish = wish]
  OBVIOUS
<1>7. DOMAIN f = FeedFields /\ f.sent = <<>> /\ f.batch = <<>> /\ f.queue = <<>> /\ f.due = {} /\ f.dropped = 0
  BY <1>6 DEF NoFeed, FeedFields
<1>8. PICK g : g = NoFeed
  OBVIOUS
<1>9. DOMAIN g = FeedFields /\ g.sent = <<>> /\ g.batch = <<>> /\ g.queue = <<>> /\ g.due = {} /\ g.dropped = 0
  BY <1>8 DEF NoFeed, FeedFields
<1> QED BY <1>5, <1>6, <1>7, <1>8, <1>9

\* Time passes: numbers that were behind stay behind.
LEMMA OlderSound ==
  ASSUME NEW f, NEW next \in Nat, FeedSound(f, next)
  PROVE  FeedSound(f, next + 1)
<1>1. \A x \in Range(f.batch) \cup Range(f.queue) \cup f.due : x.id \in Nat /\ x.id < next + 1
  <2>1. \A x \in Range(f.batch) \cup Range(f.queue) \cup f.due : x \in LiveRows /\ x.id < next
    <3>1. Range(f.batch) \subseteq LiveRows /\ Range(f.queue) \subseteq LiveRows
      BY RowsOfSeq DEF FeedSound
    <3> QED BY <3>1 DEF FeedSound
  <2> QED BY <2>1, NumberedRows
<1>2. /\ \A row \in Range(f.batch) \cup Range(f.queue) :
           row.id < next + 1 /\ (Matches(row, f.wish) => row \in f.due)
      /\ \A row \in f.due : Matches(row, f.wish) /\ row.id < next + 1
  BY <1>1 DEF FeedSound
<1> QED BY <1>2, Zenon DEF FeedSound

\* An attempt is recorded, and every subscriber told.
LEMMA LiveRecord ==
  ASSUME LiveInv, NEW sample \in Samples \cup Shown, RecordTold(sample)
  PROVE  LiveInv'
<1>1. PICK row : row = [id |-> written, username |-> sample.username, ok |-> sample.ok]
  OBVIOUS
<1>2. written \in Nat /\ written' = written + 1 /\ row \in LiveRows /\ row.id = written
  <2>1. written \in Nat
    BY DEF LiveInv
  <2>2. written' = written + 1
    BY DEF RecordTold, Record
  <2>3. row \in LiveRows /\ row.id = written
    BY <1>1, <2>1 DEF LiveRows
  <2> QED BY <2>1, <2>2, <2>3
<1>3. feed' = [w \in Watcher |-> IF w \in Subscribed THEN Pushed(feed[w], row) ELSE feed[w]]
  BY <1>1 DEF RecordTold
<1>4. ASSUME NEW w \in Watcher
      PROVE  FeedSound(feed'[w], written') /\ (feed'[w].at # "away" <=> feed[w].at # "away")
  <2>1. FeedSound(feed[w], written)
    BY DEF LiveInv
  <2>2. CASE w \in Subscribed
    <3>1. feed'[w] = Pushed(feed[w], row)
      BY <1>3, <2>2
    <3>2. FeedSound(Pushed(feed[w], row), written + 1)
      BY <1>2, <2>1, PushedSound
    <3>3. Pushed(feed[w], row).at = feed[w].at
      BY <2>1, Zenon DEF Pushed, FeedSound, FeedFields
    <3> QED BY <1>2, <3>1, <3>2, <3>3
  <2>3. CASE w \notin Subscribed
    <3>1. feed'[w] = feed[w]
      BY <1>3, <2>3
    <3>2. FeedSound(feed[w], written + 1)
      BY <1>2, <2>1, OlderSound
    <3> QED BY <1>2, <3>1, <3>2
  <2> QED BY <2>2, <2>3
<1>5. Subscribed' = Subscribed
  BY <1>4 DEF Subscribed
<1> QED BY <1>2, <1>3, <1>4, <1>5 DEF LiveInv

\* One feed becomes another sound one, of which none is opened that has no room.
LEMMA LiveOne ==
  ASSUME LiveInv, NEW w \in Watcher, NEW g, feed' = [feed EXCEPT ![w] = g],
         written' = written, FeedSound(g, written),
         g.at # "away" => feed[w].at # "away" \/ Cardinality(Subscribed) < MaxSubscribers
  PROVE  LiveInv'
<1>1. /\ DOMAIN feed' = Watcher /\ feed'[w] = g
      /\ \A v \in Watcher : v # w => feed'[v] = feed[v]
      /\ \A v \in Watcher : FeedSound(feed[v], written)
      /\ written \in Nat
      /\ IsFiniteSet(Subscribed) /\ Cardinality(Subscribed) <= MaxSubscribers
  BY DEF LiveInv
<1>2. \A v \in Watcher : FeedSound(feed'[v], written')
  BY <1>1
<1>3. Cardinality(Subscribed) \in Nat /\ MaxSubscribers \in Nat
  BY <1>1, FS_CardinalityType, PageConstants
<1>4. CASE g.at # "away" /\ w \in Subscribed
  <2>1. Subscribed' = Subscribed
    BY <1>1, <1>4 DEF Subscribed
  <2> QED BY <1>1, <1>2, <2>1 DEF LiveInv
<1>5. CASE g.at # "away" /\ w \notin Subscribed
  <2>1. Subscribed' = Subscribed \cup {w}
    BY <1>1, <1>5 DEF Subscribed
  <2>2. feed[w].at = "away"
    BY <1>5 DEF Subscribed
  <2>3. IsFiniteSet(Subscribed \cup {w}) /\ Cardinality(Subscribed \cup {w}) = Cardinality(Subscribed) + 1
    BY <1>1, <1>5, FS_AddElement
  <2>4. Cardinality(Subscribed') <= MaxSubscribers /\ IsFiniteSet(Subscribed')
    BY <1>3, <1>5, <2>1, <2>2, <2>3
  <2> QED BY <1>1, <1>2, <2>4 DEF LiveInv
<1>6. CASE g.at = "away"
  <2>1. Subscribed' \subseteq Subscribed
    BY <1>1, <1>6 DEF Subscribed
  <2>2. IsFiniteSet(Subscribed') /\ Cardinality(Subscribed') <= Cardinality(Subscribed)
        /\ Cardinality(Subscribed') \in Nat
    BY <1>1, <2>1, FS_Subset, FS_CardinalityType
  <2>3. Cardinality(Subscribed') <= MaxSubscribers
    BY <1>1, <1>3, <2>2
  <2> QED BY <1>1, <1>2, <2>2, <2>3 DEF LiveInv
<1> QED BY <1>4, <1>5, <1>6

LEMMA LiveWatcher ==
  ASSUME LiveInv, WatcherStep
  PROVE  LiveInv'
<1>1. PICK w \in Watcher :
        Subscribes(w) \/ Starts(w) \/ Drains(w) \/ Sends(w) \/ Wakes(w) \/ HangsUp(w)
  BY DEF WatcherStep
<1>2. PICK f : f = feed[w]
  OBVIOUS
<1>3. /\ FeedSound(f, written) /\ DOMAIN f = FeedFields /\ (f.at # "sending" => f.batch = <<>>)
      /\ written \in Nat /\ written' = written /\ DOMAIN feed = Watcher
  BY <1>2 DEF LiveInv, FeedSound, WatcherStep, bookVars
<1>4. ASSUME NEW at, f.batch = <<>>, at # "waiting", f.at # "away", feed' = [feed EXCEPT ![w] = [f EXCEPT !.at = at]]
      PROVE  LiveInv'
  <2>1. PICK g : g = [f EXCEPT !.at = at]
    OBVIOUS
  <2>2. FeedSound(g, written)
    BY <1>3, <1>4, <2>1, MovedSound
  <2> QED BY <1>2, <1>3, <1>4, <2>1, <2>2, LiveOne
<1>5. CASE Subscribes(w)
  <2>1. PICK wish \in Wishes :
          feed' = [feed EXCEPT ![w] = [NoFeed EXCEPT !.at = "opened", !.wish = wish]]
    BY <1>5 DEF Subscribes
  <2>2. PICK g : g = [NoFeed EXCEPT !.at = "opened", !.wish = wish]
    OBVIOUS
  <2>3. FeedSound(g, written)
    BY <1>3, <2>2, FreshSound
  <2>4. Cardinality(Subscribed) < MaxSubscribers
    BY <1>5 DEF Subscribes
  <2> QED BY <1>3, <2>1, <2>2, <2>3, <2>4, LiveOne
<1>6. CASE Starts(w)
  <2>1. f.at = "opened" /\ feed' = [feed EXCEPT ![w] = [f EXCEPT !.at = "top"]]
    BY <1>2, <1>3, <1>6 DEF Starts
  <2> QED BY <1>3, <1>4, <2>1
<1>7. CASE Wakes(w)
  <2>1. f.at = "waiting" /\ feed' = [feed EXCEPT ![w] = [f EXCEPT !.at = "top"]]
    BY <1>2, <1>3, <1>7 DEF Wakes
  <2> QED BY <1>3, <1>4, <2>1
<1>8. CASE Drains(w)
  <2>1. PICK g : g = [f EXCEPT !.at = IF f.queue = <<>> THEN "waiting" ELSE "sending",
                               !.batch = f.queue, !.queue = <<>>, !.awake = FALSE]
    OBVIOUS
  <2>2. f.at = "top" /\ feed' = [feed EXCEPT ![w] = g]
    BY <1>2, <1>3, <1>8, <2>1 DEF Drains
  <2>3. FeedSound(g, written)
    BY <1>3, <2>1, <2>2, DrainedSound
  <2> QED BY <1>2, <1>3, <2>2, <2>3, LiveOne
<1>9. CASE Sends(w)
  <2>1. f.at = "sending"
    BY <1>2, <1>9 DEF Sends
  <2>2. CASE f.batch = <<>>
    <3>1. feed' = [feed EXCEPT ![w] = [f EXCEPT !.at = "top"]]
      BY <1>2, <1>3, <1>9, <2>2 DEF Sends
    <3> QED BY <1>4, <2>1, <2>2, <3>1
  <2>3. CASE f.batch # <<>>
    <3>1. PICK g : g = FirstSent(f)
      OBVIOUS
    <3>2. feed' = [feed EXCEPT ![w] = g]
      BY <1>2, <1>3, <1>9, <2>3, <3>1 DEF Sends
    <3>3. FeedSound(g, written)
      BY <1>3, <2>1, <2>3, <3>1, SentSound
    <3> QED BY <1>2, <1>3, <2>1, <3>2, <3>3, LiveOne
  <2> QED BY <2>2, <2>3
<1>10. CASE HangsUp(w)
  <2>1. f.at # "away"
    BY <1>2, <1>10 DEF HangsUp
  <2>2. CASE f.at = "opened"
    <3>1. feed' = [feed EXCEPT ![w] = [f EXCEPT !.at = "lost"]]
      BY <1>2, <1>3, <1>10, <2>2 DEF HangsUp
    <3> QED BY <1>3, <1>4, <2>2, <3>1
  <2>3. CASE f.at # "opened"
    <3>1. feed' = [feed EXCEPT ![w] = NoFeed]
      BY <1>2, <1>3, <1>10, <2>3 DEF HangsUp
    <3>2. FeedSound(NoFeed, written)
      <4>1. "top" # "sending"
        OBVIOUS
      <4> QED BY <1>3, <4>1, FreshSound
    <3>3. NoFeed.at = "away"
      BY DEF NoFeed
    <3>4. PICK g : g = NoFeed
      OBVIOUS
    <3> QED BY <1>3, <3>1, <3>2, <3>3, <3>4, LiveOne
  <2> QED BY <2>2, <2>3
<1> QED BY <1>1, <1>5, <1>6, <1>7, <1>8, <1>9, <1>10

LEMMA LiveRests ==
  ASSUME LiveInv, UNCHANGED <<feed, written>>
  PROVE  LiveInv'
BY DEF LiveInv, Subscribed

LEMMA LiveBegins == PagesInit => LiveInv
<1> SUFFICES ASSUME PagesInit
             PROVE  LiveInv
  OBVIOUS
<1>1. written = 0 /\ feed = [w \in Watcher |-> NoFeed]
  BY DEF PagesInit, BooksInit
<1>2. FeedSound(NoFeed, 0)
  <2>1. 0 \in Nat /\ "top" # "sending"
    OBVIOUS
  <2> QED BY <2>1, FreshSound
<1>3. Subscribed = {}
  BY <1>1 DEF Subscribed, NoFeed
<1>4. IsFiniteSet({}) /\ Cardinality({}) = 0 /\ 0 <= MaxSubscribers
  BY FS_EmptySet, PageConstants
<1>5. DOMAIN feed = Watcher /\ \A w \in Watcher : FeedSound(feed[w], written)
  BY <1>1, <1>2
<1> QED BY <1>1, <1>3, <1>4, <1>5 DEF LiveInv

\* Rows in order before others in order are in order.
LEMMA OneAfterAnother ==
  ASSUME NEW s \in Seq(LiveRows), NEW t \in Seq(LiveRows), InOrder(s), InOrder(t), Before(s, t)
  PROVE  s \o t \in Seq(LiveRows) /\ Range(s \o t) = Range(s) \cup Range(t) /\ InOrder(s \o t)
<1> DEFINE n == Len(s)
           m == Len(t)
           u == s \o t
<1>1. /\ n \in Nat /\ m \in Nat /\ u \in Seq(LiveRows)
      /\ DOMAIN s = 1 .. n /\ DOMAIN t = 1 .. m /\ DOMAIN u = 1 .. n + m
      /\ \A i \in 1 .. n : u[i] = s[i]
      /\ \A i \in 1 .. n + m : i > n => u[i] = t[i - n]
  OBVIOUS
<1> HIDE DEF n, m, u
<1>2. \A i \in 1 .. n + m : i \in 1 .. n \/ (i > n /\ i - n \in 1 .. m)
  BY <1>1
<1>3. \A i \in 1 .. n : i \in 1 .. n + m /\ u[i] = s[i] /\ s[i] \in Range(s)
  BY <1>1 DEF Range
<1>4. \A i \in 1 .. m : n + i \in 1 .. n + m /\ n + i > n /\ u[n + i] = t[i] /\ t[i] \in Range(t)
  <2> SUFFICES ASSUME NEW i \in 1 .. m
               PROVE  n + i \in 1 .. n + m /\ n + i > n /\ u[n + i] = t[i] /\ t[i] \in Range(t)
    OBVIOUS
  <2>1. n + i \in 1 .. n + m /\ n + i > n /\ (n + i) - n = i
    BY <1>1
  <2>2. u[n + i] = t[(n + i) - n]
    BY <1>1, <2>1
  <2>3. t[i] \in Range(t)
    BY <1>1 DEF Range
  <2> QED BY <2>1, <2>2, <2>3
<1>5. Range(u) = Range(s) \cup Range(t)
  <2>1. ASSUME NEW x \in Range(u)
        PROVE  x \in Range(s) \cup Range(t)
    <3>1. PICK i \in 1 .. n + m : x = u[i]
      BY <1>1, <2>1 DEF Range
    <3>2. CASE i \in 1 .. n
      BY <1>3, <3>1, <3>2
    <3>3. CASE i > n /\ i - n \in 1 .. m
      BY <1>1, <3>1, <3>3 DEF Range
    <3> QED BY <1>2, <3>2, <3>3
  <2>2. ASSUME NEW x \in Range(s)
        PROVE  x \in Range(u)
    BY <1>1, <1>3, <2>2 DEF Range
  <2>3. ASSUME NEW x \in Range(t)
        PROVE  x \in Range(u)
    <3>1. PICK i \in 1 .. m : x = t[i]
      BY <1>1, <2>3 DEF Range
    <3>2. n + i \in DOMAIN u /\ u[n + i] = x
      BY <1>1, <1>4, <3>1
    <3> QED BY <3>2 DEF Range
  <2> QED BY <2>1, <2>2, <2>3
<1>6. InOrder(u)
  <2> SUFFICES ASSUME NEW i \in 1 .. n + m, NEW j \in 1 .. n + m, i < j
               PROVE  u[i].id < u[j].id
    BY <1>1 DEF InOrder
  <2>1. CASE j \in 1 .. n
    <3>1. i \in 1 .. n
      BY <1>1, <2>1
    <3> QED BY <1>1, <1>3, <2>1, <3>1 DEF InOrder
  <2>2. CASE i \in 1 .. n /\ j > n /\ j - n \in 1 .. m
    <3>1. u[i] \in Range(s) /\ u[j] \in Range(t)
      BY <1>1, <1>3, <2>2 DEF Range
    <3> QED BY <3>1 DEF Before
  <2>3. CASE i > n /\ i - n \in 1 .. m /\ j > n /\ j - n \in 1 .. m
    <3>1. i - n < j - n /\ u[i] = t[i - n] /\ u[j] = t[j - n]
      BY <1>1, <2>3
    <3> QED BY <1>1, <2>3, <3>1 DEF InOrder
  <2>4. ~(i > n /\ j \in 1 .. n)
    BY <1>1
  <2> QED BY <1>2, <2>1, <2>2, <2>3, <2>4
<1> QED BY <1>1, <1>5, <1>6 DEF u

LEMMA LiveShown == LiveInv => StreamExact
<1> SUFFICES ASSUME LiveInv
             PROVE  StreamExact
  OBVIOUS
<1>1. ASSUME NEW w \in Watcher, NEW f, f = feed[w],
             NEW line, line = f.sent \o f.batch \o f.queue,
             NEW asked, asked = {row \in Range(line) : Matches(row, f.wish)},
             NEW missed, missed = f.due \ asked
      PROVE  /\ InOrder(line) /\ Range(f.sent) \subseteq asked /\ asked \subseteq f.due
             /\ Cardinality(missed) <= f.dropped /\ Len(f.queue) <= MaxBuffered
             /\ \A row \in missed, kept \in Range(f.queue) : row.id < kept.id
             /\ f.at = "waiting" /\ f.queue # <<>> => f.awake
  <2>1. FeedSound(f, written)
    BY <1>1 DEF LiveInv
  <2>2. /\ {f.sent, f.batch, f.queue} \subseteq Seq(LiveRows)
        /\ InOrder(f.sent) /\ InOrder(f.batch) /\ InOrder(f.queue)
        /\ Before(f.sent, f.batch) /\ Before(f.sent, f.queue) /\ Before(f.batch, f.queue)
    BY <2>1 DEF FeedSound
  <2>3. PICK first : first = f.sent \o f.batch
    OBVIOUS
  <2>4. first \in Seq(LiveRows) /\ Range(first) = Range(f.sent) \cup Range(f.batch) /\ InOrder(first)
    BY <2>2, <2>3, OneAfterAnother
  <2>5. Before(first, f.queue)
    BY <2>2, <2>4 DEF Before
  <2>6. Range(line) = Range(first) \cup Range(f.queue) /\ InOrder(line)
    BY <1>1, <2>2, <2>3, <2>4, <2>5, OneAfterAnother
  <2>7. Range(line) = Range(f.sent) \cup Range(f.batch) \cup Range(f.queue)
    BY <2>4, <2>6
  <2>8. /\ \A row \in Range(f.batch) \cup Range(f.queue) : Matches(row, f.wish) => row \in f.due
        /\ Range(f.sent) \subseteq f.due /\ \A row \in f.due : Matches(row, f.wish)
    BY <2>1 DEF FeedSound
  <2>9. Range(f.sent) \subseteq asked /\ asked \subseteq f.due
    BY <1>1, <2>7, <2>8
  <2>10. missed = f.due \ (Range(f.sent) \cup Range(f.batch) \cup Range(f.queue))
    BY <1>1, <2>7, <2>8
  <2>11. /\ Cardinality(missed) <= f.dropped /\ Len(f.queue) <= MaxBuffered
         /\ \A row \in missed, kept \in Range(f.queue) : row.id < kept.id
         /\ f.at = "waiting" /\ f.queue # <<>> => f.awake
    BY <2>1, <2>10 DEF FeedSound
  <2> QED BY <2>6, <2>9, <2>11
<1>2. Cardinality(Subscribed) <= MaxSubscribers
  BY DEF LiveInv
<1> QED BY <1>1, <1>2, Zenon DEF StreamExact

-----------------------------------------------------------------------------
(* Only who follows the list reads it; the streams go on beside whatever   *)
(* is recorded.                                                            *)

FollowInv ==
  /\ LiveInv
  /\ follows = "list" => ListInv
  /\ follows # "list" => reader = NoReader

LEMMA FollowStep ==
  ASSUME FollowInv, RequestLifeNext
  PROVE  FollowInv'
<1>1. follows' = follows
  BY DEF RequestLifeNext
<1>2. LiveInv
  BY DEF FollowInv
<1>3. CASE UNCHANGED pageVars
  <2>1. LiveInv' /\ reader' = reader /\ (ListInv => ListInv')
    BY <1>2, <1>3, LiveRests, ListRests DEF pageVars, bookVars
  <2> QED BY <1>1, <2>1 DEF FollowInv
<1>4. CASE follows = "tables" /\ TablesNext
  <2>1. reader' = reader
    BY <1>4 DEF TablesNext, RecordTells, RecordTold, BooksMove
  <2>2. CASE RecordTells(Samples, MostEvents)
    <3>1. LiveInv'
      BY <1>2, <2>2, LiveRecord DEF RecordTells
    <3> QED BY <1>1, <1>4, <2>1, <3>1 DEF FollowInv
  <2>3. CASE BooksMove
    <3>1. feed' = feed /\ written' = written
      <4>1. Retention => written' = written
        BY Zenon DEF Retention, TidyBegins, TidyStep, RollUp, Purge, TidyLeaves
      <4>2. ScriptStep => written' = written
        BY Zenon DEF ScriptStep, SweepBegins, SweepDeletes, SweepOrphans, Reprice, RecomputeAll, ScriptDies
      <4>3. ClockTicks \/ PricesMove => written' = written
        BY Zenon DEF ClockTicks, PricesMove
      <4> QED BY <2>3, <4>1, <4>2, <4>3 DEF BooksMove
    <3>2. LiveInv'
      BY <1>2, <3>1, LiveRests
    <3> QED BY <1>1, <1>4, <2>1, <3>2 DEF FollowInv
  <2> QED BY <1>4, <2>2, <2>3 DEF TablesNext
<1>5. CASE follows = "list" /\ ListNext
  <2>1. ListInv'
    BY <1>5, ListStep DEF FollowInv
  <2>2. LiveInv'
    <3>1. CASE RecordTells(Shown, MostShown)
      BY <1>2, <3>1, LiveRecord DEF RecordTells
    <3>2. CASE OpensList \/ TurnsPage
      BY <1>2, <3>2, LiveRests DEF OpensList, TurnsPage, bookVars
    <3>3. CASE (SweepBegins \/ SweepDeletes \/ SweepOrphans) /\ UNCHANGED <<reader, feed>>
      BY <1>2, <3>3, LiveRests DEF SweepBegins, SweepDeletes, SweepOrphans
    <3> QED BY <1>5, <3>1, <3>2, <3>3 DEF ListNext
  <2> QED BY <1>1, <1>5, <2>1, <2>2 DEF FollowInv
<1>6. CASE follows = "live" /\ LiveNext
  <2>1. LiveInv'
    BY <1>2, <1>6, LiveRecord, LiveWatcher DEF LiveNext, RecordTells
  <2>2. reader' = reader
    BY <1>6 DEF LiveNext, RecordTells, RecordTold, WatcherStep
  <2> QED BY <1>1, <1>6, <2>1, <2>2 DEF FollowInv
<1> QED BY <1>3, <1>4, <1>5, <1>6 DEF RequestLifeNext, PagesNext

LEMMA FollowShown == FollowInv => FeedsExact
BY ListShown, LiveShown DEF FollowInv, FeedsExact, ListExact

\* Read page by page the list of attempts shows all that was there when reading began and
\* still is, and none twice, whatever is recorded and deleted meanwhile; and of every live
\* stream nothing is lost, doubled or out of order but what its buffer had no room for:
\* query.py events, live.py, admin_stats.py _stream_events, for any number of attempts,
\* watchers and subscribers, any page and any buffer.
THEOREM FeedsStayExact == RequestLifeSpec => []FeedsExact
<1>1. RequestLifeInit => FollowInv
  BY LiveBegins, ListBegins DEF RequestLifeInit, FollowInv, PagesInit
<1>2. FollowInv /\ [RequestLifeNext]_requestLifeVars => FollowInv'
  <2>1. ASSUME FollowInv, UNCHANGED requestLifeVars
        PROVE  FollowInv'
    BY <2>1, LiveRests, ListRests DEF requestLifeVars, pageVars, bookVars, FollowInv
  <2> QED BY <2>1, FollowStep
<1> QED BY <1>1, <1>2, FollowShown, PTL DEF RequestLifeSpec

-----------------------------------------------------------------------------
(* Rows of sums added up, column by column.                                *)

AddTable(t, S) ==
  LET sum[s \in SUBSET S] == IF s = {} THEN Sums({}) ELSE Both(t[First(s)], sum[s \ {First(s)}])
  IN  sum

LEMMA AddedInTable ==
  ASSUME NEW t, NEW S
  PROVE  AddedUp(t, S) = AddTable(t, S)[S]
BY DEF AddedUp, FoldFunctionOnSet, MapThenFoldSet, AddTable, First

\* A column of a table.
InColumn(t, column, S) == [k \in S |-> t[k][column]]
SumRows(t, S) == IsFiniteSet(S) /\ \A k \in S : t[k] \in [Columns -> Nat]

LEMMA ColumnNumbers ==
  ASSUME NEW t, NEW S, SumRows(t, S), NEW column \in Columns
  PROVE  /\ Numbers(InColumn(t, column, S), S)
         /\ \A k \in S : InColumn(t, column, S)[k] = t[k][column]
<1>1. \A k \in S : InColumn(t, column, S)[k] = t[k][column]
  BY DEF InColumn
<1>2. \A k \in S : t[k][column] \in Nat
  BY DEF SumRows
<1> QED BY <1>1, <1>2 DEF Numbers, SumRows

LEMMA SumsOfNone ==
  /\ Sums({}) \in [Columns -> Nat]
  /\ \A column \in Columns : Sums({})[column] = 0
<1>1. Rows({}) /\ Served({}) = {} /\ Costed({}) = {}
  BY FS_EmptySet DEF Rows, Served, Costed
<1>2. Cardinality({}) = 0
  BY FS_EmptySet
<1>3. \A column \in Columns : Sums({})[column] = 0
  BY <1>1, <1>2, SumsColumns, SumOfNone DEF Columns
<1> QED BY <1>1, <1>3, SumsAreCounts

LEMMA BothColumns ==
  ASSUME NEW a \in [Columns -> Nat], NEW b \in [Columns -> Nat]
  PROVE  /\ Both(a, b) \in [Columns -> Nat]
         /\ \A column \in Columns : Both(a, b)[column] = a[column] + b[column]
BY BothAreCounts DEF Both

LEMMA AddedColumns ==
  ASSUME NEW t, NEW S, SumRows(t, S)
  PROVE  /\ AddedUp(t, S) \in [Columns -> Nat]
         /\ \A column \in Columns : AddedUp(t, S)[column] = SumFunctionOnSet(InColumn(t, column, S), S)
<1> DEFINE Next(f) == [s \in SUBSET S |->
                         IF s = {} THEN Sums({}) ELSE Both(t[First(s)], f[s \ {First(s)}])]
           C(column) == SumTable(InColumn(t, column, S), S)
           u == [s \in SUBSET S |-> [column \in Columns |-> C(column)[s]]]
           a == AddTable(t, S)
<1>1. ASSUME NEW column \in Columns
      PROVE  /\ C(column)[{}] = 0
             /\ \A s \in SUBSET S : C(column)[s] \in Nat
             /\ \A s \in SUBSET S : s # {} => C(column)[s] = t[First(s)][column] + C(column)[s \ {First(s)}]
  <2>1. PICK v : v = InColumn(t, column, S)
    OBVIOUS
  <2>2. Numbers(v, S) /\ \A k \in S : v[k] = t[k][column]
    BY <2>1, ColumnNumbers
  <2>3. C(column) = SumTable(v, S)
    BY <2>1
  <2> HIDE DEF C
  <2>4. ASSUME NEW s \in SUBSET S, s # {}
        PROVE  C(column)[s] = t[First(s)][column] + C(column)[s \ {First(s)}]
    <3>1. First(s) \in S
      BY <2>4, FirstIsIn
    <3>2. SumTable(v, S)[s] = v[First(s)] + SumTable(v, S)[s \ {First(s)}]
      BY <2>2, <2>4, TableSums
    <3>3. v[First(s)] = t[First(s)][column]
      BY <2>2, <3>1
    <3> QED BY <2>3, <3>2, <3>3
  <2>5. SumTable(v, S)[{}] = 0 /\ \A s \in SUBSET S : SumTable(v, S)[s] \in Nat
    BY <2>2, TableSums
  <2> QED BY <2>3, <2>4, <2>5
<1> HIDE DEF C
<1>2. \A s \in SUBSET S : u[s] \in [Columns -> Nat] /\ \A column \in Columns : u[s][column] = C(column)[s]
  BY <1>1
<1> HIDE DEF u
<1>3. ASSUME NEW s \in SUBSET S
      PROVE  u[s] = IF s = {} THEN Sums({}) ELSE Both(t[First(s)], u[s \ {First(s)}])
  <2>1. CASE s = {}
    <3>1. \A column \in Columns : u[s][column] = Sums({})[column]
      BY <1>1, <1>2, <2>1, SumsOfNone
    <3>2. u[s] \in [Columns -> Nat] /\ Sums({}) \in [Columns -> Nat]
      BY <1>2, SumsOfNone
    <3> QED BY <2>1, <3>1, <3>2
  <2>2. CASE s # {}
    <3>1. PICK x \in S : x = First(s)
      BY <2>2, FirstIsIn
    <3>2. PICK r \in SUBSET S : r = s \ {x}
      OBVIOUS
    <3>3. t[x] \in [Columns -> Nat] /\ u[r] \in [Columns -> Nat] /\ u[s] \in [Columns -> Nat]
      BY <1>2 DEF SumRows
    <3>4. PICK sum : sum = Both(t[x], u[r])
      OBVIOUS
    <3>5. sum \in [Columns -> Nat] /\ \A column \in Columns : sum[column] = t[x][column] + u[r][column]
      BY <3>3, <3>4, BothColumns
    <3>6. ASSUME NEW column \in Columns
          PROVE  u[s][column] = t[x][column] + u[r][column]
      <4>1. C(column)[s] = t[x][column] + C(column)[r]
        BY <1>1, <2>2, <3>1, <3>2
      <4>2. u[s][column] = C(column)[s] /\ u[r][column] = C(column)[r]
        BY <1>2
      <4> QED BY <4>1, <4>2
    <3>7. u[s] = sum
      BY <3>3, <3>5, <3>6
    <3> QED BY <2>2, <3>1, <3>2, <3>4, <3>7
  <2> QED BY <2>1, <2>2
<1>4. u = Next(u)
  <2>1. u = [s \in SUBSET S |-> u[s]]
    BY DEF u
  <2>2. \A s \in SUBSET S : Next(u)[s] = u[s]
    BY <1>3
  <2>3. u = [s \in SUBSET S |-> Next(u)[s]]
    BY <2>1, <2>2
  <2> QED BY <2>3
<1>5. a = Next(a)
  BY <1>4 DEF AddTable
<1> HIDE DEF a
<1>6. \A s \in SUBSET S : a[s] = u[s]
  <2>1. PICK Good : Good = {s \in SUBSET S : a[s] = u[s]}
    OBVIOUS
  <2>2. \A s \in SUBSET S : a[s] = IF s = {} THEN Sums({}) ELSE Both(t[First(s)], a[s \ {First(s)}])
    BY <1>5
  <2>3. {} \in Good
    BY <1>3, <2>1, <2>2
  <2>4. \A s \in SUBSET S : s # {} /\ s \ {First(s)} \in Good => s \in Good
    BY <1>3, <2>1, <2>2
  <2>5. \A s \in SUBSET S : s \in Good
    BY <2>3, <2>4, SmallestFirst DEF SumRows
  <2> QED BY <2>1, <2>5
<1>7. AddedUp(t, S) = u[S]
  BY <1>6, AddedInTable DEF a
<1>8. \A column \in Columns : u[S][column] = SumFunctionOnSet(InColumn(t, column, S), S)
  BY <1>2, SumInTable DEF C
<1> QED BY <1>2, <1>7, <1>8

\* The sums of rows are those of each row added up.
Each(S) == [r \in S |-> Sums({r})]

LEMMA EachIsCounts ==
  ASSUME NEW S, Rows(S)
  PROVE  /\ SumRows(Each(S), S)
         /\ \A r \in S : Each(S)[r] = Sums({r}) /\ Rows({r})
<1>1. \A r \in S : Rows({r})
  BY PartOfRows
<1>2. \A r \in S : Sums({r}) \in [Columns -> Nat]
  BY <1>1, SumsAreCounts
<1>3. \A r \in S : Each(S)[r] = Sums({r})
  BY DEF Each
<1> QED BY <1>1, <1>2, <1>3 DEF SumRows, Rows

LEMMA SumsOfEach ==
  ASSUME NEW S, Rows(S), NEW column \in Columns, NEW T \in SUBSET S
  PROVE  Sums(T)[column] = SumFunctionOnSet(InColumn(Each(S), column, S), T)
<1>1. PICK v : v = InColumn(Each(S), column, S)
  OBVIOUS
<1>2. Numbers(v, S) /\ \A r \in S : v[r] = Sums({r})[column]
  <2>1. SumRows(Each(S), S) /\ \A r \in S : Each(S)[r] = Sums({r})
    BY EachIsCounts
  <2>2. Numbers(v, S) /\ \A r \in S : v[r] = Each(S)[r][column]
    BY <1>1, <2>1, ColumnNumbers
  <2> QED BY <2>1, <2>2
<1>3. Numbers(v, T) /\ IsFiniteSet(T)
  BY <1>2, FS_Subset DEF Numbers
<1>4. PICK Good : Good = {s \in SUBSET T : Sums(s)[column] = SumFunctionOnSet(v, s)}
  OBVIOUS
<1>5. {} \in Good
  BY <1>4, SumsOfNone, TotalOfNone
<1>6. ASSUME NEW s \in SUBSET T, NEW x \in T, s \in Good, x \notin s
      PROVE  s \cup {x} \in Good
  <2>1. Rows(s) /\ Rows({x}) /\ Numbers(v, s)
    BY <1>3, PartOfRows, FS_Subset DEF Numbers
  <2>2. Sums(s) \in [Columns -> Nat] /\ Sums({x}) \in [Columns -> Nat]
    BY <2>1, SumsAreCounts
  <2>3. Sums(s \cup {x}) = Both(Sums(s), Sums({x}))
    BY <1>6, <2>1, SumsWith
  <2>4. Sums(s \cup {x})[column] = Sums(s)[column] + Sums({x})[column]
    <3>1. PICK a \in [Columns -> Nat] : a = Sums(s)
      BY <2>2
    <3>2. PICK b \in [Columns -> Nat] : b = Sums({x})
      BY <2>2
    <3>3. Both(a, b)[column] = a[column] + b[column]
      BY BothColumns
    <3> QED BY <2>3, <3>1, <3>2, <3>3
  <2>5. SumFunctionOnSet(v, s \cup {x}) = SumFunctionOnSet(v, s) + v[x]
    BY <1>3, <1>6, <2>1, TotalWith DEF Numbers
  <2>6. v[x] = Sums({x})[column] /\ Sums(s)[column] = SumFunctionOnSet(v, s)
    BY <1>2, <1>4, <1>6
  <2> QED BY <1>4, <1>6, <2>4, <2>5, <2>6
<1>7. T \in Good
  BY <1>3, <1>5, <1>6, OneByOne
<1> QED BY <1>1, <1>4, <1>7

\* The sums of groups of rows, added up.
LEMMA SumsParted ==
  ASSUME NEW S, Rows(S), NEW g, NEW G, IsFiniteSet(G), \A r \in S : g[r] \in G,
         NEW t, \A h \in G : t[h] = Sums(Having(g, S, h))
  PROVE  SumRows(t, G) /\ AddedUp(t, G) = Sums(S)
<1>1. SumRows(t, G)
  <2> SUFFICES ASSUME NEW h \in G
               PROVE  t[h] \in [Columns -> Nat]
    BY DEF SumRows
  <2>1. PICK P \in SUBSET S : P = {r \in S : g[r] = h}
    OBVIOUS
  <2>2. Sums(P) \in [Columns -> Nat]
    BY PartOfRows, SumsAreCounts
  <2>3. t[h] = Sums(P)
    BY <2>1 DEF Having
  <2> QED BY <2>2, <2>3
<1>2. ASSUME NEW column \in Columns
      PROVE  AddedUp(t, G)[column] = Sums(S)[column]
  <2>1. PICK v : v = InColumn(Each(S), column, S)
    OBVIOUS
  <2>2. Numbers(v, S)
    BY <2>1, EachIsCounts, ColumnNumbers
  <2>3. PICK a : a = Groups(v, S, g, G)
    OBVIOUS
  <2>4. Numbers(a, G) /\ SumFunctionOnSet(a, G) = SumFunctionOnSet(v, S)
    BY <2>2, <2>3, TotalParted
  <2>5. ASSUME NEW h \in G
        PROVE  a[h] = InColumn(t, column, G)[h]
    <3>1. PICK P \in SUBSET S : P = {r \in S : g[r] = h}
      OBVIOUS
    <3>2. a[h] = SumFunctionOnSet(v, P)
      BY <2>3, <3>1 DEF Groups
    <3>3. Sums(P)[column] = SumFunctionOnSet(v, P)
      BY <2>1, SumsOfEach
    <3>4. t[h] = Sums(P)
      BY <3>1 DEF Having
    <3> QED BY <1>1, <3>2, <3>3, <3>4, ColumnNumbers
  <2>6. SumFunctionOnSet(InColumn(t, column, G), G) = SumFunctionOnSet(v, S)
    BY <2>4, <2>5, TotalSame
  <2>7. Sums(S)[column] = SumFunctionOnSet(v, S)
    BY <2>1, SumsOfEach
  <2> QED BY <1>1, <2>6, <2>7, AddedColumns
<1>3. AddedUp(t, G) \in [Columns -> Nat] /\ Sums(S) \in [Columns -> Nat]
  BY <1>1, AddedColumns, SumsAreCounts
<1> QED BY <1>1, <1>2, <1>3

\* Rows of sums added up in groups.
LEMMA AddedParted ==
  ASSUME NEW t, NEW S, SumRows(t, S), NEW g, NEW G, IsFiniteSet(G), \A k \in S : g[k] \in G,
         NEW u, \A h \in G : u[h] = AddedUp(t, Having(g, S, h))
  PROVE  SumRows(u, G) /\ AddedUp(u, G) = AddedUp(t, S)
<1>1. ASSUME NEW h \in G, NEW P, P = {k \in S : g[k] = h}
      PROVE  SumRows(t, P) /\ P \in SUBSET S /\ u[h] = AddedUp(t, P)
  <2>1. P \in SUBSET S /\ IsFiniteSet(P) /\ \A k \in S : t[k] \in [Columns -> Nat]
    BY <1>1, FS_Subset DEF SumRows
  <2>2. P = Having(g, S, h)
    BY <1>1 DEF Having
  <2> QED BY <2>1, <2>2 DEF SumRows
<1>2. SumRows(u, G)
  <2> SUFFICES ASSUME NEW h \in G
               PROVE  u[h] \in [Columns -> Nat]
    BY DEF SumRows
  <2>1. PICK P : P = {k \in S : g[k] = h}
    OBVIOUS
  <2>2. SumRows(t, P) /\ u[h] = AddedUp(t, P)
    BY <1>1, <2>1
  <2> QED BY <2>2, AddedColumns
<1>3. ASSUME NEW column \in Columns
      PROVE  AddedUp(u, G)[column] = AddedUp(t, S)[column]
  <2>1. PICK v : v = InColumn(t, column, S)
    OBVIOUS
  <2>2. Numbers(v, S) /\ \A k \in S : v[k] = t[k][column]
    BY <2>1, ColumnNumbers
  <2>3. PICK a : a = Groups(v, S, g, G)
    OBVIOUS
  <2>4. Numbers(a, G) /\ SumFunctionOnSet(a, G) = SumFunctionOnSet(v, S)
    BY <2>2, <2>3, TotalParted
  <2>5. ASSUME NEW h \in G
        PROVE  a[h] = InColumn(u, column, G)[h]
    <3>1. PICK P : P = {k \in S : g[k] = h}
      OBVIOUS
    <3>2. SumRows(t, P) /\ P \in SUBSET S /\ u[h] = AddedUp(t, P)
      BY <1>1, <3>1
    <3>3. a[h] = SumFunctionOnSet(v, P)
      BY <2>3, <3>1 DEF Groups
    <3>4. PICK w : w = InColumn(t, column, P)
      OBVIOUS
    <3>5. Numbers(w, P) /\ \A k \in P : w[k] = t[k][column]
      BY <3>2, <3>4, ColumnNumbers
    <3>6. SumFunctionOnSet(w, P) = SumFunctionOnSet(v, P)
      BY <2>2, <3>2, <3>5, TotalSame
    <3>7. u[h][column] = SumFunctionOnSet(w, P)
      BY <3>2, <3>4, AddedColumns
    <3> QED BY <1>2, <3>3, <3>6, <3>7, ColumnNumbers
  <2>6. SumFunctionOnSet(InColumn(u, column, G), G) = SumFunctionOnSet(v, S)
    BY <2>4, <2>5, TotalSame
  <2> QED BY <1>2, <2>1, <2>6, AddedColumns
<1>4. AddedUp(t, S) \in [Columns -> Nat] /\ AddedUp(u, G) \in [Columns -> Nat]
  BY <1>2, AddedColumns
<1> QED BY <1>2, <1>3, <1>4

\* A column of a part is not more than the column of all.
LEMMA AddedOfPart ==
  ASSUME NEW t, NEW S, SumRows(t, S), NEW T \in SUBSET S, NEW column \in Columns
  PROVE  /\ SumRows(t, T)
         /\ AddedUp(t, T)[column] <= AddedUp(t, S)[column]
<1>1. SumRows(t, T)
  BY FS_Subset DEF SumRows
<1>2. PICK v : v = InColumn(t, column, S)
  OBVIOUS
<1>3. PICK w : w = InColumn(t, column, T)
  OBVIOUS
<1>4. /\ Numbers(v, S) /\ \A k \in S : v[k] = t[k][column]
      /\ Numbers(w, T) /\ \A k \in T : w[k] = t[k][column]
  BY <1>1, <1>2, <1>3, ColumnNumbers
<1>5. SumFunctionOnSet(w, T) = SumFunctionOnSet(v, T)
  BY <1>4, TotalSame
<1>6. SumFunctionOnSet(v, T) <= SumFunctionOnSet(v, S)
  BY <1>4, TotalOfPart
<1> QED BY <1>1, <1>2, <1>3, <1>5, <1>6, AddedColumns

-----------------------------------------------------------------------------
(* The least and the largest, images, and ranks.                           *)

LEMMA MaxIs ==
  ASSUME NEW S \in SUBSET Nat, NEW x \in S, \A y \in S : y <= x
  PROVE  Max(S) = x
<1>1. \A y \in S : (\A z \in S : y >= z) => y = x
  OBVIOUS
<1>2. \A z \in S : x >= z
  OBVIOUS
<1> QED BY <1>1, <1>2 DEF Max

LEMMA MinIs ==
  ASSUME NEW S \in SUBSET Nat, NEW x \in S, \A y \in S : x <= y
  PROVE  Min(S) = x
<1>1. \A y \in S : (\A z \in S : y =< z) => y = x
  OBVIOUS
<1> QED BY <1>1 DEF Min

LEMMA ImageIsFinite ==
  ASSUME NEW S, IsFiniteSet(S), NEW f, NEW T, T = {f[x] : x \in S}
  PROVE  IsFiniteSet(T)
<1>1. PICK g : g = [x \in S |-> f[x]]
  OBVIOUS
<1>2. g \in Surjection(S, T)
  BY <1>1 DEF Surjection
<1> QED BY <1>2, FS_Surjection

\* Who goes before whom in a strict order of all: as many go before each as its rank says.
RanksOf(before, S) ==
  /\ IsFiniteSet(S)
  /\ \A r \in S : before[r] \in SUBSET S /\ r \notin before[r]
  /\ \A r, s \in S : r # s => s \in before[r] \/ r \in before[s]
  /\ \A r, s \in S : s \in before[r] => before[s] \subseteq before[r]

LEMMA RankBelow ==
  ASSUME NEW before, NEW S, RanksOf(before, S), NEW r \in S, NEW s \in before[r]
  PROVE  Cardinality(before[s]) < Cardinality(before[r])
<1>1. IsFiniteSet(before[r]) /\ s \in S
  BY FS_Subset DEF RanksOf
<1>2. before[s] \in SUBSET before[r] /\ s \notin before[s] /\ before[s] # before[r]
  BY <1>1 DEF RanksOf
<1>3. Cardinality(before[s]) <= Cardinality(before[r]) /\ Cardinality(before[r]) # Cardinality(before[s])
      /\ IsFiniteSet(before[s])
  BY <1>1, <1>2, FS_Subset
<1>4. Cardinality(before[s]) \in Nat /\ Cardinality(before[r]) \in Nat
  BY <1>1, <1>3, FS_CardinalityType
<1> QED BY <1>3, <1>4

LEMMA EveryRank ==
  ASSUME NEW before, NEW S, RanksOf(before, S)
  PROVE  /\ \A r \in S : Cardinality(before[r]) \in Nat /\ Cardinality(before[r]) < Cardinality(S)
         /\ \A r, s \in S : Cardinality(before[r]) = Cardinality(before[s]) => r = s
         /\ \A i \in 1 .. Cardinality(S) : \E r \in S : Cardinality(before[r]) = i - 1
<1>1. PICK n \in Nat : n = Cardinality(S)
  BY FS_CardinalityType DEF RanksOf
<1>2. ASSUME NEW r \in S
      PROVE  Cardinality(before[r]) \in Nat /\ Cardinality(before[r]) < n
  <2>1. before[r] \in SUBSET S /\ before[r] # S /\ IsFiniteSet(S)
    BY DEF RanksOf
  <2>2. IsFiniteSet(before[r]) /\ Cardinality(before[r]) <= n /\ Cardinality(before[r]) # n
    BY <1>1, <2>1, FS_Subset
  <2>3. Cardinality(before[r]) \in Nat
    BY <2>2, FS_CardinalityType
  <2> QED BY <2>2, <2>3
<1>3. ASSUME NEW r \in S, NEW s \in S, Cardinality(before[r]) = Cardinality(before[s])
      PROVE  r = s
  <2>1. CASE s \in before[r]
    BY <1>2, <1>3, <2>1, RankBelow
  <2>2. CASE r \in before[s]
    BY <1>2, <1>3, <2>2, RankBelow
  <2> QED BY <2>1, <2>2 DEF RanksOf
<1>4. PICK rank : rank = [r \in S |-> Cardinality(before[r])]
  OBVIOUS
<1>5. PICK T : T = 0 .. n - 1
  OBVIOUS
<1>6. IsFiniteSet(T) /\ Cardinality(T) = n
  BY <1>1, <1>5, FS_Interval
<1>7. rank \in Injection(S, T)
  BY <1>2, <1>3, <1>4, <1>5 DEF Injection, IsInjective
<1>8. rank \in Surjection(S, T)
  BY <1>1, <1>6, <1>7, FS_Injection
<1>9. ASSUME NEW i \in 1 .. n
      PROVE  \E r \in S : Cardinality(before[r]) = i - 1
  <2>1. i - 1 \in T
    BY <1>5
  <2> QED BY <1>4, <1>8, <2>1 DEF Surjection
<1> QED BY <1>1, <1>2, <1>3, <1>9

\* Those behind and those ahead of one are all the others.
LEMMA AheadAndBehind ==
  ASSUME NEW before, NEW after, NEW S, RanksOf(before, S), NEW r \in S,
         after[r] = {s \in S : r \in before[s]}
  PROVE  Cardinality(before[r]) + Cardinality(after[r]) + 1 = Cardinality(S)
<1>1. PICK b : b = before[r]
  OBVIOUS
<1>2. PICK a : a = after[r]
  OBVIOUS
<1>3. b \in SUBSET S /\ a \in SUBSET S /\ r \notin b /\ r \notin a /\ b \cap a = {}
  BY <1>1, <1>2 DEF RanksOf
<1>4. S = (b \cup a) \cup {r}
  BY <1>1, <1>2, <1>3 DEF RanksOf
<1>5. IsFiniteSet(b) /\ IsFiniteSet(a)
  BY <1>3, FS_Subset DEF RanksOf
<1>6. IsFiniteSet(b \cup a) /\ Cardinality(b \cup a) = Cardinality(b) + Cardinality(a) - Cardinality({})
  BY <1>3, <1>5, FS_Union
<1>7. Cardinality(S) = Cardinality(b \cup a) + 1
  BY <1>3, <1>4, <1>6, CountWith
<1>8. Cardinality({}) = 0 /\ Cardinality(a) \in Nat /\ Cardinality(b) \in Nat
  BY <1>5, FS_EmptySet, FS_CardinalityType
<1> QED BY <1>1, <1>2, <1>6, <1>7, <1>8

-----------------------------------------------------------------------------
(* The rows in order: the number of a row decides between those alike.     *)

Orderly(column, S) ==
  /\ IsFiniteSet(S)
  /\ \A r \in S : r.rowid \in Nat /\ OrZero(r[column]) \in Nat
  /\ \A r, s \in S : r.rowid = s.rowid => r = s

Below(column, S) == [r \in S |-> {s \in S : Under(column, s, r)}]
Above(column, S) == [r \in S |-> {s \in S : Under(column, r, s)}]

LEMMA UnderIsOrder ==
  ASSUME NEW column, NEW S, Orderly(column, S)
  PROVE  /\ \A r \in S : ~Under(column, r, r)
         /\ \A r, s \in S : r # s => Under(column, r, s) \/ Under(column, s, r)
         /\ \A r, s, t \in S : Under(column, r, s) /\ Under(column, s, t) => Under(column, r, t)
<1> DEFINE v == [r \in S |-> OrZero(r[column])]
           Is(r, s) == v[r] < v[s] \/ (v[r] = v[s] /\ r.rowid < s.rowid)
<1>1. \A r \in S : v[r] \in Nat /\ r.rowid \in Nat
  BY DEF Orderly
<1>2. \A r, s \in S : Under(column, r, s) <=> Is(r, s)
  BY DEF Under
<1>3. \A r, s \in S : r.rowid = s.rowid => r = s
  BY DEF Orderly
<1> HIDE DEF v
<1>4. \A r \in S : ~Is(r, r)
  BY <1>1
<1>5. \A r, s \in S : r # s => Is(r, s) \/ Is(s, r)
  BY <1>1, <1>3
<1>6. \A r, s, t \in S : Is(r, s) /\ Is(s, t) => Is(r, t)
  BY <1>1
<1> HIDE DEF Is
<1> QED BY <1>2, <1>4, <1>5, <1>6

LEMMA RowsAreRanked ==
  ASSUME NEW column, NEW S, Orderly(column, S)
  PROVE  /\ RanksOf(Below(column, S), S) /\ RanksOf(Above(column, S), S)
         /\ \A r \in S : Above(column, S)[r] = {s \in S : r \in Below(column, S)[s]}
<1> DEFINE b == Below(column, S)
           a == Above(column, S)
<1>1. \A r \in S : b[r] = {s \in S : Under(column, s, r)} /\ a[r] = {s \in S : Under(column, r, s)}
  BY DEF Below, Above
<1> HIDE DEF b, a
<1>2. IsFiniteSet(S)
  BY DEF Orderly
<1>3. RanksOf(b, S)
  BY <1>1, <1>2, UnderIsOrder DEF RanksOf
<1>4. RanksOf(a, S)
  BY <1>1, <1>2, UnderIsOrder DEF RanksOf
<1>5. \A r \in S : a[r] = {s \in S : r \in b[s]}
  BY <1>1
<1> QED BY <1>3, <1>4, <1>5 DEF b, a

\* A list of all rows by their rank.
ByRank(q, before, S) ==
  /\ q \in Seq(S) /\ Len(q) = Cardinality(S) /\ Cardinality(S) \in Nat
  /\ \A i \in 1 .. Cardinality(S) : q[i] \in S /\ Cardinality(before[q[i]]) = i - 1
  /\ \A r \in S : Cardinality(before[r]) + 1 \in 1 .. Cardinality(S) /\ q[Cardinality(before[r]) + 1] = r

LEMMA ListedByRank ==
  ASSUME NEW before, NEW S, RanksOf(before, S), NEW q,
         q = [i \in 1 .. Cardinality(S) |-> CHOOSE r \in S : Cardinality(before[r]) = i - 1]
  PROVE  ByRank(q, before, S)
<1>1. PICK n \in Nat : n = Cardinality(S)
  BY FS_CardinalityType DEF RanksOf
<1>2. ASSUME NEW i \in 1 .. n
      PROVE  q[i] \in S /\ Cardinality(before[q[i]]) = i - 1
  <2>1. \E r \in S : Cardinality(before[r]) = i - 1
    BY <1>1, EveryRank
  <2>2. q[i] = CHOOSE r \in S : Cardinality(before[r]) = i - 1
    BY <1>1
  <2> QED BY <2>1, <2>2
<1>3. q = [i \in 1 .. n |-> q[i]]
  BY <1>1
<1>4. q \in Seq(S) /\ Len(q) = n
  <2>1. q \in [1 .. n -> S]
    BY <1>2, <1>3
  <2>2. q \in Seq(S)
    BY <2>1, SeqDef
  <2>3. DOMAIN q = 1 .. n /\ DOMAIN q = 1 .. Len(q) /\ Len(q) \in Nat
    BY <2>1, <2>2, LenProperties
  <2>4. PICK m : m = Len(q)
    OBVIOUS
  <2>5. m \in Nat /\ 1 .. m = 1 .. n
    BY <2>3, <2>4
  <2>6. m = n
    <3> HIDE <1>1, <1>2, <1>3, <2>1, <2>2, <2>3, <2>4
    <3>1. (n = 0 \/ n \in 1 .. m) /\ (m = 0 \/ m \in 1 .. n)
      BY <2>5
    <3> QED BY <2>5, <3>1
  <2> QED BY <2>2, <2>4, <2>6
<1>5. ASSUME NEW r \in S
      PROVE  Cardinality(before[r]) + 1 \in 1 .. n /\ q[Cardinality(before[r]) + 1] = r
  <2>1. PICK c : c = Cardinality(before[r])
    OBVIOUS
  <2>2. c \in Nat /\ c < n
    BY <1>1, <2>1, EveryRank
  <2>3. c + 1 \in 1 .. n /\ (c + 1) - 1 = c
    BY <2>2
  <2>4. q[c + 1] \in S /\ Cardinality(before[q[c + 1]]) = c
    BY <1>2, <2>3
  <2>5. q[c + 1] = r
    BY <2>1, <2>4, EveryRank
  <2> QED BY <2>1, <2>3, <2>5
<1> QED BY <1>1, <1>2, <1>4, <1>5 DEF ByRank

LEMMA OrderedRows ==
  ASSUME NEW column, NEW S, Orderly(column, S)
  PROVE  /\ ByRank(Ascending(column, S), Below(column, S), S)
         /\ ByRank(Descending(column, S), Above(column, S), S)
<1>1. PICK b : b = Below(column, S)
  OBVIOUS
<1>2. PICK a : a = Above(column, S)
  OBVIOUS
<1>3. ASSUME NEW i
      PROVE  /\ (CHOOSE r \in S : Cardinality({s \in S : Under(column, s, r)}) = i - 1)
                  = (CHOOSE r \in S : Cardinality(b[r]) = i - 1)
             /\ (CHOOSE r \in S : Cardinality({s \in S : Under(column, r, s)}) = i - 1)
                  = (CHOOSE r \in S : Cardinality(a[r]) = i - 1)
  <2>1. \A r \in S : {s \in S : Under(column, s, r)} = b[r]
    BY <1>1 DEF Below
  <2>2. \A r \in S : {s \in S : Under(column, r, s)} = a[r]
    BY <1>2 DEF Above
  <2>3. (CHOOSE r \in S : Cardinality({s \in S : Under(column, s, r)}) = i - 1)
          = (CHOOSE r \in S : Cardinality(b[r]) = i - 1)
    BY <2>1
  <2>4. (CHOOSE r \in S : Cardinality({s \in S : Under(column, r, s)}) = i - 1)
          = (CHOOSE r \in S : Cardinality(a[r]) = i - 1)
    BY <2>2
  <2> QED BY <2>3, <2>4
<1>4. Ascending(column, S) = [i \in 1 .. Cardinality(S) |-> CHOOSE r \in S : Cardinality(b[r]) = i - 1]
  <2>1. PICK I : I = 1 .. Cardinality(S)
    OBVIOUS
  <2>2. PICK f : f = [i \in I |-> CHOOSE r \in S : Cardinality({s \in S : Under(column, s, r)}) = i - 1]
    OBVIOUS
  <2>3. PICK g : g = [i \in I |-> CHOOSE r \in S : Cardinality(b[r]) = i - 1]
    OBVIOUS
  <2>4. \A i \in I : f[i] = CHOOSE r \in S : Cardinality({s \in S : Under(column, s, r)}) = i - 1
    BY <2>2, Zenon
  <2>5. \A i \in I : g[i] = CHOOSE r \in S : Cardinality(b[r]) = i - 1
    BY <2>3, Zenon
  <2>6. \A i \in I : f[i] = g[i]
    BY <1>3, <2>4, <2>5, Zenon
  <2>7. f = [i \in I |-> f[i]] /\ g = [i \in I |-> g[i]]
    <3>1. f = [i \in I |-> f[i]]
      BY <2>2
    <3>2. g = [i \in I |-> g[i]]
      BY <2>3
    <3> QED BY <3>1, <3>2
  <2>8. f = g
    BY <2>6, <2>7
  <2>9. Ascending(column, S) = f
    BY <2>1, <2>2, Zenon DEF Ascending
  <2> QED BY <2>1, <2>3, <2>8, <2>9, Zenon
<1>5. Descending(column, S) = [i \in 1 .. Cardinality(S) |-> CHOOSE r \in S : Cardinality(a[r]) = i - 1]
  <2>1. PICK I : I = 1 .. Cardinality(S)
    OBVIOUS
  <2>2. PICK f : f = [i \in I |-> CHOOSE r \in S : Cardinality({s \in S : Under(column, r, s)}) = i - 1]
    OBVIOUS
  <2>3. PICK g : g = [i \in I |-> CHOOSE r \in S : Cardinality(a[r]) = i - 1]
    OBVIOUS
  <2>4. \A i \in I : f[i] = CHOOSE r \in S : Cardinality({s \in S : Under(column, r, s)}) = i - 1
    BY <2>2, Zenon
  <2>5. \A i \in I : g[i] = CHOOSE r \in S : Cardinality(a[r]) = i - 1
    BY <2>3, Zenon
  <2>6. \A i \in I : f[i] = g[i]
    BY <1>3, <2>4, <2>5, Zenon
  <2>7. f = [i \in I |-> f[i]] /\ g = [i \in I |-> g[i]]
    <3>1. f = [i \in I |-> f[i]]
      BY <2>2, SMTT(60)
    <3>2. g = [i \in I |-> g[i]]
      BY <2>3
    <3> QED BY <3>1, <3>2
  <2>8. f = g
    BY <2>6, <2>7
  <2>9. Descending(column, S) = f
    BY <2>1, <2>2, Zenon DEF Descending
  <2> QED BY <2>1, <2>3, <2>8, <2>9, Zenon
<1>6. RanksOf(b, S) /\ RanksOf(a, S)
  BY <1>1, <1>2, RowsAreRanked
<1>7. ByRank(Ascending(column, S), b, S)
  BY <1>4, <1>6, ListedByRank
<1>8. ByRank(Descending(column, S), a, S)
  BY <1>5, <1>6, ListedByRank
<1> QED BY <1>1, <1>2, <1>7, <1>8

\* The one order is the other backwards.
LEMMA DescendingBackwards ==
  ASSUME NEW column, NEW S, Orderly(column, S)
  PROVE  Descending(column, S) = Reverse(Ascending(column, S))
<1>1. PICK a : a = Ascending(column, S)
  OBVIOUS
<1>2. PICK d : d = Descending(column, S)
  OBVIOUS
<1>3. PICK below : below = Below(column, S)
  OBVIOUS
<1>4. PICK above : above = Above(column, S)
  OBVIOUS
<1>5. ByRank(a, below, S) /\ ByRank(d, above, S)
  BY <1>1, <1>2, <1>3, <1>4, OrderedRows
<1>6. RanksOf(below, S) /\ \A r \in S : above[r] = {s \in S : r \in below[s]}
  BY <1>3, <1>4, RowsAreRanked
<1>7. PICK n \in Nat : n = Cardinality(S)
  BY <1>5 DEF ByRank
<1>8. a \in Seq(S) /\ Len(a) = n /\ d \in Seq(S) /\ Len(d) = n
  BY <1>5, <1>7 DEF ByRank
<1>9. ASSUME NEW i \in 1 .. n
      PROVE  d[i] = a[(n - i) + 1]
  <2>1. PICK x \in S : x = d[i] /\ Cardinality(above[x]) = i - 1
    BY <1>5, <1>7 DEF ByRank
  <2>2. PICK c \in Nat : c = Cardinality(below[x])
    BY <1>6, EveryRank
  <2>3. c + (i - 1) + 1 = n
    BY <1>6, <1>7, <2>1, <2>2, AheadAndBehind
  <2>4. a[c + 1] = x
    BY <1>5, <2>2 DEF ByRank
  <2>5. c + 1 = (n - i) + 1
    BY <2>3
  <2> QED BY <2>1, <2>4, <2>5
<1>10. d = [i \in 1 .. n |-> d[i]]
  BY <1>8
<1>11. d = [i \in 1 .. n |-> a[(n - i) + 1]]
  BY <1>9, <1>10
<1> QED BY <1>1, <1>2, <1>8, <1>11 DEF Reverse

-----------------------------------------------------------------------------
(* What is told of a single row, percentiles, and the hours of a window.   *)

MaybeNumber(v) == v = Null \/ v \in Nat

LEMMA SpeedsAgree ==
  ASSUME NEW r, MaybeNumber(r.output_tokens), MaybeNumber(r.latency_ms), MaybeNumber(r.ttfb_ms),
         MaybeNumber(r.reasoning_tokens)
  PROVE  RowSpeed(r) = RowSpeedSql(r)
<1>1. Null \notin Nat /\ MinGen \in Nat /\ MaxTps \in Nat
  BY PageConstants
<1>2. CASE ~r.ok \/ Null \in {r.output_tokens, r.latency_ms, r.ttfb_ms}
  BY <1>2 DEF RowSpeed, RowSpeedSql, RoutedGuard
<1>3. CASE r.ok /\ Null \notin {r.output_tokens, r.latency_ms, r.ttfb_ms}
  <2>1. PICK out \in Nat : out = r.output_tokens
    BY <1>3 DEF MaybeNumber
  <2>2. r.latency_ms \in Nat /\ r.ttfb_ms \in Nat
    BY <1>3 DEF MaybeNumber
  <2>3. PICK gen \in Int : gen = r.latency_ms - r.ttfb_ms
    BY <2>2
  <2>4. gen > 0 <=> r.latency_ms > r.ttfb_ms
    BY <2>2, <2>3
  <2>5. PICK thought \in Nat : thought = OrZero(r.reasoning_tokens)
    BY DEF OrZero, MaybeNumber
  <2>6. OrZero(r.output_tokens) = out
    BY <1>3, <2>1 DEF OrZero
  <2>7. (gen < MinGen \/ out > MaxTps * gen \/ out <= 0) <=> ~RoutedGuard(r)
    <3>1. RoutedGuard(r) <=> out > 0 /\ gen > 0 /\ gen >= MinGen /\ out <= MaxTps * gen
      BY <1>3, <2>1, <2>2, <2>3, <2>4 DEF RoutedGuard
    <3>2. CASE gen = 0
      <4>1. MaxTps * gen = 0
        BY <1>1, <3>2
      <4> QED BY <1>1, <3>1, <3>2, <4>1
    <3>3. CASE gen < 0
      BY <1>1, <3>1, <3>3
    <3>4. CASE gen > 0
      <4>1. PICK most \in Int : most = MaxTps * gen
        BY <1>1
      <4> QED BY <1>1, <3>1, <3>4, <4>1
    <3> QED BY <3>2, <3>3, <3>4
  <2>8. VisibleTokens(r) = IF out > thought THEN out - thought ELSE 0
    BY <2>5, <2>6 DEF VisibleTokens
  <2>9. CASE RoutedGuard(r)
    <3>1. RowSpeedSql(r) = [total |-> out, visible |-> IF VisibleTokens(r) = 0 THEN Null ELSE VisibleTokens(r), over |-> gen]
      BY <1>3, <2>1, <2>3, <2>9 DEF RowSpeedSql
    <3>2. RowSpeed(r) = [total |-> out, visible |-> IF out - thought > 0 THEN out - thought ELSE Null, over |-> gen]
      BY <1>3, <2>1, <2>3, <2>5, <2>7, <2>9 DEF RowSpeed
    <3>3. (IF VisibleTokens(r) = 0 THEN Null ELSE VisibleTokens(r)) = IF out - thought > 0 THEN out - thought ELSE Null
      BY <2>8
    <3> QED BY <3>1, <3>2, <3>3
  <2>10. CASE ~RoutedGuard(r)
    <3>1. RowSpeedSql(r) = NoSpeed
      BY <2>10 DEF RowSpeedSql
    <3>2. RowSpeed(r) = NoSpeed
      BY <1>3, <2>1, <2>3, <2>7, <2>10 DEF RowSpeed
    <3> QED BY <3>1, <3>2
  <2> QED BY <2>9, <2>10
<1> QED BY <1>2, <1>3

\* The nearest rank of so many of n.
LEMMA NearestRank ==
  ASSUME NEW n \in Nat \ {0}, NEW pct \in {50, 95}
  PROVE  LET rank == (pct * n + 99) \div 100
         IN  /\ rank \in 1 .. n /\ 100 * rank >= pct * n
             /\ \A k \in Nat : k < rank => 100 * k < pct * n
<1>1. CASE pct = 50
  BY <1>1
<1>2. CASE pct = 95
  BY <1>2
<1> QED BY <1>1, <1>2

LEMMA PercentileRight ==
  ASSUME NEW rows, IsFiniteSet(rows), Orderly("latency_ms", rows), \A r \in rows : MaybeNumber(r.latency_ms)
  PROVE  PercentilesRight(rows)
<1> SUFFICES ASSUME NEW pct \in {50, 95}
             PROVE  LET values == {r \in rows : r.ok /\ r.latency_ms # Null}
                        Enough(v) == 100 * Cardinality({r \in values : r.latency_ms <= v}) >= pct * Cardinality(values)
                    IN  Percentile(rows, "latency_ms", pct) =
                          IF values = {} THEN Null ELSE Min({v \in {r.latency_ms : r \in values} : Enough(v)})
  BY DEF PercentilesRight
<1>1. PICK S \in SUBSET rows : S = {r \in rows : r.ok /\ r.latency_ms # Null}
  OBVIOUS
<1>2. IsFiniteSet(S) /\ Orderly("latency_ms", S)
  BY FS_Subset DEF Orderly
<1>3. PICK q : q = Ascending("latency_ms", S)
  OBVIOUS
<1>4. PICK b : b = Below("latency_ms", S)
  OBVIOUS
<1>5. ByRank(q, b, S) /\ RanksOf(b, S)
  BY <1>2, <1>3, <1>4, OrderedRows, RowsAreRanked
<1>6. PICK n \in Nat : n = Cardinality(S) /\ Len(q) = n /\ q \in Seq(S)
  BY <1>5 DEF ByRank
<1>7. PICK rank : rank = (pct * n + 99) \div 100
  OBVIOUS
<1>8. Percentile(rows, "latency_ms", pct) = IF q = <<>> THEN Null ELSE q[rank].latency_ms
  <2>1. {r \in rows : r.ok /\ r["latency_ms"] # Null} = S
    BY <1>1
  <2>2. Percentile(rows, "latency_ms", pct) = IF q = <<>> THEN Null ELSE q[rank]["latency_ms"]
    BY <1>3, <1>6, <1>7, <2>1, Zenon DEF Percentile
  <2> QED BY <2>2
<1>9. CASE S = {}
  <2>1. n = 0 /\ q = <<>>
    <3>1. n = 0
      BY <1>6, <1>9, FS_EmptySet
    <3> QED BY <1>6, <3>1, EmptySeq
  <2> QED BY <1>1, <1>8, <1>9, <2>1
<1>10. CASE S # {}
  <2>1. n # 0 /\ q # <<>>
    BY <1>2, <1>6, <1>10, FS_EmptySet, EmptySeq
  <2>2. rank \in 1 .. n /\ 100 * rank >= pct * n /\ \A k \in Nat : k < rank => 100 * k < pct * n
    BY <1>7, <2>1, NearestRank
  <2>3. PICK x \in S : x = q[rank] /\ Cardinality(b[x]) = rank - 1
    BY <1>5, <1>6, <2>2 DEF ByRank
  <2>4. \A r \in S : r.latency_ms \in Nat /\ OrZero(r.latency_ms) = r.latency_ms
    BY <1>1 DEF MaybeNumber, OrZero
  <2>5. b[x] = {r \in S : r.latency_ms < x.latency_ms \/ (r.latency_ms = x.latency_ms /\ r.rowid < x.rowid)}
    BY <1>4, <2>4 DEF Below, Under
  <2> DEFINE UpToValue(v) == {r \in S : r.latency_ms <= v}
             Enough(v) == 100 * Cardinality(UpToValue(v)) >= pct * n
  <2>6. Enough(x.latency_ms)
    <3>1. PICK less : less = b[x]
      OBVIOUS
    <3>2. x \notin less /\ IsFiniteSet(less)
      BY <1>5, <3>1, FS_Subset DEF RanksOf
    <3>3. less \cup {x} \in SUBSET UpToValue(x.latency_ms)
      BY <2>4, <2>5, <3>1
    <3>4. IsFiniteSet(UpToValue(x.latency_ms))
      BY <1>2, FS_Subset
    <3>5. Cardinality(less \cup {x}) = rank
      BY <2>2, <2>3, <3>1, <3>2, CountWith
    <3>6. PICK k \in Nat : k = Cardinality(UpToValue(x.latency_ms))
      BY <3>4, FS_CardinalityType
    <3>7. rank <= k
      BY <3>3, <3>4, <3>5, <3>6, FS_Subset
    <3>8. 100 * k >= 100 * rank
      BY <2>2, <3>7
    <3>9. pct * n \in Nat
      OBVIOUS
    <3> QED BY <2>2, <3>6, <3>8, <3>9
  <2>7. ASSUME NEW v \in {r.latency_ms : r \in S}, Enough(v)
        PROVE  x.latency_ms <= v
    <3>1. v \in Nat
      BY <2>4
    <3>2. SUFFICES ASSUME v < x.latency_ms
                   PROVE  FALSE
      BY <2>4, <3>1
    <3>3. UpToValue(v) \in SUBSET b[x]
      BY <2>4, <2>5, <3>1, <3>2
    <3>4. IsFiniteSet(b[x])
      BY <1>5, FS_Subset DEF RanksOf
    <3>5. PICK k \in Nat : k = Cardinality(UpToValue(v)) /\ k <= rank - 1
      <4>1. PICK m : m = UpToValue(v)
        OBVIOUS
      <4>2. IsFiniteSet(m) /\ Cardinality(m) <= rank - 1
        BY <2>3, <3>3, <3>4, <4>1, FS_Subset
      <4>3. Cardinality(m) \in Nat
        BY <4>2, FS_CardinalityType
      <4> QED BY <4>1, <4>2, <4>3
    <3>6. 100 * k < pct * n
      BY <2>2, <3>5
    <3>7. pct * n \in Nat
      OBVIOUS
    <3> QED BY <2>7, <3>5, <3>6, <3>7
  <2>8. Min({v \in {r.latency_ms : r \in S} : Enough(v)}) = x.latency_ms
    <3> HIDE DEF Enough
    <3>1. PICK V : V = {v \in {r.latency_ms : r \in S} : Enough(v)}
      OBVIOUS
    <3>2. V \in SUBSET Nat /\ x.latency_ms \in V /\ \A v \in V : x.latency_ms <= v
      BY <2>4, <2>6, <2>7, <3>1
    <3> QED BY <3>1, <3>2, MinIs
  <2>9. Percentile(rows, "latency_ms", pct) = x.latency_ms
    BY <1>8, <2>1, <2>3
  <2> QED BY <1>1, <1>6, <1>10, <2>8, <2>9
<1> QED BY <1>9, <1>10

-----------------------------------------------------------------------------
(* The hours of a window.                                                  *)

LEMMA FiniteIsBounded ==
  ASSUME NEW S \in SUBSET Nat, IsFiniteSet(S)
  PROVE  \E bound \in Nat : \A x \in S : x <= bound
<1>1. PICK Good : Good = {s \in SUBSET S : \E bound \in Nat : \A x \in s : x <= bound}
  OBVIOUS
<1>2. {} \in Good
  BY <1>1
<1>3. ASSUME NEW s \in SUBSET S, NEW x \in S, s \in Good, x \notin s
      PROVE  s \cup {x} \in Good
  <2>1. PICK bound \in Nat : \A y \in s : y <= bound
    BY <1>1, <1>3
  <2>2. PICK m \in Nat : m = IF x <= bound THEN bound ELSE x
    OBVIOUS
  <2>3. \A y \in s \cup {x} : y <= m
    BY <2>1, <2>2
  <2> QED BY <1>1, <2>3
<1>4. S \in Good
  BY <1>2, <1>3, OneByOne
<1> QED BY <1>1, <1>4

LEMMA LargestOf ==
  ASSUME NEW S \in SUBSET Nat, S # {}, IsFiniteSet(S)
  PROVE  Max(S) \in S /\ \A y \in S : y <= Max(S)
<1>1. PICK bound \in Nat : \A x \in S : x <= bound
  BY FiniteIsBounded
<1> QED BY <1>1, LargestNumber

LEMMA WholeHour ==
  ASSUME NEW h \in Nat
  PROVE  h * PerHour \in Nat /\ HourOf(h * PerHour) = h
<1>1. PICK t : t = h * PerHour
  OBVIOUS
<1>2. t \in Nat
  BY <1>1, BookConstants
<1>3. HourOf(t) \in Nat
  BY <1>2, HourBounds
<1>4. HourOf(t) >= h
  BY <1>1, <1>2, HourFrom
<1>5. HourOf(t) < h + 1
  <2>1. ~(t >= (h + 1) * PerHour)
    BY <1>1, BookConstants
  <2> QED BY <1>2, <1>3, <2>1, HourFrom
<1> QED BY <1>1, <1>2, <1>3, <1>4, <1>5

LEMMA WindowBounds ==
  ASSUME NEW q \in Queries
  PROVE  (q.since = Null \/ q.since \in Nat) /\ (q.until = Null \/ q.until \in Nat) /\ Null \notin Nat
BY PageConstants

\* A window of whole hours takes all of an hour or nothing.
LEMMA WholeWindow ==
  ASSUME NEW q \in Queries, Whole(q.since), Whole(q.until), NEW t \in Nat
  PROVE  Within(HourOf(t) * PerHour, q) <=> Within(t, q)
<1>1. PICK h \in Nat : h = HourOf(t)
  BY HourBounds
<1>2. PICK b \in Nat : b = h * PerHour /\ HourOf(b) = h
  BY WholeHour
<1>3. ASSUME NEW w \in Nat, Whole(w)
      PROVE  (b >= w <=> t >= w) /\ (b < w <=> t < w)
  <2>1. PICK n \in Nat : w = n * PerHour
    <3>1. w % PerHour = 0
      BY <1>3, WindowBounds DEF Whole
    <3>2. PICK n : n = w \div PerHour
      OBVIOUS
    <3>3. n \in Nat /\ w = n * PerHour
      BY <3>1, <3>2, BookConstants
    <3> QED BY <3>3
  <2>2. b >= n * PerHour <=> h >= n
    BY <1>2, HourFrom
  <2>3. t >= n * PerHour <=> h >= n
    BY <1>1, HourFrom
  <2> QED BY <2>1, <2>2, <2>3
<1>4. q.since = Null \/ (b >= q.since <=> t >= q.since)
  BY <1>3, WindowBounds
<1>5. q.until = Null \/ (b < q.until <=> t < q.until)
  BY <1>3, WindowBounds
<1> QED BY <1>1, <1>2, <1>4, <1>5 DEF Within

\* The hours in which something lies in the window.
InWindow(S, q) ==
  S \in SUBSET Nat /\ IsFiniteSet(S) /\ \A h \in S : \E t \in Nat : HourOf(t) = h /\ Within(t, q)

LEMMA WindowHours ==
  ASSUME NEW q \in Queries, NEW S, InWindow(S, q), S # {}, NEW first, NEW last,
         first = (IF q.since # Null THEN HourOf(q.since) ELSE Min(S)),
         last = (IF q.until = Null THEN Max(S)
                 ELSE IF q.until > first * PerHour THEN HourOf(q.until - 1) ELSE first)
  PROVE  /\ first \in Nat /\ last \in Nat
         /\ \A h \in S : first <= h /\ h <= last
         /\ q.until # Null => last = HourOf(q.until - 1)
<1>1. Min(S) \in S /\ (\A h \in S : Min(S) <= h) /\ Max(S) \in S /\ (\A h \in S : h <= Max(S)) /\ S \in SUBSET Nat
  BY LeastNumber, LargestOf DEF InWindow
<1>2. ASSUME NEW h \in S, NEW t \in Nat, HourOf(t) = h, Within(t, q)
      PROVE  first \in Nat /\ first <= h /\ t >= first * PerHour
  <2>1. CASE q.since = Null
    <3>1. first \in Nat /\ first <= h
      BY <1>1, <2>1
    <3> QED BY <1>2, <3>1, HourFrom
  <2>2. CASE q.since # Null
    <3>1. q.since \in Nat /\ q.since <= t
      BY <1>2, <2>2, WindowBounds DEF Within
    <3>2. first = HourOf(q.since) /\ first \in Nat
      BY <2>2, <3>1, HourBounds
    <3>3. first <= h
      BY <1>2, <3>1, <3>2, HourGrows
    <3> QED BY <1>2, <3>2, <3>3, HourFrom
  <2> QED BY <2>1, <2>2
<1>3. ASSUME NEW h \in S, NEW t \in Nat, HourOf(t) = h, Within(t, q), q.until # Null
      PROVE  last \in Nat /\ h <= last /\ last = HourOf(q.until - 1)
  <2>1. q.until \in Nat /\ t < q.until
    BY <1>3, WindowBounds DEF Within
  <2>2. first \in Nat /\ t >= first * PerHour
    BY <1>2, <1>3
  <2>3. first * PerHour \in Nat
    BY <2>2, HourFrom
  <2>4. q.until > first * PerHour /\ q.until - 1 \in Nat /\ t <= q.until - 1
    BY <2>1, <2>2, <2>3
  <2>5. last = HourOf(q.until - 1)
    BY <1>3, <2>4
  <2>6. HourOf(t) <= HourOf(q.until - 1)
    BY <2>4, HourGrows
  <2> QED BY <1>3, <2>4, <2>5, <2>6, HourBounds
<1>4. \A h \in S : \E t \in Nat : HourOf(t) = h /\ Within(t, q)
  BY DEF InWindow
<1>5. CASE q.until = Null
  <2>1. last = Max(S)
    BY <1>5
  <2> QED BY <1>1, <1>2, <1>4, <1>5, <2>1
<1>6. CASE q.until # Null
  BY <1>2, <1>3, <1>4, <1>6
<1> QED BY <1>5, <1>6

LEMMA DenseIsWhole ==
  ASSUME NEW q \in Queries, NEW S, InWindow(S, q)
  PROVE  /\ S \subseteq DenseHours(S, q)
         /\ DenseHours(S, q) \in SUBSET Nat /\ IsFiniteSet(DenseHours(S, q))
         /\ Unbroken(DenseHours(S, q), q)
<1>1. CASE S = {}
  <2>1. DenseHours(S, q) = {}
    BY <1>1 DEF DenseHours
  <2> QED BY <1>1, <2>1, FS_EmptySet DEF Unbroken
<1>2. CASE S # {}
  <2>1. PICK first : first = IF q.since # Null THEN HourOf(q.since) ELSE Min(S)
    OBVIOUS
  <2>2. PICK last : last = IF q.until = Null THEN Max(S)
                           ELSE IF q.until > first * PerHour THEN HourOf(q.until - 1) ELSE first
    OBVIOUS
  <2>3. PICK D : D = DenseHours(S, q)
    OBVIOUS
  <2>4. D = IF last - first + 1 > MaxDense THEN S ELSE first .. last
    BY <1>2, <2>1, <2>2, <2>3 DEF DenseHours
  <2>5. /\ first \in Nat /\ last \in Nat
        /\ \A h \in S : first <= h /\ h <= last
        /\ q.until # Null => last = HourOf(q.until - 1)
    BY <1>2, <2>1, <2>2, WindowHours
  <2>6. S \in SUBSET Nat /\ IsFiniteSet(S) /\ MaxDense \in Nat
    BY PageConstants DEF InWindow
  <2>7. S \subseteq D /\ D \in SUBSET Nat
    BY <2>4, <2>5, <2>6
  <2>8. IsFiniteSet(D)
    BY <2>4, <2>5, <2>6, FS_Interval
  <2>9. first <= last
    <3>1. PICK h \in S : h \in Nat
      BY <1>2, <2>6
    <3> QED BY <2>5, <3>1
  <2>10. CASE last - first + 1 > MaxDense
    <3>1. D = S /\ last - first >= MaxDense
      BY <2>4, <2>5, <2>6, <2>10
    <3>2. last = IF q.until = Null THEN Max(D) ELSE HourOf(q.until - 1)
      BY <2>2, <2>5, <3>1
    <3>3. first = IF q.since = Null THEN Min(D) ELSE HourOf(q.since)
      BY <2>1, <3>1
    <3> QED BY <2>3, <2>7, <2>8, <3>1, <3>2, <3>3 DEF Unbroken
  <2>11. CASE ~(last - first + 1 > MaxDense)
    <3>1. D = first .. last
      BY <2>4, <2>11
    <3>2. Min(D) = first /\ Max(D) = last
      <4>1. D \in SUBSET Nat /\ first \in D /\ last \in D
        BY <2>5, <2>7, <2>9, <3>1
      <4>2. \A h \in D : first <= h /\ h <= last
        BY <2>5, <3>1
      <4> QED BY <4>1, <4>2, MinIs, MaxIs
    <3>3. last = IF q.until = Null THEN Max(D) ELSE HourOf(q.until - 1)
      BY <2>5, <3>2
    <3>4. first = IF q.since = Null THEN Min(D) ELSE HourOf(q.since)
      BY <2>1, <3>2
    <3> QED BY <2>3, <2>7, <2>8, <3>1, <3>3, <3>4 DEF Unbroken
  <2> QED BY <2>10, <2>11
<1> QED BY <1>1, <1>2

-----------------------------------------------------------------------------
(* The invariant of the tables: that of the books, and what the pages need *)
(* to know of the rows.                                                    *)

EventTyped(r) ==
  /\ r.rowid \in Nat
  /\ \A column \in {"output_tokens", "latency_ms", "ttfb_ms", "reasoning_tokens"} : MaybeNumber(r[column])
  /\ r.ok => r.error_type \notin ModelErrors

\* Where no cost is known there is none.
Honest(s) == s["cost_known"] = 0 => s["cost"] = 0

TablesInv ==
  /\ BooksInv
  /\ clock <= LastTick
  /\ \A r \in usage : EventTyped(r)
  /\ \A r, s \in usage : r.rowid = s.rowid => r = s
  /\ IsFiniteSet(DOMAIN hourly)
  /\ \A k \in DOMAIN hourly : k.hour \in Hours /\ Honest(hourly[k])

LEMMA HourRows ==
  ASSUME TablesInv, NEW K \in SUBSET DOMAIN hourly
  PROVE  SumRows(hourly, K)
<1>1. IsFiniteSet(K)
  BY FS_Subset DEF TablesInv
<1>2. hourly \in [DOMAIN hourly -> [Columns -> Nat]]
  BY DEF TablesInv, BooksInv, BookTypes
<1>3. \A k \in K : hourly[k] \in [Columns -> Nat]
  BY <1>2
<1> QED BY <1>1, <1>3 DEF SumRows

LEMMA HoursAreNumbers == Hours \subseteq Nat
BY HourBounds, BookConstants DEF Hours

LEMMA EventHours ==
  ASSUME TablesInv, NEW r \in usage \cup recorded
  PROVE  r.ts \in Nat /\ HourOf(r.ts) \in Hours /\ HourOf(r.ts) \in Nat /\ HourKey(r).hour = HourOf(r.ts)
<1>1. r.ts \in Nat /\ r.ts <= clock /\ clock \in Nat /\ clock <= LastTick
  BY DEF TablesInv, BooksInv, BookTypes, AttemptRow
<1>2. r.ts \in 0 .. LastTick
  BY <1>1, BookConstants
<1> QED BY <1>1, <1>2, HourBounds, KeyIsHours DEF Hours

LEMMA WholeRows ==
  ASSUME TablesInv
  PROVE  /\ \A S \in SUBSET usage : Rows(S)
         /\ \A S \in SUBSET recorded : Rows(S)
BY Typed DEF TablesInv, BooksInv

\* The window takes an attempt when it takes its hour.
Asked(k, q) == Meets(k, q, {"username"}) /\ Within(k.hour * PerHour, q)

LEMMA AskedHours ==
  ASSUME NEW q
  PROVE  HoursOf(q) = {k \in DOMAIN hourly : Asked(k, q)}
BY DEF HoursOf, Asked

LEMMA AskedAttempts ==
  ASSUME TablesInv, NEW q \in Queries, Whole(q.since), Whole(q.until)
  PROVE  /\ EventsOf(usage, q) = {r \in usage : Asked(HourKey(r), q)}
         /\ EventsOf(recorded, q) = {r \in recorded : Asked(HourKey(r), q)}
<1>1. ASSUME NEW r \in usage \cup recorded
      PROVE  (Meets(r, q, {"username"}) /\ Within(r.ts, q)) <=> Asked(HourKey(r), q)
  <2>1. r.ts \in Nat /\ HourKey(r).hour = HourOf(r.ts)
    BY EventHours
  <2>2. Within(HourKey(r).hour * PerHour, q) <=> Within(r.ts, q)
    BY <2>1, WholeWindow
  <2>3. Meets(HourKey(r), q, {"username"}) <=> Meets(r, q, {"username"})
    <3>1. HourKey(r)["username"] = r["username"]
      BY DEF HourKey
    <3> QED BY <3>1 DEF Meets
  <2> QED BY <2>2, <2>3 DEF Asked
<1> QED BY <1>1 DEF EventsOf

LEMMA TrustedHour ==
  ASSUME TablesInv, NEW q \in Queries, Trusted(q), NEW k, Asked(k, q), k.hour \in Hours
  PROVE  /\ SameKeys(k.hour) /\ Counted(k.hour) /\ InStep(k.hour)
         /\ k \in DOMAIN hourly <=> k \in KeysOf(recorded)
<1>1. k.hour \in Nat /\ Settled(k.hour)
  BY HoursAreNumbers DEF Trusted, Asked
<1>2. SameKeys(k.hour) /\ Counted(k.hour) /\ InStep(k.hour)
  BY <1>1 DEF TablesInv, BooksInv, HourSound, Settled, UnderScript
<1> QED BY <1>2 DEF SameKeys, KeyedAt

LEMMA OverviewCounts ==
  ASSUME TablesInv, NEW q \in Queries, Trusted(q)
  PROVE  Counts(Overview(q)) = Counts(Sums(EventsOf(recorded, q)))
<1>1. PICK K : K = HoursOf(q)
  OBVIOUS
<1>2. PICK E : E = EventsOf(recorded, q)
  OBVIOUS
<1>3. E \in SUBSET recorded /\ Rows(E)
  BY <1>2, WholeRows DEF EventsOf
<1>4. K \in SUBSET DOMAIN hourly /\ SumRows(hourly, K)
  BY <1>1, HourRows DEF HoursOf
<1>5. Whole(q.since) /\ Whole(q.until)
  BY DEF Trusted
<1>6. E = {r \in recorded : Asked(HourKey(r), q)} /\ K = {k \in DOMAIN hourly : Asked(k, q)}
  BY <1>1, <1>2, <1>5, AskedAttempts, AskedHours
<1>7. PICK t : t = [k \in K |-> Sums(RowsOf(recorded, k))]
  OBVIOUS
<1>8. PICK g : g = [r \in E |-> HourKey(r)]
  OBVIOUS
<1>9. \A r \in E : g[r] \in K
  <2> SUFFICES ASSUME NEW r \in E
               PROVE  HourKey(r) \in K
    BY <1>8
  <2>1. Asked(HourKey(r), q) /\ r \in recorded /\ HourKey(r) \in KeysOf(recorded)
    BY <1>6 DEF KeysOf
  <2>2. HourKey(r).hour \in Hours
    BY <2>1, EventHours
  <2>3. HourKey(r) \in DOMAIN hourly
    BY <2>1, <2>2, TrustedHour
  <2> QED BY <1>6, <2>1, <2>3
<1>10. \A k \in K : t[k] = Sums(Having(g, E, k))
  <2> SUFFICES ASSUME NEW k \in K
               PROVE  RowsOf(recorded, k) = Having(g, E, k)
    BY <1>7
  <2>1. Asked(k, q)
    BY <1>6
  <2> QED BY <1>6, <1>8, <2>1 DEF RowsOf, Having
<1>11. SumRows(t, K) /\ AddedUp(t, K) = Sums(E)
  <2>1. IsFiniteSet(K)
    BY <1>4 DEF SumRows
  <2> QED BY <1>3, <1>9, <1>10, <2>1, SumsParted
<1>12. ASSUME NEW column \in Columns \ {"cost", "cost_known"}
       PROVE  AddedUp(hourly, K)[column] = Sums(E)[column]
  <2>1. PICK v : v = InColumn(hourly, column, K)
    OBVIOUS
  <2>2. PICK w : w = InColumn(t, column, K)
    OBVIOUS
  <2>3. Numbers(v, K) /\ (\A k \in K : v[k] = hourly[k][column]) /\ \A k \in K : w[k] = t[k][column]
    BY <1>4, <1>11, <2>1, <2>2, ColumnNumbers
  <2>4. ASSUME NEW k \in K
        PROVE  v[k] = w[k]
    <3>1. k \in DOMAIN hourly /\ Asked(k, q) /\ k.hour \in Hours
      BY <1>6 DEF TablesInv
    <3>2. Counted(k.hour) /\ k \in KeysOf(recorded)
      BY <3>1, TrustedHour
    <3>3. Counts(hourly[k]) = Counts(t[k])
      BY <1>7, <3>2 DEF Counted, KeyedAt
    <3>4. hourly[k] \in [Columns -> Nat] /\ t[k] \in [Columns -> Nat]
      BY <1>4, <1>11 DEF SumRows
    <3>5. hourly[k][column] = t[k][column]
      <4>1. Counts(hourly[k])[column] = hourly[k][column] /\ Counts(t[k])[column] = t[k][column]
        BY <3>4 DEF Counts
      <4> QED BY <3>3, <4>1
    <3> QED BY <2>3, <3>5
  <2>5. SumFunctionOnSet(v, K) = SumFunctionOnSet(w, K)
    BY <2>3, <2>4, TotalSame
  <2> QED BY <1>4, <1>11, <2>1, <2>2, <2>5, AddedColumns
<1>13. Overview(q) = AddedUp(hourly, K)
  BY <1>1 DEF Overview, SumOf
<1>14. AddedUp(hourly, K) \in [Columns -> Nat] /\ Sums(E) \in [Columns -> Nat]
  BY <1>3, <1>4, AddedColumns, SumsAreCounts
<1> QED BY <1>2, <1>12, <1>13, <1>14 DEF Counts

-----------------------------------------------------------------------------
(* The pages of the hours.                                                 *)

LEMMA WindowKeys ==
  ASSUME TablesInv, NEW q
  PROVE  /\ HoursOf(q) \in SUBSET DOMAIN hourly /\ SumRows(hourly, HoursOf(q)) /\ IsFiniteSet(HoursOf(q))
         /\ \A column : IsFiniteSet(GroupsBy(column, HoursOf(q)))
         /\ \A S \in SUBSET HoursOf(q) : SumRows(hourly, S) /\ S \in SUBSET DOMAIN hourly
<1>1. HoursOf(q) \in SUBSET DOMAIN hourly
  BY DEF HoursOf
<1>2. SumRows(hourly, HoursOf(q))
  BY <1>1, HourRows
<1>3. \A S \in SUBSET HoursOf(q) : SumRows(hourly, S) /\ S \in SUBSET DOMAIN hourly
  BY <1>1, HourRows
<1>4. ASSUME NEW column
      PROVE  IsFiniteSet(GroupsBy(column, HoursOf(q)))
  <2>1. PICK f : f = [k \in HoursOf(q) |-> k[column]]
    OBVIOUS
  <2>2. GroupsBy(column, HoursOf(q)) = {f[k] : k \in HoursOf(q)}
    BY <2>1 DEF GroupsBy
  <2> QED BY <1>2, <2>2, ImageIsFinite DEF SumRows
<1> QED BY <1>1, <1>2, <1>3, <1>4 DEF SumRows

\* Rows of the hours by groups sum up to all of them.
LEMMA HoursInGroups ==
  ASSUME TablesInv, NEW K, SumRows(hourly, K), NEW column, NEW G, IsFiniteSet(G), \A k \in K : k[column] \in G,
         NEW t, \A g \in G : t[g] = SumOf(OfGroup(column, K, g))
  PROVE  SumRows(t, G) /\ AddedUp(t, G) = SumOf(K)
<1>1. PICK f : f = [k \in K |-> k[column]]
  OBVIOUS
<1>2. \A k \in K : f[k] \in G
  BY <1>1
<1>3. ASSUME NEW g \in G
      PROVE  t[g] = AddedUp(hourly, Having(f, K, g))
  <2>1. Having(f, K, g) = OfGroup(column, K, g)
    BY <1>1 DEF OfGroup, Having
  <2> QED BY <2>1 DEF SumOf
<1>4. SumRows(t, G) /\ AddedUp(t, G) = AddedUp(hourly, K)
  BY <1>2, <1>3, AddedParted
<1> QED BY <1>4 DEF SumOf

LEMMA RequestsInGroups ==
  ASSUME TablesInv, NEW K, SumRows(hourly, K), NEW column, NEW G, IsFiniteSet(G), \A k \in K : k[column] \in G,
         NEW w, \A g \in G : w[g] = SumOf(OfGroup(column, K, g)).requests
  PROVE  Numbers(w, G) /\ SumFunctionOnSet(w, G) = SumOf(K).requests
<1>1. PICK t : t = [g \in G |-> SumOf(OfGroup(column, K, g))]
  OBVIOUS
<1>2. SumRows(t, G) /\ AddedUp(t, G) = SumOf(K)
  <2>1. \A g \in G : t[g] = SumOf(OfGroup(column, K, g))
    BY <1>1
  <2> QED BY <2>1, HoursInGroups
<1>3. PICK v : v = InColumn(t, "requests", G)
  OBVIOUS
<1>4. "requests" \in Columns
  BY DEF Columns
<1>5. Numbers(v, G) /\ \A g \in G : v[g] = t[g]["requests"]
  BY <1>2, <1>3, <1>4, ColumnNumbers
<1>6. AddedUp(t, G)["requests"] = SumFunctionOnSet(v, G)
  BY <1>2, <1>3, <1>4, AddedColumns
<1>7. \A g \in G : v[g] = w[g]
  BY <1>1, <1>5
<1>8. Numbers(w, G)
  BY <1>5, <1>7 DEF Numbers
<1> QED BY <1>2, <1>5, <1>6, <1>7, <1>8, TotalSame

LEMMA GroupsSumUp ==
  ASSUME TablesInv, NEW q, NEW column
  PROVE  SumsOver(GroupHourly(column, q)) = Overview(q)
<1>1. PICK K : K = HoursOf(q)
  OBVIOUS
<1>2. PICK G : G = GroupsBy(column, K)
  OBVIOUS
<1>3. SumRows(hourly, K) /\ IsFiniteSet(G) /\ \A k \in K : k[column] \in G
  BY <1>1, <1>2, WindowKeys DEF GroupsBy
<1>4. PICK page : page = GroupHourly(column, q)
  OBVIOUS
<1>5. DOMAIN page = G /\ \A g \in G : page[g].sums = SumOf(OfGroup(column, K, g))
  BY <1>1, <1>2, <1>4 DEF GroupHourly
<1>6. PICK t : t = [g \in DOMAIN page |-> page[g].sums]
  OBVIOUS
<1>7. \A g \in G : t[g] = SumOf(OfGroup(column, K, g))
  BY <1>5, <1>6
<1>8. AddedUp(t, G) = SumOf(K)
  BY <1>3, <1>7, HoursInGroups
<1> QED BY <1>1, <1>4, <1>5, <1>6, <1>8 DEF SumsOver, Overview

\* Rows none of which knows a cost have none in sum.
LEMMA SumIsHonest ==
  ASSUME TablesInv, NEW K \in SUBSET DOMAIN hourly
  PROVE  SumOf(K) \in [Columns -> Nat] /\ Honest(SumOf(K))
<1>1. SumRows(hourly, K)
  BY HourRows
<1>2. SumOf(K) = AddedUp(hourly, K)
  BY DEF SumOf
<1>3. ASSUME SumOf(K)["cost_known"] = 0
      PROVE  SumOf(K)["cost"] = 0
  <2>1. PICK n : n = InColumn(hourly, "cost_known", K)
    OBVIOUS
  <2>2. PICK c : c = InColumn(hourly, "cost", K)
    OBVIOUS
  <2>3. "cost" \in Columns /\ "cost_known" \in Columns
    BY DEF Columns
  <2>4. Numbers(n, K) /\ \A k \in K : n[k] = hourly[k]["cost_known"]
    BY <1>1, <2>1, <2>3, ColumnNumbers
  <2>5. Numbers(c, K) /\ \A k \in K : c[k] = hourly[k]["cost"]
    BY <1>1, <2>2, <2>3, ColumnNumbers
  <2>6. SumFunctionOnSet(n, K) = 0
    BY <1>1, <1>2, <1>3, <2>1, <2>3, AddedColumns
  <2>7. ASSUME NEW k \in K
        PROVE  n[k] = 0
    <3>1. SumFunctionOnSet(n, K) = n[k] + SumFunctionOnSet(n, K \ {k})
      BY <2>4, TotalSplits
    <3>2. SumFunctionOnSet(n, K \ {k}) \in Nat /\ n[k] \in Nat
      BY <2>4, TotalOfPart DEF Numbers
    <3> QED BY <2>6, <3>1, <3>2
  <2>8. \A k \in K : c[k] = 0
    BY <2>4, <2>5, <2>7 DEF TablesInv, Honest
  <2>9. SumFunctionOnSet(c, K) = 0
    BY <1>1, <2>8, TotalZero DEF SumRows
  <2> QED BY <1>1, <1>2, <2>2, <2>3, <2>9, AddedColumns
<1>4. SumOf(K) \in [Columns -> Nat]
  BY <1>1, <1>2, AddedColumns
<1> QED BY <1>3, <1>4 DEF Honest

LEMMA BillingAgrees ==
  ASSUME TablesInv, NEW q
  PROVE  Billing(q).totals = Overview(q)
<1>1. PICK users : users = GroupHourly("username", q)
  OBVIOUS
<1>2. PICK G : G = DOMAIN users
  OBVIOUS
<1>3. PICK K : K = HoursOf(q)
  OBVIOUS
<1>4. G = GroupsBy("username", K) /\ \A g \in G : users[g].sums = SumOf(OfGroup("username", K, g))
  BY <1>1, <1>2, <1>3 DEF GroupHourly
<1>5. PICK t : t = [g \in G |-> users[g].sums]
  OBVIOUS
<1>6. SumRows(t, G) /\ AddedUp(t, G) = Overview(q)
  <2>0. PICK column : column = "username"
    OBVIOUS
  <2>1. SumRows(hourly, K) /\ IsFiniteSet(G) /\ \A k \in K : k[column] \in G
    BY <1>3, <1>4, <2>0, WindowKeys DEF GroupsBy
  <2>2. \A g \in G : t[g] = SumOf(OfGroup(column, K, g))
    BY <1>4, <1>5, <2>0
  <2>3. AddedUp(t, G) = SumOf(K)
    BY <2>1, <2>2, HoursInGroups
  <2>4. SumRows(t, G)
    BY <2>1, <2>2, HoursInGroups
  <2> QED BY <1>3, <2>3, <2>4 DEF Overview
<1>7. PICK priced : priced = [g \in G |-> IF users[g].sums.cost_known > 0 THEN users[g].sums.cost ELSE 0]
  OBVIOUS
<1>8. ASSUME NEW g \in G
      PROVE  priced[g] = t[g]["cost"]
  <2>1. OfGroup("username", K, g) \in SUBSET DOMAIN hourly
    BY <1>3, WindowKeys DEF OfGroup
  <2>2. PICK s : s = users[g].sums
    OBVIOUS
  <2>3. s \in [Columns -> Nat] /\ Honest(s)
    BY <1>4, <2>1, <2>2, SumIsHonest
  <2>4. s["cost_known"] \in Nat /\ s["cost"] \in Nat
    BY <2>3 DEF Columns
  <2>5. priced[g] = IF s["cost_known"] > 0 THEN s["cost"] ELSE 0
    BY <1>7, <2>2
  <2>6. t[g] = s
    BY <1>5, <2>2
  <2> QED BY <2>3, <2>4, <2>5, <2>6 DEF Honest
<1>9. SumFunction(priced) = Overview(q)["cost"]
  <2>1. PICK c : c = InColumn(t, "cost", G)
    OBVIOUS
  <2>2. "cost" \in Columns
    BY DEF Columns
  <2>3. Numbers(c, G) /\ \A g \in G : c[g] = t[g]["cost"]
    BY <1>6, <2>1, <2>2, ColumnNumbers
  <2>4. SumFunctionOnSet(c, G) = Overview(q)["cost"]
    BY <1>6, <2>1, <2>2, AddedColumns
  <2>5. SumFunctionOnSet(c, G) = SumFunctionOnSet(priced, G)
    BY <1>8, <2>3, TotalSame
  <2>6. DOMAIN priced = G
    BY <1>7
  <2> QED BY <2>4, <2>5, <2>6 DEF SumFunction
<1>10. Billing(q).totals = [SumsOver(users) EXCEPT !.cost = SumFunction(priced)]
  BY <1>1, <1>2, <1>7 DEF Billing
<1>11. SumsOver(users) = Overview(q)
  BY <1>1, GroupsSumUp
<1>12. Overview(q) \in [Columns -> Nat]
  BY <1>6, AddedColumns
<1> QED BY <1>9, <1>10, <1>11, <1>12

-----------------------------------------------------------------------------
(* The timelines.                                                          *)

LEMMA PointIsSum ==
  ASSUME TablesInv, NEW S
  PROVE  (IF S = {} THEN EmptyValue("requests") ELSE MetricValue("requests", SumOf(S))) = SumOf(S).requests
<1>1. SumOf({}).requests = 0
  <2>1. SumRows(hourly, {})
    BY HourRows
  <2>2. PICK v : v = InColumn(hourly, "requests", {})
    OBVIOUS
  <2>3. AddedUp(hourly, {})["requests"] = SumFunctionOnSet(v, {})
    BY <2>1, <2>2, AddedColumns DEF Columns
  <2> QED BY <2>3, TotalOfNone DEF SumOf
<1>2. EmptyValue("requests") = 0 /\ MetricValue("requests", SumOf(S)) = SumOf(S).requests
  BY DEF EmptyValue, MetricValue
<1> QED BY <1>1, <1>2

LEMMA TimelineAgrees ==
  ASSUME TablesInv, NEW q \in Queries, NEW points, points = Timeline(q, "requests"),
         NEW dense, dense = ModelTimeline(q, 1, "requests")
  PROVE  /\ SumPoints(points) = Overview(q).requests
         /\ DOMAIN dense = DOMAIN points /\ Unbroken(DOMAIN points, q)
         /\ \A h \in DOMAIN points, m \in TopModels(q, 1) :
              dense[h][m] <= points[h].total /\ points[h].total = SumFunction(points[h].by)
<1>1. PICK K : K = HoursOf(q)
  OBVIOUS
<1>2. SumRows(hourly, K) /\ K \in SUBSET DOMAIN hourly /\ IsFiniteSet(K)
  BY <1>1, WindowKeys
<1>3. PICK H : H = GroupsBy("hour", K)
  OBVIOUS
<1>4. InWindow(H, q)
  <2>1. IsFiniteSet(H)
    BY <1>1, <1>3, WindowKeys
  <2>2. ASSUME NEW h \in H
        PROVE  h \in Nat /\ \E t \in Nat : HourOf(t) = h /\ Within(t, q)
    <3>1. PICK k \in K : k["hour"] = h
      BY <1>3 DEF GroupsBy
    <3>2. k \in DOMAIN hourly /\ Within(k.hour * PerHour, q)
      BY <1>1 DEF HoursOf
    <3>3. h \in Nat /\ Within(h * PerHour, q)
      BY <3>1, <3>2, HoursAreNumbers DEF TablesInv
    <3> QED BY <3>3, WholeHour
  <2> QED BY <2>1, <2>2 DEF InWindow
<1>5. PICK D : D = DenseHours(H, q)
  OBVIOUS
<1>6. H \subseteq D /\ D \in SUBSET Nat /\ IsFiniteSet(D) /\ Unbroken(D, q)
  BY <1>4, <1>5, DenseIsWhole
<1>7. DOMAIN points = D /\ DOMAIN dense = D
  BY <1>1, <1>3, <1>5 DEF Timeline, ModelTimeline
<1>8. ASSUME NEW h \in D
      PROVE  /\ points[h].total = SumOf(OfGroup("hour", K, h)).requests
             /\ points[h].by = [p \in GroupsBy("provider", K) |->
                                  SumOf(OfGroup("provider", OfGroup("hour", K, h), p)).requests]
             /\ \A m \in TopModels(q, 1) :
                  dense[h][m] = SumOf(OfGroup("hour", OfGroup("model", K, m), h)).requests
  <2> DEFINE Value(S) == IF S = {} THEN EmptyValue("requests") ELSE MetricValue("requests", SumOf(S))
  <2>1. \A S : Value(S) = SumOf(S).requests
    BY PointIsSum
  <2>2. points[h] = [total |-> Value(OfGroup("hour", K, h)),
                     by |-> [p \in GroupsBy("provider", K) |->
                               Value(OfGroup("provider", OfGroup("hour", K, h), p))]]
    BY <1>1, <1>3, <1>5, Zenon DEF Timeline
  <2>3. dense[h] = [m \in TopModels(q, 1) |-> Value(OfGroup("hour", OfGroup("model", K, m), h))]
    BY <1>1, <1>3, <1>5, Zenon DEF ModelTimeline
  <2> HIDE DEF Value
  <2>4. points[h].total = SumOf(OfGroup("hour", K, h)).requests
    BY <2>1, <2>2
  <2>5. points[h].by = [p \in GroupsBy("provider", K) |->
                          SumOf(OfGroup("provider", OfGroup("hour", K, h), p)).requests]
    BY <2>1, <2>2
  <2>6. \A m \in TopModels(q, 1) : dense[h][m] = SumOf(OfGroup("hour", OfGroup("model", K, m), h)).requests
    BY <2>1, <2>3
  <2> QED BY <2>4, <2>5, <2>6
<1>9. SumPoints(points) = Overview(q).requests
  <2>1. PICK w : w = [h \in D |-> points[h].total]
    OBVIOUS
  <2>0. PICK column : column = "hour"
    OBVIOUS
  <2>2. \A h \in D : w[h] = SumOf(OfGroup(column, K, h)).requests
    BY <1>8, <2>0, <2>1
  <2>3. \A k \in K : k[column] \in D
    BY <1>3, <1>6, <2>0 DEF GroupsBy
  <2>4. SumFunctionOnSet(w, D) = SumOf(K).requests
    BY <1>2, <1>6, <2>2, <2>3, RequestsInGroups
  <2>5. SumPoints(points) = SumFunctionOnSet(w, D)
    BY <1>7, <2>1 DEF SumPoints, SumFunction
  <2> QED BY <1>1, <2>4, <2>5 DEF Overview
<1>10. ASSUME NEW h \in D
       PROVE  points[h].total = SumFunction(points[h].by)
  <2>1. PICK S : S = OfGroup("hour", K, h)
    OBVIOUS
  <2>2. SumRows(hourly, S)
    BY <1>1, <2>1, WindowKeys DEF OfGroup
  <2>3. PICK G : G = GroupsBy("provider", K)
    OBVIOUS
  <2>4. IsFiniteSet(G) /\ \A k \in S : k["provider"] \in G
    BY <1>1, <2>1, <2>3, WindowKeys DEF OfGroup, GroupsBy
  <2>5. PICK w : w = points[h].by
    OBVIOUS
  <2>6. w = [p \in G |-> SumOf(OfGroup("provider", S, p)).requests]
    BY <1>8, <2>1, <2>3, <2>5
  <2>7. DOMAIN w = G /\ \A p \in G : w[p] = SumOf(OfGroup("provider", S, p)).requests
    BY <2>6
  <2>8. SumFunctionOnSet(w, G) = SumOf(S).requests
    BY <2>2, <2>4, <2>7, RequestsInGroups
  <2> QED BY <1>8, <2>1, <2>5, <2>7, <2>8 DEF SumFunction
<1>11. ASSUME NEW h \in D, NEW m \in TopModels(q, 1)
       PROVE  dense[h][m] <= points[h].total
  <2>1. PICK S : S = OfGroup("hour", K, h)
    OBVIOUS
  <2>2. PICK T : T = OfGroup("hour", OfGroup("model", K, m), h)
    OBVIOUS
  <2>3. SumRows(hourly, S) /\ T \in SUBSET S
    BY <1>1, <2>1, <2>2, WindowKeys DEF OfGroup
  <2>4. AddedUp(hourly, T)["requests"] <= AddedUp(hourly, S)["requests"]
    BY <2>3, AddedOfPart DEF Columns
  <2> QED BY <1>8, <2>1, <2>2, <2>4 DEF SumOf
<1> QED BY <1>6, <1>7, <1>9, <1>10, <1>11

-----------------------------------------------------------------------------
(* The pages of the events.                                                *)

\* An event has the key of the attempt recorded, and the other way round if it was kept.
LEMMA KeyOfEvent ==
  ASSUME TablesInv
  PROVE  /\ \A u \in usage : HourKey(u) \in KeysOf(recorded)
         /\ \A u \in usage, r \in recorded : u.id = r.id => HourKey(u) = HourKey(r)
<1>1. ASSUME NEW u \in usage
      PROVE  \E r \in recorded : r.id = u.id /\ HourKey(u) = HourKey(r)
  <2>1. PICK r \in recorded : SameAttempt(u, r)
    BY DEF TablesInv, BooksInv, EventsKept
  <2> QED BY <2>1, SameAttemptKey
<1>2. \A r, s \in recorded : r.id = s.id => r = s
  BY DEF TablesInv, BooksInv, EventsKept
<1> QED BY <1>1, <1>2 DEF KeysOf

LEMMA EventsTellOverview ==
  ASSUME TablesInv, NEW q \in Queries, Trusted(q), Kept(q)
  PROVE  Sums(EventsOf(usage, q)) = Overview(q)
<1>1. PICK K : K = HoursOf(q)
  OBVIOUS
<1>2. PICK U : U = EventsOf(usage, q)
  OBVIOUS
<1>3. Whole(q.since) /\ Whole(q.until)
  BY DEF Trusted
<1>4. /\ U = {r \in usage : Asked(HourKey(r), q)} /\ K = {k \in DOMAIN hourly : Asked(k, q)}
      /\ EventsOf(recorded, q) = {r \in recorded : Asked(HourKey(r), q)}
  BY <1>1, <1>2, <1>3, AskedAttempts, AskedHours
<1>5. Rows(U) /\ IsFiniteSet(K)
  BY <1>1, <1>4, WholeRows, WindowKeys
<1>6. PICK g : g = [r \in U |-> HourKey(r)]
  OBVIOUS
<1>7. \A r \in U : g[r] \in K
  <2> SUFFICES ASSUME NEW r \in U
               PROVE  HourKey(r) \in K
    BY <1>6
  <2>1. r \in usage /\ Asked(HourKey(r), q) /\ HourKey(r) \in KeysOf(recorded)
    BY <1>4, KeyOfEvent
  <2>2. HourKey(r).hour \in Hours
    BY <2>1, EventHours
  <2>3. HourKey(r) \in DOMAIN hourly
    BY <2>1, <2>2, TrustedHour
  <2> QED BY <1>4, <2>1, <2>3
<1>8. ASSUME NEW k \in K
      PROVE  hourly[k] = Sums(Having(g, U, k))
  <2>1. k \in DOMAIN hourly /\ Asked(k, q) /\ k.hour \in Hours
    BY <1>4 DEF TablesInv
  <2>2. k \in KeysOf(recorded) /\ InStep(k.hour)
    BY <2>1, TrustedHour
  <2>3. PICK r \in recorded : HourKey(r) = k
    BY <2>2 DEF KeysOf
  <2>4. r \in EventsOf(recorded, q)
    BY <1>4, <2>1, <2>3
  <2>5. PICK u \in U : u.id = r.id
    BY <1>2, <2>4 DEF Kept
  <2>6. u \in usage /\ HourKey(u) = k
    BY <1>4, <2>3, <2>5, KeyOfEvent
  <2>7. k \in KeyedAt(KeysOf(usage), k.hour)
    BY <2>6 DEF KeyedAt, KeysOf
  <2>8. hourly[k] = Sums(RowsOf(usage, k))
    BY <2>2, <2>7 DEF InStep
  <2>9. RowsOf(usage, k) = Having(g, U, k)
    BY <1>4, <1>6, <2>1 DEF RowsOf, Having
  <2> QED BY <2>8, <2>9
<1>9. AddedUp(hourly, K) = Sums(U)
  BY <1>5, <1>7, <1>8, SumsParted
<1> QED BY <1>1, <1>2, <1>9 DEF Overview, SumOf

LEMMA SumsOfParts ==
  ASSUME NEW S, Rows(S), NEW T \in SUBSET S
  PROVE  Both(Sums(T), Sums(S \ T)) = Sums(S)
<1>1. PICK R : R = S \ T
  OBVIOUS
<1>2. T \in SUBSET S /\ R \in SUBSET S /\ T \cap R = {} /\ T \cup R = S
  BY <1>1
<1>3. Rows(T) /\ Rows(R)
  BY <1>2, PartOfRows
<1>4. PICK a \in [Columns -> Nat] : a = Sums(T)
  BY <1>3, SumsAreCounts
<1>5. PICK b \in [Columns -> Nat] : b = Sums(R)
  BY <1>3, SumsAreCounts
<1>6. Both(a, b) \in [Columns -> Nat] /\ \A column \in Columns : Both(a, b)[column] = a[column] + b[column]
  BY BothColumns
<1>7. ASSUME NEW column \in Columns
      PROVE  Sums(S)[column] = a[column] + b[column]
  <2>1. PICK v : v = InColumn(Each(S), column, S)
    OBVIOUS
  <2>2. SumRows(Each(S), S)
    BY EachIsCounts
  <2>3. Numbers(v, S)
    BY <2>1, <2>2, ColumnNumbers
  <2>4. Sums(S)[column] = SumFunctionOnSet(v, S)
    BY <2>1, SumsOfEach
  <2>5. a[column] = SumFunctionOnSet(v, T)
    BY <1>4, <2>1, SumsOfEach
  <2>6. b[column] = SumFunctionOnSet(v, R)
    BY <1>2, <1>5, <2>1, SumsOfEach
  <2>7. Numbers(v, T) /\ Numbers(v, R)
    BY <1>2, <2>3, TotalOfPart
  <2>8. SumFunctionOnSet(v, S) = SumFunctionOnSet(v, T) + SumFunctionOnSet(v, R)
    BY <1>2, <2>7, TotalOfBoth
  <2> QED BY <2>4, <2>5, <2>6, <2>8
<1>8. Sums(S) \in [Columns -> Nat]
  BY SumsAreCounts
<1>9. Both(a, b) = Sums(S)
  BY <1>6, <1>7, <1>8
<1> QED BY <1>1, <1>4, <1>5, <1>9

LEMMA EventGroupsSumUp ==
  ASSUME TablesInv, NEW q, NEW column
  PROVE  Both(SumsOver(GroupEvents(column, q)), Sums(OfGroup(column, EventsOf(usage, q), Null)))
           = Sums(EventsOf(usage, q))
<1>1. PICK U : U = EventsOf(usage, q)
  OBVIOUS
<1>2. PICK T : T = {r \in U : r[column] # Null}
  OBVIOUS
<1>3. U \in SUBSET usage /\ Rows(U) /\ T \in SUBSET U /\ Rows(T) /\ U \ T = OfGroup(column, U, Null)
  BY <1>1, <1>2, WholeRows DEF EventsOf, OfGroup
<1>4. PICK G : G = GroupsBy(column, U) \ {Null}
  OBVIOUS
<1>5. PICK g : g = [r \in T |-> r[column]]
  OBVIOUS
<1>6. G = {g[r] : r \in T} /\ \A r \in T : g[r] \in G
  BY <1>2, <1>4, <1>5 DEF GroupsBy
<1>7. IsFiniteSet(G)
  BY <1>3, <1>6, ImageIsFinite DEF Rows
<1>8. PICK page : page = GroupEvents(column, q)
  OBVIOUS
<1>9. DOMAIN page = G /\ \A h \in G : page[h].sums = Sums(OfGroup(column, U, h))
  BY <1>1, <1>4, <1>8 DEF GroupEvents
<1>10. PICK t : t = [h \in DOMAIN page |-> page[h].sums]
  OBVIOUS
<1>11. ASSUME NEW h \in G
       PROVE  t[h] = Sums(Having(g, T, h))
  <2>1. h # Null
    BY <1>4
  <2>2. OfGroup(column, U, h) = Having(g, T, h)
    BY <1>2, <1>5, <2>1 DEF OfGroup, Having
  <2> QED BY <1>9, <1>10, <2>2
<1>12. AddedUp(t, G) = Sums(T)
  <2>1. \A r \in T : g[r] \in G
    BY <1>6
  <2>2. Rows(T)
    BY <1>3
  <2>3. \A h \in G : t[h] = Sums(Having(g, T, h))
    BY <1>11
  <2> QED BY <1>7, <2>1, <2>2, <2>3, SumsParted
<1>13. SumsOver(page) = Sums(T)
  BY <1>9, <1>10, <1>12 DEF SumsOver
<1>14. Both(Sums(T), Sums(U \ T)) = Sums(U)
  BY <1>3, SumsOfParts
<1> QED BY <1>1, <1>3, <1>8, <1>13, <1>14

LEMMA ServedAndFailed ==
  ASSUME NEW S, Rows(S)
  PROVE  Cardinality({r \in S : ~r.ok}) = Sums(S).requests - Sums(S).ok_count
<1>1. PICK failed \in SUBSET S : failed = {r \in S : ~r.ok}
  OBVIOUS
<1>2. PICK served \in SUBSET S : served = Served(S)
  BY DEF Served
<1>3. failed \cup served = S /\ failed \cap served = {}
  BY <1>1, <1>2 DEF Served
<1>4. IsFiniteSet(failed) /\ IsFiniteSet(served)
  BY FS_Subset DEF Rows
<1>5. Cardinality(S) = Cardinality(failed) + Cardinality(served) - Cardinality({})
  BY <1>3, <1>4, FS_Union
<1>6. Cardinality({}) = 0 /\ Cardinality(failed) \in Nat /\ Cardinality(served) \in Nat
  BY <1>4, FS_EmptySet, FS_CardinalityType
<1>7. Sums(S).requests = Cardinality(S) /\ Sums(S).ok_count = Cardinality(served)
  BY <1>2, SumsColumns
<1> QED BY <1>1, <1>5, <1>6, <1>7

LEMMA ErrorsSumUp ==
  ASSUME TablesInv, NEW q, NEW causes, causes = Errors(usage, q)
  PROVE  SumFunction([c \in DOMAIN causes |-> causes[c].failures])
           = Sums(EventsOf(usage, q)).requests - Sums(EventsOf(usage, q)).ok_count
<1>1. PICK U : U = EventsOf(usage, q)
  OBVIOUS
<1>2. PICK failed : failed = {r \in U : ~r.ok}
  OBVIOUS
<1>3. Rows(U) /\ IsFiniteSet(failed)
  BY <1>1, <1>2, WholeRows, FS_Subset DEF EventsOf, Rows
<1>4. PICK g : g = [r \in failed |-> Cause(r)]
  OBVIOUS
<1>5. PICK G : G = DOMAIN causes
  OBVIOUS
<1>6. G = {Cause(r) : r \in failed} /\ \A c \in G : causes[c].failures = Cardinality({r \in failed : Cause(r) = c})
  BY <1>1, <1>2, <1>5 DEF Errors
<1>7. G = {g[r] : r \in failed} /\ \A r \in failed : g[r] \in G
  BY <1>4, <1>6
<1>8. IsFiniteSet(G)
  BY <1>3, <1>7, ImageIsFinite
<1>9. PICK w : w = [c \in G |-> causes[c].failures]
  OBVIOUS
<1>10. ASSUME NEW c \in G
       PROVE  w[c] = Cardinality(Having(g, failed, c))
  <2>1. Having(g, failed, c) = {r \in failed : Cause(r) = c}
    BY <1>4 DEF Having
  <2> QED BY <1>6, <1>9, <2>1
<1>11. SumFunctionOnSet(w, G) = Cardinality(failed)
  <2>1. \A r \in failed : g[r] \in G
    BY <1>7
  <2>2. IsFiniteSet(failed)
    BY <1>3
  <2>3. \A h \in G : w[h] = Cardinality(Having(g, failed, h))
    BY <1>10
  <2> QED BY <1>8, <2>1, <2>2, <2>3, CountParted
<1>12. Cardinality(failed) = Sums(U).requests - Sums(U).ok_count
  BY <1>2, <1>3, ServedAndFailed
<1>13. DOMAIN w = G
  BY <1>9
<1> QED BY <1>1, <1>5, <1>9, <1>11, <1>12, <1>13 DEF SumFunction

LEMMA SamplesSumUp ==
  ASSUME TablesInv, NEW q \in Queries, NEW points, points = PercentileTimeline(q, "latency_ms")
  PROVE  SumFunction([h \in DOMAIN points |-> points[h].samples])
           = Cardinality({r \in EventsOf(usage, q) : r.ok /\ r.latency_ms # Null})
<1>1. PICK rows : rows = {r \in EventsOf(usage, q) : r.ok /\ r["latency_ms"] # Null}
  OBVIOUS
<1>2. rows \in SUBSET usage /\ IsFiniteSet(rows)
  <2>1. rows \in SUBSET usage
    BY <1>1 DEF EventsOf
  <2>2. IsFiniteSet(usage)
    BY DEF TablesInv, BooksInv, BookTypes
  <2> QED BY <2>1, <2>2, FS_Subset
<1>3. PICK H : H = {HourOf(r.ts) : r \in rows}
  OBVIOUS
<1>4. PICK g : g = [r \in rows |-> HourOf(r.ts)]
  OBVIOUS
<1>5. InWindow(H, q)
  <2>1. H = {g[r] : r \in rows}
    BY <1>3, <1>4
  <2>2. IsFiniteSet(H)
    BY <1>2, <2>1, ImageIsFinite
  <2>3. ASSUME NEW h \in H
        PROVE  h \in Nat /\ \E t \in Nat : HourOf(t) = h /\ Within(t, q)
    <3>1. PICK r \in rows : h = HourOf(r.ts)
      BY <1>3
    <3>2. r.ts \in Nat /\ HourOf(r.ts) \in Nat
      BY <1>2, EventHours
    <3>3. Within(r.ts, q)
      BY <1>1 DEF EventsOf
    <3> QED BY <3>1, <3>2, <3>3
  <2> QED BY <2>2, <2>3 DEF InWindow
<1>6. PICK D : D = DenseHours(H, q)
  OBVIOUS
<1>7. H \subseteq D /\ IsFiniteSet(D)
  BY <1>5, <1>6, DenseIsWhole
<1>8. DOMAIN points = D /\ \A h \in D : points[h].samples = Cardinality({r \in rows : HourOf(r.ts) = h})
  BY <1>1, <1>3, <1>6 DEF PercentileTimeline
<1>9. PICK w : w = [h \in D |-> points[h].samples]
  OBVIOUS
<1>10. ASSUME NEW h \in D
       PROVE  w[h] = Cardinality(Having(g, rows, h))
  <2>1. Having(g, rows, h) = {r \in rows : HourOf(r.ts) = h}
    BY <1>4 DEF Having
  <2> QED BY <1>8, <1>9, <2>1
<1>11. \A r \in rows : g[r] \in D
  BY <1>3, <1>4, <1>7
<1>12. SumFunctionOnSet(w, D) = Cardinality(rows)
  <2>1. IsFiniteSet(rows)
    BY <1>2
  <2>2. IsFiniteSet(D)
    BY <1>7
  <2>3. \A h \in D : w[h] = Cardinality(Having(g, rows, h))
    BY <1>10
  <2> QED BY <1>11, <2>1, <2>2, <2>3, CountParted
<1>13. SumFunction(w) = Cardinality(rows)
  BY <1>9, <1>12 DEF SumFunction
<1>14. rows = {r \in EventsOf(usage, q) : r.ok /\ r.latency_ms # Null}
  BY <1>1
<1> QED BY <1>8, <1>9, <1>13, <1>14

-----------------------------------------------------------------------------
(* The windows of alerting, the page of the models, and what a user sees.  *)

\* A query for everybody from a time on.
Open(q) == q.username = Null /\ q.until = Null /\ q.since # Null

LEMMA OpenWindow ==
  ASSUME NEW q \in Queries, Open(q)
  PROVE  /\ EventsOf(usage, q) = {r \in usage : r.ts >= q.since}
         /\ HoursOf(q) = {k \in DOMAIN hourly : k.hour * PerHour >= q.since}
<1>1. \A x : Meets(x, q, {"username"})
  BY DEF Meets, Open
<1>2. \A t : Within(t, q) <=> t >= q.since
  BY DEF Within, Open
<1> QED BY <1>1, <1>2 DEF EventsOf, HoursOf

LEMMA CostOfWindow ==
  ASSUME NEW q \in Queries, Open(q)
  PROVE  WindowCost(q.since) = Overview(q).cost
BY OpenWindow DEF WindowCost, Overview

LEMMA MetricsCountMore ==
  ASSUME TablesInv, NEW q
  PROVE  SumFunction([p \in GroupsBy("provider", DOMAIN hourly) |-> MetricsOf("provider")[p].requests])
           >= Overview(q).requests
<1>1. PICK K : K = DOMAIN hourly
  OBVIOUS
<1>2. SumRows(hourly, K) /\ IsFiniteSet(K)
  BY <1>1, HourRows DEF SumRows
<1>3. PICK column : column = "provider"
  OBVIOUS
<1>4. PICK G : G = GroupsBy(column, K)
  OBVIOUS
<1>5. IsFiniteSet(G) /\ \A k \in K : k[column] \in G
  <2>1. PICK f : f = [k \in K |-> k[column]]
    OBVIOUS
  <2>2. G = {f[k] : k \in K}
    BY <1>4, <2>1 DEF GroupsBy
  <2>3. IsFiniteSet(G)
    BY <1>2, <2>2, ImageIsFinite
  <2> QED BY <1>4, <2>3 DEF GroupsBy
<1>6. PICK w : w = [p \in G |-> MetricsOf(column)[p].requests]
  OBVIOUS
<1>7. \A p \in G : w[p] = SumOf(OfGroup(column, K, p)).requests
  BY <1>1, <1>4, <1>6 DEF MetricsOf
<1>8. SumFunctionOnSet(w, G) = SumOf(K).requests
  BY <1>2, <1>5, <1>7, RequestsInGroups
<1>9. SumFunction(w) = SumOf(K).requests
  BY <1>6, <1>8 DEF SumFunction
<1>10. SumOf(HoursOf(q)).requests <= SumOf(K).requests
  <2>1. HoursOf(q) \in SUBSET K
    BY <1>1 DEF HoursOf
  <2>2. AddedUp(hourly, HoursOf(q))["requests"] <= AddedUp(hourly, K)["requests"]
    BY <1>2, <2>1, AddedOfPart DEF Columns
  <2> QED BY <2>2 DEF SumOf
<1>11. SumOf(HoursOf(q)).requests \in Nat /\ SumOf(K).requests \in Nat
  <2>1. SumOf(HoursOf(q)) \in [Columns -> Nat] /\ SumOf(K) \in [Columns -> Nat]
    BY <1>1, SumIsHonest DEF HoursOf
  <2> QED BY <2>1 DEF Columns
<1> QED BY <1>1, <1>3, <1>4, <1>6, <1>9, <1>10, <1>11 DEF Overview

\* The latest of some is the latest of the latest of each group.
Moments(S) == {r.ts : r \in S}
ValuesOf(f, S) == {f[x] : x \in S}

LEMMA LatestOfGroups ==
  ASSUME NEW S, IsFiniteSet(S), S # {}, \A r \in S : r.ts \in Nat,
         NEW g, NEW G, \A r \in S : g[r] \in G, \A c \in G : Having(g, S, c) # {},
         NEW latest, \A c \in G : latest[c] = Max(Moments(Having(g, S, c)))
  PROVE  Max(Moments(S)) = Max(ValuesOf(latest, G))
<1>1. PICK at : at = [r \in S |-> r.ts]
  OBVIOUS
<1>2. ASSUME NEW T \in SUBSET S, T # {}
      PROVE  \E r \in T : Max(Moments(T)) = r.ts /\ \A s \in T : s.ts <= r.ts
  <2>1. PICK V : V = {s.ts : s \in T}
    OBVIOUS
  <2>2. V \in SUBSET Nat /\ V # {}
    BY <1>2, <2>1
  <2>3. IsFiniteSet(T) /\ V = {at[s] : s \in T}
    BY <1>1, <2>1, FS_Subset
  <2>4. IsFiniteSet(V)
    BY <2>3, ImageIsFinite
  <2>5. Max(V) \in V /\ \A v \in V : v <= Max(V)
    BY <2>2, <2>4, LargestOf
  <2> QED BY <2>1, <2>5 DEF Moments
<1>3. PICK r \in S : Max(Moments(S)) = r.ts /\ \A s \in S : s.ts <= r.ts
  BY <1>2
<1>4. ASSUME NEW c \in G
      PROVE  \E s \in S : g[s] = c /\ latest[c] = s.ts /\ \A t \in S : g[t] = c => t.ts <= s.ts
  <2>1. PICK T \in SUBSET S : T = Having(g, S, c)
    BY DEF Having
  <2>2. PICK s \in T : Max(Moments(T)) = s.ts /\ \A t \in T : t.ts <= s.ts
    BY <1>2, <2>1
  <2>3. latest[c] = s.ts
    BY <2>1, <2>2
  <2> QED BY <2>1, <2>2, <2>3 DEF Having
<1>5. PICK L : L = ValuesOf(latest, G)
  OBVIOUS
<1>6. L \in SUBSET Nat /\ \A x \in L : x <= r.ts
  BY <1>3, <1>4, <1>5 DEF ValuesOf
<1>7. r.ts \in L
  <2>1. PICK s \in S : latest[g[r]] = s.ts /\ r.ts <= s.ts
    BY <1>3, <1>4
  <2>2. latest[g[r]] = r.ts
    BY <1>3, <2>1
  <2> QED BY <1>5, <2>2 DEF ValuesOf
<1>8. Max(L) = r.ts
  BY <1>6, <1>7, MaxIs
<1> QED BY <1>3, <1>5, <1>8

LEMMA ModelsAgree ==
  ASSUME TablesInv, NEW q \in Queries, Open(q), NEW page, page = ModelFailures(q.since),
         NEW causes, causes = Errors(usage, q), NEW pm \in DOMAIN page,
         NEW own, own = {c \in DOMAIN causes : <<c[1], c[2]>> = pm /\ c[3] \in ModelErrors}
  PROVE  /\ page[pm].failures = SumFunction([c \in own |-> causes[c].failures])
         /\ page[pm].last = Max({causes[c].last : c \in own})
<1>1. PICK rows : rows = {r \in usage : r.ts >= q.since /\ r.error_type \in ModelErrors}
  OBVIOUS
<1>2. PICK S : S = {r \in rows : r.provider = pm[1] /\ r.model = pm[2]}
  OBVIOUS
<1>3. /\ \E r \in rows : pm = <<r.provider, r.model>>
      /\ page[pm].failures = Cardinality(S) /\ page[pm].last = Max({r.ts : r \in S})
  BY <1>1, <1>2 DEF ModelFailures
<1>4. PICK failed : failed = {r \in EventsOf(usage, q) : ~r.ok}
  OBVIOUS
<1>5. DOMAIN causes = {Cause(r) : r \in failed}
      /\ \A c \in DOMAIN causes :
           /\ causes[c].failures = Cardinality({r \in failed : Cause(r) = c})
           /\ causes[c].last = Max({r.ts : r \in {s \in failed : Cause(s) = c}})
  BY <1>4 DEF Errors
<1>6. failed = {r \in usage : r.ts >= q.since /\ ~r.ok}
  BY <1>4, OpenWindow
<1>7. \A r \in usage : r.error_type \in ModelErrors => ~r.ok
  BY DEF TablesInv, EventTyped
<1>8. S = {r \in failed : r.provider = pm[1] /\ r.model = pm[2] /\ r.error_type \in ModelErrors}
  BY <1>1, <1>2, <1>6, <1>7
<1>9. PICK g : g = [r \in S |-> Cause(r)]
  OBVIOUS
<1>10. \A r \in S : g[r] \in own
  <2> SUFFICES ASSUME NEW r \in S
               PROVE  Cause(r) \in own
    BY <1>9
  <2>1. r \in failed /\ r.provider = pm[1] /\ r.model = pm[2] /\ r.error_type \in ModelErrors
    BY <1>8
  <2>2. Cause(r) \in DOMAIN causes
    BY <1>5, <2>1
  <2>3. Cause(r)[1] = pm[1] /\ Cause(r)[2] = pm[2] /\ Cause(r)[3] \in ModelErrors
    BY <2>1 DEF Cause
  <2>4. <<pm[1], pm[2]>> = pm
    BY <1>3
  <2> QED BY <2>2, <2>3, <2>4
<1>11. ASSUME NEW c \in own
       PROVE  c \in DOMAIN causes /\ {r \in failed : Cause(r) = c} = Having(g, S, c) /\ Having(g, S, c) # {}
  <2>1. c \in DOMAIN causes /\ <<c[1], c[2]>> = pm /\ c[3] \in ModelErrors
    OBVIOUS
  <2>2. pm[1] = c[1] /\ pm[2] = c[2]
    BY <2>1
  <2>3. ASSUME NEW r \in failed, Cause(r) = c
        PROVE  r \in S /\ g[r] = c
    <3>1. r.provider = c[1] /\ r.model = c[2] /\ r.error_type = c[3]
      BY <2>3 DEF Cause
    <3> QED BY <1>8, <1>9, <2>1, <2>2, <2>3, <3>1
  <2>4. \A r \in S : g[r] = c => r \in failed /\ Cause(r) = c
    BY <1>8, <1>9
  <2>5. {r \in failed : Cause(r) = c} = Having(g, S, c)
    BY <2>3, <2>4 DEF Having
  <2>6. PICK r \in failed : Cause(r) = c
    BY <1>5, <2>1
  <2> QED BY <2>1, <2>5, <2>6
<1>12. IsFiniteSet(usage) /\ failed \in SUBSET usage /\ S \in SUBSET usage
  BY <1>6, <1>8 DEF TablesInv, BooksInv, BookTypes
<1>13. IsFiniteSet(S) /\ IsFiniteSet(own)
  <2>1. IsFiniteSet(S)
    BY <1>12, FS_Subset
  <2>2. own = {g[r] : r \in S}
    <3>1. \A c \in own : \E r \in S : g[r] = c
      BY <1>11 DEF Having
    <3> QED BY <1>10, <3>1
  <2> QED BY <2>1, <2>2, ImageIsFinite
<1>14. page[pm].failures = SumFunction([c \in own |-> causes[c].failures])
  <2>1. PICK w : w = [c \in own |-> causes[c].failures]
    OBVIOUS
  <2>2. \A c \in own : w[c] = Cardinality(Having(g, S, c))
    BY <1>5, <1>11, <2>1
  <2>3. SumFunctionOnSet(w, own) = Cardinality(S)
    BY <1>10, <1>13, <2>2, CountParted
  <2>4. DOMAIN w = own
    BY <2>1
  <2> QED BY <1>3, <2>1, <2>3, <2>4 DEF SumFunction
<1>15. page[pm].last = Max({causes[c].last : c \in own})
  <2>1. PICK latest : latest = [c \in own |-> causes[c].last]
    OBVIOUS
  <2>2. ASSUME NEW c \in own
        PROVE  latest[c] = Max(Moments(Having(g, S, c)))
    <3>1. causes[c].last = Max({r.ts : r \in {s \in failed : Cause(s) = c}})
      BY <1>5, <1>11
    <3>2. {s \in failed : Cause(s) = c} = Having(g, S, c)
      BY <1>11
    <3> QED BY <2>1, <3>1, <3>2 DEF Moments
  <2>3. S # {}
    BY <1>1, <1>2, <1>3
  <2>4. \A r \in S : r.ts \in Nat
    BY <1>12, EventHours
  <2>5. \A c \in own : Having(g, S, c) # {}
    BY <1>11
  <2>6. Max(Moments(S)) = Max(ValuesOf(latest, own))
    <3>1. \A r \in S : g[r] \in own
      BY <1>10
    <3>2. IsFiniteSet(S)
      BY <1>13
    <3>3. \A c \in own : latest[c] = Max(Moments(Having(g, S, c)))
      BY <2>2
    <3> QED BY ONLY <3>1, <3>2, <3>3, <2>3, <2>4, <2>5, LatestOfGroups
  <2>7. ValuesOf(latest, own) = {causes[c].last : c \in own}
    BY <2>1 DEF ValuesOf
  <2> QED BY <1>3, <2>6, <2>7 DEF Moments
<1> QED BY <1>14, <1>15

LEMMA ErrorRateAgrees ==
  ASSUME TablesInv, NEW q \in Queries, Open(q)
  PROVE  WindowErrorRate(q.since) =
           <<Sums(EventsOf(usage, q)).requests,
             Sums(EventsOf(usage, q)).requests - Sums(EventsOf(usage, q)).ok_count>>
<1>1. PICK U : U = EventsOf(usage, q)
  OBVIOUS
<1>2. U = {r \in usage : r.ts >= q.since}
  BY <1>1, OpenWindow
<1>3. WindowErrorRate(q.since) = <<Cardinality(U), Cardinality({r \in U : ~r.ok})>>
  BY <1>2 DEF WindowErrorRate
<1>4. Rows(U)
  BY <1>2, WholeRows
<1>5. Cardinality({r \in U : ~r.ok}) = Sums(U).requests - Sums(U).ok_count
  BY <1>4, ServedAndFailed
<1>6. Cardinality(U) = Sums(U).requests
  BY SumsColumns
<1> QED BY <1>1, <1>3, <1>5, <1>6

LEMMA KeysAgree ==
  ASSUME TablesInv, NEW q \in Queries, Open(q), NEW keys, keys = WindowKeyUsage(q.since),
         NEW page, page = GroupEvents("api_key_id", q), NEW k \in DOMAIN page
  PROVE  page[k].sums.tokens =
           SumFunction([ku \in {ku \in DOMAIN keys : ku[1] = k} |-> keys[ku].tokens])
<1>1. PICK U : U = EventsOf(usage, q)
  OBVIOUS
<1>2. U = {r \in usage : r.ts >= q.since}
  BY <1>1, OpenWindow
<1>3. PICK S : S = {r \in U : r["api_key_id"] = k}
  OBVIOUS
<1>4. k # Null /\ page[k].sums = Sums(S)
  BY <1>1, <1>3 DEF GroupEvents, OfGroup
<1>5. PICK rows : rows = {r \in usage : r.ts >= q.since /\ r.api_key_id # Null}
  OBVIOUS
<1>6. /\ DOMAIN keys = {<<r.api_key_id, r.username>> : r \in rows}
      /\ \A ku \in DOMAIN keys :
           keys[ku].tokens = Sums({r \in rows : <<r.api_key_id, r.username>> = ku}).tokens
  BY <1>5 DEF WindowKeyUsage
<1>7. PICK G : G = {ku \in DOMAIN keys : ku[1] = k}
  OBVIOUS
<1>8. PICK g : g = [r \in S |-> <<r.api_key_id, r.username>>]
  OBVIOUS
<1>9. S = {r \in rows : r.api_key_id = k}
  BY <1>2, <1>3, <1>4, <1>5
<1>10. G = {g[r] : r \in S} /\ \A r \in S : g[r] \in G
  BY <1>6, <1>7, <1>8, <1>9
<1>11. Rows(S) /\ IsFiniteSet(S)
  BY <1>2, <1>3, WholeRows DEF Rows
<1>12. IsFiniteSet(G)
  BY <1>10, <1>11, ImageIsFinite
<1>13. PICK t : t = [ku \in G |-> Sums(Having(g, S, ku))]
  OBVIOUS
<1>14. SumRows(t, G) /\ AddedUp(t, G) = Sums(S)
  <2>1. \A ku \in G : t[ku] = Sums(Having(g, S, ku))
    BY <1>13
  <2> QED BY <1>10, <1>11, <1>12, <2>1, SumsParted
<1>15. ASSUME NEW ku \in G
       PROVE  keys[ku].tokens = t[ku]["tokens"]
  <2>1. ku \in DOMAIN keys /\ ku[1] = k
    BY <1>7
  <2>2. {r \in rows : <<r.api_key_id, r.username>> = ku} = Having(g, S, ku)
    BY <1>8, <1>9, <2>1 DEF Having
  <2> QED BY <1>6, <1>13, <2>1, <2>2
<1>16. PICK w : w = [ku \in G |-> keys[ku].tokens]
  OBVIOUS
<1>17. PICK v : v = InColumn(t, "tokens", G)
  OBVIOUS
<1>18. "tokens" \in Columns
  BY DEF Columns
<1>19. Numbers(v, G) /\ \A ku \in G : v[ku] = t[ku]["tokens"]
  BY <1>14, <1>17, <1>18, ColumnNumbers
<1>20. SumFunctionOnSet(v, G) = Sums(S)["tokens"]
  BY <1>14, <1>17, <1>18, AddedColumns
<1>21. \A ku \in G : v[ku] = w[ku]
  BY <1>15, <1>16, <1>19
<1>22. SumFunctionOnSet(v, G) = SumFunctionOnSet(w, G)
  BY <1>19, <1>21, TotalSame
<1>23. SumFunction(w) = Sums(S)["tokens"]
  BY <1>16, <1>20, <1>22 DEF SumFunction
<1> QED BY <1>4, <1>7, <1>16, <1>23

\* What others do is not in the errors of a user.
LEMMA OwnErrors ==
  ASSUME NEW q
  PROVE  OwnErrorsOnly(q)
<1> SUFFICES ASSUME q.username # Null
             PROVE  Errors(usage, q) = Errors({r \in usage : r.username = q.username}, q)
  BY DEF OwnErrorsOnly
<1>1. PICK own : own = {r \in usage : r.username = q.username}
  OBVIOUS
<1>2. EventsOf(usage, q) = EventsOf(own, q) /\ EventsOf(own, q) \in SUBSET own
  BY <1>1 DEF EventsOf, Meets
<1>3. ASSUME NEW r \in own
      PROVE  Rescued(usage, r) <=> Rescued(own, r)
  BY <1>1 DEF Rescued
<1>4. PICK failed : failed = {r \in EventsOf(own, q) : ~r.ok}
  OBVIOUS
<1>5. PICK G : G = {Cause(r) : r \in failed}
  OBVIOUS
<1>6. ASSUME NEW c
      PROVE  {r \in {s \in failed : Cause(s) = c} : Rescued(usage, r)}
               = {r \in {s \in failed : Cause(s) = c} : Rescued(own, r)}
  BY <1>2, <1>3, <1>4
<1>7. Errors(usage, q) =
        [c \in G |->
           [failures |-> Cardinality({s \in failed : Cause(s) = c}),
            rescued |-> Cardinality({r \in {s \in failed : Cause(s) = c} : Rescued(usage, r)}),
            last |-> Max({r.ts : r \in {s \in failed : Cause(s) = c}})]]
  BY <1>2, <1>4, <1>5, Zenon DEF Errors
<1>8. Errors(own, q) =
        [c \in G |->
           [failures |-> Cardinality({s \in failed : Cause(s) = c}),
            rescued |-> Cardinality({r \in {s \in failed : Cause(s) = c} : Rescued(own, r)}),
            last |-> Max({r.ts : r \in {s \in failed : Cause(s) = c}})]]
  BY <1>4, <1>5, Zenon DEF Errors
<1>9. \A c \in G : Cardinality({r \in {s \in failed : Cause(s) = c} : Rescued(own, r)})
                     = Cardinality({r \in {s \in failed : Cause(s) = c} : Rescued(usage, r)})
  BY <1>6, Zenon
<1> QED BY <1>1, <1>7, <1>8, <1>9, Zenon

LEMMA PendingIsUnsettled ==
  ASSUME TablesInv, NEW k \in PendingHourly
  PROVE  ~Settled(k.hour)
<1> SUFFICES ASSUME Settled(k.hour)
             PROVE  FALSE
  OBVIOUS
<1>1. k \in KeysOf(usage)
  BY DEF PendingHourly, KeysOf
<1>2. k.hour \in Nat
  <2>1. PICK r \in usage : HourKey(r) = k
    BY <1>1 DEF KeysOf
  <2> QED BY <2>1, EventHours
<1>3. InStep(k.hour)
  BY <1>2 DEF TablesInv, BooksInv, HourSound, Settled, UnderScript
<1>4. k \in DOMAIN hourly /\ hourly[k] = Sums(RowsOf(usage, k))
  BY <1>1, <1>3 DEF InStep, KeyedAt
<1>5. hourly[k] = Sums({r \in usage : HourKey(r) = k})
  BY <1>4 DEF RowsOf
<1> QED BY <1>4, <1>5 DEF PendingHourly

-----------------------------------------------------------------------------
(* The pages agree wherever the invariant holds.                           *)

LEMMA TableIsOrderly ==
  ASSUME TablesInv, NEW T \in SUBSET usage
  PROVE  /\ IsFiniteSet(T) /\ \A r \in T : r.rowid \in Nat /\ MaybeNumber(r.latency_ms)
         /\ Orderly("latency_ms", T) /\ Orderly("rowid", T)
<1>1. IsFiniteSet(T)
  BY FS_Subset DEF TablesInv, BooksInv, BookTypes
<1>2. ASSUME NEW r \in T
      PROVE  r.rowid \in Nat /\ MaybeNumber(r.latency_ms)
  <2>1. EventTyped(r)
    BY DEF TablesInv
  <2> QED BY <2>1 DEF EventTyped
<1>3. ASSUME NEW r \in T
      PROVE  OrZero(r.latency_ms) \in Nat /\ OrZero(r.rowid) \in Nat
  BY <1>2 DEF OrZero, MaybeNumber
<1>4. \A r, s \in T : r.rowid = s.rowid => r = s
  BY DEF TablesInv
<1>5. Orderly("latency_ms", T)
  BY <1>1, <1>2, <1>3, <1>4 DEF Orderly
<1>6. Orderly("rowid", T)
  BY <1>1, <1>2, <1>3, <1>4 DEF Orderly
<1> QED BY <1>1, <1>2, <1>5, <1>6

LEMMA GroupsHold ==
  ASSUME TablesInv, NEW q \in Queries, Trusted(q)
  PROVE  GroupsAgree(q)
<1>1. Counts(Overview(q)) = Counts(Sums(EventsOf(recorded, q)))
  BY OverviewCounts
<1>2. \A column : SumsOver(GroupHourly(column, q)) = Overview(q)
  BY GroupsSumUp
<1>3. Billing(q).totals = Overview(q)
  BY BillingAgrees
<1>4. PICK points : points = Timeline(q, "requests")
  OBVIOUS
<1>5. PICK dense : dense = ModelTimeline(q, 1, "requests")
  OBVIOUS
<1>6. /\ SumPoints(points) = Overview(q).requests
      /\ DOMAIN dense = DOMAIN points /\ Unbroken(DOMAIN points, q)
      /\ \A h \in DOMAIN points, m \in TopModels(q, 1) :
           dense[h][m] <= points[h].total /\ points[h].total = SumFunction(points[h].by)
  BY <1>4, <1>5, TimelineAgrees
<1> QED BY <1>1, <1>2, <1>3, <1>4, <1>5, <1>6, Zenon DEF GroupsAgree

LEMMA EventsHold ==
  ASSUME TablesInv, NEW q \in Queries, Trusted(q), Kept(q)
  PROVE  EventsAgree(q)
<1>1. Sums(EventsOf(usage, q)) = Overview(q)
  BY EventsTellOverview
<1>2. \A column : Both(SumsOver(GroupEvents(column, q)), Sums(OfGroup(column, EventsOf(usage, q), Null)))
                    = Overview(q)
  BY <1>1, EventGroupsSumUp
<1>3. PICK causes : causes = Errors(usage, q)
  OBVIOUS
<1>4. SumFunction([c \in DOMAIN causes |-> causes[c].failures])
        = Overview(q).requests - Overview(q).ok_count
  BY <1>1, <1>3, ErrorsSumUp
<1>5. PICK points : points = PercentileTimeline(q, "latency_ms")
  OBVIOUS
<1>6. SumFunction([h \in DOMAIN points |-> points[h].samples])
        = Cardinality({r \in EventsOf(usage, q) : r.ok /\ r.latency_ms # Null})
  BY <1>5, SamplesSumUp
<1> QED BY <1>2, <1>3, <1>4, <1>5, <1>6, Zenon DEF EventsAgree

LEMMA WindowsHold ==
  ASSUME TablesInv, NEW q \in Queries, Trusted(q), Open(q)
  PROVE  WindowsAgree(q)
<1>1. WindowCost(q.since) = Overview(q).cost
  BY CostOfWindow
<1>2. SumFunction([p \in GroupsBy("provider", DOMAIN hourly) |-> MetricsOf("provider")[p].requests])
        >= Overview(q).requests
  BY MetricsCountMore
<1>6. ASSUME Kept(q)
      PROVE  /\ WindowErrorRate(q.since)
                  = <<Overview(q).requests, Overview(q).requests - Overview(q).ok_count>>
             /\ LET keys == WindowKeyUsage(q.since)
                    users == GroupEvents("api_key_id", q)
                IN  \A k \in DOMAIN users :
                      users[k].sums.tokens = SumFunction([ku \in {ku \in DOMAIN keys : ku[1] = k} |->
                                                            keys[ku].tokens])
  <2>1. Sums(EventsOf(usage, q)) = Overview(q)
    BY <1>6, EventsTellOverview
  <2>2. WindowErrorRate(q.since)
          = <<Sums(EventsOf(usage, q)).requests,
              Sums(EventsOf(usage, q)).requests - Sums(EventsOf(usage, q)).ok_count>>
    BY ErrorRateAgrees
  <2>3. PICK keys : keys = WindowKeyUsage(q.since)
    OBVIOUS
  <2>4. PICK users : users = GroupEvents("api_key_id", q)
    OBVIOUS
  <2>5. \A k \in DOMAIN users :
          users[k].sums.tokens = SumFunction([ku \in {ku \in DOMAIN keys : ku[1] = k} |-> keys[ku].tokens])
    BY <2>3, <2>4, KeysAgree
  <2> QED BY <2>1, <2>2, <2>3, <2>4, <2>5, Zenon
<1> DEFINE page == ModelFailures(q.since)
           causes == Errors(usage, q)
           Own(pm) == {c \in DOMAIN causes : <<c[1], c[2]>> = pm /\ c[3] \in ModelErrors}
<1>7. ASSUME NEW pm \in DOMAIN page
      PROVE  /\ page[pm].failures = SumFunction([c \in Own(pm) |-> causes[c].failures])
             /\ page[pm].last = Max({causes[c].last : c \in Own(pm)})
  <2>1. PICK p : p = page
    OBVIOUS
  <2>2. PICK e : e = causes
    OBVIOUS
  <2>3. PICK own : own = Own(pm)
    OBVIOUS
  <2>4. pm \in DOMAIN p /\ own = {c \in DOMAIN e : <<c[1], c[2]>> = pm /\ c[3] \in ModelErrors}
    BY <2>1, <2>2, <2>3
  <2>5. p = ModelFailures(q.since) /\ e = Errors(usage, q)
    BY <2>1, <2>2
  <2> HIDE DEF page, causes, Own
  <2>6. /\ p[pm].failures = SumFunction([c \in own |-> e[c].failures])
        /\ p[pm].last = Max({e[c].last : c \in own})
    BY <2>4, <2>5, ModelsAgree
  <2> QED BY <2>1, <2>2, <2>3, <2>6
<1> QED BY <1>1, <1>2, <1>6, <1>7, Zenon DEF WindowsAgree, Open

LEMMA PagesHold ==
  ASSUME TablesInv
  PROVE  PagesAgree
<1>1. AllHoursComplete
  BY BooksWhole DEF TablesInv
<1>2. ASSUME NEW q \in Queries
      PROVE  /\ Trusted(q) =>
                  /\ GroupsAgree(q)
                  /\ Kept(q) => EventsAgree(q)
                  /\ q.username = Null /\ q.until = Null /\ q.since # Null => WindowsAgree(q)
             /\ OwnErrorsOnly(q)
             /\ PercentilesRight(EventsOf(usage, q))
  <2>1. Trusted(q) => GroupsAgree(q)
    BY GroupsHold
  <2>2. Trusted(q) /\ Kept(q) => EventsAgree(q)
    BY EventsHold
  <2>3. Trusted(q) /\ Open(q) => WindowsAgree(q)
    BY WindowsHold
  <2>4. OwnErrorsOnly(q)
    BY OwnErrors
  <2>5. PercentilesRight(EventsOf(usage, q))
    <3>1. PICK rows : rows = EventsOf(usage, q)
      OBVIOUS
    <3>2. rows \in SUBSET usage
      BY <3>1 DEF EventsOf
    <3>3. /\ IsFiniteSet(rows) /\ \A r \in rows : MaybeNumber(r.latency_ms)
          /\ Orderly("latency_ms", rows)
      BY <3>2, TableIsOrderly
    <3>4. PercentilesRight(rows)
      BY <3>3, PercentileRight
    <3> QED BY <3>1, <3>4
  <2> QED BY <2>1, <2>2, <2>3, <2>4, <2>5 DEF Open
<1>3. \A k \in PendingHourly : ~Settled(k.hour)
  BY PendingIsUnsettled
<1>4. ASSUME NEW r \in usage
      PROVE  RowSpeed(r) = RowSpeedSql(r)
  <2>1. EventTyped(r)
    BY DEF TablesInv
  <2>2. /\ MaybeNumber(r.output_tokens) /\ MaybeNumber(r.latency_ms) /\ MaybeNumber(r.ttfb_ms)
        /\ MaybeNumber(r.reasoning_tokens)
    BY <2>1 DEF EventTyped
  <2> QED BY <2>2, SpeedsAgree
<1> QED BY <1>1, <1>2, <1>3, <1>4 DEF PagesAgree

-----------------------------------------------------------------------------
(* The list in pages of counted rows.                                      *)

Flattened(parts) ==
  LET flatten[i \in 1 .. Len(parts)] == IF i = 1 THEN parts[i] ELSE flatten[i - 1] \o parts[i]
  IN  flatten

\* The list up to the end of a page.
PagesEnd(i, size, n) == IF i * size < n THEN i * size ELSE n

LEMMA PagesEnds ==
  ASSUME NEW n \in Nat \ {0}, NEW size \in Nat \ {0}, NEW i \in 1 .. n
  PROVE  LET before == (i - 1) * size
         IN  /\ before \in Nat /\ i * size = before + size
             /\ PagesEnd(i, size, n) \in Nat /\ PagesEnd(i, size, n) <= n
             /\ i = 1 => before = 0
             /\ i = n => PagesEnd(i, size, n) = n
             /\ before < n => before <= PagesEnd(i, size, n) /\ PagesEnd(i - 1, size, n) = before
             /\ before >= n => PagesEnd(i, size, n) = n /\ PagesEnd(i - 1, size, n) = n
<1>1. PICK before \in Nat : before = (i - 1) * size
  OBVIOUS
<1>2. PICK whole \in Nat : whole = i * size
  OBVIOUS
<1>3. whole = before + size
  BY <1>1, <1>2
<1>4. i = n => whole >= n
  <2>1. n * size = n + n * (size - 1) /\ n * (size - 1) >= 0
    OBVIOUS
  <2> QED BY <1>2, <2>1
<1>5. i = 1 => before = 0
  BY <1>1
<1>6. PagesEnd(i, size, n) = (IF whole < n THEN whole ELSE n)
      /\ PagesEnd(i - 1, size, n) = (IF before < n THEN before ELSE n)
  BY <1>1, <1>2 DEF PagesEnd
<1>7. /\ before \in Nat /\ whole = before + size
      /\ PagesEnd(i, size, n) \in Nat /\ PagesEnd(i, size, n) <= n
      /\ i = 1 => before = 0
      /\ i = n => PagesEnd(i, size, n) = n
      /\ before < n => before <= PagesEnd(i, size, n) /\ PagesEnd(i - 1, size, n) = before
      /\ before >= n => PagesEnd(i, size, n) = n /\ PagesEnd(i - 1, size, n) = n
  BY <1>3, <1>4, <1>5, <1>6
<1> QED BY <1>1, <1>2, <1>7

LEMMA PagesInOne ==
  ASSUME NEW S, NEW rows \in Seq(S), NEW size \in Nat \ {0}, NEW parts,
         parts = [i \in 1 .. Len(rows) |->
                    SubSeq(rows, (i - 1) * size + 1,
                           IF (i - 1) * size + size < Len(rows) THEN (i - 1) * size + size ELSE Len(rows))]
  PROVE  FlattenSeq(parts) = rows
<1>1. PICK n \in Nat : n = Len(rows)
  BY LenProperties
<1>2. DOMAIN parts = 1 .. n /\ Len(parts) = n /\ \E T : parts \in [1 .. n -> T]
  <2>1. DOMAIN parts = 1 .. n
    BY <1>1
  <2>2. PICK T : T = {parts[i] : i \in 1 .. n}
    OBVIOUS
  <2>3. parts \in [1 .. n -> T]
    BY <1>1, <2>2
  <2>4. parts \in Seq(T)
    BY <2>3, SeqDef
  <2>5. PICK m \in Nat : m = Len(parts)
    BY <2>4, LenProperties
  <2>6. 1 .. m = 1 .. n
    BY <2>1, <2>4, <2>5, LenProperties
  <2>7. m = n
    BY <2>6
  <2>8. \E X : parts \in [1 .. n -> X]
    BY <2>3, Zenon
  <2> QED BY <2>1, <2>5, <2>7, <2>8, Zenon
<1>3. CASE n = 0
  <2>1. FlattenSeq(parts) = parts
    BY <1>2, <1>3, Zenon DEF FlattenSeq
  <2>2. rows \in [1 .. n -> S]
    BY <1>1, LenProperties
  <2>3. PICK T : parts \in [1 .. n -> T]
    BY <1>2
  <2>4. 1 .. n = {}
    BY <1>3
  <2>5. rows \in [{} -> S] /\ parts \in [{} -> T]
    BY <2>2, <2>3, <2>4
  <2>6. parts = rows
    BY <2>5
  <2> QED BY <2>1, <2>6
<1>4. CASE n # 0
  <2> DEFINE End(i) == PagesEnd(i, size, n)
             Begin(i) == (i - 1) * size
  <2>1. ASSUME NEW i \in 1 .. n
        PROVE  /\ Begin(i) \in Nat /\ i * size = Begin(i) + size
               /\ End(i) \in Nat /\ End(i) <= n
               /\ i = 1 => Begin(i) = 0
               /\ i = n => End(i) = n
               /\ Begin(i) < n => Begin(i) <= End(i) /\ End(i - 1) = Begin(i)
               /\ Begin(i) >= n => End(i) = n /\ End(i - 1) = n
    <3>1. n \in Nat \ {0}
      BY <1>4
    <3> QED BY <3>1, PagesEnds, Zenon
  <2>2. ASSUME NEW i \in 1 .. n
        PROVE  parts[i] = SubSeq(rows, Begin(i) + 1, End(i))
    BY <1>1, <2>1 DEF PagesEnd
  <2> HIDE DEF Begin, End
  <2>3. PICK u : u = [i \in 1 .. n |-> SubSeq(rows, 1, End(i))]
    OBVIOUS
  <2>4. ASSUME NEW i \in 1 .. n
        PROVE  u[i] = IF i = 1 THEN parts[i] ELSE u[i - 1] \o parts[i]
    <3>1. CASE i = 1
      <4>1. Begin(i) = 0
        BY <2>1, <3>1
      <4>2. parts[i] = SubSeq(rows, 1, End(i))
        <5>1. parts[i] = SubSeq(rows, Begin(i) + 1, End(i))
          BY <2>2
        <5>2. Begin(i) + 1 = 1
          BY <4>1
        <5> QED BY <5>1, <5>2, Zenon
      <4>3. u[i] = SubSeq(rows, 1, End(i))
        BY <2>3
      <4> QED BY <3>1, <4>2, <4>3
    <3>2. CASE i # 1
      <4>1. PICK j \in 1 .. n : j = i - 1
        BY <3>2
      <4>2. u[i] = SubSeq(rows, 1, End(i)) /\ u[j] = SubSeq(rows, 1, End(j))
        BY <2>3
      <4>3. CASE Begin(i) < n
        <5>1. PICK b \in Nat : b = Begin(i) /\ b = End(j) /\ b < n
          BY <2>1, <4>1, <4>3
        <5>2. PICK e \in Nat : e = End(i) /\ b <= e /\ e <= n
          BY <2>1, <4>3, <5>1
        <5>3. 1 \in 1 .. Len(rows) + 1 /\ b \in 1 - 1 .. Len(rows) /\ e \in b .. Len(rows)
          BY <1>1, <5>1, <5>2
        <5>4. SubSeq(rows, 1, b) \o SubSeq(rows, b + 1, e) = SubSeq(rows, 1, e)
          BY <5>3, ConcatAdjacentSubSeq
        <5> QED BY <2>2, <3>2, <4>1, <4>2, <5>1, <5>2, <5>4
      <4>4. CASE ~(Begin(i) < n)
        <5>1. PICK b \in Nat : b = Begin(i) /\ b >= n
          BY <2>1, <4>4
        <5>2. End(i) = n /\ End(j) = n
          BY <2>1, <4>1, <5>1
        <5>3. SubSeq(rows, b + 1, n) = <<>>
          BY <5>1, SubSeqEmpty
        <5>4. parts[i] = <<>>
          BY <2>2, <5>1, <5>2, <5>3
        <5>5. SubSeq(rows, 1, n) = rows
          BY <1>1, SubSeqFull
        <5>6. rows \o <<>> = rows
          BY ConcatEmptySeq
        <5> QED BY <3>2, <4>1, <4>2, <5>2, <5>4, <5>5, <5>6
      <4> QED BY <4>3, <4>4
    <3> QED BY <3>1, <3>2
  <2>5. u[n] = rows
    BY <1>1, <1>4, <2>1, <2>3, SubSeqFull
  <2>6. PICK f : f = Flattened(parts)
    OBVIOUS
  <2>7. PICK I : I = 1 .. n
    OBVIOUS
  <2> DEFINE Next(g) == [i \in I |-> IF i = 1 THEN parts[i] ELSE g[i - 1] \o parts[i]]
  <2>8. f = Next(f)
    <3>1. u = Next(u)
      <4>1. u = [i \in I |-> u[i]]
        BY <2>3, <2>7
      <4>2. \A i \in I : Next(u)[i] = u[i]
        BY <2>4, <2>7
      <4>3. u = [i \in I |-> Next(u)[i]]
        BY <4>1, <4>2
      <4> QED BY <4>3
    <3>2. Flattened(parts) = CHOOSE g : g = Next(g)
      BY <1>2, <2>7, Zenon DEF Flattened
    <3> HIDE DEF Next
    <3> QED BY <2>6, <3>1, <3>2
  <2>9. \A i \in I : f[i] = u[i]
    <3>0. PICK Wrong : Wrong = {i \in I : f[i] # u[i]}
      OBVIOUS
    <3>1. Wrong \in SUBSET Nat
      BY <2>7, <3>0
    <3> SUFFICES ASSUME Wrong # {}
                 PROVE  FALSE
      BY <3>0
    <3>2. PICK i \in Wrong : \A j \in Wrong : i <= j
      BY <3>1, LeastNumber
    <3>3. i \in 1 .. n /\ f[i] # u[i]
      BY <2>7, <3>0
    <3>4. f[i] = IF i = 1 THEN parts[i] ELSE f[i - 1] \o parts[i]
      BY <2>7, <2>8, <3>3
    <3>5. i # 1
      BY <2>4, <3>3, <3>4
    <3>6. PICK j \in 1 .. n : j = i - 1 /\ j \notin Wrong
      BY <3>2, <3>3, <3>5
    <3>7. f[j] = u[j]
      BY <2>7, <3>0, <3>6
    <3> QED BY <2>4, <3>3, <3>4, <3>5, <3>6, <3>7
  <2>10. FlattenSeq(parts) = f[n]
    BY <1>2, <1>4, <2>6, Zenon DEF FlattenSeq, Flattened
  <2> QED BY <1>4, <2>5, <2>7, <2>9, <2>10
<1> QED BY <1>3, <1>4

LEMMA ListsHold ==
  ASSUME TablesInv
  PROVE  ListsAgree
<1> SUFFICES ASSUME NEW wish \in Wishes
             PROVE  LET pages(column) == FlattenSeq([i \in 1 .. Cardinality(ListRows(wish)) |->
                                           OffsetPage(column, wish, (i - 1) * PageSize)])
                    IN  /\ pages("rowid") = Reverse(Export(wish))
                        /\ FirstPage(ListRows(wish)) = ToSet(OffsetPage("rowid", wish, 0))
                        /\ ToSet(pages("latency_ms")) = ListRows(wish)
                        /\ Len(pages("latency_ms")) = Cardinality(ListRows(wish))
  BY Zenon DEF ListsAgree
<1> DEFINE Pages(column) == FlattenSeq([i \in 1 .. Cardinality(ListRows(wish)) |->
                                         OffsetPage(column, wish, (i - 1) * PageSize)])
<1>1. PICK S : S = ListRows(wish)
  OBVIOUS
<1>2. PICK size \in Nat \ {0} : size = PageSize
  BY PageConstants
<1>3. /\ IsFiniteSet(S) /\ Orderly("latency_ms", S) /\ Orderly("rowid", S)
      /\ \A r \in S : r.rowid \in Nat
  <2>1. S \in SUBSET usage
    BY <1>1 DEF ListRows
  <2> QED BY <2>1, TableIsOrderly
<1>4. ASSUME NEW column, Orderly(column, S)
      PROVE  /\ Descending(column, S) \in Seq(S) /\ Len(Descending(column, S)) = Cardinality(S)
             /\ Pages(column) = Descending(column, S)
  <2>1. PICK rows : rows = Descending(column, S)
    OBVIOUS
  <2>2. rows \in Seq(S) /\ Len(rows) = Cardinality(S)
    BY <1>4, <2>1, OrderedRows DEF ByRank
  <2>3. PICK parts : parts = [i \in 1 .. Len(rows) |->
                    SubSeq(rows, (i - 1) * size + 1,
                           IF (i - 1) * size + size < Len(rows) THEN (i - 1) * size + size ELSE Len(rows))]
    OBVIOUS
  <2>4. FlattenSeq(parts) = rows
    BY <2>2, <2>3, PagesInOne
  <2>5. \A offset : OffsetPage(column, wish, offset) =
               SubSeq(rows, offset + 1, IF offset + size < Len(rows) THEN offset + size ELSE Len(rows))
    BY <1>1, <1>2, <2>1, Zenon DEF OffsetPage
  <2>6. parts = [i \in 1 .. Cardinality(S) |-> OffsetPage(column, wish, (i - 1) * size)]
    BY <2>2, <2>3, <2>5
  <2>7. Pages(column) = FlattenSeq(parts)
    BY <1>1, <1>2, <2>6
  <2> QED BY <2>1, <2>2, <2>4, <2>7
<1> HIDE DEF Pages
<1>5. Pages("rowid") = Reverse(Export(wish))
  BY <1>1, <1>3, <1>4, DescendingBackwards DEF Export
<1>6. ToSet(Pages("latency_ms")) = S /\ Len(Pages("latency_ms")) = Cardinality(S)
  <2>1. PICK rows : rows = Descending("latency_ms", S)
    OBVIOUS
  <2>2. ByRank(rows, Above("latency_ms", S), S)
    BY <1>3, <2>1, OrderedRows
  <2>3. DOMAIN rows = 1 .. Cardinality(S)
    BY <2>2, LenProperties DEF ByRank
  <2>4. \A i \in DOMAIN rows : rows[i] \in S
    BY <2>2, <2>3 DEF ByRank
  <2>5. \A r \in S : \E i \in DOMAIN rows : rows[i] = r
    BY <2>2, <2>3 DEF ByRank
  <2>6. ToSet(rows) = S
    BY <2>4, <2>5 DEF ToSet
  <2> QED BY <1>3, <1>4, <2>1, <2>6
<1>7. FirstPage(S) = ToSet(OffsetPage("rowid", wish, 0))
  <2>1. PICK rows : rows = Descending("rowid", S)
    OBVIOUS
  <2>2. PICK above : above = Above("rowid", S)
    OBVIOUS
  <2>3. ByRank(rows, above, S)
    BY <1>3, <2>1, <2>2, OrderedRows
  <2>4. PICK n \in Nat : n = Cardinality(S)
    BY <2>3 DEF ByRank
  <2>5. rows \in Seq(S) /\ Len(rows) = n
    BY <2>3, <2>4 DEF ByRank
  <2>6. PICK last \in Nat : last = (IF size < n THEN size ELSE n)
    OBVIOUS
  <2>7. last <= n /\ last <= size /\ \A k \in Nat : k < n => (k < size <=> k + 1 <= last)
    BY <2>6
  <2>8. OffsetPage("rowid", wish, 0) = SubSeq(rows, 1, last)
    <3>1. OffsetPage("rowid", wish, 0) = SubSeq(rows, 0 + 1, IF 0 + size < Len(rows) THEN 0 + size ELSE Len(rows))
      BY <1>1, <1>2, <2>1, Zenon DEF OffsetPage
    <3>2. 0 + 1 = 1 /\ (IF 0 + size < n THEN 0 + size ELSE n) = last
      BY <2>6
    <3> QED BY <2>5, <3>1, <3>2
  <2>9. PICK page : page = SubSeq(rows, 1, last)
    OBVIOUS
  <2>10. page \in Seq(S) /\ Len(page) = last /\ \A i \in 1 .. last : page[i] = rows[i]
    <3>1. \A i \in 1 .. last : rows[i] \in S
      BY <2>3, <2>4, <2>7 DEF ByRank
    <3>2. /\ page \in Seq(S)
          /\ Len(page) = IF 1 <= last THEN last - 1 + 1 ELSE 0
          /\ \A i \in 1 .. last - 1 + 1 : page[i] = rows[1 + i - 1]
      BY <2>9, <3>1, SubSeqProperties
    <3> QED BY <3>2
  <2>11. ToSet(page) = {page[i] : i \in 1 .. last}
    BY <2>10, LenProperties DEF ToSet
  <2>12. \A r \in S : above[r] = {s \in S : s.rowid > r.rowid}
    <3> SUFFICES ASSUME NEW r \in S, NEW s \in S
                 PROVE  Under("rowid", r, s) <=> s.rowid > r.rowid
      BY <2>2 DEF Above
    <3>1. r["rowid"] \in Nat /\ s["rowid"] \in Nat /\ Null \notin Nat
      BY <1>3, PageConstants
    <3>2. OrZero(r["rowid"]) = r.rowid /\ OrZero(s["rowid"]) = s.rowid
      BY <3>1 DEF OrZero
    <3> QED BY <3>1, <3>2 DEF Under
  <2>13. FirstPage(S) = {r \in S : Cardinality(above[r]) < size}
    BY <1>2, <2>12 DEF FirstPage
  <2>14. ASSUME NEW r \in S, Cardinality(above[r]) < size
         PROVE  r \in {page[i] : i \in 1 .. last}
    <3>1. PICK k : k = Cardinality(above[r])
      OBVIOUS
    <3>2. k + 1 \in 1 .. n /\ rows[k + 1] = r
      BY <2>3, <2>4, <3>1 DEF ByRank
    <3>3. k \in Nat /\ k < n
      <4>1. RanksOf(above, S)
        BY <1>3, <2>2, RowsAreRanked
      <4> QED BY <2>4, <3>1, <4>1, EveryRank
    <3>4. k + 1 \in 1 .. last
      BY <2>7, <2>14, <3>1, <3>3
    <3> QED BY <2>10, <3>2, <3>4
  <2>15. ASSUME NEW i \in 1 .. last
         PROVE  page[i] \in S /\ Cardinality(above[page[i]]) < size
    <3>1. i \in 1 .. n
      BY <2>7
    <3>2. rows[i] \in S /\ Cardinality(above[rows[i]]) = i - 1
      BY <2>3, <2>4, <3>1 DEF ByRank
    <3> QED BY <2>7, <2>10, <3>2
  <2>16. PICK X : X = {r \in S : Cardinality(above[r]) < size}
    OBVIOUS
  <2>17. PICK Y : Y = {page[i] : i \in 1 .. last}
    OBVIOUS
  <2>18. X \subseteq Y
    BY <2>14, <2>16, <2>17
  <2>19. Y \subseteq X
    BY <2>15, <2>16, <2>17
  <2>20. X = Y
    BY <2>18, <2>19
  <2> QED BY <2>8, <2>9, <2>11, <2>13, <2>16, <2>17, <2>20
<1> QED BY <1>1, <1>5, <1>6, <1>7 DEF Pages

-----------------------------------------------------------------------------
(* The invariant of the tables is kept by whatever is done to them.        *)

EventsTyped ==
  /\ \A r \in usage : EventTyped(r)
  /\ \A r, s \in usage : r.rowid = s.rowid => r = s
HoursHonest ==
  /\ IsFiniteSet(DOMAIN hourly)
  /\ \A k \in DOMAIN hourly : k.hour \in Hours /\ Honest(hourly[k])

\* A row of the events is numbered after all others and has what the sample has.
LEMMA NewestRow ==
  ASSUME TablesInv
  PROVE  NextRowid \in Nat /\ \A r \in usage : r.rowid < NextRowid
<1>1. IsFiniteSet(usage) /\ \A r \in usage : r.rowid \in Nat
  BY DEF TablesInv, BooksInv, BookTypes, EventTyped
<1>2. CASE usage = {}
  BY <1>2 DEF NextRowid
<1>3. CASE usage # {}
  <2>1. PICK f : f = [r \in usage |-> r.rowid]
    OBVIOUS
  <2>2. PICK S : S = {r.rowid : r \in usage}
    OBVIOUS
  <2>3. S = {f[r] : r \in usage}
    BY <2>1, <2>2
  <2>4. IsFiniteSet(S)
    BY <1>1, <2>3, ImageIsFinite
  <2>5. S \in SUBSET Nat /\ S # {}
    BY <1>1, <1>3, <2>2
  <2>6. Max(S) \in S /\ \A y \in S : y <= Max(S)
    BY <2>4, <2>5, LargestOf
  <2>7. NextRowid = Max(S) + 1
    BY <1>3, <2>2 DEF NextRowid
  <2>8. PICK m \in Nat : m = Max(S) /\ \A y \in S : y <= m
    BY <2>5, <2>6
  <2>9. \A r \in usage : r.rowid \in Nat /\ r.rowid <= m
    BY <1>1, <2>2, <2>8
  <2> QED BY <2>7, <2>8, <2>9
<1> QED BY <1>2, <1>3

LEMMA AttemptTyped ==
  ASSUME TablesInv, NEW sample \in Samples
  PROVE  EventTyped(Written(sample)) /\ Written(sample).rowid = NextRowid
<1> DEFINE fields == [id |-> written, rowid |-> NextRowid, ts |-> clock, cost |-> CostAt(sample, price)]
<1>1. PICK w : w = Overlaid(fields, sample)
  OBVIOUS
<1>2. DOMAIN fields = {"id", "rowid", "ts", "cost"} /\ fields["rowid"] = NextRowid
  OBVIOUS
<1>3. w = Written(sample)
  BY <1>1 DEF Written
<1> HIDE DEF fields
<1>4. w["rowid"] = NextRowid
  BY <1>1, <1>2 DEF Overlaid
<1>5. \A column \in DOMAIN sample \ {"id", "rowid", "ts", "cost"} : w[column] = sample[column]
  BY <1>1, <1>2 DEF Overlaid
<1>6. {"ok", "error_type", "reasoning_tokens", "output_tokens", "latency_ms", "ttfb_ms"} \subseteq DOMAIN sample
  BY BookConstants, PageConstants
<1>7. /\ w["ok"] = sample["ok"] /\ w["error_type"] = sample["error_type"]
      /\ \A column \in {"output_tokens", "latency_ms", "ttfb_ms", "reasoning_tokens"} :
           w[column] = sample[column]
  BY <1>5, <1>6
<1>8. \A column \in {"output_tokens", "latency_ms", "ttfb_ms", "reasoning_tokens"} :
        sample[column] \in Nat \cup {Null}
  BY BookConstants, PageConstants
<1>9. sample.ok => sample.error_type \notin ModelErrors
  BY PageConstants
<1>10. NextRowid \in Nat
  BY NewestRow
<1>11. EventTyped(w)
  BY <1>4, <1>7, <1>8, <1>9, <1>10 DEF EventTyped, MaybeNumber
<1> QED BY <1>3, <1>4, <1>11

LEMMA SumsAreHonest ==
  ASSUME NEW S, Rows(S)
  PROVE  Honest(Sums(S))
<1> SUFFICES ASSUME Sums(S)["cost_known"] = 0
             PROVE  Sums(S)["cost"] = 0
  BY DEF Honest
<1>1. Cardinality(Costed(S)) = 0 /\ IsFiniteSet(Costed(S)) /\ IsFiniteSet(S)
  BY SumsColumns, FS_Subset DEF Costed, Rows
<1>2. Costed(S) = {}
  BY <1>1, FS_EmptySet
<1>3. \A r \in S : OrZero(r["cost"]) = 0
  BY <1>2 DEF Costed, OrZero
<1>4. PICK column : column = "cost"
  OBVIOUS
<1>5. PICK v : v = ColumnOf(column, S)
  OBVIOUS
<1>6. \A r \in S : v[r] = 0
  BY <1>3, <1>4, <1>5, ColumnAddsUp
<1>7. SumFunctionOnSet(v, S) = 0
  BY <1>1, <1>6, TotalZero
<1>8. ColumnSum(column, S) = 0
  BY <1>5, <1>7, ColumnAddsUp
<1> QED BY <1>4, <1>8, SumsColumns

\* Rows of the hours that are added up, or made anew.
LEMMA BothAreHonest ==
  ASSUME NEW a \in [Columns -> Nat], NEW b \in [Columns -> Nat], Honest(a), Honest(b)
  PROVE  Honest(Both(a, b))
<1>1. /\ Both(a, b)["cost_known"] = a["cost_known"] + b["cost_known"]
      /\ Both(a, b)["cost"] = a["cost"] + b["cost"]
  BY BothColumns DEF Columns
<1>2. a["cost_known"] \in Nat /\ b["cost_known"] \in Nat
  BY DEF Columns
<1> QED BY <1>1, <1>2 DEF Honest

LEMMA NowIsAnHour ==
  ASSUME TablesInv
  PROVE  HourOf(clock) \in Hours
BY DEF TablesInv, BooksInv, BookTypes, Hours

LEMMA BumpIsHonest ==
  ASSUME TablesInv, NEW w, w.ts = clock, Rows({w}), hourly' = BumpHourly(w)
  PROVE  HoursHonest'
<1>1. PICK K : K = DOMAIN hourly
  OBVIOUS
<1>2. PICK key : key = HourKey(w)
  OBVIOUS
<1>3. key.hour \in Hours
  BY <1>2, KeyIsHours, NowIsAnHour
<1>4. IsFiniteSet(K) /\ \A k \in K : k.hour \in Hours /\ Honest(hourly[k]) /\ hourly[k] \in [Columns -> Nat]
  BY <1>1 DEF TablesInv, BooksInv, BookTypes
<1>5. PICK before : before = (IF key \in K THEN hourly[key] ELSE Sums({}))
  OBVIOUS
<1>6. Rows({}) /\ Sums({}) \in [Columns -> Nat] /\ Honest(Sums({}))
  <2>1. Rows({})
    BY FS_EmptySet DEF Rows
  <2> QED BY <2>1, SumsAreCounts, SumsAreHonest
<1>7. before \in [Columns -> Nat] /\ Honest(before)
  BY <1>4, <1>5, <1>6
<1>8. Sums({w}) \in [Columns -> Nat] /\ Honest(Sums({w}))
  BY SumsAreCounts, SumsAreHonest
<1>9. Honest(Both(before, Sums({w})))
  BY <1>7, <1>8, BothAreHonest
<1>10. hourly' = [k \in K \cup {key} |-> IF k = key THEN Both(before, Sums({w})) ELSE hourly[k]]
  BY <1>1, <1>2, <1>5 DEF BumpHourly
<1>11. DOMAIN hourly' = K \cup {key}
  BY <1>10
<1>12. IsFiniteSet(DOMAIN hourly')
  BY <1>4, <1>11, FS_AddElement
<1>13. ASSUME NEW k \in DOMAIN hourly'
       PROVE  k.hour \in Hours /\ Honest(hourly'[k])
  <2>1. CASE k = key
    BY <1>3, <1>9, <1>10, <1>11, <2>1
  <2>2. CASE k # key
    BY <1>4, <1>10, <1>11, <2>2
  <2> QED BY <2>1, <2>2
<1>14. Hours' = Hours
  BY DEF Hours
<1> QED BY <1>12, <1>13, <1>14 DEF HoursHonest

LEMMA RolledIsHonest ==
  ASSUME TablesInv, NEW part \in SUBSET usage, NEW n \in Nat, hourly' = RolledUpFrom(part, n * PerHour)
  PROVE  HoursHonest'
<1>1. PICK f : f = RolledUpFrom(part, n * PerHour)
  OBVIOUS
<1>2. PICK K : K = KeysOf(part)
  OBVIOUS
<1>3. \A r \in part : r.ts \in Nat /\ HourOf(r.ts) \in Hours
  BY EventHours
<1>4. RolledRows(f, part, n)
  BY <1>1, <1>3, RolledKeys
<1>5. IsFiniteSet(part)
  BY FS_Subset DEF TablesInv, BooksInv, BookTypes
<1>6. IsFiniteSet(K)
  <2>1. PICK g : g = [r \in part |-> HourKey(r)]
    OBVIOUS
  <2>2. K = {g[r] : r \in part}
    BY <1>2, <2>1 DEF KeysOf
  <2> QED BY <1>5, <2>2, ImageIsFinite
<1>7. DOMAIN f = {k \in K : k.hour >= n} \cup DOMAIN hourly
  BY <1>2, <1>4 DEF RolledRows
<1>8. IsFiniteSet(DOMAIN f)
  <2>1. IsFiniteSet({k \in K : k.hour >= n}) /\ IsFiniteSet(DOMAIN hourly)
    BY <1>6, FS_Subset DEF TablesInv
  <2> QED BY <1>7, <2>1, FS_Union
<1>9. ASSUME NEW k \in DOMAIN f
      PROVE  k.hour \in Hours /\ Honest(f[k])
  <2>1. CASE k \in K /\ k.hour >= n
    <3>1. f[k] = Sums(RowsOf(part, k))
      BY <1>2, <1>4, <2>1 DEF RolledRows
    <3>2. RowsOf(part, k) \in SUBSET usage
      BY DEF RowsOf
    <3>3. Honest(Sums(RowsOf(part, k)))
      BY <3>2, WholeRows, SumsAreHonest
    <3>4. PICK r \in part : k = HourKey(r)
      BY <1>2, <2>1 DEF KeysOf
    <3>5. k.hour \in Hours
      BY <1>3, <3>4, KeyIsHours
    <3> QED BY <3>1, <3>3, <3>5
  <2>2. CASE ~(k \in K /\ k.hour >= n)
    <3>1. k \in DOMAIN hourly /\ f[k] = hourly[k]
      BY <1>2, <1>4, <1>7, <2>2 DEF RolledRows
    <3> QED BY <3>1 DEF TablesInv
  <2> QED BY <2>1, <2>2
<1>10. hourly' = f /\ Hours' = Hours
  BY <1>1 DEF Hours
<1> QED BY <1>8, <1>9, <1>10 DEF HoursHonest

LEMMA EventsDeleted ==
  ASSUME TablesInv, usage' \subseteq usage
  PROVE  EventsTyped'
BY DEF TablesInv, EventsTyped, EventTyped

LEMMA HoursDeleted ==
  ASSUME TablesInv, NEW K \in SUBSET DOMAIN hourly, hourly' = [k \in K |-> hourly[k]]
  PROVE  HoursHonest'
<1>1. IsFiniteSet(K)
  BY FS_Subset DEF TablesInv
<1>2. Hours' = Hours
  BY DEF Hours
<1> QED BY <1>1, <1>2 DEF TablesInv, HoursHonest

LEMMA HoursAlike ==
  ASSUME TablesInv, hourly' = hourly
  PROVE  HoursHonest'
<1>1. Hours' = Hours
  BY DEF Hours
<1> QED BY <1>1 DEF TablesInv, HoursHonest

LEMMA RepricedTyped ==
  ASSUME TablesInv, usage' = {Repriced(r) : r \in usage}
  PROVE  EventsTyped'
<1>1. ASSUME NEW r \in usage
      PROVE  /\ Repriced(r).rowid = r.rowid /\ Repriced(r).ok = r.ok
             /\ Repriced(r).error_type = r.error_type
             /\ Repriced(r).output_tokens = r.output_tokens /\ Repriced(r).latency_ms = r.latency_ms
             /\ Repriced(r).ttfb_ms = r.ttfb_ms /\ Repriced(r).reasoning_tokens = r.reasoning_tokens
  <2>1. CASE CostAt(r, price) = Null
    BY <2>1 DEF Repriced
  <2>2. CASE CostAt(r, price) # Null
    <3>1. PICK c : c = CostAt(r, price)
      OBVIOUS
    <3>2. Repriced(r) = [r EXCEPT !.cost = c]
      BY <2>2, <3>1 DEF Repriced
    <3> QED BY <3>2
  <2> QED BY <2>1, <2>2
<1>2. ASSUME NEW r \in usage
      PROVE  EventTyped(Repriced(r))
  <2>1. EventTyped(r)
    BY DEF TablesInv
  <2> QED BY <1>1, <2>1 DEF EventTyped
<1>3. ASSUME NEW q \in usage', NEW s \in usage', q.rowid = s.rowid
      PROVE  q = s
  <2>1. PICK r \in usage : q = Repriced(r)
    OBVIOUS
  <2>2. PICK t \in usage : s = Repriced(t)
    OBVIOUS
  <2>3. r.rowid = t.rowid
    BY <1>1, <1>3, <2>1, <2>2
  <2> QED BY <2>1, <2>2, <2>3 DEF TablesInv
<1> QED BY <1>2, <1>3 DEF EventsTyped, EventTyped

LEMMA TablesRecord ==
  ASSUME TablesInv, NEW sample \in Samples, Record(sample)
  PROVE  TablesInv'
<1>1. BooksInv'
  BY AttemptRecorded DEF TablesInv
<1>2. PICK w : w = Written(sample)
  OBVIOUS
<1>3. usage' = usage \cup {w} /\ hourly' = BumpHourly(w) /\ clock' = clock
  BY <1>2 DEF Record
<1>4. w.ts = clock /\ \A column \in Summed : OrZero(w[column]) \in Nat
  BY <1>2, WrittenRow DEF TablesInv, BooksInv
<1>5. EventTyped(w) /\ w.rowid = NextRowid
  BY <1>2, AttemptTyped
<1>6. NextRowid \in Nat /\ \A r \in usage : r.rowid < NextRowid /\ r.rowid \in Nat
  BY NewestRow DEF TablesInv, EventTyped
<1>7. EventsTyped'
  <2>1. \A r \in usage' : EventTyped(r)
    BY <1>3, <1>5 DEF TablesInv
  <2>2. ASSUME NEW r \in usage', NEW s \in usage', r.rowid = s.rowid
        PROVE  r = s
    <3>1. \A x \in usage : x.rowid # w.rowid
      BY <1>5, <1>6
    <3>2. \A x, y \in usage : x.rowid = y.rowid => x = y
      BY DEF TablesInv
    <3> QED BY <1>3, <2>2, <3>1, <3>2
  <2> QED BY <2>1, <2>2 DEF EventsTyped, EventTyped
<1>8. HoursHonest'
  <2>1. Rows({w})
    BY <1>4, FS_Singleton DEF Rows
  <2> QED BY <1>3, <1>4, <2>1, BumpIsHonest
<1>9. clock' <= LastTick
  BY <1>3 DEF TablesInv
<1> QED BY <1>1, <1>7, <1>8, <1>9 DEF TablesInv, EventsTyped, HoursHonest, EventTyped

LEMMA TablesMove ==
  ASSUME TablesInv, ScriptStep \/ ClockTicks \/ PricesMove \/ TidyBegins \/ TidyStep \/ TidyLeaves
                    \/ UNCHANGED bookVars
  PROVE  TablesInv'
<1>1. BooksInv'
  BY BooksGoOn DEF TablesInv, BooksStep
<1>2. clock' <= LastTick
  <2>1. clock \in Nat /\ LastTick \in Nat /\ clock <= LastTick
    BY BookConstants DEF TablesInv, BooksInv, BookTypes
  <2>2. CASE ClockTicks
    BY <2>1, <2>2 DEF ClockTicks
  <2>3. CASE ~ClockTicks
    <3>1. clock' = clock
      BY <2>3, Zenon DEF ScriptStep, SweepBegins, SweepDeletes, SweepOrphans, Reprice, RecomputeAll,
         ScriptDies, PricesMove, TidyBegins, TidyStep, RollUp, Purge, TidyLeaves, bookVars
    <3> QED BY <2>1, <3>1
  <2> QED BY <2>2, <2>3
<1>3. EventsTyped' /\ HoursHonest'
  <2>1. CASE RollUp \/ RecomputeAll
    <3>1. clock \in Nat
      BY DEF TablesInv, BooksInv, BookTypes
    <3>2. PICK n \in Nat : hourly' = RolledUpFrom(usage, n * PerHour)
      <4>1. CASE RollUp
        <5>1. PICK h \in Nat : RollupSince = h * PerHour
          BY <3>1, RoundsByTheHour
        <5> QED BY <4>1, <5>1 DEF RollUp, RolledUp
      <4>2. CASE RecomputeAll
        <5>1. 0 * PerHour = 0
          BY BookConstants
        <5> QED BY <4>2, <5>1 DEF RecomputeAll, RolledUp
      <4> QED BY <2>1, <4>1, <4>2
    <3>3. usage' \subseteq usage
      BY <2>1 DEF RollUp, RecomputeAll
    <3> QED BY <3>2, <3>3, EventsDeleted, RolledIsHonest
  <2>2. CASE SweepDeletes
    <3>1. PICK part \in SUBSET usage : usage' = part /\ hourly' = RolledUpFrom(part, 0)
      BY <2>2 DEF SweepDeletes
    <3>2. 0 = 0 * PerHour /\ 0 \in Nat
      BY BookConstants
    <3>3. hourly' = RolledUpFrom(part, 0 * PerHour)
      BY <3>1, <3>2
    <3> QED BY <3>1, <3>2, <3>3, EventsDeleted, RolledIsHonest
  <2>3. CASE SweepOrphans
    <3>1. PICK K \in SUBSET DOMAIN hourly : hourly' = [k \in K |-> hourly[k]]
      BY <2>3 DEF SweepOrphans
    <3>2. usage' \subseteq usage
      BY <2>3 DEF SweepOrphans
    <3> QED BY <3>1, <3>2, EventsDeleted, HoursDeleted
  <2>4. CASE Reprice
    <3>1. usage' = {Repriced(r) : r \in usage} /\ hourly' = hourly
      BY <2>4 DEF Reprice
    <3> QED BY <3>1, RepricedTyped, HoursAlike
  <2>5. CASE Purge
    <3>1. usage' \subseteq usage /\ hourly' = hourly
      BY <2>5 DEF Purge
    <3> QED BY <3>1, EventsDeleted, HoursAlike
  <2>6. CASE SweepBegins \/ ScriptDies \/ ClockTicks \/ PricesMove \/ TidyBegins \/ TidyLeaves
             \/ UNCHANGED bookVars
    <3>1. usage' = usage /\ hourly' = hourly
      BY <2>6, Zenon DEF SweepBegins, ScriptDies, ClockTicks, PricesMove, TidyBegins, TidyLeaves, bookVars
    <3>2. usage' \subseteq usage
      BY <3>1
    <3> QED BY <3>1, <3>2, EventsDeleted, HoursAlike
  <2> QED BY <2>1, <2>2, <2>3, <2>4, <2>5, <2>6 DEF ScriptStep, TidyStep
<1> QED BY <1>1, <1>2, <1>3 DEF TablesInv, EventsTyped, HoursHonest, EventTyped

LEMMA TablesGoOn ==
  ASSUME TablesInv, (\E sample \in Samples : RecordTold(sample)) \/ BooksMove \/ UNCHANGED bookVars
  PROVE  TablesInv'
<1>1. CASE \E sample \in Samples : RecordTold(sample)
  BY <1>1, TablesRecord DEF RecordTold
<1>2. CASE BooksMove \/ UNCHANGED bookVars
  BY <1>2, TablesMove DEF BooksMove, Retention
<1> QED BY <1>1, <1>2

LEMMA TablesBegin == PagesInit => TablesInv
<1> SUFFICES ASSUME PagesInit
             PROVE  TablesInv
  OBVIOUS
<1>1. BooksInv
  BY BooksBegin DEF PagesInit
<1>2. clock = 0 /\ usage = {} /\ hourly = <<>>
  BY DEF PagesInit, BooksInit
<1>3. DOMAIN hourly = {}
  BY <1>2
<1>4. clock <= LastTick
  BY <1>2, BookConstants
<1> QED BY <1>1, <1>2, <1>3, <1>4, FS_EmptySet DEF TablesInv

LEMMA PagesMove ==
  ASSUME TablesInv, PagesNext
  PROVE  TablesInv'
<1>1. CASE follows = "tables" /\ TablesNext
  BY <1>1, TablesGoOn DEF TablesNext, RecordTells
<1>2. CASE follows = "list" /\ ListNext
  <2>1. CASE RecordTells(Shown, MostShown)
    BY <2>1, PageConstants, TablesGoOn DEF RecordTells
  <2>2. CASE OpensList \/ TurnsPage
    BY <2>2, TablesGoOn DEF OpensList, TurnsPage
  <2>3. CASE SweepBegins \/ SweepDeletes \/ SweepOrphans
    BY <2>3, TablesMove DEF ScriptStep
  <2> QED BY <1>2, <2>1, <2>2, <2>3 DEF ListNext
<1>3. CASE follows = "live" /\ LiveNext
  <2>1. CASE RecordTells(Shown, MostShown)
    BY <2>1, PageConstants, TablesGoOn DEF RecordTells
  <2>2. CASE WatcherStep
    BY <2>2, TablesGoOn DEF WatcherStep
  <2> QED BY <1>3, <2>1, <2>2 DEF LiveNext
<1> QED BY <1>1, <1>2, <1>3 DEF PagesNext

\* The pages of the statistics, the windows of alerting and the diagnosis of the scripts
\* tell the same of every hour that no script is at work of or has spoilt, and that is
\* what was recorded, whatever was purged, deleted, priced anew and recomputed; and the
\* list is the same rows, once each, in whatever order and however it is cut into pages:
\* query.py, collector.py, backfill.py, for any attempts, prices, queries, lists and
\* pages, any length of hours and of retention.
THEOREM TablesAlwaysAgree == RequestLifeSpec => []TablesAgree
<1>1. RequestLifeInit => TablesInv
  BY TablesBegin DEF RequestLifeInit
<1>2. TablesInv /\ [RequestLifeNext]_requestLifeVars => TablesInv'
  <2> SUFFICES ASSUME TablesInv, [RequestLifeNext]_requestLifeVars
               PROVE  TablesInv'
    OBVIOUS
  <2>1. CASE PagesNext
    BY <2>1, PagesMove
  <2>2. CASE UNCHANGED pageVars
    BY <2>2, TablesGoOn DEF pageVars
  <2>3. UNCHANGED requestLifeVars => UNCHANGED pageVars
    BY DEF requestLifeVars
  <2> QED BY <2>1, <2>2, <2>3 DEF RequestLifeNext
<1>3. TablesInv => TablesAgree
  BY PagesHold, ListsHold DEF TablesAgree
<1> QED BY <1>1, <1>2, <1>3, PTL DEF RequestLifeSpec
=============================================================================
