-------------------------- MODULE ModelCatalogProofs --------------------------
(***************************************************************************)
(* What holds of the model list for any number of channels, whatever       *)
(* tables they offer and whatever names the operator adds, and however     *)
(* fetches, restarts and changes of credentials fall together.             *)
(***************************************************************************)
EXTENDS ModelCatalog, FiniteSetTheorems, WellFoundedInduction, TLAPS

LEMMA LeastNumber ==
  ASSUME NEW S \in SUBSET Nat, S # {}
  PROVE  Min(S) \in S /\ \A y \in S : Min(S) <= y
<1>1. PICK x \in S : \A y \in S : <<y, x>> \notin OpToRel(<, Nat)
  BY NatLessThanWellFounded, WFMin, Zenon
<1>2. \A y \in S : ~(y < x)
  <2>1. \A a, b \in Nat : a < b => <<a, b>> \in OpToRel(<, Nat)
    BY Zenon DEF OpToRel
  <2> QED BY <1>1, <2>1, Zenon
<1>3. \A y \in S : x <= y
  BY <1>2
<1> QED BY <1>3 DEF Min

-----------------------------------------------------------------------------
(* Channels in their order.                                                *)

LEMMA Ranked ==
  ASSUME NEW p \in Channel
  PROVE  Rank(p) \in 1 .. Len(Channels) /\ Channels[Rank(p)] = p
BY DEF Channel, Rank

LEMMA RankTellsApart ==
  ASSUME NEW p \in Channel, NEW q \in Channel, Rank(p) = Rank(q)
  PROVE  p = q
BY Ranked

LEMMA ForemostIsIn ==
  ASSUME NEW S \in SUBSET Channel, S # {}
  PROVE  Foremost(S) \in S /\ \A q \in S : Rank(Foremost(S)) <= Rank(q)
<1> DEFINE R == {Rank(p) : p \in S}
<1>1. R \in SUBSET Nat /\ R # {}
  BY Ranked, MergeConstants
<1>2. Min(R) \in R /\ \A y \in R : Min(R) <= y
  <2> HIDE DEF R
  <2> QED BY <1>1, LeastNumber
<1>3. PICK p \in S : Rank(p) = Min(R)
  BY <1>2
<1>4. \A q \in S : Rank(p) <= Rank(q)
  BY <1>2, <1>3
<1> QED BY <1>3, <1>4 DEF Foremost

-----------------------------------------------------------------------------
(* The types.                                                              *)

Ages == 0 .. Oldest \cup {Never}
JobRows == [at : {"idle", "lock", "walk"}, conn : SUBSET Channel, todo : SUBSET Channel]
DiskRows(p) == [table : scene.offers[p] \cup {{}}, age : Ages]

ListTyped ==
  /\ scene \in Scenes /\ creds \subseteq Channel
  /\ settings.aliases \in Seq(AliasRows)
  /\ DOMAIN cache = Channel /\ DOMAIN tried = Channel /\ DOMAIN fails = Channel /\ DOMAIN disk = Channel
  /\ \A p \in Channel :
       /\ cache[p] \in scene.offers[p] \cup {{}} /\ disk[p] \in DiskRows(p)
       /\ tried[p] \in Ages /\ fails[p] \in 0 .. MaxFails
       /\ published.shown[p] \subseteq Offered(p)
  /\ job \in [Job -> JobRows]
  /\ \A j \in Job : job[j].todo \subseteq job[j].conn

ProbeTyped ==
  /\ DOMAIN verdict = Known
  /\ \A k \in Known : verdict[k] \in {"none", "ok", "failed", "inconclusive"}
  /\ manual \subseteq Known /\ refused \subseteq Known /\ gone \subseteq Known /\ asked \subseteq Known
  /\ DOMAIN round = {"at", "todo", "marked", "on"}
  /\ round.at \in {"idle", "walk"} /\ round.todo \subseteq Known /\ round.marked \subseteq Known
  /\ round.on \subseteq round.todo

\* Only who has the lock asks, and only channels whose pause was over when it took it:
\* nothing happens to those meanwhile but that time passes.
WalkInv ==
  /\ \A i, j \in Job : job[i].at = "walk" /\ job[j].at = "walk" => i = j
  /\ \A j \in Job : job[j].at = "walk" => \A p \in job[j].todo : Due(p)

CatalogInv == ListTyped /\ ProbeTyped /\ WalkInv

LEMMA OldestIs ==
  /\ Oldest \in Nat
  /\ 0 \in Ages /\ Never \in Ages
  /\ \A age \in Ages : Older(age) \in Ages
  /\ \A age \in Ages : age # Never => age \in Nat /\ Older(age) \in Nat /\ Older(age) >= age
<1>1. LongestPause \in Nat /\ MaxAge + 1 \in Nat /\ Never \notin Nat
  BY CatalogConstants
<1>2. Oldest \in Nat
  <2>1. \E x \in {LongestPause, MaxAge + 1} : \A y \in {LongestPause, MaxAge + 1} : x >= y
    BY <1>1
  <2>2. Oldest \in {LongestPause, MaxAge + 1}
    BY <2>1 DEF Oldest, Max
  <2> QED BY <1>1, <2>2
<1>3. ASSUME NEW age \in 0 .. Oldest
      PROVE  Older(age) \in 0 .. Oldest /\ Older(age) >= age
  <2>1. age # Never
    BY <1>1, <1>2
  <2>2. {age + 1, Oldest} \in SUBSET Nat /\ {age + 1, Oldest} # {}
    BY <1>2
  <2>3. Min({age + 1, Oldest}) \in {age + 1, Oldest}
        /\ \A y \in {age + 1, Oldest} : Min({age + 1, Oldest}) <= y
    BY <2>2, LeastNumber
  <2>4. Older(age) = Min({age + 1, Oldest})
    BY <2>1 DEF Older
  <2> QED BY <1>2, <2>3, <2>4
<1>4. Older(Never) = Never
  BY DEF Older
<1> QED BY <1>2, <1>3, <1>4 DEF Ages

LEMMA PublishedTyped ==
  ASSUME NEW tables, NEW conn, \A p \in Channel : tables[p] \in scene.offers[p] \cup {{}}
  PROVE  \A p \in Channel : Published(tables, conn).shown[p] \subseteq Offered(p)
BY DEF Published, Shown, Offered

LEMMA PauseIsNumber ==
  ASSUME NEW n \in Nat
  PROVE  Pause(n) \in Int
<1>1. CASE n = 0
  BY <1>1, CatalogConstants DEF Pause
<1>2. CASE n # 0
  <2>1. n - 1 \in Nat
    BY <1>2
  <2>2. PICK power : power = 2 ^ (n - 1)
    OBVIOUS
  <2>3. power \in Int
    BY <2>1, <2>2
  <2>4. TTL * power \in Int /\ LongestPause \in Int
    BY <2>3, CatalogConstants
  <2>5. PICK pause : pause = TTL * power
    OBVIOUS
  <2>6. \E x \in {pause, LongestPause} : \A y \in {pause, LongestPause} : x <= y
    BY <2>4, <2>5
  <2>7. Min({pause, LongestPause}) \in {pause, LongestPause}
    BY <2>6 DEF Min
  <2> QED BY <1>2, <2>2, <2>4, <2>5, <2>7 DEF Pause
<1> QED BY <1>1, <1>2

\* A pause that is over stays over.
LEMMA DueStays ==
  ASSUME NEW p \in Channel, tried[p] \in Ages, fails[p] \in 0 .. MaxFails, Due(p),
         tried'[p] = Older(tried[p]), fails'[p] = fails[p]
  PROVE  Due(p)'
<1>1. fails[p] \in Nat /\ Pause(fails[p]) \in Int
  BY PauseIsNumber, CatalogConstants
<1>2. CASE tried[p] = Never
  BY <1>2 DEF Due, Older
<1>3. CASE tried[p] # Never
  BY <1>1, <1>3, OldestIs DEF Due
<1> QED BY <1>2, <1>3

-----------------------------------------------------------------------------
(* The steps.                                                              *)

ProbeStep ==
  \/ RoundBegins \/ RoundEnds
  \/ \E k \in Known : \/ RoundAsks(k) \/ RoundHears(k) \/ AskNow(k) \/ HearNow(k)
                      \/ TakeOver(k) \/ Refuse(k) \/ Forget(k) \/ Change(k)

LEMMA ProbesLeaveTheList ==
  ASSUME ProbeStep
  PROVE  UNCHANGED <<scene, creds, listVars, moves>>
<1>1. CASE RoundBegins \/ RoundEnds
  BY <1>1, Zenon DEF RoundBegins, RoundEnds
<1>2. ASSUME NEW k \in Known, RoundAsks(k) \/ RoundHears(k)
      PROVE  UNCHANGED <<scene, creds, listVars, moves>>
  BY <1>2, Zenon DEF RoundAsks, RoundHears
<1>3. ASSUME NEW k \in Known, AskNow(k) \/ HearNow(k) \/ TakeOver(k)
      PROVE  UNCHANGED <<scene, creds, listVars, moves>>
  BY <1>3, Zenon DEF AskNow, HearNow, TakeOver
<1>4. ASSUME NEW k \in Known, Refuse(k) \/ Forget(k) \/ Change(k)
      PROVE  UNCHANGED <<scene, creds, listVars, moves>>
  BY <1>4, Zenon DEF Refuse, Forget, Change
<1> QED BY <1>1, <1>2, <1>3, <1>4 DEF ProbeStep

\* A job goes to another row; the rest of the list stays as it is.
LEMMA JobMoves ==
  ASSUME ListTyped, UNCHANGED <<scene, creds, settings, cache, tried, fails, disk>>,
         \A p \in Channel : published'.shown[p] \subseteq Offered(p),
         NEW j \in Job, NEW row \in JobRows, row.todo \subseteq row.conn, job' = [job EXCEPT ![j] = row]
  PROVE  ListTyped'
<1>1. job' \in [Job -> JobRows] /\ \A i \in Job : job'[i].todo \subseteq job'[i].conn
  BY DEF ListTyped
<1> QED BY <1>1 DEF ListTyped, DiskRows, Offered

LEMMA QueuedIsRow ==
  ASSUME creds \subseteq Channel
  PROVE  Queued \in JobRows /\ Queued.todo \subseteq Queued.conn /\ Queued.at = "lock"
BY DEF Queued, JobRows

LEMMA ListKept ==
  ASSUME ListTyped, UNCHANGED <<scene, creds, listVars>>
  PROVE  ListTyped'
BY DEF ListTyped, listVars, DiskRows, Offered

\* The channel in turn has been asked.
LEMMA VisitedTyped ==
  ASSUME ListTyped, NEW j \in Job, NEW tables, Visited(j, tables),
         \A p \in Channel : tables[p] \in scene.offers[p] \cup {{}}
  PROVE  /\ job' \in [Job -> JobRows] /\ \A i \in Job : job'[i].todo \subseteq job'[i].conn
         /\ \A p \in Channel : published'.shown[p] \subseteq Offered(p)
         /\ UNCHANGED <<scene, creds, settings>>
         /\ \A i \in Job : job'[i].at = job[i].at
         /\ \A i \in Job : i # j => job'[i] = job[i]
         /\ job'[j].todo = job[j].todo \ {Foremost(job[j].todo)}
<1>1. job \in [Job -> JobRows] /\ \A i \in Job : job[i].todo \subseteq job[i].conn
  BY DEF ListTyped
<1>2. PICK todo : todo = job[j].todo \ {Foremost(job[j].todo)}
  OBVIOUS
<1>3. job' = [job EXCEPT ![j].todo = todo]
  BY <1>2 DEF Visited
<1>4. \A p \in Channel : published'.shown[p] \subseteq Offered(p)
  BY PublishedTyped DEF Visited
<1>5. todo \subseteq job[j].conn /\ todo \in SUBSET Channel
  BY <1>1, <1>2 DEF JobRows
<1> QED BY <1>1, <1>2, <1>3, <1>4, <1>5 DEF JobRows, Visited

LEMMA FetchedTyped ==
  ASSUME ListTyped, NEW j \in Job, Fetched(j)
  PROVE  ListTyped'
<1>1. PICK p : p = Foremost(job[j].todo)
  OBVIOUS
<1>2. job[j].todo \subseteq Channel /\ job[j].todo # {}
  BY DEF ListTyped, JobRows, Fetched, Walking
<1>3. p \in Channel
  BY <1>1, <1>2, ForemostIsIn
<1>4. PICK table \in scene.offers[p] :
        LET tables == [cache EXCEPT ![p] = table] IN
        /\ cache' = tables
        /\ tried' = [tried EXCEPT ![p] = 0]
        /\ fails' = [fails EXCEPT ![p] = 0]
        /\ \/ disk' = Saved(tables)
           \/ May("lose disk") /\ UNCHANGED disk
        /\ Visited(j, tables)
  BY <1>1 DEF Fetched
<1>5. PICK tables : tables = [cache EXCEPT ![p] = table]
  OBVIOUS
<1>6. DOMAIN tables = Channel /\ \A q \in Channel : tables[q] \in scene.offers[q] \cup {{}}
  BY <1>3, <1>5 DEF ListTyped
<1>7. /\ cache' = tables /\ tried' = [tried EXCEPT ![p] = 0] /\ fails' = [fails EXCEPT ![p] = 0]
      /\ disk' = Saved(tables) \/ disk' = disk
      /\ Visited(j, tables)
  BY <1>4, <1>5
<1>8. /\ job' \in [Job -> JobRows] /\ \A i \in Job : job'[i].todo \subseteq job'[i].conn
      /\ \A q \in Channel : published'.shown[q] \subseteq Offered(q)
      /\ UNCHANGED <<scene, creds, settings>>
  BY <1>6, <1>7, VisitedTyped
<1>9. DOMAIN disk' = Channel /\ \A q \in Channel : disk'[q] \in DiskRows(q)
  <2>1. CASE disk' = Saved(tables)
    BY <1>6, <2>1, OldestIs DEF Saved, DiskRows
  <2>2. CASE disk' = disk
    BY <2>2 DEF ListTyped
  <2> QED BY <1>7, <2>1, <2>2
<1>10. /\ DOMAIN tried' = Channel /\ DOMAIN fails' = Channel
       /\ \A q \in Channel : tried'[q] \in Ages /\ fails'[q] \in 0 .. MaxFails
  BY <1>3, <1>7, OldestIs, CatalogConstants DEF ListTyped
<1>11. scene' \in Scenes /\ creds' \subseteq Channel /\ settings'.aliases \in Seq(AliasRows)
  BY <1>8 DEF ListTyped
<1>12. DOMAIN cache' = Channel /\ \A q \in Channel : cache'[q] \in scene'.offers[q] \cup {{}}
  BY <1>6, <1>7, <1>8
<1>13. \A q \in Channel : disk'[q] \in DiskRows(q)' /\ published'.shown[q] \subseteq Offered(q)'
  BY <1>8, <1>9 DEF DiskRows, Offered
<1> QED BY <1>8, <1>9, <1>10, <1>11, <1>12, <1>13 DEF ListTyped

LEMMA MissedTyped ==
  ASSUME ListTyped, NEW j \in Job, Missed(j)
  PROVE  ListTyped'
<1>1. PICK p : p = Foremost(job[j].todo)
  OBVIOUS
<1>2. job[j].todo \subseteq Channel /\ job[j].todo # {}
  BY DEF ListTyped, JobRows, Missed, Walking
<1>3. p \in Channel
  BY <1>1, <1>2, ForemostIsIn
<1>4. PICK n : n = Min({fails[p] + 1, MaxFails})
  OBVIOUS
<1>5. /\ tried' = [tried EXCEPT ![p] = 0] /\ fails' = [fails EXCEPT ![p] = n]
      /\ Visited(j, cache) /\ UNCHANGED <<cache, disk>>
  BY <1>1, <1>4 DEF Missed
<1>6. n \in 0 .. MaxFails
  <2>1. fails[p] \in 0 .. MaxFails /\ MaxFails \in Nat
    BY <1>3, CatalogConstants DEF ListTyped
  <2>2. {fails[p] + 1, MaxFails} \in SUBSET Nat /\ {fails[p] + 1, MaxFails} # {}
    BY <2>1
  <2>3. n \in {fails[p] + 1, MaxFails} /\ \A y \in {fails[p] + 1, MaxFails} : n <= y
    BY <1>4, <2>2, LeastNumber
  <2> QED BY <2>1, <2>2, <2>3
<1>7. /\ job' \in [Job -> JobRows] /\ \A i \in Job : job'[i].todo \subseteq job'[i].conn
      /\ \A q \in Channel : published'.shown[q] \subseteq Offered(q)
      /\ UNCHANGED <<scene, creds, settings>>
  <2>1. \A q \in Channel : cache[q] \in scene.offers[q] \cup {{}}
    BY DEF ListTyped
  <2> QED BY <1>5, <2>1, VisitedTyped
<1>8. /\ DOMAIN tried' = Channel /\ DOMAIN fails' = Channel
      /\ \A q \in Channel : tried'[q] \in Ages /\ fails'[q] \in 0 .. MaxFails
  BY <1>3, <1>5, <1>6, OldestIs DEF ListTyped
<1> QED BY <1>5, <1>7, <1>8 DEF ListTyped, DiskRows, Offered

LEMMA ListStep ==
  ASSUME ListTyped, CatalogNext
  PROVE  ListTyped'
<1>1. creds \subseteq Channel /\ \A p \in Channel : cache[p] \in scene.offers[p] \cup {{}}
  BY DEF ListTyped
<1>2. \A p \in Channel : published.shown[p] \subseteq Offered(p)
  BY DEF ListTyped
<1>3. \A conn : \A p \in Channel : Published(cache, conn).shown[p] \subseteq Offered(p)
  BY <1>1, PublishedTyped
<1>4. CASE LoopBegins
  <2>1. UNCHANGED <<scene, creds, settings, cache, tried, fails, published, disk>>
        /\ job' = [job EXCEPT !["loop"] = Queued] /\ "loop" \in Job
    BY <1>4 DEF LoopBegins, Job
  <2> QED BY <1>1, <1>2, <2>1, QueuedIsRow, JobMoves
<1>5. CASE Serve
  <2>1. UNCHANGED <<scene, creds, settings, cache, tried, fails, disk>> /\ {"request", "back"} \subseteq Job
        /\ published' \in {published, Published(cache, creds)}
        /\ (job' = job \/ \E j \in {"request", "back"} : job' = [job EXCEPT ![j] = Queued])
    BY <1>5 DEF Serve, Job
  <2>2. \A p \in Channel : published'.shown[p] \subseteq Offered(p)
    BY <1>2, <1>3, <2>1
  <2>3. CASE job' = job
    BY <2>1, <2>2, <2>3 DEF ListTyped, DiskRows, Offered
  <2> QED BY <1>1, <2>1, <2>2, <2>3, QueuedIsRow, JobMoves
<1>6. ASSUME NEW j \in Job, TakeLock(j)
      PROVE  ListTyped'
  <2>1. job[j] \in JobRows
    BY DEF ListTyped
  <2>2. PICK row : row = [job[j] EXCEPT !.at = "walk", !.todo = Walk(j)]
    OBVIOUS
  <2>3. Walk(j) \in SUBSET Channel /\ Walk(j) \subseteq job[j].conn
    BY <2>1 DEF Walk, JobRows
  <2>4. row \in JobRows /\ row.todo \subseteq row.conn
    BY <2>1, <2>2, <2>3 DEF JobRows
  <2>5. job' = [job EXCEPT ![j] = row] /\ UNCHANGED <<scene, creds, settings, cache, tried, fails, published, disk>>
    BY <1>6, <2>2 DEF TakeLock
  <2> QED BY <1>2, <2>4, <2>5, JobMoves
<1>7. ASSUME NEW j \in Job, Walked(j)
      PROVE  ListTyped'
  <2>1. Idle \in JobRows /\ Idle.todo \subseteq Idle.conn
    BY DEF Idle, JobRows
  <2>2. \A p \in Channel : published'.shown[p] \subseteq Offered(p)
    BY <1>2, <1>3, <1>7 DEF Walked
  <2>3. job' = [job EXCEPT ![j] = Idle] /\ UNCHANGED <<scene, creds, settings, cache, tried, fails, disk>>
    BY <1>7 DEF Walked
  <2> QED BY <2>1, <2>2, <2>3, JobMoves
<1>8. CASE ProbeStep
  BY <1>8, ProbesLeaveTheList, ListKept
<1>9. CASE Tick
  <2>1. /\ tried' = [p \in Channel |-> Older(tried[p])]
        /\ disk' = [p \in Channel |-> [disk[p] EXCEPT !.age = Older(@)]]
        /\ UNCHANGED <<scene, creds, settings, cache, fails, published, job>>
    BY <1>9 DEF Tick
  <2>2. \A p \in Channel : disk'[p] \in DiskRows(p) /\ tried'[p] \in Ages
    BY <2>1, OldestIs DEF ListTyped, DiskRows
  <2> QED BY <2>1, <2>2 DEF ListTyped, DiskRows, Offered
<1>10. CASE Configure
  <2>1. PICK banned \in scene.banned, aliases \in scene.aliases :
          settings' = [banned |-> banned, aliases |-> aliases]
    BY <1>10 DEF Configure
  <2>2. settings'.aliases \in Seq(AliasRows)
    BY <2>1, SceneConstants DEF ListTyped
  <2>3. UNCHANGED <<scene, creds, cache, tried, fails, published, disk, job>>
    BY <1>10 DEF Configure
  <2> QED BY <2>2, <2>3 DEF ListTyped, DiskRows, Offered
<1>11. CASE Restart
  <2>1. PICK tables : tables = [p \in Channel |-> IF Restored(p) THEN disk[p].table ELSE {}]
    OBVIOUS
  <2>2. /\ cache' = tables /\ UNCHANGED <<scene, creds, settings, disk>>
        /\ published' \in {Published(tables, creds), Unpublished}
        /\ tried' = [p \in Channel |-> IF Restored(p) THEN disk[p].age ELSE Never]
        /\ fails' = [p \in Channel |-> 0]
        /\ job' = [j \in Job |-> Idle]
    BY <1>11, <2>1 DEF Restart
  <2>3. DOMAIN tables = Channel /\ \A p \in Channel : tables[p] \in scene.offers[p] \cup {{}}
    BY <2>1 DEF ListTyped, DiskRows
  <2>4. \A p \in Channel : published'.shown[p] \subseteq Offered(p)
    <3>1. \A p \in Channel : Published(tables, creds).shown[p] \subseteq Offered(p)
      BY <2>3, PublishedTyped
    <3>2. \A p \in Channel : Unpublished.shown[p] \subseteq Offered(p)
      BY DEF Unpublished
    <3> QED BY <2>2, <3>1, <3>2
  <2>5. \A p \in Channel : tried'[p] \in Ages /\ fails'[p] \in 0 .. MaxFails
    BY <2>2, OldestIs, CatalogConstants DEF ListTyped, DiskRows
  <2>6. job' \in [Job -> JobRows] /\ \A j \in Job : job'[j].todo \subseteq job'[j].conn
    BY <2>2 DEF Idle, JobRows
  <2>7. DOMAIN cache' = Channel /\ DOMAIN tried' = Channel /\ DOMAIN fails' = Channel
    BY <2>2, <2>3
  <2> QED BY <2>2, <2>3, <2>4, <2>5, <2>6, <2>7 DEF ListTyped, DiskRows, Offered
<1>12. ASSUME NEW p \in Channel, Reconnect(p)
       PROVE  ListTyped'
  <2>1. creds' \subseteq Channel /\ UNCHANGED <<scene, listVars>>
    BY <1>1, <1>12 DEF Reconnect
  <2> QED BY <2>1 DEF ListTyped, listVars, DiskRows, Offered
<1> QED BY <1>4, <1>5, <1>6, <1>7, <1>8, <1>9, <1>10, <1>11, <1>12, FetchedTyped, MissedTyped DEF CatalogNext, ProbeStep

LEMMA ProbeKept ==
  ASSUME ProbeTyped, UNCHANGED <<scene, probeVars>>
  PROVE  ProbeTyped'
BY DEF ProbeTyped, probeVars, Known, Offered, Pair

LEMMA HiddenIsKnown == Hidden \subseteq Known
BY DEF Hidden

LEMMA KnownStays ==
  ASSUME UNCHANGED scene
  PROVE  Known' = Known
BY DEF Known, Offered, Pair

LEMMA RecordedTyped ==
  ASSUME ProbeTyped, NEW k \in Known, NEW answer \in Answer(k), Recorded(k, answer)
  PROVE  /\ DOMAIN verdict' = Known /\ refused' \subseteq Known
         /\ \A i \in Known : verdict'[i] \in {"none", "ok", "failed", "inconclusive"}
BY DEF ProbeTyped, Recorded, Answer

LEMMA ProbeStepTyped ==
  ASSUME ProbeTyped, ProbeStep
  PROVE  ProbeTyped'
<1>1. Known' = Known
  BY ProbesLeaveTheList, KnownStays
<1>2. Resting.todo = {} /\ Resting.marked = {} /\ Resting.on = {} /\ Resting.at = "idle"
      /\ DOMAIN Resting = {"at", "todo", "marked", "on"}
  BY DEF Resting
<1>3. CASE RoundBegins
  <2>1. Targets \subseteq Known
    BY HiddenIsKnown DEF Targets, ProbeTyped
  <2>2. round' = [at |-> "walk", todo |-> Targets, marked |-> manual, on |-> {}]
        /\ UNCHANGED <<verdict, manual, refused, gone, asked>>
    BY <1>3 DEF RoundBegins
  <2> QED BY <1>1, <2>1, <2>2 DEF ProbeTyped
<1>4. CASE RoundEnds
  BY <1>1, <1>2, <1>4 DEF RoundEnds, ProbeTyped
<1>5. ASSUME NEW k \in Known, RoundAsks(k)
      PROVE  ProbeTyped'
  BY <1>1, <1>5 DEF RoundAsks, ProbeTyped
<1>6. ASSUME NEW k \in Known, RoundHears(k)
      PROVE  ProbeTyped'
  <2>1. PICK answer \in Answer(k) : Recorded(k, answer)
    BY <1>6 DEF RoundHears
  <2>2. /\ DOMAIN verdict' = Known /\ refused' \subseteq Known
        /\ \A i \in Known : verdict'[i] \in {"none", "ok", "failed", "inconclusive"}
    BY <2>1, RecordedTyped
  <2>3. round' = [round EXCEPT !.on = {}, !.todo = @ \ {k}] /\ UNCHANGED <<manual, gone, asked>>
    BY <1>6 DEF RoundHears
  <2> QED BY <1>1, <2>2, <2>3 DEF ProbeTyped
<1>7. ASSUME NEW k \in Known, HearNow(k)
      PROVE  ProbeTyped'
  <2>1. PICK answer \in Answer(k) : Recorded(k, answer)
    BY <1>7 DEF HearNow
  <2>2. /\ DOMAIN verdict' = Known /\ refused' \subseteq Known
        /\ \A i \in Known : verdict'[i] \in {"none", "ok", "failed", "inconclusive"}
    BY <2>1, RecordedTyped
  <2>3. asked' = {} /\ UNCHANGED <<manual, gone, round>>
    BY <1>7 DEF HearNow
  <2> QED BY <1>1, <2>2, <2>3 DEF ProbeTyped
<1>8. ASSUME NEW k \in Known, AskNow(k) \/ TakeOver(k)
      PROVE  ProbeTyped'
  BY <1>1, <1>8 DEF AskNow, TakeOver, ProbeTyped
<1>9. ASSUME NEW k \in Known, Refuse(k) \/ Forget(k) \/ Change(k)
      PROVE  ProbeTyped'
  BY <1>1, <1>9 DEF Refuse, Forget, Change, ProbeTyped
<1> QED BY <1>3, <1>4, <1>5, <1>6, <1>7, <1>8, <1>9 DEF ProbeStep

\* The steps of the list, but for a restart.
ListStepBut ==
  \/ LoopBegins \/ Serve
  \/ \E j \in Job : TakeLock(j) \/ Fetched(j) \/ Missed(j) \/ Walked(j)
  \/ Tick \/ Configure
  \/ \E p \in Channel : Reconnect(p)

LEMMA ListLeavesTheProbes ==
  ASSUME ListStepBut
  PROVE  UNCHANGED <<scene, probeVars>>
<1>1. CASE LoopBegins \/ Serve
  BY <1>1, Zenon DEF LoopBegins, Serve
<1>2. ASSUME NEW j \in Job, TakeLock(j) \/ Walked(j)
      PROVE  UNCHANGED <<scene, probeVars>>
  BY <1>2, Zenon DEF TakeLock, Walked
<1>3. ASSUME NEW j \in Job, Fetched(j) \/ Missed(j)
      PROVE  UNCHANGED <<scene, probeVars>>
  BY <1>3, Zenon DEF Fetched, Missed, Visited
<1>4. CASE Tick \/ Configure
  BY <1>4, Zenon DEF Tick, Configure
<1>5. ASSUME NEW p \in Channel, Reconnect(p)
      PROVE  UNCHANGED <<scene, probeVars>>
  BY <1>5, Zenon DEF Reconnect
<1> QED BY <1>1, <1>2, <1>3, <1>4, <1>5 DEF ListStepBut

LEMMA ProbeTypedStep ==
  ASSUME ProbeTyped, CatalogNext
  PROVE  ProbeTyped'
<1>1. CASE Restart
  <2>1. /\ round' = Resting /\ asked' = {}
        /\ UNCHANGED <<scene, verdict, manual, refused, gone>>
    BY <1>1 DEF Restart
  <2>2. Known' = Known
    BY <2>1, KnownStays
  <2> QED BY <2>1, <2>2 DEF ProbeTyped, Resting
<1>2. CatalogNext => ListStepBut \/ ProbeStep \/ Restart
  BY Zenon DEF CatalogNext, ListStepBut, ProbeStep
<1> QED BY <1>1, <1>2, ListLeavesTheProbes, ProbeKept, ProbeStepTyped

\* A job that is walking no longer, or does not walk yet, changes nothing for the others.
LEMMA WalkKept ==
  ASSUME WalkInv, UNCHANGED <<tried, fails>>, job \in [Job -> JobRows], NEW j \in Job, NEW row,
         row.at # "walk", job' = [job EXCEPT ![j] = row]
  PROVE  WalkInv'
BY DEF WalkInv, Due

LEMMA AskedOnce ==
  ASSUME ListTyped, WalkInv, NEW j \in Job, Fetched(j) \/ Missed(j)
  PROVE  WalkInv'
<1>1. PICK p : p = Foremost(job[j].todo)
  OBVIOUS
<1>2. job[j].at = "walk" /\ \A q \in Channel : cache[q] \in scene.offers[q] \cup {{}}
  BY DEF ListTyped, Fetched, Missed, Walking
<1>3. /\ \A q \in Channel : q # p => tried'[q] = tried[q] /\ fails'[q] = fails[q]
      /\ \E tables : Visited(j, tables) /\ \A q \in Channel : tables[q] \in scene.offers[q] \cup {{}}
  <2>1. CASE Fetched(j)
    <3>1. PICK table \in scene.offers[p] :
            /\ tried' = [tried EXCEPT ![p] = 0] /\ fails' = [fails EXCEPT ![p] = 0]
            /\ Visited(j, [cache EXCEPT ![p] = table])
      BY <1>1, <2>1 DEF Fetched
    <3>2. \A q \in Channel : [cache EXCEPT ![p] = table][q] \in scene.offers[q] \cup {{}}
      BY <1>2, <3>1 DEF ListTyped
    <3>3. \A q \in Channel : q # p => tried'[q] = tried[q] /\ fails'[q] = fails[q]
      BY <3>1 DEF ListTyped
    <3> QED BY <3>1, <3>2, <3>3
  <2>2. CASE Missed(j)
    <3>1. PICK n : n = Min({fails[p] + 1, MaxFails})
      OBVIOUS
    <3>2. tried' = [tried EXCEPT ![p] = 0] /\ fails' = [fails EXCEPT ![p] = n] /\ Visited(j, cache)
      BY <1>1, <2>2, <3>1 DEF Missed
    <3>3. \A q \in Channel : q # p => tried'[q] = tried[q] /\ fails'[q] = fails[q]
      BY <3>2 DEF ListTyped
    <3> QED BY <1>2, <3>2, <3>3
  <2> QED BY <2>1, <2>2
<1>4. PICK tables : Visited(j, tables) /\ \A q \in Channel : tables[q] \in scene.offers[q] \cup {{}}
  BY <1>3
<1>5. /\ \A i \in Job : job'[i].at = job[i].at
      /\ \A i \in Job : i # j => job'[i] = job[i]
      /\ job'[j].todo = job[j].todo \ {p} /\ job[j].todo \subseteq Channel
  BY <1>1, <1>4, VisitedTyped DEF ListTyped, JobRows
<1>6. \A i, k \in Job : job[i].at = "walk" /\ job[k].at = "walk" => i = k
  BY DEF WalkInv
<1>7. \A q \in job[j].todo : Due(q)
  BY <1>2 DEF WalkInv
<1>8. ASSUME NEW i \in Job, job'[i].at = "walk", NEW q \in job'[i].todo
      PROVE  Due(q)'
  <2>1. i = j
    BY <1>2, <1>5, <1>6, <1>8
  <2>2. q \in job[j].todo /\ q # p /\ q \in Channel
    BY <1>5, <1>8, <2>1
  <2> QED BY <1>3, <1>7, <2>2 DEF Due
<1> QED BY <1>5, <1>6, <1>8 DEF WalkInv

LEMMA WalkStep ==
  ASSUME ListTyped, WalkInv, CatalogNext
  PROVE  WalkInv'
<1>1. job \in [Job -> JobRows] /\ creds \subseteq Channel
  BY DEF ListTyped
<1>2. Queued.at = "lock" /\ Idle.at = "idle" /\ Job = {"loop", "request", "back"}
  BY DEF Queued, Idle, Job
<1>3. CASE LoopBegins
  BY <1>1, <1>2, <1>3, WalkKept DEF LoopBegins
<1>4. CASE Serve
  <2>1. UNCHANGED <<tried, fails>> /\ (job' = job \/ \E j \in {"request", "back"} : job' = [job EXCEPT ![j] = Queued])
    BY <1>4 DEF Serve
  <2>2. CASE job' = job
    BY <2>1, <2>2 DEF WalkInv, Due
  <2> QED BY <1>1, <1>2, <2>1, <2>2, WalkKept
<1>5. ASSUME NEW j \in Job, TakeLock(j)
      PROVE  WalkInv'
  <2>1. \A i \in Job : job[i].at # "walk"
    BY <1>5 DEF TakeLock, LockFree
  <2>2. PICK todo : todo = Walk(j)
    OBVIOUS
  <2>3. job' = [job EXCEPT ![j].at = "walk", ![j].todo = todo] /\ UNCHANGED <<tried, fails>>
    BY <1>5, <2>2 DEF TakeLock
  <2>4. \A i \in Job : job'[i].at = "walk" => i = j /\ job'[i].todo = todo
    BY <1>1, <2>1, <2>3 DEF JobRows
  <2>5. \A p \in todo : Due(p)
    BY <2>2 DEF Walk
  <2>6. \A p \in todo : Due(p)'
    BY <2>3, <2>5 DEF Due
  <2> QED BY <2>4, <2>6 DEF WalkInv
<1>6. ASSUME NEW j \in Job, Walked(j)
      PROVE  WalkInv'
  BY <1>1, <1>2, <1>6, WalkKept DEF Walked
<1>7. CASE ProbeStep
  <2>1. UNCHANGED <<job, tried, fails>>
    BY <1>7, ProbesLeaveTheList DEF listVars
  <2> QED BY <2>1 DEF WalkInv, Due
<1>8. CASE Tick
  <2>1. tried' = [p \in Channel |-> Older(tried[p])] /\ UNCHANGED <<fails, job>>
    BY <1>8 DEF Tick
  <2>2. ASSUME NEW j \in Job, job[j].at = "walk", NEW p \in job[j].todo
        PROVE  Due(p)'
    <3>1. p \in Channel /\ Due(p)
      BY <1>1, <2>2 DEF WalkInv, JobRows
    <3>2. tried[p] \in Ages /\ fails[p] \in 0 .. MaxFails /\ tried'[p] = Older(tried[p]) /\ fails'[p] = fails[p]
      BY <2>1, <3>1 DEF ListTyped
    <3> QED BY <3>1, <3>2, DueStays
  <2> QED BY <2>1, <2>2 DEF WalkInv
<1>9. CASE Configure
  <2>1. UNCHANGED <<job, tried, fails>>
    BY <1>9 DEF Configure
  <2> QED BY <2>1 DEF WalkInv, Due
<1>10. CASE Restart
  <2>1. job' = [j \in Job |-> Idle]
    BY <1>10 DEF Restart
  <2> QED BY <1>2, <2>1 DEF WalkInv
<1>11. ASSUME NEW p \in Channel, Reconnect(p)
       PROVE  WalkInv'
  <2>1. UNCHANGED <<job, tried, fails>>
    BY <1>11 DEF Reconnect, listVars
  <2> QED BY <2>1 DEF WalkInv, Due
<1> QED BY <1>3, <1>4, <1>5, <1>6, <1>7, <1>8, <1>9, <1>10, <1>11, AskedOnce DEF CatalogNext, ProbeStep

LEMMA CatalogBegins ==
  ASSUME CatalogInit
  PROVE  CatalogInv
<1>1. ListTyped
  <2>1. creds \subseteq Channel /\ scene \in Scenes /\ <<>> \in Seq(AliasRows) /\ settings.aliases = <<>>
    BY DEF CatalogInit
  <2>2. \A p \in Channel : /\ cache[p] = {} /\ tried[p] = Never /\ fails[p] = 0
                           /\ disk[p] \in DiskRows(p) /\ published.shown[p] = {}
    BY OldestIs DEF CatalogInit, DiskRows, Unpublished
  <2>3. \A j \in Job : job[j] \in JobRows /\ job[j].todo \subseteq job[j].conn
    BY DEF CatalogInit, Idle, JobRows
  <2>4. /\ DOMAIN cache = Channel /\ DOMAIN tried = Channel /\ DOMAIN fails = Channel /\ DOMAIN disk = Channel
        /\ job = [j \in Job |-> Idle]
    BY DEF CatalogInit
  <2>5. MaxFails \in Nat
    BY CatalogConstants
  <2> QED BY <2>1, <2>2, <2>3, <2>4, <2>5, OldestIs DEF ListTyped
<1>2. ProbeTyped
  BY DEF CatalogInit, ProbeTyped, Resting
<1>3. WalkInv
  BY DEF CatalogInit, WalkInv, Idle
<1> QED BY <1>1, <1>2, <1>3 DEF CatalogInv

LEMMA CatalogGoesOn ==
  ASSUME CatalogInv, [CatalogNext]_catalogVars
  PROVE  CatalogInv'
<1>1. CASE CatalogNext
  BY <1>1, ListStep, ProbeTypedStep, WalkStep DEF CatalogInv
<1>2. CASE UNCHANGED catalogVars
  <2>1. UNCHANGED <<scene, creds, listVars, probeVars>> /\ UNCHANGED <<job, tried, fails>>
    BY <1>2 DEF catalogVars, listVars
  <2>2. WalkInv'
    BY <2>1 DEF CatalogInv, WalkInv, Due
  <2> QED BY <2>1, <2>2, ListKept, ProbeKept DEF CatalogInv
<1> QED BY <1>1, <1>2

LEMMA CatalogHasTypes ==
  ASSUME CatalogInv
  PROVE  CatalogTypeOK
<1>1. \A p \in Channel :
        /\ cache[p] \in scene.offers[p] \cup {{}} /\ disk[p].table \in scene.offers[p] \cup {{}}
        /\ {tried[p], disk[p].age} \subseteq 0 .. Oldest \cup {Never}
        /\ fails[p] \in 0 .. MaxFails
        /\ published.shown[p] \subseteq Offered(p)
  BY DEF CatalogInv, ListTyped, DiskRows, Ages
<1>2. \A j \in Job : /\ job[j].at \in {"idle", "lock", "walk"}
                     /\ job[j].conn \subseteq Channel /\ job[j].todo \subseteq job[j].conn
  BY DEF CatalogInv, ListTyped, JobRows
<1> QED BY <1>1, <1>2 DEF CatalogTypeOK, CatalogInv, ListTyped, ProbeTyped

LEMMA CatalogHolds == CatalogSpec => []CatalogInv
BY CatalogBegins, CatalogGoesOn, PTL DEF CatalogSpec

\* Whatever is fetched, missed, restored, probed or configured in whatever order, every
\* variable keeps its type: above all nothing is cached or published of a channel but
\* what it has offered (models.py).
THEOREM CatalogTyped == CatalogSpec => []CatalogTypeOK
BY CatalogHolds, CatalogHasTypes, PTL

\* However many jobs queue for the lock and however long they hold it: a channel is asked
\* only when its pause is over since it was asked before (models.py, _needs_refresh
\* under the lock of _refresh_providers).
THEOREM ChannelsStaySpared == CatalogSpec => ChannelsSpared
<1>1. ASSUME CatalogInv, NEW j \in Job, job[j].at = "walk", [CatalogNext]_catalogVars,
             job'[j].at = "walk", job'[j].todo # job[j].todo
      PROVE  Due(Foremost(job[j].todo))
  <2>1. job[j].todo \in SUBSET Channel /\ \A p \in job[j].todo : Due(p)
    BY <1>1 DEF CatalogInv, ListTyped, WalkInv, JobRows
  <2>2. job[j].todo # {}
    <3>1. SUFFICES ASSUME job[j].todo = {}
                   PROVE  FALSE
      OBVIOUS
    <3>2. job \in [Job -> JobRows] /\ \A i \in Job : job[i].at = "walk" => i = j
      BY <1>1 DEF CatalogInv, ListTyped, WalkInv
    <3>3. \A i \in Job : ~TakeLock(i) /\ ~Fetched(i) /\ ~Missed(i)
      BY <1>1, <3>1, <3>2 DEF TakeLock, LockFree, Fetched, Missed, Walking
    <3>4. job'[j] # job[j] /\ job'[j] # Idle
      BY <1>1 DEF Idle
    <3>5. ~Restart
      BY <3>4 DEF Restart
    <3>6. ~LoopBegins /\ ~Serve
      BY <1>1, <3>2, <3>4 DEF LoopBegins, Serve, Queued
    <3>7. \A i \in Job : ~Walked(i)
      BY <3>2, <3>4 DEF Walked
    <3>8. ~ProbeStep
      BY <3>4, ProbesLeaveTheList DEF listVars
    <3>9. ~Tick /\ ~Configure /\ \A p \in Channel : ~Reconnect(p)
      BY <3>4 DEF Tick, Configure, Reconnect, listVars
    <3>10. ~UNCHANGED catalogVars
      BY <3>4 DEF catalogVars, listVars
    <3> QED BY <1>1, <3>3, <3>5, <3>6, <3>7, <3>8, <3>9, <3>10, Zenon DEF CatalogNext, ProbeStep
  <2> QED BY <2>1, <2>2, ForemostIsIn
<1>2. CatalogInv /\ [CatalogNext]_catalogVars
        => [\A j \in Job : job[j].at = "walk" /\ job'[j].at = "walk" /\ job'[j].todo # job[j].todo
              => Due(Foremost(job[j].todo))]_catalogVars
  BY <1>1
<1> QED BY CatalogHolds, <1>2, PTL DEF CatalogSpec, ChannelsSpared

-----------------------------------------------------------------------------
(* Finite sets and their orders.                                           *)

LEMMA ImageIsFinite ==
  ASSUME NEW S, IsFiniteSet(S), NEW f, DOMAIN f = S
  PROVE  /\ IsFiniteSet({f[x] : x \in S})
         /\ Cardinality({f[x] : x \in S}) <= Cardinality(S)
         /\ (\A x, y \in S : f[x] = f[y] => x = y) => Cardinality({f[x] : x \in S}) = Cardinality(S)
<1> DEFINE T == {f[x] : x \in S}
           g == [x \in S |-> f[x]]
<1>1. g \in Surjection(S, T)
  BY DEF Surjection
<1>2. (\A x, y \in S : f[x] = f[y] => x = y) => g \in Injection(S, T)
  <2>1. g \in [S -> T]
    BY Zenon
  <2>2. \A x \in S : g[x] = f[x]
    OBVIOUS
  <2> HIDE DEF g, T
  <2> QED BY <2>1, <2>2 DEF Injection, IsInjective
<1>3. /\ IsFiniteSet(T) /\ Cardinality(T) <= Cardinality(S)
      /\ Cardinality(T) = Cardinality(S) <=> g \in Injection(S, T)
  <2> HIDE DEF T, g
  <2> QED BY <1>1, FS_Surjection
<1> QED BY <1>2, <1>3

LEMMA GreatestExists ==
  ASSUME NEW S \in SUBSET Nat, IsFiniteSet(S), S # {}
  PROVE  \E x \in S : \A y \in S : y <= x
<1> DEFINE Tops(T) == {x \in T : \A y \in T : y <= x}
           Bad == {n \in Nat : \E T \in SUBSET S : T # {} /\ Cardinality(T) = n /\ Tops(T) = {}}
<1>1. ASSUME Bad # {}
      PROVE  FALSE
  <2>1. Bad \in SUBSET Nat
    OBVIOUS
  <2>2. PICK n : n \in Bad /\ \A k \in Bad : n <= k
    <3> HIDE DEF Bad
    <3> QED BY <1>1, <2>1, LeastNumber
  <2>3. PICK T \in SUBSET S : T # {} /\ Cardinality(T) = n /\ Tops(T) = {}
    BY <2>2
  <2>4. PICK x : x \in T
    BY <2>3
  <2>5. IsFiniteSet(T) /\ Cardinality(T) \in Nat
    BY FS_Subset, FS_CardinalityType
  <2>6. IsFiniteSet(T \ {x}) /\ Cardinality(T \ {x}) = n - 1 /\ Cardinality(T \ {x}) \in Nat
    BY <2>3, <2>4, <2>5, FS_RemoveElement, FS_CardinalityType
  <2>7. n - 1 \notin Bad
    <3>1. n \in Nat /\ ~(n <= n - 1)
      BY <2>2
    <3> HIDE DEF Bad
    <3> QED BY <2>2, <3>1
  <2>8. T \ {x} \in SUBSET S /\ (T \ {x} = {} \/ Tops(T \ {x}) # {})
    BY <2>6, <2>7
  <2>9. CASE T \ {x} = {}
    <3>1. \A y \in T : y = x /\ y <= x
      BY <2>4, <2>9
    <3> QED BY <2>3, <2>4, <3>1
  <2>10. CASE Tops(T \ {x}) # {}
    <3>1. PICK z \in T \ {x} : \A y \in T \ {x} : y <= z
      BY <2>10
    <3>2. x \in Nat /\ z \in Nat
      BY <2>4
    <3>3. CASE x <= z
      <4>1. \A y \in T : y <= z
        BY <3>1, <3>3
      <4> QED BY <2>3, <3>1, <4>1
    <3>4. CASE ~(x <= z)
      <4>1. \A y \in T \ {x} : y \in Nat /\ y <= x
        BY <3>1, <3>2, <3>4
      <4>2. \A y \in T : y <= x
        BY <3>2, <4>1
      <4> QED BY <2>3, <2>4, <4>2
    <3> QED BY <3>3, <3>4
  <2> QED BY <2>8, <2>9, <2>10
<1>2. Cardinality(S) \in Nat /\ Cardinality(S) \notin Bad
  <2>1. Cardinality(S) \in Nat
    BY FS_CardinalityType
  <2> HIDE DEF Bad
  <2> QED BY <1>1, <2>1
<1>3. Tops(S) # {}
  BY <1>2
<1> QED BY <1>3

\* In a finite set in a strict order of all of it, every rank is some element's.
LEMMA EveryRankIsTaken ==
  ASSUME NEW S, IsFiniteSet(S), NEW R,
         \A e \in S : <<e, e>> \notin R,
         \A e, f \in S : e # f => <<e, f>> \in R \/ <<f, e>> \in R,
         \A e, f, g \in S : <<e, f>> \in R /\ <<f, g>> \in R => <<e, g>> \in R,
         NEW i \in 1 .. Cardinality(S)
  PROVE  \E e \in S : Cardinality({f \in S : <<f, e>> \in R}) = i - 1
<1> DEFINE Below(e) == {f \in S : <<f, e>> \in R}
           rank == [e \in S |-> Cardinality(Below(e))]
           n == Cardinality(S)
<1>1. n \in Nat
  BY FS_CardinalityType
<1>2. ASSUME NEW e \in S
      PROVE  IsFiniteSet(Below(e)) /\ rank[e] \in 0 .. n - 1
  <2>1. Below(e) \in SUBSET (S \ {e})
    OBVIOUS
  <2>2. IsFiniteSet(S \ {e}) /\ Cardinality(S \ {e}) = n - 1
    BY FS_RemoveElement
  <2>3. IsFiniteSet(Below(e)) /\ Cardinality(Below(e)) <= n - 1 /\ Cardinality(Below(e)) \in Nat
    <3> HIDE DEF Below, n
    <3>1. IsFiniteSet(Below(e)) /\ Cardinality(Below(e)) <= n - 1
      BY <2>1, <2>2, FS_Subset
    <3> QED BY <3>1, FS_CardinalityType
  <2> QED BY <1>1, <2>3
<1>3. ASSUME NEW e \in S, NEW f \in S, <<e, f>> \in R
      PROVE  rank[e] # rank[f]
  <2>1. Below(e) \in SUBSET Below(f) /\ e \in Below(f) /\ e \notin Below(e)
    BY <1>3
  <2>2. Cardinality(Below(f)) # Cardinality(Below(e))
    <3>1. IsFiniteSet(Below(f))
      BY <1>2
    <3>2. Below(e) # Below(f)
      BY <2>1
    <3> HIDE DEF Below
    <3> QED BY <2>1, <3>1, <3>2, FS_Subset
  <2> QED BY <2>2
<1>4. \A e, f \in S : rank[e] = rank[f] => e = f
  <2> HIDE DEF rank
  <2> QED BY <1>3
<1> DEFINE T == {rank[e] : e \in S}
<1>5. IsFiniteSet(T) /\ Cardinality(T) = n
  <2>1. DOMAIN rank = S
    OBVIOUS
  <2> HIDE DEF rank
  <2> QED BY <1>4, <2>1, ImageIsFinite
<1>6. T \in SUBSET (0 .. n - 1)
  <2>1. \A e \in S : rank[e] \in 0 .. n - 1
    BY <1>2
  <2> HIDE DEF rank, n
  <2> QED BY <2>1
<1>7. IsFiniteSet(0 .. n - 1) /\ Cardinality(0 .. n - 1) = n
  <2>1. n - 1 \in Int /\ (IF 0 > n - 1 THEN 0 ELSE (n - 1) - 0 + 1) = n
    BY <1>1
  <2> QED BY <2>1, FS_Interval
<1>8. T = 0 .. n - 1
  <2> HIDE DEF T, n
  <2> QED BY <1>5, <1>6, <1>7, FS_Subset
<1>9. i - 1 \in 0 .. n - 1
  BY <1>1
<1>10. PICK e \in S : rank[e] = i - 1
  <2> HIDE DEF rank, n
  <2> QED BY <1>8, <1>9
<1> QED BY <1>10

-----------------------------------------------------------------------------
(* Models merged: what an entry holds, and the order of the entries.       *)

TablesRight(tables) ==
  \A p \in Channel :
    IsFiniteSet(tables[p]) /\ \A m \in tables[p] : m.raw \in Nat /\ m.key \in Nat /\ m.label \in Nat

Entries(tables) == {Entry(Rows(tables), k) : k \in {r.under[1] : r \in Rows(tables)}}

EntryRight(tables, e) ==
  /\ In(e) # {} /\ In(e) \subseteq Channel
  /\ \A p \in In(e) : e.model[p] \in tables[p]
  /\ e.key[1] \in Nat /\ e.key[2] \in Nat /\ e.key = <<e.key[1], e.key[2]>>
  /\ e.key[2] # 0 => \A p \in In(e) : Rank(p) = e.key[2]

LEMMA KeysRight ==
  ASSUME NEW tables, TablesRight(tables), NEW p \in Channel, NEW m \in tables[p],
         NEW k, k = MergeKey(m, p, tables[p])[1]
  PROVE  k[1] \in Nat /\ k[2] \in Nat /\ k = <<k[1], k[2]>> /\ (k[2] # 0 => Rank(p) = k[2])
<1>1. m.key \in Nat /\ m.label \in Nat /\ Rank(p) \in Nat
  BY Ranked, MergeConstants DEF TablesRight
<1>2. k \in {<<m.key, Rank(p)>>, Plain(m.key), Plain(m.label)}
  BY DEF MergeKey
<1> QED BY <1>1, <1>2 DEF Plain

LEMMA RowsRight ==
  ASSUME NEW tables, TablesRight(tables), NEW r \in Rows(tables)
  PROVE  /\ r.at \in Channel /\ r.model \in tables[r.at]
         /\ r.under[1] = MergeKey(r.model, r.at, tables[r.at])[1]
BY DEF Rows

LEMMA LatestIsIn ==
  ASSUME NEW M, IsFiniteSet(M), M # {}, \A m \in M : m.raw \in Nat
  PROVE  Latest(M) \in M
<1> DEFINE raw == [m \in M |-> m.raw]
           T == {raw[m] : m \in M}
<1>1. T \in SUBSET Nat /\ T # {}
  OBVIOUS
<1>2. IsFiniteSet(T)
  <2>1. DOMAIN raw = M
    OBVIOUS
  <2> HIDE DEF raw
  <2> QED BY <2>1, ImageIsFinite
<1>3. PICK x \in T : \A y \in T : y <= x
  <2> HIDE DEF T
  <2> QED BY <1>1, <1>2, GreatestExists
<1>4. PICK m \in M : raw[m] = x
  BY <1>3
<1>5. \A o \in M : o.raw <= m.raw
  BY <1>3, <1>4
<1> QED BY <1>5 DEF Latest

LEMMA EntriesRight ==
  ASSUME NEW tables, TablesRight(tables), NEW e \in Entries(tables)
  PROVE  EntryRight(tables, e) /\ e = Entry(Rows(tables), e.key)
<1>1. PICK row \in Rows(tables) : e = Entry(Rows(tables), row.under[1])
  BY DEF Entries
<1>2. PICK k : k = row.under[1]
  OBVIOUS
<1> DEFINE of == {r \in Rows(tables) : r.under[1] = k}
           in == {r.at : r \in of}
           models(p) == {r.model : r \in {s \in of : s.at = p}}
<1>3. e.key = k /\ e.model = [p \in in |-> Latest(models(p))]
  BY <1>1, <1>2 DEF Entry
<1>4. \A r \in of : /\ r.at \in Channel /\ r.model \in tables[r.at]
                    /\ k = MergeKey(r.model, r.at, tables[r.at])[1]
  BY RowsRight
<1>5. row \in of /\ row.at \in in
  BY <1>2
<1>6. In(e) = in /\ in # {} /\ in \subseteq Channel
  BY <1>3, <1>4, <1>5 DEF In
<1>7. ASSUME NEW p \in in
      PROVE  e.model[p] \in tables[p]
  <2>1. models(p) # {} /\ models(p) \subseteq tables[p] /\ p \in Channel
    BY <1>4
  <2>2. IsFiniteSet(tables[p]) /\ \A m \in tables[p] : m.raw \in Nat
    BY <2>1 DEF TablesRight
  <2>3. IsFiniteSet(models(p)) /\ \A m \in models(p) : m.raw \in Nat
    <3> HIDE DEF models
    <3> QED BY <2>1, <2>2, FS_Subset
  <2>4. Latest(models(p)) \in models(p)
    <3> HIDE DEF models
    <3> QED BY <2>1, <2>3, LatestIsIn
  <2> QED BY <1>3, <2>1, <2>4
<1>8. \A r \in of : k[1] \in Nat /\ k[2] \in Nat /\ k = <<k[1], k[2]>> /\ (k[2] # 0 => Rank(r.at) = k[2])
  <2> HIDE DEF of
  <2> QED BY <1>4, KeysRight
<1>9. k[2] # 0 => \A p \in in : Rank(p) = k[2]
  BY <1>8
<1>10. k[1] \in Nat /\ k[2] \in Nat /\ k = <<k[1], k[2]>>
  BY <1>5, <1>8
<1>11. EntryRight(tables, e)
  <2> HIDE DEF in, of
  <2> QED BY <1>3, <1>6, <1>7, <1>9, <1>10 DEF EntryRight
<1> QED BY <1>1, <1>2, <1>3, <1>11

LEMMA EntriesAreFinite ==
  ASSUME NEW tables, TablesRight(tables)
  PROVE  IsFiniteSet(Entries(tables))
<1> DEFINE rowsOf(p) == {[at |-> p, model |-> m, under |-> MergeKey(m, p, tables[p])] : m \in tables[p]}
           parts == [p \in Channel |-> rowsOf(p)]
           Parts == {parts[p] : p \in Channel}
<1>1. IsFiniteSet(Channel)
  <2>1. IsFiniteSet(1 .. Len(Channels)) /\ DOMAIN Channels = 1 .. Len(Channels)
    BY FS_Interval, MergeConstants
  <2> QED BY <2>1, ImageIsFinite, Zenon DEF Channel
<1>2. ASSUME NEW p \in Channel
      PROVE  IsFiniteSet(parts[p])
  <2> DEFINE row == [m \in tables[p] |-> [at |-> p, model |-> m, under |-> MergeKey(m, p, tables[p])]]
  <2>1. DOMAIN row = tables[p] /\ IsFiniteSet(tables[p])
    BY DEF TablesRight
  <2>2. IsFiniteSet({row[m] : m \in tables[p]})
    <3> HIDE DEF row
    <3> QED BY <2>1, ImageIsFinite
  <2>3. parts[p] = {row[m] : m \in tables[p]}
    OBVIOUS
  <2> QED BY <2>2, <2>3
<1>3. IsFiniteSet(Parts) /\ \A T \in Parts : IsFiniteSet(T)
  <2>1. DOMAIN parts = Channel
    OBVIOUS
  <2> HIDE DEF parts
  <2> QED BY <1>1, <1>2, <2>1, ImageIsFinite
<1>4. UNION Parts = Rows(tables)
  BY DEF Rows
<1>5. IsFiniteSet(Rows(tables))
  <2> HIDE DEF Parts
  <2> QED BY <1>3, <1>4, FS_UNION
<1> DEFINE entry == [r \in Rows(tables) |-> Entry(Rows(tables), r.under[1])]
<1>6. IsFiniteSet({entry[r] : r \in Rows(tables)})
  <2>1. DOMAIN entry = Rows(tables)
    OBVIOUS
  <2> HIDE DEF entry
  <2> QED BY <1>5, <2>1, ImageIsFinite
<1>7. Entries(tables) = {entry[r] : r \in Rows(tables)}
  BY DEF Entries
<1> QED BY <1>6, <1>7

LEMMA OrderOfEntries ==
  ASSUME NEW tables, TablesRight(tables)
  PROVE  /\ \A e \in Entries(tables) : ~Precedes(e, e)
         /\ \A e, f \in Entries(tables) : e # f => Precedes(e, f) \/ Precedes(f, e)
         /\ \A e, f, g \in Entries(tables) : Precedes(e, f) /\ Precedes(f, g) => Precedes(e, g)
<1>1. \A e \in Entries(tables) :
        /\ Rank(First(e)) \in Nat /\ e.key[1] \in Nat /\ e.key[2] \in Nat
        /\ e.key = <<e.key[1], e.key[2]>>
        /\ e.key[2] # 0 => Rank(First(e)) = e.key[2]
  <2>1. SUFFICES ASSUME NEW e \in Entries(tables)
                 PROVE  /\ Rank(First(e)) \in Nat /\ e.key[1] \in Nat /\ e.key[2] \in Nat
                        /\ e.key = <<e.key[1], e.key[2]>>
                        /\ e.key[2] # 0 => Rank(First(e)) = e.key[2]
    OBVIOUS
  <2>2. EntryRight(tables, e)
    BY EntriesRight
  <2>3. First(e) \in In(e) /\ First(e) \in Channel
    BY <2>2, ForemostIsIn DEF First, EntryRight
  <2>4. Rank(First(e)) \in Nat
    BY <2>3, Ranked, MergeConstants
  <2> QED BY <2>2, <2>3, <2>4 DEF EntryRight
<1>2. \A e, f \in Entries(tables) : e.key = f.key => e = f
  BY EntriesRight
<1>3. ASSUME NEW e \in Entries(tables), NEW f \in Entries(tables), e # f
      PROVE  Precedes(e, f) \/ Precedes(f, e)
  <2>1. e.key[1] # f.key[1] \/ e.key[2] # f.key[2]
    BY <1>1, <1>2, <1>3
  <2>2. Rank(First(e)) = Rank(First(f)) /\ e.key[2] # 0 /\ f.key[2] # 0 => e.key[1] # f.key[1]
    BY <1>1, <2>1
  <2> QED BY <1>1, <2>1, <2>2 DEF Precedes
<1>4. ASSUME NEW e \in Entries(tables), NEW f \in Entries(tables), NEW g \in Entries(tables),
             Precedes(e, f), Precedes(f, g)
      PROVE  Precedes(e, g)
  BY <1>1, <1>4 DEF Precedes
<1>5. \A e \in Entries(tables) : ~Precedes(e, e)
  BY <1>1 DEF Precedes
<1> QED BY <1>3, <1>4, <1>5

LEMMA MergedAreEntries ==
  ASSUME NEW tables, TablesRight(tables)
  PROVE  /\ Cardinality(Entries(tables)) \in Nat
         /\ DOMAIN Merged(tables) = 1 .. Cardinality(Entries(tables))
         /\ \A i \in 1 .. Cardinality(Entries(tables)) : Merged(tables)[i] \in Entries(tables)
<1> DEFINE S == Entries(tables)
           R == {x \in S \X S : Precedes(x[1], x[2])}
<1>1. IsFiniteSet(S) /\ Cardinality(S) \in Nat
  BY EntriesAreFinite, FS_CardinalityType
<1>2. Merged(tables) = [i \in 1 .. Cardinality(S) |->
                          CHOOSE e \in S : Cardinality({f \in S : Precedes(f, e)}) = i - 1]
  BY DEF Merged, Entries
<1>3. \A e, f \in S : <<e, f>> \in R <=> Precedes(e, f)
  <2> HIDE DEF S
  <2> QED OBVIOUS
<1>4. \A e \in S : {f \in S : <<f, e>> \in R} = {f \in S : Precedes(f, e)}
  <2> HIDE DEF S, R
  <2> QED BY <1>3
<1>5. ASSUME NEW i \in 1 .. Cardinality(S)
      PROVE  \E e \in S : Cardinality({f \in S : Precedes(f, e)}) = i - 1
  <2>1. /\ \A e \in S : <<e, e>> \notin R
        /\ \A e, f \in S : e # f => <<e, f>> \in R \/ <<f, e>> \in R
        /\ \A e, f, g \in S : <<e, f>> \in R /\ <<f, g>> \in R => <<e, g>> \in R
    <3>1. /\ \A e \in S : ~Precedes(e, e)
          /\ \A e, f \in S : e # f => Precedes(e, f) \/ Precedes(f, e)
          /\ \A e, f, g \in S : Precedes(e, f) /\ Precedes(f, g) => Precedes(e, g)
      BY OrderOfEntries
    <3> HIDE DEF S, R
    <3> QED BY <1>3, <3>1
  <2>2. PICK e \in S : Cardinality({f \in S : <<f, e>> \in R}) = i - 1
    <3> HIDE DEF S, R
    <3> QED BY <1>1, <2>1, EveryRankIsTaken
  <2> QED BY <1>4, <2>2
<1>6. \A i \in 1 .. Cardinality(S) : Merged(tables)[i] \in S
  <2> HIDE DEF S
  <2> QED BY <1>2, <1>5
<1>7. DOMAIN Merged(tables) = 1 .. Cardinality(S)
  <2> HIDE DEF S
  <2> QED BY <1>2
<1> QED BY <1>1, <1>6, <1>7

-----------------------------------------------------------------------------
(* Ids that tell the entries apart.                                        *)

LEMMA SettledIsFree ==
  ASSUME NEW e, NEW taken, IsFiniteSet(taken)
  PROVE  Settled(e, taken) \notin taken
<1> DEFINE names == <<Finalized(e)>> \o Fallbacks(e)
           free == {i \in DOMAIN names : names[i] \notin taken}
           name == Finalized(e)[1]
           n == Cardinality(taken)
           L == Len(Channels)
<1>1. n \in Nat /\ L \in Nat
  BY FS_CardinalityType, MergeConstants
<1>2. CASE free # {}
  <2>1. \A a, b, c : <<a>> \o <<b, c>> \in Seq({a, b, c})
    OBVIOUS
  <2>2. PICK S : names \in Seq(S)
    BY <2>1 DEF Fallbacks
  <2>3. Min(free) \in free
    <3>1. free \in SUBSET Nat
      <4> HIDE DEF names
      <4> QED BY <2>2
    <3> HIDE DEF free
    <3> QED BY <1>2, <3>1, LeastNumber
  <2>4. Settled(e, taken) = names[Min(free)]
    BY <1>2 DEF Settled
  <2> HIDE DEF names
  <2> QED BY <2>3, <2>4
<1>3. CASE free = {}
  <2> DEFINE Used == {i \in 1 .. n + 1 : <<name, L + i>> \in taken}
             Left == {i \in 1 .. n + 1 : <<name, L + i>> \notin taken}
             pair == [i \in Used |-> <<name, L + i>>]
  <2> HIDE DEF name
  <2>1. Cardinality(Used) <= n /\ Cardinality(Used) \in Nat
    <3>1. pair \in Injection(Used, taken)
      <4>1. pair \in [Used -> taken]
        OBVIOUS
      <4>2. \A i, j \in Used : pair[i] = pair[j] => i = j
        BY <1>1
      <4> HIDE DEF pair, Used
      <4> QED BY <4>1, <4>2 DEF Injection, IsInjective
    <3> HIDE DEF pair, Used
    <3> QED BY <3>1, FS_Injection, FS_CardinalityType
  <2>2. Left # {}
    <3>1. Cardinality(1 .. n + 1) = n + 1
      <4>1. (IF 1 > n + 1 THEN 0 ELSE (n + 1) - 1 + 1) = n + 1 /\ n + 1 \in Int
        BY <1>1
      <4> QED BY <4>1, FS_Interval
    <3>2. Left = {} => Used = 1 .. n + 1
      OBVIOUS
    <3> HIDE DEF Used, Left, n
    <3> QED BY <1>1, <2>1, <3>1, <3>2
  <2>3. Left \in SUBSET Nat
    BY <1>1
  <2>4. PICK k \in Left : \A i \in Left : k <= i
    <3> HIDE DEF Left
    <3> QED BY <2>2, <2>3, LeastNumber
  <2>5. /\ k \in 1 .. n + 1 /\ <<name, L + k>> \notin taken
        /\ \A i \in 1 .. k - 1 : <<name, L + i>> \in taken
    <3>1. k \in 1 .. n + 1 /\ <<name, L + k>> \notin taken
      OBVIOUS
    <3>2. \A i \in 1 .. k - 1 : i \in 1 .. n + 1 /\ ~(k <= i)
      BY <1>1, <3>1
    <3> QED BY <2>4, <3>1, <3>2
  <2>6. Numbered(name, taken) \notin taken
    <3> DEFINE Next(j) == /\ <<name, L + j>> \notin taken
                          /\ \A i \in 1 .. j - 1 : <<name, L + i>> \in taken
    <3>1. Next(k) /\ k \in 1 .. n + 1
      BY <2>5
    <3>2. Next(CHOOSE j \in 1 .. n + 1 : Next(j))
      <4> HIDE DEF Next, n
      <4> QED BY <3>1
    <3>3. Numbered(name, taken) = <<name, L + (CHOOSE j \in 1 .. n + 1 : Next(j))>>
      BY DEF Numbered
    <3> QED BY <3>2, <3>3
  <2>7. Settled(e, taken) = Numbered(name, taken)
    BY <1>3 DEF Settled, name
  <2> QED BY <2>6, <2>7
<1> QED BY <1>2, <1>3

LEMMA Listed ==
  ASSUME NEW n \in Nat, NEW s, s = [i \in 1 .. n |-> s[i]]
  PROVE  Len(s) = n /\ DOMAIN s = 1 .. n /\ s \in Seq({s[i] : i \in 1 .. n})
OBVIOUS

LEMMA OneMore ==
  ASSUME NEW n \in Nat, NEW s, s = [i \in 1 .. n |-> s[i]], NEW x
  PROVE  Append(s, x) = [i \in 1 .. n + 1 |-> IF i = n + 1 THEN x ELSE s[i]]
<1> DEFINE S == {s[i] : i \in 1 .. n} \cup {x}
<1>1. s \in Seq(S) /\ x \in S /\ Len(s) = n
  BY Listed
<1>2. PICK t : t = Append(s, x)
  OBVIOUS
<1>3. /\ t \in Seq(S) /\ Len(t) = n + 1
      /\ \A i \in 1 .. n : t[i] = s[i]
      /\ t[n + 1] = x
  BY <1>1, <1>2
<1>4. DOMAIN t = 1 .. n + 1 /\ t = [i \in 1 .. n + 1 |-> t[i]]
  <2> HIDE DEF S
  <2> QED BY <1>3
<1>5. \A i \in 1 .. n + 1 : t[i] = IF i = n + 1 THEN x ELSE s[i]
  BY <1>3
<1> QED BY <1>2, <1>4, <1>5

Joins == INSTANCE FoldProofs WITH Step <- Joined

\* A list as _disambiguate leaves it: an entry for each one merged, and no id twice.
NamedApart(list, entries, n) ==
  /\ list = [i \in 1 .. n |-> list[i]]
  /\ \A i \in 1 .. n : list[i] = Called(entries[i], list[i].id)
  /\ \A i, j \in 1 .. n : list[i].id = list[j].id => i = j

LEMMA JoinedApart ==
  ASSUME NEW entries, NEW n \in Nat, NEW list, NamedApart(list, entries, n)
  PROVE  NamedApart(Joined(list, entries[n + 1]), entries, n + 1)
<1>1. PICK id : id = Settled(entries[n + 1], Ids(list))
  OBVIOUS
<1>2. PICK x : x = Called(entries[n + 1], id)
  OBVIOUS
<1>3. x.id = id
  BY <1>2 DEF Called
<1>4. list = [i \in 1 .. n |-> list[i]] /\ Len(list) = n /\ DOMAIN list = 1 .. n
  BY Listed DEF NamedApart
<1>5. Ids(list) = {list[i].id : i \in 1 .. n} /\ IsFiniteSet(Ids(list))
  <2> DEFINE ids == [i \in 1 .. n |-> list[i].id]
  <2>1. DOMAIN ids = 1 .. n /\ IsFiniteSet(1 .. n)
    BY FS_Interval
  <2>2. IsFiniteSet({ids[i] : i \in 1 .. n})
    <3> HIDE DEF ids
    <3> QED BY <2>1, ImageIsFinite
  <2>3. {ids[i] : i \in 1 .. n} = {list[i].id : i \in 1 .. n}
    OBVIOUS
  <2> QED BY <1>4, <2>2, <2>3 DEF Ids
<1>6. id \notin {list[i].id : i \in 1 .. n}
  BY <1>1, <1>5, SettledIsFree
<1>7. PICK t : t = Joined(list, entries[n + 1])
  OBVIOUS
<1>8. t = [i \in 1 .. n + 1 |-> IF i = n + 1 THEN x ELSE list[i]]
  BY <1>1, <1>2, <1>4, <1>7, OneMore DEF Joined
<1>9. \A i \in 1 .. n + 1 : t[i] = Called(entries[i], t[i].id)
  BY <1>2, <1>3, <1>8 DEF NamedApart
<1>10. \A i, j \in 1 .. n + 1 : t[i].id = t[j].id => i = j
  BY <1>3, <1>6, <1>8 DEF NamedApart
<1>11. t = [i \in 1 .. n + 1 |-> t[i]]
  BY <1>8
<1> QED BY <1>7, <1>9, <1>10, <1>11 DEF NamedApart

LEMMA DisambiguatedApart ==
  ASSUME NEW entries, NEW n \in Nat, DOMAIN entries = 1 .. n
  PROVE  NamedApart(Disambiguated(entries), entries, n)
<1>1. Disambiguated(entries) = Joins!Folded(<<>>, entries)
  BY DEF Disambiguated, Joins!Folded, FoldLeft, Joins!FoldLeft, MapThenFoldSet, Joins!MapThenFoldSet, Max, Joins!Max
<1>2. PICK f : /\ f[0] = <<>> /\ f[n] = Disambiguated(entries)
               /\ \A k \in 1 .. n : f[k] = Joined(f[k - 1], entries[k])
  BY <1>1, Joins!FoldSteps
<1> DEFINE Bad == {k \in 0 .. n : ~NamedApart(f[k], entries, k)}
<1>3. 0 \notin Bad
  BY <1>2 DEF NamedApart
<1>4. ASSUME Bad # {}
      PROVE  FALSE
  <2>1. Bad \in SUBSET Nat
    OBVIOUS
  <2>2. PICK k \in Bad : \A i \in Bad : k <= i
    <3> HIDE DEF Bad
    <3> QED BY <1>4, <2>1, LeastNumber
  <2>3. k \in 0 .. n /\ k # 0 /\ ~NamedApart(f[k], entries, k)
    BY <1>3
  <2>4. k - 1 \in 0 .. n /\ k - 1 \in Nat /\ (k - 1) + 1 = k /\ ~(k <= k - 1) /\ k \in 1 .. n
    BY <2>3
  <2>5. NamedApart(f[k - 1], entries, k - 1)
    BY <2>2, <2>4
  <2>6. NamedApart(Joined(f[k - 1], entries[k]), entries, k)
    BY <2>4, <2>5, JoinedApart
  <2> QED BY <1>2, <2>3, <2>4, <2>6
<1>5. n \in 0 .. n /\ n \notin Bad
  <2> HIDE DEF Bad
  <2> QED BY <1>4
<1> QED BY <1>2, <1>5

-----------------------------------------------------------------------------
(* Where the names lead.                                                   *)

Regs == INSTANCE FoldProofs WITH Step <- Registered

\* The register knows the names of the first n entries of the list, and no others, and
\* a name leads to what one of those shows.
Leads(register, list, n) ==
  /\ register = [p \in Channel |-> register[p]]
  /\ \A p \in Channel :
       /\ \A i \in 1 .. n : p \in In(list[i]) => NamesOf(list[i], p) \subseteq DOMAIN register[p]
       /\ \A name \in DOMAIN register[p] : \E i \in 1 .. n :
            /\ p \in In(list[i]) /\ name \in NamesOf(list[i], p)
            /\ register[p][name] = list[i].model[p].raw

LEMMA RegisteredLeads ==
  ASSUME NEW list, NEW n \in Nat, NEW register, Leads(register, list, n)
  PROVE  Leads(Registered(register, list[n + 1]), list, n + 1)
<1>1. PICK e : e = list[n + 1]
  OBVIOUS
<1>2. PICK new : new = Registered(register, e)
  OBVIOUS
<1>3. new = [p \in Channel |->
               IF p \in In(e) THEN Over([x \in NamesOf(e, p) |-> e.model[p].raw], register[p])
               ELSE register[p]]
  BY <1>2 DEF Registered
<1>4. new = [p \in Channel |-> new[p]]
  BY <1>3
<1>5. ASSUME NEW p \in Channel
      PROVE  /\ \A i \in 1 .. n + 1 : p \in In(list[i]) => NamesOf(list[i], p) \subseteq DOMAIN new[p]
             /\ \A name \in DOMAIN new[p] : \E i \in 1 .. n + 1 :
                  /\ p \in In(list[i]) /\ name \in NamesOf(list[i], p)
                  /\ new[p][name] = list[i].model[p].raw
  <2>1. /\ \A i \in 1 .. n : p \in In(list[i]) => NamesOf(list[i], p) \subseteq DOMAIN register[p]
        /\ \A name \in DOMAIN register[p] : \E i \in 1 .. n :
             /\ p \in In(list[i]) /\ name \in NamesOf(list[i], p)
             /\ register[p][name] = list[i].model[p].raw
    BY DEF Leads
  <2>2. \A i \in 1 .. n + 1 : i \in 1 .. n \/ i = n + 1
    OBVIOUS
  <2>3. n + 1 \in 1 .. n + 1 /\ \A i \in 1 .. n : i \in 1 .. n + 1
    OBVIOUS
  <2>4. CASE p \notin In(e)
    <3>1. new[p] = register[p]
      BY <1>3, <2>4
    <3> QED BY <1>1, <2>1, <2>2, <2>3, <2>4, <3>1
  <2>5. CASE p \in In(e)
    <3>1. PICK over : over = new[p]
      OBVIOUS
    <3>2. PICK names : names = NamesOf(e, p)
      OBVIOUS
    <3>3. over = [x \in names \cup DOMAIN register[p] |->
                    IF x \in names THEN e.model[p].raw ELSE register[p][x]]
      BY <1>3, <2>5, <3>1, <3>2 DEF Over
    <3>4. \A i \in 1 .. n + 1 : p \in In(list[i]) => NamesOf(list[i], p) \subseteq DOMAIN over
      BY <1>1, <2>1, <2>2, <3>2, <3>3
    <3>5. ASSUME NEW name \in DOMAIN over
          PROVE  \E i \in 1 .. n + 1 : /\ p \in In(list[i]) /\ name \in NamesOf(list[i], p)
                                       /\ over[name] = list[i].model[p].raw
      <4>1. CASE name \in names
        BY <1>1, <2>3, <2>5, <3>2, <3>3, <4>1
      <4>2. CASE name \notin names
        BY <2>1, <2>3, <3>3, <3>5, <4>2
      <4> QED BY <4>1, <4>2
    <3> QED BY <3>1, <3>4, <3>5
  <2> QED BY <2>4, <2>5
<1> QED BY <1>1, <1>2, <1>4, <1>5 DEF Leads

LEMMA RegisterLeads ==
  ASSUME NEW list, NEW n \in Nat, DOMAIN list = 1 .. n
  PROVE  Leads(RegisterOf(list), list, n)
<1>1. RegisterOf(list) = Regs!Folded(Nothing, list)
  BY DEF RegisterOf, Regs!Folded, FoldLeft, Regs!FoldLeft, MapThenFoldSet, Regs!MapThenFoldSet, Max, Regs!Max
<1>2. PICK f : /\ f[0] = Nothing /\ f[n] = RegisterOf(list)
               /\ \A k \in 1 .. n : f[k] = Registered(f[k - 1], list[k])
  BY <1>1, Regs!FoldSteps
<1> DEFINE Bad == {k \in 0 .. n : ~Leads(f[k], list, k)}
<1>3. 0 \notin Bad
  BY <1>2 DEF Leads, Nothing
<1>4. ASSUME Bad # {}
      PROVE  FALSE
  <2>1. Bad \in SUBSET Nat
    OBVIOUS
  <2>2. PICK k \in Bad : \A i \in Bad : k <= i
    <3> HIDE DEF Bad
    <3> QED BY <1>4, <2>1, LeastNumber
  <2>3. k \in 0 .. n /\ k # 0 /\ ~Leads(f[k], list, k)
    BY <1>3
  <2>4. k - 1 \in 0 .. n /\ k - 1 \in Nat /\ (k - 1) + 1 = k /\ ~(k <= k - 1) /\ k \in 1 .. n
    BY <2>3
  <2>5. Leads(f[k - 1], list, k - 1)
    BY <2>2, <2>4
  <2>6. Leads(Registered(f[k - 1], list[k]), list, k)
    BY <2>4, <2>5, RegisteredLeads
  <2> QED BY <1>2, <2>3, <2>4, <2>6
<1>5. n \in 0 .. n /\ n \notin Bad
  <2> HIDE DEF Bad
  <2> QED BY <1>4
<1> QED BY <1>2, <1>5

\* Every entry has an id of its own, which its channels know, for its own model unless
\* the name is another's in the channel too.
EntriesFound(register, list, n) ==
  /\ list = [i \in 1 .. n |-> list[i]]
  /\ register = [p \in Channel |-> register[p]]
  /\ \A i, j \in 1 .. n : list[i].id = list[j].id => i = j
  /\ \A i \in 1 .. n :
       /\ In(list[i]) # {} /\ In(list[i]) \subseteq Channel
       /\ \A p \in In(list[i]) :
            /\ list[i].id \in DOMAIN register[p]
            /\ \/ register[p][list[i].id] = list[i].model[p].raw
               \/ CalledAlike(list[i], p, list)

LEMMA OwnEntriesFound ==
  ASSUME NEW entries, NEW n \in Nat, NEW list, NamedApart(list, entries, n),
         NEW register, Leads(register, list, n),
         \A i \in 1 .. n : In(entries[i]) # {} /\ In(entries[i]) \subseteq Channel,
         \A i \in 1 .. n : \A p \in In(entries[i]) : entries[i].model[p] \in cache[p]
  PROVE  EntriesFound(register, list, n)
<1>1. list = [i \in 1 .. n |-> list[i]] /\ \A i, j \in 1 .. n : list[i].id = list[j].id => i = j
  BY DEF NamedApart
<1>2. \A i \in 1 .. n : list[i].model = entries[i].model /\ In(list[i]) = In(entries[i])
  <2>1. \A i \in 1 .. n : list[i] = Called(entries[i], list[i].id)
    BY DEF NamedApart
  <2>2. ASSUME NEW i \in 1 .. n
        PROVE  list[i].model = entries[i].model
    <3>1. PICK id : list[i] = Called(entries[i], id)
      BY <2>1
    <3> QED BY <3>1 DEF Called
  <2> QED BY <2>2 DEF In
<1>3. register = [p \in Channel |-> register[p]]
  BY DEF Leads
<1>4. ASSUME NEW i \in 1 .. n, NEW p \in In(list[i])
      PROVE  /\ list[i].id \in DOMAIN register[p]
             /\ \/ register[p][list[i].id] = list[i].model[p].raw
                \/ CalledAlike(list[i], p, list)
  <2>1. p \in Channel
    BY <1>2
  <2>2. list[i].id \in NamesOf(list[i], p)
    BY DEF NamesOf
  <2>3. list[i].id \in DOMAIN register[p]
    BY <2>1, <2>2 DEF Leads
  <2>4. PICK j \in 1 .. n : /\ p \in In(list[j]) /\ list[i].id \in NamesOf(list[j], p)
                            /\ register[p][list[i].id] = list[j].model[p].raw
    BY <2>1, <2>3 DEF Leads
  <2>5. CASE list[i].id = list[j].id
    BY <1>1, <2>3, <2>4, <2>5
  <2>6. CASE list[i].id = Plain(list[j].model[p].raw)
    <3>1. list[j].model[p] \in cache[p]
      BY <1>2, <2>4
    <3>2. CASE list[j].model[p].raw = list[i].model[p].raw
      BY <2>3, <2>4, <3>2
    <3>3. CASE list[j].model[p].raw # list[i].model[p].raw
      BY <2>3, <2>6, <3>1, <3>3 DEF CalledAlike
    <3> QED BY <3>2, <3>3
  <2>7. CASE /\ p \in list[j].named /\ list[i].id = Plain(list[j].name)
             /\ list[i].id # list[j].id
    <3>1. j \in DOMAIN list
      BY <1>1
    <3> QED BY <2>3, <2>7, <3>1 DEF CalledAlike
  <2> QED BY <2>4, <2>5, <2>6, <2>7 DEF NamesOf
<1> QED BY <1>1, <1>2, <1>3, <1>4 DEF EntriesFound

AliasesFound(acc, real) ==
  /\ acc.real = real
  /\ \E k \in Nat : EntriesFound(acc.register, acc.list, k)

LEMMA AliasFound ==
  ASSUME NEW real, NEW n \in Nat, real = [i \in 1 .. n |-> real[i]],
         \A i \in 1 .. n : In(real[i]) # {} /\ In(real[i]) \subseteq Channel,
         NEW acc, AliasesFound(acc, real), NEW alias
  PROVE  AliasesFound(WithAlias(acc, alias), real)
<1>1. CASE ~Applies(alias, acc.real, acc.register)
  BY <1>1 DEF WithAlias
<1>2. CASE Applies(alias, acc.real, acc.register)
  <2>1. PICK k \in Nat : EntriesFound(acc.register, acc.list, k)
    BY DEF AliasesFound
  <2>2. PICK e : e = AliasEntry(alias, acc.real)
    OBVIOUS
  <2>3. PICK list : list = acc.list
    OBVIOUS
  <2>4. PICK register : register = acc.register
    OBVIOUS
  <2>5. PICK target : target = TargetOf(alias, real)
    OBVIOUS
  <2>6. In(target) # {} /\ In(target) \subseteq Channel
    <3>1. Found(alias, real) # {} /\ Found(alias, real) \in SUBSET (1 .. n)
      BY <1>2 DEF Applies, AliasesFound, Found
    <3>2. Min(Found(alias, real)) \in 1 .. n
      BY <3>1, LeastNumber
    <3> QED BY <2>5, <3>2 DEF TargetOf
  <2>7. /\ In(e) # {} /\ In(e) \subseteq Channel
        /\ e.id = Plain(alias.name)
    <3>1. alias.channel \in In(target) \cup {""}
      BY <1>2, <2>5 DEF Applies, AliasesFound
    <3>2. PICK in : in = IF alias.channel = "" THEN In(target) ELSE {alias.channel}
      OBVIOUS
    <3>3. in # {} /\ in \subseteq Channel
      BY <2>6, <3>1, <3>2
    <3>4. e = [id |-> Plain(alias.name), name |-> alias.name,
               model |-> [p \in in |-> target.model[p]], named |-> {}]
      BY <2>2, <2>5, <3>2 DEF AliasEntry, AliasesFound
    <3>5. e.model = [p \in in |-> target.model[p]] /\ e.id = Plain(alias.name)
      BY <3>4
    <3>6. In(e) = in
      BY <3>5 DEF In
    <3> QED BY <3>3, <3>5, <3>6
  <2>8. \A p \in Channel : e.id \notin DOMAIN register[p]
    BY <1>2, <2>4, <2>7 DEF Applies
  <2>9. PICK next : next = Append(list, e)
    OBVIOUS
  <2>10. PICK new : new = [p \in Channel |->
           IF p \in In(e) THEN Over([x \in {e.id} |-> e.model[p].raw], register[p])
           ELSE register[p]]
    OBVIOUS
  <2>11. /\ WithAlias(acc, alias).list = next /\ WithAlias(acc, alias).register = new
         /\ WithAlias(acc, alias).real = real
    <3>1. WithAlias(acc, alias) =
            [real |-> acc.real, list |-> Append(acc.list, e),
             register |-> [p \in Channel |->
               IF p \in In(e) THEN Over([x \in {e.id} |-> e.model[p].raw], acc.register[p])
               ELSE acc.register[p]]]
      BY <1>2, <2>2 DEF WithAlias
    <3> QED BY <2>3, <2>4, <2>9, <2>10, <3>1 DEF AliasesFound
  <2>12. EntriesFound(register, list, k)
    BY <2>1, <2>3, <2>4
  <2>13. next = [i \in 1 .. k + 1 |-> IF i = k + 1 THEN e ELSE list[i]]
    BY <2>9, <2>12, OneMore DEF EntriesFound
  <2>14. \A p \in In(e) : e.id \in DOMAIN new[p] /\ new[p][e.id] = e.model[p].raw
    <3>1. ASSUME NEW p \in In(e)
          PROVE  e.id \in DOMAIN new[p] /\ new[p][e.id] = e.model[p].raw
      <4>1. new[p] = Over([x \in {e.id} |-> e.model[p].raw], register[p])
        BY <2>7, <2>10
      <4> QED BY <4>1 DEF Over
    <3> QED BY <3>1
  <2>15. ASSUME NEW p \in Channel, NEW name \in DOMAIN register[p]
         PROVE  name \in DOMAIN new[p] /\ new[p][name] = register[p][name]
    <3>1. name # e.id
      BY <2>8, <2>15
    <3>2. CASE p \in In(e)
      <4>1. new[p] = Over([x \in {e.id} |-> e.model[p].raw], register[p])
        BY <2>10, <3>2
      <4> QED BY <3>1, <4>1 DEF Over
    <3>3. CASE p \notin In(e)
      BY <2>10, <3>3
    <3> QED BY <3>2, <3>3
  <2>16. \A i \in 1 .. k : list[i].id # e.id
    <3>1. ASSUME NEW i \in 1 .. k
          PROVE  list[i].id # e.id
      <4>1. PICK p \in In(list[i]) : p \in Channel /\ list[i].id \in DOMAIN register[p]
        BY <2>12 DEF EntriesFound
      <4> QED BY <2>8, <4>1
    <3> QED BY <3>1
  <2>17. next = [i \in 1 .. k + 1 |-> next[i]] /\ new = [p \in Channel |-> new[p]]
    BY <2>10, <2>13
  <2>18. k + 1 \in 1 .. k + 1 /\ \A i \in 1 .. k + 1 : i = k + 1 \/ i \in 1 .. k
    OBVIOUS
  <2>19. next[k + 1] = e /\ \A i \in 1 .. k : next[i] = list[i]
    BY <2>13
  <2>20. \A i, j \in 1 .. k + 1 : next[i].id = next[j].id => i = j
    BY <2>12, <2>16, <2>18, <2>19 DEF EntriesFound
  <2>21. ASSUME NEW f, NEW p, CalledAlike(f, p, list)
         PROVE  CalledAlike(f, p, next)
    <3>1. DOMAIN list = 1 .. k /\ DOMAIN next = 1 .. k + 1 /\ 1 .. k \subseteq 1 .. k + 1
      BY <2>12, <2>17 DEF EntriesFound
    <3> QED BY <2>19, <2>21, <3>1 DEF CalledAlike
  <2>22. ASSUME NEW i \in 1 .. k + 1
         PROVE  /\ In(next[i]) # {} /\ In(next[i]) \subseteq Channel
                /\ \A p \in In(next[i]) :
                     /\ next[i].id \in DOMAIN new[p]
                     /\ \/ new[p][next[i].id] = next[i].model[p].raw
                        \/ CalledAlike(next[i], p, next)
    <3>1. CASE i = k + 1
      BY <2>7, <2>14, <2>19, <3>1
    <3>2. CASE i \in 1 .. k
      <4>1. /\ In(list[i]) # {} /\ In(list[i]) \subseteq Channel
            /\ \A p \in In(list[i]) :
                 /\ list[i].id \in DOMAIN register[p]
                 /\ \/ register[p][list[i].id] = list[i].model[p].raw
                    \/ CalledAlike(list[i], p, list)
        BY <2>12, <3>2 DEF EntriesFound
      <4> QED BY <2>15, <2>19, <2>21, <3>2, <4>1
    <3> QED BY <2>18, <3>1, <3>2
  <2>23. EntriesFound(new, next, k + 1) /\ k + 1 \in Nat
    <3>1. k + 1 \in Nat
      OBVIOUS
    <3>2. EntriesFound(new, next, k + 1)
      BY <2>17, <2>20, <2>22, Zenon DEF EntriesFound
    <3> QED BY <3>1, <3>2
  <2> QED BY <2>11, <2>23 DEF AliasesFound
<1> QED BY <1>1, <1>2

Renames == INSTANCE FoldProofs WITH Step <- WithAlias

LEMMA CustomisedFound ==
  ASSUME NEW real, NEW n \in Nat, real = [i \in 1 .. n |-> real[i]],
         \A i \in 1 .. n : In(real[i]) # {} /\ In(real[i]) \subseteq Channel,
         NEW register, EntriesFound(register, real, n),
         NEW aliases, NEW k \in Nat, DOMAIN aliases = 1 .. k
  PROVE  AliasesFound(Customised(real, register, aliases), real)
<1> DEFINE base == [real |-> real, list |-> real, register |-> register]
<1>1. Customised(real, register, aliases) = Renames!Folded(base, aliases)
  BY DEF Customised, Renames!Folded, FoldLeft, Renames!FoldLeft, MapThenFoldSet,
         Renames!MapThenFoldSet, Max, Renames!Max
<1>2. PICK f : /\ f[0] = base /\ f[k] = Customised(real, register, aliases)
               /\ \A i \in 1 .. k : f[i] = WithAlias(f[i - 1], aliases[i])
  <2> HIDE DEF base
  <2>1. PICK f : /\ f[0] = base /\ f[k] = Renames!Folded(base, aliases)
                 /\ \A i \in 1 .. k : f[i] = WithAlias(f[i - 1], aliases[i])
    BY Renames!FoldSteps
  <2> QED BY <1>1, <2>1
<1> DEFINE Bad == {i \in 0 .. k : ~AliasesFound(f[i], real)}
<1>3. 0 \notin Bad
  <2>1. f[0].real = real /\ f[0].list = real /\ f[0].register = register
    BY <1>2
  <2>2. AliasesFound(f[0], real)
    BY <2>1, Zenon DEF AliasesFound
  <2> QED BY <2>2
<1>4. ASSUME Bad # {}
      PROVE  FALSE
  <2>1. Bad \in SUBSET Nat
    OBVIOUS
  <2>2. PICK j \in Bad : \A i \in Bad : j <= i
    <3> HIDE DEF Bad
    <3> QED BY <1>4, <2>1, LeastNumber
  <2>3. j \in 0 .. k /\ j # 0 /\ ~AliasesFound(f[j], real)
    BY <1>3
  <2>4. j - 1 \in 0 .. k /\ ~(j <= j - 1) /\ j \in 1 .. k
    BY <2>3
  <2>5. AliasesFound(f[j - 1], real)
    BY <2>2, <2>4
  <2>6. AliasesFound(WithAlias(f[j - 1], aliases[j]), real)
    BY <2>5, AliasFound
  <2> QED BY <1>2, <2>3, <2>4, <2>6
<1>5. k \in 0 .. k /\ k \notin Bad
  <2> HIDE DEF Bad
  <2> QED BY <1>4
<1> QED BY <1>2, <1>5

LEMMA ShownTables ==
  ASSUME ListTyped, NEW conn
  PROVE  /\ TablesRight(Published(cache, conn).shown)
         /\ \A p \in Channel : Published(cache, conn).shown[p] \subseteq cache[p]
<1>1. \A p \in Channel : Published(cache, conn).shown[p] \subseteq cache[p]
  BY DEF Published, Shown
<1>2. ASSUME NEW p \in Channel
      PROVE  IsFiniteSet(cache[p]) /\ \A m \in cache[p] : {m.raw, m.key, m.label} \subseteq Nat
  <2>1. scene \in Scenes /\ (cache[p] \in scene.offers[p] \/ cache[p] = {})
    BY DEF ListTyped
  <2> QED BY <2>1, SceneConstants, FS_EmptySet
<1>3. ASSUME NEW p \in Channel, NEW T, T \subseteq cache[p]
      PROVE  IsFiniteSet(T) /\ \A m \in T : m.raw \in Nat /\ m.key \in Nat /\ m.label \in Nat
  BY <1>2, <1>3, FS_Subset
<1> QED BY <1>1, <1>3 DEF TablesRight

LEMMA ListingHolds ==
  ASSUME CatalogInv
  PROVE  ListingSound
<1>1. ListTyped
  BY DEF CatalogInv
<1>2. PICK tables : tables = Published(cache, creds).shown
  OBVIOUS
<1>3. TablesRight(tables) /\ \A p \in Channel : tables[p] \subseteq cache[p]
  BY <1>1, <1>2, ShownTables
<1>4. PICK entries : entries = Merged(tables)
  OBVIOUS
<1>5. PICK n \in Nat : DOMAIN entries = 1 .. n /\ \A i \in 1 .. n : entries[i] \in Entries(tables)
  BY <1>3, <1>4, MergedAreEntries
<1>6. \A i \in 1 .. n : /\ In(entries[i]) # {} /\ In(entries[i]) \subseteq Channel
                        /\ \A p \in In(entries[i]) : entries[i].model[p] \in tables[p]
  BY <1>3, <1>5, EntriesRight DEF EntryRight
<1>7. \A i \in 1 .. n : \A p \in In(entries[i]) : entries[i].model[p] \in cache[p]
  BY <1>3, <1>6
<1>8. PICK real : real = Disambiguated(entries)
  OBVIOUS
<1>9. NamedApart(real, entries, n)
  BY <1>5, <1>8, DisambiguatedApart
<1>10. PICK register : register = RegisterOf(real)
  OBVIOUS
<1>11. real = [i \in 1 .. n |-> real[i]] /\ DOMAIN real = 1 .. n
  BY <1>9, Listed DEF NamedApart
<1>12. Leads(register, real, n)
  BY <1>10, <1>11, RegisterLeads
<1>13. EntriesFound(register, real, n)
  BY <1>6, <1>7, <1>9, <1>12, OwnEntriesFound
<1>14. \A i \in 1 .. n : In(real[i]) # {} /\ In(real[i]) \subseteq Channel
  BY <1>13 DEF EntriesFound
<1>15. PICK aliases : aliases = settings.aliases
  OBVIOUS
<1>16. PICK k \in Nat : DOMAIN aliases = 1 .. k
  BY <1>1, <1>15 DEF ListTyped
<1>17. PICK current : current = Customised(real, register, aliases)
  OBVIOUS
<1>18. Listing(Published(cache, creds)) = current
  <2>1. Published(cache, creds).aliases = aliases
    BY <1>15 DEF Published
  <2> QED BY <1>2, <1>4, <1>8, <1>10, <1>17, <2>1 DEF Listing, Build
<1>19. AliasesFound(current, real)
  BY <1>11, <1>13, <1>14, <1>16, <1>17, CustomisedFound
<1>20. PICK c \in Nat : EntriesFound(current.register, current.list, c)
  BY <1>19 DEF AliasesFound
<1>21. Len(current.list) = c
  BY <1>20, Listed DEF EntriesFound
<1>22. \A i \in 1 .. c : \A j \in 1 .. i - 1 : j \in 1 .. c /\ i # j
  OBVIOUS
<1>23. ASSUME NEW i \in 1 .. Len(current.list)
       PROVE  /\ \A j \in 1 .. i - 1 : current.list[j].id # current.list[i].id
              /\ \A p \in In(current.list[i]) :
                   \/ current.register[p][current.list[i].id] = current.list[i].model[p].raw
                   \/ CalledAlike(current.list[i], p, current.list)
  BY <1>20, <1>21, <1>22 DEF EntriesFound
<1> QED BY <1>18, <1>23, CatalogHasTypes, Zenon DEF ListingSound

\* Whatever models the channels offer under whatever names, whatever the operator hides
\* and however names are given to models: no two entries of the list have one id, and the
\* id of an entry leads to its own model in each of its channels, unless the channel knows
\* another model by it (model_merge.py, _disambiguate, _register_entry_alias,
\* _apply_custom_aliases).
THEOREM ListingStaysSound == CatalogSpec => []ListingSound
BY CatalogHolds, ListingHolds, PTL
=============================================================================
