-------------------------------- MODULE Growth --------------------------------
(***************************************************************************)
(* tasks/growth.py, codebuddy/growth_runner.py and growth.py: the rounds   *)
(* of the growth centre.  A round walks over the candidates, once for each *)
(* upstream account, and through the sections of the centre: each asks     *)
(* what there is and then takes it, and what it takes is credited.  The    *)
(* button of a credential is one such walk, beside those of the rounds.    *)
(*                                                                         *)
(* What an upstream account has to give is its garden.  A reply is "heard" *)
(* or says no ("failed", which is also a breakdown before anything was     *)
(* done); "denied" is 401 or 403.  What was done may be "unheard", paid    *)
(* "vague"ly, without its amount, or answered "again" if it had been done  *)
(* before.  One task, one tier, one card stand for all of their kind, and  *)
(* every amount is one.                                                    *)
(*                                                                         *)
(* A definition marked `slip' is a variant with a likely slip; no action   *)
(* uses it.                                                                *)
(***************************************************************************)
EXTENDS Checkin

CONSTANTS
  Seasons,      \* what an upstream may offer at a time, sets of Offer
  MaxStock,     \* bounds of the model: what a garden holds of a kind,
  MaxLost,      \* the payments of an account that went unheard,
  MaxPressed    \* and the uses of the button

Offer == {"trip", "task", "tier", "cards", "chances", "energy"}
Grower == {"loop", "page", "own"}
Answer == {"heard", "failed", "denied", "unheard", "vague", "again", "unknown"}

ASSUME GrowthConstants ==
  /\ Seasons \subseteq SUBSET Offer
  /\ {MaxStock, MaxLost, MaxPressed} \subseteq Nat

VARIABLES
  season,       \* what the upstream offers
  garden,       \* [Scope -> what an upstream account has to give]
  unbooked,     \* [Scope -> what it has paid and no row says]
  grow,         \* [Grower -> what a walk is at]
  pressed       \* how often the button was used

growthVars == <<season, garden, unbooked, grow, pressed>>

Bare == [trip |-> IF "trip" \in season THEN "idle" ELSE "none", task |-> "claimed", tier |-> "locked",
         cards |-> 0, chances |-> 0, energy |-> 0]
Resting == [at |-> "idle", next |-> 1, live |-> {}, seen |-> {},
            from |-> 1, credit |-> 0]

GrowthInit ==
  /\ season \in Seasons
  /\ garden = [s \in Scope |-> Bare]
  /\ unbooked = [s \in Scope |-> 0]
  /\ grow = [w \in Grower |-> Resting]
  /\ pressed = 0

GrowthStarts ==
  /\ grow' = [w \in Grower |-> Resting]
  /\ UNCHANGED <<season, garden, unbooked, pressed>>

----------------------------------------------------------------------------
(* The upstream.                                                           *)

Ready(g, deed) ==
  CASE deed = "claim"  -> g.trip = "arrived"
    [] deed = "depart" -> g.trip = "idle"
    [] deed = "accept" -> g.task = "not_accepted"
    [] deed = "reward" -> g.task = "completed"
    [] deed = "card"   -> g.cards > 0
    [] deed = "redeem" -> g.tier = "claimable"
    [] deed = "draw"   -> g.chances > 0
    [] deed = "open"   -> g.energy > 0

Reaped(g, deed) ==
  CASE deed = "claim"  -> [g EXCEPT !.trip = "idle"]
    [] deed = "depart" -> [g EXCEPT !.trip = "traveling"]
    [] deed = "accept" -> [g EXCEPT !.task = "accepted"]
    [] deed = "reward" -> [g EXCEPT !.task = "claimed"]
    [] deed = "card"   -> [g EXCEPT !.cards = @ - 1]
    [] deed = "redeem" -> [g EXCEPT !.tier = "claimed"]
    [] deed = "draw"   -> [g EXCEPT !.chances = @ - 1]
    [] deed = "open"   -> [g EXCEPT !.energy = @ - 1]

Paid(deed) == deed \in {"claim", "reward", "redeem"}

\* Trips end, tasks are worked on, days go by.
Grows(s) ==
  LET g == garden[s]
      Becomes(h) == garden' = [garden EXCEPT ![s] = h]
      Gets(kind) == g[kind] < MaxStock /\ Becomes([g EXCEPT ![kind] = @ + 1])
  IN
  /\ \/ g.trip = "traveling" /\ Becomes([g EXCEPT !.trip = "arrived"])
     \/ "task" \in season /\ g.task = "claimed" /\ Becomes([g EXCEPT !.task = "not_accepted"])
     \/ g.task = "accepted" /\ Becomes([g EXCEPT !.task = "completed"])
     \/ "tier" \in season /\ g.tier = "locked" /\ Becomes([g EXCEPT !.tier = "claimable"])
     \/ g.tier = "claimed" /\ Becomes([g EXCEPT !.tier = "locked"])
     \/ \E kind \in {"cards", "chances", "energy"} \cap season : Gets(kind)
  /\ UNCHANGED <<season, unbooked, grow, pressed>>

----------------------------------------------------------------------------
(* The walk.                                                               *)

GrowthBegins(w) ==
  /\ grow' = [grow EXCEPT ![w] = [Resting EXCEPT !.at = "walk", !.live = Account \ suspended]]
  /\ UNCHANGED <<season, garden, unbooked, pressed>>

\* the upstream account a walk is at
Bed(w) == ScopeOf[Accounts[grow[w].next]]

Walked(w) == grow[w].at = "walk" /\ grow[w].next <= Len(Accounts)
Left(w) == Accounts[grow[w].next] \notin grow[w].live \/ Bed(w) \in grow[w].seen

PassesBy(w) ==
  /\ Walked(w) /\ Left(w)
  /\ grow' = [grow EXCEPT ![w].next = @ + 1]
  /\ UNCHANGED <<season, garden, unbooked, pressed>>

\* The turn of the pacer is awaited here, with nothing in hand.
TakesUp(w) ==
  /\ Walked(w) /\ ~Left(w)
  /\ grow' = [grow EXCEPT ![w].at = "ask", ![w].seen = @ \cup {Bed(w)}]
  /\ UNCHANGED <<season, garden, unbooked, pressed>>

\* The button asks neither the mark of the task nor whether the account is paused.
Presses(i) ==
  /\ grow["own"].at = "idle" /\ pressed < MaxPressed
  /\ grow' = [grow EXCEPT !["own"] = [Resting EXCEPT !.at = "ask", !.next = i]]
  /\ pressed' = pressed + 1
  /\ UNCHANGED <<season, garden, unbooked>>

----------------------------------------------------------------------------
(* The centre.  Trips come first, then tasks, then what cannot be undone.  *)
(* A query that finds nothing, or fails, leaves everything as it is and    *)
(* leads on to the next one: the queries up to one that finds something to *)
(* do are one step, and what it found may be gone when it is done.         *)

Deeds == <<"claim", "depart", "accept", "reward", "card", "redeem", "draw", "open">>

Nth(deed) == CHOOSE i \in DOMAIN Deeds : Deeds[i] = deed

\* slip: a task that has not been accepted is taken for one that has
FindsOld(w, deed) == Ready(garden[Bed(w)], deed) /\ deed # "accept"

\* what a query may find: a gift, a Buddy at home, tasks to be accepted and claimed
\* (needs_accept, needs_claim), cards, tiers, chances and energy
Finds(w, deed) == Ready(garden[Bed(w)], deed)

Asks(w, deed) ==
  /\ grow[w].at = "ask"
  /\ Nth(deed) >= grow[w].from
  /\ Finds(w, deed)
  /\ grow' = [grow EXCEPT ![w].at = deed]
  /\ UNCHANGED <<season, garden, unbooked, pressed>>

\* Nothing is left to be found, the queries fail, the trips of the day are used up, what
\* cannot be undone is switched off (growth_irreversible_actions), or the session is
\* refused to the queries of trips and tasks, which ends the walk; later refusals do not.
AsksInVain(w) ==
  /\ grow[w].at = "ask"
  /\ grow' = [grow EXCEPT ![w].at = "record"]
  /\ UNCHANGED <<season, garden, unbooked, pressed>>

\* slip: what had been claimed before is counted once more
CreditedAgain(deed, how) == IF Paid(deed) /\ how \in {"heard", "again"} THEN 1 ELSE 0

\* _add_credit: what an answer says was paid, or for a gift or a task the listed amount
Credited(deed, how) == IF Paid(deed) /\ how = "heard" THEN 1 ELSE 0

\* What a walk has been paid at this account and has not recorded yet.
AtBed(w, s) == grow[w].at \notin {"idle", "walk"} /\ Bed(w) = s
Brings(w, s) == IF AtBed(w, s) THEN grow[w].credit ELSE 0
Carried(s) == Brings("loop", s) + Brings("page", s) + Brings("own", s)

\* Where a walk goes on: no Buddy leaves whose gift was not claimed, and the reward of a
\* task accepted now is left to a later walk.
From(deed, how) ==
  CASE deed = "claim" /\ how # "heard" -> Nth("accept")
    [] deed = "accept"                 -> Nth("card")
    [] OTHER                           -> Nth(deed) + 1

\* A deed is done once: what goes wrong is noted, and never tried again; but for a tier
\* the upstream does not know by its name, which is then asked for by its days.
Does(w, deed, how) ==
  LET s == Bed(w)
      works == how \in {"heard", "unheard", "vague"} IN
  /\ \/ grow[w].at = deed
     \/ grow[w].at = "days" /\ deed = "redeem"
  /\ works => Ready(garden[s], deed)
  /\ how \in {"unheard", "vague"} /\ Paid(deed) => unbooked[s] < Carried(s) + MaxLost
  /\ how = "vague" => deed = "redeem"
  /\ how = "again" => deed = "reward" /\ garden[s].task = "claimed"
  /\ how = "unknown" => grow[w].at = "redeem"
  /\ garden' = IF works THEN [garden EXCEPT ![s] = Reaped(@, deed)] ELSE garden
  /\ unbooked' = IF works /\ Paid(deed) THEN [unbooked EXCEPT ![s] = @ + 1] ELSE unbooked
  /\ grow' = [grow EXCEPT
       ![w].credit = @ + Credited(deed, how),
       ![w].from = From(deed, how),
       ![w].at = IF how = "unknown" THEN "days"
                 ELSE IF how = "denied" /\ deed \in {"claim", "accept", "reward"} THEN "record"
                 ELSE "ask"]
  /\ UNCHANGED <<season, pressed>>

Onward(w) == [grow[w] EXCEPT !.at = "walk", !.next = @ + 1, !.from = 1, !.credit = 0]

\* save_growth_result and the row of growth_events
Books(w) ==
  /\ grow[w].at = "record"
  /\ unbooked' = [unbooked EXCEPT ![Bed(w)] = @ - grow[w].credit]
  /\ grow' = [grow EXCEPT ![w] = IF w = "own" THEN Resting ELSE Onward(w)]
  /\ UNCHANGED <<season, garden, pressed>>

GrowthStep(w) ==
  \/ PassesBy(w) \/ TakesUp(w)
  \/ \E i \in DOMAIN Deeds :
       \/ Asks(w, Deeds[i])
       \/ \E how \in Answer : Does(w, Deeds[i], how)
  \/ AsksInVain(w) \/ Books(w)

GrowthDone(w) == grow[w].at = "walk" /\ grow[w].next > Len(Accounts)

GrowthLeaves(w) ==
  /\ grow' = [grow EXCEPT ![w] = Resting]
  /\ UNCHANGED <<season, garden, unbooked, pressed>>
=============================================================================
