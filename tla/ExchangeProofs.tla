---------------------------- MODULE ExchangeProofs ----------------------------
(***************************************************************************)
(* What holds of an exchange with an upstream.  On the way there           *)
(* (UpstreamCalls) the pacer is a turnstile for any number of attempts,    *)
(* accounts, buckets and settings, as long as nobody switches pacing off   *)
(* or on while a call is under way.  On the way back (Conversations) what  *)
(* a client hears is one answer, for any number of attempts, models and    *)
(* events, in each API.                                                    *)
(***************************************************************************)
EXTENDS UpstreamCalls, Conversations, FiniteSetTheorems, SequenceTheorems,
        WellFoundedInduction, TLAPS

-----------------------------------------------------------------------------
(* Who holds the slots of a bucket, and what a step does to them.          *)

Holders(b) == {r \in Caller : HasSlot(r) /\ BucketOf[on[r]] = b}

\* One slot less, and never less than none.
LEMMA OneLess ==
  ASSUME NEW n \in Nat
  PROVE  Max({n - 1, 0}) = IF n = 0 THEN 0 ELSE n - 1
<1>1. \E m \in {n - 1, 0} : \A k \in {n - 1, 0} : m >= k
  <2>1. CASE n = 0
    BY <2>1
  <2>2. CASE n # 0
    BY <2>2
  <2> QED BY <2>1, <2>2
<1>2. /\ Max({n - 1, 0}) \in {n - 1, 0}
      /\ \A k \in {n - 1, 0} : Max({n - 1, 0}) >= k
  BY <1>1 DEF Max
<1> QED BY <1>2

\* What wait_turn and paced() have of a caller.
TurnInv ==
  /\ \A r \in Caller :
       /\ turn[r] = TurnOf(turn[r].at, turn[r].left, turn[r].mark)
       /\ turn[r].at \in Standing
       /\ turn[r].at \notin {"out", "done"} => on[r] \in Cred
  /\ turn = [r \in Caller |-> turn[r]]
  /\ on = [r \in Caller |-> on[r]]

\* Who passed freely did so while pacing is off, and then nobody has a slot or
\* asks for one.
ModeInv ==
  \A r \in Caller :
    IF Off(pace) THEN turn[r].at \in {"out", "entering", "passing", "closing", "done"}
                 ELSE turn[r].at # "passing"

\* Pacer._inflight counts those who hold a slot.
CountInv ==
  \A b \in Bucket :
    /\ IsFiniteSet(Holders(b))
    /\ slots[b] = Cardinality(Holders(b))

CallsInv ==
  /\ pace \in Paces
  /\ slots = [b \in Bucket |-> slots[b]]
  /\ TurnInv
  /\ ModeInv
  /\ CountInv
-----------------------------------------------------------------------------
(* Holders and counts.                                                     *)

\* Where nobody takes or gives back a slot, the counts stay right.
LEMMA HoldersKept ==
  ASSUME CountInv, slots' = slots,
         \A q \in Caller : /\ HasSlot(q)' <=> HasSlot(q)
                           /\ HasSlot(q) => on'[q] = on[q]
  PROVE  CountInv' /\ \A b \in Bucket : Holders(b)' = Holders(b)
<1>1. \A b \in Bucket : Holders(b)' = Holders(b)
  BY DEF Holders
<1> QED BY <1>1 DEF CountInv

\* A caller that takes a slot of bucket b becomes one of its holders.
LEMMA HolderAdded ==
  ASSUME CountInv, NEW r \in Caller, NEW b \in Bucket, on' = on, BucketOf[on[r]] = b,
         ~HasSlot(r), HasSlot(r)', \A q \in Caller \ {r} : HasSlot(q)' <=> HasSlot(q),
         slots = [d \in Bucket |-> slots[d]], slots' = [slots EXCEPT ![b] = @ + 1]
  PROVE  /\ CountInv'
         /\ Holders(b)' = Holders(b) \union {r}
         /\ \A d \in Bucket : d # b => Holders(d)' = Holders(d)
         /\ \A d \in Bucket : r \notin Holders(d)
<1>1. Holders(b)' = Holders(b) \union {r}
  BY DEF Holders
<1>2. \A d \in Bucket \ {b} : Holders(d)' = Holders(d)
  BY DEF Holders
<1>3. \A d \in Bucket : r \notin Holders(d)
  BY DEF Holders
<1>4. CountInv'
  <2>1. IsFiniteSet(Holders(b)') /\ slots'[b] = Cardinality(Holders(b)')
    BY <1>1, <1>3, FS_AddElement DEF CountInv
  <2>2. \A d \in Bucket \ {b} : IsFiniteSet(Holders(d)') /\ slots'[d] = Cardinality(Holders(d)')
    BY <1>2 DEF CountInv
  <2> QED BY <2>1, <2>2 DEF CountInv
<1> QED BY <1>1, <1>2, <1>3, <1>4

\* A holder that gives its slot back is one no longer, and the count follows.
LEMMA HolderRemoved ==
  ASSUME CountInv, NEW r \in Caller, NEW b \in Bucket, on' = on, BucketOf[on[r]] = b,
         HasSlot(r), ~HasSlot(r)', \A q \in Caller \ {r} : HasSlot(q)' <=> HasSlot(q),
         slots = [d \in Bucket |-> slots[d]], Released(b)
  PROVE  /\ CountInv'
         /\ Holders(b)' = Holders(b) \ {r}
         /\ \A d \in Bucket : d # b => Holders(d)' = Holders(d)
         /\ r \in Holders(b)
<1>1. Holders(b)' = Holders(b) \ {r}
  BY DEF Holders
<1>2. \A d \in Bucket \ {b} : Holders(d)' = Holders(d)
  BY DEF Holders
<1>3. r \in Holders(b)
  BY DEF Holders
<1>4. slots[b] \in Nat \ {0}
  BY <1>3, FS_CardinalityType, FS_EmptySet DEF CountInv
<1>5. slots' = [slots EXCEPT ![b] = slots[b] - 1]
  BY <1>4, OneLess DEF Released
<1>6. CountInv'
  <2>1. IsFiniteSet(Holders(b)') /\ slots'[b] = Cardinality(Holders(b)')
    BY <1>1, <1>3, <1>5, FS_RemoveElement DEF CountInv
  <2>2. \A d \in Bucket \ {b} : IsFiniteSet(Holders(d)') /\ slots'[d] = Cardinality(Holders(d)')
    BY <1>2, <1>5 DEF CountInv
  <2> QED BY <2>1, <2>2 DEF CountInv
<1> QED BY <1>1, <1>2, <1>3, <1>6
-----------------------------------------------------------------------------
(* The steps.  GateStays: a step the turnstile does not see.               *)

GateStays ==
  /\ pace'.limit = pace.limit
  /\ \A b \in Bucket : Holders(b)' = Holders(b)

\* Pacing is not switched while a call is under way.
CallsSteady == SwitchOnBusy = FALSE

\* A caller that moves on and neither takes nor gives back a slot.
LEMMA QuietMove ==
  ASSUME CallsInv, NEW r \in Caller, NEW t, turn' = [turn EXCEPT ![r] = t],
         t = TurnOf(t.at, t.left, t.mark), t.at \in Standing,
         t.at \in {"pacing", "granted"} <=> HasSlot(r),
         t.at \notin {"out", "done"} => on[r] \in Cred,
         IF Off(pace) THEN t.at \in {"out", "entering", "passing", "closing", "done"}
                      ELSE t.at # "passing",
         UNCHANGED <<pace, slots, on>>
  PROVE  CallsInv' /\ GateStays
<1>1. turn'[r] = t /\ \A q \in Caller \ {r} : turn'[q] = turn[q]
  BY DEF CallsInv, TurnInv
<1>2. CountInv' /\ \A b \in Bucket : Holders(b)' = Holders(b)
  <2>1. \A q \in Caller : HasSlot(q)' <=> HasSlot(q)
    BY <1>1 DEF HasSlot
  <2> QED BY <2>1, HoldersKept DEF CallsInv
<1>3. TurnInv'
  BY <1>1 DEF CallsInv, TurnInv
<1>4. ModeInv'
  BY <1>1 DEF CallsInv, ModeInv, Off
<1> QED BY <1>2, <1>3, <1>4 DEF CallsInv, GateStays

\* TurnOf is a record of its three parts.
LEMMA TurnParts ==
  ASSUME NEW w, NEW l, NEW m
  PROVE  /\ TurnOf(w, l, m).at = w /\ TurnOf(w, l, m).left = l /\ TurnOf(w, l, m).mark = m
         /\ TurnOf(w, l, m) = TurnOf(TurnOf(w, l, m).at, TurnOf(w, l, m).left, TurnOf(w, l, m).mark)
BY DEF TurnOf

\* A caller moved to another place keeps the rest of its record.
LEMMA Moved ==
  ASSUME TurnInv, NEW r \in Caller, NEW w
  PROVE  /\ [turn EXCEPT ![r].at = w] = [turn EXCEPT ![r] = TurnOf(w, turn[r].left, turn[r].mark)]
         /\ TurnOf(w, turn[r].left, turn[r].mark).at = w
<1>1. \A a, l, m : [TurnOf(a, l, m) EXCEPT !.at = w] = TurnOf(w, l, m)
  BY DEF TurnOf
<1>2. [turn[r] EXCEPT !.at = w] = TurnOf(w, turn[r].left, turn[r].mark)
  BY <1>1 DEF TurnInv
<1>3. [turn EXCEPT ![r].at = w] = [turn EXCEPT ![r] = [turn[r] EXCEPT !.at = w]]
  OBVIOUS
<1>4. TurnOf(w, turn[r].left, turn[r].mark).at = w
  BY TurnParts
<1> QED BY <1>2, <1>3, <1>4, Zenon

LEMMA StepPassFreely ==
  ASSUME CallsInv, NEW r \in Caller, PassFreely(r), UNCHANGED on
  PROVE  CallsInv' /\ GateStays
<1> DEFINE t == TurnOf("passing", turn[r].left, turn[r].mark)
<1>1. turn' = [turn EXCEPT ![r] = t]
  BY Moved DEF PassFreely, CallsInv
<1>2. t.at = "passing" /\ t = TurnOf(t.at, t.left, t.mark)
  BY TurnParts
<1>3. "passing" \in Standing /\ on[r] \in Cred /\ ~HasSlot(r) /\ Off(pace)
  BY DEF PassFreely, CallsInv, TurnInv, Standing, HasSlot
<1>4. UNCHANGED <<pace, slots>>
  BY DEF PassFreely
<1> HIDE DEF t
<1> QED BY <1>1, <1>2, <1>3, <1>4, QuietMove

LEMMA StepAwake ==
  ASSUME CallsInv, NEW r \in Caller, Awake(r), UNCHANGED on
  PROVE  CallsInv' /\ GateStays
<1> DEFINE w == IF turn[r].at = "dozing" THEN "asking" ELSE "granted"
           t == TurnOf(w, turn[r].left, turn[r].mark)
<1>1. turn' = [turn EXCEPT ![r] = t]
  <2>1. turn' = [turn EXCEPT ![r].at = w]
    BY DEF Awake
  <2> QED BY <2>1, Moved DEF CallsInv
<1>2. t.at = w /\ t = TurnOf(t.at, t.left, t.mark)
  BY TurnParts
<1>3. w \in Standing /\ on[r] \in Cred /\ (w = "granted" <=> HasSlot(r)) /\ ~Off(pace)
      /\ w \in {"asking", "granted"}
  BY DEF Awake, CallsInv, TurnInv, ModeInv, Standing, HasSlot
<1> HIDE DEF t, w
<1> QED BY <1>1, <1>2, <1>3, QuietMove DEF Awake

LEMMA StepDozeOrWait ==
  ASSUME CallsInv, NEW r \in Caller, NEW b \in Bucket, Doze(r, b) \/ Wait(r, b), UNCHANGED on
  PROVE  CallsInv' /\ GateStays
<1>0. PICK w \in {"dozing", "waiting"} :
         \E l : turn' = [turn EXCEPT ![r] = TurnOf(w, l, Absent)]
  BY DEF Doze, Wait
<1>1. PICK l : turn' = [turn EXCEPT ![r] = TurnOf(w, l, Absent)]
  BY <1>0
<1> DEFINE t == TurnOf(w, l, Absent)
<1>2. t.at = w /\ t = TurnOf(t.at, t.left, t.mark)
  BY TurnParts
<1>3. w \in Standing /\ on[r] \in Cred /\ ~HasSlot(r) /\ ~Off(pace)
  BY DEF Doze, Wait, InLoop, CallsInv, TurnInv, ModeInv, Standing, HasSlot
<1>4. turn' = [turn EXCEPT ![r] = t]
  BY <1>1
<1> HIDE DEF t
<1> QED BY <1>2, <1>3, <1>4, QuietMove DEF Doze, Wait

LEMMA StepCancelWait ==
  ASSUME CallsInv, NEW r \in Caller, CancelWait(r), UNCHANGED on
  PROVE  CallsInv' /\ GateStays
<1> DEFINE t == TurnOf("closing", 0, Absent)
<1>1. turn' = [turn EXCEPT ![r] = t]
  BY DEF CancelWait
<1>2. t.at = "closing" /\ t = TurnOf(t.at, t.left, t.mark)
  BY TurnParts
<1>3. "closing" \in Standing /\ on[r] \in Cred /\ ~HasSlot(r)
  BY DEF CancelWait, CallsInv, TurnInv, Standing, HasSlot
<1>4. UNCHANGED <<pace, slots>>
  BY DEF CancelWait
<1> HIDE DEF t
<1> QED BY <1>1, <1>2, <1>3, <1>4, QuietMove
\* A slot is taken where the pacer has one left.
LEMMA StepTakeSlot ==
  ASSUME CallsInv, NEW r \in Caller, NEW b \in Bucket, BucketOf[on[r]] = b,
         TakeSlot(r, b), UNCHANGED on
  PROVE  /\ CallsInv'
         /\ pace.limit = 0 \/ Cardinality(Holders(b)) < pace.limit
         /\ \A d \in Bucket : r \notin Holders(d)
         /\ Holders(b)' = Holders(b) \union {r}
         /\ \A d \in Bucket : d # b => Holders(d)' = Holders(d)
<1>0. PICK w \in {"granted", "pacing"} :
         \E l, m : turn' = [turn EXCEPT ![r] = TurnOf(w, l, m)]
  BY DEF TakeSlot
<1>1. PICK l, m : turn' = [turn EXCEPT ![r] = TurnOf(w, l, m)]
  BY <1>0
<1>2. UNCHANGED pace /\ slots' = [slots EXCEPT ![b] = @ + 1] /\ ~SlotsFull(b) /\ InLoop(r)
  BY DEF TakeSlot
<1> DEFINE t == TurnOf(w, l, m)
<1>3. t.at = w /\ t = TurnOf(t.at, t.left, t.mark) /\ turn' = [turn EXCEPT ![r] = t]
  BY <1>1, TurnParts
<1> HIDE DEF t
<1>4. turn'[r] = t /\ \A q \in Caller \ {r} : turn'[q] = turn[q]
  BY <1>3 DEF CallsInv, TurnInv
<1>5. w \in Standing /\ on[r] \in Cred /\ ~HasSlot(r) /\ ~Off(pace)
  BY <1>2 DEF InLoop, CallsInv, TurnInv, ModeInv, Standing, HasSlot
<1>6. HasSlot(r)' /\ \A q \in Caller \ {r} : HasSlot(q)' <=> HasSlot(q)
  BY <1>3, <1>4 DEF HasSlot
<1>7. /\ CountInv'
      /\ Holders(b)' = Holders(b) \union {r}
      /\ \A d \in Bucket : d # b => Holders(d)' = Holders(d)
      /\ \A d \in Bucket : r \notin Holders(d)
  BY <1>2, <1>5, <1>6, HolderAdded DEF CallsInv
<1>8. TurnInv'
  BY <1>3, <1>4, <1>5 DEF CallsInv, TurnInv
<1>9. ModeInv'
  BY <1>2, <1>3, <1>4, <1>5 DEF CallsInv, ModeInv, Off
<1>10. pace.limit = 0 \/ Cardinality(Holders(b)) < pace.limit
  <2>1. pace.limit \in Nat
    BY PacerConstants DEF CallsInv, PaceType
  <2>2. slots[b] \in Nat /\ slots[b] = Cardinality(Holders(b))
    BY FS_CardinalityType DEF CallsInv, CountInv
  <2> QED BY <1>2, <2>1, <2>2 DEF SlotsFull, Capped
<1>11. CallsInv'
  BY <1>2, <1>7, <1>8, <1>9 DEF CallsInv
<1> QED BY <1>7, <1>10, <1>11

\* What the callers are after one of them gave back a slot: it goes away, and those
\* who waited for one look again.
LEMMA WokenTurns ==
  ASSUME CallsInv, NEW r \in Caller, NEW b \in Bucket, turn' = Woken(r, "closing", b),
         UNCHANGED <<pace, on>>, turn[r].at \notin {"out", "done"}
  PROVE  /\ TurnInv' /\ ModeInv'
         /\ ~HasSlot(r)'
         /\ \A q \in Caller \ {r} : HasSlot(q)' <=> HasSlot(q)
<1>1. /\ turn' = [q \in Caller |-> turn'[q]]
      /\ turn'[r] = TurnOf("closing", 0, Absent)
      /\ \A q \in Caller \ {r} : \/ turn'[q] = turn[q]
                                 \/ turn[q].at = "waiting" /\ turn'[q] = TurnOf("asking", 0, Absent)
  BY DEF Woken
<1>2. TurnInv'
  BY <1>1, TurnParts DEF CallsInv, TurnInv, Standing
<1>3. ModeInv'
  BY <1>1, TurnParts DEF CallsInv, ModeInv, Off
<1>4. ~HasSlot(r)' /\ \A q \in Caller \ {r} : HasSlot(q)' <=> HasSlot(q)
  BY <1>1, TurnParts DEF HasSlot
<1> QED BY <1>2, <1>3, <1>4

\* A call that is over, or a cancelled sleep, gives back the slot it had; who passed
\* freely had none, and there was none to give back.
LEMMA StepGiveBack ==
  ASSUME CallsInv, NEW r \in Caller, NEW b \in Bucket, BucketOf[on[r]] = b,
         Release(r, b) \/ CancelSleep(r, b), UNCHANGED on
  PROVE  /\ CallsInv'
         /\ UNCHANGED pace
         /\ \/ GateStays
            \/ /\ r \in Holders(b)
               /\ Holders(b)' = Holders(b) \ {r}
               /\ \A d \in Bucket : d # b => Holders(d)' = Holders(d)
<1>1. /\ turn' = Woken(r, "closing", b) /\ Released(b) /\ UNCHANGED pace
      /\ turn[r].at \in {"granted", "passing", "pacing"}
  BY DEF Release, CancelSleep
<1>2. /\ TurnInv' /\ ModeInv'
      /\ ~HasSlot(r)'
      /\ \A q \in Caller \ {r} : HasSlot(q)' <=> HasSlot(q)
  BY <1>1, WokenTurns
<1>3. slots' = [d \in Bucket |-> slots'[d]]
  BY <1>1 DEF Released, CallsInv
<1>4. CASE HasSlot(r)
  <2>1. /\ CountInv'
        /\ Holders(b)' = Holders(b) \ {r}
        /\ \A d \in Bucket : d # b => Holders(d)' = Holders(d)
        /\ r \in Holders(b)
    BY <1>1, <1>2, <1>4, HolderRemoved DEF CallsInv
  <2> QED BY <1>1, <1>2, <1>3, <2>1 DEF CallsInv
<1>5. CASE ~HasSlot(r)
  <2>1. turn[r].at = "passing" /\ Off(pace)
    BY <1>1, <1>5 DEF HasSlot, CallsInv, ModeInv
  <2>2. \A q \in Caller : ~HasSlot(q)
    BY <2>1 DEF HasSlot, CallsInv, ModeInv
  <2>3. slots[b] = 0
    <3>1. Holders(b) = {}
      BY <2>2 DEF Holders
    <3> QED BY <3>1, FS_EmptySet DEF CallsInv, CountInv
  <2>4. slots' = slots
    BY <1>1, <2>3, OneLess DEF Released, CallsInv
  <2>5. CountInv' /\ \A d \in Bucket : Holders(d)' = Holders(d)
    BY <1>2, <1>5, <2>4, HoldersKept DEF CallsInv
  <2> QED BY <1>1, <1>2, <1>3, <2>5 DEF CallsInv, GateStays
<1> QED BY <1>4, <1>5
\* An attempt arrives on the credential that was chosen for it ...
LEMMA StepChoose ==
  ASSUME CallsInv, NEW r \in Caller, NEW c \in Cred, Choose(r, c)
  PROVE  CallsInv' /\ GateStays
<1> DEFINE t == TurnOf("entering", turn[r].left, turn[r].mark)
<1>1. /\ turn' = [turn EXCEPT ![r] = t]
      /\ on' = [on EXCEPT ![r] = c] /\ UNCHANGED <<pace, slots>> /\ turn[r].at = "out"
  BY Moved DEF Choose, CallsInv
<1>2. t.at = "entering" /\ t = TurnOf(t.at, t.left, t.mark)
  BY TurnParts
<1> HIDE DEF t
<1>3. turn'[r] = t /\ on'[r] = c /\ \A q \in Caller \ {r} : turn'[q] = turn[q] /\ on'[q] = on[q]
  BY <1>1 DEF CallsInv, TurnInv
<1>4. CountInv' /\ \A b \in Bucket : Holders(b)' = Holders(b)
  <2>1. \A q \in Caller : (HasSlot(q)' <=> HasSlot(q)) /\ (HasSlot(q) => on'[q] = on[q])
    BY <1>1, <1>2, <1>3 DEF HasSlot
  <2> QED BY <1>1, <2>1, HoldersKept DEF CallsInv
<1>5. TurnInv'
  BY <1>1, <1>2, <1>3 DEF CallsInv, TurnInv, Standing
<1>6. ModeInv'
  BY <1>1, <1>2, <1>3 DEF CallsInv, ModeInv, Off
<1> QED BY <1>1, <1>4, <1>5, <1>6 DEF CallsInv, GateStays

\* ... and leaves it when it is closed.
LEMMA StepEnded ==
  ASSUME CallsInv, NEW r \in Caller, Ended(r)
  PROVE  CallsInv' /\ GateStays
<1> DEFINE t == TurnOf("done", turn[r].left, turn[r].mark)
<1>1. /\ turn' = [turn EXCEPT ![r] = t]
      /\ on' = [on EXCEPT ![r] = Absent] /\ UNCHANGED <<pace, slots>> /\ turn[r].at = "closing"
  BY Moved DEF Ended, CallsInv
<1>2. t.at = "done" /\ t = TurnOf(t.at, t.left, t.mark)
  BY TurnParts
<1> HIDE DEF t
<1>3. turn'[r] = t /\ \A q \in Caller \ {r} : turn'[q] = turn[q] /\ on'[q] = on[q]
  BY <1>1 DEF CallsInv, TurnInv
<1>4. CountInv' /\ \A b \in Bucket : Holders(b)' = Holders(b)
  <2>1. \A q \in Caller : (HasSlot(q)' <=> HasSlot(q)) /\ (HasSlot(q) => on'[q] = on[q])
    BY <1>1, <1>2, <1>3 DEF HasSlot
  <2> QED BY <1>1, <2>1, HoldersKept DEF CallsInv
<1>5. TurnInv'
  BY <1>1, <1>2, <1>3 DEF CallsInv, TurnInv, Standing
<1>6. ModeInv'
  BY <1>1, <1>2, <1>3 DEF CallsInv, ModeInv, Off
<1> QED BY <1>1, <1>4, <1>5, <1>6 DEF CallsInv, GateStays

\* Time moves nobody.
LEMMA StepAge ==
  ASSUME CallsInv, PacerAge, UNCHANGED on
  PROVE  CallsInv' /\ GateStays
<1>1. /\ turn' = [r \in Caller |-> turn'[r]] /\ UNCHANGED <<pace, slots>>
      /\ \A r \in Caller : \E l, m : turn'[r] = TurnOf(turn[r].at, l, m)
  <2>1. turn' = [r \in Caller |-> turn'[r]] /\ UNCHANGED <<pace, slots>>
    BY DEF PacerAge
  <2>2. ASSUME NEW r \in Caller PROVE \E l, m : turn'[r] = TurnOf(turn[r].at, l, m)
    <3> DEFINE n == Max({turn[r].left - 1, 0})
               k == IF turn[r].mark = Absent THEN Absent
                    ELSE Min({turn[r].mark + 1, LongestWindow})
    <3>1. turn'[r] = [turn[r] EXCEPT !.left = n, !.mark = k]
      BY Zenon DEF PacerAge
    <3> HIDE DEF n, k
    <3>2. turn[r] = TurnOf(turn[r].at, turn[r].left, turn[r].mark)
      BY DEF CallsInv, TurnInv
    <3>3. [turn[r] EXCEPT !.left = n] = TurnOf(turn[r].at, n, turn[r].mark)
      <4>1. \A a, l, m : [TurnOf(a, l, m) EXCEPT !.left = n] = TurnOf(a, n, m)
        BY DEF TurnOf
      <4> QED BY <3>2, <4>1
    <3>4. [TurnOf(turn[r].at, n, turn[r].mark) EXCEPT !.mark = k] = TurnOf(turn[r].at, n, k)
      BY DEF TurnOf
    <3>5. [turn[r] EXCEPT !.left = n, !.mark = k] = [[turn[r] EXCEPT !.left = n] EXCEPT !.mark = k]
      OBVIOUS
    <3> QED BY <3>1, <3>3, <3>4, <3>5, Zenon
  <2> QED BY <2>1, <2>2
<1>2. \A r \in Caller : /\ turn'[r].at = turn[r].at
                        /\ turn'[r] = TurnOf(turn'[r].at, turn'[r].left, turn'[r].mark)
  BY <1>1, TurnParts
<1>3. CountInv' /\ \A b \in Bucket : Holders(b)' = Holders(b)
  <2>1. \A q \in Caller : HasSlot(q)' <=> HasSlot(q)
    BY <1>2 DEF HasSlot
  <2> QED BY <1>1, <2>1, HoldersKept DEF CallsInv
<1>4. TurnInv'
  BY <1>1, <1>2 DEF CallsInv, TurnInv
<1>5. ModeInv'
  BY <1>1, <1>2 DEF CallsInv, ModeInv, Off
<1> QED BY <1>1, <1>3, <1>4, <1>5 DEF CallsInv, GateStays

\* New settings change how many the turnstile admits, and nothing else.
LEMMA StepSetPace ==
  ASSUME CallsInv, CallsSteady, SetPace, UNCHANGED on
  PROVE  CallsInv' /\ \A b \in Bucket : Holders(b)' = Holders(b)
<1>1. /\ pace' \in Paces /\ UNCHANGED <<slots, turn>>
      /\ \/ ~Off(pace) /\ ~Off(pace')
         \/ \A r \in Caller : turn[r].at \in {"out", "entering", "closing", "done"}
  BY DEF SetPace, CallsSteady
<1>2. CountInv' /\ \A b \in Bucket : Holders(b)' = Holders(b)
  <2>1. \A q \in Caller : HasSlot(q)' <=> HasSlot(q)
    BY <1>1 DEF HasSlot
  <2> QED BY <1>1, <2>1, HoldersKept DEF CallsInv
<1>3. TurnInv'
  BY <1>1 DEF CallsInv, TurnInv
<1>4. ModeInv'
  <2>1. CASE ~Off(pace) /\ ~Off(pace')
    <3>1. ~Off(pace)'
      BY <2>1 DEF Off
    <3> QED BY <1>1, <2>1, <3>1 DEF CallsInv, ModeInv
  <2>2. CASE \A r \in Caller : turn[r].at \in {"out", "entering", "closing", "done"}
    BY <1>1, <2>2 DEF ModeInv
  <2> QED BY <1>1, <2>1, <2>2
<1> QED BY <1>1, <1>2, <1>3, <1>4 DEF CallsInv
-----------------------------------------------------------------------------
(* Numbers and lists of ages.                                              *)

\* A set of numbers has a least one, and Min is it.
LEMMA LeastNumber ==
  ASSUME NEW S \in SUBSET Nat, S # {}
  PROVE  Min(S) \in S /\ \A y \in S : Min(S) <= y
<1>1. PICK x \in S : \A y \in S : <<y, x>> \notin OpToRel(<, Nat)
  BY NatLessThanWellFounded, WFMin, Zenon
<1>2. \A y \in S : ~(y < x)
  <2>1. \A a, b \in Nat : a < b => <<a, b>> \in OpToRel(<, Nat)
    BY Zenon DEF OpToRel
  <2> QED BY <1>1, <2>1, Zenon
<1>3. \A y \in S : x <= y
  BY <1>2
<1> QED BY <1>3 DEF Min

\* Of finitely many numbers none is above all bounds.
LEMMA FiniteBounded ==
  ASSUME NEW S \in SUBSET Nat, IsFiniteSet(S)
  PROVE  \E m \in Nat : \A x \in S : x <= m
<1>1. Cardinality(S) \in Nat /\ ExistsBijection(1..Cardinality(S), S)
  BY FS_CardinalityType
<1>2. PICK f \in Bijection(1..Cardinality(S), S) : TRUE
  BY <1>1 DEF ExistsBijection
<1>3. f \in [1..Cardinality(S) -> S] /\ \A x \in S : \E i \in 1..Cardinality(S) : f[i] = x
  BY <1>2 DEF Bijection, Surjection, Injection
<1> DEFINE bounds(k, m) == \A i \in 1..Cardinality(S) : i <= k => f[i] <= m
           free == {k \in Nat : ~\E m \in Nat : bounds(k, m)}
<1>4. free = {}
  <2>1. SUFFICES ASSUME free # {} PROVE FALSE
    OBVIOUS
  <2>2. PICK k \in free : \A y \in free : k <= y
    <3>1. free \in SUBSET Nat
      OBVIOUS
    <3> HIDE DEF free
    <3> QED BY <2>1, <3>1, LeastNumber
  <2>3. k \in Nat /\ ~\E m \in Nat : bounds(k, m)
    OBVIOUS
  <2> HIDE DEF free
  <2>4. k # 0
    <3>1. bounds(0, 0)
      BY <1>1
    <3> QED BY <2>3, <3>1
  <2>5. k - 1 \in Nat /\ ~(k <= k - 1)
    BY <2>3, <2>4
  <2>6. PICK m \in Nat : bounds(k - 1, m)
    BY <2>2, <2>5 DEF free
  <2>7. CASE k \in 1..Cardinality(S)
    <3>1. f[k] \in Nat
      BY <1>3, <2>7
    <3> DEFINE top == IF f[k] <= m THEN m ELSE f[k]
    <3>2. top \in Nat /\ m <= top /\ f[k] <= top
      <4> HIDE DEF bounds
      <4>1. CASE f[k] <= m
        BY <3>1, <4>1
      <4>2. CASE ~(f[k] <= m)
        BY <3>1, <4>2
      <4> QED BY <4>1, <4>2
    <3> HIDE DEF top
    <3>3. ASSUME NEW i \in 1..Cardinality(S), i <= k PROVE f[i] <= top
      <4>1. CASE i = k
        BY <3>2, <4>1
      <4>2. CASE i # k
        <5>0. f[i] \in Nat
          BY <1>3
        <5>1. i <= k - 1 /\ f[i] \in Nat
          <6> HIDE DEF bounds
          <6>1. i \in Nat /\ k \in Nat /\ i <= k
            BY <1>1, <2>3, <3>3
          <6> QED BY <4>2, <5>0, <6>1
        <5>2. f[i] <= m
          BY <2>6, <5>1
        <5> HIDE DEF bounds
        <5> QED BY <3>2, <5>1, <5>2
      <4> QED BY <4>1, <4>2
    <3>4. bounds(k, top)
      BY <3>3
    <3> QED BY <2>3, <3>2, <3>4
  <2>8. CASE k \notin 1..Cardinality(S)
    <3>1. bounds(k, m)
      BY <1>1, <2>3, <2>6, <2>8
    <3> QED BY <2>3, <3>1
  <2> QED BY <2>7, <2>8
<1>5. PICK m \in Nat : bounds(Cardinality(S), m)
  BY <1>1, <1>4
<1>6. ASSUME NEW x \in S PROVE x <= m
  BY <1>1, <1>3, <1>5
<1> QED BY <1>6

\* Max of finitely many numbers is one of them and above the others.
LEMMA GreatestNumber ==
  ASSUME NEW S \in SUBSET Nat, IsFiniteSet(S), S # {}
  PROVE  Max(S) \in S /\ \A y \in S : Max(S) >= y
<1> DEFINE tops == {m \in Nat : \A x \in S : x <= m}
<1>1. tops # {} /\ tops \in SUBSET Nat
  BY FiniteBounded
<1>2. PICK m \in tops : \A y \in tops : m <= y
  <2> HIDE DEF tops
  <2> QED BY <1>1, LeastNumber
<1>3. m \in S
  <2>1. SUFFICES ASSUME m \notin S PROVE FALSE
    OBVIOUS
  <2>2. \A x \in S : x <= m - 1 /\ x \in Nat
    BY <1>2, <2>1
  <2>3. m - 1 \in tops
    <3>1. PICK x \in S : TRUE
      OBVIOUS
    <3>2. m \in Nat /\ x <= m - 1 /\ x \in Nat
      BY <1>2, <2>2
    <3>3. m - 1 \in Nat
      BY <3>2
    <3> QED BY <2>2, <3>3
  <2> QED BY <1>2, <2>3
<1>4. \E x \in S : \A y \in S : x >= y
  BY <1>2, <1>3
<1> QED BY <1>4 DEF Max

\* What is left of a list of ages is a list of ages, not longer, and starts with one
\* below the limit.
LEMMA YoungerLists ==
  ASSUME NEW n \in Nat, NEW s \in Seq(0..n), NEW most \in Nat
  PROVE  /\ Younger(s, most) \in Seq(0..n)
         /\ Len(Younger(s, most)) \in Nat /\ Len(Younger(s, most)) <= Len(s)
         /\ Len(Younger(s, most)) > 0 => Head(Younger(s, most)) \in 0..n /\ Head(Younger(s, most)) < most
<1> DEFINE young == {i \in DOMAIN s : s[i] < most}
<1>1. Len(s) \in Nat /\ DOMAIN s = 1..Len(s) /\ \A i \in 1..Len(s) : s[i] \in 0..n
  BY LenProperties
<1>2. CASE young = {}
  <2>1. Younger(s, most) = <<>>
    BY <1>2 DEF Younger
  <2> QED BY <1>1, <2>1
<1>3. CASE young # {}
  <2>1. young \in SUBSET Nat
    BY <1>1
  <2>2. Min(young) \in young
    <3> HIDE DEF young
    <3> QED BY <1>3, <2>1, LeastNumber
  <2>3. Younger(s, most) = SubSeq(s, Min(young), Len(s))
    BY <1>3 DEF Younger
  <2>4. Min(young) \in 1..Len(s) /\ s[Min(young)] < most
    BY <1>1, <2>2
  <2> DEFINE m == Min(young)
             rest == SubSeq(s, m, Len(s))
  <2> HIDE DEF young, m
  <2>5. m \in 1..Len(s) /\ s[m] < most /\ Younger(s, most) = rest
    BY <2>3, <2>4 DEF m
  <2>6. /\ rest \in Seq(0..n) /\ Len(rest) = Len(s) - m + 1
        /\ \A i \in 1 .. Len(s) - m + 1 : rest[i] = s[m + i - 1]
    BY <1>1, <2>5, SubSeqProperties
  <2> HIDE DEF rest
  <2>8. Head(rest) = s[m]
    <3>1. Len(s) \in m .. Len(s)
      BY <1>1, <2>5
    <3> QED BY <2>5, <3>1, HeadTailOfSubSeq DEF rest
  <2>9. Len(rest) \in Nat /\ Len(rest) <= Len(s) /\ s[m] \in 0..n
    BY <1>1, <2>5, <2>6
  <2> QED BY <2>5, <2>6, <2>8, <2>9
<1> QED BY <1>2, <1>3

\* How many are left: all from the first below the limit on.
LEMMA YoungerLength ==
  ASSUME NEW n \in Nat, NEW s \in Seq(0..n), NEW most \in Nat
  PROVE  \/ /\ Len(Younger(s, most)) = 0
            /\ \A i \in 1..Len(s) : ~(s[i] < most)
         \/ \E m \in 1..Len(s) :
              /\ Len(Younger(s, most)) = Len(s) - m + 1
              /\ s[m] < most
              /\ \A i \in 1..Len(s) : s[i] < most => m <= i
<1> DEFINE young == {i \in DOMAIN s : s[i] < most}
<1>1. Len(s) \in Nat /\ DOMAIN s = 1..Len(s) /\ \A i \in 1..Len(s) : s[i] \in 0..n
  BY LenProperties
<1>2. CASE young = {}
  <2>1. Younger(s, most) = <<>>
    BY <1>2 DEF Younger
  <2> QED BY <1>1, <1>2, <2>1
<1>3. CASE young # {}
  <2>1. young \in SUBSET Nat
    BY <1>1
  <2>2. Min(young) \in young /\ \A i \in young : Min(young) <= i
    <3> HIDE DEF young
    <3> QED BY <1>3, <2>1, LeastNumber
  <2>3. Younger(s, most) = SubSeq(s, Min(young), Len(s))
    BY <1>3 DEF Younger
  <2>4. Min(young) \in 1..Len(s) /\ s[Min(young)] < most /\ \A i \in 1..Len(s) : s[i] < most => Min(young) <= i
    BY <1>1, <2>2
  <2> HIDE DEF young
  <2>5. Len(SubSeq(s, Min(young), Len(s))) = Len(s) - Min(young) + 1
    BY <1>1, <2>4, SubSeqProperties
  <2> QED BY <2>3, <2>4, <2>5
<1> QED BY <1>2, <1>3

\* A list whose young ones are at the same places or fewer has no more left.
LEMMA YoungerFewer ==
  ASSUME NEW n \in Nat, NEW s \in Seq(0..n), NEW t \in Seq(0..n), NEW most \in Nat,
         Len(t) = Len(s), \A i \in 1..Len(s) : t[i] < most => s[i] < most
  PROVE  Len(Younger(t, most)) <= Len(Younger(s, most))
<1>1. Len(s) \in Nat
  BY LenProperties
<1>2. CASE Len(Younger(t, most)) = 0
  BY <1>2, YoungerLists
<1>3. CASE \E m \in 1..Len(t) : Len(Younger(t, most)) = Len(t) - m + 1 /\ t[m] < most
  <2>1. PICK m \in 1..Len(t) : Len(Younger(t, most)) = Len(t) - m + 1 /\ t[m] < most
    BY <1>3
  <2>2. s[m] < most
    BY <2>1
  <2>3. PICK k \in 1..Len(s) : /\ Len(Younger(s, most)) = Len(s) - k + 1
                               /\ \A i \in 1..Len(s) : s[i] < most => k <= i
    BY <2>1, <2>2, YoungerLength
  <2>4. k <= m
    BY <2>1, <2>2, <2>3
  <2> QED BY <1>1, <2>1, <2>3, <2>4
<1> QED BY <1>2, <1>3, YoungerLength

\* Without its last entry a list has one less left, if it had any.
LEMMA FrontYounger ==
  ASSUME NEW n \in Nat, NEW s \in Seq(0..n), s # <<>>, NEW most \in Nat
  PROVE  /\ Front(s) \in Seq(0..n)
         /\ Len(Younger(Front(s), most)) = IF Len(Younger(s, most)) = 0 THEN 0
                                           ELSE Len(Younger(s, most)) - 1
<1>1. Len(s) \in Nat \ {0}
  BY LenProperties, EmptySeq
<1>2. /\ Front(s) \in Seq(0..n) /\ Len(Front(s)) = Len(s) - 1
      /\ \A i \in 1 .. Len(s) - 1 : Front(s)[i] = s[i]
  <2>1. Front(s) = SubSeq(s, 1, Len(s) - 1)
    BY DEF Front
  <2>2. Len(s) - 1 \in Nat /\ \A i \in 1 .. Len(s) - 1 : i \in 1..Len(s)
    BY <1>1
  <2>3. \A i \in 1 .. Len(s) - 1 : s[i] \in 0..n
    BY <2>2, ElementOfSeq
  <2>4. /\ SubSeq(s, 1, Len(s) - 1) \in Seq(0..n)
        /\ Len(SubSeq(s, 1, Len(s) - 1)) = IF 1 <= Len(s) - 1 THEN (Len(s) - 1) - 1 + 1 ELSE 0
        /\ \A i \in 1 .. (Len(s) - 1) - 1 + 1 : SubSeq(s, 1, Len(s) - 1)[i] = s[1 + i - 1]
    BY <2>2, <2>3, SubSeqProperties
  <2>5. (IF 1 <= Len(s) - 1 THEN (Len(s) - 1) - 1 + 1 ELSE 0) = Len(s) - 1
    <3>1. \A k \in Nat \ {0} : (IF 1 <= k - 1 THEN (k - 1) - 1 + 1 ELSE 0) = k - 1
      OBVIOUS
    <3> QED BY <1>1, <3>1
  <2>6. \A i \in 1 .. Len(s) - 1 : i \in 1 .. (Len(s) - 1) - 1 + 1 /\ 1 + i - 1 = i
    BY <2>2
  <2> QED BY <2>1, <2>4, <2>5, <2>6
<1>3. CASE \A i \in 1..Len(s) : ~(s[i] < most)
  <2>1. Len(Younger(s, most)) = 0
    BY <1>3, YoungerLength
  <2>2. \A i \in 1..Len(Front(s)) : ~(Front(s)[i] < most)
    BY <1>1, <1>2, <1>3
  <2>3. Len(Younger(Front(s), most)) = 0
    BY <1>2, <2>2, YoungerLength
  <2> QED BY <1>2, <2>1, <2>3
<1>4. CASE \E i \in 1..Len(s) : s[i] < most
  <2>1. PICK m \in 1..Len(s) :
          /\ Len(Younger(s, most)) = Len(s) - m + 1 /\ s[m] < most
          /\ \A i \in 1..Len(s) : s[i] < most => m <= i
    BY <1>4, YoungerLength
  <2>2. CASE m = Len(s)
    <3>0. \A i \in 1 .. Len(s) - 1 : i \in 1..Len(s) /\ ~(Len(s) <= i)
      BY <1>1
    <3>1. \A i \in 1..Len(Front(s)) : ~(Front(s)[i] < most)
      BY <1>2, <2>1, <2>2, <3>0
    <3>2. Len(Younger(Front(s), most)) = 0
      BY <1>2, <3>1, YoungerLength
    <3> QED BY <1>1, <1>2, <2>1, <2>2, <3>2
  <2>3. CASE m # Len(s)
    <3>1. m \in 1..Len(Front(s)) /\ Front(s)[m] < most
      BY <1>1, <1>2, <2>1, <2>3
    <3>2. PICK k \in 1..Len(Front(s)) :
            /\ Len(Younger(Front(s), most)) = Len(Front(s)) - k + 1 /\ Front(s)[k] < most
            /\ \A i \in 1..Len(Front(s)) : Front(s)[i] < most => k <= i
      BY <1>2, <3>1, YoungerLength
    <3>3. k \in 1 .. Len(s) - 1 /\ k \in 1..Len(s) /\ Front(s)[k] = s[k]
      BY <1>1, <1>2, <3>2
    <3>4. k <= m /\ m <= k
      BY <2>1, <3>1, <3>2, <3>3
    <3>5. k = m
      BY <1>1, <3>3, <3>4
    <3> QED BY <1>1, <1>2, <2>1, <3>2, <3>5
  <2> QED BY <2>2, <2>3
<1> QED BY <1>3, <1>4

\* The least of two numbers.
LEMMA LessOfTwo ==
  ASSUME NEW a \in Int, NEW b \in Int
  PROVE  Min({a, b}) = IF a <= b THEN a ELSE b
<1>1. \E x \in {a, b} : \A y \in {a, b} : x <= y
  BY SMT
<1>2. Min({a, b}) \in {a, b} /\ \A y \in {a, b} : Min({a, b}) <= y
  BY <1>1 DEF Min
<1> QED BY <1>2

\* The greatest of a number and none.
LEMMA NotBelowNone ==
  ASSUME NEW a \in Int
  PROVE  Max({a, 0}) \in Nat
<1>1. \E x \in {a, 0} : \A y \in {a, 0} : x >= y
  BY SMT
<1>2. Max({a, 0}) \in {a, 0} /\ \A y \in {a, 0} : Max({a, 0}) >= y
  BY <1>1 DEF Max
<1> QED BY <1>2

\* Time makes every entry of a list older, up to the cap.
LEMMA ListAges ==
  ASSUME NEW n \in Nat, NEW s \in Seq(0..n), NEW t,
         t = [i \in DOMAIN s |-> Min({s[i] + 1, n})]
  PROVE  /\ t \in Seq(0..n) /\ Len(t) = Len(s)
         /\ \A i \in 1..Len(s) : t[i] < n => s[i] < n
<1>1. Len(s) \in Nat /\ DOMAIN s = 1..Len(s) /\ \A i \in 1..Len(s) : s[i] \in 0..n
  BY LenProperties
<1>2. \A i \in 1..Len(s) : t[i] = IF s[i] + 1 <= n THEN s[i] + 1 ELSE n
  BY <1>1, LessOfTwo
<1>3. \A i \in 1..Len(s) : t[i] \in 0..n /\ (t[i] < n => s[i] < n)
  BY <1>1, <1>2
<1>4. t = [i \in 1..Len(s) |-> t[i]]
  BY <1>1
<1> HIDE <1>2
<1>5. t \in [1..Len(s) -> 0..n]
  BY <1>3, <1>4
<1>6. t \in Seq(0..n) /\ Len(t) = Len(s)
  <2>1. t \in Seq(0..n)
    BY <1>1, <1>5, SeqDef
  <2>2. DOMAIN t = 1..Len(s) /\ DOMAIN t = 1..Len(t) /\ Len(t) \in Nat
    BY <1>5, <2>1, LenProperties
  <2> QED BY <1>1, <2>1, <2>2
<1> QED BY <1>3, <1>6

\* A list without one of its entries.
LEMMA UnmarkedLists ==
  ASSUME NEW n \in Nat, NEW s \in Seq(0..n), NEW mark
  PROVE  Unmarked(s, mark) \in Seq(0..n) /\ Len(Unmarked(s, mark)) \in Nat
         /\ Len(Unmarked(s, mark)) <= Len(s)
<1> DEFINE own == {i \in DOMAIN s : s[i] = mark}
<1>1. Len(s) \in Nat /\ DOMAIN s = 1..Len(s)
  BY LenProperties
<1>2. CASE own = {}
  <2>1. Unmarked(s, mark) = s
    BY <1>2 DEF Unmarked
  <2> QED BY <1>1, <2>1
<1>3. CASE own # {}
  <2>1. own \in SUBSET Nat
    BY <1>1
  <2>2. Min(own) \in own
    <3> HIDE DEF own
    <3> QED BY <1>3, <2>1, LeastNumber
  <2>3. Unmarked(s, mark) = RemoveAt(s, Min(own))
    BY <1>3 DEF Unmarked
  <2> DEFINE m == Min(own)
  <2>4. m \in 1..Len(s)
    BY <1>1, <2>2
  <2> HIDE DEF own, m
  <2>5. Unmarked(s, mark) = SubSeq(s, 1, m - 1) \o SubSeq(s, m + 1, Len(s))
    BY <2>3 DEF RemoveAt, m
  <2>6. SubSeq(s, 1, m - 1) \in Seq(0..n) /\ Len(SubSeq(s, 1, m - 1)) = m - 1
    <3>1. m - 1 \in Int /\ \A i \in 1 .. m - 1 : i \in 1..Len(s)
      BY <1>1, <2>4
    <3>2. \A i \in 1 .. m - 1 : s[i] \in 0..n
      BY <3>1, ElementOfSeq
    <3>3. SubSeq(s, 1, m - 1) \in Seq(0..n)
          /\ Len(SubSeq(s, 1, m - 1)) = IF 1 <= m - 1 THEN (m - 1) - 1 + 1 ELSE 0
      BY <3>1, <3>2, SubSeqProperties
    <3>4. (IF 1 <= m - 1 THEN (m - 1) - 1 + 1 ELSE 0) = m - 1
      BY <1>1, <2>4
    <3> QED BY <3>3, <3>4
  <2>7. SubSeq(s, m + 1, Len(s)) \in Seq(0..n) /\ Len(SubSeq(s, m + 1, Len(s))) = Len(s) - m
    <3>1. m + 1 \in Int /\ \A i \in m + 1 .. Len(s) : i \in 1..Len(s)
      BY <1>1, <2>4
    <3>2. \A i \in m + 1 .. Len(s) : s[i] \in 0..n
      BY <3>1, ElementOfSeq
    <3>3. SubSeq(s, m + 1, Len(s)) \in Seq(0..n)
          /\ Len(SubSeq(s, m + 1, Len(s))) = IF m + 1 <= Len(s) THEN Len(s) - (m + 1) + 1 ELSE 0
      BY <1>1, <3>1, <3>2, SubSeqProperties
    <3>4. (IF m + 1 <= Len(s) THEN Len(s) - (m + 1) + 1 ELSE 0) = Len(s) - m
      <4>1. \A k \in Nat : \A l \in 1..k : (IF l + 1 <= k THEN k - (l + 1) + 1 ELSE 0) = k - l
        OBVIOUS
      <4> QED BY <1>1, <2>4, <4>1
    <3> QED BY <3>3, <3>4
  <2> DEFINE low == SubSeq(s, 1, m - 1)
             high == SubSeq(s, m + 1, Len(s))
  <2> HIDE DEF low, high
  <2>8. low \o high \in Seq(0..n) /\ Len(low \o high) = Len(low) + Len(high)
    BY <2>6, <2>7, ConcatProperties DEF low, high
  <2>9. Len(low) + Len(high) \in Nat /\ Len(low) + Len(high) <= Len(s)
    <3>1. Len(low) = m - 1 /\ Len(high) = Len(s) - m
      BY <2>6, <2>7 DEF low, high
    <3>2. \A k \in Nat : \A l \in 1..k : (l - 1) + (k - l) \in Nat /\ (l - 1) + (k - l) <= k
      OBVIOUS
    <3> QED BY <1>1, <2>4, <3>1, <3>2
  <2> QED BY <2>5, <2>8, <2>9 DEF low, high
<1> QED BY <1>2, <1>3
-----------------------------------------------------------------------------
(* What the pacer keeps per bucket and per caller.                         *)

MostPlaces == Max({p.limit : p \in Paces})

PacerHeld ==
  /\ begun \in [Bucket -> Int \union {Absent}]
  /\ starts \in [Bucket -> Seq(0 .. LongestWindow)]
  /\ \A b \in Bucket : Len(starts[b]) <= MostPlaces
  /\ \A r \in Caller : turn[r].left \in Nat

UnderWay(r) == turn[r].at \notin {"out", "done"}

\* Nobody arrives or is through.
AllStay == \A q \in Caller : UnderWay(q)' <=> UnderWay(q)

\* The settings are numbers, and there are greatest ones.
LEMMA PaceBounds ==
  ASSUME pace \in Paces
  PROVE  /\ pace.limit \in Nat /\ pace.window \in Nat /\ pace.min \in Nat /\ pace.max \in Nat
         /\ LongestWindow \in Nat /\ LongestInterval \in Nat /\ MostPlaces \in Nat
         /\ pace.limit <= MostPlaces
<1>1. Paces \subseteq PaceType /\ IsFiniteSet(Paces)
  BY PacerConstants
<1>2. \A p \in Paces : p.limit \in Nat /\ p.window \in Nat /\ p.min \in Nat /\ p.max \in Nat
  BY <1>1 DEF PaceType
<1>3. IsFiniteSet({p.limit : p \in Paces})
  <2> DEFINE f == [p \in Paces |-> p.limit]
  <2>1. f \in Surjection(Paces, {p.limit : p \in Paces})
    BY DEF Surjection
  <2> QED BY <1>1, <2>1, FS_Surjection
<1>4. IsFiniteSet({p.window : p \in Paces})
  <2> DEFINE f == [p \in Paces |-> p.window]
  <2>1. f \in Surjection(Paces, {p.window : p \in Paces})
    BY DEF Surjection
  <2> QED BY <1>1, <2>1, FS_Surjection
<1>5. IsFiniteSet({p.max : p \in Paces})
  <2> DEFINE f == [p \in Paces |-> p.max]
  <2>1. f \in Surjection(Paces, {p.max : p \in Paces})
    BY DEF Surjection
  <2> QED BY <1>1, <2>1, FS_Surjection
<1>6. MostPlaces \in Nat /\ pace.limit <= MostPlaces
  <2> DEFINE S == {p.limit : p \in Paces}
  <2>1. S \in SUBSET Nat /\ S # {} /\ pace.limit \in S
    BY <1>2
  <2> HIDE DEF S
  <2>2. IsFiniteSet(S) /\ MostPlaces = Max(S)
    BY <1>3 DEF S, MostPlaces
  <2> QED BY <2>1, <2>2, GreatestNumber
<1>7. LongestWindow \in Nat
  <2> DEFINE S == {p.window : p \in Paces}
  <2>1. S \in SUBSET Nat /\ S # {}
    BY <1>2
  <2> HIDE DEF S
  <2>2. IsFiniteSet(S) /\ LongestWindow = Max(S)
    BY <1>4 DEF S, LongestWindow
  <2> QED BY <2>1, <2>2, GreatestNumber
<1>8. LongestInterval \in Nat
  <2> DEFINE S == {p.max : p \in Paces}
  <2>1. S \in SUBSET Nat /\ S # {}
    BY <1>2
  <2> HIDE DEF S
  <2>2. IsFiniteSet(S) /\ LongestInterval = Max(S)
    BY <1>5 DEF S, LongestInterval
  <2> QED BY <2>1, <2>2, GreatestNumber
<1> QED BY <1>2, <1>6, <1>7, <1>8

\* What is left of a bucket's window.
LEMMA PrunedLists ==
  ASSUME pace \in Paces, PacerHeld, NEW b \in Bucket
  PROVE  /\ Pruned(b) \in Seq(0 .. LongestWindow)
         /\ Len(Pruned(b)) \in Nat /\ Len(Pruned(b)) <= MostPlaces
         /\ Windowed /\ Len(Pruned(b)) > 0 =>
              /\ Head(Pruned(b)) \in 0 .. LongestWindow
              /\ Head(Pruned(b)) < pace.window
<1>1. starts[b] \in Seq(0 .. LongestWindow) /\ Len(starts[b]) <= MostPlaces
  BY DEF PacerHeld
<1>2. LongestWindow \in Nat /\ pace.window \in Nat /\ MostPlaces \in Nat
  BY PaceBounds
<1>3. Len(starts[b]) \in Nat
  BY <1>1, LenProperties
<1>4. CASE Windowed
  <2>1. Pruned(b) = Younger(starts[b], pace.window)
    BY <1>4 DEF Pruned
  <2> DEFINE s == starts[b]
             y == Younger(s, pace.window)
  <2>2. /\ y \in Seq(0 .. LongestWindow) /\ Len(y) \in Nat /\ Len(y) <= Len(s)
        /\ Len(y) > 0 => Head(y) \in 0 .. LongestWindow /\ Head(y) < pace.window
    <3> HIDE DEF y
    <3>1. s \in Seq(0 .. LongestWindow)
      BY <1>1
    <3> HIDE DEF s
    <3> QED BY <1>2, <3>1, YoungerLists DEF y
  <2>3. Len(y) <= MostPlaces
    <3> HIDE DEF y
    <3> QED BY <1>1, <1>2, <1>3, <2>2
  <2> QED BY <2>1, <2>2, <2>3
<1>5. CASE ~Windowed
  <2>1. Pruned(b) = starts[b]
    BY <1>5 DEF Pruned
  <2> QED BY <1>1, <1>3, <1>5, <2>1
<1> QED BY <1>4, <1>5

\* A caller moves, and only the buckets' windows may have been pruned or cleared of
\* one start.
LEMMA HeldMove ==
  ASSUME CallsInv, PacerHeld, NEW r \in Caller, NEW w, NEW l \in Nat, NEW m,
         turn' = [turn EXCEPT ![r] = TurnOf(w, l, m)],
         UnderWay(r), w \notin {"out", "done"},
         begun' = begun, NEW b \in Bucket, NEW s \in Seq(0 .. LongestWindow),
         Len(s) <= MostPlaces, starts' = [starts EXCEPT ![b] = s]
  PROVE  PacerHeld' /\ AllStay
<1>1. turn'[r] = TurnOf(w, l, m) /\ \A q \in Caller \ {r} : turn'[q] = turn[q]
  BY DEF CallsInv, TurnInv
<1>2. turn'[r].left = l /\ turn'[r].at = w
  BY <1>1, TurnParts
<1>3. \A q \in Caller : turn'[q].left \in Nat
  BY <1>1, <1>2 DEF PacerHeld
<1>4. AllStay
  BY <1>1, <1>2 DEF AllStay, UnderWay
<1>5. starts' \in [Bucket -> Seq(0 .. LongestWindow)]
  BY DEF PacerHeld
<1>6. \A d \in Bucket : Len(starts'[d]) <= MostPlaces
  BY DEF PacerHeld
<1> QED BY <1>3, <1>4, <1>5, <1>6 DEF PacerHeld, MostPlaces, LongestWindow

\* A bucket whose window is left alone.
LEMMA HeldStill ==
  ASSUME PacerHeld, NEW b \in Bucket
  PROVE  /\ starts = [starts EXCEPT ![b] = starts[b]]
         /\ starts[b] \in Seq(0 .. LongestWindow) /\ Len(starts[b]) <= MostPlaces
BY DEF PacerHeld

LEMMA HeldPassFreely ==
  ASSUME CallsInv, PacerHeld, NEW r \in Caller, NEW b \in Bucket, PassFreely(r) \/ Awake(r)
  PROVE  PacerHeld' /\ AllStay
<1>1. PICK w \in {"passing", "asking", "granted"} :
         turn' = [turn EXCEPT ![r] = TurnOf(w, turn[r].left, turn[r].mark)]
  <2>1. CASE PassFreely(r)
    BY <2>1, Moved DEF PassFreely, CallsInv
  <2>2. CASE Awake(r)
    <3>1. turn' = [turn EXCEPT ![r].at = IF turn[r].at = "dozing" THEN "asking" ELSE "granted"]
      BY <2>2 DEF Awake
    <3> QED BY <3>1, Moved DEF CallsInv
  <2> QED BY <2>1, <2>2
<1>2. UnderWay(r) /\ begun' = begun /\ starts' = starts /\ turn[r].left \in Nat
  BY DEF PassFreely, Awake, UnderWay, PacerHeld
<1> QED BY <1>1, <1>2, HeldStill, HeldMove

LEMMA HeldDozeOrWait ==
  ASSUME CallsInv, PacerHeld, NEW r \in Caller, NEW b \in Bucket, Doze(r, b) \/ Wait(r, b)
  PROVE  PacerHeld' /\ AllStay
<1>1. /\ Pruned(b) \in Seq(0 .. LongestWindow) /\ Len(Pruned(b)) <= MostPlaces
      /\ starts' = [starts EXCEPT ![b] = Pruned(b)] /\ begun' = begun /\ UnderWay(r)
  BY PrunedLists DEF Doze, Wait, InLoop, UnderWay, CallsInv
<1>2. CASE Doze(r, b)
  <2>1. Windowed /\ Len(Pruned(b)) >= pace.limit
    BY <1>2 DEF Doze, WindowFull
  <2>2. Len(Pruned(b)) > 0
    <3>1. pace.limit \in Nat /\ Len(Pruned(b)) \in Nat /\ pace.limit > 0
      BY <2>1, PaceBounds, PrunedLists DEF CallsInv, Windowed, Capped
    <3> QED BY <2>1, <3>1
  <2>3. pace.window - Head(Pruned(b)) \in Nat
    <3>1. Head(Pruned(b)) \in 0 .. LongestWindow /\ Head(Pruned(b)) < pace.window
      BY <2>1, <2>2, PrunedLists DEF CallsInv
    <3>2. LongestWindow \in Nat /\ pace.window \in Nat
      BY PaceBounds DEF CallsInv
    <3> QED BY <3>1, <3>2
  <2>4. turn' = [turn EXCEPT ![r] = TurnOf("dozing", pace.window - Head(Pruned(b)), Absent)]
    BY <1>2 DEF Doze
  <2>5. "dozing" \notin {"out", "done"}
    OBVIOUS
  <2> QED BY <1>1, <2>3, <2>4, <2>5, HeldMove
<1>3. CASE Wait(r, b)
  <2>1. turn' = [turn EXCEPT ![r] = TurnOf("waiting", 0, Absent)]
    BY <1>3 DEF Wait
  <2>2. 0 \in Nat /\ "waiting" \notin {"out", "done"}
    OBVIOUS
  <2> QED BY <1>1, <2>1, <2>2, HeldMove
<1> QED BY <1>2, <1>3

LEMMA HeldCancelWait ==
  ASSUME CallsInv, PacerHeld, NEW r \in Caller, NEW b \in Bucket, CancelWait(r)
  PROVE  PacerHeld' /\ AllStay
<1>1. /\ turn' = [turn EXCEPT ![r] = TurnOf("closing", 0, Absent)]
      /\ UnderWay(r) /\ begun' = begun /\ starts' = starts
  BY DEF CancelWait, UnderWay
<1>2. 0 \in Nat /\ "closing" \notin {"out", "done"}
  OBVIOUS
<1>3. /\ starts' = [starts EXCEPT ![b] = starts[b]]
      /\ starts[b] \in Seq(0 .. LongestWindow) /\ Len(starts[b]) <= MostPlaces
  BY <1>1, HeldStill
<1> QED BY <1>1, <1>2, <1>3, HeldMove

\* The window has room for one start more, and what is missing to the interval is a
\* length of sleep.
LEMMA HeldTakeSlot ==
  ASSUME CallsInv, PacerHeld, NEW r \in Caller, NEW b \in Bucket, TakeSlot(r, b)
  PROVE  PacerHeld' /\ AllStay
<1>0. pace \in Paces
  BY DEF CallsInv
<1>1. PICK interval \in pace.min .. pace.max :
        LET sleep == IF slots[b] > 0 THEN 0 ELSE Missing(b, interval) IN
        /\ begun' = [begun EXCEPT ![b] = IF slots[b] > 0 THEN @ ELSE -sleep]
        /\ turn' = [turn EXCEPT ![r] =
                      TurnOf(IF sleep = 0 THEN "granted" ELSE "pacing", sleep,
                             IF Windowed THEN 0 ELSE Absent)]
  BY DEF TakeSlot
<1>2. interval \in Int
  BY <1>0, PaceBounds
<1> DEFINE sleep == IF slots[b] > 0 THEN 0 ELSE Missing(b, interval)
           w == IF sleep = 0 THEN "granted" ELSE "pacing"
           m == IF Windowed THEN 0 ELSE Absent
<1>3. sleep \in Nat
  <2>1. begun[b] = Absent \/ begun[b] \in Int
    BY DEF PacerHeld
  <2>2. Missing(b, interval) \in Nat
    <3>1. CASE begun[b] = Absent
      BY <3>1 DEF Missing
    <3>2. CASE begun[b] # Absent
      <4>1. interval - begun[b] \in Int
        BY <1>2, <2>1, <3>2
      <4> QED BY <3>2, <4>1, NotBelowNone DEF Missing
    <3> QED BY <3>1, <3>2
  <2> QED BY <2>2
<1>4. begun' \in [Bucket -> Int \union {Absent}]
  <2> DEFINE x == IF slots[b] > 0 THEN begun[b] ELSE -sleep
  <2>1. begun' = [begun EXCEPT ![b] = x]
    BY <1>1
  <2>2. x \in Int \union {Absent}
    <3> HIDE DEF sleep
    <3>1. -sleep \in Int
      BY <1>3
    <3> QED BY <3>1 DEF PacerHeld
  <2> HIDE DEF x
  <2> QED BY <2>1, <2>2 DEF PacerHeld
<1>5. turn' = [turn EXCEPT ![r] = TurnOf(w, sleep, m)]
  BY <1>1
<1> HIDE DEF sleep, m
<1>6. w \in {"granted", "pacing"}
  OBVIOUS
<1> HIDE DEF w
<1>7. turn'[r] = TurnOf(w, sleep, m) /\ \A q \in Caller \ {r} : turn'[q] = turn[q]
  BY <1>5 DEF CallsInv, TurnInv
<1>8. turn'[r].left = sleep /\ turn'[r].at = w
  BY <1>7, TurnParts
<1>9. \A q \in Caller : turn'[q].left \in Nat
  BY <1>3, <1>7, <1>8 DEF PacerHeld
<1>10. AllStay
  BY <1>6, <1>7, <1>8 DEF AllStay, UnderWay, TakeSlot, InLoop
<1> DEFINE s == IF Windowed THEN Append(Pruned(b), 0) ELSE starts[b]
<1>11. starts' = [starts EXCEPT ![b] = s]
  BY DEF TakeSlot
<1>12. s \in Seq(0 .. LongestWindow) /\ Len(s) <= MostPlaces
  <2>1. CASE Windowed
    <3>1. Pruned(b) \in Seq(0 .. LongestWindow) /\ Len(Pruned(b)) \in Nat
      BY <1>0, PrunedLists
    <3>2. 0 \in 0 .. LongestWindow /\ pace.limit \in Nat /\ MostPlaces \in Nat /\ pace.limit <= MostPlaces
      BY <1>0, PaceBounds
    <3>3. Len(Pruned(b)) < pace.limit
      BY <2>1, <3>1, <3>2 DEF TakeSlot, WindowFull
    <3>4. Append(Pruned(b), 0) \in Seq(0 .. LongestWindow) /\ Len(Append(Pruned(b), 0)) = Len(Pruned(b)) + 1
      BY <3>1, <3>2
    <3>5. Len(Append(Pruned(b), 0)) <= MostPlaces
      BY <3>1, <3>2, <3>3, <3>4
    <3> QED BY <2>1, <3>4, <3>5
  <2>2. CASE ~Windowed
    BY <2>2 DEF PacerHeld
  <2> QED BY <2>1, <2>2
<1> HIDE DEF s
<1>13. starts' \in [Bucket -> Seq(0 .. LongestWindow)] /\ \A d \in Bucket : Len(starts'[d]) <= MostPlaces
  BY <1>11, <1>12 DEF PacerHeld
<1> QED BY <1>4, <1>9, <1>10, <1>13 DEF PacerHeld, MostPlaces, LongestWindow

\* Who gives back a slot takes at most his own start out of the window.
LEMMA HeldGiveBack ==
  ASSUME CallsInv, PacerHeld, NEW r \in Caller, NEW b \in Bucket, Release(r, b) \/ CancelSleep(r, b)
  PROVE  PacerHeld' /\ AllStay
<1>1. turn' = Woken(r, "closing", b) /\ begun' = begun /\ UnderWay(r)
  BY DEF Release, CancelSleep, UnderWay
<1>2. PICK s \in Seq(0 .. LongestWindow) : Len(s) <= MostPlaces /\ starts' = [starts EXCEPT ![b] = s]
  <2>1. starts[b] \in Seq(0 .. LongestWindow) /\ Len(starts[b]) <= MostPlaces
        /\ starts = [starts EXCEPT ![b] = starts[b]]
    BY HeldStill
  <2>2. CASE Release(r, b)
    BY <2>1, <2>2 DEF Release
  <2>3. CASE CancelSleep(r, b)
    <3> DEFINE s == Unmarked(starts[b], turn[r].mark)
    <3>1. starts' = [starts EXCEPT ![b] = s]
      BY <2>3 DEF CancelSleep
    <3>2. LongestWindow \in Nat /\ MostPlaces \in Nat
      BY PaceBounds DEF CallsInv
    <3>3. s \in Seq(0 .. LongestWindow) /\ Len(s) \in Nat /\ Len(s) <= Len(starts[b])
      BY <2>1, <3>2, UnmarkedLists
    <3> HIDE DEF s
    <3>4. Len(starts[b]) \in Nat
      BY <2>1, LenProperties
    <3>5. Len(s) <= MostPlaces
      BY <2>1, <3>2, <3>3, <3>4
    <3> QED BY <3>1, <3>3, <3>5
  <2> QED BY <2>2, <2>3
<1>3. /\ turn'[r] = TurnOf("closing", 0, Absent)
      /\ \A q \in Caller \ {r} : \/ turn'[q] = turn[q]
                                 \/ turn[q].at = "waiting" /\ turn'[q] = TurnOf("asking", 0, Absent)
  BY <1>1 DEF Woken
<1>4. \A q \in Caller : turn'[q].left \in Nat
  BY <1>3, TurnParts DEF PacerHeld
<1>5. AllStay
  BY <1>1, <1>3, TurnParts DEF AllStay, UnderWay
<1>6. starts' \in [Bucket -> Seq(0 .. LongestWindow)] /\ \A d \in Bucket : Len(starts'[d]) <= MostPlaces
  BY <1>2 DEF PacerHeld
<1> QED BY <1>1, <1>4, <1>5, <1>6 DEF PacerHeld, MostPlaces, LongestWindow

\* Time goes on for starts and sleepers.
LEMMA HeldAge ==
  ASSUME CallsInv, PacerHeld, PacerAge
  PROVE  PacerHeld' /\ AllStay
<1>1. LongestWindow \in Nat /\ LongestInterval \in Nat
  BY PaceBounds DEF CallsInv
<1>2. \A q \in Caller : /\ turn'[q].left = Max({turn[q].left - 1, 0})
                        /\ turn'[q].at = turn[q].at
  <2> TAKE q \in Caller
  <2>1. turn[q] = TurnOf(turn[q].at, turn[q].left, turn[q].mark)
    BY DEF CallsInv, TurnInv
  <2> DEFINE n == Max({turn[q].left - 1, 0})
             k == IF turn[q].mark = Absent THEN Absent
                  ELSE Min({turn[q].mark + 1, LongestWindow})
  <2>2. turn'[q] = [turn[q] EXCEPT !.left = n, !.mark = k]
    BY Zenon DEF PacerAge
  <2> HIDE DEF n, k
  <2>3. \A a, l, m : LET t == [TurnOf(a, l, m) EXCEPT !.left = n, !.mark = k]
                     IN t.left = n /\ t.at = a
    BY DEF TurnOf
  <2>4. turn'[q].left = n /\ turn'[q].at = turn[q].at
    BY <2>1, <2>2, <2>3
  <2> QED BY <2>4 DEF n
<1>3. \A q \in Caller : turn'[q].left \in Nat
  <2> TAKE q \in Caller
  <2>1. turn[q].left - 1 \in Int
    BY DEF PacerHeld
  <2> QED BY <1>2, <2>1, NotBelowNone
<1>4. AllStay
  BY <1>2 DEF AllStay, UnderWay
<1>5. begun' \in [Bucket -> Int \union {Absent}]
  <2>1. ASSUME NEW b \in Bucket
        PROVE  (IF begun[b] = Absent THEN Absent ELSE Min({begun[b] + 1, LongestInterval}))
                 \in Int \union {Absent}
    <3>1. CASE begun[b] = Absent
      BY <3>1
    <3>2. CASE begun[b] # Absent
      <4>1. begun[b] + 1 \in Int
        BY <3>2 DEF PacerHeld
      <4>2. Min({begun[b] + 1, LongestInterval}) \in Int
        BY <1>1, <4>1, LessOfTwo
      <4> QED BY <3>2, <4>2
    <3> QED BY <3>1, <3>2
  <2> QED BY <2>1 DEF PacerAge
<1>6. ASSUME NEW b \in Bucket
      PROVE  starts'[b] \in Seq(0 .. LongestWindow) /\ Len(starts'[b]) <= MostPlaces
  <2> DEFINE s == starts[b]
             t == [i \in DOMAIN s |-> Min({s[i] + 1, LongestWindow})]
  <2>1. starts'[b] = t
    BY DEF PacerAge
  <2>2. s \in Seq(0 .. LongestWindow) /\ Len(s) <= MostPlaces
    BY DEF PacerHeld
  <2> HIDE DEF s
  <2>3. t \in Seq(0 .. LongestWindow) /\ Len(t) = Len(s)
    BY <1>1, <2>2, ListAges
  <2> QED BY <2>1, <2>2, <2>3
<1>7. starts' \in [Bucket -> Seq(0 .. LongestWindow)]
  <2>1. starts' = [b \in Bucket |-> starts'[b]]
    BY DEF PacerAge
  <2> QED BY <1>6, <2>1
<1> QED BY <1>3, <1>4, <1>5, <1>6, <1>7 DEF PacerHeld, MostPlaces, LongestWindow
-----------------------------------------------------------------------------
(* What the tracker keeps per credential: it counts no more than the       *)
(* attempts under way and the leases that were lost.                       *)

LeaseHeld ==
  /\ leases \in [Cred -> Seq(0 .. LeaseTTL)]
  /\ on \in [Caller -> Cred \union {Absent}]
  /\ age \in [Caller -> 0 .. LeaseTTL]
  /\ lost \in [Cred -> Nat]
  /\ NeverOvercounted

LEMMA HoldingFinite ==
  ASSUME NEW c
  PROVE  IsFiniteSet(Holding(c)) /\ Cardinality(Holding(c)) \in Nat
<1>1. Holding(c) \in SUBSET Caller /\ IsFiniteSet(Caller)
  BY PacerConstants DEF Holding
<1> QED BY <1>1, FS_Subset, FS_CardinalityType

LEMMA CountedNumber ==
  ASSUME LeaseHeld, NEW c \in Cred
  PROVE  /\ Counted(c) \in Nat /\ Counted(c) <= Cardinality(Holding(c)) + lost[c]
         /\ leases[c] \in Seq(0 .. LeaseTTL) /\ Live(leases[c]) \in Seq(0 .. LeaseTTL)
         /\ Len(Live(leases[c])) = Counted(c) /\ lost[c] \in Nat
<1>1. leases[c] \in Seq(0 .. LeaseTTL) /\ LeaseTTL \in Nat
  BY CallConstants DEF LeaseHeld
<1>2. Live(leases[c]) \in Seq(0 .. LeaseTTL) /\ Len(Live(leases[c])) \in Nat
  BY <1>1, YoungerLists DEF Live
<1> QED BY <1>1, <1>2 DEF LeaseHeld, Counted, NeverOvercounted

\* The tracker keeps out of what the pacer does.
LEMMA LeasesLeft ==
  ASSUME LeaseHeld, UNCHANGED <<leases, on, age, lost>>, AllStay
  PROVE  LeaseHeld'
<1>1. ASSUME NEW c \in Cred PROVE Holding(c)' = Holding(c) /\ Counted(c)' = Counted(c)
  BY DEF Holding, AllStay, UnderWay, Counted, Live, Younger
<1>2. NeverOvercounted'
  BY <1>1 DEF NeverOvercounted, LeaseHeld
<1> QED BY <1>2 DEF LeaseHeld

\* An attempt takes a lease; counting drops those that ran out.
LEMMA LeaseTaken ==
  ASSUME CallsInv, LeaseHeld, NEW r \in Caller, NEW c \in Cred, Choose(r, c)
  PROVE  LeaseHeld'
<1>1. /\ turn[r].at = "out" /\ on' = [on EXCEPT ![r] = c] /\ UNCHANGED <<age, lost>>
      /\ leases' = [d \in Cred |-> IF d = c THEN Append(Live(leases[d]), 0) ELSE Live(leases[d])]
      /\ turn' = [turn EXCEPT ![r] = TurnOf("entering", turn[r].left, turn[r].mark)]
  BY Moved DEF Choose, Taken, CallsInv
<1>2. turn'[r].at = "entering" /\ on'[r] = c
      /\ \A q \in Caller \ {r} : turn'[q] = turn[q] /\ on'[q] = on[q]
  BY <1>1, TurnParts DEF CallsInv, TurnInv
<1>3. Holding(c)' = Holding(c) \union {r} /\ r \notin Holding(c)
  BY <1>1, <1>2 DEF Holding
<1>4. \A d \in Cred \ {c} : Holding(d)' = Holding(d)
  BY <1>1, <1>2 DEF Holding
<1>5. LeaseTTL \in Nat /\ 0 \in 0 .. LeaseTTL
  BY CallConstants
<1>6. ASSUME NEW d \in Cred
      PROVE  /\ leases'[d] \in Seq(0 .. LeaseTTL)
             /\ Counted(d)' \in Nat
             /\ Counted(d)' <= Counted(d) + (IF d = c THEN 1 ELSE 0)
  <2> DEFINE s == leases'[d]
             k == IF d = c THEN 1 ELSE 0
  <2>1. Live(leases[d]) \in Seq(0 .. LeaseTTL) /\ Len(Live(leases[d])) = Counted(d) /\ Counted(d) \in Nat
    BY CountedNumber
  <2>2. s \in Seq(0 .. LeaseTTL) /\ Len(s) = Counted(d) + k
    <3>1. CASE d = c
      <4>1. s = Append(Live(leases[d]), 0)
        BY <1>1, <3>1
      <4> QED BY <1>5, <2>1, <3>1, <4>1
    <3>2. CASE d # c
      BY <1>1, <2>1, <3>2
    <3> QED BY <3>1, <3>2
  <2>3. Counted(d)' = Len(Younger(s, LeaseTTL))
    BY DEF Counted, Live, Younger
  <2> HIDE DEF s
  <2>4. Len(Younger(s, LeaseTTL)) \in Nat /\ Len(Younger(s, LeaseTTL)) <= Len(s)
    BY <1>5, <2>2, YoungerLists
  <2> QED BY <2>2, <2>3, <2>4 DEF s
<1>7. ASSUME NEW d \in Cred PROVE Counted(d)' <= Cardinality(Holding(d)') + lost'[d]
  <2>1. /\ Counted(d) \in Nat /\ Counted(d) <= Cardinality(Holding(d)) + lost[d]
        /\ Cardinality(Holding(d)) \in Nat /\ lost[d] \in Nat
    BY CountedNumber, HoldingFinite
  <2>2. CASE d = c
    <3>1. Cardinality(Holding(d)') = Cardinality(Holding(d)) + 1
      BY <1>3, <2>2, HoldingFinite, FS_AddElement
    <3>2. Counted(d)' \in Nat /\ Counted(d)' <= Counted(d) + 1 /\ lost'[d] = lost[d]
      BY <1>1, <1>6, <2>2
    <3> QED BY <2>1, <3>1, <3>2
  <2>3. CASE d # c
    <3>1. Counted(d)' \in Nat /\ Counted(d)' <= Counted(d) + 0 /\ lost'[d] = lost[d]
      BY <1>1, <1>6, <2>3
    <3>2. Holding(d)' = Holding(d)
      BY <1>4, <2>3
    <3> QED BY <2>1, <3>1, <3>2
  <2> QED BY <2>2, <2>3
<1>8. leases' \in [Cred -> Seq(0 .. LeaseTTL)]
  BY <1>1, <1>6
<1>9. on' \in [Caller -> Cred \union {Absent}]
  BY <1>1 DEF LeaseHeld
<1>10. NeverOvercounted'
  BY <1>7 DEF NeverOvercounted
<1> QED BY <1>1, <1>8, <1>9, <1>10 DEF LeaseHeld

\* An attempt that ends gives back one live lease of its credential, if there is one,
\* or leaves it to run out.
LEMMA LeaseGiven ==
  ASSUME CallsInv, LeaseHeld, NEW r \in Caller, Close(r) \/ Skip(r)
  PROVE  LeaseHeld'
<1>0. PICK c \in Cred : turn[r].at = "closing" /\ on[r] = c
  BY DEF Close, Skip, Ended, CallsInv, TurnInv
<1>1. /\ on' = [on EXCEPT ![r] = Absent] /\ age' = [age EXCEPT ![r] = 0]
      /\ turn' = [turn EXCEPT ![r] = TurnOf("done", turn[r].left, turn[r].mark)]
  BY Moved DEF Close, Skip, Ended, CallsInv
<1>2. turn'[r].at = "done"
      /\ \A q \in Caller \ {r} : turn'[q] = turn[q] /\ on'[q] = on[q]
  BY <1>1, TurnParts DEF CallsInv, TurnInv
<1>3. Holding(c)' = Holding(c) \ {r} /\ r \in Holding(c)
  BY <1>0, <1>2 DEF Holding
<1>4. \A d \in Cred \ {c} : Holding(d)' = Holding(d)
  BY <1>0, <1>2 DEF Holding
<1>5. LeaseTTL \in Nat
  BY CallConstants
<1>6. Cardinality(Holding(c)') = Cardinality(Holding(c)) - 1
  BY <1>3, HoldingFinite, FS_RemoveElement
<1>7. /\ Counted(c) \in Nat /\ Counted(c) <= Cardinality(Holding(c)) + lost[c]
      /\ leases[c] \in Seq(0 .. LeaseTTL) /\ lost[c] \in Nat
      /\ Cardinality(Holding(c)) \in Nat
      /\ Counted(c) = Len(Younger(leases[c], LeaseTTL))
  BY CountedNumber, HoldingFinite DEF Counted, Live
<1>8. /\ on' \in [Caller -> Cred \union {Absent}]
      /\ age' \in [Caller -> 0 .. LeaseTTL]
  BY <1>1, <1>5 DEF LeaseHeld
<1>9. /\ leases' \in [Cred -> Seq(0 .. LeaseTTL)]
      /\ lost' \in [Cred -> Nat]
      /\ Counted(c)' <= Cardinality(Holding(c)') + lost'[c]
      /\ \A d \in Cred \ {c} : leases'[d] = leases[d] /\ lost'[d] = lost[d]
  <2>1. CASE Close(r)
    <3> DEFINE s == IF leases[c] = <<>> THEN leases[c] ELSE Front(leases[c])
    <3>1. leases' = [leases EXCEPT ![c] = s] /\ lost' = lost
      BY <1>0, <2>1 DEF Close, GivenBack
    <3>2. /\ s \in Seq(0 .. LeaseTTL)
          /\ Len(Younger(s, LeaseTTL)) = IF Counted(c) = 0 THEN 0 ELSE Counted(c) - 1
      <4>1. CASE leases[c] = <<>>
        <5>1. Len(Younger(leases[c], LeaseTTL)) <= Len(leases[c]) /\ Len(leases[c]) = 0
          BY <1>5, <1>7, <4>1, YoungerLists
        <5>2. Counted(c) = 0
          BY <1>7, <5>1
        <5> QED BY <1>7, <4>1, <5>2
      <4>2. CASE leases[c] # <<>>
        BY <1>5, <1>7, <4>2, FrontYounger
      <4> QED BY <4>1, <4>2
    <3> HIDE DEF s
    <3>3. leases'[c] = s /\ leases' \in [Cred -> Seq(0 .. LeaseTTL)]
      BY <3>1, <3>2 DEF LeaseHeld
    <3>4. Counted(c)' = Len(Younger(s, LeaseTTL))
      BY <3>3 DEF Counted, Live, Younger
    <3>5. Counted(c)' <= Cardinality(Holding(c)') + lost'[c]
      <4>1. Cardinality(Holding(c)) # 0
        BY <1>3, HoldingFinite, FS_EmptySet
      <4>2. lost'[c] = lost[c]
        BY <3>1
      <4> QED BY <1>6, <1>7, <3>2, <3>4, <4>1, <4>2
    <3> QED BY <3>1, <3>3, <3>5 DEF LeaseHeld
  <2>2. CASE Skip(r)
    <3>1. leases' = leases /\ lost' = [lost EXCEPT ![c] = lost[c] + 1]
      BY <1>0, <2>2 DEF Skip
    <3>2. lost' \in [Cred -> Nat] /\ lost'[c] = lost[c] + 1
      BY <1>7, <3>1 DEF LeaseHeld
    <3>3. Counted(c)' = Counted(c)
      BY <3>1 DEF Counted, Live, Younger
    <3>4. Counted(c)' <= Cardinality(Holding(c)') + lost'[c]
      BY <1>6, <1>7, <3>2, <3>3
    <3> QED BY <3>1, <3>2, <3>4 DEF LeaseHeld
  <2> QED BY <2>1, <2>2
<1>10. ASSUME NEW d \in Cred PROVE Counted(d)' <= Cardinality(Holding(d)') + lost'[d]
  <2>1. CASE d = c
    BY <1>9, <2>1
  <2>2. CASE d # c
    <3>1. Counted(d)' = Counted(d)
      BY <1>9, <2>2 DEF Counted, Live, Younger
    <3>2. Holding(d)' = Holding(d) /\ lost'[d] = lost[d]
      BY <1>4, <1>9, <2>2
    <3> QED BY <3>1, <3>2, CountedNumber
  <2> QED BY <2>1, <2>2
<1>11. NeverOvercounted'
  BY <1>10 DEF NeverOvercounted
<1> QED BY <1>1, <1>8, <1>9, <1>11 DEF LeaseHeld

\* Leases grow older, and older ones are no more.
LEMMA LeaseAges ==
  ASSUME CallsInv, LeaseHeld, LeasesAge, AllStay, UNCHANGED <<on, lost>>,
         age' = [r \in Caller |-> IF turn[r].at \in {"out", "done"} THEN age[r]
                                  ELSE Min({age[r] + 1, LeaseTTL})]
  PROVE  LeaseHeld'
<1>1. LeaseTTL \in Nat
  BY CallConstants
<1>2. ASSUME NEW c \in Cred
      PROVE  leases'[c] \in Seq(0 .. LeaseTTL) /\ Counted(c)' <= Counted(c) /\ Counted(c)' \in Nat
  <2> DEFINE s == leases[c]
             t == leases'[c]
  <2>1. t = [i \in DOMAIN s |-> Min({s[i] + 1, LeaseTTL})]
    BY DEF LeasesAge
  <2>2. s \in Seq(0 .. LeaseTTL)
    BY DEF LeaseHeld
  <2>3. Counted(c) = Len(Younger(s, LeaseTTL)) /\ Counted(c)' = Len(Younger(t, LeaseTTL))
    BY DEF Counted, Live, Younger
  <2> HIDE DEF s, t
  <2>4. /\ t \in Seq(0 .. LeaseTTL) /\ Len(t) = Len(s)
        /\ \A i \in 1..Len(s) : t[i] < LeaseTTL => s[i] < LeaseTTL
    BY <1>1, <2>1, <2>2, ListAges
  <2>5. Len(Younger(t, LeaseTTL)) <= Len(Younger(s, LeaseTTL)) /\ Len(Younger(t, LeaseTTL)) \in Nat
    BY <1>1, <2>2, <2>4, YoungerFewer, YoungerLists
  <2> QED BY <2>3, <2>4, <2>5 DEF t
<1>3. ASSUME NEW c \in Cred PROVE Counted(c)' <= Cardinality(Holding(c)') + lost'[c]
  <2>1. Holding(c)' = Holding(c)
    BY DEF Holding, AllStay, UnderWay
  <2>2. /\ Counted(c) \in Nat /\ Counted(c) <= Cardinality(Holding(c)) + lost[c]
        /\ Cardinality(Holding(c)) \in Nat /\ lost[c] \in Nat
    BY CountedNumber, HoldingFinite
  <2>3. Counted(c)' <= Counted(c) /\ Counted(c)' \in Nat
    BY <1>2
  <2> QED BY <2>1, <2>2, <2>3
<1>4. leases' \in [Cred -> Seq(0 .. LeaseTTL)]
  <2>1. leases' = [c \in Cred |-> leases'[c]]
    BY DEF LeasesAge
  <2> QED BY <1>2, <2>1
<1>5. age' \in [Caller -> 0 .. LeaseTTL]
  <2>1. ASSUME NEW r \in Caller
        PROVE  (IF turn[r].at \in {"out", "done"} THEN age[r] ELSE Min({age[r] + 1, LeaseTTL}))
                 \in 0 .. LeaseTTL
    <3>1. age[r] \in 0 .. LeaseTTL
      BY DEF LeaseHeld
    <3>2. Min({age[r] + 1, LeaseTTL}) \in 0 .. LeaseTTL
      BY <1>1, <3>1, LessOfTwo
    <3> QED BY <3>1, <3>2
  <2> QED BY <2>1
<1>6. NeverOvercounted'
  BY <1>3 DEF NeverOvercounted
<1> QED BY <1>4, <1>5, <1>6 DEF LeaseHeld
-----------------------------------------------------------------------------
(* The theorems.                                                           *)

\* Before the first call nobody holds a slot and no bucket counts one.
LEMMA CallsInvInit == CallsInit => CallsInv /\ Gate!GateInit
<1> SUFFICES ASSUME CallsInit PROVE CallsInv /\ Gate!GateInit
  OBVIOUS
<1>1. /\ pace \in Paces /\ slots = [b \in Bucket |-> 0]
      /\ turn = [r \in Caller |-> TurnOf("out", 0, Absent)] /\ on = [r \in Caller |-> Absent]
  BY DEF CallsInit, PacerInit
<1>2. \A b \in Bucket : Holders(b) = {}
  BY <1>1, TurnParts DEF Holders, HasSlot
<1>3. CountInv
  BY <1>1, <1>2, FS_EmptySet DEF CountInv
<1>4. TurnInv
  BY <1>1, TurnParts DEF TurnInv, Standing
<1>5. ModeInv
  BY <1>1, TurnParts DEF ModeInv
<1>6. Gate!GateInit
  BY <1>1, <1>2 DEF Gate!GateInit, Holders
<1> QED BY <1>1, <1>3, <1>4, <1>5, <1>6 DEF CallsInv

\* A step that changes no holder and no limit is none of the turnstile.
LEMMA GateStutters ==
  ASSUME GateStays
  PROVE  UNCHANGED Gate!gateVars
BY DEF GateStays, Gate!gateVars, Holders

\* The turnstile counts as its user does.
LEMMA SameCount == ASSUME NEW S PROVE Gate!Cardinality(S) = Cardinality(S)
  BY DEF Gate!Cardinality, Cardinality, Gate!IsFiniteSet, IsFiniteSet

\* A slot that is taken is a caller that enters, one that is given back a caller that
\* leaves.
LEMMA GateEnters ==
  ASSUME NEW r \in Caller, NEW b \in Bucket, pace' = pace,
         pace.limit = 0 \/ Cardinality(Holders(b)) < pace.limit,
         \A d \in Bucket : r \notin Holders(d),
         Holders(b)' = Holders(b) \union {r},
         \A d \in Bucket : d # b => Holders(d)' = Holders(d)
  PROVE  Gate!Enter(r, b)
<1> DEFINE held == [d \in Bucket |-> Holders(d)]
<1>1. held' = [held EXCEPT ![b] = @ \union {r}]
  OBVIOUS
<1>2. \A d \in Bucket : held[d] = Holders(d)
  OBVIOUS
<1>3. held = [d \in Bucket |-> {q \in Caller : HasSlot(q) /\ BucketOf[on[q]] = d}]
  BY DEF Holders
<1>4. held' = [d \in Bucket |-> {q \in Caller : HasSlot(q) /\ BucketOf[on[q]] = d}]'
  BY DEF Holders
<1> HIDE DEF held
<1>5. pace.limit = 0 \/ Gate!Cardinality(held[b]) < pace.limit
  BY <1>2, SameCount
<1>6. \A d \in Bucket : r \notin held[d]
  BY <1>2
<1> HIDE <1>2
<1> QED BY <1>1, <1>3, <1>4, <1>5, <1>6, Zenon DEF Gate!Enter, Gate!Open

LEMMA GateLeaves ==
  ASSUME NEW r \in Caller, NEW b \in Bucket, pace' = pace, r \in Holders(b),
         Holders(b)' = Holders(b) \ {r},
         \A d \in Bucket : d # b => Holders(d)' = Holders(d)
  PROVE  Gate!Leave(r, b)
<1> DEFINE held == [d \in Bucket |-> Holders(d)]
<1>1. held' = [held EXCEPT ![b] = @ \ {r}]
  OBVIOUS
<1>2. \A d \in Bucket : held[d] = Holders(d)
  OBVIOUS
<1>3. held = [d \in Bucket |-> {q \in Caller : HasSlot(q) /\ BucketOf[on[q]] = d}]
  BY DEF Holders
<1>4. held' = [d \in Bucket |-> {q \in Caller : HasSlot(q) /\ BucketOf[on[q]] = d}]'
  BY DEF Holders
<1> HIDE DEF held
<1> QED BY <1>1, <1>2, <1>3, <1>4 DEF Gate!Leave

\* Who gives back what it had leaves the turnstile.
LEMMA GiveBackLeaves ==
  ASSUME CallsInv, NEW r \in Caller, NEW b \in Bucket, BucketOf[on[r]] = b,
         Release(r, b) \/ CancelSleep(r, b), UNCHANGED on
  PROVE  CallsInv' /\ [Gate!GateNext]_(Gate!gateVars)
<1>1. /\ CallsInv'
      /\ UNCHANGED pace
      /\ \/ GateStays
         \/ /\ r \in Holders(b)
            /\ Holders(b)' = Holders(b) \ {r}
            /\ \A d \in Bucket : d # b => Holders(d)' = Holders(d)
  BY StepGiveBack
<1>2. CASE GateStays
  BY <1>1, <1>2, GateStutters
<1>3. CASE /\ r \in Holders(b)
           /\ Holders(b)' = Holders(b) \ {r}
           /\ \A d \in Bucket : d # b => Holders(d)' = Holders(d)
  BY <1>1, <1>3, GateLeaves DEF Gate!GateNext
<1> QED BY <1>1, <1>2, <1>3

\* A step of none of these variables.
LEMMA StepUnchanged ==
  ASSUME CallsInv, UNCHANGED <<pace, slots, turn, on>>
  PROVE  CallsInv' /\ GateStays
<1>1. CountInv' /\ \A b \in Bucket : Holders(b)' = Holders(b)
  BY HoldersKept DEF CallsInv, HasSlot
<1>2. TurnInv' /\ ModeInv'
  BY DEF CallsInv, TurnInv, ModeInv
<1> QED BY <1>1, <1>2 DEF CallsInv, GateStays

\* Every step keeps the invariant and is one of the turnstile, or none of it.
LEMMA CallsStep ==
  ASSUME CallsSteady, CallsInv, [CallsNext]_callVars
  PROVE  CallsInv' /\ [Gate!GateNext]_(Gate!gateVars)
<1>1. CASE CallsInv' /\ GateStays
  BY <1>1, GateStutters
<1>2. ASSUME NEW r \in Caller, NEW c \in Cred, Choose(r, c)
      PROVE  CallsInv' /\ GateStays
  BY <1>2, StepChoose
<1>3. ASSUME NEW r \in Caller, Move(r)
      PROVE  CallsInv' /\ [Gate!GateNext]_(Gate!gateVars)
  <2>1. PICK b \in {BucketOf[c] : c \in Cred \cap {on[r]}} :
           \/ PassFreely(r) \/ Awake(r)
           \/ TakeSlot(r, b) \/ Doze(r, b) \/ Wait(r, b)
           \/ Release(r, b)
    BY <1>3 DEF Move
  <2>2. b \in Bucket /\ BucketOf[on[r]] = b /\ UNCHANGED on
    BY <1>3, CallConstants DEF Move
  <2>3. CASE PassFreely(r) \/ Awake(r) \/ Doze(r, b) \/ Wait(r, b)
    BY <1>1, <2>2, <2>3, StepPassFreely, StepAwake, StepDozeOrWait
  <2>4. CASE TakeSlot(r, b)
    <3>1. /\ CallsInv'
          /\ pace.limit = 0 \/ Cardinality(Holders(b)) < pace.limit
          /\ \A d \in Bucket : r \notin Holders(d)
          /\ Holders(b)' = Holders(b) \union {r}
          /\ \A d \in Bucket : d # b => Holders(d)' = Holders(d)
      BY <2>2, <2>4, StepTakeSlot
    <3>2. pace' = pace
      BY <2>4 DEF TakeSlot
    <3>3. Gate!Enter(r, b)
      BY <2>2, <3>1, <3>2, GateEnters
    <3> QED BY <2>2, <3>1, <3>3 DEF Gate!GateNext
  <2>5. CASE Release(r, b)
    BY <2>2, <2>5, GiveBackLeaves
  <2> QED BY <2>1, <2>3, <2>4, <2>5
<1>4. ASSUME NEW r \in Caller, Cancel(r)
      PROVE  CallsInv' /\ [Gate!GateNext]_(Gate!gateVars)
  <2>1. UNCHANGED on
    BY <1>4 DEF Cancel
  <2>2. CASE CancelWait(r)
    BY <1>1, <2>1, <2>2, StepCancelWait
  <2>3. ASSUME NEW b \in {BucketOf[c] : c \in Cred \cap {on[r]}}, CancelSleep(r, b)
        PROVE  CallsInv' /\ [Gate!GateNext]_(Gate!gateVars)
    <3>1. b \in Bucket /\ BucketOf[on[r]] = b
      BY CallConstants
    <3> QED BY <2>1, <2>3, <3>1, GiveBackLeaves
  <2> QED BY <1>4, <2>2, <2>3 DEF Cancel
<1>5. ASSUME NEW r \in Caller, Close(r) \/ Skip(r)
      PROVE  CallsInv' /\ GateStays
  BY <1>5, StepEnded DEF Close, Skip
<1>6. CASE Pass
  BY <1>1, <1>6, StepAge DEF Pass
<1>7. CASE Configure
  <2>1. SetPace /\ UNCHANGED <<leases, on, age, lost>>
    BY <1>7 DEF Configure
  <2>2. CallsInv' /\ \A b \in Bucket : Holders(b)' = Holders(b)
    BY <2>1, StepSetPace
  <2>3. Gate!Resize
    BY <2>1, <2>2 DEF Gate!Resize, Holders, CallsInv
  <2> QED BY <2>2, <2>3 DEF Gate!GateNext
<1>8. CASE UNCHANGED callVars
  BY <1>1, <1>8, StepUnchanged DEF callVars, pacerVars
<1> QED BY <1>1, <1>2, <1>3, <1>4, <1>5, <1>6, <1>7, <1>8 DEF CallsNext

\* The pacer implements the turnstile: whatever its settings, and however they change
\* while callers wait, it admits nobody to a bucket that is full, and who was admitted
\* stays so until his call ends or is cancelled (Pacer.wait_turn, release and paced()).
THEOREM PacerIsTurnstile ==
  ASSUME CallsSteady
  PROVE  CallsSpec => ActsAsTurnstile
<1>1. CallsInit => CallsInv /\ Gate!GateInit
  BY CallsInvInit
<1>2. CallsInv /\ [CallsNext]_callVars => CallsInv' /\ [Gate!GateNext]_(Gate!gateVars)
  BY CallsStep
<1> QED BY <1>1, <1>2, PTL DEF CallsSpec, ActsAsTurnstile, Gate!GateSpec

\* At first there is neither a lease nor a start.
LEMMA HeldInit == CallsInit => PacerHeld /\ LeaseHeld
<1> SUFFICES ASSUME CallsInit PROVE PacerHeld /\ LeaseHeld
  OBVIOUS
<1>1. /\ leases = [c \in Cred |-> <<>>] /\ pace \in Paces
      /\ begun = [b \in Bucket |-> Absent] /\ starts = [b \in Bucket |-> <<>>]
      /\ turn = [r \in Caller |-> TurnOf("out", 0, Absent)]
      /\ on = [r \in Caller |-> Absent] /\ age = [r \in Caller |-> 0]
      /\ lost = [c \in Cred |-> 0]
  BY DEF CallsInit, LeasesInit, PacerInit
<1>2. LeaseTTL \in Nat /\ MostPlaces \in Nat
  BY <1>1, CallConstants, PaceBounds
<1>3. PacerHeld
  <2>1. \A r \in Caller : turn[r].left = 0
    BY <1>1, TurnParts
  <2>2. \A b \in Bucket : Len(starts[b]) <= MostPlaces
    <3>1. Len(<<>>) = 0
      OBVIOUS
    <3> QED BY <1>1, <1>2, <3>1
  <2>3. starts \in [Bucket -> Seq(0 .. LongestWindow)]
    BY <1>1
  <2>4. begun \in [Bucket -> Int \union {Absent}]
    BY <1>1
  <2> QED BY <2>1, <2>2, <2>3, <2>4 DEF PacerHeld
<1>4. ASSUME NEW c \in Cred PROVE Counted(c) <= Cardinality(Holding(c)) + lost[c]
  <2>1. leases[c] = <<>> /\ <<>> \in Seq(0 .. LeaseTTL) /\ Len(<<>>) = 0
    BY <1>1
  <2>2. Len(Younger(<<>>, LeaseTTL)) \in Nat /\ Len(Younger(<<>>, LeaseTTL)) <= 0
    BY <1>2, <2>1, YoungerLists
  <2>3. Counted(c) = 0
    BY <2>1, <2>2 DEF Counted, Live
  <2>4. lost[c] = 0 /\ Cardinality(Holding(c)) \in Nat
    BY <1>1, HoldingFinite
  <2> QED BY <2>3, <2>4
<1>5. /\ leases \in [Cred -> Seq(0 .. LeaseTTL)] /\ on \in [Caller -> Cred \union {Absent}]
      /\ age \in [Caller -> 0 .. LeaseTTL] /\ lost \in [Cred -> Nat]
  BY <1>1, <1>2
<1>6. NeverOvercounted
  BY <1>4 DEF NeverOvercounted
<1> QED BY <1>1, <1>3, <1>5, <1>6 DEF LeaseHeld

\* A step that touches neither windows nor leases.
LEMMA HeldUnchanged ==
  ASSUME PacerHeld, LeaseHeld, UNCHANGED <<begun, starts, turn, leases, on, age, lost>>
  PROVE  PacerHeld' /\ LeaseHeld'
<1>1. PacerHeld'
  BY DEF PacerHeld, MostPlaces, LongestWindow
<1>2. AllStay
  BY DEF AllStay, UnderWay
<1> QED BY <1>1, <1>2, LeasesLeft

LEMMA HeldStep ==
  ASSUME CallsInv, PacerHeld, LeaseHeld, [CallsNext]_callVars
  PROVE  PacerHeld' /\ LeaseHeld'
<1>1. ASSUME NEW r \in Caller, NEW c \in Cred, Choose(r, c)
      PROVE  PacerHeld' /\ LeaseHeld'
  <2>1. \A q \in Caller : turn'[q].left \in Nat
    <3>1. turn' = [turn EXCEPT ![r] = TurnOf("entering", turn[r].left, turn[r].mark)]
      BY <1>1, Moved DEF Choose, CallsInv
    <3>2. turn'[r].left = turn[r].left /\ \A q \in Caller \ {r} : turn'[q] = turn[q]
      BY <3>1, TurnParts DEF CallsInv, TurnInv
    <3> QED BY <3>2 DEF PacerHeld
  <2>2. PacerHeld'
    BY <1>1, <2>1 DEF Choose, PacerHeld, MostPlaces, LongestWindow
  <2> QED BY <1>1, <2>2, LeaseTaken
<1>2. ASSUME NEW r \in Caller, Move(r) \/ Cancel(r)
      PROVE  PacerHeld' /\ LeaseHeld'
  <2>1. UNCHANGED <<leases, on, age, lost>>
    BY <1>2 DEF Move, Cancel
  <2>2. PacerHeld' /\ AllStay
    <3>1. CASE Move(r)
      <4>1. PICK b \in {BucketOf[c] : c \in Cred \cap {on[r]}} :
               \/ PassFreely(r) \/ Awake(r)
               \/ TakeSlot(r, b) \/ Doze(r, b) \/ Wait(r, b)
               \/ Release(r, b)
        BY <3>1 DEF Move
      <4>2. b \in Bucket
        BY CallConstants
      <4> QED BY <4>1, <4>2, HeldPassFreely, HeldTakeSlot, HeldDozeOrWait, HeldGiveBack
    <3>2. CASE CancelWait(r)
      <4>1. turn[r].at \in {"entering", "asking", "waiting", "dozing"}
        BY <3>2 DEF CancelWait
      <4>2. PICK b : b \in Bucket
        <5>1. on[r] \in Cred
          BY <4>1 DEF CallsInv, TurnInv
        <5> QED BY <5>1, CallConstants
      <4> QED BY <3>2, <4>2, HeldCancelWait
    <3>3. ASSUME NEW b \in {BucketOf[c] : c \in Cred \cap {on[r]}}, CancelSleep(r, b)
          PROVE  PacerHeld' /\ AllStay
      <4>1. b \in Bucket
        BY CallConstants
      <4> QED BY <3>3, <4>1, HeldGiveBack
    <3> QED BY <1>2, <3>1, <3>2, <3>3 DEF Cancel
  <2> QED BY <2>1, <2>2, LeasesLeft
<1>3. ASSUME NEW r \in Caller, Close(r) \/ Skip(r)
      PROVE  PacerHeld' /\ LeaseHeld'
  <2>1. \A q \in Caller : turn'[q].left \in Nat
    <3>1. turn' = [turn EXCEPT ![r] = TurnOf("done", turn[r].left, turn[r].mark)]
      BY <1>3, Moved DEF Close, Skip, Ended, CallsInv
    <3>2. turn'[r].left = turn[r].left /\ \A q \in Caller \ {r} : turn'[q] = turn[q]
      BY <3>1, TurnParts DEF CallsInv, TurnInv
    <3> QED BY <3>2 DEF PacerHeld
  <2>2. PacerHeld'
    BY <1>3, <2>1 DEF Close, Skip, Ended, PacerHeld, MostPlaces, LongestWindow
  <2> QED BY <1>3, <2>2, LeaseGiven
<1>4. CASE Pass
  <2>1. PacerHeld' /\ AllStay
    BY <1>4, HeldAge DEF Pass
  <2> QED BY <1>4, <2>1, LeaseAges DEF Pass
<1>5. CASE Configure
  BY <1>5, HeldUnchanged DEF Configure, SetPace
<1>6. CASE UNCHANGED callVars
  BY <1>6, HeldUnchanged DEF callVars, pacerVars
<1> QED BY <1>1, <1>2, <1>3, <1>4, <1>5, <1>6 DEF CallsNext

\* The counts and the lists are what the checked invariant says.
LEMMA HeldIsSound == CallsInv /\ PacerHeld /\ LeaseHeld => SlotsAreHeld
<1> SUFFICES ASSUME CallsInv, PacerHeld, LeaseHeld PROVE SlotsAreHeld
  OBVIOUS
<1>1. SlotsMatch
  BY DEF CallsInv, CountInv, Holders, SlotsMatch
<1>2. slots \in [Bucket -> 0 .. Cardinality(Caller)]
  <2>1. ASSUME NEW b \in Bucket PROVE slots[b] \in 0 .. Cardinality(Caller)
    <3>1. Holders(b) \in SUBSET Caller /\ IsFiniteSet(Caller)
      BY PacerConstants DEF Holders
    <3>2. /\ Cardinality(Holders(b)) \in Nat /\ Cardinality(Caller) \in Nat
          /\ Cardinality(Holders(b)) <= Cardinality(Caller)
      BY <3>1, FS_Subset, FS_CardinalityType
    <3>3. slots[b] = Cardinality(Holders(b))
      BY DEF CallsInv, CountInv
    <3> QED BY <3>2, <3>3
  <2>2. slots = [b \in Bucket |-> slots[b]]
    BY DEF CallsInv
  <2> QED BY <2>1, <2>2
<1>3. CallsTypeOK
  BY <1>2 DEF CallsTypeOK, CallsInv, TurnInv, PacerHeld, LeaseHeld, MostPlaces
<1> QED BY <1>1, <1>3 DEF SlotsAreHeld, LeaseHeld

\* Slots, windows and leases stay what they are for: every variable keeps its type, no
\* window holds more starts than a limit allowed, the slots of a bucket are those of
\* the attempts that sleep or have their turn, and a credential never counts more
\* leases than the attempts under way on it and those that were lost
\* (Pacer.wait_turn, release; InflightTracker.acquire, release).
THEOREM SlotsAlwaysHeld ==
  ASSUME CallsSteady
  PROVE  CallsSpec => []SlotsAreHeld
<1>1. CallsInit => CallsInv /\ PacerHeld /\ LeaseHeld
  BY CallsInvInit, HeldInit
<1>2. CallsInv /\ PacerHeld /\ LeaseHeld /\ [CallsNext]_callVars
        => CallsInv' /\ PacerHeld' /\ LeaseHeld'
  BY CallsStep, HeldStep
<1>3. CallsInv /\ PacerHeld /\ LeaseHeld => SlotsAreHeld
  BY HeldIsSound
<1> QED BY <1>1, <1>2, <1>3, PTL DEF CallsSpec

-----------------------------------------------------------------------------
(* Texts: sequences of pieces, a piece is an attempt, its number there and *)
(* what rests of it around a call.                                         *)

Piece == Nat \X Nat \X Rest

Follows(p, q) == p[1] = q[1] /\ p[2] < q[2]

Rising(s) == \A i, j \in DOMAIN s : i < j => Follows(s[i], s[j])

\* A text that goes on, and one that goes on behind another or says it again.
Answer(s) == \A i, j \in DOMAIN s : i < j => Continues(s, i, s[j])

Precedes(s, t) == \A i \in DOMAIN s, j \in DOMAIN t : Continues(s, i, t[j])

\* Pieces that rest around a call.
Kept(s) == \A i \in DOMAIN s : s[i][3] # "none"

\* All of an attempt, before its n-th event.
Spoken(s, a, n) == \A i \in DOMAIN s : s[i][1] = a /\ s[i][2] < n

LEMMA ContinuesJoined ==
  ASSUME NEW s \in Seq(Piece), NEW t \in Seq(Piece), NEW i \in DOMAIN s, NEW p, Continues(s, i, p)
  PROVE  Continues(s \o t, i, p)
<1>1. /\ DOMAIN s = 1 .. Len(s) /\ Len(s) \in Nat
      /\ \A k \in 1 .. Len(s) : (s \o t)[k] = s[k]
  OBVIOUS
<1>2. i \in 1 .. Len(s) /\ \A k \in 1 .. i : k \in 1 .. Len(s)
  BY <1>1
<1>3. (s \o t)[i] = s[i] /\ \A k \in 1 .. i : (s \o t)[k] = s[k]
  BY <1>1, <1>2
<1> QED BY <1>3 DEF Continues

LEMMA AnswerJoined ==
  ASSUME NEW s \in Seq(Piece), NEW t \in Seq(Piece), Answer(s), Rising(t), Precedes(s, t)
  PROVE  s \o t \in Seq(Piece) /\ Answer(s \o t)
<1> DEFINE n == Len(s)
<1>1. /\ s \o t \in Seq(Piece) /\ n \in Nat /\ DOMAIN s = 1 .. n
      /\ Len(t) \in Nat /\ DOMAIN t = 1 .. Len(t) /\ DOMAIN (s \o t) = 1 .. n + Len(t)
      /\ \A i \in 1 .. n + Len(t) : (s \o t)[i] = IF i <= n THEN s[i] ELSE t[i - n]
  BY ConcatProperties
<1>2. ASSUME NEW i \in 1 .. n + Len(t), NEW j \in 1 .. n + Len(t), i < j
      PROVE  Continues(s \o t, i, (s \o t)[j])
  <2> HIDE DEF n
  <2>1. CASE j <= n
    <3>1. i \in 1 .. n /\ j \in 1 .. n /\ (s \o t)[j] = s[j]
      BY <1>1, <1>2, <2>1
    <3>2. Continues(s, i, s[j])
      BY <1>1, <1>2, <3>1 DEF Answer
    <3> QED BY <1>1, <3>1, <3>2, ContinuesJoined
  <2>2. CASE i <= n /\ ~(j <= n)
    <3>1. i \in 1 .. n /\ j - n \in 1 .. Len(t) /\ (s \o t)[j] = t[j - n]
      BY <1>1, <1>2, <2>2
    <3>2. Continues(s, i, t[j - n])
      BY <1>1, <3>1 DEF Precedes
    <3> QED BY <1>1, <3>1, <3>2, ContinuesJoined
  <2>3. CASE ~(i <= n)
    <3>1. /\ i - n \in 1 .. Len(t) /\ j - n \in 1 .. Len(t) /\ i - n < j - n
          /\ (s \o t)[i] = t[i - n] /\ (s \o t)[j] = t[j - n]
      BY <1>1, <1>2, <2>3
    <3>2. Follows(t[i - n], t[j - n])
      BY <1>1, <3>1 DEF Rising
    <3> QED BY <3>1, <3>2 DEF Follows, Continues
  <2> QED BY <2>1, <2>2, <2>3
<1> QED BY <1>1, <1>2 DEF Answer

\* What rests around a call may be said once more.
LEMMA KeptAgain ==
  ASSUME NEW s \in Seq(Piece), NEW t \in Seq(Piece), Precedes(s, t), Rising(t), Kept(t)
  PROVE  Precedes(s \o t, t)
<1> DEFINE n == Len(s)
<1>1. /\ n \in Nat /\ DOMAIN s = 1 .. n
      /\ Len(t) \in Nat /\ DOMAIN t = 1 .. Len(t) /\ DOMAIN (s \o t) = 1 .. n + Len(t)
      /\ \A i \in 1 .. n + Len(t) : (s \o t)[i] = IF i <= n THEN s[i] ELSE t[i - n]
  BY ConcatProperties
<1>2. ASSUME NEW i \in 1 .. n + Len(t), NEW j \in 1 .. Len(t)
      PROVE  Continues(s \o t, i, t[j])
  <2> HIDE DEF n
  <2>1. CASE i <= n
    <3>1. i \in DOMAIN s /\ j \in DOMAIN t
      BY <1>1, <2>1
    <3>2. Continues(s, i, t[j])
      BY <3>1 DEF Precedes
    <3> QED BY <3>1, <3>2, ContinuesJoined
  <2>2. CASE ~(i <= n) /\ i - n < j
    <3>1. i - n \in 1 .. Len(t) /\ (s \o t)[i] = t[i - n]
      BY <1>1, <2>2
    <3>2. Follows(t[i - n], t[j])
      BY <1>1, <2>2, <3>1 DEF Rising
    <3> QED BY <3>1, <3>2 DEF Follows, Continues
  <2>3. CASE ~(i <= n) /\ ~(i - n < j)
    <3>1. /\ i - n \in 1 .. Len(t) /\ (s \o t)[i] = t[i - n] /\ t[j][3] # "none"
          /\ i - n = j \/ j < i - n
      BY <1>1, <2>3 DEF Kept
    <3>2. t[i - n][1] = t[j][1]
      BY <1>1, <3>1 DEF Rising, Follows
    <3>3. n + j \in 1 .. i /\ n + j \in 1 .. n + Len(t) /\ ~(n + j <= n) /\ (n + j) - n = j
      BY <1>1, <2>3
    <3>4. (s \o t)[n + j] = t[j]
      BY <1>1, <3>3
    <3> QED BY <3>1, <3>2, <3>3, <3>4 DEF Continues
  <2> QED BY <2>1, <2>2, <2>3
<1> QED BY <1>1, <1>2 DEF Precedes

LEMMA SpokenJoined ==
  ASSUME NEW s \in Seq(Piece), NEW t \in Seq(Piece), NEW a, NEW n,
         Spoken(s, a, n), Spoken(t, a, n)
  PROVE  Spoken(s \o t, a, n)
BY DEF Spoken

\* The next piece of an attempt goes behind all it has said.
LEMMA NextPiece ==
  ASSUME NEW s \in Seq(Piece), NEW a \in Nat, NEW n \in Nat, NEW rest \in Rest,
         Rising(s), Spoken(s, a, n)
  PROVE  /\ Append(s, <<a, n, rest>>) \in Seq(Piece)
         /\ Rising(Append(s, <<a, n, rest>>)) /\ Spoken(Append(s, <<a, n, rest>>), a, n + 1)
         /\ Spoken(s, a, n + 1)
<1> DEFINE p == <<a, n, rest>>
           u == Append(s, p)
<1>1. p \in Piece /\ p[1] = a /\ p[2] = n
  BY DEF Piece
<1> HIDE DEF p
<1>2. /\ u \in Seq(Piece) /\ Len(s) \in Nat /\ DOMAIN s = 1 .. Len(s) /\ DOMAIN u = 1 .. Len(s) + 1
      /\ \A i \in 1 .. Len(s) + 1 : u[i] = IF i <= Len(s) THEN s[i] ELSE p
  BY <1>1
<1>3. \A i \in 1 .. Len(s) : s[i] \in Piece /\ s[i][2] \in Nat /\ s[i][1] = a /\ s[i][2] < n
  <2>1. \A i \in 1 .. Len(s) : s[i] \in Piece
    BY <1>2
  <2>2. \A q \in Piece : q[2] \in Nat
    BY DEF Piece
  <2> QED BY <1>2, <2>1, <2>2 DEF Spoken
<1> HIDE DEF u
<1>4. Spoken(u, a, n + 1) /\ Spoken(s, a, n + 1)
  BY <1>1, <1>2, <1>3 DEF Spoken
<1>5. \A i, j \in 1 .. Len(s) + 1 : i < j => Follows(u[i], u[j])
  <2> SUFFICES ASSUME NEW i \in 1 .. Len(s) + 1, NEW j \in 1 .. Len(s) + 1, i < j
               PROVE  Follows(u[i], u[j])
    OBVIOUS
  <2>1. i \in 1 .. Len(s) /\ u[i] = s[i]
    BY <1>2
  <2>2. CASE j <= Len(s)
    BY <1>2, <2>1, <2>2 DEF Rising
  <2>3. CASE ~(j <= Len(s))
    BY <1>1, <1>2, <1>3, <2>1, <2>3 DEF Follows
  <2> QED BY <2>2, <2>3
<1> QED BY <1>2, <1>4, <1>5 DEF Rising, u, p

LEMMA PrecedesNext ==
  ASSUME NEW h \in Seq(Piece), NEW s \in Seq(Piece), NEW a \in Nat, NEW n \in Nat, NEW rest \in Rest,
         Precedes(h, s), Spoken(h, a, n)
  PROVE  Precedes(h, Append(s, <<a, n, rest>>))
<1> DEFINE p == <<a, n, rest>>
           u == Append(s, p)
<1>1. p[1] = a /\ p[2] = n /\ p \in Piece
  BY DEF Piece
<1> HIDE DEF p
<1>2. /\ DOMAIN s = 1 .. Len(s) /\ DOMAIN u = 1 .. Len(s) + 1 /\ Len(s) \in Nat
      /\ \A i \in 1 .. Len(s) + 1 : u[i] = IF i <= Len(s) THEN s[i] ELSE p
  BY <1>1
<1> HIDE DEF u
<1>3. ASSUME NEW i \in DOMAIN h, NEW j \in DOMAIN u
      PROVE  Continues(h, i, u[j])
  <2>1. CASE j <= Len(s)
    BY <1>2, <2>1 DEF Precedes
  <2>2. CASE ~(j <= Len(s))
    <3>1. u[j] = p /\ h[i][1] = a /\ h[i][2] < n
      BY <1>2, <2>2 DEF Spoken
    <3> QED BY <1>1, <3>1 DEF Continues
  <2> QED BY <2>1, <2>2
<1> QED BY <1>3 DEF Precedes, u, p

LEMMA SpokenLater ==
  ASSUME NEW s \in Seq(Piece), NEW a, NEW n \in Nat, Spoken(s, a, n)
  PROVE  Spoken(s, a, n + 1)
<1>1. \A i \in DOMAIN s : s[i] \in Piece
  OBVIOUS
<1>2. \A p \in Piece : p[2] \in Nat
  BY DEF Piece
<1> QED BY <1>1, <1>2 DEF Spoken

-----------------------------------------------------------------------------
(* The filter of chat: what is cut out of a text around the whole calls.   *)

KeptTexts == INSTANCE FoldProofs WITH Step <- WithText
KeptTags == INSTANCE FoldProofs WITH Step <- WithTags

\* Some of the first k pieces of a text, which all rest around a call.
Cut(c, s, k) ==
  /\ c \in Seq(Piece) /\ Kept(c)
  /\ \A i \in DOMAIN c : \E j \in 1 .. k : c[i] = s[j]
  /\ Rising(s) => Rising(c)

LEMMA CutMore ==
  ASSUME NEW s \in Seq(Piece), NEW k \in 1 .. Len(s), NEW c, Cut(c, s, k - 1)
  PROVE  /\ Cut(c, s, k)
         /\ s[k][3] # "none" => Cut(Append(c, s[k]), s, k)
<1>1. \A j \in 1 .. k - 1 : j \in 1 .. k /\ j < k /\ j \in DOMAIN s /\ k \in DOMAIN s
  OBVIOUS
<1>2. Cut(c, s, k)
  BY <1>1 DEF Cut
<1>3. ASSUME s[k][3] # "none"
      PROVE  Cut(Append(c, s[k]), s, k)
  <2> DEFINE u == Append(c, s[k])
  <2>1. s[k] \in Piece /\ c \in Seq(Piece)
    BY DEF Cut
  <2>2. /\ u \in Seq(Piece) /\ Len(c) \in Nat /\ DOMAIN c = 1 .. Len(c) /\ DOMAIN u = 1 .. Len(c) + 1
        /\ \A i \in 1 .. Len(c) + 1 : u[i] = IF i <= Len(c) THEN c[i] ELSE s[k]
    BY <2>1
  <2> HIDE DEF u
  <2>3. \A i \in 1 .. Len(c) : c[i][3] # "none" /\ \E j \in 1 .. k - 1 : c[i] = s[j]
    BY <2>2 DEF Cut, Kept
  <2>4. Kept(u) /\ \A i \in DOMAIN u : \E j \in 1 .. k : u[i] = s[j]
    BY <1>1, <1>3, <2>2, <2>3 DEF Kept
  <2>5. ASSUME Rising(s), NEW i \in 1 .. Len(c) + 1, NEW j \in 1 .. Len(c) + 1, i < j
        PROVE  Follows(u[i], u[j])
    <3>1. i \in 1 .. Len(c) /\ u[i] = c[i]
      BY <2>2, <2>5
    <3>2. CASE j <= Len(c)
      BY <2>2, <2>5, <3>1, <3>2 DEF Cut, Rising
    <3>3. CASE ~(j <= Len(c))
      <4>1. PICK m \in 1 .. k - 1 : c[i] = s[m]
        BY <2>3, <3>1
      <4>2. Follows(s[m], s[k])
        BY <1>1, <2>5 DEF Rising
      <4> QED BY <2>2, <3>1, <3>3, <4>1, <4>2
    <3> QED BY <3>2, <3>3
  <2>6. Rising(s) => Rising(u)
    BY <2>2, <2>5 DEF Rising
  <2>7. Cut(u, s, k)
    BY <2>2, <2>4, <2>6 DEF Cut
  <2> QED BY <2>7 DEF u
<1> QED BY <1>2, <1>3

LEMMA CutByRest ==
  ASSUME NEW s \in Seq(Piece), NEW f, f[0] = <<>>,
         \A k \in 1 .. Len(s) :
           f[k] = f[k - 1] \/ (f[k] = Append(f[k - 1], s[k]) /\ s[k][3] # "none")
  PROVE  Cut(f[Len(s)], s, Len(s))
<1> DEFINE Bad == {k \in 0 .. Len(s) : ~Cut(f[k], s, k)}
<1>1. 0 \notin Bad
  <2>1. <<>> \in Seq(Piece) /\ DOMAIN <<>> = {}
    OBVIOUS
  <2>2. Cut(<<>>, s, 0)
    BY <2>1, Zenon DEF Cut, Kept, Rising
  <2> QED BY <2>2
<1>2. ASSUME Bad # {}
      PROVE  FALSE
  <2>1. Bad \in SUBSET Nat
    OBVIOUS
  <2>2. PICK k \in Bad : \A y \in Bad : k <= y
    BY <1>2, <2>1, KeptTexts!LeastOf
  <2>3. k \in 1 .. Len(s) /\ ~Cut(f[k], s, k)
    BY <1>1, <2>2
  <2>4. k - 1 \in 0 .. Len(s) /\ k - 1 \notin Bad
    BY <2>2, <2>3
  <2>5. Cut(f[k - 1], s, k - 1)
    BY <2>4
  <2>6. Cut(f[k - 1], s, k) /\ (s[k][3] # "none" => Cut(Append(f[k - 1], s[k]), s, k))
    BY <2>3, <2>5, CutMore
  <2> QED BY <2>3, <2>6
<1>3. Len(s) \in 0 .. Len(s) /\ Len(s) \notin Bad
  <2> HIDE DEF Bad
  <2> QED BY <1>2
<1> QED BY <1>3

LEMMA AroundCut ==
  ASSUME NEW s \in Seq(Piece), NEW split
  PROVE  Cut(Around(split, s), s, Len(s))
<1>1. DOMAIN s = 1 .. Len(s) /\ Len(s) \in Nat
  OBVIOUS
<1>2. CASE split = "within"
  <2>1. Around(split, s) = KeptTags!Folded(<<>>, s)
    BY <1>2 DEF Around, KeptTags!Folded, FoldLeft, KeptTags!FoldLeft, MapThenFoldSet, KeptTags!MapThenFoldSet, Max, KeptTags!Max
  <2>2. PICK f : /\ f[0] = <<>> /\ f[Len(s)] = Around(split, s)
                 /\ \A k \in 1 .. Len(s) : f[k] = WithTags(f[k - 1], s[k])
    BY <1>1, <2>1, KeptTags!FoldSteps
  <2>3. \A k \in 1 .. Len(s) :
          f[k] = f[k - 1] \/ (f[k] = Append(f[k - 1], s[k]) /\ s[k][3] # "none")
    BY <2>2 DEF WithTags
  <2>4. Cut(f[Len(s)], s, Len(s))
    BY <2>2, <2>3, CutByRest
  <2> QED BY <2>2, <2>4
<1>3. CASE split # "within"
  <2>1. Around(split, s) = KeptTexts!Folded(<<>>, s)
    BY <1>3 DEF Around, KeptTexts!Folded, FoldLeft, KeptTexts!FoldLeft, MapThenFoldSet, KeptTexts!MapThenFoldSet, Max, KeptTexts!Max
  <2>2. PICK f : /\ f[0] = <<>> /\ f[Len(s)] = Around(split, s)
                 /\ \A k \in 1 .. Len(s) : f[k] = WithText(f[k - 1], s[k])
    BY <1>1, <2>1, KeptTexts!FoldSteps
  <2>3. \A k \in 1 .. Len(s) :
          f[k] = f[k - 1] \/ (f[k] = Append(f[k - 1], s[k]) /\ s[k][3] # "none")
    BY <2>2 DEF WithText
  <2>4. Cut(f[Len(s)], s, Len(s))
    BY <2>2, <2>3, CutByRest
  <2> QED BY <2>2, <2>4
<1> QED BY <1>2, <1>3

-----------------------------------------------------------------------------
(* What the translators make of an event.                                  *)

FrameKind ==
  {"none", "start", "open", "delta", "close", "usage", "end", "done", "fail", "ping"}

FrameType == [type : FrameKind, block : Int \union {Nowhere}, text : Seq(Piece)]

TranslatorType ==
  [begun : BOOLEAN, n : Nat, at : [Slot -> Int \union {Nowhere}],
   current : Slot \union {Nowhere}, told : BOOLEAN, done : BOOLEAN,
   held : Seq(Piece), marked : BOOLEAN]

Placed(t) == \A s \in Slot : t.at[s] \in (0 .. t.n - 1) \union {Nowhere}

LEMMA FrameTyped ==
  ASSUME NEW type \in FrameKind, NEW block \in Int \union {Nowhere}, NEW text \in Seq(Piece)
  PROVE  /\ Frame(type, block, text) \in FrameType
         /\ Frame(type, block, text).type = type /\ Frame(type, block, text).block = block
         /\ Frame(type, block, text).text = text
BY DEF Frame, FrameType

\* Frames that say nothing, and frames of which at most one has a text, and that one is u.
Silent(frames) ==
  frames \in Seq(FrameType) /\ \A i \in DOMAIN frames : frames[i].text = <<>>

Says(frames, u) ==
  /\ frames \in Seq(FrameType)
  /\ \A i \in DOMAIN frames : frames[i].text \in {<<>>, u}
  /\ \A i, j \in DOMAIN frames : frames[i].text # <<>> /\ frames[j].text # <<>> => i = j

LEMMA SaysOne ==
  ASSUME NEW type \in FrameKind, NEW block \in Int \union {Nowhere}, NEW u \in Seq(Piece)
  PROVE  Says(<<Frame(type, block, u)>>, u)
<1> DEFINE f == Frame(type, block, u)
<1>2. f \in FrameType /\ f.text = u
  BY FrameTyped
<1> HIDE DEF f
<1>3. <<f>> \in Seq(FrameType) /\ DOMAIN <<f>> = {1} /\ <<f>>[1] = f
  BY <1>2
<1>4. Says(<<f>>, u)
  BY <1>2, <1>3 DEF Says
<1> QED BY <1>4 DEF f

LEMMA SilentOne ==
  ASSUME NEW type \in FrameKind, NEW block \in Int \union {Nowhere}
  PROVE  Silent(<<Frame(type, block, <<>>)>>)
<1>1. <<>> \in Seq(Piece)
  OBVIOUS
<1>2. \A u \in Seq(Piece) : Says(<<Frame(type, block, u)>>, u)
  BY SaysOne
<1>3. Says(<<Frame(type, block, <<>>)>>, <<>>)
  BY <1>1, <1>2, Zenon
<1> QED BY <1>3, Zenon DEF Silent, Says

LEMMA SilentNothing == Silent(<<>>)
BY DEF Silent

LEMMA SilentSays ==
  ASSUME NEW frames, NEW u, Silent(frames)
  PROVE  Says(frames, u)
BY DEF Silent, Says

LEMMA SilentJoined ==
  ASSUME NEW s, NEW t, Silent(s), Silent(t)
  PROVE  Silent(s \o t)
<1>1. s \in Seq(FrameType) /\ t \in Seq(FrameType)
  BY DEF Silent
<1>2. /\ s \o t \in Seq(FrameType) /\ DOMAIN s = 1 .. Len(s)
      /\ Len(s) \in Nat /\ Len(t) \in Nat /\ DOMAIN t = 1 .. Len(t)
      /\ DOMAIN (s \o t) = 1 .. Len(s) + Len(t)
      /\ \A i \in 1 .. Len(s) + Len(t) : (s \o t)[i] = IF i <= Len(s) THEN s[i] ELSE t[i - Len(s)]
  BY <1>1, ConcatProperties
<1>3. ASSUME NEW i \in 1 .. Len(s) + Len(t)
      PROVE  (s \o t)[i].text = <<>>
  <2>1. CASE i <= Len(s)
    BY <1>2, <2>1 DEF Silent
  <2>2. CASE ~(i <= Len(s))
    <3>1. i - Len(s) \in 1 .. Len(t)
      BY <1>2, <2>2
    <3> QED BY <1>2, <2>2, <3>1 DEF Silent
  <2> QED BY <2>1, <2>2
<1> QED BY <1>2, <1>3 DEF Silent

LEMMA SaysBehind ==
  ASSUME NEW s, NEW t, NEW u, Silent(s), Says(t, u)
  PROVE  Says(s \o t, u)
<1>1. s \in Seq(FrameType) /\ t \in Seq(FrameType)
  BY DEF Silent, Says
<1>2. /\ s \o t \in Seq(FrameType) /\ DOMAIN s = 1 .. Len(s)
      /\ Len(s) \in Nat /\ Len(t) \in Nat /\ DOMAIN t = 1 .. Len(t)
      /\ DOMAIN (s \o t) = 1 .. Len(s) + Len(t)
      /\ \A i \in 1 .. Len(s) + Len(t) : (s \o t)[i] = IF i <= Len(s) THEN s[i] ELSE t[i - Len(s)]
  BY <1>1, ConcatProperties
<1>3. ASSUME NEW i \in 1 .. Len(s) + Len(t)
      PROVE  /\ (s \o t)[i].text \in {<<>>, u}
             /\ (s \o t)[i].text # <<>> =>
                  i - Len(s) \in DOMAIN t /\ t[i - Len(s)].text # <<>>
  <2>1. CASE i <= Len(s)
    BY <1>2, <2>1 DEF Silent
  <2>2. CASE ~(i <= Len(s))
    <3>1. i - Len(s) \in 1 .. Len(t)
      BY <1>2, <2>2
    <3> QED BY <1>2, <2>2, <3>1 DEF Says
  <2> QED BY <2>1, <2>2
<1>4. ASSUME NEW i \in 1 .. Len(s) + Len(t), NEW j \in 1 .. Len(s) + Len(t),
             (s \o t)[i].text # <<>>, (s \o t)[j].text # <<>>
      PROVE  i = j
  <2>1. i - Len(s) = j - Len(s)
    BY <1>3, <1>4 DEF Says
  <2> QED BY <1>2, <2>1
<1> QED BY <1>2, <1>3, <1>4 DEF Says

LEMMA SaysBefore ==
  ASSUME NEW s, NEW t, NEW u, Silent(s), Says(t, u)
  PROVE  Says(t \o s, u)
<1>1. s \in Seq(FrameType) /\ t \in Seq(FrameType)
  BY DEF Silent, Says
<1>2. /\ t \o s \in Seq(FrameType) /\ DOMAIN s = 1 .. Len(s)
      /\ Len(s) \in Nat /\ Len(t) \in Nat /\ DOMAIN t = 1 .. Len(t)
      /\ DOMAIN (t \o s) = 1 .. Len(t) + Len(s)
      /\ \A i \in 1 .. Len(t) + Len(s) : (t \o s)[i] = IF i <= Len(t) THEN t[i] ELSE s[i - Len(t)]
  BY <1>1, ConcatProperties
<1>3. ASSUME NEW i \in 1 .. Len(t) + Len(s)
      PROVE  /\ (t \o s)[i].text \in {<<>>, u}
             /\ (t \o s)[i].text # <<>> => i \in DOMAIN t /\ t[i].text # <<>>
  <2>1. CASE i <= Len(t)
    BY <1>2, <2>1 DEF Says
  <2>2. CASE ~(i <= Len(t))
    <3>1. i - Len(t) \in 1 .. Len(s)
      BY <1>2, <2>2
    <3> QED BY <1>2, <2>2, <3>1 DEF Silent
  <2> QED BY <2>1, <2>2
<1> QED BY <1>2, <1>3 DEF Says

LEMMA BeginSilent ==
  ASSUME NEW d, NEW t \in TranslatorType
  PROVE  Silent(Begin(d, t)) /\ Silent(Shut(d, t))
<1>1. Silent(<<Frame("start", 0, <<>>)>>)
  BY SilentOne DEF FrameKind
<1>2. ASSUME t.current # Nowhere
      PROVE  Silent(<<Frame("close", t.at[t.current], <<>>)>>)
  <2>1. t.at[t.current] \in Int \union {Nowhere}
    BY <1>2 DEF TranslatorType
  <2> QED BY <2>1, SilentOne DEF FrameKind
<1> QED BY <1>1, <1>2, SilentNothing, Zenon DEF Begin, Shut

\* Only chat holds anything.
Unseen(d, t) == d # "chat" => t.held = <<>>

\* What is held when u goes out: nothing, or u itself, that lay around a call.
Left(held, u) == held = <<>> \/ (held = u /\ Kept(u))

\* What every translation leaves: a sound translator, frames that say at most u, once;
\* of what is said only the rest around a call is held, and no block begins unsaid.
Grown(d, t, out, u) ==
  /\ out.t \in TranslatorType /\ Placed(out.t) /\ Unseen(d, out.t)
  /\ Says(out.frames, u)
  /\ ~Silent(out.frames) => Left(out.t.held, u)
  /\ out.t.n = t.n \/ (out.t.n = t.n + 1 /\ out.frames # <<>>)

\* What may be said or held next: nothing, what is held, that with one more piece, or
\* what rests of it.
Portion(x, held, more) == x \in {<<>>, held, more} \/ Cut(x, more, Len(more))

LEMMA HeldUpdate ==
  ASSUME NEW t \in TranslatorType, NEW held \in Seq(Piece), NEW marked \in BOOLEAN
  PROVE  /\ [t EXCEPT !.held = held, !.marked = marked] \in TranslatorType
         /\ [t EXCEPT !.held = held, !.marked = marked].held = held
         /\ [t EXCEPT !.held = held, !.marked = marked].n = t.n
         /\ [t EXCEPT !.held = held, !.marked = marked].at = t.at
BY DEF TranslatorType

LEMMA FeedGrows ==
  ASSUME NEW t \in TranslatorType, Placed(t), NEW p \in Piece, NEW split
  PROVE  LET out == Feed(t, p, split)
             more == Append(t.held, p)
         IN  /\ \E u : Portion(u, t.held, more) /\ Grown("chat", t, out, u)
             /\ Portion(out.t.held, t.held, more)
<1> DEFINE out == Feed(t, p, split)
           more == Append(t.held, p)
           around == Around(split, more)
           say(text) == IF text = <<>> THEN <<>> ELSE <<Frame("delta", 0, text)>>
           then == <<Frame("delta", 0, <<>>)>>
<1> SUFFICES /\ \E u : Portion(u, t.held, more) /\ Grown("chat", t, out, u)
             /\ Portion(out.t.held, t.held, more)
  OBVIOUS
<1>1. t.held \in Seq(Piece) /\ more \in Seq(Piece) /\ more # <<>> /\ <<>> \in Seq(Piece)
  BY DEF TranslatorType
<1>2. Cut(around, more, Len(more))
  BY <1>1, AroundCut
<1>3. around \in Seq(Piece) /\ Kept(around)
  BY <1>2, Zenon DEF Cut
<1>4. Silent(then) /\ \A u \in Seq(Piece) : Says(<<Frame("delta", 0, u)>>, u)
  BY SaysOne, SilentOne DEF FrameKind
<1> HIDE DEF then
<1>5. \A u \in Seq(Piece) : Says(say(u), u)
  BY <1>4, SilentNothing, SilentSays
<1>6. Says(say(around) \o then, around)
  BY <1>3, <1>4, <1>5, SaysBefore
<1> HIDE DEF around, say
<1>7. ASSUME NEW held \in Seq(Piece), NEW marked \in BOOLEAN, NEW frames,
             out = Result([t EXCEPT !.held = held, !.marked = marked], frames),
             Portion(held, t.held, more),
             NEW u, Portion(u, t.held, more), Says(frames, u),
             Silent(frames) \/ Left(held, u)
      PROVE  /\ \E v : Portion(v, t.held, more) /\ Grown("chat", t, out, v)
             /\ Portion(out.t.held, t.held, more)
  <2>1. /\ out.t \in TranslatorType /\ out.t.held = held /\ out.t.n = t.n /\ out.t.at = t.at
        /\ out.frames = frames
    <3> DEFINE w == [t EXCEPT !.held = held, !.marked = marked]
    <3>1. w \in TranslatorType /\ w.held = held /\ w.n = t.n /\ w.at = t.at
      BY HeldUpdate
    <3>2. out.t = w /\ out.frames = frames
      BY <1>7 DEF Result
    <3> QED BY <3>1, <3>2, Zenon
  <2> HIDE DEF out, more
  <2>2. Placed(out.t) /\ Unseen("chat", out.t)
    BY <2>1 DEF Placed, Unseen
  <2>3. Grown("chat", t, out, u)
    BY <1>7, <2>1, <2>2, Zenon DEF Grown
  <2> QED BY <1>7, <2>1, <2>3, Zenon
<1>8. Portion(<<>>, t.held, more) /\ Portion(more, t.held, more) /\ Portion(around, t.held, more)
  BY <1>2, Zenon DEF Portion
<1>9. CASE split = "open" \/ (split = "plain" /\ t.marked)
  <2>1. out = Result([t EXCEPT !.held = more, !.marked = TRUE], <<>>)
    BY <1>9 DEF Feed
  <2>2. Silent(<<>>) /\ Says(<<>>, more)
    BY SilentNothing, SilentSays
  <2>3. TRUE \in BOOLEAN /\ more \in Seq(Piece) /\ (Silent(<<>>) \/ Left(more, more))
    BY <1>1, <2>2
  <2> HIDE DEF out, more
  <2> QED BY <1>7, <1>8, <2>1, <2>2, <2>3, Zenon
<1>10. CASE split \in {"call", "within"}
  <2>1. out = Result([t EXCEPT !.held = around, !.marked = (split = "within")], say(around) \o then)
    BY <1>10 DEF Feed, around, say, then
  <2>2. /\ Silent(say(around) \o then) \/ Left(around, around)
        /\ (split = "within") \in BOOLEAN
    BY <1>3 DEF Left
  <2> HIDE DEF out, more
  <2> QED BY <1>3, <1>6, <1>7, <1>8, <2>1, <2>2, Zenon
<1>11. CASE split \notin {"open", "call", "within"} /\ ~(split = "plain" /\ t.marked)
  <2>1. out = Result([t EXCEPT !.held = <<>>, !.marked = FALSE], say(more))
    BY <1>11 DEF Feed, say
  <2>2. Silent(say(more)) \/ Left(<<>>, more)
    BY DEF Left
  <2>3. FALSE \in BOOLEAN /\ Says(say(more), more)
    BY <1>1, <1>5
  <2> HIDE DEF out, more
  <2> QED BY <1>1, <1>7, <1>8, <2>1, <2>2, <2>3, Zenon
<1> QED BY <1>9, <1>10, <1>11

LEMMA PiecemealGrows ==
  ASSUME NEW d, NEW t \in TranslatorType, Placed(t), Unseen(d, t), t.n \in Nat,
         NEW s \in Slot, NEW u \in Seq(Piece), d # "chat" \/ u = <<>>
  PROVE  LET out == Piecemeal(d, t, s, u)
         IN  Grown(d, t, out, u) /\ out.t.held = t.held
<1> DEFINE out == Piecemeal(d, t, s, u)
<1>0. /\ Silent(Begin(d, t)) /\ Silent(Shut(d, t)) /\ t.n \in Int
      /\ t.at[s] \in Int \union {Nowhere}
  BY BeginSilent DEF TranslatorType
<1>1. CASE d = "chat"
  <2>1. out.t = t /\ out.frames = <<Frame("delta", 0, <<>>)>>
    BY <1>1 DEF Piecemeal, Result
  <2>2. Silent(<<Frame("delta", 0, <<>>)>>)
    BY SilentOne DEF FrameKind
  <2> QED BY <2>1, <2>2, SilentSays DEF Grown
<1>2. CASE d # "chat" /\ Fresh(d, t, s)
  <2> DEFINE open == <<Frame("open", t.n, <<>>), Frame("delta", t.n, u)>>
             before == Begin(d, t) \o Shut(d, t)
  <2>1. /\ out.t = [t EXCEPT !.begun = TRUE, !.n = @ + 1, !.at[s] = t.n, !.current = s]
        /\ out.frames = before \o open
    BY <1>2 DEF Piecemeal, Result
  <2>2. Says(open, u)
    <3>1. Silent(<<Frame("open", t.n, <<>>)>>) /\ Says(<<Frame("delta", t.n, u)>>, u)
      BY <1>0, SilentOne, SaysOne DEF FrameKind
    <3>2. Says(<<Frame("open", t.n, <<>>)>> \o <<Frame("delta", t.n, u)>>, u)
      BY <3>1, SaysBehind
    <3>3. open = <<Frame("open", t.n, <<>>)>> \o <<Frame("delta", t.n, u)>>
      OBVIOUS
    <3> QED BY <3>2, <3>3
  <2>3. Silent(before) /\ Says(before \o open, u)
    BY <1>0, <2>2, SilentJoined, SaysBehind
  <2>4. before \o open # <<>>
    <3>1. before \in Seq(FrameType) /\ open \in Seq(FrameType) /\ open # <<>>
      BY <2>2, <2>3 DEF Silent, Says
    <3> QED BY <3>1
  <2>5. out.t \in TranslatorType /\ out.t.n = t.n + 1 /\ out.t.held = t.held
    <3> DEFINE places == [t.at EXCEPT ![s] = t.n]
               m == t.n + 1
    <3>1. places \in [Slot -> Int \union {Nowhere}] /\ m \in Nat
      BY <1>0 DEF TranslatorType
    <3>2. out.t = [t EXCEPT !.begun = TRUE, !.n = m, !.at = places, !.current = s]
      BY <2>1 DEF TranslatorType
    <3> HIDE DEF places, m, out
    <3>3. out.t \in TranslatorType /\ out.t.n = m /\ out.t.held = t.held
      BY <3>1, <3>2 DEF TranslatorType
    <3> QED BY <3>3 DEF m
  <2>6. Placed(out.t)
    <3>1. \A x \in Slot : out.t.at[x] = IF x = s THEN t.n ELSE t.at[x]
      BY <2>1 DEF TranslatorType
    <3> QED BY <2>5, <3>1 DEF Placed
  <2>7. Unseen(d, out.t) /\ out.t.held = <<>>
    BY <1>2, <2>5 DEF Unseen
  <2> QED BY <2>1, <2>3, <2>4, <2>5, <2>6, <2>7 DEF Grown, Left
<1>3. CASE d # "chat" /\ ~Fresh(d, t, s)
  <2>1. /\ out.t = [t EXCEPT !.begun = TRUE]
        /\ out.frames = Begin(d, t) \o <<Frame("delta", t.at[s], u)>>
    BY <1>3 DEF Piecemeal, Result
  <2>2. Says(<<Frame("delta", t.at[s], u)>>, u)
    BY <1>0, SaysOne DEF FrameKind
  <2>3. Says(out.frames, u)
    BY <1>0, <2>1, <2>2, SaysBehind
  <2>4. out.t \in TranslatorType /\ out.t.n = t.n /\ out.t.held = t.held /\ out.t.at = t.at
    BY <2>1 DEF TranslatorType
  <2>5. Placed(out.t) /\ Unseen(d, out.t) /\ out.t.held = <<>>
    BY <1>3, <2>4 DEF Placed, Unseen
  <2> QED BY <2>3, <2>4, <2>5 DEF Grown, Left
<1> QED BY <1>1, <1>2, <1>3

LEMMA EndingGrows ==
  ASSUME NEW d, NEW t \in TranslatorType, Placed(t), Unseen(d, t)
  PROVE  LET out == Ending(d, t)
         IN  Grown(d, t, out, t.held) /\ out.t.held = <<>> /\ out.t.n = t.n
<1> DEFINE u == t.held
           out == Ending(d, t)
           tail == IF d # "chat" THEN <<>>
                   ELSE (IF t.told THEN <<Frame("usage", 0, <<>>)>> ELSE <<>>)
                          \o <<Frame("done", 0, <<>>)>>
           end == <<Frame("end", 0, <<>>)>>
<1>1. Silent(tail) /\ Silent(end) /\ Silent(Begin(d, t))
  <2>1. Silent(<<Frame("usage", 0, <<>>)>>) /\ Silent(<<Frame("done", 0, <<>>)>>) /\ Silent(end)
    BY SilentOne DEF FrameKind
  <2>2. Silent((IF t.told THEN <<Frame("usage", 0, <<>>)>> ELSE <<>>) \o <<Frame("done", 0, <<>>)>>)
    BY <2>1, SilentNothing, SilentJoined
  <2> QED BY <2>1, <2>2, SilentNothing, BeginSilent, Zenon
<1>2. Says(ClosingFrames(d, t), u)
  <2>1. u \in Seq(Piece) /\ t.n \in Nat
    BY DEF TranslatorType
  <2>2. CASE d = "anthropic"
    <3>1. ClosingFrames(d, t) = Shut(d, t)
      BY <2>2 DEF ClosingFrames
    <3> QED BY <3>1, BeginSilent, SilentSays
  <2>3. CASE d = "responses"
    <3> DEFINE closing == [i \in 1 .. t.n |-> Frame("close", i - 1, <<>>)]
    <3>1. ClosingFrames(d, t) = closing
      BY <2>3 DEF ClosingFrames
    <3>2. <<>> \in Seq(Piece) /\ "close" \in FrameKind
      BY DEF FrameKind
    <3>3. \A v \in Seq(Piece) : \A i \in 1 .. t.n :
             Frame("close", i - 1, v) \in FrameType /\ Frame("close", i - 1, v).text = v
      BY <2>1, <3>2, FrameTyped
    <3>4. \A i \in 1 .. t.n : closing[i] \in FrameType /\ closing[i].text = <<>>
      BY <3>2, <3>3
    <3>5. closing \in [1 .. t.n -> FrameType] /\ DOMAIN closing = 1 .. t.n
      BY <3>4
    <3> HIDE DEF closing
    <3>6. closing \in Seq(FrameType)
      BY <2>1, <3>5
    <3> QED BY <3>1, <3>4, <3>5, <3>6, SilentSays, Zenon DEF Silent
  <2>4. CASE d # "anthropic" /\ d # "responses"
    <3>1. ClosingFrames(d, t) = IF t.held = <<>> THEN <<>> ELSE <<Frame("delta", 0, u)>>
      BY <2>4, Zenon DEF ClosingFrames
    <3>2. \A v \in Seq(Piece) : Says(<<Frame("delta", 0, v)>>, v)
      BY SaysOne DEF FrameKind
    <3>3. Says(<<Frame("delta", 0, u)>>, u) /\ Says(<<>>, u)
      BY <2>1, <3>2, SilentNothing, SilentSays, Zenon
    <3> QED BY <3>1, <3>3, Zenon
  <2> QED BY <2>2, <2>3, <2>4
<1>3. out.frames = Begin(d, t) \o ClosingFrames(d, t) \o end \o tail
  BY DEF Ending, Result
<1> HIDE DEF tail, end, u
<1>4. Says(out.frames, u)
  <2>1. Says(Begin(d, t) \o ClosingFrames(d, t), u)
    BY <1>1, <1>2, SaysBehind
  <2>2. Says((Begin(d, t) \o ClosingFrames(d, t)) \o end, u)
    BY <1>1, <2>1, SaysBefore
  <2>3. Says(((Begin(d, t) \o ClosingFrames(d, t)) \o end) \o tail, u)
    BY <1>1, <2>2, SaysBefore
  <2> QED BY <1>3, <2>3, Zenon
<1>5. out.t = [t EXCEPT !.done = TRUE, !.begun = TRUE, !.held = <<>>, !.current = Nowhere]
  BY DEF Ending, Result
<1> HIDE DEF out
<1>6. out.t \in TranslatorType /\ out.t.n = t.n /\ out.t.at = t.at /\ out.t.held = <<>>
  <2>1. <<>> \in Seq(Piece)
    OBVIOUS
  <2> DEFINE nothing == <<>>
  <2> HIDE DEF nothing
  <2>2. out.t = [t EXCEPT !.done = TRUE, !.begun = TRUE, !.held = nothing, !.current = Nowhere]
    BY <1>5 DEF nothing
  <2>3. nothing \in Seq(Piece)
    BY <2>1 DEF nothing
  <2>4. out.t \in TranslatorType /\ out.t.n = t.n /\ out.t.at = t.at /\ out.t.held = nothing
    BY <2>2, <2>3 DEF TranslatorType
  <2> QED BY <2>4 DEF nothing
<1>7. Placed(out.t) /\ Unseen(d, out.t)
  BY <1>6 DEF Placed, Unseen
<1>8. Grown(d, t, out, u) /\ out.t.held = <<>> /\ out.t.n = t.n
  BY <1>4, <1>6, <1>7, Zenon DEF Grown, Left
<1> QED BY <1>8 DEF u, out

LEMMA ClosedGrows ==
  ASSUME NEW d, NEW t \in TranslatorType, Placed(t), Unseen(d, t)
  PROVE  LET out == Closed(d, t)
         IN  /\ Grown(d, t, out, t.held) /\ out.t.held \in {<<>>, t.held}
             /\ out.t.n = t.n
<1>1. CASE t.done
  <2>1. Closed(d, t).t = t /\ Closed(d, t).frames = <<>>
    BY <1>1 DEF Closed, Result
  <2> QED BY <2>1, SilentNothing, SilentSays DEF Grown
<1>2. CASE ~t.done
  <2>1. Closed(d, t) = Ending(d, t)
    BY <1>2 DEF Closed
  <2> QED BY <2>1, EndingGrows
<1> QED BY <1>1, <1>2

LEMMA FailedGrows ==
  ASSUME NEW d, NEW t \in TranslatorType, Placed(t), Unseen(d, t)
  PROVE  LET out == Failed(d, t)
         IN  /\ \A u : Grown(d, t, out, u)
             /\ out.t.held = t.held /\ out.t.n = t.n /\ Silent(out.frames)
<1> DEFINE out == Failed(d, t)
           fail == <<Frame("fail", 0, <<>>)>>
<1>1. Silent(fail) /\ Silent(Begin(d, t))
  BY SilentOne, BeginSilent DEF FrameKind
<1>2. /\ out.t \in {t, [t EXCEPT !.done = TRUE, !.begun = TRUE]}
      /\ out.frames \in {fail, <<>>, Begin(d, t) \o fail, <<>> \o fail}
  BY DEF Failed, Result
<1> HIDE DEF out, fail
<1>3. Silent(out.frames)
  <2>1. Silent(<<>>) /\ Silent(Begin(d, t) \o fail) /\ Silent(<<>> \o fail)
    BY <1>1, SilentNothing, SilentJoined
  <2> QED BY <1>1, <1>2, <2>1, Zenon
<1>4. out.t \in TranslatorType /\ out.t.n = t.n /\ out.t.at = t.at /\ out.t.held = t.held
  BY <1>2 DEF TranslatorType
<1>5. Placed(out.t) /\ Unseen(d, out.t)
  BY <1>4 DEF Placed, Unseen
<1>6. /\ \A u : Grown(d, t, out, u)
      /\ out.t.held = t.held /\ out.t.n = t.n /\ Silent(out.frames)
  BY <1>3, <1>4, <1>5, SilentSays, Zenon DEF Grown
<1> QED BY <1>6 DEF out

EventType ==
  [kind : {"text", "think", "tool", "usage", "finish"}, slot : Slot \union {Nowhere},
   split : AllSplits \union {"plain"}, piece : Piece]

LEMMA TranslateGrows ==
  ASSUME NEW d, NEW t \in TranslatorType, Placed(t), Unseen(d, t),
         NEW e \in EventType, e.kind \notin {"usage", "finish"} => e.slot # Nowhere
  PROVE  LET out == Translate(d, t, e)
             more == Append(t.held, e.piece)
         IN  /\ \E u : Portion(u, t.held, more) /\ Grown(d, t, out, u)
             /\ Portion(out.t.held, t.held, more)
<1> DEFINE out == Translate(d, t, e)
           u == t.held
           v == Append(u, e.piece)
<1>0. /\ t.n \in Nat /\ e.piece \in Piece /\ <<>> \in Seq(Piece) /\ <<e.piece>> \in Seq(Piece)
      /\ Portion(<<>>, u, v) /\ Portion(u, u, v) /\ Portion(v, u, v)
  BY DEF TranslatorType, EventType, Portion
<1>1. CASE e.kind = "usage"
  <2>1. out.t = [t EXCEPT !.told = TRUE] /\ out.frames = <<>>
    BY <1>1 DEF Translate, Result
  <2>2. out.t \in TranslatorType /\ out.t.n = t.n /\ out.t.at = t.at /\ out.t.held = t.held
    BY <2>1 DEF TranslatorType
  <2>3. Placed(out.t) /\ Unseen(d, out.t)
    BY <2>2 DEF Placed, Unseen
  <2> HIDE DEF out, v
  <2>4. Grown(d, t, out, u)
    BY <2>1, <2>2, <2>3, SilentNothing, SilentSays, Zenon DEF Grown
  <2> QED BY <1>0, <2>2, <2>4 DEF out, v
<1>2. CASE e.kind = "finish"
  <2>1. out = Ending(d, t) \/ out = Closed(d, t)
    BY <1>2 DEF Translate
  <2> HIDE DEF out, v
  <2>2. Grown(d, t, out, u) /\ out.t.held \in {<<>>, t.held}
    BY <2>1, EndingGrows, ClosedGrows
  <2> QED BY <1>0, <2>2 DEF out, v
<1>3. CASE e.kind = "text" /\ d = "chat"
  <2>1. out = Feed(t, e.piece, e.split)
    BY <1>3 DEF Translate
  <2> QED BY <1>0, <1>3, <2>1, FeedGrows
<1>4. CASE e.kind \notin {"usage", "finish"} /\ ~(e.kind = "text" /\ d = "chat")
  <2> DEFINE text == IF e.kind = "text" THEN <<e.piece>> ELSE <<>>
  <2>1. out = Piecemeal(d, t, e.slot, text) /\ e.slot \in Slot
    BY <1>4 DEF Translate, EventType
  <2>2. text \in Seq(Piece) /\ (d # "chat" \/ text = <<>>)
    BY <1>0, <1>4
  <2>3. text = <<>> \/ text = v
    <3>1. CASE d = "chat"
      BY <2>2, <3>1
    <3>2. CASE d # "chat"
      <4>1. u = <<>>
        BY <3>2 DEF Unseen
      <4> QED BY <4>1
    <3> QED BY <3>1, <3>2
  <2> HIDE DEF out, text, v
  <2>4. Grown(d, t, out, text) /\ out.t.held = t.held
    BY <1>0, <2>1, <2>2, PiecemealGrows
  <2>5. Portion(text, u, v)
    BY <1>0, <2>3
  <2> QED BY <1>0, <2>4, <2>5 DEF out, v
<1> QED BY <1>1, <1>2, <1>3, <1>4

-----------------------------------------------------------------------------
(* The invariant.                                                          *)

ReplyTypes ==
  /\ dialect \in Dialects
  /\ at \in {"reading", "closing", "over", "orphan"}
  /\ attempt \in Nat \ {0} /\ left \in 0 .. MaxAttempts - 1 /\ link \in 1 .. MaxLinks
  /\ attempt + left = link * MaxAttempts
  /\ emitted \in BOOLEAN /\ sent \in 0 .. MaxEvents
  /\ fetch \in {"running", "ready", "idle"}
  /\ queue \in Seq(FrameType) /\ handed \in FrameType
  /\ client.phase \in {"idle", "open", "ended", "closed"}
  /\ slot \in BOOLEAN

\* The translator begins no block that is not on its way to the client.
SoundTranslator ==
  /\ tr \in TranslatorType /\ Placed(tr) /\ Unseen(dialect, tr)
  /\ tr.n <= sent
  /\ at = "reading" /\ ~emitted /\ queue = <<>> => tr.n = 0

\* A text that may follow what was heard: of this attempt, and behind it.
Fits(h, a, n, u) == u \in Seq(Piece) /\ Rising(u) /\ Spoken(u, a, n) /\ Precedes(h, u)

Due(u) == Fits(heard, attempt, sent, u)

\* At most one text is on its way, in the queue or in the keepalive, and of that one the
\* filter holds at most what rests around a call.
OneText ==
  /\ heard \in Seq(Piece) /\ Answer(heard) /\ Spoken(heard, attempt, sent)
  /\ ~emitted => heard = <<>> /\ handed.text = <<>>
  /\ Due(tr.held) /\ Due(handed.text)
  /\ \E u : Due(u) /\ Says(queue, u) /\ (~Silent(queue) => Left(tr.held, u))
  /\ fetch # "ready" => handed.text = <<>>
  /\ handed.text # <<>> => Silent(queue) /\ Left(tr.held, handed.text)

ReplyInv == ReplyTypes /\ SoundTranslator /\ OneText

LEMMA Bounds == MaxEvents \in Nat \ {0} /\ MaxAttempts \in Nat \ {0} /\ MaxLinks \in Nat \ {0}
BY ReplyConstants

LEMMA NothingFits == \A h, a, n : Fits(h, a, n, <<>>)
BY DEF Fits, Rising, Spoken, Precedes

LEMMA CutFits ==
  ASSUME NEW h, NEW a, NEW n, NEW u, Fits(h, a, n, u), NEW c, Cut(c, u, Len(u))
  PROVE  Fits(h, a, n, c)
<1>1. u \in Seq(Piece) /\ DOMAIN u = 1 .. Len(u) /\ Rising(u) /\ Spoken(u, a, n) /\ Precedes(h, u)
  BY DEF Fits
<1>2. c \in Seq(Piece) /\ Rising(c) /\ \A i \in DOMAIN c : \E j \in DOMAIN u : c[i] = u[j]
  BY <1>1 DEF Cut
<1>3. Spoken(c, a, n)
  BY <1>1, <1>2 DEF Spoken
<1>4. Precedes(h, c)
  BY <1>1, <1>2 DEF Precedes
<1> QED BY <1>2, <1>3, <1>4 DEF Fits

LEMMA QuietTyped == Quiet \in FrameType /\ Quiet.text = <<>>
<1>1. \A v \in Seq(Piece) : Frame("none", 0, v) \in FrameType /\ Frame("none", 0, v).text = v
  BY FrameTyped DEF FrameKind
<1>2. <<>> \in Seq(Piece)
  OBVIOUS
<1> QED BY <1>1, <1>2, Zenon DEF Quiet

LEMMA NewSound ==
  /\ NewTranslator \in TranslatorType /\ Placed(NewTranslator)
  /\ \A d : Unseen(d, NewTranslator)
  /\ NewTranslator.n = 0 /\ NewTranslator.held = <<>>
<1>1. NewTranslator \in TranslatorType
  BY DEF NewTranslator, TranslatorType
<1>2. NewTranslator.n = 0 /\ NewTranslator.held = <<>>
      /\ \A s \in Slot : NewTranslator.at[s] = Nowhere
  BY DEF NewTranslator
<1> QED BY <1>1, <1>2 DEF Placed, Unseen

LEMMA ReplyInitial == ConversationsInit => ReplyInv
<1> SUFFICES ASSUME ReplyInit PROVE ReplyInv
  BY DEF ConversationsInit
<1>1. heard = <<>> /\ heard \in Seq(Piece) /\ queue = <<>> /\ queue \in Seq(FrameType)
  BY DEF ReplyInit
<1>2. /\ tr = NewTranslator /\ handed = Quiet /\ fetch = "running" /\ sent = 0
      /\ dialect \in Dialects /\ at = "reading" /\ attempt = 1 /\ left = MaxAttempts - 1
      /\ link = 1 /\ emitted = FALSE /\ slot = TRUE /\ client.phase = "idle"
  BY DEF ReplyInit
<1>3. ReplyTypes
  <2>1. handed \in FrameType /\ client.phase = "idle"
    BY <1>2, QuietTyped
  <2>2. attempt + left = link * MaxAttempts
    BY <1>2, Bounds
  <2>3. /\ attempt \in Nat \ {0} /\ left \in 0 .. MaxAttempts - 1 /\ link \in 1 .. MaxLinks
        /\ sent \in 0 .. MaxEvents
    BY <1>2, Bounds
  <2>4. /\ dialect \in Dialects /\ at \in {"reading", "closing", "over", "orphan"}
        /\ fetch \in {"running", "ready", "idle"}
        /\ client.phase \in {"idle", "open", "ended", "closed"}
        /\ emitted \in BOOLEAN /\ slot \in BOOLEAN
    BY <1>2, Zenon
  <2> QED BY <1>1, <2>1, <2>2, <2>3, <2>4, Zenon DEF ReplyTypes
<1>4. SoundTranslator
  <2>1. tr.n = 0 /\ 0 <= sent
    BY <1>2, NewSound
  <2> QED BY <1>2, <2>1, NewSound, Zenon DEF SoundTranslator
<1>5. OneText
  <2>1. tr.held = <<>> /\ handed.text = <<>>
    BY <1>2, NewSound, QuietTyped
  <2>2. Due(<<>>) /\ Due(tr.held) /\ Due(handed.text)
    BY <2>1, NothingFits DEF Due
  <2>3. Says(queue, <<>>) /\ Silent(queue) /\ Answer(heard) /\ Spoken(heard, attempt, sent)
    BY <1>1, SilentNothing, SilentSays DEF Answer, Spoken
  <2> QED BY <1>1, <2>1, <2>2, <2>3 DEF OneText
<1> QED BY <1>3, <1>4, <1>5 DEF ReplyInv

-----------------------------------------------------------------------------
(* The executor's steps.                                                   *)

LEMMA SentTyped ==
  ASSUME NEW e \in Event, attempt \in Nat, sent \in Nat
  PROVE  /\ e \in EventType /\ \E rest \in Rest : e.piece = <<attempt, sent, rest>>
         /\ e.kind \notin {"usage", "finish"} => e.slot # Nowhere
         /\ e.kind \in {"usage", "finish"} => e.slot = Nowhere
         /\ finished => e.kind = "usage"
         /\ Resumes(e.slot) => dialect \in Interleaved
<1>1. /\ e.kind \in {"text", "think", "tool", "usage", "finish"} /\ e.slot \in Slot \union {Nowhere}
      /\ e.split \in Splits(dialect, tr, AllSplits) /\ e.piece \in {attempt} \X {sent} \X Rest
      /\ finished => e.kind = "usage"
      /\ e.kind \notin {"usage", "finish"} => e.slot # Nowhere
      /\ e.kind \in {"usage", "finish"} => e.slot = Nowhere
      /\ Resumes(e.slot) => dialect \in Interleaved
      /\ e = [kind |-> e.kind, slot |-> e.slot, split |-> e.split, piece |-> e.piece]
  BY DEF Event
<1>2. e.split \in AllSplits \union {"plain"}
  BY <1>1 DEF Splits
<1>3. PICK rest \in Rest : e.piece = <<attempt, sent, rest>>
  BY <1>1
<1>4. e.piece \in Piece
  BY <1>3 DEF Piece
<1>5. [kind |-> e.kind, slot |-> e.slot, split |-> e.split, piece |-> e.piece] \in EventType
  BY <1>1, <1>2, <1>4 DEF EventType
<1> QED BY <1>1, <1>3, <1>5, Zenon

LEMMA SendKeeps ==
  ASSUME ReplyInv, UpstreamSends
  PROVE  ReplyInv'
<1> USE DEF ReplyInv
<1>1. PICK e \in Event :
        /\ tr' = Translate(dialect, tr, e).t
        /\ queue' = Translate(dialect, tr, e).frames
        /\ sent' = sent + 1
  BY DEF UpstreamSends
<1>2. /\ at = "reading" /\ queue = <<>> /\ fetch = "running" /\ sent < MaxEvents
      /\ UNCHANGED <<dialect, at, attempt, left, link, emitted>>
      /\ UNCHANGED <<fetch, handed, client, heard, slot, gone>>
  BY DEF UpstreamSends, Running, wireVars
<1>3. /\ e \in EventType /\ \E rest \in Rest : e.piece = <<attempt, sent, rest>>
      /\ e.kind \notin {"usage", "finish"} => e.slot # Nowhere
  BY SentTyped DEF ReplyTypes
<1>4. PICK rest \in Rest : e.piece = <<attempt, sent, rest>>
  BY <1>3
<1> DEFINE out == Translate(dialect, tr, e)
           more == Append(tr.held, e.piece)
<1>5. PICK u : Portion(u, tr.held, more) /\ Grown(dialect, tr, out, u)
  BY <1>3, TranslateGrows DEF SoundTranslator
<1>11. Portion(out.t.held, tr.held, more)
  BY <1>3, TranslateGrows DEF SoundTranslator
<1>6. tr' = out.t /\ queue' = out.frames
  BY <1>1
<1> HIDE DEF out
<1>7. queue' \in Seq(FrameType) /\ Says(queue', u) /\ (~Silent(queue') => Left(tr'.held, u))
  BY <1>5, <1>6, Zenon DEF Grown, Says
<1>8. ReplyTypes'
  BY <1>1, <1>2, <1>7, Bounds DEF ReplyTypes
<1>9. SoundTranslator'
  <2>1. tr' \in TranslatorType /\ Placed(tr') /\ Unseen(dialect', tr')
    BY <1>2, <1>5, <1>6, Zenon DEF Grown
  <2>2. tr'.n = tr.n \/ (tr'.n = tr.n + 1 /\ queue' # <<>>)
    BY <1>5, <1>6, Zenon DEF Grown
  <2>3. tr.n \in Nat /\ sent \in Nat /\ tr.n <= sent
    BY DEF SoundTranslator, TranslatorType, ReplyTypes
  <2>4. tr'.n <= sent'
    BY <1>1, <2>2, <2>3
  <2>5. at' = "reading" /\ ~emitted' /\ queue' = <<>> => tr'.n = 0
    BY <1>2, <2>2 DEF SoundTranslator
  <2> QED BY <2>1, <2>4, <2>5, Zenon DEF SoundTranslator
<1>10. /\ \A x : Portion(x, tr.held, more) => Fits(heard', attempt', sent', x)
       /\ heard' \in Seq(Piece) /\ Answer(heard') /\ Spoken(heard', attempt', sent')
  <2>1. /\ heard \in Seq(Piece) /\ tr.held \in Seq(Piece) /\ attempt \in Nat /\ sent \in Nat
        /\ Rising(tr.held) /\ Spoken(tr.held, attempt, sent) /\ Precedes(heard, tr.held)
        /\ Answer(heard) /\ Spoken(heard, attempt, sent)
    BY DEF OneText, Due, Fits, ReplyTypes
  <2>2. /\ more \in Seq(Piece) /\ Rising(more) /\ Spoken(more, attempt, sent + 1)
        /\ Spoken(tr.held, attempt, sent + 1) /\ Spoken(heard, attempt, sent + 1)
    BY <1>4, <2>1, NextPiece, SpokenLater
  <2>3. Precedes(heard, more)
    BY <1>4, <2>1, PrecedesNext
  <2>4. heard' = heard /\ attempt' = attempt /\ sent' = sent + 1
    BY <1>1, <1>2
  <2> HIDE DEF more
  <2>5. /\ Fits(heard, attempt, sent + 1, tr.held) /\ Fits(heard, attempt, sent + 1, more)
        /\ Fits(heard, attempt, sent + 1, <<>>)
    BY <2>1, <2>2, <2>3, NothingFits, Zenon DEF Fits
  <2>6. \A x : Cut(x, more, Len(more)) => Fits(heard, attempt, sent + 1, x)
    BY <2>5, CutFits, Zenon
  <2>7. \A x : Portion(x, tr.held, more) => Fits(heard, attempt, sent + 1, x)
    BY <2>5, <2>6, Zenon DEF Portion
  <2> QED BY <2>1, <2>2, <2>4, <2>7
<1>12. OneText'
  <2>1. handed.text = <<>> /\ (~emitted => heard = <<>>)
    BY <1>2 DEF OneText
  <2>2. handed'.text = <<>> /\ (~emitted' => heard' = <<>>)
    BY <1>2, <2>1
  <2>3. Portion(<<>>, tr.held, more) /\ Portion(tr'.held, tr.held, more)
    BY <1>6, <1>11, Zenon DEF Portion
  <2>4. Due(tr.held)' /\ Due(handed.text)' /\ Due(u)'
    BY <1>5, <1>10, <2>2, <2>3, Zenon DEF Due
  <2> QED BY <1>7, <1>10, <2>2, <2>4, Zenon DEF OneText
<1> QED BY <1>8, <1>9, <1>12

LEMMA EndKeeps ==
  ASSUME ReplyInv, UpstreamEnds
  PROVE  ReplyInv'
<1> USE DEF ReplyInv
<1>1. /\ tr' = Closed(dialect, tr).t /\ queue' = Closed(dialect, tr).frames
      /\ at' = "closing" /\ fetch = "running"
      /\ UNCHANGED <<dialect, attempt, left, link, emitted, sent>>
      /\ UNCHANGED <<fetch, handed, client, heard, slot, gone>>
  BY DEF UpstreamEnds, Running, wireVars
<1> DEFINE out == Closed(dialect, tr)
<1>2. Grown(dialect, tr, out, tr.held) /\ out.t.held \in {<<>>, tr.held} /\ out.t.n = tr.n
  BY ClosedGrows DEF SoundTranslator
<1>3. tr' = out.t /\ queue' = out.frames
  BY <1>1
<1> HIDE DEF out
<1>0. PICK u : u = tr.held
  OBVIOUS
<1>4. queue' \in Seq(FrameType) /\ Says(queue', u) /\ (~Silent(queue') => Left(tr'.held, u))
  BY <1>0, <1>2, <1>3, Zenon DEF Grown, Says
<1>5. ReplyTypes'
  BY <1>1, <1>4 DEF ReplyTypes
<1>6. SoundTranslator'
  <2>1. /\ tr' \in TranslatorType /\ Placed(tr') /\ Unseen(dialect', tr') /\ tr'.n <= sent'
    BY <1>1, <1>2, <1>3 DEF Grown, SoundTranslator
  <2> QED BY <1>1, <2>1 DEF SoundTranslator
<1>7. Due(u)' /\ Due(<<>>)' /\ Due(handed.text)'
  <2>1. Due(u) /\ Due(<<>>) /\ Due(handed.text)
    BY <1>0, NothingFits, Zenon DEF OneText, Due
  <2> QED BY <1>1, <2>1 DEF Due
<1>8. OneText'
  <2>1. handed.text = <<>> /\ handed'.text = <<>>
    BY <1>1 DEF OneText
  <2>2. tr'.held \in {<<>>, u}
    BY <1>0, <1>2, <1>3
  <2>3. Due(tr.held)'
    BY <1>7, <2>2, Zenon DEF Due
  <2>4. /\ heard' \in Seq(Piece) /\ Answer(heard') /\ Spoken(heard', attempt', sent')
        /\ ~emitted' => heard' = <<>>
    BY <1>1 DEF OneText
  <2> QED BY <1>4, <1>7, <2>1, <2>3, <2>4, Zenon DEF OneText
<1> QED BY <1>5, <1>6, <1>8

\* Before anything went out nothing was heard, and the next attempt finds nothing held.
LEMMA BreakKeeps ==
  ASSUME ReplyInv, UpstreamBreaks, RotateHeld = FALSE
  PROVE  ReplyInv'
<1> USE DEF ReplyInv
<1>1. /\ at = "reading" /\ queue = <<>> /\ fetch = "running"
      /\ UNCHANGED <<dialect, emitted>> /\ UNCHANGED <<fetch, handed, client, heard, slot, gone>>
  BY DEF UpstreamBreaks, Running, wireVars
<1>2. /\ handed.text = <<>> /\ handed'.text = <<>> /\ heard \in Seq(Piece) /\ heard' = heard
      /\ Answer(heard) /\ (~emitted => heard = <<>>)
  BY <1>1 DEF OneText
<1>3. /\ attempt \in Nat \ {0} /\ left \in 0 .. MaxAttempts - 1 /\ link \in 1 .. MaxLinks
      /\ attempt + left = link * MaxAttempts /\ sent \in 0 .. MaxEvents /\ emitted \in BOOLEAN
  BY DEF ReplyTypes
<1>5. ASSUME Fits(heard', attempt', sent', tr'.held), Silent(queue'), Spoken(heard', attempt', sent')
      PROVE  OneText'
  <2>1. \A x : x = <<>> => Due(x)'
    BY NothingFits, Zenon DEF Due
  <2>2. Due(tr.held)' /\ Due(handed.text)'
    BY <1>2, <1>5, NothingFits, Zenon DEF Due
  <2>3. Says(queue', <<>>) /\ Due(<<>>)'
    BY <1>5, <2>1, SilentSays
  <2>4. /\ heard' \in Seq(Piece) /\ Answer(heard')
        /\ ~emitted' => heard' = <<>>
    BY <1>1, <1>2
  <2> QED BY <1>2, <1>5, <2>2, <2>3, <2>4, Zenon DEF OneText
<1>6. ASSUME NextAttempt, ~emitted, UNCHANGED <<at, queue>>, left' \in 0 .. MaxAttempts - 1,
             link' \in 1 .. MaxLinks, attempt + 1 + left' = link' * MaxAttempts,
             (tr' = tr /\ tr.held = <<>>) \/ tr' = NewTranslator
      PROVE  ReplyInv'
  <2>1. attempt' = attempt + 1 /\ sent' = 0 /\ heard = <<>> /\ tr.n = 0
    BY <1>1, <1>2, <1>6 DEF NextAttempt, SoundTranslator
  <2>2. ReplyTypes'
    <3>1. attempt' \in Nat \ {0} /\ attempt' + left' = link' * MaxAttempts /\ sent' \in 0 .. MaxEvents
      BY <1>3, <1>6, <2>1, Bounds
    <3> QED BY <1>1, <1>6, <3>1 DEF ReplyTypes
  <2>3. tr' \in TranslatorType /\ Placed(tr') /\ Unseen(dialect', tr') /\ tr'.n = 0 /\ tr'.held = <<>>
    BY <1>1, <1>6, <2>1, NewSound, Zenon DEF SoundTranslator
  <2>4. SoundTranslator'
    BY <2>1, <2>3 DEF SoundTranslator
  <2>5. Silent(queue') /\ Spoken(heard', attempt', sent')
    BY <1>1, <1>2, <1>6, <2>1, SilentNothing DEF Spoken
  <2>6. Fits(heard', attempt', sent', tr'.held)
    BY <2>3, NothingFits
  <2> QED BY <1>5, <2>2, <2>4, <2>5, <2>6
<1>7. CASE Again /\ tr.held = <<>> /\ NextAttempt /\ left' = left - 1 /\ UNCHANGED <<at, link, tr, queue>>
  <2>1. left > 0 /\ ~emitted
    BY <1>7 DEF Again
  <2>2. left' \in 0 .. MaxAttempts - 1 /\ attempt + 1 + left' = link' * MaxAttempts
    BY <1>3, <1>7, <2>1, Bounds
  <2> QED BY <1>3, <1>6, <1>7, <2>1, <2>2
<1>8. CASE /\ ~Again /\ ~emitted /\ link < MaxLinks /\ NextAttempt
           /\ left' = MaxAttempts - 1 /\ link' = link + 1 /\ tr' = ForLink /\ UNCHANGED <<at, queue>>
  <2>1. left = 0
    BY <1>3, <1>8, Bounds DEF Again
  <2>2. left' \in 0 .. MaxAttempts - 1 /\ link' \in 1 .. MaxLinks
    BY <1>3, <1>8, Bounds
  <2>3. attempt + 1 + left' = link' * MaxAttempts
    <3>1. (link + 1) * MaxAttempts = link * MaxAttempts + MaxAttempts
      BY <1>3, Bounds
    <3> QED BY <1>3, <1>8, <2>1, <3>1, Bounds
  <2>4. (tr' = tr /\ tr.held = <<>>) \/ tr' = NewTranslator
    BY <1>8 DEF ForLink, SoundTranslator, Unseen
  <2> QED BY <1>6, <1>8, <2>2, <2>3, <2>4
<1>9. CASE Fail(tr) /\ UNCHANGED <<attempt, left, link, sent, finished, running>>
  <2> DEFINE out == Failed(dialect, tr)
  <2>1. tr' = out.t /\ queue' = out.frames /\ at' = "closing"
    BY <1>9 DEF Fail
  <2>2. (\A u : Grown(dialect, tr, out, u)) /\ out.t.held = tr.held /\ out.t.n = tr.n /\ Silent(out.frames)
    BY FailedGrows DEF SoundTranslator
  <2> HIDE DEF out
  <2>3. /\ tr' \in TranslatorType /\ Placed(tr') /\ Unseen(dialect', tr') /\ tr'.n = tr.n
        /\ tr'.held = tr.held /\ Silent(queue') /\ queue' \in Seq(FrameType)
    BY <1>1, <2>1, <2>2, Zenon DEF Grown, Silent
  <2>4. SoundTranslator'
    BY <1>9, <2>1, <2>3 DEF SoundTranslator
  <2>5. ReplyTypes'
    BY <1>1, <1>9, <2>1, <2>3 DEF ReplyTypes
  <2>6. OneText'
    <3>1. Spoken(heard', attempt', sent')
      BY <1>1, <1>9 DEF OneText
    <3>2. PICK w : w = tr.held
      OBVIOUS
    <3>3. Fits(heard, attempt, sent, w)
      BY <3>2 DEF OneText, Due
    <3>4. Fits(heard', attempt', sent', tr'.held)
      BY <1>1, <1>9, <2>3, <3>2, <3>3
    <3> QED BY <1>5, <2>3, <3>1, <3>4
  <2> QED BY <2>4, <2>5, <2>6
<1> QED BY <1>7, <1>8, <1>9 DEF UpstreamBreaks

LEMMA YieldKeeps ==
  ASSUME ReplyInv, Yield
  PROVE  ReplyInv'
<1> USE DEF ReplyInv
<1>1. /\ queue # <<>> /\ fetch = "running" /\ handed' = Head(queue) /\ queue' = Tail(queue)
      /\ fetch' = "ready" /\ emitted' = TRUE
      /\ UNCHANGED <<dialect, at, attempt, left, link, sent, tr, client, heard, slot, gone>>
  BY DEF Yield, Running
<1>2. PICK u : Due(u) /\ Says(queue, u) /\ (~Silent(queue) => Left(tr.held, u))
  BY DEF OneText
<1>3. /\ queue \in Seq(FrameType) /\ Head(queue) \in FrameType /\ Tail(queue) \in Seq(FrameType)
      /\ DOMAIN queue = 1 .. Len(queue) /\ Len(queue) \in Nat \ {0} /\ Head(queue) = queue[1]
      /\ DOMAIN Tail(queue) = 1 .. Len(queue) - 1
      /\ \A i \in 1 .. Len(queue) - 1 : Tail(queue)[i] = queue[i + 1]
  BY <1>1 DEF ReplyTypes
<1>4. Says(queue', u)
  <2>1. \A i \in 1 .. Len(queue) - 1 : i + 1 \in DOMAIN queue
    BY <1>3
  <2> QED BY <1>1, <1>2, <1>3, <2>1 DEF Says
<1>5. handed'.text \in {<<>>, u}
  BY <1>1, <1>2, <1>3 DEF Says
<1>6. handed'.text # <<>> => Silent(queue')
  BY <1>1, <1>2, <1>3 DEF Says, Silent
<1>7. handed'.text # <<>> \/ ~Silent(queue') => ~Silent(queue)
  BY <1>1, <1>3 DEF Silent
<1>8. ReplyTypes'
  BY <1>1, <1>3 DEF ReplyTypes
<1>9. SoundTranslator'
  BY <1>1 DEF SoundTranslator
<1>10. OneText'
  <2>1. Due(u)' /\ Due(tr.held)' /\ Due(<<>>)'
    BY <1>1, <1>2, NothingFits DEF OneText, Due
  <2>2. Due(handed.text)'
    BY <1>5, <2>1, Zenon DEF Due
  <2>3. /\ heard' \in Seq(Piece) /\ Answer(heard') /\ Spoken(heard', attempt', sent') /\ emitted'
        /\ handed'.text # <<>> \/ ~Silent(queue') => Left(tr'.held, u)
    BY <1>1, <1>2, <1>7 DEF OneText
  <2>4. handed'.text # <<>> => Left(tr'.held, handed'.text)
    BY <1>5, <2>3
  <2> QED BY <1>1, <1>4, <1>6, <2>1, <2>2, <2>3, <2>4, Zenon DEF OneText
<1> QED BY <1>8, <1>9, <1>10

-----------------------------------------------------------------------------
(* The client's steps and the rest.                                        *)

LEMMA DeliverKeeps ==
  ASSUME ReplyInv, Deliver
  PROVE  ReplyInv'
<1> USE DEF ReplyInv
<1>0. PICK u : Due(u) /\ Says(queue, u) /\ (~Silent(queue) => Left(tr.held, u))
  BY DEF OneText
<1>1. PICK v : v = handed.text
  OBVIOUS
<1>2. PICK w : w = tr.held
  OBVIOUS
<1>3. /\ heard' = heard \o v /\ handed' = Quiet /\ fetch' = "idle"
      /\ UNCHANGED <<dialect, at, attempt, left, link, emitted, sent, tr, queue, slot>>
  BY <1>1 DEF Deliver, Hears, execVars
<1>4. client'.phase \in {"idle", "open", "ended", "closed"}
  BY DEF Deliver, Hears, ReplyTypes
<1>5. ReplyTypes'
  BY <1>3, <1>4, QuietTyped DEF ReplyTypes
<1>6. SoundTranslator'
  BY <1>3 DEF SoundTranslator
<1>7. /\ heard \in Seq(Piece) /\ Answer(heard) /\ Spoken(heard, attempt, sent)
      /\ v \in Seq(Piece) /\ Rising(v) /\ Spoken(v, attempt, sent) /\ Precedes(heard, v)
  BY <1>1 DEF OneText, Due, Fits
<1>8. heard' \in Seq(Piece) /\ Answer(heard') /\ Spoken(heard', attempt', sent')
  BY <1>3, <1>7, AnswerJoined, SpokenJoined
<1>9. CASE v = <<>>
  <2>1. heard' = heard
    BY <1>3, <1>7, <1>9
  <2>2. Fits(heard', attempt', sent', u) /\ Fits(heard', attempt', sent', w)
    BY <1>0, <1>2, <1>3, <2>1 DEF OneText, Due
  <2>3. Due(u)' /\ Due(tr.held)' /\ Due(handed.text)'
    <3>1. handed'.text = <<>> /\ tr'.held = w
      BY <1>2, <1>3, QuietTyped
    <3> QED BY <2>2, <3>1, NothingFits, Zenon DEF Due
  <2>4. ~emitted' => heard' = <<>>
    BY <1>3, <2>1 DEF OneText
  <2>5. (~Silent(queue') => Left(tr'.held, u)) /\ Says(queue', u) /\ handed'.text = <<>>
    BY <1>0, <1>3, QuietTyped DEF OneText
  <2>6. OneText'
    BY <1>8, <2>3, <2>4, <2>5, Zenon DEF OneText
  <2> QED BY <1>5, <1>6, <2>6
<1>10. CASE v # <<>>
  <2>1. Silent(queue) /\ Left(w, v) /\ emitted = TRUE
    BY <1>1, <1>2, <1>10 DEF OneText, ReplyTypes
  <2>2. Fits(heard', attempt', sent', w)
    <3>1. CASE w = <<>>
      BY <3>1, NothingFits
    <3>2. CASE w = v /\ Kept(v)
      <4>1. Precedes(heard \o v, v)
        BY <1>7, <3>2, KeptAgain
      <4> QED BY <1>3, <1>7, <3>2, <4>1 DEF Fits
    <3> QED BY <2>1, <3>1, <3>2 DEF Left
  <2>3. handed'.text = <<>> /\ tr'.held = w /\ emitted'
    BY <1>2, <1>3, <2>1, QuietTyped
  <2>4. Says(queue', <<>>) /\ Silent(queue')
    BY <1>3, <2>1, SilentSays
  <2>5. Due(<<>>)' /\ Due(tr.held)' /\ Due(handed.text)'
    BY <2>2, <2>3, NothingFits, Zenon DEF Due
  <2>6. OneText'
    BY <1>8, <2>3, <2>4, <2>5, Zenon DEF OneText
  <2> QED BY <1>5, <1>6, <2>6
<1> QED BY <1>9, <1>10

\* Steps that change no text.
LEMMA CalmKeeps ==
  ASSUME ReplyInv, UNCHANGED <<dialect, attempt, left, link, emitted, sent, tr, heard>>,
         queue' = queue \/ queue' = <<>>,
         handed' = handed \/ (handed'.text = <<>> /\ handed' \in FrameType),
         (at' = at /\ queue' = queue) \/ at' \in {"closing", "over", "orphan"},
         fetch' \in {"running", "ready", "idle"},
         fetch' = fetch \/ handed'.text = <<>>,
         client'.phase \in {"idle", "open", "ended", "closed"}, slot' \in BOOLEAN
  PROVE  ReplyInv'
<1> USE DEF ReplyInv
<1>0. PICK u : Due(u) /\ Says(queue, u) /\ (~Silent(queue) => Left(tr.held, u))
  BY DEF OneText
<1>1. ReplyTypes'
  <2>1. queue' \in Seq(FrameType) /\ handed' \in FrameType
    <3>1. <<>> \in Seq(FrameType)
      OBVIOUS
    <3> QED BY <3>1 DEF ReplyTypes
  <2> QED BY <2>1 DEF ReplyTypes
<1>2. SoundTranslator'
  BY DEF SoundTranslator
<1>3. Silent(queue) => Silent(queue')
  BY SilentNothing
<1>4. Due(u)' /\ Due(tr.held)' /\ Due(handed.text)'
  <2>1. handed'.text \in {handed.text, <<>>}
    OBVIOUS
  <2>2. PICK w : w = tr.held
    OBVIOUS
  <2>3. PICK v : v = handed.text
    OBVIOUS
  <2>4. /\ Fits(heard', attempt', sent', u) /\ Fits(heard', attempt', sent', w)
        /\ Fits(heard', attempt', sent', v)
    BY <1>0, <2>2, <2>3 DEF OneText, Due
  <2>5. tr'.held = w /\ handed'.text \in {v, <<>>}
    BY <2>1, <2>2, <2>3
  <2> QED BY <2>4, <2>5, NothingFits, Zenon DEF Due
<1>5. Says(queue', u)
  BY <1>0, SilentNothing, SilentSays
<1>6. OneText'
  <2>1. /\ heard' \in Seq(Piece) /\ Answer(heard') /\ Spoken(heard', attempt', sent')
        /\ ~emitted' => heard' = <<>> /\ handed'.text = <<>>
    BY DEF OneText
  <2>2. handed'.text # <<>> => handed'.text = handed.text
    OBVIOUS
  <2>3. /\ fetch' # "ready" => handed'.text = <<>>
        /\ handed'.text # <<>> => Silent(queue') /\ Left(tr'.held, handed'.text)
        /\ ~Silent(queue') => Left(tr'.held, u)
    BY <1>0, <1>3, <2>2 DEF OneText
  <2> QED BY <1>4, <1>5, <2>1, <2>3, Zenon DEF OneText
<1> QED BY <1>1, <1>2, <1>6

LEMMA ReplyStep ==
  ASSUME RotateHeld = FALSE, ReplyInv, [ConversationsNext]_conversationVars
  PROVE  ReplyInv'
<1>1. ReplyTypes
  BY DEF ReplyInv
<1>2. heard \o <<>> = heard /\ Quiet \in FrameType /\ Quiet.text = <<>>
  <2>1. heard \in Seq(Piece)
    BY DEF ReplyInv, OneText
  <2> QED BY <2>1, QuietTyped
<1>3. CASE UpstreamSends
  BY <1>3, SendKeeps
<1>4. CASE UpstreamEnds
  BY <1>4, EndKeeps
<1>5. CASE UpstreamBreaks
  BY <1>5, BreakKeeps
<1>6. CASE Yield
  BY <1>6, YieldKeeps
<1>7. CASE Deliver
  BY <1>7, DeliverKeeps
<1>8. CASE Return
  <2>1. /\ UNCHANGED <<dialect, attempt, left, link, emitted, sent, tr, heard, queue, handed, client>>
        /\ at' = "over" /\ fetch' = "idle" /\ slot' = FALSE /\ fetch = "running"
    BY <1>8 DEF Return, Running
  <2>2. handed'.text = <<>>
    BY <2>1 DEF ReplyInv, OneText
  <2> QED BY <1>1, <2>1, <2>2, CalmKeeps DEF ReplyTypes
<1>9. CASE Fetch
  <2>1. /\ UNCHANGED <<dialect, at, attempt, left, link, emitted, sent, tr, heard, queue, handed,
                       client, slot>>
        /\ fetch' = "running" /\ fetch = "idle"
    BY <1>9 DEF Fetch, execVars
  <2>2. handed'.text = <<>>
    BY <2>1 DEF ReplyInv, OneText
  <2> QED BY <1>1, <2>1, <2>2, CalmKeeps DEF ReplyTypes
<1>10. CASE Heartbeat
  <2>1. /\ UNCHANGED <<dialect, at, attempt, left, link, emitted, sent, tr, queue, fetch, handed, slot>>
        /\ heard' = heard \o Frame("ping", 0, <<>>).text
        /\ client'.phase = client.phase
    BY <1>10 DEF Heartbeat, Hears, execVars, Frame
  <2>2. heard' = heard
    BY <1>2, <2>1 DEF Frame
  <2> QED BY <1>1, <2>1, <2>2, CalmKeeps DEF ReplyTypes
<1>11. CASE Leave
  <2>1. /\ UNCHANGED <<dialect, attempt, left, link, emitted, sent, tr, heard, client>>
        /\ queue' = <<>> /\ handed' = Quiet /\ fetch' = "idle" /\ slot' = FALSE
        /\ at' \in {"closing", "over", "orphan"}
    BY <1>11 DEF Leave
  <2> QED BY <1>1, <1>2, <2>1, CalmKeeps DEF ReplyTypes
<1>12. CASE Collect
  <2>1. /\ UNCHANGED <<dialect, attempt, left, link, emitted, sent, tr, heard, client, queue, handed,
                       fetch, slot>>
        /\ at' = "over"
    BY <1>12 DEF Collect, wireVars
  <2> QED BY <1>1, <2>1, CalmKeeps DEF ReplyTypes
<1>13. CASE UNCHANGED replyVars
  <2>1. /\ UNCHANGED <<dialect, at, attempt, left, link, emitted, sent, tr, heard, client, queue,
                       handed, fetch, slot>>
    BY <1>13 DEF replyVars, execVars, wireVars
  <2> QED BY <1>1, <2>1, CalmKeeps DEF ReplyTypes
<1>14. ReplyNext \/ UNCHANGED replyVars
  BY DEF ConversationsNext, conversationVars, Within
<1> QED BY <1>3, <1>4, <1>5, <1>6, <1>7, <1>8, <1>9, <1>10, <1>11, <1>12, <1>13, <1>14 DEF ReplyNext

\* The invariant bounds what the types do.
LEMMA ReplyHolds == ReplyInv => OneAnswer
<1> SUFFICES ASSUME ReplyInv PROVE OneAnswer
  OBVIOUS
<1>1. ReplyTypes /\ SoundTranslator /\ OneText
  BY DEF ReplyInv
<1>2. attempt \in 1 .. MaxAttempts * MaxLinks
  <2>1. /\ attempt \in Nat \ {0} /\ left \in 0 .. MaxAttempts - 1 /\ link \in 1 .. MaxLinks
        /\ attempt + left = link * MaxAttempts
    BY <1>1 DEF ReplyTypes
  <2>2. link * MaxAttempts <= MaxAttempts * MaxLinks
    BY <2>1, Bounds
  <2>3. link * MaxAttempts \in Int /\ MaxAttempts * MaxLinks \in Int
    BY <2>1, Bounds
  <2> QED BY <2>1, <2>2, <2>3
<1>3. tr.n \in 0 .. MaxEvents
  <2>1. tr.n \in Nat /\ tr.n <= sent /\ sent \in 0 .. MaxEvents
    BY <1>1 DEF SoundTranslator, TranslatorType, ReplyTypes
  <2> QED BY <2>1, Bounds
<1>4. ReplyTypeOK
  BY <1>1, <1>2, <1>3, Zenon DEF ReplyTypes, SoundTranslator, Placed, ReplyTypeOK
<1> QED BY <1>1, <1>4 DEF OneText, Answer, OneAnswer

\* What a client hears is of one attempt, in order, each piece once but for those around
\* a leaked call, which are heard again (dsml.py 209-213), with its types, whatever the
\* number of attempts, models and events.  The hypothesis is the case the code does not
\* cover: an attempt that breaks while the filter of chat holds text back.
THEOREM AnswerIsOne ==
  ASSUME RotateHeld = FALSE
  PROVE  ConversationsSpec => []OneAnswer
<1>1. ConversationsInit => ReplyInv
  BY ReplyInitial
<1>2. ReplyInv /\ [ConversationsNext]_conversationVars => ReplyInv'
  BY ReplyStep
<1>3. ReplyInv => OneAnswer
  BY ReplyHolds
<1> QED BY <1>1, <1>2, <1>3, PTL DEF ConversationsSpec

-----------------------------------------------------------------------------
(* What a client sees: the state of its parser before and after a frame.   *)

View == [phase : {"idle", "open", "ended", "closed"}, opened : Nat, live : SUBSET Nat]

V(phase, opened, live) == [phase |-> phase, opened |-> opened, live |-> live]

Known == [type : FrameKind, block : 0 .. MaxEvents, text : Seq(Piece)]

Accepts(d, c, f) ==
  \/ f.type = "start" /\ d # "chat" /\ c.phase = "idle"
  \/ /\ f.type = "open" /\ c.phase = "open" /\ f.block = c.opened
     /\ d = "anthropic" => c.live = {}
  \/ /\ f.type = "delta"
     /\ IF d = "chat" THEN c.phase \in {"idle", "open"} ELSE c.phase = "open" /\ f.block \in c.live
  \/ f.type = "close" /\ c.phase = "open" /\ f.block \in c.live
  \/ f.type = "usage" /\ d = "chat" /\ c.phase = "ended"
  \/ /\ f.type = "end" /\ c.live = {}
     /\ IF d = "chat" THEN c.phase \in {"idle", "open"} ELSE c.phase = "open"
  \/ f.type = "done" /\ d = "chat" /\ c.phase = "ended"
  \/ f.type = "fail" /\ (c.phase # "closed" \/ d = "chat")

Seen(d, c, f) ==
  V(IF f.type = "start" \/ (f.type = "delta" /\ d = "chat") THEN "open"
    ELSE IF f.type = "end" /\ d = "chat" THEN "ended"
    ELSE IF f.type \in {"end", "done", "fail"} THEN "closed" ELSE c.phase,
    IF f.type = "open" THEN c.opened + 1 ELSE c.opened,
    IF f.type = "open" THEN c.live \union {f.block}
    ELSE IF f.type = "close" THEN c.live \ {f.block} ELSE c.live)

\* From one state to another the client accepts every frame.
Leads(d, c, frames, z) ==
  /\ frames \in Seq(Known)
  /\ \E cs \in [1 .. Len(frames) + 1 -> View] :
       /\ cs[1] = c /\ cs[Len(frames) + 1] = z
       /\ \A i \in 1 .. Len(frames) :
            Accepts(d, cs[i], frames[i]) /\ cs[i + 1] = Seen(d, cs[i], frames[i])

LEMMA SeenTyped ==
  ASSUME NEW d, NEW c \in View, NEW f \in Known
  PROVE  Seen(d, c, f) \in View
<1>1. f.block \in Nat /\ c.opened \in Nat /\ c.live \in SUBSET Nat
      /\ c.phase \in {"idle", "open", "ended", "closed"}
  BY Bounds DEF View, Known
<1> QED BY <1>1 DEF Seen, V, View

LEMMA LeadsNowhere ==
  ASSUME NEW d, NEW c \in View
  PROVE  Leads(d, c, <<>>, c)
<1> DEFINE cs == [i \in 1 .. 1 |-> c]
<1>1. <<>> \in Seq(Known) /\ Len(<<>>) = 0
  OBVIOUS
<1>2. cs \in [1 .. 0 + 1 -> View] /\ cs[1] = c /\ cs[0 + 1] = c
  OBVIOUS
<1> HIDE DEF cs
<1> QED BY <1>1, <1>2 DEF Leads

LEMMA LeadsOne ==
  ASSUME NEW d, NEW c \in View, NEW f \in Known, Accepts(d, c, f)
  PROVE  Leads(d, c, <<f>>, Seen(d, c, f))
<1> DEFINE cs == [i \in 1 .. 2 |-> IF i = 1 THEN c ELSE Seen(d, c, f)]
<1>1. <<f>> \in Seq(Known) /\ Len(<<f>>) = 1 /\ <<f>>[1] = f
  OBVIOUS
<1>2. cs \in [1 .. 1 + 1 -> View] /\ cs[1] = c /\ cs[1 + 1] = Seen(d, c, f)
  BY SeenTyped
<1> HIDE DEF cs
<1> QED BY <1>1, <1>2 DEF Leads

LEMMA LeadsJoined ==
  ASSUME NEW d, NEW c, NEW s, NEW x, NEW t, NEW z, Leads(d, c, s, x), Leads(d, x, t, z)
  PROVE  Leads(d, c, s \o t, z)
<1>1. s \in Seq(Known) /\ t \in Seq(Known)
  BY DEF Leads
<1> DEFINE n == Len(s)
           m == Len(t)
<1>2. /\ s \o t \in Seq(Known) /\ n \in Nat /\ m \in Nat /\ Len(s \o t) = n + m
      /\ \A i \in 1 .. n + m : (s \o t)[i] = IF i <= n THEN s[i] ELSE t[i - n]
  BY <1>1, ConcatProperties
<1>3. PICK a \in [1 .. n + 1 -> View] :
        /\ a[1] = c /\ a[n + 1] = x
        /\ \A i \in 1 .. n : Accepts(d, a[i], s[i]) /\ a[i + 1] = Seen(d, a[i], s[i])
  BY DEF Leads
<1>4. PICK b \in [1 .. m + 1 -> View] :
        /\ b[1] = x /\ b[m + 1] = z
        /\ \A i \in 1 .. m : Accepts(d, b[i], t[i]) /\ b[i + 1] = Seen(d, b[i], t[i])
  BY DEF Leads
<1> HIDE DEF n, m
<1> DEFINE cs == [i \in 1 .. n + m + 1 |-> IF i <= n THEN a[i] ELSE b[i - n]]
<1>5. \A i \in 1 .. n + m + 1 : cs[i] = IF i <= n THEN a[i] ELSE b[i - n]
  OBVIOUS
<1>6. cs \in [1 .. n + m + 1 -> View]
  <2>1. ASSUME NEW i \in 1 .. n + m + 1
        PROVE  (IF i <= n THEN a[i] ELSE b[i - n]) \in View
    <3>1. CASE i <= n
      BY <1>2, <3>1
    <3>2. CASE ~(i <= n)
      <4>1. i - n \in 1 .. m + 1
        BY <1>2, <3>2
      <4> QED BY <3>2, <4>1
    <3> QED BY <3>1, <3>2
  <2> QED BY <2>1
<1>7. cs[1] = c /\ cs[n + m + 1] = z
  <2>1. 1 \in 1 .. n + m + 1 /\ n + m + 1 \in 1 .. n + m + 1 /\ ~(n + m + 1 <= n)
        /\ n + m + 1 - n = m + 1
    BY <1>2
  <2>2. cs[n + m + 1] = z
    <3> DEFINE k == n + m + 1
    <3>1. k \in 1 .. n + m + 1 /\ ~(k <= n) /\ k - n = m + 1
      BY <1>2
    <3> HIDE DEF k
    <3>2. cs[k] = b[k - n]
      BY <1>5, <3>1
    <3>3. b[k - n] = b[m + 1]
      BY <3>1
    <3> QED BY <1>4, <3>2, <3>3 DEF k
  <2>3. CASE n = 0
    <3>1. c = x /\ ~(1 <= n) /\ 1 - n = 1
      BY <1>3, <2>3
    <3> QED BY <1>4, <1>5, <2>1, <2>2, <3>1
  <2>4. CASE n # 0
    <3>1. 1 <= n
      BY <1>2, <2>4
    <3> QED BY <1>3, <1>5, <2>1, <2>2, <3>1
  <2> QED BY <2>3, <2>4
<1> HIDE DEF cs
<1>8. ASSUME NEW i \in 1 .. n + m
      PROVE  /\ Accepts(d, cs[i], (s \o t)[i])
             /\ cs[i + 1] = Seen(d, cs[i], (s \o t)[i])
  <2>0. i \in 1 .. n + m + 1 /\ i + 1 \in 1 .. n + m + 1
    BY <1>2
  <2>1. CASE i < n
    <3>1. i \in 1 .. n /\ i <= n /\ i + 1 <= n
      BY <1>2, <2>1
    <3> QED BY <1>2, <1>3, <1>5, <2>0, <3>1
  <2>2. CASE i = n
    <3>1. i \in 1 .. n /\ i <= n /\ ~(i + 1 <= n) /\ i + 1 - n = 1
      BY <1>2, <2>2
    <3>2. cs[i] = a[i] /\ cs[i + 1] = b[1] /\ b[1] = a[i + 1] /\ (s \o t)[i] = s[i]
      BY <1>2, <1>3, <1>4, <1>5, <2>0, <2>2, <3>1
    <3> QED BY <1>3, <3>1, <3>2
  <2>3. CASE i > n
    <3>1. i - n \in 1 .. m /\ ~(i <= n) /\ ~(i + 1 <= n) /\ i + 1 - n = (i - n) + 1
      BY <1>2, <2>3
    <3>2. cs[i] = b[i - n] /\ cs[i + 1] = b[(i - n) + 1] /\ (s \o t)[i] = t[i - n]
      BY <1>2, <1>5, <2>0, <3>1
    <3> QED BY <1>4, <3>1, <3>2
  <2> QED BY <1>2, <2>1, <2>2, <2>3
<1> QED BY <1>2, <1>6, <1>7, <1>8 DEF Leads

LEMMA LeadsHead ==
  ASSUME NEW d, NEW c, NEW s, NEW z, Leads(d, c, s, z), s # <<>>
  PROVE  /\ c \in View /\ Head(s) \in Known /\ Tail(s) \in Seq(Known)
         /\ Accepts(d, c, Head(s))
         /\ Leads(d, Seen(d, c, Head(s)), Tail(s), z)
<1> DEFINE n == Len(s) - 1
<1>1. /\ s \in Seq(Known) /\ Len(s) = n + 1 /\ n \in Nat /\ Head(s) = s[1] /\ s[1] \in Known
      /\ Tail(s) \in Seq(Known) /\ Len(Tail(s)) = n
      /\ \A i \in 1 .. n : Tail(s)[i] = s[i + 1]
  BY DEF Leads
<1>2. PICK cs \in [1 .. (n + 1) + 1 -> View] :
        /\ cs[1] = c /\ cs[(n + 1) + 1] = z
        /\ \A i \in 1 .. n + 1 :
             Accepts(d, cs[i], s[i]) /\ cs[i + 1] = Seen(d, cs[i], s[i])
  BY <1>1 DEF Leads
<1> HIDE DEF n
<1>3. Accepts(d, c, s[1]) /\ cs[2] = Seen(d, c, s[1]) /\ c \in View
  <2>1. 1 \in 1 .. n + 1 /\ 1 \in 1 .. (n + 1) + 1
    BY <1>1
  <2> QED BY <1>2, <2>1
<1> DEFINE b == [i \in 1 .. n + 1 |-> cs[i + 1]]
<1>4. /\ b \in [1 .. n + 1 -> View] /\ b[1] = cs[2] /\ b[n + 1] = z
      /\ \A i \in 1 .. n + 1 : b[i] = cs[i + 1]
  BY <1>1, <1>2
<1> HIDE DEF b
<1>5. ASSUME NEW i \in 1 .. n
      PROVE  Accepts(d, b[i], Tail(s)[i]) /\ b[i + 1] = Seen(d, b[i], Tail(s)[i])
  <2>1. i + 1 \in 1 .. n + 1 /\ i \in 1 .. n + 1
    BY <1>1
  <2> QED BY <1>1, <1>2, <1>4, <2>1
<1> QED BY <1>1, <1>3, <1>4, <1>5 DEF Leads

-----------------------------------------------------------------------------
(* One frame at a time.                                                    *)

Bare(type, block) == Frame(type, block, <<>>)

LEMMA KnownFrame ==
  ASSUME NEW type \in FrameKind, NEW block \in 0 .. MaxEvents, NEW u \in Seq(Piece)
  PROVE  /\ Frame(type, block, u) \in Known
         /\ Frame(type, block, u).type = type /\ Frame(type, block, u).block = block
BY DEF Frame, Known

LEMMA KnownBlank ==
  ASSUME NEW type \in FrameKind, NEW block \in 0 .. MaxEvents
  PROVE  /\ Bare(type, block) \in Known
         /\ Bare(type, block).type = type /\ Bare(type, block).block = block
<1>1. <<>> \in Seq(Piece)
  OBVIOUS
<1>2. \A u \in Seq(Piece) :
        /\ Frame(type, block, u) \in Known
        /\ Frame(type, block, u).type = type /\ Frame(type, block, u).block = block
  BY KnownFrame
<1> QED BY <1>1, <1>2, Zenon DEF Bare

LEMMA ViewFields ==
  ASSUME NEW p \in {"idle", "open", "ended", "closed"}, NEW n \in Nat, NEW live \in SUBSET Nat
  PROVE  /\ V(p, n, live) \in View
         /\ V(p, n, live).phase = p /\ V(p, n, live).opened = n /\ V(p, n, live).live = live
BY DEF V, View

LEMMA StartLeads ==
  ASSUME NEW d, d # "chat", NEW n \in Nat, NEW live \in SUBSET Nat
  PROVE  Leads(d, V("idle", n, live), <<Bare("start", 0)>>, V("open", n, live))
<1> DEFINE f == Bare("start", 0)
           c == V("idle", n, live)
<1>1. f \in Known /\ f.type = "start" /\ f.block = 0
  BY KnownBlank, Bounds DEF FrameKind
<1>2. c \in View /\ c.phase = "idle" /\ c.opened = n /\ c.live = live
  BY ViewFields
<1> HIDE DEF f, c
<1>3. Accepts(d, c, f) /\ Seen(d, c, f) = V("open", n, live)
  <2>1. Accepts(d, c, f)
    BY <1>1, <1>2 DEF Accepts
  <2>2. Seen(d, c, f) = V("open", n, live)
    BY <1>1, <1>2 DEF Seen
  <2> QED BY <2>1, <2>2
<1>4. Leads(d, c, <<f>>, V("open", n, live))
  BY <1>1, <1>2, <1>3, LeadsOne
<1> QED BY <1>4 DEF f, c

LEMMA OpenLeads ==
  ASSUME NEW d, NEW n \in 0 .. MaxEvents, NEW live \in SUBSET Nat, d = "anthropic" => live = {}
  PROVE  Leads(d, V("open", n, live), <<Bare("open", n)>>, V("open", n + 1, live \union {n}))
<1> DEFINE f == Bare("open", n)
           c == V("open", n, live)
<1>1. f \in Known /\ f.type = "open" /\ f.block = n
  BY KnownBlank DEF FrameKind
<1>2. c \in View /\ c.phase = "open" /\ c.opened = n /\ c.live = live
  BY ViewFields, Bounds
<1> HIDE DEF f, c
<1>3. Accepts(d, c, f) /\ Seen(d, c, f) = V("open", n + 1, live \union {n})
  BY <1>1, <1>2 DEF Accepts, Seen
<1>4. Leads(d, c, <<f>>, V("open", n + 1, live \union {n}))
  BY <1>1, <1>2, <1>3, LeadsOne
<1> QED BY <1>4 DEF f, c

LEMMA DeltaLeads ==
  ASSUME NEW d, d # "chat", NEW n \in Nat, NEW live \in SUBSET Nat, NEW b \in live,
         b \in 0 .. MaxEvents, NEW u \in Seq(Piece)
  PROVE  Leads(d, V("open", n, live), <<Frame("delta", b, u)>>, V("open", n, live))
<1> DEFINE f == Frame("delta", b, u)
           c == V("open", n, live)
<1>1. f \in Known /\ f.type = "delta" /\ f.block = b
  BY KnownFrame DEF FrameKind
<1>2. c \in View /\ c.phase = "open" /\ c.opened = n /\ c.live = live
  BY ViewFields
<1> HIDE DEF f, c
<1>3. Accepts(d, c, f) /\ Seen(d, c, f) = V("open", n, live)
  BY <1>1, <1>2 DEF Accepts, Seen
<1>4. Leads(d, c, <<f>>, V("open", n, live))
  BY <1>1, <1>2, <1>3, LeadsOne
<1> QED BY <1>4 DEF f, c

LEMMA ChunkLeads ==
  ASSUME NEW p \in {"idle", "open"}, NEW n \in Nat, NEW live \in SUBSET Nat, NEW u \in Seq(Piece)
  PROVE  Leads("chat", V(p, n, live), <<Frame("delta", 0, u)>>, V("open", n, live))
<1> DEFINE f == Frame("delta", 0, u)
           c == V(p, n, live)
<1>1. f \in Known /\ f.type = "delta" /\ f.block = 0
  BY KnownFrame, Bounds DEF FrameKind
<1>2. c \in View /\ c.phase = p /\ c.opened = n /\ c.live = live
  BY ViewFields
<1> HIDE DEF f, c
<1>3. Accepts("chat", c, f) /\ Seen("chat", c, f) = V("open", n, live)
  BY <1>1, <1>2 DEF Accepts, Seen
<1>4. Leads("chat", c, <<f>>, V("open", n, live))
  BY <1>1, <1>2, <1>3, LeadsOne
<1> QED BY <1>4 DEF f, c

LEMMA CloseLeads ==
  ASSUME NEW d, NEW n \in Nat, NEW live \in SUBSET Nat, NEW b \in live, b \in 0 .. MaxEvents
  PROVE  Leads(d, V("open", n, live), <<Bare("close", b)>>, V("open", n, live \ {b}))
<1> DEFINE f == Bare("close", b)
           c == V("open", n, live)
<1>1. f \in Known /\ f.type = "close" /\ f.block = b
  BY KnownBlank DEF FrameKind
<1>2. c \in View /\ c.phase = "open" /\ c.opened = n /\ c.live = live
  BY ViewFields
<1> HIDE DEF f, c
<1>3. Accepts(d, c, f) /\ Seen(d, c, f) = V("open", n, live \ {b})
  BY <1>1, <1>2 DEF Accepts, Seen
<1>4. Leads(d, c, <<f>>, V("open", n, live \ {b}))
  BY <1>1, <1>2, <1>3, LeadsOne
<1> QED BY <1>4 DEF f, c

LEMMA EndLeads ==
  ASSUME NEW d, NEW p \in {"idle", "open"}, d # "chat" => p = "open", NEW n \in Nat
  PROVE  Leads(d, V(p, n, {}), <<Bare("end", 0)>>,
               V(IF d = "chat" THEN "ended" ELSE "closed", n, {}))
<1> DEFINE f == Bare("end", 0)
           c == V(p, n, {})
           z == V(IF d = "chat" THEN "ended" ELSE "closed", n, {})
<1>1. f \in Known /\ f.type = "end" /\ f.block = 0
  BY KnownBlank, Bounds DEF FrameKind
<1>2. c \in View /\ c.phase = p /\ c.opened = n /\ c.live = {}
  BY ViewFields
<1> HIDE DEF f, c
<1>3. Accepts(d, c, f) /\ Seen(d, c, f) = z
  BY <1>1, <1>2 DEF Accepts, Seen
<1>4. Leads(d, c, <<f>>, z)
  BY <1>1, <1>2, <1>3, LeadsOne, Zenon
<1> QED BY <1>4 DEF f, c

LEMMA AfterLeads ==
  ASSUME NEW n \in Nat
  PROVE  /\ Leads("chat", V("ended", n, {}), <<Bare("usage", 0)>>, V("ended", n, {}))
         /\ Leads("chat", V("ended", n, {}), <<Bare("done", 0)>>, V("closed", n, {}))
<1> DEFINE f == Bare("usage", 0)
           g == Bare("done", 0)
           c == V("ended", n, {})
<1>1. f \in Known /\ f.type = "usage" /\ f.block = 0 /\ g \in Known /\ g.type = "done" /\ g.block = 0
  BY KnownBlank, Bounds DEF FrameKind
<1>2. c \in View /\ c.phase = "ended" /\ c.opened = n /\ c.live = {}
  BY ViewFields
<1> HIDE DEF f, g, c
<1>3. /\ Accepts("chat", c, f) /\ Seen("chat", c, f) = V("ended", n, {})
      /\ Accepts("chat", c, g) /\ Seen("chat", c, g) = V("closed", n, {})
  BY <1>1, <1>2 DEF Accepts, Seen
<1>4. Leads("chat", c, <<f>>, V("ended", n, {})) /\ Leads("chat", c, <<g>>, V("closed", n, {}))
  BY <1>1, <1>2, <1>3, LeadsOne
<1> QED BY <1>4 DEF f, g, c

LEMMA FailLeads ==
  ASSUME NEW d, NEW p \in {"idle", "open", "ended", "closed"}, p # "closed" \/ d = "chat",
         NEW n \in Nat, NEW live \in SUBSET Nat
  PROVE  Leads(d, V(p, n, live), <<Bare("fail", 0)>>, V("closed", n, live))
<1> DEFINE f == Bare("fail", 0)
           c == V(p, n, live)
<1>1. f \in Known /\ f.type = "fail" /\ f.block = 0
  BY KnownBlank, Bounds DEF FrameKind
<1>2. c \in View /\ c.phase = p /\ c.opened = n /\ c.live = live
  BY ViewFields
<1> HIDE DEF f, c
<1>3. Accepts(d, c, f) /\ Seen(d, c, f) = V("closed", n, live)
  BY <1>1, <1>2 DEF Accepts, Seen
<1>4. Leads(d, c, <<f>>, V("closed", n, live))
  BY <1>1, <1>2, <1>3, LeadsOne
<1> QED BY <1>4 DEF f, c

-----------------------------------------------------------------------------
(* One event at a time.                                                    *)

\* The client's parser stands where the translator believes it does.
Matches(d, t, z) ==
  /\ z \in View
  /\ t.done => z.phase = "closed"
  /\ d = "chat" => z.live = {} /\ (t.done \/ z.phase \in {"idle", "open"})
  /\ d # "chat" /\ ~t.done =>
       /\ z.phase = IF t.begun THEN "open" ELSE "idle"
       /\ z.opened = t.n
       /\ t.begun \/ (t.n = 0 /\ t.current = Nowhere)
  /\ d = "responses" /\ ~t.done => z.live = 0 .. t.n - 1
  /\ d = "anthropic" /\ ~t.done =>
       IF t.current = Nowhere THEN z.live = {}
       ELSE t.at[t.current] # Nowhere /\ z.live = {t.at[t.current]}

Carried(d, t, z, out) ==
  /\ out.t \in TranslatorType /\ Placed(out.t)
  /\ d # "chat" => out.t.held = <<>>
  /\ out.t.n \in {t.n, t.n + 1}
  /\ out.frames = <<>> =>
       out.t.n = t.n /\ out.t.begun = t.begun /\ out.t.done = t.done
  /\ \E w \in View : Leads(d, z, out.frames, w) /\ Matches(d, out.t, w)

LEMMA ViewIs ==
  ASSUME NEW z \in View
  PROVE  /\ z = V(z.phase, z.opened, z.live)
         /\ z.phase \in {"idle", "open", "ended", "closed"} /\ z.opened \in Nat
         /\ z.live \in SUBSET Nat
BY DEF V, View

LEMMA LeadsKnown ==
  ASSUME NEW d, NEW c, NEW s, NEW z, Leads(d, c, s, z)
  PROVE  s \in Seq(Known)
BY DEF Leads

LEMMA BeginLeads ==
  ASSUME NEW d, d # "chat", NEW t \in TranslatorType, NEW z, Matches(d, t, z), ~t.done
  PROVE  Leads(d, z, Begin(d, t), V("open", t.n, z.live))
<1>1. /\ z = V(z.phase, t.n, z.live) /\ z.live \in SUBSET Nat /\ t.n \in Nat /\ z \in View
      /\ z.phase = IF t.begun THEN "open" ELSE "idle"
  BY ViewIs DEF Matches, TranslatorType
<1>2. CASE t.begun
  <2>1. Begin(d, t) = <<>> /\ z = V("open", t.n, z.live)
    BY <1>1, <1>2 DEF Begin
  <2> QED BY <1>1, <2>1, LeadsNowhere
<1>3. CASE ~t.begun
  <2>1. Begin(d, t) = <<Bare("start", 0)>> /\ z = V("idle", t.n, z.live)
    BY <1>1, <1>3 DEF Begin, Bare
  <2> QED BY <1>1, <2>1, StartLeads
<1> QED BY <1>2, <1>3

LEMMA PairJoined ==
  ASSUME NEW f, NEW g
  PROVE  <<f>> \o <<g>> = <<f, g>>
<1> DEFINE S == {f, g}
           s == <<f>> \o <<g>>
           t == <<f, g>>
<1>1. <<f>> \in Seq(S) /\ <<g>> \in Seq(S) /\ t \in Seq(S) /\ Len(t) = 2 /\ t[1] = f /\ t[2] = g
  OBVIOUS
<1>2. Len(<<f>>) = 1 /\ Len(<<g>>) = 1 /\ <<f>>[1] = f /\ <<g>>[1] = g
  OBVIOUS
<1>3. s \in Seq(S) /\ Len(s) = 2 /\ s[1] = f /\ s[2] = g
  BY <1>1, <1>2, ConcatProperties
<1> HIDE DEF S, s, t
<1>4. \A i \in 1 .. Len(s) : s[i] = t[i]
  BY <1>1, <1>3
<1>5. s = t
  BY <1>1, <1>3, <1>4, SeqEqual
<1> QED BY <1>5 DEF s, t

LEMMA OneMore ==
  ASSUME NEW n \in Nat, NEW live \in SUBSET Nat
  PROVE  n + 1 \in Nat /\ live \union {n} \in SUBSET Nat /\ n \in live \union {n}
OBVIOUS

LEMMA PiecemealCarries ==
  ASSUME NEW d \in Dialect \ {"chat"}, NEW t \in TranslatorType, Placed(t), t.held = <<>>,
         NEW z, Matches(d, t, z), ~t.done, t.n < MaxEvents,
         NEW s \in Slot, NEW u \in Seq(Piece),
         d = "anthropic" /\ s \in Tool /\ t.at[s] # Nowhere => t.current = s
  PROVE  LET out == Piecemeal(d, t, s, u)
         IN  /\ Carried(d, t, z, out) /\ ~out.t.done /\ out.frames # <<>>
             /\ d = "anthropic" => out.t.current = s
<1> DEFINE out == Piecemeal(d, t, s, u)
<1>0. /\ t.n \in Nat /\ t.n \in 0 .. MaxEvents /\ MaxEvents \in Nat
      /\ Unseen(d, t) /\ d # "chat" /\ Nowhere \notin Int
      /\ d \in {"responses", "anthropic"} /\ s # Nowhere
  BY Bounds, TranslatorConstants DEF TranslatorType, Unseen, Dialect
<1>1. /\ Grown(d, t, out, u) /\ out.t.held = <<>>
  BY <1>0, PiecemealGrows
<1>2. /\ Leads(d, z, Begin(d, t), V("open", t.n, z.live))
      /\ z \in View /\ z.live \in SUBSET Nat /\ z.live \subseteq 0 .. t.n - 1
  <2>1. z \in View /\ z.live \in SUBSET Nat
    BY ViewIs DEF Matches
  <2>2. z.live \subseteq 0 .. t.n - 1
    <3>1. CASE d = "responses"
      BY <3>1 DEF Matches
    <3>2. CASE d = "anthropic" /\ t.current # Nowhere
      <4>1. t.current \in Slot
        BY <3>2 DEF TranslatorType
      <4> QED BY <3>2, <4>1 DEF Matches, Placed
    <3>3. CASE d = "anthropic" /\ t.current = Nowhere
      BY <3>3 DEF Matches
    <3> QED BY <1>0, <3>1, <3>2, <3>3
  <2> QED BY <1>0, <2>1, <2>2, BeginLeads
<1>3. CASE Fresh(d, t, s)
  <2> DEFINE left0 == IF d = "anthropic" THEN {} ELSE z.live
             w == V("open", t.n + 1, left0 \union {t.n})
  <2>1. /\ out.t = [t EXCEPT !.begun = TRUE, !.n = @ + 1, !.at[s] = t.n, !.current = s]
        /\ out.frames = (Begin(d, t) \o Shut(d, t)) \o <<Bare("open", t.n), Frame("delta", t.n, u)>>
    BY <1>0, <1>3 DEF Piecemeal, Result, Bare
  <2>2. Leads(d, V("open", t.n, z.live), Shut(d, t), V("open", t.n, left0))
    <3>0. V("open", t.n, z.live) \in View
      BY <1>0, <1>2, ViewFields
    <3>1. CASE d = "anthropic" /\ t.current # Nowhere
      <4> DEFINE b == t.at[t.current]
      <4>1. t.current \in Slot /\ z.live = {b} /\ b # Nowhere /\ b \in 0 .. t.n - 1
        BY <3>1 DEF TranslatorType, Matches, Placed
      <4>2. Shut(d, t) = <<Bare("close", b)>>
        BY <3>1 DEF Shut, Bare
      <4> HIDE DEF b
      <4>3. left0 = z.live \ {b} /\ b \in z.live /\ b \in 0 .. MaxEvents
        BY <1>0, <3>1, <4>1
      <4> QED BY <1>0, <1>2, <4>2, <4>3, CloseLeads
    <3>2. CASE ~(d = "anthropic" /\ t.current # Nowhere)
      <4>1. Shut(d, t) = <<>> /\ left0 = z.live
        BY <3>2 DEF Shut, Matches
      <4> QED BY <3>0, <4>1, LeadsNowhere
    <3> QED BY <3>1, <3>2
  <2>3. left0 \in SUBSET Nat /\ (d = "anthropic" => left0 = {})
    BY <1>2
  <2>4. Leads(d, V("open", t.n, left0), <<Bare("open", t.n)>>, w)
    BY <1>0, <2>3, OpenLeads
  <2>5. Leads(d, w, <<Frame("delta", t.n, u)>>, w)
    <3> HIDE DEF left0
    <3>1. t.n + 1 \in Nat /\ left0 \union {t.n} \in SUBSET Nat /\ t.n \in left0 \union {t.n}
      BY <1>0, <2>3, OneMore
    <3> QED BY <1>0, <3>1, DeltaLeads
  <2> HIDE DEF out, w, left0
  <2>6. Leads(d, z, out.frames, w)
    <3>1. Leads(d, z, Begin(d, t) \o Shut(d, t), V("open", t.n, left0))
      BY <1>2, <2>2, LeadsJoined
    <3>2. Leads(d, V("open", t.n, left0), <<Bare("open", t.n)>> \o <<Frame("delta", t.n, u)>>, w)
      BY <2>4, <2>5, LeadsJoined
    <3>3. <<Bare("open", t.n)>> \o <<Frame("delta", t.n, u)>>
            = <<Bare("open", t.n), Frame("delta", t.n, u)>>
      BY PairJoined
    <3>4. Leads(d, z, (Begin(d, t) \o Shut(d, t)) \o (<<Bare("open", t.n)>> \o <<Frame("delta", t.n, u)>>), w)
      BY <3>1, <3>2, LeadsJoined
    <3> QED BY <2>1, <3>3, <3>4
  <2>7. /\ out.t.begun /\ ~out.t.done /\ out.t.n = t.n + 1 /\ out.t.current = s /\ out.t.at[s] = t.n
    BY <2>1 DEF TranslatorType
  <2>8. w \in View /\ w.phase = "open" /\ w.opened = t.n + 1 /\ w.live = left0 \union {t.n}
    <3>1. t.n + 1 \in Nat /\ left0 \union {t.n} \in SUBSET Nat
      BY <1>0, <2>3, OneMore
    <3> QED BY <3>1, ViewFields DEF w
  <2>9. Matches(d, out.t, w)
    <3>1. d = "responses" => w.live = 0 .. out.t.n - 1
      <4>1. d = "responses" => left0 = 0 .. t.n - 1
        BY DEF Matches, left0
      <4> QED BY <1>0, <2>7, <2>8, <4>1
    <3>2. d = "anthropic" => w.live = {t.n}
      BY <2>3, <2>8
    <3>3. t.n # Nowhere
      BY <1>0
    <3> QED BY <1>0, <2>7, <2>8, <3>1, <3>2, <3>3 DEF Matches
  <2>10. out.frames # <<>>
    <3>1. out.t.n # t.n
      BY <1>0, <2>7
    <3> QED BY <1>1, <3>1 DEF Grown
  <2> QED BY <1>1, <2>6, <2>7, <2>8, <2>9, <2>10 DEF out, Carried, Grown
<1>4. CASE ~Fresh(d, t, s)
  <2> DEFINE b == t.at[s]
             w == V("open", t.n, z.live)
  <2>1. /\ out.t = [t EXCEPT !.begun = TRUE]
        /\ out.frames = Begin(d, t) \o <<Frame("delta", b, u)>>
    BY <1>0, <1>4 DEF Piecemeal, Result
  <2>2. b \in z.live /\ (d = "anthropic" => t.current = s)
    <3>1. CASE d = "responses"
      <4>1. b # Nowhere /\ z.live = 0 .. t.n - 1
        BY <1>4, <3>1 DEF Fresh, Matches
      <4> QED BY <3>1, <4>1 DEF Placed
    <3>2. CASE d = "anthropic"
      <4>1. t.current = s
        BY <1>4, <3>2 DEF Fresh
      <4> QED BY <1>0, <3>2, <4>1 DEF Matches
    <3> QED BY <1>0, <3>1, <3>2
  <2>3. b \in 0 .. MaxEvents
    <3>1. b \in 0 .. t.n - 1
      BY <1>2, <2>2
    <3> HIDE DEF b
    <3> QED BY <1>0, <3>1
  <2> HIDE DEF b
  <2>4. Leads(d, w, <<Frame("delta", b, u)>>, w)
    BY <1>0, <1>2, <2>2, <2>3, DeltaLeads
  <2> HIDE DEF out
  <2>5. Leads(d, z, out.frames, w)
    BY <1>2, <2>1, <2>4, LeadsJoined
  <2>6. /\ out.t.begun /\ ~out.t.done /\ out.t.n = t.n /\ out.t.current = t.current /\ out.t.at = t.at
    BY <2>1 DEF TranslatorType
  <2>7. w \in View /\ w.phase = "open" /\ w.opened = t.n /\ w.live = z.live
    BY <1>0, <1>2, ViewFields
  <2> HIDE DEF w
  <2>8. Matches(d, out.t, w)
    BY <1>0, <2>6, <2>7 DEF Matches
  <2>9. out.frames # <<>>
    <3>1. Begin(d, t) \in Seq(Known) /\ <<Frame("delta", b, u)>> \in Seq(Known)
          /\ <<Frame("delta", b, u)>> # <<>>
      BY <1>2, <2>4, LeadsKnown
    <3> HIDE DEF Frame
    <3> QED BY <2>1, <3>1
  <2> QED BY <1>1, <2>2, <2>5, <2>6, <2>7, <2>8, <2>9 DEF out, Carried, Grown
<1> QED BY <1>3, <1>4

LEMMA LeadsFromNothing ==
  ASSUME NEW d, NEW c, NEW z, Leads(d, c, <<>>, z)
  PROVE  c = z
<1>1. Len(<<>>) = 0
  OBVIOUS
<1> QED BY <1>1 DEF Leads

\* Any number of chunks on a chat stream that has not ended.
LEMMA ChatCarries ==
  ASSUME NEW t \in TranslatorType, Placed(t), NEW z, Matches("chat", t, z), ~t.done,
         NEW u \in Seq(Piece), NEW v \in Seq(Piece)
  PROVE  LET w == V("open", z.opened, {})
         IN  /\ w \in View /\ Matches("chat", t, w)
             /\ Leads("chat", z, <<Frame("delta", 0, u)>>, w)
             /\ Leads("chat", z, <<Frame("delta", 0, u)>> \o <<Frame("delta", 0, v)>>, w)
<1> DEFINE w == V("open", z.opened, {})
<1>1. z \in View /\ z = V(z.phase, z.opened, {}) /\ z.phase \in {"idle", "open"} /\ z.opened \in Nat
  BY ViewIs DEF Matches
<1>2. w \in View /\ w.phase = "open" /\ w.live = {}
  BY <1>1, ViewFields
<1>3. Leads("chat", z, <<Frame("delta", 0, u)>>, w)
  BY <1>1, ChunkLeads
<1>4. Leads("chat", w, <<Frame("delta", 0, v)>>, w)
  BY <1>1, ChunkLeads
<1> HIDE DEF w
<1>5. Leads("chat", z, <<Frame("delta", 0, u)>> \o <<Frame("delta", 0, v)>>, w)
  BY <1>3, <1>4, LeadsJoined
<1>6. Matches("chat", t, w)
  BY <1>2 DEF Matches
<1> QED BY <1>2, <1>3, <1>5, <1>6 DEF w

LEMMA FeedCarries ==
  ASSUME NEW t \in TranslatorType, Placed(t), NEW z, Matches("chat", t, z), ~t.done,
         NEW p \in Piece, NEW split
  PROVE  LET out == Feed(t, p, split)
         IN  Carried("chat", t, z, out) /\ ~out.t.done
<1> DEFINE more == Append(t.held, p)
           around == Around(split, more)
           out == Feed(t, p, split)
           say(text) == IF text = <<>> THEN <<>> ELSE <<Frame("delta", 0, text)>>
           w == V("open", z.opened, {})
<1>0. t.held \in Seq(Piece) /\ more \in Seq(Piece) /\ t.marked \in BOOLEAN /\ <<>> \in Seq(Piece)
  BY DEF TranslatorType
<1>1. around \in Seq(Piece)
  BY <1>0, AroundCut DEF Cut
<1> HIDE DEF around
<1>2. z \in View /\ w \in View
  BY <1>0, ChatCarries DEF Matches
<1>3. ASSUME NEW held \in Seq(Piece), NEW marked \in BOOLEAN, NEW frames,
             out = Result([t EXCEPT !.held = held, !.marked = marked], frames),
             Leads("chat", z, frames, z) \/ Leads("chat", z, frames, w)
      PROVE  Carried("chat", t, z, out) /\ ~out.t.done
  <2>1. PICK x : x = [t EXCEPT !.held = held, !.marked = marked]
    OBVIOUS
  <2>2. x \in TranslatorType /\ x.n = t.n /\ x.at = t.at /\ x.done = t.done /\ x.begun = t.begun
    BY <2>1 DEF TranslatorType
  <2>3. out.t = x /\ out.frames = frames
    BY <1>3, <2>1 DEF Result
  <2> HIDE DEF out
  <2>4. Placed(x)
    BY <2>2 DEF Placed
  <2>5. Matches("chat", x, z) /\ Matches("chat", x, w)
    <3>1. Matches("chat", t, w)
      BY <1>0, ChatCarries
    <3> QED BY <2>2, <3>1 DEF Matches
  <2>6. \E y \in View : Leads("chat", z, out.frames, y) /\ Matches("chat", out.t, y)
    BY <1>2, <1>3, <2>3, <2>5
  <2> HIDE DEF w
  <2> QED BY <2>2, <2>3, <2>4, <2>6 DEF Carried
<1>4. \A text \in Seq(Piece) :
        Leads("chat", z, say(text), z) \/ Leads("chat", z, say(text), w)
  <2>1. ASSUME NEW text \in Seq(Piece)
        PROVE  Leads("chat", z, say(text), z) \/ Leads("chat", z, say(text), w)
    <3>1. Leads("chat", z, <<>>, z) /\ Leads("chat", z, <<Frame("delta", 0, text)>>, w)
      BY <1>2, LeadsNowhere, ChatCarries
    <3> QED BY <3>1
  <2> QED BY <2>1
<1>5. CASE split = "open" \/ (split = "plain" /\ t.marked)
  <2>1. out = Result([t EXCEPT !.held = more, !.marked = TRUE], <<>>)
    BY <1>5 DEF Feed
  <2>2. Leads("chat", z, <<>>, z)
    BY <1>2, LeadsNowhere
  <2> QED BY <1>0, <1>3, <2>1, <2>2
<1>6. CASE split \in {"call", "within"}
  <2> DEFINE frames == say(around) \o <<Frame("delta", 0, <<>>)>>
  <2>1. out = Result([t EXCEPT !.held = around, !.marked = (split = "within")], frames)
    BY <1>6 DEF Feed, around
  <2>2. Leads("chat", z, frames, w)
    <3>1. CASE around = <<>>
      <4>1. Leads("chat", z, <<>>, z) /\ Leads("chat", z, <<Frame("delta", 0, <<>>)>>, w)
        BY <1>0, <1>2, LeadsNowhere, ChatCarries
      <4>2. Leads("chat", z, <<>> \o <<Frame("delta", 0, <<>>)>>, w)
        BY <4>1, LeadsJoined
      <4> QED BY <3>1, <4>2
    <3>2. CASE around # <<>>
      BY <1>0, <1>1, <3>2, ChatCarries
    <3> QED BY <3>1, <3>2
  <2>3. (split = "within") \in BOOLEAN
    OBVIOUS
  <2> HIDE DEF frames
  <2> QED BY <1>1, <1>3, <2>1, <2>2, <2>3
<1>7. CASE split \notin {"open", "call", "within"} /\ ~(split = "plain" /\ t.marked)
  <2>1. out = Result([t EXCEPT !.held = <<>>, !.marked = FALSE], say(more))
    BY <1>7 DEF Feed
  <2>2. Leads("chat", z, say(more), z) \/ Leads("chat", z, say(more), w)
    BY <1>0, <1>4
  <2> QED BY <1>0, <1>3, <2>1, <2>2
<1> QED BY <1>5, <1>6, <1>7

\* All blocks that are open are closed, in order.
LEMMA ClosingLeads ==
  ASSUME NEW d \in Dialect \ {"chat"}, NEW t \in TranslatorType, Placed(t), t.n \in 0 .. MaxEvents,
         NEW z, Matches(d, t, z), ~t.done
  PROVE  Leads(d, V("open", t.n, z.live), ClosingFrames(d, t), V("open", t.n, {}))
<1>0. z.live \in SUBSET Nat /\ t.n \in Nat /\ MaxEvents \in Nat
  BY ViewIs, Bounds DEF Matches, TranslatorType
<1>1. CASE d = "anthropic"
  <2>0. V("open", t.n, z.live) \in View /\ ClosingFrames(d, t) = Shut(d, t)
    BY <1>0, <1>1, ViewFields DEF ClosingFrames
  <2>1. CASE t.current # Nowhere
    <3> DEFINE b == t.at[t.current]
    <3>1. t.current \in Slot /\ z.live = {b} /\ b # Nowhere /\ b \in 0 .. t.n - 1
      BY <1>1, <2>1 DEF TranslatorType, Matches, Placed
    <3>2. Shut(d, t) = <<Bare("close", b)>>
      BY <1>1, <2>1 DEF Shut, Bare
    <3> HIDE DEF b
    <3>3. z.live \ {b} = {} /\ b \in z.live /\ b \in 0 .. MaxEvents
      BY <1>0, <3>1
    <3>4. Leads(d, V("open", t.n, z.live), <<Bare("close", b)>>, V("open", t.n, z.live \ {b}))
      BY <1>0, <3>3, CloseLeads
    <3> QED BY <2>0, <3>2, <3>3, <3>4
  <2>2. CASE t.current = Nowhere
    <3>1. z.live = {} /\ Shut(d, t) = <<>>
      BY <1>1, <2>2 DEF Matches, Shut
    <3> QED BY <2>0, <3>1, LeadsNowhere
  <2> QED BY <2>1, <2>2
<1>2. CASE d = "responses"
  <2> DEFINE n == t.n
             frames == [i \in 1 .. n |-> Bare("close", i - 1)]
             cs == [i \in 1 .. n + 1 |-> V("open", n, i - 1 .. n - 1)]
  <2>1. ClosingFrames(d, t) = frames /\ z.live = 0 .. n - 1
    BY <1>2 DEF ClosingFrames, Matches, Bare
  <2>2. n \in Nat /\ n \in 0 .. MaxEvents
    BY <1>0
  <2> HIDE DEF n
  <2>3. \A i \in 1 .. n : /\ Bare("close", i - 1) \in Known /\ Bare("close", i - 1).type = "close"
                           /\ Bare("close", i - 1).block = i - 1
    <3>1. ASSUME NEW i \in 1 .. n
          PROVE  i - 1 \in 0 .. MaxEvents
      BY <1>0, <2>2
    <3> QED BY <3>1, KnownBlank DEF FrameKind
  <2>4. /\ frames \in [1 .. n -> Known] /\ frames \in Seq(Known) /\ Len(frames) = n
        /\ \A i \in 1 .. n : frames[i] = Bare("close", i - 1)
    <3>1. frames \in [1 .. n -> Known]
      BY <2>3
    <3>2. \A i \in 1 .. n : frames[i] = Bare("close", i - 1)
      OBVIOUS
    <3> HIDE DEF frames
    <3> QED BY <2>2, <3>1, <3>2
  <2>5. \A i \in 1 .. n + 1 : /\ cs[i] \in View /\ cs[i].phase = "open" /\ cs[i].opened = n
                               /\ cs[i].live = i - 1 .. n - 1 /\ cs[i] = V("open", n, i - 1 .. n - 1)
    <3>1. ASSUME NEW i \in 1 .. n + 1
          PROVE  i - 1 .. n - 1 \in SUBSET Nat
      BY <2>2
    <3> QED BY <2>2, <3>1, ViewFields
  <2>6. cs \in [1 .. n + 1 -> View]
    BY <2>5
  <2> HIDE DEF frames, cs
  <2>7. ASSUME NEW i \in 1 .. n
        PROVE  Accepts(d, cs[i], frames[i]) /\ cs[i + 1] = Seen(d, cs[i], frames[i])
    <3>1. i \in 1 .. n + 1 /\ i + 1 \in 1 .. n + 1 /\ i - 1 \in i - 1 .. n - 1 /\ (i + 1) - 1 = i
      BY <2>2
    <3>2. /\ frames[i].type = "close" /\ frames[i].block = i - 1
          /\ cs[i].phase = "open" /\ cs[i].opened = n /\ cs[i].live = i - 1 .. n - 1
      BY <2>3, <2>4, <2>5, <3>1
    <3>3. Accepts(d, cs[i], frames[i])
      BY <3>1, <3>2 DEF Accepts
    <3>4. Seen(d, cs[i], frames[i]) = V("open", n, (i - 1 .. n - 1) \ {i - 1})
      BY <3>2 DEF Seen
    <3>5. (i - 1 .. n - 1) \ {i - 1} = i .. n - 1
      BY <2>2
    <3>6. cs[i + 1] = V("open", n, i .. n - 1)
      BY <2>5, <3>1
    <3> QED BY <3>3, <3>4, <3>5, <3>6
  <2>8. cs[1] = V("open", n, 0 .. n - 1) /\ cs[n + 1] = V("open", n, {})
    <3>1. 1 \in 1 .. n + 1 /\ n + 1 \in 1 .. n + 1 /\ 1 - 1 = 0 /\ (n + 1) - 1 .. n - 1 = {}
      BY <2>2
    <3> QED BY <2>5, <3>1
  <2>9. Leads(d, V("open", n, 0 .. n - 1), frames, V("open", n, {}))
    BY <2>4, <2>6, <2>7, <2>8 DEF Leads
  <2> QED BY <2>1, <2>9 DEF n
<1> QED BY <1>1, <1>2 DEF Dialect

LEMMA EndingCarries ==
  ASSUME NEW d \in Dialect, NEW t \in TranslatorType, Placed(t), d # "chat" => t.held = <<>>,
         t.n \in 0 .. MaxEvents, NEW z, Matches(d, t, z), ~t.done
  PROVE  LET out == Ending(d, t)
         IN  Carried(d, t, z, out) /\ out.t.n = t.n
<1> DEFINE out == Ending(d, t)
           w == V("closed", z.opened, {})
           end == <<Bare("end", 0)>>
           usage == IF t.told THEN <<Bare("usage", 0)>> ELSE <<>>
           done == <<Bare("done", 0)>>
<1>0. z \in View /\ z.opened \in Nat /\ z.phase # "closed"
  <2>1. z \in View /\ z.phase # "closed"
    BY DEF Matches, Dialect
  <2> QED BY <2>1, ViewIs
<1>1. w \in View /\ w.phase = "closed" /\ w.live = {}
  BY <1>0, ViewFields
<1>2. Leads(d, z, out.frames, w)
  <2>1. CASE d # "chat"
    <3>1. out.frames = ((Begin(d, t) \o ClosingFrames(d, t)) \o end) \o <<>>
      BY <2>1 DEF Ending, Result, Bare
    <3>2. z.opened = t.n /\ d \in Dialect \ {"chat"}
      BY <2>1 DEF Matches
    <3>3. Leads(d, z, Begin(d, t), V("open", t.n, z.live))
      BY <2>1, BeginLeads
    <3>4. Leads(d, V("open", t.n, z.live), ClosingFrames(d, t), V("open", t.n, {}))
      BY <3>2, ClosingLeads
    <3>5. Leads(d, V("open", t.n, {}), end, w)
      BY <1>0, <2>1, <3>2, EndLeads
    <3>6. Leads(d, w, <<>>, w)
      BY <1>1, LeadsNowhere
    <3> HIDE DEF out, w, end
    <3>7. Leads(d, z, Begin(d, t) \o ClosingFrames(d, t), V("open", t.n, {}))
      BY <3>3, <3>4, LeadsJoined
    <3>8. Leads(d, z, (Begin(d, t) \o ClosingFrames(d, t)) \o end, w)
      BY <3>5, <3>7, LeadsJoined
    <3> QED BY <3>1, <3>6, <3>8, LeadsJoined
  <2>2. CASE d = "chat"
    <3> DEFINE x == V("ended", z.opened, {})
               closing == ClosingFrames(d, t)
    <3>1. out.frames = ((<<>> \o closing) \o end) \o (usage \o done)
      BY <2>2 DEF Ending, Result, Begin, Bare
    <3>2. z = V(z.phase, z.opened, {}) /\ z.phase \in {"idle", "open"}
      BY <1>0, <2>2, ViewIs DEF Matches
    <3>3. \E p \in {"idle", "open"} : Leads(d, z, closing, V(p, z.opened, {}))
      <4>1. CASE t.held = <<>>
        <5>1. closing = <<>>
          BY <2>2, <4>1 DEF ClosingFrames
        <5> QED BY <1>0, <3>2, <5>1, LeadsNowhere
      <4>2. CASE t.held # <<>>
        <5>1. closing = <<Frame("delta", 0, t.held)>>
          BY <2>2, <4>2 DEF ClosingFrames
        <5>2. t.held \in Seq(Piece)
          BY DEF TranslatorType
        <5>3. Leads("chat", z, <<Frame("delta", 0, t.held)>>, V("open", z.opened, {}))
          BY <2>2, <5>2, ChatCarries
        <5> QED BY <2>2, <5>1, <5>3
      <4> QED BY <4>1, <4>2
    <3>4. PICK p \in {"idle", "open"} : Leads(d, z, closing, V(p, z.opened, {}))
      BY <3>3
    <3>5. Leads(d, V(p, z.opened, {}), end, x)
      BY <1>0, <2>2, EndLeads
    <3>6. Leads(d, x, usage, x) /\ Leads(d, x, done, w)
      <4>1. x \in View
        BY <1>0, ViewFields
      <4>2. Leads(d, x, <<Bare("usage", 0)>>, x) /\ Leads(d, x, done, w)
        BY <1>0, <2>2, AfterLeads
      <4>3. Leads(d, x, <<>>, x)
        BY <4>1, LeadsNowhere
      <4> QED BY <4>2, <4>3
    <3>7. Leads(d, z, <<>>, z)
      BY <1>0, LeadsNowhere
    <3> HIDE DEF out, w, end, usage, done, x, closing
    <3>8. Leads(d, z, <<>> \o closing, V(p, z.opened, {}))
      BY <3>4, <3>7, LeadsJoined
    <3>9. Leads(d, z, (<<>> \o closing) \o end, x)
      BY <3>5, <3>8, LeadsJoined
    <3>10. Leads(d, x, usage \o done, w)
      BY <3>6, LeadsJoined
    <3> QED BY <3>1, <3>9, <3>10, LeadsJoined
  <2> QED BY <2>1, <2>2
<1>3. out.frames # <<>>
  BY <1>0, <1>1, <1>2, LeadsFromNothing
<1>4. out.t = [t EXCEPT !.done = TRUE, !.begun = TRUE, !.held = <<>>, !.current = Nowhere]
  BY DEF Ending, Result
<1> HIDE DEF out, w
<1>5. out.t \in TranslatorType /\ out.t.n = t.n /\ out.t.at = t.at /\ out.t.held = <<>> /\ out.t.done
  <2>1. <<>> \in Seq(Piece)
    OBVIOUS
  <2> DEFINE nothing == <<>>
  <2>2. out.t = [t EXCEPT !.done = TRUE, !.begun = TRUE, !.held = nothing, !.current = Nowhere]
    BY <1>4
  <2> HIDE DEF nothing
  <2>3. nothing \in Seq(Piece)
    BY <2>1 DEF nothing
  <2>4. out.t \in TranslatorType /\ out.t.n = t.n /\ out.t.at = t.at /\ out.t.held = nothing /\ out.t.done
    BY <2>2, <2>3 DEF TranslatorType
  <2> QED BY <2>4 DEF nothing
<1>6. Placed(out.t)
  BY <1>5 DEF Placed
<1>7. Matches(d, out.t, w)
  BY <1>1, <1>5 DEF Matches
<1>8. Carried(d, t, z, out) /\ out.t.n = t.n
  BY <1>1, <1>2, <1>3, <1>5, <1>6, <1>7 DEF Carried
<1> QED BY <1>8 DEF out

LEMMA ClosedCarries ==
  ASSUME NEW d \in Dialect, NEW t \in TranslatorType, Placed(t), d # "chat" => t.held = <<>>,
         t.n \in 0 .. MaxEvents, NEW z, Matches(d, t, z)
  PROVE  LET out == Closed(d, t)
         IN  Carried(d, t, z, out) /\ out.t.n = t.n
<1>1. CASE t.done
  <2>1. Closed(d, t).t = t /\ Closed(d, t).frames = <<>>
    BY <1>1 DEF Closed, Result
  <2>2. z \in View /\ Leads(d, z, <<>>, z)
    BY LeadsNowhere DEF Matches
  <2> QED BY <2>1, <2>2 DEF Carried
<1>2. CASE ~t.done
  <2>1. Closed(d, t) = Ending(d, t)
    BY <1>2 DEF Closed
  <2> QED BY <1>2, <2>1, EndingCarries
<1> QED BY <1>1, <1>2

\* An error is the last a client hears.
LEMMA FailedLeads ==
  ASSUME NEW d \in Dialect, NEW t \in TranslatorType, Placed(t), d # "chat" => t.held = <<>>,
         NEW z, Matches(d, t, z)
  PROVE  LET out == Failed(d, t)
         IN  /\ out.t \in TranslatorType /\ Placed(out.t) /\ out.t.n = t.n
             /\ d # "chat" => out.t.held = <<>>
             /\ \E w \in View : Leads(d, z, out.frames, w)
<1> DEFINE out == Failed(d, t)
           fail == <<Bare("fail", 0)>>
<1>1. out.t \in {t, [t EXCEPT !.done = TRUE, !.begun = TRUE]}
  BY DEF Failed, Result
<1>2. \E w \in View : Leads(d, z, out.frames, w)
  <2>0. /\ z \in View /\ z = V(z.phase, z.opened, z.live) /\ z.opened \in Nat /\ z.live \in SUBSET Nat
        /\ z.phase \in {"idle", "open", "ended", "closed"}
    BY ViewIs DEF Matches
  <2>1. \A live \in SUBSET Nat : V("closed", z.opened, live) \in View
    BY <2>0, ViewFields
  <2>2. CASE d = "chat"
    <3>1. out.frames = fail
      BY <2>2 DEF Failed, Result, Bare
    <3>2. Leads(d, z, fail, V("closed", z.opened, z.live))
      BY <2>0, <2>2, FailLeads
    <3> QED BY <2>0, <2>1, <3>1, <3>2
  <2>3. CASE d # "chat" /\ t.done
    <3>1. out.frames = <<>>
      BY <2>3 DEF Failed, Result
    <3> QED BY <2>0, <3>1, LeadsNowhere
  <2>4. CASE d = "responses" /\ ~t.done
    <3>1. out.frames = Begin(d, t) \o fail
      BY <2>4 DEF Failed, Result, Bare
    <3>2. z.opened = t.n /\ Leads(d, z, Begin(d, t), V("open", t.n, z.live))
      BY <2>4, BeginLeads DEF Matches
    <3>3. Leads(d, V("open", t.n, z.live), fail, V("closed", t.n, z.live))
      BY <2>0, <3>2, FailLeads
    <3> HIDE DEF out, fail
    <3>4. Leads(d, z, out.frames, V("closed", t.n, z.live))
      BY <3>1, <3>2, <3>3, LeadsJoined
    <3> QED BY <2>0, <2>1, <3>2, <3>4
  <2>5. CASE d = "anthropic" /\ ~t.done
    <3>0. Leads(d, z, <<>>, z)
      BY <2>0, LeadsNowhere
    <3>1. out.frames = <<>> \o fail
      BY <2>5 DEF Failed, Result, Bare
    <3>2. z.phase # "closed"
      BY <2>5 DEF Matches
    <3>3. Leads(d, z, fail, V("closed", z.opened, z.live))
      BY <2>0, <3>2, FailLeads
    <3> HIDE DEF out, fail
    <3>4. Leads(d, z, out.frames, V("closed", z.opened, z.live))
      BY <3>0, <3>1, <3>3, LeadsJoined
    <3> QED BY <2>0, <2>1, <3>4
  <2> QED BY <2>2, <2>3, <2>4, <2>5 DEF Dialect
<1> HIDE DEF out
<1>3. out.t \in TranslatorType /\ out.t.n = t.n /\ out.t.at = t.at /\ out.t.held = t.held
  BY <1>1 DEF TranslatorType
<1>4. Placed(out.t)
  BY <1>3 DEF Placed
<1> QED BY <1>2, <1>3, <1>4 DEF out

LEMMA TranslateCarries ==
  ASSUME NEW d \in Dialect, NEW t \in TranslatorType, Placed(t), d # "chat" => t.held = <<>>,
         t.n \in Nat, t.n < MaxEvents, NEW z, Matches(d, t, z), NEW e \in EventType,
         t.done => e.kind = "usage",
         e.kind \notin {"usage", "finish"} => e.slot # Nowhere,
         d = "anthropic" /\ e.slot \in Tool /\ t.at[e.slot] # Nowhere => t.done \/ t.current = e.slot
  PROVE  LET out == Translate(d, t, e)
         IN  /\ Carried(d, t, z, out)
             /\ out.t.done => t.done \/ e.kind = "finish"
             /\ d = "anthropic" /\ ~out.t.done =>
                  out.t.current = IF e.kind \in {"usage", "finish"} THEN t.current ELSE e.slot
<1> DEFINE out == Translate(d, t, e)
<1>0. /\ t.n \in 0 .. MaxEvents /\ e.piece \in Piece /\ <<>> \in Seq(Piece) /\ <<e.piece>> \in Seq(Piece)
      /\ e.kind \in {"text", "think", "tool", "usage", "finish"} /\ e.slot \in Slot \union {Nowhere}
  BY Bounds DEF EventType
<1>1. CASE e.kind = "usage"
  <2>1. out.t = [t EXCEPT !.told = TRUE] /\ out.frames = <<>>
    BY <1>1 DEF Translate, Result
  <2>2. z \in View /\ Leads(d, z, <<>>, z)
    BY LeadsNowhere DEF Matches
  <2> HIDE DEF out
  <2>3. /\ out.t \in TranslatorType /\ out.t.n = t.n /\ out.t.at = t.at /\ out.t.held = t.held
        /\ out.t.done = t.done /\ out.t.begun = t.begun /\ out.t.current = t.current
    BY <2>1 DEF TranslatorType
  <2>4. Placed(out.t) /\ Matches(d, out.t, z)
    BY <2>3 DEF Placed, Matches
  <2>5. Carried(d, t, z, out)
    BY <2>1, <2>2, <2>3, <2>4 DEF Carried
  <2> QED BY <1>1, <2>3, <2>5 DEF out
<1>2. CASE e.kind = "finish"
  <2>1. ~t.done
    BY <1>2
  <2>2. out = Ending(d, t)
    BY <1>2, <2>1 DEF Translate, Closed
  <2>3. Carried(d, t, z, Ending(d, t))
    BY <1>0, <2>1, EndingCarries
  <2>4. Ending(d, t).t.done
    BY DEF Ending, Result, TranslatorType
  <2> QED BY <1>2, <2>2, <2>3, <2>4
<1>3. CASE e.kind = "text" /\ d = "chat"
  <2>1. out = Feed(t, e.piece, e.split)
    BY <1>3 DEF Translate
  <2>2. Carried("chat", t, z, Feed(t, e.piece, e.split)) /\ ~Feed(t, e.piece, e.split).t.done
    BY <1>0, <1>3, FeedCarries
  <2> QED BY <1>3, <2>1, <2>2
<1>4. CASE e.kind \notin {"usage", "finish"} /\ ~(e.kind = "text" /\ d = "chat")
  <2> DEFINE text == IF e.kind = "text" THEN <<e.piece>> ELSE <<>>
  <2>1. out = Piecemeal(d, t, e.slot, text) /\ e.slot \in Slot /\ ~t.done
    BY <1>0, <1>4 DEF Translate
  <2>2. text \in Seq(Piece)
    BY <1>0
  <2> HIDE DEF text
  <2>3. CASE d # "chat"
    <3> DEFINE new == Piecemeal(d, t, e.slot, text)
    <3>1. Carried(d, t, z, new) /\ ~new.t.done /\ (d = "anthropic" => new.t.current = e.slot)
      BY <2>1, <2>2, <2>3, PiecemealCarries
    <3> HIDE DEF new
    <3>2. out = new
      BY <2>1 DEF new
    <3> HIDE DEF out
    <3> QED BY <1>4, <3>1, <3>2 DEF out
  <2>4. CASE d = "chat"
    <3>1. out.t = t /\ out.frames = <<Frame("delta", 0, text)>>
      BY <2>1, <2>4 DEF Piecemeal, Result
    <3>2. V("open", z.opened, {}) \in View /\ Matches(d, t, V("open", z.opened, {}))
          /\ Leads(d, z, <<Frame("delta", 0, text)>>, V("open", z.opened, {}))
      BY <2>1, <2>2, <2>4, ChatCarries
    <3> HIDE DEF out
    <3>3. \E w \in View : Leads(d, z, out.frames, w) /\ Matches(d, out.t, w)
      BY <3>1, <3>2
    <3>4. Carried(d, t, z, out)
      BY <2>4, <3>1, <3>3 DEF Carried
    <3> QED BY <2>1, <2>4, <3>1, <3>4 DEF out
  <2> QED BY <2>3, <2>4
<1> QED BY <1>1, <1>2, <1>3, <1>4

-----------------------------------------------------------------------------
(* The stream as its client's parser follows it.                           *)

\* The frames a client may hear, without their texts.
Heard == {Frame(type, b, <<>>) : type \in FrameKind, b \in 0 .. MaxEvents}

WireTypes ==
  /\ dialect \in Dialect
  /\ at \in {"reading", "closing", "over", "orphan"}
  /\ fetch \in {"running", "ready", "idle"}
  /\ attempt \in Nat /\ sent \in 0 .. MaxEvents
  /\ emitted \in BOOLEAN /\ finished \in BOOLEAN
  /\ running \in Slot \union {Nowhere}
  /\ queue \in Seq(Known) /\ handed \in Known
  /\ client.phase \in {"idle", "open", "ended", "closed"}
  /\ client.opened \in Nat /\ client.live \in SUBSET Nat /\ client.latest \in Heard

\* What the executor relies on when it goes on with a translator.
Steady ==
  /\ tr \in TranslatorType /\ Placed(tr) /\ tr.n <= sent
  /\ dialect # "chat" => tr.held = <<>>
  /\ at = "reading" /\ ~emitted /\ queue = <<>> => tr.n = 0 /\ ~tr.begun /\ ~tr.done
  /\ at = "reading" /\ tr.done => finished
  /\ at = "reading" /\ dialect = "anthropic" /\ ~tr.done /\ running # Nowhere =>
       tr.current = running

\* Where the client's parser stands, and where it will with the frame that was fetched.
Stands == V(client.phase, client.opened, client.live)
Ahead == IF fetch = "ready" THEN Seen(dialect, Stands, handed) ELSE Stands

\* The frames on their way lead it to where the translator believes it is.
OnTheWay ==
  at \in {"reading", "closing"} =>
    /\ fetch = "ready" => Accepts(dialect, Stands, handed)
    /\ \E z \in View : Leads(dialect, Ahead, queue, z)
                         /\ (at = "reading" => Matches(dialect, tr, z))

WireInv == WireTypes /\ Steady /\ OnTheWay

LEMMA QuietKnown == Quiet \in Known /\ Frame("none", 0, <<>>) \in Heard
<1>1. 0 \in 0 .. MaxEvents /\ "none" \in FrameKind
  BY Bounds DEF FrameKind
<1>2. Bare("none", 0) \in Known
  BY <1>1, KnownBlank
<1> QED BY <1>1, <1>2 DEF Quiet, Bare, Heard

LEMMA StandsTyped ==
  ASSUME WireTypes
  PROVE  /\ Stands \in View /\ Stands.phase = client.phase
         /\ Stands.opened = client.opened /\ Stands.live = client.live
BY ViewFields DEF Stands, WireTypes

LEMMA WireInitial == ConversationsInit => WireInv
<1> SUFFICES ASSUME ReplyInit PROVE WireInv
  BY DEF ConversationsInit
<1>1. /\ tr = NewTranslator /\ handed = Quiet /\ fetch = "running" /\ sent = 0 /\ queue = <<>>
      /\ dialect \in Dialects /\ at = "reading" /\ attempt = 1 /\ emitted = FALSE
      /\ finished = FALSE /\ running = Nowhere
      /\ client = [phase |-> "idle", opened |-> 0, live |-> {}, latest |-> Quiet]
  BY DEF ReplyInit
<1>2. client.phase = "idle" /\ client.opened = 0 /\ client.live = {} /\ client.latest = Quiet
  BY <1>1
<1>3. WireTypes
  <2>1. dialect \in Dialect /\ sent \in 0 .. MaxEvents
    BY <1>1, Bounds, ReplyConstants
  <2>2. queue \in Seq(Known) /\ handed \in Known /\ client.latest \in Heard
    BY <1>1, <1>2, QuietKnown DEF Quiet
  <2> QED BY <1>1, <1>2, <2>1, <2>2 DEF WireTypes
<1>4. tr.n = 0 /\ tr.held = <<>> /\ ~tr.begun /\ ~tr.done /\ tr.current = Nowhere
  BY <1>1 DEF NewTranslator
<1>5. Steady
  BY <1>1, <1>4, NewSound DEF Steady
<1>6. OnTheWay
  <2>1. /\ Stands \in View /\ Stands.phase = "idle" /\ Stands.opened = 0
        /\ Stands.live = {} /\ Ahead = Stands
    BY <1>1, <1>2, <1>3, StandsTyped DEF Ahead
  <2>2. Matches(dialect, tr, Stands)
    BY <1>4, <2>1 DEF Matches
  <2>3. Leads(dialect, Ahead, queue, Stands)
    BY <1>1, <2>1, LeadsNowhere
  <2> QED BY <1>1, <2>1, <2>2, <2>3 DEF OnTheWay
<1> QED BY <1>3, <1>5, <1>6 DEF WireInv

\* With nothing on its way the client stands where the translator believes.
LEMMA NothingOnItsWay ==
  ASSUME WireInv, fetch # "ready", queue = <<>>, at = "reading"
  PROVE  Stands \in View /\ Matches(dialect, tr, Stands)
<1>1. Ahead = Stands
  BY DEF Ahead
<1>2. PICK z \in View : Leads(dialect, Ahead, queue, z) /\ Matches(dialect, tr, z)
  BY DEF WireInv, OnTheWay
<1>3. Ahead = z
  BY <1>2, LeadsFromNothing
<1> QED BY <1>1, <1>2, <1>3

\* A step of the executor that leaves the client alone.
LEMMA ExecutorKeeps ==
  ASSUME WireInv, UNCHANGED <<dialect, emitted, fetch, handed, client>>,
         fetch = "running",
         at' \in {"reading", "closing"}, attempt' \in Nat, sent' \in 0 .. MaxEvents,
         finished' \in BOOLEAN, running' \in Slot \union {Nowhere},
         Steady',
         NEW z \in View, NEW c, c = Stands, Leads(dialect, c, queue', z),
         at' = "reading" => Matches(dialect, tr', z)
  PROVE  WireInv'
<1>1. queue' \in Seq(Known)
  BY LeadsKnown
<1>2. WireTypes'
  BY <1>1 DEF WireInv, WireTypes
<1>3. Stands' = c /\ Ahead' = c
  BY DEF Stands, Ahead
<1>4. OnTheWay'
  BY <1>3 DEF OnTheWay
<1> QED BY <1>2, <1>4 DEF WireInv

LEMMA SendCarries ==
  ASSUME WireInv, UpstreamSends, "anthropic" \notin Interleaved
  PROVE  WireInv'
<1>1. PICK e \in Event :
        /\ tr' = Translate(dialect, tr, e).t
        /\ queue' = Translate(dialect, tr, e).frames
        /\ sent' = sent + 1
        /\ finished' = (finished \/ e.kind = "finish")
        /\ running' = IF e.slot = Nowhere \/ dialect \in Interleaved THEN running ELSE e.slot
  BY DEF UpstreamSends
<1>2. /\ at = "reading" /\ queue = <<>> /\ fetch = "running" /\ sent < MaxEvents
      /\ UNCHANGED <<dialect, at, attempt, emitted>> /\ UNCHANGED <<fetch, handed, client>>
  BY DEF UpstreamSends, Running, wireVars
<1>3. WireTypes /\ Steady
  BY DEF WireInv
<1>4. /\ e \in EventType
      /\ finished => e.kind = "usage"
      /\ e.kind \notin {"usage", "finish"} => e.slot # Nowhere
      /\ e.kind \in {"usage", "finish"} => e.slot = Nowhere
      /\ Resumes(e.slot) => dialect \in Interleaved
  <2>1. attempt \in Nat /\ sent \in Nat
    BY <1>3 DEF WireTypes
  <2> QED BY <2>1, SentTyped
<1>5. PICK z : z = Stands
  OBVIOUS
<1>6. z \in View /\ Matches(dialect, tr, z)
  BY <1>2, <1>5, NothingOnItsWay
<1>7. dialect = "anthropic" /\ e.slot \in Tool /\ tr.at[e.slot] # Nowhere =>
        tr.done \/ tr.current = e.slot
  <2>1. Nowhere \notin Tool
    BY TranslatorConstants DEF Slot
  <2> QED BY <1>2, <1>3, <1>4, <2>1 DEF Resumes, Steady
<1>8. tr.n \in Nat /\ tr.n < MaxEvents /\ sent \in Nat /\ tr.n <= sent
  BY <1>2, <1>3, Bounds DEF Steady, TranslatorType, WireTypes
<1> DEFINE out == Translate(dialect, tr, e)
<1>9. /\ Carried(dialect, tr, z, out)
      /\ out.t.done => tr.done \/ e.kind = "finish"
      /\ dialect = "anthropic" /\ ~out.t.done =>
           out.t.current = IF e.kind \in {"usage", "finish"} THEN tr.current ELSE e.slot
  <2>1. tr.done => e.kind = "usage"
    BY <1>2, <1>3, <1>4 DEF Steady
  <2> QED BY <1>3, <1>4, <1>6, <1>7, <1>8, <2>1, TranslateCarries DEF Steady, WireTypes
<1>10. tr' = out.t /\ queue' = out.frames
  BY <1>1
<1>14. tr.done => out.t.done
  <2>1. tr.done => out.t = [tr EXCEPT !.told = TRUE]
    BY <1>2, <1>3, <1>4 DEF Steady, Translate, Result
  <2> QED BY <1>3, <2>1 DEF Steady, TranslatorType
<1> HIDE DEF out
<1>11. Steady'
  <2>1. tr' \in TranslatorType /\ Placed(tr') /\ (dialect' # "chat" => tr'.held = <<>>)
    BY <1>2, <1>9, <1>10 DEF Carried
  <2>2. tr'.n <= sent'
    BY <1>1, <1>8, <1>9, <1>10 DEF Carried
  <2>3. at' = "reading" /\ ~emitted' /\ queue' = <<>> => tr'.n = 0 /\ ~tr'.begun /\ ~tr'.done
    BY <1>2, <1>3, <1>9, <1>10 DEF Carried, Steady
  <2>4. tr'.done => finished'
    BY <1>1, <1>2, <1>3, <1>9, <1>10 DEF Steady
  <2>5. dialect' = "anthropic" /\ ~tr'.done /\ running' # Nowhere => tr'.current = running'
    <3>1. SUFFICES ASSUME dialect = "anthropic", ~tr'.done, running' # Nowhere
                   PROVE  tr'.current = running'
      BY <1>2
    <3>2. CASE e.kind \in {"usage", "finish"}
      <4>1. running' = running /\ tr'.current = tr.current
        BY <1>1, <1>4, <1>9, <1>10, <3>1, <3>2
      <4>2. ~tr.done
        BY <1>10, <1>14, <3>1
      <4> QED BY <1>2, <1>3, <3>1, <4>1, <4>2 DEF Steady
    <3>3. CASE e.kind \notin {"usage", "finish"}
      BY <1>1, <1>4, <1>9, <1>10, <3>1, <3>3
    <3> QED BY <3>2, <3>3
  <2> QED BY <2>1, <2>2, <2>3, <2>4, <2>5 DEF Steady
<1>12. PICK w \in View : Leads(dialect, z, queue', w) /\ Matches(dialect, tr', w)
  BY <1>9, <1>10 DEF Carried
<1>13. /\ attempt' \in Nat /\ sent' \in 0 .. MaxEvents /\ finished' \in BOOLEAN
       /\ running' \in Slot \union {Nowhere} /\ at' \in {"reading", "closing"}
  <2>1. sent' \in 0 .. MaxEvents
    BY <1>1, <1>2, <1>8, Bounds
  <2>2. attempt' \in Nat /\ finished' \in BOOLEAN /\ at' = "reading"
    BY <1>1, <1>2, <1>3 DEF WireTypes
  <2>3. running' \in Slot \union {Nowhere}
    BY <1>1, <1>3, <1>4 DEF WireTypes, EventType
  <2> QED BY <2>1, <2>2, <2>3
<1> QED BY <1>2, <1>5, <1>11, <1>12, <1>13, ExecutorKeeps

LEMMA EndCarries ==
  ASSUME WireInv, UpstreamEnds
  PROVE  WireInv'
<1>1. /\ tr' = Closed(dialect, tr).t /\ queue' = Closed(dialect, tr).frames
      /\ at = "reading" /\ at' = "closing" /\ fetch = "running" /\ queue = <<>>
      /\ UNCHANGED <<dialect, attempt, emitted, sent, finished, running>>
      /\ UNCHANGED <<fetch, handed, client>>
  BY DEF UpstreamEnds, Running, wireVars
<1>2. WireTypes /\ Steady
  BY DEF WireInv
<1>3. PICK z : z = Stands
  OBVIOUS
<1>4. z \in View /\ Matches(dialect, tr, z)
  BY <1>1, <1>3, NothingOnItsWay
<1> DEFINE out == Closed(dialect, tr)
<1>5. Carried(dialect, tr, z, out) /\ out.t.n = tr.n
  <2>1. tr.n \in 0 .. MaxEvents
    BY <1>2, Bounds DEF Steady, TranslatorType, WireTypes
  <2> QED BY <1>2, <1>4, <2>1, ClosedCarries DEF Steady, WireTypes
<1>6. tr' = out.t /\ queue' = out.frames
  BY <1>1
<1> HIDE DEF out
<1>7. PICK w \in View : Leads(dialect, z, queue', w)
  BY <1>5, <1>6 DEF Carried
<1>8. Steady'
  BY <1>1, <1>2, <1>5, <1>6 DEF Carried, Steady
<1>9. /\ attempt' \in Nat /\ sent' \in 0 .. MaxEvents /\ finished' \in BOOLEAN
      /\ running' \in Slot \union {Nowhere}
  BY <1>1, <1>2 DEF WireTypes
<1> QED BY <1>1, <1>3, <1>7, <1>8, <1>9, ExecutorKeeps

\* An attempt that broke before anything went out leaves its translator as new.
LEMMA BreakCarries ==
  ASSUME WireInv, UpstreamBreaks
  PROVE  WireInv'
<1>1. /\ at = "reading" /\ queue = <<>> /\ fetch = "running"
      /\ UNCHANGED <<dialect, emitted>> /\ UNCHANGED <<fetch, handed, client>>
  BY DEF UpstreamBreaks, Running, wireVars
<1>2. WireTypes /\ Steady
  BY DEF WireInv
<1>3. PICK z : z = Stands
  OBVIOUS
<1>4. z \in View /\ Matches(dialect, tr, z)
  BY <1>1, <1>3, NothingOnItsWay
<1>5. ASSUME NextAttempt, ~emitted, UNCHANGED <<at, queue>>,
             tr' = tr \/ (tr' = NewTranslator /\ dialect = "chat")
      PROVE  WireInv'
  <2>1. tr.n = 0 /\ ~tr.begun /\ ~tr.done
    BY <1>1, <1>2, <1>5 DEF Steady
  <2>2. NewTranslator.begun = FALSE /\ NewTranslator.done = FALSE /\ NewTranslator.n = 0
    BY DEF NewTranslator
  <2>3. tr'.n = 0 /\ ~tr'.begun /\ ~tr'.done /\ tr' \in TranslatorType /\ Placed(tr')
        /\ (dialect' # "chat" => tr'.held = <<>>)
    BY <1>1, <1>2, <1>5, <2>1, <2>2, NewSound DEF Steady
  <2>4. /\ attempt' \in Nat /\ sent' = 0 /\ sent' \in 0 .. MaxEvents /\ finished' = FALSE
        /\ running' = Nowhere
    BY <1>2, <1>5, Bounds DEF NextAttempt, WireTypes
  <2>5. Steady'
    BY <1>1, <1>5, <2>3, <2>4 DEF Steady
  <2>6. Matches(dialect, tr', z)
    <3>1. CASE tr' = tr
      BY <1>4, <3>1
    <3>2. CASE tr' = NewTranslator /\ dialect = "chat"
      BY <1>4, <2>1, <2>3, <3>2 DEF Matches
    <3> QED BY <1>5, <3>1, <3>2
  <2>7. Leads(dialect, z, queue', z) /\ at' = "reading"
    BY <1>1, <1>4, <1>5, LeadsNowhere
  <2> QED BY <1>1, <1>3, <1>4, <2>4, <2>5, <2>6, <2>7, ExecutorKeeps
<1>6. CASE Again /\ NextAttempt /\ UNCHANGED <<at, tr, queue>>
  BY <1>5, <1>6 DEF Again
<1>7. CASE ~emitted /\ NextAttempt /\ tr' = ForLink /\ UNCHANGED <<at, queue>>
  BY <1>5, <1>7 DEF ForLink
<1>8. CASE Fail(tr) /\ UNCHANGED <<attempt, left, link, sent, finished, running>>
  <2> DEFINE out == Failed(dialect, tr)
  <2>1. tr' = out.t /\ queue' = out.frames /\ at' = "closing"
    BY <1>8 DEF Fail
  <2>2. /\ out.t \in TranslatorType /\ Placed(out.t) /\ out.t.n = tr.n
        /\ dialect # "chat" => out.t.held = <<>>
        /\ \E w \in View : Leads(dialect, z, out.frames, w)
    BY <1>2, <1>4, FailedLeads DEF Steady, WireTypes
  <2> HIDE DEF out
  <2>3. PICK w \in View : Leads(dialect, z, queue', w)
    BY <2>1, <2>2
  <2>4. Steady'
    BY <1>1, <1>2, <1>8, <2>1, <2>2 DEF Steady
  <2>5. /\ attempt' \in Nat /\ sent' \in 0 .. MaxEvents /\ finished' \in BOOLEAN
        /\ running' \in Slot \union {Nowhere}
    BY <1>2, <1>8 DEF WireTypes
  <2> QED BY <1>1, <1>3, <2>1, <2>3, <2>4, <2>5, ExecutorKeeps
<1> QED BY <1>6, <1>7, <1>8 DEF UpstreamBreaks

\* What was on its way is now the frame that was fetched and the rest.
LEMMA YieldCarries ==
  ASSUME WireInv, Yield
  PROVE  WireInv'
<1>1. /\ queue # <<>> /\ fetch = "running" /\ handed' = Head(queue) /\ queue' = Tail(queue)
      /\ fetch' = "ready" /\ emitted' = TRUE
      /\ UNCHANGED <<dialect, at, attempt, sent, finished, running, tr, client>>
  BY DEF Yield, Running
<1>2. WireTypes /\ Steady /\ OnTheWay
  BY DEF WireInv
<1>3. queue \in Seq(Known) /\ Head(queue) \in Known /\ Tail(queue) \in Seq(Known)
  BY <1>1, <1>2 DEF WireTypes
<1>4. WireTypes'
  BY <1>1, <1>2, <1>3 DEF WireTypes
<1>5. Steady'
  BY <1>1, <1>2 DEF Steady
<1>6. PICK c : c = Stands
  OBVIOUS
<1>7. PICK d : d = dialect
  OBVIOUS
<1>8. OnTheWay'
  <2>1. SUFFICES ASSUME at \in {"reading", "closing"}
                 PROVE  /\ Accepts(dialect', Stands', handed')
                        /\ \E z \in View : Leads(dialect', Ahead', queue', z)
                                             /\ (at' = "reading" => Matches(dialect', tr', z))
    BY <1>1 DEF OnTheWay
  <2>2. PICK z \in View : Leads(d, c, queue, z) /\ (at = "reading" => Matches(d, tr, z))
    BY <1>1, <1>2, <1>6, <1>7, <2>1 DEF OnTheWay, Ahead
  <2>3. Accepts(d, c, Head(queue)) /\ Leads(d, Seen(d, c, Head(queue)), Tail(queue), z)
    BY <1>1, <2>2, LeadsHead
  <2>4. Stands' = c /\ dialect' = d /\ Ahead' = Seen(d, c, Head(queue))
    BY <1>1, <1>6, <1>7 DEF Stands, Ahead
  <2> QED BY <1>1, <2>2, <2>3, <2>4
<1> QED BY <1>4, <1>5, <1>8 DEF WireInv

\* What the client hears takes its parser where it was expected.
LEMMA HearsSeen ==
  ASSUME NEW f \in Known, Hears(f), WireTypes
  PROVE  /\ client'.phase \in {"idle", "open", "ended", "closed"} /\ client'.opened \in Nat
         /\ client'.live \in SUBSET Nat /\ client'.latest \in Heard
         /\ client'.latest = Frame(f.type, f.block, <<>>)
         /\ Stands' = Seen(dialect, Stands, f)
<1>1. f.type \in FrameKind /\ f.block \in 0 .. MaxEvents /\ f.block \in Nat
  BY Bounds DEF Known
<1>2. /\ client'.phase = (CASE f.type = "start" -> "open"
                            [] f.type = "delta" /\ dialect = "chat" -> "open"
                            [] f.type = "end" -> IF dialect = "chat" THEN "ended" ELSE "closed"
                            [] f.type \in {"done", "fail"} -> "closed"
                            [] OTHER -> client.phase)
      /\ client'.opened = IF f.type = "open" THEN client.opened + 1 ELSE client.opened
      /\ client'.live = (CASE f.type = "open" -> client.live \union {f.block}
                           [] f.type = "close" -> client.live \ {f.block}
                           [] OTHER -> client.live)
      /\ client'.latest = Frame(f.type, f.block, <<>>)
  BY DEF Hears
<1>3. client'.latest \in Heard
  BY <1>1, <1>2 DEF Heard
<1>4. /\ client'.phase \in {"idle", "open", "ended", "closed"} /\ client'.opened \in Nat
      /\ client'.live \in SUBSET Nat
  BY <1>1, <1>2 DEF WireTypes
<1>5. Stands' = Seen(dialect, Stands, f)
  <2>1. /\ Stands.phase = client.phase /\ Stands.opened = client.opened
        /\ Stands.live = client.live
    BY StandsTyped
  <2>2. client'.phase = IF f.type = "start" \/ (f.type = "delta" /\ dialect = "chat") THEN "open"
                        ELSE IF f.type = "end" /\ dialect = "chat" THEN "ended"
                        ELSE IF f.type \in {"end", "done", "fail"} THEN "closed" ELSE Stands.phase
    <3>1. CASE f.type = "start" \/ (f.type = "delta" /\ dialect = "chat")
      BY <1>2, <3>1
    <3>2. CASE f.type = "end" /\ dialect = "chat"
      BY <1>2, <3>2
    <3>3. CASE f.type \in {"end", "done", "fail"} /\ ~(f.type = "end" /\ dialect = "chat")
      BY <1>2, <3>3
    <3>4. CASE f.type \notin {"start", "end", "done", "fail"} /\ ~(f.type = "delta" /\ dialect = "chat")
      BY <1>2, <2>1, <3>4
    <3> QED BY <3>1, <3>2, <3>3, <3>4
  <2>3. client'.live = IF f.type = "open" THEN Stands.live \union {f.block}
                       ELSE IF f.type = "close" THEN Stands.live \ {f.block} ELSE Stands.live
    <3>1. CASE f.type = "open"
      BY <1>2, <2>1, <3>1
    <3>2. CASE f.type = "close"
      BY <1>2, <2>1, <3>2
    <3>3. CASE f.type \notin {"open", "close"}
      BY <1>2, <2>1, <3>3
    <3> QED BY <3>1, <3>2, <3>3
  <2> QED BY <1>2, <2>1, <2>2, <2>3, Zenon DEF Stands, Seen
<1> QED BY <1>2, <1>3, <1>4, <1>5

LEMMA DeliverCarries ==
  ASSUME WireInv, Deliver
  PROVE  WireInv'
<1>1. /\ Hears(handed) /\ fetch = "ready" /\ handed' = Quiet /\ fetch' = "idle"
      /\ UNCHANGED <<dialect, at, attempt, emitted, sent, finished, running, tr, queue>>
  BY DEF Deliver, execVars
<1>2. WireTypes /\ Steady /\ OnTheWay /\ handed \in Known
  BY DEF WireInv, WireTypes
<1>3. WireTypes'
  BY <1>1, <1>2, HearsSeen, QuietKnown DEF WireTypes
<1>4. Steady'
  BY <1>1, <1>2 DEF Steady
<1>5. PICK c : c = Ahead
  OBVIOUS
<1>6. Stands' = c /\ Ahead' = c
  BY <1>1, <1>2, <1>5, HearsSeen DEF Ahead
<1>7. OnTheWay'
  BY <1>1, <1>2, <1>5, <1>6 DEF OnTheWay
<1> QED BY <1>3, <1>4, <1>7 DEF WireInv

LEMMA BeatCarries ==
  ASSUME WireInv, Heartbeat
  PROVE  WireInv'
<1> DEFINE f == Frame("ping", 0, <<>>)
<1>1. /\ Hears(f) /\ fetch = "running"
      /\ UNCHANGED <<dialect, at, attempt, emitted, sent, finished, running, tr, queue, fetch, handed>>
  BY DEF Heartbeat, Running, execVars
<1>2. WireTypes /\ Steady /\ OnTheWay
  BY DEF WireInv
<1>3. f \in Known /\ f.type = "ping"
  <2>1. 0 \in 0 .. MaxEvents /\ "ping" \in FrameKind
    BY Bounds DEF FrameKind
  <2> QED BY <2>1, KnownBlank DEF Bare
<1> HIDE DEF f
<1>4. WireTypes'
  BY <1>1, <1>2, <1>3, HearsSeen DEF WireTypes
<1>5. Steady'
  BY <1>1, <1>2 DEF Steady
<1>6. PICK c : c = Stands
  OBVIOUS
<1>7. Stands' = c /\ Ahead' = c
  <2>1. Seen(dialect, Stands, f) = c
    <3>1. c \in View /\ c = V(c.phase, c.opened, c.live)
      BY <1>2, <1>6, StandsTyped, ViewIs
    <3> QED BY <1>3, <1>6, <3>1 DEF Seen
  <2> QED BY <1>1, <1>2, <1>3, <2>1, HearsSeen DEF Ahead
<1>8. OnTheWay'
  BY <1>1, <1>2, <1>6, <1>7 DEF OnTheWay, Ahead
<1> QED BY <1>4, <1>5, <1>8 DEF WireInv

\* Steps that take nothing further: the client's view and the translator stay.
LEMMA RestCarries ==
  ASSUME WireInv,
         UNCHANGED <<dialect, attempt, emitted, sent, finished, running, tr, client>>,
         \/ UNCHANGED <<at, queue, handed>> /\ fetch # "ready" /\ fetch' \in {"running", "idle"}
         \/ UNCHANGED <<at, queue, handed, fetch>>
         \/ /\ at' \in {"over", "orphan"} /\ queue' \in {queue, <<>>} /\ handed' \in {handed, Quiet}
            /\ fetch' \in {"running", "ready", "idle"}
  PROVE  WireInv'
<1>1. WireTypes /\ Steady /\ OnTheWay
  BY DEF WireInv
<1>2. WireTypes'
  <2>1. <<>> \in Seq(Known) /\ Quiet \in Known
    BY QuietKnown
  <2> QED BY <1>1, <2>1 DEF WireTypes
<1>3. Steady'
  BY <1>1 DEF Steady
<1>4. OnTheWay'
  <2>1. CASE at' \in {"over", "orphan"}
    BY <2>1 DEF OnTheWay
  <2>2. CASE UNCHANGED <<at, queue, handed>> /\ fetch # "ready" /\ fetch' \in {"running", "idle"}
    <3>1. PICK c : c = Stands
      OBVIOUS
    <3>2. Stands' = c /\ Ahead' = c /\ Ahead = c
      BY <2>2, <3>1 DEF Stands, Ahead
    <3> QED BY <1>1, <2>2, <3>1, <3>2 DEF OnTheWay
  <2>3. CASE UNCHANGED <<at, queue, handed, fetch>>
    <3>1. PICK c : c = Stands
      OBVIOUS
    <3>2. PICK b : b = Ahead
      OBVIOUS
    <3>3. Stands' = c /\ Ahead' = b
      BY <2>3, <3>1, <3>2 DEF Stands, Ahead
    <3> QED BY <1>1, <2>3, <3>1, <3>2, <3>3 DEF OnTheWay
  <2> QED BY <2>1, <2>2, <2>3
<1> QED BY <1>2, <1>3, <1>4 DEF WireInv

LEMMA WireStep ==
  ASSUME "anthropic" \notin Interleaved, WireInv, [ConversationsNext]_conversationVars
  PROVE  WireInv'
<1>1. WireTypes
  BY DEF WireInv
<1>2. CASE UpstreamSends
  BY <1>2, SendCarries
<1>3. CASE UpstreamEnds
  BY <1>3, EndCarries
<1>4. CASE UpstreamBreaks
  BY <1>4, BreakCarries
<1>5. CASE Yield
  BY <1>5, YieldCarries
<1>6. CASE Deliver
  BY <1>6, DeliverCarries
<1>7. CASE Heartbeat
  BY <1>7, BeatCarries
<1>8. CASE Return
  <2>1. /\ UNCHANGED <<dialect, attempt, emitted, sent, finished, running, tr, client, queue, handed>>
        /\ at' = "over" /\ fetch' = "idle"
    BY <1>8 DEF Return
  <2> QED BY <2>1, RestCarries
<1>9. CASE Fetch
  <2>1. /\ UNCHANGED <<dialect, at, attempt, emitted, sent, finished, running, tr, client, queue, handed>>
        /\ fetch' = "running" /\ fetch = "idle"
    BY <1>9 DEF Fetch, execVars
  <2> QED BY <2>1, RestCarries
<1>10. CASE Leave
  <2>1. /\ UNCHANGED <<dialect, attempt, emitted, sent, finished, running, tr, client>>
        /\ at' \in {"over", "orphan"} /\ queue' = <<>> /\ handed' = Quiet /\ fetch' = "idle"
    BY <1>10 DEF Leave
  <2> QED BY <2>1, RestCarries
<1>11. CASE Collect
  <2>1. /\ UNCHANGED <<dialect, attempt, emitted, sent, finished, running, tr, client, queue, handed,
                       fetch>>
        /\ at' = "over"
    BY <1>11 DEF Collect, wireVars
  <2> QED BY <1>1, <2>1, RestCarries DEF WireTypes
<1>12. CASE UNCHANGED replyVars
  <2>1. UNCHANGED <<dialect, at, attempt, emitted, sent, finished, running, tr, client, queue, handed,
                    fetch>>
    BY <1>12 DEF replyVars, execVars, wireVars
  <2> QED BY <2>1, RestCarries
<1>13. ReplyNext \/ UNCHANGED replyVars
  BY DEF ConversationsNext, conversationVars, Within
<1> QED BY <1>2, <1>3, <1>4, <1>5, <1>6, <1>7, <1>8, <1>9, <1>10, <1>11, <1>12, <1>13 DEF ReplyNext

-----------------------------------------------------------------------------
(* Every step of the stream is one the protocol allows.                    *)

Style == CASE dialect = "chat" -> "plain" [] dialect = "anthropic" -> "single" [] OTHER -> "many"

LEMMA StyleIs ==
  ASSUME dialect \in Dialect
  PROVE  /\ Style \in {"single", "many", "plain"}
         /\ (Style = "plain") = (dialect = "chat") /\ (Style = "single") = (dialect = "anthropic")
BY DEF Style, Dialect

LEMMA ProtocolFrames ==
  Heard = {Frame(type, b, <<>>) :
             type \in {"none", "start", "open", "delta", "close", "usage", "end",
                       "done", "fail", "ping"}, b \in 0 .. MaxEvents}
BY DEF Heard, FrameKind

LEMMA InitialSpeaks == ConversationsInit => Protocol!ProtocolInit
<1> SUFFICES ASSUME ConversationsInit PROVE Protocol!ProtocolInit
  OBVIOUS
<1>1. WireTypes
  BY WireInitial DEF WireInv
<1>2. client.phase = "idle" /\ client.opened = 0 /\ client.live = {}
  BY DEF ConversationsInit, ReplyInit
<1>3. Style \in {"single", "many", "plain"} /\ client.latest \in Heard
  BY <1>1, StyleIs DEF WireTypes
<1> QED BY <1>2, <1>3, ProtocolFrames DEF Protocol!ProtocolInit, Style

\* The protocol's step for a frame the parser accepts.
LEMMA HearsSpeaks ==
  ASSUME WireTypes, NEW f \in Known, Hears(f), UNCHANGED dialect,
         Accepts(dialect, Stands, f) \/ f.type = "ping"
  PROVE  Protocol!ProtocolNext
<1> DEFINE g == Frame(f.type, f.block, <<>>)
<1>1. g \in Heard /\ g.type = f.type /\ g.block = f.block /\ client'.latest = g
  <2>1. client'.latest \in Heard /\ client'.latest = g
    BY HearsSeen
  <2> QED BY <2>1 DEF Frame
<1>2. /\ Stands.phase = client.phase /\ Stands.opened = client.opened
      /\ Stands.live = client.live
  BY StandsTyped
<1>3. /\ client'.phase = (CASE f.type = "start" -> "open"
                            [] f.type = "delta" /\ dialect = "chat" -> "open"
                            [] f.type = "end" -> IF dialect = "chat" THEN "ended" ELSE "closed"
                            [] f.type \in {"done", "fail"} -> "closed"
                            [] OTHER -> client.phase)
      /\ client'.opened = IF f.type = "open" THEN client.opened + 1 ELSE client.opened
      /\ client'.live = (CASE f.type = "open" -> client.live \union {f.block}
                           [] f.type = "close" -> client.live \ {f.block}
                           [] OTHER -> client.live)
  BY DEF Hears
<1>4. /\ (Style = "plain") = (dialect = "chat") /\ (Style = "single") = (dialect = "anthropic")
      /\ dialect \in Dialect
  BY StyleIs DEF WireTypes
<1> HIDE DEF g
<1>5. \/ Protocol!Start(g) \/ Protocol!OpenBlock(g) \/ Protocol!Delta(g) \/ Protocol!CloseBlock(g)
      \/ Protocol!Usage(g) \/ Protocol!End(g) \/ Protocol!Fail(g) \/ Protocol!Ping(g)
  <2>1. CASE f.type = "start"
    <3>1. dialect # "chat" /\ client.phase = "idle"
      BY <1>2, <2>1 DEF Accepts
    <3>2. client'.phase = "open" /\ client'.opened = client.opened /\ client'.live = client.live
      BY <1>3, <2>1
    <3> QED BY <1>1, <1>4, <2>1, <3>1, <3>2 DEF Protocol!Start, Style
  <2>2. CASE f.type = "open"
    <3>1. /\ client.phase = "open" /\ f.block = client.opened
          /\ dialect = "anthropic" => client.live = {}
      BY <1>2, <2>2 DEF Accepts
    <3>2. /\ client'.phase = client.phase /\ client'.opened = client.opened + 1
          /\ client'.live = client.live \union {f.block}
      BY <1>3, <2>2
    <3> QED BY <1>1, <1>4, <2>2, <3>1, <3>2 DEF Protocol!OpenBlock, Style
  <2>3. CASE f.type = "delta" /\ dialect = "chat"
    <3>1. client.phase \in {"idle", "open"}
      BY <1>2, <2>3 DEF Accepts
    <3>2. client'.phase = "open" /\ client'.opened = client.opened /\ client'.live = client.live
      BY <1>3, <2>3
    <3> QED BY <1>1, <1>4, <2>3, <3>1, <3>2 DEF Protocol!Delta, Style
  <2>4. CASE f.type = "delta" /\ dialect # "chat"
    <3>1. client.phase = "open" /\ f.block \in client.live
      BY <1>2, <2>4 DEF Accepts
    <3>2. client'.phase = client.phase /\ client'.opened = client.opened /\ client'.live = client.live
      BY <1>3, <2>4
    <3> QED BY <1>1, <1>4, <2>4, <3>1, <3>2 DEF Protocol!Delta, Style
  <2>5. CASE f.type = "close"
    <3>1. client.phase = "open" /\ f.block \in client.live
      BY <1>2, <2>5 DEF Accepts
    <3>2. /\ client'.phase = client.phase /\ client'.opened = client.opened
          /\ client'.live = client.live \ {f.block}
      BY <1>3, <2>5
    <3> QED BY <1>1, <2>5, <3>1, <3>2 DEF Protocol!CloseBlock
  <2>6. CASE f.type = "usage"
    <3>1. dialect = "chat" /\ client.phase = "ended"
      BY <1>2, <2>6 DEF Accepts
    <3>2. client'.phase = client.phase /\ client'.opened = client.opened /\ client'.live = client.live
      BY <1>3, <2>6
    <3> QED BY <1>1, <1>4, <2>6, <3>1, <3>2 DEF Protocol!Usage, Style
  <2>7. CASE f.type = "end"
    <3>1. client.live = {} /\ client.phase \in {"idle", "open"} /\ (dialect # "chat" => client.phase = "open")
      BY <1>2, <2>7 DEF Accepts
    <3>2. /\ client'.phase = IF dialect = "chat" THEN "ended" ELSE "closed"
          /\ client'.opened = client.opened /\ client'.live = client.live
      BY <1>3, <2>7
    <3> QED BY <1>1, <1>4, <2>7, <3>1, <3>2 DEF Protocol!End, Style
  <2>8. CASE f.type = "done"
    <3>1. dialect = "chat" /\ client.phase = "ended"
      BY <1>2, <2>8 DEF Accepts
    <3>2. client'.phase = "closed" /\ client'.opened = client.opened /\ client'.live = client.live
      BY <1>3, <2>8
    <3> QED BY <1>1, <1>4, <2>8, <3>1, <3>2 DEF Protocol!End, Style
  <2>9. CASE f.type = "fail"
    <3>1. client.phase # "closed" \/ dialect = "chat"
      BY <1>2, <2>9 DEF Accepts
    <3>2. client'.phase = "closed" /\ client'.opened = client.opened /\ client'.live = client.live
      BY <1>3, <2>9
    <3> QED BY <1>1, <1>4, <2>9, <3>1, <3>2 DEF Protocol!Fail, Style
  <2>10. CASE f.type = "ping"
    <3>1. client'.phase = client.phase /\ client'.opened = client.opened /\ client'.live = client.live
      BY <1>3, <2>10
    <3> QED BY <1>1, <2>10, <3>1 DEF Protocol!Ping
  <2>11. f.type \in {"start", "open", "delta", "close", "usage", "end", "done", "fail", "ping"}
    BY DEF Accepts
  <2> QED BY <2>1, <2>2, <2>3, <2>4, <2>5, <2>6, <2>7, <2>8, <2>9, <2>10, <2>11
<1>6. Style' = Style
  BY DEF Style
<1> QED BY <1>1, <1>5, <1>6, ProtocolFrames DEF Protocol!ProtocolNext, Style

LEMMA StepSpeaks ==
  ASSUME WireInv, [ConversationsNext]_conversationVars
  PROVE  [Protocol!ProtocolNext]_Protocol!protocolVars
<1>1. WireTypes /\ OnTheWay /\ handed \in Known
  BY DEF WireInv, WireTypes
<1>2. CASE Deliver
  <2>1. Hears(handed) /\ UNCHANGED dialect /\ fetch = "ready" /\ at \in {"reading", "closing"}
    BY <1>1, <1>2 DEF Deliver, WireTypes
  <2>2. Accepts(dialect, Stands, handed)
    BY <1>1, <2>1 DEF OnTheWay
  <2> QED BY <1>1, <2>1, <2>2, HearsSpeaks
<1>3. CASE Heartbeat
  <2>1. PICK f : f = Frame("ping", 0, <<>>)
    OBVIOUS
  <2>2. Hears(f) /\ UNCHANGED dialect
    BY <1>3, <2>1 DEF Heartbeat
  <2>3. f \in Known /\ f.type = "ping"
    <3>1. 0 \in 0 .. MaxEvents /\ "ping" \in FrameKind
      BY Bounds DEF FrameKind
    <3> QED BY <2>1, <3>1, KnownBlank DEF Bare
  <2> QED BY <1>1, <2>2, <2>3, HearsSpeaks
<1>4. CASE UNCHANGED <<dialect, client>>
  <2>1. UNCHANGED Protocol!protocolVars
    BY <1>4 DEF Protocol!protocolVars
  <2> QED BY <2>1
<1>5. Deliver \/ Heartbeat \/ UNCHANGED <<dialect, client>>
  BY DEF ConversationsNext, conversationVars, Within, ReplyNext, UpstreamSends, UpstreamEnds,
         UpstreamBreaks, Yield, Return, Fetch, Leave, Collect, replyVars, wireVars
<1> QED BY <1>2, <1>3, <1>4, <1>5

\* What the client hears is a stream of its API, whatever the number of events, attempts
\* and models: the stream implements the protocol.  The hypothesis is the case the code
\* does not cover: on the Messages API the fragments of two calls may alternate.
THEOREM StreamSpeaks ==
  ASSUME "anthropic" \notin Interleaved
  PROVE  ConversationsSpec => SpeaksProtocol
<1>1. ConversationsInit => WireInv
  BY WireInitial
<1>2. WireInv /\ [ConversationsNext]_conversationVars => WireInv'
  BY WireStep
<1>3. ConversationsInit => Protocol!ProtocolInit
  BY InitialSpeaks
<1>4. WireInv /\ [ConversationsNext]_conversationVars
        => [Protocol!ProtocolNext]_Protocol!protocolVars
  BY StepSpeaks
<1> QED BY <1>1, <1>2, <1>3, <1>4, PTL
        DEF ConversationsSpec, SpeaksProtocol, Protocol!ProtocolSpec

-----------------------------------------------------------------------------
(* What a frame becomes: lists of events, each of a kind of its own.       *)

Lists(s, E) ==
  /\ s \in Seq(E) /\ E = {s[i] : i \in DOMAIN s}
  /\ \A i, j \in DOMAIN s : s[i].kind = s[j].kind => i = j

LEMMA ListsNothing == Lists(<<>>, {})
BY DEF Lists

LEMMA ListsOne ==
  ASSUME NEW e
  PROVE  Lists(<<e>>, {e})
<1>1. <<e>> \in Seq({e}) /\ DOMAIN <<e>> = {1} /\ <<e>>[1] = e
  OBVIOUS
<1> QED BY <1>1 DEF Lists

LEMMA ListsJoined ==
  ASSUME NEW s, NEW t, NEW E, NEW F, Lists(s, E), Lists(t, F),
         \A e \in E, f \in F : e.kind # f.kind
  PROVE  Lists(s \o t, E \union F)
<1> DEFINE G == E \union F
<1>1. s \in Seq(G) /\ t \in Seq(G)
  BY DEF Lists
<1>2. /\ s \o t \in Seq(G) /\ Len(s \o t) = Len(s) + Len(t) /\ Len(s) \in Nat /\ Len(t) \in Nat
      /\ DOMAIN (s \o t) = 1 .. Len(s) + Len(t) /\ DOMAIN s = 1 .. Len(s) /\ DOMAIN t = 1 .. Len(t)
      /\ \A i \in 1 .. Len(s) + Len(t) :
           (s \o t)[i] = IF i <= Len(s) THEN s[i] ELSE t[i - Len(s)]
  BY <1>1, ConcatProperties
<1> DEFINE m == Len(s)  n == Len(t)  u == s \o t
<1> HIDE DEF G, u, m, n
<1>3. /\ u \in Seq(G) /\ m \in Nat /\ n \in Nat /\ DOMAIN u = 1 .. m + n
      /\ DOMAIN s = 1 .. m /\ DOMAIN t = 1 .. n
      /\ \A i \in 1 .. m : u[i] = s[i] /\ s[i] \in E
      /\ \A i \in m + 1 .. m + n : u[i] = t[i - m] /\ t[i - m] \in F /\ i - m \in 1 .. n
  <2>1. /\ u \in Seq(G) /\ m \in Nat /\ n \in Nat /\ DOMAIN u = 1 .. m + n
        /\ DOMAIN s = 1 .. m /\ DOMAIN t = 1 .. n
    BY <1>2 DEF u, m, n
  <2>2. ASSUME NEW i \in 1 .. m PROVE u[i] = s[i] /\ s[i] \in E
    <3>1. i \in 1 .. m + n /\ i <= m
      BY <2>1
    <3> QED BY <1>2, <2>1, <3>1 DEF u, m, n, Lists
  <2>3. ASSUME NEW i \in m + 1 .. m + n PROVE u[i] = t[i - m] /\ t[i - m] \in F /\ i - m \in 1 .. n
    <3>1. i \in 1 .. m + n /\ ~(i <= m) /\ i - m \in 1 .. n
      BY <2>1
    <3> QED BY <1>2, <2>1, <3>1 DEF u, m, n, Lists
  <2> QED BY <2>1, <2>2, <2>3
<1>4. G = {u[i] : i \in DOMAIN u}
  <2>1. ASSUME NEW g \in G PROVE \E i \in DOMAIN u : u[i] = g
    <3>1. CASE g \in E
      <4>1. PICK i \in 1 .. m : s[i] = g
        BY <1>3, <3>1 DEF Lists
      <4> QED BY <1>3, <4>1
    <3>2. CASE g \in F
      <4>1. PICK i \in 1 .. n : t[i] = g
        BY <1>3, <3>2 DEF Lists
      <4>2. i + m \in m + 1 .. m + n /\ (i + m) - m = i
        BY <1>3
      <4>3. u[i + m] = g /\ i + m \in 1 .. m + n
        BY <1>3, <4>1, <4>2
      <4> QED BY <1>3, <4>3
    <3> QED BY <3>1, <3>2 DEF G
  <2>2. \A i \in DOMAIN u : u[i] \in G
    BY <1>3
  <2> QED BY <2>1, <2>2
<1>5. ASSUME NEW i \in DOMAIN u, NEW j \in DOMAIN u, u[i].kind = u[j].kind
      PROVE  i = j
  <2>1. CASE i \in 1 .. m /\ j \in 1 .. m
    BY <1>3, <1>5, <2>1 DEF Lists
  <2>2. CASE i \in m + 1 .. m + n /\ j \in m + 1 .. m + n
    <3>1. i - m \in DOMAIN t /\ j - m \in DOMAIN t /\ t[i - m].kind = t[j - m].kind
      BY <1>3, <1>5, <2>2
    <3>2. i - m = j - m
      BY <3>1 DEF Lists
    <3> QED BY <1>3, <2>2, <3>2
  <2>3. CASE i \in 1 .. m /\ j \in m + 1 .. m + n
    BY <1>3, <1>5, <2>3
  <2>4. CASE i \in m + 1 .. m + n /\ j \in 1 .. m
    <3>1. u[j] \in E /\ u[i] \in F
      BY <1>3, <2>4
    <3> QED BY <1>5, <3>1
  <2> QED BY <1>3, <2>1, <2>2, <2>3, <2>4
<1>6. Lists(u, G)
  BY <1>3, <1>4, <1>5 DEF Lists
<1> QED BY <1>6 DEF u, G

\* The first event left out.
LEMMA ListsTail ==
  ASSUME NEW s, NEW E, Lists(s, E), s # <<>>
  PROVE  Head(s) \in E /\ Lists(Tail(s), E \ {Head(s)})
<1> DEFINE n == Len(s) - 1
<1>1. /\ s \in Seq(E) /\ Len(s) = n + 1 /\ n \in Nat /\ Head(s) = s[1] /\ DOMAIN s = 1 .. n + 1
      /\ Tail(s) \in Seq(E) /\ Len(Tail(s)) = n /\ DOMAIN Tail(s) = 1 .. n
      /\ \A i \in 1 .. n : Tail(s)[i] = s[i + 1]
  BY DEF Lists
<1> HIDE DEF n
<1> DEFINE t == Tail(s)  F == E \ {Head(s)}
<1>2. 1 \in DOMAIN s /\ \A i \in 1 .. n : i + 1 \in DOMAIN s /\ i + 1 # 1
  BY <1>1
<1>3. Head(s) \in E
  BY <1>1, <1>2 DEF Lists
<1>4. \A i \in 1 .. n : s[i + 1] # s[1] /\ s[i + 1] \in E
  BY <1>1, <1>2 DEF Lists
<1>5. \A i \in 1 .. n : t[i] \in F
  BY <1>1, <1>4
<1>6. t \in Seq(F)
  <2>1. t \in Seq(E) /\ Len(t) = n
    BY <1>1
  <2> HIDE DEF t, F
  <2>2. t \in [1 .. n -> F]
    BY <1>5, <2>1
  <2> QED BY <1>1, <2>2, SeqDef
<1>7. ASSUME NEW e \in F PROVE \E i \in DOMAIN t : t[i] = e
  <2>1. PICK i \in DOMAIN s : s[i] = e
    BY DEF Lists
  <2>2. i # 1
    BY <1>1, <2>1
  <2>3. i - 1 \in 1 .. n /\ (i - 1) + 1 = i
    BY <1>1, <2>2
  <2> QED BY <1>1, <2>1, <2>3
<1>8. F = {t[i] : i \in DOMAIN t}
  BY <1>1, <1>5, <1>7
<1>9. ASSUME NEW i \in DOMAIN t, NEW j \in DOMAIN t, t[i].kind = t[j].kind PROVE i = j
  <2>1. i + 1 = j + 1
    BY <1>1, <1>2, <1>9 DEF Lists
  <2> QED BY <1>1, <2>1
<1> QED BY <1>3, <1>6, <1>8, <1>9 DEF Lists

LEMMA FirstJoined ==
  ASSUME NEW S, NEW s \in Seq(S), NEW t \in Seq(S)
  PROVE  First(s \o t) = IF s # <<>> THEN First(s) ELSE First(t)
<1>1. CASE s = <<>>
  <2>1. s \o t = t
    BY <1>1
  <2> QED BY <1>1, <2>1
<1>2. CASE s # <<>>
  <2>1. Len(s) \in Nat \ {0} /\ Len(t) \in Nat
    BY <1>2
  <2>2. Len(s \o t) = Len(s) + Len(t) /\ (s \o t)[1] = s[1] /\ s \o t \in Seq(S)
    BY <2>1, ConcatProperties
  <2>3. s \o t # <<>> /\ Head(s \o t) = (s \o t)[1] /\ Head(s) = s[1]
    BY <2>1, <2>2
  <2> QED BY <1>2, <2>2, <2>3 DEF First
<1> QED BY <1>1, <1>2

EventSet(cond, e) == IF cond THEN {e} ELSE {}

LEMMA WhenLists ==
  ASSUME NEW cond \in BOOLEAN, NEW e
  PROVE  /\ Lists(When(cond, e), EventSet(cond, e)) /\ First(When(cond, e)) = When(cond, e)
         /\ When(cond, e) # <<>> <=> cond
<1>1. <<e>> # <<>> /\ Head(<<e>>) = e
  OBVIOUS
<1>2. CASE cond
  BY <1>1, <1>2, ListsOne DEF When, EventSet, First
<1>3. CASE ~cond
  BY <1>3, ListsNothing DEF When, EventSet, First
<1> QED BY <1>2, <1>3

\* What a chunk says, part by part.
CallOf(c) == EventSet(c.call # None /\ ~Blank(c.call), Ev("call", c.call))
TextOf(c) == EventSet(c.text # <<>>, Ev("text", c.text))
ThinkOf(c) == EventSet(c.think, Ev("think", None))
UsageOf(c) == EventSet(c.usage, Ev("usage", None))
ReasonOf(c) == EventSet(c.reason # None, Ev("finish", c.reason))

Saying(c) == c.think \in BOOLEAN /\ c.usage \in BOOLEAN

LEMMA EvFields == \A kind, what : Ev(kind, what).kind = kind /\ Ev(kind, what).what = what
BY DEF Ev

LEMMA OfKind ==
  ASSUME NEW c
  PROVE  /\ \A e \in CallOf(c) : e.kind = "call" /\ e.what = c.call
         /\ \A e \in TextOf(c) : e.kind = "text" /\ e.what = c.text
         /\ \A e \in ThinkOf(c) : e.kind = "think"
         /\ \A e \in UsageOf(c) : e.kind = "usage"
         /\ \A e \in ReasonOf(c) : e.kind = "finish" /\ e.what = c.reason
BY DEF CallOf, TextOf, ThinkOf, UsageOf, ReasonOf, EventSet, Ev

LEMMA PartLists ==
  ASSUME NEW c, Saying(c)
  PROVE  /\ Lists(Calls(c), CallOf(c)) /\ Lists(Text(c), TextOf(c)) /\ Lists(Think(c), ThinkOf(c))
         /\ Lists(Usages(c), UsageOf(c)) /\ Lists(Reason(c), ReasonOf(c))
         /\ First(Calls(c)) = Calls(c) /\ First(Text(c)) = Text(c) /\ First(Think(c)) = Think(c)
         /\ (Calls(c) = <<>>) = (CallOf(c) = {}) /\ (Text(c) = <<>>) = (TextOf(c) = {})
<1>1. Calls(c) = When(c.call # None /\ ~Blank(c.call), Ev("call", c.call))
  BY DEF Calls, When
<1>2. \A cond \in BOOLEAN : \A e : (When(cond, e) = <<>>) = (EventSet(cond, e) = {})
  BY DEF When, EventSet
<1>3. /\ (c.call # None /\ ~Blank(c.call)) \in BOOLEAN /\ (c.text # <<>>) \in BOOLEAN
      /\ c.think \in BOOLEAN /\ c.usage \in BOOLEAN /\ (c.reason # None) \in BOOLEAN
  BY DEF Saying
<1>4. /\ Lists(Calls(c), CallOf(c)) /\ First(Calls(c)) = Calls(c)
      /\ (Calls(c) = <<>>) = (CallOf(c) = {})
  <2>1. PICK says \in BOOLEAN : says = (c.call # None /\ ~Blank(c.call))
    BY <1>3
  <2>2. PICK e : e = Ev("call", c.call)
    OBVIOUS
  <2>3. Calls(c) = When(says, e) /\ CallOf(c) = EventSet(says, e)
    BY <1>1, <2>1, <2>2 DEF CallOf
  <2> QED BY <1>2, <2>3, WhenLists
<1>5. /\ Lists(Text(c), TextOf(c)) /\ First(Text(c)) = Text(c)
      /\ (Text(c) = <<>>) = (TextOf(c) = {})
  BY <1>2, <1>3, WhenLists DEF TextOf, Text
<1>6. Lists(Think(c), ThinkOf(c)) /\ First(Think(c)) = Think(c)
  BY <1>3, WhenLists DEF ThinkOf, Think
<1>7. Lists(Usages(c), UsageOf(c)) /\ Lists(Reason(c), ReasonOf(c))
  BY <1>3, WhenLists DEF UsageOf, Usages, ReasonOf, Reason
<1> QED BY <1>4, <1>5, <1>6, <1>7

LEMMA WholeLists ==
  ASSUME NEW c, Saying(c)
  PROVE  /\ Lists(Calls(c) \o Text(c) \o Think(c) \o Usages(c) \o Reason(c),
                  CallOf(c) \union TextOf(c) \union ThinkOf(c) \union UsageOf(c) \union ReasonOf(c))
         /\ Lists(Calls(c) \o Text(c) \o Think(c) \o Reason(c) \o Usages(c),
                  CallOf(c) \union TextOf(c) \union ThinkOf(c) \union ReasonOf(c) \union UsageOf(c))
<1>0. /\ Lists(Calls(c), CallOf(c)) /\ Lists(Text(c), TextOf(c)) /\ Lists(Think(c), ThinkOf(c))
      /\ Lists(Usages(c), UsageOf(c)) /\ Lists(Reason(c), ReasonOf(c))
  BY PartLists
<1> DEFINE a == CallOf(c) \union TextOf(c)
           b == a \union ThinkOf(c)
           p == Calls(c) \o Text(c)
           q == p \o Think(c)
<1>1. Lists(p, a)
  BY <1>0, OfKind, ListsJoined
<1>2. Lists(q, b)
  <2>1. \A e \in a, f \in ThinkOf(c) : e.kind # f.kind
    BY OfKind
  <2> HIDE DEF a, p
  <2> QED BY <1>0, <1>1, <2>1, ListsJoined
<1>3. \A e \in b : e.kind \in {"call", "text", "think"}
  BY OfKind
<1> HIDE DEF b, q
<1>4. Lists(q \o Usages(c), b \union UsageOf(c)) /\ Lists(q \o Reason(c), b \union ReasonOf(c))
  <2>1. \A e \in b : (\A f \in UsageOf(c) : e.kind # f.kind) /\ (\A f \in ReasonOf(c) : e.kind # f.kind)
    BY <1>3, OfKind
  <2> QED BY <1>0, <1>2, <2>1, ListsJoined
<1>5. Lists((q \o Usages(c)) \o Reason(c), (b \union UsageOf(c)) \union ReasonOf(c))
  <2>1. \A e \in b \union UsageOf(c), f \in ReasonOf(c) : e.kind # f.kind
    BY <1>3, OfKind
  <2> QED BY <1>0, <1>4, <2>1, ListsJoined
<1>6. Lists((q \o Reason(c)) \o Usages(c), (b \union ReasonOf(c)) \union UsageOf(c))
  <2>1. \A e \in b \union ReasonOf(c), f \in UsageOf(c) : e.kind # f.kind
    BY <1>3, OfKind
  <2> QED BY <1>0, <1>4, <2>1, ListsJoined
<1> QED BY <1>5, <1>6 DEF a, b, p, q

\* The one event that stands for what an OpenAI chunk says.
Leading(c) ==
  IF CallOf(c) # {} THEN CallOf(c) ELSE IF TextOf(c) # {} THEN TextOf(c) ELSE ThinkOf(c)

LEMMA OpenAILists ==
  ASSUME NEW c, Saying(c)
  PROVE  LET E == Leading(c) \union UsageOf(c) \union ReasonOf(c)
             s == OpenAIEvents(c)
         IN  /\ Lists(s, E)
             /\ Led(s, "call") <=> CallOf(c) # {}
             /\ Led(s, "call") => Head(s) = Ev("call", c.call)
<1> DEFINE first == First(Calls(c) \o Text(c) \o Think(c))
           lead == Leading(c)
           S == CallOf(c) \union TextOf(c) \union ThinkOf(c)
<1>0. /\ Lists(Calls(c), CallOf(c)) /\ Lists(Text(c), TextOf(c)) /\ Lists(Think(c), ThinkOf(c))
      /\ Lists(Usages(c), UsageOf(c)) /\ Lists(Reason(c), ReasonOf(c))
      /\ First(Calls(c)) = Calls(c) /\ First(Text(c)) = Text(c) /\ First(Think(c)) = Think(c)
      /\ (Calls(c) = <<>>) = (CallOf(c) = {}) /\ (Text(c) = <<>>) = (TextOf(c) = {})
  BY PartLists
<1>1. Calls(c) \in Seq(S) /\ Text(c) \in Seq(S) /\ Think(c) \in Seq(S)
  BY <1>0 DEF Lists
<1>2. first = IF Calls(c) # <<>> THEN Calls(c) ELSE IF Text(c) # <<>> THEN Text(c) ELSE Think(c)
  <2>1. Calls(c) \o Text(c) \in Seq(S)
    BY <1>1
  <2>2. first = IF Calls(c) \o Text(c) # <<>> THEN First(Calls(c) \o Text(c)) ELSE First(Think(c))
    BY <1>1, <2>1, FirstJoined
  <2>3. First(Calls(c) \o Text(c)) = IF Calls(c) # <<>> THEN First(Calls(c)) ELSE First(Text(c))
    BY <1>1, FirstJoined
  <2>4. Calls(c) \o Text(c) = <<>> <=> Calls(c) = <<>> /\ Text(c) = <<>>
    BY <1>1
  <2> QED BY <1>0, <2>2, <2>3, <2>4
<1>3. Lists(first, lead)
  BY <1>0, <1>2 DEF Leading
<1>4. \A e \in lead : e.kind \in {"call", "text", "think"} /\ (e.kind = "call" => CallOf(c) # {} /\ e = Ev("call", c.call))
  <2>1. \A e \in CallOf(c) : e = Ev("call", c.call)
    BY DEF CallOf, EventSet
  <2> QED BY <2>1, OfKind DEF Leading
<1>5. CallOf(c) # {} => first # <<>> /\ Head(first) = Ev("call", c.call)
  <2>1. CallOf(c) # {} => Calls(c) = <<Ev("call", c.call)>>
    BY DEF CallOf, EventSet, Calls, When
  <2> QED BY <1>0, <1>2, <2>1
<1> HIDE DEF first, lead
<1> DEFINE u == lead \union UsageOf(c)
           E == u \union ReasonOf(c)
           p == first \o Usages(c)
           s == p \o Reason(c)
<1>6. Lists(p, u)
  <2>1. \A e \in lead, f \in UsageOf(c) : e.kind # f.kind
    BY <1>4, OfKind
  <2> QED BY <1>0, <1>3, <2>1, ListsJoined
<1>7. Lists(s, E)
  <2>1. \A e \in u, f \in ReasonOf(c) : e.kind # f.kind
    BY <1>4, OfKind
  <2> HIDE DEF u, p
  <2> QED BY <1>0, <1>6, <2>1, ListsJoined
<1>8. CallOf(c) # {} => s # <<>> /\ Head(s) = Ev("call", c.call)
  <2>1. first \in Seq(E) /\ Usages(c) \in Seq(E) /\ Reason(c) \in Seq(E)
    BY <1>0, <1>3 DEF Lists
  <2> HIDE DEF E
  <2>2. p \in Seq(E)
    BY <2>1
  <2>3. First(s) = IF p # <<>> THEN First(p) ELSE First(Reason(c))
    BY <2>1, <2>2, FirstJoined
  <2>4. First(p) = IF first # <<>> THEN First(first) ELSE First(Usages(c))
    BY <2>1, FirstJoined
  <2> HIDE DEF s, p
  <2>5. ASSUME CallOf(c) # {} PROVE s # <<>> /\ Head(s) = Ev("call", c.call)
    <3>1. First(first) = <<Ev("call", c.call)>> /\ first # <<>>
      BY <1>5, <2>5 DEF First
    <3>2. First(p) = <<Ev("call", c.call)>> /\ p # <<>>
      BY <2>4, <3>1 DEF First
    <3>3. First(s) = <<Ev("call", c.call)>>
      BY <2>3, <3>2
    <3> QED BY <3>3 DEF First
  <2> QED BY <2>5
<1>9. Led(s, "call") => CallOf(c) # {}
  <2>1. s # <<>> => Head(s) \in E
    <3> HIDE DEF s, E
    <3> QED BY <1>7, ListsTail
  <2>2. ASSUME Led(s, "call") PROVE CallOf(c) # {}
    <3>1. Head(s) \in E /\ Head(s).kind = "call"
      BY <2>1, <2>2 DEF Led
    <3> QED BY <1>4, <3>1, OfKind
  <2> QED BY <2>2
<1>10. CallOf(c) # {} => Led(s, "call")
  BY <1>8, EvFields DEF Led
<1>11. s = OpenAIEvents(c) /\ E = Leading(c) \union UsageOf(c) \union ReasonOf(c)
  BY DEF OpenAIEvents, first, lead
<1> HIDE DEF s, E
<1> QED BY <1>7, <1>8, <1>9, <1>10, <1>11

\* Zen leaves out the call of a tool the client does not have, and mends the reason.
Lost(call) == call.name = "fake" \/ call.index \in told.dropped

Mend(e, any) ==
  IF e.kind = "finish" /\ e.what = "tool_calls" /\ ~any THEN Ev("finish", "stop") ELSE e

KeptOf(c) == EventSet(CallOf(c) # {} /\ ~Lost(c.call), Ev("call", c.call))

LEMMA ListsMended ==
  ASSUME NEW s, NEW E, Lists(s, E), NEW any
  PROVE  Lists([i \in DOMAIN s |-> Mend(s[i], any)], {Mend(e, any) : e \in E})
<1> DEFINE t == [i \in DOMAIN s |-> Mend(s[i], any)]
           F == {Mend(e, any) : e \in E}
<1>1. Len(s) \in Nat /\ DOMAIN s = 1 .. Len(s) /\ \A i \in DOMAIN s : s[i] \in E
  BY DEF Lists
<1>2. \A i \in DOMAIN s : t[i] = Mend(s[i], any) /\ t[i] \in F
  BY <1>1
<1>3. t \in Seq(F) /\ DOMAIN t = DOMAIN s
  <2>1. t \in [1 .. Len(s) -> F]
    BY <1>1
  <2> HIDE DEF F
  <2> QED BY <1>1, <2>1, SeqDef
<1>4. F = {t[i] : i \in DOMAIN t}
  <2>1. ASSUME NEW f \in F PROVE \E i \in DOMAIN t : t[i] = f
    <3>1. PICK e \in E : f = Mend(e, any)
      OBVIOUS
    <3>2. PICK i \in DOMAIN s : s[i] = e
      BY DEF Lists
    <3> QED BY <1>2, <1>3, <3>1, <3>2
  <2> HIDE DEF t, F
  <2> QED BY <1>2, <1>3, <2>1
<1>5. \A i \in DOMAIN s : t[i].kind = s[i].kind
  BY <1>2, EvFields DEF Mend
<1> QED BY <1>3, <1>4, <1>5 DEF Lists

LEMMA FilteredLists ==
  ASSUME NEW c, Saying(c)
  PROVE  LET any == told.opened # {} \/ KeptOf(c) # {}
         IN  Lists(Filtered(c, OpenAIEvents(c)),
                   {Mend(e, any) : e \in (IF CallOf(c) = {} THEN Leading(c) ELSE KeptOf(c))
                                            \union UsageOf(c) \union ReasonOf(c)})
<1> DEFINE all == OpenAIEvents(c)
           E == Leading(c) \union UsageOf(c) \union ReasonOf(c)
           call == Ev("call", c.call)
           drop == Led(all, "call") /\ Lost(Head(all).what)
           kept == IF drop THEN Tail(all) ELSE all
           K == (IF CallOf(c) = {} THEN Leading(c) ELSE KeptOf(c)) \union UsageOf(c) \union ReasonOf(c)
           any == told.opened # {} \/ KeptOf(c) # {}
<1>1. /\ Lists(all, E) /\ (Led(all, "call") <=> CallOf(c) # {})
      /\ (Led(all, "call") => Head(all) = call)
  BY OpenAILists
<1>2. drop <=> CallOf(c) # {} /\ Lost(c.call)
  BY <1>1, EvFields
<1>3. CallOf(c) # {} => Leading(c) = {call} /\ CallOf(c) = {call}
  BY DEF Leading, CallOf, EventSet
<1>4. Lists(kept, K)
  <2>1. CASE ~drop
    <3>1. K = E
      <4>1. CASE CallOf(c) = {}
        BY <4>1
      <4>2. CASE CallOf(c) # {}
        BY <1>2, <1>3, <2>1, <4>2 DEF KeptOf, EventSet
      <4> QED BY <4>1, <4>2
    <3> HIDE DEF drop, K, E
    <3> QED BY <1>1, <2>1, <3>1
  <2>2. CASE drop
    <3>1. CallOf(c) # {} /\ KeptOf(c) = {} /\ Leading(c) = {call} /\ Head(all) = call /\ all # <<>>
      BY <1>1, <1>2, <1>3, <2>2 DEF KeptOf, EventSet, Led
    <3>2. K = E \ {call}
      <4>1. call \notin UsageOf(c) \union ReasonOf(c)
        BY OfKind, EvFields
      <4> HIDE DEF call
      <4> QED BY <3>1, <4>1
    <3>3. Lists(Tail(all), E \ {call})
      <4> HIDE DEF all, E, call
      <4> QED BY <1>1, <3>1, ListsTail
    <3> HIDE DEF drop, K, E, call
    <3> QED BY <2>2, <3>2, <3>3
  <2> QED BY <2>1, <2>2
<1>5. Led(kept, "call") <=> KeptOf(c) # {}
  <2>1. CASE ~drop
    <3>1. Led(kept, "call") <=> CallOf(c) # {}
      BY <1>1, <2>1
    <3> QED BY <1>2, <2>1, <3>1 DEF KeptOf, EventSet
  <2>2. CASE drop
    <3>1. KeptOf(c) = {}
      BY <1>2, <2>2 DEF KeptOf, EventSet
    <3>2. \A e \in K : e.kind # "call"
      BY <1>2, <2>2, <3>1, OfKind
    <3> HIDE DEF kept, K
    <3>3. kept # <<>> => Head(kept) \in K
      BY <1>4, ListsTail
    <3> QED BY <3>1, <3>2, <3>3 DEF Led
  <2> QED BY <2>1, <2>2
<1>6. Filtered(c, all) = [i \in DOMAIN kept |-> Mend(kept[i], any)]
  <2>1. (told.opened # {} \/ Led(kept, "call")) = any
    BY <1>5
  <2> HIDE DEF any
  <2> QED BY <2>1 DEF Filtered, Mend, Lost
<1> HIDE DEF kept, K, any
<1>7. Lists([i \in DOMAIN kept |-> Mend(kept[i], any)], {Mend(e, any) : e \in K})
  BY <1>4, ListsMended
<1> QED BY <1>6, <1>7 DEF K, any

Has(E, kind) == \E e \in E : e.kind = kind

\* What the events of a chunk have to be: whole, and what it says.
Understood(c, E) ==
  /\ \A e \in E : e.kind \in {"call", "text", "think", "usage", "finish"}
  /\ \A e \in E : e.kind = "call" =>
       e.what = c.call /\ c.call # None /\ ~Blank(c.call) /\ (via = "zen" => ~Lost(c.call))
  /\ \A e \in E : e.kind = "finish" =>
       /\ e.what \in {"stop", "tool_calls", "length"}
       /\ e.what = "tool_calls" =>
            c.reason = "tool_calls" /\ (via = "zen" => told.opened # {} \/ Has(E, "call"))
  /\ upstream.full =>
       /\ \A e \in E : e.kind = "text" => e.what = Delta(c.text)
       /\ Has(E, "text") <=> Delta(c.text) # <<>>
  /\ CallOf(c) # {} /\ ~(via = "zen" /\ Lost(c.call)) => Has(E, "call")
  /\ c.text # <<>> /\ ~upstream.full /\ ~(via \in OpenAI /\ CallOf(c) # {}) => Has(E, "text")
  /\ c.think /\ ~(via \in OpenAI /\ (CallOf(c) # {} \/ c.text # <<>>)) => Has(E, "think")
  /\ c.usage => Has(E, "usage")
  /\ c.reason # None => Has(E, "finish")

LEMMA OfPart ==
  ASSUME NEW c
  PROVE  /\ CallOf(c) # {} => CallOf(c) = {Ev("call", c.call)} /\ c.call # None /\ ~Blank(c.call)
         /\ c.text # <<>> => TextOf(c) = {Ev("text", c.text)}
         /\ c.text = <<>> => TextOf(c) = {}
         /\ c.think => ThinkOf(c) = {Ev("think", None)}
         /\ c.usage => UsageOf(c) = {Ev("usage", None)}
         /\ c.reason # None => ReasonOf(c) = {Ev("finish", c.reason)}
         /\ c.reason = None => ReasonOf(c) = {}
BY DEF CallOf, TextOf, ThinkOf, UsageOf, ReasonOf, EventSet

\* A part of the chunk that is among the events.
LEMMA HasPart ==
  ASSUME NEW c, NEW E
  PROVE  /\ CallOf(c) # {} /\ CallOf(c) \subseteq E => Has(E, "call")
         /\ c.text # <<>> /\ TextOf(c) \subseteq E => Has(E, "text")
         /\ c.think /\ ThinkOf(c) \subseteq E => Has(E, "think")
         /\ c.usage /\ UsageOf(c) \subseteq E => Has(E, "usage")
         /\ c.reason # None /\ ReasonOf(c) \subseteq E => Has(E, "finish")
<1>1. \A e, kind : e \in E /\ e.kind = kind => Has(E, kind)
  BY DEF Has
<1> QED BY <1>1, OfPart, EvFields

\* A channel that passes everything on.
LEMMA AllUnderstood ==
  ASSUME NEW c, Saying(c), c.reason \in {None, "stop", "tool_calls", "length"},
         ~upstream.full, via # "zen"
  PROVE  Understood(c, CallOf(c) \union TextOf(c) \union ThinkOf(c) \union UsageOf(c) \union ReasonOf(c))
<1> DEFINE E == CallOf(c) \union TextOf(c) \union ThinkOf(c) \union UsageOf(c) \union ReasonOf(c)
<1>1. /\ CallOf(c) \subseteq E /\ TextOf(c) \subseteq E /\ ThinkOf(c) \subseteq E
      /\ UsageOf(c) \subseteq E /\ ReasonOf(c) \subseteq E
  OBVIOUS
<1>2. \A e \in E : e.kind \in {"call", "text", "think", "usage", "finish"}
  BY OfKind
<1>3. \A e \in E : e.kind = "call" => e.what = c.call /\ c.call # None /\ ~Blank(c.call)
  BY OfKind, OfPart
<1>4. \A e \in E : e.kind = "finish" => e.what = c.reason /\ c.reason # None
  BY OfKind, OfPart
<1> HIDE DEF E
<1>5. Understood(c, E)
  BY <1>1, <1>2, <1>3, <1>4, HasPart DEF Understood
<1> QED BY <1>5 DEF E

LEMMA OpenAIUnderstood ==
  ASSUME NEW c, Saying(c), c.reason \in {None, "stop", "tool_calls", "length"},
         ~upstream.full, via # "zen", via \in OpenAI
  PROVE  Understood(c, Leading(c) \union UsageOf(c) \union ReasonOf(c))
<1> DEFINE E == Leading(c) \union UsageOf(c) \union ReasonOf(c)
<1>1. /\ CallOf(c) \subseteq E /\ UsageOf(c) \subseteq E /\ ReasonOf(c) \subseteq E
      /\ CallOf(c) = {} => TextOf(c) \subseteq E
      /\ CallOf(c) = {} /\ c.text = <<>> => ThinkOf(c) \subseteq E
  BY OfPart DEF Leading
<1>2. \A e \in E : e.kind \in {"call", "text", "think", "usage", "finish"}
  BY OfKind DEF Leading
<1>3. \A e \in E : e.kind = "call" => e.what = c.call /\ c.call # None /\ ~Blank(c.call)
  BY OfKind, OfPart DEF Leading
<1>4. \A e \in E : e.kind = "finish" => e.what = c.reason /\ c.reason # None
  BY OfKind, OfPart DEF Leading
<1> HIDE DEF E
<1>5. Understood(c, E)
  BY <1>1, <1>2, <1>3, <1>4, HasPart DEF Understood
<1> QED BY <1>5 DEF E

LEMMA MendFields ==
  ASSUME NEW e, NEW any
  PROVE  /\ Mend(e, any).kind = e.kind
         /\ e.kind # "finish" => Mend(e, any) = e
         /\ e.kind = "finish" => Mend(e, any).what \in {e.what, "stop"}
         /\ Mend(e, any).what = "tool_calls" /\ e.kind = "finish" => any /\ e.what = "tool_calls"
BY EvFields DEF Mend

LEMMA ZenUnderstood ==
  ASSUME NEW c, Saying(c), c.reason \in {None, "stop", "tool_calls", "length"},
         ~upstream.full, via = "zen"
  PROVE  LET any == told.opened # {} \/ KeptOf(c) # {}
             D == (IF CallOf(c) = {} THEN Leading(c) ELSE KeptOf(c)) \union UsageOf(c) \union ReasonOf(c)
         IN  Understood(c, {Mend(e, any) : e \in D})
<1> DEFINE any == told.opened # {} \/ KeptOf(c) # {}
           D == (IF CallOf(c) = {} THEN Leading(c) ELSE KeptOf(c)) \union UsageOf(c) \union ReasonOf(c)
           E == {Mend(e, any) : e \in D}
<1>1. KeptOf(c) # {} => KeptOf(c) = {Ev("call", c.call)} /\ CallOf(c) # {} /\ ~Lost(c.call)
  BY DEF KeptOf, EventSet
<1>2. CallOf(c) # {} /\ ~Lost(c.call) => KeptOf(c) = CallOf(c)
  BY OfPart DEF KeptOf, EventSet
<1>3. /\ CallOf(c) # {} /\ ~Lost(c.call) => CallOf(c) \subseteq D
      /\ UsageOf(c) \subseteq D /\ ReasonOf(c) \subseteq D
      /\ CallOf(c) = {} => TextOf(c) \subseteq D
      /\ CallOf(c) = {} /\ c.text = <<>> => ThinkOf(c) \subseteq D
  BY <1>2, OfPart DEF Leading
<1>4. \A e \in D : e.kind \in {"call", "text", "think", "usage", "finish"}
  BY <1>1, OfKind, EvFields DEF Leading
<1>5. \A e \in D : e.kind = "call" =>
        e.what = c.call /\ c.call # None /\ ~Blank(c.call) /\ ~Lost(c.call)
  BY <1>1, OfKind, OfPart, EvFields DEF Leading
<1>6. \A e \in D : e.kind = "finish" => e.what = c.reason /\ c.reason # None
  BY <1>1, OfKind, OfPart, EvFields DEF Leading
<1>7. KeptOf(c) # {} => Has(D, "call")
  BY <1>1, EvFields DEF Has
<1> HIDE DEF D
<1>8. \A kind : Has(D, kind) => Has(E, kind)
  BY MendFields DEF Has
<1>9. \A f \in E : \E e \in D : f = Mend(e, any)
  OBVIOUS
<1>10. any => told.opened # {} \/ Has(E, "call")
  BY <1>7, <1>8
<1> HIDE DEF E, any
<1>11. \A f \in E : f.kind \in {"call", "text", "think", "usage", "finish"}
  BY <1>4, <1>9, MendFields
<1>12. \A f \in E : f.kind = "call" =>
         f.what = c.call /\ c.call # None /\ ~Blank(c.call) /\ ~Lost(c.call)
  BY <1>5, <1>9, MendFields
<1>13. \A f \in E : f.kind = "finish" =>
         /\ f.what \in {"stop", "tool_calls", "length"}
         /\ f.what = "tool_calls" => c.reason = "tool_calls" /\ any
  BY <1>6, <1>9, MendFields
<1>14. OpenAI = {"codebuddy", "officeace", "zen", "kilo", "raccoon"}
  BY DEF OpenAI
<1>15. Understood(c, E)
  BY <1>3, <1>8, <1>10, <1>11, <1>12, <1>13, <1>14, HasPart DEF Understood
<1> QED BY <1>15 DEF E, D, any

LEMMA DecodedUnderstood ==
  ASSUME NEW c, Saying(c), c.reason \in {None, "stop", "tool_calls", "length"},
         upstream.full => via = "codearts" /\ c.call = None /\ ~c.think /\ c.reason = None
  PROVE  \E E : Lists(Decoded(c), E) /\ Understood(c, E)
<1>0. OpenAI = {"codebuddy", "officeace", "zen", "kilo", "raccoon"}
  BY DEF OpenAI
<1>1. CASE via = "zen"
  <2>1. Decoded(c) = Filtered(c, OpenAIEvents(c)) /\ ~upstream.full
    BY <1>0, <1>1 DEF Decoded
  <2> QED BY <1>1, <2>1, FilteredLists, ZenUnderstood
<1>2. CASE via \in OpenAI \ {"zen"}
  <2>1. Decoded(c) = OpenAIEvents(c) /\ ~upstream.full /\ via # "zen" /\ via \in OpenAI
    BY <1>0, <1>2 DEF Decoded
  <2> QED BY <2>1, OpenAILists, OpenAIUnderstood
<1>3. CASE via = "codearts" /\ ~upstream.full
  <2>1. Decoded(c) = Calls(c) \o Text(c) \o Think(c) \o Reason(c) \o Usages(c) /\ via # "zen"
    BY <1>0, <1>3 DEF Decoded, CodeArtsEvents
  <2> DEFINE D == CallOf(c) \union TextOf(c) \union ThinkOf(c) \union ReasonOf(c) \union UsageOf(c)
             E == CallOf(c) \union TextOf(c) \union ThinkOf(c) \union UsageOf(c) \union ReasonOf(c)
  <2>2. D = E
    OBVIOUS
  <2>3. Lists(Decoded(c), D)
    BY <2>1, WholeLists
  <2>4. Understood(c, E)
    BY <1>3, <2>1, AllUnderstood
  <2> HIDE DEF D, E
  <2> QED BY <2>2, <2>3, <2>4
<1>4. CASE via = "codearts" /\ upstream.full
  <2> DEFINE new == EventSet(Delta(c.text) # <<>>, Ev("text", Delta(c.text)))
             E == new \union UsageOf(c)
  <2>1. Decoded(c) = When(Delta(c.text) # <<>>, Ev("text", Delta(c.text))) \o Usages(c)
    BY <1>0, <1>4 DEF Decoded, CodeArtsEvents
  <2>2. \A e \in new : e.kind = "text" /\ e.what = Delta(c.text) /\ Delta(c.text) # <<>>
    BY EvFields DEF EventSet
  <2>3. Lists(When(Delta(c.text) # <<>>, Ev("text", Delta(c.text))), new)
    BY WhenLists
  <2>4. Delta(c.text) # <<>> => Has(E, "text")
    BY EvFields DEF EventSet, Has
  <2>5. \A e \in E : e.kind \in {"text", "usage"} /\ (e.kind = "text" => e.what = Delta(c.text) /\ Delta(c.text) # <<>>)
    BY <2>2, OfKind
  <2>6. Lists(Usages(c), UsageOf(c)) /\ UsageOf(c) \subseteq E
    BY PartLists
  <2> HIDE DEF new
  <2>7. Lists(Decoded(c), E)
    BY <2>1, <2>2, <2>3, <2>6, ListsJoined, OfKind
  <2> HIDE DEF E
  <2>8. CallOf(c) = {}
    BY <1>4, OfPart
  <2>9. Understood(c, E)
    BY <1>4, <2>4, <2>5, <2>6, <2>8, HasPart DEF Understood, Has
  <2> QED BY <2>7, <2>9
<1>5. CASE via \notin OpenAI \union {"codearts"}
  <2>1. Decoded(c) = Calls(c) \o Text(c) \o Think(c) \o Usages(c) \o Reason(c) /\ via # "zen"
        /\ ~upstream.full
    BY <1>0, <1>5 DEF Decoded, QoderEvents
  <2> QED BY <2>1, WholeLists, AllUnderstood
<1> QED BY <1>0, <1>1, <1>2, <1>3, <1>4, <1>5

\* What a list says of a kind.
LEMMA ListSays ==
  ASSUME NEW s, NEW E, Lists(s, E)
  PROVE  /\ \A e \in E, f \in E : e.kind = f.kind => e = f
         /\ \A kind : Whats(s, kind) = {e.what : e \in {f \in E : f.kind = kind}}
         /\ \A e \in E : Whats(s, e.kind) = {e.what} /\ What(s, e.kind) = e.what
<1>1. E = {s[i] : i \in DOMAIN s}
  BY DEF Lists
<1>2. \A e \in E, f \in E : e.kind = f.kind => e = f
  BY <1>1 DEF Lists
<1>3. Range(s) = E
  BY <1>1 DEF Range
<1>4. \A kind : Whats(s, kind) = {e.what : e \in {f \in E : f.kind = kind}}
  BY <1>3 DEF Whats
<1>5. ASSUME NEW e \in E PROVE Whats(s, e.kind) = {e.what} /\ What(s, e.kind) = e.what
  <2>1. Whats(s, e.kind) = {e.what}
    BY <1>2, <1>4
  <2> QED BY <2>1 DEF What
<1> QED BY <1>2, <1>4, <1>5

\* The kinds of a list.
LEMMA ListKinds ==
  ASSUME NEW s, NEW E, Lists(s, E)
  PROVE  Range(KindsOf(s)) = {e.kind : e \in E} /\ IsInjective(KindsOf(s))
<1>1. E = {s[i] : i \in DOMAIN s} /\ \A i, j \in DOMAIN s : s[i].kind = s[j].kind => i = j
  BY DEF Lists
<1> QED BY <1>1 DEF KindsOf, Range, IsInjective

\* What is expected of a frame are its parts.
LEMMA ExpectedParts ==
  Saying(said) => \A kind \in Expected :
     \/ kind = "call" /\ CallOf(said) # {} /\ ~Dropped(said.call)
     \/ kind = "text" /\ said.text # <<>> /\ ~Outranked("text") /\ ~upstream.full
     \/ kind = "think" /\ said.think /\ ~Outranked("think")
     \/ kind = "usage" /\ said.usage
     \/ kind = "finish" /\ said.reason # None
<1> SUFFICES ASSUME Saying(said), NEW kind \in Expected
             PROVE  \/ kind = "call" /\ CallOf(said) # {} /\ ~Dropped(said.call)
                    \/ kind = "text" /\ said.text # <<>> /\ ~Outranked("text") /\ ~upstream.full
                    \/ kind = "think" /\ said.think /\ ~Outranked("think")
                    \/ kind = "usage" /\ said.usage
                    \/ kind = "finish" /\ said.reason # None
  OBVIOUS
<1> DEFINE parts == Calls(said) \o Text(said) \o Think(said) \o Usages(said) \o Reason(said)
           E == CallOf(said) \union TextOf(said) \union ThinkOf(said) \union UsageOf(said)
                  \union ReasonOf(said)
<1>1. {parts[i] : i \in DOMAIN parts} = E
  BY WholeLists DEF Lists
<1> HIDE DEF E
<1>2. PICK e \in E : /\ kind = e.kind /\ ~Outranked(e.kind)
                     /\ e.kind = "call" => ~Dropped(e.what)
                     /\ upstream.full => e.kind # "text"
  BY <1>1 DEF Expected
<1>3. \/ CallOf(said) # {} /\ e.kind = "call" /\ e.what = said.call
      \/ said.text # <<>> /\ e.kind = "text"
      \/ said.think /\ e.kind = "think"
      \/ said.usage /\ e.kind = "usage"
      \/ said.reason # None /\ e.kind = "finish"
  BY OfKind, OfPart DEF E, TextOf, ThinkOf, UsageOf, ReasonOf, EventSet
<1> QED BY <1>2, <1>3

\* A text that ends with another, place by place.
EndsOn(s, t) ==
  /\ Len(s) <= Len(t)
  /\ \A i \in 1 .. Len(s) : s[i] = t[Len(t) - Len(s) + i]

LEMMA SuffixEnds ==
  ASSUME NEW s \in Seq(Nat), NEW t \in Seq(Nat)
  PROVE  IsSuffix(s, t) <=> EndsOn(s, t)
<1> DEFINE m == Len(s)  n == Len(t)  r == Reverse(s)  q == Reverse(t)
<1>1. m \in Nat /\ n \in Nat /\ s \in [1 .. m -> Nat] /\ t \in [1 .. n -> Nat]
  OBVIOUS
<1>2. /\ r \in Seq(Nat) /\ Len(r) = m /\ \A i \in 1 .. m : r[i] = s[(m - i) + 1]
      /\ q \in Seq(Nat) /\ Len(q) = n /\ \A i \in 1 .. n : q[i] = t[(n - i) + 1]
  <2>1. r \in [1 .. m -> Nat] /\ q \in [1 .. n -> Nat]
    BY <1>1 DEF Reverse
  <2>2. r \in Seq(Nat) /\ q \in Seq(Nat) /\ Len(r) = m /\ Len(q) = n
    <3> HIDE DEF m, n, r, q
    <3> QED BY <1>1, <2>1, SeqDef
  <2> QED BY <2>2 DEF Reverse
<1> HIDE DEF m, n, r, q
<1>3. IsSuffix(s, t) <=> m <= n /\ SubSeq(r, 1, m) = SubSeq(q, 1, m)
  BY <1>2 DEF IsSuffix, IsPrefix, r, q
<1>4. ASSUME m <= n
      PROVE  (SubSeq(r, 1, m) = SubSeq(q, 1, m)) <=> \A i \in 1 .. m : r[i] = q[i]
  <2>1. /\ SubSeq(r, 1, m) \in Seq(Nat) /\ Len(SubSeq(r, 1, m)) = m
        /\ \A i \in 1 .. m : SubSeq(r, 1, m)[i] = r[i]
    BY <1>1, <1>2
  <2>2. /\ SubSeq(q, 1, m) \in Seq(Nat) /\ Len(SubSeq(q, 1, m)) = m
        /\ \A i \in 1 .. m : SubSeq(q, 1, m)[i] = q[i]
    BY <1>1, <1>2, <1>4
  <2> DEFINE a == SubSeq(r, 1, m)  b == SubSeq(q, 1, m)
  <2> HIDE DEF a, b
  <2>3. (\A i \in 1 .. m : a[i] = b[i]) => a = b
    BY <2>1, <2>2 DEF a, b
  <2>4. a = b => \A i \in 1 .. m : a[i] = b[i]
    OBVIOUS
  <2> QED BY <2>1, <2>2, <2>3, <2>4 DEF a, b
<1>5. ASSUME m <= n, \A i \in 1 .. m : r[i] = q[i], NEW i \in 1 .. m
      PROVE  s[i] = t[n - m + i]
  <2>1. (m - i) + 1 \in 1 .. m /\ (m - i) + 1 \in 1 .. n /\ (m - ((m - i) + 1)) + 1 = i
        /\ (n - ((m - i) + 1)) + 1 = n - m + i
    <3>1. m \in Nat /\ n \in Nat /\ m <= n /\ i \in 1 .. m
      BY <1>1, <1>5
    <3> QED BY ONLY <3>1
  <2>2. r[(m - i) + 1] = s[i] /\ q[(m - i) + 1] = t[n - m + i]
    BY <1>2, <2>1
  <2> QED BY <1>5, <2>1, <2>2
<1>6. ASSUME m <= n, \A i \in 1 .. m : s[i] = t[n - m + i], NEW i \in 1 .. m
      PROVE  r[i] = q[i]
  <2>1. (m - i) + 1 \in 1 .. m /\ i \in 1 .. n /\ n - m + ((m - i) + 1) = (n - i) + 1
    BY <1>1, <1>6
  <2>2. s[(m - i) + 1] = t[n - m + ((m - i) + 1)]
    BY <1>6, <2>1
  <2>3. r[i] = s[(m - i) + 1] /\ q[i] = t[(n - i) + 1]
    BY <1>2, <2>1
  <2>4. t[n - m + ((m - i) + 1)] = t[(n - i) + 1]
    BY <2>1
  <2> QED BY <2>2, <2>3, <2>4
<1>7. EndsOn(s, t) <=> m <= n /\ \A i \in 1 .. m : s[i] = t[n - m + i]
  BY DEF EndsOn, m, n
<1> QED BY <1>3, <1>4, <1>5, <1>6, <1>7

\* A text shown as a whole: what is new of it goes behind what was shown.
LEMMA DeltaEnds ==
  ASSUME NEW t \in Seq(Nat), NEW full \in Seq(Nat), upstream.text \in Seq(Nat),
         EndsOn(upstream.text, t)
  PROVE  Delta(full) \in Seq(Nat) /\ t \o Delta(full) \in Seq(Nat) /\ EndsOn(full, t \o Delta(full))
<1>1. PICK u \in Seq(Nat) : u = upstream.text
  OBVIOUS
<1> DEFINE d == Delta(full)  m == Len(u)  n == Len(t)  k == Len(full)
<1>2. m \in Nat /\ n \in Nat /\ k \in Nat
  OBVIOUS
<1>3. m <= n /\ \A i \in 1 .. m : u[i] = t[n - m + i]
  BY <1>1 DEF EndsOn
<1>4. CASE IsPrefix(u, full)
  <2>1. d = SubSeq(full, m + 1, k)
    BY <1>1, <1>4 DEF Delta
  <2>2. m <= k /\ SubSeq(u, 1, m) = SubSeq(full, 1, m)
    BY <1>4 DEF IsPrefix
  <2>3. \A i \in 1 .. m : u[i] = full[i]
    <3>1. \A i \in 1 .. m : SubSeq(u, 1, m)[i] = u[i] /\ SubSeq(full, 1, m)[i] = full[i]
      BY <1>2, <2>2
    <3> QED BY <2>2, <3>1
  <2>4. d \in Seq(Nat) /\ Len(d) = k - m /\ \A i \in 1 .. k - m : d[i] = full[m + i]
    <3>1. \A i \in m + 1 .. k : i \in 1 .. k /\ full[i] \in Nat
      BY <1>2
    <3> HIDE DEF d, m, k
    <3>2. SubSeq(full, m + 1, k) \in Seq(Nat) /\ Len(SubSeq(full, m + 1, k)) = k - m
          /\ \A i \in 1 .. k - m : SubSeq(full, m + 1, k)[i] = full[m + i]
      <4>1. k = Len(full) /\ full \in Seq(Nat)
        BY DEF k
      <4>2. /\ SubSeq(full, m + 1, k) \in Seq(Nat)
            /\ Len(SubSeq(full, m + 1, k)) = IF m + 1 <= k THEN k - (m + 1) + 1 ELSE 0
            /\ \A i \in 1 .. k - (m + 1) + 1 : SubSeq(full, m + 1, k)[i] = full[(m + 1) + i - 1]
        BY <1>2, <2>2, <3>1, <4>1, SubSeqProperties
      <4>3. (IF m + 1 <= k THEN k - (m + 1) + 1 ELSE 0) = k - m /\ k - (m + 1) + 1 = k - m
        BY <1>2, <2>2
      <4>4. \A i \in 1 .. k - m : (m + 1) + i - 1 = m + i
        BY <1>2
      <4> QED BY <4>2, <4>3, <4>4
    <3> QED BY <2>1, <3>2
  <2> HIDE DEF d, m, n, k
  <2>5. /\ t \o d \in Seq(Nat) /\ Len(t \o d) = n + (k - m)
        /\ \A i \in 1 .. n + (k - m) : (t \o d)[i] = IF i <= n THEN t[i] ELSE d[i - n]
    <3>1. /\ t \o d \in Seq(Nat) /\ Len(t \o d) = Len(t) + Len(d)
          /\ \A i \in 1 .. Len(t) + Len(d) : (t \o d)[i] = IF i <= Len(t) THEN t[i] ELSE d[i - Len(t)]
      BY <2>4, ConcatProperties
    <3>2. Len(t) + Len(d) = n + (k - m) /\ Len(t) = n
      BY <2>4 DEF n
    <3> QED BY <3>1, <3>2
  <2>6. ASSUME NEW i \in 1 .. k PROVE full[i] = (t \o d)[(n + (k - m)) - k + i]
    <3>1. (n + (k - m)) - k + i = n - m + i /\ n - m + i \in 1 .. n + (k - m)
      BY <1>2, <1>3, <2>2
    <3>2. CASE i <= m
      <4>1. i \in 1 .. m /\ n - m + i <= n
        BY <1>2, <3>2
      <4>2. (t \o d)[n - m + i] = t[n - m + i]
        BY <2>5, <3>1, <4>1
      <4> QED BY <1>3, <2>3, <3>1, <4>1, <4>2
    <3>3. CASE ~(i <= m)
      <4>1. ~(n - m + i <= n) /\ (n - m + i) - n = i - m /\ i - m \in 1 .. k - m /\ m + (i - m) = i
        BY <1>2, <2>2, <3>3
      <4>2. (t \o d)[n - m + i] = d[i - m]
        BY <2>5, <3>1, <4>1
      <4>3. d[i - m] = full[i]
        BY <2>4, <4>1
      <4> QED BY <3>1, <4>2, <4>3
    <3> QED BY <3>2, <3>3
  <2>7. k <= n + (k - m)
    BY <1>2, <1>3, <2>2
  <2>8. EndsOn(full, t \o d)
    BY <2>5, <2>6, <2>7 DEF EndsOn, k
  <2> QED BY <2>4, <2>5, <2>8 DEF d
<1>5. CASE ~IsPrefix(u, full)
  <2>1. d = full
    BY <1>1, <1>5 DEF Delta
  <2>2. /\ t \o full \in Seq(Nat) /\ Len(t \o full) = n + k
        /\ \A i \in 1 .. n + k : (t \o full)[i] = IF i <= n THEN t[i] ELSE full[i - n]
    BY ConcatProperties
  <2>3. ASSUME NEW i \in 1 .. k PROVE full[i] = (t \o full)[(n + k) - k + i]
    <3>1. (n + k) - k + i = n + i /\ n + i \in 1 .. n + k /\ ~(n + i <= n) /\ (n + i) - n = i
      BY <1>2
    <3> QED BY <2>2, <3>1
  <2>4. EndsOn(full, t \o full)
    BY <1>2, <2>2, <2>3 DEF EndsOn
  <2> QED BY <2>1, <2>2, <2>4
<1> QED BY <1>4, <1>5

-----------------------------------------------------------------------------
(* The stream of an upstream.                                              *)

AReason == {None, "stop", "tool_calls", "length"}

StreamTypeOK ==
  /\ stage \in {"asked", "open", "over"}
  /\ upstream \in [host : Nat, gated : BOOLEAN, full : BOOLEAN, frames : Nat, begun : SUBSET Index,
                   text : Seq(Nat), reason : AReason]
  /\ told \in [opened : SUBSET Index, dropped : SUBSET Index, text : Seq(Nat), reason : AReason]

\* Which channels show texts as a whole, drop calls, have more than one host.
Habits ==
  /\ upstream.full => via = "codearts"
  /\ via # "qoder" => upstream.host = 1
  /\ via # "zen" => told.dropped = {}
  /\ via = "zen" => told.opened \union told.dropped \subseteq upstream.begun

\* A call that has begun was passed on or dropped.
BegunKnown == stage # "over" => upstream.begun \subseteq told.opened \union told.dropped

NothingYet == stage = "asked" => said = Nothing

StreamInv == StreamTypeOK /\ Habits /\ BegunKnown /\ NothingYet /\ HeardAsSaid

LEMMA StreamInitial == ConversationsInit => StreamInv
<1> SUFFICES ASSUME ConversationsInit PROVE StreamInv
  OBVIOUS
<1>1. /\ stage = "asked" /\ said = Nothing /\ events = <<>>
      /\ told = [opened |-> {}, dropped |-> {}, text |-> <<>>, reason |-> None]
  BY DEF ConversationsInit, StreamsInit
<1>2. PICK full \in BOOLEAN :
        /\ full => via = "codearts"
        /\ upstream = [host |-> IF via = "qoder" THEN Hosts ELSE 1, gated |-> FALSE,
                       full |-> full, frames |-> 0, begun |-> {}, text |-> <<>>, reason |-> None]
  BY DEF ConversationsInit, StreamsInit
<1>3. Hosts \in Nat
  BY StreamConstants
<1>4. StreamTypeOK /\ Habits /\ BegunKnown /\ NothingYet
  BY <1>1, <1>2, <1>3 DEF StreamTypeOK, AReason, Habits, BegunKnown, NothingYet
<1>5. TextShown
  <2>1. EndsOn(<<>>, <<>>) /\ <<>> \in Seq(Nat)
    BY DEF EndsOn
  <2>2. upstream.text = <<>> /\ told.text = <<>>
    BY <1>1, <1>2
  <2> QED BY <2>1, <2>2, SuffixEnds DEF TextShown
<1>6. PartsHeard /\ CallsWhole
  <2>1. None # "tool_calls"
    BY StreamConstants
  <2> QED BY <1>1, <2>1 DEF PartsHeard, CallsWhole
<1> QED BY <1>4, <1>5, <1>6 DEF StreamInv, HeardAsSaid

\* A step after which nothing is heard of a frame that is open.
LEMMA StreamSilent ==
  ASSUME StreamInv, StreamTypeOK', Habits', BegunKnown', NothingYet',
         events' = <<>>, told' = told, upstream'.text = upstream.text,
         said' = Nothing \/ stage' = "over"
  PROVE  StreamInv'
<1>1. PartsHeard'
  <2>1. (said' = Nothing)  \/ stage' # "open"
    OBVIOUS
  <2>2. Nothing' = Nothing
    BY DEF Nothing
  <2> QED BY <2>1, <2>2 DEF PartsHeard
<1>2. CallsWhole'
  BY DEF CallsWhole, StreamInv, HeardAsSaid
<1>3. TextShown'
  BY DEF TextShown, StreamInv, HeardAsSaid
<1> QED BY <1>1, <1>2, <1>3 DEF StreamInv, HeardAsSaid

\* The steps but those in which a frame comes.
LEMMA StreamQuiet ==
  ASSUME StreamInv,
         \/ Connect \/ TurnedDown \/ Murmurs \/ Troubled \/ Garbled
         \/ Breaks \/ Ends \/ Tick \/ TimesOut
  PROVE  StreamInv'
<1> USE DEF AReason
<1>1. CASE Connect
  <2>1. StreamTypeOK' /\ Habits' /\ BegunKnown' /\ NothingYet'
    BY <1>1 DEF StreamInv, StreamTypeOK, Habits, BegunKnown, NothingYet, Connect
  <2>2. said = Nothing
    BY <1>1 DEF StreamInv, NothingYet, Connect
  <2>3. PartsHeard' /\ CallsWhole' /\ TextShown'
    BY <1>1, <2>2 DEF StreamInv, HeardAsSaid, PartsHeard, CallsWhole, TextShown, Connect, Nothing
  <2> QED BY <2>1, <2>3 DEF StreamInv, HeardAsSaid
<1>2. CASE TurnedDown
  <2>1. UNCHANGED <<via, said, events, told>> /\ stage = "asked"
    BY <1>2 DEF TurnedDown
  <2>2. \/ upstream' = [upstream EXCEPT !.gated = TRUE] /\ stage' = stage
        \/ upstream' = upstream /\ stage' = "over"
    BY <1>2 DEF TurnedDown, Judged
  <2>3. said = Nothing
    BY <2>1 DEF StreamInv, NothingYet
  <2>4. StreamTypeOK' /\ Habits' /\ BegunKnown' /\ NothingYet'
    BY <2>1, <2>2, <2>3 DEF StreamInv, StreamTypeOK, Habits, BegunKnown, NothingYet, Nothing
  <2>5. upstream'.text = upstream.text /\ stage' # "open"
    BY <2>1, <2>2 DEF StreamInv, StreamTypeOK
  <2>6. PartsHeard' /\ CallsWhole' /\ TextShown'
    BY <2>1, <2>5 DEF StreamInv, HeardAsSaid, PartsHeard, CallsWhole, TextShown
  <2> QED BY <2>4, <2>6 DEF StreamInv, HeardAsSaid
<1>3. CASE Murmurs
  <2>1. StreamTypeOK' /\ Habits' /\ BegunKnown' /\ NothingYet'
    BY <1>3 DEF StreamInv, StreamTypeOK, Habits, BegunKnown, NothingYet, Murmurs, Nothing
  <2> QED BY <1>3, <2>1, StreamSilent DEF Murmurs
<1>4. CASE Troubled \/ Garbled
  <2>1. /\ stage' = "over" /\ said' = Nothing /\ events' = <<>>
        /\ UNCHANGED <<via, upstream, told>>
    BY <1>4 DEF Troubled, Garbled, Judged
  <2>2. StreamTypeOK' /\ Habits' /\ BegunKnown' /\ NothingYet'
    BY <2>1 DEF StreamInv, StreamTypeOK, Habits, BegunKnown, NothingYet
  <2> QED BY <2>1, <2>2, StreamSilent
<1>5. CASE Breaks
  <2>1. said' = Nothing /\ events' = <<>> /\ UNCHANGED <<via, told>>
    BY <1>5 DEF Breaks
  <2>2. \/ /\ upstream.host > 1
           /\ upstream' = [upstream EXCEPT !.host = @ - 1, !.frames = 0, !.begun = {}, !.reason = None]
           /\ stage' = "asked"
        \/ upstream' = upstream /\ stage' = "over"
    BY <1>5 DEF Breaks, Judged
  <2>3. upstream.host > 1 => via = "qoder"
    BY DEF StreamInv, Habits
  <2>4. StreamTypeOK' /\ upstream'.text = upstream.text /\ Habits' /\ BegunKnown'
    <3>1. CASE upstream' = upstream /\ stage' = "over"
      BY <2>1, <3>1 DEF StreamInv, StreamTypeOK, Habits, BegunKnown
    <3>2. CASE upstream.host > 1 /\ stage' = "asked"
               /\ upstream' = [upstream EXCEPT !.host = @ - 1, !.frames = 0, !.begun = {}, !.reason = None]
      <4>1. upstream.host - 1 \in Nat
        BY <3>2 DEF StreamInv, StreamTypeOK
      <4>2. /\ upstream' \in [host : Nat, gated : BOOLEAN, full : BOOLEAN, frames : Nat,
                              begun : SUBSET Index, text : Seq(Nat), reason : AReason]
            /\ upstream'.text = upstream.text /\ upstream'.full = upstream.full
            /\ upstream'.begun = {}
        BY <3>2, <4>1 DEF StreamInv, StreamTypeOK
      <4> QED BY <2>1, <2>3, <3>2, <4>2 DEF StreamInv, StreamTypeOK, Habits, BegunKnown
    <3> QED BY <2>2, <3>1, <3>2
  <2>5. NothingYet'
    BY <2>1 DEF NothingYet, Nothing
  <2> QED BY <2>1, <2>4, <2>5, StreamSilent
<1>6. CASE Ends
  <2>1. StreamTypeOK' /\ Habits' /\ BegunKnown' /\ NothingYet'
    BY <1>6 DEF StreamInv, StreamTypeOK, Habits, BegunKnown, NothingYet, Ends
  <2> QED BY <1>6, <2>1, StreamSilent DEF Ends
<1>7. CASE Tick
  <2>1. StreamTypeOK' /\ Habits' /\ BegunKnown' /\ NothingYet'
    BY <1>7 DEF StreamInv, StreamTypeOK, Habits, BegunKnown, NothingYet, Tick, Nothing
  <2>2. UNCHANGED <<via, stage, upstream, said, events, told>>
    BY <1>7 DEF Tick
  <2>3. Expected' = Expected
    BY <2>2 DEF Expected, Outranked, Dropped, Calls, Text, Think, Usages, Reason, Blank
  <2>4. PartsHeard'
    BY <2>2, <2>3 DEF StreamInv, HeardAsSaid, PartsHeard, KindsOf, Nothing
  <2>5. CallsWhole' /\ TextShown'
    BY <2>2 DEF StreamInv, HeardAsSaid, CallsWhole, TextShown
  <2> QED BY <2>1, <2>4, <2>5 DEF StreamInv, HeardAsSaid
<1>8. CASE TimesOut
  <2>1. /\ stage' = "over" /\ UNCHANGED <<via, upstream, said, events, told>>
    BY <1>8 DEF TimesOut, Judged
  <2>2. StreamTypeOK' /\ Habits' /\ BegunKnown' /\ NothingYet'
    BY <2>1 DEF StreamInv, StreamTypeOK, Habits, BegunKnown, NothingYet
  <2>3. PartsHeard' /\ CallsWhole' /\ TextShown'
    BY <2>1 DEF StreamInv, HeardAsSaid, PartsHeard, CallsWhole, TextShown
  <2> QED BY <2>2, <2>3 DEF StreamInv, HeardAsSaid
<1> QED BY <1>1, <1>2, <1>3, <1>4, <1>5, <1>6, <1>7, <1>8

\* data:[DONE]: to CodeArts the end, which is a reason of its own.
LEMMA StreamDone ==
  ASSUME StreamInv, Done
  PROVE  StreamInv'
<1> USE DEF AReason
<1> DEFINE end == Ev("finish", "stop")
           es == When(via = "codearts", end)
           E == EventSet(via = "codearts", end)
<1>1. /\ stage = "open" /\ said' = Nothing /\ Passes(es) /\ UNCHANGED <<via, stage>>
      /\ upstream' = [upstream EXCEPT !.frames = MaxFrames + 1]
  BY DEF Done
<1>2. Lists(es, E)
  BY WhenLists
<1>3. \A e \in E : e.kind = "finish" /\ e.what = "stop"
  BY EvFields DEF EventSet
<1> HIDE DEF es, E
<1>4. Whats(es, "call") = {} /\ Whats(es, "text") = {}
  <2>1. \A kind : Whats(es, kind) = {e.what : e \in {f \in E : f.kind = kind}}
    BY <1>2, ListSays
  <2> QED BY <1>3, <2>1
<1>5. Whats(es, "finish") # {} => What(es, "finish") = "stop"
  <2>1. Whats(es, "finish") = {e.what : e \in {f \in E : f.kind = "finish"}}
    BY <1>2, ListSays
  <2>2. Whats(es, "finish") \subseteq {"stop"}
    BY <1>3, <2>1
  <2> QED BY <2>2 DEF What
<1>6. /\ told'.opened = told.opened /\ told'.dropped = told.dropped /\ told'.text = told.text
      /\ told'.reason \in {told.reason, "stop"}
      /\ told' \in [opened : SUBSET Index, dropped : SUBSET Index, text : Seq(Nat), reason : AReason]
  <2>1. said'.call = None
    BY <1>1 DEF Nothing
  <2>2. told' = [told EXCEPT
          !.opened = @ \union {f.index : f \in {g \in Whats(es, "call") : g.name = "own"}},
          !.text = IF upstream.full /\ Whats(es, "text") # {} THEN @ \o What(es, "text") ELSE @,
          !.reason = IF Whats(es, "finish") = {} THEN @ ELSE What(es, "finish"),
          !.dropped = IF said'.call # None /\ said'.call.name = "fake"
                      THEN @ \union {said'.call.index} ELSE @]
    BY <1>1 DEF Passes
  <2>3. {f.index : f \in {g \in Whats(es, "call") : g.name = "own"}} = {}
    BY <1>4
  <2>4. told' = [told EXCEPT !.opened = told.opened \union {}, !.text = told.text,
                   !.reason = IF Whats(es, "finish") = {} THEN told.reason ELSE What(es, "finish"),
                   !.dropped = told.dropped]
    BY <1>4, <2>1, <2>2, <2>3
  <2>5. told \in [opened : SUBSET Index, dropped : SUBSET Index, text : Seq(Nat), reason : AReason]
    BY DEF StreamInv, StreamTypeOK
  <2> QED BY <1>5, <2>4, <2>5
<1>7. /\ upstream' \in [host : Nat, gated : BOOLEAN, full : BOOLEAN, frames : Nat,
                        begun : SUBSET Index, text : Seq(Nat), reason : AReason]
      /\ upstream'.full = upstream.full /\ upstream'.host = upstream.host
      /\ upstream'.begun = upstream.begun /\ upstream'.text = upstream.text
  <2>1. MaxFrames + 1 \in Nat
    BY StreamConstants
  <2> QED BY <1>1, <2>1 DEF StreamInv, StreamTypeOK
<1>8. StreamTypeOK' /\ Habits' /\ BegunKnown' /\ NothingYet'
  <2>1. StreamTypeOK'
    BY <1>1, <1>6, <1>7 DEF StreamInv, StreamTypeOK
  <2> QED BY <1>1, <1>6, <1>7, <2>1 DEF StreamInv, Habits, BegunKnown, NothingYet, Nothing
<1>9. PartsHeard'
  BY <1>1 DEF PartsHeard, Nothing
<1>10. CallsWhole'
  <2>1. events' = es
    BY <1>1 DEF Passes
  <2>2. \A i \in DOMAIN es : es[i].kind # "call"
    <3>1. \A i \in DOMAIN es : es[i] \in E
      BY <1>2 DEF Lists
    <3> QED BY <1>3, <3>1
  <2>3. "stop" # "tool_calls"
    OBVIOUS
  <2> QED BY <1>6, <2>1, <2>2, <2>3 DEF CallsWhole, StreamInv, HeardAsSaid
<1>11. TextShown'
  BY <1>6, <1>7 DEF TextShown, StreamInv, HeardAsSaid
<1> QED BY <1>8, <1>9, <1>10, <1>11 DEF StreamInv, HeardAsSaid

\* What a frame may be.
LEMMA ChunkFacts ==
  ASSUME NEW c \in Chunk, StreamInv
  PROVE  /\ Saying(c) /\ c.reason \in AReason /\ c.text \in Seq(Nat) /\ c # Nothing
         /\ upstream.full => via = "codearts" /\ c.call = None /\ ~c.think /\ c.reason = None
         /\ c.other => via = "raccoon"
         /\ c.call # None => /\ c.call.index \in Index
                             /\ c.call.name \in Names <=> c.call.index \notin upstream.begun
                             /\ c.call.name \in {"own", "fake", "more", "blank"}
                             /\ c.call.name = "fake" => via = "zen"
         /\ c.reason = "tool_calls" => upstream.begun # {} \/ c.call # None
<1>1. /\ c \in [call : Fragment, text : Texts, think : BOOLEAN, usage : BOOLEAN,
                reason : {None, "stop", "tool_calls", "length"}, other : BOOLEAN]
      /\ c # Nothing /\ Frame1(c)
  BY DEF Chunk
<1>2. Texts \subseteq Seq(Nat)
  <2>1. <<>> \in Seq(Nat) /\ <<1>> \in Seq(Nat) /\ <<2>> \in Seq(Nat) /\ <<1, 2>> \in Seq(Nat)
        /\ <<2, 2>> \in Seq(Nat)
    OBVIOUS
  <2> QED BY <2>1 DEF Texts
<1>3. c.call \in Fragment /\ c.text \in Seq(Nat) /\ c.think \in BOOLEAN /\ c.usage \in BOOLEAN
      /\ c.reason \in AReason
  BY <1>1, <1>2 DEF AReason
<1>4. /\ upstream.full => c.call = None /\ ~c.think /\ c.reason = None
      /\ c.other => via = "raccoon"
      /\ c.reason = "tool_calls" => upstream.begun # {} \/ c.call # None
  BY <1>1 DEF Frame1
<1>5. upstream.full => via = "codearts"
  BY DEF StreamInv, Habits
<1>6. ASSUME c.call # None
      PROVE  /\ c.call.index \in Index
             /\ c.call.name \in Names <=> c.call.index \notin upstream.begun
             /\ c.call.name \in {"own", "fake", "more", "blank"}
             /\ c.call.name = "fake" => via = "zen"
  <2>1. /\ c.call \in [index : Index, name : Names \union {"more", "blank"}]
        /\ c.call.name \in Names <=> c.call.index \notin upstream.begun
    BY <1>3, <1>6 DEF Fragment
  <2>2. Names \subseteq {"own", "fake"} /\ ("fake" \in Names => via = "zen")
    BY DEF Names
  <2> QED BY <2>1, <2>2
<1> QED BY <1>1, <1>3, <1>4, <1>5, <1>6 DEF Saying

\* What is known after a frame: the events are a list of what the frame says.
LEMMA FramePassed ==
  ASSUME NEW c \in Chunk, NEW es, NEW E, StreamInv, said' = c, Passes(es), Lists(es, E),
         Understood(c, E)
  PROVE  /\ told' \in [opened : SUBSET Index, dropped : SUBSET Index, text : Seq(Nat), reason : AReason]
         /\ told'.opened = told.opened \union
              (IF Has(E, "call") /\ c.call.name = "own" THEN {c.call.index} ELSE {})
         /\ told'.dropped = told.dropped \union
              (IF c.call # None /\ c.call.name = "fake" THEN {c.call.index} ELSE {})
         /\ told'.text = IF upstream.full /\ Has(E, "text") THEN told.text \o Delta(c.text)
                         ELSE told.text
         /\ told'.reason = told.reason \/ \E e \in E : e.kind = "finish" /\ told'.reason = e.what
<1> USE DEF AReason
<1>1. told' = [told EXCEPT
        !.opened = @ \union {f.index : f \in {g \in Whats(es, "call") : g.name = "own"}},
        !.text = IF upstream.full /\ Whats(es, "text") # {} THEN @ \o What(es, "text") ELSE @,
        !.reason = IF Whats(es, "finish") = {} THEN @ ELSE What(es, "finish"),
        !.dropped = IF said'.call # None /\ said'.call.name = "fake"
                    THEN @ \union {said'.call.index} ELSE @]
  BY DEF Passes
<1>2. told \in [opened : SUBSET Index, dropped : SUBSET Index, text : Seq(Nat), reason : AReason]
  BY DEF StreamInv, StreamTypeOK
<1>3. /\ \A kind : (Whats(es, kind) # {}) <=> Has(E, kind)
      /\ \A e \in E : Whats(es, e.kind) = {e.what} /\ What(es, e.kind) = e.what
  BY ListSays DEF Has
<1>4. PICK begin : begin = IF Has(E, "call") /\ c.call.name = "own" THEN {c.call.index} ELSE {}
  OBVIOUS
<1>5. {f.index : f \in {g \in Whats(es, "call") : g.name = "own"}} = begin
  <2>1. CASE ~Has(E, "call")
    <3>1. Whats(es, "call") = {}
      BY <1>3, <2>1
    <3> QED BY <1>4, <2>1, <3>1
  <2>2. CASE Has(E, "call")
    <3>1. PICK e \in E : e.kind = "call"
      BY <2>2 DEF Has
    <3>2. Whats(es, "call") = {c.call}
      BY <1>3, <3>1 DEF Understood
    <3> QED BY <1>4, <2>2, <3>2
  <2> QED BY <2>1, <2>2
<1>6. begin \subseteq Index
  <2>1. Has(E, "call") => c.call # None
    BY DEF Has, Understood
  <2> QED BY <1>4, <2>1, ChunkFacts
<1>7. PICK text : text = IF upstream.full /\ Whats(es, "text") # {} THEN told.text \o What(es, "text")
                         ELSE told.text
  OBVIOUS
<1>8. /\ text = IF upstream.full /\ Has(E, "text") THEN told.text \o Delta(c.text) ELSE told.text
      /\ text \in Seq(Nat)
  <2>1. CASE ~(upstream.full /\ Has(E, "text"))
    <3>1. text = told.text
      BY <1>3, <1>7, <2>1
    <3> QED BY <1>2, <2>1, <3>1
  <2>2. CASE upstream.full /\ Has(E, "text")
    <3>1. PICK e \in E : e.kind = "text"
      BY <2>2 DEF Has
    <3>2. What(es, "text") = Delta(c.text)
      BY <1>3, <2>2, <3>1 DEF Understood
    <3>3. upstream.text \in Seq(Nat) /\ told.text \in Seq(Nat)
      BY DEF StreamInv, StreamTypeOK
    <3>4. EndsOn(upstream.text, told.text)
      BY <3>3, SuffixEnds DEF StreamInv, HeardAsSaid, TextShown
    <3>5. told.text \o Delta(c.text) \in Seq(Nat)
      BY <3>3, <3>4, ChunkFacts, DeltaEnds
    <3> QED BY <1>3, <1>7, <2>2, <3>2, <3>5
  <2> QED BY <2>1, <2>2
<1>9. PICK reason : reason = IF Whats(es, "finish") = {} THEN told.reason ELSE What(es, "finish")
  OBVIOUS
<1>10. /\ reason = told.reason \/ \E e \in E : e.kind = "finish" /\ reason = e.what
       /\ reason \in AReason
  <2>1. CASE ~Has(E, "finish")
    <3>1. reason = told.reason
      BY <1>3, <1>9, <2>1
    <3> QED BY <1>2, <3>1
  <2>2. CASE Has(E, "finish")
    <3>1. PICK e \in E : e.kind = "finish"
      BY <2>2 DEF Has
    <3>2. reason = e.what
      BY <1>3, <1>9, <2>2, <3>1
    <3>3. e.what \in AReason
      BY <3>1 DEF Understood
    <3> QED BY <3>1, <3>2, <3>3
  <2> QED BY <2>1, <2>2
<1>11. PICK unsaid : unsaid = IF c.call # None /\ c.call.name = "fake" THEN {c.call.index} ELSE {}
  OBVIOUS
<1>12. unsaid \subseteq Index
  BY <1>11, ChunkFacts
<1>13. told' = [told EXCEPT !.opened = told.opened \union begin, !.text = text, !.reason = reason,
                            !.dropped = told.dropped \union unsaid]
  <2>1. (IF said'.call # None /\ said'.call.name = "fake" THEN told.dropped \union {said'.call.index}
         ELSE told.dropped) = told.dropped \union unsaid
    BY <1>11
  <2> QED BY <1>1, <1>5, <1>7, <1>9, <2>1
<1>14. /\ told'.opened = told.opened \union begin /\ told'.dropped = told.dropped \union unsaid
       /\ told'.text = text /\ told'.reason = reason
       /\ told' \in [opened : SUBSET Index, dropped : SUBSET Index, text : Seq(Nat), reason : AReason]
  BY <1>2, <1>6, <1>8, <1>10, <1>12, <1>13
<1> QED BY <1>4, <1>8, <1>10, <1>11, <1>14

\* What a frame does to the calls: one that begins is passed on or dropped.
LEMMA FrameCalls ==
  ASSUME NEW c \in Chunk, NEW E, StreamInv, stage = "open", Understood(c, E),
         told'.opened = told.opened \union
              (IF Has(E, "call") /\ c.call.name = "own" THEN {c.call.index} ELSE {}),
         told'.dropped = told.dropped \union
              (IF c.call # None /\ c.call.name = "fake" THEN {c.call.index} ELSE {})
  PROVE  /\ (IF c.call = None \/ c.call.name \notin Names THEN upstream.begun
             ELSE upstream.begun \union {c.call.index}) \subseteq told'.opened \union told'.dropped
         /\ via = "zen" => told'.opened \union told'.dropped \subseteq
              (IF c.call = None \/ c.call.name \notin Names THEN upstream.begun
               ELSE upstream.begun \union {c.call.index})
         /\ via # "zen" => told'.dropped = {}
         /\ told'.opened \intersect told'.dropped = {}
         /\ \A e \in E : e.kind = "call" => e.what.index \in told'.opened
         /\ c.call # None /\ upstream.begun = {} => told'.opened # {} \/ via = "zen"
<1> DEFINE started == IF c.call = None \/ c.call.name \notin Names THEN upstream.begun
                    ELSE upstream.begun \union {c.call.index}
<1>1. /\ upstream.begun \subseteq told.opened \union told.dropped
      /\ via # "zen" => told.dropped = {}
      /\ via = "zen" => told.opened \union told.dropped \subseteq upstream.begun
      /\ told.opened \intersect told.dropped = {}
  BY DEF StreamInv, Habits, BegunKnown, HeardAsSaid, CallsWhole
<1>2. Has(E, "call") => c.call # None /\ ~Blank(c.call) /\ ~(via = "zen" /\ Lost(c.call))
  BY DEF Has, Understood
<1>3. "own" \in Names /\ "more" \notin Names /\ "blank" \notin Names
      /\ ("fake" \in Names <=> via = "zen")
  BY DEF Names
<1>4. CASE c.call = None
  <2>1. told'.opened = told.opened /\ told'.dropped = told.dropped /\ started = upstream.begun
    BY <1>2, <1>4
  <2>2. \A e \in E : e.kind # "call"
    BY <1>2, <1>4 DEF Has
  <2> QED BY <1>1, <1>4, <2>1, <2>2
<1>5. CASE c.call # None /\ c.call.name = "own"
  <2>1. c.call.index \notin upstream.begun /\ started = upstream.begun \union {c.call.index}
    BY <1>3, <1>5, ChunkFacts
  <2>2. ~(via = "zen" /\ Lost(c.call))
    BY <1>1, <1>5, <2>1 DEF Lost
  <2>3. CallOf(c) # {}
    BY <1>5 DEF CallOf, EventSet, Blank
  <2>4. Has(E, "call")
    BY <2>2, <2>3 DEF Understood
  <2>5. /\ told'.opened = told.opened \union {c.call.index} /\ told'.dropped = told.dropped
        /\ via = "zen" => c.call.index \notin told.dropped
    BY <1>1, <1>5, <2>1, <2>4
  <2>6. \A e \in E : e.kind = "call" => e.what = c.call
    BY DEF Understood
  <2> QED BY <1>1, <2>1, <2>5, <2>6
<1>6. CASE c.call # None /\ c.call.name = "fake"
  <2>1. via = "zen" /\ c.call.index \notin upstream.begun
        /\ started = upstream.begun \union {c.call.index}
    BY <1>3, <1>6, ChunkFacts
  <2>2. Lost(c.call)
    BY <1>6 DEF Lost
  <2>3. ~Has(E, "call")
    BY <1>2, <2>1, <2>2
  <2>4. told'.opened = told.opened /\ told'.dropped = told.dropped \union {c.call.index}
    BY <1>6, <2>3
  <2>5. \A e \in E : e.kind # "call"
    BY <2>3 DEF Has
  <2> QED BY <1>1, <2>1, <2>4, <2>5
<1>7. CASE c.call # None /\ c.call.name \notin {"own", "fake"}
  <2>1. /\ c.call.index \in upstream.begun /\ started = upstream.begun
        /\ told'.opened = told.opened /\ told'.dropped = told.dropped
    BY <1>3, <1>7, ChunkFacts
  <2>2. ASSUME NEW e \in E, e.kind = "call" PROVE e.what.index \in told'.opened
    <3>1. e.what = c.call /\ (via = "zen" => ~Lost(c.call))
      BY <2>2 DEF Understood
    <3>2. c.call.index \notin told.dropped
      BY <1>1, <3>1 DEF Lost
    <3> QED BY <1>1, <2>1, <3>1, <3>2
  <2> QED BY <1>1, <2>1, <2>2
<1> QED BY <1>4, <1>5, <1>6, <1>7

LEMMA SaidExpected ==
  (Saying(said) => \A kind \in Expected :
     \/ kind = "call" /\ CallOf(said) # {} /\ ~Dropped(said.call)
     \/ kind = "text" /\ said.text # <<>> /\ ~Outranked("text") /\ ~upstream.full
     \/ kind = "think" /\ said.think /\ ~Outranked("think")
     \/ kind = "usage" /\ said.usage
     \/ kind = "finish" /\ said.reason # None)'
BY ExpectedParts, PTL

\* A frame that is passed on.
LEMMA StreamPassed ==
  ASSUME NEW c \in Chunk, StreamInv, stage = "open", said' = c, Passes(Decoded(c)),
         UNCHANGED <<via, stage>>,
         upstream' = [upstream EXCEPT
            !.frames = @ + 1,
            !.begun = IF c.call = None \/ c.call.name \notin Names THEN @
                      ELSE @ \union {c.call.index},
            !.text = IF upstream.full THEN c.text ELSE @,
            !.reason = IF c.reason = None THEN @ ELSE c.reason]
  PROVE  StreamInv'
<1> USE DEF AReason
<1>0. /\ Saying(c) /\ c.reason \in AReason /\ c.text \in Seq(Nat) /\ c # Nothing
      /\ upstream.full => via = "codearts" /\ c.call = None /\ ~c.think /\ c.reason = None
  BY ChunkFacts
<1>1. PICK E : Lists(Decoded(c), E) /\ Understood(c, E)
  BY <1>0, DecodedUnderstood
<1>2. PICK es : es = Decoded(c)
  OBVIOUS
<1>3. /\ told' \in [opened : SUBSET Index, dropped : SUBSET Index, text : Seq(Nat), reason : AReason]
      /\ told'.opened = told.opened \union
           (IF Has(E, "call") /\ c.call.name = "own" THEN {c.call.index} ELSE {})
      /\ told'.dropped = told.dropped \union
           (IF c.call # None /\ c.call.name = "fake" THEN {c.call.index} ELSE {})
      /\ told'.text = IF upstream.full /\ Has(E, "text") THEN told.text \o Delta(c.text)
                      ELSE told.text
      /\ told'.reason = told.reason \/ \E e \in E : e.kind = "finish" /\ told'.reason = e.what
  BY <1>1, <1>2, FramePassed
<1>4. PICK started : started = IF c.call = None \/ c.call.name \notin Names THEN upstream.begun
                           ELSE upstream.begun \union {c.call.index}
  OBVIOUS
<1>5. /\ started \subseteq told'.opened \union told'.dropped
      /\ via = "zen" => told'.opened \union told'.dropped \subseteq started
      /\ via # "zen" => told'.dropped = {}
      /\ told'.opened \intersect told'.dropped = {}
      /\ \A e \in E : e.kind = "call" => e.what.index \in told'.opened
      /\ c.call # None /\ upstream.begun = {} => told'.opened # {} \/ via = "zen"
  BY <1>1, <1>3, <1>4, FrameCalls
<1>6. /\ upstream' \in [host : Nat, gated : BOOLEAN, full : BOOLEAN, frames : Nat,
                        begun : SUBSET Index, text : Seq(Nat), reason : AReason]
      /\ upstream'.full = upstream.full /\ upstream'.host = upstream.host
      /\ upstream'.begun = started
      /\ upstream'.text = IF upstream.full THEN c.text ELSE upstream.text
  <2>1. started \subseteq Index
    BY <1>4, ChunkFacts DEF StreamInv, StreamTypeOK
  <2>2. PICK words \in Seq(Nat) : words = IF upstream.full THEN c.text ELSE upstream.text
    BY <1>0 DEF StreamInv, StreamTypeOK
  <2>3. PICK why \in AReason : why = IF c.reason = None THEN upstream.reason ELSE c.reason
    BY <1>0 DEF StreamInv, StreamTypeOK
  <2>4. upstream' = [upstream EXCEPT !.frames = @ + 1, !.begun = started, !.text = words, !.reason = why]
    BY <1>4, <2>2, <2>3
  <2>5. upstream \in [host : Nat, gated : BOOLEAN, full : BOOLEAN, frames : Nat,
                      begun : SUBSET Index, text : Seq(Nat), reason : AReason]
    BY DEF StreamInv, StreamTypeOK
  <2>6. upstream.frames + 1 \in Nat
    BY <2>5
  <2> HIDE DEF AReason
  <2> QED BY <2>1, <2>2, <2>4, <2>5, <2>6
<1>7. StreamTypeOK' /\ Habits' /\ BegunKnown' /\ NothingYet'
  <2>1. StreamTypeOK'
    BY <1>3, <1>6 DEF StreamInv, StreamTypeOK
  <2>2. Habits'
    BY <1>5, <1>6 DEF StreamInv, Habits
  <2>3. BegunKnown' /\ NothingYet'
    BY <1>5, <1>6 DEF BegunKnown, NothingYet
  <2> QED BY <2>1, <2>2, <2>3
<1>8. events' = es
  BY <1>2 DEF Passes
<1>9. PartsHeard'
  <2>1. Range(KindsOf(es)) = {e.kind : e \in E} /\ IsInjective(KindsOf(es))
    BY <1>1, <1>2, ListKinds
  <2>2. \A kind : (kind \in Range(KindsOf(es))) <=> Has(E, kind)
    BY <2>1 DEF Has
  <2>3. Range(KindsOf(es)) \subseteq {"call", "text", "think", "usage", "finish"}
    BY <1>1, <2>1 DEF Understood
  <2>4. Range(KindsOf(events))' = Range(KindsOf(es)) /\ IsInjective(KindsOf(events))'
    BY <1>8, <2>1 DEF Range, KindsOf, IsInjective
  <2>5. ASSUME NEW kind \in Expected' PROVE Has(E, kind)
    <3>1. Saying(said)'
      BY <1>0 DEF Saying
    <3>2. /\ CallOf(said)' = CallOf(c) /\ said'.call = c.call
          /\ Calls(said)' = <<>> <=> CallOf(c) = {}
      <4>1. CallOf(said)' = CallOf(c) /\ Calls(said)' = Calls(c)
        BY DEF CallOf, Calls, Blank, EventSet, When, Ev
      <4>2. (Calls(c) = <<>>) = (CallOf(c) = {})
        BY <1>0, PartLists
      <4> QED BY <4>1, <4>2
    <3>3. Dropped(said.call)' <=> via = "zen" /\ c.call.index \in told'.dropped
      BY DEF Dropped
    <3>4. /\ Outranked("text")' <=> via \in OpenAI /\ CallOf(c) # {}
          /\ Outranked("think")' <=> via \in OpenAI /\ (CallOf(c) # {} \/ c.text # <<>>)
      <4>1. OpenAI' = OpenAI
        BY DEF OpenAI
      <4> QED BY <3>2, <4>1 DEF Outranked
    <3>5. CASE kind = "call" /\ CallOf(c) # {} /\ ~Dropped(said.call)'
      <4>1. c.call # None
        BY <3>5, OfPart
      <4>2. ~(via = "zen" /\ Lost(c.call))
        BY <1>3, <3>3, <3>5, <4>1 DEF Lost
      <4> QED BY <1>1, <3>5, <4>2 DEF Understood
    <3>6. CASE kind = "text" /\ c.text # <<>> /\ ~Outranked("text")' /\ ~upstream.full
      BY <1>1, <3>4, <3>6 DEF Understood
    <3>7. CASE kind = "think" /\ c.think /\ ~Outranked("think")'
      BY <1>1, <3>4, <3>7 DEF Understood
    <3>8. CASE (kind = "usage" /\ c.usage) \/ (kind = "finish" /\ c.reason # None)
      BY <1>1, <3>8 DEF Understood
    <3>9. \/ kind = "call" /\ CallOf(c) # {} /\ ~Dropped(said.call)'
          \/ kind = "text" /\ c.text # <<>> /\ ~Outranked("text")' /\ ~upstream.full
          \/ kind = "think" /\ c.think /\ ~Outranked("think")'
          \/ kind = "usage" /\ c.usage
          \/ kind = "finish" /\ c.reason # None
      <4>1. \/ kind = "call" /\ CallOf(said)' # {} /\ ~Dropped(said.call)'
            \/ kind = "text" /\ said'.text # <<>> /\ ~Outranked("text")' /\ ~upstream'.full
            \/ kind = "think" /\ said'.think /\ ~Outranked("think")'
            \/ kind = "usage" /\ said'.usage
            \/ kind = "finish" /\ said'.reason # None
        BY <2>5, <3>1, SaidExpected
      <4> QED BY <1>6, <3>2, <4>1
    <3> QED BY <3>5, <3>6, <3>7, <3>8, <3>9
  <2> QED BY <2>2, <2>3, <2>4, <2>5 DEF PartsHeard
<1>10. CallsWhole'
  <2>1. \A i \in DOMAIN es : es[i].kind = "call" => es[i].what.index \in told'.opened
    <3>1. \A i \in DOMAIN es : es[i] \in E
      BY <1>1, <1>2 DEF Lists
    <3> QED BY <1>5, <3>1
  <2>2. told'.reason = "tool_calls" => told'.opened # {}
    <3>1. CASE told'.reason = told.reason
      BY <1>3, <3>1 DEF StreamInv, HeardAsSaid, CallsWhole
    <3>2. ASSUME NEW e \in E, e.kind = "finish", e.what = "tool_calls"
          PROVE  told'.opened # {}
      <4>1. c.reason = "tool_calls" /\ (via = "zen" => told.opened # {} \/ Has(E, "call"))
        BY <1>1, <3>2 DEF Understood
      <4>2. CASE via = "zen"
        <5>1. Has(E, "call") => told'.opened # {}
          BY <1>5 DEF Has
        <5> QED BY <1>3, <4>1, <4>2, <5>1
      <4>3. CASE via # "zen"
        <5>1. upstream.begun # {} \/ c.call # None
          BY <4>1, ChunkFacts
        <5>2. upstream.begun # {} => told.opened # {}
          BY <4>3 DEF StreamInv, Habits, BegunKnown
        <5> QED BY <1>3, <1>5, <4>3, <5>1, <5>2
      <4> QED BY <4>2, <4>3
    <3> QED BY <1>3, <3>1, <3>2
  <2> QED BY <1>5, <1>8, <2>1, <2>2 DEF CallsWhole
<1>11. TextShown'
  <2>0. upstream.text \in Seq(Nat) /\ told.text \in Seq(Nat)
    BY DEF StreamInv, StreamTypeOK
  <2>1. CASE ~upstream.full
    BY <1>3, <1>6, <2>1 DEF TextShown, StreamInv, HeardAsSaid
  <2>2. CASE upstream.full
    <3>1. EndsOn(upstream.text, told.text)
      BY <2>0, SuffixEnds DEF StreamInv, HeardAsSaid, TextShown
    <3>2. /\ Delta(c.text) \in Seq(Nat) /\ told.text \o Delta(c.text) \in Seq(Nat)
          /\ EndsOn(c.text, told.text \o Delta(c.text))
      BY <1>0, <2>0, <3>1, DeltaEnds
    <3>3. told'.text = told.text \o Delta(c.text)
      <4>1. Has(E, "text") <=> Delta(c.text) # <<>>
        BY <1>1, <2>2 DEF Understood
      <4>2. told.text \o <<>> = told.text
        BY <2>0
      <4> QED BY <1>3, <2>2, <4>1, <4>2
    <3>4. IsSuffix(c.text, told.text \o Delta(c.text))
      BY <1>0, <3>2, SuffixEnds
    <3>5. IsSuffix(upstream'.text, told'.text)
      BY <1>6, <2>2, <3>3, <3>4
    <3> QED BY <3>5 DEF TextShown
  <2> QED BY <2>1, <2>2
<1> QED BY <1>7, <1>9, <1>10, <1>11 DEF StreamInv, HeardAsSaid

LEMMA StreamSpeaksOut ==
  ASSUME StreamInv, Speaks
  PROVE  StreamInv'
<1>1. PICK c \in Chunk :
        /\ said' = c
        /\ upstream' = [upstream EXCEPT
             !.frames = @ + 1,
             !.begun = IF c.call = None \/ c.call.name \notin Names THEN @
                       ELSE @ \union {c.call.index},
             !.text = IF upstream.full THEN c.text ELSE @,
             !.reason = IF c.reason = None THEN @ ELSE c.reason]
        /\ \/ /\ c.other /\ events' = <<>> /\ UNCHANGED told
              /\ Judged("swapped", None, None, None)
           \/ Passes(Decoded(c)) /\ UNCHANGED stage
  BY DEF Speaks
<1>2. stage = "open" /\ via' = via
  BY DEF Speaks
<1>3. CASE Passes(Decoded(c)) /\ UNCHANGED stage
  BY <1>1, <1>2, <1>3, StreamPassed
<1>4. CASE c.other /\ events' = <<>> /\ UNCHANGED told /\ Judged("swapped", None, None, None)
  <2>1. stage' = "over"
    BY <1>4 DEF Judged
  <2>2. ~upstream.full /\ via # "zen"
    BY <1>4, ChunkFacts
  <2>3. /\ upstream' \in [host : Nat, gated : BOOLEAN, full : BOOLEAN, frames : Nat,
                          begun : SUBSET Index, text : Seq(Nat), reason : AReason]
        /\ upstream'.full = upstream.full /\ upstream'.host = upstream.host
        /\ upstream'.text = upstream.text
    <3>1. PICK started : started = IF c.call = None \/ c.call.name \notin Names THEN upstream.begun
                               ELSE upstream.begun \union {c.call.index}
      OBVIOUS
    <3>2. PICK why : why = IF c.reason = None THEN upstream.reason ELSE c.reason
      OBVIOUS
    <3>3. started \subseteq Index /\ why \in AReason
      BY <3>1, <3>2, ChunkFacts DEF StreamInv, StreamTypeOK
    <3>4. upstream' = [upstream EXCEPT !.frames = upstream.frames + 1, !.begun = started,
                         !.text = upstream.text, !.reason = why]
      BY <1>1, <2>2, <3>1, <3>2
    <3>5. upstream \in [host : Nat, gated : BOOLEAN, full : BOOLEAN, frames : Nat,
                        begun : SUBSET Index, text : Seq(Nat), reason : AReason]
      BY DEF StreamInv, StreamTypeOK
    <3>6. upstream.frames + 1 \in Nat
      BY <3>5
    <3> QED BY <3>3, <3>4, <3>5, <3>6
  <2>4. StreamTypeOK' /\ Habits' /\ BegunKnown' /\ NothingYet'
    BY <1>2, <1>4, <2>1, <2>2, <2>3 DEF StreamInv, StreamTypeOK, Habits, BegunKnown, NothingYet
  <2> QED BY <1>4, <2>1, <2>3, <2>4, StreamSilent
<1> QED BY <1>1, <1>3, <1>4

LEMMA StreamStep == StreamInv /\ [ConversationsNext]_conversationVars => StreamInv'
<1> SUFFICES ASSUME StreamInv, [ConversationsNext]_conversationVars PROVE StreamInv'
  OBVIOUS
<1>1. CASE StreamsNext
  BY <1>1, StreamQuiet, StreamDone, StreamSpeaksOut DEF StreamsNext
<1>2. CASE UNCHANGED streamVars
  <2>1. UNCHANGED <<via, stage, upstream, said, events, told>>
    BY <1>2 DEF streamVars
  <2>2. Expected' = Expected
    BY <2>1 DEF Expected, Outranked, Dropped, Calls, Text, Think, Usages, Reason, Blank
  <2>3. StreamTypeOK' /\ Habits' /\ BegunKnown' /\ NothingYet'
    BY <2>1 DEF StreamInv, StreamTypeOK, Habits, BegunKnown, NothingYet, Nothing
  <2>4. PartsHeard'
    BY <2>1, <2>2 DEF StreamInv, HeardAsSaid, PartsHeard, KindsOf, Nothing
  <2>5. CallsWhole' /\ TextShown'
    BY <2>1 DEF StreamInv, HeardAsSaid, CallsWhole, TextShown
  <2> QED BY <2>3, <2>4, <2>5 DEF StreamInv, HeardAsSaid
<1>3. StreamsNext \/ UNCHANGED streamVars
  BY DEF ConversationsNext, Within, conversationVars
<1> QED BY <1>1, <1>2, <1>3

\* Whatever an upstream says, however its frames lie together, is heard as it was said
\* (openai_chunk.py 183-196, zen/client.py 318-359, codearts/events.py 149-169): for any
\* channels, answers, call positions and lengths of streams.
THEOREM HeardAsItWasSaid == ConversationsSpec => []HeardAsSaid
<1>1. ConversationsInit => StreamInv
  BY StreamInitial
<1>2. StreamInv /\ [ConversationsNext]_conversationVars => StreamInv'
  BY StreamStep
<1>3. StreamInv => HeardAsSaid
  BY DEF StreamInv
<1> QED BY <1>1, <1>2, <1>3, PTL DEF ConversationsSpec

\* Both ends together, as they are checked: nothing is lost or doubled between the frames
\* of the upstream and the executor, nor between the attempts and the client
\* but what the filter says again around a leaked call.  The hypothesis is that of
\* AnswerIsOne.
THEOREM AnswersStayWhole ==
  ASSUME RotateHeld = FALSE
  PROVE  ConversationsSpec => []AnswersWhole
<1>1. ConversationsSpec => []HeardAsSaid
  BY HeardAsItWasSaid
<1>2. ConversationsSpec => []OneAnswer
  BY AnswerIsOne
<1>3. HeardAsSaid /\ OneAnswer => AnswersWhole
  BY DEF AnswersWhole
<1> QED BY <1>1, <1>2, <1>3, PTL
=============================================================================
