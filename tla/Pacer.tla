-------------------------------- MODULE Pacer --------------------------------
(***************************************************************************)
(* tasks/pacer.py in its concurrent mode, as the chat channels use it: a   *)
(* bucket per account, an optional limit of requests in flight, an         *)
(* optional sliding window of starts, and a minimal interval between two   *)
(* starts on an idle bucket.  All settings can change at any time.         *)
(*                                                                         *)
(* The lock guards sections without an await, so that each is one step.    *)
(* The event _wake is cleared in such a section and awaited right after    *)
(* it: what it does is to send every waiting caller back to the loop when  *)
(* some caller gives a slot back.  Times are ages, sleeps what is left.    *)
(*                                                                         *)
(* `A wrong X' is a variant of X with a likely slip; no action uses it.    *)
(***************************************************************************)
EXTENDS Integers, FiniteSetsExt, SequencesExt

CONSTANTS
  Caller,
  Bucket,
  Paces,        \* settings: [limit, window, min, max]; 0 switches one off
  SwitchOnBusy, \* whether pacing is switched off or on while calls run
  Absent        \* no start known

PaceType == [limit : Nat, window : Nat, min : Nat, max : Nat]

ASSUME PacerConstants ==
  /\ IsFiniteSet(Caller)
  /\ IsFiniteSet(Paces) /\ Paces \subseteq PaceType
  /\ \A p \in Paces : p.min <= p.max
  /\ Absent \notin Int
  /\ SwitchOnBusy \in BOOLEAN

\* No age beyond these makes a difference.
LongestWindow == Max({p.window : p \in Paces})
LongestInterval == Max({p.max : p \in Paces})

VARIABLES
  pace,         \* the settings in force
  slots,        \* Pacer._inflight
  begun,        \* Pacer._bucket_started: its age, negative if still to come
  starts,       \* Pacer._starts: ages, the oldest first
  turn          \* per caller where wait_turn stands

pacerVars == <<pace, slots, begun, starts, turn>>

\* at: where; left: of its sleep; mark: age of the start it put in the window
Standing == {"out", "entering", "asking", "waiting", "dozing", "pacing",
             "granted", "passing", "closing", "done"}
TurnOf(where, left, mark) == [at |-> where, left |-> left, mark |-> mark]

PacerInit ==
  /\ pace \in Paces
  /\ slots = [b \in Bucket |-> 0]
  /\ begun = [b \in Bucket |-> Absent]
  /\ starts = [b \in Bucket |-> <<>>]
  /\ turn = [r \in Caller |-> TurnOf("out", 0, Absent)]

Off(p) == p.max = 0 /\ p.limit = 0
Capped == pace.limit > 0
Windowed == Capped /\ pace.window > 0

\* A list of ages, the oldest first, from the first below a limit on.
Younger(s, most) ==
  LET young == {i \in DOMAIN s : s[i] < most}
  IN IF young = {} THEN <<>> ELSE SubSeq(s, Min(young), Len(s))

Pruned(b) == IF Windowed THEN Younger(starts[b], pace.window) ELSE starts[b]

WindowFull(b) == Windowed /\ Len(Pruned(b)) >= pace.limit

\* A wrong Full: one too many.
SlotsFullLate(b) == Capped /\ slots[b] > pace.limit

SlotsFull(b) == Capped /\ slots[b] >= pace.limit
-----------------------------------------------------------------------------
(* wait_turn                                                               *)

\* With neither interval nor limit it returns at once and counts nothing.
PassFreely(r) ==
  /\ turn[r].at = "entering"
  /\ Off(pace)
  /\ turn' = [turn EXCEPT ![r].at = "passing"]
  /\ UNCHANGED <<pace, slots, begun, starts>>

InLoop(r) ==
  \/ turn[r].at = "asking"
  \/ turn[r].at = "entering" /\ ~Off(pace)

\* What is missing to the interval since the last start, if one is known.
Missing(b, interval) ==
  IF begun[b] = Absent THEN 0 ELSE Max({interval - begun[b], 0})

\* A bucket that is busy admits at once; an idle one sets the time of the start.
TakeSlot(r, b) ==
  /\ InLoop(r)
  /\ ~WindowFull(b) /\ ~SlotsFull(b)
  /\ slots' = [slots EXCEPT ![b] = @ + 1]
  /\ starts' = [starts EXCEPT ![b] =
                  IF Windowed THEN Append(Pruned(b), 0) ELSE @]
  /\ \E interval \in pace.min .. pace.max :
       LET sleep == IF slots[b] > 0 THEN 0 ELSE Missing(b, interval) IN
       /\ begun' = [begun EXCEPT ![b] = IF slots[b] > 0 THEN @ ELSE -sleep]
       /\ turn' = [turn EXCEPT ![r] =
                     TurnOf(IF sleep = 0 THEN "granted" ELSE "pacing", sleep,
                            IF Windowed THEN 0 ELSE Absent)]
  /\ UNCHANGED pace

\* The window is full: sleep until its oldest start leaves it.
Doze(r, b) ==
  /\ InLoop(r)
  /\ WindowFull(b)
  /\ starts' = [starts EXCEPT ![b] = Pruned(b)]
  /\ turn' = [turn EXCEPT ![r] =
                TurnOf("dozing", pace.window - Head(Pruned(b)), Absent)]
  /\ UNCHANGED <<pace, slots, begun>>

\* Every slot is taken: wait for one to be given back.
Wait(r, b) ==
  /\ InLoop(r)
  /\ ~WindowFull(b) /\ SlotsFull(b)
  /\ starts' = [starts EXCEPT ![b] = Pruned(b)]
  /\ turn' = [turn EXCEPT ![r] = TurnOf("waiting", 0, Absent)]
  /\ UNCHANGED <<pace, slots, begun>>

Awake(r) ==
  /\ turn[r].at \in {"dozing", "pacing"}
  /\ turn[r].left = 0
  /\ turn' = [turn EXCEPT ![r].at = IF @ = "dozing" THEN "asking" ELSE "granted"]
  /\ UNCHANGED <<pace, slots, begun, starts>>
-----------------------------------------------------------------------------
(* release, and what a cancelled caller gives back.                        *)

\* A wrong Woken: the event is not set.
WokenNobody(r, where, b) == [turn EXCEPT ![r] = TurnOf(where, 0, Absent)]

\* A slot that was given back wakes whoever waits, on whichever bucket.
Woken(r, where, b) ==
  [q \in Caller |->
     IF q = r THEN TurnOf(where, 0, Absent)
     ELSE IF slots[b] > 0 /\ turn[q].at = "waiting"
     THEN TurnOf("asking", 0, Absent) ELSE turn[q]]

\* A wrong Released: takes a slot nobody holds.
ReleasedTwice(b) ==
  slots' = [slots EXCEPT ![b] = Max({@ - 2, 0})]

Released(b) ==
  slots' = [slots EXCEPT ![b] = Max({@ - 1, 0})]

\* The call is over: paced() gives the slot back, also one it never took.
Release(r, b) ==
  /\ turn[r].at \in {"granted", "passing"}
  /\ Released(b)
  /\ turn' = Woken(r, "closing", b)
  /\ UNCHANGED <<pace, begun, starts>>

\* Its own start, wherever it is now in the window.
Unmarked(s, mark) ==
  LET own == {i \in DOMAIN s : s[i] = mark}
  IN IF own = {} THEN s ELSE RemoveAt(s, Min(own))

CancelWait(r) ==
  /\ turn[r].at \in {"entering", "asking", "waiting", "dozing"}
  /\ turn' = [turn EXCEPT ![r] = TurnOf("closing", 0, Absent)]
  /\ UNCHANGED <<pace, slots, begun, starts>>

\* Slot and window are given back; the time set for the start is not.
CancelSleep(r, b) ==
  /\ turn[r].at = "pacing"
  /\ Released(b)
  /\ starts' = [starts EXCEPT ![b] = Unmarked(@, turn[r].mark)]
  /\ turn' = Woken(r, "closing", b)
  /\ UNCHANGED <<pace, begun>>

SetPace ==
  /\ pace' \in Paces \ {pace}
  /\ \/ SwitchOnBusy
     \/ ~Off(pace) /\ ~Off(pace')
     \/ \A r \in Caller : turn[r].at \in {"out", "entering", "closing", "done"}
  /\ UNCHANGED <<slots, begun, starts, turn>>

PacerAge ==
  /\ begun' = [b \in Bucket |->
                 IF begun[b] = Absent THEN Absent
                 ELSE Min({begun[b] + 1, LongestInterval})]
  /\ starts' = [b \in Bucket |->
                  [i \in DOMAIN starts[b] |-> Min({starts[b][i] + 1, LongestWindow})]]
  /\ turn' = [r \in Caller |->
                [turn[r] EXCEPT !.left = Max({@ - 1, 0}),
                                !.mark = IF @ = Absent THEN Absent
                                         ELSE Min({@ + 1, LongestWindow})]]
  /\ UNCHANGED <<pace, slots>>
=============================================================================
