------------------------------ MODULE Turnstile ------------------------------
(***************************************************************************)
(* What a pacer with an in-flight limit promises, and all its callers rely *)
(* on: a bucket never admits a caller while it is full, and who is inside  *)
(* stays inside until he leaves.  How callers wait, in what order they are *)
(* woken and how long they sleep is left open.                             *)
(***************************************************************************)
EXTENDS Integers, FiniteSets

CONSTANTS Bucket, Caller, Places

VARIABLES
  inside,       \* the callers a bucket has admitted
  places        \* how many it admits at a time, 0 if it does not count

gateVars == <<inside, places>>

Open(b) == places = 0 \/ Cardinality(inside[b]) < places

Enter(r, b) ==
  /\ Open(b)
  /\ \A d \in Bucket : r \notin inside[d]
  /\ inside' = [inside EXCEPT ![b] = @ \union {r}]
  /\ UNCHANGED places

Leave(r, b) ==
  /\ r \in inside[b]
  /\ inside' = [inside EXCEPT ![b] = @ \ {r}]
  /\ UNCHANGED places

Resize ==
  /\ places' \in Places
  /\ UNCHANGED inside

GateInit ==
  /\ inside = [b \in Bucket |-> {}]
  /\ places \in Places

GateNext ==
  \/ \E r \in Caller, b \in Bucket : Enter(r, b) \/ Leave(r, b)
  \/ Resize

GateSpec == GateInit /\ [][GateNext]_gateVars
=============================================================================
