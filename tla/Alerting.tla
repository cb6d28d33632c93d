------------------------------ MODULE Alerting ------------------------------
(***************************************************************************)
(* AlertTask._dispatch (tasks/alerting.py) over the rows of AlertRepository *)
(* (db/repo.py).  A condition that holds in for_ticks rounds in a row is   *)
(* delivered and recorded, again after each silence window; an alert that  *)
(* misses clear_ticks rounds in a row resolves its rows and is delivered   *)
(* as resolved.  Streaks and the set of active alerts are in memory; a new *)
(* process finds the active ones again among the unresolved rows.          *)
(*                                                                         *)
(* The module is about one round at a time, as the runner makes sure.  A   *)
(* row is its age, counted up to Keep, and whether it is resolved.         *)
(*                                                                         *)
(* A definition marked `slip' is a variant with a likely slip; no action   *)
(* uses it.                                                                *)
(***************************************************************************)
EXTENDS Naturals, FiniteSetsExt

CONSTANTS
  Topic,        \* what an alert is about: rule and scope
  ForTicks, ClearTicks,
  Silence,      \* silence_minutes
  Keep          \* how long retention keeps a row

ASSUME AlertConstants ==
  /\ {ForTicks, ClearTicks, Keep} \subseteq Nat \ {0}
  /\ Silence \in 1 .. Keep

VARIABLES
  rows,         \* alert_events of a topic
  active,       \* _active
  hits,         \* _streak
  misses,       \* _clear_streak
  watch         \* what the round is at

alertVars == <<rows, active, hits, misses, watch>>

Row == [age : 0 .. Keep, open : BOOLEAN]
Quiet == [at |-> "idle", left |-> {}, on |-> {}, seen |-> {}]
Open(t) == {r \in rows[t] : r.open}

AlertInit ==
  /\ rows = [t \in Topic |-> {}]
  /\ active = {}
  /\ hits = [t \in Topic |-> 0]
  /\ misses = [t \in Topic |-> 0]
  /\ watch = Quiet

\* slip: a process starts without active alerts
RebuiltNothing == {}

\* _active as the constructor rebuilds it.
Rebuilt == {t \in Topic : Open(t) # {}}

AlertStarts ==
  /\ active' = Rebuilt
  /\ hits' = [t \in Topic |-> 0]
  /\ misses' = [t \in Topic |-> 0]
  /\ watch' = Quiet
  /\ UNCHANGED rows

----------------------------------------------------------------------------
(* One round: first the alerts whose condition holds, then the active ones *)
(* that are not among them.                                                *)

WatchBegins(holding) ==
  /\ watch' = [Quiet EXCEPT !.at = "hits", !.left = holding, !.seen = holding]
  /\ UNCHANGED <<rows, active, hits, misses>>

\* last_ts: the rows, resolved ones included, of the last silence window
Silenced(t) == t \in active /\ \E r \in rows[t] : r.age < Silence

More(n, ticks) == IF n < ticks THEN n + 1 ELSE n

Hit(t) ==
  /\ watch.at = "hits"
  /\ t \in watch.left
  /\ hits' = [hits EXCEPT ![t] = More(@, ForTicks)]
  /\ misses' = [misses EXCEPT ![t] = 0]
  /\ \/ /\ hits'[t] < ForTicks \/ Silenced(t)
        /\ watch' = [watch EXCEPT !.left = @ \ {t}]
     \/ /\ hits'[t] >= ForTicks /\ ~Silenced(t)
        /\ watch' = [watch EXCEPT !.at = "deliver", !.left = @ \ {t}, !.on = {t}]
  /\ UNCHANGED <<rows, active>>

\* The row is written after the delivery, whether that worked or not.
Deliver(t) ==
  /\ watch.at = "deliver"
  /\ t \in watch.on
  /\ rows' = [rows EXCEPT ![t] = @ \cup {[age |-> 0, open |-> TRUE]}]
  /\ active' = active \cup {t}
  /\ watch' = [watch EXCEPT !.at = "hits", !.on = {}]
  /\ UNCHANGED <<hits, misses>>

TurnToMisses ==
  /\ watch.at = "hits"
  /\ watch.left = {}
  /\ watch' = [watch EXCEPT !.at = "misses", !.left = active \ watch.seen]
  /\ UNCHANGED <<rows, active, hits, misses>>

Closed(r) == [r EXCEPT !.open = FALSE]

\* resolve(): every open row of the topic.
Resolved(t) == {Closed(r) : r \in rows[t]}

\* slip: the misses are counted anew in each round
MissedOnce(t) == 1

Missed(t) == More(misses[t], ClearTicks)

Miss(t) ==
  /\ watch.at = "misses"
  /\ t \in watch.left
  /\ hits' = [hits EXCEPT ![t] = 0]
  /\ \/ /\ Missed(t) < ClearTicks
        /\ misses' = [misses EXCEPT ![t] = Missed(t)]
        /\ UNCHANGED <<rows, active>>
     \/ /\ Missed(t) >= ClearTicks
        /\ misses' = [misses EXCEPT ![t] = 0]
        /\ active' = active \ {t}
        /\ rows' = [rows EXCEPT ![t] = Resolved(t)]
  /\ watch' = [watch EXCEPT !.left = @ \ {t}]

WatchStep ==
  \/ \E t \in Topic : Hit(t) \/ Deliver(t) \/ Miss(t)
  \/ TurnToMisses

WatchDone == watch.at = "misses" /\ watch.left = {}

\* Conditions that did not hold this time begin anew.
WatchLeaves ==
  /\ hits' = [t \in Topic |-> IF t \in watch.seen THEN hits[t] ELSE 0]
  /\ watch' = Quiet
  /\ UNCHANGED <<rows, active, misses>>

----------------------------------------------------------------------------
(* The rest of the world.                                                  *)

\* resolve_by_id: an operator closes one row.
CloseRow(t) ==
  /\ \E r \in Open(t) : rows' = [rows EXCEPT ![t] = (@ \ {r}) \cup {Closed(r)}]
  /\ UNCHANGED <<active, hits, misses, watch>>

\* Retention deletes rows by their age alone.
Prune(t) ==
  /\ \E r \in rows[t] : r.age = Keep
  /\ rows' = [rows EXCEPT ![t] = {r \in @ : r.age < Keep}]
  /\ UNCHANGED <<active, hits, misses, watch>>

\* Minutes pass.  A round is over within one (the delivery has a budget).
RowsAge ==
  /\ watch.at = "idle"
  /\ \E t \in Topic : \E r \in rows[t] : r.age < Keep
  /\ rows' = [t \in Topic |-> {[r EXCEPT !.age = More(@, Keep)] : r \in rows[t]}]
  /\ UNCHANGED <<active, hits, misses, watch>>
=============================================================================
