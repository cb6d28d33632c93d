------------------------------- MODULE MCTasks -------------------------------
(***************************************************************************)
(* A small instance of BackgroundTasks.                                    *)
(***************************************************************************)
EXTENDS BackgroundTasks

CONSTANTS c1, a1, a2, s1, admin, login

\* tasks that share state are followed together
FollowedTogether ==
  {{"refresh"}, {"checkin"}, {"quota_probe", "alert"}, {"retention"}, {"growth"}, {}}

\* the order of start()
ProbeThenRefresh ==
  [tasks \in FollowedTogether |->
     SelectSeq(<<"quota_probe", "refresh">>, LAMBDA k : k \in tasks)]

\* two credentials of one upstream account
InOrder == <<a1, a2>>
OneScope == [a \in {a1, a2} |-> s1]

\* all day long, or in one slot
Plans == {{}, {1}}
\* what an upstream offers, a little at a time
FewOffers == {{}, {"trip"}, {"task"}, {"tier"}, {"cards"}, {"chances"}, {"energy"}}
\* the bounds of the pacer; neither may be 2
Bound == {"pacer_min_seconds", "pacer_max_seconds"}
UpTo1 == [k \in Bound |-> 0 .. 1]
OnlyOrdered == {e \in [Bound -> 0 .. 1] : e["pacer_min_seconds"] <= e["pacer_max_seconds"]}
NoWait == [k \in Bound |-> 0]
\* an attempt that failed, and the one that served
Tried(ok) ==
  [username |-> "u", provider |-> "p", model |-> "m", ok |-> ok, priced |-> FALSE,
   output_tokens |-> 1, latency_ms |-> 1, ttfb_ms |-> Null]
Attempts == {Tried(TRUE), Tried(FALSE)}
=============================================================================
