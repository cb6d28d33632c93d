------------------------------ MODULE MCEngine ------------------------------
(***************************************************************************)
(* Small instances of ChatEngine.                                          *)
(***************************************************************************)
EXTENDS ChatEngine, TLC

CONSTANTS c1, c2, c3, p1, p2, r1, r2, r3, m1, m2

OneProvider == [c \in Cred |-> p1]
TwoProviders == [c \in Cred |-> IF c = c1 THEN p1 ELSE p2]
SameModel == [r \in Req |-> m1]
NoHeader == {NoRetry}
=============================================================================
