------------------------------- MODULE MCCalls -------------------------------
(***************************************************************************)
(* Small instances of UpstreamCalls: attempts on two accounts.             *)
(***************************************************************************)
EXTENDS UpstreamCalls

CONSTANTS a1, a2, b1, b2, r1, r2, r3

\* Two attempts want a model only one account has, the third one that both have:
\* up to names, every way in which three attempts share two accounts.
OwnPool == [r \in Caller |-> IF r = r3 THEN Cred ELSE {a1}]

OwnBucket == [c \in Cred |-> IF c = a1 THEN b1 ELSE b2]

\* a window of two starts, a limit of one without a window, no pacing
AnyPace == {[limit |-> 2, window |-> 2, min |-> 1, max |-> 1],
            [limit |-> 1, window |-> 0, min |-> 0, max |-> 0],
            [limit |-> 0, window |-> 0, min |-> 0, max |-> 0]}
=============================================================================
