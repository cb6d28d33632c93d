------------------------------- MODULE MCDoor -------------------------------
(***************************************************************************)
(* A small instance of FrontDoor: two names, one of them in users.txt and  *)
(* in ADMIN_USERNAMES; two browsers at two addresses; two clients of one   *)
(* user, one of them through an API key.                                   *)
(***************************************************************************)
EXTENDS FrontDoor

CONSTANTS k1, u1, u2, q1, q2, b1, b2, h1, h2, ip1, ip2

Addresses == [b \in Browser |-> IF b = b1 THEN ip1 ELSE ip2]

\* two admins where they may meet; a third login where a row may be deleted under a merge
AdminsOf == [c \in Channel |-> IF c \in {"officeace", "codearts"} THEN {u1} ELSE {u1, u2}]
LoginsOf == [c \in Channel |-> IF c = "officeace" THEN 3 ELSE 2]

OneKeyOnePlayground == [q \in Req |-> IF q = q1 THEN k1 ELSE None]
SameUser == [q \in Req |-> u1]
Tokens == [q \in Req |-> IF q = q1 THEN 2 ELSE 1]

\* off, everything on, and one that limits tokens alone
QuotaChoices ==
  {NoQuota,
   [daily |-> TRUE, rpm |-> 2, tpm |-> 3, max_concurrency |-> 1],
   [daily |-> FALSE, rpm |-> 0, tpm |-> 2, max_concurrency |-> 0]}
=============================================================================
