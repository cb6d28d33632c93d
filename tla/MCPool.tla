------------------------------- MODULE MCPool -------------------------------
(***************************************************************************)
(* Small instances of CredentialPool.                                      *)
(***************************************************************************)
EXTENDS CredentialPool, TLC

CONSTANTS c1, c2, c3, p1, p2

OneProvider == [c \in Cred |-> p1]
TwoProviders == [c \in Cred |-> IF c = c3 THEN p2 ELSE p1]

\* no header, an instant between the constant and the day, one beyond the day
RetryChoices == {NoRetry, 2, 9}
AlikeAccounts == Permutations(Cred)
=============================================================================
