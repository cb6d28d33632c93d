------------------------------- MODULE FrontDoor -------------------------------
(***************************************************************************)
(* What stands between a caller and the service: a request is let in as    *)
(* somebody (an API key of an active user, or the cookie of a session:     *)
(* api/deps), and then as often as the quotas of key and user allow        *)
(* (KeyQuota), or, an admin, starts logins to upstream accounts            *)
(* (UpstreamLogins).                                                       *)
(*                                                                         *)
(* All of it at once is too much to explore: a behaviour follows one       *)
(* scene, a set of operations that work against each other.                *)
(***************************************************************************)
EXTENDS Accounts, KeyQuota, UpstreamLogins

CONSTANT Scenes            \* bound of the model: those that are followed

ASSUME DoorConstants ==
  /\ Scenes \subseteq {"guess", "govern", "shell", "quota"} \union Channel
  /\ User \subseteq Person /\ Starter \subseteq Person /\ InFile # {}

VARIABLE scene

doorVars == <<accountVars, quotaVars, loginVars, scene>>

\* one browser, and one account, where one is enough
One == CHOOSE b \in Browser : TRUE
Owner == CHOOSE u \in InFile : TRUE

\* _api_key_principal, and principal_from_request
Known(q) ==
  IF KeyOf[q] # None
  THEN up /\ Active(UserOf[q])
  ELSE \E b \in Browser : Session(b) /\ jar[b].of = UserOf[q] /\ ~account[UserOf[q]].must

\* scenes begin before anybody has logged in, or, where that is not their matter, after
DoorInit ==
  /\ scene \in Scenes
  /\ AccountsInit
  /\ jar = [b \in Browser |-> IF scene = "quota" /\ b = One THEN Cookie(Owner, 0) ELSE Nobody]
  /\ QuotaInit
  /\ LoginsInit
  /\ scene # "quota" => \A s \in Subject : ~Limited(s)

-----------------------------------------------------------------------------
Guesses ==
  \/ \E b \in Browser, u \in Person, p \in Passwords : LoginAsks(b, u, p)
  \/ \E b \in Browser, p \in Passwords : ChangeAsks(b, p, FromFile)
  \/ \E b \in Browser : Entering(b)
  \/ TimeGoesOn

\* nobody forgets his password
Enters(b) ==
  \/ \E u \in Person : Active(u) /\ account[u].pass # Random /\ LoginAsks(b, u, account[u].pass)
  \/ Entering(b)

Governs ==
  \/ \E b \in Browser :
       \/ Enters(b)
       \/ \E u \in Person : Administering(b, u)
       \/ jar[b] # Nobody /\ ChangeAsks(b, account[jar[b].of].pass, FromFile)
       \/ LogOut(b)
  \/ \E u \in Person : Activate(u, FromFile)
  \/ TimeGoesOn

Shell ==
  \/ \E u \in Person : CommandLine(u)
  \/ Enters(One)
  \/ \E u \in Person : DisableUser(One, u) \/ UpdateRole(One, u, "viewer")
  \/ ServiceStarts
  \/ TimeGoesOn

\* the counts live in the process
StartsAgain ==
  /\ ServiceStarts
  /\ events' = [s \in Subject |-> <<>>] /\ seen' = events'
  /\ inflight' = [s \in Subject |-> 0]
  /\ held' = [q \in Req |-> {}] /\ busy' = {}
  /\ UNCHANGED <<quota, spent>>

Requests ==
  \/ /\ \/ \E q \in Req : (Known(q) /\ Ask(q)) \/ Record(q) \/ Finish(q)
        \/ \E s \in Subject, new \in Quotas : SetQuota(s, new)
        \/ Midnight
        \/ WindowsSlide
     /\ UNCHANGED accountVars
  \/ \E b \in Browser : LogOut(b) /\ UNCHANGED quotaVars
  \/ StartsAgain

DoorNext ==
  /\ UNCHANGED scene
  /\ \/ scene = "guess" /\ Guesses /\ UNCHANGED <<quotaVars, loginVars>>
     \/ scene = "govern" /\ Governs /\ UNCHANGED <<quotaVars, loginVars>>
     \/ scene = "shell" /\ Shell /\ UNCHANGED <<quotaVars, loginVars>>
     \/ scene = "quota" /\ Requests /\ UNCHANGED loginVars
     \/ scene \in Channel /\ LoginsNext(scene) /\ UNCHANGED <<accountVars, quotaVars>>

DoorSpec == DoorInit /\ [][DoorNext]_doorVars

\* a client keeps asking, the engine ends every request, time passes and with it the
\* day; no fairness is assumed of an administrator, a session or the process
DoorFairness ==
  LET InQuota(A) == scene = "quota" /\ A /\ UNCHANGED <<accountVars, loginVars, scene>> IN
  /\ \A q \in Req : /\ WF_doorVars(InQuota(Known(q) /\ Admit(q, {})))
                    /\ WF_doorVars(InQuota(Finish(q)))
  /\ WF_doorVars(InQuota(Midnight))
  /\ WF_doorVars(InQuota(WindowsSlide))

FairDoorSpec == DoorSpec /\ DoorFairness

-----------------------------------------------------------------------------
(* Properties.                                                             *)

Rivals(q) ==
  \/ \E p \in Req \ {q} : Ask(p)
  \/ \E faulty \in Faults(Layers(q)) : RefuseByUser(q, faulty)
  \/ \E s \in Subject, new \in Quotas : SetQuota(s, new)

\* A quota delays, it never locks out: once the others are quiet and no refusal on the
\* way burns the window, a client that stays known and keeps asking is served again and
\* again, for windows slide, slots come back and days end.
NeverLockedOut ==
  \A q \in Req :
    <>[](scene = "quota" /\ Known(q)) /\ <>[][~Rivals(q)]_doorVars => []<>(q \in busy)

=============================================================================
