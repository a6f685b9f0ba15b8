---------------------------- MODULE SessionChain ----------------------------
(***************************************************************************)
(* What the refresh-token scheme promises: a login opens a session with    *)
(* one usable token; a refresh replaces the usable token by a new one; a   *)
(* logout, a detected reuse or expiry leaves the session without any, for  *)
(* good.  RefreshTokens, the model of auth.service.ts with its rows and    *)
(* its racing calls, is shown to implement this module.                    *)
(***************************************************************************)
EXTENDS Naturals

CONSTANTS
  Families,  \* sessions: one per login
  MaxPairs   \* bound: token pairs signed

VARIABLES
  usable,  \* the token that can be refreshed, 0 when there is none
  opened,  \* sessions that have been opened
  given    \* tokens handed out so far

vars == <<usable, opened, given>>

Fresh == (1..MaxPairs) \ given

Init ==
  /\ usable = [f \in Families |-> 0]
  /\ opened = {}
  /\ given = {}

\* A login or a registration.
SignIn(f, p) ==
  /\ f \notin opened
  /\ opened' = opened \cup {f}
  /\ usable' = [usable EXCEPT ![f] = p]
  /\ given' = given \cup {p}

\* A refresh replaces the usable token by one never handed out before.
Rotate(f, p) ==
  /\ usable[f] # 0
  /\ usable' = [usable EXCEPT ![f] = p]
  /\ given' = given \cup {p}
  /\ UNCHANGED opened

\* A retry is answered with a token of a session closed in the meantime.
HandOutDead(p) ==
  /\ given' = given \cup {p}
  /\ UNCHANGED <<usable, opened>>

\* Logout, logout everywhere, detected reuse, removal of expired rows.
Close(S) ==
  /\ usable' = [f \in Families |-> IF f \in S THEN 0 ELSE usable[f]]
  /\ UNCHANGED <<opened, given>>

Next ==
  \/ \E f \in Families, p \in Fresh : SignIn(f, p) \/ Rotate(f, p)
  \/ \E p \in Fresh : HandOutDead(p)
  \/ \E S \in SUBSET Families : Close(S)

Spec == Init /\ [][Next]_vars
=============================================================================
