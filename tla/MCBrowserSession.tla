-------------------------- MODULE MCBrowserSession --------------------------
(***************************************************************************)
(* Two tabs of one browser: one has two queries under way and its user may *)
(* sign out, in the other the user signs in and out.                       *)
(***************************************************************************)
EXTENDS BrowserSession, TLC

CONSTANTS t1, t2, k1, k2, k3

MCTabOf == (k1 :> t1) @@ (k2 :> t1) @@ (k3 :> t2)
MCKindsOf == (k1 :> {"query"}) @@ (k2 :> {"query", "logout"}) @@ (k3 :> {"login", "logout"})
=============================================================================
