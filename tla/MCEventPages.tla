---------------------------- MODULE MCEventPages ----------------------------
(***************************************************************************)
(* The organiser and a guest use one tab.  Two mutations may be under way, *)
(* among them two joins that share a key; the calendar is reached by       *)
(* creating an event.                                                      *)
(***************************************************************************)
EXTENDS EventPages, TLC

CONSTANTS u1, u2, c1, c2

MCKindsOf ==
  (c1 :> {"join", "delete", "create"}) @@ (c2 :> {"join", "leave", "update", "login", "logout"})
=============================================================================
