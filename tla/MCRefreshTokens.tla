-------------------------- MODULE MCRefreshTokens --------------------------
(***************************************************************************)
(* RefreshTokens with small sets.  Calls and families are interchangeable  *)
(* in the runs without a liveness property.                                *)
(***************************************************************************)
EXTENDS RefreshTokens, TLC

Symmetry == Permutations(Calls) \cup Permutations(Families)
=============================================================================
