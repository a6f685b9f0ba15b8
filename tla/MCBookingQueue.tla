--------------------------- MODULE MCBookingQueue ---------------------------
(***************************************************************************)
(* BookingQueue with small sets.  Calls, workers and users are             *)
(* interchangeable in the safety runs.                                     *)
(***************************************************************************)
EXTENDS BookingQueue, TLC

Symmetry == Permutations(Calls) \cup Permutations(Workers) \cup Permutations(Users)
=============================================================================
