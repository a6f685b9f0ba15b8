--------------------------- MODULE MCOutboxRelay ---------------------------
(***************************************************************************)
(* OutboxRelay with few rows.  Rows, events and relays are interchangeable *)
(* in the safety runs.                                                     *)
(***************************************************************************)
EXTENDS OutboxRelay, TLC

Symmetry == Permutations(Rows) \cup Permutations(Events) \cup Permutations(Relays)
=============================================================================
