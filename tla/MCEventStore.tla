---------------------------- MODULE MCEventStore ----------------------------
(***************************************************************************)
(* EventStore with small sets.  Four requests, three at a time: one        *)
(* creates the event, and of the next three one holds its row lock while   *)
(* two wait.  Two users are the organiser and a guest.                     *)
(***************************************************************************)
EXTENDS EventStore

CONSTANTS s1, s2, s3

\* Whoever waits for a row lock is answered, however many wait with it and
\* whatever becomes of the holder.  Sessions are interchangeable, in the actions
\* and in the fairness, so s1 stands for each.
FirstSessionAnswered == RequestAnswered(s1)
=============================================================================
