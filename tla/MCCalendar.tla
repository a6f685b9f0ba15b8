----------------------------- MODULE MCCalendar -----------------------------
(***************************************************************************)
(* February 2024, a leap year, to February 2025, seen from UTC+3.  e1 is   *)
(* on 29 February in UTC and on 1 March in the browser, e2 on New Year's   *)
(* Eve in UTC only, e3 earlier than e1 on the same day of the browser.     *)
(***************************************************************************)
EXTENDS Calendar, TLC

CONSTANTS e1, e2, e3

MCAt == (e1 :> 59 * 24 + 23) @@ (e2 :> 365 * 24 + 22) @@ (e3 :> 59 * 24 + 21)
=============================================================================
