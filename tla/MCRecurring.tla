----------------------------- MODULE MCRecurring -----------------------------
(***************************************************************************)
(* RecurringCharges for TLC: a calendar of short months.                   *)
(***************************************************************************)
EXTENDS RecurringCharges

MCMonthLengths == <<3, 2>>

=============================================================================
