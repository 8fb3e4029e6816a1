----------------------------- MODULE MCMailQueue -----------------------------
(***************************************************************************)
(* MailQueue for TLC: the code's table of delays.                          *)
(***************************************************************************)
EXTENDS MailQueue

MCBackoff == <<1, 5, 15, 60, 360, 1440>>

=============================================================================
