------------------------------ MODULE MCUptime ------------------------------
(* Days of two hours, so that a month is four of them. *)
EXTENDS Uptime
=============================================================================
