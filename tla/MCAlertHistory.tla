--------------------------- MODULE MCAlertHistory ---------------------------
(* The instances of MCAlerting, with the history of the endpoint. *)
EXTENDS MCAlerting, AlertHistory

=============================================================================
