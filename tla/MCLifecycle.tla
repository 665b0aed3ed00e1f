---------------------------- MODULE MCLifecycle ----------------------------
(* An endpoint and a heartbeat share one permit over two configurations. *)
EXTENDS Lifecycle
=============================================================================
