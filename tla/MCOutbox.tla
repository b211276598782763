------------------------------ MODULE MCOutbox ------------------------------
(* Outbox on small instances for TLC. *)
EXTENDS Outbox
=============================================================================
